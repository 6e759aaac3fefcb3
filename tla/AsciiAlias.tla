------------------------------ MODULE AsciiAlias -------------------------------
(***************************************************************************)
(* The ASCII names that dllmain.cpp gives to items CP932 cannot spell.     *)
(* A listing gets synthetic ones, kept in the maps of the process.  A      *)
(* plugin gets one below %TEMP%\LeeyesUnicodeHack: a junction to the       *)
(* directory, a hard link to the file, or a synthetic one where neither    *)
(* can be made.  All processes share that folder.                          *)
(*                                                                         *)
(* Items are the directories of a drive and their files.  A name carries   *)
(* the 64-bit FNV hash of a path: the hash is modelled by the path, so two *)
(* paths never share one.  Extensions and the MAX_PATH limit are left out. *)
(* How a damaged path is turned into an item is the subject of WidePath.   *)
(***************************************************************************)
EXTENDS Naturals, FiniteSets

CONSTANTS
  Dirs, Names,
  Files,       \* bound: the paths, directory and name, that may hold a file
  Plain,       \* the directories and names that WideToCP932 can spell
  Wildcard,    \* the names that match the '?' spelling of the others
  Short,       \* the items whose 8.3 path exists
  Present,     \* the files that exist at first; each of the others may
  Processes,
  Busy,        \* bound: the processes that do more than call image plugins
  Nothing,     \* no alias
  MaxCalls,    \* bound: calls of all processes
  MaxFaults    \* bound: replaced files, emptied TEMPs and ended processes

Items == Dirs \union Files

ASSUME AliasAssumption ==
  /\ Files \subseteq Dirs \X Names /\ Present \subseteq Files /\ Busy \subseteq Processes
  /\ Plain \subseteq Dirs \union Names /\ Short \subseteq Items
  /\ \A f \in Short \intersect Files : f[1] \in Plain \union Short
  /\ Names \ Plain \subseteq Wildcard /\ Wildcard \subseteq Names
  /\ Dirs \intersect Files = {}
  /\ {MaxCalls, MaxFaults} \subseteq Nat

VARIABLES content,   \* the data of each file; NoData: there is no such file
          folder,    \* whether %TEMP%\LeeyesUnicodeHack exists
          temp,      \* its entries: of a file the data linked to, of a directory a state
          volume,    \* what TEMP's volume can do
          gSyntheticPathAliases, gFullyAsciiAliasCache, gPrivateDirectoryAliasCache,
          rootCached,
          listed,    \* the ANSI paths each Leeyes keeps in its lists
          call,      \* the call each process is in
          disturbed, \* history: the items whose entry in TEMP may no longer serve
          calls, faults

disk == <<content, folder, temp, volume, disturbed>>
maps == <<gSyntheticPathAliases, gFullyAsciiAliasCache, gPrivateDirectoryAliasCache, rootCached>>
vars == <<disk, maps, listed, call, calls, faults>>

\* An ANSI path: where its last name stands, and that name, a real one or "~u" and a hash.
Drive == <<"drive">>
Temp == <<"temp">>
Own(name) == <<"own", name>>
Tilde(item) == <<"~u", item>>
InTemp(dir) == <<"temp", dir>>
Path(parent, leaf) == [parent |-> parent, leaf |-> leaf]

Spelling(dir) == IF dir \in Plain \/ dir \in Short THEN Own(dir) ELSE Tilde(dir)
DirAliases == { Path(Drive, Spelling(d)) : d \in Dirs }
Direct(item) == IF item \in Dirs THEN Path(Drive, Own(item)) ELSE Path(Own(item[1]), Own(item[2]))
TempAlias(item) == Path(Temp, Tilde(item))
PrivateAlias(file) == Path(InTemp(file[1]), Own(file[2]))
ListedAs(file) == Path(Spelling(file[1]), IF file[2] \in Plain THEN Own(file[2]) ELSE Tilde(file))
ShortName(file) == Path(Spelling(file[1]), Own(file[2]))

AnsiPaths ==
  DirAliases \union { Direct(i) : i \in Items } \union { TempAlias(i) : i \in Items }
    \union { PrivateAlias(f) : f \in Files } \union { ListedAs(f) : f \in Files }
    \union { ShortName(f) : f \in Files }

ASSUME NothingAssumption == Nothing \notin AnsiPaths

\* The item that an ANSI path was made for.
ItemOf(path) ==
  IF path.leaf[1] = "~u" THEN path.leaf[2]
  ELSE IF path.parent = Drive THEN path.leaf[2] ELSE <<path.parent[2], path.leaf[2]>>

PlainPath(item) == IF item \in Dirs THEN item \in Plain ELSE item[1] \in Plain /\ item[2] \in Plain
\* Data is named by the file that held it at first and how often it has been replaced.
NoData == <<>>
Data == {NoData} \union (Items \X (1 .. MaxFaults + 1))
Value(item) == IF item \in Dirs THEN <<item, 1>> ELSE content[item]
Nowhere == [i \in Items |-> IF i \in Dirs THEN "absent" ELSE NoData]
Absent(item) == temp[item] = Nowhere[item]

Idle == [at |-> "idle", kind |-> "none", item |-> Nothing, alias |-> Nothing, created |-> FALSE,
         read |-> NoData, wanted |-> NoData, succeeded |-> FALSE]
Ready(p) == call[p].at \in {"idle", "opened", "retry", "operated"}
Steps == {"idle", "private", "short", "temp", "mkdir", "reparse", "undo", "returned", "opened", "retry", "operated"}

TypeOK ==
  /\ content \in [Files -> Data] /\ folder \in BOOLEAN /\ disturbed \subseteq Items
  /\ temp = [i \in Items |-> temp[i]]
  /\ \A d \in Dirs : temp[d] \in {"absent", "empty", "junction"}
  /\ \A f \in Files : temp[f] \in Data
  /\ volume \in [writable : BOOLEAN, junctions : BOOLEAN, links : BOOLEAN]
  /\ gSyntheticPathAliases \in [Processes -> SUBSET AnsiPaths]
  /\ gFullyAsciiAliasCache \in [Processes -> [Items -> AnsiPaths \union {Nothing}]]
  /\ gPrivateDirectoryAliasCache \in [Processes -> SUBSET Dirs]
  /\ rootCached \in [Processes -> BOOLEAN] /\ listed \in [Processes -> SUBSET AnsiPaths]
  /\ call \in [Processes -> [at : Steps, kind : {"none", "plugin", "drop", "leeyes", "delete", "move"},
                 item : Items \union {Nothing}, alias : AnsiPaths \union {Nothing},
                 created : BOOLEAN, read : Data, wanted : Data, succeeded : BOOLEAN]]
  /\ calls \in 0 .. MaxCalls /\ faults \in 0 .. MaxFaults
  /\ ~folder => \A i \in Items : Absent(i)

Init ==
  /\ \E there \in SUBSET Files : Present \subseteq there /\ content = [f \in Files |-> IF f \in there THEN <<f, 1>> ELSE NoData]
  /\ folder = FALSE /\ disturbed = {}
  /\ temp = Nowhere
  /\ volume \in [writable : BOOLEAN, junctions : BOOLEAN, links : BOOLEAN]
  /\ (volume.links => volume.junctions) /\ (volume.junctions => volume.writable)
  /\ gSyntheticPathAliases = [p \in Processes |-> {}]
  /\ gFullyAsciiAliasCache = [p \in Processes |-> [i \in Items |-> Nothing]]
  /\ gPrivateDirectoryAliasCache = [p \in Processes |-> {}]
  /\ rootCached = [p \in Processes |-> FALSE]
  /\ listed = [p \in Processes |-> {}] /\ call = [p \in Processes |-> Idle]
  /\ calls = 0 /\ faults = 0

--------------------------------------------------------------------------------
(* Names for listings, and the paths they stand for.                          *)

RememberSyntheticPathAlias(p, paths) ==
  gSyntheticPathAliases' = [gSyntheticPathAliases EXCEPT ![p] = @ \union paths]

\* The whole path is looked up, then its last name alone: two synthetic paths that end in one
\* name stand for one item.
LookupSyntheticPathAlias(p, path) ==
  path.leaf[1] = "~u" /\ \E known \in gSyntheticPathAliases[p] : known.leaf = path.leaf

\* GetOrCreateAsciiAlias for every synthetic name that a listing gives to Leeyes.
ListNames(p, paths) ==
  /\ p \in Busy /\ Ready(p) /\ ~(paths \subseteq listed[p])
  /\ listed' = [listed EXCEPT ![p] = @ \union paths]
  /\ RememberSyntheticPathAlias(p, { path \in paths : path.leaf[1] = "~u" })
  /\ call' = [call EXCEPT ![p] = Idle]
  /\ UNCHANGED <<disk, gFullyAsciiAliasCache, gPrivateDirectoryAliasCache, rootCached>>

ListDrive(p) == ListNames(p, DirAliases)

\* CopyFindDataWToA, in a directory that is itself reached by a synthetic name: the search
\* goes on in the Unicode API, and every entry has its own name.
CopyFindDataWToA(files) == { ListedAs(f) : f \in files }

\* FixupFindData, in any other: the ANSI API has given '?' for the name.  The 8.3 name is
\* taken if there is one; else the entry that the '?' find first, which is the same for all.
FixupFindData(files, first) ==
  { IF f[2] \in Plain THEN ListedAs(f) ELSE IF f \in Short THEN ShortName(f) ELSE ListedAs(first) : f \in files }

ListDirectory(p, dir) ==
  LET files == { f \in Files : f[1] = dir /\ content[f] # NoData }
  IN /\ \E path \in listed[p] : path.parent = Drive /\ ItemOf(path) = dir
     /\ IF Spelling(dir) = Tilde(dir) THEN ListNames(p, CopyFindDataWToA(files))
        ELSE \E first \in { f \in files : f[2] \in Wildcard } \union { f \in files : files \subseteq Dirs \X Plain } :
               ListNames(p, FixupFindData(files, first))

\* What a literal path reaches in the file system.
OnDisk(path) ==
  CASE path.parent = Temp -> IF path.leaf[2] \in Dirs THEN IF temp[path.leaf[2]] = "junction" THEN Value(path.leaf[2]) ELSE NoData
                             ELSE temp[path.leaf[2]]
    [] path.parent[1] = "temp" /\ path.parent # Temp ->
         IF temp[path.parent[2]] = "junction" THEN content[<<path.parent[2], path.leaf[2]>>] ELSE NoData
    [] path.parent[1] # "temp" /\ (path.leaf[1] = "~u" \/ path.parent[1] = "~u") -> NoData
    [] OTHER -> Value(ItemOf(path))

\* CreateFileAHook and the W hooks below it: GetWidePath, that is the real path of a synthetic
\* one, else the path as it is spelled.
Reached(p, path) == IF LookupSyntheticPathAlias(p, path) THEN Value(path.leaf[2]) ELSE OnDisk(path)

--------------------------------------------------------------------------------
(* Names for plugins.                                                         *)

Goto(p, step) == call' = [call EXCEPT ![p].at = step]
Answer(p, alias) == call' = [call EXCEPT ![p].at = "returned", ![p].alias = alias]
CacheResult(p, alias) ==
  /\ Answer(p, alias)
  /\ gFullyAsciiAliasCache' = [gFullyAsciiAliasCache EXCEPT ![p][call[p].item] = alias]

\* A plugin is called with a damaged path (GetPictureInfo, GetPicture, IsSupported), or a
\* file is dropped: GetShortPath.  The cache is asked before the disk.
\* A path that CP932 can spell would be its own alias: it is not damaged, and no call is made.
GetFullyAsciiAlias(p, item, kind) ==
  /\ Ready(p) /\ ~PlainPath(item) /\ ~(kind = "plugin" /\ item \in Dirs)
  /\ LET cached == gFullyAsciiAliasCache[p][item]
         started == [Idle EXCEPT !.kind = kind, !.item = item]
     IN IF cached # Nothing \/ Value(item) = NoData
        THEN call' = [call EXCEPT ![p] = [started EXCEPT !.at = "returned", !.alias = cached]]
        ELSE call' = [call EXCEPT ![p] = [started EXCEPT !.at =
                        IF item \in Files /\ item[2] \in Plain THEN "private" ELSE "short"]]
  /\ UNCHANGED <<disk, gFullyAsciiAliasCache, gSyntheticPathAliases, gPrivateDirectoryAliasCache, rootCached, listed>>

\* The root is made once in the life of a process.
GetAliasRoot(p) ==
  /\ folder' = (folder \/ (~rootCached[p] /\ volume.writable))
  /\ rootCached' = [rootCached EXCEPT ![p] = @ \/ volume.writable]
HasRoot(p) == rootCached[p] \/ volume.writable

\* The directory that a junction is made for: the item, or the one that holds it.
Target(p) == IF call[p].item \in Dirs THEN call[p].item ELSE call[p].item[1]

\* Any entry that is there is taken.
MGetPrivateDirectoryAlias(p) ==
  /\ call[p].at = "private"
  /\ IF Target(p) \in gPrivateDirectoryAliasCache[p]
     THEN CacheResult(p, PrivateAlias(call[p].item)) /\ UNCHANGED <<folder, rootCached, gPrivateDirectoryAliasCache>>
     ELSE /\ GetAliasRoot(p)
          /\ IF HasRoot(p) /\ temp[Target(p)] # "absent"
             THEN /\ CacheResult(p, PrivateAlias(call[p].item))
                  /\ gPrivateDirectoryAliasCache' = [gPrivateDirectoryAliasCache EXCEPT ![p] = @ \union {Target(p)}]
             ELSE /\ Goto(p, IF HasRoot(p) THEN "mkdir" ELSE "short")
                  /\ UNCHANGED <<gFullyAsciiAliasCache, gPrivateDirectoryAliasCache>>
  /\ UNCHANGED <<content, temp, volume, disturbed, gSyntheticPathAliases, listed>>

\* An entry that is there must be a junction.
GetPrivateDirectoryAlias(p) ==
  /\ call[p].at = "private"
  /\ IF Target(p) \in gPrivateDirectoryAliasCache[p]
     THEN CacheResult(p, PrivateAlias(call[p].item)) /\ UNCHANGED <<folder, rootCached, gPrivateDirectoryAliasCache>>
     ELSE /\ GetAliasRoot(p)
          /\ IF HasRoot(p) /\ temp[Target(p)] = "junction"
             THEN /\ CacheResult(p, PrivateAlias(call[p].item))
                  /\ gPrivateDirectoryAliasCache' = [gPrivateDirectoryAliasCache EXCEPT ![p] = @ \union {Target(p)}]
             ELSE /\ Goto(p, IF HasRoot(p) /\ temp[Target(p)] = "absent" THEN "mkdir" ELSE "short")
                  /\ UNCHANGED <<gFullyAsciiAliasCache, gPrivateDirectoryAliasCache>>
  /\ UNCHANGED <<content, temp, volume, disturbed, gSyntheticPathAliases, listed>>

\* GetShortPathWLong.
GetShortPath(p) ==
  /\ call[p].at = "short"
  /\ IF call[p].item \in Short THEN CacheResult(p, Direct(call[p].item))
     ELSE Goto(p, "temp") /\ UNCHANGED gFullyAsciiAliasCache
  /\ UNCHANGED <<disk, gSyntheticPathAliases, gPrivateDirectoryAliasCache, rootCached, listed>>

\* An entry that is there is taken for the alias, whatever it is.  A hard link that cannot be
\* made leaves a synthetic alias; a junction is made in steps of its own.
MakeTempAlias(p) ==
  LET item == call[p].item
      made == item \in Files /\ folder' /\ volume.links /\ content[item] # NoData
  IN /\ call[p].at = "temp" /\ GetAliasRoot(p)
     /\ IF ~HasRoot(p) THEN Answer(p, Nothing) /\ UNCHANGED <<temp, gSyntheticPathAliases, gFullyAsciiAliasCache>>
        ELSE IF ~Absent(item)
        THEN CacheResult(p, TempAlias(item)) /\ UNCHANGED <<temp, gSyntheticPathAliases>>
        ELSE IF item \in Dirs THEN Goto(p, "mkdir") /\ UNCHANGED <<temp, gSyntheticPathAliases, gFullyAsciiAliasCache>>
        ELSE /\ CacheResult(p, TempAlias(item))
             /\ temp' = IF made THEN [temp EXCEPT ![item] = content[item]] ELSE temp
             /\ RememberSyntheticPathAlias(p, IF made THEN {} ELSE {TempAlias(item)})
     /\ disturbed' = IF item \in Dirs /\ temp[item] = "empty" THEN disturbed \union {item} ELSE disturbed
     /\ UNCHANGED <<content, volume, gPrivateDirectoryAliasCache, listed>>

\* A missing folder is not noticed.
MCreateDirectory(p) ==
  /\ call[p].at = "mkdir"
  /\ call' = [call EXCEPT ![p].at = "reparse", ![p].created = temp[Target(p)] = "absent"]
  /\ temp' = [temp EXCEPT ![Target(p)] = IF @ = "absent" THEN "empty" ELSE @]
  /\ UNCHANGED <<content, folder, volume, disturbed, maps, listed>>

\* CreateDirectoryJunction, the directory: one that exists already is not its own.
CreateDirectory(p) ==
  /\ call[p].at = "mkdir"
  /\ IF ~folder THEN Goto(p, "undo") /\ UNCHANGED temp
     ELSE /\ call' = [call EXCEPT ![p].at = "reparse", ![p].created = temp[Target(p)] = "absent"]
          /\ temp' = [temp EXCEPT ![Target(p)] = IF @ = "absent" THEN "empty" ELSE @]
  /\ UNCHANGED <<content, folder, volume, disturbed, maps, listed>>

\* FSCTL_SET_REPARSE_POINT on a handle that nobody shares.
SetReparsePoint(p) ==
  LET dir == Target(p)
  IN /\ call[p].at = "reparse"
     /\ IF volume.junctions /\ temp[dir] # "absent"
        THEN /\ temp' = [temp EXCEPT ![dir] = "junction"]
             /\ CacheResult(p, IF call[p].item \in Dirs THEN TempAlias(dir) ELSE PrivateAlias(call[p].item))
             /\ gPrivateDirectoryAliasCache' =
                  [gPrivateDirectoryAliasCache EXCEPT ![p] = IF call[p].item \in Dirs THEN @ ELSE @ \union {dir}]
        ELSE Goto(p, "undo") /\ UNCHANGED <<temp, gFullyAsciiAliasCache, gPrivateDirectoryAliasCache>>
     /\ UNCHANGED <<content, folder, volume, disturbed, gSyntheticPathAliases, rootCached, listed>>

\* The directory is left behind.
MRemoveDirectory(p) ==
  /\ call[p].at = "undo"
  /\ IF call[p].item \in Dirs
     THEN CacheResult(p, TempAlias(call[p].item)) /\ RememberSyntheticPathAlias(p, {TempAlias(call[p].item)})
     ELSE Goto(p, "short") /\ UNCHANGED <<gFullyAsciiAliasCache, gSyntheticPathAliases>>
  /\ UNCHANGED <<content, folder, temp, volume, disturbed, gPrivateDirectoryAliasCache, rootCached, listed>>

\* A directory of its own is removed again; then the next kind of alias is tried.
RemoveDirectory(p) ==
  /\ call[p].at = "undo"
  /\ temp' = IF call[p].created THEN [temp EXCEPT ![Target(p)] = "absent"] ELSE temp
  /\ IF call[p].item \in Dirs
     THEN CacheResult(p, TempAlias(call[p].item)) /\ RememberSyntheticPathAlias(p, {TempAlias(call[p].item)})
     ELSE Goto(p, "short") /\ UNCHANGED <<gFullyAsciiAliasCache, gSyntheticPathAliases>>
  /\ UNCHANGED <<content, folder, volume, disturbed, gPrivateDirectoryAliasCache, rootCached, listed>>

\* GetArchivePathAlias: a synthetic alias below the root, for an archive plugin.
GetArchivePathAlias(p, file) ==
  /\ p \in Busy /\ Ready(p) /\ ~PlainPath(file) /\ content[file] # NoData /\ HasRoot(p)
  /\ GetAliasRoot(p) /\ RememberSyntheticPathAlias(p, {TempAlias(file)})
  /\ call' = [call EXCEPT ![p] = [Idle EXCEPT !.at = "returned", !.kind = "plugin", !.item = file, !.alias = TempAlias(file)]]
  /\ UNCHANGED <<content, temp, volume, disturbed, gFullyAsciiAliasCache, gPrivateDirectoryAliasCache, listed>>

--------------------------------------------------------------------------------
(* Uses of the names.                                                         *)

\* The plugin opens the alias; a dropped item's alias is kept by Leeyes, which opens it too.
OpenAlias(p) ==
  /\ call[p].at = "returned"
  /\ call' = [call EXCEPT ![p].at = IF call[p].alias = Nothing THEN "retry" ELSE "opened",
                          ![p].read = IF call[p].alias = Nothing THEN NoData ELSE Reached(p, call[p].alias),
                          ![p].wanted = Value(call[p].item)]
  /\ listed' = IF call[p].kind = "drop" /\ call[p].alias # Nothing
               THEN [listed EXCEPT ![p] = @ \union {call[p].alias}] ELSE listed
  /\ UNCHANGED <<disk, maps>>

\* GetPictureDispatchImpl: a plugin that fails on the alias, or gets none, is given the path as
\* it came, which the hooks may still resolve.
Retry(p) ==
  /\ call[p].at = "opened" /\ call[p].kind = "plugin" /\ call[p].read = NoData
  /\ Goto(p, "retry") /\ UNCHANGED <<disk, maps, listed>>

\* CreateFileAHook for a path of a list.
OpenListed(p, path) ==
  /\ Ready(p) /\ path \in listed[p] /\ ItemOf(path) \in Files
  /\ call' = [call EXCEPT ![p] = [Idle EXCEPT !.at = "opened", !.kind = "leeyes", !.item = ItemOf(path),
                                              !.alias = path, !.read = Reached(p, path), !.wanted = content[ItemOf(path)]]]
  /\ UNCHANGED <<disk, maps, listed>>

Operated(p, path, kind, done) ==
  call' = [call EXCEPT ![p] = [Idle EXCEPT !.at = "operated", !.kind = kind, !.item = ItemOf(path),
                                           !.alias = path, !.succeeded = done]]

\* ResolveAnsiOperationPath: the file that a path of an operation means, if there is one.
Resolved(p, path) ==
  IF LookupSyntheticPathAlias(p, path) THEN {path.leaf[2]}
  ELSE IF path.leaf[1] = "~u" \/ path.parent[1] # "own" THEN {} ELSE {<<path.parent[2], path.leaf[2]>>}

DeleteFileA(p, path) ==
  LET meant == { f \in Resolved(p, path) : content[f] # NoData }
      link == path.parent = Temp /\ ~LookupSyntheticPathAlias(p, path)
      through == path.parent \in { InTemp(d) : d \in Dirs } /\ OnDisk(path) # NoData
  IN /\ Ready(p) /\ path \in listed[p] /\ ItemOf(path) \in Files
     /\ content' = [f \in Files |-> IF f \in meant \/ (through /\ f = ItemOf(path)) THEN NoData ELSE content[f]]
     /\ temp' = IF link THEN [temp EXCEPT ![path.leaf[2]] = NoData] ELSE temp
     /\ Operated(p, path, "delete", meant # {} \/ through \/ (link /\ OnDisk(path) # NoData))
     /\ disturbed' = disturbed \union {ItemOf(path)}
     /\ UNCHANGED <<folder, volume, maps, listed>>

\* The files whose data a step changes.
Changed == { f \in Files : content'[f] # content[f] }

\* The move replaces what is there.
MMoveFileA(p, path, dir) ==
  LET from == { f \in Resolved(p, path) : content[f] # NoData }
      to == Resolved(p, Path(Spelling(dir), path.leaf)) \intersect Files
  IN /\ Ready(p) /\ path \in { ListedAs(f) : f \in Files } \intersect listed[p] /\ path.parent \in { Spelling(d) : d \in Dirs }
     /\ content' = [f \in Files |-> IF from # {} /\ f \in to THEN content[CHOOSE g \in from : TRUE]
                                    ELSE IF f \in from /\ to # {} THEN NoData ELSE content[f]]
     /\ Operated(p, path, "move", from # {}) /\ disturbed' = disturbed \union Changed
     /\ UNCHANGED <<folder, temp, volume, maps, listed>>

\* Leeyes moves a file of a list to a directory of a list, under the name that it has there,
\* unless that is an 8.3 name.  MoveFileW of a file onto itself succeeds.
MoveFileA(p, path, dir) ==
  LET from == { f \in Resolved(p, path) : content[f] # NoData }
      to == Resolved(p, Path(Spelling(dir), path.leaf)) \intersect Files
  IN /\ Ready(p) /\ path \in { ListedAs(f) : f \in Files } \intersect listed[p] /\ path.parent \in { Spelling(d) : d \in Dirs }
     /\ IF from = to \/ (to # {} /\ from # {} /\ \A f \in to : content[f] = NoData)
        THEN /\ content' = [f \in Files |-> IF f \in to THEN content[CHOOSE g \in from : TRUE]
                                            ELSE IF f \in from THEN NoData ELSE content[f]]
             /\ Operated(p, path, "move", from # {})
        ELSE UNCHANGED content /\ Operated(p, path, "move", FALSE)
     /\ disturbed' = disturbed \union Changed
     /\ UNCHANGED <<folder, temp, volume, maps, listed>>

--------------------------------------------------------------------------------
(* The other programs, and the end of a process.                              *)

\* A program saves a file by replacing it; it tells only once a link was made to the old one.
Replace(file) ==
  /\ content[file] # NoData /\ temp[file] # NoData
  /\ content' = [content EXCEPT ![file] = <<@[1], @[2] + 1>>] /\ disturbed' = disturbed \union {file}
  /\ UNCHANGED <<folder, temp, volume, maps, listed, call>>

\* Windows empties TEMP.
Clean ==
  /\ folder /\ folder' = FALSE /\ disturbed' = Items
  /\ temp' = Nowhere
  /\ UNCHANGED <<content, volume, maps, listed, call>>

\* A process ends, in whatever step it is, and a new one starts with empty maps; what it has
\* made in TEMP stays.
Restart(p) ==
  /\ call[p] # Idle
  /\ gSyntheticPathAliases' = [gSyntheticPathAliases EXCEPT ![p] = {}]
  /\ gFullyAsciiAliasCache' = [gFullyAsciiAliasCache EXCEPT ![p] = [i \in Items |-> Nothing]]
  /\ gPrivateDirectoryAliasCache' = [gPrivateDirectoryAliasCache EXCEPT ![p] = {}]
  /\ rootCached' = [rootCached EXCEPT ![p] = FALSE]
  /\ listed' = [listed EXCEPT ![p] = {}] /\ call' = [call EXCEPT ![p] = Idle]
  /\ disturbed' = IF call[p].at \in {"reparse", "undo"} THEN disturbed \union {Target(p)} ELSE disturbed
  /\ UNCHANGED <<content, folder, temp, volume>>

Start(p) ==
  \/ ListDrive(p) \/ \E d \in Dirs : ListDirectory(p, d)
  \/ \E i \in Items : GetFullyAsciiAlias(p, i, "plugin") \/ (p \in Busy /\ GetFullyAsciiAlias(p, i, "drop"))
  \/ \E f \in Files : GetArchivePathAlias(p, f)
  \/ \E path \in listed[p] : OpenListed(p, path) \/ DeleteFileA(p, path) \/ \E d \in Dirs : MoveFileA(p, path, d)

Continue(p) ==
  \/ GetPrivateDirectoryAlias(p) \/ GetShortPath(p) \/ MakeTempAlias(p)
  \/ CreateDirectory(p) \/ SetReparsePoint(p) \/ RemoveDirectory(p)
  \/ OpenAlias(p) \/ Retry(p)

Fault == (\E p \in Processes : Restart(p)) \/ (\E f \in Files : Replace(f)) \/ Clean

Next ==
  \/ \E p \in Processes : Start(p) /\ calls < MaxCalls /\ calls' = calls + 1 /\ UNCHANGED faults
  \/ \E p \in Processes : Continue(p) /\ UNCHANGED <<calls, faults>>
  \/ Fault /\ faults < MaxFaults /\ faults' = faults + 1 /\ UNCHANGED calls

Spec == Init /\ [][Next]_vars

--------------------------------------------------------------------------------
(* Properties.                                                                *)

\* The comment of GetOrCreateAsciiAlias and of GetFullyAsciiAlias: an ASCII name stands for
\* the item that it was made for.  While two processes make and use the entries of TEMP, and
\* also when one of them is killed half way or TEMP cannot hold junctions or links, a file
\* that is asked for by an alias is the one that is opened.  Only an entry of TEMP may be out
\* of date, and only after the item was replaced, moved or deleted, TEMP emptied, or, for a
\* directory, the entry taken while it was half made; and of the names below a synthetic
\* directory no promise is made here (see ListedOpens).
AliasReads ==
  \A p \in Processes : LET c == call[p] IN
    c.at = "opened" =>
      \/ c.read = c.wanted
      \/ c.alias.parent[1] = "temp" /\ c.item \in disturbed /\ ~LookupSyntheticPathAlias(p, c.alias)
      \/ c.kind = "leeyes" /\ c.alias.leaf[1] = "own" /\ c.alias.parent[1] = "~u"

\* CreateDirectoryJunction: an empty directory in TEMP is one that a process is still turning
\* into a junction; a failure, or the loser of a race, leaves none behind unless the process
\* was killed or TEMP emptied under it.
NothingHalfMade ==
  \A d \in Dirs \ disturbed : temp[d] = "empty" =>
    \E p \in Processes : call[p].at \in {"reparse", "undo"} /\ call[p].created /\ Target(p) = d

\* ResolveAnsiOperationPath: an operation on a listed name never destroys a file other than the
\* one the name was made for, although the last name alone decides what a synthetic path is;
\* and a deletion that succeeds by a name from a listing has deleted that file.
OperationsHitItem ==
  [][\A p \in Processes : LET c == call'[p] IN
       calls' # calls /\ c # call[p] /\ c.at = "operated" =>
         /\ \A f \in Files \ {c.item} : content[f] # NoData => content'[f] = content[f]
         /\ c.kind = "delete" /\ c.succeeded /\ c.alias.parent[1] \in {"own", "~u"} => content'[c.item] = NoData]_vars

\* ReadMe.md:9-12 and 24-28: files in a folder with a Unicode name are reached by their names
\* in the list.
ListedOpens ==
  \A p \in Processes : call[p].at = "opened" /\ call[p].kind = "leeyes" /\ call[p].alias.parent[1] \in {"own", "~u"} =>
    call[p].read = call[p].wanted
================================================================================
