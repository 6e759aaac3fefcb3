--------------------------- MODULE AsciiAliasProofs ----------------------------
(***************************************************************************)
(* Proofs about AsciiAlias, for any directories, files, spellings, 8.3     *)
(* names, processes and number of calls and faults: what an alias reads,   *)
(* what is left in TEMP, and what an operation may hit.                    *)
(***************************************************************************)
EXTENDS AsciiAlias, Sequences, TLAPS

\* Not everything is disturbed, as it is once TEMP has been emptied.
Untouched == \E i \in Items : i \notin disturbed

\* An alias that serves for its item: the 8.3 path; or its entry in TEMP, unless the synthetic
\* name is known to the process; or, for a file, its name below the junction of its directory.
Fits(p, item, alias) ==
  \/ alias = Direct(item) /\ item \in Short
  \/ /\ alias = TempAlias(item)
     /\ \/ LookupSyntheticPathAlias(p, alias)
        \/ item \in disturbed
        \/ item \in Dirs /\ temp[item] = "junction"
        \/ item \in Files /\ temp[item] # NoData
  \/ item \in Files /\ alias = PrivateAlias(item) /\ (item \notin disturbed => temp[item[1]] = "junction")

\* The files have been replaced at most once for each fault.
VersionInv == \A f \in Files : content[f] # NoData => content[f][2] <= faults + 1

\* A hard link is to the present file; a junction means that the volume holds them.
TempInv ==
  /\ \A f \in Files \ disturbed : temp[f] \in {NoData, content[f]}
  /\ \A d \in Dirs : temp[d] = "junction" => volume.junctions

\* A process has made the directory and not yet finished with it.
Creates(p) == call[p].at \in {"reparse", "undo"} /\ call[p].created

\* A directory has one creator at most, finds it as it was left, and removes it only where
\* nobody can have made a junction of it.
CreatorInv == Untouched =>
  /\ \A p \in Processes : Creates(p) => temp[Target(p)] # "absent"
  /\ \A p \in Processes : Creates(p) /\ call[p].at = "undo" => ~volume.junctions
  /\ \A p, q \in Processes : Creates(p) /\ Creates(q) /\ Target(p) = Target(q) => p = q

Shown(p, path) ==
  \/ path \in DirAliases
  \/ \E f \in Files : path = ListedAs(f) /\ (path.leaf[1] = "~u" => LookupSyntheticPathAlias(p, path))
  \/ \E f \in Files \intersect Short : path = ShortName(f)
  \/ \E i \in Items : Fits(p, i, path)

\* How far a call has come.
StepInv(c) ==
  /\ c.at # "idle" => c.item \in Items
  /\ c.at = "private" => c.item \in Files
  /\ c.at \in {"private", "mkdir"} => ~c.created
  /\ c.at \in {"short", "temp"} /\ c.item \in Dirs => ~c.created

Reads(p, c) ==
  \/ c.read = c.wanted
  \/ c.alias.parent[1] = "temp" /\ c.item \in disturbed /\ ~LookupSyntheticPathAlias(p, c.alias)
  \/ c.kind = "leeyes" /\ c.alias.leaf[1] = "own" /\ c.alias.parent[1] = "~u"

CallInv(p, c) ==
  /\ StepInv(c)
  /\ c.at = "returned" /\ c.alias # Nothing => Fits(p, c.item, c.alias)
  /\ c.at = "opened" => Reads(p, c)

\* What the caches, the lists and the call of a process hold.
PrivateHolds(p) == Untouched => \A d \in gPrivateDirectoryAliasCache[p] : temp[d] = "junction"
CacheHolds(p) ==
  \A i \in Items : gFullyAsciiAliasCache[p][i] # Nothing => Fits(p, i, gFullyAsciiAliasCache[p][i])
ListHolds(p) == \A path \in listed[p] : Shown(p, path)
Holds(p) == PrivateHolds(p) /\ CacheHolds(p) /\ ListHolds(p) /\ CallInv(p, call[p])

IInv ==
  /\ TypeOK /\ VersionInv /\ TempInv /\ CreatorInv /\ NothingHalfMade
  /\ \A p \in Processes : Holds(p)

DiskOK ==
  /\ content \in [Files -> Data] /\ folder \in BOOLEAN /\ disturbed \subseteq Items
  /\ temp = [i \in Items |-> temp[i]]
  /\ \A d \in Dirs : temp[d] \in {"absent", "empty", "junction"}
  /\ \A f \in Files : temp[f] \in Data
  /\ volume \in [writable : BOOLEAN, junctions : BOOLEAN, links : BOOLEAN]
  /\ ~folder => \A i \in Items : Absent(i)

MapsOK ==
  /\ gSyntheticPathAliases \in [Processes -> SUBSET AnsiPaths]
  /\ gFullyAsciiAliasCache \in [Processes -> [Items -> AnsiPaths \union {Nothing}]]
  /\ gPrivateDirectoryAliasCache \in [Processes -> SUBSET Dirs]
  /\ rootCached \in [Processes -> BOOLEAN] /\ listed \in [Processes -> SUBSET AnsiPaths]

Kinds == {"none", "plugin", "drop", "leeyes", "delete", "move"}
CallRecords ==
  [at : Steps, kind : Kinds, item : Items \union {Nothing}, alias : AnsiPaths \union {Nothing},
   created : BOOLEAN, read : Data, wanted : Data, succeeded : BOOLEAN]
CallsOK == call \in [Processes -> CallRecords]

--------------------------------------------------------------------------------
(* Paths.                                                                     *)

LEMMA NameFacts ==
  ASSUME NEW x
  PROVE  /\ Own(x)[1] = "own" /\ Own(x)[2] = x /\ Tilde(x)[1] = "~u" /\ Tilde(x)[2] = x
         /\ InTemp(x)[1] = "temp" /\ InTemp(x)[2] = x /\ InTemp(x) # Temp
         /\ Own(x) # Drive /\ Own(x) # Temp /\ Tilde(x) # Drive /\ Tilde(x) # Temp /\ InTemp(x) # Drive
         /\ Drive[1] = "drive" /\ Temp[1] = "temp" /\ Temp # Drive
<1>1. Drive[1] = "drive" /\ Temp[1] = "temp" /\ Own(x)[1] = "own" /\ Tilde(x)[1] = "~u" /\ InTemp(x)[1] = "temp"
  BY DEF Own, Tilde, InTemp, Drive, Temp
<1>2. Own(x)[2] = x /\ Tilde(x)[2] = x /\ InTemp(x)[2] = x
  BY DEF Own, Tilde, InTemp
<1>3. InTemp(x) # Temp
  <2>1. Len(InTemp(x)) = 2 /\ Len(Temp) = 1
    BY DEF InTemp, Temp
  <2> QED BY <2>1
<1> QED BY <1>1, <1>2, <1>3

LEMMA PathFields ==
  ASSUME NEW parent, NEW leaf
  PROVE  Path(parent, leaf).parent = parent /\ Path(parent, leaf).leaf = leaf
BY DEF Path

LEMMA FileFacts ==
  ASSUME NEW f \in Files
  PROVE  f = <<f[1], f[2]>> /\ f[1] \in Dirs /\ f[2] \in Names /\ f \notin Dirs /\ f \in Items
BY AliasAssumption DEF Items

LEMMA DirFacts == ASSUME NEW d \in Dirs PROVE d \notin Files /\ d \in Items
BY AliasAssumption DEF Items

LEMMA AliasForms ==
  ASSUME NEW i \in Items
  PROVE  /\ Direct(i) \in AnsiPaths /\ Direct(i).leaf[1] = "own" /\ ItemOf(Direct(i)) = i
         /\ Direct(i).parent[1] \in {"drive", "own"} /\ Direct(i).parent # Temp
         /\ TempAlias(i) \in AnsiPaths /\ TempAlias(i).leaf = Tilde(i) /\ ItemOf(TempAlias(i)) = i
         /\ TempAlias(i).parent = Temp
<1>1. Direct(i) \in AnsiPaths /\ TempAlias(i) \in AnsiPaths
  BY DEF AnsiPaths
<1>2. TempAlias(i).leaf = Tilde(i) /\ TempAlias(i).parent = Temp
  BY PathFields DEF TempAlias
<1>3. CASE i \in Dirs
  <2>1. Direct(i).parent = Drive /\ Direct(i).leaf = Own(i)
    BY <1>3, PathFields DEF Direct
  <2> QED BY <1>1, <1>2, <2>1, NameFacts DEF ItemOf
<1>4. CASE i \notin Dirs
  <2>1. i \in Files /\ i = <<i[1], i[2]>>
    BY <1>4, FileFacts DEF Items
  <2>2. Direct(i).parent = Own(i[1]) /\ Direct(i).leaf = Own(i[2])
    BY <1>4, PathFields DEF Direct
  <2>3. Direct(i).parent[1] = "own" /\ Direct(i).parent # Temp /\ Direct(i).parent # Drive
        /\ Direct(i).leaf[1] = "own" /\ Direct(i).parent[2] = i[1] /\ Direct(i).leaf[2] = i[2]
    BY <2>2, NameFacts
  <2>4. ItemOf(Direct(i)) = i
    BY <2>1, <2>3 DEF ItemOf
  <2>5. ItemOf(TempAlias(i)) = i
    BY <1>2, NameFacts DEF ItemOf
  <2> QED BY <1>1, <1>2, <2>3, <2>4, <2>5
<1> QED BY <1>3, <1>4

LEMMA PrivateForms ==
  ASSUME NEW f \in Files
  PROVE  /\ PrivateAlias(f) \in AnsiPaths /\ ItemOf(PrivateAlias(f)) = f
         /\ PrivateAlias(f).parent = InTemp(f[1]) /\ PrivateAlias(f).leaf = Own(f[2])
<1>1. PrivateAlias(f).parent = InTemp(f[1]) /\ PrivateAlias(f).leaf = Own(f[2])
  BY PathFields DEF PrivateAlias
<1>2. ItemOf(PrivateAlias(f)) = f
  BY <1>1, NameFacts, FileFacts DEF ItemOf
<1> QED BY <1>1, <1>2 DEF AnsiPaths

\* The two spellings of a directory.
LEMMA SpellingFacts ==
  ASSUME NEW d \in Dirs
  PROVE  /\ Spelling(d)[1] \in {"own", "~u"} /\ Spelling(d)[2] = d /\ Spelling(d) # Drive /\ Spelling(d) # Temp
         /\ d \in Plain \union Short => Spelling(d) = Own(d)
         /\ Path(Drive, Spelling(d)) \in AnsiPaths /\ ItemOf(Path(Drive, Spelling(d))) = d
<1>1. Spelling(d) = Own(d) \/ Spelling(d) = Tilde(d)
  BY DEF Spelling
<1>2. Path(Drive, Spelling(d)) \in AnsiPaths
  BY DEF AnsiPaths, DirAliases
<1>3. ItemOf(Path(Drive, Spelling(d))) = d
  BY <1>1, PathFields, NameFacts DEF ItemOf
<1> QED BY <1>1, <1>2, <1>3, NameFacts DEF Spelling

LEMMA ListedForms ==
  ASSUME NEW f \in Files
  PROVE  /\ ListedAs(f) \in AnsiPaths /\ ItemOf(ListedAs(f)) = f /\ ListedAs(f).parent = Spelling(f[1])
         /\ ListedAs(f).leaf = IF f[2] \in Plain THEN Own(f[2]) ELSE Tilde(f)
         /\ ShortName(f) \in AnsiPaths /\ ItemOf(ShortName(f)) = f
         /\ ShortName(f).parent = Spelling(f[1]) /\ ShortName(f).leaf = Own(f[2])
<1>1. ListedAs(f).parent = Spelling(f[1])
      /\ ListedAs(f).leaf = IF f[2] \in Plain THEN Own(f[2]) ELSE Tilde(f)
  BY PathFields DEF ListedAs
<1>2. ShortName(f).parent = Spelling(f[1]) /\ ShortName(f).leaf = Own(f[2])
  BY PathFields DEF ShortName
<1>3. ListedAs(f) \in AnsiPaths /\ ShortName(f) \in AnsiPaths
  BY DEF AnsiPaths
<1>4. Spelling(f[1])[2] = f[1] /\ Spelling(f[1]) # Drive /\ f = <<f[1], f[2]>>
  BY FileFacts, SpellingFacts
<1>5. ItemOf(ShortName(f)) = f
  BY <1>2, <1>4, NameFacts DEF ItemOf
<1>6. ItemOf(ListedAs(f)) = f
  BY <1>1, <1>4, NameFacts DEF ItemOf
<1> QED BY <1>1, <1>2, <1>3, <1>5, <1>6

\* What the aliases reach.
LEMMA ReachFacts ==
  ASSUME NEW p, NEW i \in Items
  PROVE  /\ Reached(p, Direct(i)) = Value(i)
         /\ LookupSyntheticPathAlias(p, TempAlias(i)) => Reached(p, TempAlias(i)) = Value(i)
         /\ ~LookupSyntheticPathAlias(p, TempAlias(i)) /\ i \in Dirs =>
              Reached(p, TempAlias(i)) = IF temp[i] = "junction" THEN Value(i) ELSE NoData
         /\ ~LookupSyntheticPathAlias(p, TempAlias(i)) /\ i \in Files => Reached(p, TempAlias(i)) = temp[i]
<1>1. ~LookupSyntheticPathAlias(p, Direct(i))
  BY AliasForms DEF LookupSyntheticPathAlias
<1>2. OnDisk(Direct(i)) = Value(i)
  BY AliasForms DEF OnDisk
<1>3. TempAlias(i).parent = Temp /\ TempAlias(i).leaf[2] = i
  BY AliasForms, NameFacts
<1>4. OnDisk(TempAlias(i)) =
        IF i \in Dirs THEN IF temp[i] = "junction" THEN Value(i) ELSE NoData ELSE temp[i]
  BY <1>3, NameFacts DEF OnDisk
<1>5. i \in Files => i \notin Dirs
  BY FileFacts
<1> QED BY <1>1, <1>2, <1>3, <1>4, <1>5 DEF Reached

LEMMA ReachFile ==
  ASSUME NEW p, NEW f \in Files
  PROVE  /\ ~LookupSyntheticPathAlias(p, PrivateAlias(f))
         /\ Reached(p, PrivateAlias(f)) = IF temp[f[1]] = "junction" THEN content[f] ELSE NoData
         /\ f \in Short => Reached(p, ShortName(f)) = content[f]
         /\ LookupSyntheticPathAlias(p, ListedAs(f)) => Reached(p, ListedAs(f)) = content[f]
         /\ f[2] \in Plain /\ Spelling(f[1])[1] = "own" => Reached(p, ListedAs(f)) = content[f]
<1>1. f = <<f[1], f[2]>> /\ f[1] \in Dirs /\ Value(f) = content[f]
  BY FileFacts DEF Value
<1>2. ~LookupSyntheticPathAlias(p, PrivateAlias(f)) /\ ~LookupSyntheticPathAlias(p, ShortName(f))
  BY PrivateForms, ListedForms, NameFacts DEF LookupSyntheticPathAlias
<1>3. OnDisk(PrivateAlias(f)) = IF temp[f[1]] = "junction" THEN content[f] ELSE NoData
  <2>1. PrivateAlias(f).parent[1] = "temp" /\ PrivateAlias(f).parent # Temp
        /\ PrivateAlias(f).parent[2] = f[1] /\ PrivateAlias(f).leaf[2] = f[2]
    BY PrivateForms, NameFacts
  <2> QED BY <1>1, <2>1 DEF OnDisk
<1>4. f \in Short => OnDisk(ShortName(f)) = content[f]
  <2> SUFFICES ASSUME f \in Short PROVE OnDisk(ShortName(f)) = content[f]
    OBVIOUS
  <2>1. f[1] \in Plain \union Short
    BY AliasAssumption
  <2>2. ShortName(f).parent = Own(f[1]) /\ ShortName(f).leaf[1] = "own"
    BY <1>1, <2>1, SpellingFacts, ListedForms, NameFacts
  <2>3. ShortName(f).parent[1] = "own" /\ ShortName(f).parent # Temp
    BY <2>2, NameFacts
  <2> QED BY <1>1, <2>2, <2>3, ListedForms DEF OnDisk
<1>5. LookupSyntheticPathAlias(p, ListedAs(f)) => Reached(p, ListedAs(f)) = content[f]
  <2>1. LookupSyntheticPathAlias(p, ListedAs(f)) => ListedAs(f).leaf[2] = f
    <3>1. f[2] \in Plain => ListedAs(f).leaf[1] = "own"
      BY ListedForms, NameFacts
    <3>2. f[2] \notin Plain => ListedAs(f).leaf[2] = f
      BY ListedForms, NameFacts
    <3> QED BY <3>1, <3>2 DEF LookupSyntheticPathAlias
  <2> QED BY <1>1, <2>1 DEF Reached
<1>6. f[2] \in Plain /\ Spelling(f[1])[1] = "own" => Reached(p, ListedAs(f)) = content[f]
  <2> SUFFICES ASSUME f[2] \in Plain, Spelling(f[1])[1] = "own" PROVE Reached(p, ListedAs(f)) = content[f]
    OBVIOUS
  <2>1. ListedAs(f).leaf[1] = "own" /\ ListedAs(f).parent[1] = "own" /\ ListedAs(f).parent # Temp
        /\ ItemOf(ListedAs(f)) = f
    BY <1>1, ListedForms, SpellingFacts, NameFacts
  <2>2. ~LookupSyntheticPathAlias(p, ListedAs(f))
    BY <2>1 DEF LookupSyntheticPathAlias
  <2>3. OnDisk(ListedAs(f)) = Value(f)
    BY <2>1 DEF OnDisk
  <2> QED BY <1>1, <2>2, <2>3 DEF Reached
<1> QED BY <1>1, <1>2, <1>3, <1>4, <1>5, <1>6 DEF Reached

\* What an ANSI path says by itself.
LEMMA PathCases ==
  ASSUME NEW path \in AnsiPaths
  PROVE  /\ ItemOf(path) \in Items
         /\ path.leaf[1] = "~u" => path.leaf[2] = ItemOf(path)
         /\ path.parent = Temp => path = TempAlias(ItemOf(path))
         /\ path.parent[1] = "temp" /\ path.parent # Temp => ItemOf(path) \in Files /\ path = PrivateAlias(ItemOf(path))
<1>1. path.leaf[1] = "~u" => path.leaf[2] = ItemOf(path)
  BY DEF ItemOf
<1>2. ASSUME NEW d \in Dirs, path = Path(Drive, Spelling(d))
      PROVE  ItemOf(path) \in Items /\ path.parent # Temp /\ path.parent[1] # "temp"
  BY <1>2, DirFacts, SpellingFacts, PathFields, NameFacts
<1>3. ASSUME NEW i \in Items, path = Direct(i)
      PROVE  ItemOf(path) \in Items /\ path.parent # Temp /\ path.parent[1] # "temp"
  BY <1>3, AliasForms
<1>4. ASSUME NEW i \in Items, path = TempAlias(i) PROVE ItemOf(path) = i /\ path.parent = Temp
  BY <1>4, AliasForms
<1>5. ASSUME NEW f \in Files, path = PrivateAlias(f) PROVE ItemOf(path) = f /\ path.parent # Temp
  BY <1>5, PrivateForms, NameFacts
<1>6. ASSUME NEW f \in Files, path = ListedAs(f) \/ path = ShortName(f)
      PROVE  ItemOf(path) = f /\ path.parent # Temp /\ path.parent[1] # "temp"
  BY <1>6, ListedForms, FileFacts, SpellingFacts
<1> QED BY <1>1, <1>2, <1>3, <1>4, <1>5, <1>6, FileFacts DEF AnsiPaths, DirAliases

LEMMA ValueTyped == ASSUME TypeOK, NEW i \in Items PROVE Value(i) \in Data
<1>1. CASE i \in Dirs
  BY <1>1, AliasAssumption DEF Value, Data
<1>2. CASE i \notin Dirs
  BY <1>2 DEF Value, Items, TypeOK
<1> QED BY <1>1, <1>2

LEMMA ReachedTyped ==
  ASSUME TypeOK, NEW p, NEW path \in AnsiPaths
  PROVE  Reached(p, path) \in Data /\ OnDisk(path) \in Data
<1>1. NoData \in Data
  BY DEF Data
<1>2. LookupSyntheticPathAlias(p, path) => Value(path.leaf[2]) \in Data
  BY PathCases, ValueTyped DEF LookupSyntheticPathAlias
<1>3. OnDisk(path) \in Data
  <2>1. CASE path.parent = Temp
    <3>1. path.leaf[2] = ItemOf(path) /\ ItemOf(path) \in Items
      BY <2>1, PathCases, AliasForms, NameFacts
    <3>2. ItemOf(path) \notin Dirs => temp[ItemOf(path)] \in Data
      BY <3>1 DEF TypeOK, Items
    <3>3. OnDisk(path) = IF path.leaf[2] \in Dirs
                         THEN IF temp[path.leaf[2]] = "junction" THEN Value(path.leaf[2]) ELSE NoData
                         ELSE temp[path.leaf[2]]
      BY <2>1, NameFacts DEF OnDisk
    <3> QED BY <1>1, <3>1, <3>2, <3>3, ValueTyped
  <2>2. CASE path.parent # Temp /\ path.parent[1] = "temp"
    <3>1. PICK f \in Files : path = PrivateAlias(f)
      BY <2>2, PathCases
    <3>2. OnDisk(path) \in {content[f], NoData}
      <4>1. <<path.parent[2], path.leaf[2]>> = f
        BY <3>1, PrivateForms, NameFacts, FileFacts
      <4> QED BY <2>2, <4>1 DEF OnDisk
    <3> QED BY <1>1, <3>2 DEF TypeOK
  <2>3. CASE path.parent # Temp /\ path.parent[1] # "temp"
    BY <1>1, <2>3, PathCases, ValueTyped DEF OnDisk
  <2> QED BY <2>1, <2>2, <2>3
<1> QED BY <1>2, <1>3 DEF Reached

--------------------------------------------------------------------------------
(* Calls.                                                                     *)

Others(p) == \A q \in Processes \ {p} : call'[q] = call[q]

LEMMA IdleTyped == Idle \in CallRecords
<1>1. NoData \in Data
  BY DEF Data
<1> QED BY <1>1 DEF Idle, CallRecords, Steps, Kinds

LEMMA CallTyped == TypeOK => call \in [Processes -> CallRecords]
BY DEF TypeOK, CallRecords, Kinds

\* A call begins, or ends at once.
LEMMA CallFacts ==
  ASSUME TypeOK, NEW p \in Processes, NEW c \in CallRecords, call' = [call EXCEPT ![p] = c]
  PROVE  call' \in [Processes -> CallRecords] /\ call'[p] = c /\ Others(p)
BY CallTyped DEF Others

\* A call goes on.
LEMMA GotoFacts ==
  ASSUME TypeOK, NEW p \in Processes, NEW step \in Steps, Goto(p, step)
  PROVE  /\ call' \in [Processes -> CallRecords] /\ Others(p)
         /\ call'[p].at = step /\ call'[p].item = call[p].item /\ call'[p].created = call[p].created
         /\ call'[p].alias = call[p].alias
BY CallTyped DEF Goto, Others, CallRecords

LEMMA AnswerFacts ==
  ASSUME TypeOK, NEW p \in Processes, NEW alias \in AnsiPaths \union {Nothing}, Answer(p, alias)
  PROVE  /\ call' \in [Processes -> CallRecords] /\ Others(p)
         /\ call'[p].at = "returned" /\ call'[p].item = call[p].item /\ call'[p].created = call[p].created
         /\ call'[p].alias = alias
BY CallTyped DEF Answer, Others, CallRecords, Steps

--------------------------------------------------------------------------------
(* What a step of one process leaves to the others.                           *)

LEMMA TypeParts ==
  /\ TypeOK <=> DiskOK /\ MapsOK /\ CallsOK /\ calls \in 0 .. MaxCalls /\ faults \in 0 .. MaxFaults
  /\ TypeOK' <=> DiskOK' /\ MapsOK' /\ CallsOK' /\ calls' \in 0 .. MaxCalls /\ faults' \in 0 .. MaxFaults
BY DEF TypeOK, DiskOK, MapsOK, CallsOK, CallRecords, Kinds

\* What serves for an item goes on serving, or the item counts as disturbed.
Steady ==
  /\ disturbed \subseteq disturbed'
  /\ \A d \in Dirs : Untouched' /\ temp[d] = "junction" => temp'[d] = "junction"
  /\ \A f \in Files \ disturbed' : temp[f] # NoData => temp'[f] # NoData

Mine(p) ==
  \A q \in Processes \ {p} :
    /\ gSyntheticPathAliases'[q] = gSyntheticPathAliases[q]
    /\ gFullyAsciiAliasCache'[q] = gFullyAsciiAliasCache[q]
    /\ gPrivateDirectoryAliasCache'[q] = gPrivateDirectoryAliasCache[q]
    /\ listed'[q] = listed[q] /\ call'[q] = call[q]

LEMMA FitsKept ==
  ASSUME Steady, NEW p, gSyntheticPathAliases[p] \subseteq gSyntheticPathAliases'[p],
         NEW i \in Items, NEW alias, Fits(p, i, alias)
  PROVE  Fits(p, i, alias)'
<1>1. LookupSyntheticPathAlias(p, alias) => LookupSyntheticPathAlias(p, alias)'
  BY DEF LookupSyntheticPathAlias
<1>2. i \notin disturbed' => Untouched' /\ i \notin disturbed
  BY DEF Untouched, Steady
<1>3. CASE alias = Direct(i) /\ i \in Short
  BY <1>3 DEF Fits
<1>4. CASE alias = TempAlias(i) /\ LookupSyntheticPathAlias(p, alias)
  BY <1>1, <1>4 DEF Fits
<1>5. CASE alias = TempAlias(i) /\ i \in disturbed
  BY <1>5 DEF Fits, Steady
<1>6. CASE alias = TempAlias(i) /\ i \in Dirs /\ temp[i] = "junction"
  BY <1>2, <1>6 DEF Fits, Steady
<1>7. CASE alias = TempAlias(i) /\ i \in Files /\ temp[i] # NoData
  BY <1>2, <1>7 DEF Fits, Steady
<1>8. CASE i \in Files /\ alias = PrivateAlias(i) /\ (i \notin disturbed => temp[i[1]] = "junction")
  <2>1. i[1] \in Dirs
    BY <1>8, FileFacts
  <2> QED BY <1>2, <1>8, <2>1 DEF Fits, Steady
<1> QED BY <1>3, <1>4, <1>5, <1>6, <1>7, <1>8 DEF Fits

LEMMA ShownKept ==
  ASSUME Steady, NEW p, gSyntheticPathAliases[p] \subseteq gSyntheticPathAliases'[p],
         NEW path, Shown(p, path)
  PROVE  Shown(p, path)'
<1>1. LookupSyntheticPathAlias(p, path) => LookupSyntheticPathAlias(p, path)'
  BY DEF LookupSyntheticPathAlias
<1> QED BY <1>1, FitsKept DEF Shown

LEMMA PrivateKept ==
  ASSUME MapsOK, Steady, NEW p \in Processes, PrivateHolds(p),
         gPrivateDirectoryAliasCache'[p] = gPrivateDirectoryAliasCache[p]
  PROVE  PrivateHolds(p)'
<1>1. Untouched' => Untouched
  BY DEF Untouched, Steady
<1>2. gPrivateDirectoryAliasCache[p] \subseteq Dirs
  BY DEF MapsOK
<1> QED BY <1>1, <1>2 DEF PrivateHolds, Steady

LEMMA CacheKept ==
  ASSUME Steady, NEW p, CacheHolds(p), gSyntheticPathAliases[p] \subseteq gSyntheticPathAliases'[p],
         gFullyAsciiAliasCache'[p] = gFullyAsciiAliasCache[p]
  PROVE  CacheHolds(p)'
BY FitsKept DEF CacheHolds

LEMMA ListKept ==
  ASSUME Steady, NEW p, ListHolds(p), gSyntheticPathAliases[p] \subseteq gSyntheticPathAliases'[p],
         listed'[p] = listed[p]
  PROVE  ListHolds(p)'
BY ShownKept DEF ListHolds

LEMMA CallKept ==
  ASSUME Steady, NEW p, NEW c, CallInv(p, c), gSyntheticPathAliases'[p] = gSyntheticPathAliases[p]
  PROVE  CallInv(p, c)'
<1>1. c.at = "returned" /\ c.alias # Nothing => Fits(p, c.item, c.alias)'
  <2> SUFFICES ASSUME c.at = "returned", c.alias # Nothing PROVE Fits(p, c.item, c.alias)'
    OBVIOUS
  <2>1. c.item \in Items /\ Fits(p, c.item, c.alias)
    BY DEF CallInv, StepInv
  <2> QED BY <2>1, FitsKept
<1>2. Reads(p, c) => Reads(p, c)'
  BY DEF Reads, LookupSyntheticPathAlias, Steady
<1> QED BY <1>1, <1>2 DEF CallInv

LEMMA OthersHold ==
  ASSUME IInv, Steady, NEW p \in Processes, Mine(p), NEW q \in Processes \ {p}
  PROVE  Holds(q)'
<1>1. /\ gSyntheticPathAliases'[q] = gSyntheticPathAliases[q]
      /\ gFullyAsciiAliasCache'[q] = gFullyAsciiAliasCache[q]
      /\ gPrivateDirectoryAliasCache'[q] = gPrivateDirectoryAliasCache[q]
      /\ listed'[q] = listed[q] /\ call'[q] = call[q]
  BY DEF Mine
<1>2. MapsOK /\ Holds(q)
  BY TypeParts DEF IInv
<1>3. PICK c : c = call[q] /\ c = call'[q]
  BY <1>1
<1>4. CallInv(q, c)'
  BY <1>1, <1>2, <1>3, CallKept DEF Holds
<1>5. CallInv(q, call[q])'
  BY <1>3, <1>4
<1> QED BY <1>1, <1>2, <1>5, PrivateKept, CacheKept, ListKept DEF Holds

LEMMA TargetFacts ==
  ASSUME IInv, NEW p \in Processes, call[p].at # "idle"
  PROVE  call[p].item \in Items /\ Target(p) \in Dirs /\ (call[p].item \in Files => Target(p) = call[p].item[1])
<1>1. call[p].item \in Items
  BY DEF IInv, Holds, CallInv, StepInv
<1> QED BY <1>1, FileFacts DEF Target, Items

Bounded == calls' \in 0 .. MaxCalls /\ faults' \in 0 .. MaxFaults

LEMMA Assemble ==
  ASSUME IInv, NEW p \in Processes, Mine(p), Steady, Bounded, DiskOK', MapsOK', CallsOK',
         VersionInv', TempInv', CreatorInv', NothingHalfMade', Holds(p)'
  PROVE  IInv'
<1>1. \A q \in Processes : Holds(q)'
  BY OthersHold
<1> QED BY <1>1, TypeParts DEF IInv, Bounded

\* A step by a process that creates nothing: TEMP may get its folder and new hard links.
Mild(p) ==
  /\ UNCHANGED <<content, volume, faults>>
  /\ disturbed \subseteq disturbed' /\ disturbed' \subseteq Items
  /\ folder' \in BOOLEAN /\ (folder => folder')
  /\ temp' = [i \in Items |-> temp'[i]]
  /\ \A d \in Dirs : temp'[d] = temp[d]
  /\ \A f \in Files : temp'[f] = temp[f] \/ (folder' /\ temp[f] = NoData /\ temp'[f] = content[f])
  /\ Mine(p) /\ ~Creates(p) /\ ~Creates(p)'

LEMMA MildSteady == ASSUME NEW p, Mild(p) PROVE Steady
<1>1. \A f \in Files : f \notin Dirs
  BY FileFacts
<1>2. \A f \in Files : temp[f] # NoData => temp'[f] # NoData
  BY DEF Mild
<1> QED BY <1>2 DEF Mild, Steady

LEMMA MildStep ==
  ASSUME IInv, NEW p \in Processes, Mild(p), Bounded, MapsOK', CallsOK', Holds(p)'
  PROVE  IInv'
<1>1. DiskOK /\ MapsOK /\ CallsOK
  BY TypeParts DEF IInv
<1>2. Steady
  BY MildSteady
<1>3. DiskOK'
  <2>1. \A f \in Files : temp'[f] \in Data
    BY <1>1 DEF Mild, DiskOK
  <2>2. ~folder' => \A i \in Items : Absent(i)'
    <3> SUFFICES ASSUME ~folder', NEW i \in Items PROVE Absent(i)'
      OBVIOUS
    <3>1. Absent(i)
      BY <1>1 DEF Mild, DiskOK
    <3>2. temp'[i] = temp[i]
      BY DEF Mild, Items
    <3> QED BY <3>1, <3>2 DEF Absent
  <2> QED BY <1>1, <2>1, <2>2 DEF Mild, DiskOK
<1>4. VersionInv' /\ TempInv'
  <2>1. VersionInv'
    BY DEF IInv, Mild, VersionInv
  <2>2. \A f \in Files \ disturbed' : temp'[f] \in {NoData, content'[f]}
    BY DEF IInv, Mild, TempInv
  <2> QED BY <2>1, <2>2 DEF IInv, Mild, TempInv
<1>5. ASSUME NEW q \in Processes
      PROVE  /\ Creates(q)' => q # p /\ Creates(q) /\ call'[q] = call[q]
             /\ Creates(q) => q # p /\ Creates(q)' /\ call'[q] = call[q]
             /\ Creates(q) => Target(q) \in Dirs
  BY TargetFacts DEF Mild, Mine, Creates
<1>6. CreatorInv'
  <2>1. Untouched' => Untouched
    BY DEF Mild, Untouched
  <2>2. UNCHANGED volume /\ \A d \in Dirs : temp'[d] = temp[d]
    BY DEF Mild
  <2>3. \A q \in Processes : Creates(q)' => Target(q)' = Target(q) /\ Target(q) \in Dirs
    BY <1>5 DEF Target
  <2> QED BY <1>5, <2>1, <2>2, <2>3 DEF IInv, CreatorInv
<1>7. NothingHalfMade'
  <2> SUFFICES ASSUME NEW d \in Dirs \ disturbed', temp'[d] = "empty"
               PROVE  \E q \in Processes : Creates(q)' /\ Target(q)' = d
    BY DEF NothingHalfMade, Creates
  <2>1. PICK q \in Processes : Creates(q) /\ Target(q) = d
    BY DEF IInv, NothingHalfMade, Creates, Mild
  <2> QED BY <1>5, <2>1 DEF Target
<1> QED BY <1>2, <1>3, <1>4, <1>6, <1>7, Assemble DEF Mild

\* One that does not touch the disk but for the folder.
Quiet(p) ==
  /\ UNCHANGED <<content, temp, volume, disturbed, faults>>
  /\ folder' \in BOOLEAN /\ (folder => folder')
  /\ Mine(p) /\ ~Creates(p) /\ ~Creates(p)'

LEMMA QuietStep ==
  ASSUME IInv, NEW p \in Processes, Quiet(p), Bounded, MapsOK', CallsOK', Holds(p)'
  PROVE  IInv'
<1>1. Mild(p)
  BY DEF Quiet, Mild, IInv, TypeOK
<1> QED BY <1>1, MildStep

\* What a step that adds nothing but synthetic names leaves of what its process holds.
LEMMA QuietHolds ==
  ASSUME IInv, NEW p \in Processes, Steady,
         gSyntheticPathAliases[p] \subseteq gSyntheticPathAliases'[p]
  PROVE  /\ gPrivateDirectoryAliasCache'[p] = gPrivateDirectoryAliasCache[p] => PrivateHolds(p)'
         /\ gFullyAsciiAliasCache'[p] = gFullyAsciiAliasCache[p] => CacheHolds(p)'
         /\ listed'[p] = listed[p] => ListHolds(p)'
<1>1. MapsOK /\ Holds(p)
  BY TypeParts DEF IInv
<1> QED BY <1>1, PrivateKept, CacheKept, ListKept DEF Holds

--------------------------------------------------------------------------------
(* The steps.                                                                 *)

LEMMA ListNamesInv ==
  ASSUME IInv, Bounded, UNCHANGED faults, NEW p \in Processes, NEW paths \in SUBSET AnsiPaths, ListNames(p, paths),
         \A path \in paths : \/ path \in DirAliases
                             \/ \E f \in Files : path = ListedAs(f)
                             \/ \E f \in Files \intersect Short : path = ShortName(f)
  PROVE  IInv'
<1>1. TypeOK /\ MapsOK
  BY TypeParts DEF IInv
<1>2. CallsOK' /\ call'[p] = Idle /\ Others(p)
  BY <1>1, IdleTyped, CallFacts DEF ListNames, CallsOK
<1>3. /\ MapsOK' /\ listed'[p] = listed[p] \union paths
      /\ gSyntheticPathAliases'[p] = gSyntheticPathAliases[p] \union { path \in paths : path.leaf[1] = "~u" }
      /\ UNCHANGED <<gPrivateDirectoryAliasCache, gFullyAsciiAliasCache>>
      /\ \A q \in Processes \ {p} :
           gSyntheticPathAliases'[q] = gSyntheticPathAliases[q] /\ listed'[q] = listed[q]
  BY <1>1 DEF ListNames, RememberSyntheticPathAlias, MapsOK
<1>4. Quiet(p)
  <2>1. ~Creates(p) /\ ~Creates(p)'
    BY <1>2 DEF ListNames, Ready, Creates, Idle
  <2>2. Mine(p)
    BY <1>2, <1>3 DEF Mine, Others
  <2>3. UNCHANGED <<content, temp, volume, disturbed, folder>> /\ folder \in BOOLEAN
    BY <1>1 DEF ListNames, disk, TypeOK
  <2> QED BY <2>1, <2>2, <2>3 DEF Quiet
<1>5. Steady
  BY <1>4 DEF Quiet, Steady
<1>6. ListHolds(p)'
  <2> SUFFICES ASSUME NEW path \in listed'[p] PROVE Shown(p, path)'
    BY DEF ListHolds
  <2>1. CASE path \in listed[p]
    <3>1. Shown(p, path)
      BY <2>1 DEF IInv, Holds, ListHolds
    <3> QED BY <1>3, <1>5, <3>1, ShownKept
  <2>2. CASE path \in paths
    <3>1. path.leaf[1] = "~u" => LookupSyntheticPathAlias(p, path)'
      BY <1>3, <2>2 DEF LookupSyntheticPathAlias
    <3> QED BY <2>2, <3>1 DEF Shown
  <2> QED BY <1>3, <2>1, <2>2
<1>7. CallInv(p, call[p])'
  BY <1>2 DEF CallInv, StepInv, Idle
<1> QED BY <1>2, <1>3, <1>4, <1>5, <1>6, <1>7, QuietHolds, QuietStep DEF Holds

LEMMA ListDriveInv ==
  ASSUME IInv, Bounded, UNCHANGED faults, NEW p \in Processes, ListDrive(p)
  PROVE  IInv'
<1>1. DirAliases \subseteq AnsiPaths
  BY DEF AnsiPaths
<1> QED BY <1>1, ListNamesInv DEF ListDrive

LEMMA ListDirectoryInv ==
  ASSUME IInv, Bounded, UNCHANGED faults, NEW p \in Processes, NEW d \in Dirs, ListDirectory(p, d)
  PROVE  IInv'
<1> DEFINE files == { f \in Files : f[1] = d /\ content[f] # NoData }
<1>1. \A f \in Files : ListedAs(f) \in AnsiPaths /\ ShortName(f) \in AnsiPaths
  BY ListedForms
<1>2. CASE ListNames(p, CopyFindDataWToA(files))
  <2>1. CopyFindDataWToA(files) \subseteq AnsiPaths
    BY <1>1 DEF CopyFindDataWToA
  <2>2. \A path \in CopyFindDataWToA(files) : \E f \in Files : path = ListedAs(f)
    BY DEF CopyFindDataWToA
  <2> QED BY <1>2, <2>1, <2>2, ListNamesInv
<1>3. ASSUME NEW first \in files, ListNames(p, FixupFindData(files, first)) PROVE IInv'
  <2>1. FixupFindData(files, first) \subseteq AnsiPaths
    BY <1>1 DEF FixupFindData
  <2>2. \A path \in FixupFindData(files, first) :
          (\E f \in Files : path = ListedAs(f)) \/ \E f \in Files \intersect Short : path = ShortName(f)
    BY DEF FixupFindData
  <2> QED BY <1>3, <2>1, <2>2, ListNamesInv
<1> QED BY <1>2, <1>3 DEF ListDirectory

LEMMA GetFullyAsciiAliasInv ==
  ASSUME IInv, Bounded, UNCHANGED faults, NEW p \in Processes, NEW item \in Items, NEW kind \in {"plugin", "drop"},
         GetFullyAsciiAlias(p, item, kind)
  PROVE  IInv'
<1> DEFINE cached == gFullyAsciiAliasCache[p][item]
           started == [Idle EXCEPT !.kind = kind, !.item = item]
<1>1. TypeOK /\ MapsOK /\ Holds(p)
  BY TypeParts DEF IInv
<1>2. cached \in AnsiPaths \union {Nothing}
  BY <1>1 DEF MapsOK
<1>3. PICK c \in CallRecords :
        /\ call' = [call EXCEPT ![p] = c]
        /\ c.item = item /\ c.created = FALSE
        /\ \/ c.at = "returned" /\ c.alias = cached
           \/ c.at = "private" /\ item \in Files
           \/ c.at = "short"
  <2>1. CASE cached # Nothing \/ Value(item) = NoData
    <3>1. [started EXCEPT !.at = "returned", !.alias = cached] \in CallRecords
      BY <1>2, IdleTyped DEF CallRecords, Steps, Kinds
    <3> QED BY <2>1, <3>1 DEF GetFullyAsciiAlias, Idle
  <2>2. CASE ~(cached # Nothing \/ Value(item) = NoData)
    <3> DEFINE step == IF item \in Files /\ item[2] \in Plain THEN "private" ELSE "short"
    <3>1. [started EXCEPT !.at = step] \in CallRecords
      BY IdleTyped DEF CallRecords, Steps, Kinds
    <3>2. call' = [call EXCEPT ![p] = [started EXCEPT !.at = step]]
      BY <2>2 DEF GetFullyAsciiAlias
    <3> QED BY <3>1, <3>2 DEF Idle
  <2> QED BY <2>1, <2>2
<1>4. CallsOK' /\ call'[p] = c /\ Others(p)
  BY <1>1, <1>3, CallFacts DEF CallsOK
<1>5. UNCHANGED <<disk, maps, listed>>
  BY DEF GetFullyAsciiAlias, maps
<1>6. MapsOK' /\ Quiet(p) /\ Steady
  BY <1>1, <1>3, <1>4, <1>5 DEF MapsOK, maps, disk, Quiet, Mine, Others, Creates, GetFullyAsciiAlias, Ready, Steady, TypeOK
<1>7. CallInv(p, call[p])'
  <2>1. c.at = "returned" /\ c.alias # Nothing => Fits(p, item, c.alias)
    BY <1>1, <1>3 DEF Holds, CacheHolds
  <2>2. c.at = "returned" /\ c.alias # Nothing => Fits(p, item, c.alias)'
    BY <1>5, <1>6, <2>1, FitsKept DEF maps
  <2>3. StepInv(c) /\ c.at # "opened"
    BY <1>3 DEF StepInv
  <2>4. CallInv(p, c)'
    BY <1>3, <2>2, <2>3 DEF CallInv
  <2> QED BY <1>4, <2>4
<1> QED BY <1>4, <1>5, <1>6, <1>7, QuietHolds, QuietStep DEF Holds, maps

\* A call answers with an alias that serves, and remembers it.
LEMMA CacheResultFacts ==
  ASSUME IInv, NEW p \in Processes, NEW item \in Items, item = call[p].item,
         NEW alias \in AnsiPaths, CacheResult(p, alias), Fits(p, item, alias)',
         Steady, gSyntheticPathAliases[p] \subseteq gSyntheticPathAliases'[p]
  PROVE  /\ CallsOK' /\ Others(p) /\ ~Creates(p)'
         /\ gFullyAsciiAliasCache' \in [Processes -> [Items -> AnsiPaths \union {Nothing}]]
         /\ \A q \in Processes \ {p} : gFullyAsciiAliasCache'[q] = gFullyAsciiAliasCache[q]
         /\ CacheHolds(p)' /\ CallInv(p, call[p])'
<1>1. TypeOK /\ Holds(p)
  BY DEF IInv
<1>2. Answer(p, alias)
  BY DEF CacheResult
<1>3. CallsOK' /\ Others(p) /\ call'[p].at = "returned" /\ call'[p].item = item /\ call'[p].alias = alias
  BY <1>1, <1>2, AnswerFacts DEF CallsOK
<1>4. gFullyAsciiAliasCache' = [gFullyAsciiAliasCache EXCEPT ![p][item] = alias]
  BY DEF CacheResult
<1>5. CacheHolds(p)'
  <2> SUFFICES ASSUME NEW i \in Items, gFullyAsciiAliasCache'[p][i] # Nothing
               PROVE  Fits(p, i, gFullyAsciiAliasCache[p][i])'
    BY DEF CacheHolds
  <2>1. gFullyAsciiAliasCache \in [Processes -> [Items -> AnsiPaths \union {Nothing}]]
    BY <1>1 DEF TypeOK
  <2>2. CASE i = item
    <3>1. gFullyAsciiAliasCache'[p][i] = alias
      BY <1>4, <2>1, <2>2
    <3> QED BY <2>2, <3>1
  <2>3. CASE i # item
    <3>1. PICK a : a = gFullyAsciiAliasCache'[p][i] /\ a = gFullyAsciiAliasCache[p][i]
      BY <1>4, <2>1, <2>3
    <3>2. Fits(p, i, a)'
      BY <1>1, <3>1, FitsKept DEF Holds, CacheHolds
    <3> QED BY <3>1, <3>2
  <2> QED BY <2>2, <2>3
<1>6. CallInv(p, call[p])'
  <2>1. PICK c : c = call'[p]
    OBVIOUS
  <2>2. StepInv(c) /\ c.at = "returned" /\ c.item = item /\ c.alias = alias
    BY <1>3, <2>1 DEF StepInv
  <2>3. CallInv(p, c)'
    BY <2>2 DEF CallInv
  <2> QED BY <2>1, <2>3
<1>7. ~Creates(p)'
  BY <1>3 DEF Creates
<1> QED BY <1>1, <1>3, <1>4, <1>5, <1>6, <1>7 DEF TypeOK

\* A call goes on to a step that looks at the names of its item alone.
LEMMA GotoInv ==
  ASSUME IInv, NEW p \in Processes, NEW step \in Steps \ {"idle", "returned", "opened"}, Goto(p, step),
         call[p].at # "idle",
         step = "private" => call[p].item \in Files,
         step \in {"private", "mkdir"} => ~call[p].created,
         step \in {"short", "temp"} /\ call[p].item \in Dirs => ~call[p].created
  PROVE  CallsOK' /\ Others(p) /\ CallInv(p, call[p])' /\ call'[p].at = step /\ call'[p].created = call[p].created
         /\ call'[p].item = call[p].item
<1>1. TypeOK /\ Holds(p)
  BY DEF IInv
<1>2. CallsOK' /\ Others(p) /\ call'[p].at = step /\ call'[p].item = call[p].item /\ call'[p].created = call[p].created
  BY <1>1, GotoFacts DEF CallsOK
<1>3. PICK c : c = call'[p]
  OBVIOUS
<1>4. StepInv(c)
  BY <1>1, <1>2, <1>3 DEF Holds, CallInv, StepInv
<1>5. CallInv(p, c)'
  BY <1>2, <1>3, <1>4 DEF CallInv
<1> QED BY <1>2, <1>3, <1>5

LEMMA GetPrivateDirectoryAliasInv ==
  ASSUME IInv, Bounded, UNCHANGED faults, NEW p \in Processes, GetPrivateDirectoryAlias(p)
  PROVE  IInv'
<1>1. TypeOK /\ MapsOK /\ Holds(p) /\ call[p].at = "private"
  BY TypeParts DEF IInv, GetPrivateDirectoryAlias
<1>2. PICK f \in Files : f = call[p].item
  BY <1>1 DEF Holds, CallInv, StepInv
<1>3. ~call[p].created /\ ~Creates(p)
  BY <1>1 DEF Holds, CallInv, StepInv, Creates
<1>4. PICK dir \in Dirs : dir = Target(p) /\ dir = f[1]
  BY <1>1, <1>2, TargetFacts
<1>5. UNCHANGED <<content, temp, volume, disturbed, gSyntheticPathAliases, listed>>
  BY DEF GetPrivateDirectoryAlias
<1>6. /\ folder' \in BOOLEAN /\ (folder => folder') /\ rootCached' \in [Processes -> BOOLEAN]
  <2>1. CASE UNCHANGED <<folder, rootCached>>
    BY <1>1, <2>1 DEF TypeOK
  <2>2. CASE GetAliasRoot(p)
    BY <1>1, <2>2 DEF GetAliasRoot, TypeOK
  <2> QED BY <2>1, <2>2 DEF GetPrivateDirectoryAlias
<1>7. Steady /\ (Untouched' <=> Untouched) /\ gSyntheticPathAliases[p] \subseteq gSyntheticPathAliases'[p]
  BY <1>5 DEF Steady, Untouched
<1>8. CASE CacheResult(p, PrivateAlias(f)) /\ (Untouched => temp[dir] = "junction")
           /\ gPrivateDirectoryAliasCache' \in
                {gPrivateDirectoryAliasCache, [gPrivateDirectoryAliasCache EXCEPT ![p] = @ \union {dir}]}
  <2>1. Fits(p, f, PrivateAlias(f))'
    BY <1>4, <1>5, <1>8, FileFacts DEF Fits, Untouched
  <2>2. /\ CallsOK' /\ Others(p) /\ ~Creates(p)'
        /\ gFullyAsciiAliasCache' \in [Processes -> [Items -> AnsiPaths \union {Nothing}]]
        /\ \A q \in Processes \ {p} : gFullyAsciiAliasCache'[q] = gFullyAsciiAliasCache[q]
        /\ CacheHolds(p)' /\ CallInv(p, call[p])'
    BY <1>2, <1>7, <1>8, <2>1, CacheResultFacts, FileFacts, PrivateForms
  <2>3. MapsOK'
    BY <1>1, <1>5, <1>6, <1>8, <2>2 DEF MapsOK
  <2>4. Mine(p)
    BY <1>1, <1>5, <1>8, <2>2 DEF Mine, Others, MapsOK
  <2>5. PrivateHolds(p)'
    BY <1>1, <1>5, <1>7, <1>8 DEF MapsOK, Holds, PrivateHolds
  <2> QED BY <1>3, <1>5, <1>6, <1>7, <2>2, <2>3, <2>4, <2>5, QuietHolds, QuietStep DEF Quiet, Holds
<1>9. CASE /\ Goto(p, "mkdir") \/ Goto(p, "short")
           /\ UNCHANGED <<gFullyAsciiAliasCache, gPrivateDirectoryAliasCache>>
  <2>1. CallsOK' /\ Others(p) /\ CallInv(p, call[p])' /\ ~Creates(p)'
    <3>1. f \notin Dirs
      BY FileFacts
    <3> QED BY <1>1, <1>2, <1>3, <1>9, <3>1, GotoInv DEF Steps, Creates
  <2>2. MapsOK' /\ Mine(p)
    BY <1>1, <1>5, <1>6, <1>9, <2>1 DEF MapsOK, Mine, Others
  <2> QED BY <1>3, <1>5, <1>6, <1>7, <1>9, <2>1, <2>2, QuietHolds, QuietStep DEF Quiet, Holds
<1>10. dir \in gPrivateDirectoryAliasCache[p] => (Untouched => temp[dir] = "junction")
  BY <1>1 DEF Holds, PrivateHolds
<1> QED BY <1>2, <1>4, <1>8, <1>9, <1>10 DEF GetPrivateDirectoryAlias

LEMMA GetShortPathInv ==
  ASSUME IInv, Bounded, UNCHANGED faults, NEW p \in Processes, GetShortPath(p)
  PROVE  IInv'
<1>1. TypeOK /\ MapsOK /\ Holds(p) /\ call[p].at = "short" /\ ~Creates(p)
  BY TypeParts DEF IInv, GetShortPath, Creates
<1>2. PICK item \in Items : item = call[p].item
  BY <1>1 DEF Holds, CallInv, StepInv
<1>3. UNCHANGED <<content, folder, temp, volume, disturbed, gSyntheticPathAliases, gPrivateDirectoryAliasCache, rootCached, listed>>
  BY DEF GetShortPath, disk
<1>4. Steady /\ folder \in BOOLEAN
  BY <1>1, <1>3 DEF Steady, TypeOK
<1>5. CASE item \in Short
  <2>1. Fits(p, item, Direct(item))' /\ CacheResult(p, Direct(item))
    BY <1>2, <1>5 DEF Fits, GetShortPath
  <2>2. /\ CallsOK' /\ Others(p) /\ ~Creates(p)'
        /\ gFullyAsciiAliasCache' \in [Processes -> [Items -> AnsiPaths \union {Nothing}]]
        /\ \A q \in Processes \ {p} : gFullyAsciiAliasCache'[q] = gFullyAsciiAliasCache[q]
        /\ CacheHolds(p)' /\ CallInv(p, call[p])'
    BY <1>2, <1>3, <1>4, <2>1, CacheResultFacts, AliasForms
  <2>3. MapsOK' /\ Mine(p)
    BY <1>1, <1>3, <2>2 DEF MapsOK, Mine, Others
  <2> QED BY <1>1, <1>3, <1>4, <2>2, <2>3, QuietHolds, QuietStep DEF Quiet, Holds
<1>6. CASE item \notin Short
  <2>1. Goto(p, "temp") /\ UNCHANGED gFullyAsciiAliasCache
    BY <1>2, <1>6 DEF GetShortPath
  <2>2. CallsOK' /\ Others(p) /\ CallInv(p, call[p])' /\ ~Creates(p)'
    BY <1>1, <2>1, GotoInv DEF Steps, Creates, Holds, CallInv, StepInv
  <2>3. MapsOK' /\ Mine(p)
    BY <1>1, <1>3, <2>1, <2>2 DEF MapsOK, Mine, Others
  <2> QED BY <1>1, <1>3, <1>4, <2>1, <2>2, <2>3, QuietHolds, QuietStep DEF Quiet, Holds
<1> QED BY <1>5, <1>6

LEMMA RememberFacts ==
  ASSUME MapsOK, NEW p \in Processes, NEW paths \in SUBSET AnsiPaths, RememberSyntheticPathAlias(p, paths)
  PROVE  /\ gSyntheticPathAliases' \in [Processes -> SUBSET AnsiPaths]
         /\ gSyntheticPathAliases'[p] = gSyntheticPathAliases[p] \union paths
         /\ \A q \in Processes \ {p} : gSyntheticPathAliases'[q] = gSyntheticPathAliases[q]
BY DEF MapsOK, RememberSyntheticPathAlias

\* A synthetic name that has been remembered serves for any item.
LEMMA RememberedFits ==
  ASSUME NEW p, NEW item \in Items, TempAlias(item) \in gSyntheticPathAliases'[p]
  PROVE  Fits(p, item, TempAlias(item))'
<1>1. TempAlias(item).leaf[1] = "~u"
  BY AliasForms, NameFacts
<1>2. LookupSyntheticPathAlias(p, TempAlias(item))'
  BY <1>1 DEF LookupSyntheticPathAlias
<1> QED BY <1>2 DEF Fits

LEMMA TempWritten ==
  ASSUME TypeOK, NEW item \in Items, NEW entry, temp' = [temp EXCEPT ![item] = entry]
  PROVE  /\ temp' = [i \in Items |-> temp'[i]] /\ temp'[item] = entry
         /\ \A i \in Items \ {item} : temp'[i] = temp[i]
<1>1. DOMAIN temp = Items
  <2>1. temp = [i \in Items |-> temp[i]]
    BY DEF TypeOK
  <2>2. DOMAIN [i \in Items |-> temp[i]] = Items
    OBVIOUS
  <2> QED BY <2>1, <2>2, Zenon
<1>2. temp' = [i \in Items |-> IF i = item THEN entry ELSE temp[i]]
  BY <1>1
<1> QED BY <1>2

LEMMA MakeTempAliasInv ==
  ASSUME IInv, Bounded, UNCHANGED faults, NEW p \in Processes, MakeTempAlias(p)
  PROVE  IInv'
<1>1. TypeOK /\ MapsOK /\ Holds(p) /\ call[p].at = "temp" /\ ~Creates(p)
  BY TypeParts DEF IInv, MakeTempAlias, Creates
<1>2. PICK item \in Items : item = call[p].item
  BY <1>1 DEF Holds, CallInv, StepInv
<1> DEFINE made == item \in Files /\ folder' /\ volume.links /\ content[item] # NoData
<1>3. UNCHANGED <<content, volume, gPrivateDirectoryAliasCache, listed>>
  BY DEF MakeTempAlias
<1>4. /\ folder' \in BOOLEAN /\ (folder => folder') /\ rootCached' \in [Processes -> BOOLEAN]
  BY <1>1 DEF MakeTempAlias, GetAliasRoot, TypeOK
<1>5. disturbed' = IF item \in Dirs /\ temp[item] = "empty" THEN disturbed \union {item} ELSE disturbed
  BY <1>2 DEF MakeTempAlias
<1>6. disturbed \subseteq disturbed' /\ disturbed' \subseteq Items
  BY <1>1, <1>5 DEF TypeOK
<1> DEFINE Linked == temp' = temp \/ (made /\ temp[item] = NoData /\ temp' = [temp EXCEPT ![item] = content[item]])
<1>7. ASSUME Linked
      PROVE  /\ temp' = [i \in Items |-> temp'[i]]
             /\ \A d \in Dirs : temp'[d] = temp[d]
             /\ \A f \in Files : temp'[f] = temp[f] \/ (folder' /\ temp[f] = NoData /\ temp'[f] = content[f])
             /\ Steady
  <2>1. \A d \in Dirs : d \notin Files /\ d \in Items
    BY DirFacts
  <2>2. temp' = [i \in Items |-> temp'[i]] /\ \A d \in Dirs : temp'[d] = temp[d]
    <3>1. CASE temp' = temp
      BY <1>1, <3>1 DEF TypeOK
    <3>2. CASE made /\ temp' = [temp EXCEPT ![item] = content[item]]
      BY <1>1, <2>1, <3>2, TempWritten
    <3> QED BY <1>7, <3>1, <3>2
  <2>3. \A f \in Files : temp'[f] = temp[f] \/ (folder' /\ temp[f] = NoData /\ temp'[f] = content[f])
    BY <1>1, <1>7, FileFacts, TempWritten
  <2> QED BY <1>6, <2>2, <2>3 DEF Steady
\* What the answer is, and what becomes of the disk.
<1>8. ASSUME Linked, MapsOK', Mine(p), CallsOK', ~Creates(p)',
             gSyntheticPathAliases[p] \subseteq gSyntheticPathAliases'[p],
             CacheHolds(p)', CallInv(p, call[p])'
      PROVE  IInv'
  <2>1. Mild(p)
    BY <1>1, <1>3, <1>4, <1>6, <1>7, <1>8 DEF Mild
  <2> QED BY <1>3, <1>7, <1>8, <2>1, MildStep, QuietHolds DEF Holds
<1>9. ASSUME Linked, CacheResult(p, TempAlias(item)), Fits(p, item, TempAlias(item))',
             NEW paths \in SUBSET AnsiPaths, RememberSyntheticPathAlias(p, paths)
      PROVE  IInv'
  <2>1. /\ gSyntheticPathAliases' \in [Processes -> SUBSET AnsiPaths]
        /\ gSyntheticPathAliases[p] \subseteq gSyntheticPathAliases'[p]
        /\ \A q \in Processes \ {p} : gSyntheticPathAliases'[q] = gSyntheticPathAliases[q]
    BY <1>1, <1>9, RememberFacts
  <2>2. /\ CallsOK' /\ Others(p) /\ ~Creates(p)'
        /\ gFullyAsciiAliasCache' \in [Processes -> [Items -> AnsiPaths \union {Nothing}]]
        /\ \A q \in Processes \ {p} : gFullyAsciiAliasCache'[q] = gFullyAsciiAliasCache[q]
        /\ CacheHolds(p)' /\ CallInv(p, call[p])'
    BY <1>2, <1>7, <1>9, <2>1, CacheResultFacts, AliasForms
  <2>3. MapsOK' /\ Mine(p)
    BY <1>1, <1>3, <1>4, <2>1, <2>2 DEF MapsOK, Mine, Others
  <2> QED BY <1>8, <1>9, <2>1, <2>2, <2>3
<1>10. RememberSyntheticPathAlias(p, {}) <=> UNCHANGED gSyntheticPathAliases
  BY <1>1 DEF RememberSyntheticPathAlias, MapsOK
<1> HIDE DEF Linked
<1>11. CASE ~HasRoot(p)
  <2>1. Answer(p, Nothing) /\ UNCHANGED <<temp, gSyntheticPathAliases, gFullyAsciiAliasCache>>
    BY <1>11 DEF MakeTempAlias
  <2>2. CallsOK' /\ Others(p) /\ call'[p].at = "returned" /\ call'[p].item = call[p].item /\ call'[p].alias = Nothing
    BY <1>1, <2>1, AnswerFacts DEF CallsOK
  <2>3. ~Creates(p)' /\ MapsOK' /\ Mine(p)
    BY <1>1, <1>3, <1>4, <2>1, <2>2 DEF Creates, MapsOK, Mine, Others
  <2>4. Linked
    BY <2>1 DEF Linked
  <2>5. CacheHolds(p)'
    BY <1>7, <2>1, <2>4, QuietHolds
  <2>6. CallInv(p, call[p])'
    <3>1. PICK c : c = call'[p]
      OBVIOUS
    <3>2. CallInv(p, c)'
      BY <1>2, <2>2, <3>1 DEF CallInv, StepInv
    <3> QED BY <3>1, <3>2
  <2> QED BY <1>8, <2>1, <2>2, <2>3, <2>4, <2>5, <2>6
<1>12. CASE HasRoot(p) /\ ~Absent(item)
  <2>1. CacheResult(p, TempAlias(item)) /\ UNCHANGED <<temp, gSyntheticPathAliases>>
    BY <1>2, <1>12 DEF MakeTempAlias
  <2>2. item \in Dirs => temp[item] = "junction" \/ item \in disturbed'
    BY <1>1, <1>5, <1>12 DEF Absent, Nowhere, TypeOK
  <2>3. item \notin Dirs => item \in Files /\ temp[item] # NoData
    BY <1>12 DEF Absent, Nowhere, Items
  <2>4. Fits(p, item, TempAlias(item))'
    BY <2>1, <2>2, <2>3 DEF Fits
  <2> QED BY <1>9, <1>10, <2>1, <2>4 DEF Linked
<1>13. CASE HasRoot(p) /\ Absent(item) /\ item \in Dirs
  <2>1. Goto(p, "mkdir") /\ UNCHANGED <<temp, gSyntheticPathAliases, gFullyAsciiAliasCache>>
    BY <1>2, <1>13 DEF MakeTempAlias
  <2>2. CallsOK' /\ Others(p) /\ CallInv(p, call[p])' /\ ~Creates(p)'
    BY <1>1, <1>2, <1>13, <2>1, GotoInv DEF Steps, Creates, Holds, CallInv, StepInv
  <2>3. MapsOK' /\ Mine(p)
    BY <1>1, <1>3, <1>4, <2>1, <2>2 DEF MapsOK, Mine, Others
  <2>4. Linked
    BY <2>1 DEF Linked
  <2>5. CacheHolds(p)'
    BY <1>7, <2>1, <2>4, QuietHolds
  <2> QED BY <1>8, <2>1, <2>2, <2>3, <2>4, <2>5
<1>14. CASE HasRoot(p) /\ Absent(item) /\ item \notin Dirs
  <2>1. item \in Files /\ temp[item] = NoData
    BY <1>14 DEF Absent, Nowhere, Items
  <2>2. /\ CacheResult(p, TempAlias(item))
        /\ temp' = IF made THEN [temp EXCEPT ![item] = content[item]] ELSE temp
        /\ RememberSyntheticPathAlias(p, IF made THEN {} ELSE {TempAlias(item)})
    BY <1>2, <1>14 DEF MakeTempAlias
  <2>3. Linked
    BY <2>1, <2>2 DEF Linked
  <2>4. CASE made
    <3>1. temp'[item] # NoData
      BY <1>1, <2>2, <2>4, TempWritten
    <3>2. Fits(p, item, TempAlias(item))'
      BY <2>1, <3>1 DEF Fits
    <3> QED BY <1>9, <2>2, <2>3, <2>4, <3>2
  <2>5. CASE ~made
    <3>1. RememberSyntheticPathAlias(p, {TempAlias(item)}) /\ TempAlias(item) \in AnsiPaths
      BY <2>2, <2>5, AliasForms
    <3>2. TempAlias(item) \in gSyntheticPathAliases'[p]
      BY <1>1, <3>1, RememberFacts
    <3> QED BY <1>9, <2>2, <2>3, <3>1, <3>2, RememberedFits
  <2> QED BY <2>4, <2>5
<1> QED BY <1>11, <1>12, <1>13, <1>14

LEMMA GetArchivePathAliasInv ==
  ASSUME IInv, Bounded, UNCHANGED faults, NEW p \in Processes, NEW file \in Files, GetArchivePathAlias(p, file)
  PROVE  IInv'
<1>1. TypeOK /\ MapsOK /\ Holds(p) /\ file \in Items /\ NoData \in Data
  BY TypeParts, FileFacts DEF IInv, Data
<1> DEFINE c == [Idle EXCEPT !.at = "returned", !.kind = "plugin", !.item = file, !.alias = TempAlias(file)]
<1>2. c \in CallRecords /\ c.at = "returned" /\ c.item = file /\ c.alias = TempAlias(file) /\ c.created = FALSE
  BY <1>1, AliasForms, IdleTyped DEF CallRecords, Steps, Kinds, Idle
<1>3. CallsOK' /\ call'[p] = c /\ Others(p)
  BY <1>1, <1>2, CallFacts DEF GetArchivePathAlias, CallsOK
<1> HIDE DEF c
<1>4. /\ gSyntheticPathAliases' \in [Processes -> SUBSET AnsiPaths]
      /\ gSyntheticPathAliases'[p] = gSyntheticPathAliases[p] \union {TempAlias(file)}
      /\ \A q \in Processes \ {p} : gSyntheticPathAliases'[q] = gSyntheticPathAliases[q]
  BY <1>1, AliasForms, RememberFacts DEF GetArchivePathAlias
<1>5. UNCHANGED <<content, temp, volume, disturbed, gFullyAsciiAliasCache, gPrivateDirectoryAliasCache, listed>>
  BY DEF GetArchivePathAlias
<1>6. /\ folder' \in BOOLEAN /\ (folder => folder') /\ rootCached' \in [Processes -> BOOLEAN]
  BY <1>1 DEF GetArchivePathAlias, GetAliasRoot, TypeOK
<1>7. MapsOK' /\ Mine(p)
  BY <1>1, <1>3, <1>4, <1>5, <1>6 DEF MapsOK, Mine, Others
<1>8. Quiet(p) /\ Steady
  BY <1>2, <1>3, <1>5, <1>6, <1>7 DEF Quiet, Steady, Creates, GetArchivePathAlias, Ready
<1>9. CallInv(p, call[p])'
  <2>1. Fits(p, file, TempAlias(file))'
    BY <1>1, <1>4, RememberedFits
  <2>2. CallInv(p, c)'
    BY <1>1, <1>2, <2>1 DEF CallInv, StepInv
  <2> QED BY <1>3, <2>2
<1> QED BY <1>3, <1>4, <1>5, <1>7, <1>8, <1>9, QuietHolds, QuietStep DEF Holds

\* An alias that serves reads its item, or the entry in TEMP is out of date.
LEMMA FitsReads ==
  ASSUME IInv, NEW p, NEW item \in Items, NEW alias, Fits(p, item, alias)
  PROVE  \/ Reached(p, alias) = Value(item)
         \/ alias.parent[1] = "temp" /\ item \in disturbed /\ ~LookupSyntheticPathAlias(p, alias)
<1>1. item \in Files => Value(item) = content[item]
  BY FileFacts DEF Value
<1>2. CASE alias = Direct(item)
  BY <1>2, ReachFacts
<1>3. CASE alias = TempAlias(item)
  <2>1. alias.parent[1] = "temp"
    BY <1>3, AliasForms, NameFacts
  <2>2. alias # Direct(item)
    BY <1>3, AliasForms
  <2>3. item \in Files => alias # PrivateAlias(item)
    BY <1>3, AliasForms, PrivateForms, NameFacts
  <2>4. item \in Files /\ item \notin disturbed /\ temp[item] # NoData => temp[item] = content[item]
    BY DEF IInv, TempInv
  <2> QED BY <1>1, <1>3, <2>1, <2>2, <2>3, <2>4, ReachFacts DEF Fits
<1>4. CASE item \in Files /\ alias = PrivateAlias(item) /\ (item \notin disturbed => temp[item[1]] = "junction")
  <2>1. alias.parent[1] = "temp" /\ ~LookupSyntheticPathAlias(p, alias)
    BY <1>4, PrivateForms, ReachFile, NameFacts
  <2> QED BY <1>1, <1>4, <2>1, ReachFile
<1> QED BY <1>2, <1>3, <1>4 DEF Fits

LEMMA OpenAliasInv ==
  ASSUME IInv, Bounded, UNCHANGED faults, NEW p \in Processes, OpenAlias(p)
  PROVE  IInv'
<1>1. TypeOK /\ MapsOK /\ Holds(p) /\ call[p].at = "returned" /\ ~Creates(p)
  BY TypeParts DEF IInv, OpenAlias, Creates
<1>2. PICK c \in CallRecords : c = call[p]
  BY <1>1, CallTyped
<1>3. c.item \in Items /\ (c.alias # Nothing => Fits(p, c.item, c.alias))
  BY <1>1, <1>2 DEF Holds, CallInv, StepInv
<1> DEFINE read == IF c.alias = Nothing THEN NoData ELSE Reached(p, c.alias)
           d == [c EXCEPT !.at = IF c.alias = Nothing THEN "retry" ELSE "opened", !.read = read, !.wanted = Value(c.item)]
<1>4. read \in Data /\ Value(c.item) \in Data
  <2>1. NoData \in Data
    BY DEF Data
  <2>2. c.alias # Nothing => c.alias \in AnsiPaths
    BY DEF CallRecords
  <2> QED BY <1>1, <1>3, <2>1, <2>2, ReachedTyped, ValueTyped
<1>5. d \in CallRecords /\ call' = [call EXCEPT ![p] = d]
  <2>1. d \in CallRecords
    BY <1>4 DEF CallRecords, Steps
  <2>2. call' = [call EXCEPT ![p] = d]
    BY <1>1, <1>2, CallTyped DEF OpenAlias, CallRecords
  <2> QED BY <2>1, <2>2
<1>6. CallsOK' /\ call'[p] = d /\ Others(p)
  BY <1>1, <1>5, CallFacts DEF CallsOK
<1>7. UNCHANGED <<disk, maps>>
  BY DEF OpenAlias
<1>8. listed' = IF c.kind = "drop" /\ c.alias # Nothing THEN [listed EXCEPT ![p] = @ \union {c.alias}] ELSE listed
  BY <1>2 DEF OpenAlias
<1>9. MapsOK' /\ Mine(p)
  <2>1. c.alias # Nothing => c.alias \in AnsiPaths
    BY DEF CallRecords
  <2>2. listed' \in [Processes -> SUBSET AnsiPaths] /\ \A q \in Processes \ {p} : listed'[q] = listed[q]
    BY <1>1, <1>8, <2>1 DEF MapsOK
  <2> QED BY <1>1, <1>6, <1>7, <2>2 DEF MapsOK, Mine, Others, maps
<1>10. Quiet(p) /\ Steady
  <2>1. d.at \in {"retry", "opened"}
    BY DEF CallRecords
  <2> QED BY <1>1, <1>6, <1>7, <1>9, <2>1 DEF Quiet, Steady, Creates, disk, TypeOK
<1>11. ListHolds(p)'
  <2> SUFFICES ASSUME NEW path \in listed'[p] PROVE Shown(p, path)'
    BY DEF ListHolds
  <2>1. Shown(p, path)
    <3>1. path \in listed[p] \/ (c.alias # Nothing /\ path = c.alias)
      BY <1>1, <1>8 DEF MapsOK
    <3> QED BY <1>1, <1>3, <3>1 DEF Holds, ListHolds, Shown
  <2> QED BY <1>7, <1>10, <2>1, ShownKept DEF maps
<1>12. CallInv(p, call[p])'
  <2>1. PICK e : e = d
    OBVIOUS
  <2>2. e.item = c.item /\ e.alias = c.alias /\ e.read = read /\ e.wanted = Value(c.item) /\ e.at \in {"retry", "opened"}
        /\ (e.at = "opened" => c.alias # Nothing)
    BY <2>1 DEF CallRecords
  <2>3. e.at = "opened" => Reads(p, e)
    BY <1>3, <2>2, FitsReads DEF Reads
  <2>4. e.at = "opened" => Reads(p, e)'
    BY <1>7, <2>3 DEF Reads, LookupSyntheticPathAlias, disk, maps
  <2>5. CallInv(p, e)'
    BY <1>3, <2>2, <2>4 DEF CallInv, StepInv
  <2>6. e = call'[p]
    BY <1>6, <2>1
  <2> QED BY <2>5, <2>6
<1> QED BY <1>6, <1>7, <1>9, <1>10, <1>11, <1>12, QuietHolds, QuietStep DEF Holds, maps

LEMMA RetryInv ==
  ASSUME IInv, Bounded, UNCHANGED faults, NEW p \in Processes, Retry(p)
  PROVE  IInv'
<1>1. TypeOK /\ MapsOK /\ Holds(p) /\ call[p].at = "opened" /\ ~Creates(p) /\ Goto(p, "retry") /\ UNCHANGED <<disk, maps, listed>>
  BY TypeParts DEF IInv, Retry, Creates
<1>2. CallsOK' /\ Others(p) /\ CallInv(p, call[p])' /\ ~Creates(p)'
  BY <1>1, GotoInv DEF Steps, Creates
<1>3. MapsOK' /\ Quiet(p) /\ Steady
  BY <1>1, <1>2 DEF MapsOK, maps, disk, Quiet, Mine, Others, Steady, TypeOK
<1> QED BY <1>1, <1>2, <1>3, QuietHolds, QuietStep DEF Holds, maps

\* A path of a list reads its file, but for what ListedOpens is about.
LEMMA ShownReads ==
  ASSUME IInv, NEW p \in Processes, NEW path, Shown(p, path), ItemOf(path) \in Files
  PROVE  \/ Reached(p, path) = content[ItemOf(path)]
         \/ path.parent[1] = "temp" /\ ItemOf(path) \in disturbed /\ ~LookupSyntheticPathAlias(p, path)
         \/ path.leaf[1] = "own" /\ path.parent[1] = "~u"
<1>1. path \notin DirAliases
  <2> SUFFICES ASSUME NEW d \in Dirs, path = Path(Drive, Spelling(d)) PROVE FALSE
    BY DEF DirAliases
  <2> QED BY SpellingFacts, DirFacts
<1>2. ASSUME NEW f \in Files, path = ListedAs(f), path.leaf[1] = "~u" => LookupSyntheticPathAlias(p, path)
      PROVE  Reached(p, path) = content[ItemOf(path)] \/ (path.leaf[1] = "own" /\ path.parent[1] = "~u")
  <2>1. ItemOf(path) = f /\ path.parent = Spelling(f[1]) /\ Spelling(f[1])[1] \in {"own", "~u"}
    BY <1>2, ListedForms, FileFacts, SpellingFacts
  <2>2. CASE f[2] \in Plain
    BY <1>2, <2>1, <2>2, ListedForms, NameFacts, ReachFile
  <2>3. CASE f[2] \notin Plain
    BY <1>2, <2>1, <2>3, ListedForms, NameFacts, ReachFile
  <2> QED BY <2>2, <2>3
<1>3. ASSUME NEW f \in Files \intersect Short, path = ShortName(f) PROVE Reached(p, path) = content[ItemOf(path)]
  BY <1>3, ListedForms, ReachFile
<1>4. ASSUME NEW i \in Items, Fits(p, i, path)
      PROVE  \/ Reached(p, path) = content[ItemOf(path)]
             \/ path.parent[1] = "temp" /\ ItemOf(path) \in disturbed /\ ~LookupSyntheticPathAlias(p, path)
  <2>1. ItemOf(path) = i
    BY <1>4, AliasForms, PrivateForms DEF Fits
  <2>2. Value(i) = content[i]
    BY <2>1, FileFacts DEF Value
  <2> QED BY <1>4, <2>1, <2>2, FitsReads
<1> QED BY <1>1, <1>2, <1>3, <1>4 DEF Shown

LEMMA OpenListedInv ==
  ASSUME IInv, Bounded, UNCHANGED faults, NEW p \in Processes, NEW path \in listed[p], OpenListed(p, path)
  PROVE  IInv'
<1>1. TypeOK /\ MapsOK /\ Holds(p) /\ ItemOf(path) \in Files /\ path \in AnsiPaths /\ ItemOf(path) \in Items
  BY TypeParts, FileFacts DEF IInv, OpenListed, MapsOK
<1>2. PICK c : c = [Idle EXCEPT !.at = "opened", !.kind = "leeyes", !.item = ItemOf(path),
                                 !.alias = path, !.read = Reached(p, path), !.wanted = content[ItemOf(path)]]
  OBVIOUS
<1>3. c \in CallRecords
  <2>1. content[ItemOf(path)] \in Data /\ Reached(p, path) \in Data
    BY <1>1, ReachedTyped DEF TypeOK
  <2> QED BY <1>1, <1>2, <2>1, IdleTyped DEF CallRecords, Steps, Kinds
<1>4. CallsOK' /\ call'[p] = c /\ Others(p)
  BY <1>1, <1>2, <1>3, CallFacts DEF OpenListed, CallsOK
<1>5. c.at = "opened" /\ c.kind = "leeyes" /\ c.item = ItemOf(path) /\ c.alias = path /\ c.read = Reached(p, path)
      /\ c.wanted = content[ItemOf(path)]
  BY <1>2 DEF Idle
<1>6. UNCHANGED <<disk, maps, listed>>
  BY DEF OpenListed
<1>7. MapsOK' /\ Quiet(p) /\ Steady
  BY <1>1, <1>4, <1>5, <1>6 DEF MapsOK, maps, disk, Quiet, Mine, Others, Steady, TypeOK, Creates, OpenListed, Ready
<1>8. CallInv(p, call[p])'
  <2>1. Shown(p, path)
    BY <1>1 DEF Holds, ListHolds
  <2>2. Reads(p, c)
    BY <1>1, <1>5, <2>1, ShownReads DEF Reads
  <2>3. Reads(p, c)'
    BY <1>6, <2>2 DEF Reads, LookupSyntheticPathAlias, disk, maps
  <2>4. CallInv(p, c)'
    BY <1>1, <1>5, <2>3 DEF CallInv, StepInv
  <2> QED BY <1>4, <2>4
<1> QED BY <1>4, <1>6, <1>7, <1>8, QuietHolds, QuietStep DEF Holds, maps

--------------------------------------------------------------------------------
(* The three steps of CreateDirectoryJunction.                                *)

\* The entry of one directory is all of the disk that changes; only its creator removes it, and
\* no junction.
Junctioning(p, dir) ==
  /\ UNCHANGED <<content, folder, volume, disturbed, faults>>
  /\ temp' = [i \in Items |-> temp'[i]] /\ \A i \in Items \ {dir} : temp'[i] = temp[i]
  /\ temp'[dir] \in {"absent", "empty", "junction"}
  /\ temp'[dir] = "junction" => volume.junctions
  /\ temp'[dir] # "absent" => folder
  /\ Creates(p) => Target(p) = dir
  /\ Creates(p)' => Target(p)' = dir
  /\ temp'[dir] = "empty" => temp[dir] = "empty" \/ Creates(p)'
  /\ Creates(p) /\ temp'[dir] = "empty" => Creates(p)'
  /\ Untouched =>
       /\ temp[dir] = "junction" => temp'[dir] = "junction"
       /\ temp'[dir] = "absent" => temp[dir] = "absent" \/ Creates(p)
       /\ Creates(p)' => /\ temp'[dir] # "absent" /\ (Creates(p) \/ temp[dir] = "absent")
                         /\ call'[p].at = "undo" => ~volume.junctions

LEMMA JunctioningSteady == ASSUME NEW p, NEW dir \in Dirs, Junctioning(p, dir) PROVE Steady
<1>1. \A f \in Files : f \in Items \ {dir}
  BY FileFacts
<1>2. \A d \in Dirs : d \in Items
  BY DirFacts
<1> QED BY <1>1, <1>2 DEF Junctioning, Steady, Untouched

LEMMA JunctioningStep ==
  ASSUME IInv, Bounded, NEW p \in Processes, NEW dir \in Dirs, Junctioning(p, dir), Mine(p),
         MapsOK', CallsOK', Holds(p)'
  PROVE  IInv'
<1>1. DiskOK /\ MapsOK /\ CallsOK
  BY TypeParts DEF IInv
<1>2. \A f \in Files : f \in Items \ {dir}
  BY FileFacts
<1>3. \A d \in Dirs : d \in Items
  BY DirFacts
<1>4. Steady
  BY JunctioningSteady
<1>5. DiskOK'
  <2>1. \A d \in Dirs : temp'[d] \in {"absent", "empty", "junction"}
    BY <1>1, <1>3 DEF Junctioning, DiskOK
  <2>2. \A f \in Files : temp'[f] \in Data
    BY <1>1, <1>2 DEF Junctioning, DiskOK
  <2>3. ~folder' => \A i \in Items : Absent(i)'
    <3> SUFFICES ASSUME ~folder', NEW i \in Items PROVE temp'[i] = Nowhere[i]
      BY DEF Absent, Nowhere
    <3>1. CASE i = dir
      BY <1>1, <3>1 DEF Junctioning, Nowhere
    <3>2. CASE i # dir
      BY <1>1, <3>2 DEF Junctioning, DiskOK, Absent
    <3> QED BY <3>1, <3>2
  <2> QED BY <1>1, <2>1, <2>2, <2>3 DEF Junctioning, DiskOK
<1>6. VersionInv' /\ TempInv'
  <2>1. VersionInv'
    BY DEF IInv, Junctioning, VersionInv
  <2>2. \A f \in Files \ disturbed' : temp'[f] \in {NoData, content'[f]}
    BY <1>2 DEF IInv, Junctioning, TempInv
  <2>3. \A d \in Dirs : temp'[d] = "junction" => volume'.junctions
    BY <1>3 DEF IInv, Junctioning, TempInv
  <2> QED BY <2>1, <2>2, <2>3 DEF TempInv
<1>7. ASSUME NEW q \in Processes, q # p
      PROVE  (Creates(q)' <=> Creates(q)) /\ Target(q)' = Target(q) /\ call'[q] = call[q]
  BY <1>7 DEF Mine, Creates, Target
<1>8. \A q \in Processes : Creates(q) => Target(q) \in Dirs
  BY TargetFacts DEF Creates
<1>9. CreatorInv'
  <2> SUFFICES ASSUME Untouched' PROVE
         /\ \A q \in Processes : Creates(q)' => temp'[Target(q)'] # "absent"
         /\ \A q \in Processes : Creates(q)' /\ call'[q].at = "undo" => ~volume'.junctions
         /\ \A q, r \in Processes : Creates(q)' /\ Creates(r)' /\ Target(q)' = Target(r)' => q = r
    BY DEF CreatorInv
  <2>1. Untouched
    BY DEF Junctioning, Untouched
  <2>2. /\ \A q \in Processes : Creates(q) => temp[Target(q)] # "absent"
        /\ \A q \in Processes : Creates(q) /\ call[q].at = "undo" => ~volume.junctions
        /\ \A q, r \in Processes : Creates(q) /\ Creates(r) /\ Target(q) = Target(r) => q = r
    BY <2>1 DEF IInv, CreatorInv
  <2>3. ASSUME NEW q \in Processes, q # p, Creates(q)' PROVE temp'[Target(q)'] # "absent"
    <3>1. Creates(q) /\ Target(q)' = Target(q) /\ Target(q) \in Items /\ temp[Target(q)] # "absent"
      BY <1>3, <1>7, <1>8, <2>2, <2>3
    <3>2. Target(q) = dir => ~Creates(p)
      BY <2>2, <2>3, <3>1 DEF Junctioning
    <3> QED BY <2>1, <3>1, <3>2 DEF Junctioning
  <2>4. ASSUME NEW q \in Processes, q # p, Creates(q)', Creates(p)' PROVE Target(q)' # Target(p)'
    <3>1. Creates(q) /\ Target(q)' = Target(q) /\ Target(p)' = dir
      BY <1>7, <2>4 DEF Junctioning
    <3>2. CASE Creates(p)
      BY <2>2, <2>4, <3>1, <3>2 DEF Junctioning
    <3>3. CASE temp[dir] = "absent"
      BY <2>2, <3>1, <3>3
    <3> QED BY <2>1, <2>4, <3>2, <3>3 DEF Junctioning
  <2>5. Creates(p)' => temp'[Target(p)'] # "absent" /\ (call'[p].at = "undo" => ~volume'.junctions)
    BY <2>1 DEF Junctioning
  <2>6. ASSUME NEW q \in Processes, Creates(q)', call'[q].at = "undo" PROVE ~volume'.junctions
    BY <1>7, <2>2, <2>5, <2>6 DEF Junctioning
  <2>7. ASSUME NEW q \in Processes, NEW r \in Processes, Creates(q)', Creates(r)', Target(q)' = Target(r)' PROVE q = r
    BY <1>7, <2>2, <2>4, <2>7
  <2> QED BY <2>3, <2>5, <2>6, <2>7
<1>10. NothingHalfMade'
  <2> SUFFICES ASSUME NEW d \in Dirs \ disturbed', temp'[d] = "empty"
               PROVE  \E q \in Processes : Creates(q)' /\ Target(q)' = d
    BY DEF NothingHalfMade, Creates
  <2>1. CASE d = dir /\ Creates(p)'
    BY <2>1 DEF Junctioning
  <2>2. CASE ~(d = dir /\ Creates(p)')
    <3>1. temp[d] = "empty"
      BY <1>3, <2>2 DEF Junctioning
    <3>2. PICK q \in Processes : Creates(q) /\ Target(q) = d
      BY <3>1 DEF IInv, NothingHalfMade, Creates, Junctioning
    <3>3. q # p
      BY <2>2, <3>2 DEF Junctioning
    <3> QED BY <1>7, <3>2, <3>3
  <2> QED BY <2>1, <2>2
<1> QED BY <1>4, <1>5, <1>6, <1>9, <1>10, Assemble DEF Junctioning

LEMMA CreateDirectoryInv ==
  ASSUME IInv, Bounded, UNCHANGED faults, NEW p \in Processes, CreateDirectory(p)
  PROVE  IInv'
<1>1. TypeOK /\ MapsOK /\ Holds(p) /\ call[p].at = "mkdir"
  BY TypeParts DEF IInv, CreateDirectory
<1>2. PICK dir \in Dirs : dir = Target(p)
  BY <1>1, TargetFacts
<1>3. PICK c \in CallRecords : c = call[p]
  BY <1>1, CallTyped
<1>4. ~c.created /\ ~Creates(p) /\ c.item \in Items /\ dir \in Items
  BY <1>1, <1>3, DirFacts DEF Holds, CallInv, StepInv, Creates
<1>5. UNCHANGED <<content, folder, volume, disturbed, maps, listed>>
  BY DEF CreateDirectory
<1>6. PICK d \in CallRecords :
        /\ call' = [call EXCEPT ![p] = d] /\ d.item = c.item
        /\ \/ /\ ~folder /\ d.at = "undo" /\ d.created = FALSE
           \/ /\ folder /\ d.at = "reparse" /\ d.created = (temp[dir] = "absent")
  <2>1. CASE ~folder
    <3>1. [c EXCEPT !.at = "undo"] \in CallRecords /\ call' = [call EXCEPT ![p] = [c EXCEPT !.at = "undo"]]
      BY <1>1, <1>3, <2>1, CallTyped DEF CreateDirectory, Goto, CallRecords, Steps
    <3> QED BY <1>4, <2>1, <3>1 DEF CallRecords
  <2>2. CASE folder
    <3> DEFINE e == [c EXCEPT !.at = "reparse", !.created = temp[dir] = "absent"]
    <3>1. e \in CallRecords /\ call' = [call EXCEPT ![p] = e]
      BY <1>1, <1>2, <1>3, <2>2, CallTyped DEF CreateDirectory, CallRecords, Steps
    <3>2. e.item = c.item /\ e.at = "reparse" /\ e.created = (temp[dir] = "absent")
      BY DEF CallRecords
    <3> QED BY <2>2, <3>1, <3>2
  <2> QED BY <2>1, <2>2
<1>7. CallsOK' /\ call'[p] = d /\ Others(p)
  BY <1>1, <1>6, CallFacts DEF CallsOK
<1>8. CallInv(p, call[p])'
  <2>1. CallInv(p, d)'
    BY <1>4, <1>6 DEF CallInv, StepInv
  <2> QED BY <1>7, <2>1
<1>9. MapsOK' /\ Mine(p)
  BY <1>1, <1>5, <1>7 DEF MapsOK, maps, Mine, Others
<1>10. /\ temp' = [i \in Items |-> temp'[i]] /\ \A i \in Items \ {dir} : temp'[i] = temp[i]
       /\ temp'[dir] = IF folder /\ temp[dir] = "absent" THEN "empty" ELSE temp[dir]
  <2>1. CASE ~folder
    BY <1>1, <2>1 DEF CreateDirectory, TypeOK
  <2>2. CASE folder
    <3>1. temp' = [temp EXCEPT ![dir] = IF temp[dir] = "absent" THEN "empty" ELSE temp[dir]]
      BY <1>2, <2>2 DEF CreateDirectory
    <3> QED BY <1>1, <1>4, <2>2, <3>1, TempWritten
  <2> QED BY <2>1, <2>2
<1>11. Target(p)' = dir
  BY <1>2, <1>3, <1>6, <1>7 DEF Target
<1>12. temp[dir] \in {"absent", "empty", "junction"} /\ (~folder => temp[dir] = "absent")
  BY <1>1, <1>4 DEF TypeOK, Absent, Nowhere
<1>13. temp[dir] = "junction" => volume.junctions
  BY DEF IInv, TempInv
<1>14. Creates(p)' <=> folder /\ temp[dir] = "absent"
  BY <1>6, <1>7 DEF Creates
<1>15. Junctioning(p, dir)
  BY <1>4, <1>5, <1>6, <1>7, <1>10, <1>11, <1>12, <1>13, <1>14 DEF Junctioning
<1> QED BY <1>5, <1>7, <1>8, <1>9, <1>15, JunctioningSteady, JunctioningStep, QuietHolds DEF Holds, maps

LEMMA SetReparsePointInv ==
  ASSUME IInv, Bounded, UNCHANGED faults, NEW p \in Processes, SetReparsePoint(p)
  PROVE  IInv'
<1>1. TypeOK /\ MapsOK /\ Holds(p) /\ call[p].at = "reparse"
  BY TypeParts DEF IInv, SetReparsePoint
<1>2. PICK dir \in Dirs : dir = Target(p)
  BY <1>1, TargetFacts
<1>3. PICK item \in Items : item = call[p].item /\ (item \in Files => dir = item[1])
  BY <1>1, <1>2, TargetFacts
<1>4. UNCHANGED <<content, folder, volume, disturbed, gSyntheticPathAliases, rootCached, listed>>
  BY DEF SetReparsePoint
<1>5. dir \in Items /\ temp[dir] \in {"absent", "empty", "junction"} /\ (~folder => temp[dir] = "absent")
      /\ (temp[dir] = "junction" => volume.junctions)
  BY <1>1, DirFacts DEF TypeOK, Absent, Nowhere, IInv, TempInv
<1>6. CASE volume.junctions /\ temp[dir] # "absent"
  <2> DEFINE alias == IF item \in Dirs THEN TempAlias(dir) ELSE PrivateAlias(item)
  <2>1. /\ temp' = [temp EXCEPT ![dir] = "junction"] /\ CacheResult(p, alias)
        /\ gPrivateDirectoryAliasCache' =
             [gPrivateDirectoryAliasCache EXCEPT ![p] = IF item \in Dirs THEN @ ELSE @ \union {dir}]
    BY <1>2, <1>3, <1>6 DEF SetReparsePoint
  <2>2. /\ temp' = [i \in Items |-> temp'[i]] /\ temp'[dir] = "junction"
        /\ \A i \in Items \ {dir} : temp'[i] = temp[i]
    BY <1>1, <1>5, <2>1, TempWritten
  <2>3. call'[p].at = "returned" /\ ~Creates(p)'
    <3>1. alias \in AnsiPaths
      BY <1>5, AliasForms, PrivateForms DEF Items
    <3> QED BY <1>1, <2>1, <3>1, AnswerFacts DEF CacheResult, Creates
  <2>4. Junctioning(p, dir)
    BY <1>2, <1>4, <1>5, <1>6, <2>2, <2>3 DEF Junctioning
  <2>5. Steady
    BY <2>4, JunctioningSteady
  <2>6. alias \in AnsiPaths /\ Fits(p, item, alias)'
    <3>1. CASE item \in Dirs
      <4>1. dir = item /\ alias = TempAlias(item)
        BY <1>2, <1>3, <3>1 DEF Target
      <4> QED BY <2>2, <3>1, <4>1, AliasForms DEF Fits
    <3>2. CASE item \notin Dirs
      <4>1. item \in Files /\ alias = PrivateAlias(item) /\ dir = item[1]
        BY <1>3, <3>2 DEF Items
      <4> QED BY <2>2, <4>1, PrivateForms DEF Fits
    <3> QED BY <3>1, <3>2
  <2>7. /\ CallsOK' /\ Others(p)
        /\ gFullyAsciiAliasCache' \in [Processes -> [Items -> AnsiPaths \union {Nothing}]]
        /\ \A q \in Processes \ {p} : gFullyAsciiAliasCache'[q] = gFullyAsciiAliasCache[q]
        /\ CacheHolds(p)' /\ CallInv(p, call[p])'
    BY <1>3, <1>4, <2>1, <2>5, <2>6, CacheResultFacts
  <2>8. MapsOK' /\ Mine(p)
    BY <1>1, <1>4, <2>1, <2>7 DEF MapsOK, Mine, Others
  <2>9. PrivateHolds(p)'
    <3> SUFFICES ASSUME Untouched', NEW d \in gPrivateDirectoryAliasCache'[p] PROVE temp'[d] = "junction"
      BY DEF PrivateHolds
    <3>1. d = dir \/ d \in gPrivateDirectoryAliasCache[p]
      BY <1>1, <2>1 DEF MapsOK
    <3>2. d \in gPrivateDirectoryAliasCache[p] => d \in Items /\ temp[d] = "junction"
      BY <1>1, <1>4, DirFacts DEF Holds, PrivateHolds, MapsOK, Untouched
    <3> QED BY <2>2, <3>1, <3>2
  <2> QED BY <1>4, <2>4, <2>5, <2>7, <2>8, <2>9, QuietHolds, JunctioningStep DEF Holds
<1>7. CASE ~(volume.junctions /\ temp[dir] # "absent")
  <2>1. Goto(p, "undo") /\ UNCHANGED <<temp, gFullyAsciiAliasCache, gPrivateDirectoryAliasCache>>
    BY <1>2, <1>7 DEF SetReparsePoint
  <2>2. CallsOK' /\ Others(p) /\ CallInv(p, call[p])' /\ call'[p].at = "undo" /\ call'[p].item = call[p].item
        /\ (Creates(p)' <=> Creates(p))
    BY <1>1, <2>1, GotoInv DEF Steps, Creates
  <2>3. MapsOK' /\ Mine(p)
    BY <1>1, <1>4, <2>1, <2>2 DEF MapsOK, Mine, Others
  <2>4. Target(p)' = dir
    BY <1>2, <2>2 DEF Target
  <2>5. Untouched /\ Creates(p) => temp[dir] # "absent"
    BY <1>2 DEF IInv, CreatorInv
  <2>6. temp' = [i \in Items |-> temp'[i]] /\ temp' = temp
    BY <1>1, <2>1 DEF TypeOK
  <2>7. Junctioning(p, dir)
    BY <1>2, <1>4, <1>5, <1>7, <2>2, <2>4, <2>5, <2>6 DEF Junctioning
  <2> QED BY <1>4, <2>1, <2>2, <2>3, <2>7, JunctioningSteady, QuietHolds, JunctioningStep DEF Holds
<1> QED BY <1>6, <1>7

LEMMA RemoveDirectoryInv ==
  ASSUME IInv, Bounded, UNCHANGED faults, NEW p \in Processes, RemoveDirectory(p)
  PROVE  IInv'
<1>1. TypeOK /\ MapsOK /\ Holds(p) /\ call[p].at = "undo"
  BY TypeParts DEF IInv, RemoveDirectory
<1>2. PICK dir \in Dirs : dir = Target(p)
  BY <1>1, TargetFacts
<1>3. PICK item \in Items : item = call[p].item
  BY <1>1, TargetFacts
<1>4. UNCHANGED <<content, folder, volume, disturbed, gPrivateDirectoryAliasCache, rootCached, listed>>
  BY DEF RemoveDirectory
<1>5. dir \in Items /\ temp[dir] \in {"absent", "empty", "junction"} /\ (~folder => temp[dir] = "absent")
      /\ (temp[dir] = "junction" => volume.junctions)
  BY <1>1, DirFacts DEF TypeOK, Absent, Nowhere, IInv, TempInv
<1>6. /\ temp' = [i \in Items |-> temp'[i]] /\ \A i \in Items \ {dir} : temp'[i] = temp[i]
      /\ temp'[dir] = IF Creates(p) THEN "absent" ELSE temp[dir]
  <2>1. Creates(p) <=> call[p].created
    BY <1>1 DEF Creates
  <2>2. CASE Creates(p)
    <3>1. temp' = [temp EXCEPT ![dir] = "absent"]
      BY <1>2, <2>1, <2>2 DEF RemoveDirectory
    <3> QED BY <1>1, <1>5, <2>2, <3>1, TempWritten
  <2>3. CASE ~Creates(p)
    <3>1. temp' = temp
      BY <2>1, <2>3 DEF RemoveDirectory
    <3> QED BY <1>1, <2>3, <3>1 DEF TypeOK
  <2> QED BY <2>2, <2>3
<1>7. Untouched /\ Creates(p) => ~volume.junctions
  BY <1>1 DEF IInv, CreatorInv
<1>8. ASSUME ~Creates(p)' PROVE Junctioning(p, dir)
  BY <1>2, <1>4, <1>5, <1>6, <1>7, <1>8 DEF Junctioning
<1>9. CASE item \in Dirs
  <2>1. CacheResult(p, TempAlias(item)) /\ RememberSyntheticPathAlias(p, {TempAlias(item)}) /\ TempAlias(item) \in AnsiPaths
    BY <1>3, <1>9, AliasForms DEF RemoveDirectory
  <2>2. /\ gSyntheticPathAliases' \in [Processes -> SUBSET AnsiPaths]
        /\ gSyntheticPathAliases'[p] = gSyntheticPathAliases[p] \union {TempAlias(item)}
        /\ \A q \in Processes \ {p} : gSyntheticPathAliases'[q] = gSyntheticPathAliases[q]
    BY <1>1, <2>1, RememberFacts
  <2>3. ~Creates(p)'
    BY <1>1, <2>1, AnswerFacts DEF CacheResult, Creates
  <2>4. Fits(p, item, TempAlias(item))'
    BY <2>2, RememberedFits
  <2>5. Junctioning(p, dir) /\ Steady
    BY <1>8, <2>3, JunctioningSteady
  <2>6. /\ CallsOK' /\ Others(p)
        /\ gFullyAsciiAliasCache' \in [Processes -> [Items -> AnsiPaths \union {Nothing}]]
        /\ \A q \in Processes \ {p} : gFullyAsciiAliasCache'[q] = gFullyAsciiAliasCache[q]
        /\ CacheHolds(p)' /\ CallInv(p, call[p])'
    BY <1>3, <2>1, <2>2, <2>4, <2>5, CacheResultFacts
  <2>7. MapsOK' /\ Mine(p)
    BY <1>1, <1>4, <2>2, <2>6 DEF MapsOK, Mine, Others
  <2> QED BY <1>4, <2>2, <2>5, <2>6, <2>7, QuietHolds, JunctioningStep DEF Holds
<1>10. CASE item \notin Dirs
  <2>1. Goto(p, "short") /\ UNCHANGED <<gFullyAsciiAliasCache, gSyntheticPathAliases>>
    BY <1>3, <1>10 DEF RemoveDirectory
  <2>2. CallsOK' /\ Others(p) /\ CallInv(p, call[p])' /\ ~Creates(p)'
    BY <1>1, <1>3, <1>10, <2>1, GotoInv DEF Steps, Creates
  <2>3. MapsOK' /\ Mine(p)
    BY <1>1, <1>4, <2>1, <2>2 DEF MapsOK, Mine, Others
  <2>4. Junctioning(p, dir) /\ Steady
    BY <1>8, <2>2, JunctioningSteady
  <2> QED BY <1>4, <2>1, <2>2, <2>3, <2>4, QuietHolds, JunctioningStep DEF Holds
<1> QED BY <1>9, <1>10

--------------------------------------------------------------------------------
(* Operations on files, and the faults.                                       *)

\* An entry that no longer is what the file is counts as disturbed; directories and what is made
\* of them stay.
Filing ==
  /\ UNCHANGED <<folder, volume, maps, listed>>
  /\ content' \in [Files -> Data] /\ disturbed \subseteq disturbed' /\ disturbed' \subseteq Items
  /\ temp' = [i \in Items |-> temp'[i]] /\ \A d \in Dirs : temp'[d] = temp[d]
  /\ \A f \in Files : temp'[f] = temp[f] \/ (temp'[f] = NoData /\ f \in disturbed')
  /\ \A f \in Files \ disturbed' : content'[f] = content[f]
  /\ \A p \in Processes : /\ Creates(p)' <=> Creates(p)
                          /\ Creates(p) => call'[p] = call[p]

LEMMA FilingFacts ==
  ASSUME IInv, Filing
  PROVE  DiskOK' /\ MapsOK' /\ TempInv' /\ CreatorInv' /\ NothingHalfMade' /\ Steady
<1>1. DiskOK /\ MapsOK
  BY TypeParts DEF IInv
<1>2. Steady
  BY DEF Filing, Steady
<1>3. DiskOK'
  <2>1. \A f \in Files : temp'[f] \in Data
    BY <1>1 DEF Filing, DiskOK, Data
  <2>2. ~folder' => \A i \in Items : Absent(i)'
    <3> SUFFICES ASSUME ~folder', NEW i \in Items PROVE temp'[i] = Nowhere[i]
      BY DEF Absent, Nowhere
    <3>1. temp[i] = Nowhere[i]
      BY <1>1 DEF Filing, DiskOK, Absent
    <3>2. CASE i \in Dirs
      BY <3>1, <3>2 DEF Filing
    <3>3. CASE i \notin Dirs
      BY <3>1, <3>3 DEF Filing, Nowhere, Items
    <3> QED BY <3>2, <3>3
  <2> QED BY <1>1, <2>1, <2>2 DEF Filing, DiskOK
<1>4. MapsOK'
  BY <1>1 DEF Filing, MapsOK, maps
<1>5. TempInv'
  BY DEF IInv, TempInv, Filing
<1>6. ASSUME NEW p \in Processes
      PROVE  /\ Creates(p)' <=> Creates(p)
             /\ Creates(p) => call'[p] = call[p] /\ Target(p)' = Target(p) /\ Target(p) \in Dirs
  BY TargetFacts DEF Filing, Creates, Target
<1>7. CreatorInv'
  <2>1. Untouched' => Untouched
    BY DEF Filing, Untouched
  <2>2. UNCHANGED volume /\ \A d \in Dirs : temp'[d] = temp[d]
    BY DEF Filing
  <2> QED BY <1>6, <2>1, <2>2 DEF IInv, CreatorInv
<1>8. NothingHalfMade'
  <2> SUFFICES ASSUME NEW d \in Dirs \ disturbed', temp'[d] = "empty"
               PROVE  \E p \in Processes : Creates(p)' /\ Target(p)' = d
    BY DEF NothingHalfMade, Creates
  <2>1. PICK p \in Processes : Creates(p) /\ Target(p) = d
    BY DEF IInv, NothingHalfMade, Creates, Filing
  <2> QED BY <1>6, <2>1
<1> QED BY <1>2, <1>3, <1>4, <1>5, <1>7, <1>8

\* The one file that a path of an operation may mean.
LEMMA ResolvedFacts ==
  ASSUME NEW p, NEW path
  PROVE  Resolved(p, path) \subseteq {ItemOf(path)}
<1>1. LookupSyntheticPathAlias(p, path) => path.leaf[1] = "~u"
  BY DEF LookupSyntheticPathAlias
<1>2. path.parent[1] = "own" => path.parent # Drive
  BY NameFacts
<1> QED BY <1>1, <1>2 DEF Resolved, ItemOf

LEMMA OperatedFacts ==
  ASSUME TypeOK, NEW p \in Processes, NEW path \in AnsiPaths, NEW kind \in Kinds, NEW done \in BOOLEAN,
         Operated(p, path, kind, done)
  PROVE  /\ CallsOK' /\ Others(p) /\ ~Creates(p)' /\ CallInv(p, call[p])'
         /\ call'[p].at = "operated" /\ call'[p].item = ItemOf(path) /\ call'[p].alias = path
         /\ call'[p].kind = kind /\ call'[p].succeeded = done
<1>1. PICK c : c = [Idle EXCEPT !.at = "operated", !.kind = kind, !.item = ItemOf(path), !.alias = path, !.succeeded = done]
  OBVIOUS
<1>2. /\ c.at = "operated" /\ c.kind = kind /\ c.item = ItemOf(path) /\ c.alias = path /\ c.succeeded = done
      /\ c \in CallRecords
  <2>1. ItemOf(path) \in Items
    BY PathCases
  <2> QED BY <1>1, <2>1, IdleTyped DEF CallRecords, Steps, Idle
<1>3. CallsOK' /\ call'[p] = c /\ Others(p)
  BY <1>1, <1>2, CallFacts DEF Operated, CallsOK
<1>4. CallInv(p, c)'
  BY <1>2, PathCases DEF CallInv, StepInv
<1> QED BY <1>2, <1>3, <1>4 DEF Creates

LEMMA OperationStep ==
  ASSUME IInv, Bounded, UNCHANGED faults, NEW p \in Processes, Ready(p),
         NEW path \in AnsiPaths, NEW kind \in Kinds, NEW done \in BOOLEAN, Operated(p, path, kind, done),
         UNCHANGED <<folder, volume, maps, listed>>,
         content' \in [Files -> Data], disturbed \subseteq disturbed', disturbed' \subseteq Items,
         temp' = [i \in Items |-> temp'[i]], \A d \in Dirs : temp'[d] = temp[d],
         \A f \in Files : temp'[f] = temp[f] \/ (temp'[f] = NoData /\ f \in disturbed'),
         \A f \in Files \ disturbed' : content'[f] = content[f],
         \A f \in Files : content'[f] = NoData \/ \E g \in Files : content'[f] = content[g]
  PROVE  IInv'
<1>1. CallsOK' /\ Others(p) /\ ~Creates(p)' /\ CallInv(p, call[p])'
  BY OperatedFacts DEF IInv
<1>2. ~Creates(p)
  BY DEF Ready, Creates
<1>3. Filing
  <2>1. \A q \in Processes : (Creates(q)' <=> Creates(q)) /\ (Creates(q) => call'[q] = call[q])
    BY <1>1, <1>2 DEF Others, Creates
  <2> QED BY <2>1 DEF Filing
<1>4. VersionInv'
  BY DEF IInv, VersionInv
<1>5. Mine(p)
  BY <1>1 DEF Mine, Others, maps
<1> QED BY <1>1, <1>3, <1>4, <1>5, FilingFacts, QuietHolds, Assemble DEF Holds, maps

LEMMA DeleteFileAInv ==
  ASSUME IInv, Bounded, UNCHANGED faults, NEW p \in Processes, NEW path \in listed[p], DeleteFileA(p, path)
  PROVE  /\ IInv'
         /\ \A f \in Files \ {ItemOf(path)} : content'[f] = content[f]
         /\ call'[p].succeeded /\ path.parent[1] \in {"own", "~u"} => content'[ItemOf(path)] = NoData
         /\ call'[p].at = "operated" /\ call'[p].kind = "delete" /\ call'[p].item = ItemOf(path)
         /\ call'[p].alias = path /\ Others(p)
<1> DEFINE meant == { f \in Resolved(p, path) : content[f] # NoData }
           link == path.parent = Temp /\ ~LookupSyntheticPathAlias(p, path)
           through == path.parent \in { InTemp(d) : d \in Dirs } /\ OnDisk(path) # NoData
           done == meant # {} \/ through \/ (link /\ OnDisk(path) # NoData)
<1>1. TypeOK /\ path \in AnsiPaths /\ NoData \in Data
  BY DEF IInv, TypeOK, Data
<1>2. PICK item \in Files : item = ItemOf(path)
  BY DEF DeleteFileA
<1>3. /\ Ready(p) /\ UNCHANGED <<folder, volume, maps, listed>> /\ Operated(p, path, "delete", done)
      /\ content' = [f \in Files |-> IF f \in meant \/ (through /\ f = item) THEN NoData ELSE content[f]]
      /\ temp' = (IF link THEN [temp EXCEPT ![path.leaf[2]] = NoData] ELSE temp)
      /\ disturbed' = disturbed \union {item}
  BY <1>2 DEF DeleteFileA
<1>4. meant \subseteq {item}
  BY <1>2, ResolvedFacts
<1>5. \A f \in Files \ {item} : content'[f] = content[f]
  BY <1>3, <1>4
<1>6. disturbed \subseteq disturbed' /\ disturbed' \subseteq Items /\ item \in Items /\ item \notin Dirs
  BY <1>1, <1>3, FileFacts DEF TypeOK
<1>7. /\ temp' = [i \in Items |-> temp'[i]] /\ \A i \in Items \ {item} : temp'[i] = temp[i]
      /\ temp'[item] = temp[item] \/ temp'[item] = NoData
  <2>1. CASE link
    <3>1. path.leaf[2] = item
      BY <1>1, <1>2, <2>1, PathCases, AliasForms, NameFacts
    <3> QED BY <1>1, <1>3, <1>6, <2>1, <3>1, TempWritten
  <2>2. CASE ~link
    BY <1>1, <1>3, <2>2 DEF TypeOK
  <2> QED BY <2>1, <2>2
<1>8. PICK succeeded \in BOOLEAN : (succeeded <=> done) /\ Operated(p, path, "delete", succeeded)
  BY <1>3
<1>9. IInv'
  <2>1. content' \in [Files -> Data]
    BY <1>1, <1>3 DEF TypeOK
  <2>2. \A f \in Files : content'[f] = NoData \/ \E g \in Files : content'[f] = content[g]
    BY <1>3
  <2>3. \A d \in Dirs : temp'[d] = temp[d]
    BY <1>6, <1>7, DirFacts
  <2>4. \A f \in Files : temp'[f] = temp[f] \/ (temp'[f] = NoData /\ f \in disturbed')
    BY <1>3, <1>7, FileFacts
  <2>5. \A f \in Files \ disturbed' : content'[f] = content[f]
    BY <1>3, <1>5
  <2>6. "delete" \in Kinds
    BY DEF Kinds
  <2> QED BY <1>1, <1>3, <1>6, <1>7, <1>8, <2>1, <2>2, <2>3, <2>4, <2>5, <2>6, OperationStep
<1>10. /\ call'[p].at = "operated" /\ call'[p].kind = "delete" /\ call'[p].item = item
       /\ call'[p].alias = path /\ call'[p].succeeded = succeeded /\ Others(p)
  BY <1>1, <1>2, <1>8, OperatedFacts DEF Kinds
<1>11. done /\ path.parent[1] \in {"own", "~u"} => content'[item] = NoData
  <2> SUFFICES ASSUME done, path.parent[1] \in {"own", "~u"} PROVE content'[item] = NoData
    OBVIOUS
  <2>1. path.parent # Temp /\ path.parent \notin { InTemp(d) : d \in Dirs }
    BY NameFacts
  <2>2. meant # {}
    BY <2>1
  <2> QED BY <1>3, <1>4, <2>2
<1> QED BY <1>2, <1>5, <1>8, <1>9, <1>10, <1>11

LEMMA MoveFileAInv ==
  ASSUME IInv, Bounded, UNCHANGED faults, NEW p \in Processes, NEW path \in listed[p], NEW dir \in Dirs, MoveFileA(p, path, dir)
  PROVE  /\ IInv'
         /\ \A f \in Files \ {ItemOf(path)} : content[f] # NoData => content'[f] = content[f]
         /\ call'[p].at = "operated" /\ call'[p].kind = "move" /\ call'[p].item = ItemOf(path) /\ Others(p)
<1> DEFINE from == { f \in Resolved(p, path) : content[f] # NoData }
           to == Resolved(p, Path(Spelling(dir), path.leaf)) \intersect Files
           Moves == from = to \/ (to # {} /\ from # {} /\ \A f \in to : content[f] = NoData)
<1>1. TypeOK /\ path \in AnsiPaths /\ NoData \in Data
  BY DEF IInv, TypeOK, Data
<1>2. PICK item \in Files : item = ItemOf(path)
  BY ListedForms DEF MoveFileA
<1>3. from \subseteq {item}
  BY <1>2, ResolvedFacts
<1>4. PICK done \in BOOLEAN : Operated(p, path, "move", done)
  BY DEF MoveFileA
<1>5. Ready(p) /\ UNCHANGED <<folder, temp, volume, maps, listed>> /\ disturbed' = disturbed \union Changed
  BY DEF MoveFileA
<1>6. /\ content' \in [Files -> Data]
      /\ \A f \in Files : content'[f] = NoData \/ \E g \in Files : content'[f] = content[g]
      /\ \A f \in Files \ {item} : content[f] # NoData => content'[f] = content[f]
  <2>1. CASE Moves
    <3>1. content' = [f \in Files |-> IF f \in to THEN content[CHOOSE g \in from : TRUE]
                                      ELSE IF f \in from THEN NoData ELSE content[f]]
      BY <2>1 DEF MoveFileA
    <3>2. \A f \in to : (CHOOSE g \in from : TRUE) = item
      <4>1. to # {} => from = {item}
        BY <1>3, <2>1
      <4> QED BY <4>1
    <3>3. \A f \in to : content[f] # NoData => f = item
      BY <1>3, <2>1
    <3> QED BY <1>1, <1>3, <3>1, <3>2, <3>3 DEF TypeOK
  <2>2. CASE ~Moves
    <3>1. UNCHANGED content
      BY <2>2 DEF MoveFileA
    <3> QED BY <1>1, <3>1 DEF TypeOK
  <2> QED BY <2>1, <2>2
<1>7. IInv'
  <2>1. disturbed \subseteq disturbed' /\ disturbed' \subseteq Items
    BY <1>1, <1>5, FileFacts DEF Changed, TypeOK
  <2>2. \A f \in Files \ disturbed' : content'[f] = content[f]
    BY <1>5 DEF Changed
  <2>3. temp' = [i \in Items |-> temp'[i]] /\ temp' = temp
    BY <1>1, <1>5 DEF TypeOK
  <2>4. "move" \in Kinds
    BY DEF Kinds
  <2> QED BY <1>1, <1>4, <1>5, <1>6, <2>1, <2>2, <2>3, <2>4, OperationStep
<1>8. call'[p].at = "operated" /\ call'[p].kind = "move" /\ call'[p].item = item /\ Others(p)
  BY <1>1, <1>2, <1>4, OperatedFacts DEF Kinds
<1> QED BY <1>2, <1>6, <1>7, <1>8

LEMMA ReplaceInv ==
  ASSUME IInv, faults < MaxFaults, faults' = faults + 1, UNCHANGED calls, NEW file \in Files, Replace(file)
  PROVE  IInv'
<1>1. TypeOK /\ VersionInv /\ faults \in Nat /\ calls \in 0 .. MaxCalls /\ MaxFaults \in Nat
  BY AliasAssumption DEF IInv, TypeOK
<1>2. PICK data : data = content[file]
  OBVIOUS
<1>3. data[1] \in Items /\ data[2] \in Nat /\ data[2] <= faults + 1
  <2>1. data \in Data /\ data # NoData
    BY <1>1, <1>2 DEF TypeOK, Replace
  <2>2. data \in Items \X (1 .. MaxFaults + 1)
    BY <2>1 DEF Data
  <2> QED BY <1>1, <1>2, <2>1, <2>2 DEF VersionInv
<1>4. <<data[1], data[2] + 1>> \in Data
  <2>1. data[2] + 1 \in 1 .. MaxFaults + 1
    BY <1>1, <1>3
  <2> QED BY <1>3, <2>1 DEF Data
<1>5. content' = [content EXCEPT ![file] = <<data[1], data[2] + 1>>]
  BY <1>2 DEF Replace
<1>6. content' \in [Files -> Data] /\ \A f \in Files \ {file} : content'[f] = content[f]
  BY <1>1, <1>4, <1>5 DEF TypeOK
<1>7. Filing
  <2>1. disturbed \subseteq disturbed' /\ disturbed' \subseteq Items /\ file \in disturbed'
    BY <1>1, FileFacts DEF Replace, TypeOK
  <2>2. temp' = [i \in Items |-> temp'[i]] /\ temp' = temp
    BY <1>1 DEF Replace, TypeOK
  <2> QED BY <1>6, <2>1, <2>2 DEF Filing, Replace, Creates
<1>8. VersionInv'
  <2> SUFFICES ASSUME NEW f \in Files, content'[f] # NoData PROVE content'[f][2] <= faults' + 1
    BY DEF VersionInv
  <2>1. CASE f = file
    <3>1. content'[f] = <<data[1], data[2] + 1>>
      BY <1>1, <1>5, <2>1 DEF TypeOK
    <3>2. content'[f][2] = data[2] + 1
      BY <3>1
    <3> QED BY <1>1, <1>3, <3>2
  <2>2. CASE f # file
    <3>1. PICK old : old = content[f] /\ old = content'[f]
      BY <1>6, <2>2
    <3>2. old[2] \in Nat /\ old[2] <= faults + 1
      <4>1. content[f] \in Data /\ content[f] # NoData
        BY <1>1, <3>1 DEF TypeOK
      <4>2. content[f] \in Items \X (1 .. MaxFaults + 1)
        BY <4>1 DEF Data
      <4>3. content[f][2] \in Nat /\ content[f][2] <= faults + 1
        BY <1>1, <4>1, <4>2 DEF VersionInv
      <4> QED BY <3>1, <4>3
    <3> QED BY <1>1, <3>1, <3>2
  <2> QED BY <2>1, <2>2
<1>9. ASSUME NEW p \in Processes PROVE Holds(p)'
  <2>1. Steady /\ UNCHANGED <<maps, listed, call>>
    BY <1>7, FilingFacts DEF Replace
  <2>2. PICK c : c = call[p] /\ c = call'[p]
    BY <2>1
  <2>3. CallInv(p, c)'
    BY <2>1, <2>2, CallKept DEF IInv, Holds, maps
  <2> QED BY <2>1, <2>2, <2>3, QuietHolds DEF Holds, maps
<1>10. CallsOK'
  BY <1>1 DEF Replace, TypeOK, CallsOK, CallRecords, Kinds
<1>11. calls' \in 0 .. MaxCalls /\ faults' \in 0 .. MaxFaults
  BY <1>1
<1> QED BY <1>7, <1>8, <1>9, <1>10, <1>11, FilingFacts, TypeParts DEF IInv

\* Versions allow for more faults.
LEMMA VersionKept ==
  ASSUME TypeOK, VersionInv, faults' = faults + 1, UNCHANGED content
  PROVE  VersionInv'
<1> SUFFICES ASSUME NEW f \in Files, content[f] # NoData PROVE content[f][2] <= faults' + 1
  BY DEF VersionInv
<1>1. content[f] \in Items \X (1 .. MaxFaults + 1)
  BY DEF TypeOK, Data
<1>2. content[f][2] \in Nat /\ content[f][2] <= faults + 1 /\ faults \in Nat
  BY <1>1 DEF VersionInv, TypeOK
<1> QED BY <1>2

LEMMA CleanInv ==
  ASSUME IInv, faults < MaxFaults, faults' = faults + 1, UNCHANGED calls, Clean
  PROVE  IInv'
<1>1. TypeOK /\ VersionInv /\ faults \in Nat /\ calls \in 0 .. MaxCalls /\ MaxFaults \in Nat
  BY AliasAssumption DEF IInv, TypeOK
<1>2. temp' = Nowhere /\ folder' = FALSE /\ disturbed' = Items /\ UNCHANGED <<content, volume, maps, listed, call>>
  BY DEF Clean
<1>3. ~Untouched'
  BY <1>2 DEF Untouched
<1>4. /\ \A d \in Dirs : temp'[d] = "absent"
      /\ \A f \in Files : temp'[f] = NoData /\ f \in Items
      /\ temp' = [i \in Items |-> temp'[i]]
  BY <1>2, FileFacts, DirFacts DEF Nowhere
<1>5. Steady
  BY <1>1, <1>2, <1>3, <1>4 DEF Steady, TypeOK
<1>6. DiskOK' /\ MapsOK' /\ CallsOK'
  <2>1. DiskOK'
    BY <1>1, <1>2, <1>4 DEF DiskOK, TypeOK, Absent, Nowhere, Data
  <2>2. MapsOK' /\ CallsOK'
    BY <1>1, <1>2 DEF TypeOK, MapsOK, CallsOK, CallRecords, Kinds, maps
  <2> QED BY <2>1, <2>2
<1>7. VersionInv'
  BY <1>1, <1>2, VersionKept
<1>8. TempInv' /\ CreatorInv' /\ NothingHalfMade'
  BY <1>2, <1>3, <1>4, DirFacts DEF TempInv, CreatorInv, NothingHalfMade
<1>9. ASSUME NEW p \in Processes PROVE Holds(p)'
  <2>1. PICK c : c = call[p] /\ c = call'[p]
    BY <1>2
  <2>2. CallInv(p, c)'
    BY <1>2, <1>5, <2>1, CallKept DEF IInv, Holds, maps
  <2> QED BY <1>2, <1>5, <2>1, <2>2, QuietHolds DEF Holds, maps
<1>10. calls' \in 0 .. MaxCalls /\ faults' \in 0 .. MaxFaults
  BY <1>1
<1> QED BY <1>6, <1>7, <1>8, <1>9, <1>10, TypeParts DEF IInv

LEMMA RestartInv ==
  ASSUME IInv, faults < MaxFaults, faults' = faults + 1, UNCHANGED calls, NEW p \in Processes, Restart(p)
  PROVE  IInv'
<1>1. TypeOK /\ MapsOK /\ VersionInv /\ faults \in Nat /\ calls \in 0 .. MaxCalls /\ MaxFaults \in Nat
  BY AliasAssumption, TypeParts DEF IInv, TypeOK
<1>2. UNCHANGED <<content, folder, temp, volume>>
  BY DEF Restart
<1>3. /\ gSyntheticPathAliases'[p] = {} /\ gFullyAsciiAliasCache'[p] = [i \in Items |-> Nothing]
      /\ gPrivateDirectoryAliasCache'[p] = {} /\ listed'[p] = {} /\ call'[p] = Idle
  BY <1>1, CallTyped DEF Restart, MapsOK
<1>4. CallsOK' /\ Others(p)
  BY <1>1, IdleTyped, CallFacts DEF Restart, CallsOK
<1>5. MapsOK' /\ Mine(p)
  BY <1>1, <1>4 DEF Restart, MapsOK, Mine, Others
<1>6. disturbed \subseteq disturbed' /\ disturbed' \subseteq Items
  <2>1. call[p].at \in {"reparse", "undo"} => Target(p) \in Items
    BY TargetFacts, DirFacts
  <2> QED BY <1>1, <2>1 DEF Restart, TypeOK
<1>7. Steady
  BY <1>2, <1>6 DEF Steady
<1>8. DiskOK' /\ TempInv' /\ VersionInv'
  <2>1. DiskOK'
    BY <1>1, <1>2, <1>6 DEF DiskOK, TypeOK, Absent
  <2>2. TempInv'
    BY <1>2, <1>6 DEF IInv, TempInv
  <2> QED BY <1>1, <1>2, <2>1, <2>2, VersionKept
<1>9. ~Creates(p)'
  BY <1>3 DEF Creates, Idle
<1>10. ASSUME NEW q \in Processes, q # p
       PROVE  (Creates(q)' <=> Creates(q)) /\ Target(q)' = Target(q) /\ call'[q] = call[q]
  BY <1>4, <1>10 DEF Others, Creates, Target
<1>11. CreatorInv'
  <2>1. Untouched' => Untouched
    BY <1>6 DEF Untouched
  <2> QED BY <1>2, <1>9, <1>10, <2>1 DEF IInv, CreatorInv
<1>12. NothingHalfMade'
  <2> SUFFICES ASSUME NEW d \in Dirs \ disturbed', temp'[d] = "empty"
               PROVE  \E q \in Processes : Creates(q)' /\ Target(q)' = d
    BY DEF NothingHalfMade, Creates
  <2>1. PICK q \in Processes : Creates(q) /\ Target(q) = d
    BY <1>2, <1>6 DEF IInv, NothingHalfMade, Creates
  <2>2. q # p
    BY <2>1 DEF Restart, Creates
  <2> QED BY <1>10, <2>1, <2>2
<1>13. Holds(p)'
  <2>1. PrivateHolds(p)' /\ CacheHolds(p)' /\ ListHolds(p)'
    BY <1>3 DEF PrivateHolds, CacheHolds, ListHolds
  <2>2. CallInv(p, call[p])'
    BY <1>3 DEF CallInv, StepInv, Idle
  <2> QED BY <2>1, <2>2 DEF Holds
<1>14. Bounded
  BY <1>1 DEF Bounded
<1> QED BY <1>4, <1>5, <1>7, <1>8, <1>11, <1>12, <1>13, <1>14, Assemble

--------------------------------------------------------------------------------
(* The invariant holds.                                                       *)

LEMMA InitInv == Init => IInv
<1> SUFFICES ASSUME Init PROVE IInv
  OBVIOUS
<1>1. /\ temp = Nowhere /\ folder = FALSE /\ disturbed = {} /\ calls = 0 /\ faults = 0
      /\ \A p \in Processes : /\ gFullyAsciiAliasCache[p] = [i \in Items |-> Nothing]
                              /\ gPrivateDirectoryAliasCache[p] = {} /\ listed[p] = {} /\ call[p] = Idle
  BY DEF Init
<1>2. content \in [Files -> Data] /\ \A f \in Files : content[f] # NoData => content[f] = <<f, 1>>
  <2>1. PICK there \in SUBSET Files : content = [f \in Files |-> IF f \in there THEN <<f, 1>> ELSE NoData]
    BY DEF Init
  <2>2. \A f \in Files : <<f, 1>> \in Data
    BY AliasAssumption, FileFacts DEF Data
  <2> QED BY <2>1, <2>2 DEF Data
<1>3. /\ \A d \in Dirs : temp[d] = "absent"
      /\ \A f \in Files : temp[f] = NoData
      /\ temp = [i \in Items |-> temp[i]]
  BY <1>1, FileFacts, DirFacts DEF Nowhere
<1>4. TypeOK
  <2>1. DiskOK
    BY <1>1, <1>2, <1>3 DEF Init, DiskOK, Absent, Data
  <2>2. MapsOK /\ CallsOK
    BY IdleTyped DEF Init, MapsOK, CallsOK
  <2>3. calls \in 0 .. MaxCalls /\ faults \in 0 .. MaxFaults
    BY <1>1, AliasAssumption
  <2> QED BY <2>1, <2>2, <2>3, TypeParts
<1>5. VersionInv
  BY <1>1, <1>2 DEF VersionInv
<1>6. TempInv /\ NothingHalfMade
  BY <1>3 DEF TempInv, NothingHalfMade
<1>7. CreatorInv
  BY <1>1 DEF CreatorInv, Creates, Idle
<1>8. ASSUME NEW p \in Processes PROVE Holds(p)
  <2>1. PrivateHolds(p) /\ CacheHolds(p) /\ ListHolds(p)
    BY <1>1 DEF PrivateHolds, CacheHolds, ListHolds
  <2>2. CallInv(p, call[p])
    BY <1>1 DEF CallInv, StepInv, Idle
  <2> QED BY <2>1, <2>2 DEF Holds
<1> QED BY <1>4, <1>5, <1>6, <1>7, <1>8 DEF IInv

LEMMA StartInv ==
  ASSUME IInv, NEW p \in Processes, Start(p), calls < MaxCalls, calls' = calls + 1, UNCHANGED faults
  PROVE  IInv'
<1>1. Bounded
  BY AliasAssumption DEF IInv, TypeOK, Bounded
<1>2. \A i \in Items, kind \in {"plugin", "drop"} : GetFullyAsciiAlias(p, i, kind) => IInv'
  BY <1>1, GetFullyAsciiAliasInv
<1>3. \A path \in listed[p] : OpenListed(p, path) \/ DeleteFileA(p, path) => IInv'
  BY <1>1, OpenListedInv, DeleteFileAInv
<1>4. \A path \in listed[p], d \in Dirs : MoveFileA(p, path, d) => IInv'
  BY <1>1, MoveFileAInv
<1> QED BY <1>1, <1>2, <1>3, <1>4, ListDriveInv, ListDirectoryInv, GetArchivePathAliasInv DEF Start

LEMMA ContinueInv ==
  ASSUME IInv, NEW p \in Processes, Continue(p), UNCHANGED <<calls, faults>>
  PROVE  IInv'
<1>1. Bounded
  BY DEF IInv, TypeOK, Bounded
<1> QED BY <1>1, GetPrivateDirectoryAliasInv, GetShortPathInv, MakeTempAliasInv, CreateDirectoryInv,
           SetReparsePointInv, RemoveDirectoryInv, OpenAliasInv, RetryInv DEF Continue

LEMMA StutterInv == ASSUME IInv, UNCHANGED vars PROVE IInv'
<1>1. DiskOK /\ MapsOK /\ CallsOK /\ TypeOK
  BY TypeParts DEF IInv
<1>2. UNCHANGED <<disk, maps, listed, call, calls, faults>>
  BY DEF vars
<1>3. DiskOK' /\ MapsOK' /\ CallsOK' /\ Steady
  BY <1>1, <1>2 DEF DiskOK, MapsOK, CallsOK, Steady, Absent, disk, maps
<1>4. VersionInv' /\ TempInv' /\ CreatorInv' /\ NothingHalfMade'
  BY <1>2 DEF IInv, VersionInv, TempInv, CreatorInv, NothingHalfMade, Untouched, Creates, Target, disk
<1>5. ASSUME NEW p \in Processes PROVE Holds(p)'
  <2>1. PICK c : c = call[p] /\ c = call'[p]
    BY <1>2
  <2>2. CallInv(p, c)'
    BY <1>2, <1>3, <2>1, CallKept DEF IInv, Holds, maps
  <2> QED BY <1>2, <1>3, <2>1, <2>2, QuietHolds DEF Holds, maps
<1> QED BY <1>1, <1>2, <1>3, <1>4, <1>5, TypeParts DEF IInv, TypeOK

LEMMA NextInv == IInv /\ [Next]_vars => IInv'
<1> SUFFICES ASSUME IInv, [Next]_vars PROVE IInv'
  OBVIOUS
<1>1. CASE Fault /\ faults < MaxFaults /\ faults' = faults + 1 /\ UNCHANGED calls
  BY <1>1, RestartInv, ReplaceInv, CleanInv DEF Fault
<1> QED BY <1>1, StartInv, ContinueInv, StutterInv DEF Next

LEMMA Inductive == Spec => []IInv
BY InitInv, NextInv, PTL DEF Spec

\* The folder in TEMP, the maps of the processes and their calls keep their types, and without
\* the folder it has no entries.
THEOREM TypeCorrect == Spec => []TypeOK
<1>1. IInv => TypeOK
  BY DEF IInv
<1> QED BY <1>1, Inductive, PTL

\* However many processes make, use and lose the entries of TEMP, an alias opens the file it was
\* asked for, or an entry of TEMP whose item has been replaced, moved or deleted (GetFullyAsciiAlias).
THEOREM AliasReadsCorrect == Spec => []AliasReads
<1>1. IInv => AliasReads
  BY DEF IInv, Holds, CallInv, Reads, AliasReads
<1> QED BY <1>1, Inductive, PTL

\* Neither a volume without junctions nor a lost race leaves an empty directory in TEMP
\* (CreateDirectoryJunction).
THEOREM NothingHalfMadeCorrect == Spec => []NothingHalfMade
<1>1. IInv => NothingHalfMade
  BY DEF IInv
<1> QED BY <1>1, Inductive, PTL

\* What a call that begins does to the calls: its own process alone takes part, and it has operated
\* on a file only if it deletes or moves.
LEMMA StartFacts ==
  ASSUME IInv, NEW p \in Processes, Start(p)
  PROVE  /\ Others(p)
         /\ \/ call'[p].at # "operated"
            \/ \E path \in listed[p] : DeleteFileA(p, path) \/ \E d \in Dirs : MoveFileA(p, path, d)
<1>1. call \in [Processes -> CallRecords]
  BY CallTyped DEF IInv
<1>2. ASSUME NEW paths, ListNames(p, paths) PROVE Others(p) /\ call'[p].at # "operated"
  BY <1>1, <1>2 DEF ListNames, Others, Idle
<1>3. ListDrive(p) \/ (\E d \in Dirs : ListDirectory(p, d)) => Others(p) /\ call'[p].at # "operated"
  BY <1>2 DEF ListDrive, ListDirectory
<1>4. ASSUME NEW i \in Items, NEW kind, GetFullyAsciiAlias(p, i, kind) PROVE Others(p) /\ call'[p].at # "operated"
  BY <1>1, <1>4 DEF GetFullyAsciiAlias, Others, Idle
<1>5. ASSUME NEW f \in Files, GetArchivePathAlias(p, f) PROVE Others(p) /\ call'[p].at # "operated"
  BY <1>1, <1>5 DEF GetArchivePathAlias, Others, Idle
<1>6. ASSUME NEW path \in listed[p], OpenListed(p, path) PROVE Others(p) /\ call'[p].at # "operated"
  BY <1>1, <1>6 DEF OpenListed, Others, Idle
<1>7. ASSUME NEW path \in listed[p], DeleteFileA(p, path) \/ \E d \in Dirs : MoveFileA(p, path, d) PROVE Others(p)
  BY <1>1, <1>7 DEF DeleteFileA, MoveFileA, Operated, Others
<1> QED BY <1>3, <1>4, <1>5, <1>6, <1>7 DEF Start

\* A deletion or a move by a listed name destroys no other file, and a deletion that succeeds by a
\* name of a listing has deleted the file it was made for (ResolveAnsiOperationPath).
THEOREM OperationsHitItemCorrect == Spec => OperationsHitItem
<1> DEFINE Hits ==
      \A p \in Processes : LET c == call'[p] IN
        calls' # calls /\ c # call[p] /\ c.at = "operated" =>
          /\ \A f \in Files \ {c.item} : content[f] # NoData => content'[f] = content[f]
          /\ c.kind = "delete" /\ c.succeeded /\ c.alias.parent[1] \in {"own", "~u"} => content'[c.item] = NoData
<1>1. IInv /\ [Next]_vars => [Hits]_vars
  <2> SUFFICES ASSUME IInv, Next, NEW p \in Processes, calls' # calls, call'[p] # call[p], call'[p].at = "operated"
               PROVE  LET c == call'[p] IN
                        /\ \A f \in Files \ {c.item} : content[f] # NoData => content'[f] = content[f]
                        /\ c.kind = "delete" /\ c.succeeded /\ c.alias.parent[1] \in {"own", "~u"}
                             => content'[c.item] = NoData
    OBVIOUS
  <2>1. PICK q \in Processes : Start(q) /\ calls < MaxCalls /\ calls' = calls + 1 /\ UNCHANGED faults
    BY DEF Next
  <2>2. Bounded
    BY <2>1, AliasAssumption DEF IInv, TypeOK, Bounded
  <2>3. q = p
    BY <2>1, StartFacts DEF Others
  <2>4. PICK path \in listed[p] : DeleteFileA(p, path) \/ \E d \in Dirs : MoveFileA(p, path, d)
    BY <2>1, <2>3, StartFacts
  <2>5. CASE DeleteFileA(p, path)
    BY <2>1, <2>2, <2>5, DeleteFileAInv
  <2>6. CASE \E d \in Dirs : MoveFileA(p, path, d)
    BY <2>1, <2>2, <2>6, MoveFileAInv
  <2> QED BY <2>4, <2>5, <2>6
<1> QED BY <1>1, Inductive, PTL DEF Spec, OperationsHitItem

\* A call that opens a file of a list has the name it was made with, and takes no other step.
LeeyesNamed(p) == call[p].kind = "leeyes" => call[p].at = "opened" /\ call[p].alias \in listed[p]

LEMMA LeeyesNamedInductive == Spec => [](\A p \in Processes : LeeyesNamed(p))
<1>1. Init => \A p \in Processes : LeeyesNamed(p)
  BY DEF Init, LeeyesNamed, Idle
<1>2. IInv /\ (\A p \in Processes : LeeyesNamed(p)) /\ [Next]_vars => (\A p \in Processes : LeeyesNamed(p))'
  <2> SUFFICES ASSUME IInv, \A p \in Processes : LeeyesNamed(p), [Next]_vars, NEW p \in Processes
               PROVE  LeeyesNamed(p)'
    OBVIOUS
  <2> DEFINE Kept(q) == \/ UNCHANGED <<call[q], listed[q]>>
                        \/ call'[q].kind # "leeyes"
                        \/ call'[q].at = "opened" /\ call'[q].alias \in listed'[q]
  <2>1. call \in [Processes -> CallRecords] /\ listed \in [Processes -> SUBSET AnsiPaths]
    BY CallTyped DEF IInv, TypeOK
  <2>2. ASSUME NEW q \in Processes, Start(q) PROVE Kept(p)
    <3>1. ASSUME NEW paths, ListNames(q, paths) PROVE Kept(p)
      BY <2>1, <3>1 DEF ListNames, Idle
    <3>2. ListDrive(q) \/ (\E d \in Dirs : ListDirectory(q, d)) => Kept(p)
      BY <3>1 DEF ListDrive, ListDirectory
    <3>3. ASSUME NEW i \in Items, NEW kind \in {"plugin", "drop"}, GetFullyAsciiAlias(q, i, kind) PROVE Kept(p)
      BY <2>1, <3>3 DEF GetFullyAsciiAlias, Idle
    <3>4. ASSUME NEW f \in Files, GetArchivePathAlias(q, f) PROVE Kept(p)
      BY <2>1, <3>4 DEF GetArchivePathAlias, Idle
    <3>5. ASSUME NEW path \in listed[q], OpenListed(q, path) PROVE Kept(p)
      BY <2>1, <3>5 DEF OpenListed, Idle, maps
    <3>6. ASSUME NEW path \in listed[q], DeleteFileA(q, path) PROVE Kept(p)
      BY <2>1, <3>6 DEF DeleteFileA, Operated, Idle
    <3>7. ASSUME NEW path \in listed[q], NEW d \in Dirs, MoveFileA(q, path, d) PROVE Kept(p)
      BY <2>1, <3>7 DEF MoveFileA, Operated, Idle
    <3> QED BY <2>2, <3>2, <3>3, <3>4, <3>5, <3>6, <3>7 DEF Start
  <2>3. ASSUME NEW q \in Processes, Continue(q) PROVE Kept(p)
    <3>1. ASSUME NEW step, Goto(q, step), call[q].at # "opened" \/ call[q].kind = "plugin", listed' = listed
          PROVE  Kept(p)
      BY <2>1, <3>1 DEF Goto, LeeyesNamed
    <3>2. ASSUME NEW alias, Answer(q, alias), call[q].at # "opened", listed' = listed PROVE Kept(p)
      BY <2>1, <3>2 DEF Answer, LeeyesNamed
    <3>3. GetPrivateDirectoryAlias(q) \/ GetShortPath(q) \/ MakeTempAlias(q) => Kept(p)
      BY <3>1, <3>2 DEF GetPrivateDirectoryAlias, GetShortPath, MakeTempAlias, CacheResult
    <3>4. ASSUME CreateDirectory(q) PROVE Kept(p)
      <4>1. listed' = listed /\ call[q].at = "mkdir"
        BY <3>4 DEF CreateDirectory
      <4>2. CASE Goto(q, "undo")
        BY <3>1, <4>1, <4>2
      <4>3. ASSUME NEW made, call' = [call EXCEPT ![q].at = "reparse", ![q].created = made] PROVE Kept(p)
        BY <2>1, <4>1, <4>3 DEF CallRecords, LeeyesNamed
      <4> QED BY <3>4, <4>2, <4>3 DEF CreateDirectory
    <3>5. SetReparsePoint(q) \/ RemoveDirectory(q) => Kept(p)
      BY <2>1, <3>1, <3>2 DEF SetReparsePoint, RemoveDirectory, CacheResult, LeeyesNamed
    <3>6. OpenAlias(q) => Kept(p)
      BY <2>1 DEF OpenAlias, LeeyesNamed
    <3>7. Retry(q) => Kept(p)
      BY <3>1 DEF Retry
    <3> QED BY <2>3, <3>3, <3>4, <3>5, <3>6, <3>7 DEF Continue
  <2>4. ASSUME NEW q \in Processes, Restart(q) PROVE Kept(p)
    BY <2>1, <2>4 DEF Restart, Idle
  <2>5. ASSUME (\E f \in Files : Replace(f)) \/ Clean \/ UNCHANGED vars PROVE Kept(p)
    BY <2>5 DEF Replace, Clean, vars
  <2>6. Kept(p)
    BY <2>2, <2>3, <2>4, <2>5 DEF Next, Fault
  <2> QED BY <2>6 DEF LeeyesNamed
<1> QED BY <1>1, <1>2, Inductive, PTL DEF Spec

\* Where every directory has a name that CP932 can spell or an 8.3 one, no name stands below a
\* synthetic directory.
LEMMA NoNameBelowSynthetic ==
  ASSUME Dirs \subseteq Plain \union Short, NEW path \in AnsiPaths
  PROVE  path.parent[1] # "~u"
<1>1. \A d \in Dirs : Spelling(d)[1] = "own"
  BY NameFacts DEF Spelling
<1>2. \A i \in Items : Direct(i).parent[1] # "~u" /\ TempAlias(i).parent[1] # "~u"
  BY AliasForms, NameFacts
<1>3. ASSUME NEW d \in Dirs PROVE Path(Drive, Spelling(d)).parent[1] # "~u"
  BY NameFacts, PathFields
<1>4. ASSUME NEW f \in Files
      PROVE  PrivateAlias(f).parent[1] # "~u" /\ ListedAs(f).parent[1] # "~u" /\ ShortName(f).parent[1] # "~u"
  <2>1. PrivateAlias(f).parent = InTemp(f[1])
    BY PathFields DEF PrivateAlias
  <2>2. ListedAs(f).parent = Spelling(f[1]) /\ ShortName(f).parent = Spelling(f[1])
    BY PathFields DEF ListedAs, ShortName
  <2> QED BY <2>1, <2>2, <1>1, FileFacts, NameFacts
<1> QED BY <1>2, <1>3, <1>4 DEF AnsiPaths, DirAliases

\* What ReadMe.md:9-12 and 24-28 promise of a list holds wherever every directory has a name that
\* CP932 can spell or an 8.3 one: a file of a list opens as itself, whatever its own name is.
\* Below the other directories it fails, as the run AsciiAliasFolder shows (CopyFindDataWToA).
THEOREM ListedOpensBelowShort ==
  ASSUME Dirs \subseteq Plain \union Short
  PROVE  Spec => []ListedOpens
<1>1. IInv /\ (\A p \in Processes : LeeyesNamed(p)) => ListedOpens
  <2> SUFFICES ASSUME IInv, NEW p \in Processes, LeeyesNamed(p), call[p].at = "opened", call[p].kind = "leeyes",
                      call[p].alias.parent[1] \in {"own", "~u"}
               PROVE  call[p].read = call[p].wanted
    BY DEF ListedOpens
  <2>1. Reads(p, call[p])
    BY DEF IInv, Holds, CallInv
  <2>2. call[p].alias \in AnsiPaths
    BY DEF IInv, TypeOK, LeeyesNamed
  <2>3. call[p].alias.parent[1] = "own"
    BY <2>2, NoNameBelowSynthetic
  <2> QED BY <2>1, <2>3 DEF Reads
<1> QED BY <1>1, Inductive, LeeyesNamedInductive, PTL

================================================================================
