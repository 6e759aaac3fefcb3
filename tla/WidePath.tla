------------------------------- MODULE WidePath --------------------------------
(***************************************************************************)
(* How dllmain.cpp finds the Unicode path that an ANSI path of Leeyes      *)
(* stands for: CreateFileAHook (the two GetFileAttributes hooks do the     *)
(* same), GetWidePath with its cache, and ResolveAnsiPathCollision.        *)
(*                                                                         *)
(* A path is a sequence of names below the root of a drive, an ANSI path a *)
(* sequence of spellings.  Several names may have one spelling.  A         *)
(* spelling with '?' has lost characters and decodes to a pattern; any     *)
(* other decodes to a name, which need not be the one it was made from.    *)
(* Synthetic aliases, search masks, over-long paths and the half-width     *)
(* katakana, which GetWidePath itself turns into '?', are left out.        *)
(* Reading a directory is one step; the disk may change between steps.     *)
(***************************************************************************)
EXTENDS Naturals, Sequences, FiniteSets

CONSTANTS
  Names, Spellings,
  Questions,   \* the spellings with '?'
  encode,      \* WideCharToMultiByte(932) of each name
  decode,      \* MultiByteToWideChar(932) of each spelling that has no '?'
  matches,     \* the names that each spelling with '?' matches as a wildcard
  Threads,
  Absent,      \* what the cache holds for a path that it does not have
  Depth,       \* bound: names in a path
  MaxEntries   \* bound: entries on the disk

ASSUME PathAssumption ==
  /\ Depth \in Nat \ {0}
  /\ Questions \subseteq Spellings /\ encode \in [Names -> Spellings]
  /\ decode \in [Spellings \ Questions -> Names]
  /\ \A s \in Spellings \ Questions : encode[decode[s]] = s
  /\ matches \in [Questions -> SUBSET Names]
  /\ \A n \in Names : encode[n] \in Questions => n \in matches[encode[n]]

VARIABLES disk,          \* the paths that exist
          gWidePathCache,
          thread,        \* each thread's call: its path, the component it is at, what it has so far
          changed        \* history: whether the disk has changed

vars == <<disk, gWidePathCache, thread, changed>>

Seqs(S) == UNION { [1 .. n -> S] : n \in 1 .. Depth }
Paths == Seqs(Names)
AnsiPaths == Seqs(Spellings)
None == <<>>   \* the root, which no call opens

Steps == {"idle", "lookup", "resolve", "legacy", "store", "open", "opened"}
Idle == [at |-> "idle", path |-> None, component |-> 1, settled_path |-> None, opened |-> None]

TypeOK ==
  /\ disk \subseteq Paths
  /\ gWidePathCache \in [AnsiPaths -> Paths \union {None, Absent}] /\ changed \in BOOLEAN
  /\ thread \in [Threads -> [at : Steps, path : AnsiPaths \union {None}, component : 1 .. Depth + 1,
                             settled_path : Paths \union {None}, opened : Paths \union {None}]]

Parent(path) == SubSeq(path, 1, Len(path) - 1)
Rooted(path, entries) == \A i \in 1 .. Len(path) - 1 : SubSeq(path, 1, i) \in entries

Init ==
  /\ disk \in { entries \in SUBSET Paths : Cardinality(entries) <= MaxEntries
                                          /\ \A path \in entries : Rooted(path, entries) }
  /\ gWidePathCache = [path \in AnsiPaths |-> Absent]
  /\ thread = [t \in Threads |-> Idle] /\ changed = FALSE

HasQuestion(path) == \E i \in 1 .. Len(path) : path[i] \in Questions
Decoded(path) == [i \in 1 .. Len(path) |-> decode[path[i]]]
Encoded(path) == [i \in 1 .. Len(path) |-> encode[path[i]]]
Entries(dir) == { n \in Names : Append(dir, n) \in disk }
Leaf(t) == thread[t].path[thread[t].component]
Last(t) == thread[t].component > Len(thread[t].path)

Go(t, step) == thread' = [thread EXCEPT ![t].at = step]
Restart(t, step) == thread' = [thread EXCEPT ![t].at = step, ![t].component = 1, ![t].settled_path = None]
Component(t, names) ==
  \E name \in names : thread' = [thread EXCEPT ![t].component = @ + 1, ![t].settled_path = Append(@, name)]

--------------------------------------------------------------------------------
\* A damaged path goes to GetWidePath at once, any other only when it does not open.
CreateFileA(t, path) ==
  /\ thread[t].at = "idle"
  /\ thread' = [thread EXCEPT ![t].path = path,
       ![t].at = IF HasQuestion(path) THEN "lookup" ELSE IF Decoded(path) \in disk THEN "opened" ELSE "legacy",
       ![t].opened = IF ~HasQuestion(path) /\ Decoded(path) \in disk THEN Decoded(path) ELSE None]
  /\ UNCHANGED <<disk, gWidePathCache, changed>>

LookupCache(t) ==
  /\ thread[t].at = "lookup"
  /\ LET cached == gWidePathCache[thread[t].path]
     IN IF cached = Absent THEN Go(t, "resolve")
        ELSE thread' = [thread EXCEPT ![t].at = "open", ![t].settled_path = cached]
  /\ UNCHANGED <<disk, gWidePathCache, changed>>

\* The wildcard decides instead of the spelling.
MFound(t) ==
  LET dir == thread[t].settled_path
  IN IF Leaf(t) \notin Questions /\ decode[Leaf(t)] \in Entries(dir) THEN {decode[Leaf(t)]}
     ELSE IF Leaf(t) \in Questions THEN Entries(dir) \intersect matches[Leaf(t)] ELSE Entries(dir)

\* The entries of the directory that a component may stand for: the one it decodes to,
\* else all that are spelled like it.
Found(t) ==
  LET dir == thread[t].settled_path
  IN IF Leaf(t) \notin Questions /\ decode[Leaf(t)] \in Entries(dir) THEN {decode[Leaf(t)]}
     ELSE { n \in Entries(dir) : encode[n] = Leaf(t) }

\* ResolveAnsiPathCollision, one component at a time; it returns FALSE unless one entry is
\* found.  GetWidePath then turns to the wildcards, or is left with the decoded path.
ResolveAnsiPathCollision(t) ==
  /\ thread[t].at = "resolve"
  /\ IF Last(t) THEN Go(t, IF HasQuestion(thread[t].path) THEN "store" ELSE "open")
     ELSE IF Cardinality(Found(t)) = 1 THEN Component(t, Found(t))
     ELSE IF HasQuestion(thread[t].path) THEN Restart(t, "legacy")
     ELSE thread' = [thread EXCEPT ![t].at = "open", ![t].settled_path = Decoded(thread[t].path)]
  /\ UNCHANGED <<disk, gWidePathCache, changed>>

\* The loop of GetWidePath.  A component with '?' becomes the first entry that matches it,
\* in the order of the file system, or nothing at all.
Legacy(t) ==
  /\ thread[t].at = "legacy" /\ ~Last(t)
  /\ LET hits == Entries(thread[t].settled_path) \intersect matches[Leaf(t)]
     IN IF Leaf(t) \notin Questions THEN Component(t, {decode[Leaf(t)]})
        ELSE IF hits # {} THEN Component(t, hits)
        ELSE thread' = [thread EXCEPT ![t].component = @ + 1]
  /\ UNCHANGED <<disk, gWidePathCache, changed>>

\* A path without '?' that still names nothing is resolved, by GetWidePath if it has a byte
\* above 0x7F and by CreateFileAHook if not.
LegacyReturns(t) ==
  /\ thread[t].at = "legacy" /\ Last(t)
  /\ IF HasQuestion(thread[t].path) THEN Go(t, "store")
     ELSE IF thread[t].settled_path \in disk THEN Go(t, "open")
     ELSE Restart(t, "resolve")
  /\ UNCHANGED <<disk, gWidePathCache, changed>>

\* The path is cached as it was given.
MStoreCache(t) ==
  /\ thread[t].at = "store" /\ Go(t, "open")
  /\ gWidePathCache' = [gWidePathCache EXCEPT ![thread[t].path] = thread[t].path]
  /\ UNCHANGED <<disk, changed>>

StoreCache(t) ==
  /\ thread[t].at = "store" /\ Go(t, "open")
  /\ gWidePathCache' = [gWidePathCache EXCEPT ![thread[t].path] = thread[t].settled_path]
  /\ UNCHANGED <<disk, changed>>

Open(t) ==
  /\ thread[t].at = "open"
  /\ thread' = [thread EXCEPT ![t].at = "opened",
                  ![t].opened = IF thread[t].settled_path \in disk THEN thread[t].settled_path ELSE None]
  /\ UNCHANGED <<disk, gWidePathCache, changed>>

Return(t) ==
  /\ thread[t].at = "opened"
  /\ thread' = [thread EXCEPT ![t] = Idle]
  /\ UNCHANGED <<disk, gWidePathCache, changed>>

\* Leeyes, a plugin or another process creates or deletes an entry.
Change ==
  /\ changed' = TRUE
  /\ \/ \E path \in Paths : /\ Cardinality(disk) < MaxEntries /\ Rooted(path, disk)
                            /\ disk' = disk \union {path}
     \/ \E path \in disk : /\ \A other \in disk : Len(other) > 1 => Parent(other) # path
                           /\ disk' = disk \ {path}
  /\ UNCHANGED <<gWidePathCache, thread>>

Next ==
  \/ \E t \in Threads :
       \/ \E path \in AnsiPaths : CreateFileA(t, path)
       \/ LookupCache(t) \/ ResolveAnsiPathCollision(t) \/ Legacy(t) \/ LegacyReturns(t)
       \/ StoreCache(t) \/ Open(t) \/ Return(t)
  \/ Change

Spec == Init /\ [][Next]_vars

--------------------------------------------------------------------------------
(* Properties.                                                                *)

Opened(t) == thread[t].at = "opened"

\* The files that an ANSI path may stand for.
Candidates(path) == { file \in disk : Encoded(file) = path }

\* At each level it is the entry that the spelling decodes to, or the only one so spelled.
SingledOut(file) == \A i \in 1 .. Len(file) :
  \/ encode[file[i]] \notin Questions /\ decode[encode[file[i]]] = file[i]
  \/ { n \in Entries(SubSeq(file, 1, i - 1)) : encode[n] = encode[file[i]] } = {file[i]}

\* ReadMe.md:24-28, an item that exists and can be singled out is completed: as long as the
\* disk stays as it is, whatever other entries its wildcards match, and whatever the cache
\* has been taught by earlier calls, such a file is the one that its path opens.
ReachesFile ==
  ~changed => \A t \in Threads : Opened(t) =>
    \A file \in Candidates(thread[t].path) : SingledOut(file) => thread[t].opened = file

\* A path without '?' opens nothing that is spelled otherwise, even when directories come
\* and go between the components and between the search and the opening.
PlainSpelled ==
  \A t \in Threads : Opened(t) /\ ~HasQuestion(thread[t].path) /\ thread[t].opened # None =>
    Encoded(thread[t].opened) = thread[t].path

\* ReadMe.md:139-140: when different Unicode names become one ANSI spelling and the
\* existing candidates cannot be narrowed to one, completion stops rather than open a wrong
\* file: none of the candidates is opened.
NoGuess ==
  ~changed =>
    \A t \in Threads : Opened(t) /\ HasQuestion(thread[t].path) /\ Cardinality(Candidates(thread[t].path)) > 1 =>
      thread[t].opened = None
================================================================================
