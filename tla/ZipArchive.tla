------------------------------ MODULE ZipArchive -------------------------------
(***************************************************************************)
(* The wrappers that dllmain.cpp puts around the functions of the archive  *)
(* plugins, and its own reading of ZIP files for arc.spi.                  *)
(*                                                                         *)
(* A wrapper is called with the ANSI path of an archive.  It may ask the   *)
(* plugin with that path, which the file hooks then resolve, ask it with   *)
(* the path GetArchiveRetryPath gives, or read the entry itself: the       *)
(* archive is found by GetArchiveWidePath, its central directory is kept   *)
(* for the life of the process, and its data is read anew by each call.    *)
(* Each look into a cache or at the disk is a step of its own, except that *)
(* a path is resolved and remembered in one: WidePath splits that further. *)
(* A plugin answers rightly when it can open the archive, in one step.     *)
(* Different paths share nothing, so that all calls are of one path.       *)
(***************************************************************************)
EXTENDS Naturals, FiniteSets

CONSTANTS
  Archives,
  Lossy,      \* paths with a '?', and
  Spelled,    \* paths with bytes above 0x7F only
  names,      \* the archives that have each path as their spelling
  decode,     \* the archive that each spelled path decodes to
  Positions,  \* of the entries, the same in every archive: 0, 1, ...
  Special,    \* the entries neither stored nor deflated, or encrypted, or too large
  Threads,
  Folder,     \* the directory of a lossy path, which GetWidePath returns in want of a file
  Unset, None,
  Direct,     \* as a retry path: the path of the call itself
  MaxChanges, \* bound: archives created, replaced and deleted
  MaxFaults   \* bound: reads and allocations that fail

Paths == Lossy \union Spelled

ASSUME ArchiveAssumption ==
  /\ IsFiniteSet(Archives) /\ Lossy \intersect Spelled = {}
  /\ names \in [Paths -> SUBSET Archives] /\ decode \in [Spelled -> Archives]
  /\ \A x \in Spelled : decode[x] \in names[x]
  /\ 0 \in Positions /\ Positions \subseteq Nat /\ Special \subseteq Archives \X Positions
  /\ \A i \in Positions : i > 0 => i - 1 \in Positions
  /\ Archives \intersect {Folder, Unset, None, Direct} = {}
  /\ Folder \notin {Unset, None, Direct} /\ Unset \notin {None, Direct} /\ None # Direct
  /\ {MaxChanges, MaxFaults} \subseteq Nat

VARIABLES
  disk,                    \* the version of each archive; 0: there is none
  path,                    \* the path of all calls
  tolerant,                \* whether the plugins can be given a path that is not ASCII
  gWidePathCache,
  gArchiveWidePathCache,
  gArchiveRetryPathCache,
  cache,                   \* of each archive, the version its central directory was read from
  call,                    \* the call each thread is in
  touched,                 \* history: the archives that have changed
  answered,                \* history: the archives that calls were answered from
  changes, faults

caches == <<gWidePathCache, gArchiveWidePathCache, gArchiveRetryPathCache, cache>>
given == <<path, tolerant>>
environment == <<disk, touched, changes>>
vars == <<environment, given, caches, call, answered, faults>>

Versions == 0 .. MaxChanges + 1
Wide == Archives \union {Folder, Unset}
Retry == Archives \union {Folder, Unset, None, Direct}   \* an archive: its synthetic alias
Failure == <<>>
Data == Archives \X Versions \X Positions

Idle == [at |-> "idle", kind |-> "info", entry |-> 0, wide |-> Unset,
         index |-> 0, len |-> 0, retry |-> Unset, answer |-> Failure, hampered |-> FALSE]

Steps == {"idle", "wide", "index", "build", "emplace", "extract", "lookupRetry", "findRetry", "storeRetry",
          "alias", "original", "returned"}

TypeOK ==
  /\ disk \in [Archives -> Versions] /\ touched \subseteq Archives
  /\ path \in Paths /\ tolerant \in BOOLEAN
  /\ gWidePathCache \in [Lossy -> Wide] /\ gArchiveWidePathCache \in [Paths -> Wide]
  /\ gArchiveRetryPathCache \in [Paths -> Retry] /\ cache \in [Archives -> Versions]
  /\ call \in [Threads -> [at : Steps, kind : {"info", "memory", "file"}, entry : Positions,
                 wide : Wide, index : Versions, len : Positions, retry : Retry,
                 answer : Data \union {Failure}, hampered : BOOLEAN]]
  /\ answered \subseteq Archives
  /\ changes \in 0 .. MaxChanges /\ faults \in 0 .. MaxFaults

Init ==
  /\ disk \in [Archives -> {0, 1}] /\ touched = {} /\ changes = 0
  /\ path \in Paths /\ tolerant \in BOOLEAN
  /\ gWidePathCache = [x \in Lossy |-> Unset] /\ gArchiveWidePathCache = [x \in Paths |-> Unset]
  /\ gArchiveRetryPathCache = [x \in Paths |-> Unset] /\ cache = [a \in Archives |-> 0]
  /\ call = [t \in Threads |-> Idle]
  /\ answered = {} /\ faults = 0

--------------------------------------------------------------------------------
(* Resolution of a path.                                                      *)

Exists(wide) == wide = Folder \/ (wide \in Archives /\ disk[wide] # 0)
Candidates(x) == { a \in names[x] : Exists(a) }

\* ResolveAnsiPathCollision: the file it returns, if it does.
Collision(x) ==
  IF x \in Spelled /\ Exists(decode[x]) THEN {decode[x]}
  ELSE IF Cardinality(Candidates(x)) = 1 THEN Candidates(x) ELSE {}

\* A path without '?' is only decoded.
MGetWidePath(x) ==
  IF x \in Lossy
    THEN IF gWidePathCache[x] # Unset THEN {gWidePathCache[x]}
         ELSE IF Candidates(x) # {} THEN Candidates(x) ELSE {Folder}
    ELSE {decode[x]}

\* GetWidePath; of several files that a lossy path matches, the first in the directory.
GetWidePath(x) ==
  IF x \in Lossy
    THEN IF gWidePathCache[x] # Unset THEN {gWidePathCache[x]}
         ELSE IF Candidates(x) # {} THEN Candidates(x) ELSE {Folder}
    ELSE IF Collision(x) # {} THEN Collision(x) ELSE {decode[x]}

Remember(x, wide) ==
  gWidePathCache' = IF x \in Lossy THEN [gWidePathCache EXCEPT ![x] = wide] ELSE gWidePathCache

\* The directory is looked at once more whatever GetWidePath has found.
MGetArchiveWidePath(x, wide) ==
  IF gArchiveWidePathCache[x] # Unset
    THEN wide = gArchiveWidePathCache[x] /\ UNCHANGED <<gWidePathCache, gArchiveWidePathCache>>
    ELSE \E settled \in GetWidePath(x) :
           /\ wide \in IF Candidates(x) # {} THEN Candidates(x) ELSE {settled}
           /\ Remember(x, settled)
           /\ gArchiveWidePathCache' = IF Exists(wide) THEN [gArchiveWidePathCache EXCEPT ![x] = wide]
                                       ELSE gArchiveWidePathCache

\* Only a path that exists is cached.
GetArchiveWidePath(x, wide) ==
  IF gArchiveWidePathCache[x] # Unset
    THEN wide = gArchiveWidePathCache[x] /\ UNCHANGED <<gWidePathCache, gArchiveWidePathCache>>
    ELSE \E settled \in GetWidePath(x) :
           /\ wide \in IF Exists(settled) \/ Collision(x) = {} THEN {settled} ELSE Collision(x)
           /\ Remember(x, settled)
           /\ gArchiveWidePathCache' = IF Exists(wide) THEN [gArchiveWidePathCache EXCEPT ![x] = wide]
                                       ELSE gArchiveWidePathCache

--------------------------------------------------------------------------------
(* Calls.  A wrapper of GetArchiveInfo and GetFileInfo asks the plugin first. *)
(* The one of GetFile reads the entry itself if arc.spi is to put it into     *)
(* memory, and else prefers the retry path.                                   *)

Go(t, step) == call' = [call EXCEPT ![t].at = step]
Answer(t, data) ==
  /\ call' = [call EXCEPT ![t].at = "returned", ![t].answer = data]
  /\ answered' = IF data = Failure THEN answered ELSE answered \union {data[1]}

\* Positions are counted from one.
MCall(t, kind, i) ==
  /\ call[t].at = "idle"
  /\ call' = [call EXCEPT ![t] = [Idle EXCEPT !.kind = kind, !.entry = i, !.len = IF i > 0 THEN i - 1 ELSE i,
       !.at = CASE kind = "info" -> "original" [] kind = "memory" -> "wide" [] kind = "file" -> "lookupRetry"]]
  /\ UNCHANGED <<environment, given, caches, answered, faults>>

\* ArchiveInfoDispatchImpl, ArchiveFileInfoDispatchImpl and ArchiveGetFileDispatchImpl.
Call(t, kind, i) ==
  /\ call[t].at = "idle"
  /\ call' = [call EXCEPT ![t] = [Idle EXCEPT !.kind = kind, !.entry = i, !.len = i,
       !.at = CASE kind = "info" -> "original" [] kind = "memory" -> "wide" [] kind = "file" -> "lookupRetry"]]
  /\ UNCHANGED <<environment, given, caches, answered, faults>>

FindArchive(t) ==
  /\ call[t].at = "wide"
  /\ \E wide \in Wide : GetArchiveWidePath(path, wide)
                        /\ call' = [call EXCEPT ![t].at = "index", ![t].wide = wide]
  /\ UNCHANGED <<environment, given, gArchiveRetryPathCache, cache, answered, faults>>

\* The position before is tried even of the first entry.
MNextAttempt(t, hampered) ==
  LET again == call[t].len = call[t].entry
  IN call' = [call EXCEPT ![t].at = IF again THEN "index" ELSE "lookupRetry",
                ![t].len = IF again THEN @ - 1 ELSE @, ![t].hampered = @ \/ hampered]

\* ExtractZipEntry returned false: the entry before is tried, once.
NextAttempt(t, hampered) ==
  LET again == call[t].len = call[t].entry /\ call[t].entry > 0
  IN call' = [call EXCEPT ![t].at = IF again THEN "index" ELSE "lookupRetry",
                ![t].len = IF again THEN @ - 1 ELSE @, ![t].hampered = @ \/ hampered]

\* ExtractZipEntry looks for the central directory.
LookupIndex(t) ==
  /\ call[t].at = "index"
  /\ LET wide == call[t].wide
     IN call' = [call EXCEPT ![t].index = IF wide \in Archives THEN cache[wide] ELSE 0,
                   ![t].at = IF wide \in Archives /\ cache[wide] # 0 THEN "extract" ELSE "build"]
  /\ UNCHANGED <<environment, given, caches, answered, faults>>

\* A file that cannot be opened or read just now, or memory that is not there.
Hampered(t) == faults < MaxFaults /\ faults' = faults + 1 /\ NextAttempt(t, TRUE)

BuildZipIndex(t) ==
  /\ call[t].at = "build"
  /\ \/ /\ LET wide == call[t].wide
           IN IF wide \in Archives /\ disk[wide] # 0
                THEN call' = [call EXCEPT ![t].at = "emplace", ![t].index = disk[wide]]
                ELSE NextAttempt(t, FALSE)
        /\ UNCHANGED faults
     \/ Hampered(t)
  /\ UNCHANGED <<environment, given, caches, answered>>

\* An index that another thread has stored meanwhile is kept, and used.
EmplaceIndex(t) ==
  /\ call[t].at = "emplace"
  /\ LET wide == call[t].wide
     IN /\ cache' = IF cache[wide] = 0 THEN [cache EXCEPT ![wide] = call[t].index] ELSE cache
        /\ call' = [call EXCEPT ![t].at = "extract", ![t].index = cache'[wide]]
  /\ UNCHANGED <<environment, given, gWidePathCache, gArchiveWidePathCache, gArchiveRetryPathCache, answered, faults>>

\* The rest of ExtractZipEntry: the file is opened again.  In a file that has been replaced
\* the offset may be that of a local header, of any entry, or of none.
ExtractZipEntry(t) ==
  /\ call[t].at = "extract"
  /\ \/ /\ LET wide == call[t].wide
               i == call[t].len
           IN \/ disk[wide] = call[t].index /\ <<wide, i>> \notin Special /\ Answer(t, <<wide, disk[wide], i>>)
              \/ disk[wide] # call[t].index /\ disk[wide] # 0
                 /\ \E j \in Positions : Answer(t, <<wide, disk[wide], j>>)
              \/ (disk[wide] # call[t].index \/ <<wide, i>> \in Special) /\ NextAttempt(t, FALSE) /\ UNCHANGED answered
        /\ UNCHANGED faults
     \/ Hampered(t) /\ UNCHANGED answered
  /\ UNCHANGED <<environment, given, caches>>

--------------------------------------------------------------------------------
(* GetArchiveRetryPath.                                                       *)

WithRetry(t, retry) ==
  call' = [call EXCEPT ![t].retry = retry, ![t].at = IF retry # None THEN "alias"
             ELSE IF call[t].kind = "info" THEN "returned" ELSE "original"]

LookupRetry(t) ==
  /\ call[t].at = "lookupRetry"
  /\ LET retry == gArchiveRetryPathCache[path]
     IN IF retry # Unset THEN WithRetry(t, retry) ELSE Go(t, "findRetry")
  /\ UNCHANGED <<environment, given, caches, answered, faults>>

\* The path itself if it singles the archive out, else an alias, if TEMP allows one.
RetryPath(x, wide) ==
  IF wide = Folder THEN {Folder}
  ELSE IF Collision(x) = {wide} THEN {Direct}
  ELSE IF Exists(wide) THEN {wide, None} ELSE {None}

FindRetry(t) ==
  /\ call[t].at = "findRetry"
  /\ \E wide \in Wide :
       /\ GetArchiveWidePath(path, wide)
       /\ \E retry \in RetryPath(path, wide) :
            call' = [call EXCEPT ![t].at = "storeRetry", ![t].retry = retry]
  /\ UNCHANGED <<environment, given, gArchiveRetryPathCache, cache, answered, faults>>

\* The last of two threads decides, also if it has failed.
StoreRetry(t) ==
  /\ call[t].at = "storeRetry"
  /\ gArchiveRetryPathCache' = [gArchiveRetryPathCache EXCEPT ![path] = call[t].retry]
  /\ WithRetry(t, call[t].retry)
  /\ UNCHANGED <<environment, given, gWidePathCache, gArchiveWidePathCache, cache, answered, faults>>

--------------------------------------------------------------------------------
(* The plugin.                                                                *)

\* The file that CreateFileA of the plugin opens: CreateFileAHook resolves the path.
Opens(spelling, wide) ==
  CASE spelling = Direct /\ ~tolerant -> wide = Unset /\ UNCHANGED gWidePathCache
    [] spelling = Direct /\ tolerant -> wide \in GetWidePath(path) /\ Remember(path, wide)
    [] OTHER -> wide = spelling /\ UNCHANGED gWidePathCache

Plugin(t, spelling, otherwise) ==
  \E wide \in Wide :
    /\ Opens(spelling, wide)
    /\ IF wide \in Archives /\ Exists(wide) THEN Answer(t, <<wide, disk[wide], call[t].entry>>)
       ELSE IF otherwise = "returned" THEN Answer(t, Failure)
       ELSE Go(t, otherwise) /\ UNCHANGED answered

AskAlias(t) ==
  /\ call[t].at = "alias"
  /\ Plugin(t, call[t].retry, IF call[t].kind = "info" THEN "returned" ELSE "original")
  /\ UNCHANGED <<environment, given, gArchiveWidePathCache, gArchiveRetryPathCache, cache, faults>>

AskOriginal(t) ==
  /\ call[t].at = "original"
  /\ Plugin(t, Direct, IF call[t].kind = "info" THEN "lookupRetry" ELSE "returned")
  /\ UNCHANGED <<environment, given, gArchiveWidePathCache, gArchiveRetryPathCache, cache, faults>>

Return(t) ==
  /\ call[t].at = "returned"
  /\ call' = [call EXCEPT ![t] = Idle]
  /\ UNCHANGED <<environment, given, caches, answered, faults>>

\* Another program creates, replaces or deletes an archive.
Change ==
  /\ changes < MaxChanges /\ changes' = changes + 1
  /\ \E a \in Archives :
       /\ touched' = touched \union {a}
       /\ \/ disk' = [disk EXCEPT ![a] = changes + 2]
          \/ disk[a] # 0 /\ disk' = [disk EXCEPT ![a] = 0]
  /\ UNCHANGED <<given, caches, call, answered, faults>>

Next ==
  \/ \E t \in Threads :
       \/ \E i \in Positions : Call(t, "memory", i)
       \/ \E kind \in {"info", "file"} : Call(t, kind, 0)
       \/ FindArchive(t) \/ LookupIndex(t) \/ BuildZipIndex(t) \/ EmplaceIndex(t) \/ ExtractZipEntry(t)
       \/ LookupRetry(t) \/ FindRetry(t) \/ StoreRetry(t) \/ AskAlias(t) \/ AskOriginal(t) \/ Return(t)
  \/ Change

Spec == Init /\ [][Next]_vars

--------------------------------------------------------------------------------
(* Properties.                                                                *)

Returned(t) == call[t].at = "returned"

\* ReadMe.md:44-46, the stored and deflated entries: what a call gets from an archive that
\* nobody changes are the data of the entry it asked for, whichever threads have filled the
\* caches.  Only where that one cannot be extracted, because a read failed or for its kind, may
\* they be those of the entry before, and of no other; they too are returned as a success.
RightEntry ==
  \A t \in Threads : Returned(t) /\ call[t].answer # Failure =>
    LET c == call[t]
        from == c.answer[1]
    IN from \notin touched =>
         \/ c.answer = <<from, disk[from], c.entry>>
         \/ /\ c.kind = "memory" /\ (c.hampered \/ <<from, c.entry>> \in Special)
            /\ c.entry > 0 /\ c.answer = <<from, disk[from], c.entry - 1>>
            /\ <<from, c.entry - 1>> \notin Special

\* An archive that is there all the time and the only one with its spelling can be read:
\* no cache of a failure, no race for one and no failing read takes it away, save from a
\* plugin that cannot be given its path.
StaysReadable ==
  \A t \in Threads : Returned(t) /\ names[path] \intersect touched = {} =>
    \A a \in Archives : Candidates(path) = {a} /\ call[t].answer = Failure =>
      /\ ~tolerant
      /\ call[t].kind = "memory" => call[t].hampered \/ <<a, call[t].entry>> \in Special

\* The list of an archive and its pages come from one archive: calls of a path are not
\* answered from two files of the same spelling unless one of those has changed.
OneArchive ==
  \A a, b \in answered : a # b => {a, b} \intersect touched # {}
================================================================================
