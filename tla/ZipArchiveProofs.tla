--------------------------- MODULE ZipArchiveProofs ----------------------------
(***************************************************************************)
(* Proofs about ZipArchive, for any archives, entries, threads and number  *)
(* of changes and faults: whichever thread fills the caches, calls are     *)
(* answered with the right entry of one archive.                           *)
(***************************************************************************)
EXTENDS ZipArchive, FiniteSetTheorems, TLAPS

\* The archives of the path that have been there all the time.
Lasting == { a \in names[path] : a \notin touched /\ disk[a] # 0 }

\* An archive of the path that may be asked: among those that last it is the one that the
\* path is resolved to, or the only one.
Preferred == IF path \in Lossy THEN gWidePathCache[path] ELSE decode[path]
Fit(s) == s \in Archives => s \in names[path] /\ (s \in Lasting => s = Preferred \/ Lasting = {s})

\* No archive of the path has changed, and one is there.
Sole(a) == names[path] \intersect touched = {} /\ Lasting = {a}

CachesInv ==
  /\ path \in Lossy => Fit(gWidePathCache[path])
  /\ Fit(gArchiveWidePathCache[path]) /\ Fit(gArchiveRetryPathCache[path])
  /\ \A a \in Archives : Sole(a) =>
       /\ path \in Lossy => gWidePathCache[path] \in {Unset, a}
       /\ gArchiveWidePathCache[path] \in {Unset, a}
       /\ gArchiveRetryPathCache[path] \in {Unset, Direct}
  /\ \A a \in Archives \ touched : cache[a] \in {0, disk[a]}

Reading == {"index", "build", "emplace", "extract"}
Asking  == {"lookupRetry", "findRetry", "storeRetry", "alias", "original"}

\* Besides the entry asked for only the one before is tried, and in an archive that has not
\* changed only when the one asked for cannot be read.
Tries(c) ==
  /\ c.at \in {"wide"} \union Reading => c.kind = "memory"
  /\ c.at = "wide" => c.len = c.entry
  /\ c.at \in Reading /\ c.len # c.entry => c.entry > 0 /\ c.len = c.entry - 1
  /\ c.at \in {"emplace", "extract"} => c.wide \in Archives /\ c.index # 0
  /\ c.at \in {"emplace", "extract"} /\ c.wide \notin touched => c.index = disk[c.wide]
  /\ c.at \in Reading /\ c.len # c.entry /\ ~c.hampered /\ c.wide \in Archives \ touched =>
       disk[c.wide] = 0 \/ <<c.wide, c.entry>> \in Special

\* The only archive of the path is missed, and another entry returned, for no other reason
\* than those named.
Unreadable(c, a) == c.hampered \/ <<a, c.entry>> \in Special

\* Position j may be answered with when the entry of call c is asked of archive a.
Allowed(c, a, j) ==
  \/ j = c.entry
  \/ c.kind = "memory" /\ Unreadable(c, a) /\ c.entry > 0 /\ j = c.entry - 1 /\ <<a, j>> \notin Special

Answers(c) ==
  /\ c.at # "returned" => c.answer = Failure
  /\ c.answer # Failure =>
       LET from == c.answer[1]
       IN from \notin touched => \E j \in Positions : Allowed(c, from, j) /\ c.answer = <<from, disk[from], j>>

Reads(c) ==
  \A a \in Archives : Sole(a) =>
    /\ c.at \in Reading => c.wide = a /\ (c.len # c.entry => Unreadable(c, a))
    /\ c.at \in Asking /\ c.kind = "memory" => Unreadable(c, a)
    /\ c.at \in {"storeRetry", "alias"} => c.retry = Direct
    /\ c.at = "returned" /\ c.answer = Failure => ~tolerant /\ (c.kind = "memory" => Unreadable(c, a))

CallInv(c) == Fit(c.wide) /\ Fit(c.retry) /\ Tries(c) /\ Answers(c) /\ Reads(c)

AnsweredInv == \A a \in answered : Fit(a) /\ (a \notin touched => disk[a] # 0)

IInv == TypeOK /\ CachesInv /\ AnsweredInv /\ \A t \in Threads : CallInv(call[t])

CallRecords ==
  [at : Steps, kind : {"info", "memory", "file"}, entry : Positions, wide : Wide, index : Versions, len : Positions,
   retry : Retry, answer : Data \union {Failure}, hampered : BOOLEAN]

CacheTypes ==
  /\ gWidePathCache \in [Lossy -> Wide] /\ gArchiveWidePathCache \in [Paths -> Wide]
  /\ gArchiveRetryPathCache \in [Paths -> Retry] /\ cache \in [Archives -> Versions]

Alone(t) == call' \in [Threads -> CallRecords] /\ \A u \in Threads \ {t} : call'[u] = call[u]

\* What a call may change beside its own record: a path is resolved once.
Resolves ==
  /\ UNCHANGED <<environment, given>> /\ CacheTypes'
  /\ path \in Lossy => gWidePathCache[path] = Unset \/ gWidePathCache'[path] = gWidePathCache[path]

LEMMA Constant ==
  /\ \A a \in Archives : a # Folder /\ a # Unset /\ a # None /\ a # Direct
  /\ Archives \subseteq Wide /\ Wide \subseteq Retry /\ {Folder, Unset} \subseteq Wide /\ {None, Direct} \subseteq Retry
  /\ None \notin Wide /\ Direct \notin Wide /\ Unset # Folder /\ None # Direct
BY ArchiveAssumption DEF Wide, Retry

LEMMA Known ==
  ASSUME TypeOK
  PROVE  /\ path \in Paths /\ names[path] \subseteq Archives /\ (path \in Lossy <=> path \notin Spelled)
         /\ path \in Spelled => decode[path] \in names[path]
         /\ gWidePathCache \in [Lossy -> Wide] /\ gArchiveWidePathCache[path] \in Wide
         /\ gArchiveRetryPathCache[path] \in Retry /\ CacheTypes
BY ArchiveAssumption DEF TypeOK, Paths, CacheTypes

--------------------------------------------------------------------------------
(* Resolution.                                                                *)

LEMMA CandidateFacts ==
  ASSUME TypeOK
  PROVE  /\ Candidates(path) \subseteq names[path] /\ Lasting \subseteq Candidates(path)
         /\ IsFiniteSet(Candidates(path)) /\ \A a \in Candidates(path) : disk[a] # 0 /\ a \in Archives
         /\ \A a \in Archives : Sole(a) => Candidates(path) = {a}
<1>1. names[path] \subseteq Archives
  BY Known
<1>2. \A a \in Archives : Exists(a) <=> disk[a] # 0
  BY Constant DEF Exists
<1>3. Candidates(path) \subseteq names[path] /\ Lasting \subseteq Candidates(path)
      /\ \A a \in Candidates(path) : disk[a] # 0 /\ a \in Archives
  BY <1>1, <1>2 DEF Candidates, Lasting
<1>4. IsFiniteSet(Candidates(path))
  BY <1>1, <1>3, FS_Subset, ArchiveAssumption
<1>5. ASSUME NEW a \in Archives, Sole(a) PROVE Candidates(path) = {a}
  BY <1>1, <1>2, <1>3, <1>5 DEF Sole, Candidates, Lasting
<1> QED BY <1>3, <1>4, <1>5

\* A collision is resolved to the archive the path decodes to, or the only one there is.
LEMMA CollisionFacts ==
  ASSUME TypeOK
  PROVE  /\ \A w \in Collision(path) : w \in names[path] /\ Exists(w) /\ Fit(w)
         /\ \A a \in Archives : Sole(a) => Collision(path) = {a}
<1>1. CASE path \in Spelled /\ Exists(decode[path])
  <2>1. Collision(path) = {decode[path]} /\ decode[path] \in names[path] /\ decode[path] \in Archives /\ path \notin Lossy
    BY <1>1, Known DEF Collision
  <2>2. Fit(decode[path])
    BY <2>1 DEF Fit, Preferred
  <2>3. decode[path] \in Candidates(path)
    BY <1>1, <2>1 DEF Candidates
  <2>4. ASSUME NEW a \in Archives, Sole(a) PROVE Collision(path) = {a}
    BY <2>1, <2>3, <2>4, CandidateFacts
  <2> QED BY <1>1, <2>1, <2>2, <2>4
<1>2. CASE ~(path \in Spelled /\ Exists(decode[path]))
  <2>1. Cardinality(Candidates(path)) = 1 <=> \E x : Candidates(path) = {x}
    BY CandidateFacts, FS_Singleton
  <2>2. CASE Cardinality(Candidates(path)) = 1
    <3>1. PICK x : Candidates(path) = {x}
      BY <2>1, <2>2
    <3>2. Collision(path) = {x} /\ x \in names[path] /\ Exists(x)
      BY <1>2, <2>2, <3>1, CandidateFacts DEF Collision, Candidates
    <3>3. Fit(x)
      BY <3>1, CandidateFacts DEF Fit
    <3> QED BY <3>1, <3>2, <3>3, CandidateFacts
  <2>3. CASE Cardinality(Candidates(path)) # 1
    <3>1. Collision(path) = {}
      BY <1>2, <2>3 DEF Collision
    <3>2. \A a \in Archives : ~Sole(a)
      BY <2>1, <2>3, CandidateFacts
    <3> QED BY <3>1, <3>2
  <2> QED BY <2>2, <2>3
<1> QED BY <1>1, <1>2

\* What leaves the archives that are not touched as they are, and makes none the only one.
Harmless ==
  /\ \A b \in Archives : b \notin touched' => b \notin touched /\ disk'[b] = disk[b]
  /\ \A s : Fit(s) => Fit(s)'
  /\ \A a \in Archives : Sole(a)' => Sole(a)
  /\ tolerant' = tolerant

LEMMA ResolvesHarmless == ASSUME TypeOK, Resolves PROVE Harmless /\ \A a : Sole(a)' <=> Sole(a)
<1>1. Lasting' = Lasting /\ path' = path /\ disk' = disk /\ touched' = touched /\ tolerant' = tolerant
  BY DEF Resolves, environment, given, Lasting
<1>2. ASSUME NEW s, Fit(s) PROVE Fit(s)'
  <2>1. s \in Lasting /\ s \in Archives /\ s = Preferred => s = Preferred'
    BY <1>1, Constant DEF Resolves, Preferred
  <2> QED BY <1>1, <1>2, <2>1 DEF Fit
<1>3. \A a : Sole(a)' <=> Sole(a)
  BY <1>1 DEF Sole
<1> QED BY <1>1, <1>2, <1>3 DEF Harmless

\* What a path is resolved to may be asked, and is remembered if it is lossy.
LEMMA SettledFacts ==
  ASSUME TypeOK, CachesInv, UNCHANGED <<environment, given>>, NEW w \in GetWidePath(path), Remember(path, w)
  PROVE  /\ gWidePathCache' \in [Lossy -> Wide] /\ w \in Wide /\ Fit(w)'
         /\ path \in Lossy => gWidePathCache'[path] = w /\ (gWidePathCache[path] = Unset \/ w = gWidePathCache[path])
         /\ \A a \in Archives : Sole(a) => w = a
<1>1. path' = path /\ path \in Paths /\ names[path] \subseteq Archives /\ gWidePathCache \in [Lossy -> Wide]
  BY Known DEF given
<1>2. CASE path \in Lossy
  <2> DEFINE Kept == gWidePathCache[path] # Unset /\ w = gWidePathCache[path]
             Found == gWidePathCache[path] = Unset /\ w \in Candidates(path)
             Parent == gWidePathCache[path] = Unset /\ Candidates(path) = {} /\ w = Folder
  <2>1. gWidePathCache' = [gWidePathCache EXCEPT ![path] = w]
    BY <1>2 DEF Remember
  <2>2. Kept \/ Found \/ Parent
    <3>1. GetWidePath(path) = IF gWidePathCache[path] # Unset THEN {gWidePathCache[path]}
                              ELSE IF Candidates(path) # {} THEN Candidates(path) ELSE {Folder}
      BY <1>2 DEF GetWidePath
    <3> QED BY <3>1
  <2>3. w \in Wide
    BY <1>1, <1>2, <2>2, Constant, CandidateFacts
  <2>4. gWidePathCache' \in [Lossy -> Wide] /\ gWidePathCache'[path] = w
    BY <1>1, <1>2, <2>1, <2>3
  <2>5. w \in Archives => w \in names[path]
    <3>1. CASE Kept
      BY <1>2, <3>1 DEF CachesInv, Fit
    <3>2. CASE Found \/ Parent
      BY <3>2, CandidateFacts, Constant
    <3> QED BY <2>2, <3>1, <3>2
  <2>6. Fit(w)'
    BY <1>1, <1>2, <2>4, <2>5 DEF Fit, Preferred
  <2>7. ASSUME NEW a \in Archives, Sole(a) PROVE w = a
    <3>1. Candidates(path) = {a} /\ gWidePathCache[path] \in {Unset, a}
      BY <1>2, <2>7, CandidateFacts DEF CachesInv
    <3> QED BY <2>2, <3>1
  <2>8. gWidePathCache[path] = Unset \/ w = gWidePathCache[path]
    BY <2>2
  <2> QED BY <1>2, <2>3, <2>4, <2>6, <2>7, <2>8
<1>3. CASE path \notin Lossy
  <2>1. GetWidePath(path) = IF Collision(path) # {} THEN Collision(path) ELSE {decode[path]}
    BY <1>3 DEF GetWidePath
  <2>2. gWidePathCache' = gWidePathCache /\ (w \in Collision(path) \/ w = decode[path]) /\ path \in Spelled
    BY <1>3, <2>1, Known DEF Remember
  <2>3. w \in names[path] /\ Fit(w)
    BY <1>3, <2>2, Known, CollisionFacts DEF Fit, Preferred
  <2>4. Fit(w)'
    <3>1. Lasting' = Lasting
      BY DEF environment, given, Lasting
    <3> QED BY <1>1, <1>3, <2>3, <3>1 DEF Fit, Preferred
  <2>5. \A a \in Archives : Sole(a) => w = a
    BY <2>1, CollisionFacts
  <2> QED BY <1>1, <1>3, <2>2, <2>3, <2>4, <2>5, Constant
<1> QED BY <1>2, <1>3

LEMMA WideFacts ==
  ASSUME TypeOK, CachesInv, UNCHANGED <<environment, given, gArchiveRetryPathCache, cache>>,
         NEW w, GetArchiveWidePath(path, w)
  PROVE  Resolves /\ CachesInv' /\ w \in Wide /\ Fit(w)' /\ \A a \in Archives : Sole(a) => w = a
<1>1. path' = path /\ path \in Paths /\ names[path] \subseteq Archives /\ CacheTypes
  BY Known DEF given
<1>2. disk' = disk /\ touched' = touched
  BY DEF environment
<1>3. CASE gArchiveWidePathCache[path] # Unset
  <2>1. w = gArchiveWidePathCache[path] /\ UNCHANGED <<gWidePathCache, gArchiveWidePathCache>>
    BY <1>3 DEF GetArchiveWidePath
  <2>2. Resolves
    BY <1>1, <2>1 DEF Resolves, CacheTypes
  <2>3. CachesInv' /\ Fit(w)'
    <3>1. Harmless
      BY <2>2, ResolvesHarmless
    <3> QED BY <1>1, <1>2, <2>1, <3>1 DEF CachesInv, Harmless
  <2>4. w \in Wide /\ \A a \in Archives : Sole(a) => w = a
    BY <1>1, <1>3, <2>1 DEF CachesInv, CacheTypes
  <2> QED BY <2>2, <2>3, <2>4
<1>4. CASE gArchiveWidePathCache[path] = Unset
  <2>1. PICK settled \in GetWidePath(path) :
          /\ w \in IF Exists(settled) \/ Collision(path) = {} THEN {settled} ELSE Collision(path)
          /\ Remember(path, settled)
          /\ gArchiveWidePathCache' = IF Exists(w) THEN [gArchiveWidePathCache EXCEPT ![path] = w]
                                      ELSE gArchiveWidePathCache
    BY <1>4 DEF GetArchiveWidePath
  <2>2. w = settled \/ w \in Collision(path)
    BY <2>1
  <2>3. /\ gWidePathCache' \in [Lossy -> Wide] /\ settled \in Wide /\ Fit(settled)'
        /\ path \in Lossy => gWidePathCache'[path] = settled
                             /\ (gWidePathCache[path] = Unset \/ settled = gWidePathCache[path])
        /\ \A a \in Archives : Sole(a) => settled = a
    BY <2>1, SettledFacts
  <2>4. w \in Wide
    BY <1>1, <2>2, <2>3, CollisionFacts, Constant
  <2>5. /\ gArchiveWidePathCache' \in [Paths -> Wide]
        /\ gArchiveWidePathCache'[path] = w \/ gArchiveWidePathCache'[path] = gArchiveWidePathCache[path]
    BY <1>1, <2>1, <2>4 DEF CacheTypes
  <2>6. Resolves
    BY <1>1, <2>3, <2>5 DEF Resolves, CacheTypes
  <2>7. Harmless
    BY <2>6, ResolvesHarmless
  <2>8. Fit(w)'
    <3>1. w \in Collision(path) => Fit(w)
      BY CollisionFacts
    <3> QED BY <2>2, <2>3, <2>7, <3>1 DEF Harmless
  <2>9. \A a \in Archives : Sole(a) => w = a
    BY <2>2, <2>3, CollisionFacts
  <2>10. CachesInv'
    <3>1. /\ path' \in Lossy => Fit(gWidePathCache[path])'
          /\ Fit(gArchiveWidePathCache[path])' /\ Fit(gArchiveRetryPathCache[path])'
      BY <1>1, <2>3, <2>5, <2>7, <2>8 DEF CachesInv, Harmless
    <3>2. ASSUME NEW a \in Archives, Sole(a)'
          PROVE  /\ path' \in Lossy => gWidePathCache'[path'] \in {Unset, a}
                 /\ gArchiveWidePathCache'[path'] \in {Unset, a}
                 /\ gArchiveRetryPathCache'[path'] \in {Unset, Direct}
      <4>1. Sole(a)
        BY <2>7, <3>2 DEF Harmless
      <4> QED BY <1>1, <2>3, <2>5, <2>9, <4>1 DEF CachesInv
    <3>3. \A a \in Archives \ touched' : cache'[a] \in {0, disk'[a]}
      BY <1>2 DEF CachesInv
    <3> QED BY <3>1, <3>2, <3>3 DEF CachesInv
  <2> QED BY <2>4, <2>6, <2>8, <2>9, <2>10
<1> QED BY <1>3, <1>4

LEMMA CachesSame ==
  ASSUME TypeOK, CachesInv, UNCHANGED <<environment, given, caches>>
  PROVE  Resolves /\ CachesInv'
<1>1. Resolves
  BY Known DEF Resolves, CacheTypes, caches
<1>2. Harmless
  BY <1>1, ResolvesHarmless
<1> QED BY <1>1, <1>2 DEF CachesInv, Harmless, environment, given, caches

--------------------------------------------------------------------------------
(* Calls.                                                                     *)

LEMMA TupleFacts ==
  \A d \in Data : d # Failure /\ d[1] \in Archives
BY DEF Data, Failure

LEMMA CallFacts ==
  ASSUME TypeOK, NEW t \in Threads
  PROVE  call[t] \in CallRecords /\ call \in [Threads -> CallRecords]
BY DEF TypeOK, CallRecords

\* A call that takes no step is not disturbed.
LEMMA CallKept ==
  ASSUME TypeOK, Harmless, NEW u \in Threads, call'[u] = call[u], CallInv(call[u])
  PROVE  CallInv(call[u])'
<1>1. call[u] \in CallRecords
  BY CallFacts
<1>2. Fit(call[u].wide)' /\ Fit(call[u].retry)'
  BY DEF Harmless, CallInv
<1>3. Tries(call[u])'
  <2>1. Tries(call[u])
    BY DEF CallInv
  <2>2. \A b \in Archives : b \notin touched' => b \notin touched /\ disk'[b] = disk[b]
    BY DEF Harmless
  <2> QED BY <2>1, <2>2 DEF Tries
<1>4. Answers(call[u])'
  <2>1. Answers(call[u]) /\ \A b \in Archives : b \notin touched' => b \notin touched /\ disk'[b] = disk[b]
    BY DEF CallInv, Harmless
  <2>2. call[u].answer # Failure => call[u].answer[1] \in Archives
    BY <1>1, TupleFacts DEF CallRecords
  <2> QED BY <2>1, <2>2 DEF Answers
<1>5. Reads(call[u])'
  <2>1. Reads(call[u]) /\ tolerant' = tolerant /\ \A a \in Archives : Sole(a)' => Sole(a)
    BY DEF CallInv, Harmless
  <2> QED BY <2>1 DEF Reads, Unreadable
<1> QED BY <1>2, <1>3, <1>4, <1>5 DEF CallInv

\* A step of one call.
LEMMA Assemble ==
  ASSUME IInv, NEW t \in Threads, Alone(t), Resolves, CachesInv', CallInv(call[t])', AnsweredInv',
         answered' \subseteq Archives, faults' \in 0 .. MaxFaults
  PROVE  IInv'
<1>1. TypeOK
  BY DEF IInv
<1>2. Harmless
  BY <1>1, ResolvesHarmless
<1>3. TypeOK'
  BY <1>1 DEF TypeOK, Resolves, CacheTypes, Alone, CallRecords, environment, given
<1>4. ASSUME NEW u \in Threads PROVE CallInv(call[u])'
  <2>1. CASE u # t
    BY <1>1, <1>2, <2>1, CallKept DEF IInv, Alone
  <2> QED BY <2>1
<1> QED BY <1>3, <1>4 DEF IInv

LEMMA AnsweredSame ==
  ASSUME IInv, Resolves, UNCHANGED answered
  PROVE  AnsweredInv' /\ answered' \subseteq Archives
<1>1. TypeOK /\ AnsweredInv
  BY DEF IInv
<1>2. Harmless
  BY <1>1, ResolvesHarmless
<1> QED BY <1>1, <1>2 DEF AnsweredInv, Harmless, Resolves, environment, TypeOK

\* What a step that changes nothing but its own call has to show.
LEMMA OwnStep ==
  ASSUME IInv, NEW t \in Threads, Alone(t), UNCHANGED <<environment, given, caches, answered>>,
         faults' \in 0 .. MaxFaults, CallInv(call[t])'
  PROVE  IInv'
<1>1. TypeOK /\ CachesInv
  BY DEF IInv
<1>2. Resolves /\ CachesInv'
  BY <1>1, CachesSame
<1> QED BY <1>2, AnsweredSame, Assemble

LEMMA FaultsSame == ASSUME TypeOK, UNCHANGED faults PROVE faults' \in 0 .. MaxFaults
BY DEF TypeOK

LEMMA CallInvStep ==
  ASSUME IInv, NEW t \in Threads, NEW kind \in {"info", "memory", "file"}, NEW i \in Positions,
         kind = "memory" \/ i = 0, Call(t, kind, i)
  PROVE  IInv'
<1> DEFINE at == CASE kind = "info" -> "original" [] kind = "memory" -> "wide" [] kind = "file" -> "lookupRetry"
           c == [Idle EXCEPT !.kind = kind, !.entry = i, !.len = i, !.at = at]
<1>1. call' = [call EXCEPT ![t] = c] /\ UNCHANGED <<environment, given, caches, answered, faults>> /\ TypeOK
  BY DEF Call, IInv
<1>2. at \in Steps /\ at \in {"original", "wide", "lookupRetry"} /\ (at # "wide" => kind # "memory")
  BY DEF Steps
<1>k. at = "wide" => kind = "memory"
  OBVIOUS
<1> HIDE DEF at
<1>3. /\ c.at = at /\ c.kind = kind /\ c.entry = i /\ c.len = i /\ c.wide = Unset /\ c.retry = Unset /\ c.answer = Failure
      /\ c.hampered = FALSE
  BY DEF Idle
<1>4. c \in CallRecords
  <2>1. Unset \in Wide /\ Unset \in Retry /\ 0 \in Versions /\ 0 \in Positions
    BY Constant, ArchiveAssumption DEF Versions
  <2> QED BY <1>2, <2>1 DEF Idle, CallRecords
<1> HIDE DEF c
<1>5. Alone(t) /\ call'[t] = c
  BY <1>1, <1>4, CallFacts DEF Alone
<1>6. CallInv(call[t])'
  <2>1. Fit(call[t].wide)' /\ Fit(call[t].retry)'
    BY <1>3, <1>5, Constant DEF Fit
  <2>2. Tries(call[t])' /\ Answers(call[t])' /\ Reads(call[t])'
    BY <1>2, <1>k, <1>3, <1>5 DEF Tries, Answers, Reads, Reading, Asking
  <2> QED BY <2>1, <2>2 DEF CallInv
<1> QED BY <1>1, <1>5, <1>6, OwnStep, FaultsSame

LEMMA FindArchiveInv == ASSUME IInv, NEW t \in Threads, FindArchive(t) PROVE IInv'
<1>1. TypeOK /\ CachesInv /\ CallInv(call[t]) /\ call[t].at = "wide"
      /\ UNCHANGED <<environment, given, gArchiveRetryPathCache, cache, answered, faults>>
  BY DEF IInv, FindArchive
<1>2. PICK w \in Wide : GetArchiveWidePath(path, w) /\ call' = [call EXCEPT ![t].at = "index", ![t].wide = w]
  BY DEF FindArchive
<1>3. Resolves /\ CachesInv' /\ Fit(w)' /\ \A a \in Archives : Sole(a) => w = a
  BY <1>1, <1>2, WideFacts
<1>4. "index" \in Steps /\ call[t] \in CallRecords /\ call \in [Threads -> CallRecords]
  BY <1>1, CallFacts DEF Steps
<1>5. Alone(t)
  BY <1>2, <1>4 DEF Alone, CallRecords
<1>6. /\ call'[t].at = "index" /\ call'[t].wide = w /\ call'[t].len = call[t].len /\ call'[t].entry = call[t].entry
      /\ call'[t].retry = call[t].retry /\ call'[t].answer = call[t].answer /\ call'[t].hampered = call[t].hampered
      /\ call'[t].kind = call[t].kind
  BY <1>2, <1>4 DEF CallRecords
<1>7. Harmless /\ \A a : Sole(a)' <=> Sole(a)
  BY <1>1, <1>3, ResolvesHarmless
<1>8. CallInv(call[t])'
  <2>1. Fit(call[t].wide)' /\ Fit(call[t].retry)'
    BY <1>1, <1>3, <1>6, <1>7 DEF Harmless, CallInv
  <2>2. call[t].len = call[t].entry /\ call[t].answer = Failure /\ call[t].kind = "memory"
    BY <1>1 DEF CallInv, Tries, Answers
  <2>3. Tries(call[t])' /\ Answers(call[t])' /\ Reads(call[t])'
    BY <1>3, <1>6, <1>7, <2>2 DEF Tries, Answers, Reads, Reading, Asking
  <2> QED BY <2>1, <2>3 DEF CallInv
<1> QED BY <1>1, <1>3, <1>5, <1>8, AnsweredSame, Assemble, FaultsSame

LEMMA LookupIndexInv == ASSUME IInv, NEW t \in Threads, LookupIndex(t) PROVE IInv'
<1> DEFINE w == call[t].wide
           index == IF w \in Archives THEN cache[w] ELSE 0
           at == IF w \in Archives /\ cache[w] # 0 THEN "extract" ELSE "build"
<1>1. TypeOK /\ CachesInv /\ CallInv(call[t]) /\ call[t].at = "index"
      /\ UNCHANGED <<environment, given, caches, answered, faults>>
      /\ call' = [call EXCEPT ![t].index = index, ![t].at = at]
  BY DEF IInv, LookupIndex
<1>2. call[t] \in CallRecords /\ call \in [Threads -> CallRecords]
  BY <1>1, CallFacts
<1>3. at \in Steps /\ index \in Versions /\ at \in {"extract", "build"}
      /\ (at = "extract" => w \in Archives /\ index = cache[w] /\ index # 0)
  <2>1. 0 \in Versions /\ cache \in [Archives -> Versions]
    BY <1>1, Known, ArchiveAssumption DEF Versions, CacheTypes
  <2>2. at \in {"extract", "build"} /\ (at = "extract" => w \in Archives /\ index = cache[w] /\ index # 0)
    OBVIOUS
  <2> QED BY <2>1, <2>2 DEF Steps
<1> HIDE DEF index, at
<1>4. Alone(t)
  BY <1>1, <1>2, <1>3 DEF Alone, CallRecords
<1>5. /\ call'[t].at = at /\ call'[t].index = index /\ call'[t].wide = w /\ call'[t].len = call[t].len
      /\ call'[t].entry = call[t].entry /\ call'[t].retry = call[t].retry /\ call'[t].answer = call[t].answer
      /\ call'[t].hampered = call[t].hampered /\ call'[t].kind = call[t].kind
  BY <1>1, <1>2 DEF CallRecords
<1>6. at = "extract" /\ w \notin touched => index = disk[w]
  BY <1>1, <1>3 DEF CachesInv
<1>7. Harmless /\ disk' = disk /\ touched' = touched /\ \A a : Sole(a)' <=> Sole(a)
  BY <1>1, CachesSame, ResolvesHarmless DEF environment
<1>8. CallInv(call[t])'
  <2>1. Fit(call[t].wide)' /\ Fit(call[t].retry)'
    BY <1>1, <1>5, <1>7 DEF Harmless, CallInv
  <2>2. Tries(call[t])'
    <3>1. Tries(call[t]) /\ call[t].at = "index"
      BY <1>1 DEF CallInv
    <3> QED BY <1>3, <1>5, <1>6, <1>7, <3>1 DEF Tries, Reading
  <2>3. Answers(call[t])' /\ Reads(call[t])'
    BY <1>1, <1>3, <1>5, <1>7 DEF CallInv, Answers, Reads, Reading, Asking, Unreadable
  <2> QED BY <2>1, <2>2, <2>3 DEF CallInv
<1> QED BY <1>1, <1>4, <1>8, OwnStep, FaultsSame

\* The next attempt after one that failed, for want of memory or of a file, or because the
\* entry cannot be read.
LEMMA NextAttemptFacts ==
  ASSUME IInv, NEW t \in Threads, call[t].at \in {"build", "extract"}, NEW h \in BOOLEAN, NextAttempt(t, h),
         UNCHANGED <<environment, given, caches>>,
         h \/ call[t].wide \notin Archives \ touched \/ call[t].len # call[t].entry
           \/ disk[call[t].wide] = 0 \/ <<call[t].wide, call[t].entry>> \in Special
  PROVE  Alone(t) /\ CallInv(call[t])'
<1> DEFINE again == call[t].len = call[t].entry /\ call[t].entry > 0
           at == IF again THEN "index" ELSE "lookupRetry"
           len == IF again THEN call[t].len - 1 ELSE call[t].len
           hampered == call[t].hampered \/ h
           w == call[t].wide
           i == call[t].entry
<1>1. /\ TypeOK /\ CachesInv /\ CallInv(call[t])
      /\ call' = [call EXCEPT ![t].at = at, ![t].len = len, ![t].hampered = hampered]
  BY DEF IInv, NextAttempt
<1>2. call[t] \in CallRecords /\ call \in [Threads -> CallRecords]
  BY <1>1, CallFacts
<1>3. call[t].len \in Positions /\ i \in Positions /\ call[t].len \in Nat /\ i \in Nat /\ w \in Wide
      /\ call[t].hampered \in BOOLEAN
  BY <1>2, ArchiveAssumption DEF CallRecords
<1>4. at \in Steps /\ at \in {"index", "lookupRetry"} /\ len \in Positions /\ hampered \in BOOLEAN
  <2>1. len \in Positions
    BY <1>3, ArchiveAssumption
  <2> QED BY <1>3, <2>1 DEF Steps
<1>5. at = "index" => i > 0 /\ len = i - 1
  BY <1>3
<1> HIDE DEF at, len, hampered
<1>6. Alone(t)
  BY <1>1, <1>2, <1>4 DEF Alone, CallRecords
<1>7. /\ call'[t].at = at /\ call'[t].len = len /\ call'[t].hampered = hampered /\ call'[t].wide = w
      /\ call'[t].entry = i /\ call'[t].retry = call[t].retry /\ call'[t].answer = call[t].answer
      /\ call'[t].kind = call[t].kind
  BY <1>1, <1>2 DEF CallRecords
<1>8. Harmless /\ disk' = disk /\ touched' = touched /\ \A a : Sole(a)' <=> Sole(a)
  BY <1>1, CachesSame, ResolvesHarmless DEF environment
<1>9. hampered \/ w \notin Archives \ touched \/ disk[w] = 0 \/ <<w, i>> \in Special
  <2>1. Tries(call[t])
    BY <1>1 DEF CallInv
  <2> QED BY <1>3, <2>1 DEF Tries, Reading, hampered
<1>10. CallInv(call[t])'
  <2>1. Fit(call[t].wide)' /\ Fit(call[t].retry)'
    BY <1>1, <1>7, <1>8 DEF Harmless, CallInv
  <2>2. Tries(call[t])'
    <3>1. call[t].kind = "memory"
      BY <1>1 DEF CallInv, Tries, Reading
    <3> QED BY <1>4, <1>5, <1>7, <1>8, <1>9, <3>1 DEF Tries, Reading
  <2>3. Answers(call[t])'
    <3>1. call[t].answer = Failure
      BY <1>1 DEF CallInv, Answers
    <3> QED BY <1>4, <1>7, <3>1 DEF Answers
  <2>4. Reads(call[t])'
    <3>1. ASSUME NEW a \in Archives, Sole(a) PROVE w = a /\ (hampered \/ <<a, i>> \in Special)
      <4>1. w = a
        BY <1>1, <3>1 DEF CallInv, Reads, Reading
      <4>2. a \notin touched /\ disk[a] # 0
        BY <3>1 DEF Sole, Lasting
      <4> QED BY <1>9, <4>1, <4>2
    <3> QED BY <1>4, <1>7, <1>8, <3>1 DEF Reads, Reading, Asking, Unreadable
  <2> QED BY <2>1, <2>2, <2>3, <2>4 DEF CallInv
<1> QED BY <1>6, <1>10

LEMMA HamperedInv ==
  ASSUME IInv, NEW t \in Threads, call[t].at \in {"build", "extract"}, Hampered(t),
         UNCHANGED <<environment, given, caches, answered>>
  PROVE  IInv'
<1>1. NextAttempt(t, TRUE) /\ faults < MaxFaults /\ faults' = faults + 1 /\ faults \in 0 .. MaxFaults
  BY DEF IInv, TypeOK, Hampered
<1>2. Alone(t) /\ CallInv(call[t])'
  BY <1>1, NextAttemptFacts
<1>3. MaxFaults \in Nat
  BY ArchiveAssumption
<1>4. faults' \in 0 .. MaxFaults
  BY <1>1, <1>3
<1> QED BY <1>2, <1>4, OwnStep

LEMMA BuildZipIndexInv == ASSUME IInv, NEW t \in Threads, BuildZipIndex(t) PROVE IInv'
<1> DEFINE w == call[t].wide
<1>1. /\ TypeOK /\ CachesInv /\ CallInv(call[t]) /\ call[t].at = "build"
      /\ UNCHANGED <<environment, given, caches, answered>>
  BY DEF IInv, BuildZipIndex
<1>2. CASE Hampered(t)
  BY <1>1, <1>2, HamperedInv
<1>3. CASE ~(w \in Archives /\ disk[w] # 0) /\ NextAttempt(t, FALSE) /\ UNCHANGED faults
  BY <1>1, <1>3, NextAttemptFacts, OwnStep, FaultsSame
<1>4. CASE w \in Archives /\ disk[w] # 0 /\ call' = [call EXCEPT ![t].at = "emplace", ![t].index = disk[w]]
           /\ UNCHANGED faults
  <2>1. call[t] \in CallRecords /\ call \in [Threads -> CallRecords] /\ "emplace" \in Steps /\ disk[w] \in Versions
    BY <1>1, <1>4, CallFacts DEF TypeOK, Steps
  <2>2. Alone(t)
    BY <1>4, <2>1 DEF Alone, CallRecords
  <2>3. /\ call'[t].at = "emplace" /\ call'[t].index = disk[w] /\ call'[t].wide = w /\ call'[t].len = call[t].len
        /\ call'[t].entry = call[t].entry /\ call'[t].retry = call[t].retry /\ call'[t].answer = call[t].answer
        /\ call'[t].hampered = call[t].hampered /\ call'[t].kind = call[t].kind
    BY <1>4, <2>1 DEF CallRecords
  <2>4. Harmless /\ disk' = disk /\ touched' = touched /\ \A a : Sole(a)' <=> Sole(a)
    BY <1>1, CachesSame, ResolvesHarmless DEF environment
  <2>5. CallInv(call[t])'
    <3>1. Fit(call[t].wide)' /\ Fit(call[t].retry)'
      BY <1>1, <2>3, <2>4 DEF Harmless, CallInv
    <3>2. Tries(call[t]) /\ Answers(call[t]) /\ Reads(call[t]) /\ call[t].at = "build"
      BY <1>1 DEF CallInv
    <3>3. Tries(call[t])'
      BY <1>4, <2>3, <2>4, <3>2 DEF Tries, Reading
    <3>4. Answers(call[t])' /\ Reads(call[t])'
      BY <2>3, <2>4, <3>2 DEF Answers, Reads, Reading, Asking, Unreadable
    <3> QED BY <3>1, <3>3, <3>4 DEF CallInv
  <2> QED BY <1>1, <1>4, <2>2, <2>5, OwnStep, FaultsSame
<1> QED BY <1>2, <1>3, <1>4 DEF BuildZipIndex

LEMMA EmplaceIndexInv == ASSUME IInv, NEW t \in Threads, EmplaceIndex(t) PROVE IInv'
<1> DEFINE w == call[t].wide
           index == cache'[w]
<1>1. /\ TypeOK /\ CachesInv /\ CallInv(call[t]) /\ call[t].at = "emplace"
      /\ UNCHANGED <<environment, given, gWidePathCache, gArchiveWidePathCache, gArchiveRetryPathCache, answered, faults>>
      /\ cache' = IF cache[w] = 0 THEN [cache EXCEPT ![w] = call[t].index] ELSE cache
      /\ call' = [call EXCEPT ![t].at = "extract", ![t].index = index]
  BY DEF IInv, EmplaceIndex
<1>2. call[t] \in CallRecords /\ call \in [Threads -> CallRecords] /\ "extract" \in Steps
      /\ cache \in [Archives -> Versions] /\ CacheTypes
  BY <1>1, CallFacts, Known DEF Steps, CacheTypes
<1>3. w \in Archives /\ call[t].index # 0 /\ (w \notin touched => call[t].index = disk[w]) /\ call[t].index \in Versions
  BY <1>1, <1>2 DEF CallInv, Tries, CallRecords
<1>4. cache' \in [Archives -> Versions] /\ index \in Versions /\ index # 0
      /\ \A b \in Archives \ {w} : cache'[b] = cache[b]
  BY <1>1, <1>2, <1>3
<1>5. w \notin touched => index = disk[w]
  <2>1. w \notin touched => cache[w] \in {0, disk[w]}
    BY <1>1, <1>3 DEF CachesInv
  <2>2. index = call[t].index \/ (cache[w] # 0 /\ index = cache[w])
    BY <1>1, <1>2, <1>3
  <2> QED BY <1>3, <2>1, <2>2
<1> HIDE DEF index
<1>6. Alone(t)
  BY <1>1, <1>2, <1>4 DEF Alone, CallRecords
<1>7. /\ call'[t].at = "extract" /\ call'[t].index = index /\ call'[t].wide = w /\ call'[t].len = call[t].len
      /\ call'[t].entry = call[t].entry /\ call'[t].retry = call[t].retry /\ call'[t].answer = call[t].answer
      /\ call'[t].hampered = call[t].hampered /\ call'[t].kind = call[t].kind
  BY <1>1, <1>2 DEF CallRecords
<1>8. Resolves
  BY <1>1, <1>2, <1>4 DEF Resolves, CacheTypes
<1>9. Harmless /\ disk' = disk /\ touched' = touched /\ path' = path /\ \A a : Sole(a)' <=> Sole(a)
  BY <1>1, <1>8, ResolvesHarmless DEF environment, given
<1>10. CachesInv'
  <2>1. \A a \in Archives \ touched' : cache'[a] \in {0, disk'[a]}
    BY <1>1, <1>4, <1>5, <1>9 DEF CachesInv, index
  <2> QED BY <1>1, <1>9, <2>1 DEF CachesInv, Harmless
<1>11. CallInv(call[t])'
  <2>1. Fit(call[t].wide)' /\ Fit(call[t].retry)'
    BY <1>1, <1>7, <1>9 DEF Harmless, CallInv
  <2>2. Tries(call[t]) /\ Answers(call[t]) /\ Reads(call[t]) /\ call[t].at = "emplace"
    BY <1>1 DEF CallInv
  <2>3. Tries(call[t])'
    BY <1>3, <1>4, <1>5, <1>7, <1>9, <2>2 DEF Tries, Reading
  <2>4. Answers(call[t])' /\ Reads(call[t])'
    BY <1>7, <1>9, <2>2 DEF Answers, Reads, Reading, Asking, Unreadable
  <2> QED BY <2>1, <2>3, <2>4 DEF CallInv
<1> QED BY <1>1, <1>6, <1>8, <1>10, <1>11, AnsweredSame, Assemble, FaultsSame

\* An answer with the data of an archive.
LEMMA AnswerFacts ==
  ASSUME IInv, NEW t \in Threads, NEW w \in Archives, NEW j \in Positions, disk[w] # 0,
         Answer(t, <<w, disk[w], j>>), Resolves, Fit(w)',
         w \in touched \/ Allowed(call[t], w, j)
  PROVE  Alone(t) /\ CallInv(call[t])' /\ AnsweredInv' /\ answered' \subseteq Archives
<1> DEFINE data == <<w, disk[w], j>>
<1>1. TypeOK /\ CallInv(call[t]) /\ AnsweredInv /\ call' = [call EXCEPT ![t].at = "returned", ![t].answer = data]
      /\ answered' = IF data = Failure THEN answered ELSE answered \union {data[1]}
  BY DEF IInv, Answer
<1>2. call[t] \in CallRecords /\ call \in [Threads -> CallRecords] /\ "returned" \in Steps
      /\ answered \subseteq Archives
  BY <1>1, CallFacts DEF Steps, TypeOK
<1>3. data \in Data /\ data # Failure /\ data[1] = w
  <2>1. disk[w] \in Versions
    BY <1>1 DEF TypeOK
  <2>2. data \in Data
    BY <2>1 DEF Data
  <2> QED BY <2>2, TupleFacts
<1>4. Harmless /\ disk' = disk /\ touched' = touched
  BY <1>1, ResolvesHarmless DEF Resolves, environment
<1>5. data = <<w, disk[w], j>>
  OBVIOUS
<1>6. answered' = answered \union {w}
  BY <1>1, <1>3
<1> HIDE DEF data
<1>7. Alone(t)
  BY <1>1, <1>2, <1>3 DEF Alone, CallRecords
<1>8. /\ call'[t].at = "returned" /\ call'[t].answer = data /\ call'[t].wide = call[t].wide
      /\ call'[t].entry = call[t].entry /\ call'[t].retry = call[t].retry /\ call'[t].hampered = call[t].hampered
      /\ call'[t].kind = call[t].kind
  BY <1>1, <1>2 DEF CallRecords
<1>9. CallInv(call[t])'
  <2>1. Fit(call[t].wide)' /\ Fit(call[t].retry)'
    BY <1>1, <1>4, <1>8 DEF Harmless, CallInv
  <2>2. Tries(call[t])'
    BY <1>8 DEF Tries, Reading
  <2>3. Answers(call[t])'
    BY <1>3, <1>4, <1>5, <1>8 DEF Answers, Allowed, Unreadable
  <2>4. Reads(call[t])'
    BY <1>3, <1>8 DEF Reads, Reading, Asking
  <2> QED BY <2>1, <2>2, <2>3, <2>4 DEF CallInv
<1>10. AnsweredInv' /\ answered' \subseteq Archives
  BY <1>1, <1>2, <1>4, <1>6 DEF AnsweredInv, Harmless
<1> QED BY <1>7, <1>9, <1>10

LEMMA ExtractZipEntryInv == ASSUME IInv, NEW t \in Threads, ExtractZipEntry(t) PROVE IInv'
<1>w. PICK w : w = call[t].wide
  OBVIOUS
<1>i. PICK i : i = call[t].len
  OBVIOUS
<1>1. /\ TypeOK /\ CachesInv /\ CallInv(call[t]) /\ call[t].at = "extract"
      /\ UNCHANGED <<environment, given, caches>>
  BY DEF IInv, ExtractZipEntry
<1>2. Resolves /\ CachesInv' /\ Harmless
  BY <1>1, CachesSame, ResolvesHarmless
<1>3. call[t] \in CallRecords /\ i \in Positions /\ Fit(w)
  BY <1>w, <1>i, <1>1, CallFacts DEF CallRecords, CallInv
<1>4. w \in Archives /\ call[t].index # 0 /\ (w \notin touched => call[t].index = disk[w])
  BY <1>w, <1>1 DEF CallInv, Tries
<1>5. w \in touched \/ <<w, i>> \in Special \/ Allowed(call[t], w, i)
  <2>1. Tries(call[t])
    BY <1>1 DEF CallInv
  <2> QED BY <1>w, <1>i, <1>1, <1>4, <2>1 DEF Tries, Reading, Allowed, Unreadable
<1>6. Fit(w)'
  BY <1>2, <1>3 DEF Harmless
<1>7. ASSUME NEW j \in Positions, Answer(t, <<w, disk[w], j>>), disk[w] # 0, UNCHANGED faults,
             w \in touched \/ (j = i /\ <<w, i>> \notin Special)
      PROVE  IInv'
  <2>1. w \in touched \/ Allowed(call[t], w, j)
    BY <1>5, <1>7
  <2>2. Alone(t) /\ CallInv(call[t])' /\ AnsweredInv' /\ answered' \subseteq Archives
    BY <1>2, <1>4, <1>6, <1>7, <2>1, AnswerFacts
  <2> QED BY <1>1, <1>2, <1>7, <2>2, Assemble, FaultsSame
<1>8. CASE disk[w] = call[t].index /\ <<w, i>> \notin Special /\ Answer(t, <<w, disk[w], i>>) /\ UNCHANGED faults
  BY <1>3, <1>4, <1>7, <1>8
<1>9. CASE disk[w] # call[t].index /\ disk[w] # 0 /\ (\E j \in Positions : Answer(t, <<w, disk[w], j>>)) /\ UNCHANGED faults
  BY <1>4, <1>7, <1>9
<1>10. CASE (disk[w] # call[t].index \/ <<w, i>> \in Special) /\ NextAttempt(t, FALSE) /\ UNCHANGED <<answered, faults>>
  <2>1. w \notin Archives \ touched \/ i # call[t].entry \/ <<w, call[t].entry>> \in Special
    BY <1>4, <1>10
  <2>2. Alone(t) /\ CallInv(call[t])'
    BY <1>w, <1>i, <1>1, <1>10, <2>1, NextAttemptFacts
  <2> QED BY <1>1, <1>10, <2>2, OwnStep, FaultsSame
<1>11. CASE Hampered(t) /\ UNCHANGED answered
  BY <1>1, <1>11, HamperedInv
<1> QED BY <1>w, <1>i, <1>8, <1>9, <1>10, <1>11 DEF ExtractZipEntry

--------------------------------------------------------------------------------
(* GetArchiveRetryPath.                                                       *)

\* With a retry path that is kept, the call goes on to its archive.
LEMMA WithRetryFacts ==
  ASSUME IInv, NEW t \in Threads, call[t].at \in {"lookupRetry", "storeRetry"}, Resolves,
         NEW retry \in Retry, Fit(retry)', \A a \in Archives : Sole(a) => retry = Direct, WithRetry(t, retry)
  PROVE  Alone(t) /\ CallInv(call[t])'
<1> DEFINE at == IF retry # None THEN "alias" ELSE IF call[t].kind = "info" THEN "returned" ELSE "original"
<1>1. TypeOK /\ CallInv(call[t]) /\ call' = [call EXCEPT ![t].retry = retry, ![t].at = at]
  BY DEF IInv, WithRetry
<1>2. call[t] \in CallRecords /\ call \in [Threads -> CallRecords]
  BY <1>1, CallFacts
<1>3. at \in Steps /\ at \in {"alias", "returned", "original"} /\ \A a \in Archives : Sole(a) => at = "alias"
  BY Constant DEF Steps
<1> HIDE DEF at
<1>4. Alone(t)
  BY <1>1, <1>2, <1>3 DEF Alone, CallRecords
<1>5. /\ call'[t].at = at /\ call'[t].retry = retry /\ call'[t].wide = call[t].wide /\ call'[t].entry = call[t].entry
      /\ call'[t].answer = call[t].answer /\ call'[t].hampered = call[t].hampered /\ call'[t].kind = call[t].kind
  BY <1>1, <1>2 DEF CallRecords
<1>6. Harmless /\ \A a : Sole(a)' <=> Sole(a)
  BY <1>1, ResolvesHarmless
<1>7. Fit(call[t].wide)' /\ Fit(call[t].retry)'
  BY <1>1, <1>5, <1>6 DEF Harmless, CallInv, Fit
<1>8. Answers(call[t]) /\ Reads(call[t]) /\ call[t].answer = Failure
  BY <1>1 DEF CallInv, Answers
<1>9. Tries(call[t])' /\ Answers(call[t])'
  BY <1>3, <1>5, <1>8 DEF Tries, Answers, Reading
<1>10. Reads(call[t])'
  BY <1>3, <1>5, <1>6, <1>8 DEF Reads, Reading, Asking, Unreadable
<1> QED BY <1>4, <1>7, <1>9, <1>10 DEF CallInv

LEMMA LookupRetryInv == ASSUME IInv, NEW t \in Threads, LookupRetry(t) PROVE IInv'
<1>r. PICK retry : retry = gArchiveRetryPathCache[path]
  OBVIOUS
<1>1. /\ TypeOK /\ CachesInv /\ CallInv(call[t]) /\ call[t].at = "lookupRetry"
      /\ UNCHANGED <<environment, given, caches, answered, faults>>
      /\ IF retry # Unset THEN WithRetry(t, retry) ELSE Go(t, "findRetry")
  BY <1>r DEF IInv, LookupRetry
<1>2. Resolves /\ Harmless /\ \A a : Sole(a)' <=> Sole(a)
  BY <1>1, CachesSame, ResolvesHarmless
<1>3. CASE retry # Unset
  <2>1. retry \in Retry /\ Fit(retry) /\ \A a \in Archives : Sole(a) => retry = Direct
    BY <1>r, <1>1, <1>3, Known DEF CachesInv
  <2>2. Fit(retry)'
    BY <1>2, <2>1 DEF Harmless
  <2>3. Alone(t) /\ CallInv(call[t])'
    BY <1>1, <1>2, <1>3, <2>1, <2>2, WithRetryFacts
  <2> QED BY <1>1, <2>3, OwnStep, FaultsSame
<1>4. CASE retry = Unset
  <2>1. call' = [call EXCEPT ![t].at = "findRetry"] /\ "findRetry" \in Steps
        /\ call[t] \in CallRecords /\ call \in [Threads -> CallRecords]
    BY <1>1, <1>4, CallFacts DEF Go, Steps
  <2>2. Alone(t)
    BY <2>1 DEF Alone, CallRecords
  <2>3. /\ call'[t].at = "findRetry" /\ call'[t].retry = call[t].retry /\ call'[t].wide = call[t].wide
        /\ call'[t].entry = call[t].entry /\ call'[t].answer = call[t].answer /\ call'[t].hampered = call[t].hampered
        /\ call'[t].kind = call[t].kind
    BY <2>1 DEF CallRecords
  <2>4. Fit(call[t].wide)' /\ Fit(call[t].retry)'
    BY <1>1, <1>2, <2>3 DEF Harmless, CallInv
  <2>5. Answers(call[t]) /\ Reads(call[t]) /\ call[t].answer = Failure /\ call[t].at = "lookupRetry"
    BY <1>1 DEF CallInv, Answers
  <2>6. Tries(call[t])' /\ Answers(call[t])'
    BY <2>3, <2>5 DEF Tries, Answers, Reading
  <2>7. Reads(call[t])'
    BY <1>2, <2>3, <2>5 DEF Reads, Reading, Asking, Unreadable
  <2>8. CallInv(call[t])'
    BY <2>4, <2>6, <2>7 DEF CallInv
  <2> QED BY <1>1, <2>2, <2>8, OwnStep, FaultsSame
<1> QED BY <1>3, <1>4

LEMMA FindRetryInv == ASSUME IInv, NEW t \in Threads, FindRetry(t) PROVE IInv'
<1>1. /\ TypeOK /\ CachesInv /\ CallInv(call[t]) /\ call[t].at = "findRetry"
      /\ UNCHANGED <<environment, given, gArchiveRetryPathCache, cache, answered, faults>>
  BY DEF IInv, FindRetry
<1>2. PICK w \in Wide : /\ GetArchiveWidePath(path, w)
                        /\ \E retry \in RetryPath(path, w) :
                             call' = [call EXCEPT ![t].at = "storeRetry", ![t].retry = retry]
  BY DEF FindRetry
<1>3. PICK retry \in RetryPath(path, w) : call' = [call EXCEPT ![t].at = "storeRetry", ![t].retry = retry]
  BY <1>2
<1>4. Resolves /\ CachesInv' /\ Fit(w)' /\ \A a \in Archives : Sole(a) => w = a
  BY <1>1, <1>2, WideFacts
<1>5. retry \in {w, Folder, Direct, None}
  BY <1>3 DEF RetryPath
<1>6. retry \in Retry /\ Fit(retry)'
  BY <1>2, <1>4, <1>5, Constant DEF Fit
<1>7. ASSUME NEW a \in Archives, Sole(a) PROVE retry = Direct
  <2>1. w = a /\ Collision(path) = {a} /\ w # Folder
    BY <1>1, <1>4, <1>7, CollisionFacts, Constant
  <2> QED BY <1>3, <2>1 DEF RetryPath
<1>8. "storeRetry" \in Steps /\ call[t] \in CallRecords /\ call \in [Threads -> CallRecords]
  BY <1>1, CallFacts DEF Steps
<1>9. Alone(t)
  BY <1>3, <1>6, <1>8 DEF Alone, CallRecords
<1>10. /\ call'[t].at = "storeRetry" /\ call'[t].retry = retry /\ call'[t].wide = call[t].wide
       /\ call'[t].entry = call[t].entry /\ call'[t].answer = call[t].answer /\ call'[t].hampered = call[t].hampered
       /\ call'[t].kind = call[t].kind
  BY <1>3, <1>8 DEF CallRecords
<1>11. Harmless /\ \A a : Sole(a)' <=> Sole(a)
  BY <1>1, <1>4, ResolvesHarmless
<1>12. CallInv(call[t])'
  <2>1. Fit(call[t].wide)' /\ Fit(call[t].retry)'
    BY <1>1, <1>6, <1>10, <1>11 DEF Harmless, CallInv, Fit
  <2>2. Answers(call[t]) /\ Reads(call[t]) /\ call[t].answer = Failure /\ call[t].at = "findRetry"
    BY <1>1 DEF CallInv, Answers
  <2>3. Tries(call[t])' /\ Answers(call[t])'
    BY <1>10, <2>2 DEF Tries, Answers, Reading
  <2>4. Reads(call[t])'
    BY <1>7, <1>10, <1>11, <2>2 DEF Reads, Reading, Asking, Unreadable
  <2> QED BY <2>1, <2>3, <2>4 DEF CallInv
<1> QED BY <1>1, <1>4, <1>9, <1>12, AnsweredSame, Assemble, FaultsSame

LEMMA StoreRetryInv == ASSUME IInv, NEW t \in Threads, StoreRetry(t) PROVE IInv'
<1>r. PICK retry : retry = call[t].retry
  OBVIOUS
<1>1. /\ TypeOK /\ CachesInv /\ CallInv(call[t]) /\ call[t].at = "storeRetry"
      /\ UNCHANGED <<environment, given, gWidePathCache, gArchiveWidePathCache, cache, answered, faults>>
      /\ gArchiveRetryPathCache' = [gArchiveRetryPathCache EXCEPT ![path] = retry] /\ WithRetry(t, retry)
  BY <1>r DEF IInv, StoreRetry
<1>2. retry \in Retry /\ Fit(retry) /\ \A a \in Archives : Sole(a) => retry = Direct
  BY <1>r, <1>1, CallFacts DEF CallRecords, CallInv, Reads
<1>3. path \in Paths /\ path' = path /\ disk' = disk /\ touched' = touched /\ CacheTypes
  BY <1>1, Known DEF given, environment
<1>4. gArchiveRetryPathCache' \in [Paths -> Retry] /\ gArchiveRetryPathCache'[path] = retry
  BY <1>1, <1>2, <1>3 DEF CacheTypes
<1>5. Resolves
  BY <1>1, <1>3, <1>4 DEF Resolves, CacheTypes
<1>6. Harmless /\ \A a : Sole(a)' <=> Sole(a)
  BY <1>1, <1>5, ResolvesHarmless
<1>7. Fit(retry)'
  BY <1>2, <1>6 DEF Harmless
<1>8. Alone(t) /\ CallInv(call[t])'
  BY <1>1, <1>2, <1>5, <1>7, WithRetryFacts
<1>9. CachesInv'
  <2>1. /\ path' \in Lossy => Fit(gWidePathCache[path])'
        /\ Fit(gArchiveWidePathCache[path])' /\ Fit(gArchiveRetryPathCache[path])'
    BY <1>1, <1>3, <1>4, <1>6, <1>7 DEF CachesInv, Harmless, Fit
  <2> QED BY <1>1, <1>2, <1>3, <1>4, <1>6, <2>1 DEF CachesInv
<1> QED BY <1>1, <1>5, <1>8, <1>9, AnsweredSame, Assemble, FaultsSame

--------------------------------------------------------------------------------
(* The plugin.                                                                *)

\* A plugin that opens an archive answers from it; that it could not has its reasons.
LEMMA PluginInv ==
  ASSUME IInv, NEW t \in Threads, call[t].at \in {"alias", "original"}, NEW s, NEW otherwise,
         s \in Retry, Fit(s), \A a \in Archives : Sole(a) => s = Direct,
         otherwise \in {"returned", "original", "lookupRetry"}, otherwise = "lookupRetry" => call[t].kind = "info",
         Plugin(t, s, otherwise),
         UNCHANGED <<environment, given, gArchiveWidePathCache, gArchiveRetryPathCache, cache, faults>>
  PROVE  IInv'
<1>1. TypeOK /\ CachesInv /\ CallInv(call[t])
  BY DEF IInv
<1>2. PICK w \in Wide :
        /\ Opens(s, w)
        /\ IF w \in Archives /\ Exists(w) THEN Answer(t, <<w, disk[w], call[t].entry>>)
           ELSE IF otherwise = "returned" THEN Answer(t, Failure) ELSE Go(t, otherwise) /\ UNCHANGED answered
  BY DEF Plugin
<1>3. path' = path /\ path \in Paths /\ disk' = disk /\ touched' = touched /\ tolerant' = tolerant /\ CacheTypes
  BY <1>1, Known DEF given, environment
<1>4. \/ s = Direct /\ ~tolerant /\ w = Unset /\ UNCHANGED gWidePathCache
      \/ s = Direct /\ tolerant /\ w \in GetWidePath(path) /\ Remember(path, w)
      \/ s # Direct /\ w = s /\ UNCHANGED gWidePathCache
  BY <1>2 DEF Opens
<1>5. Resolves /\ CachesInv' /\ Fit(w)' /\ \A a \in Archives : Sole(a) /\ tolerant => w = a
  <2>1. CASE UNCHANGED gWidePathCache /\ (s = Direct => ~tolerant) /\ (w = s \/ w = Unset)
    <3>1. Resolves /\ CachesInv' /\ Harmless
      BY <1>1, <2>1, CachesSame, ResolvesHarmless DEF caches
    <3>2. Fit(w)'
      BY <2>1, <3>1, Constant DEF Harmless, Fit
    <3> QED BY <2>1, <3>1, <3>2
  <2>2. CASE w \in GetWidePath(path) /\ Remember(path, w)
    <3>1. /\ gWidePathCache' \in [Lossy -> Wide] /\ Fit(w)'
          /\ path \in Lossy => gWidePathCache'[path] = w /\ (gWidePathCache[path] = Unset \/ w = gWidePathCache[path])
          /\ \A a \in Archives : Sole(a) => w = a
      BY <1>1, <2>2, SettledFacts
    <3>2. Resolves
      BY <1>3, <3>1 DEF Resolves, CacheTypes
    <3>3. Harmless /\ \A a : Sole(a)' <=> Sole(a)
      BY <1>1, <3>2, ResolvesHarmless
    <3>4. CachesInv'
      <4>1. /\ path' \in Lossy => Fit(gWidePathCache[path])'
            /\ Fit(gArchiveWidePathCache[path])' /\ Fit(gArchiveRetryPathCache[path])'
        BY <1>1, <1>3, <3>1, <3>3 DEF CachesInv, Harmless, Fit
      <4> QED BY <1>1, <1>3, <3>1, <3>3, <4>1 DEF CachesInv
    <3> QED BY <3>1, <3>2, <3>4
  <2> QED BY <1>4, <2>1, <2>2
<1>6. Harmless /\ \A a : Sole(a)' <=> Sole(a)
  BY <1>1, <1>5, ResolvesHarmless
<1>7. call[t] \in CallRecords /\ call \in [Threads -> CallRecords]
  BY <1>1, CallFacts
<1>8. CASE w \in Archives /\ Exists(w)
  <2>1. Answer(t, <<w, disk[w], call[t].entry>>) /\ disk[w] # 0 /\ call[t].entry \in Positions
    BY <1>2, <1>7, <1>8, Constant DEF Exists, CallRecords
  <2>2. PICK j \in Positions : j = call[t].entry
    BY <2>1
  <2>3. Alone(t) /\ CallInv(call[t])' /\ AnsweredInv' /\ answered' \subseteq Archives
    <3>1. Allowed(call[t], w, j)
      BY <2>2 DEF Allowed
    <3> QED BY <1>5, <1>8, <2>1, <2>2, <3>1, AnswerFacts
  <2> QED BY <1>1, <1>5, <2>3, Assemble, FaultsSame
<1>9. CASE ~(w \in Archives /\ Exists(w))
  <2>1. call' = [call EXCEPT ![t].at = otherwise] /\ UNCHANGED answered
    <3>1. CASE otherwise = "returned"
      <4>1. call' = [call EXCEPT ![t].at = "returned", ![t].answer = Failure] /\ UNCHANGED answered
        BY <1>2, <1>9, <3>1 DEF Answer
      <4>2. call[t].answer = Failure
        BY <1>1 DEF CallInv, Answers
      <4>3. [call[t] EXCEPT !.at = "returned", !.answer = Failure] = [call[t] EXCEPT !.at = "returned"]
        BY <1>7, <4>2 DEF CallRecords
      <4> QED BY <1>7, <3>1, <4>1, <4>3
    <3>2. CASE otherwise # "returned"
      BY <1>2, <1>9, <3>2 DEF Go
    <3> QED BY <3>1, <3>2
  <2>2. Alone(t)
    BY <1>7, <2>1 DEF Alone, CallRecords, Steps
  <2>3. /\ call'[t].at = otherwise /\ call'[t].retry = call[t].retry /\ call'[t].wide = call[t].wide
        /\ call'[t].entry = call[t].entry /\ call'[t].answer = call[t].answer /\ call'[t].hampered = call[t].hampered
        /\ call'[t].kind = call[t].kind
    BY <1>7, <2>1 DEF CallRecords
  <2>4. \A a \in Archives : Sole(a) => ~tolerant
    BY <1>5, <1>9 DEF Sole, Lasting, Exists
  <2>5. CallInv(call[t])'
    <3>1. Fit(call[t].wide)' /\ Fit(call[t].retry)'
      BY <1>1, <1>6, <2>3 DEF Harmless, CallInv
    <3>2. Answers(call[t]) /\ Reads(call[t]) /\ call[t].answer = Failure
      BY <1>1 DEF CallInv, Answers
    <3>3. Tries(call[t])' /\ Answers(call[t])'
      BY <2>3, <3>2 DEF Tries, Answers, Reading
    <3>4. Reads(call[t])'
      BY <1>3, <1>6, <2>3, <2>4, <3>2 DEF Reads, Reading, Asking, Unreadable
    <3> QED BY <3>1, <3>3, <3>4 DEF CallInv
  <2> QED BY <1>1, <1>5, <2>1, <2>2, <2>5, AnsweredSame, Assemble, FaultsSame
<1> QED BY <1>8, <1>9

LEMMA AskAliasInv == ASSUME IInv, NEW t \in Threads, AskAlias(t) PROVE IInv'
<1>r. PICK retry : retry = call[t].retry
  OBVIOUS
<1>k. PICK kind : kind = call[t].kind
  OBVIOUS
<1> DEFINE otherwise == IF kind = "info" THEN "returned" ELSE "original"
<1>1. /\ TypeOK /\ CallInv(call[t]) /\ call[t].at = "alias" /\ Plugin(t, retry, otherwise)
      /\ UNCHANGED <<environment, given, gArchiveWidePathCache, gArchiveRetryPathCache, cache, faults>>
  BY <1>r, <1>k DEF IInv, AskAlias
<1>2. retry \in Retry /\ Fit(retry) /\ \A a \in Archives : Sole(a) => retry = Direct
  BY <1>r, <1>1, CallFacts DEF CallRecords, CallInv, Reads
<1>3. otherwise \in {"returned", "original", "lookupRetry"} /\ otherwise # "lookupRetry"
  OBVIOUS
<1> HIDE DEF otherwise
<1> QED BY <1>1, <1>2, <1>3, PluginInv

LEMMA AskOriginalInv == ASSUME IInv, NEW t \in Threads, AskOriginal(t) PROVE IInv'
<1>k. PICK kind : kind = call[t].kind
  OBVIOUS
<1> DEFINE otherwise == IF kind = "info" THEN "lookupRetry" ELSE "returned"
<1>1. /\ call[t].at = "original" /\ Plugin(t, Direct, otherwise)
      /\ UNCHANGED <<environment, given, gArchiveWidePathCache, gArchiveRetryPathCache, cache, faults>>
  BY <1>k DEF AskOriginal
<1>2. Direct \in Retry /\ Fit(Direct)
  BY Constant DEF Fit
<1>3. otherwise \in {"returned", "original", "lookupRetry"} /\ (otherwise = "lookupRetry" => call[t].kind = "info")
  BY <1>k
<1> HIDE DEF otherwise
<1> QED BY <1>1, <1>2, <1>3, PluginInv

LEMMA IdleRecord == Idle \in CallRecords
<1>1. Unset \in Wide /\ Unset \in Retry /\ 0 \in Versions /\ 0 \in Positions
  BY Constant, ArchiveAssumption DEF Versions
<1> QED BY <1>1 DEF Idle, CallRecords, Steps

LEMMA IdleInv == ASSUME NEW t, call[t] = Idle PROVE CallInv(call[t])
BY Constant DEF Idle, CallInv, Fit, Tries, Answers, Reads, Reading, Asking

LEMMA ReturnInv == ASSUME IInv, NEW t \in Threads, Return(t) PROVE IInv'
<1>1. TypeOK /\ UNCHANGED <<environment, given, caches, answered, faults>> /\ call' = [call EXCEPT ![t] = Idle]
  BY DEF IInv, Return
<1>2. Alone(t) /\ call'[t] = Idle
  BY <1>1, IdleRecord, CallFacts DEF Alone
<1>3. Unset \notin Archives
  BY Constant
<1>4. CallInv(call[t])'
  BY <1>2, <1>3 DEF Idle, CallInv, Fit, Tries, Answers, Reads, Reading, Asking
<1> QED BY <1>1, <1>2, <1>4, OwnStep, FaultsSame

--------------------------------------------------------------------------------
(* The archives change.                                                       *)

LEMMA ChangeInv == ASSUME IInv, Change PROVE IInv'
<1>1. TypeOK /\ CachesInv /\ AnsweredInv /\ UNCHANGED <<given, caches, call, answered, faults>>
      /\ changes < MaxChanges /\ changes' = changes + 1
  BY DEF IInv, Change
<1>2. PICK a \in Archives, v \in {changes + 2, 0} :
        touched' = touched \union {a} /\ disk' = [disk EXCEPT ![a] = v]
  BY DEF Change
<1>3. MaxChanges \in Nat
  BY ArchiveAssumption
<1>4. changes \in 0 .. MaxChanges /\ disk \in [Archives -> Versions] /\ touched \subseteq Archives
  BY <1>1 DEF TypeOK
<1>5. v \in Versions /\ changes' \in 0 .. MaxChanges
  BY <1>1, <1>2, <1>3, <1>4 DEF Versions
<1>6. /\ disk' \in [Archives -> Versions] /\ touched' \subseteq Archives
      /\ \A b \in Archives : b \notin touched' => b \notin touched /\ disk'[b] = disk[b]
  BY <1>2, <1>4, <1>5
<1>7. TypeOK'
  BY <1>1, <1>5, <1>6 DEF TypeOK, given, caches
<1>8. path' = path /\ names[path] \subseteq Archives /\ tolerant' = tolerant /\ Preferred' = Preferred
  BY <1>1, Known DEF given, caches, Preferred
<1>9. Lasting' = Lasting \ {a}
  BY <1>2, <1>4, <1>6, <1>8 DEF Lasting
<1>10. ASSUME NEW s, Fit(s) PROVE Fit(s)'
  BY <1>8, <1>9, <1>10 DEF Fit
<1>11. ASSUME NEW x \in Archives, Sole(x)' PROVE Sole(x)
  <2>1. a \notin names[path] /\ Lasting \subseteq names[path]
    BY <1>2, <1>8, <1>11 DEF Sole, Lasting
  <2> QED BY <1>2, <1>8, <1>9, <1>11, <2>1 DEF Sole
<1>12. Harmless
  BY <1>6, <1>8, <1>10, <1>11 DEF Harmless
<1>13. CachesInv'
  <2>1. UNCHANGED <<gWidePathCache, gArchiveWidePathCache, gArchiveRetryPathCache, cache>>
    BY <1>1 DEF caches
  <2>2. \A b \in Archives \ touched' : cache'[b] \in {0, disk'[b]}
    BY <1>1, <1>6, <2>1 DEF CachesInv
  <2> QED BY <1>1, <1>8, <1>12, <2>1, <2>2 DEF CachesInv, Harmless
<1>14. AnsweredInv'
  <2>1. answered \subseteq Archives
    BY <1>1 DEF TypeOK
  <2> QED BY <1>1, <1>6, <1>10, <2>1 DEF AnsweredInv
<1>15. ASSUME NEW u \in Threads PROVE CallInv(call[u])'
  BY <1>1, <1>12, CallKept DEF IInv
<1> QED BY <1>7, <1>13, <1>14, <1>15 DEF IInv

--------------------------------------------------------------------------------
(* The invariant.                                                             *)

LEMMA InitInv == Init => IInv
<1> SUFFICES ASSUME Init PROVE IInv
  OBVIOUS
<1>1. 0 \in Versions /\ 1 \in Versions /\ 0 \in 0 .. MaxChanges /\ 0 \in 0 .. MaxFaults
  <2>1. MaxChanges \in Nat /\ MaxFaults \in Nat
    BY ArchiveAssumption
  <2> QED BY <2>1 DEF Versions
<1>2. Unset \in Wide /\ Unset \in Retry /\ Unset \notin Archives
  BY Constant
<1>3. \A t \in Threads : call[t] = Idle
  BY DEF Init
<1>4. TypeOK
  <2>1. call \in [Threads -> CallRecords]
    BY IdleRecord DEF Init
  <2> QED BY <1>1, <1>2, <2>1 DEF Init, TypeOK, CallRecords
<1>5. CachesInv
  BY <1>2, <1>4 DEF Init, CachesInv, Fit, TypeOK
<1>6. AnsweredInv
  BY DEF Init, AnsweredInv
<1> QED BY <1>3, <1>4, <1>5, <1>6, IdleInv DEF IInv

LEMMA NextInv == IInv /\ [Next]_vars => IInv'
<1> SUFFICES ASSUME IInv, [Next]_vars PROVE IInv'
  OBVIOUS
<1>1. ASSUME NEW t \in Threads, NEW i \in Positions, Call(t, "memory", i) PROVE IInv'
  BY <1>1, CallInvStep
<1>2. ASSUME NEW t \in Threads, NEW kind \in {"info", "file"}, Call(t, kind, 0) PROVE IInv'
  <2>1. 0 \in Positions
    BY ArchiveAssumption
  <2> QED BY <1>2, <2>1, CallInvStep
<1>3. CASE Change
  BY <1>3, ChangeInv
<1>4. ASSUME NEW t \in Threads,
             FindArchive(t) \/ LookupIndex(t) \/ BuildZipIndex(t) \/ EmplaceIndex(t) \/ ExtractZipEntry(t)
      PROVE  IInv'
  BY <1>4, FindArchiveInv, LookupIndexInv, BuildZipIndexInv, EmplaceIndexInv, ExtractZipEntryInv
<1>5. ASSUME NEW t \in Threads,
             LookupRetry(t) \/ FindRetry(t) \/ StoreRetry(t) \/ AskAlias(t) \/ AskOriginal(t) \/ Return(t)
      PROVE  IInv'
  BY <1>5, LookupRetryInv, FindRetryInv, StoreRetryInv, AskAliasInv, AskOriginalInv, ReturnInv
<1>6. CASE UNCHANGED vars
  <2>1. UNCHANGED <<environment, given, caches, call, answered, faults>> /\ TypeOK /\ CachesInv
    BY <1>6 DEF vars, IInv
  <2>2. Resolves /\ CachesInv' /\ Harmless
    BY <2>1, CachesSame, ResolvesHarmless
  <2>3. AnsweredInv'
    BY <2>1, <2>2, AnsweredSame
  <2>4. TypeOK'
    BY <2>1 DEF TypeOK, environment, given, caches
  <2>5. ASSUME NEW u \in Threads PROVE CallInv(call[u])'
    BY <2>1, <2>2, CallKept DEF IInv
  <2> QED BY <2>2, <2>3, <2>4, <2>5 DEF IInv
<1> QED BY <1>1, <1>2, <1>3, <1>4, <1>5, <1>6 DEF Next

LEMMA Inductive == Spec => []IInv
BY InitInv, NextInv, PTL DEF Spec

--------------------------------------------------------------------------------
(* Theorems.                                                                  *)

\* The caches, the calls and the archives have their types (dllmain.cpp, the wrappers of the
\* archive plugins).
THEOREM TypeCorrect == Spec => []TypeOK
<1>1. IInv => TypeOK
  BY DEF IInv
<1> QED BY <1>1, Inductive, PTL

\* The data that a call is answered with from an archive that nobody has changed are those of the
\* entry it was asked for, whichever thread has put the index into the cache; or, of a call of arc.spi
\* and only where that entry cannot be extracted, those of the entry before it, and of no other.
THEOREM RightEntryCorrect == Spec => []RightEntry
<1>1. IInv => RightEntry
  <2> SUFFICES ASSUME IInv PROVE RightEntry
    OBVIOUS
  <2> SUFFICES ASSUME NEW t \in Threads, call[t].answer # Failure, call[t].answer[1] \notin touched
               PROVE  LET c == call[t]
                          from == c.answer[1]
                      IN \/ c.answer = <<from, disk[from], c.entry>>
                         \/ /\ c.kind = "memory" /\ (c.hampered \/ <<from, c.entry>> \in Special)
                            /\ c.entry > 0 /\ c.answer = <<from, disk[from], c.entry - 1>>
                            /\ <<from, c.entry - 1>> \notin Special
    BY DEF RightEntry
  <2>1. Answers(call[t])
    BY DEF IInv, CallInv
  <2> QED BY <2>1 DEF Answers, Allowed, Unreadable
<1> QED BY <1>1, Inductive, PTL

\* No cached failure, race or failing read of one thread keeps a call from an archive that is
\* there all the time and the only one of its spelling.
THEOREM StaysReadableCorrect == Spec => []StaysReadable
<1>1. IInv => StaysReadable
  <2> SUFFICES ASSUME IInv, NEW t \in Threads, Returned(t), names[path] \intersect touched = {},
                      NEW a \in Archives, Candidates(path) = {a}, call[t].answer = Failure
               PROVE  ~tolerant /\ (call[t].kind = "memory" => call[t].hampered \/ <<a, call[t].entry>> \in Special)
    BY DEF StaysReadable
  <2>1. Sole(a)
    <3>1. Lasting = Candidates(path)
      BY CandidateFacts DEF IInv, Lasting
    <3> QED BY <3>1 DEF Sole
  <2>2. Reads(call[t]) /\ call[t].at = "returned"
    BY DEF IInv, CallInv, Returned
  <2> QED BY <2>1, <2>2 DEF Reads, Unreadable
<1> QED BY <1>1, Inductive, PTL

\* GetArchiveWidePath, its caches and the resolution of the path a plugin opens agree on one
\* archive, unless one of those that were read has changed.
THEOREM OneArchiveCorrect == Spec => []OneArchive
<1>1. IInv => OneArchive
  <2> SUFFICES ASSUME IInv, NEW a \in answered, NEW b \in answered, a # b, {a, b} \intersect touched = {}
               PROVE  FALSE
    BY DEF OneArchive
  <2>1. a \in Archives /\ b \in Archives /\ Fit(a) /\ Fit(b) /\ disk[a] # 0 /\ disk[b] # 0
    BY DEF IInv, TypeOK, AnsweredInv
  <2>2. a \in Lasting /\ b \in Lasting
    BY <2>1 DEF Fit, Lasting
  <2> QED BY <2>1, <2>2 DEF Fit
<1> QED BY <1>1, Inductive, PTL
================================================================================
