---------------------------- MODULE WidePathProofs -----------------------------
(***************************************************************************)
(* Proofs about WidePath, for any names, spellings, disk and threads: a    *)
(* file that can be singled out is reached, and an undamaged path opens    *)
(* nothing that is spelled otherwise.                                      *)
(***************************************************************************)
EXTENDS WidePath, SequenceTheorems, FiniteSetTheorems, WellFoundedInduction, TLAPS

\* As long as nothing changes, the folders of an entry exist.
DiskInv == ~changed => \A file \in disk : Rooted(file, disk)

\* What the cache has is what the path singles out.
CacheInv ==
  ~changed => \A path \in AnsiPaths : gWidePathCache[path] # Absent =>
    \A file \in Candidates(path) : SingledOut(file) => gWidePathCache[path] = file

\* How far a call has come.
Shape(c) ==
  /\ c.at \in {"idle", "lookup"} => c.component = 1 /\ c.settled_path = None
  /\ c.at # "idle" => c.path \in AnsiPaths
  /\ c.at \in {"lookup", "store"} => HasQuestion(c.path)
  /\ c.at \in {"resolve", "legacy"} => c.component <= Len(c.path) + 1 /\ Len(c.settled_path) < c.component

\* What has been put together stands for the components up to here.
Plain(c) ==
  ~HasQuestion(c.path) =>
    /\ c.at \in {"resolve", "legacy"} =>
         Len(c.settled_path) = c.component - 1
         /\ \A i \in 1 .. c.component - 1 : encode[c.settled_path[i]] = c.path[i]
    /\ c.at = "legacy" => \A i \in 1 .. c.component - 1 : c.settled_path[i] = decode[c.path[i]]
    /\ c.at = "open" => Encoded(c.settled_path) = c.path
    /\ c.at = "opened" => c.opened = None \/ Encoded(c.opened) = c.path

Reaches(c) ==
  ~changed => \A file \in Candidates(c.path) : SingledOut(file) =>
    /\ c.at = "resolve" => c.settled_path = SubSeq(file, 1, c.component - 1)
    /\ c.at = "legacy" => ~HasQuestion(c.path) /\ Decoded(c.path) \notin disk
    /\ c.at \in {"store", "open"} => c.settled_path = file
    /\ c.at = "opened" => c.opened = file

CallInv(c) == Shape(c) /\ Plain(c) /\ Reaches(c)

IInv == TypeOK /\ DiskInv /\ CacheInv /\ \A t \in Threads : CallInv(thread[t])

CallRecords ==
  [at : Steps, path : AnsiPaths \union {None}, component : 1 .. Depth + 1,
   settled_path : Paths \union {None}, opened : Paths \union {None}]

--------------------------------------------------------------------------------
(* Paths.                                                                     *)

LEMMA Least == ASSUME NEW T \in SUBSET Nat, T # {} PROVE \E n \in T : \A m \in T : n <= m
<1> DEFINE R == {ss \in Nat \X Nat : ss[1] < ss[2]}
<1>1. IsWellFoundedOn(R, Nat)
  BY NatLessThanWellFounded DEF OpToRel
<1>2. ASSUME NEW m \in Nat, NEW n \in Nat, <<m, n>> \notin R PROVE n <= m
  <2>1. <<m, n>> \in Nat \X Nat
    OBVIOUS
  <2>2. ~ (<<m, n>>[1] < <<m, n>>[2])
    BY <1>2, <2>1
  <2> QED BY <2>2
<1> HIDE DEF R
<1>3. \E n \in T : \A m \in T : <<m, n>> \notin R
  BY <1>1, WFMin
<1> QED BY <1>2, <1>3

LEMMA SeqsFacts ==
  ASSUME NEW S, NEW p
  PROVE  /\ p \in Seqs(S) <=> p \in Seq(S) /\ Len(p) \in 1 .. Depth
         /\ p \in Seqs(S) => p \in [1 .. Len(p) -> S]
<1>1. Depth \in Nat
  BY PathAssumption
<1>2. ASSUME NEW n \in 1 .. Depth, p \in [1 .. n -> S] PROVE p \in Seq(S) /\ Len(p) = n
  <2>1. p \in Seq(S)
    BY <1>1, <1>2, SeqDef
  <2>2. DOMAIN p = 1 .. Len(p) /\ Len(p) \in Nat
    BY <2>1, LenProperties
  <2> QED BY <1>1, <1>2, <2>1, <2>2
<1>3. ASSUME p \in Seq(S), Len(p) \in 1 .. Depth PROVE p \in [1 .. Len(p) -> S] /\ p \in Seqs(S)
  <2>1. p \in [1 .. Len(p) -> S]
    BY <1>3, LenProperties
  <2> QED BY <1>3, <2>1 DEF Seqs
<1>4. ASSUME p \in Seqs(S) PROVE p \in Seq(S) /\ Len(p) \in 1 .. Depth
  <2>1. PICK n \in 1 .. Depth : p \in [1 .. n -> S]
    BY <1>4 DEF Seqs
  <2> QED BY <1>2, <2>1
<1> QED BY <1>3, <1>4

LEMMA PathFacts ==
  /\ \A p \in Paths \union {None} : p \in Seq(Names) /\ Len(p) \in 0 .. Depth
  /\ \A p \in Paths : Len(p) \in 1 .. Depth /\ p \in [1 .. Len(p) -> Names]
  /\ \A p \in AnsiPaths \union {None} : p \in Seq(Spellings) /\ Len(p) \in 0 .. Depth
  /\ \A p \in AnsiPaths : Len(p) \in 1 .. Depth /\ p \in [1 .. Len(p) -> Spellings]
  /\ \A p \in Seq(Names) : Len(p) \in 1 .. Depth => p \in Paths
  /\ Depth \in Nat
<1>1. Depth \in Nat
  BY PathAssumption
<1>2. None \in Seq(Names) /\ None \in Seq(Spellings) /\ Len(None) = 0
  BY EmptySeq DEF None
<1>3. \A p \in Paths : p \in Seq(Names) /\ Len(p) \in 1 .. Depth /\ p \in [1 .. Len(p) -> Names]
  BY SeqsFacts DEF Paths
<1>4. \A p \in AnsiPaths : p \in Seq(Spellings) /\ Len(p) \in 1 .. Depth /\ p \in [1 .. Len(p) -> Spellings]
  BY SeqsFacts DEF AnsiPaths
<1>5. \A p \in Seq(Names) : Len(p) \in 1 .. Depth => p \in Paths
  BY SeqsFacts DEF Paths
<1>6. \A p \in Paths \union {None} : p \in Seq(Names) /\ Len(p) \in 0 .. Depth
  <2>1. 0 \in 0 .. Depth /\ \A n \in 1 .. Depth : n \in 0 .. Depth
    BY <1>1
  <2> QED BY <2>1, <1>2, <1>3, Zenon
<1>7. \A p \in AnsiPaths \union {None} : p \in Seq(Spellings) /\ Len(p) \in 0 .. Depth
  <2>1. 0 \in 0 .. Depth /\ \A n \in 1 .. Depth : n \in 0 .. Depth
    BY <1>1
  <2> QED BY <2>1, <1>2, <1>4, Zenon
<1> QED BY <1>1, <1>3, <1>4, <1>5, <1>6, <1>7

LEMMA EncodedFacts ==
  ASSUME NEW p \in Paths \union {None}, NEW a \in AnsiPaths
  PROVE  Encoded(p) = a <=> Len(p) = Len(a) /\ \A i \in 1 .. Len(a) : encode[p[i]] = a[i]
<1>1. Len(p) \in Nat /\ Len(a) \in Nat /\ a \in [1 .. Len(a) -> Spellings]
  BY PathFacts
<1>2. DOMAIN Encoded(p) = 1 .. Len(p) /\ \A i \in 1 .. Len(p) : Encoded(p)[i] = encode[p[i]]
  BY DEF Encoded
<1>3. ASSUME Encoded(p) = a PROVE Len(p) = Len(a) /\ \A i \in 1 .. Len(a) : encode[p[i]] = a[i]
  <2>1. 1 .. Len(p) = 1 .. Len(a)
    BY <1>1, <1>2, <1>3
  <2>2. Len(p) = Len(a)
    BY <1>1, <2>1
  <2> QED BY <1>2, <1>3, <2>2
<1>4. ASSUME Len(p) = Len(a), \A i \in 1 .. Len(a) : encode[p[i]] = a[i] PROVE Encoded(p) = a
  BY <1>1, <1>4 DEF Encoded
<1> QED BY <1>3, <1>4

LEMMA DecodedFacts ==
  ASSUME NEW a \in AnsiPaths, ~HasQuestion(a)
  PROVE  /\ Decoded(a) \in Paths /\ Len(Decoded(a)) = Len(a) /\ Encoded(Decoded(a)) = a
         /\ \A i \in 1 .. Len(a) : /\ Decoded(a)[i] = decode[a[i]] /\ decode[a[i]] \in Names
                                   /\ encode[decode[a[i]]] = a[i]
<1>1. Len(a) \in 1 .. Depth /\ a \in [1 .. Len(a) -> Spellings] /\ Len(a) \in Nat /\ Depth \in Nat
  BY PathFacts
<1>2. \A i \in 1 .. Len(a) : decode[a[i]] \in Names /\ encode[decode[a[i]]] = a[i]
  BY <1>1, PathAssumption DEF HasQuestion
<1>3. Decoded(a) \in [1 .. Len(a) -> Names] /\ \A i \in 1 .. Len(a) : Decoded(a)[i] = decode[a[i]]
  BY <1>2 DEF Decoded
<1>4. Decoded(a) \in Paths
  BY <1>1, <1>3 DEF Paths, Seqs
<1>5. Len(Decoded(a)) = Len(a)
  <2>1. DOMAIN Decoded(a) = 1 .. Len(Decoded(a)) /\ Len(Decoded(a)) \in Nat
    BY <1>4, PathFacts, LenProperties
  <2> QED BY <1>1, <1>3, <2>1
<1> QED BY <1>2, <1>3, <1>4, <1>5, EncodedFacts

\* The beginning of a path.
LEMMA PrefixFacts ==
  ASSUME NEW p \in Paths, NEW i \in 1 .. Len(p)
  PROVE  /\ SubSeq(p, 1, i - 1) \in Seq(Names) /\ Len(SubSeq(p, 1, i - 1)) = i - 1
         /\ \A j \in 1 .. i - 1 : SubSeq(p, 1, i - 1)[j] = p[j]
         /\ p[i] \in Names
         /\ Append(SubSeq(p, 1, i - 1), p[i]) = SubSeq(p, 1, i) /\ SubSeq(p, 1, Len(p)) = p
<1>1. p \in Seq(Names) /\ Len(p) \in Nat /\ p \in [1 .. Len(p) -> Names] /\ i \in Nat /\ p[i] \in Names
  BY PathFacts
<1>2. /\ SubSeq(p, 1, i - 1) \in Seq(Names) /\ Len(SubSeq(p, 1, i - 1)) = i - 1
      /\ \A j \in 1 .. i - 1 : SubSeq(p, 1, i - 1)[j] = p[j]
  BY <1>1, SubSeqProperties
<1>3. SubSeq(p, 1, i) = SubSeq(p, 1, i - 1) \o <<p[i]>>
  BY <1>1, SubSeqRecursiveSecond
<1>4. Append(SubSeq(p, 1, i - 1), p[i]) = SubSeq(p, 1, i)
  BY <1>1, <1>2, <1>3, AppendIsConcat
<1>5. SubSeq(p, 1, Len(p)) = p
  BY <1>1, SubSeqFull
<1> QED BY <1>1, <1>2, <1>4, <1>5

--------------------------------------------------------------------------------
(* Files that can be singled out.                                             *)

\* The search for one component finds the name in such a file, and no other.
LEMMA Single ==
  ASSUME TypeOK, \A f \in disk : Rooted(f, disk), NEW file \in disk, SingledOut(file), NEW i \in 1 .. Len(file)
  PROVE  LET s == encode[file[i]]
             dir == SubSeq(file, 1, i - 1)
         IN /\ s \notin Questions /\ decode[s] \in Entries(dir) => decode[s] = file[i]
            /\ ~(s \notin Questions /\ decode[s] \in Entries(dir)) => { n \in Entries(dir) : encode[n] = s } = {file[i]}
<1> DEFINE s == encode[file[i]]
           dir == SubSeq(file, 1, i - 1)
<1>1. file \in Paths /\ file[i] \in Names /\ Append(dir, file[i]) = SubSeq(file, 1, i) /\ SubSeq(file, 1, Len(file)) = file
      /\ Len(file) \in Nat
  BY PrefixFacts, PathFacts DEF TypeOK
<1>2. file[i] \in Entries(dir)
  <2>1. SubSeq(file, 1, i) \in disk
    <3>1. CASE i = Len(file)
      BY <1>1, <3>1
    <3>2. CASE i # Len(file)
      <4>1. i \in 1 .. Len(file) - 1
        <5>1. Len(file) \in Nat
          BY <1>1
        <5> QED BY <3>2, <5>1
      <4> QED BY <4>1 DEF Rooted
    <3> QED BY <3>1, <3>2
  <2> QED BY <1>1, <2>1 DEF Entries
<1>3. \/ s \notin Questions /\ decode[s] = file[i]
      \/ { n \in Entries(dir) : encode[n] = s } = {file[i]}
  BY DEF SingledOut
<1>4. s \notin Questions => encode[decode[s]] = s
  BY <1>1, PathAssumption
<1> QED BY <1>2, <1>3, <1>4

\* A file that the decoded path names is not passed over for another.
LEMMA DecodedOpens ==
  ASSUME TypeOK, \A f \in disk : Rooted(f, disk), NEW a \in AnsiPaths, ~HasQuestion(a), Decoded(a) \in disk,
         NEW file \in Candidates(a), SingledOut(file)
  PROVE  file = Decoded(a)
<1> DEFINE d == Decoded(a)
<1>1. file \in disk /\ file \in Paths /\ Encoded(file) = a
  BY DEF Candidates, TypeOK
<1>2. Len(file) = Len(a) /\ Len(a) \in Nat /\ \A i \in 1 .. Len(a) : encode[file[i]] = a[i]
  BY <1>1, EncodedFacts, PathFacts
<1>3. d \in Paths /\ Len(d) = Len(a)
      /\ \A i \in 1 .. Len(a) : d[i] = decode[a[i]] /\ d[i] \in Names /\ encode[d[i]] = a[i]
  BY DecodedFacts
<1>4. \A i \in 1 .. Len(a) : SubSeq(d, 1, i) \in disk
  <2>1. ASSUME NEW i \in 1 .. Len(a) PROVE SubSeq(d, 1, i) \in disk
    <3>1. CASE i = Len(a)
      BY <1>3, <2>1, <3>1, PrefixFacts
    <3>2. CASE i # Len(a)
      <4>1. i \in 1 .. Len(d) - 1
        BY <1>2, <1>3, <3>2
      <4> QED BY <4>1 DEF Rooted
    <3> QED BY <3>1, <3>2
  <2> QED BY <2>1
<1> DEFINE Differ == { i \in 1 .. Len(a) : file[i] # d[i] }
<1>5. CASE Differ # {}
  <2>1. Differ \in SUBSET Nat
    BY <1>2
  <2>2. PICK n \in Differ : \A m \in Differ : n <= m
    <3> HIDE DEF Differ
    <3> QED BY <1>5, <2>1, Least
  <2>3. n \in 1 .. Len(a) /\ file[n] # d[n] /\ \A j \in 1 .. n - 1 : file[j] = d[j]
    BY <1>2, <2>2
  <2> DEFINE dir == SubSeq(file, 1, n - 1)
  <2>4. dir = SubSeq(d, 1, n - 1)
    <3>1. /\ dir \in Seq(Names) /\ SubSeq(d, 1, n - 1) \in Seq(Names) /\ Len(dir) = n - 1 /\ Len(SubSeq(d, 1, n - 1)) = n - 1
          /\ \A j \in 1 .. n - 1 : dir[j] = file[j] /\ SubSeq(d, 1, n - 1)[j] = d[j]
      <4> HIDE DEF d
      <4> QED BY <1>1, <1>2, <1>3, <2>3, PrefixFacts
    <3> HIDE DEF d, dir
    <3> QED BY <2>3, <3>1, SeqEqual
  <2>5. d[n] \in Entries(dir)
    <3>1. Append(SubSeq(d, 1, n - 1), d[n]) \in disk
      <4> HIDE DEF d
      <4> QED BY <1>3, <1>4, <2>3, PrefixFacts
    <3> QED BY <1>3, <2>3, <2>4, <3>1 DEF Entries
  <2>6. encode[d[n]] = encode[file[n]]
    BY <1>2, <1>3, <2>3
  <2>7. \/ decode[encode[file[n]]] = file[n]
        \/ { m \in Entries(dir) : encode[m] = encode[file[n]] } = {file[n]}
    BY <1>2, <2>3 DEF SingledOut
  <2> QED BY <1>2, <1>3, <2>3, <2>5, <2>6, <2>7
<1>6. CASE Differ = {}
  <2>1. \A i \in 1 .. Len(a) : file[i] = d[i]
    BY <1>6
  <2>2. file = d
    <3>1. file \in Seq(Names) /\ d \in Seq(Names) /\ Len(file) = Len(d)
      BY <1>1, <1>2, <1>3, PathFacts
    <3> HIDE DEF d
    <3> QED BY <1>2, <2>1, <3>1, SeqEqual
  <2> QED BY <2>2
<1> QED BY <1>5, <1>6

--------------------------------------------------------------------------------
(* Steps.                                                                     *)

Alone(t) == thread' \in [Threads -> CallRecords] /\ \A u \in Threads \ {t} : thread'[u] = thread[u]

LEMMA ThreadFacts ==
  ASSUME TypeOK
  PROVE  /\ thread \in [Threads -> CallRecords] /\ disk \subseteq Paths
         /\ gWidePathCache \in [AnsiPaths -> Paths \union {None, Absent}]
BY DEF TypeOK, CallRecords

LEMMA SameFacts ==
  ASSUME UNCHANGED disk
  PROVE  /\ \A p : Candidates(p)' = Candidates(p)
         /\ \A file : SingledOut(file)' <=> SingledOut(file)
         /\ \A file : Rooted(file, disk)' <=> Rooted(file, disk)
<1>1. \A p : Candidates(p)' = Candidates(p)
  BY DEF Candidates
<1>2. \A dir : Entries(dir)' = Entries(dir)
  BY DEF Entries
<1>3. \A file : SingledOut(file)' <=> SingledOut(file)
  BY <1>2 DEF SingledOut
<1> QED BY <1>1, <1>3 DEF Rooted

\* A step of one thread, with the disk as it is.
LEMMA Assemble ==
  ASSUME IInv, NEW t \in Threads, Alone(t), UNCHANGED <<disk, changed>>,
         gWidePathCache' \in [AnsiPaths -> Paths \union {None, Absent}], CacheInv', CallInv(thread[t])'
  PROVE  IInv'
<1>1. TypeOK'
  BY DEF IInv, TypeOK, Alone, CallRecords
<1>2. /\ \A p : Candidates(p)' = Candidates(p)
      /\ \A file : SingledOut(file)' <=> SingledOut(file)
  BY SameFacts
<1>3. DiskInv'
  BY DEF IInv, DiskInv, Rooted
<1>4. ASSUME NEW u \in Threads PROVE CallInv(thread[u])'
  <2>1. CASE u = t
    BY <2>1
  <2>2. CASE u # t
    <3>1. thread'[u] = thread[u] /\ CallInv(thread[u])
      BY <2>2 DEF Alone, IInv
    <3>2. Shape(thread[u])' /\ Plain(thread[u])'
      BY <3>1 DEF CallInv, Shape, Plain
    <3>3. Reaches(thread[u])'
      BY <1>2, <3>1 DEF CallInv, Reaches
    <3> QED BY <3>2, <3>3 DEF CallInv
  <2> QED BY <2>1, <2>2
<1> QED BY <1>1, <1>3, <1>4 DEF IInv

LEMMA CacheSame == ASSUME IInv, UNCHANGED <<disk, changed, gWidePathCache>>
                   PROVE  CacheInv' /\ gWidePathCache' \in [AnsiPaths -> Paths \union {None, Absent}]
BY SameFacts DEF IInv, TypeOK, CacheInv

LEMMA CreateFileAInv == ASSUME IInv, NEW t \in Threads, NEW path \in AnsiPaths, CreateFileA(t, path) PROVE IInv'
<1> DEFINE opens == ~HasQuestion(path) /\ Decoded(path) \in disk
           at == IF HasQuestion(path) THEN "lookup" ELSE IF Decoded(path) \in disk THEN "opened" ELSE "legacy"
           opened == IF ~HasQuestion(path) /\ Decoded(path) \in disk THEN Decoded(path) ELSE None
<1>1. TypeOK /\ Shape(thread[t]) /\ thread[t].at = "idle" /\ UNCHANGED <<disk, changed, gWidePathCache>>
      /\ thread' = [thread EXCEPT ![t].path = path, ![t].at = at, ![t].opened = opened]
  BY DEF IInv, CallInv, CreateFileA
<1>2. thread[t] \in CallRecords /\ thread \in [Threads -> CallRecords] /\ Len(path) \in 1 .. Depth /\ Depth \in Nat
  BY <1>1, ThreadFacts, PathFacts
<1>3. at \in Steps /\ opened \in Paths \union {None}
  BY <1>1 DEF Steps, TypeOK
<1>4. \/ at = "lookup" /\ HasQuestion(path)
      \/ at = "opened" /\ opens /\ opened = Decoded(path)
      \/ at = "legacy" /\ ~HasQuestion(path) /\ Decoded(path) \notin disk
  OBVIOUS
<1> HIDE DEF at, opened
<1>5. Alone(t)
  BY <1>1, <1>2, <1>3 DEF Alone, CallRecords
<1>6. /\ thread'[t].at = at /\ thread'[t].path = path /\ thread'[t].opened = opened
      /\ thread'[t].component = 1 /\ thread'[t].settled_path = None
  BY <1>1, <1>2 DEF CallRecords, Shape
<1>7. Len(None) = 0
  BY EmptySeq DEF None
<1>8. Shape(thread[t])'
  BY <1>2, <1>4, <1>6, <1>7 DEF Shape
<1>9. Plain(thread[t])'
  BY <1>4, <1>6, <1>7, DecodedFacts DEF Plain
<1>10. Reaches(thread[t])'
  <2> SUFFICES ASSUME ~changed, NEW file \in Candidates(path), SingledOut(file)
               PROVE  at = "opened" => opened = file
    BY <1>1, <1>4, <1>6, SameFacts DEF Reaches
  <2>1. \A f \in disk : Rooted(f, disk)
    BY DEF IInv, DiskInv
  <2> QED BY <1>1, <1>4, <2>1, DecodedOpens
<1> QED BY <1>1, <1>5, <1>8, <1>9, <1>10, CacheSame, Assemble DEF CallInv

LEMMA LookupCacheInv == ASSUME IInv, NEW t \in Threads, LookupCache(t) PROVE IInv'
<1>p. PICK path : path = thread[t].path
  OBVIOUS
<1>c. PICK cached : cached = gWidePathCache[path]
  OBVIOUS
<1>1. /\ TypeOK /\ Shape(thread[t]) /\ thread[t].at = "lookup" /\ UNCHANGED <<disk, changed, gWidePathCache>>
      /\ IF cached = Absent THEN Go(t, "resolve")
         ELSE thread' = [thread EXCEPT ![t].at = "open", ![t].settled_path = cached]
  BY <1>p, <1>c DEF IInv, CallInv, LookupCache
<1>2. /\ thread[t] \in CallRecords /\ thread \in [Threads -> CallRecords] /\ path \in AnsiPaths /\ HasQuestion(path)
      /\ thread[t].component = 1 /\ thread[t].settled_path = None /\ Len(path) \in Nat /\ Len(None) = 0
  BY <1>p, <1>1, ThreadFacts, PathFacts, EmptySeq DEF Shape, None
<1>3. CASE cached = Absent
  <2>1. thread' = [thread EXCEPT ![t].at = "resolve"] /\ "resolve" \in Steps
    BY <1>1, <1>3 DEF Go, Steps
  <2>2. Alone(t)
    BY <1>2, <2>1 DEF Alone, CallRecords
  <2>3. thread'[t].at = "resolve" /\ thread'[t].path = path /\ thread'[t].component = 1 /\ thread'[t].settled_path = None
    BY <1>p, <1>2, <2>1 DEF CallRecords
  <2>4. Shape(thread[t])' /\ Plain(thread[t])'
    BY <1>2, <2>3 DEF Shape, Plain
  <2>5. Reaches(thread[t])'
    <3>1. \A file : SubSeq(file, 1, 1 - 1) = None
      BY SubSeqEmpty DEF None
    <3> QED BY <2>3, <3>1 DEF Reaches
  <2> QED BY <1>1, <2>2, <2>4, <2>5, CacheSame, Assemble DEF CallInv
<1>4. CASE cached # Absent
  <2>1. thread' = [thread EXCEPT ![t].at = "open", ![t].settled_path = cached] /\ "open" \in Steps
        /\ cached \in Paths \union {None}
    BY <1>c, <1>1, <1>2, <1>4, ThreadFacts DEF Steps
  <2>2. Alone(t)
    BY <1>2, <2>1 DEF Alone, CallRecords
  <2>3. thread'[t].at = "open" /\ thread'[t].path = path /\ thread'[t].settled_path = cached
    BY <1>p, <1>2, <2>1 DEF CallRecords
  <2>4. Shape(thread[t])' /\ Plain(thread[t])'
    BY <1>2, <2>3 DEF Shape, Plain
  <2>5. Reaches(thread[t])'
    BY <1>c, <1>1, <1>2, <1>4, <2>3, SameFacts DEF Reaches, IInv, CacheInv
  <2> QED BY <1>1, <2>2, <2>4, <2>5, CacheSame, Assemble DEF CallInv
<1> QED BY <1>3, <1>4

\* One more name is appended.
LEMMA ComponentFacts ==
  ASSUME IInv, NEW t \in Threads, thread[t].at \in {"resolve", "legacy"}, ~Last(t), NEW name \in Names,
         thread' = [thread EXCEPT ![t].component = @ + 1, ![t].settled_path = Append(@, name)]
  PROVE  /\ Alone(t) /\ Shape(thread[t])'
         /\ thread'[t].at = thread[t].at /\ thread'[t].path = thread[t].path
         /\ thread'[t].component = thread[t].component + 1
         /\ thread'[t].settled_path = Append(thread[t].settled_path, name)
         /\ thread[t].path \in AnsiPaths /\ thread[t].component \in 1 .. Len(thread[t].path)
         /\ Len(thread[t].path) \in Nat /\ thread[t].settled_path \in Seq(Names)
<1>p. PICK path : path = thread[t].path
  OBVIOUS
<1>s. PICK settled : settled = thread[t].settled_path
  OBVIOUS
<1>k. PICK k : k = thread[t].component
  OBVIOUS
<1>1. TypeOK /\ Shape(thread[t])
  BY DEF IInv, CallInv
<1>2. /\ thread[t] \in CallRecords /\ thread \in [Threads -> CallRecords] /\ path \in AnsiPaths /\ k \in Nat
      /\ settled \in Paths \union {None} /\ k \in 1 .. Depth + 1 /\ k <= Len(path) /\ Len(settled) < k
  <2>1. Len(thread[t].path) \in 1 .. Depth /\ Depth \in Nat /\ thread[t].path \in AnsiPaths
    BY <1>1, ThreadFacts, PathFacts DEF CallRecords, Shape
  <2> QED BY <1>p, <1>s, <1>k, <1>1, <2>1, ThreadFacts, PathFacts DEF CallRecords, Shape, Last
<1>3. Len(path) \in 1 .. Depth /\ Depth \in Nat /\ settled \in Seq(Names) /\ Len(settled) \in Nat
  BY <1>2, PathFacts
<1> DEFINE longer == Append(settled, name)
<1>4. longer \in Seq(Names) /\ Len(longer) = Len(settled) + 1 /\ longer[Len(settled) + 1] = name
      /\ \A i \in 1 .. Len(settled) : longer[i] = settled[i]
  BY <1>3, AppendProperties
<1> HIDE DEF longer
<1>5. longer \in Paths
  <2>1. Len(longer) \in 1 .. Depth
    BY <1>2, <1>3, <1>4
  <2> QED BY <1>4, <2>1, PathFacts
<1>6. thread' = [thread EXCEPT ![t].component = k + 1, ![t].settled_path = longer] /\ k + 1 \in 1 .. Depth + 1
  BY <1>s, <1>k, <1>2, <1>3 DEF longer
<1>7. Alone(t)
  <2>1. [thread[t] EXCEPT !.component = k + 1, !.settled_path = longer] \in CallRecords
    BY <1>2, <1>5, <1>6 DEF CallRecords
  <2>2. thread' = [thread EXCEPT ![t] = [thread[t] EXCEPT !.component = k + 1, !.settled_path = longer]]
    BY <1>2, <1>6
  <2> QED BY <1>2, <2>1, <2>2 DEF Alone
<1>8. thread'[t].at = thread[t].at /\ thread'[t].path = path /\ thread'[t].component = k + 1
      /\ thread'[t].settled_path = longer
  BY <1>p, <1>2, <1>6 DEF CallRecords
<1>9. Shape(thread[t])'
  BY <1>2, <1>3, <1>4, <1>8 DEF Shape
<1> QED BY <1>p, <1>s, <1>k, <1>2, <1>3, <1>7, <1>8, <1>9 DEF longer

\* A call that is to open what it has.
LEMMA ToOpenFacts ==
  ASSUME IInv, NEW t \in Threads, thread[t].at # "idle", NEW step \in {"store", "open"},
         NEW settled \in Paths \union {None}, thread' = [thread EXCEPT ![t].at = step, ![t].settled_path = settled],
         step = "store" => HasQuestion(thread[t].path),
         ~HasQuestion(thread[t].path) => Encoded(settled) = thread[t].path,
         UNCHANGED <<disk, changed>>,
         ~changed => \A file \in Candidates(thread[t].path) : SingledOut(file) => settled = file
  PROVE  Alone(t) /\ CallInv(thread[t])'
<1>1. TypeOK /\ Shape(thread[t]) /\ step \in Steps
  BY DEF IInv, CallInv, Steps
<1>2. thread[t] \in CallRecords /\ thread \in [Threads -> CallRecords]
  BY <1>1, ThreadFacts
<1>3. Alone(t)
  BY <1>1, <1>2 DEF Alone, CallRecords
<1>4. thread'[t].at = step /\ thread'[t].settled_path = settled /\ thread'[t].path = thread[t].path
  BY <1>2 DEF CallRecords
<1>5. Shape(thread[t])' /\ Plain(thread[t])'
  BY <1>1, <1>4 DEF Shape, Plain
<1>6. Reaches(thread[t])'
  BY <1>4, SameFacts DEF Reaches
<1> QED BY <1>3, <1>5, <1>6 DEF CallInv

\* A call that begins again at the first component.
LEMMA RestartFacts ==
  ASSUME IInv, NEW t \in Threads, thread[t].at # "idle", NEW step \in {"resolve", "legacy"}, Restart(t, step),
         UNCHANGED <<disk, changed>>,
         step = "legacy" => /\ HasQuestion(thread[t].path)
                            /\ ~changed => \A file \in Candidates(thread[t].path) : ~SingledOut(file)
  PROVE  Alone(t) /\ CallInv(thread[t])'
<1>1. TypeOK /\ Shape(thread[t]) /\ step \in Steps /\ 1 \in 1 .. Depth + 1
  BY PathFacts DEF IInv, CallInv, Steps
<1>2. thread[t] \in CallRecords /\ thread \in [Threads -> CallRecords]
      /\ thread' = [thread EXCEPT ![t].at = step, ![t].component = 1, ![t].settled_path = None]
  BY <1>1, ThreadFacts DEF Restart
<1>3. Alone(t)
  BY <1>1, <1>2 DEF Alone, CallRecords
<1>4. /\ thread'[t].at = step /\ thread'[t].settled_path = None /\ thread'[t].path = thread[t].path
      /\ thread'[t].component = 1
  BY <1>2 DEF CallRecords
<1>5. thread[t].path \in AnsiPaths /\ Len(thread[t].path) \in Nat /\ Len(None) = 0
  BY <1>1, PathFacts, EmptySeq DEF Shape, None
<1>6. Shape(thread[t])' /\ Plain(thread[t])'
  BY <1>4, <1>5 DEF Shape, Plain
<1>7. Reaches(thread[t])'
  <2>1. \A file : SubSeq(file, 1, 1 - 1) = None
    BY SubSeqEmpty DEF None
  <2> QED BY <1>4, <2>1, SameFacts DEF Reaches
<1> QED BY <1>3, <1>6, <1>7 DEF CallInv

\* What is found for the next component of a file that can be singled out.
LEMMA FoundFacts ==
  ASSUME IInv, NEW t \in Threads, thread[t].at = "resolve", ~Last(t)
  PROVE  /\ \A name \in Found(t) : name \in Names /\ encode[name] = Leaf(t)
         /\ ~changed => \A file \in Candidates(thread[t].path) : SingledOut(file) => Found(t) = {file[thread[t].component]}
<1> DEFINE path == thread[t].path
           k == thread[t].component
<1>1. TypeOK /\ Shape(thread[t]) /\ Reaches(thread[t]) /\ path \in AnsiPaths /\ k \in Nat \ {0}
  BY ThreadFacts, PathFacts DEF IInv, CallInv, Shape, CallRecords
<1>2. path \in [1 .. Len(path) -> Spellings] /\ k \in 1 .. Len(path) /\ Len(path) \in Nat
  BY <1>1, PathFacts DEF Last
<1>3. Leaf(t) \in Spellings /\ Leaf(t) = path[k]
  BY <1>2 DEF Leaf
<1>4. \A name \in Found(t) : name \in Names /\ encode[name] = Leaf(t)
  BY <1>3, PathAssumption DEF Found, Entries
<1>5. ASSUME ~changed, NEW file \in Candidates(path), SingledOut(file) PROVE Found(t) = {file[k]}
  <2>1. file \in disk /\ file \in Paths /\ Encoded(file) = path /\ \A f \in disk : Rooted(f, disk)
    BY <1>1, <1>5 DEF Candidates, TypeOK, IInv, DiskInv
  <2>2. k \in 1 .. Len(file) /\ encode[file[k]] = Leaf(t)
    BY <1>1, <1>2, <1>3, <2>1, EncodedFacts
  <2>3. thread[t].settled_path = SubSeq(file, 1, k - 1)
    BY <1>1, <1>5 DEF Reaches
  <2> DEFINE s == Leaf(t)
             dir == thread[t].settled_path
  <2>4. /\ s \notin Questions /\ decode[s] \in Entries(dir) => decode[s] = file[k]
        /\ ~(s \notin Questions /\ decode[s] \in Entries(dir)) => { n \in Entries(dir) : encode[n] = s } = {file[k]}
    <3>1. PICK i \in 1 .. Len(file) : i = k
      BY <2>2
    <3>2. s = encode[file[i]] /\ dir = SubSeq(file, 1, i - 1)
      BY <2>2, <2>3, <3>1
    <3> HIDE DEF s, dir
    <3> QED BY <1>1, <1>5, <2>1, <3>1, <3>2, Single
  <2> QED BY <2>4 DEF Found
<1> QED BY <1>4, <1>5

LEMMA ResolveAnsiPathCollisionInv == ASSUME IInv, NEW t \in Threads, ResolveAnsiPathCollision(t) PROVE IInv'
<1>p. PICK path : path = thread[t].path
  OBVIOUS
<1>s. PICK settled : settled = thread[t].settled_path
  OBVIOUS
<1>k. PICK k : k = thread[t].component
  OBVIOUS
<1>1. /\ TypeOK /\ Shape(thread[t]) /\ Plain(thread[t]) /\ Reaches(thread[t]) /\ thread[t].at = "resolve"
      /\ UNCHANGED <<disk, changed, gWidePathCache>>
  BY DEF IInv, CallInv, ResolveAnsiPathCollision
<1>2. /\ path \in AnsiPaths /\ settled \in Paths \union {None} /\ k \in Nat \ {0} /\ k <= Len(path) + 1 /\ Len(path) \in Nat
      /\ thread[t] \in CallRecords /\ thread \in [Threads -> CallRecords]
  BY <1>p, <1>s, <1>k, <1>1, ThreadFacts, PathFacts DEF Shape, CallRecords
<1>3. SUFFICES Alone(t) /\ CallInv(thread[t])'
  BY <1>1, CacheSame, Assemble
<1>4. CASE Last(t)
  <2>1. PICK step \in {"store", "open"} : step = IF HasQuestion(path) THEN "store" ELSE "open"
    OBVIOUS
  <2>2. thread' = [thread EXCEPT ![t].at = step]
    BY <1>p, <1>1, <1>4, <2>1 DEF ResolveAnsiPathCollision, Go
  <2>3. thread' = [thread EXCEPT ![t].at = step, ![t].settled_path = settled]
    <3>1. [thread[t] EXCEPT !.at = step] = [thread[t] EXCEPT !.at = step, !.settled_path = settled]
      BY <1>s, <1>2 DEF CallRecords
    <3> QED BY <1>2, <2>2, <3>1
  <2>4. k = Len(path) + 1
    BY <1>p, <1>k, <1>2, <1>4 DEF Last
  <2>5. ~HasQuestion(path) => Encoded(settled) = path
    BY <1>p, <1>s, <1>k, <1>1, <1>2, <2>4, EncodedFacts DEF Plain
  <2>6. ASSUME ~changed, NEW file \in Candidates(path), SingledOut(file) PROVE settled = file
    <3>1. settled = SubSeq(file, 1, k - 1)
      BY <1>p, <1>s, <1>k, <1>1, <2>6 DEF Reaches
    <3>2. file \in Paths /\ Len(file) = Len(path)
      BY <1>1, <1>2, <2>6, EncodedFacts DEF Candidates, TypeOK
    <3>3. SubSeq(file, 1, Len(file)) = file
      BY <3>2, PathFacts, SubSeqFull
    <3> QED BY <1>2, <2>4, <3>1, <3>2, <3>3
  <2> QED BY <1>p, <1>1, <1>2, <2>1, <2>3, <2>5, <2>6, ToOpenFacts
<1>5. CASE ~Last(t) /\ Cardinality(Found(t)) = 1
  <2>1. PICK name \in Found(t) : thread' = [thread EXCEPT ![t].component = @ + 1, ![t].settled_path = Append(@, name)]
    BY <1>1, <1>5 DEF ResolveAnsiPathCollision, Component
  <2>2. name \in Names /\ encode[name] = path[k]
    BY <1>p, <1>k, <1>1, <1>5, FoundFacts DEF Leaf
  <2> DEFINE longer == Append(settled, name)
  <2>3. /\ Alone(t) /\ Shape(thread[t])'
        /\ thread'[t].at = "resolve" /\ thread'[t].path = path /\ thread'[t].component = k + 1
        /\ thread'[t].settled_path = longer /\ k \in 1 .. Len(path) /\ Len(settled) \in Nat
        /\ Len(longer) = Len(settled) + 1 /\ longer[Len(settled) + 1] = name
        /\ \A i \in 1 .. Len(settled) : longer[i] = settled[i]
    <3>1. /\ Alone(t) /\ Shape(thread[t])'
          /\ thread'[t].at = thread[t].at /\ thread'[t].path = thread[t].path
          /\ thread'[t].component = thread[t].component + 1
          /\ thread'[t].settled_path = Append(thread[t].settled_path, name)
          /\ thread[t].component \in 1 .. Len(thread[t].path) /\ thread[t].settled_path \in Seq(Names)
      BY <1>1, <1>5, <2>1, <2>2, ComponentFacts
    <3>2. settled \in Seq(Names) /\ Len(settled) \in Nat
      BY <1>s, <3>1, LenProperties
    <3>3. Len(longer) = Len(settled) + 1 /\ longer[Len(settled) + 1] = name
          /\ \A i \in 1 .. Len(settled) : longer[i] = settled[i]
      BY <2>2, <3>2, AppendProperties
    <3> HIDE DEF longer
    <3>4. thread'[t].settled_path = longer
      BY <1>s, <3>1 DEF longer
    <3> QED BY <1>p, <1>k, <1>1, <3>1, <3>2, <3>3, <3>4
  <2> HIDE DEF longer
  <2>4. Plain(thread[t])'
    <3> SUFFICES ASSUME ~HasQuestion(path)
                 PROVE  Len(longer) = k /\ \A i \in 1 .. k : encode[longer[i]] = path[i]
      BY <1>2, <2>3 DEF Plain
    <3>1. Len(settled) = k - 1 /\ \A i \in 1 .. k - 1 : encode[settled[i]] = path[i]
      BY <1>p, <1>s, <1>k, <1>1 DEF Plain
    <3> QED BY <1>2, <2>2, <2>3, <3>1
  <2>5. Reaches(thread[t])'
    <3> SUFFICES ASSUME ~changed, NEW file \in Candidates(path), SingledOut(file)
                 PROVE  longer = SubSeq(file, 1, k)
      BY <1>1, <1>2, <2>3, SameFacts DEF Reaches
    <3>1. settled = SubSeq(file, 1, k - 1) /\ name = file[k]
      BY <1>p, <1>s, <1>k, <1>1, <1>5, <2>1, FoundFacts DEF Reaches
    <3>2. file \in Paths /\ Len(file) = Len(path)
      BY <1>1, <1>2, EncodedFacts DEF Candidates, TypeOK
    <3> QED BY <2>3, <3>1, <3>2, PrefixFacts DEF longer
  <2> QED BY <2>3, <2>4, <2>5 DEF CallInv
<1>6. CASE ~Last(t) /\ Cardinality(Found(t)) # 1
  <2>1. ~changed => \A file \in Candidates(path) : ~SingledOut(file)
    BY <1>p, <1>1, <1>6, FoundFacts, FS_Singleton
  <2>2. CASE HasQuestion(path)
    <3>1. Restart(t, "legacy")
      BY <1>p, <1>1, <1>6, <2>2 DEF ResolveAnsiPathCollision
    <3> QED BY <1>p, <1>1, <2>1, <2>2, <3>1, RestartFacts
  <2>3. CASE ~HasQuestion(path)
    <3>1. thread' = [thread EXCEPT ![t].at = "open", ![t].settled_path = Decoded(path)]
      BY <1>p, <1>1, <1>6, <2>3 DEF ResolveAnsiPathCollision
    <3>2. Decoded(path) \in Paths /\ Encoded(Decoded(path)) = path
      BY <1>2, <2>3, DecodedFacts
    <3> QED BY <1>p, <1>1, <2>1, <2>3, <3>1, <3>2, ToOpenFacts
  <2> QED BY <2>2, <2>3
<1> QED BY <1>4, <1>5, <1>6

LEMMA LegacyInv == ASSUME IInv, NEW t \in Threads, Legacy(t) PROVE IInv'
<1>p. PICK path : path = thread[t].path
  OBVIOUS
<1>s. PICK settled : settled = thread[t].settled_path
  OBVIOUS
<1>k. PICK k : k = thread[t].component
  OBVIOUS
<1> DEFINE hits == Entries(settled) \intersect matches[Leaf(t)]
<1>1. /\ TypeOK /\ Shape(thread[t]) /\ Plain(thread[t]) /\ Reaches(thread[t]) /\ thread[t].at = "legacy" /\ ~Last(t)
      /\ UNCHANGED <<disk, changed, gWidePathCache>>
      /\ IF Leaf(t) \notin Questions THEN Component(t, {decode[Leaf(t)]})
         ELSE IF hits # {} THEN Component(t, hits)
         ELSE thread' = [thread EXCEPT ![t].component = @ + 1]
  BY <1>s DEF IInv, CallInv, Legacy
<1>2. /\ path \in AnsiPaths /\ k \in 1 .. Len(path) /\ Len(path) \in Nat /\ path \in [1 .. Len(path) -> Spellings]
      /\ thread[t] \in CallRecords /\ thread \in [Threads -> CallRecords] /\ Len(path) \in 1 .. Depth /\ Depth \in Nat
      /\ Len(settled) < k /\ settled \in Paths \union {None} /\ Len(settled) \in Nat
  BY <1>p, <1>s, <1>k, <1>1, ThreadFacts, PathFacts DEF Shape, CallRecords, Last
<1>3. Leaf(t) = path[k] /\ Leaf(t) \in Spellings
  BY <1>p, <1>k, <1>2 DEF Leaf
<1>4. SUFFICES Alone(t) /\ CallInv(thread[t])'
  BY <1>1, CacheSame, Assemble
<1>5. ASSUME thread'[t].at = "legacy", thread'[t].path = path PROVE Reaches(thread[t])'
  BY <1>p, <1>1, <1>5, SameFacts DEF Reaches
<1>6. CASE Leaf(t) \notin Questions
  <2> DEFINE name == decode[Leaf(t)]
             longer == Append(settled, name)
  <2>1. thread' = [thread EXCEPT ![t].component = @ + 1, ![t].settled_path = Append(@, name)]
        /\ name \in Names /\ encode[name] = path[k]
    BY <1>1, <1>3, <1>6, PathAssumption DEF Component
  <2> HIDE DEF name
  <2>2. /\ Alone(t) /\ Shape(thread[t])'
        /\ thread'[t].at = thread[t].at /\ thread'[t].path = thread[t].path
        /\ thread'[t].component = thread[t].component + 1
        /\ thread'[t].settled_path = Append(thread[t].settled_path, name)
        /\ thread[t].component \in 1 .. Len(thread[t].path) /\ thread[t].settled_path \in Seq(Names)
    BY <1>1, <2>1, ComponentFacts
  <2>3. Len(longer) = Len(settled) + 1 /\ longer[Len(settled) + 1] = name
        /\ \A i \in 1 .. Len(settled) : longer[i] = settled[i]
    BY <1>s, <2>1, <2>2, AppendProperties
  <2> HIDE DEF longer
  <2>4. thread'[t].settled_path = longer /\ thread'[t].component = k + 1 /\ thread'[t].path = path
        /\ thread'[t].at = "legacy"
    BY <1>p, <1>s, <1>k, <1>1, <2>2 DEF longer
  <2>5. Plain(thread[t])'
    <3> SUFFICES ASSUME ~HasQuestion(path)
                 PROVE  Len(longer) = k /\ \A i \in 1 .. k : encode[longer[i]] = path[i] /\ longer[i] = decode[path[i]]
      BY <1>2, <2>4 DEF Plain
    <3>1. Len(settled) = k - 1
          /\ \A i \in 1 .. k - 1 : encode[settled[i]] = path[i] /\ settled[i] = decode[path[i]]
      BY <1>p, <1>s, <1>k, <1>1 DEF Plain
    <3> QED BY <1>2, <1>3, <2>1, <2>3, <3>1 DEF name
  <2> QED BY <1>5, <2>2, <2>4, <2>5 DEF CallInv
<1>7. CASE Leaf(t) \in Questions
  <2>1. HasQuestion(path)
    BY <1>2, <1>3, <1>7 DEF HasQuestion
  <2>2. CASE hits # {}
    <3>1. PICK name \in hits : thread' = [thread EXCEPT ![t].component = @ + 1, ![t].settled_path = Append(@, name)]
      BY <1>1, <1>7, <2>2 DEF Component
    <3>2. name \in Names
      BY DEF Entries
    <3>3. /\ Alone(t) /\ Shape(thread[t])' /\ thread'[t].at = "legacy" /\ thread'[t].path = path
      BY <1>p, <1>1, <3>1, <3>2, ComponentFacts
    <3>4. Plain(thread[t])'
      BY <2>1, <3>3 DEF Plain
    <3> QED BY <1>5, <3>3, <3>4 DEF CallInv
  <2>3. CASE hits = {}
    <3>1. thread' = [thread EXCEPT ![t].component = k + 1]
      BY <1>k, <1>1, <1>2, <1>7, <2>3
    <3>2. k + 1 \in 1 .. Depth + 1
      BY <1>2
    <3>3. Alone(t)
      BY <1>2, <3>1, <3>2 DEF Alone, CallRecords
    <3>4. thread'[t].at = "legacy" /\ thread'[t].path = path /\ thread'[t].component = k + 1
          /\ thread'[t].settled_path = settled
      BY <1>p, <1>s, <1>1, <1>2, <3>1 DEF CallRecords
    <3>5. Shape(thread[t])'
      BY <1>2, <3>4 DEF Shape
    <3>6. Plain(thread[t])'
      BY <2>1, <3>4 DEF Plain
    <3> QED BY <1>5, <3>3, <3>4, <3>5, <3>6 DEF CallInv
  <2> QED BY <2>2, <2>3
<1> QED BY <1>6, <1>7

LEMMA LegacyReturnsInv == ASSUME IInv, NEW t \in Threads, LegacyReturns(t) PROVE IInv'
<1>p. PICK path : path = thread[t].path
  OBVIOUS
<1>s. PICK settled : settled = thread[t].settled_path
  OBVIOUS
<1>1. /\ TypeOK /\ Shape(thread[t]) /\ Plain(thread[t]) /\ Reaches(thread[t]) /\ thread[t].at = "legacy" /\ Last(t)
      /\ UNCHANGED <<disk, changed, gWidePathCache>>
      /\ IF HasQuestion(path) THEN Go(t, "store")
         ELSE IF settled \in disk THEN Go(t, "open")
         ELSE Restart(t, "resolve")
  BY <1>p, <1>s DEF IInv, CallInv, LegacyReturns
<1>2. /\ path \in AnsiPaths /\ settled \in Paths \union {None} /\ Len(path) \in Nat
      /\ thread[t] \in CallRecords /\ thread \in [Threads -> CallRecords]
  BY <1>p, <1>s, <1>1, ThreadFacts, PathFacts DEF Shape, CallRecords
<1>3. thread[t].component = Len(path) + 1
  <2>1. thread[t].component \in Nat /\ thread[t].component <= Len(path) + 1
    BY <1>p, <1>1, <1>2, PathFacts DEF Shape, CallRecords
  <2> QED BY <1>p, <1>1, <1>2, <2>1 DEF Last
<1>4. SUFFICES Alone(t) /\ CallInv(thread[t])'
  BY <1>1, CacheSame, Assemble
<1>5. ASSUME NEW step \in {"store", "open"}, Go(t, step)
      PROVE  thread' = [thread EXCEPT ![t].at = step, ![t].settled_path = settled]
  <2>1. [thread[t] EXCEPT !.at = step] = [thread[t] EXCEPT !.at = step, !.settled_path = settled]
    BY <1>s, <1>2 DEF CallRecords
  <2> QED BY <1>2, <1>5, <2>1 DEF Go
<1>6. CASE HasQuestion(path)
  <2>1. ~changed => \A file \in Candidates(path) : ~SingledOut(file)
    BY <1>p, <1>1, <1>6 DEF Reaches
  <2> QED BY <1>p, <1>1, <1>2, <1>5, <1>6, <2>1, ToOpenFacts
<1>7. CASE ~HasQuestion(path) /\ settled \in disk
  <2>1. Len(settled) = Len(path) /\ \A i \in 1 .. Len(path) : encode[settled[i]] = path[i] /\ settled[i] = decode[path[i]]
    BY <1>p, <1>s, <1>1, <1>2, <1>3, <1>7 DEF Plain
  <2>2. Encoded(settled) = path
    BY <1>2, <2>1, EncodedFacts
  <2>3. settled = Decoded(path)
    <3>1. settled \in Seq(Names) /\ Decoded(path) \in Seq(Names) /\ Len(Decoded(path)) = Len(path)
          /\ \A i \in 1 .. Len(path) : Decoded(path)[i] = decode[path[i]]
      BY <1>2, <1>7, PathFacts, DecodedFacts
    <3> QED BY <2>1, <3>1, SeqEqual
  <2>4. ~changed => \A file \in Candidates(path) : ~SingledOut(file)
    BY <1>p, <1>1, <1>7, <2>3 DEF Reaches
  <2>5. Go(t, "open")
    BY <1>1, <1>7
  <2> QED BY <1>p, <1>1, <1>2, <1>5, <1>7, <2>2, <2>4, <2>5, ToOpenFacts
<1>8. CASE ~HasQuestion(path) /\ settled \notin disk
  BY <1>p, <1>1, <1>8, RestartFacts
<1> QED BY <1>6, <1>7, <1>8

LEMMA StoreCacheInv == ASSUME IInv, NEW t \in Threads, StoreCache(t) PROVE IInv'
<1>p. PICK path : path = thread[t].path
  OBVIOUS
<1>s. PICK settled : settled = thread[t].settled_path
  OBVIOUS
<1>1. /\ TypeOK /\ Shape(thread[t]) /\ Reaches(thread[t]) /\ thread[t].at = "store" /\ CacheInv
      /\ UNCHANGED <<disk, changed>> /\ gWidePathCache' = [gWidePathCache EXCEPT ![path] = settled]
      /\ thread' = [thread EXCEPT ![t].at = "open"]
  BY <1>p, <1>s DEF IInv, CallInv, StoreCache, Go
<1>2. /\ path \in AnsiPaths /\ settled \in Paths \union {None} /\ HasQuestion(path)
      /\ thread[t] \in CallRecords /\ thread \in [Threads -> CallRecords]
      /\ gWidePathCache \in [AnsiPaths -> Paths \union {None, Absent}]
  BY <1>p, <1>s, <1>1, ThreadFacts DEF Shape, CallRecords
<1>3. thread' = [thread EXCEPT ![t].at = "open", ![t].settled_path = settled]
  <2>1. [thread[t] EXCEPT !.at = "open"] = [thread[t] EXCEPT !.at = "open", !.settled_path = settled]
    BY <1>s, <1>2 DEF CallRecords
  <2> QED BY <1>1, <1>2, <2>1
<1>4. ~changed => \A file \in Candidates(path) : SingledOut(file) => settled = file
  BY <1>p, <1>s, <1>1 DEF Reaches
<1>5. Alone(t) /\ CallInv(thread[t])'
  BY <1>p, <1>1, <1>2, <1>3, <1>4, ToOpenFacts
<1>6. CacheInv'
  <2> SUFFICES ASSUME ~changed, NEW other \in AnsiPaths, gWidePathCache'[other] # Absent,
                      NEW file \in Candidates(other), SingledOut(file)
               PROVE  gWidePathCache'[other] = file
    BY <1>1, SameFacts DEF CacheInv
  <2>1. CASE other = path
    BY <1>1, <1>2, <1>4, <2>1
  <2>2. CASE other # path
    BY <1>1, <1>2, <2>2 DEF CacheInv
  <2> QED BY <2>1, <2>2
<1>7. gWidePathCache' \in [AnsiPaths -> Paths \union {None, Absent}]
  BY <1>1, <1>2
<1> QED BY <1>1, <1>5, <1>6, <1>7, Assemble

LEMMA OpenInv == ASSUME IInv, NEW t \in Threads, Open(t) PROVE IInv'
<1>p. PICK path : path = thread[t].path
  OBVIOUS
<1>s. PICK settled : settled = thread[t].settled_path
  OBVIOUS
<1> DEFINE opened == IF settled \in disk THEN settled ELSE None
<1>1. /\ TypeOK /\ Shape(thread[t]) /\ Plain(thread[t]) /\ Reaches(thread[t]) /\ thread[t].at = "open"
      /\ UNCHANGED <<disk, changed, gWidePathCache>>
      /\ thread' = [thread EXCEPT ![t].at = "opened", ![t].opened = opened]
  BY <1>s DEF IInv, CallInv, Open
<1>2. /\ path \in AnsiPaths /\ thread[t] \in CallRecords /\ thread \in [Threads -> CallRecords]
      /\ "opened" \in Steps /\ disk \subseteq Paths
  BY <1>p, <1>1, ThreadFacts DEF Shape, Steps
<1>3. opened \in Paths \union {None} /\ (opened = None \/ opened = settled) /\ (settled \in disk => opened = settled)
  BY <1>2
<1> HIDE DEF opened
<1>4. Alone(t)
  BY <1>1, <1>2, <1>3 DEF Alone, CallRecords
<1>5. thread'[t].at = "opened" /\ thread'[t].path = path /\ thread'[t].opened = opened
  BY <1>p, <1>1, <1>2 DEF CallRecords
<1>6. Shape(thread[t])'
  BY <1>2, <1>5 DEF Shape
<1>7. Plain(thread[t])'
  BY <1>p, <1>s, <1>1, <1>3, <1>5 DEF Plain
<1>8. Reaches(thread[t])'
  <2> SUFFICES ASSUME ~changed, NEW file \in Candidates(path), SingledOut(file) PROVE opened = file
    BY <1>1, <1>5, SameFacts DEF Reaches
  <2>1. settled = file /\ file \in disk
    BY <1>p, <1>s, <1>1 DEF Reaches, Candidates
  <2> QED BY <1>3, <2>1
<1> QED BY <1>1, <1>4, <1>6, <1>7, <1>8, CacheSame, Assemble DEF CallInv

LEMMA IdleFacts == Idle \in CallRecords /\ Idle.at = "idle" /\ Idle.component = 1 /\ Idle.settled_path = None
<1>1. 1 \in 1 .. Depth + 1
  BY PathFacts
<1> QED BY <1>1 DEF Idle, CallRecords, Steps

LEMMA ReturnInv == ASSUME IInv, NEW t \in Threads, Return(t) PROVE IInv'
<1>1. TypeOK /\ UNCHANGED <<disk, changed, gWidePathCache>> /\ thread' = [thread EXCEPT ![t] = Idle]
  BY DEF IInv, Return
<1>2. Alone(t) /\ thread'[t] = Idle
  BY <1>1, ThreadFacts, IdleFacts DEF Alone
<1>3. CallInv(thread[t])'
  BY <1>2, IdleFacts DEF CallInv, Shape, Plain, Reaches
<1> QED BY <1>1, <1>2, <1>3, CacheSame, Assemble

LEMMA ChangeInv == ASSUME IInv, Change PROVE IInv'
<1>1. TypeOK /\ changed' = TRUE /\ UNCHANGED <<gWidePathCache, thread>>
  BY DEF IInv, Change
<1>2. disk' \subseteq Paths
  BY <1>1 DEF Change, TypeOK
<1>3. TypeOK'
  BY <1>1, <1>2 DEF TypeOK
<1>4. DiskInv' /\ CacheInv'
  BY <1>1 DEF DiskInv, CacheInv
<1>5. ASSUME NEW t \in Threads PROVE CallInv(thread[t])'
  <2>1. CallInv(thread[t])
    BY DEF IInv
  <2> QED BY <1>1, <2>1 DEF CallInv, Shape, Plain, Reaches
<1> QED BY <1>3, <1>4, <1>5 DEF IInv

--------------------------------------------------------------------------------
(* The invariant.                                                             *)

LEMMA InitInv == Init => IInv
<1> SUFFICES ASSUME Init PROVE IInv
  OBVIOUS
<1>1. \A t \in Threads : thread[t] = Idle
  BY DEF Init
<1>2. TypeOK
  <2>1. thread \in [Threads -> CallRecords]
    BY IdleFacts DEF Init
  <2> QED BY <2>1 DEF Init, TypeOK, CallRecords
<1>3. DiskInv /\ CacheInv
  BY DEF Init, DiskInv, CacheInv
<1>4. ASSUME NEW t \in Threads PROVE CallInv(thread[t])
  BY <1>1, IdleFacts DEF CallInv, Shape, Plain, Reaches
<1> QED BY <1>2, <1>3, <1>4 DEF IInv

LEMMA NextInv == IInv /\ [Next]_vars => IInv'
<1> SUFFICES ASSUME IInv, [Next]_vars PROVE IInv'
  OBVIOUS
<1>1. ASSUME NEW t \in Threads, NEW path \in AnsiPaths, CreateFileA(t, path) PROVE IInv'
  BY <1>1, CreateFileAInv
<1>2. ASSUME NEW t \in Threads,
             LookupCache(t) \/ ResolveAnsiPathCollision(t) \/ Legacy(t) \/ LegacyReturns(t)
      PROVE  IInv'
  BY <1>2, LookupCacheInv, ResolveAnsiPathCollisionInv, LegacyInv, LegacyReturnsInv
<1>3. ASSUME NEW t \in Threads, StoreCache(t) \/ Open(t) \/ Return(t) PROVE IInv'
  BY <1>3, StoreCacheInv, OpenInv, ReturnInv
<1>4. CASE Change
  BY <1>4, ChangeInv
<1>5. CASE UNCHANGED vars
  <2>1. UNCHANGED <<disk, gWidePathCache, thread, changed>>
    BY <1>5 DEF vars
  <2>2. CacheInv' /\ TypeOK' /\ DiskInv'
    BY <2>1, CacheSame DEF IInv, TypeOK, DiskInv, Rooted
  <2>3. ASSUME NEW t \in Threads PROVE CallInv(thread[t])'
    BY <2>1, SameFacts DEF IInv, CallInv, Shape, Plain, Reaches
  <2> QED BY <2>2, <2>3 DEF IInv
<1> QED BY <1>1, <1>2, <1>3, <1>4, <1>5 DEF Next

LEMMA Inductive == Spec => []IInv
BY InitInv, NextInv, PTL DEF Spec

--------------------------------------------------------------------------------
(* Theorems.                                                                  *)

\* Paths, the cache and the calls of the threads have their types (dllmain.cpp, GetWidePath).
THEOREM TypeCorrect == Spec => []TypeOK
<1>1. IInv => TypeOK
  BY DEF IInv
<1> QED BY <1>1, Inductive, PTL

\* GetWidePath, ResolveAnsiPathCollision and the cache lead each path to the file it singles
\* out, for any spellings, any disk and whatever other threads have asked before.
THEOREM ReachesFileCorrect == Spec => []ReachesFile
<1>1. IInv => ReachesFile
  <2>1. IInv => \A t \in Threads : Reaches(thread[t])
    BY DEF IInv, CallInv
  <2> QED BY <2>1 DEF ReachesFile, Reaches, Opened
<1> QED BY <1>1, Inductive, PTL

\* Whatever happens to the disk during a call, CreateFileAHook opens nothing under a path
\* without '?' that is spelled otherwise.
THEOREM PlainSpelledCorrect == Spec => []PlainSpelled
<1>1. IInv => PlainSpelled
  <2>1. IInv => \A t \in Threads : Plain(thread[t])
    BY DEF IInv, CallInv
  <2> QED BY <2>1 DEF PlainSpelled, Plain, Opened
<1> QED BY <1>1, Inductive, PTL
================================================================================
