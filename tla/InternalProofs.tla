---------------------------- MODULE InternalProofs -----------------------------
(***************************************************************************)
(* Proofs about the two features that leeyes_internal installs, the trace  *)
(* buffer and the batching of file changes.  They have no variable in      *)
(* common: each is proved from its own specification, the buffer for every *)
(* set of threads, capacity and number of tickets below the width of the   *)
(* counters, the batching for every set of lists, table size, threshold    *)
(* and nesting.                                                            *)
(***************************************************************************)
EXTENDS TraceBuffer, FileMoveBatch, FiniteSetTheorems, TLAPS

--------------------------------------------------------------------------------
(* The trace buffer.                                                         *)

USE TraceAssumption

Smaller(a, b) == IF a < b THEN a ELSE b

\* Tickets: they fill the slots from the first one, then are refused.
TicketInv == next <= MaxTickets /\ Len(accepted) = Smaller(next, Capacity)

\* A thread that is copying owns its slot: nobody else has its ticket, the slot is not
\* published, and the record it was given is the one accepted under that ticket.
OwnerInv ==
  \A t \in Threads : InCopy(t) =>
    /\ ticket[t] < Len(accepted) /\ accepted[ticket[t] + 1] = rec[t]
    /\ committed[ticket[t]] = 0
    /\ tpc[t] = "copied" => records[ticket[t]] = rec[t]

ExclusiveInv ==
  \A t, u \in Threads : InCopy(t) /\ InCopy(u) /\ ticket[t] = ticket[u] => t = u

\* A published slot holds the record accepted under its number.
SlotInv ==
  \A s \in Slots : committed[s] # 0 =>
    committed[s] = s + 1 /\ s < Len(accepted) /\ records[s] = accepted[s + 1]

\* The worker has printed exactly the slots below flushed_, all of them published.
PrintInv ==
  /\ Len(log) = flushed
  /\ \A i \in 1 .. flushed : committed[i - 1] = i /\ log[i] = accepted[i]

IInv == TypeOK /\ TicketInv /\ OwnerInv /\ ExclusiveInv /\ SlotInv /\ PrintInv

\* Appending keeps what the sequence had and puts the new element last.
LEMMA AppendFacts ==
  ASSUME NEW S, NEW s \in Seq(S), NEW e \in S
  PROVE  /\ Append(s, e) \in Seq(S) /\ Len(Append(s, e)) = Len(s) + 1 /\ Len(s) \in Nat
         /\ Append(s, e)[Len(s) + 1] = e
         /\ \A i \in 1 .. Len(s) : Append(s, e)[i] = s[i]
  OBVIOUS

LEMMA InitIInv == Init => IInv
<1> SUFFICES ASSUME Init PROVE IInv
  OBVIOUS
<1>1. TypeOK
  <2>1. \A t \in Threads : <<t, 0>> \in Records
    BY DEF Records
  <2>2. log \in Seq(Records \union {Blank, Torn}) /\ accepted \in Seq(Records)
    BY DEF Init
  <2>3. rec \in [Threads -> Records]
    BY <2>1 DEF Init
  <2>4. /\ committed \in [Slots -> 0 .. Capacity] /\ records \in [Slots -> Records \union {Blank, Torn}]
        /\ ticket \in [Threads -> Slots] /\ next \in 0 .. CounterModulus - 1
        /\ dropped \in 0 .. CounterModulus - 1 /\ flushed \in 0 .. Capacity
    BY DEF Init, Slots
  <2>5. tpc \in [Threads -> {"idle", "reserved", "copying", "copied", "signal", "overflow"}]
    BY DEF Init
  <2> QED BY <2>2, <2>3, <2>4, <2>5 DEF Init, TypeOK
<1>2. TicketInv /\ OwnerInv /\ ExclusiveInv /\ SlotInv /\ PrintInv
  BY DEF Init, TicketInv, OwnerInv, ExclusiveInv, SlotInv, PrintInv, InCopy, Smaller, Slots
<1> QED BY <1>1, <1>2 DEF IInv

--------------------------------------------------------------------------------
(* Append.                                                                    *)

LEMMA ReserveIInv ==
  ASSUME IInv, NEW t \in Threads, Reserve(t),
         UNCHANGED <<wake, stop, printed, ipc, fpc, alive, owed>>
  PROVE  IInv'
<1> USE DEF IInv, Reserve, printed, slots, Slots, Bump
<1>1. next' = next + 1 /\ next < MaxTickets /\ next \in Nat /\ next' \in 0 .. CounterModulus - 1
  BY DEF TypeOK, TicketInv
<1>2. rec' \in [Threads -> Records] /\ rec'[t] \in Records
      /\ \A u \in Threads \ {t} : rec'[u] = rec[u]
  <2>1. rec[t] \in Threads \X Nat
    BY DEF TypeOK, Records
  <2>2. <<t, rec[t][2] + 1>> \in Records
    BY <2>1 DEF Records
  <2>3. rec \in [Threads -> Records] /\ rec' = [rec EXCEPT ![t] = <<t, rec[t][2] + 1>>]
    BY DEF TypeOK
  <2> HIDE DEF IInv, Reserve
  <2> QED BY <2>2, <2>3
<1>3. CASE next >= Capacity
  <2>1. UNCHANGED <<ticket, accepted>> /\ tpc' = [tpc EXCEPT ![t] = "overflow"]
    BY <1>3
  <2>2. \A u \in Threads : InCopy(u)' => InCopy(u) /\ u # t
    BY <2>1 DEF InCopy, TypeOK
  <2>3. TypeOK'
    BY <1>1, <1>2, <2>1 DEF TypeOK
  <2>4. TicketInv'
    BY <1>1, <1>3, <2>1 DEF TicketInv, Smaller, TypeOK
  <2>5. OwnerInv' /\ ExclusiveInv'
    BY SMTT(30), <1>2, <2>1, <2>2 DEF OwnerInv, ExclusiveInv, InCopy, TypeOK
  <2>6. SlotInv' /\ PrintInv'
    BY <2>1 DEF SlotInv, PrintInv
  <2> QED BY <2>3, <2>4, <2>5, <2>6
<1>4. CASE next < Capacity
  <2>1. /\ ticket' = [ticket EXCEPT ![t] = next]
        /\ tpc' = [tpc EXCEPT ![t] = "reserved"]
        /\ accepted' = Append(accepted, rec'[t])
        /\ next \in Slots
    BY <1>1, <1>4 DEF TypeOK
  <2>2. /\ accepted' \in Seq(Records) /\ Len(accepted) = next /\ Len(accepted') = next + 1
        /\ accepted'[next + 1] = rec'[t]
        /\ \A i \in 1 .. next : accepted'[i] = accepted[i]
    <3>1. Len(accepted) = next /\ accepted \in Seq(Records)
      BY <1>1, <1>4 DEF TypeOK, TicketInv, Smaller
    <3> HIDE DEF IInv, Reserve
    <3> QED BY <1>2, <2>1, <3>1, AppendFacts
  <2>3. TypeOK'
    BY <1>1, <1>2, <2>1, <2>2 DEF TypeOK
  <2>4. TicketInv'
    BY <1>1, <1>4, <2>2 DEF TicketInv, Smaller
  <2>5. \A u \in Threads \ {t} : /\ ticket'[u] = ticket[u] /\ tpc'[u] = tpc[u] /\ rec'[u] = rec[u]
                                 /\ InCopy(u) => ticket[u] < next
    BY <1>2, <2>1, <2>2 DEF OwnerInv, TypeOK
  <2>6. ticket'[t] = next /\ tpc'[t] = "reserved"
    BY <2>1 DEF TypeOK
  <2>7. OwnerInv'
    <3>1. committed'[next] = 0
      BY <2>1, <2>2 DEF SlotInv
    <3>2. ASSUME NEW u \in Threads, InCopy(u)'
          PROVE  /\ ticket'[u] < Len(accepted') /\ accepted'[ticket'[u] + 1] = rec'[u]
                 /\ committed'[ticket'[u]] = 0
                 /\ tpc'[u] = "copied" => records'[ticket'[u]] = rec'[u]
      <4>1. CASE u = t
        BY <1>1, <2>2, <2>6, <3>1, <4>1
      <4>2. CASE u # t
        <5>1. InCopy(u) /\ ticket[u] \in Slots
          BY <2>5, <3>2, <4>2 DEF InCopy, TypeOK
        <5> QED BY <1>1, <2>2, <2>5, <4>2, <5>1 DEF OwnerInv
      <4> QED BY <4>1, <4>2
    <3> QED BY <3>2 DEF OwnerInv
  <2>8. ExclusiveInv'
    BY <1>1, <2>5, <2>6 DEF ExclusiveInv, InCopy
  <2>9. SlotInv'
    BY <1>1, <2>2 DEF SlotInv
  <2>10. PrintInv'
    <3>1. flushed \in 0 .. Capacity /\ PrintInv /\ SlotInv
      BY DEF TypeOK
    <3>2. ASSUME NEW i \in 1 .. flushed PROVE i \in 1 .. next
      <4> HIDE DEF IInv, Reserve
      <4>1. i \in Nat \ {0} /\ i <= flushed /\ flushed <= Capacity
        BY <3>1, TraceAssumption
      <4>2. committed[i - 1] = i /\ i - 1 \in Slots
        BY <3>1, <4>1, TraceAssumption DEF PrintInv
      <4>3. i - 1 < Len(accepted)
        BY <3>1, <4>1, <4>2 DEF SlotInv
      <4> QED BY <1>1, <2>2, <4>1, <4>3
    <3> QED BY <2>2, <3>1, <3>2 DEF PrintInv
  <2> QED BY <2>3, <2>4, <2>7, <2>8, <2>9, <2>10
<1> QED BY <1>1, <1>3, <1>4

LEMMA CountDroppedIInv ==
  ASSUME IInv, NEW t \in Threads, CountDropped(t),
         UNCHANGED <<wake, stop, printed, ipc, fpc, alive, owed>>
  PROVE  IInv'
<1> USE DEF IInv, CountDropped, printed, slots
<1>1. dropped' \in 0 .. CounterModulus - 1
  BY DEF TypeOK, Bump
<1>2. TypeOK'
  BY <1>1 DEF TypeOK
<1>3. tpc'[t] = "idle" /\ \A u \in Threads \ {t} : tpc'[u] = tpc[u]
  BY DEF TypeOK
<1>4. \A u \in Threads : InCopy(u)' => InCopy(u) /\ tpc'[u] = tpc[u]
  BY <1>3 DEF InCopy
<1>5. OwnerInv' /\ ExclusiveInv'
  BY <1>4 DEF OwnerInv, ExclusiveInv
<1>6. TicketInv' /\ SlotInv' /\ PrintInv'
  BY DEF TicketInv, SlotInv, PrintInv
<1> QED BY <1>2, <1>5, <1>6

\* The copy of a record changes only the slot of the thread that copies.
LEMMA CopyIInv ==
  ASSUME IInv, NEW t \in Threads, BeginCopy(t) \/ EndCopy(t),
         UNCHANGED <<wake, stop, printed, ipc, fpc, alive, owed>>
  PROVE  IInv'
<1> USE DEF IInv, printed, counters
<1>1. /\ InCopy(t) /\ InCopy(t)' /\ ticket[t] \in Slots
      /\ UNCHANGED <<next, dropped, committed, ticket, rec, accepted>>
      /\ records' \in [Slots -> Records \union {Blank, Torn}]
      /\ \A s \in Slots \ {ticket[t]} : records'[s] = records[s]
      /\ tpc' \in [Threads -> {"idle", "reserved", "copying", "copied", "signal", "overflow"}]
      /\ \A u \in Threads \ {t} : tpc'[u] = tpc[u]
      /\ tpc'[t] = "copied" => records'[ticket[t]] = rec[t]
  <2>1. ticket[t] \in Slots /\ rec[t] \in Records
    BY DEF TypeOK
  <2>2. CASE BeginCopy(t)
    BY <2>1, <2>2 DEF BeginCopy, InCopy, TypeOK
  <2>3. CASE EndCopy(t)
    BY <2>1, <2>3 DEF EndCopy, InCopy, TypeOK
  <2> QED BY <2>2, <2>3
<1>2. TypeOK'
  BY <1>1 DEF TypeOK
<1>3. \A u \in Threads : InCopy(u)' => InCopy(u) /\ ticket[u] \in Slots
  BY <1>1 DEF InCopy, TypeOK
<1>4. \A u \in Threads \ {t} : InCopy(u) => ticket[u] # ticket[t]
  BY <1>1 DEF ExclusiveInv
<1>5. OwnerInv'
  BY <1>1, <1>3, <1>4 DEF OwnerInv
<1>6. ExclusiveInv'
  BY <1>1, <1>3 DEF ExclusiveInv
<1>7. SlotInv'
  BY <1>1 DEF SlotInv, OwnerInv
<1>8. TicketInv' /\ PrintInv'
  BY <1>1 DEF TicketInv, PrintInv
<1> QED BY <1>2, <1>5, <1>6, <1>7, <1>8

LEMMA CommitIInv ==
  ASSUME IInv, NEW t \in Threads, Commit(t),
         UNCHANGED <<wake, stop, printed, ipc, fpc, alive, owed>>
  PROVE  IInv'
<1> USE DEF IInv, Commit, printed, counters
<1>1. /\ InCopy(t) /\ ~InCopy(t)' /\ ticket[t] \in Slots
      /\ committed' \in [Slots -> 0 .. Capacity] /\ committed'[ticket[t]] = ticket[t] + 1
      /\ \A s \in Slots \ {ticket[t]} : committed'[s] = committed[s]
      /\ \A u \in Threads \ {t} : tpc'[u] = tpc[u]
  BY DEF InCopy, TypeOK, Slots
<1>2. TypeOK'
  BY <1>1 DEF TypeOK
<1>3. \A u \in Threads : InCopy(u)' => InCopy(u) /\ u # t /\ ticket[u] \in Slots /\ ticket[u] # ticket[t]
  BY <1>1 DEF InCopy, TypeOK, ExclusiveInv
<1>4. OwnerInv' /\ ExclusiveInv'
  BY <1>1, <1>3 DEF OwnerInv, ExclusiveInv
<1>5. SlotInv'
  BY <1>1 DEF SlotInv, OwnerInv
<1>6. PrintInv'
  <2>1. \A i \in 1 .. flushed : i - 1 \in Slots /\ committed[i - 1] = i
    BY DEF PrintInv, TypeOK, Slots
  <2>2. committed[ticket[t]] = 0
    BY <1>1 DEF OwnerInv
  <2>3. \A i \in 1 .. flushed : committed'[i - 1] = i
    BY <1>1, <2>1, <2>2
  <2> QED BY <2>3 DEF PrintInv
<1>7. TicketInv'
  BY DEF TicketInv
<1> QED BY <1>2, <1>4, <1>5, <1>6, <1>7

LEMMA SignalIInv ==
  ASSUME IInv, NEW t \in Threads, Signal(t)
  PROVE  IInv'
<1> USE DEF IInv, Signal, printed, slots, counters
<1>1. tpc'[t] = "idle" /\ \A u \in Threads \ {t} : tpc'[u] = tpc[u]
  BY DEF TypeOK
<1>2. \A u \in Threads : InCopy(u)' => InCopy(u) /\ tpc'[u] = tpc[u]
  BY <1>1 DEF InCopy
<1>3. TypeOK'
  BY DEF TypeOK
<1>4. OwnerInv' /\ ExclusiveInv'
  BY <1>2 DEF OwnerInv, ExclusiveInv
<1>5. TicketInv' /\ SlotInv' /\ PrintInv'
  BY DEF TicketInv, SlotInv, PrintInv
<1> QED BY <1>3, <1>4, <1>5

--------------------------------------------------------------------------------
(* Start, RequestStop, the worker and the end of the process.                 *)

\* Only TypeOK depends on the control variables of the initialiser and the worker.
LEMMA ControlIInv ==
  ASSUME IInv, TypeOK', UNCHANGED <<counters, slots, appender, printed, accepted>>
  PROVE  IInv'
BY DEF IInv, TicketInv, OwnerInv, ExclusiveInv, SlotInv, PrintInv, InCopy,
       counters, slots, appender, printed

LEMMA StartIInv == IInv /\ Start => IInv'
<1> SUFFICES ASSUME IInv, Start PROVE IInv'
  OBVIOUS
<1>1. TypeOK'
  BY DEF IInv, TypeOK, Start, StartFails, CreateWakeEvent, CreateFlushThread, SignalStarted,
         counters, slots, appender, printed
<1> QED BY <1>1, ControlIInv DEF Start

LEMMA RequestStopIInv == IInv /\ RequestStop => IInv'
<1> SUFFICES ASSUME IInv, RequestStop PROVE IInv'
  OBVIOUS
<1>1. TypeOK'
  BY DEF IInv, TypeOK, RequestStop, CommittedPrefix, counters, slots, appender, printed
<1> QED BY <1>1, ControlIInv DEF RequestStop

LEMMA FlushOneIInv ==
  ASSUME IInv, FlushOne, UNCHANGED <<counters, slots, appender, stop, ipc, alive, accepted, owed>>
  PROVE  IInv'
<1> USE DEF IInv, FlushOne, counters, slots, appender
<1>1. /\ flushed \in Slots /\ committed[flushed] = flushed + 1 /\ Len(log) = flushed
      /\ records[flushed] = accepted[flushed + 1]
  BY DEF TypeOK, Slots, SlotInv, PrintInv
<1>2. /\ log' \in Seq(Records \union {Blank, Torn}) /\ Len(log') = flushed + 1
      /\ log'[flushed + 1] = accepted[flushed + 1]
      /\ \A i \in 1 .. flushed : log'[i] = log[i]
  <2>1. log \in Seq(Records \union {Blank, Torn}) /\ records[flushed] \in Records \union {Blank, Torn}
    BY <1>1 DEF TypeOK
  <2> QED BY <1>1, <2>1, AppendFacts
<1>3. TypeOK'
  BY <1>1, <1>2 DEF TypeOK, Slots
<1>4. PrintInv'
  BY <1>1, <1>2 DEF PrintInv, TypeOK
<1>5. TicketInv' /\ OwnerInv' /\ ExclusiveInv' /\ SlotInv'
  BY DEF TicketInv, OwnerInv, ExclusiveInv, SlotInv, InCopy
<1> QED BY <1>3, <1>4, <1>5

LEMMA FlushThreadIInv == IInv /\ FlushThread => IInv'
<1> SUFFICES ASSUME IInv, FlushThread PROVE IInv'
  OBVIOUS
<1>1. CASE FlushOne
  BY <1>1, FlushOneIInv DEF FlushThread
<1>2. CASE OpenLog \/ Wait \/ EndFlush \/ CheckStop
  <2>1. UNCHANGED <<counters, slots, appender, printed, accepted>>
    BY <1>2 DEF FlushThread, OpenLog, Wait, EndFlush, CheckStop
  <2>2. TypeOK'
    BY <1>2, <2>1 DEF IInv, TypeOK, FlushThread, OpenLog, Wait, EndFlush, CheckStop,
                      counters, slots, appender, printed
  <2> QED BY <2>1, <2>2, ControlIInv
<1> QED BY <1>1, <1>2 DEF FlushThread

LEMMA ExitIInv == IInv /\ Exit => IInv'
<1> SUFFICES ASSUME IInv, Exit PROVE IInv'
  OBVIOUS
<1>1. TypeOK'
  BY DEF IInv, TypeOK, Exit, counters, slots, appender, printed
<1> QED BY <1>1, ControlIInv DEF Exit

LEMMA NextIInv == IInv /\ [Next]_vars => IInv'
<1> SUFFICES ASSUME IInv, [Next]_vars PROVE IInv'
  OBVIOUS
<1>1. ASSUME NEW t \in Threads, Store(t)
      PROVE  IInv'
  BY <1>1, ReserveIInv, CountDroppedIInv, CopyIInv, CommitIInv DEF Store
<1>2. CASE UNCHANGED vars
  <2>1. TypeOK'
    BY <1>2 DEF IInv, TypeOK, vars
  <2> QED BY <1>2, <2>1, ControlIInv DEF vars, counters, slots, appender, printed
<1> QED BY <1>1, <1>2, SignalIInv, StartIInv, RequestStopIInv, FlushThreadIInv, ExitIInv DEF Next

THEOREM Invariance == Spec => []IInv
BY InitIInv, NextIInv, PTL DEF Spec
\* Type correctness of Append, Start, the worker and process exit together.
THEOREM TypeCorrect == Spec => []TypeOK
BY Invariance, PTL DEF IInv

\* The log repeats the records in ticket order, for any number of threads and slots.
THEOREM LogFaithfulCorrect == Spec => []LogFaithful
<1>1. ASSUME IInv PROVE LogFaithful
  <2>1. \A i \in 1 .. flushed : i - 1 \in Slots /\ committed[i - 1] = i
    BY <1>1 DEF IInv, TypeOK, PrintInv, Slots
  <2>2. ASSUME NEW i \in 1 .. flushed PROVE i <= Len(accepted)
    <3>1. i \in Nat \ {0} /\ Len(accepted) \in Nat
      BY <1>1 DEF IInv, TypeOK
    <3>2. i - 1 \in Slots /\ committed[i - 1] # 0
      BY <2>1, <3>1
    <3>3. i - 1 < Len(accepted)
      BY <1>1, <3>2 DEF IInv, SlotInv
    <3> QED BY <3>1, <3>3
  <2>3. flushed <= Len(accepted)
    <3>1. flushed \in Nat /\ Len(accepted) \in Nat
      BY <1>1 DEF IInv, TypeOK
    <3> QED BY <2>2, <3>1
  <2>4. Len(log) = flushed /\ \A i \in 1 .. flushed : log[i] = accepted[i]
    BY <1>1 DEF IInv, PrintInv
  <2> QED BY <2>3, <2>4 DEF LogFaithful
<1> QED BY <1>1, Invariance, PTL

\* A published slot is never written again, so that the worker needs no lock.
THEOREM SlotsImmutableCorrect == Spec => SlotsImmutable
<1> DEFINE Kept == \A s \in Slots : committed[s] # 0 => records'[s] = records[s]
<1>1. ASSUME IInv, [Next]_vars PROVE Kept
  <2>1. ASSUME NEW t \in Threads, BeginCopy(t) \/ EndCopy(t) PROVE Kept
    <3>1. \A s \in Slots \ {ticket[t]} : records'[s] = records[s]
      BY <1>1, <2>1 DEF IInv, TypeOK, BeginCopy, EndCopy
    <3>2. InCopy(t)
      BY <2>1 DEF BeginCopy, EndCopy, InCopy
    <3> QED BY <1>1, <3>1, <3>2 DEF IInv, OwnerInv
  <2>2. CASE UNCHANGED records
    BY <2>2
  <2>3. UNCHANGED records \/ \E t \in Threads : BeginCopy(t) \/ EndCopy(t)
    BY <1>1 DEF Next, vars, Store, Reserve, CountDropped, Commit, Signal, Start, RequestStop,
                FlushThread, Exit, slots
  <2> QED BY <2>1, <2>2, <2>3
<1> QED BY <1>1, Invariance, PTL DEF Spec, SlotsImmutable
--------------------------------------------------------------------------------
(* The counters.                                                              *)

CountInv == IInv /\ TicketsAccounted

LEMMA OverflowingFinite == IsFiniteSet(Overflowing) /\ Cardinality(Overflowing) \in Nat
BY FS_Subset, FS_CardinalityType DEF Overflowing

\* A step that moves no thread into or out of the refusal leaves the balance alone.
LEMMA CountFrame ==
  ASSUME TicketsAccounted, Overflowing' = Overflowing,
         UNCHANGED <<next, dropped, accepted>>
  PROVE  TicketsAccounted'
BY DEF TicketsAccounted

LEMMA ReserveCount ==
  ASSUME CountInv, NEW t \in Threads, Reserve(t)
  PROVE  TicketsAccounted'
<1> USE DEF CountInv, IInv
<1>1. next' = next + 1 /\ next \in Nat /\ dropped' = dropped /\ dropped \in Nat
  BY DEF Reserve, TypeOK, TicketInv, Bump
<1>2. CASE next >= Capacity
  <2>1. Overflowing' = Overflowing \union {t} /\ t \notin Overflowing
    BY <1>2 DEF Reserve, Overflowing, TypeOK
  <2>2. Cardinality(Overflowing') = Cardinality(Overflowing) + 1
    BY <2>1, OverflowingFinite, FS_AddElement
  <2>3. accepted' = accepted /\ Len(accepted) \in Nat
    BY <1>2 DEF Reserve, TypeOK
  <2> QED BY <1>1, <2>2, <2>3, OverflowingFinite DEF TicketsAccounted
<1>3. CASE next < Capacity
  <2>1. Overflowing' = Overflowing
    BY <1>3, <1>1 DEF Reserve, Overflowing, TypeOK
  <2>2. accepted' = Append(accepted, rec'[t])
    BY <1>3, <1>1 DEF Reserve, TypeOK
  <2>3. Len(accepted') = Len(accepted) + 1 /\ Len(accepted) \in Nat
    BY <2>2 DEF TypeOK
  <2> QED BY <1>1, <2>1, <2>3, OverflowingFinite DEF TicketsAccounted
<1> QED BY <1>1, <1>2, <1>3 DEF TypeOK

LEMMA CountDroppedCount ==
  ASSUME CountInv, NEW t \in Threads, CountDropped(t)
  PROVE  TicketsAccounted' /\ dropped' + Cardinality(Overflowing') = dropped + Cardinality(Overflowing)
<1> USE DEF CountInv, IInv
<1>1. Overflowing' = Overflowing \ {t} /\ t \in Overflowing
  BY DEF CountDropped, Overflowing, TypeOK
<1>2. Cardinality(Overflowing') = Cardinality(Overflowing) - 1
  BY <1>1, OverflowingFinite, FS_RemoveElement
<1>3. Cardinality(Overflowing) # 0
  BY <1>1, OverflowingFinite, FS_EmptySet
<1>4. next \in Nat /\ next < CounterModulus /\ dropped \in Nat /\ Len(accepted) \in Nat
  BY DEF TypeOK, TicketInv
<1>5. dropped' = dropped + 1
  BY <1>3, <1>4, OverflowingFinite DEF TicketsAccounted, CountDropped, Bump
<1> QED BY SMTT(30), <1>2, <1>3, <1>4, <1>5, OverflowingFinite DEF CountDropped, TicketsAccounted

\* Every other step.
LEMMA OverflowingKept ==
  ASSUME IInv, [Next]_vars, \A t \in Threads : ~Reserve(t) /\ ~CountDropped(t)
  PROVE  Overflowing' = Overflowing /\ UNCHANGED <<next, dropped, accepted>>
<1>1. ASSUME NEW t \in Threads, BeginCopy(t) \/ EndCopy(t) \/ Commit(t) \/ Signal(t)
      PROVE  Overflowing' = Overflowing /\ UNCHANGED <<next, dropped, accepted>>
  BY <1>1 DEF IInv, TypeOK, BeginCopy, EndCopy, Commit, Signal, Overflowing, counters
<1>2. CASE Start \/ RequestStop \/ FlushThread \/ Exit \/ UNCHANGED vars
  BY <1>2 DEF Start, RequestStop, FlushThread, Exit, vars, counters, appender, Overflowing
<1> QED BY <1>1, <1>2 DEF Next, Store

LEMMA InitCountInv == Init => CountInv
<1> SUFFICES ASSUME Init PROVE TicketsAccounted
  BY InitIInv DEF CountInv
<1>1. Overflowing = {}
  BY DEF Init, Overflowing
<1> QED BY <1>1, FS_EmptySet DEF Init, TicketsAccounted

LEMMA CountStep == CountInv /\ [Next]_vars => CountInv'
<1> SUFFICES ASSUME CountInv, [Next]_vars PROVE TicketsAccounted'
  BY NextIInv DEF CountInv
<1>1. CASE \E t \in Threads : Reserve(t) \/ CountDropped(t)
  BY <1>1, ReserveCount, CountDroppedCount
<1>2. CASE \A t \in Threads : ~Reserve(t) /\ ~CountDropped(t)
  BY <1>2, OverflowingKept, CountFrame DEF CountInv
<1> QED BY <1>1, <1>2

\* Every ticket is accepted, counted as dropped, or about to be counted.
THEOREM TicketsAccountedCorrect == Spec => []TicketsAccounted
BY InitCountInv, CountStep, PTL DEF Spec, CountInv

--------------------------------------------------------------------------------
(* The stop request.                                                          *)

\* What is due at the stop stays published, and only a stop leads to the worker's last pass.
DrainInv ==
  /\ \A n \in owed : \A s \in 0 .. n - 1 : committed[s] = s + 1
  /\ fpc \in {"last", "exited"} => stop
  /\ ipc \in {"hooked", "event"} => fpc = "absent"
  /\ DrainedOnStop

LEMMA DrainStep == IInv /\ DrainInv /\ [Next]_vars => DrainInv'
<1> SUFFICES ASSUME IInv, DrainInv, [Next]_vars PROVE DrainInv'
  OBVIOUS
<1>1. ASSUME NEW t \in Threads, Store(t) PROVE DrainInv'
  <2>1. ASSUME NEW n \in owed, NEW s \in 0 .. n - 1 PROVE committed'[s] = s + 1
    <3>1. s \in Slots /\ committed[s] = s + 1 /\ committed[s] # 0
      BY DEF IInv, TypeOK, DrainInv, Slots
    <3>2. CASE Commit(t)
      <4>1. committed[ticket[t]] = 0 /\ ticket[t] \in Slots
        BY <3>2 DEF IInv, OwnerInv, Commit, InCopy, TypeOK
      <4> QED BY <3>1, <3>2, <4>1 DEF Commit, IInv, TypeOK
    <3>3. CASE UNCHANGED committed
      BY <3>1, <3>3
    <3> QED BY <1>1, <3>2, <3>3 DEF Store, Reserve, CountDropped, BeginCopy, EndCopy, slots
  <2> QED BY <1>1, <2>1 DEF Store, DrainInv, DrainedOnStop, printed
<1>2. CASE RequestStop
  <2>1. \A n \in owed' : \A s \in 0 .. n - 1 : committed'[s] = s + 1
    BY <1>2 DEF RequestStop, CommittedPrefix, slots
  <2>2. fpc \notin {"last", "exited"} /\ fpc' = fpc
    BY <1>2 DEF RequestStop, DrainInv
  <2> QED BY <1>2, <2>1, <2>2 DEF DrainInv, DrainedOnStop, RequestStop
<1>3. CASE FlushThread
  <2>1. UNCHANGED <<committed, owed, stop>>
    BY <1>3 DEF FlushThread, slots
  <2>2. fpc' \in {"last", "exited"} => stop'
    BY <1>3 DEF FlushThread, OpenLog, Wait, FlushOne, EndFlush, CheckStop, DrainInv, IInv, TypeOK
  <2>3. DrainedOnStop'
    <3>1. CASE EndFlush
      <4>1. flushed \in 0 .. Capacity /\ Len(log) = flushed /\ log' = log
        BY <3>1 DEF IInv, TypeOK, PrintInv, EndFlush, printed
      <4>2. ASSUME NEW n \in owed PROVE flushed >= n
        <5>1. n \in 0 .. Capacity /\ \A s \in 0 .. n - 1 : committed[s] = s + 1
          BY DEF IInv, TypeOK, DrainInv
        <5>2. flushed < Capacity => committed[flushed] # flushed + 1
          BY <3>1 DEF EndFlush
        <5> QED BY <4>1, <5>1, <5>2
      <4> QED BY <2>1, <4>1, <4>2 DEF DrainedOnStop
    <3>2. CASE OpenLog \/ Wait \/ FlushOne \/ CheckStop
      <4>1. fpc' # "exited"
        BY <3>2 DEF OpenLog, Wait, FlushOne, CheckStop
      <4> QED BY <4>1 DEF DrainedOnStop
    <3> QED BY <1>3, <3>1, <3>2 DEF FlushThread
  <2>4. fpc # "absent" /\ ipc' = ipc
    BY <1>3 DEF FlushThread, OpenLog, Wait, FlushOne, EndFlush, CheckStop
  <2> QED BY <2>1, <2>2, <2>3, <2>4 DEF DrainInv
<1>4. CASE Start
  BY <1>4 DEF Start, StartFails, CreateWakeEvent, CreateFlushThread, SignalStarted,
              DrainInv, DrainedOnStop, slots, printed
<1>5. CASE Exit \/ UNCHANGED vars \/ \E t \in Threads : Signal(t)
  BY <1>5 DEF Exit, Signal, vars, DrainInv, DrainedOnStop, slots, printed
<1> QED BY <1>1, <1>2, <1>3, <1>4, <1>5 DEF Next

\* The worker's last pass prints all that was published when the stop was requested.
THEOREM DrainedOnStopCorrect == Spec => []DrainedOnStop
<1>1. Init => DrainInv
  BY DEF Init, DrainInv, DrainedOnStop
<1> QED BY <1>1, InitIInv, NextIInv, DrainStep, PTL DEF Spec, DrainInv
--------------------------------------------------------------------------------
(* The refinement of TraceStream.                                             *)

lostNow == dropped + Cardinality(Overflowing)

LEMMA StreamStep == CountInv /\ CountInv' /\ [Next]_vars => [Stream!Next]_Stream!vars
<1> SUFFICES ASSUME CountInv, CountInv', [Next]_vars
             PROVE  \/ Stream!Next
                    \/ UNCHANGED <<accepted, log, lostNow>>
  BY DEF Stream!vars, lostNow
<1> USE DEF CountInv
<1>1. ASSUME NEW t \in Threads, Reserve(t), UNCHANGED printed PROVE Stream!Next
  <2>1. next' = next + 1 /\ next \in Nat /\ dropped' = dropped /\ dropped \in Nat /\ log' = log
    BY <1>1 DEF Reserve, IInv, TypeOK, TicketInv, Bump, printed
  <2>2. CASE next >= Capacity
    <3>1. Len(accepted) = Capacity /\ accepted' = accepted
      BY <1>1, <2>1, <2>2 DEF Reserve, IInv, TicketInv, Smaller
    <3>2. Overflowing' = Overflowing \union {t} /\ t \notin Overflowing
      BY <1>1, <2>2 DEF Reserve, Overflowing, IInv, TypeOK
    <3>3. Cardinality(Overflowing') = Cardinality(Overflowing) + 1
      BY <3>2, OverflowingFinite, FS_AddElement
    <3>4. lostNow' = lostNow + 1
      BY <2>1, <3>3, OverflowingFinite DEF lostNow
    <3> QED BY <2>1, <3>1, <3>4 DEF Stream!Next, Stream!Lose, lostNow
  <2>3. CASE next < Capacity
    <3>1. Len(accepted) = next /\ accepted' = Append(accepted, rec'[t])
      BY <1>1, <2>1, <2>3 DEF Reserve, IInv, TicketInv, Smaller
    <3>2. accepted \in Seq(Records) /\ rec'[t] \in Records
      BY <1>1 DEF IInv, TypeOK
    <3>3. Overflowing' = Overflowing
      BY SMTT(30), <1>1, <2>3 DEF Reserve, Overflowing, IInv, TypeOK
    <3> QED BY <2>1, <2>3, <3>1, <3>2, <3>3, AppendFacts DEF Stream!Next, Stream!Accept, lostNow
  <2> QED BY <2>1, <2>2, <2>3
<1>2. ASSUME NEW t \in Threads, CountDropped(t), UNCHANGED printed
      PROVE  UNCHANGED <<accepted, log, lostNow>>
  BY <1>2, CountDroppedCount DEF CountDropped, printed, lostNow
<1>3. ASSUME FlushOne, UNCHANGED <<counters, appender, accepted>> PROVE Stream!Next
  <2>1. flushed \in Slots /\ committed[flushed] = flushed + 1 /\ Len(log) = flushed
    BY <1>3 DEF FlushOne, IInv, TypeOK, Slots, PrintInv
  <2>2. flushed < Len(accepted) /\ records[flushed] = accepted[flushed + 1]
    BY <2>1 DEF IInv, SlotInv, Slots
  <2>3. lostNow' = lostNow
    BY <1>3 DEF counters, appender, Overflowing, lostNow
  <2> QED BY <1>3, <2>1, <2>2, <2>3 DEF FlushOne, Stream!Next, Stream!Publish, lostNow
<1>4. ASSUME NEW t \in Threads, BeginCopy(t) \/ EndCopy(t) \/ Commit(t) \/ Signal(t), UNCHANGED printed
      PROVE  UNCHANGED <<accepted, log, lostNow>>
  <2>1. Overflowing' = Overflowing
    BY <1>4 DEF IInv, TypeOK, BeginCopy, EndCopy, Commit, Signal, Overflowing
  <2> QED BY <1>4, <2>1 DEF BeginCopy, EndCopy, Commit, Signal, counters, printed, lostNow
<1>5. CASE Start \/ RequestStop \/ Exit \/ UNCHANGED vars
  BY <1>5 DEF Start, RequestStop, Exit, vars, counters, appender, printed, Overflowing, lostNow
<1>6. CASE FlushThread /\ ~FlushOne
  BY <1>6 DEF FlushThread, OpenLog, Wait, EndFlush, CheckStop, counters, appender, printed,
              Overflowing, lostNow
<1>7. ASSUME NEW t \in Threads, Store(t) \/ Signal(t)
      PROVE  Stream!Next \/ UNCHANGED <<accepted, log, lostNow>>
  BY <1>1, <1>2, <1>4, <1>7 DEF Store, Signal
<1>8. CASE FlushThread /\ FlushOne
  BY <1>3, <1>8 DEF FlushThread
<1> QED BY <1>5, <1>6, <1>7, <1>8 DEF Next

\* The buffer implements the stream: kept in one order, published in that order, or counted as lost.
THEOREM StreamRefinement == Spec => StreamSpec
<1>1. Init => Stream!Init
  <2> SUFFICES ASSUME Init PROVE Stream!Init
    OBVIOUS
  <2>1. Overflowing = {}
    BY DEF Init, Overflowing
  <2> QED BY <2>1, FS_EmptySet DEF Init, Stream!Init
<1>2. Spec => []CountInv
  <2>1. Init => CountInv
    BY InitCountInv
  <2> QED BY <2>1, CountStep, PTL DEF Spec
<1> QED BY <1>1, <1>2, StreamStep, PTL DEF Spec, StreamSpec, Stream!Spec

--------------------------------------------------------------------------------
(* File change batching.                                                     *)

HIDE TraceAssumption

USE BatchAssumption

\* Only a suppressed drain has anything in its table, and then it needs a resynchronisation.
TableInv ==
  /\ gDrainState.needsResync <=> gDrainState.dirtyLists # <<>>
  /\ gDrainState.dirtyLists # <<>> => gDrainState.suppress

\* An End in progress always has a list under way.
FrameInv == stack[1].todo = <<>> /\ \A i \in 2 .. Top : stack[i].todo # <<>>

BInv == BatchTypeOK /\ TableInv /\ FrameInv

\* Without exceptions, depth counts exactly the drains above the innermost End, and an End
\* has none below it.
DepthInv ==
  /\ gDrainState.depth = stack[Top].drains
  /\ \A i \in 1 .. Top - 1 : stack[i].drains = 0
  /\ gDrainState.depth = 0 => ~gDrainState.suppress

CleanInv == BInv /\ (~raised => DepthInv /\ Covered)

LEMMA InitInv == BatchInit => CleanInv
<1> SUFFICES ASSUME BatchInit PROVE CleanInv
  OBVIOUS
<1>1. MessageLoop \in Frame /\ DrainState.dirtyLists = <<>> /\ stack = <<MessageLoop>>
  BY DEF BatchInit, MessageLoop, Frame, DrainState
<1>2. BatchTypeOK
  <2>1. DrainState \in [depth : Nat, suppress : BOOLEAN, needsResync : BOOLEAN,
                        queuedChanges : Nat, dirtyLists : Seq(Lists)]
    BY DEF DrainState
  <2>2. Len(DrainState.dirtyLists) = 0
    BY <1>1
  <2>3. stack \in Seq(Frame) /\ stack # <<>>
    BY <1>1
  <2>4. gDrainState = DrainState /\ owedLists = {} /\ direct = {} /\ raised \in BOOLEAN
    BY DEF BatchInit
  <2> QED BY <2>1, <2>2, <2>3, <2>4 DEF BatchTypeOK
<1>3. TableInv /\ FrameInv /\ DepthInv /\ Covered
  BY <1>1 DEF BatchInit, TableInv, FrameInv, DepthInv, Covered, DrainState, MessageLoop, Top
<1> QED BY <1>2, <1>3 DEF CleanInv, BInv

\* The first elements of a sequence.
LEMMA PrefixFacts ==
  ASSUME NEW S, NEW s \in Seq(S), NEW n \in Nat, n <= Len(s)
  PROVE  /\ SubSeq(s, 1, n) \in Seq(S) /\ Len(SubSeq(s, 1, n)) = n
         /\ \A i \in 1 .. n : SubSeq(s, 1, n)[i] = s[i]
<1>1. \A i \in 1 .. n : s[i] \in S
  OBVIOUS
<1> QED BY <1>1

\* A sequence with one element replaced.
LEMMA ReplaceFacts ==
  ASSUME NEW S, NEW s \in Seq(S), NEW k \in 1 .. Len(s), NEW e \in S
  PROVE  /\ [s EXCEPT ![k] = e] \in Seq(S) /\ Len([s EXCEPT ![k] = e]) = Len(s)
         /\ [s EXCEPT ![k] = e][k] = e
         /\ \A i \in 1 .. Len(s) : i # k => [s EXCEPT ![k] = e][i] = s[i]
  OBVIOUS

\* A stack with only the drains of one frame changed.
LEMMA DrainsChanged ==
  ASSUME BatchTypeOK, NEW d \in Nat, stack' = [stack EXCEPT ![Top].drains = d]
  PROVE  /\ stack' \in Seq(Frame) /\ Top' = Top /\ Top \in Nat \ {0}
         /\ stack'[Top].drains = d
         /\ \A i \in 1 .. Top : stack'[i].todo = stack[i].todo
         /\ \A i \in 1 .. Top - 1 : stack'[i] = stack[i]
<1>1. stack \in Seq(Frame) /\ Top \in Nat \ {0} /\ stack[Top] \in Frame /\ Top = Len(stack)
  BY DEF BatchTypeOK, Top
<1> DEFINE frame == [stack[Top] EXCEPT !.drains = d]
<1>2. frame \in Frame /\ frame.drains = d /\ frame.todo = stack[Top].todo
  BY <1>1 DEF Frame
<1>3. stack' = [stack EXCEPT ![Top] = frame]
  OBVIOUS
<1> HIDE DEF frame
<1>4. /\ stack' \in Seq(Frame) /\ Len(stack') = Len(stack) /\ stack'[Top] = frame
      /\ \A i \in 1 .. Top - 1 : stack'[i] = stack[i]
  BY <1>1, <1>2, <1>3
<1>5. \A i \in 1 .. Top : stack'[i].todo = stack[i].todo
  BY <1>1, <1>2, <1>4
<1> QED BY <1>1, <1>2, <1>4, <1>5 DEF Top

LEMMA BeginInv ==
  ASSUME BInv, Begin, UNCHANGED raised
  PROVE  BInv' /\ (DepthInv => DepthInv') /\ (DepthInv /\ Covered => Covered')
<1> USE DEF BInv
<1>1. stack[Top].drains \in Nat /\ stack[Top].drains + 1 \in Nat
  <2>1. stack[Top] \in Frame
    BY DEF BatchTypeOK, Top
  <2> QED BY <2>1 DEF Frame
<1>2. stack' = [stack EXCEPT ![Top].drains = stack[Top].drains + 1]
  BY DEF Begin
<1>3. /\ stack' \in Seq(Frame) /\ Top' = Top /\ Top \in Nat \ {0}
      /\ stack'[Top].drains = stack[Top].drains + 1
      /\ \A i \in 1 .. Top : stack'[i].todo = stack[i].todo
      /\ \A i \in 1 .. Top - 1 : stack'[i] = stack[i]
  BY <1>1, <1>2, DrainsChanged
<1>4. FrameInv'
  BY <1>3 DEF FrameInv
<1>5. owedLists' = owedLists /\ \A i \in 1 .. Top : Due(stack'[i]) = Due(stack[i])
  BY <1>3 DEF Begin, Due
<1>6. CASE BeginNested
  <2>1. /\ gDrainState' \in [depth : Nat, suppress : BOOLEAN, needsResync : BOOLEAN,
                             queuedChanges : Nat, dirtyLists : Seq(Lists)]
        /\ gDrainState'.depth = gDrainState.depth + 1 /\ gDrainState'.suppress = gDrainState.suppress
        /\ gDrainState'.needsResync = gDrainState.needsResync
        /\ gDrainState'.dirtyLists = gDrainState.dirtyLists
        /\ gDrainState.depth \in Nat
    <3>1. gDrainState \in [depth : Nat, suppress : BOOLEAN, needsResync : BOOLEAN,
                           queuedChanges : Nat, dirtyLists : Seq(Lists)]
      BY DEF BatchTypeOK
    <3>2. gDrainState' = [gDrainState EXCEPT !.depth = gDrainState.depth + 1]
      BY <1>6 DEF BeginNested
    <3> HIDE DEF BInv
    <3> QED BY <3>1, <3>2
  <2>2. BatchTypeOK'
    <3>1. Len(gDrainState'.dirtyLists) <= kMaximumDirtyLists
      BY <2>1 DEF BatchTypeOK
    <3>2. owedLists' \subseteq Lists /\ direct' \subseteq Lists /\ raised' \in BOOLEAN
      BY <1>5, <1>6 DEF BatchTypeOK, BeginNested
    <3>3. stack' \in Seq(Frame) /\ stack' # <<>>
      BY <1>3 DEF Top
    <3> HIDE DEF BInv
    <3> QED BY <2>1, <3>1, <3>2, <3>3 DEF BatchTypeOK
  <2>3. TableInv'
    BY <2>1 DEF TableInv
  <2>4. ASSUME DepthInv PROVE DepthInv'
    <3> HIDE DEF BInv
    <3>1. gDrainState'.depth = stack'[Top'].drains /\ gDrainState'.depth # 0
      BY <1>3, <2>1, <2>4 DEF DepthInv
    <3>2. \A i \in 1 .. Top' - 1 : stack'[i].drains = 0
      BY <1>3, <2>4 DEF DepthInv
    <3> QED BY <3>1, <3>2 DEF DepthInv
  <2>5. Covered => Covered'
    BY <1>3, <1>5, <2>1 DEF Covered
  <2> QED BY <1>4, <2>2, <2>3, <2>4, <2>5
<1>7. CASE BeginOutermost
  <2>1. PICK count \in Counts :
          gDrainState' = [DrainState EXCEPT !.depth = 1,
                            !.queuedChanges = IF count <= 0 THEN 0 ELSE count,
                            !.suppress = count > 0 /\ count >= gBatchThreshold]
    BY <1>7 DEF BeginOutermost
  <2>2. count \in Int /\ (IF count <= 0 THEN 0 ELSE count) \in Nat
        /\ (count > 0 /\ count >= gBatchThreshold) \in BOOLEAN
    OBVIOUS
  <2>3. /\ gDrainState' \in [depth : Nat, suppress : BOOLEAN, needsResync : BOOLEAN,
                             queuedChanges : Nat, dirtyLists : Seq(Lists)]
        /\ gDrainState'.depth = 1 /\ ~gDrainState'.needsResync /\ gDrainState'.dirtyLists = <<>>
    <3> DEFINE queued == IF count <= 0 THEN 0 ELSE count
               suppressed == count > 0 /\ count >= gBatchThreshold
    <3>1. queued \in Nat /\ suppressed \in BOOLEAN
      BY <2>2
    <3>2. gDrainState' = [depth |-> 1, suppress |-> suppressed, needsResync |-> FALSE,
                          queuedChanges |-> queued, dirtyLists |-> <<>>]
      BY <2>1 DEF DrainState
    <3> HIDE DEF queued, suppressed
    <3> QED BY <3>1, <3>2
  <2>4. BatchTypeOK'
    BY <1>3, <1>5, <1>7, <2>3 DEF BatchTypeOK, Top, BeginOutermost
  <2>5. TableInv'
    BY <2>3 DEF TableInv
  <2>6. DepthInv => DepthInv'
    <3>1. gDrainState.depth = 0
      BY <1>7 DEF BeginOutermost
    <3>2. DepthInv => stack'[Top].drains = 1 /\ \A i \in 1 .. Top - 1 : stack'[i].drains = 0
      BY <1>3, <3>1 DEF DepthInv
    <3> QED BY <1>3, <2>3, <3>2 DEF DepthInv
  <2>7. DepthInv => gDrainState.dirtyLists = <<>>
    BY <1>7 DEF DepthInv, TableInv, BeginOutermost
  <2>8. DepthInv /\ Covered => Covered'
    <3>1. gDrainState.dirtyLists = <<>> => Elems(gDrainState.dirtyLists) = {}
      BY DEF Elems
    <3> QED BY <1>3, <1>5, <2>7, <3>1 DEF Covered
  <2> QED BY <1>4, <2>4, <2>5, <2>6, <2>8
<1> QED BY <1>6, <1>7 DEF Begin

LEMMA DispatchInv ==
  ASSUME BInv, Dispatch, UNCHANGED raised
  PROVE  BInv' /\ (DepthInv => DepthInv') /\ (Covered => Covered')
<1> USE DEF BInv
<1> PICK l \in Lists \union {NullList}, raw \in RawActions : Defer(l, raw) \/ PassThrough(l, raw)
  BY DEF Dispatch
<1>1. CASE Defer(l, raw)
  <2>1. l \in Lists /\ gDrainState.dirtyLists \in Seq(Lists)
    BY <1>1 DEF Defer, CanRemember, BatchTypeOK
  <2> DEFINE table == gDrainState.dirtyLists
             table2 == Remembered(l)
  <2>2. /\ table2 \in Seq(Lists) /\ Len(table2) <= kMaximumDirtyLists /\ table2 # <<>>
        /\ l \in Elems(table2) /\ Elems(table) \subseteq Elems(table2)
    <3>1. CASE l \in Elems(table)
      <4>1. table2 = table
        BY <3>1 DEF Remembered
      <4> QED BY <2>1, <3>1, <4>1 DEF BatchTypeOK, Elems
    <3>2. CASE l \notin Elems(table)
      <4>1. table2 = Append(table, l) /\ Len(table) < kMaximumDirtyLists
        BY <1>1, <3>2 DEF Remembered, Defer, CanRemember
      <4> HIDE DEF table, table2
      <4>2. table \in Seq(Lists)
        BY <2>1 DEF table
      <4>3. /\ Len(table2) = Len(table) + 1 /\ table2 \in Seq(Lists) /\ Len(table) \in Nat
            /\ table2[Len(table) + 1] = l
            /\ \A i \in 1 .. Len(table) : table2[i] = table[i]
        BY <2>1, <4>1, <4>2
      <4> QED BY <4>1, <4>3 DEF Elems
    <3> QED BY <3>1, <3>2
  <2>3. /\ gDrainState' \in [depth : Nat, suppress : BOOLEAN, needsResync : BOOLEAN,
                             queuedChanges : Nat, dirtyLists : Seq(Lists)]
        /\ gDrainState'.dirtyLists = table2 /\ gDrainState'.needsResync
        /\ gDrainState'.suppress /\ gDrainState'.depth = gDrainState.depth
        /\ gDrainState.suppress
    BY <1>1, <2>2 DEF Defer, BatchTypeOK
  <2>4. BatchTypeOK'
    BY <1>1, <2>1, <2>2, <2>3 DEF BatchTypeOK, Defer, Top
  <2>5. TableInv' /\ FrameInv' /\ (DepthInv => DepthInv')
    BY <1>1, <2>2, <2>3 DEF Defer, TableInv, FrameInv, DepthInv, Top
  <2>6. Covered => Covered'
    BY <1>1, <2>2, <2>3 DEF Defer, Covered, Top
  <2> QED BY <2>4, <2>5, <2>6
<1>2. CASE PassThrough(l, raw)
  <2>1. UNCHANGED <<gDrainState, stack, owedLists>> /\ direct' \subseteq Lists
    BY <1>2 DEF PassThrough, BatchTypeOK
  <2> QED BY <2>1 DEF BatchTypeOK, TableInv, FrameInv, DepthInv, Covered, Top
<1> QED BY <1>1, <1>2

LEMMA EndNestedInv ==
  ASSUME BInv, stack[Top].drains > 0, EndNested, UNCHANGED raised
  PROVE  BInv' /\ (DepthInv => DepthInv') /\ (Covered => Covered')
<1> USE DEF BInv
<1>1. stack[Top].drains \in Nat /\ stack[Top].drains - 1 \in Nat
  <2>1. stack[Top] \in Frame
    BY DEF BatchTypeOK, Top
  <2> QED BY <2>1 DEF Frame
<1>2. stack' = [stack EXCEPT ![Top].drains = stack[Top].drains - 1]
  BY DEF EndNested
<1>3. /\ stack' \in Seq(Frame) /\ Top' = Top /\ Top \in Nat \ {0}
      /\ stack'[Top].drains = stack[Top].drains - 1
      /\ \A i \in 1 .. Top : stack'[i].todo = stack[i].todo
      /\ \A i \in 1 .. Top - 1 : stack'[i] = stack[i]
  BY <1>1, <1>2, DrainsChanged
<1>4. owedLists' = owedLists /\ direct' = direct /\ \A i \in 1 .. Top : Due(stack'[i]) = Due(stack[i])
  BY SMTT(30), <1>3 DEF EndNested, Due
<1>5. /\ gDrainState' \in [depth : Nat, suppress : BOOLEAN, needsResync : BOOLEAN,
                           queuedChanges : Nat, dirtyLists : Seq(Lists)]
      /\ gDrainState'.suppress = gDrainState.suppress
      /\ gDrainState'.needsResync = gDrainState.needsResync
      /\ gDrainState'.dirtyLists = gDrainState.dirtyLists
      /\ gDrainState.depth # 0 => gDrainState'.depth = gDrainState.depth - 1
      /\ gDrainState.depth # 1 /\ gDrainState.depth \in Nat
  BY SMTT(30) DEF EndNested, BatchTypeOK
<1>6. BatchTypeOK' /\ TableInv' /\ FrameInv'
  <2>1. BatchTypeOK'
    BY <1>3, <1>4, <1>5 DEF BatchTypeOK, Top
  <2>2. TableInv' /\ FrameInv'
    BY <1>3, <1>5 DEF TableInv, FrameInv
  <2> QED BY <2>1, <2>2
<1>7. DepthInv => DepthInv'
  <2> SUFFICES ASSUME DepthInv PROVE DepthInv'
    OBVIOUS
  <2>1. gDrainState'.depth = stack'[Top].drains /\ gDrainState'.depth # 0
    BY <1>1, <1>3, <1>5 DEF DepthInv
  <2>2. \A i \in 1 .. Top - 1 : stack'[i].drains = 0
    BY <1>3 DEF DepthInv
  <2> QED BY <1>3, <2>1, <2>2 DEF DepthInv
<1>8. Covered => Covered'
  BY <1>3, <1>4, <1>5 DEF Covered
<1> QED BY <1>6, <1>7, <1>8

LEMMA EndOutermostInv ==
  ASSUME BInv, stack[Top].drains > 0, EndOutermost, UNCHANGED raised
  PROVE  BInv' /\ (DepthInv => DepthInv') /\ (DepthInv /\ Covered => Covered')
<1> USE DEF BInv
<1> DEFINE returned == [stack EXCEPT ![Top].drains = stack[Top].drains - 1]
           lists == gDrainState.dirtyLists
<1>1. stack[Top].drains \in Nat /\ stack[Top].drains - 1 \in Nat /\ Top \in Nat \ {0}
  <2>1. stack[Top] \in Frame /\ Top \in Nat \ {0}
    BY DEF BatchTypeOK, Top
  <2> QED BY <2>1 DEF Frame
<1>2. /\ returned \in Seq(Frame) /\ Len(returned) = Top
      /\ returned[Top].drains = stack[Top].drains - 1
      /\ \A i \in 1 .. Top : returned[i].todo = stack[i].todo
      /\ \A i \in 1 .. Top - 1 : returned[i] = stack[i]
  <2>1. stack \in Seq(Frame) /\ stack[Top] \in Frame /\ Top = Len(stack)
    BY DEF BatchTypeOK, Top
  <2> DEFINE frame == [stack[Top] EXCEPT !.drains = stack[Top].drains - 1]
  <2>2. frame \in Frame /\ frame.drains = stack[Top].drains - 1 /\ frame.todo = stack[Top].todo
    BY <1>1, <2>1 DEF Frame
  <2>3. returned = [stack EXCEPT ![Top] = frame]
    OBVIOUS
  <2> HIDE DEF frame, returned
  <2>4. /\ returned \in Seq(Frame) /\ Len(returned) = Top /\ returned[Top] = frame
        /\ \A i \in 1 .. Top - 1 : returned[i] = stack[i]
    BY <1>1, <2>1, <2>2, <2>3
  <2> QED BY <1>1, <2>2, <2>4
<1>3. \A i \in 1 .. Top : Due(returned[i]) = Due(stack[i])
  BY <1>2 DEF Due
<1>4. /\ gDrainState' = DrainState /\ gDrainState'.depth = 0 /\ ~gDrainState'.suppress
      /\ ~gDrainState'.needsResync /\ gDrainState'.dirtyLists = <<>>
      /\ gDrainState' \in [depth : Nat, suppress : BOOLEAN, needsResync : BOOLEAN,
                           queuedChanges : Nat, dirtyLists : Seq(Lists)]
  BY DEF EndOutermost, DrainState
<1>5. gDrainState.depth = 1 /\ direct' = {}
  BY DEF EndOutermost
<1>6. DepthInv => \A i \in 1 .. Top : returned[i].drains = 0
  BY <1>1, <1>2, <1>5 DEF DepthInv
<1>7. lists \in Seq(Lists) /\ owedLists \subseteq Lists
  BY DEF BatchTypeOK
<1>8. CASE gDrainState.suppress /\ gDrainState.needsResync
  <2> DEFINE ending == [todo |-> lists, drains |-> 0]
  <2>1. stack' = Append(returned, ending) /\ owedLists' = owedLists \ {lists[1]}
    BY <1>8 DEF EndOutermost
  <2>2. lists # <<>> /\ ending \in Frame /\ ending.todo = lists /\ ending.drains = 0
    BY <1>7, <1>8 DEF TableInv, Frame
  <2> HIDE DEF returned, lists, ending
  <2>3. /\ stack' \in Seq(Frame) /\ Len(stack') = Top + 1 /\ stack'[Top + 1] = ending
        /\ \A i \in 1 .. Top : stack'[i] = returned[i]
    BY <1>1, <1>2, <2>1, <2>2
  <2>4. Top' = Top + 1 /\ stack' # <<>>
    BY <1>1, <2>3 DEF Top
  <2>5. BatchTypeOK'
    <3>1. owedLists' \subseteq Lists /\ direct' \subseteq Lists /\ Len(gDrainState'.dirtyLists) = 0
      BY <1>4, <1>5, <1>7, <2>1
    <3> QED BY SMTT(30), <1>4, <2>3, <2>4, <3>1 DEF BatchTypeOK
  <2>6. TableInv' /\ FrameInv'
    <3>1. \A i \in 2 .. Top + 1 : stack'[i].todo # <<>>
      BY <1>1, <1>2, <2>2, <2>3 DEF FrameInv
    <3>2. stack'[1].todo = <<>>
      BY <1>1, <1>2, <2>3 DEF FrameInv
    <3> QED BY <1>4, <2>4, <3>1, <3>2 DEF TableInv, FrameInv
  <2>7. DepthInv => DepthInv'
    BY <1>1, <1>4, <1>6, <2>2, <2>3, <2>4 DEF DepthInv
  <2>8. Covered => Covered'
    <3> SUFFICES ASSUME Covered, NEW l \in owedLists'
                 PROVE  \E i \in 1 .. Top + 1 : l \in Due(stack'[i])
      BY <2>4 DEF Covered
    <3>1. l \in owedLists /\ l # lists[1]
      BY <2>1
    <3>2. CASE l \in Elems(lists)
      <4>1. PICK i \in 1 .. Len(lists) : l = lists[i]
        BY <3>2 DEF Elems
      <4>2. i \in 2 .. Len(lists)
        BY <1>7, <3>1, <4>1
      <4>3. l \in Due(ending)
        BY <2>2, <4>1, <4>2 DEF Due
      <4> QED BY <1>1, <2>3, <4>3
    <3>3. CASE \E i \in 1 .. Top : l \in Due(stack[i])
      <4>1. PICK i \in 1 .. Top : l \in Due(stack[i])
        BY <3>3
      <4>2. i \in 1 .. Top + 1 /\ l \in Due(stack'[i])
        BY <1>1, <1>3, <2>3, <4>1
      <4> QED BY <4>2
    <3> QED BY <3>1, <3>2, <3>3 DEF Covered, lists
  <2> QED BY <2>5, <2>6, <2>7, <2>8
<1>9. CASE ~(gDrainState.suppress /\ gDrainState.needsResync)
  <2>1. stack' = returned /\ owedLists' = owedLists
    BY <1>9 DEF EndOutermost
  <2>2. lists = <<>> /\ Elems(lists) = {}
    <3>1. lists = <<>>
      BY <1>9 DEF TableInv, BatchTypeOK
    <3> QED BY <3>1 DEF Elems
  <2> HIDE DEF returned, lists
  <2>3. Top' = Top /\ stack' # <<>>
    BY <1>1, <1>2, <2>1 DEF Top
  <2>4. BatchTypeOK'
    BY <1>2, <1>4, <1>5, <1>7, <2>1, <2>3 DEF BatchTypeOK
  <2>5. TableInv' /\ FrameInv'
    BY <1>1, <1>2, <1>4, <2>1, <2>3 DEF TableInv, FrameInv
  <2>6. DepthInv => DepthInv'
    BY <1>1, <1>4, <1>6, <2>1, <2>3 DEF DepthInv
  <2>7. Covered => Covered'
    BY <1>3, <2>1, <2>2, <2>3 DEF Covered, lists
  <2> QED BY <2>4, <2>5, <2>6, <2>7
<1> QED BY <1>8, <1>9

LEMMA ResyncReturnInv ==
  ASSUME BInv, ResyncReturn, UNCHANGED raised
  PROVE  BInv' /\ (DepthInv => DepthInv') /\ (DepthInv /\ Covered => Covered')
<1> USE DEF BInv
<1> DEFINE todo == stack[Top].todo
           rest == Tail(todo)
<1>1. /\ stack \in Seq(Frame) /\ Top = Len(stack) /\ Top \in Nat /\ Top > 1 /\ stack[Top].drains = 0
      /\ UNCHANGED <<gDrainState, direct>> /\ stack[Top] \in Frame
  BY DEF ResyncReturn, BatchTypeOK, Top
<1>2. todo \in Seq(Lists) /\ todo # <<>>
  BY <1>1 DEF FrameInv, Frame
<1>3. /\ rest \in Seq(Lists) /\ Len(rest) = Len(todo) - 1 /\ Len(todo) \in Nat \ {0}
      /\ \A i \in 1 .. Len(rest) : rest[i] = todo[i + 1]
  BY <1>2
<1>4. CASE rest = <<>>
  <2>1. stack' = SubSeq(stack, 1, Top - 1) /\ owedLists' = owedLists
    BY <1>4 DEF ResyncReturn
  <2>2. /\ stack' \in Seq(Frame) /\ Len(stack') = Top - 1 /\ Top' = Top - 1 /\ stack' # <<>>
        /\ \A i \in 1 .. Top - 1 : stack'[i] = stack[i]
    <3>1. Top - 1 \in Nat /\ Top - 1 <= Len(stack) /\ Top - 1 # 0
      BY <1>1
    <3>2. /\ stack' \in Seq(Frame) /\ Len(stack') = Top - 1
          /\ \A i \in 1 .. Top - 1 : stack'[i] = stack[i]
      BY <1>1, <2>1, <3>1, PrefixFacts
    <3> QED BY <3>1, <3>2 DEF Top
  <2>3. BInv'
    BY SMTT(30), <1>1, <2>1, <2>2 DEF BatchTypeOK, TableInv, FrameInv
  <2>4. DepthInv => DepthInv'
    BY <1>1, <2>2 DEF DepthInv
  <2>5. Covered => Covered'
    <3>1. Due(stack[Top]) = {}
      <4> HIDE DEF rest
      <4>1. Len(rest) = 0
        BY <1>4
      <4>2. 2 .. Len(todo) = {}
        BY <1>3, <4>1
      <4> QED BY <4>2 DEF Due
    <3> SUFFICES ASSUME Covered, NEW l \in owedLists, ~(l \in Elems(gDrainState.dirtyLists))
                 PROVE  \E i \in 1 .. Top - 1 : l \in Due(stack'[i])
      BY <1>1, <2>1, <2>2 DEF Covered
    <3>2. PICK i \in 1 .. Top : l \in Due(stack[i])
      BY DEF Covered
    <3>3. i \in 1 .. Top - 1 /\ l \in Due(stack'[i])
      BY SMTT(30), <1>1, <2>2, <3>1, <3>2
    <3> QED BY <3>3
  <2> QED BY <2>3, <2>4, <2>5
<1>5. CASE rest # <<>>
  <2> DEFINE frame == [stack[Top] EXCEPT !.todo = rest]
  <2>1. stack' = [stack EXCEPT ![Top] = frame] /\ owedLists' = owedLists \ {rest[1]}
    BY <1>5 DEF ResyncReturn
  <2>2. frame \in Frame /\ frame.todo = rest /\ frame.drains = 0
    BY <1>1, <1>3 DEF Frame
  <2> HIDE DEF rest, frame
  <2>3. /\ stack' \in Seq(Frame) /\ Len(stack') = Top /\ Top' = Top /\ stack'[Top] = frame
        /\ stack' # <<>> /\ \A i \in 1 .. Top - 1 : stack'[i] = stack[i]
    BY <1>1, <2>1, <2>2 DEF Top
  <2>4. BatchTypeOK' /\ TableInv' /\ FrameInv'
    BY <1>1, <1>5, <2>1, <2>2, <2>3 DEF BatchTypeOK, TableInv, FrameInv
  <2>5. DepthInv => DepthInv'
    BY <1>1, <2>2, <2>3 DEF DepthInv
  <2>6. Covered => Covered'
    <3> SUFFICES ASSUME Covered, NEW l \in owedLists', ~(l \in Elems(gDrainState.dirtyLists))
                 PROVE  \E i \in 1 .. Top : l \in Due(stack'[i])
      BY <1>1, <2>3 DEF Covered
    <3>1. l \in owedLists /\ l # rest[1]
      BY <2>1
    <3>2. PICK i \in 1 .. Top : l \in Due(stack[i])
      BY <3>1 DEF Covered
    <3>3. CASE i = Top
      <4>1. PICK j \in 2 .. Len(todo) : l = todo[j]
        BY <3>2, <3>3 DEF Due
      <4>2. j - 1 \in 1 .. Len(rest) /\ l = rest[j - 1]
        BY <1>3, <4>1
      <4>3. j - 1 \in 2 .. Len(rest)
        BY <1>3, <3>1, <4>2
      <4>4. l \in Due(stack'[Top])
        BY <2>2, <2>3, <4>2, <4>3 DEF Due
      <4> QED BY <1>1, <4>4
    <3>4. CASE i # Top
      BY <1>1, <2>3, <3>2, <3>4
    <3> QED BY <3>3, <3>4
  <2> QED BY <2>4, <2>5, <2>6
<1> QED BY <1>4, <1>5

LEMMA RaiseInv == BInv /\ Raise => BInv'
<1> SUFFICES ASSUME BInv, Raise PROVE BInv'
  OBVIOUS
<1> USE DEF BInv
<1>a. PICK frames \in 1 .. Top : \E d \in 0 .. stack[frames].drains :
      /\ stack' = [SubSeq(stack, 1, frames) EXCEPT ![frames].drains = d]
      /\ owedLists' = owedLists \union { stack[i].todo[1] : i \in frames + 1 .. Top }
  BY DEF Raise
<1>b. PICK d \in 0 .. stack[frames].drains :
      /\ stack' = [SubSeq(stack, 1, frames) EXCEPT ![frames].drains = d]
      /\ owedLists' = owedLists \union { stack[i].todo[1] : i \in frames + 1 .. Top }
  BY <1>a
<1>1. /\ stack \in Seq(Frame) /\ Top = Len(stack) /\ Top \in Nat \ {0} /\ frames \in Nat
      /\ UNCHANGED <<gDrainState, direct>> /\ raised' /\ stack[frames] \in Frame
  BY SMTT(30) DEF Raise, BatchTypeOK, Top
<1> DEFINE kept == SubSeq(stack, 1, frames)
           frame == [kept[frames] EXCEPT !.drains = d]
<1>2. kept \in Seq(Frame) /\ Len(kept) = frames /\ \A i \in 1 .. frames : kept[i] = stack[i]
  BY <1>1, PrefixFacts
<1>3. frame \in Frame /\ frame.todo = stack[frames].todo
  <2>1. stack[frames].drains \in Nat
    BY <1>1 DEF Frame
  <2>2. d \in Nat /\ kept[frames] = stack[frames]
    BY <1>1, <1>2, <2>1
  <2> QED BY <1>1, <2>2 DEF Frame
<1>4. stack' = [kept EXCEPT ![frames] = frame]
  BY <1>b
<1> HIDE DEF kept, frame
<1>5. /\ stack' \in Seq(Frame) /\ Top' = frames /\ stack' # <<>>
      /\ \A i \in 1 .. frames : stack'[i].todo = stack[i].todo
  <2>1. /\ stack' \in Seq(Frame) /\ Len(stack') = frames /\ stack'[frames] = frame
        /\ \A i \in 1 .. frames - 1 : stack'[i] = kept[i]
    <3>1. frames \in 1 .. Len(kept) /\ kept \in Seq(Frame) /\ frame \in Frame
      BY <1>1, <1>2, <1>3
    <3>2. /\ stack' \in Seq(Frame) /\ Len(stack') = Len(kept) /\ stack'[frames] = frame
          /\ \A i \in 1 .. Len(kept) : i # frames => stack'[i] = kept[i]
      BY <1>4, <3>1, ReplaceFacts
    <3>3. \A i \in 1 .. frames - 1 : i \in 1 .. Len(kept) /\ i # frames
      BY <1>1, <1>2
    <3> QED BY <1>2, <3>2, <3>3
  <2>2. \A i \in 1 .. frames : stack'[i].todo = stack[i].todo
    BY <1>1, <1>2, <1>3, <2>1
  <2>3. Len(stack') # 0
    BY <1>1, <2>1
  <2> QED BY <2>1, <2>2, <2>3 DEF Top
<1>6. owedLists' \subseteq Lists
  <2> SUFFICES ASSUME NEW i \in frames + 1 .. Top PROVE stack[i].todo[1] \in Lists
    BY <1>b DEF BatchTypeOK
  <2>1. i \in 2 .. Top /\ stack[i] \in Frame
    BY <1>1
  <2>2. stack[i].todo \in Seq(Lists) /\ stack[i].todo # <<>>
    BY <2>1 DEF FrameInv, Frame
  <2> QED BY <2>2
<1>7. BatchTypeOK' /\ TableInv'
  BY <1>1, <1>5, <1>6 DEF BatchTypeOK, TableInv
<1>8. FrameInv'
  <2>1. 1 \in 1 .. frames /\ \A i \in 2 .. frames : i \in 2 .. Top /\ i \in 1 .. frames
    BY <1>1
  <2> QED BY <1>5, <2>1 DEF FrameInv
<1> QED BY <1>7, <1>8

--------------------------------------------------------------------------------
\* Only an exception sets the history variable.
LEMMA RaisedUnchanged == Begin \/ Dispatch \/ End \/ ResyncReturn => UNCHANGED raised
BY DEF Begin, Dispatch, Defer, PassThrough, End, ResyncReturn

LEMMA NextBInv == BInv /\ [BatchNext]_batchVars => BInv'
<1> SUFFICES ASSUME BInv, [BatchNext]_batchVars PROVE BInv'
  OBVIOUS
<1>1. CASE UNCHANGED batchVars
  BY <1>1 DEF BInv, BatchTypeOK, TableInv, FrameInv, Top, batchVars
<1> QED BY <1>1, RaisedUnchanged, BeginInv, DispatchInv, EndNestedInv, EndOutermostInv, ResyncReturnInv,
        RaiseInv DEF BatchNext, End

\* Types, exceptions included; the table of dirty lists never overflows.
THEOREM BatchTypeCorrect == BatchSpec => []BatchTypeOK
<1>1. BatchInit => BInv
  BY InitInv DEF CleanInv
<1> QED BY <1>1, NextBInv, PTL DEF BatchSpec, BInv

LEMMA NextCleanInv == CleanInv /\ [BatchNext]_batchVars => CleanInv'
<1> SUFFICES ASSUME CleanInv, [BatchNext]_batchVars PROVE CleanInv'
  OBVIOUS
<1>1. CASE UNCHANGED batchVars
  BY <1>1 DEF CleanInv, BInv, BatchTypeOK, TableInv, FrameInv, DepthInv, Covered, Top, batchVars
<1>2. CASE Begin \/ Dispatch \/ End \/ ResyncReturn
  BY <1>2, RaisedUnchanged, BeginInv, DispatchInv, EndNestedInv, EndOutermostInv, ResyncReturnInv DEF End, CleanInv
<1>3. CASE Raise
  <2>1. raised'
    BY <1>3 DEF Raise
  <2> QED BY <1>3, <2>1, RaiseInv DEF CleanInv
<1> QED BY <1>1, <1>2, <1>3 DEF BatchNext

\* While Leeyes' code raises nothing, no deferred change is ever without a list that will
\* be resynchronised, whatever the nesting.
THEOREM DebtCoveredCorrect == BatchSpec => []DebtCovered
BY InitInv, NextCleanInv, PTL DEF BatchSpec, CleanInv, DebtCovered

\* And when Leeyes is back in its message loop nothing is left to resynchronise.
THEOREM NothingLostCorrect == BatchSpec => []NothingLost
<1>1. CleanInv => NothingLost
  <2> SUFFICES ASSUME CleanInv, ~raised, Idle, NEW l \in owedLists PROVE FALSE
    BY DEF NothingLost, NothingDiscarded
  <2>1. Top = 1 /\ gDrainState.depth = 0 /\ gDrainState.dirtyLists = <<>>
    BY DEF CleanInv, BInv, DepthInv, TableInv, Idle
  <2>2. Elems(gDrainState.dirtyLists) = {} /\ Due(stack[1]) = {}
    BY <2>1 DEF Elems, Due, CleanInv, BInv, FrameInv
  <2>3. \A i \in 1 .. Top : i = 1
    BY <2>1
  <2> QED BY <2>2, <2>3 DEF CleanInv, Covered
<1> QED BY <1>1, InitInv, NextCleanInv, PTL DEF BatchSpec

\* A resynchronisation is never itself subject to deferral.
THEOREM ResyncUnsuppressedCorrect == BatchSpec => []ResyncUnsuppressed
<1>1. CleanInv => ResyncUnsuppressed
  BY DEF CleanInv, DepthInv, ResyncUnsuppressed
<1> QED BY <1>1, InitInv, NextCleanInv, PTL DEF BatchSpec

--------------------------------------------------------------------------------
\* A suppressed drain leaves a list to Leeyes only once its table is full, and a full table
\* stays so until the outermost End.
TreatInv ==
  /\ OneTreatment
  /\ Distinct(gDrainState.dirtyLists)
  /\ gDrainState.suppress /\ direct # {} => Len(gDrainState.dirtyLists) = kMaximumDirtyLists

\* The lists that the frames have left are those they had, if only drains changed.
LEMMA TodosKept ==
  ASSUME BatchTypeOK, NEW d \in Nat, stack' = [stack EXCEPT ![Top].drains = d],
         \A i \in 1 .. Top : Distinct(stack[i].todo)
  PROVE  \A i \in 1 .. Top' : Distinct(stack'[i].todo)
<1>1. Top' = Top /\ \A i \in 1 .. Top : stack'[i].todo = stack[i].todo
  BY DrainsChanged
<1> QED BY <1>1

LEMMA BeginTreats == BInv /\ TreatInv /\ Begin => TreatInv'
<1> SUFFICES ASSUME BInv, TreatInv, Begin PROVE TreatInv'
  OBVIOUS
<1>1. \A i \in 1 .. Top' : Distinct(stack'[i].todo)
  <2>1. stack[Top] \in Frame
    BY DEF BInv, BatchTypeOK, Top
  <2>2. stack[Top].drains + 1 \in Nat /\ stack' = [stack EXCEPT ![Top].drains = stack[Top].drains + 1]
    BY <2>1 DEF Begin, Frame
  <2> QED BY <2>2, TodosKept DEF BInv, TreatInv, OneTreatment
<1>2. CASE BeginNested
  <2>1. /\ gDrainState'.dirtyLists = gDrainState.dirtyLists /\ gDrainState'.suppress = gDrainState.suppress
        /\ direct' = direct
    BY <1>2 DEF BeginNested, BInv, BatchTypeOK
  <2> QED BY <1>1, <2>1 DEF TreatInv, OneTreatment
<1>3. CASE BeginOutermost
  <2>1. gDrainState'.dirtyLists = <<>> /\ direct' = {}
    BY <1>3 DEF BeginOutermost, DrainState
  <2>2. Distinct(gDrainState'.dirtyLists)
    BY <2>1 DEF Distinct
  <2> QED BY <1>1, <2>1, <2>2 DEF TreatInv, OneTreatment
<1> QED BY <1>2, <1>3 DEF Begin

LEMMA DispatchTreats == BInv /\ TreatInv /\ Dispatch => TreatInv'
<1> SUFFICES ASSUME BInv, TreatInv, Dispatch PROVE TreatInv'
  OBVIOUS
<1> PICK l \in Lists \union {NullList}, raw \in RawActions : Defer(l, raw) \/ PassThrough(l, raw)
  BY DEF Dispatch
<1> DEFINE table == gDrainState.dirtyLists
           table2 == gDrainState'.dirtyLists
<1>1. UNCHANGED stack /\ table \in Seq(Lists) /\ Len(table) <= kMaximumDirtyLists
  BY DEF Defer, PassThrough, BInv, BatchTypeOK
<1>2. \A i \in 1 .. Top' : Distinct(stack'[i].todo)
  BY <1>1 DEF TreatInv, OneTreatment, Top
<1>3. CASE Defer(l, raw)
  <2>1. /\ gDrainState.suppress /\ gDrainState'.suppress /\ CanRemember(l) /\ direct' = direct
        /\ table2 = Remembered(l) /\ l \in Lists
    BY <1>3 DEF Defer, CanRemember, BInv, BatchTypeOK
  <2>2. CASE l \in Elems(table)
    <3>1. table2 = table
      BY <2>1, <2>2 DEF Remembered
    <3> QED BY <1>2, <2>1, <3>1 DEF TreatInv, OneTreatment
  <2>3. CASE l \notin Elems(table)
    <3>1. table2 = Append(table, l) /\ Len(table) < kMaximumDirtyLists
      BY <2>1, <2>3 DEF Remembered, CanRemember
    <3>2. direct = {}
      BY <1>1, <2>1, <3>1 DEF TreatInv
    <3> HIDE DEF table2
    <3>3. /\ Len(table2) = Len(table) + 1 /\ Len(table) \in Nat /\ table2[Len(table) + 1] = l
          /\ \A i \in 1 .. Len(table) : table2[i] = table[i]
      BY <1>1, <2>1, <3>1
    <3>4. Distinct(table2)
      <4> HIDE DEF table
      <4> SUFFICES ASSUME NEW i \in 1 .. Len(table2), NEW j \in 1 .. Len(table2), table2[i] = table2[j]
                   PROVE  i = j
        BY DEF Distinct
      <4>1. CASE i \in 1 .. Len(table) /\ j \in 1 .. Len(table)
        BY <3>3, <4>1 DEF TreatInv, Distinct, table
      <4>2. \A k \in 1 .. Len(table) : table2[k] # l
        BY <2>3, <3>3 DEF Elems
      <4> QED BY <3>3, <4>1, <4>2
    <3> QED BY <1>2, <2>1, <3>2, <3>4 DEF TreatInv, OneTreatment, table2
  <2> QED BY <2>2, <2>3
<1>4. CASE PassThrough(l, raw)
  <2>1. UNCHANGED gDrainState
    BY <1>4 DEF PassThrough
  <2>2. CASE direct' = direct
    BY <1>2, <2>1, <2>2 DEF TreatInv, OneTreatment
  <2>3. CASE direct' # direct
    <3>1. direct' = direct \union {l} /\ l # NullList /\ (~gDrainState.suppress \/ ~CanRemember(l))
      BY <1>4, <2>3 DEF PassThrough
    <3>2. CASE ~gDrainState.suppress
      <4>1. Elems(table) = {}
        BY <3>2 DEF BInv, TableInv, Elems
      <4> QED BY <1>2, <2>1, <3>2, <4>1 DEF TreatInv, OneTreatment
    <3>3. CASE ~CanRemember(l)
      <4>1. l \notin Elems(table) /\ Len(table) = kMaximumDirtyLists
        BY <1>1, <3>1, <3>3 DEF CanRemember
      <4> QED BY <1>2, <2>1, <3>1, <4>1 DEF TreatInv, OneTreatment
    <3> QED BY <3>1, <3>2, <3>3
  <2> QED BY <2>2, <2>3
<1> QED BY <1>3, <1>4

LEMMA EndNestedTreats == BInv /\ TreatInv /\ stack[Top].drains > 0 /\ EndNested => TreatInv'
<1> SUFFICES ASSUME BInv, TreatInv, stack[Top].drains > 0, EndNested PROVE TreatInv'
  OBVIOUS
<1>1. \A i \in 1 .. Top' : Distinct(stack'[i].todo)
  <2>1. stack[Top] \in Frame
    BY DEF BInv, BatchTypeOK, Top
  <2>2. stack[Top].drains - 1 \in Nat /\ stack' = [stack EXCEPT ![Top].drains = stack[Top].drains - 1]
    BY <2>1 DEF EndNested, Frame
  <2> QED BY <2>2, TodosKept DEF BInv, TreatInv, OneTreatment
<1>2. /\ gDrainState'.dirtyLists = gDrainState.dirtyLists /\ gDrainState'.suppress = gDrainState.suppress
      /\ direct' = direct
  BY DEF EndNested, BInv, BatchTypeOK
<1> QED BY <1>1, <1>2 DEF TreatInv, OneTreatment

LEMMA EndOutermostTreats == BInv /\ TreatInv /\ stack[Top].drains > 0 /\ EndOutermost => TreatInv'
<1> SUFFICES ASSUME BInv, TreatInv, stack[Top].drains > 0, EndOutermost PROVE TreatInv'
  OBVIOUS
<1> DEFINE returned == [stack EXCEPT ![Top].drains = stack[Top].drains - 1]
           ending == [todo |-> gDrainState.dirtyLists, drains |-> 0]
<1>1. gDrainState'.dirtyLists = <<>> /\ direct' = {} /\ Distinct(<<>>) /\ Top \in Nat \ {0} /\ Top = Len(stack)
  BY DEF EndOutermost, DrainState, Distinct, BInv, BatchTypeOK, Top
<1>2. /\ returned \in Seq(Frame) /\ Len(returned) = Top
      /\ \A i \in 1 .. Top : Distinct(returned[i].todo)
  <2>1. stack \in Seq(Frame) /\ stack[Top] \in Frame
    BY DEF BInv, BatchTypeOK, Top
  <2> DEFINE frame == [stack[Top] EXCEPT !.drains = stack[Top].drains - 1]
  <2>2. frame \in Frame /\ frame.todo = stack[Top].todo
    <3>1. stack[Top].drains - 1 \in Nat
      BY <2>1 DEF Frame
    <3> QED BY <2>1, <3>1 DEF Frame
  <2>3. returned = [stack EXCEPT ![Top] = frame]
    OBVIOUS
  <2> HIDE DEF frame, returned
  <2>4. /\ returned \in Seq(Frame) /\ Len(returned) = Top /\ returned[Top] = frame
        /\ \A i \in 1 .. Top : i # Top => returned[i] = stack[i]
    BY <1>1, <2>1, <2>2, <2>3, ReplaceFacts
  <2>5. \A i \in 1 .. Top : returned[i].todo = stack[i].todo
    BY <2>2, <2>4
  <2> QED BY <2>4, <2>5 DEF TreatInv, OneTreatment
<1>3. CASE stack' = returned
  <2> HIDE DEF returned
  <2> QED BY <1>1, <1>2, <1>3 DEF TreatInv, OneTreatment, Top, Elems
<1>4. CASE stack' = Append(returned, ending)
  <2>1. ending.todo = gDrainState.dirtyLists /\ ending \in Frame
    BY DEF Frame, BInv, BatchTypeOK
  <2> HIDE DEF returned, ending
  <2>2. /\ Top' = Top + 1 /\ stack'[Top + 1] = ending
        /\ \A i \in 1 .. Top : stack'[i] = returned[i]
    BY <1>1, <1>2, <1>4, <2>1 DEF Top
  <2>3. \A i \in 1 .. Top' : Distinct(stack'[i].todo)
    BY <1>1, <1>2, <2>1, <2>2 DEF TreatInv
  <2> QED BY <1>1, <2>3 DEF TreatInv, OneTreatment, Elems
<1> QED BY <1>3, <1>4 DEF EndOutermost

LEMMA ResyncReturnTreats == BInv /\ TreatInv /\ ResyncReturn => TreatInv'
<1> SUFFICES ASSUME BInv, TreatInv, ResyncReturn PROVE TreatInv'
  OBVIOUS
<1> DEFINE todo == stack[Top].todo
           rest == Tail(todo)
<1>1. /\ stack \in Seq(Frame) /\ Top = Len(stack) /\ Top \in Nat /\ Top > 1
      /\ UNCHANGED <<gDrainState, direct>> /\ stack[Top] \in Frame
  BY DEF ResyncReturn, BInv, BatchTypeOK, Top
<1>2. todo \in Seq(Lists) /\ todo # <<>> /\ Distinct(todo)
  BY <1>1 DEF BInv, FrameInv, Frame, TreatInv, OneTreatment
<1>3. rest \in Seq(Lists) /\ Distinct(rest)
  <2>1. /\ rest \in Seq(Lists) /\ Len(rest) = Len(todo) - 1 /\ Len(todo) \in Nat \ {0}
        /\ \A i \in 1 .. Len(rest) : rest[i] = todo[i + 1]
    BY <1>2
  <2> HIDE DEF rest, todo
  <2>2. \A i \in 1 .. Len(rest) : i + 1 \in 1 .. Len(todo)
    BY <2>1
  <2> QED BY <1>2, <2>1, <2>2 DEF Distinct
<1>4. CASE stack' = SubSeq(stack, 1, Top - 1)
  <2>1. Top - 1 \in Nat /\ Top - 1 <= Len(stack)
    BY <1>1
  <2>2. Len(stack') = Top - 1 /\ \A i \in 1 .. Top - 1 : stack'[i] = stack[i]
    BY <1>1, <1>4, <2>1, PrefixFacts
  <2> QED BY <1>1, <2>2 DEF TreatInv, OneTreatment, Top
<1>5. CASE stack' = [stack EXCEPT ![Top].todo = rest]
  <2> DEFINE frame == [stack[Top] EXCEPT !.todo = rest]
  <2>1. stack' = [stack EXCEPT ![Top] = frame]
    BY <1>5
  <2>2. frame \in Frame /\ frame.todo = rest
    BY <1>1, <1>3 DEF Frame
  <2> HIDE DEF rest, frame
  <2>3. /\ Len(stack') = Top /\ stack'[Top] = frame
        /\ \A i \in 1 .. Top : i # Top => stack'[i] = stack[i]
    BY <1>1, <2>1, <2>2, ReplaceFacts
  <2>4. \A i \in 1 .. Top : Distinct(stack'[i].todo)
    BY <1>3, <2>2, <2>3 DEF TreatInv, OneTreatment
  <2> QED BY <1>1, <2>3, <2>4 DEF TreatInv, OneTreatment, Top
<1> QED BY <1>4, <1>5 DEF ResyncReturn

LEMMA RaiseTreats == BInv /\ TreatInv /\ Raise => TreatInv'
<1> SUFFICES ASSUME BInv, TreatInv, Raise PROVE TreatInv'
  OBVIOUS
<1>1. PICK frames \in 1 .. Top : \E d \in 0 .. stack[frames].drains :
        stack' = [SubSeq(stack, 1, frames) EXCEPT ![frames].drains = d]
  BY DEF Raise
<1>2. PICK d \in 0 .. stack[frames].drains : stack' = [SubSeq(stack, 1, frames) EXCEPT ![frames].drains = d]
  BY <1>1
<1>3. /\ stack \in Seq(Frame) /\ Top = Len(stack) /\ Top \in Nat \ {0} /\ frames \in Nat
      /\ UNCHANGED <<gDrainState, direct>> /\ stack[frames] \in Frame
  BY SMTT(30) DEF Raise, BInv, BatchTypeOK, Top
<1> DEFINE kept == SubSeq(stack, 1, frames)
           frame == [kept[frames] EXCEPT !.drains = d]
<1>4. kept \in Seq(Frame) /\ Len(kept) = frames /\ \A i \in 1 .. frames : kept[i] = stack[i]
  BY <1>3, PrefixFacts
<1>5. frame \in Frame /\ frame.todo = stack[frames].todo
  <2>1. stack[frames].drains \in Nat
    BY <1>3 DEF Frame
  <2>2. d \in Nat /\ kept[frames] = stack[frames]
    BY <1>3, <1>4, <2>1
  <2> QED BY <1>3, <2>2 DEF Frame
<1>6. stack' = [kept EXCEPT ![frames] = frame]
  BY <1>2
<1> HIDE DEF kept, frame
<1>7. /\ Len(stack') = frames /\ stack'[frames] = frame
      /\ \A i \in 1 .. frames : i # frames => stack'[i] = kept[i]
  <2>1. frames \in 1 .. Len(kept) /\ kept \in Seq(Frame) /\ frame \in Frame
    BY <1>3, <1>4, <1>5
  <2> QED BY <1>4, <1>6, <2>1, ReplaceFacts
<1>8. \A i \in 1 .. frames : i \in 1 .. Top /\ stack'[i].todo = stack[i].todo
  BY <1>3, <1>4, <1>5, <1>7
<1> QED BY <1>3, <1>7, <1>8 DEF TreatInv, OneTreatment, Top

\* A list is updated by Leeyes or resynchronised in one drain, never both, and is in no
\* resynchronisation twice, also after exceptions.
THEOREM OneTreatmentCorrect == BatchSpec => []OneTreatment
<1>1. BatchInit => BInv /\ TreatInv
  <2>1. BatchInit => BInv
    BY InitInv DEF CleanInv
  <2>2. BatchInit => TreatInv
    BY DEF BatchInit, TreatInv, OneTreatment, Distinct, Elems, DrainState, MessageLoop, Top
  <2> QED BY <2>1, <2>2
<1>2. BInv /\ TreatInv /\ [BatchNext]_batchVars => TreatInv'
  <2>1. TreatInv /\ UNCHANGED batchVars => TreatInv'
    BY DEF TreatInv, OneTreatment, Top, batchVars
  <2> QED BY <2>1, BeginTreats, DispatchTreats, EndNestedTreats, EndOutermostTreats, ResyncReturnTreats,
          RaiseTreats DEF BatchNext, End
<1> QED BY <1>1, <1>2, NextBInv, PTL DEF BatchSpec, TreatInv

================================================================================
