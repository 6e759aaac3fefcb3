------------------------------ MODULE TraceBuffer ------------------------------
(***************************************************************************)
(* leeyes_internal/trace_buffer.cpp: the fixed, lock-free buffer through   *)
(* which hooked Delphi methods report their calls, and the worker thread   *)
(* that writes the records to the log.                                     *)
(*                                                                         *)
(* A hooked thread reserves a ticket with one fetch_add, copies its record *)
(* into the slot of that number, then publishes the slot with a release    *)
(* store.  The copy of the record is not atomic: between its two actions   *)
(* the slot holds Torn.  The worker prints slots in order and stops at the *)
(* first one that is not published.                                        *)
(***************************************************************************)
EXTENDS Integers, Sequences, FiniteSets

CONSTANTS
  Threads,         \* threads of Leeyes that run hooked methods
  Capacity,        \* kTraceCapacity
  CounterModulus,  \* next_ and dropped_ are DWORDs: 2^32 in the code
  MaxTickets,      \* bound: fetch_adds of one session
  Blank, Torn      \* a slot never written, a slot in the middle of a copy

ASSUME TraceAssumption ==
  /\ IsFiniteSet(Threads)
  /\ Capacity \in Nat \ {0}
  /\ MaxTickets \in Nat
  /\ CounterModulus \in Nat /\ CounterModulus > MaxTickets
  /\ Blank \notin Threads \X Nat /\ Torn \notin Threads \X Nat

VARIABLES
  next, dropped,      \* next_, dropped_
  committed, records, \* committed_[], records_[]
  wake,               \* wakeEvent_: "null", or the state of the auto-reset event
  stop,               \* stop_
  flushed,            \* flushed_
  tpc, ticket, rec,   \* each thread: where it is in Append, its index, its record
  ipc,                \* the initialiser: where it is in Start
  fpc,                \* the worker: where it is in FlushThread
  log,                \* the records printed
  alive,              \* FALSE once the process has terminated
  accepted, owed      \* history: records in ticket order; log lengths due at RequestStop

vars == <<next, dropped, committed, records, wake, stop, flushed, tpc, ticket, rec,
          ipc, fpc, log, alive, accepted, owed>>

counters == <<next, dropped>>
slots    == <<committed, records>>
appender == <<tpc, ticket, rec>>
printed  == <<flushed, log>>

\* fetch_add(1) on a DWORD
Bump(counter) == IF counter + 1 = CounterModulus THEN 0 ELSE counter + 1

Slots   == 0 .. Capacity - 1
Records == Threads \X Nat

TypeOK ==
  /\ next \in 0 .. CounterModulus - 1 /\ dropped \in 0 .. CounterModulus - 1
  /\ committed \in [Slots -> 0 .. Capacity]
  /\ records \in [Slots -> Records \union {Blank, Torn}]
  /\ wake \in {"null", "unset", "set"} /\ stop \in BOOLEAN /\ alive \in BOOLEAN
  /\ flushed \in 0 .. Capacity
  /\ tpc \in [Threads -> {"idle", "reserved", "copying", "copied", "signal", "overflow"}]
  /\ ticket \in [Threads -> Slots]
  /\ rec \in [Threads -> Records]
  /\ ipc \in {"hooked", "event", "thread", "started", "failed"}
  /\ fpc \in {"absent", "open", "wait", "flush", "check", "last", "exited", "nolog"}
  /\ log \in Seq(Records \union {Blank, Torn})
  /\ accepted \in Seq(Records)
  /\ owed \subseteq 0 .. Capacity

Init ==
  /\ next = 0 /\ dropped = 0
  /\ committed = [s \in Slots |-> 0]
  /\ records = [s \in Slots |-> Blank]
  /\ wake = "null" /\ stop = FALSE /\ flushed = 0
  /\ tpc = [t \in Threads |-> "idle"]
  /\ ticket = [t \in Threads |-> 0]
  /\ rec = [t \in Threads |-> <<t, 0>>]
  /\ ipc = "hooked" /\ fpc = "absent"
  /\ log = <<>> /\ alive = TRUE /\ accepted = <<>> /\ owed = {}

--------------------------------------------------------------------------------
(* TraceBuffer::Start, run once by InitializeLeeyesInternalHooks after the    *)
(* hooks are live.  When it fails the hooks are removed again.                *)

StartFails ==
  /\ ipc = "hooked" /\ ipc' = "failed"
  /\ UNCHANGED <<wake, stop, fpc>>

CreateWakeEvent ==
  /\ ipc = "hooked" /\ ipc' = "event"
  /\ wake' = "unset" /\ stop' = FALSE
  /\ UNCHANGED fpc

CreateFlushThread ==
  /\ ipc = "event"
  /\ \/ ipc' = "thread" /\ fpc' = "open" /\ UNCHANGED wake
     \/ ipc' = "failed" /\ wake' = "null" /\ UNCHANGED fpc
  /\ UNCHANGED stop

SignalStarted ==
  /\ ipc = "thread" /\ ipc' = "started"
  /\ wake' = "set"
  /\ UNCHANGED <<stop, fpc>>

Start ==
  /\ StartFails \/ CreateWakeEvent \/ CreateFlushThread \/ SignalStarted
  /\ UNCHANGED <<counters, slots, appender, printed, alive, accepted, owed>>

\* The lengths of log that the worker can reach from the slots published now.
CommittedPrefix == { n \in 0 .. Capacity : \A s \in 0 .. n - 1 : committed[s] = s + 1 }

\* RequestStop, from the detach notification of the DLL; wakeEvent_ is then not null.
RequestStop ==
  /\ ipc = "started" /\ ~stop
  /\ stop' = TRUE /\ wake' = "set"
  /\ owed' = CommittedPrefix
  /\ UNCHANGED <<counters, slots, appender, printed, ipc, fpc, alive, accepted>>

--------------------------------------------------------------------------------
(* TraceBuffer::Append, run by any hooked thread.                             *)

\* A write-anywhere ring instead of a buffer that refuses what does not fit.
MReserveRing(t) ==
  /\ ipc # "failed" /\ tpc[t] = "idle" /\ next < MaxTickets
  /\ next' = Bump(next)
  /\ rec' = [rec EXCEPT ![t] = <<t, @[2] + 1>>]
  /\ ticket' = [ticket EXCEPT ![t] = next % Capacity]
  /\ tpc' = [tpc EXCEPT ![t] = "reserved"]
  /\ accepted' = Append(accepted, rec'[t])
  /\ UNCHANGED <<dropped, slots>>

\* The bound tested with > instead of >=.
MReserveOffByOne(t) ==
  /\ ipc # "failed" /\ tpc[t] = "idle" /\ next < MaxTickets
  /\ next' = Bump(next)
  /\ rec' = [rec EXCEPT ![t] = <<t, @[2] + 1>>]
  /\ IF next > Capacity
       THEN /\ tpc' = [tpc EXCEPT ![t] = "overflow"]
            /\ UNCHANGED <<ticket, accepted>>
       ELSE /\ ticket' = [ticket EXCEPT ![t] = next]
            /\ tpc' = [tpc EXCEPT ![t] = "reserved"]
            /\ accepted' = Append(accepted, rec'[t])
  /\ UNCHANGED <<dropped, slots>>

Reserve(t) ==
  /\ ipc # "failed" /\ tpc[t] = "idle" /\ next < MaxTickets
  /\ next' = Bump(next)
  /\ rec' = [rec EXCEPT ![t] = <<t, @[2] + 1>>]
  /\ IF next >= Capacity
       THEN /\ tpc' = [tpc EXCEPT ![t] = "overflow"]
            /\ UNCHANGED <<ticket, accepted>>
       ELSE /\ ticket' = [ticket EXCEPT ![t] = next]
            /\ tpc' = [tpc EXCEPT ![t] = "reserved"]
            /\ accepted' = Append(accepted, rec'[t])
  /\ UNCHANGED <<dropped, slots>>

\* The refused record is forgotten without being counted.
MCountDropped(t) ==
  /\ tpc[t] = "overflow" /\ tpc' = [tpc EXCEPT ![t] = "idle"]
  /\ UNCHANGED <<counters, slots, ticket, rec, accepted>>

CountDropped(t) ==
  /\ tpc[t] = "overflow" /\ tpc' = [tpc EXCEPT ![t] = "idle"]
  /\ dropped' = Bump(dropped)
  /\ UNCHANGED <<next, slots, ticket, rec, accepted>>

BeginCopy(t) ==
  /\ tpc[t] = "reserved" /\ tpc' = [tpc EXCEPT ![t] = "copying"]
  /\ records' = [records EXCEPT ![ticket[t]] = Torn]
  /\ UNCHANGED <<counters, committed, ticket, rec, accepted>>

EndCopy(t) ==
  /\ tpc[t] = "copying" /\ tpc' = [tpc EXCEPT ![t] = "copied"]
  /\ records' = [records EXCEPT ![ticket[t]] = rec[t]]
  /\ UNCHANGED <<counters, committed, ticket, rec, accepted>>

\* The slot published before its record is copied.
MCommit(t) ==
  /\ tpc[t] \in {"reserved", "copied"}
  /\ tpc' = [tpc EXCEPT ![t] = IF @ = "copied" THEN "signal" ELSE @]
  /\ committed' = [committed EXCEPT ![ticket[t]] = ticket[t] + 1]
  /\ UNCHANGED <<counters, records, ticket, rec, accepted>>

Commit(t) ==
  /\ tpc[t] = "copied" /\ tpc' = [tpc EXCEPT ![t] = "signal"]
  /\ committed' = [committed EXCEPT ![ticket[t]] = ticket[t] + 1]
  /\ UNCHANGED <<counters, records, ticket, rec, accepted>>

Store(t) ==
  /\ Reserve(t) \/ CountDropped(t) \/ BeginCopy(t) \/ EndCopy(t) \/ Commit(t)
  /\ UNCHANGED <<wake, stop, printed, ipc, fpc, alive, owed>>

Signal(t) ==
  /\ tpc[t] = "signal" /\ tpc' = [tpc EXCEPT ![t] = "idle"]
  /\ wake' = IF wake = "null" THEN wake ELSE "set"
  /\ UNCHANGED <<counters, slots, ticket, rec, stop, printed, ipc, fpc, alive, accepted, owed>>

--------------------------------------------------------------------------------
(* TraceBuffer::FlushThread and FlushAvailable, run by the worker.  The       *)
(* overflow and trace_end lines only repeat the counters.                     *)

OpenLog ==
  /\ fpc = "open" /\ fpc' \in {"wait", "nolog"}
  /\ UNCHANGED <<wake, printed>>

\* WaitForSingleObject(wakeEvent_, 250): the event or the timeout, whichever is first.
Wait ==
  /\ fpc = "wait" /\ fpc' = "flush"
  /\ wake' = "unset"
  /\ UNCHANGED printed

\* The slot is printed without looking at its publication word.
MFlushOne ==
  /\ fpc \in {"flush", "last"} /\ flushed < Capacity /\ flushed < next
  /\ log' = Append(log, records[flushed])
  /\ flushed' = flushed + 1
  /\ UNCHANGED <<fpc, wake>>

FlushOne ==
  /\ fpc \in {"flush", "last"} /\ flushed < Capacity
  /\ committed[flushed] = flushed + 1
  /\ log' = Append(log, records[flushed])
  /\ flushed' = flushed + 1
  /\ UNCHANGED <<fpc, wake>>

EndFlush ==
  /\ fpc \in {"flush", "last"}
  /\ flushed < Capacity => committed[flushed] # flushed + 1
  /\ fpc' = IF fpc = "flush" THEN "check" ELSE "exited"
  /\ UNCHANGED <<wake, printed>>

\* The flag tested the wrong way round.
MCheckStopInverted ==
  /\ fpc = "check" /\ fpc' = IF stop THEN "wait" ELSE "last"
  /\ UNCHANGED <<wake, printed>>

\* No last FlushAvailable after the loop.
MCheckStopNoLast ==
  /\ fpc = "check" /\ fpc' = IF stop THEN "exited" ELSE "wait"
  /\ UNCHANGED <<wake, printed>>

CheckStop ==
  /\ fpc = "check" /\ fpc' = IF stop THEN "last" ELSE "wait"
  /\ UNCHANGED <<wake, printed>>

FlushThread ==
  /\ OpenLog \/ Wait \/ FlushOne \/ EndFlush \/ CheckStop
  /\ UNCHANGED <<counters, slots, appender, stop, ipc, alive, accepted, owed>>

--------------------------------------------------------------------------------
\* Process exit kills every thread where it stands; nothing in the DLL waits for the worker.
Exit ==
  /\ alive' = FALSE
  /\ UNCHANGED <<counters, slots, wake, stop, appender, ipc, fpc, printed, accepted, owed>>

Next ==
  /\ alive
  /\ \/ Start
     \/ RequestStop
     \/ \E t \in Threads : Store(t) \/ Signal(t)
     \/ FlushThread
     \/ Exit

Spec == Init /\ [][Next]_vars

\* A call of Append that has begun goes on, and so do the initialiser and the worker,
\* until the process exits.  Nothing makes a thread call Append or the DLL be detached.
Fairness ==
  /\ \A t \in Threads : WF_vars(alive /\ (Signal(t) \/ (tpc[t] # "idle" /\ Store(t))))
  /\ WF_vars(alive /\ Start)
  /\ WF_vars(alive /\ FlushThread)

FairSpec == Spec /\ Fairness

--------------------------------------------------------------------------------
(* Properties.                                                                *)

InCopy(t) == tpc[t] \in {"reserved", "copying", "copied"}
Overflowing == { t \in Threads : tpc[t] = "overflow" }

\* The log is a prefix of the records in ticket order: whatever the interleaving of the
\* copies with the worker, no line is torn, blank, doubled, skipped or out of order.
LogFaithful ==
  /\ Len(log) <= Len(accepted)
  /\ \A i \in 1 .. Len(log) : log[i] = accepted[i]

\* The counters of the trace_end line balance once no thread is between the two
\* fetch_adds: every ticket was either accepted or counted as dropped.
TicketsAccounted == next = Len(accepted) + dropped + Cardinality(Overflowing)

\* What lets the worker read a slot without a lock: a published slot is never written again.
SlotsImmutable == [][\A s \in Slots : committed[s] # 0 => records'[s] = records[s]]_vars

\* A stop request loses nothing that was already published: the worker's last pass
\* prints every record that could be printed when RequestStop was called.
DrainedOnStop == fpc = "exited" => \A n \in owed : Len(log) >= n

\* The buffer implements the stream of TraceStream.
Stream == INSTANCE TraceStream WITH published <- log, lost <- dropped + Cardinality(Overflowing)
StreamSpec == Stream!Spec

Silent == ~alive \/ ipc = "failed" \/ fpc = "nolog"

\* An accepted record is printed, unless the worker has been told to stop or there is none.
AcceptedPrinted ==
  \A n \in 1 .. Capacity : (Len(accepted) >= n) ~> (Len(log) >= n \/ stop \/ Silent)

\* A stop request ends the worker.
StopEnds == stop ~> (fpc = "exited" \/ Silent)
================================================================================
