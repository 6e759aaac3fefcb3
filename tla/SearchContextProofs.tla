-------------------------- MODULE SearchContextProofs --------------------------
(***************************************************************************)
(* Proofs about SearchContext, for any threads, handles and size of the    *)
(* table: no search is answered with the context of another.               *)
(***************************************************************************)
EXTENDS SearchContext, TLAPS

FindSteps     == {"find", "findLast", "findSlot", "promoteEntry", "promoteHandle"}
ForgetSteps   == {"forget", "forgetSlot", "forgetLast", "forgetEntry", "forgetHandle"}
RememberSteps == {"remember", "rememberSlot", "rememberEntry", "rememberHandle"}

\* Which calls are where.
Control(th) ==
  /\ th.at = "idle" => th.handle = INVALID_HANDLE_VALUE
  /\ th.at # "idle" => th.handle \in open /\ th.call # "none"
  /\ th.at \in FindSteps => th.call \in {"first", "next"}
  /\ th.at \in RememberSteps => th.call = "first"
  /\ th.at = "next" => th.call = "next"
  /\ th.at = "close" => th.call = "close"
  /\ th.at \in {"forgetSlot", "rememberSlot"} => th.slot \in Slots
  /\ th.at = "findLast" => th.slot = 1

\* An entry of the search that runs on its handle, and a W enumeration if one is remembered.
Fresh(e) ==
  e.search = search[e.handle].number /\ (search[e.handle].remembered => e.wideEnumeration)

\* The entry a thread has in hand is of its own search.
InHand(th) ==
  /\ th.at \in {"promoteEntry", "promoteHandle", "forgetSlot"} => th.entry # NoEntry
  /\ th.at \in {"promoteEntry", "promoteHandle", "forgetSlot", "next"} /\ th.entry # NoEntry =>
       th.entry.handle = th.handle /\ Fresh(th.entry)

\* Where the last entry may be out of date, nobody is between writing it, or finding its
\* handle, and relying on it.
Relies(th) ==
  th.at \in {"findLast", "promoteHandle", "rememberHandle"} /\ IsOf(gLastSearchEntry, th.handle) =>
    gLastSearchEntry.search = search[th.handle].number

Absent(h, slots) == \A s \in slots : ~IsOf(gSearchContextEntries[s], h)

\* What a FindClose has got rid of already.
Forgets(th) ==
  /\ th.at \in ForgetSteps \union {"close"} => ~search[th.handle].remembered
  /\ th.call = "close" =>
       /\ th.at \in {"forget", "forgetSlot"} => Absent(th.handle, { s \in Slots : s < th.slot })
       /\ th.at = "forgetSlot" /\ IsOf(gSearchContextEntries[th.slot], th.handle) =>
            gSearchContextEntries[th.slot] = th.entry
       /\ th.at \in {"forgetLast", "forgetEntry", "forgetHandle", "close"} => Absent(th.handle, Slots)
       /\ th.at = "close" => gLastSearchHandle # th.handle

\* A W enumeration is remembered before any other context of its search.
Remembers(th) ==
  /\ th.at \in {"remember", "rememberSlot"} /\ th.wide =>
       /\ Absent(th.handle, Slots)
       /\ IsOf(gLastSearchEntry, th.handle) => gLastSearchEntry.search # search[th.handle].number
  /\ th.at = "rememberEntry" => search[th.handle].remembered = th.wide

\* A scan for a remembered W enumeration does not miss it.
Scans(th) ==
  /\ th.at = "findSlot" /\ search[th.handle].remembered =>
       ~Absent(th.handle, { s \in Slots : s >= th.slot })
  /\ th.at = "next" /\ search[th.handle].remembered => th.entry # NoEntry

ThreadInv(th) == Control(th) /\ InHand(th) /\ Relies(th) /\ Forgets(th) /\ Remembers(th) /\ Scans(th)

\* A handle is used by several threads only in FindNextFile.
Shared ==
  \A t, u \in Threads : t # u /\ thread[t].at # "idle" /\ thread[u].at # "idle" /\ thread[t].handle = thread[u].handle =>
    thread[t].call = "next" /\ thread[u].call = "next"

TableInv ==
  /\ \A s \in Slots : gSearchContextEntries[s] # NoEntry =>
       gSearchContextEntries[s].handle \in open /\ Fresh(gSearchContextEntries[s])
  /\ \A h \in Handles : search[h].remembered => ~Absent(h, Slots)

LastInv ==
  /\ gLastSearchHandle \in open \union {INVALID_HANDLE_VALUE}
  /\ gLastSearchEntry # NoEntry =>
       /\ gLastSearchEntry.search <= search[gLastSearchEntry.handle].number
       /\ gLastSearchEntry.search = search[gLastSearchEntry.handle].number => Fresh(gLastSearchEntry)
       /\ gLastSearchHandle = gLastSearchEntry.handle =>
            gLastSearchEntry.search = search[gLastSearchEntry.handle].number

IInv == TypeOK /\ Shared /\ TableInv /\ LastInv /\ \A t \in Threads : ThreadInv(thread[t])

--------------------------------------------------------------------------------
(* One thread takes a step.                                                   *)

Records == [at : Steps, call : {"none", "first", "next", "close"},
            kind : Kinds, handle : Handles \union {INVALID_HANDLE_VALUE}, wide : BOOLEAN,
            slot : 1 .. TableSize + 1, entry : Entries \union {NoEntry}]

Alone(t) == thread' \in [Threads -> Records] /\ \A u \in Threads \ {t} : thread'[u] = thread[u]

LEMMA GoFacts ==
  ASSUME TypeOK, NEW t \in Threads, NEW step \in Steps, Go(t, step)
  PROVE  /\ Alone(t) /\ thread'[t].at = step /\ thread'[t].call = thread[t].call /\ thread'[t].kind = thread[t].kind
         /\ thread'[t].handle = thread[t].handle /\ thread'[t].wide = thread[t].wide
         /\ thread'[t].slot = thread[t].slot /\ thread'[t].entry = thread[t].entry
<1>1. thread \in [Threads -> Records]
  BY DEF TypeOK, Records
<1> QED BY <1>1 DEF Go, Alone, Records

\* A step that also moves to another place of the table.
LEMMA SlotFacts ==
  ASSUME TypeOK, NEW t \in Threads, NEW step \in Steps, NEW slot \in 1 .. TableSize + 1,
         thread' = [thread EXCEPT ![t].at = step, ![t].slot = slot]
  PROVE  /\ Alone(t) /\ thread'[t].at = step /\ thread'[t].call = thread[t].call /\ thread'[t].kind = thread[t].kind
         /\ thread'[t].handle = thread[t].handle /\ thread'[t].wide = thread[t].wide
         /\ thread'[t].slot = slot /\ thread'[t].entry = thread[t].entry
<1>1. thread \in [Threads -> Records]
  BY DEF TypeOK, Records
<1> QED BY <1>1 DEF Alone, Records

\* A step that takes an entry in hand.
LEMMA EntryFacts ==
  ASSUME TypeOK, NEW t \in Threads, NEW step \in Steps, NEW entry \in Entries \union {NoEntry},
         thread' = [thread EXCEPT ![t].at = step, ![t].entry = entry]
  PROVE  /\ Alone(t) /\ thread'[t].at = step /\ thread'[t].call = thread[t].call /\ thread'[t].kind = thread[t].kind
         /\ thread'[t].handle = thread[t].handle /\ thread'[t].wide = thread[t].wide
         /\ thread'[t].slot = thread[t].slot /\ thread'[t].entry = entry
<1>1. thread \in [Threads -> Records]
  BY DEF TypeOK, Records
<1> QED BY <1>1 DEF Alone, Records

LEMMA IdleFacts == Idle \in Records /\ Idle.at = "idle" /\ Idle.call = "none" /\ Idle.handle = INVALID_HANDLE_VALUE
                   /\ Idle.entry = NoEntry
<1>1. 1 \in 1 .. TableSize + 1
  BY SearchAssumption
<1> QED BY <1>1 DEF Idle, Records, Steps, Kinds

LEMMA ReturnFacts ==
  ASSUME TypeOK, NEW t \in Threads, Return(t) PROVE Alone(t) /\ thread'[t] = Idle
<1>1. thread \in [Threads -> Records]
  BY DEF TypeOK, Records
<1> QED BY <1>1, IdleFacts DEF Return, Alone

LEMMA SlotTypes == /\ 1 \in 1 .. TableSize + 1
                   /\ \A n \in Slots : n \in 1 .. TableSize + 1 /\ n + 1 \in 1 .. TableSize + 1 /\ n \in Nat
                   /\ \A n \in 1 .. TableSize + 1 : n \in Nat /\ (~(n > TableSize) => n \in Slots)
                                                     /\ (n > TableSize => \A s \in Slots : s < n)
BY SearchAssumption DEF Slots

LEMMA IdleInv == ASSUME NEW t \in Threads, thread'[t] = Idle PROVE ThreadInv(thread[t])'
<1> DEFINE th == thread'[t]
<1>1. th.at = "idle" /\ th.call = "none" /\ th.handle = INVALID_HANDLE_VALUE
  BY IdleFacts
<1> QED BY <1>1 DEF ThreadInv, Control, InHand, Relies, Forgets, Remembers, Scans, FindSteps, ForgetSteps, RememberSteps

\* The call of a thread goes on or returns.
Continues(t) ==
  \/ thread'[t].at = "idle"
  \/ thread[t].at # "idle" /\ thread'[t].handle = thread[t].handle /\ thread'[t].call = thread[t].call

\* What is left to show of a step in which only one thread moves.
LEMMA Assemble ==
  ASSUME IInv, NEW t \in Threads, TypeOK', TableInv', LastInv', ThreadInv(thread[t])', Alone(t), Continues(t),
         \A u \in Threads \ {t} : ThreadInv(thread[u])'
  PROVE  IInv'
<1>1. Shared'
  BY DEF IInv, Shared, Alone, Continues
<1>2. \A u \in Threads : ThreadInv(thread[u])'
  OBVIOUS
<1> QED BY <1>1, <1>2 DEF IInv

\* A step that writes nothing shared.
LEMMA LocalKept ==
  ASSUME IInv, NEW t \in Threads, UNCHANGED <<gSearchContextEntries, last, open, search>>, Alone(t)
  PROVE  TypeOK' /\ TableInv' /\ LastInv' /\ \A u \in Threads \ {t} : ThreadInv(thread[u])'
<1>1. /\ gSearchContextEntries' = gSearchContextEntries /\ gLastSearchHandle' = gLastSearchHandle
      /\ gLastSearchEntry' = gLastSearchEntry /\ open' = open /\ search' = search
  BY DEF last
<1>2. TypeOK'
  BY <1>1 DEF IInv, TypeOK, Alone, Records
<1>3. TableInv'
  BY <1>1 DEF IInv, TableInv, Fresh, Absent
<1>4. LastInv'
  BY <1>1 DEF IInv, LastInv, Fresh
<1>5. ASSUME NEW u \in Threads \ {t} PROVE ThreadInv(thread[u])'
  <2>1. ThreadInv(thread[u]) /\ thread'[u] = thread[u]
    BY DEF IInv, Alone
  <2> QED BY <1>1, <2>1 DEF ThreadInv, Control, InHand, Relies, Forgets, Remembers, Scans, Fresh, Absent
<1> QED BY <1>2, <1>3, <1>4, <1>5

LEMMA Local ==
  ASSUME IInv, NEW t \in Threads, UNCHANGED <<gSearchContextEntries, last, open, search>>,
         Alone(t), Continues(t), ThreadInv(thread[t])'
  PROVE  IInv'
BY LocalKept, Assemble

LEMMA LocalReturn ==
  ASSUME IInv, NEW t \in Threads, UNCHANGED <<gSearchContextEntries, last, open, search>>, Return(t)
  PROVE  IInv'
<1>1. Alone(t) /\ thread'[t] = Idle
  BY ReturnFacts DEF IInv
<1> QED BY <1>1, IdleFacts, IdleInv, Local DEF Continues

--------------------------------------------------------------------------------
(* FindSearchContext.                                                         *)

\* What is found is of the search that asks for it, and a remembered one is found.
LEMMA AfterFindFacts ==
  ASSUME IInv, NEW t \in Threads, NEW e \in Entries \union {NoEntry}, thread[t].at \in FindSteps, AfterFind(t, e),
         e # NoEntry => e.handle = Handle(t) /\ Fresh(e),
         thread[t].call = "next" /\ search[Handle(t)].remembered => e # NoEntry,
         open' = open, search' = search
  PROVE  Alone(t) /\ Continues(t) /\ ThreadInv(thread[t])'
<1>1. thread \in [Threads -> Records] /\ TypeOK /\ ThreadInv(thread[t]) /\ thread[t] \in Records
  BY DEF IInv, TypeOK, Records
<1>2. thread[t].call \in {"first", "next"} /\ thread[t].at # "idle" /\ thread[t].handle \in open
  BY <1>1 DEF ThreadInv, Control, FindSteps
<1>3. CASE thread[t].call = "next"
  <2>1. thread' = [thread EXCEPT ![t].at = "next", ![t].slot = 1, ![t].entry = e]
    BY <1>3 DEF AfterFind
  <2>2. /\ thread'[t].at = "next" /\ thread'[t].call = "next" /\ thread'[t].handle = thread[t].handle
        /\ thread'[t].entry = e
    BY <1>1, <1>3, <2>1 DEF Records
  <2>3. Alone(t)
    BY <1>1, <2>1, SlotTypes DEF Alone, Records, Steps
  <2>4. ThreadInv(thread[t])'
    <3>1. (e # NoEntry => e.handle = thread[t].handle /\ Fresh(e)')
          /\ (search'[thread[t].handle].remembered => e # NoEntry)
      BY <1>3 DEF Handle, Fresh
    <3>2. InHand(thread[t])' /\ Scans(thread[t])'
      BY <2>2, <3>1 DEF InHand, Scans, Fresh
    <3> QED BY <1>2, <2>2, <3>2 DEF ThreadInv, Control, Relies, Forgets, Remembers, FindSteps, ForgetSteps, RememberSteps
  <2> QED BY <1>2, <1>3, <2>2, <2>3, <2>4 DEF Continues
<1>4. CASE thread[t].call = "first" /\ e # NoEntry
  <2>1. Return(t)
    BY <1>4 DEF AfterFind
  <2> QED BY <1>1, <2>1, ReturnFacts, IdleFacts, IdleInv DEF Continues
<1>5. CASE thread[t].call = "first" /\ e = NoEntry
  <2>1. thread' = [thread EXCEPT ![t].at = "remember", ![t].slot = 1, ![t].wide = FALSE]
    BY <1>5 DEF AfterFind
  <2>2. /\ thread'[t].at = "remember" /\ thread'[t].call = "first" /\ thread'[t].handle = thread[t].handle
        /\ thread'[t].wide = FALSE
    BY <1>1, <1>5, <2>1 DEF Records
  <2>3. Alone(t)
    BY <1>1, <2>1, SlotTypes DEF Alone, Records, Steps
  <2>4. ThreadInv(thread[t])'
    BY <1>2, <2>2 DEF ThreadInv, Control, InHand, Relies, Forgets, Remembers, Scans, FindSteps, ForgetSteps, RememberSteps
  <2> QED BY <1>2, <1>5, <2>2, <2>3, <2>4 DEF Continues
<1> QED BY <1>2, <1>3, <1>4, <1>5

LEMMA StepTypes ==
  FindSteps \subseteq Steps /\ ForgetSteps \subseteq Steps /\ RememberSteps \subseteq Steps
  /\ "next" \in Steps /\ "close" \in Steps /\ "idle" \in Steps
BY DEF FindSteps, ForgetSteps, RememberSteps, Steps

\* What the steps of a call may rely on.
LEMMA Own ==
  ASSUME IInv, NEW t \in Threads
  PROVE  /\ TypeOK /\ thread \in [Threads -> Records] /\ thread[t] \in Records /\ ThreadInv(thread[t])
         /\ thread[t].at # "idle" => thread[t].handle \in open /\ thread[t].handle \in Handles
         /\ thread[t].slot \in 1 .. TableSize + 1
BY DEF IInv, TypeOK, Records, ThreadInv, Control

LEMMA ScanBounds ==
  /\ { s \in Slots : s >= 1 } = Slots /\ { s \in Slots : s < 1 } = {}
  /\ \A n \in Slots : { s \in Slots : s >= n } = { s \in Slots : s >= n + 1 } \union {n}
                      /\ { s \in Slots : s < n + 1 } = { s \in Slots : s < n } \union {n}
  /\ \A n \in 1 .. TableSize + 1 : n > TableSize => { s \in Slots : s >= n } = {} /\ { s \in Slots : s < n } = Slots
BY SearchAssumption DEF Slots

\* A scan begins with a remembered context still ahead.
LEMMA ScanStarts ==
  ASSUME IInv, NEW h \in Handles, search[h].remembered PROVE ~Absent(h, { s \in Slots : s >= 1 })
<1>1. ~Absent(h, Slots)
  BY DEF IInv, TableInv
<1> QED BY <1>1, ScanBounds

LEMMA FindHandleInv == ASSUME IInv, NEW t \in Threads, FindHandle(t) PROVE IInv'
<1> DEFINE step == IF gLastSearchHandle = Handle(t) THEN "findLast" ELSE "findSlot"
<1>1. thread' = [thread EXCEPT ![t].at = step, ![t].slot = 1] /\ thread[t].at = "find"
      /\ UNCHANGED <<gSearchContextEntries, last, open, search>>
  BY DEF FindHandle, At
<1>2. step \in {"findLast", "findSlot"} /\ step \in Steps
  BY DEF Steps
<1>3. /\ Alone(t) /\ thread'[t].at = step /\ thread'[t].call = thread[t].call
      /\ thread'[t].handle = thread[t].handle /\ thread'[t].slot = 1
  <2>1. TypeOK /\ 1 \in 1 .. TableSize + 1
    BY Own, SlotTypes
  <2> HIDE DEF step
  <2> QED BY <1>1, <1>2, <2>1, SlotFacts
<1>4. thread[t].call \in {"first", "next"} /\ thread[t].handle \in open /\ thread[t].handle \in Handles
  BY <1>1, Own DEF ThreadInv, Control, FindSteps
<1>5. Relies(thread[t])'
  BY <1>1, <1>3, <1>4 DEF Relies, IInv, LastInv, Handle, IsOf, last
<1>6. Scans(thread[t])'
  <2>1. search[thread[t].handle].remembered => ~Absent(thread[t].handle, { s \in Slots : s >= 1 })
    BY <1>4, ScanStarts
  <2> QED BY <1>1, <1>2, <1>3, <2>1 DEF Scans, Absent
<1>7. ThreadInv(thread[t])'
  BY <1>1, <1>2, <1>3, <1>4, <1>5, <1>6 DEF ThreadInv, Control, InHand, Forgets, Remembers, FindSteps, ForgetSteps, RememberSteps
<1> QED BY <1>1, <1>3, <1>7, Local DEF Continues

LEMMA FindLastInv == ASSUME IInv, NEW t \in Threads, FindLast(t) PROVE IInv'
<1>1. thread[t].at = "findLast" /\ UNCHANGED <<gSearchContextEntries, last, open, search>>
  BY DEF FindLast, At
<1>2. thread[t].call \in {"first", "next"} /\ thread[t].handle \in open /\ thread[t].handle \in Handles /\ thread[t].slot = 1
  BY <1>1, Own DEF ThreadInv, Control, FindSteps
<1>3. CASE IsOf(gLastSearchEntry, Handle(t))
  <2>1. AfterFind(t, gLastSearchEntry) /\ gLastSearchEntry # NoEntry /\ gLastSearchEntry \in Entries
        /\ gLastSearchEntry.handle = Handle(t)
    BY <1>3, Own DEF FindLast, IsOf, TypeOK
  <2>2. gLastSearchEntry.search = search[Handle(t)].number
    BY <1>1, <1>3, Own DEF ThreadInv, Relies, Handle
  <2>3. Fresh(gLastSearchEntry)
    BY <2>1, <2>2 DEF IInv, LastInv
  <2>4. Alone(t) /\ Continues(t) /\ ThreadInv(thread[t])'
    BY <1>1, <2>1, <2>3, AfterFindFacts DEF FindSteps
  <2> QED BY <1>1, <2>4, Local
<1>4. CASE ~IsOf(gLastSearchEntry, Handle(t))
  <2>1. /\ Alone(t) /\ thread'[t].at = "findSlot" /\ thread'[t].call = thread[t].call
        /\ thread'[t].handle = thread[t].handle /\ thread'[t].slot = 1
    BY <1>2, <1>4, Own, StepTypes, GoFacts DEF FindLast, FindSteps
  <2>2. Scans(thread[t])'
    <3>1. search[thread[t].handle].remembered => ~Absent(thread[t].handle, { s \in Slots : s >= 1 })
      BY <1>2, ScanStarts
    <3> QED BY <1>1, <2>1, <3>1 DEF Scans, Absent
  <2>3. ThreadInv(thread[t])'
    BY <1>1, <1>2, <2>1, <2>2 DEF ThreadInv, Control, InHand, Relies, Forgets, Remembers, FindSteps, ForgetSteps, RememberSteps
  <2> QED BY <1>1, <2>1, <2>3, Local DEF Continues
<1> QED BY <1>3, <1>4

LEMMA FindSlotInv == ASSUME IInv, NEW t \in Threads, FindSlot(t) PROVE IInv'
<1> DEFINE n == thread[t].slot
           h == thread[t].handle
<1>1. thread[t].at = "findSlot" /\ UNCHANGED <<gSearchContextEntries, last, open, search>>
  BY DEF FindSlot, At
<1>2. /\ thread[t].call \in {"first", "next"} /\ h \in open /\ h \in Handles /\ n \in 1 .. TableSize + 1
      /\ search[h].remembered => ~Absent(h, { s \in Slots : s >= n })
  BY <1>1, Own DEF ThreadInv, Control, Scans, FindSteps
<1>3. CASE Scanned(t)
  <2>1. AfterFind(t, NoEntry)
    BY <1>3 DEF FindSlot
  <2>2. ~search[h].remembered
    BY <1>2, <1>3, ScanBounds DEF Scanned, Absent
  <2>3. Alone(t) /\ Continues(t) /\ ThreadInv(thread[t])'
    BY <1>1, <2>1, <2>2, AfterFindFacts DEF FindSteps, Handle
  <2> QED BY <1>1, <2>3, Local
<1>4. CASE ~Scanned(t) /\ IsOf(Slot(t), Handle(t))
  <2>1. n \in Slots /\ Slot(t) \in Entries /\ Slot(t) # NoEntry /\ Slot(t).handle = h /\ Slot(t) = gSearchContextEntries[n]
    BY <1>2, <1>4, Own, SlotTypes DEF Scanned, Slot, IsOf, Handle, TypeOK
  <2>2. Fresh(Slot(t))
    BY <2>1 DEF IInv, TableInv
  <2>3. thread' = [thread EXCEPT ![t].at = "promoteEntry", ![t].entry = Slot(t)]
    BY <1>4 DEF FindSlot
  <2>4. /\ Alone(t) /\ thread'[t].at = "promoteEntry" /\ thread'[t].call = thread[t].call
        /\ thread'[t].handle = h /\ thread'[t].entry = Slot(t)
    <3>1. TypeOK /\ "promoteEntry" \in Steps
      BY Own DEF Steps
    <3> HIDE DEF n, h
    <3>2. /\ Alone(t) /\ thread'[t].at = "promoteEntry" /\ thread'[t].call = thread[t].call
          /\ thread'[t].handle = thread[t].handle /\ thread'[t].entry = Slot(t)
      <4> DEFINE e == Slot(t)
      <4>1. e \in Entries \union {NoEntry} /\ thread' = [thread EXCEPT ![t].at = "promoteEntry", ![t].entry = e]
        BY <2>1, <2>3
      <4> HIDE DEF e
      <4>2. /\ Alone(t) /\ thread'[t].at = "promoteEntry" /\ thread'[t].call = thread[t].call
            /\ thread'[t].handle = thread[t].handle /\ thread'[t].entry = e
        BY <3>1, <4>1, EntryFacts
      <4> QED BY <4>2 DEF e
    <3> QED BY <3>2 DEF h
  <2>5. InHand(thread[t])'
    BY <1>1, <2>1, <2>2, <2>4 DEF InHand, Fresh
  <2>6. ThreadInv(thread[t])'
    BY <1>1, <1>2, <2>4, <2>5 DEF ThreadInv, Control, Relies, Forgets, Remembers, Scans, FindSteps, ForgetSteps, RememberSteps
  <2> QED BY <1>1, <2>4, <2>6, Local DEF Continues
<1>5. CASE ~Scanned(t) /\ ~IsOf(Slot(t), Handle(t))
  <2>1. n \in Slots /\ n + 1 \in 1 .. TableSize + 1
    BY <1>2, <1>5, SlotTypes DEF Scanned
  <2>2. thread' = [thread EXCEPT ![t].slot = n + 1]
    BY <1>5 DEF FindSlot, NextSlot
  <2>3. thread' = [thread EXCEPT ![t].at = "findSlot", ![t].slot = n + 1]
    BY <1>1, <2>2, Own DEF Records
  <2>4. /\ Alone(t) /\ thread'[t].at = "findSlot" /\ thread'[t].call = thread[t].call
        /\ thread'[t].handle = h /\ thread'[t].slot = n + 1
    <3>1. TypeOK /\ "findSlot" \in Steps
      BY Own DEF Steps
    <3> DEFINE m == n + 1
    <3>2. m \in 1 .. TableSize + 1 /\ thread' = [thread EXCEPT ![t].at = "findSlot", ![t].slot = m]
      BY <2>1, <2>3
    <3> HIDE DEF m
    <3>3. /\ Alone(t) /\ thread'[t].at = "findSlot" /\ thread'[t].call = thread[t].call
          /\ thread'[t].handle = thread[t].handle /\ thread'[t].slot = m
      BY <3>1, <3>2, SlotFacts
    <3> QED BY <3>3 DEF m
  <2>5. search[h].remembered => ~Absent(h, { s \in Slots : s >= n + 1 })
    BY <1>2, <1>5, <2>1, ScanBounds DEF Absent, Slot, Handle
  <2>6. Scans(thread[t])'
    BY <1>1, <2>4, <2>5 DEF Scans, Absent
  <2>7. ThreadInv(thread[t])'
    BY <1>1, <1>2, <2>4, <2>6 DEF ThreadInv, Control, InHand, Relies, Forgets, Remembers, FindSteps, ForgetSteps, RememberSteps
  <2> QED BY <1>1, <2>4, <2>7, Local DEF Continues
<1> QED BY <1>3, <1>4, <1>5

\* The others do not mind an entry that is the current one of another thread's search.
LEMMA LastEntryWritten ==
  ASSUME IInv, NEW t \in Threads, NEW u \in Threads \ {t}, Alone(t), thread[t].at # "idle",
         UNCHANGED <<gSearchContextEntries, gLastSearchHandle, open, search>>,
         gLastSearchEntry' # NoEntry =>
           gLastSearchEntry'.handle = thread[t].handle /\ gLastSearchEntry'.search = search[thread[t].handle].number
  PROVE  ThreadInv(thread[u])'
<1>1. /\ ThreadInv(thread[u]) /\ thread'[u] = thread[u] /\ thread[t].handle \in open
      /\ gSearchContextEntries' = gSearchContextEntries /\ gLastSearchHandle' = gLastSearchHandle
      /\ open' = open /\ search' = search
  BY Own DEF IInv, Alone
<1>2. Relies(thread[u])'
  BY <1>1 DEF Relies, IsOf
<1>3. Remembers(thread[u])'
  <2>1. thread[u].at \in {"remember", "rememberSlot"} => thread[u].handle # thread[t].handle
    BY <1>1 DEF IInv, Shared, ThreadInv, Control, RememberSteps
  <2> QED BY <1>1, <2>1 DEF ThreadInv, Remembers, Absent, IsOf
<1> QED BY <1>1, <1>2, <1>3 DEF ThreadInv, Control, InHand, Forgets, Scans, Fresh, Absent

\* Nor a handle that is another thread's.
LEMMA LastHandleWritten ==
  ASSUME IInv, NEW t \in Threads, NEW u \in Threads \ {t}, Alone(t), thread[t].at # "idle",
         UNCHANGED <<gSearchContextEntries, gLastSearchEntry, open, search>>,
         gLastSearchHandle' \in {INVALID_HANDLE_VALUE, thread[t].handle}
  PROVE  ThreadInv(thread[u])'
<1>1. /\ ThreadInv(thread[u]) /\ thread'[u] = thread[u] /\ thread[t].handle \in open
      /\ gSearchContextEntries' = gSearchContextEntries /\ gLastSearchEntry' = gLastSearchEntry
      /\ open' = open /\ search' = search
  BY Own DEF IInv, Alone
<1>2. thread[u].call = "close" /\ thread[u].at = "close" =>
        thread[u].handle # thread[t].handle /\ thread[u].handle # INVALID_HANDLE_VALUE
  BY <1>1, Own, SearchAssumption DEF IInv, Shared
<1>3. Forgets(thread[u])'
  BY <1>1, <1>2 DEF ThreadInv, Forgets, Absent
<1> QED BY <1>1, <1>3 DEF ThreadInv, Control, InHand, Relies, Remembers, Scans, Fresh, Absent

LEMMA PromoteEntryInv == ASSUME IInv, NEW t \in Threads, PromoteEntry(t) PROVE IInv'
<1> DEFINE h == thread[t].handle
<1>1. /\ thread[t].at = "promoteEntry" /\ gLastSearchEntry' = thread[t].entry /\ Go(t, "promoteHandle")
      /\ gSearchContextEntries' = gSearchContextEntries /\ gLastSearchHandle' = gLastSearchHandle
      /\ open' = open /\ search' = search
  BY DEF PromoteEntry, At
<1>2. /\ thread[t].call \in {"first", "next"} /\ h \in open /\ h \in Handles
      /\ thread[t].entry # NoEntry /\ thread[t].entry \in Entries /\ thread[t].entry.handle = h /\ Fresh(thread[t].entry)
  BY <1>1, Own DEF ThreadInv, Control, InHand, FindSteps, Records
<1>3. /\ Alone(t) /\ thread'[t].at = "promoteHandle" /\ thread'[t].call = thread[t].call
      /\ thread'[t].handle = h /\ thread'[t].entry = thread[t].entry
  <2>1. TypeOK /\ "promoteHandle" \in Steps
    BY Own DEF Steps
  <2> QED BY <1>1, <2>1, GoFacts
<1>4. TypeOK'
  BY <1>1, <1>2, <1>3, Own DEF TypeOK, Alone, Records
<1>5. TableInv'
  BY <1>1 DEF IInv, TableInv, Fresh, Absent
<1>6. LastInv'
  BY <1>1, <1>2, Own DEF IInv, LastInv, Fresh, TypeOK
<1>7. ThreadInv(thread[t])'
  <2>1. InHand(thread[t])' /\ Relies(thread[t])'
    BY <1>1, <1>2, <1>3 DEF InHand, Relies, Fresh
  <2> QED BY <1>1, <1>2, <1>3, <2>1 DEF ThreadInv, Control, Forgets, Remembers, Scans, FindSteps, ForgetSteps, RememberSteps
<1>8. ASSUME NEW u \in Threads \ {t} PROVE ThreadInv(thread[u])'
  BY <1>1, <1>2, <1>3, LastEntryWritten DEF Fresh
<1> QED BY <1>1, <1>3, <1>4, <1>5, <1>6, <1>7, <1>8, Assemble DEF Continues

LEMMA PromoteHandleInv == ASSUME IInv, NEW t \in Threads, PromoteHandle(t) PROVE IInv'
<1> DEFINE h == thread[t].handle
<1>1. /\ thread[t].at = "promoteHandle" /\ gLastSearchHandle' = h /\ AfterFind(t, thread[t].entry)
      /\ gSearchContextEntries' = gSearchContextEntries /\ gLastSearchEntry' = gLastSearchEntry
      /\ open' = open /\ search' = search
  BY DEF PromoteHandle, At, Handle
<1>2. /\ h \in open /\ h \in Handles /\ thread[t].entry \in Entries \union {NoEntry}
      /\ thread[t].entry # NoEntry /\ thread[t].entry.handle = h /\ Fresh(thread[t].entry)
  BY <1>1, Own DEF ThreadInv, InHand, Records
<1>3. Alone(t) /\ Continues(t) /\ ThreadInv(thread[t])'
  <2> DEFINE e == thread[t].entry
  <2>1. e \in Entries \union {NoEntry} /\ AfterFind(t, e) /\ e # NoEntry /\ e.handle = Handle(t) /\ Fresh(e)
    BY <1>1, <1>2 DEF Handle
  <2>2. thread[t].at \in FindSteps
    BY <1>1 DEF FindSteps
  <2> HIDE DEF e
  <2> QED BY <1>1, <2>1, <2>2, AfterFindFacts
<1>4. TypeOK'
  BY <1>1, <1>2, <1>3, Own DEF TypeOK, Alone, Records
<1>5. TableInv'
  BY <1>1 DEF IInv, TableInv, Fresh, Absent
<1>6. LastInv'
  <2>1. Relies(thread[t])
    BY Own DEF ThreadInv
  <2> QED BY <1>1, <1>2, <2>1 DEF IInv, LastInv, Fresh, Relies, IsOf
<1>7. ASSUME NEW u \in Threads \ {t} PROVE ThreadInv(thread[u])'
  BY <1>1, <1>2, <1>3, LastHandleWritten
<1> QED BY <1>3, <1>4, <1>5, <1>6, <1>7, Assemble

--------------------------------------------------------------------------------
(* ForgetSearchContext.                                                       *)

\* A call that has forgotten goes on to close the handle, to look for a context again, or
\* returns.
LEMMA AfterForgetFacts ==
  ASSUME IInv, NEW t \in Threads, thread[t].at \in ForgetSteps, AfterForget(t),
         open' = open, search' = search, gSearchContextEntries' = gSearchContextEntries,
         thread[t].call = "close" => Absent(thread[t].handle, Slots) /\ gLastSearchHandle' # thread[t].handle
  PROVE  Alone(t) /\ Continues(t) /\ ThreadInv(thread[t])'
<1>1. thread[t].handle \in open /\ thread[t].at # "idle" /\ TypeOK /\ ~search[thread[t].handle].remembered
  BY Own DEF ThreadInv, Forgets, ForgetSteps
<1>2. CASE thread[t].call = "close"
  <2>1. Go(t, "close")
    BY <1>2 DEF AfterForget
  <2>2. Alone(t) /\ thread'[t].at = "close" /\ thread'[t].call = "close" /\ thread'[t].handle = thread[t].handle
    BY <1>1, <1>2, <2>1, StepTypes, GoFacts
  <2>3. Forgets(thread[t])'
    BY <1>1, <1>2, <2>2 DEF Forgets, Absent
  <2> QED BY <1>1, <1>2, <2>2, <2>3 DEF ThreadInv, Control, InHand, Relies, Remembers, Scans, FindSteps, ForgetSteps,
                                        RememberSteps, Continues
<1>3. CASE thread[t].call = "first" /\ thread[t].kind = "repair"
  <2>1. Go(t, "find") /\ "find" \in Steps
    BY <1>3 DEF AfterForget, Steps
  <2>2. Alone(t) /\ thread'[t].at = "find" /\ thread'[t].call = "first" /\ thread'[t].handle = thread[t].handle
    BY <1>1, <1>3, <2>1, GoFacts
  <2> QED BY <1>1, <1>3, <2>2 DEF ThreadInv, Control, InHand, Relies, Forgets, Remembers, Scans, FindSteps, ForgetSteps,
                                  RememberSteps, Continues
<1>4. CASE thread[t].call # "close" /\ ~(thread[t].call = "first" /\ thread[t].kind = "repair")
  <2>1. Return(t)
    BY <1>4 DEF AfterForget
  <2> QED BY <1>1, <2>1, ReturnFacts, IdleFacts, IdleInv DEF Continues
<1> QED BY <1>2, <1>3, <1>4

LEMMA ForgetScanInv == ASSUME IInv, NEW t \in Threads, ForgetScan(t) PROVE IInv'
<1> DEFINE n == thread[t].slot
           h == thread[t].handle
<1>1. thread[t].at = "forget" /\ UNCHANGED <<gSearchContextEntries, last, open, search>>
  BY DEF ForgetScan, At
<1>2. /\ h \in open /\ h \in Handles /\ n \in 1 .. TableSize + 1 /\ TypeOK /\ ~search[h].remembered
      /\ thread[t].call # "none"
      /\ thread[t].call = "close" => Absent(h, { s \in Slots : s < n })
  BY <1>1, Own DEF ThreadInv, Control, Forgets, ForgetSteps
<1>3. CASE Scanned(t)
  <2>1. Go(t, "forgetLast") /\ "forgetLast" \in Steps
    BY <1>3 DEF ForgetScan, Steps
  <2>2. Alone(t) /\ thread'[t].at = "forgetLast" /\ thread'[t].call = thread[t].call /\ thread'[t].handle = h
    BY <1>2, <2>1, GoFacts
  <2>3. thread[t].call = "close" => Absent(h, Slots)
    BY <1>2, <1>3, ScanBounds DEF Scanned
  <2>4. Forgets(thread[t])'
    BY <1>1, <1>2, <2>2, <2>3 DEF Forgets, Absent
  <2>5. ThreadInv(thread[t])'
    BY <1>1, <1>2, <2>2, <2>4 DEF ThreadInv, Control, InHand, Relies, Remembers, Scans, FindSteps, ForgetSteps, RememberSteps
  <2> QED BY <1>1, <2>2, <2>5, Local DEF Continues
<1>4. CASE ~Scanned(t) /\ IsOf(Slot(t), Handle(t))
  <2> DEFINE e == Slot(t)
  <2>1. n \in Slots /\ e \in Entries /\ e # NoEntry /\ e.handle = h /\ e = gSearchContextEntries[n]
    BY <1>2, <1>4, SlotTypes DEF Scanned, Slot, IsOf, Handle, TypeOK
  <2>2. Fresh(e)
    BY <2>1 DEF IInv, TableInv
  <2>3. thread' = [thread EXCEPT ![t].at = "forgetSlot", ![t].entry = e]
    BY <1>4 DEF ForgetScan
  <2> HIDE DEF e
  <2>4. /\ Alone(t) /\ thread'[t].at = "forgetSlot" /\ thread'[t].call = thread[t].call
        /\ thread'[t].handle = thread[t].handle /\ thread'[t].slot = thread[t].slot /\ thread'[t].entry = e
    <3>1. e \in Entries \union {NoEntry} /\ "forgetSlot" \in Steps /\ TypeOK
      BY <1>2, <2>1 DEF Steps
    <3> HIDE DEF n, h
    <3> QED BY <2>3, <3>1, EntryFacts
  <2>5. InHand(thread[t])'
    BY <1>1, <2>1, <2>2, <2>4 DEF InHand, Fresh
  <2>6. Forgets(thread[t])'
    BY <1>1, <1>2, <2>1, <2>4 DEF Forgets, Absent
  <2>7. ThreadInv(thread[t])'
    BY <1>1, <1>2, <2>1, <2>4, <2>5, <2>6 DEF ThreadInv, Control, Relies, Remembers, Scans, FindSteps, ForgetSteps, RememberSteps
  <2> QED BY <1>1, <2>4, <2>7, Local DEF Continues
<1>5. CASE ~Scanned(t) /\ ~IsOf(Slot(t), Handle(t))
  <2> DEFINE m == n + 1
  <2>1. n \in Slots /\ m \in 1 .. TableSize + 1
    BY <1>2, <1>5, SlotTypes DEF Scanned
  <2>2. thread' = [thread EXCEPT ![t].slot = m]
    BY <1>5 DEF ForgetScan, NextSlot
  <2>3. thread' = [thread EXCEPT ![t].at = "forget", ![t].slot = m] /\ "forget" \in Steps
    BY <1>1, <2>2, Own DEF Records, Steps
  <2>4. thread[t].call = "close" => Absent(h, { s \in Slots : s < m })
    BY <1>2, <1>5, <2>1, ScanBounds DEF Absent, Slot, Handle
  <2> HIDE DEF m
  <2>5. /\ Alone(t) /\ thread'[t].at = "forget" /\ thread'[t].call = thread[t].call
        /\ thread'[t].handle = thread[t].handle /\ thread'[t].slot = m
    <3>1. TypeOK
      BY <1>2
    <3> HIDE DEF n, h
    <3> QED BY <2>1, <2>3, <3>1, SlotFacts
  <2>6. Forgets(thread[t])'
    BY <1>1, <1>2, <2>4, <2>5 DEF Forgets, Absent
  <2>7. ThreadInv(thread[t])'
    BY <1>1, <1>2, <2>5, <2>6 DEF ThreadInv, Control, InHand, Relies, Remembers, Scans, FindSteps, ForgetSteps, RememberSteps
  <2> QED BY <1>1, <2>5, <2>7, Local DEF Continues
<1> QED BY <1>3, <1>4, <1>5

LEMMA ForgetLastInv == ASSUME IInv, NEW t \in Threads, ForgetLast(t) PROVE IInv'
<1> DEFINE h == thread[t].handle
<1>1. thread[t].at = "forgetLast" /\ UNCHANGED <<gSearchContextEntries, last, open, search>>
  BY DEF ForgetLast, At
<1>2. /\ h \in open /\ TypeOK /\ ~search[h].remembered /\ thread[t].call # "none"
      /\ thread[t].call = "close" => Absent(h, Slots)
  BY <1>1, Own DEF ThreadInv, Control, Forgets, ForgetSteps
<1>3. CASE gLastSearchHandle = Handle(t)
  <2>1. Go(t, "forgetEntry") /\ "forgetEntry" \in Steps
    BY <1>3 DEF ForgetLast, Steps
  <2>2. Alone(t) /\ thread'[t].at = "forgetEntry" /\ thread'[t].call = thread[t].call /\ thread'[t].handle = h
    BY <1>2, <2>1, GoFacts
  <2>3. Forgets(thread[t])'
    BY <1>1, <1>2, <2>2 DEF Forgets, Absent
  <2>4. ThreadInv(thread[t])'
    BY <1>1, <1>2, <2>2, <2>3 DEF ThreadInv, Control, InHand, Relies, Remembers, Scans, FindSteps, ForgetSteps, RememberSteps
  <2> QED BY <1>1, <2>2, <2>4, Local DEF Continues
<1>4. CASE gLastSearchHandle # Handle(t)
  <2>1. AfterForget(t) /\ thread[t].at \in ForgetSteps /\ gLastSearchHandle' # h
    BY <1>1, <1>4 DEF ForgetLast, ForgetSteps, Handle, last
  <2>2. Alone(t) /\ Continues(t) /\ ThreadInv(thread[t])'
    BY <1>1, <1>2, <2>1, AfterForgetFacts
  <2> QED BY <1>1, <2>2, Local
<1> QED BY <1>3, <1>4

LEMMA ForgetEntryInv == ASSUME IInv, NEW t \in Threads, ForgetEntry(t) PROVE IInv'
<1> DEFINE h == thread[t].handle
<1>1. /\ thread[t].at = "forgetEntry" /\ gLastSearchEntry' = NoEntry /\ Go(t, "forgetHandle")
      /\ gSearchContextEntries' = gSearchContextEntries /\ gLastSearchHandle' = gLastSearchHandle
      /\ open' = open /\ search' = search
  BY DEF ForgetEntry, At
<1>2. /\ h \in open /\ TypeOK /\ ~search[h].remembered /\ thread[t].call # "none"
      /\ thread[t].call = "close" => Absent(h, Slots)
  BY <1>1, Own DEF ThreadInv, Control, Forgets, ForgetSteps
<1>3. Alone(t) /\ thread'[t].at = "forgetHandle" /\ thread'[t].call = thread[t].call /\ thread'[t].handle = h
  BY <1>1, <1>2, GoFacts DEF Steps
<1>4. TypeOK'
  BY <1>1, <1>2, <1>3 DEF TypeOK, Alone, Records
<1>5. TableInv'
  BY <1>1 DEF IInv, TableInv, Fresh, Absent
<1>6. LastInv'
  BY <1>1 DEF IInv, LastInv
<1>7. ThreadInv(thread[t])'
  <2>1. Forgets(thread[t])'
    BY <1>1, <1>2, <1>3 DEF Forgets, Absent
  <2> QED BY <1>1, <1>2, <1>3, <2>1 DEF ThreadInv, Control, InHand, Relies, Remembers, Scans, FindSteps, ForgetSteps, RememberSteps
<1>8. ASSUME NEW u \in Threads \ {t} PROVE ThreadInv(thread[u])'
  BY <1>1, <1>3, LastEntryWritten
<1> QED BY <1>1, <1>3, <1>4, <1>5, <1>6, <1>7, <1>8, Assemble DEF Continues

LEMMA ForgetHandleInv == ASSUME IInv, NEW t \in Threads, ForgetHandle(t) PROVE IInv'
<1> DEFINE h == thread[t].handle
<1>1. /\ thread[t].at = "forgetHandle" /\ gLastSearchHandle' = INVALID_HANDLE_VALUE /\ AfterForget(t)
      /\ gSearchContextEntries' = gSearchContextEntries /\ gLastSearchEntry' = gLastSearchEntry
      /\ open' = open /\ search' = search
  BY DEF ForgetHandle, At
<1>2. /\ h \in Handles /\ TypeOK
      /\ thread[t].call = "close" => Absent(h, Slots)
  BY <1>1, Own DEF ThreadInv, Forgets
<1>3. Alone(t) /\ Continues(t) /\ ThreadInv(thread[t])'
  <2>1. thread[t].at \in ForgetSteps /\ gLastSearchHandle' # h
    BY <1>1, <1>2, SearchAssumption DEF ForgetSteps
  <2> QED BY <1>1, <1>2, <2>1, AfterForgetFacts
<1>4. TypeOK'
  BY <1>1, <1>2, <1>3 DEF TypeOK, Alone, Records
<1>5. TableInv'
  BY <1>1 DEF IInv, TableInv, Fresh, Absent
<1>6. LastInv'
  <2>1. gLastSearchEntry # NoEntry => gLastSearchEntry.handle # INVALID_HANDLE_VALUE
    BY <1>2, SearchAssumption DEF TypeOK, Entries
  <2> QED BY <1>1, <2>1 DEF IInv, LastInv, Fresh
<1>7. ASSUME NEW u \in Threads \ {t} PROVE ThreadInv(thread[u])'
  BY <1>1, <1>3, LastHandleWritten
<1> QED BY <1>3, <1>4, <1>5, <1>6, <1>7, Assemble

LEMMA ForgetSlotInv == ASSUME IInv, NEW t \in Threads, ForgetSlot(t) PROVE IInv'
<1> DEFINE n == thread[t].slot
           h == thread[t].handle
           m == n + 1
<1>1. /\ thread[t].at = "forgetSlot" /\ thread' = [thread EXCEPT ![t].at = "forget", ![t].slot = m]
      /\ gSearchContextEntries' = [gSearchContextEntries EXCEPT ![n] = IF @ = thread[t].entry THEN NoEntry ELSE @]
      /\ gLastSearchHandle' = gLastSearchHandle /\ gLastSearchEntry' = gLastSearchEntry
      /\ open' = open /\ search' = search
  BY DEF ForgetSlot, At, last
<1>2. /\ h \in open /\ h \in Handles /\ n \in Slots /\ TypeOK /\ ~search[h].remembered /\ thread[t].call # "none"
      /\ thread[t].entry # NoEntry /\ thread[t].entry.handle = h
  BY <1>1, Own DEF ThreadInv, Control, Forgets, InHand, ForgetSteps
<1>3. thread[t].call = "close" =>
        /\ Absent(h, { s \in Slots : s < n })
        /\ IsOf(gSearchContextEntries[n], h) => gSearchContextEntries[n] = thread[t].entry
  BY <1>1, Own DEF ThreadInv, Forgets
<1>4. m \in 1 .. TableSize + 1 /\ { s \in Slots : s < m } = { s \in Slots : s < n } \union {n}
  BY <1>2, SlotTypes, ScanBounds
<1> HIDE DEF m, n, h
<1>5. /\ Alone(t) /\ thread'[t].at = "forget" /\ thread'[t].call = thread[t].call
      /\ thread'[t].handle = thread[t].handle /\ thread'[t].slot = m
  <2>1. "forget" \in Steps
    BY DEF Steps
  <2> QED BY <1>1, <1>2, <1>4, <2>1, SlotFacts
<1>6. \A s \in Slots : gSearchContextEntries'[s] =
        IF s = n /\ gSearchContextEntries[n] = thread[t].entry THEN NoEntry ELSE gSearchContextEntries[s]
  BY <1>1, <1>2 DEF TypeOK
<1>7. \A s \in Slots : gSearchContextEntries'[s] # NoEntry => gSearchContextEntries'[s] = gSearchContextEntries[s]
  BY <1>6
<1>8. \A g \in Handles : g # h => \A s \in Slots : IsOf(gSearchContextEntries'[s], g) <=> IsOf(gSearchContextEntries[s], g)
  BY <1>2, <1>6 DEF IsOf
<1>9. TypeOK'
  <2>1. gSearchContextEntries' \in [Slots -> Entries \union {NoEntry}]
    BY <1>1, <1>2 DEF TypeOK
  <2> QED BY <1>1, <1>2, <1>5, <2>1 DEF TypeOK, Alone, Records
<1>10. TableInv'
  <2>1. \A s \in Slots : gSearchContextEntries'[s] # NoEntry =>
          gSearchContextEntries'[s].handle \in open' /\ Fresh(gSearchContextEntries[s])'
    BY <1>1, <1>7 DEF IInv, TableInv, Fresh
  <2>2. \A g \in Handles : search'[g].remembered => ~Absent(g, Slots)'
    BY <1>1, <1>2, <1>8 DEF IInv, TableInv, Absent
  <2> QED BY <2>1, <2>2 DEF TableInv
<1>11. LastInv'
  BY <1>1 DEF IInv, LastInv, Fresh
<1>12. ThreadInv(thread[t])'
  <2>1. thread[t].call = "close" => \A s \in { x \in Slots : x < m } : ~IsOf(gSearchContextEntries'[s], h)
    <3>1. SUFFICES ASSUME thread[t].call = "close", NEW s \in { x \in Slots : x < n } \union {n}
                   PROVE  ~IsOf(gSearchContextEntries'[s], h)
      BY <1>4
    <3> QED BY <1>2, <1>3, <1>6, <3>1 DEF Absent, IsOf
  <2>2. Forgets(thread[t])'
    <3>1. thread[t].call = "close" => \A s \in { x \in Slots : x < thread'[t].slot } :
                                        ~IsOf(gSearchContextEntries'[s], thread'[t].handle)
      BY <1>5, <2>1 DEF h
    <3>2. ~search'[thread'[t].handle].remembered
      BY <1>1, <1>2, <1>5 DEF h
    <3> QED BY <1>5, <3>1, <3>2 DEF Forgets, Absent
  <2> QED BY <1>1, <1>2, <1>5, <2>2 DEF ThreadInv, Control, InHand, Relies, Remembers, Scans, FindSteps, ForgetSteps,
                                        RememberSteps, h
<1>13. ASSUME NEW u \in Threads \ {t} PROVE ThreadInv(thread[u])'
  <2>1. ThreadInv(thread[u]) /\ thread'[u] = thread[u] /\ (thread[u].at # "idle" => thread[u].handle \in Handles)
    BY <1>5, Own DEF Alone
  <2>2. Forgets(thread[u])'
    <3>1. thread[u].at = "forgetSlot" => thread[u].slot \in Slots
      BY <2>1 DEF ThreadInv, Control
    <3>3. Absent(thread[u].handle, { s \in Slots : s < thread[u].slot }) =>
            Absent(thread[u].handle, { s \in Slots : s < thread[u].slot })'
      BY <1>7, <2>1 DEF Absent, IsOf
    <3>4. Absent(thread[u].handle, Slots) => Absent(thread[u].handle, Slots)'
      BY <1>7, <2>1 DEF Absent, IsOf
    <3> QED BY <1>1, <1>7, <2>1, <3>1, <3>3, <3>4 DEF ThreadInv, Forgets, IsOf
  <2>3. Remembers(thread[u])'
    <3>1. Absent(thread[u].handle, Slots) => Absent(thread[u].handle, Slots)'
      BY <1>7, <2>1 DEF Absent, IsOf
    <3> QED BY <1>1, <2>1, <3>1 DEF ThreadInv, Remembers
  <2>4. Scans(thread[u])'
    <3>1. thread[u].at = "findSlot" /\ search[thread[u].handle].remembered =>
            ~Absent(thread[u].handle, { s \in Slots : s >= thread[u].slot })'
      BY <1>2, <1>8, <2>1 DEF ThreadInv, Scans, Absent
    <3> QED BY <1>1, <2>1, <3>1 DEF ThreadInv, Scans
  <2> QED BY <1>1, <2>1, <2>2, <2>3, <2>4 DEF ThreadInv, Control, InHand, Relies, Fresh
<1>14. Continues(t)
  BY <1>1, <1>5 DEF Continues
<1> QED BY <1>5, <1>9, <1>10, <1>11, <1>12, <1>13, <1>14, Assemble

--------------------------------------------------------------------------------
(* RememberSearchContext.                                                     *)

\* A call that has remembered looks its context up, or returns.
LEMMA AfterRememberFacts ==
  ASSUME IInv, NEW t \in Threads, thread[t].at \in RememberSteps, AfterRemember(t), open' = open
  PROVE  Alone(t) /\ Continues(t) /\ ThreadInv(thread[t])'
<1>1. thread[t].handle \in open /\ thread[t].at # "idle" /\ TypeOK /\ thread[t].call = "first"
  BY Own DEF ThreadInv, Control, RememberSteps
<1>2. CASE Go(t, "find")
  <2>1. "find" \in Steps
    BY DEF Steps
  <2>2. Alone(t) /\ thread'[t].at = "find" /\ thread'[t].call = "first" /\ thread'[t].handle = thread[t].handle
    BY <1>1, <1>2, <2>1, GoFacts
  <2> QED BY <1>1, <2>2 DEF ThreadInv, Control, InHand, Relies, Forgets, Remembers, Scans, FindSteps, ForgetSteps,
                            RememberSteps, Continues
<1>3. CASE Return(t)
  BY <1>1, <1>3, ReturnFacts, IdleFacts, IdleInv DEF Continues
<1> QED BY <1>2, <1>3 DEF AfterRemember

LEMMA RememberScanInv == ASSUME IInv, NEW t \in Threads, RememberScan(t) PROVE IInv'
<1> DEFINE h == thread[t].handle
<1>1. thread[t].at = "remember" /\ UNCHANGED <<gSearchContextEntries, last, open, search>>
  BY DEF RememberScan, At
<1>2. h \in open /\ TypeOK /\ thread[t].call = "first" /\ Remembers(thread[t])
      /\ thread[t].slot \in 1 .. TableSize + 1
  BY <1>1, Own DEF ThreadInv, Control, RememberSteps
<1>3. CASE Scanned(t)
  <2>1. AfterRemember(t) /\ thread[t].at \in RememberSteps
    BY <1>1, <1>3 DEF RememberScan, RememberSteps
  <2> QED BY <1>1, <2>1, AfterRememberFacts, Local
<1>4. CASE ~Scanned(t)
  <2>1. Go(t, "rememberSlot") /\ "rememberSlot" \in Steps /\ thread[t].slot \in Slots
    BY <1>2, <1>4, SlotTypes DEF RememberScan, Steps, Scanned
  <2> HIDE DEF h
  <2>2. /\ Alone(t) /\ thread'[t].at = "rememberSlot" /\ thread'[t].call = thread[t].call
        /\ thread'[t].handle = thread[t].handle /\ thread'[t].wide = thread[t].wide /\ thread'[t].slot = thread[t].slot
    BY <1>2, <2>1, GoFacts
  <2>3. Remembers(thread[t])'
    BY <1>1, <1>2, <2>2 DEF Remembers, Absent, last
  <2>4. ThreadInv(thread[t])'
    BY <1>1, <1>2, <2>1, <2>2, <2>3 DEF ThreadInv, Control, InHand, Relies, Forgets, Scans, FindSteps, ForgetSteps,
                                        RememberSteps, h
  <2> QED BY <1>1, <2>2, <2>4, Local DEF Continues
<1> QED BY <1>3, <1>4

LEMMA RememberSlotInv == ASSUME IInv, NEW t \in Threads, RememberSlot(t) PROVE IInv'
<1> DEFINE n == thread[t].slot
           h == thread[t].handle
           wide == thread[t].wide
           e == NewEntry(t)
<1>1. thread[t].at = "rememberSlot" /\ gLastSearchHandle' = gLastSearchHandle /\ gLastSearchEntry' = gLastSearchEntry
      /\ open' = open
  BY DEF RememberSlot, At, last
<1>2. /\ h \in open /\ h \in Handles /\ TypeOK /\ thread[t].call = "first" /\ n \in Slots
      /\ wide => /\ Absent(h, Slots)
                 /\ IsOf(gLastSearchEntry, h) => gLastSearchEntry.search # search[h].number
  BY <1>1, Own DEF ThreadInv, Control, Remembers, RememberSteps
<1>3. CASE ~(Slot(t) = NoEntry \/ IsOf(Slot(t), Handle(t)))
  <2> DEFINE m == n + 1
  <2>1. thread' = [thread EXCEPT ![t].at = "remember", ![t].slot = m] /\ UNCHANGED <<gSearchContextEntries, search>>
    BY <1>3 DEF RememberSlot
  <2>2. m \in 1 .. TableSize + 1 /\ "remember" \in Steps /\ TypeOK
    BY <1>2, SlotTypes DEF Steps
  <2> HIDE DEF m, n, h, wide
  <2>3. /\ Alone(t) /\ thread'[t].at = "remember" /\ thread'[t].call = thread[t].call
        /\ thread'[t].handle = thread[t].handle /\ thread'[t].wide = thread[t].wide
    BY <2>1, <2>2, SlotFacts
  <2>4. Remembers(thread[t])'
    BY <1>1, <1>2, <2>1, <2>3 DEF Remembers, Absent, h, wide
  <2>5. ThreadInv(thread[t])'
    BY <1>1, <1>2, <2>3, <2>4 DEF ThreadInv, Control, InHand, Relies, Forgets, Scans, FindSteps, ForgetSteps,
                                  RememberSteps, h
  <2>6. UNCHANGED <<gSearchContextEntries, last, open, search>>
    BY <1>1, <2>1 DEF last
  <2> QED BY <1>1, <2>3, <2>5, <2>6, Local DEF Continues
<1>4. CASE Slot(t) = NoEntry \/ IsOf(Slot(t), Handle(t))
  <2>1. /\ gSearchContextEntries' = [gSearchContextEntries EXCEPT ![n] = e]
        /\ search' = [search EXCEPT ![h].remembered = wide] /\ Go(t, "rememberEntry")
        /\ gSearchContextEntries[n] = NoEntry \/ IsOf(gSearchContextEntries[n], h)
    BY <1>4 DEF RememberSlot, Store, Slot, Handle
  <2>2. e.handle = h /\ e.search = search[h].number /\ e.wideEnumeration = wide /\ e \in Entries /\ e # NoEntry
    BY <1>2, Own, SearchAssumption DEF NewEntry, Handle, Entries, TypeOK, Records
  <2>3. wide \in BOOLEAN
    BY Own DEF Records
  <2> HIDE DEF e, n, h, wide
  <2>4. /\ \A s \in Slots : gSearchContextEntries'[s] = IF s = n THEN e ELSE gSearchContextEntries[s]
        /\ \A g \in Handles : search'[g].number = search[g].number
        /\ \A g \in Handles : search'[g].remembered = IF g = h THEN wide ELSE search[g].remembered
    BY <1>2, <2>1 DEF TypeOK
  <2>5. \A g \in Handles : g # h => \A s \in Slots :
          /\ IsOf(gSearchContextEntries'[s], g) <=> IsOf(gSearchContextEntries[s], g)
          /\ IsOf(gSearchContextEntries'[s], g) => gSearchContextEntries'[s] = gSearchContextEntries[s]
    BY <2>1, <2>2, <2>4 DEF IsOf
  <2>6. /\ Alone(t) /\ thread'[t].at = "rememberEntry" /\ thread'[t].call = thread[t].call
        /\ thread'[t].handle = thread[t].handle /\ thread'[t].wide = thread[t].wide
    BY <1>2, <2>1, GoFacts DEF Steps
  <2>7. TypeOK'
    <3>1. gSearchContextEntries' \in [Slots -> Entries \union {NoEntry}]
      BY <1>2, <2>1, <2>2 DEF TypeOK
    <3>2. search' \in [Handles -> [number : Nat, remembered : BOOLEAN]]
      BY <1>2, <2>1, <2>3 DEF TypeOK
    <3> QED BY <1>1, <1>2, <2>6, <3>1, <3>2 DEF TypeOK, Alone, Records
  <2>8. TableInv'
    <3>1. ASSUME NEW s \in Slots, gSearchContextEntries'[s] # NoEntry
          PROVE  gSearchContextEntries'[s].handle \in open' /\ Fresh(gSearchContextEntries[s])'
      <4>1. CASE s = n
        BY <1>1, <1>2, <2>2, <2>4, <4>1 DEF Fresh
      <4>2. CASE s # n
        <5>1. /\ gSearchContextEntries'[s] = gSearchContextEntries[s] /\ gSearchContextEntries[s] \in Entries
              /\ gSearchContextEntries[s].handle \in open /\ gSearchContextEntries[s].handle \in Handles
              /\ Fresh(gSearchContextEntries[s])
          BY <1>2, <2>4, <3>1, <4>2 DEF IInv, TableInv, TypeOK, Entries
        <5>2. gSearchContextEntries[s].handle = h => ~wide
          BY <1>2, <3>1, <5>1 DEF Absent, IsOf
        <5> QED BY <1>1, <2>4, <5>1, <5>2 DEF Fresh
      <4> QED BY <4>1, <4>2
    <3>2. ASSUME NEW g \in Handles, search'[g].remembered PROVE ~Absent(g, Slots)'
      <4>1. CASE g = h
        BY <1>2, <2>2, <2>4, <4>1 DEF Absent, IsOf
      <4>2. CASE g # h
        BY <2>4, <2>5, <3>2, <4>2 DEF IInv, TableInv, Absent
      <4> QED BY <4>1, <4>2
    <3> QED BY <3>1, <3>2 DEF TableInv
  <2>9. LastInv'
    <3>1. gLastSearchEntry # NoEntry => gLastSearchEntry.handle \in Handles
      BY <1>2 DEF TypeOK, Entries
    <3>2. gLastSearchEntry # NoEntry /\ gLastSearchEntry.search = search[gLastSearchEntry.handle].number => Fresh(gLastSearchEntry)'
      BY <1>1, <1>2, <2>3, <2>4, <3>1 DEF IInv, LastInv, Fresh, IsOf
    <3> QED BY <1>1, <2>4, <3>1, <3>2 DEF IInv, LastInv
  <2>10. ThreadInv(thread[t])'
    <3>1. Remembers(thread[t])'
      BY <1>2, <2>4, <2>6 DEF Remembers, h, wide
    <3> QED BY <1>1, <1>2, <2>6, <3>1 DEF ThreadInv, Control, InHand, Relies, Forgets, Scans, FindSteps, ForgetSteps,
                                          RememberSteps, h
  <2>11. ASSUME NEW u \in Threads \ {t} PROVE ThreadInv(thread[u])'
    <3> DEFINE g == thread[u].handle
    <3>1. ThreadInv(thread[u]) /\ thread'[u] = thread[u]
      BY <2>6, Own DEF Alone
    <3>2. CASE thread[u].at = "idle"
      BY <3>1, <3>2 DEF ThreadInv, Control, InHand, Relies, Forgets, Remembers, Scans, FindSteps, ForgetSteps, RememberSteps
    <3>3. CASE thread[u].at # "idle"
      <4>1. g \in Handles /\ g # h
        BY <1>1, <1>2, <3>3, Own DEF IInv, Shared, h
      <4>2. search'[g].number = search[g].number /\ search'[g].remembered = search[g].remembered
        BY <2>4, <4>1
      <4>3. \A s \in Slots : /\ IsOf(gSearchContextEntries'[s], g) <=> IsOf(gSearchContextEntries[s], g)
                             /\ IsOf(gSearchContextEntries'[s], g) => gSearchContextEntries'[s] = gSearchContextEntries[s]
        BY <2>5, <4>1
      <4>4. /\ Absent(g, Slots)' <=> Absent(g, Slots)
            /\ Absent(g, { s \in Slots : s < thread[u].slot })' <=> Absent(g, { s \in Slots : s < thread[u].slot })
            /\ Absent(g, { s \in Slots : s >= thread[u].slot })' <=> Absent(g, { s \in Slots : s >= thread[u].slot })
        BY <3>1, <4>3 DEF Absent
      <4>5. Control(thread[u])' /\ InHand(thread[u])' /\ Relies(thread[u])'
        BY <1>1, <3>1, <4>2 DEF ThreadInv, Control, InHand, Relies, Fresh
      <4>6. Forgets(thread[u])'
        <5>1. thread[u].at = "forgetSlot" => thread[u].slot \in Slots
          BY <3>1 DEF ThreadInv, Control
        <5> QED BY <1>1, <3>1, <4>2, <4>3, <4>4, <5>1 DEF ThreadInv, Forgets
      <4>7. Remembers(thread[u])' /\ Scans(thread[u])'
        BY <1>1, <3>1, <4>2, <4>4 DEF ThreadInv, Remembers, Scans
      <4> QED BY <4>5, <4>6, <4>7 DEF ThreadInv
    <3> QED BY <3>2, <3>3
  <2>12. Continues(t)
    BY <1>1, <2>6 DEF Continues
  <2> QED BY <2>6, <2>7, <2>8, <2>9, <2>10, <2>11, <2>12, Assemble
<1> QED BY <1>3, <1>4

LEMMA RememberEntryInv == ASSUME IInv, NEW t \in Threads, RememberEntry(t) PROVE IInv'
<1> DEFINE h == thread[t].handle
<1>1. /\ thread[t].at = "rememberEntry" /\ gLastSearchEntry' = NewEntry(t) /\ Go(t, "rememberHandle")
      /\ gSearchContextEntries' = gSearchContextEntries /\ gLastSearchHandle' = gLastSearchHandle
      /\ open' = open /\ search' = search
  BY DEF RememberEntry, At
<1>2. /\ h \in open /\ h \in Handles /\ TypeOK /\ thread[t].call = "first"
      /\ search[h].remembered = thread[t].wide
  BY <1>1, Own DEF ThreadInv, Control, Remembers, RememberSteps
<1>3. /\ NewEntry(t) \in Entries /\ NewEntry(t) # NoEntry /\ NewEntry(t).handle = h
      /\ NewEntry(t).search = search[h].number /\ NewEntry(t).search \in Nat
      /\ NewEntry(t).wideEnumeration = thread[t].wide
  BY <1>2, Own, SearchAssumption DEF NewEntry, Handle, Entries, TypeOK, Records
<1> HIDE DEF h
<1>4. Alone(t) /\ thread'[t].at = "rememberHandle" /\ thread'[t].call = thread[t].call
      /\ thread'[t].handle = thread[t].handle
  BY <1>1, <1>2, GoFacts DEF Steps
<1>5. TypeOK'
  BY <1>1, <1>2, <1>3, <1>4 DEF TypeOK, Alone, Records
<1>6. TableInv'
  BY <1>1 DEF IInv, TableInv, Fresh, Absent
<1>7. LastInv'
  <2>1. Fresh(gLastSearchEntry)' /\ gLastSearchEntry'.search = search'[gLastSearchEntry'.handle].number
    BY <1>1, <1>2, <1>3 DEF Fresh
  <2>2. gLastSearchEntry'.search \in Nat
    BY <1>1, <1>3
  <2> QED BY <1>1, <2>1, <2>2 DEF IInv, LastInv
<1>8. ThreadInv(thread[t])'
  BY <1>1, <1>2, <1>3, <1>4 DEF ThreadInv, Control, InHand, Relies, Forgets, Remembers, Scans, FindSteps, ForgetSteps,
                                RememberSteps, h
<1>9. ASSUME NEW u \in Threads \ {t} PROVE ThreadInv(thread[u])'
  BY <1>1, <1>3, <1>4, LastEntryWritten DEF h
<1> QED BY <1>1, <1>4, <1>5, <1>6, <1>7, <1>8, <1>9, Assemble DEF Continues

LEMMA RememberHandleInv == ASSUME IInv, NEW t \in Threads, RememberHandle(t) PROVE IInv'
<1> DEFINE h == thread[t].handle
<1>1. /\ thread[t].at = "rememberHandle" /\ gLastSearchHandle' = h /\ AfterRemember(t)
      /\ gSearchContextEntries' = gSearchContextEntries /\ gLastSearchEntry' = gLastSearchEntry
      /\ open' = open /\ search' = search
  BY DEF RememberHandle, At, Handle
<1>2. h \in open /\ h \in Handles /\ TypeOK /\ Relies(thread[t])
  BY <1>1, Own DEF ThreadInv
<1>3. Alone(t) /\ Continues(t) /\ ThreadInv(thread[t])'
  BY <1>1, AfterRememberFacts DEF RememberSteps
<1>4. TypeOK'
  BY <1>1, <1>2, <1>3 DEF TypeOK, Alone, Records
<1>5. TableInv'
  BY <1>1 DEF IInv, TableInv, Fresh, Absent
<1>6. LastInv'
  BY <1>1, <1>2 DEF IInv, LastInv, Fresh, Relies, IsOf
<1>7. ASSUME NEW u \in Threads \ {t} PROVE ThreadInv(thread[u])'
  BY <1>1, <1>3, LastHandleWritten
<1> QED BY <1>3, <1>4, <1>5, <1>6, <1>7, Assemble

--------------------------------------------------------------------------------
(* The hooked functions.                                                      *)

\* A search is no longer one that must go on in W, for which only a call of the thread that
\* gives it up may have relied on the table.
LEMMA NotRemembered ==
  ASSUME IInv, NEW t \in Threads, NEW h \in Handles, Alone(t),
         UNCHANGED <<gSearchContextEntries, last, open>>, search' = [search EXCEPT ![h].remembered = FALSE],
         \A u \in Threads \ {t} : thread[u].at # "idle" /\ thread[u].handle = h => thread[u].call = "next"
  PROVE  TypeOK' /\ TableInv' /\ LastInv' /\ \A u \in Threads \ {t} : ThreadInv(thread[u])'
<1>1. /\ gSearchContextEntries' = gSearchContextEntries /\ gLastSearchHandle' = gLastSearchHandle
      /\ gLastSearchEntry' = gLastSearchEntry /\ open' = open /\ TypeOK
  BY Own DEF last
<1>2. /\ \A g \in Handles : search'[g].number = search[g].number
      /\ \A g \in Handles : search'[g].remembered = IF g = h THEN FALSE ELSE search[g].remembered
      /\ search' \in [Handles -> [number : Nat, remembered : BOOLEAN]]
  BY <1>1 DEF TypeOK
<1>3. TypeOK'
  BY <1>1, <1>2 DEF TypeOK, Alone, Records
<1>4. ASSUME NEW e \in Entries, Fresh(e) PROVE Fresh(e)'
  BY <1>2, <1>4 DEF Fresh, Entries
<1>5. TableInv'
  <2>1. ASSUME NEW s \in Slots, gSearchContextEntries'[s] # NoEntry
        PROVE  gSearchContextEntries'[s].handle \in open' /\ Fresh(gSearchContextEntries[s])'
    <3> DEFINE e == gSearchContextEntries[s]
    <3>1. e \in Entries /\ e.handle \in open /\ Fresh(e)
      BY <1>1, <2>1 DEF IInv, TableInv, TypeOK
    <3>2. e.handle \in Handles /\ search'[e.handle].number = search[e.handle].number
          /\ (search'[e.handle].remembered => search[e.handle].remembered)
      BY <1>2, <3>1 DEF Entries
    <3> QED BY <1>1, <3>1, <3>2 DEF Fresh
  <2>2. \A g \in Handles : search'[g].remembered => ~Absent(g, Slots)'
    BY <1>1, <1>2 DEF IInv, TableInv, Absent
  <2> QED BY <2>1, <2>2 DEF TableInv
<1>6. LastInv'
  <2>1. gLastSearchEntry # NoEntry => gLastSearchEntry.handle \in Handles
    BY <1>1 DEF TypeOK, Entries
  <2> QED BY <1>1, <1>2, <2>1 DEF IInv, LastInv, Fresh
<1>7. ASSUME NEW u \in Threads \ {t} PROVE ThreadInv(thread[u])'
  <2>1. ThreadInv(thread[u]) /\ thread'[u] = thread[u]
    BY Own DEF Alone
  <2>2. CASE thread[u].at = "idle"
    BY <2>1, <2>2 DEF ThreadInv, Control, InHand, Relies, Forgets, Remembers, Scans, FindSteps, ForgetSteps, RememberSteps
  <2>3. CASE thread[u].at # "idle"
    <3>1. thread[u].handle \in Handles /\ (thread[u].handle = h => thread[u].at \notin RememberSteps)
      BY <2>1, <2>3, Own DEF ThreadInv, Control
    <3>2. /\ search'[thread[u].handle].number = search[thread[u].handle].number
          /\ search'[thread[u].handle].remembered => search[thread[u].handle].remembered
          /\ thread[u].at = "rememberEntry" =>
               search'[thread[u].handle].remembered = search[thread[u].handle].remembered
      BY <1>2, <3>1 DEF RememberSteps
    <3>3. Control(thread[u])' /\ InHand(thread[u])' /\ Relies(thread[u])'
      BY <1>1, <2>1, <3>2 DEF ThreadInv, Control, InHand, Relies, Fresh
    <3>4. Forgets(thread[u])' /\ Remembers(thread[u])' /\ Scans(thread[u])'
      BY <1>1, <2>1, <3>2 DEF ThreadInv, Forgets, Remembers, Scans, Absent
    <3> QED BY <3>3, <3>4 DEF ThreadInv
  <2> QED BY <2>2, <2>3
<1> QED BY <1>3, <1>5, <1>6, <1>7

LEMMA FindFirstFileInv ==
  ASSUME IInv, NEW t \in Threads, NEW h \in Handles, NEW kind \in Kinds, FindFirstFile(t, h, kind) PROVE IInv'
<1> DEFINE step == IF kind \in {"plain", "repair"} THEN "forget" ELSE "remember"
           wide == kind \in {"collision", "unicode"}
           new  == [at |-> step, call |-> "first", kind |-> kind, handle |-> h, wide |-> wide,
                    slot |-> 1, entry |-> NoEntry]
<1>1. /\ h \notin open /\ open' = open \union {h} /\ TypeOK /\ thread[t].at = "idle"
      /\ search' = [search EXCEPT ![h] = [number |-> search[h].number + 1, remembered |-> FALSE]]
      /\ thread' = [thread EXCEPT ![t] = new]
      /\ gSearchContextEntries' = gSearchContextEntries /\ gLastSearchHandle' = gLastSearchHandle
      /\ gLastSearchEntry' = gLastSearchEntry
  BY Own DEF FindFirstFile, At, last
<1>2. new \in Records /\ step \in {"forget", "remember"}
  BY SlotTypes DEF Records, Steps
<1>3. /\ Alone(t) /\ thread'[t] = new
  <2>1. thread \in [Threads -> Records]
    BY Own
  <2> HIDE DEF new
  <2> QED BY <1>1, <1>2, <2>1 DEF Alone
<1>4. /\ search[h].number \in Nat /\ search'[h].number = search[h].number + 1 /\ ~search'[h].remembered
      /\ \A g \in Handles : g # h => search'[g] = search[g]
      /\ search' \in [Handles -> [number : Nat, remembered : BOOLEAN]]
  BY <1>1 DEF TypeOK
<1>5. TypeOK'
  <2>1. open' \subseteq Handles
    BY <1>1 DEF TypeOK
  <2> QED BY <1>1, <1>3, <1>4, <2>1 DEF TypeOK, Alone, Records
<1>6. Shared'
  <2>1. \A u \in Threads \ {t} : thread'[u] = thread[u] /\ (thread[u].at # "idle" => thread[u].handle # h)
    BY <1>1, <1>3, Own DEF Alone
  <2> QED BY <1>3, <2>1 DEF IInv, Shared
<1>7. TableInv'
  <2>1. ASSUME NEW s \in Slots, gSearchContextEntries'[s] # NoEntry
        PROVE  gSearchContextEntries'[s].handle \in open' /\ Fresh(gSearchContextEntries[s])'
    <3>1. gSearchContextEntries[s].handle \in open /\ gSearchContextEntries[s].handle \in Handles
          /\ Fresh(gSearchContextEntries[s])
      BY <1>1, <2>1 DEF IInv, TableInv, TypeOK
    <3> QED BY <1>1, <1>4, <3>1 DEF Fresh
  <2>2. \A g \in Handles : search'[g].remembered => ~Absent(g, Slots)'
    BY <1>1, <1>4 DEF IInv, TableInv, Absent
  <2> QED BY <2>1, <2>2 DEF TableInv
<1>8. LastInv'
  <2>1. CASE gLastSearchEntry # NoEntry /\ gLastSearchEntry.handle = h
    <3>1. gLastSearchEntry.search \in Nat /\ gLastSearchEntry.search <= search[h].number
      BY <1>1, <2>1 DEF IInv, LastInv, TypeOK, Entries
    <3>2. gLastSearchEntry.search < search'[h].number
      BY <1>4, <3>1
    <3>3. gLastSearchHandle # h
      BY <1>1, SearchAssumption DEF IInv, LastInv
    <3> QED BY <1>1, <1>4, <2>1, <3>1, <3>2, <3>3 DEF IInv, LastInv
  <2>2. CASE gLastSearchEntry # NoEntry /\ gLastSearchEntry.handle # h
    <3>1. search'[gLastSearchEntry.handle] = search[gLastSearchEntry.handle]
      BY <1>1, <1>4, <2>2 DEF TypeOK, Entries
    <3> QED BY <1>1, <2>2, <3>1 DEF IInv, LastInv, Fresh
  <2>3. CASE gLastSearchEntry = NoEntry
    BY <1>1, <2>3 DEF IInv, LastInv
  <2> QED BY <2>1, <2>2, <2>3
<1>9. ThreadInv(thread[t])'
  <2>1. \A s \in Slots : ~IsOf(gSearchContextEntries'[s], h)
    BY <1>1 DEF IInv, TableInv, IsOf
  <2>2. IsOf(gLastSearchEntry', h) => gLastSearchEntry'.search # search'[h].number
    <3>1. ASSUME IsOf(gLastSearchEntry, h) PROVE gLastSearchEntry.search # search[h].number + 1
      <4>1. gLastSearchEntry.search \in Nat /\ gLastSearchEntry.search <= search[h].number
        BY <1>1, <3>1 DEF IInv, LastInv, TypeOK, Entries, IsOf
      <4> QED BY <1>4, <4>1
    <3> QED BY <1>1, <1>4, <3>1
  <2>3. thread'[t].at \in {"forget", "remember"} /\ thread'[t].call = "first" /\ thread'[t].handle = h
    BY <1>2, <1>3
  <2>4. Forgets(thread[t])' /\ Remembers(thread[t])'
    BY <1>4, <2>1, <2>2, <2>3 DEF Forgets, Remembers, Absent
  <2> QED BY <1>1, <2>3, <2>4 DEF ThreadInv, Control, InHand, Relies, Scans, FindSteps, ForgetSteps, RememberSteps
<1>10. ASSUME NEW u \in Threads \ {t} PROVE ThreadInv(thread[u])'
  <2>1. ThreadInv(thread[u]) /\ thread'[u] = thread[u]
    BY <1>3, Own DEF Alone
  <2>2. CASE thread[u].at = "idle"
    BY <2>1, <2>2 DEF ThreadInv, Control, InHand, Relies, Forgets, Remembers, Scans, FindSteps, ForgetSteps, RememberSteps
  <2>3. CASE thread[u].at # "idle"
    <3>1. search'[thread[u].handle] = search[thread[u].handle] /\ thread[u].handle \in open
      BY <1>1, <1>4, <2>3, Own
    <3>2. Control(thread[u])' /\ InHand(thread[u])' /\ Relies(thread[u])'
      BY <1>1, <2>1, <3>1 DEF ThreadInv, Control, InHand, Relies, Fresh
    <3>3. Forgets(thread[u])' /\ Remembers(thread[u])' /\ Scans(thread[u])'
      BY <1>1, <2>1, <3>1 DEF ThreadInv, Forgets, Remembers, Scans, Absent
    <3> QED BY <3>2, <3>3 DEF ThreadInv
  <2> QED BY <2>2, <2>3
<1>11. \A u \in Threads : ThreadInv(thread[u])'
  BY <1>9, <1>10
<1> QED BY <1>5, <1>6, <1>7, <1>8, <1>11 DEF IInv

LEMMA FindNextFileInv == ASSUME IInv, NEW t \in Threads, NEW h \in Handles, FindNextFile(t, h) PROVE IInv'
<1>1. /\ h \in open /\ thread[t].at = "idle" /\ UNCHANGED <<gSearchContextEntries, last, open, search>>
      /\ \A u \in Threads : thread[u].at # "idle" /\ thread[u].handle = h => thread[u].call = "next"
      /\ thread' = [thread EXCEPT ![t].at = "find", ![t].call = "next", ![t].handle = h]
  BY DEF FindNextFile, At, Users
<1>2. Alone(t) /\ thread'[t].at = "find" /\ thread'[t].call = "next" /\ thread'[t].handle = h
  BY <1>1, Own DEF Alone, Records, Steps
<1>3. TypeOK' /\ TableInv' /\ LastInv' /\ \A u \in Threads \ {t} : ThreadInv(thread[u])'
  BY <1>1, <1>2, LocalKept
<1>4. Shared'
  BY <1>1, <1>2 DEF IInv, Shared, Alone
<1>5. ThreadInv(thread[t])'
  BY <1>1, <1>2 DEF ThreadInv, Control, InHand, Relies, Forgets, Remembers, Scans, FindSteps, ForgetSteps, RememberSteps
<1>6. \A u \in Threads : ThreadInv(thread[u])'
  BY <1>3, <1>5
<1> QED BY <1>3, <1>4, <1>6 DEF IInv

LEMMA FindNextFileReturnsInv == ASSUME IInv, NEW t \in Threads, FindNextFileReturns(t) PROVE IInv'
<1>1. thread[t].at = "next" /\ UNCHANGED <<gSearchContextEntries, last, open>>
  BY DEF FindNextFileReturns, At
<1>2. CASE Return(t) /\ UNCHANGED search
  BY <1>1, <1>2, LocalReturn
<1>3. CASE /\ thread' = [thread EXCEPT ![t].at = "forget", ![t].slot = 1]
           /\ search' = [search EXCEPT ![Handle(t)].remembered = FALSE]
  <2> DEFINE h == thread[t].handle
  <2>1. h \in Handles /\ h \in open /\ thread[t].call = "next" /\ TypeOK
    BY <1>1, Own DEF ThreadInv, Control
  <2>2. /\ Alone(t) /\ thread'[t].at = "forget" /\ thread'[t].call = "next" /\ thread'[t].handle = thread[t].handle
    BY <1>3, <2>1, SlotTypes, SlotFacts DEF Steps
  <2>3. \A u \in Threads \ {t} : thread[u].at # "idle" /\ thread[u].handle = h => thread[u].call = "next"
    BY <1>1 DEF IInv, Shared
  <2>4. search' = [search EXCEPT ![h].remembered = FALSE]
    BY <1>3 DEF Handle
  <2>5. TypeOK' /\ TableInv' /\ LastInv' /\ \A u \in Threads \ {t} : ThreadInv(thread[u])'
    BY <1>1, <2>1, <2>2, <2>3, <2>4, NotRemembered
  <2>6. ~search'[thread'[t].handle].remembered
    BY <2>1, <2>2, <2>4 DEF TypeOK
  <2>7. ThreadInv(thread[t])'
    BY <1>1, <2>1, <2>2, <2>6 DEF ThreadInv, Control, InHand, Relies, Forgets, Remembers, Scans, FindSteps, ForgetSteps,
                                  RememberSteps
  <2> QED BY <1>1, <2>1, <2>2, <2>5, <2>7, Assemble DEF Continues
<1> QED BY <1>2, <1>3 DEF FindNextFileReturns

LEMMA FindCloseInv == ASSUME IInv, NEW t \in Threads, NEW h \in Handles, FindClose(t, h) PROVE IInv'
<1>1. /\ h \in open /\ thread[t].at = "idle" /\ UNCHANGED <<gSearchContextEntries, last, open>>
      /\ \A u \in Threads : thread[u].at = "idle" \/ thread[u].handle # h
      /\ search' = [search EXCEPT ![h].remembered = FALSE] /\ open' = open
  BY DEF FindClose, At, Users
<1>2. /\ Alone(t) /\ thread'[t].at = "forget" /\ thread'[t].call = "close" /\ thread'[t].handle = h
      /\ thread'[t].slot = 1
  <2>1. /\ thread \in [Threads -> Records]
        /\ thread' = [thread EXCEPT ![t].at = "forget", ![t].call = "close", ![t].handle = h, ![t].slot = 1]
    BY Own DEF FindClose
  <2>2. thread'[t].at = "forget" /\ thread'[t].call = "close" /\ thread'[t].handle = h /\ thread'[t].slot = 1
    BY <2>1 DEF Records
  <2>3. "forget" \in Steps /\ h \in Handles /\ 1 \in 1 .. TableSize + 1
    BY <1>1, Own, SlotTypes DEF TypeOK, Steps
  <2>4. thread' \in [Threads -> Records]
    <3> DEFINE taken == [thread EXCEPT ![t].at = "forget"]
               begun == [taken EXCEPT ![t].call = "close"]
               given == [begun EXCEPT ![t].handle = h]
    <3>1. taken \in [Threads -> Records]
      BY <2>1, <2>3 DEF Records
    <3> HIDE DEF taken
    <3>2. begun \in [Threads -> Records]
      BY <3>1 DEF Records
    <3> HIDE DEF begun
    <3>3. given \in [Threads -> Records]
      BY <2>3, <3>2 DEF Records
    <3> HIDE DEF given
    <3>4. [given EXCEPT ![t].slot = 1] \in [Threads -> Records]
      BY <2>3, <3>3 DEF Records
    <3>5. thread' = [given EXCEPT ![t].slot = 1]
      BY <2>1 DEF given, begun, taken
    <3> QED BY <3>4, <3>5
  <2>5. \A u \in Threads \ {t} : thread'[u] = thread[u]
    BY <2>1
  <2> QED BY <2>2, <2>4, <2>5 DEF Alone
<1>3. TypeOK' /\ TableInv' /\ LastInv' /\ \A u \in Threads \ {t} : ThreadInv(thread[u])'
  BY <1>1, <1>2, NotRemembered
<1>4. Shared'
  BY <1>1, <1>2 DEF IInv, Shared, Alone
<1>5. ThreadInv(thread[t])'
  <2>1. ~search'[h].remembered
    BY <1>1, Own DEF TypeOK
  <2>2. Forgets(thread[t])'
    BY <1>2, <2>1, ScanBounds DEF Forgets, Absent
  <2> QED BY <1>1, <1>2, <2>2 DEF ThreadInv, Control, InHand, Relies, Remembers, Scans, FindSteps, ForgetSteps, RememberSteps
<1>6. \A u \in Threads : ThreadInv(thread[u])'
  BY <1>3, <1>5
<1> QED BY <1>3, <1>4, <1>6 DEF IInv

LEMMA FindCloseReturnsInv == ASSUME IInv, NEW t \in Threads, FindCloseReturns(t) PROVE IInv'
<1> DEFINE h == thread[t].handle
<1>1. /\ thread[t].at = "close" /\ Return(t) /\ open' = open \ {h} /\ search' = search
      /\ gSearchContextEntries' = gSearchContextEntries /\ gLastSearchHandle' = gLastSearchHandle
      /\ gLastSearchEntry' = gLastSearchEntry
  BY DEF FindCloseReturns, At, Handle, last
<1>2. /\ thread[t].call = "close" /\ Absent(h, Slots) /\ gLastSearchHandle # h /\ TypeOK
  BY <1>1, Own DEF ThreadInv, Control, Forgets
<1>3. Alone(t) /\ thread'[t] = Idle
  BY <1>1, <1>2, ReturnFacts
<1>4. TypeOK'
  BY <1>1, <1>2, <1>3 DEF TypeOK, Alone, Records
<1>5. TableInv'
  BY <1>1, <1>2 DEF IInv, TableInv, Fresh, Absent, IsOf
<1>6. LastInv'
  BY <1>1, <1>2 DEF IInv, LastInv, Fresh
<1>7. ThreadInv(thread[t])' /\ Continues(t)
  BY <1>3, IdleFacts, IdleInv DEF Continues
<1>8. ASSUME NEW u \in Threads \ {t} PROVE ThreadInv(thread[u])'
  <2>1. ThreadInv(thread[u]) /\ thread'[u] = thread[u]
    BY <1>3, Own DEF Alone
  <2>2. thread[u].at # "idle" => thread[u].handle # h
    BY <1>1, <1>2 DEF IInv, Shared
  <2>3. Control(thread[u])'
    BY <1>1, <2>1, <2>2 DEF ThreadInv, Control
  <2> QED BY <1>1, <2>1, <2>3 DEF ThreadInv, InHand, Relies, Forgets, Remembers, Scans, Fresh, Absent
<1> QED BY <1>3, <1>4, <1>5, <1>6, <1>7, <1>8, Assemble

--------------------------------------------------------------------------------
(* The invariant.                                                             *)

LEMMA InitInv == Init => IInv
<1> SUFFICES ASSUME Init PROVE IInv
  OBVIOUS
<1>1. \A t \in Threads : thread[t] = Idle /\ thread[t].at = "idle" /\ thread[t].handle = INVALID_HANDLE_VALUE
  BY IdleFacts DEF Init
<1>2. TypeOK
  BY IdleFacts DEF Init, TypeOK, Records
<1>3. Shared /\ TableInv /\ LastInv
  BY <1>1 DEF Init, Shared, TableInv, LastInv
<1>4. ASSUME NEW t \in Threads PROVE ThreadInv(thread[t])
  BY <1>1 DEF ThreadInv, Control, InHand, Relies, Forgets, Remembers, Scans, FindSteps, ForgetSteps, RememberSteps
<1> QED BY <1>2, <1>3, <1>4 DEF IInv

LEMMA NextInv == IInv /\ [Next]_vars => IInv'
<1> SUFFICES ASSUME IInv, [Next]_vars PROVE IInv'
  OBVIOUS
<1>1. CASE UNCHANGED vars
  <2>1. /\ gSearchContextEntries' = gSearchContextEntries /\ gLastSearchHandle' = gLastSearchHandle
        /\ gLastSearchEntry' = gLastSearchEntry /\ open' = open /\ search' = search /\ thread' = thread
    BY <1>1 DEF vars
  <2>2. TypeOK' /\ Shared' /\ TableInv' /\ LastInv'
    BY <2>1 DEF IInv, TypeOK, Shared, TableInv, LastInv, Fresh, Absent
  <2>3. ASSUME NEW t \in Threads PROVE ThreadInv(thread[t])'
    <3>1. ThreadInv(thread[t])
      BY Own
    <3> QED BY <2>1, <3>1 DEF ThreadInv, Control, InHand, Relies, Forgets, Remembers, Scans, Fresh, Absent
  <2> QED BY <2>2, <2>3 DEF IInv
<1>2. ASSUME NEW t \in Threads, Find(t) PROVE IInv'
  BY <1>2, FindHandleInv, FindLastInv, FindSlotInv, PromoteEntryInv, PromoteHandleInv DEF Find
<1>3. ASSUME NEW t \in Threads, Forget(t) PROVE IInv'
  BY <1>3, ForgetScanInv, ForgetSlotInv, ForgetLastInv, ForgetEntryInv, ForgetHandleInv DEF Forget
<1>4. ASSUME NEW t \in Threads, Remember(t) PROVE IInv'
  BY <1>4, RememberScanInv, RememberSlotInv, RememberEntryInv, RememberHandleInv DEF Remember
<1>5. ASSUME NEW t \in Threads, NEW h \in Handles,
             (\E kind \in Kinds : FindFirstFile(t, h, kind)) \/ FindNextFile(t, h) \/ FindClose(t, h)
      PROVE  IInv'
  BY <1>5, FindFirstFileInv, FindNextFileInv, FindCloseInv
<1>6. ASSUME NEW t \in Threads, FindNextFileReturns(t) \/ FindCloseReturns(t) PROVE IInv'
  BY <1>6, FindNextFileReturnsInv, FindCloseReturnsInv
<1> QED BY <1>1, <1>2, <1>3, <1>4, <1>5, <1>6 DEF Next

LEMMA Inductive == Spec => []IInv
BY InitInv, NextInv, PTL DEF Spec

--------------------------------------------------------------------------------
(* Theorems.                                                                  *)

\* The table, the cache of the last search and the calls of the threads keep their types.
THEOREM TypeCorrect == Spec => []TypeOK
<1>1. IInv => TypeOK
  BY DEF IInv
<1> QED BY <1>1, Inductive, PTL

\* However the threads' searches interleave on the table and on the two words of its cache,
\* and however handles are reused, FindNextFileHook goes on with a context of its own search.
THEOREM ContextCurrentCorrect == Spec => []ContextCurrent
<1>1. IInv => ContextCurrent
  BY DEF IInv, ContextCurrent, ThreadInv, InHand, Fresh, At, Handle
<1> QED BY <1>1, Inductive, PTL

\* A search that FindFirstFileHook has turned into a W enumeration with its context in the
\* table is answered as one by every FindNextFileHook until it is forgotten.
THEOREM WideGoesOnCorrect == Spec => []WideGoesOn
<1>1. IInv => WideGoesOn
  <2> SUFFICES ASSUME IInv, NEW t \in Threads, At(t, "next"), search[Handle(t)].remembered
               PROVE  thread[t].entry # NoEntry /\ thread[t].entry.wideEnumeration
    BY DEF WideGoesOn
  <2> QED BY Own DEF ThreadInv, Scans, InHand, Fresh, At, Handle
<1> QED BY <1>1, Inductive, PTL

\* FindCloseHook leaves nothing of its search in the table, so the slots are not used up.
THEOREM ClosedNotKeptCorrect == Spec => []ClosedNotKept
<1>1. IInv => ClosedNotKept
  BY DEF IInv, ClosedNotKept, TableInv
<1> QED BY <1>1, Inductive, PTL
================================================================================
