----------------------------- MODULE SearchContext -----------------------------
(***************************************************************************)
(* The side table of dllmain.cpp that remembers, for a directory search    *)
(* handle, how its FindNextFile calls must be answered.  It is a fixed     *)
(* array of atomic shared_ptrs with a two-word cache of the last search,   *)
(* used without a lock by every thread of Leeyes.                          *)
(*                                                                         *)
(* Each access to one of the atomics is a step.  Windows reuses the value  *)
(* of a closed handle.  A handle is used as Windows allows: FindNextFile   *)
(* by any threads at once, FindClose by one when nobody else uses it.      *)
(***************************************************************************)
EXTENDS Naturals, FiniteSetsExt

CONSTANTS
  Threads,
  Handles, INVALID_HANDLE_VALUE,
  TableSize,      \* 128
  MaxSearches,    \* bound: searches in all
  NoEntry         \* the null shared_ptr

ASSUME SearchAssumption ==
  /\ INVALID_HANDLE_VALUE \notin Handles
  /\ TableSize \in Nat \ {0} /\ MaxSearches \in Nat
  /\ NoEntry \notin [handle : Handles, search : Nat, wideEnumeration : BOOLEAN]

VARIABLES
  gSearchContextEntries, gLastSearchHandle, gLastSearchEntry,
  open,    \* the handles Windows has given out
  search,  \* history, of each handle: the number of its last search, and whether it is
           \* a W enumeration whose context is in the table
  thread   \* each thread: its call and where it is in it

vars == <<gSearchContextEntries, gLastSearchHandle, gLastSearchEntry, open, search, thread>>

last == <<gLastSearchHandle, gLastSearchEntry>>

Slots   == 1 .. TableSize
Entries == [handle : Handles, search : Nat, wideEnumeration : BOOLEAN]

\* How FindFirstFileA turns out: an ANSI search that needs no context, an ANSI search with
\* names to repair, a W search after a name collision, a W search of a path with '?'.
Kinds == {"plain", "repair", "collision", "unicode"}

Steps == {"idle", "find", "findLast", "findSlot", "promoteEntry", "promoteHandle",
          "forget", "forgetSlot", "forgetLast", "forgetEntry", "forgetHandle",
          "remember", "rememberSlot", "rememberEntry", "rememberHandle",
          "next", "close"}

Idle == [at |-> "idle", call |-> "none", kind |-> "plain", handle |-> INVALID_HANDLE_VALUE,
         wide |-> FALSE, slot |-> 1, entry |-> NoEntry]

TypeOK ==
  /\ gSearchContextEntries \in [Slots -> Entries \union {NoEntry}]
  /\ gLastSearchHandle \in Handles \union {INVALID_HANDLE_VALUE}
  /\ gLastSearchEntry \in Entries \union {NoEntry}
  /\ open \subseteq Handles
  /\ search \in [Handles -> [number : Nat, remembered : BOOLEAN]]
  /\ thread \in [Threads -> [at : Steps, call : {"none", "first", "next", "close"},
                             kind : Kinds, handle : Handles \union {INVALID_HANDLE_VALUE}, wide : BOOLEAN,
                             slot : 1 .. TableSize + 1, entry : Entries \union {NoEntry}]]

Init ==
  /\ gSearchContextEntries = [s \in Slots |-> NoEntry]
  /\ gLastSearchHandle = INVALID_HANDLE_VALUE /\ gLastSearchEntry = NoEntry
  /\ open = {}
  /\ search = [h \in Handles |-> [number |-> 0, remembered |-> FALSE]]
  /\ thread = [t \in Threads |-> Idle]

At(t, step) == thread[t].at = step
Handle(t) == thread[t].handle
Slot(t) == gSearchContextEntries[thread[t].slot]
IsOf(entry, h) == entry # NoEntry /\ entry.handle = h
NewEntry(t) == [handle |-> Handle(t), search |-> search[Handle(t)].number,
                wideEnumeration |-> thread[t].wide]

Go(t, step) == thread' = [thread EXCEPT ![t].at = step]

\* The loop over the slots goes on with the next one, or has seen them all.
NextSlot(t) == thread' = [thread EXCEPT ![t].slot = @ + 1]
Scanned(t) == thread[t].slot > TableSize

Return(t) == thread' = [thread EXCEPT ![t] = Idle]

--------------------------------------------------------------------------------
(* FindSearchContext.                                                         *)

\* What the callers do with the result.
AfterFind(t, entry) ==
  CASE thread[t].call = "next" -> thread' = [thread EXCEPT ![t].at = "next", ![t].slot = 1, ![t].entry = entry]
    [] thread[t].call = "first" /\ entry # NoEntry -> Return(t)
    [] thread[t].call = "first" /\ entry = NoEntry ->
         thread' = [thread EXCEPT ![t].at = "remember", ![t].slot = 1, ![t].wide = FALSE]

FindHandle(t) ==
  /\ At(t, "find")
  /\ thread' = [thread EXCEPT ![t].slot = 1,
                  ![t].at = IF gLastSearchHandle = Handle(t) THEN "findLast" ELSE "findSlot"]
  /\ UNCHANGED <<gSearchContextEntries, last, open, search>>

\* The entry is used without comparing its own handle.
MFindLast(t) ==
  /\ At(t, "findLast")
  /\ IF gLastSearchEntry # NoEntry
       THEN AfterFind(t, gLastSearchEntry) ELSE Go(t, "findSlot")
  /\ UNCHANGED <<gSearchContextEntries, last, open, search>>

FindLast(t) ==
  /\ At(t, "findLast")
  /\ IF IsOf(gLastSearchEntry, Handle(t))
       THEN AfterFind(t, gLastSearchEntry) ELSE Go(t, "findSlot")
  /\ UNCHANGED <<gSearchContextEntries, last, open, search>>

FindSlot(t) ==
  /\ At(t, "findSlot")
  /\ IF Scanned(t) THEN AfterFind(t, NoEntry)
     ELSE IF IsOf(Slot(t), Handle(t))
       THEN thread' = [thread EXCEPT ![t].at = "promoteEntry", ![t].entry = Slot(t)]
       ELSE NextSlot(t)
  /\ UNCHANGED <<gSearchContextEntries, last, open, search>>

PromoteEntry(t) ==
  /\ At(t, "promoteEntry") /\ Go(t, "promoteHandle")
  /\ gLastSearchEntry' = thread[t].entry
  /\ UNCHANGED <<gSearchContextEntries, gLastSearchHandle, open, search>>

PromoteHandle(t) ==
  /\ At(t, "promoteHandle") /\ AfterFind(t, thread[t].entry)
  /\ gLastSearchHandle' = Handle(t)
  /\ UNCHANGED <<gSearchContextEntries, gLastSearchEntry, open, search>>

Find(t) ==
  FindHandle(t) \/ FindLast(t) \/ FindSlot(t) \/ PromoteEntry(t) \/ PromoteHandle(t)

--------------------------------------------------------------------------------
(* ForgetSearchContext.                                                       *)

AfterForget(t) ==
  CASE thread[t].call = "close" -> Go(t, "close")
    [] thread[t].call = "first" /\ thread[t].kind = "repair" -> Go(t, "find")
    [] OTHER -> Return(t)

ForgetScan(t) ==
  /\ At(t, "forget")
  /\ IF Scanned(t) THEN Go(t, "forgetLast")
     ELSE IF IsOf(Slot(t), Handle(t))
       THEN thread' = [thread EXCEPT ![t].at = "forgetSlot", ![t].entry = Slot(t)]
       ELSE NextSlot(t)
  /\ UNCHANGED <<gSearchContextEntries, last, open, search>>

\* The compare-exchange that empties the slot.
ForgetSlot(t) ==
  /\ At(t, "forgetSlot")
  /\ thread' = [thread EXCEPT ![t].at = "forget", ![t].slot = @ + 1]
  /\ gSearchContextEntries' =
       [gSearchContextEntries EXCEPT ![thread[t].slot] = IF @ = thread[t].entry THEN NoEntry ELSE @]
  /\ UNCHANGED <<last, open, search>>

ForgetLast(t) ==
  /\ At(t, "forgetLast")
  /\ IF gLastSearchHandle = Handle(t) THEN Go(t, "forgetEntry") ELSE AfterForget(t)
  /\ UNCHANGED <<gSearchContextEntries, last, open, search>>

ForgetEntry(t) ==
  /\ At(t, "forgetEntry") /\ Go(t, "forgetHandle")
  /\ gLastSearchEntry' = NoEntry
  /\ UNCHANGED <<gSearchContextEntries, gLastSearchHandle, open, search>>

\* A null pointer instead of INVALID_HANDLE_VALUE.
MForgetHandle(t) ==
  /\ At(t, "forgetHandle") /\ AfterForget(t)
  /\ gLastSearchHandle' = NoEntry
  /\ UNCHANGED <<gSearchContextEntries, gLastSearchEntry, open, search>>

ForgetHandle(t) ==
  /\ At(t, "forgetHandle") /\ AfterForget(t)
  /\ gLastSearchHandle' = INVALID_HANDLE_VALUE
  /\ UNCHANGED <<gSearchContextEntries, gLastSearchEntry, open, search>>

Forget(t) ==
  ForgetScan(t) \/ ForgetSlot(t) \/ ForgetLast(t) \/ ForgetEntry(t) \/ ForgetHandle(t)

--------------------------------------------------------------------------------
(* RememberSearchContext.                                                     *)

\* After the W search of a path with '?', the same call asks the table again.
AfterRemember(t) ==
  IF thread[t].kind = "unicode" /\ thread[t].wide THEN Go(t, "find") ELSE Return(t)

RememberScan(t) ==
  /\ At(t, "remember")
  /\ IF Scanned(t) THEN AfterRemember(t)
     ELSE Go(t, "rememberSlot")
  /\ UNCHANGED <<gSearchContextEntries, last, open, search>>

\* The entry is in the table.
Store(t) ==
  /\ gSearchContextEntries' = [gSearchContextEntries EXCEPT ![thread[t].slot] = NewEntry(t)]
  /\ search' = [search EXCEPT ![Handle(t)].remembered = thread[t].wide]
  /\ Go(t, "rememberEntry")

\* The slot is taken with a plain store.
MRememberSlot(t) ==
  /\ At(t, "rememberSlot") /\ Store(t)
  /\ UNCHANGED <<last, open>>

\* The store over an entry of the same handle, which no other thread can then touch, or
\* the compare-exchange of an empty slot.
RememberSlot(t) ==
  /\ At(t, "rememberSlot")
  /\ IF Slot(t) = NoEntry \/ IsOf(Slot(t), Handle(t))
       THEN Store(t)
       ELSE /\ thread' = [thread EXCEPT ![t].at = "remember", ![t].slot = @ + 1]
            /\ UNCHANGED <<gSearchContextEntries, search>>
  /\ UNCHANGED <<last, open>>

RememberEntry(t) ==
  /\ At(t, "rememberEntry") /\ Go(t, "rememberHandle")
  /\ gLastSearchEntry' = NewEntry(t)
  /\ UNCHANGED <<gSearchContextEntries, gLastSearchHandle, open, search>>

RememberHandle(t) ==
  /\ At(t, "rememberHandle") /\ AfterRemember(t)
  /\ gLastSearchHandle' = Handle(t)
  /\ UNCHANGED <<gSearchContextEntries, gLastSearchEntry, open, search>>

Remember(t) ==
  RememberScan(t) \/ RememberSlot(t) \/ RememberEntry(t) \/ RememberHandle(t)

--------------------------------------------------------------------------------
(* The hooked functions.                                                      *)

Searches == MapThenSumSet(LAMBDA h : search[h].number, Handles)
Users(h) == { t \in Threads : thread[t].at # "idle" /\ thread[t].handle = h }

\* FindFirstFileHook, once the search it makes has been given handle h.
FindFirstFile(t, h, kind) ==
  /\ At(t, "idle") /\ h \notin open /\ Searches < MaxSearches
  /\ open' = open \union {h}
  /\ search' = [search EXCEPT ![h] = [number |-> @.number + 1, remembered |-> FALSE]]
  /\ thread' = [thread EXCEPT ![t] =
       [at |-> IF kind \in {"plain", "repair"} THEN "forget" ELSE "remember",
        call |-> "first", kind |-> kind, handle |-> h, wide |-> kind \in {"collision", "unicode"},
        slot |-> 1, entry |-> NoEntry]]
  /\ UNCHANGED <<gSearchContextEntries, last>>

FindNextFile(t, h) ==
  /\ At(t, "idle") /\ h \in open
  /\ \A u \in Users(h) : thread[u].call = "next"
  /\ thread' = [thread EXCEPT ![t].at = "find", ![t].call = "next", ![t].handle = h]
  /\ UNCHANGED <<gSearchContextEntries, last, open, search>>

\* The search gives one more name, or ends.
FindNextFileReturns(t) ==
  /\ At(t, "next")
  /\ \/ Return(t) /\ UNCHANGED search
     \/ /\ thread[t].entry # NoEntry
        /\ thread' = [thread EXCEPT ![t].at = "forget", ![t].slot = 1]
        /\ search' = [search EXCEPT ![Handle(t)].remembered = FALSE]
  /\ UNCHANGED <<gSearchContextEntries, last, open>>

\* The context is left to the next search of the handle.
MFindCloseOnly(t, h) ==
  /\ At(t, "idle") /\ h \in open /\ Users(h) = {}
  /\ thread' = [thread EXCEPT ![t].at = "close", ![t].call = "close", ![t].handle = h]
  /\ search' = [search EXCEPT ![h].remembered = FALSE]
  /\ UNCHANGED <<gSearchContextEntries, last, open>>

FindClose(t, h) ==
  /\ At(t, "idle") /\ h \in open /\ Users(h) = {}
  /\ thread' = [thread EXCEPT ![t].at = "forget", ![t].call = "close", ![t].handle = h, ![t].slot = 1]
  /\ search' = [search EXCEPT ![h].remembered = FALSE]
  /\ UNCHANGED <<gSearchContextEntries, last, open>>

FindCloseReturns(t) ==
  /\ At(t, "close") /\ Return(t)
  /\ open' = open \ {Handle(t)}
  /\ UNCHANGED <<gSearchContextEntries, last, search>>

Next ==
  \E t \in Threads :
    \/ Find(t) \/ Forget(t) \/ Remember(t)
    \/ FindNextFileReturns(t) \/ FindCloseReturns(t)
    \/ \E h \in Handles :
         \/ \E kind \in Kinds : FindFirstFile(t, h, kind)
         \/ FindNextFile(t, h) \/ FindClose(t, h)

Spec == Init /\ [][Next]_vars

--------------------------------------------------------------------------------
(* Properties.                                                                *)

\* FindNextFile is answered with a context of the search that is running on the handle,
\* never with that of another handle or of an earlier search that had the same handle.
ContextCurrent ==
  \A t \in Threads : At(t, "next") /\ thread[t].entry # NoEntry =>
    thread[t].entry.handle = Handle(t) /\ thread[t].entry.search = search[Handle(t)].number

\* A W enumeration whose context found a place in the table goes on as one, whatever the
\* other threads do to the table and to the cache of the last search.
WideGoesOn ==
  \A t \in Threads : At(t, "next") /\ search[Handle(t)].remembered =>
    thread[t].entry # NoEntry /\ thread[t].entry.wideEnumeration

\* The table is not used up by searches that are over.
ClosedNotKept ==
  \A s \in Slots : gSearchContextEntries[s] # NoEntry => gSearchContextEntries[s].handle \in open
================================================================================
