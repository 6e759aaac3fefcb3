----------------------------- MODULE FileMoveBatch -----------------------------
(***************************************************************************)
(* leeyes_internal/file_move_batch.cpp and its two hooks in                *)
(* delphi_bridge_x86.cpp: while Leeyes drains a long queue of file change  *)
(* notifications, the notifications of single items are deferred and each  *)
(* list concerned is resynchronised once, after the drain.                 *)
(*                                                                         *)
(* The state is thread-local, so this is one thread.  Leeyes itself is the *)
(* environment: it may drain a queue of any length, dispatch any change of *)
(* any list, and do both again while a drain, a dispatch or a full         *)
(* resynchronisation is still running.                                     *)
(***************************************************************************)
EXTENDS Integers, Sequences

CONSTANTS
  Lists, NullList,     \* the TAcvListViews, and the null pointer
  kMaximumDirtyLists,
  threshold,           \* FileMoveBatchThreshold of the ini file
  Counts,              \* what ReadQueuedChangeCount may return, -1 when it fails
  RawActions,          \* the action words given to the dispatcher
  MaxDepth,            \* bound: drains inside drains, counted by depth
  MaxFrames            \* bound: resynchronisations inside resynchronisations

ASSUME BatchAssumption ==
  /\ NullList \notin Lists
  /\ kMaximumDirtyLists \in Nat \ {0} /\ threshold \in Nat
  /\ Counts \subseteq Int /\ RawActions \subseteq Nat
  /\ MaxDepth \in Nat /\ MaxFrames \in Nat \ {0}

VARIABLES
  gDrainState, \* the thread-local DrainState
  stack,       \* the End calls in progress above the message loop; see Frame
  owedLists,   \* history: lists with a deferred change and no resynchronisation since
  direct,      \* history: lists whose changes Leeyes handled itself in this drain
  raised       \* history: whether a Delphi exception has left a hooked call

batchVars == <<gDrainState, stack, owedLists, direct, raised>>

gBatchThreshold == IF threshold < 2 THEN 2 ELSE IF threshold > 100000 THEN 100000 ELSE threshold

IsFileChange(raw) == raw % 256 <= 5

DrainState == [depth |-> 0, suppress |-> FALSE, needsResync |-> FALSE,
               queuedChanges |-> 0, dirtyLists |-> <<>>]

\* One call of End: the lists it still has to resynchronise, the first of them at this
\* moment, and the drains that are running inside that resynchronisation.  The bottom
\* frame is the message loop.
Frame == [todo : Seq(Lists), drains : Nat]
MessageLoop == [todo |-> <<>>, drains |-> 0]

Elems(seq) == { seq[i] : i \in 1 .. Len(seq) }
Distinct(seq) == \A i, j \in 1 .. Len(seq) : seq[i] = seq[j] => i = j
Top == Len(stack)
Due(frame) == { frame.todo[i] : i \in 2 .. Len(frame.todo) }

BatchTypeOK ==
  /\ gDrainState \in [depth : Nat, suppress : BOOLEAN, needsResync : BOOLEAN,
                      queuedChanges : Nat, dirtyLists : Seq(Lists)]
  /\ Len(gDrainState.dirtyLists) <= kMaximumDirtyLists
  /\ stack \in Seq(Frame) /\ stack # <<>>
  /\ owedLists \subseteq Lists /\ direct \subseteq Lists /\ raised \in BOOLEAN

BatchInit ==
  /\ gDrainState = DrainState
  /\ stack = <<MessageLoop>>
  /\ owedLists = {} /\ direct = {} /\ raised = FALSE

--------------------------------------------------------------------------------
\* A nested drain decides again for itself.
MBeginNested ==
  /\ gDrainState.depth # 0
  /\ \E count \in Counts :
       gDrainState' = [gDrainState EXCEPT !.depth = @ + 1, !.suppress = count >= gBatchThreshold]
  /\ UNCHANGED direct

\* LeeyesInternalBeginChangeQueueDrain, then the original drain runs.  A nested drain
\* keeps the decision of the outermost one.
BeginNested ==
  /\ gDrainState.depth # 0
  /\ gDrainState' = [gDrainState EXCEPT !.depth = @ + 1]
  /\ UNCHANGED direct

BeginOutermost ==
  /\ gDrainState.depth = 0
  /\ \E count \in Counts :
       gDrainState' = [DrainState EXCEPT !.depth = 1,
                         !.queuedChanges = IF count <= 0 THEN 0 ELSE count,
                         !.suppress = count > 0 /\ count >= gBatchThreshold]
  /\ direct' = {}

Begin ==
  /\ gDrainState.depth < MaxDepth
  /\ stack' = [stack EXCEPT ![Top].drains = @ + 1]
  /\ BeginNested \/ BeginOutermost
  /\ UNCHANGED <<owedLists, raised>>

\* A full table refuses the lists it already holds.
MCanRememberFull(listView) ==
  /\ listView # NullList
  /\ Len(gDrainState.dirtyLists) < kMaximumDirtyLists

\* The bound tested with <= instead of <.
MCanRememberOffByOne(listView) ==
  /\ listView # NullList
  /\ listView \in Elems(gDrainState.dirtyLists) \/ Len(gDrainState.dirtyLists) <= kMaximumDirtyLists

\* RememberDirtyList: whether the list is in the table once it has returned.
CanRemember(listView) ==
  /\ listView # NullList
  /\ listView \in Elems(gDrainState.dirtyLists) \/ Len(gDrainState.dirtyLists) < kMaximumDirtyLists

\* The table is not searched.
MRemembered(listView) ==
  IF Len(gDrainState.dirtyLists) < kMaximumDirtyLists
    THEN Append(gDrainState.dirtyLists, listView) ELSE gDrainState.dirtyLists

Remembered(listView) ==
  IF listView \in Elems(gDrainState.dirtyLists)
    THEN gDrainState.dirtyLists ELSE Append(gDrainState.dirtyLists, listView)

\* LeeyesInternalShouldDeferFileChange returns TRUE and the original dispatcher is skipped.
Defer(listView, raw) ==
  /\ gDrainState.suppress /\ IsFileChange(raw) /\ CanRemember(listView)
  /\ gDrainState' = [gDrainState EXCEPT !.needsResync = TRUE, !.dirtyLists = Remembered(listView)]
  /\ owedLists' = owedLists \union {listView}
  /\ UNCHANGED <<stack, direct, raised>>

\* It returns FALSE and the original dispatcher runs.
PassThrough(listView, raw) ==
  /\ ~(gDrainState.suppress /\ IsFileChange(raw) /\ CanRemember(listView))
  /\ direct' = IF IsFileChange(raw) /\ listView # NullList THEN direct \union {listView} ELSE direct
  /\ UNCHANGED <<gDrainState, stack, owedLists, raised>>

Dispatch == \E listView \in Lists \union {NullList}, raw \in RawActions :
  Defer(listView, raw) \/ PassThrough(listView, raw)

--------------------------------------------------------------------------------
\* LeeyesInternalEndChangeQueueDrain, once the original drain has returned.
EndNested ==
  /\ gDrainState.depth # 1
  /\ gDrainState' = [gDrainState EXCEPT !.depth = IF @ = 0 THEN 0 ELSE @ - 1]
  /\ stack' = [stack EXCEPT ![Top].drains = @ - 1]
  /\ UNCHANGED <<owedLists, direct>>

\* The state is not cleared before the lists are resynchronised.
MEndOutermostKeep ==
  /\ gDrainState.depth = 1
  /\ LET returned == [stack EXCEPT ![Top].drains = @ - 1]
         lists == gDrainState.dirtyLists
     IN IF gDrainState.suppress /\ gDrainState.needsResync
          THEN /\ Top < MaxFrames
               /\ stack' = Append(returned, [todo |-> lists, drains |-> 0])
               /\ owedLists' = owedLists \ {lists[1]}
          ELSE stack' = returned /\ UNCHANGED owedLists
  /\ gDrainState' = [gDrainState EXCEPT !.depth = 0]
  /\ direct' = {}

\* Only the first list is resynchronised.
MEndOutermostFirst ==
  /\ gDrainState.depth = 1
  /\ LET returned == [stack EXCEPT ![Top].drains = @ - 1]
         lists == gDrainState.dirtyLists
     IN IF gDrainState.suppress /\ gDrainState.needsResync
          THEN /\ Top < MaxFrames
               /\ stack' = Append(returned, [todo |-> <<lists[1]>>, drains |-> 0])
               /\ owedLists' = owedLists \ {lists[1]}
          ELSE stack' = returned /\ UNCHANGED owedLists
  /\ gDrainState' = DrainState /\ direct' = {}

EndOutermost ==
  /\ gDrainState.depth = 1
  /\ LET returned == [stack EXCEPT ![Top].drains = @ - 1]
         lists == gDrainState.dirtyLists
     IN IF gDrainState.suppress /\ gDrainState.needsResync
          THEN /\ Top < MaxFrames
               /\ stack' = Append(returned, [todo |-> lists, drains |-> 0])
               /\ owedLists' = owedLists \ {lists[1]}
          ELSE stack' = returned /\ UNCHANGED owedLists
  /\ gDrainState' = DrainState /\ direct' = {}

End ==
  /\ stack[Top].drains > 0
  /\ EndNested \/ EndOutermost
  /\ UNCHANGED raised

\* A full resynchronisation returns; End starts the next one, or returns itself.
ResyncReturn ==
  /\ Top > 1 /\ stack[Top].drains = 0
  /\ LET rest == Tail(stack[Top].todo)
     IN IF rest = <<>>
          THEN stack' = SubSeq(stack, 1, Top - 1) /\ UNCHANGED owedLists
          ELSE stack' = [stack EXCEPT ![Top].todo = rest] /\ owedLists' = owedLists \ {rest[1]}
  /\ UNCHANGED <<gDrainState, direct, raised>>

\* A Delphi exception unwinds some of the calls: the hook has no handler, so no End runs
\* for the drains it passes, and a resynchronisation it passes is not finished.
Raise ==
  /\ raised' = TRUE
  /\ \E frames \in 1 .. Top : \E drains \in 0 .. stack[frames].drains :
       /\ frames = Top => drains < stack[Top].drains
       /\ stack' = [SubSeq(stack, 1, frames) EXCEPT ![frames].drains = drains]
       /\ owedLists' = owedLists \union { stack[i].todo[1] : i \in frames + 1 .. Top }
  /\ UNCHANGED <<gDrainState, direct>>

BatchNext == Begin \/ Dispatch \/ End \/ ResyncReturn \/ Raise

BatchSpec == BatchInit /\ [][BatchNext]_batchVars

--------------------------------------------------------------------------------
(* Properties.                                                                *)

Idle == Top = 1 /\ stack[1].drains = 0

\* ReadMe.md:108-109, no notification is discarded, whatever leaves the drain.
NothingDiscarded == Idle => owedLists = {}

Covered ==
  \A listView \in owedLists :
    listView \in Elems(gDrainState.dirtyLists) \/ \E i \in 1 .. Top : listView \in Due(stack[i])

\* No notification is discarded: as long as Leeyes' code returns normally, once it is back
\* in its message loop every list whose changes were deferred has been resynchronised after
\* the last of them.
NothingLost == ~raised => NothingDiscarded

\* However drains nest, and while lists wait for their turn, a deferred change is covered
\* by a list still in the table or by a resynchronisation that has not begun.
DebtCovered == ~raised => Covered

\* The resynchronisation runs on the normal path: nothing it dispatches is deferred.
ResyncUnsuppressed == ~raised /\ stack[Top].drains = 0 => ~gDrainState.suppress

\* Within a drain a list is either left to Leeyes or resynchronised, never both, so that
\* no item is updated out of order with those that were deferred; and each list is
\* resynchronised once for a drain, however full the table and however drains nest.
OneTreatment ==
  /\ direct \intersect Elems(gDrainState.dirtyLists) = {}
  /\ \A i \in 1 .. Top : Distinct(stack[i].todo)
================================================================================
