----------------------------- MODULE InternalHooks -----------------------------
(***************************************************************************)
(* leeyes_internal/hook_runtime.cpp and what it calls: the installation of *)
(* the hooks on Leeyes' own Delphi methods.  The bootstrap of the injector *)
(* runs it once on the primary thread, before the entry point of Leeyes,   *)
(* so no hooked method is called meanwhile; what is hard is that any step  *)
(* may fail and that the two features, batching and tracing, must then be  *)
(* left whole or absent.                                                   *)
(***************************************************************************)
EXTENDS CodeHook

TraceTargets  == {"refresh", "changing", "change"}
LayoutTargets == {"layoutRefresh", "layoutUpdate"}
BatchTargets  == {"fileChangeDispatch", "changeQueueDrain", "fullResync"}
Targets       == TraceTargets \union LayoutTargets \union BatchTargets

BatchHooks == {"fileChangeDispatch", "changeQueueDrain"}   \* fullResync is only called
TraceHooks == TraceTargets \union LayoutTargets

\* A method of Leeyes, and the naked function that replaces it.  The pointer to the
\* original, gLeeyesInternalOriginal*, is the client of CodeHook with the method's name.
Method(target) == <<"method", target>>
HookOf(target) == <<"hook", target>>

CONSTANT Images   \* the anchors that are found once in a Leeyes.exe, and whether its change calls refresh

ASSUME InternalAssumption ==
  /\ Images \subseteq [anchors : SUBSET Targets, changeCallsRefresh : BOOLEAN]
  /\ BatchHooks \union TraceHooks \subseteq Clients
  /\ \A target \in BatchHooks \union TraceHooks : Method(target) \in Refusals /\ HookOf(target) \in Hooks

VARIABLES
  setting,   \* [InternalHook] of the ini file: Trace, FileMoveBatch, LayoutTrace
  image,
  gInitializationState,
  at,        \* the next step of InitializeLeeyesInternalHooks
  targets,   \* ResolvedTargets: those that are not null
  gLeeyesInternalFullResync,   \* not null
  batchInstalled,
  worker     \* the flush thread of the trace buffer runs

internalVars == <<setting, image, gInitializationState, at, targets, gLeeyesInternalFullResync, batchInstalled, worker>>

given == <<setting, image>>

Steps == {"start", "resolve", "dispatch", "drain", "afterBatch", "refresh", "changing", "change",
          "layoutRefresh", "layoutUpdate", "startTrace", "done"}

InternalTypeOK ==
  /\ setting \in [trace : BOOLEAN, batch : BOOLEAN, layout : BOOLEAN] /\ image \in Images
  /\ at \in Steps /\ gInitializationState \in (CASE at = "start" -> {0} [] at = "done" -> 2 .. 7 [] OTHER -> {1})
  /\ targets \subseteq Targets
  /\ gLeeyesInternalFullResync \in BOOLEAN /\ batchInstalled \in BOOLEAN /\ worker \in BOOLEAN

InternalInit ==
  /\ setting \in [trace : BOOLEAN, batch : BOOLEAN, layout : BOOLEAN] /\ image \in Images
  /\ gInitializationState = 0 /\ at = "start" /\ targets = {}
  /\ gLeeyesInternalFullResync = FALSE /\ batchInstalled = FALSE /\ worker = FALSE

Finish(state) == at' = "done" /\ gInitializationState' = state

Go(step) == at' = step /\ UNCHANGED gInitializationState

\* The exchange of gInitializationState from 0; another call finds it changed and returns.
Initialize ==
  /\ at = "start" /\ gInitializationState = 0
  /\ IF setting.trace \/ setting.batch
       THEN at' = "resolve" /\ gInitializationState' = 1
       ELSE Finish(2)
  /\ UNCHANGED <<given, codeVars, targets, gLeeyesInternalFullResync, batchInstalled, worker>>

--------------------------------------------------------------------------------
(* ResolveTargets.                                                            *)

Required == (IF setting.trace THEN TraceTargets ELSE {}) \union (IF setting.batch THEN BatchTargets ELSE {})

Resolvable == Required \subseteq image.anchors /\ (setting.trace => image.changeCallsRefresh)

ResolveTargets ==
  /\ at = "resolve"
  /\ IF Resolvable
       THEN /\ targets' = image.anchors
            /\ Go(IF setting.batch THEN "dispatch" ELSE "afterBatch")
       ELSE Finish(3) /\ UNCHANGED targets
  /\ UNCHANGED <<given, codeVars, gLeeyesInternalFullResync, batchInstalled, worker>>

--------------------------------------------------------------------------------
(* InstallFileMoveBatchHooks.                                                 *)

Create(target) == CreateHook(target, Method(target), HookOf(target))
Refuse(target) == RefuseHook(target, Method(target))

\* The hooks whose pointer is not null are removed, then the pointers are cleared.
RemoveHooks(which) == RemoveHook({ HookOf(t) : t \in { w \in which : pointer[w] # Null } }, which)

\* InstallFileMoveBatchHooks returns FALSE.  RemoveFileMoveBatchHooks then finds nothing left.
BatchFails ==
  /\ RemoveHooks(BatchHooks) /\ gLeeyesInternalFullResync' = FALSE
  /\ IF setting.trace THEN Go("afterBatch") ELSE Finish(4)

HookDispatch ==
  /\ at = "dispatch"
  /\ \/ Create("fileChangeDispatch") /\ gLeeyesInternalFullResync' = TRUE /\ Go("drain")
     \/ BatchFails
  /\ UNCHANGED <<given, targets, batchInstalled, worker>>

\* A drain that cannot be hooked leaves the dispatcher hooked.
MHookDrain ==
  /\ at = "drain"
  /\ \/ Create("changeQueueDrain") /\ batchInstalled' = TRUE /\ Go("afterBatch")
     \/ Refuse("changeQueueDrain") /\ Go("afterBatch") /\ UNCHANGED batchInstalled
  /\ UNCHANGED <<given, targets, gLeeyesInternalFullResync, worker>>

HookDrain ==
  /\ at = "drain"
  /\ \/ /\ Create("changeQueueDrain") /\ batchInstalled' = TRUE /\ Go("afterBatch")
        /\ UNCHANGED gLeeyesInternalFullResync
     \/ BatchFails /\ UNCHANGED batchInstalled
  /\ UNCHANGED <<given, targets, worker>>

AfterBatch ==
  /\ at = "afterBatch"
  /\ IF setting.trace
       THEN Go("refresh") /\ targets' = IF setting.layout THEN targets ELSE targets \ LayoutTargets
       ELSE Finish(IF batchInstalled THEN 7 ELSE 4) /\ UNCHANGED targets
  /\ UNCHANGED <<given, codeVars, gLeeyesInternalFullResync, batchInstalled, worker>>

--------------------------------------------------------------------------------
(* InstallPassThroughHooks and TraceBuffer::Start.                            *)

\* Every failure ends with RemovePassThroughHooks.
TraceFails(state) == RemoveHooks(TraceHooks) /\ Finish(IF batchInstalled THEN 7 ELSE state)

HookRequired(target, then) ==
  /\ at = target
  /\ \/ Create(target) /\ Go(then)
     \/ TraceFails(4)
  /\ UNCHANGED <<given, targets, gLeeyesInternalFullResync, batchInstalled, worker>>

\* An anchor that was not found is passed over, and so is a hook that cannot be created.
HookOptional(target, then) ==
  /\ at = target /\ Go(then)
  /\ IF target \in targets THEN Create(target) \/ Refuse(target) ELSE UNCHANGED codeVars
  /\ UNCHANGED <<given, targets, gLeeyesInternalFullResync, batchInstalled, worker>>

InstallPassThroughHooks ==
  \/ HookRequired("refresh", "changing") \/ HookRequired("changing", "change")
  \/ HookRequired("change", "layoutRefresh")
  \/ HookOptional("layoutRefresh", "layoutUpdate") \/ HookOptional("layoutUpdate", "startTrace")

StartTrace ==
  /\ at = "startTrace"
  /\ \/ Finish(6) /\ worker' = TRUE /\ UNCHANGED codeVars
     \/ TraceFails(5) /\ UNCHANGED worker
  /\ UNCHANGED <<given, targets, gLeeyesInternalFullResync, batchInstalled>>

InternalNext ==
  \/ Initialize \/ ResolveTargets \/ HookDispatch \/ HookDrain \/ AfterBatch
  \/ InstallPassThroughHooks \/ StartTrace

--------------------------------------------------------------------------------
(* Properties.                                                                *)

Done == at = "done"

\* The methods that jump to a hook, those that removeHook failed on left aside: their
\* pointer is null all the same.
hooked == { t \in BatchHooks \union TraceHooks : code[Method(t)] # Null /\ Method(t) \notin unremoved }

\* A method of Leeyes that jumps to its naked hook is one whose pointer leads back to it; the
\* pointer is null where removeHook has failed on the method, and nowhere else.
MethodsReach ==
  \A t \in BatchHooks \union TraceHooks : code[Method(t)] # Null =>
    Reaches(t, Method(t)) \/ (Method(t) \in unremoved /\ pointer[t] = Null)

\* Each feature is left whole or absent whatever fails on the way, also in the other one, and
\* the state says which.  Batching: notifications are never deferred without the drain hook
\* that resynchronises the lists and the method that does it.  Tracing: a failure after some
\* hooks removes all of them, hooks stay only with the worker that empties their buffer.
FeaturesWhole ==
  Done =>
    /\ IF batchInstalled THEN BatchHooks \subseteq hooked /\ gLeeyesInternalFullResync
                         ELSE BatchHooks \intersect hooked = {}
    /\ IF worker THEN TraceTargets \subseteq hooked ELSE TraceHooks \intersect hooked = {}
    /\ gInitializationState = 6 <=> worker
    /\ gInitializationState = 7 <=> batchInstalled /\ ~worker
================================================================================
