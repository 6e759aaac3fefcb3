-------------------------------- MODULE Launch ---------------------------------
(***************************************************************************)
(* How injector/main.cpp starts Leeyes with inject_dll.dll and hands it    *)
(* the file it was given: the suspended process, the bootstrap written     *)
(* into it, the wait for a main form that stays, and the drop.             *)
(*                                                                         *)
(* The injector and Leeyes' primary thread run side by side.  Each call of *)
(* NInjectLib's Process, and each Windows call the injector tests, may     *)
(* fail.  Leeyes' own start is external: it creates, shows, names and      *)
(* recreates its TMainForm, and may exit at any moment.  A window handle   *)
(* is not given out twice.                                                 *)
(***************************************************************************)
EXTENDS Naturals

CONSTANTS
  WindowWaitLimit,   \* 120 s of waiting for a form, in passes of the loop
  StableNeeded,      \* 25 checks in a row
  StabilityLimit,    \* 500 checks in all
  MaxForms           \* bound: forms that Leeyes creates

ASSUME LaunchAssumption ==
  /\ WindowWaitLimit \in Nat /\ StabilityLimit \in Nat /\ MaxForms \in Nat
  /\ StableNeeded \in Nat \ {0}

VARIABLES
  arguments, \* whether a file is given, and whether LEYEESW_BACKGROUND is set
  injector,  \* where it is, and the counters of its two loops
  hdrop,     \* the HDROP: "none", "held", "posted", "freed"
  memory,    \* the blocks written whole into the process of Leeyes
  leeyes,    \* its primary thread: what it executes next, and what has been done before
  form,      \* its TMainForm
  age        \* history: checks of the stability loop since that form was created

vars == <<arguments, injector, hdrop, memory, leeyes, form, age>>

Blocks == {"remoteDllPath", "remoteInitName", "remoteCode"}
NULL == 0
Forms == 1 .. MaxForms

InjectorSteps == Blocks \union
  {"CreateProcess", "OpenProcess", "LoadLibraryW", "headers", "GetThreadContext", "GetProcAddress",
   "SetThreadContext", "ResumeThread", "inputIdle", "window", "stable", "alloc", "fill", "post", "success", "catch", "done"}

TypeOK ==
  /\ arguments \in [option : BOOLEAN, background : BOOLEAN]
  /\ injector \in [at : InjectorSteps, hwnd : Forms \union {NULL}, windowWait : 0 .. WindowWaitLimit,
                   stableCount : 0 .. StableNeeded, stabilityWait : 0 .. StabilityLimit + 1,
                   result : {"none", "not started", "injected", "error"}]
  /\ hdrop \in {"none", "held", "posted", "freed"}
  /\ memory \subseteq Blocks
  /\ leeyes \in [at : {"none", "bootstrap", "getProcAddress", "initialize", "entry", "startup", "exited"},
                 suspended : BOOLEAN, redirected : BOOLEAN]
  /\ form \in [hwnd : Forms \union {NULL}, created : 0 .. MaxForms, visible : BOOLEAN, titled : BOOLEAN]
  /\ age \in 0 .. StableNeeded

NoForm(created) == [hwnd |-> NULL, created |-> created, visible |-> FALSE, titled |-> FALSE]

Init ==
  /\ arguments \in [option : BOOLEAN, background : BOOLEAN]
  /\ injector = [at |-> "CreateProcess", hwnd |-> NULL, windowWait |-> 0, stableCount |-> 0,
                 stabilityWait |-> 0, result |-> "none"]
  /\ hdrop = "none" /\ memory = {}
  /\ leeyes = [at |-> "none", suspended |-> FALSE, redirected |-> FALSE]
  /\ form = NoForm(0) /\ age = 0

Alive == leeyes.at \notin {"none", "exited"}

At(step) == injector.at = step
Go(step) == injector' = [injector EXCEPT !.at = step]
Throw == Go("catch")

--------------------------------------------------------------------------------
(* The injector.                                                              *)

CreateProcess ==
  /\ At("CreateProcess")
  /\ \/ /\ leeyes' = [at |-> "entry", suspended |-> TRUE, redirected |-> FALSE]
        /\ Go("OpenProcess")
     \/ /\ injector' = [injector EXCEPT !.at = "done", !.result = "not started"]
        /\ UNCHANGED leeyes
  /\ UNCHANGED <<arguments, hdrop, memory, form, age>>

\* A call that changes nothing in Leeyes: it succeeds, or the injector throws.
Attempt(step, next) ==
  /\ At(step)
  /\ Go(next) \/ Throw
  /\ UNCHANGED <<arguments, hdrop, memory, leeyes, form, age>>

Prepare ==
  \/ Attempt("OpenProcess", "remoteDllPath")
  \/ Attempt("LoadLibraryW", "headers")
  \/ Attempt("headers", "GetThreadContext")
  \/ Attempt("GetThreadContext", "GetProcAddress")
  \/ Attempt("GetProcAddress", "remoteInitName")

\* The result of the write is not tested.
MWriteBlock(block, next) ==
  /\ At(block) /\ Go(next)
  /\ memory' \in {memory, memory \union {block}}
  /\ UNCHANGED <<arguments, hdrop, leeyes, form, age>>

\* allocMem and writeMemory.
WriteBlock(block, next) ==
  /\ At(block)
  /\ \/ Alive /\ memory' = memory \union {block} /\ Go(next)
     \/ Throw /\ UNCHANGED memory
  /\ UNCHANGED <<arguments, hdrop, leeyes, form, age>>

WriteMemory ==
  \/ WriteBlock("remoteDllPath", "LoadLibraryW")
  \/ WriteBlock("remoteInitName", "remoteCode")
  \/ WriteBlock("remoteCode", "SetThreadContext")

\* The result of the call is not tested.
MSetThreadContext ==
  /\ At("SetThreadContext") /\ Go("ResumeThread")
  /\ \/ Alive /\ leeyes' = [leeyes EXCEPT !.at = "bootstrap", !.redirected = TRUE]
     \/ UNCHANGED leeyes
  /\ UNCHANGED <<arguments, hdrop, memory, form, age>>

SetThreadContext ==
  /\ At("SetThreadContext")
  /\ \/ Alive /\ leeyes' = [leeyes EXCEPT !.at = "bootstrap", !.redirected = TRUE] /\ Go("ResumeThread")
     \/ Throw /\ UNCHANGED leeyes
  /\ UNCHANGED <<arguments, hdrop, memory, form, age>>

ResumeThread ==
  /\ At("ResumeThread") /\ Go(IF arguments.option THEN "inputIdle" ELSE "success")
  /\ leeyes' = [leeyes EXCEPT !.suspended = FALSE]
  /\ UNCHANGED <<arguments, hdrop, memory, form, age>>

\* Idle and WAIT_TIMEOUT go on alike.
WaitForInputIdle ==
  /\ At("inputIdle")
  /\ Go("window") \/ Throw
  /\ UNCHANGED <<arguments, hdrop, memory, leeyes, form, age>>

GetWindowHandle == IF arguments.background \/ form.visible THEN form.hwnd ELSE NULL

\* The limit is tested with > instead of >=.
MFindForm ==
  /\ At("window")
  /\ IF GetWindowHandle # NULL /\ (arguments.background \/ form.titled)
       THEN injector' = [injector EXCEPT !.at = "stable", !.hwnd = form.hwnd]
     ELSE IF leeyes.at = "exited" \/ injector.windowWait > WindowWaitLimit THEN Throw
     ELSE \E waited \in injector.windowWait + 1 .. WindowWaitLimit + 1 :
            injector' = [injector EXCEPT !.windowWait = waited]
  /\ UNCHANGED <<arguments, hdrop, memory, leeyes, form, age>>

\* A pass of the first loop takes 20 ms or more.
FindForm ==
  /\ At("window")
  /\ IF GetWindowHandle # NULL /\ (arguments.background \/ form.titled)
       THEN injector' = [injector EXCEPT !.at = "stable", !.hwnd = form.hwnd]
     ELSE IF leeyes.at = "exited" \/ injector.windowWait >= WindowWaitLimit THEN Throw
     ELSE \E waited \in injector.windowWait + 1 .. WindowWaitLimit :
            injector' = [injector EXCEPT !.windowWait = waited]
  /\ UNCHANGED <<arguments, hdrop, memory, leeyes, form, age>>

CheckAge == age' = IF age < StableNeeded THEN age + 1 ELSE age

\* The count is not reset when another form is found.
MStabilityCheck ==
  /\ At("stable") /\ injector.stableCount < StableNeeded
  /\ IF injector.stabilityWait > StabilityLimit THEN Throw /\ UNCHANGED age
     ELSE /\ CheckAge
          /\ injector' = [injector EXCEPT !.stabilityWait = @ + 1, !.hwnd = GetWindowHandle,
               !.stableCount = IF GetWindowHandle \notin {NULL} THEN @ + 1 ELSE @]
  /\ UNCHANGED <<arguments, hdrop, memory, leeyes, form>>

\* The checks are not counted.
MStabilityCheckForever ==
  /\ At("stable") /\ injector.stableCount < StableNeeded
  /\ CheckAge
  /\ injector' = [injector EXCEPT !.hwnd = GetWindowHandle,
       !.stableCount = IF GetWindowHandle \notin {NULL} \ {injector.hwnd} THEN @ + 1 ELSE 0]
  /\ UNCHANGED <<arguments, hdrop, memory, leeyes, form>>

StabilityCheck ==
  /\ At("stable") /\ injector.stableCount < StableNeeded
  /\ IF injector.stabilityWait > StabilityLimit THEN Throw /\ UNCHANGED age
     ELSE /\ CheckAge
          /\ injector' = [injector EXCEPT !.stabilityWait = @ + 1, !.hwnd = GetWindowHandle,
               !.stableCount = IF GetWindowHandle # NULL /\ GetWindowHandle = injector.hwnd
                                 THEN @ + 1 ELSE 0]
  /\ UNCHANGED <<arguments, hdrop, memory, leeyes, form>>

Stable ==
  /\ At("stable") /\ injector.stableCount = StableNeeded /\ Go("alloc")
  /\ UNCHANGED <<arguments, hdrop, memory, leeyes, form, age>>

\* GlobalAlloc and GlobalLock; what cannot be locked is freed.
AllocateDrop ==
  /\ At("alloc")
  /\ \/ hdrop' = "held" /\ Go("fill")
     \/ hdrop' \in {"none", "freed"} /\ Throw
  /\ UNCHANGED <<arguments, memory, leeyes, form, age>>

FillDrop ==
  /\ At("fill")
  /\ \/ Go("post") /\ UNCHANGED hdrop
     \/ hdrop' = "freed" /\ Throw
  /\ UNCHANGED <<arguments, memory, leeyes, form, age>>

\* What could not be posted is not freed.
MPostDrop ==
  /\ At("post")
  /\ \/ form.hwnd = injector.hwnd /\ hdrop' = "posted" /\ Go("success")
     \/ Throw /\ UNCHANGED hdrop
  /\ UNCHANGED <<arguments, memory, leeyes, form, age>>

PostDrop ==
  /\ At("post")
  /\ \/ form.hwnd = injector.hwnd /\ hdrop' = "posted" /\ Go("success")
     \/ hdrop' = "freed" /\ Throw
  /\ UNCHANGED <<arguments, memory, leeyes, form, age>>

Success ==
  /\ At("success")
  /\ injector' = [injector EXCEPT !.at = "done", !.result = "injected"]
  /\ UNCHANGED <<arguments, hdrop, memory, leeyes, form, age>>

\* The thread is not resumed.
MCatch ==
  /\ At("catch")
  /\ injector' = [injector EXCEPT !.at = "done", !.result = "error"]
  /\ UNCHANGED <<arguments, hdrop, memory, leeyes, form, age>>

Catch ==
  /\ At("catch")
  /\ injector' = [injector EXCEPT !.at = "done", !.result = "error"]
  /\ leeyes' = [leeyes EXCEPT !.suspended = FALSE]
  /\ UNCHANGED <<arguments, hdrop, memory, form, age>>

Injector ==
  \/ CreateProcess \/ Prepare \/ WriteMemory \/ SetThreadContext \/ ResumeThread \/ WaitForInputIdle
  \/ FindForm \/ StabilityCheck \/ Stable \/ AllocateDrop \/ FillDrop \/ PostDrop \/ Success \/ Catch

--------------------------------------------------------------------------------
(* The code that CreatePreEntryBootstrap writes, run by the primary thread.   *)

BootstrapStep(step, nexts) ==
  /\ leeyes.at = step /\ ~leeyes.suspended
  /\ \E next \in nexts : leeyes' = [leeyes EXCEPT !.at = next]
  /\ UNCHANGED <<arguments, injector, hdrop, memory, form, age>>

\* Either call may return zero, and the jump to the original entry point is taken at once.
Bootstrap ==
  \/ BootstrapStep("bootstrap", {"getProcAddress", "entry"})
  \/ BootstrapStep("getProcAddress", {"initialize", "entry"})
  \/ BootstrapStep("initialize", {"entry"})
  \/ BootstrapStep("entry", {"startup"})

(* Leeyes itself. *)

FormChange(new) ==
  /\ leeyes.at = "startup" /\ ~leeyes.suspended
  /\ form' = new
  /\ age' = IF new.hwnd = form.hwnd THEN age ELSE 0
  /\ UNCHANGED <<arguments, injector, hdrop, memory, leeyes>>

CreateForm ==
  /\ form.hwnd = NULL /\ form.created < MaxForms
  /\ FormChange([NoForm(form.created + 1) EXCEPT !.hwnd = form.created + 1])

ShowOrHideForm == form.hwnd # NULL /\ FormChange([form EXCEPT !.visible = ~@])
NameForm == form.hwnd # NULL /\ ~form.titled /\ FormChange([form EXCEPT !.titled = TRUE])
DestroyForm == form.hwnd # NULL /\ FormChange(NoForm(form.created))

Exit ==
  /\ Alive
  /\ leeyes' = [leeyes EXCEPT !.at = "exited"]
  /\ form' = NoForm(form.created) /\ age' = 0
  /\ UNCHANGED <<arguments, injector, hdrop, memory>>

Next == Injector \/ Bootstrap \/ CreateForm \/ ShowOrHideForm \/ NameForm \/ DestroyForm \/ Exit

Spec == Init /\ [][Next]_vars

\* Each of the injector's waits has a limit; nothing is asked of Leeyes.
FairSpec == Spec /\ WF_vars(Injector)

--------------------------------------------------------------------------------
(* Properties.                                                                *)

\* Whatever step of the injection fails, Leeyes is not left suspended by an injector that
\* has ended.
NeverLeftSuspended == At("done") /\ Alive => ~leeyes.suspended

\* The primary thread enters the bootstrap only with the whole of it, and of the two names
\* it passes on, in its memory.
BootstrapWhole ==
  leeyes.at \in {"bootstrap", "getProcAddress", "initialize"} /\ ~leeyes.suspended => memory = Blocks

\* What the injector reports is what happened, whichever step failed: Leeyes runs without
\* the bootstrap only after an error was shown, and the HDROP of a file is given to Leeyes
\* exactly when success is reported and freed on every other way out.
OutcomeTruthful ==
  /\ leeyes.at \in {"entry", "startup"} /\ ~leeyes.suspended /\ ~leeyes.redirected => injector.result = "error"
  /\ At("done") => /\ hdrop # "held"
                   /\ hdrop = "posted" <=> injector.result = "injected" /\ arguments.option

\* main.cpp:250-253, the file is dropped on a form that has lived through StableNeeded
\* checks in a row, although the form may be recreated between any two of them.
StableDrop ==
  [][hdrop' = "posted" /\ hdrop # "posted" => form.hwnd = injector.hwnd /\ age >= StableNeeded]_vars

\* The injector ends, even if Leeyes hangs, never shows a form, keeps recreating it, or exits.
InjectorEnds == <>At("done")
================================================================================
