----------------------------- MODULE LaunchProofs ------------------------------
(***************************************************************************)
(* Proofs about Launch, for any limits of its loops and any number of      *)
(* forms: what the injector leaves behind, and on which form it drops.     *)
(***************************************************************************)
EXTENDS Launch, TLAPS

InjectorRecords ==
  [at : InjectorSteps, hwnd : Forms \union {NULL}, windowWait : 0 .. WindowWaitLimit,
   stableCount : 0 .. StableNeeded, stabilityWait : 0 .. StabilityLimit + 1,
   result : {"none", "not started", "injected", "error"}]

BeforeResume == Blocks \union
  {"OpenProcess", "LoadLibraryW", "headers", "GetThreadContext", "GetProcAddress", "SetThreadContext", "ResumeThread"}
Waiting  == {"inputIdle", "window", "stable"}
Dropping == {"alloc", "fill", "post"}

\* When Leeyes is there, and when it waits for the injector.
ProcessInv ==
  /\ At("CreateProcess") => leeyes.at = "none"
  /\ leeyes.at = "none" => ~leeyes.suspended
  /\ leeyes.suspended => At("catch") \/ injector.at \in BeforeResume
  /\ leeyes.suspended => leeyes.at \in {"entry", "bootstrap", "exited"}
  /\ injector.at \in BeforeResume /\ Alive => leeyes.suspended
  /\ At("catch") /\ Alive /\ ~leeyes.redirected => leeyes.suspended

\* Which blocks the injector has written at each of its steps.
MemoryInv ==
  /\ injector.at \in {"LoadLibraryW", "headers", "GetThreadContext", "GetProcAddress", "remoteInitName", "remoteCode",
                      "SetThreadContext"} => "remoteDllPath" \in memory
  /\ injector.at \in {"remoteCode", "SetThreadContext"} => "remoteInitName" \in memory
  /\ At("SetThreadContext") => "remoteCode" \in memory
  /\ leeyes.at \in {"bootstrap", "getProcAddress", "initialize"} => memory = Blocks

\* What the injector may report.
ResultInv ==
  /\ injector.result # "none" => At("done")
  /\ injector.at \in {"ResumeThread", "success"} \union Waiting \union Dropping => leeyes.redirected
  /\ injector.result = "injected" => leeyes.redirected
  /\ injector.result = "not started" => leeyes.at = "none"
  /\ At("done") => injector.result # "none"

\* Whose the HDROP is.
DropInv ==
  /\ injector.at \in Waiting \union Dropping => arguments.option
  /\ hdrop = "held" <=> injector.at \in {"fill", "post"}
  /\ hdrop = "posted" => arguments.option /\ (At("success") \/ injector.result = "injected")
  /\ arguments.option /\ (At("success") \/ injector.result = "injected") => hdrop = "posted"

\* A handle that has been counted is that of a form as old as the count, or of none any more.
FormInv ==
  /\ form.hwnd <= form.created /\ injector.hwnd <= form.created
  /\ injector.at \in {"inputIdle", "window"} \union BeforeResume \union {"CreateProcess"} => injector.stableCount = 0
  /\ At("stable") /\ injector.stableCount > 0 => injector.hwnd # NULL
  /\ At("stable") /\ form.hwnd = injector.hwnd /\ injector.hwnd # NULL => injector.stableCount <= age
  /\ injector.at \in Dropping => injector.hwnd # NULL
  /\ injector.at \in Dropping /\ form.hwnd = injector.hwnd => age >= StableNeeded

IInv == TypeOK /\ ProcessInv /\ MemoryInv /\ ResultInv /\ DropInv /\ FormInv

--------------------------------------------------------------------------------
(* Steps of the injector.                                                     *)

\* A step goes to another place, and leaves the rest of the injector as it was.
Moves(step) ==
  /\ injector' \in InjectorRecords /\ injector'.at = step
  /\ injector'.hwnd = injector.hwnd /\ injector'.stableCount = injector.stableCount
  /\ injector'.result = injector.result

LEMMA GoFacts == ASSUME TypeOK, NEW step \in InjectorSteps, Go(step) PROVE Moves(step)
<1>1. injector \in InjectorRecords
  BY DEF TypeOK, InjectorRecords
<1> QED BY <1>1 DEF Go, Moves, InjectorRecords

\* A place is reported when the injector is done there.
LEMMA ReportFacts ==
  ASSUME TypeOK, NEW result \in {"not started", "injected", "error"},
         injector' = [injector EXCEPT !.at = "done", !.result = result]
  PROVE  /\ injector' \in InjectorRecords /\ injector'.at = "done" /\ injector'.result = result
         /\ injector'.hwnd = injector.hwnd /\ injector'.stableCount = injector.stableCount
<1>1. injector \in InjectorRecords
  BY DEF TypeOK, InjectorRecords
<1> QED BY <1>1 DEF InjectorRecords, InjectorSteps

LEMMA Numbers ==
  ASSUME TypeOK
  PROVE  /\ injector.hwnd \in Nat /\ injector.windowWait \in Nat /\ injector.stableCount \in Nat
         /\ injector.stabilityWait \in Nat /\ injector.stableCount <= StableNeeded
         /\ form.hwnd \in Nat /\ form.created \in Nat /\ age \in Nat /\ age <= StableNeeded
         /\ form.hwnd \in Forms \union {NULL} /\ NULL \in Nat /\ StableNeeded \in Nat /\ StableNeeded > 0
         /\ WindowWaitLimit \in Nat /\ StabilityLimit \in Nat
<1>1. injector \in InjectorRecords /\ form.hwnd \in Forms \union {NULL} /\ form.created \in 0 .. MaxForms
      /\ age \in 0 .. StableNeeded
  BY DEF TypeOK, InjectorRecords
<1>2. injector.hwnd \in Forms \union {NULL} /\ injector.windowWait \in 0 .. WindowWaitLimit
      /\ injector.stableCount \in 0 .. StableNeeded /\ injector.stabilityWait \in 0 .. StabilityLimit + 1
  BY <1>1 DEF InjectorRecords
<1> QED BY <1>1, <1>2, LaunchAssumption DEF Forms, NULL

\* What a step has to keep of the types.
LEMMA Types ==
  ASSUME TypeOK, injector' \in InjectorRecords, hdrop' \in {"none", "held", "posted", "freed"}, memory' \subseteq Blocks,
         UNCHANGED <<arguments, leeyes, form>>, age' \in 0 .. StableNeeded
  PROVE  TypeOK'
BY DEF TypeOK, InjectorRecords

LEMMA ThrowInv ==
  ASSUME IInv, Throw, injector.at \notin {"CreateProcess", "success", "catch", "done"},
         hdrop' \in {hdrop, "none", "freed"}, hdrop' # "held",
         UNCHANGED <<arguments, memory, leeyes, form>>, age' = age
  PROVE  IInv'
<1>1. TypeOK /\ "catch" \in InjectorSteps /\ injector.at \in InjectorSteps
  BY DEF IInv, TypeOK, InjectorSteps
<1>2. Moves("catch")
  BY <1>1, GoFacts DEF Throw
<1>3. TypeOK'
  BY <1>1, <1>2, Types DEF TypeOK, Moves
<1>4. hdrop' # "posted" /\ injector.result = "none"
  BY DEF IInv, DropInv, ResultInv, At
<1>5. ProcessInv' /\ MemoryInv'
  BY <1>1, <1>2 DEF IInv, ProcessInv, MemoryInv, ResultInv, Moves, At, Alive, BeforeResume, Blocks, InjectorSteps, Waiting, Dropping
<1>6. ResultInv' /\ DropInv'
  BY <1>2, <1>4 DEF IInv, ResultInv, DropInv, Moves, At, Waiting, Dropping
<1>7. FormInv'
  BY <1>2 DEF IInv, FormInv, Moves, At, BeforeResume, Blocks, Dropping
<1> QED BY <1>3, <1>5, <1>6, <1>7 DEF IInv

\* A call that has succeeded before anything is written or resumed.
LEMMA PrepareInv == ASSUME IInv, Prepare PROVE IInv'
<1>1. ASSUME NEW step \in BeforeResume, NEW next \in BeforeResume, Attempt(step, next),
             <<step, next>> \in {<<"OpenProcess", "remoteDllPath">>, <<"LoadLibraryW", "headers">>,
               <<"headers", "GetThreadContext">>, <<"GetThreadContext", "GetProcAddress">>,
               <<"GetProcAddress", "remoteInitName">>}
      PROVE  IInv'
  <2>1. injector.at = step /\ UNCHANGED <<arguments, hdrop, memory, leeyes, form, age>>
    BY <1>1 DEF Attempt, At
  <2>2. CASE Throw
    <3>1. hdrop # "held" /\ injector.at \notin {"CreateProcess", "success", "catch", "done"}
      BY <1>1, <2>1 DEF IInv, DropInv, BeforeResume, Blocks
    <3> QED BY <2>1, <2>2, <3>1, ThrowInv
  <2>3. CASE Go(next)
    <3>1. TypeOK /\ next \in InjectorSteps
      BY DEF IInv, InjectorSteps, BeforeResume
    <3>2. Moves(next)
      BY <2>3, <3>1, GoFacts
    <3>3. TypeOK'
      BY <2>1, <3>1, <3>2, Types DEF TypeOK, Moves
    <3>4. ProcessInv'
      BY <1>1, <2>1, <3>2 DEF IInv, ProcessInv, Moves, At, Alive, BeforeResume, Blocks
    <3>5. MemoryInv'
      BY <1>1, <2>1, <3>2 DEF IInv, MemoryInv, Moves, At
    <3>6. ResultInv' /\ DropInv' /\ FormInv'
      BY <1>1, <2>1, <3>2 DEF IInv, ResultInv, DropInv, FormInv, Moves, At, BeforeResume, Blocks, Waiting, Dropping
    <3> QED BY <3>3, <3>4, <3>5, <3>6 DEF IInv
  <2> QED BY <1>1, <2>2, <2>3 DEF Attempt
<1> QED BY <1>1 DEF Prepare, BeforeResume, Blocks

LEMMA WriteMemoryInv == ASSUME IInv, WriteMemory PROVE IInv'
<1>1. ASSUME NEW block \in Blocks, NEW next \in BeforeResume, WriteBlock(block, next),
             <<block, next>> \in {<<"remoteDllPath", "LoadLibraryW">>, <<"remoteInitName", "remoteCode">>,
               <<"remoteCode", "SetThreadContext">>}
      PROVE  IInv'
  <2>1. injector.at = block /\ UNCHANGED <<arguments, hdrop, leeyes, form, age>>
    BY <1>1 DEF WriteBlock, At
  <2>2. CASE Throw /\ UNCHANGED memory
    <3>1. hdrop # "held" /\ injector.at \notin {"CreateProcess", "success", "catch", "done"}
      BY <2>1 DEF IInv, DropInv, Blocks
    <3> QED BY <2>1, <2>2, <3>1, ThrowInv
  <2>3. CASE memory' = memory \union {block} /\ Go(next)
    <3>1. TypeOK /\ next \in InjectorSteps
      BY DEF IInv, InjectorSteps, BeforeResume
    <3>2. Moves(next)
      BY <2>3, <3>1, GoFacts
    <3>3. TypeOK'
      BY <2>1, <2>3, <3>1, <3>2, Types DEF TypeOK, Moves
    <3>4. ProcessInv'
      BY <1>1, <2>1, <3>2 DEF IInv, ProcessInv, Moves, At, Alive, BeforeResume, Blocks
    <3>5. MemoryInv'
      <4>1. memory = Blocks => memory' = Blocks
        BY <2>3
      <4> QED BY <1>1, <2>1, <2>3, <3>2, <4>1 DEF IInv, MemoryInv, Moves, At
    <3>6. ResultInv' /\ DropInv' /\ FormInv'
      BY <1>1, <2>1, <3>2 DEF IInv, ResultInv, DropInv, FormInv, Moves, At, BeforeResume, Blocks, Waiting, Dropping
    <3> QED BY <3>3, <3>4, <3>5, <3>6 DEF IInv
  <2> QED BY <1>1, <2>2, <2>3 DEF WriteBlock
<1> QED BY <1>1 DEF WriteMemory, BeforeResume, Blocks

LeeyesRecords ==
  [at : {"none", "bootstrap", "getProcAddress", "initialize", "entry", "startup", "exited"},
   suspended : BOOLEAN, redirected : BOOLEAN]

\* The same of a step that changes Leeyes.
LEMMA LeeyesTypes ==
  ASSUME TypeOK, injector' \in InjectorRecords, leeyes' \in LeeyesRecords, UNCHANGED <<arguments, hdrop, memory, form, age>>
  PROVE  TypeOK'
BY DEF TypeOK, InjectorRecords, LeeyesRecords

LEMMA CreateProcessInv == ASSUME IInv, CreateProcess PROVE IInv'
<1>1. injector.at = "CreateProcess" /\ UNCHANGED <<arguments, hdrop, memory, form, age>> /\ TypeOK
      /\ leeyes.at = "none" /\ ~leeyes.suspended
  BY DEF CreateProcess, At, IInv, ProcessInv
<1>2. CASE leeyes' = [at |-> "entry", suspended |-> TRUE, redirected |-> FALSE] /\ Go("OpenProcess")
  <2>1. Moves("OpenProcess")
    BY <1>1, <1>2, GoFacts DEF InjectorSteps
  <2>2. leeyes' \in LeeyesRecords /\ leeyes'.at = "entry" /\ leeyes'.suspended /\ ~leeyes'.redirected
    BY <1>2 DEF LeeyesRecords
  <2>3. TypeOK'
    BY <1>1, <2>1, <2>2, LeeyesTypes DEF Moves
  <2>4. ProcessInv' /\ MemoryInv'
    BY <1>1, <2>1, <2>2 DEF IInv, ProcessInv, MemoryInv, Moves, At, Alive, BeforeResume, Blocks
  <2>5. ResultInv' /\ DropInv' /\ FormInv'
    BY <1>1, <2>1, <2>2 DEF IInv, ResultInv, DropInv, FormInv, Moves, At, BeforeResume, Blocks, Waiting, Dropping
  <2> QED BY <2>3, <2>4, <2>5 DEF IInv
<1>3. CASE injector' = [injector EXCEPT !.at = "done", !.result = "not started"] /\ UNCHANGED leeyes
  <2>1. /\ injector' \in InjectorRecords /\ injector'.at = "done" /\ injector'.result = "not started"
        /\ injector'.hwnd = injector.hwnd /\ injector'.stableCount = injector.stableCount
    BY <1>1, <1>3, ReportFacts
  <2>2. TypeOK'
    BY <1>1, <1>3, <2>1, Types DEF TypeOK
  <2>3. ProcessInv' /\ MemoryInv'
    BY <1>1, <1>3, <2>1 DEF IInv, ProcessInv, MemoryInv, At, Alive, BeforeResume, Blocks
  <2>4. ResultInv' /\ DropInv' /\ FormInv'
    BY <1>1, <1>3, <2>1 DEF IInv, ResultInv, DropInv, FormInv, At, BeforeResume, Blocks, Waiting, Dropping
  <2> QED BY <2>2, <2>3, <2>4 DEF IInv
<1> QED BY <1>2, <1>3 DEF CreateProcess

LEMMA SetThreadContextInv == ASSUME IInv, SetThreadContext PROVE IInv'
<1>1. injector.at = "SetThreadContext" /\ UNCHANGED <<arguments, hdrop, memory, form, age>> /\ TypeOK
  BY DEF SetThreadContext, At, IInv
<1>2. CASE Throw /\ UNCHANGED leeyes
  BY <1>1, <1>2, ThrowInv DEF IInv, DropInv
<1>3. CASE Alive /\ leeyes' = [leeyes EXCEPT !.at = "bootstrap", !.redirected = TRUE] /\ Go("ResumeThread")
  <2>1. Moves("ResumeThread")
    BY <1>1, <1>3, GoFacts DEF InjectorSteps, Blocks
  <2>2. leeyes' \in LeeyesRecords /\ leeyes'.at = "bootstrap" /\ leeyes'.suspended = leeyes.suspended /\ leeyes'.redirected
    BY <1>1, <1>3 DEF LeeyesRecords, TypeOK
  <2>3. TypeOK'
    BY <1>1, <2>1, <2>2, LeeyesTypes DEF Moves
  <2>4. ProcessInv'
    BY <1>1, <1>3, <2>1, <2>2 DEF IInv, ProcessInv, Moves, At, Alive, BeforeResume
  <2>5. MemoryInv'
    <3>1. memory = Blocks
      BY <1>1 DEF IInv, MemoryInv, At, TypeOK, Blocks
    <3> QED BY <1>1, <2>1, <3>1 DEF MemoryInv, Moves, At, Blocks
  <2>6. ResultInv' /\ DropInv' /\ FormInv'
    BY <1>1, <2>1, <2>2 DEF IInv, ResultInv, DropInv, FormInv, Moves, At, BeforeResume, Blocks, Waiting, Dropping
  <2> QED BY <2>3, <2>4, <2>5, <2>6 DEF IInv
<1> QED BY <1>2, <1>3 DEF SetThreadContext

LEMMA ResumeThreadInv == ASSUME IInv, ResumeThread PROVE IInv'
<1> DEFINE next == IF arguments.option THEN "inputIdle" ELSE "success"
<1>1. injector.at = "ResumeThread" /\ UNCHANGED <<arguments, hdrop, memory, form, age>> /\ TypeOK
      /\ leeyes' = [leeyes EXCEPT !.suspended = FALSE] /\ Go(next)
  BY DEF ResumeThread, At, IInv
<1>2. next \in {"inputIdle", "success"} /\ next \in InjectorSteps /\ (next = "inputIdle" <=> arguments.option)
  BY DEF InjectorSteps
<1> HIDE DEF next
<1>3. Moves(next)
  BY <1>1, <1>2, GoFacts
<1>4. leeyes' \in LeeyesRecords /\ leeyes'.at = leeyes.at /\ ~leeyes'.suspended /\ leeyes'.redirected = leeyes.redirected
  BY <1>1 DEF LeeyesRecords, TypeOK
<1>5. TypeOK'
  BY <1>1, <1>3, <1>4, LeeyesTypes DEF Moves
<1>6. ProcessInv' /\ MemoryInv'
  BY <1>1, <1>2, <1>3, <1>4 DEF IInv, ProcessInv, MemoryInv, Moves, At, Alive, BeforeResume, Blocks
<1>7. ResultInv' /\ DropInv' /\ FormInv'
  BY <1>1, <1>2, <1>3, <1>4 DEF IInv, ResultInv, DropInv, FormInv, Moves, At, BeforeResume, Blocks, Waiting, Dropping
<1> QED BY <1>5, <1>6, <1>7 DEF IInv

\* What the steps after ResumeThread leave alone.
LEMMA Resumed ==
  ASSUME IInv, injector.at \in Waiting \union Dropping \union {"success"},
         injector'.at \in Waiting \union Dropping \union {"success"}, UNCHANGED <<memory, leeyes>>
  PROVE  ProcessInv' /\ MemoryInv'
BY DEF IInv, ProcessInv, MemoryInv, At, Alive, BeforeResume, Blocks, Waiting, Dropping

LEMMA WaitForInputIdleInv == ASSUME IInv, WaitForInputIdle PROVE IInv'
<1>1. injector.at = "inputIdle" /\ UNCHANGED <<arguments, hdrop, memory, leeyes, form, age>> /\ TypeOK
  BY DEF WaitForInputIdle, At, IInv
<1>2. CASE Throw
  BY <1>1, <1>2, ThrowInv DEF IInv, DropInv
<1>3. CASE Go("window")
  <2>1. Moves("window")
    BY <1>1, <1>3, GoFacts DEF InjectorSteps
  <2>2. TypeOK'
    BY <1>1, <2>1, Types DEF Moves, TypeOK
  <2>3. ProcessInv' /\ MemoryInv'
    BY <1>1, <2>1, Resumed DEF Moves, Waiting
  <2>4. ResultInv' /\ DropInv' /\ FormInv'
    BY <1>1, <2>1 DEF IInv, ResultInv, DropInv, FormInv, Moves, At, BeforeResume, Blocks, Waiting, Dropping
  <2> QED BY <2>2, <2>3, <2>4 DEF IInv
<1> QED BY <1>2, <1>3 DEF WaitForInputIdle

LEMMA FindFormInv == ASSUME IInv, FindForm PROVE IInv'
<1>1. injector.at = "window" /\ UNCHANGED <<arguments, hdrop, memory, leeyes, form, age>> /\ TypeOK
      /\ injector \in InjectorRecords /\ injector.stableCount = 0
  BY DEF FindForm, At, IInv, TypeOK, InjectorRecords, FormInv
<1>2. CASE Throw
  BY <1>1, <1>2, ThrowInv DEF IInv, DropInv
<1>3. CASE injector' = [injector EXCEPT !.at = "stable", !.hwnd = form.hwnd]
  <2>1. /\ injector' \in InjectorRecords /\ injector'.at = "stable" /\ injector'.hwnd = form.hwnd
        /\ injector'.stableCount = 0 /\ injector'.result = injector.result
    BY <1>1, <1>3 DEF InjectorRecords, InjectorSteps, TypeOK
  <2>2. TypeOK'
    BY <1>1, <2>1, Types DEF TypeOK
  <2>3. ProcessInv' /\ MemoryInv'
    BY <1>1, <2>1, Resumed DEF Waiting
  <2>4. ResultInv' /\ DropInv'
    BY <1>1, <2>1 DEF IInv, ResultInv, DropInv, At, Waiting, Dropping
  <2>5. FormInv'
    BY <1>1, <2>1, Numbers DEF IInv, FormInv, At, BeforeResume, Blocks, Dropping
  <2> QED BY <2>2, <2>3, <2>4, <2>5 DEF IInv
<1>4. ASSUME NEW waited \in 0 .. WindowWaitLimit, injector' = [injector EXCEPT !.windowWait = waited]
      PROVE  IInv'
  <2>1. Moves("window")
    BY <1>1, <1>4 DEF InjectorRecords, Moves
  <2>2. TypeOK'
    BY <1>1, <2>1, Types DEF Moves, TypeOK
  <2>3. ProcessInv' /\ MemoryInv'
    BY <1>1, <2>1, Resumed DEF Moves, Waiting
  <2>4. ResultInv' /\ DropInv' /\ FormInv'
    BY <1>1, <2>1 DEF IInv, ResultInv, DropInv, FormInv, Moves, At, BeforeResume, Blocks, Waiting, Dropping
  <2> QED BY <2>2, <2>3, <2>4 DEF IInv
<1>5. \A waited \in injector.windowWait + 1 .. WindowWaitLimit : waited \in 0 .. WindowWaitLimit
  BY <1>1, Numbers
<1> QED BY <1>2, <1>3, <1>4, <1>5 DEF FindForm

LEMMA StabilityCheckInv == ASSUME IInv, StabilityCheck PROVE IInv'
<1>1. injector.at = "stable" /\ UNCHANGED <<arguments, hdrop, memory, leeyes, form>> /\ TypeOK
      /\ injector \in InjectorRecords /\ injector.stableCount < StableNeeded
  BY DEF StabilityCheck, At, IInv, TypeOK, InjectorRecords
<1>2. CASE Throw /\ UNCHANGED age
  BY <1>1, <1>2, ThrowInv DEF IInv, DropInv
<1>3. CASE ~(injector.stabilityWait > StabilityLimit)
  <2> DEFINE h == GetWindowHandle
             count == IF h # NULL /\ h = injector.hwnd THEN injector.stableCount + 1 ELSE 0
             wait == injector.stabilityWait + 1
  <2>1. injector' = [injector EXCEPT !.stabilityWait = wait, !.hwnd = h, !.stableCount = count] /\ CheckAge
    BY <1>3 DEF StabilityCheck
  <2>2. /\ h \in Forms \union {NULL} /\ h \in {form.hwnd, NULL}
        /\ wait \in 0 .. StabilityLimit + 1 /\ count \in 0 .. StableNeeded
        /\ count > 0 => h # NULL /\ h = injector.hwnd /\ count = injector.stableCount + 1
    BY <1>1, <1>3, Numbers DEF GetWindowHandle
  <2> HIDE DEF h, count, wait
  <2>3. /\ injector' \in InjectorRecords /\ injector'.at = "stable" /\ injector'.hwnd = h
        /\ injector'.stableCount = count /\ injector'.result = injector.result
    BY <1>1, <2>1, <2>2 DEF InjectorRecords
  <2>4. age \in 0 .. StableNeeded /\ age' \in 0 .. StableNeeded /\ (age' = age + 1 \/ age' = StableNeeded)
    BY <1>1, <2>1, Numbers DEF CheckAge
  <2>5. TypeOK'
    BY <1>1, <2>3, <2>4, Types DEF TypeOK
  <2>6. ProcessInv' /\ MemoryInv'
    BY <1>1, <2>3, Resumed DEF Waiting
  <2>7. ResultInv' /\ DropInv'
    BY <1>1, <2>3 DEF IInv, ResultInv, DropInv, At, Waiting, Dropping
  <2>8. form'.hwnd = injector'.hwnd /\ injector'.hwnd # NULL => injector'.stableCount <= age'
    <3>1. CASE count > 0 /\ form.hwnd = h
      <4>1. injector.stableCount <= age
        BY <1>1, <2>2, <3>1 DEF IInv, FormInv, At
      <4>2. injector.stableCount \in Nat /\ StableNeeded \in Nat
        BY <1>1, Numbers
      <4> QED BY <1>1, <2>2, <2>3, <2>4, <3>1, <4>1, <4>2
    <3>2. CASE ~(count > 0)
      BY <2>2, <2>3, <2>4, <3>2, LaunchAssumption
    <3> QED BY <1>1, <2>3, <3>1, <3>2
  <2>9. FormInv'
    <3>1. form.hwnd <= form.created /\ NULL <= form.created
      BY <1>1, Numbers DEF IInv, FormInv, NULL
    <3> QED BY <1>1, <2>2, <2>3, <2>8, <3>1 DEF FormInv, At, BeforeResume, Blocks, Dropping
  <2> QED BY <2>5, <2>6, <2>7, <2>9 DEF IInv
<1> QED BY <1>2, <1>3 DEF StabilityCheck

LEMMA StableInv == ASSUME IInv, Stable PROVE IInv'
<1>1. injector.at = "stable" /\ UNCHANGED <<arguments, hdrop, memory, leeyes, form, age>> /\ TypeOK
      /\ injector.stableCount = StableNeeded /\ Go("alloc")
  BY DEF Stable, At, IInv
<1>2. Moves("alloc")
  BY <1>1, GoFacts DEF InjectorSteps
<1>3. TypeOK'
  BY <1>1, <1>2, Types DEF Moves, TypeOK
<1>4. ProcessInv' /\ MemoryInv'
  BY <1>1, <1>2, Resumed DEF Moves, Waiting, Dropping
<1>5. ResultInv' /\ DropInv'
  BY <1>1, <1>2 DEF IInv, ResultInv, DropInv, Moves, At, Waiting, Dropping
<1>6. injector.hwnd # NULL /\ (form.hwnd = injector.hwnd => age >= StableNeeded)
  BY <1>1, Numbers DEF IInv, FormInv, At
<1>7. FormInv'
  BY <1>1, <1>2, <1>6 DEF IInv, FormInv, Moves, At, BeforeResume, Blocks, Dropping
<1> QED BY <1>3, <1>4, <1>5, <1>7 DEF IInv

\* One of the steps that make and give the HDROP succeeds.
LEMMA DropGoesOn ==
  ASSUME IInv, NEW next \in {"fill", "post", "success"}, injector.at \in Dropping, Go(next),
         UNCHANGED <<arguments, memory, leeyes, form, age>>,
         hdrop' = IF next = "success" THEN "posted" ELSE "held"
  PROVE  IInv'
<1>1. TypeOK /\ next \in InjectorSteps
  BY DEF IInv, InjectorSteps
<1>2. Moves(next)
  BY <1>1, GoFacts
<1>3. TypeOK'
  BY <1>1, <1>2, Types DEF Moves, TypeOK
<1>4. ProcessInv' /\ MemoryInv'
  BY <1>2, Resumed DEF Moves, Dropping
<1>5. ResultInv'
  BY <1>2 DEF IInv, ResultInv, Moves, At, Waiting, Dropping
<1>6. injector.result = "none"
  BY DEF IInv, ResultInv, At, Dropping
<1>7. DropInv'
  BY <1>2, <1>6 DEF IInv, DropInv, Moves, At, Waiting, Dropping
<1>8. FormInv'
  BY <1>2 DEF IInv, FormInv, Moves, At, BeforeResume, Blocks, Dropping
<1> QED BY <1>3, <1>4, <1>5, <1>7, <1>8 DEF IInv

LEMMA DropInvs == ASSUME IInv, AllocateDrop \/ FillDrop \/ PostDrop PROVE IInv'
<1>1. /\ injector.at \in Dropping /\ UNCHANGED <<arguments, memory, leeyes, form, age>> /\ hdrop # "posted"
      /\ injector.at = "alloc" => hdrop # "held"
      /\ injector.at \notin {"CreateProcess", "success", "catch", "done"}
  BY DEF AllocateDrop, FillDrop, PostDrop, At, Dropping, IInv, DropInv, ResultInv
<1>2. CASE AllocateDrop
  <2>1. CASE hdrop' = "held" /\ Go("fill")
    BY <1>1, <2>1, DropGoesOn
  <2>2. CASE hdrop' \in {"none", "freed"} /\ Throw
    BY <1>1, <2>2, ThrowInv
  <2> QED BY <1>2, <2>1, <2>2 DEF AllocateDrop
<1>3. CASE FillDrop
  <2>1. hdrop = "held"
    BY <1>3 DEF FillDrop, At, IInv, DropInv
  <2> QED BY <2>1, <1>1, <1>3, DropGoesOn, ThrowInv DEF FillDrop
<1>4. CASE PostDrop
  BY <1>1, <1>4, DropGoesOn, ThrowInv DEF PostDrop
<1> QED BY <1>2, <1>3, <1>4

LEMMA SuccessInv == ASSUME IInv, Success PROVE IInv'
<1>1. injector.at = "success" /\ UNCHANGED <<arguments, hdrop, memory, leeyes, form, age>> /\ TypeOK
      /\ injector' = [injector EXCEPT !.at = "done", !.result = "injected"]
  BY DEF Success, At, IInv
<1>2. /\ injector' \in InjectorRecords /\ injector'.at = "done" /\ injector'.result = "injected"
      /\ injector'.hwnd = injector.hwnd /\ injector'.stableCount = injector.stableCount
  BY <1>1, ReportFacts
<1>3. TypeOK'
  BY <1>1, <1>2, Types DEF TypeOK
<1>4. ProcessInv' /\ MemoryInv'
  BY <1>1, <1>2 DEF IInv, ProcessInv, MemoryInv, At, Alive, BeforeResume, Blocks
<1>5. ResultInv' /\ DropInv' /\ FormInv'
  BY <1>1, <1>2 DEF IInv, ResultInv, DropInv, FormInv, At, BeforeResume, Blocks, Waiting, Dropping
<1> QED BY <1>3, <1>4, <1>5 DEF IInv

LEMMA CatchInv == ASSUME IInv, Catch PROVE IInv'
<1>1. injector.at = "catch" /\ UNCHANGED <<arguments, hdrop, memory, form, age>> /\ TypeOK
      /\ injector' = [injector EXCEPT !.at = "done", !.result = "error"] /\ leeyes' = [leeyes EXCEPT !.suspended = FALSE]
  BY DEF Catch, At, IInv
<1>2. /\ injector' \in InjectorRecords /\ injector'.at = "done" /\ injector'.result = "error"
      /\ injector'.hwnd = injector.hwnd /\ injector'.stableCount = injector.stableCount
  BY <1>1, ReportFacts
<1>3. leeyes' \in LeeyesRecords /\ leeyes'.at = leeyes.at /\ ~leeyes'.suspended /\ leeyes'.redirected = leeyes.redirected
  BY <1>1 DEF LeeyesRecords, TypeOK
<1>4. TypeOK'
  BY <1>1, <1>2, <1>3, LeeyesTypes
<1>5. ProcessInv' /\ MemoryInv'
  BY <1>1, <1>2, <1>3 DEF IInv, ProcessInv, MemoryInv, At, Alive, BeforeResume, Blocks
<1>6. ResultInv' /\ DropInv' /\ FormInv'
  BY <1>1, <1>2, <1>3 DEF IInv, ResultInv, DropInv, FormInv, At, BeforeResume, Blocks, Waiting, Dropping
<1> QED BY <1>4, <1>5, <1>6 DEF IInv

--------------------------------------------------------------------------------
(* Steps of Leeyes.                                                           *)

LEMMA BootstrapInv == ASSUME IInv, Bootstrap PROVE IInv'
<1>1. ASSUME NEW step \in {"bootstrap", "getProcAddress", "initialize", "entry"},
             NEW next \in {"getProcAddress", "initialize", "entry", "startup"},
             step = "entry" => next = "startup",
             leeyes.at = step, ~leeyes.suspended, leeyes' = [leeyes EXCEPT !.at = next],
             UNCHANGED <<arguments, injector, hdrop, memory, form, age>>
      PROVE  IInv'
  <2>1. /\ leeyes' \in LeeyesRecords /\ leeyes'.at = next /\ ~leeyes'.suspended
        /\ leeyes'.redirected = leeyes.redirected
    BY <1>1 DEF LeeyesRecords, IInv, TypeOK
  <2>2. TypeOK'
    BY <1>1, <2>1, LeeyesTypes DEF IInv, TypeOK, InjectorRecords
  <2>3. ProcessInv' /\ MemoryInv'
    BY <1>1, <2>1 DEF IInv, ProcessInv, MemoryInv, At, Alive, BeforeResume, Blocks
  <2>4. ResultInv' /\ DropInv' /\ FormInv'
    BY <1>1, <2>1 DEF IInv, ResultInv, DropInv, FormInv, At
  <2> QED BY <2>2, <2>3, <2>4 DEF IInv
<1> QED BY <1>1 DEF Bootstrap, BootstrapStep

FormRecords == [hwnd : Forms \union {NULL}, created : 0 .. MaxForms, visible : BOOLEAN, titled : BOOLEAN]

LEMMA FormTypes ==
  ASSUME TypeOK, form' \in FormRecords, leeyes' \in LeeyesRecords, age' \in 0 .. StableNeeded,
         UNCHANGED <<arguments, injector, hdrop, memory>>
  PROVE  TypeOK'
BY DEF TypeOK, FormRecords, LeeyesRecords

\* A form keeps its handle, or there is none, or it has one that was never given out.
LEMMA FormChanges ==
  ASSUME IInv, form' \in FormRecords,
         form'.created >= form.created, form'.hwnd <= form'.created,
         form'.hwnd = form.hwnd \/ form'.hwnd = NULL \/ form'.hwnd > form.created,
         age' = (IF form'.hwnd = form.hwnd THEN age ELSE 0),
         UNCHANGED <<arguments, injector, hdrop, memory, leeyes>>
  PROVE  IInv'
<1>1. TypeOK
  BY DEF IInv
<1>2. TypeOK'
  <2>1. age \in 0 .. StableNeeded /\ leeyes \in LeeyesRecords
    BY <1>1 DEF TypeOK, LeeyesRecords
  <2>2. age' \in 0 .. StableNeeded
    BY <2>1, LaunchAssumption
  <2> QED BY <1>1, <2>1, <2>2, FormTypes
<1>3. ProcessInv' /\ MemoryInv' /\ ResultInv' /\ DropInv'
  BY DEF IInv, ProcessInv, MemoryInv, ResultInv, DropInv, At, Alive
<1>4. form'.created \in Nat /\ form'.hwnd \in Nat
  BY <1>1, LaunchAssumption DEF FormRecords, Forms, NULL
<1>5. injector.hwnd <= form'.created /\ (form'.hwnd # NULL /\ form'.hwnd # form.hwnd => form'.hwnd # injector.hwnd)
  BY <1>1, <1>4, Numbers DEF IInv, FormInv
<1>6. FormInv'
  BY <1>1, <1>4, <1>5, Numbers DEF IInv, FormInv, At
<1> QED BY <1>2, <1>3, <1>6 DEF IInv

LEMMA FormsInv == ASSUME IInv, CreateForm \/ ShowOrHideForm \/ NameForm \/ DestroyForm PROVE IInv'
<1>1. TypeOK /\ form \in FormRecords /\ form.hwnd <= form.created
  BY DEF IInv, TypeOK, FormInv, FormRecords
<1>2. ASSUME NEW new \in FormRecords, FormChange(new), new.created >= form.created, new.hwnd <= new.created,
             new.hwnd = form.hwnd \/ new.hwnd = NULL \/ new.hwnd > form.created
      PROVE  IInv'
  BY <1>2, FormChanges DEF FormChange
<1>3. CASE CreateForm
  <2> DEFINE new == [NoForm(form.created + 1) EXCEPT !.hwnd = form.created + 1]
  <2>1. form.created + 1 \in Forms /\ form.created + 1 \in 0 .. MaxForms /\ form.created + 1 \in Nat /\ FormChange(new)
    BY <1>1, <1>3, Numbers, LaunchAssumption DEF CreateForm, Forms
  <2>2. new \in FormRecords /\ new.created = form.created + 1 /\ new.hwnd = form.created + 1
    BY <2>1 DEF NoForm, FormRecords
  <2> HIDE DEF new
  <2>3. new.created >= form.created /\ new.hwnd <= new.created /\ new.hwnd > form.created
    BY <1>1, <2>2, Numbers
  <2> QED BY <1>2, <2>1, <2>2, <2>3
<1>4. CASE ShowOrHideForm \/ NameForm
  <2>1. PICK new \in {[form EXCEPT !.visible = ~@], [form EXCEPT !.titled = TRUE]} : FormChange(new)
    BY <1>4 DEF ShowOrHideForm, NameForm
  <2>2. new \in FormRecords /\ new.created = form.created /\ new.hwnd = form.hwnd
    BY <1>1, <2>1 DEF FormRecords
  <2>3. new.created >= form.created /\ new.hwnd <= new.created
    BY <1>1, <2>2, Numbers
  <2> QED BY <1>2, <2>1, <2>2, <2>3
<1>5. CASE DestroyForm
  <2> DEFINE new == NoForm(form.created)
  <2>1. new \in FormRecords /\ new.created = form.created /\ new.hwnd = NULL /\ FormChange(new)
    BY <1>1, <1>5 DEF NoForm, DestroyForm, FormRecords, TypeOK
  <2> HIDE DEF new
  <2>2. new.created >= form.created /\ new.hwnd <= new.created
    BY <1>1, <2>1, Numbers DEF NULL
  <2> QED BY <1>2, <2>1, <2>2
<1> QED BY <1>3, <1>4, <1>5

LEMMA ExitInv == ASSUME IInv, Exit PROVE IInv'
<1>1. /\ Alive /\ leeyes' = [leeyes EXCEPT !.at = "exited"] /\ form' = NoForm(form.created) /\ age' = 0 /\ TypeOK
      /\ UNCHANGED <<arguments, injector, hdrop, memory>>
  BY DEF Exit, IInv
<1>2. /\ leeyes' \in LeeyesRecords /\ leeyes'.at = "exited" /\ leeyes'.suspended = leeyes.suspended
      /\ leeyes'.redirected = leeyes.redirected
  BY <1>1 DEF LeeyesRecords, TypeOK
<1>3. form'.hwnd = NULL /\ form'.created = form.created
  BY <1>1 DEF NoForm
<1>4. TypeOK'
  <2>1. form.created \in 0 .. MaxForms
    BY <1>1 DEF TypeOK
  <2>2. form' \in FormRecords
    BY <1>1, <2>1 DEF NoForm, FormRecords
  <2>3. age' \in 0 .. StableNeeded
    BY <1>1, LaunchAssumption
  <2> QED BY <1>1, <1>2, <2>2, <2>3, FormTypes
<1>5. ProcessInv' /\ MemoryInv'
  BY <1>1, <1>2 DEF IInv, ProcessInv, MemoryInv, At, Alive
<1>6. ResultInv' /\ DropInv'
  BY <1>1, <1>2 DEF IInv, ResultInv, DropInv, At, Alive
<1>7. FormInv'
  BY <1>1, <1>3, Numbers DEF IInv, FormInv, At, NULL
<1> QED BY <1>4, <1>5, <1>6, <1>7 DEF IInv

--------------------------------------------------------------------------------
(* The invariant.                                                             *)

LEMMA InitInv == Init => IInv
<1> SUFFICES ASSUME Init PROVE IInv
  OBVIOUS
<1>1. TypeOK
  BY LaunchAssumption DEF Init, TypeOK, NoForm, InjectorSteps
<1>2. ProcessInv /\ MemoryInv /\ ResultInv /\ DropInv
  BY DEF Init, ProcessInv, MemoryInv, ResultInv, DropInv, At, Alive, BeforeResume, Blocks, Waiting, Dropping
<1>3. FormInv
  BY DEF Init, FormInv, NoForm, NULL, At, Dropping
<1> QED BY <1>1, <1>2, <1>3 DEF IInv

LEMMA NextInv == IInv /\ [Next]_vars => IInv'
<1> SUFFICES ASSUME IInv, [Next]_vars PROVE IInv'
  OBVIOUS
<1>1. CASE Injector
  BY <1>1, CreateProcessInv, PrepareInv, WriteMemoryInv, SetThreadContextInv, ResumeThreadInv, WaitForInputIdleInv, FindFormInv,
     StabilityCheckInv, StableInv, DropInvs, SuccessInv, CatchInv DEF Injector
<1>2. CASE Bootstrap \/ Exit
  BY <1>2, BootstrapInv, ExitInv
<1>3. CASE CreateForm \/ ShowOrHideForm \/ NameForm \/ DestroyForm
  BY <1>3, FormsInv
<1>4. CASE UNCHANGED vars
  <2>1. UNCHANGED <<arguments, injector, hdrop, memory, leeyes, form, age>>
    BY <1>4 DEF vars
  <2>2. TypeOK'
    <3>1. TypeOK /\ leeyes \in LeeyesRecords /\ form \in FormRecords /\ age \in 0 .. StableNeeded
      BY DEF IInv, TypeOK, LeeyesRecords, FormRecords
    <3> QED BY <2>1, <3>1, FormTypes
  <2>3. ProcessInv' /\ MemoryInv' /\ ResultInv' /\ DropInv'
    BY <2>1 DEF IInv, ProcessInv, MemoryInv, ResultInv, DropInv, At, Alive
  <2>4. FormInv'
    BY <2>1 DEF IInv, FormInv, At
  <2> QED BY <2>2, <2>3, <2>4 DEF IInv
<1> QED BY <1>1, <1>2, <1>3, <1>4 DEF Next

LEMMA Inductive == Spec => []IInv
BY InitInv, NextInv, PTL DEF Spec

--------------------------------------------------------------------------------
(* Theorems.                                                                  *)

\* The counters of the injector's loops stay within their limits, and the rest has its type
\* (main.cpp).
THEOREM TypeCorrect == Spec => []TypeOK
<1>1. IInv => TypeOK
  BY DEF IInv
<1> QED BY <1>1, Inductive, PTL

\* Whatever step of the injection fails, the primary thread of Leeyes has been resumed when
\* the injector ends.
THEOREM NeverLeftSuspendedCorrect == Spec => []NeverLeftSuspended
<1>1. IInv => NeverLeftSuspended
  BY DEF IInv, ProcessInv, NeverLeftSuspended, At, BeforeResume, Blocks
<1> QED BY <1>1, Inductive, PTL

\* The bootstrap is entered only when it and the names it uses are whole in memory.
THEOREM BootstrapWholeCorrect == Spec => []BootstrapWhole
<1>1. IInv => BootstrapWhole
  BY DEF IInv, MemoryInv, BootstrapWhole
<1> QED BY <1>1, Inductive, PTL

\* Leeyes runs without the bootstrap only after an error was shown, and the HDROP belongs to
\* Leeyes exactly when success is reported.
THEOREM OutcomeTruthfulCorrect == Spec => []OutcomeTruthful
<1>1. IInv => OutcomeTruthful
  <2> SUFFICES ASSUME IInv PROVE OutcomeTruthful
    OBVIOUS
  <2>1. leeyes.at \in {"entry", "startup"} /\ ~leeyes.suspended /\ ~leeyes.redirected => injector.result = "error"
    <3> SUFFICES ASSUME leeyes.at \in {"entry", "startup"}, ~leeyes.suspended, ~leeyes.redirected
                 PROVE  injector.result = "error"
      OBVIOUS
    <3>1. Alive /\ injector.at \notin BeforeResume /\ ~At("catch") /\ ~At("CreateProcess")
      BY DEF IInv, ProcessInv, Alive
    <3>2. injector.at = "done"
      BY <3>1 DEF IInv, TypeOK, ResultInv, At, InjectorSteps, BeforeResume, Waiting, Dropping
    <3> QED BY <3>2 DEF IInv, TypeOK, ResultInv, At
  <2>2. At("done") => hdrop # "held" /\ (hdrop = "posted" <=> injector.result = "injected" /\ arguments.option)
    BY DEF IInv, DropInv, At
  <2> QED BY <2>1, <2>2 DEF OutcomeTruthful
<1> QED BY <1>1, Inductive, PTL

\* However often the form is recreated between the checks, the file is posted to one that has
\* lived through StableNeeded of them (main.cpp, the stability loop).
THEOREM StableDropCorrect == Spec => StableDrop
<1>1. IInv /\ [Next]_vars => [hdrop' = "posted" /\ hdrop # "posted" => form.hwnd = injector.hwnd /\ age >= StableNeeded]_vars
  <2> SUFFICES ASSUME IInv, [Next]_vars, hdrop' = "posted", hdrop # "posted"
               PROVE  form.hwnd = injector.hwnd /\ age >= StableNeeded
    OBVIOUS
  <2>1. PostDrop
    BY DEF vars, Next, Injector, CreateProcess, Prepare, Attempt, WriteMemory, WriteBlock, SetThreadContext, ResumeThread,
           WaitForInputIdle, FindForm, StabilityCheck, Stable, AllocateDrop, FillDrop, Success, Catch, Bootstrap,
           BootstrapStep, CreateForm, ShowOrHideForm, NameForm, DestroyForm, FormChange, Exit
  <2>2. At("post") /\ form.hwnd = injector.hwnd
    BY <2>1 DEF PostDrop
  <2> QED BY <2>2 DEF IInv, FormInv, At, Dropping
<1> QED BY <1>1, Inductive, PTL DEF Spec, StableDrop
================================================================================
