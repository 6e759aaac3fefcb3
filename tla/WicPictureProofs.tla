--------------------------- MODULE WicPictureProofs ----------------------------
(***************************************************************************)
(* Proofs about WicPicture, for any number of calls and of threads of the  *)
(* runtime: whose the memory of a picture is, and which way up it is.      *)
(***************************************************************************)
EXTENDS WicPicture, TLAPS

Turned(a) ==
  a.turned => a.placed = [p \in Corners |-> Rotated(a.orientation, Turns(a.orientation), p)]

\* What an agent has got at each of its steps, and what it leaves when it ends.
Progress(a) ==
  /\ a.at \notin {"allocBm", "lock", "write", "finish", "done"} => a.HBInfo = "none" /\ a.HBm = "none"
  /\ a.at = "allocBm" => a.HBInfo = "allocated" /\ a.HBm = "none"
  /\ a.at \in {"lock", "write", "finish"} => a.HBInfo = "allocated" /\ a.HBm = "allocated"
  /\ a.at # "done" => ~a.handed /\ a.failed = "none" /\ a.m_ret = SPI_ALL_RIGHT
  /\ a.at = "finish" => Turned(a)
  /\ a.at = "done" /\ a.handed =>
       a.m_ret = SPI_ALL_RIGHT /\ a.HBInfo = "allocated" /\ a.HBm = "allocated" /\ Turned(a)
  /\ a.at = "done" /\ ~a.handed =>
       /\ a.HBInfo = "allocated" \/ a.HBm = "allocated" => a.failed \in {"write", "stopped"}
       /\ a.m_ret = SPI_ALL_RIGHT => a.failed \in {"register", "write"}

\* A call returns with what its agent handed over when it ended, or before it was started.
Link(k, a) ==
  /\ k.at \in {"idle", "starting"} => a.at = "none"
  /\ k.at # "returned" => ~k.pHBInfo /\ ~k.pHBm
  /\ k.at = "returned" =>
       /\ a.at \in {"none", "done"} /\ k.pHBInfo = a.handed /\ k.pHBm = a.handed
       /\ k.ret = IF a.at = "done" THEN a.m_ret ELSE SPI_ABORT

Owned == \A c \in Callers : Progress(agent[c]) /\ Link(call[c], agent[c])

IInv == TypeOK /\ Owned

--------------------------------------------------------------------------------
(* The agent.                                                                 *)

\* The corners of a picture, turned in any way the code knows and by whichever of the flip
\* rotators could be made, are its corners.
LEMMA RotatedCorners ==
  ASSUME NEW rotate \in 0 .. 8, NEW made, NEW p \in Corners
  PROVE  Rotated(rotate, made, p) \in Corners
<1>1. p = <<p[1], p[2]>> /\ p[1] \in {0, 1} /\ p[2] \in {0, 1}
  BY DEF Corners
<1>2. \A x, y \in {0, 1} : <<x, y>> \in Corners /\ 1 - x \in {0, 1}
  BY DEF Corners
<1>3. \A q \in Corners : q = <<q[1], q[2]>> /\ q[1] \in {0, 1} /\ q[2] \in {0, 1}
  BY DEF Corners
<1>4. ASSUME NEW q \in Corners PROVE FirstTurn(rotate, q) \in Corners /\ SecondTurn(rotate, q) \in Corners
  BY <1>2, <1>3 DEF FirstTurn, SecondTurn, Rotate0, Rotate90, Rotate180, Rotate270, FlipHorizontal, FlipVertical
<1> QED BY <1>4 DEF Rotated

\* A step of an agent: what it may change is its own record, and the threads.
Moves(c) ==
  /\ agent[c].at \notin {"none", "done"} /\ UNCHANGED call
  /\ \E a \in Agents : Progress(a) /\ agent' = [agent EXCEPT ![c] = a]
  /\ worker' \in [Workers -> [runs : Callers \union {Null}, suspended : BOOLEAN]]
  /\ process' \in {"running", "ended", "crashed", "undefined"}

LEMMA GoesOn ==
  ASSUME IInv, NEW c \in Callers, NEW a \in Agents, Progress(a), agent[c].at \notin {"none", "done"},
         agent' = [agent EXCEPT ![c] = a], UNCHANGED <<call, worker>>, process' \in {process, "crashed"}
  PROVE  Moves(c)
BY DEF Moves, IInv, TypeOK

LEMMA Ends ==
  ASSUME IInv, NEW c \in Callers, NEW a \in Agents, Progress([a EXCEPT !.at = "done"]),
         agent[c].at \notin {"none", "done"}, DoneWith(c, a), UNCHANGED <<call, process>>
  PROVE  Moves(c)
<1>1. [a EXCEPT !.at = "done"] \in Agents
  BY DEF Agents, AgentSteps
<1>2. worker' \in [Workers -> [runs : Callers \union {Null}, suspended : BOOLEAN]]
  BY DEF IInv, TypeOK, DoneWith
<1> QED BY <1>1, <1>2 DEF Moves, DoneWith, IInv, TypeOK

LEMMA Returns == {SPI_ALL_RIGHT, SPI_ABORT, SPI_NO_MEMORY, SPI_MEMORY_ERROR, SPI_FILE_READ_ERROR} \subseteq 0 .. 9
                 /\ SPI_ALL_RIGHT \notin {SPI_ABORT, SPI_NO_MEMORY, SPI_MEMORY_ERROR, SPI_FILE_READ_ERROR}
BY DEF SPI_ALL_RIGHT, SPI_ABORT, SPI_NO_MEMORY, SPI_MEMORY_ERROR, SPI_FILE_READ_ERROR

\* A failing return that leaves no memory, or says why.
LEMMA FailedDone ==
  ASSUME NEW a \in Agents, a.at = "done", ~a.handed, a.m_ret # SPI_ALL_RIGHT,
         (a.HBInfo # "allocated" /\ a.HBm # "allocated") \/ a.failed = "stopped"
  PROVE  Progress(a)
BY DEF Progress

LEMMA AgentMoves == ASSUME IInv, NEW c \in Callers, Agent(c) PROVE Moves(c)
<1> DEFINE a == agent[c]
<1>0. /\ a \in Agents /\ Progress(a) /\ agent \in [Callers -> Agents]
      /\ worker \in [Workers -> [runs : Callers \union {Null}, suspended : BOOLEAN]]
      /\ process \in {"running", "ended", "crashed", "undefined"}
  BY DEF IInv, TypeOK, Owned
<1>1. CASE Begin(c)
  <2>1. PICK w \in Workers : worker' = [worker EXCEPT ![w].runs = c]
                             /\ agent' = [agent EXCEPT ![c].at = "open", ![c].m_thread = w]
    BY <1>1 DEF Begin
  <2>2. agent' = [agent EXCEPT ![c] = [a EXCEPT !.at = "open", !.m_thread = w]]
    BY <1>0, <2>1 DEF Agents
  <2>3. [a EXCEPT !.at = "open", !.m_thread = w] \in Agents
    BY <1>0, <2>1 DEF Agents, AgentSteps
  <2>4. Progress([a EXCEPT !.at = "open", !.m_thread = w]) /\ a.at = "scheduled"
    BY <1>0, <1>1 DEF Progress, Agents, Begin
  <2>5. worker' \in [Workers -> [runs : Callers \union {Null}, suspended : BOOLEAN]]
    BY <1>0, <2>1
  <2> QED BY <1>0, <1>1, <2>2, <2>3, <2>4, <2>5 DEF Moves, Begin
\* A step that keeps the threads, and changes the record to one that is in order.
<1>g. ASSUME NEW b \in Agents, Progress(b), a.at \notin {"none", "done"}, agent' = [agent EXCEPT ![c] = b],
             UNCHANGED <<call, worker>>, process' \in {process, "crashed"}
      PROVE  Moves(c)
  BY <1>g, GoesOn
<1>e. ASSUME NEW b \in Agents, Progress([b EXCEPT !.at = "done"]), a.at \notin {"none", "done"},
             DoneWith(c, b), UNCHANGED <<call, process>>
      PROVE  Moves(c)
  BY <1>e, Ends
<1>h. ASSUME NEW step \in AgentSteps, AgentGoes(c, step), UNCHANGED call, process' \in {process, "crashed"},
             a.at \notin {"none", "done"}, Progress([a EXCEPT !.at = step])
      PROVE  Moves(c)
  <2>1. [a EXCEPT !.at = step] \in Agents
    BY <1>0, <1>h DEF Agents
  <2>2. agent' = [agent EXCEPT ![c] = [a EXCEPT !.at = step]] /\ UNCHANGED worker
    BY <1>0, <1>h DEF AgentGoes, Agents
  <2> QED BY <1>g, <1>h, <2>1, <2>2
\* A failing return before anything is allocated, or after what was allocated is freed.
<1>d. ASSUME NEW ret \in 1 .. 9, Done(c, ret), UNCHANGED <<call, process>>, a.at \in {"open", "convert"}
      PROVE  Moves(c)
  <2>1. [a EXCEPT !.m_ret = ret] \in Agents
    BY <1>0, <1>d DEF Agents
  <2>2. Progress([[a EXCEPT !.m_ret = ret] EXCEPT !.at = "done"])
    BY <1>0, <1>d DEF Progress, Agents, SPI_ALL_RIGHT
  <2> QED BY <1>d, <1>e, <2>1, <2>2 DEF Done
<1>2. CASE Open(c)
  <2>1. a.at = "open"
    BY <1>2 DEF Open, Running
  <2>2. Progress([a EXCEPT !.at = "register"])
    BY <1>0, <2>1 DEF Progress, Agents
  <2> QED BY <1>2, <1>d, <1>h, <2>1, <2>2 DEF Open, AgentSteps, SPI_FILE_READ_ERROR
<1>3. CASE RegisterProgressNotification(c)
  <2>1. a.at = "register"
    BY <1>3 DEF RegisterProgressNotification, Running
  <2>2. Progress([a EXCEPT !.at = "decode"]) /\ [a EXCEPT !.failed = "register"] \in Agents
        /\ Progress([[a EXCEPT !.failed = "register"] EXCEPT !.at = "done"])
    BY <1>0, <2>1 DEF Progress, Agents
  <2> QED BY <1>3, <1>e, <1>h, <2>1, <2>2 DEF RegisterProgressNotification, AgentSteps
<1>4. CASE Decode(c)
  <2>1. a.at = "decode"
    BY <1>4 DEF Decode, Running
  <2>2. PICK found \in BOOLEAN : agent' = [agent EXCEPT ![c].at = "profile", ![c].frame = found]
    BY <1>4 DEF Decode
  <2>3. agent' = [agent EXCEPT ![c] = [a EXCEPT !.at = "profile", !.frame = found]]
    BY <1>0, <2>2 DEF Agents
  <2>4. [a EXCEPT !.at = "profile", !.frame = found] \in Agents /\ Progress([a EXCEPT !.at = "profile", !.frame = found])
    BY <1>0, <2>1 DEF Progress, Agents, AgentSteps
  <2> QED BY <1>4, <1>g, <2>1, <2>3, <2>4 DEF Decode
<1>5. CASE loadColorProfile(c)
  <2>1. a.at = "profile"
    BY <1>5 DEF loadColorProfile, Running
  <2>2. Progress([a EXCEPT !.at = "transform"])
    BY <1>0, <2>1 DEF Progress, Agents
  <2>3. agent = [agent EXCEPT ![c] = a]
    BY <1>0
  <2>4. CASE process' = "crashed" /\ UNCHANGED <<agent, worker>>
    BY <1>0, <1>5, <1>g, <2>1, <2>3, <2>4 DEF loadColorProfile
  <2>5. CASE AgentGoes(c, "transform") /\ UNCHANGED process
    BY <1>5, <1>h, <2>1, <2>2, <2>5 DEF loadColorProfile, AgentSteps
  <2> QED BY <1>5, <2>4, <2>5 DEF loadColorProfile
<1>6. CASE Transform(c) \/ convert(c)
  <2>1. a.at \in {"transform", "convert"}
    BY <1>6 DEF Transform, convert, Running
  <2>2. Progress([a EXCEPT !.at = "allocInfo"]) /\ Progress([a EXCEPT !.at = "convert"])
    BY <1>0, <2>1 DEF Progress, Agents
  <2>3. CASE Transform(c)
    BY <1>h, <2>1, <2>2, <2>3 DEF Transform, AgentSteps
  <2>4. CASE convert(c)
    <3>1. a.at = "convert"
      BY <2>4 DEF convert, Running
    <3> QED BY <1>d, <1>h, <2>2, <2>4, <3>1 DEF convert, AgentSteps, SPI_ABORT
  <2> QED BY <1>6, <2>3, <2>4
<1>7. CASE AllocateInfo(c)
  <2>1. a.at = "allocInfo"
    BY <1>7 DEF AllocateInfo, Running
  <2>2. CASE Done(c, SPI_NO_MEMORY)
    <3> DEFINE b == [a EXCEPT !.m_ret = SPI_NO_MEMORY]
    <3>a. b \in Agents /\ [b EXCEPT !.at = "done"] \in Agents
      BY <1>0, Returns DEF Agents, AgentSteps
    <3>b. a.HBInfo = "none" /\ a.HBm = "none" /\ ~a.handed
      BY <1>0, <2>1 DEF Progress
    <3>1. Progress([b EXCEPT !.at = "done"])
      BY <1>0, <3>a, <3>b, Returns, FailedDone DEF Agents
    <3> QED BY <3>a, <1>7, <1>e, <2>1, <2>2, <3>1 DEF AllocateInfo, Done
  <2>3. CASE agent' = [agent EXCEPT ![c].HBInfo = "allocated", ![c].at = "allocBm"] /\ UNCHANGED worker
    <3>1. agent' = [agent EXCEPT ![c] = [a EXCEPT !.HBInfo = "allocated", !.at = "allocBm"]]
      BY <1>0, <2>3 DEF Agents
    <3>2. [a EXCEPT !.HBInfo = "allocated", !.at = "allocBm"] \in Agents
          /\ Progress([a EXCEPT !.HBInfo = "allocated", !.at = "allocBm"])
      BY <1>0, <2>1 DEF Progress, Agents, AgentSteps, Memory
    <3> QED BY <1>7, <1>g, <2>1, <2>3, <3>1, <3>2 DEF AllocateInfo
  <2> QED BY <1>7, <2>2, <2>3 DEF AllocateInfo
<1>8. CASE AllocateBitmap(c)
  <2>1. a.at = "allocBm"
    BY <1>8 DEF AllocateBitmap, Running
  <2> DEFINE b == [a EXCEPT !.HBInfo = "freed", !.m_ret = SPI_NO_MEMORY]
  <2>2. CASE DoneWith(c, b)
    <3>a. b \in Agents /\ [b EXCEPT !.at = "done"] \in Agents
      BY <1>0, Returns DEF Agents, AgentSteps, Memory
    <3>b. a.HBm = "none" /\ ~a.handed
      BY <1>0, <2>1 DEF Progress
    <3>1. Progress([b EXCEPT !.at = "done"])
      BY <1>0, <3>a, <3>b, Returns, FailedDone DEF Agents
    <3> QED BY <3>a, <1>8, <1>e, <2>1, <2>2, <3>1 DEF AllocateBitmap
  <2>3. CASE agent' = [agent EXCEPT ![c].HBm = "allocated", ![c].at = "lock"] /\ UNCHANGED worker
    <3>1. agent' = [agent EXCEPT ![c] = [a EXCEPT !.HBm = "allocated", !.at = "lock"]]
      BY <1>0, <2>3 DEF Agents
    <3>2. [a EXCEPT !.HBm = "allocated", !.at = "lock"] \in Agents
          /\ Progress([a EXCEPT !.HBm = "allocated", !.at = "lock"])
      BY <1>0, <2>1 DEF Progress, Agents, AgentSteps, Memory
    <3> QED BY <1>8, <1>g, <2>1, <2>3, <3>1, <3>2 DEF AllocateBitmap
  <2> QED BY <1>8, <2>2, <2>3 DEF AllocateBitmap
<1>9. CASE LockBoth(c)
  <2>1. a.at = "lock"
    BY <1>9 DEF LockBoth, Running
  <2> DEFINE b == [a EXCEPT !.HBInfo = "freed", !.HBm = "freed", !.m_ret = SPI_MEMORY_ERROR]
  <2>a. b \in Agents /\ [b EXCEPT !.at = "done"] \in Agents
    BY <1>0, Returns DEF Agents, AgentSteps, Memory
  <2>b. ~a.handed
    BY <1>0, <2>1 DEF Progress
  <2>2. Progress([b EXCEPT !.at = "done"])
    BY <1>0, <2>a, <2>b, Returns, FailedDone DEF Agents
  <2>3. Progress([a EXCEPT !.at = "write"])
    BY <1>0, <2>1 DEF Progress, Agents
  <2> QED BY <2>a, <1>9, <1>e, <1>h, <2>1, <2>2, <2>3 DEF LockBoth, AgentSteps
<1>10. CASE WriteToBuffer(c)
  <2>1. a.at = "write"
    BY <1>10 DEF WriteToBuffer, Running
  <2>2. CASE DoneWith(c, [a EXCEPT !.failed = "write"]) /\ UNCHANGED process
    <3>1. [a EXCEPT !.failed = "write"] \in Agents /\ Progress([[a EXCEPT !.failed = "write"] EXCEPT !.at = "done"])
      BY <1>0, <2>1 DEF Progress, Agents
    <3> QED BY <1>10, <1>e, <2>1, <2>2, <3>1 DEF WriteToBuffer
  <2>3. ASSUME NEW orientation \in Orientations, NEW rotate \in {0, orientation}, NEW made \in SUBSET Turns(rotate),
               agent' = [agent EXCEPT ![c] = Copied(a, orientation, rotate, made)], UNCHANGED <<worker, process>>
        PROVE  Moves(c)
    <3> DEFINE placed == [p \in Corners |-> Rotated(rotate, made, p)]
               turned == rotate = orientation /\ made = Turns(rotate)
               b == Copied(a, orientation, rotate, made)
    <3>1. rotate \in 0 .. 8 /\ orientation \in 0 .. 8 /\ placed \in [Corners -> Corners]
      BY RotatedCorners, PictureAssumption
    <3>2. turned \in BOOLEAN /\ (turned => placed = [p \in Corners |-> Rotated(orientation, Turns(orientation), p)])
      OBVIOUS
    <3>3. b = [a EXCEPT !.at = "finish", !.orientation = orientation, !.turned = turned, !.placed = placed]
      BY DEF Copied
    <3> HIDE DEF placed, turned, b
    <3>4. b \in Agents
      BY <1>0, <3>1, <3>2, <3>3 DEF Agents, AgentSteps
    <3>5. b.at = "finish" /\ b.placed = placed /\ b.orientation = orientation /\ b.turned = turned
          /\ b.HBInfo = a.HBInfo /\ b.HBm = a.HBm
          /\ b.handed = a.handed /\ b.failed = a.failed /\ b.m_ret = a.m_ret
      BY <1>0, <3>3 DEF Agents
    <3>6. Turned(b)
      BY <3>2, <3>5 DEF Turned
    <3>7. Progress(b)
      BY <1>0, <2>1, <3>5, <3>6 DEF Progress
    <3>8. agent' = [agent EXCEPT ![c] = b]
      BY <2>3 DEF b
    <3> QED BY <1>10, <1>g, <2>1, <2>3, <3>4, <3>7, <3>8 DEF WriteToBuffer
  <2>4. CASE process' = "crashed" /\ UNCHANGED <<agent, worker>>
    <3>1. agent = [agent EXCEPT ![c] = a]
      BY <1>0
    <3> QED BY <1>0, <1>10, <1>g, <2>1, <2>4, <3>1 DEF WriteToBuffer
  <2> QED BY <1>10, <2>2, <2>3, <2>4 DEF WriteToBuffer
<1>11. CASE Finish(c)
  <2>1. a.at = "finish"
    BY <1>11 DEF Finish, Running
  <2> DEFINE b == [a EXCEPT !.m_ret = SPI_ABORT, !.failed = "stopped"]
             d == [a EXCEPT !.handed = TRUE, !.m_ret = SPI_ALL_RIGHT]
  <2>a. b \in Agents /\ [b EXCEPT !.at = "done"] \in Agents
    BY <1>0, Returns DEF Agents, AgentSteps
  <2>b. ~a.handed
    BY <1>0, <2>1 DEF Progress
  <2>2. Progress([b EXCEPT !.at = "done"])
    BY <1>0, <2>a, <2>b, Returns, FailedDone DEF Agents
  <2>3. d \in Agents /\ Progress([d EXCEPT !.at = "done"])
    <3>1. d \in Agents /\ [d EXCEPT !.at = "done"].at = "done"
      BY <1>0, Returns DEF Agents, AgentSteps
    <3>2. Turned(a) /\ a.HBInfo = "allocated" /\ a.HBm = "allocated"
      BY <1>0, <2>1 DEF Progress
    <3>3. Turned([d EXCEPT !.at = "done"])
      BY <1>0, <3>2 DEF Turned, Agents
    <3> QED BY <1>0, <3>1, <3>2, <3>3 DEF Progress, Agents
  <2> QED BY <2>a, <1>11, <1>e, <2>1, <2>2, <2>3 DEF Finish
<1> QED BY <1>1, <1>2, <1>3, <1>4, <1>5, <1>6, <1>7, <1>8, <1>9, <1>10, <1>11 DEF Agent

LEMMA MovesInv == ASSUME IInv, NEW c \in Callers, Moves(c) PROVE IInv'
<1>1. PICK a \in Agents : Progress(a) /\ agent' = [agent EXCEPT ![c] = a]
  BY DEF Moves
<1>2. TypeOK'
  BY <1>1 DEF Moves, IInv, TypeOK
<1>3. ASSUME NEW d \in Callers PROVE Progress(agent'[d]) /\ Link(call'[d], agent'[d])
  <2>1. Progress(agent[d]) /\ Link(call[d], agent[d]) /\ call' = call
    BY DEF IInv, Owned, Moves
  <2>2. CASE d = c
    BY <1>1, <2>1, <2>2 DEF Moves, IInv, TypeOK, Link
  <2>3. CASE d # c
    BY <1>1, <2>1, <2>3 DEF IInv, TypeOK
  <2> QED BY <2>2, <2>3
<1> QED BY <1>2, <1>3 DEF IInv, Owned

--------------------------------------------------------------------------------
(* GetPicture.                                                                *)

Calls == [at : CallSteps, ret : 0 .. 9, pHBInfo : BOOLEAN, pHBm : BOOLEAN]

\* A step of a call: the records of the call and of its agent stay in accord.
LEMMA CallKept ==
  ASSUME IInv, NEW c \in Callers, NEW k \in Calls, NEW a \in Agents, Progress(a), Link(k, a),
         call' = [call EXCEPT ![c] = k], agent' = [agent EXCEPT ![c] = a],
         worker' \in [Workers -> [runs : Callers \union {Null}, suspended : BOOLEAN]],
         process' \in {"running", "ended", "crashed", "undefined"}
  PROVE  IInv'
<1>1. TypeOK'
  BY DEF IInv, TypeOK, Calls
<1>2. ASSUME NEW d \in Callers PROVE Progress(agent'[d]) /\ Link(call'[d], agent'[d])
  <2>1. Progress(agent[d]) /\ Link(call[d], agent[d])
    BY DEF IInv, Owned
  <2>2. agent'[d] = (IF d = c THEN a ELSE agent[d]) /\ call'[d] = (IF d = c THEN k ELSE call[d])
    BY DEF IInv, TypeOK
  <2> QED BY <2>1, <2>2
<1> QED BY <1>1, <1>2 DEF IInv, Owned

LEMMA NoAgentFacts == NoAgent \in Agents /\ Progress(NoAgent) /\ NoCall \in Calls /\ Link(NoCall, NoAgent)
<1>1. NoAgent \in Agents
  BY DEF NoAgent, Agents, AgentSteps, Memory, SPI_ALL_RIGHT
<1>2. NoCall \in Calls
  BY DEF NoCall, Calls, CallSteps, SPI_ALL_RIGHT
<1> QED BY <1>1, <1>2 DEF NoAgent, NoCall, Progress, Link

LEMMA CallMoves ==
  ASSUME IInv, NEW c \in Callers, GetPicture(c) \/ Proceed(c) \/ Return(c)
  PROVE  IInv'
<1> DEFINE k == call[c]
           a == agent[c]
<1>1. /\ k \in Calls /\ a \in Agents /\ Progress(a) /\ Link(k, a)
      /\ call \in [Callers -> Calls] /\ agent \in [Callers -> Agents]
      /\ worker \in [Workers -> [runs : Callers \union {Null}, suspended : BOOLEAN]]
      /\ process \in {"running", "ended", "crashed", "undefined"}
  BY DEF IInv, TypeOK, Owned, Calls
<1>2. agent = [agent EXCEPT ![c] = a]
  BY <1>1
<1>s. ASSUME NEW step \in CallSteps \ {"idle", "starting", "returned"}, k.at # "returned",
             call' = [call EXCEPT ![c].at = step], UNCHANGED agent,
             worker' \in [Workers -> [runs : Callers \union {Null}, suspended : BOOLEAN]],
             process' \in {"running", "ended", "crashed", "undefined"}
      PROVE  IInv'
  <2>1. call' = [call EXCEPT ![c] = [k EXCEPT !.at = step]] /\ [k EXCEPT !.at = step] \in Calls
    BY <1>1, <1>s DEF Calls
  <2>2. Link([k EXCEPT !.at = step], a)
    BY <1>1, <1>s DEF Link, Calls
  <2> QED BY <1>1, <1>2, <1>s, <2>1, <2>2, CallKept
<1>3. CASE GetPicture(c)
  <2>1. call' = [call EXCEPT ![c] = [k EXCEPT !.at = "starting"]] /\ [k EXCEPT !.at = "starting"] \in Calls
    BY <1>1, <1>3 DEF Calls, CallSteps, GetPicture
  <2>2. Link([k EXCEPT !.at = "starting"], a)
    BY <1>1, <1>3 DEF Link, Calls, GetPicture
  <2> QED BY <1>1, <1>2, <1>3, <2>1, <2>2, CallKept DEF GetPicture
<1>4. CASE Start(c)
  <2>1. a.at = "none" /\ ~a.handed /\ ~k.pHBInfo /\ ~k.pHBm /\ k.at = "starting"
    BY <1>1, <1>4 DEF Start, Link, Progress
  <2>2. CASE call' = [call EXCEPT ![c].at = "returned", ![c].ret = SPI_ABORT] /\ UNCHANGED agent
    <3> DEFINE r == [k EXCEPT !.at = "returned", !.ret = SPI_ABORT]
    <3>1. call' = [call EXCEPT ![c] = r]
      BY <1>1, <2>2 DEF Calls
    <3>2. r \in Calls
      BY <1>1, Returns DEF Calls, CallSteps
    <3>3. r.at = "returned" /\ r.ret = SPI_ABORT /\ r.pHBInfo = k.pHBInfo /\ r.pHBm = k.pHBm
      BY <1>1 DEF Calls
    <3>4. a.handed = FALSE /\ k.pHBInfo = FALSE /\ k.pHBm = FALSE
      BY <1>1, <2>1 DEF Calls, Agents
    <3> HIDE DEF r
    <3>5. Link(r, a)
      BY <2>1, <3>3, <3>4 DEF Link
    <3> QED BY <1>1, <1>2, <1>4, <2>2, <3>1, <3>2, <3>5, CallKept DEF Start
  <2>3. CASE call' = [call EXCEPT ![c].at = "waiting"] /\ agent' = [agent EXCEPT ![c].at = "scheduled"]
    <3> DEFINE r == [k EXCEPT !.at = "waiting"]
               b == [a EXCEPT !.at = "scheduled"]
    <3>1. call' = [call EXCEPT ![c] = r] /\ agent' = [agent EXCEPT ![c] = b] /\ r \in Calls /\ b \in Agents
      BY <1>1, <2>3 DEF Calls, CallSteps, Agents, AgentSteps
    <3>2. Progress(b)
      BY <1>1, <2>1 DEF Progress, Agents
    <3>3. Link(r, b)
      BY <1>1, <2>1 DEF Link, Calls
    <3> QED BY <1>1, <1>4, <3>1, <3>2, <3>3, CallKept DEF Start
  <2> QED BY <1>4, <2>2, <2>3 DEF Start
<1>5. CASE Wait(c)
  <2>1. k.at = "waiting"
    BY <1>5 DEF Wait
  <2>2. CASE a.at = "done"
    <3> DEFINE r == [at |-> "returned", ret |-> a.m_ret, pHBInfo |-> a.handed, pHBm |-> a.handed]
    <3>1. call' = [call EXCEPT ![c] = r]
      BY <1>5, <2>2 DEF Wait
    <3>2. r \in Calls /\ Link(r, a)
      BY <1>1, <2>2 DEF Calls, CallSteps, Agents, Link
    <3> QED BY <1>1, <1>2, <1>5, <3>1, <3>2, CallKept DEF Wait
  <2>3. CASE a.at # "done"
    BY <1>1, <1>5, <1>s, <2>1, <2>3 DEF Wait, CallSteps
  <2> QED BY <2>2, <2>3
<1>6. CASE Suspend(c)
  <2>1. worker' \in [Workers -> [runs : Callers \union {Null}, suspended : BOOLEAN]]
    BY <1>1, <1>6 DEF Suspend
  <2> QED BY <1>1, <1>6, <1>s, <2>1 DEF Suspend, CallSteps
<1>7. CASE Message(c)
  <2>1. CASE process' = "ended" /\ UNCHANGED call
    <3>1. call = [call EXCEPT ![c] = k]
      BY <1>1
    <3> QED BY <1>1, <1>2, <1>7, <2>1, <3>1, CallKept DEF Message
  <2>2. CASE call' = [call EXCEPT ![c].at = "thrown"] /\ process' \in {process, "undefined"}
    <3>1. process' \in {"running", "ended", "crashed", "undefined"}
      BY <1>1, <2>2
    <3> QED BY <1>1, <1>7, <1>s, <2>2, <3>1 DEF Message, CallSteps
  <2> QED BY <1>7, <2>1, <2>2 DEF Message
<1>8. CASE Return(c)
  BY <1>1, <1>8, NoAgentFacts, CallKept DEF Return
<1> QED BY <1>3, <1>4, <1>5, <1>6, <1>7, <1>8 DEF Proceed

--------------------------------------------------------------------------------
(* The theorems.                                                              *)

LEMMA InitInv == Init => IInv
<1> SUFFICES ASSUME Init PROVE IInv
  OBVIOUS
<1>1. TypeOK
  BY NoAgentFacts DEF Init, TypeOK, Calls
<1>2. Owned
  BY NoAgentFacts DEF Init, Owned
<1> QED BY <1>1, <1>2 DEF IInv

LEMMA NextInv == IInv /\ [Next]_vars => IInv'
<1> SUFFICES ASSUME IInv, [Next]_vars PROVE IInv'
  OBVIOUS
<1>1. CASE Next
  <2>1. PICK c \in Callers : GetPicture(c) \/ Proceed(c) \/ Return(c) \/ Agent(c)
    BY <1>1 DEF Next
  <2>2. CASE Agent(c)
    BY <2>2, AgentMoves, MovesInv
  <2> QED BY <2>1, <2>2, CallMoves
<1>2. CASE UNCHANGED vars
  BY <1>2 DEF vars, IInv, TypeOK, Owned
<1> QED BY <1>1, <1>2

LEMMA Inductive == Spec => []IInv
BY InitInv, NextInv, PTL DEF Spec

\* The records of the calls, of their agents and of the threads are well-formed (wic_loader.cpp).
THEOREM TypeCorrect == Spec => []TypeOK
<1>1. IInv => TypeOK
  BY DEF IInv
<1> QED BY <1>1, Inductive, PTL

\* What GetPicture returns with is a whole picture that no agent touches any more, or none; one
\* that fails gives none, and one that returns SPI_ALL_RIGHT without a picture is one whose
\* notification could not be registered or whose lines could not be written, whatever else failed
\* and whenever the wait ended (wic_loader.cpp:338-391).
THEOREM PictureOwnedCorrect == Spec => []PictureOwned
<1>1. IInv => PictureOwned
  <2> SUFFICES ASSUME IInv, NEW c \in Callers, Returned(c)
               PROVE  /\ agent[c].at \in {"none", "done"}
                      /\ call[c].pHBInfo = call[c].pHBm
                      /\ Given(c) => call[c].ret = SPI_ALL_RIGHT /\ agent[c].HBInfo = "allocated" /\ agent[c].HBm = "allocated"
                      /\ call[c].ret = SPI_ALL_RIGHT => Given(c) \/ agent[c].failed \in {"register", "write"}
    BY DEF PictureOwned
  <2>1. Progress(agent[c]) /\ Link(call[c], agent[c])
    BY DEF IInv, Owned
  <2> QED BY <2>1, Returns DEF Progress, Link, Returned, Given
<1> QED BY <1>1, Inductive, PTL

\* The memory of an agent that has ended is its caller's or about to be, or is lost on one of three
\* paths: the lines could not be written, the last callback stopped it, or its caller's wait was
\* over before (wic_loader.cpp:246-312 and 355-375).
THEOREM MemoryAccountedCorrect == Spec => []MemoryAccounted
<1>1. IInv => MemoryAccounted
  <2> SUFFICES ASSUME IInv, NEW c \in Callers, agent[c].at = "done",
                      "allocated" \in {agent[c].HBInfo, agent[c].HBm}
               PROVE  \/ Given(c)
                      \/ agent[c].handed /\ (call[c].at = "waiting" \/ Late(c))
                      \/ agent[c].failed \in {"write", "stopped"}
    BY DEF MemoryAccounted
  <2>1. Progress(agent[c]) /\ Link(call[c], agent[c])
    BY DEF IInv, Owned
  <2>2. CASE ~agent[c].handed
    BY <2>1, <2>2 DEF Progress
  <2>3. CASE agent[c].handed
    <3>1. call[c].at \in {"waiting", "timedOut", "message", "thrown", "returned"}
      BY <2>1 DEF IInv, TypeOK, Link, CallSteps
    <3>2. call[c].at = "returned" => Given(c)
      BY <2>1, <2>3 DEF Link, Given, Returned
    <3> QED BY <2>3, <3>1, <3>2 DEF Late
  <2>4. agent[c].handed \in BOOLEAN
    BY DEF IInv, TypeOK, Agents
  <2> QED BY <2>2, <2>3, <2>4
<1> QED BY <1>1, Inductive, PTL

\* A picture that the camera did not turn, or turned by a multiple of 90 degrees, and whose tag was
\* read and whose flip rotators were made, is given upright; of the mirrored orientations and of
\* the pictures whose turning failed nothing is said (WicLoader.cpp:428-538).
THEOREM ShownUprightCorrect == Spec => []ShownUpright
<1>1. ASSUME NEW rotate \in {0, 1, 3, 6, 8}, NEW p \in Corners PROVE Rotated(rotate, Turns(rotate), p) = Upright(rotate, p)
  <2>1. p = <<p[1], p[2]>> /\ p[1] \in {0, 1} /\ p[2] \in {0, 1}
    BY DEF Corners
  <2>2. 1 \in Turns(rotate) /\ (2 \in Turns(rotate) <=> rotate \in {6, 8})
    BY DEF Turns
  <2> QED BY <2>1, <2>2 DEF Rotated, FirstTurn, SecondTurn, Upright, Rotate90, Rotate180, Rotate270, FlipHorizontal, FlipVertical
<1>2. IInv => ShownUpright
  <2> SUFFICES ASSUME IInv, NEW c \in Callers, Given(c), agent[c].turned, agent[c].orientation \in {0, 1, 3, 6, 8}
               PROVE  agent[c].placed = [p \in Corners |-> Upright(agent[c].orientation, p)]
    BY DEF ShownUpright
  <2>1. Progress(agent[c]) /\ Link(call[c], agent[c])
    BY DEF IInv, Owned
  <2>2. agent[c].placed = [p \in Corners |-> Rotated(agent[c].orientation, Turns(agent[c].orientation), p)]
    BY <2>1 DEF Progress, Link, Given, Returned, Turned
  <2> QED BY <1>1, <2>2
<1> QED BY <1>2, Inductive, PTL
================================================================================
