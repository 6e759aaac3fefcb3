------------------------------ MODULE WicPicture -------------------------------
(***************************************************************************)
(* GetPicture of WIC_Loader.spi.  Each call starts an agent of the         *)
(* Concurrency Runtime, which lives in the frame of the call and runs on   *)
(* one of the threads of the runtime, and waits 15 s for it.  When the     *)
(* time is over it suspends the thread that the agent said it runs on,     *)
(* asks the user, and then ends the process or lets the exception out of   *)
(* the frame.                                                              *)
(*                                                                         *)
(* A picture is decoded by the Windows Imaging Component, which may fail   *)
(* in any of its calls, and may not return.  Of the picture itself only    *)
(* its orientation is modelled, by where the corners end up.  What runs    *)
(* on after the frame is gone is undefined, and is not followed.           *)
(***************************************************************************)
EXTENDS Naturals

CONSTANTS
  Callers,       \* threads of Leeyes
  Workers,       \* threads of the runtime; more agents than these wait for one
  Orientations,  \* values of EXIF tag 274 that pictures have where it is looked for; 0 is none
  Null

ASSUME PictureAssumption == Orientations \subseteq 0 .. 8 /\ Null \notin Callers \union Workers

SPI_ALL_RIGHT == 0
SPI_ABORT == 1
SPI_NO_MEMORY == 4
SPI_MEMORY_ERROR == 5
SPI_FILE_READ_ERROR == 6

VARIABLES
  call,     \* where the GetPicture of each caller is, and what it has returned
  agent,    \* the object w of that call and the variables of its run()
  worker,   \* the call whose agent each thread runs, and whether the thread is suspended
  process   \* "ended" by the user, "crashed" by an agent, "undefined" after a lost frame

vars == <<call, agent, worker, process>>

CallSteps == {"idle", "starting", "waiting", "timedOut", "message", "thrown", "returned"}
AgentSteps == {"none", "scheduled", "open", "register", "decode", "profile", "transform", "convert", "allocInfo", "allocBm", "lock",
               "write", "finish", "done"}
Memory == {"none", "allocated", "freed"}

NoAgent == [at |-> "none", m_thread |-> Null, frame |-> FALSE, m_ret |-> SPI_ALL_RIGHT, HBInfo |-> "none", HBm |-> "none",
            handed |-> FALSE, failed |-> "none", orientation |-> 0, turned |-> FALSE, placed |-> <<>>]
NoCall == [at |-> "idle", ret |-> SPI_ALL_RIGHT, pHBInfo |-> FALSE, pHBm |-> FALSE]

--------------------------------------------------------------------------------
(* Orientation.  A corner is <<x, y>>, from the top left <<0, 0>> on; the     *)
(* operations of the flip rotator turn clockwise.                             *)

Corners == {0, 1} \X {0, 1}
Rotate0(p) == p

\* The height and not the last line.
MRotate90(p) == <<2 - p[2], p[1]>>

Rotate90(p) == <<1 - p[2], p[1]>>

Rotate180(p) == <<1 - p[1], 1 - p[2]>>
Rotate270(p) == <<p[2], 1 - p[1]>>
FlipHorizontal(p) == <<1 - p[1], p[2]>>
FlipVertical(p) == <<p[1], 1 - p[2]>>

\* The first flip rotator of WriteToBuffer, and the second ("need vflip").
FirstTurn(rotate, p) ==
  CASE rotate = 2 -> Rotate0(p) [] rotate = 3 -> FlipHorizontal(p) [] rotate = 4 -> Rotate180(p)
    [] rotate \in {5, 6} -> Rotate90(p) [] rotate \in {7, 8} -> Rotate270(p)
    [] OTHER -> FlipVertical(p)
SecondTurn(rotate, p) == IF rotate \in {6, 8} THEN FlipVertical(p) ELSE p

\* The flip rotators that are needed.
Turns(rotate) == CASE rotate = 2 -> {} [] rotate \in {6, 8} -> {1, 2} [] OTHER -> {1}

\* The second one is forgotten.
MRotated(rotate, made, p) == IF 1 \in made THEN FirstTurn(rotate, p) ELSE p

\* What becomes of a corner before the lines are copied.  A flip rotator that cannot be made or
\* initialized is passed over: nothing looks at hr.
Rotated(rotate, made, p) ==
  LET once == IF 1 \in made THEN FirstTurn(rotate, p) ELSE p
  IN IF 2 \in made THEN SecondTurn(rotate, once) ELSE once

\* The rectangle that is copied has the width and the height of the picture as it was.
Fits(rotate, made, square) == rotate \in 5 .. 8 /\ 1 \in made => square

--------------------------------------------------------------------------------
Agents ==
  [at : AgentSteps, m_thread : Workers \union {Null}, frame : BOOLEAN, m_ret : 0 .. 9, HBInfo : Memory, HBm : Memory,
   handed : BOOLEAN, failed : {"none", "register", "write", "stopped"}, orientation : 0 .. 8, turned : BOOLEAN,
   placed : [Corners -> Corners] \union {<<>>}]

TypeOK ==
  /\ call \in [Callers -> [at : CallSteps, ret : 0 .. 9, pHBInfo : BOOLEAN, pHBm : BOOLEAN]]
  /\ agent \in [Callers -> Agents]
  /\ worker \in [Workers -> [runs : Callers \union {Null}, suspended : BOOLEAN]]
  /\ process \in {"running", "ended", "crashed", "undefined"}

Init ==
  /\ call = [c \in Callers |-> NoCall] /\ agent = [c \in Callers |-> NoAgent]
  /\ worker = [w \in Workers |-> [runs |-> Null, suspended |-> FALSE]]
  /\ process = "running"

--------------------------------------------------------------------------------
(* The agent.                                                                 *)

Running(c, step) ==
  agent[c].at = step /\ \E w \in Workers : worker[w].runs = c /\ ~worker[w].suspended
AgentGoes(c, step) == agent' = [agent EXCEPT ![c].at = step] /\ UNCHANGED worker

\* done() and the return from run, which frees the thread.
DoneWith(c, record) ==
  /\ agent' = [agent EXCEPT ![c] = [record EXCEPT !.at = "done"]]
  /\ worker' = [w \in Workers |-> IF worker[w].runs = c THEN [worker[w] EXCEPT !.runs = Null] ELSE worker[w]]
Done(c, m_ret) == DoneWith(c, [agent[c] EXCEPT !.m_ret = m_ret])

Begin(c) ==
  /\ agent[c].at = "scheduled"
  /\ \E w \in Workers :
       /\ worker[w] = [runs |-> Null, suspended |-> FALSE]
       /\ worker' = [worker EXCEPT ![w].runs = c]
       /\ agent' = [agent EXCEPT ![c].at = "open", ![c].m_thread = w]
  /\ UNCHANGED <<call, process>>

\* Open of a file, or of the stream over the memory of the caller.
Open(c) ==
  /\ Running(c, "open")
  /\ Done(c, SPI_FILE_READ_ERROR) \/ AgentGoes(c, "register")
  /\ UNCHANGED <<call, process>>

\* A failure passes over everything else.
RegisterProgressNotification(c) ==
  /\ Running(c, "register")
  /\ DoneWith(c, [agent[c] EXCEPT !.failed = "register"]) \/ AgentGoes(c, "decode")
  /\ UNCHANGED <<call, process>>

\* Decode: what it finds of the frame is not looked at before the profile is loaded.
Decode(c) ==
  /\ Running(c, "decode")
  /\ \E found \in BOOLEAN : agent' = [agent EXCEPT ![c].at = "profile", ![c].frame = found]
  /\ UNCHANGED <<call, worker, process>>

\* It uses the frame, and throws if a colour context cannot be made; nothing catches that.
\* The result of reading the profile is then lost.
loadColorProfile(c) ==
  /\ Running(c, "profile")
  /\ \/ process' = "crashed" /\ UNCHANGED <<agent, worker>>
     \/ agent[c].frame /\ AgentGoes(c, "transform") /\ UNCHANGED process
  /\ UNCHANGED call

\* The rest of Decode: a transform that fails anywhere is made good by convert.
Transform(c) ==
  /\ Running(c, "transform")
  /\ AgentGoes(c, "allocInfo") \/ AgentGoes(c, "convert")
  /\ UNCHANGED <<call, process>>

convert(c) ==
  /\ Running(c, "convert")
  /\ AgentGoes(c, "allocInfo") \/ Done(c, SPI_ABORT)
  /\ UNCHANGED <<call, process>>

AllocateInfo(c) ==
  /\ Running(c, "allocInfo")
  /\ \/ Done(c, SPI_NO_MEMORY)
     \/ agent' = [agent EXCEPT ![c].HBInfo = "allocated", ![c].at = "allocBm"] /\ UNCHANGED worker
  /\ UNCHANGED <<call, process>>

AllocateBitmap(c) ==
  /\ Running(c, "allocBm")
  /\ \/ DoneWith(c, [agent[c] EXCEPT !.HBInfo = "freed", !.m_ret = SPI_NO_MEMORY])
     \/ agent' = [agent EXCEPT ![c].HBm = "allocated", ![c].at = "lock"] /\ UNCHANGED worker
  /\ UNCHANGED <<call, process>>

\* The bitmap is not freed.
MLockBoth(c) ==
  /\ Running(c, "lock")
  /\ \/ DoneWith(c, [agent[c] EXCEPT !.HBInfo = "freed", !.m_ret = SPI_MEMORY_ERROR])
     \/ AgentGoes(c, "write")
  /\ UNCHANGED <<call, process>>

LockBoth(c) ==
  /\ Running(c, "lock")
  /\ \/ DoneWith(c, [agent[c] EXCEPT !.HBInfo = "freed", !.HBm = "freed", !.m_ret = SPI_MEMORY_ERROR])
     \/ AgentGoes(c, "write")
  /\ UNCHANGED <<call, process>>

\* An agent whose picture is written, with the orientation it has and the one that is read.
Copied(a, orientation, rotate, made) ==
  [a EXCEPT !.at = "finish", !.orientation = orientation, !.turned = (rotate = orientation /\ made = Turns(rotate)),
     !.placed = [p \in Corners |-> Rotated(rotate, made, p)]]

\* The lines are decoded as they are copied: an error in them, or a progress callback that
\* does not return 0, ends here.  run then falls through to done() with m_ret as it was.
\* A tag that cannot be read counts as 0.  QueryInterface of a flip rotator replaces the picture:
\* where that fails a null pointer is asked for the lines, and catch(...) is for C++ exceptions.
WriteToBuffer(c) ==
  /\ Running(c, "write")
  /\ \/ DoneWith(c, [agent[c] EXCEPT !.failed = "write"]) /\ UNCHANGED process
     \/ \E orientation \in Orientations, square \in BOOLEAN :
          \E rotate \in {0, orientation} : \E made \in SUBSET Turns(rotate) :
            /\ Fits(rotate, made, square)
            /\ agent' = [agent EXCEPT ![c] = Copied(agent[c], orientation, rotate, made)]
            /\ UNCHANGED <<worker, process>>
     \/ process' = "crashed" /\ UNCHANGED <<agent, worker>>
  /\ UNCHANGED call

\* The last call of the progress callback.
Finish(c) ==
  /\ Running(c, "finish")
  /\ \/ DoneWith(c, [agent[c] EXCEPT !.m_ret = SPI_ABORT, !.failed = "stopped"])
     \/ DoneWith(c, [agent[c] EXCEPT !.handed = TRUE, !.m_ret = SPI_ALL_RIGHT])
  /\ UNCHANGED <<call, process>>

--------------------------------------------------------------------------------
(* GetPicture.                                                                *)

GetPicture(c) ==
  /\ call[c].at = "idle"
  /\ call' = [call EXCEPT ![c].at = "starting"]
  /\ UNCHANGED <<agent, worker, process>>

\* The first call of the progress callback, and w.start().
Start(c) ==
  /\ call[c].at = "starting"
  /\ \/ call' = [call EXCEPT ![c].at = "returned", ![c].ret = SPI_ABORT] /\ UNCHANGED agent
     \/ call' = [call EXCEPT ![c].at = "waiting"] /\ agent' = [agent EXCEPT ![c].at = "scheduled"]
  /\ UNCHANGED <<worker, process>>

\* The wait has no limit.
MWait(c) ==
  /\ call[c].at = "waiting" /\ agent[c].at = "done"
  /\ call' = [call EXCEPT ![c] = [at |-> "returned", ret |-> agent[c].m_ret,
                pHBInfo |-> agent[c].handed, pHBm |-> agent[c].handed]]
  /\ UNCHANGED <<agent, worker, process>>

\* The time over is no reason not to take what is there.
MWaitTakes(c) ==
  /\ call[c].at = "waiting"
  /\ call' = [call EXCEPT ![c] = [at |-> "returned", ret |-> agent[c].m_ret,
                pHBInfo |-> agent[c].HBInfo = "allocated", pHBm |-> agent[c].HBm = "allocated"]]
  /\ UNCHANGED <<agent, worker, process>>

Wait(c) ==
  /\ call[c].at = "waiting"
  /\ call' = IF agent[c].at = "done"
               THEN [call EXCEPT ![c] = [at |-> "returned", ret |-> agent[c].m_ret,
                       pHBInfo |-> agent[c].handed, pHBm |-> agent[c].handed]]
               ELSE [call EXCEPT ![c].at = "timedOut"]
  /\ UNCHANGED <<agent, worker, process>>

\* The agent may have ended by now, and its thread may run another; one that has not begun
\* has no thread.
Suspend(c) ==
  /\ call[c].at = "timedOut"
  /\ worker' = [w \in Workers |-> IF w = agent[c].m_thread THEN [worker[w] EXCEPT !.suspended = TRUE] ELSE worker[w]]
  /\ call' = [call EXCEPT ![c].at = "message"]
  /\ UNCHANGED <<agent, process>>

\* The user's answer.
Message(c) ==
  /\ call[c].at = "message"
  /\ \/ process' = "ended" /\ UNCHANGED call
     \/ /\ call' = [call EXCEPT ![c].at = "thrown"]
        /\ process' = IF agent[c].at = "done" \/ \E w \in Workers : worker[w] = [runs |-> c, suspended |-> TRUE]
                      THEN process ELSE "undefined"
  /\ UNCHANGED <<agent, worker>>

\* Leeyes has used and freed the picture.
Return(c) ==
  /\ call[c].at = "returned"
  /\ call' = [call EXCEPT ![c] = NoCall] /\ agent' = [agent EXCEPT ![c] = NoAgent]
  /\ UNCHANGED <<worker, process>>

Agent(c) ==
  \/ Begin(c) \/ Open(c) \/ RegisterProgressNotification(c) \/ Decode(c)
  \/ loadColorProfile(c) \/ Transform(c) \/ convert(c) \/ AllocateInfo(c)
  \/ AllocateBitmap(c) \/ LockBoth(c) \/ WriteToBuffer(c) \/ Finish(c)

Proceed(c) == Start(c) \/ Wait(c) \/ Suspend(c) \/ Message(c)

Next ==
  /\ process = "running"
  /\ \E c \in Callers : GetPicture(c) \/ Proceed(c) \/ Return(c) \/ Agent(c)

\* A call that has begun goes on: its wait is over in 15 s, and the user answers a message.
\* Of the agent nothing is assumed: a codec may never return.
Fairness == \A c \in Callers : WF_vars(process = "running" /\ Proceed(c))

Spec == Init /\ [][Next]_vars /\ Fairness

--------------------------------------------------------------------------------
(* Properties.                                                                *)

Returned(c) == call[c].at = "returned"
Given(c) == Returned(c) /\ call[c].pHBInfo /\ call[c].pHBm

\* The caller gets a whole picture, in memory that is still there and that no agent writes
\* any more, or nothing; and it gets one whenever SPI_ALL_RIGHT is returned, unless the
\* notification could not be registered or the lines could not be written.
PictureOwned ==
  \A c \in Callers : Returned(c) /\ process = "running" =>
    /\ agent[c].at \in {"none", "done"}
    /\ call[c].pHBInfo = call[c].pHBm
    /\ Given(c) => call[c].ret = SPI_ALL_RIGHT /\ agent[c].HBInfo = "allocated" /\ agent[c].HBm = "allocated"
    /\ call[c].ret = SPI_ALL_RIGHT => Given(c) \/ agent[c].failed \in {"register", "write"}

\* Whatever step of it fails, an agent that has ended leaves no memory that its caller has not
\* got or is about to get, save on three paths: the lines could not be written, the last callback
\* stopped it, or it ended when the wait of its caller was over already, who then takes nothing.
Late(c) == call[c].at \in {"timedOut", "message", "thrown"}
MemoryAccounted ==
  \A c \in Callers :
    agent[c].at = "done" /\ "allocated" \in {agent[c].HBInfo, agent[c].HBm} =>
      \/ Given(c)
      \/ agent[c].handed /\ (call[c].at = "waiting" \/ Late(c))
      \/ agent[c].failed \in {"write", "stopped"}

\* Where the first line of a bottom-up bitmap that is shown upright must be, by EXIF.
Upright(orientation, p) ==
  FlipVertical(CASE orientation = 3 -> Rotate180(p) [] orientation = 6 -> Rotate90(p)
                 [] orientation = 8 -> Rotate270(p) [] OTHER -> p)

\* A picture that was turned, and not mirrored, by the camera is shown upright, if its tag could
\* be read and the flip rotators made; where they could not, SPI_ALL_RIGHT is returned all the same.
ShownUpright ==
  \A c \in Callers : Given(c) /\ agent[c].turned /\ agent[c].orientation \in {0, 1, 3, 6, 8} =>
    agent[c].placed = [p \in Corners |-> Upright(agent[c].orientation, p)]

\* Every call ends, though its agent hangs, never finds a thread or is suspended in the
\* place of another: it returns, lets an exception out, or the process ends.
Answered ==
  \A c \in Callers : (call[c].at # "idle" /\ process = "running") ~>
    (call[c].at \in {"idle", "thrown"} \/ Returned(c) \/ process # "running")
================================================================================
