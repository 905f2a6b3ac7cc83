------------------------- MODULE StreamUpdateProofs -------------------------
(***************************************************************************)
(* Proofs about StreamUpdate, for any number of IPC threads and consuming  *)
(* threads and any size of the ring buffer: as long as the clients do not  *)
(* let StartStreamUpdate and StopStreamUpdate overlap, one thread consumes *)
(* the stream, the process does not die of it, and the slot and the status *)
(* follow the chunks.                                                      *)
(***************************************************************************)
EXTENDS StreamUpdate, TLAPS

-----------------------------------------------------------------------------
(***************************************************************************)
(* The inductive invariant.                                                *)
(***************************************************************************)
\* Where the three calls can be.
CallOK(t) ==
    /\ call[t].op = "Start" => call[t].pc \in {"enter", "init", "flag", "spawn", "report"}
    /\ call[t].op = "Stop" => call[t].pc \in {"enter", "test", "flag", "stop", "join", "wait",
                                              "delete", "exit"}
    /\ call[t].op = "Data" => call[t].pc \in {"enter", "push"}

\* Only one Start or Stop is in progress.
Sole == \A t, u \in Threads : InControl(t) /\ InControl(u) => t = u

\* What the call in progress knows of the consuming thread.
StartKnows(t) ==
    /\ call[t].pc \in {"init", "flag", "spawn"} => pThread = NoThread
    /\ call[t].pc \in {"flag", "spawn"} => ~completed
    /\ call[t].pc = "spawn" => isRunning

StopKnows(t) ==
    /\ call[t].pc \in {"join", "wait", "delete"} => pThread # NoThread
    /\ call[t].pc = "wait" => call[t].ptr = pThread
    /\ call[t].pc = "delete" => cons[pThread] = "joined"
    /\ call[t].pc = "exit" => pThread = NoThread

Known == \A t \in Threads : /\ call[t].op = "Start" => StartKnows(t)
                            /\ call[t].op = "Stop" => StopKnows(t)

\* pComsumeThread_ names the one consuming thread; only a Stop in progress takes it away.
Stopping == {"stop", "join", "wait", "delete"}
OneThread ==
    /\ \A c \in Consumers : cons[c] # "none" <=> pThread = c
    /\ \A c \in Consumers : cons[c] = "joined" =>
          \E t \in Threads : call[t].op = "Stop" /\ call[t].pc = "delete"
    /\ ~isRunning /\ pThread # NoThread =>
          \E t \in Threads : call[t].op = "Stop" /\ call[t].pc \in Stopping

\* Where the consuming thread is tells what has been installed and switched.
Progress ==
    /\ slot => completed
    /\ \A c \in Consumers :
          /\ cons[c] \in {"loop", "pop", "deal", "ongoing", "failed"} => ~completed
          /\ cons[c] \in {"successful", "switch"} => completed
          /\ cons[c] \in {"ended", "joined"} /\ completed => slot

\* No chunk has come while StartStreamUpdate sets the stream up.
Fresh ==
    \A t \in Threads :
        call[t].op = "Start" /\ call[t].pc \in {"flag", "spawn", "report"} /\ ~early =>
            /\ \A u \in Threads : call[u].op # "Data"
            /\ ring.len = 0 /\ ~completed
            /\ \A c \in Consumers : cons[c] \in {"none", "loop", "pop", "ended"}

Orderly == alive /\ Sole /\ Known /\ OneThread /\ Progress /\ Fresh

StreamInd ==
    /\ StreamTypeOK
    /\ \A t \in Threads : CallOK(t)
    /\ ~overlapped => Orderly
-----------------------------------------------------------------------------
(***************************************************************************)
(* What the moves of a call do to its record.                              *)
(***************************************************************************)
CallRecord == [op : Op, pc : Step, ptr : Consumers \cup {NoThread}] \cup {NoCall}

\* Only the call of t changes: it is now at pc of op, with the thread ptr to join.
Moved(t, op, pc, ptr) ==
    /\ call' \in [Threads -> CallRecord]
    /\ call'[t].op = op /\ call'[t].pc = pc /\ call'[t].ptr = ptr
    /\ \A u \in Threads \ {t} : call'[u] = call[u]

\* Goto sets the control state of a call.
LEMMA GotoMoves ==
    ASSUME StreamTypeOK, NEW t \in Threads, call[t].op \in Op, NEW pc \in Step, Goto(t, pc)
    PROVE  Moved(t, call[t].op, pc, call[t].ptr)
<1>1. call[t] \in [op : Op, pc : Step, ptr : Consumers \cup {NoThread}]
  BY DEF StreamTypeOK, NoCall, Op
<1>2. /\ [call[t] EXCEPT !.pc = pc] \in [op : Op, pc : Step, ptr : Consumers \cup {NoThread}]
      /\ [call[t] EXCEPT !.pc = pc].op = call[t].op
      /\ [call[t] EXCEPT !.pc = pc].pc = pc
      /\ [call[t] EXCEPT !.pc = pc].ptr = call[t].ptr
  BY <1>1
<1> QED
  BY <1>2 DEF Moved, Goto, StreamTypeOK, CallRecord

\* Return ends a call.
LEMMA ReturnMoves ==
    ASSUME StreamTypeOK, NEW t \in Threads, Return(t)
    PROVE  Moved(t, "none", "none", NoThread)
BY DEF Moved, Return, StreamTypeOK, CallRecord, NoCall

\* A joining Stop remembers the thread it waits for.
LEMMA JoinMoves ==
    ASSUME StreamTypeOK, NEW t \in Threads, call[t].op \in Op,
           call' = [call EXCEPT ![t].pc = "wait", ![t].ptr = pThread]
    PROVE  Moved(t, call[t].op, "wait", pThread)
<1>1. call[t] \in [op : Op, pc : Step, ptr : Consumers \cup {NoThread}]
  BY DEF StreamTypeOK, NoCall, Op
<1> DEFINE r == [call[t] EXCEPT !.pc = "wait"]
<1>2. r \in [op : Op, pc : Step, ptr : Consumers \cup {NoThread}] /\ r.op = call[t].op /\ r.pc = "wait"
  BY <1>1 DEF Step
<1>3. /\ DOMAIN call' = Threads /\ call'[t] = [r EXCEPT !.ptr = pThread]
      /\ \A u \in Threads \ {t} : call'[u] = call[u]
  BY DEF StreamTypeOK
<1> HIDE DEF r
<1>4. /\ [r EXCEPT !.ptr = pThread] \in [op : Op, pc : Step, ptr : Consumers \cup {NoThread}]
      /\ [r EXCEPT !.ptr = pThread].op = r.op /\ [r EXCEPT !.ptr = pThread].pc = r.pc
      /\ [r EXCEPT !.ptr = pThread].ptr = pThread
  BY <1>2 DEF StreamTypeOK
<1>5. \A u \in Threads : call'[u] \in CallRecord
  BY <1>3, <1>4 DEF StreamTypeOK, CallRecord
<1>6. call' = [u \in Threads |-> call'[u]]
  BY DEF StreamTypeOK
<1>7. call' \in [Threads -> CallRecord]
  BY <1>5, <1>6
<1> QED
  BY <1>2, <1>3, <1>4, <1>7 DEF Moved

\* The ring buffer as Init and Reset leave it.
LEMMA NewRingType == NewRing \in [up : BOOLEAN, stop : BOOLEAN, len : 0..MAX_RING_BUFFER_NUM]
BY StreamAssumption DEF NewRing

-----------------------------------------------------------------------------
(***************************************************************************)
(* Every step keeps the invariant.                                         *)
(***************************************************************************)

\* The quiet steps of StartStreamUpdate.
LEMMA StartSteps ==
    ASSUME StreamInd, NEW t \in Threads,
           StartCheck(t) \/ StartFails(t) \/ StartFlag(t) \/ StartNoThread(t) \/ StartReport(t)
    PROVE  StreamInd'
<1> USE StreamAssumption
        DEF StreamInd, StreamTypeOK, CallOK, Sole, InControl, Known, StartKnows, StopKnows,
            Stopping, OneThread, Progress, Fresh, Orderly, streamVars, histVars, At, Goto,
            Return, NoCall, Op, Step, ConsumerPC, Looping
<1>1. CASE StartCheck(t)
  BY <1>1 DEF StartCheck
<1>2. CASE StartFails(t)
  BY <1>2 DEF StartFails
<1>3. CASE StartFlag(t)
  BY <1>3 DEF StartFlag
<1>4. CASE StartNoThread(t)
  BY <1>4 DEF StartNoThread
<1>5. CASE StartReport(t)
  BY <1>5 DEF StartReport, UpdateCallback
<1> QED
  BY <1>1, <1>2, <1>3, <1>4, <1>5

\* The quiet steps of StopStreamUpdate and ProcessStreamData.
LEMMA StopDataSteps ==
    ASSUME StreamInd, NEW t \in Threads,
           StopCheck(t) \/ StopTest(t) \/ DataRefused(t) \/ DataAccepted(t) \/ Push(t)
    PROVE  StreamInd'
<1> USE StreamAssumption
        DEF StreamInd, StreamTypeOK, CallOK, Sole, InControl, Known, StartKnows, StopKnows,
            Stopping, OneThread, Progress, Fresh, Orderly, streamVars, histVars, At, Goto,
            Return, NoCall, Op, Step, ConsumerPC, Looping
<1>1. CASE StopCheck(t)
  BY <1>1 DEF StopCheck
<1>2. CASE StopTest(t)
  BY <1>2 DEF StopTest
<1>3. CASE DataRefused(t)
  BY <1>3 DEF DataRefused
<1>4. CASE DataAccepted(t)
  BY <1>4 DEF DataAccepted
<1>5. CASE Push(t)
  BY <1>5 DEF Push
<1> QED
  BY <1>1, <1>2, <1>3, <1>4, <1>5

\* StartInit keeps the invariant.
LEMMA StartInitStep ==
    ASSUME StreamInd, NEW t \in Threads, StartInit(t)
    PROVE  StreamInd'
<1>a. Moved(t, "Start", "flag", call[t].ptr)
  BY GotoMoves DEF StartInit, At, StreamInd, Op, Step
<1>1. StreamTypeOK'
  <2>1. early' \in BOOLEAN
    BY DEF StartInit
  <2>2. ring' \in [up : BOOLEAN, stop : BOOLEAN, len : 0..MAX_RING_BUFFER_NUM]
    BY NewRingType DEF StartInit
  <2>3. {isExitThread', slot', completed'} \subseteq BOOLEAN
    BY DEF StartInit
  <2> QED
    BY <1>a, <2>1, <2>2, <2>3 DEF StartInit, Moved, CallRecord, StreamInd, StreamTypeOK
<1>2. ASSUME NEW v \in Threads PROVE CallOK(v)'
  BY <1>a
  DEF StartInit, NewRing, Moved, CallRecord, NoCall, StreamInd, CallOK, streamVars, histVars, At
<1>3. ASSUME ~overlapped' PROVE Orderly'
  <2>1. ~overlapped /\ Orderly
    BY <1>3 DEF StartInit, StreamInd, histVars
  <2>2. alive' /\ Sole'
    BY <1>a, <2>1
    DEF StartInit, Moved, CallRecord, NoCall, Orderly, Sole, InControl, streamVars, histVars, At
  <2>3. Known'
    BY <1>a, <2>1, StreamAssumption
    DEF StartInit, NewRing, Moved, CallRecord, NoCall, Orderly, Sole, Known, StartKnows,
        StopKnows, OneThread, InControl, StreamInd, StreamTypeOK, streamVars, histVars, At
  <2>4. OneThread'
    BY <1>a, <2>1, StreamAssumption
    DEF StartInit, NewRing, Moved, CallRecord, NoCall, Orderly, Sole, InControl, Known,
        StartKnows, StopKnows, OneThread, Stopping, StreamInd, StreamTypeOK, streamVars,
        histVars, At
  <2>5. Progress'
    BY <1>a, <2>1, StreamAssumption
    DEF StartInit, NewRing, Orderly, Known, StartKnows, StopKnows, OneThread, Progress,
        StreamInd, StreamTypeOK, streamVars, histVars, At
  <2>6. Fresh'
    BY <1>a, <2>1, StreamAssumption
    DEF StartInit, NewRing, Moved, CallRecord, NoCall, Orderly, Sole, InControl, Known,
        StartKnows, OneThread, Progress, Fresh, StreamInd, StreamTypeOK, streamVars, histVars, At
  <2> QED
    BY <2>2, <2>3, <2>4, <2>5, <2>6 DEF Orderly
<1> QED
  BY <1>1, <1>2, <1>3 DEF StreamInd

\* StartSpawn keeps the invariant.
LEMMA StartSpawnStep ==
    ASSUME StreamInd, NEW t \in Threads, StartSpawn(t)
    PROVE  StreamInd'
<1>a. Moved(t, "Start", "report", call[t].ptr)
  BY GotoMoves DEF StartSpawn, At, StreamInd, Op, Step
<1>1. StreamTypeOK'
  BY <1>a, StreamAssumption
  DEF StartSpawn, Moved, CallRecord, NoCall, StreamInd, StreamTypeOK, streamVars, histVars, At,
      ConsumerPC, Looping
<1>2. ASSUME NEW v \in Threads PROVE CallOK(v)'
  BY <1>a DEF StartSpawn, Moved, CallRecord, NoCall, StreamInd, CallOK, streamVars, histVars, At
<1>3. ASSUME ~overlapped' PROVE Orderly'
  <2>1. ~overlapped /\ Orderly
    BY <1>3 DEF StartSpawn, StreamInd, histVars
  <2>2. alive' /\ Sole'
    BY <1>a, <2>1
    DEF StartSpawn, Moved, CallRecord, NoCall, Orderly, Sole, InControl, streamVars, histVars, At
  <2>3. Known'
    BY <1>a, <2>1, StreamAssumption
    DEF StartSpawn, Moved, CallRecord, NoCall, Orderly, Sole, Known, StartKnows, StopKnows,
        OneThread, InControl, StreamInd, StreamTypeOK, streamVars, histVars, At
  <2>4. OneThread'
    BY <1>a, <2>1, StreamAssumption
    DEF StartSpawn, Moved, CallRecord, NoCall, Orderly, Sole, InControl, Known, StartKnows,
        StopKnows, OneThread, Stopping, StreamInd, StreamTypeOK, streamVars, histVars, At
  <2>5. Progress'
    BY <1>a, <2>1, StreamAssumption
    DEF StartSpawn, Orderly, Known, StartKnows, StopKnows, OneThread, Progress, StreamInd,
        StreamTypeOK, streamVars, histVars, At
  <2>6. Fresh'
    BY <1>a, <2>1, StreamAssumption
    DEF StartSpawn, Moved, CallRecord, NoCall, Orderly, Sole, InControl, Known, StartKnows,
        OneThread, Progress, Fresh, StreamInd, StreamTypeOK, streamVars, histVars, At
  <2> QED
    BY <2>2, <2>3, <2>4, <2>5, <2>6 DEF Orderly
<1> QED
  BY <1>1, <1>2, <1>3 DEF StreamInd

\* StopFlags keeps the invariant.
LEMMA StopFlagsStep ==
    ASSUME StreamInd, NEW t \in Threads, StopFlags(t)
    PROVE  StreamInd'
<1>a. Moved(t, "Stop", "stop", call[t].ptr)
  BY GotoMoves DEF StopFlags, At, StreamInd, Op, Step
<1>1. StreamTypeOK'
  BY <1>a, StreamAssumption
  DEF StopFlags, Moved, CallRecord, NoCall, StreamInd, StreamTypeOK, streamVars, histVars, At,
      ConsumerPC, Looping
<1>2. ASSUME NEW v \in Threads PROVE CallOK(v)'
  BY <1>a DEF StopFlags, Moved, CallRecord, NoCall, StreamInd, CallOK, streamVars, histVars, At
<1>3. ASSUME ~overlapped' PROVE Orderly'
  <2>1. ~overlapped /\ Orderly
    BY <1>3 DEF StopFlags, StreamInd, histVars
  <2>2. alive' /\ Sole'
    BY <1>a, <2>1
    DEF StopFlags, Moved, CallRecord, NoCall, Orderly, Sole, InControl, streamVars, histVars, At
  <2>3. Known'
    BY <1>a, <2>1, StreamAssumption
    DEF StopFlags, Moved, CallRecord, NoCall, Orderly, Sole, Known, StartKnows, StopKnows,
        OneThread, InControl, StreamInd, StreamTypeOK, streamVars, histVars, At
  <2>4. OneThread'
    BY <1>a, <2>1, StreamAssumption
    DEF StopFlags, Moved, CallRecord, NoCall, Orderly, Sole, InControl, Known, StartKnows,
        StopKnows, OneThread, Stopping, StreamInd, StreamTypeOK, streamVars, histVars, At
  <2>5. Progress'
    BY <1>a, <2>1, StreamAssumption
    DEF StopFlags, Orderly, Known, StartKnows, StopKnows, OneThread, Progress, StreamInd,
        StreamTypeOK, streamVars, histVars, At
  <2>6. Fresh'
    BY <1>a, <2>1, StreamAssumption
    DEF StopFlags, Moved, CallRecord, NoCall, Orderly, Sole, InControl, Known, StartKnows,
        OneThread, Progress, Fresh, StreamInd, StreamTypeOK, streamVars, histVars, At
  <2> QED
    BY <2>2, <2>3, <2>4, <2>5, <2>6 DEF Orderly
<1> QED
  BY <1>1, <1>2, <1>3 DEF StreamInd

\* StopRing keeps the invariant.
LEMMA StopRingStep ==
    ASSUME StreamInd, NEW t \in Threads, StopRing(t)
    PROVE  StreamInd'
<1>a. Moved(t, "Stop", IF pThread = NoThread THEN "exit" ELSE "join", call[t].ptr)
  BY GotoMoves DEF StopRing, At, StreamInd, Op, Step
<1>1. StreamTypeOK'
  BY <1>a, StreamAssumption
  DEF StopRing, Moved, CallRecord, NoCall, StreamInd, StreamTypeOK, streamVars, histVars, At,
      ConsumerPC, Looping
<1>2. ASSUME NEW v \in Threads PROVE CallOK(v)'
  BY <1>a DEF StopRing, Moved, CallRecord, NoCall, StreamInd, CallOK, streamVars, histVars, At
<1>3. ASSUME ~overlapped' PROVE Orderly'
  <2>1. ~overlapped /\ Orderly
    BY <1>3 DEF StopRing, StreamInd, histVars
  <2>2. alive' /\ Sole'
    BY <1>a, <2>1
    DEF StopRing, Moved, CallRecord, NoCall, Orderly, Sole, InControl, streamVars, histVars, At
  <2>3. Known'
    BY <1>a, <2>1, StreamAssumption
    DEF StopRing, Moved, CallRecord, NoCall, Orderly, Sole, Known, StartKnows, StopKnows,
        OneThread, InControl, StreamInd, StreamTypeOK, streamVars, histVars, At
  <2>4. OneThread'
    BY <1>a, <2>1, StreamAssumption
    DEF StopRing, Moved, CallRecord, NoCall, Orderly, Sole, InControl, Known, StartKnows,
        StopKnows, OneThread, Stopping, StreamInd, StreamTypeOK, streamVars, histVars, At
  <2>5. Progress'
    BY <1>a, <2>1, StreamAssumption
    DEF StopRing, Orderly, Known, StartKnows, StopKnows, OneThread, Progress, StreamInd,
        StreamTypeOK, streamVars, histVars, At
  <2>6. Fresh'
    BY <1>a, <2>1, StreamAssumption
    DEF StopRing, Moved, CallRecord, NoCall, Orderly, Sole, InControl, Known, StartKnows,
        OneThread, Progress, Fresh, StreamInd, StreamTypeOK, streamVars, histVars, At
  <2> QED
    BY <2>2, <2>3, <2>4, <2>5, <2>6 DEF Orderly
<1> QED
  BY <1>1, <1>2, <1>3 DEF StreamInd

\* StopJoin keeps the invariant.
LEMMA StopJoinStep ==
    ASSUME StreamInd, NEW t \in Threads, StopJoin(t)
    PROVE  StreamInd'
<1>a. \/ alive' = FALSE /\ call' = call /\ \E u \in Threads : At(u, "Stop", "wait")
      \/ alive' = FALSE /\ call' = call /\ (pThread = NoThread \/ cons[pThread] \in {"none", "joined"})
      \/ alive' = alive /\ Moved(t, "Stop", "wait", pThread)
  BY JoinMoves DEF StopJoin, At, StreamInd, Op
<1>1. StreamTypeOK'
  BY <1>a, StreamAssumption
  DEF StopJoin, Moved, CallRecord, NoCall, StreamInd, StreamTypeOK, streamVars, histVars, At,
      ConsumerPC, Looping
<1>2. ASSUME NEW v \in Threads PROVE CallOK(v)'
  BY <1>a DEF StopJoin, Moved, CallRecord, NoCall, StreamInd, CallOK, streamVars, histVars, At
<1>3. ASSUME ~overlapped' PROVE Orderly'
  <2>1. ~overlapped /\ Orderly
    BY <1>3 DEF StopJoin, StreamInd, histVars
  <2>a. alive' = alive /\ Moved(t, "Stop", "wait", pThread)
    <3>1. pThread \in Consumers /\ cons[pThread] # "none"
      BY <2>1 DEF StopJoin, At, Orderly, Known, StopKnows, OneThread, StreamInd, StreamTypeOK
    <3>2. ASSUME NEW u \in Threads, call[u].op = "Stop" PROVE u = t
      BY <2>1, <3>2 DEF StopJoin, At, Orderly, Sole, InControl
    <3>3. cons[pThread] # "joined"
      BY <2>1, <3>1, <3>2 DEF StopJoin, At, Orderly, OneThread
    <3> QED
      BY <1>a, <3>1, <3>2, <3>3, StreamAssumption DEF StopJoin, At
  <2>2. alive' /\ Sole'
    BY <2>a, <2>1
    DEF StopJoin, Moved, CallRecord, NoCall, Orderly, Sole, InControl, streamVars, histVars, At
  <2>3. Known'
    BY <2>a, <2>1, StreamAssumption
    DEF StopJoin, Moved, CallRecord, NoCall, Orderly, Sole, Known, StartKnows, StopKnows,
        OneThread, InControl, StreamInd, StreamTypeOK, streamVars, histVars, At
  <2>4. OneThread'
    BY <2>a, <2>1, StreamAssumption
    DEF StopJoin, Moved, CallRecord, NoCall, Orderly, Sole, InControl, Known, StartKnows,
        StopKnows, OneThread, Stopping, StreamInd, StreamTypeOK, streamVars, histVars, At
  <2>5. Progress'
    BY <2>a, <2>1, StreamAssumption
    DEF StopJoin, Orderly, Known, StartKnows, StopKnows, OneThread, Progress, StreamInd,
        StreamTypeOK, streamVars, histVars, At
  <2>6. Fresh'
    BY <2>a, <2>1, StreamAssumption
    DEF StopJoin, Moved, CallRecord, NoCall, Orderly, Sole, InControl, Known, StartKnows,
        OneThread, Progress, Fresh, StreamInd, StreamTypeOK, streamVars, histVars, At
  <2> QED
    BY <2>2, <2>3, <2>4, <2>5, <2>6 DEF Orderly
<1> QED
  BY <1>1, <1>2, <1>3 DEF StreamInd

\* StopJoined keeps the invariant.
LEMMA StopJoinedStep ==
    ASSUME StreamInd, NEW t \in Threads, StopJoined(t)
    PROVE  StreamInd'
<1>a. Moved(t, "Stop", "delete", call[t].ptr)
  BY GotoMoves DEF StopJoined, At, StreamInd, Op, Step
<1>1. StreamTypeOK'
  BY <1>a, StreamAssumption
  DEF StopJoined, Moved, CallRecord, NoCall, StreamInd, StreamTypeOK, streamVars, histVars, At,
      ConsumerPC, Looping
<1>2. ASSUME NEW v \in Threads PROVE CallOK(v)'
  BY <1>a DEF StopJoined, Moved, CallRecord, NoCall, StreamInd, CallOK, streamVars, histVars, At
<1>3. ASSUME ~overlapped' PROVE Orderly'
  <2>1. ~overlapped /\ Orderly
    BY <1>3 DEF StopJoined, StreamInd, histVars
  <2>2. alive' /\ Sole'
    BY <1>a, <2>1
    DEF StopJoined, Moved, CallRecord, NoCall, Orderly, Sole, InControl, streamVars, histVars, At
  <2>3. Known'
    BY <1>a, <2>1, StreamAssumption
    DEF StopJoined, Moved, CallRecord, NoCall, Orderly, Sole, Known, StartKnows, StopKnows,
        OneThread, InControl, StreamInd, StreamTypeOK, streamVars, histVars, At
  <2>4. OneThread'
    BY <1>a, <2>1, StreamAssumption
    DEF StopJoined, Moved, CallRecord, NoCall, Orderly, Sole, InControl, Known, StartKnows,
        StopKnows, OneThread, Stopping, StreamInd, StreamTypeOK, streamVars, histVars, At
  <2>5. Progress'
    BY <1>a, <2>1, StreamAssumption
    DEF StopJoined, Orderly, Known, StartKnows, StopKnows, OneThread, Progress, StreamInd,
        StreamTypeOK, streamVars, histVars, At
  <2>6. Fresh'
    BY <1>a, <2>1, StreamAssumption
    DEF StopJoined, Moved, CallRecord, NoCall, Orderly, Sole, InControl, Known, StartKnows,
        OneThread, Progress, Fresh, StreamInd, StreamTypeOK, streamVars, histVars, At
  <2> QED
    BY <2>2, <2>3, <2>4, <2>5, <2>6 DEF Orderly
<1> QED
  BY <1>1, <1>2, <1>3 DEF StreamInd

\* StopDelete keeps the invariant.
LEMMA StopDeleteStep ==
    ASSUME StreamInd, NEW t \in Threads, StopDelete(t)
    PROVE  StreamInd'
<1>a. \/ /\ alive' = FALSE /\ UNCHANGED <<call, cons, pThread>>
         /\ pThread # NoThread /\ cons[pThread] # "joined"
      \/ /\ alive' = alive /\ Moved(t, "Stop", "exit", call[t].ptr) /\ pThread' = NoThread
         /\ cons' = [c \in Consumers |-> IF c = pThread THEN "none" ELSE cons[c]]
  BY GotoMoves DEF StopDelete, At, StreamInd, Op, Step
<1>1. StreamTypeOK'
  <2>1. cons' \in [Consumers -> ConsumerPC]
    BY <1>a DEF StreamInd, StreamTypeOK, ConsumerPC
  <2>2. alive' \in BOOLEAN /\ pThread' \in Consumers \cup {NoThread} /\ call' \in [Threads -> CallRecord]
    BY <1>a DEF StreamInd, StreamTypeOK, Moved, CallRecord
  <2> QED
    BY <2>1, <2>2 DEF StopDelete, StreamInd, StreamTypeOK, CallRecord, histVars
<1>2. ASSUME NEW v \in Threads PROVE CallOK(v)'
  BY <1>a DEF StopDelete, Moved, CallRecord, NoCall, StreamInd, CallOK, streamVars, histVars, At
<1>3. ASSUME ~overlapped' PROVE Orderly'
  <2>1. ~overlapped /\ Orderly
    BY <1>3 DEF StopDelete, StreamInd, histVars
  <2>a. /\ alive' = alive /\ Moved(t, "Stop", "exit", call[t].ptr) /\ pThread' = NoThread
        /\ cons' = [c \in Consumers |-> IF c = pThread THEN "none" ELSE cons[c]]
    BY <1>a, <2>1 DEF StopDelete, At, Orderly, Known, StopKnows
  <2>2. alive' /\ Sole'
    BY <2>a, <2>1
    DEF StopDelete, Moved, CallRecord, NoCall, Orderly, Sole, InControl, streamVars, histVars, At
  <2>3. Known'
    BY <2>a, <2>1, StreamAssumption
    DEF StopDelete, Moved, CallRecord, NoCall, Orderly, Sole, Known, StartKnows, StopKnows,
        OneThread, InControl, StreamInd, StreamTypeOK, streamVars, histVars, At
  <2>4. OneThread'
    BY <2>a, <2>1, StreamAssumption
    DEF StopDelete, Moved, CallRecord, NoCall, Orderly, Sole, InControl, Known, StartKnows,
        StopKnows, OneThread, Stopping, StreamInd, StreamTypeOK, streamVars, histVars, At
  <2>5. Progress'
    BY <2>a, <2>1, StreamAssumption
    DEF StopDelete, Orderly, Known, StartKnows, StopKnows, OneThread, Progress, StreamInd,
        StreamTypeOK, streamVars, histVars, At
  <2>6. Fresh'
    BY <2>a, <2>1, StreamAssumption
    DEF StopDelete, Moved, CallRecord, NoCall, Orderly, Sole, InControl, Known, StartKnows,
        OneThread, Progress, Fresh, StreamInd, StreamTypeOK, streamVars, histVars, At
  <2> QED
    BY <2>2, <2>3, <2>4, <2>5, <2>6 DEF Orderly
<1> QED
  BY <1>1, <1>2, <1>3 DEF StreamInd

\* StopExit keeps the invariant.
LEMMA StopExitStep ==
    ASSUME StreamInd, NEW t \in Threads, StopExit(t)
    PROVE  StreamInd'
<1>a. Moved(t, "none", "none", NoThread)
  BY ReturnMoves DEF StopExit, At, StreamInd, Op, Step
<1>1. StreamTypeOK'
  <2>1. ring' \in [up : BOOLEAN, stop : BOOLEAN, len : 0..MAX_RING_BUFFER_NUM]
    BY NewRingType DEF StopExit
  <2> QED
    BY <1>a, <2>1 DEF StopExit, Moved, CallRecord, StreamInd, StreamTypeOK, histVars
<1>2. ASSUME NEW v \in Threads PROVE CallOK(v)'
  BY <1>a
  DEF StopExit, NewRing, Moved, CallRecord, NoCall, StreamInd, CallOK, streamVars, histVars, At
<1>3. ASSUME ~overlapped' PROVE Orderly'
  <2>1. ~overlapped /\ Orderly
    BY <1>3 DEF StopExit, StreamInd, histVars
  <2>2. alive' /\ Sole'
    BY <1>a, <2>1
    DEF StopExit, Moved, CallRecord, NoCall, Orderly, Sole, InControl, streamVars, histVars, At
  <2>3. Known'
    BY <1>a, <2>1, StreamAssumption
    DEF StopExit, NewRing, Moved, CallRecord, NoCall, Orderly, Sole, Known, StartKnows,
        StopKnows, OneThread, InControl, StreamInd, StreamTypeOK, streamVars, histVars, At
  <2>4. OneThread'
    BY <1>a, <2>1, StreamAssumption
    DEF StopExit, NewRing, Moved, CallRecord, NoCall, Orderly, Sole, InControl, Known,
        StartKnows, StopKnows, OneThread, Stopping, StreamInd, StreamTypeOK, streamVars,
        histVars, At
  <2>5. Progress'
    BY <1>a, <2>1, StreamAssumption
    DEF StopExit, NewRing, Orderly, Known, StartKnows, StopKnows, OneThread, Progress,
        StreamInd, StreamTypeOK, streamVars, histVars, At
  <2>6. Fresh'
    BY <1>a, <2>1, StreamAssumption
    DEF StopExit, NewRing, Moved, CallRecord, NoCall, Orderly, Sole, InControl, Known,
        StartKnows, OneThread, Progress, Fresh, StreamInd, StreamTypeOK, streamVars, histVars, At
  <2> QED
    BY <2>2, <2>3, <2>4, <2>5, <2>6 DEF Orderly
<1> QED
  BY <1>1, <1>2, <1>3 DEF StreamInd

\* The consuming thread.
LEMMA ConsumerSteps ==
    ASSUME StreamInd, NEW c \in Consumers,
           \/ ConsumerLoop(c) \/ Pop(c) \/ ReportOngoing(c)
           \/ ReportFailed(c) \/ ReportSuccessful(c) \/ SetActiveSlot(c)
    PROVE  StreamInd'
<1> USE StreamAssumption
        DEF StreamInd, StreamTypeOK, CallOK, Sole, InControl, Known, StartKnows, StopKnows,
            Stopping, OneThread, Progress, Fresh, Orderly, streamVars, histVars, At, Goto,
            Return, NoCall, Op, Step, ConsumerPC, Looping, ConsumerAt, ConsumerGoto,
            UpdateCallback
<1>1. CASE ConsumerLoop(c)
  BY <1>1 DEF ConsumerLoop
<1>2. CASE Pop(c)
  BY <1>2 DEF Pop
<1>3. CASE ReportOngoing(c)
  BY <1>3 DEF ReportOngoing
<1>4. CASE ReportFailed(c)
  BY <1>4 DEF ReportFailed
<1>5. CASE ReportSuccessful(c)
  BY <1>5 DEF ReportSuccessful
<1>6. CASE SetActiveSlot(c)
  BY <1>6 DEF SetActiveSlot
<1> QED
  BY <1>1, <1>2, <1>3, <1>4, <1>5, <1>6

\* The installation of a chunk keeps the invariant.
LEMMA StartBinChunkUpdateStep ==
    ASSUME StreamInd, NEW c \in Consumers, StartBinChunkUpdate(c)
    PROVE  StreamInd'
<1>1. StreamTypeOK'
  <2>1. cons' \in [Consumers -> ConsumerPC]
    BY DEF StartBinChunkUpdate, ConsumerGoto, StreamInd, StreamTypeOK, ConsumerPC, Looping
  <2>2. completed' \in BOOLEAN
    BY DEF StartBinChunkUpdate
  <2> QED
    BY <2>1, <2>2 DEF StartBinChunkUpdate, StreamInd, StreamTypeOK, streamVars
<1>2. ASSUME NEW v \in Threads PROVE CallOK(v)'
  BY DEF StartBinChunkUpdate, ConsumerAt, ConsumerGoto, StreamInd, CallOK, streamVars, histVars, At
<1>3. ASSUME ~overlapped' PROVE Orderly'
  <2>1. ~overlapped /\ Orderly
    BY <1>3 DEF StartBinChunkUpdate, StreamInd, histVars
  <2>2. alive' /\ Sole'
    BY <2>1 DEF StartBinChunkUpdate, Orderly, Sole, InControl, streamVars, histVars, At
  <2>3. Known'
    BY <2>1, StreamAssumption
    DEF StartBinChunkUpdate, ConsumerAt, ConsumerGoto, Orderly, Sole, Known, StartKnows,
        StopKnows, OneThread, InControl, StreamInd, StreamTypeOK, streamVars, histVars, At
  <2>4. OneThread'
    BY <2>1, StreamAssumption
    DEF StartBinChunkUpdate, ConsumerAt, ConsumerGoto, Orderly, Sole, InControl, Known,
        StartKnows, StopKnows, OneThread, Stopping, StreamInd, StreamTypeOK, streamVars,
        histVars, At
  <2>5. Progress'
    <3>1. PICK r \in {"ongoing", "failed", "successful", "loop"} :
              ConsumerGoto(c, r) /\ completed' = (completed \/ r = "successful")
      BY DEF StartBinChunkUpdate
    <3>2. cons[c] = "deal" /\ ~completed /\ ~slot /\ slot' = slot /\ pThread = c
      BY <2>1 DEF StartBinChunkUpdate, ConsumerAt, Orderly, Progress, OneThread
    <3>3. completed' <=> r = "successful"
      BY <3>1, <3>2
    <3>4. ASSUME NEW d \in Consumers PROVE cons'[d] = IF d = c THEN r ELSE "none"
      BY <2>1, <3>1, <3>2 DEF ConsumerGoto, Orderly, OneThread, StreamInd, StreamTypeOK
    <3> QED
      BY <3>2, <3>3, <3>4 DEF Progress
  <2>6. Fresh'
    BY <2>1, StreamAssumption
    DEF StartBinChunkUpdate, ConsumerAt, ConsumerGoto, Orderly, Sole, InControl, Known,
        StartKnows, OneThread, Progress, Fresh, StreamInd, StreamTypeOK, streamVars, histVars, At
  <2> QED
    BY <2>2, <2>3, <2>4, <2>5, <2>6 DEF Orderly
<1> QED
  BY <1>1, <1>2, <1>3 DEF StreamInd

\* The arrival of a call keeps the invariant.
LEMMA BeginStep ==
    ASSUME StreamInd, NEW t \in Threads, NEW op \in Op, Begin(t, op)
    PROVE  StreamInd'
<1>a. Moved(t, op, "enter", NoThread)
  BY DEF Begin, Moved, CallRecord, StreamInd, StreamTypeOK, Step
<1>b. ~overlapped' /\ op \in {"Start", "Stop"} => \A u \in Threads : ~InControl(u)
  BY DEF Begin
<1>1. StreamTypeOK'
  BY <1>a, StreamAssumption
  DEF Begin, Moved, CallRecord, NoCall, StreamInd, StreamTypeOK, streamVars, histVars, At,
      ConsumerPC, Looping
<1>2. ASSUME NEW v \in Threads PROVE CallOK(v)'
  BY <1>a DEF Begin, Moved, CallRecord, NoCall, StreamInd, CallOK, streamVars, histVars, At
<1>3. ASSUME ~overlapped' PROVE Orderly'
  <2>1. ~overlapped /\ Orderly
    BY <1>3 DEF Begin, StreamInd, histVars
  <2>2. alive' /\ Sole'
    <3>1. alive'
      BY <2>1 DEF Begin, Orderly
    <3>2. ASSUME NEW u \in Threads, NEW v \in Threads, InControl(u)', InControl(v)', u # t, v # t
          PROVE  u = v
      BY <1>a, <2>1, <3>2 DEF Moved, Orderly, Sole, InControl
    <3>3. ASSUME NEW u \in Threads, InControl(u)', InControl(t)', u # t PROVE FALSE
      <4>1. op \in {"Start", "Stop"} /\ InControl(u)
        BY <1>a, <3>3 DEF Moved, InControl
      <4> QED
        BY <1>3, <1>b, <4>1
    <3> QED
      BY <3>1, <3>2, <3>3 DEF Sole
  <2>3. Known'
    BY <1>a, <1>b, <2>1, StreamAssumption
    DEF Begin, Moved, CallRecord, NoCall, Orderly, Sole, Known, StartKnows, StopKnows,
        OneThread, InControl, StreamInd, StreamTypeOK, streamVars, histVars, At
  <2>4. OneThread'
    BY <1>a, <1>b, <2>1, StreamAssumption
    DEF Begin, Moved, CallRecord, NoCall, Orderly, Sole, InControl, Known, StartKnows,
        StopKnows, OneThread, Stopping, StreamInd, StreamTypeOK, streamVars, histVars, At
  <2>5. Progress'
    BY <1>a, <1>b, <2>1, StreamAssumption
    DEF Begin, Orderly, Known, StartKnows, StopKnows, OneThread, Progress, StreamInd,
        StreamTypeOK, streamVars, histVars, At
  <2>6. Fresh'
    <3> SUFFICES ASSUME NEW u \in Threads, call'[u].op = "Start",
                        call'[u].pc \in {"flag", "spawn", "report"}, ~early'
                 PROVE  /\ \A v \in Threads : call'[v].op # "Data"
                        /\ ring'.len = 0 /\ ~completed'
                        /\ \A c \in Consumers : cons'[c] \in {"none", "loop", "pop", "ended"}
      BY DEF Fresh
    <3>1. u # t /\ call[u] = call'[u] /\ InControl(u)
      BY <1>a DEF Moved, InControl
    <3>2. ~early /\ op # "Data" /\ UNCHANGED <<ring, completed, cons>>
      BY <3>1 DEF Begin
    <3>3. /\ \A v \in Threads : call[v].op # "Data"
          /\ ring.len = 0 /\ ~completed
          /\ \A c \in Consumers : cons[c] \in {"none", "loop", "pop", "ended"}
      BY <2>1, <3>1, <3>2 DEF Orderly, Fresh
    <3> QED
      BY <1>a, <3>2, <3>3 DEF Moved
  <2> QED
    BY <2>2, <2>3, <2>4, <2>5, <2>6 DEF Orderly
<1> QED
  BY <1>1, <1>2, <1>3 DEF StreamInd

\* The steps of SysInstallerInit and SetUpdateCallback leave the calls and the threads alone.
LEMMA ManagerSteps ==
    ASSUME StreamInd, InitStream \/ InitPackage \/ SetCallback
    PROVE  StreamInd'
<1>1. /\ UNCHANGED <<call, isRunning, isExitThread, pThread, cons, ring, slot>>
      /\ UNCHANGED <<alive, overlapped, early, completed>>
  BY DEF InitStream, InitPackage, SetCallback, streamVars, histVars
<1>2. bStream' \in BOOLEAN
  BY DEF StreamInd, StreamTypeOK, InitStream, InitPackage, SetCallback
<1>3. statusManager' \in [made : BOOLEAN, cb : BOOLEAN,
                          status : {"INIT", "ONGOING", "FAILED", "SUCCESSFUL"}]
  BY DEF StreamInd, StreamTypeOK, InitStream, InitPackage, SetCallback
<1>4. StreamTypeOK'
  BY <1>1, <1>2, <1>3 DEF StreamInd, StreamTypeOK
<1>5. \A t \in Threads : CallOK(t)'
  BY <1>1 DEF StreamInd, CallOK
<1>6. Orderly' = Orderly
  <2>1. Sole' = Sole
    BY <1>1 DEF Sole, InControl
  <2>2. Known' = Known
    BY <1>1 DEF Known, StartKnows, StopKnows
  <2>3. OneThread' = OneThread
    BY <1>1 DEF OneThread, Stopping
  <2>4. Progress' = Progress
    BY <1>1 DEF Progress
  <2>5. Fresh' = Fresh
    BY <1>1 DEF Fresh
  <2> QED
    BY <1>1, <2>1, <2>2, <2>3, <2>4, <2>5 DEF Orderly
<1> QED
  BY <1>1, <1>4, <1>5, <1>6 DEF StreamInd

\* The same with a restart of the service.
LEMMA ProcessSteps ==
    ASSUME StreamInd, InitStream \/ InitPackage \/ SetCallback \/ Reload
    PROVE  StreamInd'
<1>1. CASE InitStream \/ InitPackage \/ SetCallback
  BY <1>1, ManagerSteps
<1> USE StreamAssumption
        DEF StreamInd, StreamTypeOK, CallOK, Sole, InControl, Known, StartKnows, StopKnows,
            Stopping, OneThread, Progress, Fresh, Orderly, streamVars, histVars, At, Goto,
            Return, NoCall, Op, Step, ConsumerPC, Looping
<1>2. CASE Reload
  <2>1. StreamTypeOK'
    <3>1. call' \in [Threads -> CallRecord] /\ cons' \in [Consumers -> ConsumerPC]
      BY <1>2 DEF Reload, CallRecord
    <3>2. ring' \in [up : BOOLEAN, stop : BOOLEAN, len : 0..MAX_RING_BUFFER_NUM]
      BY <1>2 DEF Reload
    <3>3. {bStream', isRunning', isExitThread', slot', alive', overlapped', early', completed'} \subseteq BOOLEAN
      BY <1>2 DEF Reload
    <3> QED
      BY <1>2, <3>1, <3>2, <3>3 DEF Reload, CallRecord
  <2>2. \A t \in Threads : CallOK(t)'
    BY <1>2 DEF Reload
  <2>3. Orderly'
    BY <1>2 DEF Reload
  <2> QED
    BY <2>1, <2>2, <2>3
<1> QED
  BY <1>1, <1>2
-----------------------------------------------------------------------------
\* The initial state satisfies the invariant.
LEMMA StreamInit == Init => StreamInd
<1> SUFFICES ASSUME Init PROVE StreamInd
  OBVIOUS
<1> USE StreamAssumption
        DEF StreamInd, StreamTypeOK, CallOK, Sole, InControl, Known, StartKnows, StopKnows,
            Stopping, OneThread, Progress, Fresh, Orderly, streamVars, histVars, At, Goto,
            Return, NoCall, Op, Step, ConsumerPC, Looping
<1>1. StreamTypeOK
  <2>1. call \in [Threads -> CallRecord] /\ cons \in [Consumers -> ConsumerPC]
    BY DEF Init, CallRecord
  <2>2. ring \in [up : BOOLEAN, stop : BOOLEAN, len : 0..MAX_RING_BUFFER_NUM]
    BY DEF Init
  <2>3. {bStream, isRunning, isExitThread, slot, alive, overlapped, early, completed} \subseteq BOOLEAN
    BY DEF Init
  <2> QED
    BY <2>1, <2>2, <2>3 DEF Init, CallRecord
<1>2. \A t \in Threads : CallOK(t)
  BY DEF Init
<1>3. Orderly
  BY DEF Init
<1> QED
  BY <1>1, <1>2, <1>3

\* The invariant is inductive.
LEMMA StreamInvariant == Spec => []StreamInd
<1>1. ASSUME StreamInd, [Next]_vars PROVE StreamInd'
  <2> USE <1>1
  <2>1. CASE UNCHANGED vars
    BY <2>1
    DEF vars, StreamInd, StreamTypeOK, CallOK, Sole, InControl, Known, StartKnows, StopKnows,
        Stopping, OneThread, Progress, Fresh, Orderly, streamVars, histVars, At, Goto, Return,
        NoCall, Op, Step, ConsumerPC, Looping
  <2>2. ASSUME NEW t \in Threads, CallStep(t) PROVE StreamInd'
    BY <2>2, StartSteps, StopDataSteps, StartInitStep, StartSpawnStep, StopFlagsStep, StopRingStep,
       StopJoinStep, StopJoinedStep, StopDeleteStep, StopExitStep
    DEF CallStep
  <2>3. ASSUME NEW c \in Consumers, ConsumerStep(c) PROVE StreamInd'
    BY <2>3, ConsumerSteps, StartBinChunkUpdateStep DEF ConsumerStep
  <2>4. ASSUME NEW t \in Threads, NEW op \in Op, Begin(t, op) PROVE StreamInd'
    BY <2>4, BeginStep
  <2> QED
    BY <2>1, <2>2, <2>3, <2>4, ProcessSteps DEF Next
<1> QED
  BY <1>1, StreamInit, PTL DEF Spec
-----------------------------------------------------------------------------
(***************************************************************************)
(* The theorems.                                                           *)
(***************************************************************************)
(***************************************************************************)
(* The types of the stream's state, and: without overlapping Start and     *)
(* Stop calls at most one thread installs chunks, pComsumeThread_ names    *)
(* it, and none is left when StopStreamUpdate has returned.                *)
(***************************************************************************)
THEOREM StreamOneConsumer == Spec => []StreamInv
<1>1. ASSUME StreamInd PROVE StreamInv
  <2>1. ASSUME alive, ~overlapped, NEW c \in Consumers, Live(c) PROVE pThread = c
    BY <1>1, <2>1 DEF StreamInd, Orderly, OneThread, Live, Looping
  <2>2. ASSUME alive, ~overlapped, ~isRunning, \A t \in Threads : ~InControl(t), NEW c \in Consumers
        PROVE  cons[c] = "none"
    <3>1. pThread = NoThread
      BY <1>1, <2>2 DEF StreamInd, Orderly, OneThread, InControl
    <3> QED
      BY <1>1, <2>2, <3>1, StreamAssumption DEF StreamInd, Orderly, OneThread
  <2> QED
    BY <1>1, <2>1, <2>2 DEF StreamInv, StreamInd, OneConsumer
<1> QED
  BY <1>1, StreamInvariant, PTL

(***************************************************************************)
(* The double join and the deletion of a joinable thread that end the      *)
(* process need overlapping StartStreamUpdate and StopStreamUpdate calls.  *)
(***************************************************************************)
THEOREM StreamDiesOnlyOfOverlap == Spec => []DiesOnlyOfOverlap
<1>1. StreamInd => DiesOnlyOfOverlap
  BY DEF StreamInd, Orderly, DiesOnlyOfOverlap
<1> QED
  BY <1>1, StreamInvariant, PTL

(***************************************************************************)
(* SetActiveSlot is called after the last chunk of this stream only, and a *)
(* consuming thread that has ended after it has called it.                 *)
(***************************************************************************)
THEOREM StreamSlotFollows == Spec => []SlotFollowsStream
<1>1. StreamInd => SlotFollowsStream
  BY StreamAssumption DEF StreamInd, StreamTypeOK, Orderly, Progress, SlotFollowsStream
<1> QED
  BY <1>1, StreamInvariant, PTL

(***************************************************************************)
(* A success the client was told of is not taken back while the stream is  *)
(* there: StartStreamUpdate's late report of INIT follows it only when a   *)
(* chunk was sent before StartStreamUpdate had returned.                   *)
(***************************************************************************)
THEOREM StreamSuccessStays == Spec => SuccessStays
<1>1. ASSUME StreamInd, [Next]_vars, statusManager.status = "SUCCESSFUL", completed, completed',
             ~early, ~overlapped, ~InitStream
      PROVE  statusManager'.status = "SUCCESSFUL"
  <2> USE <1>1
  <2>1. Progress /\ Fresh
    BY DEF StreamInd, Orderly
  <2>2. statusManager \in [made : BOOLEAN, cb : BOOLEAN,
                           status : {"INIT", "ONGOING", "FAILED", "SUCCESSFUL"}]
    BY DEF StreamInd, StreamTypeOK
  <2>3. ASSUME NEW t \in Threads, StartReport(t) PROVE FALSE
    BY <2>1, <2>3 DEF StartReport, At, Fresh
  <2>4. ASSUME NEW c \in Consumers, ReportOngoing(c) \/ ReportFailed(c) PROVE FALSE
    BY <2>1, <2>4 DEF ReportOngoing, ReportFailed, ConsumerAt, Progress
  <2>5. ASSUME NEW c \in Consumers, ReportSuccessful(c)
        PROVE  statusManager'.status = "SUCCESSFUL"
    BY <2>2, <2>5 DEF ReportSuccessful, UpdateCallback
  <2>6. CASE SetCallback
    BY <2>2, <2>6 DEF SetCallback
  <2>7. ~Reload
    BY DEF Reload
  <2>8. CASE UNCHANGED statusManager
    BY <2>8
  <2>9. ASSUME NEW t \in Threads, CallStep(t) PROVE UNCHANGED statusManager
    BY <2>3, <2>9
    DEF CallStep, StartCheck, StartFails, StartInit, StartFlag, StartSpawn, StartNoThread,
        StopCheck,
        StopTest, StopFlags, StopRing, StopJoin, StopJoined, StopDelete, StopExit, DataRefused,
        DataAccepted, Push
  <2>10. ASSUME NEW c \in Consumers, ConsumerStep(c) PROVE statusManager'.status = "SUCCESSFUL"
    BY <2>4, <2>5, <2>8, <2>10
    DEF ConsumerStep, ConsumerLoop, Pop, StartBinChunkUpdate, SetActiveSlot
  <2> QED
    BY <2>6, <2>7, <2>8, <2>9, <2>10 DEF Next, Begin, InitPackage, vars
<1>2. StreamInd /\ [Next]_vars =>
         [ /\ statusManager.status = "SUCCESSFUL" /\ completed /\ completed'
           /\ ~early /\ ~overlapped /\ alive'
           => \/ statusManager'.status = "SUCCESSFUL"
              \/ InitStream ]_vars
  BY <1>1
<1> QED
  BY <1>2, StreamInvariant, PTL DEF Spec, SuccessStays
=============================================================================
