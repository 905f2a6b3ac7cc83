---------------------------- MODULE StreamUpdate ----------------------------
(***************************************************************************)
(* The stream update (StreamInstallProcesser) with the calls that reach it *)
(* through SysInstallerServer and StreamInstallerManager(Helper): a client *)
(* starts the stream, sends its chunks and stops it; a consuming thread    *)
(* takes the chunks from a ring buffer and installs them.                  *)
(*                                                                         *)
(* No lock orders StartStreamUpdate, StopStreamUpdate and                  *)
(* ProcessStreamData, and they are not [oneway]: they run on any IPC       *)
(* thread, in parallel.  A double join or the deletion of a joinable       *)
(* std::thread ends the process.                                           *)
(***************************************************************************)
EXTENDS Naturals, FiniteSets

CONSTANTS Threads,             \* IPC threads
          Consumers,           \* consuming threads that may exist at a time
          NoThread,            \* a null pComsumeThread_
          MAX_RING_BUFFER_NUM  \* places of the ring buffer, 2 in the code

ASSUME StreamAssumption ==
    /\ NoThread \notin Consumers
    /\ MAX_RING_BUFFER_NUM \in Nat \ {0}

VARIABLES call,          \* the call each IPC thread serves
          statusManager, \* [made, cb, status] of the StreamStatusManager
          bStream,       \* bStreamUpgrade_
          isRunning,     \* isRunning_
          isExitThread,  \* isExitThread_
          pThread,       \* pComsumeThread_
          cons,          \* control state of the consuming threads
          ring,          \* [up, stop, len] of the ring buffer
          slot,          \* SetActiveSlot has been called since the stream began
          alive,         \* the process runs
          overlapped,    \* history: Start and Stop calls have overlapped
          early,         \* history: a chunk came before StartStreamUpdate returned
          completed      \* history: the last chunk of the stream has been installed

streamVars == <<isRunning, isExitThread, pThread>>
histVars == <<overlapped, early, completed>>
vars == <<call, statusManager, bStream, streamVars, cons, ring, slot, alive, histVars>>

Op == {"Start", "Stop", "Data"}
Step == {"enter", "init", "flag", "spawn", "report", "test", "stop", "join", "wait",
         "delete", "exit", "push"}
NoCall == [op |-> "none", pc |-> "none", ptr |-> NoThread]

\* A consuming thread: in its loop, at its end, joined; "none" has no std::thread.
Looping == {"loop", "pop", "deal", "ongoing", "failed", "successful", "switch"}
ConsumerPC == Looping \cup {"none", "ended", "joined"}

At(t, op, pc) == alive /\ call[t].op = op /\ call[t].pc = pc
Goto(t, pc) == call' = [call EXCEPT ![t].pc = pc]
Return(t) == call' = [call EXCEPT ![t] = NoCall]
InControl(t) == call[t].op \in {"Start", "Stop"}

\* StreamStatusManager::UpdateCallback: without a callback not even the status is kept.
UpdateCallback(s) ==
    statusManager' = IF statusManager.cb THEN [statusManager EXCEPT !.status = s]
                     ELSE statusManager

NewRing == [up |-> TRUE, stop |-> FALSE, len |-> 0]
-----------------------------------------------------------------------------
(***************************************************************************)
(* The calls.  A client of an IPC thread waits for the answer.             *)
(***************************************************************************)
\* Bound: when Start and Stop calls have overlapped, no further call is considered.
Begin(t, op) ==
    /\ alive /\ call[t] = NoCall
    /\ ~overlapped
    /\ call' = [call EXCEPT ![t] = [op |-> op, pc |-> "enter", ptr |-> NoThread]]
    /\ overlapped' = (op \in {"Start", "Stop"} /\ \E u \in Threads : InControl(u))
    /\ early' = (early \/ (op = "Data" /\ \E u \in Threads : InControl(u) /\ call[u].op = "Start"))
    /\ UNCHANGED <<statusManager, bStream, streamVars, cons, ring, slot, alive, completed>>

(***************************************************************************)
(* SysInstallerInit(task, true) makes or resets the status manager; with   *)
(* false it only turns the server to the package path.  Other clients may  *)
(* do either at any time.                                                  *)
(***************************************************************************)
\* Some IPC thread serves the call at once.
Served == alive /\ \E t \in Threads : call[t] = NoCall

InitStream ==
    /\ Served
    /\ bStream' = TRUE
    /\ statusManager' = [statusManager EXCEPT !.made = TRUE, !.status = "INIT"]
    /\ UNCHANGED <<call, streamVars, cons, ring, slot, alive, histVars>>

InitPackage ==
    /\ Served
    /\ bStream' = FALSE
    /\ UNCHANGED <<call, statusManager, streamVars, cons, ring, slot, alive, histVars>>

\* On the package path the callback goes to the other manager.
SetCallback ==
    /\ Served
    /\ statusManager' = [statusManager EXCEPT !.cb = @ \/ (bStream /\ statusManager.made)]
    /\ UNCHANGED <<call, bStream, streamVars, cons, ring, slot, alive, histVars>>
-----------------------------------------------------------------------------
(***************************************************************************)
(* StartStreamUpdate.                                                      *)
(***************************************************************************)
\* A wrong StartCheck: a running stream is not refused.
StartAnyway(t) ==
    /\ At(t, "Start", "enter")
    /\ IF statusManager.made THEN Goto(t, "init") ELSE Return(t)
    /\ UNCHANGED <<statusManager, bStream, streamVars, cons, ring, slot, alive, histVars>>

\* Refused without a status manager or while a stream runs.
StartCheck(t) ==
    /\ At(t, "Start", "enter")
    /\ IF statusManager.made /\ ~isRunning THEN Goto(t, "init") ELSE Return(t)
    /\ UNCHANGED <<statusManager, bStream, streamVars, cons, ring, slot, alive, histVars>>

\* SetUpdateSuffixParam or the ring buffer's Init fails.
StartFails(t) ==
    /\ At(t, "Start", "init")
    /\ Return(t)
    /\ UNCHANGED <<statusManager, bStream, streamVars, cons, ring, slot, alive, histVars>>

StartInit(t) ==
    /\ At(t, "Start", "init")
    /\ ring' = NewRing
    /\ isExitThread' = FALSE
    /\ slot' = FALSE /\ completed' = FALSE
    /\ early' = \E u \in Threads : call[u].op = "Data"
    /\ Goto(t, "flag")
    /\ UNCHANGED <<statusManager, bStream, isRunning, pThread, cons, alive, overlapped>>

StartFlag(t) ==
    /\ At(t, "Start", "flag")
    /\ isRunning' = TRUE
    /\ Goto(t, "spawn")
    /\ UNCHANGED <<statusManager, bStream, isExitThread, pThread, cons, ring, slot, alive, histVars>>

StartSpawn(t) ==
    /\ At(t, "Start", "spawn")
    /\ \E c \in Consumers :
          /\ cons[c] = "none"
          /\ cons' = [cons EXCEPT ![c] = "loop"]
          /\ pThread' = c
    /\ Goto(t, "report")
    /\ UNCHANGED <<statusManager, bStream, isRunning, isExitThread, ring, slot, alive, histVars>>

\* No memory for the thread: isRunning_ stays set, only a Stop clears it.
StartNoThread(t) ==
    /\ At(t, "Start", "spawn")
    /\ pThread' = NoThread
    /\ Return(t)
    /\ UNCHANGED <<statusManager, bStream, isRunning, isExitThread, cons, ring, slot, alive, histVars>>

\* INIT is reported when the thread may be at work already.
StartReport(t) ==
    /\ At(t, "Start", "report")
    /\ UpdateCallback("INIT")
    /\ Return(t)
    /\ UNCHANGED <<bStream, streamVars, cons, ring, slot, alive, histVars>>
-----------------------------------------------------------------------------
(***************************************************************************)
(* StopStreamUpdate: the helper's test, the processer's own, the flags,    *)
(* the ring buffer, the join, and ThreadExitProc.                          *)
(***************************************************************************)
StopCheck(t) ==
    /\ At(t, "Stop", "enter")
    /\ IF statusManager.made /\ isRunning THEN Goto(t, "test") ELSE Return(t)
    /\ UNCHANGED <<statusManager, bStream, streamVars, cons, ring, slot, alive, histVars>>

StopTest(t) ==
    /\ At(t, "Stop", "test")
    /\ IF isRunning THEN Goto(t, "flag") ELSE Return(t)
    /\ UNCHANGED <<statusManager, bStream, streamVars, cons, ring, slot, alive, histVars>>

StopFlags(t) ==
    /\ At(t, "Stop", "flag")
    /\ isRunning' = FALSE /\ isExitThread' = TRUE
    /\ Goto(t, "stop")
    /\ UNCHANGED <<statusManager, bStream, pThread, cons, ring, slot, alive, histVars>>

\* A wrong StopRing: the waiting threads are not woken.
StopRingSilently(t) ==
    /\ At(t, "Stop", "stop")
    /\ Goto(t, IF pThread = NoThread THEN "exit" ELSE "join")
    /\ UNCHANGED <<statusManager, bStream, streamVars, cons, ring, slot, alive, histVars>>

\* ringBuffer_.Stop(), and the test of pComsumeThread_.
StopRing(t) ==
    /\ At(t, "Stop", "stop")
    /\ ring' = [ring EXCEPT !.stop = TRUE]
    /\ Goto(t, IF pThread = NoThread THEN "exit" ELSE "join")
    /\ UNCHANGED <<statusManager, bStream, streamVars, cons, slot, alive, histVars>>

\* The call of join: on a null pointer or a joined thread it ends the process.
StopJoin(t) ==
    /\ At(t, "Stop", "join")
    /\ IF pThread = NoThread \/ cons[pThread] \in {"none", "joined"}
          \/ \E u \in Threads : At(u, "Stop", "wait") /\ call[u].ptr = pThread
       THEN alive' = FALSE /\ UNCHANGED call
       ELSE call' = [call EXCEPT ![t].pc = "wait", ![t].ptr = pThread] /\ UNCHANGED alive
    /\ UNCHANGED <<statusManager, bStream, streamVars, cons, ring, slot, histVars>>

\* A wrong StopJoined: the thread is deleted before it has ended.
StopDetached(t) ==
    /\ At(t, "Stop", "wait")
    /\ Goto(t, "delete")
    /\ UNCHANGED <<statusManager, bStream, streamVars, cons, ring, slot, alive, histVars>>

\* ... and its return.
StopJoined(t) ==
    /\ At(t, "Stop", "wait")
    /\ cons[call[t].ptr] = "ended"
    /\ cons' = [cons EXCEPT ![call[t].ptr] = "joined"]
    /\ Goto(t, "delete")
    /\ UNCHANGED <<statusManager, bStream, streamVars, ring, slot, alive, histVars>>

\* delete pComsumeThread_, which an overlapping Start or Stop may have changed.
StopDelete(t) ==
    /\ At(t, "Stop", "delete")
    /\ IF pThread # NoThread /\ cons[pThread] # "joined"
       THEN alive' = FALSE /\ UNCHANGED <<cons, call, pThread>>
       ELSE /\ cons' = [c \in Consumers |-> IF c = pThread THEN "none" ELSE cons[c]]
            /\ pThread' = NoThread
            /\ Goto(t, "exit")
            /\ UNCHANGED alive
    /\ UNCHANGED <<statusManager, bStream, isRunning, isExitThread, ring, slot, histVars>>

\* ThreadExitProc: flags, Stop and Reset of the ring buffer, which can be pushed to again.
StopExit(t) ==
    /\ At(t, "Stop", "exit")
    /\ isRunning' = FALSE /\ isExitThread' = TRUE
    /\ ring' = NewRing
    /\ Return(t)
    /\ UNCHANGED <<statusManager, bStream, pThread, cons, slot, alive, histVars>>
-----------------------------------------------------------------------------
(***************************************************************************)
(* ProcessStreamData: the chunk is too large or the buffer was never made, *)
(* or it is pushed; isRunning_ is not asked.                               *)
(***************************************************************************)
DataRefused(t) ==
    /\ At(t, "Data", "enter")
    /\ Return(t)
    /\ UNCHANGED <<statusManager, bStream, streamVars, cons, ring, slot, alive, histVars>>

DataAccepted(t) ==
    /\ At(t, "Data", "enter")
    /\ statusManager.made /\ ring.up
    /\ Goto(t, "push")
    /\ UNCHANGED <<statusManager, bStream, streamVars, cons, ring, slot, alive, histVars>>

\* RingBuffer::Push waits while the buffer is full and not stopped.
Push(t) ==
    /\ At(t, "Data", "push")
    /\ \/ /\ ring.len < MAX_RING_BUFFER_NUM
          /\ ring' = [ring EXCEPT !.len = @ + 1]
       \/ ring.len = MAX_RING_BUFFER_NUM /\ ring.stop /\ UNCHANGED ring
    /\ Return(t)
    /\ UNCHANGED <<statusManager, bStream, streamVars, cons, slot, alive, histVars>>
-----------------------------------------------------------------------------
(***************************************************************************)
(* The consuming thread, ThreadExecuteFunc.                                *)
(***************************************************************************)
ConsumerAt(c, pc) == alive /\ cons[c] = pc
ConsumerGoto(c, pc) == cons' = [cons EXCEPT ![c] = pc]

ConsumerLoop(c) ==
    /\ ConsumerAt(c, "loop")
    /\ ConsumerGoto(c, IF isExitThread THEN "ended" ELSE "pop")
    /\ UNCHANGED <<call, statusManager, bStream, streamVars, ring, slot, alive, histVars>>

\* RingBuffer::Pop waits while the buffer is empty and not stopped.
Pop(c) ==
    /\ ConsumerAt(c, "pop")
    /\ \/ /\ ring.len > 0
          /\ ring' = [ring EXCEPT !.len = @ - 1]
          /\ ConsumerGoto(c, "deal")
       \/ /\ ring.stop
          /\ ConsumerGoto(c, "ended")
          /\ UNCHANGED ring
    /\ UNCHANGED <<call, statusManager, bStream, streamVars, slot, alive, histVars>>

\* StartBinChunkUpdate: one of three results, or another that is ignored.
StartBinChunkUpdate(c) ==
    /\ ConsumerAt(c, "deal")
    /\ \E r \in {"ongoing", "failed", "successful", "loop"} :
          /\ ConsumerGoto(c, r)
          /\ completed' = (completed \/ r = "successful")
    /\ UNCHANGED <<call, statusManager, bStream, streamVars, ring, slot, alive, overlapped, early>>

ReportOngoing(c) ==
    /\ ConsumerAt(c, "ongoing")
    /\ UpdateCallback("ONGOING")
    /\ ConsumerGoto(c, "loop")
    /\ UNCHANGED <<call, bStream, streamVars, ring, slot, alive, histVars>>

\* A wrong ReportFailed: the failed chunk is tried again.
RetryFailed(c) ==
    /\ ConsumerAt(c, "failed")
    /\ UpdateCallback("FAILED")
    /\ ConsumerGoto(c, "deal")
    /\ UNCHANGED <<call, bStream, streamVars, ring, slot, alive, histVars>>

\* The thread ends and leaves isRunning_ set.
ReportFailed(c) ==
    /\ ConsumerAt(c, "failed")
    /\ UpdateCallback("FAILED")
    /\ ConsumerGoto(c, "ended")
    /\ UNCHANGED <<call, bStream, streamVars, ring, slot, alive, histVars>>

ReportSuccessful(c) ==
    /\ ConsumerAt(c, "successful")
    /\ UpdateCallback("SUCCESSFUL")
    /\ ConsumerGoto(c, "switch")
    /\ UNCHANGED <<call, bStream, streamVars, ring, slot, alive, histVars>>

\* A wrong SetActiveSlot: a stream that was stopped meanwhile is not switched to.
SetActiveSlotUnlessStopped(c) ==
    /\ ConsumerAt(c, "switch")
    /\ slot' = ~isExitThread
    /\ ConsumerGoto(c, "ended")
    /\ UNCHANGED <<call, statusManager, bStream, streamVars, ring, alive, histVars>>

\* A wrong SetActiveSlot: the thread goes on with the next chunk.
SetActiveSlotGoesOn(c) ==
    /\ ConsumerAt(c, "switch")
    /\ slot' = TRUE
    /\ ConsumerGoto(c, "loop")
    /\ UNCHANGED <<call, statusManager, bStream, streamVars, ring, alive, histVars>>

\* The slot is switched after the client has been told.
SetActiveSlot(c) ==
    /\ ConsumerAt(c, "switch")
    /\ slot' = TRUE
    /\ ConsumerGoto(c, "ended")
    /\ UNCHANGED <<call, statusManager, bStream, streamVars, ring, alive, histVars>>
-----------------------------------------------------------------------------
(***************************************************************************)
(* The process.  IsTaskRunning asks for calls in progress and for the      *)
(* package manager's tasks, not for the stream: the service may be         *)
(* unloaded between two chunks.                                            *)
(***************************************************************************)
Init ==
    /\ call = [t \in Threads |-> NoCall]
    /\ statusManager = [made |-> FALSE, cb |-> FALSE, status |-> "INIT"]
    /\ bStream = FALSE
    /\ isRunning = FALSE /\ isExitThread = FALSE /\ pThread = NoThread
    /\ cons = [c \in Consumers |-> "none"]
    /\ ring = [up |-> FALSE, stop |-> FALSE, len |-> 0]
    /\ slot = FALSE /\ alive = TRUE
    /\ overlapped = FALSE /\ early = FALSE /\ completed = FALSE

Reload ==
    /\ ~alive \/ \A t \in Threads : call[t] = NoCall
    /\ call' = [t \in Threads |-> NoCall]
    /\ statusManager' = [made |-> FALSE, cb |-> FALSE, status |-> "INIT"]
    /\ bStream' = FALSE
    /\ isRunning' = FALSE /\ isExitThread' = FALSE /\ pThread' = NoThread
    /\ cons' = [c \in Consumers |-> "none"]
    /\ ring' = [up |-> FALSE, stop |-> FALSE, len |-> 0]
    /\ slot' = FALSE /\ alive' = TRUE
    /\ overlapped' = FALSE /\ early' = FALSE /\ completed' = FALSE

CallStep(t) ==
    \/ StartCheck(t) \/ StartFails(t) \/ StartInit(t) \/ StartFlag(t) \/ StartSpawn(t)
    \/ StartNoThread(t) \/ StartReport(t)
    \/ StopCheck(t) \/ StopTest(t) \/ StopFlags(t) \/ StopRing(t) \/ StopJoin(t)
    \/ StopJoined(t) \/ StopDelete(t) \/ StopExit(t)
    \/ DataRefused(t) \/ DataAccepted(t) \/ Push(t)

ConsumerStep(c) ==
    \/ ConsumerLoop(c) \/ Pop(c) \/ StartBinChunkUpdate(c)
    \/ ReportOngoing(c) \/ ReportFailed(c) \/ ReportSuccessful(c) \/ SetActiveSlot(c)

Next ==
    \/ InitStream \/ InitPackage \/ SetCallback
    \/ \E t \in Threads : CallStep(t) \/ \E op \in Op : Begin(t, op)
    \/ \E c \in Consumers : ConsumerStep(c)
    \/ Reload

Spec == Init /\ [][Next]_vars

(***************************************************************************)
(* Calls that have arrived and the consuming thread keep running; the      *)
(* installer of a chunk returns.  Clients owe nothing.                     *)
(***************************************************************************)
FairSpec == /\ Spec
            /\ \A t \in Threads : WF_vars(CallStep(t))
            /\ \A c \in Consumers : WF_vars(ConsumerStep(c))
-----------------------------------------------------------------------------
(***************************************************************************)
(* Properties.                                                             *)
(***************************************************************************)
\* The types of the stream's state.
StreamTypeOK ==
    /\ call \in [Threads -> [op : Op, pc : Step, ptr : Consumers \cup {NoThread}] \cup {NoCall}]
    /\ statusManager \in [made : BOOLEAN, cb : BOOLEAN,
                          status : {"INIT", "ONGOING", "FAILED", "SUCCESSFUL"}]
    /\ {bStream, isRunning, isExitThread, slot, alive, overlapped, early, completed} \subseteq BOOLEAN
    /\ pThread \in Consumers \cup {NoThread}
    /\ cons \in [Consumers -> ConsumerPC]
    /\ ring \in [up : BOOLEAN, stop : BOOLEAN, len : 0..MAX_RING_BUFFER_NUM]

Live(c) == cons[c] \in Looping

(***************************************************************************)
(* If the clients do not let StartStreamUpdate and StopStreamUpdate        *)
(* overlap, at most one thread installs chunks, it is the one that         *)
(* pComsumeThread_ names, and none is left when StopStreamUpdate has       *)
(* returned.                                                               *)
(***************************************************************************)
OneConsumer ==
    alive /\ ~overlapped =>
        /\ \A c \in Consumers : Live(c) => pThread = c
        /\ ~isRunning /\ (\A t \in Threads : ~InControl(t)) => \A c \in Consumers : cons[c] = "none"

\* The types, and one consuming thread at most, which is the one that can be joined.
StreamInv == StreamTypeOK /\ OneConsumer

(***************************************************************************)
(* Stop tests isRunning_ without a lock; the process dies of a double      *)
(* join, or of a thread deleted while it runs, only when the clients let   *)
(* StartStreamUpdate and StopStreamUpdate calls overlap.                   *)
(***************************************************************************)
DiesOnlyOfOverlap == ~alive => overlapped

(***************************************************************************)
(* Without overlapping Start and Stop calls, the slot is switched only     *)
(* when the last chunk of this stream has been installed, and a consuming  *)
(* thread that is at its end has switched it if so, also when a            *)
(* StopStreamUpdate came between the report and the switch.                *)
(***************************************************************************)
SlotFollowsStream ==
    ~overlapped =>
        /\ slot => completed
        /\ alive /\ pThread # NoThread /\ cons[pThread] \in {"ended", "joined"} /\ completed => slot

(***************************************************************************)
(* A success that the client has been told is not taken back while the     *)
(* stream is there, unless a chunk was sent before StartStreamUpdate had   *)
(* returned, whose report of INIT then comes last, or SysInstallerInit was *)
(* called again.                                                           *)
(***************************************************************************)
SuccessStays ==
    [][ /\ statusManager.status = "SUCCESSFUL" /\ completed /\ completed'
        /\ ~early /\ ~overlapped /\ alive'
        => \/ statusManager'.status = "SUCCESSFUL"
           \/ InitStream ]_vars

(***************************************************************************)
(* StopStreamUpdate returns: the consuming thread is woken wherever it     *)
(* waits, and the join comes to an end.                                    *)
(***************************************************************************)
StopReturns ==
    \A t \in Threads : call[t].op = "Stop" ~> (call[t].op # "Stop" \/ ~alive \/ overlapped)

(***************************************************************************)
(* A ProcessStreamData call that waits for a place does not wait for ever  *)
(* while a thread takes chunks and no other client sends any.  When the    *)
(* thread has ended by itself, or the stream was stopped, it may.          *)
(***************************************************************************)
DataReturns ==
    \A t \in Threads :
        []<>(\/ ~At(t, "Data", "push")
             \/ \A c \in Consumers : ~Live(c)
             \/ \E u \in Threads \ {t} : call[u].op = "Data")
=============================================================================
