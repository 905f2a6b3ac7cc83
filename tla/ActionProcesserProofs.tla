----------------------- MODULE ActionProcesserProofs -----------------------
(***************************************************************************)
(* Proofs about the action processer, for any number of IPC threads and    *)
(* processers and for calls that overlap in any way (Serial or not).  The  *)
(* first part of the invariant holds also when a call uses the processer   *)
(* of one object and the status manager of another, as InstallerManager    *)
(* allows.                                                                 *)
(***************************************************************************)
EXTENDS ActionProcesser, SequenceTheorems, TLAPS

\* UpdateCallback keeps a status manager well typed.
LEMMA UpdateCallbackType ==
    ASSUME NEW s \in StatusValue, NEW status \in UpdateStatus, NEW pct \in 0..100
    PROVE  UpdateCallback(s, status, pct) \in StatusValue
<1>1. NewPercent(s, status, pct) \in 0..100
  BY DEF NewPercent, StatusValue
<1> QED
  BY <1>1 DEF UpdateCallback, StatusValue

\* A fresh status manager is well typed.
LEMMA StatusInitType == StatusInit \in StatusValue
<1>1. FALSE \in BOOLEAN /\ "INIT" \in UpdateStatus /\ 0 \in 0..100
  BY DEF UpdateStatus
<1> QED
  BY <1>1 DEF StatusInit, StatusValue

\* The empty queue has no positions.
LEMMA EmptyQueue == <<>> \in Seq(Action) /\ DOMAIN <<>> = {}
<1>1. <<>> \in Seq(Action) /\ Len(<<>>) = 0
  BY EmptySeq
<1>2. DOMAIN <<>> = 1..Len(<<>>)
  BY <1>1, LenProperties
<1> QED
  BY <1>1, <1>2

\* A report keeps all status managers well typed.
LEMMA ReportType ==
    ASSUME statusManager \in [Objs -> StatusValue], NEW o \in Objs,
           NEW status \in UpdateStatus, NEW pct \in 0..100, Report(o, status, pct)
    PROVE  statusManager' \in [Objs -> StatusValue]
  BY UpdateCallbackType DEF Report

\* A finished run is reported with a status that ends a run.
LEMMA FinalStatusTerminal == \A e \in ErrCode : FinalStatus(e) \in Terminal
  BY DEF ErrCode, FinalStatus, Terminal, UpdateStatus

\* The null pointer is no action.
LEMMA NoActionIsNone == NoAction \notin Action
<1>1. \A a \in Action : a.kind # "null"
  BY DEF Action
<1> QED
  BY <1>1 DEF NoAction

\* The new value of a call's action has the type of an action.
LEMMA NewActionType ==
    ASSUME NEW t \in Threads, NEW k \in {"PkgVerify", "ABUpdate"},
           thread[t].sm \in Objs, thread[t].pkg \in PkgPath
    PROVE  NewAction(t, k) \in Action /\ NewAction(t, k).sm = thread[t].sm
  BY DEF NewAction, Action

(***************************************************************************)
(* The inductive invariant.  A thread that runs a queue has marked its     *)
(* processer as running; while it performs an action, curAction_ is that   *)
(* action; no two threads run the same queue, and isRunning_ is not set    *)
(* without a thread that will clear it.                                    *)
(***************************************************************************)
Performing == {"perform"} \cup ActionPC

ThreadInv(t) ==
    /\ thread[t].pc # "idle" => thread[t].ap \in Objs /\ thread[t].sm \in Objs
    /\ thread[t].pc \in RunPC => isRunning[thread[t].ap]
    /\ thread[t].pc \in Performing => curAction[thread[t].ap] # NoAction
    /\ thread[t].pc \in ActionPC => thread[t].act = curAction[thread[t].ap]

Exclusive == \A t, u \in Threads :
    thread[t].pc \in RunPC /\ thread[u].pc \in RunPC /\ thread[t].ap = thread[u].ap => t = u

Attended == \A p \in Objs : isRunning[p] => \E t \in Threads : Runs(t, p)

\* What the threads' part of the invariant says.
ThreadsOK == (\A u \in Threads : ThreadInv(u)) /\ Exclusive /\ Attended

\* The part that does not depend on who drives the processers.
CoreInv == ProcTypeOK /\ ThreadsOK

\* The steps of the processers, whoever drives them.
CoreNext ==
    \/ \E t \in Threads : ProcStep(t)
    \/ \E t \in Threads, p, s \in Objs : EnterCheck(t, p, s)
    \/ \E o \in Objs : SetUpdateCallback(o)

\* Calls and actions report to the status manager of the processer that they use.
OwnThreads == \A t \in Threads : thread[t].pc # "idle" => thread[t].sm = thread[t].ap

OwnActions ==
    /\ \A p \in Objs : \A i \in DOMAIN actionQue[p] : actionQue[p][i].sm = p
    /\ \A p \in Objs : curAction[p] # NoAction => curAction[p].sm = p

\* Nothing is recorded without a callback, so INIT is then the only status.
StatusInv ==
    \A p \in Objs :
        /\ ~statusManager[p].updateCallback => statusManager[p].updateStatus = "INIT"
        /\ statusManager[p].updateStatus = "ONGOING" => isRunning[p]

ProcInv == CoreInv /\ OwnThreads /\ OwnActions /\ StatusInv

\* The initial states satisfy the first part of the invariant.
LEMMA CoreInit == ProcInit => CoreInv
<1> SUFFICES ASSUME ProcInit PROVE CoreInv
  OBVIOUS
<1> USE DEF ProcInit, IdleThread
<1>1. ProcTypeOK
  <2>1. isRunning \in [Objs -> BOOLEAN] /\ activated \in [Objs -> BOOLEAN]
    BY Zenon
  <2>2. actionQue \in [Objs -> Seq(Action)]
    BY EmptyQueue, Zenon
  <2>3. curAction \in [Objs -> Action \cup {NoAction}] /\ verified \in [Objs -> SUBSET Threads]
    BY Zenon
  <2>5. statusManager \in [Objs -> StatusValue]
    BY StatusInitType
  <2>4. thread \in [Threads -> ThreadState]
    BY DEF ThreadState, CallPC, PkgPath, UpdateStatus, ErrCode
  <2> QED
    BY <2>1, <2>2, <2>3, <2>4, <2>5 DEF ProcTypeOK
<1>2. \A t \in Threads : ThreadInv(t)
  BY DEF ThreadInv, RunPC, Performing, ActionPC
<1>3. Exclusive /\ Attended
  BY DEF Exclusive, Attended, RunPC, ActionPC
<1> QED
  BY <1>1, <1>2, <1>3 DEF CoreInv, ThreadsOK

\* The initial states satisfy the invariant.
LEMMA ProcInvInit == ProcInit => ProcInv
<1> SUFFICES ASSUME ProcInit PROVE ProcInv
  OBVIOUS
<1> USE DEF ProcInit, IdleThread
<1>1. OwnThreads
  BY DEF OwnThreads
<1>2. OwnActions
  <2>1. \A p \in Objs : actionQue[p] = <<>> /\ curAction[p] = NoAction
    BY Zenon
  <2> QED
    BY <2>1, EmptyQueue, Zenon DEF OwnActions
<1>3. StatusInv
  BY DEF StatusInv, StatusInit
<1> QED
  BY <1>1, <1>2, <1>3, CoreInit DEF ProcInv

\* Return changes one thread, which then is idle.
LEMMA ReturnFacts ==
    ASSUME ProcTypeOK, NEW t \in Threads, Return(t)
    PROVE  thread'[t].pc = "idle" /\ \A u \in Threads : u # t => thread'[u] = thread[u]
  BY DEF ProcTypeOK, Return, IdleThread

\* A thread that does not run a queue moves, and does not start to run one:
\* nothing the others rely on changes.
LEMMA CallerMoves ==
    ASSUME CoreInv, NEW t \in Threads, thread[t].pc \notin RunPC, thread'[t].pc \notin RunPC,
           thread'[t].pc # "idle" => thread'[t].ap \in Objs /\ thread'[t].sm \in Objs,
           \A u \in Threads : u # t => thread'[u] = thread[u],
           UNCHANGED <<isRunning, curAction>>
    PROVE  ThreadsOK'
<1>0. ProcTypeOK /\ ThreadsOK
  BY DEF CoreInv
<1>1. Performing \subseteq RunPC /\ ActionPC \subseteq RunPC
  BY DEF RunPC, Performing, ActionPC
<1>2. \A u \in Threads : ThreadInv(u)'
  BY <1>0, <1>1 DEF ThreadsOK, ThreadInv
<1>3. Exclusive'
  BY <1>0 DEF ThreadsOK, Exclusive
<1>4. Attended'
  BY <1>0 DEF ThreadsOK, Attended, Runs
<1> QED
  BY <1>2, <1>3, <1>4 DEF ThreadsOK

\* The runner ends its run: it clears isRunning_ and returns in one step.
LEMMA RunnerReturn ==
    ASSUME CoreInv, NEW t \in Threads, thread[t].pc \in RunPC, Return(t),
           isRunning' = [isRunning EXCEPT ![thread[t].ap] = FALSE],
           \A p \in Objs : p # thread[t].ap => curAction'[p] = curAction[p]
    PROVE  ThreadsOK'
<1>0. ProcTypeOK /\ ThreadsOK
  BY DEF CoreInv
<1>1. thread'[t].pc = "idle" /\ \A u \in Threads : u # t => thread'[u] = thread[u]
  BY <1>0, ReturnFacts
<1>2. /\ "idle" \notin RunPC /\ "idle" \notin Performing /\ "idle" \notin ActionPC
      /\ Performing \subseteq RunPC /\ ActionPC \subseteq RunPC
  BY DEF RunPC, Performing, ActionPC
<1>3. \A u \in Threads : u # t /\ thread[u].pc \in RunPC => thread[u].ap # thread[t].ap
  BY <1>0 DEF ThreadsOK, Exclusive
<1>4. /\ \A p \in Objs : p # thread[t].ap => isRunning'[p] = isRunning[p]
      /\ thread[t].ap \in Objs => ~isRunning'[thread[t].ap]
  BY <1>0 DEF ProcTypeOK
<1>5. \A u \in Threads : ThreadInv(u)'
  <2> SUFFICES ASSUME NEW u \in Threads PROVE ThreadInv(u)'
    OBVIOUS
  <2>1. CASE u = t
    BY <1>1, <1>2, <2>1 DEF ThreadInv
  <2>2. CASE u # t
    <3>1. ThreadInv(u) /\ thread'[u] = thread[u]
      BY <1>0, <1>1, <2>2 DEF ThreadsOK
    <3> QED
      BY <1>2, <1>3, <1>4, <2>2, <3>1 DEF ThreadInv, RunPC
  <2> QED
    BY <2>1, <2>2
<1>6. Exclusive'
  BY <1>0, <1>1, <1>2 DEF ThreadsOK, Exclusive
<1>7. Attended'
  <2> SUFFICES ASSUME NEW p \in Objs, isRunning'[p] PROVE \E u \in Threads : Runs(u, p)'
    BY DEF Attended
  <2>1. p # thread[t].ap /\ isRunning[p]
    BY <1>4
  <2>2. PICK u \in Threads : Runs(u, p)
    BY <1>0, <2>1 DEF ThreadsOK, Attended
  <2>3. u # t
    BY <2>1, <2>2 DEF Runs
  <2> QED
    BY <1>1, <2>2, <2>3 DEF Runs
<1> QED
  BY <1>5, <1>6, <1>7 DEF ThreadsOK

\* The threads' part: each position keeps what it relies on, and no two threads run one queue.
LEMMA ThreadStep ==
    CoreInv /\ [CoreNext]_procVars => ThreadsOK'
<1> SUFFICES ASSUME CoreInv, [CoreNext]_procVars PROVE ThreadsOK'
  OBVIOUS
<1>0. ProcTypeOK /\ \A t \in Threads : ThreadInv(t)
  BY DEF CoreInv, ThreadsOK
<1>1. ASSUME NEW t \in Threads, CheckRunning(t) PROVE ThreadsOK'
  <2>1. thread[t].pc = "check" /\ UNCHANGED <<isRunning, curAction>>
    BY <1>1 DEF CheckRunning
  <2>2. CASE Return(t)
    BY <1>0, <2>1, <2>2, ReturnFacts, CallerMoves DEF RunPC, ActionPC
  <2>3. CASE Goto(t, "addVerify")
    <3>1. /\ thread'[t].pc = "addVerify" /\ thread'[t].ap \in Objs
          /\ thread'[t].sm \in Objs
          /\ \A u \in Threads : u # t => thread'[u] = thread[u]
      BY <1>0, <2>1, <2>3 DEF Goto, ProcTypeOK, ThreadState, ThreadInv
    <3> QED
      BY <2>1, <3>1, CallerMoves DEF RunPC, ActionPC
  <2> QED
    BY <1>1, <2>2, <2>3 DEF CheckRunning
<1>2. ASSUME NEW t \in Threads, StartRefused(t) PROVE ThreadsOK'
  <2>1. thread[t].pc = "start" /\ Return(t) /\ UNCHANGED <<isRunning, curAction>>
    BY <1>2 DEF StartRefused
  <2> QED
    BY <1>0, <2>1, ReturnFacts, CallerMoves DEF RunPC, ActionPC
<1>3. ASSUME NEW t \in Threads, CompletedError(t) PROVE ThreadsOK'
  <2>1. /\ thread[t].pc \in RunPC /\ Return(t)
        /\ isRunning' = [isRunning EXCEPT ![thread[t].ap] = FALSE]
        /\ \A p \in Objs : p # thread[t].ap => curAction'[p] = curAction[p]
    BY <1>0, <1>3 DEF CompletedError, RunPC, ActionPC, ProcTypeOK
  <2> QED
    BY <2>1, RunnerReturn
<1>4. ASSUME NEW t \in Threads, StartNextEnd(t) PROVE ThreadsOK'
  <2>1. /\ thread[t].pc \in RunPC /\ Return(t)
        /\ isRunning' = [isRunning EXCEPT ![thread[t].ap] = FALSE]
        /\ curAction' = curAction
    BY <1>4 DEF StartNextEnd, RunPC
  <2> QED
    BY <2>1, RunnerReturn
<1>5. ASSUME NEW t \in Threads, NEW p \in Objs, NEW s \in Objs, EnterCheck(t, p, s) PROVE ThreadsOK'
  <2>1. /\ thread'[t].pc = "check" /\ thread'[t].ap = p /\ thread'[t].sm = s
        /\ \A u \in Threads : u # t => thread'[u] = thread[u]
    BY <1>0, <1>5 DEF EnterCheck, IdleThread, ProcTypeOK
  <2>2. thread[t].pc = "idle" /\ UNCHANGED <<isRunning, curAction>>
    BY <1>5 DEF EnterCheck
  <2> QED
    BY <2>1, <2>2, CallerMoves DEF RunPC, ActionPC
<1>9. ASSUME NEW t \in Threads, Perform(t) PROVE ThreadsOK'
  <2>1. thread[t] \in ThreadState /\ UNCHANGED <<isRunning, curAction>>
    BY <1>0, <1>9 DEF Perform, ProcTypeOK
  <2>2. /\ thread[t].pc = "perform" /\ thread'[t].pc \in {"install", "completed", "verifyBegin"}
        /\ thread'[t].ap = thread[t].ap /\ thread'[t].sm = thread[t].sm
        /\ thread'[t].act = curAction[thread[t].ap]
        /\ \A u \in Threads : u # t => thread'[u] = thread[u]
    BY <1>0, <1>9, <2>1 DEF Perform, ProcTypeOK, ThreadState
  <2>3. /\ thread[t].pc \in RunPC /\ thread[t].pc \in Performing /\ thread[t].pc # "idle"
        /\ thread'[t].pc \in RunPC /\ thread'[t].pc # "idle"
    BY <2>2 DEF RunPC, Performing, ActionPC
  <2>4. \A u \in Threads : ThreadInv(u)'
    BY <1>0, <2>1, <2>2, <2>3 DEF ThreadInv
  <2>5. Exclusive' /\ Attended'
    BY <2>1, <2>2, <2>3 DEF CoreInv, ThreadsOK, Exclusive, Attended, Runs
  <2> QED
    BY <2>4, <2>5 DEF ThreadsOK
<1> USE NoActionIsNone DEF CoreInv, ProcTypeOK, ThreadState, ThreadsOK, ThreadInv, Exclusive,
            Attended, Runs, Goto, CallPC, RunPC, ActionPC, Performing
<1>6. ASSUME NEW t \in Threads, AddVerify(t) PROVE ThreadsOK'
  BY <1>6 DEF AddVerify, AddAction
<1>7. ASSUME NEW t \in Threads, AddUpdate(t) PROVE ThreadsOK'
  BY <1>7 DEF AddUpdate, AddAction
<1>8. ASSUME NEW t \in Threads, Start(t) PROVE ThreadsOK'
  BY <1>8 DEF Start, TakeAction, Report
<1>10. ASSUME NEW t \in Threads, VerifyBegin(t) PROVE ThreadsOK'
  BY <1>10 DEF VerifyBegin, Report
<1>11. ASSUME NEW t \in Threads, VerifyOk(t) PROVE ThreadsOK'
  BY <1>11 DEF VerifyOk
<1>12. ASSUME NEW t \in Threads, VerifyFail(t) PROVE ThreadsOK'
  BY <1>12 DEF VerifyFail
<1>13. ASSUME NEW t \in Threads, VerifyEnd(t) PROVE ThreadsOK'
  BY <1>13 DEF VerifyEnd, Report
<1>14. ASSUME NEW t \in Threads, InstallProgress(t) PROVE ThreadsOK'
  BY <1>14 DEF InstallProgress
<1>15. ASSUME NEW t \in Threads, SetProgress(t) PROVE ThreadsOK'
  BY <1>15 DEF SetProgress, Report
<1>16. ASSUME NEW t \in Threads, InstallOk(t) PROVE ThreadsOK'
  BY <1>16 DEF InstallOk
<1>17. ASSUME NEW t \in Threads, InstallFail(t) PROVE ThreadsOK'
  BY <1>17 DEF InstallFail
<1>18. ASSUME NEW t \in Threads, CompletedOk(t) PROVE ThreadsOK'
  <2>1. curAction[thread[t].ap] # NoAction /\ Goto(t, "next")
    BY <1>18 DEF CompletedOk
  <2> QED
    BY <1>18, <2>1 DEF CompletedOk
<1>19. ASSUME NEW t \in Threads, StartNextAction(t) PROVE ThreadsOK'
  BY <1>19 DEF StartNextAction, TakeAction
<1>20. ASSUME NEW o \in Objs, SetUpdateCallback(o) PROVE ThreadsOK'
  BY <1>20 DEF SetUpdateCallback
<1>21. CASE UNCHANGED procVars
  BY <1>21 DEF procVars
<1> QED
  BY <1>1, <1>2, <1>3, <1>4, <1>5, <1>6, <1>7, <1>8, <1>9, <1>10, <1>11, <1>12,
     <1>13, <1>14, <1>15, <1>16, <1>17, <1>18, <1>19, <1>20, <1>21
     DEF CoreNext, ProcStep, InstallEnds

\* The values of a thread's locals have their types.
LEMMA IdleType == IdleThread \in ThreadState
  BY DEF IdleThread, ThreadState, CallPC, PkgPath, UpdateStatus, ErrCode

\* A thread that goes on within a call, or returns, stays well typed.
LEMMA GotoType ==
    ASSUME thread \in [Threads -> ThreadState], NEW t \in Threads, NEW l \in CallPC
    PROVE  /\ Goto(t, l) => thread' \in [Threads -> ThreadState]
           /\ Return(t) => thread' \in [Threads -> ThreadState]
<1>1. Goto(t, l) => thread' \in [Threads -> ThreadState]
  BY DEF Goto, ThreadState
<1>2. Return(t) => thread' \in [Threads -> ThreadState]
  BY IdleType DEF Return
<1> QED
  BY <1>1, <1>2

\* A status that some status manager shows is a status.
LEMMA ShownStatus ==
    ASSUME ProcTypeOK, NEW o \in Objs
    PROVE  statusManager[o].updateStatus \in UpdateStatus
  BY DEF ProcTypeOK, StatusValue

\* What the invariant says of a thread inside a call, in one place.
LEMMA CallFacts ==
    ASSUME CoreInv, NEW t \in Threads
    PROVE  /\ thread[t] \in ThreadState
           /\ thread[t].pc # "idle" => thread[t].ap \in Objs /\ thread[t].sm \in Objs
           /\ thread[t].pc \in Performing => curAction[thread[t].ap] \in Action
           /\ thread[t].pc \in ActionPC =>
                 thread[t].act \in Action /\ thread[t].act = curAction[thread[t].ap]
<1>1. thread[t] \in ThreadState /\ ThreadInv(t)
  BY DEF CoreInv, ThreadsOK, ProcTypeOK
<1>2. "idle" \notin Performing /\ ActionPC \subseteq Performing
  BY DEF Performing, ActionPC
<1>3. thread[t].pc # "idle" => thread[t].ap \in Objs /\ thread[t].sm \in Objs
  BY <1>1 DEF ThreadInv
<1>4. thread[t].pc \in Performing => curAction[thread[t].ap] \in Action
  BY <1>1, <1>2, <1>3 DEF ThreadInv, CoreInv, ProcTypeOK
<1>5. thread[t].pc \in ActionPC => thread[t].act = curAction[thread[t].ap]
  BY <1>1 DEF ThreadInv
<1> QED
  BY <1>1, <1>2, <1>3, <1>4, <1>5

\* Types are kept.
LEMMA TypeStep == CoreInv /\ [CoreNext]_procVars => ProcTypeOK'
<1> SUFFICES ASSUME CoreInv, [CoreNext]_procVars PROVE ProcTypeOK'
  OBVIOUS
<1>0. ProcTypeOK
  BY DEF CoreInv
<1>1. ASSUME NEW t \in Threads, CheckRunning(t) PROVE ProcTypeOK'
  BY <1>0, <1>1, CallFacts, GotoType, ReportType
  DEF CheckRunning, ProcTypeOK, ThreadState, CallPC, RunPC, ActionPC, Performing, UpdateStatus
<1>2. ASSUME NEW t \in Threads, AddVerify(t) PROVE ProcTypeOK'
  BY <1>0, <1>2, CallFacts, GotoType, ReportType, NewActionType
  DEF AddVerify, AddAction, ProcTypeOK, ThreadState, CallPC, RunPC, ActionPC, Performing,
     UpdateStatus
<1>3. ASSUME NEW t \in Threads, AddUpdate(t) PROVE ProcTypeOK'
  BY <1>0, <1>3, CallFacts, GotoType, ReportType, NewActionType
  DEF AddUpdate, AddAction, ProcTypeOK, ThreadState, CallPC, RunPC, ActionPC, Performing,
     UpdateStatus
<1>4. ASSUME NEW t \in Threads, StartRefused(t) PROVE ProcTypeOK'
  BY <1>0, <1>4, CallFacts, GotoType, ReportType
  DEF StartRefused, ProcTypeOK, ThreadState, CallPC, RunPC, ActionPC, Performing, UpdateStatus
<1>5. ASSUME NEW t \in Threads, Start(t) PROVE ProcTypeOK'
  <2> DEFINE p == thread[t].ap
  <2>1. p \in Objs /\ actionQue[p] \in Seq(Action) /\ actionQue[p] # <<>>
    BY <1>0, <1>5, CallFacts DEF Start, ProcTypeOK
  <2>2. Head(actionQue[p]) \in Action /\ Tail(actionQue[p]) \in Seq(Action)
    BY <2>1
  <2>3. thread' \in [Threads -> ThreadState]
    <3>1. "perform" \in CallPC /\ Goto(t, "perform")
      BY <1>5 DEF Start, CallPC, RunPC, ActionPC, Performing
    <3> QED
      BY <1>0, <3>1, GotoType DEF ProcTypeOK
  <2>4. statusManager' \in [Objs -> StatusValue]
    BY <1>0, <1>5, <2>1, ReportType DEF Start, ProcTypeOK, UpdateStatus
  <2> HIDE DEF p
  <2>5. /\ isRunning' \in [Objs -> BOOLEAN] /\ activated' \in [Objs -> BOOLEAN]
        /\ verified' \in [Objs -> SUBSET Threads]
    BY <1>0, <1>5, <2>1 DEF Start, ProcTypeOK, p
  <2>6. actionQue' \in [Objs -> Seq(Action)] /\ curAction' \in [Objs -> Action \cup {NoAction}]
    BY <1>0, <1>5, <2>2 DEF Start, TakeAction, ProcTypeOK, p
  <2> QED
    BY <2>3, <2>4, <2>5, <2>6 DEF ProcTypeOK
<1>6. ASSUME NEW t \in Threads, Perform(t) PROVE ProcTypeOK'
  <2>1. thread[t] \in ThreadState
    BY CallFacts
  <2>2. /\ curAction[thread[t].ap] \in Action
        /\ statusManager[curAction[thread[t].ap].sm].updateStatus \in UpdateStatus
    BY <1>0, <1>6, CallFacts, ShownStatus DEF Perform, Performing, Action
  <2>3. [thread[t] EXCEPT !.act = curAction[thread[t].ap], !.err = "SUCCESS",
             !.st = statusManager[curAction[thread[t].ap].sm].updateStatus,
             !.pc = CASE curAction[thread[t].ap].kind = "ABUpdate" -> "install"
                      [] curAction[thread[t].ap].kind = "PkgVerify"
                           /\ curAction[thread[t].ap].pkg = "" -> "completed"
                      [] OTHER -> "verifyBegin"] \in ThreadState
    BY <2>1, <2>2 DEF ThreadState, CallPC, RunPC, ActionPC, ErrCode
  <2> QED
    BY <1>0, <1>6, <2>3 DEF Perform, ProcTypeOK
<1>7. ASSUME NEW t \in Threads, VerifyBegin(t) PROVE ProcTypeOK'
  <2>1. thread[t].act.sm \in Objs /\ thread[t].st \in UpdateStatus
    BY <1>7, CallFacts DEF VerifyBegin, ActionPC, Action, ThreadState
  <2>2. statusManager' \in [Objs -> StatusValue]
    BY <1>0, <1>7, <2>1, ReportType DEF VerifyBegin, ProcTypeOK
  <2>3. thread' \in [Threads -> ThreadState]
    BY <1>0, <1>7, GotoType DEF VerifyBegin, ProcTypeOK, CallPC, RunPC, ActionPC
  <2> QED
    BY <1>0, <1>7, <2>2, <2>3 DEF VerifyBegin, ProcTypeOK
<1>8. ASSUME NEW t \in Threads, VerifyOk(t) PROVE ProcTypeOK'
  <2>1. thread[t] \in ThreadState
    BY CallFacts
  <2>2. statusManager[thread[t].act.sm].updateStatus \in UpdateStatus /\ thread[t].act \in Action
    BY <1>0, <1>8, CallFacts, ShownStatus DEF VerifyOk, ActionPC, Action
  <2>3. [thread[t] EXCEPT !.pc = "verifyEnd",
             !.st = statusManager[thread[t].act.sm].updateStatus] \in ThreadState
    BY <2>1, <2>2 DEF ThreadState, CallPC, RunPC, ActionPC
  <2> QED
    BY <1>0, <1>8, <2>2, <2>3 DEF VerifyOk, ProcTypeOK, Action
<1>9. ASSUME NEW t \in Threads, VerifyFail(t) PROVE ProcTypeOK'
  <2>1. thread[t] \in ThreadState
    BY CallFacts
  <2>2. "VERIFY_FAIL" \in ErrCode /\ "completed" \in CallPC
    BY DEF ErrCode, CallPC, RunPC, ActionPC
  <2>3. [thread[t] EXCEPT !.pc = "completed", !.err = "VERIFY_FAIL"] \in ThreadState
    BY <2>1, <2>2 DEF ThreadState
  <2> QED
    BY <1>0, <1>9, <2>3 DEF VerifyFail, ProcTypeOK
<1>10. ASSUME NEW t \in Threads, VerifyEnd(t) PROVE ProcTypeOK'
  <2>1. thread[t].act.sm \in Objs /\ thread[t].st \in UpdateStatus
    BY <1>10, CallFacts DEF VerifyEnd, ActionPC, Action, ThreadState
  <2>2. statusManager' \in [Objs -> StatusValue]
    BY <1>0, <1>10, <2>1, ReportType DEF VerifyEnd, ProcTypeOK
  <2>3. thread' \in [Threads -> ThreadState]
    BY <1>0, <1>10, GotoType DEF VerifyEnd, ProcTypeOK, CallPC, RunPC, ActionPC
  <2> QED
    BY <1>0, <1>10, <2>2, <2>3 DEF VerifyEnd, ProcTypeOK
<1>11. ASSUME NEW t \in Threads, InstallProgress(t) PROVE ProcTypeOK'
  <2>1. thread[t] \in ThreadState
    BY CallFacts
  <2>2. statusManager[thread[t].act.sm].updateStatus \in UpdateStatus
    BY <1>0, <1>11, CallFacts, ShownStatus DEF InstallProgress, ActionPC, Action
  <2>3. [thread[t] EXCEPT !.pc = "progress",
             !.st = statusManager[thread[t].act.sm].updateStatus] \in ThreadState
    BY <2>1, <2>2 DEF ThreadState, CallPC, RunPC, ActionPC
  <2> QED
    BY <1>0, <1>11, <2>3 DEF InstallProgress, ProcTypeOK
<1>12. ASSUME NEW t \in Threads, SetProgress(t) PROVE ProcTypeOK'
  <2>1. thread[t].act.sm \in Objs /\ thread[t].st \in UpdateStatus
    BY <1>12, CallFacts DEF SetProgress, ActionPC, Action, ThreadState
  <2>2. PICK v \in Percents : Report(thread[t].act.sm, thread[t].st, v)
    BY <1>12 DEF SetProgress
  <2>3. statusManager' \in [Objs -> StatusValue]
    BY <1>0, <2>1, <2>2, ReportType, ProcesserAssumption DEF ProcTypeOK
  <2>4. thread' \in [Threads -> ThreadState]
    BY <1>0, <1>12, GotoType DEF SetProgress, ProcTypeOK, CallPC, RunPC, ActionPC
  <2> QED
    BY <1>0, <1>12, <2>3, <2>4 DEF SetProgress, ProcTypeOK
<1>13. ASSUME NEW t \in Threads, InstallOk(t) PROVE ProcTypeOK'
  BY <1>0, <1>13, CallFacts, GotoType, ReportType
  DEF InstallOk, ProcTypeOK, ThreadState, CallPC, RunPC, ActionPC, Performing, UpdateStatus
<1>14. ASSUME NEW t \in Threads, InstallFail(t) PROVE ProcTypeOK'
  <2>1. thread[t] \in ThreadState
    BY CallFacts
  <2>2. "INSTALL_FAIL" \in ErrCode /\ "completed" \in CallPC
    BY DEF ErrCode, CallPC, RunPC, ActionPC
  <2>3. [thread[t] EXCEPT !.pc = "completed", !.err = "INSTALL_FAIL"] \in ThreadState
    BY <2>1, <2>2 DEF ThreadState
  <2> QED
    BY <1>0, <1>14, <2>3 DEF InstallFail, ProcTypeOK
<1>15. ASSUME NEW t \in Threads, CompletedOk(t) PROVE ProcTypeOK'
  BY <1>0, <1>15, CallFacts, GotoType, ReportType
  DEF CompletedOk, ProcTypeOK, ThreadState, CallPC, RunPC, ActionPC, Performing, UpdateStatus
<1>16. ASSUME NEW t \in Threads, CompletedError(t) PROVE ProcTypeOK'
  <2>1. thread[t].ap \in Objs /\ FinalStatus(thread[t].err) \in UpdateStatus
    BY <1>16, CallFacts, FinalStatusTerminal DEF CompletedError, ThreadState, Terminal
  <2>2. statusManager' \in [Objs -> StatusValue]
    BY <1>0, <1>16, <2>1, ReportType DEF CompletedError, ProcTypeOK
  <2>3. thread' \in [Threads -> ThreadState]
    BY <1>0, <1>16, GotoType DEF CompletedError, ProcTypeOK, CallPC
  <2>4. /\ actionQue' \in [Objs -> Seq(Action)]
        /\ isRunning' \in [Objs -> BOOLEAN] /\ verified' \in [Objs -> SUBSET Threads]
        /\ curAction' \in [Objs -> Action \cup {NoAction}]
    BY <1>0, <1>16, <2>1, EmptyQueue DEF CompletedError, ProcTypeOK
  <2> QED
    BY <1>0, <1>16, <2>2, <2>3, <2>4 DEF CompletedError, ProcTypeOK
<1>17. ASSUME NEW t \in Threads, StartNextEnd(t) PROVE ProcTypeOK'
  <2>1. thread[t].ap \in Objs /\ FinalStatus(thread[t].err) \in UpdateStatus
    BY <1>17, CallFacts, FinalStatusTerminal DEF StartNextEnd, ThreadState, Terminal
  <2>2. statusManager' \in [Objs -> StatusValue]
    BY <1>0, <1>17, <2>1, ReportType DEF StartNextEnd, ProcTypeOK
  <2>3. thread' \in [Threads -> ThreadState]
    BY <1>0, <1>17, GotoType DEF StartNextEnd, ProcTypeOK, CallPC
  <2>4. /\ isRunning' \in [Objs -> BOOLEAN] /\ verified' \in [Objs -> SUBSET Threads]
        /\ curAction' \in [Objs -> Action \cup {NoAction}]
    BY <1>0, <1>17, <2>1, EmptyQueue DEF StartNextEnd, ProcTypeOK
  <2> QED
    BY <1>0, <1>17, <2>2, <2>3, <2>4 DEF StartNextEnd, ProcTypeOK
<1>18. ASSUME NEW t \in Threads, StartNextAction(t) PROVE ProcTypeOK'
  BY <1>0, <1>18, CallFacts, GotoType, ReportType
  DEF StartNextAction, TakeAction, ProcTypeOK, ThreadState, CallPC, RunPC, ActionPC, Performing,
     UpdateStatus
<1>19. ASSUME NEW t \in Threads, NEW p \in Objs, NEW s \in Objs, EnterCheck(t, p, s) PROVE ProcTypeOK'
  <2>1. PICK k \in PkgPath : thread' = [thread EXCEPT ![t] =
                [IdleThread EXCEPT !.pc = "check", !.ap = p, !.sm = s, !.pkg = k]]
    BY <1>19 DEF EnterCheck
  <2>2. [IdleThread EXCEPT !.pc = "check", !.ap = p, !.sm = s, !.pkg = k] \in ThreadState
    BY IdleType DEF ThreadState, CallPC
  <2> QED
    BY <1>0, <1>19, <2>1, <2>2 DEF EnterCheck, ProcTypeOK
<1>20. ASSUME NEW o \in Objs, SetUpdateCallback(o) PROVE ProcTypeOK'
  <2>1. SetCallback(statusManager[o]) \in StatusValue
    <3>1. statusManager[o] \in StatusValue
      BY <1>0 DEF ProcTypeOK
    <3> QED
      BY <3>1 DEF SetCallback, StatusValue
  <2>2. statusManager' \in [Objs -> StatusValue]
    BY <1>0, <1>20, <2>1 DEF SetUpdateCallback, ProcTypeOK
  <2> QED
    BY <1>0, <1>20, <2>2 DEF SetUpdateCallback, ProcTypeOK
<1>21. CASE UNCHANGED procVars
  BY <1>0, <1>21 DEF procVars, ProcTypeOK
<1> QED
  BY <1>1, <1>2, <1>3, <1>4, <1>5, <1>6, <1>7, <1>8, <1>9, <1>10, <1>11, <1>12, <1>13, <1>14,
     <1>15, <1>16, <1>17, <1>18, <1>19, <1>20, <1>21 DEF CoreNext, ProcStep, InstallEnds

\* The action a thread performs reports to the processer that the thread runs.
LEMMA OwnCall ==
    ASSUME ProcInv, NEW t \in Threads, thread[t].pc \in ActionPC
    PROVE  thread[t].act.sm = thread[t].ap
<1>1. thread[t].pc # "idle"
  BY DEF ActionPC
<1> QED
  BY <1>1, CallFacts, NoActionIsNone DEF ProcInv, OwnActions

\* Inside a call a thread keeps its processer, its status manager and its package.
Keeps(t) ==
    /\ DOMAIN thread' = Threads /\ \A u \in Threads \ {t} : thread'[u] = thread[u]
    /\ \/ thread'[t] = IdleThread
       \/ /\ thread'[t].ap = thread[t].ap /\ thread'[t].sm = thread[t].sm
          /\ thread'[t].pkg = thread[t].pkg

\* Only the thread that moves changes, and it keeps what it entered with until it returns.
LEMMA StepKeeps == ASSUME ProcTypeOK, NEW t \in Threads, ProcStep(t) PROVE Keeps(t)
<1> USE DEF ProcTypeOK, ThreadState, Keeps, Goto, Return
<1>1. CASE CheckRunning(t)
  BY <1>1 DEF CheckRunning
<1>2. CASE AddVerify(t)
  BY <1>2 DEF AddVerify
<1>3. CASE AddUpdate(t)
  BY <1>3 DEF AddUpdate
<1>4. CASE StartRefused(t)
  BY <1>4 DEF StartRefused
<1>5. CASE Start(t)
  BY <1>5 DEF Start
<1>6. CASE Perform(t)
  BY <1>6 DEF Perform
<1>7. CASE VerifyBegin(t)
  BY <1>7 DEF VerifyBegin
<1>8. CASE VerifyOk(t)
  BY <1>8 DEF VerifyOk
<1>9. CASE VerifyFail(t)
  BY <1>9 DEF VerifyFail
<1>10. CASE VerifyEnd(t)
  BY <1>10 DEF VerifyEnd
<1>11. CASE InstallProgress(t)
  BY <1>11 DEF InstallProgress
<1>12. CASE SetProgress(t)
  BY <1>12 DEF SetProgress
<1>13. CASE InstallOk(t)
  BY <1>13 DEF InstallOk
<1>14. CASE InstallFail(t)
  BY <1>14 DEF InstallFail
<1>15. CASE CompletedOk(t)
  BY <1>15 DEF CompletedOk
<1>16. CASE CompletedError(t)
  BY <1>16 DEF CompletedError
<1>17. CASE StartNextEnd(t)
  BY <1>17 DEF StartNextEnd
<1>18. CASE StartNextAction(t)
  BY <1>18 DEF StartNextAction
<1> QED
  BY <1>1, <1>2, <1>3, <1>4, <1>5, <1>6, <1>7, <1>8, <1>9, <1>10, <1>11, <1>12,
     <1>13, <1>14, <1>15, <1>16, <1>17, <1>18 DEF ProcStep, InstallEnds

\* A thread keeps the pair of objects it entered with.
LEMMA OwnThreadsStep == ProcInv /\ [ProcNext]_procVars => OwnThreads'
<1> SUFFICES ASSUME ProcInv, [ProcNext]_procVars PROVE OwnThreads'
  OBVIOUS
<1>0. ProcTypeOK /\ OwnThreads /\ CoreInv
  BY DEF ProcInv, CoreInv
<1>1. ASSUME NEW t \in Threads, NEW o \in Objs, EnterCheck(t, o, o) PROVE OwnThreads'
  BY <1>0, <1>1 DEF EnterCheck, ProcTypeOK, OwnThreads, IdleThread
<1>2. ASSUME NEW t \in Threads, ProcStep(t) PROVE OwnThreads'
  <2>1. Keeps(t)
    BY <1>0, <1>2, StepKeeps
  <2>2. thread[t].pc # "idle"
    BY <1>2 DEF ProcStep, InstallEnds, CheckRunning, AddVerify, AddUpdate, StartRefused, Start,
       Perform,
           VerifyBegin, VerifyOk, VerifyFail, VerifyEnd, InstallProgress, SetProgress, InstallOk,
           InstallFail, CompletedOk, CompletedError, StartNextEnd, StartNextAction
  <2>3. ASSUME NEW u \in Threads, thread'[u].pc # "idle" PROVE thread'[u].sm = thread'[u].ap
    <3>1. CASE u = t
      <4>1. IdleThread.pc = "idle"
        BY DEF IdleThread
      <4> QED
        BY <1>0, <2>1, <2>2, <2>3, <3>1, <4>1 DEF Keeps, OwnThreads
    <3>2. CASE u # t
      BY <1>0, <2>1, <2>3, <3>2 DEF Keeps, OwnThreads
    <3> QED
      BY <3>1, <3>2
  <2> QED
    BY <2>3 DEF OwnThreads
<1>3. CASE UNCHANGED thread
  BY <1>0, <1>3 DEF OwnThreads
<1> QED
  BY <1>1, <1>2, <1>3 DEF ProcNext, procVars, SetUpdateCallback

\* An action that a call appends reports to the processer it is appended to.
LEMMA AppendOwn ==
    ASSUME ProcInv, NEW t \in Threads, NEW k \in {"PkgVerify", "ABUpdate"},
           thread[t].pc # "idle", AddAction(thread[t].ap, NewAction(t, k))
    PROVE  OwnActions'
<1> DEFINE p == thread[t].ap
<1>1. p \in Objs /\ thread[t].sm = p /\ thread[t] \in ThreadState
  BY CallFacts DEF ProcInv, OwnThreads
<1>2. NewAction(t, k) \in Action /\ NewAction(t, k).sm = p
  BY <1>1, NewActionType DEF ThreadState
<1>3. actionQue \in [Objs -> Seq(Action)] /\ OwnActions /\ curAction' = curAction
  BY DEF ProcInv, CoreInv, ProcTypeOK, AddAction
<1>4. CASE isRunning[p]
  BY <1>3, <1>4 DEF AddAction, OwnActions
<1>5. CASE ~isRunning[p]
  <2>1. actionQue' = [actionQue EXCEPT ![p] = Append(@, NewAction(t, k))]
    BY <1>5 DEF AddAction
  <2>2. ASSUME NEW q \in Objs, NEW i \in DOMAIN actionQue'[q]
        PROVE  actionQue'[q][i].sm = q
    <3>1. CASE q = p
      <4>1. actionQue'[q] = Append(actionQue[p], NewAction(t, k)) /\ actionQue[p] \in Seq(Action)
        BY <1>1, <1>3, <2>1, <3>1
      <4>2. CASE i \in DOMAIN actionQue[p]
        BY <1>1, <1>2, <1>3, <3>1, <4>1, <4>2, AppendProperties DEF OwnActions
      <4>3. CASE i \notin DOMAIN actionQue[p]
        <5>1. i = Len(actionQue[p]) + 1
          BY <1>2, <2>2, <4>1, <4>3, AppendProperties, LenProperties
        <5> QED
          BY <1>2, <3>1, <4>1, <5>1, AppendProperties
      <4> QED
        BY <4>2, <4>3
    <3>2. CASE q # p
      BY <1>3, <2>1, <2>2, <3>2 DEF OwnActions
    <3> QED
      BY <3>1, <3>2
  <2> QED
    BY <1>3, <2>2 DEF OwnActions
<1> QED
  BY <1>4, <1>5

\* The action that is taken from a queue reports to the processer of that queue.
LEMMA TakeOwn ==
    ASSUME ProcInv, NEW p \in Objs, actionQue[p] # <<>>, TakeAction(p)
    PROVE  OwnActions'
<1>1. actionQue \in [Objs -> Seq(Action)] /\ curAction \in [Objs -> Action \cup {NoAction}]
  BY DEF ProcInv, CoreInv, ProcTypeOK
<1>2. OwnActions
  BY DEF ProcInv
<1>3. actionQue[p] \in Seq(Action) /\ Len(actionQue[p]) \in Nat \ {0}
  BY <1>1, EmptySeq
<1>4. Head(actionQue[p]).sm = p
  <2>1. Head(actionQue[p]) = actionQue[p][1] /\ 1 \in DOMAIN actionQue[p]
    BY <1>3, LenProperties
  <2> QED
    BY <1>2, <2>1 DEF OwnActions
<1>5. \A i \in DOMAIN Tail(actionQue[p]) : Tail(actionQue[p])[i].sm = p
  <2> SUFFICES ASSUME NEW i \in DOMAIN Tail(actionQue[p]) PROVE Tail(actionQue[p])[i].sm = p
    OBVIOUS
  <2>1. Tail(actionQue[p])[i] = actionQue[p][i + 1] /\ i + 1 \in DOMAIN actionQue[p]
    BY <1>3, HeadTailProperties, LenProperties
  <2> QED
    BY <1>2, <2>1 DEF OwnActions
<1> QED
  BY <1>1, <1>2, <1>4, <1>5 DEF TakeAction, OwnActions

\* Actions stay with the processer they report to.
LEMMA OwnStep == ProcInv /\ [ProcNext]_procVars => OwnActions'
<1> SUFFICES ASSUME ProcInv, [ProcNext]_procVars PROVE OwnActions'
  OBVIOUS
<1>0. OwnActions /\ ProcTypeOK /\ CoreInv
  BY DEF ProcInv, CoreInv
<1>1. CASE UNCHANGED <<actionQue, curAction>>
  BY <1>0, <1>1 DEF OwnActions
<1>2. ASSUME NEW t \in Threads, AddVerify(t) \/ AddUpdate(t) PROVE OwnActions'
  <2>1. CASE AddVerify(t)
    BY <2>1, AppendOwn DEF AddVerify
  <2>2. CASE AddUpdate(t)
    BY <2>2, AppendOwn DEF AddUpdate
  <2> QED
    BY <1>2, <2>1, <2>2
<1>3. ASSUME NEW t \in Threads, Start(t) \/ StartNextAction(t) PROVE OwnActions'
  <2>1. thread[t].ap \in Objs /\ actionQue[thread[t].ap] # <<>> /\ TakeAction(thread[t].ap)
    BY <1>0, <1>3, CallFacts DEF Start, StartNextAction
  <2> QED
    BY <2>1, TakeOwn
<1>4. ASSUME NEW t \in Threads, CompletedOk(t) PROVE OwnActions'
  BY <1>0, <1>4, CallFacts DEF CompletedOk, OwnActions, ProcTypeOK
<1>5. ASSUME NEW t \in Threads, CompletedError(t) PROVE OwnActions'
  <2>1. /\ actionQue' = [actionQue EXCEPT ![thread[t].ap] = <<>>]
        /\ curAction' = [curAction EXCEPT ![thread[t].ap] = NoAction]
    BY <1>5 DEF CompletedError
  <2> QED
    BY <1>0, <2>1, EmptyQueue DEF OwnActions, ProcTypeOK
<1> QED
  BY <1>1, <1>2, <1>3, <1>4, <1>5
     DEF ProcNext, ProcStep, InstallEnds, procVars, CheckRunning, StartRefused, Perform,
         VerifyBegin, VerifyOk, VerifyFail, VerifyEnd, InstallProgress, SetProgress, InstallOk,
         InstallFail, StartNextEnd, EnterCheck, SetUpdateCallback

(***************************************************************************)
(* What a report changes: the status of one status manager, and only if a  *)
(* callback is registered there.                                           *)
(***************************************************************************)
LEMMA ReportFacts ==
    ASSUME ProcTypeOK, NEW o \in Objs, NEW status \in UpdateStatus, NEW pct \in 0..100,
           Report(o, status, pct)
    PROVE  /\ \A q \in Objs : q # o => statusManager'[q] = statusManager[q]
           /\ statusManager'[o].updateCallback = statusManager[o].updateCallback
           /\ statusManager'[o].updateStatus =
                 IF statusManager[o].updateCallback THEN status ELSE statusManager[o].updateStatus
<1>1. statusManager'[o] = UpdateCallback(statusManager[o], status, pct)
  BY DEF Report, ProcTypeOK
<1>2. \A q \in Objs : q # o => statusManager'[q] = statusManager[q]
  BY DEF Report, ProcTypeOK
<1>3. statusManager[o] \in StatusValue
  BY DEF ProcTypeOK
<1> QED
  BY <1>1, <1>2, <1>3 DEF UpdateCallback, StatusValue

\* A report to a running task keeps the status part.
LEMMA RunningReport ==
    ASSUME ProcInv, NEW o \in Objs, NEW status \in UpdateStatus, NEW pct \in 0..100,
           Report(o, status, pct), isRunning'[o], \A q \in Objs : isRunning[q] => isRunning'[q]
    PROVE  StatusInv'
  BY ReportFacts DEF ProcInv, CoreInv, StatusInv

\* A report of a final status may clear isRunning_ of its task.
LEMMA FinalReport ==
    ASSUME ProcInv, NEW o \in Objs, NEW status \in Terminal, NEW pct \in 0..100,
           Report(o, status, pct), \A q \in Objs : q # o => isRunning'[q] = isRunning[q]
    PROVE  StatusInv'
<1>1. status \in UpdateStatus /\ status # "ONGOING"
  BY DEF Terminal
<1> QED
  BY <1>1, ReportFacts DEF ProcInv, CoreInv, StatusInv

\* No step leaves an idle task with the status ONGOING.
LEMMA StatusStep == ProcInv /\ [ProcNext]_procVars => StatusInv'
<1> SUFFICES ASSUME ProcInv, [ProcNext]_procVars PROVE StatusInv'
  OBVIOUS
<1>0. StatusInv /\ ProcTypeOK /\ CoreInv
  BY DEF ProcInv, CoreInv
<1>1. CASE UNCHANGED <<statusManager, isRunning>>
  BY <1>0, <1>1 DEF StatusInv
<1>2. ASSUME NEW t \in Threads, Start(t) PROVE StatusInv'
  <2>1. thread[t].ap \in Objs /\ isRunning' = [isRunning EXCEPT ![thread[t].ap] = TRUE]
    BY <1>0, <1>2, CallFacts DEF Start
  <2>2. isRunning'[thread[t].ap] /\ \A q \in Objs : isRunning[q] => isRunning'[q]
    BY <1>0, <2>1 DEF ProcTypeOK
  <2>3. Report(thread[t].ap, "ONGOING", 0) /\ "ONGOING" \in UpdateStatus
    BY <1>2 DEF Start, UpdateStatus
  <2> QED
    BY <2>1, <2>2, <2>3, RunningReport
<1>3. ASSUME NEW t \in Threads, VerifyBegin(t) \/ VerifyEnd(t) \/ SetProgress(t) PROVE StatusInv'
  <2>1. PICK v \in 0..100 : Report(thread[t].act.sm, thread[t].st, v)
    BY <1>3, ProcesserAssumption DEF VerifyBegin, VerifyEnd, SetProgress
  <2>2. thread[t].pc \in ActionPC /\ isRunning' = isRunning
    BY <1>3 DEF VerifyBegin, VerifyEnd, SetProgress, ActionPC
  <2>3. thread[t].act.sm = thread[t].ap /\ thread[t].ap \in Objs /\ thread[t].st \in UpdateStatus
    BY <1>0, <2>2, CallFacts, OwnCall DEF ActionPC, ThreadState
  <2>4. isRunning[thread[t].ap]
    BY <1>0, <2>2 DEF CoreInv, ThreadsOK, ThreadInv, RunPC
  <2> QED
    BY <2>1, <2>2, <2>3, <2>4, RunningReport
<1>4. ASSUME NEW t \in Threads, CompletedError(t) \/ StartNextEnd(t) PROVE StatusInv'
  <2>1. /\ Report(thread[t].ap, FinalStatus(thread[t].err), 100)
        /\ isRunning' = [isRunning EXCEPT ![thread[t].ap] = FALSE]
        /\ thread[t].pc # "idle"
    BY <1>4 DEF CompletedError, StartNextEnd
  <2>2. thread[t].ap \in Objs /\ FinalStatus(thread[t].err) \in Terminal
    BY <1>0, <2>1, CallFacts, FinalStatusTerminal DEF ThreadState
  <2>3. \A q \in Objs : q # thread[t].ap => isRunning'[q] = isRunning[q]
    BY <1>0, <2>1 DEF ProcTypeOK
  <2>4. 100 \in 0..100
    OBVIOUS
  <2> HIDE DEF Report, FinalStatus
  <2> QED
    BY <2>1, <2>2, <2>3, <2>4, FinalReport, Zenon
<1>5. ASSUME NEW o \in Objs, SetUpdateCallback(o) PROVE StatusInv'
  BY <1>0, <1>5 DEF SetUpdateCallback, SetCallback, StatusInv, ProcTypeOK, StatusValue
<1> QED
  BY <1>1, <1>2, <1>3, <1>4, <1>5
     DEF ProcNext, ProcStep, InstallEnds, procVars, CheckRunning, AddVerify, AddUpdate, AddAction,
         StartRefused, Perform, VerifyOk, VerifyFail, InstallProgress, InstallOk, InstallFail,
         CompletedOk, StartNextAction, EnterCheck

\* The invariant is inductive.
LEMMA ProcInvStep == ProcInv /\ [ProcNext]_procVars => ProcInv'
<1>1. [ProcNext]_procVars => [CoreNext]_procVars
  BY DEF ProcNext, CoreNext
<1> QED
  BY <1>1, TypeStep, ThreadStep, OwnThreadsStep, OwnStep, StatusStep DEF ProcInv, CoreInv

LEMMA ProcInvariant == ProcSpec => []ProcInv
  BY ProcInvStep, ProcInvInit, PTL DEF ProcSpec

(***************************************************************************)
(* The state of processers, status managers and threads is well typed, and *)
(* an idle processer never leaves its task's status at ONGOING.            *)
(***************************************************************************)
THEOREM ProcStatusSettled == ProcSpec => []ProcesserInv
<1>1. ProcInv => ProcTypeOK /\ StatusSettled
  BY DEF ProcInv, CoreInv, StatusInv, StatusSettled
<1>2. ProcInv => ProcesserInv
  BY <1>1 DEF ProcesserInv
<1> QED
  BY <1>2, ProcInvariant, PTL

(***************************************************************************)
(* At most one thread runs a processer's actions, and isRunning_ is set    *)
(* exactly while one does, for any number of callers.                      *)
(***************************************************************************)
THEOREM ProcSingleRunner == ProcSpec => []SingleRunner
<1>1. ProcInv => SingleRunner
  BY DEF ProcInv, CoreInv, ThreadsOK, ThreadInv, Exclusive, Attended, SingleRunner, Runs
<1> QED
  BY <1>1, ProcInvariant, PTL

(***************************************************************************)
(* The action a thread performs is the current one of its processer: no    *)
(* other thread destroys or replaces it under its feet.                    *)
(***************************************************************************)
THEOREM ProcActionAlive == ProcSpec => []ActionAlive
<1>1. ProcInv => ActionAlive
  BY DEF ProcInv, CoreInv, ThreadsOK, ThreadInv, ActionAlive, Performing
<1> QED
  BY <1>1, ProcInvariant, PTL

-----------------------------------------------------------------------------
(***************************************************************************)
(* The processer as its clients know it.  An error code is set only        *)
(* between the failure and the completion callback, and the status that    *)
(* SetUpdatePercent will write back is still the current one.              *)
(***************************************************************************)
Good == {"SUCCESS", "RETRY_SUCCESS"}
Holding == {"verifyBegin", "verifyEnd", "progress"}

RunCodes ==
    \A t \in Threads :
        \/ thread[t].err = "SUCCESS"
        \/ thread[t].pc = "completed" /\ thread[t].err \in {"VERIFY_FAIL", "INSTALL_FAIL"}

HeldStatus ==
    \A t \in Threads :
        thread[t].pc \in Holding => thread[t].st = statusManager[thread[t].ap].updateStatus

\* The thread that moves is inside a call.
LEMMA StepInCall == ASSUME NEW t \in Threads, ProcStep(t) PROVE thread[t].pc # "idle"
  BY DEF ProcStep, InstallEnds, CheckRunning, AddVerify, AddUpdate, StartRefused, Start,
         Perform, VerifyBegin, VerifyOk, VerifyFail, VerifyEnd, InstallProgress, SetProgress,
         InstallOk, InstallFail, CompletedOk, CompletedError, StartNextEnd, StartNextAction

\* What a thread's record is after Goto and after Return.
LEMMA GotoFacts ==
    ASSUME ProcTypeOK, NEW t \in Threads, NEW l
    PROVE  /\ Goto(t, l) => thread'[t].pc = l /\ thread'[t].err = thread[t].err
           /\ Return(t) => thread'[t].pc = "idle" /\ thread'[t].err = "SUCCESS"
<1>1. thread[t] \in ThreadState /\ DOMAIN thread = Threads
  BY DEF ProcTypeOK
<1>2. Goto(t, l) => thread'[t].pc = l /\ thread'[t].err = thread[t].err
  BY <1>1 DEF Goto, ThreadState
<1>3. Return(t) => thread'[t].pc = "idle" /\ thread'[t].err = "SUCCESS"
  <2>1. Return(t) => thread'[t] = IdleThread
    BY <1>1 DEF Return
  <2>2. IdleThread.pc = "idle" /\ IdleThread.err = "SUCCESS"
    BY DEF IdleThread
  <2> QED
    BY <2>1, <2>2
<1> QED
  BY <1>2, <1>3

(***************************************************************************)
(* The steps of a thread in groups, and what each group does to the thread *)
(* and to its task: outside the run; reading the status into st; a         *)
(* failure; reporting what was read; going on to the next action; the end. *)
(***************************************************************************)
LEMMA OutsideSteps ==
    ASSUME ProcInv, NEW t \in Threads,
           CheckRunning(t) \/ AddVerify(t) \/ AddUpdate(t) \/ StartRefused(t)
    PROVE  /\ thread[t].pc \in {"check", "addVerify", "addUpdate", "start"}
           /\ thread'[t].pc \in {"idle", "addVerify", "addUpdate", "start"}
           /\ thread'[t].err \in {thread[t].err, "SUCCESS"}
           /\ UNCHANGED <<isRunning, statusManager, activated>>
<1>0. ProcTypeOK
  BY DEF ProcInv, CoreInv
<1>1. CASE CheckRunning(t)
  BY <1>0, <1>1, GotoFacts DEF CheckRunning
<1>2. CASE AddVerify(t)
  BY <1>0, <1>2, GotoFacts DEF AddVerify, AddAction
<1>3. CASE AddUpdate(t)
  BY <1>0, <1>3, GotoFacts DEF AddUpdate, AddAction
<1>4. CASE StartRefused(t)
  BY <1>0, <1>4, GotoFacts DEF StartRefused
<1> QED
  BY <1>1, <1>2, <1>3, <1>4

LEMMA ReadingSteps ==
    ASSUME ProcInv, NEW t \in Threads, Perform(t) \/ VerifyOk(t) \/ InstallProgress(t)
    PROVE  /\ thread[t].pc \in {"perform", "verify", "install"}
           /\ thread'[t].pc \in {"completed", "verifyBegin", "verifyEnd", "install", "progress"}
           /\ thread'[t].err \in {thread[t].err, "SUCCESS"}
           /\ thread'[t].st = statusManager[thread[t].ap].updateStatus
           /\ UNCHANGED <<isRunning, statusManager, activated>>
<1>0. thread[t] \in ThreadState /\ DOMAIN thread = Threads
  BY DEF ProcInv, CoreInv, ProcTypeOK
<1>1. CASE Perform(t)
  <2>1. curAction[thread[t].ap].sm = thread[t].ap
    <3>1. thread[t].ap \in Objs /\ curAction[thread[t].ap] \in Action
      BY <1>1, CallFacts DEF ProcInv, Perform, Performing
    <3> QED
      BY <3>1, NoActionIsNone DEF ProcInv, OwnActions
  <2>2. thread'[t].pc \in {"completed", "verifyBegin", "install"}
    BY <1>0, <1>1 DEF Perform, ThreadState
  <2>3. /\ thread'[t].err = "SUCCESS"
        /\ thread'[t].st = statusManager[curAction[thread[t].ap].sm].updateStatus
    BY <1>0, <1>1 DEF Perform, ThreadState
  <2> QED
    BY <1>1, <2>1, <2>2, <2>3 DEF Perform
<1>2. CASE VerifyOk(t)
  <2>1. thread[t].act.sm = thread[t].ap
    BY <1>2, OwnCall DEF VerifyOk, ActionPC
  <2>2. /\ thread'[t].pc = "verifyEnd" /\ thread'[t].err = thread[t].err
        /\ thread'[t].st = statusManager[thread[t].act.sm].updateStatus
    BY <1>0, <1>2 DEF VerifyOk, ThreadState
  <2> QED
    BY <1>2, <2>1, <2>2 DEF VerifyOk
<1>3. CASE InstallProgress(t)
  <2>1. thread[t].act.sm = thread[t].ap
    BY <1>3, OwnCall DEF InstallProgress, ActionPC
  <2>2. /\ thread'[t].pc = "progress" /\ thread'[t].err = thread[t].err
        /\ thread'[t].st = statusManager[thread[t].act.sm].updateStatus
    BY <1>0, <1>3 DEF InstallProgress, ThreadState
  <2> QED
    BY <1>3, <2>1, <2>2 DEF InstallProgress
<1> QED
  BY <1>1, <1>2, <1>3

LEMMA FailingSteps ==
    ASSUME ProcInv, NEW t \in Threads, VerifyFail(t) \/ InstallFail(t)
    PROVE  /\ thread[t].pc \in {"verify", "install"} /\ thread'[t].pc = "completed"
           /\ thread'[t].err \in {"VERIFY_FAIL", "INSTALL_FAIL"}
           /\ UNCHANGED <<isRunning, statusManager, activated>>
<1>0. thread[t] \in ThreadState /\ DOMAIN thread = Threads
  BY DEF ProcInv, CoreInv, ProcTypeOK
<1>1. CASE VerifyFail(t)
  <2>1. thread'[t].pc = "completed" /\ thread'[t].err = "VERIFY_FAIL"
    BY <1>0, <1>1 DEF VerifyFail, ThreadState
  <2> QED
    BY <1>1, <2>1 DEF VerifyFail
<1>2. CASE InstallFail(t)
  <2>1. thread'[t].pc = "completed" /\ thread'[t].err = "INSTALL_FAIL"
    BY <1>0, <1>2 DEF InstallFail, ThreadState
  <2> QED
    BY <1>2, <2>1 DEF InstallFail
<1> QED
  BY <1>1, <1>2

LEMMA ReportingSteps ==
    ASSUME ProcInv, NEW t \in Threads, VerifyBegin(t) \/ VerifyEnd(t) \/ SetProgress(t)
    PROVE  /\ thread[t].pc \in Holding /\ thread'[t].pc \in {"verify", "completed", "install"}
           /\ thread'[t].err = thread[t].err
           /\ \E v \in 0..100 : Report(thread[t].ap, thread[t].st, v)
           /\ UNCHANGED <<isRunning, activated>>
<1>0. ProcTypeOK
  BY DEF ProcInv, CoreInv
<1>1. thread[t].pc \in Holding /\ thread[t].act.sm = thread[t].ap
  BY OwnCall DEF VerifyBegin, VerifyEnd, SetProgress, Holding, ActionPC
<1>2. \E v \in 0..100 : Report(thread[t].act.sm, thread[t].st, v)
  BY ProcesserAssumption DEF VerifyBegin, VerifyEnd, SetProgress
<1>3. PICK l \in {"verify", "completed", "install"} : Goto(t, l)
  BY DEF VerifyBegin, VerifyEnd, SetProgress
<1>4. UNCHANGED <<isRunning, activated>>
  BY DEF VerifyBegin, VerifyEnd, SetProgress
<1> QED
  BY <1>0, <1>1, <1>2, <1>3, <1>4, GotoFacts

LEMMA OkSteps ==
    ASSUME ProcInv, NEW t \in Threads, CompletedOk(t) \/ StartNextAction(t)
    PROVE  /\ thread[t].pc \in {"completed", "next"}
           /\ thread[t].pc = "completed" => thread[t].err \in Good
           /\ thread'[t].pc \in {"next", "perform"} /\ thread'[t].err = thread[t].err
           /\ UNCHANGED <<isRunning, statusManager, activated>>
<1>0. ProcTypeOK
  BY DEF ProcInv, CoreInv
<1>1. CASE CompletedOk(t)
  <2>1. curAction[thread[t].ap] # NoAction
    BY <1>1 DEF CompletedOk, ProcInv, CoreInv, ThreadsOK, ThreadInv, Performing, ActionPC
  <2> QED
    BY <1>0, <1>1, <2>1, GotoFacts DEF CompletedOk, Good
<1>2. CASE StartNextAction(t)
  BY <1>0, <1>2, GotoFacts DEF StartNextAction
<1> QED
  BY <1>1, <1>2

LEMMA EndingSteps ==
    ASSUME ProcInv, NEW t \in Threads, CompletedError(t) \/ StartNextEnd(t)
    PROVE  /\ thread[t].pc \in {"completed", "next"}
           /\ thread'[t].pc = "idle" /\ thread'[t].err = "SUCCESS"
           /\ Report(thread[t].ap, FinalStatus(thread[t].err), 100)
           /\ isRunning' = [isRunning EXCEPT ![thread[t].ap] = FALSE]
           /\ UNCHANGED activated
<1>0. ProcTypeOK
  BY DEF ProcInv, CoreInv
<1>1. CASE CompletedError(t)
  BY <1>0, <1>1, GotoFacts DEF CompletedError
<1>2. CASE StartNextEnd(t)
  BY <1>0, <1>2, GotoFacts DEF StartNextEnd
<1> QED
  BY <1>1, <1>2

\* Error codes: kept by every step.
LEMMA CodesStep == ASSUME ProcInv, RunCodes, [ProcNext]_procVars PROVE RunCodes'
<1>0. ProcTypeOK
  BY DEF ProcInv, CoreInv
<1>1. ASSUME NEW t \in Threads, ProcStep(t)
      PROVE  \/ thread'[t].err = "SUCCESS"
             \/ thread'[t].pc = "completed" /\ thread'[t].err \in {"VERIFY_FAIL", "INSTALL_FAIL"}
  <2> USE DEF RunCodes, Holding
  <2>1. CASE CheckRunning(t) \/ AddVerify(t) \/ AddUpdate(t) \/ StartRefused(t)
    BY <2>1, OutsideSteps
  <2>2. CASE Start(t)
    BY <1>0, <2>2, GotoFacts DEF Start
  <2>3. CASE Perform(t) \/ VerifyOk(t) \/ InstallProgress(t)
    BY <2>3, ReadingSteps
  <2>4. CASE VerifyFail(t) \/ InstallFail(t)
    BY <2>4, FailingSteps
  <2>5. CASE VerifyBegin(t) \/ VerifyEnd(t) \/ SetProgress(t)
    BY <2>5, ReportingSteps
  <2>6. CASE InstallOk(t)
    BY <1>0, <2>6, GotoFacts DEF InstallOk
  <2>7. CASE CompletedOk(t) \/ StartNextAction(t)
    BY <2>7, OkSteps DEF Good
  <2>8. CASE CompletedError(t) \/ StartNextEnd(t)
    BY <2>8, EndingSteps
  <2> QED
    BY <1>1, <2>1, <2>2, <2>3, <2>4, <2>5, <2>6, <2>7, <2>8 DEF ProcStep, InstallEnds
<1>2. ASSUME NEW t \in Threads, ProcStep(t) PROVE RunCodes'
  <2>1. Keeps(t)
    BY <1>0, <1>2, StepKeeps
  <2> QED
    BY <1>1, <1>2, <2>1 DEF RunCodes, Keeps
<1>3. ASSUME NEW t \in Threads, NEW o \in Objs, EnterCheck(t, o, o) PROVE RunCodes'
  BY <1>0, <1>3 DEF EnterCheck, ProcTypeOK, RunCodes, IdleThread
<1>4. CASE UNCHANGED thread
  BY <1>4 DEF RunCodes
<1> QED
  BY <1>2, <1>3, <1>4 DEF ProcNext, procVars, SetUpdateCallback

\* A step of a thread leaves the other processers' tasks alone, and reports to
\* its own one only when no other thread runs that one.
LEMMA ForeignTasks ==
    ASSUME ProcInv, NEW t \in Threads, ProcStep(t)
    PROVE  /\ thread[t].ap \in Objs
           /\ \A o \in Objs : o # thread[t].ap =>
                 /\ isRunning'[o] = isRunning[o] /\ activated'[o] = activated[o]
                 /\ statusManager'[o] = statusManager[o]
           /\ \/ statusManager' = statusManager
              \/ thread[t].pc \in RunPC
              \/ ~isRunning[thread[t].ap]
<1>0. ProcTypeOK /\ thread[t].ap \in Objs
  BY StepInCall, CallFacts DEF ProcInv, CoreInv
<1> USE <1>0 DEF ProcTypeOK
<1>1. CASE CheckRunning(t) \/ AddVerify(t) \/ AddUpdate(t) \/ StartRefused(t)
  BY <1>1, OutsideSteps
<1>2. CASE Start(t)
  BY <1>2 DEF Start, Report
<1>3. CASE Perform(t) \/ VerifyOk(t) \/ InstallProgress(t)
  BY <1>3, ReadingSteps
<1>4. CASE VerifyFail(t) \/ InstallFail(t)
  BY <1>4, FailingSteps
<1>5. CASE VerifyBegin(t) \/ VerifyEnd(t) \/ SetProgress(t)
  BY <1>5, ReportingSteps DEF Holding, Report, RunPC, ActionPC
<1>6. CASE InstallOk(t)
  BY <1>6 DEF InstallOk
<1>7. CASE CompletedOk(t) \/ StartNextAction(t)
  BY <1>7, OkSteps
<1>8. CASE CompletedError(t) \/ StartNextEnd(t)
  BY <1>8, EndingSteps DEF Report, RunPC, ActionPC
<1> QED
  BY <1>1, <1>2, <1>3, <1>4, <1>5, <1>6, <1>7, <1>8 DEF ProcStep, InstallEnds

\* The status a thread holds is current: no other thread reports to the task it runs.
LEMMA HeldStep == ASSUME ProcInv, HeldStatus, [ProcNext]_procVars PROVE HeldStatus'
<1>0. ProcTypeOK /\ CoreInv /\ Holding \subseteq RunPC
  BY DEF ProcInv, CoreInv, Holding, RunPC, ActionPC
<1>1. ASSUME NEW t \in Threads, ProcStep(t), thread'[t].pc \in Holding
      PROVE  thread'[t].st = statusManager'[thread[t].ap].updateStatus
  <2>1. CASE Perform(t) \/ VerifyOk(t) \/ InstallProgress(t)
    BY <2>1, ReadingSteps
  <2>2. CASE CheckRunning(t) \/ AddVerify(t) \/ AddUpdate(t) \/ StartRefused(t)
    BY <1>1, <2>2, OutsideSteps DEF Holding
  <2>3. CASE Start(t)
    BY <1>0, <1>1, <2>3, GotoFacts DEF Start, Holding
  <2>4. CASE VerifyFail(t) \/ InstallFail(t)
    BY <1>1, <2>4, FailingSteps DEF Holding
  <2>5. CASE VerifyBegin(t) \/ VerifyEnd(t) \/ SetProgress(t)
    BY <1>1, <2>5, ReportingSteps DEF Holding
  <2>6. CASE InstallOk(t)
    BY <1>0, <1>1, <2>6, GotoFacts DEF InstallOk, Holding
  <2>7. CASE CompletedOk(t) \/ StartNextAction(t)
    BY <1>1, <2>7, OkSteps DEF Holding
  <2>8. CASE CompletedError(t) \/ StartNextEnd(t)
    BY <1>1, <2>8, EndingSteps DEF Holding
  <2> QED
    BY <1>1, <2>1, <2>2, <2>3, <2>4, <2>5, <2>6, <2>7, <2>8 DEF ProcStep, InstallEnds
<1>2. ASSUME NEW t \in Threads, ProcStep(t), NEW u \in Threads, thread'[u].pc \in Holding
      PROVE  thread'[u].st = statusManager'[thread'[u].ap].updateStatus
  <2>1. Keeps(t)
    BY <1>0, <1>2, StepKeeps
  <2>2. CASE u = t
    <3>1. thread'[t] # IdleThread
      <4>1. IdleThread.pc \notin Holding
        BY DEF IdleThread, Holding
      <4> QED
        BY <1>2, <2>2, <4>1
    <3> QED
      BY <1>1, <1>2, <2>1, <2>2, <3>1 DEF Keeps
  <2>3. CASE u # t
    <3>1. thread'[u] = thread[u] /\ thread[u].pc \in RunPC
      BY <1>0, <1>2, <2>1, <2>3 DEF Keeps
    <3>2. thread[u].ap \in Objs /\ isRunning[thread[u].ap]
      BY <1>0, <3>1, CallFacts DEF CoreInv, ThreadsOK, ThreadInv, RunPC, ActionPC
    <3>3. thread[t].pc \in RunPC => thread[u].ap # thread[t].ap
      BY <1>0, <2>3, <3>1 DEF CoreInv, ThreadsOK, Exclusive
    <3>4. statusManager'[thread[u].ap] = statusManager[thread[u].ap]
      BY <1>2, <3>2, <3>3, ForeignTasks
    <3> QED
      BY <1>2, <3>1, <3>4 DEF HeldStatus
  <2> QED
    BY <2>2, <2>3
<1>3. ASSUME NEW t \in Threads, NEW o \in Objs, EnterCheck(t, o, o) PROVE HeldStatus'
  BY <1>0, <1>3 DEF EnterCheck, ProcTypeOK, HeldStatus, IdleThread, Holding
<1>4. ASSUME NEW o \in Objs, SetUpdateCallback(o) PROVE HeldStatus'
  <2>1. \A p \in Objs : statusManager'[p].updateStatus = statusManager[p].updateStatus
    BY <1>0, <1>4 DEF SetUpdateCallback, SetCallback, ProcTypeOK, StatusValue
  <2>2. \A u \in Threads : thread[u].pc \in Holding => thread[u].ap \in Objs
    BY <1>0, CallFacts DEF Holding
  <2>3. thread' = thread
    BY <1>4 DEF SetUpdateCallback
  <2> QED
    BY <2>1, <2>2, <2>3 DEF HeldStatus
<1>5. CASE UNCHANGED procVars
  BY <1>5 DEF procVars, HeldStatus
<1>6. ASSUME NEW t \in Threads, ProcStep(t) PROVE HeldStatus'
  BY <1>2, <1>6 DEF HeldStatus
<1> QED
  BY <1>3, <1>4, <1>5, <1>6 DEF ProcNext

\* Both parts hold at the start, and so always.
LEMMA TaskInvariant == ProcSpec => [](ProcInv /\ RunCodes /\ HeldStatus)
<1>1. ProcInit => RunCodes /\ HeldStatus
  <2>1. IdleThread.err = "SUCCESS" /\ IdleThread.pc \notin Holding
    BY DEF IdleThread, Holding
  <2> QED
    BY <2>1 DEF ProcInit, RunCodes, HeldStatus
<1>2. RunCodes /\ HeldStatus /\ ProcInv /\ [ProcNext]_procVars => RunCodes' /\ HeldStatus'
  BY CodesStep, HeldStep
<1> QED
  BY <1>1, <1>2, ProcInvariant, PTL DEF ProcSpec

\* Only the thread that runs a processer can have broken its run.
RunnerBreaks ==
    \A p \in Objs :
        /\ ~isRunning[p] => ~Broken(p)
        /\ \A t \in Threads : Runs(t, p) => (Broken(p) <=> thread[t].err \notin Good)

LEMMA BrokenFacts == CoreInv => RunnerBreaks
  BY DEF CoreInv, ThreadsOK, ThreadInv, Exclusive, Broken, Runs, Good, RunnerBreaks

LEMMA BrokenFactsNext == CoreInv' => RunnerBreaks'
  BY BrokenFacts, PTL

\* The views of the other tasks stay.
LEMMA ForeignViews ==
    ASSUME ProcInv, NEW t \in Threads, ProcStep(t), NEW p \in Objs, thread[t].ap = p
    PROVE  \A o \in Objs : o # p => TaskView(o)' = TaskView(o)
<1> SUFFICES ASSUME NEW o \in Objs, o # p PROVE TaskView(o)' = TaskView(o)
  OBVIOUS
<1>1. /\ isRunning'[o] = isRunning[o] /\ activated'[o] = activated[o]
      /\ statusManager'[o] = statusManager[o]
  BY ForeignTasks
<1>2. \A u \in Threads : Runs(u, o)' => Runs(u, o) /\ thread'[u] = thread[u]
  <2>1. Keeps(t)
    BY StepKeeps DEF ProcInv, CoreInv
  <2>2. IdleThread.pc \notin RunPC
    BY DEF IdleThread, RunPC, ActionPC
  <2>3. ~Runs(t, o)'
    BY <2>1, <2>2 DEF Runs, Keeps
  <2> QED
    BY <2>1, <2>3 DEF Runs, Keeps
<1>3. \A u \in Threads : Runs(u, o) => Runs(u, o)' /\ thread'[u] = thread[u]
  <2>1. Keeps(t)
    BY StepKeeps DEF ProcInv, CoreInv
  <2> QED
    BY <2>1 DEF Runs, Keeps
<1>4. Broken(o)' = Broken(o)
  BY <1>2, <1>3 DEF Broken
<1> QED
  BY <1>1, <1>4 DEF TaskView

\* A step that changes the view of task p only.
LEMMA ViewsStep ==
    ASSUME NEW p \in Objs, \A o \in Objs : o # p => TaskView(o)' = TaskView(o)
    PROVE  Views[p] = TaskView(p) /\ Views' = [Views EXCEPT ![p] = TaskView(p)']
<1>1. Views[p] = TaskView(p)
  BY DEF Views
<1> HIDE DEF TaskView
<1> QED
  BY <1>1 DEF Views

\* A task whose view does not change either: the step is a stuttering step.
LEMMA SameView ==
    ASSUME NEW p \in Objs, \A o \in Objs : o # p => TaskView(o)' = TaskView(o),
           isRunning'[p] = isRunning[p], activated'[p] = activated[p],
           statusManager'[p] = statusManager[p], Broken(p)' = Broken(p)
    PROVE  Views' = Views
<1>1. TaskView(p)' = TaskView(p)
  BY DEF TaskView
<1>2. \A o \in Objs : TaskView(o)' = TaskView(o)
  BY <1>1
<1> QED
  BY <1>2 DEF Views

\* What a report does to the percent of its status manager.
LEMMA ReportPercent ==
    ASSUME ProcTypeOK, NEW o \in Objs, NEW status \in UpdateStatus, NEW pct \in 0..100,
           Report(o, status, pct)
    PROVE  /\ statusManager[o].percent \in 0..100
           /\ statusManager'[o].percent =
                 IF ~statusManager[o].updateCallback
                       \/ (statusManager[o].updateStatus = status /\ statusManager[o].percent = pct)
                 THEN statusManager[o].percent ELSE NewPercent(statusManager[o], status, pct)
<1>1. statusManager'[o] = UpdateCallback(statusManager[o], status, pct)
  BY DEF Report, ProcTypeOK
<1>2. statusManager[o] \in StatusValue
  BY DEF ProcTypeOK
<1>3. statusManager[o].percent \in 0..100
  BY <1>2 DEF StatusValue
<1> QED
  BY <1>1, <1>2, <1>3 DEF UpdateCallback, StatusValue

\* Before and after a step, whether the moving thread's run is broken.
LEMMA RunnerStep ==
    ASSUME ProcInv, CoreInv', RunCodes, NEW t \in Threads, ProcStep(t),
           NEW p \in Objs, thread[t].ap = p
    PROVE  /\ thread[t].pc \in RunPC => Broken(p) = (thread[t].err # "SUCCESS")
           /\ thread'[t].pc \in RunPC =>
                 /\ thread'[t].err = "SUCCESS" => Broken(p)' = FALSE
                 /\ thread'[t].err \in {"VERIFY_FAIL", "INSTALL_FAIL"} => Broken(p)' = TRUE
           /\ ~isRunning[p] => Broken(p) = FALSE
           /\ ~isRunning'[p] => Broken(p)' = FALSE
<1>1. RunnerBreaks /\ RunnerBreaks'
  BY BrokenFacts, BrokenFactsNext DEF ProcInv
<1>2. thread[t].pc \in RunPC => (Broken(p) <=> thread[t].err # "SUCCESS")
  BY <1>1 DEF RunnerBreaks, Runs, RunCodes, Good
<1>3. thread'[t].pc \in RunPC => Runs(t, p)'
  <2>1. Keeps(t)
    BY StepKeeps DEF ProcInv, CoreInv
  <2>2. IdleThread.pc \notin RunPC
    BY DEF IdleThread, RunPC, ActionPC
  <2> QED
    BY <2>1, <2>2 DEF Runs, Keeps
<1>4. thread'[t].pc \in RunPC => (Broken(p)' <=> thread'[t].err \notin Good)
  BY <1>1, <1>3 DEF RunnerBreaks
<1>5. (~isRunning[p] => ~Broken(p)) /\ (~isRunning'[p] => ~Broken(p)')
  BY <1>1 DEF RunnerBreaks
<1>6. Broken(p) \in BOOLEAN /\ Broken(p)' \in BOOLEAN
  BY DEF Broken
<1> HIDE DEF Broken
<1> QED
  BY <1>2, <1>4, <1>5, <1>6 DEF Good

\* Steps outside a run are stuttering steps.
LEMMA OutsideView ==
    ASSUME ProcInv, NEW t \in Threads, ProcStep(t),
           CheckRunning(t) \/ AddVerify(t) \/ AddUpdate(t) \/ StartRefused(t)
    PROVE  Views' = Views
<1>1. PICK p \in Objs : thread[t].ap = p
  BY ForeignTasks
<1>2. \A o \in Objs : o # p => TaskView(o)' = TaskView(o)
  BY <1>1, ForeignViews
<1>3. UNCHANGED <<isRunning, statusManager, activated>>
  BY OutsideSteps
<1>4. Broken(p)' = Broken(p)
  <2>1. Keeps(t)
    BY StepKeeps DEF ProcInv, CoreInv
  <2>2. ~Runs(t, p) /\ ~Runs(t, p)'
    BY OutsideSteps DEF Runs, RunPC, ActionPC
  <2> QED
    BY <2>1, <2>2 DEF Broken, Runs, Keeps
<1> QED
  BY <1>2, <1>3, <1>4, SameView

\* So are the steps of an unbroken run that report nothing.
LEMMA SilentView ==
    ASSUME ProcInv, CoreInv', RunCodes, NEW t \in Threads, ProcStep(t),
           Perform(t) \/ VerifyOk(t) \/ InstallProgress(t) \/ CompletedOk(t) \/ StartNextAction(t)
    PROVE  Views' = Views
<1>1. PICK p \in Objs : thread[t].ap = p
  BY ForeignTasks
<1>2. \A o \in Objs : o # p => TaskView(o)' = TaskView(o)
  BY <1>1, ForeignViews
<1>3. /\ UNCHANGED <<isRunning, statusManager, activated>>
      /\ thread[t].pc \in RunPC /\ thread'[t].pc \in RunPC
      /\ thread[t].err = "SUCCESS" /\ thread'[t].err = "SUCCESS"
  <2>1. CASE Perform(t) \/ VerifyOk(t) \/ InstallProgress(t)
    BY <2>1, ReadingSteps DEF RunCodes, RunPC, ActionPC
  <2>2. CASE CompletedOk(t) \/ StartNextAction(t)
    BY <2>2, OkSteps DEF RunCodes, RunPC, ActionPC, Good
  <2> QED
    BY <2>1, <2>2
<1>4. Broken(p)' = Broken(p)
  BY <1>1, <1>3, RunnerStep
<1> QED
  BY <1>2, <1>3, <1>4, SameView

\* Start begins a run.
LEMMA StartView ==
    ASSUME ProcInv, CoreInv', RunCodes, NEW t \in Threads, ProcStep(t), Start(t)
    PROVE  Client!Next
<1>1. PICK p \in Objs : thread[t].ap = p
  BY ForeignTasks
<1>2. Views[p] = TaskView(p) /\ Views' = [Views EXCEPT ![p] = TaskView(p)']
  BY <1>1, ForeignViews, ViewsStep
<1>3. /\ ~isRunning[p] /\ isRunning' = [isRunning EXCEPT ![p] = TRUE]
      /\ activated' = [activated EXCEPT ![p] = FALSE]
      /\ Report(p, "ONGOING", 0)
  BY <1>1 DEF Start
<1>4. isRunning[p] = FALSE /\ isRunning'[p] = TRUE /\ activated'[p] = FALSE
  BY <1>3 DEF ProcInv, CoreInv, ProcTypeOK
<1>5. Broken(p) = FALSE /\ Broken(p)' = FALSE
  <2>1. thread[t].err = "SUCCESS" /\ thread'[t].err = "SUCCESS" /\ thread'[t].pc \in RunPC
    BY GotoFacts DEF Start, RunCodes, RunPC, ProcInv, CoreInv
  <2> QED
    BY <1>1, <1>3, <2>1, RunnerStep
<1>6. /\ statusManager'[p].updateCallback = statusManager[p].updateCallback
      /\ statusManager'[p].updateStatus =
            IF statusManager[p].updateCallback THEN "ONGOING" ELSE statusManager[p].updateStatus
      /\ statusManager'[p].percent = statusManager[p].percent
  <2>1. ProcTypeOK /\ "ONGOING" \in UpdateStatus /\ 0 \in 0..100
    BY DEF ProcInv, CoreInv, UpdateStatus
  <2>2. statusManager[p] \in StatusValue
        /\ statusManager'[p] = UpdateCallback(statusManager[p], "ONGOING", 0)
    BY <1>3, <2>1 DEF Report, ProcTypeOK
  <2>3. statusManager[p].percent \in 0..100
    BY <2>2 DEF StatusValue
  <2>4. statusManager'[p].percent = statusManager[p].percent
    BY <2>2, <2>3 DEF UpdateCallback, NewPercent, StatusValue
  <2> QED
    BY <1>3, <2>1, <2>4, ReportFacts
<1>7. TaskView(p)' = Client!Tell([TaskView(p) EXCEPT !.running = TRUE, !.switched = FALSE],
                                 "ONGOING", TaskView(p).percent)
  BY <1>4, <1>5, <1>6 DEF TaskView, Client!Tell
<1>8. ~TaskView(p).running
  BY <1>4 DEF TaskView
<1>9. Client!Begin(p)
  BY <1>2, <1>7, <1>8 DEF Client!Begin, Client!Become
<1> QED
  BY <1>9 DEF Client!Next

\* SetUpdatePercent reports progress, if somebody listens.
LEMMA ReportView ==
    ASSUME ProcInv, CoreInv', RunCodes, HeldStatus, NEW t \in Threads, ProcStep(t),
           VerifyBegin(t) \/ VerifyEnd(t) \/ SetProgress(t)
    PROVE  Client!Next \/ Views' = Views
<1>1. PICK p \in Objs : thread[t].ap = p
  BY ForeignTasks
<1>2. /\ \A o \in Objs : o # p => TaskView(o)' = TaskView(o)
      /\ Views[p] = TaskView(p) /\ Views' = [Views EXCEPT ![p] = TaskView(p)']
  BY <1>1, ForeignViews, ViewsStep
<1>3. /\ thread[t].pc \in RunPC /\ thread'[t].pc \in RunPC
      /\ thread[t].err = "SUCCESS" /\ thread'[t].err = "SUCCESS"
      /\ thread[t].st = statusManager[p].updateStatus
      /\ UNCHANGED <<isRunning, activated>>
  BY <1>1, ReportingSteps DEF RunCodes, HeldStatus, Holding, RunPC, ActionPC
<1>4. PICK v \in 0..100 : Report(p, statusManager[p].updateStatus, v)
  BY <1>1, <1>3, ReportingSteps
<1>5. Broken(p) = FALSE /\ Broken(p)' = FALSE
  BY <1>1, <1>3, RunnerStep
<1>6. isRunning[p] = TRUE /\ isRunning'[p] = TRUE /\ activated'[p] = activated[p]
  BY <1>1, <1>3 DEF ProcInv, CoreInv, ProcTypeOK, ThreadsOK, ThreadInv
<1>7. /\ statusManager'[p].updateCallback = statusManager[p].updateCallback
      /\ statusManager'[p].updateStatus = statusManager[p].updateStatus
      /\ statusManager'[p].percent \in statusManager[p].percent .. 100
      /\ ~statusManager[p].updateCallback => statusManager'[p].percent = statusManager[p].percent
  <2>1. ProcTypeOK
    BY DEF ProcInv, CoreInv
  <2>2. statusManager[p].updateStatus \in UpdateStatus
    BY <2>1, ShownStatus
  <2>3. PICK st \in UpdateStatus : st = statusManager[p].updateStatus /\ Report(p, st, v)
    BY <1>4, <2>2, Zenon
  <2>4. /\ statusManager'[p].updateCallback = statusManager[p].updateCallback
        /\ statusManager'[p].updateStatus =
              IF statusManager[p].updateCallback THEN st ELSE statusManager[p].updateStatus
    BY <2>1, <2>3, ReportFacts
  <2>5. /\ statusManager'[p].percent \in statusManager[p].percent .. 100
        /\ ~statusManager[p].updateCallback => statusManager'[p].percent = statusManager[p].percent
    <3>1. /\ statusManager[p].percent \in 0..100
          /\ statusManager'[p].percent =
                IF ~statusManager[p].updateCallback
                      \/ (statusManager[p].updateStatus = st /\ statusManager[p].percent = v)
                THEN statusManager[p].percent ELSE NewPercent(statusManager[p], st, v)
      BY <2>1, <2>3, ReportPercent
    <3> QED
      BY <3>1 DEF NewPercent
  <2> QED
    BY <2>3, <2>4, <2>5
<1>8. TaskView(p)' = [TaskView(p) EXCEPT !.percent = statusManager'[p].percent]
  <2>1. Broken(p)' = Broken(p) /\ isRunning'[p] = isRunning[p] /\ activated'[p] = activated[p]
    BY <1>5, <1>6
  <2> QED
    BY <1>7, <2>1 DEF TaskView
<1>9. CASE statusManager[p].updateCallback
  <2>1. /\ TaskView(p).running /\ ~TaskView(p).broken /\ TaskView(p).heard
        /\ TaskView(p).percent = statusManager[p].percent
    BY <1>5, <1>6, <1>9 DEF TaskView
  <2>2. Client!Progress(p)
    BY <1>2, <1>7, <1>8, <2>1 DEF Client!Progress, Client!Become
  <2> QED
    BY <2>2 DEF Client!Next
<1>10. CASE ~statusManager[p].updateCallback
  <2>1. TaskView(p)' = TaskView(p)
    BY <1>5, <1>6, <1>7, <1>10 DEF TaskView
  <2>2. \A o \in Objs : TaskView(o)' = TaskView(o)
    BY <1>2, <2>1
  <2> QED
    BY <2>2 DEF Views
<1> QED
  BY <1>9, <1>10

\* A failure breaks the run.
LEMMA FailView ==
    ASSUME ProcInv, CoreInv', RunCodes, NEW t \in Threads, ProcStep(t),
           VerifyFail(t) \/ InstallFail(t)
    PROVE  Client!Next
<1>1. PICK p \in Objs : thread[t].ap = p
  BY ForeignTasks
<1>2. Views[p] = TaskView(p) /\ Views' = [Views EXCEPT ![p] = TaskView(p)']
  BY <1>1, ForeignViews, ViewsStep
<1>3. /\ thread[t].pc \in RunPC /\ thread'[t].pc \in RunPC /\ thread[t].err = "SUCCESS"
      /\ thread'[t].err \in {"VERIFY_FAIL", "INSTALL_FAIL"}
      /\ UNCHANGED <<isRunning, statusManager, activated>>
  BY FailingSteps DEF RunCodes, RunPC, ActionPC
<1>4. Broken(p) = FALSE /\ Broken(p)' = TRUE
  BY <1>1, <1>3, RunnerStep
<1>5. isRunning[p] = TRUE
  BY <1>1, <1>3 DEF ProcInv, CoreInv, ProcTypeOK, ThreadsOK, ThreadInv
<1>6. TaskView(p)' = [TaskView(p) EXCEPT !.broken = TRUE]
  <2>1. TaskView(p)' = [TaskView(p) EXCEPT !.broken = Broken(p)']
    BY <1>3 DEF TaskView
  <2> QED
    BY <1>4, <2>1, Zenon
<1>7. TaskView(p).running /\ ~TaskView(p).broken
  BY <1>4, <1>5 DEF TaskView
<1>8. Client!Break(p)
  BY <1>2, <1>6, <1>7 DEF Client!Break, Client!Become
<1> QED
  BY <1>8 DEF Client!Next

\* SetActiveSlot switches.
LEMMA InstallView ==
    ASSUME ProcInv, CoreInv', RunCodes, NEW t \in Threads, ProcStep(t), InstallOk(t)
    PROVE  Client!Next
<1>1. PICK p \in Objs : thread[t].ap = p
  BY ForeignTasks
<1>2. Views[p] = TaskView(p) /\ Views' = [Views EXCEPT ![p] = TaskView(p)']
  BY <1>1, ForeignViews, ViewsStep
<1>3. /\ thread[t].pc \in RunPC /\ thread'[t].pc \in RunPC
      /\ thread[t].err = "SUCCESS" /\ thread'[t].err = "SUCCESS"
  BY GotoFacts DEF InstallOk, RunCodes, RunPC, ActionPC, ProcInv, CoreInv
<1>4. Broken(p) = FALSE /\ Broken(p)' = FALSE
  BY <1>1, <1>3, RunnerStep
<1>5. /\ isRunning[p] = TRUE /\ activated'[p] = TRUE
      /\ UNCHANGED <<isRunning, statusManager>>
  BY <1>1, <1>3 DEF InstallOk, ProcInv, CoreInv, ProcTypeOK, ThreadsOK, ThreadInv
<1>6. TaskView(p)' = [TaskView(p) EXCEPT !.switched = TRUE]
  <2>1. Broken(p)' = Broken(p) /\ isRunning'[p] = isRunning[p]
        /\ statusManager'[p] = statusManager[p]
    BY <1>4, <1>5
  <2>2. TaskView(p)' = [TaskView(p) EXCEPT !.switched = activated'[p]]
    BY <2>1 DEF TaskView
  <2> QED
    BY <1>5, <2>2, Zenon
<1>7. TaskView(p).running /\ ~TaskView(p).broken
  BY <1>4, <1>5 DEF TaskView
<1>8. Client!Switch(p)
  BY <1>2, <1>6, <1>7 DEF Client!Switch, Client!Become
<1> QED
  BY <1>8 DEF Client!Next

\* The report of the final status ends the run.
LEMMA EndView ==
    ASSUME ProcInv, CoreInv', RunCodes, NEW t \in Threads, ProcStep(t),
           CompletedError(t) \/ StartNextEnd(t)
    PROVE  Client!Next
<1>1. PICK p \in Objs : thread[t].ap = p
  BY ForeignTasks
<1>2. Views[p] = TaskView(p) /\ Views' = [Views EXCEPT ![p] = TaskView(p)']
  BY <1>1, ForeignViews, ViewsStep
<1>3. /\ thread[t].pc \in RunPC /\ activated' = activated
      /\ isRunning' = [isRunning EXCEPT ![p] = FALSE]
      /\ Report(p, FinalStatus(thread[t].err), 100)
  BY <1>1, EndingSteps DEF RunPC, ActionPC
<1>4. isRunning[p] = TRUE /\ isRunning'[p] = FALSE
  BY <1>1, <1>3 DEF ProcInv, CoreInv, ProcTypeOK, ThreadsOK, ThreadInv
<1>5. Broken(p) = (thread[t].err # "SUCCESS") /\ Broken(p)' = FALSE
  BY <1>1, <1>3, <1>4, RunnerStep
<1> DEFINE status == IF thread[t].err # "SUCCESS" THEN "FAILED" ELSE "SUCCESSFUL"
<1>6. FinalStatus(thread[t].err) = status /\ status \in UpdateStatus
  BY DEF RunCodes, FinalStatus, UpdateStatus
<1>7. /\ statusManager'[p].updateCallback = statusManager[p].updateCallback
      /\ statusManager'[p].updateStatus =
            IF statusManager[p].updateCallback THEN status ELSE statusManager[p].updateStatus
      /\ statusManager'[p].percent =
            IF statusManager[p].updateCallback THEN 100 ELSE statusManager[p].percent
  <2>1. ProcTypeOK /\ Report(p, status, 100) /\ status \in {"SUCCESSFUL", "FAILED"}
        /\ 100 \in 0..100
    BY <1>3, <1>6 DEF ProcInv, CoreInv
  <2> HIDE DEF status
  <2>2. statusManager[p] \in StatusValue
        /\ statusManager'[p] = UpdateCallback(statusManager[p], status, 100)
    BY <2>1 DEF Report, ProcTypeOK
  <2>3. statusManager'[p].percent =
            IF statusManager[p].updateCallback THEN 100 ELSE statusManager[p].percent
    BY <2>1, <2>2 DEF UpdateCallback, NewPercent, StatusValue
  <2>4. PICK st \in UpdateStatus : st = status /\ Report(p, st, 100)
    BY <1>6, <2>1, Zenon
  <2>5. /\ statusManager'[p].updateCallback = statusManager[p].updateCallback
        /\ statusManager'[p].updateStatus =
              IF statusManager[p].updateCallback THEN st ELSE statusManager[p].updateStatus
    BY <2>1, <2>4, ReportFacts
  <2> QED
    BY <2>3, <2>4, <2>5
<1>8. TaskView(p).running /\ TaskView(p).broken = (thread[t].err # "SUCCESS")
  BY <1>4, <1>5 DEF TaskView
<1>9. TaskView(p)' = Client!Tell([TaskView(p) EXCEPT !.running = FALSE, !.broken = FALSE],
                                 status, 100)
  <2> HIDE DEF status
  <2> QED
    BY <1>3, <1>4, <1>5, <1>7 DEF TaskView, Client!Tell
<1>10. status = IF TaskView(p).broken THEN "FAILED" ELSE "SUCCESSFUL"
  BY <1>8
<1> HIDE DEF status
<1>11. Client!End(p)
  BY <1>2, <1>8, <1>9, <1>10 DEF Client!End, Client!Become
<1> QED
  BY <1>11 DEF Client!Next

\* A client that registers its callback starts to listen.
LEMMA ListenView ==
    ASSUME ProcInv, NEW p \in Objs, SetUpdateCallback(p)
    PROVE  Client!Next
<1>1. /\ UNCHANGED <<isRunning, activated, thread>>
      /\ statusManager' = [statusManager EXCEPT ![p] = SetCallback(statusManager[p])]
  BY DEF SetUpdateCallback
<1>2. \A o \in Objs : Broken(o)' = Broken(o)
  BY <1>1 DEF Broken, Runs
<1>3. statusManager \in [Objs -> StatusValue]
  BY DEF ProcInv, CoreInv, ProcTypeOK
<1>4. \A o \in Objs : o # p => TaskView(o)' = TaskView(o)
  BY <1>1, <1>2, <1>3 DEF TaskView
<1>5. Views[p] = TaskView(p) /\ Views' = [Views EXCEPT ![p] = TaskView(p)']
  BY <1>4, ViewsStep
<1>6. /\ statusManager'[p].updateCallback = TRUE
      /\ statusManager'[p].updateStatus = statusManager[p].updateStatus
      /\ statusManager'[p].percent = statusManager[p].percent
  BY <1>1, <1>3 DEF SetCallback, StatusValue
<1>7. TaskView(p)' = [TaskView(p) EXCEPT !.heard = TRUE]
  <2>1. /\ Broken(p)' = Broken(p) /\ isRunning'[p] = isRunning[p] /\ activated'[p] = activated[p]
        /\ statusManager'[p].updateStatus = statusManager[p].updateStatus
        /\ statusManager'[p].percent = statusManager[p].percent
    BY <1>1, <1>2, <1>6
  <2>2. TaskView(p)' = [TaskView(p) EXCEPT !.heard = statusManager'[p].updateCallback]
    BY <2>1 DEF TaskView
  <2> QED
    BY <1>6, <2>2, Zenon
<1>8. Client!Listen(p)
  BY <1>5, <1>7 DEF Client!Listen, Client!Become
<1> QED
  BY <1>8 DEF Client!Next

\* A new call is invisible.
LEMMA EnterView ==
    ASSUME ProcInv, NEW t \in Threads, NEW p \in Objs, EnterCheck(t, p, p)
    PROVE  Views' = Views
<1>1. UNCHANGED <<isRunning, activated, statusManager>>
  BY DEF EnterCheck
<1>2. /\ thread[t].pc \notin RunPC /\ thread'[t].pc \notin RunPC
      /\ \A u \in Threads : u # t => thread'[u] = thread[u]
  BY DEF EnterCheck, ProcInv, CoreInv, ProcTypeOK, IdleThread, RunPC, ActionPC
<1>3. \A o \in Objs : Broken(o)' = Broken(o)
  BY <1>2 DEF Broken, Runs
<1>4. \A o \in Objs : TaskView(o)' = TaskView(o)
  BY <1>1, <1>3 DEF TaskView
<1> QED
  BY <1>4 DEF Views

(***************************************************************************)
(* Every step of the processers, their threads and their clients is a step *)
(* of UpdateTask or leaves what a client knows unchanged: progress never   *)
(* falls, the status read before UpdateCallback is never written back over *)
(* a later one, and a run in which an action failed switches nothing more  *)
(* and ends as FAILED.                                                     *)
(***************************************************************************)
THEOREM ProcImplementsTask == ProcSpec => ImplementsTask
<1>1. ProcInit => Client!Init
  <2> SUFFICES ASSUME ProcInit PROVE Client!Init
    OBVIOUS
  <2>1. ASSUME NEW p \in Objs PROVE TaskView(p) = Client!New
    <3>1. Broken(p) = FALSE
      <4>1. IdleThread.err = "SUCCESS"
        BY DEF IdleThread
      <4> QED
        BY <4>1 DEF ProcInit, Broken, Good
    <3>2. isRunning[p] = FALSE /\ activated[p] = FALSE /\ statusManager[p] = StatusInit
      BY DEF ProcInit
    <3>3. /\ StatusInit.updateCallback = FALSE /\ StatusInit.updateStatus = "INIT"
          /\ StatusInit.percent = 0
      BY DEF StatusInit
    <3> QED
      BY <3>1, <3>2, <3>3, Zenon DEF TaskView, Client!New
  <2> QED
    BY <2>1 DEF Views, Client!Init
<1>2. ProcInv /\ RunCodes /\ HeldStatus /\ [ProcNext]_procVars => [Client!Next]_Views
  <2> SUFFICES ASSUME ProcInv, RunCodes, HeldStatus, [ProcNext]_procVars
               PROVE  Client!Next \/ Views' = Views
    OBVIOUS
  <2>0. CoreInv'
    BY ProcInvStep DEF ProcInv
  <2>1. ASSUME NEW t \in Threads, ProcStep(t) PROVE Client!Next \/ Views' = Views
    <3>1. CASE CheckRunning(t) \/ AddVerify(t) \/ AddUpdate(t) \/ StartRefused(t)
      BY <2>1, <3>1, OutsideView
    <3>2. CASE Start(t)
      BY <2>0, <2>1, <3>2, StartView
    <3>3. CASE Perform(t) \/ VerifyOk(t) \/ InstallProgress(t) \/ CompletedOk(t)
               \/ StartNextAction(t)
      BY <2>0, <2>1, <3>3, SilentView
    <3>4. CASE VerifyBegin(t) \/ VerifyEnd(t) \/ SetProgress(t)
      BY <2>0, <2>1, <3>4, ReportView
    <3>5. CASE VerifyFail(t) \/ InstallFail(t)
      BY <2>0, <2>1, <3>5, FailView
    <3>6. CASE InstallOk(t)
      BY <2>0, <2>1, <3>6, InstallView
    <3>7. CASE CompletedError(t) \/ StartNextEnd(t)
      BY <2>0, <2>1, <3>7, EndView
    <3> QED
      BY <2>1, <3>1, <3>2, <3>3, <3>4, <3>5, <3>6, <3>7 DEF ProcStep, InstallEnds
  <2>2. ASSUME NEW t \in Threads, NEW o \in Objs, EnterCheck(t, o, o)
        PROVE  Client!Next \/ Views' = Views
    BY <2>2, EnterView
  <2>3. ASSUME NEW o \in Objs, SetUpdateCallback(o) PROVE Client!Next \/ Views' = Views
    BY <2>3, ListenView
  <2>4. CASE UNCHANGED procVars
    BY <2>4 DEF procVars, Views, TaskView, Broken, Runs
  <2> QED
    BY <2>1, <2>2, <2>3, <2>4 DEF ProcNext
<1> QED
  BY <1>1, <1>2, TaskInvariant, PTL DEF ProcSpec, ImplementsTask, Client!Spec
=============================================================================
