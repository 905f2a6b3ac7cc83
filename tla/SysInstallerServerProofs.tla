---------------------- MODULE SysInstallerServerProofs ----------------------
(***************************************************************************)
(* Proofs about the task table (InstallerManager) and, from the same       *)
(* invariants, about the service around it (SysInstallerServer), for any   *)
(* number of IPC threads, objects and tasks and any set of calls.          *)
(*                                                                         *)
(* The table: its types; at most one thread runs a processer, also when a  *)
(* task was erased and made anew while a call held its old objects; and,   *)
(* for [oneway] calls that are delivered one at a time, a package is       *)
(* verified before it is installed and a success is reported only after    *)
(* the slot was switched.                                                  *)
(*                                                                         *)
(* The service: the types of its state, the exit guard of an update that   *)
(* is in progress, and what an unload can cut off.  The handlers are the   *)
(* calls of InstallerManager; the process may end in any state.            *)
(***************************************************************************)
EXTENDS SysInstallerServer, ActionProcesserProofs, FiniteSetTheorems

-----------------------------------------------------------------------------
(***************************************************************************)
(* A new task takes an object that nobody refers to.  Everything else the  *)
(* manager does to the processers is a step of CoreNext or leaves them     *)
(* alone.                                                                  *)
(***************************************************************************)
Renew(o) ==
    /\ \A t \in Threads : thread[t].ap # o /\ thread[t].sm # o
    /\ statusManager' = [statusManager EXCEPT ![o] = StatusInit]
    /\ isRunning' = [isRunning EXCEPT ![o] = FALSE]
    /\ actionQue' = [actionQue EXCEPT ![o] = <<>>]
    /\ curAction' = [curAction EXCEPT ![o] = NoAction]
    /\ activated' = [activated EXCEPT ![o] = FALSE]
    /\ verified' = [verified EXCEPT ![o] = {}]
    /\ UNCHANGED thread

\* Making an object anew keeps the processers' part of the invariant.
LEMMA RenewCore == ASSUME CoreInv, NEW o \in Objs, Renew(o) PROVE CoreInv'
<1>1. ProcTypeOK'
  <2>1. statusManager' \in [Objs -> StatusValue]
    BY StatusInitType DEF Renew, CoreInv, ProcTypeOK
  <2>2. actionQue' \in [Objs -> Seq(Action)]
    BY EmptyQueue DEF Renew, CoreInv, ProcTypeOK
  <2> QED
    BY <2>1, <2>2 DEF Renew, CoreInv, ProcTypeOK
<1>2. \A t \in Threads : ThreadInv(t)'
  <2> SUFFICES ASSUME NEW t \in Threads PROVE ThreadInv(t)'
    OBVIOUS
  <2>1. ThreadInv(t) /\ thread'[t] = thread[t] /\ thread[t].ap # o
    BY DEF Renew, CoreInv, ThreadsOK
  <2>2. CASE thread[t].pc = "idle"
    BY <2>1, <2>2 DEF ThreadInv, RunPC, Performing, ActionPC
  <2>3. CASE thread[t].pc # "idle"
    <3>1. thread[t].ap \in Objs
      BY <2>1, <2>3 DEF ThreadInv
    <3>2. isRunning'[thread[t].ap] = isRunning[thread[t].ap] /\ curAction'[thread[t].ap] = curAction[thread[t].ap]
      BY <2>1, <3>1 DEF Renew, CoreInv, ProcTypeOK
    <3> QED
      BY <2>1, <3>2 DEF ThreadInv
  <2> QED
    BY <2>2, <2>3
<1>3. Exclusive'
  BY DEF Renew, CoreInv, ThreadsOK, Exclusive
<1>4. Attended'
  <2> SUFFICES ASSUME NEW p \in Objs, isRunning'[p] PROVE \E t \in Threads : Runs(t, p)'
    BY DEF Attended
  <2>1. p # o /\ isRunning[p]
    BY DEF Renew, CoreInv, ProcTypeOK
  <2> QED
    BY <2>1 DEF Renew, CoreInv, ThreadsOK, Attended, Runs
<1> QED
  BY <1>1, <1>2, <1>3, <1>4 DEF CoreInv, ThreadsOK
-----------------------------------------------------------------------------
(***************************************************************************)
(* The invariant of the manager: the types of the table, which thread is   *)
(* inside the processer, and which locals hold an object.                  *)
(***************************************************************************)
TableOK ==
    /\ statusManagerMap \in [Tasks -> Objs \cup {NoObj}]
    /\ actionProcesserMap \in [Tasks -> Objs \cup {NoObj}]
    /\ helper \in BOOLEAN
    /\ call \in [Threads -> Calls \cup {NoCall}]

CallInv(t) ==
    /\ thread[t].pc # "idle" => At(t, "StartUpdatePackageZip", "run")
    /\ At(t, "StartUpdatePackageZip", "processer") => call[t].obj \in Objs
    /\ At(t, "SetUpdateCallback", "set") => call[t].obj \in Objs

MgrInd == CoreInv /\ TableOK /\ \A t \in Threads : CallInv(t)

\* The call of t goes on to step s with object o; the other calls stay.
Moved(t, s, o) ==
    /\ call' \in [Threads -> Calls \cup {NoCall}]
    /\ call'[t].op = call[t].op /\ call'[t].step = s /\ call'[t].obj = o
    /\ \A u \in Threads \ {t} : call'[u] = call[u]

\* No handler is called "none".
LEMMA NoneIsNoOp == "none" \notin Op
BY DEF Op, Refused, RefusedEarly, RefusedLate, ParaOps, VabOps, ActiveOps, CloudRomOps, PatchOps

\* A thread in a handler serves a call of the table's type.
LEMMA ServedCall ==
    ASSUME TableOK, NEW t \in Threads, call[t].op # "none"
    PROVE  call[t] \in Calls /\ call[t].task \in Tasks
<1>1. call[t] \in Calls \cup {NoCall} /\ call[t] # NoCall
  BY DEF TableOK, NoCall
<1> QED
  BY <1>1 DEF Calls

\* Continue moves the call.
LEMMA ContinueMoves ==
    ASSUME TableOK, NEW t \in Threads, call[t].op # "none",
           NEW s \in Step, NEW o \in Objs \cup {NoObj}, Continue(t, s, o)
    PROVE  Moved(t, s, o)
<1>1. call[t] \in Calls
  BY ServedCall
<1> DEFINE r == [call[t] EXCEPT !.step = s, !.obj = o]
<1>2. r \in Calls /\ r.op = call[t].op /\ r.step = s /\ r.obj = o
  BY <1>1 DEF Calls
<1>3. call' = [call EXCEPT ![t] = r]
  BY DEF Continue
<1> HIDE DEF r
<1> QED
  BY <1>2, <1>3 DEF Moved, TableOK

\* Done moves the call to its end.
LEMMA DoneMoves ==
    ASSUME TableOK, NEW t \in Threads, call[t].op # "none", Done(t)
    PROVE  Moved(t, "done", NoObj)
<1>1. "done" \in Step /\ Continue(t, "done", NoObj)
  BY DEF Step, Done
<1> QED
  BY <1>1, ContinueMoves

\* What a step inside a handler does to the processers.
LEMMA MgrStepCore ==
    ASSUME MgrInd, NEW t \in Threads, MgrStep(t)
    PROVE  [CoreNext]_procVars \/ \E o \in Objs : Renew(o)
<1>1. CASE InitStatus(t)
  <2>1. PICK o \in Objs :
            /\ ~InUse(o)
            /\ statusManager' = [statusManager EXCEPT ![o] = StatusInit]
            /\ isRunning' = [isRunning EXCEPT ![o] = FALSE]
            /\ actionQue' = [actionQue EXCEPT ![o] = <<>>]
            /\ curAction' = [curAction EXCEPT ![o] = NoAction]
            /\ activated' = [activated EXCEPT ![o] = FALSE]
            /\ verified' = [verified EXCEPT ![o] = {}]
    BY <1>1 DEF InitStatus
  <2>2. \A u \in Threads : thread[u].ap # o /\ thread[u].sm # o
    BY <2>1 DEF InUse
  <2> QED
    BY <1>1, <2>1, <2>2 DEF InitStatus, Renew
<1>2. CASE StartProcesser(t)
  <2>1. At(t, "StartUpdatePackageZip", "processer") /\ call[t].obj \in Objs
    BY <1>2 DEF StartProcesser, MgrInd, CallInv
  <2>2. actionProcesserMap[call[t].task] \in Objs
    BY <1>2, <2>1, ServedCall DEF StartProcesser, MgrInd, TableOK, At
  <2> QED
    BY <1>2, <2>1, <2>2 DEF StartProcesser, CoreNext
<1>3. CASE StartRun(t)
  BY <1>3 DEF StartRun, CoreNext
<1>4. CASE CallbackSet(t)
  BY <1>4 DEF CallbackSet, CoreNext, MgrInd, CallInv
<1>5. CASE UNCHANGED procVars
  BY <1>5
<1> QED
  BY <1>1, <1>2, <1>3, <1>4, <1>5
  DEF MgrStep, InitAlready, InitProcesser, StartStatus, StartNoProcesser, CallbackStatus,
     ReadStatus,
      ResultProcesser, ResultIsRunning, EraseStatus, EraseProcesser

\* The processers' part of the invariant is kept by all that the manager does.
LEMMA MgrCoreStep == ASSUME MgrInd, NEW t \in Threads, MgrStep(t) PROVE CoreInv'
<1>1. CoreInv
  BY DEF MgrInd
<1>2. CASE [CoreNext]_procVars
  BY <1>1, <1>2, TypeStep, ThreadStep DEF CoreInv
<1>3. CASE \E o \in Objs : Renew(o)
  BY <1>1, <1>3, RenewCore
<1> QED
  BY <1>2, <1>3, MgrStepCore

\* A handler that goes on outside the processer.
LEMMA OutsideStep ==
    ASSUME MgrInd, NEW t \in Threads, NEW s \in Step \ {"run"}, NEW o \in Objs \cup {NoObj}, Moved(t, s, o),
           ~At(t, "StartUpdatePackageZip", "run"), UNCHANGED thread,
           s \in {"processer", "set"} /\ call[t].op \in {"StartUpdatePackageZip", "SetUpdateCallback"}
               => o \in Objs
    PROVE  \A u \in Threads : CallInv(u)'
<1> SUFFICES ASSUME NEW u \in Threads PROVE CallInv(u)'
  OBVIOUS
<1>1. CallInv(u) /\ CallInv(t)
  BY DEF MgrInd
<1>2. CASE u # t
  BY <1>1, <1>2 DEF Moved, CallInv, At
<1>3. CASE u = t
  BY <1>1, <1>3 DEF Moved, CallInv, At
<1> QED
  BY <1>2, <1>3

\* The table's part: every step inside a handler keeps it.
LEMMA MgrTableStep ==
    ASSUME MgrInd, NEW t \in Threads, MgrStep(t)
    PROVE  TableOK' /\ \A u \in Threads : CallInv(u)'
<1>0. TableOK /\ \A u \in Threads : CallInv(u)
  BY DEF MgrInd
<1>s. {"status", "processer", "run", "set", "isRunning", "eraseStatus", "eraseProcesser", "done"} \subseteq Step
  BY DEF Step
<1>k. call[t].op # "none" => call[t].task \in Tasks
  BY <1>0, ServedCall
<1>m. ASSUME call[t].op # "none", Done(t) PROVE Moved(t, "done", NoObj)
  BY <1>0, <1>m, DoneMoves
<1>c. ASSUME call[t].op # "none", NEW s \in Step, NEW o \in Objs \cup {NoObj}, Continue(t, s, o)
      PROVE  Moved(t, s, o)
  BY <1>0, <1>c, ContinueMoves
<1> USE DEF TableOK
<1>1. CASE InitAlready(t)
  <2>1. Moved(t, "done", NoObj) /\ UNCHANGED thread
    BY <1>1, <1>m DEF InitAlready, At, procVars
  <2> QED
    BY <1>0, <1>1, <1>s, <2>1, OutsideStep DEF InitAlready, MakeHelper, Moved, At
<1>2. CASE InitStatus(t)
  <2>1. PICK o \in Objs : /\ statusManagerMap' = [statusManagerMap EXCEPT ![call[t].task] = o]
                          /\ Continue(t, "processer", o)
    BY <1>2 DEF InitStatus
  <2>2. Moved(t, "processer", o)
    BY <1>2, <1>s, <1>c, <2>1 DEF InitStatus, At
  <2> QED
    BY <1>0, <1>2, <1>s, <1>k, <2>1, <2>2, OutsideStep DEF InitStatus, MakeHelper, Moved, At
<1>3. CASE InitProcesser(t)
  <2>1. Moved(t, "done", NoObj) /\ UNCHANGED thread /\ call[t].obj \in Objs \cup {NoObj}
    BY <1>0, <1>3, <1>m, ServedCall DEF InitProcesser, At, procVars, Calls
  <2> QED
    BY <1>0, <1>3, <1>s, <1>k, <2>1, OutsideStep DEF InitProcesser, Moved, At
<1>4. CASE StartStatus(t)
  <2>0. statusManagerMap[call[t].task] \in Objs \cup {NoObj}
    BY <1>0, <1>4, <1>k DEF StartStatus, At
  <2>1. CASE statusManagerMap[call[t].task] = NoObj
    <3>1. Moved(t, "done", NoObj) /\ UNCHANGED thread
      BY <1>4, <1>m, <2>1 DEF StartStatus, At, procVars
    <3> QED
      BY <1>0, <1>4, <1>s, <3>1, OutsideStep DEF StartStatus, mapVars, Moved, At
  <2>2. CASE statusManagerMap[call[t].task] # NoObj
    <3>1. Moved(t, "processer", statusManagerMap[call[t].task]) /\ UNCHANGED thread
      BY <1>4, <1>c, <1>s, <2>0, <2>2 DEF StartStatus, At, procVars
    <3> QED
      BY <1>0, <1>4, <1>s, <2>0, <2>2, <3>1, OutsideStep DEF StartStatus, mapVars, Moved, At
  <2> QED
    BY <2>1, <2>2
<1>5. CASE StartNoProcesser(t)
  <2>1. Moved(t, "done", NoObj) /\ UNCHANGED thread
    BY <1>5, <1>m DEF StartNoProcesser, At, procVars
  <2> QED
    BY <1>0, <1>5, <1>s, <2>1, OutsideStep DEF StartNoProcesser, mapVars, Moved, At
<1>6. CASE StartProcesser(t)
  <2>1. Moved(t, "run", NoObj)
    BY <1>6, <1>c, <1>s DEF StartProcesser, At
  <2>2. \A u \in Threads \ {t} : thread'[u] = thread[u]
    BY <1>6 DEF StartProcesser, EnterCheck, MgrInd, CoreInv, ProcTypeOK
  <2>3. ASSUME NEW u \in Threads PROVE CallInv(u)'
    BY <1>0, <1>6, <2>1, <2>2 DEF StartProcesser, Moved, CallInv, At
  <2> QED
    BY <1>0, <1>6, <2>1, <2>3 DEF StartProcesser, mapVars, Moved
<1>7. CASE StartRun(t)
  <2>1. Keeps(t)
    BY <1>7, StepKeeps DEF StartRun, MgrInd, CoreInv
  <2>2. ASSUME NEW u \in Threads PROVE CallInv(u)'
    BY <1>0, <1>7, <2>1 DEF StartRun, Keeps, CallInv, At
  <2> QED
    BY <1>0, <1>7, <2>2 DEF StartRun, mapVars
<1>8. CASE CallbackStatus(t)
  <2>0. statusManagerMap[call[t].task] \in Objs \cup {NoObj}
    BY <1>0, <1>8, <1>k DEF CallbackStatus, At
  <2>1. CASE statusManagerMap[call[t].task] = NoObj
    <3>1. Moved(t, "done", NoObj) /\ UNCHANGED thread
      BY <1>8, <1>m, <2>1 DEF CallbackStatus, At, procVars
    <3> QED
      BY <1>0, <1>8, <1>s, <3>1, OutsideStep DEF CallbackStatus, mapVars, Moved, At
  <2>2. CASE statusManagerMap[call[t].task] # NoObj
    <3>1. Moved(t, "set", statusManagerMap[call[t].task]) /\ UNCHANGED thread
      BY <1>8, <1>c, <1>s, <2>0, <2>2 DEF CallbackStatus, At, procVars
    <3> QED
      BY <1>0, <1>8, <1>s, <2>0, <2>2, <3>1, OutsideStep DEF CallbackStatus, mapVars, Moved, At
  <2> QED
    BY <2>1, <2>2
<1>9. CASE CallbackSet(t)
  <2>1. Moved(t, "done", NoObj) /\ UNCHANGED thread
    BY <1>9, <1>m DEF CallbackSet, SetUpdateCallback, At
  <2> QED
    BY <1>0, <1>9, <1>s, <2>1, OutsideStep DEF CallbackSet, mapVars, Moved, At
<1>10. CASE ReadStatus(t)
  <2>1. Moved(t, "done", NoObj) /\ UNCHANGED thread
    BY <1>10, <1>m DEF ReadStatus, At, procVars
  <2> QED
    BY <1>0, <1>10, <1>s, <2>1, OutsideStep DEF ReadStatus, mapVars, Moved, At
<1>11. CASE ResultProcesser(t)
  <2>0. actionProcesserMap[call[t].task] \in Objs \cup {NoObj}
    BY <1>0, <1>11, <1>k DEF ResultProcesser, At
  <2>1. CASE actionProcesserMap[call[t].task] = NoObj
    <3>1. Moved(t, "done", NoObj) /\ UNCHANGED thread
      BY <1>11, <1>m, <2>1 DEF ResultProcesser, At, procVars
    <3> QED
      BY <1>0, <1>11, <1>s, <3>1, OutsideStep DEF ResultProcesser, mapVars, Moved, At
  <2>2. CASE actionProcesserMap[call[t].task] # NoObj
    <3>1. Moved(t, "isRunning", actionProcesserMap[call[t].task]) /\ UNCHANGED thread
      BY <1>11, <1>c, <1>s, <2>0, <2>2 DEF ResultProcesser, At, procVars
    <3> QED
      BY <1>0, <1>11, <1>s, <2>0, <2>2, <3>1, OutsideStep DEF ResultProcesser, mapVars, Moved, At
  <2> QED
    BY <2>1, <2>2
<1>12. CASE ResultIsRunning(t)
  <2>1. /\ Moved(t, "done", NoObj) \/ Moved(t, "eraseStatus", NoObj)
        /\ UNCHANGED thread
    BY <1>12, <1>c, <1>s DEF ResultIsRunning, At, procVars
  <2> QED
    BY <1>0, <1>12, <1>s, <2>1, OutsideStep DEF ResultIsRunning, mapVars, Moved, At
<1>13. CASE EraseStatus(t)
  <2>1. Moved(t, "eraseProcesser", NoObj) /\ UNCHANGED thread
    BY <1>13, <1>c, <1>s DEF EraseStatus, At, procVars
  <2> QED
    BY <1>0, <1>13, <1>s, <2>1, OutsideStep DEF EraseStatus, Moved, At
<1>14. CASE EraseProcesser(t)
  <2>1. Moved(t, "done", NoObj) /\ UNCHANGED thread
    BY <1>14, <1>m DEF EraseProcesser, At, procVars
  <2> QED
    BY <1>0, <1>14, <1>s, <2>1, OutsideStep DEF EraseProcesser, Moved, At
<1> QED
  BY <1>1, <1>2, <1>3, <1>4, <1>5, <1>6, <1>7, <1>8, <1>9, <1>10, <1>11, <1>12, <1>13, <1>14
  DEF MgrStep

\* The manager starts with empty maps.
LEMMA MgrIndInit == MgrInit => MgrInd
<1> SUFFICES ASSUME MgrInit PROVE MgrInd
  OBVIOUS
<1>1. CoreInv
  BY CoreInit DEF MgrInit
<1>2. TableOK
  BY DEF MgrInit, TableOK
<1>3. ASSUME NEW t \in Threads PROVE CallInv(t)
  <2>1. thread[t].pc = "idle" /\ call[t].op = "none"
    BY DEF MgrInit, ProcInit, IdleThread, NoCall
  <2> QED
    BY <2>1 DEF CallInv, At
<1> QED
  BY <1>1, <1>2, <1>3 DEF MgrInd

\* A call arrives.
LEMMA MgrBeginStep ==
    ASSUME MgrInd, NEW t \in Threads, NEW op \in Op, NEW k \in Tasks, Begin(t, op, k)
    PROVE  MgrInd'
<1> DEFINE r == [op |-> op, step |-> FirstStep(op), task |-> k, obj |-> NoObj]
<1>0. TableOK /\ \A u \in Threads : CallInv(u)
  BY DEF MgrInd
<1>1. FirstStep(op) \in {"done", "processer", "status"}
  BY DEF FirstStep
<1>2. r \in Calls /\ r.op = op /\ r.step = FirstStep(op)
  BY <1>1 DEF Calls, Step
<1>3. call' = [call EXCEPT ![t] = r] /\ UNCHANGED thread
  BY DEF Begin, procVars
<1> HIDE DEF r
<1>4. CoreInv'
  BY DEF Begin, MgrInd, procVars, CoreInv, ProcTypeOK, ThreadsOK, ThreadInv, Exclusive, Attended,
     Runs
<1>5. TableOK'
  BY <1>0, <1>2, <1>3 DEF Begin, TableOK, mapVars
<1>6. ASSUME NEW u \in Threads PROVE CallInv(u)'
  <2>1. CASE u # t
    BY <1>0, <1>3, <2>1 DEF TableOK, CallInv, At
  <2>2. CASE u = t
    <3>1. call[t].op = "none" /\ call'[t] = r
      BY <1>0, <1>3 DEF Begin, InCall, NoCall, TableOK
    <3>2. thread[t].pc = "idle"
      BY <1>0, <3>1 DEF CallInv, At
    <3>3. op = "StartUpdatePackageZip" => FirstStep(op) # "processer"
      BY DEF FirstStep
    <3>4. op = "SetUpdateCallback" => FirstStep(op) # "set"
      BY <1>1
    <3> QED
      BY <1>2, <1>3, <2>2, <3>1, <3>2, <3>3, <3>4 DEF CallInv, At
  <2> QED
    BY <2>1, <2>2
<1> QED
  BY <1>4, <1>5, <1>6 DEF MgrInd

\* A handler returns.
LEMMA MgrEndStep ==
    ASSUME MgrInd, NEW t \in Threads, EndCall(t)
    PROVE  MgrInd'
<1>0. TableOK /\ \A u \in Threads : CallInv(u)
  BY DEF MgrInd
<1>1. call' = [call EXCEPT ![t] = NoCall] /\ UNCHANGED <<thread, mapVars>> /\ NoCall.op = "none"
  BY DEF EndCall, procVars, NoCall
<1>2. thread[t].pc = "idle"
  BY <1>0 DEF EndCall, CallInv, At
<1>3. CoreInv'
  BY DEF EndCall, MgrInd, procVars, CoreInv, ProcTypeOK, ThreadsOK, ThreadInv, Exclusive, Attended,
     Runs
<1>4. TableOK'
  BY <1>0, <1>1 DEF TableOK, mapVars
<1>5. ASSUME NEW u \in Threads PROVE CallInv(u)'
  <2>1. CASE u # t
    BY <1>0, <1>1, <2>1 DEF TableOK, CallInv, At
  <2>2. CASE u = t
    BY <1>0, <1>1, <1>2, <2>2 DEF TableOK, CallInv, At
  <2> QED
    BY <2>1, <2>2
<1> QED
  BY <1>3, <1>4, <1>5 DEF MgrInd

\* The manager's steps, of whatever specification it is a part.
LEMMA MgrIndStep == ASSUME MgrInd, [MgrNext]_mgrVars PROVE MgrInd'
<1>1. ASSUME NEW t \in Threads, MgrStep(t) PROVE MgrInd'
  BY <1>1, MgrCoreStep, MgrTableStep DEF MgrInd
<1>2. ASSUME NEW t \in Threads, NEW op \in Called, NEW k \in Tasks, Begin(t, op, k) PROVE MgrInd'
  BY <1>2, MgrBeginStep, ManagerAssumption
<1>3. CASE UNCHANGED mgrVars
  BY <1>3
  DEF mgrVars, mapVars, procVars, MgrInd, CoreInv, ProcTypeOK, ThreadsOK, ThreadInv, Exclusive,
      Attended, Runs, TableOK, CallInv, At
<1> QED
  BY <1>1, <1>2, <1>3, MgrEndStep DEF MgrNext
-----------------------------------------------------------------------------
(***************************************************************************)
(* Calls delivered one at a time.  One thread at most is inside a          *)
(* processer, so each place of its call determines the queue, the current  *)
(* action and what has been verified and switched.                         *)
(***************************************************************************)
Verify(t) == NewAction(t, "PkgVerify")
Update(t) == NewAction(t, "ABUpdate")
Que(t) == actionQue[thread[t].ap]

\* The package of the call, if there is one, was accepted by VerifyPackage in this run.
Passed(t) == thread[t].pkg = "" \/ t \in verified[thread[t].ap]

VerifyPhase(t) == curAction[thread[t].ap] = Verify(t) /\ Que(t) = <<Update(t)>>
InstallPhase(t) == curAction[thread[t].ap] = Update(t) /\ Que(t) = <<>> /\ Passed(t)

QueueInv(t) ==
    /\ thread[t].pc \in {"check", "addVerify"} => Que(t) = <<>>
    /\ thread[t].pc = "addUpdate" => Que(t) = <<Verify(t)>>
    /\ thread[t].pc = "start" => Que(t) = <<Verify(t), Update(t)>>

RunInv(t) ==
    /\ thread[t].pc = "perform" => VerifyPhase(t) \/ InstallPhase(t)
    /\ thread[t].pc \in {"verifyBegin", "verify", "verifyEnd"} =>
          VerifyPhase(t) /\ thread[t].err = "SUCCESS"
    /\ thread[t].pc = "verifyEnd" => Passed(t)
    /\ thread[t].pc \in {"install", "progress"} => InstallPhase(t) /\ thread[t].err = "SUCCESS"
    /\ thread[t].pc = "completed" =>
          /\ thread[t].err \in {"SUCCESS", "VERIFY_FAIL", "INSTALL_FAIL"}
          /\ \/ VerifyPhase(t) /\ (thread[t].err = "SUCCESS" => Passed(t))
             \/ InstallPhase(t) /\ (thread[t].err = "SUCCESS" => activated[thread[t].ap])
    /\ thread[t].pc = "next" =>
          /\ thread[t].err = "SUCCESS"
          /\ \/ Que(t) = <<Update(t)>> /\ Passed(t)
             \/ Que(t) = <<>> /\ activated[thread[t].ap]

\* The status that SetUpdatePercent will write back is still the one the task shows.
StatusKept(t) ==
    thread[t].pc \in {"verifyBegin", "verifyEnd", "progress"} =>
        thread[t].st = statusManager[thread[t].act.sm].updateStatus

SoleThread == \A t, u \in Threads : thread[t].pc # "idle" /\ thread[u].pc # "idle" => t = u

\* A processer that no thread uses has an empty queue.
Drained == \A p \in Objs :
    (\A t \in Threads : thread[t].pc # "idle" => thread[t].ap # p) => actionQue[p] = <<>>

Truthful ==
    /\ \A p \in Objs : ~statusManager[p].updateCallback => statusManager[p].updateStatus = "INIT"
    /\ SuccessMeansActivated

SerialInv ==
    /\ SoleThread /\ Drained /\ Truthful
    /\ \A t \in Threads : QueueInv(t) /\ RunInv(t) /\ StatusKept(t)

\* Two actions make a queue of length two.
LEMMA AppendTwo == ASSUME NEW S, NEW a \in S, NEW b \in S PROVE Append(<<a>>, b) = <<a, b>>
<1>1. <<a>> \in Seq(S) /\ <<a, b>> \in Seq(S) /\ Len(<<a>>) = 1 /\ Len(<<a, b>>) = 2
  OBVIOUS
<1> DEFINE s == Append(<<a>>, b)
<1>2. s \in Seq(S) /\ Len(s) = 2 /\ s[1] = a /\ s[2] = b
  BY <1>1, AppendProperties
<1> HIDE DEF s
<1>3. \A i \in 1..2 : s[i] = <<a, b>>[i]
  BY <1>2
<1>4. s = <<a, b>>
  BY <1>1, <1>2, <1>3, SeqEqual
<1> QED
  BY <1>4 DEF s

\* The queue of a call never holds more than its two actions.
LEMMA TwoActions ==
    ASSUME NEW S, NEW a \in S, NEW b \in S
    PROVE  /\ Append(<<>>, a) = <<a>> /\ Append(<<a>>, b) = <<a, b>>
           /\ Head(<<a, b>>) = a /\ Tail(<<a, b>>) = <<b>>
           /\ Head(<<b>>) = b /\ Tail(<<b>>) = <<>>
           /\ <<b>> # <<>> /\ <<a, b>> # <<>>
<1>1. Append(<<>>, a) = <<a>>
  OBVIOUS
<1>2. Head(<<a, b>>) = a /\ Head(<<b>>) = b
  OBVIOUS
<1>3. Tail(<<a, b>>) = <<b>>
  OBVIOUS
<1>4. Tail(<<b>>) = <<>>
  OBVIOUS
<1>5. <<b>> # <<>> /\ <<a, b>> # <<>>
  OBVIOUS
<1> QED
  BY <1>1, <1>2, <1>3, <1>4, <1>5, AppendTwo

\* What the two actions of a call carry.
LEMMA ActionParts ==
    ASSUME NEW t \in Threads
    PROVE  /\ Verify(t).kind = "PkgVerify" /\ Update(t).kind = "ABUpdate"
           /\ Verify(t).call = t /\ Update(t).call = t
           /\ Verify(t).pkg = thread[t].pkg /\ Update(t).pkg = thread[t].pkg
           /\ Verify(t).sm = thread[t].sm /\ Update(t).sm = thread[t].sm
BY DEF Verify, Update, NewAction

\* The actions of a call stay the same while the call keeps its objects and its package.
LEMMA ActionsStay ==
    ASSUME NEW t \in Threads, thread'[t].sm = thread[t].sm, thread'[t].pkg = thread[t].pkg
    PROVE  Verify(t)' = Verify(t) /\ Update(t)' = Update(t)
BY DEF Verify, Update, NewAction

\* When only thread t is inside a processer, the others have nothing to lose.
LEMMA OthersIdle ==
    ASSUME SerialInv, NEW t \in Threads, thread[t].pc # "idle",
           \A u \in Threads \ {t} : thread'[u] = thread[u],
           QueueInv(t)', RunInv(t)', StatusKept(t)'
    PROVE  /\ SoleThread'
           /\ \A u \in Threads : QueueInv(u)' /\ RunInv(u)' /\ StatusKept(u)'
<1>1. \A u \in Threads \ {t} : thread'[u].pc = "idle"
  BY DEF SerialInv, SoleThread
<1>2. SoleThread'
  BY <1>1 DEF SoleThread
<1>3. \A u \in Threads \ {t} : QueueInv(u)' /\ RunInv(u)' /\ StatusKept(u)'
  BY <1>1 DEF QueueInv, RunInv, StatusKept
<1> QED
  BY <1>2, <1>3

\* The thread that moves, its objects and its two actions.
LEMMA MoverFacts ==
    ASSUME CoreInv, SerialInv, NEW t \in Threads, ProcStep(t)
    PROVE  /\ thread[t].pc # "idle" /\ thread[t].ap \in Objs /\ thread[t].sm \in Objs
           /\ thread[t] \in ThreadState
           /\ Verify(t) \in Action /\ Update(t) \in Action
           /\ \A u \in Threads \ {t} : thread'[u] = thread[u]
           /\ thread'[t].pc # "idle" =>
                 /\ thread'[t].ap = thread[t].ap /\ thread'[t].sm = thread[t].sm
                 /\ thread'[t].pkg = thread[t].pkg
                 /\ Verify(t)' = Verify(t) /\ Update(t)' = Update(t)
<1>1. thread[t].pc # "idle"
  BY DEF ProcStep, CheckRunning, AddVerify, AddUpdate, StartRefused, Start, Perform, VerifyBegin,
     VerifyOk,
         VerifyFail, VerifyEnd, InstallProgress, SetProgress, InstallEnds, InstallOk, InstallFail,
         CompletedOk, CompletedError, StartNextEnd, StartNextAction
<1>2. thread[t].ap \in Objs /\ thread[t].sm \in Objs /\ thread[t] \in ThreadState
  BY <1>1, CallFacts
<1>3. Verify(t) \in Action /\ Update(t) \in Action
  BY <1>2, NewActionType DEF Verify, Update, ThreadState
<1>4. Keeps(t) /\ IdleThread.pc = "idle"
  BY StepKeeps DEF CoreInv, IdleThread
<1> QED
  BY <1>1, <1>2, <1>3, <1>4, ActionsStay DEF Keeps

\* Only the sole thread can have marked a processer as running.
LEMMA SoleRuns ==
    ASSUME CoreInv, SoleThread, NEW t \in Threads, thread[t].pc # "idle", thread[t].pc \notin RunPC
    PROVE  \A p \in Objs : ~isRunning[p]
<1>1. \A u \in Threads : thread[u].pc \in RunPC => thread[u].pc # "idle"
  BY DEF RunPC, ActionPC
<1> QED
  BY <1>1 DEF CoreInv, ThreadsOK, Attended, Runs, SoleThread

\* The queues stay drained: t still uses its processer, or left its queue empty.
LEMMA DrainedKept ==
    ASSUME SerialInv, NEW t \in Threads, thread[t].pc # "idle",
           \A u \in Threads \ {t} : thread'[u] = thread[u],
           \A q \in Objs : q # thread[t].ap => actionQue'[q] = actionQue[q],
           \/ thread'[t].pc # "idle" /\ thread'[t].ap = thread[t].ap
           \/ thread[t].ap \in Objs => actionQue'[thread[t].ap] = <<>>
    PROVE  Drained'
<1> SUFFICES ASSUME NEW q \in Objs, \A u \in Threads : thread'[u].pc # "idle" => thread'[u].ap # q
             PROVE  actionQue'[q] = <<>>
  BY DEF Drained
<1>1. CASE q = thread[t].ap
  BY <1>1
<1>2. CASE q # thread[t].ap
  <2>1. \A u \in Threads : thread[u].pc # "idle" => thread[u].ap # q
    BY <1>2 DEF SerialInv, SoleThread
  <2> QED
    BY <1>2, <2>1 DEF SerialInv, Drained
<1> QED
  BY <1>1, <1>2

\* The statuses stay truthful while only the running task of t may tell less than it did.
LEMMA TruthKept ==
    ASSUME SerialInv, NEW p \in Objs,
           \A q \in Objs : /\ statusManager'[q].updateStatus = statusManager[q].updateStatus
                           /\ statusManager'[q].updateCallback = statusManager[q].updateCallback
                           /\ isRunning'[q] = isRunning[q],
           \A q \in Objs : q # p => activated'[q] = activated[q],
           isRunning[p] \/ activated'[p] = activated[p]
    PROVE  Truthful'
BY DEF SerialInv, Truthful, SuccessMeansActivated

\* SetUpdatePercent writes back the status that the task shows: only the percent changes.
LEMMA WrittenBack ==
    ASSUME ProcTypeOK, NEW o \in Objs, NEW pct \in 0..100,
           Report(o, statusManager[o].updateStatus, pct)
    PROVE  \A q \in Objs : /\ statusManager'[q].updateStatus = statusManager[q].updateStatus
                           /\ statusManager'[q].updateCallback = statusManager[q].updateCallback
<1>1. statusManager[o].updateStatus \in UpdateStatus
  BY ShownStatus
<1> QED
  BY <1>1, ReportFacts

\* The steps before the run.
LEMMA SerialCall ==
    ASSUME CoreInv, SerialInv, NEW t \in Threads, ProcStep(t),
           CheckRunning(t) \/ AddVerify(t) \/ AddUpdate(t) \/ StartRefused(t)
    PROVE  SerialInv'
<1>0. /\ QueueInv(t) /\ ProcTypeOK /\ SoleThread
      /\ thread \in [Threads -> ThreadState] /\ actionQue \in [Objs -> Seq(Action)]
      /\ IdleThread.pc = "idle"
  BY DEF SerialInv, CoreInv, ProcTypeOK, IdleThread
<1>m. /\ thread[t].pc # "idle" /\ thread[t].ap \in Objs
      /\ Verify(t) \in Action /\ Update(t) \in Action
      /\ \A u \in Threads \ {t} : thread'[u] = thread[u]
      /\ thread'[t].pc # "idle" =>
            /\ thread'[t].ap = thread[t].ap /\ Verify(t)' = Verify(t) /\ Update(t)' = Update(t)
  BY MoverFacts
<1>q. thread[t].pc \in {"check", "addVerify", "addUpdate", "start"}
  BY DEF CheckRunning, AddVerify, AddUpdate, StartRefused
<1>r. \A p \in Objs : ~isRunning[p]
  BY <1>0, <1>m, <1>q, SoleRuns DEF RunPC, ActionPC
<1>s. /\ Append(<<>>, Verify(t)) = <<Verify(t)>>
      /\ Append(<<Verify(t)>>, Update(t)) = <<Verify(t), Update(t)>>
      /\ <<Verify(t), Update(t)>> # <<>>
  BY <1>m, TwoActions
<1>1. /\ UNCHANGED <<isRunning, statusManager, activated>>
      /\ \A q \in Objs : q # thread[t].ap => actionQue'[q] = actionQue[q]
  BY <1>0, <1>m DEF CheckRunning, AddVerify, AddUpdate, StartRefused, AddAction
<1>2. /\ QueueInv(t)'
      /\ thread'[t].pc \in {"idle", "addVerify", "addUpdate", "start"}
      /\ thread'[t].pc = "idle" => Que(t)' = <<>> \/ TRUE
  <2>1. CASE CheckRunning(t)
    <3>1. thread'[t].pc = "addVerify" /\ actionQue' = actionQue /\ thread[t].pc = "check"
      BY <1>0, <1>m, <1>r, <2>1 DEF CheckRunning, Goto, ThreadState
    <3> QED
      BY <1>0, <1>m, <3>1 DEF QueueInv, Que
  <2>2. CASE AddVerify(t)
    <3>1. /\ thread'[t].pc = "addUpdate" /\ thread[t].pc = "addVerify"
          /\ AddAction(thread[t].ap, Verify(t))
      BY <1>0, <2>2 DEF AddVerify, Goto, ThreadState, Verify
    <3>2. actionQue'[thread[t].ap] = <<Verify(t)>>
      BY <1>0, <1>m, <1>r, <1>s, <3>1 DEF AddAction, QueueInv, Que
    <3> QED
      BY <1>m, <3>1, <3>2 DEF QueueInv, Que
  <2>3. CASE AddUpdate(t)
    <3>1. /\ thread'[t].pc = "start" /\ thread[t].pc = "addUpdate"
          /\ AddAction(thread[t].ap, Update(t))
      BY <1>0, <2>3 DEF AddUpdate, Goto, ThreadState, Update
    <3>2. actionQue'[thread[t].ap] = <<Verify(t), Update(t)>>
      BY <1>0, <1>m, <1>r, <1>s, <3>1 DEF AddAction, QueueInv, Que
    <3> QED
      BY <1>m, <3>1, <3>2 DEF QueueInv, Que
  <2>4. CASE StartRefused(t)
    BY <1>0, <1>m, <1>r, <1>s, <2>4 DEF StartRefused, QueueInv, Que
  <2> QED
    BY <2>1, <2>2, <2>3, <2>4
<1>3. RunInv(t)' /\ StatusKept(t)'
  BY <1>2 DEF RunInv, StatusKept
<1>4. thread'[t].pc # "idle"
  BY <1>0, <1>m, <1>r, <1>s DEF CheckRunning, AddVerify, AddUpdate, StartRefused, Goto,
     ThreadState, QueueInv, Que
<1>5. Drained'
  BY <1>m, <1>1, <1>4, DrainedKept
<1>6. Truthful'
  BY <1>m, <1>1, TruthKept
<1> QED
  BY <1>m, <1>2, <1>3, <1>5, <1>6, OthersIdle DEF SerialInv

\* Start with the two actions in the queue.
LEMMA SerialStart ==
    ASSUME CoreInv, SerialInv, NEW t \in Threads, ProcStep(t), Start(t)
    PROVE  SerialInv'
<1> DEFINE p == thread[t].ap
<1>0. /\ QueueInv(t) /\ ProcTypeOK /\ Truthful
      /\ thread \in [Threads -> ThreadState] /\ actionQue \in [Objs -> Seq(Action)]
      /\ curAction \in [Objs -> Action \cup {NoAction}]
      /\ isRunning \in [Objs -> BOOLEAN] /\ activated \in [Objs -> BOOLEAN]
  BY DEF SerialInv, CoreInv, ProcTypeOK
<1>m. /\ thread[t].pc # "idle" /\ p \in Objs
      /\ Verify(t) \in Action /\ Update(t) \in Action
      /\ \A u \in Threads \ {t} : thread'[u] = thread[u]
      /\ thread'[t].pc # "idle" =>
            /\ thread'[t].ap = p /\ Verify(t)' = Verify(t) /\ Update(t)' = Update(t)
  BY MoverFacts
<1>1. thread[t].pc = "start" /\ thread'[t].pc = "perform"
  BY <1>0 DEF Start, Goto, ThreadState
<1>2. actionQue[p] = <<Verify(t), Update(t)>>
  BY <1>0, <1>1 DEF QueueInv, Que
<1>3. actionQue'[p] = <<Update(t)>> /\ curAction'[p] = Verify(t)
  BY <1>0, <1>m, <1>2, TwoActions DEF Start, TakeAction
<1>4. QueueInv(t)' /\ RunInv(t)' /\ StatusKept(t)'
  BY <1>m, <1>1, <1>3 DEF QueueInv, RunInv, StatusKept, VerifyPhase, Que
<1>5. Drained'
  <2>1. \A q \in Objs : q # p => actionQue'[q] = actionQue[q]
    BY <1>0, <1>m DEF Start, TakeAction
  <2> QED
    BY <1>m, <1>1, <2>1, DrainedKept
<1>6. Truthful'
  <2>1. Report(p, "ONGOING", 0) /\ "ONGOING" \in UpdateStatus /\ 0 \in 0..100
    BY DEF Start, UpdateStatus
  <2>2. /\ \A q \in Objs : q # p => statusManager'[q] = statusManager[q]
        /\ statusManager'[p].updateCallback = statusManager[p].updateCallback
        /\ ~statusManager[p].updateCallback =>
              statusManager'[p].updateStatus = statusManager[p].updateStatus
    BY <1>0, <1>m, <2>1, ReportFacts
  <2>3. /\ isRunning'[p] = TRUE
        /\ \A q \in Objs : q # p => isRunning'[q] = isRunning[q] /\ activated'[q] = activated[q]
    BY <1>0, <1>m DEF Start
  <2>4. \A q \in Objs : ~statusManager'[q].updateCallback => statusManager'[q].updateStatus = "INIT"
    BY <1>0, <2>2 DEF Truthful
  <2>5. ASSUME NEW q \in Objs, statusManager'[q].updateStatus = "SUCCESSFUL", ~isRunning'[q]
        PROVE  activated'[q]
    BY <1>0, <2>2, <2>3, <2>5 DEF Truthful, SuccessMeansActivated
  <2> QED
    BY <2>4, <2>5 DEF Truthful, SuccessMeansActivated
<1> QED
  BY <1>m, <1>4, <1>5, <1>6, OthersIdle DEF SerialInv

\* What the steps within an action leave alone.
Within(t) ==
    /\ UNCHANGED <<actionQue, curAction, isRunning>>
    /\ verified[thread[t].ap] \subseteq verified'[thread[t].ap]
    /\ activated[thread[t].ap] => activated'[thread[t].ap]
    /\ \A q \in Objs : q # thread[t].ap => activated'[q] = activated[q]
    /\ \A q \in Objs : /\ statusManager'[q].updateStatus = statusManager[q].updateStatus
                       /\ statusManager'[q].updateCallback = statusManager[q].updateCallback
    /\ thread'[t].pc # "idle"

\* Within an action, only where the thread stands has to be looked at.
LEMMA WithinKeeps ==
    ASSUME CoreInv, SerialInv, NEW t \in Threads, ProcStep(t), Within(t),
           thread[t].pc \in RunPC, thread'[t].pc \in RunPC, RunInv(t)', StatusKept(t)'
    PROVE  SerialInv'
<1>m. /\ thread[t].pc # "idle" /\ thread[t].ap \in Objs
      /\ \A u \in Threads \ {t} : thread'[u] = thread[u]
      /\ thread'[t].ap = thread[t].ap
  BY MoverFacts DEF Within
<1>1. QueueInv(t)'
  BY DEF QueueInv, RunPC, ActionPC
<1>2. Drained'
  BY <1>m, DrainedKept DEF Within
<1>3. isRunning[thread[t].ap]
  BY DEF CoreInv, ThreadsOK, ThreadInv
<1>4. Truthful'
  BY <1>m, <1>3, TruthKept DEF Within
<1> QED
  BY <1>m, <1>1, <1>2, <1>4, OthersIdle DEF SerialInv

\* Within an action, the phase of the run stays.
LEMMA WithinPhase ==
    ASSUME CoreInv, SerialInv, NEW t \in Threads, ProcStep(t), Within(t)
    PROVE  /\ VerifyPhase(t) => VerifyPhase(t)'
           /\ InstallPhase(t) => InstallPhase(t)'
           /\ Passed(t) => Passed(t)'
           /\ thread'[t].ap = thread[t].ap /\ thread[t].ap \in Objs /\ thread[t].sm \in Objs
           /\ thread'[t].pkg = thread[t].pkg
<1>m. /\ thread[t].ap \in Objs /\ thread[t].sm \in Objs
      /\ thread'[t].ap = thread[t].ap /\ thread'[t].pkg = thread[t].pkg
      /\ Verify(t)' = Verify(t) /\ Update(t)' = Update(t)
  BY MoverFacts DEF Within
<1>1. Passed(t) => Passed(t)'
  BY <1>m DEF Passed, Within
<1> QED
  BY <1>m, <1>1 DEF Within, VerifyPhase, InstallPhase, Que

\* PerformAction begins.
LEMMA SerialPerform ==
    ASSUME CoreInv, SerialInv, NEW t \in Threads, ProcStep(t), Perform(t)
    PROVE  SerialInv'
<1> DEFINE p == thread[t].ap
           a == curAction[p]
<1>0. RunInv(t) /\ thread \in [Threads -> ThreadState] /\ thread[t].pc = "perform"
  BY DEF SerialInv, CoreInv, ProcTypeOK, Perform
<1>1. /\ thread'[t].act = a /\ thread'[t].err = "SUCCESS"
      /\ thread'[t].st = statusManager[a.sm].updateStatus
      /\ thread'[t].pc = CASE a.kind = "ABUpdate" -> "install"
                   [] a.kind = "PkgVerify" /\ a.pkg = "" -> "completed"
                   [] OTHER -> "verifyBegin"
      /\ UNCHANGED <<isRunning, actionQue, curAction, statusManager, verified, activated>>
  BY <1>0 DEF Perform, ThreadState
<1>2. thread'[t].pc \in RunPC \ {"idle"} /\ thread[t].pc \in RunPC
  BY <1>0, <1>1 DEF RunPC, ActionPC
<1>3. Within(t)
  BY <1>1, <1>2 DEF Within
<1>p. /\ VerifyPhase(t) => VerifyPhase(t)' /\ a = Verify(t)
      /\ InstallPhase(t) => InstallPhase(t)' /\ a = Update(t)
      /\ Passed(t) => Passed(t)'
      /\ thread'[t].pkg = thread[t].pkg
  BY <1>3, WithinPhase DEF VerifyPhase, InstallPhase
<1> HIDE DEF a
<1>4. CASE VerifyPhase(t)
  <2>1. a.kind = "PkgVerify" /\ a.pkg = thread[t].pkg
    BY <1>p, <1>4, ActionParts
  <2>2. /\ thread[t].pkg = "" => thread'[t].pc = "completed"
        /\ thread[t].pkg # "" => thread'[t].pc = "verifyBegin"
    BY <1>1, <2>1
  <2>3. thread[t].pkg = "" => Passed(t)'
    BY <1>p DEF Passed
  <2> QED
    BY <1>1, <1>2, <1>3, <1>4, <1>p, <2>2, <2>3, WithinKeeps DEF RunInv, StatusKept
<1>5. CASE InstallPhase(t)
  <2>1. a.kind = "ABUpdate"
    BY <1>p, <1>5, ActionParts
  <2>2. thread'[t].pc = "install"
    BY <1>1, <2>1
  <2> QED
    BY <1>1, <1>2, <1>3, <1>5, <1>p, <2>2, WithinKeeps DEF RunInv, StatusKept
<1> QED
  BY <1>0, <1>4, <1>5 DEF RunInv

\* SetUpdatePercent reports the status that the task shows.
LEMMA SerialReport ==
    ASSUME CoreInv, SerialInv, NEW t \in Threads, ProcStep(t), NEW v \in 0..100,
           thread[t].pc \in {"verifyBegin", "verifyEnd", "progress"},
           Report(thread[t].act.sm, thread[t].st, v),
           NEW l \in {"verify", "completed", "install"}, Goto(t, l),
           UNCHANGED <<isRunning, actionQue, curAction, verified, activated>>
    PROVE  /\ Within(t) /\ thread'[t].pc = l /\ thread'[t].err = thread[t].err
           /\ thread'[t].pkg = thread[t].pkg
<1>1. /\ StatusKept(t) /\ ProcTypeOK /\ thread \in [Threads -> ThreadState]
      /\ thread[t].pc \in ActionPC /\ thread[t].act \in Action
  BY CallFacts DEF SerialInv, CoreInv, ProcTypeOK, ActionPC, Performing, ThreadsOK, ThreadInv
<1>2. thread[t].act.sm \in Objs
  BY <1>1 DEF Action
<1>3. thread[t].st = statusManager[thread[t].act.sm].updateStatus
  BY <1>1 DEF StatusKept
<1>4. \A q \in Objs : /\ statusManager'[q].updateStatus = statusManager[q].updateStatus
                      /\ statusManager'[q].updateCallback = statusManager[q].updateCallback
  BY <1>1, <1>2, <1>3, WrittenBack
<1>5. thread'[t].pc = l /\ thread'[t].err = thread[t].err /\ thread'[t].pkg = thread[t].pkg
  BY <1>1 DEF Goto, ThreadState
<1> QED
  BY <1>4, <1>5 DEF Within

\* The steps of PkgVerify.
LEMMA SerialVerify ==
    ASSUME CoreInv, SerialInv, NEW t \in Threads, ProcStep(t),
           VerifyBegin(t) \/ VerifyOk(t) \/ VerifyFail(t) \/ VerifyEnd(t)
    PROVE  SerialInv'
<1> DEFINE p == thread[t].ap
<1>0. /\ RunInv(t) /\ thread \in [Threads -> ThreadState] /\ verified \in [Objs -> SUBSET Threads]
      /\ p \in Objs
  BY MoverFacts DEF SerialInv, CoreInv, ProcTypeOK
<1>1. thread[t].pc \in {"verifyBegin", "verify", "verifyEnd"}
  BY DEF VerifyBegin, VerifyOk, VerifyFail, VerifyEnd
<1>2. VerifyPhase(t) /\ thread[t].err = "SUCCESS" /\ thread[t].pc \in RunPC
  BY <1>0, <1>1 DEF RunInv, RunPC, ActionPC
<1>3. CASE VerifyBegin(t)
  <2>0. 1 \in 0..100
    OBVIOUS
  <2>1. Within(t) /\ thread'[t].pc = "verify" /\ thread'[t].err = "SUCCESS"
    BY <1>2, <1>3, <2>0, SerialReport DEF VerifyBegin
  <2>2. VerifyPhase(t)'
    BY <1>2, <2>1, WithinPhase
  <2> QED
    BY <1>2, <2>1, <2>2, WithinKeeps DEF RunInv, StatusKept, RunPC, ActionPC
<1>4. CASE VerifyOk(t)
  <2>1. /\ thread'[t].pc = "verifyEnd" /\ thread'[t].err = "SUCCESS"
        /\ thread'[t].st = statusManager[thread[t].act.sm].updateStatus
        /\ thread'[t].act = thread[t].act
    BY <1>0, <1>2, <1>4 DEF VerifyOk, ThreadState
  <2>2. thread[t].act.call = t
    <3>1. thread[t].act = Verify(t)
      BY <1>2, <1>4 DEF VerifyPhase, CoreInv, ThreadsOK, ThreadInv, ActionPC, VerifyOk
    <3> QED
      BY <3>1, ActionParts
  <2>3. verified'[p] = verified[p] \cup {t}
    BY <1>0, <1>4, <2>2 DEF VerifyOk
  <2>4. Within(t)
    BY <1>4, <2>1, <2>3 DEF VerifyOk, Within
  <2>5. VerifyPhase(t)' /\ thread'[t].ap = p
    BY <1>2, <2>4, WithinPhase
  <2>6. Passed(t)'
    BY <2>3, <2>5 DEF Passed
  <2>7. RunInv(t)' /\ thread'[t].pc \in RunPC
    BY <2>1, <2>5, <2>6 DEF RunInv, RunPC, ActionPC
  <2>8. StatusKept(t)'
    BY <1>4, <2>1 DEF StatusKept, VerifyOk
  <2> QED
    BY <1>2, <2>4, <2>7, <2>8, WithinKeeps
<1>5. CASE VerifyFail(t)
  <2>1. thread'[t].pc = "completed" /\ thread'[t].err = "VERIFY_FAIL"
    BY <1>0, <1>5 DEF VerifyFail, ThreadState
  <2>2. Within(t)
    BY <1>5, <2>1 DEF VerifyFail, Within
  <2>3. VerifyPhase(t)'
    BY <1>2, <2>2, WithinPhase
  <2> QED
    BY <1>2, <2>1, <2>2, <2>3, WithinKeeps DEF RunInv, StatusKept, RunPC, ActionPC
<1>6. CASE VerifyEnd(t)
  <2>0. 5 \in 0..100 /\ Passed(t)
    BY <1>0, <1>6 DEF VerifyEnd, RunInv
  <2>1. Within(t) /\ thread'[t].pc = "completed" /\ thread'[t].err = "SUCCESS"
    BY <1>2, <1>6, <2>0, SerialReport DEF VerifyEnd
  <2>2. VerifyPhase(t)' /\ Passed(t)'
    BY <1>2, <2>0, <2>1, WithinPhase
  <2> QED
    BY <1>2, <2>1, <2>2, WithinKeeps DEF RunInv, StatusKept, RunPC, ActionPC
<1> QED
  BY <1>3, <1>4, <1>5, <1>6

\* The steps of ABUpdate.
LEMMA SerialInstall ==
    ASSUME CoreInv, SerialInv, NEW t \in Threads, ProcStep(t),
           InstallProgress(t) \/ SetProgress(t) \/ InstallEnds(t)
    PROVE  SerialInv'
<1> DEFINE p == thread[t].ap
<1>0. /\ RunInv(t) /\ thread \in [Threads -> ThreadState] /\ activated \in [Objs -> BOOLEAN]
      /\ p \in Objs
  BY MoverFacts DEF SerialInv, CoreInv, ProcTypeOK
<1>1. thread[t].pc \in {"install", "progress"}
  BY DEF InstallProgress, SetProgress, InstallEnds, InstallOk, InstallFail
<1>2. InstallPhase(t) /\ thread[t].err = "SUCCESS" /\ thread[t].pc \in RunPC
  BY <1>0, <1>1 DEF RunInv, RunPC, ActionPC
<1>3. CASE InstallProgress(t)
  <2>1. /\ thread'[t].pc = "progress" /\ thread'[t].err = "SUCCESS"
        /\ thread'[t].st = statusManager[thread[t].act.sm].updateStatus
        /\ thread'[t].act = thread[t].act
    BY <1>0, <1>2, <1>3 DEF InstallProgress, ThreadState
  <2>2. Within(t) /\ statusManager' = statusManager
    BY <1>3, <2>1 DEF InstallProgress, Within
  <2>3. InstallPhase(t)'
    BY <1>2, <2>2, WithinPhase
  <2> QED
    BY <1>2, <2>1, <2>2, <2>3, WithinKeeps DEF RunInv, StatusKept, RunPC, ActionPC
<1>4. CASE SetProgress(t)
  <2>0. PICK v \in 0..100 : Report(thread[t].act.sm, thread[t].st, v)
    BY <1>4, ProcesserAssumption DEF SetProgress
  <2>1. Within(t) /\ thread'[t].pc = "install" /\ thread'[t].err = "SUCCESS"
    BY <1>2, <1>4, <2>0, SerialReport DEF SetProgress
  <2>2. InstallPhase(t)'
    BY <1>2, <2>1, WithinPhase
  <2> QED
    BY <1>2, <2>1, <2>2, WithinKeeps DEF RunInv, StatusKept, RunPC, ActionPC
<1>5. CASE InstallOk(t)
  <2>1. thread'[t].pc = "completed" /\ thread'[t].err = "SUCCESS"
    BY <1>0, <1>2, <1>5 DEF InstallOk, Goto, ThreadState
  <2>2. activated'[p] = TRUE /\ \A q \in Objs : q # p => activated'[q] = activated[q]
    BY <1>0, <1>5 DEF InstallOk
  <2>3. Within(t)
    BY <1>5, <2>1, <2>2 DEF InstallOk, Within
  <2>4. InstallPhase(t)' /\ thread'[t].ap = p
    BY <1>2, <2>3, WithinPhase
  <2>5. activated'[thread'[t].ap]
    BY <2>2, <2>4
  <2> QED
    BY <1>2, <2>1, <2>3, <2>4, <2>5, WithinKeeps DEF RunInv, StatusKept, RunPC, ActionPC
<1>6. CASE InstallFail(t)
  <2>1. thread'[t].pc = "completed" /\ thread'[t].err = "INSTALL_FAIL"
    BY <1>0, <1>6 DEF InstallFail, ThreadState
  <2>2. Within(t)
    BY <1>6, <2>1 DEF InstallFail, Within
  <2>3. InstallPhase(t)'
    BY <1>2, <2>2, WithinPhase
  <2> QED
    BY <1>2, <2>1, <2>2, <2>3, WithinKeeps DEF RunInv, StatusKept, RunPC, ActionPC
<1> QED
  BY <1>3, <1>4, <1>5, <1>6 DEF InstallEnds

\* An action was completed with success.
LEMMA SerialCompletedOk ==
    ASSUME CoreInv, SerialInv, NEW t \in Threads, ProcStep(t), CompletedOk(t)
    PROVE  SerialInv'
<1> DEFINE p == thread[t].ap
<1>0. /\ RunInv(t) /\ thread \in [Threads -> ThreadState] /\ thread[t].pc = "completed" /\ p \in Objs
      /\ curAction[p] # NoAction /\ curAction \in [Objs -> Action \cup {NoAction}]
  BY MoverFacts, NoActionIsNone
  DEF SerialInv, CoreInv, ProcTypeOK, CompletedOk, ThreadsOK, ThreadInv, Performing, ActionPC
<1>1. thread[t].err = "SUCCESS"
  BY <1>0 DEF CompletedOk, RunInv
<1>2. thread'[t].pc = "next" /\ thread'[t].err = "SUCCESS"
  BY <1>0, <1>1 DEF CompletedOk, Goto, ThreadState
<1>m. /\ \A u \in Threads \ {t} : thread'[u] = thread[u]
      /\ thread'[t].ap = p /\ thread'[t].pkg = thread[t].pkg
      /\ Update(t)' = Update(t)
  BY <1>2, MoverFacts
<1>3. UNCHANGED <<isRunning, actionQue, statusManager, verified, activated>>
  BY DEF CompletedOk
<1>4. /\ Passed(t) => Passed(t)'
      /\ Que(t)' = Que(t) /\ Update(t)' = Update(t)
      /\ activated[p] = activated'[thread'[t].ap]
  BY <1>m, <1>3 DEF Passed, Que
<1>5. \/ VerifyPhase(t) /\ Passed(t)
      \/ InstallPhase(t) /\ activated[p]
  BY <1>0, <1>1 DEF RunInv
<1>6. \/ Que(t)' = <<Update(t)>>' /\ Passed(t)'
      \/ Que(t)' = <<>> /\ activated'[thread'[t].ap]
  BY <1>4, <1>5 DEF VerifyPhase, InstallPhase
<1>7. QueueInv(t)' /\ RunInv(t)' /\ StatusKept(t)'
  BY <1>2, <1>6 DEF QueueInv, RunInv, StatusKept
<1>8. Drained'
  BY <1>0, <1>2, <1>3, <1>m, DrainedKept
<1>9. Truthful'
  BY <1>0, <1>3, TruthKept
<1> QED
  BY <1>0, <1>m, <1>7, <1>8, <1>9, OthersIdle DEF SerialInv

\* The run of t is over and was reported with a status that it earned.
LEMMA SerialOver ==
    ASSUME CoreInv, SerialInv, NEW t \in Threads, thread[t].pc # "idle", thread[t].ap \in Objs,
           Return(t), isRunning' = [isRunning EXCEPT ![thread[t].ap] = FALSE],
           actionQue'[thread[t].ap] = <<>>, \A q \in Objs : q # thread[t].ap => actionQue'[q] = actionQue[q],
           UNCHANGED activated, thread[t].err \in ErrCode,
           Report(thread[t].ap, FinalStatus(thread[t].err), 100),
           thread[t].err # "SUCCESS" \/ activated[thread[t].ap]
    PROVE  SerialInv'
<1> DEFINE p == thread[t].ap
<1>0. ProcTypeOK /\ isRunning \in [Objs -> BOOLEAN] /\ Truthful
  BY DEF CoreInv, ProcTypeOK, SerialInv
<1>1. thread'[t].pc = "idle" /\ \A u \in Threads \ {t} : thread'[u] = thread[u]
  BY <1>0, ReturnFacts
<1>2. QueueInv(t)' /\ RunInv(t)' /\ StatusKept(t)'
  BY <1>1 DEF QueueInv, RunInv, StatusKept
<1>3. Drained'
  BY <1>1, DrainedKept
<1>4. Truthful'
  <2>0. 100 \in 0..100 /\ FinalStatus(thread[t].err) \in UpdateStatus
    BY FinalStatusTerminal DEF Terminal
  <2>1. /\ \A q \in Objs : q # p => statusManager'[q] = statusManager[q]
        /\ statusManager'[p].updateCallback = statusManager[p].updateCallback
        /\ statusManager'[p].updateStatus =
              IF statusManager[p].updateCallback
              THEN FinalStatus(thread[t].err) ELSE statusManager[p].updateStatus
    BY <1>0, <2>0, ReportFacts
  <2>2. thread[t].err # "SUCCESS" => FinalStatus(thread[t].err) # "SUCCESSFUL"
    BY DEF FinalStatus
  <2>3. \A q \in Objs : q # p => isRunning'[q] = isRunning[q]
    BY <1>0
  <2>4. \A q \in Objs : ~statusManager'[q].updateCallback => statusManager'[q].updateStatus = "INIT"
    BY <1>0, <2>1 DEF Truthful
  <2>5. ASSUME NEW q \in Objs, statusManager'[q].updateStatus = "SUCCESSFUL", ~isRunning'[q]
        PROVE  activated'[q]
    <3>1. CASE q # p
      BY <1>0, <2>1, <2>3, <2>5, <3>1 DEF Truthful, SuccessMeansActivated
    <3>2. CASE q = p
      <4>1. statusManager[p].updateCallback
        BY <1>0, <2>1, <2>5, <3>2 DEF Truthful
      <4>2. thread[t].err = "SUCCESS"
        BY <2>1, <2>2, <2>5, <3>2, <4>1
      <4> QED
        BY <3>2, <4>2
    <3> QED
      BY <3>1, <3>2
  <2> QED
    BY <2>4, <2>5 DEF Truthful, SuccessMeansActivated
<1> QED
  BY <1>1, <1>2, <1>3, <1>4, OthersIdle DEF SerialInv

\* The run ends, with an error or with an empty queue, or goes on to the next action.
LEMMA SerialNext ==
    ASSUME CoreInv, SerialInv, NEW t \in Threads, ProcStep(t),
           CompletedError(t) \/ StartNextEnd(t) \/ StartNextAction(t)
    PROVE  SerialInv'
<1> DEFINE p == thread[t].ap
<1>0. /\ RunInv(t) /\ ProcTypeOK /\ thread \in [Threads -> ThreadState] /\ p \in Objs
      /\ thread[t].pc # "idle" /\ thread[t].err \in ErrCode
      /\ actionQue \in [Objs -> Seq(Action)] /\ curAction \in [Objs -> Action \cup {NoAction}]
  BY MoverFacts DEF SerialInv, CoreInv, ProcTypeOK, ThreadState
<1>u. Update(t) \in Action
  BY MoverFacts
<1>1. CASE CompletedError(t)
  <2>1. actionQue'[p] = <<>> /\ \A q \in Objs : q # p => actionQue'[q] = actionQue[q]
    BY <1>0, <1>1 DEF CompletedError
  <2>2. thread[t].err # "SUCCESS"
    BY <1>1 DEF CompletedError
  <2> QED
    BY <1>0, <1>1, <2>1, <2>2, SerialOver DEF CompletedError
<1>2. CASE StartNextEnd(t)
  <2>1. actionQue'[p] = <<>> /\ \A q \in Objs : q # p => actionQue'[q] = actionQue[q]
    BY <1>2 DEF StartNextEnd
  <2>2. activated[p]
    <3>1. <<Update(t)>> # <<>>
      BY <1>u, TwoActions
    <3> QED
      BY <1>0, <1>2, <3>1 DEF StartNextEnd, RunInv, Que
  <2> QED
    BY <1>0, <1>2, <2>1, <2>2, SerialOver DEF StartNextEnd
<1>3. CASE StartNextAction(t)
  <2>1. Que(t) = <<Update(t)>> /\ Passed(t)
    BY <1>0, <1>3 DEF StartNextAction, RunInv, Que
  <2>2. thread'[t].pc = "perform"
    BY <1>0, <1>3 DEF StartNextAction, Goto, ThreadState
  <2>m. /\ \A u \in Threads \ {t} : thread'[u] = thread[u]
        /\ thread'[t].ap = p /\ thread'[t].pkg = thread[t].pkg
        /\ Update(t)' = Update(t)
    BY <2>2, MoverFacts
  <2>3. actionQue'[p] = <<>> /\ curAction'[p] = Update(t)
    BY <1>0, <1>3, <1>u, <2>1, TwoActions DEF StartNextAction, TakeAction, Que
  <2>4. \A q \in Objs : q # p => actionQue'[q] = actionQue[q]
    BY <1>0, <1>3 DEF StartNextAction, TakeAction
  <2>5. UNCHANGED <<isRunning, statusManager, verified, activated>>
    BY <1>3 DEF StartNextAction
  <2>6. Passed(t)'
    BY <2>1, <2>m, <2>5 DEF Passed
  <2>7. QueueInv(t)' /\ RunInv(t)' /\ StatusKept(t)'
    BY <2>2, <2>3, <2>6, <2>m DEF QueueInv, RunInv, StatusKept, InstallPhase, Que
  <2>8. Drained'
    BY <1>0, <2>2, <2>4, <2>m, DrainedKept
  <2>9. Truthful'
    BY <1>0, <2>5, TruthKept
  <2> QED
    BY <1>0, <2>m, <2>7, <2>8, <2>9, OthersIdle DEF SerialInv
<1> QED
  BY <1>1, <1>2, <1>3

\* Every step of a thread in a processer keeps the invariant of the serial service.
LEMMA SerialProcStep ==
    ASSUME CoreInv, SerialInv, NEW t \in Threads, ProcStep(t) PROVE SerialInv'
BY SerialCall, SerialStart, SerialPerform, SerialVerify, SerialInstall, SerialCompletedOk,
   SerialNext
DEF ProcStep

\* A call enters a processer: no other is inside one.
LEMMA SerialEnter ==
    ASSUME Serial, CoreInv, SerialInv, NEW t \in Threads, NEW p \in Objs, NEW s \in Objs, EnterCheck(t, p, s)
    PROVE  SerialInv'
<1>1. \A u \in Threads : thread[u].pc = "idle"
  BY DEF EnterCheck
<1>2. PICK k \in PkgPath :
          thread' = [thread EXCEPT ![t] =
                       [IdleThread EXCEPT !.pc = "check", !.ap = p, !.sm = s, !.pkg = k]]
  BY DEF EnterCheck
<1>3. /\ thread'[t].pc = "check" /\ thread'[t].ap = p
      /\ \A u \in Threads \ {t} : thread'[u].pc = "idle"
  BY <1>1, <1>2 DEF CoreInv, ProcTypeOK, IdleThread
<1>4. \A q \in Objs : actionQue[q] = <<>>
  BY <1>1 DEF SerialInv, Drained
<1>5. UNCHANGED <<isRunning, actionQue, curAction, statusManager, verified, activated>>
  BY DEF EnterCheck
<1>6. SoleThread' /\ Drained'
  BY <1>3, <1>4, <1>5 DEF SoleThread, Drained
<1>7. Truthful'
  BY <1>5 DEF SerialInv, Truthful, SuccessMeansActivated
<1>8. ASSUME NEW u \in Threads PROVE QueueInv(u)' /\ RunInv(u)' /\ StatusKept(u)'
  <2>1. CASE u = t
    BY <1>3, <1>4, <1>5, <2>1 DEF QueueInv, RunInv, StatusKept, Que
  <2>2. CASE u # t
    BY <1>3, <2>2 DEF QueueInv, RunInv, StatusKept
  <2> QED
    BY <2>1, <2>2
<1> QED
  BY <1>6, <1>7, <1>8 DEF SerialInv

\* The status that SetUpdatePercent reports to belongs to the call.
LEMMA ReportsToOwn ==
    ASSUME CoreInv, SerialInv, NEW t \in Threads, thread[t].pc \in {"verifyBegin", "verifyEnd", "progress"}
    PROVE  thread[t].act.sm = thread[t].sm /\ thread[t].sm \in Objs
<1>1. curAction[thread[t].ap] \in {Verify(t), Update(t)}
  BY DEF SerialInv, RunInv, VerifyPhase, InstallPhase
<1>2. thread[t].act = curAction[thread[t].ap] /\ thread[t].sm \in Objs
  BY DEF CoreInv, ThreadsOK, ThreadInv, ActionPC
<1> QED
  BY <1>1, <1>2, ActionParts

\* Steps that leave the threads alone: a callback is registered, or an object is made anew.
LEMMA SerialOutside ==
    ASSUME CoreInv, SerialInv, NEW o \in Objs, SetUpdateCallback(o) \/ Renew(o)
    PROVE  SerialInv'
<1>0. /\ thread' = thread
      /\ statusManager \in [Objs -> StatusValue] /\ isRunning \in [Objs -> BOOLEAN]
      /\ actionQue \in [Objs -> Seq(Action)] /\ curAction \in [Objs -> Action \cup {NoAction}]
      /\ verified \in [Objs -> SUBSET Threads] /\ activated \in [Objs -> BOOLEAN]
  BY DEF SetUpdateCallback, Renew, CoreInv, ProcTypeOK
<1>1. SoleThread'
  BY <1>0 DEF SerialInv, SoleThread
<1>2. Drained'
  BY <1>0 DEF SerialInv, Drained, SetUpdateCallback, Renew
<1>3. Truthful'
  <2>1. CASE SetUpdateCallback(o)
    <3>1. /\ \A q \in Objs : q # o => statusManager'[q] = statusManager[q]
          /\ statusManager'[o].updateCallback = TRUE
          /\ statusManager'[o].updateStatus = statusManager[o].updateStatus
      BY <1>0, <2>1 DEF SetUpdateCallback, SetCallback, StatusValue
    <3> QED
      BY <2>1, <3>1 DEF SerialInv, SetUpdateCallback, Truthful, SuccessMeansActivated
  <2>2. CASE Renew(o)
    <3>1. /\ \A q \in Objs : q # o => /\ statusManager'[q] = statusManager[q]
                                      /\ isRunning'[q] = isRunning[q] /\ activated'[q] = activated[q]
          /\ statusManager'[o].updateStatus = "INIT"
      BY <1>0, <2>2 DEF Renew, StatusInit
    <3> QED
      BY <3>1 DEF SerialInv, Truthful, SuccessMeansActivated
  <2> QED
    BY <2>1, <2>2
<1>4. ASSUME NEW u \in Threads PROVE QueueInv(u)' /\ RunInv(u)' /\ StatusKept(u)'
  <2>1. CASE thread[u].pc = "idle"
    BY <1>0, <2>1 DEF QueueInv, RunInv, StatusKept
  <2>2. CASE thread[u].pc # "idle"
    <3>0. QueueInv(u) /\ RunInv(u) /\ StatusKept(u) /\ thread[u].ap \in Objs
      BY <2>2, CallFacts DEF SerialInv
    <3>1. /\ actionQue'[thread[u].ap] = actionQue[thread[u].ap]
          /\ curAction'[thread[u].ap] = curAction[thread[u].ap]
          /\ verified'[thread[u].ap] = verified[thread[u].ap]
          /\ activated'[thread[u].ap] = activated[thread[u].ap]
      BY <1>0, <3>0 DEF SetUpdateCallback, Renew
    <3>2. Verify(u)' = Verify(u) /\ Update(u)' = Update(u)
      BY <1>0, ActionsStay
    <3>3. QueueInv(u)' /\ RunInv(u)'
      BY <1>0, <3>0, <3>1, <3>2 DEF QueueInv, RunInv, VerifyPhase, InstallPhase, Passed, Que
    <3>4. \A q \in Objs : \/ Renew(o) /\ q = o
                         \/ statusManager'[q].updateStatus = statusManager[q].updateStatus
      BY <1>0 DEF SetUpdateCallback, Renew, SetCallback, StatusValue
    <3>5. ASSUME thread[u].pc \in {"verifyBegin", "verifyEnd", "progress"}
          PROVE  thread[u].st = statusManager'[thread[u].act.sm].updateStatus
      <4>1. thread[u].act.sm = thread[u].sm /\ thread[u].sm \in Objs
        BY <3>5, ReportsToOwn
      <4>2. ~(Renew(o) /\ thread[u].sm = o)
        BY DEF Renew
      <4> QED
        BY <3>0, <3>4, <3>5, <4>1, <4>2 DEF StatusKept
    <3>6. StatusKept(u)'
      BY <1>0, <3>5 DEF StatusKept
    <3> QED
      BY <3>3, <3>6
  <2> QED
    BY <2>1, <2>2
<1> QED
  BY <1>1, <1>2, <1>3, <1>4 DEF SerialInv

\* The service starts with idle threads, empty queues and no callback.
LEMMA SerialInit == ProcInit => SerialInv
<1> SUFFICES ASSUME ProcInit PROVE SerialInv
  OBVIOUS
<1>1. \A t \in Threads : thread[t].pc = "idle"
  BY DEF ProcInit, IdleThread
<1>2. SoleThread /\ \A t \in Threads : QueueInv(t) /\ RunInv(t) /\ StatusKept(t)
  BY <1>1 DEF SoleThread, QueueInv, RunInv, StatusKept
<1>3. Drained
  BY DEF Drained, ProcInit
<1>4. Truthful
  BY DEF Truthful, SuccessMeansActivated, ProcInit, StatusInit
<1> QED
  BY <1>2, <1>3, <1>4 DEF SerialInv

\* The manager's steps, of whatever specification it is a part.
LEMMA SerialStep ==
    ASSUME Serial, MgrInd, SerialInv, [MgrNext]_mgrVars PROVE SerialInv'
<1>0. CoreInv
  BY DEF MgrInd
<1>1. CASE CoreNext
  BY <1>0, <1>1, SerialProcStep, SerialEnter, SerialOutside DEF CoreNext
<1>2. CASE \E o \in Objs : Renew(o)
  BY <1>0, <1>2, SerialOutside
<1>3. CASE UNCHANGED procVars
  <2>1. SoleThread' /\ Drained' /\ Truthful'
    BY <1>3 DEF procVars, SerialInv, SoleThread, Drained, Truthful, SuccessMeansActivated
  <2>2. ASSUME NEW u \in Threads PROVE QueueInv(u)' /\ RunInv(u)' /\ StatusKept(u)'
    <3>1. Verify(u)' = Verify(u) /\ Update(u)' = Update(u) /\ QueueInv(u) /\ RunInv(u) /\ StatusKept(u)
      BY <1>3, ActionsStay DEF procVars, SerialInv
    <3> QED
      BY <1>3, <3>1 DEF procVars, QueueInv, RunInv, StatusKept, VerifyPhase, InstallPhase, Passed,
         Que
  <2> QED
    BY <2>1, <2>2 DEF SerialInv
<1>4. CoreNext \/ (\E o \in Objs : Renew(o)) \/ UNCHANGED procVars
  <2>1. ASSUME NEW t \in Threads, MgrStep(t) PROVE CoreNext \/ (\E o \in Objs : Renew(o)) \/ UNCHANGED procVars
    BY <2>1, MgrStepCore
  <2> QED
    BY <2>1 DEF MgrNext, Begin, EndCall, mgrVars
<1> QED
  BY <1>1, <1>2, <1>3, <1>4

\* What the two invariants say about the processers.
LEMMA SerialSafe ==
    ASSUME CoreInv, SerialInv
    PROVE  VerifiedBeforeInstall /\ SuccessMeansActivated
<1>1. ASSUME NEW t \in Threads, thread[t].pc \in {"install", "progress"}, thread[t].act.pkg # ""
      PROVE  thread[t].act.call \in verified[thread[t].ap]
  <2>1. InstallPhase(t)
    BY <1>1 DEF SerialInv, RunInv
  <2>2. thread[t].act = Update(t)
    BY <1>1, <2>1 DEF InstallPhase, CoreInv, ThreadsOK, ThreadInv, ActionPC
  <2> QED
    <3>1. thread[t].act.pkg = thread[t].pkg /\ thread[t].act.call = t
      BY <2>2, ActionParts
    <3> QED
      BY <1>1, <2>1, <3>1 DEF InstallPhase, Passed
<1> QED
  BY <1>1 DEF VerifiedBeforeInstall, SerialInv, Truthful
-----------------------------------------------------------------------------
\* The invariant of the manager holds in every behaviour.
LEMMA MgrInvariant == MgrSpec => []MgrInd
<1>1. MgrInd /\ [MgrNext]_mgrVars => MgrInd'
  BY MgrIndStep
<1> QED
  BY <1>1, MgrIndInit, PTL DEF MgrSpec

\* With calls delivered one at a time, so does the invariant of the serial service.
LEMMA SerialInvariant == ASSUME Serial PROVE MgrSpec => []SerialInv
<1>1. MgrInit => SerialInv
  BY SerialInit DEF MgrInit
<1>2. MgrInd /\ SerialInv /\ [MgrNext]_mgrVars => SerialInv'
  BY SerialStep
<1> QED
  BY <1>1, <1>2, MgrInvariant, PTL DEF MgrSpec

(***************************************************************************)
(* The task table and the calls keep their types, also when a task is      *)
(* erased and made anew while other calls hold its old objects.            *)
(***************************************************************************)
THEOREM MgrTypeCorrect == MgrSpec => []MgrTypeOK
<1>1. MgrInd => MgrTypeOK
  BY DEF MgrInd, CoreInv, TableOK, MgrTypeOK
<1> QED
  BY <1>1, MgrInvariant, PTL

(***************************************************************************)
(* The flag isRunning_ and the current action belong to one thread, also   *)
(* when the status manager and the processer of a call come from different *)
(* generations of the task, because the two maps have a lock each.         *)
(***************************************************************************)
THEOREM MgrSingleRunner == MgrSpec => [](SingleRunner /\ ActionAlive)
<1>1. MgrInd => SingleRunner
  BY DEF MgrInd, CoreInv, ThreadsOK, ThreadInv, Exclusive, Attended, SingleRunner, Runs
<1>2. MgrInd => ActionAlive
  BY DEF MgrInd, CoreInv, ThreadsOK, ThreadInv, ActionAlive, Performing
<1> QED
  BY <1>1, <1>2, MgrInvariant, PTL

(***************************************************************************)
(* With [oneway] calls delivered one at a time, ABUpdate installs no       *)
(* package that VerifyPackage has not accepted in the same run.            *)
(***************************************************************************)
THEOREM MgrVerifiedBeforeInstall == ASSUME Serial PROVE MgrSpec => []VerifiedBeforeInstall
<1>1. MgrInd /\ SerialInv => VerifiedBeforeInstall
  BY SerialSafe DEF MgrInd
<1> QED
  BY <1>1, MgrInvariant, SerialInvariant, PTL

(***************************************************************************)
(* With [oneway] calls delivered one at a time, a task that is not running *)
(* says SUCCESSFUL only if its last run switched the active slot.          *)
(***************************************************************************)
THEOREM MgrSuccessMeansActivated == ASSUME Serial PROVE MgrSpec => []SuccessMeansActivated
<1>1. MgrInd /\ SerialInv => SuccessMeansActivated
  BY SerialSafe DEF MgrInd
<1> QED
  BY <1>1, MgrInvariant, SerialInvariant, PTL

-----------------------------------------------------------------------------
(***************************************************************************)
(* The service.                                                            *)
(***************************************************************************)
(***************************************************************************)
(* runningSet_ has room for the tags of all calls: the IPC thread pool is  *)
(* far smaller than MAX_RUNNING_SET_SIZE.                                  *)
(***************************************************************************)
GuardFits == IsFiniteSet(Threads) /\ Cardinality(Threads) <= MAX_RUNNING_SET_SIZE

-----------------------------------------------------------------------------
(***************************************************************************)
(* The invariants.                                                         *)
(***************************************************************************)
ServerOK ==
    /\ loaded \in BOOLEAN /\ timerOn \in BOOLEAN /\ unloading \in BOOLEAN
    /\ runningSet \subseteq Threads /\ late \subseteq Threads
    /\ tagInserted \in [Threads -> BOOLEAN]
    /\ exit \in [Exits -> ExitPC]
    /\ idleCounter \in 0..EXIT_CHECK_IDLE_COUNT_THRESHOLD

\* A tag in the set was inserted by the guard of a call that is in progress.
Tagged == \A t \in runningSet : tagInserted[t] /\ call[t].op # "none"

\* sysInstallerServerLock_ has one holder.
OneExit == \A e, f \in Exits : HoldsLock(e) /\ HoldsLock(f) => e = f

SrvInd == MgrInd /\ ServerOK /\ Tagged /\ OneExit

\* The handler that runs an update.
UpdateOp == "StartUpdatePackageZip"

\* [oneway] calls are delivered one at a time.
OneUpdate == \A t, u \in Threads : Serving(t, UpdateOp) /\ Serving(u, UpdateOp) => t = u

GuardInd == OneUpdate /\ UpdateKeepsGuard

\* Every call has its tag, and an exit that saw the set empty spares what began before.
AllTagged == \A t \in Threads : Serving(t, UpdateOp) => tagInserted[t]

Spared ==
    \A e \in Exits : exit[e] \in {"tasks", "unload"} =>
        \A t \in Threads : Serving(t, UpdateOp) => t \in late

UnloadInd == AllTagged /\ Spared

-----------------------------------------------------------------------------
\* The server moves the installer by its own steps, or ends its process.
LEMMA SrvMoves ==
    ASSUME [SrvNext]_srvVars PROVE [MgrNext]_mgrVars \/ MgrInit'
<1>1. CASE ProcessEnds
  BY <1>1 DEF ProcessEnds, MgrInit, ProcInit
<1>2. CASE \E t \in Threads : SrvBegin(t) \/ SrvStep(t) \/ SrvEnd(t)
  BY <1>2 DEF SrvBegin, SrvStep, SrvEnd, MgrNext
<1>3. CASE UNCHANGED mgrVars
  BY <1>3
<1> QED
  BY <1>1, <1>2, <1>3
  DEF SrvNext, ExitStep, ExitLock, ExitReadSet, ExitReadTasks, Unload, UnloadError, ClientExit,
      TimerReadSet, TimerReadTasks, Load, srvVars

\* A new process has the invariants of the installer's initial state.
LEMMA NewProcess == MgrInit' => MgrInd' /\ SerialInv'
<1>1. MgrInit => MgrInd /\ SerialInv
  BY MgrIndInit, SerialInit DEF MgrInit
<1> QED
  BY <1>1, PTL

\* A step inside a handler leaves every thread with the handler it serves.
LEMMA StepKeepsOps ==
    ASSUME MgrInd, NEW t \in Threads, MgrStep(t)
    PROVE  \A u \in Threads : call'[u].op = call[u].op
<1>1. UNCHANGED call \/ \E s, o : Continue(t, s, o)
  BY DEF MgrStep, InitAlready, InitStatus, InitProcesser, StartStatus, StartNoProcesser,
     StartProcesser, StartRun,
         CallbackStatus, CallbackSet, ReadStatus, ResultProcesser, ResultIsRunning, EraseStatus, EraseProcesser, Done
<1>2. ASSUME NEW s, NEW o, Continue(t, s, o) PROVE \A u \in Threads : call'[u].op = call[u].op
  <2>0. call \in [Threads -> Calls \cup {NoCall}]
    BY DEF MgrInd, TableOK
  <2> DEFINE r == [call[t] EXCEPT !.step = s, !.obj = o]
  <2>1. r.op = call[t].op
    BY <2>0 DEF Calls, NoCall
  <2>2. call' = [call EXCEPT ![t] = r]
    BY <1>2 DEF Continue
  <2> HIDE DEF r
  <2> QED
    BY <2>0, <2>1, <2>2
<1> QED
  BY <1>1, <1>2

\* A call that arrives: only its thread's call changes.
LEMMA BeginOps ==
    ASSUME MgrInd, NEW t \in Threads, NEW op \in Op, NEW k \in Tasks, Begin(t, op, k)
    PROVE  /\ call[t].op = "none" /\ call'[t].op = op /\ op # "none"
           /\ \A u \in Threads \ {t} : call'[u].op = call[u].op
<1>0. call \in [Threads -> Calls \cup {NoCall}]
  BY DEF MgrInd, TableOK
<1> DEFINE r == [op |-> op, step |-> FirstStep(op), task |-> k, obj |-> NoObj]
<1>1. call' = [call EXCEPT ![t] = r] /\ r.op = op /\ call[t] = NoCall
  BY DEF Begin, InCall
<1> HIDE DEF r
<1> QED
  BY <1>0, <1>1, NoneIsNoOp DEF NoCall

\* A handler returns: only its thread's call changes.
LEMMA EndOps ==
    ASSUME MgrInd, NEW t \in Threads, EndCall(t)
    PROVE  call'[t].op = "none" /\ \A u \in Threads \ {t} : call'[u].op = call[u].op
<1>1. NoCall.op = "none"
  BY DEF NoCall
<1> QED
  BY <1>1 DEF EndCall, MgrInd, TableOK

\* Only NoCall has no handler.
LEMMA OpMeansCall == ASSUME MgrInd, NEW t \in Threads PROVE InCall(t) <=> call[t].op # "none"
<1>1. call[t] \in Calls \/ call[t] = NoCall
  BY DEF MgrInd, TableOK
<1>2. NoCall.op = "none" /\ \A c \in Calls : c.op # "none"
  BY NoneIsNoOp DEF NoCall, Calls
<1> QED
  BY <1>1, <1>2 DEF InCall

-----------------------------------------------------------------------------
\* The initial state.
LEMMA SrvIndInit == SrvInit => SrvInd /\ GuardInd /\ UnloadInd
<1> SUFFICES ASSUME SrvInit PROVE SrvInd /\ GuardInd /\ UnloadInd
  OBVIOUS
<1>1. MgrInd
  BY MgrIndInit DEF SrvInit
<1>2. \A t \in Threads : call[t].op = "none"
  BY DEF SrvInit, MgrInit, NoCall
<1>3. ServerOK
  <2>1. exit \in [Exits -> ExitPC] /\ tagInserted \in [Threads -> BOOLEAN]
    BY DEF SrvInit, ExitPC
  <2>2. idleCounter \in 0..EXIT_CHECK_IDLE_COUNT_THRESHOLD
    BY ServerAssumption DEF SrvInit
  <2> QED
    BY <2>1, <2>2 DEF SrvInit, ServerOK
<1>4. Tagged /\ OneExit
  BY DEF SrvInit, Tagged, OneExit, HoldsLock
<1> QED
  BY <1>1, <1>2, <1>3, <1>4
  DEF SrvInd, GuardInd, UnloadInd, OneUpdate, UpdateKeepsGuard, AllTagged, Spared, Serving, UpdateOp

\* The end of the process leaves the initial values, and no process.
LEMMA EndsAnew == ASSUME ProcessEnds PROVE SrvInit'
BY DEF ProcessEnds, SrvInit, MgrInit, ProcInit

\* Types, tags and the lock.
LEMMA SrvIndStep == ASSUME SrvInd, [SrvNext]_srvVars PROVE SrvInd'
<1>0. MgrInd /\ ServerOK /\ Tagged /\ OneExit /\ call \in [Threads -> Calls \cup {NoCall}]
  BY DEF SrvInd, MgrInd, TableOK
<1>1. MgrInd'
  BY <1>0, SrvMoves, MgrIndStep, NewProcess
<1>2. ASSUME NEW t \in Threads, SrvBegin(t) PROVE ServerOK' /\ Tagged' /\ OneExit'
  <2>1. PICK op \in Op, k \in Tasks : Begin(t, op, k)
    BY <1>2, ManagerAssumption DEF SrvBegin
  <2>2. /\ call[t].op = "none" /\ call'[t].op # "none"
        /\ \A u \in Threads \ {t} : call'[u].op = call[u].op
    BY <1>0, <2>1, BeginOps
  <2> DEFINE fits == Cardinality(runningSet) < MAX_RUNNING_SET_SIZE
  <2>3. /\ fits \in BOOLEAN
        /\ runningSet' = IF fits THEN runningSet \cup {t} ELSE runningSet
        /\ tagInserted' = [tagInserted EXCEPT ![t] = fits]
        /\ t \notin runningSet
        /\ late' \in {late, late \cup {t}}
        /\ UNCHANGED <<processVars, exit, idleCounter>>
    BY <1>0, <1>2, <2>2 DEF SrvBegin, GuardEnter, Tagged
  <2> HIDE DEF fits
  <2>4. ServerOK'
    BY <1>0, <2>3 DEF ServerOK, processVars
  <2>5. Tagged'
    BY <1>0, <2>2, <2>3 DEF ServerOK, Tagged
  <2> QED
    BY <1>0, <2>3, <2>4, <2>5 DEF OneExit, HoldsLock
<1>3. ASSUME NEW t \in Threads, SrvStep(t) PROVE ServerOK' /\ Tagged' /\ OneExit'
  <2>1. \A u \in Threads : call'[u].op = call[u].op
    BY <1>0, <1>3, StepKeepsOps DEF SrvStep
  <2> QED
    BY <1>0, <1>3, <2>1 DEF SrvStep, ServerOK, Tagged, OneExit, HoldsLock, guardVars, processVars
<1>4. ASSUME NEW t \in Threads, SrvEnd(t) PROVE ServerOK' /\ Tagged' /\ OneExit'
  <2>1. call'[t].op = "none" /\ \A u \in Threads \ {t} : call'[u].op = call[u].op
    BY <1>0, <1>4, EndOps DEF SrvEnd
  <2>2. t \in SameTag(t)
    BY DEF SameTag, Serving
  <2>3. /\ runningSet' \subseteq runningSet /\ t \notin runningSet'
        /\ tagInserted' = [tagInserted EXCEPT ![t] = FALSE]
        /\ late' = late \ {t} /\ UNCHANGED <<processVars, exit, idleCounter>>
    BY <1>0, <1>4, <2>2 DEF SrvEnd, GuardLeave, Tagged
  <2> QED
    BY <1>0, <2>1, <2>3 DEF ServerOK, Tagged, OneExit, HoldsLock, processVars
<1>5. ASSUME NEW e \in Exits, ExitStep(e) PROVE ServerOK' /\ Tagged' /\ OneExit'
  <2>1. /\ UNCHANGED <<call, runningSet, tagInserted, loaded, timerOn, idleCounter>>
        /\ late' \in {late, {}} /\ unloading' \in {unloading, TRUE}
    BY <1>5 DEF ExitStep, ExitLock, ExitReadSet, ExitReadTasks, Unload, UnloadError, mgrVars,
       guardVars, processVars
  <2>2. \E l \in ExitPC : ExitGoto(e, l) /\ (l \in {"set", "tasks", "unload"} => HoldsLock(e) \/ Lockable)
    BY <1>5 DEF ExitStep, ExitLock, ExitReadSet, ExitReadTasks, Unload, UnloadError, HoldsLock,
       ExitPC
  <2>3. exit' \in [Exits -> ExitPC]
    BY <1>0, <2>2 DEF ServerOK, ExitGoto
  <2>4. ServerOK' /\ Tagged'
    BY <1>0, <2>1, <2>3 DEF ServerOK, Tagged
  <2>5. OneExit'
    BY <1>0, <2>2 DEF ServerOK, OneExit, HoldsLock, ExitGoto, Lockable
  <2> QED
    BY <2>4, <2>5
<1>6. CASE ClientExit
  BY <1>0, <1>1, <1>6
  DEF SrvInd, ClientExit, ServerOK, Tagged, OneExit, HoldsLock, ExitGoto, ExitPC, Exits, mgrVars,
     guardVars, processVars
<1>7. CASE TimerReadSet
  BY <1>0, <1>1, <1>7, ServerAssumption
  DEF SrvInd, TimerReadSet, ServerOK, Tagged, OneExit, HoldsLock, ExitGoto, ExitPC, Exits, mgrVars,
     guardVars, processVars
<1>8. CASE TimerReadTasks
  BY <1>0, <1>1, <1>8, ServerAssumption
  DEF SrvInd, TimerReadTasks, ServerOK, Tagged, OneExit, HoldsLock, ExitGoto, ExitPC, Exits,
     mgrVars, guardVars, processVars
<1>9. CASE Load
  BY <1>0, <1>1, <1>9
  DEF SrvInd, Load, RegisterRepeatTimer, ServerOK, Tagged, OneExit, HoldsLock, mgrVars, guardVars
<1>10. CASE ProcessEnds
  <2>1. SrvInit' => SrvInd'
    BY SrvIndInit, PTL
  <2> QED
    BY <1>10, <2>1, EndsAnew
<1>11. CASE UNCHANGED srvVars
  BY <1>0, <1>1, <1>11 DEF SrvInd, srvVars, ServerOK, Tagged, OneExit, HoldsLock, mgrVars,
     guardVars, processVars
<1> QED
  BY <1>1, <1>2, <1>3, <1>4, <1>5, <1>6, <1>7, <1>8, <1>9, <1>10, <1>11 DEF SrvNext, SrvInd

(***************************************************************************)
(* The steps as the guard sees them: which handler a thread serves, which  *)
(* tags are in the set, where the exits stand and which calls are late.    *)
(***************************************************************************)
LEMMA GuardStep == ASSUME Serial, SrvInd, GuardInd, [SrvNext]_srvVars PROVE GuardInd'
<1>0. MgrInd /\ ServerOK /\ Tagged /\ GuardInd
  BY DEF SrvInd
<1> USE DEF GuardInd, OneUpdate, UpdateKeepsGuard, Serving
<1>1. ASSUME NEW t \in Threads, SrvBegin(t) PROVE GuardInd'
  <2>1. PICK op \in Op, k \in Tasks : Begin(t, op, k)
    BY <1>1, ManagerAssumption DEF SrvBegin
  <2>2. /\ call'[t].op = op
        /\ \A u \in Threads \ {t} : call'[u].op = call[u].op
    BY <1>0, <2>1, BeginOps
  <2>3. op = UpdateOp => \A u \in Threads : call[u].op # UpdateOp
    BY <2>1 DEF Begin, UpdateOp
  <2> DEFINE fits == Cardinality(runningSet) < MAX_RUNNING_SET_SIZE
  <2>4. /\ runningSet' = IF fits THEN runningSet \cup {t} ELSE runningSet
        /\ tagInserted' = [tagInserted EXCEPT ![t] = fits]
    BY <1>1 DEF SrvBegin, GuardEnter
  <2> HIDE DEF fits
  <2>5. OneUpdate'
    BY <1>0, <2>2, <2>3
  <2>6. UpdateKeepsGuard'
    BY <1>0, <2>2, <2>4 DEF ServerOK
  <2> QED
    BY <2>5, <2>6
<1>2. ASSUME NEW t \in Threads, SrvStep(t) PROVE GuardInd'
  <2>1. \A u \in Threads : call'[u].op = call[u].op
    BY <1>0, <1>2, StepKeepsOps DEF SrvStep
  <2> QED
    BY <1>0, <1>2, <2>1 DEF SrvStep, guardVars
<1>3. ASSUME NEW t \in Threads, SrvEnd(t) PROVE GuardInd'
  <2>1. call'[t].op = "none" /\ \A u \in Threads \ {t} : call'[u].op = call[u].op
    BY <1>0, <1>3, EndOps DEF SrvEnd
  <2>2. /\ \A u \in runningSet : call[u].op # call[t].op => u \in runningSet'
        /\ tagInserted' = [tagInserted EXCEPT ![t] = FALSE]
    BY <1>0, <1>3 DEF SrvEnd, GuardLeave, SameTag, ServerOK
  <2> QED
    BY <1>0, <2>1, <2>2 DEF ServerOK, UpdateOp
<1>4. CASE ProcessEnds
  <2>1. SrvInit' => GuardInd'
    BY SrvIndInit, PTL
  <2> QED
    BY <1>4, <2>1, EndsAnew
<1>5. CASE UNCHANGED <<call, guardVars>>
  BY <1>0, <1>5 DEF guardVars
<1> QED
  BY <1>1, <1>2, <1>3, <1>4, <1>5
  DEF SrvNext, ExitStep, ExitLock, ExitReadSet, ExitReadTasks, Unload, UnloadError, ClientExit,
      TimerReadSet, TimerReadTasks, Load, srvVars, mgrVars

\* A call that arrives finds room in the set: its own thread is not in it.
LEMMA RoomForTag ==
    ASSUME GuardFits, SrvInd, NEW t \in Threads, t \notin runningSet
    PROVE  Cardinality(runningSet) < MAX_RUNNING_SET_SIZE
<1>1. runningSet \subseteq Threads /\ MAX_RUNNING_SET_SIZE \in Nat
  BY ServerAssumption DEF SrvInd, ServerOK
<1>2. IsFiniteSet(runningSet) /\ Cardinality(runningSet) \in Nat /\ Cardinality(Threads) \in Nat
  BY <1>1, FS_Subset, FS_CardinalityType DEF GuardFits
<1>3. runningSet # Threads
  OBVIOUS
<1>4. Cardinality(runningSet) < Cardinality(Threads)
  BY <1>1, <1>2, <1>3, FS_Subset DEF GuardFits
<1> QED
  BY <1>1, <1>2, <1>4 DEF GuardFits

\* What an exit has seen stays true of the calls that are not late.
LEMMA UnloadStep ==
    ASSUME GuardFits, SrvInd, GuardInd, UnloadInd, [SrvNext]_srvVars PROVE UnloadInd'
<1>0. MgrInd /\ ServerOK /\ Tagged /\ OneExit /\ AllTagged /\ Spared
  BY DEF SrvInd, UnloadInd
<1> USE DEF UnloadInd, AllTagged, Spared, Serving
<1>1. ASSUME NEW t \in Threads, SrvBegin(t) PROVE UnloadInd'
  <2>1. PICK op \in Op, k \in Tasks : Begin(t, op, k)
    BY <1>1, ManagerAssumption DEF SrvBegin
  <2>2. call[t].op = "none" /\ \A u \in Threads \ {t} : call'[u].op = call[u].op
    BY <1>0, <2>1, BeginOps
  <2>3. Cardinality(runningSet) < MAX_RUNNING_SET_SIZE
    BY <1>0, <2>2, RoomForTag DEF Tagged
  <2>4. /\ tagInserted' = [tagInserted EXCEPT ![t] = TRUE]
        /\ exit' = exit /\ late \subseteq late'
        /\ (\E e \in Exits : exit[e] \in {"tasks", "unload"}) => t \in late'
    BY <1>1, <2>3 DEF SrvBegin, GuardEnter
  <2> QED
    BY <1>0, <2>2, <2>4 DEF ServerOK
<1>2. ASSUME NEW t \in Threads, SrvStep(t) PROVE UnloadInd'
  <2>1. \A u \in Threads : call'[u].op = call[u].op
    BY <1>0, <1>2, StepKeepsOps DEF SrvStep
  <2> QED
    BY <1>0, <1>2, <2>1 DEF SrvStep, guardVars
<1>3. ASSUME NEW t \in Threads, SrvEnd(t) PROVE UnloadInd'
  <2>1. call'[t].op = "none" /\ \A u \in Threads \ {t} : call'[u].op = call[u].op
    BY <1>0, <1>3, EndOps DEF SrvEnd
  <2> QED
    BY <1>0, <1>3, <2>1 DEF SrvEnd, GuardLeave, ServerOK, UpdateOp
<1>4. ASSUME NEW e \in Exits, ExitStep(e) PROVE UnloadInd'
  <2>0. UNCHANGED <<call, tagInserted>> /\ exit \in [Exits -> ExitPC]
    BY <1>0, <1>4 DEF ExitStep, ExitLock, ExitReadSet, ExitReadTasks, Unload, UnloadError, mgrVars,
       guardVars, ServerOK
  <2>1. CASE ExitLock(e)
    BY <1>0, <2>0, <2>1 DEF ExitLock, ExitGoto
  <2>2. CASE ExitReadSet(e)
    <3>1. runningSet = {} => \A t \in Threads : call[t].op # UpdateOp
      BY <1>0 DEF GuardInd, UpdateKeepsGuard, UpdateOp
    <3> QED
      BY <1>0, <2>0, <2>2, <3>1 DEF ExitReadSet, ExitGoto
  <2>3. CASE ExitReadTasks(e)
    BY <1>0, <2>0, <2>3 DEF ExitReadTasks, ExitGoto, OneExit, HoldsLock
  <2>4. CASE Unload(e) \/ UnloadError(e)
    BY <1>0, <2>0, <2>4 DEF Unload, UnloadError, ExitGoto, OneExit, HoldsLock
  <2> QED
    BY <1>4, <2>1, <2>2, <2>3, <2>4 DEF ExitStep
<1>5. CASE ProcessEnds
  <2>1. SrvInit' => UnloadInd'
    BY SrvIndInit, PTL
  <2> QED
    BY <1>5, <2>1, EndsAnew
<1>6. CASE ClientExit
  BY <1>0, <1>6 DEF ClientExit, ExitGoto, Exits, ServerOK, mgrVars, guardVars
<1>7. CASE TimerReadSet
  BY <1>0, <1>7 DEF TimerReadSet, ExitGoto, Exits, ServerOK, mgrVars, guardVars
<1>8. CASE TimerReadTasks
  BY <1>0, <1>8 DEF TimerReadTasks, ExitGoto, Exits, ServerOK, mgrVars, guardVars
<1>9. CASE UNCHANGED <<call, tagInserted, exit, late>>
  BY <1>0, <1>9
<1> QED
  BY <1>1, <1>2, <1>3, <1>4, <1>5, <1>6, <1>7, <1>8, <1>9 DEF SrvNext, Load, srvVars, mgrVars,
     guardVars
-----------------------------------------------------------------------------
\* The server's invariant.
LEMMA SrvInvariant == SrvSpec => []SrvInd
<1>1. SrvInd /\ [SrvNext]_srvVars => SrvInd'
  BY SrvIndStep
<1> QED
  BY <1>1, SrvIndInit, PTL DEF SrvSpec

(***************************************************************************)
(* The state of the server keeps its types, and runningSet_ holds tags of  *)
(* calls in progress only: erase(tag_) leaves no tag of a handler that has *)
(* returned, which would keep the service from ever exiting.               *)
(***************************************************************************)
THEOREM SrvTypeCorrect == SrvSpec => []SrvTypeOK
<1>1. ASSUME SrvInd PROVE SrvTypeOK
  <2>1. MgrTypeOK
    BY <1>1 DEF SrvInd, MgrInd, CoreInv, TableOK, MgrTypeOK
  <2>2. runningSet \subseteq {t \in Threads : InCall(t)}
    BY <1>1, OpMeansCall DEF SrvInd, ServerOK, Tagged
  <2> QED
    BY <1>1, <2>1, <2>2 DEF SrvInd, ServerOK, SrvTypeOK
<1>2. SrvInd => SrvTypeOK
  BY <1>1
<1> QED
  BY <1>2, SrvInvariant, PTL

\* The guard's invariant, for calls delivered one at a time.
LEMMA GuardInvariant == ASSUME Serial PROVE SrvSpec => []GuardInd
<1>1. SrvInit => GuardInd
  BY SrvIndInit
<1>2. SrvInd /\ GuardInd /\ [SrvNext]_srvVars => GuardInd'
  BY GuardStep
<1> QED
  BY <1>1, <1>2, SrvInvariant, PTL DEF SrvSpec

(***************************************************************************)
(* With [oneway] calls delivered one at a time, the tag of an update stays *)
(* in runningSet_ until its handler returns, whatever the destructors of   *)
(* other exit guards erase.                                                *)
(***************************************************************************)
THEOREM SrvUpdateKeepsGuard == ASSUME Serial PROVE SrvSpec => []UpdateKeepsGuard
<1>1. GuardInd => UpdateKeepsGuard
  BY DEF GuardInd
<1> QED
  BY <1>1, GuardInvariant, PTL

(***************************************************************************)
(* If besides the set has room for the tags of all IPC threads, an unload  *)
(* that ExitSysInstaller asks for cuts off no update but one that began    *)
(* after the check of runningSet_, for any pair of racing exits.           *)
(***************************************************************************)
THEOREM SrvUnloadSparesUpdates == ASSUME Serial, GuardFits PROVE SrvSpec => []UnloadSparesUpdates
<1>1. SrvInit => UnloadInd
  BY SrvIndInit
<1>2. SrvInd /\ GuardInd /\ UnloadInd /\ [SrvNext]_srvVars => UnloadInd'
  BY UnloadStep
<1>3. UnloadInd => UnloadSparesUpdates
  BY DEF UnloadInd, Spared, UnloadSparesUpdates, UpdateOp
<1> QED
  BY <1>1, <1>2, <1>3, SrvInvariant, GuardInvariant, PTL DEF SrvSpec

(***************************************************************************)
(* The installer inside the server, whose process may end in the middle of *)
(* an update and be loaded anew, still verifies before it installs and     *)
(* reports no success without the switch of the slot.                      *)
(***************************************************************************)
THEOREM SrvSerialSafe == ASSUME Serial PROVE SrvSpec => [](VerifiedBeforeInstall /\ SuccessMeansActivated)
<1>1. SrvInit => SerialInv
  BY SerialInit DEF SrvInit, MgrInit
<1>2. SrvInd /\ SerialInv /\ [SrvNext]_srvVars => SerialInv'
  BY SrvMoves, SerialStep, NewProcess DEF SrvInd
<1>3. SrvInd /\ SerialInv => VerifiedBeforeInstall /\ SuccessMeansActivated
  BY SerialSafe DEF SrvInd, MgrInd
<1> QED
  BY <1>1, <1>2, <1>3, SrvInvariant, PTL DEF SrvSpec
=============================================================================
