-------------------------- MODULE ActionProcesser --------------------------
(***************************************************************************)
(* The action processer of an update task, the two actions the service     *)
(* ships (PkgVerify and ABUpdate) and the threads that drive them          *)
(* (frameworks/action_processer, frameworks/actions/verify_action,         *)
(* services/ab_update, and SysInstallerManagerHelper::StartUpdatePackageZip*)
(* from its IsRunning check on).                                           *)
(*                                                                         *)
(* Actions run on the IPC thread that called Start: Start performs the     *)
(* first action, whose completion callback pops and performs the next one. *)
(* One critical section of mutex_ is one step; so is each part of an       *)
(* action between two accesses to shared state.                            *)
(*                                                                         *)
(* Objs are heap objects: object o stands for the processer and for the    *)
(* status manager that SysInstallerInit creates together, so that          *)
(* statusManager_ of processer o is always status manager o.               *)
(***************************************************************************)
EXTENDS StatusManager, Sequences

CONSTANTS Threads,    \* IPC threads of the service
          Objs,       \* heap objects (processer with its status manager)
          NoObj,      \* the null pointer
          Percents,   \* progress values the package installer reports
          Serial      \* are StartUpdatePackageZip calls delivered one at a time?

\* Serial is what the [oneway] attribute of ISysInstaller.idl gives: the binder
\* driver hands an object its asynchronous transactions one after the other.
ASSUME ProcesserAssumption ==
    /\ Percents \subseteq 0..100
    /\ Serial \in BOOLEAN
    /\ NoObj \notin Objs

VARIABLES isRunning,      \* isRunning_ of each processer
          actionQue,      \* actionQue_
          curAction,      \* curAction_, NoAction when null
          statusManager,  \* the status managers
          thread,         \* control state and locals of each IPC thread
          verified,       \* history: calls whose package passed VerifyPackage in the current run
          activated       \* history: the last run switched the active slot

procVars == <<isRunning, actionQue, curAction, statusManager, thread, verified, activated>>

(***************************************************************************)
(* Values.                                                                 *)
(***************************************************************************)
PkgPath == {"", "zip"}

\* call is the thread that made the action, sm the status manager it was given.
Action == [kind : {"PkgVerify", "ABUpdate"}, call : Threads, sm : Objs, pkg : PkgPath]
NoAction == [kind |-> "null"]

ErrCode == {"SUCCESS", "RETRY_SUCCESS", "CANCEL", "VERIFY_FAIL", "INSTALL_FAIL"}

\* Control points of an action that is being performed.
ActionPC == {"verifyBegin", "verify", "verifyEnd", "install", "progress", "completed"}
\* Control points of the thread that runs a processer's queue.
RunPC == {"perform", "next"} \cup ActionPC
CallPC == {"idle", "check", "addVerify", "addUpdate", "start"} \cup RunPC

IdleThread == [pc |-> "idle", ap |-> NoObj, sm |-> NoObj, pkg |-> "",
               act |-> NoAction, st |-> "INIT", err |-> "SUCCESS"]

Goto(t, l) == thread' = [thread EXCEPT ![t].pc = l]
Return(t)  == thread' = [thread EXCEPT ![t] = IdleThread]

\* UpdateCallback on status manager o.
Report(o, status, pct) ==
    statusManager' = [statusManager EXCEPT ![o] = UpdateCallback(@, status, pct)]

\* A wrong FinalStatus: only a cancelled run is told from a success.
FinalStatusOptimist(e) == IF e = "CANCEL" THEN "CANCEL" ELSE "SUCCESSFUL"

\* The status a finished run is reported with.
FinalStatus(e) == CASE e = "SUCCESS"       -> "SUCCESSFUL"
                    [] e = "RETRY_SUCCESS" -> "RETRY_SUCCESSFUL"
                    [] e = "CANCEL"        -> "CANCEL"
                    [] OTHER               -> "FAILED"
-----------------------------------------------------------------------------
(***************************************************************************)
(* StartUpdatePackageZip from the IsRunning check on.                      *)
(***************************************************************************)
\* A call reaches the check with processer p, status manager s and a package.
EnterCheck(t, p, s) ==
    /\ thread[t].pc = "idle"
    /\ Serial => \A u \in Threads : thread[u].pc = "idle"
    /\ \E k \in PkgPath :
          thread' = [thread EXCEPT ![t] =
                       [IdleThread EXCEPT !.pc = "check", !.ap = p, !.sm = s, !.pkg = k]]
    /\ UNCHANGED <<isRunning, actionQue, curAction, statusManager, verified, activated>>

\* A running processer refuses the call.
CheckRunning(t) ==
    /\ thread[t].pc = "check"
    /\ IF isRunning[thread[t].ap] THEN Return(t) ELSE Goto(t, "addVerify")
    /\ UNCHANGED <<isRunning, actionQue, curAction, statusManager, verified, activated>>

NewAction(t, k) == [kind |-> k, call |-> t, sm |-> thread[t].sm, pkg |-> thread[t].pkg]

\* ActionProcesser::AddAction: a running processer drops the action.
AddAction(p, a) ==
    /\ actionQue' = IF isRunning[p] THEN actionQue
                    ELSE [actionQue EXCEPT ![p] = Append(@, a)]
    /\ UNCHANGED <<isRunning, curAction, statusManager, verified, activated>>

AddVerify(t) ==
    /\ thread[t].pc = "addVerify"
    /\ AddAction(thread[t].ap, NewAction(t, "PkgVerify"))
    /\ Goto(t, "addUpdate")

AddUpdate(t) ==
    /\ thread[t].pc = "addUpdate"
    /\ AddAction(thread[t].ap, NewAction(t, "ABUpdate"))
    /\ Goto(t, "start")

\* A wrong TakeAction: the action stays in the queue.
TakeActionKeeps(p) ==
    /\ curAction' = [curAction EXCEPT ![p] = Head(actionQue[p])]
    /\ UNCHANGED actionQue

\* The head of the queue becomes curAction_ of processer p.
TakeAction(p) ==
    /\ curAction' = [curAction EXCEPT ![p] = Head(actionQue[p])]
    /\ actionQue' = [actionQue EXCEPT ![p] = Tail(@)]

\* A wrong StartRefused: the refusal resets curAction_, as Stop does.
StartRefusedResets(t) ==
    /\ thread[t].pc = "start"
    /\ isRunning[thread[t].ap] \/ actionQue[thread[t].ap] = <<>>
    /\ curAction' = [curAction EXCEPT ![thread[t].ap] = NoAction]
    /\ Return(t)
    /\ UNCHANGED <<isRunning, actionQue, statusManager, verified, activated>>

\* A wrong Start: isRunning_ is not tested.
StartUnchecked(t) ==
    LET p == thread[t].ap IN
    /\ thread[t].pc = "start"
    /\ actionQue[p] # <<>>
    /\ isRunning' = [isRunning EXCEPT ![p] = TRUE]
    /\ Report(p, "ONGOING", 0)
    /\ TakeAction(p)
    /\ Goto(t, "perform")
    /\ UNCHANGED <<verified, activated>>

\* ActionProcesser::Start.
StartRefused(t) ==
    /\ thread[t].pc = "start"
    /\ isRunning[thread[t].ap] \/ actionQue[thread[t].ap] = <<>>
    /\ Return(t)
    /\ UNCHANGED <<isRunning, actionQue, curAction, statusManager, verified, activated>>

Start(t) ==
    LET p == thread[t].ap IN
    /\ thread[t].pc = "start"
    /\ ~isRunning[p] /\ actionQue[p] # <<>>
    /\ isRunning' = [isRunning EXCEPT ![p] = TRUE]
    /\ activated' = [activated EXCEPT ![p] = FALSE]
    /\ verified' = [verified EXCEPT ![p] = {}]
    /\ Report(p, "ONGOING", 0)
    /\ TakeAction(p)
    /\ Goto(t, "perform")
-----------------------------------------------------------------------------
(***************************************************************************)
(* PerformAction of the current action.  SetUpdatePercent reads            *)
(* updateStatus_ without the lock (into st) and passes it to               *)
(* UpdateCallback in a later step.                                         *)
(***************************************************************************)
\* Call PerformAction of curAction_.  PkgVerify returns success at once when no
\* package name is left; otherwise it reads the status for SetUpdatePercent(1).
Perform(t) ==
    LET a == curAction[thread[t].ap] IN
    /\ thread[t].pc = "perform"
    /\ thread' = [thread EXCEPT ![t] = [@ EXCEPT
          !.act = a,
          !.err = "SUCCESS",
          !.st = statusManager[a.sm].updateStatus,
          !.pc = CASE a.kind = "ABUpdate" -> "install"
                   [] a.kind = "PkgVerify" /\ a.pkg = "" -> "completed"
                   [] OTHER -> "verifyBegin"]]
    /\ UNCHANGED <<isRunning, actionQue, curAction, statusManager, verified, activated>>

\* SetUpdatePercent(1) of PkgVerify::Verify.
VerifyBegin(t) ==
    /\ thread[t].pc = "verifyBegin"
    /\ Report(thread[t].act.sm, thread[t].st, 1)
    /\ Goto(t, "verify")
    /\ UNCHANGED <<isRunning, actionQue, curAction, verified, activated>>

\* VerifyPackage accepts the package.
VerifyOk(t) ==
    /\ thread[t].pc = "verify"
    /\ verified' = [verified EXCEPT ![thread[t].ap] = @ \cup {thread[t].act.call}]
    /\ thread' = [thread EXCEPT ![t] = [@ EXCEPT
          !.pc = "verifyEnd", !.st = statusManager[thread[t].act.sm].updateStatus]]
    /\ UNCHANGED <<isRunning, actionQue, curAction, statusManager, activated>>

\* No real path, or VerifyPackage rejects the package.
VerifyFail(t) ==
    /\ thread[t].pc = "verify"
    /\ thread' = [thread EXCEPT ![t] = [@ EXCEPT !.pc = "completed", !.err = "VERIFY_FAIL"]]
    /\ UNCHANGED <<isRunning, actionQue, curAction, statusManager, verified, activated>>

\* SetUpdatePercent(5), twice: with one package both calls report 5.
VerifyEnd(t) ==
    /\ thread[t].pc = "verifyEnd"
    /\ Report(thread[t].act.sm, thread[t].st, 5)
    /\ Goto(t, "completed")
    /\ UNCHANGED <<isRunning, actionQue, curAction, verified, activated>>

\* DoInstallUpdaterPackage calls back with progress: SetProgress reads the status ...
InstallProgress(t) ==
    /\ thread[t].pc = "install"
    /\ thread' = [thread EXCEPT ![t] = [@ EXCEPT
          !.pc = "progress", !.st = statusManager[thread[t].act.sm].updateStatus]]
    /\ UNCHANGED <<isRunning, actionQue, curAction, statusManager, verified, activated>>

\* ... and reports it with the new percent.
SetProgress(t) ==
    /\ thread[t].pc = "progress"
    /\ \E v \in Percents : Report(thread[t].act.sm, thread[t].st, v)
    /\ Goto(t, "install")
    /\ UNCHANGED <<isRunning, actionQue, curAction, verified, activated>>

\* The package is installed; StartABUpdate ends with SetActiveSlot.
InstallOk(t) ==
    /\ thread[t].pc = "install"
    /\ activated' = [activated EXCEPT ![thread[t].ap] = TRUE]
    /\ Goto(t, "completed")
    /\ UNCHANGED <<isRunning, actionQue, curAction, statusManager, verified>>

\* A parameter cannot be set, or the installation fails: the slot stays.
InstallFail(t) ==
    /\ thread[t].pc = "install"
    /\ thread' = [thread EXCEPT ![t] = [@ EXCEPT !.pc = "completed", !.err = "INSTALL_FAIL"]]
    /\ UNCHANGED <<isRunning, actionQue, curAction, statusManager, verified, activated>>
-----------------------------------------------------------------------------
(***************************************************************************)
(* The completion callback.                                                *)
(***************************************************************************)
\* A wrong CompletedOk: the error code is not looked at.
CompletedAnyCode(t) ==
    LET p == thread[t].ap IN
    /\ thread[t].pc = "completed"
    /\ curAction' = [curAction EXCEPT ![p] = NoAction]
    /\ IF curAction[p] = NoAction THEN Return(t) ELSE Goto(t, "next")
    /\ UNCHANGED <<isRunning, actionQue, statusManager, verified, activated>>

\* A wrong CompletedError: the failure is not reported.
CompletedSilently(t) ==
    LET p == thread[t].ap IN
    /\ thread[t].pc = "completed"
    /\ curAction[p] # NoAction
    /\ thread[t].err \notin {"SUCCESS", "RETRY_SUCCESS"}
    /\ curAction' = [curAction EXCEPT ![p] = NoAction]
    /\ isRunning' = [isRunning EXCEPT ![p] = FALSE]
    /\ actionQue' = [actionQue EXCEPT ![p] = <<>>]
    /\ Return(t)
    /\ verified' = [verified EXCEPT ![p] = {}]
    /\ UNCHANGED <<statusManager, activated>>

\* CompletedAction after a success: the lock is released before StartNextAction.
\* Without a current action there is nothing to complete, whatever the code.
CompletedOk(t) ==
    LET p == thread[t].ap IN
    /\ thread[t].pc = "completed"
    /\ thread[t].err \in {"SUCCESS", "RETRY_SUCCESS"} \/ curAction[p] = NoAction
    /\ curAction' = [curAction EXCEPT ![p] = NoAction]
    /\ IF curAction[p] = NoAction THEN Return(t) ELSE Goto(t, "next")
    /\ UNCHANGED <<isRunning, actionQue, statusManager, verified, activated>>

\* CompletedAction after an error: stop, report, forget the other actions.
CompletedError(t) ==
    LET p == thread[t].ap IN
    /\ thread[t].pc = "completed"
    /\ curAction[p] # NoAction
    /\ thread[t].err \notin {"SUCCESS", "RETRY_SUCCESS"}
    /\ curAction' = [curAction EXCEPT ![p] = NoAction]
    /\ isRunning' = [isRunning EXCEPT ![p] = FALSE]
    /\ Report(p, FinalStatus(thread[t].err), 100)
    /\ actionQue' = [actionQue EXCEPT ![p] = <<>>]
    /\ Return(t)
    /\ verified' = [verified EXCEPT ![p] = {}]
    /\ UNCHANGED activated

\* StartNextAction with an empty queue: the run is over.
StartNextEnd(t) ==
    LET p == thread[t].ap IN
    /\ thread[t].pc = "next"
    /\ actionQue[p] = <<>>
    /\ isRunning' = [isRunning EXCEPT ![p] = FALSE]
    /\ Report(p, FinalStatus(thread[t].err), 100)
    /\ verified' = [verified EXCEPT ![p] = {}]
    /\ Return(t)
    /\ UNCHANGED <<actionQue, curAction, activated>>

\* StartNextAction with a next action.
StartNextAction(t) ==
    LET p == thread[t].ap IN
    /\ thread[t].pc = "next"
    /\ actionQue[p] # <<>>
    /\ TakeAction(p)
    /\ Goto(t, "perform")
    /\ UNCHANGED <<isRunning, statusManager, verified, activated>>

\* A client registers its callback with status manager o.
SetUpdateCallback(o) ==
    /\ statusManager' = [statusManager EXCEPT ![o] = SetCallback(@)]
    /\ UNCHANGED <<isRunning, actionQue, curAction, thread, verified, activated>>
-----------------------------------------------------------------------------
ProcInit ==
    /\ isRunning = [o \in Objs |-> FALSE]
    /\ actionQue = [o \in Objs |-> <<>>]
    /\ curAction = [o \in Objs |-> NoAction]
    /\ statusManager = [o \in Objs |-> StatusInit]
    /\ thread = [t \in Threads |-> IdleThread]
    /\ verified = [o \in Objs |-> {}]
    /\ activated = [o \in Objs |-> FALSE]

\* The steps that end the call of an external library.
InstallEnds(t) == InstallOk(t) \/ InstallFail(t)

\* A step of a thread that already has its processer and status manager.
ProcStep(t) ==
    \/ CheckRunning(t) \/ AddVerify(t) \/ AddUpdate(t) \/ StartRefused(t) \/ Start(t)
    \/ Perform(t)
    \/ VerifyBegin(t) \/ VerifyOk(t) \/ VerifyFail(t) \/ VerifyEnd(t)
    \/ InstallProgress(t) \/ SetProgress(t) \/ InstallEnds(t)
    \/ CompletedOk(t) \/ CompletedError(t) \/ StartNextEnd(t) \/ StartNextAction(t)

ProcNext ==
    \/ \E t \in Threads : ProcStep(t)
    \/ \E t \in Threads, o \in Objs : EnterCheck(t, o, o)
    \/ \E o \in Objs : SetUpdateCallback(o)

(***************************************************************************)
(* A thread inside a call keeps running, and the external installer        *)
(* returns however often it reports progress before.  Clients owe nothing. *)
(***************************************************************************)
ProcFairness == \A t \in Threads : WF_procVars(ProcStep(t)) /\ SF_procVars(InstallEnds(t))

ProcSpec == ProcInit /\ [][ProcNext]_procVars
ProcFairSpec == ProcSpec /\ ProcFairness
-----------------------------------------------------------------------------
(***************************************************************************)
(* Properties.                                                             *)
(***************************************************************************)
ThreadState ==
    [pc : CallPC, ap : Objs \cup {NoObj}, sm : Objs \cup {NoObj}, pkg : PkgPath,
     act : Action \cup {NoAction}, st : UpdateStatus, err : ErrCode]

\* The types of the processers' and threads' state.
ProcTypeOK ==
    /\ isRunning \in [Objs -> BOOLEAN]
    /\ actionQue \in [Objs -> Seq(Action)]
    /\ curAction \in [Objs -> Action \cup {NoAction}]
    /\ statusManager \in [Objs -> StatusValue]
    /\ thread \in [Threads -> ThreadState]
    /\ verified \in [Objs -> SUBSET Threads]
    /\ activated \in [Objs -> BOOLEAN]

\* Thread t runs the queue of processer p.
Runs(t, p) == thread[t].ap = p /\ thread[t].pc \in RunPC

(***************************************************************************)
(* However calls overlap, at most one thread runs a processer's actions,   *)
(* and isRunning_ is set exactly while one does: the flag survives the     *)
(* unlocked window between CompletedAction and StartNextAction.            *)
(***************************************************************************)
SingleRunner ==
    \A p \in Objs :
        /\ \A t, u \in Threads : Runs(t, p) /\ Runs(u, p) => t = u
        /\ isRunning[p] <=> \E t \in Threads : Runs(t, p)

(***************************************************************************)
(* curAction_ owns the action: from the call of PerformAction until its    *)
(* completion callback clears it, no other call destroys or replaces the   *)
(* action (Start and StartNextAction use curAction_ after unlocking).      *)
(***************************************************************************)
ActionAlive ==
    \A t \in Threads :
        /\ thread[t].pc \in ActionPC => curAction[thread[t].ap] = thread[t].act
        /\ thread[t].pc \in {"perform"} \cup ActionPC => curAction[thread[t].ap] # NoAction

(***************************************************************************)
(* A task whose processer is idle is never left with the status ONGOING,   *)
(* although SetUpdatePercent writes back a status it read earlier without  *)
(* the lock.                                                               *)
(***************************************************************************)
StatusSettled ==
    \A p \in Objs : statusManager[p].updateStatus = "ONGOING" => isRunning[p]

\* The types, and no idle task that says ONGOING.
ProcesserInv == ProcTypeOK /\ StatusSettled

(***************************************************************************)
(* A task as its client knows it: broken when an action of its run has     *)
(* failed and the completion callback has not yet been told.               *)
(***************************************************************************)
Broken(p) ==
    \E t \in Threads : Runs(t, p) /\ thread[t].err \notin {"SUCCESS", "RETRY_SUCCESS"}

TaskView(p) == [running |-> isRunning[p], broken |-> Broken(p), switched |-> activated[p],
                heard |-> statusManager[p].updateCallback,
                status |-> statusManager[p].updateStatus,
                percent |-> statusManager[p].percent]

Views == [p \in Objs |-> TaskView(p)]

Client == INSTANCE UpdateTask WITH Task <- Objs, task <- Views

(***************************************************************************)
(* The processer with its actions keeps what UpdateTask promises, however  *)
(* calls overlap: SetUpdatePercent, which writes back a status it read     *)
(* earlier without the lock, never undoes a later report, and after an     *)
(* action that failed nothing but the report of the failure follows.       *)
(***************************************************************************)
ImplementsTask == Client!Spec

(***************************************************************************)
(* Every run ends: a processer that runs becomes idle again, also when     *)
(* calls, refused or not, keep arriving.                                   *)
(***************************************************************************)
RunEnds == \A p \in Objs : isRunning[p] ~> ~isRunning[p]

(***************************************************************************)
(* With calls delivered one at a time, a package is installed only after   *)
(* VerifyPackage accepted it in the same run; an empty path has no        *)
(* package to verify.                                                      *)
(***************************************************************************)
VerifiedBeforeInstall ==
    \A t \in Threads :
        thread[t].pc \in {"install", "progress"} /\ thread[t].act.pkg # ""
            => thread[t].act.call \in verified[thread[t].ap]

(***************************************************************************)
(* With calls delivered one at a time, an idle task that says SUCCESSFUL   *)
(* has switched the active slot in its last run.                           *)
(***************************************************************************)
SuccessMeansActivated ==
    \A p \in Objs :
        statusManager[p].updateStatus = "SUCCESSFUL" /\ ~isRunning[p] => activated[p]
=============================================================================
