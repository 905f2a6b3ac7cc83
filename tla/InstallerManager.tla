-------------------------- MODULE InstallerManager --------------------------
(***************************************************************************)
(* The task table of the installer (SysInstallerManagerHelper): which      *)
(* status manager and which action processer belong to a task, and the     *)
(* IPC calls that create, look up and erase them.  The two maps have a     *)
(* lock each, so a call that needs both sees them at different moments.    *)
(*                                                                         *)
(* A call is Begin, its steps, and EndCall.  StartUpdatePackageZip looks   *)
(* up both objects and then takes the steps of ActionProcesser.            *)
(***************************************************************************)
EXTENDS ActionProcesser

(***************************************************************************)
(* Calls that SysInstallerManager passes on and the shipped helper answers *)
(* with -1; a product may bring a helper of its own.                       *)
(***************************************************************************)
ParaOps == {"StartUpdateParaZip", "StartDeleteParaZip", "AccDecompressAndVerifyPkg", "AccDeleteDir"}
VabOps == {"StartUpdateVabPackageZip", "StartUpdateSingularPackageZip", "StartUpdateABPackageZip",
           "CancelUpdateVabPackageZip", "GetPartitionAvailableSize", "StartVabMerge",
           "CreateVabSnapshotCowImg", "ClearVabMetadataAndCow"}
ActiveOps == {"VabUpdateActive", "GetMetadataResult", "StartAbSync", "SetAiMergeState", "SetUpdateVabMode"}
CloudRomOps == {"InstallCloudRom", "UninstallCloudRom", "GetFeatureStatus", "GetAllFeatureStatus",
                "ClearCloudRom", "UpdateCloudRomVersion"}
PatchOps == {"ClearVabPatch", "GetPartitionStashSize"}

RefusedEarly == ParaOps \cup VabOps
RefusedLate == ActiveOps \cup CloudRomOps \cup PatchOps
Refused == RefusedEarly \cup RefusedLate

Op == {"SysInstallerInit", "StartUpdatePackageZip", "SetUpdateCallback", "GetUpdateStatus",
       "GetUpdateResult"} \cup Refused

CONSTANTS Tasks,    \* task ids
          Called    \* bound: the calls that clients make

ASSUME ManagerAssumption == Called \subseteq Op

VARIABLES statusManagerMap,     \* task id -> status manager
          actionProcesserMap,   \* task id -> processer
          helper,               \* helper_ has been made
          call                  \* the IPC call each thread serves

mapVars == <<statusManagerMap, actionProcesserMap, helper>>
mgrVars == <<procVars, mapVars, call>>

Step == {"status", "processer", "run", "set", "isRunning", "eraseStatus", "eraseProcesser", "done"}

NoCall == [op |-> "none", step |-> "none", task |-> "none", obj |-> NoObj]
Calls == [op : Op, step : Step, task : Tasks, obj : Objs \cup {NoObj}]

InCall(t) == call[t] # NoCall
Serving(t, op) == call[t].op = op
At(t, op, s) == call[t].op = op /\ call[t].step = s

\* The call goes on to step s, with object o in a local shared pointer.
Continue(t, s, o) == call' = [call EXCEPT ![t] = [@ EXCEPT !.step = s, !.obj = o]]
Done(t) == Continue(t, "done", NoObj)

\* A shared pointer to o exists: in a map, in a local, or in an action.
InUse(o) ==
    \/ \E k \in Tasks : o \in {statusManagerMap[k], actionProcesserMap[k]}
    \/ \E t \in Threads : o \in {call[t].obj, thread[t].ap, thread[t].sm}
    \/ \E p \in Objs : \/ curAction[p] # NoAction /\ curAction[p].sm = o
                       \/ \E i \in DOMAIN actionQue[p] : actionQue[p][i].sm = o
-----------------------------------------------------------------------------
(***************************************************************************)
(* A call arrives.  sysInstallerServerLock_ admits one SysInstallerInit at *)
(* a time.                                                                 *)
(***************************************************************************)
\* Without helper_ everything but SysInstallerInit answers -1 at once.
FirstStep(op) == IF op \in Refused \/ (~helper /\ op # "SysInstallerInit") THEN "done"
                 ELSE IF op = "GetUpdateResult" THEN "processer" ELSE "status"

Begin(t, op, k) ==
    /\ ~InCall(t)
    /\ op = "SysInstallerInit" => \A u \in Threads : ~Serving(u, op)
    /\ Serial /\ op = "StartUpdatePackageZip" => \A u \in Threads : ~Serving(u, op)
    /\ call' = [call EXCEPT ![t] = [op |-> op, step |-> FirstStep(op), task |-> k, obj |-> NoObj]]
    /\ UNCHANGED <<procVars, mapVars>>

\* The handler returns.
EndCall(t) ==
    /\ InCall(t)
    /\ call[t].step = "done" \/ (call[t].step = "run" /\ thread[t].pc = "idle")
    /\ call' = [call EXCEPT ![t] = NoCall]
    /\ UNCHANGED <<procVars, mapVars>>
-----------------------------------------------------------------------------
(***************************************************************************)
(* SysInstallerInit.                                                       *)
(***************************************************************************)
\* The first SysInstallerInit makes the helper.
MakeHelper == helper' = TRUE

\* "is has been init".
InitAlready(t) ==
    /\ At(t, "SysInstallerInit", "status")
    /\ statusManagerMap[call[t].task] # NoObj
    /\ MakeHelper
    /\ Done(t)
    /\ UNCHANGED <<procVars, statusManagerMap, actionProcesserMap>>

\* A new status manager enters its map, under statusLock_ ...
InitStatus(t) ==
    /\ At(t, "SysInstallerInit", "status")
    /\ statusManagerMap[call[t].task] = NoObj
    /\ \E o \in Objs :
          /\ ~InUse(o)
          /\ statusManagerMap' = [statusManagerMap EXCEPT ![call[t].task] = o]
          /\ statusManager' = [statusManager EXCEPT ![o] = StatusInit]
          /\ isRunning' = [isRunning EXCEPT ![o] = FALSE]
          /\ actionQue' = [actionQue EXCEPT ![o] = <<>>]
          /\ curAction' = [curAction EXCEPT ![o] = NoAction]
          /\ activated' = [activated EXCEPT ![o] = FALSE]
          /\ verified' = [verified EXCEPT ![o] = {}]
          /\ Continue(t, "processer", o)
    /\ MakeHelper
    /\ UNCHANGED <<thread, actionProcesserMap>>

\* ... and its processer the other map, under processerLock_.  emplace leaves an
\* entry that is already there.
InitProcesser(t) ==
    /\ At(t, "SysInstallerInit", "processer")
    /\ actionProcesserMap' = [actionProcesserMap EXCEPT ![call[t].task] =
                                IF @ = NoObj THEN call[t].obj ELSE @]
    /\ Done(t)
    /\ UNCHANGED <<procVars, statusManagerMap, helper>>
-----------------------------------------------------------------------------
(***************************************************************************)
(* StartUpdatePackageZip: GetStatusManager, GetActionProcesser, and on.    *)
(***************************************************************************)
StartStatus(t) ==
    LET s == statusManagerMap[call[t].task] IN
    /\ At(t, "StartUpdatePackageZip", "status")
    /\ IF s = NoObj THEN Done(t) ELSE Continue(t, "processer", s)
    /\ UNCHANGED <<procVars, mapVars>>

StartNoProcesser(t) ==
    /\ At(t, "StartUpdatePackageZip", "processer")
    /\ actionProcesserMap[call[t].task] = NoObj
    /\ Done(t)
    /\ UNCHANGED <<procVars, mapVars>>

StartProcesser(t) ==
    LET p == actionProcesserMap[call[t].task] IN
    /\ At(t, "StartUpdatePackageZip", "processer")
    /\ p # NoObj
    /\ EnterCheck(t, p, call[t].obj)
    /\ Continue(t, "run", NoObj)
    /\ UNCHANGED mapVars

StartRun(t) ==
    /\ At(t, "StartUpdatePackageZip", "run")
    /\ ProcStep(t)
    /\ UNCHANGED <<mapVars, call>>
-----------------------------------------------------------------------------
(***************************************************************************)
(* SetUpdateCallback: GetStatusManager, then the status manager's own.     *)
(***************************************************************************)
CallbackStatus(t) ==
    LET s == statusManagerMap[call[t].task] IN
    /\ At(t, "SetUpdateCallback", "status")
    /\ IF s = NoObj THEN Done(t) ELSE Continue(t, "set", s)
    /\ UNCHANGED <<procVars, mapVars>>

CallbackSet(t) ==
    /\ At(t, "SetUpdateCallback", "set")
    /\ SetUpdateCallback(call[t].obj)
    /\ Done(t)
    /\ UNCHANGED mapVars

\* GetUpdateStatus only reads.
ReadStatus(t) ==
    /\ At(t, "GetUpdateStatus", "status")
    /\ Done(t)
    /\ UNCHANGED <<procVars, mapVars>>
-----------------------------------------------------------------------------
(***************************************************************************)
(* GetUpdateResult: the task is erased, from one map after the other,      *)
(* unless it has no processer or its processer runs.                       *)
(***************************************************************************)
ResultProcesser(t) ==
    LET p == actionProcesserMap[call[t].task] IN
    /\ At(t, "GetUpdateResult", "processer")
    /\ IF p = NoObj THEN Done(t) ELSE Continue(t, "isRunning", p)
    /\ UNCHANGED <<procVars, mapVars>>

ResultIsRunning(t) ==
    /\ At(t, "GetUpdateResult", "isRunning")
    /\ Continue(t, IF isRunning[call[t].obj] THEN "done" ELSE "eraseStatus", NoObj)
    /\ UNCHANGED <<procVars, mapVars>>

EraseStatus(t) ==
    /\ At(t, "GetUpdateResult", "eraseStatus")
    /\ statusManagerMap' = [statusManagerMap EXCEPT ![call[t].task] = NoObj]
    /\ Continue(t, "eraseProcesser", NoObj)
    /\ UNCHANGED <<procVars, actionProcesserMap, helper>>

EraseProcesser(t) ==
    /\ At(t, "GetUpdateResult", "eraseProcesser")
    /\ actionProcesserMap' = [actionProcesserMap EXCEPT ![call[t].task] = NoObj]
    /\ Done(t)
    /\ UNCHANGED <<procVars, statusManagerMap, helper>>
-----------------------------------------------------------------------------
MgrInit ==
    /\ ProcInit
    /\ statusManagerMap = [k \in Tasks |-> NoObj]
    /\ actionProcesserMap = [k \in Tasks |-> NoObj]
    /\ helper = FALSE
    /\ call = [t \in Threads |-> NoCall]

\* A step of thread t inside the handler of its call.
MgrStep(t) ==
    \/ InitAlready(t) \/ InitStatus(t) \/ InitProcesser(t)
    \/ StartStatus(t) \/ StartNoProcesser(t) \/ StartProcesser(t) \/ StartRun(t)
    \/ CallbackStatus(t) \/ CallbackSet(t) \/ ReadStatus(t)
    \/ ResultProcesser(t) \/ ResultIsRunning(t) \/ EraseStatus(t) \/ EraseProcesser(t)

MgrNext ==
    \E t \in Threads :
        \/ \E op \in Called, k \in Tasks : Begin(t, op, k)
        \/ MgrStep(t)
        \/ EndCall(t)

MgrSpec == MgrInit /\ [][MgrNext]_mgrVars
-----------------------------------------------------------------------------
(***************************************************************************)
(* Properties.                                                             *)
(***************************************************************************)
\* The types of the task table and of the calls in progress.
MgrTypeOK ==
    /\ ProcTypeOK
    /\ statusManagerMap \in [Tasks -> Objs \cup {NoObj}]
    /\ actionProcesserMap \in [Tasks -> Objs \cup {NoObj}]
    /\ helper \in BOOLEAN
    /\ call \in [Threads -> Calls \cup {NoCall}]

\* No call that changes the entries of task k is in progress.
Quiet(k) ==
    \A t \in Threads :
        call[t].task = k => call[t].op \notin {"SysInstallerInit", "GetUpdateResult"}

(***************************************************************************)
(* What SysInstallerInit's answer 0 with "is has been init" promises, and  *)
(* the ipc tests rely on: an initialised task has a processer to start.    *)
(***************************************************************************)
InitializedTaskCanStart ==
    \A k \in Tasks :
        Quiet(k) /\ statusManagerMap[k] # NoObj => actionProcesserMap[k] # NoObj
=============================================================================
