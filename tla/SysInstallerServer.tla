------------------------- MODULE SysInstallerServer -------------------------
(***************************************************************************)
(* The system ability around the installer (frameworks/ipc_server,         *)
(* SysInstallerServer): every handler holds an exit guard, a tag in        *)
(* runningSet_; ExitSysInstaller, called by a client or by the idle check  *)
(* of the exit timer, asks samgr to unload the service unless a handler or *)
(* a task is running; the process then ends and a client may load it anew. *)
(*                                                                         *)
(* Handlers run on the threads of InstallerManager, the exits on two more: *)
(* "client" is an IPC thread inside ExitSysInstaller, which holds no       *)
(* guard, "timer" the thread of the exit timer.  bStreamUpgrade_ is false: *)
(* calls take the package path.                                            *)
(***************************************************************************)
EXTENDS InstallerManager, FiniteSets

CONSTANTS MAX_RUNNING_SET_SIZE,             \* 256 in the code
          EXIT_CHECK_IDLE_COUNT_THRESHOLD   \* 3 in the code

ASSUME ServerAssumption ==
    /\ MAX_RUNNING_SET_SIZE \in Nat \ {0}
    /\ EXIT_CHECK_IDLE_COUNT_THRESHOLD \in Nat \ {0}

VARIABLES loaded,        \* the process exists
          timerOn,       \* exitCheckTimerId_ # 0
          runningSet,    \* runningSet_: the calls whose tag is in the multiset
          tagInserted,   \* isTagInserted_ of each call's guard
          exit,          \* control state of the two exits
          idleCounter,   \* idleCounter_, counted up to the threshold
          unloading,     \* samgr has accepted UnloadSystemAbility
          late           \* history: calls that began since the exit in progress saw runningSet_ empty

guardVars == <<runningSet, tagInserted>>
processVars == <<loaded, timerOn, unloading>>
srvVars == <<mgrVars, guardVars, processVars, exit, idleCounter, late>>

Exits == {"client", "timer"}
ExitPC == {"idle", "checkTasks", "lock", "set", "tasks", "unload"}

\* The exits between taking and releasing sysInstallerServerLock_.
HoldsLock(e) == exit[e] \in {"set", "tasks", "unload"}
Lockable == /\ \A e \in Exits : ~HoldsLock(e)
            /\ \A t \in Threads : ~Serving(t, "SysInstallerInit")

ExitGoto(e, l) == exit' = [exit EXCEPT ![e] = l]
-----------------------------------------------------------------------------
(***************************************************************************)
(* A handler: the guard's constructor, the steps, the guard's destructor.  *)
(***************************************************************************)
\* SysInstallerExitGuard(tag): insert, unless the set is full.
GuardEnter(t) ==
    LET fits == Cardinality(runningSet) < MAX_RUNNING_SET_SIZE IN
    /\ runningSet' = IF fits THEN runningSet \cup {t} ELSE runningSet
    /\ tagInserted' = [tagInserted EXCEPT ![t] = fits]

\* erase(tag_) of a multiset removes every element equal to the tag, also
\* those that other calls of the same handler have inserted.
SameTag(t) == {u \in Threads : Serving(u, call[t].op)}

\* A wrong GuardLeave: the tag stays in the set.
GuardLeak(t) ==
    /\ UNCHANGED runningSet
    /\ tagInserted' = [tagInserted EXCEPT ![t] = FALSE]

\* A wrong GuardLeave: the whole set is emptied.
GuardClear(t) ==
    /\ runningSet' = IF tagInserted[t] THEN {} ELSE runningSet
    /\ tagInserted' = [tagInserted EXCEPT ![t] = FALSE]

\* ~SysInstallerExitGuard.
GuardLeave(t) ==
    /\ runningSet' = IF tagInserted[t] THEN runningSet \ SameTag(t) ELSE runningSet
    /\ tagInserted' = [tagInserted EXCEPT ![t] = FALSE]

SrvBegin(t) ==
    /\ loaded
    /\ \E op \in Called, k \in Tasks :
          /\ op = "SysInstallerInit" => Lockable
          /\ Begin(t, op, k)
    /\ GuardEnter(t)
    /\ late' = IF \E e \in Exits : exit[e] \in {"tasks", "unload"} THEN late \cup {t} ELSE late
    /\ UNCHANGED <<processVars, exit, idleCounter>>

SrvStep(t) ==
    /\ MgrStep(t)
    /\ UNCHANGED <<guardVars, processVars, exit, idleCounter, late>>

SrvEnd(t) ==
    /\ EndCall(t)
    /\ GuardLeave(t)
    /\ late' = late \ {t}
    /\ UNCHANGED <<processVars, exit, idleCounter>>
-----------------------------------------------------------------------------
(***************************************************************************)
(* ExitSysInstaller.                                                       *)
(***************************************************************************)
\* SysInstallerManagerHelper::IsTaskRunning: only tasks in the map count.
HelperIsTaskRunning ==
    \E k \in Tasks : actionProcesserMap[k] # NoObj /\ isRunning[actionProcesserMap[k]]

ClientExit ==
    /\ loaded
    /\ exit["client"] = "idle"
    /\ ExitGoto("client", "lock")
    /\ UNCHANGED <<mgrVars, guardVars, processVars, idleCounter, late>>

ExitLock(e) ==
    /\ exit[e] = "lock"
    /\ Lockable
    /\ ExitGoto(e, "set")
    /\ UNCHANGED <<mgrVars, guardVars, processVars, idleCounter, late>>

\* A wrong ExitReadSet: only the manager is asked.
ExitSkipsSet(e) ==
    /\ exit[e] = "set"
    /\ ExitGoto(e, "tasks")
    /\ UNCHANGED <<mgrVars, guardVars, processVars, idleCounter, late>>

\* IsTaskRunning reads runningSet_ ...
ExitReadSet(e) ==
    /\ exit[e] = "set"
    /\ ExitGoto(e, IF runningSet = {} THEN "tasks" ELSE "idle")
    /\ UNCHANGED <<mgrVars, guardVars, processVars, idleCounter, late>>

\* ... and then asks the manager.
ExitReadTasks(e) ==
    /\ exit[e] = "tasks"
    /\ ExitGoto(e, IF HelperIsTaskRunning THEN "idle" ELSE "unload")
    /\ late' = IF HelperIsTaskRunning THEN {} ELSE late
    /\ UNCHANGED <<mgrVars, guardVars, processVars, idleCounter>>

\* samgr accepts the request ...
Unload(e) ==
    /\ exit[e] = "unload"
    /\ unloading' = TRUE
    /\ ExitGoto(e, "idle") /\ late' = {}
    /\ UNCHANGED <<mgrVars, guardVars, loaded, timerOn, idleCounter>>

\* ... or is not there, or refuses: ExitSysInstaller only logs.
UnloadError(e) ==
    /\ exit[e] = "unload"
    /\ ExitGoto(e, "idle") /\ late' = {}
    /\ UNCHANGED <<mgrVars, guardVars, processVars, idleCounter>>
-----------------------------------------------------------------------------
(***************************************************************************)
(* The exit timer.                                                         *)
(***************************************************************************)
\* The timer fires and reads runningSet_; a call in progress resets the count.
TimerReadSet ==
    /\ timerOn /\ exit["timer"] = "idle"
    /\ IF runningSet = {}
       THEN ExitGoto("timer", "checkTasks") /\ UNCHANGED idleCounter
       ELSE idleCounter' = 0 /\ UNCHANGED exit
    /\ UNCHANGED <<mgrVars, guardVars, processVars, late>>

\* A running task resets the count, an idle service is counted and may exit.
TimerReadTasks ==
    /\ exit["timer"] = "checkTasks"
    /\ idleCounter' = IF HelperIsTaskRunning THEN 0
                      ELSE IF idleCounter < EXIT_CHECK_IDLE_COUNT_THRESHOLD
                           THEN idleCounter + 1 ELSE idleCounter
    /\ ExitGoto("timer", IF idleCounter' >= EXIT_CHECK_IDLE_COUNT_THRESHOLD
                         THEN "lock" ELSE "idle")
    /\ UNCHANGED <<mgrVars, guardVars, processVars, late>>
-----------------------------------------------------------------------------
(***************************************************************************)
(* The process.                                                            *)
(***************************************************************************)
\* No timer if the interval, the boot time or the time service fails.
RegisterRepeatTimer == timerOn' \in BOOLEAN

\* A client loads the ability (OnStart).
Load ==
    /\ ~loaded
    /\ loaded' = TRUE
    /\ RegisterRepeatTimer
    /\ UNCHANGED <<mgrVars, guardVars, unloading, exit, idleCounter, late>>

\* samgr ends the process (OnStop): calls in progress die and all memory is lost.
ProcessEnds ==
    /\ unloading
    /\ loaded' = FALSE /\ timerOn' = FALSE /\ unloading' = FALSE
    /\ isRunning' = [o \in Objs |-> FALSE]
    /\ actionQue' = [o \in Objs |-> <<>>]
    /\ curAction' = [o \in Objs |-> NoAction]
    /\ statusManager' = [o \in Objs |-> StatusInit]
    /\ thread' = [t \in Threads |-> IdleThread]
    /\ verified' = [o \in Objs |-> {}] /\ activated' = [o \in Objs |-> FALSE]
    /\ statusManagerMap' = [k \in Tasks |-> NoObj]
    /\ actionProcesserMap' = [k \in Tasks |-> NoObj]
    /\ helper' = FALSE
    /\ call' = [t \in Threads |-> NoCall]
    /\ runningSet' = {} /\ tagInserted' = [t \in Threads |-> FALSE]
    /\ exit' = [e \in Exits |-> "idle"] /\ idleCounter' = 0 /\ late' = {}

SrvInit ==
    /\ MgrInit
    /\ loaded = FALSE /\ timerOn = FALSE /\ unloading = FALSE
    /\ runningSet = {} /\ tagInserted = [t \in Threads |-> FALSE]
    /\ exit = [e \in Exits |-> "idle"] /\ idleCounter = 0 /\ late = {}

ExitStep(e) == ExitLock(e) \/ ExitReadSet(e) \/ ExitReadTasks(e) \/ Unload(e) \/ UnloadError(e)

SrvNext ==
    \/ \E t \in Threads : SrvBegin(t) \/ SrvStep(t) \/ SrvEnd(t)
    \/ \E e \in Exits : ExitStep(e)
    \/ ClientExit
    \/ TimerReadSet \/ TimerReadTasks
    \/ Load \/ ProcessEnds

SrvSpec == SrvInit /\ [][SrvNext]_srvVars

(***************************************************************************)
(* An exit that holds sysInstallerServerLock_ goes on, and the timer's     *)
(* gets the lock in the end; the timer service keeps firing; samgr, asked  *)
(* again and again, accepts in the end and then ends the process.  Nothing *)
(* is assumed of the calls.                                                *)
(***************************************************************************)
SrvFairness ==
    /\ WF_srvVars(ExitStep("client"))
    /\ SF_srvVars(ExitStep("timer")) /\ SF_srvVars(Unload("timer"))
    /\ WF_srvVars(TimerReadSet \/ TimerReadTasks)
    /\ WF_srvVars(ProcessEnds)

SrvFairSpec == SrvSpec /\ SrvFairness
-----------------------------------------------------------------------------
(***************************************************************************)
(* Properties.                                                             *)
(***************************************************************************)
\* The types of the server's own state; the tags in runningSet_ are those of calls
\* in progress.
SrvTypeOK ==
    /\ MgrTypeOK
    /\ loaded \in BOOLEAN /\ timerOn \in BOOLEAN /\ unloading \in BOOLEAN
    /\ runningSet \subseteq {t \in Threads : InCall(t)} /\ late \subseteq Threads
    /\ tagInserted \in [Threads -> BOOLEAN]
    /\ exit \in [Exits -> ExitPC]
    /\ idleCounter \in 0..EXIT_CHECK_IDLE_COUNT_THRESHOLD

(***************************************************************************)
(* When ExitSysInstaller asks samgr to unload, no StartUpdatePackageZip    *)
(* that began before the check of runningSet_ is in progress, even if its  *)
(* task was erased by a GetUpdateResult meanwhile: only a call that        *)
(* arrived after the check can be cut off.                                 *)
(***************************************************************************)
UnloadSparesUpdates ==
    \A e \in Exits : exit[e] = "unload" =>
        \A t \in Threads : Serving(t, "StartUpdatePackageZip") => t \in late

(***************************************************************************)
(* An idle service goes away: if the exit timer is registered, it is       *)
(* infinitely often the case that a call is in progress or that the        *)
(* process has ended.                                                      *)
(***************************************************************************)
IdleServiceExits ==
    []<>(~loaded \/ ~timerOn \/ \E t \in Threads : InCall(t))

(***************************************************************************)
(* What the exit guard is for ("SysInstaller running, can't exit"): the    *)
(* tag of an update in progress stays in runningSet_ until its handler     *)
(* returns, although erase(tag_) of another handler removes every equal    *)
(* element: [oneway] calls come one at a time (Serial), so no other        *)
(* handler has this tag.  Handlers that may overlap with themselves, such  *)
(* as GetUpdateResult, do lose their tag to each other.                    *)
(***************************************************************************)
UpdateKeepsGuard ==
    \A t \in Threads :
        Serving(t, "StartUpdatePackageZip") /\ tagInserted[t] => t \in runningSet
=============================================================================
