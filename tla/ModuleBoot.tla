------------------------------ MODULE ModuleBoot ------------------------------
(***************************************************************************)
(* The module check at boot (services/module_update/src), and the complete *)
(* life of a module package: requests, power loss, boot, revert.           *)
(*                                                                         *)
(* CheckModuleUpdate queues a task for every preinstalled hmp; one worker  *)
(* chooses, stages and mounts; the main thread waits until the queue is    *)
(* empty, joins the worker and removes the install directories.  The       *)
(* service starts after the check.                                         *)
(***************************************************************************)
EXTENDS ModuleStore

VARIABLES main,          \* control state of CheckModuleUpdate
          tasks,         \* hmps queued in the thread pool
          wk,            \* the worker
          due            \* history: promised, when the boot began

bootVars == <<main, tasks, wk>>
vars == <<disk, pre, phase, reboot, mounted, serviceVars, rv, historyVars, bootVars, faults, due>>

MainPC == {"off", "wait", "join", "clean"}
WorkerPC == {"idle", "choose", "link", "unlink", "staged", "clrActive", "clrBackup", "mount"}
NoTask == [pc |-> "idle", hmp |-> First, repo |-> {}, todo |-> {}, cur |-> "info", first |-> FALSE,
           src |-> "pre"]
NotMounted == [from |-> "none", files |-> NoFiles]

BootInit ==
    /\ disk = [p \in Place |-> [h \in Hmps |-> NoDir]]
    /\ pre = [h \in Hmps |-> PRE]
    /\ phase = "down" /\ reboot = FALSE
    /\ mounted = [h \in Hmps |-> NotMounted]
    /\ req = NoRequest /\ installModule = FALSE
    /\ workDir = [h \in Hmps |-> "none"]
    /\ rv = NoRevert
    /\ promised = [h \in Hmps |-> 0] /\ prior = [h \in Hmps |-> NoFiles] /\ cut = {}
    /\ main = "off" /\ tasks = {} /\ wk = NoTask
    /\ faults = 0 /\ due = [h \in Hmps |-> 0]

wkQuiet == <<pre, phase, mounted, reboot, serviceVars, main, tasks>>
wkAlone == <<wkQuiet, faults>>
WkGoto(l) == wk' = [wk EXCEPT !.pc = l]
\* Nothing is owed for h any more: a system call or a mount failed.
GiveUp(h) ==
    /\ promised' = [promised EXCEPT ![h] = 0]
    /\ due' = [due EXCEPT ![h] = 0]
-----------------------------------------------------------------------------
(***************************************************************************)
(* The worker: DoModuleUpdate for one hmp.                                 *)
(***************************************************************************)
\* InitRepository: the packages of h that open, besides the preinstalled one.
Repository(h) == {p \in {"install", "active"} : Openable(At(p, h))}

WorkerTake(h) ==
    /\ phase = "boot" /\ wk.pc = "idle" /\ rv = NoRevert
    /\ h \in tasks /\ tasks' = tasks \ {h}
    /\ wk' = [NoTask EXCEPT !.pc = "choose", !.hmp = h, !.repo = Repository(h)]
    /\ UNCHANGED <<disk, pre, phase, reboot, mounted, serviceVars, rv, historyVars, main, faults, due>>

\* CheckRevert: only the preinstalled package opens, yet there is a backup.
CheckRevert(h) == At("backup", h).there /\ wk.repo = {}

\* PrepareModuleFileList when the preinstalled package is chosen.
UseSystem(h) ==
    /\ IF CheckRevert(h)
       THEN StartRevert(h) /\ wk' = [wk EXCEPT !.pc = "mount", !.src = "pre"]
       ELSE wk' = [wk EXCEPT !.pc = "clrActive", !.src = "pre"] /\ UNCHANGED rv
    /\ prior' = [prior EXCEPT ![h] = IF CheckRevert(h) THEN @ ELSE NoFiles]
    /\ UNCHANGED cut

\* PrepareModuleFileList when an updated package is there to be chosen.
UseLatest(h, v) ==
    IF Newer(v, pre[h])
    THEN /\ wk' = [wk EXCEPT !.pc = "mount", !.src = "active"]
         /\ UNCHANGED <<rv, historyVars>>
    ELSE UseSystem(h) /\ UNCHANGED promised

\* A wrong UpdateWaits: an active package is kept whatever waits.
UpdateWaitsAlone(h) ==
    "install" \in wk.repo /\ "active" \notin wk.repo

\* GetLatestUpdateModulePackage: a package in the install directory replaces the
\* active one if it is newer.
UpdateWaits(h) ==
    /\ "install" \in wk.repo
    /\ "active" \in wk.repo =>
        Newer(At("install", h).files["info"], At("active", h).files["info"])

\* StageUpdateModulePackage: the staged module_info.zip is unlinked first; there is
\* no staging without an active directory.
StageBegin ==
    LET h == wk.hmp IN
    /\ wk.pc = "choose" /\ UpdateWaits(h) /\ At("active", h).there
    /\ SetDir("active", h, [At("active", h) EXCEPT !.files["info"] = 0])
    /\ wk' = [wk EXCEPT !.pc = "link", !.cur = "info", !.first = TRUE, !.todo = Present(At("install", h))]
    /\ UNCHANGED <<wkAlone, rv, historyVars, due>>

StageNoDir ==
    /\ wk.pc = "choose" /\ UpdateWaits(wk.hmp) /\ ~At("active", wk.hmp).there
    /\ UseSystem(wk.hmp)
    /\ UNCHANGED <<disk, wkAlone, promised, due>>

ChooseActive ==
    /\ wk.pc = "choose" /\ ~UpdateWaits(wk.hmp) /\ "active" \in wk.repo
    /\ UseLatest(wk.hmp, At("active", wk.hmp).files["info"])
    /\ UNCHANGED <<disk, wkAlone, due>>

ChooseSystem ==
    /\ wk.pc = "choose" /\ wk.repo = {}
    /\ UseSystem(wk.hmp)
    /\ UNCHANGED <<disk, wkAlone, promised, due>>

\* A wrong StageLink: the other files are not staged.
StageOnlyInfo ==
    LET h == wk.hmp IN
    /\ wk.pc = "link"
    /\ SetDir("active", h, [At("active", h) EXCEPT !.files[wk.cur] = At("install", h).files[wk.cur]])
    /\ WkGoto("staged")
    /\ UNCHANGED <<wkAlone, rv, historyVars, due>>

\* link; the list of "other files" has module_info.zip in it once more.
StageLink ==
    LET h == wk.hmp
        left == IF wk.first THEN wk.todo ELSE wk.todo \ {wk.cur} IN
    /\ wk.pc = "link" /\ At("install", h).files[wk.cur] # 0
    /\ SetDir("active", h, [At("active", h) EXCEPT !.files[wk.cur] = At("install", h).files[wk.cur]])
    /\ wk' = [wk EXCEPT !.first = FALSE, !.todo = left, !.pc = IF left = {} THEN "staged" ELSE "unlink"]
    /\ UNCHANGED <<wkAlone, rv, historyVars, due>>

StageUnlink ==
    /\ wk.pc = "unlink"
    /\ \E f \in wk.todo :
        /\ SetDir("active", wk.hmp, [At("active", wk.hmp) EXCEPT !.files[f] = 0])
        /\ wk' = [wk EXCEPT !.pc = "link", !.cur = f]
    /\ UNCHANGED <<wkAlone, rv, historyVars, due>>

\* unlink or link fails: no update is chosen, and not the package that was active either.
StageFails ==
    LET h == wk.hmp IN
    /\ \/ /\ wk.pc = "choose" /\ UpdateWaits(h)
          /\ At("active", h).files["info"] # 0 /\ Fault
       \/ wk.pc = "link" /\ FaultIf(At("install", h).files[wk.cur] # 0)
    /\ UseSystem(h)
    /\ IF faults' # faults THEN GiveUp(h) ELSE UNCHANGED <<promised, due>>
    /\ UNCHANGED <<disk, wkQuiet>>

StageDone ==
    /\ wk.pc = "staged"
    /\ UseLatest(wk.hmp, At("active", wk.hmp).files["info"])
    /\ UNCHANGED <<disk, wkAlone, due>>

\* "when choose preInstall hmp, remove activeHmp and backupHmp".
ClearActive ==
    /\ wk.pc = "clrActive"
    /\ IF At("active", wk.hmp).there
       THEN RemoveStep("active", wk.hmp) /\ UNCHANGED wk
       ELSE WkGoto("clrBackup") /\ UNCHANGED disk
    /\ UNCHANGED <<wkAlone, rv, historyVars, due>>

ClearBackup ==
    /\ wk.pc = "clrBackup"
    /\ IF At("backup", wk.hmp).there
       THEN RemoveStep("backup", wk.hmp) /\ UNCHANGED wk
       ELSE WkGoto("mount") /\ UNCHANGED disk
    /\ UNCHANGED <<wkAlone, rv, historyVars, due>>

\* RemoveSpecifiedDir fails and is not repeated.
ClearFails ==
    /\ wk.pc \in {"clrActive", "clrBackup"}
    /\ Fault
    /\ WkGoto(IF wk.pc = "clrActive" THEN "clrBackup" ELSE "mount")
    /\ UNCHANGED <<disk, wkQuiet, rv, historyVars, due>>

\* MountModulePackage: the image beside the chosen module_info.zip.
MountSucceeds ==
    LET h == wk.hmp IN
    /\ wk.pc = "mount" /\ rv = NoRevert
    /\ mounted' = [mounted EXCEPT ![h] =
         [from |-> wk.src,
          files |-> IF wk.src = "pre" THEN [f \in FileName |-> pre[h]] ELSE At("active", h).files]]
    /\ wk' = NoTask
    /\ UNCHANGED <<disk, pre, phase, reboot, serviceVars, rv, historyVars, main, tasks, faults, due>>

\* MountModulePackage fails: ReportModuleUpdateStatus removes the install directory
\* (as Revert does again) and reverts.
MountFails ==
    LET h == wk.hmp IN
    /\ wk.pc = "mount" /\ rv = NoRevert
    /\ StartRevert(h)
    /\ GiveUp(h)
    /\ prior' = [prior EXCEPT ![h] = IF At("active", h).files = @ THEN NoFiles ELSE @]
    /\ wk' = NoTask
    /\ UNCHANGED <<disk, wkAlone, cut>>
\* PreAllocateLoopDevices fails: DoModuleUpdate returns, nothing is mounted, nothing
\* is reverted.
NoLoopDevice ==
    /\ wk.pc = "mount" /\ rv = NoRevert
    /\ Fault
    /\ due' = [due EXCEPT ![wk.hmp] = 0]
    /\ wk' = NoTask
    /\ UNCHANGED <<disk, wkQuiet, rv, historyVars>>
-----------------------------------------------------------------------------
(***************************************************************************)
(* The main thread of the check, and power.                                *)
(***************************************************************************)
PowerOn ==
    /\ phase = "down"
    /\ phase' = "boot" /\ main' = "wait" /\ tasks' = Hmps
    /\ due' = promised
    /\ UNCHANGED <<disk, pre, reboot, mounted, serviceVars, rv, historyVars, wk, faults>>

\* GetCurTaskNum counts the queued tasks, not the one that runs.
MainWait ==
    /\ main = "wait" /\ tasks = {}
    /\ main' = "join"
    /\ UNCHANGED <<disk, pre, phase, reboot, mounted, serviceVars, rv, historyVars, tasks, wk, faults, due>>

\* A wrong MainJoin: Stop does not join the worker.
MainNoJoin ==
    /\ main = "join"
    /\ main' = "clean"
    /\ UNCHANGED <<disk, pre, phase, reboot, mounted, serviceVars, rv, historyVars, tasks, wk, faults, due>>

\* ThreadPool::Stop joins the worker.
MainJoin ==
    /\ main = "join" /\ wk.pc = "idle" /\ rv = NoRevert
    /\ main' = "clean"
    /\ UNCHANGED <<disk, pre, phase, reboot, mounted, serviceVars, rv, historyVars, tasks, wk, faults, due>>

\* ForceRemoveDirectory(UPDATE_INSTALL_DIR).
MainClean ==
    /\ main = "clean"
    /\ \E h \in Hmps : At("install", h).there /\ RemoveStep("install", h)
    /\ UNCHANGED <<pre, phase, reboot, mounted, serviceVars, rv, historyVars, bootVars, faults, due>>

\* The directory is gone, or could not be removed: the check is over.
MainDone ==
    /\ main = "clean"
    /\ FaultIf(\E h \in Hmps : At("install", h).there)
    /\ main' = "off" /\ phase' = "up"
    /\ UNCHANGED <<disk, pre, reboot, mounted, serviceVars, rv, historyVars, tasks, wk, due>>

\* The hmps with a copy under way: unpacked and not yet verified, or being staged.
Copying ==
    (IF wk.pc \in {"link", "unlink"} THEN {wk.hmp} ELSE {})
    \cup (IF req.pc \in {"extract", "verify", "undo"} THEN {req.hmp} ELSE {})

PowerOff ==
    /\ phase # "down"
    /\ phase' = "down" /\ reboot' = FALSE
    /\ mounted' = [h \in Hmps |-> NotMounted]
    /\ req' = NoRequest /\ installModule' = FALSE
    /\ workDir' = [h \in Hmps |-> "none"]
    /\ rv' = NoRevert
    /\ main' = "off" /\ tasks' = {} /\ wk' = NoTask
    /\ cut' = cut \cup Copying
    /\ due' = [h \in Hmps |-> 0]
    /\ UNCHANGED <<disk, pre, promised, prior>>

Reboot ==
    /\ reboot
    /\ PowerOff
    /\ UNCHANGED faults

\* The user restarts the device between requests.
Restart ==
    /\ phase = "up" /\ req.pc = "idle" /\ rv = NoRevert
    /\ PowerOff
    /\ UNCHANGED faults

Crash ==
    /\ Fault
    /\ PowerOff

\* A system update brings newer preinstalled packages.
SystemUpdate(v) ==
    /\ phase = "down"
    /\ \A h \in Hmps : v > pre[h]
    /\ pre' = [h \in Hmps |-> v]
    /\ promised' = [h \in Hmps |-> IF Newer(promised[h], v) THEN promised[h] ELSE 0]
    /\ UNCHANGED <<disk, phase, reboot, mounted, serviceVars, rv, prior, cut, bootVars, faults, due>>
-----------------------------------------------------------------------------
WorkerNext ==
    \/ \E h \in Hmps : WorkerTake(h)
    \/ StageBegin \/ StageNoDir \/ ChooseActive \/ ChooseSystem
    \/ StageLink \/ StageUnlink \/ StageFails \/ StageDone
    \/ ClearActive \/ ClearBackup \/ ClearFails
    \/ MountSucceeds \/ MountFails \/ NoLoopDevice

MainNext == PowerOn \/ MainWait \/ MainJoin \/ MainClean \/ MainDone

BootNext ==
    \/ WorkerNext \/ MainNext
    \/ (RevertNext \/ ServiceNext \/ MonitorRevert) /\ UNCHANGED <<bootVars, due>>
    \/ Reboot \/ Restart \/ Crash
    \/ \E v \in Versions : SystemUpdate(v)

BootSpec == BootInit /\ [][BootNext]_vars

\* The device boots, the threads of the boot and a revert run, a requested reboot
\* comes; requests, faults and power losses need not happen.
BootFairness ==
    /\ WF_vars(WorkerNext) /\ WF_vars(MainNext)
    /\ WF_vars(RevertNext /\ UNCHANGED <<bootVars, due>>)
    /\ WF_vars(Reboot)

BootFairSpec == BootSpec /\ BootFairness
-----------------------------------------------------------------------------
\* The types of the directories, the request, the revert and the boot; no file is in a
\* directory that is not there.
StoreTypeOK ==
    /\ disk \in [Place -> [Hmps -> Dir]]
    /\ \A p \in Place, h \in Hmps : Present(At(p, h)) # {} => At(p, h).there
    /\ pre \in [Hmps -> Versions]
    /\ phase \in {"down", "boot", "up"} /\ reboot \in BOOLEAN
    /\ mounted \in [Hmps -> [from : {"none", "pre", "active"}, files : Files]]
    /\ req \in [pc : RequestPC, hmp : Hmps, pkg : Package \cup {NoPackage}, todo : SUBSET FileName,
                alone : BOOLEAN]
    /\ installModule \in BOOLEAN
    /\ workDir \in [Hmps -> {"none", "pre", "active"}]
    /\ rv \in [pc : {"idle", "install", "active", "rename"}, hmp : Hmps]
    /\ promised \in [Hmps -> File] /\ due \in [Hmps -> File]
    /\ prior \in [Hmps -> Files] /\ cut \subseteq Hmps
    /\ main \in MainPC /\ tasks \subseteq Hmps
    /\ wk \in [pc : WorkerPC, hmp : Hmps, repo : SUBSET {"install", "active"}, todo : SUBSET FileName,
               cur : FileName, first : BOOLEAN, src : {"pre", "active"}]
    /\ faults \in 0..MAX_FAULT

\* What an install reported as a success promises is mounted after the boot, module_info
\* and image, however often power is lost on the way, unless a system call or a mount
\* failed, the package was reverted, or the system brought a newer one.  The exception:
\* if power was lost, or a cleaning up failed, in the middle of a copy of the module, only
\* the module_info need be of the promised version; the image may be the one before.
PromiseKept ==
    \A h \in Hmps : phase = "up" /\ due[h] # 0 =>
        /\ mounted[h].files["info"] = due[h]
        /\ mounted[h].files["img"] = due[h] \/ h \in cut

\* The package that was active before a successful install is complete in the backup
\* or the active directory, at every moment of staging and reverting, power loss or not.
PreviousSurvives ==
    \A h \in Hmps : prior[h] # NoFiles =>
        \E p \in {"active", "backup"} : At(p, h).files = prior[h]

\* The image that runs belongs to the version that is reported, except where power
\* was lost, or a cleaning up failed, in the middle of a copy.
RunsWhatItReports ==
    \A h \in Hmps : mounted[h].files["info"] # mounted[h].files["img"] => h \in cut

\* The install directory of an hmp stays while the worker stages from it.
StagedFromWhole ==
    wk.pc \in {"link", "unlink"} => Openable(At("install", wk.hmp))

\* The types, and nothing staged from a directory that is being removed.
BootInv == StoreTypeOK /\ StagedFromWhole

\* A boot comes to an end: mounts may fail, but there is no endless reboot.
BootSettles == phase = "boot" ~> phase = "up"
-----------------------------------------------------------------------------
(***************************************************************************)
(* What comments and log messages say, and the code does not keep.         *)
(***************************************************************************)
\* CheckRevert: "active dir destroyed, but backup dir exists, try to revert."
\* When the check is over the backup has taken the place of a lost active directory.
DestroyedIsReverted ==
    main = "clean" => \A h \in Hmps : Openable(At("backup", h)) => At("active", h).there
=============================================================================
