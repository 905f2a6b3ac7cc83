----------------------------- MODULE ModuleStore -----------------------------
(***************************************************************************)
(* The directories that hold module packages (hmps) and the operations of  *)
(* the running module update service on them                               *)
(* (services/module_update/service, util/src/module_utils.cpp).            *)
(*                                                                         *)
(* An hmp has three directories under /data: "install" (unpacked, waiting  *)
(* for the next boot), "active" (mounted at boot) and "backup" (what was   *)
(* active before).  A directory is created, filled, emptied and removed    *)
(* one file system call at a time, and power may go between two calls.     *)
(* ModuleBoot adds the boot and the power; it is the complete system.      *)
(*                                                                         *)
(* A file is known by the version of the package it comes from; 0 is a     *)
(* file that is not there.  The parameters that tell the bundle manager    *)
(* what happened and the result file are not part of this module.          *)
(***************************************************************************)
EXTENDS Naturals, FiniteSets

CONSTANTS Hmps,          \* the preinstalled packages, hmpSet_
          First,         \* the one GetCurrentHmpName finds first
          Versions,      \* versions, as numbers
          LINE,          \* versions with the same quotient by LINE agree in M, S and F
          PRE,           \* the version preinstalled at first
          PackageKinds,  \* what clients install: "full", "incr" or "bare" packages
          MAX_FAULT      \* power losses and failed system calls in a behaviour

ASSUME StoreAssumption ==
    /\ IsFiniteSet(Hmps) /\ First \in Hmps
    /\ Versions \subseteq Nat \ {0} /\ PRE \in Versions
    /\ LINE \in Nat \ {0}
    /\ PackageKinds \subseteq {"full", "incr", "bare"}
    /\ MAX_FAULT \in Nat

VARIABLES disk,           \* the directories, by place and hmp
          pre,            \* the version in /system/module_update
          phase,          \* "down", "boot" or "up"
          reboot,         \* DoReboot has been called
          mounted,        \* what is mounted under /module_update
          req,            \* the request that holds taskLock_
          installModule,  \* installModule_ is not null
          workDir,        \* hmpWorkDirMap_
          faults,         \* power losses and failed system calls so far
          rv,             \* the call of Revert in progress
          promised,       \* history: version whose install was reported a success
          prior,          \* history: files that were active before that install
          cut             \* history: hmps one of whose copies was cut short

serviceVars == <<req, installModule, workDir>>
historyVars == <<promised, prior, cut>>

FileName == {"info", "img"}     \* module_info.zip and module.img
Place == {"install", "active", "backup"}
File == Versions \cup {0}
Files == [FileName -> File]
NoFiles == [f \in FileName |-> 0]
Dir == [there : BOOLEAN, files : Files]
NoDir == [there |-> FALSE, files |-> NoFiles]

Package == [kind : PackageKinds, ver : Versions, base : File]
NoPackage == [kind |-> "none", ver |-> 0, base |-> 0]

RequestPC == {"idle", "extract", "verify", "prepare", "bkRemove", "link", "bkUndo", "verity", "undo",
              "unInstall", "unActive", "unBackup"}
NoRequest == [pc |-> "idle", hmp |-> First, pkg |-> NoPackage, todo |-> {}, alone |-> TRUE]
NoRevert == [pc |-> "idle", hmp |-> First]

Present(d) == {f \in FileName : d.files[f] # 0}
\* CompareHmpVersion, smaller version second.
Newer(a, b) == a \div LINE = b \div LINE /\ a > b
\* ModuleFile::Open of a package that is not preinstalled needs its image.
Openable(d) == d.there /\ Present(d) = FileName
\* CreateDirIfNeeded.
MakeDir(d) == [d EXCEPT !.there = TRUE]
\* What one call of ForceRemoveDirectory leaves: a file less, or no directory.
Removals(d) ==
    IF Present(d) = {} THEN {NoDir} ELSE {[d EXCEPT !.files[f] = 0] : f \in Present(d)}

At(p, h) == disk[p][h]
SetDir(p, h, d) == disk' = [disk EXCEPT ![p][h] = d]
\* One step of the removal of directory p of h; the thread goes on when it is gone.
RemoveStep(p, h) == \E d \in Removals(At(p, h)) : SetDir(p, h, d)
Goto(l) == req' = [req EXCEPT !.pc = l]
Fault == faults < MAX_FAULT /\ faults' = faults + 1
FaultIf(bad) == IF bad THEN Fault ELSE UNCHANGED faults
-----------------------------------------------------------------------------
(***************************************************************************)
(* Revert (module_utils.cpp), called by the boot and by the monitor.       *)
(***************************************************************************)
StartRevert(h) == rv' = [pc |-> "install", hmp |-> h]

\* The install directory goes first; without an active directory Revert returns.
RevertInstall ==
    /\ rv.pc = "install"
    /\ IF At("install", rv.hmp).there
       THEN RemoveStep("install", rv.hmp) /\ UNCHANGED rv
       ELSE /\ rv' = IF At("active", rv.hmp).there THEN [rv EXCEPT !.pc = "active"] ELSE NoRevert
            /\ UNCHANGED disk
    /\ UNCHANGED <<pre, phase, faults, reboot, mounted, serviceVars, historyVars>>

RevertActive ==
    /\ rv.pc = "active"
    /\ IF At("active", rv.hmp).there
       THEN RemoveStep("active", rv.hmp) /\ UNCHANGED rv
       ELSE rv' = [rv EXCEPT !.pc = "rename"] /\ UNCHANGED disk
    /\ UNCHANGED <<pre, phase, faults, reboot, mounted, serviceVars, historyVars>>

\* A directory cannot be removed: Revert returns and does not reboot.
RevertFails ==
    /\ rv.pc \in {"install", "active"} /\ At(rv.pc, rv.hmp).there
    /\ Fault
    /\ rv' = NoRevert
    /\ UNCHANGED <<disk, pre, phase, reboot, mounted, serviceVars, historyVars>>

\* A wrong RevertRename: the backup is copied, not moved.
RevertCopies ==
    /\ rv.pc = "rename"
    /\ SetDir("active", rv.hmp, At("backup", rv.hmp))
    /\ rv' = NoRevert /\ reboot' = TRUE
    /\ UNCHANGED <<pre, phase, faults, mounted, serviceVars, historyVars>>

\* rename replaces an empty directory and fails on any other; the device reboots
\* in both cases, and the caller of Revert runs on until it does.
RevertRename ==
    /\ rv.pc = "rename"
    /\ IF At("backup", rv.hmp).there /\ Present(At("active", rv.hmp)) = {}
       THEN disk' = [disk EXCEPT !["active"][rv.hmp] = At("backup", rv.hmp),
                                 !["backup"][rv.hmp] = NoDir]
       ELSE UNCHANGED disk
    /\ rv' = NoRevert /\ reboot' = TRUE
    /\ UNCHANGED <<pre, phase, faults, mounted, serviceVars, historyVars>>

\* The monitor of the service reverts.  It does not take taskLock_.
MonitorRevert ==
    /\ phase = "up" /\ rv = NoRevert /\ ~reboot
    /\ StartRevert(First)
    /\ req' = [req EXCEPT !.alone = FALSE]
    /\ promised' = [promised EXCEPT ![First] = 0]
    /\ prior' = [prior EXCEPT ![First] =
                    IF promised[First] = 0 /\ At("active", First).files = @ THEN NoFiles ELSE @]
    /\ UNCHANGED <<disk, pre, phase, faults, reboot, mounted, installModule, workDir, cut>>

RevertNext ==
    RevertInstall \/ RevertActive \/ RevertFails \/ RevertRename
-----------------------------------------------------------------------------
(***************************************************************************)
(* InstallModulePackage.                                                   *)
(***************************************************************************)
Forget(h) ==
    /\ promised' = [promised EXCEPT ![h] = 0]
    /\ prior' = [prior EXCEPT ![h] = NoFiles]
    /\ UNCHANGED cut

\* What PrepareFileToDestDir unpacks; an increment has a diff and no image.
Unpacked(kind) ==
    CASE kind = "full" -> FileName
      [] kind = "incr" -> {"info"}
      [] kind = "bare" -> {"img"}

\* Without a module_info.zip it does not matter which version a package is.
Packages ==
    {p \in Package :
        /\ IF p.kind = "incr" THEN p.base # 0 /\ p.base < p.ver ELSE p.base = 0
        /\ p.kind = "bare" => p.ver = PRE}

\* CheckHmpName, which creates the install directory or fails to.
InstallBegin(h, p) ==
    /\ phase = "up" /\ req.pc = "idle"
    /\ \E made \in BOOLEAN :
        /\ FaultIf(~made)
        /\ IF made THEN SetDir("install", h, MakeDir(At("install", h))) ELSE UNCHANGED disk
        /\ req' = [pc |-> IF made THEN "extract" ELSE "undo", hmp |-> h, pkg |-> p,
                   todo |-> Unpacked(p.kind), alone |-> rv = NoRevert /\ ~reboot]
    /\ Forget(h)
    /\ UNCHANGED <<pre, phase, reboot, mounted, installModule, workDir, rv>>

\* PrepareFileToDestDir unpacks file by file, over what is there.
InstallExtract ==
    /\ req.pc = "extract" /\ At("install", req.hmp).there
    /\ \E f \in req.todo :
        /\ SetDir("install", req.hmp, [At("install", req.hmp) EXCEPT !.files[f] = req.pkg.ver])
        /\ req' = [req EXCEPT !.todo = @ \ {f}, !.pc = IF req.todo = {f} THEN "verify" ELSE @]
    /\ UNCHANGED <<pre, phase, faults, reboot, mounted, installModule, workDir, rv, historyVars>>

\* Where the latest version of h is.
LatestDir(h) ==
    IF At("active", h).files["info"] # 0 /\ Newer(At("active", h).files["info"], pre[h])
    THEN "active" ELSE "pre"
\* GetHmpVersionInfo: emplace keeps the entry an hmp already has.
ScanWorkDirs == [h \in Hmps |-> IF workDir[h] = "none" THEN LatestDir(h) ELSE workDir[h]]

\* The image of the path GetWorkHmpImagePath returns.
WorkImage(h) == IF ScanWorkDirs[h] = "active" THEN At("active", h).files["img"] ELSE pre[h]

\* A wrong Restored: the diff is applied to whatever image is there.
RestoredAnyway(h, p) ==
    IF At("install", h).files["img"] # 0 THEN 0
    ELSE IF WorkImage(h) = p.base THEN p.ver ELSE WorkImage(h)

\* RestorePackage: the diff fits its base only, and no image is there yet.
Restored(h, p) ==
    IF At("install", h).files["img"] = 0 /\ WorkImage(h) = p.base THEN p.ver ELSE 0

\* The image the package is opened with.
InstallImage(h, p) ==
    IF p.kind = "incr" THEN Restored(h, p) ELSE At("install", h).files["img"]

\* ValidateVersion.
ValidVersion(h) ==
    LET v == At("install", h).files["info"]
        a == At("active", h) IN
    Newer(v, pre[h]) /\ (Openable(a) => Newer(v, a.files["info"]))

\* InstallModuleFile for every file that was unpacked: nothing to do without a
\* module_info.zip, else it is verified, restored, opened and compared.
InstallModuleFile ==
    LET h == req.hmp
        p == req.pkg
        zip == At("install", h).files["info"] # 0
        image == InstallImage(h, p)
        good == image # 0 /\ ValidVersion(h) IN
    /\ req.pc = "verify"
    /\ workDir' = IF zip /\ p.kind = "incr" THEN ScanWorkDirs ELSE workDir
    /\ IF zip /\ image # 0
       THEN SetDir("install", h, [At("install", h) EXCEPT !.files["img"] = image])
       ELSE UNCHANGED disk
    /\ installModule' = (installModule \/ (zip /\ good))
    /\ Goto(IF zip /\ ~good THEN "undo" ELSE "prepare")
    /\ UNCHANGED <<pre, phase, faults, reboot, mounted, rv, historyVars>>

\* PrepareResourceForReboot up to BackupActiveModules' test for an active directory.
InstallPrepare ==
    /\ req.pc = "prepare"
    /\ Goto(IF ~installModule THEN "undo"
            ELSE IF At("active", req.hmp).there THEN "bkRemove" ELSE "verity")
    /\ UNCHANGED <<disk, pre, phase, faults, reboot, mounted, installModule, workDir, rv, historyVars>>

\* BackupActiveModules: the old backup goes, a new directory is made, and the
\* files to link are listed.
BackupRemove ==
    /\ req.pc = "bkRemove"
    /\ LET h == req.hmp
           todo == Present(At("active", h)) IN
       IF At("backup", h).there
       THEN RemoveStep("backup", h) /\ UNCHANGED req
       ELSE /\ SetDir("backup", h, MakeDir(At("backup", h)))
            /\ req' = [req EXCEPT !.todo = todo, !.pc = IF todo = {} THEN "verity" ELSE "link"]
    /\ UNCHANGED <<pre, phase, faults, reboot, mounted, installModule, workDir, rv, historyVars>>

\* A wrong BackupFile: the first file is taken for all.
BackupFirstFile ==
    /\ req.pc = "link"
    /\ \E f \in req.todo :
        /\ SetDir("backup", req.hmp, [At("backup", req.hmp) EXCEPT !.files[f] = At("active", req.hmp).files[f]])
        /\ Goto("verity")
    /\ UNCHANGED <<pre, phase, faults, reboot, mounted, installModule, workDir, rv, historyVars>>

\* BackupFile makes the directory again if it is gone; link fails on a file that is gone.
BackupFile ==
    LET a == At("active", req.hmp) IN
    /\ req.pc = "link"
    /\ \E f \in req.todo, linked \in BOOLEAN :
        /\ linked => a.files[f] # 0
        /\ FaultIf(~linked /\ a.files[f] # 0)
        /\ IF linked
           THEN SetDir("backup", req.hmp, [MakeDir(At("backup", req.hmp)) EXCEPT !.files[f] = a.files[f]])
           ELSE UNCHANGED disk
        /\ req' = [req EXCEPT !.todo = @ \ {f},
                              !.pc = IF ~linked THEN "bkUndo" ELSE IF req.todo = {f} THEN "verity" ELSE @]
    /\ UNCHANGED <<pre, phase, reboot, mounted, installModule, workDir, rv, historyVars>>

\* The scope guard of BackupActiveModules removes a backup that is not complete.
BackupUndo ==
    /\ req.pc = "bkUndo"
    /\ IF At("backup", req.hmp).there
       THEN RemoveStep("backup", req.hmp) /\ UNCHANGED req
       ELSE Goto("undo") /\ UNCHANGED disk
    /\ UNCHANGED <<pre, phase, faults, reboot, mounted, installModule, workDir, rv, historyVars>>

\* The end of PrepareResourceForReboot: the active directory is made last, and the
\* install is reported a success.
InstallFinish ==
    LET h == req.hmp IN
    /\ req.pc = "verity"
    /\ SetDir("active", h, MakeDir(At("active", h)))
    /\ promised' = [promised EXCEPT ![h] = IF req.alone THEN req.pkg.ver ELSE 0]
    /\ prior' = [prior EXCEPT ![h] =
                    IF req.alone /\ Openable(At("active", h)) THEN At("active", h).files ELSE NoFiles]
    /\ req' = NoRequest
    /\ UNCHANGED <<pre, phase, faults, reboot, mounted, installModule, workDir, rv, cut>>

\* A check or a system call of the install fails: unpacking, the signature, the
\* verity check, removing or making the backup directory, writing the verity data,
\* setting the parameter, making the active directory.
InstallFails ==
    /\ req.pc \in {"extract", "verify", "bkRemove", "verity"}
    /\ Goto("undo")
    /\ UNCHANGED <<disk, pre, phase, faults, reboot, mounted, installModule, workDir, rv, historyVars>>

\* The scope guard of ReallyInstallModulePackage removes the install directory.
InstallUndo ==
    /\ req.pc = "undo"
    /\ IF At("install", req.hmp).there
       THEN RemoveStep("install", req.hmp) /\ UNCHANGED req
       ELSE req' = NoRequest /\ UNCHANGED disk
    /\ UNCHANGED <<pre, phase, faults, reboot, mounted, installModule, workDir, rv, historyVars>>
-----------------------------------------------------------------------------
(***************************************************************************)
(* The other requests.                                                     *)
(***************************************************************************)
UninstallPlace == [unInstall |-> "install", unActive |-> "active", unBackup |-> "backup"]
AfterRemoval == [unInstall |-> "unActive", unActive |-> "unBackup", unBackup |-> "idle",
                 undo |-> "idle", bkUndo |-> "undo"]

UninstallBegin(h) ==
    /\ phase = "up" /\ req.pc = "idle"
    /\ req' = [NoRequest EXCEPT !.pc = "unInstall", !.hmp = h]
    /\ Forget(h)
    /\ UNCHANGED <<disk, pre, phase, faults, reboot, mounted, installModule, workDir, rv>>

\* UninstallModulePackage removes the three directories in this order.
UninstallStep ==
    /\ req.pc \in DOMAIN UninstallPlace
    /\ IF At(UninstallPlace[req.pc], req.hmp).there
       THEN RemoveStep(UninstallPlace[req.pc], req.hmp) /\ UNCHANGED req
       ELSE Goto(AfterRemoval[req.pc]) /\ UNCHANGED disk
    /\ UNCHANGED <<pre, phase, faults, reboot, mounted, installModule, workDir, rv, historyVars>>

\* A directory cannot be removed: the request goes on without that.
RemovalFails ==
    /\ req.pc \in DOMAIN AfterRemoval
    /\ Fault
    /\ Goto(AfterRemoval[req.pc])
    /\ cut' = cut \cup {req.hmp}
    /\ UNCHANGED <<disk, pre, phase, reboot, mounted, installModule, workDir, rv, promised, prior>>

\* GetHmpVersionInfo.
QueryVersions ==
    /\ phase = "up" /\ req.pc = "idle"
    /\ workDir' = ScanWorkDirs
    /\ UNCHANGED <<disk, pre, phase, faults, reboot, mounted, req, installModule, rv, historyVars>>

\* ExitModuleUpdate unloads the service; the next request starts a new process.
ServiceExit ==
    /\ phase = "up" /\ req.pc = "idle" /\ rv = NoRevert
    /\ installModule' = FALSE
    /\ workDir' = [h \in Hmps |-> "none"]
    /\ UNCHANGED <<disk, pre, phase, faults, reboot, mounted, req, rv, historyVars>>

InstallNext ==
    \/ \E h \in Hmps, p \in Packages : InstallBegin(h, p)
    \/ InstallExtract \/ InstallModuleFile \/ InstallPrepare
    \/ BackupRemove \/ BackupFile \/ BackupUndo
    \/ InstallFinish \/ InstallFails \/ InstallUndo

ServiceNext ==
    \/ InstallNext
    \/ \E h \in Hmps : UninstallBegin(h)
    \/ UninstallStep \/ RemovalFails \/ QueryVersions \/ ServiceExit
=============================================================================
