-------------------------- MODULE ModuleBootProofs --------------------------
(***************************************************************************)
(* Proofs about ModuleBoot, for any hmps, versions and number of faults:   *)
(* types and staging from a whole directory, the package before the last   *)
(* install survives, a promise is kept, and what runs is what is reported. *)
(***************************************************************************)
EXTENDS ModuleBoot, TLAPS

-----------------------------------------------------------------------------
(***************************************************************************)
(* Directories: what the operators on them do, file by file.               *)
(***************************************************************************)
\* A directory with files is there.
GoodDir == {d \in Dir : Present(d) # {} => d.there}
Disks == [Place -> [Hmps -> GoodDir]]

\* Only directory p of h changes.
Changed(p, h) ==
    /\ disk' \in Disks
    /\ \A q \in Place, g \in Hmps : q # p \/ g # h => disk'[q][g] = disk[q][g]

LEMMA DirFacts ==
    ASSUME NEW d \in GoodDir
    PROVE  /\ d.there \in BOOLEAN /\ d.files \in Files
           /\ d.files["info"] \in File /\ d.files["img"] \in File
           /\ Present(d) = {} <=> d.files["info"] = 0 /\ d.files["img"] = 0
           /\ Openable(d) <=> d.files["info"] # 0 /\ d.files["img"] # 0
           /\ d.files["info"] # 0 \/ d.files["img"] # 0 => d.there
<1>1. d \in Dir /\ (Present(d) # {} => d.there)
  BY DEF GoodDir
<1>2. Present(d) = {} <=> d.files["info"] = 0 /\ d.files["img"] = 0
  BY DEF Present, FileName
<1>3. Present(d) = FileName <=> d.files["info"] # 0 /\ d.files["img"] # 0
  BY DEF Present, FileName
<1> QED
  BY <1>1, <1>2, <1>3 DEF Openable, Dir, Files, FileName

\* Files are the same if the two of them are.
LEMMA FilesEqual ==
    ASSUME NEW a \in Files, NEW b \in Files, a["info"] = b["info"], a["img"] = b["img"]
    PROVE  a = b
BY DEF Files, FileName

LEMMA NoFilesFacts == NoFiles \in Files /\ NoFiles["info"] = 0 /\ NoFiles["img"] = 0
BY DEF NoFiles, Files, FileName, File

LEMMA NoDirFacts == NoDir \in GoodDir /\ ~NoDir.there /\ NoDir.files = NoFiles
<1>1. NoDir \in Dir /\ ~NoDir.there /\ NoDir.files = NoFiles
  BY NoFilesFacts DEF NoDir, Dir
<1>2. Present(NoDir) = {}
  BY <1>1, NoFilesFacts DEF Present, FileName
<1> QED
  BY <1>1, <1>2 DEF GoodDir

\* A file is written, linked (v # 0) or unlinked (v = 0).
Put(d, f, v) == [d EXCEPT !.files[f] = v]

LEMMA PutFacts ==
    ASSUME NEW d \in GoodDir, NEW f \in FileName, NEW v \in File, v # 0 => d.there
    PROVE  /\ Put(d, f, v) \in GoodDir /\ Put(d, f, v).there = d.there
           /\ Put(d, f, v).files[f] = v
           /\ \A g \in FileName : g # f => Put(d, f, v).files[g] = d.files[g]
<1> DEFINE e == Put(d, f, v)
<1>1. d \in Dir /\ d.files \in [FileName -> File] /\ d.there \in BOOLEAN
  BY DEF GoodDir, Dir, Files
<1>2. [d.files EXCEPT ![f] = v] \in [FileName -> File]
  BY <1>1
<1>3. e.there = d.there /\ e.files = [d.files EXCEPT ![f] = v] /\ e \in Dir
  BY <1>1, <1>2 DEF Dir, Files, Put
<1>4. e.files[f] = v /\ \A g \in FileName : g # f => e.files[g] = d.files[g]
  BY <1>1, <1>3
<1> HIDE DEF e
<1>5. Present(e) # {} => e.there
  BY <1>3, <1>4 DEF Present, GoodDir
<1> QED
  BY <1>3, <1>4, <1>5 DEF GoodDir, e

LEMMA MakeDirFacts ==
    ASSUME NEW d \in GoodDir
    PROVE  MakeDir(d) \in GoodDir /\ MakeDir(d).there /\ MakeDir(d).files = d.files
<1>1. MakeDir(d) \in Dir /\ MakeDir(d).there /\ MakeDir(d).files = d.files
  BY DEF MakeDir, GoodDir, Dir
<1> QED
  BY <1>1 DEF GoodDir

\* What a step of a removal leaves: no file that was not there, and not both files.
LEMMA RemovalFacts ==
    ASSUME NEW d \in GoodDir, NEW e \in Removals(d)
    PROVE  /\ e \in GoodDir
           /\ \A f \in FileName : e.files[f] \in {d.files[f], 0}
           /\ e.files["info"] = 0 \/ e.files["img"] = 0
           /\ d.files["info"] # 0 \/ d.files["img"] # 0 => e.there = d.there
<1>1. CASE Present(d) = {}
  <2>1. e = NoDir /\ d.files["info"] = 0 /\ d.files["img"] = 0
    BY <1>1, DirFacts DEF Removals
  <2> QED
    BY <2>1, NoDirFacts, NoFilesFacts DEF FileName
<1>2. CASE Present(d) # {}
  <2>1. PICK f \in Present(d) : e = [d EXCEPT !.files[f] = 0]
    BY <1>2 DEF Removals
  <2>2. f \in FileName /\ 0 \in File
    BY DEF Present, File
  <2>3. e = Put(d, f, 0)
    BY <2>1 DEF Put
  <2> QED
    BY <2>2, <2>3, PutFacts DEF FileName
<1> QED
  BY <1>1, <1>2

LEMMA SetDirFacts ==
    ASSUME disk \in Disks, NEW p \in Place, NEW h \in Hmps, NEW d \in GoodDir, SetDir(p, h, d)
    PROVE  Changed(p, h) /\ disk'[p][h] = d
BY DEF SetDir, Changed, Disks

\* A step of the removal of directory p of h.
Shrinks(p, h) ==
    /\ Changed(p, h)
    /\ \A f \in FileName : disk'[p][h].files[f] \in {disk[p][h].files[f], 0}
    /\ disk'[p][h].files["info"] = 0 \/ disk'[p][h].files["img"] = 0

LEMMA RemoveStepFacts ==
    ASSUME disk \in Disks, NEW p \in Place, NEW h \in Hmps, RemoveStep(p, h)
    PROVE  Shrinks(p, h)
<1>1. PICK d \in Removals(disk[p][h]) : SetDir(p, h, d)
  BY DEF RemoveStep, At
<1>2. disk[p][h] \in GoodDir
  BY DEF Disks
<1> QED
  BY <1>1, <1>2, RemovalFacts, SetDirFacts DEF Shrinks
-----------------------------------------------------------------------------
(***************************************************************************)
(* The inductive invariant.                                                *)
(***************************************************************************)
\* The program counters of an install.
InstallPC == {"extract", "verify", "prepare", "bkRemove", "link", "bkUndo", "verity", "undo"}

\* Who runs when: the boot check and the requests exclude each other; a revert at boot is
\* the worker's.
Control ==
    /\ rv.pc = "idle" => rv = NoRevert
    /\ phase = "down" => main = "off" /\ wk.pc = "idle" /\ rv = NoRevert /\ req.pc = "idle"
    /\ phase = "boot" => main # "off" /\ req.pc = "idle"
    /\ phase = "up" => main = "off" /\ wk.pc = "idle"
    /\ main # "wait" => tasks = {}
    /\ main = "clean" => wk.pc = "idle" /\ rv = NoRevert
    /\ wk.pc \notin {"idle", "mount"} => rv = NoRevert
    /\ wk.pc = "mount" /\ rv # NoRevert => rv.hmp = wk.hmp /\ wk.src = "pre"
    /\ wk.pc # "idle" => wk.hmp \notin tasks
    /\ req.pc \in InstallPC /\ req.alone => rv = NoRevert
    /\ req.pc \in InstallPC => req.pkg \in Packages

\* What the worker has staged so far, and what it has seen.
Staging ==
    /\ wk.pc = "choose" => wk.repo = Repository(wk.hmp)
    /\ wk.pc \in {"link", "unlink", "staged"} =>
          /\ "install" \in wk.repo /\ Openable(At("install", wk.hmp)) /\ At("active", wk.hmp).there
    /\ wk.pc \in {"link", "unlink"} =>
          /\ \A f \in FileName \ wk.todo : At("active", wk.hmp).files[f] = At("install", wk.hmp).files[f]
          /\ At("active", wk.hmp).files["info"] \in {At("install", wk.hmp).files["info"], 0}
    /\ wk.pc = "link" =>
          /\ At("active", wk.hmp).files[wk.cur] = 0
          /\ IF wk.first THEN wk.todo = FileName ELSE wk.cur \in wk.todo
    /\ wk.pc = "unlink" => ~wk.first
    /\ wk.pc \in {"clrActive", "clrBackup"} => wk.src = "pre"
    /\ wk.pc = "staged" => At("active", wk.hmp).files = At("install", wk.hmp).files
    /\ wk.pc = "mount" /\ wk.src = "active" => Openable(At("active", wk.hmp))

BootInd == StoreTypeOK /\ Control /\ Staging

\* A request, a revert or the worker is at h.
Requested(h) == req.pc # "idle" /\ req.hmp = h
Reverting(h) == rv.pc # "idle" /\ rv.hmp = h
Working(h) == wk.pc # "idle" /\ wk.hmp = h
\* The check at boot has not looked at the install directory of h yet, or still needs it.
Pending(h) ==
    \/ phase # "boot" \/ h \in tasks
    \/ Working(h) /\ wk.pc \in {"choose", "link", "unlink", "staged"}

(***************************************************************************)
(* The package before the last install.                                    *)
(***************************************************************************)
\* The backup so far has every file of the active directory that is not to be linked still.
BackedUp ==
    req.alone /\ req.pc \in {"link", "verity"} =>
        \A f \in FileName :
            \/ At("active", req.hmp).files[f] = 0
            \/ req.pc = "link" /\ f \in req.todo
            \/ At("backup", req.hmp).files[f] = At("active", req.hmp).files[f]

\* The backup has it; or the active directory does after a revert, and nobody is going to take that.
Survives(h) ==
    prior[h] # NoFiles =>
        /\ \A f \in FileName : prior[h][f] # 0
        /\ ~Requested(h) /\ ~(Working(h) /\ wk.pc \in {"clrActive", "clrBackup"})
        /\ \/ At("backup", h).files = prior[h]
           \/ /\ At("active", h).files = prior[h] /\ promised[h] = 0
              /\ ~Openable(At("install", h)) /\ ~Reverting(h)
        /\ Reverting(h) => promised[h] = 0
        /\ Reverting(h) /\ rv.pc # "install" => ~At("install", h).there
        /\ promised[h] # 0 => Openable(At("active", h)) \/ (Openable(At("install", h)) /\ Pending(h))

SurviveInd == BackedUp /\ \A h \in Hmps : Survives(h)

(***************************************************************************)
(* The promise of the last install.                                        *)
(***************************************************************************)
\* The package in place p of h is whole and of version v.
Holds(p, h, v) == Openable(At(p, h)) /\ At(p, h).files["info"] = v

\* Version v is newer than what the boot would choose instead.
Beats(h, v) ==
    /\ Newer(v, pre[h])
    /\ Openable(At("active", h)) => Newer(v, At("active", h).files["info"])

\* An install that nobody disturbs has unpacked, and then verified, its version.
Unpacking ==
    /\ req.alone /\ req.pc \in {"extract", "verify"} =>
          "info" \in req.todo \/ At("install", req.hmp).files["info"] = req.pkg.ver
    /\ req.pc = "verify" => req.todo = {}
    /\ req.alone /\ req.pc \in {"prepare", "bkRemove", "link", "verity"} =>
          Holds("install", req.hmp, req.pkg.ver) /\ Beats(req.hmp, req.pkg.ver)

\* The boot will choose v, from the install directory unless it is staged already.
Kept(h, v) ==
    /\ Newer(v, pre[h]) /\ At("active", h).there
    /\ Openable(At("install", h)) => Holds("install", h, v)
    /\ \/ Holds("active", h, v)
       \/ /\ Holds("install", h, v) /\ Pending(h)
          /\ Openable(At("active", h)) => Newer(v, At("active", h).files["info"])

Promises(h) ==
    promised[h] # 0 =>
        /\ ~Requested(h) /\ ~Reverting(h) /\ ~(Working(h) /\ wk.pc \in {"clrActive", "clrBackup"})
        /\ Working(h) /\ wk.pc = "mount" => wk.src = "active"
        /\ Kept(h, promised[h])

\* What is due is promised until it is mounted.
Due(h) ==
    due[h] # 0 =>
        /\ phase # "down"
        /\ phase = "boot" => promised[h] = due[h]
        /\ phase = "up" \/ (h \notin tasks /\ ~Working(h)) => mounted[h].files["info"] = due[h]

PromiseInd == Unpacking /\ \A h \in Hmps : Promises(h) /\ Due(h)

(***************************************************************************)
(* Files of one version.                                                   *)
(***************************************************************************)
\* The two files of a directory, if it has both, and of two directories.
Uniform(d) == d.files["info"] # 0 /\ d.files["img"] # 0 => d.files["info"] = d.files["img"]
Same(d, e) == \A f, g \in FileName : d.files[f] # 0 /\ e.files[g] # 0 => d.files[f] = e.files[g]

\* What has been unpacked is of the version of the package, or removed by a revert.
Written ==
    req.pc \in {"extract", "verify"} =>
        \A f \in Unpacked(req.pkg.kind) \ req.todo : At("install", req.hmp).files[f] \in {req.pkg.ver, 0}

Matches(h) ==
    h \notin cut =>
        /\ ~(Requested(h) /\ req.pc \in {"extract", "verify", "undo"}) => Uniform(At("install", h))
        /\ ~(Working(h) /\ wk.pc = "unlink") => Uniform(At("active", h))
        /\ Uniform(At("backup", h))
        /\ Requested(h) /\ req.pc = "link" => Same(At("active", h), At("backup", h))
        /\ mounted[h].files["info"] = mounted[h].files["img"]

MatchInd == Written /\ (req.pc = "verify" => req.todo = {}) /\ \A h \in Hmps : Matches(h)
-----------------------------------------------------------------------------
(***************************************************************************)
(* Types and control.                                                      *)
(***************************************************************************)
RequestType == [pc : RequestPC, hmp : Hmps, pkg : Package \cup {NoPackage}, todo : SUBSET FileName,
                alone : BOOLEAN]
RevertType == [pc : {"idle", "install", "active", "rename"}, hmp : Hmps]
WorkerType == [pc : WorkerPC, hmp : Hmps, repo : SUBSET {"install", "active"}, todo : SUBSET FileName,
               cur : FileName, first : BOOLEAN, src : {"pre", "active"}]
MountType == [from : {"none", "pre", "active"}, files : Files]

ServiceTypes ==
    req \in RequestType /\ installModule \in BOOLEAN /\ workDir \in [Hmps -> {"none", "pre", "active"}]
HistoryTypes ==
    /\ promised \in [Hmps -> File] /\ due \in [Hmps -> File]
    /\ prior \in [Hmps -> Files] /\ cut \subseteq Hmps
BootTypes ==
    /\ main \in MainPC /\ tasks \subseteq Hmps /\ wk \in WorkerType
    /\ mounted \in [Hmps -> MountType]
DeviceTypes ==
    /\ pre \in [Hmps -> Versions] /\ phase \in {"down", "boot", "up"} /\ reboot \in BOOLEAN
    /\ rv \in RevertType /\ faults \in 0..MAX_FAULT

\* The parts of StoreTypeOK.
Typed == disk \in Disks /\ ServiceTypes /\ HistoryTypes /\ BootTypes /\ DeviceTypes

LEMMA DisksAre ==
    ASSUME NEW D
    PROVE  D \in Disks <=> /\ D \in [Place -> [Hmps -> Dir]]
                           /\ \A p \in Place, h \in Hmps : Present(D[p][h]) # {} => D[p][h].there
<1>1. ASSUME D \in Disks
      PROVE  /\ D \in [Place -> [Hmps -> Dir]]
             /\ \A p \in Place, h \in Hmps : Present(D[p][h]) # {} => D[p][h].there
  BY <1>1 DEF Disks, GoodDir
<1>2. ASSUME D \in [Place -> [Hmps -> Dir]],
             \A p \in Place, h \in Hmps : Present(D[p][h]) # {} => D[p][h].there
      PROVE  D \in Disks
  <2>1. \A p \in Place, h \in Hmps : D[p][h] \in GoodDir
    BY <1>2 DEF GoodDir
  <2> QED
    BY <1>2, <2>1 DEF Disks
<1> QED
  BY <1>1, <1>2

LEMMA TypedIs == StoreTypeOK <=> Typed
BY DisksAre DEF StoreTypeOK, Typed, ServiceTypes, HistoryTypes, BootTypes, DeviceTypes, RequestType,
   RevertType, WorkerType, MountType, At

LEMMA TypedNext == StoreTypeOK' <=> Typed'
BY DisksAre DEF StoreTypeOK, Typed, ServiceTypes, HistoryTypes, BootTypes, DeviceTypes, RequestType,
   RevertType, WorkerType, MountType, At

LEMMA BootIndParts == BootInd => Typed /\ Control /\ Staging
BY TypedIs DEF BootInd

LEMMA IdleTypes ==
    /\ NoRequest \in RequestType /\ NoRequest.pc = "idle" /\ NoRequest.hmp = First
    /\ NoRevert \in RevertType /\ NoRevert.pc = "idle" /\ NoRevert.hmp = First
    /\ NoTask \in WorkerType /\ NoTask.pc = "idle" /\ NotMounted \in MountType
    /\ NotMounted.files = NoFiles
BY StoreAssumption, NoFilesFacts
DEF NoRequest, RequestType, RequestPC, NoRevert, RevertType, NoTask, WorkerType, WorkerPC,
    FileName, NotMounted, MountType, NoPackage

\* Fault counts up to its bound.
LEMMA FaultType ==
    ASSUME faults \in 0..MAX_FAULT, Fault \/ faults' = faults \/ (\E b \in BOOLEAN : FaultIf(b))
    PROVE  faults' \in 0..MAX_FAULT
BY StoreAssumption DEF Fault, FaultIf

(***************************************************************************)
(* A revert, the service and the worker, by what each leaves alone.        *)
(***************************************************************************)
LEMMA RevertKeeps ==
    ASSUME BootInd, rv.pc # "idle", disk' \in Disks, rv' \in RevertType,
           rv'.pc = "idle" => rv' = NoRevert, rv'.pc # "idle" => rv'.hmp = rv.hmp,
           reboot' \in BOOLEAN, faults' \in 0..MAX_FAULT,
           UNCHANGED <<pre, phase, mounted, serviceVars, historyVars, bootVars, due>>
    PROVE  BootInd'
<1>0. Typed /\ Control /\ Staging
  BY BootIndParts
<1>1. UNCHANGED <<pre, phase, mounted, req, installModule, workDir, promised, prior, cut, main, tasks,
                  wk, due>>
  BY DEF serviceVars, historyVars, bootVars
<1>2. Typed'
  BY <1>0, <1>1 DEF Typed, ServiceTypes, HistoryTypes, BootTypes, DeviceTypes
<1>3. rv # NoRevert
  BY IdleTypes
<1>4. wk.pc = "idle" \/ (wk.pc = "mount" /\ wk.src = "pre")
  BY <1>0, <1>3 DEF Control
<1>5. Staging'
  BY <1>1, <1>4 DEF Staging
<1>6. Control'
  BY <1>0, <1>1, <1>3, <1>4, IdleTypes DEF Control
<1> QED
  BY <1>2, <1>5, <1>6, TypedNext DEF BootInd

LEMMA ServiceKeeps ==
    ASSUME BootInd, phase = "up", disk' \in Disks, ServiceTypes', HistoryTypes',
           faults' \in 0..MAX_FAULT,
           req'.pc \in InstallPC => (req'.alone => rv' = NoRevert) /\ req'.pkg \in Packages,
           rv' \in RevertType, rv'.pc = "idle" => rv' = NoRevert,
           UNCHANGED <<pre, phase, reboot, mounted, bootVars>>
    PROVE  BootInd'
<1>0. Typed /\ Control /\ Staging
  BY BootIndParts
<1>1. UNCHANGED <<pre, phase, reboot, mounted, main, tasks, wk>>
  BY DEF bootVars
<1>2. Typed'
  BY <1>0, <1>1 DEF Typed, BootTypes, DeviceTypes
<1>3. wk.pc = "idle" /\ main = "off"
  BY <1>0 DEF Control
<1>4. Staging'
  BY <1>1, <1>3 DEF Staging
<1>5. Control'
  BY <1>0, <1>1, <1>3 DEF Control
<1> QED
  BY <1>2, <1>4, <1>5, TypedNext DEF BootInd

\* The worker goes on with its task, or ends it.
LEMMA WorkerKeeps ==
    ASSUME BootInd, wk.pc # "idle", disk' \in Disks, HistoryTypes', mounted' \in [Hmps -> MountType],
           faults' \in 0..MAX_FAULT, wk' \in WorkerType, rv' \in RevertType,
           rv'.pc = "idle" => rv' = NoRevert,
           wk'.pc \notin {"idle", "mount"} => rv' = NoRevert,
           wk'.pc = "mount" /\ rv' # NoRevert => rv'.hmp = wk'.hmp /\ wk'.src = "pre",
           wk'.pc # "idle" => wk'.hmp = wk.hmp,
           Staging', UNCHANGED <<pre, phase, reboot, serviceVars, main, tasks>>
    PROVE  BootInd'
<1>0. Typed /\ Control /\ Staging
  BY BootIndParts
<1>1. UNCHANGED <<pre, phase, reboot, req, installModule, workDir, main, tasks>>
  BY DEF serviceVars
<1>2. Typed'
  BY <1>0, <1>1 DEF Typed, BootTypes, DeviceTypes, ServiceTypes
<1>3. phase = "boot" /\ main # "clean" /\ req.pc = "idle" /\ "idle" \notin InstallPC
  BY <1>0 DEF Control, Typed, DeviceTypes, InstallPC
<1>4. Control'
  BY <1>0, <1>1, <1>3 DEF Control
<1> QED
  BY <1>2, <1>4, TypedNext DEF BootInd

(***************************************************************************)
(* The steps of Revert.                                                    *)
(***************************************************************************)
\* The directories of other hmps stay.
OnlyHmp(h) ==
    disk' \in Disks /\ \A q \in Place, g \in Hmps : g # h => disk'[q][g] = disk[q][g]

\* A file or a directory goes; or Revert goes on or gives up; or the backup takes the
\* place of an active directory without files.
RevertRemoves == rv.pc \in {"install", "active"} /\ rv' = rv /\ Shrinks(rv.pc, rv.hmp)
RevertGoes ==
    /\ disk' = disk
    /\ \/ rv' = NoRevert
       \/ /\ rv' = [rv EXCEPT !.pc = "active"] /\ rv.pc = "install"
          /\ ~disk["install"][rv.hmp].there
       \/ rv' = [rv EXCEPT !.pc = "rename"] /\ rv.pc = "active"
    /\ rv.pc = "rename" =>
          ~disk["backup"][rv.hmp].there \/ Present(disk["active"][rv.hmp]) # {}
RevertMoves ==
    /\ rv.pc = "rename" /\ rv' = NoRevert
    /\ Present(disk["active"][rv.hmp]) = {}
    /\ disk'["active"][rv.hmp] = disk["backup"][rv.hmp] /\ disk'["backup"][rv.hmp] = NoDir
    /\ disk'["install"][rv.hmp] = disk["install"][rv.hmp]

LEMMA RevertEffect ==
    ASSUME BootInd, RevertNext
    PROVE  /\ rv.pc # "idle" /\ rv.hmp \in Hmps /\ OnlyHmp(rv.hmp)
           /\ RevertRemoves \/ RevertGoes \/ RevertMoves
           /\ reboot' \in BOOLEAN /\ faults' \in 0..MAX_FAULT
           /\ UNCHANGED <<pre, phase, mounted, serviceVars, historyVars>>
<1>0. Typed
  BY BootIndParts
<1>t. /\ disk \in Disks /\ rv \in RevertType /\ rv.hmp \in Hmps /\ reboot \in BOOLEAN
      /\ faults \in 0..MAX_FAULT
  BY <1>0 DEF Typed, DeviceTypes, RevertType
<1>d. (disk' = disk \/ \E p \in Place : Shrinks(p, rv.hmp)) => OnlyHmp(rv.hmp)
  BY <1>t DEF OnlyHmp, Shrinks, Changed
<1>p. {"install", "active"} \subseteq Place
  BY DEF Place
<1>1. CASE RevertInstall
  <2>1. CASE disk["install"][rv.hmp].there
    BY <1>1, <1>t, <1>d, <1>p, <2>1, RemoveStepFacts DEF RevertInstall, RevertRemoves, At
  <2>2. CASE ~disk["install"][rv.hmp].there
    BY <1>1, <1>t, <1>d, <2>2 DEF RevertInstall, RevertGoes, At
  <2> QED
    BY <2>1, <2>2
<1>2. CASE RevertActive
  <2>1. CASE disk["active"][rv.hmp].there
    BY <1>2, <1>t, <1>d, <1>p, <2>1, RemoveStepFacts DEF RevertActive, RevertRemoves, At
  <2>2. CASE ~disk["active"][rv.hmp].there
    BY <1>2, <1>t, <1>d, <2>2 DEF RevertActive, RevertGoes, At
  <2> QED
    BY <2>1, <2>2
<1>3. CASE RevertFails
  BY <1>3, <1>t, <1>d, FaultType DEF RevertFails, RevertGoes
<1>4. CASE RevertRename
  <2>1. CASE disk["backup"][rv.hmp].there /\ Present(disk["active"][rv.hmp]) = {}
    <3>1. /\ disk' = [disk EXCEPT !["active"][rv.hmp] = disk["backup"][rv.hmp],
                                  !["backup"][rv.hmp] = NoDir]
          /\ disk["backup"][rv.hmp] \in GoodDir
      BY <1>4, <1>t, <2>1 DEF RevertRename, At, Disks, Place
    <3>2. /\ disk' \in Disks
          /\ disk'["active"][rv.hmp] = disk["backup"][rv.hmp] /\ disk'["backup"][rv.hmp] = NoDir
          /\ disk'["install"][rv.hmp] = disk["install"][rv.hmp]
          /\ \A q \in Place, g \in Hmps : g # rv.hmp => disk'[q][g] = disk[q][g]
      BY <1>t, <3>1, NoDirFacts DEF Disks, Place
    <3> QED
      BY <1>4, <1>t, <2>1, <3>2 DEF RevertRename, RevertMoves, OnlyHmp
  <2>2. CASE ~(disk["backup"][rv.hmp].there /\ Present(disk["active"][rv.hmp]) = {})
    BY <1>4, <1>t, <1>d, <2>2 DEF RevertRename, RevertGoes, At
  <2> QED
    BY <2>1, <2>2
<1> QED
  BY <1>1, <1>2, <1>3, <1>4 DEF RevertNext

LEMMA RevertControl ==
    ASSUME BootInd, RevertNext
    PROVE  /\ rv' \in RevertType /\ (rv'.pc = "idle" => rv' = NoRevert)
           /\ rv'.pc # "idle" => rv'.hmp = rv.hmp
<1>1. rv \in RevertType
  BY BootIndParts DEF Typed, DeviceTypes
<1>2. RevertRemoves \/ RevertGoes \/ RevertMoves
  BY RevertEffect
<1> QED
  BY <1>1, <1>2, IdleTypes DEF RevertRemoves, RevertGoes, RevertMoves, RevertType

LEMMA RevertInd ==
    ASSUME BootInd, RevertNext, UNCHANGED <<bootVars, due>>
    PROVE  BootInd'
BY RevertEffect, RevertControl, RevertKeeps DEF OnlyHmp

(***************************************************************************)
(* The requests.                                                           *)
(***************************************************************************)
LEMMA PackageFacts ==
    ASSUME NEW p \in Packages
    PROVE  /\ p \in Package /\ p.kind \in PackageKinds /\ p.ver \in Versions /\ p.ver \in File
           /\ p.ver # 0 /\ Unpacked(p.kind) \subseteq FileName /\ Unpacked(p.kind) # {}
           /\ "bare" \notin PackageKinds => "info" \in Unpacked(p.kind)
BY StoreAssumption DEF Packages, Package, Unpacked, FileName, File

\* The version that is restored, unpacked or worked with is a version, or none.
LEMMA ImageType ==
    ASSUME Typed, NEW h \in Hmps, NEW p \in Packages
    PROVE  InstallImage(h, p) \in File /\ ScanWorkDirs \in [Hmps -> {"none", "pre", "active"}]
<1>1. At("install", h).files["img"] \in File
  BY DirFacts DEF At, Typed, Disks, Place
<1>2. p.ver \in File /\ 0 \in File
  BY PackageFacts DEF File
<1>3. ScanWorkDirs \in [Hmps -> {"none", "pre", "active"}]
  BY DEF ScanWorkDirs, LatestDir, Typed, ServiceTypes
<1> QED
  BY <1>1, <1>2, <1>3 DEF InstallImage, Restored

\* A request is served when the device is up, by the only service there is.
LEMMA RequestFacts ==
    ASSUME BootInd
    PROVE  /\ Typed /\ Control /\ disk \in Disks /\ req \in RequestType /\ req.hmp \in Hmps
           /\ req.pc # "idle" => phase = "up"
           /\ req.pc \in InstallPC => /\ req.pkg \in Packages /\ phase = "up"
                                      /\ req.alone => rv = NoRevert
           /\ \A p \in Place, h \in Hmps : disk[p][h] \in GoodDir
           /\ rv.pc = "idle" => rv = NoRevert
           /\ rv \in RevertType
<1>1. Typed /\ Control
  BY BootIndParts
<1>2. disk \in Disks /\ req \in RequestType /\ phase \in {"down", "boot", "up"} /\ rv \in RevertType
  BY <1>1 DEF Typed, ServiceTypes, DeviceTypes
<1>3. "idle" \notin InstallPC
  BY DEF InstallPC
<1> QED
  BY <1>1, <1>2, <1>3 DEF Control, Disks, RequestType

\* Where a request that removes is at work.
Removed == [bkRemove |-> "backup", bkUndo |-> "backup", undo |-> "install",
            unInstall |-> "install", unActive |-> "active", unBackup |-> "backup"]
ReqRemoves ==
    /\ req.pc \in DOMAIN Removed /\ Shrinks(Removed[req.pc], req.hmp)
    /\ UNCHANGED <<pre, phase, reboot, mounted, rv, promised, prior, cut, req, installModule, workDir,
                   faults>>

\* The steps that leave the disk alone and move on.
ReqGoes ==
    /\ UNCHANGED <<disk, pre, phase, reboot, mounted, rv, promised, prior, installModule, workDir>>
    /\ cut \subseteq cut' /\ cut' \subseteq Hmps /\ faults' \in 0..MAX_FAULT
    /\ \/ /\ \E l \in RequestPC : req' = [req EXCEPT !.pc = l]
          /\ \/ req.pc = "prepare" /\ req'.pc \in {"undo", "bkRemove"}
             \/ req.pc = "prepare" /\ req'.pc = "verity" /\ ~disk["active"][req.hmp].there
             \/ req.pc \in {"extract", "verify", "bkRemove", "verity"} /\ req'.pc = "undo"
             \/ req.pc = "bkUndo" /\ req'.pc = "undo"
             \/ req.pc = "undo" /\ req'.pc = "idle" /\ req.hmp \in cut'
             \/ req.pc \in DOMAIN UninstallPlace /\ req'.pc = AfterRemoval[req.pc]
       \/ /\ req' = NoRequest
          /\ req.pc = "undo" /\ ~disk["install"][req.hmp].there

LEMMA ReqRemovesInd ==
    ASSUME BootInd, ReqRemoves, UNCHANGED <<bootVars, due>>
    PROVE  BootInd'
<1>1. phase = "up" /\ disk' \in Disks
  BY RequestFacts DEF ReqRemoves, Removed, Shrinks, Changed
<1>2. ServiceTypes' /\ HistoryTypes' /\ faults' \in 0..MAX_FAULT
  BY RequestFacts DEF ReqRemoves, Typed, ServiceTypes, HistoryTypes, DeviceTypes
<1> QED
  BY <1>1, <1>2, RequestFacts, ServiceKeeps DEF ReqRemoves

LEMMA ReqGoesInd ==
    ASSUME BootInd, ReqGoes, UNCHANGED <<bootVars, due>>
    PROVE  BootInd'
<1>0. req.pc # "idle" /\ phase = "up"
  BY RequestFacts DEF ReqGoes, UninstallPlace
<1>1. req' \in RequestType
  BY RequestFacts, IdleTypes DEF ReqGoes, RequestType
<1>2. req'.pc \in InstallPC => req.pc \in InstallPC /\ req'.alone = req.alone /\ req'.pkg = req.pkg
  BY RequestFacts, IdleTypes DEF ReqGoes, RequestType, InstallPC, UninstallPlace, AfterRemoval
<1>3. ServiceTypes' /\ HistoryTypes' /\ faults' \in 0..MAX_FAULT
  BY <1>1, RequestFacts DEF ReqGoes, Typed, ServiceTypes, HistoryTypes
<1> QED
  BY <1>0, <1>2, <1>3, RequestFacts, ServiceKeeps DEF ReqGoes

\* The requests' steps that remove or only move on.
LEMMA ReqQuiet ==
    ASSUME BootInd,
           InstallPrepare \/ (BackupRemove /\ disk["backup"][req.hmp].there) \/ BackupUndo
           \/ InstallFails \/ InstallUndo \/ UninstallStep \/ RemovalFails
    PROVE  ReqRemoves \/ ReqGoes
<1>0. /\ disk \in Disks /\ req \in RequestType /\ req.hmp \in Hmps
      /\ faults \in 0..MAX_FAULT /\ cut \subseteq Hmps
  BY RequestFacts DEF Typed, DeviceTypes, HistoryTypes
<1>p. {"install", "active", "backup"} \subseteq Place
  BY DEF Place
<1>1. CASE InstallPrepare
  BY <1>0, <1>1 DEF InstallPrepare, ReqGoes, Goto, RequestPC, RequestType, historyVars, At
<1>2. CASE BackupRemove /\ disk["backup"][req.hmp].there
  BY <1>0, <1>p, <1>2, RemoveStepFacts DEF BackupRemove, ReqRemoves, Removed, historyVars, At
<1>3. CASE BackupUndo
  <2>1. CASE disk["backup"][req.hmp].there
    BY <1>0, <1>p, <1>3, <2>1, RemoveStepFacts DEF BackupUndo, ReqRemoves, Removed, historyVars, At
  <2>2. CASE ~disk["backup"][req.hmp].there
    BY <1>0, <1>3, <2>2 DEF BackupUndo, ReqGoes, Goto, RequestPC, RequestType, historyVars, At
  <2> QED
    BY <2>1, <2>2
<1>4. CASE InstallFails
  BY <1>0, <1>4 DEF InstallFails, ReqGoes, Goto, RequestPC, RequestType, historyVars
<1>5. CASE InstallUndo
  <2>1. CASE disk["install"][req.hmp].there
    BY <1>0, <1>p, <1>5, <2>1, RemoveStepFacts DEF InstallUndo, ReqRemoves, Removed, historyVars, At
  <2>2. CASE ~disk["install"][req.hmp].there
    BY <1>0, <1>5, <2>2 DEF InstallUndo, ReqGoes, historyVars, At
  <2> QED
    BY <2>1, <2>2
<1>6. CASE UninstallStep
  <2> DEFINE p == UninstallPlace[req.pc]
  <2>0. req.pc \in {"unInstall", "unActive", "unBackup"} /\ p \in Place /\ p = Removed[req.pc]
        /\ req.pc \in DOMAIN Removed
    BY <1>6, <1>p DEF UninstallStep, UninstallPlace, Removed
  <2> HIDE DEF p
  <2>1. CASE disk[p][req.hmp].there
    <3>1. RemoveStep(p, req.hmp) /\ UNCHANGED req
      BY <1>6, <2>1 DEF UninstallStep, At, p
    <3>2. Shrinks(p, req.hmp)
      BY <1>0, <2>0, <3>1, RemoveStepFacts
    <3> QED
      BY <1>6, <2>0, <3>1, <3>2 DEF UninstallStep, ReqRemoves, historyVars
  <2>2. CASE ~disk[p][req.hmp].there
    <3>1. Goto(AfterRemoval[req.pc]) /\ UNCHANGED disk
      BY <1>6, <2>2 DEF UninstallStep, At, p
    <3>2. AfterRemoval[req.pc] \in RequestPC
      BY <2>0 DEF AfterRemoval, RequestPC
    <3>3. req' = [req EXCEPT !.pc = AfterRemoval[req.pc]] /\ req'.pc = AfterRemoval[req.pc]
      BY <1>0, <3>1 DEF Goto, RequestType
    <3> QED
      BY <1>0, <1>6, <3>1, <3>2, <3>3 DEF UninstallStep, ReqGoes, historyVars
  <2> QED
    BY <2>1, <2>2
<1>7. CASE RemovalFails
  <2>1. req.pc \in {"unInstall", "unActive", "unBackup", "undo", "bkUndo"}
    BY <1>7 DEF RemovalFails, AfterRemoval
  <2>2. /\ AfterRemoval[req.pc] \in RequestPC
        /\ req.pc = "undo" => AfterRemoval[req.pc] = "idle"
        /\ req.pc = "bkUndo" => AfterRemoval[req.pc] = "undo"
        /\ req.pc \in {"unInstall", "unActive", "unBackup"} <=> req.pc \in DOMAIN UninstallPlace
    BY <2>1 DEF AfterRemoval, RequestPC, UninstallPlace
  <2>3. /\ req' = [req EXCEPT !.pc = AfterRemoval[req.pc]] /\ req'.pc = AfterRemoval[req.pc]
        /\ cut' = cut \cup {req.hmp}
    BY <1>0, <1>7 DEF RemovalFails, Goto, RequestType
  <2>4. faults' \in 0..MAX_FAULT
    BY <1>0, <1>7, FaultType DEF RemovalFails
  <2> QED
    BY <1>0, <1>7, <2>1, <2>2, <2>3, <2>4 DEF RemovalFails, ReqGoes
<1> QED
  BY <1>1, <1>2, <1>3, <1>4, <1>5, <1>6, <1>7

(***************************************************************************)
(* The requests' steps that write.                                         *)
(***************************************************************************)
\* Directory p of h is there after the step, with the files it had.
Made(p, h) == Changed(p, h) /\ disk'[p][h].there /\ disk'[p][h].files = disk[p][h].files
\* File f of directory p of h becomes v.
Wrote(p, h, f, v) ==
    /\ Changed(p, h) /\ disk'[p][h].files[f] = v
    /\ \A g \in FileName : g # f => disk'[p][h].files[g] = disk[p][h].files[g]
    /\ disk[p][h].there => disk'[p][h].there

LEMMA MadeFacts ==
    ASSUME disk \in Disks, NEW p \in Place, NEW h \in Hmps, SetDir(p, h, MakeDir(At(p, h)))
    PROVE  Made(p, h)
<1>1. disk[p][h] \in GoodDir
  BY DEF Disks
<1> QED
  BY <1>1, MakeDirFacts, SetDirFacts DEF Made, At

LEMMA WroteFacts ==
    ASSUME disk \in Disks, NEW p \in Place, NEW h \in Hmps, NEW d \in GoodDir, NEW f \in FileName,
           NEW v \in File, v # 0 => d.there, d.files = disk[p][h].files,
           disk[p][h].there => d.there, SetDir(p, h, [d EXCEPT !.files[f] = v])
    PROVE  Wrote(p, h, f, v)
<1>1. SetDir(p, h, Put(d, f, v))
  BY DEF Put
<1> QED
  BY <1>1, PutFacts, SetDirFacts DEF Wrote

LEMMA SameDisk == ASSUME disk \in Disks, disk' = disk, NEW p, NEW h PROVE Changed(p, h)
BY DEF Changed

BeginEffect(h, p) ==
    /\ phase = "up" /\ req.pc = "idle" /\ Changed("install", h)
    /\ disk'["install"][h].files = disk["install"][h].files
    /\ req'.pc \in {"extract", "undo"} /\ (req'.pc = "extract" => disk'["install"][h].there)
    /\ req'.hmp = h /\ req'.pkg = p /\ req'.todo = Unpacked(p.kind)
    /\ req'.alone = (rv = NoRevert /\ ~reboot)
    /\ promised' = [promised EXCEPT ![h] = 0] /\ prior' = [prior EXCEPT ![h] = NoFiles]
    /\ UNCHANGED <<cut, pre, phase, reboot, mounted, installModule, workDir, rv>>

LEMMA BeginFacts ==
    ASSUME BootInd, NEW h \in Hmps, NEW p \in Packages, InstallBegin(h, p)
    PROVE  BeginEffect(h, p) /\ req' \in RequestType /\ faults' \in 0..MAX_FAULT
<1>0. disk \in Disks /\ faults \in 0..MAX_FAULT /\ "install" \in Place
  BY RequestFacts DEF Typed, DeviceTypes, Place
<1>1. PICK made \in BOOLEAN :
        /\ FaultIf(~made)
        /\ IF made THEN SetDir("install", h, MakeDir(At("install", h))) ELSE UNCHANGED disk
        /\ req' = [pc |-> IF made THEN "extract" ELSE "undo", hmp |-> h, pkg |-> p,
                   todo |-> Unpacked(p.kind), alone |-> rv = NoRevert /\ ~reboot]
  BY DEF InstallBegin
<1>2. /\ Changed("install", h) /\ disk'["install"][h].files = disk["install"][h].files
      /\ made => disk'["install"][h].there
  BY <1>0, <1>1, MadeFacts, SameDisk DEF Made
<1>3. req' \in RequestType
  BY <1>1, PackageFacts DEF RequestType, RequestPC
<1>4. faults' \in 0..MAX_FAULT
  BY <1>0, <1>1, FaultType
<1> QED
  BY <1>1, <1>2, <1>3, <1>4 DEF InstallBegin, BeginEffect, Forget

ExtractEffect(f) ==
    /\ req.pc = "extract" /\ f \in req.todo /\ disk["install"][req.hmp].there
    /\ Wrote("install", req.hmp, f, req.pkg.ver)
    /\ req'.hmp = req.hmp /\ req'.pkg = req.pkg /\ req'.alone = req.alone
    /\ req'.todo = req.todo \ {f}
    /\ req'.pc = (IF req.todo = {f} THEN "verify" ELSE "extract")
    /\ UNCHANGED <<pre, phase, faults, reboot, mounted, installModule, workDir, rv, promised, prior, cut>>

LEMMA ExtractFacts ==
    ASSUME BootInd, InstallExtract
    PROVE  req' \in RequestType /\ \E f \in FileName : ExtractEffect(f)
<1>0. /\ disk \in Disks /\ req \in RequestType /\ req.hmp \in Hmps /\ "install" \in Place
      /\ req.pc = "extract" /\ disk["install"][req.hmp] \in GoodDir /\ req.pkg.ver \in File
  BY RequestFacts, PackageFacts DEF Place, InstallPC, InstallExtract
<1>1. PICK f \in req.todo :
        /\ SetDir("install", req.hmp, [At("install", req.hmp) EXCEPT !.files[f] = req.pkg.ver])
        /\ req' = [req EXCEPT !.todo = @ \ {f}, !.pc = IF req.todo = {f} THEN "verify" ELSE @]
  BY DEF InstallExtract
<1>2. f \in FileName /\ disk["install"][req.hmp].there
  BY <1>0 DEF RequestType, InstallExtract, At
<1>3. Wrote("install", req.hmp, f, req.pkg.ver)
  BY <1>0, <1>1, <1>2, WroteFacts DEF At
<1>4. /\ req' \in RequestType
      /\ req'.hmp = req.hmp /\ req'.pkg = req.pkg /\ req'.alone = req.alone
      /\ req'.todo = req.todo \ {f}
      /\ req'.pc = (IF req.todo = {f} THEN "verify" ELSE "extract")
  BY <1>0, <1>1 DEF RequestType, RequestPC
<1> QED
  BY <1>0, <1>2, <1>3, <1>4 DEF InstallExtract, ExtractEffect, historyVars

\* InstallModuleFile: either the image is in place and the version is newer, or the
\* install is undone; without a module_info.zip nothing happens.
ModuleFileEffect ==
    LET h == req.hmp
        zip == disk["install"][h].files["info"] # 0 IN
    /\ req.pc = "verify" /\ Changed("install", h)
    /\ disk'["install"][h].files["info"] = disk["install"][h].files["info"]
    /\ disk["install"][h].there => disk'["install"][h].there
    /\ \/ disk'["install"][h].files["img"] = disk["install"][h].files["img"]
       \/ disk'["install"][h].files["img"] = req.pkg.ver /\ req.pkg.kind = "incr"
    /\ req'.hmp = h /\ req'.pkg = req.pkg /\ req'.alone = req.alone /\ req'.todo = req.todo
    /\ \/ req'.pc = "undo"
       \/ req'.pc = "prepare" /\ ~zip /\ disk' = disk
       \/ /\ req'.pc = "prepare" /\ zip /\ ValidVersion(h)
          /\ disk'["install"][h].files["img"] # 0
          /\ req.pkg.kind = "incr" => disk'["install"][h].files["img"] = req.pkg.ver
    /\ UNCHANGED <<pre, phase, faults, reboot, mounted, rv, promised, prior, cut>>

LEMMA ModuleFileFacts ==
    ASSUME BootInd, InstallModuleFile
    PROVE  /\ ModuleFileEffect /\ req' \in RequestType /\ installModule' \in BOOLEAN
           /\ workDir' \in [Hmps -> {"none", "pre", "active"}]
<1> DEFINE h == req.hmp
           zip == disk["install"][h].files["info"] # 0
           image == InstallImage(h, req.pkg)
<1>0. /\ disk \in Disks /\ req \in RequestType /\ h \in Hmps /\ "install" \in Place /\ Typed
      /\ req.pc = "verify" /\ disk["install"][h] \in GoodDir /\ req.pkg \in Packages
  BY RequestFacts DEF Place, InstallPC, InstallModuleFile
<1>1. image \in File /\ ScanWorkDirs \in [Hmps -> {"none", "pre", "active"}]
  BY <1>0, ImageType
<1>2. /\ workDir' \in [Hmps -> {"none", "pre", "active"}]
  BY <1>0, <1>1 DEF InstallModuleFile, Typed, ServiceTypes
<1>3. installModule' \in BOOLEAN
  BY <1>0 DEF InstallModuleFile, Typed, ServiceTypes
<1>4. /\ req' \in RequestType
      /\ req'.hmp = h /\ req'.pkg = req.pkg /\ req'.alone = req.alone /\ req'.todo = req.todo
      /\ req'.pc = IF zip /\ ~(image # 0 /\ ValidVersion(h)) THEN "undo" ELSE "prepare"
  BY <1>0 DEF InstallModuleFile, Goto, RequestType, RequestPC, At
<1>5. image = disk["install"][h].files["img"] \/ (req.pkg.kind = "incr" /\ image \in {req.pkg.ver, 0})
  BY <1>0 DEF InstallImage, Restored, At
<1>6. CASE zip /\ image # 0
  <2>1. SetDir("install", h, [disk["install"][h] EXCEPT !.files["img"] = image])
    BY <1>6 DEF InstallModuleFile, At
  <2>2. disk["install"][h].there /\ "img" \in FileName
    BY <1>0, <1>6, DirFacts DEF FileName
  <2>3. Wrote("install", h, "img", image)
    BY <1>0, <1>1, <2>1, <2>2, WroteFacts
  <2>4. req.pkg.kind = "incr" => image = req.pkg.ver
    BY <1>0, <1>6 DEF InstallImage, Restored, At
  <2> QED
    BY <1>0, <1>2, <1>3, <1>4, <1>5, <1>6, <2>2, <2>3, <2>4
    DEF InstallModuleFile, ModuleFileEffect, Wrote, FileName, historyVars
<1>7. CASE ~(zip /\ image # 0)
  <2>1. disk' = disk
    BY <1>7 DEF InstallModuleFile, At
  <2> QED
    BY <1>0, <1>2, <1>3, <1>4, <1>7, <2>1, SameDisk
    DEF InstallModuleFile, ModuleFileEffect, historyVars
<1> QED
  BY <1>6, <1>7

\* BackupActiveModules lists the files of the active directory.
ListEffect ==
    LET h == req.hmp
        todo == Present(disk["active"][h]) IN
    /\ req.pc = "bkRemove" /\ Made("backup", h) /\ ~disk["backup"][h].there
    /\ req'.hmp = h /\ req'.pkg = req.pkg /\ req'.alone = req.alone /\ req'.todo = todo
    /\ req'.pc = (IF todo = {} THEN "verity" ELSE "link")
    /\ UNCHANGED <<pre, phase, faults, reboot, mounted, installModule, workDir, rv, promised, prior, cut>>

LEMMA ListFacts ==
    ASSUME BootInd, BackupRemove, ~disk["backup"][req.hmp].there
    PROVE  ListEffect /\ req' \in RequestType
<1>0. disk \in Disks /\ req \in RequestType /\ req.hmp \in Hmps /\ "backup" \in Place
  BY RequestFacts DEF Place
<1>1. Made("backup", req.hmp)
  BY <1>0, MadeFacts DEF BackupRemove, At
<1>2. /\ req' = [req EXCEPT !.todo = Present(disk["active"][req.hmp]),
                            !.pc = IF Present(disk["active"][req.hmp]) = {} THEN "verity" ELSE "link"]
      /\ Present(disk["active"][req.hmp]) \subseteq FileName
  BY DEF BackupRemove, At, Present
<1>3. /\ req' \in RequestType
      /\ req'.hmp = req.hmp /\ req'.pkg = req.pkg /\ req'.alone = req.alone
      /\ req'.todo = Present(disk["active"][req.hmp])
      /\ req'.pc = (IF Present(disk["active"][req.hmp]) = {} THEN "verity" ELSE "link")
  BY <1>0, <1>2 DEF RequestType, RequestPC
<1> QED
  BY <1>1, <1>3 DEF BackupRemove, ListEffect, historyVars

\* One file of the active directory is linked, or cannot be.
LinkEffect(f) ==
    LET h == req.hmp IN
    /\ req.pc = "link" /\ f \in req.todo
    /\ req'.hmp = h /\ req'.pkg = req.pkg /\ req'.alone = req.alone /\ req'.todo = req.todo \ {f}
    /\ \/ disk' = disk /\ req'.pc = "bkUndo"
       \/ /\ disk["active"][h].files[f] # 0
          /\ Wrote("backup", h, f, disk["active"][h].files[f])
          /\ req'.pc = (IF req.todo = {f} THEN "verity" ELSE "link")
    /\ UNCHANGED <<pre, phase, reboot, mounted, installModule, workDir, rv, promised, prior, cut>>

LEMMA LinkFacts ==
    ASSUME BootInd, BackupFile
    PROVE  req' \in RequestType /\ faults' \in 0..MAX_FAULT /\ \E f \in FileName : LinkEffect(f)
<1> DEFINE h == req.hmp
           a == disk["active"][h]
           b == disk["backup"][h]
<1>0. /\ disk \in Disks /\ req \in RequestType /\ h \in Hmps /\ "backup" \in Place
      /\ req.pc = "link" /\ a \in GoodDir /\ b \in GoodDir /\ faults \in 0..MAX_FAULT
  BY RequestFacts DEF Place, BackupFile, Typed, DeviceTypes
<1>1. PICK f \in req.todo, linked \in BOOLEAN :
        /\ linked => a.files[f] # 0
        /\ FaultIf(~linked /\ a.files[f] # 0)
        /\ IF linked
           THEN SetDir("backup", req.hmp, [MakeDir(b) EXCEPT !.files[f] = a.files[f]])
           ELSE UNCHANGED disk
        /\ req' = [req EXCEPT !.todo = @ \ {f},
                              !.pc = IF ~linked THEN "bkUndo" ELSE IF req.todo = {f} THEN "verity" ELSE @]
  BY DEF BackupFile, At
<1>2. f \in FileName /\ a.files[f] \in File
  BY <1>0, DirFacts DEF RequestType, FileName
<1>3. faults' \in 0..MAX_FAULT
  BY <1>0, <1>1, FaultType
<1>4. /\ req' \in RequestType
      /\ req'.hmp = h /\ req'.pkg = req.pkg /\ req'.alone = req.alone
      /\ req'.todo = req.todo \ {f}
      /\ req'.pc = IF ~linked THEN "bkUndo" ELSE IF req.todo = {f} THEN "verity" ELSE "link"
  BY <1>0, <1>1 DEF RequestType, RequestPC
<1>5. MakeDir(b) \in GoodDir /\ MakeDir(b).there /\ MakeDir(b).files = b.files
  BY <1>0, MakeDirFacts
<1>6. linked => Wrote("backup", h, f, a.files[f])
  BY <1>0, <1>1, <1>2, <1>5, WroteFacts
<1>7. LinkEffect(f)
  BY <1>0, <1>1, <1>4, <1>6 DEF LinkEffect, BackupFile, historyVars
<1> QED
  BY <1>2, <1>3, <1>4, <1>7

FinishEffect ==
    LET h == req.hmp IN
    /\ req.pc = "verity" /\ Made("active", h) /\ req' = NoRequest
    /\ promised' = [promised EXCEPT ![h] = IF req.alone THEN req.pkg.ver ELSE 0]
    /\ prior' = [prior EXCEPT ![h] =
          IF req.alone /\ Openable(disk["active"][h]) THEN disk["active"][h].files ELSE NoFiles]
    /\ UNCHANGED <<pre, phase, faults, reboot, mounted, installModule, workDir, rv, cut>>

LEMMA FinishFacts == ASSUME BootInd, InstallFinish PROVE FinishEffect
<1>0. disk \in Disks /\ req.hmp \in Hmps /\ "active" \in Place
  BY RequestFacts DEF Place
<1>1. Made("active", req.hmp)
  BY <1>0, MadeFacts DEF InstallFinish
<1> QED
  BY <1>1 DEF InstallFinish, FinishEffect, At

UninstallEffect(h) ==
    /\ phase = "up" /\ req.pc = "idle" /\ req'.pc = "unInstall" /\ req'.hmp = h
    /\ promised' = [promised EXCEPT ![h] = 0] /\ prior' = [prior EXCEPT ![h] = NoFiles]
    /\ UNCHANGED <<disk, cut, pre, phase, faults, reboot, mounted, installModule, workDir, rv>>

LEMMA UninstallFacts ==
    ASSUME NEW h \in Hmps, UninstallBegin(h)
    PROVE  UninstallEffect(h) /\ req' \in RequestType
<1>1. req' = [NoRequest EXCEPT !.pc = "unInstall", !.hmp = h]
  BY DEF UninstallBegin
<1>2. req' \in RequestType /\ req'.pc = "unInstall" /\ req'.hmp = h
  BY <1>1, IdleTypes DEF RequestType, RequestPC
<1> QED
  BY <1>2 DEF UninstallBegin, UninstallEffect, Forget

\* The steps of the service keep the types and the order of control.
LEMMA ServiceInd ==
    ASSUME BootInd, ServiceNext, UNCHANGED <<bootVars, due>>
    PROVE  BootInd'
<1>0. /\ Typed /\ disk \in Disks /\ req.hmp \in Hmps /\ NoFiles \in Files /\ 0 \in File
      /\ promised \in [Hmps -> File] /\ prior \in [Hmps -> Files] /\ due \in [Hmps -> File]
      /\ cut \subseteq Hmps /\ faults \in 0..MAX_FAULT
      /\ installModule \in BOOLEAN /\ workDir \in [Hmps -> {"none", "pre", "active"}]
      /\ req \in RequestType
  BY RequestFacts, NoFilesFacts DEF Typed, HistoryTypes, DeviceTypes, ServiceTypes, File
<1>1. ASSUME NEW h \in Hmps, NEW p \in Packages, InstallBegin(h, p) PROVE BootInd'
  <2>1. BeginEffect(h, p) /\ req' \in RequestType /\ faults' \in 0..MAX_FAULT
    BY <1>1, BeginFacts
  <2>2. ServiceTypes' /\ HistoryTypes'
    BY <1>0, <2>1 DEF BeginEffect, ServiceTypes, HistoryTypes
  <2> QED
    BY <2>1, <2>2, RequestFacts, ServiceKeeps DEF BeginEffect, Changed
<1>2. CASE InstallExtract
  <2>1. PICK f \in FileName : ExtractEffect(f) /\ req' \in RequestType
    BY <1>2, ExtractFacts
  <2>2. ServiceTypes' /\ HistoryTypes' /\ faults' \in 0..MAX_FAULT
    BY <1>0, <2>1 DEF ExtractEffect, ServiceTypes, HistoryTypes
  <2>3. req.pc \in InstallPC
    BY <2>1 DEF ExtractEffect, InstallPC
  <2> QED
    BY <2>1, <2>2, <2>3, RequestFacts, ServiceKeeps DEF ExtractEffect, Wrote, Changed
<1>3. CASE InstallModuleFile
  <2>1. /\ ModuleFileEffect /\ req' \in RequestType /\ installModule' \in BOOLEAN
        /\ workDir' \in [Hmps -> {"none", "pre", "active"}]
    BY <1>3, ModuleFileFacts
  <2>2. ServiceTypes' /\ HistoryTypes' /\ faults' \in 0..MAX_FAULT
    BY <1>0, <2>1 DEF ModuleFileEffect, ServiceTypes, HistoryTypes
  <2>3. req.pc \in InstallPC
    BY <2>1 DEF ModuleFileEffect, InstallPC
  <2> QED
    BY <2>1, <2>2, <2>3, RequestFacts, ServiceKeeps DEF ModuleFileEffect, Changed
<1>4. CASE BackupRemove /\ ~disk["backup"][req.hmp].there
  <2>1. ListEffect /\ req' \in RequestType
    BY <1>4, ListFacts
  <2>2. ServiceTypes' /\ HistoryTypes' /\ faults' \in 0..MAX_FAULT
    BY <1>0, <2>1 DEF ListEffect, ServiceTypes, HistoryTypes
  <2>3. req.pc \in InstallPC
    BY <2>1 DEF ListEffect, InstallPC
  <2> QED
    BY <2>1, <2>2, <2>3, RequestFacts, ServiceKeeps DEF ListEffect, Made, Changed
<1>5. CASE BackupFile
  <2>1. PICK f \in FileName : LinkEffect(f) /\ req' \in RequestType /\ faults' \in 0..MAX_FAULT
    BY <1>5, LinkFacts
  <2>2. ServiceTypes' /\ HistoryTypes'
    BY <1>0, <2>1 DEF LinkEffect, ServiceTypes, HistoryTypes
  <2>3. req.pc \in InstallPC /\ disk' \in Disks
    BY <1>0, <2>1 DEF LinkEffect, InstallPC, Wrote, Changed
  <2> QED
    BY <2>1, <2>2, <2>3, RequestFacts, ServiceKeeps DEF LinkEffect
<1>6. CASE InstallFinish
  <2>1. FinishEffect /\ req.pkg \in Packages /\ phase = "up" /\ "active" \in Place
    BY <1>6, FinishFacts, RequestFacts DEF FinishEffect, InstallPC, Place
  <2>2. req.pkg.ver \in File /\ disk["active"][req.hmp].files \in Files
    BY <2>1, PackageFacts, RequestFacts, DirFacts
  <2>3. ServiceTypes' /\ HistoryTypes' /\ faults' \in 0..MAX_FAULT
    BY <1>0, <2>1, <2>2, IdleTypes DEF FinishEffect, ServiceTypes, HistoryTypes
  <2>4. req'.pc \notin InstallPC
    BY <2>1, IdleTypes DEF FinishEffect, InstallPC
  <2> QED
    BY <2>1, <2>3, <2>4, RequestFacts, ServiceKeeps DEF FinishEffect, Made, Changed
<1>7. ASSUME NEW h \in Hmps, UninstallBegin(h) PROVE BootInd'
  <2>1. UninstallEffect(h) /\ req' \in RequestType
    BY <1>7, UninstallFacts
  <2>2. ServiceTypes' /\ HistoryTypes' /\ faults' \in 0..MAX_FAULT
    BY <1>0, <2>1 DEF UninstallEffect, ServiceTypes, HistoryTypes
  <2>3. req'.pc \notin InstallPC
    BY <2>1 DEF UninstallEffect, InstallPC
  <2> QED
    BY <1>0, <2>1, <2>2, <2>3, RequestFacts, ServiceKeeps DEF UninstallEffect
<1>8. CASE QueryVersions
  <2>1. ScanWorkDirs \in [Hmps -> {"none", "pre", "active"}]
    BY <1>0 DEF ScanWorkDirs, LatestDir
  <2>2. ServiceTypes' /\ HistoryTypes' /\ faults' \in 0..MAX_FAULT
    BY <1>0, <1>8, <2>1 DEF QueryVersions, ServiceTypes, HistoryTypes, historyVars
  <2> QED
    BY <1>0, <1>8, <2>2, RequestFacts, ServiceKeeps DEF QueryVersions
<1>9. CASE ServiceExit
  <2>1. ServiceTypes' /\ HistoryTypes' /\ faults' \in 0..MAX_FAULT
    BY <1>0, <1>9 DEF ServiceExit, ServiceTypes, HistoryTypes, historyVars
  <2> QED
    BY <1>0, <1>9, <2>1, RequestFacts, ServiceKeeps DEF ServiceExit
<1>10. CASE InstallPrepare \/ (BackupRemove /\ disk["backup"][req.hmp].there) \/ BackupUndo
            \/ InstallFails \/ InstallUndo \/ UninstallStep \/ RemovalFails
  BY <1>10, ReqQuiet, ReqRemovesInd, ReqGoesInd
<1> QED
  BY <1>1, <1>2, <1>3, <1>4, <1>5, <1>6, <1>7, <1>8, <1>9, <1>10 DEF ServiceNext, InstallNext

\* The monitor starts a revert beside the request in progress.
LEMMA MonitorInd ==
    ASSUME BootInd, MonitorRevert, UNCHANGED <<bootVars, due>>
    PROVE  BootInd'
<1>0. /\ Typed /\ disk \in Disks /\ NoFiles \in Files /\ 0 \in File /\ First \in Hmps
      /\ promised \in [Hmps -> File] /\ prior \in [Hmps -> Files] /\ due \in [Hmps -> File]
      /\ cut \subseteq Hmps /\ faults \in 0..MAX_FAULT /\ req \in RequestType
  BY StoreAssumption, RequestFacts, NoFilesFacts DEF Typed, HistoryTypes, DeviceTypes, File
<1>1. /\ req' \in RequestType /\ ~req'.alone /\ req'.pc = req.pc /\ req'.pkg = req.pkg
      /\ rv' \in RevertType /\ rv'.pc # "idle"
  BY <1>0 DEF MonitorRevert, StartRevert, RequestType, RevertType
<1>2. ServiceTypes' /\ HistoryTypes'
  BY <1>0, <1>1 DEF MonitorRevert, ServiceTypes, HistoryTypes, Typed
<1> QED
  BY <1>0, <1>1, <1>2, RequestFacts, ServiceKeeps DEF MonitorRevert

(***************************************************************************)
(* The worker of the boot check.                                           *)
(***************************************************************************)
LEMMA WorkerFacts ==
    ASSUME BootInd
    PROVE  /\ Typed /\ Control /\ Staging /\ disk \in Disks /\ wk \in WorkerType /\ wk.hmp \in Hmps
           /\ \A p \in Place, h \in Hmps : disk[p][h] \in GoodDir
           /\ {"install", "active", "backup"} = Place
           /\ wk.pc # "idle" => /\ phase = "boot" /\ req.pc = "idle" /\ main # "clean"
                                /\ wk.hmp \notin tasks
           /\ wk.pc \notin {"idle", "mount"} => rv = NoRevert
           /\ HistoryTypes /\ faults \in 0..MAX_FAULT /\ mounted \in [Hmps -> MountType]
           /\ pre \in [Hmps -> Versions] /\ rv \in RevertType
           /\ rv.pc = "idle" => rv = NoRevert
<1>1. Typed /\ Control /\ Staging
  BY BootIndParts
<1>2. /\ disk \in Disks /\ wk \in WorkerType /\ phase \in {"down", "boot", "up"}
      /\ HistoryTypes /\ faults \in 0..MAX_FAULT /\ mounted \in [Hmps -> MountType]
      /\ pre \in [Hmps -> Versions] /\ rv \in RevertType
  BY <1>1 DEF Typed, BootTypes, DeviceTypes
<1> QED
  BY <1>1, <1>2 DEF Control, Disks, WorkerType, Place

\* The worker has chosen: the preinstalled package, with or without a revert.
SystemEffect(h) ==
    /\ wk'.hmp = h /\ wk'.src = "pre" /\ wk'.pc \in {"mount", "clrActive"}
    /\ IF disk["backup"][h].there /\ wk.repo = {}
       THEN rv'.pc = "install" /\ rv'.hmp = h /\ wk'.pc = "mount" /\ prior' = prior
       ELSE rv' = rv /\ wk'.pc = "clrActive" /\ prior' = [prior EXCEPT ![h] = NoFiles]
    /\ cut' = cut

LEMMA SystemFacts ==
    ASSUME BootInd, UseSystem(wk.hmp)
    PROVE  /\ SystemEffect(wk.hmp) /\ wk' \in WorkerType
           /\ prior' \in [Hmps -> Files] /\ cut' \subseteq Hmps
           /\ rv = NoRevert => rv' \in RevertType /\ (rv'.pc = "idle" => rv' = NoRevert)
<1>0. /\ wk \in WorkerType /\ wk.hmp \in Hmps /\ prior \in [Hmps -> Files] /\ cut \subseteq Hmps
      /\ NoFiles \in Files
  BY WorkerFacts, NoFilesFacts DEF HistoryTypes
<1> DEFINE back == disk["backup"][wk.hmp].there /\ wk.repo = {}
<1>a. wk' = IF back THEN [wk EXCEPT !.pc = "mount", !.src = "pre"]
                    ELSE [wk EXCEPT !.pc = "clrActive", !.src = "pre"]
  BY DEF UseSystem, CheckRevert, At
<1>b. /\ IF back THEN rv' = [pc |-> "install", hmp |-> wk.hmp] ELSE rv' = rv
      /\ prior' = [prior EXCEPT ![wk.hmp] = IF back THEN prior[wk.hmp] ELSE NoFiles] /\ cut' = cut
  BY DEF UseSystem, CheckRevert, StartRevert, At
<1> HIDE DEF back
<1>c. /\ wk' \in WorkerType /\ wk'.hmp = wk.hmp /\ wk'.src = "pre"
      /\ wk'.pc = IF back THEN "mount" ELSE "clrActive"
  BY <1>0, <1>a DEF WorkerType, WorkerPC
<1>d. prior' = IF back THEN prior ELSE [prior EXCEPT ![wk.hmp] = NoFiles]
  BY <1>0, <1>b
<1>e. rv' = IF back THEN [pc |-> "install", hmp |-> wk.hmp] ELSE rv
  BY <1>b
<1>1. wk' \in WorkerType /\ SystemEffect(wk.hmp)
  <2>1. CASE back
    BY <1>b, <1>c, <1>d, <1>e, <2>1 DEF SystemEffect, back
  <2>2. CASE ~back
    BY <1>b, <1>c, <1>d, <1>e, <2>2 DEF SystemEffect, back
  <2> QED
    BY <2>1, <2>2
<1> QED
  BY <1>0, <1>1, IdleTypes DEF UseSystem, SystemEffect, StartRevert, RevertType

\* Every choice of the preinstalled package.
LEMMA SystemInd ==
    ASSUME BootInd, wk.pc \notin {"idle", "mount"}, UseSystem(wk.hmp),
           promised' \in [Hmps -> File], due' \in [Hmps -> File], faults' \in 0..MAX_FAULT,
           UNCHANGED <<disk, wkQuiet>>
    PROVE  BootInd'
<1>1. /\ rv = NoRevert /\ SystemEffect(wk.hmp) /\ wk' \in WorkerType
      /\ prior' \in [Hmps -> Files] /\ cut' \subseteq Hmps
      /\ rv' \in RevertType /\ (rv'.pc = "idle" => rv' = NoRevert)
  BY SystemFacts, WorkerFacts
<1>2. HistoryTypes'
  BY <1>1 DEF HistoryTypes
<1>3. Staging'
  BY <1>1 DEF Staging, SystemEffect
<1>4. /\ wk'.pc \notin {"idle", "mount"} => rv' = NoRevert
      /\ wk'.pc = "mount" /\ rv' # NoRevert => rv'.hmp = wk'.hmp /\ wk'.src = "pre"
  BY <1>1 DEF SystemEffect
<1> QED
  BY <1>1, <1>2, <1>3, <1>4, WorkerFacts, WorkerKeeps DEF SystemEffect, wkQuiet

\* The package in the active directory is chosen.
ActiveEffect ==
    /\ wk' = [wk EXCEPT !.pc = "mount", !.src = "active"]
    /\ Newer(disk["active"][wk.hmp].files["info"], pre[wk.hmp])
    /\ UNCHANGED <<rv, promised, prior, cut>>

LEMMA LatestInd ==
    ASSUME BootInd, wk.pc \notin {"idle", "mount"}, Openable(disk["active"][wk.hmp]),
           UseLatest(wk.hmp, At("active", wk.hmp).files["info"]), UNCHANGED <<disk, wkAlone, due>>
    PROVE  /\ BootInd'
           /\ ActiveEffect \/ (UseSystem(wk.hmp) /\ UNCHANGED promised)
<1>1. ActiveEffect \/ (UseSystem(wk.hmp) /\ UNCHANGED promised)
  BY DEF UseLatest, ActiveEffect, historyVars, At
<1>2. promised \in [Hmps -> File] /\ due \in [Hmps -> File] /\ faults \in 0..MAX_FAULT
  BY WorkerFacts DEF HistoryTypes
<1>3. CASE UseSystem(wk.hmp) /\ UNCHANGED promised
  BY <1>1, <1>2, <1>3, SystemInd DEF wkAlone, wkQuiet
<1>4. CASE ActiveEffect
  <2>1. /\ wk' \in WorkerType /\ wk'.pc = "mount" /\ wk'.src = "active" /\ wk'.hmp = wk.hmp
    BY <1>4, WorkerFacts DEF ActiveEffect, WorkerType, WorkerPC
  <2>2. Staging'
    BY <2>1 DEF Staging, At, wkAlone, wkQuiet
  <2>3. HistoryTypes' /\ rv' = NoRevert
    BY <1>4, WorkerFacts DEF ActiveEffect, HistoryTypes
  <2> QED
    BY <1>1, <1>4, <2>1, <2>2, <2>3, WorkerFacts, WorkerKeeps, IdleTypes
    DEF ActiveEffect, wkAlone, wkQuiet
<1> QED
  BY <1>1, <1>3, <1>4

\* What the worker knows when an update waits.
LEMMA WaitsFacts ==
    ASSUME BootInd, wk.pc = "choose"
    PROVE  /\ "install" \in wk.repo <=> Openable(disk["install"][wk.hmp])
           /\ "active" \in wk.repo <=> Openable(disk["active"][wk.hmp])
           /\ UpdateWaits(wk.hmp) => "install" \in wk.repo
           /\ UpdateWaits(wk.hmp) /\ "active" \in wk.repo =>
                 Newer(disk["install"][wk.hmp].files["info"], disk["active"][wk.hmp].files["info"])
           /\ "install" \in wk.repo /\ ~UpdateWaits(wk.hmp) =>
                 /\ "active" \in wk.repo
                 /\ ~Newer(disk["install"][wk.hmp].files["info"],
                           disk["active"][wk.hmp].files["info"])
<1>1. wk.repo = Repository(wk.hmp)
  BY WorkerFacts DEF Staging
<1> QED
  BY <1>1 DEF Repository, UpdateWaits, At

\* Staging writes the active directory file by file.
BeginStageEffect ==
    LET h == wk.hmp IN
    /\ wk.pc = "choose" /\ UpdateWaits(h) /\ disk["active"][h].there
    /\ Wrote("active", h, "info", 0)
    /\ wk'.pc = "link" /\ wk'.hmp = h /\ wk'.repo = wk.repo /\ wk'.todo = FileName
    /\ wk'.cur = "info" /\ wk'.first
LinkStageEffect ==
    LET h == wk.hmp IN
    /\ wk.pc = "link" /\ Wrote("active", h, wk.cur, disk["install"][h].files[wk.cur])
    /\ wk'.pc \in {"unlink", "staged"} /\ wk'.hmp = h /\ wk'.repo = wk.repo
    /\ wk'.todo = (IF wk.first THEN wk.todo ELSE wk.todo \ {wk.cur})
    /\ (wk'.pc = "staged" <=> wk'.todo = {}) /\ ~wk'.first
UnlinkStageEffect ==
    LET h == wk.hmp IN
    /\ wk.pc = "unlink" /\ \E f \in wk.todo : wk'.cur = f /\ Wrote("active", h, f, 0)
    /\ wk'.pc = "link" /\ wk'.hmp = h /\ wk'.repo = wk.repo /\ wk'.todo = wk.todo /\ ~wk'.first

StageEffect ==
    /\ BeginStageEffect \/ LinkStageEffect \/ UnlinkStageEffect
    /\ UNCHANGED <<wkAlone, rv, historyVars, due>>

LEMMA StageFacts ==
    ASSUME BootInd, StageBegin \/ StageLink \/ StageUnlink
    PROVE  StageEffect /\ wk' \in WorkerType
<1> DEFINE h == wk.hmp
<1>0. /\ disk \in Disks /\ wk \in WorkerType /\ h \in Hmps /\ "active" \in Place
      /\ disk["active"][h] \in GoodDir /\ disk["install"][h] \in GoodDir
  BY WorkerFacts
<1>1. CASE StageBegin
  <2>1. 0 \in File /\ "info" \in FileName
    BY DEF File, FileName
  <2>2. Wrote("active", h, "info", 0)
    BY <1>0, <1>1, <2>1, WroteFacts DEF StageBegin, At
  <2>3. Present(disk["install"][h]) = FileName
    BY <1>1, WaitsFacts DEF StageBegin, Openable
  <2>4. wk' = [wk EXCEPT !.pc = "link", !.cur = "info", !.first = TRUE, !.todo = FileName]
    BY <1>1, <2>3 DEF StageBegin, At
  <2>5. /\ wk' \in WorkerType
        /\ wk'.pc = "link" /\ wk'.hmp = h /\ wk'.repo = wk.repo /\ wk'.todo = FileName
        /\ wk'.cur = "info" /\ wk'.first
    BY <1>0, <2>1, <2>4 DEF WorkerType, WorkerPC
  <2> QED
    BY <1>1, <2>2, <2>5 DEF StageBegin, StageEffect, BeginStageEffect, At
<1>2. CASE StageLink
  <2>1. /\ wk.cur \in FileName /\ disk["install"][h].files[wk.cur] \in File /\ wk.pc = "link"
        /\ disk["active"][h].there
    BY <1>0, <1>2, DirFacts, WorkerFacts DEF WorkerType, FileName, StageLink, Staging, At
  <2>2. Wrote("active", h, wk.cur, disk["install"][h].files[wk.cur])
    BY <1>0, <1>2, <2>1, WroteFacts DEF StageLink, At
  <2> DEFINE left == IF wk.first THEN wk.todo ELSE wk.todo \ {wk.cur}
  <2>3. wk' = [wk EXCEPT !.first = FALSE, !.todo = left, !.pc = IF left = {} THEN "staged" ELSE "unlink"]
    BY <1>2 DEF StageLink
  <2>4. left \subseteq FileName
    BY <1>0 DEF WorkerType
  <2> HIDE DEF left
  <2>5. /\ wk' \in WorkerType /\ wk'.hmp = h /\ wk'.repo = wk.repo /\ wk'.todo = left
        /\ wk'.pc = IF left = {} THEN "staged" ELSE "unlink"
    BY <1>0, <2>3, <2>4 DEF WorkerType, WorkerPC
  <2>6. ~wk'.first
    BY <1>0, <2>3 DEF WorkerType
  <2> QED
    BY <1>2, <2>1, <2>2, <2>5, <2>6 DEF StageLink, StageEffect, LinkStageEffect, left
<1>3. CASE StageUnlink
  <2>1. PICK f \in wk.todo :
          /\ SetDir("active", h, [disk["active"][h] EXCEPT !.files[f] = 0])
          /\ wk' = [wk EXCEPT !.pc = "link", !.cur = f]
    BY <1>3 DEF StageUnlink, At
  <2>2. f \in FileName /\ 0 \in File
    BY <1>0 DEF WorkerType, File
  <2>3. Wrote("active", h, f, 0)
    BY <1>0, <2>1, <2>2, WroteFacts
  <2>4. ~wk.first
    BY <1>3, WorkerFacts DEF StageUnlink, Staging
  <2>5. /\ wk' \in WorkerType /\ wk'.pc = "link" /\ wk'.hmp = h /\ wk'.repo = wk.repo
        /\ wk'.todo = wk.todo /\ wk'.cur = f /\ ~wk'.first
    BY <1>0, <2>1, <2>2, <2>4 DEF WorkerType, WorkerPC
  <2> QED
    BY <1>3, <2>3, <2>5 DEF StageUnlink, StageEffect, UnlinkStageEffect
<1> QED
  BY <1>1, <1>2, <1>3

LEMMA StageInd ==
    ASSUME BootInd, StageBegin \/ StageLink \/ StageUnlink
    PROVE  BootInd'
<1> DEFINE h == wk.hmp
<1>0. StageEffect /\ wk' \in WorkerType
  BY StageFacts
<1>1. /\ wk.pc \in {"choose", "link", "unlink"} /\ wk'.pc \in {"link", "unlink", "staged"}
      /\ wk'.hmp = h /\ wk'.repo = wk.repo /\ h \in Hmps
      /\ Changed("active", h) /\ (disk["active"][h].there => disk'["active"][h].there)
  BY <1>0, WorkerFacts
  DEF StageEffect, BeginStageEffect, LinkStageEffect, UnlinkStageEffect, Wrote
<1>2. /\ disk' \in Disks /\ disk'["install"][h] = disk["install"][h]
  BY <1>1, WorkerFacts DEF Changed
<1>3. "install" \in wk.repo /\ Openable(disk["install"][h]) /\ disk["active"][h].there
  <2>1. CASE wk.pc = "choose"
    BY <1>0, <2>1, WaitsFacts
    DEF StageEffect, BeginStageEffect, LinkStageEffect, UnlinkStageEffect
  <2>2. CASE wk.pc \in {"link", "unlink"}
    BY <2>2, WorkerFacts DEF Staging, At
  <2> QED
    BY <1>1, <2>1, <2>2
<1>4. disk["install"][h] \in GoodDir /\ disk["active"][h] \in GoodDir /\ disk'["active"][h] \in GoodDir
  BY <1>1, <1>2, WorkerFacts DEF Disks
<1>5. Staging'
  <2>1. CASE BeginStageEffect
    BY <1>1, <1>2, <1>3, <2>1 DEF BeginStageEffect, Staging, At, Wrote
  <2>2. CASE LinkStageEffect
    <3>1. /\ wk.pc = "link" /\ wk'.todo = (IF wk.first THEN wk.todo ELSE wk.todo \ {wk.cur})
          /\ wk'.pc \in {"unlink", "staged"} /\ (wk'.pc = "staged" <=> wk'.todo = {})
          /\ ~wk'.first
      BY <2>2 DEF LinkStageEffect
    <3>2. /\ wk.cur \in FileName /\ wk.todo \subseteq FileName
          /\ \A f \in FileName \ wk.todo : disk["active"][h].files[f] = disk["install"][h].files[f]
          /\ IF wk.first THEN wk.todo = FileName ELSE wk.cur \in wk.todo
      BY <3>1, WorkerFacts DEF Staging, At, WorkerType
    <3>3. \A f \in FileName \ wk'.todo : disk'["active"][h].files[f] = disk'["install"][h].files[f]
      BY <1>2, <2>2, <3>1, <3>2 DEF LinkStageEffect, Wrote
    <3>4. wk'.pc = "staged" => disk'["active"][h].files = disk'["install"][h].files
      <4>1. SUFFICES ASSUME wk'.pc = "staged"
                     PROVE  disk'["active"][h].files = disk'["install"][h].files
        OBVIOUS
      <4>2. \A f \in {"info", "img"} : disk'["active"][h].files[f] = disk'["install"][h].files[f]
        BY <3>1, <3>3, <4>1 DEF FileName
      <4> QED
        BY <1>2, <1>4, <4>2, FilesEqual, DirFacts
    <3>5. disk'["active"][h].files["info"] \in {disk'["install"][h].files["info"], 0}
      <4>1. disk["active"][h].files["info"] \in {disk["install"][h].files["info"], 0}
        BY <3>1, WorkerFacts DEF Staging, At
      <4> QED
        BY <1>2, <2>2, <3>2, <4>1 DEF LinkStageEffect, Wrote, FileName
    <3> QED
      BY <1>1, <1>2, <1>3, <3>1, <3>3, <3>4, <3>5 DEF Staging, At
  <2>3. CASE UnlinkStageEffect
    <3>1. PICK f \in wk.todo : wk'.cur = f /\ Wrote("active", h, f, 0)
      BY <2>3 DEF UnlinkStageEffect
    <3>2. /\ wk.pc = "unlink" /\ wk'.pc = "link" /\ wk'.todo = wk.todo /\ ~wk'.first
          /\ \A g \in FileName \ wk.todo : disk["active"][h].files[g] = disk["install"][h].files[g]
      BY <2>3, WorkerFacts DEF UnlinkStageEffect, Staging, At
    <3>3. \A g \in FileName \ wk.todo : disk'["active"][h].files[g] = disk'["install"][h].files[g]
      BY <1>2, <3>1, <3>2 DEF Wrote
    <3>4. disk'["active"][h].files["info"] \in {disk'["install"][h].files["info"], 0}
      <4>1. disk["active"][h].files["info"] \in {disk["install"][h].files["info"], 0}
        BY <3>2, WorkerFacts DEF Staging, At
      <4> QED
        BY <1>2, <3>1, <4>1 DEF Wrote, FileName
    <3> QED
      BY <1>1, <1>2, <1>3, <3>1, <3>2, <3>3, <3>4 DEF Staging, At, Wrote
  <2> QED
    BY <1>0, <2>1, <2>2, <2>3 DEF StageEffect
<1>6. HistoryTypes' /\ rv' = NoRevert /\ faults' \in 0..MAX_FAULT /\ mounted' = mounted
  BY <1>0, <1>1, WorkerFacts DEF StageEffect, HistoryTypes, historyVars, wkAlone, wkQuiet
<1> QED
  BY <1>0, <1>1, <1>2, <1>5, <1>6, WorkerFacts, WorkerKeeps, IdleTypes DEF StageEffect, wkAlone, wkQuiet

\* The choices that end in UseSystem or in the active package.
LEMMA ChooseFacts ==
    ASSUME BootInd, StageNoDir \/ ChooseActive \/ ChooseSystem \/ StageDone \/ StageFails
    PROVE  /\ wk.pc \in {"choose", "link", "staged"}
           /\ \/ /\ UseSystem(wk.hmp) /\ promised' \in [Hmps -> File] /\ due' \in [Hmps -> File]
                 /\ faults' \in 0..MAX_FAULT /\ UNCHANGED <<disk, wkQuiet>>
              \/ /\ ActiveEffect /\ UNCHANGED <<disk, wkAlone, due>> /\ ~(wk.pc = "link")
                 /\ wk.pc = "choose" => "active" \in wk.repo /\ ~UpdateWaits(wk.hmp)
           /\ \A h \in Hmps : h # wk.hmp => promised'[h] = promised[h] /\ due'[h] = due[h]
           /\ \/ UNCHANGED <<promised, due>>
              \/ promised'[wk.hmp] = 0 /\ due'[wk.hmp] = 0
           /\ BootInd'
<1>0. /\ promised \in [Hmps -> File] /\ due \in [Hmps -> File] /\ faults \in 0..MAX_FAULT
      /\ wk.hmp \in Hmps
  BY WorkerFacts DEF HistoryTypes
<1>1. CASE StageNoDir \/ ChooseSystem
  <2>1. wk.pc = "choose" /\ UseSystem(wk.hmp) /\ UNCHANGED <<disk, wkAlone, promised, due>>
    BY <1>1 DEF StageNoDir, ChooseSystem
  <2>2. UNCHANGED <<disk, wkQuiet, faults, promised, due>>
    BY <2>1 DEF wkAlone
  <2> QED
    BY <1>0, <2>1, <2>2, SystemInd
<1>2. CASE ChooseActive \/ StageDone
  <2>1. /\ wk.pc \in {"choose", "staged"} /\ UNCHANGED <<disk, wkAlone, due>>
        /\ UseLatest(wk.hmp, At("active", wk.hmp).files["info"])
        /\ wk.pc = "choose" => "active" \in wk.repo /\ ~UpdateWaits(wk.hmp)
    BY <1>2 DEF ChooseActive, StageDone
  <2>2. Openable(disk["active"][wk.hmp])
    <3>1. CASE wk.pc = "choose"
      BY <2>1, <3>1, WaitsFacts
    <3>2. CASE wk.pc = "staged"
      <4>1. /\ disk["active"][wk.hmp].files = disk["install"][wk.hmp].files
            /\ Openable(disk["install"][wk.hmp])
            /\ disk["active"][wk.hmp] \in GoodDir /\ disk["install"][wk.hmp] \in GoodDir
        BY <1>0, <3>2, WorkerFacts DEF Staging, At
      <4> QED
        BY <4>1, DirFacts
    <3> QED
      BY <2>1, <3>1, <3>2
  <2>3. BootInd' /\ (ActiveEffect \/ (UseSystem(wk.hmp) /\ UNCHANGED promised))
    BY <2>1, <2>2, LatestInd
  <2>4. UNCHANGED <<disk, wkQuiet, faults, promised, due>>
    BY <2>1, <2>3 DEF wkAlone, ActiveEffect
  <2> QED
    BY <1>0, <2>1, <2>3, <2>4
<1>3. CASE StageFails
  <2>1. /\ wk.pc \in {"choose", "link"} /\ UseSystem(wk.hmp) /\ UNCHANGED <<disk, wkQuiet>>
        /\ \/ GiveUp(wk.hmp)
           \/ UNCHANGED <<promised, due>>
    BY <1>3 DEF StageFails
  <2>2. faults' \in 0..MAX_FAULT
    BY <1>0, <1>3, FaultType DEF StageFails
  <2>3. /\ promised' \in [Hmps -> File] /\ due' \in [Hmps -> File]
        /\ \A h \in Hmps : h # wk.hmp => promised'[h] = promised[h] /\ due'[h] = due[h]
        /\ \/ UNCHANGED <<promised, due>>
           \/ promised'[wk.hmp] = 0 /\ due'[wk.hmp] = 0
    BY <1>0, <2>1 DEF GiveUp, File
  <2> QED
    BY <2>1, <2>2, <2>3, SystemInd
<1> QED
  BY <1>1, <1>2, <1>3

\* A file goes from a directory that the preinstalled package replaces, or the worker goes on.
ClearEffect ==
    /\ wk.pc \in {"clrActive", "clrBackup"} /\ UNCHANGED <<wkQuiet, rv, historyVars, due>>
    /\ \/ /\ wk' = wk
          /\ Shrinks(IF wk.pc = "clrActive" THEN "active" ELSE "backup", wk.hmp)
       \/ /\ disk' = disk
          /\ wk' = [wk EXCEPT !.pc = IF wk.pc = "clrActive" THEN "clrBackup" ELSE "mount"]

LEMMA ClearFacts ==
    ASSUME BootInd, ClearActive \/ ClearBackup \/ ClearFails
    PROVE  ClearEffect /\ faults' \in 0..MAX_FAULT
<1>0. /\ disk \in Disks /\ wk.hmp \in Hmps /\ "active" \in Place /\ "backup" \in Place
      /\ faults \in 0..MAX_FAULT
  BY WorkerFacts
<1>1. CASE ClearActive
  BY <1>0, <1>1, RemoveStepFacts DEF ClearActive, ClearEffect, WkGoto, wkAlone
<1>2. CASE ClearBackup
  BY <1>0, <1>2, RemoveStepFacts DEF ClearBackup, ClearEffect, WkGoto, wkAlone
<1>3. CASE ClearFails
  BY <1>0, <1>3, FaultType DEF ClearFails, ClearEffect, WkGoto
<1> QED
  BY <1>1, <1>2, <1>3

LEMMA ClearInd ==
    ASSUME BootInd, ClearActive \/ ClearBackup \/ ClearFails
    PROVE  BootInd'
<1>0. ClearEffect /\ faults' \in 0..MAX_FAULT
  BY ClearFacts
<1>1. /\ wk' \in WorkerType /\ wk'.pc \in {"clrActive", "clrBackup", "mount"} /\ wk'.hmp = wk.hmp
      /\ wk'.pc = "mount" => wk'.src = wk.src
  BY <1>0, WorkerFacts DEF ClearEffect, WorkerType, WorkerPC
<1>s. wk'.src = "pre"
  BY <1>0, WorkerFacts DEF ClearEffect, WorkerType, Staging
<1>2. disk' \in Disks /\ rv' = NoRevert /\ HistoryTypes' /\ mounted' = mounted
  BY <1>0, WorkerFacts DEF ClearEffect, Shrinks, Changed, HistoryTypes, historyVars, wkQuiet
<1>3. Staging'
  BY <1>1, <1>s DEF Staging
<1> QED
  BY <1>0, <1>1, <1>2, <1>3, WorkerFacts, WorkerKeeps, IdleTypes DEF ClearEffect, wkQuiet

\* The end of a task: mounted, reverted, or nothing.
MountEffect ==
    LET h == wk.hmp IN
    /\ wk.pc = "mount" /\ rv = NoRevert /\ wk' = NoTask
    /\ UNCHANGED <<disk, pre, phase, reboot, serviceVars, main, tasks, cut>>
    /\ \/ /\ mounted' = [mounted EXCEPT ![h] =
                [from |-> wk.src,
                 files |-> IF wk.src = "pre" THEN [f \in FileName |-> pre[h]]
                                             ELSE disk["active"][h].files]]
          /\ UNCHANGED <<rv, promised, prior, due>>
       \/ /\ rv' = [pc |-> "install", hmp |-> h] /\ GiveUp(h) /\ mounted' = mounted
          /\ prior' = [prior EXCEPT ![h] = IF disk["active"][h].files = @ THEN NoFiles ELSE @]
       \/ /\ due' = [due EXCEPT ![h] = 0] /\ mounted' = mounted
          /\ UNCHANGED <<rv, promised, prior>>

LEMMA MountFacts ==
    ASSUME BootInd, MountSucceeds \/ MountFails \/ NoLoopDevice
    PROVE  MountEffect /\ faults' \in 0..MAX_FAULT
<1>0. faults \in 0..MAX_FAULT
  BY WorkerFacts
<1>1. CASE MountSucceeds
  BY <1>0, <1>1 DEF MountSucceeds, MountEffect, historyVars, At
<1>2. CASE MountFails
  BY <1>0, <1>2 DEF MountFails, MountEffect, StartRevert, wkAlone, wkQuiet, At
<1>3. CASE NoLoopDevice
  BY <1>0, <1>3, FaultType DEF NoLoopDevice, MountEffect, historyVars, wkQuiet
<1> QED
  BY <1>1, <1>2, <1>3

LEMMA MountInd ==
    ASSUME BootInd, MountSucceeds \/ MountFails \/ NoLoopDevice
    PROVE  BootInd'
<1> DEFINE h == wk.hmp
<1>0. /\ MountEffect /\ faults' \in 0..MAX_FAULT /\ h \in Hmps /\ NoFiles \in Files /\ 0 \in File
      /\ promised \in [Hmps -> File] /\ prior \in [Hmps -> Files] /\ due \in [Hmps -> File]
      /\ cut \subseteq Hmps
  BY MountFacts, WorkerFacts, NoFilesFacts DEF HistoryTypes, File
<1>1. HistoryTypes'
  BY <1>0 DEF MountEffect, GiveUp, HistoryTypes
<1>2. mounted' \in [Hmps -> MountType]
  <2>1. wk.src \in {"pre", "active"} /\ disk["active"][h].files \in Files
    BY WorkerFacts, DirFacts DEF WorkerType
  <2>2. [f \in FileName |-> pre[h]] \in Files
    BY <1>0, WorkerFacts DEF Files, File
  <2> QED
    BY <1>0, <2>1, <2>2, WorkerFacts DEF MountEffect, MountType
<1>3. rv' \in RevertType /\ (rv'.pc = "idle" => rv' = NoRevert)
  BY <1>0, IdleTypes DEF MountEffect, RevertType
<1>4. wk' \in WorkerType /\ wk'.pc = "idle"
  BY <1>0, IdleTypes DEF MountEffect
<1>5. Staging'
  BY <1>4 DEF Staging
<1> QED
  BY <1>0, <1>1, <1>2, <1>3, <1>4, <1>5, WorkerFacts, WorkerKeeps DEF MountEffect

TakeEffect(h) ==
    /\ phase = "boot" /\ wk.pc = "idle" /\ rv = NoRevert
    /\ h \in tasks /\ tasks' = tasks \ {h}
    /\ wk'.pc = "choose" /\ wk'.hmp = h /\ wk'.repo = Repository(h)
    /\ UNCHANGED <<disk, pre, phase, reboot, mounted, req, installModule, workDir, rv, promised, prior,
                   cut, main, faults, due>>

LEMMA TakeFacts ==
    ASSUME NEW h \in Hmps, WorkerTake(h)
    PROVE  TakeEffect(h) /\ wk' \in WorkerType
<1>1. Repository(h) \in SUBSET {"install", "active"}
  BY DEF Repository
<1>2. wk' = [NoTask EXCEPT !.pc = "choose", !.hmp = h, !.repo = Repository(h)]
  BY DEF WorkerTake
<1>3. wk' \in WorkerType /\ wk'.pc = "choose" /\ wk'.hmp = h /\ wk'.repo = Repository(h)
  BY <1>1, <1>2, IdleTypes DEF WorkerType, WorkerPC
<1> QED
  BY <1>3 DEF WorkerTake, TakeEffect, serviceVars, historyVars

LEMMA TakeInd ==
    ASSUME BootInd, NEW h \in Hmps, WorkerTake(h)
    PROVE  BootInd'
<1>0. TakeEffect(h) /\ wk' \in WorkerType
  BY TakeFacts
<1>1. Typed /\ Control /\ main # "off" /\ main = "wait" /\ req.pc = "idle"
  BY <1>0, BootIndParts DEF TakeEffect, Control
<1>2. Typed'
  BY <1>0, <1>1 DEF TakeEffect, Typed, ServiceTypes, HistoryTypes, BootTypes, DeviceTypes
<1>3. Control'
  BY <1>0, <1>1 DEF TakeEffect, Control, InstallPC
<1>4. Staging'
  <2>1. Repository(h)' = Repository(h)
    BY <1>0 DEF TakeEffect, Repository, At
  <2> QED
    BY <1>0, <2>1 DEF TakeEffect, Staging, Repository, At
<1> QED
  BY <1>2, <1>3, <1>4, TypedNext DEF BootInd

(***************************************************************************)
(* The main thread of the check, and power.                                *)
(***************************************************************************)
\* The device goes down: what is in memory is lost.
DownEffect ==
    /\ phase # "down" /\ phase' = "down" /\ ~reboot' /\ mounted' = [h \in Hmps |-> NotMounted]
    /\ req' = NoRequest /\ rv' = NoRevert /\ wk' = NoTask /\ main' = "off" /\ tasks' = {}
    /\ cut' = cut \cup Copying /\ due' = [h \in Hmps |-> 0]
    /\ UNCHANGED <<disk, pre, promised, prior>>

LEMMA PowerInd ==
    ASSUME BootInd, Reboot \/ Restart \/ Crash
    PROVE  BootInd' /\ DownEffect
<1>0. Typed /\ Control
  BY BootIndParts
<1>1. PowerOff /\ faults' \in 0..MAX_FAULT
  BY <1>0, FaultType DEF Reboot, Restart, Crash, Typed, DeviceTypes
<1>2. DownEffect
  BY <1>1 DEF PowerOff, DownEffect
<1>3. Copying \subseteq Hmps
  BY <1>0 DEF Copying, Typed, BootTypes, ServiceTypes, WorkerType, RequestType
<1>4. Typed'
  <2>1. ServiceTypes'
    BY <1>1, IdleTypes DEF PowerOff, ServiceTypes
  <2>2. HistoryTypes'
    BY <1>0, <1>2, <1>3 DEF DownEffect, HistoryTypes, Typed, File
  <2>3. BootTypes'
    BY <1>2, IdleTypes DEF DownEffect, BootTypes, MainPC
  <2>4. DeviceTypes' /\ disk' \in Disks
    BY <1>0, <1>1, <1>2, IdleTypes DEF DownEffect, DeviceTypes, Typed, PowerOff
  <2> QED
    BY <2>1, <2>2, <2>3, <2>4 DEF Typed
<1>5. Control'
  BY <1>2, IdleTypes DEF DownEffect, Control, InstallPC
<1>6. Staging'
  BY <1>2, IdleTypes DEF DownEffect, Staging
<1> QED
  BY <1>2, <1>4, <1>5, <1>6, TypedNext DEF BootInd

LEMMA MainInd ==
    ASSUME BootInd, MainNext
    PROVE  BootInd'
<1>0. Typed /\ Control /\ Staging /\ disk \in Disks /\ faults \in 0..MAX_FAULT
  BY BootIndParts DEF Typed, DeviceTypes
<1>1. /\ UNCHANGED <<pre, reboot, mounted, req, installModule, workDir, rv, promised, prior, cut, wk>>
      /\ disk' \in Disks /\ faults' \in 0..MAX_FAULT
  <2>1. CASE PowerOn \/ MainWait \/ MainJoin
    BY <1>0, <2>1 DEF PowerOn, MainWait, MainJoin, serviceVars, historyVars
  <2>2. CASE MainClean
    <3>1. PICK h \in Hmps : RemoveStep("install", h)
      BY <2>2 DEF MainClean
    <3>2. Shrinks("install", h)
      BY <1>0, <3>1, RemoveStepFacts DEF Place
    <3> QED
      BY <1>0, <2>2, <3>2 DEF MainClean, Shrinks, Changed, serviceVars, historyVars, bootVars
  <2>3. CASE MainDone
    BY <1>0, <2>3, FaultType DEF MainDone, serviceVars, historyVars
  <2> QED
    BY <2>1, <2>2, <2>3 DEF MainNext
<1>2. /\ phase' \in {"boot", "up"} /\ main' \in MainPC /\ tasks' \subseteq Hmps
      /\ due' \in [Hmps -> File]
  BY <1>0 DEF MainNext, PowerOn, MainWait, MainJoin, MainClean, MainDone, MainPC, Typed, BootTypes,
     DeviceTypes, HistoryTypes, Control, bootVars
<1>3. Typed'
  BY <1>0, <1>1, <1>2 DEF Typed, ServiceTypes, HistoryTypes, BootTypes, DeviceTypes
<1>4. Control'
  BY <1>0, <1>1, StoreAssumption
  DEF MainNext, PowerOn, MainWait, MainJoin, MainClean, MainDone, Control, bootVars, Typed,
     DeviceTypes, BootTypes, MainPC, InstallPC
<1>5. Staging'
  <2>1. wk.pc = "idle" \/ (disk' = disk)
    BY <1>0 DEF MainNext, PowerOn, MainWait, MainJoin, MainClean, MainDone, Control
  <2> QED
    BY <1>0, <1>1, <2>1 DEF Staging, Repository, At
<1> QED
  BY <1>3, <1>4, <1>5, TypedNext DEF BootInd

LEMMA UpdateInd ==
    ASSUME BootInd, NEW v \in Versions, SystemUpdate(v)
    PROVE  BootInd'
<1>0. Typed /\ Control /\ Staging /\ phase = "down"
  BY BootIndParts DEF SystemUpdate
<1>1. /\ UNCHANGED <<disk, phase, reboot, mounted, req, installModule, workDir, rv, prior, cut>>
      /\ UNCHANGED <<main, tasks, wk, faults, due>>
  BY DEF SystemUpdate, serviceVars, bootVars
<1>2. pre' \in [Hmps -> Versions] /\ promised' \in [Hmps -> File]
  BY <1>0 DEF SystemUpdate, Typed, HistoryTypes, File
<1>3. Typed'
  BY <1>0, <1>1, <1>2 DEF Typed, ServiceTypes, HistoryTypes, BootTypes, DeviceTypes
<1>4. Control' /\ Staging'
  BY <1>0, <1>1 DEF Control, Staging
<1> QED
  BY <1>3, <1>4, TypedNext DEF BootInd

LEMMA InitInd == BootInit => BootInd
<1> SUFFICES ASSUME BootInit PROVE BootInd
  OBVIOUS
<1>1. Typed
  <2>1. disk \in Disks
    BY NoDirFacts DEF BootInit, Disks
  <2>2. ServiceTypes /\ BootTypes
    BY IdleTypes DEF BootInit, ServiceTypes, BootTypes, MainPC
  <2>3. HistoryTypes
    BY NoFilesFacts DEF BootInit, HistoryTypes, File
  <2>4. DeviceTypes
    <3>1. 0 \in 0..MAX_FAULT /\ PRE \in Versions
      BY StoreAssumption
    <3> QED
      BY <3>1, IdleTypes DEF BootInit, DeviceTypes
  <2> QED
    BY <2>1, <2>2, <2>3, <2>4 DEF Typed
<1>2. Control /\ Staging
  BY IdleTypes DEF BootInit, Control, Staging, InstallPC
<1> QED
  BY <1>1, <1>2, TypedIs DEF BootInd

LEMMA WorkerInd ==
    ASSUME BootInd, WorkerNext
    PROVE  BootInd'
BY TakeInd, StageInd, ChooseFacts, ClearInd, MountInd DEF WorkerNext

LEMMA NextInd ==
    ASSUME BootInd, [BootNext]_vars
    PROVE  BootInd'
<1>1. CASE UNCHANGED vars
  <2>1. UNCHANGED <<disk, pre, phase, reboot, mounted, req, installModule, workDir, rv, promised, prior,
                    cut, main, tasks, wk, faults, due>>
    BY <1>1 DEF vars, serviceVars, historyVars, bootVars
  <2>2. Typed /\ Control /\ Staging
    BY BootIndParts
  <2>3. Typed'
    BY <2>1, <2>2 DEF Typed, ServiceTypes, HistoryTypes, BootTypes, DeviceTypes
  <2>4. Control' /\ Staging'
    BY <2>1, <2>2 DEF Control, Staging, Repository, At
  <2> QED
    BY <2>3, <2>4, TypedNext DEF BootInd
<1>2. CASE BootNext
  BY <1>2, WorkerInd, MainInd, RevertInd, ServiceInd, MonitorInd, PowerInd, UpdateInd DEF BootNext
<1> QED
  BY <1>1, <1>2
-----------------------------------------------------------------------------
(***************************************************************************)
(* The package before the last install survives.                           *)
(***************************************************************************)
\* Nothing that Survives(h) speaks of gets worse.
Spared(h) ==
    /\ prior'[h] = prior[h] /\ promised'[h] = promised[h]
    /\ \A p \in Place : disk'[p][h] = disk[p][h]
    /\ Requested(h)' => Requested(h)
    /\ Reverting(h)' => Reverting(h) /\ (rv'.pc # "install" => rv.pc # "install")
    /\ (Working(h) /\ wk.pc \in {"clrActive", "clrBackup"})' =>
          Working(h) /\ wk.pc \in {"clrActive", "clrBackup"}
    /\ Pending(h) => Pending(h)'

LEMMA SparedSurvives ==
    ASSUME NEW h \in Hmps, Survives(h), Spared(h)
    PROVE  Survives(h)'
<1>1. /\ disk'["install"][h] = disk["install"][h] /\ disk'["active"][h] = disk["active"][h]
      /\ disk'["backup"][h] = disk["backup"][h]
  BY DEF Spared, Place
<1> QED
  BY <1>1 DEF Survives, Spared, At

\* Without a package to keep there is nothing to show.
LEMMA NothingToKeep ==
    ASSUME NEW h \in Hmps, prior'[h] = NoFiles
    PROVE  Survives(h)'
BY DEF Survives

\* Outside of a link step of a lone request, the backup is not in question.
LEMMA BackedUpKept ==
    ASSUME BackedUp, ~req'.alone \/ req'.pc \notin {"link", "verity"}
    PROVE  BackedUp'
BY DEF BackedUp

\* The parts of Survives, over the files of the directories.
LEMMA SurvivesFacts ==
    ASSUME BootInd, NEW h \in Hmps, Survives(h), prior[h] # NoFiles
    PROVE  /\ prior[h]["info"] # 0 /\ prior[h]["img"] # 0
           /\ disk["backup"][h].files = prior[h] => disk["backup"][h].there
           /\ disk["active"][h].files = prior[h] => Openable(disk["active"][h])
           /\ Reverting(h) \/ promised[h] # 0 \/ Openable(disk["install"][h]) =>
                 disk["backup"][h].files = prior[h]
           /\ \/ disk["backup"][h].files = prior[h]
              \/ disk["active"][h].files = prior[h] /\ promised[h] = 0
<1>1. disk["backup"][h] \in GoodDir /\ disk["active"][h] \in GoodDir
  BY WorkerFacts
<1>2. prior[h]["info"] # 0 /\ prior[h]["img"] # 0
  BY DEF Survives, FileName
<1> QED
  BY <1>1, <1>2, DirFacts DEF Survives, At

LEMMA RevertSurvive ==
    ASSUME BootInd, SurviveInd, RevertNext, UNCHANGED <<bootVars, due>>
    PROVE  SurviveInd'
<1>r. PICK r \in Hmps : r = rv.hmp
  BY RevertEffect
<1>0. /\ rv.pc # "idle" /\ r \in Hmps /\ OnlyHmp(r)
      /\ RevertRemoves \/ RevertGoes \/ RevertMoves
      /\ UNCHANGED <<phase, req, promised, prior, wk, tasks>>
      /\ rv' \in RevertType /\ (rv'.pc = "idle" => rv' = NoRevert) /\ (rv'.pc # "idle" => rv'.hmp = r)
      /\ disk \in Disks /\ rv \in RevertType
  BY <1>r, RevertEffect, RevertControl, RequestFacts DEF serviceVars, historyVars, bootVars
<1>1. BackedUp'
  <2>1. req.alone => req.pc \notin {"link", "verity"}
    BY <1>r, <1>0, RequestFacts, IdleTypes DEF InstallPC
  <2> QED
    BY <1>r, <1>0, <2>1, BackedUpKept DEF SurviveInd
<1>2. ASSUME NEW h \in Hmps, h # r PROVE Survives(h)'
  <2>1. Spared(h)
    BY <1>r, <1>0, <1>2 DEF Spared, OnlyHmp, Requested, Reverting, Working, Pending
  <2> QED
    BY <2>1, SparedSurvives DEF SurviveInd
<1>3. ASSUME prior[r] # NoFiles PROVE Survives(r)'
  <2>0. Survives(r) /\ Reverting(r)
    BY <1>r, <1>0 DEF SurviveInd, Reverting
  <2>1. /\ disk["backup"][r].files = prior[r] /\ disk["backup"][r].there
        /\ promised[r] = 0 /\ ~Requested(r)
        /\ ~(Working(r) /\ wk.pc \in {"clrActive", "clrBackup"})
        /\ rv.pc # "install" => ~disk["install"][r].there
        /\ \A f \in FileName : prior[r][f] # 0
    BY <1>r, <1>0, <1>3, <2>0, SurvivesFacts DEF Survives, At
  <2>2. /\ prior'[r] = prior[r] /\ promised'[r] = 0 /\ ~Requested(r)'
        /\ ~(Working(r) /\ wk.pc \in {"clrActive", "clrBackup"})'
    BY <1>r, <1>0, <2>1 DEF Requested, Working
  <2>3. CASE RevertRemoves
    <3>1. /\ disk'["backup"][r] = disk["backup"][r] /\ rv' = rv
          /\ rv.pc # "install" => disk'["install"][r] = disk["install"][r]
      BY <1>r, <1>0, <2>3 DEF RevertRemoves, Shrinks, Changed, Place
    <3> QED
      BY <2>1, <2>2, <3>1 DEF Survives, Reverting, At
  <2>4. CASE RevertGoes
    <3>1. /\ disk' = disk /\ (rv'.pc \in {"idle", "rename"} \/ ~disk["install"][r].there)
          /\ rv'.pc # "idle" => rv.pc # "install" \/ ~disk["install"][r].there
      BY <1>r, <1>0, <2>4, IdleTypes DEF RevertGoes, RevertType
    <3> QED
      BY <2>1, <2>2, <3>1 DEF Survives, Reverting, At
  <2>5. CASE RevertMoves
    <3>1. /\ rv'.pc = "idle" /\ disk'["active"][r] = disk["backup"][r]
          /\ disk'["install"][r] = disk["install"][r] /\ ~disk["install"][r].there
      BY <1>r, <1>0, <2>1, <2>5, IdleTypes DEF RevertMoves
    <3> QED
      BY <2>1, <2>2, <3>1 DEF Survives, Reverting, Openable, At
  <2> QED
    BY <1>r, <1>0, <2>3, <2>4, <2>5
<1>4. ASSUME prior[r] = NoFiles PROVE Survives(r)'
  BY <1>r, <1>0, <1>4, NothingToKeep
<1> QED
  BY <1>1, <1>2, <1>3, <1>4 DEF SurviveInd

\* The steps of a request: it works on an hmp without a package to keep.
LEMMA RequestSpares ==
    ASSUME BootInd, SurviveInd, req.pc # "idle", OnlyHmp(req.hmp),
           UNCHANGED <<phase, rv, promised, prior, wk, tasks>>,
           req'.pc = "idle" \/ req'.hmp = req.hmp
    PROVE  \A h \in Hmps : Survives(h)'
<1> SUFFICES ASSUME NEW h \in Hmps PROVE Survives(h)'
  OBVIOUS
<1>1. CASE h = req.hmp
  <2>1. prior[h] = NoFiles
    BY <1>1 DEF SurviveInd, Survives, Requested
  <2> QED
    BY <2>1, NothingToKeep
<1>2. CASE h # req.hmp
  <2>1. Spared(h)
    BY <1>2 DEF Spared, OnlyHmp, Requested, Reverting, Working, Pending
  <2> QED
    BY <2>1, SparedSurvives DEF SurviveInd
<1> QED
  BY <1>1, <1>2

\* A request begins on h, whose earlier package is given up.
LEMMA BeginSpares ==
    ASSUME BootInd, SurviveInd, NEW r \in Hmps, OnlyHmp(r), req'.hmp = r,
           req'.pc \notin {"link", "verity"},
           promised' = [promised EXCEPT ![r] = 0], prior' = [prior EXCEPT ![r] = NoFiles],
           UNCHANGED <<phase, rv, wk, tasks>>
    PROVE  SurviveInd'
<1>0. promised \in [Hmps -> File] /\ prior \in [Hmps -> Files]
  BY WorkerFacts DEF HistoryTypes
<1>1. BackedUp'
  BY BackedUpKept DEF SurviveInd
<1>2. ASSUME NEW h \in Hmps PROVE Survives(h)'
  <2>1. CASE h = r
    BY <1>0, <2>1, NothingToKeep
  <2>2. CASE h # r
    <3>1. Spared(h)
      BY <1>0, <2>2 DEF Spared, OnlyHmp, Requested, Reverting, Working, Pending
    <3> QED
      BY <3>1, SparedSurvives DEF SurviveInd
  <2> QED
    BY <2>1, <2>2
<1> QED
  BY <1>1, <1>2 DEF SurviveInd

LEMMA ChangedOnly == ASSUME NEW p, NEW h, Changed(p, h) PROVE OnlyHmp(h)
BY DEF Changed, OnlyHmp

LEMMA ServiceSurvive ==
    ASSUME BootInd, SurviveInd, ServiceNext, UNCHANGED <<bootVars, due>>
    PROVE  SurviveInd'
<1>r. PICK r \in Hmps : r = req.hmp
  BY RequestFacts
<1>0. /\ UNCHANGED <<wk, tasks>> /\ disk \in Disks /\ BackedUp
      /\ \A p \in Place : disk[p][r] \in GoodDir
      /\ {"install", "active", "backup"} = Place /\ req \in RequestType
      /\ promised \in [Hmps -> File] /\ prior \in [Hmps -> Files]
  BY RequestFacts, WorkerFacts DEF bootVars, SurviveInd, HistoryTypes
<1>1. ASSUME NEW h \in Hmps, NEW p \in Packages, InstallBegin(h, p) PROVE SurviveInd'
  <2>1. BeginEffect(h, p)
    BY <1>1, BeginFacts
  <2> QED
    BY <1>0, <2>1, BeginSpares, ChangedOnly DEF BeginEffect
<1>2. CASE InstallExtract
  <2>1. PICK f \in FileName : ExtractEffect(f)
    BY <1>2, ExtractFacts
  <2>2. OnlyHmp(req.hmp) /\ req'.pc \notin {"link", "verity"}
    BY <2>1, ChangedOnly DEF ExtractEffect, Wrote
  <2> QED
    BY <1>0, <2>1, <2>2, RequestSpares, BackedUpKept DEF ExtractEffect, SurviveInd
<1>3. CASE InstallModuleFile
  <2>1. ModuleFileEffect
    BY <1>3, ModuleFileFacts
  <2>2. OnlyHmp(req.hmp) /\ req'.pc \notin {"link", "verity"}
    BY <2>1, ChangedOnly DEF ModuleFileEffect
  <2> QED
    BY <1>0, <2>1, <2>2, RequestSpares, BackedUpKept DEF ModuleFileEffect, SurviveInd
<1>4. CASE BackupRemove /\ ~disk["backup"][req.hmp].there
  <2>1. ListEffect
    BY <1>4, ListFacts
  <2>2. OnlyHmp(req.hmp) /\ disk'["active"][r] = disk["active"][r] /\ req'.hmp = r
    BY <1>r, <1>0, <2>1, ChangedOnly DEF ListEffect, Made, Changed
  <2>3. \A f \in FileName : disk["active"][r].files[f] = 0 \/ f \in req'.todo
    BY <1>r, <2>1 DEF ListEffect, Present
  <2>4. req'.pc = "link" \/ req'.todo = {}
    BY <2>1 DEF ListEffect
  <2>5. BackedUp'
    BY <2>2, <2>3, <2>4 DEF BackedUp, At
  <2> QED
    BY <1>0, <2>1, <2>2, <2>5, RequestSpares DEF ListEffect, SurviveInd
<1>5. CASE BackupFile
  <2>1. PICK f \in FileName : LinkEffect(f)
    BY <1>5, LinkFacts
  <2>2. CASE disk' = disk /\ req'.pc = "bkUndo"
    <3>1. OnlyHmp(req.hmp)
      BY <1>0, <2>2 DEF OnlyHmp
    <3> QED
      BY <1>0, <2>1, <2>2, <3>1, RequestSpares, BackedUpKept DEF LinkEffect, SurviveInd
  <2>3. CASE ~(disk' = disk /\ req'.pc = "bkUndo")
    <3>1. /\ Wrote("backup", r, f, disk["active"][r].files[f])
          /\ req'.pc = (IF req.todo = {f} THEN "verity" ELSE "link")
          /\ req'.todo = req.todo \ {f} /\ req'.alone = req.alone /\ req'.hmp = r /\ req.pc = "link"
      BY <1>r, <2>1, <2>3 DEF LinkEffect
    <3>2. OnlyHmp(r) /\ disk'["active"][r] = disk["active"][r]
      BY <1>0, <3>1, ChangedOnly DEF Wrote, Changed
    <3>3. ASSUME req.alone, NEW g \in FileName
          PROVE  \/ disk'["active"][r].files[g] = 0
                 \/ req'.pc = "link" /\ g \in req'.todo
                 \/ disk'["backup"][r].files[g] = disk'["active"][r].files[g]
      <4>1. CASE g = f
        BY <3>1, <3>2, <4>1 DEF Wrote
      <4>2. CASE g # f
        <5>1. \/ disk["active"][r].files[g] = 0 \/ g \in req.todo
              \/ disk["backup"][r].files[g] = disk["active"][r].files[g]
          BY <1>r, <1>0, <3>1, <3>3 DEF BackedUp, At
        <5>2. disk'["backup"][r].files[g] = disk["backup"][r].files[g]
          BY <3>1, <4>2 DEF Wrote
        <5> QED
          BY <3>1, <3>2, <4>2, <5>1, <5>2
      <4> QED
        BY <4>1, <4>2
    <3>4. BackedUp'
      BY <3>1, <3>3 DEF BackedUp, At
    <3> QED
      BY <1>r, <1>0, <2>1, <3>1, <3>2, <3>4, RequestSpares DEF LinkEffect, SurviveInd
  <2> QED
    BY <2>2, <2>3
<1>6. CASE InstallFinish
  <2>1. FinishEffect
    BY <1>6, FinishFacts
  <2>2. /\ OnlyHmp(r) /\ req' = NoRequest /\ disk'["active"][r].files = disk["active"][r].files
        /\ disk'["active"][r].there /\ disk'["backup"][r] = disk["backup"][r] /\ phase = "up"
    BY <1>r, <1>0, <2>1, ChangedOnly, RequestFacts DEF FinishEffect, Made, Changed
  <2>3. BackedUp'
    BY <2>2, IdleTypes, BackedUpKept DEF SurviveInd
  <2>4. ASSUME NEW h \in Hmps, h # r PROVE Survives(h)'
    <3>1. Spared(h)
      BY <1>r, <1>0, <2>1, <2>2, <2>4, IdleTypes
      DEF FinishEffect, Spared, OnlyHmp, Requested, Reverting, Working, Pending
    <3> QED
      BY <3>1, SparedSurvives DEF SurviveInd
  <2>5. ASSUME req.alone, Openable(disk["active"][r]) PROVE Survives(r)'
    <3>1. prior'[r] = disk["active"][r].files
      BY <1>r, <1>0, <2>1, <2>5 DEF FinishEffect
    <3>2. /\ disk["active"][r].files["info"] # 0 /\ disk["active"][r].files["img"] # 0
          /\ disk["active"][r].files \in Files /\ disk["backup"][r].files \in Files
      BY <1>0, <2>5, DirFacts
    <3>3. \A f \in FileName : disk["backup"][r].files[f] = disk["active"][r].files[f]
      BY <1>r, <1>0, <2>1, <2>5, <3>2 DEF BackedUp, FinishEffect, At, FileName
    <3>4. disk["backup"][r].files = disk["active"][r].files
      BY <3>2, <3>3, FilesEqual DEF FileName
    <3>5. rv' = NoRevert /\ wk'.pc = "idle"
      BY <1>0, <2>1, <2>2, <2>5, RequestFacts DEF FinishEffect, InstallPC, Control
    <3>6. ~Reverting(r)' /\ ~Working(r)' /\ ~Requested(r)'
      BY <2>2, <3>5, IdleTypes DEF Reverting, Working, Requested
    <3>7. Openable(disk'["active"][r])
      <4>1. disk'["active"][r] \in GoodDir
        BY <1>0, <2>2 DEF OnlyHmp, Disks
      <4> QED
        BY <2>2, <3>2, <4>1, DirFacts
    <3>8. disk'["backup"][r].files = prior'[r] /\ \A f \in FileName : prior'[r][f] # 0
      BY <2>2, <3>1, <3>2, <3>4 DEF FileName
    <3> QED
      BY <3>6, <3>7, <3>8 DEF Survives, At
  <2>6. ASSUME ~(req.alone /\ Openable(disk["active"][r])) PROVE Survives(r)'
    <3>1. prior'[r] = NoFiles
      BY <1>r, <1>0, <2>1, <2>6 DEF FinishEffect
    <3> QED
      BY <3>1, NothingToKeep
  <2> QED
    BY <2>3, <2>4, <2>5, <2>6 DEF SurviveInd
<1>7. ASSUME NEW h \in Hmps, UninstallBegin(h) PROVE SurviveInd'
  <2>1. UninstallEffect(h)
    BY <1>7, UninstallFacts
  <2>2. OnlyHmp(h)
    BY <1>0, <2>1 DEF UninstallEffect, OnlyHmp
  <2> QED
    BY <1>0, <2>1, <2>2, BeginSpares DEF UninstallEffect
<1>8. CASE QueryVersions \/ ServiceExit
  <2>1. UNCHANGED <<disk, phase, req, rv, promised, prior>> /\ req.pc = "idle"
    BY <1>8 DEF QueryVersions, ServiceExit, historyVars
  <2>2. \A h \in Hmps : Spared(h)
    BY <1>0, <2>1 DEF Spared, Requested, Reverting, Working, Pending
  <2> QED
    BY <2>1, <2>2, SparedSurvives, BackedUpKept DEF SurviveInd
<1>9. CASE InstallPrepare \/ (BackupRemove /\ disk["backup"][req.hmp].there) \/ BackupUndo
            \/ InstallFails \/ InstallUndo \/ UninstallStep \/ RemovalFails
  <2>1. CASE ReqRemoves
    <3>1. OnlyHmp(req.hmp) /\ req.pc # "idle" /\ req' = req /\ req.pc \notin {"link", "verity"}
      BY <2>1, ChangedOnly DEF ReqRemoves, Removed, Shrinks
    <3> QED
      BY <1>0, <2>1, <3>1, RequestSpares, BackedUpKept DEF ReqRemoves, SurviveInd
  <2>2. CASE ReqGoes
    <3>1. OnlyHmp(req.hmp) /\ req.pc # "idle" /\ (req'.pc = "idle" \/ req'.hmp = req.hmp)
      BY <1>0, <2>2, IdleTypes DEF ReqGoes, OnlyHmp, RequestType, UninstallPlace
    <3>2. req'.pc # "link"
      BY <2>2, IdleTypes DEF ReqGoes, UninstallPlace, AfterRemoval
    <3>3. req'.pc = "verity" => req'.hmp = r /\ ~disk'["active"][r].there
      BY <1>r, <1>0, <2>2, IdleTypes DEF ReqGoes, UninstallPlace, AfterRemoval, RequestType
    <3>4. disk' = disk
      BY <2>2 DEF ReqGoes
    <3>5. ~disk["active"][r].there => \A f \in FileName : disk["active"][r].files[f] = 0
      BY <1>0, DirFacts DEF FileName
    <3>6. BackedUp'
      BY <3>2, <3>3, <3>4, <3>5 DEF BackedUp, At
    <3> QED
      BY <1>0, <2>2, <3>1, <3>6, RequestSpares DEF ReqGoes, SurviveInd
  <2> QED
    BY <1>9, <2>1, <2>2, ReqQuiet
<1> QED
  BY <1>1, <1>2, <1>3, <1>4, <1>5, <1>6, <1>7, <1>8, <1>9 DEF ServiceNext, InstallNext

\* A revert of r begins: the package to keep is in the backup, or has been reverted to already.
LEMMA RevertBegins ==
    ASSUME BootInd, NEW r \in Hmps, Survives(r), rv'.pc = "install", promised'[r] = 0,
           prior'[r] = (IF promised[r] = 0 /\ disk["active"][r].files = prior[r] THEN NoFiles
                                                                               ELSE prior[r])
              \/ prior'[r] = (IF disk["active"][r].files = prior[r] THEN NoFiles ELSE prior[r]),
           \A p \in Place : disk'[p][r] = disk[p][r], Requested(r)' => Requested(r),
           ~(Working(r) /\ wk.pc \in {"clrActive", "clrBackup"})'
    PROVE  Survives(r)'
<1>1. CASE prior'[r] = NoFiles
  BY <1>1, NothingToKeep
<1>2. CASE prior'[r] # NoFiles
  <2>1. prior'[r] = prior[r] /\ prior[r] # NoFiles
    BY <1>2
  <2>2. disk["backup"][r].files = prior[r]
    BY <1>2, <2>1, SurvivesFacts
  <2>3. ~Requested(r) /\ \A f \in FileName : prior[r][f] # 0
    BY <2>1 DEF Survives
  <2>4. disk'["backup"][r].files = prior[r]
    BY <2>2, WorkerFacts
  <2> QED
    BY <2>1, <2>3, <2>4 DEF Survives, At
<1> QED
  BY <1>1, <1>2

LEMMA MonitorSurvive ==
    ASSUME BootInd, SurviveInd, MonitorRevert, UNCHANGED <<bootVars, due>>
    PROVE  SurviveInd'
<1>0. /\ promised \in [Hmps -> File] /\ prior \in [Hmps -> Files] /\ req \in RequestType
      /\ First \in Hmps /\ wk.pc = "idle"
  BY StoreAssumption, WorkerFacts, RequestFacts DEF HistoryTypes, MonitorRevert, Control
<1>1. /\ UNCHANGED <<disk, phase, wk, tasks>> /\ rv'.pc = "install" /\ rv'.hmp = First
      /\ req'.pc = req.pc /\ req'.hmp = req.hmp /\ ~req'.alone
  BY <1>0 DEF MonitorRevert, StartRevert, bootVars, RequestType
<1>2. ASSUME NEW h \in Hmps, h # First PROVE Survives(h)'
  <2>1. Spared(h)
    BY <1>0, <1>1, <1>2 DEF MonitorRevert, Spared, Requested, Reverting, Working, Pending
  <2> QED
    BY <2>1, SparedSurvives DEF SurviveInd
<1>3. Survives(First)'
  <2>1. /\ promised'[First] = 0
        /\ prior'[First] = IF promised[First] = 0 /\ disk["active"][First].files = prior[First]
                           THEN NoFiles ELSE prior[First]
    BY <1>0 DEF MonitorRevert, At
  <2>2. /\ Requested(First)' => Requested(First)
        /\ ~(Working(First) /\ wk.pc \in {"clrActive", "clrBackup"})'
    BY <1>0, <1>1 DEF Requested, Working
  <2> QED
    BY <1>0, <1>1, <2>1, <2>2, RevertBegins DEF SurviveInd
<1>4. BackedUp'
  BY <1>1, BackedUpKept DEF SurviveInd
<1> QED
  BY <1>2, <1>3, <1>4 DEF SurviveInd

\* The worker has an hmp at hand; the others are spared.
LEMMA WorkerSpares ==
    ASSUME BootInd, SurviveInd, wk.pc # "idle", OnlyHmp(wk.hmp),
           UNCHANGED <<phase, req, tasks>>, wk'.pc = "idle" \/ wk'.hmp = wk.hmp,
           rv' = rv \/ rv'.hmp = wk.hmp,
           NEW h \in Hmps, h # wk.hmp, promised'[h] = promised[h], prior'[h] = prior[h]
    PROVE  Survives(h)'
<1>1. Spared(h)
  BY DEF Spared, OnlyHmp, Requested, Reverting, Working, Pending
<1> QED
  BY <1>1, SparedSurvives DEF SurviveInd

LEMMA WorkerBackedUp ==
    ASSUME BootInd, SurviveInd, phase = "boot", req' = req
    PROVE  BackedUp'
BY BackedUpKept, RequestFacts DEF SurviveInd, Control

LEMMA SystemSurvive ==
    ASSUME BootInd, SurviveInd, wk.pc \in {"choose", "link", "staged"}, UseSystem(wk.hmp),
           UNCHANGED <<disk, wkQuiet>>,
           \A h \in Hmps : h # wk.hmp => promised'[h] = promised[h],
           promised'[wk.hmp] \in {promised[wk.hmp], 0}
    PROVE  SurviveInd'
<1>r. PICK r \in Hmps : r = wk.hmp
  BY WorkerFacts
<1>0. /\ SystemEffect(wk.hmp) /\ prior \in [Hmps -> Files] /\ disk \in Disks /\ rv = NoRevert
      /\ UNCHANGED <<phase, req, tasks>> /\ phase = "boot"
  BY SystemFacts, WorkerFacts DEF HistoryTypes, wkQuiet, serviceVars
<1>1. OnlyHmp(wk.hmp) /\ wk'.hmp = wk.hmp /\ (rv' = rv \/ rv'.hmp = wk.hmp)
  BY <1>0 DEF OnlyHmp, SystemEffect
<1>2. ASSUME NEW h \in Hmps, h # r PROVE Survives(h)'
  <2>1. prior'[h] = prior[h]
    BY <1>r, <1>0, <1>2 DEF SystemEffect
  <2> QED
    BY <1>r, <1>0, <1>1, <1>2, <2>1, WorkerSpares
<1>3. Survives(r)'
  <2>1. CASE prior'[r] = NoFiles
    BY <2>1, NothingToKeep
  <2>2. CASE prior'[r] # NoFiles
    <3>1. /\ disk["backup"][r].there /\ wk.repo = {} /\ prior' = prior /\ wk'.pc = "mount"
          /\ rv'.pc = "install"
      BY <1>r, <1>0, <2>2 DEF SystemEffect
    <3>2. wk.pc = "choose"
      BY <3>1, WorkerFacts DEF Staging
    <3>3. ~Openable(disk["install"][r]) /\ ~Openable(disk["active"][r])
      BY <1>r, <3>1, <3>2, WaitsFacts
    <3>4. promised[r] = 0
      BY <2>2, <3>1, <3>3 DEF SurviveInd, Survives, At
    <3>5. disk["active"][r].files # prior[r]
      BY <2>2, <3>1, <3>3, SurvivesFacts DEF SurviveInd
    <3>6. prior'[r] = IF disk["active"][r].files = prior[r] THEN NoFiles ELSE prior[r]
      BY <3>1, <3>5
    <3>7. Requested(r)' => Requested(r)
      BY <1>0 DEF Requested
    <3>8. ~(Working(r) /\ wk.pc \in {"clrActive", "clrBackup"})' /\ promised'[r] = 0
      BY <1>r, <3>1, <3>4 DEF Working
    <3> QED
      BY <1>0, <3>1, <3>6, <3>7, <3>8, RevertBegins DEF SurviveInd
  <2> QED
    BY <2>1, <2>2
<1> QED
  BY <1>0, <1>2, <1>3, WorkerBackedUp DEF SurviveInd

LEMMA WorkerSurvive ==
    ASSUME BootInd, SurviveInd, WorkerNext
    PROVE  SurviveInd'
<1>r. PICK r \in Hmps : r = wk.hmp
  BY WorkerFacts
<1>0. /\ disk \in Disks /\ {"install", "active", "backup"} = Place
      /\ promised \in [Hmps -> File] /\ prior \in [Hmps -> Files]
      /\ \A h \in Hmps : Survives(h)
  BY WorkerFacts DEF HistoryTypes, SurviveInd
<1>1. ASSUME NEW h \in Hmps, WorkerTake(h) PROVE SurviveInd'
  <2>1. TakeEffect(h)
    BY <1>1, TakeFacts
  <2>2. \A g \in Hmps : Spared(g)
    BY <2>1 DEF TakeEffect, Spared, Requested, Reverting, Working, Pending
  <2> QED
    BY <1>0, <2>1, <2>2, SparedSurvives, WorkerBackedUp DEF TakeEffect, SurviveInd
<1>2. CASE StageBegin \/ StageLink \/ StageUnlink
  <2>1. /\ StageEffect /\ UNCHANGED <<phase, req, tasks, rv, promised, prior>> /\ phase = "boot"
        /\ wk.pc \in {"choose", "link", "unlink"} /\ wk'.pc \in {"link", "unlink", "staged"}
        /\ wk'.hmp = r /\ Changed("active", r)
    BY <1>r, <1>2, StageFacts, WorkerFacts
    DEF StageEffect, BeginStageEffect, LinkStageEffect, UnlinkStageEffect, Wrote, wkAlone, wkQuiet,
        serviceVars, historyVars
  <2>2. OnlyHmp(r) /\ disk'["install"][r] = disk["install"][r] /\ disk'["backup"][r] = disk["backup"][r]
    BY <1>0, <2>1, ChangedOnly DEF Changed
  <2>3. Openable(disk["install"][r])
    BY <1>r, <2>1, WaitsFacts, WorkerFacts
    DEF StageEffect, BeginStageEffect, LinkStageEffect, UnlinkStageEffect, Staging, At
  <2>4. ASSUME NEW h \in Hmps, h # r PROVE Survives(h)'
    BY <1>r, <2>1, <2>2, <2>4, WorkerSpares
  <2>5. Survives(r)'
    <3>1. CASE prior[r] = NoFiles
      BY <2>1, <3>1, NothingToKeep
    <3>2. CASE prior[r] # NoFiles
      <4>1. /\ disk["backup"][r].files = prior[r] /\ ~Requested(r)
            /\ \A f \in FileName : prior[r][f] # 0
        BY <1>0, <2>3, <3>2, SurvivesFacts DEF Survives
      <4>2. ~Requested(r)' /\ ~Reverting(r)' /\ Pending(r)' /\ wk'.pc \notin {"clrActive", "clrBackup"}
        BY <2>1, <4>1, WorkerFacts, IdleTypes DEF Requested, Reverting, Pending, Working
      <4> QED
        BY <2>1, <2>2, <2>3, <4>1, <4>2 DEF Survives, At
    <3> QED
      BY <3>1, <3>2
  <2> QED
    BY <2>1, <2>4, <2>5, WorkerBackedUp DEF SurviveInd
<1>3. CASE StageNoDir \/ ChooseActive \/ ChooseSystem \/ StageDone \/ StageFails
  <2>0. /\ wk.pc \in {"choose", "link", "staged"}
        /\ \A h \in Hmps : h # wk.hmp => promised'[h] = promised[h]
        /\ promised'[wk.hmp] \in {promised[wk.hmp], 0}
    BY <1>3, ChooseFacts
  <2>1. CASE UseSystem(wk.hmp) /\ UNCHANGED <<disk, wkQuiet>>
    BY <2>0, <2>1, SystemSurvive
  <2>2. CASE ActiveEffect /\ UNCHANGED <<disk, wkAlone, due>>
    <3>1. /\ UNCHANGED <<disk, phase, req, tasks, rv, promised, prior>> /\ phase = "boot"
          /\ wk'.pc = "mount" /\ wk'.hmp = r /\ rv = NoRevert
      BY <1>r, <2>0, <2>2, WorkerFacts DEF ActiveEffect, wkAlone, wkQuiet, serviceVars, WorkerType
    <3>2. BootInd' /\ wk'.src = "active"
      BY <1>3, <2>2, ChooseFacts, WorkerFacts DEF ActiveEffect, WorkerType
    <3>3. Openable(disk["active"][r])
      BY <3>1, <3>2 DEF BootInd, Staging, At
    <3>4. ASSUME NEW h \in Hmps, h # r PROVE Survives(h)'
      <4>1. OnlyHmp(r)
        BY <1>0, <3>1 DEF OnlyHmp
      <4> QED
        BY <1>r, <2>0, <3>1, <3>4, <4>1, WorkerSpares
    <3>5. Survives(r)'
      <4>1. Survives(r) /\ ~Reverting(r)' /\ (Requested(r)' => Requested(r))
        BY <1>0, <3>1, IdleTypes DEF Requested, Reverting
      <4>2. wk'.pc \notin {"clrActive", "clrBackup"}
        BY <3>1
      <4> QED
        BY <3>1, <3>3, <4>1, <4>2 DEF Survives, At
    <3> QED
      BY <3>1, <3>4, <3>5, WorkerBackedUp DEF SurviveInd
  <2> QED
    BY <1>3, <2>1, <2>2, ChooseFacts
<1>4. CASE ClearActive \/ ClearBackup \/ ClearFails
  <2>0. ClearEffect /\ wk.hmp = r /\ wk \in WorkerType
    BY <1>r, <1>4, ClearFacts, WorkerFacts
  <2>a. OnlyHmp(r)
    <3>1. CASE disk' = disk
      BY <1>0, <3>1 DEF OnlyHmp
    <3>2. CASE \E p \in Place : Shrinks(p, r)
      BY <3>2, ChangedOnly DEF Shrinks
    <3> QED
      BY <1>0, <2>0, <3>1, <3>2 DEF ClearEffect
  <2>b. wk'.hmp = r
    BY <2>0 DEF ClearEffect, WorkerType
  <2>1. /\ wk.pc \in {"clrActive", "clrBackup"} /\ phase = "boot"
        /\ UNCHANGED <<phase, req, tasks, rv, promised, prior>>
    BY <2>0, WorkerFacts DEF ClearEffect, wkQuiet, serviceVars, historyVars
  <2>2. ASSUME NEW h \in Hmps, h # r PROVE Survives(h)'
    BY <1>r, <2>a, <2>b, <2>1, <2>2, WorkerSpares
  <2>3. Survives(r)'
    BY <1>r, <1>0, <2>1, NothingToKeep DEF Survives, Working
  <2> QED
    BY <2>1, <2>2, <2>3, WorkerBackedUp DEF SurviveInd
<1>5. CASE MountSucceeds \/ MountFails \/ NoLoopDevice
  <2>1. /\ MountEffect /\ OnlyHmp(r) /\ phase = "boot" /\ r \notin tasks /\ wk.pc = "mount"
        /\ UNCHANGED <<disk, phase, req, tasks>> /\ wk'.pc = "idle" /\ rv = NoRevert
    BY <1>r, <1>0, <1>5, MountFacts, WorkerFacts, IdleTypes DEF MountEffect, OnlyHmp, serviceVars
  <2>2. ASSUME NEW h \in Hmps, h # r PROVE Survives(h)'
    <3>1. promised'[h] = promised[h] /\ prior'[h] = prior[h]
      BY <1>r, <1>0, <2>1, <2>2 DEF MountEffect, GiveUp
    <3>2. rv' = rv \/ rv'.hmp = r
      BY <1>r, <2>1 DEF MountEffect
    <3> QED
      BY <1>r, <2>1, <2>2, <3>1, <3>2, WorkerSpares
  <2>3. Survives(r)'
    <3>1. CASE UNCHANGED <<rv, promised, prior>>
      <4>1. Spared(r)
        BY <1>r, <2>1, <3>1 DEF Spared, Requested, Reverting, Working, Pending
      <4> QED
        BY <1>0, <4>1, SparedSurvives
    <3>2. CASE rv'.pc = "install" /\ GiveUp(r)
              /\ prior' = [prior EXCEPT ![r] = IF disk["active"][r].files = @ THEN NoFiles ELSE @]
      <4>1. /\ promised'[r] = 0
            /\ prior'[r] = IF disk["active"][r].files = prior[r] THEN NoFiles ELSE prior[r]
        BY <1>0, <3>2 DEF GiveUp
      <4>2. /\ Requested(r)' => Requested(r)
            /\ ~(Working(r) /\ wk.pc \in {"clrActive", "clrBackup"})'
        BY <2>1 DEF Requested, Working
      <4> QED
        BY <1>0, <2>1, <3>2, <4>1, <4>2, RevertBegins
    <3> QED
      BY <1>r, <2>1, <3>1, <3>2 DEF MountEffect
  <2> QED
    BY <2>1, <2>2, <2>3, WorkerBackedUp DEF SurviveInd
<1> QED
  BY <1>1, <1>2, <1>3, <1>4, <1>5 DEF WorkerNext

LEMMA MainSurvive ==
    ASSUME BootInd, SurviveInd, MainNext
    PROVE  SurviveInd'
<1>0. /\ UNCHANGED <<req, rv, promised, prior, wk>> /\ disk \in Disks /\ Control
      /\ {"install", "active", "backup"} = Place /\ phase # "up" /\ req.pc = "idle"
  BY WorkerFacts, BootIndParts
  DEF MainNext, PowerOn, MainWait, MainJoin, MainClean, MainDone, serviceVars, historyVars, bootVars,
      Control, Typed, DeviceTypes
<1>1. BackedUp'
  BY <1>0, BackedUpKept DEF SurviveInd
<1>2. CASE PowerOn \/ MainWait \/ MainJoin \/ MainDone
  <2>1. /\ disk' = disk /\ (phase' = phase \/ phase' \in {"boot", "up"})
        /\ phase' = "boot" => tasks \subseteq tasks'
    BY <1>2, WorkerFacts
    DEF PowerOn, MainWait, MainJoin, MainDone, Typed, BootTypes
  <2>2. phase' = "boot" /\ phase # "boot" => tasks' = Hmps
    BY <1>2 DEF PowerOn, MainWait, MainJoin, MainDone
  <2>3. ASSUME NEW h \in Hmps PROVE Spared(h)
    BY <1>0, <2>1, <2>2 DEF Spared, Requested, Reverting, Working, Pending
  <2> QED
    BY <1>1, <2>3, SparedSurvives DEF SurviveInd
<1>3. CASE MainClean
  <2>1. PICK r \in Hmps : RemoveStep("install", r)
    BY <1>3 DEF MainClean
  <2>2. Shrinks("install", r) /\ phase' = phase /\ tasks' = tasks /\ main = "clean"
    BY <1>0, <1>3, <2>1, RemoveStepFacts DEF MainClean, bootVars
  <2>3. tasks = {} /\ wk.pc = "idle" /\ rv = NoRevert /\ phase = "boot"
    BY <1>0, <2>2, BootIndParts DEF Control, Typed, DeviceTypes
  <2>4. ASSUME NEW h \in Hmps, h # r PROVE Survives(h)'
    <3>1. Spared(h)
      BY <1>0, <2>2, <2>4 DEF Spared, Requested, Reverting, Working, Pending, Shrinks, Changed
    <3> QED
      BY <3>1, SparedSurvives DEF SurviveInd
  <2>5. Survives(r)'
    <3>1. /\ disk'["active"][r] = disk["active"][r] /\ disk'["backup"][r] = disk["backup"][r]
      BY <1>0, <2>2 DEF Shrinks, Changed
    <3>2. ~Openable(disk'["install"][r])
      <4>1. disk'["install"][r] \in GoodDir
        BY <1>0, <2>2 DEF Shrinks, Changed, Disks
      <4> QED
        BY <2>2, <4>1, DirFacts DEF Shrinks
    <3>3. ~Reverting(r)' /\ ~Requested(r)' /\ ~Working(r)' /\ ~Pending(r)
      BY <1>0, <2>2, <2>3, IdleTypes DEF Reverting, Requested, Working, Pending
    <3>4. Survives(r)
      BY DEF SurviveInd
    <3> QED
      BY <1>0, <3>1, <3>2, <3>3, <3>4 DEF Survives, At
  <2> QED
    BY <1>1, <2>4, <2>5 DEF SurviveInd
<1> QED
  BY <1>2, <1>3 DEF MainNext

LEMMA PowerSurvive ==
    ASSUME BootInd, SurviveInd, (Reboot \/ Restart \/ Crash) \/ \E v \in Versions : SystemUpdate(v)
    PROVE  SurviveInd'
<1>0. /\ disk' = disk /\ prior' = prior /\ phase' = "down" /\ req'.pc = "idle" /\ rv' = NoRevert
      /\ wk'.pc = "idle"
      /\ \A h \in Hmps : promised'[h] \in {promised[h], 0}
  <2>1. CASE Reboot \/ Restart \/ Crash
    BY <2>1, PowerInd, IdleTypes DEF DownEffect
  <2>2. ASSUME NEW v \in Versions, SystemUpdate(v)
        PROVE  /\ disk' = disk /\ prior' = prior /\ phase' = "down" /\ req'.pc = "idle" /\ rv' = NoRevert
               /\ wk'.pc = "idle"
               /\ \A h \in Hmps : promised'[h] \in {promised[h], 0}
    BY <2>2, BootIndParts DEF SystemUpdate, Control, serviceVars, bootVars
  <2> QED
    BY <2>1, <2>2
<1>1. BackedUp'
  BY <1>0, BackedUpKept DEF SurviveInd
<1>2. ASSUME NEW h \in Hmps PROVE Survives(h)'
  <2>1. ~Reverting(h)' /\ ~Requested(h)' /\ ~Working(h)' /\ Pending(h)'
    BY <1>0, IdleTypes DEF Reverting, Requested, Working, Pending
  <2>2. Survives(h)
    BY DEF SurviveInd
  <2> QED
    BY <1>0, <2>1, <2>2 DEF Survives, At
<1> QED
  BY <1>1, <1>2 DEF SurviveInd

LEMMA SurviveNext ==
    ASSUME BootInd, SurviveInd, [BootNext]_vars
    PROVE  SurviveInd'
<1>1. CASE UNCHANGED vars
  <2>1. UNCHANGED <<disk, phase, req, rv, promised, prior, tasks, wk>>
    BY <1>1 DEF vars, serviceVars, historyVars, bootVars
  <2>2. ASSUME NEW h \in Hmps PROVE Spared(h)
    BY <2>1 DEF Spared, Requested, Reverting, Working, Pending
  <2>3. BackedUp'
    BY <2>1 DEF SurviveInd, BackedUp, At
  <2> QED
    BY <2>2, <2>3, SparedSurvives DEF SurviveInd
<1>2. CASE BootNext
  BY <1>2, WorkerSurvive, MainSurvive, RevertSurvive, ServiceSurvive, MonitorSurvive, PowerSurvive
  DEF BootNext
<1> QED
  BY <1>1, <1>2
-----------------------------------------------------------------------------
(***************************************************************************)
(* A promise is kept.                                                      *)
(***************************************************************************)
Clears(h) == Working(h) /\ wk.pc \in {"clrActive", "clrBackup"}
Mounts(h) == Working(h) /\ wk.pc = "mount"

\* With i in the install and a in the active directory, and base preinstalled, v is chosen:
\* from a, or from i if that is still to be looked at.
Chosen(i, a, v, base, pending) ==
    /\ Newer(v, base) /\ a.there
    /\ Openable(i) => i.files["info"] = v
    /\ \/ Openable(a) /\ a.files["info"] = v
       \/ /\ Openable(i) /\ pending
          /\ Openable(a) => Newer(v, a.files["info"])

LEMMA PromisesFacts ==
    ASSUME PromiseInd, NEW h \in Hmps, promised[h] # 0
    PROVE  /\ ~Requested(h) /\ ~Reverting(h) /\ ~Clears(h) /\ (Mounts(h) => wk.src = "active")
           /\ Chosen(disk["install"][h], disk["active"][h], promised[h], pre[h], Pending(h))
BY DEF PromiseInd, Promises, Kept, Holds, At, Clears, Mounts, Chosen

LEMMA PromisesNext ==
    ASSUME NEW h \in Hmps,
           promised'[h] # 0 =>
              /\ ~Requested(h)' /\ ~Reverting(h)' /\ ~Clears(h)' /\ (Mounts(h)' => wk'.src = "active")
              /\ Chosen(disk'["install"][h], disk'["active"][h], promised'[h], pre'[h], Pending(h)')
    PROVE  Promises(h)'
BY DEF Promises, Kept, Holds, At, Clears, Mounts, Chosen

\* Nothing that the promise of h depends on changes.
Unmoved(h) ==
    /\ \A p \in Place : disk'[p][h] = disk[p][h]
    /\ promised'[h] = promised[h] /\ due'[h] = due[h] /\ mounted'[h] = mounted[h]
    /\ pre'[h] = pre[h] /\ phase' = phase
    /\ Requested(h)' => Requested(h)
    /\ Reverting(h)' => Reverting(h)
    /\ Clears(h)' => Clears(h)
    /\ Mounts(h)' => Mounts(h) /\ wk'.src = wk.src
    /\ Pending(h) => Pending(h)'
    /\ h \in tasks \/ Working(h) => h \in tasks' \/ Working(h)'

LEMMA UnmovedKept ==
    ASSUME PromiseInd, NEW h \in Hmps, Unmoved(h)
    PROVE  Promises(h)' /\ Due(h)'
<1>1. /\ disk'["install"][h] = disk["install"][h] /\ disk'["active"][h] = disk["active"][h]
  BY DEF Unmoved, Place
<1>2. Promises(h)'
  BY <1>1, PromisesFacts, PromisesNext DEF Unmoved, Chosen
<1>3. Due(h)'
  BY DEF PromiseInd, Due, Unmoved
<1> QED
  BY <1>2, <1>3

\* What is owed while the service runs is mounted already; before, it is what is promised.
LEMMA NothingPromised == ASSUME NEW h \in Hmps, promised'[h] = 0 PROVE Promises(h)'
BY DEF Promises
LEMMA NothingDue == ASSUME NEW h \in Hmps, due'[h] = 0 PROVE Due(h)'
BY DEF Due
LEMMA DueWhenUp ==
    ASSUME PromiseInd, NEW h \in Hmps, phase = "up", phase' = phase, due'[h] = due[h],
           mounted'[h] = mounted[h]
    PROVE  Due(h)'
BY DEF PromiseInd, Due
LEMMA DueIsPromised ==
    ASSUME PromiseInd, NEW h \in Hmps, phase = "boot"
    PROVE  due[h] = 0 \/ due[h] = promised[h]
BY DEF PromiseInd, Due

\* The install under way, after a step that does not touch its directories.
LEMMA UnpackingKept ==
    ASSUME Unpacking, NEW r \in Hmps, r = req.hmp, req'.pc = "verify" => req'.todo = {},
           req'.alone /\ req'.pc \in {"extract", "verify", "prepare", "bkRemove", "link", "verity"} =>
              /\ req'.hmp = r /\ req'.pkg = req.pkg /\ req'.alone = req.alone /\ pre' = pre
              /\ disk'["install"][r] = disk["install"][r] /\ disk'["active"][r] = disk["active"][r]
              /\ \/ req'.pc = req.pc /\ req'.todo = req.todo
                 \/ /\ req.pc \in {"prepare", "bkRemove", "link"}
                    /\ req'.pc \in {"bkRemove", "link", "verity"}
    PROVE  Unpacking'
<1>1. CASE req'.alone /\ req'.pc \in {"extract", "verify", "prepare", "bkRemove", "link", "verity"}
  BY <1>1 DEF Unpacking, Holds, Beats, At
<1>2. CASE ~(req'.alone /\ req'.pc \in {"extract", "verify", "prepare", "bkRemove", "link", "verity"})
  BY <1>2 DEF Unpacking
<1> QED
  BY <1>1, <1>2

LEMMA RevertPromise ==
    ASSUME BootInd, PromiseInd, RevertNext, UNCHANGED <<bootVars, due>>
    PROVE  PromiseInd'
<1>r. PICK r \in Hmps : r = rv.hmp
  BY RevertEffect
<1>q. PICK q \in Hmps : q = req.hmp
  BY RequestFacts
<1>0. /\ rv.pc # "idle" /\ OnlyHmp(r) /\ rv' \in RevertType
      /\ UNCHANGED <<req, wk, tasks, mounted, promised, due, pre, phase>>
      /\ rv'.pc # "idle" => rv'.hmp = r
      /\ phase \in {"down", "boot", "up"}
  BY <1>r, RevertEffect, RevertControl, RequestFacts
  DEF serviceVars, historyVars, bootVars, Typed, DeviceTypes
<1>1. promised[r] = 0
  BY <1>r, <1>0, PromisesFacts DEF Reverting
<1>2. Promises(r)' /\ Due(r)'
  <2>1. Promises(r)'
    BY <1>0, <1>1, NothingPromised
  <2>2. CASE phase = "up"
    BY <1>0, <2>1, <2>2, DueWhenUp
  <2>3. CASE phase # "up"
    <3>1. due[r] = 0
      BY <1>0, <1>1, <2>3 DEF PromiseInd, Due
    <3> QED
      BY <1>0, <2>1, <3>1, NothingDue
  <2> QED
    BY <2>1, <2>2, <2>3
<1>3. ASSUME NEW h \in Hmps, h # r PROVE Promises(h)' /\ Due(h)'
  <2>1. Unmoved(h)
    BY <1>r, <1>0, <1>3
    DEF Unmoved, OnlyHmp, Requested, Reverting, Working, Clears, Mounts, Pending
  <2> QED
    BY <2>1, UnmovedKept
<1>4. Unpacking'
  <2>1. req.alone => req.pc \notin {"extract", "verify", "prepare", "bkRemove", "link", "verity"}
    BY <1>0, RequestFacts, IdleTypes DEF InstallPC
  <2>2. req'.pc = "verify" => req'.todo = {}
    BY <1>0 DEF PromiseInd, Unpacking
  <2> QED
    BY <1>q, <1>0, <2>1, <2>2, UnpackingKept DEF PromiseInd
<1> QED
  BY <1>2, <1>3, <1>4 DEF PromiseInd

LEMMA MonitorPromise ==
    ASSUME BootInd, PromiseInd, MonitorRevert, UNCHANGED <<bootVars, due>>
    PROVE  PromiseInd'
<1>q. PICK q \in Hmps : q = req.hmp
  BY RequestFacts
<1>0. /\ UNCHANGED <<disk, wk, tasks, mounted, due, pre, phase>> /\ phase = "up" /\ First \in Hmps
      /\ req'.pc = req.pc /\ req'.hmp = req.hmp /\ req'.todo = req.todo /\ ~req'.alone
      /\ rv'.hmp = First /\ promised' = [promised EXCEPT ![First] = 0]
      /\ promised \in [Hmps -> File]
  BY RequestFacts, WorkerFacts, StoreAssumption
  DEF MonitorRevert, StartRevert, bootVars, RequestType, HistoryTypes
<1>1. Promises(First)' /\ Due(First)'
  BY <1>0, NothingPromised, DueWhenUp
<1>2. ASSUME NEW h \in Hmps, h # First PROVE Promises(h)' /\ Due(h)'
  <2>1. Unmoved(h)
    BY <1>0, <1>2 DEF Unmoved, Requested, Reverting, Working, Clears, Mounts, Pending
  <2> QED
    BY <2>1, UnmovedKept
<1>3. Unpacking'
  BY <1>q, <1>0, UnpackingKept DEF PromiseInd, Unpacking
<1> QED
  BY <1>1, <1>2, <1>3 DEF PromiseInd

\* The steps of a request at r, for which nothing is promised before its end.
LEMMA RequestPromise ==
    ASSUME BootInd, PromiseInd, NEW r \in Hmps, OnlyHmp(r), phase = "up",
           UNCHANGED <<pre, phase, mounted, rv, wk, tasks, due>>,
           req'.pc = "idle" \/ req'.hmp = r,
           \A h \in Hmps : h # r => promised'[h] = promised[h]
    PROVE  (\A h \in Hmps : h # r => Promises(h)') /\ (\A h \in Hmps : Due(h)')
<1>1. ASSUME NEW h \in Hmps, h # r PROVE Promises(h)'
  <2>1. Unmoved(h)
    BY <1>1 DEF Unmoved, OnlyHmp, Requested, Reverting, Working, Clears, Mounts, Pending
  <2> QED
    BY <2>1, UnmovedKept
<1> QED
  BY <1>1, DueWhenUp


\* An install of a package that names its version unpacks, verifies and finishes.
LEMMA InstallPromise ==
    ASSUME BootInd, PromiseInd, "bare" \notin PackageKinds, UNCHANGED <<wk, tasks, due>>,
           InstallExtract \/ InstallModuleFile \/ BackupFile \/ InstallFinish
           \/ (BackupRemove /\ ~disk["backup"][req.hmp].there)
    PROVE  PromiseInd'
<1>r. PICK r \in Hmps : r = req.hmp
  BY RequestFacts
<1>0. /\ disk \in Disks /\ req \in RequestType /\ Unpacking /\ {"install", "active", "backup"} = Place
      /\ (\A p \in Place : disk[p][r] \in GoodDir) /\ promised \in [Hmps -> File]
  BY <1>r, RequestFacts, WorkerFacts DEF PromiseInd, HistoryTypes
<1>1. ASSUME req.pc # "idle" PROVE promised[r] = 0 /\ phase = "up"
  BY <1>r, <1>1, PromisesFacts, RequestFacts DEF Requested
<1>2. CASE InstallExtract
  <2>1. PICK f \in FileName : ExtractEffect(f)
    BY <1>2, ExtractFacts
  <2>2. /\ req.pc = "extract" /\ Wrote("install", r, f, req.pkg.ver) /\ OnlyHmp(r)
        /\ req'.hmp = r /\ req'.pkg = req.pkg /\ req'.todo = req.todo \ {f} /\ req'.alone = req.alone
        /\ req'.pc = (IF req.todo = {f} THEN "verify" ELSE "extract")
        /\ UNCHANGED <<pre, phase, mounted, rv, promised>>
    BY <1>r, <2>1, ChangedOnly DEF ExtractEffect, Wrote
  <2>3. ASSUME req.alone
        PROVE  "info" \in req'.todo \/ disk'["install"][r].files["info"] = req.pkg.ver
    BY <1>r, <1>0, <2>2, <2>3 DEF Unpacking, Wrote, At, FileName
  <2>4. Unpacking'
    BY <2>2, <2>3 DEF Unpacking, At
  <2>5. Promises(r)'
    BY <1>1, <2>2, NothingPromised
  <2> QED
    BY <1>1, <2>2, <2>4, <2>5, RequestPromise DEF PromiseInd
<1>3. CASE InstallModuleFile
  <2>1. ModuleFileEffect
    BY <1>3, ModuleFileFacts
  <2>2. /\ req.pc = "verify" /\ Changed("install", r) /\ OnlyHmp(r)
        /\ req'.hmp = r /\ req'.pkg = req.pkg /\ req'.alone = req.alone
        /\ req'.pc \in {"undo", "prepare"} /\ disk'["active"][r] = disk["active"][r]
        /\ disk'["install"][r].files["info"] = disk["install"][r].files["info"]
        /\ UNCHANGED <<pre, phase, mounted, rv, promised>>
    BY <1>r, <1>0, <2>1, ChangedOnly DEF ModuleFileEffect, Changed
  <2>3. ASSUME req.alone, req'.pc = "prepare"
        PROVE  Holds("install", r, req.pkg.ver)' /\ Beats(r, req.pkg.ver)'
    <3>1. disk["install"][r].files["info"] = req.pkg.ver /\ req.pkg.ver # 0
      BY <1>r, <1>0, <2>2, <2>3, RequestFacts, PackageFacts DEF Unpacking, At, InstallPC
    <3>2. disk'["install"][r].files["img"] # 0 /\ ValidVersion(r)
      BY <1>r, <2>1, <2>3, <3>1 DEF ModuleFileEffect
    <3>3. disk'["install"][r] \in GoodDir
      BY <1>0, <2>2 DEF Changed, Disks
    <3>4. Openable(disk'["install"][r])
      BY <2>2, <3>1, <3>2, <3>3, DirFacts
    <3>5. /\ Newer(req.pkg.ver, pre[r])
          /\ Openable(disk["active"][r]) => Newer(req.pkg.ver, disk["active"][r].files["info"])
      BY <3>1, <3>2 DEF ValidVersion, At
    <3> QED
      BY <2>2, <3>1, <3>4, <3>5 DEF Holds, Beats, At
  <2>4. Unpacking'
    BY <2>2, <2>3 DEF Unpacking
  <2>5. Promises(r)'
    BY <1>1, <2>2, NothingPromised
  <2> QED
    BY <1>1, <2>2, <2>4, <2>5, RequestPromise DEF PromiseInd
<1>4. CASE (BackupRemove /\ ~disk["backup"][req.hmp].there) \/ BackupFile
  <2>1. /\ req.pc \in {"bkRemove", "link"} /\ Changed("backup", r) /\ req'.hmp = r
        /\ req'.pkg = req.pkg /\ req'.alone = req.alone
        /\ req'.pc \in {"link", "verity", "bkUndo"}
        /\ UNCHANGED <<pre, phase, mounted, rv, promised>>
    <3>1. CASE BackupRemove /\ ~disk["backup"][req.hmp].there
      BY <1>r, <3>1, ListFacts DEF ListEffect, Made
    <3>2. CASE BackupFile
      BY <1>r, <1>0, <3>2, LinkFacts, SameDisk DEF LinkEffect, Wrote
    <3> QED
      BY <1>4, <3>1, <3>2
  <2>2. /\ OnlyHmp(r) /\ disk'["active"][r] = disk["active"][r]
        /\ disk'["install"][r] = disk["install"][r]
    BY <1>0, <2>1, ChangedOnly DEF Changed
  <2>3. Unpacking'
    BY <1>r, <1>0, <2>1, <2>2, UnpackingKept
  <2>4. Promises(r)'
    BY <1>1, <2>1, NothingPromised
  <2> QED
    BY <1>1, <2>1, <2>2, <2>3, <2>4, RequestPromise DEF PromiseInd
<1>5. CASE InstallFinish
  <2>1. FinishEffect
    BY <1>5, FinishFacts
  <2>2. /\ req.pc = "verity" /\ Changed("active", r) /\ OnlyHmp(r) /\ req' = NoRequest
        /\ disk'["active"][r].there /\ disk'["active"][r].files = disk["active"][r].files
        /\ disk'["install"][r] = disk["install"][r] /\ req'.pc = "idle"
        /\ promised' = [promised EXCEPT ![r] = IF req.alone THEN req.pkg.ver ELSE 0]
        /\ UNCHANGED <<pre, phase, mounted, rv>>
    <3>1. /\ req.pc = "verity" /\ Made("active", r) /\ req' = NoRequest
          /\ promised' = [promised EXCEPT ![r] = IF req.alone THEN req.pkg.ver ELSE 0]
          /\ UNCHANGED <<pre, phase, mounted, rv>>
      BY <1>r, <2>1 DEF FinishEffect
    <3>2. OnlyHmp(r) /\ disk'["install"][r] = disk["install"][r]
      BY <1>0, <3>1, ChangedOnly DEF Made, Changed
    <3> QED
      BY <3>1, <3>2, IdleTypes DEF Made
  <2>3. Unpacking'
    BY <2>2 DEF Unpacking
  <2>4. ASSUME req.alone PROVE Promises(r)'
    <3>1. Holds("install", r, req.pkg.ver) /\ Beats(r, req.pkg.ver) /\ promised'[r] = req.pkg.ver
      BY <1>r, <1>0, <2>2, <2>4 DEF Unpacking
    <3>2. disk'["active"][r] \in GoodDir
      BY <1>0, <2>2 DEF Changed, Disks
    <3>3. Openable(disk'["active"][r]) => Openable(disk["active"][r])
      BY <1>0, <2>2, <3>2, DirFacts
    <3>4. rv' = NoRevert /\ wk'.pc = "idle" /\ phase' = "up"
      BY <1>1, <2>2, <2>4, RequestFacts DEF InstallPC, Control
    <3>5. ~Requested(r)' /\ ~Reverting(r)' /\ ~Clears(r)' /\ ~Mounts(r)' /\ Pending(r)'
      BY <2>2, <3>4, IdleTypes DEF Requested, Reverting, Clears, Mounts, Pending, Working
    <3>6. Chosen(disk'["install"][r], disk'["active"][r], promised'[r], pre'[r], Pending(r)')
      BY <2>2, <3>1, <3>3, <3>5 DEF Chosen, Holds, Beats, At
    <3> QED
      BY <3>5, <3>6, PromisesNext
  <2>5. ASSUME ~req.alone PROVE Promises(r)'
    BY <1>0, <2>2, <2>5, NothingPromised
  <2> QED
    BY <1>0, <1>1, <2>2, <2>3, <2>4, <2>5, RequestPromise DEF PromiseInd
<1> QED
  BY <1>2, <1>3, <1>4, <1>5

LEMMA ServicePromise ==
    ASSUME BootInd, PromiseInd, "bare" \notin PackageKinds, ServiceNext, UNCHANGED <<bootVars, due>>
    PROVE  PromiseInd'
<1>r. PICK r \in Hmps : r = req.hmp
  BY RequestFacts
<1>0. /\ UNCHANGED <<wk, tasks, due>> /\ disk \in Disks /\ req \in RequestType /\ Unpacking
      /\ {"install", "active", "backup"} = Place /\ promised \in [Hmps -> File]
  BY RequestFacts, WorkerFacts DEF bootVars, PromiseInd, HistoryTypes
<1>1. ASSUME NEW g \in Hmps, NEW p \in Packages, InstallBegin(g, p) PROVE PromiseInd'
  <2>1. BeginEffect(g, p)
    BY <1>1, BeginFacts
  <2>2. /\ phase = "up" /\ OnlyHmp(g) /\ req'.hmp = g /\ req'.pc \in {"extract", "undo"}
        /\ "info" \in req'.todo /\ promised' = [promised EXCEPT ![g] = 0]
        /\ UNCHANGED <<pre, phase, mounted, rv>>
    BY <2>1, ChangedOnly, PackageFacts DEF BeginEffect
  <2>3. Unpacking'
    BY <2>2 DEF Unpacking
  <2>4. Promises(g)'
    BY <1>0, <2>2, NothingPromised
  <2> QED
    BY <1>0, <2>2, <2>3, <2>4, RequestPromise DEF PromiseInd
<1>2. ASSUME NEW g \in Hmps, UninstallBegin(g) PROVE PromiseInd'
  <2>1. /\ UninstallEffect(g) /\ OnlyHmp(g)
    BY <1>0, <1>2, UninstallFacts DEF UninstallEffect, OnlyHmp
  <2>2. Unpacking'
    BY <2>1 DEF Unpacking, UninstallEffect
  <2>3. Promises(g)'
    BY <1>0, <2>1, NothingPromised DEF UninstallEffect
  <2> QED
    BY <1>0, <2>1, <2>2, <2>3, RequestPromise DEF PromiseInd, UninstallEffect
<1>3. CASE QueryVersions \/ ServiceExit
  <2>1. UNCHANGED <<disk, pre, phase, req, rv, mounted, promised>> /\ req.pc = "idle"
    BY <1>3 DEF QueryVersions, ServiceExit, historyVars
  <2>2. \A h \in Hmps : Unmoved(h)
    BY <1>0, <2>1 DEF Unmoved, Requested, Reverting, Working, Clears, Mounts, Pending
  <2>3. Unpacking'
    BY <2>1 DEF Unpacking
  <2> QED
    BY <2>2, <2>3, UnmovedKept DEF PromiseInd
<1>4. CASE InstallPrepare \/ (BackupRemove /\ disk["backup"][req.hmp].there) \/ BackupUndo
            \/ InstallFails \/ InstallUndo \/ UninstallStep \/ RemovalFails
  <2>1. CASE ReqRemoves
    <3>1. /\ req' = req /\ req.pc # "idle" /\ OnlyHmp(r)
          /\ UNCHANGED <<pre, phase, mounted, rv, promised>>
          /\ req.pc \in DOMAIN Removed /\ Shrinks(Removed[req.pc], r)
      BY <1>r, <2>1, ChangedOnly DEF ReqRemoves, Shrinks, Removed
    <3>2. req.pc = "bkRemove" => /\ disk'["install"][r] = disk["install"][r]
                                 /\ disk'["active"][r] = disk["active"][r]
      BY <1>0, <3>1 DEF Removed, Shrinks, Changed
    <3>3. req.pc \in {"extract", "verify", "prepare", "bkRemove", "link", "verity"} =>
             req.pc = "bkRemove"
      BY <3>1 DEF Removed
    <3>4. Unpacking'
      BY <1>r, <1>0, <3>1, <3>2, <3>3, UnpackingKept
    <3>5. promised[r] = 0 /\ phase = "up"
      BY <1>r, <3>1, PromisesFacts, RequestFacts DEF Requested
    <3> QED
      BY <1>r, <1>0, <3>1, <3>4, <3>5, RequestPromise, NothingPromised DEF PromiseInd
  <2>2. CASE ReqGoes
    <3>1. /\ disk' = disk /\ UNCHANGED <<pre, phase, mounted, rv, promised>> /\ OnlyHmp(r)
          /\ req.pc # "idle" /\ (req'.pc = "idle" \/ req'.hmp = r)
      BY <1>r, <1>0, <2>2, IdleTypes DEF ReqGoes, OnlyHmp, RequestType, UninstallPlace
    <3>2. req'.pc \in {"extract", "verify", "prepare", "bkRemove", "link", "verity"} =>
             /\ req.pc = "prepare" /\ req'.pc \in {"bkRemove", "verity"}
             /\ req'.hmp = r /\ req'.pkg = req.pkg /\ req'.alone = req.alone
      BY <1>r, <1>0, <2>2, IdleTypes DEF ReqGoes, RequestType, UninstallPlace, AfterRemoval
    <3>3. Unpacking'
      BY <1>r, <1>0, <3>1, <3>2, UnpackingKept
    <3>4. promised[r] = 0 /\ phase = "up"
      BY <1>r, <3>1, PromisesFacts, RequestFacts DEF Requested
    <3> QED
      BY <1>r, <1>0, <3>1, <3>3, <3>4, RequestPromise, NothingPromised DEF PromiseInd
  <2> QED
    BY <1>4, <2>1, <2>2, ReqQuiet
<1> QED
  BY <1>0, <1>1, <1>2, <1>3, <1>4, InstallPromise DEF ServiceNext, InstallNext

\* Whatever the worker chooses, it is what is promised, or that is given up.
LEMMA ChoosePromise ==
    ASSUME BootInd, PromiseInd, StageNoDir \/ ChooseActive \/ ChooseSystem \/ StageDone \/ StageFails,
           promised[wk.hmp] # 0
    PROVE  \/ promised'[wk.hmp] = 0 /\ due'[wk.hmp] = 0
           \/ /\ ActiveEffect /\ UNCHANGED <<disk, wkAlone, due>>
              /\ Openable(disk["active"][wk.hmp])
              /\ disk["active"][wk.hmp].files["info"] = promised[wk.hmp]
<1> DEFINE r == wk.hmp
<1> DEFINE v == promised[r]
<1>0. /\ disk["install"][r] \in GoodDir /\ disk["active"][r] \in GoodDir
      /\ promised \in [Hmps -> File] /\ due \in [Hmps -> File] /\ r \in Hmps /\ faults \in 0..MAX_FAULT
  BY WorkerFacts DEF HistoryTypes
<1>1. Chosen(disk["install"][r], disk["active"][r], v, pre[r], Pending(r))
  BY <1>0, PromisesFacts
<1>2. CASE StageNoDir
  BY <1>1, <1>2 DEF StageNoDir, Chosen, At
<1>3. CASE ChooseSystem
  <2>1. ~Openable(disk["install"][r]) /\ ~Openable(disk["active"][r])
    BY <1>3, WaitsFacts DEF ChooseSystem
  <2> QED
    BY <1>1, <2>1 DEF Chosen
<1>4. ASSUME Openable(disk["active"][r]), disk["active"][r].files["info"] = v,
             UseLatest(r, At("active", r).files["info"])
      PROVE  ActiveEffect
  BY <1>1, <1>4 DEF UseLatest, ActiveEffect, Chosen, At, historyVars
<1>5. CASE ChooseActive
  <2>1. /\ Openable(disk["active"][r])
        /\ Openable(disk["install"][r]) =>
              ~Newer(disk["install"][r].files["info"], disk["active"][r].files["info"])
    BY <1>5, WaitsFacts DEF ChooseActive
  <2>2. disk["active"][r].files["info"] = v
    BY <1>1, <2>1 DEF Chosen
  <2> QED
    BY <1>4, <1>5, <2>1, <2>2 DEF ChooseActive
<1>6. CASE StageDone
  <2>1. Openable(disk["install"][r]) /\ disk["active"][r].files = disk["install"][r].files
    BY <1>6, WorkerFacts DEF StageDone, Staging, At
  <2>2. Openable(disk["active"][r]) /\ disk["active"][r].files["info"] = v
    BY <1>0, <1>1, <2>1, DirFacts DEF Chosen
  <2> QED
    BY <1>4, <1>6, <2>2 DEF StageDone
<1>7. CASE StageFails
  <2>1. faults' = faults + 1
    <3>1. CASE wk.pc = "choose"
      BY <1>7, <3>1 DEF StageFails, Fault
    <3>2. CASE wk.pc = "link"
      <4>1. Openable(disk["install"][r]) /\ wk.cur \in FileName
        BY <3>2, WorkerFacts DEF Staging, At, WorkerType
      <4>2. disk["install"][r].files[wk.cur] # 0
        BY <1>0, <4>1, DirFacts DEF FileName
      <4> QED
        BY <1>7, <3>2, <4>2 DEF StageFails, FaultIf, Fault, At
    <3> QED
      BY <1>7, <3>1, <3>2 DEF StageFails
  <2>2. GiveUp(r)
    BY <1>0, <1>7, <2>1, StoreAssumption DEF StageFails
  <2> QED
    BY <1>0, <2>2 DEF GiveUp
<1> QED
  BY <1>2, <1>3, <1>5, <1>6, <1>7

\* The hmps the worker does not have at hand.
LEMMA WorkerUnmoved ==
    ASSUME BootInd, PromiseInd, wk.pc # "idle", OnlyHmp(wk.hmp), UNCHANGED <<pre, phase, req, tasks>>,
           wk'.pc = "idle" \/ wk'.hmp = wk.hmp, rv' = rv \/ rv'.hmp = wk.hmp,
           NEW h \in Hmps, h # wk.hmp, promised'[h] = promised[h], due'[h] = due[h],
           mounted'[h] = mounted[h]
    PROVE  Promises(h)' /\ Due(h)'
<1>1. Unmoved(h)
  BY DEF Unmoved, OnlyHmp, Requested, Reverting, Working, Clears, Mounts, Pending
<1> QED
  BY <1>1, UnmovedKept

LEMMA WorkerPromise ==
    ASSUME BootInd, PromiseInd, WorkerNext
    PROVE  PromiseInd'
<1>r. PICK r \in Hmps : r = wk.hmp
  BY WorkerFacts
<1>0. /\ disk \in Disks /\ {"install", "active", "backup"} = Place /\ wk \in WorkerType
      /\ promised \in [Hmps -> File] /\ due \in [Hmps -> File] /\ mounted \in [Hmps -> MountType]
      /\ (\A p \in Place : disk[p][r] \in GoodDir) /\ (\A h \in Hmps : Promises(h) /\ Due(h))
  BY WorkerFacts DEF HistoryTypes, PromiseInd
<1>1. req' = req /\ req.pc = "idle" /\ Unpacking' /\ phase = "boot" /\ UNCHANGED <<pre, phase>>
  <2>1. req' = req /\ phase = "boot" /\ UNCHANGED <<pre, phase>>
    BY WorkerFacts
    DEF WorkerNext, WorkerTake, StageBegin, StageNoDir, ChooseActive, ChooseSystem, StageLink,
        StageUnlink, StageFails, StageDone, ClearActive, ClearBackup, ClearFails, MountSucceeds,
        MountFails, NoLoopDevice, wkAlone, wkQuiet, serviceVars
  <2>2. req.pc = "idle"
    BY <2>1, WorkerFacts DEF Control
  <2> QED
    BY <2>1, <2>2 DEF Unpacking
<1>2. ASSUME NEW g \in Hmps, WorkerTake(g) PROVE PromiseInd'
  <2>1. TakeEffect(g)
    BY <1>2, TakeFacts
  <2>2. \A h \in Hmps : Unmoved(h)
    BY <2>1 DEF TakeEffect, Unmoved, Requested, Reverting, Working, Clears, Mounts, Pending
  <2> QED
    BY <1>1, <2>2, UnmovedKept DEF PromiseInd
<1>3. CASE StageBegin \/ StageLink \/ StageUnlink
  <2>1. StageEffect /\ BootInd'
    BY <1>3, StageFacts, StageInd
  <2>2. /\ UNCHANGED <<mounted, promised, due, tasks, rv>> /\ wk.pc \in {"choose", "link", "unlink"}
        /\ wk'.hmp = r /\ wk'.pc \in {"link", "unlink", "staged"}
        /\ Changed("active", r) /\ OnlyHmp(r) /\ rv = NoRevert
    BY <1>r, <2>1, ChangedOnly, WorkerFacts
    DEF StageEffect, BeginStageEffect, LinkStageEffect, UnlinkStageEffect, Wrote, wkAlone, wkQuiet,
        historyVars
  <2>3. disk'["install"][r] = disk["install"][r] /\ disk'["active"][r] \in GoodDir
    BY <1>0, <2>2 DEF Changed, Disks
  <2>4. /\ Openable(disk'["install"][r]) /\ disk'["active"][r].there
        /\ disk'["active"][r].files["info"] \in {disk'["install"][r].files["info"], 0}
    BY <2>1, <2>2 DEF BootInd, Staging, At
  <2>5. ~Requested(r)' /\ ~Reverting(r)' /\ ~Clears(r)' /\ ~Mounts(r)' /\ Pending(r)' /\ Working(r)'
    BY <1>1, <2>2, IdleTypes DEF Requested, Reverting, Working, Clears, Mounts, Pending
  <2>6. Promises(r)'
    <3>1. ASSUME promised[r] # 0
          PROVE  Chosen(disk'["install"][r], disk'["active"][r], promised[r], pre[r], Pending(r)')
      <4>1. Chosen(disk["install"][r], disk["active"][r], promised[r], pre[r], Pending(r))
        BY <3>1, PromisesFacts
      <4>2. disk'["active"][r].files["info"] \in {promised[r], 0}
        BY <2>3, <2>4, <4>1 DEF Chosen
      <4>3. disk'["active"][r].files["info"] = 0 => ~Openable(disk'["active"][r])
        BY <2>3, DirFacts
      <4> QED
        BY <2>3, <2>4, <2>5, <4>1, <4>2, <4>3 DEF Chosen
    <3> QED
      BY <1>1, <2>2, <2>5, <3>1, PromisesNext
  <2>7. Due(r)'
    BY <1>0, <1>1, <2>2, <2>5 DEF Due
  <2>8. ASSUME NEW h \in Hmps, h # r PROVE Promises(h)' /\ Due(h)'
    BY <1>r, <1>1, <2>2, <2>8, WorkerUnmoved
  <2> QED
    BY <1>1, <2>6, <2>7, <2>8 DEF PromiseInd
<1>4. CASE StageNoDir \/ ChooseActive \/ ChooseSystem \/ StageDone \/ StageFails
  <2>1. /\ wk.pc \in {"choose", "link", "staged"} /\ UNCHANGED <<disk, mounted, tasks>> /\ OnlyHmp(r)
        /\ wk'.hmp = r /\ (rv' = rv \/ rv'.hmp = r)
        /\ \A h \in Hmps : h # r => promised'[h] = promised[h] /\ due'[h] = due[h]
        /\ UNCHANGED <<promised, due>> \/ (promised'[r] = 0 /\ due'[r] = 0)
    BY <1>r, <1>0, <1>4, ChooseFacts, SystemFacts
    DEF SystemEffect, ActiveEffect, wkAlone, wkQuiet, WorkerType, OnlyHmp
  <2>2. ASSUME NEW h \in Hmps, h # r PROVE Promises(h)' /\ Due(h)'
    BY <1>r, <1>1, <2>1, <2>2, WorkerUnmoved
  <2>3. Promises(r)' /\ Due(r)'
    <3>1. CASE promised'[r] = 0 /\ due'[r] = 0
      BY <3>1, NothingPromised, NothingDue
    <3>2. CASE promised[r] = 0
      <4>1. promised'[r] = 0 /\ due'[r] = 0
        BY <1>1, <2>1, <3>2, DueIsPromised
      <4> QED
        BY <4>1, NothingPromised, NothingDue
    <3>3. CASE promised[r] # 0 /\ ~(promised'[r] = 0 /\ due'[r] = 0)
      <4>1. /\ ActiveEffect /\ UNCHANGED <<disk, promised, due>>
            /\ Openable(disk["active"][r]) /\ disk["active"][r].files["info"] = promised[r]
        BY <1>r, <1>4, <3>3, ChoosePromise DEF ActiveEffect
      <4>2. wk'.pc = "mount" /\ wk'.src = "active" /\ rv' = NoRevert
        BY <1>0, <2>1, <4>1, WorkerFacts DEF ActiveEffect, WorkerType
      <4>3. ~Requested(r)' /\ ~Reverting(r)' /\ ~Clears(r)' /\ Working(r)'
        BY <1>1, <2>1, <4>2, IdleTypes DEF Requested, Reverting, Working, Clears
      <4>4. Chosen(disk["install"][r], disk["active"][r], promised[r], pre[r], Pending(r)')
        BY <3>3, <4>1, PromisesFacts DEF Chosen
      <4>5. Promises(r)'
        BY <1>1, <4>1, <4>2, <4>3, <4>4, PromisesNext
      <4>6. Due(r)'
        BY <1>0, <1>1, <4>1, <4>3 DEF Due
      <4> QED
        BY <4>5, <4>6
    <3> QED
      BY <3>1, <3>2, <3>3
  <2> QED
    BY <1>1, <2>2, <2>3 DEF PromiseInd
<1>5. CASE ClearActive \/ ClearBackup \/ ClearFails
  <2>1. /\ ClearEffect /\ wk.pc \in {"clrActive", "clrBackup"} /\ wk'.hmp = r
        /\ UNCHANGED <<mounted, promised, due, tasks, rv>>
    BY <1>r, <1>0, <1>5, ClearFacts DEF ClearEffect, wkQuiet, historyVars, WorkerType
  <2>2. OnlyHmp(r)
    <3>1. CASE disk' = disk
      BY <1>0, <3>1 DEF OnlyHmp
    <3>2. CASE \E p \in Place : Shrinks(p, r)
      BY <3>2, ChangedOnly DEF Shrinks
    <3> QED
      BY <1>r, <1>0, <2>1, <3>1, <3>2 DEF ClearEffect
  <2>3. promised[r] = 0 /\ due[r] = 0
    BY <1>r, <1>1, <2>1, PromisesFacts, DueIsPromised DEF Clears, Working
  <2>4. ASSUME NEW h \in Hmps, h # r PROVE Promises(h)' /\ Due(h)'
    BY <1>r, <1>1, <2>1, <2>2, <2>4, WorkerUnmoved
  <2> QED
    BY <1>1, <2>1, <2>3, <2>4, NothingPromised, NothingDue DEF PromiseInd
<1>6. CASE MountSucceeds \/ MountFails \/ NoLoopDevice
  <2>1. /\ MountEffect /\ UNCHANGED <<disk, tasks>> /\ wk.pc = "mount" /\ OnlyHmp(r)
        /\ wk'.pc = "idle" /\ rv = NoRevert /\ r \notin tasks
    BY <1>r, <1>0, <1>6, MountFacts, IdleTypes, WorkerFacts DEF MountEffect, OnlyHmp
  <2>2. ASSUME NEW h \in Hmps, h # r PROVE Promises(h)' /\ Due(h)'
    <3>1. /\ mounted'[h] = mounted[h] /\ promised'[h] = promised[h] /\ due'[h] = due[h]
          /\ rv' = rv \/ rv'.hmp = r
      BY <1>r, <1>0, <2>1, <2>2 DEF MountEffect, GiveUp
    <3> QED
      BY <1>r, <1>1, <2>1, <2>2, <3>1, WorkerUnmoved
  <2>3. Promises(r)' /\ Due(r)'
    <3>1. CASE promised'[r] = 0 /\ due'[r] = 0
      BY <3>1, NothingPromised, NothingDue
    <3>2. CASE promised' = promised /\ promised[r] = 0
      <4>1. due'[r] = 0
        BY <1>r, <1>0, <1>1, <2>1, <3>2, DueIsPromised DEF MountEffect, GiveUp
      <4> QED
        BY <3>2, <4>1, NothingPromised, NothingDue
    <3>3. CASE promised' = promised /\ rv' = rv /\ promised[r] # 0
      <4>1. ~Pending(r) /\ Mounts(r)
        BY <1>r, <1>1, <2>1 DEF Pending, Mounts, Working
      <4>2. /\ wk.src = "active" /\ Openable(disk["active"][r])
            /\ disk["active"][r].files["info"] = promised[r]
            /\ \A b : Chosen(disk["install"][r], disk["active"][r], promised[r], pre[r], b)
        BY <3>3, <4>1, PromisesFacts DEF Chosen
      <4>3. ~Requested(r)' /\ ~Reverting(r)' /\ ~Clears(r)' /\ ~Mounts(r)'
        BY <1>1, <2>1, <3>3, IdleTypes DEF Requested, Reverting, Working, Clears, Mounts
      <4>4. Promises(r)'
        BY <1>1, <2>1, <3>3, <4>2, <4>3, PromisesNext
      <4>5. Due(r)'
        <5>1. CASE due'[r] = 0
          BY <5>1, NothingDue
        <5>2. CASE due'[r] # 0
          <6>1. due' = due /\ mounted'[r].files = disk["active"][r].files
            BY <1>r, <1>0, <2>1, <4>2, <5>2 DEF MountEffect, GiveUp
          <6>2. due[r] = promised[r]
            BY <1>1, <5>2, <6>1, DueIsPromised
          <6> QED
            BY <1>1, <3>3, <4>2, <6>1, <6>2 DEF Due
        <5> QED
          BY <5>1, <5>2
      <4> QED
        BY <4>4, <4>5
    <3> QED
      BY <1>r, <1>0, <2>1, <3>1, <3>2, <3>3 DEF MountEffect, GiveUp
  <2> QED
    BY <1>1, <2>2, <2>3 DEF PromiseInd
<1> QED
  BY <1>2, <1>3, <1>4, <1>5, <1>6 DEF WorkerNext

LEMMA MainPromise ==
    ASSUME BootInd, PromiseInd, MainNext
    PROVE  PromiseInd'
<1>0. /\ UNCHANGED <<req, rv, promised, wk, mounted, pre>> /\ disk \in Disks /\ Control
      /\ {"install", "active", "backup"} = Place /\ phase # "up" /\ req.pc = "idle"
      /\ phase \in {"down", "boot", "up"} /\ \A h \in Hmps : Promises(h) /\ Due(h)
  BY WorkerFacts, BootIndParts
  DEF MainNext, PowerOn, MainWait, MainJoin, MainClean, MainDone, serviceVars, historyVars, bootVars,
      Control, Typed, DeviceTypes, PromiseInd
<1>1. Unpacking'
  BY <1>0 DEF Unpacking
<1>2. CASE MainWait \/ MainJoin
  <2>1. UNCHANGED <<disk, phase, due, tasks>>
    BY <1>2 DEF MainWait, MainJoin
  <2>2. \A h \in Hmps : Unmoved(h)
    BY <1>0, <2>1 DEF Unmoved, Requested, Reverting, Working, Clears, Mounts, Pending
  <2> QED
    BY <1>1, <2>2, UnmovedKept DEF PromiseInd
<1>3. CASE PowerOn
  <2>1. /\ phase' = "boot" /\ tasks' = Hmps /\ due' = promised /\ disk' = disk
        /\ wk.pc = "idle" /\ rv = NoRevert
    BY <1>0, <1>3 DEF PowerOn, Control
  <2>2. ASSUME NEW h \in Hmps PROVE Promises(h)'
    <3>1. ~Requested(h)' /\ ~Reverting(h)' /\ ~Clears(h)' /\ ~Mounts(h)' /\ Pending(h)'
      BY <1>0, <2>1, IdleTypes DEF Requested, Reverting, Working, Clears, Mounts, Pending
    <3> QED
      BY <1>0, <2>1, <3>1, PromisesFacts, PromisesNext DEF Chosen
  <2>3. ASSUME NEW h \in Hmps PROVE Due(h)'
    BY <1>0, <2>1 DEF Due
  <2> QED
    BY <1>1, <2>2, <2>3 DEF PromiseInd
<1>4. ASSUME main = "clean", disk'["active"] = disk["active"], UNCHANGED <<tasks, due>>,
             phase' \in {"boot", "up"}, NEW h \in Hmps,
             Openable(disk'["install"][h]) => disk'["install"][h] = disk["install"][h]
      PROVE  Promises(h)' /\ Due(h)'
  <2>1. tasks = {} /\ wk.pc = "idle" /\ rv = NoRevert /\ phase = "boot"
    BY <1>0, <1>4 DEF Control
  <2>2. ~Requested(h)' /\ ~Reverting(h)' /\ ~Clears(h)' /\ ~Mounts(h)' /\ ~Pending(h) /\ ~Working(h)
    BY <1>0, <2>1, IdleTypes DEF Requested, Reverting, Working, Clears, Mounts, Pending
  <2>3. Promises(h)'
    BY <1>0, <1>4, <2>2, PromisesFacts, PromisesNext DEF Chosen
  <2>4. Due(h)'
    BY <1>0, <1>4, <2>1, <2>2 DEF Due
  <2> QED
    BY <2>3, <2>4
<1>5. CASE MainDone
  BY <1>1, <1>4, <1>5 DEF MainDone, PromiseInd
<1>6. CASE MainClean
  <2>1. PICK r \in Hmps : RemoveStep("install", r)
    BY <1>6 DEF MainClean
  <2>2. Shrinks("install", r) /\ main = "clean" /\ UNCHANGED <<phase, tasks, due>>
    BY <1>0, <1>6, <2>1, RemoveStepFacts DEF MainClean, bootVars
  <2>3. disk'["active"] = disk["active"] /\ disk'["install"][r] \in GoodDir
    <3>1. /\ disk'["active"] \in [Hmps -> GoodDir] /\ disk["active"] \in [Hmps -> GoodDir]
          /\ \A h \in Hmps : disk'["active"][h] = disk["active"][h]
      BY <1>0, <2>2 DEF Shrinks, Changed, Disks
    <3>2. disk'["active"] = disk["active"]
      BY <3>1
    <3> QED
      BY <1>0, <2>2, <3>2 DEF Shrinks, Changed, Disks
  <2>4. ASSUME NEW h \in Hmps, Openable(disk'["install"][h])
        PROVE  disk'["install"][h] = disk["install"][h]
    <3>1. ~Openable(disk'["install"][r])
      BY <2>2, <2>3, DirFacts DEF Shrinks
    <3> QED
      BY <1>0, <2>2, <2>4, <3>1 DEF Shrinks, Changed
  <2>5. phase' \in {"boot", "up"}
    BY <1>0, <2>2 DEF Control
  <2> QED
    BY <1>1, <1>4, <2>2, <2>3, <2>4, <2>5 DEF PromiseInd
<1> QED
  BY <1>2, <1>3, <1>5, <1>6 DEF MainNext

LEMMA PowerPromise ==
    ASSUME BootInd, PromiseInd, (Reboot \/ Restart \/ Crash) \/ \E v \in Versions : SystemUpdate(v)
    PROVE  PromiseInd'
<1>0. /\ disk' = disk /\ phase' = "down" /\ req'.pc = "idle" /\ rv' = NoRevert /\ wk'.pc = "idle"
      /\ \A h \in Hmps : /\ due'[h] = 0
                         /\ \/ promised'[h] = promised[h] /\ pre'[h] = pre[h]
                            \/ promised'[h] = promised[h] /\ Newer(promised[h], pre'[h])
                            \/ promised'[h] = 0
  <2>1. CASE Reboot \/ Restart \/ Crash
    BY <2>1, PowerInd, IdleTypes DEF DownEffect
  <2>2. ASSUME NEW v \in Versions, SystemUpdate(v)
        PROVE  /\ disk' = disk /\ phase' = "down" /\ req'.pc = "idle" /\ rv' = NoRevert /\ wk'.pc = "idle"
               /\ \A h \in Hmps : /\ due'[h] = 0
                                  /\ \/ promised'[h] = promised[h] /\ Newer(promised[h], pre'[h])
                                     \/ promised'[h] = 0
    BY <2>2, BootIndParts DEF SystemUpdate, Control, serviceVars, bootVars, PromiseInd, Due
  <2> QED
    BY <2>1, <2>2
<1>1. ASSUME NEW h \in Hmps PROVE Promises(h)' /\ Due(h)'
  <2>1. ~Requested(h)' /\ ~Reverting(h)' /\ ~Clears(h)' /\ ~Mounts(h)' /\ Pending(h)'
    BY <1>0, IdleTypes DEF Requested, Reverting, Working, Clears, Mounts, Pending
  <2>2. Promises(h)'
    BY <1>0, <2>1, PromisesFacts, PromisesNext DEF Chosen
  <2> QED
    BY <1>0, <2>2, NothingDue
<1>2. Unpacking'
  BY <1>0 DEF Unpacking
<1> QED
  BY <1>1, <1>2 DEF PromiseInd

LEMMA PromiseNext ==
    ASSUME BootInd, PromiseInd, "bare" \notin PackageKinds, [BootNext]_vars
    PROVE  PromiseInd'
<1>1. CASE UNCHANGED vars
  <2>1. UNCHANGED <<disk, pre, phase, mounted, req, rv, promised, tasks, wk, due>>
    BY <1>1 DEF vars, serviceVars, historyVars, bootVars
  <2>2. \A h \in Hmps : Unmoved(h)
    BY <2>1 DEF Unmoved, Requested, Reverting, Working, Clears, Mounts, Pending
  <2>3. Unpacking'
    BY <2>1 DEF PromiseInd, Unpacking, Holds, Beats, At
  <2> QED
    BY <2>2, <2>3, UnmovedKept DEF PromiseInd
<1>2. CASE BootNext
  BY <1>2, WorkerPromise, MainPromise, RevertPromise, ServicePromise, MonitorPromise, PowerPromise
  DEF BootNext
<1> QED
  BY <1>1, <1>2
-----------------------------------------------------------------------------
(***************************************************************************)
(* What runs is what is reported.                                          *)
(***************************************************************************)
\* The copies of h that may be half done: unpacked into install, staged into active.
Unpacks(h) == Requested(h) /\ req.pc \in {"extract", "verify", "undo"}
Restages(h) == Working(h) /\ wk.pc = "unlink"
BacksUp(h) == Requested(h) /\ req.pc = "link"

\* Nothing that Matches(h) speaks of changes, and no copy of h ends.
Steady(h) ==
    /\ cut \subseteq cut' /\ mounted'[h] = mounted[h]
    /\ \A p \in Place : disk'[p][h] = disk[p][h]
    /\ Unpacks(h) => Unpacks(h)'
    /\ Restages(h) => Restages(h)'
    /\ BacksUp(h)' => BacksUp(h)

LEMMA SteadyMatches ==
    ASSUME NEW h \in Hmps, Matches(h), Steady(h)
    PROVE  Matches(h)'
<1>1. /\ disk'["install"][h] = disk["install"][h] /\ disk'["active"][h] = disk["active"][h]
      /\ disk'["backup"][h] = disk["backup"][h]
  BY DEF Steady, Place
<1> QED
  BY <1>1 DEF Matches, Steady, At, Unpacks, Restages, BacksUp

\* The files of every directory of h, before a step.
LEMMA MatchesFacts ==
    ASSUME MatchInd, NEW h \in Hmps, h \notin cut
    PROVE  /\ ~Unpacks(h) => Uniform(disk["install"][h])
           /\ ~Restages(h) => Uniform(disk["active"][h])
           /\ Uniform(disk["backup"][h])
           /\ BacksUp(h) => Same(disk["active"][h], disk["backup"][h])
           /\ mounted[h].files["info"] = mounted[h].files["img"]
BY DEF MatchInd, Matches, At, Unpacks, Restages, BacksUp

\* The same, after it.
LEMMA MatchesNext ==
    ASSUME NEW h \in Hmps,
           h \notin cut' => /\ ~Unpacks(h)' => Uniform(disk'["install"][h])
                            /\ ~Restages(h)' => Uniform(disk'["active"][h])
                            /\ Uniform(disk'["backup"][h])
                            /\ BacksUp(h)' => Same(disk'["active"][h], disk'["backup"][h])
                            /\ mounted'[h].files["info"] = mounted'[h].files["img"]
    PROVE  Matches(h)'
BY DEF Matches, At, Unpacks, Restages, BacksUp

\* The request part of the invariant: an unpacking goes on unchanged, but for a revert that
\* removes what it wrote, or there is none.
UnpackOK == Written /\ (req.pc = "verify" => req.todo = {})

LEMMA UnpackKept ==
    ASSUME UnpackOK, NEW r \in Hmps, r = req.hmp, disk \in Disks, req \in RequestType,
           req'.pc \in {"extract", "verify"} =>
              /\ req'.pc = req.pc /\ req'.hmp = r /\ req'.pkg = req.pkg /\ req'.todo = req.todo
              /\ \A f \in FileName : disk'["install"][r].files[f] \in {disk["install"][r].files[f], 0},
           Unpacked(req.pkg.kind) \subseteq FileName \/ req'.pc \notin {"extract", "verify"}
    PROVE  UnpackOK'
<1>1. CASE req'.pc \in {"extract", "verify"}
  <2>1. \A f \in Unpacked(req.pkg.kind) \ req.todo : disk["install"][r].files[f] \in {req.pkg.ver, 0}
    BY <1>1 DEF UnpackOK, Written, At
  <2>2. \A f \in Unpacked(req.pkg.kind) \ req.todo : disk'["install"][r].files[f] \in {req.pkg.ver, 0}
    BY <1>1, <2>1
  <2> QED
    BY <1>1, <2>2 DEF UnpackOK, Written, At
<1>2. CASE req'.pc \notin {"extract", "verify"}
  BY <1>2 DEF UnpackOK, Written
<1> QED
  BY <1>1, <1>2

LEMMA MatchParts == MatchInd <=> UnpackOK /\ \A h \in Hmps : Matches(h)
BY DEF MatchInd, UnpackOK

\* A removal leaves at most one file, and takes nothing but files away.
LEMMA ShrinkMatches ==
    ASSUME BootInd, MatchInd, NEW p \in Place, NEW r \in Hmps, Shrinks(p, r),
           mounted' = mounted, cut' = cut, req' = req, wk' = wk, NEW h \in Hmps
    PROVE  Matches(h)'
<1>0. /\ \A q \in Place : q # p \/ h # r => disk'[q][h] = disk[q][h]
      /\ disk'[p][r].files["info"] = 0 \/ disk'[p][r].files["img"] = 0
      /\ \A f \in FileName : disk'[p][r].files[f] \in {disk[p][r].files[f], 0}
      /\ (Unpacks(h)' <=> Unpacks(h)) /\ (Restages(h)' <=> Restages(h)) /\ (BacksUp(h)' <=> BacksUp(h))
      /\ {"install", "active", "backup"} = Place
  BY WorkerFacts DEF Shrinks, Changed, Unpacks, Restages, BacksUp, Requested, Working
<1>1. CASE h # r
  <2>1. Steady(h)
    BY <1>0, <1>1 DEF Steady
  <2> QED
    BY <2>1, SteadyMatches DEF MatchInd
<1>2. CASE h = r /\ h \notin cut
  <2>1. \A q \in Place : Uniform(disk[q][h]) => Uniform(disk'[q][h])
    BY <1>0, <1>2 DEF Uniform
  <2>2. \A q \in Place, f \in FileName : disk'[q][h].files[f] \in {disk[q][h].files[f], 0}
    BY <1>0, <1>2
  <2>3. Same(disk["active"][h], disk["backup"][h]) => Same(disk'["active"][h], disk'["backup"][h])
    <3>1. \A f \in FileName : /\ disk'["active"][h].files[f] \in {disk["active"][h].files[f], 0}
                              /\ disk'["backup"][h].files[f] \in {disk["backup"][h].files[f], 0}
      BY <1>0, <2>2
    <3> QED
      BY <3>1 DEF Same
  <2> QED
    BY <1>0, <1>2, <2>1, <2>3, MatchesFacts, MatchesNext
<1>3. CASE h \in cut
  BY <1>3 DEF Matches
<1> QED
  BY <1>1, <1>2, <1>3

LEMMA RevertMatch ==
    ASSUME BootInd, MatchInd, RevertNext, UNCHANGED <<bootVars, due>>
    PROVE  MatchInd'
<1>r. PICK r \in Hmps : r = rv.hmp
  BY RevertEffect
<1>q. PICK q \in Hmps : q = req.hmp
  BY RequestFacts
<1>0. /\ rv.pc # "idle" /\ OnlyHmp(r)
      /\ RevertRemoves \/ RevertGoes \/ RevertMoves
      /\ UNCHANGED <<req, wk, mounted, cut>> /\ disk \in Disks /\ req \in RequestType
      /\ {"install", "active", "backup"} = Place
  BY <1>r, RevertEffect, RequestFacts, WorkerFacts DEF serviceVars, historyVars, bootVars
<1>1. \A f \in FileName : disk'["install"][q].files[f] \in {disk["install"][q].files[f], 0}
  <2>1. CASE RevertRemoves
    BY <1>r, <1>0, <2>1 DEF RevertRemoves, Shrinks, Changed
  <2>2. CASE RevertGoes
    BY <2>2 DEF RevertGoes
  <2>3. CASE RevertMoves
    BY <1>r, <1>0, <2>3 DEF RevertMoves, OnlyHmp
  <2> QED
    BY <1>0, <2>1, <2>2, <2>3
<1>2. UnpackOK'
  <2>1. Unpacked(req.pkg.kind) \subseteq FileName \/ req'.pc \notin {"extract", "verify"}
    BY <1>0, RequestFacts, PackageFacts DEF InstallPC
  <2> QED
    BY <1>q, <1>0, <1>1, <2>1, UnpackKept, MatchParts
<1>3. ASSUME NEW h \in Hmps PROVE Matches(h)'
  <2>1. CASE RevertRemoves
    <3>1. rv.pc \in Place /\ Shrinks(rv.pc, r)
      BY <1>r, <1>0, <2>1 DEF RevertRemoves
    <3> QED
      BY <1>0, <3>1, ShrinkMatches
  <2>2. CASE RevertGoes \/ h # r
    <3>1. \A p \in Place : disk'[p][h] = disk[p][h]
      BY <1>0, <2>2 DEF RevertGoes, OnlyHmp
    <3>2. Steady(h)
      BY <1>0, <3>1 DEF Steady, Unpacks, Restages, BacksUp, Requested, Working
    <3> QED
      BY <3>2, SteadyMatches DEF MatchInd
  <2>3. CASE RevertMoves /\ h = r /\ h \notin cut
    <3>1. /\ disk'["active"][h] = disk["backup"][h] /\ disk'["backup"][h].files["info"] = 0
          /\ disk'["backup"][h].files["img"] = 0 /\ disk'["install"][h] = disk["install"][h]
      BY <1>r, <2>3, NoDirFacts, NoFilesFacts DEF RevertMoves
    <3>2. (Unpacks(h)' <=> Unpacks(h)) /\ mounted'[h] = mounted[h]
      BY <1>0 DEF Unpacks, Requested
    <3>3. Uniform(disk'["backup"][h]) /\ Same(disk'["active"][h], disk'["backup"][h])
      BY <3>1 DEF Uniform, Same, FileName
    <3> QED
      BY <2>3, <3>1, <3>2, <3>3, MatchesFacts, MatchesNext
  <2>4. CASE h \in cut
    BY <1>0, <2>4 DEF Matches
  <2> QED
    BY <1>0, <2>1, <2>2, <2>3, <2>4
<1> QED
  BY <1>2, <1>3, MatchParts DEF MatchInd, UnpackOK

\* The steps of a request leave the other hmps alone.
LEMMA OthersMatch ==
    ASSUME MatchInd, NEW r \in Hmps, OnlyHmp(r), cut \subseteq cut',
           req.pc = "idle" \/ req.hmp = r, req'.pc = "idle" \/ req'.hmp = r,
           NEW h \in Hmps, h # r, mounted'[h] = mounted[h],
           wk' = wk \/ ((wk.pc = "idle" \/ wk.hmp = r) /\ (wk'.pc = "idle" \/ wk'.hmp = r))
    PROVE  Matches(h)'
<1>1. Steady(h)
  BY DEF Steady, OnlyHmp, Unpacks, Restages, BacksUp, Requested, Working
<1> QED
  BY <1>1, SteadyMatches DEF MatchInd

LEMMA UnpackEnds == ASSUME req'.pc \notin {"extract", "verify"} PROVE UnpackOK'
BY DEF UnpackOK, Written

\* An install of a package that names its version unpacks, verifies and backs up.
LEMMA InstallMatch ==
    ASSUME BootInd, MatchInd, "bare" \notin PackageKinds, UNCHANGED <<wk, due>>,
           InstallExtract \/ InstallModuleFile \/ BackupFile
           \/ (BackupRemove /\ ~disk["backup"][req.hmp].there)
    PROVE  MatchInd'
<1>r. PICK r \in Hmps : r = req.hmp
  BY RequestFacts
<1>0. /\ disk \in Disks /\ req \in RequestType /\ UnpackOK /\ {"install", "active", "backup"} = Place
      /\ \A p \in Place : disk[p][r] \in GoodDir
      /\ \A h \in Hmps : Matches(h)
  BY <1>r, RequestFacts, WorkerFacts, MatchParts
<1>1. CASE InstallExtract
  <2>1. PICK f \in FileName : ExtractEffect(f)
    BY <1>1, ExtractFacts
  <2>2. /\ req.pc = "extract" /\ f \in req.todo /\ Wrote("install", r, f, req.pkg.ver) /\ OnlyHmp(r)
        /\ req'.hmp = r /\ req'.pkg = req.pkg /\ req'.todo = req.todo \ {f}
        /\ req'.pc = (IF req.todo = {f} THEN "verify" ELSE "extract")
        /\ UNCHANGED <<mounted, cut>>
        /\ disk'["active"][r] = disk["active"][r] /\ disk'["backup"][r] = disk["backup"][r]
    BY <1>r, <1>0, <2>1, ChangedOnly DEF ExtractEffect, Wrote, Changed
  <2>3. UnpackOK'
    <3>1. Unpacked(req.pkg.kind) \subseteq FileName
      BY <2>2, RequestFacts, PackageFacts DEF InstallPC
    <3>2. ASSUME NEW g \in Unpacked(req.pkg.kind), g \notin req'.todo
          PROVE  disk'["install"][r].files[g] \in {req.pkg.ver, 0}
      <4>1. g \in FileName
        BY <3>1
      <4>2. CASE g = f
        BY <2>2, <4>2 DEF Wrote
      <4>3. CASE g # f
        BY <1>r, <1>0, <2>2, <3>2, <4>1, <4>3 DEF Wrote, UnpackOK, Written, At
      <4> QED
        BY <4>2, <4>3
    <3> QED
      BY <2>2, <3>2 DEF UnpackOK, Written, At
  <2>4. Matches(r)'
    <3>1. Unpacks(r)' /\ ~BacksUp(r)' /\ (Restages(r)' <=> Restages(r))
      BY <2>2 DEF Unpacks, BacksUp, Restages, Requested, Working
    <3> QED
      BY <2>2, <3>1, MatchesFacts, MatchesNext
  <2>5. ASSUME NEW h \in Hmps, h # r PROVE Matches(h)'
    BY <1>r, <2>2, <2>5, OthersMatch
  <2> QED
    BY <2>3, <2>4, <2>5 DEF MatchInd, UnpackOK
<1>2. CASE InstallModuleFile
  <2>1. ModuleFileEffect
    BY <1>2, ModuleFileFacts
  <2>2. /\ req.pc = "verify" /\ Changed("install", r) /\ OnlyHmp(r) /\ req'.hmp = r
        /\ req'.pc \in {"undo", "prepare"} /\ UNCHANGED <<mounted, cut>>
        /\ disk'["active"][r] = disk["active"][r] /\ disk'["backup"][r] = disk["backup"][r]
    BY <1>r, <1>0, <2>1, ChangedOnly DEF ModuleFileEffect, Changed
  <2>3. ASSUME req'.pc = "prepare" PROVE Uniform(disk'["install"][r])
    <3>1. CASE disk["install"][r].files["info"] = 0
      BY <1>r, <2>1, <3>1 DEF ModuleFileEffect, Uniform
    <3>2. CASE disk["install"][r].files["info"] # 0
      <4>1. /\ req.pkg \in Packages /\ req.todo = {} /\ "info" \in Unpacked(req.pkg.kind)
            /\ req.pkg.kind \in {"full", "incr"}
        BY <1>0, <2>2, RequestFacts, PackageFacts, StoreAssumption DEF InstallPC, UnpackOK
      <4>2. disk'["install"][r].files["info"] = req.pkg.ver
        BY <1>r, <1>0, <2>1, <2>2, <3>2, <4>1 DEF ModuleFileEffect, UnpackOK, Written, At
      <4>3. CASE req.pkg.kind = "incr"
        BY <1>r, <2>1, <2>3, <3>2, <4>2, <4>3 DEF ModuleFileEffect, Uniform
      <4>4. CASE req.pkg.kind = "full"
        <5>1. disk["install"][r].files["img"] \in {req.pkg.ver, 0}
          BY <1>r, <1>0, <2>2, <4>1, <4>4 DEF UnpackOK, Written, At, Unpacked, FileName
        <5> QED
          BY <1>r, <2>1, <2>3, <3>2, <4>2, <4>4, <5>1 DEF ModuleFileEffect, Uniform
      <4> QED
        BY <4>1, <4>3, <4>4
    <3> QED
      BY <3>1, <3>2
  <2>4. Matches(r)'
    <3>1. (req'.pc = "undo" => Unpacks(r)') /\ ~BacksUp(r)' /\ (Restages(r)' <=> Restages(r))
      BY <2>2 DEF Unpacks, BacksUp, Restages, Requested, Working
    <3> QED
      BY <2>2, <2>3, <3>1, MatchesFacts, MatchesNext
  <2>5. ASSUME NEW h \in Hmps, h # r PROVE Matches(h)'
    BY <1>r, <2>2, <2>5, OthersMatch
  <2> QED
    BY <2>2, <2>4, <2>5, UnpackEnds DEF MatchInd, UnpackOK
<1>3. CASE BackupRemove /\ ~disk["backup"][req.hmp].there
  <2>1. ListEffect
    BY <1>3, ListFacts
  <2>2. /\ req.pc = "bkRemove" /\ Made("backup", r) /\ ~disk["backup"][r].there /\ OnlyHmp(r)
        /\ req'.hmp = r /\ req'.pc \in {"verity", "link"} /\ UNCHANGED <<mounted, cut>>
        /\ disk'["active"][r] = disk["active"][r] /\ disk'["install"][r] = disk["install"][r]
    BY <1>r, <1>0, <2>1, ChangedOnly DEF ListEffect, Made, Changed
  <2>3. disk'["backup"][r].files["info"] = 0 /\ disk'["backup"][r].files["img"] = 0
    BY <1>0, <2>2, DirFacts DEF Made
  <2>4. Uniform(disk'["backup"][r]) /\ Same(disk'["active"][r], disk'["backup"][r])
    BY <2>3 DEF Uniform, Same, FileName
  <2>5. Matches(r)'
    <3>1. ~Unpacks(r) /\ (Restages(r)' <=> Restages(r))
      BY <2>2 DEF Unpacks, Restages, Working
    <3> QED
      BY <2>2, <2>4, <3>1, MatchesFacts, MatchesNext
  <2>6. ASSUME NEW h \in Hmps, h # r PROVE Matches(h)'
    BY <1>r, <2>2, <2>6, OthersMatch
  <2> QED
    BY <2>2, <2>5, <2>6, UnpackEnds DEF MatchInd, UnpackOK
<1>4. CASE BackupFile
  <2>1. PICK f \in FileName : LinkEffect(f)
    BY <1>4, LinkFacts
  <2>2. /\ req.pc = "link" /\ req'.hmp = r /\ req'.pc \in {"bkUndo", "verity", "link"}
        /\ UNCHANGED <<mounted, cut>>
        /\ \/ disk' = disk
           \/ Wrote("backup", r, f, disk["active"][r].files[f]) /\ disk["active"][r].files[f] # 0
    BY <1>r, <2>1 DEF LinkEffect
  <2>3. /\ OnlyHmp(r) /\ disk'["active"][r] = disk["active"][r]
        /\ disk'["install"][r] = disk["install"][r]
    BY <1>0, <2>2, ChangedOnly DEF Wrote, Changed, OnlyHmp
  <2>4. ASSUME r \notin cut
        PROVE  Uniform(disk'["backup"][r]) /\ Same(disk'["active"][r], disk'["backup"][r])
    <3>1. BacksUp(r) /\ ~Restages(r)
      BY <1>r, <2>2, WorkerFacts DEF BacksUp, Restages, Requested, Working
    <3>2. /\ Uniform(disk["active"][r]) /\ Uniform(disk["backup"][r])
          /\ Same(disk["active"][r], disk["backup"][r])
      BY <2>4, <3>1, MatchesFacts
    <3> QED
      BY <2>2, <2>3, <3>2 DEF Wrote, Uniform, Same, FileName
  <2>5. Matches(r)'
    <3>1. ~Unpacks(r) /\ (Restages(r)' <=> Restages(r))
      BY <2>2 DEF Unpacks, Restages, Working
    <3> QED
      BY <2>2, <2>3, <2>4, <3>1, MatchesFacts, MatchesNext
  <2>6. ASSUME NEW h \in Hmps, h # r PROVE Matches(h)'
    BY <1>r, <2>2, <2>3, <2>6, OthersMatch
  <2> QED
    BY <2>2, <2>5, <2>6, UnpackEnds DEF MatchInd, UnpackOK
<1> QED
  BY <1>1, <1>2, <1>3, <1>4

LEMMA ServiceMatch ==
    ASSUME BootInd, MatchInd, "bare" \notin PackageKinds, ServiceNext, UNCHANGED <<bootVars, due>>
    PROVE  MatchInd'
<1>r. PICK r \in Hmps : r = req.hmp
  BY RequestFacts
<1>0. /\ UNCHANGED <<wk, due>> /\ disk \in Disks /\ req \in RequestType
      /\ {"install", "active", "backup"} = Place /\ (\A h \in Hmps : Matches(h)) /\ UnpackOK
      /\ \A p \in Place : disk[p][r] \in GoodDir
  BY <1>r, RequestFacts, WorkerFacts, MatchParts DEF bootVars
<1>1. ASSUME NEW g \in Hmps, NEW p \in Packages, InstallBegin(g, p) PROVE MatchInd'
  <2>1. BeginEffect(g, p)
    BY <1>1, BeginFacts
  <2>2. /\ req.pc = "idle" /\ OnlyHmp(g) /\ req'.hmp = g /\ req'.pc \in {"extract", "undo"}
        /\ disk'["active"][g] = disk["active"][g] /\ disk'["backup"][g] = disk["backup"][g]
        /\ req'.todo = Unpacked(req'.pkg.kind) /\ UNCHANGED <<mounted, cut>>
    BY <1>0, <2>1, ChangedOnly DEF BeginEffect, Changed
  <2>3. UnpackOK'
    BY <2>2 DEF UnpackOK, Written
  <2>4. Matches(g)'
    <3>1. Unpacks(g)' /\ ~BacksUp(g)' /\ (Restages(g)' <=> Restages(g))
      BY <1>0, <2>2 DEF Unpacks, BacksUp, Restages, Requested, Working
    <3> QED
      BY <2>2, <3>1, MatchesFacts, MatchesNext
  <2>5. ASSUME NEW h \in Hmps, h # g PROVE Matches(h)'
    BY <1>0, <2>2, <2>5, OthersMatch
  <2> QED
    BY <2>3, <2>4, <2>5 DEF MatchInd, UnpackOK
<1>2. CASE InstallFinish
  <2>1. FinishEffect
    BY <1>2, FinishFacts
  <2>2. /\ req.pc = "verity" /\ Changed("active", r) /\ OnlyHmp(r) /\ req' = NoRequest
        /\ disk'["active"][r].files = disk["active"][r].files /\ UNCHANGED <<mounted, cut>>
        /\ disk'["install"][r] = disk["install"][r] /\ disk'["backup"][r] = disk["backup"][r]
    BY <1>r, <1>0, <2>1, ChangedOnly DEF FinishEffect, Made, Changed
  <2>3. Matches(r)'
    <3>1. ~Unpacks(r) /\ ~BacksUp(r)' /\ (Restages(r)' <=> Restages(r))
      BY <1>0, <2>2, IdleTypes DEF Unpacks, BacksUp, Restages, Requested, Working
    <3>2. Uniform(disk["active"][r]) => Uniform(disk'["active"][r])
      BY <2>2 DEF Uniform
    <3> QED
      BY <2>2, <3>1, <3>2, MatchesFacts, MatchesNext
  <2>4. ASSUME NEW h \in Hmps, h # r PROVE Matches(h)'
    BY <1>r, <1>0, <2>2, <2>4, IdleTypes, OthersMatch
  <2> QED
    BY <2>2, <2>3, <2>4, IdleTypes, UnpackEnds DEF MatchInd, UnpackOK
<1>3. ASSUME NEW g \in Hmps, UninstallBegin(g) PROVE MatchInd'
  <2>1. UninstallEffect(g)
    BY <1>3, UninstallFacts
  <2>2. \A h \in Hmps : Steady(h)
    BY <1>0, <2>1 DEF UninstallEffect, Steady, Unpacks, BacksUp, Restages, Requested, Working
  <2>3. req'.pc = "unInstall"
    BY <2>1 DEF UninstallEffect
  <2> QED
    BY <1>0, <2>2, <2>3, SteadyMatches, UnpackEnds DEF MatchInd, UnpackOK
<1>4. CASE QueryVersions \/ ServiceExit
  <2>1. UNCHANGED <<disk, req, mounted, cut>> /\ req.pc = "idle"
    BY <1>4 DEF QueryVersions, ServiceExit, historyVars
  <2>2. \A h \in Hmps : Steady(h)
    BY <1>0, <2>1 DEF Steady, Unpacks, BacksUp, Restages, Requested, Working
  <2> QED
    BY <1>0, <2>1, <2>2, SteadyMatches, UnpackEnds DEF MatchInd, UnpackOK
<1>5. CASE InstallPrepare \/ (BackupRemove /\ disk["backup"][req.hmp].there) \/ BackupUndo
            \/ InstallFails \/ InstallUndo \/ UninstallStep \/ RemovalFails
  <2>1. CASE ReqRemoves
    <3>1. /\ req' = req /\ req.pc \notin {"extract", "verify"} /\ UNCHANGED <<mounted, cut>>
          /\ Removed[req.pc] \in Place /\ Shrinks(Removed[req.pc], r)
      BY <1>r, <1>0, <2>1 DEF ReqRemoves, Removed
    <3> QED
      BY <1>0, <3>1, ShrinkMatches, UnpackEnds DEF MatchInd, UnpackOK
  <2>2. CASE ReqGoes
    <3>1. /\ disk' = disk /\ mounted' = mounted /\ cut \subseteq cut' /\ OnlyHmp(r)
          /\ req.pc # "idle" /\ (req'.pc = "idle" \/ req'.hmp = r)
          /\ req'.pc \notin {"extract", "verify", "link"}
      BY <1>r, <1>0, <2>2, IdleTypes DEF ReqGoes, OnlyHmp, RequestType, UninstallPlace, AfterRemoval
    <3>2. Unpacks(r) => Unpacks(r)' \/ r \in cut' \/ ~disk["install"][r].there
      <4>1. req.pc \in {"extract", "verify", "undo"} =>
              req'.pc = "undo" \/ r \in cut' \/ ~disk["install"][r].there
        BY <1>r, <2>2 DEF ReqGoes, UninstallPlace
      <4> QED
        BY <1>r, <3>1, <4>1 DEF Unpacks, Requested
    <3>3. ~disk["install"][r].there => Uniform(disk["install"][r])
      BY <1>0, DirFacts DEF Uniform
    <3>4. Matches(r)'
      <4>1. ~BacksUp(r)' /\ (Restages(r)' <=> Restages(r))
        BY <1>0, <3>1 DEF BacksUp, Restages, Working
      <4> QED
        BY <3>1, <3>2, <3>3, <4>1, MatchesFacts, MatchesNext
    <3>5. ASSUME NEW h \in Hmps, h # r PROVE Matches(h)'
      BY <1>r, <1>0, <3>1, <3>5, OthersMatch
    <3> QED
      BY <3>1, <3>4, <3>5, UnpackEnds DEF MatchInd, UnpackOK
  <2> QED
    BY <1>5, <2>1, <2>2, ReqQuiet
<1> QED
  BY <1>0, <1>1, <1>2, <1>3, <1>4, <1>5, InstallMatch DEF ServiceNext, InstallNext

LEMMA MonitorMatch ==
    ASSUME BootInd, MatchInd, MonitorRevert, UNCHANGED <<bootVars, due>>
    PROVE  MatchInd'
<1>q. PICK q \in Hmps : q = req.hmp
  BY RequestFacts
<1>1. /\ UNCHANGED <<disk, wk, mounted, cut>> /\ req'.pc = req.pc /\ req'.hmp = req.hmp
      /\ req'.pkg = req.pkg /\ req'.todo = req.todo /\ disk \in Disks /\ req \in RequestType
  BY RequestFacts DEF MonitorRevert, bootVars, RequestType
<1>2. \A h \in Hmps : Steady(h)
  BY <1>1 DEF Steady, Unpacks, BacksUp, Restages, Requested, Working
<1>3. UnpackOK'
  <2>1. Unpacked(req.pkg.kind) \subseteq FileName \/ req'.pc \notin {"extract", "verify"}
    BY <1>1, RequestFacts, PackageFacts DEF InstallPC
  <2> QED
    BY <1>q, <1>1, <2>1, UnpackKept, MatchParts
<1> QED
  BY <1>2, <1>3, SteadyMatches DEF MatchInd, UnpackOK

LEMMA WorkerMatch ==
    ASSUME BootInd, MatchInd, WorkerNext
    PROVE  MatchInd'
<1>r. PICK r \in Hmps : r = wk.hmp
  BY WorkerFacts
<1>0. /\ disk \in Disks /\ {"install", "active", "backup"} = Place /\ wk \in WorkerType
      /\ (\A h \in Hmps : Matches(h)) /\ mounted \in [Hmps -> MountType]
      /\ \A p \in Place : disk[p][r] \in GoodDir
  BY WorkerFacts, MatchParts
<1>1. req' = req /\ req.pc = "idle" /\ UnpackOK'
  <2>1. req' = req /\ phase = "boot"
    BY WorkerFacts
    DEF WorkerNext, WorkerTake, StageBegin, StageNoDir, ChooseActive, ChooseSystem, StageLink,
        StageUnlink, StageFails, StageDone, ClearActive, ClearBackup, ClearFails, MountSucceeds,
        MountFails, NoLoopDevice, wkAlone, wkQuiet, serviceVars
  <2>2. req.pc = "idle"
    BY <2>1, WorkerFacts DEF Control
  <2> QED
    BY <2>1, <2>2, UnpackEnds
<1>2. ASSUME NEW g \in Hmps, WorkerTake(g) PROVE MatchInd'
  <2>1. TakeEffect(g)
    BY <1>2, TakeFacts
  <2>2. \A h \in Hmps : Steady(h)
    BY <2>1 DEF TakeEffect, Steady, Unpacks, BacksUp, Restages, Requested, Working
  <2> QED
    BY <1>0, <1>1, <2>2, SteadyMatches DEF MatchInd, UnpackOK
<1>3. CASE StageBegin \/ StageLink \/ StageUnlink
  <2>1. StageEffect /\ BootInd'
    BY <1>3, StageFacts, StageInd
  <2>2. /\ UNCHANGED <<mounted, cut>> /\ wk.pc \in {"choose", "link", "unlink"} /\ wk'.hmp = r
        /\ Changed("active", r) /\ OnlyHmp(r)
    BY <1>r, <2>1, ChangedOnly
    DEF StageEffect, BeginStageEffect, LinkStageEffect, UnlinkStageEffect, Wrote, wkAlone, wkQuiet,
        historyVars
  <2>3. disk'["install"][r] = disk["install"][r] /\ disk'["backup"][r] = disk["backup"][r]
    BY <1>0, <2>2 DEF Changed
  <2>4. ASSUME r \notin cut, wk'.pc # "unlink" PROVE Uniform(disk'["active"][r])
    <3>1. CASE BeginStageEffect \/ UnlinkStageEffect
      <4>1. PICK f \in FileName : disk'["active"][r].files[f] = 0
        BY <1>r, <1>0, <3>1 DEF BeginStageEffect, UnlinkStageEffect, Wrote, FileName, WorkerType
      <4> QED
        BY <4>1 DEF Uniform, FileName
    <3>2. CASE LinkStageEffect
      <4>1. wk'.pc = "staged"
        BY <2>4, <3>2 DEF LinkStageEffect
      <4>2. disk'["active"][r].files = disk'["install"][r].files
        BY <2>1, <2>2, <4>1 DEF BootInd, Staging, At
      <4>3. Uniform(disk["install"][r])
        BY <1>1, <2>4, MatchesFacts DEF Unpacks
      <4> QED
        BY <2>3, <4>2, <4>3 DEF Uniform
    <3> QED
      BY <2>1, <3>1, <3>2 DEF StageEffect
  <2>5. Matches(r)'
    <3>1. ~Unpacks(r) /\ ~BacksUp(r)' /\ (wk'.pc = "unlink" => Restages(r)')
      BY <1>1, <2>2 DEF Unpacks, BacksUp, Restages, Requested, Working
    <3> QED
      BY <2>2, <2>3, <2>4, <3>1, MatchesFacts, MatchesNext
  <2>6. ASSUME NEW h \in Hmps, h # r PROVE Matches(h)'
    BY <1>r, <1>1, <2>2, <2>6, OthersMatch
  <2> QED
    BY <1>1, <2>5, <2>6 DEF MatchInd, UnpackOK
<1>4. CASE StageNoDir \/ ChooseActive \/ ChooseSystem \/ StageDone \/ StageFails
  <2>1. /\ UNCHANGED <<disk, mounted, cut>> /\ wk.pc \in {"choose", "link", "staged"}
    BY <1>4, ChooseFacts, SystemFacts DEF SystemEffect, ActiveEffect, wkAlone, wkQuiet
  <2>2. \A h \in Hmps : Steady(h)
    BY <1>1, <2>1 DEF Steady, Unpacks, BacksUp, Restages, Requested
  <2> QED
    BY <1>0, <1>1, <2>2, SteadyMatches DEF MatchInd, UnpackOK
<1>5. CASE ClearActive \/ ClearBackup \/ ClearFails
  <2>1. ClearEffect /\ UNCHANGED <<mounted, cut>> /\ wk.pc # "unlink"
    BY <1>5, ClearFacts DEF ClearEffect, wkQuiet, historyVars
  <2>2. CASE disk' = disk
    <3>1. \A h \in Hmps : Steady(h)
      BY <1>1, <2>1, <2>2 DEF Steady, Unpacks, BacksUp, Restages, Requested
    <3> QED
      BY <1>0, <1>1, <3>1, SteadyMatches DEF MatchInd, UnpackOK
  <2>3. CASE wk' = wk /\ \E p \in Place : Shrinks(p, r)
    BY <1>1, <2>1, <2>3, ShrinkMatches DEF MatchInd, UnpackOK
  <2> QED
    BY <1>r, <1>0, <2>1, <2>2, <2>3 DEF ClearEffect
<1>6. CASE MountSucceeds \/ MountFails \/ NoLoopDevice
  <2>1. MountEffect /\ UNCHANGED <<disk, cut>> /\ wk.pc = "mount" /\ OnlyHmp(r) /\ wk'.pc = "idle"
    BY <1>0, <1>6, MountFacts, IdleTypes DEF MountEffect, OnlyHmp
  <2>2. ASSUME NEW h \in Hmps, h # r PROVE Matches(h)'
    <3>1. mounted'[h] = mounted[h]
      BY <1>r, <1>0, <2>1, <2>2 DEF MountEffect
    <3> QED
      BY <1>r, <1>1, <2>1, <2>2, <3>1, OthersMatch
  <2>3. ASSUME r \notin cut PROVE mounted'[r].files["info"] = mounted'[r].files["img"]
    <3>1. CASE mounted' = mounted
      BY <2>3, <3>1, MatchesFacts
    <3>2. CASE mounted' # mounted
      <4>1. mounted'[r].files = (IF wk.src = "pre" THEN [f \in FileName |-> pre[r]]
                                                  ELSE disk["active"][r].files)
        BY <1>r, <1>0, <2>1, <3>2 DEF MountEffect
      <4>2. CASE wk.src = "pre"
        BY <4>1, <4>2 DEF FileName
      <4>3. CASE wk.src = "active"
        <5>1. Openable(disk["active"][r]) /\ Uniform(disk["active"][r])
          BY <1>r, <2>1, <2>3, <4>3, WorkerFacts, MatchesFacts DEF Staging, At, Restages
        <5> QED
          BY <1>0, <4>1, <4>3, <5>1, DirFacts DEF Uniform
      <4> QED
        BY <1>0, <4>2, <4>3 DEF WorkerType
    <3> QED
      BY <3>1, <3>2
  <2>4. Matches(r)'
    <3>1. ~Unpacks(r) /\ ~Restages(r) /\ ~BacksUp(r)'
      BY <1>1, <2>1 DEF Unpacks, BacksUp, Restages, Requested
    <3> QED
      BY <2>1, <2>3, <3>1, MatchesFacts, MatchesNext
  <2> QED
    BY <1>1, <2>2, <2>4 DEF MatchInd, UnpackOK
<1> QED
  BY <1>2, <1>3, <1>4, <1>5, <1>6 DEF WorkerNext

LEMMA MainMatch ==
    ASSUME BootInd, MatchInd, MainNext
    PROVE  MatchInd'
<1>0. /\ UNCHANGED <<req, wk, mounted, cut>> /\ disk \in Disks /\ req.pc = "idle"
      /\ "install" \in Place /\ \A h \in Hmps : Matches(h)
  BY WorkerFacts, MatchParts
  DEF MainNext, PowerOn, MainWait, MainJoin, MainClean, MainDone, serviceVars, historyVars, bootVars,
      Control, Typed, DeviceTypes
<1>1. UnpackOK'
  BY <1>0, UnpackEnds
<1>2. CASE disk' = disk
  <2>1. \A h \in Hmps : Steady(h)
    BY <1>0, <1>2 DEF Steady, Unpacks, BacksUp, Restages, Requested, Working
  <2> QED
    BY <1>0, <1>1, <2>1, SteadyMatches DEF MatchInd, UnpackOK
<1>3. CASE MainClean
  <2>1. PICK r \in Hmps : RemoveStep("install", r)
    BY <1>3 DEF MainClean
  <2>2. Shrinks("install", r)
    BY <1>0, <2>1, RemoveStepFacts
  <2> QED
    BY <1>0, <1>1, <2>2, ShrinkMatches DEF MatchInd, UnpackOK
<1> QED
  BY <1>2, <1>3 DEF MainNext, PowerOn, MainWait, MainJoin, MainDone

LEMMA PowerMatch ==
    ASSUME BootInd, MatchInd, (Reboot \/ Restart \/ Crash) \/ \E v \in Versions : SystemUpdate(v)
    PROVE  MatchInd'
<1>1. CASE Reboot \/ Restart \/ Crash
  <2>1. /\ req' = NoRequest /\ wk' = NoTask /\ disk' = disk /\ cut' = cut \cup Copying
        /\ mounted' = [h \in Hmps |-> NotMounted] /\ req'.pc = "idle" /\ wk'.pc = "idle"
    BY <1>1, PowerInd, IdleTypes DEF DownEffect
  <2>2. ASSUME NEW h \in Hmps PROVE Matches(h)'
    <3>1. h \notin cut' => h \notin cut /\ ~Unpacks(h) /\ ~Restages(h)
      BY <2>1 DEF Copying, Unpacks, Restages, Requested, Working
    <3>2. ~BacksUp(h)' /\ mounted'[h].files["info"] = mounted'[h].files["img"]
      BY <2>1, IdleTypes, NoFilesFacts DEF BacksUp, Requested
    <3> QED
      BY <2>1, <3>1, <3>2, MatchesFacts, MatchesNext
  <2> QED
    BY <2>1, <2>2, UnpackEnds DEF MatchInd, UnpackOK
<1>2. ASSUME NEW v \in Versions, SystemUpdate(v) PROVE MatchInd'
  <2>1. UNCHANGED <<req, wk, mounted, cut, disk>> /\ req.pc = "idle"
    BY <1>2, BootIndParts DEF SystemUpdate, Control, serviceVars, bootVars
  <2>2. \A h \in Hmps : Steady(h)
    BY <2>1 DEF Steady, Unpacks, BacksUp, Restages, Requested, Working
  <2> QED
    BY <2>1, <2>2, SteadyMatches, UnpackEnds DEF MatchInd, UnpackOK
<1> QED
  BY <1>1, <1>2

LEMMA MatchNext ==
    ASSUME BootInd, MatchInd, "bare" \notin PackageKinds, [BootNext]_vars
    PROVE  MatchInd'
<1>1. CASE UNCHANGED vars
  <2>1. UNCHANGED <<disk, req, wk, mounted, cut>>
    BY <1>1 DEF vars, serviceVars, historyVars, bootVars
  <2>2. \A h \in Hmps : Steady(h)
    BY <2>1 DEF Steady, Unpacks, BacksUp, Restages, Requested, Working
  <2>3. UnpackOK'
    BY <2>1 DEF MatchInd, UnpackOK, Written, At
  <2> QED
    BY <2>2, <2>3, SteadyMatches DEF MatchInd, UnpackOK
<1>2. CASE BootNext
  BY <1>2, WorkerMatch, MainMatch, RevertMatch, ServiceMatch, MonitorMatch, PowerMatch DEF BootNext
<1> QED
  BY <1>1, <1>2
-----------------------------------------------------------------------------
(***************************************************************************)
(* The theorems.                                                           *)
(***************************************************************************)
LEMMA BootIndHolds == BootSpec => []BootInd
<1>1. BootInd /\ [BootNext]_vars => BootInd'
  BY NextInd
<1> QED
  BY <1>1, InitInd, PTL DEF BootSpec

\* The types of the device, and the worker never stages from an install directory that
\* is not whole, whatever requests, reverts and power losses come before.
THEOREM BootStagesFromWhole == BootSpec => []BootInv
<1>1. BootInd => BootInv
  BY DEF BootInd, BootInv, StagedFromWhole, Staging
<1> QED
  BY <1>1, BootIndHolds, PTL

LEMMA SurviveInit == BootInit => SurviveInd
BY IdleTypes DEF BootInit, SurviveInd, BackedUp, Survives

\* The package that was active before a successful install stays complete in the active
\* or the backup directory, however staging, reverts and power losses interleave.
THEOREM BootPreviousSurvives == BootSpec => []PreviousSurvives
<1>1. BootInd /\ SurviveInd /\ [BootNext]_vars => SurviveInd'
  BY SurviveNext
<1>2. SurviveInd => PreviousSurvives
  BY DEF SurviveInd, Survives, PreviousSurvives
<1> QED
  BY <1>1, <1>2, BootIndHolds, SurviveInit, PTL DEF BootSpec

LEMMA MatchInit == BootInit => MatchInd
BY IdleTypes, NoDirFacts, NoFilesFacts
DEF BootInit, MatchInd, Written, Matches, Uniform, Requested, At, Place

\* The image that runs is of the version that is reported, unless a copy was cut short: for
\* packages that have a module_info.zip, without which nothing tells what version an image is.
THEOREM BootRunsWhatItReports ==
    ASSUME "bare" \notin PackageKinds
    PROVE  BootSpec => []RunsWhatItReports
<1>1. BootInd /\ MatchInd /\ [BootNext]_vars => MatchInd'
  BY MatchNext
<1>2. MatchInd => RunsWhatItReports
  BY DEF MatchInd, Matches, RunsWhatItReports
<1> QED
  BY <1>1, <1>2, BootIndHolds, MatchInit, PTL DEF BootSpec

LEMMA PromiseInit == BootInit => PromiseInd
BY IdleTypes DEF BootInit, PromiseInd, Unpacking, Promises, Due

\* What an install reported as a success promises is mounted after the boot, however often
\* power is lost on the way, its image too unless a copy was cut short: for packages that have
\* a module_info.zip, since one without can be reported a success and never chosen.
THEOREM BootPromiseKept ==
    ASSUME "bare" \notin PackageKinds
    PROVE  BootSpec => []PromiseKept
<1>1. BootInd /\ PromiseInd /\ [BootNext]_vars => PromiseInd'
  BY PromiseNext
<1>2. BootInd /\ MatchInd /\ [BootNext]_vars => MatchInd'
  BY MatchNext
<1>3. PromiseInd /\ MatchInd => PromiseKept
  BY DEF PromiseInd, Due, MatchInd, Matches, PromiseKept
<1> QED
  BY <1>1, <1>2, <1>3, BootIndHolds, PromiseInit, MatchInit, PTL DEF BootSpec
=============================================================================
