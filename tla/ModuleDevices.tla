--------------------------- MODULE ModuleDevices ----------------------------
(***************************************************************************)
(* How a module gets its block device at boot: the one worker of the task  *)
(* pool binds the image to a free loop device, puts a dm-verity device on  *)
(* top of an updated (not a preinstalled) one and mounts it, module after  *)
(* module, while other processes use loop devices too.                     *)
(*                                                                         *)
(* The kernel's loop devices are external: a device is free or bound to an *)
(* image; LOOP_CLR_FD unbinds it, or marks it to be unbound by the last    *)
(* close if somebody else has it open.                                     *)
(***************************************************************************)
EXTENDS Naturals, FiniteSets, FiniteSetsExt

CONSTANTS Modules,                     \* modules to be mounted
          Foreign,                     \* other processes that use loop devices
          NoImage,                     \* what a free device is bound to
          MaxLoops,                    \* bound: loop devices of the kernel
          LOOP_DEVICE_SETUP_ATTEMPTS   \* 3 in the code

ASSUME DevicesAssumption ==
    /\ NoImage \notin Modules \cup Foreign
    /\ Modules \cap Foreign = {}
    /\ {"fd", "clr", "dm", "mount"} \cap Foreign = {}
    /\ MaxLoops \in Nat \ {0, 1} /\ LOOP_DEVICE_SETUP_ATTEMPTS \in Nat \ {0}

VARIABLES devs,    \* numbers of the loop devices that exist
          loops,   \* [img, auto, holders] of each device
          dms,     \* loop devices with a dm device on top, which bears their name
          w,       \* the worker: [pc, m, attempt, num, verity]
          state,   \* "new", "mounted" or "failed" for each module
          points,  \* modules whose mount point exists
          has,     \* history: the device each foreign process has bound, or MaxLoops
          raced    \* history: foreign devices taken between GET_FREE and SET_FD

vars == <<devs, loops, dms, w, state, points, has, raced>>

Loop == 0..(MaxLoops - 1)
None == MaxLoops
Rest == [pc |-> "idle", m |-> NoImage, attempt |-> 0, num |-> None, verity |-> FALSE]

(***************************************************************************)
(* The kernel.                                                             *)
(***************************************************************************)
Free(L, n) == L[n].img = NoImage
Unbound(l) == [l EXCEPT !.img = NoImage, !.auto = FALSE]
Open(L, n, h) == [L EXCEPT ![n].holders = @ \cup {h}]

\* LOOP_CLR_FD by somebody who has the device open.
ClrFd(L, n) == [L EXCEPT ![n] = IF @.img = NoImage THEN @
                                ELSE IF Cardinality(@.holders) <= 1 THEN Unbound(@)
                                ELSE [@ EXCEPT !.auto = TRUE]]

\* The last close of a device that is marked unbinds it.
ClosedBy(l, h) == [l EXCEPT !.holders = @ \ {h}]
Released(l) == IF l.auto /\ l.holders = {} THEN Unbound(l) ELSE l
Close(L, n, h) == [L EXCEPT ![n] = Released(ClosedBy(@, h))]
-----------------------------------------------------------------------------
Goto(pc) == w' = [w EXCEPT !.pc = pc]

\* A wrong MaybeCloseBad: the device is closed and not cleared.
CloseOnly(L) == Close(L, w.num, "fd")

\* The destructor of LoopbackDeviceUniqueFd clears the device, whosever it is, and closes it.
MaybeCloseBad(L) == Close(ClrFd(L, w.num), w.num, "fd")

\* CloseLoopDev opens the device for itself.
CloseLoopDev(L) == Close(ClrFd(Open(L, w.num, "clr"), w.num), w.num, "clr")

\* MountModulePackage returns false.
ReturnFalse ==
    /\ state' = [state EXCEPT ![w.m] = "failed"]
    /\ w' = Rest

\* The scope guard removes the mount point on the way, or only warns that it cannot.
GiveUp ==
    /\ ReturnFalse
    /\ points' \in {points \ {w.m}, points}
-----------------------------------------------------------------------------
(***************************************************************************)
(* PreAllocateLoopDevices and the mount point.                             *)
(***************************************************************************)
\* The largest number in /dev/block, plus one; loop0 alone does not count as found.
StartId == LET top == Max(devs \cup {0}) IN IF top > 0 THEN top + 1 ELSE 0

PreAllocateLoopDevices(m) ==
    /\ w.pc = "idle" /\ state[m] = "new"
    /\ devs' = devs \cup ({StartId} \cap Loop)
    /\ \E v \in BOOLEAN : w' = [Rest EXCEPT !.pc = "point", !.m = m, !.verity = v]
    /\ UNCHANGED <<loops, dms, state, points, has, raced>>

\* loop-control does not come up or the device cannot be added: nothing is mounted.
PreAllocateFails(m) ==
    /\ w.pc = "idle" /\ state[m] = "new"
    /\ state' = [state EXCEPT ![m] = "failed"]
    /\ UNCHANGED <<devs, loops, dms, w, points, has, raced>>

\* The directory may be there already.  If it cannot be made there is no scope guard yet.
CreateMountPoint ==
    /\ w.pc = "point"
    /\ \/ points' = points \cup {w.m} /\ Goto("loop") /\ UNCHANGED state
       \/ ReturnFalse /\ UNCHANGED points
    /\ UNCHANGED <<devs, loops, dms, has, raced>>

\* CheckModulePackage: something is in the mount point, which rmdir cannot remove then, or
\* there is no image.
CheckModulePackageFails ==
    /\ w.pc = "loop" /\ w.attempt = 0
    /\ (ReturnFalse /\ UNCHANGED points) \/ GiveUp
    /\ UNCHANGED <<devs, loops, dms, has, raced>>
-----------------------------------------------------------------------------
(***************************************************************************)
(* CreateLoopDevice, up to LOOP_DEVICE_SETUP_ATTEMPTS times.               *)
(***************************************************************************)
\* The loop of CreateLoopDevice goes on, or the module is given up.
AttemptFails(L) ==
    /\ loops' = L
    /\ IF w.attempt < LOOP_DEVICE_SETUP_ATTEMPTS
       THEN w' = [w EXCEPT !.pc = "loop", !.num = None] /\ UNCHANGED <<state, points>>
       ELSE GiveUp

\* A wrong GetFree: the lowest device, free or not.
GetFirst == Min(devs \cup {0})

\* LOOP_CTL_GET_FREE gives the lowest free device, a new one if there is none.
GetFree == Min({n \in Loop : Free(loops, n) \/ n \notin devs})

\* A wrong LoopCtlGetFree: the attempts are not counted.
GetFreeUncounted ==
    /\ w.pc = "loop"
    /\ \E n \in Loop : Free(loops, n)
    /\ devs' = devs \cup {GetFree}
    /\ w' = [w EXCEPT !.pc = "open", !.num = GetFree]
    /\ UNCHANGED <<loops, dms, state, points, has, raced>>

LoopCtlGetFree ==
    /\ w.pc = "loop"
    /\ \E n \in Loop : Free(loops, n)
    /\ devs' = devs \cup {GetFree}
    /\ w' = [w EXCEPT !.pc = "open", !.num = GetFree, !.attempt = @ + 1]
    /\ UNCHANGED <<loops, dms, state, points, has, raced>>

\* loop-control cannot be opened, or no device is left.
LoopCtlFails ==
    /\ w.pc = "loop"
    /\ IF w.attempt + 1 < LOOP_DEVICE_SETUP_ATTEMPTS
       THEN w' = [w EXCEPT !.attempt = @ + 1] /\ UNCHANGED <<state, points>>
       ELSE GiveUp
    /\ UNCHANGED <<devs, loops, dms, has, raced>>

\* The node is there at once or appears within six tries.
WaitForDevice ==
    /\ w.pc = "open"
    /\ loops' = Open(loops, w.num, "fd")
    /\ Goto("setup")
    /\ UNCHANGED <<devs, dms, state, points, has, raced>>

WaitForDeviceFails ==
    /\ w.pc = "open"
    /\ AttemptFails(loops)
    /\ UNCHANGED <<devs, dms, has, raced>>

Bind(auto) == [loops EXCEPT ![w.num].img = w.m, ![w.num].auto = auto]

\* ConfigureLoopDevice binds and sets the flags at once.
ConfigureLoopDevice ==
    /\ Free(loops, w.num)
    /\ loops' = Bind(TRUE) /\ Goto("ahead")
    /\ UNCHANGED <<state, points>>

\* SetLoopDeviceStatus: LOOP_SET_FD succeeds and LOOP_SET_STATUS64 fails.
SetLoopDeviceStatusFails ==
    /\ Free(loops, w.num)
    /\ AttemptFails(MaybeCloseBad(Bind(FALSE)))

\* The image cannot be opened, or the device refuses it: it must if somebody else has
\* bound it since GET_FREE.
SetUpFails == AttemptFails(MaybeCloseBad(loops))

SetUpLoopDevice ==
    /\ w.pc = "setup"
    /\ ConfigureLoopDevice \/ SetLoopDeviceStatusFails \/ SetUpFails
    /\ UNCHANGED <<devs, dms, has, raced>>

ConfigureReadAhead ==
    /\ w.pc = "ahead"
    /\ \/ Goto(IF w.verity THEN "verify" ELSE "mount") /\ UNCHANGED <<loops, state, points>>
       \/ AttemptFails(MaybeCloseBad(loops))
    /\ UNCHANGED <<devs, dms, has, raced>>
-----------------------------------------------------------------------------
(***************************************************************************)
(* VerifyAndCreateDm and the mount.  What fails now fails the module.      *)
(***************************************************************************)
VerifyModuleVerity ==
    /\ w.pc = "verify"
    /\ \/ Goto("dm") /\ UNCHANGED <<loops, state, points>>
       \/ GiveUp /\ loops' = MaybeCloseBad(loops)
    /\ UNCHANGED <<devs, dms, has, raced>>

CreateDmDevice ==
    /\ w.pc = "dm"
    /\ dms' = dms \cup {w.num}
    /\ loops' = Open(loops, w.num, "dm")
    /\ Goto("mount")
    /\ UNCHANGED <<devs, state, points, has, raced>>

\* ClearDmLoopDevice(blockDevice, false): a dm device that FsDmInitDmDev left is not removed.
CreateDmDeviceFails ==
    /\ w.pc = "dm"
    /\ \E left \in BOOLEAN :
          /\ dms' = IF left THEN dms \cup {w.num} ELSE dms
          /\ loops' = MaybeCloseBad(CloseLoopDev(IF left THEN Open(loops, w.num, "dm") ELSE loops))
    /\ GiveUp
    /\ UNCHANGED <<devs, has, raced>>

\* The descriptor is released and never closed (CloseGood).
Mount ==
    /\ w.pc = "mount"
    /\ loops' = Open(loops, w.num, "mount")
    /\ state' = [state EXCEPT ![w.m] = "mounted"]
    /\ w' = Rest
    /\ UNCHANGED <<devs, dms, points, has, raced>>

(***************************************************************************)
(* ClearDmLoopDevice(blockDevice, true): RemoveDmDevice is given the file  *)
(* name of the dm device's path, not the name the device was created with, *)
(* and may fail; without a dm device it does fail, and the loop device is  *)
(* left to the destructor.                                                 *)
(***************************************************************************)
MountFails ==
    /\ w.pc = "mount"
    /\ \/ UNCHANGED dms /\ loops' = MaybeCloseBad(loops)
       \/ /\ w.verity
          /\ dms' = dms \ {w.num}
          /\ loops' = MaybeCloseBad(Close(loops, w.num, "dm"))
    /\ GiveUp
    /\ UNCHANGED <<devs, has, raced>>
-----------------------------------------------------------------------------
(***************************************************************************)
(* The other processes (external): bind a free device, close it and rely   *)
(* on the binding, unbind it.                                              *)
(***************************************************************************)
ForeignBind(f) ==
    /\ has[f] = None
    /\ \E n \in devs :
          /\ Free(loops, n)
          /\ loops' = [loops EXCEPT ![n].img = f, ![n].holders = @ \cup {f}]
          /\ has' = [has EXCEPT ![f] = n]
          /\ raced' = IF n = w.num /\ w.pc \in {"open", "setup"} THEN raced \cup {f} ELSE raced
    /\ UNCHANGED <<devs, dms, w, state, points>>

ForeignClose(f) ==
    /\ has[f] # None /\ f \in loops[has[f]].holders
    /\ loops' = Close(loops, has[f], f)
    /\ UNCHANGED <<devs, dms, w, state, points, has, raced>>

ForeignUnbind(f) ==
    /\ has[f] # None /\ f \notin loops[has[f]].holders
    /\ loops' = IF loops[has[f]].img = f
                THEN Close(ClrFd(Open(loops, has[f], f), has[f]), has[f], f) ELSE loops
    /\ has' = [has EXCEPT ![f] = None]
    /\ raced' = raced \ {f}
    /\ UNCHANGED <<devs, dms, w, state, points>>
-----------------------------------------------------------------------------
Init ==
    /\ devs \in {{}, {0}, 0..1}
    /\ loops = [n \in Loop |-> [img |-> NoImage, auto |-> FALSE, holders |-> {}]]
    /\ dms = {} /\ points \in SUBSET Modules
    /\ w = Rest
    /\ state = [m \in Modules |-> "new"]
    /\ has = [f \in Foreign |-> None]
    /\ raced = {}

WorkerStep ==
    \/ \E m \in Modules : PreAllocateLoopDevices(m) \/ PreAllocateFails(m)
    \/ CreateMountPoint \/ CheckModulePackageFails
    \/ LoopCtlGetFree \/ LoopCtlFails \/ WaitForDevice \/ WaitForDeviceFails
    \/ SetUpLoopDevice \/ ConfigureReadAhead
    \/ VerifyModuleVerity \/ CreateDmDevice \/ CreateDmDeviceFails
    \/ Mount \/ MountFails

Next ==
    \/ WorkerStep
    \/ \E f \in Foreign : ForeignBind(f) \/ ForeignClose(f) \/ ForeignUnbind(f)

Spec == Init /\ [][Next]_vars

\* The worker runs; system calls return.
FairSpec == Spec /\ WF_vars(WorkerStep)
-----------------------------------------------------------------------------
(***************************************************************************)
(* Properties.                                                             *)
(***************************************************************************)
\* The types of the device state.
DevicesTypeOK ==
    /\ devs \subseteq Loop /\ dms \subseteq devs
    /\ \A n \in Loop : /\ loops[n].img \in Modules \cup Foreign \cup {NoImage}
                       /\ loops[n].auto \in BOOLEAN
                       /\ loops[n].img # NoImage => n \in devs
    /\ w.attempt \in 0..LOOP_DEVICE_SETUP_ATTEMPTS /\ w.num \in Loop \cup {None}
    /\ state \in [Modules -> {"new", "mounted", "failed"}]
    /\ points \subseteq Modules
    /\ has \in [Foreign -> Loop \cup {None}] /\ raced \subseteq Foreign

(***************************************************************************)
(* A module whose mount failed frees its loop device: none is bound to its *)
(* image, except below a dm device that was not removed.  This includes    *)
(* the attempt that failed between LOOP_SET_FD and LOOP_SET_STATUS64, when *)
(* the kernel would not clear the device by itself.  The mount point may   *)
(* be left: rmdir fails if something is in it, and is not tried again.     *)
(***************************************************************************)
FailureFreesDevice ==
    \A m \in Modules : state[m] = "failed" =>
        \A n \in Loop : loops[n].img = m => n \in dms /\ loops[n].holders = {"dm"}

(***************************************************************************)
(* At most one loop device is bound to a module's image, and a mounted     *)
(* module has one, and its mount point: neither a failure of a later       *)
(* module nor a retry takes them away.                                     *)
(***************************************************************************)
OneDevicePerModule ==
    \A m \in Modules :
        /\ Cardinality({n \in Loop : loops[n].img = m}) <= 1
        /\ state[m] = "mounted" =>
               /\ m \in points
               /\ \E n \in Loop : loops[n].img = m /\ "mount" \in loops[n].holders

\* The types, and one device per module.
DevicesInv == DevicesTypeOK /\ OneDevicePerModule

(***************************************************************************)
(* The binding of another process is not taken away, unless it was made    *)
(* between LOOP_CTL_GET_FREE and the attempt to bind: then the failed      *)
(* attempt's LOOP_CLR_FD hits it.                                          *)
(***************************************************************************)
ForeignKept ==
    \A f \in Foreign : has[f] # None => loops[has[f]].img = f \/ f \in raced

(***************************************************************************)
(* Every module is mounted or given up in the end, whatever the other      *)
(* processes do to the devices.                                            *)
(***************************************************************************)
EveryModuleSettles == <>(\A m \in Modules : state[m] # "new")
=============================================================================
