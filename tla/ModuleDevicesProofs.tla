------------------------ MODULE ModuleDevicesProofs -------------------------
(***************************************************************************)
(* Proofs about ModuleDevices, for any modules, foreign processes, number  *)
(* of loop devices and number of attempts: types and one device per        *)
(* module, a failed mount leaves nothing bound, and the bindings of other  *)
(* processes are kept.                                                     *)
(***************************************************************************)
EXTENDS ModuleDevices, FiniteSetTheorems, WellFoundedInduction, TLAPS

-----------------------------------------------------------------------------
(***************************************************************************)
(* The least free device.                                                  *)
(***************************************************************************)
\* The order of the numbers, as the relation that is known to be well-founded.
LEMMA Below == ASSUME NEW x \in Nat, NEW y \in Nat, y < x PROVE <<y, x>> \in OpToRel(<, Nat)
<1>1. <<y, x>> \in {ss \in Nat \X Nat : ss[1] < ss[2]}
  OBVIOUS
<1> QED
  BY <1>1, Zenon DEF OpToRel

\* A set of numbers that is not empty has a least member.
LEMMA MinMember == ASSUME NEW S, S \subseteq Nat, S # {} PROVE Min(S) \in S
<1>1. \E x \in S : \A y \in S : ~(<<y, x>> \in OpToRel(<, Nat))
  BY NatLessThanWellFounded, WFMin
<1>2. \E x \in S : \A y \in S : ~(y < x)
  BY <1>1, Below, Zenon
<1>3. \E x \in S : \A y \in S : x =< y
  BY <1>2
<1> QED
  BY <1>3 DEF Min

-----------------------------------------------------------------------------
(***************************************************************************)
(* The kernel's operations, device by device.                              *)
(***************************************************************************)
Images == Modules \cup Foreign \cup {NoImage}
Holders == Foreign \cup {"fd", "clr", "dm", "mount"}
Device == [img : Images, auto : BOOLEAN, holders : SUBSET Holders]
Devices == [Loop -> Device]

\* The device that LOOP_CLR_FD leaves when the caller is h.
LEMMA ClrFdFacts ==
    ASSUME NEW L \in Devices, NEW n \in Loop, IsFiniteSet(L[n].holders), NEW h \in L[n].holders
    PROVE  /\ ClrFd(L, n) \in Devices
           /\ \A k \in Loop : k # n => ClrFd(L, n)[k] = L[k]
           /\ ClrFd(L, n)[n].holders = L[n].holders
           /\ L[n].img = NoImage => ClrFd(L, n)[n] = L[n]
           /\ L[n].img # NoImage /\ L[n].holders = {h} =>
                 ClrFd(L, n)[n].img = NoImage /\ ~ClrFd(L, n)[n].auto
           /\ L[n].img # NoImage /\ L[n].holders # {h} =>
                 ClrFd(L, n)[n].img = L[n].img /\ ClrFd(L, n)[n].auto
<1>0. L[n] \in Device /\ L[n].holders \in SUBSET Holders
  BY DEF Devices, Device
<1>1. Cardinality(L[n].holders) <= 1 <=> L[n].holders = {h}
  <2>1. Cardinality({h}) = 1 /\ IsFiniteSet({h})
    BY FS_Singleton
  <2>2. {h} \subseteq L[n].holders
    OBVIOUS
  <2>3. Cardinality(L[n].holders) \in Nat
    BY FS_CardinalityType
  <2>4. L[n].holders # {h} => Cardinality({h}) < Cardinality(L[n].holders)
    BY <2>1, <2>2, <2>3, FS_Subset
  <2>5. CASE L[n].holders = {h}
    <3>1. Cardinality(L[n].holders) = 1
      BY <2>1, <2>5, Zenon
    <3> QED
      BY <2>5, <3>1
  <2>6. CASE L[n].holders # {h}
    BY <2>1, <2>3, <2>4, <2>6
  <2> QED
    BY <2>5, <2>6
<1> DEFINE d == IF L[n].img = NoImage THEN L[n]
                ELSE IF Cardinality(L[n].holders) <= 1 THEN Unbound(L[n])
                ELSE [L[n] EXCEPT !.auto = TRUE]
<1>2. ClrFd(L, n) = [L EXCEPT ![n] = d]
  BY DEF ClrFd
<1>3. /\ d \in Device /\ d.holders = L[n].holders
      /\ L[n].img = NoImage => d = L[n]
      /\ L[n].img # NoImage /\ L[n].holders = {h} => d.img = NoImage /\ d.auto = FALSE
      /\ L[n].img # NoImage /\ L[n].holders # {h} => d.img = L[n].img /\ d.auto = TRUE
  <2>1. CASE L[n].img = NoImage
    <3>1. d = L[n]
      BY <2>1
    <3> QED
      BY <1>0, <2>1, <3>1, Zenon
  <2>2. CASE L[n].img # NoImage /\ L[n].holders = {h}
    <3>1. d = Unbound(L[n])
      BY <1>1, <2>2
    <3> QED
      BY <1>0, <2>2, <3>1 DEF Unbound, Device, Images
  <2>3. CASE L[n].img # NoImage /\ L[n].holders # {h}
    <3>1. d = [L[n] EXCEPT !.auto = TRUE]
      BY <1>1, <2>3
    <3> QED
      BY <1>0, <2>3, <3>1 DEF Device
  <2> QED
    BY <2>1, <2>2, <2>3
<1> HIDE DEF d
<1>4. ClrFd(L, n)[n] = d /\ \A k \in Loop : k # n => ClrFd(L, n)[k] = L[k]
  BY <1>2 DEF Devices
<1>5. ClrFd(L, n) \in Devices
  BY <1>2, <1>3 DEF Devices
<1> QED
  BY <1>3, <1>4, <1>5

\* The device that the close by h leaves.
LEMMA CloseFacts ==
    ASSUME NEW L \in Devices, NEW n \in Loop, NEW h
    PROVE  /\ Close(L, n, h) \in Devices
           /\ \A k \in Loop : k # n => Close(L, n, h)[k] = L[k]
           /\ Close(L, n, h)[n].holders = L[n].holders \ {h}
           /\ L[n].auto /\ L[n].holders \ {h} = {} =>
                 Close(L, n, h)[n].img = NoImage /\ ~Close(L, n, h)[n].auto
           /\ ~(L[n].auto /\ L[n].holders \ {h} = {}) =>
                 Close(L, n, h)[n].img = L[n].img /\ Close(L, n, h)[n].auto = L[n].auto
<1>0. L[n] \in Device /\ L[n].holders \in SUBSET Holders
  BY DEF Devices, Device
<1> DEFINE l == ClosedBy(L[n], h)
           d == Released(l)
<1>1. Close(L, n, h) = [L EXCEPT ![n] = d]
  BY DEF Close
<1>2. l \in Device /\ l.img = L[n].img /\ l.auto = L[n].auto /\ l.holders = L[n].holders \ {h}
  BY <1>0 DEF ClosedBy, Device
<1> HIDE DEF l
<1>3. /\ d \in Device /\ d.holders = L[n].holders \ {h}
      /\ L[n].auto /\ L[n].holders \ {h} = {} => d.img = NoImage /\ d.auto = FALSE
      /\ ~(L[n].auto /\ L[n].holders \ {h} = {}) => d.img = L[n].img /\ d.auto = L[n].auto
  BY <1>0, <1>2 DEF Released, Unbound, Device, Images
<1> HIDE DEF d
<1>4. Close(L, n, h)[n] = d /\ \A k \in Loop : k # n => Close(L, n, h)[k] = L[k]
  BY <1>1 DEF Devices
<1>5. Close(L, n, h) \in Devices
  BY <1>1, <1>3 DEF Devices
<1> QED
  BY <1>3, <1>4, <1>5

\* The device that is opened by h.
LEMMA OpenFacts ==
    ASSUME NEW L \in Devices, NEW n \in Loop, NEW h \in Holders
    PROVE  /\ Open(L, n, h) \in Devices
           /\ \A k \in Loop : k # n => Open(L, n, h)[k] = L[k]
           /\ Open(L, n, h)[n].holders = L[n].holders \cup {h}
           /\ Open(L, n, h)[n].img = L[n].img /\ Open(L, n, h)[n].auto = L[n].auto
<1>0. L[n] \in Device /\ L[n].holders \in SUBSET Holders
  BY DEF Devices, Device
<1> DEFINE d == [L[n] EXCEPT !.holders = L[n].holders \cup {h}]
<1>1. Open(L, n, h) = [L EXCEPT ![n] = d]
  BY DEF Open
<1>2. d \in Device /\ d.img = L[n].img /\ d.auto = L[n].auto /\ d.holders = L[n].holders \cup {h}
  BY <1>0 DEF Device
<1> HIDE DEF d
<1> QED
  BY <1>1, <1>2 DEF Devices

\* Clearing and closing by the caller h, who has the device open: it is free, or still bound
\* because somebody else has it open.
LEMMA ReleaseFacts ==
    ASSUME NEW L \in Devices, NEW n \in Loop, IsFiniteSet(L[n].holders), NEW h \in L[n].holders,
           L[n].img = NoImage => ~L[n].auto
    PROVE  LET C == Close(ClrFd(L, n), n, h) IN
           /\ C \in Devices
           /\ \A k \in Loop : k # n => C[k] = L[k]
           /\ C[n].holders = L[n].holders \ {h}
           /\ L[n].img = NoImage \/ L[n].holders = {h} => C[n].img = NoImage /\ ~C[n].auto
           /\ L[n].img # NoImage /\ L[n].holders # {h} => C[n].img = L[n].img /\ C[n].auto
<1> DEFINE K == ClrFd(L, n)
           C == Close(K, n, h)
<1>1. /\ K \in Devices /\ \A k \in Loop : k # n => K[k] = L[k]
      /\ K[n].holders = L[n].holders
      /\ L[n].img = NoImage => K[n] = L[n]
      /\ L[n].img # NoImage /\ L[n].holders = {h} => K[n].img = NoImage /\ ~K[n].auto
      /\ L[n].img # NoImage /\ L[n].holders # {h} => K[n].img = L[n].img /\ K[n].auto
  BY ClrFdFacts
<1> HIDE DEF K
<1>2. /\ C \in Devices /\ \A k \in Loop : k # n => C[k] = K[k]
      /\ C[n].holders = K[n].holders \ {h}
      /\ K[n].auto /\ K[n].holders \ {h} = {} => C[n].img = NoImage /\ ~C[n].auto
      /\ ~(K[n].auto /\ K[n].holders \ {h} = {}) => C[n].img = K[n].img /\ C[n].auto = K[n].auto
  BY <1>1, CloseFacts
<1> HIDE DEF C
<1>3. L[n].holders # {h} => L[n].holders \ {h} # {}
  OBVIOUS
<1>4. /\ C \in Devices /\ \A k \in Loop : k # n => C[k] = L[k]
      /\ C[n].holders = L[n].holders \ {h}
      /\ L[n].img = NoImage \/ L[n].holders = {h} => C[n].img = NoImage /\ ~C[n].auto
      /\ L[n].img # NoImage /\ L[n].holders # {h} => C[n].img = L[n].img /\ C[n].auto
  BY <1>1, <1>2, <1>3
<1> QED
  BY <1>4 DEF C, K
-----------------------------------------------------------------------------
(***************************************************************************)
(* The inductive invariant.                                                *)
(***************************************************************************)
\* The worker has chosen device w.num; the worker has it open; it is bound to w.m.
Chosen == {"open", "setup", "ahead", "verify", "dm", "mount"}
Opened == Chosen \ {"open"}
Attached == Opened \ {"setup"}

Worker == [pc : {"idle", "point", "loop"} \cup Chosen, m : Modules \cup {NoImage},
           attempt : 0..LOOP_DEVICE_SETUP_ATTEMPTS, num : Loop \cup {None}, verity : BOOLEAN]

\* Where the worker stands.
WorkerOK ==
    /\ w.pc = "idle" => w = Rest
    /\ w.pc # "idle" => w.m \in Modules /\ state[w.m] = "new"
    /\ w.pc \in {"idle", "point", "loop"} <=> w.num = None
    /\ w.pc = "point" => w.attempt = 0
    /\ w.pc = "loop" => w.attempt < LOOP_DEVICE_SETUP_ATTEMPTS
    /\ w.pc \in Chosen => w.num \in devs
    /\ w.pc \in Opened => "fd" \in loops[w.num].holders
    /\ w.pc \in Attached => loops[w.num].img = w.m
    /\ w.pc \in {"verify", "dm"} => w.verity

\* The worker's descriptor of a device that it has not bound.
WorkerFd(n) == IF n = w.num /\ w.pc = "setup" THEN {"fd"} ELSE {}

\* A free device is not marked, and only the worker may have it open.
FreeOK(n) == ~loops[n].auto /\ loops[n].holders = WorkerFd(n)

(***************************************************************************)
(* A device that a foreign process f has bound is open by f or the worker, *)
(* and f still has it, unless f has unbound it while the worker had it     *)
(* open.  It is marked, or the worker's choice, only if f came in between. *)
(***************************************************************************)
ForeignOK(n, f) ==
    /\ loops[n].holders \subseteq {f} \cup WorkerFd(n)
    /\ \/ /\ has[f] = n
          /\ loops[n].auto \/ n = w.num => f \in raced
       \/ /\ has[f] # n /\ n = w.num /\ w.pc = "setup"
          /\ loops[n].auto /\ loops[n].holders = {"fd"}

\* A device that is bound to a module is mounted, left below a dm device, or the worker's.
ModuleOK(n, m) ==
    \/ /\ state[m] = "mounted" /\ n # w.num
       /\ "mount" \in loops[n].holders /\ loops[n].holders \cap Foreign = {}
    \/ /\ state[m] = "failed" /\ n # w.num
       /\ n \in dms /\ loops[n].holders = {"dm"}
    \/ /\ m = w.m /\ n = w.num /\ w.pc \in Attached
       /\ w.pc = "mount" /\ w.verity => n \in dms
       /\ loops[n].holders = IF w.pc = "mount" /\ w.verity THEN {"fd", "dm"} ELSE {"fd"}

DeviceOK(n) ==
    /\ loops[n].img = NoImage => FreeOK(n)
    /\ loops[n].img \in Foreign => ForeignOK(n, loops[n].img)
    /\ loops[n].img \in Modules => ModuleOK(n, loops[n].img)
    /\ loops[n].img # NoImage => n \in devs
    /\ IsFiniteSet(loops[n].holders)

\* No two devices are bound to one module, and a mounted module has its device.
OneDevice ==
    /\ \A k, n \in Loop : loops[k].img \in Modules /\ loops[k].img = loops[n].img => k = n
    /\ \A m \in Modules : state[m] = "mounted" => \E n \in Loop : loops[n].img = m

\* A mounted module has its mount point, and so has the one that is being mounted.
PointsOK ==
    /\ \A m \in Modules : state[m] = "mounted" => m \in points
    /\ w.pc \notin {"idle", "point"} => w.m \in points

StateOK ==
    /\ devs \subseteq Loop /\ dms \subseteq devs
    /\ loops \in Devices /\ w \in Worker
    /\ state \in [Modules -> {"new", "mounted", "failed"}]
    /\ points \subseteq Modules
    /\ has \in [Foreign -> Loop \cup {None}] /\ raced \subseteq Foreign

DevicesInd ==
    /\ StateOK /\ WorkerOK /\ OneDevice /\ PointsOK /\ ForeignKept
    /\ \A n \in Loop : DeviceOK(n)

\* What the invariant says.
LEMMA DevicesSafe == DevicesInd => DevicesInv /\ FailureFreesDevice /\ ForeignKept
<1> SUFFICES ASSUME DevicesInd PROVE DevicesInv /\ FailureFreesDevice /\ ForeignKept
  OBVIOUS
<1>0. \A n \in Loop : loops[n] \in Device
  BY DEF DevicesInd, StateOK, Devices
<1>1. DevicesTypeOK
  BY <1>0 DEF DevicesInd, StateOK, DeviceOK, DevicesTypeOK, Worker, Device, Images
<1>2. ASSUME NEW m \in Modules PROVE Cardinality({n \in Loop : loops[n].img = m}) <= 1
  <2>1. CASE {n \in Loop : loops[n].img = m} = {}
    BY <2>1, FS_EmptySet
  <2>2. CASE {n \in Loop : loops[n].img = m} # {}
    <3>1. PICK k \in Loop : loops[k].img = m
      BY <2>2
    <3>2. {n \in Loop : loops[n].img = m} = {k}
      BY <1>2, <3>1 DEF DevicesInd, OneDevice
    <3> QED
      BY <3>2, FS_Singleton
  <2> QED
    BY <2>1, <2>2
<1>3. ASSUME NEW m \in Modules, state[m] = "mounted"
      PROVE  m \in points /\ \E n \in Loop : loops[n].img = m /\ "mount" \in loops[n].holders
  <2>1. PICK n \in Loop : loops[n].img = m
    BY <1>3 DEF DevicesInd, OneDevice
  <2>2. ModuleOK(n, m)
    BY <2>1 DEF DevicesInd, DeviceOK
  <2>3. "mount" \in loops[n].holders
    BY <1>3, <2>1, <2>2 DEF ModuleOK, DevicesInd, WorkerOK, Attached, Opened, Chosen
  <2> QED
    BY <1>3, <2>1, <2>3 DEF DevicesInd, PointsOK
<1>4. ASSUME NEW m \in Modules, state[m] = "failed", NEW n \in Loop, loops[n].img = m
      PROVE  n \in dms /\ loops[n].holders = {"dm"}
  <2>1. ModuleOK(n, m)
    BY <1>4 DEF DevicesInd, DeviceOK
  <2> QED
    BY <1>4, <2>1 DEF ModuleOK, DevicesInd, WorkerOK, Attached, Opened, Chosen
<1> QED
  BY <1>1, <1>2, <1>3, <1>4 DEF DevicesInv, OneDevicePerModule, FailureFreesDevice, DevicesInd
-----------------------------------------------------------------------------
(***************************************************************************)
(* Steps of the worker.                                                    *)
(***************************************************************************)
\* The parts of the assumptions that the steps need.
LEMMA Kinds ==
    /\ NoImage \notin Modules /\ NoImage \notin Foreign /\ None \notin Loop
    /\ \A f \in Foreign : f \notin Modules /\ f \notin {"fd", "clr", "dm", "mount"}
    /\ Loop \subseteq Nat /\ {0, 1} \subseteq Loop
BY DevicesAssumption DEF Loop, None

\* The worker's module has no device but the worker's.
LEMMA OwnDevice ==
    ASSUME DevicesInd, w.pc # "idle", NEW n \in Loop, loops[n].img = w.m
    PROVE  n = w.num /\ w.pc \in Attached
<1>1. w.m \in Modules /\ state[w.m] = "new" /\ DeviceOK(n)
  BY DEF DevicesInd, WorkerOK
<1>2. ModuleOK(n, w.m)
  BY <1>1 DEF DeviceOK
<1> QED
  BY <1>1, <1>2 DEF ModuleOK

\* A step of the worker that changes at most its own device.
WorkerMoves ==
    /\ UNCHANGED <<has, raced>> /\ devs \subseteq devs'
    /\ \A n \in Loop : n # w.num => loops'[n] = loops[n] /\ (n \in dms => n \in dms')
    /\ \A m \in Modules : state[m] # "new" => state'[m] = state[m]
    /\ \A m \in Modules : state'[m] = "mounted" =>
          state[m] = "mounted" \/ (m = w.m /\ w.num \in Loop /\ loops'[w.num].img = m)
    /\ w.num \in Loop => loops'[w.num].img \in {NoImage, loops[w.num].img, w.m}

\* The devices that are not the worker's stay as they should be.
LEMMA OthersKept ==
    ASSUME DevicesInd, WorkerMoves, NEW n \in Loop, n # w.num, n # w'.num
    PROVE  DeviceOK(n)'
<1>1. DeviceOK(n) /\ loops'[n] = loops[n] /\ has' = has /\ raced' = raced
  BY DEF DevicesInd, WorkerMoves
<1>2. loops[n].img = NoImage => FreeOK(n)'
  BY <1>1 DEF DeviceOK, FreeOK, WorkerFd
<1>3. loops[n].img \in Foreign => ForeignOK(n, loops[n].img)'
  BY <1>1 DEF DeviceOK, ForeignOK, WorkerFd
<1>4. loops[n].img \in Modules => ModuleOK(n, loops[n].img)'
  BY <1>1 DEF DeviceOK, ModuleOK, WorkerMoves
<1> QED
  BY <1>1, <1>2, <1>3, <1>4 DEF DeviceOK, WorkerMoves

\* What such a step keeps.
LEMMA WorkerKeeps ==
    ASSUME DevicesInd, WorkerMoves,
           \A n \in Loop : n \in {w.num, w'.num} => DeviceOK(n)'
    PROVE  ForeignKept' /\ OneDevice' /\ \A n \in Loop : DeviceOK(n)'
<1>0. /\ w.num \in Loop => w.pc # "idle" /\ w.pc \in Chosen
      /\ has \in [Foreign -> Loop \cup {None}]
  BY Kinds DEF DevicesInd, StateOK, WorkerOK, Worker
<1>1. \A n \in Loop : DeviceOK(n)'
  BY OthersKept
<1>2. ForeignKept'
  <2> SUFFICES ASSUME NEW f \in Foreign, has[f] # None, f \notin raced PROVE loops'[has[f]].img = f
    BY DEF ForeignKept, WorkerMoves
  <2>1. has[f] \in Loop /\ loops[has[f]].img = f
    BY <1>0 DEF DevicesInd, ForeignKept
  <2>2. ForeignOK(has[f], f)
    BY <2>1 DEF DevicesInd, DeviceOK
  <2>3. has[f] # w.num
    BY <2>2 DEF ForeignOK
  <2> QED
    BY <2>1, <2>3 DEF WorkerMoves
<1>3. ASSUME NEW k \in Loop, NEW n \in Loop, loops'[k].img \in Modules, loops'[k].img = loops'[n].img
      PROVE  k = n
  <2>1. \A i \in Loop : i # w.num => loops'[i] = loops[i]
    BY DEF WorkerMoves
  <2>2. ASSUME NEW i \in Loop, NEW j \in Loop, i = w.num, j # i, loops'[i].img \in Modules PROVE loops'[j].img # loops'[i].img
    <3>1. loops'[i].img \in {loops[i].img, w.m}
      BY <2>2, Kinds DEF WorkerMoves
    <3>2. loops[j].img # loops'[i].img
      BY <1>0, <2>2, <3>1, OwnDevice DEF DevicesInd, OneDevice
    <3> QED
      BY <2>1, <2>2, <3>2
  <2> QED
    BY <1>3, <2>1, <2>2 DEF DevicesInd, OneDevice
<1>4. ASSUME NEW m \in Modules, state'[m] = "mounted" PROVE \E n \in Loop : loops'[n].img = m
  <2>1. CASE m = w.m /\ w.num \in Loop /\ loops'[w.num].img = m
    BY <2>1
  <2>2. CASE state[m] = "mounted"
    <3>1. PICK n \in Loop : loops[n].img = m
      BY <2>2 DEF DevicesInd, OneDevice
    <3>2. n # w.num
      <4>1. ModuleOK(n, m)
        BY <3>1 DEF DevicesInd, DeviceOK
      <4> QED
        BY <2>2, <4>1 DEF ModuleOK, DevicesInd, WorkerOK, Attached, Opened, Chosen
    <3> QED
      BY <3>1, <3>2 DEF WorkerMoves
  <2> QED
    BY <1>4, <2>1, <2>2 DEF WorkerMoves
<1> QED
  BY <1>1, <1>2, <1>3, <1>4 DEF OneDevice

\* The worker is back at the loop of CreateLoopDevice, or has given the module up.
Back == \/ /\ w.attempt < LOOP_DEVICE_SETUP_ATTEMPTS
           /\ w' = [w EXCEPT !.pc = "loop", !.num = None] /\ UNCHANGED <<state, points>>
        \/ GiveUp

\* The device that the worker leaves is free, or some foreign process's that came in between, or
\* below a dm device of the module that is given up.
LeftOK(d) ==
    /\ IsFiniteSet(d.holders)
    /\ d.img = NoImage => ~d.auto /\ d.holders = {}
    /\ d.img \in Foreign => d.holders \subseteq {d.img} /\ has[d.img] = w.num /\ d.img \in raced
    /\ d.img \in Modules => GiveUp /\ d.img = w.m /\ w.num \in dms' /\ d.holders = {"dm"}
    /\ d.img \in {NoImage, loops[w.num].img, w.m}

\* A failed attempt, or a failed mount, keeps the invariant.
LEMMA BackKeeps ==
    ASSUME DevicesInd, Back, w.pc # "idle", w.pc = "point" => GiveUp, UNCHANGED <<devs, has, raced>>,
           loops' \in Devices, \A n \in Loop : n # w.num => loops'[n] = loops[n] /\ (n \in dms => n \in dms'),
           dms' \subseteq devs, w.num \in Loop => LeftOK(loops'[w.num])
    PROVE  DevicesInd'
<1>0. /\ StateOK /\ WorkerOK /\ PointsOK /\ w.m \in Modules /\ state[w.m] = "new"
      /\ w \in Worker /\ state \in [Modules -> {"new", "mounted", "failed"}]
  BY DEF DevicesInd, WorkerOK, StateOK
<1>1. /\ Rest.pc = "idle" /\ Rest.num = None /\ Rest \in Worker
  BY DevicesAssumption DEF Rest, Worker
<1>2. /\ w' \in Worker /\ w'.num = None /\ w'.pc \in {"idle", "loop"}
      /\ w'.pc = "idle" => w' = Rest
      /\ w'.pc = "loop" => w'.m = w.m /\ w'.attempt = w.attempt /\ state' = state /\ points' = points
                           /\ w.attempt < LOOP_DEVICE_SETUP_ATTEMPTS
      /\ GiveUp => w'.pc = "idle"
  BY <1>0, <1>1 DEF Back, GiveUp, ReturnFalse, Worker
<1>3. /\ state' \in [Modules -> {"new", "mounted", "failed"}]
      /\ \A m \in Modules : m # w.m => state'[m] = state[m]
      /\ GiveUp => state'[w.m] = "failed"
      /\ w'.pc = "idle" => GiveUp
  BY <1>0, <1>1 DEF Back, GiveUp, ReturnFalse, Worker
<1>p. points' \subseteq points /\ points \ {w.m} \subseteq points'
  BY DEF Back, GiveUp
<1>4. StateOK'
  BY <1>0, <1>2, <1>3, <1>p DEF StateOK
<1>5. WorkerOK'
  BY <1>0, <1>2, <1>3 DEF WorkerOK, Chosen, Opened, Attached
<1>6. PointsOK'
  <2>1. ASSUME NEW m \in Modules, state'[m] = "mounted" PROVE m \in points'
    <3>1. CASE m = w.m
      BY <1>0, <1>2, <1>3, <2>1, <3>1
    <3>2. CASE m # w.m
      BY <1>0, <1>3, <1>p, <2>1, <3>2 DEF PointsOK
    <3> QED
      BY <3>1, <3>2
  <2>2. w'.pc = "loop" => w'.m \in points'
    BY <1>0, <1>2 DEF PointsOK
  <2> QED
    BY <1>2, <2>1, <2>2 DEF PointsOK
<1>7. WorkerMoves
  BY <1>0, <1>2, <1>3 DEF WorkerMoves, LeftOK
<1>8. ASSUME NEW n \in Loop, n = w.num PROVE DeviceOK(n)'
  <2>1. LeftOK(loops'[n]) /\ n # w'.num /\ n \in devs /\ devs' = devs
    BY <1>0, <1>2, <1>8, Kinds DEF WorkerOK, Worker
  <2>2. loops'[n].img = NoImage => FreeOK(n)'
    BY <2>1 DEF LeftOK, FreeOK, WorkerFd
  <2>3. loops'[n].img \in Foreign => ForeignOK(n, loops[n].img)'
    BY <1>8, <2>1 DEF LeftOK, ForeignOK, WorkerFd
  <2>4. loops'[n].img \in Modules => ModuleOK(n, loops[n].img)'
    BY <1>3, <1>8, <2>1 DEF LeftOK, ModuleOK
  <2> QED
    BY <2>1, <2>2, <2>3, <2>4 DEF DeviceOK, LeftOK
<1> QED
  BY <1>2, <1>4, <1>5, <1>6, <1>7, <1>8, WorkerKeeps, Kinds DEF DevicesInd

\* Before a device is chosen there is nothing to leave.
LEMMA GiveUpEarly ==
    ASSUME DevicesInd, w.pc \in {"point", "loop"}, GiveUp, UNCHANGED <<devs, loops, dms, has, raced>>
    PROVE  DevicesInd'
BY Kinds, BackKeeps DEF DevicesInd, StateOK, WorkerOK, Back

\* The steps before a device is chosen.
LEMMA EarlySteps ==
    ASSUME DevicesInd,
           \/ \E m \in Modules : PreAllocateLoopDevices(m) \/ PreAllocateFails(m)
           \/ CreateMountPoint \/ CheckModulePackageFails \/ LoopCtlFails
    PROVE  DevicesInd'
<1>0. StateOK /\ WorkerOK /\ PointsOK
  BY DEF DevicesInd
<1>r. Rest.pc = "idle" /\ Rest.num = None /\ Rest.attempt = 0 /\ Rest \in Worker
  BY DevicesAssumption DEF Rest, Worker
<1>1. ASSUME NEW m \in Modules, PreAllocateLoopDevices(m) PROVE DevicesInd'
  <2>1. PICK v \in BOOLEAN : w' = [Rest EXCEPT !.pc = "point", !.m = m, !.verity = v]
    BY <1>1 DEF PreAllocateLoopDevices
  <2>2. w' \in Worker /\ w'.pc = "point" /\ w'.m = m /\ w'.num = None /\ w'.attempt = 0
    BY <1>r, <2>1 DEF Rest, Worker
  <2>3. /\ w = Rest /\ state[m] = "new" /\ UNCHANGED <<loops, dms, state, points, has, raced>>
        /\ devs \subseteq devs' /\ devs' \subseteq devs \cup Loop
    BY <1>0, <1>1 DEF PreAllocateLoopDevices, WorkerOK
  <2>4. StateOK'
    BY <1>0, <2>2, <2>3 DEF StateOK
  <2>5. WorkerOK' /\ PointsOK'
    BY <1>0, <1>r, <2>2, <2>3 DEF WorkerOK, PointsOK, Chosen, Opened, Attached
  <2>6. WorkerMoves
    BY <1>r, <2>3, Kinds DEF WorkerMoves
  <2> QED
    BY <1>r, <2>2, <2>3, <2>4, <2>5, <2>6, WorkerKeeps, Kinds DEF DevicesInd
<1>2. ASSUME NEW m \in Modules, PreAllocateFails(m) PROVE DevicesInd'
  <2>1. /\ w = Rest /\ state[m] = "new" /\ UNCHANGED <<devs, loops, dms, w, points, has, raced>>
        /\ state' = [state EXCEPT ![m] = "failed"]
    BY <1>0, <1>2 DEF PreAllocateFails, WorkerOK
  <2>2. /\ state' \in [Modules -> {"new", "mounted", "failed"}]
        /\ \A k \in Modules : k # m => state'[k] = state[k]
        /\ state'[m] = "failed"
    BY <1>0, <2>1 DEF StateOK
  <2>3. StateOK'
    BY <1>0, <2>1, <2>2 DEF StateOK
  <2>4. WorkerOK'
    BY <1>0, <1>r, <2>1 DEF WorkerOK, Chosen, Opened, Attached
  <2>5. PointsOK'
    BY <1>0, <1>r, <2>1, <2>2 DEF PointsOK, StateOK
  <2>6. WorkerMoves
    BY <1>r, <2>1, <2>2, Kinds DEF WorkerMoves
  <2> QED
    BY <1>r, <2>1, <2>3, <2>4, <2>5, <2>6, WorkerKeeps, Kinds DEF DevicesInd
<1>3. CASE CreateMountPoint
  <2>1. CASE ReturnFalse /\ UNCHANGED points
    BY <1>3, <2>1, GiveUpEarly DEF CreateMountPoint, GiveUp
  <2>2. CASE points' = points \cup {w.m} /\ Goto("loop") /\ UNCHANGED state
    <3>1. /\ w.pc = "point" /\ w.m \in Modules /\ state[w.m] = "new" /\ w.num = None /\ w.attempt = 0
          /\ UNCHANGED <<devs, loops, dms, has, raced, state>>
      BY <1>0, <1>3, <2>2 DEF CreateMountPoint, WorkerOK
    <3>2. w' \in Worker /\ w'.pc = "loop" /\ w'.m = w.m /\ w'.num = None /\ w'.attempt = 0
      BY <1>0, <2>2, <3>1 DEF Goto, StateOK, Worker
    <3>3. StateOK' /\ PointsOK'
      BY <1>0, <2>2, <3>1, <3>2 DEF StateOK, PointsOK
    <3>4. WorkerOK'
      BY <3>1, <3>2, DevicesAssumption DEF WorkerOK, Chosen, Opened, Attached
    <3>5. WorkerMoves
      BY <3>1, Kinds DEF WorkerMoves
    <3> QED
      BY <3>1, <3>2, <3>3, <3>4, <3>5, WorkerKeeps, Kinds DEF DevicesInd
  <2> QED
    BY <1>3, <2>1, <2>2 DEF CreateMountPoint
<1>4. CASE CheckModulePackageFails
  BY <1>4, GiveUpEarly DEF CheckModulePackageFails, GiveUp
<1>5. CASE LoopCtlFails
  <2>1. CASE GiveUp
    BY <1>5, <2>1, GiveUpEarly DEF LoopCtlFails
  <2>2. CASE /\ w.attempt + 1 < LOOP_DEVICE_SETUP_ATTEMPTS
             /\ w' = [w EXCEPT !.attempt = @ + 1] /\ UNCHANGED <<state, points>>
    <3>1. /\ w.pc = "loop" /\ w.m \in Modules /\ state[w.m] = "new" /\ w.num = None
          /\ UNCHANGED <<devs, loops, dms, has, raced, state, points>>
      BY <1>0, <1>5, <2>2 DEF LoopCtlFails, WorkerOK
    <3>2. /\ w' \in Worker /\ w'.pc = "loop" /\ w'.m = w.m /\ w'.num = None
          /\ w'.attempt < LOOP_DEVICE_SETUP_ATTEMPTS
      BY <1>0, <2>2, <3>1, DevicesAssumption DEF StateOK, Worker
    <3>3. StateOK' /\ PointsOK'
      BY <1>0, <3>1, <3>2 DEF StateOK, PointsOK
    <3>4. WorkerOK'
      BY <3>1, <3>2 DEF WorkerOK, Chosen, Opened, Attached
    <3>5. WorkerMoves
      BY <3>1, Kinds DEF WorkerMoves
    <3> QED
      BY <3>1, <3>2, <3>3, <3>4, <3>5, WorkerKeeps, Kinds DEF DevicesInd
  <2> QED
    BY <1>5, <2>1, <2>2 DEF LoopCtlFails
<1> QED
  BY <1>1, <1>2, <1>3, <1>4, <1>5

\* LOOP_CTL_GET_FREE and the opening of the device.
LEMMA ChooseSteps ==
    ASSUME DevicesInd, LoopCtlGetFree \/ WaitForDevice \/ WaitForDeviceFails
    PROVE  DevicesInd'
<1>0. /\ StateOK /\ WorkerOK /\ PointsOK /\ w \in Worker /\ loops \in Devices
      /\ \A n \in Loop : DeviceOK(n)
  BY DEF DevicesInd, StateOK
<1>1. CASE LoopCtlGetFree
  <2>1. GetFree \in Loop /\ (Free(loops, GetFree) \/ GetFree \notin devs)
    <3>1. {n \in Loop : Free(loops, n) \/ n \notin devs} # {}
      BY <1>1 DEF LoopCtlGetFree
    <3>2. {n \in Loop : Free(loops, n) \/ n \notin devs} \subseteq Nat
      BY Kinds
    <3> QED
      BY <3>1, <3>2, MinMember DEF GetFree
  <2> DEFINE g == GetFree
  <2>2. g \in Loop /\ loops[g].img = NoImage
    BY <1>0, <2>1 DEF Free, DeviceOK
  <2>3. /\ w.pc = "loop" /\ w.num = None /\ w.m \in Modules /\ state[w.m] = "new"
        /\ w.attempt < LOOP_DEVICE_SETUP_ATTEMPTS
        /\ devs' = devs \cup {g} /\ UNCHANGED <<loops, dms, state, points, has, raced>>
        /\ w' = [w EXCEPT !.pc = "open", !.num = g, !.attempt = @ + 1]
    BY <1>0, <1>1 DEF LoopCtlGetFree, WorkerOK
  <2> HIDE DEF g
  <2>a. w.attempt + 1 \in 0..LOOP_DEVICE_SETUP_ATTEMPTS
    BY <1>0, <2>3, DevicesAssumption DEF Worker
  <2>4. w' \in Worker /\ w'.pc = "open" /\ w'.m = w.m /\ w'.num = g
    BY <1>0, <2>2, <2>3, <2>a DEF Worker, Chosen
  <2>5. StateOK' /\ PointsOK'
    BY <1>0, <2>2, <2>3, <2>4 DEF StateOK, PointsOK
  <2>6. WorkerOK'
    BY <2>2, <2>3, <2>4, Kinds DEF WorkerOK, Chosen, Opened, Attached
  <2>7. WorkerMoves
    BY <2>3, Kinds DEF WorkerMoves
  <2>8. ASSUME NEW n \in Loop, n = g PROVE DeviceOK(n)'
    BY <1>0, <2>2, <2>3, <2>4, <2>8, Kinds DEF DeviceOK, FreeOK, WorkerFd
  <2> QED
    BY <2>2, <2>3, <2>4, <2>5, <2>6, <2>7, <2>8, WorkerKeeps, Kinds DEF DevicesInd
<1>2. CASE WaitForDevice \/ WaitForDeviceFails
  <2>1. /\ w.pc = "open" /\ w.num \in Loop /\ w.num \in devs /\ w.m \in Modules /\ state[w.m] = "new"
        /\ UNCHANGED <<devs, dms, has, raced>>
    BY <1>0, <1>2 DEF WaitForDevice, WaitForDeviceFails, WorkerOK, StateOK, Worker, Chosen
  <2>2. DeviceOK(w.num) /\ loops[w.num].img \in Images
    BY <1>0, <2>1 DEF Devices, Device
  <2>3. loops[w.num].img \notin Modules
    BY <1>0, <2>1, <2>2 DEF DeviceOK, ModuleOK, Attached, Opened, Chosen
  <2>4. CASE WaitForDevice
    <3>1. "fd" \in Holders /\ loops' = Open(loops, w.num, "fd")
      BY <2>4 DEF WaitForDevice, Holders
    <3>2. /\ loops' \in Devices /\ \A k \in Loop : k # w.num => loops'[k] = loops[k]
          /\ loops'[w.num].holders = loops[w.num].holders \cup {"fd"}
          /\ loops'[w.num].img = loops[w.num].img /\ loops'[w.num].auto = loops[w.num].auto
      BY <1>0, <2>1, <3>1, OpenFacts
    <3>3. w' \in Worker /\ w'.pc = "setup" /\ w'.m = w.m /\ w'.num = w.num
      BY <1>0, <2>4 DEF WaitForDevice, Goto, Worker, Chosen
    <3>4. UNCHANGED <<state, points>>
      BY <2>4 DEF WaitForDevice
    <3>5. StateOK' /\ PointsOK'
      BY <1>0, <2>1, <3>2, <3>3, <3>4 DEF StateOK, PointsOK
    <3>6. WorkerOK'
      BY <2>1, <3>2, <3>3, <3>4, Kinds DEF WorkerOK, Chosen, Opened, Attached
    <3>7. WorkerMoves
      BY <2>1, <3>2, <3>4 DEF WorkerMoves
    <3>8. ASSUME NEW n \in Loop, n = w.num PROVE DeviceOK(n)'
      <4>1. IsFiniteSet(loops'[n].holders)
        BY <2>2, <3>2, <3>8, FS_AddElement DEF DeviceOK
      <4>2. loops'[n].img = NoImage => FreeOK(n)'
        BY <2>1, <2>2, <3>2, <3>3, <3>8 DEF DeviceOK, FreeOK, WorkerFd
      <4>3. loops'[n].img \in Foreign => ForeignOK(n, loops[n].img)'
        BY <2>1, <2>2, <3>2, <3>3, <3>8 DEF DeviceOK, ForeignOK, WorkerFd
      <4> QED
        BY <2>1, <2>3, <3>2, <3>8, <4>1, <4>2, <4>3 DEF DeviceOK
    <3> QED
      BY <2>1, <3>3, <3>5, <3>6, <3>7, <3>8, WorkerKeeps DEF DevicesInd
  <2>5. CASE WaitForDeviceFails
    <3>1. loops' = loops /\ Back
      BY <2>5 DEF WaitForDeviceFails, AttemptFails, Back
    <3>2. LeftOK(loops'[w.num])
      BY <2>1, <2>2, <2>3, <3>1 DEF LeftOK, DeviceOK, FreeOK, ForeignOK, WorkerFd
    <3> QED
      BY <1>0, <2>1, <3>1, <3>2, BackKeeps DEF StateOK
  <2> QED
    BY <1>2, <2>4, <2>5
<1> QED
  BY <1>1, <1>2

\* The worker's own device, when it is open.
LEMMA OpenDevice ==
    ASSUME DevicesInd, w.pc \in Opened
    PROVE  /\ w.num \in Loop /\ w.num \in devs /\ w.m \in Modules /\ state[w.m] = "new" /\ w.pc # "idle"
           /\ loops \in Devices /\ IsFiniteSet(loops[w.num].holders) /\ "fd" \in loops[w.num].holders
           /\ w.pc = "setup" =>
                 /\ loops[w.num].img \notin Modules
                 /\ loops[w.num].img = NoImage => ~loops[w.num].auto /\ loops[w.num].holders = {"fd"}
                 /\ loops[w.num].img \in Foreign =>
                       \/ /\ loops[w.num].holders \subseteq {loops[w.num].img, "fd"}
                          /\ has[loops[w.num].img] = w.num /\ loops[w.num].img \in raced
                       \/ loops[w.num].holders = {"fd"}
           /\ w.pc # "setup" =>
                 /\ loops[w.num].img = w.m
                 /\ loops[w.num].holders = IF w.pc = "mount" /\ w.verity THEN {"fd", "dm"} ELSE {"fd"}
                 /\ w.pc = "mount" /\ w.verity => w.num \in dms
<1>1. /\ w.num \in Loop /\ w.num \in devs /\ w.m \in Modules /\ state[w.m] = "new" /\ w.pc # "idle"
      /\ loops \in Devices /\ "fd" \in loops[w.num].holders
  BY DEF DevicesInd, StateOK, WorkerOK, Opened, Chosen
<1>2. DeviceOK(w.num)
  BY <1>1 DEF DevicesInd
<1>3. w.pc = "setup" =>
         /\ loops[w.num].img \notin Modules
         /\ loops[w.num].img = NoImage => ~loops[w.num].auto /\ loops[w.num].holders = {"fd"}
         /\ loops[w.num].img \in Foreign =>
               \/ /\ loops[w.num].holders \subseteq {loops[w.num].img, "fd"}
                  /\ has[loops[w.num].img] = w.num /\ loops[w.num].img \in raced
               \/ loops[w.num].holders = {"fd"}
  BY <1>1, <1>2 DEF DeviceOK, FreeOK, ForeignOK, ModuleOK, WorkerFd, Attached
<1>4. w.pc # "setup" => loops[w.num].img = w.m
  BY DEF DevicesInd, WorkerOK, Attached
<1>5. w.pc # "setup" =>
         /\ loops[w.num].holders = IF w.pc = "mount" /\ w.verity THEN {"fd", "dm"} ELSE {"fd"}
         /\ w.pc = "mount" /\ w.verity => w.num \in dms
  BY <1>1, <1>2, <1>4 DEF DeviceOK, ModuleOK
<1> QED
  BY <1>1, <1>2, <1>3, <1>4, <1>5 DEF DeviceOK

\* The destructor leaves the worker's device, as it is in L, free or to its other holders.
LEMMA CloseBadFacts ==
    ASSUME NEW L \in Devices, w.num \in Loop, IsFiniteSet(L[w.num].holders), "fd" \in L[w.num].holders,
           L[w.num].img = NoImage => ~L[w.num].auto
    PROVE  /\ MaybeCloseBad(L) \in Devices
           /\ \A k \in Loop : k # w.num => MaybeCloseBad(L)[k] = L[k]
           /\ MaybeCloseBad(L)[w.num].holders = L[w.num].holders \ {"fd"}
           /\ IsFiniteSet(MaybeCloseBad(L)[w.num].holders)
           /\ L[w.num].img = NoImage \/ L[w.num].holders = {"fd"} =>
                 MaybeCloseBad(L)[w.num].img = NoImage /\ ~MaybeCloseBad(L)[w.num].auto
           /\ L[w.num].img # NoImage /\ L[w.num].holders # {"fd"} =>
                 MaybeCloseBad(L)[w.num].img = L[w.num].img
<1> DEFINE C == Close(ClrFd(L, w.num), w.num, "fd")
<1>1. /\ C \in Devices /\ \A k \in Loop : k # w.num => C[k] = L[k]
      /\ C[w.num].holders = L[w.num].holders \ {"fd"}
      /\ L[w.num].img = NoImage \/ L[w.num].holders = {"fd"} => C[w.num].img = NoImage /\ ~C[w.num].auto
      /\ L[w.num].img # NoImage /\ L[w.num].holders # {"fd"} => C[w.num].img = L[w.num].img
  BY ReleaseFacts
<1>2. IsFiniteSet(L[w.num].holders \ {"fd"})
  BY FS_RemoveElement
<1>3. MaybeCloseBad(L) = C
  BY DEF MaybeCloseBad
<1> QED
  BY <1>1, <1>2, <1>3

\* The device is refused or its status cannot be set.
LEMMA SetUpStep == ASSUME DevicesInd, SetUpLoopDevice PROVE DevicesInd'
<1>0. /\ StateOK /\ WorkerOK /\ PointsOK /\ w \in Worker /\ loops \in Devices
      /\ w.pc = "setup" /\ w.pc \in Opened /\ UNCHANGED <<devs, dms, has, raced>>
  BY DEF DevicesInd, StateOK, SetUpLoopDevice, Opened, Chosen
<1>d. /\ w.num \in Loop /\ w.num \in devs /\ w.m \in Modules /\ state[w.m] = "new"
      /\ IsFiniteSet(loops[w.num].holders) /\ "fd" \in loops[w.num].holders
      /\ loops[w.num] \in Device
  BY <1>0, OpenDevice DEF Devices
<1>f. Free(loops, w.num) => ~loops[w.num].auto /\ loops[w.num].holders = {"fd"}
  BY <1>0, OpenDevice DEF Free
<1>b. ASSUME NEW a \in BOOLEAN
      PROVE  /\ Bind(a) \in Devices /\ \A k \in Loop : k # w.num => Bind(a)[k] = loops[k]
             /\ Bind(a)[w.num].img = w.m /\ Bind(a)[w.num].auto = a
             /\ Bind(a)[w.num].holders = loops[w.num].holders
  <2> DEFINE d == [loops[w.num] EXCEPT !.img = w.m, !.auto = a]
  <2>1. Bind(a) = [loops EXCEPT ![w.num] = d]
    BY <1>0, <1>d DEF Bind, Devices, Device
  <2>2. d \in Device /\ d.img = w.m /\ d.auto = a /\ d.holders = loops[w.num].holders
    BY <1>d DEF Device, Images
  <2> HIDE DEF d
  <2> QED
    BY <1>0, <1>d, <2>1, <2>2 DEF Devices
<1>1. CASE ConfigureLoopDevice
  <2>1. /\ loops' \in Devices /\ \A k \in Loop : k # w.num => loops'[k] = loops[k]
        /\ loops'[w.num].img = w.m /\ loops'[w.num].holders = {"fd"}
        /\ UNCHANGED <<state, points>>
    BY <1>1, <1>b, <1>f DEF ConfigureLoopDevice
  <2>2. w' \in Worker /\ w'.pc = "ahead" /\ w'.m = w.m /\ w'.num = w.num
    BY <1>0, <1>1 DEF ConfigureLoopDevice, Goto, Worker, Chosen
  <2>3. StateOK' /\ PointsOK'
    BY <1>0, <2>1, <2>2 DEF StateOK, PointsOK
  <2>4. WorkerOK'
    BY <1>0, <1>d, <2>1, <2>2, Kinds DEF WorkerOK, Chosen, Opened, Attached
  <2>5. WorkerMoves
    BY <1>0, <2>1 DEF WorkerMoves
  <2>6. ASSUME NEW n \in Loop, n = w.num PROVE DeviceOK(n)'
    <3>1. ModuleOK(n, loops[n].img)'
      BY <2>1, <2>2, <2>6 DEF ModuleOK, Attached, Opened, Chosen
    <3>2. IsFiniteSet(loops'[n].holders)
      BY <2>1, <2>6, FS_Singleton
    <3> QED
      BY <1>0, <1>d, <2>1, <2>6, <3>1, <3>2, Kinds DEF DeviceOK
  <2> QED
    BY <1>d, <2>2, <2>3, <2>4, <2>5, <2>6, WorkerKeeps DEF DevicesInd
<1>2. CASE SetLoopDeviceStatusFails
  <2>1. Back /\ loops' = MaybeCloseBad(Bind(FALSE)) /\ Free(loops, w.num)
    BY <1>2 DEF SetLoopDeviceStatusFails, AttemptFails, Back
  <2>2. /\ loops' \in Devices /\ \A k \in Loop : k # w.num => loops'[k] = loops[k]
        /\ loops'[w.num].holders = {} /\ IsFiniteSet(loops'[w.num].holders)
        /\ loops'[w.num].img = NoImage /\ ~loops'[w.num].auto
    <3> DEFINE L == Bind(FALSE)
    <3>1. /\ L \in Devices /\ \A k \in Loop : k # w.num => L[k] = loops[k]
          /\ L[w.num].img = w.m /\ L[w.num].holders = {"fd"}
      BY <1>b, <1>f, <2>1
    <3> HIDE DEF L
    <3>a. IsFiniteSet({"fd"})
      BY FS_Singleton
    <3>2. /\ IsFiniteSet(L[w.num].holders) /\ "fd" \in L[w.num].holders /\ L[w.num].img # NoImage
          /\ {"fd"} \ {"fd"} = {}
      BY <1>d, <3>1, <3>a, Kinds
    <3>3. loops' = MaybeCloseBad(L)
      BY <2>1 DEF L
    <3> QED
      BY <1>d, <3>1, <3>2, <3>3, CloseBadFacts
  <2>3. LeftOK(loops'[w.num])
    BY <2>2, Kinds DEF LeftOK
  <2> QED
    BY <1>0, <2>1, <2>2, <2>3, BackKeeps DEF StateOK
<1>3. CASE SetUpFails
  <2>1. Back /\ loops' = MaybeCloseBad(loops)
    BY <1>3 DEF SetUpFails, AttemptFails, Back
  <2>2. /\ loops' \in Devices /\ \A k \in Loop : k # w.num => loops'[k] = loops[k]
        /\ loops'[w.num].holders = loops[w.num].holders \ {"fd"} /\ IsFiniteSet(loops'[w.num].holders)
        /\ loops[w.num].img = NoImage \/ loops[w.num].holders = {"fd"} =>
              loops'[w.num].img = NoImage /\ ~loops'[w.num].auto
        /\ loops[w.num].img # NoImage /\ loops[w.num].holders # {"fd"} => loops'[w.num].img = loops[w.num].img
    BY <1>0, <1>d, <1>f, <2>1, CloseBadFacts DEF Free
  <2>3. LeftOK(loops'[w.num])
    <3>1. CASE loops[w.num].img = NoImage \/ loops[w.num].holders = {"fd"}
      BY <1>0, <2>2, <3>1, OpenDevice, Kinds DEF LeftOK
    <3>2. CASE loops[w.num].img # NoImage /\ loops[w.num].holders # {"fd"}
      BY <1>0, <2>2, <3>2, OpenDevice DEF LeftOK
    <3> QED
      BY <3>1, <3>2
  <2> QED
    BY <1>0, <2>1, <2>2, <2>3, BackKeeps DEF StateOK
<1> QED
  BY <1>1, <1>2, <1>3 DEF SetUpLoopDevice

\* A step of the worker within its attached device.
LEMMA AttachedMoves ==
    ASSUME DevicesInd, w.pc \in Attached, w' \in Worker, w'.num = w.num, w'.m = w.m, w'.pc \in Attached,
           w'.pc \in {"verify", "dm"} => w'.verity,
           loops' \in Devices, \A n \in Loop : n # w.num => loops'[n] = loops[n],
           loops'[w.num].img = w.m, IsFiniteSet(loops'[w.num].holders),
           loops'[w.num].holders = IF w'.pc = "mount" /\ w'.verity THEN {"fd", "dm"} ELSE {"fd"},
           dms' \in {dms, dms \cup {w.num}}, w'.pc = "mount" /\ w'.verity => w.num \in dms',
           UNCHANGED <<devs, state, points, has, raced>>
    PROVE  DevicesInd'
<1>0. StateOK /\ WorkerOK /\ PointsOK /\ w.pc \in Opened
  BY DEF DevicesInd, Attached
<1>d. w.num \in Loop /\ w.num \in devs /\ w.m \in Modules /\ state[w.m] = "new" /\ w.pc # "idle"
  BY <1>0, OpenDevice
<1>1. StateOK' /\ PointsOK'
  BY <1>0, <1>d DEF StateOK, PointsOK, Attached, Opened, Chosen
<1>2. WorkerOK'
  BY <1>0, <1>d, Kinds DEF WorkerOK, Chosen, Opened, Attached
<1>3. WorkerMoves
  BY <1>0 DEF WorkerMoves
<1>4. ASSUME NEW n \in Loop, n = w.num PROVE DeviceOK(n)'
  <2>1. ModuleOK(n, loops[n].img)'
    BY <1>4 DEF ModuleOK
  <2> QED
    BY <1>d, <1>4, <2>1, Kinds DEF DeviceOK
<1> QED
  BY <1>d, <1>1, <1>2, <1>3, <1>4, WorkerKeeps DEF DevicesInd

\* The worker gives up a device that no dm device holds, or tries again.
LEMMA AttachedFails ==
    ASSUME DevicesInd, w.pc \in Attached, Back, NEW L \in Devices, loops' = MaybeCloseBad(L),
           \A n \in Loop : n # w.num => L[n] = loops[n],
           L[w.num].img = w.m, L[w.num].holders \in {{"fd"}, {"fd", "dm"}},
           \A n \in Loop : n # w.num /\ n \in dms => n \in dms', dms' \subseteq devs,
           L[w.num].holders = {"fd", "dm"} => GiveUp /\ w.num \in dms',
           UNCHANGED <<devs, has, raced>>
    PROVE  DevicesInd'
<1>c. w.pc # "idle" /\ w.pc # "point"
  BY DEF Attached, Opened, Chosen
<1>d. w.num \in Loop /\ w.m \in Modules
  BY OpenDevice DEF Attached
<1>1. IsFiniteSet(L[w.num].holders) /\ "fd" \in L[w.num].holders
  <2>1. IsFiniteSet({"fd"})
    BY FS_Singleton
  <2>2. IsFiniteSet({"fd"} \cup {"dm"}) /\ {"fd", "dm"} = {"fd"} \cup {"dm"}
    BY <2>1, FS_AddElement
  <2> QED
    BY <2>1, <2>2
<1>2. /\ loops' \in Devices /\ \A k \in Loop : k # w.num => loops'[k] = loops[k]
      /\ loops'[w.num].holders = L[w.num].holders \ {"fd"} /\ IsFiniteSet(loops'[w.num].holders)
      /\ L[w.num].holders = {"fd"} => loops'[w.num].img = NoImage /\ ~loops'[w.num].auto
      /\ L[w.num].holders # {"fd"} => loops'[w.num].img = L[w.num].img
  BY <1>d, <1>1, CloseBadFacts, Kinds
<1>3. LeftOK(loops'[w.num])
  <2>1. CASE L[w.num].holders = {"fd"}
    BY <1>2, <2>1, Kinds DEF LeftOK
  <2>2. CASE L[w.num].holders = {"fd", "dm"}
    <3>1. {"fd", "dm"} # {"fd"} /\ {"fd", "dm"} \ {"fd"} = {"dm"}
      OBVIOUS
    <3> QED
      BY <1>d, <1>2, <2>2, <3>1, Kinds DEF LeftOK
  <2> QED
    BY <2>1, <2>2
<1> QED
  BY <1>c, <1>d, <1>2, <1>3, BackKeeps

\* Read-ahead, the check of the image and the dm device that is made.
LEMMA AttachedSteps ==
    ASSUME DevicesInd, ConfigureReadAhead \/ VerifyModuleVerity \/ CreateDmDevice
    PROVE  DevicesInd'
<1>0. /\ StateOK /\ WorkerOK /\ w \in Worker /\ loops \in Devices /\ dms \subseteq devs
      /\ UNCHANGED <<devs, has, raced>> /\ w.pc \in {"ahead", "verify", "dm"}
      /\ w.pc \in Attached /\ w.pc \in Opened
  BY DEF DevicesInd, StateOK, ConfigureReadAhead, VerifyModuleVerity, CreateDmDevice, Attached,
     Opened,
         Chosen
<1>d. /\ w.num \in Loop /\ w.num \in devs /\ w.m \in Modules
      /\ loops[w.num].img = w.m /\ loops[w.num].holders = {"fd"} /\ IsFiniteSet(loops[w.num].holders)
  BY <1>0, OpenDevice
<1>1. CASE /\ loops' = MaybeCloseBad(loops) /\ Back /\ UNCHANGED dms
  BY <1>0, <1>1, <1>d, AttachedFails
<1>2. CASE ConfigureReadAhead
  <2>1. CASE AttemptFails(MaybeCloseBad(loops))
    BY <1>1, <1>2, <2>1 DEF ConfigureReadAhead, AttemptFails, Back
  <2>2. CASE Goto(IF w.verity THEN "verify" ELSE "mount") /\ UNCHANGED <<loops, state, points>>
    <3>1. /\ w' \in Worker /\ w'.num = w.num /\ w'.m = w.m /\ w'.verity = w.verity
          /\ w'.pc = IF w.verity THEN "verify" ELSE "mount"
      BY <1>0, <2>2 DEF Goto, Worker, Chosen
    <3>2. w'.pc \in Attached /\ ~(w'.pc = "mount" /\ w'.verity) /\ (w'.pc \in {"verify", "dm"} => w'.verity)
      BY <3>1 DEF Attached, Opened, Chosen
    <3> QED
      BY <1>0, <1>2, <1>d, <2>2, <3>1, <3>2, AttachedMoves DEF ConfigureReadAhead
  <2> QED
    BY <1>2, <2>1, <2>2 DEF ConfigureReadAhead
<1>3. CASE VerifyModuleVerity
  <2>1. CASE GiveUp /\ loops' = MaybeCloseBad(loops)
    BY <1>1, <1>3, <2>1 DEF VerifyModuleVerity, Back
  <2>2. CASE Goto("dm") /\ UNCHANGED <<loops, state, points>>
    <3>1. /\ w' \in Worker /\ w'.num = w.num /\ w'.m = w.m /\ w'.pc = "dm" /\ w'.verity
          /\ w'.pc \in Attached
      BY <1>0, <1>3, <2>2 DEF VerifyModuleVerity, WorkerOK, Goto, Worker, Attached, Opened, Chosen
    <3> QED
      BY <1>0, <1>3, <1>d, <2>2, <3>1, AttachedMoves DEF VerifyModuleVerity
  <2> QED
    BY <1>3, <2>1, <2>2 DEF VerifyModuleVerity
<1>4. CASE CreateDmDevice
  <2>1. /\ w' \in Worker /\ w'.num = w.num /\ w'.m = w.m /\ w'.pc = "mount" /\ w'.verity
        /\ w'.pc \in Attached
    BY <1>0, <1>4 DEF CreateDmDevice, WorkerOK, Goto, Worker, Attached, Opened, Chosen
  <2>2. loops' = Open(loops, w.num, "dm") /\ "dm" \in Holders /\ dms' = dms \cup {w.num}
    BY <1>4 DEF CreateDmDevice, Holders
  <2>3. /\ loops' \in Devices /\ \A k \in Loop : k # w.num => loops'[k] = loops[k]
        /\ loops'[w.num].holders = {"fd"} \cup {"dm"} /\ loops'[w.num].img = w.m
    BY <1>0, <1>d, <2>2, OpenFacts
  <2>4. IsFiniteSet(loops'[w.num].holders) /\ loops'[w.num].holders = {"fd", "dm"}
    BY <1>d, <2>3, FS_AddElement
  <2> QED
    BY <1>0, <1>4, <2>1, <2>2, <2>3, <2>4, AttachedMoves DEF CreateDmDevice
<1> QED
  BY <1>2, <1>3, <1>4

\* CloseLoopDev by the worker, who has the device open: it is marked and stays bound.
LEMMA CloseLoopDevFacts ==
    ASSUME NEW L \in Devices, w.num \in Loop, IsFiniteSet(L[w.num].holders), "fd" \in L[w.num].holders,
           "clr" \notin L[w.num].holders, L[w.num].img # NoImage
    PROVE  /\ CloseLoopDev(L) \in Devices
           /\ \A k \in Loop : k # w.num => CloseLoopDev(L)[k] = L[k]
           /\ CloseLoopDev(L)[w.num].holders = L[w.num].holders
           /\ CloseLoopDev(L)[w.num].img = L[w.num].img
<1> DEFINE K == Open(L, w.num, "clr")
           C == Close(ClrFd(K, w.num), w.num, "clr")
<1>1. /\ K \in Devices /\ \A k \in Loop : k # w.num => K[k] = L[k]
      /\ K[w.num].holders = L[w.num].holders \cup {"clr"} /\ K[w.num].img = L[w.num].img
  BY OpenFacts DEF Holders
<1> HIDE DEF K
<1>2. /\ IsFiniteSet(K[w.num].holders) /\ "clr" \in K[w.num].holders /\ K[w.num].holders # {"clr"}
      /\ K[w.num].holders \ {"clr"} = L[w.num].holders /\ K[w.num].img # NoImage
  BY <1>1, FS_AddElement
<1>3. /\ C \in Devices /\ \A k \in Loop : k # w.num => C[k] = K[k]
      /\ C[w.num].holders = K[w.num].holders \ {"clr"} /\ C[w.num].img = K[w.num].img
  <2> DEFINE D(M) == Close(ClrFd(M, w.num), w.num, "clr")
  <2>1. ASSUME NEW M \in Devices, IsFiniteSet(M[w.num].holders), "clr" \in M[w.num].holders,
               M[w.num].img # NoImage, M[w.num].holders # {"clr"}
        PROVE  /\ D(M) \in Devices /\ \A k \in Loop : k # w.num => D(M)[k] = M[k]
               /\ D(M)[w.num].holders = M[w.num].holders \ {"clr"} /\ D(M)[w.num].img = M[w.num].img
    BY <2>1, ReleaseFacts
  <2> QED
    BY <1>1, <1>2, <2>1
<1>4. CloseLoopDev(L) = C
  BY DEF CloseLoopDev, K
<1> QED
  BY <1>1, <1>2, <1>3, <1>4

\* The dm device cannot be made, or the mount fails.
LEMMA FailingSteps ==
    ASSUME DevicesInd, CreateDmDeviceFails \/ MountFails
    PROVE  DevicesInd'
<1>0. /\ StateOK /\ WorkerOK /\ w \in Worker /\ loops \in Devices /\ dms \subseteq devs
      /\ UNCHANGED <<devs, has, raced>> /\ w.pc \in {"dm", "mount"} /\ GiveUp /\ Back
      /\ w.pc \in Attached /\ w.pc \in Opened
  BY DEF DevicesInd, StateOK, CreateDmDeviceFails, MountFails, Back, Attached, Opened, Chosen
<1>d. /\ w.num \in Loop /\ w.num \in devs /\ w.m \in Modules /\ w.m # NoImage
      /\ loops[w.num].img = w.m /\ IsFiniteSet(loops[w.num].holders)
      /\ loops[w.num].holders = IF w.pc = "mount" /\ w.verity THEN {"fd", "dm"} ELSE {"fd"}
      /\ w.pc = "mount" /\ w.verity => w.num \in dms
  BY <1>0, OpenDevice, Kinds
<1>1. CASE CreateDmDeviceFails
  <2>1. PICK left \in BOOLEAN :
          /\ dms' = IF left THEN dms \cup {w.num} ELSE dms
          /\ loops' = MaybeCloseBad(CloseLoopDev(IF left THEN Open(loops, w.num, "dm") ELSE loops))
    BY <1>1 DEF CreateDmDeviceFails
  <2> DEFINE K == IF left THEN Open(loops, w.num, "dm") ELSE loops
  <2>2. loops[w.num].holders = {"fd"}
    BY <1>1, <1>d DEF CreateDmDeviceFails
  <2>3. "dm" \in Holders
    BY DEF Holders
  <2>4. /\ K \in Devices /\ \A k \in Loop : k # w.num => K[k] = loops[k]
        /\ K[w.num].img = w.m
        /\ K[w.num].holders = IF left THEN {"fd"} \cup {"dm"} ELSE {"fd"}
    <3>1. CASE left
      <4>1. K = Open(loops, w.num, "dm")
        BY <3>1
      <4> QED
        BY <1>0, <1>d, <2>2, <2>3, <3>1, <4>1, OpenFacts
    <3>2. CASE ~left
      BY <1>0, <1>d, <2>2, <3>2
    <3> QED
      BY <3>1, <3>2
  <2> HIDE DEF K
  <2>5. IsFiniteSet({"fd"}) /\ IsFiniteSet({"fd"} \cup {"dm"}) /\ {"fd"} \cup {"dm"} = {"fd", "dm"}
    BY FS_Singleton, FS_AddElement
  <2>6. /\ IsFiniteSet(K[w.num].holders) /\ "fd" \in K[w.num].holders /\ "clr" \notin K[w.num].holders
        /\ K[w.num].holders \in {{"fd"}, {"fd", "dm"}}
        /\ K[w.num].holders = {"fd", "dm"} => left
    BY <2>4, <2>5
  <2> DEFINE L == CloseLoopDev(K)
  <2>7. /\ L \in Devices /\ \A k \in Loop : k # w.num => L[k] = loops[k]
        /\ L[w.num].holders = K[w.num].holders /\ L[w.num].img = w.m
    BY <1>d, <2>4, <2>6, CloseLoopDevFacts
  <2>8. loops' = MaybeCloseBad(L)
    BY <2>1 DEF K
  <2> HIDE DEF L
  <2>9. /\ \A n \in Loop : n # w.num /\ n \in dms => n \in dms'
        /\ dms' \subseteq devs /\ (left => w.num \in dms')
    BY <1>0, <1>d, <2>1
  <2> QED
    BY <1>0, <2>6, <2>7, <2>8, <2>9, AttachedFails
<1>2. CASE MountFails
  <2>1. CASE UNCHANGED dms /\ loops' = MaybeCloseBad(loops)
    BY <1>0, <1>d, <2>1, AttachedFails
  <2>2. CASE w.verity /\ dms' = dms \ {w.num} /\ loops' = MaybeCloseBad(Close(loops, w.num, "dm"))
    <3> DEFINE L == Close(loops, w.num, "dm")
    <3>1. loops[w.num].holders = {"fd", "dm"} /\ {"fd", "dm"} \ {"dm"} = {"fd"}
      BY <1>2, <1>d, <2>2 DEF MountFails
    <3>2. /\ L \in Devices /\ \A k \in Loop : k # w.num => L[k] = loops[k]
          /\ L[w.num].holders = {"fd"} /\ L[w.num].img = w.m
      BY <1>0, <1>d, <3>1, CloseFacts
    <3>3. loops' = MaybeCloseBad(L)
      BY <2>2
    <3> HIDE DEF L
    <3> QED
      BY <1>0, <2>2, <3>2, <3>3, AttachedFails
  <2> QED
    BY <1>2, <2>1, <2>2 DEF MountFails
<1> QED
  BY <1>1, <1>2

\* The module is mounted and the worker leaves its device.
LEMMA MountStep == ASSUME DevicesInd, Mount PROVE DevicesInd'
<1>0. /\ StateOK /\ WorkerOK /\ PointsOK /\ w \in Worker /\ loops \in Devices
      /\ w.pc = "mount" /\ w.pc \in Opened /\ UNCHANGED <<devs, dms, points, has, raced>>
      /\ w' = Rest /\ state' = [state EXCEPT ![w.m] = "mounted"]
  BY DEF DevicesInd, StateOK, Mount, Opened, Chosen
<1>r. Rest.pc = "idle" /\ Rest.num = None /\ Rest \in Worker
  BY DevicesAssumption DEF Rest, Worker
<1>d. /\ w.num \in Loop /\ w.num \in devs /\ w.m \in Modules /\ state[w.m] = "new"
      /\ loops[w.num].img = w.m /\ IsFiniteSet(loops[w.num].holders)
      /\ loops[w.num].holders \in {{"fd"}, {"fd", "dm"}}
  BY <1>0, OpenDevice
<1>1. loops' = Open(loops, w.num, "mount") /\ "mount" \in Holders
  BY DEF Mount, Holders
<1>2. /\ loops' \in Devices /\ \A k \in Loop : k # w.num => loops'[k] = loops[k]
      /\ loops'[w.num].holders = loops[w.num].holders \cup {"mount"} /\ loops'[w.num].img = w.m
  BY <1>0, <1>1, <1>d, OpenFacts
<1>3. /\ state' \in [Modules -> {"new", "mounted", "failed"}] /\ state'[w.m] = "mounted"
      /\ \A m \in Modules : m # w.m => state'[m] = state[m]
  BY <1>0, <1>d DEF StateOK
<1>4. StateOK'
  BY <1>0, <1>2, <1>3, <1>r DEF StateOK
<1>5. WorkerOK'
  BY <1>0, <1>r DEF WorkerOK, Chosen, Opened, Attached
<1>6. PointsOK'
  <2>1. w.m \in points /\ points' = points /\ w'.pc = "idle"
    BY <1>0, <1>r DEF PointsOK
  <2> QED
    BY <1>0, <1>3, <2>1 DEF PointsOK
<1>7. WorkerMoves
  BY <1>0, <1>2, <1>3, <1>d DEF WorkerMoves
<1>8. ASSUME NEW n \in Loop, n = w.num PROVE DeviceOK(n)'
  <2>1. IsFiniteSet(loops'[n].holders)
    <3>1. IsFiniteSet(loops[w.num].holders \cup {"mount"})
      BY <1>d, FS_AddElement
    <3> QED
      BY <1>2, <1>8, <3>1
  <2>2. "mount" \in loops'[n].holders /\ loops'[n].holders \cap Foreign = {}
    BY <1>2, <1>8, <1>d, Kinds
  <2>3. ModuleOK(n, loops[n].img)'
    BY <1>0, <1>2, <1>3, <1>8, <1>r, <2>2, Kinds DEF ModuleOK
  <2> QED
    BY <1>0, <1>2, <1>8, <1>d, <2>1, <2>3, Kinds DEF DeviceOK
<1> QED
  BY <1>0, <1>4, <1>5, <1>6, <1>7, <1>8, <1>r, WorkerKeeps, Kinds DEF DevicesInd
-----------------------------------------------------------------------------
(***************************************************************************)
(* Steps of the other processes.                                           *)
(***************************************************************************)
\* A step of a foreign process changes one device, which is no module's.
LEMMA ForeignMoves ==
    ASSUME DevicesInd, NEW n \in Loop, loops[n].img \notin Modules, loops'[n].img \notin Modules,
           UNCHANGED <<devs, dms, w, state, points>>, loops' \in Devices,
           \A k \in Loop : k # n => loops'[k] = loops[k],
           "fd" \in loops[n].holders => "fd" \in loops'[n].holders,
           has' \in [Foreign -> Loop \cup {None}], raced' \subseteq Foreign, DeviceOK(n)', ForeignKept',
           \A k \in Loop \ {n}, g \in Foreign :
              loops[k].img = g => (has'[g] = k <=> has[g] = k) /\ (has[g] = k /\ g \in raced => g \in raced')
    PROVE  DevicesInd'
<1>0. StateOK /\ WorkerOK /\ OneDevice /\ PointsOK
  BY DEF DevicesInd
<1>1. StateOK' /\ PointsOK'
  BY <1>0 DEF StateOK, PointsOK
<1>2. WorkerOK'
  <2>1. /\ w.pc # "idle" => w.m \in Modules
        /\ w.pc \in Chosen => w.num \in Loop
        /\ w.pc \in Attached => w.num # n
    BY <1>0 DEF WorkerOK, StateOK, Chosen, Attached, Opened
  <2> QED
    BY <1>0, <2>1 DEF WorkerOK, Chosen, Opened, Attached
<1>3. OneDevice'
  <2>1. \A k \in Loop : loops[k].img \in Modules => loops'[k] = loops[k]
    OBVIOUS
  <2>2. \A k \in Loop : loops'[k].img \in Modules => loops'[k] = loops[k]
    OBVIOUS
  <2> QED
    BY <1>0, <2>1, <2>2 DEF OneDevice
<1>4. ASSUME NEW k \in Loop, k # n PROVE DeviceOK(k)'
  <2>1. DeviceOK(k) /\ loops'[k] = loops[k]
    BY <1>4 DEF DevicesInd
  <2>2. loops[k].img = NoImage => FreeOK(k)'
    BY <2>1 DEF DeviceOK, FreeOK, WorkerFd
  <2>3. loops[k].img \in Foreign => ForeignOK(k, loops[k].img)'
    BY <1>4, <2>1 DEF DeviceOK, ForeignOK, WorkerFd
  <2>4. loops[k].img \in Modules => ModuleOK(k, loops[k].img)'
    BY <2>1 DEF DeviceOK, ModuleOK
  <2> QED
    BY <2>1, <2>2, <2>3, <2>4 DEF DeviceOK
<1> QED
  BY <1>1, <1>2, <1>3, <1>4 DEF DevicesInd

\* A foreign process binds a free device.
LEMMA ForeignBindStep == ASSUME DevicesInd, NEW f \in Foreign, ForeignBind(f) PROVE DevicesInd'
<1>0. /\ StateOK /\ WorkerOK /\ loops \in Devices /\ UNCHANGED <<devs, dms, w, state, points>>
      /\ has[f] = None /\ has \in [Foreign -> Loop \cup {None}] /\ raced \subseteq Foreign
  BY DEF DevicesInd, StateOK, ForeignBind
<1>1. PICK n \in devs :
        /\ loops[n].img = NoImage
        /\ loops' = [loops EXCEPT ![n].img = f, ![n].holders = @ \cup {f}]
        /\ has' = [has EXCEPT ![f] = n]
        /\ raced' = IF n = w.num /\ w.pc \in {"open", "setup"} THEN raced \cup {f} ELSE raced
  BY DEF ForeignBind, Free
<1>2. n \in Loop /\ DeviceOK(n) /\ loops[n] \in Device
  BY <1>0 DEF DevicesInd, StateOK, Devices
<1>3. ~loops[n].auto /\ loops[n].holders = WorkerFd(n) /\ IsFiniteSet(loops[n].holders)
  BY <1>1, <1>2 DEF DeviceOK, FreeOK
<1> DEFINE d == [loops[n] EXCEPT !.img = f, !.holders = loops[n].holders \cup {f}]
<1>4. loops' = [loops EXCEPT ![n] = d]
  BY <1>0, <1>1, <1>2 DEF Devices, Device
<1>5. d \in Device /\ d.img = f /\ d.auto = loops[n].auto /\ d.holders = loops[n].holders \cup {f}
  BY <1>2 DEF Device, Images, Holders
<1> HIDE DEF d
<1>6. /\ loops' \in Devices /\ \A k \in Loop : k # n => loops'[k] = loops[k]
      /\ loops'[n].img = f /\ loops'[n].auto = loops[n].auto
      /\ loops'[n].holders = loops[n].holders \cup {f}
  BY <1>0, <1>2, <1>4, <1>5 DEF Devices
<1>7. /\ has' \in [Foreign -> Loop \cup {None}] /\ has'[f] = n /\ raced \subseteq raced'
      /\ \A g \in Foreign : g # f => has'[g] = has[g]
      /\ raced' \subseteq Foreign
  BY <1>0, <1>1, <1>2
<1>8. n = w.num => f \in raced'
  <2>1. n = w.num => w.pc \in {"open", "setup"}
    BY <1>0, <1>1, <1>2, Kinds DEF WorkerOK, StateOK, Worker, Attached, Opened, Chosen
  <2> QED
    BY <1>1, <2>1
<1>9. DeviceOK(n)'
  <2>1. IsFiniteSet(loops[n].holders \cup {f})
    BY <1>3, FS_AddElement
  <2>2. ForeignOK(n, loops[n].img)'
    BY <1>0, <1>3, <1>6, <1>7, <1>8 DEF ForeignOK, WorkerFd
  <2> QED
    BY <1>0, <1>6, <2>1, <2>2, Kinds DEF DeviceOK
<1>10. ForeignKept'
  <2> SUFFICES ASSUME NEW g \in Foreign, has'[g] # None PROVE loops'[has'[g]].img = g \/ g \in raced'
    BY DEF ForeignKept
  <2>1. CASE g = f
    BY <1>6, <1>7, <2>1
  <2>2. CASE g # f
    <3>1. has'[g] = has[g] /\ (loops[has[g]].img = g \/ g \in raced) /\ has[g] \in Loop
      BY <1>0, <1>7, <2>2 DEF DevicesInd, ForeignKept
    <3>2. loops[has[g]].img = g => has[g] # n
      BY <1>1, Kinds
    <3> QED
      BY <1>6, <1>7, <3>1, <3>2
  <2> QED
    BY <2>1, <2>2
<1>11. \A k \in Loop \ {n}, g \in Foreign :
         loops[k].img = g => (has'[g] = k <=> has[g] = k) /\ (has[g] = k /\ g \in raced => g \in raced')
  BY <1>0, <1>7, Kinds
<1>12. loops[n].img \notin Modules /\ loops'[n].img \notin Modules
       /\ ("fd" \in loops[n].holders => "fd" \in loops'[n].holders)
  BY <1>1, <1>6, Kinds
<1> QED
  BY <1>0, <1>2, <1>6, <1>7, <1>9, <1>10, <1>11, <1>12, ForeignMoves

\* The device that a foreign process has, if it still holds it open, is bound to it.
LEMMA ForeignHolds ==
    ASSUME DevicesInd, NEW n \in Loop, NEW f \in Foreign, f \in loops[n].holders
    PROVE  loops[n].img = f
<1>1. DeviceOK(n) /\ loops[n] \in Device /\ f # "fd" /\ f # "dm"
  BY Kinds DEF DevicesInd, StateOK, Devices
<1>2. loops[n].img # NoImage
  BY <1>1 DEF DeviceOK, FreeOK, WorkerFd
<1>3. loops[n].img \notin Modules
  BY <1>1 DEF DeviceOK, ModuleOK
<1>4. loops[n].img \in Foreign => loops[n].img = f
  BY <1>1 DEF DeviceOK, ForeignOK, WorkerFd
<1> QED
  BY <1>1, <1>2, <1>3, <1>4 DEF Device, Images

\* A foreign process closes its device.
LEMMA ForeignCloseStep == ASSUME DevicesInd, NEW f \in Foreign, ForeignClose(f) PROVE DevicesInd'
<1> DEFINE n == has[f]
<1>0. /\ StateOK /\ WorkerOK /\ loops \in Devices /\ UNCHANGED <<devs, dms, w, state, points, has, raced>>
      /\ n \in Loop /\ has \in [Foreign -> Loop \cup {None}] /\ raced \subseteq Foreign
      /\ f \in loops[n].holders /\ loops' = Close(loops, n, f)
  BY DEF DevicesInd, StateOK, ForeignClose
<1>1. loops[n].img = f /\ DeviceOK(n) /\ n \in devs
  BY <1>0, ForeignHolds, Kinds DEF DevicesInd, DeviceOK
<1>2. /\ ForeignOK(n, f) /\ IsFiniteSet(loops[n].holders)
      /\ loops[n].auto \/ n = w.num => f \in raced
      /\ loops[n].holders \subseteq {f} \cup WorkerFd(n)
  BY <1>1 DEF DeviceOK, ForeignOK
<1>3. /\ loops' \in Devices /\ \A k \in Loop : k # n => loops'[k] = loops[k]
      /\ loops'[n].holders = loops[n].holders \ {f}
      /\ loops[n].auto /\ loops[n].holders \ {f} = {} => loops'[n].img = NoImage /\ ~loops'[n].auto
      /\ ~(loops[n].auto /\ loops[n].holders \ {f} = {}) =>
            loops'[n].img = f /\ loops'[n].auto = loops[n].auto
  BY <1>0, <1>1, CloseFacts
<1>4. n = w.num /\ w.pc = "setup" => "fd" \in loops[n].holders /\ f # "fd"
  BY <1>0, Kinds DEF WorkerOK, Opened, Chosen
<1>n. f # NoImage /\ f \notin Modules /\ f # "fd"
  BY Kinds
<1>5. IsFiniteSet(loops'[n].holders)
  BY <1>2, <1>3, FS_RemoveElement
<1> HIDE DEF n
<1>6. ASSUME NEW i \in Loop, i = n PROVE DeviceOK(i)'
  <2>1. CASE loops[i].auto /\ loops[i].holders \ {f} = {}
    <3>1. loops'[i].img = NoImage /\ ~loops'[i].auto /\ loops'[i].holders = {}
      BY <1>3, <1>6, <2>1
    <3>2. ~(i = w.num /\ w.pc = "setup")
      BY <1>4, <1>6, <2>1
    <3>3. FreeOK(i)'
      BY <1>0, <3>1, <3>2 DEF FreeOK, WorkerFd
    <3> QED
      BY <1>5, <1>6, <3>1, <3>3, Kinds DEF DeviceOK
  <2>2. CASE ~(loops[i].auto /\ loops[i].holders \ {f} = {})
    <3>1. loops'[i].img = f /\ loops'[i].auto = loops[i].auto /\ loops'[i].holders = loops[i].holders \ {f}
      BY <1>3, <1>6, <2>2
    <3>2. has'[f] = i
      BY <1>0, <1>6 DEF n
    <3>3. ForeignOK(i, loops[i].img)'
      BY <1>0, <1>2, <1>6, <3>1, <3>2 DEF ForeignOK, WorkerFd
    <3> QED
      BY <1>0, <1>1, <1>5, <1>6, <1>n, <3>1, <3>3 DEF DeviceOK
  <2> QED
    BY <2>1, <2>2
<1>7. ForeignKept'
  <2> SUFFICES ASSUME NEW g \in Foreign, has[g] # None, g \notin raced PROVE loops'[has[g]].img = g
    BY <1>0 DEF ForeignKept
  <2>1. has[g] \in Loop /\ loops[has[g]].img = g
    BY <1>0 DEF DevicesInd, ForeignKept
  <2>2. CASE has[g] = n
    BY <1>1, <1>2, <1>3, <2>1, <2>2
  <2>3. CASE has[g] # n
    BY <1>3, <2>1, <2>3
  <2> QED
    BY <2>2, <2>3
<1>8. /\ loops[n].img \notin Modules /\ loops'[n].img \notin Modules
      /\ "fd" \in loops[n].holders => "fd" \in loops'[n].holders
  BY <1>1, <1>3, <1>n, Kinds
<1> QED
  BY <1>0, <1>3, <1>6, <1>7, <1>8, ForeignMoves

\* A foreign process unbinds its device; while the worker has it open it stays bound and marked.
LEMMA ForeignUnbindStep == ASSUME DevicesInd, NEW f \in Foreign, ForeignUnbind(f) PROVE DevicesInd'
<1> DEFINE n == has[f]
<1>0. /\ StateOK /\ WorkerOK /\ loops \in Devices /\ UNCHANGED <<devs, dms, w, state, points>>
      /\ n \in Loop /\ has \in [Foreign -> Loop \cup {None}] /\ raced \subseteq Foreign
      /\ f \notin loops[n].holders /\ has' = [has EXCEPT ![f] = None] /\ raced' = raced \ {f}
      /\ loops' = IF loops[n].img = f THEN Close(ClrFd(Open(loops, n, f), n), n, f) ELSE loops
  BY DEF DevicesInd, StateOK, ForeignUnbind
<1>h. /\ has' \in [Foreign -> Loop \cup {None}] /\ has'[f] = None /\ raced' \subseteq Foreign
      /\ \A g \in Foreign : g # f => has'[g] = has[g] /\ (g \in raced => g \in raced')
  BY <1>0
<1>f. f # NoImage /\ f \notin Modules /\ f \in Holders /\ None \notin Loop
  BY Kinds DEF Holders
<1>k. \A k \in Loop, g \in Foreign : loops[k].img = g /\ ~(g = f /\ k = n) =>
         (has'[g] = k <=> has[g] = k) /\ (has[g] = k /\ g \in raced => g \in raced')
  BY <1>h, <1>f
<1> HIDE DEF n
<1>1. CASE loops[n].img # f
  <2>1. loops' = loops
    BY <1>0, <1>1
  <2>2. ForeignKept'
    BY <1>0, <1>h, <2>1 DEF DevicesInd, ForeignKept
  <2>3. \A k \in Loop, g \in Foreign : loops[k].img = g =>
           (has'[g] = k <=> has[g] = k) /\ (has[g] = k /\ g \in raced => g \in raced')
    BY <1>1, <1>k
  <2>4. ASSUME NEW i \in Loop PROVE DeviceOK(i)'
    <3>1. DeviceOK(i)
      BY DEF DevicesInd
    <3>2. loops[i].img \in Foreign => ForeignOK(i, loops[i].img)'
      BY <1>0, <2>1, <2>3, <3>1 DEF DeviceOK, ForeignOK, WorkerFd
    <3>3. loops[i].img = NoImage => FreeOK(i)'
      BY <1>0, <2>1, <3>1 DEF DeviceOK, FreeOK, WorkerFd
    <3>4. loops[i].img \in Modules => ModuleOK(i, loops[i].img)'
      BY <1>0, <2>1, <3>1 DEF DeviceOK, ModuleOK
    <3> QED
      BY <1>0, <2>1, <3>1, <3>2, <3>3, <3>4 DEF DeviceOK
  <2>5. StateOK' /\ WorkerOK' /\ OneDevice' /\ PointsOK'
    BY <1>0, <1>h, <2>1 DEF DevicesInd, StateOK, WorkerOK, OneDevice, PointsOK
  <2> QED
    BY <2>2, <2>4, <2>5 DEF DevicesInd
<1>2. CASE loops[n].img = f
  <2>1. DeviceOK(n) /\ n \in devs
    BY <1>0, <1>2, <1>f DEF DevicesInd, DeviceOK
  <2>2. ForeignOK(n, f) /\ IsFiniteSet(loops[n].holders) /\ loops[n].holders \subseteq WorkerFd(n)
    BY <1>0, <1>2, <2>1 DEF DeviceOK, ForeignOK
  <2> DEFINE K == Open(loops, n, f)
  <2>3. /\ K \in Devices /\ \A k \in Loop : k # n => K[k] = loops[k]
        /\ K[n].holders = loops[n].holders \cup {f} /\ K[n].img = f
    BY <1>0, <1>2, <1>f, OpenFacts
  <2> HIDE DEF K
  <2>4. IsFiniteSet(loops[n].holders \cup {f}) /\ (loops[n].holders \cup {f}) \ {f} = loops[n].holders
    BY <1>0, <2>2, FS_AddElement
  <2>5. loops' = Close(ClrFd(K, n), n, f)
    BY <1>0, <1>2 DEF K
  <2>6. ASSUME NEW M \in Devices, IsFiniteSet(M[n].holders), f \in M[n].holders, M[n].img # NoImage
        PROVE  LET C == Close(ClrFd(M, n), n, f) IN
               /\ C \in Devices /\ \A k \in Loop : k # n => C[k] = M[k]
               /\ C[n].holders = M[n].holders \ {f}
               /\ M[n].holders = {f} => C[n].img = NoImage /\ ~C[n].auto
               /\ M[n].holders # {f} => C[n].img = M[n].img /\ C[n].auto
    BY <1>0, <2>6, ReleaseFacts
  <2>7. /\ loops' \in Devices /\ \A k \in Loop : k # n => loops'[k] = loops[k]
        /\ loops'[n].holders = loops[n].holders
        /\ K[n].holders = {f} => loops'[n].img = NoImage /\ ~loops'[n].auto
        /\ K[n].holders # {f} => loops'[n].img = f /\ loops'[n].auto
    <3>1. f # NoImage /\ f \in K[n].holders /\ IsFiniteSet(K[n].holders)
      BY <1>f, <2>3, <2>4
    <3>2. /\ loops' \in Devices /\ \A k \in Loop : k # n => loops'[k] = K[k]
          /\ loops'[n].holders = K[n].holders \ {f}
          /\ K[n].holders = {f} => loops'[n].img = NoImage /\ ~loops'[n].auto
          /\ K[n].holders # {f} => loops'[n].img = K[n].img /\ loops'[n].auto
      BY <2>3, <2>5, <2>6, <3>1
    <3> QED
      BY <2>3, <2>4, <3>2
  <2>8. n = w.num /\ w.pc = "setup" => "fd" \in loops[n].holders
    BY <1>0 DEF WorkerOK, Opened, Chosen
  <2>9. f # "fd"
    BY Kinds
  <2>10. K[n].holders = {f} <=> loops[n].holders = {}
    BY <1>0, <2>3
  <2>11. ASSUME NEW i \in Loop, i = n PROVE DeviceOK(i)'
    <3>1. CASE loops[i].holders = {}
      <4>1. loops'[i].img = NoImage /\ ~loops'[i].auto /\ loops'[i].holders = {}
        BY <2>7, <2>10, <2>11, <3>1
      <4>2. FreeOK(i)'
        BY <1>0, <2>8, <2>11, <3>1, <4>1 DEF FreeOK, WorkerFd
      <4> QED
        BY <2>2, <2>7, <2>11, <4>1, <4>2, Kinds DEF DeviceOK
    <3>2. CASE loops[i].holders # {}
      <4>1. loops'[i].img = f /\ loops'[i].auto /\ loops'[i].holders = loops[i].holders
        BY <2>7, <2>10, <2>11, <3>2
      <4>2. i = w.num /\ w.pc = "setup" /\ loops[i].holders = {"fd"} /\ WorkerFd(i) = {"fd"}
        BY <2>2, <2>11, <3>2 DEF WorkerFd
      <4>3. ForeignOK(i, loops[i].img)'
        BY <1>0, <1>f, <1>h, <4>1, <4>2 DEF ForeignOK, WorkerFd
      <4> QED
        BY <1>0, <1>f, <2>1, <2>2, <2>11, <4>1, <4>3 DEF DeviceOK
    <3> QED
      BY <3>1, <3>2
  <2>12. ForeignKept'
    <3> SUFFICES ASSUME NEW g \in Foreign, has'[g] # None, g \notin raced' PROVE loops'[has'[g]].img = g
      BY DEF ForeignKept
    <3>1. g # f /\ has'[g] = has[g] /\ g \notin raced
      BY <1>h
    <3>2. has[g] \in Loop /\ loops[has[g]].img = g
      BY <1>0, <3>1 DEF DevicesInd, ForeignKept
    <3> QED
      BY <1>2, <2>7, <3>1, <3>2
  <2>13. loops[n].img \notin Modules /\ loops'[n].img \notin Modules
    BY <1>2, <1>f, <2>7, Kinds
  <2>14. \A k \in Loop \ {n}, g \in Foreign :
            loops[k].img = g => (has'[g] = k <=> has[g] = k) /\ (has[g] = k /\ g \in raced => g \in raced')
    BY <1>k
  <2> QED
    BY <1>0, <1>h, <2>7, <2>11, <2>12, <2>13, <2>14, ForeignMoves
<1> QED
  BY <1>1, <1>2
-----------------------------------------------------------------------------
\* At boot no device is bound and nothing is mounted.
LEMMA DevicesInit == Init => DevicesInd
<1> SUFFICES ASSUME Init PROVE DevicesInd
  OBVIOUS
<1>1. Rest.pc = "idle" /\ Rest.num = None /\ Rest.m = NoImage /\ Rest \in Worker
  BY DevicesAssumption DEF Rest, Worker
<1> DEFINE d == [img |-> NoImage, auto |-> FALSE, holders |-> {}]
<1>2. d \in Device /\ d.img = NoImage /\ d.auto = FALSE /\ d.holders = {}
  BY DEF Device, Images
<1> HIDE DEF d
<1>3. loops = [n \in Loop |-> d]
  BY DEF Init, d
<1>4. loops \in Devices /\ \A n \in Loop : loops[n] = d
  BY <1>2, <1>3 DEF Devices
<1>5. devs \subseteq Loop
  <2>1. 0..1 = {0, 1} /\ 0 \in Loop /\ 1 \in Loop
    BY Kinds
  <2> QED
    BY <2>1 DEF Init
<1>6. StateOK
  BY <1>1, <1>4, <1>5 DEF Init, StateOK
<1>7. WorkerOK /\ PointsOK
  BY <1>1 DEF Init, WorkerOK, PointsOK, Chosen, Opened, Attached
<1>8. OneDevice /\ ForeignKept
  BY <1>2, <1>4, Kinds DEF Init, OneDevice, ForeignKept
<1>9. ASSUME NEW n \in Loop PROVE DeviceOK(n)
  <2>1. loops[n].img = NoImage /\ loops[n].auto = FALSE /\ loops[n].holders = {}
    BY <1>2, <1>4
  <2>2. IsFiniteSet(loops[n].holders)
    BY <2>1, FS_EmptySet
  <2> QED
    BY <1>1, <2>1, <2>2, Kinds DEF Init, DeviceOK, FreeOK, WorkerFd
<1> QED
  BY <1>6, <1>7, <1>8, <1>9 DEF DevicesInd

\* Every step keeps the invariant.
LEMMA DevicesStep == DevicesInd /\ [Next]_vars => DevicesInd'
<1> SUFFICES ASSUME DevicesInd, [Next]_vars PROVE DevicesInd'
  OBVIOUS
<1>1. CASE WorkerStep
  BY <1>1, EarlySteps, ChooseSteps, SetUpStep, AttachedSteps, FailingSteps, MountStep DEF WorkerStep
<1>2. ASSUME NEW f \in Foreign, ForeignBind(f) \/ ForeignClose(f) \/ ForeignUnbind(f) PROVE DevicesInd'
  BY <1>2, ForeignBindStep, ForeignCloseStep, ForeignUnbindStep
<1>3. CASE UNCHANGED vars
  <2>1. /\ StateOK' /\ WorkerOK' /\ OneDevice' /\ PointsOK' /\ ForeignKept'
    BY <1>3 DEF vars, DevicesInd, StateOK, WorkerOK, OneDevice, PointsOK, ForeignKept
  <2>2. ASSUME NEW n \in Loop PROVE DeviceOK(n)'
    BY <1>3 DEF vars, DevicesInd, DeviceOK, FreeOK, ForeignOK, ModuleOK, WorkerFd
  <2> QED
    BY <2>1, <2>2 DEF DevicesInd
<1> QED
  BY <1>1, <1>2, <1>3 DEF Next

\* DevicesInd holds in every reachable state.
LEMMA DevicesInductive == Spec => []DevicesInd
BY DevicesInit, DevicesStep, PTL DEF Spec

(***************************************************************************)
(* The types, and one device per module: the kernel's state and the        *)
(* worker's fit together, no two loop devices are bound to one image, and  *)
(* a mounted module keeps its device and its mount point, whatever later   *)
(* modules, retries and other processes do (CreateLoopDevice,              *)
(* MountModulePackage).                                                    *)
(***************************************************************************)
THEOREM DevicesOnePerModule == Spec => []DevicesInv
<1>1. DevicesInd => DevicesInv
  BY DevicesSafe
<1> QED
  BY <1>1, DevicesInductive, PTL

(***************************************************************************)
(* A module whose mount failed leaves no loop device bound to its image,   *)
(* except below a dm device that was not removed, whether or not its mount *)
(* point could be removed (LoopbackDeviceUniqueFd::MaybeCloseBad,          *)
(* ClearDmLoopDevice).                                                     *)
(***************************************************************************)
THEOREM DevicesFailureFreesDevice == Spec => []FailureFreesDevice
<1>1. DevicesInd => FailureFreesDevice
  BY DevicesSafe
<1> QED
  BY <1>1, DevicesInductive, PTL

(***************************************************************************)
(* The binding of another process is kept, unless it was made between the  *)
(* worker's LOOP_CTL_GET_FREE and its attempt to bind.                     *)
(***************************************************************************)
THEOREM DevicesForeignKept == Spec => []ForeignKept
<1>1. DevicesInd => ForeignKept
  BY DevicesSafe
<1> QED
  BY <1>1, DevicesInductive, PTL
=============================================================================
