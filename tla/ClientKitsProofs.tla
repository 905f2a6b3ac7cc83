-------------------------- MODULE ClientKitsProofs --------------------------
(***************************************************************************)
(* Proofs about ClientKits, for any number of threads, instances and       *)
(* leaked exits: the proxy a thread was given lasts, a dead one is         *)
(* noticed, callbacks do not mix, and an exit spares the other threads.    *)
(***************************************************************************)
EXTENDS ClientKits, FiniteSetTheorems, TLAPS

-----------------------------------------------------------------------------
(***************************************************************************)
(* The inductive invariant.                                                *)
(***************************************************************************)
KitShape == {"none", "forward", "update", "init", "exit"}
UnderLock == {"load", "loading", "waiting", "lookup", "register"}
InRemote == {"call", "update", "upcall", "stuck"}
KitPC == {"none", "init", "check", "get"} \cup UnderLock \cup InRemote

\* The types of the calls, and which shape of call gets where in which kit.
CallOK(u) ==
    /\ call[u] \in [shape : KitShape, pc : KitPC, obj : Nat]
    /\ call[u].pc \in {"update", "upcall", "stuck"} => call[u].shape = "update"
    /\ call[u].shape = "update" => kit = "module"
    /\ call[u].pc = "check" => kit = "sys" /\ call[u].shape = "exit"
    /\ call[u].pc \in {"init", "load", "loading", "waiting"} => call[u].shape = "init"
    /\ call[u].shape = "init" => session[u] = 0
    /\ call[u].shape = "exit" => session[u] # 0

\* Where a thread holds the lock; the module kit holds it during the remote call.
Locked(u) ==
    /\ call[u].pc \in UnderLock => lock = u
    /\ kit = "module" /\ call[u].pc \in InRemote => lock = u
    /\ call[u].pc \in {"lookup", "register"} => proxy = 0

\* Whoever was given an instance that lives was given what is cached.
Current(i) == /\ i \in 0..service.no
              /\ i # 0 /\ Alive(i) => proxy = i

Given(u) ==
    /\ call[u].pc \in InRemote => call[u].obj # 0 /\ Current(call[u].obj)
    /\ call[u].pc = "register" => call[u].obj \in 1..service.no
    /\ Current(session[u])

\* Notices are of dead instances, and the cached one has a recipient unless that was refused.
Watched ==
    /\ service.up => service.no # 0
    /\ \A i \in notices : i <= service.no /\ ~Alive(i)
    /\ proxy <= service.no
    /\ proxy # 0 => proxy \in recipients \cup refused

\* Every initialised thread is counted, and so is every exit that found no service.
Counted == kit = "module" => request = Cardinality(Sessions) + leaked

KitsCore ==
    /\ KitsTypeOK
    /\ \A u \in Users : CallOK(u) /\ Locked(u) /\ Given(u)
    /\ Watched
    /\ DeadIsNoticed
    /\ CallbackIsOwn

KitsInd == KitsCore /\ Counted
-----------------------------------------------------------------------------
(***************************************************************************)
(* Lemmas.                                                                 *)
(***************************************************************************)
\* Only the module update kit has a call that keeps its callback in the kit.
LEMMA UpdateIsModules ==
    ASSUME NEW k \in {"sys", "module"}, NEW op \in Calls(k), Shape(op) = "update"
    PROVE  k = "module"
BY DEF Calls, Shape, StreamCalls, ParaCalls, VabCalls, MergeCalls, CloudCalls, SyncCalls, PatchCalls

\* The set of initialised threads is finite.
LEMMA SessionsFinite == IsFiniteSet(Sessions) /\ Cardinality(Sessions) \in Nat
<1>1. Sessions \subseteq Users
  BY DEF Sessions
<1> QED
  BY <1>1, KitsAssumption, FS_Subset, FS_CardinalityType

\* A thread that is initialised adds one to the initialised threads.
LEMMA SessionOpens ==
    ASSUME NEW u \in Users, NEW x, x # 0,
           DOMAIN session = Users, session[u] = 0, session' = [session EXCEPT ![u] = x]
    PROVE  Cardinality(Sessions') = Cardinality(Sessions) + 1
<1>1. u \notin Sessions /\ Sessions' = Sessions \cup {u}
  BY DEF Sessions
<1> QED
  BY <1>1, SessionsFinite, FS_AddElement

\* A thread that exits takes one away, and there was one to take.
LEMMA SessionCloses ==
    ASSUME NEW u \in Users,
           DOMAIN session = Users, session[u] # 0, session' = [session EXCEPT ![u] = 0]
    PROVE  /\ Cardinality(Sessions) \in Nat \ {0}
           /\ Cardinality(Sessions') = Cardinality(Sessions) - 1
<1>1. u \in Sessions /\ Sessions' = Sessions \ {u}
  BY DEF Sessions
<1>2. Cardinality(Sessions) # 0
  BY <1>1, SessionsFinite, FS_EmptySet
<1> QED
  BY <1>1, <1>2, SessionsFinite, FS_RemoveElement

\* Two initialised threads count for two at least.
LEMMA TwoSessions ==
    ASSUME NEW u \in Sessions, NEW v \in Sessions, u # v
    PROVE  Cardinality(Sessions) >= 2
<1>1. {u, v} \subseteq Sessions /\ Cardinality({u, v}) = 2
  <2>1. IsFiniteSet({u}) /\ Cardinality({u}) = 1
    BY FS_Singleton
  <2>2. {u} \cup {v} = {u, v}
    OBVIOUS
  <2> QED
    BY <2>1, <2>2, FS_AddElement
<1> QED
  BY <1>1, SessionsFinite, FS_Subset

-----------------------------------------------------------------------------
(***************************************************************************)
(* The count of requests.                                                  *)
(***************************************************************************)
\* A call that finds no service ends the session of an exit and notes the leak.
LEMMA NoServiceCounts ==
    ASSUME KitsInd, NEW u \in Users, NoService(u), UNCHANGED kit
    PROVE  Counted' /\ request' \in Nat
<1>1. CASE call[u].shape = "exit"
  <2>1. session[u] # 0 /\ session' = [session EXCEPT ![u] = 0] /\ DOMAIN session = Users
    BY <1>1 DEF NoService, KitsInd, KitsCore, CallOK, KitsTypeOK
  <2>2. kit = "module" => leaked' = leaked + 1
    BY <1>1 DEF NoService, KitsInd, KitsCore, KitsTypeOK
  <2>3. /\ Cardinality(Sessions) \in Nat \ {0}
        /\ Cardinality(Sessions') = Cardinality(Sessions) - 1
    BY <2>1, SessionCloses
  <2> QED
    BY <2>2, <2>3 DEF NoService, KitsInd, KitsCore, KitsTypeOK, Counted
<1>2. CASE call[u].shape # "exit"
  <2>1. session' = session /\ leaked' = leaked
    BY <1>2 DEF NoService, KitsInd, KitsCore, KitsTypeOK
  <2> QED
    BY <2>1 DEF NoService, KitsInd, KitsCore, KitsTypeOK, Counted, Sessions
<1> QED
  BY <1>1, <1>2

\* Every step keeps the count of requests.
LEMMA CountedStep ==
    ASSUME KitsInd, [Next]_vars
    PROVE  Counted' /\ request' \in Nat
<1>1. ASSUME NEW u \in Users, LookupFails(u) \/ CastFails(u)
      PROVE  Counted' /\ request' \in Nat
  BY <1>1, NoServiceCounts DEF LookupFails, CastFails
<1>2. ASSUME NEW u \in Users, InitDone(u)
      PROVE  Counted' /\ request' \in Nat
  <2>1. session[u] = 0 /\ call[u].obj # 0 /\ DOMAIN session = Users
    BY <1>2 DEF InitDone, At, KitsInd, KitsCore, KitsTypeOK, CallOK, Given, InRemote
  <2>2. Cardinality(Sessions') = Cardinality(Sessions) + 1
    BY <1>2, <2>1, SessionOpens DEF InitDone
  <2> QED
    BY <1>2, <2>2, SessionsFinite DEF InitDone, KitsInd, KitsCore, KitsTypeOK, Counted
<1>3. ASSUME NEW u \in Users, ExitModuleUpdate(u)
      PROVE  Counted' /\ request' \in Nat
  <2>1. session[u] # 0 /\ DOMAIN session = Users
    BY <1>3 DEF ExitModuleUpdate, KitsInd, KitsCore, KitsTypeOK, CallOK
  <2>2. /\ Cardinality(Sessions) \in Nat \ {0}
        /\ Cardinality(Sessions') = Cardinality(Sessions) - 1
    BY <1>3, <2>1, SessionCloses DEF ExitModuleUpdate
  <2> QED
    BY <1>3, <2>2 DEF ExitModuleUpdate, KitsInd, KitsCore, KitsTypeOK, Counted
<1>4. ASSUME kit' = kit, kit = "sys", request' = request
      PROVE  Counted' /\ request' \in Nat
  BY <1>4 DEF Counted, KitsInd, KitsCore, KitsTypeOK
<1>5. ASSUME NEW u \in Users, ExitCheck(u) \/ ExitSysInstaller(u)
      PROVE  Counted' /\ request' \in Nat
  <2>1. kit' = kit /\ kit = "sys" /\ request' = request
    BY <1>5 DEF ExitCheck, ExitSysInstaller, At, kitVars, KitsInd, KitsCore, CallOK
  <2> QED
    BY <2>1, <1>4
<1>6. ASSUME UNCHANGED <<kit, session, request, leaked>>
      PROVE  Counted' /\ request' \in Nat
  BY <1>6 DEF Counted, Sessions, KitsInd, KitsCore, KitsTypeOK
<1> QED
  BY <1>1, <1>2, <1>3, <1>5, <1>6
  DEF Next, KitStep, vars, kitVars, histVars,
      Forward, InitCall, ExitCall, InitCached, InitLoad, LoadRefused, LoadSystemAbility, Wait,
      WaitTimeout, GetCached, GetLookup, Lookup, GetService, RemoteForward, RegisterCallback,
      UpdateFails, OnUpgradeProgress, UpdateDone, Reenter, StuckEnds,
      OnLoadSystemAbilitySuccess, OnLoadSystemAbilityFail, OnLoadWithoutObject, ResetService, Die
-----------------------------------------------------------------------------
(***************************************************************************)
(* The rest of the invariant.                                              *)
(***************************************************************************)
\* The initial state satisfies the invariant.
LEMMA KitsInit == Init => KitsInd
<1> SUFFICES ASSUME Init PROVE KitsInd
  OBVIOUS
<1>1. Sessions = {}
  BY DEF Init, Sessions
<1>2. Counted
  BY <1>1, FS_EmptySet DEF Init, Counted
<1>3. KitsCore
  BY KitsAssumption
  DEF Init, KitsCore, KitsTypeOK, CallOK, Locked, Given, Current, Watched, DeadIsNoticed,
      CallbackIsOwn,
      Alive, At, Goto, Return, Unlock, NoCall, KitShape, KitPC, UnderLock, InRemote, Instance,
      kitVars, svcVars, histVars
<1> QED
  BY <1>2, <1>3 DEF KitsInd

\* What a call record looks like when its control state and object are set.
LEMMA SetCall ==
    ASSUME NEW r \in [shape : KitShape, pc : KitPC, obj : Nat], NEW p \in KitPC, NEW o \in Nat,
           NEW s, s = [[r EXCEPT !.pc = p] EXCEPT !.obj = o]
    PROVE  /\ s \in [shape : KitShape, pc : KitPC, obj : Nat]
           /\ s.shape = r.shape /\ s.pc = p /\ s.obj = o
<1>1. [r EXCEPT !.pc = p] \in [shape : KitShape, pc : KitPC, obj : Nat]
  OBVIOUS
<1> DEFINE q == [r EXCEPT !.pc = p]
<1>2. q \in [shape : KitShape, pc : KitPC, obj : Nat] /\ q.shape = r.shape /\ q.pc = p
  OBVIOUS
<1>3. s = [q EXCEPT !.obj = o]
  OBVIOUS
<1> HIDE DEF q
<1> QED
  BY <1>2, <1>3

\* The types of what a call without a service changes.
LEMMA NoServiceTypes ==
    ASSUME KitsTypeOK, NEW u \in Users, NoService(u)
    PROVE  /\ lock' \in Users \cup {NoUser} /\ DOMAIN call' = Users
           /\ session' \in [Users -> Instance \cup {0}] /\ leaked' \in Nat
BY DEF KitsTypeOK, NoService, Unlock, Return

\* The death of the service leaves a notice of the cached instance if it had a recipient.
LEMMA DeathNoticed ==
    ASSUME KitsTypeOK, Watched, DeadIsNoticed, service.up, DieNow,
           UNCHANGED <<proxy, recipients, refused>>
    PROVE  /\ service' \in [no : 0..MaxInstances, up : BOOLEAN]
           /\ service'.no = service.no /\ ~service'.up
           /\ notices' \subseteq recipients
           /\ Watched' /\ DeadIsNoticed'
<1>1. /\ service' \in [no : 0..MaxInstances, up : BOOLEAN]
      /\ service'.no = service.no /\ ~service'.up
  BY DEF DieNow, KitsTypeOK
<1> QED
  BY <1>1 DEF DieNow, KitsTypeOK, Watched, DeadIsNoticed, Alive

\* The calls that arrive.
LEMMA ArrivalStep ==
    ASSUME KitsCore, request' \in Nat, NEW u \in Users,
           \/ Forward(u) \/ InitCall(u) \/ ExitCall(u) \/ ExitCheck(u)
    PROVE  KitsCore'
<1> USE KitsAssumption
        DEF KitsCore, KitsTypeOK, CallOK, Locked, Given, Current, Watched, DeadIsNoticed,
            CallbackIsOwn,
            Alive, At, Goto, Return, Unlock, NoCall, KitShape, KitPC, UnderLock, InRemote, Instance,
            kitVars, svcVars, histVars
<1>1. CASE Forward(u)
  <2>1. PICK op \in Calls(kit) :
            call' = [call EXCEPT ![u] = [shape |-> Shape(op), pc |-> "get", obj |-> 0]]
    BY <1>1 DEF Forward
  <2>2. Shape(op) \in {"update", "forward"} /\ (Shape(op) = "update" => kit = "module")
    BY UpdateIsModules DEF Shape, KitsCore, KitsTypeOK
  <2> QED
    BY <1>1, <2>1, <2>2 DEF Forward
<1>2. CASE InitCall(u)
  BY <1>2 DEF InitCall, Sessions
<1>3. CASE ExitCall(u)
  BY <1>3 DEF ExitCall, Sessions
<1>4. CASE ExitCheck(u)
  BY <1>4 DEF ExitCheck
<1> QED
  BY <1>1, <1>2, <1>3, <1>4

\* Init, up to the end of its wait.
LEMMA LoadStep ==
    ASSUME KitsCore, request' \in Nat, NEW u \in Users,
           \/ InitCached(u) \/ InitLoad(u) \/ LoadRefused(u)
           \/ LoadSystemAbility(u) \/ Wait(u) \/ WaitTimeout(u)
           \/ OnLoadSystemAbilitySuccess(u) \/ OnLoadSystemAbilityFail(u)
           \/ OnLoadWithoutObject(u)
    PROVE  KitsCore'
<1> USE KitsAssumption
        DEF KitsCore, KitsTypeOK, CallOK, Locked, Given, Current, Watched, DeadIsNoticed,
            CallbackIsOwn,
            Alive, At, Goto, Return, Unlock, NoCall, KitShape, KitPC, UnderLock, InRemote, Instance,
            kitVars, svcVars, histVars
<1>1. CASE InitCached(u)
  BY <1>1 DEF InitCached
<1>2. CASE InitLoad(u)
  BY <1>2 DEF InitLoad
<1>3. CASE LoadRefused(u)
  BY <1>3 DEF LoadRefused
<1>4. CASE LoadSystemAbility(u)
  BY <1>4 DEF LoadSystemAbility
<1>5. CASE Wait(u)
  BY <1>5 DEF Wait
<1>6. CASE WaitTimeout(u)
  BY <1>6 DEF WaitTimeout
<1>7. CASE OnLoadSystemAbilitySuccess(u)
  BY <1>7 DEF OnLoadSystemAbilitySuccess, Notify
<1>8. CASE OnLoadSystemAbilityFail(u)
  BY <1>8 DEF OnLoadSystemAbilityFail, Notify
<1>9. CASE OnLoadWithoutObject(u)
  BY <1>9 DEF OnLoadWithoutObject
<1> QED
  BY <1>1, <1>2, <1>3, <1>4, <1>5, <1>6, <1>7, <1>8, <1>9

\* GetCached keeps the invariant, one part after the other.
LEMMA GetCachedStep ==
    ASSUME KitsCore, request' \in Nat, NEW u \in Users, GetCached(u)
    PROVE  KitsCore'
<1>a. /\ DOMAIN call' = Users /\ \A v \in Users \ {u} : call'[v] = call[v]
      /\ call'[u] = [[call[u] EXCEPT !.pc = "call"] EXCEPT !.obj = proxy]
  BY DEF GetCached, KitsCore, KitsTypeOK
<1>b. /\ call'[u] \in [shape : KitShape, pc : KitPC, obj : Nat]
       /\ call'[u].shape = call[u].shape /\ call'[u].pc = "call" /\ call'[u].obj = proxy
  <2>1. call[u] \in [shape : KitShape, pc : KitPC, obj : Nat]
    BY DEF KitsCore, CallOK
  <2>2. "call" \in KitPC /\ "register" \in KitPC /\ proxy \in Nat /\ service.no \in Nat
    BY KitsAssumption DEF KitPC, UnderLock, InRemote, KitsCore, KitsTypeOK, Instance
  <2> QED
    BY <1>a, <2>1, <2>2, SetCall
<1>1. KitsTypeOK'
  BY <1>a, <1>b, KitsAssumption
  DEF GetCached, KeepsLock, KitsCore, KitsTypeOK, Given, Instance, At, Goto, Return, Unlock,
      NoCall, kitVars, svcVars, histVars, InRemote
<1>2. ASSUME NEW v \in Users PROVE CallOK(v)'
  <2>1. kit' = kit /\ session' = session /\ call[u].pc \in KitPC \ {"check"}
    BY DEF GetCached, At, KitsCore, CallOK, kitVars, histVars
  <2>2. CASE v # u
    BY <1>a, <2>1, <2>2 DEF KitsCore, CallOK
  <2>3. CASE v = u
    <3>1. /\ call'[u].pc \notin {"update", "upcall", "stuck", "check"}
          /\ call'[u].pc \notin {"init", "load", "loading", "waiting"}
      BY <1>b
    <3>2. CallOK(u)
      BY DEF KitsCore
    <3> QED
      BY <1>b, <2>1, <2>3, <3>1, <3>2 DEF CallOK
  <2> QED
    BY <2>2, <2>3
<1>3. ASSUME NEW v \in Users PROVE Locked(v)'
  BY <1>a, <1>b, KitsAssumption
  DEF GetCached, KeepsLock, KitsCore, KitsTypeOK, CallOK, Locked, At, Goto, Return, Unlock,
      NoCall, kitVars, svcVars, histVars,
      UnderLock, InRemote
<1>4. ASSUME NEW v \in Users PROVE Given(v)'
  BY <1>a, <1>b
  DEF GetCached, KeepsLock, KitsCore, KitsTypeOK, CallOK, Given, Current, Watched, Alive, Instance,
      At, Goto, Return, Unlock, NoCall, kitVars, svcVars, histVars, UnderLock, InRemote
<1>5. Watched' /\ DeadIsNoticed'
  BY <1>a, <1>b
  DEF GetCached, KeepsLock, KitsCore, KitsTypeOK, Watched, DeadIsNoticed, Alive, Instance,
      kitVars, svcVars, histVars
<1>6. CallbackIsOwn'
  BY <1>a, <1>b
  DEF GetCached, KeepsLock, KitsCore, KitsTypeOK, CallbackIsOwn, At, Goto, Return, Unlock,
      NoCall, kitVars, svcVars, histVars
<1> QED
  BY <1>1, <1>2, <1>3, <1>4, <1>5, <1>6 DEF KitsCore

\* Lookup keeps the invariant, one part after the other.
LEMMA LookupStep ==
    ASSUME KitsCore, request' \in Nat, NEW u \in Users, Lookup(u)
    PROVE  KitsCore'
<1>a. /\ DOMAIN call' = Users /\ \A v \in Users \ {u} : call'[v] = call[v]
      /\ call'[u] = [[call[u] EXCEPT !.pc = "register"] EXCEPT !.obj = service.no]
  BY DEF Lookup, KitsCore, KitsTypeOK
<1>b. /\ call'[u] \in [shape : KitShape, pc : KitPC, obj : Nat]
       /\ call'[u].shape = call[u].shape /\ call'[u].pc = "register" /\ call'[u].obj = service.no
  <2>1. call[u] \in [shape : KitShape, pc : KitPC, obj : Nat]
    BY DEF KitsCore, CallOK
  <2>2. "call" \in KitPC /\ "register" \in KitPC /\ proxy \in Nat /\ service.no \in Nat
    BY KitsAssumption DEF KitPC, UnderLock, InRemote, KitsCore, KitsTypeOK, Instance
  <2> QED
    BY <1>a, <2>1, <2>2, SetCall
<1>1. KitsTypeOK'
  BY <1>a, <1>b, KitsAssumption
  DEF Lookup, KitsCore, KitsTypeOK, Given, Instance, At, Goto, Return, Unlock, NoCall, kitVars,
      svcVars, histVars, InRemote
<1>2. ASSUME NEW v \in Users PROVE CallOK(v)'
  <2>1. kit' = kit /\ session' = session /\ call[u].pc \in KitPC \ {"check"}
    BY DEF Lookup, At, KitsCore, CallOK, kitVars, histVars
  <2>2. CASE v # u
    BY <1>a, <2>1, <2>2 DEF KitsCore, CallOK
  <2>3. CASE v = u
    <3>1. /\ call'[u].pc \notin {"update", "upcall", "stuck", "check"}
          /\ call'[u].pc \notin {"init", "load", "loading", "waiting"}
      BY <1>b
    <3>2. CallOK(u)
      BY DEF KitsCore
    <3> QED
      BY <1>b, <2>1, <2>3, <3>1, <3>2 DEF CallOK
  <2> QED
    BY <2>2, <2>3
<1>3. ASSUME NEW v \in Users PROVE Locked(v)'
  BY <1>a, <1>b, KitsAssumption
  DEF Lookup, KitsCore, KitsTypeOK, CallOK, Locked, At, Goto, Return, Unlock, NoCall, kitVars,
      svcVars, histVars,
      UnderLock, InRemote
<1>4. ASSUME NEW v \in Users PROVE Given(v)'
  BY <1>a, <1>b
  DEF Lookup, KitsCore, KitsTypeOK, CallOK, Given, Current, Watched, Alive, Instance,
      At, Goto, Return, Unlock, NoCall, kitVars, svcVars, histVars, UnderLock, InRemote
<1>5. Watched' /\ DeadIsNoticed'
  BY <1>a, <1>b
  DEF Lookup, KitsCore, KitsTypeOK, Watched, DeadIsNoticed, Alive, Instance, kitVars, svcVars,
      histVars
<1>6. CallbackIsOwn'
  BY <1>a, <1>b
  DEF Lookup, KitsCore, KitsTypeOK, CallbackIsOwn, At, Goto, Return, Unlock, NoCall, kitVars,
      svcVars, histVars
<1> QED
  BY <1>1, <1>2, <1>3, <1>4, <1>5, <1>6 DEF KitsCore

\* CastFails keeps the invariant, one part after the other.
LEMMA CastFailsStep ==
    ASSUME KitsCore, request' \in Nat, NEW u \in Users, CastFails(u)
    PROVE  KitsCore'
<1>a. call[u].obj \in Instance
  BY KitsAssumption DEF CastFails, At, KitsCore, KitsTypeOK, Given, Instance
<1>1. KitsTypeOK'
  BY <1>a, NoServiceTypes DEF CastFails, AddDeathRecipient, KitsCore, KitsTypeOK, kitVars
<1>2. ASSUME NEW v \in Users PROVE CallOK(v)'
  BY DEF CastFails, AddDeathRecipient, NoService, KitsCore, KitsTypeOK, CallOK, Instance, At, Goto,
      Return, Unlock, NoCall, kitVars, svcVars, histVars,
      KitShape, KitPC, UnderLock, InRemote
<1>3. ASSUME NEW v \in Users PROVE Locked(v)'
  BY KitsAssumption
  DEF CastFails, AddDeathRecipient, NoService, KitsCore, KitsTypeOK, CallOK, Locked, At, Goto,
      Return, Unlock, NoCall, kitVars, svcVars, histVars,
      UnderLock, InRemote
<1>4. ASSUME NEW v \in Users PROVE Given(v)'
  BY DEF CastFails, AddDeathRecipient, NoService, KitsCore, KitsTypeOK, CallOK, Given, Current,
      Watched, Alive, Instance,
      At, Goto, Return, Unlock, NoCall, kitVars, svcVars, histVars, UnderLock, InRemote
<1>5. Watched' /\ DeadIsNoticed'
  BY DEF CastFails, AddDeathRecipient, NoService, KitsCore, KitsTypeOK, Watched, DeadIsNoticed,
      Alive, Instance, kitVars, svcVars, histVars
<1>6. CallbackIsOwn'
  BY DEF CastFails, AddDeathRecipient, NoService, KitsCore, KitsTypeOK, CallbackIsOwn, At, Goto,
      Return, Unlock, NoCall, kitVars, svcVars, histVars
<1> QED
  BY <1>1, <1>2, <1>3, <1>4, <1>5, <1>6 DEF KitsCore

\* GetService.
LEMMA GetStep ==
    ASSUME KitsCore, request' \in Nat, NEW u \in Users,
           \/ GetLookup(u) \/ LookupFails(u) \/ GetService(u)
    PROVE  KitsCore'
<1> USE KitsAssumption
        DEF KitsCore, KitsTypeOK, CallOK, Locked, Given, Current, Watched, DeadIsNoticed,
            CallbackIsOwn,
            Alive, At, Goto, Return, Unlock, NoCall, KitShape, KitPC, UnderLock, InRemote, Instance,
            kitVars, svcVars, histVars
<1>1. CASE GetLookup(u)
  BY <1>1 DEF GetLookup
<1>2. CASE LookupFails(u)
  BY <1>2 DEF LookupFails, NoService
<1>3. CASE GetService(u)
  BY <1>3 DEF GetService, KeepsLock, AddDeathRecipient
<1> QED
  BY <1>1, <1>2, <1>3

\* ExitSysInstaller keeps the invariant, one part after the other.
LEMMA ExitSysInstallerStep ==
    ASSUME KitsCore, request' \in Nat, NEW u \in Users, ExitSysInstaller(u)
    PROVE  KitsCore'
<1>1. KitsTypeOK'
  BY KitsAssumption
  DEF ExitSysInstaller, DieNow, KitsCore, KitsTypeOK, Given, Instance, At, Goto, Return, Unlock,
      NoCall, kitVars, svcVars, histVars, InRemote
<1>2. ASSUME NEW v \in Users PROVE CallOK(v)'
  BY DEF ExitSysInstaller, DieNow, KitsCore, KitsTypeOK, CallOK, Instance, At, Goto, Return,
      Unlock, NoCall, kitVars, svcVars, histVars,
      KitShape, KitPC, UnderLock, InRemote
<1>3. ASSUME NEW v \in Users PROVE Locked(v)'
  BY KitsAssumption
  DEF ExitSysInstaller, DieNow, KitsCore, KitsTypeOK, CallOK, Locked, At, Goto, Return, Unlock,
      NoCall, kitVars, svcVars, histVars,
      UnderLock, InRemote
<1>4. ASSUME NEW v \in Users PROVE Given(v)'
  BY DEF ExitSysInstaller, DieNow, KitsCore, KitsTypeOK, CallOK, Given, Current, Watched, Alive,
      Instance,
      At, Goto, Return, Unlock, NoCall, kitVars, svcVars, histVars, UnderLock, InRemote
<1>5. Watched' /\ DeadIsNoticed'
  BY DEF ExitSysInstaller, DieNow, KitsCore, KitsTypeOK, Watched, DeadIsNoticed, Alive, Instance,
      kitVars, svcVars, histVars
<1>6. CallbackIsOwn'
  BY DEF ExitSysInstaller, DieNow, KitsCore, KitsTypeOK, CallbackIsOwn, At, Goto, Return, Unlock,
      NoCall, kitVars, svcVars, histVars
<1> QED
  BY <1>1, <1>2, <1>3, <1>4, <1>5, <1>6 DEF KitsCore

\* ExitModuleUpdate keeps the invariant, one part after the other.
LEMMA ExitModuleUpdateStep ==
    ASSUME KitsCore, request' \in Nat, NEW u \in Users, ExitModuleUpdate(u)
    PROVE  KitsCore'
<1>1. KitsTypeOK'
  BY KitsAssumption
  DEF ExitModuleUpdate, DieNow, KitsCore, KitsTypeOK, Given, Instance, At, Goto, Return, Unlock,
      NoCall, kitVars, svcVars, histVars, InRemote
<1>2. ASSUME NEW v \in Users PROVE CallOK(v)'
  BY DEF ExitModuleUpdate, DieNow, KitsCore, KitsTypeOK, CallOK, Instance, At, Goto, Return,
      Unlock, NoCall, kitVars, svcVars, histVars,
      KitShape, KitPC, UnderLock, InRemote
<1>3. ASSUME NEW v \in Users PROVE Locked(v)'
  BY KitsAssumption
  DEF ExitModuleUpdate, DieNow, KitsCore, KitsTypeOK, CallOK, Locked, At, Goto, Return, Unlock,
      NoCall, kitVars, svcVars, histVars,
      UnderLock, InRemote
<1>4. ASSUME NEW v \in Users PROVE Given(v)'
  BY DEF ExitModuleUpdate, DieNow, KitsCore, KitsTypeOK, CallOK, Given, Current, Watched, Alive,
      Instance,
      At, Goto, Return, Unlock, NoCall, kitVars, svcVars, histVars, UnderLock, InRemote
<1>5. Watched' /\ DeadIsNoticed'
  BY DEF ExitModuleUpdate, DieNow, KitsCore, KitsTypeOK, Watched, DeadIsNoticed, Alive, Instance,
      kitVars, svcVars, histVars
<1>6. CallbackIsOwn'
  BY DEF ExitModuleUpdate, DieNow, KitsCore, KitsTypeOK, CallbackIsOwn, At, Goto, Return, Unlock,
      NoCall, kitVars, svcVars, histVars
<1> QED
  BY <1>1, <1>2, <1>3, <1>4, <1>5, <1>6 DEF KitsCore

\* The remote calls.
LEMMA RemoteStep ==
    ASSUME KitsCore, request' \in Nat, NEW u \in Users,
           \/ RemoteForward(u) \/ InitDone(u) \/ RegisterCallback(u)
           \/ UpdateFails(u) \/ OnUpgradeProgress(u) \/ UpdateDone(u)
           \/ Reenter(u) \/ StuckEnds(u)
    PROVE  KitsCore'
<1> USE KitsAssumption
        DEF KitsCore, KitsTypeOK, CallOK, Locked, Given, Current, Watched, DeadIsNoticed,
            CallbackIsOwn,
            Alive, At, Goto, Return, Unlock, NoCall, KitShape, KitPC, UnderLock, InRemote, Instance,
            kitVars, svcVars, histVars
<1>1. CASE RemoteForward(u)
  BY <1>1 DEF RemoteForward
<1>2. CASE InitDone(u)
  BY <1>2 DEF InitDone
<1>3. CASE RegisterCallback(u)
  BY <1>3 DEF RegisterCallback
<1>4. CASE UpdateFails(u)
  BY <1>4 DEF UpdateFails
<1>5. CASE OnUpgradeProgress(u)
  BY <1>5 DEF OnUpgradeProgress
<1>6. CASE UpdateDone(u)
  BY <1>6 DEF UpdateDone
<1>7. CASE Reenter(u)
  BY <1>7 DEF Reenter
<1>8. CASE StuckEnds(u)
  BY <1>8 DEF StuckEnds
<1> QED
  BY <1>1, <1>2, <1>3, <1>4, <1>5, <1>6, <1>7, <1>8

\* The death of the service and its notice.
LEMMA DeathStep ==
    ASSUME KitsCore, request' \in Nat, Die \/ \E i \in Instance : ResetService(i)
    PROVE  KitsCore'
<1>1. CASE Die
  <2>1. /\ Watched' /\ DeadIsNoticed' /\ service'.no = service.no /\ ~service'.up
        /\ service' \in [no : 0..MaxInstances, up : BOOLEAN] /\ notices' \subseteq recipients
    BY <1>1, DeathNoticed DEF Die, KitsCore, kitVars, histVars
  <2>2. ASSUME NEW u \in Users PROVE CallOK(u)' /\ Locked(u)' /\ Given(u)'
    BY <1>1, <2>1 DEF Die, KitsCore, CallOK, Locked, Given, Current, Alive, kitVars, histVars
  <2>3. KitsTypeOK' /\ CallbackIsOwn'
    BY <1>1, <2>1 DEF Die, KitsCore, KitsTypeOK, CallbackIsOwn, At, kitVars, histVars
  <2> QED
    BY <2>1, <2>2, <2>3 DEF KitsCore
<1>2. ASSUME NEW i \in Instance, ResetService(i) PROVE KitsCore'
  <2>1. KitsTypeOK'
    BY <1>2, KitsAssumption
    DEF ResetService, KitsCore, KitsTypeOK, Given, Instance, At, Goto, Return, Unlock, NoCall,
        kitVars, svcVars, histVars, InRemote
  <2>2. ASSUME NEW v \in Users PROVE CallOK(v)'
    BY <1>2
    DEF ResetService, KitsCore, KitsTypeOK, CallOK, Instance, At, Goto, Return, Unlock, NoCall,
        kitVars, svcVars, histVars,
        KitShape, KitPC, UnderLock, InRemote
  <2>3. ASSUME NEW v \in Users PROVE Locked(v)'
    BY <1>2, KitsAssumption
    DEF ResetService, KitsCore, KitsTypeOK, CallOK, Locked, At, Goto, Return, Unlock, NoCall,
        kitVars, svcVars, histVars,
        UnderLock, InRemote
  <2>4. ASSUME NEW v \in Users PROVE Given(v)'
    BY <1>2
    DEF ResetService, KitsCore, KitsTypeOK, CallOK, Given, Current, Watched, Alive, Instance,
        At, Goto, Return, Unlock, NoCall, kitVars, svcVars, histVars, UnderLock, InRemote
  <2>5. Watched' /\ DeadIsNoticed'
    BY <1>2
    DEF ResetService, KitsCore, KitsTypeOK, Watched, DeadIsNoticed, Alive, Instance, kitVars,
        svcVars, histVars
  <2>6. CallbackIsOwn'
    BY <1>2
    DEF ResetService, KitsCore, KitsTypeOK, CallbackIsOwn, At, Goto, Return, Unlock, NoCall,
        kitVars, svcVars, histVars
  <2> QED
    BY <2>1, <2>2, <2>3, <2>4, <2>5, <2>6 DEF KitsCore
<1> QED
  BY <1>1, <1>2

\* A step that changes nothing keeps the invariant.
LEMMA KitsStutter == ASSUME KitsInd, UNCHANGED vars PROVE KitsInd'
BY
DEF vars, KitsInd, Counted, Sessions, KitsCore, KitsTypeOK, CallOK, Locked, Given, Current,
    Watched, DeadIsNoticed, CallbackIsOwn,
      Alive, At, Goto, Return, Unlock, NoCall, KitShape, KitPC, UnderLock, InRemote, Instance,
      kitVars, svcVars, histVars

\* The invariant is inductive.
LEMMA KitsInvariant == Spec => []KitsInd
<1>1. ASSUME KitsInd, [Next]_vars PROVE KitsInd'
  <2> USE <1>1
  <2>1. CASE UNCHANGED vars
    BY <2>1, KitsStutter
  <2>2. CASE Next
    <3>1. Counted' /\ request' \in Nat
      BY CountedStep
    <3>2. KitsCore
      BY DEF KitsInd
    <3>3. KitsCore'
      BY <2>2, <3>1, <3>2, ArrivalStep, LoadStep, GetStep, RemoteStep, DeathStep,
         GetCachedStep, LookupStep, CastFailsStep, ExitSysInstallerStep, ExitModuleUpdateStep
      DEF Next, KitStep
    <3> QED
      BY <3>1, <3>3 DEF KitsInd
  <2> QED
    BY <2>1, <2>2
<1> QED
  BY <1>1, KitsInit, PTL DEF Spec
-----------------------------------------------------------------------------
(***************************************************************************)
(* The theorems.                                                           *)
(***************************************************************************)
(***************************************************************************)
(* The types of the kits' state, and: a proxy of a dead service that       *)
(* GetService keeps has a death notice to come (ResetService drops it), or *)
(* its AddDeathRecipient had failed.                                       *)
(***************************************************************************)
THEOREM KitsDeadIsNoticed == Spec => []KitsInv
<1>1. KitsInd => KitsInv
  BY DEF KitsInd, KitsCore, KitsInv
<1> QED
  BY <1>1, KitsInvariant, PTL

(***************************************************************************)
(* What SysInstallerInit or InitModuleUpdate gave a thread lasts: while    *)
(* the instance lives, the kit's proxy is that instance.                   *)
(***************************************************************************)
THEOREM KitsInitHolds == Spec => []InitHolds
<1>1. KitsInd => InitHolds
  BY DEF KitsInd, KitsCore, InitHolds, Given, Current
<1> QED
  BY <1>1, KitsInvariant, PTL

(***************************************************************************)
(* StartUpdateHmpPackage calls do not overlap: the kit's one callback      *)
(* object holds the callback of the thread whose update runs.              *)
(***************************************************************************)
THEOREM KitsCallbackIsOwn == Spec => []CallbackIsOwn
<1>1. KitsInd => CallbackIsOwn
  BY DEF KitsInd, KitsCore
<1> QED
  BY <1>1, KitsInvariant, PTL

(***************************************************************************)
(* ExitModuleUpdate counts: the service it ends serves no other            *)
(* initialised thread of the process.                                      *)
(***************************************************************************)
THEOREM KitsExitSpares == Spec => ExitSparesOthers
<1>1. ASSUME KitsInd, [Next]_vars,
             NEW u \in Users, ExitModuleUpdate(u), service.up, ~service'.up
      PROVE  Sessions \subseteq {u}
  <2>1. request <= 1 /\ kit = "module" /\ u \in Sessions
    BY <1>1 DEF ExitModuleUpdate, KitsInd, KitsCore, KitsTypeOK, CallOK, Sessions
  <2>2. Cardinality(Sessions) <= 1
    BY <1>1, <2>1, SessionsFinite DEF KitsInd, KitsCore, KitsTypeOK, Counted
  <2> QED
    BY <2>1, <2>2, TwoSessions, SessionsFinite
<1>2. KitsInd /\ [Next]_vars =>
          [\A u \in Users : ExitModuleUpdate(u) /\ service.up /\ ~service'.up
                            => Sessions \subseteq {u}]_vars
  BY <1>1
<1> QED
  BY <1>2, KitsInvariant, PTL DEF Spec, ExitSparesOthers
=============================================================================
