----------------------------- MODULE ClientKits -----------------------------
(***************************************************************************)
(* The client side of both services: SysInstallerKitsImpl (kit "sys") and  *)
(* ModuleUpdateKitsImpl (kit "module"), each with one cached proxy under   *)
(* one lock, used by several threads of a client process.  The service is  *)
(* loaded on demand by samgr, may die at any time and come back as a new   *)
(* instance.                                                               *)
(*                                                                         *)
(* The kits differ in where they hold the lock.  The system installer's    *)
(* GetService takes and releases it; the module update kit's callers hold  *)
(* it over the whole remote call.                                          *)
(***************************************************************************)
EXTENDS Naturals, FiniteSets

CONSTANTS Users,         \* threads of the client process
          NoUser,        \* nobody holds the lock
          MaxInstances,  \* bound: instances of the service
          MaxLeaks       \* bound: exits that found no service

ASSUME KitsAssumption ==
    /\ IsFiniteSet(Users) /\ NoUser \notin Users
    /\ MaxInstances \in Nat \ {0} /\ MaxLeaks \in Nat

VARIABLES kit,        \* which of the two kits
          proxy,      \* sysInstaller_ or moduleUpdate_: an instance, 0 if null
          lock,       \* holder of sysInstallerLock_ or moduleUpdateLock_
          call,       \* the call of each thread: [shape, pc, obj]
          pending,    \* threads whose load callback is still to come
          service,    \* samgr: [no, up], the latest instance
          recipients, \* instances with a death recipient
          notices,    \* deaths the recipient has still to be told of
          refused,    \* history: instances whose AddDeathRecipient failed
          registered, \* the thread whose callback updateCallBack_ holds
          session,    \* history: the instance each initialised thread was given
          request,    \* g_request
          leaked      \* history: exits that found no service

kitVars == <<kit, proxy, lock>>
svcVars == <<service, recipients, notices>>
histVars == <<refused, session, leaked>>
vars == <<kitVars, call, pending, svcVars, registered, request, histVars>>

Instance == 1..MaxInstances
Alive(i) == service.up /\ service.no = i
NoCall == [shape |-> "none", pc |-> "none", obj |-> 0]
Sessions == {u \in Users : session[u] # 0}

(***************************************************************************)
(* The calls.  All but a few only forward: without a service they answer   *)
(* -1, ERR_SERVICE_NOT_FOUND or an empty result, else what the service     *)
(* answers.                                                                *)
(***************************************************************************)
StreamCalls == {"StartUpdatePackageZip", "StartStreamUpdate", "StopStreamUpdate", "ProcessStreamData"}
ParaCalls == {"GetUpdateStatus", "StartUpdateParaZip", "StartDeleteParaZip",
              "AccDecompressAndVerifyPkg", "AccDeleteDir"}
VabCalls == {"CancelUpdateVabPackageZip", "StartUpdateABPackageZip", "StartUpdateVabPackageZip",
             "StartUpdateSingularPackageZip", "CreateVabSnapshotCowImg", "GetPartitionAvailableSize"}
MergeCalls == {"StartVabMerge", "ClearVabMetadataAndCow", "VabUpdateActive", "GetMetadataResult",
               "GetUpdateResult"}
CloudCalls == {"InstallCloudRom", "UninstallCloudRom", "GetFeatureStatus", "GetAllFeatureStatus",
               "ClearCloudRom", "UpdateCloudRomVersion"}
SyncCalls == {"StartAbSync", "SetAiMergeState", "SetUpdateVabMode"}
PatchCalls == {"ClearVabPatch", "GetPartitionStashSize"}
ModuleCalls == {"InstallModulePackage", "UninstallModulePackage", "GetModulePackageInfo"}
HmpCalls == {"GetHmpVersionInfo", "GetHmpUpdateResult"}

Calls(k) == IF k = "sys"
            THEN StreamCalls \cup ParaCalls \cup VabCalls \cup MergeCalls \cup CloudCalls
                 \cup SyncCalls \cup PatchCalls \cup {"SetUpdateCallback"}
            ELSE ModuleCalls \cup HmpCalls \cup {"StartUpdateHmpPackage"}

\* Only StartUpdateHmpPackage keeps the callback in the kit.
Shape(op) == IF op = "StartUpdateHmpPackage" THEN "update" ELSE "forward"

At(u, pc) == call[u].pc = pc
Goto(u, pc) == call' = [call EXCEPT ![u].pc = pc]
Return(u) == call' = [call EXCEPT ![u] = NoCall]
Unlock(u) == lock' = IF lock = u THEN NoUser ELSE lock
-----------------------------------------------------------------------------
(***************************************************************************)
(* Arrival of a call.  Threads are well behaved: they initialise once and  *)
(* exit once.  A null callback is refused at once and changes nothing.     *)
(***************************************************************************)
Forward(u) ==
    /\ call[u] = NoCall
    /\ \E op \in Calls(kit) :
          call' = [call EXCEPT ![u] = [shape |-> Shape(op), pc |-> "get", obj |-> 0]]
    /\ UNCHANGED <<kitVars, pending, svcVars, registered, request, histVars>>

InitCall(u) ==
    /\ call[u] = NoCall /\ u \notin Sessions
    /\ leaked < MaxLeaks \/ kit = "sys"
    /\ call' = [call EXCEPT ![u] = [shape |-> "init", pc |-> "init", obj |-> 0]]
    /\ UNCHANGED <<kitVars, pending, svcVars, registered, request, histVars>>

ExitCall(u) ==
    /\ call[u] = NoCall /\ u \in Sessions
    /\ call' = [call EXCEPT ![u] = [shape |-> "exit", obj |-> 0,
                                    pc |-> IF kit = "sys" THEN "check" ELSE "get"]]
    /\ UNCHANGED <<kitVars, pending, svcVars, registered, request, histVars>>

\* ExitSysInstaller asks samgr first and answers 0 (-1 without samgr) if there is nothing to stop.
ExitCheck(u) ==
    /\ At(u, "check")
    /\ \/ service.up /\ Goto(u, "get") /\ UNCHANGED session
       \/ Return(u) /\ session' = [session EXCEPT ![u] = 0]
    /\ UNCHANGED <<kitVars, pending, svcVars, registered, request, refused, leaked>>
-----------------------------------------------------------------------------
(***************************************************************************)
(* Init: under the lock of the kit the service is loaded and its callback  *)
(* awaited for three seconds.  The condition has no predicate: a           *)
(* notification that comes before the wait is missed.                      *)
(***************************************************************************)
InitCached(u) ==
    /\ At(u, "init") /\ lock = NoUser
    /\ proxy # 0
    /\ Goto(u, "get")
    /\ UNCHANGED <<kitVars, pending, svcVars, registered, request, histVars>>

InitLoad(u) ==
    /\ At(u, "init") /\ lock = NoUser
    /\ proxy = 0
    /\ lock' = u
    /\ Goto(u, "load")
    /\ UNCHANGED <<kit, proxy, pending, svcVars, registered, request, histVars>>

\* No samgr, or LoadSystemAbility fails: -1.
LoadRefused(u) ==
    /\ At(u, "load")
    /\ Unlock(u) /\ Return(u)
    /\ UNCHANGED <<kit, proxy, pending, svcVars, registered, request, histVars>>

LoadSystemAbility(u) ==
    /\ At(u, "load")
    /\ pending' = pending \cup {u}
    /\ Goto(u, "loading")
    /\ UNCHANGED <<kitVars, svcVars, registered, request, histVars>>

\* serviceCv_.wait_for begins.
Wait(u) ==
    /\ At(u, "loading")
    /\ Goto(u, "waiting")
    /\ UNCHANGED <<kitVars, pending, svcVars, registered, request, histVars>>

\* A wrong WaitTimeout: the wait begins again.
WaitAgain(u) ==
    /\ At(u, "waiting")
    /\ Goto(u, "loading")
    /\ UNCHANGED <<kitVars, pending, svcVars, registered, request, histVars>>

WaitTimeout(u) ==
    /\ At(u, "waiting")
    /\ Unlock(u) /\ Goto(u, "get")
    /\ UNCHANGED <<kit, proxy, pending, svcVars, registered, request, histVars>>

\* LoadServiceSuccess and LoadServiceFail: whoever waits goes on, with the lock released.
Notify ==
    /\ call' = [u \in Users |-> IF At(u, "waiting") THEN [call[u] EXCEPT !.pc = "get"] ELSE call[u]]
    /\ lock' = IF lock # NoUser /\ At(lock, "waiting") THEN NoUser ELSE lock

OnLoadSystemAbilitySuccess(u) ==
    /\ u \in pending
    /\ service.up \/ service.no < MaxInstances
    /\ pending' = pending \ {u}
    /\ service' = [no |-> IF service.up THEN service.no ELSE service.no + 1, up |-> TRUE]
    /\ Notify
    /\ UNCHANGED <<kit, proxy, recipients, notices, registered, request, histVars>>

OnLoadSystemAbilityFail(u) ==
    /\ u \in pending
    /\ pending' = pending \ {u}
    /\ Notify
    /\ UNCHANGED <<kit, proxy, svcVars, registered, request, histVars>>

\* Success without a remote object: nobody is told.
OnLoadWithoutObject(u) ==
    /\ u \in pending
    /\ pending' = pending \ {u}
    /\ UNCHANGED <<kitVars, call, svcVars, registered, request, histVars>>
-----------------------------------------------------------------------------
(***************************************************************************)
(* GetService.                                                             *)
(***************************************************************************)
\* A wrong KeepsLock: the lock is released before the remote call.
KeepsLockNever == FALSE

\* The module update kit holds the lock until the call returns.
KeepsLock == kit = "module"

GetCached(u) ==
    /\ At(u, "get") /\ lock = NoUser
    /\ proxy # 0
    /\ lock' = IF KeepsLock THEN u ELSE NoUser
    /\ call' = [call EXCEPT ![u].pc = "call", ![u].obj = proxy]
    /\ UNCHANGED <<kit, proxy, pending, svcVars, registered, request, histVars>>

GetLookup(u) ==
    /\ At(u, "get") /\ lock = NoUser
    /\ proxy = 0
    /\ lock' = u
    /\ Goto(u, "lookup")
    /\ UNCHANGED <<kit, proxy, pending, svcVars, registered, request, histVars>>

\* The caller answers that there is no service; ExitModuleUpdate has not counted down.
NoService(u) ==
    /\ Unlock(u) /\ Return(u)
    /\ session' = [session EXCEPT ![u] = IF call[u].shape = "exit" THEN 0 ELSE @]
    /\ leaked' = leaked + (IF call[u].shape = "exit" /\ kit = "module" THEN 1 ELSE 0)
    /\ UNCHANGED request

\* No samgr, or no such ability.
LookupFails(u) ==
    /\ At(u, "lookup")
    /\ NoService(u)
    /\ UNCHANGED <<kit, proxy, pending, svcVars, registered, refused>>

Lookup(u) ==
    /\ At(u, "lookup")
    /\ service.up
    /\ call' = [call EXCEPT ![u].pc = "register", ![u].obj = service.no]
    /\ UNCHANGED <<kitVars, pending, svcVars, registered, request, histVars>>

\* AddDeathRecipient fails on a dead instance, and may fail on another: it is only logged.
AddDeathRecipient(i) ==
    \/ Alive(i) /\ recipients' = recipients \cup {i} /\ UNCHANGED refused
    \/ refused' = refused \cup {i} /\ UNCHANGED recipients

GetService(u) ==
    /\ At(u, "register")
    /\ AddDeathRecipient(call[u].obj)
    /\ proxy' = call[u].obj
    /\ lock' = IF KeepsLock THEN u ELSE NoUser
    /\ Goto(u, "call")
    /\ UNCHANGED <<kit, pending, service, notices, registered, request, session, leaked>>

\* iface_cast fails: no proxy, but the recipient stays.
CastFails(u) ==
    /\ At(u, "register")
    /\ AddDeathRecipient(call[u].obj)
    /\ NoService(u)
    /\ UNCHANGED <<kit, proxy, pending, service, notices, registered>>
-----------------------------------------------------------------------------
(***************************************************************************)
(* The death of an instance and its notice.                                *)
(***************************************************************************)
DieNow ==
    /\ service' = [service EXCEPT !.up = FALSE]
    /\ notices' = notices \cup ({service.no} \cap recipients)

Die ==
    /\ service.up
    /\ DieNow
    /\ UNCHANGED <<kitVars, call, pending, recipients, registered, request, histVars>>

\* A wrong ResetService: any notice drops the proxy.
ResetAny(i) ==
    /\ i \in notices /\ lock = NoUser
    /\ notices' = notices \ {i}
    /\ proxy' = 0
    /\ recipients' = recipients \ {i}
    /\ UNCHANGED <<kit, lock, call, pending, service, registered, request, histVars>>

\* A wrong ResetService: a notice that finds the lock taken is dropped.
ResetTry(i) ==
    /\ i \in notices
    /\ notices' = notices \ {i}
    /\ IF proxy = i /\ lock = NoUser THEN proxy' = 0 /\ recipients' = recipients \ {i}
       ELSE UNCHANGED <<proxy, recipients>>
    /\ UNCHANGED <<kit, lock, call, pending, service, registered, request, histVars>>

\* OnRemoteDied calls ResetService, which drops the proxy if it is the dead one.
ResetService(i) ==
    /\ i \in notices /\ lock = NoUser
    /\ notices' = notices \ {i}
    /\ IF proxy = i THEN proxy' = 0 /\ recipients' = recipients \ {i}
       ELSE UNCHANGED <<proxy, recipients>>
    /\ UNCHANGED <<kit, lock, call, pending, service, registered, request, histVars>>
-----------------------------------------------------------------------------
(***************************************************************************)
(* The remote call.                                                        *)
(***************************************************************************)
\* The service answers, or the call fails because the instance is dead.
RemoteForward(u) ==
    /\ At(u, "call") /\ call[u].shape = "forward"
    /\ Unlock(u) /\ Return(u)
    /\ UNCHANGED <<kit, proxy, pending, svcVars, registered, request, histVars>>

\* A wrong InitDone: only the thread that loaded the service is counted.
InitDoneOnce(u) ==
    /\ At(u, "call") /\ call[u].shape = "init"
    /\ session' = [session EXCEPT ![u] = call[u].obj]
    /\ request' = IF kit = "module" /\ request = 0 THEN 1 ELSE request
    /\ Unlock(u) /\ Return(u)
    /\ UNCHANGED <<kit, proxy, pending, svcVars, registered, refused, leaked>>

\* SysInstallerInit ignores what the service answers; InitModuleUpdate counts the request.
InitDone(u) ==
    /\ At(u, "call") /\ call[u].shape = "init"
    /\ session' = [session EXCEPT ![u] = call[u].obj]
    /\ request' = IF kit = "module" THEN request + 1 ELSE request
    /\ Unlock(u) /\ Return(u)
    /\ UNCHANGED <<kit, proxy, pending, svcVars, registered, refused, leaked>>

\* ExitSysInstaller: the service may refuse.
ExitSysInstaller(u) ==
    /\ At(u, "call") /\ call[u].shape = "exit" /\ kit = "sys"
    /\ session' = [session EXCEPT ![u] = 0]
    /\ \/ Alive(call[u].obj) /\ DieNow
       \/ UNCHANGED <<service, notices>>
    /\ Return(u)
    /\ UNCHANGED <<kitVars, pending, recipients, registered, request, refused, leaked>>

\* ExitModuleUpdate: the service is asked when nobody else is counted; samgr may refuse.
ExitModuleUpdate(u) ==
    /\ At(u, "call") /\ call[u].shape = "exit" /\ kit = "module"
    /\ session' = [session EXCEPT ![u] = 0]
    /\ request' = request - 1
    /\ \/ request' <= 0 /\ Alive(call[u].obj) /\ DieNow
       \/ UNCHANGED <<service, notices>>
    /\ Unlock(u) /\ Return(u)
    /\ UNCHANGED <<kit, proxy, pending, recipients, registered, refused, leaked>>

\* StartUpdateHmpPackage registers its callback in the kit's one callback object.
RegisterCallback(u) ==
    /\ At(u, "call") /\ call[u].shape = "update"
    /\ registered' = u
    /\ Goto(u, "update")
    /\ UNCHANGED <<kitVars, pending, svcVars, request, histVars>>

\* The instance is dead, or the service reports: the callback is called before it answers.
UpdateFails(u) ==
    /\ At(u, "update") /\ ~Alive(call[u].obj)
    /\ Unlock(u) /\ Return(u)
    /\ UNCHANGED <<kit, proxy, pending, svcVars, registered, request, histVars>>

OnUpgradeProgress(u) ==
    /\ At(u, "update") /\ Alive(call[u].obj)
    /\ Goto(u, "upcall")
    /\ UNCHANGED <<kitVars, pending, svcVars, registered, request, histVars>>

UpdateDone(u) ==
    /\ At(u, "upcall")
    /\ Unlock(u) /\ Return(u)
    /\ UNCHANGED <<kit, proxy, pending, svcVars, registered, request, histVars>>

\* The client's callback calls the kit: it waits for the lock its own call holds.
Reenter(u) ==
    /\ At(u, "upcall")
    /\ Goto(u, "stuck")
    /\ UNCHANGED <<kitVars, pending, svcVars, registered, request, histVars>>

\* Only the death of the service ends the outer call.
StuckEnds(u) ==
    /\ At(u, "stuck") /\ ~Alive(call[u].obj)
    /\ Unlock(u) /\ Return(u)
    /\ UNCHANGED <<kit, proxy, pending, svcVars, registered, request, histVars>>
-----------------------------------------------------------------------------
Init ==
    /\ kit \in {"sys", "module"}
    /\ proxy = 0 /\ lock = NoUser
    /\ call = [u \in Users |-> NoCall]
    /\ pending = {}
    /\ service = [no |-> 0, up |-> FALSE]
    /\ recipients = {} /\ notices = {} /\ refused = {}
    /\ registered = NoUser
    /\ session = [u \in Users |-> 0]
    /\ request = 0 /\ leaked = 0

\* Steps of the kit's own code.
KitStep(u) ==
    \/ ExitCheck(u) \/ InitCached(u) \/ InitLoad(u) \/ LoadRefused(u) \/ LoadSystemAbility(u)
    \/ Wait(u) \/ WaitTimeout(u)
    \/ GetCached(u) \/ GetLookup(u) \/ LookupFails(u) \/ Lookup(u) \/ GetService(u) \/ CastFails(u)
    \/ RemoteForward(u) \/ InitDone(u) \/ ExitSysInstaller(u) \/ ExitModuleUpdate(u)
    \/ RegisterCallback(u) \/ UpdateFails(u) \/ OnUpgradeProgress(u) \/ UpdateDone(u)

Next ==
    \/ \E u \in Users : KitStep(u) \/ Forward(u) \/ InitCall(u) \/ ExitCall(u)
                        \/ Reenter(u) \/ StuckEnds(u)
    \/ \E u \in Users : \/ OnLoadSystemAbilitySuccess(u) \/ OnLoadSystemAbilityFail(u)
                        \/ OnLoadWithoutObject(u)
    \/ \E i \in Instance : ResetService(i)
    \/ Die

Spec == Init /\ [][Next]_vars

(***************************************************************************)
(* The threads run; remote calls come back and waits time out.  Nothing is *)
(* owed by samgr, by the clients or by the service.                        *)
(***************************************************************************)
FairSpec == Spec /\ \A u \in Users : WF_vars(KitStep(u))
-----------------------------------------------------------------------------
(***************************************************************************)
(* Properties.                                                             *)
(***************************************************************************)
\* The types of the kit's state.
KitsTypeOK ==
    /\ kit \in {"sys", "module"}
    /\ proxy \in Instance \cup {0} /\ lock \in Users \cup {NoUser}
    /\ DOMAIN call = Users
    /\ pending \subseteq Users
    /\ service \in [no : 0..MaxInstances, up : BOOLEAN]
    /\ recipients \subseteq Instance /\ notices \subseteq recipients /\ refused \subseteq Instance
    /\ registered \in Users \cup {NoUser}
    /\ session \in [Users -> Instance \cup {0}]
    /\ request \in Nat /\ leaked \in Nat

(***************************************************************************)
(* A dead service is not used for ever: while the proxy of a dead instance *)
(* is cached, its death notice is still to be handled.  The one exception  *)
(* is an instance whose AddDeathRecipient failed, which GetService only    *)
(* logs: then every Init answers "already init" until the client restarts. *)
(***************************************************************************)
DeadIsNoticed ==
    proxy # 0 /\ ~Alive(proxy) => proxy \in notices \/ proxy \in refused

\* The types, and no dead proxy that nobody will drop.
KitsInv == KitsTypeOK /\ DeadIsNoticed

(***************************************************************************)
(* What an initialised thread was given lasts: as long as that instance    *)
(* lives, the kit uses it, whatever late notices of older instances and    *)
(* other threads' calls do.                                                *)
(***************************************************************************)
InitHolds ==
    \A u \in Users : session[u] # 0 /\ Alive(session[u]) => proxy = session[u]

(***************************************************************************)
(* ExitModuleUpdate never ends the service under another initialised       *)
(* thread of the process.                                                  *)
(***************************************************************************)
ExitSparesOthers ==
    [][\A u \in Users : ExitModuleUpdate(u) /\ service.up /\ ~service'.up => Sessions \subseteq {u}]_vars

(***************************************************************************)
(* The one callback object of the module update kit reports to the thread  *)
(* whose update is running: StartUpdateHmpPackage calls do not overlap.    *)
(***************************************************************************)
CallbackIsOwn ==
    \A u \in Users : At(u, "upcall") \/ At(u, "update") => registered = u

(***************************************************************************)
(* Whoever takes the lock of the kit gives it back: Init's wait has a      *)
(* limit and remote calls come back.  The exception is a callback that     *)
(* calls the kit.                                                          *)
(***************************************************************************)
LockReleased ==
    \A u \in Users : lock = u ~> (lock # u \/ At(u, "stuck"))
=============================================================================
