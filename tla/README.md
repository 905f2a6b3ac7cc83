# TLA+ model of update_sys_installer

`update_sys_installer` installs system updates on a running device. Two system
abilities do the work: `sys_installer` installs update packages into the
inactive slot, `module_update_service` installs, checks and reverts module
packages (hmp), with a boot-time program that mounts them. This directory holds
TLA+ models of the parts where concurrency and order decide whether the program
is right, the TLC runs that check them, and TLAPS proofs.

## 1. Inventory

| Part | State | Operations | Talks to |
|---|---|---|---|
| `StatusManager` | callback, `updateStatus_`, `percent_` | `SetUpdateCallback`, `UpdateCallback`, `SetUpdatePercent` | client callback |
| `ActionProcesser` | `isRunning_`, `actionQue_`, `curAction_` | `AddAction`, `Start`, `CompletedAction`, `StartNextAction` (`Stop`, `SetUpdateMode` without effect) | actions (callback), status manager |
| `PkgVerify`, `ABUpdate` | the packages and the status manager | `PerformAction` | package verifier and installer (external), slot switch |
| `SysInstallerManagerHelper` | two maps task -> object, a lock each | init, start, set callback, get status, get result (erases) | processers, status managers |
| `SysInstallerServer` | `runningSet_`, `idleCounter_`, timer id, `sysInstallerServerLock_` | IPC handlers, `ExitSysInstaller`, exit timer | manager, samgr, time service |
| Stream update | ring buffer, thread, `isRunning_`, `isExitThread_`, own status manager | init, start, stop, data, consuming thread | `BinChunkUpdate` and `RingBuffer` (external) |
| Module update monitor | bounded queue, `g_exit`, parameters | producer, consumer | samgr and bundle manager via parameters, revert |
| `ModuleUpdateMain`, `ModuleUpdateService` | `hmpSet_`, install/active/backup directories, result file | install, uninstall, query, result | file system, parameters |
| Boot program (`ModuleUpdate`) | chosen module file, mounts, task pool | scan, stage, mount, revert, reboot | file system, kernel |
| Loop and dm devices | the kernel's devices | pre-allocate, bind with retries, verity device, clear | kernel, other users of loop devices |
| Result file | lines "hmp;code;message" | append, rewrite after a revert, read and remove | service, monitor, boot program |
| `ModuleFile` | versions | open, compare, verify | zip, hvb |
| Client kits | cached proxy, death recipient, load condition, `g_request`, callback | init, exit, every call | samgr, the service |
| Stubs, proxies, zip, hvb, tool | none that lasts | conversion | |

What is hard here:

* IPC handlers run on a pool of threads. An update runs on the thread that
  started it, through a chain of callbacks that lock and unlock the processer.
* A task is a pair of entries in two maps under two locks.
* The service unloads itself when it looks idle, while calls may still arrive.
* The producer and the consumer of the monitor test and act in different
  critical sections, and wait without testing again.
* Installed, active and backup directories change step by step and a crash may
  come between any two steps; the boot works on what it finds.
* A stream's start, stop and data calls run in parallel without a lock, and the
  consuming thread ends by itself.
* Several threads of a client share one proxy of a service that is loaded on
  demand, dies, and comes back.
* Three writers and a reader that removes it share the result file, without a
  common lock.
* Loop devices are shared with other processes and taken in two steps.

What makes the parts correct: one runner per processer; the final status agrees
with what happened and is not overwritten; a package is verified before it is
installed; an initialised task can be started; the service does not exit under
an update and does exit when idle; the queue is a FIFO, its threads end, and no
report is lost; an installed module is mounted after the boot, the one before it
stays complete until it is no longer needed, and reverts do not reboot for ever;
a stream has one consumer, its slot is switched when it is complete, and a stop
returns; a client does not keep a dead proxy nor loses a living one; a failed
mount gives its devices back and leaves those of others alone; a reverted module
is not reported as updated. The hazards, each at its line, are in `PROJECT.json`.

## 2. Modules

```
UpdateTask             abstract: a task as its client knows it
StatusManager          one status manager as a value
  ActionProcesser      processers, the two actions, the threads that run them
    InstallerManager   the task table and its IPC calls
      SysInstallerServer   exit guard, exit, timer, life of the process
StreamUpdate           the stream path: IPC calls, consuming thread, ring buffer
ClientKits             the two client kits and the service as they see it
ReportChannel          abstract: a bounded FIFO of reports
  ModuleUpdateQueue    producer, consumer and the ring between them
ModuleStore            the directories of the modules, the service's requests, Revert
  ModuleBoot           the check at boot, power loss, the whole life of a module
ModuleDevices          loop and dm devices of the modules at boot
UpdateResult           the result file and its writers and readers
*Proofs                theorems: ActionProcesser, SysInstallerServer (with InstallerManager),
                       StreamUpdate, ClientKits, ModuleUpdateQueue, ModuleBoot, ModuleDevices,
                       UpdateResult
MC*                    instances for TLC
```

**StatusManager.** Operators on a record. `UpdateCallback` drops a report
without a registered callback: not even the status is recorded then. Percent
never decreases except that SUCCESSFUL and FAILED set it to 100.

**ActionProcesser.** `Objs` are heap objects: object `o` is the processer and
the status manager that `SysInstallerInit` creates together. A thread's record
holds its program counter and the locals of `StartUpdatePackageZip`: the
processer `ap`, the status manager `sm`, the package, the action it performs
(`act`), the status read by `SetUpdatePercent` (`st`) and the error code (`err`).
One critical section of `mutex_` is one step. `SetUpdatePercent` reads the
status in one step and reports it in another, because it reads outside the lock.
The external verifier and installer return either verdict; the installer may
report progress any number of times before. With one package both calls of
`SetUpdatePercent(5)` report the same value and are one step. An empty path has
no package to verify and goes straight on to the installation, as in `Verify`.
`CANCEL` and `RETRY_SUCCESSFUL` are kept in the completion code although the
two shipped actions never return them.

`Serial` says how calls are delivered. `StartUpdatePackageZip` is `[oneway]` in
`ISysInstaller.idl`, and the binder driver hands an object its asynchronous
calls one at a time, so the service runs with `Serial = TRUE`. `Serial = FALSE`
shows what the class guarantees by itself: `SingleRunner`, `ActionAlive`,
`StatusSettled`, `ImplementsTask` and `RunEnds` do not need serial delivery.
`VerifiedBeforeInstall` and `SuccessMeansActivated` do: two overlapping calls may interleave their actions
in one queue, or the second may leave actions behind for the next run.

**UpdateTask.** What a task promises its client, without queues, actions, threads
and locks: it runs or is idle; while it runs its progress only grows and its
status stays; the first failure breaks the run, after which nothing is switched
and the run ends as FAILED; without a listener nothing is recorded. `Client` in
`ActionProcesser` instantiates it with `Views`: `isRunning_`, whether the runner
carries an error code (`Broken`), whether the slot was switched, and the status
manager. `ImplementsTask` is its specification.

**InstallerManager.** `statusManagerMap`, `actionProcesserMap`, `helper` (whether
`MakeHelper` has run) and the call each thread serves. A lookup is one step under
its map's lock. An object lives while a shared pointer to it exists (`InUse`);
`SysInstallerInit` takes a fresh one. The operations that the shipped helper
refuses are in `Refused`: they answer -1, those in `RefusedLate` after
`MakeHelper`. `Called` says which operations the clients of an instance use;
operations of one set behave alike, so one of a set stands for all.

**SysInstallerServer.** `runningSet` holds the calls whose tag is in
`runningSet_`; leaving a guard removes all calls of the same handler, because
`erase(tag_)` on a multiset does. `exit` is the control state of
`ExitSysInstaller`, on an IPC thread ("client") and on the timer's thread:
take `sysInstallerServerLock_`, read the set, read the tasks, ask samgr. `late`
remembers the calls that began after the set was read. `ProcessEnds` loses all
memory; `Load` starts over, with or without a timer. The module takes the package
path (`bStreamUpgrade_` false); the stream path is `StreamUpdate`.

**StreamUpdate.** `call` is the call of each IPC thread with its program counter
and the thread it joins; `cons` the control state of the consuming threads, which
are named so that a second one can be told from the first; `ring` the external
ring buffer (made, stopped, how many chunks). Reads and writes of the unlocked
flags are steps of their own. A join of a joined thread and the deletion of a
joinable one end the process (`alive`). `Reload` is the unloading of the service
between two calls, which `IsTaskRunning` does not prevent. History: `overlapped`
(Start and Stop calls were in progress together), `early` (a chunk came before
Start returned), `completed`. After an overlap no further call begins: what holds
is stated for clients that keep Start and Stop apart, and what an overlap can do
is still explored to the end of the calls in progress.

**ClientKits.** One module for both kits: `kit` is "sys" or "module", `proxy` the
instance that is cached, `lock` the holder of the kit's lock. They differ in
`KeepsLock`: the module update kit holds its lock over the remote call. `service`
is samgr's view (number of the latest instance, up or not); load callbacks come
late or never, `Wait` and `Notify` have no predicate between them, and each
instance's death is told by a notice of its own, some time later. The calls that
only forward have one shape; `Calls` lists them. A client that calls the kit from
its own callback is `Reenter`.

**ModuleUpdateQueue.** `ModuleUpdateMain::Start`: the parameters as they are when
the monitor starts, the producer's scan, `Put` and `Pop` split at their critical
sections, the consumer's loop up to its decision to revert. `Spurious` wakes a
waiting thread without a notification. `put` and `popped` record what went
through the queue. The parameters that the producer writes back are not read
again by it, except those of the abilities. `Channel` instantiates
`ReportChannel` with `Queued` (the ring from `head_` on), `isStop_` and the
decision to revert: `ImplementsChannel` is its specification.

**ModuleStore.** `disk` gives for each place (install, active, backup) and hmp
the directory: whether it is there, and which version its `module_info.zip` and
`module.img` come from (0: no such file). Making a directory, unpacking,
linking or unlinking one file, a rename, and the removal of one file or of the
empty directory are one step each. `req` is the request that holds `taskLock_`,
`rv` the call of `Revert` in progress. The monitor's `Revert` does not take
`taskLock_` and interleaves with a request. A package is "full", an increment
("incr", restored from the image that `GetWorkHmpImagePath` names) or without a
module file ("bare"). Versions are numbers; those with the same quotient by `LINE`
agree in M, S and F, and only those are comparable (`CompareHmpVersion`).
`InstallFails` stands for every check and call of an install that can fail.
`ModuleFile::Open` and the signature check are one outcome: a directory opens
when both files are there (`Openable`). The image carries its own verity data,
so nothing ties it to the `module_info.zip` beside it.

**ModuleBoot.** `PowerOn` queues a task for every hmp; `wk` is the worker
(choose, stage file by file, clear, mount), `main` the thread that waits for an
empty queue, joins the worker and removes the install directories. The service
runs when the check is over. `DoReboot` returns: the caller and the boot go on
until the device goes down (`Reboot`). `Restart` is the user's, `Crash` a power
loss at any moment. What was done to the file system before a power loss stays,
in order. `SystemUpdate` brings newer preinstalled packages between two boots.

History variables: `promised` is the version of the last install that was
reported a success, `due` its value when the boot began, `prior` the package that
was active before that install, `cut` the hmps one of whose copies was
interrupted. An install that a `Revert` overlapped (`alone` false) promises
nothing, a mount failure or a failed system call in staging ends a promise, and
`MonitorRevert` gives up the module it reverts.

**ModuleDevices.** The worker of the boot check takes module after module: `w` is
its control state with the attempt and the device number, `loops` gives each
device's image, its autoclear mark and who has it open, `dms` the devices with a
dm-verity device on top. The kernel is external: `LOOP_CTL_GET_FREE` gives the
lowest free device, `LOOP_CLR_FD` unbinds or marks for the last close. `Foreign`
processes bind, close and unbind devices at any time. Every system call of the
worker may fail, also the `rmdir` by which a failing `MountModulePackage` removes
the mount point (`GiveUp`), which is only logged and must fail if something is in
it; `points` are the mount points that are there, any of them at first. `raced` remembers the foreign bindings made between
`LOOP_CTL_GET_FREE` and `LOOP_SET_FD`.

**UpdateResult.** The file is a sequence of results and line ends, as a rewrite
keeps lines without their ends and results run together; a line is read by its
first result. `wr` is the writer of a revert or mount failure (read, truncate,
flush, append), `get` the read and removal by `GetHmpUpdateResult`, `disk` the text
that a power loss may bring back. The service's own calls hold `taskLock_`, the
monitor does not: a result may be appended between the truncation and the writing
of a rewrite. The stream then writes from the beginning of the file (`Overwritten`),
and the lengths of the texts, which the model leaves out, decide what remains of
the appended line: nothing, all of it, or a piece (`Piece`) that names any module or
none, with any code. If there is nothing to write the appended line stays; if the
file was removed meanwhile nobody sees what is written (`out`). `torn` remembers such
an overwriting. Hmp names are taken not to contain one another and no path to
contain the word "revert", on which `CheckAndUpdateRevertResult` decides.

`map` in `PROJECT.json` gives the source lines of every definition. Definitions
named "a wrong ..." are the mutants.

## 3. Runs

| Run | Instance | Shows | States |
|---|---|---|---|
| `processer_overlap` | 2 threads, 1 processer, 1 progress value, not serial | `ProcesserInv`, `SingleRunner`, `ActionAlive`, `ImplementsTask`, `RunEnds` | 43 000 |
| `task_table` | 3 threads, 2 objects, 1 task, serial | `VerifiedBeforeInstall`, `SuccessMeansActivated` | 2.1 million |
| `server` | 2 threads, 1 object, threshold 3 | `SrvTypeOK`, `UnloadSparesUpdates`, `UpdateKeepsGuard`, `IdleServiceExits` | 416 000 |
| `queue` | 2 abilities (one without hmp), 2 modules, 2 places | `MonTypeOK`, `NoOverrun`, `Fifo`, `StartReturns`, `ImplementsChannel` | 120 000 |
| `boot_crash` | 1 hmp, 3 versions, 1 fault | `BootInv`, `PromiseKept`, `PreviousSurvives`, `RunsWhatItReports` | 6.3 million |
| `boot_settles` | 1 hmp, 3 versions, increments, 1 fault | `BootSettles`, `RunsWhatItReports` | 1.2 million |
| `stream` | 2 IPC threads, 2 consuming threads, 2 places | `StreamInv`, `DiesOnlyOfOverlap`, `SlotFollowsStream`, `SuccessStays`, `StopReturns`, `DataReturns` | 140 000 |
| `client` | 2 threads, 2 instances of the service, 1 leak, both kits | `KitsInv`, `InitHolds`, `CallbackIsOwn`, `ExitSparesOthers`, `LockReleased` | 491 000 |
| `devices` | 2 modules, 2 other processes, 5 loop devices, 3 attempts | `DevicesInv`, `FailureFreesDevice`, `ForeignKept`, `EveryModuleSettles` | 772 000 |
| `results` | 2 hmps, 3 results in the file | `ResultInv`, `RevertedNotSuccessful`, `NothingRemovedUntold` | 1.7 million |
| `task_wedged` | 2 threads, 1 task | violation of `InitializedTaskCanStart` | |
| `destroyed_not_reverted` | 1 hmp, 3 versions, 1 fault | violation of `DestroyedIsReverted` | |

An invariant named `...Inv` is the module's types together with one structural
property: `ProcesserInv` with `StatusSettled`, `StreamInv` with `OneConsumer`,
`KitsInv` with `DeadIsNoticed`,
`DevicesInv` with `OneDevicePerModule`, `ResultInv` with `EntriesAreTrue`, `BootInv`
with `StagedFromWhole`. `SrvTypeOK` includes the types of the manager and of the
processers.

Bounds. Two threads are enough for every pair of handlers to overlap; the task
table has a third, so that an erasure, an initialisation and an update meet, and
a second object, so that an erased task and its successor live side by side. One
task suffices there: tasks share nothing but the objects. `Called` has every
operation that changes state and one that is refused late, in `server` without
`SetUpdateCallback`, which takes the same guard as the others. The queue has fewer
places than reports, so that it is full and its indices wrap. Thread and object
symmetry is used where no liveness is checked. Hmps have directories of their own and share the one
worker, which takes them in turn, so one hmp is enough; the clean-up can race its
task already. With three versions one is preinstalled, one active and one waiting
at the same time. `MAX_FAULT` bounds power losses and failing system calls together; one
may strike at every step, restarts and failing mounts and checks are not counted.
`destroyed_not_reverted` leaves out uninstalls, queries and system updates
(`InstallsOnly`), so that its trace is a power loss in `Revert`. No run installs
packages without a module file yet.

In `stream`, two consuming threads let a Start make a second one while the first
is joined, and the ring has the two places of the code. `MaxInstances` is two, so
that the notice of the first instance meets the proxy of the second; `MaxLeaks`
bounds the exits that found no service, each of which `g_request` keeps for ever.
`MaxLoops` leaves every module and every other process a device and one over, so
that running out is a fault, not the rule. Three results are enough for two to run
together and a third to be rewritten among them.

Deadlock is checked except in `queue`, `stream` and `devices`: the monitor's
threads and the boot check end, and all IPC threads may wait in `ProcessStreamData`
for a consuming thread that has ended.

Findings, with the traces' story in `PROJECT.json`:

* `task_wedged`: an initialisation between the two erasures of
  `GetUpdateResult` leaves a task that counts as initialised, cannot be started
  and cannot be erased.
* `destroyed_not_reverted`: power is lost in `Revert` after the active directory
  is removed; the boot notices, calls `Revert`, and `Revert` returns because there
  is no active directory.

Weaknesses that the properties are stated around, as no source asks for more:

* Of two overlapping calls of one handler, the first to return removes the exit
  guard of both. Updates are delivered one at a time and keep theirs
  (`UpdateKeepsGuard`); the short handlers do not.
* The producer's last report and its `Stop` may slip between `Pop`'s two tests;
  the consumer leaves and the report is not looked at.
* After an uninstall an increment is still applied to the path that was the latest
  before, because `emplace` keeps the old entry. It is refused
  (`RunsWhatItReports`), until the process ends.
* A stream's consuming thread ends after success or failure and leaves
  `isRunning_` set; chunks then fill the ring and block (`DataReturns` excludes
  it). Overlapping Stops may end the process (`DiesOnlyOfOverlap`).
* If `AddDeathRecipient` fails, the kit keeps a dead proxy (`DeadIsNoticed`
  excludes it), and a callback that calls the module update kit blocks it
  (`LockReleased` excludes it).
* A device that another process binds between `LOOP_CTL_GET_FREE` and
  `LOOP_SET_FD` is cleared by the failed attempt (`ForeignKept` excludes it), and
  a dm device may be left when its creation fails half way or its removal fails.
* The mount point of a module that could not be mounted stays when `rmdir` fails;
  `FailureFreesDevice` speaks of the devices only.
* A rewrite of the result file may lose results of other modules, and one by the
  monitor the result of an update that is saved at the same time (`raced`). If that
  result was appended after the truncation, the rewrite goes over it and the rest of
  the line is read as an entry of its own or as part of another's (`torn`, which
  `EntriesAreTrue` excludes; without the exclusion TLC finds such an entry).

`RunsWhatItReports` leaves out the hmps in `cut`, and must: when power is lost in
the middle of staging, the active directory may hold the new `module_info.zip`
and the old image, and as the version there equals the waiting one it is not
staged again. `PromiseKept` asks for the promised image with the same exception;
the promised `module_info.zip` is mounted in any case. `PreviousSurvives` holds
even then.

Two weaknesses of installs that no run states: a second install before the reboot
backs up the still empty active directory that the first one created, and
`installModule_` of an earlier package passes the null test for a package without
a module file.

Two more limits of the monitor are excluded from `StartReturns` and stated here:
with more reports than places, producer and consumer may each miss the wake-up
of the other and both wait for ever; and if a start parameter cannot be read the
producer returns without stopping the queue, so the consumer waits for ever.
An initialisation that straddles two `GetUpdateResult` calls may also pair a
status manager with another processer than its own; the run's invariants hold
then, too, but progress is reported to the wrong status manager.

Fairness. Threads inside a call keep running (weak fairness of their steps), and
the external installer ends however often it reports progress (strong fairness
of its end). For `IdleServiceExits` nothing is assumed of calls: the time service
triggers the repeating timer, an exit that has begun goes on, a thread that waits
for a mutex gets it if it is free again and again, and samgr, asked again and
again, accepts in the end (strong fairness). Clients and spurious wake-ups owe
nothing. The device boots, the threads of the boot check and a revert run on, and a
reboot that was asked for comes; mounts may fail at every boot. In the stream the
calls that have arrived and the consuming threads run on, and the installer of a
chunk returns. In the client kits a thread runs on, remote calls come back and the
wait of three seconds ends; samgr and the service owe nothing. The worker of the
devices runs on, the other processes owe nothing.

## 4. Proofs

`ActionProcesserProofs` proves, for any sets of threads, objects and progress
values, and for serial and overlapping delivery alike,
`ProcStatusSettled`, `ProcSingleRunner`, `ProcActionAlive` and `ProcImplementsTask`.
They rest on one inductive invariant, `ProcInv`:

* the types;
* `ThreadInv`: a thread inside a call has a processer and its status manager; if it runs
  a queue, `isRunning_` is set; while it performs an action, that is `curAction_`;
* `Exclusive` and `Attended`: no two threads run one queue, and `isRunning_` is
  not set without one that will clear it;
* `OwnThreads` and `OwnActions`: calls and actions report to the status manager of
  the processer they use. Without it, a late `SetUpdatePercent` could reach an idle task;
* `StatusInv`: without a callback the status is INIT, and ONGOING means running.
  The first half is needed because a dropped report at the end of a run would
  otherwise leave ONGOING behind: it is safe only since a callback, once
  registered, is never removed.

`SingleRunner` alone is not inductive: `Start` needs to know that nobody runs a
processer whose flag is clear, and the flag may be cleared only by its runner.

`ProcImplementsTask` needs two invariants more. `RunCodes`: an error code is set
only between the failure and the completion callback, so a run that goes on is
not broken. `HeldStatus`: the status that `SetUpdatePercent` read without the lock is
still the current one when it is written back, since only the runner of a
processer reports to its status manager (`Exclusive`, `OwnActions`) and `Start`,
the one report from outside a run, finds the processer idle. A step of a thread
then changes the view of one task only (`ForeignViews`), and each kind of step is
a step of `UpdateTask` or a stutter: `Start` is `Begin`, a report of progress is
`Progress` (a stutter without a callback), `InstallOk` is `Switch`, a failure is
`Break`, the two ways to report the final status are `End`, everything else is
invisible.

`ModuleUpdateQueueProofs` proves `QueueNeverOverruns`, `QueueIsFifo` and
`QueueTypes` for every `MAX_SIZE`, any finite sets of abilities and modules.
`QueueInv` adds to the properties that a producer inside `Put` has an element, and
`TailPlace` (`tail_` is `head_ + size_` modulo the capacity). The argument: only
the producer makes the queue fuller and only the consumer emptier, so what each
has tested stays true until it acts; and two offsets below the capacity have
different places, so storing at the tail overwrites nothing that is queued.

`QueueImplementsChannel` proves the refinement from the same invariant. `Queued`,
the ring read from `head_` on, is the abstract channel. Storing appends to it
(`StoreAppends`: the places of the queued reports differ from the tail's), taking
drops its head (`TakeDropsHead`), and every other step leaves ring, flag and
decision alone (`ChannelStutters`, `WakeKeepsFlag`). That `Put` has room and `Look`
has a report is what `QueueInv` says of a thread between its test and its act.

The first part of `SysInstallerServerProofs` carries the processer into the task
table, where objects are erased and made anew while runs on them go on. `MgrInd`
has the part of the processers' invariant that does not depend on who drives them
(`CoreInv`: the types, `ThreadInv`, `Exclusive`, `Attended`), the types of the two
maps (`TableOK`), and `CallInv`: a thread runs a processer only inside
`StartUpdatePackageZip`, and a call that has taken an object from a map has one.
`MgrTypeCorrect` and `MgrSingleRunner` follow, overlapping updates included.
`MgrVerifiedBeforeInstall` and `MgrSuccessMeansActivated` are proved under `Serial`,
and need it: `StartUpdatePackageZip` is `[oneway]`, so the IPC driver delivers such
calls to the one service object one after the other. `SerialInv` says which queue
a processer has at each step of the run (`QueueInv`: the verification before the
update; `RunInv`: what has been performed so far, and what `err` means), that a
processer nobody uses has an empty queue (`Drained`, or a second run would find
leftovers of the first), and that the status `SetUpdatePercent` will write back is
still the current one (`StatusKept`).

The second part does the same for the complete service. `SrvInd` adds to
`MgrInd` that a tag in `runningSet_` belongs to a call in progress and that
`sysInstallerServerLock_` has one holder. `SrvUpdateKeepsGuard` needs `Serial`: an
update's tag could be removed only by another update's guard, and there is none.
`SrvUnloadSparesUpdates` needs `GuardFits` too, no more IPC threads than
`runningSet_` has places: a tag that is not inserted guards nothing. Then an exit
that found the set empty has seen every update but those that began later
(`late`). `SrvSerialSafe` takes the two guarantees of the manager through the end
and the restart of the process.

`StreamUpdateProofs` proves the four safety properties of the stream for any
threads and ring size. `StreamInd` is `~overlapped => Orderly`: as long as no two
Start or Stop calls have overlapped, the process lives, the one call in progress
knows how far the consuming thread is (`Known`), `pComsumeThread_` names the only
consuming thread and `isRunning_` is cleared only by the Stop that will join it
(`OneThread`), where that thread is tells what has been installed and switched
(`Progress`), and nothing has arrived while Start sets the stream up (`Fresh`).

`ClientKitsProofs` proves the safety properties of the client kits for any finite
set of threads and any number of instances of the service. `KitsCore` says who
holds the lock where, that whoever was given an instance which lives was given
the cached one (`Given`), and that notices are of dead instances only (`Watched`),
so that a late notice cannot remove a living proxy. `Counted` (`g_request` is the
number of initialised threads and of exits that found no service) is what
`KitsExitSpares` needs: at zero nobody else is left.

`ModuleDevicesProofs` proves the three invariants of the devices for any modules,
other processes, devices and attempts. `DevicesInd` accounts for every device:
free, some other process's, or a module's that is mounted, left below a dm device
or in the worker's hands (`DeviceOK`), with exactly the holders that entails; a
free device must be known to have no holder, or the next binding would be cleared
by somebody's late close.

`ModuleBootProofs` proves all four invariants of `boot_crash` for any hmps,
versions and number of faults. `BootInd` holds the types, who may run when
(`Control`) and what the worker has staged so far (`Staging`), and gives
`BootStagesFromWhole`. Each of the other theorems has an inductive invariant of its
own on top:

* `BootPreviousSurvives` (`SurviveInd`): the backup has the package; or, after a
  revert, the active directory has it, nothing is promised and no install
  directory opens, so nobody will take it. `BackedUp` says how far the backup of
  an install is. This one holds for every kind of package.
* `BootPromiseKept` (`PromiseInd`): until it is staged the promised version opens in
  the install directory, is newer than the preinstalled and the active one, and
  the boot has yet to look there (`Pending`); afterwards it opens in the active
  directory. `Unpacking` says that an install which no revert has overlapped has
  written its own version. Every way to choose the preinstalled package then
  contradicts this or has counted a fault and given the promise up
  (`ChoosePromise`). This gives the `module_info.zip`; that the image is of the same
  version, except for the hmps in `cut`, is `MatchInd`'s, below.
* `BootRunsWhatItReports` (`MatchInd`): outside of a copy under way, the files of a
  directory have one version (`Uniform`), and so have the active and the backup
  directory while one is linked into the other (`Same`).

The last two assume that no package comes without a `module_info.zip`
(`"bare" \notin PackageKinds`), and TLC finds both properties violated otherwise:
such a package can be reported a success because of `installModule_` of an earlier
one (section 3), and its image is taken for the version that lies beside it.

`UpdateResultProofs` proves the three properties of the result file for any hmps
and for a file of any length. `ResultInd` speaks of the heads of the lines
(`HeadItems`), which are all that a reader takes from a file whose lines have run
together: each was saved, unless a line was torn (`TrueLines`), none is the success
of a module that has failed since, unless a save raced a revert's
(`NoFalseSuccess`), and both also for the lines that a rewriting writer has read and
not yet written, or the truncated file would forget them, and for the text that a
power loss may bring back. `Alone` says that without such a race the file is empty
between the truncation and the writing, so that writing over it is replacing it;
`ToldIsThere` says that without a revert meanwhile the file is still the one that
was told. What a rewrite does to the lines (`RewriteLines`) and what a reader is
told (`ToldDrawn`) are inductions over the positions of the file. They are carried
out on sets instead of predicates: the positions at which a claim fails would
have a least element (`LeastNat`, from `WFMin` of the library), so a set with 0
that is closed under successor has every position (`SetInduction`, `UpTo`,
`Iteration`).

TLC has checked the inductive invariants before they were proved, those of
`ModuleBoot` with full packages and three versions, with increments and two
faults, and `BootInd` and `SurviveInd` with packages without a module file.

Assumptions on the constants, besides types and positive bounds:
`ProcesserAssumption` (percents within 0..100, the null pointer is no object),
`QueueAssumption` (finite and disjoint sets), `KitsAssumption` (finitely many
threads; the free lock is no thread), `StreamAssumption` (the null pointer is no
thread), `DevicesAssumption` (modules, other processes and the names of holders
differ; at least two devices), `StoreAssumption` (finitely many hmps, `First` among
them; versions are positive), `ResultAssumption` (the hmp that the monitor reverts
is one of the hmps, and what a torn line names besides them is not). `Serial`, `GuardFits` and the kind of packages are
hypotheses of the theorems that need them.

Checked by TLC only: the liveness properties (`RunEnds`, `IdleServiceExits`,
`StartReturns`, `BootSettles`, `StopReturns`, `DataReturns`, `LockReleased`,
`EveryModuleSettles`), which need fairness and ENABLED. The two violations are
TLC's as well.

## 5. Plan

1. `ModuleBoot` composed with `ModuleUpdateQueue` instead of its free
   `MonitorRevert`, and with `ModuleDevices` instead of its free mount failures.
2. `ImplementsTask` for the task table, where a task outlives its objects.
3. The comparisons of abilities and bundles in `module_file.cpp` as operators,
   against the order that their comments describe.

## 6. Not modelled

Marshalling (stubs, proxies, parcels), the permission check, zip and hvb formats,
signatures, parsing of JSON and images, the command line tool, logging. External
libraries (package installer and verifier, ring buffer, samgr, the time service,
the parameter service, the bundle manager, the kernel's loop devices) appear as
the outcomes their callers distinguish. `Stop` of the action processer has no
caller, and with the shipped actions' `TerminateAction` it changes nothing;
`SetUpdateMode` is reachable only through calls that the shipped helper refuses.
In `ModuleStore`, the parameters for the bundle manager and a half-written image
are left out; `First` is the hmp that `GetCurrentHmpName` finds first, the only
one the monitor ever reverts. The two `RemoveDmLoopDevice` and
`IsLoopDevMatchedImg` have no caller in the boot check. `GetRunningSet` hands out
a reference that is iterated without the lock; the damage that could do to the
container is outside the model.
