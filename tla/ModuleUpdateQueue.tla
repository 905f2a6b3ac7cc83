------------------------- MODULE ModuleUpdateQueue -------------------------
(***************************************************************************)
(* The monitor that module_update_service runs when a module misbehaves    *)
(* before boot completes (services/module_update/service):                 *)
(* ModuleUpdateMain::Start runs a producer thread, which collects abnormal *)
(* system abilities and failed bundle installs from parameters, and a      *)
(* consumer thread, which reverts the module package if there is any, with *)
(* a bounded ring buffer (ModuleUpdateQueue) between them.                 *)
(*                                                                         *)
(* A critical section of mtx_ is one step.  Put and Pop test the queue in  *)
(* one critical section and wait, or store or take an element, in another: *)
(* the other thread may act in between.                                    *)
(***************************************************************************)
EXTENDS Naturals, Sequences, FiniteSets

CONSTANTS Sas,       \* the keys of saIdHmpMap_
          Modules,   \* moduleNameSet_
          Unmapped,  \* the keys whose hmp name is empty
          MAX_SIZE   \* 100 in the code

ASSUME QueueAssumption ==
    /\ MAX_SIZE \in Nat \ {0}
    /\ IsFiniteSet(Sas) /\ IsFiniteSet(Modules)
    /\ Unmapped \subseteq Sas
    /\ Sas \cap Modules = {}

VARIABLES queue, head, tail, size, isStop,   \* ModuleUpdateQueue
          exitFlag,      \* g_exit
          saStatus,      \* the parameter of each system ability
          appFailed,     \* modules whose install result parameter says failed
          booted,        \* bootevent.boot.completed
          producer,      \* control state and locals of the producer
          consumer,      \* control state and locals of the consumer
          put, popped    \* history: the elements stored, how many were taken

queueVars == <<queue, head, tail, size, isStop, put, popped>>
paramVars == <<saStatus, appFailed, booted>>
monVars == <<queueVars, paramVars, exitFlag, producer, consumer>>

Status == {"", "unload", "loadfail", "crash"}
Item == Sas \cup Modules
NoItem == "none"

ProducerPC == {"params", "loop", "sa", "app", "putFull", "putWait", "blocked", "putStore", "done"}
ConsumerPC == {"exit", "empty", "stop", "popEmpty", "popWait", "blocked", "popTake", "done"}

\* saId of APP_SERIAL_NUMBER stands for a module name, every other for an ability.
Blocked(th) == th.pc = "blocked"
Wake(th, l) == IF Blocked(th) THEN [th EXCEPT !.pc = l] ELSE th
-----------------------------------------------------------------------------
(***************************************************************************)
(* ModuleUpdateQueue.                                                      *)
(***************************************************************************)
\* Stop: both conditions are notified.
StopQueue ==
    /\ isStop' = TRUE
    /\ UNCHANGED <<queue, head, tail, size, put, popped>>

\* A wrong Store: tail_ does not wrap.
StoreNoWrap(x) ==
    /\ queue' = [queue EXCEPT ![tail] = x]
    /\ tail' = tail + 1
    /\ size' = size + 1
    /\ put' = Append(put, x)
    /\ UNCHANGED <<head, isStop, popped>>

\* A wrong Take: head_ does not advance.
TakeNoAdvance ==
    /\ size' = size - 1
    /\ popped' = popped + 1
    /\ UNCHANGED <<queue, head, tail, isStop, put>>

\* The second half of Put.
Store(x) ==
    /\ queue' = [queue EXCEPT ![tail] = x]
    /\ tail' = (tail + 1) % MAX_SIZE
    /\ size' = size + 1
    /\ put' = Append(put, x)
    /\ UNCHANGED <<head, isStop, popped>>

\* The second half of Pop; the element taken is queue[head].
Take ==
    /\ head' = (head + 1) % MAX_SIZE
    /\ size' = size - 1
    /\ popped' = popped + 1
    /\ UNCHANGED <<queue, tail, isStop, put>>
-----------------------------------------------------------------------------
(***************************************************************************)
(* ModuleUpdateProducer::Run.                                              *)
(***************************************************************************)
ProducerGoto(l) == producer' = [producer EXCEPT !.pc = l]

\* A start parameter cannot be read: Run returns, and nobody stops the queue.
ParamsFail ==
    /\ producer.pc = "params"
    /\ producer' = [producer EXCEPT !.pc = "done", !.failed = TRUE]
    /\ UNCHANGED <<queueVars, paramVars, exitFlag, consumer>>

\* The start parameters say which kinds of report to collect.
ParamsRead ==
    /\ producer.pc = "params"
    /\ ProducerGoto("loop")
    /\ UNCHANGED <<queueVars, paramVars, exitFlag, consumer>>

\* A wrong ProducerExit: the queue is not stopped.
ProducerLeaves ==
    /\ producer.pc = "loop" /\ exitFlag
    /\ ProducerGoto("done")
    /\ UNCHANGED <<queueVars, paramVars, exitFlag, consumer>>

\* The test of exit_ at the head of the loop.
ProducerExit ==
    /\ producer.pc = "loop" /\ exitFlag
    /\ StopQueue
    /\ ProducerGoto("done")
    /\ consumer' = Wake(consumer, "popEmpty")
    /\ UNCHANGED <<paramVars, exitFlag>>

ProducerScan ==
    /\ producer.pc = "loop" /\ ~exitFlag
    /\ ProducerGoto("sa")
    /\ UNCHANGED <<queueVars, paramVars, exitFlag, consumer>>

\* AddAbnormalSa, one ability: a parameter that cannot be read is skipped, one
\* that is abnormal is queued before boot completes unless it only unloaded.
VisitSa(s) ==
    /\ producer.pc = "sa" /\ s \in producer.sas
    /\ \/ /\ saStatus[s] # ""
          /\ saStatus[s] # "unload" /\ ~booted
          /\ producer' = [producer EXCEPT !.pc = "putFull", !.sas = @ \ {s}, !.item = s]
          /\ UNCHANGED saStatus
       \/ /\ saStatus[s] # ""
          /\ saStatus[s] = "unload" \/ booted
          /\ producer' = [producer EXCEPT !.sas = @ \ {s}]
          /\ saStatus' = [saStatus EXCEPT ![s] = ""]
       \/ /\ producer' = [producer EXCEPT !.sas = @ \ {s}]
          /\ UNCHANGED saStatus
    /\ UNCHANGED <<queueVars, appFailed, booted, exitFlag, consumer>>

SasDone ==
    /\ producer.pc = "sa" /\ producer.sas = {}
    /\ ProducerGoto("app")
    /\ UNCHANGED <<queueVars, paramVars, exitFlag, consumer>>

\* AddAbnormalApp, one module.
VisitApp(m) ==
    /\ producer.pc = "app" /\ m \in producer.apps
    /\ \/ /\ m \in appFailed
          /\ producer' = [producer EXCEPT !.pc = "putFull", !.apps = @ \ {m}, !.item = m]
       \/ producer' = [producer EXCEPT !.apps = @ \ {m}]
    /\ UNCHANGED <<queueVars, paramVars, exitFlag, consumer>>

\* Everything is collected: exit_ is set for both threads.
AppsDone ==
    /\ producer.pc = "app" /\ producer.apps = {}
    /\ exitFlag' = TRUE
    /\ ProducerGoto("loop")
    /\ UNCHANGED <<queueVars, paramVars, consumer>>

\* The caller of Put goes on; AddAbnormalSa then clears the parameter.
PutReturns ==
    LET x == producer.item IN
    /\ producer' = [producer EXCEPT !.pc = IF x \in Sas THEN "sa" ELSE "app", !.item = NoItem]
    /\ saStatus' = IF x \in Sas THEN [saStatus EXCEPT ![x] = ""] ELSE saStatus
    /\ UNCHANGED <<appFailed, booted, exitFlag>>

\* A wrong PutFull: off by one.
PutFullLate ==
    /\ producer.pc = "putFull"
    /\ ProducerGoto(IF size > MAX_SIZE THEN "putWait" ELSE "putStore")
    /\ UNCHANGED <<queueVars, paramVars, exitFlag, consumer>>

\* Put: IsFull ...
PutFull ==
    /\ producer.pc = "putFull"
    /\ ProducerGoto(IF size = MAX_SIZE THEN "putWait" ELSE "putStore")
    /\ UNCHANGED <<queueVars, paramVars, exitFlag, consumer>>

\* ... a stopped queue drops the element ...
PutStopped ==
    /\ producer.pc = "putWait" /\ isStop
    /\ PutReturns
    /\ UNCHANGED <<queueVars, consumer>>

\* ... otherwise wait on notFull_, without looking at size_ again ...
PutWait ==
    /\ producer.pc = "putWait" /\ ~isStop
    /\ ProducerGoto("blocked")
    /\ UNCHANGED <<queueVars, paramVars, exitFlag, consumer>>

\* ... and store, notifying notEmpty_.
PutStore ==
    /\ producer.pc = "putStore"
    /\ Store(producer.item)
    /\ PutReturns
    /\ consumer' = Wake(consumer, "popEmpty")
-----------------------------------------------------------------------------
(***************************************************************************)
(* ModuleUpdateConsumer::Run.                                              *)
(***************************************************************************)
ConsumerGoto(l) == consumer' = [consumer EXCEPT !.pc = l]

\* The test of exit_ ...
ConsumerExit ==
    /\ consumer.pc = "exit"
    /\ ConsumerGoto(IF exitFlag THEN "empty" ELSE "popEmpty")
    /\ UNCHANGED <<queueVars, paramVars, exitFlag, producer>>

\* ... of IsEmpty ...
ConsumerEmpty ==
    /\ consumer.pc = "empty"
    /\ ConsumerGoto(IF size = 0 THEN "stop" ELSE "popEmpty")
    /\ UNCHANGED <<queueVars, paramVars, exitFlag, producer>>

\* ... and Stop.  The loop ends; DoRevert follows if the flag is set.
ConsumerStop ==
    /\ consumer.pc = "stop"
    /\ StopQueue
    /\ ConsumerGoto("done")
    /\ producer' = Wake(producer, "putFull")
    /\ UNCHANGED <<paramVars, exitFlag>>

\* Pop: IsEmpty ...
PopEmpty ==
    /\ consumer.pc = "popEmpty"
    /\ ConsumerGoto(IF size = 0 THEN "popWait" ELSE "popTake")
    /\ UNCHANGED <<queueVars, paramVars, exitFlag, producer>>

\* ... a stopped queue ends the consumer's loop ...
PopStopped ==
    /\ consumer.pc = "popWait" /\ isStop
    /\ ConsumerGoto("done")
    /\ UNCHANGED <<queueVars, paramVars, exitFlag, producer>>

\* ... otherwise wait on notEmpty_, without looking at size_ again ...
PopWait ==
    /\ consumer.pc = "popWait" /\ ~isStop
    /\ ConsumerGoto("blocked")
    /\ UNCHANGED <<queueVars, paramVars, exitFlag, producer>>

\* Does an element ask for a revert?  An ability without hmp name does not.
AsksRevert(x) == x \notin Unmapped

\* A wrong PopTake: it looks at the place where head_ has moved to.
PopTakeNext ==
    /\ consumer.pc = "popTake"
    /\ Take
    /\ consumer' = [consumer EXCEPT !.pc = "exit",
                                    !.revertFlag = @ \/ AsksRevert(queue[head'])]
    /\ producer' = Wake(producer, "putFull")
    /\ UNCHANGED <<paramVars, exitFlag>>

\* ... and take the oldest element, notifying notFull_.
PopTake ==
    /\ consumer.pc = "popTake"
    /\ Take
    /\ consumer' = [consumer EXCEPT !.pc = "exit",
                                    !.revertFlag = @ \/ AsksRevert(queue[head])]
    /\ producer' = Wake(producer, "putFull")
    /\ UNCHANGED <<paramVars, exitFlag>>
-----------------------------------------------------------------------------
(***************************************************************************)
(* The surroundings.                                                       *)
(***************************************************************************)
\* A condition variable may wake its waiter without a notification.
Spurious ==
    /\ \/ Blocked(producer) /\ producer' = Wake(producer, "putFull") /\ UNCHANGED consumer
       \/ Blocked(consumer) /\ consumer' = Wake(consumer, "popEmpty") /\ UNCHANGED producer
    /\ UNCHANGED <<queueVars, paramVars, exitFlag>>

BootCompletes ==
    /\ ~booted
    /\ booted' = TRUE
    /\ UNCHANGED <<queueVars, saStatus, appFailed, exitFlag, producer, consumer>>

\* ExitModuleUpdate, by a client or by OnStop.
StopMonitor ==
    /\ ~exitFlag
    /\ exitFlag' = TRUE
    /\ UNCHANGED <<queueVars, paramVars, producer, consumer>>

MonInit ==
    /\ queue = [i \in 0..MAX_SIZE - 1 |-> NoItem]
    /\ head = 0 /\ tail = 0 /\ size = 0 /\ isStop = FALSE
    /\ put = <<>> /\ popped = 0
    /\ exitFlag = FALSE
    /\ saStatus \in [Sas -> Status]
    /\ appFailed \in SUBSET Modules
    /\ booted = FALSE
    /\ \E sas \in {{}, Sas}, apps \in {{}, Modules} :
          producer = [pc |-> "params", sas |-> sas, apps |-> apps, item |-> NoItem, failed |-> FALSE]
    /\ consumer = [pc |-> "exit", revertFlag |-> FALSE]

ProducerStep ==
    \/ ParamsFail \/ ParamsRead \/ ProducerExit \/ ProducerScan
    \/ \E s \in Sas : VisitSa(s)
    \/ \E m \in Modules : VisitApp(m)
    \/ SasDone \/ AppsDone
    \/ PutFull \/ PutStopped \/ PutWait \/ PutStore

ConsumerStep ==
    \/ ConsumerExit \/ ConsumerEmpty \/ ConsumerStop
    \/ PopEmpty \/ PopStopped \/ PopWait \/ PopTake

MonNext == ProducerStep \/ ConsumerStep \/ Spurious \/ BootCompletes \/ StopMonitor

\* Both threads keep running; nobody owes a spurious wake-up.
MonSpec == MonInit /\ [][MonNext]_monVars
MonFairSpec == MonSpec /\ WF_monVars(ProducerStep) /\ WF_monVars(ConsumerStep)
-----------------------------------------------------------------------------
(***************************************************************************)
(* Properties.                                                             *)
(***************************************************************************)
\* The types of the monitor's state.
MonTypeOK ==
    /\ queue \in [0..MAX_SIZE - 1 -> Item \cup {NoItem}]
    /\ head \in 0..MAX_SIZE - 1 /\ tail \in 0..MAX_SIZE - 1
    /\ size \in Nat /\ popped \in Nat /\ put \in Seq(Item)
    /\ isStop \in BOOLEAN /\ exitFlag \in BOOLEAN /\ booted \in BOOLEAN
    /\ saStatus \in [Sas -> Status] /\ appFailed \in SUBSET Modules
    /\ producer \in [pc : ProducerPC, sas : SUBSET Sas, apps : SUBSET Modules,
                     item : Item \cup {NoItem}, failed : BOOLEAN]
    /\ consumer \in [pc : ConsumerPC, revertFlag : BOOLEAN]

(***************************************************************************)
(* The ring buffer never holds more than MAX_SIZE elements and never gives *)
(* one out that is not there, although fullness and emptiness are tested   *)
(* in an earlier critical section than the one that stores or takes.       *)
(***************************************************************************)
NoOverrun ==
    /\ size <= MAX_SIZE
    /\ producer.pc = "putStore" => size < MAX_SIZE
    /\ consumer.pc = "popTake" => size > 0

(***************************************************************************)
(* The ring buffer is a FIFO: what Pop will take next is what was put      *)
(* first of the elements not yet taken, also after the indices wrap.       *)
(***************************************************************************)
Fifo ==
    /\ size + popped = Len(put)
    /\ \A i \in 1..size : queue[(head + i - 1) % MAX_SIZE] = put[popped + i]

MonitorDone == producer.pc = "done" /\ consumer.pc = "done"

\* A report that finds as many before it as the queue has places.
TooManyReports == Len(put) >= MAX_SIZE /\ producer.item # NoItem

(***************************************************************************)
(* ModuleUpdateMain::Start returns: if the start parameters can be read    *)
(* and the reports fit the queue, both threads end, whatever wake-ups are  *)
(* lost between a test and its wait.                                       *)
(***************************************************************************)
StartReturns == <>(producer.failed \/ TooManyReports \/ MonitorDone)

\* What the ring holds, oldest element first.
Queued == [i \in 1..size |-> queue[(head + i - 1) % MAX_SIZE]]

Channel == INSTANCE ReportChannel
           WITH Report <- Item, Harmless <- Unmapped, Places <- MAX_SIZE,
                chan <- Queued, closed <- isStop, revert <- consumer.revertFlag

(***************************************************************************)
(* The ring buffer with its two threads implements the channel: every step *)
(* of either thread puts one report, looks at the oldest one, closes the   *)
(* channel or leaves it alone, and the revert flag of the consumer follows *)
(* exactly the reports that left the ring.                                 *)
(***************************************************************************)
ImplementsChannel == Channel!Spec
=============================================================================
