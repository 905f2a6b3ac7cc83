---------------------- MODULE ModuleUpdateQueueProofs ----------------------
(***************************************************************************)
(* Proofs about the monitor's queue, for every capacity and every set of   *)
(* abilities and modules: it never overruns, it is a FIFO, and with its    *)
(* two threads it implements the channel of ReportChannel.                 *)
(***************************************************************************)
EXTENDS ModuleUpdateQueue, SequenceTheorems, TLAPS

\* The capacity is positive, as MAX_SIZE is in the code.
LEMMA Capacity == MAX_SIZE \in Nat /\ MAX_SIZE > 0
  BY QueueAssumption

\* An index below the capacity is its own place in the ring.
LEMMA PlaceBelow == \A x \in 0..MAX_SIZE - 1 : x % MAX_SIZE = x
  BY Capacity

\* An index that has passed the end once wraps.
LEMMA PlaceWraps == \A x \in MAX_SIZE..2 * MAX_SIZE - 1 : x % MAX_SIZE = x - MAX_SIZE
  BY Capacity

\* Places of the ring are places.
LEMMA PlaceType == \A x \in Nat : x % MAX_SIZE \in 0..MAX_SIZE - 1
  BY Capacity

\* Two different offsets below the capacity have different places: storing at
\* the tail (tail_ = head_ + size_) overwrites no element that is still queued.
LEMMA PlacesDiffer ==
    ASSUME NEW h \in 0..MAX_SIZE - 1, NEW a \in 0..MAX_SIZE - 1, NEW b \in 0..MAX_SIZE - 1,
           a # b
    PROVE  (h + a) % MAX_SIZE # (h + b) % MAX_SIZE
<1> DEFINE P(x) == IF x < MAX_SIZE THEN x ELSE x - MAX_SIZE
<1>1. \A x \in 0..2 * MAX_SIZE - 1 : x % MAX_SIZE = P(x)
  BY PlaceBelow, PlaceWraps, Capacity
<1>2. h + a \in 0..2 * MAX_SIZE - 1 /\ h + b \in 0..2 * MAX_SIZE - 1
  BY Capacity
<1>3. P(h + a) # P(h + b)
  BY Capacity
<1> QED
  BY <1>1, <1>2, <1>3

\* Advancing head_ by one shifts every place by one.
LEMMA PlaceShifts ==
    ASSUME NEW h \in 0..MAX_SIZE - 1, NEW a \in 0..MAX_SIZE - 1
    PROVE  (((h + 1) % MAX_SIZE) + a) % MAX_SIZE = (h + (a + 1)) % MAX_SIZE
<1>1. CASE h + 1 < MAX_SIZE
  <2>1. (h + 1) % MAX_SIZE = h + 1
    BY <1>1, PlaceBelow, Capacity
  <2> QED
    BY <2>1, Capacity
<1>2. CASE h + 1 = MAX_SIZE
  <2>1. (h + 1) % MAX_SIZE = 0
    BY <1>2, PlaceWraps, Capacity
  <2>2. h + (a + 1) \in MAX_SIZE..2 * MAX_SIZE - 1 /\ (h + (a + 1)) - MAX_SIZE = a
    BY <1>2, Capacity
  <2>3. a % MAX_SIZE = a
    BY PlaceBelow
  <2> QED
    BY <2>1, <2>2, <2>3, PlaceWraps, Capacity
<1> QED
  BY <1>1, <1>2, Capacity

\* A producer inside Put has the element it puts.
PutPC == {"putFull", "putWait", "blocked", "putStore"}
ItemReady == producer.pc \in PutPC => producer.item \in Item

\* The tail is where the element after the last one goes.
TailPlace == tail = (head + size) % MAX_SIZE

(***************************************************************************)
(* The inductive invariant: the two properties need the types, the element *)
(* at hand in Put, and the place of the tail.                              *)
(***************************************************************************)
QueueInv == MonTypeOK /\ ItemReady /\ NoOverrun /\ TailPlace /\ Fifo

\* The queue starts empty.
LEMMA QueueInvInit == MonInit => QueueInv
<1> SUFFICES ASSUME MonInit PROVE QueueInv
  OBVIOUS
<1>1. MonTypeOK
  <2>1. producer \in [pc : ProducerPC, sas : SUBSET Sas, apps : SUBSET Modules,
                      item : Item \cup {NoItem}, failed : BOOLEAN]
    BY DEF MonInit, ProducerPC
  <2>2. queue \in [0..MAX_SIZE - 1 -> Item \cup {NoItem}]
    BY DEF MonInit
  <2>3. consumer \in [pc : ConsumerPC, revertFlag : BOOLEAN]
    BY DEF MonInit, ConsumerPC
  <2>4. put \in Seq(Item)
    BY DEF MonInit
  <2>5. head \in 0..MAX_SIZE - 1 /\ tail \in 0..MAX_SIZE - 1 /\ size \in Nat /\ popped \in Nat
    BY Capacity DEF MonInit
  <2>6. /\ isStop \in BOOLEAN /\ exitFlag \in BOOLEAN /\ booted \in BOOLEAN
        /\ saStatus \in [Sas -> Status] /\ appFailed \in SUBSET Modules
    BY Zenon DEF MonInit
  <2> QED
    BY <2>1, <2>2, <2>3, <2>4, <2>5, <2>6, Zenon DEF MonTypeOK
<1>2. ItemReady /\ NoOverrun
  BY Capacity DEF MonInit, ItemReady, PutPC, NoOverrun
<1>3. TailPlace
  BY PlaceBelow, Capacity DEF MonInit, TailPlace
<1>4. Fifo
  BY DEF MonInit, Fifo
<1> QED
  BY <1>1, <1>2, <1>3, <1>4 DEF QueueInv

(***************************************************************************)
(* A step that leaves the ring alone keeps the ring's part of the          *)
(* invariant; what is left to show is about the two threads' positions.    *)
(***************************************************************************)
LEMMA RingUnchanged ==
    ASSUME QueueInv, UNCHANGED <<queue, head, tail, size, put, popped>>
    PROVE  size' \in Nat /\ size' <= MAX_SIZE /\ TailPlace' /\ Fifo'
  BY DEF QueueInv, NoOverrun, TailPlace, Fifo, MonTypeOK

\* Store keeps the ring a FIFO: it writes at a place that holds no queued element.
LEMMA StoreKeeps ==
    ASSUME QueueInv, NEW x \in Item, size < MAX_SIZE, Store(x)
    PROVE  /\ queue' \in [0..MAX_SIZE - 1 -> Item \cup {NoItem}]
           /\ head' \in 0..MAX_SIZE - 1 /\ tail' \in 0..MAX_SIZE - 1
           /\ size' = size + 1 /\ popped' \in Nat /\ put' \in Seq(Item)
           /\ isStop' = isStop
           /\ TailPlace' /\ Fifo'
<1> USE DEF QueueInv, MonTypeOK, Store
<1>1. tail' = (tail + 1) % MAX_SIZE /\ tail' \in 0..MAX_SIZE - 1
  BY PlaceType, Capacity
<1>2. TailPlace'
  <2>1. (tail + 1) % MAX_SIZE = (head + (size + 1)) % MAX_SIZE
    <3>1. CASE head + size < MAX_SIZE
      <4>1. tail = head + size
        BY <3>1, PlaceBelow, Capacity DEF TailPlace
      <4> QED
        BY <4>1
    <3>2. CASE head + size >= MAX_SIZE
      <4>1. tail = head + size - MAX_SIZE
        BY <3>2, PlaceWraps, Capacity DEF TailPlace
      <4>2. tail + 1 \in 0..MAX_SIZE - 1
        BY <4>1, Capacity
      <4>3. head + (size + 1) \in MAX_SIZE..2 * MAX_SIZE - 1
        BY <3>2, Capacity
      <4> QED
        BY <4>1, <4>2, <4>3, PlaceBelow, PlaceWraps, Capacity
    <3> QED
      BY <3>1, <3>2, Capacity
  <2> QED
    BY <2>1 DEF TailPlace
<1>3. Fifo'
  <2>0. /\ size + popped = Len(put) /\ Len(put) \in Nat
        /\ put' = Append(put, x) /\ Len(Append(put, x)) = Len(put) + 1
        /\ size' = size + 1 /\ popped' = popped /\ size \in Nat /\ popped \in Nat
    BY AppendProperties, LenProperties DEF Fifo
  <2>1. size' + popped' = Len(put')
    <3>1. size' + popped' = (size + popped) + 1
      BY <2>0
    <3> QED
      BY <2>0, <3>1, Zenon
  <2>2. ASSUME NEW i \in 1..size'
        PROVE  queue'[(head' + i - 1) % MAX_SIZE] = put'[popped' + i]
    <3>1. CASE i \in 1..size
      <4>0. i - 1 \in 0..MAX_SIZE - 1 /\ size \in 0..MAX_SIZE - 1 /\ i - 1 # size
        BY <3>1, Capacity
      <4>1. (head + (i - 1)) % MAX_SIZE # tail
        <5>1. (head + (i - 1)) % MAX_SIZE # (head + size) % MAX_SIZE
          BY <4>0, PlacesDiffer
        <5> QED
          BY <5>1 DEF TailPlace
      <4>2. (head + (i - 1)) % MAX_SIZE \in 0..MAX_SIZE - 1
        BY <3>1, PlaceType, Capacity
      <4>3. queue[(head + i - 1) % MAX_SIZE] = put[popped + i]
        BY <3>1 DEF Fifo
      <4>5. popped + i \in 1..Len(put) /\ Len(put) \in Nat
        BY <3>1, LenProperties DEF Fifo
      <4>6. put'[popped' + i] = put[popped + i]
        BY <4>5
      <4>4. head + i - 1 = head + (i - 1)
        BY <3>1, Capacity
      <4> QED
        BY <4>1, <4>2, <4>3, <4>4, <4>6
    <3>2. CASE i = size + 1
      <4>1. head' + i - 1 = head + size
        BY <3>2, Capacity
      <4>2. queue'[tail] = x
        OBVIOUS
      <4>3. put'[popped' + i] = x
        <5>1. popped + (size + 1) = Len(put) + 1 /\ Len(put) \in Nat
          <6>1. popped + (size + 1) = (size + popped) + 1
            BY <2>0
          <6> QED
            BY <2>0, <6>1, Zenon
        <5>2. put'[Len(put) + 1] = x
          OBVIOUS
        <5> QED
          BY <3>2, <5>1, <5>2
      <4> QED
        BY <4>1, <4>2, <4>3 DEF TailPlace
    <3>3. i \in 1..size \/ i = size + 1
      OBVIOUS
    <3> QED
      BY <3>1, <3>2, <3>3, Zenon
  <2> QED
    BY <2>1, <2>2 DEF Fifo
<1>4. queue' \in [0..MAX_SIZE - 1 -> Item \cup {NoItem}] /\ put' \in Seq(Item)
  OBVIOUS
<1> QED
  BY <1>1, <1>2, <1>3, <1>4

\* Take gives the oldest element out and keeps the order of the others.
LEMMA TakeKeeps ==
    ASSUME QueueInv, size > 0, Take
    PROVE  /\ queue' = queue /\ put' = put /\ tail' = tail /\ isStop' = isStop
           /\ head' \in 0..MAX_SIZE - 1
           /\ size' = size - 1 /\ size' \in Nat /\ popped' \in Nat
           /\ TailPlace' /\ Fifo'
<1> USE DEF QueueInv, MonTypeOK, Take
<1>1. head' = (head + 1) % MAX_SIZE /\ head' \in 0..MAX_SIZE - 1
  BY PlaceType, Capacity
<1>2. \A a \in 0..MAX_SIZE - 1 : (head' + a) % MAX_SIZE = (head + (a + 1)) % MAX_SIZE
  BY <1>1, PlaceShifts
<1>3. size - 1 \in 0..MAX_SIZE - 1
  BY Capacity DEF NoOverrun
<1>4. TailPlace'
  <2>1. (head' + (size - 1)) % MAX_SIZE = (head + ((size - 1) + 1)) % MAX_SIZE
    BY <1>2, <1>3
  <2>2. (size - 1) + 1 = size
    OBVIOUS
  <2> QED
    BY <2>1, <2>2 DEF TailPlace
<1>5. Fifo'
  <2>1. size' + popped' = Len(put')
    BY DEF Fifo
  <2>2. ASSUME NEW i \in 1..size'
        PROVE  queue'[(head' + i - 1) % MAX_SIZE] = put'[popped' + i]
    <3>1. i - 1 \in 0..MAX_SIZE - 1 /\ i + 1 \in 1..size
      BY <1>3, Capacity
    <3>2. (head' + (i - 1)) % MAX_SIZE = (head + ((i - 1) + 1)) % MAX_SIZE
      BY <1>2, <3>1
    <3>3. head' + (i - 1) = head' + i - 1 /\ head + ((i - 1) + 1) = head + (i + 1) - 1
      BY <1>1, Capacity
    <3>4. queue[(head + (i + 1) - 1) % MAX_SIZE] = put[popped + (i + 1)]
      BY <3>1 DEF Fifo
    <3> QED
      BY <3>2, <3>3, <3>4
  <2> QED
    BY <2>1, <2>2 DEF Fifo
<1> QED
  BY <1>1, <1>3, <1>4, <1>5

\* The parts of a state that the threads' steps change while the ring stays.
ThreadTypes ==
    /\ isStop \in BOOLEAN /\ exitFlag \in BOOLEAN /\ booted \in BOOLEAN
    /\ saStatus \in [Sas -> Status] /\ appFailed \in SUBSET Modules
    /\ producer \in [pc : ProducerPC, sas : SUBSET Sas, apps : SUBSET Modules,
                     item : Item \cup {NoItem}, failed : BOOLEAN]
    /\ consumer \in [pc : ConsumerPC, revertFlag : BOOLEAN]

\* What a thread that is about to store or to take relies on.
Room == producer.pc = "putStore" => size < MAX_SIZE
Stock == consumer.pc = "popTake" => size > 0

\* A step that leaves the ring alone has only the threads' part to show.
LEMMA QuietStep ==
    ASSUME QueueInv, UNCHANGED <<queue, head, tail, size, put, popped>>,
           ThreadTypes', ItemReady', Room', Stock'
    PROVE  QueueInv'
<1>1. size' \in Nat /\ size' <= MAX_SIZE /\ TailPlace' /\ Fifo'
  BY RingUnchanged
<1>2. MonTypeOK'
  BY Zenon DEF QueueInv, MonTypeOK, ThreadTypes
<1>3. NoOverrun'
  BY <1>1 DEF NoOverrun, Room, Stock
<1> QED
  BY <1>1, <1>2, <1>3 DEF QueueInv

\* Every step of the two threads keeps the invariant: the checks made before the
\* lock was taken again (Room, Stock) still hold when Store and Take rely on them.
LEMMA QueueInvStep == QueueInv /\ [MonNext]_monVars => QueueInv'
<1> SUFFICES ASSUME QueueInv, [MonNext]_monVars PROVE QueueInv'
  OBVIOUS
<1>0. /\ ThreadTypes /\ ItemReady /\ Room /\ Stock
      /\ size \in Nat /\ size <= MAX_SIZE /\ MAX_SIZE \in Nat
  BY Capacity DEF QueueInv, MonTypeOK, ThreadTypes, NoOverrun, Room, Stock
<1> USE DEF ProducerPC, ConsumerPC, ProducerGoto, ConsumerGoto, Wake, Blocked, PutPC,
            queueVars, paramVars
<1>1. CASE ParamsFail
  BY <1>0, <1>1, QuietStep DEF ParamsFail, ThreadTypes, ItemReady, Room, Stock
<1>2. CASE ParamsRead
  BY <1>0, <1>2, QuietStep DEF ParamsRead, ThreadTypes, ItemReady, Room, Stock
<1>3. CASE ProducerScan
  BY <1>0, <1>3, QuietStep DEF ProducerScan, ThreadTypes, ItemReady, Room, Stock
<1>4. CASE SasDone
  BY <1>0, <1>4, QuietStep DEF SasDone, ThreadTypes, ItemReady, Room, Stock
<1>5. CASE AppsDone
  BY <1>0, <1>5, QuietStep DEF AppsDone, ThreadTypes, ItemReady, Room, Stock
<1>6. CASE PutFull
  BY <1>0, <1>6, QuietStep DEF PutFull, ThreadTypes, ItemReady, Room, Stock
<1>7. CASE PutStopped
  BY <1>0, <1>7, QuietStep DEF PutStopped, PutReturns, Status, ThreadTypes, ItemReady, Room, Stock
<1>8. CASE PutWait
  BY <1>0, <1>8, QuietStep DEF PutWait, ThreadTypes, ItemReady, Room, Stock
<1>9. CASE ConsumerExit
  BY <1>0, <1>9, QuietStep DEF ConsumerExit, ThreadTypes, ItemReady, Room, Stock
<1>10. CASE ConsumerEmpty
  BY <1>0, <1>10, QuietStep DEF ConsumerEmpty, ThreadTypes, ItemReady, Room, Stock
<1>11. CASE PopEmpty
  BY <1>0, <1>11, QuietStep DEF PopEmpty, ThreadTypes, ItemReady, Room, Stock
<1>12. CASE PopStopped
  BY <1>0, <1>12, QuietStep DEF PopStopped, ThreadTypes, ItemReady, Room, Stock
<1>13. CASE PopWait
  BY <1>0, <1>13, QuietStep DEF PopWait, ThreadTypes, ItemReady, Room, Stock
<1>14. CASE Spurious
  BY <1>0, <1>14, QuietStep DEF Spurious, ThreadTypes, ItemReady, Room, Stock
<1>15. CASE BootCompletes
  BY <1>0, <1>15, QuietStep DEF BootCompletes, ThreadTypes, ItemReady, Room, Stock
<1>16. CASE StopMonitor
  BY <1>0, <1>16, QuietStep DEF StopMonitor, ThreadTypes, ItemReady, Room, Stock
<1>17. CASE ProducerExit
  BY <1>0, <1>17, QuietStep DEF ProducerExit, StopQueue, ThreadTypes, ItemReady, Room, Stock
<1>18. CASE ConsumerStop
  BY <1>0, <1>18, QuietStep DEF ConsumerStop, StopQueue, ThreadTypes, ItemReady, Room, Stock
<1>19. ASSUME NEW s \in Sas, VisitSa(s) PROVE QueueInv'
  <2>1. saStatus' \in [Sas -> Status]
    BY <1>0, <1>19 DEF VisitSa, ThreadTypes, Status
  <2>2. producer' \in [pc : ProducerPC, sas : SUBSET Sas, apps : SUBSET Modules,
                       item : Item \cup {NoItem}, failed : BOOLEAN]
    <3> DEFINE rest == producer.sas \ {s}
    <3>1. /\ s \in Item /\ rest \subseteq Sas
          /\ "putFull" \in ProducerPC /\ producer.pc \in ProducerPC
      BY <1>0 DEF ThreadTypes, Item, ProducerPC
    <3>2. \/ producer' = [producer EXCEPT !.pc = "putFull", !.sas = rest, !.item = s]
          \/ producer' = [producer EXCEPT !.sas = rest]
      BY <1>19 DEF VisitSa
    <3> HIDE DEF rest
    <3> QED
      BY <1>0, <3>1, <3>2 DEF ThreadTypes
  <2>3. ItemReady' /\ Room'
    BY <1>0, <1>19 DEF VisitSa, ThreadTypes, ItemReady, Room, Item
  <2>4. UNCHANGED <<queueVars, appFailed, booted, exitFlag, consumer>>
    BY <1>19 DEF VisitSa
  <2>5. ThreadTypes' /\ Stock'
    BY <1>0, <2>1, <2>2, <2>4 DEF ThreadTypes, Stock
  <2> QED
    BY <2>3, <2>4, <2>5, QuietStep
<1>20. ASSUME NEW m \in Modules, VisitApp(m) PROVE QueueInv'
  <2>1. producer' \in [pc : ProducerPC, sas : SUBSET Sas, apps : SUBSET Modules,
                       item : Item \cup {NoItem}, failed : BOOLEAN]
    <3> DEFINE rest == producer.apps \ {m}
    <3>1. /\ m \in Item /\ rest \subseteq Modules
          /\ "putFull" \in ProducerPC /\ producer.pc \in ProducerPC
      BY <1>0 DEF ThreadTypes, Item, ProducerPC
    <3>2. \/ producer' = [producer EXCEPT !.pc = "putFull", !.apps = rest, !.item = m]
          \/ producer' = [producer EXCEPT !.apps = rest]
      BY <1>20 DEF VisitApp
    <3> HIDE DEF rest
    <3> QED
      BY <1>0, <3>1, <3>2 DEF ThreadTypes
  <2>2. ItemReady' /\ Room'
    BY <1>0, <1>20 DEF VisitApp, ThreadTypes, ItemReady, Room, Item
  <2>3. UNCHANGED <<queueVars, paramVars, exitFlag, consumer>>
    BY <1>20 DEF VisitApp
  <2>4. ThreadTypes' /\ Stock'
    BY <1>0, <2>1, <2>3 DEF ThreadTypes, Stock
  <2> QED
    BY <2>2, <2>3, <2>4, QuietStep
<1>21. CASE PutStore
  <2>1. producer.item \in Item /\ size < MAX_SIZE /\ Store(producer.item)
    BY <1>0, <1>21 DEF PutStore, ItemReady, Room
  <2>2. /\ queue' \in [0..MAX_SIZE - 1 -> Item \cup {NoItem}]
        /\ head' \in 0..MAX_SIZE - 1 /\ tail' \in 0..MAX_SIZE - 1
        /\ size' = size + 1 /\ popped' \in Nat /\ put' \in Seq(Item)
        /\ isStop' = isStop
        /\ TailPlace' /\ Fifo'
    BY <2>1, StoreKeeps
  <2>3. ThreadTypes' /\ ItemReady' /\ Room' /\ Stock'
    <3>1. saStatus' \in [Sas -> Status]
      BY <1>0, <1>21 DEF PutStore, PutReturns, Status, ThreadTypes
    <3>2. /\ producer' \in [pc : ProducerPC, sas : SUBSET Sas, apps : SUBSET Modules,
                            item : Item \cup {NoItem}, failed : BOOLEAN]
          /\ ItemReady' /\ Room'
      BY <1>0, <1>21 DEF PutStore, PutReturns, ThreadTypes, ItemReady, Room
    <3>3. consumer' \in [pc : ConsumerPC, revertFlag : BOOLEAN]
      BY <1>0, <1>21 DEF PutStore, ThreadTypes
    <3>4. Stock'
      BY <1>0, <1>21, <2>2 DEF PutStore, ThreadTypes, Stock
    <3>5. UNCHANGED <<isStop, appFailed, booted, exitFlag>>
      BY <1>21, <2>2 DEF PutStore, PutReturns
    <3> QED
      BY <1>0, <3>1, <3>2, <3>3, <3>4, <3>5, Zenon DEF ThreadTypes
  <2>4. size' \in Nat /\ size' <= MAX_SIZE
    BY <1>0, <2>1, <2>2
  <2>5. MonTypeOK'
    BY <2>2, <2>3, <2>4, Zenon DEF MonTypeOK, ThreadTypes
  <2> QED
    BY <2>2, <2>3, <2>4, <2>5 DEF QueueInv, NoOverrun, Room, Stock
<1>22. CASE PopTake
  <2>1. size > 0 /\ Take
    BY <1>0, <1>22 DEF PopTake, Stock
  <2>2. /\ queue' = queue /\ put' = put /\ tail' = tail /\ isStop' = isStop
        /\ head' \in 0..MAX_SIZE - 1
        /\ size' = size - 1 /\ size' \in Nat /\ popped' \in Nat
        /\ TailPlace' /\ Fifo'
    BY <2>1, TakeKeeps
  <2>3. ThreadTypes' /\ ItemReady' /\ Room' /\ Stock'
    <3>1. (consumer.revertFlag \/ AsksRevert(queue[head])) \in BOOLEAN
      BY Zenon
    <3>2. consumer' \in [pc : ConsumerPC, revertFlag : BOOLEAN] /\ Stock'
      BY <1>0, <1>22, <3>1 DEF PopTake, ThreadTypes, Stock
    <3>3. /\ producer' \in [pc : ProducerPC, sas : SUBSET Sas, apps : SUBSET Modules,
                            item : Item \cup {NoItem}, failed : BOOLEAN]
          /\ ItemReady' /\ Room'
      BY <1>0, <1>22, <2>2 DEF PopTake, ThreadTypes, ItemReady, Room
    <3>4. UNCHANGED <<isStop, saStatus, appFailed, booted, exitFlag>>
      BY <1>22, <2>2 DEF PopTake
    <3> QED
      BY <1>0, <3>2, <3>3, <3>4, Zenon DEF ThreadTypes
  <2>4. size' <= MAX_SIZE
    BY <1>0, <2>2
  <2>5. MonTypeOK'
    BY <2>2, <2>3, Zenon DEF QueueInv, MonTypeOK, ThreadTypes
  <2> QED
    BY <2>2, <2>3, <2>4, <2>5 DEF QueueInv, NoOverrun, Room, Stock
<1>23. CASE UNCHANGED monVars
  BY <1>0, <1>23, QuietStep DEF monVars, ThreadTypes, ItemReady, Room, Stock
<1> QED
  BY <1>1, <1>2, <1>3, <1>4, <1>5, <1>6, <1>7, <1>8, <1>9, <1>10, <1>11, <1>12, <1>13,
     <1>14, <1>15, <1>16, <1>17, <1>18, <1>19, <1>20, <1>21, <1>22, <1>23
     DEF MonNext, ProducerStep, ConsumerStep

\* The invariant is inductive.
LEMMA QueueInvariant == MonSpec => []QueueInv
  BY QueueInvInit, QueueInvStep, PTL DEF MonSpec

\* For every capacity: the monitor's state keeps its types; the indices of the ring
\* never leave it.
THEOREM QueueTypes == MonSpec => []MonTypeOK
<1>1. QueueInv => MonTypeOK
  BY DEF QueueInv
<1> QED
  BY <1>1, QueueInvariant, PTL

(***************************************************************************)
(* For every capacity: the ring never overruns or underruns, although      *)
(* Put and Pop test in one critical section and act in another.            *)
(***************************************************************************)
THEOREM QueueNeverOverruns == MonSpec => []NoOverrun
<1>1. QueueInv => NoOverrun
  BY DEF QueueInv
<1> QED
  BY <1>1, QueueInvariant, PTL

(***************************************************************************)
(* For every capacity: what Pop takes is the oldest element Put has stored *)
(* and not yet given out; nothing is lost, doubled or reordered inside.    *)
(***************************************************************************)
THEOREM QueueIsFifo == MonSpec => []Fifo
<1>1. QueueInv => Fifo
  BY DEF QueueInv
<1> QED
  BY <1>1, QueueInvariant, PTL
-----------------------------------------------------------------------------
(***************************************************************************)
(* The refinement.  A step that leaves ring, stop flag and revert flag     *)
(* alone leaves the channel alone; Store appends, Take drops the head.     *)
(***************************************************************************)
\* What the ring holds is a sequence of size_ reports.
LEMMA QueuedSeq ==
    ASSUME QueueInv
    PROVE  Queued \in Seq(Item) /\ Len(Queued) = size
<1>1. size \in Nat /\ popped \in Nat /\ put \in Seq(Item) /\ size + popped = Len(put)
  BY DEF QueueInv, MonTypeOK, Fifo
<1>2. ASSUME NEW i \in 1..size PROVE queue[(head + i - 1) % MAX_SIZE] \in Item
  <2>1. popped + i \in 1..Len(put)
    BY <1>1
  <2>2. put[popped + i] \in Item
    BY <1>1, <2>1, ElementOfSeq
  <2> QED
    BY <1>2, <2>2 DEF QueueInv, Fifo
<1>3. Queued \in [1..size -> Item]
  BY <1>2 DEF Queued
<1> QED
  BY <1>1, <1>3

\* Store is Append.
LEMMA StoreAppends ==
    ASSUME QueueInv, NEW x \in Item, size < MAX_SIZE, Store(x)
    PROVE  Queued' = Append(Queued, x)
<1> USE DEF QueueInv, MonTypeOK
<1>1. size' = size + 1 /\ head' = head /\ size \in Nat
  BY DEF Store
<1>2. Queued \in Seq(Item) /\ Len(Queued) = size
  BY QueuedSeq
<1>3. /\ Append(Queued, x) \in [1..size + 1 -> Item]
      /\ \A i \in 1..size : Append(Queued, x)[i] = Queued[i]
      /\ Append(Queued, x)[size + 1] = x
  <2>1. /\ Append(Queued, x) \in Seq(Item) /\ Len(Append(Queued, x)) = size + 1
        /\ \A i \in 1..size : Append(Queued, x)[i] = Queued[i]
        /\ Append(Queued, x)[size + 1] = x
    BY <1>2, AppendProperties
  <2>2. Append(Queued, x) \in [1..size + 1 -> Item]
    BY <2>1, LenProperties, Zenon
  <2> QED
    BY <2>1, <2>2
<1>4. ASSUME NEW i \in 1..size + 1
      PROVE  queue'[(head' + i - 1) % MAX_SIZE] = IF i <= size THEN Queued[i] ELSE x
  <2>1. CASE i <= size
    <3>1. i - 1 \in 0..MAX_SIZE - 1 /\ size \in 0..MAX_SIZE - 1 /\ i - 1 # size /\ i \in 1..size
      BY <1>1, <2>1, Capacity
    <3>2. (head + (i - 1)) % MAX_SIZE # (head + size) % MAX_SIZE
      BY <3>1, PlacesDiffer
    <3>3. head + i - 1 = head + (i - 1) /\ head + (i - 1) \in Nat
      BY <3>1
    <3>4. (head + i - 1) % MAX_SIZE # tail /\ (head + i - 1) % MAX_SIZE \in 0..MAX_SIZE - 1
      BY <3>2, <3>3, PlaceType DEF TailPlace
    <3>5. queue'[(head + i - 1) % MAX_SIZE] = queue[(head + i - 1) % MAX_SIZE]
      BY <3>4 DEF Store
    <3> QED
      BY <1>1, <2>1, <3>1, <3>5 DEF Queued
  <2>2. CASE i = size + 1
    <3>1. head + i - 1 = head + size
      BY <1>1, <2>2
    <3>2. queue'[tail] = x
      BY DEF Store
    <3> QED
      BY <1>1, <2>2, <3>1, <3>2 DEF TailPlace
  <2> QED
    BY <1>1, <2>1, <2>2
<1>5. Queued' = [i \in 1..size + 1 |-> queue'[(head' + i - 1) % MAX_SIZE]]
  BY <1>1 DEF Queued
<1>6. ASSUME NEW i \in 1..size + 1 PROVE Queued'[i] = Append(Queued, x)[i]
  BY <1>1, <1>3, <1>4, <1>5
<1> QED
  BY <1>3, <1>5, <1>6

\* Take is Tail, and the element it gives out is the Head.
LEMMA TakeDropsHead ==
    ASSUME QueueInv, size > 0, Take
    PROVE  Queued # <<>> /\ Queued' = Tail(Queued) /\ queue[head] = Head(Queued)
<1> USE DEF QueueInv, MonTypeOK
<1>1. size' = size - 1 /\ queue' = queue /\ head' = (head + 1) % MAX_SIZE /\ size \in Nat
  BY DEF Take
<1>2. Queued \in Seq(Item) /\ Len(Queued) = size
  BY QueuedSeq
<1>3. /\ Queued # <<>>
      /\ Tail(Queued) \in [1..size - 1 -> Item]
      /\ \A i \in 1..size - 1 : Tail(Queued)[i] = Queued[i + 1]
  <2>1. Queued # <<>>
    BY <1>1, <1>2, EmptySeq
  <2> QED
    <3>1. /\ Tail(Queued) \in Seq(Item) /\ Len(Tail(Queued)) = size - 1
          /\ \A i \in 1..Len(Tail(Queued)) : Tail(Queued)[i] = Queued[i + 1]
      BY <1>2, <2>1, HeadTailProperties
    <3>2. Tail(Queued) \in [1..size - 1 -> Item]
      BY <3>1, LenProperties, Zenon
    <3> QED
      BY <2>1, <3>1, <3>2
<1>4. ASSUME NEW i \in 1..size - 1
      PROVE  queue'[(head' + i - 1) % MAX_SIZE] = Queued[i + 1]
  <2>1. i - 1 \in 0..MAX_SIZE - 1 /\ i + 1 \in 1..size
    BY <1>1, Capacity DEF NoOverrun
  <2>2. (head' + (i - 1)) % MAX_SIZE = (head + ((i - 1) + 1)) % MAX_SIZE
    BY <1>1, <2>1, PlaceShifts
  <2>3. /\ head' \in Nat
        /\ head' + (i - 1) = head' + i - 1 /\ head + ((i - 1) + 1) = head + (i + 1) - 1
    BY <1>1, PlaceType, Capacity
  <2> QED
    BY <1>1, <2>1, <2>2, <2>3 DEF Queued
<1>5. queue[head] = Head(Queued) /\ Queued # <<>>
  <2>1. (head + 1 - 1) % MAX_SIZE = head
    BY PlaceBelow, Capacity
  <2>2. Queued[1] = queue[head]
    BY <1>1, <2>1 DEF Queued
  <2> QED
    BY <1>1, <1>2, <2>2
<1>6. Queued' = [i \in 1..size - 1 |-> queue'[(head' + i - 1) % MAX_SIZE]]
  BY <1>1 DEF Queued
<1>7. Queued' = Tail(Queued)
  BY <1>3, <1>4, <1>6
<1> QED
  BY <1>5, <1>7

\* A step that leaves ring and flags alone is a stuttering step of the channel.
LEMMA ChannelStutters ==
    ASSUME UNCHANGED <<queue, head, size, isStop>>, consumer'.revertFlag = consumer.revertFlag
    PROVE  UNCHANGED Channel!chanVars
  BY DEF Channel!chanVars, Queued

\* The wake-ups leave the revert flag alone.
LEMMA WakeKeepsFlag ==
    ASSUME ThreadTypes, NEW l
    PROVE  Wake(consumer, l).revertFlag = consumer.revertFlag
  BY DEF ThreadTypes, Wake, Blocked

\* Every step of the monitor is a step of the channel or leaves it alone.
LEMMA ChannelStep ==
    QueueInv /\ [MonNext]_monVars => [Channel!Next]_(Channel!chanVars)
<1> SUFFICES ASSUME QueueInv, [MonNext]_monVars PROVE [Channel!Next]_(Channel!chanVars)
  OBVIOUS
<1>0. ThreadTypes /\ ItemReady /\ Room /\ Stock
  BY DEF QueueInv, MonTypeOK, ThreadTypes, NoOverrun, Room, Stock
<1> USE DEF queueVars
<1>1. CASE \/ ParamsFail \/ ParamsRead \/ ProducerScan \/ SasDone \/ AppsDone
           \/ PutFull \/ PutStopped \/ PutWait \/ BootCompletes \/ StopMonitor
  BY <1>1, ChannelStutters DEF ParamsFail, ParamsRead, ProducerScan, SasDone, AppsDone,
     PutFull, PutStopped, PutWait, BootCompletes, StopMonitor
<1>2. CASE \/ \E s \in Sas : VisitSa(s)
           \/ \E m \in Modules : VisitApp(m)
  BY <1>2, ChannelStutters DEF VisitSa, VisitApp
<1>3. CASE ConsumerExit \/ ConsumerEmpty \/ PopEmpty \/ PopStopped \/ PopWait
  <2>1. consumer'.revertFlag = consumer.revertFlag
    BY <1>0, <1>3 DEF ThreadTypes, ConsumerGoto, ConsumerExit, ConsumerEmpty, PopEmpty, PopStopped,
       PopWait
  <2> QED
    BY <1>3, <2>1, ChannelStutters DEF ConsumerExit, ConsumerEmpty, PopEmpty, PopStopped, PopWait
<1>4. CASE Spurious
  <2>1. consumer'.revertFlag = consumer.revertFlag
    BY <1>0, <1>4, WakeKeepsFlag DEF Spurious
  <2> QED
    BY <1>4, <2>1, ChannelStutters DEF Spurious
<1>5. CASE ProducerExit \/ ConsumerStop
  <2>1. consumer'.revertFlag = consumer.revertFlag
    BY <1>0, <1>5, WakeKeepsFlag DEF ProducerExit, ConsumerStop, ConsumerGoto, ThreadTypes
  <2>2. isStop' = TRUE /\ UNCHANGED <<queue, head, size>>
    BY <1>5 DEF ProducerExit, ConsumerStop, StopQueue
  <2>3. Channel!Close
    BY <2>1, <2>2 DEF Channel!Close, Queued
  <2> QED
    BY <2>3 DEF Channel!Next
<1>6. CASE PutStore
  <2>1. producer.item \in Item /\ size < MAX_SIZE /\ Store(producer.item)
    BY <1>0, <1>6 DEF PutStore, ItemReady, Room, PutPC
  <2>2. Queued' = Append(Queued, producer.item)
    BY <2>1, StoreAppends
  <2>3. Len(Queued) < MAX_SIZE
    BY <2>1, QueuedSeq
  <2>4. isStop' = isStop /\ consumer'.revertFlag = consumer.revertFlag
    BY <1>0, <1>6, <2>1, WakeKeepsFlag DEF PutStore, Store
  <2>5. Channel!Put
    BY <2>1, <2>2, <2>3, <2>4 DEF Channel!Put
  <2> QED
    BY <2>5 DEF Channel!Next
<1>7. CASE PopTake
  <2>1. size > 0 /\ Take
    BY <1>0, <1>7 DEF PopTake, Stock
  <2>2. Queued # <<>> /\ Queued' = Tail(Queued) /\ queue[head] = Head(Queued)
    BY <2>1, TakeDropsHead
  <2>3. consumer'.revertFlag = (consumer.revertFlag \/ queue[head] \notin Unmapped)
    BY <1>0, <1>7 DEF PopTake, AsksRevert, ThreadTypes
  <2>4. isStop' = isStop
    BY <2>1 DEF Take
  <2>5. Channel!Look
    BY <2>2, <2>3, <2>4 DEF Channel!Look
  <2> QED
    BY <2>5 DEF Channel!Next
<1>8. CASE UNCHANGED monVars
  BY <1>8, ChannelStutters DEF monVars
<1> QED
  BY <1>1, <1>2, <1>3, <1>4, <1>5, <1>6, <1>7, <1>8 DEF MonNext, ProducerStep, ConsumerStep

(***************************************************************************)
(* For every capacity and every set of reports: the ring buffer with its   *)
(* two threads, tests and waits implements the abstract channel.           *)
(***************************************************************************)
THEOREM QueueImplementsChannel == MonSpec => ImplementsChannel
<1>1. MonInit => Channel!Init
  <2> SUFFICES ASSUME MonInit PROVE Channel!Init
    OBVIOUS
  <2>1. Queued = <<>>
    BY DEF MonInit, Queued
  <2>2. isStop = FALSE /\ consumer.revertFlag = FALSE
    BY DEF MonInit
  <2> QED
    BY <2>1, <2>2 DEF Channel!Init
<1> QED
  BY <1>1, ChannelStep, QueueInvariant, PTL DEF MonSpec, ImplementsChannel, Channel!Spec
=============================================================================
