------------------------ MODULE AbstractTaskWorker_proofs ------------------------
(***************************************************************************)
(* Proofs about the queue served by a pool task, for any number of         *)
(* senders.  FinishingIsOwned is inductive once the types are known: only  *)
(* a task in the middle of TryFinishing can make the word Finishing, and   *)
(* it cannot leave TryFinishing without exchanging the word again.         *)
(***************************************************************************)
EXTENDS AbstractTaskWorker, TLAPS

(* A message that has not been sent is nowhere: what TypeOK needs, to say   *)
(* of the message just enqueued that it is there once.                     *)
Unsent ==
    \A m \in Messages :
        sender[m] = "ready" => ~Waiting(m) /\ \A t \in Messages : current[t] # m

(* A worker is made with an empty queue and no task.                        *)
LEMMA InitTypeOK == Init => TypeOK /\ Unsent
<1> SUFFICES ASSUME Init PROVE TypeOK /\ Unsent
  OBVIOUS
<1>1. \A x : ~Waiting(x)
  BY DEF Init, Waiting
<1>2. \A t \in Messages : current[t] = None
  BY DEF Init
<1>3. InOnePlace
  BY <1>2 DEF Init, InOnePlace
<1>4. TypeOK
  BY <1>3, NoneAssumption DEF Init, TypeOK
<1>5. Unsent
  BY <1>1, <1>2, NoneAssumption DEF Unsent
<1> QED
  BY <1>4, <1>5

(* A sender enqueues what has not been sent.                                *)
LEMMA EnqueuePlaces ==
  ASSUME TypeOK, Unsent, NEW m \in Messages, Enqueue(m)
  PROVE  InOnePlace' /\ Unsent'
<1>1. queue \in Seq(Messages) /\ queue' = Append(queue, m) /\ current' = current
  BY DEF TypeOK, Enqueue
<1>2. /\ Len(queue') = Len(queue) + 1 /\ Len(queue) \in Nat
      /\ queue'[Len(queue) + 1] = m
      /\ \A i \in 1 .. Len(queue) : queue'[i] = queue[i]
  BY <1>1
<1>3. \A i \in 1 .. Len(queue') : i \in 1 .. Len(queue) \/ i = Len(queue) + 1
  BY <1>2
<1>4. ~Waiting(m) /\ \A t \in Messages : current[t] # m
  BY DEF Unsent, Enqueue
<1>5. \A x : Waiting(x)' => Waiting(x) \/ x = m
  BY <1>2, <1>3 DEF Waiting
<1>6. \A i, j \in 1 .. Len(queue') : queue'[i] = queue'[j] => i = j
  BY <1>2, <1>3, <1>4 DEF TypeOK, InOnePlace, Waiting
<1>7. InOnePlace'
  BY <1>1, <1>4, <1>5, <1>6 DEF TypeOK, InOnePlace
<1>8. sender \in [Messages -> {"ready", "asking", "starting", "sent"}]
      /\ sender' = [sender EXCEPT ![m] = "asking"]
  BY DEF TypeOK, Enqueue
<1>9. \A n \in Messages : sender'[n] = "ready" => sender[n] = "ready" /\ n # m
  BY <1>8
<1>10. Unsent'
  BY <1>1, <1>5, <1>9 DEF Unsent
<1> QED
  BY <1>7, <1>10

(* A task takes the first message out of the queue.                        *)
LEMMA DequeuePlaces ==
  ASSUME TypeOK, Unsent, NEW t \in Messages, Dequeue(t)
  PROVE  InOnePlace' /\ Unsent'
<1>1. /\ queue \in Seq(Messages) /\ queue # <<>> /\ queue' = Tail(queue)
      /\ current \in [Messages -> Messages \cup {None}]
      /\ current' = [current EXCEPT ![t] = Head(queue)] /\ sender' = sender
  BY DEF TypeOK, Dequeue
<1>2. /\ Len(queue) \in Nat \ {0} /\ Len(queue') = Len(queue) - 1
      /\ \A i \in 1 .. Len(queue') : queue'[i] = queue[i + 1]
  BY <1>1
<1>3. \A i \in 1 .. Len(queue') : i + 1 \in 1 .. Len(queue) /\ i + 1 # 1
  BY <1>2
<1>4. PICK m : m = Head(queue)
  OBVIOUS
<1>5. m = queue[1] /\ 1 \in 1 .. Len(queue) /\ m \in Messages
  BY <1>1, <1>2, <1>4
<1>6. Waiting(m) /\ ~Waiting(m)' /\ \A x : Waiting(x)' => Waiting(x)
  BY <1>2, <1>3, <1>5 DEF TypeOK, InOnePlace, Waiting
<1>7. \A i, j \in 1 .. Len(queue') : queue'[i] = queue'[j] => i = j
  <2>1. \A i, j \in 1 .. Len(queue') : queue'[i] = queue'[j] => i + 1 = j + 1
    BY <1>2, <1>3 DEF TypeOK, InOnePlace
  <2> QED
    BY <1>2, <2>1
<1>8. /\ current'[t] = m
      /\ \A u \in Messages : u # t => current'[u] = current[u]
  BY <1>1, <1>4
<1>9. \A u \in Messages : current[u] # m
  BY <1>5, <1>6, NoneAssumption DEF TypeOK, InOnePlace
<1>10. (\A u \in Messages : current[u] # None => ~Waiting(current[u]))'
  <2>1. ASSUME NEW u \in Messages, current'[u] # None, NEW i \in 1 .. Len(queue')
        PROVE  queue'[i] # current'[u]
    <3>1. CASE u = t
      BY <1>6, <1>8, <3>1 DEF Waiting
    <3>2. CASE u # t
      <4>1. current'[u] = current[u] /\ queue'[i] = queue[i + 1] /\ i + 1 \in 1 .. Len(queue)
        BY <1>2, <1>3, <1>8, <3>2
      <4>2. ~Waiting(current[u])
        BY <2>1, <4>1 DEF TypeOK, InOnePlace
      <4> QED
        BY <4>1, <4>2 DEF Waiting
    <3> QED
      BY <3>1, <3>2
  <2> QED
    BY <2>1 DEF Waiting
<1>11. \A u, v \in Messages : current'[u] = current'[v] /\ current'[u] # None => u = v
  BY <1>8, <1>9 DEF TypeOK, InOnePlace
<1>12. InOnePlace'
  BY <1>7, <1>10, <1>11 DEF InOnePlace
<1>13. Unsent'
  BY <1>1, <1>6, <1>8 DEF Unsent
<1> QED
  BY <1>12, <1>13

(* No other step puts a message anywhere.                                  *)
LEMMA OthersPlace ==
  ASSUME TypeOK, Unsent, queue' = queue,
         \A m \in Messages : sender'[m] = "ready" => sender[m] = "ready",
         \A t \in Messages : current'[t] \in {current[t], None}
  PROVE  InOnePlace' /\ Unsent'
<1>1. \A x : Waiting(x)' <=> Waiting(x)
  BY DEF Waiting
<1>2. InOnePlace'
  BY <1>1 DEF TypeOK, InOnePlace
<1>3. Unsent'
  BY <1>1, NoneAssumption DEF Unsent
<1> QED
  BY <1>2, <1>3

(* So a message is in one place after every step of any thread.            *)
LEMMA PlacedStep == TypeOK /\ Unsent /\ [Next]_vars => InOnePlace' /\ Unsent'
<1> SUFFICES ASSUME TypeOK, Unsent, [Next]_vars PROVE InOnePlace' /\ Unsent'
  OBVIOUS
<1>t. /\ sender \in [Messages -> {"ready", "asking", "starting", "sent"}]
      /\ current \in [Messages -> Messages \cup {None}]
  BY DEF TypeOK
<1>1. ASSUME NEW m \in Messages, IsTaskNeeded(m) \/ StartTask(m)
      PROVE  InOnePlace' /\ Unsent'
  BY <1>t, <1>1, OthersPlace DEF IsTaskNeeded, StartTask
<1>2. ASSUME NEW t \in Messages,
             Begin(t) \/ ProcessMessage(t) \/ Throw(t) \/ QueueIsEmpty(t) \/ TryFinishing(t)
      PROVE  InOnePlace' /\ Unsent'
  <2>1. /\ queue' = queue /\ sender' = sender
        /\ current' = current \/ current' = [current EXCEPT ![t] = None]
    BY <1>2 DEF Begin, ProcessMessage, Throw, QueueIsEmpty, TryFinishing,
                Announce, TestQueue, Quit, Resume
  <2>2. \A u \in Messages : current'[u] \in {current[u], None}
    BY <1>t, <2>1
  <2> QED
    BY <2>1, <2>2, OthersPlace
<1>3. CASE UNCHANGED vars
  BY <1>3, OthersPlace DEF vars
<1> QED
  BY <1>1, <1>2, <1>3, EnqueuePlaces, DequeuePlaces DEF Next, SendMessage, ProcessQueue

(* One step of any thread keeps the types.                                 *)
LEMMA TypeStep == TypeOK /\ Unsent /\ [Next]_vars => TypeOK' /\ Unsent'
<1> SUFFICES ASSUME TypeOK, Unsent, [Next]_vars PROVE TypeOK'
  BY PlacedStep
<1>0. InOnePlace'
  BY PlacedStep
<1> USE <1>0, NoneAssumption DEF TypeOK
<1>1. ASSUME NEW m \in Messages, SendMessage(m) PROVE TypeOK'
  <2>1. CASE Enqueue(m)
    BY <2>1 DEF Enqueue
  <2>2. CASE IsTaskNeeded(m)
    BY <2>2 DEF IsTaskNeeded, CompareExchange
  <2>3. CASE StartTask(m)
    BY <2>3 DEF StartTask
  <2> QED
    BY <1>1, <2>1, <2>2, <2>3 DEF SendMessage
<1>2. ASSUME NEW t \in Messages, Dequeue(t) PROVE TypeOK'
  <2>1. Head(queue) \in Messages /\ Tail(queue) \in Seq(Messages)
    BY <1>2 DEF Dequeue
  <2> QED
    BY <1>2, <2>1 DEF Dequeue, Goto
<1>3. ASSUME NEW t \in Messages, TryFinishing(t) PROVE TypeOK'
  BY <1>3 DEF TryFinishing, Announce, TestQueue, Quit, Resume, Goto,
              CompareExchange
<1>4. ASSUME NEW t \in Messages,
             Begin(t) \/ ProcessMessage(t) \/ QueueIsEmpty(t) \/ Throw(t)
      PROVE  TypeOK'
  BY <1>4 DEF Begin, ProcessMessage, QueueIsEmpty, Throw, Goto
<1>5. CASE UNCHANGED vars
  BY <1>5 DEF vars
<1> QED
  BY <1>1, <1>2, <1>3, <1>4, <1>5 DEF Next, ProcessQueue

(* Every reachable state has its types, a task has a message in hand       *)
(* exactly while it processes one, and no message is there twice, however  *)
(* many tasks serve the queue at once.                                     *)
THEOREM TypeCorrect == Spec => []TypeOK
BY InitTypeOK, TypeStep, PTL DEF Spec

(* A sender that spins in IsTaskNeeded always spins for a task that is     *)
(* inside TryFinishing, however many tasks there are.                      *)
THEOREM SpinIsForSomebody == Spec => []FinishingIsOwned
<1>1. Init => FinishingIsOwned
  BY DEF Init, FinishingIsOwned
<1>2. TypeOK /\ FinishingIsOwned /\ [Next]_vars => FinishingIsOwned'
  <2> SUFFICES ASSUME TypeOK, FinishingIsOwned, [Next]_vars
               PROVE  FinishingIsOwned'
    OBVIOUS
  <2> USE DEF TypeOK, FinishingIsOwned
  <2>1. ASSUME NEW m \in Messages, SendMessage(m) PROVE FinishingIsOwned'
    BY <2>1 DEF SendMessage, Enqueue, IsTaskNeeded, StartTask, CompareExchange
  <2>2. ASSUME NEW t \in Messages, Announce(t) PROVE FinishingIsOwned'
    BY <2>2 DEF Announce, Goto, CompareExchange
  <2>3. ASSUME NEW t \in Messages, TestQueue(t) PROVE FinishingIsOwned'
    BY <2>3 DEF TestQueue, Goto
  <2>4. ASSUME NEW t \in Messages, Quit(t) \/ Resume(t)
        PROVE  FinishingIsOwned'
    BY <2>4 DEF Quit, Resume, CompareExchange
  <2>5. ASSUME NEW t \in Messages,
               Begin(t) \/ Dequeue(t) \/ ProcessMessage(t) \/ QueueIsEmpty(t)
                  \/ Throw(t)
        PROVE  FinishingIsOwned'
    BY <2>5 DEF Begin, Dequeue, ProcessMessage, QueueIsEmpty, Throw, Goto
  <2>6. CASE UNCHANGED vars
    BY <2>6 DEF vars
  <2> QED
    BY <2>1, <2>2, <2>3, <2>4, <2>5, <2>6 DEF Next, ProcessQueue, TryFinishing
<1> QED
  BY <1>1, <1>2, TypeCorrect, PTL DEF Spec

-------------------------------------------------------------------------------
(* IdleStrandsNothing does not hold its own ground: a task that is alive    *)
(* may be on the way out.  While a message waits behind a word that says    *)
(* Idle, a sender asks, a request has thrown, or a task is in the loop of   *)
(* ProcessQueue, which it leaves only through an empty queue.               *)
InTheLoop == \E t \in Messages : task[t] \in {"dequeue", "process"}
Asking    == \E m \in Messages : sender[m] = "asking"
Faulted   == \E t \in Messages : task[t] = "faulted"

IdleIsServed ==
    isTaskRunning = "Idle" /\ queue # <<>> => InTheLoop \/ Asking \/ Faulted

(* One step of any thread leaves the message in the queue served.          *)
LEMMA ServedStep == TypeOK /\ IdleIsServed /\ [Next]_vars => IdleIsServed'
<1> SUFFICES ASSUME TypeOK, IdleIsServed, [Next]_vars PROVE IdleIsServed'
  OBVIOUS
<1> USE DEF TypeOK, IdleIsServed, InTheLoop, Asking, Faulted
<1>1. ASSUME NEW m \in Messages, Enqueue(m) PROVE IdleIsServed'
  <2>1. sender'[m] = "asking"
    BY <1>1 DEF Enqueue
  <2> QED
    BY <2>1
<1>2. ASSUME NEW m \in Messages, IsTaskNeeded(m) PROVE IdleIsServed'
  \* The word is not Idle afterwards.
  BY <1>2 DEF IsTaskNeeded, CompareExchange
<1>3. ASSUME NEW m \in Messages, StartTask(m) PROVE IdleIsServed'
  BY <1>3 DEF StartTask
<1>4. ASSUME NEW t \in Messages, Dequeue(t) \/ ProcessMessage(t) \/ Quit(t)
      PROVE  IdleIsServed'
  \* The task that takes the step stays in the loop, or goes back to it.
  <2>1. task'[t] \in {"dequeue", "process"}
    BY <1>4 DEF Dequeue, ProcessMessage, Quit, Goto
  <2> QED
    BY <2>1
<1>5. ASSUME NEW t \in Messages, Throw(t) PROVE IdleIsServed'
  <2>1. task'[t] = "faulted"
    BY <1>5 DEF Throw, Goto
  <2> QED
    BY <2>1
<1>6. ASSUME NEW t \in Messages, QueueIsEmpty(t) PROVE IdleIsServed'
  BY <1>6 DEF QueueIsEmpty
<1>7. ASSUME NEW t \in Messages, Begin(t) \/ TestQueue(t) PROVE IdleIsServed'
  BY <1>7 DEF Begin, TestQueue, Goto
<1>8. ASSUME NEW t \in Messages, Announce(t) \/ Resume(t) PROVE IdleIsServed'
  BY <1>8 DEF Announce, Resume, Goto, CompareExchange
<1>9. CASE UNCHANGED vars
  BY <1>9 DEF vars
<1> QED
  BY <1>1, <1>2, <1>3, <1>4, <1>5, <1>6, <1>7, <1>8, <1>9
     DEF Next, SendMessage, ProcessQueue, TryFinishing

(* A message never waits behind a word that says Idle with nobody to find  *)
(* it, for any number of senders and of tasks, unless a request has thrown.*)
THEOREM NothingIsStranded == Spec => []IdleStrandsNothing
<1>1. Init => IdleIsServed
  BY DEF Init, IdleIsServed
<1>2. IdleIsServed => IdleStrandsNothing
  BY DEF IdleIsServed, IdleStrandsNothing, InTheLoop, Asking, Faulted, Alive
<1> QED
  BY <1>1, <1>2, ServedStep, TypeCorrect, PTL DEF Spec

===============================================================================
