--------------------------- MODULE AbstractTaskWorker ---------------------------
(***************************************************************************)
(* The message queue that is served by a task of the thread pool           *)
(* (src/src/Decompiler/Workers/AbstractTaskWorker.cs).  A sender enqueues  *)
(* its message and starts a task only if none is serving the queue; a task *)
(* that finds the queue empty tries to finish.  Both sides agree by        *)
(* compare-and-swap on one word, isTaskRunning.                            *)
(*                                                                         *)
(* The model is of the release build, in which Debug.Assert is not         *)
(* compiled: the assertions are left out.                                  *)
(***************************************************************************)
EXTENDS Naturals, Sequences

CONSTANTS Messages,  \* one sender thread per message
          None       \* what a task has in hand between two messages

ASSUME NoneAssumption == None \notin Messages

VARIABLES
    queue,          \* ConcurrentQueue<TMessage>
    isTaskRunning,  \* Idle, Running or Finishing
    sender,         \* how far SendMessage has come, for each message
    task,           \* where the task started by a message's sender is
    current         \* the message a task is processing

vars == <<queue, isTaskRunning, sender, task, current>>

(* Interlocked.CompareExchange(ref isTaskRunning, new, old): sets the word, *)
(* and always returns what was there.                                       *)
CompareExchange(new, old) ==
    isTaskRunning' = IF isTaskRunning = old THEN new ELSE isTaskRunning

Init ==
    /\ queue = <<>>
    /\ isTaskRunning = "Idle"
    /\ sender = [m \in Messages |-> "ready"]
    /\ task = [m \in Messages |-> "none"]
    /\ current = [m \in Messages |-> None]

-------------------------------------------------------------------------------
(* SendMessage(m) *)
Enqueue(m) ==
    /\ sender[m] = "ready"
    /\ queue' = Append(queue, m)
    /\ sender' = [sender EXCEPT ![m] = "asking"]
    /\ UNCHANGED <<isTaskRunning, task, current>>

(* Mutant: the wait for a task that is finishing goes round SendMessage.    *)
IsTaskNeededResends(m) ==
    /\ sender[m] = "asking"
    /\ CompareExchange("Running", "Idle")
    /\ sender' = [sender EXCEPT ![m] =
                    CASE isTaskRunning = "Idle"      -> "starting"
                      [] isTaskRunning = "Finishing" -> "ready"
                      [] OTHER                       -> "sent"]
    /\ UNCHANGED <<queue, task, current>>

(* IsTaskNeeded: the word is Idle and a task must be started, or Running    *)
(* and the sender is done; while it is Finishing the sender spins.          *)
IsTaskNeeded(m) ==
    /\ sender[m] = "asking"
    /\ isTaskRunning # "Finishing"
    /\ CompareExchange("Running", "Idle")
    /\ sender' = [sender EXCEPT ![m] =
                    IF isTaskRunning = "Idle" THEN "starting" ELSE "sent"]
    /\ UNCHANGED <<queue, task, current>>

(* Task.Run(ProcessQueue) *)
StartTask(m) ==
    /\ sender[m] = "starting"
    /\ sender' = [sender EXCEPT ![m] = "sent"]
    /\ task' = [task EXCEPT ![m] = "queued"]
    /\ UNCHANGED <<queue, isTaskRunning, current>>

SendMessage(m) == Enqueue(m) \/ IsTaskNeeded(m) \/ StartTask(m)

-------------------------------------------------------------------------------
Goto(t, from, to) == task[t] = from /\ task' = [task EXCEPT ![t] = to]

(* The pool gets round to task t. *)
Begin(t) ==
    /\ Goto(t, "queued", "dequeue")
    /\ UNCHANGED <<queue, isTaskRunning, sender, current>>

(* ProcessQueue: TryDequeue finds a message. *)
Dequeue(t) ==
    /\ queue # <<>>
    /\ Goto(t, "dequeue", "process")
    /\ current' = [current EXCEPT ![t] = Head(queue)]
    /\ queue' = Tail(queue)
    /\ UNCHANGED <<isTaskRunning, sender>>

(* ProcessMessage returns ... *)
ProcessMessage(t) ==
    /\ Goto(t, "process", "dequeue")
    /\ current' = [current EXCEPT ![t] = None]
    /\ UNCHANGED <<queue, isTaskRunning, sender>>

(* ... or throws, and nothing in ProcessQueue catches it. *)
Throw(t) ==
    /\ Goto(t, "process", "faulted")
    /\ current' = [current EXCEPT ![t] = None]
    /\ UNCHANGED <<queue, isTaskRunning, sender>>

(* ProcessQueue: TryDequeue finds nothing. *)
QueueIsEmpty(t) ==
    /\ queue = <<>>
    /\ Goto(t, "dequeue", "finish")
    /\ UNCHANGED <<queue, isTaskRunning, sender, current>>

(* TryFinishing: the three accesses to shared state, one after another. *)
Announce(t) ==
    /\ Goto(t, "finish", "test")
    /\ CompareExchange("Finishing", "Running")
    /\ UNCHANGED <<queue, sender, current>>

TestQueue(t) ==
    /\ Goto(t, "test", IF queue = <<>> THEN "quit" ELSE "resume")
    /\ UNCHANGED <<queue, isTaskRunning, sender, current>>

(* Mutants: value and comparand confused; the wrong value given back. *)
QuitSwapped(t) ==
    /\ Goto(t, "quit", "dequeue")
    /\ CompareExchange("Finishing", "Idle")
    /\ UNCHANGED <<queue, sender, current>>

ResumeSwapped(t) ==
    /\ Goto(t, "resume", "ended")
    /\ CompareExchange("Finishing", "Running")
    /\ UNCHANGED <<queue, sender, current>>

ResumeIdle(t) ==
    /\ Goto(t, "resume", "ended")
    /\ CompareExchange("Idle", "Finishing")
    /\ UNCHANGED <<queue, sender, current>>

(* TryFinishing returns true: the loop of ProcessQueue goes round again. *)
Quit(t) ==
    /\ Goto(t, "quit", "dequeue")
    /\ CompareExchange("Idle", "Finishing")
    /\ UNCHANGED <<queue, sender, current>>

(* TryFinishing returns false: ProcessQueue returns. *)
Resume(t) ==
    /\ Goto(t, "resume", "ended")
    /\ CompareExchange("Running", "Finishing")
    /\ UNCHANGED <<queue, sender, current>>

TryFinishing(t) == Announce(t) \/ TestQueue(t) \/ Quit(t) \/ Resume(t)

ProcessQueue(t) ==
    \/ Begin(t)
    \/ Dequeue(t)
    \/ ProcessMessage(t)
    \/ QueueIsEmpty(t)
    \/ TryFinishing(t)

Next == \E m \in Messages : SendMessage(m) \/ ProcessQueue(m) \/ Throw(m)

Spec == Init /\ [][Next]_vars

(* Threads of the pool and of the senders keep running; nobody is obliged  *)
(* to send a message or to throw.                                          *)
FairSpec ==
    /\ Spec
    /\ \A m \in Messages : /\ WF_vars(IsTaskNeeded(m) \/ StartTask(m))
                           /\ WF_vars(ProcessQueue(m))

-------------------------------------------------------------------------------
(* Messages that wait in the queue, and tasks that have yet to end.         *)
Waiting(m) == \E i \in 1 .. Len(queue) : queue[i] = m

Alive == {t \in Messages : task[t] \notin {"none", "ended", "faulted"}}

(* A message waits in one place or is in the hands of one task, also while  *)
(* several tasks take messages out of the queue.                            *)
InOnePlace ==
    /\ \A i, j \in 1 .. Len(queue) : queue[i] = queue[j] => i = j
    /\ \A t \in Messages : current[t] # None => ~Waiting(current[t])
    /\ \A s, t \in Messages : current[s] = current[t] /\ current[s] # None => s = t

(* Types; a task has a message in hand exactly while it processes one, a    *)
(* sender starts one task at most, and however often senders wait for tasks *)
(* that are finishing, a message is never there twice.                      *)
TypeOK ==
    /\ queue \in Seq(Messages)
    /\ isTaskRunning \in {"Idle", "Running", "Finishing"}
    /\ sender \in [Messages -> {"ready", "asking", "starting", "sent"}]
    /\ task \in [Messages -> {"none", "queued", "dequeue", "process", "finish",
                              "test", "quit", "resume", "ended", "faulted"}]
    /\ current \in [Messages -> Messages \cup {None}]
    /\ \A t \in Messages : /\ current[t] # None <=> task[t] = "process"
                           /\ task[t] # "none" => sender[t] = "sent"
    /\ InOnePlace

(* The busy wait of IsTaskNeeded is always for a task that is about to put  *)
(* an end to it, also when several tasks try to finish at once.             *)
FinishingIsOwned ==
    isTaskRunning = "Finishing" =>
        \E t \in Messages : task[t] \in {"test", "quit", "resume"}

(* As long as no request throws, a message is not left behind by a word     *)
(* that says Idle: a sender is on its way to start a task, or a task is     *)
(* there to find the message.                                               *)
IdleStrandsNothing ==
    isTaskRunning = "Idle" /\ queue # <<>> =>
        \/ Alive # {}
        \/ \E m \in Messages : sender[m] = "asking"
        \/ \E t \in Messages : task[t] = "faulted"

(* A sender does not spin for ever.                                         *)
SendReturns == \A m \in Messages : sender[m] = "asking" ~> sender[m] = "sent"

(* "A message has arrived while we were finishing; restart the thread":     *)
(* unless a request throws, every message is carried out.                   *)
MessageProcessed ==
    ([]\A t \in Messages : task[t] # "faulted") =>
        \A m \in Messages : Waiting(m) ~> ~Waiting(m)

===============================================================================
