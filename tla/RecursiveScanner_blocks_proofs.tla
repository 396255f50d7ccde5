-------------------- MODULE RecursiveScanner_blocks_proofs --------------------
(***************************************************************************)
(* Proofs about what the recursive scanner finds: its blocks, where they   *)
(* end, the edges between them, and the returns it reports.  The second    *)
(* half is about code in which no instruction starts inside another one: no*)
(* address is in two blocks, every block is registered under its end and   *)
(* keeps its edges, and splitting never asks for what is not there.        *)
(***************************************************************************)
EXTENDS RecursiveScanner_proofs, AbstractScanner_proofs

-------------------------------------------------------------------------------
(* What the lists of the workers contain. *)

HasJob(w, j) ==
    w \in DOMAIN workers /\ \E i \in DOMAIN workers[w].jobs : workers[w].jobs[i] = j

HasNote(w, n) ==
    w \in DOMAIN workers /\ \E i \in DOMAIN workers[w].callers : workers[w].callers[i] = n

HasCall(w, a) == w \in DOMAIN workers /\ a \in DOMAIN workers[w].calls

(* Nobody disappears, or turns to another procedure.                        *)
WorkersStay ==
    \A w \in DOMAIN workers :
       w \in DOMAIN workers' /\ workers'[w].proc = workers[w].proc

NotesAndCallsStay ==
    /\ WorkersStay
    /\ \A w, n : HasNote(w, n)' => HasNote(w, n)
    /\ \A w, a : HasCall(w, a)' => HasCall(w, a)

(* Jobs are added to the lists of worker w, and taken from none.            *)
JobsCome(w, js) ==
    \A v, j : HasJob(v, j)' <=> HasJob(v, j) \/ (v = w /\ j \in js)

(* Only the jobs of the running worker change.                              *)
LEMMA JobsOnlyRest ==
  ASSUME ListTypes, JobsOnly
  PROVE  /\ NotesAndCallsStay
         /\ \A v, j : v # running => (HasJob(v, j)' <=> HasJob(v, j))
BY DEF JobsOnly, NotesAndCallsStay, WorkersStay, HasJob, HasNote, HasCall

(* None changes.                                                            *)
LEMMA WorkersSame ==
  ASSUME workers' = workers
  PROVE  NotesAndCallsStay /\ \A w : JobsCome(w, {})
BY DEF NotesAndCallsStay, WorkersStay, HasJob, HasNote, HasCall, JobsCome

(* The job at the head is taken.                                            *)
LEMMA JobTakenIs ==
  ASSUME ListTypes, running # None, Me.jobs # <<>>, JobTaken, running' = running
  PROVE  /\ NotesAndCallsStay
         /\ HasJob(running, Head(Me.jobs))
         /\ Head(Me.jobs) \in Jobs
         /\ \A v, j : HasJob(v, j)' => HasJob(v, j)
         /\ \A v, j : HasJob(v, j) => HasJob(v, j)' \/ j = Head(Me.jobs)
<1>1. PICK s, t : s = workers[running].jobs /\ t = Tail(s)
  OBVIOUS
<1>2. s \in Seq(Jobs) /\ running \in DOMAIN workers /\ s # <<>> /\ s = Me.jobs
  BY <1>1, PartsTyped DEF Me
<1>3. /\ Head(s) \in Jobs
      /\ Head(s) = s[1]
      /\ 1 \in DOMAIN s
      /\ t \in Seq(Jobs)
      /\ \A i \in DOMAIN t : i + 1 \in DOMAIN s /\ t[i] = s[i + 1]
      /\ \A i \in DOMAIN s : i # 1 => i - 1 \in DOMAIN t
      /\ \A i \in DOMAIN s : (i - 1) + 1 = i
  <2>1. DOMAIN s = 1 .. Len(s) /\ Len(s) \in Nat
    BY <1>2, LenProperties
  <2> QED
    BY <1>1, <1>2, <2>1, Taken
<1>4. workers' = [workers EXCEPT ![running].jobs = t]
  BY <1>1 DEF JobTaken
<1>5. JobsOnly /\ workers'[running].jobs = t
  BY <1>3, <1>4, JobsChange
<1>6. NotesAndCallsStay /\ \A v, j : v # running => (HasJob(v, j)' <=> HasJob(v, j))
  BY <1>5, JobsOnlyRest
<1>7. running \in DOMAIN workers'
  BY <1>2, <1>5 DEF JobsOnly
<1>8. \A j : HasJob(running, j) <=> \E i \in DOMAIN s : s[i] = j
  BY <1>1, <1>2 DEF HasJob
<1>9. \A j : HasJob(running, j)' <=> \E i \in DOMAIN t : t[i] = j
  BY <1>5, <1>7 DEF HasJob
<1>10. HasJob(running, Head(s))
  BY <1>3, <1>8
<1>11. ASSUME NEW j, HasJob(running, j)' PROVE HasJob(running, j)
  BY <1>3, <1>8, <1>9, <1>11
<1>12. ASSUME NEW j, HasJob(running, j) PROVE HasJob(running, j)' \/ j = Head(s)
  <2>1. PICK i \in DOMAIN s : s[i] = j
    BY <1>8, <1>12
  <2>2. CASE i = 1
    BY <1>3, <2>1, <2>2
  <2>3. CASE i # 1
    <3>1. i - 1 \in DOMAIN t /\ t[i - 1] = s[i]
      BY <1>3, <2>3
    <3> QED
      BY <1>9, <2>1, <3>1
  <2> QED
    BY <2>2, <2>3
<1>13. \A v, j : HasJob(v, j)' => HasJob(v, j)
  BY <1>6, <1>11
<1>14. \A v, j : HasJob(v, j) => HasJob(v, j)' \/ j = Head(s)
  BY <1>6, <1>12
<1> QED
  BY <1>2, <1>3, <1>6, <1>10, <1>13, <1>14

(* Jobs are added to the list of the running worker.                        *)
LEMMA JobsGrow ==
  ASSUME ListTypes, running # None, running' = running,
         NEW t \in Seq(Jobs), NEW js, ToSet(t) = ToSet(workers[running].jobs) \cup js,
         workers' = [workers EXCEPT ![running].jobs = t]
  PROVE  NotesAndCallsStay /\ JobsCome(running, js)
<1>1. running \in DOMAIN workers
  BY PartsTyped
<1>2. JobsOnly /\ workers'[running].jobs = t
  BY JobsChange
<1>3. NotesAndCallsStay /\ \A v, j : v # running => (HasJob(v, j)' <=> HasJob(v, j))
  BY <1>2, JobsOnlyRest
<1>4. running \in DOMAIN workers'
  BY <1>1, <1>2 DEF JobsOnly
<1>5. \A j : HasJob(running, j) <=> j \in ToSet(workers[running].jobs)
  BY <1>1 DEF HasJob, ToSet
<1>6. \A j : HasJob(running, j)' <=> j \in ToSet(t)
  BY <1>2, <1>4 DEF HasJob, ToSet
<1> QED
  BY <1>3, <1>5, <1>6 DEF JobsCome

(* Several at once.                                                         *)
LEMMA JobsAdded ==
  ASSUME ListTypes, running # None, NEW js \in Seq(Jobs), running' = running,
         workers' = [workers EXCEPT ![running].jobs = @ \o js]
  PROVE  NotesAndCallsStay /\ JobsCome(running, ToSet(js))
<1>1. PICK s, t : s = workers[running].jobs /\ t = s \o js
  OBVIOUS
<1>2. s \in Seq(Jobs)
  BY <1>1, PartsTyped
<1>3. t \in Seq(Jobs) /\ ToSet(t) = ToSet(s) \cup ToSet(js)
  BY <1>1, <1>2, ConcatProperties, ToSetConcat
<1>4. workers' = [workers EXCEPT ![running].jobs = t]
  BY <1>1
<1> QED
  BY <1>1, <1>3, <1>4, JobsGrow

(* One.                                                                     *)
LEMMA JobAdded ==
  ASSUME ListTypes, running # None, NEW j \in Jobs, running' = running,
         workers' = [workers EXCEPT ![running].jobs = Append(@, j)]
  PROVE  NotesAndCallsStay /\ JobsCome(running, {j})
<1>1. PICK s, t : s = workers[running].jobs /\ t = Append(s, j)
  OBVIOUS
<1>2. s \in Seq(Jobs)
  BY <1>1, PartsTyped
<1>3. t \in Seq(Jobs) /\ ToSet(t) = ToSet(s) \cup {j}
  BY <1>1, <1>2, AppendProperties, ToSetAppended
<1>4. workers' = [workers EXCEPT ![running].jobs = t]
  BY <1>1
<1> QED
  BY <1>1, <1>3, <1>4, JobsGrow

(* A job that a new worker of its procedure starts with.                    *)
FirstJob(w, j) == j.addr = workers[w].proc /\ j.caller = None

(* A worker of an entry point comes with one job.                           *)
LEMMA SeedIsHired ==
  ASSUME ScannerInv, StartSeed
  PROVE  /\ NotesAndCallsStay
         /\ \A v, j : HasJob(v, j)' => HasJob(v, j) \/ FirstJob(v, j)'
         /\ \A v, j : HasJob(v, j) => HasJob(v, j)'
<1>1. CASE workers' = workers
  BY <1>1, WorkersSame DEF JobsCome
<1>2. CASE workers' # workers
  <2>1. PICK proc : proc = Head(seeds)
    OBVIOUS
  <2>2. proc \in Addresses /\ workers \in Seq(Records)
    BY <2>1, HeadTailProperties DEF ScannerInv, StartSeed, ListTypes
  <2>3. workers' = Append(workers, NewWorker(proc))
    BY <1>2, <2>1 DEF StartSeed
  <2>4. /\ DOMAIN workers' = DOMAIN workers \cup {New}
        /\ New \notin DOMAIN workers
        /\ \A w \in DOMAIN workers : workers'[w] = workers[w]
        /\ workers'[New] = NewWorker(proc)
    BY <2>2, <2>3, Appended, NewWorkerTyped DEF New
  <2>5. /\ workers'[New].proc = proc
        /\ workers'[New].jobs = <<Job(proc, None)>>
        /\ DOMAIN workers'[New].jobs = {1}
        /\ workers'[New].jobs[1] = Job(proc, None)
        /\ DOMAIN workers'[New].calls = {}
        /\ DOMAIN workers'[New].callers = {}
    <3>1. DOMAIN <<>> = {}
      BY EmptySeq, LenProperties
    <3>2. DOMAIN <<Job(proc, None)>> = {1}
      OBVIOUS
    <3> QED
      BY <2>4, <3>1, <3>2 DEF NewWorker
  <2>6. NotesAndCallsStay
    BY <2>4, <2>5 DEF NotesAndCallsStay, WorkersStay, HasNote, HasCall
  <2>7. \A v, j : HasJob(v, j) => HasJob(v, j)'
    BY <2>4 DEF HasJob
  <2>8. ASSUME NEW v, NEW j, HasJob(v, j)', ~HasJob(v, j) PROVE FirstJob(v, j)'
    <3>1. v = New /\ j = Job(proc, None)
      BY <2>4, <2>5, <2>8 DEF HasJob
    <3> QED
      BY <2>5, <3>1 DEF FirstJob, Job
  <2> QED
    BY <2>6, <2>7, <2>8
<1> QED
  BY <1>1, <1>2

(* A suspended call leaves a note, and may make a worker with one job.      *)
LEMMA CallIsNoted ==
  ASSUME ScannerInv, EndCallUnknown
  PROVE  /\ WorkersStay
         /\ \A v, j : HasJob(v, j)' => HasJob(v, j) \/ FirstJob(v, j)'
         /\ \A v, j : HasJob(v, j) => HasJob(v, j)'
         /\ \A v, n : HasNote(v, n)' => \/ HasNote(v, n)
                                        \/ n.worker = running /\ n.fall = Fall
         /\ \A v, a : HasCall(v, a)' => HasCall(v, a) \/ a = current.start
<1>1. PICK c, k : Suspends(c, k)
  BY CallSuspends
<1>2. DOMAIN workers' = DOMAIN workers \cup {c}
  BY <1>1 DEF Suspends
<1>3. \A w \in DOMAIN workers :
         /\ workers'[w].proc = workers[w].proc
         /\ workers'[w].jobs = workers[w].jobs
         /\ DOMAIN workers'[w].calls = DOMAIN workers[w].calls \cup
               (IF w = running THEN {current.start} ELSE {})
  BY <1>1 DEF Suspends
<1>4. ASSUME c \notin DOMAIN workers
      PROVE  /\ workers'[c].proc = Callee
             /\ workers'[c].jobs = <<Job(Callee, None)>>
             /\ DOMAIN workers'[c].calls = {}
  <2>1. workers'[c].calls = <<>> /\ c = New /\ Hired(Callee)
    BY <1>1, <1>4 DEF Suspends
  <2>2. DOMAIN <<>> = {}
    BY EmptySeq, LenProperties
  <2> QED
    BY <2>1, <2>2 DEF Hired
<1>5. \A w \in DOMAIN workers' : \A i \in DOMAIN workers'[w].callers :
         \/ w = c /\ i = k
         \/ /\ w \in DOMAIN workers
            /\ i \in DOMAIN workers[w].callers
            /\ workers'[w].callers[i] = workers[w].callers[i]
  BY <1>1 DEF Suspends
<1>6. /\ workers'[c].callers[k].worker = running
      /\ workers'[c].callers[k].fall = Fall
  BY <1>1 DEF Suspends
<1>7. WorkersStay
  BY <1>2, <1>3 DEF WorkersStay
<1>8. \A v, j : HasJob(v, j) => HasJob(v, j)'
  BY <1>2, <1>3 DEF HasJob
<1>9. ASSUME NEW v, NEW j, HasJob(v, j)', ~HasJob(v, j) PROVE FirstJob(v, j)'
  <2>1. v = c /\ c \notin DOMAIN workers
    BY <1>2, <1>3, <1>9 DEF HasJob
  <2>2. j = Job(Callee, None)
    <3>1. PICK i \in DOMAIN workers'[v].jobs : workers'[v].jobs[i] = j
      BY <1>9 DEF HasJob
    <3>2. workers'[v].jobs = <<Job(Callee, None)>>
      BY <1>4, <2>1
    <3> QED
      BY <3>1, <3>2
  <2> QED
    BY <1>4, <2>1, <2>2 DEF FirstJob, Job
<1>10. ASSUME NEW v, NEW n, HasNote(v, n)'
       PROVE  HasNote(v, n) \/ (n.worker = running /\ n.fall = Fall)
  <2>1. PICK i \in DOMAIN workers'[v].callers :
           v \in DOMAIN workers' /\ workers'[v].callers[i] = n
    BY <1>10 DEF HasNote
  <2>2. CASE v = c /\ i = k
    BY <1>6, <2>1, <2>2
  <2>3. CASE ~(v = c /\ i = k)
    <3>1. /\ v \in DOMAIN workers
          /\ i \in DOMAIN workers[v].callers
          /\ workers'[v].callers[i] = workers[v].callers[i]
      BY <1>5, <2>1, <2>3
    <3> QED
      BY <2>1, <3>1 DEF HasNote
  <2> QED
    BY <2>2, <2>3
<1>11. ASSUME NEW v, NEW a, HasCall(v, a)'
       PROVE  HasCall(v, a) \/ a = current.start
  BY <1>2, <1>3, <1>4, <1>11 DEF HasCall
<1> QED
  BY <1>7, <1>8, <1>9, <1>10, <1>11

(* A resumed call becomes a job of its worker.                              *)
LEMMA CallIsResumed ==
  ASSUME ScannerInv, ResumeWorker
  PROVE  /\ NotesAndCallsStay
         /\ \E n : /\ HasNote(running, n)
                   /\ HasCall(n.worker, n.call)
                   /\ JobsCome(n.worker, {Job(n.fall, n.call)})
<1>1. PICK u, a : Resumes(u, a)
  BY CallResumes
<1>2. ListTypes
  BY DEF ScannerInv
<1>3. PICK n, s : n = Waiter /\ s = workers[running].callers
  OBVIOUS
<1>4. /\ s \in Seq(Notes)
      /\ s # <<>>
      /\ n = Head(s)
      /\ running \in DOMAIN workers
      /\ u = n.worker /\ a = n.call
      /\ HasCall(u, a)
  BY <1>1, <1>2, <1>3, PartsTyped DEF Resumes, Waiter, Me, HasCall
<1>5. /\ 1 \in DOMAIN s /\ s[1] = n
      /\ n \in Notes
      /\ \A i \in DOMAIN Tail(s) : i + 1 \in DOMAIN s /\ Tail(s)[i] = s[i + 1]
  BY <1>4, Taken
<1>6. HasNote(running, n)
  BY <1>3, <1>4, <1>5 DEF HasNote
<1>7. /\ DOMAIN workers' = DOMAIN workers
      /\ \A w \in DOMAIN workers :
            /\ workers'[w].proc = workers[w].proc
            /\ workers'[w].callers = IF w = running THEN Tail(workers[w].callers)
                                     ELSE workers[w].callers
            /\ workers'[w].calls = IF w = u THEN Without(workers[w].calls, a)
                                   ELSE workers[w].calls
            /\ workers'[w].jobs = IF w = u
                                  THEN Append(workers[w].jobs, Job(n.fall, a))
                                  ELSE workers[w].jobs
  BY <1>1, <1>3 DEF Resumes
<1>8. ASSUME NEW v, NEW m, HasNote(v, m)' PROVE HasNote(v, m)
  <2>1. PICK i \in DOMAIN workers'[v].callers :
           v \in DOMAIN workers /\ workers'[v].callers[i] = m
    BY <1>7, <1>8 DEF HasNote
  <2>2. CASE v = running
    <3>1. workers'[v].callers = Tail(s)
      BY <1>3, <1>7, <2>1, <2>2
    <3>2. i + 1 \in DOMAIN s /\ s[i + 1] = m
      BY <1>5, <2>1, <3>1
    <3> QED
      BY <1>3, <2>1, <2>2, <3>2 DEF HasNote
  <2>3. CASE v # running
    BY <1>7, <2>1, <2>3 DEF HasNote
  <2> QED
    BY <2>2, <2>3
<1>9. \A v, b : HasCall(v, b)' => HasCall(v, b)
  BY <1>7 DEF HasCall, Without
<1>10. NotesAndCallsStay
  BY <1>7, <1>8, <1>9 DEF NotesAndCallsStay, WorkersStay
<1>11. JobsCome(u, {Job(n.fall, a)})
  <2>1. PICK js, new : js = workers[u].jobs /\ new = Job(n.fall, a)
    OBVIOUS
  <2>2. js \in Seq(Jobs) /\ u \in DOMAIN workers
    BY <1>2, <1>4, <2>1, PartsTyped DEF HasCall
  <2>3. new \in Jobs
    BY <1>4, <1>5, <2>1, ScannerAssumption DEF Notes, Job, Jobs, Beyond
  <2>4. /\ DOMAIN Append(js, new) = DOMAIN js \cup {Len(js) + 1}
        /\ Len(js) + 1 \notin DOMAIN js
        /\ \A i \in DOMAIN js : Append(js, new)[i] = js[i]
        /\ Append(js, new)[Len(js) + 1] = new
    BY <2>2, <2>3, Appended
  <2>5. workers'[u].jobs = Append(js, new)
    BY <1>7, <2>1, <2>2
  <2>6. \A j : HasJob(u, j)' <=> HasJob(u, j) \/ j = new
    BY <1>7, <2>1, <2>2, <2>4, <2>5 DEF HasJob
  <2>7. \A v, j : v # u => (HasJob(v, j)' <=> HasJob(v, j))
    BY <1>7 DEF HasJob
  <2> QED
    BY <2>1, <2>6, <2>7 DEF JobsCome
<1> QED
  BY <1>4, <1>6, <1>10, <1>11

-------------------------------------------------------------------------------
(* The shape of what was found. *)

(* There is a block, or one that is being parsed, wherever one is meant to  *)
(* start.                                                                   *)
StartsFit ==
    blockStarts = DOMAIN blocks \cup
                  (IF current = NoBlock THEN {} ELSE {current.start})

(* The parser has followed a chain of instructions from the start of its    *)
(* block, and the block is there as soon as it has ended.                   *)
CurrentFits ==
    current # NoBlock =>
        /\ Chain(current.instrs)
        /\ current.instrs # <<>> => current.instrs[1] = current.start
        /\ ~current.ended =>
              /\ current.start \notin DOMAIN blocks
              /\ current.instrs = <<>> => current.addr = current.start
              /\ current.instrs # <<>> =>
                    /\ RunsOn(Last(current.instrs))
                    /\ current.addr = After(Last(current.instrs))
        /\ current.ended => /\ current.start \in DOMAIN blocks
                            /\ blocks[current.start] = Valid(current.instrs)

(* Nothing else happens while blocks are split.                             *)
SplitAlone ==
    split # NoSplit => current = NoBlock /\ running # None /\ ~resuming

(* A call that is suspended, and the caller of a job, are valid blocks.     *)
CallersFit ==
    /\ \A w, j : HasJob(w, j) => j.caller \in ValidBlocks \cup {None}
    /\ \A w, a : HasCall(w, a) => a \in ValidBlocks

ShapeInv ==
    /\ BlocksFit
    /\ EndsFit
    /\ EdgesFit
    /\ SplitFits
    /\ StartsFit
    /\ CurrentFits
    /\ SplitAlone
    /\ CallersFit

(* What every step does to it. *)
ShapeStep ==
    /\ ShapeInv'
    /\ CodeGrows
    /\ ValidBlocks \subseteq ValidBlocks'
    /\ blockStarts \subseteq blockStarts'

(* Blocks and ends that are left alone stay as they were.                   *)
LEMMA FitsKept ==
  ASSUME BlocksFit, EndsFit, SplitFits,
         UNCHANGED <<code, blockEnds, blocks, split>>
  PROVE  /\ (BlocksFit /\ EndsFit /\ SplitFits)'
         /\ CodeGrows
         /\ ValidBlocks' = ValidBlocks
<1>1. ValidBlocks' = ValidBlocks
  BY DEF ValidBlocks
<1>2. BlocksFit'
  BY SplitIsStep
<1>3. EndsFit'
  BY <1>1 DEF EndsFit
<1>4. SplitFits'
  BY <1>1
  DEF SplitFits, Queued, IsBlock, Chain, RunsOn, Stops, After, Boundary
<1>5. CodeGrows
  BY DEF CodeGrows
<1> QED
  BY <1>1, <1>2, <1>3, <1>4, <1>5

(* The parser's block stays what it is when neither it nor the code changes.*)
LEMMA CurrentKept ==
  ASSUME CurrentFits, UNCHANGED <<code, blocks, current>>
  PROVE  CurrentFits'
BY DEF CurrentFits, Chain, RunsOn, After, Boundary

(* Callers stay valid when jobs without a caller are added.                 *)
LEMMA CallersKept ==
  ASSUME CallersFit, ValidBlocks \subseteq ValidBlocks', NotesAndCallsStay,
         \A v, j : HasJob(v, j)' => HasJob(v, j) \/ j.caller = None
  PROVE  CallersFit'
BY DEF CallersFit, NotesAndCallsStay

(* Steps that leave what was found alone.                                   *)
LEMMA QuietShape ==
  ASSUME ScannerInv, ShapeInv,
         UNCHANGED <<code, blockStarts, blockEnds, blocks, succs, split, current>>,
         CallersFit',
         split # NoSplit => running' # None /\ ~resuming'
  PROVE  ShapeStep
<1>1. /\ (BlocksFit /\ EndsFit /\ SplitFits)'
      /\ CodeGrows
      /\ ValidBlocks' = ValidBlocks
  BY FitsKept DEF ShapeInv
<1>2. EdgesFit' /\ StartsFit' /\ SplitAlone'
  BY DEF ShapeInv, EdgesFit, EdgeMap, StartsFit, SplitAlone
<1>3. CurrentFits'
  BY CurrentKept DEF ShapeInv
<1> QED
  BY <1>1, <1>2, <1>3 DEF ShapeInv, ShapeStep

(* Workers that come and go find everything as it was.                      *)
LEMMA WorkerShape ==
  ASSUME ScannerInv, ShapeInv,
         StartSeed \/ RunNext \/ Complete \/ DropJob \/ UNCHANGED vars
  PROVE  ShapeStep
<1>1. UNCHANGED <<code, blockStarts, blockEnds, blocks, succs, split, current>>
  BY DEF StartSeed, RunNext, Complete, DropJob, vars, scanVars
<1>2. NotesAndCallsStay /\ \A v, j : HasJob(v, j)' => HasJob(v, j) \/ j.caller = None
  <2>1. CASE StartSeed
    BY <2>1, SeedIsHired DEF FirstJob
  <2>2. CASE DropJob
    BY <2>2, JobTakenIs DEF DropJob, Free, AtWork, ScannerInv
  <2>3. CASE RunNext \/ Complete \/ UNCHANGED vars
    <3>1. workers' = workers
      BY <2>3 DEF RunNext, Complete, vars, workerVars
    <3> QED
      BY <3>1, WorkersSame DEF JobsCome
  <2> QED
    BY <2>1, <2>2, <2>3
<1>3. ValidBlocks' = ValidBlocks
  BY <1>1 DEF ValidBlocks
<1>4. CallersFit'
  BY <1>2, <1>3, CallersKept DEF ShapeInv
<1>5. split # NoSplit => running' # None /\ ~resuming'
  BY DEF ShapeInv, SplitAlone, StartSeed, RunNext, Complete, DropJob, Free, AtWork,
         vars, workerVars
<1> QED
  BY <1>1, <1>4, <1>5, QuietShape

(* A call that is resumed was suspended, by a valid block.                  *)
LEMMA ResumeShape ==
  ASSUME ScannerInv, ShapeInv, ResumeWorker
  PROVE  ShapeStep
<1>1. /\ UNCHANGED <<code, blockStarts, blockEnds, blocks, succs, split, current>>
      /\ resuming
  BY DEF ResumeWorker, ResumeSuspended, ResumeActive, NextCaller, scanVars
<1>2. ValidBlocks' = ValidBlocks
  BY <1>1 DEF ValidBlocks
<1>3. PICK n : /\ HasCall(n.worker, n.call)
               /\ JobsCome(n.worker, {Job(n.fall, n.call)})
  BY CallIsResumed
<1>4. NotesAndCallsStay
  BY CallIsResumed
<1>5. \A v, j : HasJob(v, j)' => HasJob(v, j) \/ j = Job(n.fall, n.call)
  BY <1>3 DEF JobsCome
<1>6. n.call \in ValidBlocks
  BY <1>3 DEF ShapeInv, CallersFit
<1>7. CallersFit'
  BY <1>2, <1>4, <1>5, <1>6 DEF ShapeInv, CallersFit, NotesAndCallsStay, Job
<1> QED
  BY <1>1, <1>7, QuietShape DEF ShapeInv, SplitAlone

(* The edge from the caller of a job starts at a block.                     *)
LEMMA CallerEdge ==
  ASSUME ScannerInv, ShapeInv, running # None, Me.jobs # <<>>,
         succs' = EdgeFromCaller(Head(Me.jobs))
  PROVE  /\ EdgeMap(succs')
         /\ DOMAIN succs' \subseteq DOMAIN blocks
         /\ DOMAIN succs \subseteq DOMAIN succs'
         /\ \A b : EdgesOf(succs, b) \subseteq EdgesOf(succs', b)
         /\ \A b : EdgesOf(succs', b) \subseteq EdgesOf(succs, b) \cup {Head(Me.jobs).addr}
<1>1. PICK job, from, to, e : /\ job = Head(Me.jobs) /\ from = job.caller
                              /\ to = job.addr /\ e = succs
  OBVIOUS
<1>2. job \in Jobs /\ HasJob(running, job)
  <2>1. PICK s : s = Me.jobs
    OBVIOUS
  <2>2. s \in Seq(Jobs) /\ running \in DOMAIN workers
    BY <2>1, PartsTyped DEF ScannerInv, Me
  <2>3. Head(s) \in Jobs /\ 1 \in DOMAIN s /\ Head(s) = s[1]
    BY <2>1, <2>2, Taken
  <2> QED
    BY <1>1, <2>1, <2>2, <2>3 DEF HasJob, Me
<1>3. to \in 1 .. Beyond /\ EdgeMap(e) /\ DOMAIN e \subseteq DOMAIN blocks
  BY <1>1, <1>2 DEF Jobs, ShapeInv, EdgesFit
<1>4. CASE from = None
  <2>1. succs' = e
    BY <1>1, <1>4 DEF EdgeFromCaller
  <2> QED
    BY <1>1, <1>3, <2>1
<1>5. CASE from # None
  <2>1. PICK g : g = succs'
    OBVIOUS
  <2>2. g = WithEdge(e, from, to)
    BY <1>1, <1>5, <2>1 DEF EdgeFromCaller
  <2>3. from \in DOMAIN blocks
    BY <1>1, <1>2, <1>5 DEF ShapeInv, CallersFit, ValidBlocks
  <2>4. EdgeMap(g) /\ DOMAIN g = DOMAIN e \cup {from}
    BY <1>3, <2>2, WithEdgeMap
  <2>5. /\ EdgesOf(g, from) = EdgesOf(e, from) \cup {to}
        /\ \A b : b # from => EdgesOf(g, b) = EdgesOf(e, b)
    BY <1>3, <2>2, WithEdgeEdges
  <2>6. /\ \A b : EdgesOf(e, b) \subseteq EdgesOf(g, b)
        /\ \A b : EdgesOf(g, b) \subseteq EdgesOf(e, b) \cup {to}
    BY <2>5
  <2> QED
    BY <1>1, <1>3, <2>1, <2>3, <2>4, <2>6
<1> QED
  BY <1>4, <1>5

(* The worker takes a job, or falls into a block that exists.               *)
LEMMA JobShape ==
  ASSUME ScannerInv, ShapeInv, TakeJob \/ FallIntoBlock
  PROVE  ShapeStep
<1>1. /\ UNCHANGED <<code, blockEnds, blocks, split, running>>
      /\ running # None /\ Me.jobs # <<>> /\ JobTaken
      /\ succs' = EdgeFromCaller(Head(Me.jobs))
      /\ current = NoBlock
      /\ split = NoSplit
      /\ ListTypes
  BY DEF TakeJob, FallIntoBlock, Free, AtWork, ScannerInv
<1>2. /\ (BlocksFit /\ EndsFit /\ SplitFits)'
      /\ CodeGrows
      /\ ValidBlocks' = ValidBlocks
  BY <1>1, FitsKept DEF ShapeInv
<1>3. EdgesFit'
  BY <1>1, CallerEdge DEF EdgesFit, EdgeMap
<1>4. CallersFit'
  BY <1>1, <1>2, JobTakenIs, CallersKept DEF ShapeInv
<1>5. StartsFit' /\ CurrentFits' /\ blockStarts \subseteq blockStarts'
  <2>1. CASE TakeJob
    <3>1. PICK a : a = Head(Me.jobs).addr
      OBVIOUS
    <3>2. /\ a \notin blockStarts
          /\ blockStarts' = blockStarts \cup {a}
          /\ current' = [start |-> a, addr |-> a, instrs |-> <<>>, ended |-> FALSE]
      BY <2>1, <3>1 DEF TakeJob
    <3>3. a \in 1 .. Beyond
      BY <1>1, <3>1, JobTakenIs DEF Jobs
    <3>4. current' # NoBlock
      BY <3>2, <3>3, ScannerAssumption DEF NoBlock, None, Beyond
    <3>5. StartsFit'
      BY <1>1, <3>2, <3>4 DEF ShapeInv, StartsFit
    <3>6. Chain(<<>>)'
      <4>1. <<>> \in Seq(Addresses) /\ Len(<<>>) = 0
        BY EmptySeq
      <4> QED
        BY <4>1 DEF Chain
    <3>7. CurrentFits'
      BY <1>1, <3>2, <3>6 DEF CurrentFits, Chain, ShapeInv, StartsFit
    <3> QED
      BY <3>2, <3>5, <3>7
  <2>2. CASE FallIntoBlock
    <3>1. UNCHANGED <<blockStarts, current>>
      BY <2>2 DEF FallIntoBlock
    <3> QED
      BY <1>1, <3>1, CurrentKept DEF ShapeInv, StartsFit
  <2> QED
    BY <1>1, <2>1, <2>2
<1>6. SplitAlone'
  BY <1>1 DEF SplitAlone
<1> QED
  BY <1>2, <1>3, <1>4, <1>5, <1>6 DEF ShapeInv, ShapeStep

(* A turn of the loop that splits blocks.                                   *)
LEMMA SplitShape ==
  ASSUME ScannerInv, ShapeInv,
         SplitBlockEndingAt, UNCHANGED <<workerVars, current>>
  PROVE  ShapeStep /\ EdgesLead
<1>1. split # NoSplit
  BY DEF SplitBlockEndingAt, SplitSelf, SplitTail, SplitB, SplitA, SplitFails,
         Splitting, NoSplit
<1>2. current = NoBlock /\ running # None /\ ~resuming
  BY <1>1 DEF ShapeInv, SplitAlone
<1>3. AllFit
  BY <1>2 DEF ShapeInv, AllFit, StartsFit
<1>4. FitsOn
  BY <1>3, SplitFitsOn
<1>5. /\ code' = code
      /\ blockStarts \subseteq blockStarts'
  BY DEF SplitBlockEndingAt, SplitSelf, SplitTail, SplitB, SplitA, SplitFails
<1>6. CodeGrows
  BY <1>5 DEF CodeGrows
<1>7. CallersFit'
  BY <1>4, WorkersSame, CallersKept DEF workerVars, JobsCome, FitsOn, ShapeInv
<1>8. StartsFit' /\ CurrentFits' /\ SplitAlone'
  BY <1>2, <1>4 DEF FitsOn, AllFit, StartsFit, CurrentFits, SplitAlone, workerVars,
     NoBlock
<1> QED
  BY <1>4, <1>5, <1>6, <1>7, <1>8 DEF FitsOn, AllFit, ShapeInv, ShapeStep

-------------------------------------------------------------------------------
(* The end of a block. *)

(* The block that has ended is there, and valid.                            *)
LEMMA EndedIs ==
  ASSUME ScannerInv, ShapeInv, Ended
  PROVE  /\ current # NoBlock
         /\ split = NoSplit
         /\ running # None
         /\ ~resuming
         /\ thrown = Nothing
         /\ blockStarts = DOMAIN blocks
         /\ current.start \in ValidBlocks
         /\ current.start \in 1 .. Beyond
         /\ current.start # None
         /\ Instrs(current.start) = current.instrs
         /\ IsBlock(current.instrs)
         /\ current.instrs[1] = current.start
         /\ EndAddr = Last(current.instrs)
         /\ EndAddr = LastOf(current.start)
         /\ EndAddr \in DOMAIN code
         /\ EndAddr \in Addresses
<1>1. /\ current # NoBlock /\ current.ended
      /\ split = NoSplit
      /\ running # None
      /\ ~resuming
      /\ thrown = Nothing
  BY DEF Ended, AtWork, NoBlock
<1>2. /\ current.start \in DOMAIN blocks
      /\ blocks[current.start] = Valid(current.instrs)
  BY <1>1 DEF ShapeInv, CurrentFits
<1>3. /\ current.start \in ValidBlocks
      /\ Instrs(current.start) = current.instrs
  BY <1>2 DEF ValidBlocks, Valid, Instrs
<1>4. /\ IsBlock(current.instrs)
      /\ current.instrs[1] = current.start
      /\ current.start \in 1 .. Beyond
      /\ CodeFits
  BY <1>2, <1>3 DEF ShapeInv, BlocksFit
<1>5. EndAddr = Last(current.instrs) /\ EndAddr = LastOf(current.start)
  BY <1>3 DEF EndAddr, LastOf, Instrs
<1>6. EndAddr \in DOMAIN code /\ EndAddr \in Addresses
  BY <1>4, <1>5, BlockEnds DEF CodeFits
<1>7. blockStarts = DOMAIN blocks
  BY <1>1, <1>2 DEF ShapeInv, StartsFit
<1>8. current.start # None
  BY <1>4, ScannerAssumption DEF None, Beyond
<1> QED
  BY <1>1, <1>3, <1>4, <1>5, <1>6, <1>7, <1>8

(* A block that ends where another one does is put on the queue.            *)
LEMMA SharedShape ==
  ASSUME ScannerInv, ShapeInv, EndIsShared
  PROVE  ShapeStep
<1>1. /\ Ended
      /\ EndAddr \in DOMAIN blockEnds
      /\ current' = NoBlock
      /\ UNCHANGED <<code, blockStarts, blockEnds, blocks, succs, workers, running,
                     resuming>>
  BY DEF EndIsShared, EndIsNew, workerVars
<1>2. PICK b, s, e : b = current.start /\ s = current.instrs /\ e = EndAddr
  OBVIOUS
<1>3. /\ split' = [outer |-> b, queue |-> <<[instrs |-> s, end |-> e]>>]
      /\ b \in ValidBlocks
      /\ IsBlock(s)
      /\ s[1] = b
      /\ e = Last(s)
      /\ e \in Addresses
      /\ split = NoSplit
      /\ running # None
      /\ ~resuming
      /\ blockStarts = DOMAIN blocks
  BY <1>1, <1>2, EndedIs DEF EndIsShared
<1>4. /\ (BlocksFit /\ EndsFit)'
      /\ CodeGrows
      /\ ValidBlocks' = ValidBlocks
  <2>1. ValidBlocks' = ValidBlocks /\ CodeGrows
    BY <1>1 DEF ValidBlocks, CodeGrows
  <2>2. BlocksFit' /\ EndsFit'
    BY <1>1, <2>1, SplitIsStep DEF ShapeInv, EndsFit
  <2> QED
    BY <2>1, <2>2
<1>5. SplitFits'
  <2>1. PICK q : q = [instrs |-> s, end |-> e]
    OBVIOUS
  <2>2. q \in Pairs
    BY <1>3, <2>1 DEF Pairs, IsBlock, Chain
  <2>3. <<q>> \in Seq(Pairs) /\ <<q>> # <<>> /\ Len(<<q>>) = 1 /\ <<q>>[1] = q
    BY <2>2
  <2>4. IsBlock(s)'
    BY <1>1, <1>3 DEF IsBlock, Chain, RunsOn, Stops, After, Boundary
  <2>5. Queued(q)'
    BY <1>1, <1>2, <1>3, <1>4, <2>1, <2>4
    DEF Queued, IsBlock, Chain, RunsOn, Stops, After, Boundary
  <2>6. \A i \in 1 .. 1 : i = 1
    OBVIOUS
  <2>7. split' = [outer |-> b, queue |-> <<q>>]
    BY <1>3, <2>1
  <2> QED
    BY <1>3, <1>4, <2>3, <2>5, <2>6, <2>7 DEF SplitFits
<1>6. EdgesFit' /\ StartsFit' /\ CurrentFits' /\ SplitAlone'
  BY <1>1, <1>3 DEF ShapeInv, EdgesFit, EdgeMap, StartsFit, CurrentFits, SplitAlone
<1>7. CallersFit'
  BY <1>1, <1>4, WorkersSame, CallersKept DEF ShapeInv, JobsCome
<1> QED
  BY <1>1, <1>4, <1>5, <1>6, <1>7 DEF ShapeInv, ShapeStep

(* The end is registered, and the edges where the block leads.              *)
LEMMA RegisteredShape ==
  ASSUME ScannerInv, ShapeInv, Ended, RegisterEnd, current' = NoBlock,
         UNCHANGED <<code, blockStarts, blocks, split>>,
         EdgeMap(succs'), DOMAIN succs' \subseteq DOMAIN succs \cup {current.start},
         CallersFit'
  PROVE  ShapeStep
<1>1. /\ split = NoSplit
      /\ current.start \in ValidBlocks
      /\ EndAddr \in DOMAIN code
      /\ blockStarts = DOMAIN blocks
  BY EndedIs
<1>2. ValidBlocks' = ValidBlocks /\ CodeGrows
  BY DEF ValidBlocks, CodeGrows
<1>3. BlocksFit'
  BY SplitIsStep DEF ShapeInv
<1>4. EndsFit'
  BY <1>1, <1>2 DEF RegisterEnd, Set, ShapeInv, EndsFit
<1>5. EdgesFit'
  BY <1>1 DEF ShapeInv, EdgesFit, EdgeMap, ValidBlocks
<1>6. SplitFits' /\ StartsFit' /\ CurrentFits' /\ SplitAlone'
  BY <1>1 DEF SplitFits, StartsFit, CurrentFits, SplitAlone
<1> QED
  BY <1>2, <1>3, <1>4, <1>5, <1>6 DEF ShapeInv, ShapeStep

(* Where a block that has ended gets edges to. *)
NewEdges ==
    IF EndJumps THEN ToSet(EdgesTo)
    ELSE IF EndCallReturning /\ Fall \in Addresses THEN {Fall} ELSE {}

(* What the end of a block adds to the edges.                               *)
LEMMA EndEdges ==
  ASSUME ScannerInv, ShapeInv, EndJumps \/ EndReturn \/ EndCallReturning \/ EndCallUnknown
  PROVE  /\ EdgeMap(succs')
         /\ DOMAIN succs' \subseteq DOMAIN succs \cup {current.start}
         /\ DOMAIN succs \subseteq DOMAIN succs'
         /\ \A b : EdgesOf(succs, b) \subseteq EdgesOf(succs', b)
         /\ EndJumps => EdgesOf(succs', current.start) =
                           EdgesOf(succs, current.start) \cup ToSet(EdgesTo)
         /\ \A b : EdgesOf(succs', b) \subseteq EdgesOf(succs, b) \cup NewEdges
<1>1. /\ Ended
      /\ EdgeMap(succs)
      /\ Fall \in 1 .. Beyond
      /\ EdgesTo \in Seq(1 .. Beyond)
  <2>1. Ended /\ current.ended
    BY DEF EndJumps, EndReturn, EndCallReturning, EndCallUnknown, Ended
  <2> QED
    BY <2>1, EndLeads DEF ScannerInv, ShapeInv, EdgesFit
<1>2. PICK b, e, g, tos, to : /\ b = current.start /\ e = succs /\ g = succs'
                              /\ tos = EdgesTo /\ to = Fall
  OBVIOUS
<1>3. CASE EndJumps
  <2>1. g = WithEdges(e, b, tos)
    BY <1>2, <1>3 DEF EndJumps
  <2>2. /\ EdgeMap(g)
        /\ DOMAIN g \subseteq DOMAIN e \cup {b}
        /\ DOMAIN e \subseteq DOMAIN g
    BY <1>1, <1>2, <2>1, WithEdgesMap
  <2>3. /\ EdgesOf(g, b) = EdgesOf(e, b) \cup ToSet(tos)
        /\ \A x : x # b => EdgesOf(g, x) = EdgesOf(e, x)
    BY <1>1, <1>2, <2>1, WithEdgesEdges
  <2> QED
    BY <1>2, <1>3, <2>2, <2>3 DEF NewEdges
<1>4. CASE EndCallReturning /\ Fall \in Addresses /\ ~EndJumps
  <2>1. g = WithEdge(e, b, to)
    BY <1>2, <1>4 DEF EndCallReturning
  <2>2. EdgeMap(g) /\ DOMAIN g = DOMAIN e \cup {b}
    BY <1>1, <1>2, <2>1, WithEdgeMap
  <2>3. /\ EdgesOf(g, b) = EdgesOf(e, b) \cup {to}
        /\ \A x : x # b => EdgesOf(g, x) = EdgesOf(e, x)
    BY <1>1, <1>2, <2>1, WithEdgeEdges
  <2> QED
    BY <1>2, <1>4, <2>2, <2>3 DEF NewEdges
<1>5. CASE ~EndJumps /\ ~(EndCallReturning /\ Fall \in Addresses)
  <2>1. succs' = succs
    BY <1>5 DEF EndReturn, EndCallReturning, EndCallUnknown
  <2> QED
    BY <1>1, <1>5, <2>1
<1> QED
  BY <1>3, <1>4, <1>5

(* Each of the new edges gets a job.                                        *)
LEMMA EndJobs ==
  ASSUME ScannerInv, ShapeInv, EndJumps \/ EndReturn \/ EndCallReturning
  PROVE  NotesAndCallsStay /\ JobsCome(running, {Job(x, None) : x \in NewEdges})
<1>1. /\ Ended
      /\ ListTypes
      /\ running' = running
      /\ Fall \in 1 .. Beyond
      /\ EdgesTo \in Seq(1 .. Beyond)
  <2>1. Ended /\ current.ended
    BY DEF EndJumps, EndReturn, EndCallReturning, Ended
  <2> QED
    BY <2>1, EndLeads DEF ScannerInv, EndJumps, EndReturn, EndCallReturning
<1>2. running # None
  BY <1>1, EndedIs
<1>3. CASE EndJumps
  <2>1. PICK tos, js : tos = EdgesTo /\ js = JobsTo(tos)
    OBVIOUS
  <2>2. tos \in Seq(1 .. Beyond) /\ js \in Seq(Jobs)
    BY <1>1, <2>1, JobsToTyped
  <2>3. workers' = [workers EXCEPT ![running].jobs = @ \o js]
    BY <1>3, <2>1 DEF EndJumps
  <2>4. NotesAndCallsStay /\ JobsCome(running, ToSet(js))
    BY <1>1, <1>2, <2>2, <2>3, JobsAdded
  <2>5. ToSet(js) = {Job(x, None) : x \in ToSet(tos)}
    BY <2>1 DEF ToSet, JobsTo
  <2>6. NewEdges = ToSet(tos)
    BY <1>3, <2>1 DEF NewEdges
  <2> QED
    BY <2>4, <2>5, <2>6
<1>4. CASE EndCallReturning /\ Fall \in Addresses /\ ~EndJumps
  <2>1. PICK to, j : to = Fall /\ j = Job(to, None)
    OBVIOUS
  <2>2. j \in Jobs
    BY <1>1, <2>1, ScannerAssumption DEF Job, Jobs, None, Beyond
  <2>3. workers' = [workers EXCEPT ![running].jobs = Append(@, j)]
    BY <1>4, <2>1 DEF EndCallReturning
  <2>4. NotesAndCallsStay /\ JobsCome(running, {j})
    BY <1>1, <1>2, <2>2, <2>3, JobAdded
  <2>5. NewEdges = {to}
    BY <1>4, <2>1 DEF NewEdges
  <2> QED
    BY <2>1, <2>4, <2>5
<1>5. CASE ~EndJumps /\ ~(EndCallReturning /\ Fall \in Addresses)
  <2>1. workers' = workers
    BY <1>5 DEF EndReturn, EndCallReturning
  <2>2. NewEdges = {}
    BY <1>5 DEF NewEdges
  <2> QED
    BY <2>1, <2>2, WorkersSame
<1> QED
  BY <1>3, <1>4, <1>5

(* However a block ends, everything stays in order.                         *)
LEMMA EndShape ==
  ASSUME ScannerInv, ShapeInv, EndJumps \/ EndReturn \/ EndCallReturning \/ EndCallUnknown
  PROVE  ShapeStep
<1>1. /\ Ended
      /\ RegisterEnd
      /\ current' = NoBlock
      /\ UNCHANGED <<code, blockStarts, blocks, split>>
  BY DEF EndJumps, EndReturn, EndCallReturning, EndCallUnknown
<1>2. EdgeMap(succs') /\ DOMAIN succs' \subseteq DOMAIN succs \cup {current.start}
  BY EndEdges
<1>3. ValidBlocks' = ValidBlocks
  BY <1>1 DEF ValidBlocks
<1>4. CallersFit'
  <2>1. CASE EndJumps \/ EndReturn \/ EndCallReturning
    <3>1. NotesAndCallsStay /\ JobsCome(running, {Job(x, None) : x \in NewEdges})
      BY <2>1, EndJobs
    <3>2. \A v, j : HasJob(v, j)' => HasJob(v, j) \/ j.caller = None
      BY <3>1 DEF JobsCome, Job
    <3> QED
      BY <1>3, <3>1, <3>2, CallersKept DEF ShapeInv
  <2>2. CASE EndCallUnknown
    <3>1. /\ \A v, j : HasJob(v, j)' => HasJob(v, j) \/ j.caller = None
          /\ \A v, a : HasCall(v, a)' => HasCall(v, a) \/ a = current.start
      BY <2>2, CallIsNoted DEF FirstJob
    <3>2. current.start \in ValidBlocks
      BY <1>1, EndedIs
    <3> QED
      BY <1>3, <3>1, <3>2 DEF ShapeInv, CallersFit
  <2> QED
    BY <2>1, <2>2
<1> QED
  BY <1>1, <1>2, <1>4, RegisteredShape

-------------------------------------------------------------------------------
(* Parsing. *)

(* Control runs from the end of the instructions to an address. *)
Leads(s, n) ==
    s # <<>> => /\ RunsOn(Last(s))
                /\ n = After(Last(s))
                /\ ~Boundary(Last(s), n)

(* The chain gets longer by an instruction it leads to. *)
ChainsGrow ==
    \A s, n : Chain(s) /\ n \in DOMAIN code \cap Addresses /\ Leads(s, n)
                 => Chain(Append(s, n))

(* That is so in every state.                                               *)
LEMMA ChainGrows == ChainsGrow
<1> SUFFICES ASSUME NEW s, NEW n, Chain(s), n \in DOMAIN code, n \in Addresses,
                    Leads(s, n)
             PROVE  Chain(Append(s, n))
  BY DEF ChainsGrow
<1> DEFINE t == Append(s, n)
<1>1. s \in Seq(Addresses) /\ Len(s) \in Nat
  BY LenProperties DEF Chain
<1>2. /\ t \in Seq(Addresses)
      /\ Len(t) = Len(s) + 1
      /\ \A i \in 1 .. Len(s) : t[i] = s[i]
      /\ t[Len(s) + 1] = n
  BY <1>1, AppendProperties
<1> HIDE DEF t
<1>3. \A i \in 1 .. Len(t) : i \in 1 .. Len(s) \/ i = Len(s) + 1
  BY <1>1, <1>2
<1>4. \A i \in 1 .. Len(t) : t[i] \in DOMAIN code
  BY <1>2, <1>3 DEF Chain
<1>5. ASSUME NEW i \in 1 .. Len(t) - 1
      PROVE  RunsOn(t[i]) /\ t[i + 1] = After(t[i]) /\ ~Boundary(t[i], t[i + 1])
  <2>1. CASE i = Len(s)
    <3>1. i \in 1 .. Len(s) /\ s # <<>>
      BY <1>1, <1>2, <1>5, <2>1, EmptySeq
    <3>2. t[i] = Last(s) /\ t[i + 1] = n
      BY <1>2, <2>1, <3>1 DEF Last
    <3> QED
      BY <3>1, <3>2 DEF Leads
  <2>2. CASE i # Len(s)
    <3>1. i \in 1 .. Len(s) - 1 /\ i \in 1 .. Len(s) /\ i + 1 \in 1 .. Len(s)
      BY <1>1, <1>2, <1>5, <2>2
    <3>2. t[i] = s[i] /\ t[i + 1] = s[i + 1]
      BY <1>2, <3>1
    <3> QED
      BY <3>1, <3>2 DEF Chain
  <2> QED
    BY <2>1, <2>2
<1>6. Chain(t)
  BY <1>2, <1>4, <1>5 DEF Chain
<1> QED
  BY <1>6 DEF t

(* A chain that leads nowhere is doomed. *)
ChainsDoomed ==
    \A s, n :
       Chain(s) /\ Leads(s, n)
          /\ (n = Beyond \/ (n \in DOMAIN code /\ code[n].op = "invalid"))
       => Doomed(ToSet(s) \cup {n})

(* That is so in every state.                                               *)
LEMMA ChainDoomed == ChainsDoomed
<1> SUFFICES ASSUME NEW s, NEW n, Chain(s), Leads(s, n),
                    n = Beyond \/ (n \in DOMAIN code /\ code[n].op = "invalid")
             PROVE  Doomed(ToSet(s) \cup {n})
  BY DEF ChainsDoomed
<1>1. DOMAIN s = 1 .. Len(s) /\ Len(s) \in Nat
  BY LenProperties DEF Chain
<1>2. ASSUME NEW a \in ToSet(s)
      PROVE  /\ a \in DOMAIN code
             /\ RunsOn(a)
             /\ After(a) \in ToSet(s) \cup {n}
             /\ ~Boundary(a, After(a))
  <2>1. PICK i \in 1 .. Len(s) : s[i] = a
    BY <1>1, <1>2 DEF ToSet
  <2>2. a \in DOMAIN code
    BY <2>1 DEF Chain
  <2>3. CASE i = Len(s)
    <3>1. s # <<>>
      BY <1>1, <2>1, EmptySeq
    <3>2. a = Last(s)
      BY <2>1, <2>3 DEF Last
    <3> QED
      BY <2>2, <3>1, <3>2 DEF Leads
  <2>4. CASE i # Len(s)
    <3>0. Len(s) \in Nat
      BY <1>1
    <3>1. i \in 1 .. Len(s) - 1 /\ i + 1 \in 1 .. Len(s)
      BY <2>1, <2>4, <3>0
    <3>2. RunsOn(a) /\ s[i + 1] = After(a) /\ ~Boundary(a, s[i + 1])
      BY <2>1, <3>1 DEF Chain
    <3> QED
      BY <1>1, <2>2, <3>1, <3>2 DEF ToSet
  <2> QED
    BY <2>3, <2>4
<1> QED
  BY <1>2 DEF Doomed

(* A chain stays one when more is read.                                     *)
LEMMA ChainKept ==
  ASSUME CodeGrows, NEW s, Chain(s)
  PROVE  /\ Chain(s)'
         /\ s # <<>> => /\ Last(s) \in DOMAIN code
                        /\ Last(s) \in DOMAIN code'
                        /\ code'[Last(s)] = code[Last(s)]
                        /\ After(Last(s))' = After(Last(s))
                        /\ RunsOn(Last(s))' <=> RunsOn(Last(s))
<1>1. Len(s) \in Nat
  BY LenProperties DEF Chain
<1>2. \A i \in 1 .. Len(s) - 1 : i \in 1 .. Len(s) /\ i + 1 \in 1 .. Len(s)
  BY <1>1
<1>3. Chain(s)'
  BY <1>2 DEF Chain, CodeGrows, RunsOn, After, Boundary
<1>4. s # <<>> => Len(s) \in 1 .. Len(s)
  BY <1>1, EmptySeq DEF Chain
<1>5. s # <<>> => Last(s) \in DOMAIN code
  BY <1>4 DEF Chain, Last
<1> QED
  BY <1>3, <1>5 DEF CodeGrows, After, RunsOn

(* What the parser works with.                                              *)
LEMMA ParsingIs ==
  ASSUME ScannerInv, ShapeInv, Parsing
  PROVE  /\ current # NoBlock
         /\ ~current.ended
         /\ split = NoSplit
         /\ running # None
         /\ current.start \in 1 .. Beyond
         /\ current.start \notin DOMAIN blocks
         /\ blockStarts = DOMAIN blocks \cup {current.start}
         /\ Chain(current.instrs)
         /\ current.instrs # <<>> => current.instrs[1] = current.start
         /\ current.instrs = <<>> => current.addr = current.start
         /\ current.instrs # <<>> => /\ RunsOn(Last(current.instrs))
                                     /\ current.addr = After(Last(current.instrs))
         /\ current.addr \in 1 .. Beyond
         /\ current = [start |-> current.start, addr |-> current.addr,
                       instrs |-> current.instrs, ended |-> FALSE]
         /\ CodeFits
<1>1. /\ current # NoBlock /\ ~current.ended
      /\ split = NoSplit
      /\ running # None
  BY DEF Parsing, AtWork
<1>2. /\ blockStarts = DOMAIN blocks \cup {current.start}
      /\ CurrentFits
      /\ CodeFits
  BY <1>1 DEF ShapeInv, StartsFit, BlocksFit
<1>3. /\ current.start \in 1 .. Beyond
      /\ current.addr \in 1 .. Beyond
      /\ current = [start |-> current.start, addr |-> current.addr,
                    instrs |-> current.instrs, ended |-> FALSE]
  BY <1>1, ScannerAssumption DEF ScannerInv, ParserTypes, None, Beyond
<1> QED
  BY <1>1, <1>2, <1>3 DEF CurrentFits

(* What reading one instruction means, if it is i.                          *)
Read(i) ==
    /\ Parsing
    /\ i \in Decoded
    /\ code' = Set(code, current.addr, i)
    /\ UNCHANGED <<blockEnds, split, thrown, workerVars>>

LEMMA ReadIs ==
  ASSUME ScannerInv, ShapeInv, NEW i, Read(i), NEW n, n = current.addr
  PROVE  /\ n \in Addresses
         /\ n \in DOMAIN code'
         /\ code'[n] = i
         /\ After(n)' = n + i.length
         /\ CodeGrows
         /\ CodeFits'
         /\ DOMAIN code' = DOMAIN code \cup {n}
<1>1. Parsing /\ ParserTypes /\ i \in Decoded /\ code' = Set(code, current.addr, i)
  BY DEF Read, ScannerInv
<1>2. current.addr \in Addresses /\ i \in InstructionsAt(current.addr)
  BY <1>1, ScannerAssumption
  DEF Parsing, ParserTypes, Decoded, Addresses, Beyond, None
<1>3. /\ DOMAIN code' = DOMAIN code \cup {current.addr}
      /\ code'[current.addr] = i
      /\ \A a \in DOMAIN code : a # current.addr => code'[a] = code[a]
  BY <1>1 DEF Set
<1>4. current.addr \in DOMAIN code => code[current.addr] = i
  BY <1>1 DEF Decoded
<1>5. CodeGrows
  BY <1>3, <1>4 DEF CodeGrows
<1>6. CodeFits'
  BY <1>1, <1>2, <1>3 DEF CodeFits, ParserTypes
<1> QED
  BY <1>2, <1>3, <1>5, <1>6 DEF After

(* If it is no boundary, the chain leads to it.                             *)
LEMMA ReadLeads ==
  ASSUME ScannerInv, ShapeInv, NEW i, Read(i), NEW s, s = current.instrs, NEW n,
         n = current.addr
  PROVE  /\ Chain(s)'
         /\ s # <<>> => After(Last(s))' = n /\ RunsOn(Last(s))'
         /\ s # <<>> => (Boundary(Last(s), n)' <=> IsPaddingBoundary(i))
         /\ ~IsPaddingBoundary(i) => Leads(s, n)'
<1>1. /\ Chain(s) /\ CodeGrows
      /\ s # <<>> => RunsOn(Last(s)) /\ n = After(Last(s))
      /\ n \in DOMAIN code'
      /\ code'[n] = i
  BY ParsingIs, ReadIs DEF Read
<1>2. /\ Chain(s)'
      /\ s # <<>> => /\ After(Last(s))' = n
                     /\ RunsOn(Last(s))'
                     /\ code'[Last(s)] = code[Last(s)]
  BY <1>1, ChainKept
<1>3. s # <<>> => (Boundary(Last(s), n)' <=> IsPaddingBoundary(i))
  BY <1>1, <1>2 DEF Boundary, IsPaddingBoundary, Transfers
<1>4. ~IsPaddingBoundary(i) => Leads(s, n)'
  BY <1>2, <1>3 DEF Leads
<1> QED
  BY <1>2, <1>3, <1>4

(* The longer chain.                                                        *)
LEMMA ReadChain ==
  ASSUME ScannerInv, ShapeInv, NEW i, Read(i), ~IsPaddingBoundary(i),
         NEW s, s = current.instrs, NEW n, n = current.addr, NEW t, t = Append(s, n)
  PROVE  /\ Chain(t)'
         /\ t # <<>>
         /\ t[1] = current.start
         /\ Last(t) = n
<1>1. /\ Chain(s)' /\ Leads(s, n)'
      /\ n \in DOMAIN code' /\ n \in Addresses
  BY ReadLeads, ReadIs
<1>2. /\ s \in Seq(Addresses)
      /\ s # <<>> => s[1] = current.start
      /\ s = <<>> => n = current.start
  BY ParsingIs DEF Chain, Read
<1>3. ChainsGrow'
  BY ChainGrows, PTL
<1>4. Chain(t)'
  BY <1>1, <1>3 DEF ChainsGrow
<1>5. /\ t # <<>>
      /\ Len(t) = Len(s) + 1
      /\ Len(s) \in Nat
      /\ \A j \in 1 .. Len(s) : t[j] = s[j]
      /\ t[Len(s) + 1] = n
  BY <1>1, <1>2, AppendProperties, LenProperties, EmptySeq
<1>6. Last(t) = n
  BY <1>5 DEF Last
<1>7. t[1] = current.start
  <2>1. CASE s = <<>>
    <3>1. Len(s) = 0
      BY <2>1, EmptySeq
    <3> QED
      BY <1>2, <1>5, <2>1, <3>1
  <2>2. CASE s # <<>>
    <3>1. Len(s) # 0
      BY <1>2, <2>2, EmptySeq
    <3>2. 1 \in 1 .. Len(s)
      BY <1>5, <3>1
    <3> QED
      BY <1>2, <1>5, <2>2, <3>2
  <2> QED
    BY <2>1, <2>2
<1> QED
  BY <1>4, <1>5, <1>6, <1>7

(* What a step of the parser has to show.                                   *)
LEMMA ParseStep ==
  ASSUME ScannerInv, ShapeInv, Parsing, UNCHANGED <<blockEnds, split, thrown, workerVars>>,
         BlocksStep, EdgesFit', StartsFit', CurrentFits', blockStarts \subseteq blockStarts'
  PROVE  ShapeStep
<1>1. BlocksFit' /\ ValidBlocks \subseteq ValidBlocks' /\ CodeGrows
  BY BlocksFitStep DEF ShapeInv, BlocksStep
<1>2. EndsFit'
  BY <1>1 DEF ShapeInv, EndsFit, CodeGrows
<1>3. split = NoSplit
  BY DEF Parsing, AtWork
<1>4. SplitFits' /\ SplitAlone'
  BY <1>3 DEF SplitFits, SplitAlone
<1>5. workers' = workers
  BY DEF workerVars
<1>6. CallersFit'
  BY <1>1, <1>5, WorkersSame, CallersKept DEF ShapeInv, JobsCome
<1> QED
  BY <1>1, <1>2, <1>4, <1>6 DEF ShapeInv, ShapeStep

(* Control runs through the instruction.                                    *)
LEMMA ReadOnShape ==
  ASSUME ScannerInv, ShapeInv, NEW i, Read(i), ReadOn(i)
  PROVE  ShapeStep
<1>1. PICK s, n, t, b : /\ s = current.instrs /\ n = current.addr
                        /\ t = Append(s, n) /\ b = current.start
  OBVIOUS
<1>2. /\ Parsing
      /\ ~IsPaddingBoundary(i)
      /\ i.op \in {"linear", "padding"}
      /\ UNCHANGED <<blockEnds, split, thrown, workerVars, blockStarts, blocks, succs>>
  BY DEF Read, ReadOn
<1>3. Chain(t)' /\ t # <<>> /\ t[1] = b /\ Last(t) = n
  BY <1>1, <1>2, ReadChain
<1>4. /\ CodeGrows /\ CodeFits'
      /\ code'[n] = i
      /\ After(n)' = n + i.length
  BY <1>1, ReadIs
<1>5. /\ b \notin DOMAIN blocks
      /\ blockStarts = DOMAIN blocks \cup {b}
      /\ b \in 1 .. Beyond
      /\ current = [start |-> b, addr |-> n, instrs |-> s, ended |-> FALSE]
  BY <1>1, <1>2, ParsingIs
<1>6. current' = [start |-> b, addr |-> n + i.length, instrs |-> t, ended |-> FALSE]
  <2>1. current' = [current EXCEPT !.addr = n + i.length, !.instrs = t]
    BY <1>1 DEF ReadOn
  <2> QED
    BY <1>5, <2>1
<1>7. current' # NoBlock
  BY <1>5, <1>6, ScannerAssumption DEF NoBlock, None, Beyond
<1>8. RunsOn(n)'
  BY <1>2, <1>4 DEF RunsOn
<1>9. CurrentFits'
  <2>1. RunsOn(Last(t))' /\ After(Last(t))' = n + i.length
    BY <1>3, <1>4, <1>8
  <2> QED
    BY <1>2, <1>3, <1>5, <1>6, <2>1 DEF CurrentFits, Chain, RunsOn, After, Boundary
<1>10. StartsFit'
  BY <1>2, <1>5, <1>6, <1>7 DEF StartsFit
<1>11. BlocksStep
  <2>1. {} \in SUBSET (1 .. Beyond) /\ Doomed({})'
    BY DEF Doomed
  <2> QED
    BY <1>2, <1>4, <2>1 DEF BlocksStep
<1>12. EdgesFit'
  BY <1>2 DEF ShapeInv, EdgesFit, EdgeMap
<1> QED
  BY <1>2, <1>9, <1>10, <1>11, <1>12, ParseStep

(* Control ends with the instruction.                                       *)
LEMMA ReadLastShape ==
  ASSUME ScannerInv, ShapeInv, NEW i, Read(i), ReadLast(i)
  PROVE  ShapeStep
<1>1. PICK s, n, t, b : /\ s = current.instrs /\ n = current.addr
                        /\ t = Append(s, n) /\ b = current.start
  OBVIOUS
<1>2. /\ Parsing
      /\ ~IsPaddingBoundary(i)
      /\ i.op \in {"goto", "branch", "call", "return", "resume", "halt"}
      /\ UNCHANGED <<blockEnds, split, thrown, workerVars, blockStarts, succs>>
  BY DEF Read, ReadLast, Transfers
<1>3. Chain(t)' /\ t # <<>> /\ t[1] = b /\ Last(t) = n
  BY <1>1, <1>2, ReadChain
<1>4. CodeGrows /\ CodeFits' /\ code'[n] = i
  BY <1>1, ReadIs
<1>5. /\ b \notin DOMAIN blocks
      /\ blockStarts = DOMAIN blocks \cup {b}
      /\ b \in 1 .. Beyond
      /\ current = [start |-> b, addr |-> n, instrs |-> s, ended |-> FALSE]
  BY <1>1, <1>2, ParsingIs
<1>6. /\ current' = [start |-> b, addr |-> n, instrs |-> t, ended |-> TRUE]
      /\ blocks' = Set(blocks, b, Valid(t))
  BY <1>1, <1>5 DEF ReadLast
<1>7. /\ DOMAIN blocks' = DOMAIN blocks \cup {b}
      /\ blocks'[b] = Valid(t)
      /\ \A c \in DOMAIN blocks : blocks'[c] = blocks[c]
  BY <1>5, <1>6 DEF Set
<1>8. Stops(Last(t))'
  BY <1>2, <1>3, <1>4 DEF Stops
<1>9. current' # NoBlock
  BY <1>5, <1>6, ScannerAssumption DEF NoBlock, None, Beyond
<1>10. CurrentFits'
  BY <1>3, <1>6, <1>7 DEF CurrentFits, Chain, RunsOn, After, Boundary
<1>11. StartsFit'
  BY <1>2, <1>5, <1>6, <1>7, <1>9 DEF StartsFit
<1>12. BlocksStep
  <2>1. {} \in SUBSET (1 .. Beyond) /\ Doomed({})'
    BY DEF Doomed
  <2>2. IsBlock(t)' /\ Falls(t, {})'
    BY <1>3, <1>8 DEF IsBlock, Falls
  <2>3. Parsed(b)
    BY <1>3, <1>5, <1>7, <2>2 DEF Parsed
  <2> QED
    BY <1>4, <1>7, <2>1, <2>3 DEF BlocksStep
<1>13. EdgesFit'
  BY <1>2, <1>7 DEF ShapeInv, EdgesFit, EdgeMap
<1> QED
  BY <1>2, <1>10, <1>11, <1>12, <1>13, ParseStep

(* The block ends before a boundary.                                        *)
LEMMA CutShape ==
  ASSUME ScannerInv, ShapeInv, NEW i, Read(i), CutAtPadding(i)
  PROVE  ShapeStep
<1>1. PICK s, n, b, e, g : /\ s = current.instrs /\ n = current.addr
                           /\ b = current.start /\ e = succs /\ g = succs'
  OBVIOUS
<1>2. /\ Parsing
      /\ IsPaddingBoundary(i)
      /\ s # <<>>
      /\ UNCHANGED <<blockEnds, split, thrown, workerVars>>
  BY <1>1 DEF Read, CutAtPadding, IsPaddingBoundary
<1>3. /\ Chain(s)'
      /\ After(Last(s))' = n
      /\ RunsOn(Last(s))'
      /\ Boundary(Last(s), n)'
  BY <1>1, <1>2, ReadLeads
<1>4. CodeGrows /\ CodeFits'
  BY ReadIs
<1>5. /\ b \notin DOMAIN blocks
      /\ blockStarts = DOMAIN blocks \cup {b}
      /\ b \in 1 .. Beyond /\ n \in 1 .. Beyond
      /\ s[1] = b
      /\ current = [start |-> b, addr |-> n, instrs |-> s, ended |-> FALSE]
  BY <1>1, <1>2, ParsingIs
<1>6. /\ blocks' = Set(blocks, b, Valid(s))
      /\ blockStarts' = blockStarts \cup {n}
      /\ g = WithEdge(e, b, n)
  BY <1>1 DEF CutAtPadding
<1>7. /\ DOMAIN blocks' = DOMAIN blocks \cup {b}
      /\ blocks'[b] = Valid(s)
      /\ \A c \in DOMAIN blocks : blocks'[c] = blocks[c]
  BY <1>5, <1>6 DEF Set
<1>8. ASSUME n \in blockStarts PROVE CurrentFits' /\ StartsFit'
  <2>1. current' = [start |-> b, addr |-> n, instrs |-> s, ended |-> TRUE]
    <3>1. current' = [current EXCEPT !.ended = TRUE]
      BY <1>1, <1>8 DEF CutAtPadding
    <3> QED
      BY <1>5, <3>1
  <2>2. current' # NoBlock
    BY <1>5, <2>1, ScannerAssumption DEF NoBlock, None, Beyond
  <2>3. CurrentFits'
    BY <1>3, <1>5, <1>7, <2>1 DEF CurrentFits, Chain, RunsOn, After, Boundary
  <2>4. StartsFit'
    BY <1>5, <1>6, <1>7, <1>8, <2>1, <2>2 DEF StartsFit
  <2> QED
    BY <2>3, <2>4
<1>9. ASSUME n \notin blockStarts PROVE CurrentFits' /\ StartsFit'
  <2>1. current' = [start |-> n, addr |-> n, instrs |-> <<>>, ended |-> FALSE]
    <3>1. current' = [current EXCEPT !.start = n, !.instrs = <<>>]
      BY <1>1, <1>9 DEF CutAtPadding
    <3> QED
      BY <1>5, <3>1
  <2>2. current' # NoBlock
    BY <1>5, <2>1, ScannerAssumption DEF NoBlock, None, Beyond
  <2>3. <<>> \in Seq(Addresses) /\ Len(<<>>) = 0
    BY EmptySeq
  <2>4. CurrentFits'
    BY <1>5, <1>7, <1>9, <2>1, <2>3 DEF CurrentFits, Chain
  <2>5. StartsFit'
    BY <1>5, <1>6, <1>7, <2>1, <2>2 DEF StartsFit
  <2> QED
    BY <2>4, <2>5
<1>10. CurrentFits' /\ StartsFit'
  BY <1>8, <1>9
<1>11. BlocksStep
  <2>1. {} \in SUBSET (1 .. Beyond) /\ Doomed({})'
    BY DEF Doomed
  <2>2. IsBlock(s)'
    BY <1>2, <1>3 DEF IsBlock
  <2>3. Falls(s, {})'
    BY <1>3 DEF Falls, Boundary, After
  <2>4. Parsed(b)
    BY <1>5, <1>7, <2>2, <2>3 DEF Parsed
  <2> QED
    BY <1>4, <1>7, <2>1, <2>4 DEF BlocksStep
<1>12. EdgesFit'
  <2>1. EdgeMap(e) /\ DOMAIN e \subseteq DOMAIN blocks
    BY <1>1 DEF ShapeInv, EdgesFit
  <2>2. EdgeMap(g) /\ DOMAIN g = DOMAIN e \cup {b}
    BY <1>5, <1>6, <2>1, WithEdgeMap
  <2> QED
    BY <1>1, <1>7, <2>1, <2>2 DEF EdgesFit, EdgeMap
<1>13. blockStarts \subseteq blockStarts'
  BY <1>6
<1> QED
  BY <1>2, <1>10, <1>11, <1>12, <1>13, ParseStep

(* The block turns out bad.                                                 *)
LEMMA BadShape ==
  ASSUME ScannerInv, ShapeInv, Parsing, BadBlock,
         UNCHANGED <<blockEnds, split, thrown, workerVars>>,
         CodeGrows, CodeFits',
         NEW s, s = current.instrs, NEW n, n = current.addr,
         Chain(s)', Leads(s, n)',
         n = Beyond \/ (n \in DOMAIN code' /\ code'[n].op = "invalid")
  PROVE  ShapeStep
<1>1. PICK b, D : b = current.start /\ D = ToSet(s) \cup {n}
  OBVIOUS
<1>2. /\ b \notin DOMAIN blocks
      /\ blockStarts = DOMAIN blocks \cup {b}
      /\ Chain(s)
      /\ n \in 1 .. Beyond
      /\ s # <<>> => s[1] = b
      /\ s = <<>> => n = b
  BY <1>1, ParsingIs
<1>3. /\ blocks' = Set(blocks, b, [instrs |-> <<>>, valid |-> FALSE])
      /\ current' = NoBlock
      /\ UNCHANGED <<blockStarts, succs>>
  BY <1>1 DEF BadBlock
<1>4. /\ DOMAIN blocks' = DOMAIN blocks \cup {b}
      /\ blocks'[b] = [instrs |-> <<>>, valid |-> FALSE]
      /\ \A c \in DOMAIN blocks : blocks'[c] = blocks[c]
  BY <1>2, <1>3 DEF Set
<1>5. ChainsDoomed'
  BY ChainDoomed, PTL
<1>6. Doomed(ToSet(s) \cup {n})'
  BY <1>5 DEF ChainsDoomed
<1>7. Doomed(D)'
  BY <1>1, <1>6 DEF Doomed
<1>8. DOMAIN s = 1 .. Len(s) /\ Len(s) \in Nat /\ s \in Seq(Addresses)
  BY <1>2, LenProperties DEF Chain
<1>9. D \in SUBSET (1 .. Beyond)
  <2>1. \A x \in ToSet(s) : x \in Addresses
    BY <1>8, ElementOfSeq DEF ToSet
  <2>2. \A x \in Addresses : x \in 1 .. Beyond
    BY ScannerAssumption DEF Addresses, Beyond
  <2> QED
    BY <1>1, <1>2, <2>1, <2>2
<1>10. b \in D
  <2>1. CASE s = <<>>
    BY <1>1, <1>2, <2>1
  <2>2. CASE s # <<>>
    <3>1. Len(s) # 0
      BY <1>8, <2>2, EmptySeq
    <3>2. 1 \in DOMAIN s
      BY <1>8, <3>1
    <3> QED
      BY <1>1, <1>2, <2>2, <3>2 DEF ToSet
  <2> QED
    BY <2>1, <2>2
<1>11. BlocksStep
  <2>1. Rejected(b, D)
    BY <1>2, <1>4, <1>10 DEF Rejected
  <2> QED
    BY <1>4, <1>7, <1>9, <2>1 DEF BlocksStep
<1>12. EdgesFit' /\ StartsFit' /\ CurrentFits' /\ blockStarts \subseteq blockStarts'
  BY <1>2, <1>3, <1>4 DEF ShapeInv, EdgesFit, EdgeMap, StartsFit, CurrentFits
<1> QED
  BY <1>11, <1>12, ParseStep

(* Whatever the parser reads, or if there is nothing to read.               *)
LEMMA ParsingShape ==
  ASSUME ScannerInv, ShapeInv, ReadInstruction \/ FallOff
  PROVE  ShapeStep
<1>1. CASE ReadInstruction
  <2>1. PICK i : Read(i) /\ (ReadOn(i) \/ ReadLast(i) \/ CutAtPadding(i) \/ ReadInvalid(i))
    BY <1>1 DEF ReadInstruction, Read
  <2>2. CASE ReadInvalid(i)
    <3>1. PICK s, n : s = current.instrs /\ n = current.addr
      OBVIOUS
    <3>2. /\ Parsing
          /\ BadBlock
          /\ i.op = "invalid"
          /\ UNCHANGED <<blockEnds, split, thrown, workerVars>>
          /\ ~IsPaddingBoundary(i)
      BY <2>1, <2>2 DEF Read, ReadInvalid, IsPaddingBoundary, Transfers
    <3>3. Chain(s)' /\ Leads(s, n)'
      BY <2>1, <3>1, <3>2, ReadLeads
    <3>4. CodeGrows /\ CodeFits' /\ n \in DOMAIN code' /\ code'[n] = i
      BY <2>1, <3>1, ReadIs
    <3> QED
      BY <3>1, <3>2, <3>3, <3>4, BadShape
  <2> QED
    BY <2>1, <2>2, ReadOnShape, ReadLastShape, CutShape
<1>2. CASE FallOff
  <2>1. PICK s, n : s = current.instrs /\ n = current.addr
    OBVIOUS
  <2>2. /\ Parsing
        /\ BadBlock
        /\ n = Beyond
        /\ code' = code
        /\ UNCHANGED <<blockEnds, split, thrown, workerVars>>
    BY <1>2, <2>1 DEF FallOff
  <2>3. /\ Chain(s) /\ CodeFits
        /\ s # <<>> => RunsOn(Last(s)) /\ n = After(Last(s))
    BY <2>1, <2>2, ParsingIs
  <2>4. CodeGrows /\ CodeFits'
    BY <2>2, <2>3 DEF CodeGrows, CodeFits
  <2>5. Beyond \notin DOMAIN code
    BY <2>3, AfterFits
  <2>6. Chain(s)'
    BY <2>3, <2>4, ChainKept
  <2>7. Leads(s, n)'
    BY <2>2, <2>3, <2>5 DEF Leads, RunsOn, After, Boundary
  <2> QED
    BY <2>1, <2>2, <2>4, <2>6, <2>7, BadShape
<1> QED
  BY <1>1, <1>2

-------------------------------------------------------------------------------
(* Every step. *)

(* Nothing was found yet.                                                   *)
LEMMA ShapeInit == Init => ShapeInv
<1> SUFFICES ASSUME Init PROVE ShapeInv
  OBVIOUS
<1>1. DOMAIN <<>> = {}
  BY EmptySeq, LenProperties
<1>2. /\ code = <<>> /\ blockStarts = {} /\ blockEnds = <<>> /\ blocks = <<>>
      /\ succs = <<>> /\ split = NoSplit /\ workers = <<>> /\ current = NoBlock
  BY DEF Init, ScanInit
<1>3. {} \in SUBSET (1 .. Beyond) /\ Doomed({})
  BY DEF Doomed
<1>4. BlocksFit
  BY <1>1, <1>2, <1>3 DEF BlocksFit, CodeFits, ValidBlocks
<1>5. EndsFit /\ EdgesFit /\ SplitFits /\ StartsFit /\ CurrentFits /\ SplitAlone
  BY <1>1, <1>2 DEF EndsFit, EdgesFit, EdgeMap, SplitFits, StartsFit, CurrentFits, SplitAlone
<1>6. CallersFit
  BY <1>1, <1>2 DEF CallersFit, HasJob, HasCall
<1> QED
  BY <1>4, <1>5, <1>6 DEF ShapeInv

(* What was found stays in order, whatever the scanner does next.           *)
LEMMA ShapeKept == ScannerInv /\ ShapeInv /\ [Next]_vars => ShapeStep
<1> SUFFICES ASSUME ScannerInv, ShapeInv, [Next]_vars PROVE ShapeStep
  OBVIOUS
<1>1. CASE StartSeed \/ RunNext \/ Complete \/ DropJob \/ UNCHANGED vars
  BY <1>1, WorkerShape
<1>2. CASE TakeJob \/ FallIntoBlock
  BY <1>2, JobShape
<1>3. CASE ReadInstruction \/ FallOff
  BY <1>3, ParsingShape
<1>4. CASE HandleBlockEnd
  BY <1>4, SharedShape, EndShape DEF HandleBlockEnd
<1>5. CASE ResumeWorker
  BY <1>5, ResumeShape
<1>6. CASE SplitBlockEndingAt /\ UNCHANGED <<workerVars, current>>
  BY <1>6, SplitShape
<1> QED
  BY <1>1, <1>2, <1>3, <1>4, <1>5, <1>6 DEF Next

(* The lists and what was found fit together in every state of a scan.      *)
THEOREM ShapeInvariant == Spec => [](ScannerInv /\ ShapeInv)
<1>1. ShapeStep => ShapeInv'
  BY DEF ShapeStep
<1>2. ScannerInv /\ ShapeInv /\ [Next]_vars => ShapeInv'
  BY <1>1, ShapeKept
<1> QED
  BY <1>2, InitInv, InvStep, ShapeInit, PTL DEF Spec

(* Only a procedure that is known returns.                                  *)
ReturningKnown == returning \subseteq procedures

(* The running worker reports a return of its own procedure.                *)
LEMMA ReturningStep == ScannerInv /\ ReturningKnown /\ [Next]_vars => ReturningKnown'
<1> SUFFICES ASSUME ScannerInv, ReturningKnown, [Next]_vars PROVE ReturningKnown'
  OBVIOUS
<1>1. CASE FallIntoBlock \/ EndReturn
  <2>1. /\ running # None
        /\ returning' = returning \cup {Me.proc}
        /\ procedures' = procedures
    BY <1>1 DEF FallIntoBlock, EndReturn, ProcessReturn, Free, Ended, AtWork
  <2>2. Me.proc \in procedures
    BY <2>1, PartsTyped DEF ScannerInv, Listed, Me, Proc
  <2> QED
    BY <2>1, <2>2 DEF ReturningKnown
<1>2. CASE ~(FallIntoBlock \/ EndReturn)
  <2>1. returning' = returning /\ procedures \subseteq procedures'
    BY <1>2
    DEF Next, StartSeed, RunNext, Complete, TakeJob, DropJob, ReadInstruction, FallOff,
        HandleBlockEnd, EndIsShared, EndJumps, EndCallReturning, EndCallUnknown,
        ResumeWorker, ResumeSuspended, ResumeActive, workerVars, vars
  <2> QED
    BY <2>1 DEF ReturningKnown
<1> QED
  BY <1>1, <1>2

(* TypeOK: the address fits the map, the worker its procedure, a block      *)
(* starts with its first instruction, an end leads to a block that was      *)
(* completed, only what is known returns.                                   *)
THEOREM TypesCorrect == Spec => []TypeOK
<1>1. Init => ReturningKnown
  BY DEF Init, ReturningKnown
<1>2. ASSUME ScannerInv, ShapeInv, ReturningKnown PROVE TypeOK
  <2>1. /\ ParserTypes /\ ListTypes /\ Listed /\ Noted /\ NothingMissing
        /\ BlocksFit /\ EndsFit /\ EdgesFit /\ StartsFit
    BY <1>2 DEF ScannerInv, ShapeInv
  <2>2. blockStarts \subseteq 1 .. Beyond
    <3>1. current # NoBlock => current.start \in 1 .. Beyond
      BY <2>1, ScannerAssumption DEF ParserTypes, None, Beyond
    <3> QED
      BY <2>1, <3>1 DEF StartsFit, BlocksFit
  <2>3. DOMAIN blocks \subseteq blockStarts
    BY <2>1 DEF StartsFit
  <2>4. \A b \in ValidBlocks : Head(blocks[b].instrs) = b
    BY <2>1, BlockEnds DEF BlocksFit, Instrs
  <2>5. \A b \in DOMAIN succs : ToSet(succs[b]) \subseteq 1 .. Beyond
    <3> SUFFICES ASSUME NEW b \in DOMAIN succs PROVE ToSet(succs[b]) \subseteq 1 .. Beyond
      OBVIOUS
    <3>1. succs[b] \in Seq(1 .. Beyond)
      BY <2>1 DEF EdgesFit, EdgeMap
    <3> QED
      BY <3>1, ElementOfSeq, LenProperties DEF ToSet
  <2>6. ToSet(wl) \subseteq DOMAIN workers
    <3>1. wl \in Seq(DOMAIN workers)
      BY <2>1 DEF ListTypes
    <3> QED
      BY <3>1, ElementOfSeq, LenProperties DEF ToSet
  <2>7. /\ \A p \in DOMAIN active : workers[active[p]].proc = p
        /\ \A p \in DOMAIN suspended : workers[suspended[p]].proc = p
    BY <2>1 DEF Listed, Proc
  <2>8. /\ \A a \in DOMAIN code : a \in Addresses /\ code[a] \in InstructionsAt(a)
        /\ procedures \subseteq Addresses
        /\ thrown \in {Nothing, "ArgumentOutOfRange"}
        /\ resuming => running # None /\ Me.callers # <<>>
    BY <2>1 DEF ParserTypes, ListTypes, NothingMissing, Noted
  <2>9. /\ DOMAIN blockEnds \subseteq DOMAIN code
        /\ \A e \in DOMAIN blockEnds : blockEnds[e] \in ValidBlocks
        /\ returning \subseteq procedures
    BY <1>2, <2>1 DEF EndsFit, ReturningKnown
  <2> QED
    BY <2>2, <2>3, <2>4, <2>5, <2>6, <2>7, <2>8, <2>9 DEF TypeOK
<1> QED
  BY <1>1, <1>2, ReturningStep, ShapeInvariant, InitInv, InvStep, PTL DEF Spec

(* NothingLost: an instruction that is in a valid block stays in one,       *)
(* however the blocks are split and whatever is read in between.            *)
THEOREM InstructionsStay == Spec => NothingLost
<1>1. ASSUME ScannerInv, ShapeInv, [Next]_vars PROVE Covered \subseteq Covered'
  <2>1. /\ BlocksFit' /\ BlocksFit
        /\ CodeGrows
        /\ ValidBlocks \subseteq ValidBlocks'
    BY <1>1, ShapeKept DEF ShapeStep, ShapeInv
  <2> SUFFICES ASSUME NEW b \in ValidBlocks, NEW x \in ToSet(blocks[b].instrs)
               PROVE  x \in Covered'
    BY DEF Covered
  <2>2. PICK s : s = blocks[b].instrs
    OBVIOUS
  <2>3. IsBlock(s) /\ s[1] = b /\ CodeFits
    BY <2>1, <2>2 DEF BlocksFit, Instrs
  <2>4. IsBlock(s)'
    BY <2>1, <2>3, BlockKept
  <2>5. SpansCovered'
    BY SpanCovered, PTL
  <2>6. s[1] \in ValidBlocks'
    BY <2>1, <2>3
  <2>7. \E c \in ValidBlocks' : x \in Body(c)'
    BY <2>1, <2>2, <2>4, <2>5, <2>6 DEF SpansCovered
  <2> QED
    BY <2>7 DEF Covered, Body, Instrs
<1>2. ScannerInv /\ ShapeInv /\ [Next]_vars => [Covered \subseteq Covered']_vars
  BY <1>1
<1> QED
  BY <1>2, ShapeInvariant, PTL DEF Spec, NothingLost

-------------------------------------------------------------------------------
(* Where the edges lead. *)

(* An edge leads to a block, or to where a worker has still a job.          *)
Arrives(t) == t \in blockStarts \/ \E w, j : HasJob(w, j) /\ j.addr = t

ArriveInv == \A b : \A t \in EdgesOf(succs, b) : Arrives(t)

JobsStay == \A w, j : HasJob(w, j) => HasJob(w, j)'

(* Jobs that stay keep it so; new edges have to lead somewhere.             *)
LEMMA ArriveStep ==
  ASSUME ArriveInv, blockStarts \subseteq blockStarts',
         \A w, j : HasJob(w, j) => HasJob(w, j)' \/ j.addr \in blockStarts',
         \A b : \A t \in EdgesOf(succs', b) :
            Arrives(t)' \/ \E c : t \in EdgesOf(succs, c)
  PROVE  ArriveInv'
<1>1. \A t : Arrives(t) => Arrives(t)'
  BY DEF Arrives
<1> QED
  BY <1>1 DEF ArriveInv

(* Every step keeps it so.                                                  *)
LEMMA ArriveKept == ScannerInv /\ ShapeInv /\ ArriveInv /\ [Next]_vars => ArriveInv'
<1> SUFFICES ASSUME ScannerInv, ShapeInv, ArriveInv, [Next]_vars PROVE ArriveInv'
  OBVIOUS
<1>0. blockStarts \subseteq blockStarts'
  BY ShapeKept DEF ShapeStep
<1>1. CASE StartSeed
  <2>1. JobsStay /\ succs' = succs
    BY <1>1, SeedIsHired DEF JobsStay, StartSeed, scanVars
  <2> QED
    BY <1>0, <2>1, ArriveStep DEF JobsStay
<1>2. CASE TakeJob \/ FallIntoBlock
  <2>1. PICK a : a = Head(Me.jobs).addr
    OBVIOUS
  <2>2. /\ running # None /\ Me.jobs # <<>> /\ JobTaken /\ running' = running
        /\ succs' = EdgeFromCaller(Head(Me.jobs))
        /\ ListTypes
        /\ a \in blockStarts'
    BY <1>2, <2>1 DEF TakeJob, FallIntoBlock, Free, AtWork, ScannerInv
  <2>3. \A w, j : HasJob(w, j) => HasJob(w, j)' \/ j.addr = a
    BY <2>1, <2>2, JobTakenIs
  <2>4. \A b : EdgesOf(succs', b) \subseteq EdgesOf(succs, b) \cup {a}
    BY <2>1, <2>2, CallerEdge
  <2> QED
    BY <1>0, <2>2, <2>3, <2>4, ArriveStep DEF Arrives
<1>3. CASE DropJob
  <2>1. PICK a : a = Head(Me.jobs).addr
    OBVIOUS
  <2>2. /\ running # None /\ Me.jobs # <<>> /\ JobTaken /\ running' = running
        /\ succs' = succs
        /\ ListTypes
        /\ a \in blockStarts'
    BY <1>0, <1>3, <2>1 DEF DropJob, Free, AtWork, ScannerInv, scanVars
  <2>3. \A w, j : HasJob(w, j) => HasJob(w, j)' \/ j.addr = a
    BY <2>1, <2>2, JobTakenIs
  <2> QED
    BY <1>0, <2>2, <2>3, ArriveStep
<1>4. CASE ReadInstruction
  <2>1. JobsStay
    BY <1>4, WorkersSame DEF ReadInstruction, workerVars, JobsCome, JobsStay
  <2>2. PICK i : Read(i) /\ (ReadOn(i) \/ ReadLast(i) \/ CutAtPadding(i) \/ ReadInvalid(i))
    BY <1>4 DEF ReadInstruction, Read
  <2>3. CASE CutAtPadding(i)
    <3>1. PICK b, n, e, g : /\ b = current.start /\ n = current.addr
                            /\ e = succs /\ g = succs'
      OBVIOUS
    <3>2. g = WithEdge(e, b, n) /\ n \in blockStarts'
      BY <2>3, <3>1 DEF CutAtPadding
    <3>3. EdgeMap(e) /\ n \in 1 .. Beyond
      BY <2>2, <3>1, ParsingIs DEF Read, ShapeInv, EdgesFit
    <3>4. /\ EdgesOf(g, b) = EdgesOf(e, b) \cup {n}
          /\ \A x : x # b => EdgesOf(g, x) = EdgesOf(e, x)
      BY <3>2, <3>3, WithEdgeEdges
    <3>5. \A x : EdgesOf(g, x) \subseteq EdgesOf(e, x) \cup {n}
      BY <3>4
    <3> QED
      BY <1>0, <2>1, <3>1, <3>2, <3>5, ArriveStep DEF Arrives, JobsStay
  <2>4. CASE ReadOn(i) \/ ReadLast(i) \/ ReadInvalid(i)
    <3>1. succs' = succs
      BY <2>4 DEF ReadOn, ReadLast, ReadInvalid, BadBlock
    <3> QED
      BY <1>0, <2>1, <3>1, ArriveStep DEF JobsStay
  <2> QED
    BY <2>2, <2>3, <2>4
<1>5. CASE EndJumps \/ EndReturn \/ EndCallReturning
  <2>1. /\ JobsCome(running, {Job(x, None) : x \in NewEdges})
        /\ \A b : EdgesOf(succs', b) \subseteq EdgesOf(succs, b) \cup NewEdges
    BY <1>5, EndJobs, EndEdges
  <2>2. \A w, j : HasJob(w, j) => HasJob(w, j)'
    BY <2>1 DEF JobsCome
  <2>3. ASSUME NEW t \in NewEdges PROVE Arrives(t)'
    <3>1. PICK w, j : w = running /\ j = Job(t, None)
      OBVIOUS
    <3>2. HasJob(w, j)'
      BY <2>1, <3>1 DEF JobsCome
    <3> QED
      BY <3>1, <3>2 DEF Arrives, Job
  <2> QED
    BY <1>0, <2>1, <2>2, <2>3, ArriveStep
<1>6. CASE EndCallUnknown
  <2>1. JobsStay /\ succs' = succs
    BY <1>6, CallIsNoted DEF JobsStay, EndCallUnknown
  <2> QED
    BY <1>0, <2>1, ArriveStep DEF JobsStay
<1>7. CASE ResumeWorker
  <2>1. JobsStay /\ succs' = succs
    BY <1>7, CallIsResumed
    DEF JobsStay, JobsCome, ResumeWorker, ResumeSuspended, ResumeActive, scanVars
  <2> QED
    BY <1>0, <2>1, ArriveStep DEF JobsStay
<1>8. CASE RunNext \/ Complete \/ FallOff \/ EndIsShared \/ UNCHANGED vars
  <2>1. workers' = workers /\ succs' = succs
    BY <1>8 DEF RunNext, Complete, FallOff, BadBlock, EndIsShared, vars, scanVars, workerVars
  <2>2. JobsStay
    BY <2>1, WorkersSame DEF JobsCome, JobsStay
  <2> QED
    BY <1>0, <2>1, <2>2, ArriveStep DEF JobsStay
<1>9. CASE SplitBlockEndingAt /\ UNCHANGED <<workerVars, current>>
  <2>1. EdgesLead
    BY <1>9, SplitShape
  <2>2. JobsStay
    BY <1>9, WorkersSame DEF workerVars, JobsCome, JobsStay
  <2> QED
    BY <1>0, <2>1, <2>2, ArriveStep DEF EdgesLead, Arrives, JobsStay
<1> QED
  BY <1>1, <1>2, <1>3, <1>4, <1>5, <1>6, <1>7, <1>8, <1>9 DEF Next, HandleBlockEnd

(* EdgesArrive: when the scan has ended every edge leads from a block to a  *)
(* block.                                                                   *)
THEOREM EdgesLeadToBlocks == Spec => []EdgesArrive
<1>1. Init => ArriveInv
  <2>1. DOMAIN <<>> = {}
    BY EmptySeq, LenProperties
  <2> QED
    BY <2>1 DEF Init, ScanInit, ArriveInv, EdgesOf
<1>2. ASSUME ScannerInv, ShapeInv, ArriveInv PROVE EdgesArrive
  <2> SUFFICES ASSUME Done, NEW b \in DOMAIN succs
               PROVE  b \in DOMAIN blocks /\ Edges(b) \subseteq DOMAIN blocks
    BY DEF EdgesArrive
  <2>1. b \in DOMAIN blocks /\ StartsFit /\ ListTypes /\ NoWorkerLost
    BY <1>2 DEF ShapeInv, EdgesFit, ScannerInv
  <2>2. blockStarts = DOMAIN blocks
    BY <1>2, <2>1 DEF StartsFit, ScannerInv, CurrentIsNew, Done
  <2>3. ASSUME NEW w, NEW j, HasJob(w, j) PROVE FALSE
    <3>1. w \in DOMAIN workers /\ workers[w].jobs \in Seq(Jobs)
      BY <2>1, <2>3, PartsTyped DEF HasJob
    <3>2. workers[w].jobs # <<>>
      BY <2>3, <3>1, Emptiness DEF HasJob
    <3>3. w \in {active[p] : p \in DOMAIN active}
      BY <2>1, <3>1, <3>2 DEF NoWorkerLost
    <3>4. w \in ToSet(wl) \cup (IF running = None THEN {} ELSE {running})
      BY <2>1, <3>3 DEF NoWorkerLost
    <3>5. ToSet(wl) = {} /\ running = None
      BY EmptyToSet DEF Done
    <3> QED
      BY <3>4, <3>5
  <2>4. \A t \in EdgesOf(succs, b) : t \in DOMAIN blocks
    BY <1>2, <2>2, <2>3 DEF ArriveInv, Arrives
  <2> QED
    BY <2>1, <2>4 DEF Edges, EdgesOf
<1> QED
  BY <1>1, <1>2, ArriveKept, ShapeInvariant, PTL DEF Spec

-------------------------------------------------------------------------------
(* The returns that are reported. *)

Reach(p) == Closure(p, FlowTo)

(* Control that gets to an address gets on from there. *)
ReachesOn ==
    /\ \A p \in 1 .. Beyond : p \in Reach(p)
    /\ \A p : \A x \in Reach(p) : \A y \in FlowTo(x) \cap (1 .. Beyond) : y \in Reach(p)

(* That is so in every state.                                               *)
LEMMA ReachOn == ReachesOn
<1>1. \A p \in 1 .. Beyond : p \in Reach(p)
  BY DEF Reach, Closure
<1>2. ASSUME NEW p, NEW x \in Reach(p), NEW y \in FlowTo(x) \cap (1 .. Beyond)
      PROVE  y \in Reach(p)
  <2> SUFFICES ASSUME NEW S \in SUBSET (1 .. Beyond), p \in S,
                      \A a \in S : FlowTo(a) \subseteq S
               PROVE  y \in S
    BY DEF Reach, Closure
  <2>1. x \in S
    BY DEF Reach, Closure
  <2> QED
    BY <2>1
<1> QED
  BY <1>1, <1>2 DEF ReachesOn

(* What can be reached can be reached when more was read.                   *)
LEMMA ReachGrows ==
  ASSUME CodeGrows, NEW p
  PROVE  Reach(p) \subseteq Reach(p)'
<1>1. \A a : FlowTo(a) \subseteq FlowTo(a)'
  <2> SUFFICES ASSUME NEW a, a \in DOMAIN code PROVE FlowTo(a)' = FlowTo(a)
    BY DEF FlowTo
  <2>1. a \in DOMAIN code' /\ code'[a] = code[a]
    BY DEF CodeGrows
  <2> QED
    BY <2>1 DEF FlowTo, After
<1> SUFFICES ASSUME NEW x \in Reach(p), NEW S \in SUBSET (1 .. Beyond), p \in S,
                    \A a \in S : FlowTo(a)' \subseteq S
             PROVE  x \in 1 .. Beyond /\ x \in S
  BY DEF Reach, Closure
<1>2. \A a \in S : FlowTo(a) \subseteq S
  BY <1>1
<1> QED
  BY <1>2 DEF Reach, Closure

(* There is a call that is reached from p right before a. *)
BehindCall(p, a) ==
    \E c \in Reach(p) \cap DOMAIN code : code[c].op = "call" /\ After(c) = a

JobReached(p, j) ==
    /\ j.addr \in Reach(p)
    /\ j.caller # None => BehindCall(p, j.addr)

NoteReached(n) ==
    /\ n.worker \in DOMAIN workers
    /\ BehindCall(workers[n.worker].proc, n.fall)

ReturnReached(p) ==
    \E a \in Reach(p) \cap DOMAIN code :
       \/ code[a].op = "return"
       \/ code[a].op = "call" /\ After(a) \in blockStarts

CurrentReached(p) ==
    /\ \A i \in DOMAIN current.instrs : current.instrs[i] \in Reach(p)
    /\ ~current.ended => current.addr \in Reach(p)

(* Workers work where control gets to from their procedures.                *)
ReachInv ==
    /\ \A w, j : HasJob(w, j) => JobReached(workers[w].proc, j)
    /\ \A w, n : HasNote(w, n) => NoteReached(n)
    /\ current # NoBlock => CurrentReached(Me.proc)
    /\ \A p \in returning : ReturnReached(p)

(* Nothing of this is taken back.                                           *)
LEMMA ReachedStays ==
  ASSUME CodeGrows, blockStarts \subseteq blockStarts', WorkersStay
  PROVE  /\ \A p, a : BehindCall(p, a) => BehindCall(p, a)'
         /\ \A p, j : JobReached(p, j) => JobReached(p, j)'
         /\ \A n : NoteReached(n) => NoteReached(n)'
         /\ \A p : ReturnReached(p) => ReturnReached(p)'
<1>1. \A p : Reach(p) \subseteq Reach(p)'
  BY ReachGrows
<1>2. \A p, a : BehindCall(p, a) => BehindCall(p, a)'
  BY <1>1 DEF BehindCall, CodeGrows, After
<1>3. \A p : ReturnReached(p) => ReturnReached(p)'
  BY <1>1 DEF ReturnReached, CodeGrows, After
<1>4. \A p, j : JobReached(p, j) => JobReached(p, j)'
  BY <1>1, <1>2 DEF JobReached
<1>5. \A n : NoteReached(n) => NoteReached(n)'
  BY <1>2 DEF NoteReached, WorkersStay
<1> QED
  BY <1>2, <1>3, <1>4, <1>5

(* So it is enough to look at what comes.                                   *)
LEMMA ReachStep ==
  ASSUME ReachInv, CodeGrows, blockStarts \subseteq blockStarts', WorkersStay,
         \A w, j : HasJob(w, j)' => HasJob(w, j) \/ JobReached(workers[w].proc, j)',
         \A w, n : HasNote(w, n)' => HasNote(w, n) \/ NoteReached(n)',
         current' # NoBlock => CurrentReached(Me.proc)',
         \A p \in returning' : p \in returning \/ ReturnReached(p)'
  PROVE  ReachInv'
<1>1. /\ \A p, j : JobReached(p, j) => JobReached(p, j)'
      /\ \A n : NoteReached(n) => NoteReached(n)'
      /\ \A p : ReturnReached(p) => ReturnReached(p)'
  BY ReachedStays
<1>2. ASSUME NEW w, NEW j, HasJob(w, j)' PROVE JobReached(workers[w].proc, j)'
  <2>1. CASE HasJob(w, j)
    <3>1. PICK p : p = workers[w].proc
      OBVIOUS
    <3>2. workers'[w].proc = p
      BY <2>1, <3>1 DEF HasJob, WorkersStay
    <3>3. JobReached(p, j)
      BY <2>1, <3>1 DEF ReachInv
    <3>4. JobReached(p, j)'
      BY <1>1, <3>3
    <3> QED
      BY <3>2, <3>4
  <2> QED
    BY <1>2, <2>1
<1>3. \A w, n : HasNote(w, n)' => NoteReached(n)'
  BY <1>1 DEF ReachInv
<1>4. \A p \in returning' : ReturnReached(p)'
  BY <1>1 DEF ReachInv
<1> QED
  BY <1>2, <1>3, <1>4 DEF ReachInv

(* Steps that leave the parser without a block and report no return.        *)
LEMMA ReachQuiet ==
  ASSUME ReachInv, CodeGrows, blockStarts \subseteq blockStarts', NotesAndCallsStay,
         \A w, j : HasJob(w, j)' => HasJob(w, j) \/ JobReached(workers[w].proc, j)',
         current' = NoBlock, returning' = returning
  PROVE  ReachInv'
BY ReachStep DEF NotesAndCallsStay

(* A worker starts where its procedure does.                                *)
LEMMA FirstReached ==
  ASSUME ScannerInv', NEW w, NEW j, HasJob(w, j)', FirstJob(w, j)'
  PROVE  JobReached(workers[w].proc, j)'
<1>1. PICK p : p = workers'[w].proc
  OBVIOUS
<1>2. p \in Addresses /\ w \in DOMAIN workers'
  <2>1. ListTypes'
    BY DEF ScannerInv
  <2>2. workers' \in Seq(Records) /\ w \in DOMAIN workers'
    BY <2>1 DEF ListTypes, HasJob
  <2>3. workers'[w] \in Records
    BY <2>2, ElementOfSeq, LenProperties
  <2> QED
    BY <1>1, <2>2, <2>3 DEF Records
<1>3. ReachesOn'
  BY ReachOn, PTL
<1>4. p \in 1 .. Beyond
  BY <1>2, ScannerAssumption DEF Addresses, Beyond
<1>5. p \in Reach(p)'
  BY <1>3, <1>4 DEF ReachesOn
<1>6. j.addr = p /\ j.caller = None
  BY <1>1 DEF FirstJob
<1>7. JobReached(p, j)'
  BY <1>5, <1>6 DEF JobReached
<1> QED
  BY <1>1, <1>7

(* The parser follows control.                                              *)
LEMMA ParsingReach ==
  ASSUME ScannerInv, ShapeInv, ReachInv, ReadInstruction \/ FallOff
  PROVE  ReachInv'
<1>1. CodeGrows /\ blockStarts \subseteq blockStarts'
  BY ParsingShape DEF ShapeStep
<1>2. /\ UNCHANGED <<workers, running, returning>>
      /\ NotesAndCallsStay
      /\ \A w, j : HasJob(w, j)' => HasJob(w, j)
      /\ Parsing
  BY WorkersSame DEF ReadInstruction, FallOff, workerVars, JobsCome
<1>3. ASSUME current' # NoBlock PROVE CurrentReached(Me.proc)'
  <2>1. ReadInstruction
    BY <1>3 DEF FallOff, BadBlock
  <2>2. PICK i : Read(i) /\ (ReadOn(i) \/ ReadLast(i) \/ CutAtPadding(i))
    BY <1>3, <2>1 DEF ReadInstruction, Read, ReadInvalid, BadBlock
  <2>3. PICK s, n, b, p, t : /\ s = current.instrs /\ n = current.addr
                             /\ b = current.start /\ p = Me.proc /\ t = Append(s, n)
    OBVIOUS
  <2>4. Me.proc' = p
    BY <1>2, <2>3 DEF Me
  <2>5. /\ current # NoBlock /\ ~current.ended /\ s \in Seq(Addresses)
        /\ current = [start |-> b, addr |-> n, instrs |-> s, ended |-> FALSE]
        /\ n \in Addresses
        /\ CodeFits' /\ n \in DOMAIN code' /\ code'[n] = i
        /\ After(n)' = n + i.length
    BY <1>2, <2>2, <2>3, ParsingIs, ReadIs DEF Chain
  <2>6. n \in Reach(p)' /\ \A k \in DOMAIN s : s[k] \in Reach(p)'
    <3>1. CurrentReached(p)
      BY <2>3, <2>5 DEF ReachInv
    <3>2. n \in Reach(p) /\ \A k \in DOMAIN s : s[k] \in Reach(p)
      BY <2>3, <2>5, <3>1 DEF CurrentReached
    <3> QED
      BY <1>1, <3>2, ReachGrows
  <2>7. \A k \in DOMAIN t : t[k] \in Reach(p)'
    <3>1. /\ DOMAIN t = DOMAIN s \cup {Len(s) + 1}
          /\ \A k \in DOMAIN s : t[k] = s[k]
          /\ t[Len(s) + 1] = n
      BY <2>3, <2>5, Appended
    <3> QED
      BY <2>6, <3>1
  <2>8. CASE ReadOn(i)
    <3>1. /\ current' = [current EXCEPT !.addr = n + i.length, !.instrs = t]
          /\ i.op \in {"linear", "padding"}
      BY <2>3, <2>8 DEF ReadOn
    <3>2. current' = [start |-> b, addr |-> n + i.length, instrs |-> t, ended |-> FALSE]
      BY <2>5, <3>1
    <3>3. FlowTo(n)' = {n + i.length}
      BY <2>5, <3>1 DEF FlowTo
    <3>5. (CodeFits => \A a \in DOMAIN code : After(a) \in 1 .. Beyond)'
      BY <2>5, ScannerAssumption
      DEF CodeFits, After, InstructionsAt, Addresses, Beyond, Lengths
    <3>6. n + i.length \in 1 .. Beyond
      BY <2>5, <3>5
    <3>7. ReachesOn'
      BY ReachOn, PTL
    <3>8. n + i.length \in Reach(p)'
      BY <2>6, <3>3, <3>6, <3>7 DEF ReachesOn
    <3> QED
      BY <2>4, <2>7, <3>2, <3>8 DEF CurrentReached
  <2>9. CASE ReadLast(i)
    <3>1. current' = [start |-> b, addr |-> n, instrs |-> t, ended |-> TRUE]
      BY <2>3, <2>5, <2>9 DEF ReadLast
    <3> QED
      BY <2>4, <2>7, <3>1 DEF CurrentReached
  <2>10. CASE CutAtPadding(i)
    <3>1. \/ current' = [start |-> b, addr |-> n, instrs |-> s, ended |-> TRUE]
          \/ current' = [start |-> n, addr |-> n, instrs |-> <<>>, ended |-> FALSE]
      <4>1. \/ current' = [current EXCEPT !.ended = TRUE]
            \/ current' = [current EXCEPT !.start = n, !.instrs = <<>>]
        BY <2>3, <2>10 DEF CutAtPadding
      <4> QED
        BY <2>5, <4>1
    <3>2. DOMAIN <<>> = {}
      BY EmptySeq, LenProperties
    <3> QED
      BY <2>4, <2>6, <3>1, <3>2 DEF CurrentReached
  <2> QED
    BY <2>2, <2>8, <2>9, <2>10
<1> QED
  BY <1>1, <1>2, <1>3, ReachStep DEF NotesAndCallsStay

(* Where the last instruction leads, and what it says of a return.          *)
LEMMA EndReached ==
  ASSUME ScannerInv, ShapeInv, ReachInv, Ended
  PROVE  /\ EndAddr \in Reach(Me.proc)
         /\ EndAddr \in DOMAIN code
         /\ LastOp = code[EndAddr].op
         /\ LastOp = "call" => /\ Fall \in Reach(Me.proc)
                               /\ BehindCall(Me.proc, Fall)
         /\ LastOp \notin {"call", "return"} => ToSet(EdgesTo) \subseteq Reach(Me.proc)
<1>1. PICK a, p, s : a = EndAddr /\ p = Me.proc /\ s = current.instrs
  OBVIOUS
<1>2. /\ current # NoBlock /\ IsBlock(s) /\ a = Last(s) /\ a \in DOMAIN code
      /\ current.ended /\ ParserTypes
  BY <1>1, EndedIs DEF Ended, ScannerInv
<1>3. a \in Reach(p)
  <2>1. CurrentReached(p)
    BY <1>1, <1>2 DEF ReachInv
  <2> QED
    BY <1>1, <1>2, <2>1, BlockEnds DEF CurrentReached
<1>4. RunsOn(a) \/ Stops(a)
  BY <1>2 DEF IsBlock
<1>5. /\ Fall \in 1 .. Beyond
      /\ LastOp \in {"goto", "branch", "call"} => code[a].to \in Addresses
  BY <1>1, <1>2, EndLeads
<1>6. Addresses \subseteq 1 .. Beyond
  BY ScannerAssumption DEF Addresses, Beyond
<1>7. \A y \in FlowTo(a) \cap (1 .. Beyond) : y \in Reach(p)
  BY <1>3, ReachOn DEF ReachesOn
<1>8. LastOp = code[a].op /\ Fall = After(a)
  BY <1>1 DEF LastOp, Fall
<1>9. LastOp = "call" => Fall \in Reach(p) /\ BehindCall(p, Fall)
  BY <1>2, <1>3, <1>5, <1>7, <1>8 DEF FlowTo, BehindCall
<1>10. ASSUME LastOp \notin {"call", "return"} PROVE ToSet(EdgesTo) \subseteq Reach(p)
  <2>1. CASE LastOp = "branch"
    <3>1. EdgesTo = <<Fall, code[a].to>>
      BY <1>1, <2>1 DEF EdgesTo
    <3>2. ToSet(EdgesTo) = {Fall, code[a].to}
      BY <3>1 DEF ToSet
    <3>3. FlowTo(a) = {Fall, code[a].to}
      BY <1>2, <1>8, <2>1 DEF FlowTo
    <3> QED
      BY <1>5, <1>6, <1>7, <2>1, <3>2, <3>3
  <2>2. CASE LastOp = "goto"
    <3>1. EdgesTo = <<code[a].to>>
      BY <1>1, <2>2 DEF EdgesTo
    <3>2. ToSet(EdgesTo) = {code[a].to}
      BY <3>1 DEF ToSet
    <3>3. FlowTo(a) = {code[a].to}
      BY <1>2, <1>8, <2>2 DEF FlowTo
    <3> QED
      BY <1>5, <1>6, <1>7, <2>2, <3>2, <3>3
  <2>3. CASE LastOp = "halt"
    BY <2>3, EmptyToSet DEF EdgesTo
  <2>4. CASE LastOp \notin {"branch", "goto", "halt"}
    <3>1. EdgesTo = <<Fall>>
      BY <2>4 DEF EdgesTo
    <3>2. ToSet(EdgesTo) = {Fall}
      BY <3>1 DEF ToSet
    <3>3. FlowTo(a) = {Fall}
      BY <1>2, <1>4, <1>8, <1>10, <2>4 DEF FlowTo, RunsOn, Stops
    <3> QED
      BY <1>5, <1>7, <3>2, <3>3
  <2> QED
    BY <2>1, <2>2, <2>3, <2>4
<1> QED
  BY <1>1, <1>2, <1>3, <1>8, <1>9, <1>10

(* How a block ends.                                                        *)
LEMMA EndReach ==
  ASSUME ScannerInv, ShapeInv, ReachInv, ScannerInv', HandleBlockEnd
  PROVE  ReachInv'
<1>1. /\ Ended
      /\ current' = NoBlock
      /\ UNCHANGED <<code, blockStarts, running>>
  BY DEF HandleBlockEnd, EndIsShared, EndJumps, EndReturn, EndCallReturning,
         EndCallUnknown, workerVars
<1>2. CodeGrows /\ blockStarts \subseteq blockStarts'
  BY <1>1 DEF CodeGrows
<1>3. PICK r, p, f, a : r = running /\ p = Me.proc /\ f = Fall /\ a = EndAddr
  OBVIOUS
<1>4. /\ a \in Reach(p)
      /\ a \in DOMAIN code
      /\ LastOp = code[a].op
      /\ LastOp = "call" => f \in Reach(p) /\ BehindCall(p, f)
      /\ LastOp \notin {"call", "return"} => ToSet(EdgesTo) \subseteq Reach(p)
      /\ r \in DOMAIN workers
      /\ p = workers[r].proc
  BY <1>1, <1>3, EndReached, EndedIs, PartsTyped DEF ScannerInv, Me
<1>5. CASE EndIsShared
  <2>1. workers' = workers /\ returning' = returning
    BY <1>5 DEF EndIsShared, workerVars
  <2> QED
    BY <1>1, <1>2, <2>1, WorkersSame, ReachQuiet DEF JobsCome
<1>6. CASE EndJumps \/ EndReturn \/ EndCallReturning
  <2>1. NotesAndCallsStay /\ JobsCome(r, {Job(x, None) : x \in NewEdges})
    BY <1>3, <1>6, EndJobs
  <2>2. NewEdges \subseteq Reach(p)
    BY <1>3, <1>4, <1>6 DEF NewEdges, EndJumps, EndCallReturning
  <2>3. NewEdges \subseteq Reach(p)'
    BY <1>2, <2>2, ReachGrows
  <2>4. workers'[r].proc = p
    BY <1>4, <2>1 DEF NotesAndCallsStay, WorkersStay
  <2>5. ASSUME NEW w, NEW j, HasJob(w, j)', ~HasJob(w, j)
        PROVE  JobReached(workers[w].proc, j)'
    <3>1. w = r /\ j.caller = None /\ j.addr \in NewEdges
      BY <2>1, <2>5 DEF JobsCome, Job
    <3>2. JobReached(p, j)'
      BY <2>3, <3>1 DEF JobReached
    <3> QED
      BY <2>4, <3>1, <3>2
  <2>6. CASE EndReturn
    <3>1. returning' = returning \cup {p} /\ LastOp = "return"
      BY <1>3, <2>6 DEF EndReturn, ProcessReturn
    <3>2. ReturnReached(p)
      BY <1>4, <3>1 DEF ReturnReached
    <3>3. ReturnReached(p)'
      BY <1>2, <2>1, <3>2, ReachedStays DEF NotesAndCallsStay
    <3> QED
      BY <1>1, <1>2, <2>1, <2>5, <3>1, <3>3, ReachStep DEF NotesAndCallsStay
  <2>7. CASE ~EndReturn
    <3>1. returning' = returning
      BY <1>6, <2>7 DEF EndJumps, EndCallReturning
    <3> QED
      BY <1>1, <1>2, <2>1, <2>5, <3>1, ReachQuiet
  <2> QED
    BY <2>6, <2>7
<1>7. CASE EndCallUnknown
  <2>1. /\ WorkersStay
        /\ \A v, j : HasJob(v, j)' => HasJob(v, j) \/ FirstJob(v, j)'
        /\ \A v, n : HasNote(v, n)' => HasNote(v, n) \/ (n.worker = r /\ n.fall = f)
    BY <1>3, <1>7, CallIsNoted
  <2>2. LastOp = "call" /\ returning' = returning
    BY <1>7 DEF EndCallUnknown
  <2>3. BehindCall(p, f)'
    BY <1>2, <1>4, <2>1, <2>2, ReachedStays
  <2>4. r \in DOMAIN workers' /\ workers'[r].proc = p
    BY <1>4, <2>1 DEF WorkersStay
  <2>5. \A v, n : HasNote(v, n)' => HasNote(v, n) \/ NoteReached(n)'
    BY <2>1, <2>3, <2>4 DEF NoteReached
  <2>6. \A v, j : HasJob(v, j)' => HasJob(v, j) \/ JobReached(workers[v].proc, j)'
    BY <2>1, FirstReached
  <2> QED
    BY <1>1, <1>2, <2>1, <2>2, <2>5, <2>6, ReachStep
<1> QED
  BY <1>5, <1>6, <1>7 DEF HandleBlockEnd

(* Every step keeps it so.                                                  *)
LEMMA ReachKept ==
  ScannerInv /\ ShapeInv /\ ReachInv /\ [Next]_vars /\ ScannerInv' => ReachInv'
<1> SUFFICES ASSUME ScannerInv, ShapeInv, ReachInv, [Next]_vars, ScannerInv'
             PROVE  ReachInv'
  OBVIOUS
<1>0. /\ CodeGrows
      /\ blockStarts \subseteq blockStarts'
      /\ ListTypes
      /\ current # NoBlock => running # None /\ ~resuming
  BY ShapeKept DEF ShapeStep, ScannerInv, CurrentIsNew
<1>1. CASE StartSeed
  <2>1. /\ NotesAndCallsStay
        /\ \A v, j : HasJob(v, j)' => HasJob(v, j) \/ FirstJob(v, j)'
        /\ current' = NoBlock
        /\ returning' = returning
    BY <1>0, <1>1, SeedIsHired DEF StartSeed
  <2>2. \A v, j : HasJob(v, j)' => HasJob(v, j) \/ JobReached(workers[v].proc, j)'
    BY <2>1, FirstReached
  <2> QED
    BY <1>0, <2>1, <2>2, ReachQuiet
<1>2. CASE RunNext \/ Complete
  <2>1. workers' = workers /\ current' = NoBlock /\ returning' = returning
    BY <1>0, <1>2 DEF RunNext, Complete, Free
  <2> QED
    BY <1>0, <2>1, WorkersSame, ReachQuiet DEF JobsCome
<1>3. CASE TakeJob \/ DropJob \/ FallIntoBlock
  <2>1. PICK r, p, j : r = running /\ p = Me.proc /\ j = Head(Me.jobs)
    OBVIOUS
  <2>2. running # None /\ Me.jobs # <<>> /\ JobTaken /\ running' = running /\ r \in DOMAIN workers
    BY <1>0, <1>3, <2>1, PartsTyped DEF TakeJob, DropJob, FallIntoBlock, Free, AtWork
  <2>3. /\ NotesAndCallsStay
        /\ HasJob(r, j)
        /\ \A v, x : HasJob(v, x)' => HasJob(v, x)
    BY <1>0, <2>1, <2>2, JobTakenIs
  <2>4. JobReached(p, j) /\ workers'[r].proc = p
    BY <2>1, <2>2, <2>3 DEF ReachInv, Me, NotesAndCallsStay, WorkersStay
  <2>5. JobReached(p, j)'
    BY <1>0, <2>3, <2>4, ReachedStays DEF NotesAndCallsStay
  <2>6. CASE TakeJob
    <3>1. /\ current' = [start |-> j.addr, addr |-> j.addr, instrs |-> <<>>,
                         ended |-> FALSE]
          /\ returning' = returning
      BY <2>1, <2>6 DEF TakeJob
    <3>2. DOMAIN <<>> = {}
      BY EmptySeq, LenProperties
    <3>3. Me.proc' = p
      BY <2>1, <2>2, <2>4 DEF Me
    <3>4. CurrentReached(p)'
      BY <2>5, <3>1, <3>2 DEF CurrentReached, JobReached
    <3> QED
      BY <1>0, <2>3, <3>1, <3>3, <3>4, ReachStep DEF NotesAndCallsStay
  <2>7. CASE DropJob
    <3>1. current' = NoBlock /\ returning' = returning
      BY <2>7 DEF DropJob, Free
    <3> QED
      BY <1>0, <2>3, <3>1, ReachQuiet
  <2>8. CASE FallIntoBlock
    <3>1. /\ current' = NoBlock
          /\ returning' = returning \cup {p}
          /\ j.caller # None
          /\ j.addr \in blockStarts
      BY <2>1, <2>8 DEF FallIntoBlock, ProcessReturn, Free
    <3>2. ReturnReached(p)
      BY <2>4, <3>1 DEF JobReached, BehindCall, ReturnReached
    <3>3. ReturnReached(p)'
      BY <1>0, <2>3, <3>2, ReachedStays DEF NotesAndCallsStay
    <3> QED
      BY <1>0, <2>3, <3>1, <3>3, ReachStep DEF NotesAndCallsStay
  <2> QED
    BY <1>3, <2>6, <2>7, <2>8
<1>4. CASE ReadInstruction \/ FallOff
  BY <1>4, ParsingReach
<1>5. CASE HandleBlockEnd
  BY <1>5, EndReach
<1>6. CASE ResumeWorker
  <2>1. PICK n, j : /\ HasNote(running, n)
                    /\ JobsCome(n.worker, {j})
                    /\ j = Job(n.fall, n.call)
    BY <1>6, CallIsResumed
  <2>2. NotesAndCallsStay
    BY <1>6, CallIsResumed
  <2>3. current' = NoBlock /\ returning' = returning /\ code' = code
    BY <1>0, <1>6 DEF ResumeWorker, ResumeSuspended, ResumeActive, NextCaller, scanVars
  <2>4. PICK p : p = workers[n.worker].proc
    OBVIOUS
  <2>5. n.worker \in DOMAIN workers /\ BehindCall(p, n.fall)
    BY <2>1, <2>4 DEF ReachInv, NoteReached
  <2>6. n.fall \in Reach(p)
    <3>1. PICK c \in Reach(p) \cap DOMAIN code : code[c].op = "call" /\ After(c) = n.fall
      BY <2>5 DEF BehindCall
    <3>2. n.fall \in FlowTo(c)
      BY <3>1 DEF FlowTo
    <3>3. n.fall \in 1 .. Beyond
      BY <3>1, AfterFits DEF ShapeInv, BlocksFit
    <3> QED
      BY <3>1, <3>2, <3>3, ReachOn DEF ReachesOn
  <2>7. JobReached(p, j)
    BY <2>1, <2>5, <2>6 DEF JobReached, Job
  <2>8. JobReached(p, j)'
    BY <1>0, <2>2, <2>7, ReachedStays DEF NotesAndCallsStay
  <2>9. workers'[n.worker].proc = p
    BY <2>2, <2>4, <2>5 DEF NotesAndCallsStay, WorkersStay
  <2>10. \A v, x : HasJob(v, x)' => HasJob(v, x) \/ JobReached(workers[v].proc, x)'
    BY <2>1, <2>8, <2>9 DEF JobsCome
  <2> QED
    BY <1>0, <2>2, <2>3, <2>10, ReachQuiet
<1>7. CASE SplitBlockEndingAt /\ UNCHANGED <<workerVars, current>>
  <2>1. workers' = workers /\ returning' = returning
    BY <1>7 DEF workerVars
  <2>2. current' = NoBlock
    BY <1>7 DEF SplitBlockEndingAt, SplitSelf, SplitTail, SplitB, SplitA, SplitFails,
         Splitting, NoSplit, ShapeInv, SplitAlone
  <2> QED
    BY <1>0, <2>1, <2>2, WorkersSame, ReachQuiet DEF JobsCome
<1>8. CASE UNCHANGED vars
  <2>1. workers' = workers /\ returning' = returning /\ current' = current /\ Me' = Me /\ code' = code
    BY <1>8 DEF vars, scanVars, workerVars, Me
  <2>2. current' # NoBlock => CurrentReached(Me.proc)'
    BY <2>1 DEF ReachInv, CurrentReached, Reach, Closure, FlowTo, After
  <2> QED
    BY <1>0, <2>1, <2>2, WorkersSame, ReachStep DEF JobsCome, NotesAndCallsStay
<1> QED
  BY <1>1, <1>2, <1>3, <1>4, <1>5, <1>6, <1>7, <1>8 DEF Next

(* ReturnsReached: a procedure is only said to return if a return can be    *)
(* reached from its entry, or a call with a block behind it.                *)
THEOREM ReturnsAreReached == Spec => []ReturnsReached
<1>1. Init => ReachInv
  <2>1. DOMAIN <<>> = {}
    BY EmptySeq, LenProperties
  <2> QED
    BY <2>1 DEF Init, ScanInit, ReachInv, HasJob, HasNote
<1>2. ReachInv => ReturnsReached
  BY DEF ReachInv, ReturnReached, ReturnsReached, Reach
<1> QED
  BY <1>1, <1>2, ReachKept, ShapeInvariant, InitInv, InvStep, PTL DEF Spec

-------------------------------------------------------------------------------
(* Aligned code. *)

(* What is read later does not align what was read before.                  *)
LEMMA AlignedBefore ==
  ASSUME CodeGrows
  PROVE  /\ Aligned' => Aligned
         /\ Plain' => Plain
<1>1. \A a \in DOMAIN code : /\ a \in DOMAIN code'
                             /\ code'[a] = code[a]
                             /\ After(a)' = After(a)
  BY DEF CodeGrows, After
<1>2. Aligned' => Aligned
  BY <1>1 DEF Aligned
<1>3. Plain' => Plain
  BY <1>1, <1>2 DEF Plain
<1> QED
  BY <1>2, <1>3

(* Only one instruction leads to the one behind it.                         *)
LEMMA OneBefore ==
  ASSUME CodeFits, Aligned, NEW a \in DOMAIN code, NEW b \in DOMAIN code,
         After(a) = After(b)
  PROVE  a = b
<1>1. /\ a \in Nat /\ b \in Nat
      /\ a < After(a) /\ b < After(b)
      /\ After(a) \in Nat
  BY AfterFits
<1>2. /\ a < b => After(a) <= b
      /\ b < a => After(b) <= a
  BY DEF Aligned
<1> QED
  BY <1>1, <1>2

(* A chain whose last instruction is outside of blocks that are closed is   *)
(* outside of them.                                                         *)
LEMMA ChainOutside ==
  ASSUME NEW S, Closed(S), NEW s, IsBlock(s),
         \A c \in S : Last(s) \notin Body(c)
  PROVE  \A c \in S : ToSet(s) \cap Body(c) = {}
<1> DEFINE In(x) == \E c \in S : x \in Body(c)
           T == {i \in 1 .. Len(s) : In(s[i])}
<1>1. /\ Len(s) \in Nat
      /\ DOMAIN s = 1 .. Len(s)
      /\ Last(s) = s[Len(s)]
  BY BlockEnds
<1>2. ASSUME T # {} PROVE FALSE
  <2>1. PICK m \in T : \A i \in T : i <= m
    <3>1. T \in SUBSET (0 .. Len(s))
      BY <1>1
    <3> QED
      BY <1>1, <1>2, <3>1, GreatestExists
  <2>2. PICK c \in S : s[m] \in Body(c)
    BY <2>1
  <2>3. m # Len(s) /\ m \in 1 .. Len(s) /\ Len(s) \in Nat
    BY <1>1, <2>1, <2>2
  <2>4. m \in 1 .. Len(s) - 1 /\ m + 1 \in 1 .. Len(s) /\ ~(m + 1 <= m)
    BY <2>3
  <2>5. RunsOn(s[m]) /\ s[m + 1] = After(s[m]) /\ ~Boundary(s[m], s[m + 1])
    BY <2>4 DEF IsBlock, Chain
  <2>6. In(s[m + 1])
    BY <2>2, <2>5, FlowsOn, StartInBody
  <2> QED
    BY <2>1, <2>4, <2>6
<1> QED
  BY <1>1, <1>2 DEF ToSet

-------------------------------------------------------------------------------
(* The blocks that are registered under their ends. *)

Reg == {blockEnds[e] : e \in DOMAIN blockEnds}

(* They end there, share no address, and fall into one another.             *)
RegBlocks ==
    /\ \A e \in DOMAIN blockEnds : LastOf(blockEnds[e]) = e
    /\ \A b, c \in Reg : b # c => Body(b) \cap Body(c) = {}
    /\ \A b \in Reg : Falls(Instrs(b), Reg)

(* The parser is at work on another one, that falls into none.              *)
RegCurrent ==
    /\ current # NoBlock => current.start \notin Reg
    /\ current.ended => Falls(current.instrs, {})

(* So is the loop that splits blocks: it has one thing to do.               *)
RegSplit ==
    split # NoSplit =>
        /\ split.outer \notin Reg
        /\ split.queue = <<[instrs |-> Instrs(split.outer), end |-> LastOf(split.outer)]>>
        /\ Falls(Instrs(split.outer), Reg)

RegFits == RegBlocks /\ RegCurrent /\ RegSplit /\ thrown = Nothing

Registered == Aligned => RegFits

(* They are valid and closed.                                               *)
LEMMA RegClosed ==
  ASSUME BlocksFit, EndsFit, RegBlocks
  PROVE  Reg \subseteq ValidBlocks /\ Closed(Reg)
<1>1. Reg \subseteq ValidBlocks
  BY DEF Reg, EndsFit
<1> QED
  BY <1>1 DEF RegBlocks, BlocksFit, Closed

(* An address has one of them at most.                                      *)
LEMMA OneRegistered ==
  ASSUME RegBlocks, NEW b \in Reg, NEW c \in Reg, NEW x, x \in Body(b), x \in Body(c)
  PROVE  b = c
BY DEF RegBlocks

(* The end of a registered block is where it is registered.                 *)
LEMMA RegEnd ==
  ASSUME RegBlocks, NEW c \in Reg
  PROVE  LastOf(c) \in DOMAIN blockEnds /\ blockEnds[LastOf(c)] = c
<1>1. PICK e \in DOMAIN blockEnds : blockEnds[e] = c
  BY DEF Reg
<1>2. LastOf(c) = e
  BY <1>1 DEF RegBlocks
<1> QED
  BY <1>1, <1>2

(* Nothing changes about them in a step that leaves them and the ends alone.*)
LEMMA RegKept ==
  ASSUME BlocksFit, EndsFit, RegBlocks, CodeGrows, blockEnds' = blockEnds,
         \A b \in Reg : blocks'[b] = blocks[b]
  PROVE  /\ RegBlocks'
         /\ Reg' = Reg
         /\ \A s, S : IsBlock(s) /\ Falls(s, S) => Falls(s, S)'
<1>1. Reg' = Reg
  BY DEF Reg
<1>2. Reg \subseteq ValidBlocks /\ CodeFits
  BY RegClosed DEF BlocksFit
<1>3. \A b \in Reg : blocks'[b].instrs = blocks[b].instrs
  BY <1>2
<1>4. \A s, S : IsBlock(s) /\ Falls(s, S) => Falls(s, S)'
  BY <1>2, BlockKept
<1>5. \A e \in DOMAIN blockEnds' : LastOf(blockEnds[e])' = e
  BY <1>3 DEF RegBlocks, LastOf, Reg
<1>6. \A b, c \in Reg : b # c => ToSet(blocks'[b].instrs) \cap ToSet(blocks'[c].instrs) = {}
  BY <1>3 DEF RegBlocks, Body, Instrs
<1>7. ASSUME NEW b \in Reg PROVE Falls(Instrs(b), Reg)'
  <2>1. PICK s, S : s = Instrs(b) /\ S = Reg
    OBVIOUS
  <2>2. IsBlock(s) /\ Falls(s, S)
    BY <1>2, <2>1 DEF RegBlocks, BlocksFit
  <2>3. Falls(s, S)'
    BY <1>4, <2>2
  <2>4. Instrs(b)' = s /\ Reg' = S
    BY <1>1, <1>3, <2>1 DEF Instrs
  <2> QED
    BY <2>3, <2>4 DEF Falls, Stops, After, Boundary
<1>8. RegBlocks'
  BY <1>1, <1>5, <1>6, <1>7 DEF RegBlocks, Body, Instrs
<1> QED
  BY <1>1, <1>4, <1>8

(* Only the loop that splits blocks changes one that is there.              *)
LEMMA BlocksStay ==
  ASSUME ScannerInv, ShapeInv, [Next]_vars,
         ~(SplitBlockEndingAt /\ UNCHANGED <<workerVars, current>>)
  PROVE  \A b \in DOMAIN blocks : b \in DOMAIN blocks' /\ blocks'[b] = blocks[b]
<1>1. CASE ReadInstruction \/ FallOff
  <2>1. current.start \notin DOMAIN blocks
    BY <1>1, ParsingIs DEF ReadInstruction, FallOff
  <2>2. blocks' = blocks \/ \E v : blocks' = Set(blocks, current.start, v)
    BY <1>1 DEF ReadInstruction, FallOff, ReadOn, ReadLast, CutAtPadding, ReadInvalid,
       BadBlock
  <2> QED
    BY <2>1, <2>2 DEF Set
<1>2. CASE ~(ReadInstruction \/ FallOff)
  BY <1>2
  DEF Next, StartSeed, RunNext, Complete, TakeJob, DropJob, FallIntoBlock,
      HandleBlockEnd, EndIsShared, EndJumps, EndReturn, EndCallReturning,
      EndCallUnknown, ResumeWorker, ResumeSuspended, ResumeActive, scanVars, vars
<1> QED
  BY <1>1, <1>2

(* Registered blocks during such a step that registers no end.              *)
LEMMA RegStays ==
  ASSUME ScannerInv, ShapeInv, RegFits, [Next]_vars,
         ~(SplitBlockEndingAt /\ UNCHANGED <<workerVars, current>>),
         blockEnds' = blockEnds
  PROVE  /\ RegBlocks'
         /\ Reg' = Reg
         /\ Reg \subseteq ValidBlocks
         /\ \A s, S : IsBlock(s) /\ Falls(s, S) => Falls(s, S)'
<1>1. /\ BlocksFit /\ EndsFit /\ RegBlocks
      /\ CodeGrows
  BY ShapeKept DEF ShapeInv, RegFits, ShapeStep
<1>2. \A b \in ValidBlocks : blocks'[b] = blocks[b]
  BY BlocksStay DEF ValidBlocks
<1> QED
  BY <1>1, <1>2, RegKept, RegClosed

(* Nothing the parser has to do with.                                       *)
LEMMA RegQuiet ==
  ASSUME ScannerInv, ShapeInv, RegFits, NothingMissing',
         \/ StartSeed \/ RunNext \/ Complete \/ DropJob \/ FallIntoBlock
         \/ ResumeWorker \/ UNCHANGED vars
  PROVE  RegFits'
<1>1. UNCHANGED <<code, blockEnds, blocks, split, current>>
  BY DEF StartSeed, RunNext, Complete, DropJob, FallIntoBlock, ResumeWorker,
         ResumeSuspended, ResumeActive, scanVars, vars
<1>2. thrown' = Nothing
  <2>1. CASE ResumeActive
    BY <2>1 DEF ResumeActive, NothingMissing, RegFits
  <2>2. CASE ~ResumeActive
    BY <2>2
    DEF StartSeed, RunNext, Complete, DropJob, FallIntoBlock, ResumeWorker,
        ResumeSuspended, scanVars, vars, RegFits
  <2> QED
    BY <2>1, <2>2
<1>3. RegBlocks' /\ Reg' = Reg
  <2>1. CodeGrows
    BY <1>1 DEF CodeGrows
  <2> QED
    BY <1>1, <2>1, RegKept DEF RegFits, ShapeInv
<1>4. RegCurrent' /\ RegSplit'
  BY <1>1, <1>3
  DEF RegFits, RegCurrent, RegSplit, Falls, Stops, After, Boundary, Instrs, LastOf
<1> QED
  BY <1>2, <1>3, <1>4 DEF RegFits

(* A job is taken where there is no block, so none that is registered.      *)
LEMMA RegJob ==
  ASSUME ScannerInv, ShapeInv, RegFits, TakeJob
  PROVE  RegFits'
<1>1. UNCHANGED <<code, blockEnds, blocks, split, thrown>> /\ split = NoSplit
  BY DEF TakeJob, Free, AtWork
<1>2. RegBlocks' /\ Reg' = Reg /\ Reg \subseteq ValidBlocks
  <2>1. CodeGrows
    BY <1>1 DEF CodeGrows
  <2> QED
    BY <1>1, <2>1, RegKept, RegClosed DEF RegFits, ShapeInv
<1>3. current'.start \notin blockStarts /\ ~current'.ended
  BY DEF TakeJob
<1>4. current'.start \notin Reg
  BY <1>2, <1>3 DEF ShapeInv, StartsFit, ValidBlocks
<1> QED
  BY <1>1, <1>2, <1>3, <1>4 DEF RegFits, RegCurrent, RegSplit

(* What the parser completes is not registered yet.                         *)
LEMMA RegParse ==
  ASSUME ScannerInv, ShapeInv, RegFits, ReadInstruction \/ FallOff
  PROVE  RegFits'
<1>1. /\ Parsing
      /\ UNCHANGED <<blockEnds, split, thrown>>
      /\ split = NoSplit
  BY DEF ReadInstruction, FallOff, Parsing, AtWork
<1>2. RegBlocks' /\ Reg' = Reg /\ Reg \subseteq ValidBlocks
  <2>1. ~(SplitBlockEndingAt /\ UNCHANGED <<workerVars, current>>)
    BY <1>1 DEF SplitBlockEndingAt, SplitSelf, SplitTail, SplitB, SplitA, SplitFails,
       Splitting, NoSplit
  <2> QED
    BY <1>1, <2>1, RegStays DEF Next
<1>3. RegCurrent'
  <2>1. CASE current' = NoBlock
    BY <2>1 DEF RegCurrent, NoBlock
  <2>2. CASE current' # NoBlock
    <3>1. PICK i : Read(i) /\ (ReadOn(i) \/ ReadLast(i) \/ CutAtPadding(i))
      BY <2>2 DEF ReadInstruction, FallOff, Read, ReadInvalid, BadBlock
    <3>2. PICK s, n, t, b : /\ s = current.instrs /\ n = current.addr
                            /\ t = Append(s, n) /\ b = current.start
      OBVIOUS
    <3>3. /\ current # NoBlock
          /\ blockStarts = DOMAIN blocks \cup {b}
          /\ current = [start |-> b, addr |-> n, instrs |-> s, ended |-> FALSE]
          /\ code'[n] = i
      BY <1>1, <3>1, <3>2, ParsingIs, ReadIs
    <3>4. b \notin Reg
      BY <3>2, <3>3 DEF RegFits, RegCurrent
    <3>5. CASE ReadOn(i)
      <4>1. current' = [current EXCEPT !.addr = n + i.length, !.instrs = t]
        BY <3>2, <3>5 DEF ReadOn
      <4>2. current'.start = b /\ ~current'.ended
        BY <3>3, <4>1
      <4> QED
        BY <1>2, <3>4, <4>2 DEF RegCurrent
    <3>6. CASE ReadLast(i)
      <4>1. current' = [current EXCEPT !.instrs = t, !.ended = TRUE]
        BY <3>2, <3>6 DEF ReadLast
      <4>2. current'.start = b /\ current'.instrs = t
        BY <3>3, <4>1
      <4>3. ~IsPaddingBoundary(i) /\ i.op \in Transfers \cup {"halt"}
        BY <3>6 DEF ReadLast
      <4>4. Last(t) = n
        BY <3>1, <3>2, <4>3, ReadChain
      <4>5. Falls(t, {})'
        BY <3>3, <4>3, <4>4 DEF Falls, Stops, Transfers
      <4> QED
        BY <1>2, <3>4, <4>2, <4>5 DEF RegCurrent, Falls, Stops, After, Boundary
    <3>7. CASE CutAtPadding(i)
      <4>1. s # <<>> /\ IsPaddingBoundary(i)
        BY <3>2, <3>7 DEF CutAtPadding, IsPaddingBoundary
      <4>2. After(Last(s))' = n /\ Boundary(Last(s), n)'
        BY <3>1, <3>2, <4>1, ReadLeads
      <4>3. Falls(s, {})'
        BY <4>2 DEF Falls, After, Boundary
      <4>4. CASE n \in blockStarts
        <5>1. current' = [current EXCEPT !.ended = TRUE]
          BY <3>2, <3>7, <4>4 DEF CutAtPadding
        <5>2. current'.start = b /\ current'.instrs = s
          BY <3>3, <5>1
        <5> QED
          BY <1>2, <3>4, <4>3, <5>2 DEF RegCurrent, Falls, Stops, After, Boundary
      <4>5. CASE n \notin blockStarts
        <5>1. current' = [current EXCEPT !.start = n, !.instrs = <<>>]
          BY <3>2, <3>7, <4>5 DEF CutAtPadding
        <5>2. current'.start = n /\ ~current'.ended
          BY <3>3, <5>1
        <5>3. n \notin Reg
          BY <1>2, <3>3, <4>5 DEF ValidBlocks
        <5> QED
          BY <1>2, <5>2, <5>3 DEF RegCurrent
      <4> QED
        BY <4>4, <4>5
    <3> QED
      BY <3>1, <3>5, <3>6, <3>7
  <2> QED
    BY <2>1, <2>2
<1> QED
  BY <1>1, <1>2, <1>3 DEF RegFits, RegSplit

(* A block that ends where another one does goes on the queue.              *)
LEMMA RegShared ==
  ASSUME ScannerInv, ShapeInv, RegFits, EndIsShared
  PROVE  RegFits'
<1>1. /\ Ended /\ current.ended
      /\ UNCHANGED <<code, blockEnds, blocks, thrown>>
      /\ current' = NoBlock
      /\ split' = [outer |-> current.start,
                   queue |-> <<[instrs |-> current.instrs, end |-> EndAddr]>>]
  BY DEF EndIsShared, Ended
<1>2. RegBlocks' /\ Reg' = Reg
  <2>1. CodeGrows
    BY <1>1 DEF CodeGrows
  <2> QED
    BY <1>1, <2>1, RegKept DEF RegFits, ShapeInv
<1>3. RegCurrent'
  BY <1>1 DEF RegCurrent, NoBlock
<1>4. PICK b, s : b = current.start /\ s = current.instrs
  OBVIOUS
<1>5. /\ Instrs(b) = s
      /\ EndAddr = LastOf(b)
      /\ b \notin Reg
      /\ Falls(s, {})
  BY <1>1, <1>4, EndedIs DEF RegFits, RegCurrent
<1>6. Falls(s, Reg)
  BY <1>5, FallsIntoMore
<1>7. /\ split'.outer = b
      /\ split'.queue = <<[instrs |-> Instrs(b), end |-> LastOf(b)]>>
  BY <1>1, <1>4, <1>5
<1>8. RegSplit'
  BY <1>1, <1>2, <1>5, <1>6, <1>7
  DEF RegSplit, Falls, Stops, After, Boundary, Instrs, LastOf
<1> QED
  BY <1>1, <1>2, <1>3, <1>8 DEF RegFits

(* The end of a block that ends where no registered one does is in none.    *)
LEMMA EndIsOutside ==
  ASSUME BlocksFit, EndsFit, RegBlocks, NEW s, IsBlock(s), NEW c \in Reg,
         Falls(s, {}), Last(s) \notin DOMAIN blockEnds
  PROVE  Last(s) \notin Body(c)
<1> SUFFICES ASSUME Last(s) \in Body(c) PROVE FALSE
  OBVIOUS
<1>1. Closed(Reg)
  BY RegClosed
<1>2. Last(s) # LastOf(c)
  BY RegEnd
<1>3. IsBlock(Instrs(c)) /\ Last(Instrs(c)) = LastOf(c)
  BY <1>1 DEF Closed, Instrs, LastOf
<1>4. PICK t : t = Instrs(c)
  OBVIOUS
<1>5. /\ Len(t) \in Nat
      /\ Last(t) = t[Len(t)]
      /\ \E i \in 1 .. Len(t) : t[i] = Last(s)
  BY <1>3, <1>4, BlockEnds, InBlock DEF Body
<1>6. PICK i \in 1 .. Len(t) : t[i] = Last(s)
  BY <1>5
<1>7. i \in 1 .. Len(t) - 1
  BY <1>2, <1>3, <1>4, <1>5, <1>6
<1>8. /\ RunsOn(Last(s))
      /\ ~Boundary(Last(s), After(Last(s)))
  BY <1>3, <1>4, <1>6, <1>7 DEF IsBlock, Chain
<1> QED
  BY <1>8 DEF Falls, RunsOn, Stops

(* A block s from b is registered that no other shares an address with.     *)
LEMMA RegAdds ==
  ASSUME RegBlocks, NEW b, b \notin Reg, NEW s, NEW e,
         blocks'[b].instrs = s, e = Last(s), e \notin DOMAIN blockEnds,
         Falls(s, Reg), \A c \in Reg : ToSet(s) \cap Body(c) = {},
         blockEnds' = Set(blockEnds, e, b), code' = code,
         \A c \in Reg : blocks'[c] = blocks[c]
  PROVE  /\ RegBlocks'
         /\ Reg' = Reg \cup {b}
<1>1. /\ DOMAIN blockEnds' = DOMAIN blockEnds \cup {e}
      /\ blockEnds'[e] = b
      /\ \A x \in DOMAIN blockEnds : blockEnds'[x] = blockEnds[x]
  BY DEF Set
<1>2. Reg' = Reg \cup {b}
  BY <1>1 DEF Reg
<1>3. \A x \in DOMAIN blockEnds' : Last(blocks'[blockEnds'[x]].instrs) = x
  BY <1>1 DEF RegBlocks, LastOf, Reg
<1>4. PICK R : R = Reg \cup {b}
  OBVIOUS
<1>5. \A c, d \in R : c # d => ToSet(blocks'[c].instrs) \cap ToSet(blocks'[d].instrs) = {}
  BY <1>4 DEF RegBlocks, Body, Instrs
<1>6. \A c \in Reg : Falls(blocks[c].instrs, R) /\ blocks'[c].instrs = blocks[c].instrs
  BY <1>4, FallsIntoMore DEF RegBlocks, Instrs
<1>7. Falls(s, R)
  BY <1>4, FallsIntoMore
<1>8. \A c \in R : Falls(blocks'[c].instrs, R)
  BY <1>4, <1>6, <1>7
<1>9. RegBlocks'
  BY <1>2, <1>3, <1>4, <1>5, <1>8
  DEF RegBlocks, LastOf, Body, Instrs, Falls, Stops, After, Boundary
<1> QED
  BY <1>2, <1>9

(* The end of a block is registered.                                        *)
LEMMA RegEndStep ==
  ASSUME ScannerInv, ShapeInv, RegFits,
         EndJumps \/ EndReturn \/ EndCallReturning \/ EndCallUnknown
  PROVE  RegFits' /\ Reg' = Reg \cup {current.start}
<1>1. /\ Ended /\ current.ended
      /\ EndAddr \notin DOMAIN blockEnds
      /\ blockEnds' = Set(blockEnds, EndAddr, current.start)
      /\ UNCHANGED <<code, blocks, split, thrown>>
      /\ current' = NoBlock
  BY DEF EndJumps, EndReturn, EndCallReturning, EndCallUnknown, Ended, EndIsNew,
         RegisterEnd
<1>2. /\ split = NoSplit
      /\ current.start \in ValidBlocks
      /\ Instrs(current.start) = current.instrs
      /\ IsBlock(current.instrs)
      /\ EndAddr = Last(current.instrs)
      /\ EndAddr = LastOf(current.start)
  BY <1>1, EndedIs
<1>3. /\ BlocksFit /\ EndsFit /\ RegBlocks
      /\ Falls(current.instrs, {})
  BY <1>1 DEF ShapeInv, RegFits, RegCurrent
<1>4. PICK b, s, e : b = current.start /\ s = current.instrs /\ e = EndAddr
  OBVIOUS
<1>5. \A c \in Reg : Last(s) \notin Body(c)
  BY <1>1, <1>2, <1>3, <1>4, EndIsOutside
<1>6. \A c \in Reg : ToSet(s) \cap Body(c) = {}
  BY <1>2, <1>3, <1>4, <1>5, RegClosed, ChainOutside
<1>7. Falls(s, Reg) /\ blocks'[b].instrs = s /\ b \notin Reg
  BY <1>1, <1>2, <1>3, <1>4, FallsIntoMore DEF Instrs, RegFits, RegCurrent, NoBlock, Ended
<1>8. RegBlocks' /\ Reg' = Reg \cup {b}
  BY <1>1, <1>2, <1>3, <1>4, <1>6, <1>7, RegAdds
<1>9. RegCurrent' /\ RegSplit'
  BY <1>1, <1>2 DEF RegCurrent, RegSplit, NoBlock
<1> QED
  BY <1>1, <1>4, <1>8, <1>9 DEF RegFits

-------------------------------------------------------------------------------
(* Splitting aligned code. *)

(* A block reaches no further back than where it starts.                    *)
LEMMA NotBefore ==
  ASSUME NEW S, Closed(S), NEW c \in S, NEW x \in Body(c)
  PROVE  x \in Nat /\ c \in Nat /\ c <= x
<1>1. CodeFits
  BY DEF Closed
<1>2. PICK t : t = Instrs(c)
  OBVIOUS
<1>3. IsBlock(t) /\ Chain(t) /\ t[1] = c
  BY <1>2 DEF Closed, IsBlock
<1>4. 1 \in 1 .. Len(t) /\ Len(t) \in Nat
  BY <1>3, BlockEnds
<1>5. PICK i \in 1 .. Len(t) : t[i] = x
  BY <1>2, <1>3, InBlock DEF Body
<1>6. t[1] \in DOMAIN code /\ t[i] \in DOMAIN code
  BY <1>3, <1>4 DEF Chain
<1>7. t[1] \in Nat /\ t[i] \in Nat
  BY <1>1, <1>6, AfterFits
<1>8. CASE i = 1
  BY <1>3, <1>5, <1>7, <1>8
<1>9. CASE i # 1
  <2>1. 1 < i
    BY <1>4, <1>9
  <2>2. t[1] < t[i]
    BY <1>1, <1>3, <1>4, <2>1, ChainClimbs
  <2> QED
    BY <1>3, <1>5, <1>7, <2>2
<1> QED
  BY <1>8, <1>9

(* What the loop works with: block b that was parsed last, and block a that *)
(* is registered under the same end.                                        *)
LEMMA AtRegSplit ==
  ASSUME ShapeInv, RegFits, Splitting, NEW a, a = AddrA, NEW b, b = AddrB
  PROVE  /\ AllFit
         /\ split = [outer |-> b, queue |-> split.queue]
         /\ Tail(split.queue) = <<>>
         /\ a \in Reg
         /\ b \notin Reg
         /\ b \in ValidBlocks
         /\ b \in DOMAIN blocks
         /\ blocks[b] = Valid(BlockB)
         /\ IsBlock(BlockB)
         /\ BlockB[1] = b
         /\ BlockB = Instrs(b)
         /\ Falls(BlockB, Reg)
         /\ End = Last(BlockB)
         /\ End \in DOMAIN blockEnds
         /\ blockEnds[End] = a
         /\ LastOf(a) = End
         /\ BlockA = Instrs(a)
         /\ IsBlock(BlockA)
         /\ BlockA[1] = a
<1>1. BlocksFit /\ EndsFit /\ SplitFits /\ EdgesFit /\ RegBlocks
  BY DEF ShapeInv, RegFits
<1>2. /\ split # NoSplit
      /\ b \in ValidBlocks
      /\ a \in ValidBlocks
      /\ End \in DOMAIN blockEnds
      /\ End = Last(BlockB)
      /\ BlockA = Instrs(a)
      /\ IsBlock(BlockA)
      /\ BlockA[1] = a
      /\ IsBlock(BlockB)
  BY <1>1, AtSplit
<1>3. /\ b \notin Reg
      /\ split.queue = <<[instrs |-> Instrs(b), end |-> LastOf(b)]>>
      /\ Falls(Instrs(b), Reg)
  BY <1>2 DEF RegFits, RegSplit, AddrB
<1>4. BlockB = Instrs(b) /\ Tail(split.queue) = <<>>
  BY <1>3 DEF BlockB
<1>5. /\ b \in DOMAIN blocks
      /\ blocks[b] = Valid(BlockB)
      /\ BlockB[1] = b
  BY <1>1, <1>2, <1>4 DEF BlocksFit, ValidBlocks, Valid
<1>6. a \in Reg /\ blockEnds[End] = a /\ LastOf(a) = End
  BY <1>1, <1>2 DEF Reg, AddrA, RegBlocks
<1>7. AllFit
  BY <1>1, <1>2 DEF AllFit, ShapeInv, StartsFit, SplitAlone
<1>8. split = [outer |-> b, queue |-> split.queue]
  BY <1>1, <1>2 DEF SplitFits, AddrB
<1> QED
  BY <1>2, <1>3, <1>4, <1>5, <1>6, <1>7, <1>8

(* Both blocks have a tail in common, and one of them is it.                *)
LEMMA OneIsTail ==
  ASSUME ShapeInv, RegFits, Aligned, SplitBlockEndingAt
  PROVE  SplitA \/ SplitB
<1>1. Splitting
  BY DEF SplitBlockEndingAt, SplitSelf, SplitTail, SplitB, SplitA, SplitFails
<1>2. PICK a, b, t, s, n, m : /\ a = AddrA /\ b = AddrB /\ t = BlockA
                              /\ s = BlockB /\ n = IndexA /\ m = IndexB
  OBVIOUS
<1>3. /\ AllFit
      /\ a \in Reg /\ b \notin Reg
      /\ IsBlock(s) /\ s[1] = b
      /\ IsBlock(t) /\ t[1] = a
      /\ LastOf(a) = End
  BY <1>1, <1>2, AtRegSplit
<1>4. PICK k : k = Shared(BlockA, BlockB)
  OBVIOUS
<1>5. /\ n \in 0 .. Len(t) /\ m \in 0 .. Len(s)
      /\ Len(t) \in Nat /\ Len(s) \in Nat
      /\ k = Len(t) - n /\ k = Len(s) - m
      /\ \A j \in 1 .. k : t[n + j] = s[m + j]
      /\ n > 0 /\ m > 0 => t[n] # s[m]
      /\ k > 0
  BY <1>1, <1>2, <1>3, <1>4, PartsAt DEF AllFit
<1>6. 1 \in 1 .. k
  BY <1>5
<1>7. ~SplitSelf
  BY <1>2, <1>3 DEF SplitSelf
<1>8. ASSUME n > 0, m > 0 PROVE FALSE
  <2>1. n \in 1 .. Len(t) - 1 /\ m \in 1 .. Len(s) - 1
    BY <1>5, <1>8
  <2>2. n \in 1 .. Len(t) /\ m \in 1 .. Len(s)
    BY <1>5, <1>8
  <2>3. t[n + 1] = s[m + 1]
    BY <1>5, <1>6
  <2>4. t[n + 1] = After(t[n]) /\ s[m + 1] = After(s[m])
    BY <1>3, <2>1 DEF IsBlock, Chain
  <2>5. t[n] \in DOMAIN code /\ s[m] \in DOMAIN code
    BY <1>3, <2>2 DEF IsBlock, Chain
  <2>6. t[n] = s[m]
    <3>1. CodeFits /\ After(t[n]) = After(s[m])
      BY <1>3, <2>3, <2>4 DEF AllFit, BlocksFit
    <3> QED
      BY <2>5, <3>1, OneBefore
  <2> QED
    BY <1>5, <1>8, <2>6
<1>9. ASSUME n = 0, m = 0 PROVE FALSE
  <2>1. t[0 + 1] = s[0 + 1]
    BY <1>5, <1>6, <1>9
  <2> QED
    BY <1>3, <2>1
<1>10. ~SplitTail
  BY <1>2, <1>8 DEF SplitTail
<1>11. ~SplitFails
  BY <1>2, <1>4, <1>5, <1>8, <1>9 DEF SplitFails
<1> QED
  BY <1>7, <1>10, <1>11 DEF SplitBlockEndingAt

(* What is left of the block that was parsed runs into the registered one:  *)
(* it is registered in turn, or goes on the queue again.                    *)
LEMMA RegSplitB ==
  ASSUME ShapeInv, RegFits, SplitB, current' = current
  PROVE  /\ RegFits'
         /\ Reg \subseteq Reg'
         /\ AddrB \in Reg' \/ (split' # NoSplit /\ split'.outer = AddrB)
<1>1. Splitting
  BY DEF SplitB
<1>2. PICK a, b, s, m : a = AddrA /\ b = AddrB /\ s = BlockB /\ m = IndexB
  OBVIOUS
<1>3. /\ AllFit
      /\ split = [outer |-> b, queue |-> split.queue]
      /\ Tail(split.queue) = <<>>
      /\ a \in Reg
      /\ b \notin Reg
      /\ b \in DOMAIN blocks
      /\ blocks[b] = Valid(s)
      /\ IsBlock(s)
      /\ s[1] = b
  BY <1>1, <1>2, AtRegSplit
<1>4. PICK a1, s1, m1 : SplitsB(a1, s1, m1)
  BY <1>3, SplitBIs
<1>5. PICK t : t = Chop(s, m)
  OBVIOUS
<1>6. /\ m \in 1 .. Len(s) - 1
      /\ s[m + 1] = a
      /\ DOMAIN blocks' = DOMAIN blocks
      /\ blocks'[b] = Valid(t)
      /\ \A x \in DOMAIN blocks : x # b => blocks'[x] = blocks[x]
      /\ RegisterChoppedEnd(blockEnds, t)
      /\ code' = code /\ thrown' = thrown
  BY <1>2, <1>3, <1>4, <1>5 DEF SplitsB
<1>7. /\ IsBlock(t)
      /\ Last(t) = s[m]
      /\ RunsOn(s[m])
      /\ After(s[m]) = a
      /\ ~Boundary(s[m], a)
      /\ s[m] \in DOMAIN code
  <2>1. /\ IsBlock(t)
        /\ Last(t) = s[m]
        /\ RunsOn(s[m])
        /\ After(s[m]) = s[m + 1]
        /\ m \in 1 .. Len(s)
    BY <1>3, <1>5, <1>6, ChopIs
  <2>2. ~Boundary(s[m], s[m + 1]) /\ s[m] \in DOMAIN code
    BY <1>3, <1>6, <2>1 DEF IsBlock, Chain
  <2> QED
    BY <1>6, <2>1, <2>2
<1>8. Falls(t, Reg)
  BY <1>3, <1>7 DEF Falls
<1>9. /\ BlocksFit /\ EndsFit /\ RegBlocks /\ CodeFits
      /\ CodeGrows
      /\ Reg \subseteq ValidBlocks
      /\ Closed(Reg)
  BY <1>6, RegClosed DEF ShapeInv, RegFits, CodeGrows, BlocksFit
<1>10. \A c \in Reg : blocks'[c] = blocks[c]
  BY <1>3, <1>6, <1>9 DEF ValidBlocks
<1>11. PICK ends : ends = blockEnds
  OBVIOUS
<1>12. /\ blockEnds' = TryAdd(ends, s[m], s[1])
       /\ \E queue :
             /\ DoneWith(queue)
             /\ queue = IF s[m] \in DOMAIN ends
                        THEN Append(Tail(split.queue), [instrs |-> t, end |-> s[m]])
                        ELSE Tail(split.queue)
       /\ [instrs |-> t, end |-> s[m]] \in Pairs
  <2>1. RegisterChoppedEnd(ends, t)
    BY <1>6, <1>11
  <2>2. IsBlock(s) /\ m \in 1 .. Len(s) - 1 /\ t = Chop(s, m)
    BY <1>3, <1>5, <1>6
  <2>3. blockEnds' = TryAdd(ends, s[m], s[1])
    BY <2>1, <2>2, ChoppedEnd
  <2>4. [instrs |-> t, end |-> s[m]] \in Pairs
    BY <2>1, <2>2, ChoppedEnd
  <2> QED
    BY <2>1, <2>2, <2>3, <2>4, ChoppedEnd
<1>13. RegCurrent' <=> RegCurrent \/ current = NoBlock
  <2>1. split # NoSplit /\ current = NoBlock
    BY <1>1 DEF ShapeInv, SplitAlone, Splitting, NoSplit
  <2> QED
    BY <2>1 DEF RegCurrent, NoBlock
<1>14. RegCurrent' /\ thrown' = Nothing
  BY <1>6, <1>13 DEF RegFits
<1>15. CASE s[m] \notin DOMAIN blockEnds
  <2>1. \A c \in Reg : s[m] \notin Body(c)
    <3> SUFFICES ASSUME NEW c \in Reg, s[m] \in Body(c) PROVE FALSE
      OBVIOUS
    <3>1. s[m] # LastOf(c)
      BY <1>9, <1>15, RegEnd
    <3>2. a \in Body(c)
      BY <1>7, <1>9, <3>1, FlowsOn
    <3>3. c = a
      BY <1>3, <1>9, <3>2, OneRegistered, StartInBody
    <3>4. s[m] \in Nat /\ a \in Nat /\ a <= s[m]
      BY <1>3, <1>9, <3>3, NotBefore
    <3>5. s[m] < a
      BY <1>7, <1>9, AfterFits
    <3> QED
      BY <3>4, <3>5
  <2>2. \A c \in Reg : ToSet(t) \cap Body(c) = {}
    BY <1>7, <1>9, <2>1, ChainOutside
  <2>3. blockEnds' = Set(blockEnds, s[m], b)
    BY <1>3, <1>11, <1>12, <1>15 DEF TryAdd
  <2>4. RegBlocks' /\ Reg' = Reg \cup {b}
    <3>1. blocks'[b].instrs = t
      BY <1>6 DEF Valid
    <3> QED
      BY <1>3, <1>6, <1>7, <1>8, <1>9, <1>10, <1>15, <2>2, <2>3, <3>1, RegAdds
  <2>5. split' = NoSplit
    BY <1>3, <1>11, <1>12, <1>15 DEF DoneWith
  <2> QED
    BY <1>2, <1>14, <2>4, <2>5 DEF RegFits, RegSplit
<1>16. CASE s[m] \in DOMAIN blockEnds
  <2>1. blockEnds' = blockEnds
    BY <1>11, <1>12, <1>16 DEF TryAdd
  <2>2. RegBlocks' /\ Reg' = Reg
    BY <1>9, <1>10, <2>1, RegKept
  <2>3. PICK queue : DoneWith(queue) /\ queue = <<[instrs |-> t, end |-> s[m]]>>
    <3>1. \A q : Append(<<>>, q) = <<q>>
      OBVIOUS
    <3> QED
      BY <1>3, <1>11, <1>12, <1>16, <3>1
  <2>4. split' = [outer |-> b, queue |-> <<[instrs |-> t, end |-> s[m]]>>]
    <3>1. queue # <<>>
      BY <2>3
    <3>2. split' = [split EXCEPT !.queue = queue]
      BY <2>3, <3>1 DEF DoneWith
    <3> QED
      BY <1>3, <2>3, <3>2
  <2>5. Instrs(b)' = t /\ LastOf(b)' = s[m]
    BY <1>6, <1>7 DEF Instrs, LastOf, Valid
  <2>6. RegSplit'
    <3>1. Falls(t, Reg)'
      BY <1>6, <1>8, <2>2 DEF Falls, Stops, After, Boundary
    <3>2. /\ split'.outer = b
          /\ split'.queue = <<[instrs |-> t, end |-> s[m]]>>
      BY <2>4
    <3> QED
      BY <1>3, <2>2, <2>5, <3>1, <3>2
      DEF RegSplit, Instrs, LastOf, Falls, Stops, After, Boundary
  <2>7. split' # NoSplit /\ split'.outer = b
    <3>1. <<[instrs |-> t, end |-> s[m]]>> # <<>>
      OBVIOUS
    <3> QED
      BY <2>4, <3>1 DEF NoSplit
  <2> QED
    BY <1>2, <1>14, <2>2, <2>6, <2>7 DEF RegFits
<1> QED
  BY <1>15, <1>16

(* The front of a registered block that is split is registered under its    *)
(* last instruction, and the rest under the old end.                        *)
LEMMA RegSplitA ==
  ASSUME ShapeInv, RegFits, SplitA, current' = current
  PROVE  /\ RegFits'
         /\ Reg \subseteq Reg'
         /\ AddrB \in Reg'
<1>1. Splitting
  BY DEF SplitA
<1>2. PICK a, b, t, s, n : /\ a = AddrA /\ b = AddrB /\ t = BlockA
                           /\ s = BlockB /\ n = IndexA
  OBVIOUS
<1>3. /\ AllFit
      /\ Tail(split.queue) = <<>>
      /\ a \in Reg
      /\ b \notin Reg
      /\ b \in DOMAIN blocks
      /\ blocks[b] = Valid(s)
      /\ IsBlock(s)
      /\ s[1] = b
      /\ Falls(s, Reg)
      /\ End = Last(s)
      /\ End \in DOMAIN blockEnds
      /\ blockEnds[End] = a
      /\ LastOf(a) = End
      /\ t = Instrs(a)
      /\ IsBlock(t)
      /\ t[1] = a
  BY <1>1, <1>2, AtRegSplit
<1>4. PICK a1, t1, s1, n1 : SplitsA(a1, t1, s1, n1)
  BY <1>3, SplitAIs
<1>5. PICK c, e, ends : c = Chop(t, n) /\ e = End /\ ends = Set(blockEnds, e, b)
  OBVIOUS
<1>6. /\ n \in 1 .. Len(t) - 1
      /\ Len(t) = n + Len(s)
      /\ \A j \in 1 .. Len(s) : t[n + j] = s[j]
      /\ blocks'[a] = Valid(c)
      /\ \A x \in DOMAIN blocks : x # a => blocks'[x] = blocks[x]
      /\ code' = code /\ thrown' = thrown
  <2>1. a1 = a /\ t1 = t /\ s1 = s
    BY <1>2, <1>4 DEF SplitsA
  <2>2. /\ n1 \in 1 .. Len(t) - 1
        /\ Len(t) = n1 + Len(s)
        /\ \A j \in 1 .. Len(s) : t[n1 + j] = s[j]
        /\ blocks'[a] = Valid(Chop(t, n1))
        /\ \A x \in DOMAIN blocks : x # a => blocks'[x] = blocks[x]
        /\ code' = code /\ thrown' = thrown
    BY <1>4, <2>1 DEF SplitsA
  <2>3. n1 = n
    <3>1. n = Len(t) - Shared(t, s) /\ IndexB = Len(s) - Shared(t, s)
      BY <1>2 DEF IndexA, IndexB
    <3>2. IndexB = 0
      BY DEF SplitA
    <3>3. Len(t) \in Nat /\ Len(s) \in Nat /\ Shared(t, s) \in 0 .. Len(s)
      BY <1>3, BlockEnds, SharedIs
    <3> QED
      BY <2>2, <3>1, <3>2, <3>3
  <2> QED
    BY <1>5, <2>2, <2>3
<1>7. RegisterChoppedEnd(ends, c)
  <2>1. Head(BlockA) = a
    BY <1>2, <1>3, BlockEnds
  <2> QED
    BY <1>2, <1>5 DEF SplitA
<1>8. /\ IsBlock(c)
      /\ Last(c) = t[n]
      /\ After(t[n]) = b
      /\ \A i \in 1 .. n : c[i] = t[i]
      /\ Len(c) = n
      /\ n \in 1 .. Len(t)
  <2>1. 1 \in 1 .. Len(s)
    BY <1>3, BlockEnds
  <2>2. t[n + 1] = b
    BY <1>3, <1>6, <2>1
  <2>3. /\ IsBlock(c)
        /\ Last(c) = t[n]
        /\ After(t[n]) = t[n + 1]
        /\ \A i \in 1 .. n : c[i] = t[i]
        /\ Len(c) = n
        /\ n \in 1 .. Len(t)
    BY <1>3, <1>5, <1>6, ChopIs
  <2> QED
    BY <2>2, <2>3
<1>9. /\ BlocksFit /\ EndsFit /\ RegBlocks /\ CodeFits
      /\ Reg \subseteq ValidBlocks
      /\ Closed(Reg)
      /\ a # b
  BY <1>3, RegClosed DEF ShapeInv, RegFits, BlocksFit
<1>10. /\ \A x \in Reg : x # a => blocks'[x] = blocks[x]
       /\ blocks'[b] = blocks[b]
  BY <1>3, <1>6, <1>9 DEF ValidBlocks
<1>11. t[n] \notin DOMAIN blockEnds /\ t[n] # e
  <2>1. t[n] \in Body(a)
    BY <1>3, <1>8, InBlock DEF Body
  <2>2. t[n] # LastOf(a)
    <3>1. /\ Len(t) \in 1 .. Len(t)
          /\ LastOf(a) = t[Len(t)]
          /\ Len(t) \in Nat
      BY <1>3, BlockEnds DEF LastOf, Instrs
    <3>2. n # Len(t)
      BY <1>6, <3>1
    <3> QED
      BY <1>3, <1>8, <1>9, <3>1, <3>2, ChainInjective DEF IsBlock
  <2>3. ASSUME t[n] \in DOMAIN blockEnds PROVE FALSE
    <3>1. PICK d : d = blockEnds[t[n]]
      OBVIOUS
    <3>2. d \in Reg /\ LastOf(d) = t[n]
      BY <1>9, <2>3, <3>1 DEF Reg, RegBlocks
    <3>3. t[n] \in Body(d)
      BY <1>9, <3>2, StartInBody
    <3>4. d = a
      BY <1>3, <1>9, <2>1, <3>2, <3>3, OneRegistered
    <3> QED
      BY <2>2, <3>2, <3>4
  <2> QED
    BY <1>3, <1>5, <2>2, <2>3
<1>12. /\ DOMAIN ends = DOMAIN blockEnds
       /\ ends[e] = b
       /\ \A x \in DOMAIN blockEnds : x # e => ends[x] = blockEnds[x]
  BY <1>3, <1>5 DEF Set
<1>13. blockEnds' = TryAdd(ends, t[n], a) /\ split' = NoSplit
  <2>0. RegisterChoppedEnd(ends, c)
    BY <1>5, <1>7
  <2>0a. IsBlock(t) /\ n \in 1 .. Len(t) - 1 /\ c = Chop(t, n)
    BY <1>3, <1>5, <1>6
  <2>1. blockEnds' = TryAdd(ends, t[n], t[1])
    BY <2>0, <2>0a, ChoppedEnd
  <2>2. \E queue : /\ DoneWith(queue)
                   /\ queue = IF t[n] \in DOMAIN ends
                              THEN Append(Tail(split.queue),
                                          [instrs |-> c, end |-> t[n]])
                              ELSE Tail(split.queue)
    BY <2>0, <2>0a, ChoppedEnd
  <2>3. DoneWith(<<>>)
    BY <1>3, <1>11, <1>12, <2>2
  <2> QED
    BY <1>3, <2>1, <2>3 DEF DoneWith
<1>14. /\ DOMAIN blockEnds' = DOMAIN blockEnds \cup {t[n]}
       /\ blockEnds'[t[n]] = a
       /\ blockEnds'[e] = b
       /\ \A x \in DOMAIN blockEnds : x # e => blockEnds'[x] = blockEnds[x]
  BY <1>3, <1>5, <1>11, <1>12, <1>13 DEF TryAdd, Set
<1>15. Reg' = Reg \cup {b}
  <2>1. ASSUME NEW x \in DOMAIN blockEnds' PROVE blockEnds'[x] \in Reg \cup {b}
    BY <1>3, <1>14 DEF Reg
  <2>2. ASSUME NEW y \in Reg
        PROVE  \E x \in DOMAIN blockEnds' : blockEnds'[x] = y
    <3>1. PICK x \in DOMAIN blockEnds : blockEnds[x] = y
      BY DEF Reg
    <3> QED
      BY <1>3, <1>5, <1>14, <3>1
  <2>3. e \in DOMAIN blockEnds'
    BY <1>3, <1>5, <1>14
  <2> QED
    BY <1>14, <2>1, <2>2, <2>3 DEF Reg
<1>16. PICK R : R = Reg \cup {b}
  OBVIOUS
<1>17. \A x \in DOMAIN blockEnds' : Last(blocks'[blockEnds'[x]].instrs) = x
  <2> TAKE x \in DOMAIN blockEnds'
  <2>1. CASE x = t[n]
    BY <1>6, <1>8, <1>14, <2>1 DEF Valid
  <2>2. CASE x = e
    BY <1>3, <1>5, <1>10, <1>14, <2>2 DEF Valid
  <2>3. CASE x \in DOMAIN blockEnds /\ x # e
    <3>1. blockEnds'[x] = blockEnds[x] /\ LastOf(blockEnds[x]) = x
      BY <1>9, <1>14, <2>3 DEF RegBlocks
    <3>2. blockEnds[x] \in Reg /\ blockEnds[x] # a
      BY <1>3, <1>5, <2>3, <3>1 DEF Reg
    <3> QED
      BY <1>10, <3>1, <3>2 DEF LastOf
  <2> QED
    BY <1>14, <2>1, <2>2, <2>3
<1>18. /\ \A x : x \in ToSet(c) => x \in Body(a) /\ x \notin ToSet(s)
       /\ \A x : x \in ToSet(s) => x \in Body(a)
  <2>1. Len(t) \in Nat /\ Len(s) \in Nat /\ n \in Nat
    BY <1>3, <1>8, BlockEnds
  <2>2. ASSUME NEW j \in 1 .. Len(s) PROVE n + j \in 1 .. Len(t) /\ t[n + j] = s[j]
    BY <1>6, <2>1
  <2>3. ASSUME NEW x, x \in ToSet(s) PROVE x \in Body(a)
    <3>1. PICK j \in 1 .. Len(s) : s[j] = x
      BY <1>3, <2>3, InBlock
    <3> QED
      BY <1>3, <2>2, <3>1, InBlock DEF Body
  <2>4. ASSUME NEW x, x \in ToSet(c) PROVE x \in Body(a) /\ x \notin ToSet(s)
    <3>1. PICK i \in 1 .. Len(c) : c[i] = x
      BY <1>8, <2>4, InBlock
    <3>2. i \in 1 .. Len(t) /\ t[i] = x /\ i <= n
      BY <1>6, <1>8, <2>1, <3>1
    <3>3. ASSUME x \in ToSet(s) PROVE FALSE
      <4>1. PICK j \in 1 .. Len(s) : s[j] = x
        BY <1>3, <3>3, InBlock
      <4>2. n + j \in 1 .. Len(t) /\ t[n + j] = t[i]
        BY <2>2, <3>2, <4>1
      <4>3. n + j = i
        BY <1>3, <1>9, <3>2, <4>2, ChainInjective DEF IsBlock
      <4> QED
        BY <2>1, <3>2, <4>1, <4>3
    <3> QED
      BY <1>3, <3>2, <3>3, InBlock DEF Body
  <2> QED
    BY <2>3, <2>4
<1>19. /\ blocks'[a].instrs = c
       /\ blocks'[b].instrs = s
       /\ \A x \in Reg : x # a => blocks'[x].instrs = Instrs(x)
  BY <1>3, <1>6, <1>10 DEF Valid, Instrs
<1>20. \A x, y \in R : x # y => ToSet(blocks'[x].instrs) \cap ToSet(blocks'[y].instrs) = {}
  <2>1. \A x \in Reg : x # a => Body(x) \cap Body(a) = {}
    BY <1>3, <1>9 DEF RegBlocks
  <2>2. \A x \in Reg : x # a =>
           /\ ToSet(blocks'[x].instrs) \cap ToSet(c) = {}
           /\ ToSet(blocks'[x].instrs) \cap ToSet(s) = {}
    BY <1>18, <1>19, <2>1 DEF Body
  <2>3. \A x, y \in Reg : x # a /\ y # a /\ x # y =>
           ToSet(blocks'[x].instrs) \cap ToSet(blocks'[y].instrs) = {}
    BY <1>9, <1>19 DEF RegBlocks, Body
  <2>4. ToSet(c) \cap ToSet(s) = {}
    BY <1>18
  <2> QED
    BY <1>16, <1>19, <2>2, <2>3, <2>4
<1>21. \A x \in R : Falls(blocks'[x].instrs, R)
  <2>1. Falls(c, R)
    BY <1>8, <1>16 DEF Falls
  <2>2. Falls(s, R)
    BY <1>3, <1>16, FallsIntoMore
  <2>3. \A x \in Reg : Falls(Instrs(x), R)
    BY <1>9, <1>16, FallsIntoMore DEF RegBlocks
  <2> QED
    BY <1>16, <1>19, <2>1, <2>2, <2>3
<1>22. RegBlocks'
  BY <1>6, <1>15, <1>16, <1>17, <1>20, <1>21
  DEF RegBlocks, LastOf, Body, Instrs, Falls, Stops, After, Boundary
<1>23. RegCurrent'
  <2>1. split # NoSplit /\ current = NoBlock
    BY <1>1 DEF ShapeInv, SplitAlone, Splitting, NoSplit
  <2> QED
    BY <2>1 DEF RegCurrent, NoBlock
<1> QED
  BY <1>2, <1>6, <1>13, <1>15, <1>22, <1>23 DEF RegFits, RegSplit

-------------------------------------------------------------------------------
(* Every step. *)

(* As long as the code is aligned registered blocks stay in order.          *)
LEMMA RegisteredStep ==
  ScannerInv /\ ShapeInv /\ Registered /\ [Next]_vars /\ ScannerInv' => Registered'
<1> SUFFICES ASSUME ScannerInv, ShapeInv, Registered, [Next]_vars, ScannerInv', Aligned'
             PROVE  RegFits'
  BY DEF Registered
<1>1. Aligned /\ RegFits
  BY ShapeKept, AlignedBefore DEF ShapeStep, Registered
<1>2. CASE \/ StartSeed \/ RunNext \/ Complete \/ DropJob \/ FallIntoBlock
           \/ ResumeWorker \/ UNCHANGED vars
  BY <1>1, <1>2, RegQuiet DEF ScannerInv
<1>3. CASE TakeJob
  BY <1>1, <1>3, RegJob
<1>4. CASE ReadInstruction \/ FallOff
  BY <1>1, <1>4, RegParse
<1>5. CASE EndIsShared
  BY <1>1, <1>5, RegShared
<1>6. CASE EndJumps \/ EndReturn \/ EndCallReturning \/ EndCallUnknown
  BY <1>1, <1>6, RegEndStep
<1>7. CASE SplitBlockEndingAt /\ UNCHANGED <<workerVars, current>>
  BY <1>1, <1>7, OneIsTail, RegSplitA, RegSplitB
<1> QED
  BY <1>2, <1>3, <1>4, <1>5, <1>6, <1>7 DEF Next, HandleBlockEnd

(* Nothing is registered yet.                                               *)
LEMMA RegisteredInit == Init => Registered
<1> SUFFICES ASSUME Init PROVE RegFits
  BY DEF Registered
<1>1. blockEnds = <<>> /\ current = NoBlock /\ split = NoSplit /\ thrown = Nothing
  BY DEF Init, ScanInit
<1>2. DOMAIN blockEnds = {}
  BY <1>1
<1> QED
  BY <1>1, <1>2 DEF RegFits, RegBlocks, RegCurrent, RegSplit, Reg, NoBlock

(* Registered blocks are in order in every state of a scan.                 *)
THEOREM RegisteredInvariant == Spec => [](ScannerInv /\ ShapeInv /\ Registered)
<1>1. Init => Registered
  BY RegisteredInit
<1>2. Spec => [](ScannerInv /\ ShapeInv)
  BY ShapeInvariant
<1>3. ScannerInv /\ ShapeInv /\ Registered /\ [Next]_vars /\ ScannerInv' => Registered'
  BY RegisteredStep
<1> QED
  BY <1>1, <1>2, <1>3, PTL DEF Spec

(* NothingThrown: in aligned code the lists of SplitBlockEndingAt are only  *)
(* asked for what is there.                                                 *)
THEOREM NothingIsThrown == Spec => []NothingThrown
<1>1. Registered => NothingThrown
  BY DEF Registered, RegFits, NothingThrown
<1> QED
  BY <1>1, RegisteredInvariant, PTL

-------------------------------------------------------------------------------
(* Code without padding: every block is registered. *)

(* The parser, or the loop that splits blocks, has still to do with it.     *)
Pending(b) ==
    \/ current.ended /\ b = current.start
    \/ split # NoSplit /\ b = split.outer

PlainInv == Plain => \A b \in ValidBlocks : b \in Reg \/ Pending(b)

EndsMap == blockEnds = [e \in DOMAIN blockEnds |-> blockEnds[e]]

(* Of two blocks that end together one is shortened, and none is new.       *)
LEMMA SplitMakesNone ==
  ASSUME AllFit, SplitA \/ SplitB
  PROVE  ValidBlocks' \subseteq ValidBlocks
<1>1. CASE SplitB
  <2>1. PICK a, s, m : SplitsB(a, s, m)
    BY <1>1, SplitBIs
  <2>2. AddrB \in ValidBlocks
    BY <1>1, AtSplit DEF AllFit, SplitB
  <2> QED
    BY <2>1, <2>2 DEF SplitsB, ValidBlocks
<1>2. CASE SplitA
  <2>1. PICK a, t, s, n : SplitsA(a, t, s, n)
    BY <1>2, SplitAIs
  <2> QED
    BY <2>1 DEF SplitsA, ValidBlocks
<1> QED
  BY <1>1, <1>2

(* Without padding the parser cuts no block.                                *)
LEMMA NoCut ==
  ASSUME ScannerInv, ShapeInv, Plain', NEW i, Read(i)
  PROVE  ~CutAtPadding(i)
<1> SUFFICES ASSUME CutAtPadding(i) PROVE FALSE
  OBVIOUS
<1>1. IsPaddingBoundary(i)
  BY DEF CutAtPadding
<1>2. PICK s, n : s = current.instrs /\ n = current.addr
  OBVIOUS
<1>3. s # <<>> /\ (i.op = "padding") # (code[Last(s)].op = "padding")
  BY <1>1, <1>2 DEF IsPaddingBoundary
<1>4. n \in DOMAIN code' /\ code'[n] = i /\ CodeGrows
  BY <1>2, ReadIs
<1>5. Last(s) \in DOMAIN code
  <2>1. Chain(s)
    BY <1>2, ParsingIs DEF Read
  <2>2. Len(s) \in 1 .. Len(s)
    BY <1>3, <2>1, EmptySeq, LenProperties DEF Chain
  <2> QED
    BY <2>1, <2>2 DEF Chain, Last
<1> QED
  BY <1>3, <1>4, <1>5 DEF Plain, CodeGrows

(* What the parser completes it has still to do with.                       *)
LEMMA PlainParse ==
  ASSUME ScannerInv, ShapeInv, PlainInv, Plain, Plain', ReadInstruction \/ FallOff
  PROVE  PlainInv'
<1>1. /\ Parsing
      /\ UNCHANGED <<blockEnds, split>>
      /\ split = NoSplit
  BY DEF ReadInstruction, FallOff, Parsing, AtWork
<1>2. Reg' = Reg /\ ValidBlocks \subseteq Reg
  BY <1>1 DEF Reg, PlainInv, Pending, Parsing
<1>3. CASE BadBlock
  BY <1>2, <1>3 DEF PlainInv, BadBlock, ValidBlocks, Set
<1>4. CASE ~BadBlock
  <2>1. PICK i : Read(i) /\ (ReadOn(i) \/ ReadLast(i))
    <3>1. PICK i : Read(i) /\ (ReadOn(i) \/ ReadLast(i) \/ CutAtPadding(i))
      BY <1>4 DEF ReadInstruction, FallOff, Read, ReadInvalid
    <3> QED
      BY <3>1, NoCut
  <2>2. CASE ReadOn(i)
    BY <1>2, <2>2 DEF ReadOn, PlainInv, ValidBlocks
  <2>3. CASE ReadLast(i)
    <3>1. PICK b, t : b = current.start /\ t = Append(current.instrs, current.addr)
      OBVIOUS
    <3>2. /\ current = [start |-> b, addr |-> current.addr,
                        instrs |-> current.instrs, ended |-> FALSE]
          /\ current' = [current EXCEPT !.instrs = t, !.ended = TRUE]
          /\ blocks' = Set(blocks, b, Valid(t))
      BY <1>1, <2>3, <3>1, ParsingIs DEF ReadLast
    <3>3. current'.ended /\ current'.start = b
      BY <3>2
    <3>4. ValidBlocks' \subseteq ValidBlocks \cup {b}
      BY <3>2 DEF ValidBlocks, Set
    <3> QED
      BY <1>2, <3>3, <3>4 DEF PlainInv, Pending
  <2> QED
    BY <2>1, <2>2, <2>3
<1> QED
  BY <1>3, <1>4

(* A block is registered as soon as nobody has to do with it.               *)
LEMMA PlainStep ==
  ScannerInv /\ ShapeInv /\ Registered /\ PlainInv /\ [Next]_vars => PlainInv'
<1> SUFFICES ASSUME ScannerInv, ShapeInv, Registered, PlainInv, [Next]_vars, Plain'
             PROVE  \A b \in ValidBlocks' : b \in Reg' \/ Pending(b)'
  BY DEF PlainInv
<1>1. /\ Plain /\ Aligned /\ RegFits
      /\ \A b \in ValidBlocks : b \in Reg \/ Pending(b)
  BY ShapeKept, AlignedBefore DEF ShapeStep, Registered, PlainInv, Plain
<1>2. CASE \/ StartSeed \/ RunNext \/ Complete \/ DropJob \/ FallIntoBlock
           \/ ResumeWorker \/ UNCHANGED vars
  <2>1. UNCHANGED <<blockEnds, blocks, split, current>>
    BY <1>2 DEF StartSeed, RunNext, Complete, DropJob, FallIntoBlock, ResumeWorker,
           ResumeSuspended, ResumeActive, scanVars, vars
  <2> QED
    BY <1>1, <2>1 DEF ValidBlocks, Reg, Pending
<1>3. CASE TakeJob
  <2>1. UNCHANGED <<blockEnds, blocks, split>> /\ ~current.ended
    BY <1>3 DEF TakeJob, Free, NoBlock
  <2> QED
    BY <1>1, <2>1 DEF ValidBlocks, Reg, Pending
<1>4. CASE ReadInstruction \/ FallOff
  BY <1>1, <1>4, PlainParse DEF PlainInv
<1>5. CASE EndIsShared
  <2>1. /\ UNCHANGED <<blockEnds, blocks>>
        /\ current.ended /\ split = NoSplit
        /\ split' = [outer |-> current.start,
                     queue |-> <<[instrs |-> current.instrs, end |-> EndAddr]>>]
    BY <1>5 DEF EndIsShared, Ended, AtWork
  <2>2. split' # NoSplit /\ split'.outer = current.start
    <3>1. <<[instrs |-> current.instrs, end |-> EndAddr]>> # <<>>
      OBVIOUS
    <3> QED
      BY <2>1, <3>1 DEF NoSplit
  <2> QED
    BY <1>1, <2>1, <2>2 DEF ValidBlocks, Reg, Pending
<1>6. CASE EndJumps \/ EndReturn \/ EndCallReturning \/ EndCallUnknown
  <2>1. /\ blocks' = blocks
        /\ split = NoSplit
    BY <1>6 DEF EndJumps, EndReturn, EndCallReturning, EndCallUnknown, Ended, AtWork
  <2>2. Reg' = Reg \cup {current.start}
    BY <1>1, <1>6, RegEndStep
  <2> QED
    BY <1>1, <2>1, <2>2 DEF ValidBlocks, Pending
<1>7. CASE SplitBlockEndingAt /\ UNCHANGED <<workerVars, current>>
  <2>1. (SplitA \/ SplitB) /\ current' = current
    BY <1>1, <1>7, OneIsTail
  <2>2. Splitting
    BY <2>1 DEF SplitA, SplitB
  <2>3. AllFit /\ current = NoBlock
    BY <1>1, <2>2, AtRegSplit DEF ShapeInv, SplitAlone, Splitting, NoSplit
  <2>4. ValidBlocks' \subseteq ValidBlocks
    BY <2>1, <2>3, SplitMakesNone
  <2>5. /\ Reg \subseteq Reg'
        /\ AddrB \in Reg' \/ (split' # NoSplit /\ split'.outer = AddrB)
    BY <1>1, <2>1, RegSplitA, RegSplitB
  <2>6. \A b \in ValidBlocks : b \in Reg \/ b = AddrB
    BY <1>1, <2>3 DEF Pending, NoBlock, AddrB
  <2> QED
    BY <2>4, <2>5, <2>6 DEF Pending
<1> QED
  BY <1>2, <1>3, <1>4, <1>5, <1>6, <1>7 DEF Next, HandleBlockEnd

(* The ends are a map.                                                      *)
LEMMA EndsMapStep == EndsMap /\ [Next]_vars => EndsMap'
<1> SUFFICES ASSUME EndsMap, [Next]_vars PROVE EndsMap'
  OBVIOUS
<1> DEFINE IsMap(f) == f = [e \in DOMAIN f |-> f[e]]
<1>1. \A f, k, v : IsMap(Set(f, k, v))
  BY DEF Set
<1>2. \A f, k, v : IsMap(f) => IsMap(TryAdd(f, k, v))
  BY <1>1 DEF TryAdd
<1>3. \A f, k, v, o : IsMap(f) => IsMap(TryUpdate(f, k, v, o))
  BY <1>1 DEF TryUpdate
<1>4. IsMap(blockEnds)
  BY DEF EndsMap
<1> HIDE DEF IsMap
<1>5. CASE EndJumps \/ EndReturn \/ EndCallReturning \/ EndCallUnknown
  <2>1. blockEnds' = Set(blockEnds, EndAddr, current.start)
    BY <1>5 DEF EndJumps, EndReturn, EndCallReturning, EndCallUnknown, RegisterEnd
  <2> QED
    BY <1>1, <2>1 DEF EndsMap, IsMap
<1>6. CASE SplitBlockEndingAt
  <2>1. \E f, k, v, l, w, o : IsMap(f) /\ \/ blockEnds' = f
                                          \/ blockEnds' = TryAdd(f, k, v)
                                          \/ blockEnds' = TryUpdate(TryUpdate(f, k, v, o), l, w, o)
    BY <1>1, <1>4, <1>6
    DEF SplitBlockEndingAt, SplitSelf, SplitTail, SplitB, SplitA, SplitFails,
        RegisterChoppedEnd
  <2> QED
    BY <1>2, <1>3, <2>1 DEF EndsMap, IsMap
<1>7. CASE ~SplitBlockEndingAt /\ ~(EndJumps \/ EndReturn \/ EndCallReturning \/ EndCallUnknown)
  <2>1. blockEnds' = blockEnds
    BY <1>7
    DEF Next, StartSeed, RunNext, Complete, TakeJob, DropJob, FallIntoBlock,
        ReadInstruction, FallOff, HandleBlockEnd, EndIsShared, ResumeWorker,
        ResumeSuspended, ResumeActive, scanVars, vars
  <2> QED
    BY <2>1 DEF EndsMap
<1> QED
  BY <1>5, <1>6, <1>7

(* In plain code every block is registered or pending, in every state.      *)
THEOREM PlainInvariant ==
  Spec => [](ScannerInv /\ ShapeInv /\ Registered /\ PlainInv /\ EndsMap)
<1>1. Init => PlainInv /\ EndsMap
  <2> SUFFICES ASSUME Init PROVE PlainInv /\ EndsMap
    OBVIOUS
  <2>1. blocks = <<>> /\ blockEnds = <<>>
    BY DEF Init, ScanInit
  <2>2. ValidBlocks = {}
    BY <2>1 DEF ValidBlocks
  <2>3. blockEnds = [e \in DOMAIN blockEnds |-> blockEnds[e]]
    BY <2>1
  <2> QED
    BY <2>2, <2>3 DEF PlainInv, EndsMap
<1>2. Spec => [](ScannerInv /\ ShapeInv /\ Registered)
  BY RegisteredInvariant
<1>3. ScannerInv /\ ShapeInv /\ Registered /\ PlainInv /\ [Next]_vars => PlainInv'
  BY PlainStep
<1>4. EndsMap /\ [Next]_vars => EndsMap'
  BY EndsMapStep
<1> QED
  BY <1>1, <1>2, <1>3, <1>4, PTL DEF Spec

(* When the scanner has nothing in hand the valid blocks are those that are *)
(* registered.                                                              *)
LEMMA RegIsAll ==
  ASSUME ShapeInv, Registered, PlainInv, AtRest, Plain
  PROVE  ValidBlocks = Reg /\ RegBlocks
<1>1. \A b \in ValidBlocks : b \in Reg
  BY DEF PlainInv, Pending, AtRest, NoBlock
<1>2. RegBlocks
  BY DEF Registered, Plain, RegFits
<1> QED
  BY <1>1, <1>2, RegClosed DEF ShapeInv

(* BlocksDisjoint: an instruction of plain code belongs to one block at     *)
(* most.                                                                    *)
THEOREM BlocksAreDisjoint == Spec => []BlocksDisjoint
<1>1. ShapeInv /\ Registered /\ PlainInv => BlocksDisjoint
  BY RegIsAll DEF BlocksDisjoint, RegBlocks, Body, Instrs
<1> QED
  BY <1>1, PlainInvariant, PTL

(* EndsAreBlockEnds: in plain code blockEnds is the map from the last       *)
(* instructions to the blocks.                                              *)
THEOREM EndsLeadToBlocks == Spec => []EndsAreBlockEnds
<1>1. ASSUME ShapeInv, Registered, PlainInv, EndsMap PROVE EndsAreBlockEnds
  <2> SUFFICES ASSUME AtRest, Plain
               PROVE  blockEnds = [e \in {LastOf(b) : b \in ValidBlocks} |->
                                      CHOOSE b \in ValidBlocks : LastOf(b) = e]
    BY DEF EndsAreBlockEnds
  <2>1. ValidBlocks = Reg /\ RegBlocks
    BY <1>1, RegIsAll
  <2>2. \A b \in ValidBlocks : LastOf(b) \in DOMAIN blockEnds /\ blockEnds[LastOf(b)] = b
    BY <2>1, RegEnd
  <2>3. \A e \in DOMAIN blockEnds : blockEnds[e] \in ValidBlocks /\ LastOf(blockEnds[e]) = e
    BY <2>1 DEF Reg, RegBlocks
  <2>4. DOMAIN blockEnds = {LastOf(b) : b \in ValidBlocks}
    BY <2>2, <2>3
  <2>5. ASSUME NEW e \in DOMAIN blockEnds
        PROVE  blockEnds[e] = CHOOSE b \in ValidBlocks : LastOf(b) = e
    BY <2>2, <2>3
  <2>6. blockEnds = [e \in DOMAIN blockEnds |-> blockEnds[e]]
    BY <1>1 DEF EndsMap
  <2> QED
    BY <2>4, <2>5, <2>6
<1> QED
  BY <1>1, PlainInvariant, PTL

-------------------------------------------------------------------------------
(* The edges of aligned code. *)

(* A block that nobody has to do with, or whose edges are there already.    *)
Settled(b) == Pending(b) => b \in DOMAIN succs

EdgesInv ==
    Aligned =>
       \A b \in ValidBlocks : Settled(b) => Expected(b) \subseteq EdgesOf(succs, b)

(* What a block leads to does not change as long as its end does not.       *)
LEMMA ExpectedKept ==
  ASSUME BlocksFit, CodeGrows, NEW b \in ValidBlocks, blocks'[b] = blocks[b]
  PROVE  Expected(b)' = Expected(b)
<1>1. LastOf(b) \in DOMAIN code
  BY BlockEnds DEF BlocksFit, LastOf, Instrs
<1>2. LastOf(b)' = LastOf(b)
  BY DEF LastOf
<1>3. LastOf(b) \in DOMAIN code' /\ code'[LastOf(b)] = code[LastOf(b)]
  BY <1>1 DEF CodeGrows
<1> QED
  BY <1>2, <1>3 DEF Expected, After

(* Edges are only added where nothing is pending.                           *)
LEMMA EdgesAdded ==
  ASSUME BlocksFit, CodeGrows, EdgesInv, Aligned, blocks' = blocks,
         \A b \in ValidBlocks : EdgesOf(succs, b) \subseteq EdgesOf(succs', b),
         \A b \in ValidBlocks : Settled(b)' /\ ~Settled(b) =>
                                   Expected(b)' \subseteq EdgesOf(succs', b)
  PROVE  EdgesInv'
<1>1. ValidBlocks' = ValidBlocks
  BY DEF ValidBlocks
<1>2. \A b \in ValidBlocks : Expected(b)' = Expected(b)
  BY ExpectedKept
<1>3. \A b \in ValidBlocks : Settled(b)' => Expected(b)' \subseteq EdgesOf(succs', b)
  BY <1>2 DEF EdgesInv
<1> QED
  BY <1>1, <1>3 DEF EdgesInv

(* What the parser completes has no edges yet, or the one across the        *)
(* boundary where it was cut.                                               *)
LEMMA EdgesParse ==
  ASSUME ScannerInv, ShapeInv, EdgesInv, Aligned, ReadInstruction \/ FallOff
  PROVE  EdgesInv'
<1>1. /\ Parsing
      /\ split = NoSplit /\ split' = split
      /\ ~current.ended
  BY DEF ReadInstruction, FallOff, Parsing, AtWork
<1>2. PICK s, n, t, b : /\ s = current.instrs /\ n = current.addr
                        /\ t = Append(s, n) /\ b = current.start
  OBVIOUS
<1>3. /\ b \notin DOMAIN blocks
      /\ current = [start |-> b, addr |-> n, instrs |-> s, ended |-> FALSE]
      /\ n \in 1 .. Beyond
      /\ EdgeMap(succs) /\ DOMAIN succs \subseteq DOMAIN blocks
  BY <1>1, <1>2, ParsingIs DEF ShapeInv, EdgesFit
<1>4. CodeGrows /\ BlocksFit
  BY ShapeKept DEF ShapeStep, ShapeInv, Next
<1>5. /\ DOMAIN blocks' \subseteq DOMAIN blocks \cup {b}
      /\ \A x \in DOMAIN blocks : blocks'[x] = blocks[x]
  BY <1>2, <1>3
  DEF ReadInstruction, FallOff, ReadOn, ReadLast, CutAtPadding, ReadInvalid, BadBlock, Set
<1>6. succs' = succs \/ (succs' = WithEdge(succs, b, n))
  BY <1>2
  DEF ReadInstruction, FallOff, ReadOn, ReadLast, CutAtPadding, ReadInvalid, BadBlock
<1>7. \A x : x # b => EdgesOf(succs', x) = EdgesOf(succs, x)
  <2>1. PICK e, g : e = succs /\ g = succs'
    OBVIOUS
  <2>2. CASE g = WithEdge(e, b, n)
    <3>1. \A x : x # b => EdgesOf(g, x) = EdgesOf(e, x)
      BY <1>3, <2>1, <2>2, WithEdgeEdges
    <3> QED
      BY <2>1, <3>1
  <2> QED
    BY <1>6, <2>1, <2>2
<1>8. ASSUME NEW x \in ValidBlocks', x # b
      PROVE  Expected(x)' \subseteq EdgesOf(succs', x)
  <2>1. x \in ValidBlocks /\ blocks'[x] = blocks[x]
    BY <1>5, <1>8 DEF ValidBlocks
  <2>2. Expected(x)' = Expected(x)
    BY <1>4, <2>1, ExpectedKept
  <2>3. Settled(x)
    BY <1>1 DEF Settled, Pending
  <2>4. Expected(x) \subseteq EdgesOf(succs, x)
    BY <2>1, <2>3 DEF EdgesInv
  <2> QED
    BY <1>7, <1>8, <2>2, <2>4
<1>9. ASSUME b \in ValidBlocks', Settled(b)'
      PROVE  Expected(b)' \subseteq EdgesOf(succs', b)
  <2>1. PICK i : Read(i) /\ (ReadLast(i) \/ CutAtPadding(i))
    <3>1. CASE BadBlock
      BY <1>2, <1>9, <3>1 DEF BadBlock, ValidBlocks, Set
    <3>2. CASE \E i : ReadOn(i)
      BY <1>3, <1>9, <3>2 DEF ReadOn, ValidBlocks
    <3> QED
      BY <1>9, <3>1, <3>2 DEF ReadInstruction, FallOff, Read, ReadInvalid
  <2>2. CASE ReadLast(i)
    <3>1. current' = [current EXCEPT !.instrs = t, !.ended = TRUE] /\ succs' = succs
      BY <1>2, <2>2 DEF ReadLast
    <3>2. current'.start = b /\ current'.ended
      BY <1>3, <3>1
    <3> QED
      BY <1>3, <1>9, <3>1, <3>2 DEF Settled, Pending
  <2>3. CASE CutAtPadding(i)
    <3>1. /\ blocks' = Set(blocks, b, Valid(s))
          /\ succs' = WithEdge(succs, b, n)
          /\ s # <<>>
      BY <1>2, <2>3 DEF CutAtPadding, IsPaddingBoundary
    <3>2. LastOf(b)' = Last(s)
      BY <3>1 DEF LastOf, Set, Valid
    <3>3. RunsOn(Last(s))' /\ After(Last(s))' = n
      BY <1>2, <2>1, <3>1, ReadLeads
    <3>4. Expected(b)' = {n}
      BY <3>2, <3>3 DEF RunsOn, Expected, After
    <3>5. PICK e, g : e = succs /\ g = succs'
      OBVIOUS
    <3>6. EdgesOf(g, b) = EdgesOf(e, b) \cup {n}
      BY <1>3, <3>1, <3>5, WithEdgeEdges
    <3> QED
      BY <3>4, <3>5, <3>6
  <2> QED
    BY <2>1, <2>2, <2>3
<1> QED
  BY <1>8, <1>9 DEF EdgesInv

(* The block that has ended gets the edges its last instruction asks for.   *)
LEMMA EdgesEnd ==
  ASSUME ScannerInv, ShapeInv, EdgesInv, Aligned,
         EndJumps \/ EndReturn \/ EndCallReturning \/ EndCallUnknown
  PROVE  EdgesInv'
<1>1. /\ Ended
      /\ blocks' = blocks /\ code' = code
      /\ split = NoSplit
  BY DEF EndJumps, EndReturn, EndCallReturning, EndCallUnknown, Ended, AtWork
<1>2. BlocksFit /\ CodeGrows
  BY <1>1 DEF ShapeInv, CodeGrows
<1>3. /\ \A b : EdgesOf(succs, b) \subseteq EdgesOf(succs', b)
      /\ EndJumps => EdgesOf(succs', current.start) =
                        EdgesOf(succs, current.start) \cup ToSet(EdgesTo)
  BY EndEdges
<1>4. PICK b, e : b = current.start /\ e = EndAddr
  OBVIOUS
<1>5. b \in ValidBlocks /\ LastOf(b) = e
  BY <1>1, <1>4, EndedIs
<1>6. Expected(b) \subseteq EdgesOf(succs', b)
  <2>1. CASE EndJumps
    <3>1. ToSet(EdgesTo) = Expected(b)
      <4>1. /\ \A x : ToSet(<<x>>) = {x}
            /\ \A x, y : ToSet(<<x, y>>) = {x, y}
        BY DEF ToSet
      <4>2. code[e].op \notin {"call", "return"} /\ LastOp = code[e].op /\ Fall = After(e)
        BY <1>4, <2>1 DEF EndJumps, LastOp, Fall
      <4> QED
        BY <1>4, <1>5, <4>1, <4>2, EmptyToSet DEF EdgesTo, Expected
    <3> QED
      BY <1>3, <1>4, <2>1, <3>1
  <2>2. CASE EndReturn \/ EndCallReturning \/ EndCallUnknown
    <3>1. code[e].op \in {"call", "return"}
      BY <1>4, <2>2 DEF EndReturn, EndCallReturning, EndCallUnknown, LastOp
    <3> QED
      BY <1>5, <3>1 DEF Expected
  <2> QED
    BY <2>1, <2>2
<1>7. \A x : ~Settled(x) => x = b
  BY <1>1, <1>4 DEF Settled, Pending
<1>8. Expected(b)' = Expected(b)
  BY <1>1, <1>2, <1>5, ExpectedKept
<1> QED
  BY <1>1, <1>2, <1>3, <1>6, <1>7, <1>8, EdgesAdded

(* What is left of the block that was parsed leads into the registered one. *)
LEMMA EdgesSplitB ==
  ASSUME ShapeInv, RegFits, EdgesInv, Aligned, SplitB
  PROVE  EdgesInv'
<1>1. Splitting
  BY DEF SplitB
<1>2. PICK a, b : a = AddrA /\ b = AddrB
  OBVIOUS
<1>3. /\ AllFit
      /\ b \in DOMAIN blocks
      /\ blocks[b] = Valid(BlockB)
      /\ IsBlock(BlockB)
      /\ BlockB[1] = b
  BY <1>1, <1>2, AtRegSplit
<1>4. PICK a1, s, m : SplitsB(a1, s, m)
  BY <1>3, SplitBIs
<1>5. /\ s = BlockB /\ a \in ValidBlocks
      /\ m \in 1 .. Len(s) - 1
      /\ s[m + 1] = a
      /\ DOMAIN blocks' = DOMAIN blocks
      /\ blocks'[b] = Valid(Chop(s, m))
      /\ \A x \in DOMAIN blocks : x # b => blocks'[x] = blocks[x]
      /\ succs' = WithEdge(succs, b, a)
      /\ code' = code
  BY <1>2, <1>3, <1>4 DEF SplitsB
<1>6. BlocksFit /\ CodeGrows /\ EdgeMap(succs) /\ a \in 1 .. Beyond
  BY <1>3, <1>5 DEF AllFit, EdgesFit, CodeGrows, BlocksFit, ValidBlocks
<1>7. /\ EdgesOf(succs', b) = EdgesOf(succs, b) \cup {a}
      /\ \A x : x # b => EdgesOf(succs', x) = EdgesOf(succs, x)
  <2>1. PICK e, g : e = succs /\ g = succs'
    OBVIOUS
  <2>2. /\ EdgesOf(g, b) = EdgesOf(e, b) \cup {a}
        /\ \A x : x # b => EdgesOf(g, x) = EdgesOf(e, x)
    BY <1>5, <1>6, <2>1, WithEdgeEdges
  <2> QED
    BY <2>1, <2>2
<1>8. Expected(b)' = {a}
  <2>1. Last(Chop(s, m)) = s[m] /\ RunsOn(s[m]) /\ After(s[m]) = a
    BY <1>3, <1>5, ChopIs
  <2>2. LastOf(b)' = s[m]
    BY <1>5, <2>1 DEF LastOf, Valid
  <2> QED
    BY <1>5, <2>1, <2>2 DEF RunsOn, Expected, After
<1>9. ASSUME NEW x \in ValidBlocks', x # b
      PROVE  Expected(x)' \subseteq EdgesOf(succs', x)
  <2>1. x \in ValidBlocks /\ blocks'[x] = blocks[x]
    BY <1>5, <1>9 DEF ValidBlocks
  <2>2. Settled(x)
    BY <1>1, <1>2, <1>9
    DEF Settled, Pending, ShapeInv, SplitAlone, Splitting, NoSplit, NoBlock, AddrB
  <2>3. Expected(x)' = Expected(x)
    BY <1>6, <2>1, ExpectedKept
  <2> QED
    BY <1>7, <1>9, <2>1, <2>2, <2>3 DEF EdgesInv
<1> QED
  BY <1>7, <1>8, <1>9 DEF EdgesInv

(* The front leads into the rest, which keeps its edges or gets those of    *)
(* the whole.                                                               *)
LEMMA EdgesSplitA ==
  ASSUME ShapeInv, RegFits, EdgesInv, Aligned, SplitA
  PROVE  EdgesInv'
<1>1. Splitting
  BY DEF SplitA
<1>2. PICK a, b : a = AddrA /\ b = AddrB
  OBVIOUS
<1>3. /\ AllFit
      /\ a \in Reg /\ b \notin Reg
      /\ b \in ValidBlocks
      /\ b \in DOMAIN blocks
      /\ IsBlock(BlockB)
      /\ BlockB[1] = b
      /\ BlockB = Instrs(b)
      /\ End = Last(BlockB)
      /\ LastOf(a) = End
      /\ IsBlock(BlockA)
  BY <1>1, <1>2, AtRegSplit
<1>4. PICK a1, t, s, n : SplitsA(a1, t, s, n)
  BY <1>3, SplitAIs
<1>5. /\ s = BlockB /\ t = BlockA
      /\ a \in ValidBlocks
      /\ n \in 1 .. Len(t) - 1
      /\ \A j \in 1 .. Len(s) : t[n + j] = s[j]
      /\ DOMAIN blocks' = DOMAIN blocks
      /\ blocks'[a] = Valid(Chop(t, n))
      /\ \A x \in DOMAIN blocks : x # a => blocks'[x] = blocks[x]
      /\ succs' = WithEdge(StealEdges(succs, a, b), a, b)
      /\ code' = code
      /\ a # b
  BY <1>2, <1>3, <1>4 DEF SplitsA
<1>6. BlocksFit /\ CodeGrows /\ EdgeMap(succs) /\ b \in 1 .. Beyond
  BY <1>3, <1>5 DEF AllFit, EdgesFit, CodeGrows, BlocksFit
<1>7. /\ EdgesOf(succs', a) = {b}
      /\ EdgesOf(succs', b) = IF b \in DOMAIN succs THEN EdgesOf(succs, b)
                              ELSE EdgesOf(succs, a)
      /\ \A x : x \notin {a, b} => EdgesOf(succs', x) = EdgesOf(succs, x)
  <2>1. PICK e, f, g : e = succs /\ f = StealEdges(e, a, b) /\ g = succs'
    OBVIOUS
  <2>2. /\ EdgeMap(f)
        /\ EdgesOf(f, a) = {}
        /\ EdgesOf(f, b) = IF b \in DOMAIN e THEN EdgesOf(e, b) ELSE EdgesOf(e, a)
        /\ \A x : x \notin {a, b} => EdgesOf(f, x) = EdgesOf(e, x)
    BY <1>5, <1>6, <2>1, StealEdgesIs
  <2>3. g = WithEdge(f, a, b)
    BY <1>5, <2>1
  <2>4. /\ EdgesOf(g, a) = EdgesOf(f, a) \cup {b}
        /\ \A x : x # a => EdgesOf(g, x) = EdgesOf(f, x)
    BY <1>6, <2>2, <2>3, WithEdgeEdges
  <2> QED
    BY <1>5, <2>1, <2>2, <2>4
<1>8. Expected(a)' = {b}
  <2>1. 1 \in 1 .. Len(s)
    BY <1>3, <1>5, BlockEnds
  <2>2. t[n + 1] = b
    BY <1>3, <1>5, <2>1
  <2>3. Last(Chop(t, n)) = t[n] /\ RunsOn(t[n]) /\ After(t[n]) = t[n + 1]
    BY <1>3, <1>5, ChopIs
  <2>4. LastOf(a)' = t[n]
    BY <1>5, <2>3 DEF LastOf, Valid
  <2> QED
    BY <1>5, <2>2, <2>3, <2>4 DEF RunsOn, Expected, After
<1>9. \A x \in ValidBlocks : x # b => Settled(x)
  BY <1>1, <1>2
  DEF Settled, Pending, ShapeInv, SplitAlone, Splitting, NoSplit, NoBlock, AddrB
<1>10. ASSUME NEW x \in ValidBlocks', x # a
       PROVE  x \in ValidBlocks /\ Expected(x)' = Expected(x)
  <2>1. x \in ValidBlocks /\ blocks'[x] = blocks[x]
    BY <1>5, <1>10 DEF ValidBlocks
  <2> QED
    BY <1>6, <2>1, ExpectedKept
<1>11. ASSUME NEW x \in ValidBlocks', x \notin {a, b}
       PROVE  Expected(x)' \subseteq EdgesOf(succs', x)
  BY <1>7, <1>9, <1>10, <1>11 DEF EdgesInv
<1>12. Expected(b)' \subseteq EdgesOf(succs', b)
  <2>1. b \in ValidBlocks'
    BY <1>3, <1>5 DEF ValidBlocks
  <2>2. Expected(b)' = Expected(b)
    BY <1>5, <1>10, <2>1
  <2>3. CASE b \in DOMAIN succs
    <3>1. Settled(b)
      BY <2>3 DEF Settled
    <3> QED
      BY <1>3, <1>7, <2>2, <2>3, <3>1 DEF EdgesInv
  <2>4. CASE b \notin DOMAIN succs
    <3>1. Expected(a) \subseteq EdgesOf(succs, a)
      BY <1>5, <1>9 DEF EdgesInv
    <3>2. LastOf(b) = LastOf(a)
      BY <1>3 DEF LastOf, Instrs
    <3>3. Expected(b) = Expected(a)
      BY <3>2 DEF Expected
    <3> QED
      BY <1>7, <2>2, <2>4, <3>1, <3>3
  <2> QED
    BY <2>3, <2>4
<1> QED
  BY <1>7, <1>8, <1>11, <1>12 DEF EdgesInv

(* As long as the code is aligned the edges that it asks for are there.     *)
LEMMA EdgesStep ==
  ScannerInv /\ ShapeInv /\ Registered /\ EdgesInv /\ [Next]_vars => EdgesInv'
<1> SUFFICES ASSUME ScannerInv, ShapeInv, Registered, EdgesInv, [Next]_vars, Aligned'
             PROVE  EdgesInv'
  BY DEF EdgesInv
<1>1. Aligned /\ RegFits /\ CodeGrows /\ BlocksFit
  BY ShapeKept, AlignedBefore DEF ShapeStep, Registered, ShapeInv
<1>2. CASE \/ StartSeed \/ RunNext \/ Complete \/ DropJob \/ ResumeWorker
           \/ UNCHANGED vars
  <2>1. UNCHANGED <<code, blocks, succs, split, current>>
    BY <1>2 DEF StartSeed, RunNext, Complete, DropJob, ResumeWorker,
           ResumeSuspended, ResumeActive, scanVars, vars
  <2>2. \A b : Settled(b)' => Settled(b)
    BY <2>1 DEF Settled, Pending
  <2> QED
    BY <1>1, <2>1, <2>2, EdgesAdded
<1>3. CASE TakeJob \/ FallIntoBlock
  <2>1. /\ blocks' = blocks
        /\ running # None /\ Me.jobs # <<>>
        /\ succs' = EdgeFromCaller(Head(Me.jobs))
        /\ current = NoBlock /\ split = NoSplit
    BY <1>3 DEF TakeJob, FallIntoBlock, Free, AtWork
  <2>2. \A b : EdgesOf(succs, b) \subseteq EdgesOf(succs', b)
    BY <2>1, CallerEdge
  <2>3. \A b : Settled(b)
    BY <2>1 DEF Settled, Pending, NoBlock
  <2> QED
    BY <1>1, <2>1, <2>2, <2>3, EdgesAdded
<1>4. CASE ReadInstruction \/ FallOff
  BY <1>1, <1>4, EdgesParse
<1>5. CASE EndIsShared
  <2>1. /\ UNCHANGED <<blocks, succs>>
        /\ current.ended
        /\ split' = [outer |-> current.start,
                     queue |-> <<[instrs |-> current.instrs, end |-> EndAddr]>>]
        /\ split = NoSplit
    BY <1>5 DEF EndIsShared, Ended, AtWork
  <2>2. split' # NoSplit /\ split'.outer = current.start
    <3>1. <<[instrs |-> current.instrs, end |-> EndAddr]>> # <<>>
      OBVIOUS
    <3> QED
      BY <2>1, <3>1 DEF NoSplit
  <2>3. \A b : Settled(b)' => Settled(b)
    BY <2>1, <2>2 DEF Settled, Pending
  <2> QED
    BY <1>1, <2>1, <2>3, EdgesAdded
<1>6. CASE EndJumps \/ EndReturn \/ EndCallReturning \/ EndCallUnknown
  BY <1>1, <1>6, EdgesEnd
<1>7. CASE SplitBlockEndingAt /\ UNCHANGED <<workerVars, current>>
  BY <1>1, <1>7, OneIsTail, EdgesSplitA, EdgesSplitB
<1> QED
  BY <1>2, <1>3, <1>4, <1>5, <1>6, <1>7 DEF Next, HandleBlockEnd

(* The edges that aligned code asks for are there, in every state in which  *)
(* nobody has still to do with the block.                                   *)
THEOREM EdgesInvariant == Spec => []EdgesInv
<1>1. Init => EdgesInv
  BY DEF Init, ScanInit, EdgesInv, ValidBlocks
<1>2. Spec => [](ScannerInv /\ ShapeInv /\ Registered)
  BY RegisteredInvariant
<1>3. ScannerInv /\ ShapeInv /\ Registered /\ EdgesInv /\ [Next]_vars => EdgesInv'
  BY EdgesStep
<1> QED
  BY <1>1, <1>2, <1>3, PTL DEF Spec

(* EdgesKept: splitting moves edges from block to block and loses none that *)
(* the code asks for.                                                       *)
THEOREM EdgesAreKept == Spec => []EdgesKept
<1>1. EdgesInv => EdgesKept
  BY DEF EdgesInv, EdgesKept, AtRest, Plain, Settled, Pending, NoBlock, Edges, EdgesOf
<1> QED
  BY <1>1, EdgesInvariant, PTL

===============================================================================
