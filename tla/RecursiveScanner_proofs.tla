------------------------ MODULE RecursiveScanner_proofs ------------------------
(***************************************************************************)
(* Proofs about the lists of the recursive scanner: for every image, set   *)
(* of instructions and list of entry points no worker is lost, and no call *)
(* waits for a return that nobody would report.                            *)
(***************************************************************************)
EXTENDS RecursiveScanner, SequenceTheorems, TLAPS

-------------------------------------------------------------------------------
(* Types. *)

Jobs  == [addr : 1 .. Beyond, caller : 0 .. Beyond]
Notes == [worker : Nat, call : 1 .. Beyond, fall : 1 .. Beyond]
Calls == UNION {[D -> Addresses] : D \in SUBSET (1 .. Beyond)}

Records ==
    [proc : Addresses, jobs : Seq(Jobs), calls : Calls, callers : Seq(Notes)]

(* What was read fits the map, and the block being parsed consists of       *)
(* addresses that were read.                                                *)
ParserTypes ==
    /\ code = [a \in DOMAIN code |-> code[a]]
    /\ \A a \in DOMAIN code : a \in Addresses /\ code[a] \in InstructionsAt(a)
    /\ current \in [start : 0 .. Beyond, addr : 0 .. Beyond,
                    instrs : Seq(Addresses), ended : BOOLEAN]
    /\ \A i \in DOMAIN current.instrs : current.instrs[i] \in DOMAIN code
    /\ current # NoBlock => current.start # None /\ current.addr # None
    /\ current.ended => current.instrs # <<>>

ListTypes ==
    /\ workers \in Seq(Records)
    /\ procedures \subseteq Addresses
    /\ wl \in Seq(DOMAIN workers)
    /\ active \in [DOMAIN active -> DOMAIN workers]
    /\ suspended \in [DOMAIN suspended -> DOMAIN workers]
    /\ running \in DOMAIN workers \cup {None}
    /\ resuming \in BOOLEAN

Proc(w) == workers[w].proc

-------------------------------------------------------------------------------
(* The inductive invariant. *)

(* A worker is listed under its own procedure, as active or as suspended.   *)
Listed ==
    /\ \A w \in DOMAIN workers : Proc(w) \in procedures
    /\ \A p \in DOMAIN active : Proc(active[p]) = p
    /\ \A p \in DOMAIN suspended : Proc(suspended[p]) = p

(* What the parser works on belongs to no suspended call. *)
CurrentIsNew ==
    /\ \A w \in DOMAIN workers : DOMAIN workers[w].calls \subseteq blockStarts
    /\ current # NoBlock =>
          /\ running # None
          /\ ~resuming
          /\ current.start \in blockStarts
          /\ \A w \in DOMAIN workers :
                current.start \notin DOMAIN workers[w].calls

(* There is one note for each suspended call, and it is with a worker that  *)
(* has not reported a return, or is doing so.                               *)
Noted ==
    /\ \A w \in DOMAIN workers :
          \A from \in DOMAIN workers[w].calls :
             /\ Alive(w)
             /\ \E v \in DOMAIN workers : \E i \in DOMAIN workers[v].callers :
                   /\ Proc(v) = workers[w].calls[from]
                   /\ workers[v].callers[i].worker = w
                   /\ workers[v].callers[i].call = from
    /\ \A v \in DOMAIN workers : \A i \in DOMAIN workers[v].callers :
          /\ workers[v].callers[i].worker \in DOMAIN workers
          /\ workers[v].callers[i].call \in
                DOMAIN workers[workers[v].callers[i].worker].calls
          /\ Proc(v) \in returning => resuming /\ v = running
    /\ resuming => running # None /\ Me.callers # <<>>

NotedOnce ==
    \A v, x \in DOMAIN workers :
       \A i \in DOMAIN workers[v].callers, j \in DOMAIN workers[x].callers :
          /\ workers[v].callers[i].worker = workers[x].callers[j].worker
          /\ workers[v].callers[i].call = workers[x].callers[j].call
          => v = x /\ i = j

(* A worker that has never got beyond its first job. *)
Idle(w) ==
    /\ workers[w].jobs \in {<<>>, <<Job(Proc(w), None)>>}
    /\ workers[w].calls = <<>>
    /\ w = running => current = NoBlock /\ ~resuming

(* The entry of a procedure is scanned by its first worker; a worker made   *)
(* after that one retired has nothing to do and never reports a return.     *)
FirstComes ==
    /\ \A w \in DOMAIN workers :
          Proc(w) \in blockStarts \/ (Idle(w) /\ workers[w].jobs # <<>>)
    /\ \A v, w \in DOMAIN workers :
          v < w /\ Proc(v) = Proc(w) =>
             ~Alive(v) /\ Proc(w) \in blockStarts /\ Idle(w)

NothingMissing == thrown \in {Nothing, "ArgumentOutOfRange"}

ScannerInv ==
    /\ ParserTypes
    /\ ListTypes
    /\ NoWorkerLost
    /\ Listed
    /\ CurrentIsNew
    /\ Noted
    /\ NotedOnce
    /\ FirstComes
    /\ NothingMissing
    /\ seeds \in Seq(Addresses)

-------------------------------------------------------------------------------
(* Lemmas on sequences and maps. *)

(* An element is added at the end. *)
LEMMA Appended ==
  ASSUME NEW S, NEW s \in Seq(S), NEW e \in S
  PROVE  /\ Append(s, e) \in Seq(S)
         /\ Append(s, e) # <<>>
         /\ DOMAIN Append(s, e) = DOMAIN s \cup {Len(s) + 1}
         /\ Len(s) + 1 \notin DOMAIN s
         /\ \A i \in DOMAIN s : Append(s, e)[i] = s[i]
         /\ Append(s, e)[Len(s) + 1] = e
<1>1. /\ Len(s) \in Nat
      /\ DOMAIN s = 1 .. Len(s)
      /\ Append(s, e) \in Seq(S)
      /\ Append(s, e) # <<>>
      /\ DOMAIN Append(s, e) = 1 .. Len(s) + 1
  BY AppendProperties, LenProperties
<1> QED
  BY <1>1, AppendProperties

(* The first element is taken away: the others move up. *)
LEMMA Taken ==
  ASSUME NEW S, NEW s \in Seq(S), s # <<>>
  PROVE  /\ Head(s) \in S
         /\ Head(s) = s[1]
         /\ 1 \in DOMAIN s
         /\ Tail(s) \in Seq(S)
         /\ Tail(s) # <<>> <=> Len(s) # 1
         /\ \A i \in DOMAIN Tail(s) : i + 1 \in DOMAIN s /\ Tail(s)[i] = s[i + 1]
         /\ \A i \in DOMAIN s : i # 1 => i - 1 \in DOMAIN Tail(s)
<1>1. /\ Len(s) \in Nat
      /\ Len(s) # 0
      /\ DOMAIN s = 1 .. Len(s)
  BY EmptySeq, LenProperties
<1>2. /\ Tail(s) \in Seq(S)
      /\ Len(Tail(s)) = Len(s) - 1
      /\ DOMAIN Tail(s) = 1 .. Len(s) - 1
      /\ \A i \in 1 .. Len(s) - 1 : Tail(s)[i] = s[i + 1]
  BY HeadTailProperties, LenProperties
<1>3. Head(s) \in S /\ Head(s) = s[1]
  BY <1>1, HeadTailProperties
<1>4. Tail(s) # <<>> <=> Len(Tail(s)) # 0
  BY <1>2, EmptySeq
<1> QED
  BY <1>1, <1>2, <1>3, <1>4

(* A sequence is empty exactly if it has no index. *)
LEMMA Emptiness ==
  ASSUME NEW S, NEW s \in Seq(S)
  PROVE  s = <<>> <=> DOMAIN s = {}
BY EmptySeq, LenProperties

(* What Calls contains: the maps from addresses of blocks to callees. *)
LEMMA CallsAre ==
  ASSUME NEW f
  PROVE  f \in Calls <=> /\ f = [x \in DOMAIN f |-> f[x]]
                         /\ DOMAIN f \subseteq 1 .. Beyond
                         /\ \A x \in DOMAIN f : f[x] \in Addresses
BY DEF Calls

(* The empty map is the empty sequence. *)
LEMMA NoCalls ==
  /\ <<>> \in Calls
  /\ \A f \in Calls : f = <<>> <=> DOMAIN f = {}
<1>1. /\ DOMAIN <<>> = {}
      /\ <<>> = [x \in {} |-> <<>>[x]]
  BY EmptySeq, LenProperties
<1>2. <<>> \in Calls
  BY <1>1, CallsAre
<1>3. ASSUME NEW f \in Calls, DOMAIN f = {} PROVE f = <<>>
  BY <1>1, <1>3, CallsAre
<1> QED
  BY <1>1, <1>2, <1>3

(* A call is suspended, or resumed. *)
LEMMA CallsChange ==
  ASSUME NEW f \in Calls, NEW a \in 1 .. Beyond, NEW p \in Addresses
  PROVE  /\ TryAdd(f, a, p) \in Calls
         /\ DOMAIN TryAdd(f, a, p) = DOMAIN f \cup {a}
         /\ \A x \in DOMAIN f : TryAdd(f, a, p)[x] = f[x]
         /\ a \notin DOMAIN f => TryAdd(f, a, p)[a] = p
         /\ Without(f, a) \in Calls
         /\ DOMAIN Without(f, a) = DOMAIN f \ {a}
         /\ \A x \in DOMAIN f \ {a} : Without(f, a)[x] = f[x]
BY CallsAre DEF TryAdd, Set, Without

-------------------------------------------------------------------------------
(* The parser. *)

(* An instruction ends inside the image, or where the image ends.           *)
LEMMA InstructionFits ==
  ASSUME NEW addr \in Addresses, NEW i \in InstructionsAt(addr)
  PROVE  /\ addr + i.length \in 1 .. Beyond
         /\ i.op \in {"goto", "branch", "call"} => i.to \in Addresses
BY ScannerAssumption
DEF InstructionsAt, Lengths, Targets, Addresses, Beyond, AllOps

(* Where an ended block leads is in the image, or just behind it.           *)
LEMMA EndLeads ==
  ASSUME ParserTypes, current.ended
  PROVE  /\ Fall \in 1 .. Beyond
         /\ LastOp \in {"goto", "branch", "call"} => code[EndAddr].to \in Addresses
         /\ EdgesTo \in Seq(1 .. Beyond)
<1>1. EndAddr \in DOMAIN code
  BY EmptySeq, LenProperties DEF ParserTypes, EndAddr, Last
<1>2. EndAddr \in Addresses /\ code[EndAddr] \in InstructionsAt(EndAddr)
  BY <1>1 DEF ParserTypes
<1>3. /\ Fall \in 1 .. Beyond
      /\ LastOp \in {"goto", "branch", "call"} => code[EndAddr].to \in Addresses
  BY <1>2, InstructionFits DEF Fall, After, LastOp
<1>4. LastOp \in {"goto", "branch", "call"} => code[EndAddr].to \in 1 .. Beyond
  BY <1>3, ScannerAssumption DEF Addresses, Beyond
<1>5. EdgesTo \in Seq(1 .. Beyond)
  <2> DEFINE to == code[EndAddr].to
  <2>1. CASE LastOp = "branch"
    <3>1. EdgesTo = <<Fall, to>>
      BY <2>1 DEF EdgesTo
    <3> QED
      BY <1>3, <1>4, <2>1, <3>1
  <2>2. CASE LastOp = "goto"
    <3>1. EdgesTo = <<to>>
      BY <2>2 DEF EdgesTo
    <3> QED
      BY <1>4, <2>2, <3>1
  <2>3. CASE LastOp = "halt"
    <3>1. EdgesTo = <<>>
      BY <2>3 DEF EdgesTo
    <3> QED
      BY <3>1, EmptySeq
  <2>4. CASE LastOp \notin {"branch", "goto", "halt"}
    <3>1. EdgesTo = <<Fall>>
      BY <2>4 DEF EdgesTo
    <3> QED
      BY <1>3, <3>1
  <2> QED
    BY <2>1, <2>2, <2>3, <2>4
<1> QED
  BY <1>3, <1>5

(* Where a block leads becomes a job for each address.                      *)
LEMMA JobsToTyped ==
  ASSUME NEW addrs \in Seq(1 .. Beyond)
  PROVE  JobsTo(addrs) \in Seq(Jobs)
<1>1. DOMAIN addrs = 1 .. Len(addrs) /\ Len(addrs) \in Nat
  BY LenProperties
<1>2. \A i \in 1 .. Len(addrs) : Job(addrs[i], None) \in Jobs
  BY ElementOfSeq, ScannerAssumption DEF Job, Jobs, None, Beyond
<1> QED
  BY <1>1, <1>2 DEF JobsTo

(* Reading an instruction keeps the parser inside the image.                *)
LEMMA ReadTypes ==
  ParserTypes /\ ReadInstruction => ParserTypes'
<1> SUFFICES ASSUME ParserTypes, Parsing, NEW i \in Decoded,
                    code' = Set(code, current.addr, i),
                    ReadOn(i) \/ ReadLast(i) \/ CutAtPadding(i) \/ ReadInvalid(i)
             PROVE  ParserTypes'
  BY DEF ReadInstruction
<1>1. current.addr \in Addresses /\ i \in InstructionsAt(current.addr)
  BY ScannerAssumption
  DEF Parsing, ParserTypes, Decoded, Addresses, Beyond, None
<1>2. /\ code' = [a \in DOMAIN code' |-> code'[a]]
      /\ \A a \in DOMAIN code' : a \in Addresses /\ code'[a] \in InstructionsAt(a)
      /\ DOMAIN code' = DOMAIN code \cup {current.addr}
  BY <1>1 DEF ParserTypes, Set
<1>3. /\ current.addr + i.length \in 1 .. Beyond
      /\ current.start \in 1 .. Beyond
      /\ current.addr \in 1 .. Beyond
  BY <1>1, InstructionFits, ScannerAssumption
  DEF Parsing, ParserTypes, None, Addresses, Beyond
<1>4. LET longer == Append(current.instrs, current.addr)
      IN  /\ longer \in Seq(Addresses)
          /\ longer # <<>>
          /\ \A j \in DOMAIN longer : longer[j] \in DOMAIN code'
  BY <1>1, <1>2, Appended DEF ParserTypes
<1>5. CASE ReadOn(i)
  <2>1. current' = [start  |-> current.start, addr |-> current.addr + i.length,
                    instrs |-> Append(current.instrs, current.addr),
                    ended  |-> current.ended]
    BY <1>5 DEF ReadOn, ParserTypes
  <2> QED
    BY <1>2, <1>3, <1>4, <2>1 DEF ParserTypes, None, Parsing
<1>6. CASE ReadLast(i)
  BY <1>2, <1>3, <1>4, <1>6 DEF ReadLast, ParserTypes, None, Parsing
<1>7. CASE CutAtPadding(i)
  <2>1. current.instrs # <<>>
    BY <1>7 DEF CutAtPadding, IsPaddingBoundary
  <2>2. CASE current.addr \in blockStarts
    <3>1. current' = [start  |-> current.start, addr |-> current.addr,
                      instrs |-> current.instrs, ended |-> TRUE]
      BY <1>7, <2>2 DEF CutAtPadding, ParserTypes
    <3> QED
      BY <1>2, <1>3, <2>1, <3>1 DEF ParserTypes, None
  <2>3. CASE current.addr \notin blockStarts
    <3>1. current' = [start  |-> current.addr, addr |-> current.addr,
                      instrs |-> <<>>, ended |-> FALSE]
      BY <1>7, <2>3 DEF CutAtPadding, ParserTypes, Parsing
    <3> QED
      BY <1>2, <1>3, <3>1, EmptySeq, LenProperties DEF ParserTypes, None
  <2> QED
    BY <2>2, <2>3
<1>8. CASE ReadInvalid(i)
  BY <1>2, <1>8, EmptySeq, ScannerAssumption
  DEF ReadInvalid, BadBlock, ParserTypes, NoBlock, None, Beyond
<1> QED
  BY <1>5, <1>6, <1>7, <1>8

(* The parts of a worker have their types, those of the running one too.    *)
LEMMA PartsTyped ==
  ASSUME ListTypes
  PROVE  /\ Len(workers) \in Nat
         /\ DOMAIN workers = 1 .. Len(workers)
         /\ \A w \in DOMAIN workers :
               /\ workers[w] \in Records
               /\ Proc(w) \in Addresses
               /\ workers[w].jobs \in Seq(Jobs)
               /\ workers[w].calls \in Calls
               /\ workers[w].callers \in Seq(Notes)
         /\ running # None => running \in DOMAIN workers
         /\ None \notin DOMAIN workers
<1>1. /\ Len(workers) \in Nat
      /\ DOMAIN workers = 1 .. Len(workers)
      /\ \A w \in DOMAIN workers : workers[w] \in Records
  BY LenProperties, ElementOfSeq DEF ListTypes
<1> QED
  BY <1>1 DEF ListTypes, Records, Proc, None

(* One field of a worker changes, the others do not.                        *)
LEMMA FieldsChange ==
  ASSUME NEW r \in Records, NEW x
  PROVE  /\ [r EXCEPT !.calls = x].calls = x
         /\ [r EXCEPT !.calls = x].proc = r.proc
         /\ [r EXCEPT !.calls = x].jobs = r.jobs
         /\ [r EXCEPT !.calls = x].callers = r.callers
         /\ [r EXCEPT !.callers = x].callers = x
         /\ [r EXCEPT !.callers = x].proc = r.proc
         /\ [r EXCEPT !.callers = x].jobs = r.jobs
         /\ [r EXCEPT !.callers = x].calls = r.calls
         /\ [r EXCEPT !.jobs = x].jobs = x
         /\ [r EXCEPT !.jobs = x].proc = r.proc
         /\ [r EXCEPT !.jobs = x].calls = r.calls
         /\ [r EXCEPT !.jobs = x].callers = r.callers
BY DEF Records

(* Every other action leaves the code alone, and the parser with a block    *)
(* that has no instructions yet, or where it was.                           *)
LEMMA ParserTypesKept ==
  ASSUME ParserTypes, ListTypes, [Next]_vars
  PROVE  ParserTypes'
<1>1. CASE ReadInstruction
  BY <1>1, ReadTypes
<1>2. CASE TakeJob
  <2>1. Head(Me.jobs) \in Jobs
    BY <1>2, PartsTyped, HeadTailProperties DEF TakeJob, Free, AtWork, Me
  <2>2. Head(Me.jobs).addr \in 1 .. Beyond
    BY <2>1 DEF Jobs
  <2>3. /\ code' = code
        /\ current' = [start |-> Head(Me.jobs).addr, addr |-> Head(Me.jobs).addr,
                       instrs |-> <<>>, ended |-> FALSE]
    BY <1>2 DEF TakeJob
  <2> QED
    BY <2>2, <2>3, EmptySeq, LenProperties DEF ParserTypes, None
<1>3. CASE code' = code /\ current' = NoBlock
  BY <1>3, EmptySeq, LenProperties, ScannerAssumption
  DEF ParserTypes, NoBlock, None, Beyond
<1>4. CASE UNCHANGED <<code, current>>
  BY <1>4 DEF ParserTypes
<1>5. FallOff \/ HandleBlockEnd => code' = code /\ current' = NoBlock
  BY DEF FallOff, BadBlock, HandleBlockEnd, EndIsShared, EndJumps, EndReturn,
         EndCallReturning, EndCallUnknown
<1>6. \/ StartSeed \/ RunNext \/ Complete \/ DropJob \/ FallIntoBlock
      \/ ResumeWorker
      => UNCHANGED <<code, current>>
  BY DEF StartSeed, RunNext, Complete, DropJob, FallIntoBlock, ResumeWorker,
         ResumeSuspended, ResumeActive, scanVars
<1>7. SplitBlockEndingAt /\ UNCHANGED <<workerVars, current>>
      => UNCHANGED <<code, current>>
  BY DEF SplitBlockEndingAt, SplitSelf, SplitTail, SplitB, SplitA, SplitFails
<1>8. UNCHANGED vars => UNCHANGED <<code, current>>
  BY DEF vars, scanVars
<1> QED
  BY <1>1, <1>2, <1>3, <1>4, <1>5, <1>6, <1>7, <1>8 DEF Next

-------------------------------------------------------------------------------
(* Steps that change nothing of the workers but the jobs of the one that    *)
(* runs.                                                                    *)

JobsOnly ==
    /\ workers' \in Seq(Records)
    /\ DOMAIN workers' = DOMAIN workers
    /\ \A w \in DOMAIN workers :
          /\ workers'[w].proc = workers[w].proc
          /\ workers'[w].calls = workers[w].calls
          /\ workers'[w].callers = workers[w].callers
          /\ w # running => workers'[w].jobs = workers[w].jobs

(* The running worker may report that its procedure returns. *)
Reports ==
    /\ ~Idle(running)
    /\ current' = NoBlock
    /\ returning' = returning \cup {Proc(running)}
    /\ resuming' = (Me.callers # <<>>)

NewBlock ==
    \/ current' = NoBlock
    \/ current # NoBlock /\ current'.start = current.start
    \/ current'.start \in blockStarts' \ blockStarts

Works ==
    /\ running # None
    /\ ~resuming
    /\ Reports \/ UNCHANGED <<returning, resuming>>
    /\ Proc(running) \in blockStarts'
    /\ Idle(running) => Idle(running)' \/ Proc(running) \notin blockStarts
    /\ NewBlock

JobStep ==
    /\ JobsOnly
    /\ blockStarts \subseteq blockStarts'
    /\ UNCHANGED <<procedures, wl, active, suspended, running>>
    /\ Works \/ UNCHANGED <<workers, returning, resuming, current>>

(* The work list of the running worker is replaced by another.              *)
LEMMA JobsChange ==
  ASSUME ListTypes, running # None, NEW js \in Seq(Jobs),
         workers' = [workers EXCEPT ![running].jobs = js]
  PROVE  JobsOnly /\ workers'[running].jobs = js
<1>1. /\ running \in DOMAIN workers
      /\ workers \in Seq(Records)
      /\ workers[running] \in Records
  BY PartsTyped DEF ListTypes
<1>2. [workers[running] EXCEPT !.jobs = js] \in Records
  BY <1>1 DEF Records
<1>3. workers' = [workers EXCEPT ![running] =
                     [workers[running] EXCEPT !.jobs = js]]
  OBVIOUS
<1>4. workers' \in Seq(Records) /\ DOMAIN workers' = DOMAIN workers
  BY <1>1, <1>2, <1>3, ExceptSeq, LenProperties
<1>5. \A w \in DOMAIN workers :
         workers'[w] = IF w = running
                       THEN [workers[running] EXCEPT !.jobs = js]
                       ELSE workers[w]
  BY <1>1, <1>3
<1> QED
  BY <1>1, <1>4, <1>5 DEF JobsOnly, Records

(* No worker changes.                                                       *)
LEMMA JobsKept ==
  ASSUME ListTypes, workers' = workers
  PROVE  JobsOnly
BY DEF JobsOnly, ListTypes

(* Whoever has a block, or a job with a caller, is past its first job.      *)
LEMMA NotIdle ==
  ASSUME ScannerInv, running # None
  PROVE  /\ current # NoBlock => ~Idle(running)
         /\ Me.jobs # <<>> /\ Head(Me.jobs).caller # None => ~Idle(running)
         /\ ~Idle(running) => Proc(running) \in blockStarts
<1>1. running \in DOMAIN workers
  BY PartsTyped DEF ScannerInv
<1>2. \A p : Head(<<Job(p, None)>>).caller = None
  BY DEF Job
<1> QED
  BY <1>1, <1>2 DEF ScannerInv, FirstComes, Idle, Me

(* The running worker takes its next job, or drops it.                      *)
LEMMA WorkingJobs ==
  ASSUME ScannerInv, TakeJob \/ DropJob \/ FallIntoBlock
  PROVE  JobStep
<1>1. /\ running # None
      /\ ~resuming
      /\ current = NoBlock
      /\ Me.jobs # <<>>
  BY DEF TakeJob, DropJob, FallIntoBlock, Free, AtWork
<1>2. /\ Me.jobs \in Seq(Jobs)
      /\ running \in DOMAIN workers
      /\ ListTypes
  BY <1>1, PartsTyped DEF ScannerInv, Me
<1>3. Tail(Me.jobs) \in Seq(Jobs)
  BY <1>1, <1>2, HeadTailProperties
<1>4. workers' = [workers EXCEPT ![running].jobs = Tail(Me.jobs)]
  BY <1>1, <1>2 DEF TakeJob, DropJob, FallIntoBlock, JobTaken, Me
<1>5. JobsOnly /\ workers'[running].jobs = Tail(Me.jobs)
  BY <1>1, <1>2, <1>3, <1>4, JobsChange
<1>6. ASSUME Idle(running)
      PROVE  /\ Head(Me.jobs) = Job(Proc(running), None)
             /\ Tail(Me.jobs) = <<>>
             /\ workers[running].calls = <<>>
  <2>1. Me.jobs = <<Job(Proc(running), None)>> /\ workers[running].calls = <<>>
    BY <1>1, <1>6 DEF Idle, Me
  <2>2. \A e : Head(<<e>>) = e /\ Tail(<<e>>) = <<>>
    OBVIOUS
  <2> QED
    BY <2>1, <2>2
<1>7. CASE TakeJob
  <2>1. /\ Head(Me.jobs).addr \notin blockStarts
        /\ blockStarts' = blockStarts \cup {Head(Me.jobs).addr}
        /\ current'.start = Head(Me.jobs).addr
    BY <1>7 DEF TakeJob
  <2>2. UNCHANGED <<procedures, wl, active, suspended, running,
                    returning, resuming>>
    BY <1>7 DEF TakeJob
  <2>3. Idle(running) => /\ Proc(running) \notin blockStarts
                         /\ Proc(running) \in blockStarts'
    BY <1>6, <2>1 DEF Job
  <2>4. Works
    BY <1>1, <2>1, <2>2, <2>3, NotIdle DEF Works, NewBlock
  <2> QED
    BY <1>5, <2>1, <2>2, <2>4 DEF JobStep
<1>8. CASE DropJob
  <2>1. UNCHANGED <<procedures, wl, active, suspended, running,
                    returning, resuming, current, blockStarts>>
    BY <1>8 DEF DropJob, scanVars
  <2>2. Idle(running) => Proc(running) \in blockStarts
    BY <1>6, <1>8 DEF DropJob, Job
  <2>3. Idle(running) => Idle(running)'
    BY <1>1, <1>2, <1>5, <1>6, <2>1 DEF Idle, JobsOnly
  <2>4. Works
    BY <1>1, <2>1, <2>2, <2>3, NotIdle DEF Works, NewBlock
  <2> QED
    BY <1>5, <2>1, <2>4 DEF JobStep
<1>9. CASE FallIntoBlock
  <2>1. UNCHANGED <<procedures, wl, active, suspended, running,
                    current, blockStarts>>
    BY <1>9 DEF FallIntoBlock
  <2>2. ~Idle(running)
    BY <1>1, <1>9, NotIdle DEF FallIntoBlock
  <2>3. Reports
    BY <1>1, <1>9, <2>1, <2>2
    DEF Reports, FallIntoBlock, ProcessReturn, Me, Proc
  <2>4. Works
    BY <1>1, <2>1, <2>2, <2>3, NotIdle DEF Works, NewBlock
  <2> QED
    BY <1>5, <2>1, <2>4 DEF JobStep
<1> QED
  BY <1>7, <1>8, <1>9

(* The parser leaves the workers alone. *)
LEMMA ParsingSteps ==
  ASSUME ScannerInv, ReadInstruction \/ FallOff \/ EndIsShared
  PROVE  JobStep
<1>1. /\ running # None
      /\ ~resuming
      /\ current # NoBlock
      /\ UNCHANGED workerVars
  BY DEF ReadInstruction, FallOff, EndIsShared, Parsing, Ended, AtWork, NoBlock
<1>2. ListTypes
  BY DEF ScannerInv
<1>3. JobsOnly
  BY <1>1, <1>2, JobsKept DEF workerVars
<1>4. blockStarts \subseteq blockStarts'
  BY DEF ReadInstruction, FallOff, EndIsShared, ReadOn, ReadLast, CutAtPadding,
         ReadInvalid, BadBlock
<1>5. NewBlock
  <2>1. CASE FallOff \/ EndIsShared
    BY <2>1 DEF NewBlock, FallOff, BadBlock, EndIsShared
  <2>2. ASSUME NEW i, ReadOn(i) \/ ReadLast(i) PROVE NewBlock
    BY <1>1, <2>2 DEF NewBlock, ReadOn, ReadLast, ScannerInv, ParserTypes
  <2>3. ASSUME NEW i, CutAtPadding(i) PROVE NewBlock
    BY <1>1, <2>3 DEF NewBlock, CutAtPadding, ScannerInv, ParserTypes
  <2>4. ASSUME NEW i, ReadInvalid(i) PROVE NewBlock
    BY <2>4 DEF NewBlock, ReadInvalid, BadBlock
  <2> QED
    BY <2>1, <2>2, <2>3, <2>4 DEF ReadInstruction
<1>6. Works
  BY <1>1, <1>4, <1>5, NotIdle DEF Works, workerVars
<1> QED
  BY <1>1, <1>3, <1>4, <1>6 DEF JobStep, workerVars

(* What the end of a block asks for becomes a job of the same worker.       *)
LEMMA EndingSteps ==
  ASSUME ScannerInv, EndJumps \/ EndReturn \/ EndCallReturning
  PROVE  JobStep
<1>1. /\ running # None
      /\ ~resuming
      /\ current.ended
      /\ current # NoBlock
      /\ current' = NoBlock
      /\ blockStarts' = blockStarts
      /\ UNCHANGED <<procedures, wl, active, suspended, running>>
  BY DEF EndJumps, EndReturn, EndCallReturning, Ended, AtWork, NoBlock
<1>2. ListTypes /\ ParserTypes
  BY DEF ScannerInv
<1>3. Me.jobs \in Seq(Jobs) /\ running \in DOMAIN workers
  BY <1>1, <1>2, PartsTyped DEF Me
<1>4. ~Idle(running) /\ Proc(running) \in blockStarts
  BY <1>1, NotIdle
<1>5. CASE EndJumps
  <2>1. workers' = [workers EXCEPT ![running].jobs = Me.jobs \o JobsTo(EdgesTo)]
    BY <1>3, <1>5 DEF EndJumps, Me
  <2>2. Me.jobs \o JobsTo(EdgesTo) \in Seq(Jobs)
    BY <1>1, <1>2, <1>3, EndLeads, JobsToTyped, ConcatProperties
  <2>3. JobsOnly
    BY <1>1, <1>2, <2>1, <2>2, JobsChange
  <2>4. UNCHANGED <<returning, resuming>>
    BY <1>5 DEF EndJumps
  <2> QED
    BY <1>1, <1>4, <2>3, <2>4 DEF JobStep, Works, NewBlock
<1>6. CASE EndReturn
  <2>1. workers' = workers
    BY <1>6 DEF EndReturn
  <2>2. JobsOnly
    BY <1>2, <2>1, JobsKept
  <2>3. Reports
    BY <1>1, <1>4, <1>6 DEF Reports, EndReturn, ProcessReturn, Me, Proc
  <2> QED
    BY <1>1, <1>4, <2>2, <2>3 DEF JobStep, Works, NewBlock
<1>7. CASE EndCallReturning
  <2>1. UNCHANGED <<returning, resuming>>
    BY <1>7 DEF EndCallReturning
  <2>2. CASE workers' = workers
    BY <1>1, <1>2, <1>4, <2>1, <2>2, JobsKept DEF JobStep, Works, NewBlock
  <2>3. CASE workers' # workers
    <3>1. workers' = [workers EXCEPT ![running].jobs =
                         Append(Me.jobs, Job(Fall, None))]
      BY <1>3, <1>7, <2>3 DEF EndCallReturning, Me
    <3>2. Job(Fall, None) \in Jobs
      BY <1>1, <1>2, EndLeads, ScannerAssumption DEF Job, Jobs, None, Beyond
    <3>3. Append(Me.jobs, Job(Fall, None)) \in Seq(Jobs)
      BY <1>3, <3>2, AppendProperties
    <3>4. JobsOnly
      BY <1>1, <1>2, <3>1, <3>3, JobsChange
    <3> QED
      BY <1>1, <1>4, <2>1, <3>4 DEF JobStep, Works, NewBlock
  <2> QED
    BY <2>2, <2>3
<1> QED
  BY <1>5, <1>6, <1>7

(* Splitting blocks and doing nothing. *)
LEMMA OtherSteps ==
  ASSUME ScannerInv,
         \/ SplitBlockEndingAt /\ UNCHANGED <<workerVars, current>>
         \/ UNCHANGED vars
  PROVE  JobStep
<1>1. UNCHANGED <<workerVars, current>>
  BY DEF vars
<1>2. blockStarts \subseteq blockStarts'
  BY DEF SplitBlockEndingAt, SplitSelf, SplitTail, SplitB, SplitA, SplitFails,
         vars, scanVars
<1>3. JobsOnly
  BY <1>1, JobsKept DEF ScannerInv, workerVars
<1> QED
  BY <1>1, <1>2, <1>3 DEF JobStep, workerVars

(* The running worker is the active one of its procedure.                   *)
LEMMA RunningIsActive ==
  ASSUME ListTypes, NoWorkerLost, Listed, running # None
  PROVE  /\ Proc(running) \in DOMAIN active
         /\ active[Proc(running)] = running
         /\ Alive(running)
<1>1. PICK p \in DOMAIN active : active[p] = running
  BY DEF NoWorkerLost
<1>2. Proc(running) = p
  BY <1>1 DEF Listed
<1> QED
  BY <1>1, <1>2 DEF Alive, Proc

(* Jobs come and go, the lists of workers stay.                             *)
LEMMA JobStepLists ==
  ASSUME ScannerInv, JobStep
  PROVE  (ListTypes /\ NoWorkerLost /\ Listed)'
<1>1. /\ ListTypes /\ NoWorkerLost /\ Listed /\ JobsOnly
      /\ UNCHANGED <<procedures, wl, active, suspended, running>>
      /\ None \notin DOMAIN workers
  BY PartsTyped DEF ScannerInv, JobStep
<1>2. ListTypes'
  <2>1. resuming' \in BOOLEAN
    BY <1>1 DEF JobStep, Works, Reports, ListTypes
  <2> QED
    BY <1>1, <2>1 DEF ListTypes, JobsOnly
<1>3. Listed'
  BY <1>1 DEF Listed, Proc, JobsOnly, ListTypes
<1>4. ASSUME NEW w \in DOMAIN workers', workers'[w].jobs # <<>>
      PROVE  /\ workers'[w].proc \in DOMAIN active'
             /\ active'[workers'[w].proc] = w
  BY <1>1, <1>4, RunningIsActive DEF NoWorkerLost, JobsOnly, Proc
<1>5. NoWorkerLost'
  BY <1>1, <1>4 DEF NoWorkerLost
<1> QED
  BY <1>2, <1>3, <1>5

(* Only the first worker of a procedure reports a return, so all notes are  *)
(* with the worker that is about to take them.                              *)
LEMMA JobStepNotes ==
  ASSUME ScannerInv, JobStep
  PROVE  (CurrentIsNew /\ Noted /\ NotedOnce)'
<1>1. /\ CurrentIsNew /\ Noted /\ NotedOnce /\ JobsOnly
      /\ UNCHANGED <<active, suspended, running>>
      /\ blockStarts \subseteq blockStarts'
      /\ Works \/ UNCHANGED <<workers, returning, resuming, current>>
  BY DEF ScannerInv, JobStep
<1>2. \A w \in DOMAIN workers : Alive(w)' <=> Alive(w)
  BY <1>1 DEF Alive, JobsOnly
<1>3. CurrentIsNew'
  BY <1>1 DEF CurrentIsNew, JobsOnly, Works, Reports, NewBlock
<1>4. NotedOnce'
  BY <1>1 DEF NotedOnce, JobsOnly
<1>5. ASSUME NEW w \in DOMAIN workers, NEW from \in DOMAIN workers[w].calls
      PROVE  /\ Alive(w)'
             /\ \E v \in DOMAIN workers : \E i \in DOMAIN workers[v].callers :
                   /\ Proc(v) = workers[w].calls[from]
                   /\ workers[v].callers[i].worker = w
                   /\ workers[v].callers[i].call = from
  BY <1>1, <1>2 DEF Noted
<1>6. ASSUME NEW v \in DOMAIN workers, NEW i \in DOMAIN workers[v].callers
      PROVE  /\ workers[v].callers[i].worker \in DOMAIN workers
             /\ workers[v].callers[i].call \in
                   DOMAIN workers[workers[v].callers[i].worker].calls
             /\ Proc(v) \in returning' => resuming' /\ v = running
  <2>1. CASE UNCHANGED <<returning, resuming>>
    BY <1>1, <2>1 DEF Noted
  <2>2. CASE Works /\ Reports
    <3>1. Proc(v) \in returning => FALSE
      BY <1>1, <2>2 DEF Noted, Works
    <3>2. ASSUME Proc(v) = Proc(running) PROVE v = running
      <4>1. /\ running \in DOMAIN workers
            /\ Alive(running)
            /\ ~Idle(running)
            /\ DOMAIN workers \subseteq Nat
        BY <2>2, PartsTyped, RunningIsActive DEF ScannerInv, Works, Reports
      <4> QED
        BY <3>2, <4>1 DEF ScannerInv, FirstComes
    <3>3. v = running => Me.callers # <<>>
      BY EmptySeq, LenProperties DEF Me
    <3> QED
      BY <1>1, <2>2, <3>1, <3>2, <3>3 DEF Noted, Works, Reports
  <2> QED
    BY <1>1, <2>1, <2>2 DEF Works
<1>7. resuming' => running # None /\ workers[running].callers # <<>>
  BY <1>1 DEF Noted, Works, Reports, Me
<1>8. \A w \in DOMAIN workers : Proc(w)' = Proc(w)
  BY <1>1 DEF JobsOnly, Proc
<1>9. resuming' => running \in DOMAIN workers
  BY <1>7, PartsTyped DEF ScannerInv
<1>10. Noted'
  <2>1. ASSUME NEW w \in DOMAIN workers', NEW from \in DOMAIN workers'[w].calls
        PROVE  /\ Alive(w)'
               /\ \E v \in DOMAIN workers' : \E i \in DOMAIN workers'[v].callers :
                     /\ Proc(v)' = workers'[w].calls[from]
                     /\ workers'[v].callers[i].worker = w
                     /\ workers'[v].callers[i].call = from
    BY <1>1, <1>5, <1>8 DEF JobsOnly
  <2>2. ASSUME NEW v \in DOMAIN workers', NEW i \in DOMAIN workers'[v].callers
        PROVE  /\ workers'[v].callers[i].worker \in DOMAIN workers'
               /\ workers'[v].callers[i].call \in
                     DOMAIN workers'[workers'[v].callers[i].worker].calls
               /\ Proc(v)' \in returning' => resuming' /\ v = running'
    BY <1>1, <1>6, <1>8 DEF JobsOnly
  <2>3. resuming' => running' # None /\ Me'.callers # <<>>
    BY <1>1, <1>7, <1>9 DEF JobsOnly, Me
  <2> QED
    BY <2>1, <2>2, <2>3 DEF Noted
<1> QED
  BY <1>3, <1>4, <1>10

(* A worker that has something to do has its procedure's entry scanned.     *)
LEMMA JobStepFirst ==
  ASSUME ScannerInv, JobStep
  PROVE  FirstComes'
<1>1. /\ FirstComes /\ JobsOnly
      /\ UNCHANGED <<active, suspended, running>>
      /\ blockStarts \subseteq blockStarts'
      /\ Works \/ UNCHANGED <<workers, returning, resuming, current>>
  BY DEF ScannerInv, JobStep
<1>2. \A w \in DOMAIN workers : Alive(w)' <=> Alive(w)
  BY <1>1 DEF Alive, JobsOnly
<1>3. \A w \in DOMAIN workers : w # running /\ Idle(w) => Idle(w)'
  BY <1>1 DEF Idle, JobsOnly, Proc
<1>4. CASE Works
  BY <1>1, <1>2, <1>3, <1>4 DEF FirstComes, JobsOnly, Works, Proc
<1>5. CASE UNCHANGED <<workers, returning, resuming, current>>
  <2>1. \A w \in DOMAIN workers : Idle(w)' <=> Idle(w)
    BY <1>1, <1>5 DEF Idle, Proc
  <2> QED
    BY <1>1, <1>2, <1>5, <2>1 DEF FirstComes, Proc
<1> QED
  BY <1>1, <1>4, <1>5

-------------------------------------------------------------------------------
(* The work list. *)

(* The first worker of the work list gets its turn.                         *)
LEMMA WorkListTaken ==
  ASSUME NEW S, NEW s \in Seq(S), s # <<>>, IsInjective(s)
  PROVE  /\ ToSet(s) = ToSet(Tail(s)) \cup {Head(s)}
         /\ Head(s) \notin ToSet(Tail(s))
         /\ IsInjective(Tail(s))
<1>1. /\ DOMAIN s \subseteq Nat
      /\ DOMAIN Tail(s) \subseteq Nat
      /\ 0 \notin DOMAIN Tail(s)
  BY HeadTailProperties, LenProperties
<1>2. /\ Head(s) = s[1]
      /\ 1 \in DOMAIN s
      /\ \A i \in DOMAIN Tail(s) : i + 1 \in DOMAIN s /\ Tail(s)[i] = s[i + 1]
      /\ \A i \in DOMAIN s : i # 1 => i - 1 \in DOMAIN Tail(s)
  BY Taken
<1>3. ToSet(s) \subseteq ToSet(Tail(s)) \cup {Head(s)}
  <2> SUFFICES ASSUME NEW i \in DOMAIN s, i # 1
               PROVE  s[i] \in ToSet(Tail(s))
    BY <1>2 DEF ToSet
  <2>1. i - 1 \in DOMAIN Tail(s) /\ Tail(s)[i - 1] = s[(i - 1) + 1]
    BY <1>2
  <2>2. (i - 1) + 1 = i
    BY <1>1
  <2> QED
    BY <2>1, <2>2 DEF ToSet
<1>4. ToSet(Tail(s)) \cup {Head(s)} \subseteq ToSet(s)
  BY <1>2 DEF ToSet
<1>5. \A i, j \in DOMAIN s : s[i] = s[j] => i = j
  BY DEF IsInjective
<1>6. Head(s) \notin ToSet(Tail(s))
  <2> SUFFICES ASSUME NEW i \in DOMAIN Tail(s), s[1] = Tail(s)[i] PROVE FALSE
    BY <1>2 DEF ToSet
  <2>1. s[1] = s[i + 1] /\ i + 1 \in DOMAIN s
    BY <1>2
  <2>2. 1 = i + 1
    BY <1>2, <1>5, <2>1
  <2> QED
    BY <1>1, <2>2
<1>7. IsInjective(Tail(s))
  <2> SUFFICES ASSUME NEW i \in DOMAIN Tail(s), NEW j \in DOMAIN Tail(s),
                      Tail(s)[i] = Tail(s)[j]
               PROVE  i = j
    BY DEF IsInjective
  <2>1. i + 1 = j + 1
    BY <1>2, <1>5
  <2> QED
    BY <1>1, <2>1
<1> QED
  BY <1>3, <1>4, <1>6, <1>7

(* A worker joins the work list at its end.                                 *)
LEMMA WorkListExtended ==
  ASSUME NEW S, NEW s \in Seq(S), NEW e \in S
  PROVE  /\ ToSet(Append(s, e)) = ToSet(s) \cup {e}
         /\ IsInjective(s) /\ e \notin ToSet(s) => IsInjective(Append(s, e))
BY Appended DEF ToSet, IsInjective

(* What a worker is does not change when it gets its turn or loses it.      *)
LEMMA RunNextStep ==
  ASSUME ScannerInv, RunNext
  PROVE  /\ (ListTypes /\ NoWorkerLost /\ Listed)'
         /\ (CurrentIsNew /\ Noted /\ NotedOnce /\ FirstComes)'
<1>1. /\ ListTypes /\ NoWorkerLost /\ Listed /\ CurrentIsNew /\ Noted
      /\ NotedOnce /\ FirstComes
      /\ running = None
      /\ wl # <<>>
      /\ running' = Head(wl)
      /\ wl' = Tail(wl)
      /\ UNCHANGED <<workers, procedures, returning, active, suspended, resuming,
                     current, blockStarts>>
  BY DEF ScannerInv, RunNext, scanVars
<1>2. current = NoBlock /\ ~resuming
  BY <1>1 DEF CurrentIsNew, Noted
<1>3. /\ running' \in DOMAIN workers
      /\ running' # None
      /\ wl' \in Seq(DOMAIN workers)
  BY <1>1, HeadTailProperties, PartsTyped DEF ListTypes
<1>4. ListTypes'
  BY <1>1, <1>3 DEF ListTypes
<1>5. /\ ToSet(wl) = ToSet(wl') \cup {running'}
      /\ running' \notin ToSet(wl')
      /\ IsInjective(wl')
  BY <1>1, WorkListTaken DEF ListTypes, NoWorkerLost
<1>6. NoWorkerLost'
  BY <1>1, <1>3, <1>5 DEF NoWorkerLost
<1>7. /\ \A w : Proc(w)' = Proc(w)
      /\ \A w : Alive(w)' <=> Alive(w)
      /\ \A w : Idle(w) => Idle(w)'
  BY <1>1, <1>2 DEF Proc, Alive, Idle
<1>8. Listed' /\ CurrentIsNew' /\ NotedOnce'
  BY <1>1, <1>2, <1>7 DEF Listed, CurrentIsNew, NotedOnce
<1>9. FirstComes'
  BY <1>1, <1>7 DEF FirstComes
<1>10. Noted'
  BY <1>1, <1>2, <1>7 DEF Noted
<1> QED
  BY <1>4, <1>6, <1>8, <1>9, <1>10

(* A worker without jobs is retired, or suspended if calls of it wait.      *)
LEMMA CompleteStep ==
  ASSUME ScannerInv, Complete
  PROVE  /\ (ListTypes /\ NoWorkerLost /\ Listed)'
         /\ (CurrentIsNew /\ Noted /\ NotedOnce /\ FirstComes)'
<1>1. /\ ListTypes /\ NoWorkerLost /\ Listed /\ CurrentIsNew /\ Noted
      /\ NotedOnce /\ FirstComes
      /\ running # None
      /\ ~resuming
      /\ current = NoBlock
      /\ workers[running].jobs = <<>>
      /\ running' = None
      /\ active' = Without(active, Proc(running))
      /\ UNCHANGED <<workers, wl, procedures, returning, resuming, current,
                     blockStarts>>
  BY DEF ScannerInv, Complete, scanVars, Free, AtWork, Me, Proc
<1>2. /\ running \in DOMAIN workers
      /\ Proc(running) \in DOMAIN active
      /\ active[Proc(running)] = running
      /\ Proc(running) \notin DOMAIN suspended
      /\ None \notin DOMAIN workers
  BY <1>1, PartsTyped, RunningIsActive DEF NoWorkerLost
<1>3. /\ DOMAIN active' = DOMAIN active \ {Proc(running)}
      /\ \A p \in DOMAIN active' : active'[p] = active[p]
      /\ active' \in [DOMAIN active' -> DOMAIN workers]
  BY <1>1 DEF Without, ListTypes
<1>4. /\ suspended' \in [DOMAIN suspended' -> DOMAIN workers]
      /\ DOMAIN suspended' =
            DOMAIN suspended \cup
               (IF workers[running].calls = <<>> THEN {} ELSE {Proc(running)})
      /\ \A p \in DOMAIN suspended : suspended'[p] = suspended[p]
      /\ Proc(running) \in DOMAIN suspended' =>
            suspended'[Proc(running)] = running
  <2>1. CASE workers[running].calls = <<>>
    BY <1>1, <1>2, <2>1 DEF Complete, ListTypes, Me
  <2>2. CASE workers[running].calls # <<>>
    <3>1. suspended' = Set(suspended, Proc(running), running)
      BY <1>2, <2>2 DEF Complete, TryAdd, Me, Proc
    <3> QED
      BY <1>1, <1>2, <2>2, <3>1 DEF Set, ListTypes
  <2> QED
    BY <2>1, <2>2
<1>5. ListTypes'
  BY <1>1, <1>3, <1>4 DEF ListTypes
<1>6. Listed'
  BY <1>1, <1>3, <1>4 DEF Listed, Proc
<1>7. NoWorkerLost'
  <2>1. \A w \in DOMAIN workers :
           workers[w].jobs # <<>> => Proc(w) \in DOMAIN active' /\ active'[Proc(w)] = w
    BY <1>1, <1>2, <1>3 DEF NoWorkerLost, Proc
  <2>2. {active'[p] : p \in DOMAIN active'} = ToSet(wl)
    <3>1. {active[p] : p \in DOMAIN active} = ToSet(wl) \cup {running}
      BY <1>1 DEF NoWorkerLost
    <3>2. \A p \in DOMAIN active : active[p] = running => p = Proc(running)
      BY <1>1 DEF Listed
    <3>3. running \notin ToSet(wl)
      BY <1>1 DEF NoWorkerLost
    <3> QED
      BY <1>2, <1>3, <3>1, <3>2, <3>3
  <2>3. None \notin ToSet(wl)
    BY <1>1, <1>2 DEF ListTypes, ToSet
  <2>4. DOMAIN active' \cap DOMAIN suspended' = {}
    BY <1>1, <1>3, <1>4 DEF NoWorkerLost
  <2> QED
    BY <1>1, <2>1, <2>2, <2>3, <2>4 DEF NoWorkerLost, Proc
<1>8. \A w \in DOMAIN workers :
         /\ w # running => (Alive(w)' <=> Alive(w))
         /\ Idle(w) => Idle(w)'
  BY <1>1, <1>2, <1>3, <1>4 DEF Alive, Idle, Proc, Listed
<1>9. \A w : w = running /\ workers[w].calls # <<>> => Alive(w)'
  BY <1>1, <1>2, <1>4 DEF Alive, Proc
<1>10. CurrentIsNew' /\ NotedOnce'
  BY <1>1 DEF CurrentIsNew, NotedOnce
<1>11. Noted'
  <2>1. workers[running].calls = <<>> => DOMAIN workers[running].calls = {}
    BY <1>1, <1>2, PartsTyped, NoCalls
  <2> QED
    BY <1>1, <1>8, <1>9, <2>1 DEF Noted, Proc
<1>12. FirstComes'
  <2>1. Alive(running)
    BY <1>1, RunningIsActive
  <2> QED
    BY <1>1, <1>8, <2>1 DEF FirstComes, Proc
<1> QED
  BY <1>5, <1>6, <1>7, <1>10, <1>11, <1>12

-------------------------------------------------------------------------------
(* Steps that make a worker. *)

New == Len(workers) + 1

(* Procedure proc has no worker at work or suspended, and gets a new one.   *)
Hired(proc) ==
    /\ proc \in Addresses
    /\ proc \notin DOMAIN active \cup DOMAIN suspended
    /\ workers' \in Seq(Records)
    /\ DOMAIN workers' = DOMAIN workers \cup {New}
    /\ workers'[New].proc = proc
    /\ workers'[New].jobs = <<Job(proc, None)>>
    /\ workers'[New].calls = <<>>
    /\ \A w \in DOMAIN workers : /\ workers'[w].proc = workers[w].proc
                                 /\ workers'[w].jobs = workers[w].jobs
    /\ procedures' = procedures \cup {proc}
    /\ active' = Set(active, proc, New)
    /\ wl' = Append(wl, New)
    /\ UNCHANGED <<suspended, running, resuming>>

(* The name of a new worker is not in use.                                  *)
LEMMA NewIsNew ==
  ASSUME ListTypes
  PROVE  /\ New \notin DOMAIN workers
         /\ New # None
         /\ \A w \in DOMAIN workers : w < New /\ ~(New < w)
         /\ DOMAIN workers \cup {New} \subseteq Nat
BY PartsTyped DEF New, None

(* A new worker is a worker.                                                *)
LEMMA NewWorkerTyped ==
  ASSUME NEW proc \in Addresses
  PROVE  /\ NewWorker(proc) \in Records
         /\ <<Job(proc, None)>> # <<>>
<1>1. Job(proc, None) \in Jobs
  BY ScannerAssumption DEF Job, Jobs, Addresses, Beyond, None
<1>2. <<Job(proc, None)>> \in Seq(Jobs) /\ <<>> \in Seq(Notes) /\ <<>> \in Calls
  BY <1>1, EmptySeq, NoCalls
<1> QED
  BY <1>2 DEF NewWorker, Records

(* A new worker is listed as active and changes nothing for the others.     *)
LEMMA HiredLists ==
  ASSUME ScannerInv, NEW proc, Hired(proc)
  PROVE  /\ (ListTypes /\ NoWorkerLost /\ Listed)'
         /\ \A w \in DOMAIN workers : Alive(w)' <=> Alive(w)
         /\ \A w \in DOMAIN workers : Proc(w)' = Proc(w)
<1>1. /\ ListTypes /\ NoWorkerLost /\ Listed
      /\ New \notin DOMAIN workers
      /\ New # None
      /\ running # New
  BY NewIsNew, PartsTyped DEF ScannerInv, ListTypes
<1>2. /\ DOMAIN active' = DOMAIN active \cup {proc}
      /\ active'[proc] = New
      /\ \A p \in DOMAIN active : active'[p] = active[p]
      /\ active' \in [DOMAIN active' -> DOMAIN workers']
  BY <1>1 DEF Hired, Set, ListTypes
<1>3. /\ wl' \in Seq(DOMAIN workers')
      /\ ToSet(wl') = ToSet(wl) \cup {New}
      /\ IsInjective(wl')
  <2>1. wl \in Seq(DOMAIN workers') /\ New \in DOMAIN workers'
    BY <1>1, SeqMonotonic DEF Hired, ListTypes
  <2>2. New \notin ToSet(wl)
    BY <1>1 DEF ListTypes, ToSet
  <2> QED
    BY <1>1, <2>1, <2>2, WorkListExtended, AppendProperties
    DEF Hired, NoWorkerLost
<1>4. ListTypes'
  BY <1>1, <1>2, <1>3 DEF ListTypes, Hired
<1>5. Listed'
  <2>1. /\ \A w \in DOMAIN workers : Proc(w)' = Proc(w) /\ Proc(w) \in procedures
        /\ \A p \in DOMAIN active : /\ active[p] \in DOMAIN workers
                                    /\ Proc(active[p]) = p
        /\ \A p \in DOMAIN suspended : /\ suspended[p] \in DOMAIN workers
                                       /\ Proc(suspended[p]) = p
    BY <1>1 DEF Listed, Hired, Proc, ListTypes
  <2>2. workers'[New].proc = proc
    BY DEF Hired
  <2>3. \A w \in DOMAIN workers' : workers'[w].proc \in procedures'
    BY <2>1, <2>2 DEF Hired, Proc
  <2>4. \A p \in DOMAIN active' : workers'[active'[p]].proc = p
    BY <1>2, <2>1, <2>2 DEF Proc
  <2>5. \A p \in DOMAIN suspended' : workers'[suspended'[p]].proc = p
    BY <2>1 DEF Hired, Proc
  <2> QED
    BY <2>3, <2>4, <2>5 DEF Listed, Proc
<1>6. NoWorkerLost'
  <2>1. \A w \in DOMAIN workers' :
           workers'[w].jobs # <<>> =>
              /\ workers'[w].proc \in DOMAIN active'
              /\ active'[workers'[w].proc] = w
    BY <1>1, <1>2 DEF NoWorkerLost, Hired
  <2>2. {active'[p] : p \in DOMAIN active'} =
           {active[p] : p \in DOMAIN active} \cup {New}
    BY <1>2
  <2>3. DOMAIN active' \cap DOMAIN suspended' = {}
    BY <1>1, <1>2 DEF NoWorkerLost, Hired
  <2> QED
    BY <1>1, <1>3, <2>1, <2>2, <2>3 DEF NoWorkerLost, Hired
<1>7. \A w \in DOMAIN workers : Alive(w)' <=> Alive(w)
  BY <1>1, <1>2 DEF Alive, Hired
<1>8. \A w \in DOMAIN workers : Proc(w)' = Proc(w)
  BY DEF Hired, Proc
<1> QED
  BY <1>4, <1>5, <1>6, <1>7, <1>8

(* A worker that replaces one which retired finds the entry of its          *)
(* procedure scanned.                                                       *)
LEMMA HiredFirst ==
  ASSUME ScannerInv, NEW proc, Hired(proc),
         blockStarts' = blockStarts,
         \A w \in DOMAIN workers : Idle(w) => Idle(w)'
  PROVE  FirstComes'
<1>1. /\ ListTypes /\ NoWorkerLost /\ FirstComes
      /\ New \notin DOMAIN workers
      /\ running # New
      /\ \A w \in DOMAIN workers : w < New /\ ~(New < w)
      /\ ~(New < New)
      /\ DOMAIN workers' = DOMAIN workers \cup {New}
  BY NewIsNew, PartsTyped DEF ScannerInv, ListTypes, Hired
<1>2. \A w \in DOMAIN workers : /\ Alive(w)' <=> Alive(w)
                                /\ Proc(w)' = Proc(w)
                                /\ workers'[w].jobs = workers[w].jobs
  BY HiredLists DEF Hired
<1>3. \A w : w = New => /\ Idle(w)'
                        /\ Proc(w)' = proc
                        /\ workers'[w].jobs # <<>>
  BY <1>1, NewWorkerTyped DEF Hired, Idle, Proc
<1>4. ASSUME NEW v \in DOMAIN workers, Proc(v) = proc
      PROVE  ~Alive(v) /\ proc \in blockStarts
  <2>1. ~Alive(v)
    BY <1>4 DEF Alive, Proc, Hired
  <2>2. workers[v].jobs = <<>>
    BY <1>1, <1>4 DEF NoWorkerLost, Proc, Hired
  <2> QED
    BY <1>1, <1>4, <2>1, <2>2 DEF FirstComes
<1>5. \A w \in DOMAIN workers' :
         Proc(w)' \in blockStarts \/ (Idle(w)' /\ workers'[w].jobs # <<>>)
  BY <1>1, <1>2, <1>3 DEF FirstComes
<1>6. ASSUME NEW v \in DOMAIN workers', NEW w \in DOMAIN workers',
             v < w, Proc(v)' = Proc(w)'
      PROVE  ~Alive(v)' /\ Proc(w)' \in blockStarts /\ Idle(w)'
  <2>1. CASE w \in DOMAIN workers
    BY <1>1, <1>2, <1>6, <2>1 DEF FirstComes
  <2>2. CASE w = New
    BY <1>1, <1>2, <1>3, <1>4, <1>6, <2>2
  <2> QED
    BY <1>1, <2>1, <2>2
<1> QED
  BY <1>5, <1>6 DEF FirstComes

(* An entry point gets a worker, unless its procedure is known.             *)
LEMMA StartSeedStep ==
  ASSUME ScannerInv, StartSeed
  PROVE  /\ (ListTypes /\ NoWorkerLost /\ Listed)'
         /\ (CurrentIsNew /\ Noted /\ NotedOnce /\ FirstComes)'
<1> DEFINE proc == Head(seeds)
<1>1. /\ ListTypes /\ Listed /\ CurrentIsNew /\ Noted /\ NotedOnce
      /\ running = None
      /\ UNCHANGED <<returning, suspended, running, resuming, current,
                     blockStarts>>
      /\ procedures' = procedures \cup {proc}
      /\ proc \in Addresses
  BY HeadTailProperties DEF ScannerInv, StartSeed, scanVars
<1>2. current = NoBlock /\ ~resuming
  BY <1>1 DEF CurrentIsNew, Noted
<1>3. CASE proc \in procedures
  <2>1. UNCHANGED <<workers, active, wl, procedures>>
    BY <1>1, <1>3 DEF StartSeed
  <2>2. JobStep
    BY <1>1, <2>1, JobsKept DEF JobStep
  <2> QED
    BY <2>2, JobStepLists, JobStepNotes, JobStepFirst
<1>4. CASE proc \notin procedures
  <2>1. proc \notin DOMAIN active \cup DOMAIN suspended
    BY <1>1, <1>4 DEF Listed, ListTypes
  <2>2. /\ workers' = Append(workers, NewWorker(proc))
        /\ active' = Set(active, proc, New)
        /\ wl' = <<New>>
        /\ wl = <<>>
    BY <1>4, <2>1 DEF StartSeed, New, TryAdd
  <2>3. /\ workers' \in Seq(Records)
        /\ DOMAIN workers' = DOMAIN workers \cup {New}
        /\ \A w \in DOMAIN workers : workers'[w] = workers[w]
        /\ workers'[New] = NewWorker(proc)
    BY <1>1, <2>2, Appended, NewWorkerTyped DEF ListTypes, New
  <2>4. wl' = Append(wl, New)
    BY <2>2
  <2>5. Hired(proc)
    BY <1>1, <2>1, <2>2, <2>3, <2>4 DEF Hired, NewWorker
  <2>6. \A w \in DOMAIN workers : Idle(w) => Idle(w)'
    BY <1>1, <2>3 DEF Idle, Proc
  <2>7. (ListTypes /\ NoWorkerLost /\ Listed /\ FirstComes)'
    BY <1>1, <2>5, <2>6, HiredLists, HiredFirst
  <2>8. /\ workers'[New].calls = <<>> /\ DOMAIN workers'[New].calls = {}
        /\ workers'[New].callers = <<>> /\ DOMAIN workers'[New].callers = {}
    BY <2>3, NoCalls, EmptySeq, LenProperties DEF NewWorker
  <2>9. \A w \in DOMAIN workers : /\ Alive(w)' <=> Alive(w)
                                  /\ Proc(w)' = Proc(w)
    BY <2>5, HiredLists
  <2>10. CurrentIsNew'
    BY <1>1, <1>2, <2>3, <2>8 DEF CurrentIsNew
  <2>11. NotedOnce'
    BY <1>1, <2>3, <2>8 DEF NotedOnce
  <2>12. Noted'
    <3>1. ASSUME NEW w \in DOMAIN workers', NEW from \in DOMAIN workers'[w].calls
          PROVE  /\ Alive(w)'
                 /\ \E v \in DOMAIN workers' : \E i \in DOMAIN workers'[v].callers :
                       /\ Proc(v)' = workers'[w].calls[from]
                       /\ workers'[v].callers[i].worker = w
                       /\ workers'[v].callers[i].call = from
      BY <1>1, <2>3, <2>8, <2>9 DEF Noted
    <3>2. ASSUME NEW v \in DOMAIN workers', NEW i \in DOMAIN workers'[v].callers
          PROVE  /\ workers'[v].callers[i].worker \in DOMAIN workers'
                 /\ workers'[v].callers[i].call \in
                       DOMAIN workers'[workers'[v].callers[i].worker].calls
                 /\ Proc(v)' \in returning' => resuming' /\ v = running'
      BY <1>1, <2>3, <2>8, <2>9 DEF Noted
    <3> QED
      BY <1>1, <1>2, <3>1, <3>2 DEF Noted
  <2> QED
    BY <2>7, <2>10, <2>11, <2>12
<1> QED
  BY <1>3, <1>4

-------------------------------------------------------------------------------
(* Steps that suspend a call. *)

(* Worker c gets a note, its k-th, of the call at the block being parsed.   *)
Suspends(c, k) ==
    /\ workers' \in Seq(Records)
    /\ DOMAIN workers' = DOMAIN workers \cup {c}
    /\ \A w \in DOMAIN workers :
          /\ workers'[w].proc = workers[w].proc
          /\ workers'[w].jobs = workers[w].jobs
          /\ DOMAIN workers'[w].calls = DOMAIN workers[w].calls \cup
                (IF w = running THEN {current.start} ELSE {})
          /\ \A a \in DOMAIN workers[w].calls :
                workers'[w].calls[a] = workers[w].calls[a]
          /\ \A i \in DOMAIN workers[w].callers :
                /\ i \in DOMAIN workers'[w].callers
                /\ workers'[w].callers[i] = workers[w].callers[i]
    /\ workers'[running].calls[current.start] = Callee
    /\ c \notin DOMAIN workers => workers'[c].calls = <<>>
    /\ workers'[c].proc = Callee
    /\ k \in DOMAIN workers'[c].callers
    /\ workers'[c].callers[k].worker = running
    /\ workers'[c].callers[k].call = current.start
    /\ workers'[c].callers[k].fall = Fall
    /\ \A w \in DOMAIN workers' : \A i \in DOMAIN workers'[w].callers :
          \/ w = c /\ i = k
          \/ /\ w \in DOMAIN workers
             /\ i \in DOMAIN workers[w].callers
             /\ workers'[w].callers[i] = workers[w].callers[i]
    /\ \/ c = New /\ Hired(Callee)
       \/ c \in DOMAIN workers /\ UNCHANGED <<procedures, active, wl>>

(* ProcessCall suspends the call and leaves a note with the callee's        *)
(* worker, which is new if there was none.                                  *)
LEMMA CallSuspends ==
  ASSUME ScannerInv, EndCallUnknown
  PROVE  \E c, k : Suspends(c, k)
<1> DEFINE mine == [workers EXCEPT
                       ![running].calls = TryAdd(@, current.start, Callee)]
           all  == IF HasWorker THEN mine ELSE Append(mine, NewWorker(Callee))
           wc   == [worker |-> running, call |-> current.start, fall |-> Fall]
           c    == CalleeWorker
           k    == Len(all[c].callers) + 1
<1>1. /\ ListTypes /\ ParserTypes /\ Listed /\ CurrentIsNew
      /\ running # None
      /\ current.ended
      /\ current # NoBlock
      /\ LastOp = "call"
      /\ procedures' = procedures \cup {Callee}
      /\ UNCHANGED <<suspended, running, resuming>>
  BY DEF ScannerInv, EndCallUnknown, Ended, AtWork, NoBlock
<1>2. workers' = [all EXCEPT ![c].callers = Append(@, wc)]
  BY DEF EndCallUnknown
<1>3. /\ running \in DOMAIN workers
      /\ workers[running] \in Records
      /\ workers[running].calls \in Calls
      /\ Len(workers) \in Nat
      /\ DOMAIN workers = 1 .. Len(workers)
      /\ New \notin DOMAIN workers
  BY <1>1, PartsTyped, NewIsNew
<1>4. /\ Callee \in Addresses
      /\ current.start \in 1 .. Beyond
      /\ wc \in Notes
      /\ current.start \notin DOMAIN workers[running].calls
  <2>1. Callee \in Addresses /\ Fall \in 1 .. Beyond
    BY <1>1, EndLeads DEF Callee
  <2>2. current.start \in 1 .. Beyond
    BY <1>1, ScannerAssumption DEF ParserTypes, None, Beyond
  <2>3. running \in Nat
    BY <1>3
  <2>4. current.start \notin DOMAIN workers[running].calls
    BY <1>1, <1>3 DEF CurrentIsNew
  <2> QED
    BY <2>1, <2>2, <2>3, <2>4 DEF Notes
<1>4a. LET calls == TryAdd(workers[running].calls, current.start, Callee)
       IN  /\ calls \in Calls
           /\ DOMAIN calls = DOMAIN workers[running].calls \cup {current.start}
           /\ \A a \in DOMAIN workers[running].calls :
                 calls[a] = workers[running].calls[a]
           /\ calls[current.start] = Callee
  <2> DEFINE f == workers[running].calls
  <2>1. f \in Calls /\ current.start \notin DOMAIN f
    BY <1>3, <1>4
  <2>2. Callee \in Addresses /\ current.start \in 1 .. Beyond
    BY <1>4
  <2> HIDE DEF f
  <2>3. /\ TryAdd(f, current.start, Callee) \in Calls
        /\ DOMAIN TryAdd(f, current.start, Callee) = DOMAIN f \cup {current.start}
        /\ \A a \in DOMAIN f : TryAdd(f, current.start, Callee)[a] = f[a]
        /\ TryAdd(f, current.start, Callee)[current.start] = Callee
    BY <2>1, <2>2, CallsChange
  <2> QED
    BY <2>3 DEF f
<1>5. /\ mine \in Seq(Records)
      /\ DOMAIN mine = DOMAIN workers
      /\ \A w \in DOMAIN workers :
            mine[w] = IF w = running
                      THEN [workers[w] EXCEPT
                               !.calls = TryAdd(@, current.start, Callee)]
                      ELSE workers[w]
  <2> DEFINE r == [workers[running] EXCEPT
                      !.calls = TryAdd(workers[running].calls, current.start, Callee)]
  <2>1. TryAdd(workers[running].calls, current.start, Callee) \in Calls
    BY <1>4a
  <2>2. r \in Records
    BY <1>3, <2>1 DEF Records
  <2>3. mine = [workers EXCEPT ![running] = r]
    BY <1>3
  <2>4. workers \in Seq(Records)
    BY <1>1 DEF ListTypes
  <2> QED
    BY <1>3, <2>2, <2>3, <2>4, ExceptSeq, LenProperties
<1>6. /\ all \in Seq(Records)
      /\ DOMAIN all = DOMAIN workers \cup {c}
      /\ \A w \in DOMAIN workers : all[w] = mine[w]
      /\ c \notin DOMAIN workers => c = New /\ all[c] = NewWorker(Callee)
      /\ all[c].proc = Callee
  <2>1. CASE HasWorker
    <3>1. c \in DOMAIN workers /\ Proc(c) = Callee
      BY <1>1, <2>1 DEF HasWorker, CalleeWorker, Listed, ListTypes
    <3>2. mine[c].proc = Callee
      BY <1>5, <3>1 DEF Proc
    <3> QED
      BY <1>5, <2>1, <3>1, <3>2
  <2>2. CASE ~HasWorker
    <3>1. c = New
      BY <2>2 DEF HasWorker, CalleeWorker, New
    <3>2. Len(mine) = Len(workers)
      BY <1>3, <1>5, LenProperties
    <3>3. NewWorker(Callee) \in Records /\ NewWorker(Callee).proc = Callee
      BY <1>4, NewWorkerTyped DEF NewWorker
    <3>4. all = Append(mine, NewWorker(Callee))
      BY <2>2
    <3> QED
      BY <1>5, <3>1, <3>2, <3>3, <3>4, Appended DEF New
  <2> QED
    BY <2>1, <2>2
<1> HIDE DEF mine, all, c, wc
<1>7. /\ all[c] \in Records
      /\ all[c].callers \in Seq(Notes)
      /\ c \in 1 .. Len(all)
      /\ DOMAIN all = 1 .. Len(all)
  <2>1. DOMAIN all = 1 .. Len(all) /\ c \in DOMAIN all
    BY <1>6, LenProperties
  <2>2. all[c] \in Records
    BY <1>6, <2>1, ElementOfSeq
  <2> QED
    BY <2>1, <2>2 DEF Records
<1>8. /\ Append(all[c].callers, wc) \in Seq(Notes)
      /\ DOMAIN Append(all[c].callers, wc) = DOMAIN all[c].callers \cup {k}
      /\ \A i \in DOMAIN all[c].callers :
            Append(all[c].callers, wc)[i] = all[c].callers[i]
      /\ Append(all[c].callers, wc)[k] = wc
  BY <1>4, <1>7, Appended
<1>9. /\ workers' \in Seq(Records)
      /\ DOMAIN workers' = DOMAIN workers \cup {c}
      /\ \A w \in DOMAIN workers \cup {c} :
            workers'[w] = IF w = c
                          THEN [all[w] EXCEPT !.callers = Append(all[w].callers, wc)]
                          ELSE all[w]
  <2> DEFINE r == [all[c] EXCEPT !.callers = Append(all[c].callers, wc)]
  <2>1. r \in Records
    BY <1>7, <1>8 DEF Records
  <2>2. workers' = [all EXCEPT ![c] = r]
    BY <1>2, <1>6
  <2>3. /\ workers' \in Seq(Records)
        /\ \A w \in DOMAIN all : workers'[w] = IF w = c THEN r ELSE all[w]
    BY <1>6, <1>7, <2>1, <2>2, ExceptSeq
  <2>4. DOMAIN workers' = DOMAIN all
    BY <2>2
  <2> QED
    BY <1>6, <2>3, <2>4
<1>10. \A w \in DOMAIN workers :
          /\ workers'[w].proc = workers[w].proc
          /\ workers'[w].jobs = workers[w].jobs
          /\ DOMAIN workers'[w].calls = DOMAIN workers[w].calls \cup
                (IF w = running THEN {current.start} ELSE {})
          /\ \A a \in DOMAIN workers[w].calls :
                workers'[w].calls[a] = workers[w].calls[a]
          /\ \A i \in DOMAIN workers[w].callers :
                /\ i \in DOMAIN workers'[w].callers
                /\ workers'[w].callers[i] = workers[w].callers[i]
  <2> SUFFICES ASSUME NEW w \in DOMAIN workers
               PROVE  /\ workers'[w].proc = workers[w].proc
                      /\ workers'[w].jobs = workers[w].jobs
                      /\ DOMAIN workers'[w].calls = DOMAIN workers[w].calls \cup
                            (IF w = running THEN {current.start} ELSE {})
                      /\ \A a \in DOMAIN workers[w].calls :
                            workers'[w].calls[a] = workers[w].calls[a]
                      /\ \A i \in DOMAIN workers[w].callers :
                            /\ i \in DOMAIN workers'[w].callers
                            /\ workers'[w].callers[i] = workers[w].callers[i]
    OBVIOUS
  <2>1. workers[w] \in Records /\ mine[w] \in Records
    <3>1. w \in 1 .. Len(mine)
      BY <1>5, LenProperties
    <3> QED
      BY <1>1, <1>5, <3>1, PartsTyped, ElementOfSeq
  <2>2. /\ mine[w].proc = workers[w].proc
        /\ mine[w].jobs = workers[w].jobs
        /\ mine[w].callers = workers[w].callers
        /\ mine[w].calls = IF w = running
                           THEN TryAdd(workers[w].calls, current.start, Callee)
                           ELSE workers[w].calls
    <3>1. CASE w = running
      <4>1. mine[w] = [workers[w] EXCEPT
                          !.calls = TryAdd(workers[w].calls, current.start, Callee)]
        BY <1>5, <3>1
      <4> QED
        BY <2>1, <3>1, <4>1, FieldsChange
    <3>2. CASE w # running
      <4>1. mine[w] = workers[w]
        BY <1>5, <3>2
      <4> QED
        BY <3>2, <4>1
    <3> QED
      BY <3>1, <3>2
  <2>3. /\ workers'[w].proc = mine[w].proc
        /\ workers'[w].jobs = mine[w].jobs
        /\ workers'[w].calls = mine[w].calls
        /\ workers'[w].callers = IF w = c THEN Append(all[c].callers, wc)
                                 ELSE mine[w].callers
        /\ all[w] = mine[w]
    <3>1. all[w] = mine[w]
      BY <1>6
    <3>2. CASE w = c
      <4>1. workers'[w] = [mine[w] EXCEPT !.callers = Append(all[c].callers, wc)]
        BY <1>9, <3>1, <3>2
      <4> QED
        BY <2>1, <3>1, <3>2, <4>1, FieldsChange
    <3>3. CASE w # c
      <4>1. workers'[w] = mine[w]
        BY <1>9, <3>1, <3>3
      <4> QED
        BY <3>1, <3>3, <4>1
    <3> QED
      BY <3>2, <3>3
  <2>4. w = running =>
           /\ DOMAIN TryAdd(workers[w].calls, current.start, Callee) =
                 DOMAIN workers[w].calls \cup {current.start}
           /\ \A a \in DOMAIN workers[w].calls :
                 TryAdd(workers[w].calls, current.start, Callee)[a] =
                    workers[w].calls[a]
    BY <1>4a
  <2> QED
    BY <1>8, <2>2, <2>3, <2>4
<1>11. workers'[running].calls[current.start] = Callee
  <2>1. TryAdd(workers[running].calls, current.start, Callee)[current.start] = Callee
    BY <1>4a
  <2>2. workers'[running].calls = all[running].calls
    BY <1>3, <1>6, <1>7, <1>9 DEF Records
  <2>3. all[running].calls = TryAdd(workers[running].calls, current.start, Callee)
    BY <1>3, <1>5, <1>6 DEF Records
  <2> QED
    BY <2>1, <2>2, <2>3
<1>12. /\ c \notin DOMAIN workers => /\ workers'[c].calls = <<>>
                                     /\ workers'[c].jobs = <<Job(Callee, None)>>
       /\ workers'[c].proc = Callee
       /\ workers'[c].callers = Append(all[c].callers, wc)
  <2>1. workers'[c] = [all[c] EXCEPT !.callers = Append(all[c].callers, wc)]
    BY <1>9
  <2>2. /\ workers'[c].calls = all[c].calls
        /\ workers'[c].jobs = all[c].jobs
        /\ workers'[c].proc = all[c].proc
        /\ workers'[c].callers = Append(all[c].callers, wc)
    BY <1>7, <2>1 DEF Records
  <2>3. /\ NewWorker(Callee).calls = <<>>
        /\ NewWorker(Callee).jobs = <<Job(Callee, None)>>
    BY DEF NewWorker
  <2> QED
    BY <1>6, <2>2, <2>3
<1>13. /\ k \in DOMAIN workers'[c].callers
       /\ workers'[c].callers[k] = wc
       /\ wc.worker = running
       /\ wc.call = current.start
       /\ wc.fall = Fall
  BY <1>8, <1>12 DEF wc
<1>14. \A w \in DOMAIN workers' : \A i \in DOMAIN workers'[w].callers :
          \/ w = c /\ i = k
          \/ /\ w \in DOMAIN workers
             /\ i \in DOMAIN workers[w].callers
             /\ workers'[w].callers[i] = workers[w].callers[i]
  <2> SUFFICES ASSUME NEW w \in DOMAIN workers',
                      NEW i \in DOMAIN workers'[w].callers,
                      ~(w = c /\ i = k)
               PROVE  /\ w \in DOMAIN workers
                      /\ i \in DOMAIN workers[w].callers
    BY <1>10
  <2>1. \A x \in DOMAIN workers : mine[x].callers = workers[x].callers
    BY <1>1, <1>5, PartsTyped DEF Records
  <2>2. CASE w = c
    <3>1. i \in DOMAIN all[c].callers
      BY <1>8, <1>12, <2>2
    <3>2. c \in DOMAIN workers
      <4>1. DOMAIN NewWorker(Callee).callers = {}
        BY EmptySeq, LenProperties DEF NewWorker
      <4> QED
        BY <1>6, <3>1, <4>1
    <3> QED
      BY <1>6, <2>1, <2>2, <3>1, <3>2
  <2>3. CASE w # c
    BY <1>6, <1>9, <2>1, <2>3
  <2> QED
    BY <2>2, <2>3
<1>15. \/ c = New /\ Hired(Callee)
       \/ c \in DOMAIN workers /\ UNCHANGED <<procedures, active, wl>>
  <2>1. CASE HasWorker
    <3>1. c \in DOMAIN workers /\ Proc(c) = Callee
      BY <1>1, <2>1 DEF HasWorker, CalleeWorker, Listed, ListTypes, c
    <3>2. UNCHANGED <<active, wl>>
      BY <2>1 DEF EndCallUnknown
    <3>3. procedures' = procedures
      BY <1>1, <3>1 DEF Listed
    <3> QED
      BY <3>1, <3>2, <3>3
  <2>2. CASE ~HasWorker
    <3>1. c = New /\ CalleeWorker = New
      BY <2>2 DEF HasWorker, CalleeWorker, New, c
    <3>2. active' = Set(active, Callee, New) /\ wl' = Append(wl, New)
      BY <2>2, <3>1 DEF EndCallUnknown
    <3>3. Callee \notin DOMAIN active \cup DOMAIN suspended
      BY <2>2 DEF HasWorker
    <3>4. Hired(Callee)
      BY <1>1, <1>3, <1>4, <1>9, <1>10, <1>12, <3>1, <3>2, <3>3 DEF Hired
    <3> QED
      BY <3>1, <3>4
  <2> QED
    BY <2>1, <2>2
<1>16. Suspends(c, k)
  BY <1>9, <1>10, <1>11, <1>12, <1>13, <1>14, <1>15 DEF Suspends
<1> QED
  BY <1>16

(* The new call has one note, and no other call has that note.              *)
LEMMA CallUnknownStep ==
  ASSUME ScannerInv, EndCallUnknown
  PROVE  /\ (ListTypes /\ NoWorkerLost /\ Listed)'
         /\ (CurrentIsNew /\ Noted /\ NotedOnce /\ FirstComes)'
<1>1. /\ ListTypes /\ NoWorkerLost /\ Listed /\ CurrentIsNew /\ Noted
      /\ NotedOnce /\ FirstComes
      /\ running # None
      /\ ~resuming
      /\ current # NoBlock
      /\ current' = NoBlock
      /\ Callee \notin returning
      /\ UNCHANGED <<returning, suspended, running, resuming, blockStarts>>
  BY DEF ScannerInv, EndCallUnknown, Ended, AtWork, NoBlock
<1>2. PICK c, k : Suspends(c, k)
  BY CallSuspends
<1>3. /\ running \in DOMAIN workers
      /\ current.start \in blockStarts
      /\ \A w \in DOMAIN workers : current.start \notin DOMAIN workers[w].calls
  BY <1>1, PartsTyped DEF CurrentIsNew
<1>4. \A w \in DOMAIN workers : Idle(w) => Idle(w)'
  <2> SUFFICES ASSUME NEW w \in DOMAIN workers, Idle(w) PROVE Idle(w)'
    OBVIOUS
  <2>1. w # running
    BY <1>1 DEF Idle
  <2>2. workers'[w].calls \in Calls /\ workers[w].calls \in Calls
    <3>1. workers' \in Seq(Records) /\ w \in DOMAIN workers'
      BY <1>2 DEF Suspends
    <3>2. workers'[w] \in Records
      BY <3>1, ElementOfSeq, LenProperties
    <3> QED
      BY <1>1, <3>2, PartsTyped DEF Records
  <2>3. workers'[w].calls = <<>>
    BY <1>2, <2>1, <2>2, NoCalls DEF Idle, Suspends
  <2> QED
    BY <1>1, <1>2, <2>1, <2>3 DEF Idle, Suspends, Proc
<1>5. /\ (ListTypes /\ NoWorkerLost /\ Listed /\ FirstComes)'
      /\ \A w \in DOMAIN workers : Alive(w)' <=> Alive(w)
      /\ \A w \in DOMAIN workers : Proc(w)' = Proc(w)
  <2>1. CASE Hired(Callee)
    BY <1>1, <1>4, <2>1, HiredLists, HiredFirst
  <2>2. CASE c \in DOMAIN workers /\ UNCHANGED <<procedures, active, wl>>
    <3>1. DOMAIN workers' = DOMAIN workers
      <4>1. DOMAIN workers' = DOMAIN workers \cup {c}
        BY <1>2 DEF Suspends
      <4> QED
        BY <2>2, <4>1
    <3>2. \A w \in DOMAIN workers : /\ workers'[w].proc = workers[w].proc
                                    /\ workers'[w].jobs = workers[w].jobs
      BY <1>2 DEF Suspends
    <3>3. ListTypes'
      BY <1>1, <1>2, <2>2, <3>1 DEF ListTypes, Suspends
    <3>4. Listed' /\ NoWorkerLost'
      <4>1. Listed'
        BY <1>1, <2>2, <3>1, <3>2 DEF Listed, Proc, ListTypes
      <4>2. NoWorkerLost'
        BY <1>1, <2>2, <3>1, <3>2 DEF NoWorkerLost
      <4> QED
        BY <4>1, <4>2
    <3>5. /\ \A w \in DOMAIN workers : Alive(w)' <=> Alive(w)
          /\ \A w \in DOMAIN workers : Proc(w)' = Proc(w)
      BY <1>1, <2>2, <3>2 DEF Alive, Proc
    <3>6. FirstComes'
      BY <1>1, <1>4, <3>1, <3>2, <3>5 DEF FirstComes
    <3> QED
      BY <3>3, <3>4, <3>5, <3>6
  <2> QED
    BY <1>2, <2>1, <2>2 DEF Suspends
<1>6. c \notin DOMAIN workers => DOMAIN workers'[c].calls = {}
  BY <1>2, NoCalls DEF Suspends
<1>7. CurrentIsNew'
  BY <1>1, <1>2, <1>3, <1>6 DEF CurrentIsNew, Suspends
<1>8. ASSUME NEW w \in DOMAIN workers', NEW from \in DOMAIN workers'[w].calls
      PROVE  /\ Alive(w)'
             /\ \E v \in DOMAIN workers' : \E i \in DOMAIN workers'[v].callers :
                   /\ Proc(v)' = workers'[w].calls[from]
                   /\ workers'[v].callers[i].worker = w
                   /\ workers'[v].callers[i].call = from
  <2>1. w \in DOMAIN workers
    BY <1>2, <1>6, <1>8 DEF Suspends
  <2>2. CASE from \in DOMAIN workers[w].calls
    BY <1>1, <1>2, <1>5, <2>1, <2>2 DEF Noted, Suspends
  <2>3. CASE w = running /\ from = current.start
    <3>1. Alive(w)'
      BY <1>1, <1>5, <2>1, <2>3, RunningIsActive
    <3>2. /\ c \in DOMAIN workers'
          /\ k \in DOMAIN workers'[c].callers
          /\ Proc(c)' = workers'[w].calls[from]
          /\ workers'[c].callers[k].worker = w
          /\ workers'[c].callers[k].call = from
      BY <1>2, <2>3 DEF Suspends, Proc
    <3> QED
      BY <3>1, <3>2
  <2> QED
    BY <1>2, <1>8, <2>1, <2>2, <2>3 DEF Suspends
<1>9. ASSUME NEW v \in DOMAIN workers', NEW i \in DOMAIN workers'[v].callers
      PROVE  /\ workers'[v].callers[i].worker \in DOMAIN workers'
             /\ workers'[v].callers[i].call \in
                   DOMAIN workers'[workers'[v].callers[i].worker].calls
             /\ Proc(v)' \notin returning
  <2>1. CASE v = c /\ i = k
    BY <1>1, <1>2, <1>3, <2>1 DEF Suspends, Proc
  <2>2. CASE /\ v \in DOMAIN workers
             /\ i \in DOMAIN workers[v].callers
             /\ workers'[v].callers[i] = workers[v].callers[i]
    BY <1>1, <1>2, <1>5, <2>2 DEF Noted, Suspends
  <2> QED
    BY <1>2, <2>1, <2>2 DEF Suspends
<1>10. Noted'
  BY <1>1, <1>8, <1>9 DEF Noted
<1>11. ASSUME NEW v \in DOMAIN workers, NEW i \in DOMAIN workers[v].callers
       PROVE  ~(/\ workers[v].callers[i].worker = running
                /\ workers[v].callers[i].call = current.start)
  BY <1>1, <1>3 DEF Noted
<1>12. NotedOnce'
  BY <1>1, <1>2, <1>11 DEF NotedOnce, Suspends
<1> QED
  BY <1>5, <1>7, <1>10, <1>12

-------------------------------------------------------------------------------
(* Steps that resume a call. *)

(* The running worker takes the note of call a of worker u, which gets a    *)
(* job instead.                                                             *)
Resumes(u, a) ==
    /\ u \in DOMAIN workers
    /\ a \in DOMAIN workers[u].calls
    /\ u = Waiter.worker
    /\ a = Waiter.call
    /\ running \in DOMAIN workers
    /\ workers[running].callers # <<>>
    /\ workers' \in Seq(Records)
    /\ DOMAIN workers' = DOMAIN workers
    /\ \A w \in DOMAIN workers :
          /\ workers'[w].proc = workers[w].proc
          /\ workers'[w].callers = IF w = running THEN Tail(workers[w].callers)
                                   ELSE workers[w].callers
          /\ workers'[w].calls = IF w = u THEN Without(workers[w].calls, a)
                                 ELSE workers[w].calls
          /\ workers'[w].jobs = IF w = u
                                   THEN Append(workers[w].jobs, Job(Waiter.fall, a))
                                   ELSE workers[w].jobs

(* ResumeWorker takes the first note and the call it is for.                *)
LEMMA CallResumes ==
  ASSUME ScannerInv, ResumeWorker
  PROVE  \E u, a : Resumes(u, a)
<1> DEFINE u  == Waiter.worker
           a  == Waiter.call
           m1 == [workers EXCEPT ![running].callers = Tail(@)]
           m2 == [m1 EXCEPT ![u].calls = Without(@, a)]
           m3 == [m2 EXCEPT ![u].jobs = Append(@, Job(Waiter.fall, a))]
<1>1. /\ ListTypes /\ Noted
      /\ resuming
      /\ CallResumed
  BY DEF ScannerInv, ResumeWorker, ResumeSuspended, ResumeActive, NextCaller
<1>2. /\ running \in DOMAIN workers
      /\ workers[running].callers # <<>>
      /\ workers[running].callers \in Seq(Notes)
  BY <1>1, PartsTyped DEF Noted, Me
<1>3. /\ Waiter \in Notes
      /\ Waiter = workers[running].callers[1]
      /\ 1 \in DOMAIN workers[running].callers
      /\ Tail(workers[running].callers) \in Seq(Notes)
  BY <1>2, Taken DEF Waiter, Me
<1>4. u \in DOMAIN workers /\ a \in DOMAIN workers[u].calls
  BY <1>1, <1>2, <1>3 DEF Noted
<1>5. /\ Job(Waiter.fall, a) \in Jobs
      /\ a \in 1 .. Beyond
  BY <1>3, ScannerAssumption DEF Notes, Job, Jobs, Beyond
<1>6. workers' = m3
  BY <1>1 DEF CallResumed
<1> HIDE DEF u, a
<1>7. /\ m1 \in Seq(Records)
      /\ DOMAIN m1 = DOMAIN workers
      /\ \A w \in DOMAIN workers :
            /\ m1[w].proc = workers[w].proc
            /\ m1[w].jobs = workers[w].jobs
            /\ m1[w].calls = workers[w].calls
            /\ m1[w].callers = IF w = running THEN Tail(workers[w].callers)
                               ELSE workers[w].callers
  <2> DEFINE r == [workers[running] EXCEPT !.callers = Tail(workers[running].callers)]
  <2>1. workers \in Seq(Records) /\ workers[running] \in Records
    BY <1>1, <1>2, PartsTyped DEF ListTypes
  <2>2. r \in Records
    BY <1>3, <2>1 DEF Records
  <2>3. m1 = [workers EXCEPT ![running] = r]
    BY <1>2
  <2>4. /\ m1 \in Seq(Records)
        /\ DOMAIN m1 = DOMAIN workers
        /\ \A w \in DOMAIN workers : m1[w] = IF w = running THEN r ELSE workers[w]
    BY <1>2, <2>1, <2>2, <2>3, ExceptSeq, LenProperties
  <2>5. /\ r.proc = workers[running].proc
        /\ r.jobs = workers[running].jobs
        /\ r.calls = workers[running].calls
        /\ r.callers = Tail(workers[running].callers)
    BY <2>1 DEF Records
  <2> HIDE DEF m1, r
  <2> QED
    BY <2>4, <2>5
<1> HIDE DEF m1
<1>8. /\ m2 \in Seq(Records)
      /\ DOMAIN m2 = DOMAIN workers
      /\ \A w \in DOMAIN workers :
            /\ m2[w].proc = workers[w].proc
            /\ m2[w].jobs = workers[w].jobs
            /\ m2[w].callers = m1[w].callers
            /\ m2[w].calls = IF w = u THEN Without(workers[w].calls, a)
                             ELSE workers[w].calls
  <2> DEFINE r == [m1[u] EXCEPT !.calls = Without(m1[u].calls, a)]
  <2>1. /\ m1[u] \in Records
        /\ m1[u].calls = workers[u].calls
    BY <1>4, <1>7, ElementOfSeq, LenProperties
  <2>2. Without(workers[u].calls, a) \in Calls
    BY <1>1, <1>4, <1>5, PartsTyped, CallsChange, ScannerAssumption DEF Addresses
  <2>3. r \in Records
    BY <2>1, <2>2 DEF Records
  <2>4. m2 = [m1 EXCEPT ![u] = r]
    BY <1>4, <1>7
  <2>5. /\ m2 \in Seq(Records)
        /\ DOMAIN m2 = DOMAIN m1
        /\ \A w \in DOMAIN m1 : m2[w] = IF w = u THEN r ELSE m1[w]
    BY <1>4, <1>7, <2>3, <2>4, ExceptSeq, LenProperties
  <2>6. /\ r.proc = m1[u].proc
        /\ r.jobs = m1[u].jobs
        /\ r.callers = m1[u].callers
        /\ r.calls = Without(workers[u].calls, a)
    BY <2>1 DEF Records
  <2> HIDE DEF m2, r
  <2> QED
    BY <1>7, <2>5, <2>6
<1> HIDE DEF m2
<1>9. /\ m3 \in Seq(Records)
      /\ DOMAIN m3 = DOMAIN workers
      /\ \A w \in DOMAIN workers :
            /\ m3[w].proc = workers[w].proc
            /\ m3[w].callers = m1[w].callers
            /\ m3[w].calls = m2[w].calls
            /\ m3[w].jobs = IF w = u
                            THEN Append(workers[w].jobs, Job(Waiter.fall, a))
                            ELSE workers[w].jobs
  <2> DEFINE r == [m2[u] EXCEPT !.jobs = Append(m2[u].jobs, Job(Waiter.fall, a))]
  <2>1. m2[u] \in Records
    BY <1>4, <1>8, ElementOfSeq, LenProperties
  <2>2. Append(m2[u].jobs, Job(Waiter.fall, a)) \in Seq(Jobs)
    BY <1>5, <2>1, AppendProperties DEF Records
  <2>3. r \in Records
    BY <2>1, <2>2 DEF Records
  <2>4. m3 = [m2 EXCEPT ![u] = r]
    BY <1>4, <1>8
  <2>5. /\ m3 \in Seq(Records)
        /\ DOMAIN m3 = DOMAIN m2
        /\ \A w \in DOMAIN m2 : m3[w] = IF w = u THEN r ELSE m2[w]
    BY <1>4, <1>8, <2>3, <2>4, ExceptSeq, LenProperties
  <2>6. /\ r.proc = m2[u].proc
        /\ r.callers = m2[u].callers
        /\ r.calls = m2[u].calls
        /\ r.jobs = Append(workers[u].jobs, Job(Waiter.fall, a))
    BY <1>4, <1>8, <2>1 DEF Records
  <2> HIDE DEF m3, r
  <2> QED
    BY <1>8, <2>5, <2>6
<1> HIDE DEF m3
<1>10. Resumes(u, a)
  BY <1>2, <1>4, <1>6, <1>7, <1>8, <1>9 DEF Resumes, u, a
<1> QED
  BY <1>10

(* The worker that is resumed is listed, and past its first job. *)
LEMMA ResumedIsAlive ==
  ASSUME ScannerInv, NEW u, NEW a, Resumes(u, a)
  PROVE  /\ Alive(u)
         /\ ~Idle(u)
         /\ Proc(u) \in blockStarts
<1>1. /\ ListTypes /\ Noted /\ FirstComes
      /\ u \in DOMAIN workers
      /\ a \in DOMAIN workers[u].calls
  BY DEF ScannerInv, Resumes
<1>2. workers[u].calls # <<>>
  BY <1>1, PartsTyped, NoCalls
<1> QED
  BY <1>1, <1>2 DEF Noted, FirstComes, Idle

(* The worker of the call is at work after the step, once, suspended before *)
(* or not.                                                                  *)
LEMMA ResumeLists ==
  ASSUME ScannerInv, ResumeWorker, NEW u, NEW a, Resumes(u, a)
  PROVE  /\ (ListTypes /\ NoWorkerLost /\ Listed /\ NothingMissing)'
         /\ \A w \in DOMAIN workers : Alive(w)' <=> Alive(w)
<1>1. /\ ListTypes /\ NoWorkerLost /\ Listed /\ Alive(u) /\ NothingMissing
      /\ u \in DOMAIN workers
      /\ workers' \in Seq(Records)
      /\ DOMAIN workers' = DOMAIN workers
      /\ \A w \in DOMAIN workers :
            /\ workers'[w].proc = workers[w].proc
            /\ w # u => workers'[w].jobs = workers[w].jobs
      /\ resuming' \in BOOLEAN
      /\ UNCHANGED <<procedures, running>>
      /\ WaiterProc = Proc(u)
  <2>1. Alive(u)
    BY ResumedIsAlive
  <2>2. resuming' \in BOOLEAN /\ UNCHANGED <<procedures, running>>
    BY DEF ResumeWorker, ResumeSuspended, ResumeActive, NextCaller
  <2> QED
    BY <2>1, <2>2 DEF ScannerInv, Resumes, WaiterProc, Proc
<1>2. CASE ResumeSuspended
  <2>1. /\ Proc(u) \in DOMAIN suspended
        /\ Proc(u) \notin DOMAIN active
        /\ suspended[Proc(u)] = u
    BY <1>1, <1>2 DEF ResumeSuspended, NoWorkerLost, Alive, Proc
  <2>2. /\ suspended' = Without(suspended, Proc(u))
        /\ active' = Set(active, Proc(u), u)
        /\ wl' = Append(wl, u)
        /\ thrown' = thrown
    BY <1>1, <1>2, <2>1 DEF ResumeSuspended, Resumes, TryAdd, scanVars
  <2>3. /\ DOMAIN suspended' = DOMAIN suspended \ {Proc(u)}
        /\ \A p \in DOMAIN suspended' : suspended'[p] = suspended[p]
        /\ suspended' \in [DOMAIN suspended' -> DOMAIN workers]
    BY <1>1, <2>2 DEF Without, ListTypes
  <2>4. /\ DOMAIN active' = DOMAIN active \cup {Proc(u)}
        /\ active'[Proc(u)] = u
        /\ \A p \in DOMAIN active : active'[p] = active[p]
        /\ active' \in [DOMAIN active' -> DOMAIN workers]
    BY <1>1, <2>1, <2>2 DEF Set, ListTypes
  <2>5. u \notin {active[p] : p \in DOMAIN active}
    BY <1>1, <2>1 DEF Listed
  <2>6. /\ u \notin ToSet(wl)
        /\ u # running
    BY <1>1, <2>5, PartsTyped DEF NoWorkerLost
  <2>7. /\ wl' \in Seq(DOMAIN workers)
        /\ ToSet(wl') = ToSet(wl) \cup {u}
        /\ IsInjective(wl')
    BY <1>1, <2>2, <2>6, WorkListExtended, AppendProperties
    DEF ListTypes, NoWorkerLost
  <2>8. ListTypes'
    BY <1>1, <2>3, <2>4, <2>7 DEF ListTypes
  <2>9. Listed'
    <3>1. \A w \in DOMAIN workers : Proc(w)' = Proc(w)
      BY <1>1 DEF Proc
    <3>2. \A p \in DOMAIN active' : active'[p] \in DOMAIN workers /\ Proc(active'[p]) = p
      BY <1>1, <2>4 DEF Listed
    <3>3. \A p \in DOMAIN suspended' :
             suspended'[p] \in DOMAIN workers /\ Proc(suspended'[p]) = p
      BY <1>1, <2>3 DEF Listed
    <3>4. \A w \in DOMAIN workers : Proc(w) \in procedures
      BY <1>1 DEF Listed
    <3> QED
      BY <1>1, <3>1, <3>2, <3>3, <3>4 DEF Listed, Proc
  <2>10. NoWorkerLost'
    <3>1. \A w \in DOMAIN workers :
             workers'[w].jobs # <<>> =>
                /\ workers'[w].proc \in DOMAIN active'
                /\ active'[workers'[w].proc] = w
      BY <1>1, <2>1, <2>4 DEF NoWorkerLost, Proc
    <3>2. {active'[p] : p \in DOMAIN active'} =
             {active[p] : p \in DOMAIN active} \cup {u}
      BY <2>4
    <3>3. DOMAIN active' \cap DOMAIN suspended' = {}
      BY <1>1, <2>3, <2>4 DEF NoWorkerLost
    <3> QED
      BY <1>1, <2>6, <2>7, <3>1, <3>2, <3>3 DEF NoWorkerLost
  <2>11. \A w \in DOMAIN workers : Alive(w)' <=> Alive(w)
    BY <1>1, <2>1, <2>3, <2>4 DEF Alive, Proc
  <2> QED
    BY <1>1, <2>2, <2>8, <2>9, <2>10, <2>11 DEF NothingMissing
<1>3. CASE ResumeActive
  <2>1. UNCHANGED <<active, suspended, wl>>
    BY <1>3 DEF ResumeActive
  <2>2. Proc(u) \in DOMAIN active /\ active[Proc(u)] = u
    BY <1>1, <1>3 DEF ResumeActive, Alive, Proc
  <2>3. thrown' = thrown
    BY <1>1, <1>3, <2>2 DEF ResumeActive
  <2>4. ListTypes' /\ Listed'
    BY <1>1, <2>1 DEF ListTypes, Listed, Proc
  <2>5. NoWorkerLost'
    <3>1. \A w \in DOMAIN workers :
             workers'[w].jobs # <<>> =>
                /\ workers'[w].proc \in DOMAIN active
                /\ active[workers'[w].proc] = w
      BY <1>1, <2>2 DEF NoWorkerLost, Proc
    <3> QED
      BY <1>1, <2>1, <3>1 DEF NoWorkerLost
  <2>6. \A w \in DOMAIN workers : Alive(w)' <=> Alive(w)
    BY <1>1, <2>1 DEF Alive
  <2> QED
    BY <1>1, <2>3, <2>4, <2>5, <2>6 DEF NothingMissing
<1> QED
  BY <1>2, <1>3 DEF ResumeWorker

(* The other notes still have their calls, and the other calls their notes. *)
LEMMA ResumeStep ==
  ASSUME ScannerInv, ResumeWorker
  PROVE  /\ (ListTypes /\ NoWorkerLost /\ Listed /\ NothingMissing)'
         /\ (CurrentIsNew /\ Noted /\ NotedOnce /\ FirstComes)'
<1>1. /\ ListTypes /\ CurrentIsNew /\ Noted /\ NotedOnce /\ FirstComes
      /\ resuming
      /\ running # None
      /\ running \in DOMAIN workers
      /\ resuming' = (Tail(Me.callers) # <<>>)
      /\ current = NoBlock
      /\ UNCHANGED <<running, returning, current, blockStarts>>
  BY PartsTyped
  DEF ScannerInv, ResumeWorker, ResumeSuspended, ResumeActive, NextCaller, Noted,
      CurrentIsNew, scanVars
<1>2. PICK u, a : Resumes(u, a)
  BY CallResumes
<1>3. /\ (ListTypes /\ NoWorkerLost /\ Listed /\ NothingMissing)'
      /\ \A w \in DOMAIN workers : Alive(w)' <=> Alive(w)
      /\ \A w \in DOMAIN workers : Proc(w)' = Proc(w)
  BY <1>2, ResumeLists DEF Resumes, Proc
<1>4. \A w \in DOMAIN workers : w # u /\ Idle(w) => Idle(w)'
  BY <1>1, <1>2 DEF Idle, Resumes, Proc
<1>5. FirstComes'
  <2>1. Alive(u) /\ ~Idle(u) /\ Proc(u) \in blockStarts
    BY <1>2, ResumedIsAlive
  <2>2. /\ DOMAIN workers' = DOMAIN workers
        /\ \A w \in DOMAIN workers : w # u => workers'[w].jobs = workers[w].jobs
    BY <1>2 DEF Resumes
  <2> QED
    BY <1>1, <1>3, <1>4, <2>1, <2>2 DEF FirstComes
<1>6. /\ \A w \in DOMAIN workers :
            DOMAIN workers'[w].calls =
               IF w = u THEN DOMAIN workers[w].calls \ {a} ELSE DOMAIN workers[w].calls
      /\ \A w \in DOMAIN workers : \A x \in DOMAIN workers'[w].calls :
            workers'[w].calls[x] = workers[w].calls[x]
  <2>1. \A f : /\ DOMAIN Without(f, a) = DOMAIN f \ {a}
               /\ \A x \in DOMAIN f \ {a} : Without(f, a)[x] = f[x]
    BY DEF Without
  <2>2. \A w \in DOMAIN workers :
           workers'[w].calls = IF w = u THEN Without(workers[w].calls, a)
                               ELSE workers[w].calls
    BY <1>2 DEF Resumes
  <2>3. ASSUME NEW w \in DOMAIN workers, w = u
        PROVE  /\ DOMAIN workers'[w].calls = DOMAIN workers[w].calls \ {a}
               /\ \A x \in DOMAIN workers'[w].calls :
                     workers'[w].calls[x] = workers[w].calls[x]
    <3>1. workers'[w].calls = Without(workers[w].calls, a)
      BY <2>2, <2>3
    <3> QED
      BY <2>1, <3>1
  <2>4. ASSUME NEW w \in DOMAIN workers, w # u
        PROVE  workers'[w].calls = workers[w].calls
    BY <2>2, <2>4
  <2> QED
    BY <2>3, <2>4
<1>7. CurrentIsNew'
  BY <1>1, <1>2, <1>6 DEF CurrentIsNew, Resumes
<1>8. /\ workers[running].callers # <<>>
      /\ 1 \in DOMAIN workers[running].callers
      /\ workers[running].callers[1].worker = u
      /\ workers[running].callers[1].call = a
      /\ workers'[running].callers = Tail(workers[running].callers)
      /\ \A w \in DOMAIN workers :
            w # running => workers'[w].callers = workers[w].callers
  BY <1>1, <1>2, PartsTyped, Taken DEF Resumes, Waiter, Me
<1>9. /\ \A i \in DOMAIN workers'[running].callers :
            /\ i \in Nat
            /\ i + 1 # 1
            /\ i + 1 \in DOMAIN workers[running].callers
            /\ workers'[running].callers[i] = workers[running].callers[i + 1]
      /\ \A j \in DOMAIN workers[running].callers :
            j # 1 => /\ j - 1 \in DOMAIN workers'[running].callers
                     /\ workers'[running].callers[j - 1] = workers[running].callers[j]
  <2> DEFINE s == workers[running].callers
  <2>1. s \in Seq(Notes) /\ s # <<>>
    BY <1>1, <1>8, PartsTyped
  <2>2. /\ DOMAIN s \subseteq Nat
        /\ DOMAIN Tail(s) \subseteq Nat
        /\ 0 \notin DOMAIN Tail(s)
    BY <2>1, HeadTailProperties, LenProperties
  <2>3. /\ \A i \in DOMAIN Tail(s) : i + 1 \in DOMAIN s /\ Tail(s)[i] = s[i + 1]
        /\ \A i \in DOMAIN s : i # 1 => i - 1 \in DOMAIN Tail(s)
    BY <2>1, Taken
  <2>4. \A j \in DOMAIN s : (j - 1) + 1 = j
    BY <2>2
  <2>5. \A j \in DOMAIN s : j # 1 => Tail(s)[j - 1] = s[j]
    BY <2>3, <2>4
  <2>6. \A i \in DOMAIN Tail(s) : i + 1 # 1
    BY <2>2
  <2> QED
    BY <1>8, <2>2, <2>3, <2>5, <2>6
(* Every note that is left was there before, and was not the first.         *)
<1>10. ASSUME NEW v \in DOMAIN workers, NEW i \in DOMAIN workers'[v].callers
       PROVE  \E j \in DOMAIN workers[v].callers :
                 /\ workers'[v].callers[i] = workers[v].callers[j]
                 /\ j = IF v = running THEN i + 1 ELSE i
                 /\ ~(v = running /\ j = 1)
  <2>1. CASE v = running
    <3>1. /\ i + 1 \in DOMAIN workers[v].callers
          /\ workers'[v].callers[i] = workers[v].callers[i + 1]
          /\ i + 1 # 1
      BY <1>9, <2>1
    <3> QED
      BY <2>1, <3>1
  <2>2. CASE v # running
    BY <1>8, <2>2
  <2> QED
    BY <2>1, <2>2
<1>11. ASSUME NEW v \in DOMAIN workers, NEW j \in DOMAIN workers[v].callers,
              ~(v = running /\ j = 1)
       PROVE  ~(workers[v].callers[j].worker = u /\ workers[v].callers[j].call = a)
  BY <1>1, <1>8, <1>11 DEF NotedOnce
<1>12. ASSUME NEW w \in DOMAIN workers', NEW from \in DOMAIN workers'[w].calls
       PROVE  /\ Alive(w)'
              /\ \E v \in DOMAIN workers' : \E i \in DOMAIN workers'[v].callers :
                    /\ Proc(v)' = workers'[w].calls[from]
                    /\ workers'[v].callers[i].worker = w
                    /\ workers'[v].callers[i].call = from
  <2>1. /\ w \in DOMAIN workers
        /\ from \in DOMAIN workers[w].calls
        /\ ~(w = u /\ from = a)
        /\ DOMAIN workers' = DOMAIN workers
    <3>1. DOMAIN workers' = DOMAIN workers
      BY <1>2 DEF Resumes
    <3> QED
      BY <1>6, <1>12, <3>1
  <2>2. PICK v \in DOMAIN workers : \E j \in DOMAIN workers[v].callers :
           /\ Proc(v) = workers[w].calls[from]
           /\ workers[v].callers[j].worker = w
           /\ workers[v].callers[j].call = from
    BY <1>1, <2>1 DEF Noted
  <2> PICK j \in DOMAIN workers[v].callers :
           /\ Proc(v) = workers[w].calls[from]
           /\ workers[v].callers[j].worker = w
           /\ workers[v].callers[j].call = from
    BY <2>2
  <2>3. \E i \in DOMAIN workers'[v].callers :
           workers'[v].callers[i] = workers[v].callers[j]
    <3>1. CASE v = running
      <4>1. j # 1
        BY <1>8, <2>1, <3>1
      <4> QED
        BY <1>9, <3>1, <4>1
    <3>2. CASE v # running
      BY <1>8, <3>2
    <3> QED
      BY <3>1, <3>2
  <2>4. Alive(w)'
    BY <1>1, <1>3, <2>1 DEF Noted
  <2>5. workers'[w].calls[from] = workers[w].calls[from] /\ Proc(v)' = Proc(v)
    BY <1>3, <1>6, <1>12, <2>1
  <2> QED
    BY <2>1, <2>2, <2>3, <2>4, <2>5
<1>13. ASSUME NEW v \in DOMAIN workers', NEW i \in DOMAIN workers'[v].callers
       PROVE  /\ workers'[v].callers[i].worker \in DOMAIN workers'
              /\ workers'[v].callers[i].call \in
                    DOMAIN workers'[workers'[v].callers[i].worker].calls
              /\ Proc(v)' \in returning' => resuming' /\ v = running'
  <2>1. v \in DOMAIN workers /\ DOMAIN workers' = DOMAIN workers
    BY <1>2 DEF Resumes
  <2>2. PICK j \in DOMAIN workers[v].callers :
           /\ workers'[v].callers[i] = workers[v].callers[j]
           /\ ~(v = running /\ j = 1)
    BY <1>10, <2>1
  <2>3. /\ workers[v].callers[j].worker \in DOMAIN workers
        /\ workers[v].callers[j].call \in
              DOMAIN workers[workers[v].callers[j].worker].calls
        /\ Proc(v) \in returning => v = running
    BY <1>1, <2>1 DEF Noted
  <2>4. v = running => resuming'
    <3> SUFFICES ASSUME v = running PROVE Tail(Me.callers) # <<>>
      BY <1>1
    <3>1. i \in DOMAIN Tail(Me.callers)
      BY <1>8 DEF Me
    <3> QED
      BY <3>1, EmptySeq, LenProperties
  <2> DEFINE note == workers[v].callers[j]
  <2>5. /\ note.worker \in DOMAIN workers
        /\ note.call \in DOMAIN workers[note.worker].calls
        /\ ~(note.worker = u /\ note.call = a)
    BY <1>11, <2>1, <2>2, <2>3
  <2>6. note.call \in DOMAIN workers'[note.worker].calls
    BY <1>6, <2>5
  <2>7. Proc(v)' \in returning' => resuming' /\ v = running'
    BY <1>1, <1>3, <2>1, <2>3, <2>4
  <2> QED
    BY <2>1, <2>2, <2>5, <2>6, <2>7
<1>14. resuming' => running' # None /\ Me'.callers # <<>>
  BY <1>1, <1>8 DEF Me
<1>15. Noted'
  BY <1>12, <1>13, <1>14 DEF Noted
<1>16. NotedOnce'
  <2> SUFFICES ASSUME NEW v \in DOMAIN workers', NEW x \in DOMAIN workers',
                      NEW i \in DOMAIN workers'[v].callers,
                      NEW j \in DOMAIN workers'[x].callers,
                      workers'[v].callers[i].worker = workers'[x].callers[j].worker,
                      workers'[v].callers[i].call = workers'[x].callers[j].call
               PROVE  v = x /\ i = j
    BY DEF NotedOnce
  <2>1. v \in DOMAIN workers /\ x \in DOMAIN workers
    BY <1>2 DEF Resumes
  <2>2. PICK old \in DOMAIN workers[v].callers :
           /\ workers'[v].callers[i] = workers[v].callers[old]
           /\ old = IF v = running THEN i + 1 ELSE i
    BY <1>10, <2>1
  <2>3. PICK other \in DOMAIN workers[x].callers :
           /\ workers'[x].callers[j] = workers[x].callers[other]
           /\ other = IF x = running THEN j + 1 ELSE j
    BY <1>10, <2>1
  <2>4. v = x /\ old = other
    BY <1>1, <2>1, <2>2, <2>3 DEF NotedOnce
  <2>5. v = running => i \in Nat /\ j \in Nat
    BY <1>9, <2>4
  <2> QED
    BY <2>2, <2>3, <2>4, <2>5
<1> QED
  BY <1>3, <1>5, <1>7, <1>15, <1>16

-------------------------------------------------------------------------------
(* The theorems. *)

(* Nothing was read and nobody works yet.                                   *)
LEMMA InitInv == Init => ScannerInv
<1> SUFFICES ASSUME Init PROVE ScannerInv
  OBVIOUS
<1> USE DEF Init, ScanInit
<1>1. \A S : <<>> \in Seq(S)
  BY EmptySeq
<1>2. DOMAIN <<>> = {} /\ <<>> = [x \in {} |-> <<>>[x]]
  BY EmptySeq, LenProperties
<1>3. ParserTypes
  BY <1>1, <1>2, ScannerAssumption DEF ParserTypes, NoBlock, None, Beyond
<1>4. ListTypes /\ seeds \in Seq(Addresses)
  BY <1>1, <1>2, SeedsAssumption DEF ListTypes
<1>5. NoWorkerLost
  BY <1>2 DEF NoWorkerLost, ToSet, IsInjective
<1>6. Listed /\ CurrentIsNew /\ Noted /\ NotedOnce /\ FirstComes
  BY <1>2 DEF Listed, CurrentIsNew, Noted, NotedOnce, FirstComes
<1>7. NothingMissing
  BY DEF NothingMissing
<1> QED
  BY <1>3, <1>4, <1>5, <1>6, <1>7 DEF ScannerInv

(* A step that is not one of the workers' own keeps what was thrown, or     *)
(* throws for a missing instruction.                                        *)
LEMMA ThrownStep ==
  ASSUME ScannerInv, [Next]_vars
  PROVE  NothingMissing' /\ seeds' \in Seq(Addresses)
<1>1. CASE StartSeed
  BY <1>1, HeadTailProperties
  DEF StartSeed, scanVars, ScannerInv, NothingMissing
<1>2. CASE ResumeWorker
  <2>1. NothingMissing'
    BY <1>2, ResumeStep
  <2> QED
    BY <1>2, <2>1 DEF ResumeWorker, ResumeSuspended, ResumeActive, ScannerInv
<1>3. CASE SplitBlockEndingAt /\ UNCHANGED <<workerVars, current>>
  BY <1>3
  DEF SplitBlockEndingAt, SplitSelf, SplitTail, SplitB, SplitA, SplitFails,
      workerVars, ScannerInv, NothingMissing
<1>4. ASSUME \/ RunNext \/ Complete \/ TakeJob \/ DropJob \/ FallIntoBlock
             \/ ReadInstruction \/ FallOff \/ HandleBlockEnd \/ UNCHANGED vars
      PROVE  UNCHANGED <<thrown, seeds>>
  BY <1>4
  DEF RunNext, Complete, TakeJob, DropJob, FallIntoBlock, ReadInstruction, FallOff,
      HandleBlockEnd, EndIsShared, EndJumps, EndReturn, EndCallReturning,
      EndCallUnknown, scanVars, workerVars, vars
<1> QED
  BY <1>1, <1>2, <1>3, <1>4 DEF Next, ScannerInv, NothingMissing

(* One step of the scanner keeps the invariant.                             *)
LEMMA InvStep == ScannerInv /\ [Next]_vars => ScannerInv'
<1> SUFFICES ASSUME ScannerInv, [Next]_vars PROVE ScannerInv'
  OBVIOUS
<1> DEFINE Kept == /\ (ListTypes /\ NoWorkerLost /\ Listed)'
                   /\ (CurrentIsNew /\ Noted /\ NotedOnce /\ FirstComes)'
<1>1. ParserTypes' /\ NothingMissing' /\ seeds' \in Seq(Addresses)
  BY ParserTypesKept, ThrownStep DEF ScannerInv
<1> SUFFICES Kept
  BY <1>1 DEF ScannerInv
<1>2. JobStep => Kept
  BY JobStepLists, JobStepNotes, JobStepFirst
<1>3. CASE StartSeed
  BY <1>3, StartSeedStep
<1>4. CASE RunNext
  BY <1>4, RunNextStep
<1>5. CASE Complete
  BY <1>5, CompleteStep
<1>6. CASE TakeJob \/ DropJob \/ FallIntoBlock
  BY <1>2, <1>6, WorkingJobs
<1>7. CASE ReadInstruction \/ FallOff \/ EndIsShared
  BY <1>2, <1>7, ParsingSteps
<1>8. CASE EndJumps \/ EndReturn \/ EndCallReturning
  BY <1>2, <1>8, EndingSteps
<1>9. CASE EndCallUnknown
  BY <1>9, CallUnknownStep
<1>10. CASE ResumeWorker
  BY <1>10, ResumeStep
<1>11. CASE \/ SplitBlockEndingAt /\ UNCHANGED <<workerVars, current>>
            \/ UNCHANGED vars
  BY <1>2, <1>11, OtherSteps
<1> QED
  BY <1>3, <1>4, <1>5, <1>6, <1>7, <1>8, <1>9, <1>10, <1>11
  DEF Next, HandleBlockEnd

(* Whatever the image holds, the lists, the notes and the parser fit        *)
(* together in every state of a scan.                                       *)
THEOREM ScannerInvariant == Spec => []ScannerInv
BY InitInv, InvStep, PTL DEF Spec

(* No wake-up is lost: a worker with jobs is listed as active, once.        *)
THEOREM WorkersListed == Spec => []NoWorkerLost
<1>1. ScannerInv => NoWorkerLost
  BY DEF ScannerInv
<1> QED
  BY <1>1, ScannerInvariant, PTL

(* Every suspended call is noted with the one worker that will report the   *)
(* return of its callee, and no note stays behind.                          *)
THEOREM CallsNoted == Spec => []CallsMatchCallers
<1>1. ScannerInv => CallsMatchCallers
  <2> SUFFICES ASSUME ScannerInv PROVE CallsMatchCallers
    OBVIOUS
  <2>1. ListTypes /\ Noted
    BY DEF ScannerInv
  <2>2. ASSUME NEW w \in DOMAIN workers, workers[w].calls # <<>> PROVE Alive(w)
    <3>1. workers[w].calls \in Calls
      BY <2>1, PartsTyped
    <3>2. PICK from \in DOMAIN workers[w].calls : TRUE
      BY <2>2, <3>1, NoCalls
    <3> QED
      BY <2>1, <3>2 DEF Noted
  <2>3. ASSUME NEW w \in DOMAIN workers, NEW from \in DOMAIN workers[w].calls
        PROVE  \E v \in DOMAIN workers : \E wc \in ToSet(workers[v].callers) :
                  /\ workers[v].proc = workers[w].calls[from]
                  /\ wc.worker = w
                  /\ wc.call = from
    BY <2>1 DEF Noted, ToSet, Proc
  <2>4. ASSUME NEW w \in DOMAIN workers, NEW wc \in ToSet(workers[w].callers)
        PROVE  /\ wc.call \in DOMAIN workers[wc.worker].calls
               /\ workers[w].proc \in returning => resuming /\ w = running
    BY <2>1 DEF Noted, ToSet, Proc
  <2> QED
    BY <2>2, <2>3, <2>4 DEF CallsMatchCallers
<1> QED
  BY <1>1, ScannerInvariant, PTL

(* ResumeWorker always finds the worker active or suspended: it never       *)
(* throws "Expected active worker!".                                        *)
THEOREM WorkerExpected == Spec => []NothingMissing
<1>1. ScannerInv => NothingMissing
  BY DEF ScannerInv
<1> QED
  BY <1>1, ScannerInvariant, PTL

===============================================================================
