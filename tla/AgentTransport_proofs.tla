------------------------- MODULE AgentTransport_proofs -------------------------
(***************************************************************************)
(* A part of a record is taken again only at the cost of a fault or of a   *)
(* run of the operator.  At any time a process may or may not still post a *)
(* part: what was taken and what may still be taken together are paid for  *)
(* (Paid), and only a fault or the start of a run lets a process post a    *)
(* part it could not post before.                                          *)
(*                                                                         *)
(* A record is lost only at the cost of a death, a full disk, an outage or *)
(* two appends that mix.  What is lost and what the portal's file may yet  *)
(* cost (Debt) together are paid for (PortalCharged).                      *)
(***************************************************************************)
EXTENDS AgentTransport, FiniteSetTheorems, TLAPS

Labels == {"idle", "down", "post", "line", "spool", "write", "list", "read", "remove"}
Jobs   == [kind : Spools, fresh : BOOLEAN, rec : 0..Records, part : 1..Sessions, try : 1..Attempts]

(* What fits together of a process p at the label l with the job j and the *)
(* list t, while n is the record of the loop's turn.                       *)
ProcOK(p, l, j, t, n) ==
  /\ p = "run" => ~j.fresh /\ l \notin {"spool", "write", "down"}
  /\ p = "loop" => /\ l \in {"idle", "down"} => n = 0
                   /\ j.fresh => l \in {"post", "line", "spool", "write"} /\ j.rec = n /\ n # 0
                   /\ l \notin {"idle", "down"} /\ ~j.fresh => j.kind = "worktime"
                   /\ l \in {"spool", "write"} => j.fresh
  /\ l = "line" => j.kind = "telemetry"
  /\ l \in {"post", "line", "remove"} => j.rec \in Rec /\ j.rec \notin t
  /\ l = "remove" => ~j.fresh
  /\ j.part <= Parts(j.kind)
  /\ l \in {"idle", "down", "list", "spool", "write"} \/ j.fresh => t = {}

Control ==
  /\ pc \in [Procs -> Labels] /\ job \in [Procs -> Jobs] /\ todo \in [Procs -> SUBSET Rec]
  /\ now \in 0..Records /\ collected \in 0..Records /\ now <= collected
  /\ \A p \in Procs : ProcOK(p, pc[p], job[p], todo[p], now)

Data ==
  /\ spool \in [Spools -> [Rec -> {"none", "half", "whole"}]]
  /\ up \in [Spools -> BOOLEAN]
  /\ tail \in Seq(Rec) /\ lines \in SUBSET Rec
  /\ DOMAIN got = Spools
  /\ \A k \in Spools : got[k] \in [Rec -> [1..Parts(k) -> Nat]]
  /\ losses \in Nat /\ overlaps \in Nat /\ runs \in 0..MaxRuns /\ faults \in 0..MaxFaults

-----------------------------------------------------------------------------
\* Process p is posting record r to k, or about to remove its file.
Working(p, k, r) == pc[p] \in {"post", "line", "remove"} /\ job[p].kind = k /\ job[p].rec = r

\* Part i of the record p is working on was taken.
Past(p, k, r, i) == Working(p, k, r) /\ (pc[p] \in {"line", "remove"} \/ i < job[p].part)

\* The loop will publish record r when the flush of its turn is over.
Later(k, r) == k = "worktime" /\ now = r /\ (job["loop"].kind = "telemetry" \/ ~job["loop"].fresh)

\* Record r was never spooled for k.
New(k, r) ==
  \/ collected < r
  \/ Later(k, r)
  \/ /\ pc["loop"] \in {"post", "line", "spool"}
     /\ job["loop"].fresh /\ job["loop"].kind = k /\ job["loop"].rec = r

(* There is no file of a new record, and no flush has heard of one.        *)
Known ==
  /\ \A k \in Spools, r \in Rec : New(k, r) => spool[k][r] = "none"
  /\ \A p \in Procs, k \in Spools, r \in Rec :
       job[p].kind = k /\ ~job[p].fresh /\ (r \in todo[p] \/ Working(p, k, r)) => ~New(k, r)

(* The loop may yet post part i of record r without another fault.         *)
LoopMay(k, r, i) ==
  \/ collected < r
  \/ Later(k, r)
  \/ pc["loop"] \in {"spool", "write"} /\ job["loop"].kind = k /\ job["loop"].rec = r
  \/ (Working("loop", k, r) \/ spool[k][r] # "none") /\ ~(Past("loop", k, r, i) /\ up[k])

(* So may the run: a kind it has not come to, a record it has not come to, *)
(* or a line of the portal whose answer an outage takes.                   *)
RunMay(k, r, i) ==
  /\ pc["run"] # "idle"
  /\ \/ k = "worktime" /\ job["run"].kind = "telemetry"
     \/ job["run"].kind = k /\ (pc["run"] = "list" \/ r \in todo["run"])
     \/ Working("run", k, r) /\ ~Past("run", k, r, i)
     \/ Working("run", k, r) /\ pc["run"] = "line" /\ ~up[k]

One(b) == IF b THEN 1 ELSE 0

Paid ==
  \A k \in Spools, r \in Rec : \A i \in 1..Parts(k) :
    got[k][r][i] + One(LoopMay(k, r, i)) + One(RunMay(k, r, i)) <= 1 + faults + runs

TransportInv == Control /\ Data /\ Known /\ Paid

-----------------------------------------------------------------------------
\* Where the steps of a process lead.
Same(q)  == pc'[q] = pc[q] /\ job'[q] = job[q] /\ todo'[q] = todo[q]
Alone(p) == \A q \in Procs \ {p} : Same(q)

LEMMA JobTypes ==
  /\ Nothing \in Jobs
  /\ \A k \in Spools, r \in 0..Records :
       /\ Job(k, TRUE, r) \in Jobs /\ Job(k, FALSE, r) \in Jobs
       /\ Job(k, TRUE, r).kind = k /\ Job(k, FALSE, r).kind = k
       /\ Job(k, TRUE, r).rec = r /\ Job(k, FALSE, r).rec = r
       /\ Job(k, TRUE, r).fresh /\ ~Job(k, FALSE, r).fresh
       /\ Job(k, TRUE, r).part = 1 /\ Job(k, FALSE, r).part = 1 /\ 1 <= Parts(k)
  /\ Nothing.kind = "telemetry" /\ ~Nothing.fresh /\ Nothing.rec = 0
  /\ Nothing.part = 1 /\ Nothing.part <= Parts("telemetry")
BY TransportAssumption DEF Nothing, Job, Jobs, Spools, Parts

\* What a move of one process must look like to keep the control.
LEMMA MoveKeeps ==
  ASSUME Control, NEW p \in Procs, NEW l \in Labels, NEW j \in Jobs, NEW t \in SUBSET Rec,
         pc' = [pc EXCEPT ![p] = l], job' = [job EXCEPT ![p] = j], todo' = [todo EXCEPT ![p] = t],
         now' \in 0..Records, collected' \in 0..Records, now' <= collected',
         p = "run" => now' = now, ProcOK(p, l, j, t, now')
  PROVE  Control' /\ Alone(p) /\ pc'[p] = l /\ job'[p] = j /\ todo'[p] = t
<1>1. /\ pc' \in [Procs -> Labels] /\ job' \in [Procs -> Jobs] /\ todo' \in [Procs -> SUBSET Rec]
      /\ pc'[p] = l /\ job'[p] = j /\ todo'[p] = t /\ Alone(p)
  BY DEF Control, Alone, Same
<1>2. ASSUME NEW q \in Procs PROVE ProcOK(q, pc'[q], job'[q], todo'[q], now')
  <2>1. CASE q = p
    BY <1>1, <2>1
  <2>2. CASE q # p
    <3>1. ProcOK(q, pc[q], job[q], todo[q], now) /\ Same(q)
      BY <1>1, <2>2 DEF Control, Alone
    <3>2. q = "run" \/ p = "run"
      BY <2>2 DEF Procs
    <3>3. CASE q = "run"
      BY <3>1, <3>3 DEF ProcOK, Same
    <3>4. CASE p = "run"
      BY <3>1, <3>4 DEF Same
    <3>5. QED
      BY <3>2, <3>3, <3>4
  <2>3. QED
    BY <2>1, <2>2
<1>3. QED
  BY <1>1, <1>2 DEF Control

\* No record becomes new again.
Ages == \A k \in Spools, r \in Rec : New(k, r)' => New(k, r)

LEMMA KnownKeeps ==
  ASSUME Control, Known, Ages, NEW p \in Procs, Alone(p),
         \A k \in Spools, r \in Rec :
           spool'[k][r] # spool[k][r] => spool'[k][r] = "none" \/ ~New(k, r)',
         \A k \in Spools, r \in Rec :
           job'[p].kind = k /\ ~job'[p].fresh /\ (r \in todo'[p] \/ Working(p, k, r)') => ~New(k, r)
  PROVE  Known'
<1>1. \A k \in Spools, r \in Rec : New(k, r)' => spool'[k][r] = "none"
  BY DEF Known, Ages
<1>2. ASSUME NEW q \in Procs, NEW k \in Spools, NEW r \in Rec,
             job'[q].kind = k, ~job'[q].fresh, r \in todo'[q] \/ Working(q, k, r)'
      PROVE  ~New(k, r)'
  <2>1. CASE q = p
    BY <1>2, <2>1 DEF Ages
  <2>2. CASE q # p
    <3>1. Same(q)
      BY <2>2 DEF Alone
    <3>2. r \in todo[q] \/ Working(q, k, r)
      BY <1>2, <3>1 DEF Same, Working
    <3>3. QED
      BY <1>2, <3>1, <3>2 DEF Same, Known, Ages
  <2>3. QED
    BY <2>1, <2>2
<1>3. QED
  BY <1>1, <1>2 DEF Known

\* The outcomes of a move that ends something.
ToIdle(p) == /\ pc'[p] = "idle" /\ job'[p] = Nothing /\ todo'[p] = {}
             /\ now' = IF p = "loop" THEN 0 ELSE now
ToList(p) == /\ pc'[p] = "list" /\ job'[p] = Job("worktime", FALSE, 0) /\ todo'[p] = {}
             /\ now' = now
ToPublish == /\ pc'["loop"] = "post" /\ job'["loop"] = Job("worktime", TRUE, now)
             /\ todo'["loop"] = {} /\ now' = now /\ now # 0

FlushEnded(p, ok) ==
  \/ p = "loop" /\ ToPublish
  \/ p = "run" /\ ok /\ job[p].kind = "telemetry" /\ ToList(p)
  \/ (p = "loop" => now = 0) /\ ToIdle(p)

RecordWasDone ==
  \/ job["loop"].kind = "telemetry" /\ ToList("loop")
  \/ job["loop"].kind = "worktime" /\ ToIdle("loop")

LEMMA StopMove ==
  ASSUME Control, NEW p \in Procs, NEW l \in {"idle", "down"}, Stop(p, l),
         collected' = collected, l = "down" => p = "loop"
  PROVE  /\ Control' /\ Alone(p)
         /\ pc'[p] = l /\ job'[p] = Nothing /\ todo'[p] = {}
         /\ now' = IF p = "loop" THEN 0 ELSE now
<1>1. now' \in 0..Records /\ now' <= collected' /\ collected' \in 0..Records
  BY TransportAssumption DEF Control, Stop
<1>2. ProcOK(p, l, Nothing, {}, now') /\ l \in Labels /\ {} \in SUBSET Rec
  BY JobTypes DEF ProcOK, Stop, Labels
<1>3. /\ pc' = [pc EXCEPT ![p] = l] /\ job' = [job EXCEPT ![p] = Nothing]
      /\ todo' = [todo EXCEPT ![p] = {}] /\ now' = IF p = "loop" THEN 0 ELSE now
  BY DEF Stop, Goto
<1>4. Nothing \in Jobs /\ (p = "run" => now' = now)
  BY <1>3, JobTypes
<1>5. QED
  BY <1>1, <1>2, <1>3, <1>4, MoveKeeps

LEMMA ListingMove ==
  ASSUME Control, NEW p \in Procs, Listing(p), collected' = collected, todo[p] = {}
  PROVE  Control' /\ Alone(p) /\ ToList(p)
<1> DEFINE j == Job("worktime", FALSE, 0)
<1>1. /\ j \in Jobs /\ j.kind = "worktime" /\ ~j.fresh /\ j.part <= Parts(j.kind)
  <2>1. "worktime" \in Spools /\ 0 \in 0..Records
    BY TransportAssumption DEF Spools
  <2>2. QED
    BY <2>1, TransportAssumption DEF Job, Jobs, Parts
<1>2. pc' = [pc EXCEPT ![p] = "list"] /\ job' = [job EXCEPT ![p] = j] /\ now' = now
  BY DEF Listing, Goto
<1>3. todo' = [todo EXCEPT ![p] = {}]
  BY DEF Listing, Control
<1> HIDE DEF j
<1>4. ProcOK(p, "list", j, {}, now') /\ "list" \in Labels /\ {} \in SUBSET Rec
  BY <1>1 DEF ProcOK, Labels
<1>5. now' \in 0..Records /\ now' <= collected' /\ collected' \in 0..Records
  BY <1>2 DEF Control
<1>6. Control' /\ Alone(p) /\ pc'[p] = "list" /\ job'[p] = j /\ todo'[p] = {}
  BY <1>1, <1>2, <1>3, <1>4, <1>5, MoveKeeps
<1>7. QED
  BY <1>2, <1>6 DEF ToList, j

LEMMA PublishMove ==
  ASSUME Control, now # 0, collected' = collected,
         Goto("loop", "post", Job("worktime", TRUE, now)),
         todo' = [todo EXCEPT !["loop"] = {}], now' = now
  PROVE  Control' /\ Alone("loop") /\ ToPublish
<1> DEFINE j == Job("worktime", TRUE, now)
<1>1. /\ j \in Jobs /\ j.kind = "worktime" /\ j.fresh /\ j.part <= Parts(j.kind)
      /\ j.rec = now /\ now \in Rec
  <2>1. "worktime" \in Spools /\ now \in 0..Records /\ now \in Rec
    BY TransportAssumption DEF Spools, Control, Rec
  <2>2. QED
    BY <2>1, TransportAssumption DEF Job, Jobs, Parts
<1>2. pc' = [pc EXCEPT !["loop"] = "post"] /\ job' = [job EXCEPT !["loop"] = j]
  BY DEF Goto
<1> HIDE DEF j
<1>3. ProcOK("loop", "post", j, {}, now') /\ "post" \in Labels /\ {} \in SUBSET Rec
  BY <1>1 DEF ProcOK, Labels
<1>4. now' \in 0..Records /\ now' <= collected' /\ collected' \in 0..Records /\ "loop" \in Procs
  BY DEF Control, Procs
<1>5. /\ Control' /\ Alone("loop")
      /\ pc'["loop"] = "post" /\ job'["loop"] = j /\ todo'["loop"] = {}
  BY <1>1, <1>2, <1>3, <1>4, MoveKeeps
<1>6. QED
  BY <1>5 DEF ToPublish, j

LEMMA FlushEndsMove ==
  ASSUME Control, NEW p \in Procs, NEW ok \in BOOLEAN, FlushEnds(p, ok),
         collected' = collected, ok => todo[p] = {}
  PROVE  Control' /\ Alone(p) /\ FlushEnded(p, ok)
<1>1. CASE p = "loop" /\ now # 0
  <2>1. Goto("loop", "post", Job("worktime", TRUE, now))
    BY <1>1 DEF FlushEnds
  <2>2. todo' = [todo EXCEPT !["loop"] = {}] /\ now' = now
    BY <1>1 DEF FlushEnds
  <2>3. QED
    BY <1>1, <2>1, <2>2, PublishMove DEF FlushEnded
<1>2. CASE ~(p = "loop" /\ now # 0) /\ p = "run" /\ ok /\ job[p].kind = "telemetry"
  <2>1. Listing(p)
    BY <1>2 DEF FlushEnds
  <2>2. QED
    BY <1>2, <2>1, ListingMove DEF FlushEnded
<1>3. CASE /\ ~(p = "loop" /\ now # 0)
           /\ ~(p = "run" /\ ok /\ job[p].kind = "telemetry")
  <2>1. Stop(p, "idle")
    BY <1>3 DEF FlushEnds
  <2>2. QED
    BY <1>3, <2>1, StopMove DEF FlushEnded, ToIdle
<1>4. QED
  BY <1>1, <1>2, <1>3

LEMMA RecordDoneMove ==
  ASSUME Control, RecordDone, collected' = collected, job["loop"].fresh
  PROVE  Control' /\ Alone("loop") /\ RecordWasDone
<1>1. /\ "loop" \in Procs /\ todo["loop"] = {}
      /\ job["loop"].kind \in {"telemetry", "worktime"}
  BY DEF Control, ProcOK, Procs, Jobs, Spools
<1>2. CASE job["loop"].kind = "telemetry"
  BY <1>1, <1>2, ListingMove DEF RecordDone, RecordWasDone
<1>3. CASE job["loop"].kind = "worktime"
  BY <1>1, <1>3, StopMove DEF RecordDone, RecordWasDone, ToIdle
<1>4. QED
  BY <1>1, <1>2, <1>3

\* The job goes on at another label or with another part.
LEMMA GotoMove ==
  ASSUME Control, NEW p \in Procs, NEW l \in Labels, NEW j \in Jobs, Goto(p, l, j),
         collected' = collected, UNCHANGED <<todo, now>>, ProcOK(p, l, j, todo[p], now)
  PROVE  Control' /\ Alone(p) /\ pc'[p] = l /\ job'[p] = j /\ todo'[p] = todo[p]
<1>1. todo' = [todo EXCEPT ![p] = todo[p]] /\ todo[p] \in SUBSET Rec
  BY DEF Control
<1>2. now' \in 0..Records /\ now' <= collected' /\ collected' \in 0..Records
  BY DEF Control
<1>3. QED
  BY <1>1, <1>2, MoveKeeps DEF Goto

\* The outcomes of an answer, and of a failure.
NextPart(p) == /\ pc[p] = "post" /\ pc'[p] = "post"
               /\ job'[p] = [job[p] EXCEPT !.part = @ + 1, !.try = 1]
               /\ todo'[p] = todo[p] /\ now' = now
ToRemove(p) == /\ ~job[p].fresh /\ pc'[p] = "remove" /\ job'[p] = job[p]
               /\ todo'[p] = todo[p] /\ now' = now
AnswerDone(p) ==
  \/ NextPart(p)
  \/ p = "loop" /\ job[p].fresh /\ RecordWasDone
  \/ ToRemove(p)

TryAgain(p) == /\ pc'[p] = "post" /\ job'[p] = [job[p] EXCEPT !.try = @ + 1]
               /\ todo'[p] = todo[p] /\ now' = now
ToSpool(p) == /\ p = "loop" /\ job[p].fresh /\ pc'[p] = "spool" /\ job'[p] = job[p]
              /\ todo'[p] = todo[p] /\ now' = now
FailureDone(p) ==
  \/ TryAgain(p)
  \/ ToSpool(p)
  \/ ~job[p].fresh /\ FlushEnded(p, FALSE)

LEMMA AnsweredMove ==
  ASSUME Control, NEW p \in Procs, pc[p] \in {"post", "line"}, Answered(p), collected' = collected
  PROVE  Control' /\ Alone(p) /\ AnswerDone(p)
<1> DEFINE j == job[p]
<1>1. /\ j \in Jobs /\ ProcOK(p, pc[p], j, todo[p], now)
      /\ j.part \in Nat /\ 1 <= j.part /\ Parts(j.kind) \in Nat /\ Parts(j.kind) <= Sessions
      /\ p = "loop" \/ p = "run"
  BY TransportAssumption DEF Control, Jobs, Spools, Parts, Procs
<1>2. CASE j.part < Parts(j.kind)
  <2> DEFINE n == [j EXCEPT !.part = @ + 1, !.try = 1]
  <2>1. Goto(p, "post", n) /\ UNCHANGED <<todo, now>>
    BY <1>2 DEF Answered
  <2>2. /\ n \in Jobs /\ n.kind = j.kind /\ n.rec = j.rec /\ n.fresh = j.fresh
        /\ n.part = j.part + 1
    <3>1. j.part + 1 \in 1..Sessions /\ 1 \in 1..Attempts
      BY <1>1, <1>2, TransportAssumption
    <3>2. QED
      BY <1>1, <3>1 DEF Jobs
  <2>3. pc[p] = "post"
    BY <1>1, <1>2 DEF ProcOK, Parts
  <2> HIDE DEF n
  <2>4. ProcOK(p, "post", n, todo[p], now) /\ "post" \in Labels
    BY <1>1, <1>2, <2>2, <2>3 DEF ProcOK, Labels
  <2>5. Control' /\ Alone(p) /\ pc'[p] = "post" /\ job'[p] = n /\ todo'[p] = todo[p]
    BY <2>1, <2>2, <2>4, GotoMove
  <2>6. QED
    BY <2>1, <2>3, <2>5 DEF AnswerDone, NextPart, n
<1>3. CASE ~(j.part < Parts(j.kind)) /\ j.fresh
  <2>1. RecordDone /\ p = "loop"
    BY <1>1, <1>3 DEF Answered, ProcOK
  <2>2. QED
    BY <1>3, <2>1, RecordDoneMove DEF AnswerDone
<1>4. CASE ~(j.part < Parts(j.kind)) /\ ~j.fresh
  <2>1. Goto(p, "remove", j) /\ UNCHANGED <<todo, now>>
    BY <1>4 DEF Answered
  <2>2. ProcOK(p, "remove", j, todo[p], now) /\ "remove" \in Labels
    BY <1>1, <1>4 DEF ProcOK, Labels
  <2>3. Control' /\ Alone(p) /\ pc'[p] = "remove" /\ job'[p] = j /\ todo'[p] = todo[p]
    BY <1>1, <2>1, <2>2, GotoMove
  <2>4. QED
    BY <1>4, <2>1, <2>3 DEF AnswerDone, ToRemove
<1>5. QED
  BY <1>2, <1>3, <1>4

LEMMA FailedMove ==
  ASSUME Control, NEW p \in Procs, pc[p] \in {"post", "line"}, Failed(p), collected' = collected
  PROVE  Control' /\ Alone(p) /\ FailureDone(p)
<1> DEFINE j == job[p]
<1>1. j \in Jobs /\ ProcOK(p, pc[p], j, todo[p], now)
  BY DEF Control
<1>2. CASE j.try < Attempts
  <2> DEFINE n == [j EXCEPT !.try = @ + 1]
  <2>1. Goto(p, "post", n) /\ UNCHANGED <<todo, now>>
    BY <1>2 DEF Failed
  <2>2. /\ n \in Jobs /\ n.kind = j.kind /\ n.rec = j.rec /\ n.fresh = j.fresh
        /\ n.part = j.part
    BY <1>1, <1>2, TransportAssumption DEF Jobs, Control
  <2> HIDE DEF n
  <2>3. ProcOK(p, "post", n, todo[p], now) /\ "post" \in Labels
    BY <1>1, <2>2 DEF ProcOK, Labels, Control
  <2>4. Control' /\ Alone(p) /\ pc'[p] = "post" /\ job'[p] = n /\ todo'[p] = todo[p]
    BY <2>1, <2>2, <2>3, GotoMove
  <2>5. QED
    BY <2>1, <2>4 DEF FailureDone, TryAgain, n
<1>3. CASE ~(j.try < Attempts) /\ j.fresh
  <2>1. Goto(p, "spool", j) /\ UNCHANGED <<todo, now>>
    BY <1>3 DEF Failed
  <2>2. ProcOK(p, pc[p], j, todo[p], now) /\ p \in {"loop", "run"} /\ j \in Jobs
    BY DEF Control, Procs
  <2>3. p = "loop" /\ ProcOK(p, "spool", j, todo[p], now) /\ "spool" \in Labels
    BY <1>3, <2>2 DEF ProcOK, Labels
  <2>4. Control' /\ Alone(p) /\ pc'[p] = "spool" /\ job'[p] = j /\ todo'[p] = todo[p]
    BY <2>1, <2>2, <2>3, GotoMove
  <2>5. QED
    BY <1>3, <2>1, <2>3, <2>4 DEF FailureDone, ToSpool
<1>4. CASE ~(j.try < Attempts) /\ ~j.fresh
  <2>1. FlushEnds(p, FALSE)
    BY <1>4 DEF Failed
  <2>2. QED
    BY <1>4, <2>1, FlushEndsMove DEF FailureDone
<1>5. QED
  BY <1>2, <1>3, <1>4

-----------------------------------------------------------------------------
\* What the outcomes do to what is new, known and may be posted.
Outcome(p) ==
  \/ ~job[p].fresh /\ pc[p] \notin {"idle", "down"} /\ (FlushEnded(p, TRUE) \/ FlushEnded(p, FALSE))
  \/ p = "loop" /\ job[p].fresh /\ RecordWasDone
  \/ pc[p] \in {"post", "line"} /\ (AnswerDone(p) \/ FailureDone(p))

LEMMA LoopSameAges ==
  ASSUME Same("loop"), now' = now, collected' = collected
  PROVE  Ages
BY DEF Same, Ages, New, Later

LEMMA RunSteps ==
  ASSUME Alone("run"), now' = now, collected' = collected
  PROVE  Same("loop") /\ Ages
<1>1. Same("loop")
  BY DEF Alone, Procs
<1>2. QED
  BY <1>1, LoopSameAges

LEMMA OutcomeAges ==
  ASSUME Control, NEW p \in Procs, Alone(p), Outcome(p), collected' = collected
  PROVE  Ages
<1>1. CASE p = "run"
  <2>1. now' = now
    BY <1>1 DEF Outcome, FlushEnded, ToIdle, ToList, AnswerDone, NextPart, ToRemove,
                FailureDone, TryAgain, ToSpool
  <2>2. QED
    BY <1>1, <2>1, RunSteps
<1>2. CASE p = "loop"
  <2> SUFFICES ASSUME NEW k \in Spools, NEW r \in Rec, New(k, r)', ~New(k, r) PROVE FALSE
    BY DEF Ages
  <2>1. /\ ProcOK("loop", pc["loop"], job["loop"], todo["loop"], now)
        /\ job["loop"].kind \in Spools /\ job["loop"] \in Jobs /\ r # 0
    BY DEF Control, Procs, Jobs, Rec
  <2>2. CASE ToIdle("loop")
    BY <2>1, <2>2 DEF ToIdle, New, Later
  <2>3. CASE job["loop"].kind = "telemetry" /\ ToList("loop")
    BY <2>1, <2>3 DEF ToList, New, Later
  <2>4. CASE ~job["loop"].fresh /\ ToPublish
    BY <2>1, <2>4 DEF ToPublish, New, Later, Job
  <2>5. CASE pc["loop"] \in {"post", "line"} /\ NextPart("loop")
    <3>1. /\ job'["loop"].kind = job["loop"].kind /\ job'["loop"].rec = job["loop"].rec
          /\ job'["loop"].fresh = job["loop"].fresh
      BY <2>1, <2>5 DEF NextPart, Jobs
    <3>2. QED
      BY <2>5, <3>1 DEF NextPart, New, Later
  <2>6. CASE pc["loop"] \in {"post", "line"} /\ TryAgain("loop")
    <3>1. /\ job'["loop"].kind = job["loop"].kind /\ job'["loop"].rec = job["loop"].rec
          /\ job'["loop"].fresh = job["loop"].fresh
      BY <2>1, <2>6 DEF TryAgain, Jobs
    <3>2. QED
      BY <2>6, <3>1 DEF TryAgain, New, Later
  <2>7. CASE pc["loop"] \in {"post", "line"} /\ (ToRemove("loop") \/ ToSpool("loop"))
    BY <2>7 DEF ToRemove, ToSpool, New, Later
  <2>8. QED
    BY <1>2, <2>2, <2>3, <2>4, <2>5, <2>6, <2>7
       DEF Outcome, FlushEnded, RecordWasDone, AnswerDone, FailureDone
<1>3. QED
  BY <1>1, <1>2 DEF Procs

\* A process hears of no other record by an outcome.
LEMMA OutcomeKnown ==
  ASSUME Control, Known, NEW p \in Procs, Outcome(p),
         NEW k \in Spools, NEW r \in Rec,
         job'[p].kind = k, ~job'[p].fresh, r \in todo'[p] \/ Working(p, k, r)'
  PROVE  ~New(k, r)
<1>1. job[p] \in Jobs
  BY DEF Control
<1>2. CASE ToIdle(p) \/ ToList(p)
  BY <1>2 DEF ToIdle, ToList, Working
<1>3. CASE p = "loop" /\ ToPublish
  BY <1>3 DEF ToPublish, Job
<1>4. CASE pc[p] \in {"post", "line"} /\ (NextPart(p) \/ TryAgain(p) \/ ToRemove(p) \/ ToSpool(p))
  <2>1. /\ job'[p].kind = job[p].kind /\ job'[p].rec = job[p].rec
        /\ job'[p].fresh = job[p].fresh /\ todo'[p] = todo[p]
    BY <1>1, <1>4 DEF NextPart, TryAgain, ToRemove, ToSpool, Jobs
  <2>2. r \in todo[p] \/ Working(p, k, r)
    BY <1>4, <2>1 DEF Working
  <2>3. QED
    BY <2>1, <2>2 DEF Known
<1>5. QED
  BY <1>2, <1>3, <1>4 DEF Outcome, FlushEnded, RecordWasDone, AnswerDone, FailureDone

\* No file appears.
Fewer == \A k \in Spools, r \in Rec : spool'[k][r] # spool[k][r] => spool'[k][r] = "none"

LEMMA OutcomeKeepsKnown ==
  ASSUME Control, Known, NEW p \in Procs, Alone(p), Outcome(p), collected' = collected, Fewer
  PROVE  Known'
<1>1. Ages
  BY OutcomeAges
<1>2. \A k \in Spools, r \in Rec :
        job'[p].kind = k /\ ~job'[p].fresh /\ (r \in todo'[p] \/ Working(p, k, r)') => ~New(k, r)
  BY OutcomeKnown
<1>3. QED
  BY <1>1, <1>2, KnownKeeps DEF Fewer

-----------------------------------------------------------------------------
\* The accounts.
LoopQuiet ==
  \A k \in Spools, r \in Rec : \A i \in 1..Parts(k) : LoopMay(k, r, i)' => LoopMay(k, r, i)
RunQuiet ==
  \A k \in Spools, r \in Rec : \A i \in 1..Parts(k) : RunMay(k, r, i)' => RunMay(k, r, i)

LEMMA LoopUntouched ==
  ASSUME Same("loop"), now' = now, collected' = collected, Fewer,
         \A k \in Spools : up[k] => up'[k]
  PROVE  LoopQuiet
<1> SUFFICES ASSUME NEW k \in Spools, NEW r \in Rec, NEW i \in 1..Parts(k), LoopMay(k, r, i)'
             PROVE  LoopMay(k, r, i)
  BY DEF LoopQuiet
<1>1. /\ Working("loop", k, r)' <=> Working("loop", k, r)
      /\ Past("loop", k, r, i)' <=> Past("loop", k, r, i)
      /\ Later(k, r)' <=> Later(k, r)
  BY DEF Same, Working, Past, Later
<1>2. spool'[k][r] # "none" => spool[k][r] # "none"
  BY DEF Fewer
<1>3. QED
  BY <1>1, <1>2 DEF LoopMay, Same

LEMMA RunUntouched ==
  ASSUME Same("run"), \A k \in Spools : up[k] => up'[k]
  PROVE  RunQuiet
BY DEF RunQuiet, RunMay, Same, Working, Past

LEMMA NumberTypes ==
  ASSUME Data
  PROVE  /\ faults \in Nat /\ runs \in Nat
         /\ \A k \in Spools, r \in Rec : \A i \in 1..Parts(k) : got[k][r][i] \in Nat
<1>1. faults \in Nat /\ runs \in Nat
  BY TransportAssumption DEF Data
<1>2. ASSUME NEW k \in Spools, NEW r \in Rec, NEW i \in 1..Parts(k) PROVE got[k][r][i] \in Nat
  <2>1. got[k] \in [Rec -> [1..Parts(k) -> Nat]]
    BY DEF Data
  <2>2. QED
    BY <2>1
<1>3. QED
  BY <1>1, <1>2

LEMMA QuietPays ==
  ASSUME Data, Paid, got' = got, faults' = faults, runs' = runs, LoopQuiet, RunQuiet
  PROVE  Paid'
<1> SUFFICES ASSUME NEW k \in Spools, NEW r \in Rec, NEW i \in 1..Parts(k)
             PROVE  got[k][r][i] + One(LoopMay(k, r, i)') + One(RunMay(k, r, i)')
                      <= 1 + faults + runs
  BY DEF Paid, One
<1>1. got[k][r][i] \in Nat /\ faults \in Nat /\ runs \in Nat
  BY NumberTypes
<1>2. got[k][r][i] + One(LoopMay(k, r, i)) + One(RunMay(k, r, i)) <= 1 + faults + runs
  BY DEF Paid
<1>3. /\ LoopMay(k, r, i)' => LoopMay(k, r, i)
      /\ RunMay(k, r, i)' => RunMay(k, r, i)
  BY DEF LoopQuiet, RunQuiet
<1>4. QED
  BY <1>1, <1>2, <1>3 DEF One

\* A fault pays for one process, and so does the start of a run.
LEMMA FaultPays ==
  ASSUME Data, Paid, got' = got, faults' + runs' = faults + runs + 1,
         faults' \in Nat, runs' \in Nat,
         \A k \in Spools, r \in Rec : \A i \in 1..Parts(k) :
           (LoopMay(k, r, i)' => LoopMay(k, r, i)) \/ (RunMay(k, r, i)' => RunMay(k, r, i))
  PROVE  Paid'
<1> SUFFICES ASSUME NEW k \in Spools, NEW r \in Rec, NEW i \in 1..Parts(k)
             PROVE  got[k][r][i] + One(LoopMay(k, r, i)') + One(RunMay(k, r, i)')
                      <= 1 + faults' + runs'
  BY DEF Paid, One
<1>1. got[k][r][i] \in Nat /\ faults \in Nat /\ runs \in Nat
  BY NumberTypes
<1>2. got[k][r][i] + One(LoopMay(k, r, i)) + One(RunMay(k, r, i)) <= 1 + faults + runs
  BY DEF Paid
<1>3. \/ LoopMay(k, r, i)' => LoopMay(k, r, i)
      \/ RunMay(k, r, i)' => RunMay(k, r, i)
  OBVIOUS
<1> DEFINE a == One(LoopMay(k, r, i))
           b == One(RunMay(k, r, i))
           c == One(LoopMay(k, r, i)')
           d == One(RunMay(k, r, i)')
<1>4. a \in 0..1 /\ b \in 0..1 /\ c \in 0..1 /\ d \in 0..1
  BY DEF One
<1>5. c <= a \/ d <= b
  BY <1>3 DEF One
<1>6. got[k][r][i] + a + b <= 1 + faults + runs
  BY <1>2
<1> HIDE DEF a, b, c, d
<1>7. got[k][r][i] + c + d <= 1 + faults' + runs'
  <2>1. \A g, f, n, e, m \in Nat : g + a + b <= 1 + f + n /\ e + m = f + n + 1
                                     => g + c + d <= 1 + e + m
    BY <1>4, <1>5
  <2>2. faults' + runs' = faults + runs + 1 /\ faults' \in Nat /\ runs' \in Nat
    OBVIOUS
  <2>3. QED
    BY <1>1, <1>6, <2>1, <2>2
<1>8. QED
  BY <1>7 DEF c, d

\* A step of one process quiets the other.
LEMMA OtherQuiet ==
  ASSUME NEW p \in Procs, Alone(p), collected' = collected, p = "run" => now' = now, Fewer,
         \A k \in Spools : up[k] => up'[k]
  PROVE  /\ p = "run" => LoopQuiet
         /\ p = "loop" => RunQuiet
<1>1. (p = "run" => Same("loop")) /\ (p = "loop" => Same("run"))
  BY DEF Alone, Procs
<1>2. QED
  BY <1>1, LoopUntouched, RunUntouched

LEMMA ProcessFault ==
  ASSUME Data, Paid, NEW p \in Procs, Alone(p), collected' = collected, p = "run" => now' = now,
         Fewer, UNCHANGED <<up, got, runs>>, faults' = faults + 1
  PROVE  Paid'
<1>1. faults \in Nat /\ runs \in Nat
  BY NumberTypes
<1>2. LoopQuiet \/ RunQuiet
  BY OtherQuiet DEF Procs
<1>3. QED
  BY <1>1, <1>2, FaultPays DEF LoopQuiet, RunQuiet

\* What a sink takes.
LEMMA TookTypes ==
  ASSUME Control, Data, NEW p \in Procs, pc[p] = "post", got' = Took(p)
  PROVE  /\ DOMAIN got' = Spools
         /\ \A k \in Spools : got'[k] \in [Rec -> [1..Parts(k) -> Nat]]
         /\ job[p].kind \in Spools /\ job[p].rec \in Rec /\ job[p].part \in 1..Parts(job[p].kind)
         /\ \A k \in Spools, r \in Rec : \A i \in 1..Parts(k) :
              got'[k][r][i] = IF k = job[p].kind /\ r = job[p].rec /\ i = job[p].part
                              THEN got[k][r][i] + 1 ELSE got[k][r][i]
<1> DEFINE k0 == job[p].kind
           r0 == job[p].rec
           i0 == job[p].part
<1>1. job[p] \in Jobs /\ ProcOK(p, pc[p], job[p], todo[p], now)
  BY DEF Control
<1>2. k0 \in Spools /\ r0 \in Rec /\ i0 \in 1..Parts(k0)
  <2>1. k0 \in Spools /\ r0 \in Rec /\ i0 \in 1..Sessions /\ i0 <= Parts(k0)
    BY <1>1 DEF Jobs, ProcOK
  <2>2. Parts(k0) \in Nat
    BY TransportAssumption DEF Parts
  <2>3. QED
    BY <2>1, <2>2, TransportAssumption
<1>3. got' = [got EXCEPT ![k0][r0][i0] = @ + 1]
  BY DEF Took
<1> HIDE DEF k0, r0, i0
<1>4. DOMAIN got = Spools /\ \A k \in Spools : got[k] \in [Rec -> [1..Parts(k) -> Nat]]
  BY DEF Data
<1>5. DOMAIN got' = Spools
  BY <1>3, <1>4
<1>6. ASSUME NEW k \in Spools
      PROVE  got'[k] = IF k = k0 THEN [got[k0] EXCEPT ![r0][i0] = @ + 1] ELSE got[k]
  BY <1>3, <1>4
<1>7. got[k0] \in [Rec -> [1..Parts(k0) -> Nat]] /\ got[k0][r0][i0] \in Nat
  <2>1. got[k0] \in [Rec -> [1..Parts(k0) -> Nat]]
    BY <1>2, <1>4
  <2>2. got[k0][r0] \in [1..Parts(k0) -> Nat]
    BY <1>2, <2>1
  <2>3. QED
    BY <1>2, <2>1, <2>2
<1>8. [got[k0] EXCEPT ![r0][i0] = @ + 1] \in [Rec -> [1..Parts(k0) -> Nat]]
  BY <1>2, <1>7
<1>9. \A k \in Spools : got'[k] \in [Rec -> [1..Parts(k) -> Nat]]
  BY <1>4, <1>6, <1>8
<1>10. ASSUME NEW k \in Spools, NEW r \in Rec, NEW i \in 1..Parts(k)
       PROVE  got'[k][r][i] = IF k = k0 /\ r = r0 /\ i = i0
                              THEN got[k][r][i] + 1 ELSE got[k][r][i]
  <2>1. CASE k = k0
    <3>1. got'[k][r] = IF r = r0 THEN [got[k0][r0] EXCEPT ![i0] = @ + 1] ELSE got[k0][r]
      BY <1>2, <1>6, <1>7, <2>1
    <3>2. got[k0][r0] \in [1..Parts(k0) -> Nat]
      BY <1>2, <1>7
    <3>3. QED
      BY <1>2, <2>1, <3>1, <3>2
  <2>2. CASE k # k0
    BY <1>6, <2>2
  <2>3. QED
    BY <2>1, <2>2
<1>11. QED
  BY <1>2, <1>5, <1>9, <1>10 DEF k0, r0, i0

\* A process that is about to post a part may post it.
LEMMA PosterMay ==
  ASSUME Control, NEW p \in Procs, pc[p] = "post"
  PROVE  LET k == job[p].kind
             r == job[p].rec
             i == job[p].part IN
         /\ p = "loop" => LoopMay(k, r, i)
         /\ p = "run" => RunMay(k, r, i)
<1>1. job[p].part \in Nat
  BY TransportAssumption DEF Control, Jobs
<1>2. QED
  BY <1>1 DEF LoopMay, RunMay, Working, Past

\* A post that is taken, and after it the process may not post the part any more.
LEMMA PostPays ==
  ASSUME Control, Data, Paid, NEW p \in Procs, pc[p] = "post", got' = Took(p), Alone(p),
         UNCHANGED <<collected, up, spool, faults, runs>>, p = "run" => now' = now,
         p = "loop" => LoopQuiet, p = "run" => RunQuiet,
         \A k \in Spools, r \in Rec : \A i \in 1..Parts(k) :
           k = job[p].kind /\ r = job[p].rec /\ i = job[p].part
             => /\ p = "loop" => ~LoopMay(k, r, i)'
                /\ p = "run" => ~RunMay(k, r, i)'
  PROVE  Paid'
<1> DEFINE k0 == job[p].kind
           r0 == job[p].rec
           i0 == job[p].part
<1> SUFFICES ASSUME NEW k \in Spools, NEW r \in Rec, NEW i \in 1..Parts(k)
             PROVE  got'[k][r][i] + One(LoopMay(k, r, i)') + One(RunMay(k, r, i)')
                      <= 1 + faults + runs
  BY DEF Paid, One
<1>1. got[k][r][i] \in Nat /\ faults \in Nat /\ runs \in Nat
  BY NumberTypes
<1>2. got[k][r][i] + One(LoopMay(k, r, i)) + One(RunMay(k, r, i)) <= 1 + faults + runs
  BY DEF Paid
<1>3. got'[k][r][i] = IF k = k0 /\ r = r0 /\ i = i0 THEN got[k][r][i] + 1 ELSE got[k][r][i]
  BY TookTypes
<1>4. LoopQuiet /\ RunQuiet
  BY OtherQuiet DEF Procs, Fewer
<1>5. /\ LoopMay(k, r, i)' => LoopMay(k, r, i)
      /\ RunMay(k, r, i)' => RunMay(k, r, i)
  BY <1>4 DEF LoopQuiet, RunQuiet
<1>6. CASE k = k0 /\ r = r0 /\ i = i0
  <2>1. p = "loop" => LoopMay(k, r, i) /\ ~LoopMay(k, r, i)'
    BY <1>6, PosterMay
  <2>2. p = "run" => RunMay(k, r, i) /\ ~RunMay(k, r, i)'
    BY <1>6, PosterMay
  <2>3. p = "loop" \/ p = "run"
    BY DEF Procs
  <2>4. QED
    BY <1>1, <1>2, <1>3, <1>5, <1>6, <2>1, <2>2, <2>3 DEF One
<1>7. CASE ~(k = k0 /\ r = r0 /\ i = i0)
  BY <1>1, <1>2, <1>3, <1>5, <1>7 DEF One
<1>8. QED
  BY <1>6, <1>7

\* A post that is taken and whose answer is lost: the fault pays for the next one.
LEMMA LostAnswerPays ==
  ASSUME Control, Data, Paid, NEW p \in Procs, pc[p] = "post", got' = Took(p), Alone(p),
         UNCHANGED <<collected, up, spool, runs>>, p = "run" => now' = now,
         faults' = faults + 1
  PROVE  Paid'
<1> DEFINE k0 == job[p].kind
           r0 == job[p].rec
           i0 == job[p].part
<1> SUFFICES ASSUME NEW k \in Spools, NEW r \in Rec, NEW i \in 1..Parts(k)
             PROVE  got'[k][r][i] + One(LoopMay(k, r, i)') + One(RunMay(k, r, i)')
                      <= 1 + (faults + 1) + runs
  BY DEF Paid, One
<1>1. got[k][r][i] \in Nat /\ faults \in Nat /\ runs \in Nat
  BY NumberTypes
<1>2. got[k][r][i] + One(LoopMay(k, r, i)) + One(RunMay(k, r, i)) <= 1 + faults + runs
  BY DEF Paid
<1>3. got'[k][r][i] = IF k = k0 /\ r = r0 /\ i = i0 THEN got[k][r][i] + 1 ELSE got[k][r][i]
  BY TookTypes
<1>4. /\ p = "run" => LoopQuiet
      /\ p = "loop" => RunQuiet
  BY OtherQuiet DEF Fewer
<1>5. p = "loop" \/ p = "run"
  BY DEF Procs
<1>6. CASE k = k0 /\ r = r0 /\ i = i0
  <2>1. /\ p = "loop" => LoopMay(k, r, i)
        /\ p = "run" => RunMay(k, r, i)
    BY <1>6, PosterMay
  <2>2. QED
    BY <1>1, <1>2, <1>3, <1>4, <1>5, <1>6, <2>1 DEF One, LoopQuiet, RunQuiet
<1>7. CASE ~(k = k0 /\ r = r0 /\ i = i0)
  BY <1>1, <1>2, <1>3, <1>4, <1>5, <1>7 DEF One, LoopQuiet, RunQuiet
<1>8. QED
  BY <1>6, <1>7

-----------------------------------------------------------------------------
\* No outcome but that of a fault gives a process a part to post.
LEMMA FlushQuiet ==
  ASSUME Control, Known, NEW p \in Procs, ~job[p].fresh, pc[p] \notin {"idle", "down"},
         FlushEnded(p, TRUE) \/ FlushEnded(p, FALSE),
         UNCHANGED <<collected, spool, up>>,
         \A k \in Spools, r \in Rec : Working(p, k, r) => ~up[k] \/ spool[k][r] = "none"
  PROVE  (p = "loop" => LoopQuiet) /\ (p = "run" => RunQuiet)
<1>1. CASE p = "loop"
  <2> SUFFICES ASSUME NEW k \in Spools, NEW r \in Rec, NEW i \in 1..Parts(k), LoopMay(k, r, i)',
                      ~LoopMay(k, r, i)
               PROVE  FALSE
    BY <1>1 DEF LoopQuiet
  <2>1. r # 0 /\ job["loop"].kind \in Spools
    BY DEF Rec, Control, Procs, Jobs
  <2>2. CASE ToPublish
    BY <1>1, <2>1, <2>2 DEF ToPublish, LoopMay, Later, Working, Past, Job
  <2>3. CASE ToIdle("loop")
    BY <1>1, <2>1, <2>3 DEF ToIdle, LoopMay, Later, Working, Past
  <2>4. QED
    BY <1>1, <2>2, <2>3 DEF FlushEnded
<1>2. CASE p = "run"
  <2> SUFFICES ASSUME NEW k \in Spools, NEW r \in Rec, NEW i \in 1..Parts(k), RunMay(k, r, i)'
               PROVE  RunMay(k, r, i)
    BY <1>2 DEF RunQuiet
  <2>1. job["run"].kind = "telemetry" /\ ToList("run")
    BY <1>2 DEF FlushEnded, ToIdle, RunMay
  <2>2. job'["run"].kind = "worktime" /\ pc'["run"] = "list" /\ todo'["run"] = {}
    BY <2>1 DEF ToList, Job
  <2>3. QED
    BY <1>2, <2>1, <2>2 DEF RunMay, Working
<1>3. QED
  BY <1>1, <1>2

LEMMA RecordQuiet ==
  ASSUME Control, Known, job["loop"].fresh, RecordWasDone, UNCHANGED <<collected, up>>,
         \A k \in Spools, r \in Rec : spool'[k][r] # spool[k][r] =>
           pc["loop"] \in {"spool", "write"} /\ job["loop"].kind = k /\ job["loop"].rec = r
  PROVE  LoopQuiet
<1> SUFFICES ASSUME NEW k \in Spools, NEW r \in Rec, NEW i \in 1..Parts(k), LoopMay(k, r, i)',
                    ~LoopMay(k, r, i)
             PROVE  FALSE
  BY DEF LoopQuiet
<1>1. ProcOK("loop", pc["loop"], job["loop"], todo["loop"], now) /\ r # 0
  BY DEF Control, Procs, Rec
<1>2. pc["loop"] \in {"post", "line", "spool", "write"}
  BY <1>1 DEF ProcOK
<1>3. CASE pc["loop"] \in {"spool", "write"} /\ job["loop"].kind = k /\ job["loop"].rec = r
  BY <1>3 DEF LoopMay
<1>4. CASE ~(pc["loop"] \in {"spool", "write"} /\ job["loop"].kind = k /\ job["loop"].rec = r)
  <2>1. spool'[k][r] = spool[k][r]
    BY <1>4
  <2>2. Working("loop", k, r) => New(k, r)
    BY <1>2 DEF Working, New
  <2>3. spool'[k][r] = "none"
    <3>1. CASE New(k, r)
      BY <2>1, <3>1 DEF Known
    <3>2. CASE ~New(k, r)
      BY <2>1, <2>2, <3>2 DEF LoopMay, Past
    <3>3. QED
      BY <3>1, <3>2
  <2>4. CASE job["loop"].kind = "telemetry" /\ ToList("loop")
    BY <2>3, <2>4 DEF ToList, LoopMay, Later, Working, Past
  <2>5. CASE ToIdle("loop")
    BY <1>1, <2>3, <2>5 DEF ToIdle, LoopMay, Later, Working, Past
  <2>6. QED
    BY <2>4, <2>5 DEF RecordWasDone
<1>5. QED
  BY <1>3, <1>4

\* The job stays and what was past stays past.
LEMMA OnwardQuiet ==
  ASSUME Control, NEW p \in Procs, pc[p] \in {"post", "line"}, NextPart(p) \/ ToRemove(p),
         UNCHANGED <<collected, spool, up>>
  PROVE  (p = "loop" => LoopQuiet) /\ (p = "run" => RunQuiet)
<1>1. /\ job'[p].kind = job[p].kind /\ job'[p].rec = job[p].rec /\ job'[p].fresh = job[p].fresh
      /\ job[p].part \in Nat
      /\ pc'[p] = "remove" \/ (pc[p] = "post" /\ pc'[p] = "post" /\ job'[p].part = job[p].part + 1)
      /\ pc'[p] \in {"post", "remove"} /\ todo'[p] = todo[p] /\ now' = now
  <2>1. job[p] \in Jobs /\ job[p].part \in Nat
    BY TransportAssumption DEF Control, Jobs
  <2>2. QED
    BY <2>1 DEF NextPart, ToRemove, Jobs
<1>2. ASSUME NEW k \in Spools, NEW r \in Rec, NEW i \in 1..Parts(k)
      PROVE  /\ Working(p, k, r)' <=> Working(p, k, r)
             /\ Past(p, k, r, i) => Past(p, k, r, i)'
  <2>1. i \in Nat
    BY TransportAssumption DEF Parts
  <2>2. Working(p, k, r)' <=> Working(p, k, r)
    BY <1>1 DEF Working
  <2>3. QED
    BY <1>1, <2>1, <2>2 DEF Past
<1>3. CASE p = "loop"
  <2>1. \A k, r : Later(k, r)' <=> Later(k, r)
    BY <1>1, <1>3 DEF Later
  <2>2. QED
    BY <1>1, <1>2, <1>3, <2>1 DEF LoopQuiet, LoopMay
<1>4. CASE p = "run"
  BY <1>1, <1>2, <1>4 DEF RunQuiet, RunMay
<1>5. QED
  BY <1>3, <1>4

LEMMA AnswerQuiet ==
  ASSUME Control, Known, NEW p \in Procs, pc[p] \in {"post", "line"}, AnswerDone(p),
         UNCHANGED <<collected, spool, up>>
  PROVE  (p = "loop" => LoopQuiet) /\ (p = "run" => RunQuiet)
<1>1. CASE NextPart(p) \/ ToRemove(p)
  BY <1>1, OnwardQuiet
<1>2. CASE p = "loop" /\ job[p].fresh /\ RecordWasDone
  BY <1>2, RecordQuiet
<1>3. QED
  BY <1>1, <1>2 DEF AnswerDone

\* The part that was taken may not be posted again.
LEMMA AnswerEnds ==
  ASSUME Control, Known, NEW p \in Procs, pc[p] = "post", AnswerDone(p),
         UNCHANGED <<collected, spool, up>>,
         NEW k \in Spools, NEW r \in Rec, NEW i \in 1..Parts(k),
         k = job[p].kind, r = job[p].rec, i = job[p].part, up[k]
  PROVE  (p = "loop" => ~LoopMay(k, r, i)') /\ (p = "run" => ~RunMay(k, r, i)')
<1>1. /\ job[p] \in Jobs /\ ProcOK(p, pc[p], job[p], todo[p], now)
      /\ i \in Nat /\ collected \in Nat /\ now \in Nat /\ now <= collected /\ r # 0 /\ r \in Nat
  BY TransportAssumption DEF Control, Jobs, Rec
<1>2. Working(p, k, r)
  BY DEF Working
<1>3. CASE NextPart(p) \/ ToRemove(p)
  <2>1. /\ job'[p].kind = k /\ job'[p].rec = r /\ job'[p].fresh = job[p].fresh
        /\ pc'[p] = "remove" \/ (pc'[p] = "post" /\ job'[p].part = i + 1)
        /\ pc'[p] \in {"post", "remove"} /\ todo'[p] = todo[p] /\ now' = now
    BY <1>1, <1>3 DEF NextPart, ToRemove, Jobs
  <2>2. Past(p, k, r, i)'
    BY <1>1, <2>1 DEF Past, Working
  <2>3. CASE p = "loop"
    <3>1. ~(collected < r) /\ ~Later(k, r)
      <4>1. CASE job[p].fresh
        BY <1>1, <2>3, <4>1 DEF ProcOK, Later
      <4>2. CASE ~job[p].fresh
        BY <1>2, <4>2 DEF Known, New
      <4>3. QED
        BY <4>1, <4>2
    <3>2. ~Later(k, r)'
      BY <2>1, <2>3, <3>1 DEF Later
    <3>3. QED
      BY <2>1, <2>2, <2>3, <3>1, <3>2 DEF LoopMay
  <2>4. CASE p = "run"
    BY <1>1, <2>1, <2>2, <2>4 DEF RunMay, ProcOK
  <2>5. QED
    BY <2>3, <2>4
<1>4. CASE p = "loop" /\ job[p].fresh /\ RecordWasDone
  <2>1. New(k, r)
    BY <1>4 DEF New
  <2>2. spool[k][r] = "none" /\ r = now
    BY <1>1, <1>4, <2>1 DEF Known, ProcOK
  <2>3. CASE ToIdle("loop")
    BY <1>1, <1>4, <2>2, <2>3 DEF ToIdle, LoopMay, Later, Working
  <2>4. CASE k = "telemetry" /\ ToList("loop")
    <3>1. pc'["loop"] = "list" /\ spool'[k][r] = "none" /\ ~(collected' < r)
      BY <1>1, <2>2, <2>4 DEF ToList
    <3>2. ~Later(k, r)' /\ ~Working("loop", k, r)'
      BY <2>4, <3>1 DEF Later, Working
    <3>3. ~LoopMay(k, r, i)'
      BY <3>1, <3>2 DEF LoopMay
    <3>4. QED
      BY <1>4, <3>3
  <2>5. QED
    BY <1>4, <2>3, <2>4 DEF RecordWasDone
<1>5. QED
  BY <1>3, <1>4 DEF AnswerDone

\* While its sink is down a failure costs nothing: the outage has paid for it.
LEMMA DownQuiet ==
  ASSUME Control, Known, NEW p \in Procs, pc[p] \in {"post", "line"}, FailureDone(p),
         ~up[job[p].kind], UNCHANGED <<collected, spool, up>>
  PROVE  (p = "loop" => LoopQuiet) /\ (p = "run" => RunQuiet)
<1>1. job[p] \in Jobs /\ ProcOK(p, pc[p], job[p], todo[p], now)
  BY DEF Control
<1>2. CASE ~job[p].fresh /\ FlushEnded(p, FALSE)
  <2>1. \A k \in Spools, r \in Rec : Working(p, k, r) => ~up[k] \/ spool[k][r] = "none"
    BY DEF Working
  <2>2. QED
    BY <1>2, <2>1, FlushQuiet
<1>3. CASE TryAgain(p) \/ ToSpool(p)
  <2>1. /\ job'[p].kind = job[p].kind /\ job'[p].rec = job[p].rec
        /\ job'[p].fresh = job[p].fresh /\ job'[p].part = job[p].part
        /\ pc'[p] \in {"post", "spool"} /\ todo'[p] = todo[p] /\ now' = now
        /\ p = "run" => pc'[p] = "post"
    BY <1>1, <1>3 DEF TryAgain, ToSpool, Jobs
  <2>2. CASE p = "loop"
    <3> SUFFICES ASSUME NEW k \in Spools, NEW r \in Rec, NEW i \in 1..Parts(k),
                        LoopMay(k, r, i)'
                 PROVE  LoopMay(k, r, i)
      BY <2>2 DEF LoopQuiet
    <3>1. CASE Working("loop", k, r)
      BY <2>2, <3>1 DEF LoopMay, Working
    <3>2. CASE ~Working("loop", k, r)
      BY <2>1, <2>2, <3>2 DEF LoopMay, Later, Working, Past
    <3>3. QED
      BY <3>1, <3>2
  <2>3. CASE p = "run"
    <3> SUFFICES ASSUME NEW k \in Spools, NEW r \in Rec, NEW i \in 1..Parts(k),
                        RunMay(k, r, i)'
                 PROVE  RunMay(k, r, i)
      BY <2>3 DEF RunQuiet
    <3>1. CASE Working("run", k, r) /\ pc["run"] = "line"
      BY <2>3, <3>1 DEF RunMay, Working
    <3>2. CASE ~(Working("run", k, r) /\ pc["run"] = "line")
      BY <2>1, <2>3, <3>2 DEF RunMay, Working, Past
    <3>3. QED
      BY <3>1, <3>2
  <2>4. QED
    BY <2>2, <2>3
<1>4. QED
  BY <1>2, <1>3 DEF FailureDone

-----------------------------------------------------------------------------
\* The steps of the loop.
LEMMA InitTransport == Init => TransportInv
<1> SUFFICES ASSUME Init PROVE TransportInv
  OBVIOUS
<1>1. Control
  BY JobTypes, TransportAssumption DEF Init, Control, Procs, Labels, ProcOK
<1>2. Data
  BY TransportAssumption DEF Init, Data, Spools
<1>3. ASSUME NEW k \in Spools, NEW r \in Rec PROVE spool[k][r] = "none"
  BY <1>3 DEF Init
<1>4. Known
  BY <1>3, JobTypes DEF Init, Known, Working
<1>5. ASSUME NEW k \in Spools, NEW r \in Rec, NEW i \in 1..Parts(k)
      PROVE  got[k][r][i] = 0 /\ ~RunMay(k, r, i)
  BY DEF Init, RunMay, Procs
<1>6. Paid
  BY <1>5 DEF Paid, One, Init
<1>7. QED
  BY <1>1, <1>2, <1>4, <1>6 DEF TransportInv

\* What does not touch the processes.
LEMMA StillControl ==
  ASSUME Control, Known, UNCHANGED process, UNCHANGED collected, UNCHANGED spool
  PROVE  Control' /\ Known' /\ Same("loop") /\ Same("run")
BY DEF process, Control, Known, Same, New, Later, Working

LEMMA OutageStep ==
  ASSUME TransportInv, NEW k \in Spools, Outage(k)
  PROVE  TransportInv'
<1>1. Control /\ Data /\ Known /\ Paid
  BY DEF TransportInv
<1>2. Control' /\ Known' /\ Same("loop") /\ Same("run")
  BY <1>1, StillControl DEF Outage
<1>3. /\ faults' = faults + 1 /\ runs' = runs /\ got' = got /\ faults' \in 0..MaxFaults
      /\ UNCHANGED <<now, collected, spool>> /\ up' = [up EXCEPT ![k] = FALSE]
  BY <1>1, TransportAssumption DEF Outage, Fault, Data, store, process
<1>4. Data'
  <2>1. losses' \in Nat
    BY <1>1 DEF Outage, Data
  <2>2. up' \in [Spools -> BOOLEAN]
    BY <1>1, <1>3 DEF Data
  <2>3. QED
    BY <1>1, <1>3, <2>1, <2>2 DEF Outage, Data, store
<1>5. ASSUME NEW m \in Spools, NEW r \in Rec, NEW i \in 1..Parts(m)
      PROVE  (LoopMay(m, r, i)' => LoopMay(m, r, i)) \/ (RunMay(m, r, i)' => RunMay(m, r, i))
  <2>1. CASE Working("run", m, r) /\ pc["run"] = "line"
    <3>1. m = "telemetry" /\ ~New(m, r)
      BY <1>1, <2>1 DEF Working, Control, ProcOK, Procs, Known
    <3>2. ~Working("loop", m, r)
      <4>1. CASE job["loop"].fresh
        BY <1>1, <3>1, <4>1 DEF Working, New, Control, ProcOK, Procs
      <4>2. CASE ~job["loop"].fresh
        BY <1>1, <3>1, <4>2 DEF Working, Control, ProcOK, Procs
      <4>3. QED
        BY <4>1, <4>2
    <3>3. LoopMay(m, r, i)' => LoopMay(m, r, i)
      BY <1>2, <1>3, <3>2 DEF LoopMay, Same, Working, Past, Later
    <3>4. QED
      BY <3>3
  <2>2. CASE ~(Working("run", m, r) /\ pc["run"] = "line")
    BY <1>2, <1>3, <2>2 DEF RunMay, Same, Working, Past
  <2>3. QED
    BY <2>1, <2>2
<1>6. Paid'
  <2>1. faults \in Nat /\ runs \in Nat
    BY <1>1, NumberTypes
  <2>2. QED
    BY <1>1, <1>3, <1>5, <2>1, FaultPays
<1>7. QED
  BY <1>2, <1>4, <1>6 DEF TransportInv

LEMMA RecoverStep ==
  ASSUME TransportInv, NEW k \in Spools, Recover(k)
  PROVE  TransportInv'
<1>1. Control /\ Data /\ Known /\ Paid
  BY DEF TransportInv
<1>2. Control' /\ Known' /\ Same("loop") /\ Same("run")
  BY <1>1, StillControl DEF Recover
<1>3. up' \in [Spools -> BOOLEAN] /\ \A m \in Spools : up[m] => up'[m]
  BY <1>1 DEF Recover, Data
<1>4. Data'
  BY <1>1, <1>3 DEF Recover, Data, store, limits
<1>5. LoopQuiet /\ RunQuiet
  BY <1>2, <1>3, LoopUntouched, RunUntouched DEF Recover, process, Fewer
<1>6. Paid'
  BY <1>1, <1>5, QuietPays DEF Recover, store, limits
<1>7. QED
  BY <1>2, <1>4, <1>6 DEF TransportInv

\* What a step that leaves the data alone, faults and losses apart, has to show.
LEMMA SameData ==
  ASSUME Data, UNCHANGED <<spool, up, store, losses, runs>>, faults' \in 0..MaxFaults
  PROVE  Data'
BY DEF Data, store

LEMMA FaultRange ==
  ASSUME Data, Fault
  PROVE  faults' \in 0..MaxFaults /\ faults' = faults + 1
BY TransportAssumption DEF Data, Fault

LEMMA FlushFailsStep ==
  ASSUME TransportInv, NEW p \in Procs, FlushFails(p)
  PROVE  TransportInv'
<1>1. Control /\ Data /\ Known /\ Paid
  BY DEF TransportInv
<1>2. /\ FlushEnds(p, FALSE) /\ Fault /\ pc[p] \in {"list", "read", "remove"}
      /\ UNCHANGED <<collected, spool, up, store, losses, runs>>
  BY DEF FlushFails
<1>3. Control' /\ Alone(p) /\ FlushEnded(p, FALSE)
  BY <1>1, <1>2, FlushEndsMove
<1>4. Outcome(p)
  BY <1>1, <1>2, <1>3 DEF Outcome, Control, ProcOK, Procs
<1>5. Fewer
  BY <1>2 DEF Fewer
<1>6. Known'
  BY <1>1, <1>2, <1>3, <1>4, <1>5, OutcomeKeepsKnown
<1>7. Data' /\ faults' = faults + 1
  BY <1>1, <1>2, SameData, FaultRange
<1>8. p = "run" => now' = now
  BY <1>3 DEF FlushEnded, ToList, ToIdle
<1>9. Paid'
  BY <1>1, <1>2, <1>3, <1>5, <1>7, <1>8, ProcessFault DEF store
<1>10. QED
  BY <1>3, <1>6, <1>7, <1>9 DEF TransportInv

\* A process that stops: killed, or started again.
LEMMA StopKnown ==
  ASSUME Control, Known, NEW p \in Procs, NEW l \in {"idle", "down"}, Alone(p),
         pc'[p] = l, job'[p] = Nothing, todo'[p] = {},
         now' = IF p = "loop" THEN 0 ELSE now, UNCHANGED <<collected, spool>>
  PROVE  Known'
<1>1. Ages
  <2>1. CASE p = "run"
    BY <2>1, RunSteps
  <2>2. CASE p = "loop"
    BY <2>2 DEF Ages, New, Later, Rec
  <2>3. QED
    BY <2>1, <2>2 DEF Procs
<1>2. \A k \in Spools, r \in Rec :
        job'[p].kind = k /\ ~job'[p].fresh /\ (r \in todo'[p] \/ Working(p, k, r)') => ~New(k, r)
  BY DEF Working
<1>3. QED
  BY <1>1, <1>2, KnownKeeps

LEMMA KillStep ==
  ASSUME TransportInv, NEW p \in Procs, Kill(p)
  PROVE  TransportInv'
<1>1. Control /\ Data /\ Known /\ Paid
  BY DEF TransportInv
<1> DEFINE l == IF p = "loop" THEN "down" ELSE "idle"
<1>2. /\ Stop(p, l) /\ Fault /\ UNCHANGED <<collected, spool, up, store, runs>>
      /\ losses' = losses \/ losses' = losses + 1
  BY DEF Kill
<1>3. l \in {"idle", "down"} /\ (l = "down" => p = "loop")
  OBVIOUS
<1> HIDE DEF l
<1>4. /\ Control' /\ Alone(p)
      /\ pc'[p] = l /\ job'[p] = Nothing /\ todo'[p] = {}
      /\ now' = IF p = "loop" THEN 0 ELSE now
  BY <1>1, <1>2, <1>3, StopMove
<1>5. Known'
  BY <1>1, <1>2, <1>3, <1>4, StopKnown
<1>6. faults' \in 0..MaxFaults /\ faults' = faults + 1 /\ losses' \in Nat
  BY <1>1, <1>2, FaultRange DEF Data
<1>7. Data'
  BY <1>1, <1>2, <1>6 DEF Data, store
<1>8. (p = "run" => now' = now) /\ Fewer
  BY <1>2, <1>4 DEF Fewer
<1>9. Paid'
  BY <1>1, <1>2, <1>4, <1>6, <1>8, ProcessFault DEF store
<1>10. QED
  BY <1>4, <1>5, <1>7, <1>9 DEF TransportInv

LEMMA RestartStep ==
  ASSUME TransportInv, Restart
  PROVE  TransportInv'
<1>1. Control /\ Data /\ Known /\ Paid /\ "loop" \in Procs
  BY DEF TransportInv, Procs
<1>2. /\ Stop("loop", "idle") /\ pc["loop"] = "down"
      /\ UNCHANGED <<collected, spool, up, store, losses, limits>>
  BY DEF Restart
<1>3. /\ Control' /\ Alone("loop")
      /\ pc'["loop"] = "idle" /\ job'["loop"] = Nothing /\ todo'["loop"] = {} /\ now' = 0
  BY <1>1, <1>2, StopMove
<1>4. Known'
  BY <1>1, <1>2, <1>3, StopKnown
<1>5. Data'
  BY <1>1, <1>2 DEF Data, store, limits
<1>6. LoopQuiet /\ RunQuiet
  <2>1. LoopQuiet
    <3> SUFFICES ASSUME NEW k \in Spools, NEW r \in Rec, NEW i \in 1..Parts(k), LoopMay(k, r, i)'
                 PROVE  LoopMay(k, r, i)
      BY DEF LoopQuiet
    <3>1. QED
      BY <1>2, <1>3 DEF LoopMay, Later, Working, Past, Rec
  <2>2. QED
    BY <1>1, <1>2, <1>3, <2>1, OtherQuiet DEF Fewer
<1>7. Paid'
  BY <1>1, <1>2, <1>6, QuietPays DEF store, limits
<1>8. QED
  BY <1>3, <1>4, <1>5, <1>7 DEF TransportInv

LEMMA CollectStep ==
  ASSUME TransportInv, Collect
  PROVE  TransportInv'
<1>1. Control /\ Data /\ Known /\ Paid /\ "loop" \in Procs
  BY DEF TransportInv, Procs
<1> DEFINE n == collected + 1
           j == Job("telemetry", TRUE, n)
<1>2. /\ pc["loop"] = "idle" /\ n \in Rec /\ collected' = n /\ now' = n
      /\ pc' = [pc EXCEPT !["loop"] = "post"] /\ job' = [job EXCEPT !["loop"] = j]
      /\ UNCHANGED <<todo, spool, up, store, losses, limits>> /\ todo["loop"] = {}
  BY <1>1, TransportAssumption DEF Collect, Goto, Control, ProcOK, Rec
<1>3. /\ j \in Jobs /\ j.kind = "telemetry" /\ j.fresh /\ j.rec = n
      /\ j.part = 1 /\ j.part <= Parts(j.kind)
  <2>1. "telemetry" \in Spools /\ n \in 0..Records
    BY <1>2 DEF Spools, Rec
  <2>2. QED
    BY <2>1, TransportAssumption DEF Job, Jobs, Parts
<1>4. collected \in Nat /\ n \in Nat /\ n \in 0..Records /\ n # 0 /\ n = collected + 1
  BY <1>1, <1>2 DEF Control, Rec
<1> HIDE DEF n, j
<1>5. ProcOK("loop", "post", j, {}, n) /\ "post" \in Labels /\ {} \in SUBSET Rec
  BY <1>2, <1>3, <1>4 DEF ProcOK, Labels
<1>6. todo' = [todo EXCEPT !["loop"] = {}]
  BY <1>1, <1>2 DEF Control
<1>7. /\ Control' /\ Alone("loop") /\ pc'["loop"] = "post" /\ job'["loop"] = j
      /\ todo'["loop"] = {}
  <2>1. /\ now' \in 0..Records /\ collected' \in 0..Records /\ now' <= collected'
        /\ ProcOK("loop", "post", j, {}, now') /\ "loop" # "run"
    BY <1>2, <1>4, <1>5
  <2>2. QED
    BY <1>1, <1>2, <1>3, <1>5, <1>6, <2>1, MoveKeeps
<1>8. \A r \in Rec : r \in Nat /\ (n < r => collected < r) /\ (n = r => collected < r)
  BY <1>4 DEF Rec
<1>9. Ages
  BY <1>2, <1>3, <1>7, <1>8 DEF Ages, New, Later
<1>10. Known'
  BY <1>1, <1>2, <1>3, <1>7, <1>9, KnownKeeps
<1>11. Data'
  BY <1>1, <1>2 DEF Data, store, limits
<1>12. LoopQuiet
  BY <1>2, <1>3, <1>7, <1>8 DEF LoopQuiet, LoopMay, Later, Working, Past
<1>13. RunQuiet
  <2>1. Same("run")
    BY <1>7 DEF Alone, Procs
  <2>2. QED
    BY <1>2, <2>1, RunUntouched
<1>14. Paid'
  BY <1>1, <1>2, <1>12, <1>13, QuietPays DEF store, limits
<1>15. QED
  BY <1>7, <1>10, <1>11, <1>14 DEF TransportInv

LEMMA TurnStep ==
  ASSUME TransportInv, Turn
  PROVE  TransportInv'
<1>1. Control /\ Data /\ Known /\ Paid /\ "loop" \in Procs
  BY DEF TransportInv, Procs
<1>2. /\ pc["loop"] = "idle" /\ Listing("loop") /\ todo["loop"] = {} /\ now = 0
      /\ UNCHANGED <<collected, spool, up, store, losses, limits>>
  BY <1>1 DEF Turn, Control, ProcOK
<1>3. Control' /\ Alone("loop") /\ ToList("loop")
  BY <1>1, <1>2, ListingMove
<1>4. \A r \in Rec : r # 0
  BY DEF Rec
<1>5. Ages
  BY <1>2, <1>3, <1>4 DEF Ages, New, Later, ToList
<1>6. Known'
  BY <1>1, <1>2, <1>3, <1>5, KnownKeeps DEF ToList, Working
<1>7. Data'
  BY <1>1, <1>2 DEF Data, store, limits
<1>8. LoopQuiet
  BY <1>2, <1>3, <1>4 DEF LoopQuiet, LoopMay, Later, Working, Past, ToList
<1>9. RunQuiet
  BY <1>1, <1>2, <1>3, OtherQuiet DEF Fewer
<1>10. Paid'
  BY <1>1, <1>2, <1>8, <1>9, QuietPays DEF store, limits
<1>11. QED
  BY <1>3, <1>6, <1>7, <1>10 DEF TransportInv

\* A record that is being written is not new any more.
LEMMA WriteNotNew ==
  ASSUME Control, pc["loop"] = "write"
  PROVE  /\ job["loop"].kind \in Spools /\ job["loop"].rec = now /\ now \in Rec
         /\ job["loop"].fresh /\ ~New(job["loop"].kind, now)
<1>1. /\ ProcOK("loop", pc["loop"], job["loop"], todo["loop"], now) /\ job["loop"] \in Jobs
      /\ now \in 0..Records /\ collected \in Nat /\ now <= collected
  BY DEF Control, Procs
<1>2. job["loop"].fresh /\ job["loop"].rec = now /\ now # 0 /\ job["loop"].kind \in Spools
  BY <1>1 DEF ProcOK, Jobs
<1>3. now \in Rec /\ ~(collected < now)
  BY <1>1, <1>2, TransportAssumption DEF Rec
<1>4. QED
  BY <1>2, <1>3 DEF New, Later

LEMMA SpoolOpenStep ==
  ASSUME TransportInv, SpoolOpen
  PROVE  TransportInv'
<1>1. Control /\ Data /\ Known /\ Paid /\ "loop" \in Procs
  BY DEF TransportInv, Procs
<1> DEFINE j == job["loop"]
<1>2. /\ pc["loop"] = "spool" /\ Goto("loop", "write", j)
      /\ spool' = [spool EXCEPT ![j.kind][now] = "half"]
      /\ UNCHANGED <<todo, now, collected, up, store, losses, limits>>
  BY DEF SpoolOpen
<1>3. /\ j \in Jobs /\ ProcOK("loop", "spool", j, todo["loop"], now)
      /\ "write" \in Labels
  BY <1>1, <1>2 DEF Control, Labels
<1>4. ProcOK("loop", "write", j, todo["loop"], now)
  BY <1>3 DEF ProcOK
<1>5. /\ Control' /\ Alone("loop") /\ pc'["loop"] = "write" /\ job'["loop"] = j
      /\ todo'["loop"] = todo["loop"]
  BY <1>1, <1>2, <1>3, <1>4, GotoMove
<1>6. /\ j.kind \in Spools /\ j.rec = now /\ now \in Rec /\ j.fresh /\ job' = job
  BY <1>1, <1>2, <1>3, TransportAssumption DEF ProcOK, Jobs, Control, Rec, Goto
<1>7. /\ spool' \in [Spools -> [Rec -> {"none", "half", "whole"}]]
      /\ \A k \in Spools, r \in Rec :
           spool'[k][r] = IF k = j.kind /\ r = now THEN "half" ELSE spool[k][r]
  <2> DEFINE k0 == j.kind
  <2>1. spool' = [spool EXCEPT ![k0][now] = "half"] /\ k0 \in Spools
        /\ "half" \in {"none", "half", "whole"}
    BY <1>2, <1>6
  <2> HIDE DEF j, k0
  <2>2. /\ spool' \in [Spools -> [Rec -> {"none", "half", "whole"}]]
        /\ \A k \in Spools, r \in Rec :
             spool'[k][r] = IF k = k0 /\ r = now THEN "half" ELSE spool[k][r]
    BY <1>1, <1>6, <2>1 DEF Data
  <2>3. QED
    BY <2>2 DEF k0
<1>8. Ages
  BY <1>2, <1>5 DEF Ages, New, Later
<1>9. ~New(j.kind, now)'
  <2>1. pc'["loop"] = "write" /\ job'["loop"].kind = j.kind /\ now' = now
    BY <1>2, <1>5
  <2>2. \A k \in Spools : k = job'["loop"].kind => ~New(k, now)'
    BY <1>2, <1>5, <1>6, <1>1 DEF New, Later, Control
  <2>3. QED
    BY <1>6, <2>1, <2>2
<1>10. \A k \in Spools, r \in Rec : spool'[k][r] # spool[k][r] => ~New(k, r)'
  BY <1>2, <1>5, <1>6, <1>7, <1>9
<1>11. \A k \in Spools, r \in Rec : job'["loop"].kind = k /\ ~job'["loop"].fresh => FALSE
  BY <1>5, <1>6
<1>12. Known'
  BY <1>1, <1>5, <1>8, <1>10, <1>11, KnownKeeps
<1>13. Data'
  BY <1>1, <1>2, <1>7 DEF Data, store, limits
<1>14. LoopQuiet
  <2> SUFFICES ASSUME NEW k \in Spools, NEW r \in Rec, NEW i \in 1..Parts(k), LoopMay(k, r, i)'
               PROVE  LoopMay(k, r, i)
    BY DEF LoopQuiet
  <2>1. CASE k = j.kind /\ r = now
    BY <1>2, <1>6, <2>1 DEF LoopMay
  <2>2. CASE ~(k = j.kind /\ r = now)
    BY <1>2, <1>5, <1>6, <1>7, <2>2 DEF LoopMay, Later, Working, Past
  <2>3. QED
    BY <2>1, <2>2
<1>15. RunQuiet
  <2>1. Same("run")
    BY <1>5 DEF Alone, Procs
  <2>2. QED
    BY <1>2, <2>1, RunUntouched
<1>16. Paid'
  BY <1>1, <1>2, <1>14, <1>15, QuietPays DEF store, limits
<1>17. QED
  BY <1>5, <1>12, <1>13, <1>16 DEF TransportInv

LEMMA SpoolWriteStep ==
  ASSUME TransportInv, SpoolWrite
  PROVE  TransportInv'
<1>1. Control /\ Data /\ Known /\ Paid /\ "loop" \in Procs
  BY DEF TransportInv, Procs
<1> DEFINE k0 == job["loop"].kind
<1>2. /\ pc["loop"] = "write" /\ RecordDone /\ spool' = [spool EXCEPT ![k0][now] = "whole"]
      /\ UNCHANGED <<collected, up, store, losses, limits>>
  BY DEF SpoolWrite
<1>3. /\ k0 \in Spools /\ job["loop"].rec = now /\ now \in Rec
      /\ job["loop"].fresh /\ ~New(k0, now)
  BY <1>1, <1>2, WriteNotNew
<1>4. Control' /\ Alone("loop") /\ RecordWasDone
  BY <1>1, <1>2, <1>3, RecordDoneMove
<1>5. /\ spool' \in [Spools -> [Rec -> {"none", "half", "whole"}]]
      /\ \A k \in Spools, r \in Rec :
           spool'[k][r] = IF k = k0 /\ r = now THEN "whole" ELSE spool[k][r]
  <2>1. "whole" \in {"none", "half", "whole"}
    OBVIOUS
  <2> HIDE DEF k0
  <2>2. QED
    BY <1>1, <1>2, <1>3, <2>1 DEF Data
<1>6. Outcome("loop")
  BY <1>3, <1>4 DEF Outcome
<1>7. Ages
  BY <1>1, <1>2, <1>4, <1>6, OutcomeAges
<1>8. \A k \in Spools, r \in Rec : spool'[k][r] # spool[k][r] => ~New(k, r)'
  BY <1>3, <1>5, <1>7 DEF Ages
<1>9. \A k \in Spools, r \in Rec :
        job'["loop"].kind = k /\ ~job'["loop"].fresh /\ (r \in todo'["loop"] \/ Working("loop", k, r)')
          => ~New(k, r)
  BY <1>1, <1>6, OutcomeKnown
<1>10. Known'
  BY <1>1, <1>4, <1>7, <1>8, <1>9, KnownKeeps
<1>11. Data'
  BY <1>1, <1>2, <1>5 DEF Data, store, limits
<1>12. LoopQuiet
  BY <1>1, <1>2, <1>3, <1>4, <1>5, RecordQuiet
<1>13. RunQuiet
  <2>1. Same("run")
    BY <1>4 DEF Alone, Procs
  <2>2. QED
    BY <1>2, <2>1, RunUntouched
<1>14. Paid'
  BY <1>1, <1>2, <1>12, <1>13, QuietPays DEF store, limits
<1>15. QED
  BY <1>4, <1>10, <1>11, <1>14 DEF TransportInv

LEMMA SpoolFailsStep ==
  ASSUME TransportInv, SpoolFails
  PROVE  TransportInv'
<1>1. Control /\ Data /\ Known /\ Paid /\ "loop" \in Procs
  BY DEF TransportInv, Procs
<1>2. /\ pc["loop"] \in {"spool", "write"} /\ RecordDone /\ Fault /\ losses' = losses + 1
      /\ UNCHANGED <<collected, spool, up, store, runs>>
  BY DEF SpoolFails
<1>3. job["loop"].fresh
  BY <1>1, <1>2 DEF Control, ProcOK
<1>4. Control' /\ Alone("loop") /\ RecordWasDone
  BY <1>1, <1>2, <1>3, RecordDoneMove
<1>5. Outcome("loop") /\ Fewer
  BY <1>2, <1>3, <1>4 DEF Outcome, Fewer
<1>6. Known'
  BY <1>1, <1>2, <1>4, <1>5, OutcomeKeepsKnown
<1>7. faults' \in 0..MaxFaults /\ faults' = faults + 1 /\ losses' \in Nat
  BY <1>1, <1>2, FaultRange DEF Data
<1>8. Data'
  BY <1>1, <1>2, <1>7 DEF Data, store
<1>9. Paid'
  BY <1>1, <1>2, <1>4, <1>5, <1>7, ProcessFault DEF store
<1>10. QED
  BY <1>4, <1>6, <1>8, <1>9 DEF TransportInv
-----------------------------------------------------------------------------
\* The steps of a flush.
LEMMA OutcomeNow ==
  ASSUME NEW p \in Procs, Outcome(p), p = "run"
  PROVE  now' = now
BY DEF Outcome, FlushEnded, ToIdle, ToList, AnswerDone, NextPart, ToRemove, FailureDone, TryAgain,
       ToSpool

LEMMA StartRunStep ==
  ASSUME TransportInv, StartRun
  PROVE  TransportInv'
<1>1. Control /\ Data /\ Known /\ Paid /\ "run" \in Procs
  BY DEF TransportInv, Procs
<1>2. /\ pc["run"] = "idle" /\ runs < MaxRuns /\ runs' = runs + 1
      /\ Goto("run", "list", Nothing) /\ todo["run"] = {}
      /\ UNCHANGED <<todo, now, collected, spool, up, store, losses, faults>>
  BY <1>1 DEF StartRun, Control, ProcOK
<1>3. ProcOK("run", "list", Nothing, todo["run"], now) /\ "list" \in Labels /\ Nothing \in Jobs
  BY <1>2, JobTypes DEF ProcOK, Labels
<1>4. /\ Control' /\ Alone("run") /\ pc'["run"] = "list" /\ job'["run"] = Nothing
      /\ todo'["run"] = {}
  BY <1>1, <1>2, <1>3, GotoMove
<1>5. Same("loop") /\ Ages
  BY <1>2, <1>4, RunSteps
<1>6. \A k \in Spools, r \in Rec : ~(r \in todo'["run"] \/ Working("run", k, r)')
  BY <1>4 DEF Working
<1>7. Known'
  BY <1>1, <1>2, <1>4, <1>5, <1>6, KnownKeeps
<1>8. runs' \in 0..MaxRuns
  BY <1>1, <1>2, TransportAssumption DEF Data
<1>9. Data'
  BY <1>1, <1>2, <1>8 DEF Data, store
<1>10. LoopQuiet
  BY <1>2, <1>5, LoopUntouched DEF Fewer
<1>11. faults' + runs' = faults + runs + 1 /\ faults' \in Nat /\ runs' \in Nat
  <2>1. faults \in Nat /\ runs \in Nat
    BY <1>1, NumberTypes
  <2>2. QED
    BY <1>2, <2>1
<1>12. Paid'
  BY <1>1, <1>2, <1>10, <1>11, FaultPays DEF store, LoopQuiet
<1>13. QED
  BY <1>4, <1>7, <1>9, <1>12 DEF TransportInv

\* A process that lists, reads or removes does so in a flush.
LEMMA Flushing ==
  ASSUME Control, NEW p \in Procs, pc[p] \in {"list", "read", "remove"}
  PROVE  /\ ~job[p].fresh /\ job[p] \in Jobs /\ job[p].kind \in Spools
         /\ todo[p] \in SUBSET Rec
         /\ ProcOK(p, pc[p], job[p], todo[p], now)
BY DEF Control, ProcOK, Procs, Jobs

\* The flush goes on: the job is still one of a flush and of the same spool.
LEMMA FlushAges ==
  ASSUME Control, NEW p \in Procs, Alone(p), pc[p] \in {"list", "read", "remove"},
         ~job'[p].fresh, now' = now, collected' = collected
  PROVE  Ages
<1>1. ~job[p].fresh
  BY Flushing
<1>2. CASE p = "run"
  BY <1>2, RunSteps
<1>3. CASE p = "loop"
  BY <1>1, <1>3 DEF Ages, New, Later
<1>4. QED
  BY <1>2, <1>3 DEF Procs

LEMMA ListStep ==
  ASSUME TransportInv, NEW p \in Procs, List(p)
  PROVE  TransportInv'
<1>1. Control /\ Data /\ Known /\ Paid
  BY DEF TransportInv
<1> DEFINE k0 == job[p].kind
           files == {r \in Rec : spool[k0][r] # "none"}
<1>2. /\ pc[p] = "list" /\ Goto(p, "read", job[p]) /\ todo' = [todo EXCEPT ![p] = files]
      /\ UNCHANGED <<now, collected, spool, up, store, losses, limits>>
  BY DEF List
<1>3. ~job[p].fresh /\ job[p] \in Jobs /\ ProcOK(p, "list", job[p], todo[p], now)
  BY <1>1, <1>2, Flushing
<1>4. files \in SUBSET Rec /\ "read" \in Labels
  BY DEF Labels
<1>5. \A r \in files : spool[k0][r] # "none"
  OBVIOUS
<1> HIDE DEF files
<1>6. ProcOK(p, "read", job[p], files, now)
  BY <1>3 DEF ProcOK
<1>7. /\ now' \in 0..Records /\ collected' \in 0..Records /\ now' <= collected' /\ now' = now
      /\ ProcOK(p, "read", job[p], files, now')
  BY <1>1, <1>2, <1>6 DEF Control
<1>8. /\ Control' /\ Alone(p) /\ pc'[p] = "read" /\ job'[p] = job[p] /\ todo'[p] = files
  BY <1>1, <1>2, <1>3, <1>4, <1>7, MoveKeeps DEF Goto
<1>9. Ages
  BY <1>1, <1>2, <1>3, <1>8, FlushAges
<1>10. \A k \in Spools, r \in Rec :
         job'[p].kind = k /\ ~job'[p].fresh /\ (r \in todo'[p] \/ Working(p, k, r)') => ~New(k, r)
  BY <1>1, <1>5, <1>8 DEF Known, Working
<1>11. Known'
  BY <1>1, <1>2, <1>8, <1>9, <1>10, KnownKeeps
<1>12. Data'
  BY <1>1, <1>2 DEF Data, store, limits
<1>13. p = "loop" => LoopQuiet
  BY <1>2, <1>8 DEF LoopQuiet, LoopMay, Later, Working, Past
<1>14. p = "run" => RunQuiet
  BY <1>2, <1>8 DEF RunQuiet, RunMay, Working, Past
<1>15. LoopQuiet /\ RunQuiet
  BY <1>2, <1>8, <1>13, <1>14, OtherQuiet DEF Fewer, Procs
<1>16. Paid'
  BY <1>1, <1>2, <1>15, QuietPays DEF store, limits
<1>17. QED
  BY <1>8, <1>11, <1>12, <1>16 DEF TransportInv

LEMMA ReadStep ==
  ASSUME TransportInv, NEW p \in Procs, Read(p)
  PROVE  TransportInv'
<1>1. Control /\ Data /\ Known /\ Paid
  BY DEF TransportInv
<1>2. pc[p] = "read" /\ UNCHANGED <<collected, spool, up, store, losses, limits>>
  BY DEF Read
<1>3. /\ ~job[p].fresh /\ job[p] \in Jobs /\ job[p].kind \in Spools /\ todo[p] \in SUBSET Rec
      /\ ProcOK(p, "read", job[p], todo[p], now)
  BY <1>1, <1>2, Flushing
<1>4. Data' /\ Fewer
  BY <1>1, <1>2 DEF Data, store, limits, Fewer
<1>5. ASSUME NEW ok \in BOOLEAN, FlushEnds(p, ok), ok => todo[p] = {} PROVE TransportInv'
  <2>1. Control' /\ Alone(p) /\ FlushEnded(p, ok)
    BY <1>1, <1>2, <1>5, FlushEndsMove
  <2>2. Outcome(p) /\ (FlushEnded(p, TRUE) \/ FlushEnded(p, FALSE))
    BY <1>2, <1>3, <2>1 DEF Outcome
  <2>3. Known'
    BY <1>1, <1>2, <1>4, <2>1, <2>2, OutcomeKeepsKnown
  <2>4. \A k \in Spools, r \in Rec : ~Working(p, k, r)
    BY <1>2 DEF Working
  <2>5. (p = "loop" => LoopQuiet) /\ (p = "run" => RunQuiet)
    BY <1>1, <1>2, <1>3, <2>2, <2>4, FlushQuiet
  <2>6. LoopQuiet /\ RunQuiet
    BY <1>2, <1>4, <2>1, <2>2, <2>5, OtherQuiet, OutcomeNow DEF Procs
  <2>7. QED
    BY <1>1, <1>2, <1>4, <2>1, <2>3, <2>6, QuietPays DEF TransportInv, store, limits
<1>6. ASSUME NEW r0 \in First(todo[p]), spool[job[p].kind][r0] = "whole",
             Goto(p, "post", Job(job[p].kind, FALSE, r0)),
             todo' = [todo EXCEPT ![p] = @ \ {r0}], now' = now
      PROVE  TransportInv'
  <2> DEFINE k0 == job[p].kind
             j == Job(k0, FALSE, r0)
             t == todo[p] \ {r0}
  <2>1. r0 \in todo[p] /\ r0 \in Rec /\ r0 \in 0..Records /\ k0 \in Spools
    BY <1>3, <1>6, TransportAssumption DEF First, Rec
  <2>2. /\ j \in Jobs /\ j.kind = k0 /\ ~j.fresh /\ j.rec = r0 /\ j.part = 1
        /\ j.part <= Parts(j.kind)
    BY <2>1, TransportAssumption DEF Job, Jobs, Parts
  <2>3. /\ pc' = [pc EXCEPT ![p] = "post"] /\ job' = [job EXCEPT ![p] = j]
        /\ todo' = [todo EXCEPT ![p] = t] /\ t \in SUBSET Rec /\ r0 \notin t /\ "post" \in Labels
        /\ \A r \in t : r \in todo[p]
    BY <1>1, <1>3, <1>6 DEF Goto, Labels, Control
  <2> HIDE DEF j, t
  <2>4. /\ now' \in 0..Records /\ collected' \in 0..Records /\ now' <= collected'
        /\ ProcOK(p, "post", j, t, now')
    BY <1>1, <1>2, <1>3, <1>6, <2>1, <2>2, <2>3 DEF Control, ProcOK
  <2>5. /\ Control' /\ Alone(p) /\ pc'[p] = "post" /\ job'[p] = j /\ todo'[p] = t
    BY <1>1, <1>6, <2>2, <2>3, <2>4, MoveKeeps
  <2>6. Ages
    BY <1>1, <1>2, <1>6, <2>2, <2>5, FlushAges
  <2>7. \A k \in Spools, r \in Rec :
          job'[p].kind = k /\ ~job'[p].fresh /\ (r \in todo'[p] \/ Working(p, k, r)')
            => ~New(k, r)
    BY <1>1, <1>3, <2>1, <2>2, <2>3, <2>5 DEF Known, Working
  <2>8. Known'
    BY <1>1, <1>2, <2>5, <2>6, <2>7, KnownKeeps
  <2>9. p = "loop" => LoopQuiet
    BY <1>2, <1>3, <1>6, <2>2, <2>5 DEF LoopQuiet, LoopMay, Later, Working, Past
  <2>10. p = "run" => RunQuiet
    BY <1>2, <1>3, <1>6, <2>1, <2>2, <2>3, <2>5 DEF RunQuiet, RunMay, Working, Past
  <2>11. LoopQuiet /\ RunQuiet
    BY <1>2, <1>4, <1>6, <2>5, <2>9, <2>10, OtherQuiet DEF Procs
  <2>12. QED
    BY <1>1, <1>2, <1>4, <2>5, <2>8, <2>11, QuietPays DEF TransportInv, store, limits
<1>7. QED
  <2>1. CASE todo[p] = {} /\ FlushEnds(p, TRUE)
    BY <1>5, <2>1
  <2>2. ASSUME NEW r0 \in First(todo[p]), spool[job[p].kind][r0] # "whole", FlushEnds(p, FALSE)
        PROVE  TransportInv'
    BY <1>5, <2>2
  <2>3. QED
    BY <1>6, <2>1, <2>2 DEF Read
LEMMA RemoveStep ==
  ASSUME TransportInv, NEW p \in Procs, Remove(p)
  PROVE  TransportInv'
<1>1. Control /\ Data /\ Known /\ Paid
  BY DEF TransportInv
<1>2. pc[p] = "remove" /\ UNCHANGED <<collected, up, store, losses, limits>>
  BY DEF Remove
<1> DEFINE k0 == job[p].kind
           r0 == job[p].rec
<1>3. /\ ~job[p].fresh /\ job[p] \in Jobs /\ k0 \in Spools /\ r0 \in Rec /\ todo[p] \in SUBSET Rec
      /\ ProcOK(p, "remove", job[p], todo[p], now)
  BY <1>1, <1>2, Flushing DEF ProcOK
<1>4. CASE spool[k0][r0] = "none"
  <2>1. FlushEnds(p, FALSE) /\ UNCHANGED spool
    BY <1>4 DEF Remove
  <2>2. Control' /\ Alone(p) /\ FlushEnded(p, FALSE)
    BY <1>1, <1>2, <2>1, FlushEndsMove
  <2>3. Outcome(p) /\ Fewer
    BY <1>2, <1>3, <2>1, <2>2 DEF Outcome, Fewer
  <2>4. Known'
    BY <1>1, <1>2, <2>2, <2>3, OutcomeKeepsKnown
  <2>5. \A k \in Spools, r \in Rec : Working(p, k, r) => spool[k][r] = "none"
    BY <1>4 DEF Working
  <2>6. (p = "loop" => LoopQuiet) /\ (p = "run" => RunQuiet)
    BY <1>1, <1>2, <1>3, <2>1, <2>2, <2>5, FlushQuiet
  <2>7. LoopQuiet /\ RunQuiet
    BY <1>2, <2>2, <2>3, <2>6, OtherQuiet, OutcomeNow DEF Procs
  <2>8. Data'
    BY <1>1, <1>2, <2>1 DEF Data, store, limits
  <2>9. QED
    BY <1>1, <1>2, <2>2, <2>4, <2>7, <2>8, QuietPays DEF TransportInv, store, limits
<1>5. CASE spool[k0][r0] # "none"
  <2> DEFINE j == Job(k0, FALSE, 0)
  <2>1. /\ spool' = [spool EXCEPT ![k0][r0] = "none"]
        /\ Goto(p, "read", j) /\ UNCHANGED <<todo, now>>
    BY <1>5 DEF Remove
  <2>2. /\ j \in Jobs /\ j.kind = k0 /\ ~j.fresh /\ j.part <= Parts(j.kind) /\ "read" \in Labels
    BY <1>3, TransportAssumption DEF Job, Jobs, Parts, Labels
  <2> HIDE DEF j
  <2>3. ProcOK(p, "read", j, todo[p], now)
    BY <1>3, <2>2 DEF ProcOK
  <2>4. /\ Control' /\ Alone(p) /\ pc'[p] = "read" /\ job'[p] = j /\ todo'[p] = todo[p]
    BY <1>1, <1>2, <2>1, <2>2, <2>3, GotoMove
  <2>5. /\ spool' \in [Spools -> [Rec -> {"none", "half", "whole"}]]
        /\ \A k \in Spools, r \in Rec :
             spool'[k][r] = IF k = k0 /\ r = r0 THEN "none" ELSE spool[k][r]
    <3> HIDE DEF k0, r0
    <3>1. QED
      BY <1>1, <1>3, <2>1 DEF Data
  <2>6. Ages /\ Fewer
    BY <1>1, <1>2, <2>1, <2>2, <2>4, <2>5, FlushAges DEF Fewer
  <2>7. \A k \in Spools, r \in Rec :
          job'[p].kind = k /\ ~job'[p].fresh /\ (r \in todo'[p] \/ Working(p, k, r)')
            => ~New(k, r)
    BY <1>1, <1>3, <2>2, <2>4 DEF Known, Working
  <2>8. Known'
    BY <1>1, <1>2, <2>4, <2>6, <2>7, KnownKeeps DEF Fewer
  <2>9. p = "loop" => LoopQuiet
    BY <1>2, <1>3, <2>1, <2>2, <2>4, <2>5 DEF LoopQuiet, LoopMay, Later, Working, Past
  <2>10. p = "run" => RunQuiet
    BY <1>2, <2>2, <2>4 DEF RunQuiet, RunMay, Working, Past
  <2>11. LoopQuiet /\ RunQuiet
    BY <1>2, <2>1, <2>4, <2>6, <2>9, <2>10, OtherQuiet DEF Procs
  <2>12. Data'
    BY <1>1, <1>2, <2>5 DEF Data, store, limits
  <2>13. QED
    BY <1>1, <1>2, <2>4, <2>8, <2>11, <2>12, QuietPays DEF TransportInv, store, limits
<1>6. QED
  BY <1>4, <1>5

-----------------------------------------------------------------------------
\* The steps of a post.
LEMMA AnsweredOutcome ==
  ASSUME Control, Known, NEW p \in Procs, pc[p] \in {"post", "line"}, Answered(p),
         UNCHANGED <<collected, spool, up>>
  PROVE  /\ Control' /\ Known' /\ Alone(p) /\ AnswerDone(p) /\ LoopQuiet /\ RunQuiet
         /\ p = "run" => now' = now
<1>1. Control' /\ Alone(p) /\ AnswerDone(p)
  BY AnsweredMove
<1>2. Outcome(p) /\ Fewer
  BY <1>1 DEF Outcome, Fewer
<1>3. Known' /\ (p = "run" => now' = now)
  BY <1>1, <1>2, OutcomeKeepsKnown, OutcomeNow
<1>4. (p = "loop" => LoopQuiet) /\ (p = "run" => RunQuiet)
  BY <1>1, AnswerQuiet
<1>5. LoopQuiet /\ RunQuiet
  BY <1>1, <1>2, <1>3, <1>4, OtherQuiet DEF Procs
<1>6. QED
  BY <1>1, <1>3, <1>5

LEMMA FailedOutcome ==
  ASSUME Control, Known, NEW p \in Procs, pc[p] \in {"post", "line"}, Failed(p),
         UNCHANGED <<collected, spool, up>>
  PROVE  /\ Control' /\ Known' /\ Alone(p) /\ FailureDone(p) /\ Fewer
         /\ p = "run" => now' = now
<1>1. Control' /\ Alone(p) /\ FailureDone(p)
  BY FailedMove
<1>2. Outcome(p) /\ Fewer
  BY <1>1 DEF Outcome, Fewer
<1>3. Known' /\ (p = "run" => now' = now)
  BY <1>1, <1>2, OutcomeKeepsKnown, OutcomeNow
<1>4. QED
  BY <1>1, <1>2, <1>3

LEMMA HeartbeatStep ==
  ASSUME TransportInv, NEW p \in Procs, Heartbeat(p)
  PROVE  TransportInv'
<1>1. Control /\ Data /\ Known /\ Paid
  BY DEF TransportInv
<1>2. /\ pc[p] = "post" /\ job[p].kind = "worktime" /\ up["worktime"] /\ got' = Took(p)
      /\ UNCHANGED <<collected, spool, up, tail, lines, overlaps, losses, runs>>
      /\ \/ Answered(p) /\ UNCHANGED faults
         \/ Fault /\ Failed(p)
  BY DEF Heartbeat, Reply
<1>3. DOMAIN got' = Spools /\ \A k \in Spools : got'[k] \in [Rec -> [1..Parts(k) -> Nat]]
  BY <1>1, <1>2, TookTypes
<1>4. faults' \in 0..MaxFaults
  BY <1>1, <1>2, FaultRange DEF Data
<1>5. Data'
  BY <1>1, <1>2, <1>3, <1>4 DEF Data
<1>6. CASE Answered(p) /\ UNCHANGED faults
  <2>1. /\ Control' /\ Known' /\ Alone(p) /\ AnswerDone(p) /\ LoopQuiet /\ RunQuiet
        /\ p = "run" => now' = now
    BY <1>1, <1>2, <1>6, AnsweredOutcome
  <2>2. ASSUME NEW k \in Spools, NEW r \in Rec, NEW i \in 1..Parts(k),
               k = job[p].kind, r = job[p].rec, i = job[p].part
        PROVE  /\ p = "loop" => ~LoopMay(k, r, i)'
               /\ p = "run" => ~RunMay(k, r, i)'
    BY <1>1, <1>2, <2>1, <2>2, AnswerEnds
  <2>3. Paid'
    BY <1>1, <1>2, <1>6, <2>1, <2>2, PostPays
  <2>4. QED
    BY <1>5, <2>1, <2>3 DEF TransportInv
<1>7. CASE Fault /\ Failed(p)
  <2>1. /\ Control' /\ Known' /\ Alone(p) /\ FailureDone(p) /\ Fewer
        /\ p = "run" => now' = now
    BY <1>1, <1>2, <1>7, FailedOutcome
  <2>2. faults' = faults + 1
    BY <1>1, <1>7, FaultRange
  <2>3. Paid'
    BY <1>1, <1>2, <2>1, <2>2, LostAnswerPays
  <2>4. QED
    BY <1>5, <2>1, <2>3 DEF TransportInv
<1>8. QED
  BY <1>2, <1>6, <1>7

LEMMA TextStep ==
  ASSUME TransportInv, NEW p \in Procs, Text(p)
  PROVE  TransportInv'
<1>1. Control /\ Data /\ Known /\ Paid
  BY DEF TransportInv
<1>2. /\ pc[p] = "post" /\ job[p].kind = "telemetry" /\ up["telemetry"] /\ got' = Took(p)
      /\ tail' = Append(tail, job[p].rec) /\ Goto(p, "line", job[p])
      /\ overlaps' = overlaps \/ overlaps' = overlaps + 1
      /\ UNCHANGED <<todo, now, collected, spool, up, lines, losses, limits>>
  BY DEF Text
<1>3. /\ DOMAIN got' = Spools
      /\ \A k \in Spools : got'[k] \in [Rec -> [1..Parts(k) -> Nat]]
      /\ job[p].rec \in Rec
  BY <1>1, <1>2, TookTypes
<1>4. Data'
  <2>1. tail' \in Seq(Rec) /\ overlaps' \in Nat
    BY <1>1, <1>2, <1>3 DEF Data
  <2>2. QED
    BY <1>1, <1>2, <1>3, <2>1 DEF Data, limits
<1>5. /\ job[p] \in Jobs /\ ProcOK(p, "post", job[p], todo[p], now) /\ "line" \in Labels
      /\ now <= collected /\ now \in Nat /\ collected \in Nat
  BY <1>1, <1>2, TransportAssumption DEF Control, Labels
<1>6. ProcOK(p, "line", job[p], todo[p], now) /\ (p = "loop" => job[p].fresh)
  BY <1>2, <1>5 DEF ProcOK
<1>7. Control' /\ Alone(p) /\ pc'[p] = "line" /\ job'[p] = job[p] /\ todo'[p] = todo[p]
  BY <1>1, <1>2, <1>5, <1>6, GotoMove
<1>8. now' = now /\ \A k \in Spools, r \in Rec : Working(p, k, r)' <=> Working(p, k, r)
  BY <1>2, <1>7 DEF Working
<1>9. Ages
  <2>1. CASE p = "run"
    BY <1>2, <1>7, <2>1, RunSteps
  <2>2. CASE p = "loop"
    BY <1>2, <1>7, <2>2 DEF Ages, New, Later
  <2>3. QED
    BY <2>1, <2>2 DEF Procs
<1>10. \A k \in Spools, r \in Rec :
         job'[p].kind = k /\ ~job'[p].fresh /\ (r \in todo'[p] \/ Working(p, k, r)') => ~New(k, r)
  BY <1>1, <1>7, <1>8 DEF Known
<1>11. Known'
  BY <1>1, <1>2, <1>7, <1>9, <1>10, KnownKeeps
<1>12. p = "loop" => LoopQuiet
  BY <1>2, <1>7, <1>8 DEF LoopQuiet, LoopMay, Later, Past
<1>13. p = "run" => RunQuiet
  BY <1>2, <1>7, <1>8 DEF RunQuiet, RunMay, Working, Past
<1>14. ASSUME NEW k \in Spools, NEW r \in Rec, NEW i \in 1..Parts(k),
              k = job[p].kind, r = job[p].rec, i = job[p].part
       PROVE  /\ p = "loop" => ~LoopMay(k, r, i)'
              /\ p = "run" => ~RunMay(k, r, i)'
  <2>1. k = "telemetry" /\ Working(p, k, r)' /\ Past(p, k, r, i)' /\ up'[k]
    BY <1>2, <1>7, <1>14 DEF Working, Past
  <2>2. CASE p = "loop"
    <3>1. r = now /\ ~(collected' < r)
      BY <1>2, <1>5, <1>6, <1>14, <2>2 DEF ProcOK
    <3>2. QED
      BY <1>7, <2>1, <2>2, <3>1 DEF LoopMay, Later
  <2>3. CASE p = "run"
    BY <1>5, <1>7, <1>14, <2>1, <2>3 DEF RunMay, ProcOK
  <2>4. QED
    BY <2>2, <2>3 DEF Procs
<1>15. Paid'
  BY <1>1, <1>2, <1>7, <1>8, <1>12, <1>13, <1>14, PostPays DEF limits
<1>16. QED
  BY <1>4, <1>7, <1>11, <1>15 DEF TransportInv

LEMMA LineStep ==
  ASSUME TransportInv, NEW p \in Procs, Line(p)
  PROVE  TransportInv'
<1>1. Control /\ Data /\ Known /\ Paid
  BY DEF TransportInv
<1>2. /\ pc[p] = "line" /\ tail' = <<>>
      /\ lines' = lines \/ (Len(tail) = 1 /\ lines' = lines \cup {Head(tail)})
      /\ UNCHANGED <<collected, spool, up, got, overlaps, losses, runs>>
      /\ \/ Answered(p) /\ UNCHANGED faults
         \/ Fault /\ Failed(p)
  BY DEF Line, Reply
<1>3. tail' \in Seq(Rec) /\ lines' \in SUBSET Rec
  <2>1. tail \in Seq(Rec) /\ lines \in SUBSET Rec
    BY <1>1 DEF Data
  <2>2. Len(tail) = 1 => Head(tail) \in Rec
    BY <2>1
  <2>3. <<>> \in Seq(Rec)
    OBVIOUS
  <2>4. QED
    BY <1>2, <2>1, <2>2, <2>3
<1>4. faults' \in 0..MaxFaults
  BY <1>1, <1>2, FaultRange DEF Data
<1>5. Data'
  BY <1>1, <1>2, <1>3, <1>4 DEF Data
<1>6. CASE Answered(p) /\ UNCHANGED faults
  <2>1. Control' /\ Known' /\ LoopQuiet /\ RunQuiet
    BY <1>1, <1>2, <1>6, AnsweredOutcome
  <2>2. Paid'
    BY <1>1, <1>2, <1>6, <2>1, QuietPays
  <2>3. QED
    BY <1>5, <2>1, <2>2 DEF TransportInv
<1>7. CASE Fault /\ Failed(p)
  <2>1. Control' /\ Known' /\ Alone(p) /\ Fewer /\ (p = "run" => now' = now)
    BY <1>1, <1>2, <1>7, FailedOutcome
  <2>2. faults' = faults + 1
    BY <1>1, <1>7, FaultRange
  <2>3. Paid'
    BY <1>1, <1>2, <2>1, <2>2, ProcessFault
  <2>4. QED
    BY <1>5, <2>1, <2>3 DEF TransportInv
<1>8. QED
  BY <1>2, <1>6, <1>7

LEMMA PostFailsStep ==
  ASSUME TransportInv, NEW p \in Procs, PostFails(p)
  PROVE  TransportInv'
<1>1. Control /\ Data /\ Known /\ Paid
  BY DEF TransportInv
<1>2. /\ pc[p] \in {"post", "line"} /\ Failed(p)
      /\ UNCHANGED <<collected, spool, up, store, losses, runs>>
      /\ \/ ~up[job[p].kind] /\ UNCHANGED faults
         \/ Fault
  BY DEF PostFails
<1>3. /\ Control' /\ Known' /\ Alone(p) /\ FailureDone(p) /\ Fewer
      /\ p = "run" => now' = now
  BY <1>1, <1>2, FailedOutcome
<1>4. faults' \in 0..MaxFaults
  BY <1>1, <1>2, FaultRange DEF Data
<1>5. Data'
  BY <1>1, <1>2, <1>4, SameData
<1>6. CASE ~up[job[p].kind] /\ UNCHANGED faults
  <2>1. (p = "loop" => LoopQuiet) /\ (p = "run" => RunQuiet)
    BY <1>1, <1>2, <1>3, <1>6, DownQuiet
  <2>2. LoopQuiet /\ RunQuiet
    BY <1>2, <1>3, <2>1, OtherQuiet DEF Procs
  <2>3. Paid'
    BY <1>1, <1>2, <1>6, <2>2, QuietPays DEF store
  <2>4. QED
    BY <1>3, <1>5, <2>3 DEF TransportInv
<1>7. CASE Fault
  <2>1. faults' = faults + 1
    BY <1>1, <1>7, FaultRange
  <2>2. Paid'
    BY <1>1, <1>2, <1>3, <2>1, ProcessFault DEF store
  <2>3. QED
    BY <1>3, <1>5, <2>2 DEF TransportInv
<1>8. QED
  BY <1>2, <1>6, <1>7

-----------------------------------------------------------------------------
LEMMA NextTransport == TransportInv /\ [Next]_vars => TransportInv'
<1> SUFFICES ASSUME TransportInv, [Next]_vars PROVE TransportInv'
  OBVIOUS
<1>1. CASE UNCHANGED vars
  <2>1. /\ UNCHANGED <<pc, job, todo, now, collected, spool, up, tail, lines, got>>
        /\ UNCHANGED <<overlaps, losses, runs, faults>>
    BY <1>1 DEF vars, process, store, limits
  <2>2. Control' /\ Known' /\ Same("loop") /\ Same("run")
    BY <2>1, StillControl DEF TransportInv, process
  <2>3. Data'
    BY <2>1 DEF TransportInv, Data
  <2>4. LoopQuiet /\ RunQuiet
    BY <2>1, <2>2, LoopUntouched, RunUntouched DEF Fewer
  <2>5. Paid'
    BY <2>1, <2>4, QuietPays DEF TransportInv
  <2>6. QED
    BY <2>2, <2>3, <2>5 DEF TransportInv
<1>2. ASSUME NEW p \in Procs, Step(p) PROVE TransportInv'
  BY <1>2, CollectStep, TurnStep, SpoolOpenStep, SpoolWriteStep, ListStep, ReadStep, RemoveStep,
     HeartbeatStep, TextStep, LineStep, PostFailsStep DEF Step
<1>3. ASSUME NEW p \in Procs, FlushFails(p) \/ Kill(p) PROVE TransportInv'
  BY <1>3, FlushFailsStep, KillStep
<1>4. CASE SpoolFails \/ StartRun \/ Restart
  BY <1>4, SpoolFailsStep, StartRunStep, RestartStep
<1>5. ASSUME NEW k \in Spools, Outage(k) \/ Recover(k) PROVE TransportInv'
  BY <1>5, OutageStep, RecoverStep
<1>6. QED
  BY <1>1, <1>2, <1>3, <1>4, <1>5 DEF Next

LEMMA TransportInvariant == Spec => []TransportInv
<1>1. Init => TransportInv
  BY InitTransport
<1>2. TransportInv /\ [Next]_vars => TransportInv'
  BY NextTransport
<1>3. QED
  BY <1>1, <1>2, PTL DEF Spec

(* What the processes, the spool, the portal's file and the counts range   *)
(* over.                                                                   *)
THEOREM TransportTypes == Spec => []TypeOK
<1>1. TransportInv => TypeOK
  BY DEF TransportInv, Control, Data, TypeOK, Labels, Jobs
<1>2. QED
  BY <1>1, TransportInvariant, PTL

(* Whatever dies, is cut off or runs next to the loop, and however often a *)
(* post is tried: a sink takes a part of a record once, and once again at  *)
(* most for every fault and every run of the operator.                     *)
THEOREM RepeatsArePaid == Spec => []RepeatsPaid
<1>1. ASSUME TransportInv PROVE RepeatsPaid
  <2> SUFFICES ASSUME NEW k \in Spools, NEW r \in Rec, NEW i \in 1..Parts(k)
               PROVE  got[k][r][i] <= 1 + faults + runs
    BY DEF RepeatsPaid
  <2>1. faults \in Nat /\ runs \in Nat /\ got[k][r][i] \in Nat
    BY <1>1, NumberTypes DEF TransportInv
  <2>2. got[k][r][i] + One(LoopMay(k, r, i)) + One(RunMay(k, r, i)) <= 1 + faults + runs
    BY <1>1 DEF TransportInv, Paid
  <2>3. One(LoopMay(k, r, i)) \in {0, 1} /\ One(RunMay(k, r, i)) \in {0, 1}
    BY DEF One
  <2>4. QED
    BY <2>1, <2>2, <2>3
<1>2. QED
  BY <1>1, TransportInvariant, PTL

-----------------------------------------------------------------------------
(***************************************************************************)
(* Losses.  For aw-server a record is stored when its file goes or its     *)
(* turn ends (Taken), or else a death or a full disk ended the turn.  The  *)
(* portal may answer for a record whose line was spoilt: what its file may *)
(* still cost (Debt) is paid by the outage that left a text without an     *)
(* end, or by the two appends that mixed.                                  *)
(***************************************************************************)

\* What is behind a process that posts a part of a record, or removes its file, was stored.
Taken ==
  \A p \in Procs, i \in 1..Sessions :
    job[p].kind = "worktime" /\ (pc[p] = "remove" \/ (pc[p] = "post" /\ i < job[p].part))
      => got["worktime"][job[p].rec][i] > 0

\* No flush sends a file while it is written.
Wrote ==
  pc["loop"] = "write" /\ job["loop"].kind = "telemetry"
    => ~Working("run", "telemetry", now) /\ spool["telemetry"][now] = "half"

\* The loop has yet to send or to spool record r for the portal.
AtHand(r) == now = r /\ job["loop"].kind = "telemetry"

\* The run has an answer for record r and removes its file.
Doomed(r) == pc["run"] = "remove" /\ job["run"].kind = "telemetry" /\ job["run"].rec = r

Missing ==
  {r \in 1..collected :
     r \notin lines /\ ~AtHand(r) /\ (spool["telemetry"][r] = "whole" => Doomed(r))}

\* The text of a request that is alone at its line.
Written ==
  IF pc["loop"] = "line" THEN <<job["loop"].rec>>
  ELSE IF pc["run"] = "line" THEN <<job["run"].rec>> ELSE <<>>

Debt ==
  IF ~up["telemetry"] THEN 1
  ELSE IF pc["loop"] = "line" /\ pc["run"] = "line" THEN 2 ELSE One(tail # Written)

ServerCharged == Cardinality(Lost("worktime")) <= losses
Purse == losses + 2 * overlaps
PortalCharged == Cardinality(Missing) + Debt <= Purse

LossInv == Taken /\ Wrote /\ ServerCharged /\ PortalCharged

-----------------------------------------------------------------------------
\* Counting.
LEMMA RecordSets ==
  ASSUME NEW S \in SUBSET Rec
  PROVE  IsFiniteSet(S) /\ Cardinality(S) \in Nat
<1>1. IsFiniteSet(Rec)
  <2>1. 1 \in Int /\ Records \in Int
    BY TransportAssumption
  <2>2. QED
    BY <2>1, FS_Interval DEF Rec
<1>2. QED
  BY <1>1, FS_Subset, FS_CardinalityType

LEMMA OneMore ==
  ASSUME NEW S \in SUBSET Rec, NEW T \in SUBSET Rec, NEW x \in Rec, T \subseteq S \cup {x}
  PROVE  Cardinality(T) <= Cardinality(S) + 1
<1>1. IsFiniteSet(S) /\ Cardinality(S) \in Nat /\ Cardinality(T) \in Nat
  BY RecordSets
<1>2. /\ IsFiniteSet(S \cup {x})
      /\ Cardinality(S \cup {x}) = IF x \in S THEN Cardinality(S) ELSE Cardinality(S) + 1
  BY <1>1, FS_AddElement
<1>3. Cardinality(T) <= Cardinality(S \cup {x})
  BY <1>2, FS_Subset
<1>4. QED
  BY <1>1, <1>2, <1>3

LEMMA LossTypes ==
  ASSUME Control, Data
  PROVE  /\ Missing \in SUBSET Rec /\ Lost("worktime") \in SUBSET Rec
         /\ Debt \in 0..2 /\ losses \in Nat /\ Purse \in Nat
<1>1. collected \in 0..Records /\ Records \in Nat
  BY TransportAssumption DEF Control
<1>2. 1..collected \subseteq Rec
  BY <1>1 DEF Rec
<1>3. Debt \in 0..2
  BY DEF Debt, One
<1>4. Purse \in Nat
  BY DEF Data, Purse
<1>5. QED
  BY <1>2, <1>3, <1>4 DEF Data, Missing, Lost

LEMMA LossTypesNext ==
  ASSUME Control', Data'
  PROVE  /\ Missing' \in SUBSET Rec /\ Lost("worktime")' \in SUBSET Rec
         /\ Debt' \in 0..2 /\ losses' \in Nat /\ Purse' \in Nat
<1>1. collected' \in 0..Records /\ Records \in Nat
  BY TransportAssumption DEF Control
<1>2. 1..collected' \subseteq Rec
  BY <1>1 DEF Rec
<1>3. Debt' \in 0..2
  BY DEF Debt, One
<1>4. Purse' \in Nat
  <2>1. PICK x \in Nat, y \in Nat : x = losses' /\ y = overlaps'
    BY DEF Data
  <2>2. x + 2 * y \in Nat
    OBVIOUS
  <2>3. QED
    BY <2>1, <2>2 DEF Purse
<1>5. QED
  BY <1>2, <1>3, <1>4 DEF Data, Missing, Lost

\* Nothing more is lost.
Free == Missing' \subseteq Missing /\ Lost("worktime")' \subseteq Lost("worktime")

LEMMA FreeCharged ==
  ASSUME Control, Data, Control', Data', ServerCharged, PortalCharged, Free,
         losses' = losses \/ losses' = losses + 1,
         Debt' + Purse <= Debt + Purse'
  PROVE  ServerCharged' /\ PortalCharged'
<1> DEFINE m == Cardinality(Missing)
           v == Cardinality(Lost("worktime"))
<1>1. /\ Debt \in 0..2 /\ Debt' \in 0..2
      /\ losses \in Nat /\ losses' \in Nat /\ Purse \in Nat /\ Purse' \in Nat
  BY LossTypes, LossTypesNext
<1>2. /\ Missing \in SUBSET Rec /\ Lost("worktime") \in SUBSET Rec
      /\ Missing' \in SUBSET Rec /\ Lost("worktime")' \in SUBSET Rec
  BY LossTypes, LossTypesNext
<1>3. IsFiniteSet(Missing) /\ IsFiniteSet(Lost("worktime")) /\ m \in Nat /\ v \in Nat
  BY <1>2, RecordSets
<1>4. PICK n \in Nat, w \in Nat :
        n = Cardinality(Missing') /\ w = Cardinality(Lost("worktime")')
  BY <1>2, RecordSets
<1>5. n <= m /\ w <= v
  BY <1>3, <1>4, FS_Subset DEF Free
<1>6. m + Debt <= Purse /\ v <= losses
  BY DEF PortalCharged, ServerCharged
<1> HIDE DEF m, v
<1>7. PICK d \in Nat, q \in Nat, l \in Nat : d = Debt' /\ q = Purse' /\ l = losses'
  BY <1>1
<1>8. n + d <= q /\ w <= l
  <2>1. d + Purse <= Debt + q /\ (l = losses \/ l = losses + 1)
    BY <1>7
  <2>2. QED
    BY <1>1, <1>3, <1>5, <1>6, <2>1
<1>9. QED
  BY <1>4, <1>7, <1>8 DEF PortalCharged, ServerCharged

\* One record more is lost, to one sink or to both.
LEMMA LossCharged ==
  ASSUME Control, Data, Control', Data', ServerCharged, PortalCharged, NEW x \in Rec,
         Missing' \subseteq Missing \cup {x},
         \/ /\ Lost("worktime")' \subseteq Lost("worktime") \cup {x}
            /\ losses' = losses + 1 /\ Purse' = Purse + 1 /\ Debt' = Debt
         \/ /\ Lost("worktime")' \subseteq Lost("worktime")
            /\ losses' = losses /\ Purse' = Purse /\ Debt' + 1 <= Debt
  PROVE  ServerCharged' /\ PortalCharged'
<1> DEFINE m == Cardinality(Missing)
           v == Cardinality(Lost("worktime"))
<1>1. /\ Debt \in 0..2 /\ Debt' \in 0..2
      /\ losses \in Nat /\ losses' \in Nat /\ Purse \in Nat /\ Purse' \in Nat
  BY LossTypes, LossTypesNext
<1>2. /\ Missing \in SUBSET Rec /\ Lost("worktime") \in SUBSET Rec
      /\ Missing' \in SUBSET Rec /\ Lost("worktime")' \in SUBSET Rec
  BY LossTypes, LossTypesNext
<1>3. m \in Nat /\ v \in Nat /\ IsFiniteSet(Lost("worktime"))
  BY <1>2, RecordSets
<1>4. PICK n \in Nat, w \in Nat :
        n = Cardinality(Missing') /\ w = Cardinality(Lost("worktime")')
  BY <1>2, RecordSets
<1>5. n <= m + 1
  BY <1>2, <1>4, OneMore
<1>6. /\ Lost("worktime")' \subseteq Lost("worktime") => w <= v
      /\ Lost("worktime")' \subseteq Lost("worktime") \cup {x} => w <= v + 1
  BY <1>2, <1>3, <1>4, FS_Subset, OneMore
<1>7. m + Debt <= Purse /\ v <= losses
  BY DEF PortalCharged, ServerCharged
<1> HIDE DEF m, v
<1>8. PICK d \in Nat, q \in Nat, l \in Nat : d = Debt' /\ q = Purse' /\ l = losses'
  BY <1>1
<1>9. n + d <= q /\ w <= l
  <2>1. \/ w <= v + 1 /\ l = losses + 1 /\ q = Purse + 1 /\ d = Debt
        \/ w <= v /\ l = losses /\ q = Purse /\ d + 1 <= Debt
    BY <1>6, <1>8
  <2>2. QED
    BY <1>1, <1>3, <1>5, <1>7, <2>1
<1>10. QED
  BY <1>4, <1>8, <1>9 DEF PortalCharged, ServerCharged

LEMMA PurseSums ==
  ASSUME Data
  PROVE  /\ losses' = losses /\ overlaps' = overlaps => Purse' = Purse
         /\ losses' = losses + 1 /\ overlaps' = overlaps => Purse' = Purse + 1
         /\ losses' = losses /\ overlaps' = overlaps + 1 => Purse' = Purse + 2
<1>1. losses \in Nat /\ overlaps \in Nat
  BY DEF Data
<1>2. /\ (losses + 1) + 2 * overlaps = losses + 2 * overlaps + 1
      /\ losses + 2 * (overlaps + 1) = losses + 2 * overlaps + 2
  BY <1>1
<1>3. QED
  BY <1>2 DEF Purse

\* No request of a process is at its line: it is no matter for the debt.
LEMMA DebtSame ==
  ASSUME NEW p \in Procs, Alone(p), pc[p] # "line", pc'[p] # "line", UNCHANGED <<tail, up>>
  PROVE  Debt' = Debt
<1>1. CASE p = "loop"
  <2>1. Same("run")
    BY <1>1 DEF Alone, Procs
  <2>2. Written' = Written
    BY <1>1, <2>1 DEF Written, Same
  <2>3. QED
    BY <1>1, <2>2 DEF Debt
<1>2. CASE p = "run"
  <2>1. Same("loop")
    BY <1>2 DEF Alone, Procs
  <2>2. Written' = Written
    BY <1>2, <2>1 DEF Written, Same
  <2>3. QED
    BY <1>2, <2>2 DEF Debt
<1>3. QED
  BY <1>1, <1>2 DEF Procs

\* Where the loop is in a turn, and where it is not.
LEMMA LoopTurn ==
  ASSUME Control
  PROVE  /\ pc["loop"] \in {"idle", "down"} => now = 0
         /\ pc["loop"] \notin {"idle", "down"} /\ ~job["loop"].fresh
              => job["loop"].kind = "worktime"
         /\ job["loop"].fresh => job["loop"].rec = now /\ now \in Rec
         /\ pc["loop"] \in {"spool", "write"} => job["loop"].fresh
         /\ ~job["run"].fresh /\ pc["run"] \notin {"spool", "write", "down"}
<1>1. /\ ProcOK("loop", pc["loop"], job["loop"], todo["loop"], now)
      /\ ProcOK("run", pc["run"], job["run"], todo["run"], now)
  BY DEF Control, Procs
<1>2. now \in 0..Records /\ Records \in Nat
  BY TransportAssumption DEF Control
<1>3. now # 0 => now \in Rec
  BY <1>2 DEF Rec
<1>4. QED
  BY <1>1, <1>3 DEF ProcOK

LEMMA JobAt ==
  ASSUME Control, NEW p \in Procs, pc[p] \in {"post", "line", "remove"}
  PROVE  /\ job[p].rec \in Rec /\ job[p] \in Jobs /\ job[p].kind \in Spools
         /\ job[p].part <= Parts(job[p].kind)
         /\ pc[p] = "line" => job[p].kind = "telemetry"
         /\ pc[p] = "remove" => ~job[p].fresh
         /\ p = "run" => ~job[p].fresh
BY DEF Control, ProcOK, Jobs

-----------------------------------------------------------------------------
\* A flush that ends, a post that failed: nothing is lost by them.
Calm(p) ==
  \/ ~job[p].fresh /\ pc[p] \notin {"idle", "down"} /\ (FlushEnded(p, TRUE) \/ FlushEnded(p, FALSE))
  \/ pc[p] \in {"post", "line"} /\ FailureDone(p)

\* What was stored stays stored.
Grows == \A r \in Rec, i \in 1..Sessions :
           got["worktime"][r][i] > 0 => got'["worktime"][r][i] > 0

\* Where a calm process may come to.
LEMMA CalmPlaces ==
  ASSUME Control, NEW p \in Procs, Calm(p)
  PROVE  \/ pc'[p] = "idle" /\ (p = "loop" => now' = 0 /\ now = 0)
         \/ pc'[p] = "list" /\ p = "run"
         \/ /\ pc'[p] = "post" /\ p = "loop" /\ now' = now /\ job'[p].part = 1
            /\ job'[p].kind = "worktime" /\ ~job[p].fresh /\ pc[p] \notin {"idle", "down"}
         \/ /\ pc'[p] \in {"post", "spool"} /\ (pc'[p] = "spool" => p = "loop") /\ now' = now
            /\ pc[p] \in {"post", "line"} /\ job'[p].part = job[p].part
            /\ job'[p].kind = job[p].kind /\ job'[p].rec = job[p].rec
<1>1. job[p] \in Jobs /\ (p = "loop" \/ p = "run")
  BY DEF Control, Procs
<1>2. CASE ToIdle(p) /\ (p = "loop" => now = 0)
  BY <1>2 DEF ToIdle
<1>3. CASE p = "run" /\ ToList(p)
  BY <1>3 DEF ToList
<1>4. CASE p = "loop" /\ ToPublish /\ ~job[p].fresh /\ pc[p] \notin {"idle", "down"}
  BY <1>4 DEF ToPublish, Job
<1>5. CASE pc[p] \in {"post", "line"} /\ (TryAgain(p) \/ ToSpool(p))
  BY <1>1, <1>5 DEF TryAgain, ToSpool, Jobs
<1>6. QED
  BY <1>2, <1>3, <1>4, <1>5 DEF Calm, FlushEnded, FailureDone

LEMMA CalmKeeps ==
  ASSUME Control, Taken, Wrote, NEW p \in Procs, Alone(p), Calm(p), Grows,
         UNCHANGED <<collected, spool>>, lines \subseteq lines', p = "run" => now' = now
  PROVE  Free /\ Taken' /\ Wrote' /\ pc'[p] # "line"
<1> DEFINE To == \/ pc'[p] = "idle" /\ (p = "loop" => now' = 0 /\ now = 0)
                 \/ pc'[p] = "list" /\ p = "run"
                 \/ /\ pc'[p] = "post" /\ p = "loop" /\ now' = now /\ job'[p].part = 1
                    /\ job'[p].kind = "worktime" /\ ~job[p].fresh /\ pc[p] \notin {"idle", "down"}
                 \/ /\ pc'[p] \in {"post", "spool"} /\ (pc'[p] = "spool" => p = "loop")
                    /\ now' = now
                    /\ pc[p] \in {"post", "line"} /\ job'[p].part = job[p].part
                    /\ job'[p].kind = job[p].kind /\ job'[p].rec = job[p].rec
<1>1. To
  BY CalmPlaces
<1>2. /\ pc["loop"] \notin {"idle", "down"} /\ ~job["loop"].fresh => job["loop"].kind = "worktime"
      /\ pc["loop"] \in {"idle", "down"} => now = 0
  BY LoopTurn
<1>3. \A r \in Rec : AtHand(r) => AtHand(r)'
  <2>1. CASE p = "run"
    <3>1. Same("loop")
      BY <2>1 DEF Alone, Procs
    <3>2. QED
      BY <2>1, <3>1 DEF AtHand, Same
  <2>2. CASE p = "loop"
    BY <1>1, <1>2, <2>2 DEF AtHand, Rec
  <2>3. QED
    BY <2>1, <2>2 DEF Procs
<1>4. \A r \in Rec : Doomed(r)' => Doomed(r)
  <2>1. CASE p = "run"
    BY <1>1, <2>1 DEF Doomed
  <2>2. CASE p = "loop"
    <3>1. Same("run")
      BY <2>2 DEF Alone, Procs
    <3>2. QED
      BY <3>1 DEF Doomed, Same
  <2>3. QED
    BY <2>1, <2>2 DEF Procs
<1>5. now' = now \/ (now = 0 /\ now' = 0)
  BY <1>1 DEF Procs
<1>6. 1..collected \subseteq Rec
  BY TransportAssumption DEF Control, Rec
<1>7. Missing' \subseteq Missing
  BY <1>3, <1>4, <1>6 DEF Missing
<1>8. Lost("worktime")' \subseteq Lost("worktime")
  <2>1. \A r \in 1..collected : Stored("worktime", r) => Stored("worktime", r)'
    BY <1>6 DEF Grows, Stored
  <2>2. QED
    BY <1>5, <2>1 DEF Lost
<1>9. Taken'
  <2> SUFFICES ASSUME NEW q \in Procs, NEW i \in 1..Sessions, job'[q].kind = "worktime",
                      pc'[q] = "remove" \/ (pc'[q] = "post" /\ i < job'[q].part)
               PROVE  got'["worktime"][job'[q].rec][i] > 0
    BY DEF Taken
  <2>1. /\ job[q].kind = "worktime" /\ job'[q].rec = job[q].rec
        /\ pc[q] = "remove" \/ (pc[q] = "post" /\ i < job[q].part)
    <3>1. CASE q # p
      <4>1. Same(q)
        BY <3>1 DEF Alone
      <4>2. QED
        BY <4>1 DEF Same
    <3>2. CASE q = p
      <4>1. ~(i < 1)
        OBVIOUS
      <4>2. pc'[p] = "post" /\ pc[p] \in {"post", "line"} /\ job'[p].part = job[p].part
            /\ job'[p].kind = job[p].kind /\ job'[p].rec = job[p].rec
        BY <1>1, <3>2, <4>1
      <4>3. pc[p] = "line" => job[p].kind = "telemetry"
        BY JobAt
      <4>4. QED
        BY <3>2, <4>2, <4>3
    <3>3. QED
      BY <3>1, <3>2
  <2>2. job[q].rec \in Rec /\ got["worktime"][job[q].rec][i] > 0
    BY <2>1, JobAt DEF Taken
  <2>3. QED
    BY <2>1, <2>2 DEF Grows
<1>10. Wrote'
  <2>1. CASE p = "loop"
    BY <1>1, <2>1 DEF Wrote
  <2>2. CASE p = "run"
    <3>1. Same("loop") /\ now' = now
      BY <2>2 DEF Alone, Procs
    <3>2. Working("run", "telemetry", now)' => Working("run", "telemetry", now)
      BY <1>1, <2>2, <3>1 DEF Working
    <3>3. QED
      BY <3>1, <3>2 DEF Wrote, Same
  <2>3. QED
    BY <2>1, <2>2 DEF Procs
<1>11. pc'[p] # "line"
  BY <1>1
<1>12. QED
  BY <1>7, <1>8, <1>9, <1>10, <1>11 DEF Free

\* A step that starts or goes on with something, and takes nothing up that is at hand.
LEMMA GotoPlaces ==
  ASSUME Control, NEW p \in Procs, NEW l, NEW j, Goto(p, l, j),
         todo' = todo \/ \E t \in SUBSET Rec : todo' = [todo EXCEPT ![p] = t]
  PROVE  pc'[p] = l /\ job'[p] = j /\ Alone(p)
<1>1. /\ DOMAIN pc = Procs /\ DOMAIN job = Procs /\ DOMAIN todo = Procs
      /\ pc' = [pc EXCEPT ![p] = l] /\ job' = [job EXCEPT ![p] = j]
  BY DEF Control, Goto
<1>2. \A q \in Procs \ {p} : todo'[q] = todo[q]
  BY <1>1
<1>3. QED
  BY <1>1, <1>2 DEF Alone, Same

LEMMA DullKeeps ==
  ASSUME Control, Taken, Wrote, NEW p \in Procs, Alone(p),
         UNCHANGED <<collected, spool, got, lines, now>>,
         pc'[p] \in {"idle", "list", "read", "post"}, pc'[p] = "post" => job'[p].part = 1,
         p = "loop" /\ job[p].kind = "telemetry" => now = 0,
         p = "run" /\ pc'[p] = "post" /\ job'[p].kind = "telemetry"
           => spool["telemetry"][job'[p].rec] = "whole"
  PROVE  Free /\ Taken' /\ Wrote' /\ pc'[p] # "line"
<1>0. 1..collected \subseteq Rec
  BY TransportAssumption DEF Control, Rec
<1>1. \A r \in Rec : (AtHand(r) => AtHand(r)') /\ (Doomed(r)' => Doomed(r))
  <2>1. CASE p = "run"
    <3>1. Same("loop")
      BY <2>1 DEF Alone, Procs
    <3>2. QED
      BY <2>1, <3>1 DEF AtHand, Doomed, Same
  <2>2. CASE p = "loop"
    <3>1. Same("run")
      BY <2>2 DEF Alone, Procs
    <3>2. QED
      BY <2>2, <3>1 DEF AtHand, Doomed, Same, Rec
  <2>3. QED
    BY <2>1, <2>2 DEF Procs
<1>2. Missing' \subseteq Missing
  BY <1>0, <1>1 DEF Missing
<1>3. Lost("worktime")' \subseteq Lost("worktime")
  BY DEF Lost, Stored
<1>4. Taken'
  <2> SUFFICES ASSUME NEW q \in Procs, NEW i \in 1..Sessions, job'[q].kind = "worktime",
                      pc'[q] = "remove" \/ (pc'[q] = "post" /\ i < job'[q].part)
               PROVE  got["worktime"][job'[q].rec][i] > 0
    BY DEF Taken
  <2>1. ~(i < 1)
    OBVIOUS
  <2>2. q # p
    BY <2>1
  <2>3. Same(q)
    BY <2>2 DEF Alone
  <2>4. QED
    BY <2>3 DEF Same, Taken
<1>5. Wrote'
  <2>1. CASE p = "loop"
    BY <2>1 DEF Wrote
  <2>2. CASE p = "run"
    <3>1. Same("loop")
      BY <2>2 DEF Alone, Procs
    <3>2. ASSUME pc["loop"] = "write", job["loop"].kind = "telemetry",
                 Working("run", "telemetry", now)'
          PROVE  FALSE
      <4>1. spool["telemetry"][now] = "whole"
        BY <2>2, <3>2 DEF Working
      <4>2. QED
        BY <3>2, <4>1 DEF Wrote
    <3>3. QED
      BY <3>1, <3>2 DEF Wrote, Same
  <2>3. QED
    BY <2>1, <2>2 DEF Procs
<1>6. QED
  BY <1>2, <1>3, <1>4, <1>5 DEF Free

LEMMA QuietLoses ==
  ASSUME TransportInv, TransportInv', LossInv, Free, Taken', Wrote', Debt' = Debt,
         UNCHANGED <<losses, overlaps>>
  PROVE  LossInv'
<1>1. Control /\ Data /\ Control' /\ Data' /\ ServerCharged /\ PortalCharged
  BY DEF TransportInv, LossInv
<1>2. Purse' = Purse /\ Debt \in 0..2 /\ Purse \in Nat
  BY <1>1, PurseSums, LossTypes
<1>3. Debt' + Purse <= Debt + Purse'
  BY <1>2
<1>4. QED
  BY <1>1, <1>3, FreeCharged DEF LossInv

\* A process that is stopped may lose the record of its turn.
LEMMA StopKeeps ==
  ASSUME Control, Taken, Wrote, NEW p \in Procs, Alone(p), pc'[p] \in {"idle", "down"},
         now' = IF p = "loop" THEN 0 ELSE now, UNCHANGED <<collected, spool, got, lines>>
  PROVE  /\ Taken' /\ Wrote' /\ pc'[p] # "line"
         /\ Missing' \subseteq Missing \cup {now}
         /\ Lost("worktime")' \subseteq Lost("worktime") \cup {now}
         /\ p = "run" \/ now = 0 => Free
<1>1. 1..collected \subseteq Rec
  BY TransportAssumption DEF Control, Rec
<1>2. \A r \in Rec : Doomed(r)' => Doomed(r)
  BY DEF Doomed, Alone, Same, Procs
<1>3. \A r \in Rec : r # 0 /\ (r # now \/ p = "run" => (AtHand(r) => AtHand(r)'))
  BY DEF AtHand, Alone, Same, Procs, Rec
<1>4. /\ Missing' \subseteq Missing \cup {now}
      /\ p = "run" \/ now = 0 => Missing' \subseteq Missing
  BY <1>1, <1>2, <1>3 DEF Missing
<1>5. /\ Lost("worktime")' \subseteq Lost("worktime") \cup {now}
      /\ p = "run" \/ now = 0 => Lost("worktime")' \subseteq Lost("worktime")
  BY <1>1, <1>3 DEF Lost, Stored, Procs
<1>6. Taken'
  <2> SUFFICES ASSUME NEW q \in Procs, NEW i \in 1..Sessions, job'[q].kind = "worktime",
                      pc'[q] = "remove" \/ (pc'[q] = "post" /\ i < job'[q].part)
               PROVE  got["worktime"][job'[q].rec][i] > 0
    BY DEF Taken
  <2>1. Same(q)
    BY DEF Alone
  <2>2. QED
    BY <2>1 DEF Same, Taken
<1>7. Wrote'
  BY DEF Wrote, Alone, Same, Procs, Working
<1>8. QED
  BY <1>4, <1>5, <1>6, <1>7 DEF Free

-----------------------------------------------------------------------------
\* The losses of every step.
LEMMA CalmLoses ==
  ASSUME TransportInv, TransportInv', LossInv, NEW p \in Procs, Alone(p), Calm(p),
         pc[p] # "line", p = "run" => now' = now,
         UNCHANGED <<collected, spool, got, lines, tail, up, losses, overlaps>>
  PROVE  LossInv'
<1>1. Control /\ Data /\ Taken /\ Wrote /\ Grows
  BY DEF TransportInv, LossInv, Grows
<1>2. Free /\ Taken' /\ Wrote' /\ pc'[p] # "line"
  BY <1>1, CalmKeeps
<1>3. Debt' = Debt
  BY <1>2, DebtSame
<1>4. QED
  BY <1>2, <1>3, QuietLoses

LEMMA DullLoses ==
  ASSUME TransportInv, TransportInv', LossInv, NEW p \in Procs, Alone(p), pc[p] # "line",
         UNCHANGED <<collected, spool, got, lines, now, tail, up, losses, overlaps>>,
         pc'[p] \in {"idle", "list", "read", "post"}, pc'[p] = "post" => job'[p].part = 1,
         p = "loop" /\ job[p].kind = "telemetry" => now = 0,
         p = "run" /\ pc'[p] = "post" /\ job'[p].kind = "telemetry"
           => spool["telemetry"][job'[p].rec] = "whole"
  PROVE  LossInv'
<1>1. Control /\ Data /\ Taken /\ Wrote
  BY DEF TransportInv, LossInv
<1>2. Free /\ Taken' /\ Wrote' /\ pc'[p] # "line"
  BY <1>1, DullKeeps
<1>3. Debt' = Debt
  BY <1>2, DebtSame
<1>4. QED
  BY <1>2, <1>3, QuietLoses

LEMMA FlushFailsLoses ==
  ASSUME TransportInv, TransportInv', LossInv, NEW p \in Procs, FlushFails(p)
  PROVE  LossInv'
<1>1. /\ FlushEnds(p, FALSE) /\ pc[p] \in {"list", "read", "remove"}
      /\ UNCHANGED <<collected, spool, up, store, losses, runs>>
  BY DEF FlushFails
<1>2. Control /\ ~job[p].fresh
  BY <1>1, Flushing DEF TransportInv
<1>3. Alone(p) /\ FlushEnded(p, FALSE)
  BY <1>1, <1>2, FlushEndsMove
<1>4. Calm(p) /\ (p = "run" => now' = now)
  BY <1>1, <1>2, <1>3 DEF Calm, FlushEnded, ToList, ToIdle
<1>5. QED
  BY <1>1, <1>3, <1>4, CalmLoses DEF store

LEMMA ReadLoses ==
  ASSUME TransportInv, TransportInv', LossInv, NEW p \in Procs, Read(p)
  PROVE  LossInv'
<1>1. pc[p] = "read" /\ UNCHANGED <<collected, spool, up, store, losses, limits>>
  BY DEF Read
<1>2. Control /\ ~job[p].fresh /\ job[p].kind \in Spools /\ todo[p] \in SUBSET Rec
  BY <1>1, Flushing DEF TransportInv
<1>3. ASSUME NEW ok \in BOOLEAN, FlushEnds(p, ok), ok => todo[p] = {} PROVE LossInv'
  <2>1. Alone(p) /\ FlushEnded(p, ok)
    BY <1>1, <1>2, <1>3, FlushEndsMove
  <2>2. Calm(p) /\ (p = "run" => now' = now)
    BY <1>1, <1>2, <2>1 DEF Calm, FlushEnded, ToList, ToIdle
  <2>3. QED
    BY <1>1, <2>1, <2>2, CalmLoses DEF store
<1>4. ASSUME NEW r \in First(todo[p]), spool[job[p].kind][r] = "whole",
             Goto(p, "post", Job(job[p].kind, FALSE, r)),
             todo' = [todo EXCEPT ![p] = @ \ {r}], now' = now
      PROVE  LossInv'
  <2> DEFINE t == todo[p] \ {r}
  <2>1. todo' = [todo EXCEPT ![p] = t] /\ t \in SUBSET Rec
    BY <1>2, <1>4 DEF Control
  <2>2. pc'[p] = "post" /\ job'[p] = Job(job[p].kind, FALSE, r) /\ Alone(p)
    BY <1>2, <1>4, <2>1, GotoPlaces
  <2>3. job'[p].part = 1 /\ job'[p].kind = job[p].kind /\ job'[p].rec = r
    BY <2>2 DEF Job
  <2>4. p = "loop" => job[p].kind = "worktime"
    BY <1>1, <1>2, LoopTurn
  <2>5. QED
    BY <1>1, <1>4, <2>2, <2>3, <2>4, DullLoses DEF store
<1>5. CASE todo[p] = {} /\ FlushEnds(p, TRUE)
  BY <1>3, <1>5
<1>6. ASSUME NEW r \in First(todo[p]), spool[job[p].kind][r] # "whole", FlushEnds(p, FALSE)
      PROVE  LossInv'
  BY <1>3, <1>6
<1>7. QED
  BY <1>4, <1>5, <1>6 DEF Read

LEMMA ListLoses ==
  ASSUME TransportInv, TransportInv', LossInv, NEW p \in Procs,
         List(p) \/ (p = "loop" /\ Turn) \/ (p = "run" /\ StartRun)
  PROVE  LossInv'
<1>1. Control
  BY DEF TransportInv
<1>2. CASE List(p)
  <2> DEFINE t == {r \in Rec : spool[job[p].kind][r] # "none"}
  <2>1. /\ pc[p] = "list" /\ Goto(p, "read", job[p]) /\ todo' = [todo EXCEPT ![p] = t]
        /\ UNCHANGED <<now, collected, spool, up, store, losses, limits>>
    BY <1>2 DEF List
  <2>2. t \in SUBSET Rec
    OBVIOUS
  <2>3. pc'[p] = "read" /\ Alone(p)
    BY <1>1, <2>1, <2>2, GotoPlaces
  <2>4. p = "loop" => job[p].kind = "worktime"
    BY <1>1, <2>1, LoopTurn, Flushing
  <2>5. QED
    BY <2>1, <2>3, <2>4, DullLoses DEF store
<1>3. CASE p = "loop" /\ Turn
  <2>1. /\ pc["loop"] = "idle" /\ Goto("loop", "list", Job("worktime", FALSE, 0))
        /\ UNCHANGED <<todo, now, collected, spool, up, store, losses, limits>>
    BY <1>3 DEF Turn, Listing
  <2>2. pc'[p] = "list" /\ Alone(p) /\ now = 0
    BY <1>1, <1>3, <2>1, GotoPlaces, LoopTurn
  <2>3. QED
    BY <1>3, <2>1, <2>2, DullLoses DEF store
<1>4. CASE p = "run" /\ StartRun
  <2>1. /\ pc["run"] = "idle" /\ Goto("run", "list", Nothing)
        /\ UNCHANGED <<todo, now, collected, spool, up, store, losses, faults>>
    BY <1>4 DEF StartRun
  <2>2. pc'[p] = "list" /\ Alone(p)
    BY <1>1, <1>4, <2>1, GotoPlaces
  <2>3. QED
    BY <1>4, <2>1, <2>2, DullLoses DEF store
<1>5. QED
  BY <1>2, <1>3, <1>4

LEMMA StopLoses ==
  ASSUME TransportInv, TransportInv', LossInv, NEW p \in Procs,
         Kill(p) \/ (p = "loop" /\ Restart)
  PROVE  LossInv'
<1>1. Control /\ Data /\ Control' /\ Data' /\ Taken /\ Wrote /\ ServerCharged /\ PortalCharged
  BY DEF TransportInv, LossInv
<1>2. /\ pc[p] # "line" /\ UNCHANGED <<collected, spool, up, store>>
      /\ \E l \in {"idle", "down"} : Stop(p, l) /\ (l = "down" => p = "loop")
      /\ \/ losses' = losses /\ (p = "run" \/ pc[p] = "down")
         \/ losses' = losses + 1
  BY DEF Kill, Restart, Procs
<1>3. /\ Alone(p) /\ pc'[p] \in {"idle", "down"} /\ now' = IF p = "loop" THEN 0 ELSE now
  BY <1>1, <1>2, StopMove
<1>4. /\ Taken' /\ Wrote' /\ pc'[p] # "line"
      /\ Missing' \subseteq Missing \cup {now}
      /\ Lost("worktime")' \subseteq Lost("worktime") \cup {now}
      /\ p = "run" \/ now = 0 => Free
  BY <1>1, <1>2, <1>3, StopKeeps DEF store
<1>5. Debt' = Debt /\ Debt \in 0..2 /\ Purse \in Nat
  BY <1>1, <1>2, <1>3, <1>4, DebtSame, LossTypes DEF store
<1>6. CASE losses' = losses /\ (p = "run" \/ pc[p] = "down")
  <2>1. Free
    BY <1>1, <1>4, <1>6, LoopTurn DEF Procs
  <2>2. QED
    BY <1>2, <1>4, <1>5, <1>6, <2>1, QuietLoses DEF store
<1>7. CASE losses' = losses + 1
  <2>1. Purse' = Purse + 1
    BY <1>1, <1>2, <1>7, PurseSums DEF store
  <2>2. CASE now = 0
    <3>1. Debt' + Purse <= Debt + Purse'
      BY <1>5, <2>1
    <3>2. QED
      BY <1>1, <1>4, <1>7, <2>2, <3>1, FreeCharged DEF LossInv
  <2>3. CASE now # 0
    <3>1. now \in Rec
      BY <1>1, <2>3, TransportAssumption DEF Control, Rec
    <3>2. QED
      BY <1>1, <1>4, <1>5, <1>7, <2>1, <3>1, LossCharged DEF LossInv
  <2>4. QED
    BY <2>2, <2>3
<1>8. QED
  BY <1>2, <1>6, <1>7

LEMMA StillKeeps ==
  ASSUME Taken, Wrote, UNCHANGED <<pc, job, todo, now, collected, spool, got, lines>>
  PROVE  Free /\ Taken' /\ Wrote'
<1>1. Free
  BY DEF Free, Missing, AtHand, Doomed, Lost, Stored
<1>2. Taken' /\ Wrote'
  BY DEF Taken, Wrote, Working
<1>3. QED
  BY <1>1, <1>2

LEMMA OutageLoses ==
  ASSUME TransportInv, TransportInv', LossInv, NEW k \in Spools, Outage(k)
  PROVE  LossInv'
<1>1. Control /\ Data /\ Control' /\ Data' /\ Taken /\ Wrote /\ ServerCharged /\ PortalCharged
  BY DEF TransportInv, LossInv
<1>2. /\ UNCHANGED <<pc, job, todo, now, collected, spool, got, lines, tail, overlaps>>
      /\ up' = [up EXCEPT ![k] = FALSE]
      /\ losses' = IF k = "telemetry" THEN losses + 1 ELSE losses
  BY DEF Outage, process, store
<1>3. Free /\ Taken' /\ Wrote' /\ Debt \in 0..2 /\ Purse \in Nat
  BY <1>1, <1>2, StillKeeps, LossTypes
<1>4. CASE k = "telemetry"
  <2>1. up'["telemetry"] = FALSE
    BY <1>1, <1>2, <1>4 DEF Data, Spools
  <2>2. Debt' = 1
    BY <2>1 DEF Debt
  <2>3. losses' = losses + 1 /\ Purse' = Purse + 1
    BY <1>1, <1>2, <1>4, PurseSums
  <2>4. Debt' + Purse <= Debt + Purse'
    BY <1>3, <2>2, <2>3
  <2>5. QED
    BY <1>1, <1>3, <2>3, <2>4, FreeCharged DEF LossInv
<1>5. CASE k # "telemetry"
  <2>1. up'["telemetry"] = up["telemetry"]
    BY <1>1, <1>2, <1>5 DEF Data, Spools
  <2>2. Debt' = Debt
    BY <1>2, <2>1 DEF Debt, Written
  <2>3. QED
    BY <1>2, <1>3, <1>5, <2>2, QuietLoses
<1>6. QED
  BY <1>4, <1>5

LEMMA RecoverLoses ==
  ASSUME TransportInv, TransportInv', LossInv, NEW k \in Spools, Recover(k)
  PROVE  LossInv'
<1>1. Control /\ Data /\ Control' /\ Data' /\ Taken /\ Wrote /\ ServerCharged /\ PortalCharged
  BY DEF TransportInv, LossInv
<1>2. /\ UNCHANGED <<pc, job, todo, now, collected, spool, got, lines, tail, overlaps, losses>>
      /\ ~up[k] /\ up' = [up EXCEPT ![k] = TRUE] /\ \A p \in Procs : pc[p] # "line"
  BY DEF Recover, process, store
<1>3. Free /\ Taken' /\ Wrote' /\ Debt \in 0..2 /\ Purse \in Nat /\ Purse' = Purse
  BY <1>1, <1>2, StillKeeps, LossTypes, PurseSums
<1>4. Debt' = Debt \/ (Debt = 1 /\ (Debt' = 0 \/ Debt' = 1))
  <2>1. CASE k = "telemetry"
    <3>1. Debt = 1
      BY <1>2, <2>1 DEF Debt
    <3>2. pc'["loop"] # "line"
      BY <1>2 DEF Procs
    <3>3. Debt' = 0 \/ Debt' = 1
      BY <3>2 DEF Debt, One
    <3>4. QED
      BY <3>1, <3>3
  <2>2. CASE k # "telemetry"
    <3>1. up'["telemetry"] = up["telemetry"]
      BY <1>1, <1>2, <2>2 DEF Data, Spools
    <3>2. QED
      BY <1>2, <3>1 DEF Debt, Written
  <2>3. QED
    BY <2>1, <2>2
<1>5. Debt' + Purse <= Debt + Purse'
  BY <1>3, <1>4
<1>6. QED
  BY <1>1, <1>2, <1>3, <1>5, FreeCharged DEF LossInv

LEMMA CollectLoses ==
  ASSUME TransportInv, TransportInv', LossInv, Collect
  PROVE  LossInv'
<1>1. Control /\ Data /\ Control' /\ Taken /\ Wrote /\ "loop" \in Procs
  BY DEF TransportInv, LossInv, Procs
<1> DEFINE n == collected + 1
           j == Job("telemetry", TRUE, n)
<1>2. /\ pc["loop"] = "idle" /\ collected' = n /\ now' = n /\ n \in Rec
      /\ Goto("loop", "post", j)
      /\ UNCHANGED <<todo, spool, got, lines, tail, up, losses, overlaps>>
  BY <1>1, TransportAssumption DEF Collect, Goto, store, Control, Rec
<1>3. pc'["loop"] = "post" /\ job'["loop"] = j /\ Alone("loop")
  BY <1>1, <1>2, GotoPlaces
<1>4. j.kind = "telemetry" /\ j.part = 1
  BY DEF Job
<1>5. now = 0 /\ collected \in Nat /\ Same("run")
  BY <1>1, <1>2, <1>3, LoopTurn DEF Control, Alone, Procs
<1>6. \A r \in 1..collected' : r \in Rec /\ r # 0 /\ (r \in 1..collected \/ r = n)
  BY <1>1, <1>2, <1>5, TransportAssumption DEF Control, Rec
<1> HIDE DEF n, j
<1>7. Missing' \subseteq Missing
  BY <1>2, <1>3, <1>4, <1>5, <1>6 DEF Missing, AtHand, Doomed, Same
<1>8. Lost("worktime")' \subseteq Lost("worktime")
  <2>1. \A r \in Rec : Stored("worktime", r)' <=> Stored("worktime", r)
    BY <1>2 DEF Stored
  <2>2. QED
    BY <1>2, <1>5, <1>6, <2>1 DEF Lost
<1>9. Taken'
  <2> SUFFICES ASSUME NEW q \in Procs, NEW i \in 1..Sessions, job'[q].kind = "worktime",
                      pc'[q] = "remove" \/ (pc'[q] = "post" /\ i < job'[q].part)
               PROVE  got["worktime"][job'[q].rec][i] > 0
    BY <1>2 DEF Taken
  <2>1. ~(i < 1)
    OBVIOUS
  <2>2. q = "run"
    BY <1>3, <1>4, <2>1 DEF Procs
  <2>3. QED
    BY <1>1, <1>5, <2>2 DEF Same, Taken
<1>10. Wrote' /\ Free
  BY <1>3, <1>7, <1>8 DEF Wrote, Free
<1>11. Debt' = Debt
  BY <1>1, <1>2, <1>3, DebtSame
<1>12. QED
  BY <1>2, <1>9, <1>10, <1>11, QuietLoses

\* A file that is begun, or finished, for the record of the turn.
LEMMA SpoolOpenLoses ==
  ASSUME TransportInv, TransportInv', LossInv, SpoolOpen
  PROVE  LossInv'
<1>1. Control /\ Data /\ Known /\ Taken /\ Wrote /\ "loop" \in Procs
  BY DEF TransportInv, LossInv, Procs
<1> DEFINE k0 == job["loop"].kind
<1>2. /\ pc["loop"] = "spool" /\ Goto("loop", "write", job["loop"])
      /\ spool' = [spool EXCEPT ![k0][now] = "half"]
      /\ UNCHANGED <<todo, now, collected, got, lines, tail, up, losses, overlaps>>
  BY DEF SpoolOpen, store
<1>3. pc'["loop"] = "write" /\ job'["loop"] = job["loop"] /\ Alone("loop")
  BY <1>1, <1>2, GotoPlaces
<1>4. Same("run") /\ pc'["run"] = pc["run"] /\ job'["run"] = job["run"]
  BY <1>3 DEF Alone, Procs, Same
<1>5. /\ k0 \in Spools /\ job["loop"].fresh /\ job["loop"].rec = now /\ now \in Rec
      /\ ~job["run"].fresh
  BY <1>1, <1>2, LoopTurn DEF Control, Jobs
<1>6. New(k0, now)
  BY <1>2, <1>5 DEF New
<1>7. spool[k0][now] = "none" /\ (k0 = "telemetry" => ~Working("run", "telemetry", now))
  BY <1>1, <1>5, <1>6 DEF Known, Procs, Working
<1> HIDE DEF k0
<1>8. \A k \in Spools, r \in Rec :
        spool'[k][r] = IF k = k0 /\ r = now THEN "half" ELSE spool[k][r]
  BY <1>1, <1>2, <1>5 DEF Data
<1>9. 1..collected \subseteq Rec /\ "telemetry" \in Spools /\ "worktime" \in Spools
  BY <1>1, TransportAssumption DEF Control, Rec, Spools
<1>10. \A k \in Spools, r \in Rec : spool'[k][r] = "whole" <=> spool[k][r] = "whole"
  BY <1>7, <1>8
<1>11. Missing' \subseteq Missing
  BY <1>2, <1>3, <1>4, <1>7, <1>8, <1>9 DEF Missing, AtHand, Doomed, k0
<1>12. Lost("worktime")' \subseteq Lost("worktime")
  <2>1. \A r \in Rec : Stored("worktime", r)' <=> Stored("worktime", r)
    BY <1>2 DEF Stored
  <2>2. QED
    BY <1>2, <1>9, <1>10, <2>1 DEF Lost
<1>13. Taken'
  <2> SUFFICES ASSUME NEW q \in Procs, NEW i \in 1..Sessions, job'[q].kind = "worktime",
                      pc'[q] = "remove" \/ (pc'[q] = "post" /\ i < job'[q].part)
               PROVE  got["worktime"][job'[q].rec][i] > 0
    BY <1>2 DEF Taken
  <2>1. ~(i < 1)
    OBVIOUS
  <2>2. q = "run"
    BY <1>3, <2>1 DEF Procs
  <2>3. QED
    BY <1>1, <1>4, <2>2 DEF Same, Taken
<1>14. Wrote'
  BY <1>2, <1>3, <1>4, <1>5, <1>7, <1>8 DEF Wrote, Working, k0
<1>15. Debt' = Debt
  BY <1>1, <1>2, <1>3, DebtSame
<1>16. QED
  BY <1>2, <1>11, <1>12, <1>13, <1>14, <1>15, QuietLoses DEF Free

LEMMA SpoolWriteLoses ==
  ASSUME TransportInv, TransportInv', LossInv, SpoolWrite
  PROVE  LossInv'
<1>1. Control /\ Data /\ Taken /\ Wrote /\ "loop" \in Procs
  BY DEF TransportInv, LossInv, Procs
<1> DEFINE k0 == job["loop"].kind
<1>2. /\ pc["loop"] = "write" /\ RecordDone /\ spool' = [spool EXCEPT ![k0][now] = "whole"]
      /\ UNCHANGED <<collected, got, lines, tail, up, losses, overlaps>>
  BY DEF SpoolWrite, store
<1>3. k0 \in {"telemetry", "worktime"} /\ job["loop"].fresh /\ now \in Rec
  BY <1>1, <1>2, WriteNotNew DEF Spools
<1>4. Alone("loop") /\ RecordWasDone
  BY <1>1, <1>2, <1>3, RecordDoneMove
<1>5. /\ Same("run") /\ pc'["run"] = pc["run"] /\ job'["run"] = job["run"]
      /\ pc'["loop"] \in {"idle", "list"}
      /\ \/ k0 = "telemetry" /\ now' = now
         \/ k0 = "worktime" /\ now' = 0
  BY <1>4 DEF Alone, Same, Procs, RecordWasDone, ToList, ToIdle
<1> HIDE DEF k0
<1>6. \A k \in Spools, r \in Rec :
        spool'[k][r] = IF k = k0 /\ r = now THEN "whole" ELSE spool[k][r]
  <2>1. k0 \in Spools
    BY <1>3 DEF Spools
  <2>2. QED
    BY <1>1, <1>2, <1>3, <2>1 DEF Data
<1>7. /\ 1..collected \subseteq Rec /\ "telemetry" \in Spools /\ "worktime" \in Spools
      /\ \A r \in Rec : r # 0
  BY <1>1, TransportAssumption DEF Control, Rec, Spools
<1>8. Missing' \subseteq Missing
  <2> SUFFICES ASSUME NEW r \in Rec, r \in Missing' PROVE r \in Missing
    BY <1>2, <1>7 DEF Missing
  <2>1. /\ r \in 1..collected /\ r \notin lines /\ (Doomed(r)' <=> Doomed(r))
        /\ spool'["telemetry"][r] = "whole" => Doomed(r)
    BY <1>2, <1>5 DEF Missing, Doomed
  <2>2. ASSUME AtHand(r) PROVE FALSE
    <3>1. r = now /\ k0 = "telemetry"
      BY <2>2 DEF AtHand, k0
    <3>2. spool'["telemetry"][r] = "whole"
      BY <1>6, <1>7, <3>1
    <3>3. Working("run", "telemetry", now)
      BY <2>1, <3>1, <3>2 DEF Doomed, Working
    <3>4. QED
      BY <1>1, <1>2, <3>1, <3>3 DEF Wrote, k0
  <2>3. spool["telemetry"][r] = "whole" => spool'["telemetry"][r] = "whole"
    BY <1>6, <1>7
  <2>4. QED
    BY <2>1, <2>2, <2>3 DEF Missing
<1>9. Lost("worktime")' \subseteq Lost("worktime")
  <2> SUFFICES ASSUME NEW r \in Rec, r \in Lost("worktime")' PROVE r \in Lost("worktime")
    BY <1>2, <1>7 DEF Lost
  <2>1. /\ r \in 1..collected /\ now' # r /\ ~Stored("worktime", r)
        /\ spool'["worktime"][r] # "whole"
    BY <1>2 DEF Lost, Stored
  <2>2. now # r /\ spool["worktime"][r] # "whole"
    BY <1>3, <1>5, <1>6, <1>7, <2>1
  <2>3. QED
    BY <2>1, <2>2 DEF Lost
<1>10. Taken'
  <2> SUFFICES ASSUME NEW q \in Procs, NEW i \in 1..Sessions, job'[q].kind = "worktime",
                      pc'[q] = "remove" \/ (pc'[q] = "post" /\ i < job'[q].part)
               PROVE  got["worktime"][job'[q].rec][i] > 0
    BY <1>2 DEF Taken
  <2>1. q = "run"
    BY <1>5 DEF Procs
  <2>2. QED
    BY <1>1, <1>5, <2>1 DEF Taken
<1>11. Wrote' /\ pc'["loop"] # "line"
  BY <1>5 DEF Wrote
<1>12. Debt' = Debt
  BY <1>1, <1>2, <1>4, <1>11, DebtSame
<1>13. QED
  BY <1>2, <1>8, <1>9, <1>10, <1>11, <1>12, QuietLoses DEF Free

\* A disk that is full costs the record of the turn.
LEMMA SpoolFailsLoses ==
  ASSUME TransportInv, TransportInv', LossInv, SpoolFails
  PROVE  LossInv'
<1>1. /\ Control /\ Data /\ Control' /\ Data' /\ Taken /\ Wrote
      /\ ServerCharged /\ PortalCharged /\ "loop" \in Procs
  BY DEF TransportInv, LossInv, Procs
<1>2. /\ pc["loop"] \in {"spool", "write"} /\ RecordDone /\ losses' = losses + 1
      /\ UNCHANGED <<collected, spool, got, lines, tail, up, overlaps>>
  BY DEF SpoolFails, store
<1>3. job["loop"].fresh /\ now \in Rec
  BY <1>1, <1>2, LoopTurn
<1>4. Alone("loop") /\ RecordWasDone
  BY <1>1, <1>2, <1>3, RecordDoneMove
<1>5. /\ Same("run") /\ pc'["run"] = pc["run"] /\ job'["run"] = job["run"]
      /\ pc'["loop"] \in {"idle", "list"} /\ now' \in {now, 0}
  BY <1>4 DEF Alone, Same, Procs, RecordWasDone, ToList, ToIdle
<1>6. 1..collected \subseteq Rec /\ \A r \in Rec : r # 0
  BY <1>1, TransportAssumption DEF Control, Rec
<1>7. Missing' \subseteq Missing \cup {now}
  <2> SUFFICES ASSUME NEW r \in Rec, r \in Missing', r # now PROVE r \in Missing
    BY <1>2, <1>6 DEF Missing
  <2>1. ~AtHand(r) /\ (Doomed(r)' <=> Doomed(r))
    BY <1>5 DEF AtHand, Doomed
  <2>2. QED
    BY <1>2, <2>1 DEF Missing
<1>8. Lost("worktime")' \subseteq Lost("worktime") \cup {now}
  <2>1. \A r \in Rec : Stored("worktime", r)' <=> Stored("worktime", r)
    BY <1>2 DEF Stored
  <2>2. QED
    BY <1>2, <1>6, <2>1 DEF Lost
<1>9. Taken'
  <2> SUFFICES ASSUME NEW q \in Procs, NEW i \in 1..Sessions, job'[q].kind = "worktime",
                      pc'[q] = "remove" \/ (pc'[q] = "post" /\ i < job'[q].part)
               PROVE  got["worktime"][job'[q].rec][i] > 0
    BY <1>2 DEF Taken
  <2>1. q = "run"
    BY <1>5 DEF Procs
  <2>2. QED
    BY <1>1, <1>5, <2>1 DEF Taken
<1>10. Wrote' /\ pc'["loop"] # "line" /\ pc["loop"] # "line"
  BY <1>2, <1>5 DEF Wrote
<1>11. Debt' = Debt /\ Purse' = Purse + 1
  BY <1>1, <1>2, <1>4, <1>10, DebtSame, PurseSums
<1>12. ServerCharged' /\ PortalCharged'
  BY <1>1, <1>2, <1>3, <1>7, <1>8, <1>11, LossCharged
<1>13. QED
  BY <1>9, <1>10, <1>12 DEF LossInv

-----------------------------------------------------------------------------
\* A file that is removed was stored.
LEMMA RemoveLoses ==
  ASSUME TransportInv, TransportInv', LossInv, NEW p \in Procs, Remove(p)
  PROVE  LossInv'
<1>1. Control /\ Data /\ Taken /\ Wrote
  BY DEF TransportInv, LossInv
<1> DEFINE k0 == job[p].kind
           r0 == job[p].rec
<1>2. pc[p] = "remove" /\ UNCHANGED <<collected, got, lines, tail, up, losses, overlaps>>
  BY DEF Remove, store
<1>3. ~job[p].fresh /\ k0 \in Spools /\ r0 \in Rec
  BY <1>1, <1>2, JobAt
<1>4. CASE spool[k0][r0] = "none"
  <2>1. FlushEnds(p, FALSE) /\ UNCHANGED spool
    BY <1>4 DEF Remove
  <2>2. Alone(p) /\ FlushEnded(p, FALSE)
    BY <1>1, <1>2, <2>1, FlushEndsMove
  <2>3. Calm(p) /\ (p = "run" => now' = now)
    BY <1>2, <1>3, <2>2 DEF Calm, FlushEnded, ToList, ToIdle
  <2>4. QED
    BY <1>2, <2>1, <2>2, <2>3, CalmLoses
<1>5. CASE spool[k0][r0] # "none"
  <2> DEFINE j == Job(k0, FALSE, 0)
  <2>1. /\ spool' = [spool EXCEPT ![k0][r0] = "none"]
        /\ Goto(p, "read", j) /\ UNCHANGED <<todo, now>>
    BY <1>5 DEF Remove
  <2>2. pc'[p] = "read" /\ job'[p] = j /\ Alone(p) /\ j.kind = k0
    BY <1>1, <2>1, GotoPlaces DEF Job
  <2>3. p = "loop" => k0 = "worktime"
    BY <1>1, <1>2, <1>3, LoopTurn
  <2>4. k0 = "worktime" => \A i \in 1..Sessions : got["worktime"][r0][i] > 0
    BY <1>1, <1>2 DEF Taken
  <2>5. k0 = "telemetry" => Doomed(r0)
    BY <1>2, <2>3 DEF Doomed, Procs
  <2> HIDE DEF j
  <2>6. \A k \in Spools, r \in Rec :
          spool'[k][r] = IF k = k0 /\ r = r0 THEN "none" ELSE spool[k][r]
    <3> HIDE DEF k0, r0
    <3>1. QED
      BY <1>1, <1>3, <2>1 DEF Data
  <2>7. 1..collected \subseteq Rec /\ "telemetry" \in Spools /\ "worktime" \in Spools
    BY <1>1, TransportAssumption DEF Control, Rec, Spools
  <2>8. \A q \in Procs \ {p} : pc'[q] = pc[q] /\ job'[q] = job[q]
    BY <2>2 DEF Alone, Same
  <2>9. \A r \in Rec : AtHand(r)' <=> AtHand(r)
    BY <2>1, <2>2, <2>8 DEF AtHand, Procs
  <2>10. \A r \in Rec : Doomed(r)' => Doomed(r)
    BY <2>2, <2>8 DEF Doomed, Procs
  <2>11. Missing' \subseteq Missing
    <3> SUFFICES ASSUME NEW r \in Rec, r \in Missing' PROVE r \in Missing
      BY <1>2, <2>7 DEF Missing
    <3>1. /\ r \in 1..collected /\ r \notin lines /\ ~AtHand(r)
          /\ spool'["telemetry"][r] = "whole" => Doomed(r)
      BY <1>2, <2>9, <2>10 DEF Missing
    <3>2. spool["telemetry"][r] = "whole" => Doomed(r)
      BY <2>5, <2>6, <2>7, <3>1
    <3>3. QED
      BY <3>1, <3>2 DEF Missing
  <2>12. Lost("worktime")' \subseteq Lost("worktime")
    <3> SUFFICES ASSUME NEW r \in Rec, r \in Lost("worktime")' PROVE r \in Lost("worktime")
      BY <1>2, <2>7 DEF Lost
    <3>1. /\ r \in 1..collected /\ now # r /\ ~Stored("worktime", r)
          /\ spool'["worktime"][r] # "whole"
      BY <1>2, <2>1 DEF Lost, Stored
    <3>2. spool["worktime"][r] # "whole"
      BY <2>4, <2>6, <2>7, <3>1 DEF Stored
    <3>3. QED
      BY <3>1, <3>2 DEF Lost
  <2>13. Taken'
    <3> SUFFICES ASSUME NEW q \in Procs, NEW i \in 1..Sessions, job'[q].kind = "worktime",
                        pc'[q] = "remove" \/ (pc'[q] = "post" /\ i < job'[q].part)
                 PROVE  got["worktime"][job'[q].rec][i] > 0
      BY <1>2 DEF Taken
    <3>1. q # p
      BY <2>2
    <3>2. QED
      BY <1>1, <2>8, <3>1 DEF Taken
  <2>14. Wrote'
    <3> SUFFICES ASSUME pc'["loop"] = "write", job'["loop"].kind = "telemetry"
                 PROVE  ~Working("run", "telemetry", now)' /\ spool'["telemetry"][now] = "half"
      BY <2>1 DEF Wrote
    <3>1. p = "run"
      BY <2>2 DEF Procs
    <3>2. pc["loop"] = "write" /\ job["loop"].kind = "telemetry" /\ now \in Rec
      BY <1>1, <2>8, <3>1, WriteNotNew DEF Procs
    <3>3. ~Working("run", "telemetry", now) /\ spool["telemetry"][now] = "half"
      BY <1>1, <3>2 DEF Wrote
    <3>4. ~(k0 = "telemetry" /\ r0 = now)
      BY <1>2, <3>1, <3>3 DEF Working
    <3>5. QED
      BY <2>2, <2>6, <2>7, <3>1, <3>2, <3>3, <3>4 DEF Working
  <2>15. Debt' = Debt
    BY <1>1, <1>2, <2>2, DebtSame
  <2>16. QED
    BY <1>2, <2>11, <2>12, <2>13, <2>14, <2>15, QuietLoses DEF Free
<1>6. QED
  BY <1>4, <1>5

-----------------------------------------------------------------------------
\* The losses of a post.
LEMMA TookGrows ==
  ASSUME Control, Data, NEW p \in Procs, pc[p] = "post", got' = Took(p)
  PROVE  /\ Grows
         /\ job[p].kind = "telemetry" => \A r \in Rec : Stored("worktime", r)' <=> Stored("worktime", r)
         /\ \A r \in Rec : Stored("worktime", r) => Stored("worktime", r)'
         /\ job[p].kind = "worktime" => got'["worktime"][job[p].rec][job[p].part] > 0
<1>1. /\ "worktime" \in Spools /\ Parts("worktime") = Sessions
      /\ job[p].kind \in Spools /\ job[p].rec \in Rec /\ job[p].part \in 1..Parts(job[p].kind)
  BY TookTypes DEF Spools, Parts
<1>2. \A r \in Rec, i \in 1..Sessions :
        /\ got["worktime"][r][i] \in Nat
        /\ got'["worktime"][r][i] =
             IF "worktime" = job[p].kind /\ r = job[p].rec /\ i = job[p].part
             THEN got["worktime"][r][i] + 1 ELSE got["worktime"][r][i]
  BY <1>1, TookTypes, NumberTypes
<1>3. Grows
  BY <1>2 DEF Grows
<1>4. job[p].kind = "telemetry" => \A r \in Rec : Stored("worktime", r)' <=> Stored("worktime", r)
  BY <1>2 DEF Stored
<1>5. \A r \in Rec : Stored("worktime", r) => Stored("worktime", r)'
  BY <1>3 DEF Grows, Stored
<1>6. ASSUME job[p].kind = "worktime" PROVE got'["worktime"][job[p].rec][job[p].part] > 0
  BY <1>1, <1>2, <1>6
<1>7. QED
  BY <1>3, <1>4, <1>5, <1>6

\* A post that failed: what it was for is still at hand or in its file.
LEMMA PostFailsLoses ==
  ASSUME TransportInv, TransportInv', LossInv, NEW p \in Procs, PostFails(p)
  PROVE  LossInv'
<1>1. Control /\ Data /\ Taken /\ Wrote
  BY DEF TransportInv, LossInv
<1>2. /\ pc[p] \in {"post", "line"} /\ Failed(p)
      /\ pc[p] = "line" => ~up[job[p].kind]
      /\ UNCHANGED <<collected, spool, got, lines, tail, up, losses, overlaps>>
  BY DEF PostFails, store
<1>3. Alone(p) /\ FailureDone(p)
  BY <1>1, <1>2, FailedMove
<1>4. Calm(p) /\ Grows /\ Outcome(p)
  BY <1>2, <1>3 DEF Calm, Grows, Outcome
<1>5. p = "run" => now' = now
  BY <1>4, OutcomeNow
<1>6. Free /\ Taken' /\ Wrote' /\ pc'[p] # "line"
  BY <1>1, <1>2, <1>3, <1>4, <1>5, CalmKeeps
<1>7. Debt' = Debt
  <2>1. CASE pc[p] = "line"
    <3>1. ~up["telemetry"]
      BY <1>1, <1>2, <2>1, JobAt
    <3>2. QED
      BY <1>2, <3>1 DEF Debt
  <2>2. CASE pc[p] # "line"
    BY <1>2, <1>3, <1>6, <2>2, DebtSame
  <2>3. QED
    BY <2>1, <2>2
<1>8. QED
  BY <1>2, <1>6, <1>7, QuietLoses

\* A heartbeat that was answered: after the last one the record is stored.
LEMMA BeatsKeep ==
  ASSUME Control, Data, Taken, Wrote, NEW p \in Procs, Answered(p),
         pc[p] = "post", job[p].kind = "worktime", got' = Took(p),
         UNCHANGED <<collected, spool, lines>>
  PROVE  Alone(p) /\ Free /\ Taken' /\ Wrote' /\ pc'[p] # "line"
<1> DEFINE j == job[p]
<1>1. /\ j \in Jobs /\ j.rec \in Rec /\ j.part \in 1..Sessions /\ j.part <= Sessions
      /\ Parts(j.kind) = Sessions /\ Sessions \in Nat
  BY JobAt, TransportAssumption DEF Jobs, Parts
<1>2. /\ Grows /\ got'["worktime"][j.rec][j.part] > 0
      /\ \A r \in Rec : Stored("worktime", r) => Stored("worktime", r)'
  BY TookGrows
<1>3. Alone(p) /\ AnswerDone(p)
  BY AnsweredMove
<1>4. \A i \in 1..Sessions : i < j.part + 1 => got'["worktime"][j.rec][i] > 0
  <2> SUFFICES ASSUME NEW i \in 1..Sessions, i < j.part + 1 PROVE got'["worktime"][j.rec][i] > 0
    OBVIOUS
  <2>1. i = j.part \/ i < j.part
    BY <1>1
  <2>2. i < j.part => got["worktime"][j.rec][i] > 0
    BY DEF Taken
  <2>3. QED
    BY <1>1, <1>2, <2>1, <2>2 DEF Grows
<1>5. \A r \in Rec : r = j.rec /\ j.part = Sessions => Stored("worktime", r)'
  <2>1. j.part = Sessions => \A i \in 1..Sessions : i < j.part + 1
    BY <1>1
  <2>2. QED
    BY <1>4, <2>1 DEF Stored
<1>6. /\ p = "loop" /\ j.fresh => j.rec = now
      /\ p = "run" => ~j.fresh
      /\ 1..collected \subseteq Rec
  BY LoopTurn, TransportAssumption DEF Control, Rec
<1>7. \/ /\ pc'[p] = "post" /\ job'[p].kind = "worktime" /\ job'[p].rec = j.rec
         /\ job'[p].part = j.part + 1 /\ now' = now
      \/ /\ pc'[p] = "idle" /\ p = "loop" /\ j.part = Sessions /\ j.rec = now /\ now' = 0
      \/ /\ pc'[p] = "remove" /\ job'[p].kind = "worktime" /\ job'[p].rec = j.rec
         /\ j.part = Sessions /\ now' = now
  <2>1. CASE j.part < Parts(j.kind)
    <3>1. Goto(p, "post", [j EXCEPT !.part = @ + 1, !.try = 1]) /\ UNCHANGED <<todo, now>>
      BY <2>1 DEF Answered
    <3>2. pc'[p] = "post" /\ job'[p] = [j EXCEPT !.part = @ + 1, !.try = 1] /\ now' = now
      BY <3>1, GotoPlaces
    <3>3. QED
      BY <1>1, <3>2 DEF Jobs
  <2>2. CASE ~(j.part < Parts(j.kind)) /\ j.fresh
    <3>1. RecordDone /\ p = "loop" /\ j.part = Sessions
      BY <1>1, <1>6, <2>2 DEF Answered, Procs
    <3>2. RecordWasDone
      BY <2>2, <3>1, RecordDoneMove
    <3>3. QED
      BY <1>6, <2>2, <3>1, <3>2 DEF RecordWasDone, ToIdle
  <2>3. CASE ~(j.part < Parts(j.kind)) /\ ~j.fresh
    <3>1. Goto(p, "remove", j) /\ UNCHANGED <<todo, now>> /\ j.part = Sessions
      BY <1>1, <2>3 DEF Answered
    <3>2. QED
      BY <3>1, GotoPlaces
  <2>4. QED
    BY <2>1, <2>2, <2>3
<1>8. \A q \in Procs \ {p} : pc'[q] = pc[q] /\ job'[q] = job[q]
  BY <1>3 DEF Alone, Same
<1>9. Missing' \subseteq Missing
  <2>1. \A r \in Rec : ~AtHand(r)' => ~AtHand(r)
    BY <1>7, <1>8 DEF AtHand, Procs
  <2>2. \A r \in Rec : Doomed(r)' => Doomed(r)
    BY <1>7, <1>8 DEF Doomed, Procs
  <2>3. QED
    BY <1>6, <2>1, <2>2 DEF Missing
<1>10. Lost("worktime")' \subseteq Lost("worktime")
  <2> SUFFICES ASSUME NEW r \in Rec, r \in Lost("worktime")' PROVE r \in Lost("worktime")
    BY <1>6 DEF Lost
  <2>1. /\ r \in 1..collected /\ now' # r /\ ~Stored("worktime", r)'
        /\ spool["worktime"][r] # "whole"
    BY DEF Lost
  <2>2. now # r
    BY <1>5, <1>7, <2>1
  <2>3. QED
    BY <1>2, <2>1, <2>2 DEF Lost
<1>11. Taken'
  <2> SUFFICES ASSUME NEW q \in Procs, NEW i \in 1..Sessions, job'[q].kind = "worktime",
                      pc'[q] = "remove" \/ (pc'[q] = "post" /\ i < job'[q].part)
               PROVE  got'["worktime"][job'[q].rec][i] > 0
    BY DEF Taken
  <2>1. CASE q # p
    <3>1. got["worktime"][job[q].rec][i] > 0 /\ pc[q] \in {"post", "remove"}
      BY <1>8, <2>1 DEF Taken
    <3>2. job[q].rec \in Rec
      BY <3>1, JobAt
    <3>3. QED
      BY <1>2, <1>8, <2>1, <3>1, <3>2 DEF Grows
  <2>2. CASE q = p
    <3>1. i < j.part + 1 /\ job'[p].rec = j.rec
      BY <1>1, <1>7, <2>2
    <3>2. QED
      BY <1>4, <2>2, <3>1
  <2>3. QED
    BY <2>1, <2>2
<1>12. Wrote'
  BY <1>7, <1>8 DEF Wrote, Working, Procs
<1>13. QED
  BY <1>3, <1>7, <1>9, <1>10, <1>11, <1>12 DEF Free

LEMMA HeartbeatLoses ==
  ASSUME TransportInv, TransportInv', LossInv, NEW p \in Procs, Heartbeat(p)
  PROVE  LossInv'
<1>1. Control /\ Data /\ Taken /\ Wrote
  BY DEF TransportInv, LossInv
<1>2. /\ pc[p] = "post" /\ job[p].kind = "worktime" /\ got' = Took(p)
      /\ UNCHANGED <<collected, spool, up, tail, lines, overlaps, losses>>
      /\ Answered(p) \/ Failed(p)
  BY DEF Heartbeat, Reply
<1>3. Alone(p) /\ Free /\ Taken' /\ Wrote' /\ pc'[p] # "line"
  <2>1. CASE Answered(p)
    BY <1>1, <1>2, <2>1, BeatsKeep
  <2>2. CASE Failed(p)
    <3>1. Alone(p) /\ FailureDone(p)
      BY <1>1, <1>2, <2>2, FailedMove
    <3>2. Calm(p) /\ Outcome(p) /\ Grows
      BY <1>1, <1>2, <3>1, TookGrows DEF Calm, Outcome
    <3>3. p = "run" => now' = now
      BY <3>2, OutcomeNow
    <3>4. QED
      BY <1>1, <1>2, <3>1, <3>2, <3>3, CalmKeeps
  <2>3. QED
    BY <1>2, <2>1, <2>2
<1>4. Debt' = Debt
  BY <1>2, <1>3, DebtSame
<1>5. QED
  BY <1>2, <1>3, <1>4, QuietLoses

\* The debt while the sink is up: of p alone at its line, or of both.
LEMMA DebtUp ==
  ASSUME up["telemetry"], NEW p \in Procs, NEW q \in Procs, p # q
  PROVE  /\ pc[p] = "line" /\ pc[q] = "line" => Debt = 2
         /\ pc[p] = "line" /\ pc[q] # "line" => Debt = One(tail # <<job[p].rec>>)
         /\ pc[p] # "line" /\ pc[q] # "line" => Debt = One(tail # <<>>)
<1>1. (p = "loop" /\ q = "run") \/ (p = "run" /\ q = "loop")
  BY DEF Procs
<1>2. QED
  BY <1>1 DEF Debt, Written

LEMMA DebtUpNext ==
  ASSUME up'["telemetry"], NEW p \in Procs, NEW q \in Procs, p # q
  PROVE  /\ pc'[p] = "line" /\ pc'[q] = "line" => Debt' = 2
         /\ pc'[p] = "line" /\ pc'[q] # "line" => Debt' = One(tail' # <<job'[p].rec>>)
         /\ pc'[p] # "line" /\ pc'[q] # "line" => Debt' = One(tail' # <<>>)
<1>1. (p = "loop" /\ q = "run") \/ (p = "run" /\ q = "loop")
  BY DEF Procs
<1>2. QED
  BY <1>1 DEF Debt, Written, One

\* Two requests at their lines cost an overlap, which pays for both records.
LEMMA TextLoses ==
  ASSUME TransportInv, TransportInv', LossInv, NEW p \in Procs, Text(p)
  PROVE  LossInv'
<1>1. /\ Control /\ Data /\ Control' /\ Data' /\ Taken /\ Wrote
      /\ ServerCharged /\ PortalCharged
  BY DEF TransportInv, LossInv
<1>2. /\ pc[p] = "post" /\ job[p].kind = "telemetry" /\ up["telemetry"] /\ got' = Took(p)
      /\ tail' = Append(tail, job[p].rec) /\ Goto(p, "line", job[p])
      /\ overlaps' = IF \E q \in Procs : pc[q] = "line" THEN overlaps + 1 ELSE overlaps
      /\ UNCHANGED <<todo, now, collected, spool, up, lines, losses>>
  BY DEF Text
<1>3. pc'[p] = "line" /\ job'[p] = job[p] /\ Alone(p)
  BY <1>1, <1>2, GotoPlaces
<1>4. \A q \in Procs \ {p} : pc'[q] = pc[q] /\ job'[q] = job[q]
  BY <1>3 DEF Alone, Same
<1>5. /\ Grows /\ job[p].rec \in Rec /\ 1..collected \subseteq Rec
      /\ \A r \in Rec : Stored("worktime", r)' <=> Stored("worktime", r)
  BY <1>1, <1>2, TookGrows, JobAt, TransportAssumption DEF Control, Rec
<1>6. Missing' \subseteq Missing
  <2>1. \A r \in Rec : (AtHand(r)' <=> AtHand(r)) /\ (Doomed(r)' => Doomed(r))
    BY <1>2, <1>3, <1>4 DEF AtHand, Doomed, Procs
  <2>2. QED
    BY <1>2, <1>5, <2>1 DEF Missing
<1>7. Lost("worktime")' \subseteq Lost("worktime")
  BY <1>2, <1>5 DEF Lost
<1>8. Taken'
  <2> SUFFICES ASSUME NEW q \in Procs, NEW i \in 1..Sessions, job'[q].kind = "worktime",
                      pc'[q] = "remove" \/ (pc'[q] = "post" /\ i < job'[q].part)
               PROVE  got'["worktime"][job'[q].rec][i] > 0
    BY DEF Taken
  <2>1. q # p
    BY <1>3
  <2>2. got["worktime"][job[q].rec][i] > 0 /\ pc[q] \in {"post", "remove"}
    BY <1>1, <1>4, <2>1 DEF Taken
  <2>3. job[q].rec \in Rec
    BY <1>1, <2>2, JobAt
  <2>4. QED
    BY <1>4, <1>5, <2>1, <2>2, <2>3 DEF Grows
<1>9. Wrote'
  BY <1>1, <1>2, <1>3, <1>4 DEF Wrote, Working, Procs
<1>10. PICK q \in Procs : q # p
  BY DEF Procs
<1>11. /\ Debt \in 0..2 /\ Debt' \in 0..2 /\ Purse \in Nat
       /\ up'["telemetry"] /\ tail \in Seq(Rec)
  BY <1>1, <1>2, LossTypes, LossTypesNext DEF Data
<1>12. Debt' + Purse <= Debt + Purse'
  <2>1. CASE pc[q] = "line"
    <3>1. Debt' = 2
      BY <1>3, <1>4, <1>10, <1>11, <2>1, DebtUpNext
    <3>2. Purse' = Purse + 2
      BY <1>1, <1>2, <2>1, PurseSums
    <3>3. QED
      BY <1>11, <3>1, <3>2
  <2>2. CASE pc[q] # "line"
    <3>1. \A o \in Procs : pc[o] # "line"
      BY <1>2, <1>10, <2>2 DEF Procs
    <3>2. Purse' = Purse
      BY <1>1, <1>2, <3>1, PurseSums
    <3>3. Debt = One(tail # <<>>) /\ Debt' = One(tail' # <<job[p].rec>>)
      BY <1>2, <1>3, <1>4, <1>10, <1>11, <2>2, DebtUp, DebtUpNext
    <3>4. tail = <<>> => tail' = <<job[p].rec>>
      BY <1>2, <1>5
    <3>5. (Debt = 1 /\ (Debt' = 0 \/ Debt' = 1)) \/ (Debt = 0 /\ Debt' = 0)
      BY <3>3, <3>4 DEF One
    <3>6. PICK d \in Nat : d = Debt'
      BY <1>11
    <3>7. d <= Debt
      BY <3>5, <3>6
    <3>8. d + Purse <= Debt + Purse
      BY <1>11, <3>7
    <3>9. QED
      BY <3>2, <3>6, <3>8
  <2>3. QED
    BY <2>1, <2>2
<1>13. QED
  BY <1>1, <1>2, <1>6, <1>7, <1>8, <1>9, <1>12, FreeCharged DEF LossInv, Free

\* An answer for a line: its text is a line of its own, or the debt is less.
LEMMA LinePays ==
  ASSUME TransportInv, TransportInv', NEW p \in Procs, pc[p] = "line", up["telemetry"],
         up' = up, tail' = <<>>, Alone(p), pc'[p] # "line",
         lines' = IF Len(tail) = 1 THEN lines \cup {Head(tail)} ELSE lines
  PROVE  /\ (Debt = 0 /\ Debt' = 0) \/ (Debt = 1 /\ Debt' = 0) \/ (Debt = 2 /\ Debt' \in {0, 1})
         /\ job[p].rec \in lines' \/ Debt # 0
<1>1. PICK q \in Procs : q # p
  BY DEF Procs
<1>2. pc'[q] = pc[q]
  BY <1>1 DEF Alone, Same
<1>3. CASE pc[q] = "line"
  <2>1. Debt = 2
    BY <1>1, <1>3, DebtUp
  <2>2. Debt' = One(tail' # <<job'[q].rec>>)
    BY <1>1, <1>2, <1>3, DebtUpNext
  <2>3. QED
    BY <2>1, <2>2 DEF One
<1>4. CASE pc[q] # "line"
  <2>1. Debt' = One(tail' # <<>>)
    BY <1>1, <1>2, <1>4, DebtUpNext
  <2>2. Debt = One(tail # <<job[p].rec>>)
    BY <1>1, <1>4, DebtUp
  <2>3. tail = <<job[p].rec>> => job[p].rec \in lines'
    OBVIOUS
  <2>4. QED
    BY <2>1, <2>2, <2>3 DEF One
<1>5. QED
  BY <1>3, <1>4

\* A record the portal answered for: at most this one is missing then.
LEMMA LineDone ==
  ASSUME Control, Taken, Wrote, NEW p \in Procs, pc[p] = "line", Answered(p),
         UNCHANGED <<collected, spool, got>>, lines \subseteq lines'
  PROVE  /\ Alone(p) /\ Taken' /\ Wrote' /\ pc'[p] # "line"
         /\ Missing' \subseteq Missing \cup ({job[p].rec} \ lines')
         /\ Lost("worktime")' \subseteq Lost("worktime")
<1>1. /\ job[p].kind = "telemetry" /\ job[p].rec \in Rec /\ 1..collected \subseteq Rec
      /\ p = "run" => ~job[p].fresh
      /\ p = "loop" => job[p].fresh /\ job[p].rec = now
  BY JobAt, LoopTurn, TransportAssumption DEF Control, Rec
<1>2. Alone(p) /\ AnswerDone(p)
  BY AnsweredMove
<1>3. \A q \in Procs \ {p} : pc'[q] = pc[q] /\ job'[q] = job[q]
  BY <1>2 DEF Alone, Same
<1>4. /\ now' = now
      /\ \/ p = "loop" /\ pc'[p] = "list" /\ job'[p].kind = "worktime" /\ job[p].rec = now
         \/ p = "run" /\ pc'[p] = "remove" /\ job'[p] = job[p]
  BY <1>1, <1>2 DEF AnswerDone, NextPart, ToRemove, RecordWasDone, ToList, Job, Procs
<1>5. Missing' \subseteq Missing \cup ({job[p].rec} \ lines')
  <2> DEFINE x == job[p].rec
  <2>1. \A r \in Rec \ {x} : (AtHand(r)' <=> AtHand(r)) /\ (Doomed(r)' <=> Doomed(r))
    BY <1>3, <1>4 DEF AtHand, Doomed, Procs
  <2>2. \A r \in Rec \ {x} : r \in Missing' => r \in Missing
    BY <2>1 DEF Missing
  <2>3. \A r \in Missing' : r \in Rec /\ r \notin lines'
    BY <1>1 DEF Missing
  <2>4. QED
    BY <2>2, <2>3
<1>6. Lost("worktime")' \subseteq Lost("worktime")
  <2>1. \A r \in Rec : Stored("worktime", r)' <=> Stored("worktime", r)
    BY DEF Stored
  <2>2. QED
    BY <1>1, <1>4, <2>1 DEF Lost
<1>7. Taken'
  <2> SUFFICES ASSUME NEW q \in Procs, NEW i \in 1..Sessions, job'[q].kind = "worktime",
                      pc'[q] = "remove" \/ (pc'[q] = "post" /\ i < job'[q].part)
               PROVE  got["worktime"][job'[q].rec][i] > 0
    BY DEF Taken
  <2>1. q # p
    BY <1>1, <1>4
  <2>2. QED
    BY <1>3, <2>1 DEF Taken
<1>8. Wrote'
  BY <1>1, <1>3, <1>4 DEF Wrote, Working, Procs
<1>9. QED
  BY <1>2, <1>4, <1>5, <1>6, <1>7, <1>8

LEMMA LineLoses ==
  ASSUME TransportInv, TransportInv', LossInv, NEW p \in Procs, Line(p)
  PROVE  LossInv'
<1>1. /\ Control /\ Data /\ Control' /\ Data' /\ Taken /\ Wrote
      /\ ServerCharged /\ PortalCharged
  BY DEF TransportInv, LossInv
<1>2. /\ pc[p] = "line" /\ up["telemetry"] /\ tail' = <<>>
      /\ lines' = IF Len(tail) = 1 THEN lines \cup {Head(tail)} ELSE lines
      /\ UNCHANGED <<collected, spool, up, got, overlaps, losses>>
      /\ Answered(p) \/ Failed(p)
  BY DEF Line, Reply
<1>3. lines \subseteq lines' /\ job[p].rec \in Rec /\ Purse' = Purse
  BY <1>1, <1>2, JobAt, PurseSums
<1>4. Debt \in 0..2 /\ Debt' \in 0..2 /\ Purse \in Nat
  BY <1>1, LossTypes, LossTypesNext
<1>5. ASSUME Alone(p), pc'[p] # "line", Free, Taken', Wrote' PROVE LossInv'
  <2>1. (Debt = 0 /\ Debt' = 0) \/ (Debt = 1 /\ Debt' = 0) \/ (Debt = 2 /\ Debt' \in {0, 1})
    BY <1>2, <1>5, LinePays
  <2>2. PICK d \in Nat : d = Debt'
    BY <1>4
  <2>3. d <= Debt
    BY <2>1, <2>2
  <2>4. d + Purse <= Debt + Purse
    BY <1>4, <2>3
  <2>5. Debt' + Purse <= Debt + Purse'
    BY <1>3, <2>2, <2>4
  <2>6. QED
    BY <1>1, <1>2, <1>5, <2>5, FreeCharged DEF LossInv
<1>6. CASE Failed(p)
  <2>1. Alone(p) /\ FailureDone(p)
    BY <1>1, <1>2, <1>6, FailedMove
  <2>2. Calm(p) /\ Outcome(p) /\ Grows
    BY <1>2, <2>1 DEF Calm, Outcome, Grows
  <2>3. p = "run" => now' = now
    BY <2>2, OutcomeNow
  <2>4. Free /\ Taken' /\ Wrote' /\ pc'[p] # "line"
    BY <1>1, <1>2, <1>3, <2>1, <2>2, <2>3, CalmKeeps
  <2>5. QED
    BY <1>5, <2>1, <2>4
<1>7. CASE Answered(p)
  <2>1. /\ Alone(p) /\ Taken' /\ Wrote' /\ pc'[p] # "line"
        /\ Missing' \subseteq Missing \cup ({job[p].rec} \ lines')
        /\ Lost("worktime")' \subseteq Lost("worktime")
    BY <1>1, <1>2, <1>3, <1>7, LineDone
  <2>2. CASE job[p].rec \in lines'
    BY <1>5, <2>1, <2>2 DEF Free
  <2>3. CASE job[p].rec \notin lines'
    <3>1. /\ (Debt = 1 /\ Debt' = 0) \/ (Debt = 2 /\ Debt' \in {0, 1})
      BY <1>2, <2>1, <2>3, LinePays
    <3>2. PICK d \in Nat : d = Debt'
      BY <1>4
    <3>3. d + 1 <= Debt
      BY <3>1, <3>2
    <3>4. Debt' + 1 <= Debt
      BY <3>2, <3>3
    <3>5. PICK x \in Rec : x = job[p].rec
      BY <1>3
    <3>6. Missing' \subseteq Missing \cup {x}
      BY <2>1, <3>5
    <3>7. QED
      BY <1>1, <1>2, <1>3, <2>1, <3>4, <3>6, LossCharged DEF LossInv
  <2>4. QED
    BY <2>2, <2>3
<1>8. QED
  BY <1>2, <1>6, <1>7

-----------------------------------------------------------------------------
LEMMA InitLosses == Init => LossInv
<1> SUFFICES ASSUME Init PROVE LossInv
  OBVIOUS
<1>1. /\ pc = [p \in Procs |-> "idle"] /\ job = [p \in Procs |-> Nothing] /\ collected = 0
      /\ up = [k \in Spools |-> TRUE] /\ tail = <<>> /\ losses = 0 /\ overlaps = 0
  BY DEF Init
<1>2. pc["loop"] = "idle" /\ pc["run"] = "idle" /\ up["telemetry"]
  BY <1>1 DEF Procs, Spools
<1>3. Taken /\ Wrote
  BY <1>1, <1>2 DEF Taken, Wrote
<1>4. 1..collected = {}
  BY <1>1
<1>5. Missing = {} /\ Lost("worktime") = {}
  BY <1>4 DEF Missing, Lost
<1>6. Cardinality({}) = 0
  BY FS_EmptySet
<1>7. Debt = 0
  BY <1>1, <1>2 DEF Debt, Written, One
<1>8. Cardinality(Missing) = 0 /\ Cardinality(Lost("worktime")) = 0
  BY <1>5, <1>6
<1>9. Purse = 0
  BY <1>1 DEF Purse
<1>10. QED
  BY <1>1, <1>3, <1>7, <1>8, <1>9 DEF LossInv, ServerCharged, PortalCharged

LEMMA NextLosses ==
  ASSUME TransportInv, TransportInv', LossInv, [Next]_vars
  PROVE  LossInv'
<1>1. CASE UNCHANGED vars
  <2>1. /\ UNCHANGED <<pc, job, todo, now, collected, spool, up, tail, lines, got>>
        /\ UNCHANGED <<overlaps, losses>>
    BY <1>1 DEF vars, process, store
  <2>2. Free /\ Taken' /\ Wrote'
    BY <2>1, StillKeeps DEF LossInv
  <2>3. Debt' = Debt
    BY <2>1 DEF Debt, Written
  <2>4. QED
    BY <2>1, <2>2, <2>3, QuietLoses
<1>2. ASSUME NEW p \in Procs, Step(p) PROVE LossInv'
  BY <1>2, CollectLoses, SpoolOpenLoses, SpoolWriteLoses, ListLoses, ReadLoses, RemoveLoses,
     HeartbeatLoses, TextLoses, LineLoses, PostFailsLoses DEF Step
<1>3. ASSUME NEW p \in Procs, FlushFails(p) \/ Kill(p) PROVE LossInv'
  BY <1>3, FlushFailsLoses, StopLoses
<1>4. CASE SpoolFails \/ StartRun \/ Restart
  BY <1>4, SpoolFailsLoses, ListLoses, StopLoses DEF Procs
<1>5. ASSUME NEW k \in Spools, Outage(k) \/ Recover(k) PROVE LossInv'
  BY <1>5, OutageLoses, RecoverLoses
<1>6. QED
  BY <1>1, <1>2, <1>3, <1>4, <1>5 DEF Next

LEMMA LossInvariant == Spec => [](TransportInv /\ LossInv)
<1>1. Init => TransportInv /\ LossInv
  BY InitTransport, InitLosses
<1>2. TransportInv /\ LossInv /\ [Next]_vars => (TransportInv /\ LossInv)'
  BY NextTransport, NextLosses
<1>3. QED
  BY <1>1, <1>2, PTL DEF Spec

(* The loop, a run of the operator beside it, the deaths of both and the   *)
(* outages of the sinks lose no record for nothing: aw-server lacks at     *)
(* most a record for every full disk, death or outage, and the portal's    *)
(* file two more for every time two appends mixed.                         *)
THEOREM LossesArePaid == Spec => []LossesPaid
<1>1. ASSUME TransportInv, LossInv PROVE LossesPaid
  <2>1. Control /\ Data /\ ServerCharged /\ PortalCharged
    BY <1>1 DEF TransportInv, LossInv
  <2>2. /\ Missing \in SUBSET Rec /\ Debt \in 0..2 /\ losses \in Nat /\ Purse \in Nat
    BY <2>1, LossTypes
  <2>3. Lost("telemetry") \subseteq Missing
    BY DEF Lost, Stored, Missing, AtHand
  <2>4. /\ IsFiniteSet(Missing) /\ Cardinality(Missing) \in Nat
        /\ Cardinality(Lost("telemetry")) \in Nat
    BY <2>2, <2>3, RecordSets
  <2>5. Cardinality(Lost("telemetry")) <= Cardinality(Missing)
    BY <2>3, <2>4, FS_Subset
  <2>6. Cardinality(Missing) + Debt <= Purse /\ Cardinality(Lost("worktime")) <= losses
    BY <2>1 DEF PortalCharged, ServerCharged
  <2>7. Cardinality(Lost("telemetry")) <= Purse
    BY <2>2, <2>4, <2>5, <2>6
  <2>8. QED
    BY <2>6, <2>7 DEF LossesPaid, Purse
<1>2. QED
  BY <1>1, LossInvariant, PTL
=============================================================================
