---------------------------- MODULE AgentTransport ----------------------------
(***************************************************************************)
(* The agent awatch-agent-rs: its service loop collects a record, posts it *)
(* to the portal and publishes it to aw-server, and keeps in one of two    *)
(* spool directories what it could not send.  An operator may run the same *)
(* program with --flush-spool next to it.  The portal appends what it gets *)
(* to a file of lines, with a thread for each request.                     *)
(***************************************************************************)
EXTENDS Integers, Sequences, FiniteSets

CONSTANTS
  Records,    (* records of interest; later ones sort behind them          *)
  Sessions,   (* sessions of a record: a heartbeat for each                *)
  Attempts,   (* retry_attempts.max(1)                                     *)
  MaxRuns,    (* bound on the runs of the operator                         *)
  MaxFaults   (* bound on failures, outages and deaths                     *)

ASSUME TransportAssumption ==
  /\ Records \in Nat /\ Sessions \in Nat \ {0} /\ Attempts \in Nat \ {0}
  /\ MaxRuns \in Nat /\ MaxFaults \in Nat

Procs == {"loop", "run"}
Spools == {"telemetry", "worktime"}  \* and the sinks they are for
Rec == 1..Records
Parts(k) == IF k = "telemetry" THEN 1 ELSE Sessions

VARIABLES
  pc, job, todo,     (* of each process; todo: files it has listed         *)
  now, collected,    (* the record of the loop's turn, and how many so far *)
  spool,             (* the files: none, half written, whole               *)
  up,                (* which sinks answer                                 *)
  tail, lines,       (* the portal's file: its unended line, good lines    *)
  got,               (* history: how often a sink took a part of a record  *)
  losses, overlaps,  (* history: deaths and full disks; appends that mix   *)
  runs, faults

process == <<pc, job, todo, now>>
store   == <<tail, lines, got, overlaps>>
limits  == <<runs, faults>>
vars == <<process, collected, spool, up, store, losses, limits>>

Job(k, fresh, r) == [kind |-> k, fresh |-> fresh, rec |-> r, part |-> 1, try |-> 1]
Nothing == Job("telemetry", FALSE, 0)

Init ==
  /\ pc = [p \in Procs |-> "idle"] /\ job = [p \in Procs |-> Nothing]
  /\ todo = [p \in Procs |-> {}] /\ now = 0 /\ collected = 0
  /\ spool = [k \in Spools |-> [r \in Rec |-> "none"]]
  /\ up = [k \in Spools |-> TRUE]
  /\ tail = <<>> /\ lines = {}
  /\ got = [k \in Spools |-> [r \in Rec |-> [i \in 1..Parts(k) |-> 0]]]
  /\ losses = 0 /\ overlaps = 0 /\ runs = 0 /\ faults = 0

Fault == faults < MaxFaults /\ faults' = faults + 1

-----------------------------------------------------------------------------
(* Where a process goes on.                                                *)

Goto(p, label, j) == pc' = [pc EXCEPT ![p] = label] /\ job' = [job EXCEPT ![p] = j]

Stop(p, label) ==
  /\ Goto(p, label, Nothing)
  /\ todo' = [todo EXCEPT ![p] = {}]
  /\ now' = IF p = "loop" THEN 0 ELSE now

Listing(p) == Goto(p, "list", Job("worktime", FALSE, 0)) /\ UNCHANGED <<todo, now>>

\* The loop publishes its record, however the flush ended; the run ends with the first error.
FlushEnds(p, ok) ==
  IF p = "loop" /\ now # 0
  THEN /\ Goto(p, "post", Job("worktime", TRUE, now))
       /\ todo' = [todo EXCEPT ![p] = {}] /\ UNCHANGED now
  ELSE IF p = "run" /\ ok /\ job[p].kind = "telemetry"
       THEN Listing(p)
       ELSE Stop(p, "idle")

\* A new record that is sent or spooled: flush_spool comes next, then the next turn.
RecordDone == IF job["loop"].kind = "telemetry" THEN Listing("loop") ELSE Stop("loop", "idle")

\* Mutant of Answered: a file that was sent stays.
AnsweredKeeps(p) ==
  LET j == job[p] IN
  IF j.part < Parts(j.kind)
  THEN Goto(p, "post", [j EXCEPT !.part = @ + 1, !.try = 1]) /\ UNCHANGED <<todo, now>>
  ELSE IF j.fresh THEN RecordDone
       ELSE Goto(p, "read", Job(j.kind, FALSE, 0)) /\ UNCHANGED <<todo, now>>

\* A part was taken: the next one, or the file it is from is removed.
Answered(p) ==
  LET j == job[p] IN
  IF j.part < Parts(j.kind)
  THEN Goto(p, "post", [j EXCEPT !.part = @ + 1, !.try = 1]) /\ UNCHANGED <<todo, now>>
  ELSE IF j.fresh THEN RecordDone
       ELSE Goto(p, "remove", j) /\ UNCHANGED <<todo, now>>

\* A post that failed is tried again, then the record is spooled or the flush given up.
Failed(p) ==
  LET j == job[p] IN
  IF j.try < Attempts
  THEN Goto(p, "post", [j EXCEPT !.try = @ + 1]) /\ UNCHANGED <<todo, now>>
  ELSE IF j.fresh THEN Goto(p, "spool", j) /\ UNCHANGED <<todo, now>>
       ELSE FlushEnds(p, FALSE)

-----------------------------------------------------------------------------
(* The loop.                                                               *)

\* A turn: collect_all and send_or_spool.
Collect ==
  /\ pc["loop"] = "idle" /\ collected < Records
  /\ collected' = collected + 1 /\ now' = collected'
  /\ Goto("loop", "post", Job("telemetry", TRUE, collected'))
  /\ UNCHANGED <<todo, spool, up, store, losses, limits>>

\* A later turn: of its own record only the flush before it matters.
Turn ==
  /\ pc["loop"] = "idle" /\ collected = Records
  /\ Listing("loop")
  /\ UNCHANGED <<collected, spool, up, store, losses, limits>>

\* fs::write makes the file first and fills it then.
SpoolOpen ==
  /\ pc["loop"] = "spool"
  /\ spool' = [spool EXCEPT ![job["loop"].kind][now] = "half"]
  /\ Goto("loop", "write", job["loop"])
  /\ UNCHANGED <<todo, now, collected, up, store, losses, limits>>

SpoolWrite ==
  /\ pc["loop"] = "write"
  /\ spool' = [spool EXCEPT ![job["loop"].kind][now] = "whole"]
  /\ RecordDone
  /\ UNCHANGED <<collected, up, store, losses, limits>>

\* A disk that is full; the loop goes on.
SpoolFails ==
  /\ Fault
  /\ pc["loop"] \in {"spool", "write"}
  /\ losses' = losses + 1
  /\ RecordDone
  /\ UNCHANGED <<collected, spool, up, store, runs>>

-----------------------------------------------------------------------------
(* flush_spool_dir, in the loop and in the run.                            *)

StartRun ==
  /\ pc["run"] = "idle" /\ runs < MaxRuns
  /\ runs' = runs + 1
  /\ Goto("run", "list", Nothing)
  /\ UNCHANGED <<todo, now, collected, spool, up, store, losses, faults>>

List(p) ==
  /\ pc[p] = "list"
  /\ todo' = [todo EXCEPT ![p] = {r \in Rec : spool[job[p].kind][r] # "none"}]
  /\ Goto(p, "read", job[p])
  /\ UNCHANGED <<now, collected, spool, up, store, losses, limits>>

\* Mutant of First: the entries are not sorted.
Newest(S) == {r \in S : \A s \in S : s <= r}

\* entries.sort(): names begin with the time of the record.
First(S) == {r \in S : \A s \in S : r <= s}

\* Mutant of Read: the file is removed before its record is posted.
ReadTakes(p) ==
  /\ pc[p] = "read"
  /\ LET k == job[p].kind IN
     \/ todo[p] = {} /\ FlushEnds(p, TRUE) /\ UNCHANGED spool
     \/ \E r \in First(todo[p]) :
          IF spool[k][r] = "whole"
          THEN /\ Goto(p, "post", Job(k, FALSE, r))
               /\ todo' = [todo EXCEPT ![p] = @ \ {r}] /\ UNCHANGED now
               /\ spool' = [spool EXCEPT ![k][r] = "none"]
          ELSE FlushEnds(p, FALSE) /\ UNCHANGED spool
  /\ UNCHANGED <<collected, up, store, losses, limits>>

\* A file that is gone or does not parse ends the flush.
Read(p) ==
  /\ pc[p] = "read"
  /\ LET k == job[p].kind IN
     \/ todo[p] = {} /\ FlushEnds(p, TRUE)
     \/ \E r \in First(todo[p]) :
          IF spool[k][r] = "whole"
          THEN /\ Goto(p, "post", Job(k, FALSE, r))
               /\ todo' = [todo EXCEPT ![p] = @ \ {r}] /\ UNCHANGED now
          ELSE FlushEnds(p, FALSE)
  /\ UNCHANGED <<collected, spool, up, store, losses, limits>>

\* The other process may have removed the file already.
Remove(p) ==
  /\ pc[p] = "remove"
  /\ LET k == job[p].kind
         r == job[p].rec IN
     IF spool[k][r] = "none"
     THEN FlushEnds(p, FALSE) /\ UNCHANGED spool
     ELSE /\ spool' = [spool EXCEPT ![k][r] = "none"]
          /\ Goto(p, "read", Job(k, FALSE, 0)) /\ UNCHANGED <<todo, now>>
  /\ UNCHANGED <<collected, up, store, losses, limits>>

\* A directory or file that cannot be read, a file that cannot be removed.
FlushFails(p) ==
  /\ Fault
  /\ pc[p] \in {"list", "read", "remove"}
  /\ FlushEnds(p, FALSE)
  /\ UNCHANGED <<collected, spool, up, store, losses, runs>>

-----------------------------------------------------------------------------
(* The posts.                                                              *)

Took(p) == [got EXCEPT ![job[p].kind][job[p].rec][job[p].part] = @ + 1]

\* The answer arrives or is lost.
Reply(p) == (Answered(p) /\ UNCHANGED faults) \/ (Fault /\ Failed(p))

\* aw-server stores a heartbeat.
Heartbeat(p) ==
  /\ pc[p] = "post" /\ job[p].kind = "worktime" /\ up["worktime"]
  /\ got' = Took(p)
  /\ Reply(p)
  /\ UNCHANGED <<collected, spool, up, tail, lines, overlaps, losses, runs>>

\* The portal appends the text of a line,
Text(p) ==
  /\ pc[p] = "post" /\ job[p].kind = "telemetry" /\ up["telemetry"]
  /\ tail' = Append(tail, job[p].rec) /\ got' = Took(p)
  /\ overlaps' = IF \E q \in Procs : pc[q] = "line" THEN overlaps + 1 ELSE overlaps
  /\ Goto(p, "line", job[p])
  /\ UNCHANGED <<todo, now, collected, spool, up, lines, losses, limits>>

\* and then its end: a line with two texts in it does not parse.
Line(p) ==
  /\ pc[p] = "line" /\ up["telemetry"]
  /\ lines' = IF Len(tail) = 1 THEN lines \cup {Head(tail)} ELSE lines
  /\ tail' = <<>>
  /\ Reply(p)
  /\ UNCHANGED <<collected, spool, up, got, overlaps, losses, runs>>

\* The sink is down, cuts the request off, or refuses a post.
PostFails(p) ==
  /\ \/ pc[p] \in {"post", "line"} /\ ~up[job[p].kind] /\ UNCHANGED faults
     \/ pc[p] = "post" /\ up[job[p].kind] /\ Fault
  /\ Failed(p)
  /\ UNCHANGED <<collected, spool, up, store, losses, runs>>

-----------------------------------------------------------------------------
(* Deaths.  A request the portal is at work on goes on without its client. *)

Kill(p) ==
  /\ Fault
  /\ pc[p] \notin {"line", "down"} /\ (p = "run" => pc[p] # "idle")
  /\ Stop(p, IF p = "loop" THEN "down" ELSE "idle")
  /\ losses' = IF p = "loop" THEN losses + 1 ELSE losses
  /\ UNCHANGED <<collected, spool, up, store, runs>>

Restart ==
  /\ pc["loop"] = "down"
  /\ Stop("loop", "idle")
  /\ UNCHANGED <<collected, spool, up, store, losses, limits>>

\* An outage of the portal may end its threads between the text and the end of a line.
Outage(k) ==
  /\ Fault
  /\ up[k] /\ up' = [up EXCEPT ![k] = FALSE]
  /\ losses' = IF k = "telemetry" THEN losses + 1 ELSE losses
  /\ UNCHANGED <<process, collected, spool, store, runs>>

Recover(k) ==
  /\ ~up[k] /\ (\A p \in Procs : pc[p] # "line")
  /\ up' = [up EXCEPT ![k] = TRUE]
  /\ UNCHANGED <<process, collected, spool, store, losses, limits>>

Step(p) ==
  \/ p = "loop" /\ (Collect \/ Turn \/ SpoolOpen \/ SpoolWrite)
  \/ List(p) \/ Read(p) \/ Remove(p)
  \/ Heartbeat(p) \/ Text(p) \/ Line(p) \/ PostFails(p)

Next ==
  \/ \E p \in Procs : Step(p) \/ FlushFails(p) \/ Kill(p)
  \/ SpoolFails \/ StartRun \/ Restart
  \/ \E k \in Spools : Outage(k) \/ Recover(k)

Spec == Init /\ [][Next]_vars

\* The loop runs, a dead one is started again, outages end; runs are up to the operator.
FairSpec ==
  /\ Spec
  /\ \A p \in Procs : WF_vars(Step(p))
  /\ WF_vars(Restart) /\ \A k \in Spools : WF_vars(Recover(k))

-----------------------------------------------------------------------------
\* The types of the agent and the portal's file.
TypeOK ==
  /\ pc \in [Procs -> {"idle", "down", "post", "line", "spool", "write",
                       "list", "read", "remove"}]
  /\ job \in [Procs -> [kind : Spools, fresh : BOOLEAN, rec : 0..Records,
                        part : 1..Sessions, try : 1..Attempts]]
  /\ todo \in [Procs -> SUBSET Rec] /\ now \in 0..Records /\ collected \in 0..Records
  /\ spool \in [Spools -> [Rec -> {"none", "half", "whole"}]]
  /\ up \in [Spools -> BOOLEAN]
  /\ tail \in Seq(Rec) /\ lines \subseteq Rec
  /\ \A k \in Spools : got[k] \in [Rec -> [1..Parts(k) -> Nat]]
  /\ losses \in Nat /\ overlaps \in Nat /\ runs \in 0..MaxRuns /\ faults \in 0..MaxFaults

Stored(k, r) ==
  IF k = "telemetry" THEN r \in lines ELSE \A i \in 1..Sessions : got[k][r][i] > 0

\* Collected, no more at hand, and neither stored nor waiting in a file.
Lost(k) == {r \in 1..collected : now # r /\ ~Stored(k, r) /\ spool[k][r] # "whole"}

(* docs/AGENT_ARCHITECTURE_RU.md: a record is not lost when the server is  *)
(* away.  A record is lost only by a full disk or a death at the wrong     *)
(* moment, or in the portal by two appends that mix, which lose two.       *)
LossesPaid ==
  /\ Cardinality(Lost("worktime")) <= losses
  /\ Cardinality(Lost("telemetry")) <= losses + 2 * overlaps

(* A part of a record is taken once, and once again at most for every      *)
(* fault and every run of the operator.                                    *)
RepeatsPaid ==
  \A k \in Spools : \A r \in Rec : \A i \in 1..Parts(k) : got[k][r][i] <= 1 + faults + runs

Behind(k, r) == \E s \in 1..(r - 1) : spool[k][s] = "half"

(* docs/WINDOWS_RUST_AGENT_WORKTIME_RU.md: the next turns send what is in  *)
(* the worktime spool.  It empties up to a file that a death left half     *)
(* written: what is behind that one stays.                                 *)
WorktimeDrains == <>[](\A r \in Rec : spool["worktime"][r] = "whole" => Behind("worktime", r))

(* docs/AGENT_ARCHITECTURE_RU.md: what was spooled is sent again once the  *)
(* server is back.                                                         *)
TelemetryResent == <>[](\A r \in Rec : spool["telemetry"][r] = "whole" => Behind("telemetry", r))
=============================================================================
