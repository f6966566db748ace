----------------------------- MODULE FileOpsQueue -----------------------------
(***************************************************************************)
(* The file-operations collector of one session (aw-windows-telemetry): it *)
(* appends every event to a queue file, then reads the whole file, posts   *)
(* it line by line and writes back what was not posted.  The file outlives *)
(* the process, which may be killed at any step.                           *)
(***************************************************************************)
EXTENDS Integers, Sequences, FiniteSets

CONSTANTS
  Events,    (* file operations, each with a payload of its own            *)
  Health,    (* a line of the collector about itself                       *)
  Bad,       (* a line that is no JSON                                     *)
  Cap,       (* successful posts a flush makes at most: 20, 50, 100        *)
  MaxFaults  (* bound on failures and deaths                               *)

Flush == {"event", "health", "turn"}

ASSUME QueueAssumption ==
  /\ IsFiniteSet(Events) /\ Health \notin Events /\ Bad \notin Events /\ Bad # Health
  /\ Cap \in [Flush -> Nat \ {0}]
  /\ MaxFaults \in Nat

VARIABLES
  pc, kind,               (* where the collector is, and in which flush    *)
  todo, remaining, sent,  (* the flush: items to post, to keep, posted     *)
  queue, ended,           (* the file's lines; does the last one end in \n *)
  renames,                (* whether the file can be renamed over          *)
  accepted,               (* history: events whose append returned Ok      *)
  got,                    (* history: how often the server took an event   *)
  spoiled,                (* history: appends that failed halfway          *)
  faults

memory == <<kind, todo, remaining, sent>>
file   == <<queue, ended>>
past   == <<accepted, got, spoiled>>
queueVars == <<pc, memory, file, renames, past, faults>>

Line == Events \cup {Health, Bad}
Lines(s) == {s[i] : i \in DOMAIN s}

QueueInit ==
  /\ pc = "down" /\ kind = "turn"
  /\ todo = <<>> /\ remaining = <<>> /\ sent = 0
  /\ queue = <<>> /\ ended = TRUE /\ renames \in BOOLEAN
  /\ accepted = {} /\ got = [e \in Events |-> 0] /\ spoiled = 0
  /\ faults = 0

Fault == faults < MaxFaults /\ faults' = faults + 1

-----------------------------------------------------------------------------
(* The queue file.                                                         *)

\* Text appended to a line that was never ended makes one line that does not parse.
Appended(x) == IF ended THEN Append(queue, x) ELSE [queue EXCEPT ![Len(queue)] = Bad]

\* enqueue_file_ops_item
Enqueue(x) == queue' = Appended(x) /\ ended' = TRUE

\* An append that stops halfway: in the text, or before the end of the line.
Tear(x) == queue' \in {Appended(Bad), Appended(x)} /\ ended' = FALSE

\* Mutant of Rewrite: nothing is written when nothing is left.
RewriteSome ==
  IF remaining = <<>> THEN UNCHANGED <<queue, ended>> ELSE queue' = remaining /\ ended' = TRUE

\* write_file_ops_queue: a temporary renamed over the queue.
Rewrite == queue' = remaining /\ ended' = TRUE

\* Copied over the queue when it cannot be renamed: a death leaves some of it.
CutRewrite ==
  /\ ~renames
  /\ \E n \in 0..Len(remaining) : queue' = SubSeq(remaining, 1, n)
  /\ ended' = TRUE

-----------------------------------------------------------------------------
(* The collector.                                                          *)

\* The flush after an event is followed by the one of the turn, that by a health report
\* when one is due.
AfterFlush ==
  /\ \/ kind = "event" /\ pc' = "read" /\ kind' = "turn"
     \/ kind = "turn" /\ pc' \in {"idle", "health"} /\ kind' = "turn"
     \/ kind = "health" /\ pc' = "idle" /\ kind' = "turn"
  /\ todo' = <<>> /\ remaining' = <<>> /\ sent' = 0

\* Mutant of Start: no report before the first event.
StartIdle ==
  /\ pc = "down"
  /\ pc' = "idle"
  /\ UNCHANGED <<memory, file, renames, past, faults>>

\* A new process reports its health before it watches.
Start ==
  /\ pc = "down"
  /\ pc' = "health"
  /\ UNCHANGED <<memory, file, renames, past, faults>>

Fresh == {e \in Events : e \notin accepted \cup Lines(queue) /\ got[e] = 0}

\* send_file_operation_event
Observe(e) ==
  /\ pc = "idle" /\ e \in Fresh
  /\ Enqueue(e)
  /\ accepted' = accepted \cup {e}
  /\ pc' = "read" /\ kind' = "event"
  /\ UNCHANGED <<todo, remaining, sent, renames, got, spoiled, faults>>

\* send_file_ops_health
Report ==
  /\ pc = "health"
  /\ Enqueue(Health)
  /\ pc' = "read" /\ kind' = "health"
  /\ UNCHANGED <<todo, remaining, sent, renames, past, faults>>

\* A disk that fills up: the event or the report is given up, the process goes on.
AppendFails ==
  /\ Fault
  /\ \/ /\ pc = "idle" /\ pc' = "read" /\ kind' = "turn"
        /\ \E e \in Fresh : Tear(e)
     \/ pc = "health" /\ pc' = "idle" /\ kind' = "turn" /\ Tear(Health)
  /\ spoiled' = spoiled + 1
  /\ UNCHANGED <<todo, remaining, sent, renames, accepted, got>>

\* No event for poll_seconds.
Poll ==
  /\ pc = "idle"
  /\ pc' = "read" /\ kind' = "turn"
  /\ UNCHANGED <<todo, remaining, sent, file, renames, past, faults>>

\* read_file_ops_queue; a file without a good line is left as it is.
Read ==
  /\ pc = "read"
  /\ IF Lines(queue) \subseteq {Bad}
     THEN AfterFlush
     ELSE /\ pc' = "send" /\ kind' = kind
          /\ todo' = queue /\ remaining' = <<>> /\ sent' = 0
  /\ UNCHANGED <<file, renames, past, faults>>

\* ensure_aw_bucket fails, a line of the log or the temporary cannot be written.
FlushFails ==
  /\ Fault
  /\ pc \in {"read", "send"}
  /\ AfterFlush
  /\ UNCHANGED <<file, renames, past>>

Took(e) == IF e \in Events THEN [got EXCEPT ![e] = @ + 1] ELSE got

\* Mutant of Keep: lines that do not parse are written back.
KeepAll(x) == Append(remaining, x)

\* An item that is not posted stays; a line that does not parse does not.
Keep(x) == IF x = Bad THEN remaining ELSE Append(remaining, x)

\* One item of the flush: posted, kept beyond the cap, refused, or posted without an answer.
Post ==
  /\ pc = "send" /\ todo # <<>>
  /\ LET x == Head(todo) IN
     \/ /\ x # Bad /\ sent < Cap[kind]
        /\ sent' = sent + 1 /\ got' = Took(x) /\ UNCHANGED <<remaining, faults>>
     \/ /\ x = Bad \/ sent >= Cap[kind]
        /\ remaining' = Keep(x) /\ UNCHANGED <<sent, got, faults>>
     \/ /\ x # Bad /\ sent < Cap[kind] /\ Fault
        /\ remaining' = Keep(x) /\ got' \in {got, Took(x)} /\ UNCHANGED sent
  /\ todo' = Tail(todo)
  /\ UNCHANGED <<pc, kind, file, renames, accepted, spoiled>>

EndFlush ==
  /\ pc = "send" /\ todo = <<>>
  /\ Rewrite
  /\ AfterFlush
  /\ UNCHANGED <<renames, past, faults>>

\* The process is stopped; what it was writing may be half done.
Kill ==
  /\ Fault
  /\ pc # "down" /\ pc' = "down"
  /\ kind' = "turn" /\ todo' = <<>> /\ remaining' = <<>> /\ sent' = 0
  /\ \/ UNCHANGED file
     \/ /\ pc = "idle"
        /\ \E e \in Fresh : Tear(e)
     \/ pc = "health" /\ Tear(Health)
     \/ pc = "send" /\ todo = <<>> /\ CutRewrite
  /\ UNCHANGED <<renames, past>>

CollectorStep == Report \/ Poll \/ Read \/ Post \/ EndFlush
QueueNext == CollectorStep \/ AppendFails \/ FlushFails \/ Kill \/ \E e \in Events : Observe(e)

-----------------------------------------------------------------------------
\* The types of the collector; an unended line needs a line.
QueueTypeOK ==
  /\ pc \in {"down", "idle", "health", "read", "send"}
  /\ kind \in Flush
  /\ todo \in Seq(Line) /\ remaining \in Seq(Line \ {Bad}) /\ sent \in Nat
  /\ queue \in Seq(Line) /\ ended \in BOOLEAN /\ renames \in BOOLEAN
  /\ ~ended => queue # <<>>
  /\ accepted \subseteq Events /\ got \in [Events -> Nat] /\ spoiled \in Nat
  /\ faults \in 0..MaxFaults

Lost == {e \in accepted : got[e] = 0 /\ e \notin Lines(queue)}

(* docs/runbook.md: events are not lost but buffered.  Deaths lose no event*)
(* that was accepted, since a new process spends its own report on a line  *)
(* left half written; an append that fails loses the one behind it at most.*)
AcceptedKept == renames => Cardinality(Lost) <= spoiled

(* An event is posted once, and once again at most for every fault.        *)
PostedPerFault == \A e \in Events : got[e] <= 1 + faults
=============================================================================
