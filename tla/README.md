# A verification project for AWatch-rus

AWatch-rus watches computers of an office: agents on the machines collect
activity and DLP signals, servers store them (aw-server buckets, SQLite,
ClickHouse), a portal shows them to operators, and a policy server tells the
agents what to enforce.  This directory holds TLA+ models of the parts in which
order, failure and concurrency decide whether the program is right, the TLC
configurations that check them on small instances, and proofs of the central
properties that TLAPS checks for every instance.  `PROJECT.json` lists, for every
definition that models code, the lines it models.

## 1. The system

Almost every program is a Rust binary of its own under `adk-rust/crates`; they
meet in HTTP APIs, in aw-server buckets and in files.

| Component | State it keeps | Operations | Talks to |
|---|---|---|---|
| Endpoint agent (`awatch-agent`) | `spool/pending/*.json`, `spool/dead-letter/*.json` | enqueue, flush with retries, park | the HTTP ingest of the server |
| Agent with collectors (`awatch-agent-rs`) | two spool directories | send or spool, publish or spool, flush | portal telemetry ingest, aw-server |
| Windows telemetry (`aw-windows-telemetry`) | a queue file per collector; the guard's runtime and lock files | append and flush, health report; guard cycle, start of a task | aw-server, the scheduler, logon scripts |
| DLP policy engine (`dlp-policy-engine`) | SQLite: `policies`, `policy_versions`, `policy_audit`; heartbeats in memory | create, update, submit, approve, activate, rollback, delete, heartbeat, desired | collectors, the bot, the admin CLI |
| Endpoint collector (`windows/dlp-*.ps1`) | policy in memory, cache file | boot, refresh, heartbeat, desired, fallback | the policy engine |
| Portal (`detmir-portal`) | JSON files: reviews, incidents, cases, audit lines; snapshot cache | review, create case, case status, incident action | operators, every other API |
| Case management (`dlp-case-management`) | SQLite: cases, evidence, audit | create with deduplication, status, evidence | webhook clients |
| Forwarders (`dlp-webhook-sender`, `dlp-syslog-forwarder`, `dlp-cef-exporter`) | a cursor file each | one pass per timer tick | incident buckets, hooks, syslog |
| Aggregator (`dlp-aggregator`) | SQLite events, `last_end` | one window per timer tick | file and incident buckets |
| Worktime repair (`worktime-autoheal`, `worktime-ui-bridge`) | buckets of aw-server | delete and repost events | aw-server |
| Operators' tools (`detmir-state`, `detmir-heal-safe`, `detmir-auto`, guardian) | state files, locks, cooldowns | heal, check, restart | systemd, the APIs |
| Maintenance, ingest, monitors, exporters, rollout | files of one run | one pass | everything |

Which behaviours are hard, and what makes a component correct:

* **Agent spool.**  Processes are killed between two file-system calls, power is
  cut, answers get lost after the server took an envelope, two runs read the same
  millisecond.  Correct means: an accepted envelope is delivered at least once or
  parked; nothing parked is sent again; a bad file does not stop the queue.
* **Policy engine.**  One request at a time, one transaction each, so the hazard is
  not interleaving but the *sequence* of legal requests: activate flags, edits of
  the active policy, rollback of a rollback, delete and create.  Correct means: one
  policy in force, tables that agree with each other, approvals that speak of what
  is current, an audit trail that names what is in force.
* **Policy pull.**  The agent's loop interleaves with administrators, timeouts,
  kills, restarts of a server that forgets heartbeats, and with the agents of other
  sessions on its host, which report under the same name and write the same cache
  file.  Correct means: "up to date" is true of the last report when the server says
  so, a running agent never goes back to an older policy, and every agent converges.
* **Portal files.**  A thread per request, load-change-save without a lock, and one
  temporary per file shared by all threads.  Correct means: files stay readable,
  no update is undone by another, the audit explains the state as long as it can be read.
* **Forwarders.**  A cursor, a limited page and a sink that fails.
  Correct means: nothing is skipped silently, nothing is sent twice without reason.
* **Aggregator.**  Runs that overlap, events that come late, pages and failures.
  Correct means: an event that came within the overlap is never left behind.
* **Agent with collectors and telemetry ingest.**  A loop and an operator's run on the
  same files, outages in the middle of a record, files half written, appends of two
  threads to one file.  Correct means: what is lost or repeated has a reason, and what
  is kept back leaves once it can.
* **File-operations collector and collector guard.**  A queue that is appended to and
  rewritten while the process may die, and a guard that may die with what it knows of
  its own starts, and that nobody starts again.  Correct means: no accepted event is lost
  by a death, starts keep to their budget even across the ends of a guard, and while there
  is a guard a collector that died comes back and sends its queue.
* **Case management, autoheal, watchdogs, heal-safe.**  Deduplication windows,
  two writers of one bucket, cooldowns and attempt counters.

`PROJECT.json` lists all components with what is left out, and the hazards at
their lines with the properties that cover them.

## 2. The modules

| Module | What it is |
|---|---|
| `Delivery` | what a spool promises: the abstract specification |
| `AgentSpool` | the spool of `awatch-agent` at the level of file-system calls; implements `Delivery` |
| `AgentSpool_proofs` | its proofs |
| `PolicyEngine` | the policy server, one action per mutating request |
| `PolicyEngine_proofs` | its proofs |
| `PolicySync` | the policy server (`EXTENDS PolicyEngine`) composed with agents that pull from it |
| `PolicySync_proofs` | its proofs, which cite those of `PolicyEngine` |
| `PortalFiles` | reviews, cases and audit file of the portal, one action per file operation of a thread |
| `PortalFiles_proofs` | its proofs |
| `EventForwarder` | webhook sender, syslog forwarder and CEF exporter: pages, cursor, sends |
| `EventForwarder_proofs` | its proofs |
| `Aggregator` | runs of the aggregator over windows of the clock |
| `Aggregator_proofs` | its proofs |
| `FileOpsQueue` | the file-operations collector of a session and its queue file |
| `CollectorGuard` | the collector guard (`EXTENDS FileOpsQueue`) with the collector it starts again |
| `CollectorGuard_proofs` | proofs about both |
| `AgentTransport` | the loop of `awatch-agent-rs`, an operator's flush next to it, and the portal's ingest |
| `AgentTransport_proofs` | its proofs |
| `MC...` | instances for TLC |

A definition that begins with "Mutant of" in its comment is not part of a model: it is a
plausible error in the definition that follows it, and a property is only listed
if such an error breaks it.

### AgentSpool

`pending`, `tmp`, `dead` and `recovered` are the files; a name is the millisecond
stamp `LocalSpool::enqueue` uses, so that `FileName` of two records may be the same.
`enq[r]` is the enqueue run of a record (`EnqueueWrite` and `EnqueueRename` are
`write_json_atomic`).  `pc`, `todo`, `cur`, `item`, `attempt` and `retried` are the
locals of `flush_with_retry` and `process_pending`; every file-system call is an
action: `List`, `Read` (least name first, as the listing is sorted), `SendOk` or
`SendErr`, `RemoveDelivered`, `WriteTmp`, `RenameTmp`, `Bury`, its fallback
`BuryCopy` and `BuryUnlink`, `PassEnd`.  `FlushDies`, `EnqueueDies` and `PowerCut`
may strike between any two of them; an error that leaves through `?` leaves the same
files as a death, so it has no action of its own.  `PowerCut` tears a pending file,
because nothing is fsynced.  `post`, `cut` and `crashes` are history.  A rename into
`dead-letter/` may be refused in `spool_drain` only (`RenameMayFail`), so that run alone takes
`BuryCopy` and `BuryUnlink`.

Left out: two flush runs at a time, the reason file that is written next to a parked
one (nothing reads it), the backoff times, a full disk that stops the agent before
the temporary is written (the run then reports failure), the token and the URL.

### PolicyEngine

`policies` is `row`, `policy_versions` is `doc`, `sqlite_sequence` is `nextId`,
`policy_audit` is abstracted to `audit` (length, policy of the newest row, policy of the
newest row that records a deployment) and `trail` (the ids that occur).  The
server handles requests one by one and each mutation is one transaction, so one
request is one action, and a refused request is a transaction rolled back: no step.
The guards are the conditions of the handlers, including the unique name, the
existence of the version a rollback asks for, and the status a transition wants.
A checksum is the document itself (SHA-256 taken to be injective).  SQLite is the system's
library, as `Cargo.toml` links it, with `foreign_keys` off, so that
`delete_policy` leaves `policy_versions` of its own accord.

### PolicySync

The collector runs once per user session (the launch script in
`ActivityWatch.Windows.Common.psm1:1546` starts it where `:1189` finds none of the session), so a host may have several agents, and `Host` says
which agent runs where.  What they share is indexed by the host: `heard[h]`, what
`AppState.agents` remembers of the last heartbeat, because the agent id is the host's name
(`dlp-endpoint-signals-collector.ps1:1451`), and `cache[h]`, the file `dlp-policy-cache.json` in
the state root (`:1421`, `:1448`).  `teller[h]` and `saver[h]` are history: which agent reported and
which wrote the file last.  `policy[a]` is what an agent enforces, `pc[a]` its place in
the main loop: a full refresh (`Fetch`, `Empty`, `Save`, `Apply`) when the last is
older than `PolicyRefreshSeconds`, which `Tick` may find at any turn, otherwise `Beat` and `Ask`, and a
refresh if the answer says `refreshNow`.  `Set-Content` first empties the file (`Empty`) and then
writes it (`Save`): in between other agents read a file that does not parse or cannot be
opened (`Held`), and of two that write at once the file may keep parts of both (`Torn`).
`Fail` is an exception of any of the calls, `Kill` a kill, which may leave an
empty cache file, `ServerRestart` forgets the heartbeats.  All
actions of `PolicyEngine` interleave with them.  The field `at` of a bundle is
history: the number of mutations when the server built it, which orders bundles
by age.

What the sharing costs is part of the model, and the properties say no more than what is left.
An agent on an old document is told that it is up to date when the agent of another
session has reported the new one between its own heartbeat and its question; it stays on the
old document until its next full refresh.  And a slow fetch of one session replaces the newer
file another has written, so that an agent which starts without the server may
enforce an older policy than its neighbours did: `docs/dlp-security-functional-spec-ru.md:240`,
"Endpoint кэширует последнюю валидную policy локально", holds of the last writer only.

### PortalFiles

A request is served by a thread of its own: `Check` (the review must be CONFIRMED),
`Load...` (whole file, changed in memory), `Open`, `Write`, `Rename` (`save_cases` and
`save_incident_review`), and for a review `AppendBegin` and `AppendEnd` (the audit
line).  `log` is the last status each candidate has in the audit file and `trail` the state of
the file: `"ended"`, `"open"` (the last line is whole but has no newline) or `"broken"` (some line does
not parse).  A kill in the middle of a line leaves half of it or all but the newline (`CutLine`), and the
next review is written onto what is there; `load_incident_review_audit` then refuses the
whole history, and nothing in the portal repairs it.  Files are inodes: `path` and `tmp` are the two names of a file, `fd` is the inode a
thread has open.  That is what makes overlapping saves faithful: a thread that opened
the shared temporary writes to it even after another has renamed it into place.
Requests may overlap: a request that starts while another is at work costs one of the
`MaxFaults` and is counted in `overlaps`, as a kill is in `kills`.  `Serial` says that no
request overlapped, so that one model separates what kills can do from what overlap can do.
Lost updates between overlapping requests are a fact of the code, and the run
`portal_created` shows a documented promise they break.

### EventForwarder

The three programs have one shape and differ in two places, so one module has them all
and `kind` says which one a behaviour is about.  `event` and `top` are the incidents in aw-server;
`cursor` is `last_ids` of the state file; `left`, `high`, `work` and `attempt` are the locals of a run:
the buckets still to read, `max_ids`, the incidents still to send and the failed posts
of the next one.  `Begin` loads the state and lists the buckets; `Fetch` reads the
newest page of one bucket and takes what lies above the cursor; `FetchFails` ends the
run, except that a reply which is no list, and any failure for the syslog forwarder, only leaves
the bucket out, so that the state saved then has no key for it; `BeginBlank` is a list of
buckets that cannot be understood and counts as empty, after which all keys are gone; `Send` and `SendFails` go through the incidents in the order of
ids (`SendFails` may have reached the sink); after `Retries` posts the webhook sender gives an
incident up, the other two end without saving; `Save` writes the cursor.  `Die` may strike
anywhere, and in the write of the state file leaves one that reads as none.
A unit is a oneshot service, so one run at a time has the state file.  What aw-server does (ids that grow,
pages by timestamp) is external, modelled from the query and the sort the code
relies on.  Left out: severity filters, `dry_run`, message formats, backoff times, and
empty hook addresses.  Syslog and CEF have one sink, `0`; a datagram
handed to the network counts as sent, as it does in the code.

### Aggregator

Time is a clock `now`; `stamp[e]` is the timestamp an agent gave an event and `came[e]` when it
reached its bucket.  A run is `Begin` (`load_state`, `get_start_time`, `Utc::now`, `/buckets`),
`Fetch` of one bucket after the other, `Insert` (one transaction) and `Save`; `Fail` ends it anywhere
before.  Cron starts a run every minute whether or not the last one has ended, and nothing locks the state file,
so several runs interleave.  `Page` is what aw-server answers to `start`, `end` and `limit`.
`lastEnd` and `rows` are the state file and the table; `origin` is history.  Left out: `--since` and
`--dry-run`, the columns of a row, and that an event which grew by later heartbeats keeps its first duration.

### FileOpsQueue and CollectorGuard

`queue` is the file of the collector as lines, `ended` whether its last line has an end:
`enqueue_file_ops_item` writes text and newline apart, so `Tear` leaves half a line and the next append makes
one bad line of both (`Appended`).  `pc` and `kind` follow the main loop: an event (`Observe`) is appended
and flushed, then comes the flush of the turn, then a health report when one is due.  `Read`
takes the whole file, `Post` handles one item (posted, over the cap, refused, answer lost), `EndFlush` writes back
what remains; `FlushFails` is every `?` in between.  `Kill` may strike anywhere, and in
`write_file_ops_queue` where a rename is refused (`CutRewrite`).

`CollectorGuard` adds the guard of the host.  `history` and `last` are `restartHistory` and
`lastAction`, `saved` the runtime file.  Times are ages, so that the model needs no clock: `Tick`
makes everything one older.  A `Cycle` either resets the budgets (host in order) or goes
through the tasks: `Launch` where `action_allowed` allows, `Block` otherwise, then `Save`.
`stale` stands for the ages of the buckets, which other sessions and the network decide.
`GuardEnds` is a kill or a runtime that cannot be written.  `Begin` starts a guard with what was saved.
`launches` and `unsaved` are history: the starts whose cycle was saved, and those of the cycle under way,
which a guard that ends takes with it.  The service is a C# wrapper that starts the guard once, in
`OnStart` (`windows/AWatchRusCollectorGuardService.cs:45`), and does not see it end; the restarts that
`install-collector-guard-service.ps1:81` asks of the service manager are for the wrapper.  So a guard that
ended stays down, with the service running, until the host boots or somebody restarts the service, and a lock file that
names a process which lives keeps even that one out (`GuardLock::acquire`): `Begin` may happen and need not.
`RunTask` is the script of a logon task, which starts what does not run.  Left out: shadow mode, the
stopping of duplicate PowerShell collectors, the scheduled task "ActivityWatch Recovery", which starts launch tasks too
and outside this budget, two guards or two collectors at one file, a torn runtime file, and lines cut
inside a character.

### AgentTransport

`pc`, `job`, `todo` are the two processes, `"loop"` (the service) and `"run"` (`--flush-spool`); a `job` is
the record in hand, whether it is `fresh` or from a file, the part and the attempt.  A turn of the loop
is `Collect`, the post to the portal, the flush of the worktime spool, the publication to aw-server, and
`SpoolOpen` and `SpoolWrite` where a post failed.  `Turn` is a turn with a later record, of which only the
flush matters: files are sorted, so it never comes before those of interest.  `List`, `Read` and
`Remove` are `flush_spool_dir`, in either process.  Posts fail for free while a sink is down
(`Outage` costs one fault, and an outage of the portal pays for one loss even when no request was
under way, so that `LossesPaid` is generous there); `Reply` may lose an answer.  The portal's `apply_telemetry_ingest` is two writes,
`Text` and `Line`, because `writeln!` on a file writes the text and the newline apart: `tail` is the unended line,
and a line with two records is no good line.  Left out: records the portal refuses for ever, which
block the telemetry spool as a half file does, a request that the portal finishes after its client timed out,
and who reads the file.

## 3. The runs

| Run | Shows | Bounds |
|---|---|---|
| `spool_safety` | types, `NoSilentLoss`, `ParkedAfterRetries`, `RepostOnlyAfterDeath`, and `KeepsPromise`: the spool implements `Delivery` | 2 envelopes with distinct names, 2 attempts, 2 deaths or power cuts |
| `spool_drain` | `QueueDrains` (liveness), and that an envelope disappears only through `recovered-corrupt.json` | 3 envelopes, two of one millisecond, refused renames, 1 death |
| `spool_collision` | finding: an unsent record is replaced by one of the same millisecond | 2 envelopes |
| `policy_tables` | eight properties of the tables and of the audit trail | 3 ids, 2 names, 2 documents, 4 versions, 6 mutations |
| `sync_pull` | `UpToDateIsSame`, `NeverOlder`, `CacheNotOlder`, and `Converges` (liveness) | 2 agents of one host, 2 policies, 2 mutations, 1 fault |
| `portal_files` | while requests do not overlap, atomic saves, an audit file that only a killed review damages and that is at most one change behind until then; cases from confirmed candidates only, no second active case | 4 requests over 2 candidates, 1 overlap or kill |
| `portal_created` | finding: two overlapping creates make two cases | 3 requests, 1 overlap |
| `forwarders` | `CursorExplained`, `RepeatedPerFault`, `FirstInOrder` and `Forwarded` (liveness) of all three programs | 2 buckets, 3 incidents of 2 times, pages of 2, 2 hooks, 2 attempts, 2 faults |
| `aggregator` | `NothingMissed`, and `EveryEventCounted` (liveness) | 2 events of one bucket, pages of 1, 2 runs at a time, 3 moments, 1 failure |
| `collector_guard` | `AcceptedKept`, `PostedPerFault`, `BudgetKept` across guards that end, and `QueueDrains` (liveness) while a guard stays | 2 events, caps of 1 and 2, 1 task with 1 start in a window of 2 periods, 2 faults |
| `agent_transport` | `LossesPaid`, `RepeatsPaid`, and `WorktimeDrains` (liveness) | 2 records of 2 sessions, 2 attempts, 1 run of the operator, 3 faults |
| `agent_resend` | finding: what is in the telemetry spool is never sent by the loop | 1 record, 1 outage |

Why the bounds are enough.  *Spool*: two envelopes give every order of reads and
every overlap of an enqueue with a flush; two deaths let a second one hit the
recovery from the first; two attempts separate "retried" from "parked"; the third
envelope of `spool_drain` is there because the loss through the one fixed name needs
two parked files, and a collision two more runs.  *Policy engine*: three ids allow a
policy in force, another that displaces it and one created after a deletion; six mutations
suffice for approve, edit, rollback, rollback of a rollback.
*Pull*: agents meet in the report and the cache file of their host, and two agents of one host give every
order of their heartbeats, questions and writes; two policies over two
documents let versions agree while documents differ and the reverse, and two mutations let one agent
hold what another has replaced.  `MCFirst` fixes which name and document the first policy has: names
and documents are only ever compared, so any other behaviour is one of these with names exchanged.  *Portal*: two
threads suffice for each overlap, the third prepares the state (a CONFIRMED review).
*Forwarders*: three incidents
of one bucket push one out of a page of two, and of two buckets give every order of reads and arrivals;
the second fault hits the repetition the first one causes.
*Aggregator*: two events make a page of one overflow, two runs give every order of their reads and saves, and three
moments hold an overlap of one with an event before, in and behind it.  *Collector and guard*: two events let one
be kept beyond a cap and one be glued to a torn line; two faults end a guard twice or a guard and a collector;
one start in a window is the least budget that can be exhausted, and a guard that forgot or did not load what was saved
would exceed it (the mutant `BeginFresh`).  *Agent*: two records give a file and one behind
it; three faults are an outage and two others, such as a death in the spool write and a lost answer.
`spool_drain` uses a VIEW that keeps of the history of posts only whether a record was
received, which is all its properties ask and no action reads.
Deadlock is not checked where bounds stop the model (`CHECK_DEADLOCK FALSE`); it is
checked in the runs of the spool, whose flush run can always start again.

Fairness.  `AgentSpool!FairSpec` has weak fairness of the flush run's steps alone:
somebody keeps running `--flush-spool` (a scheduled task), and a process that is not
killed goes on.  It asks nothing of the server: a post may fail every time.
`PolicySync!FairSyncSpec` has weak fairness of each agent's own steps, its loop being
`while ($true)` with a sleep, and strong fairness of the turn that makes a full refresh: the clock
goes on, so however its turns fall an agent finds its last refresh old again and again.  `Converges` needs
that, since the hint alone may miss an agent whose neighbour reports for it (the mutant
`TickByHint`).  Nothing is assumed of administrators, heartbeats or
restarts, except that the faults of a behaviour are finite, as a fault is bounded by
`MaxFaults`.  `Aggregator!FairSpec` has weak fairness of the clock and of the steps of runs (cron).
`CollectorGuard!FairSpec` has weak fairness of the clock, of a guard that runs (its loop is `loop` with a sleep),
of the collector's own steps and of tasks the scheduler has been asked to run; none of `Begin`,
events, peers and faults.  So `QueueDrains` assumes that from some time on there is a guard, and it speaks of sessions in which another Rust collector lives, since
that is how the guard finds a collector missing.  `AgentTransport!FairSpec` has weak fairness of both processes' steps, of
the restart of the loop and of the end of outages, and none of `StartRun`: nothing in the repository runs
`--flush-spool` by itself.  The restart is an assumption about the installation: the repository ships no unit for this
agent, and without one `WorktimeDrains` speaks of the time after somebody starts the loop again.  `EventForwarder!FairSpec` has weak fairness of the steps of runs (a systemd timer starts one after the
other), none of arrivals and faults.

## 4. The proofs

`AgentSpool_proofs`: `TypeCorrect` holds without hypotheses.  `NeverLost`, `ParkingIsFinal`
and `SpoolKeepsPromise` hold under `SpoolHypothesis`: no two enqueue runs share a
millisecond, and the rename into `dead-letter/` works.  Both are needed: `spool_collision`
and `spool_drain` show what happens otherwise.  `NoSilentLoss` is not inductive: it
says nothing of files whose run is under way.  `SpoolInv` adds that a name holds only
its own record, that the flush run holds in `item` the record of the file it is at, that
a file is removed only after its record was received, and that no name is both pending and
parked.  `SpoolKeepsPromise` uses it to show that each step is a step of `Delivery` or
leaves its variables alone: the rename of an enqueue run accepts, a post receives, the
removal lets go, `Bury` parks, a power cut damages.

Two results about the spool need no hypothesis at all.  `LossOnlyFromRecovered` says through which doors an
envelope can leave the disk unreceived; `FilesInv` relates the file the flush run has in hand, the copy in
`recovered-corrupt.json` and the count of failed posts, and every rename and removal is looked at with it.
`RepostsArePaid` counts (`Acks`): the acknowledgements so far, plus one while the envelope has not been spooled, one while a
flush may still post its file, one while a temporary may still bring it back; an acknowledgement uses up one of them
and only a death or a power cut makes a new one.  `ParkedAreTried` needs distinct names only: with a shared one, two
runs could swap the temporary between the count and the rename (`ParkInv`).

`PolicyEngine_proofs`: all under the module's assumptions on its constants, for any number of
ids, versions and mutations.  `EngineInv` is the type invariant and, for every id, `Good`:
the stored versions are 1 to the current one, the checksum is that of the
current document, `approved` speaks of the current version, ids in use or in the trail are below
the sequence, and an active policy is the one the trail names.  The last makes
`AtMostOneActive` inductive: two active policies would both be `audit.deploy`.
The action properties (`VersionsOnlyGrow`, `StaysDeployed`, `TrailIsOwn`) follow from `EngineInv` step by step.
`KeptGood` shows once that a step which leaves an id alone, or only takes it out of force,
keeps its `Good`, so each action is only proved for the id it is about.

`EventForwarder_proofs`: `RunTypes`, `CursorNeverSilent`, `RepetitionsArePaid` and
`FirstDeliveriesInOrder` hold under the module's assumptions on its constants alone.  `Base` says that what a run holds
agrees with the server: the ids given out are 1 to `top`, and an item in hand belongs to a bucket
already read and lies at or below its new high mark.  `CursorExplained` speaks of saved cursors, so `InHand` says
the same of the marks a run has not saved yet: accounted for, or still in hand.  `RepeatedPerFault` needs to
know that a sink is not sent an incident twice within one run or in two without a fault:
`Past` says when the run will not send it again, and `Paid` that an incident which is not
past has been sent at most once per fault.  `FirstInOrder` rests on `Ordered`: an unsent incident
before one that is sent or in hand is in hand itself, or pushed out, and what is
pushed out never comes back (`PushedOutStays`).

`PortalFiles_proofs`: `FileTypes`, `OnlyConfirmedCases` and `SerialSavesAreAtomic` hold for any requests, candidates
and faults.  `CasesFromConfirmed` is made inductive by what threads have in memory: a create has seen its candidate
confirmed, and what it has loaded, or written to any inode, holds confirmed candidates only.  `SavesAreAtomic` needs
that with no overlap at most one thread is at work, that the inode it writes is not the published one, and that
a temporary is whole when it is renamed.
`AuditFollowsReviews` adds what a change in the file owes to the trail: as long as the audit parses, a review that differs from
its last line has a thread that changed it and is about to write that line, or was killed there (`Traced`); and a file whose
last line is not ended, or does not parse, has a killed review behind it (`Spared`), as only a line under way can be cut and until
one is every line begins on an ended one.  `CreatesFirst` is an action
property of the same invariant: a create that publishes a new case has loaded what is published, and saw no active case in it.

`Aggregator_proofs`: `NothingMissed` speaks of the saved end, so the invariant says the same of the end of every
run that has inserted and will save, and, of a run that still reads, that what its window holds and came in time is
in hand or in a bucket still to read.  It rests on the clock: an event that arrives now and is timely lies no further back than
the overlap, and every end in hand is at most `now`.

`CollectorGuard_proofs`: `RestartsAreBounded` holds for any tasks, window, cooldown and budget, across any number of guards.  `Ledger`
says that a running guard has every start in its history, that the runtime file has every start that was saved, that both
histories are within the budget, and that a cycle not yet saved has started a task once at most.  So what `Begin`
loads is as good as what the last guard knew, but for the starts of its last cycle; `BudgetKept` leaves out these and nothing else.
Ages move together, so time keeps the inclusions and no history grows with it.

The same module proves the two promises of the queue, stated in `FileOpsQueue`, of the collector as the guard starts
it again.  `OnePostPerFault`: the file is rewritten only when a flush ends, so an event that was posted is
still in it; `Flow` says that no list holds an event twice and that an event which this flush or the next may still
post (`May`) has one answer less than its faults allow.  `AcceptedAreKept`, where the file can be renamed over: `Whole` says that a line left half written is of
no accepted event (`Half`), that what a flush has read is in hand, kept or posted (`Sent`), and that what is lost and a torn line that a running collector
will still append to are together paid for by appends that failed (`Charged`).  A death leaves a torn line for nothing, which is
why it matters that a new process spends its own report on it.

`PolicySync_proofs`: `CacheIsCurrent`, `PolicyNeverOlder` and `UpToDateIsTrue` hold for any number of agents on any hosts, policies and faults,
from the assumptions of `PolicyEngine` and `SyncAssumption` (a torn file and the local rules are no bundles).  The invariant says
of every bundle that an agent enforces or has in hand, or that a host has in its report or its cache (`HostInv`), that it is not of the
future and that its checksum is that of its document; and of an agent (`AgentInv`) that what it is about to apply is
not older than its policy, and, as long as it is the last of its host to report or to save (`teller`, `saver`), that the report is its
policy and the cache file not older.  `UpToDateIsTrue` is where the two ends meet: the server compares a version number and a checksum,
so it needs that the tables agree and that one policy is in force (`EngineInv` of `PolicyEngine_proofs`, cited by name).
`AgentsChangeNoPolicy` shows that the composed system implements `PolicyEngine`: the agents only read it, so all that is proved of the engine
alone holds with agents around it (`AgentsSeeOnePolicy` is one instance).

`AgentTransport_proofs`: `RepeatsArePaid` says that a part is taken once and once again at most per fault and per run of
the operator.  What was taken is not inductive by itself, because a part that was not taken yet may still be taken by either process.
So `Paid` adds to the count one for each process that may yet post the part without another fault (`LoopMay`, `RunMay`): a post turns
a permission into a count, only a fault or the start of a run creates a permission, and a fault creates at most one.  `Known` makes that true:
a record that was never spooled has no file, and no flush has heard of it.  An outage is why the loop's permission
speaks of `up`: a request cut off in the middle of a line has been paid for by the outage, not by its failure.

`LossesArePaid` is two accounts.  For aw-server: a file is removed, and a turn ends, only after every part was taken
(`Taken`), so a record is missing only when a death or a full disk ended its turn.  The portal may answer for a record whose line was
spoilt, at a moment when nothing has been lost yet; so the account of the portal adds what its file may still cost (`Debt`): one while the portal is down or
a text is left without its end, two while two requests are between their text and its end.  The outage pays the first in advance, the overlap
the second, and an answer for a spoilt line turns debt into loss.  A file that a run is about to remove counts as gone (`Doomed`), and
`Wrote` says that nobody sends a file while it is written.

Every safety invariant and every action property of the passing runs is stated by a theorem.  Only model-checked: liveness
(`QueueDrains`, `Converges`, `Forwarded`, `EveryEventCounted`, `WorktimeDrains`), which is out of this prover's reach,
as is everything about `ENABLED`; and what the three runs with an expected violation show, where a counterexample is the result.
The theorems about `PortalFiles` that hold while requests do not overlap claim nothing of requests that do: there a review can be lost and
`portal_created` makes two cases.  `AcceptedKept` speaks of hosts where the queue can be renamed over; a copy cut off by a death is not covered.

## 5. What is not modelled, and why

* Pure input and output, reports and pages: HTML, Grafana, PDF, ssh, tar, systemd units.
* Stateless probes and exporters: one pass, nothing kept.
* Document contents: the rules of a policy, telemetry records, KPI arithmetic.
* Win32 collection and everything that depends on the operating system's event sources.
* Planned and not begun: see below.

## 6. Plan

In this order; the first eight are done.

1. `Delivery`, `AgentSpool`, `AgentSpool_proofs` - the promise the agents make.
2. `PolicyEngine`, `PolicyEngine_proofs` - what is in force.
3. `PolicySync`, `PolicySync_proofs` - the two ends of the pull together.
4. `PortalFiles`, `PortalFiles_proofs` - the files of the portal.
5. `EventForwarder`, `EventForwarder_proofs` - the cursor of webhook, syslog and CEF over limited pages.
6. `Aggregator`, `Aggregator_proofs` - overlapping windows and late events.
7. `FileOpsQueue`, `CollectorGuard`, `CollectorGuard_proofs` - the Windows host.
8. `AgentTransport`, `AgentTransport_proofs` - two spools, one flush that stops at the first error, the portal's ingest.
9. `CaseManagement` - create with deduplication window, status, evidence, audit; composed with the
   webhook sender, whose duplicates it must absorb.
10. `WorktimeBuckets` - autoheal and the bridge on the same bucket.
11. `HealSafe`, `Watchdog` - lock, cooldown, attempts and restart counters.
12. Two flush runs in `AgentSpool`; two guards in `CollectorGuard`; the guardian bot as a client of `PolicyEngine`
    that holds a stale answer.
