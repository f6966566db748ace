---------------------------- MODULE CollectorGuard ----------------------------
(***************************************************************************)
(* The collector guard (aw-windows-telemetry, a service of the host) with  *)
(* the file-operations collector of one session.  Each cycle it looks at   *)
(* the processes and the buckets and starts the logon tasks again, within  *)
(* a cooldown and a budget of restarts per window that it keeps in a file. *)
(* Times are ages: how long ago something was, no older than it matters.   *)
(***************************************************************************)
EXTENDS FileOpsQueue

CONSTANTS
  Tasks,        (* ActivityWatch Launch [user], as guard_task_definitions  *)
  Own,          (* the task of the collector's session                     *)
  Window, MaxRestarts, Cooldown, (* restart_window_seconds and so on       *)
  Period        (* loop_seconds                                            *)

ASSUME GuardAssumption ==
  /\ Own \in Tasks
  /\ Window \in Nat /\ MaxRestarts \in Nat \ {0}
  /\ Cooldown \in Nat \ {0} /\ Period \in Nat \ {0}

VARIABLES
  guard, tasks,  (* where the guard is, and the tasks left in its cycle    *)
  wait,          (* the age of the last cycle                              *)
  history, last, (* restartHistory and lastAction: ages                    *)
  saved,         (* collector-guard-rust-runtime.json                      *)
  asked,         (* tasks that schtasks has started and that have not run  *)
  peer,          (* another Rust collector runs in the session             *)
  launches,      (* history: ages of the starts that were saved            *)
  unsaved        (* history: ages of the starts of a cycle not saved yet   *)

runtime == <<history, last>>
guardVars == <<guard, tasks, wait, runtime, saved, asked, peer, launches, unsaved>>
vars == <<queueVars, guardVars>>

None == [t \in Tasks |-> {}]
Rested == [t \in Tasks |-> Cooldown]

Init ==
  /\ QueueInit
  /\ guard = "off" /\ tasks = {} /\ wait = Period
  /\ history = None /\ last = Rested
  /\ saved = [history |-> None, last |-> Rested]
  /\ asked = Tasks /\ peer = FALSE  \* everyone has just logged on
  /\ launches = None /\ unsaved = None

Older(ages, limit) == {a + 1 : a \in {b \in ages : b < limit}}
AllOlder(f) == [t \in Tasks |-> Older(f[t], Window)]
Aged(n, limit) == IF n < limit THEN n + 1 ELSE limit
AllAged(f) == [t \in Tasks |-> Aged(f[t], Cooldown)]

Tick ==
  /\ wait' = Aged(wait, Period)
  /\ history' = AllOlder(history) /\ last' = AllAged(last)
  /\ saved' = [history |-> AllOlder(saved.history), last |-> AllAged(saved.last)]
  /\ launches' = AllOlder(launches) /\ unsaved' = AllOlder(unsaved)
  /\ UNCHANGED <<queueVars, guard, tasks, asked, peer>>

-----------------------------------------------------------------------------
(* The guard.                                                              *)

\* Mutant of Begin: the runtime is not loaded.
BeginFresh ==
  /\ guard = "off"
  /\ guard' = "sleep"
  /\ history' = None /\ last' = Rested
  /\ UNCHANGED <<queueVars, tasks, wait, saved, asked, peer, launches, unsaved>>

\* OnStart of the service, when the host boots or an operator starts it again: nothing
\* watches the guard itself.  GuardLock::acquire refuses while the lock that an ended guard
\* left names a process that lives, and the guard stays off; then GuardRuntime::load.
Begin ==
  /\ guard = "off"
  /\ guard' = "sleep"
  /\ history' = saved.history /\ last' = saved.last
  /\ UNCHANGED <<queueVars, tasks, wait, saved, asked, peer, launches, unsaved>>

\* missing_rust_collector_sessions
Missing == peer /\ pc = "down"

\* Mutant of Cycle: a missing collector is not looked for.
CycleBuckets(stale) ==
  /\ guard = "sleep" /\ wait = Period
  /\ IF stale
     THEN guard' = "tasks" /\ tasks' = Tasks /\ UNCHANGED <<runtime, launches>>
     ELSE /\ guard' = "save" /\ UNCHANGED tasks
          /\ history' = None /\ last' = Rested /\ launches' = None
  /\ wait' = 0
  /\ UNCHANGED <<queueVars, saved, asked, peer, unsaved>>

\* A cycle sees the processes and the buckets; a host in order resets the budgets.
Cycle(stale) ==
  /\ guard = "sleep" /\ wait = Period
  /\ IF stale \/ Missing
     THEN guard' = "tasks" /\ tasks' = Tasks /\ UNCHANGED <<runtime, launches>>
     ELSE /\ guard' = "save" /\ UNCHANGED tasks
          /\ history' = None /\ last' = Rested /\ launches' = None
  /\ wait' = 0
  /\ UNCHANGED <<queueVars, saved, asked, peer, unsaved>>

\* The buckets are stale but PowerShell collectors run: nothing is started or reset.
LegacyCycle ==
  /\ guard = "sleep" /\ wait = Period
  /\ ~Missing
  /\ guard' = "save" /\ wait' = 0
  /\ UNCHANGED <<queueVars, tasks, runtime, saved, asked, peer, launches, unsaved>>

\* action_allowed
Allowed(t) == last[t] = Cooldown /\ Cardinality(history[t]) < MaxRestarts

\* run_scheduled_task, and register_action when it worked.
Launch(t) ==
  /\ guard = "tasks" /\ t \in tasks
  /\ Allowed(t)
  /\ tasks' = tasks \ {t}
  /\ \/ /\ asked' = asked \cup {t}
        /\ history' = [history EXCEPT ![t] = @ \cup {0}]
        /\ last' = [last EXCEPT ![t] = 0]
        /\ unsaved' = [unsaved EXCEPT ![t] = @ \cup {0}]
        /\ UNCHANGED faults
     \/ Fault /\ UNCHANGED <<asked, runtime, unsaved>>
  /\ UNCHANGED <<pc, memory, file, renames, past, guard, wait, saved, peer, launches>>

Block(t) ==
  /\ guard = "tasks" /\ t \in tasks
  /\ ~Allowed(t)
  /\ tasks' = tasks \ {t}
  /\ UNCHANGED <<queueVars, guard, wait, runtime, saved, asked, peer, launches, unsaved>>

\* The cycle is over and its runtime is written: a temporary and a rename.
Save ==
  /\ guard = "save" \/ (guard = "tasks" /\ tasks = {})
  /\ guard' = "sleep"
  /\ saved' = [history |-> history, last |-> last]
  /\ launches' = [t \in Tasks |-> launches[t] \cup unsaved[t]] /\ unsaved' = None
  /\ UNCHANGED <<queueVars, tasks, wait, runtime, asked, peer>>

\* The deployment config cannot be read: the cycle is only logged.
CycleFails ==
  /\ Fault
  /\ guard = "sleep" /\ wait = Period
  /\ wait' = 0
  /\ UNCHANGED <<pc, memory, file, renames, past,
                 guard, tasks, runtime, saved, asked, peer, launches, unsaved>>

\* A kill in any state, or a runtime that cannot be written: what the cycle started and did
\* not save is forgotten.  The service that wraps the guard goes on without it.
GuardEnds ==
  /\ Fault
  /\ guard # "off" /\ guard' = "off"
  /\ unsaved' = None
  /\ tasks' = {} /\ wait' = Period /\ history' = None /\ last' = Rested
  /\ UNCHANGED <<pc, memory, file, renames, past, saved, asked, peer, launches>>

GuardStep ==
  \/ \E stale \in BOOLEAN : Cycle(stale)
  \/ LegacyCycle
  \/ \E t \in Tasks : Launch(t) \/ Block(t)
  \/ Save

-----------------------------------------------------------------------------
(* The host.                                                               *)

\* The script of a task starts what does not run in its session, under a lock.
RunTask(t) ==
  /\ t \in asked /\ asked' = asked \ {t}
  /\ IF t = Own
     THEN /\ peer' = TRUE
          /\ IF pc = "down" THEN Start ELSE UNCHANGED queueVars
     ELSE UNCHANGED <<queueVars, peer>>
  /\ UNCHANGED <<guard, tasks, wait, runtime, saved, launches, unsaved>>

PeerDies ==
  /\ Fault
  /\ peer /\ peer' = FALSE
  /\ UNCHANGED <<pc, memory, file, renames, past,
                 guard, tasks, wait, runtime, saved, asked, launches, unsaved>>

Next ==
  \/ Tick \/ Begin \/ GuardStep \/ CycleFails \/ GuardEnds
  \/ (\E t \in Tasks : RunTask(t)) \/ PeerDies
  \/ QueueNext /\ UNCHANGED guardVars

Spec == Init /\ [][Next]_vars

\* Time passes, every process goes on, tasks that were started run.  No one has to start a
\* guard that ended: the wrapper does not see it end, and its own restart is for itself.
FairSpec ==
  /\ Spec
  /\ WF_vars(Tick) /\ WF_vars(GuardStep)
  /\ \A t \in Tasks : WF_vars(RunTask(t))
  /\ WF_vars(CollectorStep /\ UNCHANGED guardVars)

-----------------------------------------------------------------------------
\* The types of the whole host.
TypeOK ==
  /\ QueueTypeOK
  /\ guard \in {"off", "sleep", "tasks", "save"} /\ tasks \subseteq Tasks
  /\ wait \in 0..Period
  /\ history \in [Tasks -> SUBSET (0..Window)] /\ last \in [Tasks -> 0..Cooldown]
  /\ saved \in [history : [Tasks -> SUBSET (0..Window)], last : [Tasks -> 0..Cooldown]]
  /\ asked \subseteq Tasks /\ peer \in BOOLEAN
  /\ launches \in [Tasks -> SUBSET (0..Window)]
  /\ unsaved \in [Tasks -> SUBSET (0..Window)]

(* docs/windows-deploy-startup-model.md: tasks are started with a cooldown *)
(* and a restart budget.  Without a cycle that finds the host in order, a  *)
(* task is started at most max_restarts times in a window, however often   *)
(* the guard ends and is started again, but for the starts of a cycle that *)
(* was never saved: one of each task for a guard that ends in the middle.  *)
BudgetKept ==
  \A t \in Tasks :
    /\ Cardinality(launches[t] \cup unsaved[t]) <= MaxRestarts
    /\ Cardinality(unsaved[t]) <= 1

(* docs/runbook.md: queued events are sent by themselves once the API is   *)
(* back.  Whatever else fails or dies, once there is a guard that stays,   *)
(* and another collector of the session to give the loss away, the guard   *)
(* brings the collector back and all that was accepted and not spoiled     *)
(* reaches the server.                                                     *)
QueueDrains ==
  <>[](guard # "off") => <>[](peer => \A e \in accepted : got[e] > 0 \/ e \in Lost)
=============================================================================
