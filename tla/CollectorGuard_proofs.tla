------------------------ MODULE CollectorGuard_proofs ------------------------
(***************************************************************************)
(* Proofs about the guard and the queue of the file-operations collector,  *)
(* for any events, caps, tasks, windows, budgets and number of faults: the *)
(* types; a task is started within its budget; an event is posted again    *)
(* only after a fault; and an accepted event is lost only to an append     *)
(* that failed halfway.  The last two are stated in FileOpsQueue and hold  *)
(* of it as the guard starts it again.                                     *)
(***************************************************************************)
EXTENDS CollectorGuard, FiniteSetTheorems, TLAPS

-----------------------------------------------------------------------------
(* What a step of the host is to the queue.                                *)

\* A step of the guard or of the host leaves the queue alone, but may be a fault.
Aside == UNCHANGED <<pc, memory, file, renames, past>> /\ (faults' = faults \/ Fault)

LEMMA QueueSteps == [Next]_vars => Aside \/ Start \/ QueueNext
<1> SUFFICES ASSUME [Next]_vars PROVE Aside \/ Start \/ QueueNext
  OBVIOUS
<1>1. CASE UNCHANGED vars
  BY <1>1 DEF vars, queueVars, Aside
<1>2. CASE Tick \/ Begin
  BY <1>2 DEF Tick, Begin, queueVars, Aside
<1>3. CASE GuardStep
  BY <1>3 DEF GuardStep, Cycle, LegacyCycle, Launch, Block, Save, queueVars, Aside
<1>4. CASE CycleFails \/ GuardEnds \/ PeerDies
  BY <1>4 DEF CycleFails, GuardEnds, PeerDies, Aside
<1>5. CASE \E t \in Tasks : RunTask(t)
  BY <1>5 DEF RunTask, queueVars, Aside
<1> QED BY <1>1, <1>2, <1>3, <1>4, <1>5 DEF Next

-----------------------------------------------------------------------------
(* Types.                                                                  *)

LEMMA AppendedType ==
  ASSUME QueueTypeOK, NEW x \in Line
  PROVE  /\ Appended(x) \in Seq(Line) /\ Appended(x) # <<>>
         /\ Len(Appended(x)) = IF ended THEN Len(queue) + 1 ELSE Len(queue)
<1>1. CASE ended
  BY <1>1 DEF QueueTypeOK, Appended
<1>2. CASE ~ended
  <2>1. Bad \in Line /\ Len(queue) \in 1..Len(queue)
    BY <1>2 DEF QueueTypeOK, Line
  <2> QED BY <1>2, <2>1 DEF QueueTypeOK, Appended
<1> QED BY <1>1, <1>2

LEMMA AfterFlushType ==
  ASSUME AfterFlush
  PROVE  /\ pc' \in {"idle", "health", "read"} /\ kind' \in Flush
         /\ todo' \in Seq(Line) /\ remaining' \in Seq(Line \ {Bad}) /\ sent' \in Nat
BY DEF AfterFlush, Flush

LEMMA TearType ==
  ASSUME QueueTypeOK, NEW x \in Line, Tear(x)
  PROVE  queue' \in Seq(Line) /\ queue' # <<>> /\ ended' = FALSE
<1>1. Bad \in Line
  BY DEF Line
<1> QED BY <1>1, AppendedType DEF Tear

LEMMA NextQueueTypes == QueueTypeOK /\ [Next]_vars => QueueTypeOK'
<1> SUFFICES ASSUME QueueTypeOK, [Next]_vars PROVE QueueTypeOK'
  OBVIOUS
<1> USE QueueAssumption
<1>1. Health \in Line /\ Events \subseteq Line
  BY DEF Line
<1>2. CASE Aside
  BY <1>2 DEF Aside, Fault, memory, file, past, QueueTypeOK
<1>3. CASE Start
  BY <1>3 DEF Start, memory, file, past, QueueTypeOK
<1>4. CASE Report
  <2>1. queue' \in Seq(Line) /\ ended' = TRUE
    BY <1>1, <1>4, AppendedType DEF Report, Enqueue
  <2> QED BY <1>4, <2>1 DEF Report, past, QueueTypeOK, Flush
<1>5. CASE Poll
  BY <1>5 DEF Poll, file, past, QueueTypeOK, Flush
<1>6. CASE Read
  <2>1. CASE Lines(queue) \subseteq {Bad}
    BY <1>6, <2>1, AfterFlushType DEF Read, file, past, QueueTypeOK
  <2>2. CASE ~(Lines(queue) \subseteq {Bad})
    BY <1>6, <2>2 DEF Read, file, past, QueueTypeOK
  <2> QED BY <2>1, <2>2
<1>7. CASE Post
  <2> DEFINE x == Head(todo)
  <2>1. x \in Line /\ todo' \in Seq(Line)
    BY <1>7 DEF Post, QueueTypeOK
  <2>2. UNCHANGED <<pc, kind, file, renames, accepted, spoiled>>
    BY <1>7 DEF Post
  <2>3. x # Bad => Keep(x) \in Seq(Line \ {Bad})
    BY <2>1 DEF Keep, QueueTypeOK
  <2>4. Keep(Bad) \in Seq(Line \ {Bad})
    BY DEF Keep, QueueTypeOK
  <2>5. Took(x) \in [Events -> Nat]
    BY DEF Took, QueueTypeOK
  <2>6. /\ remaining' \in {remaining, Keep(x)} /\ sent' \in {sent, sent + 1}
        /\ got' \in {got, Took(x)} /\ (faults' = faults \/ Fault)
    BY <1>7 DEF Post
  <2>7. remaining' \in Seq(Line \ {Bad})
    BY <2>3, <2>4, <2>6 DEF QueueTypeOK
  <2> HIDE DEF x
  <2> QED BY <2>1, <2>2, <2>5, <2>6, <2>7 DEF file, QueueTypeOK, Fault
<1>8. CASE EndFlush
  <2>1. queue' \in Seq(Line) /\ ended' = TRUE
    BY <1>8 DEF EndFlush, Rewrite, QueueTypeOK
  <2> QED BY <1>8, <2>1, AfterFlushType DEF EndFlush, past, QueueTypeOK
<1>9. CASE AppendFails
  <2>1. \E x \in Line : Tear(x)
    BY <1>1, <1>9 DEF AppendFails, Fresh
  <2>2. queue' \in Seq(Line) /\ queue' # <<>> /\ ended' = FALSE
    BY <2>1, TearType
  <2>3. pc' \in {"read", "idle"} /\ kind' = "turn"
    BY <1>9 DEF AppendFails
  <2>4. spoiled' = spoiled + 1 /\ Fault /\ UNCHANGED <<todo, remaining, sent, renames, accepted, got>>
    BY <1>9 DEF AppendFails
  <2>5. faults' \in 0..MaxFaults /\ spoiled' \in Nat
    BY <2>4 DEF Fault, QueueTypeOK
  <2>6. pc' \in {"down", "idle", "health", "read", "send"} /\ kind' \in Flush
    BY <2>3 DEF Flush
  <2> QED BY <2>2, <2>4, <2>5, <2>6 DEF QueueTypeOK
<1>10. CASE FlushFails
  BY <1>10, AfterFlushType DEF FlushFails, Fault, file, past, QueueTypeOK
<1>11. CASE Kill
  <2>1. \/ UNCHANGED file
        \/ \E x \in Line : Tear(x)
        \/ CutRewrite
    BY <1>1, <1>11 DEF Kill, Fresh
  <2>2. queue' \in Seq(Line) /\ ended' \in BOOLEAN /\ (~ended' => queue' # <<>>)
    <3>1. CASE UNCHANGED file
      BY <3>1 DEF file, QueueTypeOK
    <3>2. CASE \E x \in Line : Tear(x)
      BY <3>2, TearType
    <3>3. CASE CutRewrite
      BY <3>3 DEF CutRewrite, QueueTypeOK
    <3> QED BY <2>1, <3>1, <3>2, <3>3
  <2> QED BY <1>11, <2>2 DEF Kill, Fault, past, QueueTypeOK, Flush
<1>12. ASSUME NEW e \in Events, Observe(e) PROVE QueueTypeOK'
  <2>1. queue' \in Seq(Line) /\ ended' = TRUE
    BY <1>1, <1>12, AppendedType DEF Observe, Enqueue
  <2> QED BY <1>12, <2>1 DEF Observe, QueueTypeOK, Flush
<1> QED BY <1>2, <1>3, <1>4, <1>5, <1>6, <1>7, <1>8, <1>9, <1>10, <1>11, <1>12, QueueSteps
        DEF QueueNext, CollectorStep

GuardTypeOK ==
  /\ guard \in {"off", "sleep", "tasks", "save"} /\ tasks \subseteq Tasks
  /\ wait \in 0..Period
  /\ history \in [Tasks -> SUBSET (0..Window)] /\ last \in [Tasks -> 0..Cooldown]
  /\ saved \in [history : [Tasks -> SUBSET (0..Window)], last : [Tasks -> 0..Cooldown]]
  /\ asked \subseteq Tasks /\ peer \in BOOLEAN
  /\ launches \in [Tasks -> SUBSET (0..Window)]
  /\ unsaved \in [Tasks -> SUBSET (0..Window)]

LEMMA OlderType ==
  ASSUME NEW S \in SUBSET (0..Window)
  PROVE  Older(S, Window) \in SUBSET (0..Window)
BY GuardAssumption DEF Older

LEMMA NextGuardTypes == GuardTypeOK /\ [Next]_vars => GuardTypeOK'
<1> SUFFICES ASSUME GuardTypeOK, [Next]_vars PROVE GuardTypeOK'
  OBVIOUS
<1> USE GuardAssumption
<1>0. None \in [Tasks -> SUBSET (0..Window)] /\ Rested \in [Tasks -> 0..Cooldown]
  BY DEF None, Rested
<1>1. CASE UNCHANGED guardVars
  BY <1>1 DEF guardVars, runtime, GuardTypeOK
<1>2. CASE Tick
  <2>1. ASSUME NEW f \in [Tasks -> SUBSET (0..Window)]
        PROVE  AllOlder(f) \in [Tasks -> SUBSET (0..Window)]
    BY OlderType DEF AllOlder
  <2>2. ASSUME NEW f \in [Tasks -> 0..Cooldown] PROVE AllAged(f) \in [Tasks -> 0..Cooldown]
    BY DEF AllAged, Aged
  <2>3. wait' \in 0..Period
    BY <1>2 DEF Tick, Aged, GuardTypeOK
  <2> QED BY <1>2, <2>1, <2>2, <2>3 DEF Tick, GuardTypeOK
<1>3. CASE Begin
  BY <1>3 DEF Begin, GuardTypeOK
<1>4. ASSUME NEW stale \in BOOLEAN, Cycle(stale) PROVE GuardTypeOK'
  <2>1. history' \in {history, None} /\ last' \in {last, Rested} /\ launches' \in {launches, None}
        /\ guard' \in {"tasks", "save"} /\ tasks' \in {tasks, Tasks}
    BY <1>4 DEF Cycle, runtime
  <2> QED BY <1>0, <1>4, <2>1 DEF Cycle, GuardTypeOK
<1>5. CASE LegacyCycle
  BY <1>5 DEF LegacyCycle, runtime, GuardTypeOK
<1>6. ASSUME NEW t \in Tasks, Launch(t) PROVE GuardTypeOK'
  <2>1. \/ UNCHANGED <<asked, runtime, unsaved>>
        \/ /\ asked' = asked \cup {t}
           /\ history' = [history EXCEPT ![t] = @ \cup {0}]
           /\ last' = [last EXCEPT ![t] = 0]
           /\ unsaved' = [unsaved EXCEPT ![t] = @ \cup {0}]
    BY <1>6 DEF Launch
  <2>2. tasks' = tasks \ {t} /\ UNCHANGED <<guard, wait, saved, peer, launches>>
    BY <1>6 DEF Launch
  <2> QED BY <2>1, <2>2 DEF runtime, GuardTypeOK
<1>7. ASSUME NEW t \in Tasks, Block(t) PROVE GuardTypeOK'
  BY <1>7 DEF Block, runtime, GuardTypeOK
<1>8. CASE Save
  BY <1>0, <1>8 DEF Save, runtime, GuardTypeOK
<1>9. CASE CycleFails
  BY <1>9 DEF CycleFails, runtime, GuardTypeOK
<1>10. CASE GuardEnds
  BY <1>0, <1>10 DEF GuardEnds, GuardTypeOK
<1>11. ASSUME NEW t \in Tasks, RunTask(t) PROVE GuardTypeOK'
  BY <1>11 DEF RunTask, runtime, GuardTypeOK
<1>12. CASE PeerDies
  BY <1>12 DEF PeerDies, runtime, GuardTypeOK
<1> QED BY <1>1, <1>2, <1>3, <1>4, <1>5, <1>6, <1>7, <1>8, <1>9, <1>10, <1>11, <1>12
        DEF Next, GuardStep, vars

LEMMA InitTypes == Init => QueueTypeOK /\ GuardTypeOK
<1> SUFFICES ASSUME Init PROVE QueueTypeOK /\ GuardTypeOK
  OBVIOUS
<1>1. QueueTypeOK
  BY QueueAssumption DEF Init, QueueInit, QueueTypeOK, Flush, Line
<1>2. None \in [Tasks -> SUBSET (0..Window)] /\ Rested \in [Tasks -> 0..Cooldown]
  BY GuardAssumption DEF None, Rested
<1>3. saved \in [history : [Tasks -> SUBSET (0..Window)], last : [Tasks -> 0..Cooldown]]
  BY <1>2 DEF Init
<1>4. wait \in 0..Period
  BY GuardAssumption DEF Init
<1>5. GuardTypeOK
  BY <1>2, <1>3, <1>4 DEF Init, GuardTypeOK
<1> QED BY <1>1, <1>5

\* The types of the collector, its queue and the guard (TypeOK).
THEOREM HostTypes == Spec => []TypeOK
<1>1. Init => QueueTypeOK /\ GuardTypeOK
  BY InitTypes
<1>2. QueueTypeOK /\ GuardTypeOK /\ [Next]_vars => (QueueTypeOK /\ GuardTypeOK)'
  BY NextQueueTypes, NextGuardTypes
<1>3. QueueTypeOK /\ GuardTypeOK => TypeOK
  BY DEF TypeOK, GuardTypeOK
<1> QED BY <1>1, <1>2, <1>3, PTL DEF Spec

-----------------------------------------------------------------------------
(* The budget: the guard's memory has every start, the file every start    *)
(* that was saved, and a cycle that is not over at most one of each task.  *)

Ledger ==
  \A t \in Tasks :
    /\ Cardinality(history[t]) <= MaxRestarts
    /\ Cardinality(saved.history[t]) <= MaxRestarts
    /\ guard # "off" => launches[t] \cup unsaved[t] \subseteq history[t]
    /\ launches[t] \subseteq saved.history[t]
    /\ Cardinality(unsaved[t]) <= 1
    /\ guard # "tasks" \/ t \in tasks => unsaved[t] = {}

LEMMA AgesFinite ==
  ASSUME NEW S \in SUBSET (0..Window)
  PROVE  IsFiniteSet(S) /\ Cardinality(S) \in Nat
<1>1. IsFiniteSet(0..Window)
  BY FS_Interval, GuardAssumption
<1> QED BY <1>1, FS_Subset, FS_CardinalityType

\* As time passes starts leave the window and none comes in.
LEMMA OlderNoMore ==
  ASSUME NEW S \in SUBSET (0..Window), NEW n \in Nat, Cardinality(S) <= n
  PROVE  Cardinality(Older(S, Window)) <= n
<1> DEFINE O == Older(S, Window)
           f == [a \in O |-> a - 1]
<1>1. \A a \in O : a \in Int /\ a - 1 \in S
  BY GuardAssumption DEF Older
<1>2. f \in Injection(O, S)
  BY <1>1 DEF Injection, IsInjective
<1>3. IsFiniteSet(S) /\ Cardinality(S) \in Nat
  BY AgesFinite
<1>4. Cardinality(O) <= Cardinality(S)
  BY <1>2, <1>3, FS_Injection
<1>5. Cardinality(O) \in Nat
  BY OlderType, AgesFinite
<1> HIDE DEF O
<1>6. Cardinality(O) <= n
  BY <1>3, <1>4, <1>5
<1> QED BY <1>6 DEF O

LEMMA OlderMonotone ==
  ASSUME NEW S, NEW T, S \subseteq T
  PROVE  Older(S, Window) \subseteq Older(T, Window)
BY DEF Older

LEMMA OlderUnion ==
  ASSUME NEW S, NEW T
  PROVE  Older(S \cup T, Window) = Older(S, Window) \cup Older(T, Window)
BY DEF Older

\* One more start.
LEMMA AgesAdd ==
  ASSUME NEW S \in SUBSET (0..Window)
  PROVE  Cardinality(S \cup {0}) <= Cardinality(S) + 1
<1>1. IsFiniteSet(S) /\ Cardinality(S) \in Nat
  BY AgesFinite
<1>2. Cardinality(S \cup {0}) = IF 0 \in S THEN Cardinality(S) ELSE Cardinality(S) + 1
  BY <1>1, FS_AddElement
<1> QED BY <1>1, <1>2

LEMMA InitLedger == Init => Ledger
<1> SUFFICES ASSUME Init, NEW t \in Tasks
             PROVE  /\ Cardinality(history[t]) <= MaxRestarts
                    /\ Cardinality(saved.history[t]) <= MaxRestarts
                    /\ guard # "off" => launches[t] \cup unsaved[t] \subseteq history[t]
                    /\ launches[t] \subseteq saved.history[t]
                    /\ Cardinality(unsaved[t]) <= 1
                    /\ guard # "tasks" \/ t \in tasks => unsaved[t] = {}
  BY DEF Ledger
<1>1. /\ history[t] = {} /\ saved.history[t] = {} /\ launches[t] = {} /\ unsaved[t] = {}
      /\ guard = "off"
  BY DEF Init, None
<1>2. Cardinality({}) = 0 /\ 0 <= MaxRestarts
  BY FS_EmptySet, GuardAssumption
<1>3. Cardinality(unsaved[t]) <= 1
  BY <1>1, <1>2
<1> QED BY <1>1, <1>2, <1>3

LEMMA LaunchLedger ==
  ASSUME GuardTypeOK, Ledger, NEW t \in Tasks, Launch(t)
  PROVE  Ledger'
<1> USE GuardAssumption
<1>1. /\ UNCHANGED <<guard, saved, launches>> /\ guard = "tasks"
      /\ tasks' = tasks \ {t} /\ t \in tasks /\ Cardinality(history[t]) < MaxRestarts
  BY DEF Launch, Allowed
<1>2. CASE UNCHANGED <<asked, runtime, unsaved>>
  BY <1>1, <1>2 DEF Ledger, runtime
<1>3. CASE ~UNCHANGED <<asked, runtime, unsaved>>
  <2>1. /\ history' = [history EXCEPT ![t] = @ \cup {0}]
        /\ unsaved' = [unsaved EXCEPT ![t] = @ \cup {0}]
    BY <1>3 DEF Launch
  <2>2. ASSUME NEW u \in Tasks, u # t
        PROVE  history'[u] = history[u] /\ unsaved'[u] = unsaved[u]
    BY <2>1, <2>2 DEF GuardTypeOK
  <2>3. history'[t] = history[t] \cup {0} /\ unsaved'[t] = {0}
    BY <1>1, <2>1 DEF GuardTypeOK, Ledger
  <2>4. Cardinality(history[t] \cup {0}) <= MaxRestarts
    <3>1. history[t] \in SUBSET (0..Window) /\ history[t] \cup {0} \in SUBSET (0..Window)
      BY DEF GuardTypeOK
    <3>2. Cardinality(history[t]) \in Nat /\ Cardinality(history[t] \cup {0}) \in Nat
      BY <3>1, AgesFinite
    <3>3. Cardinality(history[t] \cup {0}) <= Cardinality(history[t]) + 1
      BY <3>1, AgesAdd
    <3> QED BY <1>1, <3>2, <3>3
  <2>5. Cardinality({0}) = 1
    BY FS_Singleton
  <2>6. Cardinality(unsaved'[t]) <= 1
    BY <2>3, <2>5
  <2>7. ASSUME NEW u \in Tasks
        PROVE  /\ Cardinality(history'[u]) <= MaxRestarts
               /\ Cardinality(saved'.history[u]) <= MaxRestarts
               /\ guard' # "off" => launches'[u] \cup unsaved'[u] \subseteq history'[u]
               /\ launches'[u] \subseteq saved'.history[u]
               /\ Cardinality(unsaved'[u]) <= 1
               /\ guard' # "tasks" \/ u \in tasks' => unsaved'[u] = {}
    <3>1. CASE u = t
      BY <1>1, <2>3, <2>4, <2>6, <3>1 DEF Ledger
    <3>2. CASE u # t
      BY <1>1, <2>2, <3>2 DEF Ledger
    <3> QED BY <3>1, <3>2
  <2> QED BY <2>7 DEF Ledger
<1> QED BY <1>2, <1>3

LEMMA TickLedger == GuardTypeOK /\ Ledger /\ Tick => Ledger'
<1> SUFFICES ASSUME GuardTypeOK, Ledger, Tick, NEW t \in Tasks
             PROVE  /\ Cardinality(history'[t]) <= MaxRestarts
                    /\ Cardinality(saved'.history[t]) <= MaxRestarts
                    /\ guard' # "off" => launches'[t] \cup unsaved'[t] \subseteq history'[t]
                    /\ launches'[t] \subseteq saved'.history[t]
                    /\ Cardinality(unsaved'[t]) <= 1
                    /\ guard' # "tasks" \/ t \in tasks' => unsaved'[t] = {}
  BY DEF Ledger
<1> USE GuardAssumption
<1>1. /\ history'[t] = Older(history[t], Window)
      /\ saved'.history[t] = Older(saved.history[t], Window)
      /\ launches'[t] = Older(launches[t], Window)
      /\ unsaved'[t] = Older(unsaved[t], Window)
      /\ UNCHANGED <<guard, tasks>>
  BY DEF Tick, AllOlder
<1>2. /\ history[t] \in SUBSET (0..Window) /\ saved.history[t] \in SUBSET (0..Window)
      /\ unsaved[t] \in SUBSET (0..Window)
  BY DEF GuardTypeOK
<1>3. /\ Cardinality(history[t]) <= MaxRestarts
      /\ Cardinality(saved.history[t]) <= MaxRestarts /\ Cardinality(unsaved[t]) <= 1
      /\ MaxRestarts \in Nat /\ 1 \in Nat
  BY DEF Ledger
<1>4. /\ Cardinality(Older(history[t], Window)) <= MaxRestarts
      /\ Cardinality(Older(saved.history[t], Window)) <= MaxRestarts
      /\ Cardinality(Older(unsaved[t], Window)) <= 1
  BY <1>2, <1>3, OlderNoMore
<1>5. launches[t] \subseteq saved.history[t]
      => Older(launches[t], Window) \subseteq Older(saved.history[t], Window)
  BY OlderMonotone
<1>6. launches[t] \cup unsaved[t] \subseteq history[t]
      => Older(launches[t], Window) \cup Older(unsaved[t], Window) \subseteq Older(history[t], Window)
  BY OlderMonotone, OlderUnion
<1>7. unsaved[t] = {} => Older(unsaved[t], Window) = {}
  BY DEF Older
<1> QED BY <1>1, <1>4, <1>5, <1>6, <1>7 DEF Ledger

LEMMA NextLedger == GuardTypeOK /\ Ledger /\ [Next]_vars => Ledger'
<1> SUFFICES ASSUME GuardTypeOK, Ledger, [Next]_vars PROVE Ledger'
  OBVIOUS
<1> USE GuardAssumption
<1>0. Cardinality({}) = 0 /\ \A t \in Tasks : None[t] = {}
  BY FS_EmptySet DEF None
<1>1. ASSUME UNCHANGED <<guard, tasks, runtime, saved, launches, unsaved>> PROVE Ledger'
  BY <1>1 DEF Ledger, runtime
<1>2. CASE Tick
  BY <1>2, TickLedger
<1>3. CASE Begin
  <2>1. /\ guard = "off" /\ guard' = "sleep" /\ history' = saved.history
        /\ UNCHANGED <<saved, launches, unsaved, tasks>>
    BY <1>3 DEF Begin
  <2> QED BY <2>1 DEF Ledger
<1>4. ASSUME NEW stale \in BOOLEAN, Cycle(stale) PROVE Ledger'
  <2>1. UNCHANGED <<saved, unsaved>> /\ guard = "sleep" /\ \A t \in Tasks : unsaved[t] = {}
    BY <1>4 DEF Cycle, Ledger
  <2>2. CASE stale \/ Missing
    <3>1. tasks' = Tasks /\ history' = history /\ launches' = launches /\ guard' = "tasks"
      BY <1>4, <2>2 DEF Cycle, runtime
    <3> QED BY <2>1, <3>1 DEF Ledger
  <2>3. CASE ~(stale \/ Missing)
    <3>1. history' = None /\ launches' = None /\ guard' = "save"
      BY <1>4, <2>3 DEF Cycle
    <3>2. \A t \in Tasks : history'[t] = {} /\ launches'[t] = {} /\ unsaved'[t] = {}
      BY <1>0, <2>1, <3>1
    <3>3. ASSUME NEW t \in Tasks
          PROVE  Cardinality(history'[t]) <= MaxRestarts /\ Cardinality(unsaved'[t]) <= 1
      <4>1. history'[t] = {} /\ unsaved'[t] = {}
        BY <3>2
      <4>2. Cardinality(history'[t]) = 0 /\ Cardinality(unsaved'[t]) = 0
        BY <1>0, <4>1
      <4> QED BY <4>2
    <3>4. \A t \in Tasks : /\ Cardinality(saved'.history[t]) <= MaxRestarts
                           /\ launches'[t] \cup unsaved'[t] \subseteq history'[t]
                           /\ launches'[t] \subseteq saved'.history[t]
      BY <2>1, <3>2 DEF Ledger
    <3> QED BY <3>2, <3>3, <3>4, Zenon DEF Ledger
  <2> QED BY <2>2, <2>3
<1>5. CASE LegacyCycle
  BY <1>5 DEF LegacyCycle, runtime, Ledger
<1>6. ASSUME NEW t \in Tasks, Launch(t) PROVE Ledger'
  BY <1>6, LaunchLedger
<1>7. ASSUME NEW t \in Tasks, Block(t) PROVE Ledger'
  BY <1>7 DEF Block, runtime, Ledger
<1>8. CASE Save
  <2>1. /\ guard # "off" /\ guard' = "sleep" /\ saved'.history = history /\ history' = history
        /\ unsaved' = None
        /\ \A t \in Tasks : launches'[t] = launches[t] \cup unsaved[t]
    BY <1>8 DEF Save, runtime
  <2>2. \A t \in Tasks : unsaved'[t] = {} /\ Cardinality(unsaved'[t]) <= 1
    BY <1>0, <2>1
  <2> QED BY <2>1, <2>2 DEF Ledger
<1>9. CASE CycleFails
  BY <1>1, <1>9 DEF CycleFails
<1>10. CASE GuardEnds
  <2>1. /\ guard' = "off" /\ saved' = saved /\ launches' = launches
        /\ history' = None /\ unsaved' = None
    BY <1>10 DEF GuardEnds
  <2>2. \A t \in Tasks : history'[t] = {} /\ unsaved'[t] = {}
    BY <1>0, <2>1
  <2>3. \A t \in Tasks : Cardinality(history'[t]) <= MaxRestarts /\ Cardinality(unsaved'[t]) <= 1
    BY <1>0, <2>2
  <2> QED BY <2>1, <2>2, <2>3 DEF Ledger
<1>11. ASSUME NEW t \in Tasks, RunTask(t) PROVE Ledger'
  BY <1>1, <1>11 DEF RunTask
<1>12. CASE PeerDies
  BY <1>1, <1>12 DEF PeerDies
<1>13. CASE UNCHANGED guardVars
  BY <1>1, <1>13 DEF guardVars
<1> QED BY <1>2, <1>3, <1>4, <1>5, <1>6, <1>7, <1>8, <1>9, <1>10, <1>11, <1>12, <1>13
        DEF Next, GuardStep, vars

\* Without a cycle that finds the host in order, a task is started at most max_restarts
\* times in a window, however often the guard ends and loads its runtime again; not counted
\* is what a guard started in a cycle it did not save, one start of a task (BudgetKept).
THEOREM RestartsAreBounded == Spec => []BudgetKept
<1>1. Init => GuardTypeOK /\ Ledger
  BY InitTypes, InitLedger
<1>2. GuardTypeOK /\ Ledger /\ [Next]_vars => (GuardTypeOK /\ Ledger)'
  BY NextGuardTypes, NextLedger
<1>3. GuardTypeOK /\ Ledger => BudgetKept
  <2> SUFFICES ASSUME GuardTypeOK, Ledger, NEW t \in Tasks
               PROVE  /\ Cardinality(launches[t] \cup unsaved[t]) <= MaxRestarts
                      /\ Cardinality(unsaved[t]) <= 1
    BY DEF BudgetKept
  <2> DEFINE L == launches[t] \cup unsaved[t]
  <2>1. ASSUME NEW S \in SUBSET (0..Window), Cardinality(S) <= MaxRestarts, L \subseteq S
        PROVE  Cardinality(L) <= MaxRestarts
    <3>1. IsFiniteSet(S) /\ Cardinality(S) \in Nat
      BY AgesFinite
    <3>2. Cardinality(L) <= Cardinality(S) /\ Cardinality(L) \in Nat
      BY <2>1, <3>1, FS_Subset, FS_CardinalityType
    <3> HIDE DEF L
    <3> QED BY <2>1, <3>1, <3>2, GuardAssumption
  <2>2. CASE guard # "off"
    <3>1. /\ history[t] \in SUBSET (0..Window) /\ Cardinality(history[t]) <= MaxRestarts
          /\ L \subseteq history[t]
      BY <2>2 DEF GuardTypeOK, Ledger
    <3> QED BY <2>1, <3>1 DEF Ledger
  <2>3. CASE guard = "off"
    <3>1. /\ saved.history[t] \in SUBSET (0..Window) /\ Cardinality(saved.history[t]) <= MaxRestarts
          /\ L \subseteq saved.history[t]
      BY <2>3 DEF GuardTypeOK, Ledger
    <3> QED BY <2>1, <3>1 DEF Ledger
  <2> QED BY <2>2, <2>3
<1> QED BY <1>1, <1>2, <1>3, PTL DEF Spec

-----------------------------------------------------------------------------
(***************************************************************************)
(* The lines of the queue.  An event is on one line at most, in the file   *)
(* and in the two lists of a flush, so one answer settles it.              *)
(***************************************************************************)
Once(s) == \A i, j \in DOMAIN s : s[i] = s[j] /\ s[i] \in Events => i = j

LEMMA LinesEmpty == Lines(<<>>) = {} /\ Once(<<>>)
BY DEF Lines, Once

LEMMA LinesAppend ==
  ASSUME NEW s \in Seq(Line), NEW x
  PROVE  /\ Lines(Append(s, x)) = Lines(s) \cup {x}
         /\ Once(s) /\ (x \in Events => x \notin Lines(s)) => Once(Append(s, x))
<1> DEFINE t == Append(s, x)
<1>1. /\ Len(s) \in Nat /\ DOMAIN s = 1..Len(s) /\ DOMAIN t = 1..(Len(s) + 1)
      /\ \A i \in 1..Len(s) : t[i] = s[i]
      /\ t[Len(s) + 1] = x
  OBVIOUS
<1> HIDE DEF t
<1>2. \A i \in DOMAIN t : (i \in DOMAIN s /\ t[i] = s[i]) \/ (i = Len(s) + 1 /\ t[i] = x)
  BY <1>1
<1>3. \A i \in DOMAIN s : i \in DOMAIN t /\ t[i] = s[i]
  BY <1>1
<1>4. Lines(t) = Lines(s) \cup {x}
  BY <1>1, <1>2, <1>3 DEF Lines
<1>5. ASSUME Once(s), x \in Events => x \notin Lines(s) PROVE Once(t)
  BY <1>2, <1>5 DEF Once, Lines
<1>6. QED
  BY <1>4, <1>5 DEF t

LEMMA LinesTail ==
  ASSUME NEW s \in Seq(Line), s # <<>>
  PROVE  /\ Lines(s) = {Head(s)} \cup Lines(Tail(s))
         /\ Once(s) => Once(Tail(s)) /\ (Head(s) \in Events => Head(s) \notin Lines(Tail(s)))
<1> DEFINE t == Tail(s)
<1>1. /\ Len(s) \in Nat \ {0} /\ DOMAIN s = 1..Len(s) /\ DOMAIN t = 1..(Len(s) - 1)
      /\ \A i \in 1..(Len(s) - 1) : t[i] = s[i + 1]
      /\ Head(s) = s[1]
  OBVIOUS
<1> HIDE DEF t
<1>2. \A i \in DOMAIN s : i = 1 \/ (i - 1 \in DOMAIN t /\ t[i - 1] = s[i])
  BY <1>1
<1>3. \A i \in DOMAIN t : i \in Int /\ i + 1 \in DOMAIN s /\ t[i] = s[i + 1] /\ i + 1 # 1
                          /\ 1 \in DOMAIN s
  BY <1>1
<1>4. Lines(s) = {s[1]} \cup Lines(t)
  BY <1>1, <1>2, <1>3 DEF Lines
<1>5. ASSUME Once(s) PROVE Once(t) /\ (s[1] \in Events => s[1] \notin Lines(t))
  <2>1. \A i, j \in DOMAIN t : t[i] = t[j] /\ t[i] \in Events => i + 1 = j + 1
    BY <1>3, <1>5 DEF Once
  <2>2. Once(t)
    BY <1>3, <2>1 DEF Once
  <2>3. s[1] \in Events => s[1] \notin Lines(t)
    BY <1>3, <1>5 DEF Once, Lines
  <2>4. QED
    BY <2>2, <2>3
<1>6. QED
  BY <1>1, <1>4, <1>5 DEF t

\* The start of a sequence, which is all a cut copy leaves.
LEMMA LinesPrefix ==
  ASSUME NEW s \in Seq(Line), NEW n \in 0..Len(s)
  PROVE  Lines(SubSeq(s, 1, n)) \subseteq Lines(s) /\ (Once(s) => Once(SubSeq(s, 1, n)))
<1> DEFINE t == SubSeq(s, 1, n)
<1>1. \A i \in DOMAIN t : i \in DOMAIN s /\ t[i] = s[i]
  OBVIOUS
<1> HIDE DEF t
<1>2. QED
  BY <1>1 DEF Lines, Once, t

\* An append takes the place of a last line that was never ended, of no other.
LEMMA LinesAppended ==
  ASSUME QueueTypeOK, NEW x \in Line
  PROVE  /\ Lines(Appended(x)) \subseteq Lines(queue) \cup {x, Bad}
         /\ ended => Lines(Appended(x)) = Lines(queue) \cup {x}
         /\ ~ended => Lines(queue) \subseteq Lines(Appended(x)) \cup {queue[Len(queue)]}
         /\ Appended(x)[Len(Appended(x))] \in {x, Bad}
         /\ Once(queue) /\ (x \in Events => x \notin Lines(queue)) => Once(Appended(x))
<1> USE QueueAssumption
<1>1. CASE ended
  <2>1. Appended(x) = Append(queue, x) /\ queue \in Seq(Line)
    BY <1>1 DEF Appended, QueueTypeOK
  <2>2. Append(queue, x)[Len(Append(queue, x))] = x
    BY <2>1
  <2>3. QED
    BY <1>1, <2>1, <2>2, LinesAppend
<1>2. CASE ~ended
  <2> DEFINE t == Appended(x)
             n == Len(queue)
  <2>1. /\ t = [queue EXCEPT ![n] = Bad] /\ queue \in Seq(Line) /\ queue # <<>>
    BY <1>2 DEF Appended, QueueTypeOK
  <2>2. /\ n \in DOMAIN queue /\ DOMAIN t = DOMAIN queue /\ t[n] = Bad /\ Len(t) = n
        /\ \A i \in DOMAIN queue : i # n => t[i] = queue[i]
    BY <2>1
  <2> HIDE DEF t, n
  <2>3. Lines(t) \subseteq Lines(queue) \cup {Bad} /\ Lines(queue) \subseteq Lines(t) \cup {queue[n]}
    BY <2>2 DEF Lines
  <2>4. Once(queue) => Once(t)
    BY <2>2 DEF Once
  <2>5. QED
    BY <1>2, <2>2, <2>3, <2>4 DEF t, n
<1>3. QED
  BY <1>1, <1>2

-----------------------------------------------------------------------------
(***************************************************************************)
(* An event that a flush may still send, or the next one, has one answer   *)
(* less than its faults allow.                                             *)
(***************************************************************************)
One(b) == IF b THEN 1 ELSE 0

\* What may still be posted: by this flush, or by the one that reads the file.
May(e) == IF pc = "send" THEN e \in Lines(todo) \cup Lines(remaining) ELSE e \in Lines(queue)

Lists ==
  /\ pc # "send" => todo = <<>> /\ remaining = <<>>
  /\ Once(queue) /\ Once(todo) /\ Once(remaining)
  /\ \A e \in Events : e \in Lines(todo) => e \notin Lines(remaining)

Unpaid == \A e \in Events : got[e] + One(May(e)) <= 1 + faults

Flow == Lists /\ Unpaid

\* How one event may fare in a step.
Fares(e) ==
  \/ got'[e] = got[e] /\ faults' = faults /\ (May(e)' => May(e))
  \/ got'[e] = got[e] /\ faults' = faults + 1
  \/ got'[e] = got[e] + 1 /\ faults' = faults /\ May(e) /\ ~May(e)'
  \/ got'[e] = got[e] + 1 /\ faults' = faults + 1 /\ May(e)
  \/ got'[e] = got[e] /\ got[e] = 0 /\ faults' = faults

LEMMA FaresUnpaid ==
  ASSUME QueueTypeOK, QueueTypeOK', Unpaid, \A e \in Events : Fares(e)
  PROVE  Unpaid'
<1> SUFFICES ASSUME NEW e \in Events PROVE got'[e] + One(May(e)') <= 1 + faults'
  BY DEF Unpaid
<1> DEFINE a == One(May(e))
           b == One(May(e)')
<1>1. /\ a \in 0..1 /\ b \in 0..1 /\ (May(e) => a = 1) /\ (~May(e)' => b = 0)
      /\ (May(e)' /\ ~May(e) => b = 1 /\ a = 0) /\ ((May(e)' => May(e)) => b <= a)
  BY DEF One
<1>2. got[e] + a <= 1 + faults
  BY DEF Unpaid
<1>3. got[e] \in Nat /\ got'[e] \in Nat /\ faults \in Nat /\ faults' \in Nat
  BY QueueAssumption DEF QueueTypeOK
<1> HIDE DEF a, b
<1>4. CASE got'[e] = got[e] /\ faults' = faults /\ (May(e)' => May(e))
  BY <1>1, <1>2, <1>3, <1>4 DEF b
<1>5. CASE got'[e] = got[e] /\ faults' = faults + 1
  BY <1>1, <1>2, <1>3, <1>5 DEF b
<1>6. CASE got'[e] = got[e] + 1 /\ faults' = faults /\ May(e) /\ ~May(e)'
  BY <1>1, <1>2, <1>3, <1>6 DEF b
<1>7. CASE got'[e] = got[e] + 1 /\ faults' = faults + 1 /\ May(e)
  BY <1>1, <1>2, <1>3, <1>7 DEF b
<1>8. CASE got'[e] = got[e] /\ got[e] = 0 /\ faults' = faults
  BY <1>1, <1>2, <1>3, <1>8 DEF b
<1>9. QED
  BY <1>4, <1>5, <1>6, <1>7, <1>8 DEF Fares

\* Between flushes the file is all there is.
LEMMA AtRest ==
  ASSUME todo' = <<>>, remaining' = <<>>, Once(queue)' PROVE Lists'
<1>1. Lines(todo') = {} /\ Once(todo') /\ Once(remaining')
  BY LinesEmpty
<1>2. QED
  BY <1>1 DEF Lists

\* A line left half written is an event that no line was, or nothing.
LEMMA TearOnce ==
  ASSUME QueueTypeOK, Once(queue), NEW x \in Line, x \in Events => x \notin Lines(queue), Tear(x)
  PROVE  Once(queue')
<1>1. Bad \in Line /\ Bad \notin Events
  BY QueueAssumption DEF Line
<1>2. QED
  BY <1>1, LinesAppended DEF Tear

LEMMA StepPost ==
  ASSUME QueueTypeOK, QueueTypeOK', Flow, Post PROVE Flow'
<1> USE QueueAssumption
<1> DEFINE x == Head(todo)
<1>1. /\ pc = "send" /\ pc' = "send" /\ todo \in Seq(Line) /\ todo # <<>> /\ todo' = Tail(todo)
      /\ queue' = queue /\ x \in Line /\ remaining \in Seq(Line)
  BY DEF Post, QueueTypeOK, file
<1>2. /\ Lines(todo) = {x} \cup Lines(todo') /\ Once(todo') /\ (x \in Events => x \notin Lines(todo'))
  BY <1>1, LinesTail DEF Flow, Lists
<1>3. /\ Lines(Append(remaining, x)) = Lines(remaining) \cup {x}
      /\ Once(Append(remaining, x))
  BY <1>1, <1>2, LinesAppend DEF Flow, Lists
<1>4. /\ Lines(Keep(x)) \subseteq Lines(remaining) \cup {x} /\ Lines(remaining) \subseteq Lines(Keep(x))
      /\ Once(Keep(x))
  BY <1>3 DEF Keep, Flow, Lists
<1>5. \/ got' \in {got, Took(x)} /\ faults' = faults + 1 /\ remaining' = Keep(x)
      \/ got' = Took(x) /\ faults' = faults /\ remaining' = remaining
      \/ got' = got /\ faults' = faults /\ remaining' = Keep(x)
  BY DEF Post, Fault
<1>6. \A e \in Events : /\ e # x => Took(x)[e] = got[e]
                        /\ e = x => Took(x)[e] = got[e] + 1
  BY DEF Took, QueueTypeOK
<1> HIDE DEF x
<1>7. /\ Lines(remaining') \subseteq Lines(remaining) \cup {x} /\ Once(remaining')
  BY <1>4, <1>5 DEF Flow, Lists
<1>8. Lists'
  BY <1>1, <1>2, <1>7 DEF Flow, Lists
<1>9. ASSUME NEW e \in Events PROVE Fares(e)
  <2>1. May(e) <=> e \in Lines(todo) \cup Lines(remaining)
    BY <1>1 DEF May
  <2>2. May(e)' <=> e \in Lines(todo') \cup Lines(remaining')
    BY <1>1 DEF May
  <2>3. May(e)' => May(e)
    BY <1>2, <1>7, <2>1, <2>2
  <2>4. e = x => May(e)
    BY <1>2, <2>1
  <2>5. e = x /\ remaining' = remaining => ~May(e)'
    BY <1>2, <2>2 DEF Flow, Lists
  <2>6. got'[e] = got[e] \/ (e = x /\ got'[e] = got[e] + 1 /\ got' = Took(x))
    BY <1>5, <1>6
  <2>7. got'[e] = got[e] + 1 /\ faults' = faults /\ e = x => remaining' = remaining
    <3>1. got[e] + 1 # got[e]
      BY DEF QueueTypeOK
    <3>2. faults + 1 # faults
      BY DEF QueueTypeOK
    <3>3. QED
      BY <1>5, <3>1, <3>2
  <2>8. faults' \in {faults, faults + 1}
    BY <1>5
  <2>9. QED
    BY <2>3, <2>4, <2>5, <2>6, <2>7, <2>8 DEF Fares
<1>10. QED
  BY <1>8, <1>9, FaresUnpaid DEF Flow

LEMMA StepFlow == QueueTypeOK /\ QueueTypeOK' /\ Flow /\ [Next]_vars => Flow'
<1> SUFFICES ASSUME QueueTypeOK, QueueTypeOK', Flow, [Next]_vars PROVE Flow'
  OBVIOUS
<1> USE QueueAssumption
<1>1. /\ Health \in Line /\ Health \notin Events /\ Events \subseteq Line
      /\ \A e \in Fresh : e \in Events /\ e \notin Lines(queue) /\ got[e] = 0
      /\ faults + 1 # faults /\ Lines(<<>>) = {} /\ Once(<<>>) /\ Once(queue)
  BY LinesEmpty DEF Line, Fresh, Flow, Lists, QueueTypeOK
<1>2. CASE Aside
  <2>1. UNCHANGED <<pc, todo, remaining, queue, got>> /\ faults' \in {faults, faults + 1}
    BY <1>2 DEF Aside, memory, file, past, Fault
  <2>2. Lists'
    BY <2>1 DEF Flow, Lists
  <2>3. \A e \in Events : Fares(e)
    BY <2>1 DEF Fares, May
  <2>4. QED
    BY <2>2, <2>3, FaresUnpaid DEF Flow
<1>3. ASSUME pc # "send", pc' # "send", Once(queue'), UNCHANGED <<todo, remaining>>,
             \A e \in Events : Fares(e)
      PROVE  Flow'
  BY <1>3, AtRest, FaresUnpaid DEF Flow, Lists
<1>4. CASE Start \/ Poll
  <2>1. pc # "send" /\ pc' # "send" /\ UNCHANGED <<todo, remaining, queue, got, faults>>
    BY <1>4 DEF Start, Poll, memory, file, past
  <2>2. \A e \in Events : Fares(e)
    BY <2>1 DEF Fares, May
  <2>3. QED
    BY <1>1, <1>3, <2>1, <2>2
<1>5. CASE Report
  <2>1. /\ pc = "health" /\ pc' = "read" /\ queue' = Appended(Health)
        /\ UNCHANGED <<todo, remaining, got, faults>>
    BY <1>5 DEF Report, Enqueue, past
  <2>2. Lines(queue') \cap Events \subseteq Lines(queue) /\ Once(queue')
    BY <1>1, <2>1, LinesAppended DEF Line
  <2>3. \A e \in Events : Fares(e)
    BY <2>1, <2>2 DEF Fares, May
  <2>4. QED
    BY <1>3, <2>1, <2>2, <2>3
<1>6. ASSUME NEW x \in Events, Observe(x) PROVE Flow'
  <2>1. /\ pc = "idle" /\ pc' = "read" /\ queue' = Appended(x) /\ x \in Fresh
        /\ UNCHANGED <<todo, remaining, got, faults>>
    BY <1>6 DEF Observe, Enqueue
  <2>2. Lines(queue') \cap Events \subseteq Lines(queue) \cup {x} /\ Once(queue')
    BY <1>1, <2>1, LinesAppended DEF Line
  <2>3. \A e \in Events : Fares(e)
    BY <1>1, <2>1, <2>2 DEF Fares, May
  <2>4. QED
    BY <1>3, <2>1, <2>2, <2>3
<1>7. CASE AppendFails
  <2>1. \E x \in Line : Tear(x) /\ (x \in Events => x \notin Lines(queue))
    BY <1>1, <1>7 DEF AppendFails
  <2>2. /\ pc # "send" /\ pc' # "send" /\ faults' = faults + 1
        /\ UNCHANGED <<todo, remaining, got>>
    BY <1>7 DEF AppendFails, Fault
  <2>3. \A e \in Events : Fares(e)
    BY <2>2 DEF Fares
  <2>4. QED
    BY <1>1, <1>3, <2>1, <2>2, <2>3, TearOnce
<1>8. CASE Read
  <2>1. /\ pc = "read" /\ UNCHANGED <<queue, got, faults>>
        /\ \/ todo' = <<>> /\ pc' # "send"
           \/ todo' = queue /\ pc' = "send"
        /\ remaining' = <<>>
    BY <1>8 DEF Read, AfterFlush, file, past
  <2>2. Lists'
    BY <1>1, <2>1 DEF Lists
  <2>3. \A e \in Events : Fares(e)
    BY <1>1, <2>1 DEF Fares, May
  <2>4. QED
    BY <2>2, <2>3, FaresUnpaid DEF Flow
<1>9. CASE FlushFails
  <2>1. todo' = <<>> /\ remaining' = <<>> /\ queue' = queue /\ got' = got /\ faults' = faults + 1
    BY <1>9 DEF FlushFails, AfterFlush, Fault, file, past
  <2>2. \A e \in Events : Fares(e)
    BY <2>1 DEF Fares
  <2>3. QED
    BY <1>1, <2>1, <2>2, AtRest, FaresUnpaid DEF Flow
<1>10. CASE Post
  BY <1>10, StepPost
<1>11. CASE EndFlush
  <2>1. /\ pc = "send" /\ pc' # "send" /\ queue' = remaining /\ todo' = <<>> /\ remaining' = <<>>
        /\ got' = got /\ faults' = faults
    BY <1>11 DEF EndFlush, Rewrite, AfterFlush, past
  <2>2. Once(queue')
    BY <2>1 DEF Flow, Lists
  <2>3. \A e \in Events : Fares(e)
    BY <2>1 DEF Fares, May
  <2>4. QED
    BY <2>1, <2>2, <2>3, AtRest, FaresUnpaid DEF Flow
<1>12. CASE Kill
  <2>1. todo' = <<>> /\ remaining' = <<>> /\ got' = got /\ faults' = faults + 1
    BY <1>12 DEF Kill, Fault, past
  <2>2. Once(queue')
    <3>1. CASE UNCHANGED file
      BY <1>1, <3>1 DEF file
    <3>2. CASE \E x \in Line : Tear(x) /\ (x \in Events => x \notin Lines(queue))
      BY <1>1, <3>2, TearOnce
    <3>3. CASE CutRewrite
      <4>1. PICK n \in 0..Len(remaining) : queue' = SubSeq(remaining, 1, n)
        BY <3>3 DEF CutRewrite
      <4>2. remaining \in Seq(Line) /\ Once(remaining)
        BY DEF QueueTypeOK, Flow, Lists
      <4>3. QED
        BY <4>1, <4>2, LinesPrefix
    <3>4. QED
      BY <1>1, <1>12, <3>1, <3>2, <3>3 DEF Kill
  <2>3. \A e \in Events : Fares(e)
    BY <2>1 DEF Fares
  <2>4. QED
    BY <2>1, <2>2, <2>3, AtRest, FaresUnpaid DEF Flow
<1>13. QED
  BY <1>2, <1>4, <1>5, <1>6, <1>7, <1>8, <1>9, <1>10, <1>11, <1>12, QueueSteps
     DEF QueueNext, CollectorStep

LEMMA InitFlow == Init => Flow
<1> SUFFICES ASSUME Init PROVE Flow
  OBVIOUS
<1>1. /\ pc = "down" /\ todo = <<>> /\ remaining = <<>> /\ queue = <<>> /\ faults = 0
      /\ \A e \in Events : got[e] = 0
  BY DEF Init, QueueInit
<1>2. Lists
  BY <1>1, LinesEmpty DEF Lists
<1>3. \A e \in Events : ~May(e)
  BY <1>1, LinesEmpty DEF May
<1>4. Unpaid
  BY <1>1, <1>3 DEF Unpaid, One
<1>5. QED
  BY <1>2, <1>4 DEF Flow

LEMMA FlowInvariant == Spec => [](QueueTypeOK /\ Flow)
<1>1. Init => QueueTypeOK /\ Flow
  BY InitTypes, InitFlow
<1>2. QueueTypeOK /\ Flow /\ [Next]_vars => (QueueTypeOK /\ Flow)'
  BY NextQueueTypes, StepFlow
<1>3. QED
  BY <1>1, <1>2, PTL DEF Spec

\* The server takes an event of the file operations once, and once again at most for every
\* fault: a flush that was cut off before its file was written back (PostedPerFault).
THEOREM OnePostPerFault == Spec => []PostedPerFault
<1>1. QueueTypeOK /\ Flow => PostedPerFault
  <2> SUFFICES ASSUME QueueTypeOK, Flow, NEW e \in Events PROVE got[e] <= 1 + faults
    BY DEF PostedPerFault
  <2>1. got[e] + One(May(e)) <= 1 + faults /\ One(May(e)) \in 0..1
    BY DEF Flow, Unpaid, One
  <2>2. got[e] \in Nat /\ faults \in Nat
    BY DEF QueueTypeOK
  <2>3. QED
    BY <2>1, <2>2
<1>2. QED
  BY <1>1, FlowInvariant, PTL

-----------------------------------------------------------------------------
(***************************************************************************)
(* Accepted events.  A line left half written is of no accepted event; the *)
(* process that leaves it and goes on may lose one to it, which the failed *)
(* append pays for, and a new process writes its own report there.         *)
(***************************************************************************)
Torn == ~ended /\ pc \notin {"down", "health"}

Half == ~ended => queue[Len(queue)] \notin accepted
Sent == pc = "send" => \A e \in Lines(queue) \cap Events : May(e) \/ got[e] > 0
Charged == renames => Cardinality(Lost) + One(Torn) <= spoiled

Whole == Half /\ Sent /\ Charged

LEMMA LostFinite ==
  ASSUME QueueTypeOK
  PROVE  Lost \subseteq Events /\ IsFiniteSet(Lost) /\ Cardinality(Lost) \in Nat
<1>1. Lost \subseteq Events /\ IsFiniteSet(Events)
  BY QueueAssumption DEF QueueTypeOK, Lost
<1>2. QED
  BY <1>1, FS_Subset, FS_CardinalityType

\* Nothing more is lost, and a torn line is paid for.
LEMMA StaysCharged ==
  ASSUME QueueTypeOK, QueueTypeOK', Charged, renames' = renames, renames => Lost' \subseteq Lost,
         \/ spoiled' = spoiled /\ (Torn' => Torn)
         \/ spoiled' = spoiled + 1
  PROVE  Charged'
<1> SUFFICES ASSUME renames PROVE Cardinality(Lost') + One(Torn') <= spoiled'
  BY DEF Charged
<1>1. Cardinality(Lost') <= Cardinality(Lost)
  BY LostFinite, FS_Subset
<1>2. Cardinality(Lost) \in Nat /\ Cardinality(Lost') \in Nat
  <2>1. Lost' \subseteq Events /\ IsFiniteSet(Events)
    BY QueueAssumption DEF QueueTypeOK, Lost
  <2>2. QED
    BY <2>1, LostFinite, FS_Subset, FS_CardinalityType
<1>3. /\ One(Torn) \in 0..1 /\ One(Torn') \in 0..1 /\ ((Torn' => Torn) => One(Torn') <= One(Torn))
  BY DEF One
<1>4. Cardinality(Lost) + One(Torn) <= spoiled /\ spoiled \in Nat
  BY DEF Charged, QueueTypeOK
<1>5. CASE spoiled' = spoiled /\ (Torn' => Torn)
  BY <1>1, <1>2, <1>3, <1>4, <1>5
<1>6. CASE spoiled' = spoiled + 1
  BY <1>1, <1>2, <1>3, <1>4, <1>6
<1>7. QED
  BY <1>5, <1>6

\* An append loses no accepted event but the one it is about.
LEMMA AppendLoses ==
  ASSUME QueueTypeOK, Half, NEW x \in Line, queue' = Appended(x), got' = got,
         NEW A, accepted' = accepted \cup A
  PROVE  Lost' \subseteq Lost \cup A /\ (ended => Lost' \subseteq Lost \cup (A \ {x}))
<1>1. /\ ended => Lines(queue') = Lines(queue) \cup {x}
      /\ ~ended => Lines(queue) \subseteq Lines(queue') \cup {queue[Len(queue)]}
  BY LinesAppended
<1>2. QED
  BY <1>1 DEF Lost, Half

\* What is left of an append that failed is no accepted event.
LEMMA TearWhole ==
  ASSUME QueueTypeOK, Half, NEW x \in Line, x \notin accepted, Tear(x), got' = got,
         accepted' = accepted
  PROVE  Half' /\ Lost' \subseteq Lost
<1>1. PICK y \in {x, Bad} : queue' = Appended(y)
  BY DEF Tear
<1>2. Bad \in Line /\ Bad \notin accepted
  BY QueueAssumption DEF Line, QueueTypeOK
<1>3. queue'[Len(queue')] \in {y, Bad}
  BY <1>1, <1>2, LinesAppended
<1>4. Half'
  BY <1>1, <1>2, <1>3 DEF Half
<1>5. Lost' \subseteq Lost \cup {}
  <2>1. accepted' = accepted \cup {} /\ y \in Line
    BY <1>1, <1>2
  <2>2. QED
    BY <1>1, <2>1, AppendLoses
<1>6. QED
  BY <1>4, <1>5

LEMMA PostWhole ==
  ASSUME QueueTypeOK, QueueTypeOK', Whole, Post PROVE Whole'
<1> USE QueueAssumption
<1> DEFINE x == Head(todo)
<1>1. /\ pc = "send" /\ pc' = "send" /\ todo \in Seq(Line) /\ todo # <<>> /\ todo' = Tail(todo)
      /\ UNCHANGED <<queue, ended, renames, accepted, spoiled>> /\ remaining \in Seq(Line)
      /\ x \in Line
  BY DEF Post, QueueTypeOK, file
<1>2. Lines(todo) = {x} \cup Lines(todo')
  BY <1>1, LinesTail
<1>3. Lines(Append(remaining, x)) = Lines(remaining) \cup {x}
  BY <1>1, LinesAppend
<1>4. /\ Lines(remaining) \subseteq Lines(Keep(x))
      /\ x \in Events => x \in Lines(Keep(x))
  BY <1>3 DEF Keep
<1>5. /\ \A e \in Events : Took(x)[e] >= got[e] /\ (e = x => Took(x)[e] > 0)
      /\ \A e \in Events : got[e] \in Nat
  BY DEF Took, QueueTypeOK
<1>6. \/ got' \in {got, Took(x)} /\ remaining' = Keep(x)
      \/ got' = Took(x) /\ remaining' = remaining
  BY DEF Post
<1> HIDE DEF x
<1>7. \A e \in Events : got'[e] \in Nat /\ got'[e] >= got[e]
  <2>1. \A e \in Events : got'[e] \in Nat
    BY DEF QueueTypeOK
  <2>2. QED
    BY <1>5, <1>6, <2>1
<1>8. Half'
  BY <1>1 DEF Whole, Half
<1>9. Sent'
  <2> SUFFICES ASSUME NEW e \in Lines(queue) \cap Events PROVE May(e)' \/ got'[e] > 0
    BY <1>1 DEF Sent
  <2>1. May(e) \/ got[e] > 0
    BY <1>1 DEF Whole, Sent
  <2>2. CASE got[e] > 0
    BY <1>5, <1>7, <2>2
  <2>3. CASE e \in Lines(todo') \cup Lines(remaining)
    BY <1>1, <1>4, <1>6, <2>3 DEF May
  <2>4. CASE e = x
    BY <1>1, <1>4, <1>5, <1>6, <2>4 DEF May
  <2>5. QED
    BY <1>1, <1>2, <2>1, <2>2, <2>3, <2>4 DEF May
<1>10. Lost' \subseteq Lost
  <2>1. \A e \in Events : got'[e] = 0 => got[e] = 0
    BY <1>5, <1>7
  <2>2. accepted \subseteq Events
    BY DEF QueueTypeOK
  <2>3. QED
    BY <1>1, <2>1, <2>2 DEF Lost
<1>11. Charged'
  BY <1>1, <1>10, StaysCharged DEF Whole, Torn
<1>12. QED
  BY <1>8, <1>9, <1>11 DEF Whole

\* An event that is accepted while the last line is torn takes its place; the tear paid.
LEMMA ObserveWhole ==
  ASSUME QueueTypeOK, QueueTypeOK', Whole, NEW x \in Events, Observe(x) PROVE Whole'
<1> USE QueueAssumption
<1>1. /\ pc = "idle" /\ pc' = "read" /\ queue' = Appended(x) /\ ended' = TRUE
      /\ accepted' = accepted \cup {x} /\ UNCHANGED <<renames, got, spoiled>> /\ x \in Line
  BY DEF Observe, Enqueue, Line
<1>2. Half' /\ Sent'
  BY <1>1 DEF Half, Sent
<1>3. Lost' \subseteq Lost \cup {x} /\ (ended => Lost' \subseteq Lost)
  BY <1>1, AppendLoses DEF Whole
<1>4. CASE ended
  BY <1>1, <1>2, <1>3, <1>4, StaysCharged DEF Whole, Torn
<1>5. CASE ~ended
  <2>1. One(Torn) = 1 /\ One(Torn') = 0
    BY <1>1, <1>5 DEF Torn, One
  <2>2. IsFiniteSet(Lost) /\ Cardinality(Lost) \in Nat
    BY LostFinite
  <2>3. /\ IsFiniteSet(Lost \cup {x}) /\ Cardinality(Lost \cup {x}) \in Nat
        /\ Cardinality(Lost \cup {x}) <= Cardinality(Lost) + 1
    <3>1. /\ IsFiniteSet(Lost \cup {x})
          /\ Cardinality(Lost \cup {x}) = IF x \in Lost THEN Cardinality(Lost)
                                                        ELSE Cardinality(Lost) + 1
      BY <2>2, FS_AddElement
    <3>2. QED
      BY <2>2, <3>1
  <2>4. Cardinality(Lost') <= Cardinality(Lost \cup {x}) /\ Cardinality(Lost') \in Nat
    BY <1>3, <2>3, FS_Subset, FS_CardinalityType
  <2>5. renames' => Cardinality(Lost') + One(Torn') <= spoiled'
    BY <1>1, <2>1, <2>2, <2>3, <2>4 DEF Whole, Charged, QueueTypeOK
  <2>6. QED
    BY <1>2, <2>5 DEF Whole, Charged
<1>6. QED
  BY <1>4, <1>5

LEMMA StepWhole == QueueTypeOK /\ QueueTypeOK' /\ Flow /\ Whole /\ [Next]_vars => Whole'
<1> SUFFICES ASSUME QueueTypeOK, QueueTypeOK', Flow, Whole, [Next]_vars PROVE Whole'
  OBVIOUS
<1> USE QueueAssumption
<1>1. /\ Health \in Line /\ Health \notin accepted /\ Events \subseteq Line
      /\ \A e \in Fresh : e \in Events /\ e \notin accepted
      /\ Half
  BY DEF Line, Fresh, Whole, QueueTypeOK
\* The file and what was accepted and posted stay as they are.
<1>2. ASSUME UNCHANGED <<queue, ended, renames, accepted, got, spoiled>>, Torn' => Torn, Sent'
      PROVE  Whole'
  <2>1. Lost' \subseteq Lost
    BY <1>2 DEF Lost
  <2>2. Half'
    BY <1>1, <1>2 DEF Half
  <2>3. QED
    BY <1>2, <2>1, <2>2, StaysCharged DEF Whole
<1>3. CASE Aside
  <2>1. UNCHANGED <<pc, todo, remaining, queue, ended, renames, accepted, got, spoiled>>
    BY <1>3 DEF Aside, memory, file, past
  <2>2. Sent'
    BY <2>1 DEF Whole, Sent, May
  <2>3. QED
    BY <1>2, <2>1, <2>2 DEF Torn
<1>4. CASE Start \/ Poll
  <2>1. /\ (pc = "down" /\ pc' = "health") \/ (pc = "idle" /\ pc' = "read")
        /\ UNCHANGED <<queue, ended, renames, accepted, got, spoiled>>
    BY <1>4 DEF Start, Poll, file, past
  <2>2. QED
    BY <1>2, <2>1 DEF Torn, Sent
<1>5. CASE Report
  <2>1. /\ pc' = "read" /\ queue' = Appended(Health) /\ ended' = TRUE
        /\ UNCHANGED <<renames, accepted, got, spoiled>> /\ accepted' = accepted \cup {}
    BY <1>5 DEF Report, Enqueue, past
  <2>2. Lost' \subseteq Lost
    <3>1. Lost' \subseteq Lost \cup {}
      BY <1>1, <2>1, AppendLoses
    <3>2. QED
      BY <3>1
  <2>3. QED
    BY <2>1, <2>2, StaysCharged DEF Whole, Half, Sent, Torn
<1>6. ASSUME NEW x \in Events, Observe(x) PROVE Whole'
  BY <1>6, ObserveWhole
<1>7. CASE AppendFails
  <2>1. \E x \in Line : x \notin accepted /\ Tear(x)
    BY <1>1, <1>7 DEF AppendFails
  <2>2. /\ pc' # "send" /\ spoiled' = spoiled + 1
        /\ UNCHANGED <<renames, accepted, got>>
    BY <1>7 DEF AppendFails
  <2>3. Half' /\ Lost' \subseteq Lost
    BY <1>1, <2>1, <2>2, TearWhole
  <2>4. QED
    BY <2>2, <2>3, StaysCharged DEF Whole, Sent
<1>8. CASE Read
  <2>1. /\ pc = "read" /\ UNCHANGED <<queue, ended, renames, accepted, got, spoiled>>
        /\ pc' = "send" => todo' = queue
    BY <1>8 DEF Read, AfterFlush, file, past
  <2>2. Sent'
    BY <2>1 DEF Sent, May
  <2>3. QED
    BY <1>2, <2>1, <2>2 DEF Torn
<1>9. CASE FlushFails
  <2>1. /\ pc \in {"read", "send"} /\ pc' # "send"
        /\ UNCHANGED <<queue, ended, renames, accepted, got, spoiled>>
    BY <1>9 DEF FlushFails, AfterFlush, file, past
  <2>2. QED
    BY <1>2, <2>1 DEF Torn, Sent
<1>10. CASE Post
  BY <1>10, PostWhole
<1>11. CASE EndFlush
  <2>1. /\ pc = "send" /\ todo = <<>> /\ pc' # "send" /\ queue' = remaining /\ ended' = TRUE
        /\ UNCHANGED <<renames, accepted, got, spoiled>>
    BY <1>11 DEF EndFlush, Rewrite, AfterFlush, past
  <2>2. Lost' \subseteq Lost
    <3> SUFFICES ASSUME NEW e \in Lost' PROVE e \in Lost
      OBVIOUS
    <3>1. /\ e \in accepted /\ e \in Events /\ got[e] = 0 /\ e \notin Lines(remaining)
          /\ e \notin Lines(todo)
      BY <2>1, LinesEmpty DEF Lost, QueueTypeOK
    <3>2. e \notin Lines(queue)
      BY <2>1, <3>1 DEF Whole, Sent, May
    <3>3. QED
      BY <3>1, <3>2 DEF Lost
  <2>3. QED
    BY <2>1, <2>2, StaysCharged DEF Whole, Half, Sent, Torn
<1>12. CASE Kill
  <2>1. /\ pc' = "down" /\ UNCHANGED <<renames, accepted, got, spoiled>>
        /\ \/ UNCHANGED file
           \/ \E x \in Line : x \notin accepted /\ Tear(x)
           \/ CutRewrite
    BY <1>1, <1>12 DEF Kill, past
  <2>2. Half' /\ (renames => Lost' \subseteq Lost)
    <3>1. CASE UNCHANGED file
      <4>1. queue' = queue /\ ended' = ended
        BY <3>1 DEF file
      <4>2. QED
        BY <1>1, <2>1, <4>1 DEF Half, Lost
    <3>2. CASE \E x \in Line : x \notin accepted /\ Tear(x)
      BY <1>1, <2>1, <3>2, TearWhole
    <3>3. CASE CutRewrite
      BY <3>3 DEF CutRewrite, Half
    <3>4. QED
      BY <2>1, <3>1, <3>2, <3>3
  <2>3. QED
    BY <2>1, <2>2, StaysCharged DEF Whole, Sent, Torn
<1>13. QED
  BY <1>3, <1>4, <1>5, <1>6, <1>7, <1>8, <1>9, <1>10, <1>11, <1>12, QueueSteps
     DEF QueueNext, CollectorStep

LEMMA InitWhole == Init => Whole
<1> SUFFICES ASSUME Init PROVE Whole
  OBVIOUS
<1>1. pc = "down" /\ ended = TRUE /\ accepted = {} /\ spoiled = 0
  BY DEF Init, QueueInit
<1>2. Lost = {} /\ One(Torn) = 0
  BY <1>1 DEF Lost, Torn, One
<1>3. QED
  BY <1>1, <1>2, FS_EmptySet DEF Whole, Half, Sent, Charged

\* An event whose append returned Ok is posted or still in the file, where the file can be
\* renamed over: every loss has a failed append behind it, and no death (AcceptedKept).
THEOREM AcceptedAreKept == Spec => []AcceptedKept
<1>1. Init => QueueTypeOK /\ Flow /\ Whole
  BY InitTypes, InitFlow, InitWhole
<1>2. QueueTypeOK /\ Flow /\ Whole /\ [Next]_vars => (QueueTypeOK /\ Flow /\ Whole)'
  BY NextQueueTypes, StepFlow, StepWhole
<1>3. QueueTypeOK /\ Whole => AcceptedKept
  <2> SUFFICES ASSUME QueueTypeOK, Whole, renames PROVE Cardinality(Lost) <= spoiled
    BY DEF AcceptedKept
  <2>1. Cardinality(Lost) + One(Torn) <= spoiled /\ One(Torn) \in 0..1 /\ Cardinality(Lost) \in Nat
    BY LostFinite DEF Whole, Charged, One
  <2>2. QED
    BY <2>1 DEF QueueTypeOK
<1>4. QED
  BY <1>1, <1>2, <1>3, PTL DEF Spec
=============================================================================
