------------------------------ MODULE Aggregator ------------------------------
(***************************************************************************)
(* dlp-aggregator: cron starts it every minute, it reads the window        *)
(* [last_end - overlap, now] of the DLP buckets, inserts what it got into  *)
(* SQLite and saves the end of the window.  A run that takes longer than a *)
(* minute overlaps the next one; agents post events late and out of order. *)
(***************************************************************************)
EXTENDS Integers, FiniteSets

CONSTANTS
  Events,    (* the events of the buckets, named by their ids                *)
  Buckets,
  BucketOf,  (* the bucket an event is posted to                             *)
  Runs,      (* as many processes as may overlap                             *)
  Overlap,   (* cli.overlap_seconds                                          *)
  Lookback,  (* cli.lookback_hours                                           *)
  Limit,     (* cli.limit: events a bucket answers at most, newest first     *)
  MaxTime,   (* bound on the clock                                           *)
  MaxFaults, (* bound on runs that end before they save                      *)
  None

ASSUME AggregatorAssumption ==
  /\ Events \subseteq Nat /\ IsFiniteSet(Events)
  /\ BucketOf \in [Events -> Buckets]
  /\ Overlap \in Nat /\ Lookback \in Nat /\ Limit \in Nat
  /\ MaxTime \in Nat /\ MaxFaults \in Nat
  /\ None \notin Nat

VARIABLES
  now,
  stamp,   (* the timestamp an agent gave an event                           *)
  came,    (* when the event reached its bucket, None while it has not       *)
  lastEnd, (* last_end of the state file, None while there is no file        *)
  rows,    (* dlp_events, unique by bucket and event id                      *)
  pc, start, end, first, todo, got, (* a run: its window and what it has read*)
  origin,  (* history: where the window of the first saved run began         *)
  faults

posted == <<stamp, came>>
store  == <<lastEnd, rows, origin>>
runs   == <<pc, start, end, first, todo, got>>
vars   == <<now, posted, store, runs, faults>>

Init ==
  /\ now = 0
  /\ stamp = [e \in Events |-> 0]
  /\ came = [e \in Events |-> None]
  /\ lastEnd = None
  /\ rows = {}
  /\ pc = [r \in Runs |-> "off"]
  /\ start = [r \in Runs |-> 0]
  /\ end = [r \in Runs |-> 0]
  /\ first = [r \in Runs |-> FALSE]
  /\ todo = [r \in Runs |-> {}]
  /\ got = [r \in Runs |-> {}]
  /\ origin = -Lookback
  /\ faults = 0

-----------------------------------------------------------------------------
(* The buckets and the clock.                                              *)

Tick ==
  /\ now < MaxTime
  /\ now' = now + 1
  /\ UNCHANGED <<posted, store, runs, faults>>

\* An agent's clock may be ahead, and its queue may keep an event for long.
Arrive(e, t) ==
  /\ came[e] = None
  /\ stamp' = [stamp EXCEPT ![e] = t]
  /\ came' = [came EXCEPT ![e] = now]
  /\ UNCHANGED <<now, store, runs, faults>>

Posted == {e \in Events : came[e] # None}
Newer(f, e) == stamp[f] > stamp[e] \/ (stamp[f] = stamp[e] /\ f > e)

Window(b, s, t) == {e \in Posted : BucketOf[e] = b /\ s <= stamp[e] /\ stamp[e] <= t}

\* What aw-server answers to start, end and limit.
Page(b, s, t) ==
  {e \in Window(b, s, t) : Cardinality({f \in Window(b, s, t) : Newer(f, e)}) < Limit}

-----------------------------------------------------------------------------
(* A run.                                                                  *)

\* Mutant of StartTime: the overlap is forgotten.
StartAtLastEnd == IF lastEnd = None THEN now - Lookback ELSE lastEnd

\* get_start_time
StartTime == IF lastEnd = None THEN now - Lookback ELSE lastEnd - Overlap

\* Mutant of Begin: the window is read to the end of the present second.
BeginRoundsUp(r) ==
  /\ pc[r] = "off"
  /\ pc' = [pc EXCEPT ![r] = "fetch"]
  /\ start' = [start EXCEPT ![r] = StartTime]
  /\ end' = [end EXCEPT ![r] = now + 1]
  /\ first' = [first EXCEPT ![r] = lastEnd = None]
  /\ todo' = [todo EXCEPT ![r] = {BucketOf[e] : e \in Posted}]
  /\ got' = [got EXCEPT ![r] = {}]
  /\ UNCHANGED <<now, posted, store, faults>>

\* The window is fixed and /buckets asked; it names a bucket once an agent has made it.
Begin(r) ==
  /\ pc[r] = "off"
  /\ pc' = [pc EXCEPT ![r] = "fetch"]
  /\ start' = [start EXCEPT ![r] = StartTime]
  /\ end' = [end EXCEPT ![r] = now]
  /\ first' = [first EXCEPT ![r] = lastEnd = None]
  /\ todo' = [todo EXCEPT ![r] = {BucketOf[e] : e \in Posted}]
  /\ got' = [got EXCEPT ![r] = {}]
  /\ UNCHANGED <<now, posted, store, faults>>

Fetch(r, b) ==
  /\ pc[r] = "fetch"
  /\ b \in todo[r]
  /\ todo' = [todo EXCEPT ![r] = @ \ {b}]
  /\ got' = [got EXCEPT ![r] = @ \cup Page(b, start[r], end[r])]
  /\ UNCHANGED <<now, posted, store, pc, start, end, first, faults>>

\* One transaction of insert or ignore.
Insert(r) ==
  /\ pc[r] = "fetch"
  /\ todo[r] = {}
  /\ pc' = [pc EXCEPT ![r] = "save"]
  /\ rows' = rows \cup got[r]
  /\ UNCHANGED <<now, posted, lastEnd, origin, start, end, first, todo, got, faults>>

\* Mutant of Save: the state gets the time of the save.
SaveNow(r) ==
  /\ pc[r] = "save"
  /\ pc' = [pc EXCEPT ![r] = "off"]
  /\ lastEnd' = now
  /\ origin' = IF first[r] /\ start[r] > origin THEN start[r] ELSE origin
  /\ UNCHANGED <<now, posted, rows, start, end, first, todo, got, faults>>

\* save_state writes a temporary and renames it, so the file is never torn.
Save(r) ==
  /\ pc[r] = "save"
  /\ pc' = [pc EXCEPT ![r] = "off"]
  /\ lastEnd' = end[r]
  /\ origin' = IF first[r] /\ start[r] > origin THEN start[r] ELSE origin
  /\ UNCHANGED <<now, posted, rows, start, end, first, todo, got, faults>>

\* An answer that fails or does not parse, a locked database, a kill.
Fail(r) ==
  /\ faults < MaxFaults
  /\ faults' = faults + 1
  /\ pc[r] # "off"
  /\ pc' = [pc EXCEPT ![r] = "off"]
  /\ UNCHANGED <<now, posted, store, start, end, first, todo, got>>

RunStep(r) == Begin(r) \/ Insert(r) \/ Save(r) \/ \E b \in Buckets : Fetch(r, b)

Next ==
  \/ Tick
  \/ \E e \in Events, t \in 0..MaxTime : Arrive(e, t)
  \/ \E r \in Runs : RunStep(r) \/ Fail(r)

Spec == Init /\ [][Next]_vars

\* Time passes, cron starts run after run, and a run that does not fail goes on.
FairSpec == Spec /\ WF_vars(Tick) /\ \A r \in Runs : WF_vars(RunStep(r))

-----------------------------------------------------------------------------
\* The types of the variables; no window reaches past the clock.
TypeOK ==
  /\ now \in 0..MaxTime
  /\ stamp \in [Events -> 0..MaxTime]
  /\ came \in [Events -> 0..MaxTime \cup {None}]
  /\ lastEnd \in 0..MaxTime \cup {None}
  /\ rows \subseteq Events
  /\ pc \in [Runs -> {"off", "fetch", "save"}]
  /\ start \in [Runs -> Int] /\ end \in [Runs -> 0..MaxTime] /\ first \in [Runs -> BOOLEAN]
  /\ todo \in [Runs -> SUBSET Buckets] /\ got \in [Runs -> SUBSET Events]
  /\ origin \in Int
  /\ faults \in 0..MaxFaults

Timely(e)  == came[e] # None /\ came[e] <= stamp[e] + Overlap
\* Its bucket holds so many newer events that a page may leave it out.
Crowded(e) == Cardinality({f \in Posted : BucketOf[f] = BucketOf[e] /\ Newer(f, e)}) >= Limit

Counted(e) == e \in rows \/ Crowded(e) \/ stamp[e] < origin

(* docs/dlp-aggregator.md: runs resume with an overlap to avoid missing    *)
(* late events.  However runs overlap and fail, an event behind the saved  *)
(* window that came at most the overlap late has its row, unless a page was*)
(* full of newer ones or it is from before the first window.               *)
NothingMissed ==
  lastEnd # None =>
    \A e \in Posted : Timely(e) /\ stamp[e] < lastEnd - Overlap => Counted(e)

(* With time passing and runs starting, every timely event gets its row.   *)
EveryEventCounted == <>[](\A e \in Posted : Timely(e) => Counted(e))
=============================================================================
