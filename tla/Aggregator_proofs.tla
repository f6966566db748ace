-------------------------- MODULE Aggregator_proofs --------------------------
(***************************************************************************)
(* Proofs about the aggregator for any number of runs, events and buckets, *)
(* any overlap, page size and number of failed runs: nothing is missed.    *)
(***************************************************************************)
EXTENDS Aggregator, FiniteSetTheorems, TLAPS

LEMMA InitTypes == Init => TypeOK
BY AggregatorAssumption DEF Init, TypeOK

LEMMA NextTypes == TypeOK /\ [Next]_vars => TypeOK'
<1> SUFFICES ASSUME TypeOK, [Next]_vars PROVE TypeOK'
  OBVIOUS
<1> USE AggregatorAssumption
<1>1. CASE UNCHANGED vars
  BY <1>1 DEF vars, posted, store, runs, TypeOK
<1>2. CASE Tick
  BY <1>2 DEF Tick, posted, store, runs, TypeOK
<1>3. ASSUME NEW e \in Events, NEW t \in 0..MaxTime, Arrive(e, t) PROVE TypeOK'
  BY <1>3 DEF Arrive, store, runs, TypeOK
<1>4. ASSUME NEW r \in Runs, Begin(r) PROVE TypeOK'
  <2>1. StartTime \in Int
    BY DEF StartTime, TypeOK
  <2>2. {BucketOf[e] : e \in Posted} \subseteq Buckets
    BY DEF Posted
  <2> HIDE DEF StartTime
  <2> QED BY <1>4, <2>1, <2>2 DEF Begin, posted, store, TypeOK
<1>5. ASSUME NEW r \in Runs, NEW b \in Buckets, Fetch(r, b) PROVE TypeOK'
  <2>1. Page(b, start[r], end[r]) \subseteq Events
    BY DEF Page, Window, Posted
  <2> QED BY <1>5, <2>1 DEF Fetch, posted, store, TypeOK
<1>6. ASSUME NEW r \in Runs, Insert(r) PROVE TypeOK'
  BY <1>6 DEF Insert, posted, TypeOK
<1>7. ASSUME NEW r \in Runs, Save(r) PROVE TypeOK'
  BY <1>7 DEF Save, posted, TypeOK
<1>8. ASSUME NEW r \in Runs, Fail(r) PROVE TypeOK'
  BY <1>8 DEF Fail, posted, store, TypeOK
<1> QED BY <1>1, <1>2, <1>3, <1>4, <1>5, <1>6, <1>7, <1>8 DEF Next, RunStep

\* The types of the variables: no window reaches past the clock's bound (TypeOK).
THEOREM AggregatorTypes == Spec => []TypeOK
<1>1. Init => TypeOK
  BY InitTypes
<1>2. TypeOK /\ [Next]_vars => TypeOK'
  BY NextTypes
<1> QED BY <1>1, <1>2, PTL DEF Spec

-----------------------------------------------------------------------------
(* The invariant: what a run that has begun knows of the events it will be *)
(* answerable for once it saves its end.                                   *)

Due(e, bound) == e \in Posted /\ Timely(e) /\ stamp[e] < bound - Overlap

\* Nothing saved or being read is later than now.
NotAhead ==
  /\ lastEnd # None => lastEnd <= now
  /\ \A r \in Runs : end[r] <= now

\* An event due at the end of a run is counted, read, still to be read, or it is
\* from before the window of a first run.
Answerable ==
  \A r \in Runs : pc[r] # "off" =>
    \A e \in Events : Due(e, end[r]) =>
      \/ Counted(e)
      \/ pc[r] = "fetch" /\ e \in got[r]
      \/ pc[r] = "fetch" /\ BucketOf[e] \in todo[r] /\ stamp[e] >= start[r]
      \/ first[r] /\ stamp[e] < start[r]

IInv == TypeOK /\ NotAhead /\ Answerable /\ NothingMissed

LEMMA InitIInv == Init => IInv
<1> SUFFICES ASSUME Init PROVE IInv
  OBVIOUS
<1>1. TypeOK
  BY InitTypes
<1> QED BY <1>1, AggregatorAssumption DEF Init, IInv, NotAhead, Answerable, NothingMissed

\* What is posted stays as it is, and rows and the origin only grow.
Grows ==
  /\ \A e \in Posted : came'[e] = came[e] /\ stamp'[e] = stamp[e]
  /\ rows \subseteq rows'
  /\ origin <= origin'

LEMMA NextGrows == TypeOK /\ [Next]_vars => Grows
<1> SUFFICES ASSUME TypeOK, [Next]_vars PROVE Grows
  OBVIOUS
<1> USE AggregatorAssumption DEF Grows, Posted, TypeOK
<1>1. CASE UNCHANGED vars
  BY <1>1 DEF vars, posted, store
<1>2. CASE Tick
  BY <1>2 DEF Tick, posted, store
<1>3. ASSUME NEW e \in Events, NEW t \in 0..MaxTime, Arrive(e, t) PROVE Grows
  BY <1>3 DEF Arrive, store
<1>4. ASSUME NEW r \in Runs, Begin(r) PROVE Grows
  BY <1>4 DEF Begin, posted, store
<1>5. ASSUME NEW r \in Runs, NEW b \in Buckets, Fetch(r, b) PROVE Grows
  BY <1>5 DEF Fetch, posted, store
<1>6. ASSUME NEW r \in Runs, Insert(r) PROVE Grows
  BY <1>6 DEF Insert, posted
<1>7. ASSUME NEW r \in Runs, Save(r) PROVE Grows
  BY <1>7 DEF Save, posted
<1>8. ASSUME NEW r \in Runs, Fail(r) PROVE Grows
  BY <1>8 DEF Fail, posted, store
<1> QED BY <1>1, <1>2, <1>3, <1>4, <1>5, <1>6, <1>7, <1>8 DEF Next, RunStep

\* What is counted stays counted: more events only crowd a page more.
LEMMA CountedStays ==
  ASSUME TypeOK, TypeOK', Grows, NEW e \in Posted, Counted(e)
  PROVE  Counted(e)'
<1> USE AggregatorAssumption
<1> DEFINE A == {f \in Posted : BucketOf[f] = BucketOf[e] /\ Newer(f, e)}
<1>1. e \in Events
  BY DEF Posted
<1>2. CASE e \in rows
  BY <1>2 DEF Grows, Counted
<1>3. CASE stamp[e] < origin
  BY <1>1, <1>3 DEF Grows, Counted, TypeOK
<1>4. CASE Crowded(e)
  <2> DEFINE B == {f \in Posted' : BucketOf[f] = BucketOf[e] /\ Newer(f, e)'}
  <2>1. A \subseteq B
    <3> SUFFICES ASSUME NEW f \in A PROVE f \in B
      OBVIOUS
    <3>1. f \in Posted'
      BY DEF Grows, Posted
    <3> QED BY <3>1 DEF Grows, Newer
  <2>2. IsFiniteSet(B)
    BY FS_Subset DEF Posted
  <2>3. Cardinality(A) <= Cardinality(B) /\ Cardinality(A) \in Nat /\ Cardinality(B) \in Nat
    BY <2>1, <2>2, FS_Subset, FS_CardinalityType
  <2>4. Cardinality(A) >= Limit
    BY <1>4 DEF Crowded
  <2>5. Cardinality(B) >= Limit
    BY <2>3, <2>4
  <2> QED BY <2>5 DEF Crowded, Counted
<1> QED BY <1>2, <1>3, <1>4 DEF Counted

\* An event due for a bound that the clock has reached was posted before the step.
LEMMA DueBefore ==
  ASSUME TypeOK, TypeOK', [Next]_vars, Grows, NEW e \in Events, NEW bound \in Nat, bound <= now,
         Due(e, bound)'
  PROVE  Due(e, bound)
<1> USE AggregatorAssumption
<1>1. CASE e \in Posted
  BY <1>1 DEF Due, Posted, Timely, Grows
<1>2. CASE e \notin Posted
  <2>1. came[e] = None /\ came'[e] # None
    BY <1>2 DEF Due, Posted
  <2>2. came'[e] = now
    <3>1. PICK f \in Events, t \in 0..MaxTime : Arrive(f, t)
      BY <2>1 DEF Next, vars, RunStep, Tick, Begin, Fetch, Insert, Save, Fail, posted
    <3> QED BY <2>1, <3>1 DEF Arrive, TypeOK
  <2>3. now <= stamp'[e] + Overlap
    BY <2>2 DEF Due, Timely
  <2>4. stamp'[e] < bound - Overlap
    BY DEF Due
  <2> QED BY <2>3, <2>4 DEF TypeOK
<1> QED BY <1>1, <1>2

\* A page shows every event of the window that is not crowded out.
LEMMA PageShows ==
  ASSUME TypeOK, NEW b \in Buckets, NEW s \in Int, NEW t \in Int,
         NEW e \in Window(b, s, t), e \notin Page(b, s, t)
  PROVE  Crowded(e)
<1> USE AggregatorAssumption
<1> DEFINE W == {f \in Window(b, s, t) : Newer(f, e)}
           C == {f \in Posted : BucketOf[f] = BucketOf[e] /\ Newer(f, e)}
<1>1. W \subseteq C
  BY DEF Window
<1>2. IsFiniteSet(C)
  BY FS_Subset DEF Posted
<1>3. Cardinality(W) <= Cardinality(C) /\ Cardinality(W) \in Nat /\ Cardinality(C) \in Nat
  BY <1>1, <1>2, FS_Subset, FS_CardinalityType
<1>4. ~(Cardinality(W) < Limit)
  BY DEF Page
<1>5. Cardinality(C) >= Limit
  BY <1>3, <1>4
<1> QED BY <1>5 DEF Crowded

LEMMA NextNotAhead == IInv /\ [Next]_vars => NotAhead'
<1> SUFFICES ASSUME IInv, [Next]_vars PROVE NotAhead'
  OBVIOUS
<1> USE AggregatorAssumption DEF IInv, TypeOK, NotAhead
<1>1. CASE UNCHANGED vars
  BY <1>1 DEF vars, posted, store, runs
<1>2. CASE Tick
  BY <1>2 DEF Tick, posted, store, runs
<1>3. ASSUME NEW e \in Events, NEW t \in 0..MaxTime, Arrive(e, t) PROVE NotAhead'
  BY <1>3 DEF Arrive, store, runs
<1>4. ASSUME NEW r \in Runs, Begin(r) PROVE NotAhead'
  BY <1>4 DEF Begin, posted, store
<1>5. ASSUME NEW r \in Runs, NEW b \in Buckets, Fetch(r, b) PROVE NotAhead'
  BY <1>5 DEF Fetch, posted, store
<1>6. ASSUME NEW r \in Runs, Insert(r) PROVE NotAhead'
  BY <1>6 DEF Insert, posted
<1>7. ASSUME NEW r \in Runs, Save(r) PROVE NotAhead'
  BY <1>7 DEF Save, posted
<1>8. ASSUME NEW r \in Runs, Fail(r) PROVE NotAhead'
  BY <1>8 DEF Fail, posted, store
<1> QED BY <1>1, <1>2, <1>3, <1>4, <1>5, <1>6, <1>7, <1>8 DEF Next, RunStep

\* The one disjunct of Answerable that a run r owes an event e.
Accounted(r, e) ==
  \/ Counted(e)
  \/ pc[r] = "fetch" /\ e \in got[r]
  \/ pc[r] = "fetch" /\ BucketOf[e] \in todo[r] /\ stamp[e] >= start[r]
  \/ first[r] /\ stamp[e] < start[r]

\* A run that a step leaves alone stays answerable for the same events.
LEMMA OthersAnswerable ==
  ASSUME IInv, TypeOK', Grows, [Next]_vars, NEW r \in Runs, pc[r] # "off",
         pc'[r] = pc[r], start'[r] = start[r], end'[r] = end[r], first'[r] = first[r],
         todo'[r] = todo[r], got'[r] = got[r],
         NEW e \in Events, Due(e, end[r])'
  PROVE  Accounted(r, e)'
<1>1. end[r] \in Nat /\ end[r] <= now
  BY AggregatorAssumption DEF IInv, TypeOK, NotAhead
<1>2. Due(e, end[r])
  <2> DEFINE bound == end[r]
  <2>1. Due(e, bound)'
    OBVIOUS
  <2> QED BY <1>1, DueBefore DEF IInv, Due, Timely, Posted
<1>3. Accounted(r, e)
  BY <1>2 DEF IInv, Answerable, Accounted
<1>4. e \in Posted /\ stamp'[e] = stamp[e]
  BY <1>2 DEF Due, Grows
<1>5. Counted(e) => Counted(e)'
  BY <1>4, CountedStays DEF IInv
<1> QED BY <1>3, <1>4, <1>5 DEF Accounted

\* A fetch accounts for the events of its bucket: they are read, or the page was full.
LEMMA FetchAnswerable ==
  ASSUME IInv, TypeOK', Grows, [Next]_vars, NEW r \in Runs, NEW b \in Buckets, Fetch(r, b),
         NEW e \in Events, Due(e, end[r])'
  PROVE  Accounted(r, e)'
<1>1. end[r] \in Nat /\ end[r] <= now /\ start[r] \in Int
  BY AggregatorAssumption DEF IInv, TypeOK, NotAhead
<1>2. end' = end /\ start' = start /\ first' = first /\ pc' = pc /\ pc[r] = "fetch"
  BY DEF Fetch
<1>3. Due(e, end[r])
  <2> DEFINE bound == end[r]
  <2>1. Due(e, bound)'
    OBVIOUS
  <2> QED BY <1>1, <1>2, DueBefore DEF IInv, Due, Timely, Posted
<1>4. e \in Posted /\ stamp'[e] = stamp[e]
  BY <1>3 DEF Due, Grows
<1>5. Counted(e) => Counted(e)'
  BY <1>4, CountedStays DEF IInv
<1>6. Accounted(r, e)
  BY <1>2, <1>3 DEF IInv, Answerable, Accounted
<1>7. todo'[r] = todo[r] \ {b} /\ got'[r] = got[r] \cup Page(b, start[r], end[r])
  BY DEF Fetch, IInv, TypeOK
<1>8. ASSUME BucketOf[e] = b, stamp[e] >= start[r] PROVE Counted(e) \/ e \in got'[r]
  <2>1. stamp[e] <= end[r]
    BY <1>1, <1>3, AggregatorAssumption DEF Due, IInv, TypeOK
  <2>2. e \in Window(b, start[r], end[r])
    BY <1>4, <1>8, <2>1 DEF Window
  <2> QED BY <1>1, <1>7, <2>2, PageShows DEF IInv, Counted
<1> QED BY <1>2, <1>4, <1>5, <1>6, <1>7, <1>8 DEF Accounted

\* A new window begins no later than what is counted already ends.
LEMMA BeginAnswerable ==
  ASSUME IInv, TypeOK', Grows, [Next]_vars, NEW r \in Runs, Begin(r),
         NEW e \in Events, Due(e, end[r])'
  PROVE  Accounted(r, e)'
<1>1. /\ end'[r] = now /\ start'[r] = StartTime /\ first'[r] = (lastEnd = None)
      /\ pc'[r] = "fetch" /\ todo'[r] = {BucketOf[f] : f \in Posted}
      /\ came' = came /\ stamp' = stamp
  BY DEF Begin, posted, IInv, TypeOK
<1>2. Due(e, now)
  BY <1>1 DEF Due, Posted, Timely
<1>3. e \in Posted /\ Timely(e) /\ stamp[e] \in Int
  BY <1>2, AggregatorAssumption DEF Due, IInv, TypeOK
<1>4. Counted(e) => Counted(e)'
  BY <1>3, CountedStays DEF IInv
<1>5. BucketOf[e] \in todo'[r]
  BY <1>1, <1>3
<1>6. StartTime \in Int
  BY AggregatorAssumption DEF StartTime, IInv, TypeOK
<1>7. CASE stamp[e] >= StartTime
  BY <1>1, <1>5, <1>7 DEF Accounted
<1>8. CASE stamp[e] < StartTime /\ lastEnd = None
  BY <1>1, <1>8, Zenon DEF Accounted
<1>9. CASE stamp[e] < StartTime /\ lastEnd # None
  <2>1. Counted(e)
    BY <1>3, <1>9 DEF IInv, NothingMissed, StartTime
  <2> QED BY <1>4, <2>1 DEF Accounted
<1> QED BY <1>3, <1>6, <1>7, <1>8, <1>9

\* What was read has its row once the transaction is committed.
LEMMA InsertAnswerable ==
  ASSUME IInv, TypeOK', Grows, [Next]_vars, NEW r \in Runs, Insert(r),
         NEW e \in Events, Due(e, end[r])'
  PROVE  Accounted(r, e)'
<1>1. /\ end' = end /\ start' = start /\ first' = first /\ pc[r] = "fetch" /\ todo[r] = {}
      /\ came' = came /\ stamp' = stamp /\ rows' = rows \cup got[r]
  BY DEF Insert, posted
<1>2. Due(e, end[r])
  BY <1>1 DEF Due, Posted, Timely
<1>3. e \in Posted
  BY <1>2 DEF Due
<1>4. Counted(e) => Counted(e)'
  BY <1>3, CountedStays DEF IInv
<1>5. Accounted(r, e)
  BY <1>1, <1>2 DEF IInv, Answerable, Accounted
<1>6. e \in got[r] => Counted(e)'
  BY <1>1 DEF Counted
<1> QED BY <1>1, <1>4, <1>5, <1>6 DEF Accounted

LEMMA NextAnswerable == IInv /\ [Next]_vars => Answerable'
<1> SUFFICES ASSUME IInv, [Next]_vars, NEW r \in Runs, pc'[r] # "off",
                    NEW e \in Events, Due(e, end[r])'
             PROVE  Accounted(r, e)'
  BY DEF Answerable, Accounted
<1>1. TypeOK' /\ Grows
  BY NextTypes, NextGrows DEF IInv
<1>2. ASSUME pc[r] # "off", pc'[r] = pc[r], start'[r] = start[r], end'[r] = end[r],
             first'[r] = first[r], todo'[r] = todo[r], got'[r] = got[r]
      PROVE  Accounted(r, e)'
  BY <1>1, <1>2, OthersAnswerable
<1>3. CASE UNCHANGED vars
  BY <1>2, <1>3 DEF vars, runs
<1>4. CASE Tick
  BY <1>2, <1>4 DEF Tick, runs
<1>5. ASSUME NEW f \in Events, NEW t \in 0..MaxTime, Arrive(f, t) PROVE Accounted(r, e)'
  BY <1>2, <1>5 DEF Arrive, runs
<1>6. ASSUME NEW q \in Runs, Begin(q) PROVE Accounted(r, e)'
  <2>1. CASE q = r
    BY <1>1, <1>6, <2>1, BeginAnswerable
  <2>2. CASE q # r
    BY <1>2, <1>6, <2>2 DEF Begin, IInv, TypeOK
  <2> QED BY <2>1, <2>2
<1>7. ASSUME NEW q \in Runs, NEW b \in Buckets, Fetch(q, b) PROVE Accounted(r, e)'
  <2>1. CASE q = r
    BY <1>1, <1>7, <2>1, FetchAnswerable
  <2>2. CASE q # r
    BY <1>2, <1>7, <2>2 DEF Fetch, IInv, TypeOK
  <2> QED BY <2>1, <2>2
<1>8. ASSUME NEW q \in Runs, Insert(q) PROVE Accounted(r, e)'
  <2>1. CASE q = r
    BY <1>1, <1>8, <2>1, InsertAnswerable
  <2>2. CASE q # r
    BY <1>2, <1>8, <2>2 DEF Insert, IInv, TypeOK
  <2> QED BY <2>1, <2>2
<1>9. ASSUME NEW q \in Runs, Save(q) \/ Fail(q) PROVE Accounted(r, e)'
  BY <1>2, <1>9 DEF Save, Fail, IInv, TypeOK
<1> QED BY <1>3, <1>4, <1>5, <1>6, <1>7, <1>8, <1>9 DEF Next, RunStep

\* Saving the end of a run that was answerable for its window misses nothing.
LEMMA NextNothingMissed == IInv /\ [Next]_vars => NothingMissed'
<1> SUFFICES ASSUME IInv, [Next]_vars, lastEnd' # None, NEW e \in Events, Due(e, lastEnd)'
             PROVE  Counted(e)'
  BY DEF NothingMissed, Due, Posted
<1> USE AggregatorAssumption
<1>1. TypeOK' /\ Grows
  BY NextTypes, NextGrows DEF IInv
<1>2. ASSUME lastEnd' = lastEnd PROVE Counted(e)'
  <2>1. lastEnd \in Nat /\ lastEnd <= now
    BY <1>2 DEF IInv, TypeOK, NotAhead
  <2>2. Due(e, lastEnd)
    <3> DEFINE bound == lastEnd
    <3>1. Due(e, bound)'
      OBVIOUS
    <3> QED BY <1>1, <1>2, <2>1, DueBefore DEF IInv, Due, Timely, Posted
  <2>3. Counted(e)
    BY <2>1, <2>2 DEF IInv, NothingMissed, Due
  <2> QED BY <1>1, <2>2, <2>3, CountedStays DEF IInv, Due
<1>3. ASSUME NEW r \in Runs, Save(r) PROVE Counted(e)'
  <2>1. /\ lastEnd' = end[r] /\ pc[r] = "save" /\ came' = came /\ stamp' = stamp
        /\ origin' = IF first[r] /\ start[r] > origin THEN start[r] ELSE origin
    BY <1>3 DEF Save, posted
  <2>2. Due(e, end[r])
    BY <2>1 DEF Due, Posted, Timely
  <2>3. Counted(e) \/ (first[r] /\ stamp[e] < start[r])
    BY <2>1, <2>2 DEF IInv, Answerable
  <2>4. Counted(e) => Counted(e)'
    BY <1>1, <2>2, CountedStays DEF IInv, Due
  <2>5. ASSUME first[r], stamp[e] < start[r] PROVE Counted(e)'
    <3>1. origin' >= start[r]
      <4>1. CASE start[r] > origin
        <5>1. origin' = start[r]
          BY <2>1, <2>5, <4>1, Zenon
        <5> QED BY <5>1 DEF IInv, TypeOK
      <4>2. CASE ~(start[r] > origin)
        <5>1. origin' = origin
          BY <2>1, <4>2, Zenon
        <5> QED BY <4>2, <5>1 DEF IInv, TypeOK
      <4> QED BY <4>1, <4>2
    <3>2. stamp'[e] < origin'
      BY <1>1, <2>1, <2>5, <3>1 DEF IInv, TypeOK
    <3> QED BY <3>2 DEF Counted
  <2> QED BY <2>3, <2>4, <2>5
<1>4. CASE lastEnd' = lastEnd
  BY <1>2, <1>4
<1> QED BY <1>3, <1>4 DEF Next, vars, store, RunStep, Tick, Arrive, Begin, Fetch, Insert, Fail

\* However runs overlap, fail and take their time, an event behind the saved window that
\* came at most the overlap late has its row, unless newer events filled a page or it is
\* older than the first window (NothingMissed).
THEOREM AggregatorMissesNothing == Spec => []NothingMissed
<1>1. Init => IInv
  BY InitIInv
<1>2. IInv /\ [Next]_vars => IInv'
  <2> SUFFICES ASSUME IInv, [Next]_vars PROVE IInv'
    OBVIOUS
  <2>1. TypeOK'
    BY NextTypes DEF IInv
  <2> QED BY <2>1, NextNotAhead, NextAnswerable, NextNothingMissed DEF IInv
<1>3. IInv => NothingMissed
  BY DEF IInv
<1> QED BY <1>1, <1>2, <1>3, PTL DEF Spec
=============================================================================
