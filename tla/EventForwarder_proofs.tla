------------------------ MODULE EventForwarder_proofs ------------------------
(***************************************************************************)
(* What the three forwarders guarantee for any number of incidents, buckets*)
(* and hooks, any page limit, and any number of faults.                    *)
(***************************************************************************)
EXTENDS EventForwarder, FiniteSetTheorems, WellFoundedInduction, TLAPS

\* A nonempty set of naturals below a bound has a greatest element.
LEMMA HasGreatest ==
  ASSUME NEW n \in Nat, NEW S \in SUBSET (0..n), S # {}
  PROVE  \E m \in S : \A k \in S : k <= m
<1> DEFINE T == {n - k : k \in S}
<1>0. \A k \in S : k \in 0..n /\ n - k \in Nat
  OBVIOUS
<1>1. T \subseteq Nat /\ T # {}
  BY <1>0
<1>2. PICK x \in T : \A y \in T : ~ (<<y, x>> \in OpToRel(<, Nat))
  BY <1>1, NatLessThanWellFounded, WFMin
<1>3. \A y \in T : ~ (y < x)
  BY <1>1, <1>2 DEF OpToRel
<1>4. PICK m \in S : x = n - m
  BY <1>2
<1>5. \A k \in S : n - k \in T /\ ~ (n - k < n - m)
  BY <1>3, <1>4
<1>6. QED
  BY <1>4, <1>5

\* bucket_max is an id the server gave, not below the cursor, and not below any
\* incident of the page that is above the cursor.
LEMMA NewHighIs ==
  ASSUME TypeOK, NEW b \in Buckets, \A e \in Ids : Arrived(e) => e <= top
  PROVE  /\ NewHigh(b) \in 0..top
         /\ cursor[b] <= NewHigh(b)
         /\ \A e \in Above(b) : e <= NewHigh(b)
<1> DEFINE S == Above(b)
<1>1. top \in Nat /\ cursor[b] \in 0..top
  BY ForwarderAssumption DEF TypeOK
<1>2. S \in SUBSET (0..top)
  BY <1>1, ForwarderAssumption DEF Above, Page, In, Arrived, Ids
<1>3. CASE S = {}
  BY <1>1, <1>3 DEF NewHigh, Highest
<1>4. CASE S # {}
  <2>1. \E m \in S : \A k \in S : k <= m
    BY <1>1, <1>2, <1>4, HasGreatest
  <2>2. NewHigh(b) \in S /\ \A k \in S : k <= NewHigh(b)
    BY <1>4, <2>1 DEF NewHigh, Highest
  <2>3. NewHigh(b) > cursor[b]
    BY <2>2 DEF Above
  <2>4. QED
    BY <1>1, <1>2, <2>2, <2>3
<1>5. QED
  BY <1>3, <1>4
-----------------------------------------------------------------------------
(* What a run holds agrees with what the server has.                       *)

Given    == \A e \in Ids : Arrived(e) <=> e <= top
RunState ==
  /\ pc = "idle" => left = {} /\ work = {} /\ high = Start
  /\ pc = "send" => left = {}
Held     ==
  \A e \in Ids, s \in Hooks \cup {0} : <<e, s>> \in work =>
    /\ pc # "idle"
    /\ Arrived(e)
    /\ event[e].bucket \notin left
    /\ e <= high[event[e].bucket]
Base     == TypeOK /\ Given /\ RunState /\ Held

LEMMA BaseInit == Init => Base
<1> SUFFICES ASSUME Init PROVE Base
  OBVIOUS
<1> USE ForwarderAssumption
<1>1. TypeOK
  BY DEF Init, TypeOK, Start, Items
<1>2. Given /\ RunState /\ Held
  BY DEF Init, Given, RunState, Held, Arrived, Ids
<1> QED
  BY <1>1, <1>2 DEF Base

\* The incident a new id gets is the only one that changes.
LEMMA InsertKeeps ==
  ASSUME Base, NEW b \in Buckets, NEW t \in Times, Insert(b, t)
  PROVE  /\ \A e \in Ids : Arrived(e) => e <= top /\ event'[e] = event[e] /\ Arrived(e)'
         /\ \A e \in Ids : Arrived(e)' <=> Arrived(e) \/ e = top + 1
         /\ ~ Arrived(top + 1) /\ top + 1 \in Ids
<1> USE ForwarderAssumption
<1>1. top \in 0..MaxId /\ top + 1 \in Ids /\ event \in [Ids -> Event \cup {NoEvent}]
  BY DEF Base, TypeOK, Insert, Ids
<1>2. ~ Arrived(top + 1)
  BY <1>1 DEF Base, Given, Ids
<1>3. event' = [event EXCEPT ![top + 1] = [bucket |-> b, time |-> t]]
  BY DEF Insert
<1>4. [bucket |-> b, time |-> t] # NoEvent
  BY DEF Event
<1>5. \A e \in Ids : e # top + 1 => event'[e] = event[e]
  BY <1>1, <1>3
<1>6. event'[top + 1] # NoEvent
  BY <1>1, <1>3, <1>4
<1>7. \A e \in Ids : Arrived(e) => e <= top
  BY DEF Base, Given
<1>8. \A e \in Ids : Arrived(e) => e # top + 1
  BY <1>2
<1>9. \A e \in Ids : e # top + 1 => (Arrived(e)' <=> Arrived(e))
  BY <1>5 DEF Arrived
<1>10. \A e \in Ids : e = top + 1 => Arrived(e)'
  BY <1>6 DEF Arrived
<1> QED
  BY <1>1, <1>2, <1>5, <1>7, <1>8, <1>9, <1>10

LEMMA BaseStep == Base /\ [Next]_vars => Base'
<1> SUFFICES ASSUME Base, [Next]_vars PROVE Base'
  OBVIOUS
<1> USE ForwarderAssumption DEF server, runs
<1>0. TypeOK /\ Given /\ RunState /\ Held /\ top \in Nat
  BY DEF Base, TypeOK
<1>1. ASSUME NEW b \in Buckets, NEW t \in Times, Insert(b, t) PROVE Base'
  <2>1. event' \in [Ids -> Event \cup {NoEvent}]
    BY <1>0, <1>1 DEF Insert, TypeOK, Event
  <2>2. TypeOK'
    BY <1>0, <1>1, <2>1 DEF Insert, TypeOK, Sinks
  <2>3. Given'
    <3>1. top' = top + 1
      BY <1>1 DEF Insert
    <3>2. ASSUME NEW e \in Ids PROVE Arrived(e)' <=> e <= top'
      <4>1. e \in Nat /\ (Arrived(e) <=> e <= top)
        BY <1>0 DEF Given, Ids
      <4>2. Arrived(e)' <=> Arrived(e) \/ e = top + 1
        BY <1>1, InsertKeeps
      <4> QED
        BY <1>0, <3>1, <4>1, <4>2
    <3> QED
      BY <3>2 DEF Given
  <2>4. RunState'
    BY <1>0, <1>1 DEF Insert, RunState
  <2>5. Held'
    <3>1. ASSUME NEW e \in Ids, Arrived(e) PROVE event'[e] = event[e] /\ Arrived(e)'
      BY <1>1, <3>1, InsertKeeps
    <3>2. work' = work /\ pc' = pc /\ left' = left /\ high' = high
      BY <1>1 DEF Insert
    <3> QED
      BY <1>0, <3>1, <3>2 DEF Held
  <2> QED
    BY <2>2, <2>3, <2>4, <2>5 DEF Base
<1>2. CASE Begin
  <2>1. TypeOK'
    BY <1>0, <1>2 DEF Begin, TypeOK, Sinks
  <2>2. Given' /\ RunState' /\ Held'
    BY <1>0, <1>2 DEF Begin, Given, RunState, Held, Arrived
  <2> QED
    BY <2>1, <2>2 DEF Base
<1>3. CASE SendPhase
  <2>1. TypeOK'
    BY <1>0, <1>3 DEF SendPhase, TypeOK, Sinks
  <2>2. Given' /\ RunState' /\ Held'
    BY <1>0, <1>3 DEF SendPhase, Given, RunState, Held, Arrived
  <2> QED
    BY <2>1, <2>2 DEF Base
<1>4. CASE Save
  <2>1. TypeOK'
    BY <1>0, <1>4 DEF Save, Ended, TypeOK, Sinks, Start
  <2>2. Given' /\ RunState' /\ Held'
    BY <1>0, <1>4 DEF Save, Ended, Given, RunState, Held, Arrived
  <2> QED
    BY <2>1, <2>2 DEF Base
<1>5. CASE Die
  <2>1. TypeOK'
    BY <1>0, <1>5 DEF Die, Ended, TypeOK, Sinks, Start
  <2>2. Given' /\ RunState' /\ Held'
    BY <1>0, <1>5 DEF Die, Ended, Given, RunState, Held, Arrived
  <2> QED
    BY <2>1, <2>2 DEF Base
<1>6. ASSUME NEW b \in Buckets, Fetch(b) PROVE Base'
  <2>1. NewHigh(b) \in 0..top /\ \A e \in Above(b) : e <= NewHigh(b)
    BY <1>0, NewHighIs DEF Given
  <2>2. \A e \in Above(b) : e \in Ids /\ Arrived(e) /\ event[e].bucket = b
    BY DEF Above, Page, In, Arrived
  <2>3. Above(b) \X Sinks \subseteq Ids \X Sinks
    BY <2>2
  <2>4. TypeOK'
    BY <1>0, <1>6, <2>1, <2>3 DEF Fetch, TypeOK, Sinks
  <2>5. Given' /\ RunState'
    BY <1>0, <1>6 DEF Fetch, Given, RunState, Arrived
  <2>6. high' = [high EXCEPT ![b] = NewHigh(b)] /\ high \in [Buckets -> 0..top]
    BY <1>0, <1>6 DEF Fetch, TypeOK
  <2>7. ASSUME NEW e \in Ids, NEW s \in Hooks \cup {0}, (<<e, s>> \in work)'
        PROVE  /\ pc' # "idle" /\ Arrived(e)' /\ event'[e].bucket \notin left'
               /\ e <= high'[event'[e].bucket]
    <3>1. CASE <<e, s>> \in work
      <4>1. b \in left
        BY <1>6 DEF Fetch, IsNext
      <4>2. event[e].bucket # b
        BY <1>0, <3>1, <4>1 DEF Held
      <4> QED
        BY <1>0, <1>6, <2>6, <3>1, <4>2 DEF Held, Fetch, Arrived
    <3>2. CASE e \in Above(b)
      BY <1>6, <2>1, <2>2, <2>6, <3>2 DEF Fetch, Arrived
    <3> QED
      BY <1>6, <2>7, <3>1, <3>2 DEF Fetch
  <2>8. Held'
    BY <2>7 DEF Held
  <2> QED
    BY <2>4, <2>5, <2>8 DEF Base
<1>7. ASSUME NEW b \in Buckets, FetchFails(b) PROVE Base'
  <2>1. TypeOK'
    <3>1. CASE left' = left \ {b} /\ UNCHANGED <<pc, high, work, attempt>>
      BY <1>0, <1>7, <3>1 DEF FetchFails, TypeOK, Sinks
    <3>2. CASE kind # "syslog" /\ Ended
      BY <1>0, <1>7, <3>2 DEF FetchFails, Ended, TypeOK, Sinks, Start
    <3> QED
      BY <1>7, <3>1, <3>2 DEF FetchFails
  <2>2. Given' /\ RunState' /\ Held'
    BY <1>0, <1>7 DEF FetchFails, Ended, Given, RunState, Held, Arrived
  <2> QED
    BY <2>1, <2>2 DEF Base
<1>8. ASSUME NEW i \in Items, Send(i) PROVE Base'
  <2>1. sent' \in [Items -> Nat]
    BY <1>0, <1>8 DEF Send, TypeOK
  <2>2. TypeOK'
    BY <1>0, <1>8, <2>1 DEF Send, TypeOK, Sinks
  <2>3. Given' /\ RunState' /\ Held'
    BY <1>0, <1>8 DEF Send, Given, RunState, Held, Arrived
  <2> QED
    BY <2>2, <2>3 DEF Base
<1>9. ASSUME NEW i \in Items, SendFails(i) PROVE Base'
  <2>1. sent' \in [Items -> Nat]
    BY <1>0, <1>9 DEF SendFails, TypeOK
  <2>2. TypeOK'
    <3>1. CASE kind # "webhook" /\ Ended /\ UNCHANGED dropped
      BY <1>0, <1>9, <2>1, <3>1 DEF SendFails, Ended, TypeOK, Sinks, Start
    <3>2. CASE kind = "webhook"
      <4>1. attempt' \in 0..(Retries - 1) /\ dropped' \subseteq Items
            /\ work' \subseteq Ids \X Sinks
        BY <1>0, <1>9, <3>2 DEF SendFails, TypeOK
      <4>2. UNCHANGED <<pc, left, high>>
        BY <1>9, <3>2 DEF SendFails
      <4> QED
        BY <1>0, <1>9, <2>1, <4>1, <4>2 DEF SendFails, TypeOK, Sinks
    <3> QED
      BY <1>9, <3>1, <3>2 DEF SendFails
  <2>3. Given' /\ RunState' /\ Held'
    BY <1>0, <1>9 DEF SendFails, Ended, Given, RunState, Held, Arrived
  <2> QED
    BY <2>2, <2>3 DEF Base
<1>10. CASE BeginBlank
  <2>1. TypeOK'
    BY <1>0, <1>10 DEF BeginBlank, TypeOK, Sinks
  <2>2. Given' /\ RunState' /\ Held'
    BY <1>0, <1>10 DEF BeginBlank, Given, RunState, Held, Arrived
  <2> QED
    BY <2>1, <2>2 DEF Base
<1>11. CASE UNCHANGED vars
  BY <1>0, <1>11 DEF vars, Base, TypeOK, Given, RunState, Held, Arrived, Sinks
<1> QED
  BY <1>1, <1>2, <1>3, <1>4, <1>5, <1>6, <1>7, <1>8, <1>9, <1>10, <1>11 DEF Next, Step

\* Every step of a run, of the server and of a fault keeps the types, and what a run
\* has in memory agrees with the incidents the server gave out.
THEOREM RunTypes == Spec => []TypeOK
<1>1. Base => TypeOK
  BY DEF Base
<1> QED
  BY <1>1, BaseInit, BaseStep, PTL DEF Spec

-----------------------------------------------------------------------------
(* Nothing is passed over in silence.                                      *)

\* Ids are finite, so the incidents before one are counted by a number.
LEMMA AheadIsFinite == \A e \in Ids : IsFiniteSet(Ahead(e)) /\ Cardinality(Ahead(e)) \in Nat
<1>1. IsFiniteSet(Ids)
  BY FS_Interval, ForwarderAssumption DEF Ids
<1>2. \A e \in Ids : Ahead(e) \subseteq Ids
  BY DEF Ahead, In
<1> QED
  BY <1>1, <1>2, FS_Subset, FS_CardinalityType

\* An incident that is not on the page of its bucket is pushed out.
LEMMA OutOfPage ==
  \A e \in Ids : Arrived(e) /\ e \notin Page(event[e].bucket) => PushedOut(e)
<1> SUFFICES ASSUME NEW e \in Ids, Arrived(e), e \notin Page(event[e].bucket)
             PROVE  PushedOut(e)
  OBVIOUS
<1>1. ~ (Cardinality(Ahead(e)) < Limit)
  BY DEF Page, In, Arrived
<1> QED
  BY <1>1, AheadIsFinite, ForwarderAssumption DEF PushedOut

\* What is pushed out never comes back.
LEMMA PushedOutStays ==
  ASSUME Base, [Next]_vars
  PROVE  \A e \in Ids : Arrived(e) => /\ Arrived(e)' /\ event'[e] = event[e]
                                      /\ PushedOut(e) => PushedOut(e)'
<1> USE ForwarderAssumption
<1> SUFFICES ASSUME NEW e \in Ids, Arrived(e)
             PROVE  /\ Arrived(e)' /\ event'[e] = event[e]
                    /\ PushedOut(e) => PushedOut(e)'
  OBVIOUS
<1>1. CASE event' = event
  BY <1>1 DEF Arrived, PushedOut, Ahead, In, Newer
<1>2. ASSUME NEW b \in Buckets, NEW t \in Times, Insert(b, t)
      PROVE  /\ Arrived(e)' /\ event'[e] = event[e]
             /\ PushedOut(e) => PushedOut(e)'
  <2>1. \A d \in Ids : Arrived(d) => Arrived(d)' /\ event'[d] = event[d]
    BY <1>2, InsertKeeps
  <2>2. Ahead(e) \subseteq Ahead(e)'
    BY <2>1 DEF Ahead, In, Newer, Arrived
  <2>3. IsFiniteSet(Ahead(e)') /\ Cardinality(Ahead(e)') \in Nat
    <3>1. IsFiniteSet(Ids) /\ Ahead(e)' \subseteq Ids
      BY FS_Interval DEF Ids, Ahead, In
    <3> QED
      BY <3>1, FS_Subset, FS_CardinalityType
  <2>4. Cardinality(Ahead(e)) <= Cardinality(Ahead(e)') /\ Cardinality(Ahead(e)) \in Nat
    BY <2>2, <2>3, FS_Subset, AheadIsFinite
  <2>5. PushedOut(e) => PushedOut(e)'
    BY <2>3, <2>4, ForwarderAssumption DEF PushedOut
  <2> QED
    BY <2>1, <2>5
<1> QED
  BY <1>1, <1>2 DEF Next, Step, vars, server, Begin, BeginBlank, SendPhase, Save, Fetch, Send,
     FetchFails, SendFails, Die

\* What a run has read up to its new high mark it still holds, or it is accounted for.
InHand ==
  \A e \in Ids, s \in Sinks :
    Arrived(e) /\ e <= high[event[e].bucket] => Accounted(e, s) \/ <<e, s>> \in work
Explained == Base /\ CursorExplained /\ InHand

LEMMA ExplainedStep == Explained /\ [Next]_vars => Explained'
<1> SUFFICES ASSUME Explained, [Next]_vars PROVE Explained'
  OBVIOUS
<1> USE ForwarderAssumption DEF server, runs
<1>0. Base /\ CursorExplained /\ InHand /\ TypeOK /\ Given /\ RunState
  BY DEF Explained, Base
<1>a. Base'
  BY <1>0, BaseStep
<1>b. Sinks' = Sinks
  BY DEF Next, Step, vars, Insert, Begin, BeginBlank, SendPhase, Save, Fetch, Send,
     FetchFails, SendFails, Die, Sinks
<1>c. Sinks \subseteq Hooks \cup {0}
  BY DEF Sinks
<1>d. \A e \in Ids : Arrived(e) => e <= top
  BY <1>0 DEF Given
<1>e. (\A x \in Items : sent[x] > 0 => sent'[x] > 0) /\ dropped \subseteq dropped'
  <2>1. CASE sent' = sent
    BY <2>1 DEF Next, Step, vars, Insert, Begin, BeginBlank, SendPhase, Save, Fetch, Send,
       FetchFails, SendFails, Die
  <2>2. ASSUME NEW i \in Items, Send(i) \/ SendFails(i)
        PROVE  (\A x \in Items : sent[x] > 0 => sent'[x] > 0) /\ dropped \subseteq dropped'
    <3>1. sent' = sent \/ sent' = [sent EXCEPT ![i] = @ + 1]
      BY <2>2 DEF Send, SendFails
    <3>2. \A x \in Items : sent[x] \in Nat
      BY <1>0 DEF TypeOK
    <3>3. dropped \subseteq dropped'
      BY <2>2 DEF Send, SendFails
    <3> QED
      BY <1>0, <3>1, <3>2, <3>3 DEF TypeOK
  <2> QED
    BY <2>1, <2>2 DEF Next, Step, vars, Insert, Begin, BeginBlank, SendPhase, Save, Fetch,
     FetchFails, Die
<1>f. \A e \in Ids, s \in Sinks : Accounted(e, s) => Accounted(e, s)'
  <2> SUFFICES ASSUME NEW e \in Ids, NEW s \in Sinks, Accounted(e, s) PROVE Accounted(e, s)'
    OBVIOUS
  <2>1. <<e, s>> \in Items
    BY <1>c DEF Items
  <2>2. sent[<<e, s>>] > 0 => sent'[<<e, s>>] > 0
    BY <2>1, <1>e
  <2> QED
    BY <2>2, <1>0, <1>e, PushedOutStays DEF Accounted
\* A step that keeps the incidents and the saved cursors keeps what is said of them.
<1>g. (event' = event /\ cursor' = cursor) => CursorExplained'
  BY <1>0, <1>b, <1>f DEF CursorExplained, Arrived
\* A run that has ended holds nothing and has read nothing.
<1>h. Ended => InHand'
  <2> SUFFICES ASSUME Ended, NEW e \in Ids, NEW s \in Sinks', Arrived(e)',
                      e <= high'[event'[e].bucket]
               PROVE  FALSE
    BY DEF InHand
  <2>1. event'[e].bucket \in Buckets /\ e \in 1..MaxId
    BY <1>a DEF Base, TypeOK, Event, Arrived, Ids
  <2> QED
    BY <2>1 DEF Ended, Start
<1>1. ASSUME NEW b \in Buckets, NEW t \in Times, Insert(b, t)
      PROVE  CursorExplained' /\ InHand'
  <2>1. cursor' = cursor /\ high' = high /\ work' = work /\ top \in Nat
    BY <1>0, <1>1 DEF Insert, TypeOK
  <2>2. ASSUME NEW e \in Ids, NEW s \in Sinks, Arrived(e)', ~ Arrived(e)
        PROVE  ~ (e <= cursor[event'[e].bucket]) /\ ~ (e <= high[event'[e].bucket])
    <3>1. e = top + 1
      BY <1>0, <1>1, <2>2, InsertKeeps
    <3>2. event'[e].bucket \in Buckets
      BY <1>a, <2>2 DEF Base, TypeOK, Event, Arrived
    <3>3. cursor[event'[e].bucket] \in 0..top /\ high[event'[e].bucket] \in 0..top
      BY <1>0, <3>2 DEF TypeOK
    <3> QED
      BY <2>1, <3>1, <3>3
  <2>3. \A e \in Ids : Arrived(e) => event'[e] = event[e]
    BY <1>0, <1>1, InsertKeeps
  <2>4. CursorExplained'
    BY <1>0, <1>b, <1>f, <2>1, <2>2, <2>3 DEF CursorExplained
  <2>5. InHand'
    BY <1>0, <1>b, <1>f, <2>1, <2>2, <2>3 DEF InHand
  <2> QED
    BY <2>4, <2>5
<1>2. ASSUME Begin \/ BeginBlank \/ SendPhase PROVE CursorExplained' /\ InHand'
  <2>1. UNCHANGED <<event, cursor, high, work>>
    BY <1>2 DEF Begin, BeginBlank, SendPhase
  <2> QED
    BY <1>0, <1>b, <1>f, <1>g, <2>1 DEF InHand, Arrived
<1>3. ASSUME Save PROVE CursorExplained' /\ InHand'
  <2>1. cursor' = high /\ event' = event /\ work = {} /\ Ended
    BY <1>3 DEF Save, Saving
  <2>2. CursorExplained'
    BY <1>0, <1>b, <1>f, <2>1 DEF CursorExplained, InHand, Arrived
  <2> QED
    BY <1>h, <2>1, <2>2
<1>4. ASSUME Die PROVE CursorExplained' /\ InHand'
  <2>1. event' = event /\ Ended /\ cursor' \in {cursor, Start}
    BY <1>4 DEF Die
  <2>2. CASE cursor' = Start
    <3> SUFFICES ASSUME NEW e \in Ids, NEW s \in Sinks', Arrived(e)',
                        e <= cursor'[event'[e].bucket]
                 PROVE  FALSE
      BY <1>h, <2>1 DEF CursorExplained
    <3>1. event'[e].bucket \in Buckets /\ e \in 1..MaxId
      BY <1>a DEF Base, TypeOK, Event, Arrived, Ids
    <3> QED
      BY <2>2, <3>1 DEF Start
  <2> QED
    BY <1>g, <1>h, <2>1, <2>2
<1>5. ASSUME NEW b \in Buckets, Fetch(b) PROVE CursorExplained' /\ InHand'
  <2>1. /\ event' = event /\ cursor' = cursor /\ work' = work \cup (Above(b) \X Sinks)
        /\ high' = [high EXCEPT ![b] = NewHigh(b)]
    BY <1>5 DEF Fetch
  <2>2. ASSUME NEW e \in Ids, NEW s \in Sinks, Arrived(e), e <= high'[event[e].bucket]
        PROVE  Accounted(e, s) \/ <<e, s>> \in work'
    <3>1. CASE event[e].bucket # b
      <4>1. event[e].bucket \in Buckets
        BY <1>0, <2>2 DEF TypeOK, Event, Arrived
      <4>2. high'[event[e].bucket] = high[event[e].bucket]
        BY <1>0, <2>1, <3>1, <4>1 DEF TypeOK
      <4> QED
        BY <1>0, <2>1, <2>2, <4>2 DEF InHand
    <3>2. CASE event[e].bucket = b /\ e \notin Page(b)
      BY <2>2, <3>2, OutOfPage DEF Accounted
    <3>3. CASE event[e].bucket = b /\ e \in Above(b)
      BY <2>1, <3>3
    <3>4. CASE event[e].bucket = b /\ ~ (e > cursor[b])
      <4>1. e \in Nat /\ cursor[b] \in Nat
        BY <1>0 DEF TypeOK, Ids
      <4> QED
        BY <1>0, <2>2, <3>4, <4>1 DEF CursorExplained
    <3> QED
      BY <3>1, <3>2, <3>3, <3>4 DEF Above
  <2>3. InHand'
    BY <1>b, <1>f, <2>1, <2>2 DEF InHand, Arrived
  <2> QED
    BY <1>g, <2>1, <2>3
<1>6. ASSUME NEW b \in Buckets, FetchFails(b) PROVE CursorExplained' /\ InHand'
  <2>1. event' = event /\ cursor' = cursor /\ (Ended \/ UNCHANGED <<high, work>>)
    BY <1>6 DEF FetchFails
  <2> QED
    BY <1>0, <1>b, <1>f, <1>g, <1>h, <2>1 DEF InHand, Arrived
<1>7. ASSUME NEW i \in Items, Send(i) \/ SendFails(i) PROVE CursorExplained' /\ InHand'
  <2>1. event' = event /\ cursor' = cursor
    BY <1>7 DEF Send, SendFails
  <2>2. CASE ~ Ended
    <3>1. high' = high /\ work \subseteq work' \cup {i}
      BY <1>7, <2>2 DEF Send, SendFails
    <3>2. i \in work' \/ sent'[i] > 0 \/ i \in dropped'
      <4>1. CASE Send(i)
        <5>1. sent[i] \in Nat /\ sent'[i] = sent[i] + 1
          BY <1>0, <4>1 DEF Send, TypeOK
        <5> QED
          BY <5>1
      <4>2. CASE SendFails(i)
        BY <2>2, <4>2 DEF SendFails, Turn
      <4> QED
        BY <1>7, <4>1, <4>2
    <3>3. ASSUME NEW e \in Ids, NEW s \in Sinks, Arrived(e), e <= high[event[e].bucket]
          PROVE  Accounted(e, s)' \/ <<e, s>> \in work'
      <4>1. CASE Accounted(e, s)
        BY <1>f, <4>1
      <4>2. CASE <<e, s>> \in work /\ <<e, s>> # i
        BY <3>1, <4>2
      <4>3. CASE <<e, s>> = i
        BY <2>1, <3>2, <3>3, <4>3 DEF Accounted, Arrived
      <4> QED
        BY <1>0, <3>3, <4>1, <4>2, <4>3 DEF InHand
    <3>4. InHand'
      BY <1>b, <2>1, <3>1, <3>3 DEF InHand, Arrived
    <3> QED
      BY <1>g, <2>1, <3>4
  <2> QED
    BY <1>g, <1>h, <2>1, <2>2
<1>8. ASSUME UNCHANGED vars PROVE CursorExplained' /\ InHand'
  BY <1>0, <1>8, <1>b, <1>f, <1>g DEF vars, InHand, Arrived
<1> QED
  BY <1>a, <1>1, <1>2, <1>3, <1>4, <1>5, <1>6, <1>7, <1>8 DEF Next, Step, Explained

\* Whatever pages are read, whatever fails and whenever a program dies, the saved cursor
\* never passes an incident that was neither sent, given up nor pushed out.
THEOREM CursorNeverSilent == Spec => []CursorExplained
<1>1. Init => Explained
  <2> SUFFICES ASSUME Init PROVE Explained
    OBVIOUS
  <2>1. Base
    BY BaseInit
  <2>2. \A e \in Ids : ~ Arrived(e)
    BY DEF Init, Arrived
  <2> QED
    BY <2>1, <2>2 DEF Explained, CursorExplained, InHand
<1>2. Explained => CursorExplained
  BY DEF Explained
<1> QED
  BY <1>1, <1>2, ExplainedStep, PTL DEF Spec

-----------------------------------------------------------------------------
(* Repetitions are paid for by faults.                                     *)

\* This run will not send the incident to the sink (again).
Past(e, s) ==
  IF pc = "idle" \/ event[e].bucket \in left
    THEN e <= cursor[event[e].bucket]
    ELSE e <= high[event[e].bucket] /\ <<e, s>> \notin work

Paid ==
  \A e \in Ids, s \in Hooks \cup {0} :
    /\ sent[<<e, s>>] <= 1 + faults
    /\ ~ Arrived(e) => sent[<<e, s>>] = 0
    /\ Arrived(e) /\ ~ Past(e, s) => sent[<<e, s>>] <= faults

LEMMA PaidStep == Base /\ Paid /\ [Next]_vars => Paid'
<1> SUFFICES ASSUME Base, Paid, [Next]_vars, NEW e \in Ids, NEW s \in Hooks \cup {0}
             PROVE  (/\ sent[<<e, s>>] <= 1 + faults
                     /\ ~ Arrived(e) => sent[<<e, s>>] = 0
                     /\ Arrived(e) /\ ~ Past(e, s) => sent[<<e, s>>] <= faults)'
  BY DEF Paid
<1> DEFINE Goal == /\ sent[<<e, s>>] <= 1 + faults
                   /\ ~ Arrived(e) => sent[<<e, s>>] = 0
                   /\ Arrived(e) /\ ~ Past(e, s) => sent[<<e, s>>] <= faults
<1> USE ForwarderAssumption DEF server, runs
<1>0. Base' /\ TypeOK /\ Given /\ RunState /\ Held
  BY BaseStep DEF Base
<1>a. /\ e \in Nat /\ faults \in Nat /\ sent[<<e, s>>] \in Nat /\ <<e, s>> \in Items
      /\ Arrived(e) => event[e].bucket \in Buckets
  BY <1>0 DEF TypeOK, Items, Ids, Event, Arrived
<1>b. Goal
  BY DEF Paid
\* A fault pays for one repetition.
<1>c. ASSUME faults' = faults + 1, event' = event,
             sent'[<<e, s>>] <= sent[<<e, s>>] \/
             (<<e, s>> \in work /\ pc = "send" /\ sent'[<<e, s>>] <= sent[<<e, s>>] + 1)
      PROVE  Goal'
  <2>1. Arrived(e)' = Arrived(e)
    BY <1>c DEF Arrived
  <2>2. CASE sent'[<<e, s>>] <= sent[<<e, s>>]
    <3>1. sent'[<<e, s>>] \in Nat
      BY <1>0, <1>a DEF Base, TypeOK, Items
    <3> QED
      BY <1>a, <1>b, <1>c, <2>1, <2>2, <3>1
  <2>3. CASE <<e, s>> \in work /\ pc = "send" /\ sent'[<<e, s>>] <= sent[<<e, s>>] + 1
    <3>1. Arrived(e) /\ ~ Past(e, s)
      BY <1>0, <2>3 DEF Held, Past
    <3>2. sent'[<<e, s>>] \in Nat
      BY <1>0, <1>a DEF Base, TypeOK, Items
    <3> QED
      BY <1>a, <1>b, <1>c, <2>1, <2>3, <3>1, <3>2
  <2> QED
    BY <1>c, <2>2, <2>3
\* A step that sends nothing and takes nothing out of what is past keeps the debt.
<1>d. ASSUME UNCHANGED <<faults, event, sent>>, Arrived(e) /\ Past(e, s) => Past(e, s)'
      PROVE  Goal'
  BY <1>b, <1>d DEF Arrived
<1>1. ASSUME NEW b \in Buckets, NEW t \in Times, Insert(b, t) PROVE Goal'
  <2>1. UNCHANGED <<sent, faults, pc, left, high, work, cursor>>
    BY <1>1 DEF Insert
  <2>2. CASE Arrived(e)
    <3>1. event'[e] = event[e] /\ Arrived(e)'
      BY <1>1, <2>2, InsertKeeps
    <3> QED
      BY <1>b, <2>1, <2>2, <3>1 DEF Past
  <2>3. CASE ~ Arrived(e)
    <3>1. sent'[<<e, s>>] = 0
      BY <1>b, <2>1, <2>3
    <3> QED
      BY <1>a, <2>1, <3>1
  <2> QED
    BY <2>2, <2>3
<1>2. ASSUME Begin PROVE Goal'
  <2>1. UNCHANGED <<faults, event, sent, cursor>> /\ pc = "idle" /\ pc' = "fetch"
        /\ left' = {b \in Buckets : In(b) # {}}
    BY <1>2 DEF Begin
  <2>2. Arrived(e) => event[e].bucket \in left'
    BY <1>a, <2>1 DEF In, Arrived
  <2> QED
    BY <1>d, <2>1, <2>2 DEF Past
<1>3. ASSUME SendPhase PROVE Goal'
  BY <1>3, <1>d DEF SendPhase, Past
<1>4. ASSUME Save PROVE Goal'
  <2>1. UNCHANGED <<faults, event, sent>> /\ pc = "send" /\ left = {} /\ cursor' = high
        /\ pc' = "idle"
    BY <1>4, <1>0 DEF Save, Saving, Ended, RunState
  <2> QED
    BY <1>d, <2>1 DEF Past
<1>5. ASSUME Die PROVE Goal'
  BY <1>5, <1>a, <1>c DEF Die
<1>6. ASSUME NEW b \in Buckets, Fetch(b) PROVE Goal'
  <2>1. /\ UNCHANGED <<faults, event, sent, cursor, pc>> /\ pc = "fetch" /\ b \in left
        /\ left' = left \ {b} /\ work' = work \cup (Above(b) \X Sinks)
        /\ high' = [high EXCEPT ![b] = NewHigh(b)]
    BY <1>6 DEF Fetch, IsNext
  <2>2. ASSUME Arrived(e), Past(e, s) PROVE Past(e, s)'
    <3>1. CASE event[e].bucket = b
      <4>1. e <= cursor[b]
        BY <2>1, <2>2, <3>1 DEF Past
      <4>2. NewHigh(b) \in 0..top /\ cursor[b] <= NewHigh(b) /\ cursor[b] \in 0..top
            /\ top \in Nat
        BY <1>0, NewHighIs DEF Given, TypeOK
      <4>3. e <= NewHigh(b) /\ ~ (e > cursor[b])
        BY <1>a, <4>1, <4>2
      <4>4. <<e, s>> \notin work /\ e \notin Above(b)
        BY <1>0, <2>1, <3>1, <4>3 DEF Held, Above
      <4>5. high'[b] = NewHigh(b)
        BY <1>0, <2>1 DEF TypeOK
      <4> QED
        BY <2>1, <3>1, <4>3, <4>4, <4>5 DEF Past
    <3>2. CASE event[e].bucket # b
      <4>1. e \notin Above(b)
        BY <3>2 DEF Above, Page, In
      <4>2. high'[event[e].bucket] = high[event[e].bucket]
        BY <1>0, <1>a, <2>1, <2>2, <3>2 DEF TypeOK
      <4> QED
        BY <2>1, <2>2, <3>2, <4>1, <4>2 DEF Past
    <3> QED
      BY <3>1, <3>2
  <2> QED
    BY <1>d, <2>1, <2>2
<1>7. ASSUME NEW b \in Buckets, FetchFails(b) PROVE Goal'
  BY <1>7, <1>a, <1>c DEF FetchFails
<1>8. ASSUME NEW i \in Items, Send(i) PROVE Goal'
  <2>1. /\ UNCHANGED <<faults, event, pc, left, high>> /\ pc = "send" /\ i \in work
        /\ work' = work \ {i} /\ sent' = [sent EXCEPT ![i] = @ + 1]
    BY <1>8 DEF Send, Turn
  <2>2. CASE i = <<e, s>>
    <3>1. Arrived(e) /\ ~ Past(e, s) /\ e <= high[event[e].bucket] /\ left = {}
      BY <1>0, <2>1, <2>2 DEF Held, Past, RunState
    <3>2. Past(e, s)' /\ Arrived(e)'
      BY <2>1, <2>2, <3>1 DEF Past, Arrived
    <3>3. sent'[<<e, s>>] = sent[<<e, s>>] + 1
      BY <1>0, <1>a, <2>1, <2>2 DEF TypeOK
    <3> QED
      BY <1>a, <1>b, <2>1, <3>1, <3>2, <3>3
  <2>3. CASE i # <<e, s>>
    <3>1. sent'[<<e, s>>] = sent[<<e, s>>]
      BY <1>0, <1>a, <2>1, <2>3 DEF TypeOK
    <3>2. Past(e, s) => Past(e, s)'
      BY <1>0, <2>1, <2>3 DEF Past, RunState
    <3> QED
      BY <1>b, <2>1, <3>1, <3>2 DEF Arrived
  <2> QED
    BY <2>2, <2>3
<1>9. ASSUME NEW i \in Items, SendFails(i) PROVE Goal'
  <2>1. /\ faults' = faults + 1 /\ event' = event /\ pc = "send" /\ i \in work
        /\ sent' = sent \/ sent' = [sent EXCEPT ![i] = @ + 1]
    BY <1>9 DEF SendFails, Turn
  <2>2. sent'[<<e, s>>] <= sent[<<e, s>>] \/ (i = <<e, s>> /\ sent'[i] = sent[i] + 1)
    BY <1>0, <1>a, <2>1 DEF TypeOK
  <2> QED
    BY <1>a, <1>c, <2>1, <2>2
<1>10. ASSUME BeginBlank PROVE Goal'
  BY <1>10, <1>a, <1>c DEF BeginBlank
<1>11. ASSUME UNCHANGED vars PROVE Goal'
  BY <1>11, <1>d DEF vars, Past
<1> QED
  BY <1>1, <1>2, <1>3, <1>4, <1>5, <1>6, <1>7, <1>8, <1>9, <1>10, <1>11 DEF Next, Step

\* However runs, deaths and failures interleave, no sink gets an incident more often than
\* once and once again for every fault.
THEOREM RepetitionsArePaid == Spec => []RepeatedPerFault
<1>1. Init => Paid
  <2> SUFFICES ASSUME Init PROVE Paid
    OBVIOUS
  <2>1. faults = 0 /\ \A e \in Ids, s \in Hooks \cup {0} : sent[<<e, s>>] = 0
    BY DEF Init, Items
  <2>2. \A e \in Ids : ~ Arrived(e)
    BY DEF Init, Arrived
  <2>3. ASSUME NEW e \in Ids, NEW s \in Hooks \cup {0}
        PROVE  /\ sent[<<e, s>>] <= 1 + faults
               /\ ~ Arrived(e) => sent[<<e, s>>] = 0
               /\ Arrived(e) /\ ~ Past(e, s) => sent[<<e, s>>] <= faults
    <3>1. sent[<<e, s>>] = 0 /\ faults = 0
      BY <2>1
    <3> QED
      BY <2>2, <3>1
  <2> QED
    BY <2>3 DEF Paid
<1>2. Paid => RepeatedPerFault
  BY DEF Paid, RepeatedPerFault, Items
<1> QED
  BY <1>1, <1>2, BaseInit, BaseStep, PaidStep, PTL DEF Spec

-----------------------------------------------------------------------------
(* The order of first deliveries.                                          *)

\* An unsent incident before one that is sent or in hand is in hand itself (and then
\* goes first), or it is pushed out and will not be sent by this run or a later one.
Before(d, e) ==
  /\ kind # "webhook" /\ d < e
  /\ Arrived(d) /\ Arrived(e) /\ event[d].bucket = event[e].bucket
  /\ sent[<<d, 0>>] = 0
  /\ sent[<<e, 0>>] > 0 \/ <<e, 0>> \in work
Ordered ==
  /\ kind # "webhook" => dropped = {}
  /\ \A e \in Ids : ~ Arrived(e) => sent[<<e, 0>>] = 0
  /\ \A d, e \in Ids : Before(d, e) =>
       \/ <<d, 0>> \in work /\ sent[<<e, 0>>] = 0
       \/ PushedOut(d) /\ <<d, 0>> \notin work
OrderInv == Explained /\ Ordered

LEMMA OrderStep == OrderInv /\ [Next]_vars => OrderInv'
<1> SUFFICES ASSUME OrderInv, [Next]_vars PROVE Ordered'
  BY ExplainedStep DEF OrderInv
<1> USE ForwarderAssumption DEF server, runs
<1>0. Base /\ TypeOK /\ Given /\ RunState /\ Held /\ CursorExplained /\ Ordered
  BY DEF OrderInv, Explained, Base
<1>a. \A e \in Ids : e \in Nat /\ <<e, 0>> \in Items /\ sent[<<e, 0>>] \in Nat
                     /\ (Arrived(e) => event[e].bucket \in Buckets)
  BY <1>0 DEF TypeOK, Items, Ids, Event, Arrived
<1>n. Ids \subseteq Nat
  BY DEF Ids
<1>b. kind' = kind
  BY DEF Next, Step, vars, Insert, Begin, BeginBlank, SendPhase, Save, Fetch, Send, FetchFails,
     SendFails, Die
<1>c. \A e \in Ids : Arrived(e) => Arrived(e)' /\ event'[e] = event[e]
                                   /\ (PushedOut(e) => PushedOut(e)')
  BY <1>0, PushedOutStays
<1> DEFINE Fine(d, e) == \/ <<d, 0>> \in work /\ sent[<<e, 0>>] = 0
                         \/ PushedOut(d) /\ <<d, 0>> \notin work
\* A step that sends nothing and adds no work, and keeps all work or forgets it all.
<1>d. ASSUME UNCHANGED <<event, sent, dropped>>, work' = work \/ work' = {}
      PROVE  Ordered'
  <2>1. \A e \in Ids : Arrived(e)' = Arrived(e) /\ PushedOut(e)' = PushedOut(e)
    BY <1>d DEF Arrived, PushedOut, Ahead, In, Newer
  <2>2. ASSUME NEW d \in Ids, NEW e \in Ids, Before(d, e)' PROVE Fine(d, e)'
    <3>1. Before(d, e)
      BY <1>b, <1>d, <2>1, <2>2 DEF Before
    <3>2. Fine(d, e)
      BY <1>0, <3>1 DEF Ordered
    <3>3. CASE work' = work
      BY <1>d, <2>1, <3>2, <3>3
    <3>4. CASE work' = {}
      <4>1. sent[<<e, 0>>] > 0
        BY <1>d, <2>2, <3>4 DEF Before
      <4> QED
        BY <2>1, <3>2, <3>4, <4>1
    <3> QED
      BY <1>d, <3>3, <3>4
  <2> QED
    BY <1>0, <1>b, <1>d, <2>1, <2>2 DEF Ordered
\* A step that may send the first incident in hand.
<1>e. ASSUME NEW i \in Items, Turn(i), pc = "send", event' = event,
             kind # "webhook" => dropped' = {},
             sent' = sent \/ sent' = [sent EXCEPT ![i] = @ + 1],
             kind # "webhook" => (work' = {} \/ (work' = work \ {i} /\ sent' # sent))
      PROVE  Ordered'
  <2>1. \A e \in Ids : Arrived(e)' = Arrived(e) /\ PushedOut(e)' = PushedOut(e)
    BY <1>e DEF Arrived, PushedOut, Ahead, In, Newer
  <2>2. \A e \in Ids : <<e, 0>> # i => sent'[<<e, 0>>] = sent[<<e, 0>>]
    BY <1>0, <1>a, <1>e DEF TypeOK
  <2>3. \A e \in Ids : <<e, 0>> = i => Arrived(e)
    BY <1>0, <1>e DEF Held, Turn
  <2>4. \A e \in Ids : ~ Arrived(e)' => sent'[<<e, 0>>] = 0
    BY <1>0, <2>1, <2>2, <2>3 DEF Ordered
  <2>5. ASSUME NEW d \in Ids, NEW e \in Ids, Before(d, e)' PROVE Fine(d, e)'
    <3>1. kind # "webhook" /\ d < e /\ sent'[<<d, 0>>] = 0
      BY <1>b, <2>5 DEF Before
    <3>2. sent[<<d, 0>>] = 0
      <4>1. sent'[<<d, 0>>] >= sent[<<d, 0>>]
        BY <1>0, <1>a, <1>e DEF TypeOK
      <4> QED
        BY <1>a, <3>1, <4>1
    <3>3. sent[<<e, 0>>] > 0 \/ <<e, 0>> \in work
      <4>1. CASE <<e, 0>> = i
        BY <1>e, <4>1 DEF Turn
      <4>2. CASE <<e, 0>> # i
        <5>1. work' \subseteq work
          BY <1>e, <3>1
        <5> QED
          BY <2>2, <2>5, <4>2, <5>1 DEF Before
      <4> QED
        BY <4>1, <4>2
    <3>4. Before(d, e)
      BY <1>e, <2>1, <2>5, <3>1, <3>2, <3>3 DEF Before
    <3>5. Fine(d, e)
      BY <1>0, <3>4 DEF Ordered
    <3>6. work' \subseteq work
      BY <1>e, <3>1
    <3>7. CASE PushedOut(d) /\ <<d, 0>> \notin work
      BY <2>1, <3>6, <3>7
    <3>8. CASE <<d, 0>> \in work /\ sent[<<e, 0>>] = 0
      <4>1. <<e, 0>> # i
        <5>1. ASSUME <<e, 0>> = i PROVE FALSE
          <6>1. e < d \/ e = d
            BY <1>e, <3>8, <5>1 DEF Turn
          <6> QED
            BY <1>n, <3>1, <6>1
        <5> QED
          BY <5>1
      <4>2. sent'[<<e, 0>>] = 0
        BY <2>2, <3>8, <4>1
      <4>3. <<e, 0>> \in work'
        BY <2>5, <4>2 DEF Before
      <4>4. work' = work \ {i} /\ sent' = [sent EXCEPT ![i] = @ + 1]
        BY <1>e, <3>1, <4>3
      <4>5. <<d, 0>> # i
        <5>1. ASSUME <<d, 0>> = i PROVE FALSE
          <6>1. sent'[<<d, 0>>] = sent[<<d, 0>>] + 1
            BY <1>0, <1>a, <4>4, <5>1 DEF TypeOK
          <6> QED
            BY <3>1, <3>2, <6>1
        <5> QED
          BY <5>1
      <4> QED
        BY <3>8, <4>2, <4>4, <4>5
    <3> QED
      BY <3>5, <3>7, <3>8
  <2> QED
    BY <1>b, <1>e, <2>4, <2>5 DEF Ordered
<1>1. ASSUME NEW b \in Buckets, NEW t \in Times, Insert(b, t) PROVE Ordered'
  <2>1. UNCHANGED <<sent, dropped, work>> /\ top \in Nat
    BY <1>1, <1>0 DEF Insert, TypeOK
  <2>2. \A e \in Ids : Arrived(e)' <=> Arrived(e) \/ e = top + 1
    BY <1>0, <1>1, InsertKeeps
  <2>3. \A e \in Ids : ~ Arrived(e)' => sent'[<<e, 0>>] = 0
    BY <1>0, <2>1, <2>2 DEF Ordered
  <2>4. ASSUME NEW d \in Ids, NEW e \in Ids, Before(d, e)' PROVE Fine(d, e)'
    <3>1. Arrived(e)
      BY <1>0, <2>1, <2>4 DEF Before, Ordered, Held
    <3>2. Arrived(d)
      <4>1. e <= top /\ d < e
        BY <1>0, <2>4, <3>1 DEF Given, Before
      <4>2. d <= top
        BY <1>n, <2>1, <4>1
      <4> QED
        BY <1>0, <4>2 DEF Given
    <3>3. Before(d, e)
      BY <1>b, <1>c, <2>1, <2>4, <3>1, <3>2 DEF Before
    <3>4. Fine(d, e)
      BY <1>0, <3>3 DEF Ordered
    <3> QED
      BY <1>c, <2>1, <3>2, <3>4
  <2> QED
    BY <1>0, <1>b, <2>1, <2>3, <2>4 DEF Ordered
<1>2. ASSUME Begin \/ BeginBlank \/ SendPhase \/ Save \/ Die PROVE Ordered'
  BY <1>2, <1>d DEF Begin, BeginBlank, SendPhase, Save, Die, Ended
<1>3. ASSUME NEW b \in Buckets, FetchFails(b) PROVE Ordered'
  BY <1>3, <1>d DEF FetchFails, Ended
<1>4. ASSUME NEW b \in Buckets, Fetch(b) PROVE Ordered'
  <2>1. /\ UNCHANGED <<event, sent, dropped>> /\ b \in left
        /\ work' = work \cup (Above(b) \X Sinks)
    BY <1>4 DEF Fetch, IsNext
  <2>2. \A e \in Ids : Arrived(e)' = Arrived(e) /\ PushedOut(e)' = PushedOut(e)
    BY <2>1 DEF Arrived, PushedOut, Ahead, In, Newer
  <2>3. ASSUME NEW d \in Ids, NEW e \in Ids, Before(d, e)' PROVE Fine(d, e)'
    <3>1. /\ kind # "webhook" /\ d < e /\ Arrived(d) /\ Arrived(e)
          /\ event[d].bucket = event[e].bucket /\ sent[<<d, 0>>] = 0
          /\ sent[<<e, 0>>] > 0 \/ <<e, 0>> \in work'
      BY <1>b, <2>1, <2>2, <2>3 DEF Before
    <3>2. CASE event[d].bucket # b
      <4>1. e \notin Above(b) /\ d \notin Above(b)
        BY <3>1, <3>2 DEF Above, Page, In
      <4>2. <<d, 0>> \in work' <=> <<d, 0>> \in work
        BY <2>1, <4>1
      <4>3. Before(d, e)
        BY <2>1, <3>1, <4>1 DEF Before
      <4>4. Fine(d, e)
        BY <1>0, <4>3 DEF Ordered
      <4> QED
        BY <2>1, <2>2, <4>2, <4>4
    <3>3. CASE event[d].bucket = b
      <4>1. <<d, 0>> \notin work
        BY <1>0, <2>1, <3>3 DEF Held
      <4>2. CASE sent[<<e, 0>>] > 0
        <5>1. PushedOut(d)
          BY <1>0, <3>1, <4>1, <4>2 DEF Ordered, Before
        <5>2. d \notin Above(b)
          <6>1. ~ (Cardinality(Ahead(d)) < Limit)
            BY <5>1, AheadIsFinite DEF PushedOut
          <6> QED
            BY <6>1 DEF Above, Page
        <5> QED
          BY <2>1, <2>2, <4>1, <5>1, <5>2
      <4>3. CASE sent[<<e, 0>>] = 0
        <5>1. Sinks = {0}
          BY <3>1 DEF Sinks
        <5>2. CASE d \in Above(b)
          BY <2>1, <4>3, <5>1, <5>2
        <5>3. CASE d \notin Above(b)
          <6>1. d \notin Page(b) \/ d <= cursor[b]
            <7>1. cursor[b] \in Nat
              BY <1>0, <1>a, <3>1, <3>3 DEF TypeOK
            <7>2. d \in Nat
              BY <1>n
            <7> QED
              BY <5>3, <7>1, <7>2 DEF Above
          <6>2. ASSUME d \notin Page(b) PROVE PushedOut(d)
            BY <3>1, <3>3, <6>2, OutOfPage
          <6>3. ASSUME d <= cursor[b] PROVE PushedOut(d)
            <7>1. Accounted(d, 0)
              BY <1>0, <3>1, <3>3, <5>1, <6>3 DEF CursorExplained
            <7>2. dropped = {}
              BY <1>0, <3>1 DEF Ordered
            <7> QED
              BY <3>1, <7>1, <7>2 DEF Accounted
          <6>4. PushedOut(d)
            BY <6>1, <6>2, <6>3
          <6> QED
            BY <2>1, <2>2, <4>1, <5>3, <6>4
        <5> QED
          BY <5>2, <5>3
      <4> QED
        BY <1>a, <4>2, <4>3
    <3> QED
      BY <3>2, <3>3
  <2> QED
    BY <1>0, <1>b, <2>1, <2>2, <2>3 DEF Ordered
<1>5. ASSUME NEW i \in Items, Send(i) PROVE Ordered'
  <2>1. sent' # sent
    <3>1. sent'[i] = sent[i] + 1 /\ sent[i] \in Nat
      BY <1>0, <1>5 DEF Send, TypeOK
    <3> QED
      BY <3>1
  <2> QED
    BY <1>0, <1>5, <1>e, <2>1 DEF Send, Ordered
<1>6. ASSUME NEW i \in Items, SendFails(i) PROVE Ordered'
  <2>1. kind # "webhook" => work' = {} /\ dropped' = dropped
    BY <1>6 DEF SendFails, Ended
  <2> QED
    BY <1>0, <1>6, <1>e, <2>1 DEF SendFails, Ordered
<1>7. ASSUME UNCHANGED vars PROVE Ordered'
  BY <1>7, <1>d DEF vars
<1> QED
  BY <1>1, <1>2, <1>3, <1>4, <1>5, <1>6, <1>7 DEF Next, Step

LEMMA NoLateFirst ==
  ASSUME OrderInv, [Next]_vars,
         NEW d \in Ids, NEW e \in Ids, Before(d, e), sent[<<e, 0>>] > 0
  PROVE  sent'[<<d, 0>>] = 0
<1>1. <<d, 0>> \notin work /\ sent[<<d, 0>>] = 0
  BY DEF OrderInv, Ordered, Before
<1>2. <<d, 0>> \in Items /\ sent \in [Items -> Nat]
  BY DEF OrderInv, Explained, Base, TypeOK, Items
<1>3. ASSUME NEW i \in Items, Send(i) \/ SendFails(i) PROVE sent'[<<d, 0>>] = 0
  <2>1. i # <<d, 0>> /\ (sent' = sent \/ sent' = [sent EXCEPT ![i] = @ + 1])
    BY <1>1, <1>3 DEF Send, SendFails, Turn
  <2> QED
    BY <1>1, <1>2, <2>1
<1>4. CASE sent' = sent
  BY <1>1, <1>4
<1> QED
  BY <1>3, <1>4 DEF Next, Step, vars, Insert, Begin, BeginBlank, SendPhase, Save, Fetch,
     FetchFails, Die

\* Across runs, failures and lost cursors, a syslog or CEF sink never gets an incident
\* for the first time after a later one of the same bucket.
THEOREM FirstDeliveriesInOrder == Spec => FirstInOrder
<1>1. Init => OrderInv
  <2> SUFFICES ASSUME Init PROVE OrderInv
    OBVIOUS
  <2>1. Base /\ \A e \in Ids : ~ Arrived(e)
    BY BaseInit DEF Init, Arrived
  <2>2. dropped = {} /\ \A e \in Ids : sent[<<e, 0>>] = 0
    BY DEF Init, Items
  <2> QED
    BY <2>1, <2>2 DEF OrderInv, Ordered, Before, Explained, CursorExplained, InHand
<1>2. OrderInv /\ [Next]_vars =>
      [\A d, e \in Ids :
         /\ kind # "webhook" /\ d < e
         /\ Arrived(d) /\ Arrived(e) /\ event[d].bucket = event[e].bucket
         /\ sent[<<e, 0>>] > 0 /\ sent[<<d, 0>>] = 0
         => sent'[<<d, 0>>] = 0]_vars
  BY NoLateFirst DEF Before
<1> QED
  BY <1>1, <1>2, OrderStep, PTL DEF Spec, FirstInOrder

=============================================================================
