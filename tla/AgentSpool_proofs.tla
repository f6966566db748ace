------------------------- MODULE AgentSpool_proofs --------------------------
(***************************************************************************)
(* Proofs about AgentSpool for any set of records, any retry limit and any *)
(* number of deaths and power cuts.                                        *)
(*                                                                         *)
(* Whatever the file names are and whether renames work or not: the types; *)
(* what may be lost at all; and what the server may get again.             *)
(*                                                                         *)
(* With distinct file names: only what was tried is parked.                *)
(*                                                                         *)
(* With distinct file names and a rename into dead-letter/ that works: no  *)
(* accepted record is lost silently, parking is final, and the spool       *)
(* implements Delivery; the runs spool_collision and spool_drain show what *)
(* happens without.                                                        *)
(***************************************************************************)
EXTENDS AgentSpool, TLAPS

\* Every process step leaves every variable of its type (all handlers of the spool).
THEOREM TypeCorrect == Spec => []TypeOK
<1> USE SpoolAssumption DEF TypeOK, Content, Item, Post
<1>1. Init => TypeOK
  <2> SUFFICES ASSUME Init PROVE TypeOK
    OBVIOUS
  <2>1. item \in Item
    BY DEF Init
  <2>2. post \in [Records -> Post] /\ pending \in [Names -> Content]
        /\ tmp \in [Names -> Item \cup {NoFile}] /\ dead \in [Names -> Content]
    BY DEF Init
  <2> QED
    BY <2>1, <2>2 DEF Init
<1>2. TypeOK /\ [Next]_vars => TypeOK'
  <2> SUFFICES ASSUME TypeOK, [Next]_vars PROVE TypeOK'
    OBVIOUS
  <2> USE DEF spool, flusher, history
  <2>1. ASSUME NEW r \in Records, EnqueueWrite(r) PROVE TypeOK'
    BY <2>1 DEF EnqueueWrite
  <2>2. ASSUME NEW r \in Records, EnqueueRename(r) PROVE TypeOK'
    BY <2>2 DEF EnqueueRename
  <2>3. ASSUME NEW r \in Records, EnqueueDies(r) PROVE TypeOK'
    BY <2>3 DEF EnqueueDies
  <2>4. ASSUME NEW n \in Names, PowerCut(n) PROVE TypeOK'
    BY <2>4 DEF PowerCut
  <2>5. CASE FlushDies
    BY <2>5 DEF FlushDies
  <2>6. CASE FlushStart
    BY <2>6 DEF FlushStart
  <2>7. CASE List
    BY <2>7 DEF List
  <2>8. ASSUME NEW n \in Names, Read(n) PROVE TypeOK'
    BY <2>8 DEF Read
  <2>9. CASE SendOk
    <3>1. item.rec \in Records /\ post[item.rec].acked + 1 \in Nat
      OBVIOUS
    <3>2. post' \in [Records -> Post]
      BY <2>9, <3>1 DEF SendOk
    <3> QED
      BY <2>9, <3>2 DEF SendOk
  <2>10. CASE SendErr
    <3>1. item.rec \in Records /\ post[item.rec].unacked + 1 \in Nat
                               /\ post[item.rec].refused + 1 \in Nat
      OBVIOUS
    <3>2. post' \in [Records -> Post]
      <4>1. CASE post' = [post EXCEPT ![item.rec].unacked = @ + 1]
        BY <3>1, <4>1
      <4>2. CASE post' = [post EXCEPT ![item.rec].refused = @ + 1]
        BY <3>1, <4>2
      <4> QED
        BY <2>10, <4>1, <4>2 DEF SendErr
    <3>3. item' \in Item
      BY <2>10 DEF SendErr
    <3> QED
      BY <2>10, <3>2, <3>3 DEF SendErr
  <2>11. CASE RemoveDelivered
    BY <2>11 DEF RemoveDelivered
  <2>12. CASE WriteTmp
    BY <2>12 DEF WriteTmp
  <2>13. CASE RenameTmp
    BY <2>13 DEF RenameTmp, RenameTmpLimit
  <2>14. CASE Bury
    BY <2>14 DEF Bury
  <2>15. CASE BuryCopy
    BY <2>15 DEF BuryCopy
  <2>16. CASE BuryUnlink
    BY <2>16 DEF BuryUnlink
  <2>17. CASE PassEnd
    BY <2>17 DEF PassEnd
  <2>18. CASE UNCHANGED vars
    BY <2>18 DEF vars
  <2> QED
    BY <2>1, <2>2, <2>3, <2>4, <2>5, <2>6, <2>7, <2>8, <2>9, <2>10, <2>11, <2>12,
       <2>13, <2>14, <2>15, <2>16, <2>17, <2>18 DEF Next, FlushStep
<1> QED
  BY <1>1, <1>2, PTL DEF Spec

-----------------------------------------------------------------------------
(***************************************************************************)
(* The inductive invariant.  NoSilentLoss is not inductive alone: it holds *)
(* because a name belongs to one record, because no file stands in the way *)
(* of an enqueue run that is not done, because the file the flush run has  *)
(* in hand stays in place until the run itself moves it, and because a     *)
(* name is never both pending and parked.                                  *)
(***************************************************************************)
Fresh(r) ==
  /\ pending[FileName[r]] = NoFile
  /\ dead[FileName[r]] = NoFile
  /\ ~Received(r)
  /\ r \notin cut

Kept(r) ==
  \/ Received(r)
  \/ Holds(pending[FileName[r]], r)
  \/ Holds(dead[FileName[r]], r)
  \/ r \in cut

InHand == {"send", "remove", "write", "rename"}

SpoolInv ==
  /\ \A n \in Names :
       /\ pending[n] \in Item => FileName[pending[n].rec] = n
       /\ dead[n] \in Item => FileName[dead[n].rec] = n
       /\ dead[n] # NoFile => pending[n] = NoFile
  /\ \A r \in Records : enq[r] # "done" => Fresh(r)
  /\ \A r \in Records : enq[r] = "written" =>
       tmp[FileName[r]] \in Item /\ tmp[FileName[r]].rec = r
  /\ recovered = NoFile
  /\ pc # "unlink"
  /\ pc \in InHand => pending[cur] \in Item /\ pending[cur].rec = item.rec
  /\ pc = "rename" => tmp[cur] = item
  /\ pc = "remove" => Received(item.rec)
  /\ pc = "bury" => pending[cur] # NoFile
  /\ \A r \in Records : enq[r] = "done" => Kept(r)

\* The hypotheses under which the spool keeps its promise.
SpoolHypothesis == DistinctNames /\ RenameMayFail = FALSE

LEMMA InitSpoolInv == Init => SpoolInv
  BY SpoolAssumption DEF Init, SpoolInv, Fresh, Kept, InHand, Received, Post, Item

LEMMA StepSpoolInv ==
  ASSUME SpoolHypothesis, TypeOK, TypeOK', SpoolInv, [Next]_vars
  PROVE  SpoolInv'
<1> USE SpoolAssumption DEF SpoolHypothesis, DistinctNames, Unshared, TypeOK, Content, Item,
        Post, SpoolInv, Fresh, Kept, InHand, Received, Holds, spool, flusher, history
<1>1. ASSUME NEW r \in Records, EnqueueWrite(r) PROVE SpoolInv'
  BY <1>1 DEF EnqueueWrite
<1>2. ASSUME NEW r \in Records, EnqueueRename(r) PROVE SpoolInv'
  <2>1. CASE tmp[FileName[r]] = NoFile
    BY <1>2, <2>1 DEF EnqueueRename
  <2>2. CASE tmp[FileName[r]] # NoFile
    <3>1. /\ pending' = [pending EXCEPT ![FileName[r]] = tmp[FileName[r]]]
          /\ tmp' = [tmp EXCEPT ![FileName[r]] = NoFile]
          /\ enq' = [enq EXCEPT ![r] = "done"]
          /\ UNCHANGED <<dead, recovered, flusher, history>>
          /\ enq[r] = "written"
      BY <1>2, <2>2 DEF EnqueueRename
    <3>2. Fresh(r) /\ tmp[FileName[r]] \in Item /\ tmp[FileName[r]].rec = r
      BY <3>1
    <3>3. \A n \in Names :
            /\ pending'[n] \in Item => FileName[pending'[n].rec] = n
            /\ dead'[n] \in Item => FileName[dead'[n].rec] = n
            /\ dead'[n] # NoFile => pending'[n] = NoFile
      BY <3>1, <3>2
    <3>4. \A s \in Records : s # r => FileName[s] # FileName[r] /\ enq'[s] = enq[s]
                                        /\ tmp'[FileName[s]] = tmp[FileName[s]]
                                        /\ pending'[FileName[s]] = pending[FileName[s]]
      BY <3>1
    <3>5. \A s \in Records : (enq[s] # "done" => Fresh(s))'
      BY <3>1, <3>4
    <3>6. \A s \in Records : (enq[s] = "done" => Kept(s))'
      BY <3>1, <3>2, <3>4
    <3>7. pc \in InHand \cup {"bury"} => cur # FileName[r]
      BY <3>2
    <3> QED
      BY <3>1, <3>3, <3>4, <3>5, <3>6, <3>7
  <2> QED
    BY <2>1, <2>2
<1>3. ASSUME NEW r \in Records, EnqueueDies(r) PROVE SpoolInv'
  BY <1>3 DEF EnqueueDies
<1>4. ASSUME NEW n \in Names, PowerCut(n) PROVE SpoolInv'
  BY <1>4 DEF PowerCut
<1>5. CASE FlushDies
  BY <1>5 DEF FlushDies
<1>6. CASE FlushStart
  BY <1>6 DEF FlushStart
<1>7. CASE List
  BY <1>7 DEF List
<1>8. ASSUME NEW n \in Names, Read(n) PROVE SpoolInv'
  BY <1>8 DEF Read
<1>9. CASE SendOk
  BY <1>9 DEF SendOk
<1>10. CASE SendErr
  <2>1. item.rec \in Records /\ item'.rec = item.rec
    BY <1>10 DEF SendErr
  <2>2. \A r \in Records : post'[r].acked + post'[r].unacked >= post[r].acked + post[r].unacked
    <3>1. CASE post' = [post EXCEPT ![item.rec].unacked = @ + 1]
      BY <2>1, <3>1
    <3>2. CASE post' = [post EXCEPT ![item.rec].refused = @ + 1]
      BY <2>1, <3>2
    <3> QED
      BY <1>10, <3>1, <3>2 DEF SendErr
  <2>3. \A r \in Records : r # item.rec => post'[r] = post[r]
    BY <1>10, <2>1 DEF SendErr
  <2>4. enq[item.rec] = "done"
    BY <1>10, <2>1 DEF SendErr
  <2>5. /\ \A r \in Records : Received(r) => Received(r)'
        /\ \A r \in Records : enq[r] # "done" => ~Received(r)'
    <3>1. ASSUME NEW r \in Records, Received(r) PROVE Received(r)'
      <4>1. /\ post[r].acked + post[r].unacked \in Nat
            /\ post'[r].acked + post'[r].unacked \in Nat
        OBVIOUS
      <4> QED
        BY <2>2, <3>1, <4>1
    <3>2. ASSUME NEW r \in Records, enq[r] # "done" PROVE ~Received(r)'
      BY <2>3, <2>4, <3>2
    <3> QED
      BY <3>1, <3>2
  <2>6. /\ pc = "send" /\ pc' = "write"
        /\ UNCHANGED <<enq, spool, todo, cur, attempt, cut, crashes>>
    BY <1>10 DEF SendErr
  <2> QED
    BY <2>1, <2>5, <2>6
<1>11. CASE RemoveDelivered
  BY <1>11 DEF RemoveDelivered
<1>12. CASE WriteTmp
  BY <1>12 DEF WriteTmp
<1>13. CASE RenameTmp
  <2>1. /\ pc = "rename"
        /\ tmp[cur] = item
        /\ pending' = [pending EXCEPT ![cur] = item]
        /\ tmp' = [tmp EXCEPT ![cur] = NoFile]
        /\ pc' \in {"bury", "next"}
        /\ UNCHANGED <<enq, dead, recovered, todo, cur, item, attempt, retried,
                       history, crashes>>
    BY <1>13 DEF RenameTmp, RenameTmpLimit
  <2>2. FileName[item.rec] = cur /\ item \in Item
    BY <2>1
  <2>3. \A r \in Records : FileName[r] = cur => enq[r] = "done"
    BY <2>1
  <2>4. \A n \in Names :
          /\ pending'[n] \in Item => FileName[pending'[n].rec] = n
          /\ dead'[n] # NoFile => pending'[n] = NoFile
    BY <2>1, <2>2
  <2>5. \A r \in Records : FileName[r] # cur =>
          /\ pending'[FileName[r]] = pending[FileName[r]]
          /\ tmp'[FileName[r]] = tmp[FileName[r]]
    BY <2>1
  <2>6. \A r \in Records : Kept(r) => Kept(r)'
    BY <2>1, <2>2, <2>5
  <2> QED
    BY <2>1, <2>2, <2>3, <2>4, <2>5, <2>6
<1>14. CASE Bury
  BY <1>14 DEF Bury
<1>15. CASE BuryCopy
  BY <1>15 DEF BuryCopy
<1>16. CASE BuryUnlink
  BY <1>16 DEF BuryUnlink
<1>17. CASE PassEnd
  BY <1>17 DEF PassEnd
<1>18. CASE UNCHANGED vars
  BY <1>18 DEF vars
<1> QED
  BY <1>1, <1>2, <1>3, <1>4, <1>5, <1>6, <1>7, <1>8, <1>9, <1>10, <1>11, <1>12,
     <1>13, <1>14, <1>15, <1>16, <1>17, <1>18 DEF Next, FlushStep

LEMMA SpoolInvariant ==
  ASSUME SpoolHypothesis
  PROVE  Spec => []SpoolInv
<1>1. TypeOK /\ TypeOK' /\ SpoolInv /\ [Next]_vars => SpoolInv'
  BY StepSpoolInv
<1> QED
  BY <1>1, InitSpoolInv, TypeCorrect, PTL DEF Spec

\* An envelope whose enqueue run reported success is never lost (the write, send,
\* remove and park steps of process_pending, killed anywhere).
THEOREM NeverLost ==
  ASSUME SpoolHypothesis
  PROVE  Spec => []NoSilentLoss
<1>1. TypeOK /\ SpoolInv => NoSilentLoss
  BY SpoolAssumption DEF TypeOK, SpoolInv, NoSilentLoss, Kept, Pending, Parked
<1> QED
  BY <1>1, SpoolInvariant, TypeCorrect, PTL

\* A parked envelope is never pending again, so it is never posted again
\* (move_to_dead_letter).
THEOREM ParkingIsFinal ==
  ASSUME SpoolHypothesis
  PROVE  Spec => []ParkedIsFinal
<1>1. TypeOK /\ SpoolInv => ParkedIsFinal
  BY SpoolAssumption
     DEF TypeOK, SpoolInv, ParkedIsFinal, Pending, Parked, Holds, Content
<1> QED
  BY <1>1, SpoolInvariant, TypeCorrect, PTL

-----------------------------------------------------------------------------
(* Refinement.                                                             *)


\* Where the sets of Delivery are found on disk: under the record's own name.
ByName ==
  /\ Held = {r \in Records : Holds(pending[FileName[r]], r)}
  /\ ParkedSet = {r \in Records : Holds(dead[FileName[r]], r)}

LEMMA HeldByName ==
  ASSUME SpoolHypothesis, TypeOK, SpoolInv
  PROVE  ByName
<1> USE SpoolAssumption DEF SpoolHypothesis, TypeOK
<1>1. ASSUME NEW r \in Records
      PROVE  Pending(r) <=> Holds(pending[FileName[r]], r)
  BY DEF SpoolInv, Pending, Holds
<1>2. ASSUME NEW r \in Records
      PROVE  Parked(r) <=> Holds(dead[FileName[r]], r)
  <2>1. ~Holds(recovered, r)
    BY DEF SpoolInv, Holds
  <2>2. \A n \in Names : Holds(dead[n], r) => n = FileName[r]
    BY DEF SpoolInv, Holds
  <2> QED
    BY <2>1, <2>2 DEF Parked
<1> QED
  BY <1>1, <1>2 DEF ByName, Held, ParkedSet

LEMMA InitRefines == Init => Promise!Init
<1> SUFFICES ASSUME Init PROVE Promise!Init
  OBVIOUS
<1>1. \A r \in Records : ~Pending(r) /\ ~Parked(r) /\ ~Received(r)
  BY SpoolAssumption DEF Init, Pending, Parked, Received, Holds
<1> QED
  BY <1>1 DEF Init, Promise!Init, Held, ReceivedSet, ParkedSet

\* Every step of the spool is a step of Delivery or changes none of its variables.
LEMMA StepRefines ==
  ASSUME SpoolHypothesis, TypeOK, TypeOK', SpoolInv, ByName, ByName', [Next]_vars
  PROVE  [Promise!Next]_(Promise!vars)
<1> USE SpoolAssumption DEF SpoolHypothesis, DistinctNames, Unshared, spool, flusher, history
<1>1. ASSUME NEW r \in Records, EnqueueRename(r) PROVE Promise!Accept(r)
  <2>1. /\ Fresh(r)
        /\ tmp[FileName[r]] \in Item /\ tmp[FileName[r]].rec = r
        /\ pending' = [pending EXCEPT ![FileName[r]] = tmp[FileName[r]]]
        /\ UNCHANGED <<dead, recovered, post, cut>>
    BY <1>1 DEF EnqueueRename, SpoolInv
  <2>2. Promise!Fresh(r)
    BY <2>1 DEF ByName, Fresh, Holds, Promise!Fresh, ReceivedSet
  <2>3. Held' = Held \cup {r} /\ ParkedSet' = ParkedSet
    BY <2>1 DEF ByName, Holds, TypeOK
  <2>4. ReceivedSet' = ReceivedSet
    BY <2>1 DEF ReceivedSet, Received
  <2> QED
    BY <2>1, <2>2, <2>3, <2>4 DEF Promise!Accept
<1>2. ASSUME NEW r \in Records, r = item.rec, pc = "send",
             UNCHANGED <<pending, dead, cut>>,
             \A s \in Records : s # r => (Received(s)' <=> Received(s)),
             Received(r)'
      PROVE  Promise!Receive(r)
  <2>1. r \in Held
    BY <1>2 DEF ByName, Holds, SpoolInv, InHand, TypeOK
  <2>2. ReceivedSet' = ReceivedSet \cup {r}
    BY <1>2 DEF ReceivedSet
  <2> QED
    BY <1>2, <2>1, <2>2 DEF Promise!Receive, ByName
<1>3. ASSUME UNCHANGED <<pending, dead, cut>>,
             \A s \in Records : (Received(s)' <=> Received(s))
      PROVE  UNCHANGED Promise!vars
  BY <1>3 DEF Promise!vars, ByName, ReceivedSet
<1>4. CASE SendOk
  <2>1. PICK r \in Records : r = item.rec
    BY DEF TypeOK, Item
  <2>2. /\ post' = [post EXCEPT ![r].acked = @ + 1]
        /\ pc = "send" /\ UNCHANGED <<pending, dead, cut>>
    BY <1>4, <2>1 DEF SendOk
  <2>3. \A s \in Records : s # r => (Received(s)' <=> Received(s))
    BY <2>2 DEF Received, TypeOK
  <2>4. Received(r)'
    BY <2>2 DEF Received, TypeOK, Post
  <2> QED
    BY <1>2, <2>1, <2>2, <2>3, <2>4 DEF Promise!Next
<1>5. CASE SendErr
  <2>1. PICK r \in Records : r = item.rec
    BY DEF TypeOK, Item
  <2>2. pc = "send" /\ UNCHANGED <<pending, dead, cut>>
    BY <1>5 DEF SendErr
  <2>3. CASE post' = [post EXCEPT ![r].unacked = @ + 1]
    <3>1. \A s \in Records : s # r => (Received(s)' <=> Received(s))
      BY <2>3 DEF Received, TypeOK
    <3>2. Received(r)'
      BY <2>3 DEF Received, TypeOK, Post
    <3> QED
      BY <1>2, <2>1, <2>2, <3>1, <3>2 DEF Promise!Next
  <2>4. CASE post' = [post EXCEPT ![r].refused = @ + 1]
    <3>1. \A s \in Records : (Received(s)' <=> Received(s))
      BY <2>4 DEF Received, TypeOK, Post
    <3> QED
      BY <1>3, <2>2, <3>1
  <2> QED
    BY <1>5, <2>1, <2>3, <2>4 DEF SendErr
<1>6. CASE RemoveDelivered
  <2>1. /\ pending[cur] \in Item /\ pending[cur].rec = item.rec
        /\ FileName[item.rec] = cur /\ Received(item.rec) /\ item.rec \in Records
        /\ pending' = [pending EXCEPT ![cur] = NoFile]
        /\ UNCHANGED <<dead, post, cut>>
    BY <1>6 DEF RemoveDelivered, SpoolInv, InHand, TypeOK, Item
  <2>2. item.rec \in Held /\ Held' = Held \ {item.rec} /\ ParkedSet' = ParkedSet
    BY <2>1 DEF ByName, Holds, TypeOK
  <2>3. item.rec \in ReceivedSet /\ ReceivedSet' = ReceivedSet
    BY <2>1 DEF ReceivedSet, Received
  <2> QED
    BY <2>1, <2>2, <2>3 DEF Promise!Next, Promise!LetGo
<1>7. CASE RenameTmp
  <2>1. /\ pending[cur] \in Item /\ pending[cur].rec = item.rec
        /\ item \in Item
        /\ pending' = [pending EXCEPT ![cur] = item]
        /\ UNCHANGED <<dead, post, cut>>
    BY <1>7 DEF RenameTmp, RenameTmpLimit, SpoolInv, InHand, TypeOK
  <2>2. Held' = Held /\ ParkedSet' = ParkedSet
    BY <2>1 DEF ByName, Holds, TypeOK
  <2>3. ReceivedSet' = ReceivedSet
    BY <2>1 DEF ReceivedSet, Received
  <2> QED
    BY <2>1, <2>2, <2>3 DEF Promise!vars
<1>8. CASE Bury
  <2>1. /\ cur \in Names /\ pending[cur] # NoFile /\ dead[cur] = NoFile
        /\ dead' = [dead EXCEPT ![cur] = pending[cur]]
        /\ pending' = [pending EXCEPT ![cur] = NoFile]
        /\ UNCHANGED <<post, cut>>
    BY <1>8 DEF Bury, SpoolInv, TypeOK
  <2>2. ReceivedSet' = ReceivedSet
    BY <2>1 DEF ReceivedSet, Received
  <2>3. CASE pending[cur] \in Item
    <3> DEFINE r == pending[cur].rec
    <3>1. r \in Records /\ FileName[r] = cur
      BY <2>1, <2>3 DEF SpoolInv, Item
    <3>2. r \in Held /\ Held' = Held \ {r}
      BY <2>1, <2>3, <3>1 DEF ByName, Holds, TypeOK
    <3>3. ParkedSet' = ParkedSet \cup {r}
      BY <2>1, <2>3, <3>1 DEF ByName, Holds, TypeOK
    <3> QED
      BY <2>1, <2>2, <3>1, <3>2, <3>3 DEF Promise!Next, Promise!Park
  <2>4. CASE pending[cur] \notin Item
    <3>1. Held' = Held /\ ParkedSet' = ParkedSet
      BY <2>1, <2>4 DEF ByName, Holds, TypeOK
    <3> QED
      BY <2>1, <2>2, <3>1 DEF Promise!vars
  <2> QED
    BY <2>3, <2>4
<1>9. ASSUME NEW n \in Names, PowerCut(n) PROVE Promise!Next
  <2> DEFINE r == pending[n].rec
  <2>1. /\ pending[n] \in Item /\ r \in Records /\ FileName[r] = n
        /\ pending' = [pending EXCEPT ![n] = Torn]
        /\ cut' = cut \cup {r}
        /\ UNCHANGED <<dead, post>>
    BY <1>9 DEF PowerCut, SpoolInv, Item
  <2>2. r \in Held /\ Held' = Held \ {r} /\ ParkedSet' = ParkedSet
    BY <2>1 DEF ByName, Holds, TypeOK
  <2>3. ReceivedSet' = ReceivedSet
    BY <2>1 DEF ReceivedSet, Received
  <2> QED
    BY <2>1, <2>2, <2>3 DEF Promise!Next, Promise!Damage
<1>10. ASSUME UNCHANGED <<pending, dead, post, cut>> PROVE UNCHANGED Promise!vars
  <2>1. \A s \in Records : (Received(s)' <=> Received(s))
    BY <1>10 DEF Received
  <2> QED
    BY <1>3, <1>10, <2>1
<1>11. ASSUME NEW r \in Records, EnqueueWrite(r) \/ EnqueueDies(r)
       PROVE  UNCHANGED Promise!vars
  BY <1>10, <1>11 DEF EnqueueWrite, EnqueueDies
<1>12. ASSUME NEW n \in Names, Read(n) PROVE UNCHANGED Promise!vars
  BY <1>10, <1>12 DEF Read
<1>13. CASE FlushStart \/ List \/ WriteTmp \/ PassEnd \/ FlushDies
  BY <1>10, <1>13 DEF FlushStart, List, WriteTmp, PassEnd, FlushDies
<1>14. CASE BuryCopy \/ BuryUnlink
  BY <1>14 DEF BuryCopy, BuryUnlink, SpoolInv
<1>15. CASE UNCHANGED vars
  BY <1>10, <1>15 DEF vars
<1> QED
  BY <1>1, <1>4, <1>5, <1>6, <1>7, <1>8, <1>9, <1>11, <1>12, <1>13, <1>14, <1>15
     DEF Next, FlushStep, Promise!Next

\* The spool of the agent implements the delivery promise: accepted records are
\* held until received or parked, and nothing let go is posted again.
THEOREM SpoolKeepsPromise ==
  ASSUME SpoolHypothesis
  PROVE  Spec => KeepsPromise
<1>1. TypeOK /\ SpoolInv => ByName
  BY HeldByName
<1>2. /\ TypeOK /\ TypeOK' /\ SpoolInv /\ ByName /\ ByName' /\ [Next]_vars
      => [Promise!Next]_(Promise!vars)
  BY StepRefines
<1> QED
  BY <1>1, <1>2, InitRefines, TypeCorrect, SpoolInvariant, PTL
     DEF Spec, KeepsPromise, Promise!Spec

-----------------------------------------------------------------------------
(***************************************************************************)
(* What holds whatever the names are and whether or not the rename into    *)
(* dead-letter/ works: a file under a name holds a record of that name,    *)
(* the run has in hand what it read under its name, a torn file was cut,   *)
(* and a count of retries is never ahead of the posts that failed.         *)
(***************************************************************************)
Failures(r) == post[r].unacked + post[r].refused

\* A file of name n: its record, and the retries it counts.
FileOK(file, n) == file \in Item => FileName[file.rec] = n /\ file.retry <= Failures(file.rec)

Copied(r) == pc = "unlink" /\ cur = FileName[r] => Holds(recovered, r) \/ r \in cut

FilesInv ==
  /\ \A n \in Names : FileOK(pending[n], n) /\ FileOK(tmp[n], n) /\ FileOK(dead[n], n)
  /\ pc \in InHand => FileOK(item, cur) /\ pending[cur] \in Item
  /\ pc = "remove" => Received(item.rec)
  /\ pc = "bury" => pending[cur] # NoFile
  /\ \A r \in Records : Unshared(r) => Copied(r)
  /\ \A r \in Records : Unshared(r) /\ pending[FileName[r]] = Torn => r \in cut

\* Posts are only ever counted up.
LEMMA PostsGrow ==
  ASSUME TypeOK, TypeOK', [Next]_vars
  PROVE  \A r \in Records : Failures(r) <= Failures(r)' /\ (Received(r) => Received(r)')
<1> SUFFICES ASSUME NEW r \in Records
             PROVE  Failures(r) <= Failures(r)' /\ (Received(r) => Received(r)')
  OBVIOUS
<1>1. post[r] \in Post /\ post'[r] \in Post /\ item.rec \in Records /\ post \in [Records -> Post]
  BY DEF TypeOK, Item
<1>2. CASE SendOk
  BY <1>1, <1>2 DEF SendOk, Failures, Received, Post
<1>3. CASE SendErr
  <2>1. CASE post' = [post EXCEPT ![item.rec].unacked = @ + 1]
    BY <1>1, <2>1 DEF Failures, Received, Post
  <2>2. CASE post' = [post EXCEPT ![item.rec].refused = @ + 1]
    BY <1>1, <2>2 DEF Failures, Received, Post
  <2>3. QED
    BY <1>3, <2>1, <2>2 DEF SendErr
<1>4. CASE post' = post
  BY <1>1, <1>4 DEF Failures, Received, Post
<1>5. QED
  BY <1>2, <1>3, <1>4
     DEF Next, FlushStep, vars, history, EnqueueWrite, EnqueueRename, EnqueueDies, PowerCut,
         FlushDies, FlushStart, List, Read, RemoveDelivered, WriteTmp, RenameTmp, RenameTmpLimit,
         Bury, BuryCopy, BuryUnlink, PassEnd

\* A file that counts no more than before is as good after any step.
LEMMA FileStaysOK ==
  ASSUME TypeOK, TypeOK', [Next]_vars
  PROVE  \A file \in Content, n \in Names : FileOK(file, n) =>
           (file \in Item => FileName[file.rec] = n /\ file.retry <= Failures(file.rec)')
<1> SUFFICES ASSUME NEW file \in Item, NEW n \in Names, FileOK(file, n)
             PROVE  FileName[file.rec] = n /\ file.retry <= Failures(file.rec)'
  OBVIOUS
<1>1. PICK r \in Records : r = file.rec
  BY DEF Item
<1>2. file.retry \in Nat /\ Failures(r) \in Nat /\ Failures(r)' \in Nat
  BY DEF Item, TypeOK, Post, Failures
<1>3. Failures(r) <= Failures(r)'
  BY PostsGrow
<1>4. QED
  BY <1>1, <1>2, <1>3 DEF FileOK

LEMMA InitFilesInv == Init => FilesInv
  BY SpoolAssumption DEF Init, FilesInv, FileOK, Copied, InHand

\* The retry SendErr counts is the failure it has just met.
LEMMA RetryPaid ==
  ASSUME TypeOK, TypeOK', FilesInv, SendErr
  PROVE  FileOK(item, cur)'
<1>1. /\ item \in Item /\ item' \in Item /\ cur' = cur /\ FileOK(item, cur)
      /\ item'.rec = item.rec /\ item'.retry = item.retry + 1
  BY DEF SendErr, FilesInv, InHand, TypeOK, Item
<1>2. PICK r \in Records : r = item.rec
  BY DEF TypeOK, Item
<1>3. Failures(r)' = Failures(r) + 1
  <2>1. post[r] \in Post /\ post \in [Records -> Post]
    BY DEF TypeOK
  <2>2. CASE post' = [post EXCEPT ![r].unacked = @ + 1]
    BY <2>1, <2>2 DEF Failures, Post
  <2>3. CASE post' = [post EXCEPT ![r].refused = @ + 1]
    BY <2>1, <2>3 DEF Failures, Post
  <2>4. QED
    BY <1>2, <2>2, <2>3 DEF SendErr
<1>4. item.retry \in Nat /\ Failures(r) \in Nat
  BY <1>1 DEF Item, TypeOK, Post, Failures
<1>5. FileName[item.rec] = cur /\ item.retry <= Failures(r)
  BY <1>1, <1>2 DEF FileOK
<1>6. item'.rec = r /\ item'.retry <= Failures(r)'
  BY <1>1, <1>2, <1>3, <1>4, <1>5
<1>7. QED
  BY <1>1, <1>2, <1>5, <1>6 DEF FileOK
LEMMA StepFilesInv ==
  ASSUME TypeOK, TypeOK', FilesInv, [Next]_vars
  PROVE  FilesInv'
<1> USE SpoolAssumption DEF spool, flusher, history
<1> DEFINE Good(file, n) ==
      file \in Item => /\ FileName[file.rec] = n
                       /\ file.retry <= post'[file.rec].unacked + post'[file.rec].refused
<1>1. /\ \A file \in Content, n \in Names : FileOK(file, n) => Good(file, n)
      /\ \A r \in Records : Received(r) => Received(r)'
  BY FileStaysOK, PostsGrow DEF Failures
<1>2. /\ \A n \in Names : /\ pending[n] \in Content /\ tmp[n] \in Content /\ dead[n] \in Content
                          /\ tmp[n] # Torn
      /\ item \in Content /\ item \in Item /\ cur \in Names /\ item.rec \in Records
      /\ \A r \in Records : FileName[r] \in Names
      /\ \A file \in Item : file.rec \in Records
      /\ NoFile \notin Item /\ Torn \notin Item /\ NoFile # Torn
      /\ \A n \in Names : /\ pending'[n] \in Content
      /\ pending \in [Names -> Content] /\ tmp \in [Names -> Item \cup {NoFile}]
      /\ dead \in [Names -> Content] /\ tmp' \in [Names -> Item \cup {NoFile}]
  BY DEF TypeOK, Content, Item
<1>3. /\ \A n \in Names : Good(pending[n], n) /\ Good(tmp[n], n) /\ Good(dead[n], n)
      /\ pc \in InHand => Good(item, cur)
  BY <1>1, <1>2 DEF FilesInv
<1>4. ASSUME \A n \in Names : Good(pending'[n], n) /\ Good(tmp'[n], n) /\ Good(dead'[n], n),
             pc' \in InHand => Good(item', cur') /\ pending'[cur'] \in Item,
             pc' = "remove" => (Received(item.rec))',
             pc' = "bury" => pending'[cur'] # NoFile,
             \A r \in Records : Unshared(r) => Copied(r)',
             \A r \in Records : Unshared(r) /\ pending'[FileName[r]] = Torn => r \in cut'
      PROVE  FilesInv'
  BY <1>4 DEF FilesInv, FileOK, Unshared, Failures
<1> HIDE DEF Good
<1>5. ASSUME NEW r \in Records, EnqueueWrite(r) PROVE FilesInv'
  <2>1. Good([rec |-> r, retry |-> 0], FileName[r])
    BY DEF Good, TypeOK, Post, Failures
  <2>2. QED
    BY <1>1, <1>2, <1>3, <1>4, <1>5, <2>1 DEF EnqueueWrite, FilesInv, Copied, Received
<1>6. ASSUME NEW r \in Records, EnqueueRename(r) PROVE FilesInv'
  <2>1. CASE tmp[FileName[r]] = NoFile
    BY <1>1, <1>2, <1>3, <1>4, <1>6, <2>1 DEF EnqueueRename, FilesInv, Copied
  <2>2. CASE tmp[FileName[r]] # NoFile
    <3>1. /\ pending' = [pending EXCEPT ![FileName[r]] = tmp[FileName[r]]]
          /\ tmp' = [tmp EXCEPT ![FileName[r]] = NoFile]
          /\ UNCHANGED <<dead, recovered, pc, todo, cur, item, post, cut>>
          /\ tmp[FileName[r]] \in Item
      BY <1>2, <1>6, <2>2 DEF EnqueueRename
    <3>2. Good(NoFile, FileName[r])
      BY DEF Good
    <3>3. QED
      BY <1>1, <1>2, <1>3, <1>4, <3>1, <3>2 DEF FilesInv, Copied
  <2>3. QED
    BY <2>1, <2>2
<1>7. ASSUME NEW r \in Records, EnqueueDies(r) PROVE FilesInv'
  BY <1>1, <1>2, <1>3, <1>4, <1>7 DEF EnqueueDies, FilesInv, Copied, Received
<1>8. ASSUME NEW n \in Names, PowerCut(n) PROVE FilesInv'
  <2>1. Good(Torn, n)
    BY DEF Good
  <2>2. /\ pending' = [pending EXCEPT ![n] = Torn] /\ pending[n] \in Item
        /\ cut' = cut \cup {pending[n].rec} /\ pc' = "idle"
        /\ UNCHANGED <<tmp, dead, recovered, todo, cur, item, post>>
    BY <1>8 DEF PowerCut
  <2>3. ASSUME NEW r \in Records, Unshared(r), pending'[FileName[r]] = Torn PROVE r \in cut'
    <3>1. CASE FileName[r] = n
      <4>1. FileName[pending[n].rec] = n /\ pending[n].rec \in Records
        BY <1>2, <2>2 DEF FilesInv, FileOK
      <4>2. QED
        BY <2>2, <2>3, <3>1, <4>1 DEF Unshared
    <3>2. CASE FileName[r] # n
      BY <1>2, <2>2, <2>3, <3>2 DEF FilesInv
    <3>3. QED
      BY <3>1, <3>2
  <2>4. QED
    BY <1>1, <1>2, <1>3, <1>4, <2>1, <2>2, <2>3 DEF Copied, InHand
<1>9. CASE FlushDies
  BY <1>1, <1>2, <1>3, <1>4, <1>9 DEF FlushDies, FilesInv, Copied, InHand
<1>10. CASE FlushStart \/ List \/ PassEnd
  BY <1>1, <1>2, <1>3, <1>4, <1>10 DEF FlushStart, List, PassEnd, FilesInv, Copied, InHand
<1>11. ASSUME NEW n \in Names, Read(n) PROVE FilesInv'
  BY <1>1, <1>2, <1>3, <1>4, <1>11 DEF Read, FilesInv, Copied, InHand
<1>12. CASE SendOk
  <2>1. (Received(item.rec))'
    BY <1>12 DEF SendOk, Received, TypeOK, Item, Post
  <2>2. QED
    BY <1>1, <1>2, <1>3, <1>4, <1>12, <2>1 DEF SendOk, FilesInv, Copied, InHand
<1>13. CASE SendErr
  <2>1. Good(item', cur')
    BY <1>13, RetryPaid DEF Good, FileOK, Failures
  <2>2. /\ pc = "send" /\ pc' = "write"
        /\ UNCHANGED <<pending, tmp, dead, recovered, todo, cur, cut>>
    BY <1>13 DEF SendErr
  <2>3. QED
    BY <1>1, <1>2, <1>3, <1>4, <2>1, <2>2 DEF FilesInv, Copied, InHand
<1>14. CASE RemoveDelivered
  <2>1. Good(NoFile, cur)
    BY DEF Good
  <2>2. QED
    BY <1>1, <1>2, <1>3, <1>4, <1>14, <2>1 DEF RemoveDelivered, FilesInv, Copied, InHand
<1>15. CASE WriteTmp
  BY <1>1, <1>2, <1>3, <1>4, <1>15 DEF WriteTmp, FilesInv, Copied, InHand
<1>16. CASE RenameTmp
  <2>1. Good(NoFile, cur)
    BY DEF Good
  <2>2. CASE tmp[cur] = NoFile
    BY <1>1, <1>2, <1>3, <1>4, <1>16, <2>2 DEF RenameTmp, RenameTmpLimit, FilesInv, Copied, InHand
  <2>3. CASE tmp[cur] # NoFile
    <3>1. /\ pending' = [pending EXCEPT ![cur] = tmp[cur]] /\ tmp[cur] \in Item
          /\ tmp' = [tmp EXCEPT ![cur] = NoFile]
          /\ pc' \in {"bury", "next"}
          /\ UNCHANGED <<dead, recovered, todo, cur, item, post, cut>>
      BY <1>2, <1>16, <2>3 DEF RenameTmp, RenameTmpLimit
    <3>2. QED
      BY <1>1, <1>2, <1>3, <1>4, <2>1, <3>1 DEF FilesInv, Copied, InHand
  <2>4. QED
    BY <2>2, <2>3
<1>17. CASE Bury \/ BuryUnlink
  <2>1. Good(NoFile, cur)
    BY DEF Good
  <2>2. /\ pending' = [pending EXCEPT ![cur] = NoFile] /\ pc' = "next"
        /\ dead' \in {dead, [dead EXCEPT ![cur] = pending[cur]]}
        /\ UNCHANGED <<tmp, recovered, todo, cur, item, post, cut>>
    BY <1>17 DEF Bury, BuryUnlink
  <2>3. \A n \in Names : Good(pending'[n], n) /\ Good(tmp'[n], n) /\ Good(dead'[n], n)
    BY <1>2, <1>3, <2>1, <2>2
  <2>4. \A r \in Records : Unshared(r) /\ pending'[FileName[r]] = Torn => r \in cut'
    BY <1>2, <2>2 DEF FilesInv
  <2>5. QED
    BY <1>4, <2>2, <2>3, <2>4 DEF Copied, InHand
<1>18. CASE BuryCopy
  <2>1. /\ pc = "bury" /\ pc' = "unlink" /\ recovered' = pending[cur] /\ pending[cur] # NoFile
        /\ UNCHANGED <<pending, tmp, dead, todo, cur, item, post, cut>>
    BY <1>18 DEF BuryCopy, FilesInv
  <2>2. ASSUME NEW r \in Records, Unshared(r), cur = FileName[r]
        PROVE  Holds(pending[cur], r) \/ r \in cut
    <3>1. CASE pending[cur] \in Item
      <4>1. FileName[pending[cur].rec] = cur /\ pending[cur].rec \in Records
        BY <1>2, <3>1 DEF FilesInv, FileOK
      <4>2. QED
        BY <2>2, <3>1, <4>1 DEF Unshared, Holds
    <3>2. CASE pending[cur] = Torn
      BY <2>2, <3>2 DEF FilesInv
    <3>3. QED
      BY <1>2, <2>1, <3>1, <3>2 DEF Content
  <2>3. \A r \in Records : Unshared(r) => Copied(r)'
    BY <2>1, <2>2 DEF Copied, Holds
  <2>4. QED
    BY <1>1, <1>2, <1>3, <1>4, <2>1, <2>3 DEF FilesInv, InHand
<1>19. CASE UNCHANGED vars
  BY <1>1, <1>2, <1>3, <1>4, <1>19 DEF vars, FilesInv, Copied, Received
<1>20. QED
  BY <1>5, <1>6, <1>7, <1>8, <1>9, <1>10, <1>11, <1>12, <1>13, <1>14, <1>15, <1>16, <1>17,
     <1>18, <1>19 DEF Next, FlushStep

LEMMA FilesInvariant == Spec => []FilesInv
<1>1. TypeOK /\ TypeOK' /\ FilesInv /\ [Next]_vars => FilesInv'
  BY StepFilesInv
<1>2. QED
  BY <1>1, InitFilesInv, TypeCorrect, PTL DEF Spec
\* On disk under its own name, a record that is alone with it leaves the disk unreceived
\* only as the older content of recovered-corrupt.json, or torn.
LEMMA StepLosesOnlyRecovered ==
  ASSUME TypeOK, TypeOK', FilesInv, [Next]_vars, NEW r \in Records, Unshared(r),
         OnDisk(r), ~OnDisk(r)', ~Received(r)'
  PROVE  Holds(recovered, r) \/ r \in cut'
<1> USE SpoolAssumption DEF spool, flusher, history
<1> DEFINE n == FileName[r]
<1>1. /\ n \in Names /\ cur \in Names /\ item.rec \in Records /\ \A f \in Item : f.rec \in Records
      /\ pending \in [Names -> Content] /\ tmp \in [Names -> Item \cup {NoFile}]
      /\ dead \in [Names -> Content] /\ cut \subseteq cut'
      /\ NoFile \notin Item /\ Torn \notin Item /\ NoFile # Torn
  <2>1. cut \subseteq cut'
    BY DEF Next, FlushStep, vars, EnqueueWrite, EnqueueRename, EnqueueDies, PowerCut,
         FlushDies, FlushStart, List, Read, RemoveDelivered, WriteTmp, RenameTmp, RenameTmpLimit,
         Bury, BuryCopy, BuryUnlink, PassEnd, SendOk, SendErr
  <2>2. QED
    BY <2>1 DEF TypeOK, Item
<1>2. /\ \A m \in Names : Holds(pending[m], r) \/ Holds(dead[m], r) => m = n
      /\ \A f \in Item : FileName[f.rec] = n => f.rec = r
      /\ pending[n] \in Item => Holds(pending[n], r)
      /\ tmp[n] \in Item => Holds(tmp[n], r)
  BY <1>1 DEF FilesInv, FileOK, Holds, Unshared
<1>3. ~Holds(recovered', r) /\ \A m \in Names : ~Holds(pending'[m], r) /\ ~Holds(dead'[m], r)
  BY DEF OnDisk, Pending, Parked, Holds
<1>4. SUFFICES ASSUME ~Holds(recovered, r), r \notin cut'
               PROVE  FALSE
  OBVIOUS
<1>5. Holds(pending[n], r) \/ Holds(dead[n], r)
  BY <1>2, <1>4 DEF OnDisk, Pending, Parked
<1>6. r \notin cut
  BY <1>1, <1>4
<1>7. ~(UNCHANGED <<pending, dead>>)
  BY <1>1, <1>3, <1>5
<1> HIDE DEF n
<1>8. ASSUME NEW s \in Records, EnqueueRename(s) PROVE FALSE
  <2>1. PICK m \in Names : m = FileName[s]
    BY <1>1
  <2>2. /\ pending' = [pending EXCEPT ![m] = tmp[m]] /\ tmp[m] # NoFile
        /\ dead' = dead
    BY <1>7, <1>8, <2>1 DEF EnqueueRename
  <2>3. m # n
    BY <1>1, <1>2, <1>3, <2>2
  <2>4. QED
    BY <1>1, <1>3, <1>5, <2>2, <2>3
<1>9. ASSUME NEW m \in Names, PowerCut(m) PROVE FALSE
  <2>1. /\ pending' = [pending EXCEPT ![m] = Torn] /\ pending[m] \in Item
        /\ cut' = cut \cup {pending[m].rec} /\ dead' = dead
    BY <1>9 DEF PowerCut
  <2>2. m # n
    BY <1>2, <1>4, <2>1 DEF Holds
  <2>3. QED
    BY <1>1, <1>3, <1>5, <2>1, <2>2
<1>10. CASE RemoveDelivered
  <2>1. /\ pending' = [pending EXCEPT ![cur] = NoFile] /\ pc = "remove"
        /\ UNCHANGED <<dead, post>>
    BY <1>10 DEF RemoveDelivered
  <2>2. cur = n
    BY <1>1, <1>3, <1>5, <2>1
  <2>3. FileName[item.rec] = n /\ Received(item.rec) /\ item \in Item
    BY <2>1, <2>2 DEF FilesInv, FileOK, InHand, TypeOK
  <2>4. QED
    BY <1>2, <2>1, <2>3 DEF Received
<1>11. CASE RenameTmp
  <2>1. PICK m \in Names : m = cur
    BY <1>1
  <2>2. /\ pending' = [pending EXCEPT ![m] = tmp[m]] /\ tmp[m] # NoFile /\ dead' = dead
    BY <1>7, <1>11, <2>1 DEF RenameTmp, RenameTmpLimit
  <2>3. m # n
    BY <1>1, <1>2, <1>3, <2>2
  <2>4. QED
    BY <1>1, <1>3, <1>5, <2>2, <2>3
<1>12. CASE Bury
  <2>1. /\ pending' = [pending EXCEPT ![cur] = NoFile] /\ pending[cur] # NoFile
        /\ dead' = [dead EXCEPT ![cur] = pending[cur]]
    BY <1>12 DEF Bury, FilesInv
  <2>2. cur = n
    BY <1>1, <1>3, <1>5, <2>1
  <2>3. pending[n] = Torn
    BY <1>1, <1>2, <1>3, <2>1, <2>2 DEF Content
  <2>4. QED
    BY <1>6, <2>3 DEF FilesInv, n
<1>13. CASE BuryUnlink
  <2>1. /\ pending' = [pending EXCEPT ![cur] = NoFile] /\ pc = "unlink" /\ dead' = dead
    BY <1>13 DEF BuryUnlink
  <2>2. cur = n
    BY <1>1, <1>3, <1>5, <2>1
  <2>3. QED
    BY <1>4, <1>6, <2>1, <2>2 DEF FilesInv, Copied, n
<1>14. QED
  BY <1>7, <1>8, <1>9, <1>10, <1>11, <1>12, <1>13
     DEF Next, FlushStep, vars, EnqueueWrite, EnqueueDies, FlushDies, FlushStart, List, Read,
         WriteTmp, BuryCopy, PassEnd, SendOk, SendErr

\* A spooled envelope that is alone with its file name vanishes unreceived only through
\* recovered-corrupt.json or a power cut (every rename and remove of process_pending).
THEOREM LossOnlyFromRecovered == Spec => LostOnlyFromRecovered
<1>1. ASSUME TypeOK, TypeOK', FilesInv, [Next]_vars
      PROVE  [\A r \in Records :
                Unshared(r) /\ OnDisk(r) /\ ~OnDisk(r)' /\ ~Received(r)'
                  => Holds(recovered, r) \/ r \in cut']_vars
  BY <1>1, StepLosesOnlyRecovered
<1>2. QED
  BY <1>1, FilesInvariant, TypeCorrect, PTL DEF Spec, LostOnlyFromRecovered
-----------------------------------------------------------------------------
(***************************************************************************)
(* What the server may still acknowledge of a record: the run that spools  *)
(* it has not started; a file of it waits, or the run has it in hand and   *)
(* unanswered; a temporary of it is left that another run may rename.  An  *)
(* answer takes one of these away, and only a death brings one back.       *)
(***************************************************************************)
One(b) == IF b THEN 1 ELSE 0

Unspooled(r) == enq[r] = "new"

Owed(r) ==
  \/ Holds(pending[FileName[r]], r) /\ ~(pc = "remove" /\ item.rec = r)
  \/ pc \in {"send", "write", "rename"} /\ item.rec = r

Spare(r) == Holds(tmp[FileName[r]], r) /\ ~(pc = "rename" /\ item.rec = r)

Acks(r) == post[r].acked + One(Unspooled(r)) + One(Owed(r)) + One(Spare(r))

AcksPaid == \A r \in Records : Acks(r) <= 1 + crashes

LEMMA AckTypes ==
  ASSUME TypeOK
  PROVE  crashes \in Nat /\ \A r \in Records : post[r].acked \in Nat /\ Acks(r) \in Nat
BY DEF TypeOK, Post, Acks, One

LEMMA InitAcksPaid == Init => AcksPaid
  BY SpoolAssumption DEF Init, AcksPaid, Acks, Unspooled, Owed, Spare, Holds, One

\* Nothing new is due.
LEMMA QuietPays ==
  ASSUME TypeOK, TypeOK', AcksPaid, crashes <= crashes',
         \A r \in Records : /\ post'[r].acked = post[r].acked
                            /\ Unspooled(r)' => Unspooled(r)
                            /\ Owed(r)' => Owed(r)
                            /\ Spare(r)' => Spare(r)
  PROVE  AcksPaid'
<1> SUFFICES ASSUME NEW r \in Records PROVE Acks(r)' <= 1 + crashes'
  BY DEF AcksPaid
<1>1. Acks(r) <= 1 + crashes /\ post[r].acked \in Nat /\ crashes \in Nat /\ crashes' \in Nat
  BY AckTypes DEF AcksPaid, TypeOK
<1>2. One(Unspooled(r)') <= One(Unspooled(r)) /\ One(Owed(r)') <= One(Owed(r))
      /\ One(Spare(r)') <= One(Spare(r))
  BY DEF One
<1>3. /\ One(Unspooled(r)) \in 0..1 /\ One(Owed(r)) \in 0..1 /\ One(Spare(r)) \in 0..1
      /\ One(Unspooled(r)') \in 0..1 /\ One(Owed(r)') \in 0..1 /\ One(Spare(r)') \in 0..1
  BY DEF One
<1>4. Acks(r)' = post[r].acked + One(Unspooled(r)') + One(Owed(r)') + One(Spare(r)')
  BY DEF Acks, One
<1> HIDE DEF One
<1>5. QED
  BY <1>1, <1>2, <1>3, <1>4 DEF Acks

\* A death pays for one post more: of the file that was to be removed, or of the
\* temporary that was to be renamed.
LEMMA DeathPays ==
  ASSUME TypeOK, TypeOK', AcksPaid, crashes' = crashes + 1,
         \A r \in Records : /\ post'[r].acked = post[r].acked
                            /\ Unspooled(r)' => Unspooled(r)
                            /\ (Owed(r)' => Owed(r)) \/ (Spare(r)' => Spare(r))
  PROVE  AcksPaid'
<1> SUFFICES ASSUME NEW r \in Records PROVE Acks(r)' <= 1 + crashes'
  BY DEF AcksPaid
<1>1. Acks(r) <= 1 + crashes /\ post[r].acked \in Nat /\ crashes \in Nat
  BY AckTypes DEF AcksPaid
<1>2. /\ One(Unspooled(r)') <= One(Unspooled(r))
      /\ One(Owed(r)') <= One(Owed(r)) \/ One(Spare(r)') <= One(Spare(r))
  BY DEF One
<1>3. /\ One(Unspooled(r)) \in 0..1 /\ One(Owed(r)) \in 0..1 /\ One(Spare(r)) \in 0..1
      /\ One(Unspooled(r)') \in 0..1 /\ One(Owed(r)') \in 0..1 /\ One(Spare(r)') \in 0..1
  BY DEF One
<1>4. Acks(r)' = post[r].acked + One(Unspooled(r)') + One(Owed(r)') + One(Spare(r)')
  BY DEF Acks, One
<1>5. QED
  BY <1>1, <1>2, <1>3, <1>4 DEF Acks
LEMMA StepAcksPaid ==
  ASSUME TypeOK, TypeOK', FilesInv, AcksPaid, [Next]_vars
  PROVE  AcksPaid'
<1> USE SpoolAssumption DEF spool, flusher, history
<1>1. /\ enq \in [Records -> {"new", "written", "done", "failed"}]
      /\ pending \in [Names -> Content] /\ tmp \in [Names -> Item \cup {NoFile}]
      /\ post \in [Records -> Post] /\ crashes \in Nat /\ crashes' \in Nat
      /\ \A r \in Records : FileName[r] \in Names
      /\ item.rec \in Records /\ cur \in Names
      /\ NoFile \notin Item /\ Torn \notin Item
  BY DEF TypeOK, Item
<1>2. /\ \A n \in Names : /\ pending[n] \in Item => FileName[pending[n].rec] = n
                          /\ tmp[n] \in Item => FileName[tmp[n].rec] = n
      /\ pc \in InHand => FileName[item.rec] = cur /\ pending[cur] \in Item
  BY DEF FilesInv, FileOK, TypeOK
<1>3. ASSUME NEW r \in Records, EnqueueWrite(r) PROVE AcksPaid'
  <2> SUFFICES ASSUME NEW s \in Records PROVE Acks(s)' <= 1 + crashes'
    BY DEF AcksPaid
  <2>1. /\ enq[r] = "new" /\ enq' = [enq EXCEPT ![r] = "written"]
        /\ tmp' = [tmp EXCEPT ![FileName[r]] = [rec |-> r, retry |-> 0]]
        /\ UNCHANGED <<pending, dead, recovered, pc, cur, item, post, crashes>>
    BY <1>3 DEF EnqueueWrite
  <2>2. post'[s].acked = post[s].acked /\ (Owed(s)' <=> Owed(s))
    BY <2>1 DEF Owed, Holds
  <2>3. IF s = r THEN Unspooled(s) /\ ~Unspooled(s)'
                 ELSE (Unspooled(s)' <=> Unspooled(s)) /\ (Spare(s)' => Spare(s))
    BY <1>1, <2>1 DEF Unspooled, Spare, Holds
  <2>4. Acks(s) <= 1 + crashes /\ post[s].acked \in Nat /\ post'[s].acked = post[s].acked
    BY <2>2, AckTypes DEF AcksPaid
  <2>5. QED
    BY <1>1, <2>1, <2>2, <2>3, <2>4 DEF Acks, One
<1>4. ASSUME NEW r \in Records, EnqueueRename(r) PROVE AcksPaid'
  <2>1. CASE tmp[FileName[r]] = NoFile
    <3>1. /\ enq' = [enq EXCEPT ![r] = "failed"] /\ enq[r] = "written"
          /\ UNCHANGED <<pending, tmp, pc, item, post, crashes>>
      BY <1>4, <2>1 DEF EnqueueRename
    <3>2. QED
      BY <1>1, <3>1, QuietPays DEF Unspooled, Owed, Spare, Holds
  <2>2. CASE tmp[FileName[r]] # NoFile
    <3> SUFFICES ASSUME NEW s \in Records PROVE Acks(s)' <= 1 + crashes'
      BY DEF AcksPaid
    <3>1. /\ pending' = [pending EXCEPT ![FileName[r]] = tmp[FileName[r]]]
          /\ tmp' = [tmp EXCEPT ![FileName[r]] = NoFile]
          /\ enq' = [enq EXCEPT ![r] = "done"] /\ enq[r] = "written"
          /\ UNCHANGED <<pc, item, post, crashes>>
      BY <1>4, <2>2 DEF EnqueueRename
    <3>2. Unspooled(s)' <=> Unspooled(s)
      BY <1>1, <3>1 DEF Unspooled
    <3>3. (Owed(s)' => Owed(s) \/ Spare(s)) /\ (Spare(s)' => Spare(s))
      BY <1>1, <3>1 DEF Owed, Spare, Holds
    <3>4. FileName[s] = FileName[r] => ~Spare(s)'
      BY <1>1, <3>1 DEF Spare, Holds
    <3>5. FileName[s] # FileName[r] => (Owed(s)' <=> Owed(s))
      BY <1>1, <3>1 DEF Owed, Holds
    <3>6. Acks(s) <= 1 + crashes /\ post[s].acked \in Nat /\ post'[s].acked = post[s].acked
      BY <3>1, AckTypes DEF AcksPaid
    <3>7. QED
      BY <1>1, <3>1, <3>2, <3>3, <3>4, <3>5, <3>6 DEF Acks, One
  <2>3. QED
    BY <2>1, <2>2
<1>5. ASSUME NEW r \in Records, EnqueueDies(r) PROVE AcksPaid'
  BY <1>1, <1>5, QuietPays DEF EnqueueDies, Unspooled, Owed, Spare, Holds
<1>6. ASSUME NEW n \in Names, PowerCut(n) PROVE AcksPaid'
  <2>1. /\ pending' = [pending EXCEPT ![n] = Torn] /\ pc' = "idle"
        /\ crashes' = crashes + 1 /\ UNCHANGED <<tmp, item, post>>
        /\ \A r \in Records : enq'[r] = "new" => enq[r] = "new"
    BY <1>6 DEF PowerCut
  <2>2. ASSUME NEW r \in Records
        PROVE  (Owed(r)' => Owed(r)) \/ (Spare(r)' => Spare(r))
    BY <1>1, <2>1 DEF Owed, Spare, Holds
  <2>3. QED
    BY <2>1, <2>2, DeathPays DEF Unspooled
<1>7. CASE FlushDies
  <2>1. /\ pc' = "idle" /\ crashes' = crashes + 1 /\ UNCHANGED <<enq, pending, tmp, item, post>>
    BY <1>7 DEF FlushDies
  <2>2. ASSUME NEW r \in Records
        PROVE  (Owed(r)' => Owed(r)) \/ (Spare(r)' => Spare(r))
    BY <2>1 DEF Owed, Spare, Holds
  <2>3. QED
    BY <2>1, <2>2, DeathPays DEF Unspooled
<1>8. CASE FlushStart \/ List \/ PassEnd
  BY <1>1, <1>8, QuietPays DEF FlushStart, List, PassEnd, Unspooled, Owed, Spare, Holds
<1>9. ASSUME NEW n \in Names, Read(n) PROVE AcksPaid'
  <2>1. /\ pc = "next" /\ pc' \in {"send", "bury"}
        /\ pc' = "send" => item' = pending[n] /\ pending[n] \in Item
        /\ UNCHANGED <<enq, pending, tmp, post, crashes>>
    BY <1>9 DEF Read
  <2>2. ASSUME NEW r \in Records PROVE (Owed(r)' => Owed(r)) /\ (Spare(r)' => Spare(r))
    BY <1>1, <1>2, <2>1 DEF Owed, Spare, Holds
  <2>3. QED
    BY <1>1, <2>1, <2>2, QuietPays DEF Unspooled
<1>10. CASE SendOk
  <2> SUFFICES ASSUME NEW s \in Records PROVE Acks(s)' <= 1 + crashes'
    BY DEF AcksPaid
  <2>1. /\ post' = [post EXCEPT ![item.rec].acked = @ + 1]
        /\ pc = "send" /\ pc' = "remove"
        /\ UNCHANGED <<enq, pending, tmp, item, crashes>>
    BY <1>10 DEF SendOk
  <2>2. /\ Unspooled(s)' <=> Unspooled(s)
        /\ Spare(s)' <=> Spare(s)
    BY <2>1 DEF Unspooled, Spare, Holds
  <2>3. Acks(s) <= 1 + crashes /\ post[s] \in Post
    BY <1>1, AckTypes DEF AcksPaid
  <2>4. CASE s = item.rec
    <3>1. Owed(s) /\ ~Owed(s)'
      BY <2>1, <2>4 DEF Owed, Holds
    <3>2. post'[s].acked = post[s].acked + 1
      BY <1>1, <2>1, <2>3, <2>4 DEF Post
    <3>3. QED
      BY <1>1, <2>1, <2>2, <2>3, <3>1, <3>2 DEF Acks, One, Post
  <2>5. CASE s # item.rec
    <3>1. Owed(s)' <=> Owed(s)
      BY <2>1, <2>5 DEF Owed, Holds
    <3>2. post'[s].acked = post[s].acked
      BY <1>1, <2>1, <2>5
    <3>3. QED
      BY <1>1, <2>1, <2>2, <2>3, <3>1, <3>2 DEF Acks, One, Post
  <2>6. QED
    BY <2>4, <2>5
<1>11. CASE SendErr
  <2>1. /\ pc = "send" /\ pc' = "write" /\ item'.rec = item.rec
        /\ UNCHANGED <<enq, pending, tmp, crashes>>
    BY <1>11 DEF SendErr, TypeOK, Item
  <2>2. \A r \in Records : post'[r].acked = post[r].acked
    <3>1. CASE post' = [post EXCEPT ![item.rec].unacked = @ + 1]
      BY <1>1, <3>1 DEF Post
    <3>2. CASE post' = [post EXCEPT ![item.rec].refused = @ + 1]
      BY <1>1, <3>2 DEF Post
    <3>3. QED
      BY <1>11, <3>1, <3>2 DEF SendErr
  <2>3. QED
    BY <1>1, <2>1, <2>2, QuietPays DEF Unspooled, Owed, Spare, Holds
<1>12. CASE RemoveDelivered
  <2>1. /\ pc = "remove" /\ pc' = "next" /\ pending' = [pending EXCEPT ![cur] = NoFile]
        /\ UNCHANGED <<enq, tmp, item, post, crashes>>
    BY <1>12 DEF RemoveDelivered
  <2>2. ASSUME NEW r \in Records PROVE Owed(r)' => Owed(r)
    BY <1>1, <1>2, <2>1 DEF Owed, Holds, InHand
  <2>3. QED
    BY <1>1, <2>1, <2>2, QuietPays DEF Unspooled, Spare, Holds
<1>13. CASE WriteTmp
  <2>1. /\ pc = "write" /\ pc' = "rename" /\ tmp' = [tmp EXCEPT ![cur] = item]
        /\ UNCHANGED <<enq, pending, item, post, crashes>>
    BY <1>13 DEF WriteTmp
  <2>2. ASSUME NEW r \in Records PROVE (Owed(r)' => Owed(r)) /\ (Spare(r)' => Spare(r))
    BY <1>1, <2>1 DEF Owed, Spare, Holds
  <2>3. QED
    BY <1>1, <2>1, <2>2, QuietPays DEF Unspooled
<1>14. CASE RenameTmp
  <2>1. CASE tmp[cur] = NoFile
    <3>1. pc = "rename" /\ pc' = "idle" /\ UNCHANGED <<enq, pending, tmp, item, post, crashes>>
      BY <1>14, <2>1 DEF RenameTmp, RenameTmpLimit
    <3>2. ASSUME NEW r \in Records PROVE (Owed(r)' => Owed(r)) /\ (Spare(r)' => Spare(r))
      BY <1>1, <1>2, <2>1, <3>1 DEF Owed, Spare, Holds, InHand
    <3>3. QED
      BY <1>1, <3>1, <3>2, QuietPays DEF Unspooled
  <2>2. CASE tmp[cur] # NoFile
    <3> SUFFICES ASSUME NEW s \in Records PROVE Acks(s)' <= 1 + crashes'
      BY DEF AcksPaid
    <3>1. /\ pc = "rename" /\ pc' \in {"bury", "next"}
          /\ pending' = [pending EXCEPT ![cur] = tmp[cur]]
          /\ tmp' = [tmp EXCEPT ![cur] = NoFile]
          /\ UNCHANGED <<enq, item, post, crashes>>
      BY <1>14, <2>2 DEF RenameTmp, RenameTmpLimit
    <3>2. Unspooled(s)' <=> Unspooled(s)
      BY <3>1 DEF Unspooled
    <3>3. (Owed(s)' => Owed(s) \/ Spare(s)) /\ (Spare(s)' => Spare(s))
      BY <1>1, <1>2, <3>1 DEF Owed, Spare, Holds, InHand
    <3>4. FileName[s] = cur => ~Spare(s)'
      BY <1>1, <3>1 DEF Spare, Holds
    <3>5. FileName[s] # cur => (Owed(s)' => Owed(s))
      BY <1>1, <3>1 DEF Owed, Holds
    <3>6. Acks(s) <= 1 + crashes /\ post[s].acked \in Nat /\ post'[s].acked = post[s].acked
      BY <3>1, AckTypes DEF AcksPaid
    <3>7. QED
      BY <1>1, <3>1, <3>2, <3>3, <3>4, <3>5, <3>6 DEF Acks, One
  <2>3. QED
    BY <2>1, <2>2
<1>15. CASE Bury \/ BuryCopy \/ BuryUnlink
  <2>1. /\ pc \in {"bury", "unlink"} /\ pc' \in {"next", "unlink"}
        /\ pending' \in {pending, [pending EXCEPT ![cur] = NoFile]}
        /\ UNCHANGED <<enq, tmp, item, post, crashes>>
    BY <1>15 DEF Bury, BuryCopy, BuryUnlink
  <2>2. ASSUME NEW r \in Records PROVE (Owed(r)' => Owed(r)) /\ (Spare(r)' => Spare(r))
    BY <1>1, <2>1 DEF Owed, Spare, Holds
  <2>3. QED
    BY <1>1, <2>1, <2>2, QuietPays DEF Unspooled
<1>16. CASE UNCHANGED vars
  BY <1>1, <1>16, QuietPays DEF vars, Unspooled, Owed, Spare, Holds
<1>17. QED
  BY <1>3, <1>4, <1>5, <1>6, <1>7, <1>8, <1>9, <1>10, <1>11, <1>12, <1>13, <1>14, <1>15, <1>16
     DEF Next, FlushStep

\* The server acknowledges an envelope once, and again at most once for every death
\* or power cut (between the answer and remove_file, or in write_json_atomic).
THEOREM RepostsArePaid == Spec => []RepostOnlyAfterDeath
<1>1. TypeOK /\ TypeOK' /\ FilesInv /\ AcksPaid /\ [Next]_vars => AcksPaid'
  BY StepAcksPaid
<1>2. ASSUME TypeOK, AcksPaid PROVE RepostOnlyAfterDeath
  <2> SUFFICES ASSUME NEW r \in Records PROVE post[r].acked <= 1 + crashes
    BY DEF RepostOnlyAfterDeath
  <2>1. crashes \in Nat /\ post[r].acked \in Nat /\ Acks(r) <= 1 + crashes
    BY <1>2, AckTypes DEF AcksPaid
  <2>2. One(Unspooled(r)) \in 0..1 /\ One(Owed(r)) \in 0..1 /\ One(Spare(r)) \in 0..1
    BY DEF One
  <2>3. QED
    BY <2>1, <2>2 DEF Acks
<1>3. QED
  BY <1>1, <1>2, InitAcksPaid, FilesInvariant, TypeCorrect, PTL DEF Spec
-----------------------------------------------------------------------------
(***************************************************************************)
(* Parking, when no two runs take the same name: what is buried whole has  *)
(* come through RenameTmp, so its count was in hand and at the limit.  Two *)
(* runs with one name could have swapped the temporary in between.         *)
(***************************************************************************)
Tried(r) == Failures(r) >= MaxRetry /\ Failures(r) >= 1

ParkInv ==
  /\ \A r \in Records : enq[r] # "done" => pending[FileName[r]] = NoFile
  /\ \A r \in Records : enq[r] = "written" => Holds(tmp[FileName[r]], r)
  /\ pc \in {"write", "rename"} => item.retry >= 1
  /\ pc = "rename" => tmp[cur] = item
  /\ pc = "unlink" => pending[cur] # NoFile
  /\ pc \in {"bury", "unlink"} /\ pending[cur] \in Item => Tried(pending[cur].rec)
  /\ \A n \in Names : dead[n] \in Item => Tried(dead[n].rec)

LEMMA InitParkInv == Init => ParkInv
  BY SpoolAssumption DEF Init, ParkInv, Holds

LEMMA TriedStays ==
  ASSUME TypeOK, TypeOK', [Next]_vars
  PROVE  \A r \in Records : Tried(r) => Tried(r)'
<1> SUFFICES ASSUME NEW r \in Records, Tried(r) PROVE Tried(r)'
  OBVIOUS
<1>1. Failures(r) \in Nat /\ Failures(r)' \in Nat /\ MaxRetry \in Nat
  BY SpoolAssumption DEF TypeOK, Post, Failures
<1>2. Failures(r) <= Failures(r)'
  BY PostsGrow
<1>3. QED
  BY <1>1, <1>2 DEF Tried

\* At the end of RenameTmp the count has reached the limit, and every count is paid.
LEMMA RenamedIsTried ==
  ASSUME TypeOK, FilesInv, item.retry >= 1, item.retry >= MaxRetry, pc = "rename"
  PROVE  Tried(item.rec)
<1>1. /\ item.retry \in Nat /\ Failures(item.rec) \in Nat /\ MaxRetry \in Nat
      /\ item.retry <= Failures(item.rec)
  BY SpoolAssumption DEF TypeOK, Item, Post, Failures, FilesInv, FileOK, InHand
<1>2. QED
  BY <1>1 DEF Tried

LEMMA StepParkInv ==
  ASSUME DistinctNames, TypeOK, TypeOK', FilesInv, ParkInv, [Next]_vars
  PROVE  ParkInv'
<1> USE SpoolAssumption DEF spool, flusher, history
<1>1. /\ enq \in [Records -> {"new", "written", "done", "failed"}]
      /\ pending \in [Names -> Content] /\ tmp \in [Names -> Item \cup {NoFile}]
      /\ dead \in [Names -> Content]
      /\ \A r \in Records : FileName[r] \in Names
      /\ item \in Item /\ item.rec \in Records /\ cur \in Names
      /\ \A f \in Item : f.rec \in Records
      /\ NoFile \notin Item /\ Torn \notin Item /\ NoFile # Torn
      /\ \A r, s \in Records : FileName[r] = FileName[s] => r = s
  BY DEF TypeOK, Item, DistinctNames, Unshared
<1>2. /\ pc \in InHand => FileName[item.rec] = cur /\ pending[cur] \in Item
      /\ pc = "bury" => pending[cur] # NoFile
  BY <1>1 DEF FilesInv, FileOK
<1>3. /\ \A r \in Records : Tried(r) => Tried(r)'
      /\ \A n \in Names : dead[n] \in Item => (\A r \in Records : r = dead[n].rec => Tried(r)')
      /\ pc \in {"bury", "unlink"} /\ pending[cur] \in Item
           => \A r \in Records : r = pending[cur].rec => Tried(r)'
  BY <1>1, TriedStays DEF ParkInv
<1>4. ASSUME \A r \in Records : enq'[r] # "done" => pending'[FileName[r]] = NoFile,
             \A r \in Records : enq'[r] = "written" => Holds(tmp'[FileName[r]], r),
             pc' \in {"write", "rename"} => item'.retry >= 1,
             pc' = "rename" => tmp'[cur'] = item',
             pc' = "unlink" => pending'[cur'] # NoFile,
             pc' \in {"bury", "unlink"} /\ pending'[cur'] \in Item
               => \A r \in Records : r = pending'[cur'].rec => Tried(r)',
             \A n \in Names : dead'[n] \in Item =>
               \A r \in Records : r = dead'[n].rec => Tried(r)'
      PROVE  ParkInv'
  BY <1>1, <1>4 DEF ParkInv, Holds, Tried, Failures
<1>5. ASSUME NEW r \in Records, EnqueueWrite(r) PROVE ParkInv'
  BY <1>1, <1>2, <1>3, <1>4, <1>5 DEF EnqueueWrite, ParkInv, Holds, InHand, Item
<1>6. ASSUME NEW r \in Records, EnqueueRename(r) PROVE ParkInv'
  <2>1. Holds(tmp[FileName[r]], r) /\ pending[FileName[r]] = NoFile
    BY <1>6 DEF EnqueueRename, ParkInv
  <2>2. /\ pending' = [pending EXCEPT ![FileName[r]] = tmp[FileName[r]]]
        /\ tmp' = [tmp EXCEPT ![FileName[r]] = NoFile]
        /\ enq' = [enq EXCEPT ![r] = "done"] /\ enq[r] = "written"
        /\ UNCHANGED <<dead, recovered, pc, todo, cur, item, post>>
    BY <1>1, <1>6, <2>1 DEF EnqueueRename, Holds
  <2>3. \A s \in Records : s # r => /\ pending'[FileName[s]] = pending[FileName[s]]
                                     /\ tmp'[FileName[s]] = tmp[FileName[s]]
                                     /\ enq'[s] = enq[s]
    BY <1>1, <2>2
  <2>4. \A s \in Records : /\ enq'[s] # "done" => pending'[FileName[s]] = NoFile
                           /\ enq'[s] = "written" => Holds(tmp'[FileName[s]], s)
    BY <1>1, <2>2, <2>3 DEF ParkInv
  <2>5. pc \in InHand \cup {"bury", "unlink"} => cur # FileName[r]
    BY <1>2, <2>1 DEF ParkInv
  <2>6. pc = "rename" => tmp'[cur] = item
    BY <1>1, <2>2, <2>5 DEF ParkInv, InHand
  <2>7. /\ pc \in {"bury", "unlink"} /\ pending'[cur] \in Item
           => \A s \in Records : s = pending'[cur].rec => Tried(s)'
        /\ pc = "unlink" => pending'[cur] # NoFile
        /\ pc \in {"write", "rename"} => item.retry >= 1
    BY <1>1, <1>3, <2>1, <2>2, <2>5 DEF ParkInv
  <2>8. QED
    BY <1>3, <1>4, <2>2, <2>4, <2>6, <2>7
<1>7. ASSUME NEW r \in Records, EnqueueDies(r) PROVE ParkInv'
  BY <1>1, <1>2, <1>3, <1>4, <1>7 DEF EnqueueDies, ParkInv
<1>8. ASSUME NEW n \in Names, PowerCut(n) PROVE ParkInv'
  BY <1>1, <1>2, <1>3, <1>4, <1>8 DEF PowerCut, ParkInv
<1>9. CASE FlushDies
  BY <1>1, <1>2, <1>3, <1>4, <1>9 DEF FlushDies, ParkInv
<1>10. CASE FlushStart \/ List \/ PassEnd
  BY <1>1, <1>2, <1>3, <1>4, <1>10 DEF FlushStart, List, PassEnd, ParkInv
<1>11. ASSUME NEW n \in Names, Read(n) PROVE ParkInv'
  BY <1>1, <1>2, <1>3, <1>4, <1>11 DEF Read, ParkInv
<1>12. CASE SendOk
  BY <1>1, <1>2, <1>3, <1>4, <1>12 DEF SendOk, ParkInv
<1>13. CASE SendErr
  BY <1>1, <1>2, <1>3, <1>4, <1>13 DEF SendErr, ParkInv, Item
<1>14. CASE RemoveDelivered
  BY <1>1, <1>2, <1>3, <1>4, <1>14 DEF RemoveDelivered, ParkInv
<1>15. CASE WriteTmp
  <2>1. \A r \in Records : enq[r] = "written" => FileName[r] # cur
    BY <1>2, <1>15 DEF WriteTmp, ParkInv, InHand
  <2>2. QED
    BY <1>1, <1>2, <1>3, <1>4, <1>15, <2>1 DEF WriteTmp, ParkInv
<1>16. CASE RenameTmp
  <2>1. /\ pending' = [pending EXCEPT ![cur] = item] /\ tmp' = [tmp EXCEPT ![cur] = NoFile]
        /\ pc' = IF item.retry >= MaxRetry THEN "bury" ELSE "next"
        /\ pc = "rename" /\ item.retry >= 1
        /\ UNCHANGED <<enq, dead, recovered, todo, cur, item, post>>
    BY <1>1, <1>16 DEF RenameTmp, RenameTmpLimit, ParkInv
  <2>2. pc' = "bury" => Tried(item.rec)
    BY <2>1, RenamedIsTried
  <2>3. \A r \in Records : enq[r] # "done" => FileName[r] # cur
    BY <1>2, <2>1 DEF ParkInv, InHand
  <2>4. \A r \in Records : /\ enq'[r] # "done" => pending'[FileName[r]] = NoFile
                           /\ enq'[r] = "written" => Holds(tmp'[FileName[r]], r)
    BY <1>1, <2>1, <2>3 DEF ParkInv
  <2>5. pc' = "bury" => \A r \in Records : r = pending'[cur'].rec => Tried(r)'
    BY <1>1, <2>1, <2>2 DEF Tried, Failures
  <2>6. \A n \in Names : dead'[n] \in Item => \A r \in Records : r = dead'[n].rec => Tried(r)'
    BY <1>3, <2>1
  <2>7. QED
    BY <1>4, <2>1, <2>4, <2>5, <2>6
<1>17. CASE Bury
  BY <1>1, <1>2, <1>3, <1>4, <1>17 DEF Bury, ParkInv
<1>18. CASE BuryCopy \/ BuryUnlink
  BY <1>1, <1>2, <1>3, <1>4, <1>18 DEF BuryCopy, BuryUnlink, ParkInv
<1>19. CASE UNCHANGED vars
  BY <1>1, <1>2, <1>3, <1>4, <1>19 DEF vars, ParkInv
<1>20. QED
  BY <1>5, <1>6, <1>7, <1>8, <1>9, <1>10, <1>11, <1>12, <1>13, <1>14, <1>15, <1>16, <1>17,
     <1>18, <1>19 DEF Next, FlushStep

\* An envelope is parked only after retry_max_attempts failed posts of it, and after one
\* at least (SendErr, write_json_atomic and move_to_dead_letter in process_pending).
THEOREM ParkedAreTried ==
  ASSUME DistinctNames
  PROVE  Spec => []ParkedAfterRetries
<1>1. TypeOK /\ TypeOK' /\ FilesInv /\ ParkInv /\ [Next]_vars => ParkInv'
  BY StepParkInv
<1>2. TypeOK /\ ParkInv => ParkedAfterRetries
  BY DEF ParkInv, ParkedAfterRetries, Tried, Failures
<1>3. QED
  BY <1>1, <1>2, InitParkInv, FilesInvariant, TypeCorrect, PTL DEF Spec
=============================================================================
