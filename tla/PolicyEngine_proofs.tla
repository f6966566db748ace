------------------------- MODULE PolicyEngine_proofs -------------------------
(***************************************************************************)
(* What the policy server guarantees for every number of policies, versions*)
(* and mutations.  The inductive invariant adds to the checked ones that   *)
(* the AUTOINCREMENT sequence stays above every id in use.                 *)
(***************************************************************************)
EXTENDS PolicyEngine, TLAPS

(* What the invariant says of one id.                                      *)
Good(i) ==
  /\ ~Exists(i) => Stored(i) = {}
  /\ Exists(i) => Stored(i) = 1..row[i].version /\ row[i].checksum = Document(i)
  /\ Exists(i) /\ row[i].status = "approved" => <<i, row[i].version>> \in approved
  /\ Exists(i) \/ i \in trail => i < nextId
  /\ Exists(i) /\ row[i].active => i = audit.deploy

EngineInv == TypeOK /\ \A i \in Ids : Good(i)

(* A step leaves id j alone, or takes it out of force.                     *)
Kept(j) ==
  /\ doc'[j] = doc[j]
  /\ row'[j] = NoRow <=> row[j] = NoRow
  /\ row[j] # NoRow => /\ row'[j].version = row[j].version
                       /\ row'[j].checksum = row[j].checksum
                       /\ row'[j].status = row[j].status
                       /\ row'[j].active => row[j].active /\ audit'.deploy = audit.deploy
  /\ j \in trail' => j \in trail

\* The invariant of an id survives a step that leaves it alone.
LEMMA KeptGood ==
  ASSUME NEW j \in Ids, TypeOK, TypeOK', Good(j), Kept(j),
         nextId <= nextId', approved \subseteq approved'
  PROVE  Good(j)'
<1>1. nextId \in Nat /\ nextId' \in Nat /\ j \in Nat
  BY EngineAssumption DEF TypeOK, Ids
<1>2. Stored(j)' = Stored(j)
  BY DEF Stored, Kept
<1>3. Exists(j)' <=> Exists(j)
  BY DEF Exists, Kept
<1>4. Exists(j) => Document(j)' = Document(j)
  BY DEF Document, Kept, Exists
<1>5. Exists(j)' \/ j \in trail' => j < nextId'
  BY <1>1, <1>3 DEF Good, Kept
<1>6. QED
  BY <1>2, <1>3, <1>4, <1>5 DEF Good, Kept, Exists

\* Every mutation appends one well-formed audit row.
LEMMA AuditTypes ==
  ASSUME NEW i \in Ids, NEW b \in BOOLEAN, TypeOK, Audit(i, b)
  PROVE  /\ audit' \in [rows : 0..MaxAudit, last : Ids \cup {0}, deploy : Ids \cup {0}]
         /\ trail' \subseteq Ids
         /\ trail' = trail \cup {i}
         /\ audit'.deploy = IF b THEN i ELSE audit.deploy
  BY EngineAssumption DEF TypeOK, Audit

\* What UPDATE policies SET is_active = 0 does to the rows.
LEMMA DeactivatedRows ==
  ASSUME TypeOK
  PROVE  /\ Deactivated \in [Ids -> Row \cup {NoRow}]
         /\ \A i \in Ids : Deactivated[i] = NoRow <=> row[i] = NoRow
         /\ \A i \in Ids : row[i] # NoRow =>
              /\ Deactivated[i] \in Row
              /\ ~Deactivated[i].active
              /\ Deactivated[i].name = row[i].name
              /\ Deactivated[i].status = row[i].status
              /\ Deactivated[i].version = row[i].version
              /\ Deactivated[i].checksum = row[i].checksum
<1>1. \A i \in Ids : row[i] # NoRow => [row[i] EXCEPT !.active = FALSE] \in Row
  BY DEF TypeOK, Row
<1>2. QED
  BY <1>1, EngineAssumption DEF TypeOK, Deactivated, Exists, Row

LEMMA InitEngine == Init => EngineInv
<1> SUFFICES ASSUME Init PROVE EngineInv
  OBVIOUS
<1>1. TypeOK
  BY EngineAssumption DEF Init, TypeOK, Ids, Versions
<1>2. ASSUME NEW i \in Ids PROVE Good(i)
  BY DEF Init, Good, Exists, Stored
<1>3. QED
  BY <1>1, <1>2 DEF EngineInv

\* Create: a new id, one version, at most the others taken out of force.
LEMMA CreateStep ==
  ASSUME EngineInv, NEW n \in PolicyNames, NEW d \in Docs, NEW activate \in BOOLEAN,
         Create(n, d, activate)
  PROVE  EngineInv'
<1> USE DEF EngineInv
<1> DEFINE new  == [name |-> n, status |-> IF activate THEN "deployed" ELSE "draft",
                    active |-> activate, version |-> 1, checksum |-> d]
           base == IF activate THEN Deactivated ELSE row
<1>0. PICK i \in Ids : i = nextId
  BY DEF Create
<1>1. i = nextId /\ 1 \in Versions /\ nextId' = i + 1 /\ approved' = approved
  BY <1>0, EngineAssumption DEF Create, Versions
<1>2. new \in Row
  BY <1>1 DEF Row, Statuses
<1>3. base \in [Ids -> Row \cup {NoRow}]
  BY DeactivatedRows DEF TypeOK
<1>4. row' = [base EXCEPT ![i] = new] /\ doc' = [doc EXCEPT ![i][1] = d]
  BY <1>1 DEF Create
<1>5. Audit(i, activate)
  BY <1>1 DEF Create
<1>6. TypeOK'
  <2>1. row' \in [Ids -> Row \cup {NoRow}]
    BY <1>1, <1>2, <1>3, <1>4
  <2>2. doc' \in [Ids -> [Versions -> Docs \cup {NoDoc}]]
    BY <1>1, <1>4 DEF TypeOK
  <2>3. nextId' \in 1..(MaxId + 1)
    BY <1>1, EngineAssumption DEF Ids
  <2>4. approved' \subseteq Ids \X Versions
    BY <1>1 DEF TypeOK
  <2>5. QED
    BY <1>1, <1>5, <2>1, <2>2, <2>3, <2>4, AuditTypes DEF TypeOK
<1>7. ~Exists(i) /\ Stored(i) = {}
  <2>1. ~(i < nextId)
    BY <1>0 DEF Ids
  <2>2. Good(i)
    OBVIOUS
  <2>3. QED
    BY <2>1, <2>2 DEF Good
<1>8. Good(i)'
  <2>1. row'[i] = new /\ Exists(i)'
    BY <1>1, <1>2, <1>3, <1>4, EngineAssumption DEF Exists
  <2>2. doc'[i][1] = d /\ \A v \in Versions \ {1} : doc'[i][v] = NoDoc
    BY <1>1, <1>4, <1>7 DEF TypeOK, Stored
  <2>3. Stored(i)' = 1..1
    BY <1>1, <2>2, EngineAssumption DEF Stored, Versions
  <2>4. i < nextId'
    BY <1>1 DEF Ids
  <2>5. activate => audit'.deploy = i
    BY <1>1, <1>5, AuditTypes
  <2>6. QED
    BY <2>1, <2>2, <2>3, <2>4, <2>5, EngineAssumption DEF Good, Document, Exists
<1>9. ASSUME NEW j \in Ids, j # i PROVE Good(j)'
  <2>1. row'[j] = base[j] /\ doc'[j] = doc[j]
    BY <1>1, <1>3, <1>4, <1>9 DEF TypeOK
  <2>2. Kept(j)
    BY <1>1, <1>5, <1>9, <2>1, AuditTypes, DeactivatedRows DEF Kept
  <2>3. QED
    BY <1>1, <1>6, <2>2, KeptGood DEF Ids
<1>10. QED
  BY <1>6, <1>8, <1>9

\* A mutation of an existing policy: its own id stays good, the others are kept.
LEMMA MutationStep ==
  ASSUME EngineInv, NEW i \in Ids, NEW b \in BOOLEAN, Audit(i, b),
         TypeOK', Good(i)',
         nextId' = nextId, approved \subseteq approved',
         \A j \in Ids \ {i} : /\ doc'[j] = doc[j]
                              /\ row'[j] = IF b THEN Deactivated[j] ELSE row[j]
  PROVE  EngineInv'
<1>1. TypeOK
  BY DEF EngineInv
<1>2. ASSUME NEW j \in Ids, j # i PROVE Good(j)'
  <2>1. Kept(j)
    BY <1>1, <1>2, AuditTypes, DeactivatedRows DEF Kept
  <2>2. nextId <= nextId'
    BY <1>1, EngineAssumption DEF TypeOK
  <2>3. QED
    BY <1>1, <2>1, <2>2, KeptGood DEF EngineInv
<1>3. QED
  BY <1>2 DEF EngineInv

\* Update: the row and perhaps a version more; with activate the others go out of force.
LEMMA UpdateStep ==
  ASSUME EngineInv, NEW i \in Ids, NEW n \in PolicyNames, NEW d \in Docs \cup {NoDoc},
         NEW activate \in BOOLEAN, Update(i, n, d, activate)
  PROVE  EngineInv'
<1> DEFINE cur  == row[i]
           ver  == IF d = NoDoc THEN cur.version ELSE cur.version + 1
           new  == [name |-> n,
                    status |-> IF activate THEN "deployed"
                               ELSE IF d = NoDoc THEN cur.status ELSE "draft",
                    active |-> activate \/ cur.active,
                    version |-> ver,
                    checksum |-> IF d = NoDoc THEN cur.checksum ELSE d]
           base == IF activate THEN Deactivated ELSE row
<1>1. TypeOK /\ Good(i) /\ Exists(i) /\ cur \in Row
  BY DEF EngineInv, Update, Found, Exists, TypeOK
<1>2. ver \in Versions /\ nextId' = nextId /\ approved' = approved
  BY DEF Update
<1>3. new \in Row
  BY <1>1, <1>2 DEF Row, Statuses
<1>4. base \in [Ids -> Row \cup {NoRow}]
  BY <1>1, DeactivatedRows DEF TypeOK
<1>5. row' = [base EXCEPT ![i] = new]
      /\ doc' = IF d = NoDoc THEN doc ELSE [doc EXCEPT ![i][ver] = d]
  BY DEF Update
<1>6. Audit(i, activate)
  BY DEF Update
<1>7. TypeOK'
  <2>1. row' \in [Ids -> Row \cup {NoRow}]
    BY <1>3, <1>4, <1>5
  <2>2. doc' \in [Ids -> [Versions -> Docs \cup {NoDoc}]]
    BY <1>1, <1>2, <1>5 DEF TypeOK
  <2>3. QED
    BY <1>1, <1>2, <1>6, <2>1, <2>2, AuditTypes DEF TypeOK
<1>8. row'[i] = new /\ Exists(i)'
  BY <1>3, <1>4, <1>5, EngineAssumption DEF Exists
<1>9. Stored(i)' = 1..ver /\ Document(i)' = new.checksum
  <2>1. CASE d = NoDoc
    BY <1>1, <1>5, <1>8, <2>1 DEF Good, Stored, Document
  <2>2. CASE d # NoDoc
    <3>1. doc'[i] = [doc[i] EXCEPT ![ver] = d] /\ d \in Docs
      BY <1>1, <1>5, <2>2 DEF TypeOK
    <3>2. Stored(i)' = Stored(i) \cup {ver}
      BY <1>1, <1>2, <3>1, EngineAssumption DEF Stored, TypeOK
    <3>3. cur.version \in Nat \ {0}
      BY <1>1 DEF Row, Versions
    <3>4. Stored(i)' = 1..ver
      BY <1>1, <2>2, <3>2, <3>3 DEF Good
    <3>5. QED
      BY <1>1, <1>2, <1>8, <2>2, <3>1, <3>4 DEF Document, TypeOK
  <2>3. QED
    BY <2>1, <2>2
<1>10. Good(i)'
  <2>1. new.status = "approved" => <<i, new.version>> \in approved'
    BY <1>1, <1>2 DEF Good
  <2>2. i < nextId'
    BY <1>1, <1>2 DEF Good
  <2>3. new.active => i = audit'.deploy
    BY <1>1, <1>6, AuditTypes DEF Good
  <2>4. QED
    BY <1>8, <1>9, <2>1, <2>2, <2>3 DEF Good
<1>11. \A j \in Ids \ {i} : doc'[j] = doc[j] /\ row'[j] = base[j]
  BY <1>1, <1>4, <1>5 DEF TypeOK
<1>12. QED
  BY <1>2, <1>6, <1>7, <1>10, <1>11, MutationStep

\* Activate: an approved policy comes into force, the others go out of it.
LEMMA ActivateStep ==
  ASSUME EngineInv, NEW i \in Ids, Activate(i)
  PROVE  EngineInv'
<1> DEFINE new == [Deactivated[i] EXCEPT !.status = "deployed", !.active = TRUE]
<1>1. TypeOK /\ Good(i) /\ Exists(i)
  BY DEF EngineInv, Activate, Found
<1>2. nextId' = nextId /\ approved' = approved /\ doc' = doc /\ Audit(i, TRUE)
  BY DEF Activate
<1>3. Deactivated \in [Ids -> Row \cup {NoRow}] /\ Deactivated[i] \in Row
  BY <1>1, DeactivatedRows DEF Exists
<1>4. row' = [Deactivated EXCEPT ![i] = new]
  BY DEF Activate
<1>5. new \in Row /\ new.version = row[i].version /\ new.checksum = row[i].checksum
      /\ new.status = "deployed" /\ new.active
  BY <1>1, <1>3, DeactivatedRows DEF Row, Statuses, Exists
<1>6. TypeOK'
  <2>1. row' \in [Ids -> Row \cup {NoRow}]
    BY <1>3, <1>4, <1>5
  <2>2. QED
    BY <1>1, <1>2, <2>1, AuditTypes DEF TypeOK
<1>7. row'[i] = new /\ Exists(i)'
  BY <1>3, <1>4, <1>5, EngineAssumption DEF Exists
<1>8. Good(i)'
  <2>1. Stored(i)' = 1..row'[i].version /\ row'[i].checksum = Document(i)'
    BY <1>1, <1>2, <1>5, <1>7 DEF Good, Stored, Document
  <2>2. i = audit'.deploy /\ i < nextId'
    BY <1>1, <1>2, AuditTypes DEF Good
  <2>3. QED
    BY <1>5, <1>7, <2>1, <2>2 DEF Good
<1>9. \A j \in Ids \ {i} : doc'[j] = doc[j] /\ row'[j] = Deactivated[j]
  BY <1>2, <1>3, <1>4
<1>10. QED
  BY <1>2, <1>6, <1>8, <1>9, MutationStep

\* Rollback: a version more, with a document of the history; the policy stays in force.
LEMMA RollbackStep ==
  ASSUME EngineInv, NEW i \in Ids, Rollback(i)
  PROVE  EngineInv'
<1> DEFINE cur == row[i]
           ver == cur.version + 1
<1>1. TypeOK /\ Good(i) /\ Exists(i) /\ cur \in Row /\ cur.active
  BY DEF EngineInv, Rollback, Found, Exists, TypeOK, Active
<1>2. PICK prev \in Stored(i) :
        /\ ver \in Versions
        /\ doc' = [doc EXCEPT ![i][ver] = doc[i][prev]]
        /\ row' = [row EXCEPT ![i].status = "draft", ![i].version = ver,
                              ![i].checksum = doc[i][prev]]
        /\ Audit(i, FALSE)
        /\ nextId' = nextId /\ approved' = approved
  BY DEF Rollback
<1>3. prev \in Versions /\ doc[i][prev] \in Docs
  BY <1>1 DEF Stored, TypeOK
<1> DEFINE new == [cur EXCEPT !.status = "draft", !.version = ver, !.checksum = doc[i][prev]]
<1>4. new \in Row /\ new.version = ver /\ new.checksum = doc[i][prev]
      /\ new.status = "draft" /\ new.active
  BY <1>1, <1>2, <1>3 DEF Row, Statuses
<1>5. row' = [row EXCEPT ![i] = new]
  BY <1>2
<1>6. TypeOK'
  <2>1. row' \in [Ids -> Row \cup {NoRow}]
    BY <1>1, <1>4, <1>5 DEF TypeOK
  <2>2. doc' \in [Ids -> [Versions -> Docs \cup {NoDoc}]]
    BY <1>1, <1>2, <1>3 DEF TypeOK
  <2>3. QED
    BY <1>1, <1>2, <2>1, <2>2, AuditTypes DEF TypeOK
<1>7. row'[i] = new /\ Exists(i)'
  BY <1>1, <1>4, <1>5, EngineAssumption DEF Exists, TypeOK
<1>8. doc'[i] = [doc[i] EXCEPT ![ver] = doc[i][prev]]
  BY <1>1, <1>2 DEF TypeOK
<1>9. Good(i)'
  <2>1. Stored(i)' = Stored(i) \cup {ver}
    BY <1>1, <1>2, <1>3, <1>8, EngineAssumption DEF Stored, TypeOK
  <2>2. cur.version \in Nat \ {0}
    BY <1>1 DEF Row, Versions
  <2>3. Stored(i)' = 1..ver
    BY <1>1, <2>1, <2>2 DEF Good
  <2>4. row'[i].checksum = Document(i)'
    BY <1>1, <1>2, <1>4, <1>7, <1>8 DEF Document, TypeOK
  <2>5. i < nextId' /\ i = audit'.deploy
    BY <1>1, <1>2, AuditTypes DEF Good
  <2>6. QED
    BY <1>4, <1>7, <2>3, <2>4, <2>5 DEF Good
<1>10. \A j \in Ids \ {i} : doc'[j] = doc[j] /\ row'[j] = row[j]
  BY <1>1, <1>2, <1>5 DEF TypeOK
<1>11. QED
  BY <1>2, <1>6, <1>9, <1>10, MutationStep

\* Delete: the id has neither row nor versions, and stays below the sequence.
LEMMA DeleteStep ==
  ASSUME EngineInv, NEW i \in Ids, Delete(i)
  PROVE  EngineInv'
<1>1. TypeOK /\ Good(i) /\ Exists(i)
  BY DEF EngineInv, Delete, Found
<1>2. /\ doc' = [doc EXCEPT ![i] = [v \in Versions |-> NoDoc]]
      /\ row' = [row EXCEPT ![i] = NoRow]
      /\ nextId' = nextId /\ approved' = approved /\ Audit(i, FALSE)
  BY DEF Delete
<1>3. TypeOK'
  BY <1>1, <1>2, AuditTypes DEF TypeOK
<1>4. ~Exists(i)' /\ Stored(i)' = {} /\ i < nextId'
  BY <1>1, <1>2 DEF Exists, Stored, TypeOK, Good
<1>5. Good(i)'
  BY <1>4 DEF Good
<1>6. \A j \in Ids \ {i} : doc'[j] = doc[j] /\ row'[j] = row[j]
  BY <1>1, <1>2 DEF TypeOK
<1>7. QED
  BY <1>2, <1>3, <1>5, <1>6, MutationStep

\* SetStatus: only approval makes the status approved, and it is recorded.
LEMMA SetStatusStep ==
  ASSUME EngineInv, NEW i \in Ids, NEW s \in Statuses \ {"deployed"}, SetStatus(i, s)
  PROVE  EngineInv'
<1> DEFINE new == [row[i] EXCEPT !.status = s]
<1>1. TypeOK /\ Good(i) /\ Exists(i) /\ row[i] \in Row
  BY DEF EngineInv, SetStatus, Found, Exists, TypeOK
<1>2. /\ row' = [row EXCEPT ![i] = new]
      /\ approved' = IF s = "approved" THEN approved \cup {<<i, row[i].version>>}
                                       ELSE approved
      /\ Audit(i, FALSE) /\ doc' = doc /\ nextId' = nextId
  BY DEF SetStatus
<1>3. new \in Row /\ new.version = row[i].version /\ new.checksum = row[i].checksum
      /\ new.status = s /\ new.active = row[i].active
  BY <1>1 DEF Row
<1>4. TypeOK'
  <2>1. row' \in [Ids -> Row \cup {NoRow}]
    BY <1>1, <1>2, <1>3 DEF TypeOK
  <2>2. approved' \subseteq Ids \X Versions
    BY <1>1, <1>2 DEF TypeOK, Row
  <2>3. QED
    BY <1>1, <1>2, <2>1, <2>2, AuditTypes DEF TypeOK
<1>5. row'[i] = new /\ Exists(i)'
  BY <1>1, <1>2, <1>3, EngineAssumption DEF Exists, TypeOK
<1>6. Good(i)'
  <2>1. Stored(i)' = 1..row'[i].version /\ row'[i].checksum = Document(i)'
    BY <1>1, <1>2, <1>3, <1>5 DEF Good, Stored, Document
  <2>2. i < nextId' /\ (new.active => i = audit'.deploy)
    BY <1>1, <1>2, <1>3, AuditTypes DEF Good
  <2>3. s = "approved" => <<i, new.version>> \in approved'
    BY <1>2, <1>3
  <2>4. QED
    BY <1>3, <1>5, <2>1, <2>2, <2>3 DEF Good
<1>7. \A j \in Ids \ {i} : doc'[j] = doc[j] /\ row'[j] = row[j]
  BY <1>1, <1>2 DEF TypeOK
<1>8. approved \subseteq approved'
  BY <1>2
<1>9. QED
  BY <1>2, <1>4, <1>6, <1>7, <1>8, MutationStep

\* Every request keeps the invariant.
LEMMA NextEngine == EngineInv /\ [Next]_engineVars => EngineInv'
<1> SUFFICES ASSUME EngineInv, [Next]_engineVars PROVE EngineInv'
  OBVIOUS
<1>1. ASSUME NEW n \in PolicyNames, NEW d \in Docs, NEW a \in BOOLEAN, Create(n, d, a)
      PROVE EngineInv'
  BY <1>1, CreateStep
<1>2. ASSUME NEW i \in Ids, NEW n \in PolicyNames, NEW d \in Docs \cup {NoDoc},
             NEW a \in BOOLEAN, Update(i, n, d, a)
      PROVE EngineInv'
  BY <1>2, UpdateStep
<1>3. ASSUME NEW i \in Ids, Activate(i) \/ Rollback(i) \/ Delete(i) PROVE EngineInv'
  BY <1>3, ActivateStep, RollbackStep, DeleteStep
<1>4. ASSUME NEW i \in Ids, NEW s \in Statuses \ {"deployed"}, SetStatus(i, s)
      PROVE EngineInv'
  BY <1>4, SetStatusStep
<1>5. CASE UNCHANGED engineVars
  BY <1>5 DEF engineVars, EngineInv, TypeOK, Good, Exists, Stored, Document
<1>6. QED
  BY <1>1, <1>2, <1>3, <1>4, <1>5 DEF Next

\* The invariant holds in every state of the policy server.
LEMMA EngineInvariant == Spec => []EngineInv
<1>1. QED
  BY InitEngine, NextEngine, PTL DEF Spec

-----------------------------------------------------------------------------
\* The tables keep their types through every request (TypeOK).
THEOREM EngineTypes == Spec => []TypeOK
<1>1. EngineInv => TypeOK
  BY DEF EngineInv
<1>2. QED
  BY <1>1, EngineInvariant, PTL

\* Agents can be given only one policy at any time (get_active_policy).
THEOREM SingleActivePolicy == Spec => []AtMostOneActive
<1>1. EngineInv => AtMostOneActive
  BY DEF EngineInv, Good, AtMostOneActive, Active
<1>2. QED
  BY <1>1, EngineInvariant, PTL

\* Each policy row and its version rows agree, checksum included (get_policy).
THEOREM HistoryAgrees == Spec => []RowsAgree
<1>1. EngineInv => RowsAgree
  BY DEF EngineInv, Good, RowsAgree
<1>2. QED
  BY <1>1, EngineInvariant, PTL

\* The status approved always speaks of the current version (activate_policy).
THEOREM ApprovalIsCurrent == Spec => []ApprovalCoversCurrent
<1>1. EngineInv => ApprovalCoversCurrent
  BY DEF EngineInv, Good, ApprovalCoversCurrent
<1>2. QED
  BY <1>1, EngineInvariant, PTL

\* The newest deployment in policy_audit is the policy in force (audit).
THEOREM TrailIsCurrent == Spec => []TrailNamesActive
<1>1. EngineInv => TrailNamesActive
  BY DEF EngineInv, Good, TrailNamesActive, Active
<1>2. QED
  BY <1>1, EngineInvariant, PTL

\* Of all requests only create fills an id, and with activate it takes that id.
LEMMA OnlyCreateAdds ==
  ASSUME EngineInv, [Next]_engineVars, NEW i \in Ids, ~Exists(i), Exists(i)'
  PROVE  i = nextId
<1>1. TypeOK
  BY DEF EngineInv
<1>2. ASSUME NEW k \in Ids, NEW new, NEW base,
             base = row \/ base = Deactivated,
             row' = [base EXCEPT ![k] = new], k # i
      PROVE FALSE
  BY <1>1, <1>2, DeactivatedRows DEF Exists, TypeOK
<1>3. ASSUME NEW n \in PolicyNames, NEW d \in Docs, NEW a \in BOOLEAN, Create(n, d, a)
      PROVE i = nextId
  <2>1. CASE a
    BY <1>2, <1>3, <2>1 DEF Create
  <2>2. CASE ~a
    BY <1>2, <1>3, <2>2 DEF Create
  <2>3. QED
    BY <2>1, <2>2
<1>4. ASSUME NEW k \in Ids, NEW n \in PolicyNames, NEW d \in Docs \cup {NoDoc},
             NEW a \in BOOLEAN, Update(k, n, d, a)
      PROVE FALSE
  <2>1. Exists(k)
    BY <1>4 DEF Update, Found
  <2>2. CASE a
    BY <1>2, <1>4, <2>1, <2>2 DEF Update
  <2>3. CASE ~a
    BY <1>2, <1>4, <2>1, <2>3 DEF Update
  <2>4. QED
    BY <2>2, <2>3
<1>5. ASSUME NEW k \in Ids, Activate(k) PROVE FALSE
  BY <1>2, <1>5 DEF Activate, Found
<1>6. ASSUME NEW k \in Ids, Rollback(k) PROVE FALSE
  BY <1>2, <1>6 DEF Rollback, Found
<1>7. ASSUME NEW k \in Ids, Delete(k) PROVE FALSE
  BY <1>2, <1>7 DEF Delete, Found
<1>8. ASSUME NEW k \in Ids, NEW s \in Statuses \ {"deployed"}, SetStatus(k, s) PROVE FALSE
  BY <1>2, <1>8 DEF SetStatus, Found
<1>9. CASE UNCHANGED engineVars
  BY <1>9 DEF engineVars, Exists
<1>10. QED
  BY <1>3, <1>4, <1>5, <1>6, <1>7, <1>8, <1>9 DEF Next

\* No policy is created under an id the audit trail already speaks of (AUTOINCREMENT).
THEOREM TrailsNeverMix == Spec => TrailIsOwn
<1>1. EngineInv /\ [Next]_engineVars
        => [\A i \in Ids : ~Exists(i) /\ Exists(i)' => i \notin trail]_engineVars
  <2> SUFFICES ASSUME EngineInv, [Next]_engineVars,
                      NEW i \in Ids, ~Exists(i), Exists(i)'
               PROVE  i \notin trail
    OBVIOUS
  <2>1. i = nextId /\ nextId \in Nat
    BY OnlyCreateAdds, EngineAssumption DEF EngineInv, TypeOK
  <2>2. Good(i) /\ ~(i < nextId)
    BY <2>1 DEF EngineInv
  <2>3. QED
    BY <2>2 DEF Good
<1>2. QED
  BY <1>1, EngineInvariant, PTL DEF Spec, TrailIsOwn

\* A request leaves some policy in force when there was one.
LEMMA SomeStaysActive ==
  ASSUME EngineInv, [Next]_engineVars, NEW k \in Active
  PROVE  Active' # {}
<1>1. TypeOK /\ k \in Ids /\ row[k] \in Row /\ row[k] # NoRow /\ row[k].active /\ Good(k)
  BY EngineAssumption DEF EngineInv, Active, Exists, TypeOK
<1>2. ASSUME NEW j \in Ids, row'[j] # NoRow, row'[j].active PROVE Active' # {}
  BY <1>2 DEF Active, Exists
<1>3. row'[k] = row[k] => Active' # {}
  BY <1>1, <1>2
<1>4. ASSUME NEW n \in PolicyNames, NEW d \in Docs, NEW a \in BOOLEAN, Create(n, d, a)
      PROVE Active' # {}
  <2>1. PICK i \in Ids : i = nextId
    BY <1>4 DEF Create
  <2>2. CASE a
    <3>1. row'[i] = [name |-> n, status |-> "deployed", active |-> TRUE,
                     version |-> 1, checksum |-> d]
      BY <1>1, <1>4, <2>1, <2>2, DeactivatedRows DEF Create
    <3>2. row'[i] \in Row
      BY <3>1, EngineAssumption DEF Row, Statuses, Versions
    <3>3. row'[i] # NoRow
      BY <3>2, EngineAssumption
    <3>4. QED
      BY <1>2, <3>1, <3>3
  <2>3. CASE ~a
    <3>1. k # i
      BY <1>1, <2>1 DEF Good, Exists, Ids
    <3>2. row'[k] = row[k]
      BY <1>1, <1>4, <2>1, <2>3, <3>1 DEF Create, TypeOK
    <3>3. QED
      BY <1>3, <3>2
  <2>4. QED
    BY <2>2, <2>3
<1>5. ASSUME NEW i \in Ids, NEW n \in PolicyNames, NEW d \in Docs \cup {NoDoc},
             NEW a \in BOOLEAN, Update(i, n, d, a)
      PROVE Active' # {}
  <2> DEFINE base == IF a THEN Deactivated ELSE row
             ver  == IF d = NoDoc THEN row[i].version ELSE row[i].version + 1
             new  == [name |-> n,
                      status |-> IF a THEN "deployed"
                                 ELSE IF d = NoDoc THEN row[i].status ELSE "draft",
                      active |-> a \/ row[i].active,
                      version |-> ver,
                      checksum |-> IF d = NoDoc THEN row[i].checksum ELSE d]
  <2>1. row[i] \in Row /\ ver \in Versions
    BY <1>1, <1>5 DEF Update, Found, Exists, TypeOK
  <2>2. base \in [Ids -> Row \cup {NoRow}] /\ row' = [base EXCEPT ![i] = new]
    BY <1>1, <1>5, DeactivatedRows DEF Update, TypeOK
  <2>3. new \in Row
    BY <2>1 DEF Row, Statuses
  <2>4. row'[i] = new /\ row'[i] # NoRow
    BY <2>2, <2>3, EngineAssumption
  <2>5. CASE a \/ k = i
    <3>1. new.active
      BY <1>1, <2>5
    <3>2. QED
      BY <1>2, <2>4, <3>1
  <2>6. CASE ~a /\ k # i
    BY <1>1, <1>3, <2>2, <2>6
  <2>7. QED
    BY <2>5, <2>6
<1>6. ASSUME NEW i \in Ids, Activate(i) PROVE Active' # {}
  <2>1. Deactivated \in [Ids -> Row \cup {NoRow}] /\ Deactivated[i] \in Row
    BY <1>1, <1>6, DeactivatedRows DEF Activate, Found, Exists
  <2>2. row'[i] = [Deactivated[i] EXCEPT !.status = "deployed", !.active = TRUE]
    BY <1>6, <2>1 DEF Activate
  <2>3. row'[i] \in Row /\ row'[i].active
    BY <2>1, <2>2 DEF Row, Statuses
  <2>4. QED
    BY <1>2, <2>3, EngineAssumption
<1>7. ASSUME NEW i \in Ids, Rollback(i) PROVE Active' # {}
  <2>1. CASE k = i
    <3>1. PICK prev \in Stored(i) :
            row' = [row EXCEPT ![i].status = "draft", ![i].version = row[i].version + 1,
                               ![i].checksum = doc[i][prev]]
      BY <1>7 DEF Rollback
    <3>2. row[i].version + 1 \in Versions /\ doc[i][prev] \in Docs
      BY <1>1, <1>7 DEF Rollback, Stored, TypeOK
    <3>3. row'[k] \in Row /\ row'[k].active
      BY <1>1, <2>1, <3>1, <3>2 DEF Row, Statuses, TypeOK
    <3>4. QED
      BY <1>1, <1>2, <3>3, EngineAssumption
  <2>2. CASE k # i
    BY <1>1, <1>3, <1>7, <2>2 DEF Rollback, TypeOK
  <2>3. QED
    BY <2>1, <2>2
<1>8. ASSUME NEW i \in Ids, Delete(i) PROVE Active' # {}
  BY <1>1, <1>3, <1>8 DEF Delete, TypeOK
<1>9. ASSUME NEW i \in Ids, NEW s \in Statuses \ {"deployed"}, SetStatus(i, s)
       PROVE Active' # {}
  <2>1. CASE k = i
    <3>1. row'[k] = [row[k] EXCEPT !.status = s]
      BY <1>1, <1>9, <2>1 DEF SetStatus, TypeOK
    <3>2. row'[k] \in Row /\ row'[k].active
      BY <1>1, <3>1 DEF Row
    <3>3. QED
      BY <1>1, <1>2, <3>2, EngineAssumption
  <2>2. CASE k # i
    BY <1>1, <1>3, <1>9, <2>2 DEF SetStatus, TypeOK
  <2>3. QED
    BY <2>1, <2>2
<1>10. CASE UNCHANGED engineVars
  BY <1>3, <1>10 DEF engineVars
<1>11. QED
  BY <1>4, <1>5, <1>6, <1>7, <1>8, <1>9, <1>10 DEF Next

\* Once a policy is deployed the agents never again find none (delete_policy, update_policy).
THEOREM DeploymentStays == Spec => StaysDeployed
<1>1. EngineInv /\ [Next]_engineVars => [Active # {} => Active' # {}]_engineVars
  BY SomeStaysActive
<1>2. QED
  BY <1>1, EngineInvariant, PTL DEF Spec, StaysDeployed

\* A request adds versions to a policy that outlives it, and moves its pointer only forward.
LEMMA OnlyAddsVersions ==
  ASSUME EngineInv, [Next]_engineVars, NEW k \in Ids, Exists(k), Exists(k)'
  PROVE  /\ row[k].version <= row'[k].version
         /\ \A v \in Stored(k) : doc'[k][v] = doc[k][v]
<1> DEFINE Grown == /\ row[k].version <= row'[k].version
                    /\ \A v \in Stored(k) : doc'[k][v] = doc[k][v]
<1>1. TypeOK /\ TypeOK' /\ row[k] \in Row /\ row[k].version \in Nat /\ row'[k] \in Row /\ Good(k)
  BY NextEngine DEF EngineInv, TypeOK, Exists, Row, Versions
<1>2. ASSUME doc'[k] = doc[k], row'[k] = row[k] \/ row'[k] = Deactivated[k] PROVE Grown
  BY <1>1, <1>2, DeactivatedRows DEF Exists
<1>3. ASSUME NEW n \in PolicyNames, NEW d \in Docs, NEW a \in BOOLEAN, Create(n, d, a)
      PROVE Grown
  <2>1. k # nextId
    BY <1>1, EngineAssumption DEF Good, Ids, TypeOK
  <2>2. doc'[k] = doc[k]
    BY <1>1, <1>3, <2>1 DEF Create, TypeOK
  <2>3. row'[k] = row[k] \/ row'[k] = Deactivated[k]
    BY <1>1, <1>3, <2>1, DeactivatedRows DEF Create, TypeOK
  <2>4. QED
    BY <1>2, <2>2, <2>3
<1>4. ASSUME NEW i \in Ids, NEW n \in PolicyNames, NEW d \in Docs \cup {NoDoc},
             NEW a \in BOOLEAN, Update(i, n, d, a)
      PROVE Grown
  <2> DEFINE base == IF a THEN Deactivated ELSE row
             ver  == IF d = NoDoc THEN row[i].version ELSE row[i].version + 1
             new  == [name |-> n,
                      status |-> IF a THEN "deployed"
                                 ELSE IF d = NoDoc THEN row[i].status ELSE "draft",
                      active |-> a \/ row[i].active,
                      version |-> ver,
                      checksum |-> IF d = NoDoc THEN row[i].checksum ELSE d]
  <2>1. /\ base \in [Ids -> Row \cup {NoRow}] /\ row' = [base EXCEPT ![i] = new]
        /\ ver \in Versions /\ (d = NoDoc \/ doc[i][ver] = NoDoc)
        /\ doc' = IF d = NoDoc THEN doc ELSE [doc EXCEPT ![i][ver] = d]
    BY <1>1, <1>4, DeactivatedRows DEF Update, TypeOK
  <2>2. CASE k = i
    <3>1. row'[k].version = ver /\ row[k].version <= ver
      BY <1>1, <2>1, <2>2
    <3>2. \A v \in Stored(k) : v \in Versions /\ doc[k][v] # NoDoc
      BY DEF Stored
    <3>3. \A v \in Stored(k) : doc'[k][v] = doc[k][v]
      BY <1>1, <2>1, <2>2, <3>2 DEF TypeOK
    <3>4. QED
      BY <3>1, <3>3
  <2>3. CASE k # i
    <3>1. row'[k] = row[k] \/ row'[k] = Deactivated[k]
      BY <2>1, <2>3
    <3>2. doc'[k] = doc[k]
      BY <1>1, <2>1, <2>3 DEF TypeOK
    <3>3. QED
      BY <1>2, <3>1, <3>2
  <2>4. QED
    BY <2>2, <2>3
<1>5. ASSUME NEW i \in Ids, Activate(i) PROVE Grown
  <2>1. doc' = doc /\ row' = [Deactivated EXCEPT ![i].status = "deployed", ![i].active = TRUE]
    BY <1>5 DEF Activate
  <2>2. Deactivated \in [Ids -> Row \cup {NoRow}] /\ Deactivated[k] \in Row
        /\ Deactivated[k].version = row[k].version
    BY <1>1, DeactivatedRows DEF Exists
  <2>3. row'[k].version = row[k].version
    BY <2>1, <2>2 DEF Row
  <2>4. QED
    BY <1>1, <2>1, <2>3
<1>6. ASSUME NEW i \in Ids, Rollback(i) PROVE Grown
  <2>1. PICK prev \in Stored(i) :
          /\ row[i].version + 1 \in Versions /\ doc[i][row[i].version + 1] = NoDoc
          /\ doc' = [doc EXCEPT ![i][row[i].version + 1] = doc[i][prev]]
          /\ row' = [row EXCEPT ![i].status = "draft", ![i].version = row[i].version + 1,
                                ![i].checksum = doc[i][prev]]
    BY <1>6 DEF Rollback
  <2>2. CASE k = i
    <3>1. row'[k].version = row[k].version + 1
      BY <1>1, <2>1, <2>2 DEF TypeOK, Row
    <3>2. \A v \in Stored(k) : v \in Versions /\ doc[k][v] # NoDoc
      BY DEF Stored
    <3>3. \A v \in Stored(k) : doc'[k][v] = doc[k][v]
      BY <1>1, <2>1, <2>2, <3>2 DEF TypeOK
    <3>4. QED
      BY <1>1, <3>1, <3>3
  <2>3. CASE k # i
    BY <1>1, <1>2, <2>1, <2>3 DEF TypeOK
  <2>4. QED
    BY <2>2, <2>3
<1>7. ASSUME NEW i \in Ids, Delete(i) PROVE Grown
  <2>1. k # i
    BY <1>1, <1>7 DEF Delete, Exists, TypeOK
  <2>2. QED
    BY <1>1, <1>2, <1>7, <2>1 DEF Delete, TypeOK
<1>8. ASSUME NEW i \in Ids, NEW s \in Statuses \ {"deployed"}, SetStatus(i, s) PROVE Grown
  <2>1. row'[k] = row[k] \/ row'[k] = [row[k] EXCEPT !.status = s]
    BY <1>1, <1>8 DEF SetStatus, TypeOK
  <2>2. row'[k].version = row[k].version
    BY <1>1, <2>1 DEF Row
  <2>3. QED
    BY <1>1, <1>8, <2>2 DEF SetStatus
<1>9. CASE UNCHANGED engineVars
  BY <1>1, <1>9 DEF engineVars
<1>10. QED
  BY <1>3, <1>4, <1>5, <1>6, <1>7, <1>8, <1>9 DEF Next

\* A version an agent may have is never changed, and the policy never points back at an
\* older one (update_policy, rollback_active_policy).
THEOREM VersionsStay == Spec => VersionsOnlyGrow
<1>1. EngineInv /\ [Next]_engineVars =>
        [\A i \in Ids : Exists(i) /\ Exists(i)' =>
           /\ row[i].version <= row'[i].version
           /\ \A v \in Stored(i) : doc'[i][v] = doc[i][v]]_engineVars
  BY OnlyAddsVersions
<1>2. QED
  BY <1>1, EngineInvariant, PTL DEF Spec, VersionsOnlyGrow

=============================================================================
