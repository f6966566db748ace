---------------------------- MODULE PolicyEngine ----------------------------
(***************************************************************************)
(* The DLP policy server (crate dlp-policy-engine).  It serves one request *)
(* at a time and runs each mutation in one SQLite transaction, so a request*)
(* is an action; one that is refused or fails rolls back and changes       *)
(* nothing.  A checksum is the SHA-256 of the canonical document and is    *)
(* modelled by the document itself.                                        *)
(***************************************************************************)
EXTENDS Naturals

CONSTANTS
  PolicyNames,  (* names in policies.name, which is UNIQUE                   *)
  Docs,         (* policy documents                                          *)
  MaxId,        (* bound on policies.id (AUTOINCREMENT)                      *)
  MaxVersion,   (* bound on policy_versions.version                          *)
  MaxAudit,     (* bound on the rows of policy_audit, so on mutations        *)
  NoRow,        (* an id with no row in policies                             *)
  NoDoc         (* a version with no row in policy_versions                  *)

Ids      == 1..MaxId
Versions == 1..MaxVersion
Statuses == {"draft", "pending_approval", "approved", "deployed"}

Row == [name : PolicyNames, status : Statuses, active : BOOLEAN,
        version : Versions, checksum : Docs]

ASSUME EngineAssumption ==
  /\ MaxId \in Nat \ {0} /\ MaxVersion \in Nat \ {0} /\ MaxAudit \in Nat
  /\ NoRow \notin Row
  /\ NoDoc \notin Docs

VARIABLES
  row,      (* policies: id -> row                                           *)
  doc,      (* policy_versions: id -> version -> document                    *)
  nextId,   (* the AUTOINCREMENT sequence of policies                        *)
  audit,    (* policy_audit: its length, the policy of its newest row, the   *)
            (* policy of the newest row that records a deployment            *)
  trail,    (* the ids that have rows in policy_audit                        *)
  approved  (* history: the <<id, version>> that /approve was called on      *)

engineVars == <<row, doc, nextId, audit, trail, approved>>

Init ==
  /\ row = [i \in Ids |-> NoRow]
  /\ doc = [i \in Ids |-> [v \in Versions |-> NoDoc]]
  /\ nextId = 1
  /\ audit = [rows |-> 0, last |-> 0, deploy |-> 0]
  /\ trail = {}
  /\ approved = {}

-----------------------------------------------------------------------------
Exists(i)     == row[i] # NoRow
Active        == {i \in Ids : Exists(i) /\ row[i].active}
Stored(i)     == {v \in Versions : doc[i][v] # NoDoc}

\* get_policy: the row together with the version it points at, or nothing.
Found(i)      == Exists(i) /\ doc[i][row[i].version] # NoDoc
Document(i)   == doc[i][row[i].version]

\* Mutant of Deactivated: the other policies stay active.
StillActive == row

\* UPDATE policies SET is_active = 0
Deactivated   == [i \in Ids |-> IF Exists(i) THEN [row[i] EXCEPT !.active = FALSE]
                                             ELSE NoRow]

NameFree(n, except) == \A i \in Ids \ except : Exists(i) => row[i].name # n

\* Mutant of Audit: a deployment is recorded like any other change.
AuditBlind(i, deploys) ==
  /\ audit.rows < MaxAudit
  /\ audit' = [audit EXCEPT !.rows = @ + 1, !.last = i]
  /\ trail' = trail \cup {i}

\* audit: one row per transaction.
Audit(i, deploys) ==
  /\ audit.rows < MaxAudit
  /\ audit' = [rows |-> audit.rows + 1, last |-> i,
               deploy |-> IF deploys THEN i ELSE audit.deploy]
  /\ trail' = trail \cup {i}

\* POST /policies.  INSERT fails on a name in use, and the deactivation with it.
Create(n, d, activate) ==
  /\ nextId \in Ids
  /\ NameFree(n, {})
  /\ row' = [(IF activate THEN Deactivated ELSE row) EXCEPT ![nextId] =
               [name |-> n, status |-> IF activate THEN "deployed" ELSE "draft",
                active |-> activate, version |-> 1, checksum |-> d]]
  /\ doc' = [doc EXCEPT ![nextId][1] = d]
  /\ nextId' = nextId + 1
  /\ Audit(nextId, activate)
  /\ UNCHANGED approved

\* Mutants of Update: an explicit null document is stored; a new document replaces
\* the current version; a new document keeps the status.
UpdateNull(i, n, d, activate) ==
  /\ Found(i)
  /\ NameFree(n, {i})
  /\ row' = [row EXCEPT ![i].name = n, ![i].checksum = d]
  /\ Audit(i, activate)
  /\ UNCHANGED <<doc, nextId, approved>>

UpdateInPlace(i, n, d, activate) ==
  /\ Found(i)
  /\ NameFree(n, {i})
  /\ d # NoDoc
  /\ row' = [row EXCEPT ![i].name = n, ![i].status = "draft", ![i].checksum = d]
  /\ doc' = [doc EXCEPT ![i][row[i].version] = d]
  /\ Audit(i, activate)
  /\ UNCHANGED <<nextId, approved>>

UpdateKeepsStatus(i, n, d, activate) ==
  LET ver == row[i].version + 1 IN
  /\ Found(i)
  /\ NameFree(n, {i})
  /\ d # NoDoc /\ ver \in Versions
  /\ row' = [row EXCEPT ![i].name = n, ![i].version = ver, ![i].checksum = d]
  /\ doc' = [doc EXCEPT ![i][ver] = d]
  /\ Audit(i, activate)
  /\ UNCHANGED <<nextId, approved>>

\* PUT /policies/{i} with a new document (a new version) or without one (d = NoDoc).
Update(i, n, d, activate) ==
  LET cur == row[i]
      ver == IF d = NoDoc THEN cur.version ELSE cur.version + 1 IN
  /\ Found(i)
  /\ NameFree(n, {i})
  /\ ver \in Versions
  /\ d = NoDoc \/ doc[i][ver] = NoDoc
  /\ row' = [(IF activate THEN Deactivated ELSE row) EXCEPT ![i] =
               [name |-> n,
                status |-> IF activate THEN "deployed"
                           ELSE IF d = NoDoc THEN cur.status ELSE "draft",
                active |-> activate \/ cur.active,
                version |-> ver,
                checksum |-> IF d = NoDoc THEN cur.checksum ELSE d]]
  /\ doc' = IF d = NoDoc THEN doc ELSE [doc EXCEPT ![i][ver] = d]
  /\ Audit(i, activate)
  /\ UNCHANGED <<nextId, approved>>

\* POST /policies/{i}/activate
Activate(i) ==
  /\ Found(i)
  /\ row[i].status = "approved"
  /\ row' = [Deactivated EXCEPT ![i].status = "deployed", ![i].active = TRUE]
  /\ Audit(i, TRUE)
  /\ UNCHANGED <<doc, nextId, approved>>

\* Mutant of Rollback: the row points back at the version before.
RollbackInPlace(i) ==
  /\ i \in Active
  /\ row[i].version > 1
  /\ row' = [row EXCEPT ![i].status = "draft", ![i].version = @ - 1,
                        ![i].checksum = doc[i][row[i].version - 1]]
  /\ Audit(i, FALSE)
  /\ UNCHANGED <<doc, nextId, approved>>

\* POST /policies/rollback: a new version of the active policy, whose document is
\* that of the last version but one.  With a single version nothing is written.
Rollback(i) ==
  \E top, prev \in Stored(i) :
    LET ver == row[i].version + 1 IN
    /\ i \in Active
    /\ Found(i)
    /\ prev < top
    /\ \A v \in Stored(i) : v <= top /\ (v # top => v <= prev)
    /\ ver \in Versions
    /\ doc[i][ver] = NoDoc
    /\ doc' = [doc EXCEPT ![i][ver] = doc[i][prev]]
    /\ row' = [row EXCEPT ![i].status = "draft", ![i].version = ver,
                          ![i].checksum = doc[i][prev]]
    /\ Audit(i, FALSE)
    /\ UNCHANGED <<nextId, approved>>

\* Mutants of Delete: an active policy may go; ids are rowids, and are used again.
DeleteAny(i) ==
  /\ Found(i)
  /\ doc' = [doc EXCEPT ![i] = [v \in Versions |-> NoDoc]]
  /\ row' = [row EXCEPT ![i] = NoRow]
  /\ Audit(i, FALSE)
  /\ UNCHANGED <<nextId, approved>>

DeleteFreesId(i) ==
  /\ Found(i)
  /\ ~row[i].active
  /\ doc' = [doc EXCEPT ![i] = [v \in Versions |-> NoDoc]]
  /\ row' = [row EXCEPT ![i] = NoRow]
  /\ nextId' = IF i = nextId - 1 THEN i ELSE nextId
  /\ Audit(i, FALSE)
  /\ UNCHANGED approved

\* DELETE /policies/{i}: the versions and the row go, the audit rows stay.
Delete(i) ==
  /\ Found(i)
  /\ ~row[i].active
  /\ doc' = [doc EXCEPT ![i] = [v \in Versions |-> NoDoc]]
  /\ row' = [row EXCEPT ![i] = NoRow]
  /\ Audit(i, FALSE)
  /\ UNCHANGED <<nextId, approved>>

\* POST /policies/{i}/submit, /approve, /draft: from any status, active or not.
SetStatus(i, s) ==
  /\ Found(i)
  /\ row' = [row EXCEPT ![i].status = s]
  /\ approved' = IF s = "approved" THEN approved \cup {<<i, row[i].version>>}
                                   ELSE approved
  /\ Audit(i, FALSE)
  /\ UNCHANGED <<doc, nextId>>

Next ==
  \/ \E n \in PolicyNames, d \in Docs, a \in BOOLEAN : Create(n, d, a)
  \/ \E i \in Ids, n \in PolicyNames, d \in Docs \cup {NoDoc}, a \in BOOLEAN :
       Update(i, n, d, a)
  \/ \E i \in Ids : Activate(i) \/ Rollback(i) \/ Delete(i)
  \/ \E i \in Ids, s \in Statuses \ {"deployed"} : SetStatus(i, s)

Spec == Init /\ [][Next]_engineVars

-----------------------------------------------------------------------------
(* The two tables and the history variables are well formed.               *)
TypeOK ==
  /\ row \in [Ids -> Row \cup {NoRow}]
  /\ doc \in [Ids -> [Versions -> Docs \cup {NoDoc}]]
  /\ nextId \in 1..(MaxId + 1)
  /\ audit \in [rows : 0..MaxAudit, last : Ids \cup {0}, deploy : Ids \cup {0}]
  /\ trail \subseteq Ids
  /\ approved \subseteq Ids \X Versions

(* Whatever mix of create, update, activate and rollback ran, agents can   *)
(* only ever be given one policy: /active never has to choose.             *)
AtMostOneActive == \A i, j \in Active : i = j

(* A policy row and its version rows agree: versions 1 to current_version  *)
(* are all there and no other, and the checksum agents compare is that of  *)
(* the document get_policy returns with it.                                *)
RowsAgree ==
  \A i \in Ids :
    /\ ~Exists(i) => Stored(i) = {}
    /\ Exists(i) => /\ Stored(i) = 1..row[i].version
                    /\ row[i].checksum = Document(i)

(* activate trusts the status column: whenever it says approved, the       *)
(* current version is one /approve was called on, no later edit or rollback*)
(* having slipped under the approval.                                      *)
ApprovalCoversCurrent ==
  \A i \in Ids : Exists(i) /\ row[i].status = "approved" => <<i, row[i].version>> \in approved

(* The newest deployment in the audit trail is the policy in force.        *)
TrailNamesActive == Active # {} => Active = {audit.deploy}

(* A policy is created under an id that no audit row speaks of, so the     *)
(* trail of a deleted policy is never read as that of another.             *)
TrailIsOwn == [][\A i \in Ids : ~Exists(i) /\ Exists(i)' => i \notin trail]_engineVars

(* Once a policy is deployed some policy always is: the agents' requests   *)
(* are never again answered 404.                                           *)
StaysDeployed == [][Active # {} => Active' # {}]_engineVars

(* While a policy exists its versions are only ever added to, and the one  *)
(* it points at never moves back.                                          *)
VersionsOnlyGrow ==
  [][\A i \in Ids : Exists(i) /\ Exists(i)' =>
       /\ row[i].version <= row'[i].version
       /\ \A v \in Stored(i) : doc'[i][v] = doc[i][v]]_engineVars
=============================================================================
