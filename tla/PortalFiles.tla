----------------------------- MODULE PortalFiles -----------------------------
(***************************************************************************)
(* The JSON files in which detmir-portal keeps reviews and cases.  Every   *)
(* request runs on a thread of its own, loads a whole file, changes one    *)
(* entry and saves the file through one fixed temporary, without a lock;   *)
(* a review also appends a line to the audit file.                         *)
(***************************************************************************)
EXTENDS Naturals, FiniteSets

CONSTANTS
  Requests,    (* each is served by a thread of its own                      *)
  Candidates,  (* incident candidates                                        *)
  MaxCases,    (* bound on the cases of a candidate                          *)
  MaxFaults,   (* bound on kills and on requests that overlap an earlier one *)
  None,
  Empty, Torn  (* contents that do not parse                                  *)

CaseIds        == Candidates \X (1..MaxCases)
ReviewStatuses == {"NEW", "CONFIRMED", "FALSE_POSITIVE"}
CaseStatuses   == {"OPEN", "RESOLVED", "ARCHIVED"}

Request ==
       [op : {"review"}, cand : Candidates, status : ReviewStatuses]
  \cup [op : {"create"}, cand : Candidates]
  \cup [op : {"status"}, id : CaseIds, status : CaseStatuses]

File    == {"reviews", "cases"}
Reviews == [Candidates -> ReviewStatuses]
Cases   == [CaseIds -> CaseStatuses \cup {"none"}]
Content == Reviews \cup Cases \cup {Empty, Torn}

ASSUME PortalAssumption ==
  /\ MaxCases \in Nat \ {0} /\ MaxFaults \in Nat
  /\ {Empty, Torn} \cap (Reviews \cup Cases) = {}
  /\ None \notin Requests /\ None \notin Request /\ None \notin CaseIds

VARIABLES
  req,       (* what each request asks                                       *)
  pc,        (* how far its thread is                                        *)
  data,      (* the content it has loaded and changed                        *)
  fd,        (* the inode its thread writes to                               *)
  reply,     (* the case a create request answered with                      *)
  inode,     (* contents; an inode bears the name of the request that made it*)
  path, tmp, (* what <file>.json and <file>.json.tmp point at                *)
  log,       (* the status the last line of the audit file gives a candidate *)
  lines,     (* requests whose audit line is being written                   *)
  trail,     (* the audit file: "ended" with whole lines, "open" when the last*)
             (* one has no newline, "broken" when one does not parse         *)
  confirmed, (* history: the candidates that were ever saved as CONFIRMED    *)
  overlaps,  (* history: requests that started while another was being served  *)
  kills

threads == <<req, pc, data, fd, reply>>
files   == <<inode, path, tmp>>
auditing == <<log, lines, trail>>
vars    == <<threads, files, auditing, confirmed, overlaps, kills>>

Init ==
  /\ req = [q \in Requests |-> None]
  /\ pc = [q \in Requests |-> "new"]
  /\ data = [q \in Requests |-> Empty]
  /\ fd = [q \in Requests |-> q]
  /\ reply = [q \in Requests |-> None]
  /\ inode = [q \in Requests |-> Empty]
  /\ path = [f \in File |-> None]
  /\ tmp = [f \in File |-> None]
  /\ log = [c \in Candidates |-> "NEW"]
  /\ lines = {}
  /\ trail = "ended"
  /\ confirmed = {}
  /\ overlaps = 0
  /\ kills = 0

-----------------------------------------------------------------------------
FileOf(q)  == IF req[q].op = "review" THEN "reviews" ELSE "cases"
Running    == {q \in Requests : pc[q] \notin {"new", "ok", "failed", "dead"}}
Default(f) == IF f = "reviews" THEN [c \in Candidates |-> "NEW"] ELSE [i \in CaseIds |-> "none"]

\* load_incident_review, load_cases: a file that does not exist is an empty one.
Loaded(f)   == IF path[f] = None THEN Default(f) ELSE inode[path[f]]
Readable(f) == Loaded(f) \notin {Empty, Torn}
\* load_incident_review_best_effort
BestEffort(f) == IF Readable(f) THEN Loaded(f) ELSE Default(f)

Of(c)        == {i \in CaseIds : i[1] = c}
ActiveCases(cases, c) == {i \in Of(c) : cases[i] \notin {"none", "ARCHIVED"}}

Step(q, from, to) == pc[q] = from /\ pc' = [pc EXCEPT ![q] = to]

Start(q, r) ==
  /\ Step(q, "new", IF r.op = "create" THEN "check" ELSE "load")
  /\ req' = [req EXCEPT ![q] = r]
  /\ overlaps' = IF Running = {} THEN overlaps ELSE overlaps + 1
  /\ overlaps' + kills <= MaxFaults
  /\ UNCHANGED <<data, fd, reply, files, auditing, confirmed, kills>>

\* Mutant of Check: any candidate of the snapshot will do.
CheckNothing(q) ==
  /\ Step(q, "check", "load")
  /\ UNCHANGED <<req, data, fd, reply, files, auditing, confirmed, overlaps, kills>>

\* apply_create_case looks at the review before it loads the cases.
Check(q) ==
  /\ pc[q] = "check"
  /\ pc' = [pc EXCEPT ![q] = IF BestEffort("reviews")[req[q].cand] = "CONFIRMED"
                             THEN "load" ELSE "failed"]
  /\ UNCHANGED <<req, data, fd, reply, files, auditing, confirmed, overlaps, kills>>

LoadFails(q) ==
  /\ Step(q, "load", "failed")
  /\ ~Readable(FileOf(q))
  /\ UNCHANGED <<req, data, fd, reply, files, auditing, confirmed, overlaps, kills>>

LoadReview(q) ==
  /\ pc[q] = "load" /\ req[q].op = "review"
  /\ Readable("reviews")
  /\ Step(q, "load", "open")
  /\ data' = [data EXCEPT ![q] = [Loaded("reviews") EXCEPT ![req[q].cand] = req[q].status]]
  /\ UNCHANGED <<req, fd, reply, files, auditing, confirmed, overlaps, kills>>

\* Mutant of LoadForCreate: only an OPEN case counts as existing.
LoadIgnoringResolved(q) ==
  /\ pc[q] = "load" /\ req[q].op = "create"
  /\ Readable("cases")
  /\ \A i \in Of(req[q].cand) : Loaded("cases")[i] # "OPEN"
  /\ \E i \in Of(req[q].cand) :
       /\ Loaded("cases")[i] = "none"
       /\ data' = [data EXCEPT ![q] = [Loaded("cases") EXCEPT ![i] = "OPEN"]]
       /\ reply' = [reply EXCEPT ![q] = i]
  /\ Step(q, "load", "open")
  /\ UNCHANGED <<req, fd, files, auditing, confirmed, overlaps, kills>>

\* An existing case that is not archived is the answer; otherwise a new id.  It
\* hashes the candidate and the second, so two threads can come to the same one.
LoadForCreate(q) ==
  /\ pc[q] = "load" /\ req[q].op = "create"
  /\ Readable("cases")
  /\ \/ \E i \in ActiveCases(Loaded("cases"), req[q].cand) :
          /\ reply' = [reply EXCEPT ![q] = i]
          /\ Step(q, "load", "ok")
          /\ UNCHANGED data
     \/ \E i \in Of(req[q].cand) :
          /\ ActiveCases(Loaded("cases"), req[q].cand) = {}
          /\ Loaded("cases")[i] = "none"
          /\ reply' = [reply EXCEPT ![q] = i]
          /\ data' = [data EXCEPT ![q] = [Loaded("cases") EXCEPT ![i] = "OPEN"]]
          /\ Step(q, "load", "open")
  /\ UNCHANGED <<req, fd, files, auditing, confirmed, overlaps, kills>>

LoadForStatus(q) ==
  /\ pc[q] = "load" /\ req[q].op = "status"
  /\ Readable("cases")
  /\ IF Loaded("cases")[req[q].id] = "none"
       THEN Step(q, "load", "failed") /\ UNCHANGED data
       ELSE /\ Step(q, "load", "open")
            /\ data' = [data EXCEPT ![q] =
                          [Loaded("cases") EXCEPT ![req[q].id] = req[q].status]]
  /\ UNCHANGED <<req, fd, reply, files, auditing, confirmed, overlaps, kills>>

\* The candidates the published reviews show as CONFIRMED are added to the history.
Confirm == confirmed' = confirmed \cup
             {c \in Candidates : Readable("reviews")' /\ Loaded("reviews")'[c] = "CONFIRMED"}

\* Mutant of Open: the file itself is written.
OpenInPlace(q) ==
  /\ Step(q, "open", "write")
  /\ LET f == FileOf(q)  i == IF path[f] = None THEN q ELSE path[f] IN
       /\ fd' = [fd EXCEPT ![q] = i]
       /\ inode' = [inode EXCEPT ![i] = Empty]
       /\ path' = [path EXCEPT ![f] = i]
       /\ tmp' = [tmp EXCEPT ![f] = i]
  /\ UNCHANGED <<req, data, reply, auditing, confirmed, overlaps, kills>>

\* Mutant of Open: the temporary is opened without being created.
OpenBlind(q) ==
  /\ Step(q, "open", "write")
  /\ fd' = [fd EXCEPT ![q] = tmp[FileOf(q)]]
  /\ UNCHANGED <<req, data, reply, files, auditing, confirmed, overlaps, kills>>

\* fs::write opens the temporary and empties it, whoever made it ...
Open(q) ==
  /\ Step(q, "open", "write")
  /\ LET f == FileOf(q)  i == IF tmp[f] = None THEN q ELSE tmp[f] IN
       /\ fd' = [fd EXCEPT ![q] = i]
       /\ inode' = [inode EXCEPT ![i] = Empty]
       /\ tmp' = [tmp EXCEPT ![f] = i]
  /\ UNCHANGED <<req, data, reply, path, auditing, confirmed, overlaps, kills>>

\* ... and writes from its start.  The end of a longer content stays behind.
Write(q) ==
  /\ Step(q, "write", "rename")
  /\ \E content \in {data[q]} \cup (IF inode[fd[q]] = Empty THEN {} ELSE {Torn}) :
       inode' = [inode EXCEPT ![fd[q]] = content]
  /\ UNCHANGED <<req, data, fd, reply, path, tmp, auditing, overlaps, kills>>
  /\ Confirm

\* The rename fails when another thread has renamed the temporary away.
Rename(q) ==
  LET f == FileOf(q) IN
  /\ pc[q] = "rename"
  /\ IF tmp[f] = None
       THEN Step(q, "rename", "failed") /\ UNCHANGED <<path, tmp>>
       ELSE /\ Step(q, "rename", IF f = "reviews" THEN "append" ELSE "ok")
            /\ path' = [path EXCEPT ![f] = tmp[f]]
            /\ tmp' = [tmp EXCEPT ![f] = None]
  /\ UNCHANGED <<req, data, fd, reply, inode, auditing, overlaps, kills>>
  /\ Confirm

\* to_writer writes a line in many small pieces.  Behind a line without its end, which
\* another thread is writing or a kill has left, they make a line that does not parse.
AppendBegin(q) ==
  /\ Step(q, "append", "append2")
  /\ lines' = lines \cup {q}
  /\ trail' = IF trail = "ended" /\ lines = {} THEN "ended" ELSE "broken"
  /\ UNCHANGED <<req, data, fd, reply, files, log, confirmed, overlaps, kills>>

\* Mutant of AppendEnd: the entry records the status before.
AppendOld(q) ==
  /\ Step(q, "append2", "ok")
  /\ lines' = lines \ {q}
  /\ UNCHANGED <<req, data, fd, reply, files, log, trail, confirmed, overlaps, kills>>

\* The line is whole.  load_incident_review_audit refuses a file with a broken one.
AppendEnd(q) ==
  /\ Step(q, "append2", "ok")
  /\ lines' = lines \ {q}
  /\ log' = IF trail = "broken" THEN log ELSE [log EXCEPT ![req[q].cand] = req[q].status]
  /\ UNCHANGED <<req, data, fd, reply, files, trail, confirmed, overlaps, kills>>

\* What a kill leaves of the lines being written: half a line, which never parses again,
\* or a whole one without its newline.
CutLine ==
  \/ lines = {} /\ UNCHANGED <<trail, log>>
  \/ lines # {} /\ trail' = "broken" /\ UNCHANGED log
  \/ \E q \in lines : /\ trail = "ended"
                      /\ trail' = "open"
                      /\ log' = [log EXCEPT ![req[q].cand] = req[q].status]

\* The portal is killed and started again.
Kill ==
  /\ overlaps + kills < MaxFaults
  /\ kills' = kills + 1
  /\ pc' = [q \in Requests |-> IF q \in Running THEN "dead" ELSE pc[q]]
  /\ lines' = {}
  /\ CutLine
  /\ UNCHANGED <<req, data, fd, reply, files, confirmed, overlaps>>

ThreadStep(q) ==
  \/ Check(q) \/ LoadFails(q) \/ LoadReview(q) \/ LoadForCreate(q) \/ LoadForStatus(q)
  \/ Open(q) \/ Write(q) \/ Rename(q) \/ AppendBegin(q) \/ AppendEnd(q)

Next ==
  \/ \E q \in Requests : ThreadStep(q) \/ \E r \in Request : Start(q, r)
  \/ Kill

Spec == Init /\ [][Next]_vars

-----------------------------------------------------------------------------
TypeOK ==
  /\ req \in [Requests -> Request \cup {None}]
  /\ pc \in [Requests -> {"new", "check", "load", "open", "write", "rename",
                          "append", "append2", "ok", "failed", "dead"}]
  /\ data \in [Requests -> Content]
  /\ fd \in [Requests -> Requests]
  /\ reply \in [Requests -> CaseIds \cup {None}]
  /\ inode \in [Requests -> Content]
  /\ path \in [File -> Requests \cup {None}] /\ tmp \in [File -> Requests \cup {None}]
  /\ log \in [Candidates -> ReviewStatuses]
  /\ lines \subseteq Requests /\ trail \in {"ended", "open", "broken"}
  /\ confirmed \subseteq Candidates
  /\ overlaps \in Nat /\ kills \in Nat

(* A case is only ever in the file for a candidate that was once CONFIRMED,*)
(* however requests overlap and files break (apply_create_case).           *)
CasesFromConfirmed ==
  Readable("cases") =>
    \A i \in CaseIds : Loaded("cases")[i] # "none" => i[1] \in confirmed

\* So far every request began after the one before it was answered or killed.
Serial == overlaps = 0

(* While requests come one at a time a kill at any step leaves both files  *)
(* readable, whatever temporary an earlier kill left behind.               *)
SavesAreAtomic == Serial => \A f \in File : Readable(f)

(* While requests come one at a time only a killed review damages the audit*)
(* file, and as long as its lines parse the history is at most one change  *)
(* behind the reviews: the change whose line is being written or whose     *)
(* request was killed, and that only until the candidate is reviewed again.*)
AuditAtMostOneBehind ==
  Serial =>
    /\ trail # "ended" => \E q \in Requests : pc[q] = "dead" /\ req[q].op = "review"
    /\ trail # "broken" =>
         \A c \in Candidates :
           Readable("reviews") /\ Loaded("reviews")[c] # log[c] =>
             \E q \in Requests : /\ pc[q] \in {"append", "append2", "dead"}
                                 /\ req[q].op = "review" /\ req[q].cand = c
                                 /\ req[q].status = Loaded("reviews")[c]

(* While requests come one at a time a create request never makes a second *)
(* active case for a candidate; only reopening an archived one can.        *)
CreateMakesFirst ==
  [][\A c \in Candidates :
       Serial /\ Readable("cases") /\ Readable("cases")'
       /\ Cardinality(ActiveCases(Loaded("cases")', c)) > Cardinality(ActiveCases(Loaded("cases"), c))
       /\ ActiveCases(Loaded("cases"), c) # {}
         => \E q \in Requests : pc[q] # pc'[q] /\ req[q].op = "status"]_vars

(* docs/BUSINESS_RISK_RU.md: creating again for the same candidate returns *)
(* the existing case unless it is archived.                                *)
CreatedOnce ==
  \A p, q \in Requests :
    /\ pc[p] = "ok" /\ req[p].op = "create"
    /\ pc[q] = "ok" /\ req[q].op = "create" /\ req[p].cand = req[q].cand
    /\ \A s \in Requests : req[s] # None => req[s].op # "status"
    => reply[p] = reply[q]
=============================================================================
