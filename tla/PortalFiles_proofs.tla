-------------------------- MODULE PortalFiles_proofs --------------------------
(***************************************************************************)
(* Proofs about the portal's files, for any number of requests, candidates,*)
(* kills and overlaps: types; cases come from confirmed candidates only.   *)
(* While requests do not overlap: saves are atomic, the audit lags behind  *)
(* the reviews by the request under way and those that were killed, and a  *)
(* create leaves alone a candidate that has an active case.                *)
(***************************************************************************)
EXTENDS PortalFiles, FiniteSetTheorems, TLAPS

\* What a file of the given name holds when it parses.
Version(f) == IF f = "reviews" THEN Reviews ELSE Cases

\* What a request asks has the fields of its operation.
LEMMA Asked ==
  ASSUME NEW r \in Request
  PROVE  /\ r.op \in {"review", "create", "status"}
         /\ r.op = "review" => r.cand \in Candidates /\ r.status \in ReviewStatuses
         /\ r.op = "create" => r.cand \in Candidates
         /\ r.op = "status" => r.id \in CaseIds /\ r.status \in CaseStatuses
BY DEF Request

-----------------------------------------------------------------------------
(* Shape: which thread has what, and that reviews and cases never mix.     *)

Begun ==
  \A q \in Requests :
    /\ pc[q] = "new" <=> req[q] = None
    /\ pc[q] \in {"append", "append2"} => req[q].op = "review"
    /\ pc[q] = "check" => req[q].op = "create"

\* A thread loads, writes and renames only what belongs to the file it is about.
Owned ==
  /\ \A f \in File : path[f] # None => req[path[f]] # None /\ FileOf(path[f]) = f
  /\ \A f \in File : tmp[f] # None => req[tmp[f]] # None /\ FileOf(tmp[f]) = f
  /\ \A q \in Requests : /\ req[q] # None => req[fd[q]] # None /\ FileOf(fd[q]) = FileOf(q)
                         /\ req[q] = None => fd[q] = q

Contents ==
  \A q \in Requests :
    /\ req[q] = None => data[q] = Empty /\ inode[q] = Empty
    /\ req[q] # None => /\ data[q] \in Version(FileOf(q)) \cup {Empty}
                        /\ inode[q] \in Version(FileOf(q)) \cup {Empty, Torn}
    /\ pc[q] \in {"open", "write"} => data[q] \in Version(FileOf(q))

Shape == TypeOK /\ Begun /\ Owned /\ Contents

LEMMA InitShape == Init => Shape
<1> SUFFICES ASSUME Init PROVE Shape
  OBVIOUS
<1> USE PortalAssumption DEF Init
<1>1. TypeOK
  BY DEF TypeOK, Content, ReviewStatuses, File
<1>2. Begun
  BY DEF Begun
<1>3. Owned
  BY DEF Owned, FileOf
<1>4. Contents
  BY DEF Contents
<1> QED BY <1>1, <1>2, <1>3, <1>4 DEF Shape

\* A file that can be read holds a version of its own kind.
LEMMA LoadedVersion ==
  ASSUME Shape, NEW f \in File
  PROVE  /\ Readable(f) => Loaded(f) \in Version(f)
         /\ Loaded(f) \in Version(f) \cup {Empty, Torn}
<1>1. CASE path[f] = None
  BY <1>1 DEF Loaded, Default, Version, Reviews, Cases, ReviewStatuses, CaseStatuses, File
<1>2. CASE path[f] # None
  <2>1. path[f] \in Requests /\ req[path[f]] # None /\ FileOf(path[f]) = f
    BY <1>2 DEF Shape, TypeOK, Owned
  <2> QED BY <1>2, <2>1 DEF Shape, Contents, Loaded, Readable
<1> QED BY <1>1, <1>2

LEMMA FileOfFile == \A q : FileOf(q) \in File
BY DEF FileOf, File

LEMMA StartShape ==
  ASSUME Shape, NEW q \in Requests, NEW r \in Request, Start(q, r)
  PROVE  Shape'
<1> USE PortalAssumption
<1> USE DEF Shape, Start, Step, threads, files, auditing
<1>0. req[q] = None /\ pc[q] = "new" /\ req'[q] = r /\ pc'[q] \in {"check", "load"}
  BY DEF TypeOK, Begun
<1>1. TypeOK'
  BY <1>0 DEF TypeOK
<1>2. Begun'
  BY <1>0, Asked DEF Begun, TypeOK
<1>3. Owned'
  <2>1. \A p \in Requests : req[p] # None => req'[p] = req[p] /\ req'[p] # None
    BY <1>0 DEF TypeOK
  <2>3. req'[q] # None
    BY <1>0
  <2>4. \A f \in File : /\ path[f] # None => path[f] \in Requests
                       /\ tmp[f] # None => tmp[f] \in Requests
    BY DEF TypeOK
  <2>5. \A p \in Requests : fd[p] \in Requests
    BY DEF TypeOK
  <2>6. \A p \in Requests : p # q => req'[p] = req[p]
    BY DEF TypeOK
  <2> QED BY <1>0, <2>1, <2>3, <2>4, <2>5, <2>6 DEF Owned, FileOf
<1>4. Contents'
  BY <1>0 DEF Contents, TypeOK, FileOf, Version
<1> QED BY <1>1, <1>2, <1>3, <1>4

\* Steps that move threads on and touch neither requests nor files.
Moves ==
  /\ UNCHANGED <<req, data, fd, reply, files, confirmed, overlaps>>
  /\ \E q \in Requests, there \in {"load", "failed", "ok", "dead", "append2"} :
       /\ pc[q] # "new" /\ (there = "append2" => pc[q] = "append")
       /\ pc' = [pc EXCEPT ![q] = there]

Dies ==
  /\ UNCHANGED <<req, data, fd, reply, files, confirmed, overlaps>>
  /\ pc' = [q \in Requests |-> IF q \in Running THEN "dead" ELSE pc[q]]

Audits ==
  /\ log' \in [Candidates -> ReviewStatuses]
  /\ lines' \subseteq Requests /\ trail' \in {"ended", "open", "broken"} /\ kills' \in Nat

LEMMA MoveShape ==
  ASSUME Shape, Moves \/ Dies, Audits
  PROVE  Shape'
<1>0. /\ UNCHANGED <<req, data, fd, reply, files, confirmed, overlaps>>
      /\ pc' \in [Requests -> {"new", "check", "load", "open", "write", "rename",
                              "append", "append2", "ok", "failed", "dead"}]
      /\ \A p \in Requests :
           \/ pc'[p] = pc[p]
           \/ /\ pc[p] # "new"
              /\ \/ pc'[p] \in {"load", "failed", "ok", "dead"}
                 \/ (pc[p] = "append" /\ pc'[p] = "append2")
  <2>1. CASE Moves
    BY <2>1 DEF Moves, Shape, TypeOK
  <2>2. CASE Dies
    BY <2>2 DEF Dies, Running, Shape, TypeOK
  <2> QED BY <2>1, <2>2
<1> USE <1>0 DEF Audits
<1> USE DEF Shape, files
<1>1. TypeOK'
  BY DEF TypeOK
<1>2. Begun'
  BY DEF Begun
<1>3. Owned'
  BY DEF Owned, FileOf
<1>4. Contents'
  BY DEF Contents, FileOf
<1> QED BY <1>1, <1>2, <1>3, <1>4

\* A load leaves a changed version of the thread's own file in its memory.
LEMMA LoadShape ==
  ASSUME Shape, NEW q \in Requests, pc[q] = "load",
         pc' = [pc EXCEPT ![q] = "open"] \/ pc' = [pc EXCEPT ![q] = "ok"]
           \/ pc' = [pc EXCEPT ![q] = "failed"],
         data' = data \/ \E v \in Version(FileOf(q)) : data' = [data EXCEPT ![q] = v],
         pc'[q] = "open" => data'[q] \in Version(FileOf(q)),
         reply' \in [Requests -> CaseIds \cup {None}],
         UNCHANGED <<req, fd, files, auditing, confirmed, overlaps, kills>>
  PROVE  Shape'
<1> USE DEF Shape, files, auditing
<1>1. TypeOK'
  <2>1. data' \in [Requests -> Content]
    BY DEF TypeOK, Content, Version
  <2> QED BY <2>1 DEF TypeOK
<1>2. Begun'
  BY DEF Begun, TypeOK
<1>3. Owned'
  BY DEF Owned, FileOf
<1>4. Contents'
  <2>1. req[q] # None
    BY PortalAssumption DEF TypeOK, Begun
  <2>2. \A p \in Requests : p # q => data'[p] = data[p] /\ pc'[p] = pc[p]
    BY DEF TypeOK
  <2>3. data'[q] \in Version(FileOf(q)) \cup {Empty}
    BY <2>1 DEF TypeOK, Contents
  <2>4. pc'[q] \in {"open", "ok", "failed"}
    BY DEF TypeOK
  <2> QED BY <2>1, <2>2, <2>3, <2>4 DEF Contents, FileOf
<1> QED BY <1>1, <1>2, <1>3, <1>4

LEMMA OpenShape ==
  ASSUME Shape, NEW q \in Requests, Open(q)
  PROVE  Shape'
<1> DEFINE f == FileOf(q)
           i == IF tmp[f] = None THEN q ELSE tmp[f]
<1> USE DEF Shape, Open, Step, auditing
<1>0. /\ req[q] # None /\ f \in File /\ i \in Requests
      /\ req[i] # None /\ FileOf(i) = f
  BY PortalAssumption, FileOfFile DEF TypeOK, Begun, Owned
<1>a. /\ fd' = [fd EXCEPT ![q] = i] /\ tmp' = [tmp EXCEPT ![f] = i]
      /\ inode' = [inode EXCEPT ![i] = Empty] /\ pc' = [pc EXCEPT ![q] = "write"]
      /\ UNCHANGED <<req, data, path>>
  OBVIOUS
<1> HIDE DEF i
<1>1. TypeOK'
  BY <1>0, <1>a DEF TypeOK, Content
<1>2. Begun'
  BY <1>0 DEF Begun, TypeOK
<1>3. Owned'
  BY <1>0, <1>a DEF Owned, TypeOK, FileOf
<1>4. Contents'
  BY <1>0, <1>a DEF Contents, TypeOK, FileOf
<1> QED BY <1>1, <1>2, <1>3, <1>4

LEMMA WriteShape ==
  ASSUME Shape, NEW q \in Requests, Write(q)
  PROVE  Shape'
<1> DEFINE f == FileOf(q)
           i == fd[q]
<1> USE DEF Shape, Write, Step, auditing
<1>0. /\ req[q] # None /\ i \in Requests
      /\ req[i] # None /\ FileOf(i) = f /\ data[q] \in Version(f)
  BY PortalAssumption DEF TypeOK, Begun, Owned, Contents
<1>a. PICK content \in {data[q], Torn} : inode' = [inode EXCEPT ![i] = content]
  OBVIOUS
<1>b. /\ pc' = [pc EXCEPT ![q] = "rename"] /\ UNCHANGED <<req, data, fd, reply, path, tmp>>
      /\ confirmed' \subseteq Candidates
  BY DEF Confirm, TypeOK
<1>1. TypeOK'
  BY <1>0, <1>a, <1>b DEF TypeOK, Content
<1>2. Begun'
  BY <1>0, <1>b DEF Begun, TypeOK
<1>3. Owned'
  BY <1>0, <1>b DEF Owned, TypeOK, FileOf
<1>4. Contents'
  <2>1. content \in Version(FileOf(i)) \cup {Torn}
    BY <1>0, <1>a
  <2>2. inode'[i] = content /\ \A p \in Requests : p # i => inode'[p] = inode[p]
    BY <1>0, <1>a DEF TypeOK
  <2>3. \A p \in Requests : pc'[p] \in {"open", "write"} => pc[p] \in {"open", "write"}
    BY <1>b DEF TypeOK
  <2> QED BY <1>0, <1>b, <2>1, <2>2, <2>3 DEF Contents, FileOf
<1> QED BY <1>1, <1>2, <1>3, <1>4

LEMMA RenameShape ==
  ASSUME Shape, NEW q \in Requests, Rename(q)
  PROVE  Shape'
<1> DEFINE f == FileOf(q)
<1> USE DEF Shape, Rename, Step, auditing
<1>0. f \in File /\ pc[q] = "rename" /\ req[q] # None
  BY PortalAssumption, FileOfFile DEF Begun, TypeOK
<1>a. /\ UNCHANGED <<req, data, fd, inode>>
      /\ confirmed' \subseteq Candidates
  BY DEF Confirm, TypeOK
<1>b. \/ pc' = [pc EXCEPT ![q] = "failed"] /\ UNCHANGED <<path, tmp>>
      \/ /\ tmp[f] # None
         /\ path' = [path EXCEPT ![f] = tmp[f]] /\ tmp' = [tmp EXCEPT ![f] = None]
         /\ pc' = [pc EXCEPT ![q] = IF f = "reviews" THEN "append" ELSE "ok"]
  OBVIOUS
<1>1. TypeOK'
  BY <1>0, <1>a, <1>b DEF TypeOK
<1>2. Begun'
  BY <1>0, <1>a, <1>b DEF Begun, TypeOK, FileOf
<1>3. Owned'
  BY <1>0, <1>a, <1>b DEF Owned, TypeOK, FileOf
<1>4. Contents'
  BY <1>0, <1>a, <1>b DEF Contents, TypeOK, FileOf
<1> QED BY <1>1, <1>2, <1>3, <1>4

LEMMA LoadReviewShape ==
  ASSUME Shape, NEW q \in Requests, LoadReview(q)
  PROVE  Shape'
<1> DEFINE v == [Loaded("reviews") EXCEPT ![req[q].cand] = req[q].status]
<1>1. req[q] \in Request
  BY PortalAssumption DEF LoadReview, Step, Shape, TypeOK, Begun
<1>2. Loaded("reviews") \in Reviews
  BY LoadedVersion DEF LoadReview, File, Version
<1>3. v \in Version(FileOf(q))
  BY <1>1, <1>2, Asked DEF LoadReview, Reviews, Version, FileOf
<1>4. data' = [data EXCEPT ![q] = v] /\ data'[q] = v
  BY DEF LoadReview, Shape, TypeOK
<1>5. reply' \in [Requests -> CaseIds \cup {None}]
  BY DEF LoadReview, Shape, TypeOK
<1> HIDE DEF v
<1> QED BY <1>3, <1>4, <1>5, LoadShape DEF LoadReview, Step

LEMMA LoadForCreateShape ==
  ASSUME Shape, NEW q \in Requests, LoadForCreate(q)
  PROVE  Shape'
<1>1. Loaded("cases") \in Cases
  BY LoadedVersion DEF LoadForCreate, File, Version
<1>2. Version(FileOf(q)) = Cases
  BY DEF LoadForCreate, Version, FileOf
<1>3. ASSUME NEW i \in ActiveCases(Loaded("cases"), req[q].cand),
             reply' = [reply EXCEPT ![q] = i], Step(q, "load", "ok"), UNCHANGED data
      PROVE  Shape'
  <2>1. reply' \in [Requests -> CaseIds \cup {None}]
    BY <1>3 DEF ActiveCases, Of, Shape, TypeOK
  <2>2. pc'[q] = "ok"
    BY <1>3 DEF Step, Shape, TypeOK
  <2> QED BY <1>3, <2>1, <2>2, LoadShape DEF LoadForCreate, Step
<1>4. ASSUME NEW i \in Of(req[q].cand), reply' = [reply EXCEPT ![q] = i],
             data' = [data EXCEPT ![q] = [Loaded("cases") EXCEPT ![i] = "OPEN"]],
             Step(q, "load", "open")
      PROVE  Shape'
  <2> DEFINE v == [Loaded("cases") EXCEPT ![i] = "OPEN"]
  <2>1. reply' \in [Requests -> CaseIds \cup {None}]
    BY <1>4 DEF Of, Shape, TypeOK
  <2>2. v \in Version(FileOf(q))
    BY <1>1, <1>2, <1>4 DEF Of, Cases, CaseStatuses
  <2>3. data' = [data EXCEPT ![q] = v] /\ data'[q] = v
    BY <1>4 DEF Shape, TypeOK
  <2> HIDE DEF v
  <2> QED BY <1>4, <2>1, <2>2, <2>3, LoadShape DEF LoadForCreate, Step
<1> QED BY <1>3, <1>4 DEF LoadForCreate

LEMMA LoadForStatusShape ==
  ASSUME Shape, NEW q \in Requests, LoadForStatus(q)
  PROVE  Shape'
<1> DEFINE v == [Loaded("cases") EXCEPT ![req[q].id] = req[q].status]
<1>1. req[q] \in Request
  BY PortalAssumption DEF LoadForStatus, Shape, TypeOK, Begun
<1>2. Loaded("cases") \in Cases
  BY LoadedVersion DEF LoadForStatus, File, Version
<1>3. v \in Version(FileOf(q))
  BY <1>1, <1>2, Asked DEF LoadForStatus, Cases, Version, FileOf
<1>4. reply' \in [Requests -> CaseIds \cup {None}]
  BY DEF LoadForStatus, Shape, TypeOK
<1>5. \/ Step(q, "load", "failed") /\ UNCHANGED data /\ pc'[q] = "failed"
      \/ Step(q, "load", "open") /\ data' = [data EXCEPT ![q] = v] /\ data'[q] = v
  BY DEF LoadForStatus, Step, Shape, TypeOK
<1> HIDE DEF v
<1> QED BY <1>3, <1>4, <1>5, LoadShape DEF LoadForStatus, Step

\* The threads in the middle of their audit line, whatever else they do.
Lined == /\ pc = [q \in Requests |-> pc[q]]
         /\ \A q \in lines : q \in Requests /\ pc[q] = "append2"

LEMMA AlwaysLined == Spec => []Lined
<1>1. Init => Lined
  BY DEF Init, Lined
<1>2. Lined /\ [Next]_vars => Lined'
  <2> SUFFICES ASSUME Lined, [Next]_vars PROVE Lined'
    OBVIOUS
  <2> USE DEF Lined
  <2>1. CASE UNCHANGED vars
    BY <2>1 DEF vars, threads, auditing
  <2>2. ASSUME NEW q \in Requests, NEW l, lines' = lines, pc[q] # "append2",
               pc' = [pc EXCEPT ![q] = l]
        PROVE  Lined'
    BY <2>2
  <2>3. ASSUME NEW q \in Requests, NEW r \in Request, Start(q, r) PROVE Lined'
    BY <2>3, <2>2 DEF Start, Step, auditing
  <2>4. ASSUME NEW q \in Requests, Check(q) \/ LoadFails(q) \/ LoadReview(q) \/ LoadForCreate(q)
                                   \/ LoadForStatus(q) PROVE Lined'
    BY <2>4, <2>2 DEF Check, LoadFails, LoadReview, LoadForCreate, LoadForStatus, Step, auditing
  <2>5. ASSUME NEW q \in Requests, Open(q) \/ Write(q) \/ Rename(q) PROVE Lined'
    BY <2>5, <2>2 DEF Open, Write, Rename, Step, auditing
  <2>6. ASSUME NEW q \in Requests, AppendBegin(q) PROVE Lined'
    BY <2>6 DEF AppendBegin, Step
  <2>7. ASSUME NEW q \in Requests, AppendEnd(q) PROVE Lined'
    BY <2>7 DEF AppendEnd, Step
  <2>8. CASE Kill
    BY <2>8 DEF Kill
  <2>9. QED
    BY <2>1, <2>3, <2>4, <2>5, <2>6, <2>7, <2>8 DEF Next, ThreadStep
<1>3. QED
  BY <1>1, <1>2, PTL DEF Spec

\* Whose line is being written has a review to record.
LEMMA LineIsReview ==
  ASSUME Shape, Lined, NEW q \in Requests, q \in lines \/ pc[q] = "append2"
  PROVE  /\ req[q] \in Request /\ req[q].op = "review"
         /\ req[q].cand \in Candidates /\ req[q].status \in ReviewStatuses
<1>1. pc[q] = "append2"
  BY DEF Lined
<1>2. req[q] \in Request /\ req[q].op = "review"
  BY <1>1, PortalAssumption DEF Shape, TypeOK, Begun
<1>3. QED
  BY <1>2, Asked

LEMMA AuditTypes ==
  ASSUME Shape, Lined
  PROVE  /\ UNCHANGED <<auditing, kills>> => Audits
         /\ \A q \in Requests : AppendBegin(q) \/ AppendEnd(q) => Audits
         /\ Kill => Audits
<1>0. /\ log \in [Candidates -> ReviewStatuses] /\ lines \subseteq Requests
      /\ trail \in {"ended", "open", "broken"} /\ kills \in Nat
  BY DEF Shape, TypeOK
<1>1. UNCHANGED <<auditing, kills>> => Audits
  BY <1>0, Zenon DEF auditing, Audits
<1>2. ASSUME NEW q \in Requests, AppendBegin(q) PROVE Audits
  BY <1>0, <1>2 DEF AppendBegin, Audits
<1>3. ASSUME NEW q \in Requests, AppendEnd(q) PROVE Audits
  <2>1. req[q].cand \in Candidates /\ req[q].status \in ReviewStatuses
    BY <1>3, LineIsReview DEF AppendEnd, Step
  <2>2. QED
    BY <1>0, <1>3, <2>1 DEF AppendEnd, Audits
<1>4. ASSUME Kill PROVE Audits
  <2>1. \A q \in lines : req[q].cand \in Candidates /\ req[q].status \in ReviewStatuses
    BY <1>0, LineIsReview
  <2>2. log' \in [Candidates -> ReviewStatuses] /\ trail' \in {"ended", "open", "broken"}
    BY <1>0, <1>4, <2>1 DEF Kill, CutLine
  <2>3. QED
    BY <1>0, <1>4, <2>2 DEF Kill, Audits
<1> QED BY <1>1, <1>2, <1>3, <1>4

LEMMA ThreadStepShape ==
  ASSUME Shape, Lined, NEW q \in Requests, ThreadStep(q)
  PROVE  Shape'
<1>1. ASSUME Check(q) \/ LoadFails(q) \/ AppendBegin(q) \/ AppendEnd(q) PROVE Shape'
  <2>1. Audits
    <3>1. CASE Check(q) \/ LoadFails(q)
      BY <3>1, AuditTypes DEF Check, LoadFails
    <3>2. CASE AppendBegin(q) \/ AppendEnd(q)
      BY <3>2, AuditTypes
    <3> QED BY <1>1, <3>1, <3>2
  <2>2. Moves
    BY <1>1 DEF Moves, Check, LoadFails, AppendBegin, AppendEnd, Step
  <2> QED BY <2>1, <2>2, MoveShape
<1> QED BY <1>1, LoadReviewShape, LoadForCreateShape, LoadForStatusShape, OpenShape,
           WriteShape, RenameShape DEF ThreadStep

LEMMA ShapeStep == Shape /\ Lined /\ [Next]_vars => Shape'
<1> SUFFICES ASSUME Shape, Lined, [Next]_vars PROVE Shape'
  OBVIOUS
<1>1. CASE UNCHANGED vars
  <2> USE <1>1 DEF vars, threads, files, auditing, Shape
  <2>1. TypeOK'
    BY DEF TypeOK
  <2>2. Begun' /\ Owned' /\ Contents'
    BY DEF Begun, Owned, Contents, FileOf
  <2> QED BY <2>1, <2>2
<1>2. ASSUME NEW q \in Requests, NEW r \in Request, Start(q, r) PROVE Shape'
  BY <1>2, StartShape
<1>3. ASSUME NEW q \in Requests, ThreadStep(q) PROVE Shape'
  BY <1>3, ThreadStepShape
<1>4. CASE Kill
  BY <1>4, AuditTypes, MoveShape DEF Kill, Dies, files
<1> QED BY <1>1, <1>2, <1>3, <1>4 DEF Next

\* Every thread holds what its place in the handler needs, and every path names an inode
\* in use, whatever overlaps or is killed (the loads and saves of all three requests).
THEOREM AlwaysShape == Spec => []Shape
BY InitShape, ShapeStep, AlwaysLined, PTL DEF Spec

\* Types: no request, kill or overlap gives a file or a thread a content of the
\* wrong kind.
THEOREM FileTypes == Spec => []TypeOK
<1>1. Shape => TypeOK
  BY DEF Shape
<1> QED BY <1>1, AlwaysShape, PTL

-----------------------------------------------------------------------------
(* Cases come from confirmed candidates.  The history covers what the      *)
(* published reviews show, a create that passed its check is for such a    *)
(* candidate, and so is every case in any copy of the case file.           *)

Shown == \A c \in Candidates :
           Readable("reviews") /\ Loaded("reviews")[c] = "CONFIRMED" => c \in confirmed

Checked == \A q \in Requests :
             pc[q] = "load" /\ req[q].op = "create" => req[q].cand \in confirmed

Known(cases, seen) == cases \notin {Empty, Torn} =>
                        \A i \in CaseIds : cases[i] # "none" => i[1] \in seen

Sourced == \A q \in Requests :
             req[q] # None /\ FileOf(q) = "cases" =>
               Known(data[q], confirmed) /\ Known(inode[q], confirmed)

Confirmation == Shown /\ Checked /\ Sourced

LEMMA InitConfirmation == Init => Confirmation
BY DEF Init, Confirmation, Shown, Checked, Sourced, Loaded, Default, File

LEMMA KnownLoaded ==
  ASSUME Shape, Confirmation
  PROVE  Known(Loaded("cases"), confirmed)
<1>1. CASE path["cases"] = None
  BY <1>1 DEF Loaded, Default, Known
<1>2. CASE path["cases"] # None
  BY <1>2 DEF Loaded, Shape, TypeOK, Owned, File, Confirmation, Sourced
<1> QED BY <1>1, <1>2

LEMMA KnownMore ==
  ASSUME NEW cases, NEW s, NEW t, s \subseteq t, Known(cases, s)
  PROVE  Known(cases, t)
BY DEF Known

LEMMA ConfirmCovers ==
  ASSUME Shape, Confirm
  PROVE  Shown' /\ confirmed \subseteq confirmed'
BY DEF Confirm, Shown

\* What a step does to reviews as they are published, when it does nothing to them.
LEMMA ShownKept ==
  ASSUME Shown, UNCHANGED <<inode, path>>, UNCHANGED confirmed
  PROVE  Shown'
BY DEF Shown, Readable, Loaded, Default

LEMMA ConfirmationStep ==
  ASSUME Shape, Confirmation, [Next]_vars
  PROVE  Confirmation'
<1> USE DEF Confirmation
<1>1. CASE UNCHANGED vars
  <2> USE <1>1 DEF vars, threads, files
  <2>1. Shown'
    BY ShownKept
  <2>2. Checked' /\ Sourced'
    BY DEF Checked, Sourced, FileOf
  <2> QED BY <2>1, <2>2
<1>2. ASSUME NEW q \in Requests, NEW r \in Request, Start(q, r) PROVE Confirmation'
  <2> USE <1>2 DEF Start, Step, files, auditing
  <2>0. req[q] = None /\ data[q] = Empty /\ inode[q] = Empty
    BY DEF Shape, Begun, Contents
  <2>1. Shown'
    BY ShownKept
  <2>2. Checked'
    <3>1. pc'[q] = "load" => req'[q].op # "create"
      BY Asked DEF Shape, TypeOK
    <3>2. \A p \in Requests : p # q => pc'[p] = pc[p] /\ req'[p] = req[p]
      BY DEF Shape, TypeOK
    <3> QED BY <3>1, <3>2 DEF Checked
  <2>3. Sourced'
    BY <2>0 DEF Sourced, Known, FileOf, Shape, TypeOK
  <2> QED BY <2>1, <2>2, <2>3
<1>3. ASSUME NEW q \in Requests, Check(q) PROVE Confirmation'
  <2> USE <1>3 DEF Check, files, auditing
  <2>1. Shown'
    BY ShownKept
  <2>2. Checked'
    <3>1. req[q].cand \in Candidates
      BY PortalAssumption, Asked DEF Shape, TypeOK, Begun
    <3>2. pc'[q] = "load" => req[q].cand \in confirmed
      BY <3>1 DEF BestEffort, Default, Shown, Shape, TypeOK
    <3> QED BY <3>2 DEF Checked, Shape, TypeOK
  <2>3. Sourced'
    BY DEF Sourced, FileOf
  <2> QED BY <2>1, <2>2, <2>3
<1>4. ASSUME NEW q \in Requests, LoadReview(q) PROVE Confirmation'
  <2> USE <1>4 DEF LoadReview, Step, files, auditing
  <2>1. Shown'
    BY ShownKept
  <2>2. Checked'
    BY DEF Checked, Shape, TypeOK
  <2>3. Sourced'
    BY DEF Sourced, FileOf, Shape, TypeOK
  <2> QED BY <2>1, <2>2, <2>3
<1>5. ASSUME NEW q \in Requests, LoadForCreate(q) PROVE Confirmation'
  <2> USE <1>5 DEF LoadForCreate, files, auditing
  <2>0. /\ Loaded("cases") \in Cases
        /\ \A j \in CaseIds : Loaded("cases")[j] # "none" => j[1] \in confirmed
    BY LoadedVersion, KnownLoaded DEF File, Version, Readable, Known
  <2>1. Shown'
    BY ShownKept
  <2>2. Checked'
    BY DEF Checked, Shape, TypeOK, Step
  <2>3. Sourced'
    <3>1. \/ data' = data
          \/ \E i \in Of(req[q].cand) :
               data' = [data EXCEPT ![q] = [Loaded("cases") EXCEPT ![i] = "OPEN"]]
      OBVIOUS
    <3>2. ASSUME NEW i \in Of(req[q].cand),
                 data' = [data EXCEPT ![q] = [Loaded("cases") EXCEPT ![i] = "OPEN"]]
          PROVE  Sourced'
      <4>1. i[1] \in confirmed
        BY <3>2 DEF Of, Checked
      <4>2. Known([Loaded("cases") EXCEPT ![i] = "OPEN"], confirmed)
        BY <2>0, <3>2, <4>1 DEF Known, Of, Cases
      <4> QED BY <3>2, <4>2 DEF Sourced, FileOf, Shape, TypeOK
    <3> QED BY <3>1, <3>2 DEF Sourced, FileOf
  <2> QED BY <2>1, <2>2, <2>3
<1>6. ASSUME NEW q \in Requests, LoadForStatus(q) PROVE Confirmation'
  <2> USE <1>6 DEF LoadForStatus, files, auditing
  <2> DEFINE v == [Loaded("cases") EXCEPT ![req[q].id] = req[q].status]
  <2>0. /\ Loaded("cases") \in Cases
        /\ \A j \in CaseIds : Loaded("cases")[j] # "none" => j[1] \in confirmed
    BY LoadedVersion, KnownLoaded DEF File, Version, Readable, Known
  <2>1. Shown'
    BY ShownKept
  <2>2. Checked'
    BY DEF Checked, Shape, TypeOK, Step
  <2>3. Sourced'
    <3>1. CASE data' = data
      BY <3>1 DEF Sourced, FileOf
    <3>2. CASE data' # data
      <4>1. Loaded("cases")[req[q].id] # "none" /\ data' = [data EXCEPT ![q] = v]
        BY <3>2
      <4>2. req[q].id \in CaseIds
        BY PortalAssumption, Asked DEF Shape, TypeOK, Begun
      <4>3. Known(v, confirmed)
        BY <2>0, <4>1, <4>2 DEF Known, Cases
      <4> HIDE DEF v
      <4> QED BY <4>1, <4>3 DEF Sourced, FileOf, Shape, TypeOK
    <3> QED BY <3>1, <3>2
  <2> QED BY <2>1, <2>2, <2>3
<1>7. ASSUME NEW q \in Requests, Open(q) PROVE Confirmation'
  <2> DEFINE f == FileOf(q)
             i == IF tmp[f] = None THEN q ELSE tmp[f]
  <2>0. /\ fd' = [fd EXCEPT ![q] = i] /\ inode' = [inode EXCEPT ![i] = Empty]
        /\ pc' = [pc EXCEPT ![q] = "write"]
        /\ UNCHANGED <<req, data, path, confirmed>>
    BY <1>7 DEF Open, Step
  <2>1. i \in Requests
    BY <1>7, FileOfFile DEF Shape, TypeOK
  <2> HIDE DEF i
  <2>2. \A p \in Requests : inode'[p] = inode[p] \/ inode'[p] = Empty
    BY <2>0, <2>1 DEF Shape, TypeOK
  <2>3. Shown'
    <3>1. CASE path["reviews"] = None
      BY <2>0, <3>1 DEF Shown, Readable, Loaded, Default
    <3>2. CASE path["reviews"] # None
      <4>1. path["reviews"] \in Requests
        BY <3>2 DEF Shape, TypeOK, File
      <4> QED BY <2>0, <2>2, <3>2, <4>1 DEF Shown, Readable, Loaded
    <3> QED BY <3>1, <3>2
  <2>4. Checked'
    BY <2>0 DEF Checked, Shape, TypeOK
  <2>5. Sourced'
    BY <2>0, <2>2 DEF Sourced, FileOf, Known
  <2> QED BY <2>3, <2>4, <2>5
<1>8. ASSUME NEW q \in Requests, Write(q) PROVE Confirmation'
  <2>0. PICK content \in {data[q], Torn} : inode' = [inode EXCEPT ![fd[q]] = content]
    BY <1>8 DEF Write
  <2>1. /\ UNCHANGED <<req, data>> /\ pc[q] = "write" /\ pc' = [pc EXCEPT ![q] = "rename"]
        /\ Shown' /\ confirmed \subseteq confirmed'
    BY <1>8, ConfirmCovers DEF Write, Step
  <2>2. /\ req[q] # None /\ fd[q] \in Requests /\ FileOf(fd[q]) = FileOf(q)
        /\ req[fd[q]] # None
    BY <2>1, PortalAssumption DEF Shape, TypeOK, Begun, Owned
  <2>3. Checked'
    BY <2>1 DEF Checked, Shape, TypeOK
  <2>4. FileOf(q) = "cases" => Known(content, confirmed)
    BY <2>0, <2>2 DEF Sourced, Known
  <2>5. ASSUME NEW p \in Requests, req[p] # None, FileOf(p) = "cases"
        PROVE  Known(data'[p], confirmed') /\ Known(inode'[p], confirmed')
    <3>1. inode'[p] = inode[p] \/ (p = fd[q] /\ inode'[p] = content)
      BY <2>0, <2>2 DEF Shape, TypeOK
    <3>2. Known(inode'[p], confirmed) /\ Known(data'[p], confirmed)
      BY <2>1, <2>2, <2>4, <2>5, <3>1 DEF Sourced
    <3> QED BY <2>1, <3>2, KnownMore
  <2>6. Sourced'
    BY <2>1, <2>5 DEF Sourced, FileOf
  <2> QED BY <2>1, <2>3, <2>6
<1>9. ASSUME NEW q \in Requests, Rename(q) PROVE Confirmation'
  <2>1. /\ UNCHANGED <<req, data, inode>> /\ Shown' /\ confirmed \subseteq confirmed'
        /\ \/ pc' = [pc EXCEPT ![q] = "failed"]
           \/ pc' = [pc EXCEPT ![q] = "append"]
           \/ pc' = [pc EXCEPT ![q] = "ok"]
    BY <1>9, ConfirmCovers DEF Rename, Step
  <2>2. Checked'
    BY <2>1 DEF Checked, Shape, TypeOK
  <2>3. Sourced'
    BY <2>1, KnownMore DEF Sourced, FileOf
  <2> QED BY <2>1, <2>2, <2>3
<1>10. ASSUME NEW q \in Requests, LoadFails(q) \/ AppendBegin(q) \/ AppendEnd(q)
       PROVE  Confirmation'
  <2> USE <1>10 DEF LoadFails, AppendBegin, AppendEnd, Step, files
  <2>1. Shown'
    BY ShownKept
  <2>2. Checked'
    BY DEF Checked, Shape, TypeOK
  <2>3. Sourced'
    BY DEF Sourced, FileOf
  <2> QED BY <2>1, <2>2, <2>3
<1>11. CASE Kill
  <2> USE <1>11 DEF Kill, files
  <2>1. Shown'
    BY ShownKept
  <2>2. Checked'
    BY DEF Checked
  <2>3. Sourced'
    BY DEF Sourced, FileOf
  <2> QED BY <2>1, <2>2, <2>3
<1> QED BY <1>1, <1>2, <1>3, <1>4, <1>5, <1>6, <1>7, <1>8, <1>9, <1>10, <1>11
        DEF Next, ThreadStep

\* A case in the file is always for a candidate that was once published as CONFIRMED,
\* for any number of requests, kills and overlaps (apply_create_case).
THEOREM OnlyConfirmedCases == Spec => []CasesFromConfirmed
<1>1. Shape /\ Confirmation => CasesFromConfirmed
  BY KnownLoaded DEF CasesFromConfirmed, Known, Readable
<1>2. Spec => []Confirmation
  BY InitConfirmation, ConfirmationStep, AlwaysShape, PTL DEF Spec
<1> QED BY <1>1, <1>2, AlwaysShape, PTL

-----------------------------------------------------------------------------
(* Saves are atomic while requests do not overlap.  Then one thread at most*)
(* is running, its temporary is not published under either name, and it is *)
(* complete before it is renamed.                                          *)

Alone     == \A p, q \in Running : p = q
Published == \A f \in File : path[f] # None => inode[path[f]] \notin {Empty, Torn}
Fresh     == \A q \in Requests, f \in File :
               pc[q] \in {"new", "check", "load", "open"} => path[f] # q /\ tmp[f] # q
Apart     == \A f \in File : tmp[f] # None => tmp[f] # path[f]
Writing   == \A q \in Requests :
               pc[q] = "write" => tmp[FileOf(q)] = fd[q] /\ inode[fd[q]] = Empty
Renaming  == \A q \in Requests :
               pc[q] = "rename" => /\ tmp[FileOf(q)] = fd[q]
                                   /\ inode[fd[q]] \notin {Empty, Torn}

OneAtATime == Alone /\ Published /\ Fresh /\ Apart /\ Writing /\ Renaming

LEMMA InitOneAtATime == Init => OneAtATime
BY PortalAssumption
   DEF Init, OneAtATime, Alone, Running, Published, Fresh, Apart, Writing, Renaming

LEMMA Parses ==
  ASSUME NEW f \in File, NEW v \in Version(f)
  PROVE  v \notin {Empty, Torn}
BY PortalAssumption DEF Version

\* Steps of a running thread that leave files, and what it wrote, alone.
LEMMA QuietOneAtATime ==
  ASSUME OneAtATime, Shape, UNCHANGED <<req, fd, files>>,
         \A p \in Requests :
           \/ pc'[p] = pc[p]
           \/ /\ pc'[p] \in {"load", "open", "append2", "ok", "failed", "dead"}
              /\ p \in Running
              /\ pc'[p] \in {"load", "open"} => pc[p] \in {"check", "load"}
  PROVE  OneAtATime'
<1> USE DEF OneAtATime, files
<1>1. Alone'
  BY DEF Alone, Running
<1>2. Published' /\ Apart'
  BY DEF Published, Apart
<1>3. Fresh'
  BY DEF Fresh
<1>4. Writing' /\ Renaming'
  BY DEF Writing, Renaming, FileOf
<1> QED BY <1>1, <1>2, <1>3, <1>4

LEMMA StartOneAtATime ==
  ASSUME OneAtATime, Shape, NEW q \in Requests, NEW r \in Request, Start(q, r), Running = {}
  PROVE  OneAtATime'
<1> USE DEF OneAtATime, files, Start, Step
<1>0. /\ pc[q] = "new" /\ pc'[q] \in {"check", "load"}
      /\ \A p \in Requests : p # q => pc'[p] = pc[p]
  BY DEF Shape, TypeOK
<1>1. Alone'
  BY <1>0 DEF Alone, Running
<1>2. Published' /\ Apart'
  BY DEF Published, Apart
<1>3. Fresh'
  BY <1>0 DEF Fresh
<1>4. Writing' /\ Renaming'
  BY <1>0 DEF Writing, Renaming, Running
<1> QED BY <1>1, <1>2, <1>3, <1>4

LEMMA OpenOneAtATime ==
  ASSUME OneAtATime, Shape, NEW q \in Requests, Open(q)
  PROVE  OneAtATime'
<1> DEFINE f == FileOf(q)
           i == IF tmp[f] = None THEN q ELSE tmp[f]
<1> USE DEF OneAtATime
<1>0. /\ pc[q] = "open" /\ fd' = [fd EXCEPT ![q] = i] /\ inode' = [inode EXCEPT ![i] = Empty]
      /\ pc' = [pc EXCEPT ![q] = "write"] /\ tmp' = [tmp EXCEPT ![f] = i]
      /\ UNCHANGED <<req, path>>
  BY DEF Open, Step
<1>1. /\ f \in File /\ i \in Requests /\ req[i] # None /\ FileOf(i) = f
      /\ i # path[f]
  BY <1>0, FileOfFile, PortalAssumption DEF Shape, TypeOK, Begun, Owned, Fresh, Apart
<1>2. \A p \in Requests : p # q => pc'[p] = pc[p] /\ (pc[p] = "new" \/ p \notin Running)
  BY <1>0 DEF Alone, Running, Shape, TypeOK
<1>3. pc[i] # "new" /\ (i = q \/ pc[i] \notin {"new", "check", "load", "open"})
  BY <1>0, <1>1, FileOfFile DEF Fresh, Shape, Begun
<1> HIDE DEF i
<1>4. \A g \in File : path[g] # i
  BY <1>1, PortalAssumption DEF Shape, Owned
<1>5. Alone'
  BY <1>0, <1>2 DEF Alone, Running
<1>6. Published'
  BY <1>0, <1>1, <1>4 DEF Published, Shape, TypeOK
<1>7. Fresh'
  <2>1. \A p \in Requests : pc'[p] \in {"new", "check", "load", "open"} => p # i
    BY <1>0, <1>2, <1>3 DEF Running, Shape, TypeOK
  <2>2. \A p \in Requests : pc'[p] \in {"new", "check", "load", "open"} => pc'[p] = pc[p]
    BY <1>0 DEF Shape, TypeOK
  <2> QED BY <1>0, <1>1, <2>1, <2>2 DEF Fresh, Shape, TypeOK
<1>8. Apart'
  BY <1>0, <1>1 DEF Apart, Shape, TypeOK
<1>9. Writing' /\ Renaming'
  <2>1. tmp'[f] = i /\ fd'[q] = i /\ inode'[i] = Empty
    BY <1>0, <1>1 DEF Shape, TypeOK
  <2>2. \A p \in Requests : pc'[p] \in {"write", "rename"} => p = q
    BY <1>2 DEF Running
  <2>3. pc'[q] = "write"
    BY <1>0 DEF Shape, TypeOK
  <2> QED BY <1>0, <2>1, <2>2, <2>3 DEF Writing, Renaming, FileOf
<1> QED BY <1>5, <1>6, <1>7, <1>8, <1>9

LEMMA WriteOneAtATime ==
  ASSUME OneAtATime, Shape, NEW q \in Requests, Write(q)
  PROVE  OneAtATime'
<1> DEFINE f == FileOf(q)
           i == fd[q]
<1> USE DEF OneAtATime
<1>0. /\ pc[q] = "write" /\ pc' = [pc EXCEPT ![q] = "rename"]
      /\ UNCHANGED <<req, data, fd, path, tmp>>
  BY DEF Write, Step
<1>1. tmp[f] = i /\ inode[i] = Empty /\ f \in File /\ i \in Requests
  BY <1>0, FileOfFile DEF Writing, Shape, TypeOK
<1>2. inode' = [inode EXCEPT ![i] = data[q]] /\ data[q] \notin {Empty, Torn}
  BY <1>0, <1>1, Parses DEF Write, Shape, Contents
<1>3. \A p \in Requests : p # q => pc'[p] = pc[p] /\ p \notin Running
  BY <1>0 DEF Alone, Running, Shape, TypeOK
<1>4. \A g \in File : path[g] # None => path[g] # i
  BY <1>1, PortalAssumption DEF Apart, Shape, Owned, TypeOK
<1>5. Alone'
  BY <1>0, <1>3 DEF Alone, Running
<1>6. Published'
  BY <1>0, <1>1, <1>2, <1>4 DEF Published, Shape, TypeOK
<1>7. Fresh'
  BY <1>0 DEF Fresh, Shape, TypeOK
<1>8. Apart'
  BY <1>0 DEF Apart
<1>9. Writing' /\ Renaming'
  <2>1. \A p \in Requests : pc'[p] \in {"write", "rename"} => p = q
    BY <1>3 DEF Running
  <2>2. pc'[q] = "rename" /\ inode'[i] = data[q]
    BY <1>0, <1>1, <1>2 DEF Shape, TypeOK
  <2> QED BY <1>0, <1>1, <1>2, <2>1, <2>2 DEF Writing, Renaming, FileOf
<1> QED BY <1>5, <1>6, <1>7, <1>8, <1>9

LEMMA RenameOneAtATime ==
  ASSUME OneAtATime, Shape, NEW q \in Requests, Rename(q)
  PROVE  OneAtATime'
<1> DEFINE f == FileOf(q)
<1> USE DEF OneAtATime
<1>0. pc[q] = "rename" /\ UNCHANGED <<req, fd, inode>> /\ f \in File
  BY FileOfFile DEF Rename
<1>1. tmp[f] = fd[q] /\ fd[q] \in Requests /\ inode[fd[q]] \notin {Empty, Torn}
  BY <1>0 DEF Renaming, Shape, TypeOK
<1>2. /\ path' = [path EXCEPT ![f] = tmp[f]] /\ tmp' = [tmp EXCEPT ![f] = None]
      /\ \E there \in {"append", "ok"} : pc' = [pc EXCEPT ![q] = there]
  BY <1>0, <1>1, PortalAssumption DEF Rename, Step
<1>3. \A p \in Requests : p # q => pc'[p] = pc[p] /\ p \notin Running
  BY <1>0, <1>2 DEF Alone, Running, Shape, TypeOK
<1>4. pc'[q] \in {"append", "ok"}
  BY <1>2 DEF Shape, TypeOK
<1>5. Alone'
  BY <1>3 DEF Alone, Running
<1>6. Published'
  BY <1>0, <1>1, <1>2 DEF Published, Shape, TypeOK
<1>7. Fresh'
  <2>1. \A p \in Requests : pc'[p] \in {"new", "check", "load", "open"} => pc'[p] = pc[p]
    BY <1>3, <1>4
  <2> QED BY <1>0, <1>1, <1>2, <2>1, PortalAssumption DEF Fresh, Shape, TypeOK
<1>8. Apart'
  BY <1>0, <1>2 DEF Apart, Shape, TypeOK
<1>9. Writing' /\ Renaming'
  BY <1>3, <1>4 DEF Writing, Renaming, Running
<1> QED BY <1>5, <1>6, <1>7, <1>8, <1>9

LEMMA OneAtATimeStep ==
  ASSUME Shape, Serial => OneAtATime, [Next]_vars
  PROVE  (Serial => OneAtATime)'
<1>1. CASE UNCHANGED vars
  BY <1>1 DEF vars, threads, files, Serial, OneAtATime, Alone, Running, Published, Fresh, Apart,
              Writing, Renaming, FileOf
<1>2. ASSUME NEW q \in Requests, NEW r \in Request, Start(q, r), Serial'
      PROVE  OneAtATime'
  <2>1. Serial /\ Running = {}
    BY <1>2 DEF Start, Serial, Shape, TypeOK
  <2> QED BY <1>2, <2>1, StartOneAtATime
<1>3. ASSUME NEW q \in Requests, ThreadStep(q) \/ Kill, Serial'
      PROVE  OneAtATime'
  <2>1. Serial
    BY <1>3 DEF Serial, ThreadStep, Check, LoadFails, LoadReview, LoadForCreate, LoadForStatus,
                Open, Write, Rename, AppendBegin, AppendEnd, Kill
  <2>2. CASE Open(q) \/ Write(q) \/ Rename(q)
    BY <2>1, <2>2, OpenOneAtATime, WriteOneAtATime, RenameOneAtATime
  <2>3. CASE Kill
    BY <2>1, <2>3, QuietOneAtATime DEF Kill, Running, files
  <2>4. ASSUME \/ Check(q) \/ LoadFails(q) \/ LoadReview(q) \/ LoadForCreate(q)
               \/ LoadForStatus(q) \/ AppendBegin(q) \/ AppendEnd(q)
        PROVE  OneAtATime'
    <3>1. /\ UNCHANGED <<req, fd, files>>
          /\ \E there \in {"load", "open", "append2", "ok", "failed"} :
               pc' = [pc EXCEPT ![q] = there]
          /\ pc[q] \in {"check", "load", "append", "append2"}
          /\ pc'[q] \in {"load", "open"} => pc[q] \in {"check", "load"}
      BY <2>4 DEF Check, LoadFails, LoadReview, LoadForCreate, LoadForStatus, AppendBegin,
                  AppendEnd, Step, Shape, TypeOK
    <3>2. pc'[q] \in {"load", "open", "append2", "ok", "failed"}
      BY <3>1 DEF Shape, TypeOK
    <3>3. \A p \in Requests : p # q => pc'[p] = pc[p]
      BY <3>1 DEF Shape, TypeOK
    <3> QED BY <2>1, <3>1, <3>2, <3>3, QuietOneAtATime DEF Running
  <2> QED BY <1>3, <2>2, <2>3, <2>4 DEF ThreadStep
<1>4. Kill /\ Requests = {} /\ Serial' => OneAtATime'
  BY DEF Kill, Serial, OneAtATime, Alone, Running, Published, Fresh, Apart, Writing, Renaming,
         files, Shape, TypeOK
<1> QED BY <1>1, <1>2, <1>3, <1>4 DEF Next

\* While requests come one at a time, every kill at every step leaves both files
\* readable: the temporary is complete before it gets the name of the file.
THEOREM SerialSavesAreAtomic == Spec => []SavesAreAtomic
<1>1. Shape /\ (Serial => OneAtATime) => SavesAreAtomic
  <2> SUFFICES ASSUME Shape, Serial, OneAtATime, NEW f \in File PROVE Readable(f)
    BY DEF SavesAreAtomic
  <2>1. CASE path[f] = None
    <3>1. Default(f) \in Version(f)
      BY DEF Default, Version, Reviews, Cases, ReviewStatuses, CaseStatuses, File
    <3> QED BY <2>1, <3>1, Parses DEF Readable, Loaded
  <2>2. CASE path[f] # None
    BY <2>2 DEF OneAtATime, Published, Readable, Loaded
  <2> QED BY <2>1, <2>2
<1>2. Spec => [](Serial => OneAtATime)
  BY InitOneAtATime, OneAtATimeStep, AlwaysShape, PTL DEF Spec
<1> QED BY <1>1, <1>2, AlwaysShape, PTL

-----------------------------------------------------------------------------
(***************************************************************************)
(* What is published, while requests do not overlap.  A thread that has    *)
(* loaded a file is the only one to publish it next, so what it is about   *)
(* to publish differs from what is published by its own change alone; and  *)
(* what a review has published is what its audit line will say.            *)
(***************************************************************************)
Changed(q) ==
  \/ /\ req[q].op = "review"
     /\ data[q] = [Loaded("reviews") EXCEPT ![req[q].cand] = req[q].status]
  \/ /\ req[q].op = "create"
     /\ ActiveCases(Loaded("cases"), req[q].cand) = {}
     /\ \E i \in Of(req[q].cand) : data[q] = [Loaded("cases") EXCEPT ![i] = "OPEN"]
  \/ req[q].op = "status"

Witness(q, c) ==
  /\ pc[q] \in {"append", "append2", "dead"}
  /\ req[q].op = "review" /\ req[q].cand = c /\ req[q].status = Loaded("reviews")[c]

Prepared == \A q \in Requests :
  /\ pc[q] \in {"open", "write", "rename"} => Changed(q)
  /\ pc[q] = "rename" => inode[fd[q]] = data[q]
  /\ pc[q] \in {"append", "append2"} => Loaded("reviews")[req[q].cand] = req[q].status

Audited == trail # "broken" =>
  \A c \in Candidates : Loaded("reviews")[c] # log[c] => \E q \in Requests : Witness(q, c)

\* Only a kill in the middle of a line damages the audit file.
Spared == trail # "ended" => \E q \in Requests : pc[q] = "dead" /\ req[q].op = "review"

Traced == Prepared /\ Audited /\ Spared

LEMMA InitTraced == Init => Traced
BY PortalAssumption DEF Init, Traced, Prepared, Audited, Spared, Loaded, Default, File

\* What is loaded changes with what the paths and their inodes hold only.
LEMMA LoadedSame ==
  ASSUME Shape, path' = path, \A f \in File : path[f] # None => inode'[path[f]] = inode[path[f]]
  PROVE  Loaded("reviews")' = Loaded("reviews") /\ Loaded("cases")' = Loaded("cases")
BY DEF Loaded, Default, File

\* Opening and writing the temporary leaves both published files alone.
LEMMA WriteHidden ==
  ASSUME Shape, OneAtATime, NEW q \in Requests, Open(q) \/ Write(q)
  PROVE  Loaded("reviews")' = Loaded("reviews") /\ Loaded("cases")' = Loaded("cases")
<1>1. \A f \in File : path[f] # None => path[f] \in Requests /\ req[path[f]] # None
                                        /\ FileOf(path[f]) = f
  BY DEF Shape, TypeOK, Owned
<1>2. CASE Open(q)
  <2> DEFINE g == FileOf(q)
             i == IF tmp[g] = None THEN q ELSE tmp[g]
  <2>1. /\ pc[q] = "open" /\ inode' = [inode EXCEPT ![i] = Empty] /\ path' = path
    BY <1>2 DEF Open, Step
  <2>2. i \in Requests /\ req[i] # None /\ FileOf(i) = g /\ g \in File /\ i # path[g]
    BY <2>1, FileOfFile, PortalAssumption
       DEF Shape, TypeOK, Begun, Owned, OneAtATime, Fresh, Apart
  <2> HIDE DEF i
  <2>3. \A f \in File : path[f] # None => inode'[path[f]] = inode[path[f]]
    BY <1>1, <2>1, <2>2 DEF Shape, TypeOK
  <2>4. QED
    BY <2>1, <2>3, LoadedSame
<1>3. CASE Write(q)
  <2> DEFINE i == fd[q]
  <2>1. /\ pc[q] = "write" /\ path' = path
        /\ \E content \in {data[q], Torn} : inode' = [inode EXCEPT ![i] = content]
    BY <1>3 DEF Write, Step
  <2>2. i \in Requests /\ FileOf(i) = FileOf(q) /\ FileOf(q) \in File /\ tmp[FileOf(q)] = i
    BY <2>1, FileOfFile, PortalAssumption DEF Shape, TypeOK, Begun, Owned, OneAtATime, Writing
  <2>3. \A f \in File : path[f] # None => path[f] # i
    BY <1>1, <2>2, PortalAssumption DEF OneAtATime, Apart
  <2>4. \A f \in File : path[f] # None => inode'[path[f]] = inode[path[f]]
    BY <1>1, <2>1, <2>2, <2>3 DEF Shape, TypeOK
  <2>5. QED
    BY <2>1, <2>4, LoadedSame
<1>4. QED
  BY <1>2, <1>3

\* The rename publishes what the thread has prepared, under its own name only.
LEMMA RenamePublishes ==
  ASSUME Shape, OneAtATime, Prepared, NEW q \in Requests, Rename(q)
  PROVE  /\ FileOf(q) = "reviews" => /\ Loaded("reviews")' = data[q]
                                     /\ Loaded("cases")' = Loaded("cases")
                                     /\ pc' = [pc EXCEPT ![q] = "append"]
         /\ FileOf(q) = "cases" => /\ Loaded("cases")' = data[q]
                                   /\ Loaded("reviews")' = Loaded("reviews")
                                   /\ pc' = [pc EXCEPT ![q] = "ok"]
<1> DEFINE f == FileOf(q)
<1>1. pc[q] = "rename" /\ UNCHANGED <<req, fd, data, inode>> /\ f \in File
  BY FileOfFile DEF Rename
<1>2. tmp[f] = fd[q] /\ fd[q] \in Requests /\ inode[fd[q]] = data[q] /\ fd[q] # None
  BY <1>1, PortalAssumption DEF OneAtATime, Renaming, Shape, TypeOK, Prepared
<1>3. /\ path' = [path EXCEPT ![f] = fd[q]]
      /\ pc' = [pc EXCEPT ![q] = IF f = "reviews" THEN "append" ELSE "ok"]
  BY <1>1, <1>2 DEF Rename, Step
<1>4. path'[f] = fd[q] /\ \A g \in File : g # f => path'[g] = path[g]
  BY <1>1, <1>3 DEF Shape, TypeOK
<1> HIDE DEF f
<1>5. \A g \in File : g # f => Loaded(g)' = Loaded(g)
  BY <1>1, <1>4 DEF Loaded, Default
<1>6. \A g \in File : g = f => (IF path'[g] = None THEN Default(g) ELSE inode'[path'[g]]) = data[q]
  BY <1>1, <1>2, <1>4
<1>7. QED
  BY <1>1, <1>3, <1>5, <1>6 DEF Loaded, Default, File, f
\* Nobody but the running thread is between its load and its answer.
LEMMA OthersRest ==
  ASSUME Alone, NEW q \in Running, NEW p \in Requests, p # q
  PROVE  pc[p] \in {"new", "ok", "failed", "dead"}
BY DEF Alone, Running

\* Until the rename only the thread that takes a step has anything to prepare.
LEMMA StepPrepares ==
  ASSUME Shape, OneAtATime, Traced, NEW q \in Requests, ThreadStep(q)
  PROVE  Prepared'
<1> USE DEF Step
<1>0. /\ q \in Running /\ req[q] \in Request /\ req' = req
      /\ \A p \in Requests : p # q => /\ pc'[p] = pc[p]
                                      /\ pc[p] \in {"new", "ok", "failed", "dead"}
  <2>1. pc[q] \notin {"new", "ok", "failed", "dead"} /\ req' = req
    BY DEF ThreadStep, Check, LoadFails, LoadReview, LoadForCreate, LoadForStatus, Open, Write,
           Rename, AppendBegin, AppendEnd
  <2>2. \A p \in Requests : p # q => pc'[p] = pc[p]
    BY DEF ThreadStep, Check, LoadFails, LoadReview, LoadForCreate, LoadForStatus, Open, Write,
           Rename, AppendBegin, AppendEnd, Shape, TypeOK
  <2>3. q \in Running
    BY <2>1 DEF Running
  <2>4. QED
    BY <2>1, <2>2, <2>3, OthersRest, PortalAssumption DEF OneAtATime, Shape, TypeOK, Begun
<1>1. ASSUME pc'[q] \in {"open", "write", "rename"} => Changed(q)',
             pc'[q] = "rename" => inode'[fd'[q]] = data'[q],
             pc'[q] \in {"append", "append2"} => Loaded("reviews")'[req[q].cand] = req[q].status
      PROVE  Prepared'
  BY <1>0, <1>1 DEF Prepared
<1>2. CASE Check(q) \/ LoadFails(q) \/ AppendEnd(q)
  <2>1. pc'[q] \in {"load", "failed", "ok"}
    BY <1>2 DEF Check, LoadFails, AppendEnd, Shape, TypeOK
  <2>2. QED
    BY <1>1, <2>1
<1>3. CASE LoadReview(q)
  <2>1. /\ pc'[q] = "open" /\ req[q].op = "review" /\ UNCHANGED files
        /\ data'[q] = [Loaded("reviews") EXCEPT ![req[q].cand] = req[q].status]
    BY <1>3 DEF LoadReview, Shape, TypeOK
  <2>2. Loaded("reviews")' = Loaded("reviews")
    BY <2>1 DEF files, Loaded, Default
  <2>3. QED
    BY <1>0, <1>1, <2>1, <2>2 DEF Changed
<1>4. CASE LoadForCreate(q)
  <2>1. CASE pc' = [pc EXCEPT ![q] = "ok"]
    BY <1>1, <2>1 DEF Shape, TypeOK
  <2>2. CASE pc' # [pc EXCEPT ![q] = "ok"]
    <3>1. /\ pc' = [pc EXCEPT ![q] = "open"] /\ req[q].op = "create" /\ UNCHANGED files
          /\ ActiveCases(Loaded("cases"), req[q].cand) = {}
      BY <1>4, <2>2 DEF LoadForCreate
    <3>2. PICK i \in Of(req[q].cand) :
            data' = [data EXCEPT ![q] = [Loaded("cases") EXCEPT ![i] = "OPEN"]]
      BY <1>4, <2>2 DEF LoadForCreate
    <3>3. Loaded("cases")' = Loaded("cases")
      BY <3>1 DEF files, Loaded, Default
    <3>4. data'[q] = [Loaded("cases") EXCEPT ![i] = "OPEN"] /\ pc'[q] = "open"
      BY <3>1, <3>2 DEF Shape, TypeOK
    <3>5. Changed(q)'
      BY <1>0, <3>1, <3>3, <3>4 DEF Changed, ActiveCases, Of
    <3>6. QED
      BY <1>1, <3>4, <3>5
  <2>3. QED
    BY <2>1, <2>2
<1>5. CASE LoadForStatus(q)
  <2>1. pc'[q] \in {"failed", "open"} /\ req[q].op = "status"
    BY <1>5 DEF LoadForStatus, Shape, TypeOK
  <2>2. QED
    BY <1>0, <1>1, <2>1 DEF Changed
<1>6. CASE Open(q) \/ Write(q)
  <2>1. Loaded("reviews")' = Loaded("reviews") /\ Loaded("cases")' = Loaded("cases")
    BY <1>6, WriteHidden
  <2>2. pc[q] \in {"open", "write"} /\ pc'[q] \in {"write", "rename"} /\ data' = data
    BY <1>6 DEF Open, Write, Shape, TypeOK
  <2>3. Changed(q)'
    <3>1. Changed(q) /\ data'[q] = data[q]
      BY <2>2 DEF Traced, Prepared
    <3>2. QED
      BY <1>0, <2>1, <3>1 DEF Changed, ActiveCases, Of
  <2>4. ASSUME pc'[q] = "rename" PROVE inode'[fd'[q]] = data'[q]
    <3>1. Write(q) /\ pc[q] = "write"
      BY <1>6, <2>4 DEF Open, Write, Shape, TypeOK
    <3>2. inode[fd[q]] = Empty /\ fd[q] \in Requests
      BY <3>1 DEF OneAtATime, Writing, Shape, TypeOK
    <3>3. QED
      BY <3>1, <3>2 DEF Write, Shape, TypeOK
  <2>5. QED
    BY <1>1, <2>2, <2>3, <2>4
<1>7. CASE Rename(q)
  <2>1. pc[q] = "rename" /\ Changed(q)
    BY <1>7 DEF Rename, Traced, Prepared
  <2>2. CASE FileOf(q) = "cases"
    <3>1. pc'[q] = "ok"
      BY <1>7, <2>2, RenamePublishes DEF Traced, Shape, TypeOK
    <3>2. QED
      BY <1>1, <3>1
  <2>3. CASE FileOf(q) = "reviews"
    <3>1. Loaded("reviews")' = data[q] /\ pc'[q] = "append" /\ req[q].op = "review"
      BY <1>7, <2>3, RenamePublishes DEF Traced, Shape, TypeOK, FileOf
    <3>2. Loaded("reviews") \in Reviews /\ req[q].cand \in Candidates
      <4>1. Readable("reviews")
        <5>1. Default("reviews") \in Reviews
          BY DEF Default, Reviews, ReviewStatuses
        <5>2. QED
          BY <5>1, PortalAssumption DEF OneAtATime, Published, Readable, Loaded, File
      <4>2. QED
        BY <1>0, <3>1, <4>1, LoadedVersion, Asked DEF File, Version
    <3>3. data[q] = [Loaded("reviews") EXCEPT ![req[q].cand] = req[q].status]
      BY <2>1, <3>1 DEF Changed
    <3>4. Loaded("reviews")'[req[q].cand] = req[q].status
      BY <3>1, <3>2, <3>3 DEF Reviews
    <3>5. QED
      BY <1>1, <3>1, <3>4
  <2>4. QED
    BY <2>2, <2>3 DEF FileOf
<1>8. CASE AppendBegin(q)
  <2>1. pc[q] = "append" /\ pc'[q] = "append2" /\ UNCHANGED files
    BY <1>8 DEF AppendBegin, Shape, TypeOK
  <2>2. Loaded("reviews")' = Loaded("reviews")
    BY <2>1 DEF files, Loaded, Default
  <2>3. QED
    BY <1>1, <2>1, <2>2 DEF Traced, Prepared
<1>9. QED
  BY <1>2, <1>3, <1>4, <1>5, <1>6, <1>7, <1>8 DEF ThreadStep
\* A witness that takes no step, or is killed, stays one for what is still published.
LEMMA WitnessStays ==
  ASSUME NEW q \in Requests, NEW c \in Candidates, Witness(q, c), req'[q] = req[q],
         pc'[q] = pc[q] \/ pc'[q] \in {"append2", "dead"},
         Loaded("reviews")'[c] = Loaded("reviews")[c]
  PROVE  Witness(q, c)'
BY DEF Witness

LEMMA ReviewsLoaded ==
  ASSUME Shape, OneAtATime
  PROVE  Loaded("reviews") \in Reviews /\ Loaded("cases") \in Cases
<1>1. /\ Default("reviews") \in Version("reviews") /\ Default("cases") \in Version("cases")
      /\ "reviews" \in File /\ "cases" \in File
  BY DEF Default, Version, Reviews, Cases, ReviewStatuses, CaseStatuses, File
<1>2. \A f \in File : Readable(f)
  BY <1>1, Parses DEF OneAtATime, Published, Readable, Loaded, File
<1>3. QED
  BY <1>1, <1>2, LoadedVersion DEF Version

LEMMA StepAudited ==
  ASSUME Shape, OneAtATime, Traced, NEW q \in Requests, ThreadStep(q)
  PROVE  Audited'
<1> SUFFICES ASSUME trail' # "broken", NEW c \in Candidates, Loaded("reviews")'[c] # log'[c]
             PROVE  \E w \in Requests : Witness(w, c)'
  BY DEF Audited
<1> USE DEF Step
<1>0. /\ req[q] \in Request /\ req' = req
      /\ \A p \in Requests : p # q => pc'[p] = pc[p]
  <2>1. pc[q] # "new" /\ req' = req
    BY DEF ThreadStep, Check, LoadFails, LoadReview, LoadForCreate, LoadForStatus, Open, Write,
           Rename, AppendBegin, AppendEnd
  <2>2. \A p \in Requests : p # q => pc'[p] = pc[p]
    BY DEF ThreadStep, Check, LoadFails, LoadReview, LoadForCreate, LoadForStatus, Open, Write,
           Rename, AppendBegin, AppendEnd, Shape, TypeOK
  <2>3. QED
    BY <2>1, <2>2, PortalAssumption DEF Shape, TypeOK, Begun
<1>9. trail # "broken"
  BY DEF ThreadStep, Check, LoadFails, LoadReview, LoadForCreate, LoadForStatus, Open, Write,
         Rename, AppendBegin, AppendEnd, auditing
<1>1. ASSUME Loaded("reviews")'[c] = Loaded("reviews")[c], log'[c] = log[c],
             pc[q] \notin {"append", "append2"} \/ pc'[q] = "append2" \/ ~Witness(q, c),
             pc[q] # "dead"
      PROVE  \E w \in Requests : Witness(w, c)'
  <2>1. PICK w \in Requests : Witness(w, c)
    BY <1>1, <1>9 DEF Traced, Audited
  <2>2. pc'[w] = pc[w] \/ pc'[w] = "append2"
    BY <1>0, <1>1, <2>1 DEF Witness
  <2>3. QED
    BY <1>0, <1>1, <2>1, <2>2, WitnessStays
<1>2. CASE Check(q) \/ LoadFails(q) \/ LoadReview(q) \/ LoadForCreate(q) \/ LoadForStatus(q)
  <2>1. pc[q] \in {"check", "load"} /\ log' = log /\ UNCHANGED files
    BY <1>2 DEF Check, LoadFails, LoadReview, LoadForCreate, LoadForStatus, auditing
  <2>2. Loaded("reviews")' = Loaded("reviews")
    BY <2>1 DEF files, Loaded, Default
  <2>3. QED
    BY <1>1, <2>1, <2>2
<1>3. CASE Open(q) \/ Write(q)
  <2>1. Loaded("reviews")' = Loaded("reviews")
    BY <1>3, WriteHidden
  <2>2. pc[q] \in {"open", "write"} /\ log' = log
    BY <1>3 DEF Open, Write, auditing
  <2>3. QED
    BY <1>1, <2>1, <2>2
<1>4. CASE Rename(q)
  <2>1. pc[q] = "rename" /\ Changed(q) /\ log' = log
    BY <1>4 DEF Rename, Traced, Prepared, auditing
  <2>2. CASE FileOf(q) = "cases"
    <3>1. Loaded("reviews")' = Loaded("reviews")
      BY <1>4, <2>2, RenamePublishes DEF Traced
    <3>2. QED
      BY <1>1, <2>1, <3>1
  <2>3. CASE FileOf(q) = "reviews"
    <3>1. Loaded("reviews")' = data[q] /\ pc'[q] = "append" /\ req[q].op = "review"
      BY <1>4, <2>3, RenamePublishes DEF Traced, Shape, TypeOK, FileOf
    <3>2. data[q] = [Loaded("reviews") EXCEPT ![req[q].cand] = req[q].status]
      BY <2>1, <3>1 DEF Changed
    <3>3. Loaded("reviews") \in Reviews
      BY ReviewsLoaded
    <3>4. CASE c = req[q].cand
      <4>1. Loaded("reviews")'[c] = req[q].status
        BY <3>1, <3>2, <3>3, <3>4 DEF Reviews
      <4>2. Witness(q, c)'
        BY <1>0, <3>1, <3>4, <4>1 DEF Witness
      <4>3. QED
        BY <4>2
    <3>5. CASE c # req[q].cand
      <4>1. Loaded("reviews")'[c] = Loaded("reviews")[c]
        BY <3>1, <3>2, <3>3, <3>5 DEF Reviews
      <4>2. QED
        BY <1>1, <2>1, <4>1
    <3>6. QED
      BY <3>4, <3>5
  <2>4. QED
    BY <2>2, <2>3 DEF FileOf
<1>5. CASE AppendBegin(q)
  <2>1. pc[q] = "append" /\ pc'[q] = "append2" /\ UNCHANGED files /\ log' = log
    BY <1>5 DEF AppendBegin, Shape, TypeOK
  <2>2. Loaded("reviews")' = Loaded("reviews")
    BY <2>1 DEF files, Loaded, Default
  <2>3. QED
    BY <1>1, <2>1, <2>2
<1>6. CASE AppendEnd(q)
  <2>1. /\ pc[q] = "append2" /\ UNCHANGED files
        /\ log' = [log EXCEPT ![req[q].cand] = req[q].status]
        /\ log \in [Candidates -> ReviewStatuses]
    BY <1>6, <1>9 DEF AppendEnd, Shape, TypeOK
  <2>2. Loaded("reviews")' = Loaded("reviews")
    BY <2>1 DEF files, Loaded, Default
  <2>3. Loaded("reviews")[req[q].cand] = req[q].status
    BY <2>1 DEF Traced, Prepared
  <2>4. c # req[q].cand
    BY <2>1, <2>2, <2>3
  <2>5. log'[c] = log[c] /\ ~Witness(q, c)
    BY <2>1, <2>4 DEF Witness
  <2>6. QED
    BY <1>1, <2>1, <2>2, <2>5
<1>7. QED
  BY <1>2, <1>3, <1>4, <1>5, <1>6 DEF ThreadStep

LEMMA StepSpared ==
  ASSUME Shape, Lined, OneAtATime, Traced, NEW q \in Requests, ThreadStep(q)
  PROVE  Spared'
<1> USE DEF Step
<1>1. /\ pc[q] \notin {"new", "dead"} /\ req' = req
      /\ \A p \in Requests : p # q => pc'[p] = pc[p]
  BY DEF ThreadStep, Check, LoadFails, LoadReview, LoadForCreate, LoadForStatus, Open, Write,
         Rename, AppendBegin, AppendEnd, Shape, TypeOK
<1>2. trail # "ended" => Spared'
  BY <1>1 DEF Traced, Spared
<1>3. CASE AppendBegin(q)
  <2>1. \A p \in lines : p = q
    BY <1>3 DEF OneAtATime, Alone, Running, Lined, AppendBegin
  <2>2. q \notin lines
    BY <1>3 DEF AppendBegin, Lined
  <2>3. lines = {}
    BY <2>1, <2>2
  <2>4. trail = "ended" => trail' = "ended"
    BY <1>3, <2>3 DEF AppendBegin
  <2>5. QED
    BY <1>2, <2>4 DEF Spared
<1>4. CASE ~AppendBegin(q)
  <2>1. trail' = trail
    BY <1>4 DEF ThreadStep, Check, LoadFails, LoadReview, LoadForCreate, LoadForStatus, Open,
                Write, Rename, AppendEnd, auditing
  <2>2. QED
    BY <1>2, <2>1 DEF Spared
<1>5. QED
  BY <1>3, <1>4

LEMMA KillTraced ==
  ASSUME Shape, Lined, OneAtATime, Traced, Kill
  PROVE  Traced'
<1>1. /\ UNCHANGED files /\ req' = req
      /\ pc' = [q \in Requests |-> IF q \in Running THEN "dead" ELSE pc[q]]
  BY DEF Kill
<1>2. Loaded("reviews")' = Loaded("reviews")
  BY <1>1 DEF files, Loaded, Default
<1>3. Prepared'
  BY <1>1 DEF Prepared, Running
<1>4. \A w \in Requests, c \in Candidates : Witness(w, c) => Witness(w, c)'
  BY <1>1, <1>2, WitnessStays
<1>5. \A w \in Requests : pc[w] = "dead" => pc'[w] = "dead"
  BY <1>1 DEF Running
<1>6. \A w \in lines : /\ w \in Requests /\ pc[w] = "append2" /\ pc'[w] = "dead"
                       /\ req[w].op = "review" /\ req[w].cand \in Candidates
  BY <1>1, LineIsReview DEF Lined, Running
<1>7. CASE lines = {} /\ UNCHANGED <<trail, log>>
  <2>1. Audited'
    BY <1>2, <1>4, <1>7 DEF Traced, Audited
  <2>2. Spared'
    BY <1>1, <1>5, <1>7 DEF Traced, Spared
  <2>3. QED
    BY <1>3, <2>1, <2>2 DEF Traced
<1>8. CASE lines # {} /\ trail' = "broken"
  <2>1. Audited'
    BY <1>8 DEF Audited
  <2>2. Spared'
    BY <1>1, <1>6, <1>8 DEF Spared
  <2>3. QED
    BY <1>3, <2>1, <2>2 DEF Traced
<1>9. ASSUME NEW q \in lines, trail = "ended", trail' = "open",
             log' = [log EXCEPT ![req[q].cand] = req[q].status]
      PROVE  Traced'
  <2>1. Spared'
    BY <1>1, <1>6, <1>9 DEF Spared
  <2>2. ASSUME NEW c \in Candidates, Loaded("reviews")'[c] # log'[c]
        PROVE  \E w \in Requests : Witness(w, c)'
    <3>1. log \in [Candidates -> ReviewStatuses]
      BY DEF Shape, TypeOK
    <3>2. Loaded("reviews")[req[q].cand] = req[q].status
      BY <1>6, <1>9 DEF Traced, Prepared
    <3>3. c # req[q].cand
      BY <1>2, <1>9, <2>2, <3>1, <3>2
    <3>4. Loaded("reviews")[c] # log[c]
      BY <1>2, <1>9, <2>2, <3>1, <3>3
    <3>5. PICK w \in Requests : Witness(w, c)
      BY <1>9, <3>4 DEF Traced, Audited
    <3>6. QED
      BY <1>4, <3>5
  <2>3. Audited'
    BY <2>2 DEF Audited
  <2>4. QED
    BY <1>3, <2>1, <2>3 DEF Traced
<1>10. QED
  BY <1>7, <1>8, <1>9 DEF Kill, CutLine

LEMMA TracedStep ==
  ASSUME Shape, Lined, Serial => OneAtATime, Serial => Traced, [Next]_vars
  PROVE  (Serial => Traced)'
<1>1. CASE UNCHANGED vars
  <2>1. /\ Loaded("reviews")' = Loaded("reviews") /\ Loaded("cases")' = Loaded("cases")
        /\ UNCHANGED <<req, pc, data, fd, inode, log, trail, overlaps>>
    BY <1>1 DEF vars, threads, files, auditing, Loaded, Default
  <2>2. Serial /\ Prepared => Prepared'
    <3>1. \A q \in Requests : Changed(q) => Changed(q)'
      BY <2>1 DEF Changed, ActiveCases, Of
    <3>2. QED
      BY <2>1, <3>1 DEF Prepared
  <2>3. (Audited => Audited') /\ (Spared => Spared')
    BY <2>1 DEF Audited, Witness, Spared
  <2>4. QED
    BY <2>1, <2>2, <2>3 DEF Serial, Traced
<1>2. ASSUME NEW q \in Requests, NEW r \in Request, Start(q, r), Serial'
      PROVE  Traced'
  <2>1. Serial /\ Running = {} /\ pc[q] = "new" /\ UNCHANGED files /\ log' = log
        /\ trail' = trail /\ pc'[q] \in {"check", "load"}
    BY <1>2 DEF Start, Step, Serial, Shape, TypeOK, auditing
  <2>2. \A p \in Requests : p # q => pc'[p] = pc[p] /\ req'[p] = req[p]
    BY <1>2 DEF Start, Step, Shape, TypeOK
  <2>3. Loaded("reviews")' = Loaded("reviews")
    BY <2>1 DEF files, Loaded, Default
  <2>4. Prepared'
    BY <2>1, <2>2 DEF Prepared, Running
  <2>5. \A w \in Requests, c \in Candidates : Witness(w, c) => Witness(w, c)'
    BY <2>1, <2>2, <2>3 DEF Witness
  <2>6. Audited' /\ Spared'
    BY <2>1, <2>2, <2>3, <2>5 DEF Traced, Audited, Spared
  <2>7. QED
    BY <2>4, <2>6 DEF Traced
<1>3. ASSUME NEW q \in Requests, ThreadStep(q), Serial' PROVE Traced'
  <2>1. Serial
    BY <1>3 DEF Serial, ThreadStep, Check, LoadFails, LoadReview, LoadForCreate, LoadForStatus,
                Open, Write, Rename, AppendBegin, AppendEnd
  <2>2. QED
    BY <1>3, <2>1, StepPrepares, StepAudited, StepSpared DEF Traced
<1>4. ASSUME Kill, Serial' PROVE Traced'
  BY <1>4, KillTraced DEF Kill, Serial
<1>5. QED
  BY <1>1, <1>2, <1>3, <1>4 DEF Next

LEMMA SerialInvariant == Spec => [](Shape /\ (Serial => OneAtATime) /\ (Serial => Traced))
<1>1. Spec => [](Serial => OneAtATime)
  BY InitOneAtATime, OneAtATimeStep, AlwaysShape, PTL DEF Spec
<1>2. /\ Shape /\ Lined /\ (Serial => OneAtATime) /\ (Serial => Traced) /\ [Next]_vars
      => (Serial => Traced)'
  BY TracedStep
<1>3. QED
  BY <1>1, <1>2, InitTraced, AlwaysShape, AlwaysLined, PTL DEF Spec

\* While requests come one at a time a line of the audit file is damaged only where a review
\* was killed, and before that every published review is in the file, but for the change
\* whose line is being written or whose request was killed (apply_incident_review and
\* append_incident_review_audit, killed anywhere).
THEOREM AuditFollowsReviews == Spec => []AuditAtMostOneBehind
<1>1. (Serial => Traced) => AuditAtMostOneBehind
  BY DEF Traced, Audited, Spared, Witness, AuditAtMostOneBehind
<1>2. QED
  BY <1>1, SerialInvariant, PTL

\* With requests one at a time only a status request gives a candidate that has an
\* active case another one (apply_create_case, apply_case_status).
THEOREM CreatesFirst == Spec => CreateMakesFirst
<1> DEFINE More(c) ==
      Serial /\ Readable("cases") /\ Readable("cases")'
      /\ Cardinality(ActiveCases(Loaded("cases")', c))
           > Cardinality(ActiveCases(Loaded("cases"), c))
      /\ ActiveCases(Loaded("cases"), c) # {}
<1>1. ASSUME Shape, Serial => OneAtATime, Serial => Traced, [Next]_vars,
             NEW c \in Candidates, More(c)
      PROVE  \E q \in Requests : pc[q] # pc'[q] /\ req[q].op = "status"
  <2>1. Serial /\ OneAtATime /\ Traced
    BY <1>1
  <2>2. Cardinality(ActiveCases(Loaded("cases"), c)) \in Nat
    <3>1. ActiveCases(Loaded("cases"), c) \subseteq {c} \X (1..MaxCases)
      <4>1. \A i \in Candidates \X (1..MaxCases) : i[1] = c => i \in {c} \X (1..MaxCases)
        OBVIOUS
      <4>2. QED
        BY <4>1 DEF ActiveCases, Of, CaseIds
    <3>2. IsFiniteSet({c}) /\ IsFiniteSet(1..MaxCases)
      <4>1. 1 \in Int /\ MaxCases \in Int
        BY PortalAssumption
      <4>2. QED
        BY <4>1, FS_Singleton, FS_Interval
    <3>3. IsFiniteSet({c} \X (1..MaxCases))
      BY <3>2, FS_Product
    <3>4. QED
      BY <3>1, <3>3, FS_Subset, FS_CardinalityType
  <2>3. ActiveCases(Loaded("cases")', c) # ActiveCases(Loaded("cases"), c)
    BY <1>1, <2>2
  <2>4. Loaded("cases")' # Loaded("cases")
    BY <2>3
  <2>5. PICK q \in Requests : Rename(q)
    <3>1. ~(UNCHANGED <<path, inode>>)
      BY <2>4 DEF Loaded, Default
    <3>2. ~(\E q \in Requests : Open(q) \/ Write(q))
      BY <1>1, <2>1, <2>4, WriteHidden
    <3>3. QED
      BY <1>1, <3>1, <3>2
         DEF Next, ThreadStep, vars, files, Start, Check, LoadFails, LoadReview, LoadForCreate,
             LoadForStatus, AppendBegin, AppendEnd, Kill
  <2>6. FileOf(q) = "cases" /\ Loaded("cases")' = data[q] /\ pc' = [pc EXCEPT ![q] = "ok"]
    BY <1>1, <2>1, <2>4, <2>5, RenamePublishes DEF Traced, FileOf
  <2>7. pc[q] = "rename" /\ pc'[q] = "ok" /\ Changed(q)
    BY <1>1, <2>1, <2>5, <2>6 DEF Rename, Traced, Prepared, Shape, TypeOK
  <2>8. CASE req[q].op = "create"
    <3>1. ActiveCases(Loaded("cases"), req[q].cand) = {}
      BY <2>7, <2>8 DEF Changed
    <3>2. PICK i \in Of(req[q].cand) : data[q] = [Loaded("cases") EXCEPT ![i] = "OPEN"]
      BY <2>7, <2>8 DEF Changed
    <3>3. c # req[q].cand
      BY <1>1, <3>1
    <3>4. Loaded("cases") \in Cases
      BY <1>1, <2>1, ReviewsLoaded
    <3>5. \A j \in Of(c) : Loaded("cases")'[j] = Loaded("cases")[j]
      BY <2>6, <3>2, <3>3, <3>4 DEF Of, Cases
    <3>6. ActiveCases(Loaded("cases")', c) = ActiveCases(Loaded("cases"), c)
      BY <3>5 DEF ActiveCases
    <3>7. QED
      BY <2>3, <3>6
  <2>9. CASE req[q].op # "create"
    <3>1. req[q].op = "status"
      BY <2>6, <2>7, <2>9 DEF Changed, FileOf
    <3>2. QED
      BY <2>7, <3>1
  <2>10. QED
    BY <2>8, <2>9
<1>2. ASSUME Shape, Serial => OneAtATime, Serial => Traced, [Next]_vars
      PROVE  [\A c \in Candidates :
                More(c) => \E q \in Requests : pc[q] # pc'[q] /\ req[q].op = "status"]_vars
  BY <1>1, <1>2
<1>3. QED
  BY <1>2, SerialInvariant, PTL DEF Spec, CreateMakesFirst
=============================================================================
