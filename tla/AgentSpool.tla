----------------------------- MODULE AgentSpool -----------------------------
(***************************************************************************)
(* The offline spool of the endpoint agent (crate awatch-agent): the       *)
(* LocalSpool directory with its pending/ and dead-letter/ folders, the    *)
(* CLI runs that put an envelope into it, and the flush run that posts     *)
(* what is pending.  Enqueue runs, the flush run, process deaths and power *)
(* cuts interleave at every file-system call.                              *)
(***************************************************************************)
EXTENDS Naturals, FiniteSets

CONSTANTS
  Records,       (* the envelopes; each is spooled by an enqueue run of its own *)
  Names,         (* file names: millisecond stamps, compared as numbers         *)
  FileName,      (* the name the enqueue run of a record derives from its clock *)
  MaxRetry,      (* config.retry_max_attempts                                   *)
  MaxCrashes,    (* bound on process deaths and power cuts                      *)
  RenameMayFail, (* may the rename into dead-letter/ be refused?                *)
  NoFile,        (* the content of a path where no file exists                  *)
  Torn           (* the content of a file that serde_json cannot parse          *)

Item == [rec : Records, retry : Nat]

ASSUME SpoolAssumption ==
  /\ Names \subseteq Nat
  /\ FileName \in [Records -> Names]
  /\ MaxRetry \in Nat
  /\ MaxCrashes \in Nat
  /\ RenameMayFail \in BOOLEAN
  /\ NoFile \notin Item /\ Torn \notin Item /\ NoFile # Torn

Content == Item \cup {NoFile, Torn}

VARIABLES
  enq,        (* state of the enqueue run of each record                        *)
  pending,    (* pending/<name>.json                                            *)
  tmp,        (* pending/<name>.json.tmp, the temporary of write_json_atomic    *)
  dead,       (* dead-letter/<name>.json                                        *)
  recovered,  (* dead-letter/recovered-corrupt.json                             *)
  pc,         (* where the flush run is                                         *)
  todo,       (* what is left of the listing process_pending walks              *)
  cur,        (* the path being processed                                       *)
  item,       (* the SpoolItem parsed from it                                   *)
  attempt,    (* flush_with_retry: passes finished                              *)
  retried,    (* summary.retried > 0 in this pass                               *)
  post,       (* history: what became of the posts of each record               *)
  cut,        (* history: records whose pending file a power cut tore           *)
  crashes     (* deaths so far                                                  *)

spool   == <<pending, tmp, dead, recovered>>
flusher == <<pc, todo, cur, item, attempt, retried>>
history == <<post, cut>>
vars    == <<enq, spool, flusher, history, crashes>>

Post == [acked : Nat, unacked : Nat, refused : Nat]

Init ==
  /\ enq = [r \in Records |-> "new"]
  /\ pending = [n \in Names |-> NoFile]
  /\ tmp = [n \in Names |-> NoFile]
  /\ dead = [n \in Names |-> NoFile]
  /\ recovered = NoFile
  /\ pc = "idle"
  /\ todo = {}
  /\ cur \in Names
  /\ item \in [rec : Records, retry : {0}]
  /\ attempt = 0
  /\ retried = FALSE
  /\ post = [r \in Records |-> [acked |-> 0, unacked |-> 0, refused |-> 0]]
  /\ cut = {}
  /\ crashes = 0

-----------------------------------------------------------------------------
(* enqueue: write the temporary, rename it into pending/.                  *)

EnqueueWrite(r) ==
  /\ enq[r] = "new"
  /\ enq' = [enq EXCEPT ![r] = "written"]
  /\ tmp' = [tmp EXCEPT ![FileName[r]] = [rec |-> r, retry |-> 0]]
  /\ UNCHANGED <<pending, dead, recovered, flusher, history, crashes>>

\* The rename fails when another run with the same name has taken the temporary.
EnqueueRename(r) ==
  LET n == FileName[r] IN
  /\ enq[r] = "written"
  /\ \/ /\ tmp[n] # NoFile
        /\ pending' = [pending EXCEPT ![n] = tmp[n]]
        /\ tmp' = [tmp EXCEPT ![n] = NoFile]
        /\ enq' = [enq EXCEPT ![r] = "done"]
     \/ /\ tmp[n] = NoFile
        /\ enq' = [enq EXCEPT ![r] = "failed"]
        /\ UNCHANGED <<pending, tmp>>
  /\ UNCHANGED <<dead, recovered, flusher, history, crashes>>

-----------------------------------------------------------------------------
(* flush_with_retry around process_pending.                                *)

FlushStart ==
  /\ pc = "idle"
  /\ pc' = "list"
  /\ attempt' = 0
  /\ UNCHANGED <<enq, spool, todo, cur, item, retried, history, crashes>>

List ==
  /\ pc = "list"
  /\ pc' = "next"
  /\ todo' = {n \in Names : pending[n] # NoFile}
  /\ retried' = FALSE
  /\ UNCHANGED <<enq, spool, cur, item, attempt, history, crashes>>

\* Mutant of Read: a file that does not parse ends the run.
ReadStopsAtTorn(n) ==
  /\ pc = "next"
  /\ n \in todo
  /\ \A m \in todo : n <= m
  /\ todo' = todo \ {n}
  /\ cur' = n
  /\ \/ pending[n] \in Item /\ item' = pending[n] /\ pc' = "send"
     \/ pending[n] = Torn /\ pc' = "idle" /\ UNCHANGED item
  /\ UNCHANGED <<enq, spool, attempt, retried, history, crashes>>

\* The paths are sorted, so the least name left is read next.  Only the flush run
\* takes files out of pending/, so a listed file is still there.
Read(n) ==
  /\ pc = "next"
  /\ n \in todo
  /\ \A m \in todo : n <= m
  /\ todo' = todo \ {n}
  /\ cur' = n
  /\ \/ /\ pending[n] \in Item
        /\ item' = pending[n]
        /\ pc' = "send"
     \/ /\ pending[n] = Torn
        /\ pc' = "bury"
        /\ UNCHANGED item
  /\ UNCHANGED <<enq, spool, attempt, retried, history, crashes>>

\* The post succeeds; or the server takes the envelope and the answer is lost;
\* or the server never takes it.
SendOk ==
  /\ pc = "send"
  /\ post' = [post EXCEPT ![item.rec].acked = @ + 1]
  /\ pc' = "remove"
  /\ UNCHANGED <<enq, spool, todo, cur, item, attempt, retried, cut, crashes>>

\* Mutant of SendErr: retries are counted down.
SendErrCountsDown ==
  /\ pc = "send"
  /\ \/ post' = [post EXCEPT ![item.rec].unacked = @ + 1]
     \/ post' = [post EXCEPT ![item.rec].refused = @ + 1]
  /\ item' = [item EXCEPT !.retry = @ - 1]
  /\ retried' = TRUE
  /\ pc' = "write"
  /\ UNCHANGED <<enq, spool, todo, cur, attempt, cut, crashes>>

SendErr ==
  /\ pc = "send"
  /\ \/ post' = [post EXCEPT ![item.rec].unacked = @ + 1]
     \/ post' = [post EXCEPT ![item.rec].refused = @ + 1]
  /\ item' = [item EXCEPT !.retry = @ + 1]
  /\ retried' = TRUE
  /\ pc' = "write"
  /\ UNCHANGED <<enq, spool, todo, cur, attempt, cut, crashes>>

\* Mutant of RemoveDelivered: the delivered file is left in pending/.
RemoveForgotten ==
  /\ pc = "remove"
  /\ pc' = "next"
  /\ UNCHANGED <<enq, spool, todo, cur, item, attempt, retried, history, crashes>>

RemoveDelivered ==
  /\ pc = "remove"
  /\ pc' = "next"
  /\ pending' = [pending EXCEPT ![cur] = NoFile]
  /\ UNCHANGED <<enq, tmp, dead, recovered, todo, cur, item, attempt, retried,
                 history, crashes>>

\* Mutant of WriteTmp: the old file is removed before its replacement is in place.
WriteTmpAfterRemove ==
  /\ pc = "write"
  /\ tmp' = [tmp EXCEPT ![cur] = item]
  /\ pending' = [pending EXCEPT ![cur] = NoFile]
  /\ pc' = "rename"
  /\ UNCHANGED <<enq, dead, recovered, todo, cur, item, attempt, retried,
                 history, crashes>>

WriteTmp ==
  /\ pc = "write"
  /\ tmp' = [tmp EXCEPT ![cur] = item]
  /\ pc' = "rename"
  /\ UNCHANGED <<enq, pending, dead, recovered, todo, cur, item, attempt,
                 retried, history, crashes>>

\* The rename fails when an enqueue run with the same name has taken the temporary.
RenameTmpLimit(limit) ==
  /\ pc = "rename"
  /\ \/ /\ tmp[cur] # NoFile
        /\ pending' = [pending EXCEPT ![cur] = tmp[cur]]
        /\ tmp' = [tmp EXCEPT ![cur] = NoFile]
        /\ pc' = IF item.retry >= limit THEN "bury" ELSE "next"
     \/ /\ tmp[cur] = NoFile
        /\ pc' = "idle"
        /\ UNCHANGED <<pending, tmp>>
  /\ UNCHANGED <<enq, dead, recovered, todo, cur, item, attempt, retried,
                 history, crashes>>

\* Mutant of RenameTmp: the limit is off by one.
RenameTmpEarly == RenameTmpLimit(MaxRetry - 1)

RenameTmp == RenameTmpLimit(MaxRetry)

\* Mutant of Bury: the file is just removed.
BuryDrops ==
  /\ pc = "bury"
  /\ pending' = [pending EXCEPT ![cur] = NoFile]
  /\ pc' = "next"
  /\ UNCHANGED <<enq, tmp, dead, recovered, todo, cur, item, attempt, retried,
                 history, crashes>>

\* move_to_dead_letter: the rename replaces an older file of the same name.
Bury ==
  /\ pc = "bury"
  /\ dead' = [dead EXCEPT ![cur] = pending[cur]]
  /\ pending' = [pending EXCEPT ![cur] = NoFile]
  /\ pc' = "next"
  /\ UNCHANGED <<enq, tmp, recovered, todo, cur, item, attempt, retried,
                 history, crashes>>

\* Its fallback copies over the one fixed name and then removes the original.
BuryCopy ==
  /\ pc = "bury"
  /\ RenameMayFail
  /\ recovered' = pending[cur]
  /\ pc' = "unlink"
  /\ UNCHANGED <<enq, pending, tmp, dead, todo, cur, item, attempt, retried,
                 history, crashes>>

BuryUnlink ==
  /\ pc = "unlink"
  /\ pending' = [pending EXCEPT ![cur] = NoFile]
  /\ pc' = "next"
  /\ UNCHANGED <<enq, tmp, dead, recovered, todo, cur, item, attempt, retried,
                 history, crashes>>

\* End of a pass: stop when nothing was retried or the passes are used up.
PassEnd ==
  /\ pc = "next"
  /\ todo = {}
  /\ \/ /\ ~retried \/ attempt + 1 >= MaxRetry
        /\ pc' = "idle"
        /\ UNCHANGED attempt
     \/ /\ retried /\ attempt + 1 < MaxRetry
        /\ pc' = "list"
        /\ attempt' = attempt + 1
  /\ UNCHANGED <<enq, spool, todo, cur, item, retried, history, crashes>>

-----------------------------------------------------------------------------
(* Deaths.  An I/O error that ends a run through `?` leaves the same state *)
(* as a kill at that point.                                                *)

FlushDies ==
  /\ crashes < MaxCrashes
  /\ pc # "idle"
  /\ pc' = "idle"
  /\ crashes' = crashes + 1
  /\ UNCHANGED <<enq, spool, todo, cur, item, attempt, retried, history>>

EnqueueDies(r) ==
  /\ crashes < MaxCrashes
  /\ enq[r] = "written"
  /\ enq' = [enq EXCEPT ![r] = "failed"]
  /\ crashes' = crashes + 1
  /\ UNCHANGED <<spool, flusher, history>>

\* Nothing is fsynced: a power cut may tear a pending file, and kills every run.
PowerCut(n) ==
  /\ crashes < MaxCrashes
  /\ pending[n] \in Item
  /\ pending' = [pending EXCEPT ![n] = Torn]
  /\ cut' = cut \cup {pending[n].rec}
  /\ enq' = [r \in Records |-> IF enq[r] = "written" THEN "failed" ELSE enq[r]]
  /\ pc' = "idle"
  /\ crashes' = crashes + 1
  /\ UNCHANGED <<tmp, dead, recovered, todo, cur, item, attempt, retried, post>>

-----------------------------------------------------------------------------

FlushStep ==
  \/ FlushStart \/ List \/ SendOk \/ SendErr \/ RemoveDelivered
  \/ WriteTmp \/ RenameTmp \/ Bury \/ BuryCopy \/ BuryUnlink \/ PassEnd
  \/ \E n \in Names : Read(n)

Next ==
  \/ FlushStep
  \/ \E r \in Records : EnqueueWrite(r) \/ EnqueueRename(r) \/ EnqueueDies(r)
  \/ \E n \in Names : PowerCut(n)
  \/ FlushDies

Spec == Init /\ [][Next]_vars

\* Somebody (a scheduled task, the operator) keeps running --flush-spool, and a
\* run that is not killed goes on.
FairSpec == Spec /\ WF_vars(FlushStep)

-----------------------------------------------------------------------------
(* Properties.                                                             *)

TypeOK ==
  /\ enq \in [Records -> {"new", "written", "done", "failed"}]
  /\ pending \in [Names -> Content]
  /\ tmp \in [Names -> Item \cup {NoFile}]
  /\ dead \in [Names -> Content]
  /\ recovered \in Content
  /\ pc \in {"idle", "list", "next", "send", "remove", "write", "rename",
             "bury", "unlink"}
  /\ todo \in SUBSET Names
  /\ cur \in Names
  /\ item \in Item
  /\ attempt \in Nat
  /\ retried \in BOOLEAN
  /\ post \in [Records -> Post]
  /\ cut \in SUBSET Records
  /\ crashes \in Nat

Holds(file, r) == file \in Item /\ file.rec = r
Pending(r)  == \E n \in Names : Holds(pending[n], r)
Parked(r)   == Holds(recovered, r) \/ \E n \in Names : Holds(dead[n], r)
OnDisk(r)   == Pending(r) \/ Parked(r)
Received(r) == post[r].acked + post[r].unacked > 0

\* The enqueue run of r is alone with its file name.
Unshared(r) == \A s \in Records : FileName[s] = FileName[r] => s = r

\* Two enqueue runs never derive the same millisecond file name.
DistinctNames == \A r \in Records : Unshared(r)

\* An envelope whose enqueue run reported success is never lost by the agent,
\* whatever dies when: the server has it, or it is still pending, or it is kept
\* in dead-letter/, or a power cut tore the file itself.
NoSilentLoss ==
  \A r \in Records :
    enq[r] = "done" => Received(r) \/ Pending(r) \/ Parked(r) \/ r \in cut

\* An envelope is parked only after max(1, retry_max_attempts) posts of it failed:
\* the retry count kept in the file never runs ahead of the failures.
ParkedAfterRetries ==
  \A n \in Names : dead[n] \in Item =>
    LET p == post[dead[n].rec] IN
      p.unacked + p.refused >= MaxRetry /\ p.unacked + p.refused >= 1

\* The server acknowledges the same envelope again only if the agent died
\* between the acknowledgement and the removal of the file.
RepostOnlyAfterDeath == \A r \in Records : post[r].acked <= 1 + crashes

\* What is in dead-letter/ is out of the queue: it is never posted again.
ParkedIsFinal == \A r \in Records : Parked(r) => ~Pending(r)

\* A spooled envelope whose file name no other run takes vanishes from disk without
\* having reached the server only through recovered-corrupt.json, the one name
\* the fallback of move_to_dead_letter reuses.
LostOnlyFromRecovered ==
  [][\A r \in Records :
       Unshared(r) /\ OnDisk(r) /\ ~OnDisk(r)' /\ ~Received(r)'
         => Holds(recovered, r) \/ r \in cut']_vars

\* What the directories and the history say in the terms of Delivery.
Held        == {r \in Records : Pending(r)}
ReceivedSet == {r \in Records : Received(r)}
ParkedSet   == {r \in Records : Parked(r)}

Promise == INSTANCE Delivery WITH
  held <- Held, received <- ReceivedSet, parked <- ParkedSet, damaged <- cut

\* The spool implements the delivery promise: a record that EnqueueRename accepted
\* is held until the server has it or it is parked, and a record that was let go
\* is never posted again.
KeepsPromise == Promise!Spec

\* RUST_AGENT_BASELINE_RU.md: a record is not removed from the spool without a
\* successful send.
NeverRemovedUnsent ==
  [][\A r \in Records :
       Pending(r) /\ ~Pending(r)' => Received(r)' \/ Parked(r)']_vars

\* A failing or corrupt file never blocks the queue: everything pending leaves
\* pending/ in the end, delivered or parked.
QueueDrains == \A n \in Names : (pending[n] # NoFile) ~> (pending[n] = NoFile)
=============================================================================
