--------------------------- MODULE EventForwarder ---------------------------
(***************************************************************************)
(* The programs a timer starts to pass new DLP incidents on: the webhook   *)
(* sender, the syslog forwarder and the CEF exporter.  All three read the  *)
(* newest page of every incident bucket, send what lies above the cursor   *)
(* in their state file in the order of ids, and save the new cursor at the *)
(* end.  They differ in what they do when a bucket cannot be read and when *)
(* an incident cannot be sent.  Each is alone with its state file (a       *)
(* oneshot unit), so a behaviour is that of one of them.                   *)
(***************************************************************************)
EXTENDS Integers, FiniteSets

CONSTANTS
  Kinds,      (* which of the three programs are considered                  *)
  Buckets,    (* numbers, in the order of the bucket ids                     *)
  Hooks,      (* critical_webhooks, numbered; each wants every severity here *)
  MaxId,      (* bound on event ids                                          *)
  Times,      (* event timestamps                                            *)
  Limit,      (* per_bucket_limit                                            *)
  Retries,    (* posts of one incident to one hook                           *)
  MaxFaults,  (* bound on failed requests, failed sends and deaths           *)
  NoEvent

Ids   == 1..MaxId
Event == [bucket : Buckets, time : Times]

ASSUME ForwarderAssumption ==
  /\ Kinds \subseteq {"webhook", "syslog", "cef"}
  /\ Buckets \subseteq Nat /\ Hooks \subseteq Nat /\ Times \subseteq Nat
  /\ MaxId \in Nat /\ Limit \in Nat \ {0} /\ Retries \in Nat \ {0} /\ MaxFaults \in Nat
  /\ NoEvent \notin Event

VARIABLES
  kind,     (* which program this is                                         *)
  event,    (* the incidents in aw-server, by id                             *)
  top,      (* the last id it gave                                           *)
  cursor,   (* last_ids in the state file; 0 stands for a missing key        *)
  pc,
  left,     (* buckets this run has still to read                            *)
  high,     (* max_ids                                                       *)
  work,     (* what it has still to send: <<id, sink>>                       *)
  attempt,  (* failed posts of the next item                                 *)
  sent,     (* history: how often an incident was handed to a sink           *)
  dropped,  (* history: what post_with_retry gave up                         *)
  faults

server == <<event, top>>
runs   == <<pc, left, high, work, attempt>>
vars   == <<kind, server, cursor, runs, sent, dropped, faults>>

Sinks == IF kind = "webhook" THEN Hooks ELSE {0}
Items == Ids \X (Hooks \cup {0})
Start == [b \in Buckets |-> 0]

Init ==
  /\ kind \in Kinds
  /\ event = [e \in Ids |-> NoEvent]
  /\ top = 0
  /\ cursor = Start
  /\ pc = "idle"
  /\ left = {}
  /\ high = Start
  /\ work = {}
  /\ attempt = 0
  /\ sent = [i \in Items |-> 0]
  /\ dropped = {}
  /\ faults = 0

-----------------------------------------------------------------------------
(* aw-server.                                                              *)

In(b)       == {e \in Ids : event[e] # NoEvent /\ event[e].bucket = b}
Newer(d, e) == \/ event[d].time > event[e].time
               \/ event[d].time = event[e].time /\ d > e
Ahead(e)    == {d \in In(event[e].bucket) : Newer(d, e)}

\* GET /buckets/<b>/events?limit=...: the latest by timestamp.
Page(b) == {e \in In(b) : Cardinality(Ahead(e)) < Limit}

\* Ids grow; a host that was offline posts an incident of an earlier time.
Insert(b, t) ==
  /\ top < MaxId
  /\ top' = top + 1
  /\ event' = [event EXCEPT ![top + 1] = [bucket |-> b, time |-> t]]
  /\ UNCHANGED <<kind, cursor, runs, sent, dropped, faults>>

-----------------------------------------------------------------------------
(* One run.                                                                *)

\* The program ends; what it has in memory is gone.
Ended == pc' = "idle" /\ left' = {} /\ high' = Start /\ work' = {} /\ attempt' = 0

\* Mutant of Begin: only the buckets of the state file are read.
BeginKnown ==
  /\ pc = "idle"
  /\ pc' = "fetch"
  /\ left' = {b \in Buckets : cursor[b] > 0}
  /\ UNCHANGED <<kind, server, cursor, high, work, attempt, sent, dropped, faults>>

\* load_json and the list of buckets, where a bucket exists once it has an incident.
\* A run that gets no list ends and leaves everything as it was.
Begin ==
  /\ pc = "idle"
  /\ pc' = "fetch"
  /\ left' = {b \in Buckets : In(b) # {}}
  /\ UNCHANGED <<kind, server, cursor, high, work, attempt, sent, dropped, faults>>

\* An answer that is no map of buckets counts as an empty one (unwrap_or_default):
\* the run reads nothing and saves a state without keys.
BeginBlank ==
  /\ faults < MaxFaults
  /\ faults' = faults + 1
  /\ pc = "idle"
  /\ pc' = "fetch"
  /\ UNCHANGED <<kind, server, cursor, left, high, work, attempt, sent, dropped>>

IsNext(b) == b \in left /\ \A c \in left : b <= c
Above(b)  == {e \in Page(b) : e > cursor[b]}
Highest(S, else) == IF S = {} THEN else ELSE CHOOSE m \in S : \A n \in S : n <= m

\* Mutants of NewHigh: a bucket without news gets no key; the cursor is one too far.
HighOnlyNews(b)   == Highest(Above(b), 0)
HighOneOff(b)     == Highest({e + 1 : e \in Above(b)}, cursor[b])

\* bucket_max
NewHigh(b) == Highest(Above(b), cursor[b])

\* Mutant of Fetch: the incidents of a bucket replace those of the one before.
FetchReplaces(b) ==
  /\ pc = "fetch"
  /\ IsNext(b)
  /\ left' = left \ {b}
  /\ high' = [high EXCEPT ![b] = NewHigh(b)]
  /\ work' = Above(b) \X Sinks
  /\ UNCHANGED <<kind, server, cursor, pc, attempt, sent, dropped, faults>>

Fetch(b) ==
  /\ pc = "fetch"
  /\ IsNext(b)
  /\ left' = left \ {b}
  /\ high' = [high EXCEPT ![b] = NewHigh(b)]
  /\ work' = work \cup (Above(b) \X Sinks)
  /\ UNCHANGED <<kind, server, cursor, pc, attempt, sent, dropped, faults>>

\* A bucket that cannot be read.  If the answer is no list, and for syslog whatever it
\* is, the run goes on without it and its key is missing from the new state; a failed
\* request ends a run of the others.
FetchFails(b) ==
  /\ faults < MaxFaults
  /\ faults' = faults + 1
  /\ pc = "fetch"
  /\ IsNext(b)
  /\ \/ left' = left \ {b} /\ UNCHANGED <<pc, high, work, attempt>>
     \/ kind # "syslog" /\ Ended
  /\ UNCHANGED <<kind, server, cursor, sent, dropped>>

SendPhase ==
  /\ pc = "fetch"
  /\ left = {}
  /\ pc' = "send"
  /\ UNCHANGED <<kind, server, cursor, left, high, work, attempt, sent, dropped, faults>>

\* Mutant of Turn: the page is sent as it came, the newest first.
TurnUnsorted(i) == i \in work /\ \A j \in work : i[1] > j[1] \/ (i[1] = j[1] /\ i[2] <= j[2])

\* Sorted by id, and the hooks of an incident one after the other.
Turn(i) == i \in work /\ \A j \in work : i[1] < j[1] \/ (i[1] = j[1] /\ i[2] <= j[2])

Send(i) ==
  /\ pc = "send"
  /\ Turn(i)
  /\ sent' = [sent EXCEPT ![i] = @ + 1]
  /\ work' = work \ {i}
  /\ attempt' = 0
  /\ UNCHANGED <<kind, server, cursor, pc, left, high, dropped, faults>>

\* A send fails, with or without reaching the sink.  The webhook sender tries again
\* and then goes on without the incident; the others end the run unsaved.
SendFails(i) ==
  /\ faults < MaxFaults
  /\ faults' = faults + 1
  /\ pc = "send"
  /\ Turn(i)
  /\ \/ UNCHANGED sent
     \/ sent' = [sent EXCEPT ![i] = @ + 1]
  /\ \/ /\ kind = "webhook" /\ attempt + 1 < Retries
        /\ attempt' = attempt + 1
        /\ UNCHANGED <<pc, left, high, work, dropped>>
     \/ /\ kind = "webhook" /\ attempt + 1 = Retries
        /\ attempt' = 0
        /\ work' = work \ {i}
        /\ dropped' = dropped \cup {i}
        /\ UNCHANGED <<pc, left, high>>
     \/ kind # "webhook" /\ Ended /\ UNCHANGED dropped
  /\ UNCHANGED <<kind, server, cursor>>

Saving == pc = "send" /\ work = {}

Save ==
  /\ Saving
  /\ cursor' = high
  /\ Ended
  /\ UNCHANGED <<kind, server, sent, dropped, faults>>

\* A death; also a write of the state file that fails.  fs::write empties the file
\* first, and load_json takes an unreadable one for a new one.
Die ==
  /\ faults < MaxFaults
  /\ faults' = faults + 1
  /\ pc # "idle"
  /\ Ended
  /\ cursor' \in {cursor} \cup (IF Saving THEN {Start} ELSE {})
  /\ UNCHANGED <<kind, server, sent, dropped>>

Step ==
  \/ Begin \/ SendPhase \/ Save
  \/ \E b \in Buckets : Fetch(b)
  \/ \E i \in Items : Send(i)

Next ==
  \/ Step
  \/ \E b \in Buckets : FetchFails(b) \/ \E t \in Times : Insert(b, t)
  \/ \E i \in Items : SendFails(i)
  \/ BeginBlank \/ Die

Spec == Init /\ [][Next]_vars

\* The timer keeps starting the program, and a run that is not killed goes on.
FairSpec == Spec /\ WF_vars(Step)

-----------------------------------------------------------------------------
TypeOK ==
  /\ kind \in Kinds
  /\ event \in [Ids -> Event \cup {NoEvent}]
  /\ top \in 0..MaxId
  /\ cursor \in [Buckets -> 0..top] /\ high \in [Buckets -> 0..top]
  /\ pc \in {"idle", "fetch", "send"}
  /\ left \subseteq Buckets
  /\ work \subseteq Ids \X Sinks
  /\ attempt \in 0..(Retries - 1)
  /\ sent \in [Items -> Nat]
  /\ dropped \subseteq Items
  /\ faults \in 0..MaxFaults

\* More than a page of later incidents lies before it: it can no longer be read.
PushedOut(e) == Cardinality(Ahead(e)) >= Limit

Arrived(e)      == event[e] # NoEvent
Accounted(e, s) ==
  Arrived(e) /\ (sent[<<e, s>>] > 0 \/ <<e, s>> \in dropped \/ PushedOut(e))

(* The saved cursor never passes an incident in silence: below it every    *)
(* incident was sent to every sink, given up by post_with_retry, or pushed *)
(* out of the page (iter_new_incidents).                                   *)
CursorExplained ==
  \A e \in Ids, s \in Sinks :
    Arrived(e) /\ e <= cursor[event[e].bucket] => Accounted(e, s)

(* An incident reaches a sink again only after a fault: one failed request,*)
(* lost answer or death costs at most one repetition.                      *)
RepeatedPerFault == \A i \in Items : sent[i] <= 1 + faults

(* A syslog or CEF sink gets the incidents of a bucket first in the order  *)
(* of their ids, across runs, failures and lost cursors.                   *)
FirstInOrder ==
  [][\A d, e \in Ids :
       /\ kind # "webhook" /\ d < e
       /\ Arrived(d) /\ Arrived(e) /\ event[d].bucket = event[e].bucket
       /\ sent[<<e, 0>>] > 0 /\ sent[<<d, 0>>] = 0
       => sent'[<<d, 0>>] = 0]_vars

(* Every incident is sent, given up or pushed out in the end.              *)
Forwarded == \A e \in Ids : Arrived(e) ~> \A s \in Sinks : Accounted(e, s)
=============================================================================
