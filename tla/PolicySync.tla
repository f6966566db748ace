----------------------------- MODULE PolicySync -----------------------------
(***************************************************************************)
(* The policy server together with the endpoint agents that pull from it   *)
(* (dlp-endpoint-signals-collector.ps1 with dlp-policy-client.ps1, server  *)
(* mode).  A host has an agent in every user session: they report under    *)
(* one name, the host's, and share one cache file.  Administrators change  *)
(* policies between any two requests of an agent; requests time out,       *)
(* agents are killed, the server restarts and forgets the heartbeats.      *)
(***************************************************************************)
EXTENDS PolicyEngine

CONSTANTS
  Hosts, Agents,
  Host,       (* the host in a session of which an agent runs                *)
  Nobody,
  MaxFaults,  (* bound on failed requests and writes, kills and restarts     *)
  Torn        (* a cache file that ConvertFrom-Json cannot read              *)

Bundle == [version : Versions, checksum : Docs, doc : Docs, at : 0..MaxAudit]

\* The local policy file: version and checksum are null.
Local  == [version |-> 0, checksum |-> NoDoc, doc |-> NoDoc, at |-> 0]

ASSUME SyncAssumption ==
  /\ Host \in [Agents -> Hosts]
  /\ MaxFaults \in Nat /\ Torn \notin Bundle \cup {Local} /\ Nobody \notin Agents

VARIABLES
  heard,   (* AppState.agents: the last heartbeat, as the policy it reported *)
  teller,  (* history: the agent of the host whose heartbeat that was        *)
  cache,   (* the file at PolicyCachePath of a host                          *)
  saver,   (* history: the agent that wrote it last                          *)
  policy,  (* $script:Policy, PolicyVersion, PolicyChecksum                  *)
  pc,      (* where the agent's loop is                                      *)
  hand,    (* the bundle a Refresh-DlpPolicyFromServer call has fetched      *)
  booting, (* the call is the one of Initialize-DlpPolicy                    *)
  fresh,   (* LastPolicyRefreshAt was not too old when it was last looked at *)
  faults

hostVars  == <<heard, teller, cache, saver>>
agentVars == <<policy, pc, hand, booting, fresh>>
syncVars  == <<engineVars, hostVars, agentVars, faults>>

SyncInit ==
  /\ Init
  /\ heard = [h \in Hosts |-> Local] /\ teller = [h \in Hosts |-> Nobody]
  /\ cache = [h \in Hosts |-> Local]        \* Local stands for no file
  /\ saver = [h \in Hosts |-> Nobody]
  /\ policy = [a \in Agents |-> Local]
  /\ pc = [a \in Agents |-> "fetch"]
  /\ hand = [a \in Agents |-> Local]
  /\ booting = [a \in Agents |-> TRUE]
  /\ fresh = [a \in Agents |-> FALSE]
  /\ faults = 0

Goto(a, l) == pc' = [pc EXCEPT ![a] = l]

\* Mutant of AfterFailure: every failed refresh goes back to the cache.
AlwaysFallback(a) == "fallback"

\* What a Refresh call that failed falls back to.
AfterFailure(a) == IF booting[a] THEN "fallback" ELSE "idle"

\* build_policy_bundle of get_active_policy; "at" is history: the mutations so far.
Served == {[version |-> row[i].version, checksum |-> row[i].checksum,
            doc |-> Document(i), at |-> audit.rows] : i \in {j \in Active : Found(j)}}

\* Mutant of RefreshNow: versions alone are compared.
RefreshOnVersion(h, b) == heard[h].version # b.version

\* desired_policy
RefreshNow(h, b) == heard[h].version # b.version \/ heard[h].checksum # b.checksum

\* upsert_heartbeat: agent a has reported, under the name of its host.
Hear(a) ==
  /\ heard' = [heard EXCEPT ![Host[a]] = policy[a]]
  /\ teller' = [teller EXCEPT ![Host[a]] = a]

-----------------------------------------------------------------------------
\* Mutant of Tick: after the first refresh, the desired hint alone.
TickByHint(a) ==
  /\ pc[a] = "idle"
  /\ Goto(a, IF fresh[a] THEN "beat" ELSE "fetch")
  /\ UNCHANGED <<engineVars, hostVars, policy, hand, booting, fresh, faults>>

\* One turn of the collector's loop: a full refresh when the last one is as old as
\* PolicyRefreshSeconds, which it may have become since any other turn.
Tick(a) ==
  /\ pc[a] = "idle"
  /\ \/ fresh[a] /\ Goto(a, "beat") /\ UNCHANGED fresh
     \/ Goto(a, "fetch") /\ fresh' = [fresh EXCEPT ![a] = FALSE]
  /\ UNCHANGED <<engineVars, hostVars, policy, hand, booting, faults>>

Beat(a) ==
  /\ pc[a] = "beat"
  /\ Hear(a)
  /\ Goto(a, "ask")
  /\ UNCHANGED <<engineVars, cache, saver, policy, hand, booting, fresh, faults>>

\* desired: 404 without an active policy, which throws.
Ask(a) ==
  /\ pc[a] = "ask"
  /\ \/ Served = {} /\ Goto(a, "idle")
     \/ \E b \in Served : Goto(a, IF RefreshNow(Host[a], b) THEN "fetch" ELSE "idle")
  /\ UNCHANGED <<engineVars, hostVars, policy, hand, booting, fresh, faults>>

\* Mutant of Fetch: the bundle is enforced as it arrives, before it is saved.
FetchEnforces(a) ==
  /\ pc[a] = "fetch"
  /\ \/ /\ Served = {}
        /\ Goto(a, AfterFailure(a))
        /\ UNCHANGED <<hand, policy>>
     \/ \E b \in Served : /\ hand' = [hand EXCEPT ![a] = b] /\ Goto(a, "save")
                          /\ policy' = [policy EXCEPT ![a] = b]
  /\ UNCHANGED <<engineVars, hostVars, booting, fresh, faults>>

Fetch(a) ==
  /\ pc[a] = "fetch"
  /\ \/ /\ Served = {}
        /\ Goto(a, AfterFailure(a))
        /\ UNCHANGED hand
     \/ \E b \in Served : hand' = [hand EXCEPT ![a] = b] /\ Goto(a, "save")
  /\ UNCHANGED <<engineVars, hostVars, policy, booting, fresh, faults>>

\* Set-Content empties the file ...
Empty(a) ==
  /\ pc[a] = "save"
  /\ cache' = [cache EXCEPT ![Host[a]] = Torn]
  /\ Goto(a, "write")
  /\ UNCHANGED <<engineVars, heard, teller, saver, policy, hand, booting, fresh, faults>>

\* ... and writes it from its start: of what another agent has written in between the
\* end may stay behind.
Save(a) ==
  /\ pc[a] = "write"
  /\ \E b \in {hand[a]} \cup (IF cache[Host[a]] \in {Torn, hand[a]} THEN {} ELSE {Torn}) :
       cache' = [cache EXCEPT ![Host[a]] = b]
  /\ saver' = [saver EXCEPT ![Host[a]] = a]
  /\ Goto(a, "apply")
  /\ UNCHANGED <<engineVars, heard, teller, policy, hand, booting, fresh, faults>>

Apply(a) ==
  /\ pc[a] = "apply"
  /\ policy' = [policy EXCEPT ![a] = hand[a]]
  /\ hand' = [hand EXCEPT ![a] = Local]
  /\ fresh' = [fresh EXCEPT ![a] = TRUE]
  /\ booting' = [booting EXCEPT ![a] = FALSE]
  /\ Goto(a, "idle")
  /\ UNCHANGED <<engineVars, hostVars, faults>>

\* Another agent of the host is in Set-Content and holds the cache file.
Held(a) == \E b \in Agents \ {a} : Host[b] = Host[a] /\ pc[b] = "write"

\* Initialize-DlpPolicy without a server: the cached bundle, or the local file.
Fallback(a) ==
  /\ pc[a] = "fallback"
  /\ \/ /\ cache[Host[a]] # Torn
        /\ policy' = [policy EXCEPT ![a] = cache[Host[a]]]
     \/ /\ cache[Host[a]] = Torn \/ Held(a)
        /\ policy' = [policy EXCEPT ![a] = Local]
  /\ booting' = [booting EXCEPT ![a] = FALSE]
  /\ Goto(a, "idle")
  /\ UNCHANGED <<engineVars, hostVars, hand, fresh, faults>>

\* What a Set-Content that fails or is killed leaves behind.
Spoiled(a) == {cache} \cup (IF pc[a] = "write" THEN {[cache EXCEPT ![Host[a]] = Torn]} ELSE {})

\* A request fails, or times out after the server took the heartbeat, or the cache
\* cannot be written.  The exception ends the call.
Fail(a) ==
  /\ faults < MaxFaults
  /\ faults' = faults + 1
  /\ pc[a] \in {"beat", "ask", "fetch", "save", "write"}
  /\ Goto(a, IF pc[a] \in {"fetch", "save", "write"} THEN AfterFailure(a) ELSE "idle")
  /\ UNCHANGED <<heard, teller>> \/ (pc[a] = "beat" /\ Hear(a))
  /\ cache' \in Spoiled(a)
  /\ hand' = [hand EXCEPT ![a] = Local]
  /\ UNCHANGED <<engineVars, saver, policy, booting, fresh>>

\* The agent is killed, at worst while the cache is being written, and starts again.
Kill(a) ==
  /\ faults < MaxFaults
  /\ faults' = faults + 1
  /\ cache' \in Spoiled(a)
  /\ policy' = [policy EXCEPT ![a] = Local]
  /\ hand' = [hand EXCEPT ![a] = Local]
  /\ booting' = [booting EXCEPT ![a] = TRUE]
  /\ fresh' = [fresh EXCEPT ![a] = FALSE]
  /\ Goto(a, "fetch")
  /\ UNCHANGED <<engineVars, heard, teller, saver>>

ServerRestart ==
  /\ faults < MaxFaults
  /\ faults' = faults + 1
  /\ heard' = [h \in Hosts |-> Local] /\ teller' = [h \in Hosts |-> Nobody]
  /\ UNCHANGED <<engineVars, cache, saver, agentVars>>

AgentStep(a) ==
  Tick(a) \/ Beat(a) \/ Ask(a) \/ Fetch(a) \/ Empty(a) \/ Save(a) \/ Apply(a)
  \/ Fallback(a)

SyncNext ==
  \/ Next /\ UNCHANGED <<hostVars, agentVars, faults>>
  \/ \E a \in Agents : AgentStep(a) \/ Fail(a) \/ Kill(a)
  \/ ServerRestart

SyncSpec     == SyncInit /\ [][SyncNext]_syncVars

\* The loop of every agent goes on, and so does its clock: among its turns there is
\* always another one in which the last refresh is old.
FairSyncSpec ==
  SyncSpec /\ \A a \in Agents : WF_pc(AgentStep(a)) /\ SF_pc(Tick(a) /\ pc'[a] = "fetch")

-----------------------------------------------------------------------------
SyncTypeOK ==
  /\ heard \in [Hosts -> Bundle \cup {Local}]
  /\ teller \in [Hosts -> Agents \cup {Nobody}] /\ saver \in [Hosts -> Agents \cup {Nobody}]
  /\ cache \in [Hosts -> Bundle \cup {Local, Torn}]
  /\ policy \in [Agents -> Bundle \cup {Local}]
  /\ pc \in [Agents -> {"idle", "beat", "ask", "fetch", "save", "write", "apply", "fallback"}]
  /\ hand \in [Agents -> Bundle \cup {Local}]
  /\ booting \in [Agents -> BOOLEAN] /\ fresh \in [Agents -> BOOLEAN]
  /\ faults \in 0..MaxFaults

(* When the server tells an agent it is up to date, the last report it has *)
(* of the host is of the very document in force, whatever was changed,     *)
(* activated, rolled back or forgotten since; and the agent enforces that  *)
(* document, unless another agent of its host has reported in between.     *)
UpToDateIsSame ==
  [][\A a \in Agents :
       pc[a] = "ask" /\ pc'[a] = "idle" /\ faults' = faults
         => \A b \in Served : /\ heard[Host[a]].doc = b.doc
                              /\ teller[Host[a]] = a => policy[a].doc = b.doc]_syncVars

(* A readable cache file is not older than the policy of the agent that    *)
(* wrote it last: it holds an older one than an agent of the host enforces *)
(* only when another agent has written it since.                           *)
CacheNotOlder ==
  \A a \in Agents :
    saver[Host[a]] = a /\ cache[Host[a]] # Torn => policy[a].at <= cache[Host[a]].at

(* A running agent never replaces its policy by an older one.              *)
NeverOlder ==
  [][\A a \in Agents : policy'[a].at < policy[a].at => policy'[a] = Local /\ pc'[a] = "fetch"]_syncVars

(* When administrators, failures and kills stop, every agent comes to      *)
(* enforce the document in force and keeps it, and so does every cache     *)
(* file, except while an agent writes it anew: what the hint misses when   *)
(* agents share a name, the refresh every PolicyRefreshSeconds makes good. *)
Converges ==
  <>[](\A a \in Agents, b \in Served :
         /\ policy[a].doc = b.doc
         /\ IF cache[Host[a]] = Torn THEN \E c \in Agents : Host[c] = Host[a] /\ pc[c] = "write"
                                     ELSE cache[Host[a]].doc = b.doc)
=============================================================================
