--------------------------- MODULE PolicySync_proofs ---------------------------
(***************************************************************************)
(* What an agent pulls is never older than what it has, what it saves is   *)
(* not older than what it enforces, and it is told its host is up to date  *)
(* only when the host has reported the document in force.  All rest on the *)
(* tables of the server (EngineInv) and on what relates the bundle an agent*)
(* has in hand and the policy it enforces to the report and the cache file *)
(* its host has, whichever of the host's agents sent or wrote them.        *)
(***************************************************************************)
EXTENDS PolicySync, PolicyEngine_proofs

Bundles == Bundle \cup {Local}

(* A bundle is of the past, and its checksum is that of its document.      *)
Sound(b) == b \in Bundles /\ b.at <= audit.rows /\ b.checksum = b.doc

(* What a host has reported and what its cache file holds are bundles.     *)
HostInv(h) == Sound(heard[h]) /\ (cache[h] # Torn => Sound(cache[h]))

(* An agent that starts has no policy, and only such a one falls back.     *)
(* What is about to be applied is not older than the policy.  As long as   *)
(* no other agent of its host has reported or saved, the report and the    *)
(* cache file of the host are what this agent made them.                   *)
AgentInv(a) ==
  /\ Sound(policy[a]) /\ Sound(hand[a])
  /\ booting[a] => policy[a] = Local
  /\ pc[a] = "fallback" => booting[a]
  /\ pc[a] = "ask" /\ teller[Host[a]] = a => heard[Host[a]] = policy[a]
  /\ pc[a] \in {"save", "write", "apply"} => policy[a].at <= hand[a].at
  /\ saver[Host[a]] = a /\ cache[Host[a]] # Torn =>
       /\ policy[a].at <= cache[Host[a]].at
       /\ pc[a] = "apply" => cache[Host[a]] = hand[a]

SyncInv ==
  /\ EngineInv /\ SyncTypeOK
  /\ \A h \in Hosts : HostInv(h)
  /\ \A a \in Agents : AgentInv(a)

-----------------------------------------------------------------------------
\* The local file and every bundle have a time.
LEMMA BundleTimes == \A b \in Bundles : b.at \in Nat
<1>1. Local.at = 0 /\ \A b \in Bundle : b.at \in 0..MaxAudit
  BY DEF Local, Bundle
<1>2. QED
  BY <1>1, EngineAssumption DEF Bundles

LEMMA LocalSound == TypeOK => Sound(Local) /\ Local.at = 0 /\ Local.version = 0
<1>1. TypeOK => audit.rows \in Nat
  BY EngineAssumption DEF TypeOK
<1>2. QED
  BY <1>1 DEF Sound, Bundles, Local

\* What the server answers is sound, of this moment, and never the local file.
LEMMA ServedSound ==
  ASSUME EngineInv, NEW b \in Served
  PROVE  /\ b \in Bundle /\ Sound(b)
         /\ b.at = audit.rows /\ b.version # 0
<1>1. PICK i \in Ids : /\ Found(i)
                       /\ b = [version |-> row[i].version, checksum |-> row[i].checksum,
                               doc |-> Document(i), at |-> audit.rows]
  BY DEF Served, Active
<1>2. TypeOK /\ RowsAgree
  BY DEF EngineInv, Good, RowsAgree
<1>3. row[i] \in Row /\ Exists(i)
  BY <1>1, <1>2 DEF TypeOK, Found, Exists
<1>4. row[i].version \in Versions /\ row[i].checksum \in Docs
  BY <1>3 DEF Row
<1>5. Document(i) \in Docs
  BY <1>1, <1>2, <1>4 DEF Document, Found, TypeOK
<1>6. row[i].checksum = Document(i)
  BY <1>2, <1>3 DEF RowsAgree
<1>7. audit.rows \in 0..MaxAudit
  BY <1>2 DEF TypeOK
<1>8. /\ b.version = row[i].version /\ b.checksum = row[i].checksum
      /\ b.doc = Document(i) /\ b.at = audit.rows
  BY <1>1
<1>9. b \in Bundle
  BY <1>1, <1>4, <1>5, <1>7 DEF Bundle
<1>10. b.version # 0
  BY <1>4, <1>8, EngineAssumption DEF Versions
<1>11. Sound(b)
  BY <1>6, <1>7, <1>8, <1>9, EngineAssumption DEF Sound, Bundles
<1>12. QED
  BY <1>8, <1>9, <1>10, <1>11

\* There is one policy in force at most, so one answer.
LEMMA OneServed ==
  ASSUME EngineInv, NEW b \in Served, NEW c \in Served
  PROVE  b = c
<1>1. AtMostOneActive
  BY DEF EngineInv, Good, AtMostOneActive, Active
<1>2. QED
  BY <1>1 DEF Served, AtMostOneActive

\* A mutation writes an audit row; nothing takes one away.
LEMMA AuditGrows ==
  ASSUME EngineInv, [Next]_engineVars
  PROVE  audit.rows <= audit'.rows
<1>1. TypeOK /\ audit.rows \in Nat
  BY EngineAssumption DEF EngineInv, TypeOK
<1>2. ASSUME NEW i, NEW b, Audit(i, b) PROVE audit'.rows = audit.rows + 1
  BY <1>2 DEF Audit
<1>3. CASE UNCHANGED engineVars
  BY <1>1, <1>3 DEF engineVars
<1>4. CASE Next
  <2>1. \E i, b : Audit(i, b)
    BY <1>4 DEF Next, Create, Update, Activate, Rollback, Delete, SetStatus
  <2>2. QED
    BY <1>1, <1>2, <2>1
<1>5. QED
  BY <1>3, <1>4

\* What was sound stays so.
LEMMA SoundStays ==
  ASSUME EngineInv, [Next]_engineVars, NEW b, Sound(b)
  PROVE  b \in Bundles /\ b.checksum = b.doc /\ b.at <= audit'.rows
<1>1. audit.rows \in Nat /\ audit'.rows \in Nat
  BY NextEngine, EngineAssumption DEF EngineInv, TypeOK
<1>2. b.at \in Nat
  BY BundleTimes DEF Sound
<1>3. QED
  BY <1>1, <1>2, AuditGrows DEF Sound

-----------------------------------------------------------------------------
LEMMA InitSync == SyncInit => SyncInv
<1> SUFFICES ASSUME SyncInit PROVE SyncInv
  OBVIOUS
<1>1. EngineInv /\ TypeOK
  BY InitEngine DEF SyncInit, EngineInv
<1>2. SyncTypeOK
  BY SyncAssumption DEF SyncInit, SyncTypeOK
<1>3. Sound(Local) /\ Local.at = 0
  BY <1>1, LocalSound
<1>4. ASSUME NEW h \in Hosts PROVE HostInv(h)
  BY <1>3 DEF SyncInit, HostInv
<1>5. ASSUME NEW a \in Agents PROVE AgentInv(a)
  BY <1>3, SyncAssumption DEF SyncInit, AgentInv
<1>6. QED
  BY <1>1, <1>2, <1>4, <1>5 DEF SyncInv

\* A step of the server alone, or none.
LEMMA ServerStep ==
  ASSUME SyncInv, [Next]_engineVars, UNCHANGED <<hostVars, agentVars, faults>>
  PROVE  SyncInv'
<1>1. EngineInv /\ EngineInv'
  BY NextEngine DEF SyncInv
<1>2. SyncTypeOK'
  BY DEF SyncInv, SyncTypeOK, agentVars, hostVars
<1>3. ASSUME NEW a \in Agents PROVE AgentInv(a)'
  <2>1. AgentInv(a) /\ UNCHANGED <<heard, teller, cache, saver, policy, pc, hand, booting>>
    BY DEF SyncInv, agentVars, hostVars
  <2>2. Sound(policy[a])' /\ Sound(hand[a])'
    BY <1>1, <2>1, SoundStays DEF AgentInv, Sound
  <2>3. QED
    BY <2>1, <2>2 DEF AgentInv
<1>4. ASSUME NEW h \in Hosts PROVE HostInv(h)'
  <2>1. HostInv(h) /\ UNCHANGED <<heard, cache>>
    BY DEF SyncInv, hostVars
  <2>2. QED
    BY <1>1, <2>1, SoundStays DEF HostInv, Sound
<1>5. QED
  BY <1>1, <1>2, <1>3, <1>4 DEF SyncInv

\* A step that leaves another agent alone: whatever it does to the report and to the
\* cache file of the host, it does in its own name, or it empties the file.
LEMMA OthersKeep ==
  ASSUME SyncInv, UNCHANGED engineVars, NEW c \in Agents,
         policy'[c] = policy[c], pc'[c] = pc[c], hand'[c] = hand[c], booting'[c] = booting[c],
         \/ teller'[Host[c]] # c
         \/ teller'[Host[c]] = teller[Host[c]] /\ heard'[Host[c]] = heard[Host[c]],
         \/ saver'[Host[c]] # c
         \/ /\ saver'[Host[c]] = saver[Host[c]]
            /\ cache'[Host[c]] = cache[Host[c]] \/ cache'[Host[c]] = Torn
  PROVE  AgentInv(c)'
<1>1. AgentInv(c) /\ audit' = audit
  BY DEF SyncInv, engineVars
<1>2. QED
  BY <1>1 DEF AgentInv, Sound

\* What a step does to a host: nothing, a report or a bundle in its place, an empty file.
LEMMA HostsKeep ==
  ASSUME SyncInv, UNCHANGED engineVars, NEW h \in Hosts,
         heard'[h] = heard[h] \/ Sound(heard'[h]),
         cache'[h] = cache[h] \/ cache'[h] = Torn \/ Sound(cache'[h])
  PROVE  HostInv(h)'
<1>1. HostInv(h) /\ audit' = audit
  BY DEF SyncInv, engineVars
<1>2. QED
  BY <1>1 DEF HostInv, Sound

\* The server's part of an agent's step.
LEMMA EngineKeeps == ASSUME SyncInv, UNCHANGED engineVars PROVE EngineInv' /\ EngineInv
<1>1. EngineInv /\ [Next]_engineVars
  BY DEF SyncInv
<1>2. QED
  BY <1>1, NextEngine

\* What every proof about a step of an agent starts from.
LEMMA Before ==
  ASSUME SyncInv, NEW a \in Agents, UNCHANGED engineVars
  PROVE  /\ SyncTypeOK /\ AgentInv(a) /\ HostInv(Host[a]) /\ Host[a] \in Hosts
         /\ EngineInv /\ audit' = audit
<1>1. Host[a] \in Hosts
  BY SyncAssumption
<1>2. QED
  BY <1>1 DEF SyncInv, engineVars

\* Tick, Ask: the report, the policy, the cache and the bundle stay.
LEMMA TalkStep ==
  ASSUME SyncInv, NEW a \in Agents, Tick(a) \/ Ask(a)
  PROVE  SyncInv'
<1>1. UNCHANGED engineVars
  BY DEF Tick, Ask
<1>2. SyncTypeOK /\ AgentInv(a) /\ audit' = audit
  BY <1>1, Before
<1>3. /\ UNCHANGED <<hostVars, policy, hand, booting, faults>>
      /\ pc'[a] \in {"beat", "fetch", "idle"} \/ pc'[a] = pc[a]
      /\ \A c \in Agents \ {a} : pc'[c] = pc[c]
  BY <1>2 DEF Tick, Ask, Goto, SyncTypeOK
<1>4. SyncTypeOK'
  <2>1. CASE Tick(a)
    BY <1>2, <2>1 DEF Tick, Goto, SyncTypeOK, hostVars
  <2>2. CASE Ask(a)
    BY <1>2, <2>2 DEF Ask, Goto, SyncTypeOK, hostVars
  <2>3. QED
    BY <2>1, <2>2
<1>5. AgentInv(a)'
  BY <1>2, <1>3 DEF AgentInv, Sound, hostVars
<1>6. ASSUME NEW c \in Agents PROVE AgentInv(c)'
  BY <1>1, <1>3, <1>5, OthersKeep DEF hostVars
<1>7. ASSUME NEW h \in Hosts PROVE HostInv(h)'
  BY <1>1, <1>3, HostsKeep DEF hostVars
<1>8. QED
  BY <1>1, <1>4, <1>6, <1>7, EngineKeeps DEF SyncInv

\* Beat: the report of the host is this agent's.
LEMMA BeatStep ==
  ASSUME SyncInv, NEW a \in Agents, Beat(a)
  PROVE  SyncInv'
<1>1. UNCHANGED engineVars
  BY DEF Beat
<1>2. /\ SyncTypeOK /\ AgentInv(a) /\ Host[a] \in Hosts /\ audit' = audit
  BY <1>1, Before
<1>3. /\ UNCHANGED <<cache, saver, policy, hand, booting>> /\ pc'[a] = "ask"
      /\ heard'[Host[a]] = policy[a] /\ teller'[Host[a]] = a
      /\ \A h \in Hosts \ {Host[a]} : heard'[h] = heard[h] /\ teller'[h] = teller[h]
      /\ \A c \in Agents \ {a} : pc'[c] = pc[c]
  BY <1>2 DEF Beat, Hear, Goto, SyncTypeOK
<1>4. SyncTypeOK'
  BY <1>2 DEF Beat, Hear, Goto, SyncTypeOK
<1>5. AgentInv(a)'
  BY <1>2, <1>3 DEF AgentInv, Sound
<1>6. ASSUME NEW c \in Agents PROVE AgentInv(c)'
  BY <1>1, <1>3, <1>5, OthersKeep, SyncAssumption
<1>7. ASSUME NEW h \in Hosts PROVE HostInv(h)'
  BY <1>1, <1>2, <1>3, HostsKeep DEF AgentInv
<1>8. QED
  BY <1>1, <1>4, <1>6, <1>7, EngineKeeps DEF SyncInv

\* Fetch: what arrives is of this moment, so not older than anything.
LEMMA FetchStep ==
  ASSUME SyncInv, NEW a \in Agents, Fetch(a)
  PROVE  SyncInv'
<1>1. UNCHANGED engineVars
  BY DEF Fetch
<1>2. SyncTypeOK /\ AgentInv(a) /\ EngineInv /\ audit' = audit
  BY <1>1, Before
<1>3. UNCHANGED <<hostVars, policy, booting, fresh, faults>> /\ pc[a] = "fetch"
  BY DEF Fetch
<1>4. ASSUME NEW h \in Hosts PROVE HostInv(h)'
  BY <1>1, <1>3, HostsKeep DEF hostVars
<1>5. CASE Served = {} /\ Goto(a, AfterFailure(a)) /\ UNCHANGED hand
  <2>1. SyncTypeOK'
    BY <1>2, <1>3, <1>5 DEF SyncTypeOK, Goto, AfterFailure, hostVars
  <2>2. AgentInv(a)'
    BY <1>2, <1>3, <1>5 DEF SyncTypeOK, Goto, AfterFailure, AgentInv, Sound, hostVars
  <2>3. ASSUME NEW c \in Agents PROVE AgentInv(c)'
    BY <1>1, <1>2, <1>3, <1>5, <2>2, OthersKeep DEF SyncTypeOK, Goto, hostVars
  <2>4. QED
    BY <1>1, <1>4, <2>1, <2>3, EngineKeeps DEF SyncInv
<1>6. ASSUME NEW b \in Served, hand' = [hand EXCEPT ![a] = b], Goto(a, "save")
      PROVE SyncInv'
  <2>1. b \in Bundle /\ Sound(b) /\ b.at = audit.rows
    BY <1>2, ServedSound
  <2>2. SyncTypeOK'
    BY <1>2, <1>3, <1>6, <2>1 DEF SyncTypeOK, Goto, hostVars
  <2>3. hand'[a] = b /\ pc'[a] = "save"
    BY <1>2, <1>6 DEF SyncTypeOK, Goto
  <2>4. AgentInv(a)'
    BY <1>2, <1>3, <2>1, <2>3 DEF AgentInv, Sound, hostVars
  <2>5. ASSUME NEW c \in Agents PROVE AgentInv(c)'
    BY <1>1, <1>2, <1>3, <1>6, <2>4, OthersKeep DEF SyncTypeOK, Goto, hostVars
  <2>6. QED
    BY <1>1, <1>4, <2>2, <2>5, EngineKeeps DEF SyncInv
<1>7. QED
  BY <1>5, <1>6 DEF Fetch

\* Empty: the file of the host has no bundle, whoever wrote it.
LEMMA EmptyStep ==
  ASSUME SyncInv, NEW a \in Agents, Empty(a)
  PROVE  SyncInv'
<1>1. UNCHANGED engineVars
  BY DEF Empty
<1>2. SyncTypeOK /\ AgentInv(a) /\ Host[a] \in Hosts /\ audit' = audit
  BY <1>1, Before
<1>3. SyncTypeOK'
  BY <1>2 DEF Empty, Goto, SyncTypeOK
<1>4. /\ UNCHANGED <<heard, teller, saver, policy, hand, booting>> /\ pc[a] = "save"
      /\ pc'[a] = "write" /\ cache'[Host[a]] = Torn
      /\ \A h \in Hosts \ {Host[a]} : cache'[h] = cache[h]
      /\ \A c \in Agents \ {a} : pc'[c] = pc[c]
  BY <1>2 DEF Empty, Goto, SyncTypeOK
<1>5. AgentInv(a)'
  BY <1>2, <1>4 DEF AgentInv, Sound
<1>6. ASSUME NEW c \in Agents PROVE AgentInv(c)'
  BY <1>1, <1>4, <1>5, OthersKeep, SyncAssumption
<1>7. ASSUME NEW h \in Hosts PROVE HostInv(h)'
  BY <1>1, <1>2, <1>4, HostsKeep
<1>8. QED
  BY <1>1, <1>3, <1>6, <1>7, EngineKeeps DEF SyncInv

\* Save: the file of the host is this agent's, whoever wrote it before, or unreadable.
LEMMA SaveStep ==
  ASSUME SyncInv, NEW a \in Agents, Save(a)
  PROVE  SyncInv'
<1>1. UNCHANGED engineVars
  BY DEF Save
<1>2. SyncTypeOK /\ AgentInv(a) /\ Host[a] \in Hosts /\ audit' = audit
  BY <1>1, Before
<1>3. PICK b \in {hand[a], Torn} : cache' = [cache EXCEPT ![Host[a]] = b]
  BY DEF Save
<1>4. SyncTypeOK'
  <2>1. b \in Bundles \cup {Torn}
    BY <1>2, <1>3 DEF AgentInv, Sound
  <2>2. cache' \in [Hosts -> Bundle \cup {Local, Torn}]
    BY <1>2, <1>3, <2>1 DEF SyncTypeOK, Bundles
  <2>3. QED
    BY <1>2, <2>2 DEF Save, Goto, SyncTypeOK
<1>5. /\ UNCHANGED <<heard, teller, policy, hand, booting>> /\ pc[a] = "write"
      /\ cache'[Host[a]] = b /\ saver'[Host[a]] = a /\ pc'[a] = "apply"
      /\ \A h \in Hosts \ {Host[a]} : cache'[h] = cache[h] /\ saver'[h] = saver[h]
      /\ \A c \in Agents \ {a} : pc'[c] = pc[c]
  BY <1>2, <1>3 DEF Save, Goto, SyncTypeOK
<1>6. AgentInv(a)'
  BY <1>2, <1>5 DEF AgentInv, Sound
<1>7. ASSUME NEW c \in Agents PROVE AgentInv(c)'
  BY <1>1, <1>5, <1>6, OthersKeep, SyncAssumption
<1>8. ASSUME NEW h \in Hosts PROVE HostInv(h)'
  BY <1>1, <1>2, <1>5, HostsKeep DEF AgentInv
<1>9. QED
  BY <1>1, <1>4, <1>7, <1>8, EngineKeeps DEF SyncInv

LEMMA ApplyStep ==
  ASSUME SyncInv, NEW a \in Agents, Apply(a)
  PROVE  SyncInv'
<1>1. UNCHANGED engineVars
  BY DEF Apply
<1>2. SyncTypeOK /\ AgentInv(a) /\ EngineInv /\ audit' = audit
  BY <1>1, Before
<1>3. SyncTypeOK'
  BY <1>2 DEF Apply, Goto, SyncTypeOK, Bundle, Local, hostVars
<1>4. /\ UNCHANGED hostVars /\ pc[a] = "apply"
      /\ policy'[a] = hand[a] /\ hand'[a] = Local /\ pc'[a] = "idle" /\ booting'[a] = FALSE
      /\ \A c \in Agents \ {a} : /\ policy'[c] = policy[c] /\ hand'[c] = hand[c]
                                 /\ pc'[c] = pc[c] /\ booting'[c] = booting[c]
  BY <1>2 DEF Apply, Goto, SyncTypeOK
<1>5. hand[a].at \in Nat /\ Sound(Local)
  BY <1>2, BundleTimes, LocalSound DEF AgentInv, Sound, EngineInv
<1>6. AgentInv(a)'
  BY <1>2, <1>4, <1>5 DEF AgentInv, Sound, hostVars
<1>7. ASSUME NEW c \in Agents PROVE AgentInv(c)'
  BY <1>1, <1>4, <1>6, OthersKeep DEF hostVars
<1>8. ASSUME NEW h \in Hosts PROVE HostInv(h)'
  BY <1>1, <1>4, HostsKeep DEF hostVars
<1>9. QED
  BY <1>1, <1>3, <1>7, <1>8, EngineKeeps DEF SyncInv

\* Fallback: the file of the host, whichever agent wrote it, or nothing.
LEMMA FallbackStep ==
  ASSUME SyncInv, NEW a \in Agents, Fallback(a)
  PROVE  SyncInv'
<1>1. UNCHANGED engineVars
  BY DEF Fallback
<1>2. /\ SyncTypeOK /\ AgentInv(a) /\ HostInv(Host[a]) /\ Host[a] \in Hosts
      /\ EngineInv /\ audit' = audit
  BY <1>1, Before
<1>3. SyncTypeOK'
  BY <1>2 DEF Fallback, Goto, SyncTypeOK, hostVars
<1>4. /\ UNCHANGED <<hostVars, hand>> /\ pc'[a] = "idle" /\ booting'[a] = FALSE
      /\ \/ policy'[a] = Local
         \/ cache[Host[a]] # Torn /\ policy'[a] = cache[Host[a]]
      /\ \A c \in Agents \ {a} : /\ policy'[c] = policy[c]
                                 /\ pc'[c] = pc[c] /\ booting'[c] = booting[c]
  BY <1>2 DEF Fallback, Goto, SyncTypeOK
<1>5. /\ Sound(Local) /\ Local.at = 0
      /\ cache[Host[a]] # Torn => Sound(cache[Host[a]]) /\ cache[Host[a]].at \in Nat
  BY <1>2, BundleTimes, LocalSound DEF HostInv, Sound, EngineInv
<1>6. AgentInv(a)'
  BY <1>2, <1>4, <1>5 DEF AgentInv, Sound, hostVars
<1>7. ASSUME NEW c \in Agents PROVE AgentInv(c)'
  BY <1>1, <1>4, <1>6, OthersKeep DEF hostVars
<1>8. ASSUME NEW h \in Hosts PROVE HostInv(h)'
  BY <1>1, <1>4, HostsKeep DEF hostVars
<1>9. QED
  BY <1>1, <1>3, <1>7, <1>8, EngineKeeps DEF SyncInv

\* A failure or a kill: the report may have arrived, the cache file may be torn, the
\* bundle is gone.
LEMMA FaultStep ==
  ASSUME SyncInv, NEW a \in Agents, Fail(a) \/ Kill(a)
  PROVE  SyncInv'
<1>1. UNCHANGED engineVars
  BY DEF Fail, Kill
<1>2. /\ SyncTypeOK /\ AgentInv(a) /\ Host[a] \in Hosts
      /\ EngineInv /\ audit' = audit
  BY <1>1, Before
<1>3. /\ cache' \in [Hosts -> Bundles \cup {Torn}]
      /\ \A h \in Hosts : cache'[h] = cache[h] \/ cache'[h] = Torn
  BY <1>2 DEF Fail, Kill, Spoiled, SyncTypeOK, Bundles
<1>4. /\ heard' \in [Hosts -> Bundles] /\ teller' \in [Hosts -> Agents \cup {Nobody}]
      /\ \A h \in Hosts : \/ heard'[h] = heard[h] /\ teller'[h] = teller[h]
                          \/ heard'[h] = policy[a] /\ teller'[h] = a
  <2>1. CASE UNCHANGED <<heard, teller>>
    BY <1>2, <2>1 DEF SyncTypeOK, Bundles
  <2>2. CASE Hear(a)
    BY <1>2, <2>2 DEF Hear, SyncTypeOK, Bundles
  <2>3. QED
    BY <2>1, <2>2 DEF Fail, Kill
<1>5. SyncTypeOK'
  <2>1. faults' \in 0..MaxFaults
    BY <1>2, SyncAssumption DEF Fail, Kill, SyncTypeOK
  <2>2. CASE Fail(a)
    BY <1>2, <1>3, <1>4, <2>1, <2>2 DEF Fail, Goto, AfterFailure, SyncTypeOK, Bundles
  <2>3. CASE Kill(a)
    BY <1>2, <1>3, <1>4, <2>1, <2>3 DEF Kill, Goto, SyncTypeOK, Bundles
  <2>4. QED
    BY <2>2, <2>3
<1>6. /\ hand'[a] = Local /\ saver' = saver
      /\ \/ policy'[a] = policy[a] /\ booting'[a] = booting[a]
         \/ policy'[a] = Local
      /\ \/ pc'[a] \in {"idle", "fetch"}
         \/ pc'[a] = "fallback" /\ booting[a] /\ booting'[a]
  BY <1>2 DEF Fail, Kill, Goto, AfterFailure, SyncTypeOK
<1>7. \A c \in Agents \ {a} : /\ policy'[c] = policy[c] /\ pc'[c] = pc[c]
                              /\ hand'[c] = hand[c] /\ booting'[c] = booting[c]
  BY <1>2 DEF Fail, Kill, Goto, SyncTypeOK
<1>8. Sound(Local) /\ Local.at = 0 /\ \A b : Sound(b) => b.at \in Nat
  BY <1>2, BundleTimes, LocalSound DEF Sound, EngineInv
<1>9. HostInv(Host[a])
  BY <1>1, Before
<1>10. AgentInv(a)'
  BY <1>2, <1>3, <1>6, <1>8, <1>9 DEF AgentInv, HostInv, Sound
<1>11. ASSUME NEW c \in Agents PROVE AgentInv(c)'
  BY <1>1, <1>3, <1>4, <1>6, <1>7, <1>10, OthersKeep, SyncAssumption
<1>12. ASSUME NEW h \in Hosts PROVE HostInv(h)'
  BY <1>1, <1>2, <1>3, <1>4, HostsKeep DEF AgentInv
<1>13. QED
  BY <1>1, <1>5, <1>11, <1>12, EngineKeeps DEF SyncInv

LEMMA RestartStep == SyncInv /\ ServerRestart => SyncInv'
<1> SUFFICES ASSUME SyncInv, ServerRestart PROVE SyncInv'
  OBVIOUS
<1>1. UNCHANGED engineVars
  BY DEF ServerRestart
<1>2. SyncTypeOK /\ EngineInv /\ Sound(Local)
  BY LocalSound DEF SyncInv, EngineInv
<1>3. SyncTypeOK'
  BY <1>2, SyncAssumption DEF ServerRestart, SyncTypeOK, agentVars
<1>4. ASSUME NEW a \in Agents PROVE AgentInv(a)'
  BY <1>1, OthersKeep, SyncAssumption DEF ServerRestart, agentVars
<1>5. ASSUME NEW h \in Hosts PROVE HostInv(h)'
  BY <1>1, <1>2, HostsKeep DEF ServerRestart
<1>6. QED
  BY <1>1, <1>3, <1>4, <1>5, EngineKeeps DEF SyncInv

LEMMA NextSync == SyncInv /\ [SyncNext]_syncVars => SyncInv'
<1> SUFFICES ASSUME SyncInv, [SyncNext]_syncVars PROVE SyncInv'
  OBVIOUS
<1>1. CASE Next /\ UNCHANGED <<hostVars, agentVars, faults>>
  BY <1>1, ServerStep
<1>2. CASE UNCHANGED syncVars
  BY <1>2, ServerStep DEF syncVars
<1>3. ASSUME NEW a \in Agents, AgentStep(a) \/ Fail(a) \/ Kill(a) PROVE SyncInv'
  BY <1>3, TalkStep, BeatStep, FetchStep, EmptyStep, SaveStep, ApplyStep, FallbackStep,
          FaultStep DEF AgentStep
<1>4. QED
  BY <1>1, <1>2, <1>3, RestartStep DEF SyncNext

LEMMA SyncInvariant == SyncSpec => []SyncInv
<1>1. QED
  BY InitSync, NextSync, PTL DEF SyncSpec

-----------------------------------------------------------------------------
\* The server's memory, the agents and their cache files keep their types.
THEOREM SyncTypes == SyncSpec => []SyncTypeOK
<1>1. SyncInv => SyncTypeOK
  BY DEF SyncInv
<1>2. QED
  BY <1>1, SyncInvariant, PTL

\* Save-CachedDlpPolicyBundle before Apply-PolicyFromBundle: until another agent of the
\* host writes the file, a readable cache file is never older than the policy of the agent
\* that wrote it, for any agents on any hosts, any policies and failures.
THEOREM CacheIsCurrent == SyncSpec => []CacheNotOlder
<1>1. SyncInv => CacheNotOlder
  BY DEF SyncInv, AgentInv, CacheNotOlder
<1>2. QED
  BY <1>1, SyncInvariant, PTL

\* A step makes the policy of an agent older only by killing the agent.
LEMMA StepNotOlder ==
  ASSUME SyncInv, [SyncNext]_syncVars, NEW a \in Agents, policy'[a].at < policy[a].at
  PROVE  policy'[a] = Local /\ pc'[a] = "fetch"
<1>1. SyncTypeOK /\ AgentInv(a) /\ TypeOK
  BY DEF SyncInv, EngineInv
<1>2. policy[a].at \in Nat /\ Local.at = 0
  BY <1>1, BundleTimes, LocalSound DEF AgentInv, Sound
<1>3. policy'[a] # policy[a]
  BY <1>2
<1>4. PICK c \in Agents : Apply(c) \/ Fallback(c) \/ Kill(c)
  BY <1>3 DEF SyncNext, syncVars, agentVars, AgentStep, Fail, ServerRestart,
              Tick, Beat, Ask, Fetch, Empty, Save
<1>5. c = a
  BY <1>1, <1>3, <1>4 DEF Apply, Fallback, Kill, SyncTypeOK
<1>6. CASE Apply(a)
  BY <1>1, <1>2, <1>6, BundleTimes DEF Apply, SyncTypeOK, AgentInv, Sound
<1>7. CASE Fallback(a)
  <2>1. policy[a] = Local
    BY <1>1, <1>7 DEF Fallback, AgentInv
  <2>2. \/ policy'[a] = Local
        \/ cache[Host[a]] # Torn /\ policy'[a] = cache[Host[a]]
    BY <1>1, <1>7 DEF Fallback, SyncTypeOK
  <2>3. HostInv(Host[a])
    BY SyncAssumption DEF SyncInv
  <2>4. policy'[a].at \in Nat
    BY <1>2, <2>1, <2>2, <2>3, BundleTimes DEF HostInv, Sound
  <2>5. QED
    BY <1>2, <2>1, <2>4
<1>8. CASE Kill(a)
  BY <1>1, <1>8 DEF Kill, Goto, SyncTypeOK
<1>9. QED
  BY <1>4, <1>5, <1>6, <1>7, <1>8

\* While it runs an agent never goes back to an older policy, whatever the server did.
THEOREM PolicyNeverOlder == SyncSpec => NeverOlder
<1>1. SyncInv /\ [SyncNext]_syncVars
        => [\A a \in Agents : policy'[a].at < policy[a].at
              => policy'[a] = Local /\ pc'[a] = "fetch"]_syncVars
  BY StepNotOlder
<1>2. QED
  BY <1>1, SyncInvariant, PTL DEF SyncSpec, NeverOlder

\* When an agent asks and is sent away, its host has reported the document in force.
LEMMA SentAwayIsSame ==
  ASSUME SyncInv, [SyncNext]_syncVars, NEW a \in Agents,
         pc[a] = "ask", pc'[a] = "idle", faults' = faults, NEW b \in Served
  PROVE  /\ heard[Host[a]].doc = b.doc
         /\ teller[Host[a]] = a => policy[a].doc = b.doc
<1>1. SyncTypeOK /\ AgentInv(a) /\ EngineInv /\ HostInv(Host[a])
  BY SyncAssumption DEF SyncInv
<1>2. pc'[a] # pc[a] /\ faults \in Nat
  BY <1>1, SyncAssumption DEF SyncTypeOK
<1>3. PICK c \in Agents : AgentStep(c)
  BY <1>2 DEF SyncNext, syncVars, agentVars, Fail, Kill, ServerRestart
<1>4. c = a
  BY <1>1, <1>2, <1>3 DEF AgentStep, Tick, Beat, Ask, Fetch, Empty, Save, Apply, Fallback, Goto,
                          SyncTypeOK
<1>5. Ask(a)
  BY <1>3, <1>4 DEF AgentStep, Tick, Beat, Fetch, Empty, Save, Apply, Fallback
<1>6. PICK s \in Served : Goto(a, IF RefreshNow(Host[a], s) THEN "fetch" ELSE "idle")
  BY <1>5 DEF Ask
<1>7. s = b
  BY <1>1, OneServed
<1>8. ~RefreshNow(Host[a], b)
  BY <1>1, <1>6, <1>7 DEF Goto, SyncTypeOK
<1>9. heard[Host[a]].checksum = b.checksum
  BY <1>8 DEF RefreshNow
<1>10. Sound(b)
  BY <1>1, ServedSound
<1>11. heard[Host[a]].doc = b.doc
  BY <1>1, <1>9, <1>10 DEF HostInv, Sound
<1>12. QED
  BY <1>1, <1>11 DEF AgentInv

\* desired_policy compares a number and a checksum with the last report of the host: when
\* it says there is nothing to fetch, that report was of the very document in force, and
\* so is the policy of the agent that asks, unless another of its host reported last.
THEOREM UpToDateIsTrue == SyncSpec => UpToDateIsSame
<1>1. SyncInv /\ [SyncNext]_syncVars
        => [\A a \in Agents : pc[a] = "ask" /\ pc'[a] = "idle" /\ faults' = faults
              => \A b \in Served : /\ heard[Host[a]].doc = b.doc
                                   /\ teller[Host[a]] = a => policy[a].doc = b.doc]_syncVars
  BY SentAwayIsSame
<1>2. QED
  BY <1>1, SyncInvariant, PTL DEF SyncSpec, UpToDateIsSame

-----------------------------------------------------------------------------
(* The agents' heartbeats, questions and fetches, their deaths and the     *)
(* restarts of the server change no policy: with any agents around it the  *)
(* server is the engine of PolicyEngine, and all that is proved of that    *)
(* engine holds of it.                                                     *)
THEOREM AgentsChangeNoPolicy == SyncSpec => Spec
<1>1. SyncInit => Init
  BY DEF SyncInit
<1>2. [SyncNext]_syncVars => [Next]_engineVars
  <2> SUFFICES ASSUME [SyncNext]_syncVars PROVE [Next]_engineVars
    OBVIOUS
  <2>1. CASE UNCHANGED syncVars
    BY <2>1 DEF syncVars
  <2>2. ASSUME NEW a \in Agents, AgentStep(a) PROVE UNCHANGED engineVars
    BY <2>2 DEF AgentStep, Tick, Beat, Ask, Fetch, Empty, Save, Apply, Fallback
  <2>3. ASSUME NEW a \in Agents, Fail(a) \/ Kill(a) PROVE UNCHANGED engineVars
    BY <2>3 DEF Fail, Kill
  <2>4. CASE ServerRestart
    BY <2>4 DEF ServerRestart
  <2>5. QED
    BY <2>1, <2>2, <2>3, <2>4 DEF SyncNext
<1>3. QED
  BY <1>1, <1>2, PTL DEF SyncSpec, Spec

(* build_policy_bundle serves one document at most: whatever the agents do *)
(* and administrators change between two of their requests, two policies   *)
(* are never in force at once.                                             *)
THEOREM AgentsSeeOnePolicy == SyncSpec => []AtMostOneActive
<1>1. QED
  BY AgentsChangeNoPolicy, SingleActivePolicy, PTL
=============================================================================
