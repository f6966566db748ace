------------------------------ MODULE Delivery ------------------------------
(***************************************************************************)
(* What an offline spool promises its callers: a record it has accepted    *)
(* stays held until the server has it or it is parked for an operator.     *)
(* The server may receive a held record any number of times (at least once *)
(* delivery), never one that was let go.  Only a damaged medium takes a    *)
(* held record away.                                                       *)
(***************************************************************************)
CONSTANT Records

VARIABLES
  held,      (* accepted and still to be delivered          *)
  received,  (* at the server                               *)
  parked,    (* given up, kept for an operator              *)
  damaged    (* taken by the medium                         *)

vars == <<held, received, parked, damaged>>

TypeOK ==
  /\ held \in SUBSET Records
  /\ received \in SUBSET Records
  /\ parked \in SUBSET Records
  /\ damaged \in SUBSET Records

Init == held = {} /\ received = {} /\ parked = {} /\ damaged = {}

Fresh(r) == r \notin held \cup received \cup parked \cup damaged

Accept(r) ==
  /\ Fresh(r)
  /\ held' = held \cup {r}
  /\ UNCHANGED <<received, parked, damaged>>

Receive(r) ==
  /\ r \in held
  /\ received' = received \cup {r}
  /\ UNCHANGED <<held, parked, damaged>>

LetGo(r) ==
  /\ r \in held \cap received
  /\ held' = held \ {r}
  /\ UNCHANGED <<received, parked, damaged>>

Park(r) ==
  /\ r \in held
  /\ held' = held \ {r}
  /\ parked' = parked \cup {r}
  /\ UNCHANGED <<received, damaged>>

Damage(r) ==
  /\ r \in held
  /\ held' = held \ {r}
  /\ damaged' = damaged \cup {r}
  /\ UNCHANGED <<received, parked>>

Next == \E r \in Records :
  Accept(r) \/ Receive(r) \/ LetGo(r) \/ Park(r) \/ Damage(r)

Spec == Init /\ [][Next]_vars
=============================================================================
