----------------------------- MODULE SeatLease -----------------------------
(***************************************************************************)
(* What the host promises the players: a slot is leased to one client at a *)
(* time and a client has one slot at most; a slot passes from one client   *)
(* to another only by being free in between; and what a slot plays comes   *)
(* from the client that has it, and is forgotten with the lease.           *)
(***************************************************************************)
CONSTANTS Clients, Slots, Nobody

VARIABLES holder,  \* who has each slot
          source   \* whose input each slot plays

vars == <<holder, source>>

Init ==
  /\ holder = [s \in Slots |-> Nobody]
  /\ source = [s \in Slots |-> Nobody]

Grant(s, c) ==
  /\ holder[s] = Nobody
  /\ \A t \in Slots : holder[t] # c
  /\ holder' = [holder EXCEPT ![s] = c]
  /\ UNCHANGED source

Release(S) ==
  /\ holder' = [s \in Slots |-> IF s \in S THEN Nobody ELSE holder[s]]
  /\ source' = [s \in Slots |-> IF s \in S THEN Nobody ELSE source[s]]

Play(c) ==
  /\ source' = [s \in Slots |-> IF holder[s] = c THEN c ELSE source[s]]
  /\ UNCHANGED holder

Next ==
  \/ \E s \in Slots, c \in Clients : Grant(s, c)
  \/ \E S \in SUBSET Slots : Release(S)
  \/ \E c \in Clients : Play(c)

Spec == Init /\ [][Next]_vars
=============================================================================
