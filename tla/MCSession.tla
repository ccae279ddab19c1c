----------------------------- MODULE MCSession -----------------------------
(* Runs of Session with clients that play the same part. *)
EXTENDS Session, TLC

CONSTANTS SmallNet  \* bound: datagrams in flight at a time

Symmetry == Permutations(Clients \ Foreign)

NetBound == Cardinality(toServer) + Cardinality(toClient) <= SmallNet
=============================================================================
