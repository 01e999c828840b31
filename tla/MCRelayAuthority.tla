-------------------------- MODULE MCRelayAuthority --------------------------
(* Instances of RelayAuthority for TLC. *)
EXTENDS RelayAuthority, TLC

\* A call and its retry, another call of the same player and one of a second
\* player: three keys, for a cache of two.
MCPlayerOf == <<"p1", "p1", "p1", "p2">>
MCKeyOf == <<"k1", "k1", "k2", "k3">>
MCPrintOf == <<"a", "a", "a", "a">>

\* A call and its retry, the same key sent with another payload, and a call of a
\* second player.
MCRetryPlayerOf == <<"p1", "p1", "p1", "p2">>
MCRetryKeyOf == <<"k1", "k1", "k1", "k2">>
MCRetryPrintOf == <<"a", "a", "b", "a">>

MCWorkerSymmetry == Permutations(Workers)
=============================================================================
