---- MODULE MCNetInterface ----
(***************************************************************************)
(* A small instance of NetInterface: two machines, a clientSum of two bits *)
(* so that it wraps around, and three users of Discord, two of one name.   *)
(***************************************************************************)
EXTENDS NetInterface, TLC

CONSTANTS ana, al, bo

MCTags == (ana :> [name |-> "a", dscrm |-> 2]) @@ (al :> [name |-> "a", dscrm |-> 1])
              @@ (bo :> [name |-> "b", dscrm |-> 1])

\* Bound: either Discord or the network is busy, the network only while there
\* is a core.
OneAtATime ==
    \/ relation = strangers /\ friends = {} /\ answer = NoOne /\ core
    \/ connected = {} /\ inbox \o requestPackets \o syncPackets \o freshConnections = << >>
====
