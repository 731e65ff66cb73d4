----------------------------- MODULE XorRouting ------------------------------
(***************************************************************************)
(* Greedy routing (zona-p2p-overlay/src/routing/xor.rs): the next hop is   *)
(* the live peer closest to the target, when it is closer than the node.   *)
(***************************************************************************)
EXTENDS Slots

Alive(t) == {s \in t.slots : ~should_evict(s)}

\* The live peer closest to the target.
BestHop(target, t) ==
    (CHOOSE s \in Alive(t) : \A other \in Alive(t) :
        Distance[target][s.peer_id] <= Distance[target][other.peer_id]).peer_id

\* next_hop answers Forward(BestHop), or else LocalMinimum; Deliver is for the
\* target itself.
Forwards(self, target, t) ==
    /\ Alive(t) # {}
    /\ Distance[target][BestHop(target, t)] < Distance[target][self]

next_hop(self, target, t) ==
    IF self = target THEN "Deliver"
    ELSE IF Forwards(self, target, t) THEN "Forward" ELSE "LocalMinimum"
==============================================================================
