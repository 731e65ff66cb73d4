------------------------------- MODULE MCNodes --------------------------------
(***************************************************************************)
(* The HTTP API of the nodes for TLC: POST /api/introduce and              *)
(* POST /api/relay.  A behaviour is of one of two kinds:                   *)
(*                                                                         *)
(* "start-up": nodes introduce themselves (Introductions).  Node 0 has no  *)
(* seed, 1 and 2 name each other, 2 names node 0 first, and 1 can learn of *)
(* node 0 only from 2.                                                     *)
(*                                                                         *)
(* "relay": a message to node 0 (Relay), under every combination of peers  *)
(* that the other nodes may know; node 2 has heard of itself.  The tables  *)
(* are what start-up leaves of the known peers (KeepsClosest).  When a     *)
(* client sends, two trees of calls may go on at once, and the third node  *)
(* knows the destination or nobody.                                        *)
(***************************************************************************)
EXTENDS Introductions, Relay, Bitwise

CONSTANT MaxId       \* identities are 0..MaxId

VARIABLE checks      \* "start-up" or "relay"

MCNodeId == 0..MaxId
MCDistance == [a \in MCNodeId |-> [b \in MCNodeId |-> a ^^ b]]

MCSeeds == [n \in MCNodeId |-> CASE n = 0 -> << >>
                                 [] n = 1 -> <<2>>
                                 [] n = 2 -> <<0, 1>>
                                 [] n > 2 -> <<1>>]

MCKnowledge ==
    {k \in [MCNodeId -> SUBSET MCNodeId] :
        k[0] = {} /\ \A n \in MCNodeId : n \in k[n] <=> n = 2}

\* A client, which is not a node, with two first hops; a server behind its first
\* hop; a node asked to send, which is its own first hop.
Originator(what, id, first_hops) == [kind |-> what, id |-> id, hops |-> first_hops]
MCOrigins ==
    {Originator("client", MaxId + 1, <<1, 2>>), Originator("server", 3, <<2>>)}
        \cup {Originator("node", n, <<n>>) : n \in MCNodeId \ {0}}

allVars == <<introVars, relayVars, checks>>

MCInit ==
    /\ checks \in {"start-up", "relay"}
    /\ IntroInit /\ RelayInit
    /\ checks = "start-up" => kind = "server" /\ \A n \in NodeId : urls[n] \subseteq {n}
    /\ kind = "client" => urls[3] \subseteq {Dest}

StartUpStep(n) == checks = "start-up" /\ Step(n) /\ UNCHANGED <<relayVars, checks>>
RelayStep == checks = "relay" /\ Progress /\ UNCHANGED <<introVars, checks>>

MCNext ==
    \/ checks = "start-up" /\ IntroNext /\ UNCHANGED <<relayVars, checks>>
    \/ checks = "relay" /\ RelayNext /\ UNCHANGED <<introVars, checks>>

\* The fairness of IntroFairSpec and of RelayFairSpec.
MCSpec ==
    /\ MCInit /\ [][MCNext]_allVars
    /\ \A n \in NodeId : WF_allVars(StartUpStep(n))
    /\ WF_allVars(RelayStep)

-----------------------------------------------------------------------------
\* Every node ends up listening, though nodes that name each other as seeds refuse
\* each other's introductions until they do.
EveryNodeListens == checks = "start-up" => EventuallyListens

\* Every message is answered unless a node or a server waits on an exchange that hangs.
EveryMessageAnswered == checks = "relay" => EventuallyAnswered
===============================================================================
