------------------------------ MODULE MCOverlay -------------------------------
(***************************************************************************)
(* The overlay for TLC.  Identities are small numbers and the distance is  *)
(* their bitwise exclusive or.  A behaviour is of one of two kinds:        *)
(*                                                                         *)
(* "table": one table under every sequence of calls (PeerTable).  The peer *)
(* lists have three candidates of one referrer, of two, one that names the *)
(* table's owner, and one list longer than PEX_Q.                          *)
(*                                                                         *)
(* "messages": nodes on the simulator's network (Overlay).  Nobody knows   *)
(* anybody, or all but node MaxId know each other; who talks to whom is a  *)
(* ring without node MaxId, of which others hear as a long jump only.      *)
(***************************************************************************)
EXTENDS PeerTable, Overlay, Bitwise

CONSTANT MaxId       \* identities are 0..MaxId

VARIABLE checks      \* "table" or "messages"

MCNodeId == 0..MaxId
MCDistance == [a \in MCNodeId |-> [b \in MCNodeId |-> a ^^ b]]

C(p, r) == [peer |-> p, referrer |-> r]
MCPexLists ==
    {<<C(3, 1), C(2, 1), C(1, 1)>>,
     <<C(3, 2), C(0, 1), C(1, 1)>>,
     <<C(2, 2), C(3, 1), C(0, 2), C(1, 2)>>}

MCMesh == {{a, b} : a, b \in 0..(MaxId - 1)} \ {{a} : a \in MCNodeId}
MCLinks == {{}, MCMesh}
MCChannels == {<<n, (n + 1) % MaxId>> : n \in 0..(MaxId - 1)}
MCRepairTargets == [n \in MCNodeId |-> <<n, 0, 2>>]

D(n, version, content, valid) ==
    [node_id |-> n, version |-> version, content |-> content, valid |-> valid]
\* A newer version, the version every node says Hello with but a lower hash, and
\* one that does not verify.
MCAnnounced == {D(0, 2, 2, TRUE), D(0, 1, 0, TRUE), D(0, 3, 0, FALSE)}

allVars == <<tableVars, vars, checks>>

MCInit ==
    /\ checks \in {"table", "messages"}
    /\ TableInit /\ Init
    /\ checks = "table" => \A n \in NodeId : store[n] = {}

NetworkStep == checks = "messages" /\ step /\ UNCHANGED <<tableVars, checks>>

MCNext ==
    \/ checks = "table" /\ TableNext /\ UNCHANGED <<vars, checks>>
    \/ checks = "messages" /\ Next /\ UNCHANGED <<tableVars, checks>>

\* The fairness of Overlay's FairSpec.
MCSpec == MCInit /\ [][MCNext]_allVars /\ WF_allVars(NetworkStep)
===============================================================================
