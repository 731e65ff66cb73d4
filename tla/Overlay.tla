------------------------------- MODULE Overlay --------------------------------
(***************************************************************************)
(* Overlay nodes (zona-p2p-node/src/node.rs) that exchange envelopes over  *)
(* the simulator's network (zona-p2p-sim/src/lib.rs): one queue, from      *)
(* whose front a message is handled, lost, or discarded.  One action per   *)
(* kind of message, one per call that puts messages into the queue.        *)
(*                                                                         *)
(* A message [from, at, signed, body] is an envelope between two           *)
(* neighbours.  Its address envelope.to is body.to of user data; that of   *)
(* every other kind is `at' and is never read.  Nodes are honest, so a     *)
(* signature by a known key verifies.  Message ids are kept for critical   *)
(* messages only: those of one node grow, with gaps that its other         *)
(* messages leave.                                                         *)
(***************************************************************************)
EXTENDS CriticalRouting, DescriptorStore, SequencesExt

CONSTANTS
    Links,          \* who may know whom at the start: sets of pairs of nodes
    Announced,      \* descriptors that their owners announce
    RepairTargets,  \* RepairTargets[n]: repair_targets and long_jump_target
    Payloads,       \* contents of critical messages
    MaxFind,        \* max_per_window of FIND_NODE and of invitations
    Ttls,           \* ttl of the user data handed to a node
    Channels,       \* pairs of nodes that the simulation's user makes talk
    Dests,          \* destinations of the user's messages
    Targets,        \* targets of the FIND_NODEs that the user sends
    MaxInputs,      \* bound on the calls from outside
    MaxLosses,      \* bound on lost messages
    MaxMessageId    \* bound on message ids

ASSUME OverlayAssumption ==
    /\ IsFiniteSet(NodeId)
    /\ Links \subseteq SUBSET SUBSET NodeId /\ Channels \subseteq NodeId \X NodeId
    /\ Announced \subseteq Descriptor(NodeId)
    /\ RepairTargets \in [NodeId -> NodeId \X NodeId \X NodeId]
    /\ Dests \subseteq NodeId /\ Targets \subseteq NodeId
    /\ MaxFind \in Nat \ {0} /\ Ttls \subseteq Nat
    /\ MaxInputs \in Nat /\ MaxLosses \in Nat /\ MaxMessageId \in Nat

VARIABLES
    nodes,          \* the nodes that are in the simulation
    queue,          \* messages in flight
    table, store,   \* Node.table, Node.store
    quorum,         \* Node.quorum.pending
    limits,         \* limits[n][op][p]: operations of p in n's current window
    msg_counter,    \* msg_counter[n]: the last id that n gave a critical message
    inputs, losses, \* how many so far
    \* history, read by properties only:
    heard,          \* heard[n]: the valid descriptors that n was given
    introduced,     \* pairs that were introduced
    delivered,      \* pairs of the node that took user data and its destination
    copied_by,      \* copied_by[n][id]: senders of the copies of id that n counts
    accepted        \* acceptances: [at, message_id, from], from the copies' senders

nodeVars == <<table, store, heard>>
quorumVars == <<quorum, copied_by, accepted>>
netVars == <<nodes, losses, introduced>>
vars == <<nodeVars, quorumVars, netVars, queue, limits, msg_counter, inputs,
          delivered>>

MessageId == 1..MaxMessageId

own_descriptor(n) == [node_id |-> n, version |-> 1, content |-> 1, valid |-> TRUE]

Init ==
    /\ \E links \in Links :
          LET known(n) == {p \in NodeId : {n, p} \in links}
          IN  /\ table = [n \in NodeId |-> [NewTable EXCEPT !.slots =
                             {NewEntry("Greedy", p, p) : p \in known(n)}]]
              /\ store = [n \in NodeId |->
                             {Cached(own_descriptor(p), None) : p \in known(n)}]
    /\ heard = store
    /\ nodes = NodeId
    /\ queue = << >>
    /\ quorum = [n \in NodeId |-> {}]
    /\ limits = [n \in NodeId |->
                    [op \in {"find", "invite"} |-> [p \in NodeId |-> 0]]]
    /\ msg_counter = [n \in NodeId |-> 0]
    /\ inputs = 0 /\ losses = 0
    /\ introduced = {} /\ delivered = {}
    /\ copied_by = [n \in NodeId |-> [id \in MessageId |-> {}]]
    /\ accepted = {}

-----------------------------------------------------------------------------
(***************************************************************************)
(* Bodies and messages.                                                    *)
(***************************************************************************)
Hello(d) == [kind |-> "Hello", descriptor |-> d]
FindNode(target) == [kind |-> "FindNode", target |-> target]
Plain(kind) == [kind |-> kind]
UserData(to, dest, ttl) ==
    [kind |-> "UserData", to |-> to, dest |-> dest, ttl |-> ttl, critical |-> FALSE]
Critical(to, dest, id, payload) ==
    [kind |-> "UserData", to |-> to, dest |-> dest, ttl |-> 20, critical |-> TRUE,
     message_id |-> id, payload |-> payload]

\* PexCandidate, in the answers to FIND_NODE and in peer exchanges.
Candidates == [descriptor : Descriptor(NodeId), referrer : NodeId]

Body ==
    [kind : {"Hello", "AnnounceDescriptor"}, descriptor : Descriptor(NodeId)]
        \cup [kind : {"FindNode"}, target : NodeId]
        \cup [kind : {"FoundNodes"}, peers : {c \in Seq(Candidates) : Len(c) <= 3}]
        \cup [kind : {"Pex"}, candidates : Seq(Candidates)]
        \cup [kind : {"Ping", "Pong", "Invite"}]
        \cup [kind : {"UserData"}, to : NodeId, dest : NodeId, ttl : Nat,
              critical : {FALSE}]
        \cup [kind : {"UserData"}, to : NodeId, dest : NodeId, ttl : Nat,
              critical : {TRUE}, message_id : MessageId, payload : Payloads]

Message == [from : NodeId, at : NodeId, signed : BOOLEAN, body : Body]

Unsigned(from, at, body) == [from |-> from, at |-> at, signed |-> FALSE, body |-> body]
Signed(from, at, body) == [from |-> from, at |-> at, signed |-> TRUE, body |-> body]

msg == Head(queue)
body == msg.body

\* handle_envelope takes unsigned messages; a signed one needs the sender's
\* descriptor, unless it is a Hello.
Accepts(m) ==
    ~m.signed \/ Of(store[m.at], m.from) # {} \/ m.body.kind = "Hello"

\* A message of this kind is at the front of the queue, its receiver exists and
\* takes it.
Arrives(kind) ==
    /\ queue # << >>
    /\ msg.at \in nodes
    /\ Accepts(msg)
    /\ body.kind = kind

Sends(out) == queue' = Tail(queue) \o out
Reply(b) == Sends(<<Signed(msg.at, msg.from, b)>>)

\* Mutant: one operation too many.
ConsumeOneMore(count) ==
    {[count |-> 1, ok |-> TRUE]} \cup
        (IF count <= MaxFind THEN {[count |-> count + 1, ok |-> TRUE]}
                             ELSE {[count |-> count, ok |-> FALSE]})

\* The outcomes of try_consume on a bucket: the count, and whether the
\* operation is allowed.  Its window may or may not be over.
try_consume(count) ==
    {[count |-> 1, ok |-> TRUE]} \cup
        (IF count < MaxFind THEN {[count |-> count + 1, ok |-> TRUE]}
                            ELSE {[count |-> count, ok |-> FALSE]})

\* Hearing d: the store merges it, if it is valid.
Upsert(n, d, h) ==
    /\ store' = [store EXCEPT ![n] = upsert(@, d, h)]
    /\ heard' = [heard EXCEPT ![n] = IF d.valid THEN @ \cup {Cached(d, h)} ELSE @]

-----------------------------------------------------------------------------
(***************************************************************************)
(* handle_envelope, one action per kind of message.                        *)
(***************************************************************************)

\* Mutant: no Hello in return.
HelloUnanswered ==
    /\ Arrives("Hello")
    /\ Upsert(msg.at, body.descriptor, None)
    /\ table' = [table EXCEPT ![msg.at] =
          IF body.descriptor.valid
            THEN try_insert(msg.at, @, NewEntry("Greedy", msg.from, msg.from))
            ELSE @]
    /\ Sends(<< >>)
    /\ UNCHANGED <<quorumVars, netVars, limits, msg_counter, inputs, delivered>>

hello ==
    /\ Arrives("Hello")
    /\ Upsert(msg.at, body.descriptor, None)
    /\ table' = [table EXCEPT ![msg.at] =
          IF body.descriptor.valid
            THEN try_insert(msg.at, @, NewEntry("Greedy", msg.from, msg.from))
            ELSE @]
    /\ Reply(Hello(own_descriptor(msg.at)))
    /\ UNCHANGED <<quorumVars, netVars, limits, msg_counter, inputs, delivered>>

ping ==
    /\ Arrives("Ping")
    /\ Reply(Plain("Pong"))
    /\ UNCHANGED <<nodeVars, quorumVars, netVars, limits, msg_counter, inputs,
                   delivered>>

pong ==
    /\ Arrives("Pong")
    /\ LET hit == {s \in table[msg.at].slots : s.peer_id = msg.from}
       IN  \E probed \in {f \in [hit -> SlotEntry] : \A s \in hit :
                             \E loss \in record_probe(s.ewma_loss, TRUE) :
                                 f[s] = [s EXCEPT !.ewma_loss = loss]} :
               table' = [table EXCEPT ![msg.at].slots =
                            (@ \ hit) \cup {probed[s] : s \in hit}]
    /\ Sends(<< >>)
    /\ UNCHANGED <<store, heard, quorumVars, netVars, limits, msg_counter, inputs,
                   delivered>>

\* closest_peers: the three live peers that are closest to the target.  Every
\* FIND_NODE asks for three.
closest_peers(target, t) ==
    LET live == {s.peer_id : s \in Alive(t)}
    IN  {p \in live :
            Cardinality({q \in live : Distance[target][q] < Distance[target][p]}) < 3}

\* Those of a set of peers whose descriptor n holds.
Described(n, peers) == {p \in peers : Of(store[n], p) # {}}

\* A list of such peers, recommended by n.
Recommended(n, list) ==
    [i \in DOMAIN list |->
        [descriptor |-> (CHOOSE e \in Of(store[n], list[i]) : TRUE).descriptor,
         referrer |-> n]]

\* The answer names the closest peer first.
find_node ==
    /\ Arrives("FindNode")
    /\ \E bucket \in try_consume(limits[msg.at]["find"][msg.from]) :
          /\ limits' = [limits EXCEPT ![msg.at]["find"][msg.from] = bucket.count]
          /\ \/ ~bucket.ok /\ Sends(<< >>)
             \/ /\ bucket.ok
                /\ \E list \in Listings(Described(msg.at,
                                   closest_peers(body.target, table[msg.at]))) :
                      /\ \A i, j \in DOMAIN list : i < j =>
                            Distance[body.target][list[i]] < Distance[body.target][list[j]]
                      /\ Reply([kind |-> "FoundNodes",
                                peers |-> Recommended(msg.at, list)])
    /\ UNCHANGED <<nodeVars, quorumVars, netVars, msg_counter, inputs, delivered>>

\* The i-th candidate of an answer is offered to the table and stored.
OfferAt(n, t, list, i) ==
    IF i \in DOMAIN list
      THEN try_insert(n, t, NewEntry("Greedy", list[i].descriptor.node_id,
                                     list[i].referrer))
      ELSE t

UpsertAt(entries, list, i) ==
    IF i \in DOMAIN list THEN upsert(entries, list[i].descriptor, None) ELSE entries

\* Every candidate, the node itself included; there are at most three.
found_nodes ==
    LET n == msg.at  list == body.peers
    IN  /\ Arrives("FoundNodes")
        /\ table' = [table EXCEPT ![n] =
              OfferAt(n, OfferAt(n, OfferAt(n, @, list, 1), list, 2), list, 3)]
        /\ store' = [store EXCEPT ![n] =
              UpsertAt(UpsertAt(UpsertAt(@, list, 1), list, 2), list, 3)]
        /\ heard' = [heard EXCEPT ![n] = @ \cup
              {Cached(c.descriptor, None) :
                  c \in {x \in ToSet(list) : x.descriptor.valid}}]
        /\ Sends(<< >>)
        /\ UNCHANGED <<quorumVars, netVars, limits, msg_counter, inputs, delivered>>

\* Peer exchange does not store the candidates' descriptors.
pex ==
    /\ Arrives("Pex")
    /\ table' = [table EXCEPT ![msg.at] =
          apply_candidates(msg.at, @,
              [i \in DOMAIN body.candidates |->
                  [peer |-> body.candidates[i].descriptor.node_id,
                   referrer |-> body.candidates[i].referrer]])]
    /\ Sends(<< >>)
    /\ UNCHANGED <<store, heard, quorumVars, netVars, limits, msg_counter, inputs,
                   delivered>>

announce_descriptor ==
    /\ Arrives("AnnounceDescriptor")
    /\ Upsert(msg.at, body.descriptor, None)
    /\ Sends(<< >>)
    /\ UNCHANGED <<table, quorumVars, netVars, limits, msg_counter, inputs, delivered>>

Deliver == delivered' = delivered \cup {[at |-> msg.at, dest |-> body.dest]}

user_data_delivered ==
    /\ Arrives("UserData")
    /\ body.to = msg.at
    /\ ~body.critical
    /\ Deliver
    /\ Sends(<< >>)
    /\ UNCHANGED <<nodeVars, quorumVars, netVars, limits, msg_counter, inputs>>

user_data_critical ==
    LET n == msg.at  id == body.message_id
        senders == copied_by[n][id] \cup {msg.from}
    IN  /\ Arrives("UserData")
        /\ body.to = n
        /\ body.critical
        /\ quorum' = [quorum EXCEPT ![n] = record(@, id, body.payload)]
        /\ \/ /\ QuorumResult(quorum[n], id, body.payload) = "Accepted"
              /\ Deliver
              /\ accepted' = accepted \cup
                    {[at |-> n, message_id |-> id, from |-> senders]}
              /\ copied_by' = [copied_by EXCEPT ![n][id] = {}]
           \/ /\ QuorumResult(quorum[n], id, body.payload) # "Accepted"
              /\ copied_by' = [copied_by EXCEPT ![n][id] = senders]
              /\ UNCHANGED <<accepted, delivered>>
        /\ Sends(<< >>)
        /\ UNCHANGED <<nodeVars, netVars, limits, msg_counter, inputs>>

\* send_user_hop: the hop becomes the address; an exhausted ttl ends the message.
send_user_hop(next) ==
    IF body.ttl <= 1 THEN << >>
    ELSE <<Signed(msg.at, next, [body EXCEPT !.ttl = @ - 1, !.to = next])>>

\* The messages of one FIND_NODE toward the target: to the greedy hop, or else
\* to the first slot.
Find(n, target, first) ==
    <<Signed(n, IF next_hop(n, target, table[n]) = "Forward"
                  THEN BestHop(target, table[n]) ELSE first,
             FindNode(target))>>

\* What emit_find_node_repair may send: nothing when there is no slot.
Finds(n, target) ==
    IF all_peers(table[n]) = {} THEN {<< >>}
    ELSE {Find(n, target, first) : first \in all_peers(table[n])}

forward_user_data ==
    LET n == msg.at
        jump == {s.peer_id : s \in OfKind(table[n], "LongJump")} \ {n}
    IN  /\ Arrives("UserData")
        /\ body.to # n
        /\ \/ /\ next_hop(n, body.to, table[n]) = "Forward"
              /\ Sends(send_user_hop(BestHop(body.to, table[n])))
           \/ /\ next_hop(n, body.to, table[n]) = "LocalMinimum"
              /\ \E find \in Finds(n, body.to) :
                    \/ /\ jump = {}
                       /\ Sends(find)
                    \/ \E l \in jump : Sends(send_user_hop(l) \o find)
        /\ UNCHANGED <<nodeVars, quorumVars, netVars, limits, msg_counter, inputs,
                       delivered>>

invite ==
    /\ Arrives("Invite")
    /\ \E bucket \in try_consume(limits[msg.at]["invite"][msg.from]) :
          limits' = [limits EXCEPT ![msg.at]["invite"][msg.from] = bucket.count]
    /\ Sends(<< >>)
    /\ UNCHANGED <<nodeVars, quorumVars, netVars, msg_counter, inputs, delivered>>

Handle ==
    \/ hello \/ ping \/ pong \/ find_node \/ found_nodes \/ pex
    \/ announce_descriptor \/ user_data_delivered \/ user_data_critical
    \/ forward_user_data \/ invite

-----------------------------------------------------------------------------
(***************************************************************************)
(* The simulator's network.                                                *)
(***************************************************************************)

\* The receiver is gone, or drops the message.
discard ==
    /\ queue # << >>
    /\ msg.at \notin nodes \/ ~Accepts(msg)
    /\ Sends(<< >>)
    /\ UNCHANGED <<nodeVars, quorumVars, netVars, limits, msg_counter, inputs,
                   delivered>>

step == Handle \/ discard

\* A random drop, or a partition.
lose ==
    /\ queue # << >>
    /\ losses < MaxLosses
    /\ losses' = losses + 1
    /\ Sends(<< >>)
    /\ UNCHANGED <<nodeVars, quorumVars, nodes, introduced, limits, msg_counter,
                   inputs, delivered>>

Input == inputs < MaxInputs /\ inputs' = inputs + 1
Enqueue(out) == queue' = queue \o out

introduce(a, b) ==
    /\ Input
    /\ Enqueue(<<Unsigned(a, b, Hello(own_descriptor(a))),
                 Unsigned(b, a, Hello(own_descriptor(b)))>>)
    /\ introduced' = introduced \cup {{a, b}}
    /\ UNCHANGED <<nodeVars, quorumVars, nodes, losses, limits, msg_counter, delivered>>

\* What a node may offer in a peer exchange, for some order of its slots:
\* PexManager::build_response.
build_response(n) ==
    LET live == {s.peer_id : s \in Alive(table[n])}
        q == IF Cardinality(live) < PEX_Q THEN Cardinality(live) ELSE PEX_Q
    IN  {Recommended(n, list) : list \in UNION {Listings(Described(n, peers)) :
            peers \in {x \in SUBSET live : Cardinality(x) = q}}}

Bodies(from, to) ==
    {Plain("Ping"), Plain("Invite"), UserData(to, to, 20)}
        \cup {FindNode(t) : t \in Targets}
        \cup {[kind |-> "AnnounceDescriptor", descriptor |-> d] :
                 d \in {x \in Announced : x.node_id = from}}
        \cup {[kind |-> "Pex", candidates |-> c] : c \in build_response(from)}

enqueue(from, to) ==
    /\ Input
    /\ \E b \in Bodies(from, to) : Enqueue(<<Unsigned(from, to, b)>>)
    /\ UNCHANGED <<nodeVars, quorumVars, netVars, limits, msg_counter, delivered>>

\* Node n is handed user data for another node: every sender above addresses
\* the receiver itself, so only a caller of handle_envelope makes a node relay.
relay_user_data(n, dest) ==
    /\ Input
    /\ \E ttl \in Ttls : Enqueue(<<Unsigned(n, n, UserData(dest, dest, ttl))>>)
    /\ UNCHANGED <<nodeVars, quorumVars, netVars, limits, msg_counter, delivered>>

\* send_critical: a copy to each of two hops, or one copy to some slot.
send_critical(n, dest, payload) ==
    /\ Input
    /\ \E id \in (msg_counter[n] + 1)..MaxMessageId :
          LET copy(hop) == Signed(n, hop, Critical(hop, dest, id, payload))
          IN  /\ msg_counter' = [msg_counter EXCEPT ![n] = id]
              /\ \/ \E hops \in pick_fork_hops(table[n]) :
                       Enqueue(<<copy(hops[1]), copy(hops[2])>>)
                 \/ /\ pick_fork_hops(table[n]) = {}
                    /\ \E hop \in all_peers(table[n]) : Enqueue(<<copy(hop)>>)
    /\ UNCHANGED <<nodeVars, quorumVars, netVars, limits, delivered>>

\* Two repair targets, and a third toward a long jump while there is none; a node
\* with an empty table sends nothing.
repair_tick(n) ==
    /\ Input
    /\ \E first \in all_peers(table[n]) :
          Enqueue(Find(n, RepairTargets[n][1], first)
                  \o Find(n, RepairTargets[n][2], first)
                  \o (IF OfKind(table[n], "LongJump") = {}
                        THEN <<Signed(n, first, FindNode(RepairTargets[n][3]))>>
                        ELSE << >>))
    /\ UNCHANGED <<nodeVars, quorumVars, netVars, limits, msg_counter, delivered>>

\* The owner of a node fills its L-slot (no handler does).
insert_long_jump(n, p) ==
    /\ Input
    /\ table' = [table EXCEPT ![n] = try_insert(n, @, NewEntry("LongJump", p, p))]
    /\ UNCHANGED <<store, heard, quorumVars, netVars, queue, limits, msg_counter,
                   delivered>>

\* A descriptor is confirmed at a finalised height.
confirm(n, d, h) ==
    /\ Input
    /\ Upsert(n, d, h)
    /\ UNCHANGED <<table, quorumVars, netVars, queue, limits, msg_counter, delivered>>

\* QuorumTracker::clear.
clear(n) ==
    /\ Input
    /\ quorum' = [quorum EXCEPT ![n] = {}]
    /\ copied_by' = [copied_by EXCEPT ![n] = [id \in MessageId |-> {}]]
    /\ UNCHANGED <<nodeVars, accepted, netVars, queue, limits, msg_counter, delivered>>

kill_node(n) ==
    /\ Input
    /\ nodes' = nodes \ {n}
    /\ UNCHANGED <<nodeVars, quorumVars, queue, losses, introduced, limits,
                   msg_counter, delivered>>

Next ==
    \/ step
    \/ lose
    \/ \E a, b \in nodes : <<a, b>> \in Channels /\ (introduce(a, b) \/ enqueue(a, b))
    \/ \E n \in nodes : \E dest \in Dests \ {n} :
          \/ relay_user_data(n, dest)
          \/ \E payload \in Payloads : send_critical(n, dest, payload)
    \/ \E n \in nodes : \E p \in NodeId \ {n} : insert_long_jump(n, p)
    \/ \E n \in nodes, d \in Announced, h \in 0..1 : n # d.node_id /\ confirm(n, d, h)
    \/ \E n \in nodes : repair_tick(n) \/ clear(n) \/ kill_node(n)

Spec == Init /\ [][Next]_vars

\* The simulator handles what is queued, in order.
FairSpec == Spec /\ WF_vars(step)

-----------------------------------------------------------------------------
(***************************************************************************)
(* Properties.                                                             *)
(***************************************************************************)

\* Messages, tables, stores, trackers and rate windows keep their types and
\* bounds: an answer to FIND_NODE names at most the three peers it was asked for,
\* and a tracker never keeps a message of which it has two copies.
TypeOK ==
    /\ nodes \subseteq NodeId
    /\ queue \in Seq(Message)
    /\ table \in [NodeId -> TableType]
    /\ \A n \in NodeId :
          /\ \A e \in store[n] : e \in CachedDescriptor(NodeId)
          /\ \A e \in quorum[n] : e.matches \in 0..1 /\ e.message_id \in MessageId
          /\ \A op \in {"find", "invite"}, p \in NodeId :
                limits[n][op][p] \in 0..MaxFind
    /\ msg_counter \in [NodeId -> 0..MaxMessageId]
    /\ inputs \in 0..MaxInputs /\ losses \in 0..MaxLosses

\* The store of a node is a function of the set of descriptors it was given by
\* Hello, announcements, answers and confirmations, not of their order: for
\* each identity it holds the one that the merge rules prefer to all others.
StoreIsBest ==
    \A n \in NodeId : store[n] =
        {e \in heard[n] : \A other \in Of(heard[n], e.descriptor.node_id) :
            other = e \/ prefer_incoming(e, other)}

\* Introduced nodes come to hold each other's descriptor although a message may
\* be lost: the Hello that arrives is answered by the one that was lost.
IntroductionSurvivesLoss ==
    \A pair \in Channels :
        LET a == pair[1]  b == pair[2]
        IN  {a, b} \in introduced
                ~> (\/ ~({a, b} \subseteq nodes)
                    \/ Of(store[a], b) # {} /\ Of(store[b], a) # {})

\* `User payload - delivered to the final destination' (messages.rs): but every
\* hop is written into the address, so the first one takes the message for its
\* own.
DeliveredAtDestination == \A d \in delivered : d.at = d.dest

\* `accept on >= 2 matching independent copies' (critical.rs) of one message, which
\* its sender forked: but the tracker tells messages apart by message_id alone, a
\* number that every node counts for itself, so copies of two senders are matched.
AcceptedFromOneSender == \A a \in accepted : \E sender \in NodeId : a.from = {sender}
==============================================================================
