-------------------------------- MODULE Relay --------------------------------
(***************************************************************************)
(* One message on its way through POST /api/relay (do_relay of             *)
(* zona-p2p-node/src/admin.rs and of zona-p2p-server/src/server.rs).  A    *)
(* node answers its caller only after the node it relays to has answered,  *)
(* so a message is a tree of open calls; a call is named by its route, the *)
(* nodes from the first hop to the callee.  A connection may break: the    *)
(* caller goes on as if the callee had failed, and the callee, which does  *)
(* not know, goes on too.  An exchange may also hang, and then its caller  *)
(* waits: only a client has a time-out, which is a break to it.            *)
(*                                                                         *)
(* The originator is a client that knows some nodes (relay_sync of         *)
(* zona-curl), a NodeServer (send_and_wait) or a node asked through        *)
(* POST /api/send, which is its own first hop, without a connection.       *)
(* Routing tables do not change while the message travels.                 *)
(***************************************************************************)
EXTENDS XorRouting, Sequences, SequencesExt

CONSTANTS
    Dest,        \* the destination
    Origins,     \* originators: a kind, an identity and a list of first hops
    Knowledge,   \* the possible peer_urls of the nodes
    MaxFaults,   \* bound on broken, refused and hanging connections
    NoNode       \* not a node

\* A server answers a message to itself without sending it, a node asked to send one
\* is its own first hop.
ASSUME RelayAssumption ==
    /\ Dest \in NodeId /\ NoNode \notin NodeId
    /\ Knowledge \subseteq [NodeId -> SUBSET NodeId]
    /\ \A o \in Origins :
          /\ o.kind \in {"client", "server", "node"} /\ o.hops \in Seq(NodeId)
          /\ o.id = Dest => \A i \in DOMAIN o.hops : o.hops[i] = Dest
    /\ MaxFaults \in Nat

VARIABLES
    kind, origin,      \* the originator's kind and identity, fixed
    hops,              \* the first hops left to it
    table, urls,       \* the nodes' routing tables and peer_urls, fixed
    calls,             \* calls[route]: the call's progress
    waits_for,         \* the first hop that the originator waits for
    result,            \* what the originator got: "none", "ok", "failed", "sent"
    stalled,           \* the routes whose exchange hangs
    deliveries,        \* history: how often Dest was handed the message
    faults             \* broken and refused connections and time-outs so far

fixed == <<kind, origin, table, urls>>
relayVars == <<fixed, hops, calls, waits_for, result, stalled, deliveries, faults>>

\* The peers that a table keeps of those it was told of: the closest ones
\* (KeepsClosest of module Introductions).
TableOf(n, known) ==
    [slots |-> {NewEntry("Greedy", p, p) : p \in {p \in known :
                    Cardinality({q \in known : Distance[n][q] < Distance[n][p]})
                        < max_greedy}},
     replacements_this_tick |-> 0]

RelayInit ==
    /\ \E o \in Origins : kind = o.kind /\ origin = o.id /\ hops = o.hops
    /\ urls \in Knowledge
    /\ table = [n \in NodeId |-> TableOf(n, urls[n])]
    /\ calls = << >>
    /\ waits_for = NoNode
    /\ result = "none"
    /\ stalled = {}
    /\ deliveries = 0
    /\ faults = 0

Routes == DOMAIN calls
At(r) == Last(r)

\* RelayRequest.path: it starts with the originator and every relay appends the
\* next hop; the originator does not append the first one.
path(r) == {origin} \cup ToSet(Tail(r))

Received == [state |-> "received", alts |-> {}, child |-> NoNode, delivered |-> FALSE]
Replied(c, ok) == [c EXCEPT !.state = "replied", !.child = NoNode, !.delivered = ok]

\* The call goes on without an answer from child c.
Resume(c, ok) ==
    IF ok \/ c.state = "forward" \/ c.alts = {} THEN Replied(c, ok)
    ELSE [c EXCEPT !.child = NoNode]

Set(r, c) == calls' = [calls EXCEPT ![r] = c]

\* One connection more may break or hang.
MayFail == faults + Cardinality(stalled) < MaxFaults

\* A call from r to the node h: it is received, or the connection is refused.
Relay(r, c, h) ==
    \/ /\ calls' = [x \in Routes \cup {Append(r, h)} |->
                       IF x = r THEN [c EXCEPT !.child = h]
                       ELSE IF x = Append(r, h) THEN Received ELSE calls[x]]
       /\ UNCHANGED faults
    \/ /\ MayFail
       /\ faults' = faults + 1
       /\ Set(r, Resume(c, FALSE))

UnchangedOutside == UNCHANGED <<fixed, hops, waits_for, result, stalled>>

Decision(r) == next_hop(At(r), Dest, table[At(r)])
Hop(r) == BestHop(Dest, table[At(r)])

Deliver(r) ==
    /\ calls[r].state = "received"
    /\ Decision(r) = "Deliver"
    /\ Set(r, Replied(calls[r], TRUE))
    /\ deliveries' = deliveries + 1
    /\ UNCHANGED faults
    /\ UnchangedOutside

Unvisited(r) == urls[At(r)] \ path(r)

\* Routing loop, no URL for the next hop, or a local minimum with no unvisited
\* peer.
DeadEnd(r) ==
    /\ calls[r].state = "received"
    /\ \/ Decision(r) = "Forward" /\ (Hop(r) \in path(r) \/ Hop(r) \notin urls[At(r)])
       \/ Decision(r) = "LocalMinimum" /\ Unvisited(r) = {}
    /\ Set(r, Replied(calls[r], FALSE))
    /\ UNCHANGED <<deliveries, faults>>
    /\ UnchangedOutside

forward_relay(r) ==
    /\ calls[r].state = "received"
    /\ Decision(r) = "Forward"
    /\ Hop(r) \in urls[At(r)] \ path(r)
    /\ Relay(r, [calls[r] EXCEPT !.state = "forward"], Hop(r))
    /\ UNCHANGED deliveries
    /\ UnchangedOutside

StartFanOut(r) ==
    /\ calls[r].state = "received"
    /\ Decision(r) = "LocalMinimum"
    /\ Unvisited(r) # {}
    /\ Set(r, [calls[r] EXCEPT !.state = "fan_out", !.alts = Unvisited(r)])
    /\ UNCHANGED <<deliveries, faults>>
    /\ UnchangedOutside

\* The alternatives are tried one after the other, in the order of a HashMap.
fan_out(r) ==
    /\ calls[r].state = "fan_out"
    /\ calls[r].child = NoNode
    /\ \E h \in calls[r].alts :
          Relay(r, [calls[r] EXCEPT !.alts = @ \ {h}], h)
    /\ UNCHANGED deliveries
    /\ UnchangedOutside

\* The call at the end of route r is the one that its caller waits for.
Awaited(r) == Len(r) > 1 /\ calls[Front(r)].child = At(r)

ReplyArrives(r) == Awaited(r) /\ r \notin stalled /\ calls[r].state = "replied"

\* Mutant: a fan-out goes on after an alternative has delivered.
ReturnAndGoOn(r) ==
    /\ ReplyArrives(r)
    /\ Set(Front(r), IF calls[Front(r)].alts # {}
                       THEN [calls[Front(r)] EXCEPT !.child = NoNode]
                       ELSE Resume(calls[Front(r)], calls[r].delivered))
    /\ UNCHANGED <<deliveries, faults>>
    /\ UnchangedOutside

\* Mutant: any answer of the next hop is taken for a delivery.
ReturnDelivered(r) ==
    /\ ReplyArrives(r)
    /\ Set(Front(r), Resume(calls[Front(r)], TRUE))
    /\ UNCHANGED <<deliveries, faults>>
    /\ UnchangedOutside

\* The caller gets the answer.
Return(r) ==
    /\ ReplyArrives(r)
    /\ Set(Front(r), Resume(calls[Front(r)], calls[r].delivered))
    /\ UNCHANGED <<deliveries, faults>>
    /\ UnchangedOutside

\* The connection to the callee breaks while the caller waits, or hangs on it.
Break(r) ==
    /\ Awaited(r)
    /\ r \in stalled \/ MayFail
    /\ faults' = faults + 1
    /\ Set(Front(r), Resume(calls[Front(r)], FALSE))
    /\ UNCHANGED deliveries
    /\ UnchangedOutside

\* The answer to an awaited call never comes: the requests of nodes and servers have
\* no time-out.  Whether the exchange hangs tells only when the answer is due.
Stall(r) ==
    /\ Awaited(r) \/ (r = <<waits_for>> /\ kind # "node")
    /\ calls[r].state = "replied"
    /\ r \notin stalled
    /\ MayFail
    /\ stalled' = stalled \cup {r}
    /\ UNCHANGED <<fixed, hops, calls, waits_for, result, deliveries, faults>>

\* The originator calls its next first hop, which receives the message or not, or
\* gives up when none is left.
OriginCalls ==
    /\ result = "none"
    /\ waits_for = NoNode
    /\ \/ /\ hops = << >>
          /\ result' = "failed"
          /\ UNCHANGED <<hops, calls, waits_for, stalled, faults>>
       \/ /\ hops # << >>
          /\ calls' = [x \in Routes \cup {<<Head(hops)>>} |->
                          IF x = <<Head(hops)>> THEN Received ELSE calls[x]]
          /\ waits_for' = Head(hops)
          /\ hops' = Tail(hops)
          /\ stalled' = {x \in stalled : Head(x) # Head(hops)}
          /\ UNCHANGED <<result, faults>>
       \/ /\ hops # << >>
          /\ kind # "node"
          /\ MayFail
          /\ faults' = faults + 1
          /\ hops' = Tail(hops)
          /\ UNCHANGED <<calls, waits_for, result, stalled>>
    /\ UNCHANGED <<fixed, deliveries>>

\* A server only learns that its message was received: it does not read the answer,
\* and waits for the response itself (module Rpc).
Report(delivered) ==
    IF kind = "server" THEN "sent" ELSE IF delivered THEN "ok" ELSE "failed"

\* The originator's call of its first hop is answered.
FirstAnswered ==
    /\ waits_for # NoNode
    /\ <<waits_for>> \notin stalled
    /\ calls[<<waits_for>>].state = "replied"

\* Mutant: a negative answer is not taken for one.
OriginWaitsForDelivery ==
    /\ FirstAnswered
    /\ calls[<<waits_for>>].delivered
    /\ result' = Report(TRUE)
    /\ waits_for' = NoNode
    /\ UNCHANGED <<fixed, hops, calls, stalled, deliveries, faults>>

\* An answer, positive or not, ends the originator's attempts.
OriginReturns ==
    /\ FirstAnswered
    /\ result' = Report(calls[<<waits_for>>].delivered)
    /\ waits_for' = NoNode
    /\ UNCHANGED <<fixed, hops, calls, stalled, deliveries, faults>>

\* The originator goes on to its next first hop, after the first one got the message.
GoesOnToNextHop ==
    /\ waits_for # NoNode
    /\ faults' = faults + 1
    /\ waits_for' = NoNode
    /\ UNCHANGED <<fixed, hops, calls, result, stalled, deliveries>>

\* Its exchange with the first hop breaks.
OriginBreaks ==
    /\ kind # "node"
    /\ <<waits_for>> \in stalled \/ MayFail
    /\ GoesOnToNextHop

\* The originator waits, through the calls between, on an exchange that hangs.
Hung ==
    \E r \in stalled :
        /\ Head(r) = waits_for
        /\ \A i \in 2..Len(r) : calls[SubSeq(r, 1, i - 1)].child = r[i]

\* The time-out of a client's requests (build_http_client).  One that strikes without
\* a hanging exchange is a break to the client.
TimesOut == kind = "client" /\ Hung /\ GoesOnToNextHop

NodeProgress ==
    \E r \in Routes :
        \/ Deliver(r) \/ DeadEnd(r) \/ forward_relay(r) \/ StartFanOut(r)
        \/ fan_out(r) \/ Return(r)

Progress == NodeProgress \/ OriginCalls \/ OriginReturns \/ TimesOut

RelayNext ==
    \/ Progress
    \/ \E r \in Routes : Break(r) \/ Stall(r)
    \/ OriginBreaks

RelaySpec == RelayInit /\ [][RelayNext]_relayVars

\* Nodes answer every call that reaches them, and answers arrive unless the exchange
\* hangs.  Nothing makes a connection break.
RelayFairSpec == RelaySpec /\ WF_relayVars(Progress)

-----------------------------------------------------------------------------
(***************************************************************************)
(* Properties.                                                             *)
(***************************************************************************)

\* A client or node is told of a delivery only when there was one; and when nothing
\* broke, it is told of every delivery, and a failure means that no node on the way
\* had the destination in its table.  (A server is told that it sent.)
ReportIsTrue ==
    /\ result = "ok" => deliveries > 0
    /\ (result = "failed" /\ faults = 0) =>
          deliveries = 0 /\ \A r \in Routes : Dest \notin all_peers(table[At(r)])

\* The destination sees a message more than once only when connections broke,
\* and at most once more for each: the fan-out and the retries over first hops
\* are sequential and stop at the first delivery.
OncePerFault == deliveries <= 1 + faults

\* Every message is answered, a client's whatever hangs, another's unless it waits,
\* over any number of nodes, on an exchange that hangs: paths end, whatever the
\* tables, and the fan-outs run out of alternatives.
EventuallyAnswered == <>[](result # "none" \/ (kind # "client" /\ Hung))
==============================================================================
