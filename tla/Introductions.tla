---------------------------- MODULE Introductions ----------------------------
(***************************************************************************)
(* How nodes come to know each other: the start-up of a node               *)
(* (zona-p2p-node/src/main.rs, NodeServer::bootstrap) and the              *)
(* POST /api/introduce handlers of nodes and servers.  A node introduces   *)
(* itself to every seed, with retries, then once to every neighbour it     *)
(* learned of, and only then starts to listen.  An introduction is a call  *)
(* over the network: the callee may be down, and the answer may be lost    *)
(* after the callee has registered the caller.                             *)
(*                                                                         *)
(* A node's URL stands for the node: identities come from fixed seeds      *)
(* (ZONA_NODE_SEED), so a restarted node keeps both.                       *)
(***************************************************************************)
EXTENDS Slots, Sequences

CONSTANTS
    Seeds,        \* Seeds[n]: the bootstrap URLs of n, in order
    MaxAttempts,  \* introductions tried per seed (8 in the code)
    MaxCrashes    \* bound on crashes

ASSUME SeedsAssumption == Seeds \in [NodeId -> Seq(NodeId)]
ASSUME AttemptsAssumption == MaxAttempts \in Nat \ {0} /\ MaxCrashes \in Nat

VARIABLES
    tables,       \* tables[n]: the routing table of n
    peer_urls,    \* peer_urls[n]: the peers whose URL n knows
    phase,        \* phase[n]: "round1", "round2" or "up" (listening)
    todo,         \* todo[n]: the introductions left in the phase
    attempt,      \* attempt[n]: attempts made at the head of todo[n]
    second_hop,   \* second_hop[n]: the neighbours learned in round 1
    call,         \* call[n]: n's introduction in progress
    crashes       \* number of crashes so far

introVars == <<tables, peer_urls, phase, todo, attempt, second_hop, call, crashes>>

\* An introduction in progress is "sent", then "answered" with neighbours.
NoCall == [state |-> "none", neighbors |-> << >>]
SentCall == [state |-> "sent", neighbors |-> << >>]
Answered(list) == [state |-> "answered", neighbors |-> list]

IntroInit ==
    /\ tables = [n \in NodeId |-> NewTable]
    /\ peer_urls = [n \in NodeId |-> {}]
    /\ phase = [n \in NodeId |-> "round1"]
    /\ todo = Seeds
    /\ attempt = [n \in NodeId |-> 0]
    /\ second_hop = [n \in NodeId |-> << >>]
    /\ call = [n \in NodeId |-> NoCall]
    /\ crashes = 0

\* Mutant: a peer is offered to the table only while slots are free.
RegisterWhileFree(self, t, peer) ==
    IF Cardinality(greedy_slots(t)) < max_greedy
      THEN try_insert(self, t, NewEntry("Greedy", peer, peer)) ELSE t

\* What every handler does with a peer it hears of: remember the URL, reset the
\* tick and offer the peer, as its own referrer, for a G-slot.
Register(self, t, peer) ==
    try_insert(self, reset_tick(t), NewEntry("Greedy", peer, peer))

RegisterAt(self, t, list, i) ==
    IF i <= Len(list) THEN Register(self, t, list[i]) ELSE t

\* Which slots `take(3)' answers with depends on the order of the Vec: any three
\* peers, or all of them when there are fewer.
FirstThree(t) ==
    LET n == IF Cardinality(t.slots) < 3 THEN Cardinality(t.slots) ELSE 3
    IN  {peers \in SUBSET all_peers(t) : Cardinality(peers) = n}

send_introduce(n) ==
    /\ phase[n] # "up"
    /\ todo[n] # << >>
    /\ call[n].state = "none"
    /\ call' = [call EXCEPT ![n] = SentCall]
    /\ attempt' = [attempt EXCEPT ![n] = @ + 1]
    /\ UNCHANGED <<tables, peer_urls, phase, todo, second_hop, crashes>>

\* handle_introduce at the callee m, which must be listening.  Neighbours are
\* named with their URLs, so those without one are left out.  (A caller that
\* sets register_peer to false changes nothing here.)
handle_introduce(n, m) ==
    /\ call[n].state = "sent"
    /\ m = Head(todo[n])
    /\ phase[m] = "up"
    /\ tables' = [tables EXCEPT ![m] = Register(m, @, n)]
    /\ peer_urls' = [peer_urls EXCEPT ![m] = @ \cup {n}]
    /\ \E peers \in FirstThree(tables'[m]) :
          \E list \in Listings(peers \cap peer_urls'[m]) :
              call' = [call EXCEPT ![n] = Answered(list)]
    /\ UNCHANGED <<phase, todo, attempt, second_hop, crashes>>

\* The next introduction of n, once the head of todo[n] is dealt with.
Proceed(n) ==
    /\ todo' = [todo EXCEPT ![n] = Tail(@)]
    /\ attempt' = [attempt EXCEPT ![n] = 0]

\* Round 1 tries a seed that named no neighbour again, whether it answered or not;
\* round 2 tries every neighbour once.
RetryOrProceed(n, neighbors) ==
    IF phase[n] = "round1" /\ neighbors = << >> /\ attempt[n] < MaxAttempts
      THEN UNCHANGED <<todo, attempt>> ELSE Proceed(n)

\* Mutant: the neighbours get slots, but only the callee's URL is kept.
IntroduceWithoutUrls(n) ==
    LET target == Head(todo[n])
        list == call[n].neighbors
    IN  /\ call[n].state = "answered"
        /\ tables' = [tables EXCEPT ![n] =
              RegisterAt(n, RegisterAt(n, RegisterAt(n, Register(n, @, target),
                         list, 1), list, 2), list, 3)]
        /\ peer_urls' = [peer_urls EXCEPT ![n] = @ \cup {target}]
        /\ second_hop' =
              IF phase[n] = "round1"
                THEN [second_hop EXCEPT ![n] = @ \o list] ELSE second_hop
        /\ call' = [call EXCEPT ![n] = NoCall]
        /\ RetryOrProceed(n, list)
        /\ UNCHANGED <<phase, crashes>>

\* do_introduce gets the answer: the callee and its neighbours, the caller
\* itself included when it is among them, are registered.
do_introduce(n) ==
    LET target == Head(todo[n])
        list == call[n].neighbors
    IN  /\ call[n].state = "answered"
        /\ tables' = [tables EXCEPT ![n] =
              RegisterAt(n, RegisterAt(n, RegisterAt(n, Register(n, @, target),
                         list, 1), list, 2), list, 3)]
        /\ peer_urls' = [peer_urls EXCEPT ![n] =
              @ \cup {target} \cup {list[i] : i \in DOMAIN list}]
        /\ second_hop' =
              IF phase[n] = "round1"
                THEN [second_hop EXCEPT ![n] = @ \o list] ELSE second_hop
        /\ call' = [call EXCEPT ![n] = NoCall]
        /\ RetryOrProceed(n, list)
        /\ UNCHANGED <<phase, crashes>>

\* Mutant: a failed attempt starts the count again, so the seed is never given up.
FailForgetful(n) ==
    /\ call[n].state # "none"
    /\ call' = [call EXCEPT ![n] = NoCall]
    /\ IF phase[n] = "round1"
         THEN attempt' = [attempt EXCEPT ![n] = 0] /\ UNCHANGED todo
         ELSE Proceed(n)
    /\ UNCHANGED <<tables, peer_urls, phase, second_hop, crashes>>

\* The introduction fails: nobody listens there, or the answer is lost.
fail_introduce(n) ==
    /\ call[n].state # "none"
    /\ call' = [call EXCEPT ![n] = NoCall]
    /\ RetryOrProceed(n, << >>)
    /\ UNCHANGED <<tables, peer_urls, phase, second_hop, crashes>>

\* Round 2 skips the seeds.
start_round2(n) ==
    /\ phase[n] = "round1"
    /\ todo[n] = << >>
    /\ phase' = [phase EXCEPT ![n] = "round2"]
    /\ todo' = [todo EXCEPT ![n] =
          SelectSeq(second_hop[n],
                    LAMBDA nb : \A i \in DOMAIN Seeds[n] : nb # Seeds[n][i])]
    /\ second_hop' = [second_hop EXCEPT ![n] = << >>]
    /\ UNCHANGED <<tables, peer_urls, attempt, call, crashes>>

listen(n) ==
    /\ phase[n] = "round2"
    /\ todo[n] = << >>
    /\ phase' = [phase EXCEPT ![n] = "up"]
    /\ UNCHANGED <<tables, peer_urls, todo, attempt, second_hop, call, crashes>>

\* The process dies and starts again: everything it knew was in memory.
crash(n) ==
    /\ crashes < MaxCrashes
    /\ crashes' = crashes + 1
    /\ tables' = [tables EXCEPT ![n] = NewTable]
    /\ peer_urls' = [peer_urls EXCEPT ![n] = {}]
    /\ phase' = [phase EXCEPT ![n] = "round1"]
    /\ todo' = [todo EXCEPT ![n] = Seeds[n]]
    /\ attempt' = [attempt EXCEPT ![n] = 0]
    /\ second_hop' = [second_hop EXCEPT ![n] = << >>]
    /\ call' = [call EXCEPT ![n] = NoCall]

Step(n) ==
    \/ send_introduce(n)
    \/ \E m \in NodeId : handle_introduce(n, m)
    \/ do_introduce(n)
    \/ fail_introduce(n)
    \/ start_round2(n)
    \/ listen(n)

IntroNext == \E n \in NodeId : Step(n) \/ crash(n)

IntroSpec == IntroInit /\ [][IntroNext]_introVars

\* A node never stops between the steps of its start-up: a call ends within its
\* timeout of five seconds, and everything else is its own code.
IntroFairSpec == IntroSpec /\ \A n \in NodeId : WF_introVars(Step(n))

-----------------------------------------------------------------------------
(***************************************************************************)
(* Properties.                                                             *)
(***************************************************************************)

\* The G-slots hold the max_greedy closest of all the peers a node was ever
\* told of, in whatever order, from whatever call they came: an insertion at a
\* time, with a reset before each, never loses a closer peer.
KeepsClosest ==
    \A n \in NodeId : \A p \in peer_urls[n] :
        \/ p \in all_peers(tables[n])
        \/ /\ Cardinality(tables[n].slots) = max_greedy
           /\ \A s \in tables[n].slots : Distance[n][s.peer_id] < Distance[n][p]

\* A node knows the URL of every peer it may route to: the relay's answer
\* `no URL for next hop' never happens.
EverySlotHasUrl == \A n \in NodeId : all_peers(tables[n]) \subseteq peer_urls[n]

\* Every node ends up listening, although nodes that name each other as seeds
\* refuse each other's calls until they do (no one waits for ever).
EventuallyListens == \A n \in NodeId : <>[](phase[n] = "up")

==============================================================================
