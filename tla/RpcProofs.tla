------------------------------ MODULE RpcProofs ------------------------------
(***************************************************************************)
(* Theorems about Rpc, for every number of servers and calls and whatever  *)
(* the bounds on repeated requests, restarts and hang-ups.                 *)
(***************************************************************************)
EXTENDS Rpc, TLAPS

State ==
    {"idle", "local", "routed", "relaying", "waiting", "expired", "lost",
     "cancelled"} \cup Finished

Entry == [cid : Nat, call : Calls]
Packet == [kind : {"request", "response"}, call : Calls, cid : Nat, run : Nat]

TypeOK ==
    /\ next_cid \in [Servers -> Nat \ {0}]
    /\ pending \in [Servers -> SUBSET Entry]
    /\ state \in [Calls -> State]
    /\ cid \in [Calls -> Nat]
    /\ channel \in [Calls -> SUBSET Packet]
    /\ requests \in SUBSET Packet
    /\ responses \in SUBSET Packet
    /\ handled \in [Calls -> Nat]
    /\ dups \in Nat /\ restarts \in Nat /\ cancels \in Nat

\* An entry belongs to a call of this server that is under way and has got
\* nothing yet, and carries the id of that call.
EntriesWait ==
    \A s \in Servers : \A e \in pending[s] :
        /\ Caller[e.call] = s
        /\ e.cid = cid[e.call]
        /\ state[e.call] \notin Finished \cup {"idle", "lost"}
        /\ channel[e.call] = {}

\* A call that has not begun has an empty channel.
IdleIsEmpty == \A c \in Calls : state[c] = "idle" => channel[c] = {}

EInv == TypeOK /\ EntriesWait /\ IdleIsEmpty

\* No server has an entry when it starts.
LEMMA InitEInv == RpcInit => EInv
  BY CallsAssumption
     DEF RpcInit, EInv, TypeOK, EntriesWait, IdleIsEmpty, State

\* Every step keeps the types.
LEMMA NextTypeOK == TypeOK /\ [RpcNext]_rpcVars => TypeOK'
<1> SUFFICES ASSUME TypeOK, [RpcNext]_rpcVars PROVE TypeOK'
  OBVIOUS
<1> USE CallsAssumption DEF TypeOK
<1>1. ASSUME NEW c \in Calls, send_and_wait(c) PROVE TypeOK'
  <2>1. [cid |-> next_cid[Caller[c]], call |-> c] \in Entry
    BY DEF Entry
  <2>2. pending' \in [Servers -> SUBSET Entry]
    BY <1>1, <2>1 DEF send_and_wait
  <2> QED
    BY <1>1, <2>2 DEF send_and_wait, State, faultVars
<1>2. ASSUME NEW s \in Servers, NEW id
      PROVE  RemovePending(s, id) \in [Servers -> SUBSET Entry]
  BY <1>2 DEF RemovePending
<1>3. ASSUME NEW c \in Calls,
             \/ dispatch_locally(c) \/ no_route(c) \/ relay_fails(c)
             \/ give_up(c)
      PROVE  TypeOK'
  BY <1>2, <1>3 DEF dispatch_locally, no_route, relay_fails, give_up, State,
                    Finished, faultVars
<1>4. ASSUME NEW c \in Calls, post_relay(c) PROVE TypeOK'
  BY <1>4 DEF post_relay, Message, Packet, State, faultVars
<1>5. ASSUME NEW c \in Calls,
             \/ relay_returns(c) \/ response_arrives(c) \/ timer_fires(c)
             \/ hang_up(c)
      PROVE  TypeOK'
  BY <1>5 DEF relay_returns, response_arrives, timer_fires, hang_up, State,
              Finished, faultVars
<1>6. ASSUME NEW s \in Servers, NEW m \in Packet, Resolve(s, m)
      PROVE  /\ pending' \in [Servers -> SUBSET Entry]
             /\ channel' \in [Calls -> SUBSET Packet]
  BY <1>2, <1>6 DEF Resolve
<1>7. ASSUME NEW m \in requests, deliver_request(m) PROVE TypeOK'
  <2>1. m \in Packet /\ Callee[m.call] \in Servers /\ m.call \in Calls
    BY DEF Packet
  <2>2. requests' \in SUBSET Packet /\ dups' \in Nat
    BY <1>7 DEF deliver_request
  <2>3. /\ pending' \in [Servers -> SUBSET Entry]
        /\ channel' \in [Calls -> SUBSET Packet]
    BY <1>6, <1>7, <2>1 DEF deliver_request
  <2>4. handled' \in [Calls -> Nat]
    BY <1>7, <2>1 DEF deliver_request
  <2>5. responses' \in SUBSET Packet
    <3> DEFINE new == [m EXCEPT !.kind = "response", !.run = handled'[m.call]]
    <3>1. new \in Packet
      BY <2>1, <2>4 DEF Packet
    <3>2. responses' \in {responses, responses \cup {new}}
      BY <1>7 DEF deliver_request
    <3> QED
      BY <3>1, <3>2
  <2> QED
    BY <1>7, <2>2, <2>3, <2>4, <2>5 DEF deliver_request
<1>8. ASSUME NEW m \in responses, deliver_response(m) PROVE TypeOK'
  <2>1. m \in Packet /\ Caller[m.call] \in Servers
    BY DEF Packet
  <2>2. /\ pending' \in [Servers -> SUBSET Entry]
        /\ channel' \in [Calls -> SUBSET Packet]
    BY <1>6, <1>8, <2>1 DEF deliver_response
  <2> QED
    BY <1>8, <2>2 DEF deliver_response, faultVars
<1>9. ASSUME NEW m, lose(m) PROVE TypeOK'
  BY <1>9 DEF lose, faultVars
<1>10. ASSUME NEW s \in Servers, restart(s) PROVE TypeOK'
  BY <1>10 DEF restart, State
<1>11. CASE UNCHANGED rpcVars
  BY <1>11 DEF rpcVars
<1> QED
  BY <1>1, <1>3, <1>4, <1>5, <1>7, <1>8, <1>9, <1>10, <1>11
     DEF RpcNext, OwnStep

\* Removing the id of a call from its server removes the entry of that call.
LEMMA RemoveOwn ==
    ASSUME TypeOK, EntriesWait, NEW c \in Calls, NEW s \in Servers,
           NEW e \in RemovePending(Caller[c], cid[c])[s]
    PROVE  e \in pending[s] /\ e.call # c
  BY CallsAssumption DEF TypeOK, EntriesWait, RemovePending

\* Where deliver finds a waiter, it fills empty channels and removes exactly
\* the entries of the calls whose channels it fills.
LEMMA ResolveFills ==
    ASSUME EInv, NEW s \in Servers, NEW m \in Packet, Resolve(s, m)
    PROVE  /\ \A c \in Calls : channel'[c] # channel[c] =>
                 /\ channel[c] = {} /\ channel'[c] = {m} /\ state[c] # "idle"
                 /\ Caller[c] = s /\ cid[c] = m.cid
           /\ \A t \in Servers : \A e \in pending'[t] :
                 e \in pending[t] /\ channel'[e.call] = {}
<1>1. /\ channel' = [c \in Calls |->
             IF \E e \in Waiter(s, m) : e.call = c THEN {m} ELSE channel[c]]
      /\ pending' = RemovePending(s, m.cid)
  BY DEF Resolve
<1>2. ASSUME NEW e \in Waiter(s, m)
      PROVE  /\ e \in pending[s] /\ e.cid = m.cid /\ e.call \in Calls
             /\ Caller[e.call] = s /\ cid[e.call] = m.cid
             /\ channel[e.call] = {} /\ state[e.call] # "idle"
  BY <1>2 DEF Waiter, EInv, EntriesWait, TypeOK, Entry
<1>3. \A c \in Calls : channel'[c] # channel[c] =>
                 /\ channel[c] = {} /\ channel'[c] = {m} /\ state[c] # "idle"
                 /\ Caller[c] = s /\ cid[c] = m.cid
  BY <1>1, <1>2
<1>4. ASSUME NEW t \in Servers, NEW e \in pending'[t]
      PROVE  e \in pending[t] /\ channel'[e.call] = {}
  <2>1. e \in pending[t] /\ e.call \in Calls
        /\ (t = s => e.cid # m.cid)
    BY <1>1, <1>4 DEF RemovePending, EInv, TypeOK, Entry
  <2>2. channel[e.call] = {} /\ Caller[e.call] = t /\ e.cid = cid[e.call]
    BY <2>1 DEF EInv, EntriesWait
  <2> QED
    BY <1>3, <2>1, <2>2
<1> QED
  BY <1>3, <1>4

\* Every step keeps the entries those of calls under way.
LEMMA NextEInv == EInv /\ [RpcNext]_rpcVars => EInv'
<1> SUFFICES ASSUME EInv, [RpcNext]_rpcVars PROVE EInv'
  OBVIOUS
<1>1. TypeOK /\ TypeOK' /\ EntriesWait /\ IdleIsEmpty
  BY NextTypeOK DEF EInv
<1>2. \A s \in Servers : \A e \in pending[s] : e.call \in Calls
  BY <1>1 DEF TypeOK, Entry
<1>3. ASSUME NEW c \in Calls, send_and_wait(c)
      PROVE  EntriesWait' /\ IdleIsEmpty'
  <2> DEFINE new == [cid |-> next_cid[Caller[c]], call |-> c]
  <2>1. /\ state[c] = "idle" /\ channel[c] = {} /\ channel' = channel
        /\ state'[c] \in {"local", "routed"} /\ cid'[c] = new.cid
        /\ \A d \in Calls \ {c} : state'[d] = state[d] /\ cid'[d] = cid[d]
    BY <1>1, <1>3 DEF send_and_wait, TypeOK, IdleIsEmpty
  <2>2. \A s \in Servers : \A e \in pending'[s] :
           \/ e \in pending[s]
           \/ s = Caller[c] /\ e = new
    BY <1>1, <1>3, CallsAssumption DEF send_and_wait, TypeOK
  <2>3. \A s \in Servers : \A e \in pending[s] : e.call # c
    BY <1>1, <2>1 DEF EntriesWait
  <2>4. EntriesWait'
    BY <1>1, <1>2, <2>1, <2>2, <2>3 DEF EntriesWait, Finished
  <2>5. IdleIsEmpty'
    BY <1>1, <2>1 DEF IdleIsEmpty
  <2> QED
    BY <2>4, <2>5
<1>4. ASSUME NEW c \in Calls,
             \/ dispatch_locally(c) \/ no_route(c) \/ relay_fails(c)
             \/ give_up(c)
      PROVE  EntriesWait' /\ IdleIsEmpty'
  <2>1. /\ pending' = RemovePending(Caller[c], cid[c])
        /\ UNCHANGED <<cid, channel>>
        /\ state'[c] \in Finished
        /\ \A d \in Calls \ {c} : state'[d] = state[d]
    BY <1>1, <1>4 DEF dispatch_locally, no_route, relay_fails, give_up,
                      TypeOK, Finished
  <2>2. \A s \in Servers : \A e \in pending'[s] : e \in pending[s] /\ e.call # c
    BY <1>1, <2>1, RemoveOwn
  <2>3. EntriesWait'
    BY <1>1, <1>2, <2>1, <2>2 DEF EntriesWait
  <2>4. IdleIsEmpty'
    BY <1>1, <2>1 DEF IdleIsEmpty, Finished
  <2> QED
    BY <2>3, <2>4
<1>5. ASSUME NEW c \in Calls,
             \/ post_relay(c) \/ relay_returns(c) \/ timer_fires(c)
             \/ hang_up(c)
      PROVE  EntriesWait' /\ IdleIsEmpty'
  <2>1. /\ UNCHANGED <<pending, cid, channel>>
        /\ state'[c] \in {"relaying", "waiting", "expired", "cancelled"}
        /\ \A d \in Calls \ {c} : state'[d] = state[d]
    BY <1>1, <1>5 DEF post_relay, relay_returns, timer_fires, hang_up, TypeOK
  <2> QED
    BY <1>1, <1>2, <2>1 DEF EntriesWait, IdleIsEmpty, Finished
<1>6. ASSUME NEW c \in Calls, response_arrives(c)
      PROVE  EntriesWait' /\ IdleIsEmpty'
  <2>1. /\ UNCHANGED <<pending, cid, channel>>
        /\ channel[c] # {} /\ state'[c] = "ok"
        /\ \A d \in Calls \ {c} : state'[d] = state[d]
    BY <1>1, <1>6 DEF response_arrives, TypeOK
  <2>2. \A s \in Servers : \A e \in pending[s] : e.call # c
    BY <1>1, <2>1 DEF EntriesWait
  <2> QED
    BY <1>1, <1>2, <2>1, <2>2 DEF EntriesWait, IdleIsEmpty
<1>7. ASSUME NEW s \in Servers, NEW m \in Packet, Resolve(s, m),
             UNCHANGED <<state, cid>>
      PROVE  EntriesWait' /\ IdleIsEmpty'
  BY <1>1, <1>2, <1>7, ResolveFills DEF EntriesWait, IdleIsEmpty
<1>8. ASSUME UNCHANGED <<pending, channel, state, cid>>
      PROVE  EntriesWait' /\ IdleIsEmpty'
  BY <1>1, <1>8 DEF EntriesWait, IdleIsEmpty
<1>9. ASSUME NEW m \in requests, deliver_request(m)
      PROVE  EntriesWait' /\ IdleIsEmpty'
  <2>1. m \in Packet /\ Callee[m.call] \in Servers
    BY <1>1, CallsAssumption DEF TypeOK, Packet
  <2> QED
    BY <1>7, <1>8, <1>9, <2>1 DEF deliver_request
<1>10. ASSUME NEW m \in responses, deliver_response(m)
       PROVE  EntriesWait' /\ IdleIsEmpty'
  <2>1. m \in Packet /\ Caller[m.call] \in Servers
    BY <1>1, CallsAssumption DEF TypeOK, Packet
  <2> QED
    BY <1>7, <1>8, <1>10, <2>1 DEF deliver_response
<1>11. ASSUME NEW s \in Servers, restart(s)
       PROVE  EntriesWait' /\ IdleIsEmpty'
  <2>1. /\ UNCHANGED <<cid, channel>>
        /\ \A t \in Servers : pending'[t] = IF t = s THEN {} ELSE pending[t]
        /\ \A c \in Calls : state'[c] = IF Caller[c] = s
                                           /\ state[c] \notin Finished \cup {"idle"}
                                          THEN "lost" ELSE state[c]
    BY <1>1, <1>11 DEF restart, TypeOK
  <2> QED
    BY <1>1, <1>2, <2>1 DEF EntriesWait, IdleIsEmpty
<1>12. ASSUME NEW m, lose(m) PROVE UNCHANGED <<pending, channel, state, cid>>
  BY <1>12 DEF lose
<1>13. CASE UNCHANGED rpcVars
  BY <1>1, <1>8, <1>13 DEF rpcVars, EInv
<1> QED
  BY <1>1, <1>3, <1>4, <1>5, <1>6, <1>8, <1>9, <1>10, <1>11, <1>12, <1>13
     DEF RpcNext, OwnStep, EInv

\* It holds in every reachable state.
LEMMA AlwaysEInv == RpcSpec => []EInv
  BY InitEInv, NextEInv, PTL DEF RpcSpec

\* Whatever way send_and_wait returns, no entry of the call stays behind: not
\* after the timer that races a late response, a failed post, a missing route
\* or a local dispatch, and not through restarts either.
THEOREM NothingLeftBehind == RpcSpec => []FinishedLeavesNothing
<1>1. EInv => FinishedLeavesNothing
  BY DEF EInv, EntriesWait, FinishedLeavesNothing
<1> QED
  BY <1>1, AlwaysEInv, PTL

-----------------------------------------------------------------------------
(***************************************************************************)
(* Answers.  A response reaches the call it belongs to because, until a    *)
(* restart, a server's ids are all different and below its counter, and    *)
(* because packets carry the id of their call; a request cannot take a     *)
(* call's place unless another server calls the caller.                    *)
(***************************************************************************)

Begun(c) == state[c] # "idle"

IdsDiffer ==
    restarts = 0 =>
        \A c \in Calls : Begun(c) =>
            /\ cid[c] < next_cid[Caller[c]]
            /\ \A d \in Calls :
                  Begun(d) /\ Caller[c] = Caller[d] /\ cid[c] = cid[d] => c = d

\* The network is used for calls to other servers only.
RoutesDiffer ==
    \A c \in Calls : /\ state[c] = "local" => Callee[c] = Caller[c]
                     /\ state[c] = "routed" => Callee[c] # Caller[c]

PacketsTrue ==
    /\ \A m \in requests \cup responses :
          Begun(m.call) /\ m.cid = cid[m.call] /\ Callee[m.call] # Caller[m.call]
    /\ \A m \in responses : m.kind = "response" /\ handled[m.call] > 0

\* The numbers of c's server are unambiguous.
Alone(c) ==
    restarts = 0 /\ \A d \in Calls : Callee[d] = Caller[c] => Caller[d] = Caller[c]

ChannelsTrue ==
    \A c \in Calls : Alone(c) =>
        \A m \in channel[c] : m.kind = "response" /\ m.call = c /\ handled[c] > 0

OkHandled == \A c \in Calls : Alone(c) /\ state[c] = "ok" => handled[c] > 0

MInv ==
    /\ EInv
    /\ IdsDiffer /\ RoutesDiffer /\ PacketsTrue /\ ChannelsTrue /\ OkHandled

\* Nothing has begun, nothing is on its way.
LEMMA InitMInv == RpcInit => MInv
<1> SUFFICES ASSUME RpcInit PROVE MInv
  OBVIOUS
<1>1. EInv
  BY InitEInv
<1> QED
  BY <1>1 DEF RpcInit, MInv, IdsDiffer, RoutesDiffer, PacketsTrue, ChannelsTrue,
              OkHandled, Begun

\* The step of a call: the counter gives it an id that no call of its server
\* has, and a success has an answer behind it.
LEMMA CallStepMInv ==
    ASSUME MInv, EInv', NEW c \in Calls,
           OwnStep(c) \/ relay_returns(c) \/ relay_fails(c) \/ hang_up(c)
    PROVE  MInv'
<1>1. TypeOK /\ IdsDiffer /\ RoutesDiffer /\ PacketsTrue /\ ChannelsTrue
      /\ OkHandled /\ TypeOK'
  BY DEF MInv, EInv
<1>2. /\ UNCHANGED <<channel, responses, restarts>>
      /\ \A d \in Calls \ {c} :
            /\ state'[d] = state[d] /\ cid'[d] = cid[d]
            /\ handled'[d] = handled[d]
      /\ handled'[c] >= handled[c]
  BY <1>1 DEF TypeOK, OwnStep, send_and_wait, dispatch_locally,
              no_route, post_relay, relay_returns, relay_fails,
              response_arrives, timer_fires, give_up, hang_up, faultVars
<1>3. Begun(c)' /\ (state'[c] \in {"local", "routed"} => state[c] = "idle")
  BY <1>1 DEF TypeOK, OwnStep, send_and_wait, dispatch_locally,
              no_route, post_relay, relay_returns, relay_fails,
              response_arrives, timer_fires, give_up, hang_up, Begun
<1>4. \A d \in Calls : Alone(d)' <=> Alone(d)
  BY <1>2 DEF Alone
<1>5. \A m \in requests \cup responses : m.call \in Calls
  BY <1>1 DEF TypeOK, Packet
<1>6. ChannelsTrue'
  <2>1. \A d \in Calls : handled[d] \in Nat /\ handled'[d] \in Nat
                         /\ handled'[d] >= handled[d]
    BY <1>1, <1>2 DEF TypeOK
  <2> QED
    BY <1>1, <1>2, <1>4, <2>1 DEF ChannelsTrue
<1>7. CASE send_and_wait(c)
  <2> DEFINE s == Caller[c]
  <2>1. /\ state[c] = "idle" /\ cid'[c] = next_cid[s]
        /\ next_cid' = [next_cid EXCEPT ![s] = @ + 1]
        /\ state'[c] = IF Callee[c] = s THEN "local" ELSE "routed"
        /\ UNCHANGED <<requests, handled>>
    BY <1>1, <1>7 DEF send_and_wait, TypeOK
  <2>2. IdsDiffer'
    <3> SUFFICES ASSUME restarts = 0, NEW d \in Calls, Begun(d)'
                 PROVE  /\ cid'[d] < next_cid'[Caller[d]]
                        /\ \A e \in Calls :
                              Begun(e)' /\ Caller[d] = Caller[e] /\ cid'[d] = cid'[e]
                                  => d = e
      BY <1>2 DEF IdsDiffer
    <3>1. s \in Servers /\ next_cid[s] \in Nat /\ next_cid'[s] = next_cid[s] + 1
          /\ \A t \in Servers \ {s} : next_cid'[t] = next_cid[t]
      BY <1>1, <2>1, CallsAssumption DEF TypeOK
    <3>2. \A e \in Calls \ {c} :
             Begun(e)' => Begun(e) /\ cid'[e] = cid[e] /\ cid[e] \in Nat
                          /\ cid[e] < next_cid[Caller[e]]
      BY <1>1, <1>2 DEF IdsDiffer, Begun, TypeOK
    <3>3. cid'[d] < next_cid'[Caller[d]]
      BY <2>1, <3>1, <3>2, CallsAssumption
    <3>4. ASSUME NEW e \in Calls, Begun(e)', Caller[d] = Caller[e],
                 cid'[d] = cid'[e], d # e
          PROVE  FALSE
      <4>1. CASE d # c /\ e # c
        BY <1>1, <3>2, <3>4, <4>1 DEF IdsDiffer
      <4>2. CASE d = c \/ e = c
        BY <2>1, <3>1, <3>2, <3>4, <4>2
      <4> QED
        BY <4>1, <4>2
    <3> QED
      BY <3>3, <3>4
  <2>3. RoutesDiffer'
    BY <1>1, <1>2, <2>1 DEF RoutesDiffer
  <2>4. PacketsTrue'
    BY <1>1, <1>2, <1>5, <2>1 DEF PacketsTrue, Begun
  <2>5. OkHandled'
    BY <1>1, <1>2, <1>4, <2>1 DEF OkHandled
  <2> QED
    BY <1>6, <2>2, <2>3, <2>4, <2>5 DEF MInv
<1>8. CASE ~send_and_wait(c)
  <2>1. UNCHANGED <<next_cid, cid>> /\ Begun(c)
    BY <1>8 DEF OwnStep, dispatch_locally, no_route, post_relay,
                relay_returns, relay_fails, response_arrives, timer_fires,
                give_up, hang_up, Begun
  <2>2. IdsDiffer'
    BY <1>1, <1>2, <2>1 DEF IdsDiffer, Begun
  <2>3. RoutesDiffer'
    BY <1>1, <1>2, <1>3, <2>1 DEF RoutesDiffer, Begun
  <2>4. \A m \in requests' :
           \/ m \in requests
           \/ m.call = c /\ m.cid = cid[c] /\ Callee[c] # Caller[c]
    BY <1>1, <1>8
       DEF OwnStep, dispatch_locally, no_route, post_relay,
           relay_returns, relay_fails, response_arrives, timer_fires, give_up,
           hang_up, Message, RoutesDiffer
  <2>5. PacketsTrue'
    <3>1. \A d \in Calls : handled[d] \in Nat /\ handled'[d] \in Nat
                           /\ handled'[d] >= handled[d]
      BY <1>1, <1>2 DEF TypeOK
    <3>2. \A d \in Calls : Begun(d) => Begun(d)'
      BY <1>2, <1>3 DEF Begun
    <3> QED
      BY <1>1, <1>2, <1>5, <2>1, <2>4, <3>1, <3>2 DEF PacketsTrue
  <2>6. OkHandled'
    <3>1. ASSUME state'[c] = "ok", Alone(c) PROVE handled'[c] > 0
      <4>1. CASE response_arrives(c)
        BY <1>1, <3>1, <4>1 DEF response_arrives, ChannelsTrue
      <4>2. CASE dispatch_locally(c)
        BY <1>1, <3>1, <4>2 DEF dispatch_locally, TypeOK
      <4> QED
        BY <1>1, <1>8, <3>1, <4>1, <4>2
           DEF OwnStep, no_route, post_relay, relay_returns,
               relay_fails, timer_fires, give_up, hang_up, TypeOK
    <3> QED
      BY <1>1, <1>2, <1>4, <3>1 DEF OkHandled
  <2> QED
    BY <1>6, <2>2, <2>3, <2>5, <2>6 DEF MInv
<1> QED
  BY <1>7, <1>8

\* Filling a channel with the response to its own call keeps the channels
\* true.
LEMMA ResolveMInv ==
    ASSUME MInv, NEW s \in Servers, NEW m \in Packet, Resolve(s, m),
           UNCHANGED <<restarts, handled>>,
           \A c \in Calls : Alone(c) /\ Caller[c] = s /\ cid[c] = m.cid /\ Begun(c)
               => m.kind = "response" /\ m.call = c /\ handled[c] > 0
    PROVE  ChannelsTrue'
<1>1. \A c \in Calls : channel'[c] # channel[c] =>
         channel'[c] = {m} /\ Begun(c) /\ Caller[c] = s /\ cid[c] = m.cid
  BY ResolveFills DEF MInv, Begun
<1>2. \A c \in Calls : Alone(c)' <=> Alone(c)
  BY DEF Alone
<1> QED
  BY <1>1, <1>2 DEF MInv, ChannelsTrue

\* A request at its destination fills no channel of a server whose numbers
\* are unambiguous.
LEMMA RequestMInv ==
    ASSUME MInv, EInv', NEW m \in requests, deliver_request(m)
    PROVE  MInv'
<1>1. TypeOK /\ IdsDiffer /\ RoutesDiffer /\ PacketsTrue /\ ChannelsTrue
      /\ OkHandled /\ TypeOK'
  BY DEF MInv, EInv
<1>2. m \in Packet /\ m.call \in Calls /\ Callee[m.call] \in Servers
  BY <1>1, CallsAssumption DEF TypeOK, Packet
<1>3. /\ UNCHANGED <<next_cid, state, cid, restarts>>
      /\ requests' \subseteq requests
      /\ \A c \in Calls : Alone(c)' <=> Alone(c)
      /\ \A c \in Calls : Begun(c)' <=> Begun(c)
  BY DEF deliver_request, Alone, Begun
<1>4. \A c \in Calls : handled[c] \in Nat /\ handled'[c] \in Nat
                       /\ handled'[c] >= handled[c]
  BY <1>1, <1>2 DEF deliver_request, TypeOK
<1>5. IdsDiffer' /\ RoutesDiffer'
  BY <1>1, <1>3 DEF IdsDiffer, RoutesDiffer, Begun
<1>6. OkHandled'
  BY <1>1, <1>3, <1>4 DEF OkHandled
<1>7. PacketsTrue'
  <2>1. \A r \in responses' :
           \/ r \in responses
           \/ /\ r.kind = "response" /\ r.call = m.call /\ r.cid = m.cid
              /\ handled'[m.call] > 0
    <3> DEFINE new == [m EXCEPT !.kind = "response", !.run = handled'[m.call]]
    <3>1. new.kind = "response" /\ new.call = m.call /\ new.cid = m.cid
      BY <1>2 DEF Packet
    <3>2. \/ responses' = responses
          \/ /\ handled' = [handled EXCEPT ![m.call] = @ + 1]
             /\ responses' \in {responses, responses \cup {new}}
      BY DEF deliver_request
    <3> HIDE DEF new
    <3>3. CASE handled' = [handled EXCEPT ![m.call] = @ + 1]
      BY <1>1, <1>2, <3>1, <3>2, <3>3 DEF TypeOK
    <3> QED
      BY <3>2, <3>3
  <2>2. \A r \in requests \cup responses : r.call \in Calls
    BY <1>1 DEF TypeOK, Packet
  <2> QED
    BY <1>1, <1>2, <1>3, <1>4, <2>1, <2>2 DEF PacketsTrue
<1>8. ChannelsTrue'
  <2>1. CASE Resolve(Callee[m.call], m) /\ UNCHANGED handled
    <3>1. ASSUME NEW c \in Calls, Alone(c), Caller[c] = Callee[m.call]
          PROVE  FALSE
      BY <1>1, <1>2, <3>1 DEF Alone, PacketsTrue
    <3> QED
      BY <1>2, <1>3, <2>1, <3>1, ResolveMInv
  <2>2. CASE UNCHANGED channel
    BY <1>1, <1>3, <1>4, <2>2 DEF ChannelsTrue
  <2> QED
    BY <2>1, <2>2 DEF deliver_request
<1> QED
  BY <1>5, <1>6, <1>7, <1>8 DEF MInv

\* A response at the caller is handed to the call that it answers.
LEMMA ResponseMInv ==
    ASSUME MInv, EInv', NEW m \in responses, deliver_response(m)
    PROVE  MInv'
<1>1. TypeOK /\ IdsDiffer /\ RoutesDiffer /\ PacketsTrue /\ ChannelsTrue
      /\ OkHandled
  BY DEF MInv, EInv
<1>2. m \in Packet /\ m.call \in Calls /\ Caller[m.call] \in Servers
  BY <1>1, CallsAssumption DEF TypeOK, Packet
<1>3. /\ UNCHANGED <<next_cid, state, cid, restarts, handled, requests>>
      /\ responses' \subseteq responses
  BY DEF deliver_response, faultVars
<1>4. IdsDiffer' /\ RoutesDiffer' /\ OkHandled' /\ PacketsTrue'
  BY <1>1, <1>3
     DEF IdsDiffer, RoutesDiffer, OkHandled, PacketsTrue, Begun, Alone
<1>5. ChannelsTrue'
  <2>1. CASE Resolve(Caller[m.call], m)
    <3>1. ASSUME NEW c \in Calls, Alone(c), Caller[c] = Caller[m.call],
                 cid[c] = m.cid, Begun(c)
          PROVE  m.kind = "response" /\ m.call = c /\ handled[c] > 0
      <4>1. Begun(m.call) /\ m.cid = cid[m.call] /\ m.kind = "response"
            /\ handled[m.call] > 0
        BY <1>1 DEF PacketsTrue
      <4>2. restarts = 0
        BY <3>1 DEF Alone
      <4> QED
        BY <1>1, <1>2, <3>1, <4>1, <4>2 DEF IdsDiffer
    <3> QED
      BY <1>2, <1>3, <2>1, <3>1, ResolveMInv
  <2>2. CASE UNCHANGED channel
    BY <1>1, <1>3, <2>2 DEF ChannelsTrue, Alone
  <2> QED
    BY <2>1, <2>2 DEF deliver_response
<1> QED
  BY <1>4, <1>5 DEF MInv

\* Every step keeps the answers with their calls.
LEMMA NextMInv == MInv /\ [RpcNext]_rpcVars => MInv'
<1> SUFFICES ASSUME MInv, [RpcNext]_rpcVars PROVE MInv'
  OBVIOUS
<1>1. EInv'
  BY NextEInv DEF MInv
<1>2. TypeOK /\ IdsDiffer /\ RoutesDiffer /\ PacketsTrue /\ ChannelsTrue
      /\ OkHandled
  BY DEF MInv, EInv
<1>3. CASE \E m \in requests \cup responses : lose(m)
  BY <1>1, <1>2, <1>3
     DEF lose, MInv, IdsDiffer, RoutesDiffer, OkHandled, PacketsTrue,
         ChannelsTrue, Begun, Alone, faultVars
<1>4. CASE \E s \in Servers : restart(s)
  <2>1. PICK s \in Servers : restart(s)
    BY <1>4
  <2>2. restarts' # 0
    BY <1>2, <2>1 DEF restart, TypeOK
  <2>3. /\ UNCHANGED <<cid, requests, responses, handled>>
        /\ \A c \in Calls : state'[c] = state[c]
                             \/ (Begun(c) /\ state'[c] = "lost")
    BY <1>2, <2>1 DEF restart, Begun
  <2>4. \A m \in requests \cup responses : m.call \in Calls
    BY <1>2 DEF TypeOK, Packet
  <2>5. IdsDiffer' /\ ChannelsTrue' /\ OkHandled'
    BY <2>2 DEF IdsDiffer, ChannelsTrue, OkHandled, Alone
  <2>6. RoutesDiffer' /\ PacketsTrue'
    BY <1>2, <2>3, <2>4 DEF RoutesDiffer, PacketsTrue, Begun
  <2> QED
    BY <1>1, <2>5, <2>6 DEF MInv
<1>5. CASE UNCHANGED rpcVars
  BY <1>1, <1>2, <1>5
     DEF rpcVars, MInv, IdsDiffer, RoutesDiffer, OkHandled, PacketsTrue,
         ChannelsTrue, Begun, Alone
<1> QED
  BY <1>1, <1>3, <1>4, <1>5, CallStepMInv, RequestMInv, ResponseMInv DEF RpcNext

\* Until a restart, and where no other server calls the caller, every call
\* that succeeds got the answer of its own handler, through timeouts, losses,
\* hang-ups and repeated requests, for any number of concurrent calls.
THEOREM AnswersMatchForOneCaller == RpcSpec => []OneCallerAnswersMatch
<1>1. MInv => OneCallerAnswersMatch
  BY DEF MInv, ChannelsTrue, OkHandled, Alone, OneCallerAnswersMatch,
         GotItsAnswer
<1> QED
  BY <1>1, InitMInv, NextMInv, PTL DEF RpcSpec
==============================================================================
