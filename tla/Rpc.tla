--------------------------------- MODULE Rpc ---------------------------------
(***************************************************************************)
(* Request and response between NodeServers (zona-p2p-server/src/server.rs *)
(* and http_api.rs): send_and_wait registers a correlation id, has the     *)
(* request relayed to the destination, and waits; the destination's        *)
(* `deliver' runs a handler and posts the response straight back; deliver  *)
(* at the caller hands it to the waiting call.                             *)
(*                                                                         *)
(* Between caller and destination the relay of module Relay is a network   *)
(* that delivers a request late, repeatedly or never.  A payload is the    *)
(* call it belongs to and whether it is the request or the response.       *)
(***************************************************************************)
EXTENDS Naturals, FiniteSets

CONSTANTS
    Servers,       \* NodeServers, one process each
    Calls,         \* POST /api/packet requests
    Caller,        \* Caller[c]: the server that gets the request
    Callee,        \* Callee[c]: its destination
    MaxDuplicates, \* bound on repeated deliveries of requests
    MaxRestarts,   \* bound on restarts of processes
    MaxCancels     \* bound on clients that hang up

ASSUME CallsAssumption ==
    Caller \in [Calls -> Servers] /\ Callee \in [Calls -> Servers]

VARIABLES
    next_cid,   \* next_cid[s]: the process-wide counter
    pending,    \* pending[s]: correlation ids and the calls that wait on them
    state,      \* state[c]: where send_and_wait is
    cid,        \* cid[c]: its correlation id (0: none yet)
    channel,    \* channel[c]: what was sent into its oneshot channel
    requests,   \* requests being relayed
    responses,  \* responses being posted
    handled,    \* history: handled[c]: runs of the destination's handler for c
    dups, restarts, cancels

rpcVars == <<next_cid, pending, state, cid, channel, requests, responses, handled,
          dups, restarts, cancels>>
faultVars == <<dups, restarts, cancels>>

Finished == {"ok", "error", "timeout"}

\* A payload with the correlation id it travels under; run tells apart the
\* responses to a repeated request.
Message(kind, c) == [kind |-> kind, call |-> c, cid |-> cid[c], run |-> 0]

RpcInit ==
    /\ next_cid = [s \in Servers |-> 1]
    /\ pending = [s \in Servers |-> {}]
    /\ state = [c \in Calls |-> "idle"]
    /\ cid = [c \in Calls |-> 0]
    /\ channel = [c \in Calls |-> {}]
    /\ requests = {}
    /\ responses = {}
    /\ handled = [c \in Calls |-> 0]
    /\ dups = 0 /\ restarts = 0 /\ cancels = 0

RemovePending(s, id) == [pending EXCEPT ![s] = {e \in @ : e.cid # id}]

\* Mutant: the id is read but the counter is not advanced.
SendWithSharedCid(c) ==
    LET s == Caller[c] IN
    /\ state[c] = "idle"
    /\ cid' = [cid EXCEPT ![c] = next_cid[s]]
    /\ pending' = [pending EXCEPT ![s] =
          {e \in @ : e.cid # next_cid[s]} \cup {[cid |-> next_cid[s], call |-> c]}]
    /\ state' = [state EXCEPT ![c] = IF Callee[c] = s THEN "local" ELSE "routed"]
    /\ UNCHANGED <<next_cid, channel, requests, responses, handled, faultVars>>

\* The first lock of send_and_wait: take an id, register it, look for a route.
send_and_wait(c) ==
    LET s == Caller[c] IN
    /\ state[c] = "idle"
    /\ cid' = [cid EXCEPT ![c] = next_cid[s]]
    /\ next_cid' = [next_cid EXCEPT ![s] = @ + 1]
    /\ pending' = [pending EXCEPT ![s] =
          {e \in @ : e.cid # next_cid[s]} \cup {[cid |-> next_cid[s], call |-> c]}]
    /\ state' = [state EXCEPT ![c] = IF Callee[c] = s THEN "local" ELSE "routed"]
    /\ UNCHANGED <<channel, requests, responses, handled, faultVars>>

\* The destination is the caller: no network and no channel.  No handler matches,
\* or one does and answers or not.
dispatch_locally(c) ==
    /\ state[c] = "local"
    /\ pending' = RemovePending(Caller[c], cid[c])
    /\ \/ state' = [state EXCEPT ![c] = "ok"]
          /\ handled' = [handled EXCEPT ![c] = @ + 1]
       \/ state' = [state EXCEPT ![c] = "error"]
          /\ handled' \in {handled, [handled EXCEPT ![c] = @ + 1]}
    /\ UNCHANGED <<next_cid, cid, channel, requests, responses, faultVars>>

\* Mutant: a call without a route leaves its entry behind.
NoRouteKeepsPending(c) ==
    /\ state[c] = "routed"
    /\ state' = [state EXCEPT ![c] = "error"]
    /\ UNCHANGED <<next_cid, pending, cid, channel, requests, responses, handled,
                   faultVars>>

no_route(c) ==
    /\ state[c] = "routed"
    /\ state' = [state EXCEPT ![c] = "error"]
    /\ pending' = RemovePending(Caller[c], cid[c])
    /\ UNCHANGED <<next_cid, cid, channel, requests, responses, handled, faultVars>>

\* The request is posted to the first hop.
post_relay(c) ==
    /\ state[c] = "routed"
    /\ state' = [state EXCEPT ![c] = "relaying"]
    /\ requests' = requests \cup {Message("request", c)}
    /\ UNCHANGED <<next_cid, pending, cid, channel, responses, handled, faultVars>>

\* The post ends.  RelayResponse.delivered is not looked at, so the call waits
\* for a response even when the relay has failed.
relay_returns(c) ==
    /\ state[c] = "relaying"
    /\ state' = [state EXCEPT ![c] = "waiting"]
    /\ UNCHANGED <<next_cid, pending, cid, channel, requests, responses, handled,
                   faultVars>>

\* The post fails, whether or not the request goes on.
relay_fails(c) ==
    /\ state[c] = "relaying"
    /\ state' = [state EXCEPT ![c] = "error"]
    /\ pending' = RemovePending(Caller[c], cid[c])
    /\ UNCHANGED <<next_cid, cid, channel, requests, responses, handled, faultVars>>

\* Mutant: the wait has no timer.
TimerNeverFires(c) == FALSE /\ UNCHANGED rpcVars

response_arrives(c) ==
    /\ state[c] = "waiting"
    /\ channel[c] # {}
    /\ state' = [state EXCEPT ![c] = "ok"]
    /\ UNCHANGED <<next_cid, pending, cid, channel, requests, responses, handled,
                   faultVars>>

\* The timer fires before anything is in the channel; the entry is removed
\* under the lock, which is taken later.
timer_fires(c) ==
    /\ state[c] = "waiting"
    /\ channel[c] = {}
    /\ state' = [state EXCEPT ![c] = "expired"]
    /\ UNCHANGED <<next_cid, pending, cid, channel, requests, responses, handled,
                   faultVars>>

give_up(c) ==
    /\ state[c] = "expired"
    /\ state' = [state EXCEPT ![c] = "timeout"]
    /\ pending' = RemovePending(Caller[c], cid[c])
    /\ UNCHANGED <<next_cid, cid, channel, requests, responses, handled, faultVars>>

\* The first step of deliver: a call of this server that waits on the message's
\* correlation id gets the message, whoever sent it.
Waiter(s, m) == {e \in pending[s] : e.cid = m.cid}
Resolve(s, m) ==
    /\ Waiter(s, m) # {}
    /\ pending' = RemovePending(s, m.cid)
    /\ channel' = [c \in Calls |->
          IF \E e \in Waiter(s, m) : e.call = c THEN {m} ELSE channel[c]]

\* A request at its destination: it resolves a waiting call, or no handler
\* matches it, or one does and may answer.  It may be delivered again later.
deliver_request(m) ==
    /\ \/ requests' = requests \ {m} /\ UNCHANGED dups
       \/ dups < MaxDuplicates /\ dups' = dups + 1 /\ UNCHANGED requests
    /\ \/ /\ Resolve(Callee[m.call], m)
          /\ UNCHANGED <<responses, handled>>
       \/ /\ Waiter(Callee[m.call], m) = {}
          /\ \/ UNCHANGED <<responses, handled>>
             \/ /\ handled' = [handled EXCEPT ![m.call] = @ + 1]
                /\ responses' \in {responses, responses \cup
                      {[m EXCEPT !.kind = "response", !.run = handled'[m.call]]}}
          /\ UNCHANGED <<pending, channel>>
    /\ UNCHANGED <<next_cid, state, cid, restarts, cancels>>

\* A response at the caller.  Without a waiter it is handed to the handlers like
\* any other packet; what they return goes nowhere.
deliver_response(m) ==
    /\ responses' = responses \ {m}
    /\ \/ Resolve(Caller[m.call], m)
       \/ Waiter(Caller[m.call], m) = {} /\ UNCHANGED <<pending, channel>>
    /\ UNCHANGED <<next_cid, state, cid, requests, handled, faultVars>>

\* A request or a response is lost.
lose(m) ==
    /\ requests' = requests \ {m}
    /\ responses' = responses \ {m}
    /\ UNCHANGED <<next_cid, pending, state, cid, channel, handled, faultVars>>

\* The process of s restarts: its counter starts at 1 again.
restart(s) ==
    /\ restarts < MaxRestarts
    /\ restarts' = restarts + 1
    /\ next_cid' = [next_cid EXCEPT ![s] = 1]
    /\ pending' = [pending EXCEPT ![s] = {}]
    /\ state' = [c \in Calls |->
          IF Caller[c] = s /\ state[c] \notin Finished \cup {"idle"}
            THEN "lost" ELSE state[c]]
    /\ UNCHANGED <<cid, channel, requests, responses, handled, dups, cancels>>

\* The client of POST /api/packet hangs up, and the server drops the future of
\* the handler at the await where it is.
hang_up(c) ==
    /\ cancels < MaxCancels
    /\ cancels' = cancels + 1
    /\ state[c] \in {"relaying", "waiting"}
    /\ state' = [state EXCEPT ![c] = "cancelled"]
    /\ UNCHANGED <<next_cid, pending, cid, channel, requests, responses, handled,
                   dups, restarts>>

OwnStep(c) ==
    \/ send_and_wait(c) \/ dispatch_locally(c) \/ no_route(c) \/ post_relay(c)
    \/ response_arrives(c) \/ timer_fires(c) \/ give_up(c)

RpcNext ==
    \/ \E c \in Calls : OwnStep(c) \/ relay_returns(c) \/ relay_fails(c) \/ hang_up(c)
    \/ \E m \in requests : deliver_request(m)
    \/ \E m \in responses : deliver_response(m)
    \/ \E m \in requests \cup responses : lose(m)
    \/ \E s \in Servers : restart(s)

RpcSpec == RpcInit /\ [][RpcNext]_rpcVars

\* The caller's own code and its timer run; nothing is assumed of the others: the
\* request of a post has no time-out, so that a post may last for ever.
RpcFairSpec == RpcSpec /\ \A c \in Calls : WF_rpcVars(OwnStep(c))

-----------------------------------------------------------------------------
(***************************************************************************)
(* Properties.                                                             *)
(***************************************************************************)

\* A call that succeeds got the response to its own request, and the handler of
\* its destination has run.
GotItsAnswer(c) ==
    state[c] = "ok" =>
        /\ handled[c] > 0
        /\ Callee[c] # Caller[c] =>
              \A m \in channel[c] : m.kind = "response" /\ m.call = c

\* `Opaque token to match a response with a waiting send_and_wait()'
\* (server.rs): every call gets its own answer, though every server numbers its
\* calls from 1 and deliver tells requests from responses by the number only.
AnswersMatch == \A c \in Calls : GotItsAnswer(c)

\* Where the numbers are unambiguous (nothing has restarted, and no other server
\* calls this one) concurrent calls get their own answers, through timeouts,
\* losses and repeated requests.
OneCallerAnswersMatch ==
    \A c \in Calls :
        (restarts = 0 /\ \A d \in Calls : Callee[d] = Caller[c] => Caller[d] = Caller[c])
            => GotItsAnswer(c)

\* Whatever way send_and_wait returns, its entry is gone: the timeout that races
\* a late response, the failed post and the missing route included.
FinishedLeavesNothing ==
    \A s \in Servers : \A e \in pending[s] : state[e.call] \notin Finished

\* Once its post has ended, a call returns: whatever becomes of the request, its
\* repetitions and the response, the caller waits no longer than its timer.  (A call
\* waits once, so that it is enough that again and again nobody waits.)
WaitsNoLongerThanTimer == []<>(\A c \in Calls : state[c] \notin {"waiting", "expired"})

\* Every call returns, as http_api.rs promises with max_wait_ms.
CallReturns ==
    \A c \in Calls :
        state[c] # "idle" ~> state[c] \in Finished \cup {"lost", "cancelled"}
==============================================================================
