------------------------------ MODULE HttpProxy ------------------------------
(***************************************************************************)
(* Web pages through the overlay: zona-curl (`serve' answers a browser,    *)
(* `fetch' is the same with one request), zona-dns and proxy-server.       *)
(*                                                                         *)
(* zona-curl asks one bootstrap node for its neighbours.  Each request has *)
(* a thread of its own, which looks the host up at the zona-dns node and   *)
(* sends the request to a proxy-server, both through relay_sync: one peer  *)
(* after the other until one answers.  The relay itself is module Relay;   *)
(* here a call through a peer arrives or not, and when a connection on the *)
(* way breaks, the copy of the message beyond the break goes on unseen.    *)
(* A browser that leaves changes nothing: its thread goes on.              *)
(*                                                                         *)
(* Data abstraction.  URLs, headers and bodies are those of the request;   *)
(* a page stands for any answer of the web server, whatever its status.    *)
(***************************************************************************)
EXTENDS Naturals, Sequences, FiniteSets, SequencesExt

CONSTANTS
    Requests,
    Host,        \* Host[r]: the host that r asks for, as it is written
    Lower,       \* Lower[h]: the host name h trimmed and in lower case
    Nodes,
    Serves,      \* Serves[n]: "dns", "proxy", "any" (a catch-all) or "none"
    Junk,        \* identifiers in arguments and zones that are not NodeIds
    ZoneFile,    \* the YAML file: a set of [domain, ids]
    Arguments,   \* command lines: [nodes, proxy, dns, refused], where `refused' tells
                 \* who finds the method, headers or body of a fetch malformed
                 \* ("client", "proxy" or "nobody")
    Networks,    \* [neighbors, reach]: what nodes answer, whom they can reach
    MaxFaults,   \* bound on broken connections and time-outs
    MaxStops,    \* bound on nodes that stop
    NoNode

VARIABLES
    args,        \* the command line
    zones,       \* the table of zona-dns
    network,     \* the overlay, fixed
    up,          \* nodes that run
    serving,     \* "starting", "bootstrap", "ready" or "exited"
    seeds,       \* bootstrap nodes not tried yet
    peers,       \* the peers of the ServeState, never refreshed
    thread,      \* thread[r]: the thread that serves r
    orphans,     \* orphans[r]: copies of r that nobody waits for any more
    upstream,    \* history: what r made proxy-servers do, see Outcomes
    faults       \* faults[r]: breaks and time-outs that r met

vars == <<args, zones, network, up, serving, seeds, peers, thread, orphans,
          upstream, faults>>
fixed == <<args, zones, network>>
process == <<serving, seeds, peers>>

-----------------------------------------------------------------------------
(* zona-dns *)

normalize_domain(h) == Lower[h]
Valid(ids) == SelectSeq(ids, LAMBDA id : id \notin Junk)

\* Two spellings of one domain share a key: the one that the HashMap yields last
\* is kept.
load_zones ==
    LET Spelt(d) == {z \in ZoneFile : normalize_domain(z.domain) = d}
        domains == {normalize_domain(z.domain) : z \in ZoneFile}
    IN  {t \in [domains -> {Valid(z.ids) : z \in ZoneFile}] :
            \A d \in domains : \E z \in Spelt(d) : t[d] = Valid(z.ids)}

lookup(h) ==
    IF normalize_domain(h) \in DOMAIN zones THEN zones[normalize_domain(h)] ELSE << >>

-----------------------------------------------------------------------------
(* Start-up of zona-curl *)

NewThread == [leg |-> "new", to |-> NoNode, tried |-> 0, call |-> "none",
              answer |-> "none", result |-> "none"]
Nothing == [reached |-> 0, pages |-> 0]

Init ==
    /\ args \in Arguments /\ seeds = args.nodes
    /\ zones \in load_zones
    /\ network \in Networks
    /\ up = Nodes
    /\ serving = "starting" /\ peers = << >>
    /\ thread = [r \in Requests |-> NewThread]
    /\ orphans = [r \in Requests |-> 0]
    /\ upstream = [r \in Requests |-> Nothing]
    /\ faults = [r \in Requests |-> 0]

\* Without a proxy and a zona-dns node, or with a malformed identifier, the
\* program ends.
run_serve ==
    /\ serving = "starting"
    /\ serving' = IF \/ args.proxy = NoNode /\ args.dns = NoNode
                     \/ {args.proxy, args.dns} \cap Junk # {}
                    THEN "exited" ELSE "bootstrap"
    /\ UNCHANGED <<fixed, up, seeds, peers, thread, orphans, upstream, faults>>

\* The first bootstrap node that answers, and its neighbours, become the peers; a
\* node that runs may still answer with something unusable.
bootstrap_peers ==
    /\ serving = "bootstrap"
    /\ \/ /\ seeds = << >>
          /\ serving' = "exited"
          /\ UNCHANGED <<seeds, peers>>
       \/ /\ seeds # << >> /\ Head(seeds) \in up
          /\ serving' = "ready"
          /\ peers' = <<Head(seeds)>> \o network.neighbors[Head(seeds)]
          /\ UNCHANGED seeds
       \/ /\ seeds # << >>
          /\ seeds' = Tail(seeds)
          /\ UNCHANGED <<serving, peers>>
    /\ UNCHANGED <<fixed, up, thread, orphans, upstream, faults>>

-----------------------------------------------------------------------------
(* The thread of a request *)

Set(r, t) == thread' = [thread EXCEPT ![r] = t]
Done(t, result) == [NewThread EXCEPT !.leg = "done", !.to = t.to, !.result = result]
Failed(t) == Done(t, "failed")

\* A relay_sync to node `to' begins.
Towards(leg, to) ==
    [NewThread EXCEPT !.leg = leg, !.to = to]

\* With the proxy known, the request is put together and sent to it.
Fetch(r, t, proxy) ==
    IF proxy = NoNode \/ proxy \in Junk \/ args.refused = "client" THEN Failed(t)
    ELSE Towards("proxy", proxy)

\* handler and serve_one_bytes (run_fetch): the zona-dns node, when there is one,
\* is asked even if the proxy is given.
handler(r) ==
    /\ serving = "ready"
    /\ thread[r].leg = "new"
    /\ Set(r, IF args.dns # NoNode THEN Towards("dns", args.dns)
                                   ELSE Fetch(r, thread[r], args.proxy))
    /\ UNCHANGED <<fixed, up, process, orphans, upstream, faults>>

Calling(r) == thread[r].leg \in {"dns", "proxy"}
Via(r) == peers[thread[r].tried]

\* Mutant: the last peer is not tried, nor is the failure noticed.
relay_sync_stuck(r) ==
    /\ Calling(r) /\ thread[r].call = "none"
    /\ thread[r].tried < Len(peers)
    /\ Set(r, [thread[r] EXCEPT !.tried = @ + 1,
                 !.call = IF peers[thread[r].tried + 1] \in up THEN "sent" ELSE "none"])
    /\ UNCHANGED <<fixed, up, process, orphans, upstream, faults>>

\* relay_sync posts to the next peer, or fails when none is left.
relay_sync(r) ==
    /\ Calling(r) /\ thread[r].call = "none"
    /\ Set(r, IF thread[r].tried = Len(peers) THEN Failed(thread[r])
              ELSE [thread[r] EXCEPT !.tried = @ + 1,
                      !.call = IF peers[thread[r].tried + 1] \in up THEN "sent" ELSE "none"])
    /\ UNCHANGED <<fixed, up, process, orphans, upstream, faults>>

Answer(t, a) == [t EXCEPT !.call = "answered", !.answer = a]

Arrives(r) == Via(r) \in up /\ thread[r].to \in up /\ <<Via(r), thread[r].to>> \in network.reach

\* The message arrives and the handler of its prefix runs; a node without one
\* answers nothing, a catch-all something that is no answer to the question.
deliver(r) ==
    LET t == thread[r]
        kind == Serves[t.to]
    IN  /\ t.call = "sent"
        /\ Arrives(r)
        /\ Set(r, CASE kind = t.leg /\ kind = "dns" -> Answer(t, "nodes")
                    [] kind = t.leg /\ kind = "proxy" ->
                         IF args.refused = "proxy" THEN Answer(t, "error")
                         ELSE [t EXCEPT !.call = "handling"]
                    [] kind = "any" -> Answer(t, "text")
                    [] OTHER -> Answer(t, "nothing"))
        /\ UNCHANGED <<fixed, up, process, orphans, upstream, faults>>

\* The peer finds no way to the destination and says so.
not_delivered(r) ==
    /\ thread[r].call = "sent"
    /\ Via(r) \in up /\ ~Arrives(r)
    /\ Set(r, Answer(thread[r], "undelivered"))
    /\ UNCHANGED <<fixed, up, process, orphans, upstream, faults>>

\* What a request of the proxy-server comes to: a page, an error after the web
\* server got the request (its body breaks off, or the answer comes too late) or
\* an error before.
Outcomes ==
    {[reached |-> 1, pages |-> 1], [reached |-> 1, pages |-> 0], Nothing}

Count(r, o) ==
    upstream' = [upstream EXCEPT ![r] = [f \in DOMAIN o |-> @[f] + o[f]]]

do_upstream_request(r) ==
    /\ thread[r].call = "handling"
    /\ thread[r].to \in up
    /\ \E o \in Outcomes :
          /\ Count(r, o)
          /\ Set(r, Answer(thread[r], IF o.pages = 1 THEN "page" ELSE "error"))
    /\ UNCHANGED <<fixed, up, process, orphans, faults>>

\* The proxy that a look-up leads to: the one given, else the first of the zone.
Chosen(r) ==
    IF args.proxy # NoNode THEN args.proxy
    ELSE IF lookup(Host[r]) # << >> THEN Head(lookup(Host[r])) ELSE NoNode

\* Mutant: the first identifier of the zone wins over the one given.
ReturnZoneFirst(r) ==
    /\ thread[r].call = "answered"
    /\ Set(r, CASE thread[r].leg = "dns" /\ thread[r].answer = "nodes" ->
                     Fetch(r, thread[r], IF lookup(Host[r]) # << >> THEN Head(lookup(Host[r]))
                                                                    ELSE args.proxy)
                [] thread[r].leg = "proxy" /\ thread[r].answer = "page" -> Done(thread[r], "page")
                [] OTHER -> Failed(thread[r]))
    /\ UNCHANGED <<fixed, up, process, orphans, upstream, faults>>

\* Mutant: an error of the proxy sends the client on to the next peer.
ReturnAndRetry(r) ==
    /\ thread[r].call = "answered"
    /\ Set(r, CASE thread[r].leg = "dns" /\ thread[r].answer = "nodes" ->
                     Fetch(r, thread[r], Chosen(r))
                [] thread[r].leg = "proxy" /\ thread[r].answer = "page" -> Done(thread[r], "page")
                [] OTHER -> [thread[r] EXCEPT !.call = "none", !.answer = "none"])
    /\ UNCHANGED <<fixed, up, process, orphans, upstream, faults>>

\* Mutant: whatever a node answers is passed on as a page.
ReturnAnything(r) ==
    /\ thread[r].call = "answered"
    /\ Set(r, CASE thread[r].leg = "dns" /\ thread[r].answer = "nodes" ->
                     Fetch(r, thread[r], Chosen(r))
                [] thread[r].leg = "proxy" /\ thread[r].answer # "undelivered" ->
                     Done(thread[r], "page")
                [] OTHER -> Failed(thread[r]))
    /\ UNCHANGED <<fixed, up, process, orphans, upstream, faults>>

\* Any answer of a peer ends the relay_sync: dns_lookup_domain goes on to the
\* proxy, fetch_via_proxy to the page, and every other answer is an error (502).
return(r) ==
    /\ thread[r].call = "answered"
    /\ Set(r, CASE thread[r].leg = "dns" /\ thread[r].answer = "nodes" ->
                     Fetch(r, thread[r], Chosen(r))
                [] thread[r].leg = "proxy" /\ thread[r].answer = "page" -> Done(thread[r], "page")
                [] OTHER -> Failed(thread[r]))
    /\ UNCHANGED <<fixed, up, process, orphans, upstream, faults>>

-----------------------------------------------------------------------------
(* Failures *)

TotalFaults == FoldFunctionOnSet(+, 0, faults, Requests)

\* The caller of a message on its way gives up: the message itself does not.
Orphaned(r) ==
    /\ faults' = [faults EXCEPT ![r] = @ + 1]
    /\ orphans' = [orphans EXCEPT ![r] =
          @ + (IF thread[r].leg = "proxy" /\ thread[r].call \in {"sent", "handling"} THEN 1 ELSE 0)]

\* The client's time-out, or a broken connection to the peer.
client_gives_up(r) ==
    /\ Calling(r) /\ thread[r].call # "none"
    /\ TotalFaults < MaxFaults \/ Via(r) \notin up
    /\ Orphaned(r)
    /\ Set(r, [thread[r] EXCEPT !.call = "none", !.answer = "none"])
    /\ UNCHANGED <<fixed, up, process, upstream>>

\* A connection further on breaks: a relay reports a failure, or sends the
\* message another way.
hop_breaks(r) ==
    /\ thread[r].call \in {"sent", "handling"}
    /\ Via(r) \in up
    /\ TotalFaults < MaxFaults \/ thread[r].to \notin up
    /\ Orphaned(r)
    /\ \/ Set(r, Answer(thread[r], "undelivered"))
       \/ thread[r].to \in up /\ Set(r, [thread[r] EXCEPT !.call = "sent"])
    /\ UNCHANGED <<fixed, up, process, upstream>>

\* A message that nobody waits for reaches its proxy all the same, or is dropped
\* with the connection that carried it.
orphan_ends(r) ==
    /\ orphans[r] > 0
    /\ orphans' = [orphans EXCEPT ![r] = @ - 1]
    /\ \/ UNCHANGED upstream
       \/ /\ thread[r].to \in up
          /\ Serves[thread[r].to] = "proxy" /\ args.refused # "proxy"
          /\ \E o \in Outcomes : Count(r, o)
    /\ UNCHANGED <<fixed, up, process, thread, faults>>

\* A node stops.  Servers that start again have another NodeId.
stops(n) ==
    /\ n \in up
    /\ Cardinality(Nodes \ up) < MaxStops
    /\ up' = up \ {n}
    /\ UNCHANGED <<fixed, process, thread, orphans, upstream, faults>>

Step(r) ==
    \/ relay_sync(r) \/ deliver(r) \/ not_delivered(r) \/ do_upstream_request(r)
    \/ return(r) \/ client_gives_up(r) \/ hop_breaks(r)

Next ==
    \/ run_serve \/ bootstrap_peers
    \/ \E r \in Requests : handler(r) \/ Step(r) \/ orphan_ends(r)
    \/ \E n \in Nodes : stops(n)

Spec == Init /\ [][Next]_vars

\* The threads of the blocking pool run, every request to the web server ends
\* within upstream_timeout_secs, and every call within the client's time-out.
FairSpec == Spec /\ \A r \in Requests : WF_vars(Step(r))

-----------------------------------------------------------------------------
(***************************************************************************)
(* Properties.                                                             *)
(***************************************************************************)

\* A web server gets a request again only because a connection broke or a call
\* timed out, and at most once more for each, though relay_sync goes from peer to
\* peer and the messages it gave up on still arrive.
OncePerBreak == \A r \in Requests : upstream[r].reached <= 1 + faults[r]

\* A page is shown only if the web server sent one.  When nothing broke, no page
\* that the web server sent is withheld.
PagesAreReported ==
    \A r \in Requests :
        /\ thread[r].result = "page" => upstream[r].pages > 0
        /\ thread[r].result = "failed" /\ faults[r] = 0 => upstream[r].pages = 0

\* The zone entries that may name the proxy of host h, in any spelling.
ZoneProxies(h) ==
    {Head(Valid(z.ids)) : z \in {y \in ZoneFile : Lower[y.domain] = Lower[h] /\ Valid(y.ids) # << >>}}

\* A request is sent to the proxy of the command line, or else to the first well
\* formed identifier of a zone of its own host, whatever else runs meanwhile.
RightProxy ==
    \A r \in Requests :
        thread[r].leg = "proxy" \/ upstream[r].reached > 0 =>
            thread[r].to \in (IF args.proxy # NoNode THEN {args.proxy} ELSE ZoneProxies(Host[r]))

\* Every request is answered and leaves its thread, whatever stops or breaks.  (A
\* request is made once, so that it is enough that again and again none is open.)
EveryRequestAnswered == []<>(\A r \in Requests : thread[r].leg \in {"new", "done"})
==============================================================================
