----------------------------- MODULE MCServices ------------------------------
(***************************************************************************)
(* What is built on the relay, for TLC.  A behaviour is of one of two      *)
(* kinds:                                                                  *)
(*                                                                         *)
(* "calls": send_and_wait (Rpc).  One server calls another twice and       *)
(* itself once, or two servers call each other.                            *)
(*                                                                         *)
(* "pages": zona-curl (HttpProxy).  Two bootstrap nodes that know each     *)
(* other, a zona-dns node, two proxy-servers and a node with a catch-all   *)
(* handler, with a proxy given, resolved, both, neither, or malformed.     *)
(* The zone file has one domain in two spellings, an identifier that is    *)
(* none and a domain that leads to the catch-all.                          *)
(***************************************************************************)
EXTENDS Rpc, HttpProxy

CONSTANTS s1, s2, c1, c2, c3
CONSTANTS n1, n2, dns, p1, p2, other, junk, r1, r2

VARIABLE checks      \* "calls" or "pages"

\* s1 calls s2 twice and itself once.
MCCaller == [c \in Calls |-> s1]
MCCallee == [c \in Calls |-> IF c = c3 THEN s1 ELSE s2]
\* s1 and s2 call each other.
MCMutualCaller == [c \in Calls |-> IF c = c1 THEN s1 ELSE s2]
MCMutualCallee == [c \in Calls |-> IF c = c1 THEN s2 ELSE s1]

MCNodes == {n1, n2, dns, p1, p2, other}
MCServes == [n \in MCNodes |-> CASE n = dns -> "dns"
                                 [] n \in {p1, p2} -> "proxy"
                                 [] n = other -> "any"
                                 [] OTHER -> "none"]

MCHost == [r \in {r1, r2} |-> IF r = r1 THEN "WEB" ELSE "blog"]
MCLower == [h \in {"WEB", "Web", "web", "blog"} |-> IF h = "blog" THEN "blog" ELSE "web"]

Zone(domain, ids) == [domain |-> domain, ids |-> ids]
MCZoneFile == {Zone("Web", <<junk, p1, p2>>), Zone("web", <<p2>>), Zone("blog", <<other>>)}

Line(proxy, resolver, refused) ==
    [nodes |-> <<n1, n2>>, proxy |-> proxy, dns |-> resolver, refused |-> refused]
Unusable == Line(NoNode, NoNode, "nobody")
MCArguments ==
    {Line(NoNode, dns, "nobody"), Line(p1, dns, "nobody"), Line(p1, NoNode, "nobody"),
     Line(p1, n2, "nobody"), Line(p1, dns, "client"), Line(p1, NoNode, "proxy"),
     Unusable, Line(junk, dns, "nobody")}

\* n1 reaches everything; n2 does not know of p2.
Neighbors == [n \in MCNodes |-> CASE n = n1 -> <<n2>> [] n = n2 -> <<n1>> [] OTHER -> << >>]
MCNetworks ==
    {[neighbors |-> Neighbors, reach |-> ({n1, n2} \X MCNodes) \ {<<n2, p2>>}]}

allVars == <<rpcVars, vars, checks>>

MCInit ==
    /\ checks \in {"calls", "pages"}
    /\ RpcInit /\ Init
    /\ checks = "calls" => args = Unusable /\ zones = CHOOSE t \in load_zones : TRUE

CallStep(c) == checks = "calls" /\ OwnStep(c) /\ UNCHANGED <<vars, checks>>
PageStep(r) == checks = "pages" /\ Step(r) /\ UNCHANGED <<rpcVars, checks>>

MCNext ==
    \/ checks = "calls" /\ RpcNext /\ UNCHANGED <<vars, checks>>
    \/ checks = "pages" /\ Next /\ UNCHANGED <<rpcVars, checks>>

\* The fairness of RpcFairSpec and of HttpProxy's FairSpec.
MCSpec ==
    /\ MCInit /\ [][MCNext]_allVars
    /\ \A c \in Calls : WF_allVars(CallStep(c))
    /\ \A r \in Requests : WF_allVars(PageStep(r))
==============================================================================
