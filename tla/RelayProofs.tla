------------------------------ MODULE RelayProofs ------------------------------
(***************************************************************************)
(* Proofs about module Relay: one message under any tables, originators    *)
(* and number of broken connections, along routes of any length.           *)
(*                                                                         *)
(* A broken connection leaves a subtree of calls that goes on by itself,   *)
(* so deliveries cannot be bounded by following the originator.  Each tree *)
(* of calls that is still going has exactly one place where it goes on: a  *)
(* call that has no answer to wait for, or a negative answer that its      *)
(* caller waits for.  These places are the live routes; a step moves one,  *)
(* a break adds one, a delivery ends one.  No induction over routes is     *)
(* needed.                                                                 *)
(***************************************************************************)
EXTENDS Relay, SequenceTheorems, FiniteSetTheorems, TLAPS

CallType ==
    [state : {"received", "forward", "fan_out", "replied"}, alts : SUBSET NodeId,
     child : NodeId \cup {NoNode}, delivered : BOOLEAN]

TypeOK ==
    /\ hops \in Seq(NodeId)
    /\ urls \in [NodeId -> SUBSET NodeId]
    /\ table = [n \in NodeId |-> TableOf(n, urls[n])]
    /\ calls = [r \in Routes |-> calls[r]]
    /\ \A r \in Routes : r \in Seq(NodeId) /\ r # << >> /\ calls[r] \in CallType
    /\ waits_for \in NodeId \cup {NoNode}
    /\ result \in {"none", "ok", "failed", "sent"}
    /\ deliveries \in Nat /\ faults \in Nat

\* Every call but the first has its caller among the calls; one that waits has its
\* callee there, and is relaying; one that was only received has done nothing.
TreeOK ==
    /\ \A r \in Routes :
          /\ Len(r) > 1 => Front(r) \in Routes
          /\ calls[r].state = "received" => calls[r] = Received
          /\ calls[r].child # NoNode =>
                calls[r].state \in {"forward", "fan_out"} /\ Append(r, calls[r].child) \in Routes
          /\ calls[r].state = "forward" => calls[r].child # NoNode
          /\ calls[r].state # "replied" => ~calls[r].delivered
    /\ waits_for # NoNode => result = "none" /\ <<waits_for>> \in Routes

\* The caller, or the originator, waits for the answer of r.
Waiting(r) == IF Len(r) = 1 THEN waits_for = r[1] ELSE calls[Front(r)].child = Last(r)

\* Where a tree of calls goes on.
GoesOn(r) ==
    \/ calls[r].state # "replied" /\ calls[r].child = NoNode
    \/ calls[r].state = "replied" /\ ~calls[r].delivered /\ Waiting(r)

\* The live routes; the empty one is the originator, between two first hops.
Live ==
    {r \in Routes : GoesOn(r)}
        \cup (IF result = "none" /\ waits_for = NoNode THEN {<< >>} ELSE {})

\* Every delivery and every live route but one is paid for by a break.
Ledger ==
    /\ IsFiniteSet(Live)
    /\ Cardinality(Live) + deliveries <= 1 + faults
    /\ (result = "failed" /\ faults = 0) => deliveries = 0 /\ Live = {}

\* A reported delivery is one.
Reported ==
    /\ result = "ok" => deliveries > 0
    /\ \A r \in Routes : calls[r].delivered => deliveries > 0

\* The destination answers at once, with a delivery: no route goes on from it.  A
\* message of the destination itself goes nowhere else.
AtDest ==
    /\ \A r \in Routes :
          /\ \A i \in 1..(Len(r) - 1) : r[i] # Dest
          /\ Last(r) = Dest => calls[r].state = "received" \/ calls[r].delivered
          /\ origin = Dest => r[1] = Dest
    /\ origin = Dest => \A i \in DOMAIN hops : hops[i] = Dest

\* While nothing broke, a node that has the destination in its table relays to it
\* and to nobody else.
Straightaway ==
    faults = 0 =>
        \A r \in Routes : Dest \in all_peers(table[Last(r)]) =>
            \/ calls[r].state = "received"
            \/ calls[r].state = "forward" /\ calls[r].child = Dest
            \/ calls[r].delivered

\* The alternatives of a fan-out are not on the path.
Fresh == \A r \in Routes : calls[r].alts \cap path(r) = {}

\* Everything but the ledger.
Sound ==
    /\ TypeOK /\ TreeOK /\ Reported /\ AtDest /\ Straightaway
    /\ Fresh

RInv == Sound /\ Ledger

-----------------------------------------------------------------------------
(* Routes *)

\* A route with one more node.
LEMMA AppendParts ==
    ASSUME NEW r \in Seq(NodeId), NEW h \in NodeId
    PROVE  /\ Append(r, h) \in Seq(NodeId) /\ Append(r, h) # << >>
           /\ Len(Append(r, h)) = Len(r) + 1 /\ Len(r) \in Nat
           /\ Front(Append(r, h)) = r /\ Last(Append(r, h)) = h
           /\ \A i \in 1..Len(r) : Append(r, h)[i] = r[i]
<1> DEFINE x == Append(r, h)
<1>1. /\ x \in Seq(NodeId) /\ Len(x) = Len(r) + 1 /\ Len(r) \in Nat
      /\ \A i \in 1..Len(r) : x[i] = r[i]
      /\ x[Len(x)] = h
  BY AppendProperties, LenProperties
<1>2. x # << >>
  BY <1>1
<1>3. Front(x) = r
  <2>1. /\ Front(x) \in Seq(NodeId) /\ Len(Front(x)) = Len(r)
        /\ \A i \in 1..Len(r) : Front(x)[i] = x[i]
    <3>1. Front(x) = SubSeq(x, 1, Len(r))
      BY <1>1 DEF Front
    <3> HIDE DEF x
    <3> QED
      BY <1>1, <3>1
  <2> HIDE DEF x
  <2> QED
    BY <1>1, <2>1, SeqEqual
<1>4. Last(x) = h
  BY <1>1 DEF Last
<1> QED
  BY <1>1, <1>2, <1>3, <1>4

\* A route has a last node and, when it is longer, a route to the caller.
LEMMA RouteParts ==
    ASSUME NEW r \in Seq(NodeId), r # << >>
    PROVE  /\ Len(r) \in Nat \ {0} /\ Last(r) \in NodeId /\ Last(r) = r[Len(r)]
           /\ Len(r) > 1 => /\ Front(r) \in Seq(NodeId) /\ Front(r) # << >>
                            /\ Len(Front(r)) = Len(r) - 1
                            /\ Append(Front(r), Last(r)) = r /\ Front(r) # r
                            /\ \A i \in 1..(Len(r) - 1) : Front(r)[i] = r[i]
<1>1. Len(r) \in Nat \ {0} /\ Last(r) \in NodeId /\ Last(r) = r[Len(r)]
  BY EmptySeq, LenProperties, ElementOfSeq DEF Last
<1>2. ASSUME Len(r) > 1
      PROVE  /\ Front(r) \in Seq(NodeId) /\ Front(r) # << >>
             /\ Len(Front(r)) = Len(r) - 1
             /\ Append(Front(r), Last(r)) = r /\ Front(r) # r
             /\ \A i \in 1..(Len(r) - 1) : Front(r)[i] = r[i]
  <2> DEFINE f == Front(r)
  <2>1. f \in Seq(NodeId) /\ Len(f) = Len(r) - 1 /\ \A i \in 1..(Len(r) - 1) : f[i] = r[i]
    BY <1>1, <1>2 DEF Front
  <2> HIDE DEF f
  <2>2. f # << >> /\ f # r
    BY <1>1, <1>2, <2>1
  <2>3. Append(f, Last(r)) = r
    <3>1. /\ Append(f, Last(r)) \in Seq(NodeId) /\ Len(Append(f, Last(r))) = Len(r)
          /\ \A i \in 1..Len(r) : Append(f, Last(r))[i] = r[i]
      BY <1>1, <2>1
    <3> QED
      BY <3>1, SeqEqual
  <2> QED
    BY <2>1, <2>2, <2>3 DEF f
<1> QED
  BY <1>1, <1>2

\* The path holds the originator and the nodes of the route after the first hop.
LEMMA PathIs ==
    ASSUME NEW r \in Seq(NodeId), r # << >>, NEW h
    PROVE  h \in path(r) <=> h = origin \/ \E i \in 2..Len(r) : r[i] = h
<1>1. /\ Tail(r) \in Seq(NodeId) /\ Len(r) \in Nat \ {0} /\ Len(Tail(r)) = Len(r) - 1
      /\ \A i \in 1..(Len(r) - 1) : Tail(r)[i] = r[i + 1]
      /\ DOMAIN Tail(r) = 1..(Len(r) - 1)
  BY HeadTailProperties, EmptySeq, LenProperties
<1>2. h \in ToSet(Tail(r)) <=> \E i \in 1..(Len(r) - 1) : r[i + 1] = h
  BY <1>1 DEF ToSet
<1>3. (\E i \in 1..(Len(r) - 1) : r[i + 1] = h) <=> \E i \in 2..Len(r) : r[i] = h
  <2>1. ASSUME NEW i \in 2..Len(r), r[i] = h PROVE \E j \in 1..(Len(r) - 1) : r[j + 1] = h
    <3>1. i - 1 \in 1..(Len(r) - 1) /\ (i - 1) + 1 = i
      BY <1>1
    <3> QED
      BY <2>1, <3>1
  <2>2. ASSUME NEW j \in 1..(Len(r) - 1), r[j + 1] = h PROVE \E i \in 2..Len(r) : r[i] = h
    <3>1. j + 1 \in 2..Len(r)
      BY <1>1
    <3> QED
      BY <2>2, <3>1
  <2> QED
    BY <2>1, <2>2
<1> QED
  BY <1>2, <1>3 DEF path

\* A node that has the destination in its table sends to it, and can.
LEMMA DestIsBest ==
    ASSUME TypeOK, NEW n \in NodeId, n # Dest, Dest \in all_peers(table[n])
    PROVE  /\ next_hop(n, Dest, table[n]) = "Forward"
           /\ BestHop(Dest, table[n]) = Dest /\ Dest \in urls[n]
<1> DEFINE t == table[n]
           d == Distance[Dest]
<1>1. t = TableOf(n, urls[n]) /\ urls[n] \subseteq NodeId
  BY DEF TypeOK
<1>2. ASSUME NEW s \in t.slots PROVE s.peer_id \in urls[n] /\ s.ewma_loss = "low"
  <2>1. PICK p \in urls[n] : s = NewEntry("Greedy", p, p)
    <3> HIDE DEF t
    <3> QED
      BY <1>1 DEF TableOf
  <2> QED
    BY <2>1 DEF NewEntry
<1>3. Alive(t) = t.slots
  BY <1>2 DEF Alive, should_evict
<1> HIDE DEF t
<1>4. PICK s \in t.slots : s.peer_id = Dest
  BY DEF all_peers, t
<1>5. /\ \A x \in t.slots : d[x.peer_id] \in Nat /\ x.peer_id \in NodeId
      /\ d[Dest] = 0 /\ \A b \in NodeId : d[b] = 0 => b = Dest
      /\ d[n] \in Nat
  BY <1>1, <1>2, DistanceAssumption, RelayAssumption
<1> HIDE DEF d
<1>6. s \in Alive(t) /\ \A other \in Alive(t) : d[s.peer_id] <= d[other.peer_id]
  BY <1>3, <1>4, <1>5
<1>7. PICK b \in Alive(t) :
          /\ BestHop(Dest, t) = b.peer_id
          /\ \A other \in Alive(t) : d[b.peer_id] <= d[other.peer_id]
  BY <1>6 DEF BestHop, d
<1>8. d[b.peer_id] = 0
  BY <1>3, <1>4, <1>5, <1>6, <1>7
<1>9. b.peer_id = Dest
  BY <1>3, <1>5, <1>7, <1>8
<1>10. d[Dest] < d[n]
  BY <1>5
<1>11. Forwards(n, Dest, t)
  BY <1>6, <1>7, <1>9, <1>10 DEF Forwards, d
<1> QED
  BY <1>2, <1>4, <1>7, <1>9, <1>11 DEF next_hop, t

-----------------------------------------------------------------------------
(* The two ways in which a node changes the calls *)

\* A call that waits for nobody changes: it replies, or chooses its alternatives.
\* No other route becomes live, and a child that had replied is not waited for.
LEMMA SetStep ==
    ASSUME Sound, NEW r \in Routes, NEW c \in CallType, Set(r, c), UnchangedOutside,
           c.child = NoNode, c.state \in {"fan_out", "replied"},
           c.state = "fan_out" => ~c.delivered,
           c.alts \cap path(r) = {},
           deliveries' \in Nat, faults' \in Nat, deliveries <= deliveries', faults <= faults',
           c.delivered => deliveries' > 0,
           Last(r) = Dest => c.delivered,
           faults' = 0 /\ Dest \in all_peers(table[Last(r)]) => c.delivered
    PROVE  /\ Sound'
           /\ Live' \subseteq Live \cup {r}
           /\ c.delivered => r \notin Live'
           /\ c.state = "replied" /\ ~Waiting(r) => r \notin Live'
           /\ \A y \in Routes :
                 (Len(y) > 1 /\ Front(y) = r /\ calls[y].state = "replied") => y \notin Live'
<1>1. /\ Routes' = Routes /\ calls'[r] = c /\ \A x \in Routes : x # r => calls'[x] = calls[x]
      /\ calls' = [x \in Routes |-> calls'[x]]
  BY DEF Set, Sound, TypeOK, Routes
<1>2. UNCHANGED <<origin, hops, table, urls, waits_for, result>>
  BY DEF UnchangedOutside, fixed
<1>3. /\ \A x \in Routes : x \in Seq(NodeId) /\ x # << >> /\ calls[x] \in CallType
      /\ deliveries \in Nat /\ faults \in Nat
  BY DEF Sound, TypeOK
<1>4. TypeOK'
  BY <1>1, <1>2, <1>3 DEF Sound, TypeOK
<1>5. TreeOK'
  BY <1>1, <1>2, <1>3 DEF Sound, TreeOK, Received
<1>6. Reported'
  BY <1>1, <1>2, <1>3 DEF Sound, Reported
<1>7. AtDest'
  BY <1>1, <1>2 DEF Sound, AtDest
<1>8. Straightaway'
  BY <1>1, <1>2, <1>3 DEF Sound, Straightaway
<1>9. Fresh'
  BY <1>1, <1>2 DEF Sound, Fresh, path
<1>10. ASSUME NEW x \in Routes PROVE Waiting(x)' => Waiting(x) /\ (Len(x) > 1 => Front(x) # r)
  <2>1. CASE Len(x) = 1
    BY <1>2, <2>1 DEF Waiting
  <2>2. CASE Len(x) # 1
    <3>1. Len(x) > 1 /\ Last(x) \in NodeId /\ Front(x) \in Routes
      BY <1>3, <2>2, RouteParts DEF Sound, TreeOK
    <3> QED
      BY <1>1, <2>2, <3>1, RelayAssumption DEF Waiting
  <2> QED
    BY <2>1, <2>2
<1>11. ASSUME NEW x \in Routes, x # r, GoesOn(x)' PROVE GoesOn(x)
  BY <1>1, <1>10, <1>11 DEF GoesOn
<1>12. << >> \notin Routes /\ (<< >> \in Live' => << >> \in Live)
  BY <1>1, <1>2, <1>3 DEF Live
<1>13. Live' \subseteq Live \cup {r}
  BY <1>1, <1>2, <1>11 DEF Live
<1>14. c.delivered => r \notin Live'
  BY <1>1, <1>2, <1>3, <1>12 DEF Live, GoesOn
<1>15. c.state = "replied" /\ ~Waiting(r) => r \notin Live'
  BY <1>1, <1>2, <1>3, <1>10, <1>12 DEF Live, GoesOn
<1>16. ASSUME NEW y \in Routes, Len(y) > 1, Front(y) = r, calls[y].state = "replied"
       PROVE  y \notin Live'
  <2>1. y # r
    BY <1>3, <1>16, RouteParts
  <2>2. ~GoesOn(y)'
    BY <1>1, <1>10, <1>16, <2>1 DEF GoesOn
  <2> QED
    BY <1>1, <1>12, <2>2 DEF Live
<1> QED
  BY <1>4, <1>5, <1>6, <1>7, <1>8, <1>9, <1>13, <1>14, <1>15, <1>16 DEF Sound

\* A live call relays: the call it makes is live in its place.
LEMMA CallStep ==
    ASSUME Sound, NEW r \in Routes, NEW h \in NodeId, NEW c \in CallType,
           calls' = [x \in Routes \cup {Append(r, h)} |->
                        IF x = r THEN c
                        ELSE IF x = Append(r, h) THEN Received ELSE calls[x]],
           UnchangedOutside, UNCHANGED <<deliveries, faults>>,
           c.child = h, c.state \in {"forward", "fan_out"}, ~c.delivered,
           c.alts \cap path(r) = {}, h \notin path(r), Last(r) # Dest,
           faults = 0 /\ Dest \in all_peers(table[Last(r)]) => c.state = "forward" /\ h = Dest
    PROVE  /\ Sound'
           /\ Live' \subseteq (Live \ {r}) \cup {Append(r, h)}
<1> DEFINE n == Append(r, h)
<1>1. UNCHANGED <<origin, hops, table, urls, waits_for, result, deliveries, faults>>
  BY DEF UnchangedOutside, fixed
<1>2. /\ \A x \in Routes : x \in Seq(NodeId) /\ x # << >> /\ calls[x] \in CallType
      /\ deliveries \in Nat /\ faults \in Nat
  BY DEF Sound, TypeOK
<1>3. /\ n \in Seq(NodeId) /\ n # << >> /\ n # r /\ Len(n) = Len(r) + 1 /\ Len(r) \in Nat \ {0}
      /\ Len(n) > 1 /\ Front(n) = r /\ Last(n) = h /\ \A i \in 1..Len(r) : n[i] = r[i]
  <2>1. r \in Seq(NodeId) /\ r # << >>
    BY <1>2
  <2>2. Len(r) \in Nat \ {0}
    BY <2>1, RouteParts
  <2>3. /\ n \in Seq(NodeId) /\ n # << >> /\ Len(n) = Len(r) + 1
        /\ Front(n) = r /\ Last(n) = h /\ \A i \in 1..Len(r) : n[i] = r[i]
    BY <2>1, AppendParts
  <2> HIDE DEF n
  <2> QED
    BY <2>2, <2>3
<1>4. calls' = [x \in Routes \cup {n} |->
                   IF x = r THEN c ELSE IF x = n THEN Received ELSE calls[x]]
  OBVIOUS
<1>5. h \in NodeId /\ h \notin path(r)
  OBVIOUS
<1>7. Append(r, h) = n
  OBVIOUS
<1> HIDE DEF n
<1>8. /\ Routes' = Routes \cup {n} /\ calls'[r] = c /\ calls'[n] = Received
      /\ \A x \in Routes : x # r /\ x # n => calls'[x] = calls[x]
      /\ calls' = [x \in Routes' |-> calls'[x]]
  BY <1>3, <1>4 DEF Routes
<1>9. /\ Received \in CallType /\ Received.state = "received" /\ Received.child = NoNode
      /\ Received.alts = {} /\ ~Received.delivered
  BY DEF Received, CallType
<1>10. TypeOK'
  BY <1>1, <1>2, <1>3, <1>8, <1>9 DEF Sound, TypeOK
<1>11. TreeOK'
  <2>1. ASSUME NEW x \in Routes'
        PROVE  /\ Len(x) > 1 => Front(x) \in Routes'
               /\ calls'[x].state = "received" => calls'[x] = Received
               /\ calls'[x].child # NoNode =>
                     /\ calls'[x].state \in {"forward", "fan_out"}
                     /\ Append(x, calls'[x].child) \in Routes'
               /\ calls'[x].state = "forward" => calls'[x].child # NoNode
               /\ calls'[x].state # "replied" => ~calls'[x].delivered
    <3>1. CASE x = n
      BY <1>3, <1>8, <1>9, <3>1
    <3>2. CASE x = r
      BY <1>3, <1>7, <1>8, <3>2, RelayAssumption DEF Sound, TreeOK
    <3>3. CASE x # n /\ x # r
      BY <1>8, <3>3 DEF Sound, TreeOK
    <3> QED
      BY <3>1, <3>2, <3>3
  <2>2. waits_for' # NoNode => result' = "none" /\ <<waits_for'>> \in Routes'
    BY <1>1, <1>8 DEF Sound, TreeOK
  <2> QED
    BY <2>1, <2>2 DEF TreeOK, Routes
<1>12. Reported'
  BY <1>1, <1>8, <1>9 DEF Sound, Reported
<1>13. AtDest'
  <2>1. ASSUME NEW x \in Routes'
        PROVE  /\ \A i \in 1..(Len(x) - 1) : x[i] # Dest
               /\ Last(x) = Dest => calls'[x].state = "received" \/ calls'[x].delivered
               /\ origin = Dest => x[1] = Dest
    <3>1. CASE x = n
      <4>1. \A i \in 1..Len(r) : r[i] # Dest
        BY <1>2, <1>3, RouteParts DEF Sound, AtDest
      <4>2. \A i \in 1..(Len(n) - 1) : n[i] # Dest
        BY <1>3, <4>1
      <4>3. origin = Dest => n[1] = Dest
        BY <1>3 DEF Sound, AtDest
      <4> QED
        BY <1>8, <1>9, <3>1, <4>2, <4>3
    <3>2. CASE x = r
      BY <3>2 DEF Sound, AtDest
    <3>3. CASE x # n /\ x # r
      BY <1>8, <3>3 DEF Sound, AtDest
    <3> QED
      BY <3>1, <3>2, <3>3
  <2> QED
    BY <1>1, <2>1 DEF AtDest, Routes, Sound
<1>14. Straightaway'
  BY <1>1, <1>3, <1>8, <1>9 DEF Sound, Straightaway
<1>15. Fresh'
  BY <1>1, <1>8, <1>9 DEF Sound, Fresh, path
<1>17. ASSUME NEW x \in Routes, x # r, x # n, Waiting(x)' PROVE Waiting(x)
  <2>1. CASE Len(x) = 1
    BY <1>1, <1>17, <2>1 DEF Waiting
  <2>2. CASE Len(x) # 1
    <3>1. Len(x) > 1 /\ Last(x) \in NodeId /\ Append(Front(x), Last(x)) = x /\ Front(x) \in Routes
      BY <1>2, <2>2, RouteParts DEF Sound, TreeOK
    <3>2. calls'[Front(x)].child = Last(x)
      BY <1>17, <2>2 DEF Waiting
    <3>3. Front(x) # r
      BY <1>7, <1>8, <1>17, <3>1, <3>2
    <3>4. Front(x) # n
      BY <1>8, <1>9, <3>1, <3>2, RelayAssumption
    <3> QED
      BY <1>8, <2>2, <3>1, <3>2, <3>3, <3>4 DEF Waiting
  <2> QED
    BY <2>1, <2>2
<1>18. ~GoesOn(r)'
  BY <1>8, RelayAssumption DEF GoesOn
<1>19. ASSUME NEW x \in Live', x # n PROVE x \in Live \ {r}
  <2>1. CASE x \in Routes' /\ GoesOn(x)'
    <3>1. x \in Routes /\ x # r
      BY <1>8, <1>18, <1>19, <2>1
    <3>2. GoesOn(x)
      BY <1>8, <1>17, <1>19, <2>1, <3>1 DEF GoesOn
    <3> QED
      BY <3>1, <3>2 DEF Live
  <2>2. CASE x = << >> /\ result = "none" /\ waits_for = NoNode
    BY <1>2, <2>2 DEF Live
  <2> QED
    BY <1>1, <1>19, <2>1, <2>2 DEF Live, Routes
<1>20. Live' \subseteq (Live \ {r}) \cup {n}
  BY <1>19
<1> QED
  BY <1>7, <1>10, <1>11, <1>12, <1>13, <1>14, <1>15, <1>20 DEF Sound

-----------------------------------------------------------------------------
(* The ledger *)

\* A set that gains at most one element, and loses one, or none.
LEMMA Counting ==
    ASSUME NEW S, IsFiniteSet(S), NEW T
    PROVE  /\ Cardinality(S) \in Nat
           /\ T \subseteq S => IsFiniteSet(T) /\ Cardinality(T) \in Nat
                               /\ Cardinality(T) <= Cardinality(S)
           /\ \A b : T \subseteq S \cup {b} =>
                 IsFiniteSet(T) /\ Cardinality(T) \in Nat /\ Cardinality(T) <= Cardinality(S) + 1
           /\ \A a \in S : T \subseteq S \ {a} =>
                 IsFiniteSet(T) /\ Cardinality(T) \in Nat /\ Cardinality(T) <= Cardinality(S) - 1
           /\ \A b : \A a \in S : T \subseteq (S \ {a}) \cup {b} =>
                 IsFiniteSet(T) /\ Cardinality(T) \in Nat /\ Cardinality(T) <= Cardinality(S)
<1>1. Cardinality(S) \in Nat
  BY FS_CardinalityType
<1>2. ASSUME NEW X, IsFiniteSet(X), T \subseteq X
      PROVE  IsFiniteSet(T) /\ Cardinality(T) \in Nat /\ Cardinality(T) <= Cardinality(X)
  <2>1. T \in SUBSET X
    BY <1>2
  <2> QED
    BY <1>2, <2>1, FS_Subset, FS_CardinalityType
<1>3. ASSUME NEW X, IsFiniteSet(X), NEW b
      PROVE  /\ IsFiniteSet(X \cup {b}) /\ Cardinality(X \cup {b}) \in Nat
             /\ Cardinality(X) \in Nat
             /\ Cardinality(X \cup {b}) <= Cardinality(X) + 1
  <2>1. Cardinality(X) \in Nat /\ IsFiniteSet(X \cup {b})
    BY <1>3, FS_CardinalityType, FS_AddElement
  <2>2. Cardinality(X \cup {b}) = IF b \in X THEN Cardinality(X) ELSE Cardinality(X) + 1
    BY <1>3, FS_AddElement
  <2> QED
    BY <2>1, <2>2
<1>4. ASSUME NEW a \in S
      PROVE  /\ IsFiniteSet(S \ {a}) /\ Cardinality(S \ {a}) = Cardinality(S) - 1
  BY FS_RemoveElement
<1>5. ASSUME NEW b, T \subseteq S \cup {b}
      PROVE  /\ IsFiniteSet(T) /\ Cardinality(T) \in Nat
             /\ Cardinality(T) <= Cardinality(S) + 1
  <2>1. /\ IsFiniteSet(T) /\ Cardinality(T) \in Nat
        /\ Cardinality(T) <= Cardinality(S \cup {b})
    BY <1>2, <1>3, <1>5
  <2>2. Cardinality(S \cup {b}) \in Nat /\ Cardinality(S \cup {b}) <= Cardinality(S) + 1
    BY <1>3
  <2> QED
    BY <1>1, <2>1, <2>2
<1>6. ASSUME NEW a \in S, NEW b, T \subseteq (S \ {a}) \cup {b}
      PROVE  IsFiniteSet(T) /\ Cardinality(T) \in Nat /\ Cardinality(T) <= Cardinality(S)
  <2> DEFINE X == S \ {a}
  <2>1. IsFiniteSet(X) /\ Cardinality(X) = Cardinality(S) - 1
    BY <1>4
  <2>2. T \subseteq X \cup {b}
    BY <1>6
  <2> HIDE DEF X
  <2>3. /\ IsFiniteSet(X \cup {b}) /\ Cardinality(X \cup {b}) \in Nat
        /\ Cardinality(X) \in Nat /\ Cardinality(X \cup {b}) <= Cardinality(X) + 1
    BY <1>3, <2>1
  <2>4. /\ IsFiniteSet(T) /\ Cardinality(T) \in Nat
        /\ Cardinality(T) <= Cardinality(X \cup {b})
    BY <1>2, <2>2, <2>3
  <2> QED
    BY <1>1, <2>1, <2>3, <2>4
<1>7. ASSUME NEW a \in S, T \subseteq S \ {a}
      PROVE  IsFiniteSet(T) /\ Cardinality(T) \in Nat /\ Cardinality(T) <= Cardinality(S) - 1
  <2>1. IsFiniteSet(S \ {a}) /\ Cardinality(S \ {a}) = Cardinality(S) - 1
    BY <1>4
  <2>2. /\ IsFiniteSet(T) /\ Cardinality(T) \in Nat
        /\ Cardinality(T) <= Cardinality(S \ {a})
    BY <1>2, <1>7, <2>1
  <2> QED
    BY <2>1, <2>2
<1> QED
  BY <1>1, <1>2, <1>5, <1>6, <1>7

\* While nothing broke, something live means that nothing was delivered yet and that
\* it is the only live route; and the originator has not been told of a failure.
LEMMA OnlyOne ==
    ASSUME Sound, Ledger, faults = 0, NEW a \in Live
    PROVE  deliveries = 0 /\ Live = {a} /\ result # "failed"
<1>1. Cardinality(Live) \in Nat /\ deliveries \in Nat /\ IsFiniteSet(Live)
  BY FS_CardinalityType DEF Ledger, Sound, TypeOK
<1>2. Cardinality(Live) # 0
  BY <1>1, FS_EmptySet
<1>3. deliveries = 0 /\ Cardinality(Live) = 1
  BY <1>1, <1>2 DEF Ledger
<1>4. \E x : Live = {x}
  BY <1>1, <1>3, FS_Singleton
<1> QED
  BY <1>3, <1>4 DEF Ledger

\* One live route makes way for another, or for none.
LEMMA LedgerMoves ==
    ASSUME RInv, UNCHANGED <<result, deliveries, faults>>, NEW a \in Live,
           \/ Live' \subseteq Live
           \/ \E b : Live' \subseteq (Live \ {a}) \cup {b}
    PROVE  Ledger'
<1>1. IsFiniteSet(Live) /\ deliveries \in Nat /\ faults \in Nat
  BY DEF RInv, Ledger, Sound, TypeOK
<1>2. /\ IsFiniteSet(Live') /\ Cardinality(Live') \in Nat /\ Cardinality(Live) \in Nat
      /\ Cardinality(Live') <= Cardinality(Live)
  BY <1>1, Counting
<1>3. faults = 0 => result # "failed"
  BY OnlyOne DEF RInv
<1> QED
  BY <1>1, <1>2, <1>3 DEF RInv, Ledger

\* Nothing new is live.
LEMMA LedgerShrinks ==
    ASSUME RInv, UNCHANGED <<result, deliveries, faults>>, Live' \subseteq Live
    PROVE  Ledger'
<1>1. IsFiniteSet(Live) /\ deliveries \in Nat /\ faults \in Nat
  BY DEF RInv, Ledger, Sound, TypeOK
<1>2. /\ IsFiniteSet(Live') /\ Cardinality(Live') \in Nat /\ Cardinality(Live) \in Nat
      /\ Cardinality(Live') <= Cardinality(Live)
  BY <1>1, Counting
<1> QED
  BY <1>1, <1>2 DEF RInv, Ledger

\* A break pays for one more live route.
LEMMA LedgerBreaks ==
    ASSUME RInv, UNCHANGED deliveries, faults' = faults + 1, NEW b,
           Live' \subseteq Live \cup {b}
    PROVE  Ledger'
<1>1. IsFiniteSet(Live) /\ deliveries \in Nat /\ faults \in Nat
  BY DEF RInv, Ledger, Sound, TypeOK
<1>2. /\ IsFiniteSet(Live') /\ Cardinality(Live') \in Nat /\ Cardinality(Live) \in Nat
      /\ Cardinality(Live') <= Cardinality(Live) + 1
  BY <1>1, Counting
<1> QED
  BY <1>1, <1>2 DEF RInv, Ledger

-----------------------------------------------------------------------------
(* The steps of the nodes *)

\* What is known of a call, and of one that was only received.
LEMMA CallFacts ==
    ASSUME RInv, NEW r \in Routes
    PROVE  /\ r \in Seq(NodeId) /\ r # << >> /\ Last(r) \in NodeId /\ calls[r] \in CallType
           /\ deliveries \in Nat /\ faults \in Nat
           /\ calls[r].state = "received" =>
                 /\ r \in Live /\ calls[r].alts = {} /\ calls[r].child = NoNode
                 /\ ~calls[r].delivered
           /\ calls[r].state = "fan_out" /\ calls[r].child = NoNode => r \in Live
<1>1. /\ r \in Seq(NodeId) /\ r # << >> /\ calls[r] \in CallType
      /\ deliveries \in Nat /\ faults \in Nat
  BY DEF RInv, Sound, TypeOK
<1>2. Last(r) \in NodeId
  BY <1>1, RouteParts
<1>3. calls[r].state = "received" =>
          /\ r \in Live /\ calls[r].alts = {} /\ calls[r].child = NoNode
          /\ ~calls[r].delivered
  BY DEF RInv, Sound, TreeOK, Received, Live, GoesOn
<1> QED
  BY <1>1, <1>2, <1>3 DEF Live, GoesOn

\* The destination is on no path that has not reached it.
LEMMA DestOffPath ==
    ASSUME RInv, NEW r \in Routes, Last(r) # Dest
    PROVE  Dest \notin path(r)
<1>1. r \in Seq(NodeId) /\ r # << >> /\ Len(r) \in Nat \ {0} /\ Last(r) = r[Len(r)]
  BY CallFacts, RouteParts
<1>2. \A i \in 1..Len(r) : r[i] # Dest
  BY <1>1 DEF RInv, Sound, AtDest
<1>3. origin # Dest
  BY <1>1, <1>2 DEF RInv, Sound, AtDest
<1> QED
  BY <1>1, <1>2, <1>3, PathIs

\* Deliver: a live route ends with a delivery.
LEMMA DeliverKeeps == ASSUME RInv, NEW r \in Routes, Deliver(r) PROVE RInv'
<1> DEFINE c == Replied(calls[r], TRUE)
<1>1. /\ Set(r, c) /\ UnchangedOutside /\ deliveries' = deliveries + 1 /\ faults' = faults
      /\ calls[r].state = "received" /\ Last(r) = Dest /\ result' = result
  BY DEF Deliver, Decision, At, next_hop, UnchangedOutside, fixed
<1>2. /\ calls[r] \in CallType /\ deliveries \in Nat /\ faults \in Nat /\ r \in Live
      /\ calls[r].alts = {}
  BY <1>1, CallFacts
<1>3. /\ c \in CallType /\ c.child = NoNode /\ c.state = "replied" /\ c.delivered
      /\ c.alts = {}
  BY <1>2 DEF Replied, CallType
<1> HIDE DEF c
<1>4. Sound' /\ Live' \subseteq Live \cup {r} /\ r \notin Live'
  BY <1>1, <1>2, <1>3, SetStep DEF RInv
<1>5. IsFiniteSet(Live) /\ Live' \subseteq Live \ {r}
  BY <1>2, <1>4 DEF RInv, Ledger
<1>6. /\ IsFiniteSet(Live') /\ Cardinality(Live') \in Nat /\ Cardinality(Live) \in Nat
      /\ Cardinality(Live') <= Cardinality(Live) - 1
  BY <1>2, <1>5, Counting
<1>7. faults = 0 => result # "failed"
  BY <1>2, OnlyOne DEF RInv
<1> QED
  BY <1>1, <1>2, <1>4, <1>6, <1>7 DEF RInv, Ledger

\* DeadEnd: a negative answer, which the destination's neighbours never give.
LEMMA DeadEndKeeps == ASSUME RInv, NEW r \in Routes, DeadEnd(r) PROVE RInv'
<1> DEFINE c == Replied(calls[r], FALSE)
<1>1. /\ Set(r, c) /\ UnchangedOutside /\ UNCHANGED <<deliveries, faults, result>>
      /\ calls[r].state = "received"
  BY DEF DeadEnd, UnchangedOutside, fixed
<1>2. /\ calls[r] \in CallType /\ deliveries \in Nat /\ faults \in Nat /\ r \in Live
      /\ calls[r].alts = {} /\ Last(r) \in NodeId
  BY <1>1, CallFacts
<1>3. /\ c \in CallType /\ c.child = NoNode /\ c.state = "replied" /\ ~c.delivered
      /\ c.alts = {}
  BY <1>2 DEF Replied, CallType
<1>4. Last(r) # Dest
  BY DEF DeadEnd, Decision, At, next_hop
<1>5. Dest \notin all_peers(table[Last(r)])
  <2> SUFFICES ASSUME Dest \in all_peers(table[Last(r)]) PROVE FALSE
    OBVIOUS
  <2>1. Decision(r) = "Forward" /\ Hop(r) = Dest /\ Dest \in urls[At(r)]
    BY <1>2, <1>4, DestIsBest DEF Decision, Hop, At, RInv, Sound
  <2>2. Dest \notin path(r)
    BY <1>4, DestOffPath
  <2> QED
    BY <2>1, <2>2 DEF DeadEnd
<1> HIDE DEF c
<1>6. Sound' /\ Live' \subseteq Live \cup {r}
  BY <1>1, <1>2, <1>3, <1>4, <1>5, SetStep DEF RInv
<1>7. Ledger'
  BY <1>1, <1>2, <1>6, LedgerMoves
<1> QED
  BY <1>6, <1>7 DEF RInv

\* A call to the next node, received or refused.
LEMMA RelayKeeps ==
    ASSUME RInv, NEW r \in Routes, r \in Live, NEW c \in CallType,
           c.child = NoNode, c.state \in {"forward", "fan_out"}, ~c.delivered,
           c.alts \cap path(r) = {}, NEW h \in NodeId, h \notin path(r), Last(r) # Dest,
           faults = 0 /\ Dest \in all_peers(table[Last(r)]) => c.state = "forward" /\ h = Dest,
           Relay(r, c, h), UNCHANGED deliveries, UnchangedOutside
    PROVE  RInv'
<1>1. deliveries \in Nat /\ faults \in Nat
  BY CallFacts
<1>2. CASE /\ calls' = [x \in Routes \cup {Append(r, h)} |->
                           IF x = r THEN [c EXCEPT !.child = h]
                           ELSE IF x = Append(r, h) THEN Received ELSE calls[x]]
           /\ UNCHANGED faults
  <2> DEFINE d == [c EXCEPT !.child = h]
  <2>1. /\ d \in CallType /\ d.child = h /\ d.state = c.state /\ ~d.delivered
        /\ d.alts = c.alts
    BY DEF CallType
  <2>2. calls' = [x \in Routes \cup {Append(r, h)} |->
                     IF x = r THEN d ELSE IF x = Append(r, h) THEN Received ELSE calls[x]]
    BY <1>2
  <2> HIDE DEF d
  <2>3. Sound' /\ Live' \subseteq (Live \ {r}) \cup {Append(r, h)}
    BY <1>2, <2>1, <2>2, CallStep DEF RInv
  <2>4. Ledger'
    BY <1>2, <2>3, LedgerMoves DEF UnchangedOutside, fixed
  <2> QED
    BY <2>3, <2>4 DEF RInv
<1>3. CASE faults' = faults + 1 /\ Set(r, Resume(c, FALSE))
  <2> DEFINE d == Resume(c, FALSE)
  <2>1. /\ d \in CallType /\ d.child = NoNode /\ d.state \in {"fan_out", "replied"}
        /\ ~d.delivered /\ d.alts = c.alts
    BY DEF CallType, Resume, Replied
  <2>2. Set(r, d)
    BY <1>3
  <2> HIDE DEF d
  <2>4. /\ faults' \in Nat /\ faults' # 0 /\ faults <= faults'
        /\ deliveries' \in Nat /\ deliveries <= deliveries'
    BY <1>1, <1>3
  <2>3. Sound' /\ Live' \subseteq Live \cup {r}
    BY <2>1, <2>2, <2>4, SetStep DEF RInv
  <2>5. Ledger'
    BY <1>3, <2>3, LedgerBreaks
  <2> QED
    BY <2>3, <2>5 DEF RInv
<1> QED
  BY <1>2, <1>3 DEF Relay

\* forward_relay and StartFanOut: the next hop is off the path, and it is the
\* destination when the table has it.
LEMMA ForwardKeeps == ASSUME RInv, NEW r \in Routes, forward_relay(r) PROVE RInv'
<1> DEFINE c == [calls[r] EXCEPT !.state = "forward"]
           h == Hop(r)
<1>1. /\ Relay(r, c, h) /\ UNCHANGED deliveries /\ UnchangedOutside
      /\ calls[r].state = "received" /\ h \in urls[Last(r)] \ path(r)
  BY DEF forward_relay, At
<1>2. /\ calls[r] \in CallType /\ r \in Live /\ calls[r].alts = {} /\ Last(r) \in NodeId
      /\ calls[r].child = NoNode /\ ~calls[r].delivered
  BY <1>1, CallFacts
<1>3. /\ c \in CallType /\ c.child = NoNode /\ c.state = "forward" /\ ~c.delivered
      /\ c.alts = {}
  BY <1>2 DEF CallType
<1>4. Last(r) # Dest
  BY DEF forward_relay, Decision, At, next_hop
<1>5. Dest \in all_peers(table[Last(r)]) => h = Dest
  BY <1>2, <1>4, DestIsBest DEF Hop, At, RInv, Sound
<1>6. h \in NodeId /\ h \notin path(r)
  BY <1>1, <1>2 DEF RInv, Sound, TypeOK
<1> HIDE DEF c, h
<1> QED
  BY <1>1, <1>2, <1>3, <1>4, <1>5, <1>6, RelayKeeps

\* StartFanOut: a node that starts one does not have the destination in its table.
LEMMA StartKeeps == ASSUME RInv, NEW r \in Routes, StartFanOut(r) PROVE RInv'
<1> DEFINE c == [calls[r] EXCEPT !.state = "fan_out", !.alts = Unvisited(r)]
<1>1. /\ Set(r, c) /\ UnchangedOutside /\ UNCHANGED <<deliveries, faults, result>>
      /\ calls[r].state = "received"
  BY DEF StartFanOut, UnchangedOutside, fixed
<1>2. /\ calls[r] \in CallType /\ deliveries \in Nat /\ faults \in Nat /\ r \in Live
      /\ Last(r) \in NodeId /\ calls[r].child = NoNode /\ ~calls[r].delivered
  BY <1>1, CallFacts
<1>3. Unvisited(r) \subseteq NodeId /\ Unvisited(r) \cap path(r) = {}
  BY <1>2 DEF Unvisited, At, RInv, Sound, TypeOK
<1>4. /\ c \in CallType /\ c.child = NoNode /\ c.state = "fan_out" /\ ~c.delivered
      /\ c.alts = Unvisited(r)
  BY <1>2, <1>3 DEF CallType
<1>5. Last(r) # Dest
  BY DEF StartFanOut, Decision, At, next_hop
<1>6. Dest \notin all_peers(table[Last(r)])
  BY <1>2, <1>5, DestIsBest DEF StartFanOut, Decision, At, RInv, Sound
<1> HIDE DEF c
<1>7. Sound' /\ Live' \subseteq Live \cup {r}
  BY <1>1, <1>2, <1>3, <1>4, <1>5, <1>6, SetStep DEF RInv
<1>8. Ledger'
  BY <1>1, <1>2, <1>7, LedgerMoves
<1> QED
  BY <1>7, <1>8 DEF RInv

\* fan_out: one alternative after the other.
LEMMA FanOutKeeps == ASSUME RInv, NEW r \in Routes, fan_out(r) PROVE RInv'
<1>1. PICK h \in calls[r].alts : Relay(r, [calls[r] EXCEPT !.alts = @ \ {h}], h)
  BY DEF fan_out
<1> DEFINE c == [calls[r] EXCEPT !.alts = @ \ {h}]
<1>2. /\ UNCHANGED deliveries /\ UnchangedOutside /\ calls[r].state = "fan_out"
      /\ calls[r].child = NoNode
  BY DEF fan_out
<1>3. calls[r] \in CallType /\ r \in Live
  BY <1>2, CallFacts
<1>4. ~calls[r].delivered /\ calls[r].alts \cap path(r) = {}
  BY <1>2 DEF RInv, Sound, TreeOK, Fresh
<1>5. /\ c \in CallType /\ c.child = NoNode /\ c.state = "fan_out" /\ ~c.delivered
      /\ c.alts = calls[r].alts \ {h} /\ h \in NodeId
  BY <1>2, <1>3, <1>4 DEF CallType
<1>6. Last(r) # Dest /\ (faults = 0 => Dest \notin all_peers(table[Last(r)]))
  BY <1>2, <1>4 DEF RInv, Sound, AtDest, Straightaway
<1>7. c.alts \cap path(r) = {} /\ h \notin path(r) /\ Relay(r, c, h)
  BY <1>1, <1>4, <1>5
<1> HIDE DEF c
<1> QED
  BY <1>2, <1>3, <1>5, <1>6, <1>7, RelayKeeps

\* What is known of the caller of a call that it waits for.
LEMMA CallerFacts ==
    ASSUME RInv, NEW x \in Routes, Awaited(x)
    PROVE  /\ Front(x) \in Routes /\ Front(x) # x /\ Len(x) > 1 /\ Len(x) # 1
           /\ calls[Front(x)].child = Last(x) /\ Last(x) # NoNode
           /\ calls[Front(x)].state \in {"forward", "fan_out"}
           /\ ~calls[Front(x)].delivered /\ Last(Front(x)) # Dest
<1>1. x \in Seq(NodeId) /\ x # << >> /\ Last(x) \in NodeId
  BY CallFacts
<1>2. Len(x) > 1 /\ calls[Front(x)].child = Last(x)
  BY DEF Awaited, At
<1>3. Front(x) \in Routes
  BY <1>2 DEF RInv, Sound, TreeOK
<1>4. Last(x) # NoNode
  BY <1>1, RelayAssumption
<1>5. calls[Front(x)].state \in {"forward", "fan_out"}
  BY <1>2, <1>3, <1>4 DEF RInv, Sound, TreeOK
<1>6. ~calls[Front(x)].delivered
  BY <1>3, <1>5 DEF RInv, Sound, TreeOK
<1>7. /\ Front(x) \in Seq(NodeId) /\ Front(x) # << >> /\ Front(x) # x
      /\ Len(x) \in Nat \ {0} /\ Len(Front(x)) = Len(x) - 1
      /\ \A i \in 1..(Len(x) - 1) : Front(x)[i] = x[i]
  BY <1>1, <1>2, RouteParts
<1>8. Last(Front(x)) = x[Len(x) - 1]
  BY <1>2, <1>7 DEF Last
<1>9. Last(Front(x)) # Dest
  BY <1>2, <1>7, <1>8 DEF RInv, Sound, AtDest
<1>10. Len(x) # 1
  BY <1>2, <1>7
<1> QED
  BY <1>2, <1>3, <1>4, <1>5, <1>6, <1>7, <1>9, <1>10

\* Return: the caller replies or goes on, and is live in the place of the answer.
LEMMA ReturnKeeps == ASSUME RInv, NEW x \in Routes, Return(x) PROVE RInv'
<1> DEFINE r == Front(x)
           ok == calls[x].delivered
           c == Resume(calls[r], ok)
<1>1. /\ Awaited(x) /\ calls[x].state = "replied" /\ Set(r, c)
      /\ UnchangedOutside /\ UNCHANGED <<deliveries, faults, result>>
  BY DEF Return, ReplyArrives, UnchangedOutside, fixed
<1>2. /\ r \in Routes /\ r # x /\ Len(x) > 1 /\ calls[r].child = Last(x)
      /\ calls[r].state \in {"forward", "fan_out"} /\ ~calls[r].delivered /\ Last(r) # Dest
  BY <1>1, CallerFacts
<1>3. calls[r] \in CallType /\ calls[x] \in CallType /\ deliveries \in Nat /\ faults \in Nat
  BY <1>2, CallFacts
<1>4. ok \in BOOLEAN
  BY <1>3 DEF CallType
<1>5. /\ c \in CallType /\ c.child = NoNode /\ c.state \in {"fan_out", "replied"}
      /\ c.delivered <=> ok
      /\ c.state = "fan_out" => ~c.delivered
      /\ c.alts = calls[r].alts
  BY <1>2, <1>3, <1>4 DEF CallType, Resume, Replied
<1>6. c.alts \cap path(r) = {}
  BY <1>2, <1>5 DEF RInv, Sound, Fresh
<1>7. ok => deliveries > 0
  BY DEF RInv, Sound, Reported
<1>8. faults = 0 /\ Dest \in all_peers(table[Last(r)]) => ok
  <2> SUFFICES ASSUME faults = 0, Dest \in all_peers(table[Last(r)]) PROVE ok
    OBVIOUS
  <2>1. calls[r].child = Dest
    BY <1>2 DEF RInv, Sound, Straightaway
  <2>2. Last(x) = Dest
    BY <1>2, <2>1
  <2> QED
    BY <1>1, <2>2 DEF RInv, Sound, AtDest
<1>9. ok \/ (~ok /\ x \in Live)
  <2>1. Len(x) # 1
    BY <1>1, CallerFacts
  <2>2. Waiting(x)
    BY <1>2, <2>1 DEF Waiting
  <2>3. ~calls[x].delivered => GoesOn(x)
    BY <1>1, <2>2 DEF GoesOn
  <2> QED
    BY <1>4, <2>3, Zenon DEF Live
<1> HIDE DEF c, r, ok
<1>10. /\ Sound' /\ Live' \subseteq Live \cup {r} /\ (c.delivered => r \notin Live')
       /\ \A y \in Routes :
             (Len(y) > 1 /\ Front(y) = r /\ calls[y].state = "replied") => y \notin Live'
  BY <1>1, <1>2, <1>3, <1>5, <1>6, <1>7, <1>8, SetStep DEF RInv
<1>11. Ledger'
  <2>1. CASE ok
    <3>1. Live' \subseteq Live
      BY <1>5, <1>10, <2>1
    <3> QED
      BY <1>1, <3>1, LedgerShrinks
  <2>2. CASE ~ok
    <3>1. x \notin Live'
      BY <1>1, <1>2, <1>10 DEF r
    <3>2. Live' \subseteq (Live \ {x}) \cup {r} /\ x \in Live
      BY <1>9, <1>10, <2>2, <3>1
    <3> QED
      BY <1>1, <3>2, LedgerMoves
  <2> QED
    BY <2>1, <2>2
<1> QED
  BY <1>10, <1>11 DEF RInv

\* Break: the caller goes on, and so does the callee.
LEMMA BreakKeeps == ASSUME RInv, NEW x \in Routes, Break(x) PROVE RInv'
<1> DEFINE r == Front(x)
           c == Resume(calls[r], FALSE)
<1>1. /\ Awaited(x) /\ Set(r, c) /\ UnchangedOutside /\ UNCHANGED <<deliveries, result>>
      /\ faults' = faults + 1
  BY DEF Break, UnchangedOutside, fixed
<1>2. /\ r \in Routes /\ calls[r].child = Last(x)
      /\ calls[r].state \in {"forward", "fan_out"} /\ ~calls[r].delivered /\ Last(r) # Dest
  BY <1>1, CallerFacts
<1>3. calls[r] \in CallType /\ deliveries \in Nat /\ faults \in Nat
  BY <1>2, CallFacts
<1>4. /\ c \in CallType /\ c.child = NoNode /\ c.state \in {"fan_out", "replied"}
      /\ ~c.delivered /\ c.alts = calls[r].alts
  BY <1>2, <1>3 DEF CallType, Resume, Replied
<1>5. c.alts \cap path(r) = {}
  BY <1>2, <1>4 DEF RInv, Sound, Fresh
<1>6. faults' \in Nat /\ faults' # 0 /\ faults <= faults'
  BY <1>1, <1>3
<1> HIDE DEF c, r
<1>7. Sound' /\ Live' \subseteq Live \cup {r}
  BY <1>1, <1>2, <1>3, <1>4, <1>5, <1>6, SetStep DEF RInv
<1>8. Ledger'
  BY <1>1, <1>7, LedgerBreaks
<1> QED
  BY <1>7, <1>8 DEF RInv

-----------------------------------------------------------------------------
(* The steps of the originator *)

\* A step that leaves the calls alone.
LEMMA SoundKept ==
    ASSUME Sound, UNCHANGED <<origin, table, urls, calls, deliveries>>,
           hops' \in {hops, Tail(hops)}, hops = << >> => hops' = hops,
           faults' \in Nat, faults <= faults',
           waits_for' \in {waits_for, NoNode},
           result' \in {"none", "ok", "failed", "sent"},
           result' # result => waits_for' = NoNode,
           result' = "ok" => deliveries > 0
    PROVE  Sound'
<1>1. hops' \in Seq(NodeId) /\ (origin = Dest => \A i \in DOMAIN hops' : hops'[i] = Dest)
  <2>1. hops \in Seq(NodeId)
    BY DEF Sound, TypeOK
  <2>2. CASE hops' = hops
    BY <2>1, <2>2 DEF Sound, AtDest
  <2>3. CASE hops # << >> /\ hops' = Tail(hops)
    <3>1. /\ hops' \in Seq(NodeId) /\ Len(hops') = Len(hops) - 1
          /\ Len(hops) \in Nat /\ DOMAIN hops = 1..Len(hops) /\ DOMAIN hops' = 1..Len(hops')
          /\ \A i \in 1..Len(hops') : hops'[i] = hops[i + 1]
      BY <2>1, <2>3, HeadTailProperties, LenProperties
    <3>2. \A i \in DOMAIN hops' : i + 1 \in DOMAIN hops
      BY <3>1
    <3> QED
      BY <3>1, <3>2 DEF Sound, AtDest
  <2> QED
    BY <2>2, <2>3
<1>2. Routes' = Routes
  BY DEF Routes
<1>3. TypeOK'
  BY <1>1, <1>2, RelayAssumption DEF Sound, TypeOK
<1>4. TreeOK' /\ Reported'
  BY <1>2 DEF Sound, TreeOK, Reported
<1>5. AtDest'
  BY <1>1, <1>2 DEF Sound, AtDest
<1>6. Straightaway'
  BY <1>2 DEF Sound, Straightaway, TypeOK
<1>7. Fresh'
  BY <1>2 DEF Sound, Fresh, path
<1> QED
  BY <1>3, <1>4, <1>5, <1>6, <1>7 DEF Sound

\* A call that is not the first has a caller.
LEMMA HasCaller ==
    ASSUME Sound, NEW x \in Routes, Len(x) # 1
    PROVE  Len(x) > 1 /\ Last(x) \in NodeId /\ Front(x) \in Routes
<1>1. x \in Seq(NodeId) /\ x # << >>
  BY DEF Sound, TypeOK
<1>2. Len(x) \in Nat \ {0} /\ Last(x) \in NodeId
  BY <1>1, RouteParts
<1>3. \A k \in Nat \ {0} : k # 1 => k > 1
  OBVIOUS
<1>4. Len(x) > 1
  BY <1>2, <1>3, Zenon
<1> QED
  BY <1>2, <1>4 DEF Sound, TreeOK

\* A first hop receives the message.
LEMMA FirstHop ==
    ASSUME RInv, result = "none", waits_for = NoNode, hops # << >>,
           calls' = [x \in Routes \cup {<<Head(hops)>>} |->
                        IF x = <<Head(hops)>> THEN Received ELSE calls[x]],
           waits_for' = Head(hops), hops' = Tail(hops),
           UNCHANGED <<origin, table, urls, deliveries, result, faults>>
    PROVE  RInv'
<1> DEFINE h == Head(hops)
           n == <<h>>
<1>1. /\ hops \in Seq(NodeId) /\ h \in NodeId /\ Tail(hops) \in Seq(NodeId)
      /\ Len(hops) \in Nat \ {0} /\ DOMAIN hops = 1..Len(hops) /\ h = hops[1]
      /\ DOMAIN Tail(hops) = 1..(Len(hops) - 1)
      /\ \A i \in 1..(Len(hops) - 1) : Tail(hops)[i] = hops[i + 1]
  BY HeadTailProperties, LenProperties, EmptySeq DEF RInv, Sound, TypeOK
<1>2. /\ n \in Seq(NodeId) /\ n # << >> /\ Len(n) = 1 /\ n[1] = h /\ Head(n) = h /\ Last(n) = h
      /\ DOMAIN n = 1..1 /\ ~(Len(n) > 1) /\ 1..(Len(n) - 1) = {}
  <2>1. n \in Seq(NodeId) /\ n # << >> /\ Len(n) = 1 /\ n[1] = h /\ Head(n) = h
    BY <1>1
  <2>2. DOMAIN n = 1..1
    BY <2>1, LenProperties
  <2> HIDE DEF n
  <2>3. ~(Len(n) > 1) /\ 1..(Len(n) - 1) = {}
    BY <2>1
  <2> QED
    BY <2>1, <2>2, <2>3 DEF Last
<1>3. /\ Routes' = Routes \cup {n} /\ calls'[n] = Received
      /\ \A x \in Routes : x # n => calls'[x] = calls[x]
      /\ calls' = [x \in Routes' |-> calls'[x]]
  BY DEF Routes
<1>4. /\ Received \in CallType /\ Received.state = "received" /\ Received.child = NoNode
      /\ Received.alts = {} /\ ~Received.delivered
  BY DEF Received, CallType
<1>5. waits_for' = h /\ hops' = Tail(hops)
  OBVIOUS
<1>6. \A x \in Seq(NodeId) : Len(x) = 1 /\ x[1] = h => x = n
  OBVIOUS
<1>7. <<waits_for'>> = n
  OBVIOUS
<1> HIDE DEF n, h
<1>8. \A x \in Routes : x \in Seq(NodeId) /\ x # << >> /\ calls[x] \in CallType
  BY DEF RInv, Sound, TypeOK
<1>9. TypeOK'
  BY <1>1, <1>2, <1>3, <1>4, <1>5 DEF RInv, Sound, TypeOK
<1>10. TreeOK'
  <2>1. ASSUME NEW x \in Routes'
        PROVE  /\ Len(x) > 1 => Front(x) \in Routes'
               /\ calls'[x].state = "received" => calls'[x] = Received
               /\ calls'[x].child # NoNode =>
                     /\ calls'[x].state \in {"forward", "fan_out"}
                     /\ Append(x, calls'[x].child) \in Routes'
               /\ calls'[x].state = "forward" => calls'[x].child # NoNode
               /\ calls'[x].state # "replied" => ~calls'[x].delivered
    <3>1. CASE x = n
      BY <1>2, <1>3, <1>4, <3>1
    <3>2. CASE x # n
      <4>1. x \in Routes /\ calls'[x] = calls[x] /\ Routes \subseteq Routes'
        BY <1>3, <3>2
      <4>2. TreeOK
        BY DEF RInv, Sound
      <4> QED
        BY <4>1, <4>2 DEF TreeOK
    <3> QED
      BY <3>1, <3>2
  <2>2. waits_for' # NoNode => result' = "none" /\ <<waits_for'>> \in Routes'
    BY <1>3, <1>7
  <2> QED
    BY <2>1, <2>2 DEF TreeOK, Routes
<1>11. Reported'
  BY <1>3, <1>4 DEF RInv, Sound, Reported
<1>12. AtDest'
  <2>1. ASSUME NEW x \in Routes'
        PROVE  /\ \A i \in 1..(Len(x) - 1) : x[i] # Dest
               /\ Last(x) = Dest => calls'[x].state = "received" \/ calls'[x].delivered
               /\ origin = Dest => x[1] = Dest
    <3>1. CASE x = n
      <4>1. origin = Dest => h = Dest
        <5>1. AtDest /\ 1 \in DOMAIN hops
          BY <1>1 DEF RInv, Sound
        <5> QED
          BY <1>1, <5>1 DEF AtDest
      <4>2. \A i \in 1..(Len(x) - 1) : x[i] # Dest
        BY <1>2, <3>1
      <4>3. calls'[x].state = "received"
        BY <1>3, <1>4, <3>1
      <4> QED
        BY <1>2, <3>1, <4>1, <4>2, <4>3
    <3>2. CASE x # n
      <4>1. x \in Routes /\ calls'[x] = calls[x]
        BY <1>3, <3>2
      <4>2. AtDest
        BY DEF RInv, Sound
      <4> QED
        BY <4>1, <4>2 DEF AtDest
    <3> QED
      BY <3>1, <3>2
  <2>2. origin = Dest => \A i \in DOMAIN hops' : hops'[i] = Dest
    <3>1. \A i \in DOMAIN hops' : i + 1 \in DOMAIN hops /\ hops'[i] = hops[i + 1]
      BY <1>1, <1>5
    <3> QED
      BY <3>1 DEF RInv, Sound, AtDest
  <2> QED
    BY <2>1, <2>2 DEF AtDest, Routes
<1>13. Straightaway'
  BY <1>3, <1>4 DEF RInv, Sound, Straightaway
<1>14. Fresh'
  BY <1>3, <1>4 DEF RInv, Sound, Fresh, path
<1>17. ASSUME NEW x \in Routes, x # n, Waiting(x)' PROVE Waiting(x)
  <2>1. Len(x) # 1
    BY <1>5, <1>6, <1>8, <1>17 DEF Waiting
  <2>2. Len(x) > 1 /\ Last(x) \in NodeId /\ Front(x) \in Routes
    BY <2>1, HasCaller DEF RInv
  <2>3. calls'[Front(x)].child = Last(x)
    BY <1>17, <2>1 DEF Waiting
  <2>4. Front(x) # n
    BY <1>3, <1>4, <2>2, <2>3, RelayAssumption
  <2> QED
    BY <1>3, <2>1, <2>2, <2>3, <2>4 DEF Waiting
<1>18. ASSUME NEW x \in Live', x # n PROVE x \in Live \ {<< >>}
  <2>1. waits_for' # NoNode
    BY <1>1, <1>5, RelayAssumption
  <2>2. x \in Routes /\ GoesOn(x)'
    BY <1>3, <1>18, <2>1 DEF Live, Routes
  <2>3. GoesOn(x)
    BY <1>3, <1>17, <1>18, <2>2 DEF GoesOn
  <2> QED
    BY <1>8, <2>2, <2>3 DEF Live
<1>19. << >> \in Live /\ Live' \subseteq (Live \ {<< >>}) \cup {n}
  BY <1>18 DEF Live
<1>20. Ledger'
  BY <1>19, LedgerMoves
<1> QED
  BY <1>9, <1>10, <1>11, <1>12, <1>13, <1>14, <1>20 DEF RInv, Sound

\* OriginCalls: the next first hop, received or refused, or none left.
LEMMA OriginCallsKeeps == ASSUME RInv, OriginCalls PROVE RInv'
<1>1. /\ result = "none" /\ waits_for = NoNode
      /\ UNCHANGED <<origin, table, urls, deliveries>>
  BY DEF OriginCalls, fixed
<1>2. deliveries \in Nat /\ faults \in Nat /\ << >> \in Live
  BY <1>1 DEF RInv, Sound, TypeOK, Live
<1>3. << >> \notin Routes
  BY DEF RInv, Sound, TypeOK
<1>4. CASE /\ hops = << >> /\ result' = "failed"
           /\ UNCHANGED <<hops, calls, waits_for, faults>>
  <2>1. Sound'
    BY <1>1, <1>2, <1>4, SoundKept DEF RInv
  <2>2. Live' \subseteq Live \ {<< >>}
    BY <1>1, <1>3, <1>4 DEF Live, GoesOn, Waiting, Routes
  <2>3. faults = 0 => deliveries = 0 /\ Live = {<< >>}
    BY <1>2, OnlyOne DEF RInv
  <2>4. /\ IsFiniteSet(Live') /\ Cardinality(Live') \in Nat /\ Cardinality(Live) \in Nat
        /\ Cardinality(Live') <= Cardinality(Live) - 1
    <3>1. IsFiniteSet(Live)
      BY DEF RInv, Ledger
    <3> QED
      BY <1>2, <2>2, <3>1, Counting
  <2>5. faults = 0 => Live' = {}
    BY <2>2, <2>3
  <2>6. Cardinality(Live') + deliveries <= 1 + faults
    BY <1>2, <2>4 DEF RInv, Ledger
  <2>7. Ledger'
    BY <1>1, <1>4, <2>3, <2>4, <2>5, <2>6 DEF Ledger
  <2> QED
    BY <2>1, <2>7 DEF RInv
<1>5. CASE /\ hops # << >>
           /\ calls' = [x \in Routes \cup {<<Head(hops)>>} |->
                           IF x = <<Head(hops)>> THEN Received ELSE calls[x]]
           /\ waits_for' = Head(hops) /\ hops' = Tail(hops) /\ UNCHANGED <<result, faults>>
  BY <1>1, <1>5, FirstHop
<1>6. CASE /\ hops # << >> /\ faults' = faults + 1 /\ hops' = Tail(hops)
           /\ UNCHANGED <<calls, waits_for, result>>
  <2>1. faults' \in Nat /\ faults <= faults'
    BY <1>2, <1>6
  <2>2. Sound'
    BY <1>1, <1>2, <1>6, <2>1, SoundKept DEF RInv
  <2>3. Live' \subseteq Live \cup {<< >>}
    BY <1>6 DEF Live, GoesOn, Waiting, Routes
  <2>4. Ledger'
    BY <1>1, <1>6, <2>3, LedgerBreaks
  <2> QED
    BY <2>2, <2>4 DEF RInv
<1> QED
  BY <1>4, <1>5, <1>6 DEF OriginCalls

\* OriginReturns: the answer that the originator waited for is the only live route,
\* if it is negative and nothing broke.
LEMMA OriginReturnsKeeps == ASSUME RInv, OriginReturns PROVE RInv'
<1>0. PICK w : w = waits_for
  OBVIOUS
<1> DEFINE x == <<w>>
<1>1. /\ w # NoNode /\ calls[x].state = "replied" /\ waits_for' = NoNode
      /\ result' \in {"sent", IF calls[x].delivered THEN "ok" ELSE "failed"}
      /\ UNCHANGED <<origin, hops, table, urls, calls, deliveries, faults>>
  BY <1>0 DEF OriginReturns, FirstAnswered, Report, fixed
<1>2. x \in Routes /\ result = "none"
  BY <1>0, <1>1 DEF RInv, Sound, TreeOK
<1>3. Len(x) = 1 /\ x[1] = w
  OBVIOUS
<1>4. deliveries \in Nat /\ faults \in Nat /\ calls[x] \in CallType
  BY <1>2 DEF RInv, Sound, TypeOK
<1>5. calls[x].delivered => deliveries > 0
  BY <1>2 DEF RInv, Sound, Reported
<1> HIDE DEF x
<1>6. Waiting(x) /\ ~Waiting(x)'
  BY <1>0, <1>1, <1>3 DEF Waiting
<1>7. Sound'
  BY <1>1, <1>4, <1>5, SoundKept DEF RInv
<1>8. ASSUME NEW y \in Live' PROVE y \in Live /\ y # x
  <2>1. y \in Routes /\ GoesOn(y)'
    BY <1>1, <1>8 DEF Live, Routes
  <2>2. Waiting(y)' => Waiting(y)
    <3>1. CASE Len(y) = 1
      <4>1. y[1] \in NodeId
        <5>1. y \in Seq(NodeId) /\ y # << >>
          BY <2>1 DEF RInv, Sound, TypeOK
        <5> QED
          BY <3>1, <5>1
      <4> QED
        BY <1>1, <3>1, <4>1, RelayAssumption DEF Waiting
    <3>2. CASE Len(y) # 1
      BY <1>1, <3>2 DEF Waiting
    <3> QED
      BY <3>1, <3>2
  <2>3. GoesOn(y)
    BY <1>1, <2>1, <2>2 DEF GoesOn
  <2>4. y # x
    <3> SUFFICES ASSUME y = x PROVE FALSE
      OBVIOUS
    <3>1. GoesOn(x)' /\ ~Waiting(x)' /\ calls'[x].state = "replied"
      BY <1>1, <1>6, <2>1
    <3> QED
      BY <3>1 DEF GoesOn
  <2> QED
    BY <2>1, <2>3, <2>4 DEF Live
<1>9. Live' \subseteq Live \ {x}
  BY <1>8
<1>10. /\ IsFiniteSet(Live') /\ Cardinality(Live') \in Nat /\ Cardinality(Live) \in Nat
       /\ Cardinality(Live') <= Cardinality(Live)
  <2>1. IsFiniteSet(Live) /\ Live' \subseteq Live
    BY <1>9 DEF RInv, Ledger
  <2> QED
    BY <2>1, Counting
<1>11. ASSUME ~calls[x].delivered, faults = 0 PROVE deliveries = 0 /\ Live' = {}
  <2>1. x \in Live
    BY <1>1, <1>2, <1>6, <1>11 DEF Live, GoesOn
  <2>2. deliveries = 0 /\ Live = {x}
    BY <1>11, <2>1, OnlyOne DEF RInv
  <2> QED
    BY <1>9, <2>2
<1>12. Cardinality(Live') + deliveries <= 1 + faults
  BY <1>4, <1>10 DEF RInv, Ledger
<1>13. (result' = "failed" /\ faults' = 0) => deliveries' = 0 /\ Live' = {}
  BY <1>1, <1>11
<1>14. Ledger'
  BY <1>1, <1>10, <1>12, <1>13 DEF Ledger
<1> QED
  BY <1>7, <1>14 DEF RInv

\* OriginBreaks, TimesOut: the originator goes on beside the call that it gave up on.
LEMMA GoesOnKeeps == ASSUME RInv, GoesOnToNextHop PROVE RInv'
<1>1. /\ waits_for # NoNode /\ faults' = faults + 1 /\ waits_for' = NoNode
      /\ UNCHANGED <<origin, hops, table, urls, calls, result, deliveries>>
  BY DEF GoesOnToNextHop, fixed
<1>2. deliveries \in Nat /\ faults \in Nat /\ result \in {"none", "ok", "failed", "sent"}
  BY DEF RInv, Sound, TypeOK
<1>3. faults' \in Nat /\ faults <= faults'
  BY <1>1, <1>2
<1>4. Sound'
  <2>1. result = "ok" => deliveries > 0
    BY DEF RInv, Sound, Reported
  <2> QED
    BY <1>1, <1>2, <1>3, <2>1, SoundKept DEF RInv
<1>5. ASSUME NEW y \in Live', y # << >> PROVE y \in Live
  <2>1. y \in Routes /\ GoesOn(y)'
    BY <1>1, <1>5 DEF Live, Routes
  <2>2. Waiting(y)' => Waiting(y)
    <3>1. CASE Len(y) = 1
      <4>1. y[1] \in NodeId
        <5>1. y \in Seq(NodeId) /\ y # << >>
          BY <2>1 DEF RInv, Sound, TypeOK
        <5> QED
          BY <3>1, <5>1
      <4> QED
        BY <1>1, <3>1, <4>1, RelayAssumption DEF Waiting
    <3>2. CASE Len(y) # 1
      BY <1>1, <3>2 DEF Waiting
    <3> QED
      BY <3>1, <3>2
  <2>3. GoesOn(y)
    BY <1>1, <2>1, <2>2 DEF GoesOn
  <2> QED
    BY <2>1, <2>3 DEF Live
<1>6. Live' \subseteq Live \cup {<< >>}
  BY <1>5
<1>7. Ledger'
  BY <1>1, <1>6, LedgerBreaks
<1> QED
  BY <1>4, <1>7 DEF RInv

\* What the proof speaks of stays as it is.
LEMMA StutterKeeps ==
    ASSUME RInv, UNCHANGED <<origin, hops, table, urls, calls, waits_for, result,
                             deliveries, faults>>
    PROVE  RInv'
<1>1. /\ deliveries \in Nat /\ faults \in Nat
      /\ result \in {"none", "ok", "failed", "sent"}
  BY DEF RInv, Sound, TypeOK
<1>2. result = "ok" => deliveries > 0
  BY DEF RInv, Sound, Reported
<1>3. faults' \in Nat /\ faults <= faults'
  BY <1>1
<1>4. Sound'
  BY <1>1, <1>2, <1>3, SoundKept DEF RInv
<1>5. Live' = Live
  BY DEF Live, GoesOn, Waiting, Routes
<1> QED
  BY <1>4, <1>5, LedgerShrinks DEF RInv

-----------------------------------------------------------------------------
(* The invariant *)

\* At first only the originator is live.
LEMMA InitHolds == RelayInit => RInv
<1> SUFFICES ASSUME RelayInit PROVE RInv
  OBVIOUS
<1>1. Routes = {} /\ calls = [r \in {} |-> calls[r]]
  BY DEF RelayInit, Routes
<1>2. PICK o \in Origins : origin = o.id /\ hops = o.hops
  BY DEF RelayInit
<1>3. TypeOK
  BY <1>1, <1>2, RelayAssumption DEF RelayInit, TypeOK
<1>4. TreeOK /\ Reported /\ Straightaway /\ Fresh
  BY <1>1 DEF RelayInit, TreeOK, Reported, Straightaway, Fresh
<1>5. AtDest
  BY <1>1, <1>2, RelayAssumption DEF AtDest
<1>6. Live = {<< >>}
  BY <1>1 DEF Live, RelayInit
<1>7. IsFiniteSet(Live) /\ Cardinality(Live) = 1
  BY <1>6, FS_Singleton
<1>8. Ledger
  BY <1>7 DEF Ledger, RelayInit
<1> QED
  BY <1>3, <1>4, <1>5, <1>8 DEF RInv, Sound

\* Every step keeps the ledger.
LEMMA NextHolds == RInv /\ [RelayNext]_relayVars => RInv'
<1> SUFFICES ASSUME RInv, [RelayNext]_relayVars PROVE RInv'
  OBVIOUS
<1>1. CASE UNCHANGED relayVars
  BY <1>1, StutterKeeps DEF relayVars, fixed
<1>2. CASE NodeProgress
  BY <1>2, DeliverKeeps, DeadEndKeeps, ForwardKeeps, StartKeeps, FanOutKeeps, ReturnKeeps
  DEF NodeProgress
<1>3. ASSUME NEW r \in Routes, Break(r) \/ Stall(r) PROVE RInv'
  <2>1. CASE Break(r)
    BY <2>1, BreakKeeps
  <2>2. CASE Stall(r)
    BY <2>2, StutterKeeps DEF Stall, fixed
  <2> QED
    BY <1>3, <2>1, <2>2
<1>4. CASE OriginBreaks \/ TimesOut
  BY <1>4, GoesOnKeeps DEF OriginBreaks, TimesOut
<1> QED
  BY <1>1, <1>2, <1>3, <1>4, OriginCallsKeeps, OriginReturnsKeeps DEF RelayNext, Progress

\* The ledger holds in every reachable state.
THEOREM LedgerHolds == RelaySpec => []RInv
  BY InitHolds, NextHolds, PTL DEF RelaySpec

-----------------------------------------------------------------------------
(* The properties *)

\* The destination is handed a message at most once more than connections broke,
\* though fan-outs and retries leave calls behind that go on by themselves.
THEOREM DeliveredOncePerFault == RelaySpec => []OncePerFault
<1>1. RInv => OncePerFault
  <2> SUFFICES ASSUME RInv PROVE deliveries <= 1 + faults
    BY DEF OncePerFault
  <2>1. deliveries \in Nat /\ faults \in Nat /\ IsFiniteSet(Live)
    BY DEF RInv, Sound, TypeOK, Ledger
  <2>2. Cardinality(Live) \in Nat
    BY <2>1, FS_CardinalityType
  <2> QED
    BY <2>1, <2>2 DEF RInv, Ledger
<1> QED
  BY <1>1, LedgerHolds, PTL

\* The originator is told the truth: a delivery that was one and, when nothing
\* broke, a failure only if nothing was delivered and no node that the message came
\* to had the destination in its table.
THEOREM ReportsTrue == RelaySpec => []ReportIsTrue
<1>1. RInv => ReportIsTrue
  <2> SUFFICES ASSUME RInv PROVE ReportIsTrue
    OBVIOUS
  <2>1. result = "ok" => deliveries > 0
    BY DEF RInv, Sound, Reported
  <2>2. ASSUME result = "failed", faults = 0, NEW r \in Routes,
               Dest \in all_peers(table[Last(r)])
        PROVE  FALSE
    <3>1. deliveries = 0 /\ Live = {}
      BY <2>2 DEF RInv, Ledger
    <3>2. \A x \in Routes : calls[x].state # "received" /\ ~calls[x].delivered
      <4>1. ASSUME NEW x \in Routes PROVE calls[x].state # "received"
        BY <3>1, CallFacts
      <4>2. ASSUME NEW x \in Routes PROVE ~calls[x].delivered
        BY <3>1 DEF RInv, Sound, Reported
      <4> QED
        BY <4>1, <4>2
    <3>3. calls[r].state = "forward" /\ calls[r].child = Dest
      BY <2>2, <3>2 DEF RInv, Sound, Straightaway
    <3>4. Append(r, Dest) \in Routes
      BY <3>3, RelayAssumption DEF RInv, Sound, TreeOK
    <3>5. Last(Append(r, Dest)) = Dest
      BY CallFacts, AppendParts, RelayAssumption
    <3> QED
      BY <3>2, <3>4, <3>5 DEF RInv, Sound, AtDest
  <2>3. result = "failed" /\ faults = 0 => deliveries = 0
    BY DEF RInv, Ledger
  <2> QED
    BY <2>1, <2>2, <2>3 DEF ReportIsTrue, At
<1> QED
  BY <1>1, LedgerHolds, PTL
================================================================================
