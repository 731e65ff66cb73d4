----------------------------- MODULE OverlayProofs -----------------------------
(***************************************************************************)
(* Proofs about overlay nodes (module Overlay), for any number of nodes,   *)
(* any acquaintances at the start, any announced descriptors and any       *)
(* number of messages, losses and calls from outside.                      *)
(*                                                                         *)
(* Messages are made from tables and stores and change them, so one        *)
(* invariant speaks of all three: the queue holds messages that some       *)
(* handler takes, each store is the merge of what its node heard, and each *)
(* tracker holds at most one copy of a message.                            *)
(* The lemmas before it say what the operators return: the merge rules     *)
(* order descriptors totally, the closest three are at most three, a node  *)
(* that forwards has a hop to forward to.                                  *)
(***************************************************************************)
EXTENDS Overlay, FiniteSetTheorems, SequenceTheorems, WellFoundedInduction, TLAPS

-----------------------------------------------------------------------------
(* The merge of descriptors *)

\* The merge rules are a strict order on the valid descriptors of a node, in which
\* any two are comparable: the lower content hash decides last, and two contents
\* with one hash are the same.
LEMMA PreferOrder ==
    ASSUME NEW a \in CachedDescriptor(NodeId), NEW b \in CachedDescriptor(NodeId),
           NEW c \in CachedDescriptor(NodeId)
    PROVE  /\ prefer_incoming(a, b) => ~prefer_incoming(b, a)
           /\ prefer_incoming(a, b) /\ prefer_incoming(b, c) => prefer_incoming(a, c)
           /\ (/\ a.descriptor.node_id = b.descriptor.node_id
               /\ a.descriptor.valid /\ b.descriptor.valid) =>
                  a = b \/ prefer_incoming(a, b) \/ prefer_incoming(b, a)
<1>1. ASSUME NEW x \in CachedDescriptor(NodeId)
      PROVE  /\ x = Cached(x.descriptor, x.finalised_height)
             /\ x.descriptor \in Descriptor(NodeId)
             /\ x.finalised_height \in Int
             /\ x.descriptor.version \in Nat /\ x.descriptor.content \in Nat
             /\ x.descriptor.valid \in BOOLEAN
  BY DEF CachedDescriptor, Descriptor, Cached, None
<1>2. prefer_incoming(a, b) => ~prefer_incoming(b, a)
  BY <1>1 DEF prefer_incoming
<1>3. prefer_incoming(a, b) /\ prefer_incoming(b, c) => prefer_incoming(a, c)
  BY <1>1 DEF prefer_incoming
<1>4. ASSUME a.descriptor.node_id = b.descriptor.node_id,
             a.descriptor.valid, b.descriptor.valid,
             ~prefer_incoming(a, b), ~prefer_incoming(b, a)
      PROVE  a = b
  <2>1. /\ a.finalised_height = b.finalised_height
        /\ a.descriptor.version = b.descriptor.version
        /\ a.descriptor.content = b.descriptor.content
    BY <1>1, <1>4 DEF prefer_incoming
  <2>2. a.descriptor = b.descriptor
    BY <1>1, <1>4, <2>1 DEF Descriptor
  <2> QED
    BY <1>1, <2>1, <2>2
<1> QED
  BY <1>2, <1>3, <1>4

\* The store S of a node that was given the descriptors H: it has one entry for
\* each identity, which is preferred to everything that was heard of that identity.
MergeOf(S, H) ==
    /\ S \subseteq H /\ H \subseteq CachedDescriptor(NodeId)
    /\ \A e \in H : e.descriptor.valid
    /\ \A b, c \in S : b.descriptor.node_id = c.descriptor.node_id => b = c
    /\ \A e \in H : \E b \in S :
          /\ b.descriptor.node_id = e.descriptor.node_id
          /\ b = e \/ prefer_incoming(b, e)

\* What upsert adds to what was heard.
Given(d, h) == IF d.valid THEN {Cached(d, h)} ELSE {}

\* One more descriptor, whichever way it came.
LEMMA UpsertMerges ==
    ASSUME NEW S, NEW H, MergeOf(S, H), NEW d \in Descriptor(NodeId),
           NEW h \in Nat \cup {None}
    PROVE  MergeOf(upsert(S, d, h), H \cup Given(d, h))
<1> DEFINE c == Cached(d, h)
           id == d.node_id
<1>1. c \in CachedDescriptor(NodeId) /\ c.descriptor = d
  BY DEF CachedDescriptor, Cached
<1>2. CASE ~d.valid
  BY <1>2 DEF upsert, Given
<1>3. CASE d.valid /\ \A e \in Of(S, id) : prefer_incoming(c, e)
  <2> DEFINE U == (S \ Of(S, id)) \cup {c}
             K == H \cup {c}
  <2>1. upsert(S, d, h) = U /\ H \cup Given(d, h) = K
    BY <1>3 DEF upsert, Given
  <2> HIDE DEF c
  <2>2. \A b \in S : b \in CachedDescriptor(NodeId)
    BY DEF MergeOf
  <2>3. ASSUME NEW e \in K
        PROVE  \E b \in U : /\ b.descriptor.node_id = e.descriptor.node_id
                            /\ b = e \/ prefer_incoming(b, e)
    <3>1. CASE e = c
      BY <3>1
    <3>2. CASE e # c
      <4>1. PICK b \in S : /\ b.descriptor.node_id = e.descriptor.node_id
                           /\ b = e \/ prefer_incoming(b, e)
        BY <2>3, <3>2 DEF MergeOf
      <4>2. CASE b.descriptor.node_id # id
        BY <4>1, <4>2 DEF Of
      <4>3. CASE b.descriptor.node_id = id
        <5>1. prefer_incoming(c, b)
          BY <1>3, <4>3 DEF Of
        <5>2. e \in CachedDescriptor(NodeId) /\ b \in CachedDescriptor(NodeId)
          BY <2>2, <2>3, <3>2 DEF MergeOf
        <5>3. prefer_incoming(c, e)
          BY <1>1, <4>1, <5>1, <5>2, PreferOrder
        <5> QED
          BY <1>1, <4>1, <4>3, <5>3
      <4> QED
        BY <4>2, <4>3
    <3> QED
      BY <3>1, <3>2
  <2>4. \A x, y \in U : x.descriptor.node_id = y.descriptor.node_id => x = y
    BY <1>1 DEF MergeOf, Of
  <2>5. U \subseteq K /\ K \subseteq CachedDescriptor(NodeId) /\ \A e \in K : e.descriptor.valid
    BY <1>1, <1>3 DEF MergeOf
  <2> HIDE DEF U, K
  <2> QED
    BY <2>1, <2>3, <2>4, <2>5 DEF MergeOf
<1>4. CASE d.valid /\ ~(\A e \in Of(S, id) : prefer_incoming(c, e))
  <2>1. upsert(S, d, h) = S /\ H \cup Given(d, h) = H \cup {c}
    BY <1>4 DEF upsert, Given
  <2> HIDE DEF c
  <2>2. PICK e \in S : e.descriptor.node_id = id /\ ~prefer_incoming(c, e)
    BY <1>4 DEF Of
  <2>3. e \in CachedDescriptor(NodeId) /\ e.descriptor.valid
    BY DEF MergeOf
  <2>4. c = e \/ prefer_incoming(e, c)
    BY <1>1, <1>4, <2>2, <2>3, PreferOrder
  <2>5. H \cup {c} \subseteq CachedDescriptor(NodeId) /\ \A x \in H \cup {c} : x.descriptor.valid
    BY <1>1, <1>4 DEF MergeOf
  <2>6. \A x \in H \cup {c} : \E b \in S :
            /\ b.descriptor.node_id = x.descriptor.node_id
            /\ b = x \/ prefer_incoming(b, x)
    BY <1>1, <2>2, <2>4 DEF MergeOf
  <2>7. S \subseteq H \cup {c} /\ \A x, y \in S : x.descriptor.node_id = y.descriptor.node_id => x = y
    BY DEF MergeOf
  <2>8. MergeOf(S, H \cup {c})
    BY <2>5, <2>6, <2>7 DEF MergeOf
  <2> QED
    BY <2>1, <2>8
<1> QED
  BY <1>2, <1>3, <1>4

\* Such a store is the set of those that are preferred to all others.
LEMMA MergeIsBest ==
    ASSUME NEW S, NEW H, MergeOf(S, H)
    PROVE  S = {e \in H : \A other \in Of(H, e.descriptor.node_id) :
                   other = e \/ prefer_incoming(e, other)}
<1>1. ASSUME NEW s \in S, NEW other \in Of(H, s.descriptor.node_id)
      PROVE  s \in H /\ (other = s \/ prefer_incoming(s, other))
  <2>1. other \in H /\ other.descriptor.node_id = s.descriptor.node_id
    BY DEF Of
  <2>2. PICK b \in S : /\ b.descriptor.node_id = other.descriptor.node_id
                       /\ b = other \/ prefer_incoming(b, other)
    BY <2>1 DEF MergeOf
  <2>3. b = s
    BY <2>1, <2>2 DEF MergeOf
  <2> QED
    BY <2>2, <2>3 DEF MergeOf
<1>2. ASSUME NEW e \in H, \A other \in Of(H, e.descriptor.node_id) :
                 other = e \/ prefer_incoming(e, other)
      PROVE  e \in S
  <2>1. PICK b \in S : /\ b.descriptor.node_id = e.descriptor.node_id
                       /\ b = e \/ prefer_incoming(b, e)
    BY DEF MergeOf
  <2>2. b \in H /\ b \in CachedDescriptor(NodeId) /\ e \in CachedDescriptor(NodeId)
    BY DEF MergeOf
  <2>3. b = e \/ prefer_incoming(e, b)
    BY <1>2, <2>1, <2>2 DEF Of
  <2>4. b = e
    BY <2>1, <2>2, <2>3, PreferOrder
  <2> QED
    BY <2>4
<1> QED
  BY <1>1, <1>2 DEF MergeOf

-----------------------------------------------------------------------------
(* Tables and lists of peers *)

\* A set of numbers that is not empty has a least one.
LEMMA LeastOf ==
    ASSUME NEW T, T \subseteq Nat, T # {}
    PROVE  \E x \in T : \A y \in T : x <= y
<1>1. PICK x \in T : \A y \in T : ~(<<y, x>> \in OpToRel(<, Nat))
  BY NatLessThanWellFounded, WFMin, Zenon
<1>2. ASSUME NEW y \in T PROVE x <= y
  <2>1. ~(y < x)
    BY <1>1 DEF OpToRel
  <2> QED
    BY <2>1
<1> QED
  BY <1>2

\* The slots and the peers of a table.
LEMMA SlotsTyped ==
    ASSUME NEW t \in TableType
    PROVE  /\ t.slots \subseteq SlotEntry
           /\ t.replacements_this_tick \in 0..1
           /\ all_peers(t) \subseteq NodeId
           /\ Alive(t) \subseteq SlotEntry
           /\ \A s \in SlotEntry : s.peer_id \in NodeId
  BY DEF TableType, SlotEntry, all_peers, Alive

\* An insertion leaves a table with at most one replacement in its tick.
LEMMA InsertTyped ==
    ASSUME NEW n, NEW t \in TableType, NEW e \in SlotEntry
    PROVE  try_insert(n, t, e) \in TableType
<1>1. /\ t = [slots |-> t.slots, replacements_this_tick |-> t.replacements_this_tick]
      /\ t.slots \in SUBSET SlotEntry /\ t.replacements_this_tick \in 0..1
  BY DEF TableType
<1>2. Push(t, e) \in TableType /\ \A old : Replace(t, old, e) \in TableType
  BY <1>1 DEF Push, Replace, TableType
<1>3. \A u \in TableType : u.replacements_this_tick < 1 => Spent(u) \in TableType
  BY DEF Spent, TableType
<1>4. /\ Push(t, e).replacements_this_tick = t.replacements_this_tick
      /\ \A old : Replace(t, old, e).replacements_this_tick = t.replacements_this_tick
  BY <1>1 DEF Push, Replace
<1>5. try_insert_greedy(n, t, e) \in TableType
  BY <1>2, <1>3, <1>4 DEF try_insert_greedy
<1>6. try_insert_longjump(t, e) \in TableType
  BY <1>2 DEF try_insert_longjump
<1>7. try_insert_diversity(t, e) \in TableType
  BY <1>1, <1>2, <1>3, <1>4 DEF try_insert_diversity
<1>8. e.kind \in {"Greedy", "LongJump", "Diversity"}
  BY DEF SlotEntry, SlotKind
<1>9. CASE e.peer_id \in all_peers(t)
  BY <1>9 DEF try_insert
<1>10. CASE e.peer_id \notin all_peers(t)
  BY <1>5, <1>6, <1>7, <1>8, <1>10 DEF try_insert
<1> QED
  BY <1>9, <1>10

\* A new entry is an entry.
LEMMA NewEntryTyped ==
    ASSUME NEW k \in SlotKind, NEW p \in NodeId, NEW r \in NodeId
    PROVE  NewEntry(k, p, r) \in SlotEntry
  BY DEF NewEntry, SlotEntry, Loss

\* The closest live peer exists.
LEMMA BestHopTyped ==
    ASSUME NEW t \in TableType, NEW self \in NodeId, NEW target \in NodeId,
           next_hop(self, target, t) = "Forward"
    PROVE  BestHop(target, t) \in NodeId
<1> DEFINE T == {Distance[target][s.peer_id] : s \in Alive(t)}
<1>1. Alive(t) # {}
  BY DEF next_hop, Forwards
<1>2. T \subseteq Nat /\ T # {}
  BY <1>1, SlotsTyped, DistanceAssumption
<1>3. PICK x \in T : \A y \in T : x <= y
  <2> HIDE DEF T
  <2> QED
    BY <1>2, LeastOf
<1>4. \E s \in Alive(t) : \A other \in Alive(t) :
          Distance[target][s.peer_id] <= Distance[target][other.peer_id]
  BY <1>3
<1> QED
  BY <1>4, SlotsTyped DEF BestHop

\* An answer to FIND_NODE has at most three peers: no two of them have the same
\* number of live peers that are closer to the target.
LEMMA ThreeClosest ==
    ASSUME NEW t \in TableType, NEW target \in NodeId
    PROVE  /\ closest_peers(target, t) \subseteq NodeId
           /\ IsFiniteSet(closest_peers(target, t))
           /\ Cardinality(closest_peers(target, t)) <= 3
<1> DEFINE live == {s.peer_id : s \in Alive(t)}
           d(p) == Distance[target][p]
           Closer(p) == {q \in live : d(q) < d(p)}
           C == closest_peers(target, t)
           f == [p \in C |-> Cardinality(Closer(p))]
<1>1. live \subseteq NodeId /\ IsFiniteSet(live)
  <2>1. live \in SUBSET NodeId
    BY SlotsTyped
  <2> QED
    BY <2>1, FS_Subset, OverlayAssumption
<1>2. C = {p \in live : Cardinality(Closer(p)) < 3}
  BY DEF closest_peers
<1>3. C \in SUBSET live
  BY <1>2
<1>4. ASSUME NEW p \in live
      PROVE  IsFiniteSet(Closer(p)) /\ Cardinality(Closer(p)) \in Nat
  BY <1>1, FS_Subset, FS_CardinalityType
<1>5. ASSUME NEW p \in live, NEW q \in live, d(p) < d(q)
      PROVE  Cardinality(Closer(p)) < Cardinality(Closer(q))
  <2>1. d(p) \in Nat /\ d(q) \in Nat /\ \A x \in live : d(x) \in Nat
    BY <1>1, DistanceAssumption
  <2>2. Closer(p) \in SUBSET Closer(q) /\ p \in Closer(q) /\ p \notin Closer(p)
    BY <1>5, <2>1
  <2> HIDE DEF Closer
  <2>3. Cardinality(Closer(p)) <= Cardinality(Closer(q)) /\ Closer(p) # Closer(q)
    BY <1>4, <2>2, FS_Subset
  <2>4. Cardinality(Closer(p)) # Cardinality(Closer(q))
    BY <1>4, <2>2, <2>3, FS_Subset
  <2> QED
    BY <1>4, <2>3, <2>4
<1>6. f \in Injection(C, 0..2)
  <2>1. f \in [C -> 0..2]
    <3> HIDE DEF Closer, live, C
    <3> QED
      BY <1>2, <1>3, <1>4
  <2>2. ASSUME NEW p \in C, NEW q \in C, f[p] = f[q] PROVE p = q
    <3>1. p \in live /\ q \in live /\ p \in NodeId /\ q \in NodeId
      BY <1>1, <1>3
    <3>2. Cardinality(Closer(p)) = Cardinality(Closer(q))
      BY <2>2
    <3>3. ~(d(p) < d(q)) /\ ~(d(q) < d(p))
      <4> HIDE DEF Closer, live, d
      <4> QED
        BY <1>4, <1>5, <3>1, <3>2
    <3>4. d(p) \in Nat /\ d(q) \in Nat
      BY <3>1, DistanceAssumption
    <3>5. d(p) = d(q)
      <4> HIDE DEF d
      <4> QED
        BY <3>3, <3>4
    <3> QED
      BY <3>1, <3>5, DistanceAssumption
  <2> HIDE DEF f, C
  <2> QED
    BY <2>1, <2>2 DEF Injection, IsInjective
<1>7. IsFiniteSet(0..2) /\ Cardinality(0..2) = 3
  <2>1. 0 \in Int /\ 2 \in Int /\ ~(0 > 2) /\ 2 - 0 + 1 = 3
    OBVIOUS
  <2> QED
    BY <2>1, FS_Interval
<1>8. Cardinality(C) <= 3
  <2> HIDE DEF f, C
  <2> QED
    BY <1>6, <1>7, FS_Injection
<1> QED
  BY <1>1, <1>3, <1>8, FS_Subset

\* A list of peers that n recommends has one candidate for each of them.
LEMMA RecommendedTyped ==
    ASSUME NEW n \in NodeId, store \in [NodeId -> SUBSET CachedDescriptor(NodeId)],
           NEW P, P \subseteq NodeId, IsFiniteSet(P),
           NEW list \in Listings(Described(n, P))
    PROVE  /\ Recommended(n, list) \in Seq(Candidates)
           /\ Len(Recommended(n, list)) <= Cardinality(P)
<1> DEFINE D == Described(n, P)
           k == Cardinality(D)
           r == Recommended(n, list)
<1>1. D \in SUBSET P
  BY DEF Described
<1>2. k \in Nat /\ k <= Cardinality(P)
  BY <1>1, FS_Subset, FS_CardinalityType
<1>3. list \in [1..k -> D]
  BY DEF Listings
<1>4. ASSUME NEW i \in 1..k PROVE r[i] \in Candidates
  <2>1. list[i] \in NodeId /\ Of(store[n], list[i]) # {}
    BY <1>3, <1>4 DEF Described
  <2> DEFINE e == CHOOSE x \in Of(store[n], list[i]) : TRUE
  <2>2. e \in store[n]
    <3>1. e \in Of(store[n], list[i])
      BY <2>1
    <3> HIDE DEF e
    <3> QED
      BY <3>1 DEF Of
  <2>3. e.descriptor \in Descriptor(NodeId)
    <3> HIDE DEF e
    <3>1. e \in CachedDescriptor(NodeId)
      BY <2>2
    <3> QED
      BY <3>1 DEF CachedDescriptor
  <2>4. r[i] = [descriptor |-> e.descriptor, referrer |-> n]
    BY <1>3, <1>4 DEF Recommended
  <2> HIDE DEF e, r
  <2> QED
    BY <2>3, <2>4 DEF Candidates
<1>5. r \in [1..k -> Candidates]
  <2>1. DOMAIN r = 1..k /\ r = [i \in 1..k |-> r[i]]
    BY <1>3 DEF Recommended
  <2> HIDE DEF r
  <2> QED
    BY <1>4, <2>1
<1> HIDE DEF r, k
<1>6. r \in Seq(Candidates) /\ Len(r) = k
  BY <1>2, <1>5
<1> QED
  BY <1>2, <1>6 DEF r

-----------------------------------------------------------------------------
(* Messages *)

\* What each kind of message carries.
LEMMA BodyFields ==
    ASSUME NEW b \in Body
    PROVE  /\ b.kind = "Hello" \/ b.kind = "AnnounceDescriptor" =>
                  b.descriptor \in Descriptor(NodeId)
           /\ b.kind = "FindNode" => b.target \in NodeId
           /\ b.kind = "FoundNodes" => b.peers \in Seq(Candidates) /\ Len(b.peers) <= 3
           /\ b.kind = "Pex" => b.candidates \in Seq(Candidates)
           /\ b.kind = "UserData" =>
                  /\ b.to \in NodeId /\ b.dest \in NodeId /\ b.ttl \in Nat
                  /\ b.critical \in BOOLEAN
                  /\ b.critical => b.message_id \in MessageId /\ b.payload \in Payloads
  BY DEF Body

\* The bodies that nodes and their users write.
LEMMA BodiesTyped ==
    /\ \A d \in Descriptor(NodeId) : Hello(d) \in Body
    /\ \A d \in Descriptor(NodeId) :
          [kind |-> "AnnounceDescriptor", descriptor |-> d] \in Body
    /\ \A t \in NodeId : FindNode(t) \in Body
    /\ \A k \in {"Ping", "Pong", "Invite"} : Plain(k) \in Body
    /\ \A c \in Seq(Candidates) : Len(c) <= 3 => [kind |-> "FoundNodes", peers |-> c] \in Body
    /\ \A c \in Seq(Candidates) : [kind |-> "Pex", candidates |-> c] \in Body
    /\ \A to, dest \in NodeId, ttl \in Nat : UserData(to, dest, ttl) \in Body
    /\ \A to, dest \in NodeId, id \in MessageId, p \in Payloads :
          Critical(to, dest, id, p) \in Body
  BY DEF Body, Hello, FindNode, Plain, UserData, Critical

\* User data keeps its other fields when it is readdressed.
LEMMA ReaddressedTyped ==
    ASSUME NEW b \in Body, b.kind = "UserData", b.ttl > 1, NEW next \in NodeId
    PROVE  [b EXCEPT !.ttl = @ - 1, !.to = next] \in Body
<1>1. b.ttl \in Nat /\ b.ttl - 1 \in Nat
  BY BodyFields
<1>2. CASE b \in [kind : {"UserData"}, to : NodeId, dest : NodeId, ttl : Nat,
                  critical : {FALSE}]
  BY <1>1, <1>2 DEF Body
<1>3. CASE b \in [kind : {"UserData"}, to : NodeId, dest : NodeId, ttl : Nat,
                  critical : {TRUE}, message_id : MessageId, payload : Payloads]
  BY <1>1, <1>3 DEF Body
<1> QED
  BY <1>2, <1>3 DEF Body

\* Envelopes.
LEMMA EnvelopeTyped ==
    ASSUME NEW from \in NodeId, NEW at \in NodeId, NEW b \in Body
    PROVE  Signed(from, at, b) \in Message /\ Unsigned(from, at, b) \in Message
  BY DEF Signed, Unsigned, Message

\* The front of the queue.
LEMMA FrontTyped ==
    ASSUME queue \in Seq(Message), queue # << >>
    PROVE  /\ msg.from \in NodeId /\ msg.at \in NodeId /\ body \in Body
           /\ Tail(queue) \in Seq(Message)
<1>1. msg \in Message /\ Tail(queue) \in Seq(Message)
  BY HeadTailProperties DEF msg
<1> QED
  BY <1>1 DEF Message, body

\* Messages that are sent keep the queue a queue of messages.
LEMMA SentTyped ==
    ASSUME queue \in Seq(Message), NEW out \in Seq(Message)
    PROVE  /\ Enqueue(out) => queue' \in Seq(Message)
           /\ queue # << >> /\ Sends(out) => queue' \in Seq(Message)
  BY FrontTyped, ConcatProperties DEF Enqueue, Sends

\* One or two messages, or none.
LEMMA FewTyped ==
    /\ << >> \in Seq(Message)
    /\ \A m \in Message : <<m>> \in Seq(Message)
    /\ \A m, l \in Message : <<m, l>> \in Seq(Message)
  OBVIOUS

\* One FIND_NODE toward a target, and what a node without a greedy hop sends.
LEMMA FindTyped ==
    ASSUME table \in [NodeId -> TableType],
           NEW n \in NodeId, NEW target \in NodeId, NEW first \in all_peers(table[n])
    PROVE  first \in NodeId /\ Find(n, target, first) \in Seq(Message)
<1>1. table[n] \in TableType
  OBVIOUS
<1>2. first \in NodeId
  BY <1>1, SlotsTyped
<1> DEFINE hop == IF next_hop(n, target, table[n]) = "Forward"
                    THEN BestHop(target, table[n]) ELSE first
<1>3. hop \in NodeId
  BY <1>1, <1>2, BestHopTyped
<1> HIDE DEF hop
<1>4. FindNode(target) \in Body
  BY BodiesTyped
<1>5. <<Signed(n, hop, FindNode(target))>> \in Seq(Message)
  BY <1>3, <1>4, EnvelopeTyped, FewTyped
<1> QED
  BY <1>2, <1>5 DEF Find, hop

\* What emit_find_node_repair sends.
LEMMA FindsTyped ==
    ASSUME table \in [NodeId -> TableType],
           NEW n \in NodeId, NEW target \in NodeId, NEW out \in Finds(n, target)
    PROVE  out \in Seq(Message)
<1>1. CASE all_peers(table[n]) = {}
  BY <1>1, FewTyped DEF Finds
<1>2. CASE all_peers(table[n]) # {}
  BY <1>2, FindTyped DEF Finds
<1> QED
  BY <1>1, <1>2

\* The copy of user data for the next hop.
LEMMA HopTyped ==
    ASSUME queue \in Seq(Message), queue # << >>, body.kind = "UserData",
           NEW next \in NodeId
    PROVE  send_user_hop(next) \in Seq(Message)
<1>1. msg.at \in NodeId /\ body \in Body /\ body.ttl \in Nat
  BY FrontTyped, BodyFields
<1>2. CASE body.ttl <= 1
  BY <1>2, FewTyped DEF send_user_hop
<1>3. CASE ~(body.ttl <= 1)
  <2>1. [body EXCEPT !.ttl = @ - 1, !.to = next] \in Body
    <3>1. body.ttl > 1
      BY <1>1, <1>3
    <3> HIDE DEF body
    <3> QED
      BY <1>1, <3>1, ReaddressedTyped
  <2>2. <<Signed(msg.at, next, [body EXCEPT !.ttl = @ - 1, !.to = next])>> \in Seq(Message)
    BY <1>1, <2>1, EnvelopeTyped, FewTyped
  <2> QED
    BY <1>3, <2>2 DEF send_user_hop
<1> QED
  BY <1>2, <1>3

\* A pair of first hops.
LEMMA ForkTyped ==
    ASSUME NEW t, NEW hops \in pick_fork_hops(t)
    PROVE  hops[1] \in NodeId /\ hops[2] \in NodeId
  BY DEF pick_fork_hops, Diverse, WithLongJump, AnyTwo

\* A peer exchange.
LEMMA ExchangeTyped ==
    ASSUME table \in [NodeId -> TableType],
           store \in [NodeId -> SUBSET CachedDescriptor(NodeId)],
           NEW n \in NodeId, NEW c \in build_response(n)
    PROVE  c \in Seq(Candidates)
<1> DEFINE live == {s.peer_id : s \in Alive(table[n])}
<1>1. live \subseteq NodeId
  <2>1. table[n] \in TableType
    OBVIOUS
  <2> QED
    BY <2>1, SlotsTyped
<1>2. PICK P \in SUBSET live : \E list \in Listings(Described(n, P)) : c = Recommended(n, list)
  BY DEF build_response
<1>3. P \subseteq NodeId /\ IsFiniteSet(P)
  BY <1>1, FS_Subset, OverlayAssumption
<1> QED
  BY <1>2, <1>3, RecommendedTyped

-----------------------------------------------------------------------------
(* The inductive invariant *)

\* An entry of a tracker: it holds the first copy of its message.
Tracker == [message_id : MessageId, payload : Payloads, matches : {1}, mismatch : BOOLEAN]

NetOK ==
    /\ nodes \subseteq NodeId
    /\ msg_counter \in [NodeId -> 0..MaxMessageId]
    /\ inputs \in 0..MaxInputs /\ losses \in 0..MaxLosses

QueueOK == queue \in Seq(Message)

TablesOK == table \in [NodeId -> TableType]

LimitsOK == limits \in [NodeId -> [{"find", "invite"} -> [NodeId -> 0..MaxFind]]]

\* Every store is the merge of what its node was given.
StoresOK ==
    /\ store \in [NodeId -> SUBSET CachedDescriptor(NodeId)]
    /\ heard \in [NodeId -> SUBSET CachedDescriptor(NodeId)]
    /\ \A n \in NodeId : MergeOf(store[n], heard[n])

\* A tracker keeps the messages that wait for their second copy, and those that
\* it found inconsistent.
TrackersOK == quorum \in [NodeId -> SUBSET Tracker]

OInv == NetOK /\ QueueOK /\ TablesOK /\ LimitsOK /\ StoresOK /\ TrackersOK

\* What a step leaves alone stays right.
LEMMA Kept ==
    /\ TablesOK /\ UNCHANGED table => TablesOK'
    /\ LimitsOK /\ UNCHANGED limits => LimitsOK'
    /\ StoresOK /\ UNCHANGED <<store, heard>> => StoresOK'
    /\ TrackersOK /\ UNCHANGED quorumVars => TrackersOK'
    /\ NetOK /\ UNCHANGED <<netVars, msg_counter, inputs>> => NetOK'
    /\ QueueOK /\ UNCHANGED queue => QueueOK'
<1>1. TablesOK /\ UNCHANGED table => TablesOK'
  BY DEF TablesOK
<1>2. LimitsOK /\ UNCHANGED limits => LimitsOK'
  BY DEF LimitsOK
<1>3. StoresOK /\ UNCHANGED <<store, heard>> => StoresOK'
  BY DEF StoresOK
<1>4. TrackersOK /\ UNCHANGED quorumVars => TrackersOK'
  BY DEF TrackersOK, quorumVars
<1>5. NetOK /\ UNCHANGED <<netVars, msg_counter, inputs>> => NetOK'
  BY DEF NetOK, netVars
<1>6. QueueOK /\ UNCHANGED queue => QueueOK'
  BY DEF QueueOK
<1> QED
  BY <1>1, <1>2, <1>3, <1>4, <1>5, <1>6

\* One node's store hears a descriptor.
LEMMA UpsertKeeps ==
    ASSUME StoresOK, NEW n \in NodeId, NEW d \in Descriptor(NodeId),
           NEW h \in Nat \cup {None}, Upsert(n, d, h)
    PROVE  StoresOK'
<1> DEFINE S == upsert(store[n], d, h)
           H == heard[n] \cup Given(d, h)
<1>1. MergeOf(S, H)
  BY UpsertMerges DEF StoresOK
<1>2. S \in SUBSET CachedDescriptor(NodeId) /\ H \in SUBSET CachedDescriptor(NodeId)
  BY <1>1 DEF MergeOf
<1>3. heard[n] \cup Given(d, h) = IF d.valid THEN heard[n] \cup {Cached(d, h)} ELSE heard[n]
  BY DEF Given
<1> HIDE DEF S
<1>4. store' = [store EXCEPT ![n] = S] /\ heard' = [heard EXCEPT ![n] = H]
  BY <1>3 DEF Upsert, S, StoresOK
<1> HIDE DEF H
<1> QED
  BY <1>1, <1>2, <1>4 DEF StoresOK

\* One node's table changes.
LEMMA TableKeeps ==
    ASSUME TablesOK, NEW n \in NodeId, NEW t \in TableType,
           table' = [table EXCEPT ![n] = t]
    PROVE  TablesOK'
  BY DEF TablesOK

\* A call from outside.
LEMMA InputKeeps ==
    ASSUME NetOK, Input, UNCHANGED <<netVars, msg_counter>>
    PROVE  NetOK'
  BY OverlayAssumption DEF NetOK, Input, netVars

-----------------------------------------------------------------------------
(* The handlers *)

\* The descriptor of a node in its Hellos.
LEMMA OwnTyped ==
    ASSUME NEW n \in NodeId
    PROVE  own_descriptor(n) \in Descriptor(NodeId) /\ Hello(own_descriptor(n)) \in Body
<1>1. own_descriptor(n) \in Descriptor(NodeId)
  BY DEF own_descriptor, Descriptor
<1> QED
  BY <1>1, BodiesTyped

\* What a handler that answers nothing, or with one body, leaves in the queue.
LEMMA AnsweredTyped ==
    ASSUME QueueOK, queue # << >>
    PROVE  /\ Sends(<< >>) => QueueOK'
           /\ \A b \in Body : Reply(b) => QueueOK'
<1>1. queue \in Seq(Message)
  BY DEF QueueOK
<1>2. Sends(<< >>) => QueueOK'
  BY <1>1, FewTyped, SentTyped DEF QueueOK
<1>3. ASSUME NEW b \in Body, Reply(b) PROVE QueueOK'
  <2>1. <<Signed(msg.at, msg.from, b)>> \in Seq(Message)
    BY <1>1, FrontTyped, EnvelopeTyped, FewTyped
  <2> HIDE DEF msg
  <2> QED
    BY <1>1, <1>3, <2>1, SentTyped DEF QueueOK, Reply
<1> QED
  BY <1>2, <1>3

\* A message that arrives: who takes part, and what it carries.
LEMMA ArrivalTyped ==
    ASSUME OInv, NEW kind, Arrives(kind)
    PROVE  /\ queue # << >> /\ queue \in Seq(Message)
           /\ msg.at \in NodeId /\ msg.from \in NodeId
           /\ body \in Body /\ body.kind = kind
           /\ table[msg.at] \in TableType
<1>1. queue # << >> /\ queue \in Seq(Message) /\ body.kind = kind
  BY DEF OInv, QueueOK, Arrives
<1>2. msg.at \in NodeId /\ msg.from \in NodeId /\ body \in Body
  BY <1>1, FrontTyped
<1> QED
  BY <1>1, <1>2 DEF OInv, TablesOK

\* Hello.
LEMMA HelloKeeps == OInv /\ hello => OInv'
<1> SUFFICES ASSUME OInv, hello PROVE OInv'
  OBVIOUS
<1> DEFINE n == msg.at
           t == IF body.descriptor.valid
                  THEN try_insert(n, table[n], NewEntry("Greedy", msg.from, msg.from))
                  ELSE table[n]
<1>1. /\ queue # << >> /\ queue \in Seq(Message)
      /\ n \in NodeId /\ msg.from \in NodeId
      /\ body \in Body /\ body.kind = "Hello" /\ table[n] \in TableType
  BY ArrivalTyped DEF hello
<1>2. body.descriptor \in Descriptor(NodeId)
  BY <1>1, BodyFields
<1>3. QueueOK'
  BY <1>1, OwnTyped, AnsweredTyped DEF OInv, hello
<1>4. StoresOK'
  BY <1>1, <1>2, UpsertKeeps DEF OInv, hello, None
<1>5. t \in TableType
  BY <1>1, NewEntryTyped, InsertTyped DEF SlotKind
<1>6. TablesOK'
  <2>1. table' = [table EXCEPT ![n] = t]
    BY <1>1 DEF hello, OInv, TablesOK
  <2> HIDE DEF n, t
  <2> QED
    BY <1>1, <1>5, <2>1, TableKeeps DEF OInv
<1>7. UNCHANGED <<quorumVars, netVars, limits, msg_counter, inputs>>
  BY DEF hello
<1> QED
  BY <1>3, <1>4, <1>6, <1>7, Kept DEF OInv

\* Ping.
LEMMA PingKeeps == OInv /\ ping => OInv'
<1> SUFFICES ASSUME OInv, ping PROVE OInv'
  OBVIOUS
<1>1. queue # << >> /\ Plain("Pong") \in Body
  BY ArrivalTyped, BodiesTyped DEF ping
<1>2. QueueOK'
  BY <1>1, AnsweredTyped DEF OInv, ping
<1>3. UNCHANGED <<table, store, heard, quorumVars, netVars, limits, msg_counter, inputs>>
  BY DEF ping, nodeVars
<1> QED
  BY <1>2, <1>3, Kept DEF OInv

\* Pong: the losses of the answering peer's slots change.
LEMMA PongKeeps == OInv /\ pong => OInv'
<1> SUFFICES ASSUME OInv, pong PROVE OInv'
  OBVIOUS
<1> DEFINE n == msg.at
           hit == {s \in table[n].slots : s.peer_id = msg.from}
<1>1. queue # << >> /\ n \in NodeId /\ table[n] \in TableType
  BY ArrivalTyped DEF pong
<1>2. QueueOK'
  BY <1>1, AnsweredTyped DEF OInv, pong
<1>3. PICK probed \in [hit -> SlotEntry] :
          table' = [table EXCEPT ![n].slots = (@ \ hit) \cup {probed[s] : s \in hit}]
  BY DEF pong
<1> DEFINE slots == (table[n].slots \ hit) \cup {probed[s] : s \in hit}
           t == [table[n] EXCEPT !.slots = slots]
<1>4. slots \in SUBSET SlotEntry
  BY <1>1, SlotsTyped
<1>5. table' = [table EXCEPT ![n] = t]
  BY <1>1, <1>3 DEF OInv, TablesOK
<1>6. t \in TableType
  <2> HIDE DEF slots, n
  <2> QED
    BY <1>1, <1>4 DEF TableType
<1>7. TablesOK'
  <2> HIDE DEF n, t
  <2> QED
    BY <1>1, <1>5, <1>6, TableKeeps DEF OInv
<1>8. UNCHANGED <<store, heard, quorumVars, netVars, limits, msg_counter, inputs>>
  BY DEF pong
<1> QED
  BY <1>2, <1>7, <1>8, Kept DEF OInv

\* The outcomes of try_consume stay within the window.
LEMMA ConsumedTyped ==
    ASSUME LimitsOK, NEW n \in NodeId, NEW op \in {"find", "invite"}, NEW p \in NodeId,
           NEW bucket \in try_consume(limits[n][op][p]),
           limits' = [limits EXCEPT ![n][op][p] = bucket.count]
    PROVE  LimitsOK'
<1>1. limits[n][op][p] \in 0..MaxFind /\ MaxFind \in Nat \ {0}
  BY OverlayAssumption DEF LimitsOK
<1>2. bucket.count \in 0..MaxFind
  BY <1>1 DEF try_consume
<1> QED
  BY <1>2 DEF LimitsOK

\* FIND_NODE.
LEMMA FindNodeKeeps == OInv /\ find_node => OInv'
<1> SUFFICES ASSUME OInv, find_node PROVE OInv'
  OBVIOUS
<1> DEFINE n == msg.at
           C == closest_peers(body.target, table[n])
<1>1. /\ queue # << >> /\ queue \in Seq(Message)
      /\ n \in NodeId /\ msg.from \in NodeId /\ table[n] \in TableType
      /\ body \in Body /\ body.kind = "FindNode"
  BY ArrivalTyped DEF find_node
<1>2. LimitsOK'
  BY <1>1, ConsumedTyped DEF OInv, find_node
<1>3. QueueOK'
  <2>1. CASE Sends(<< >>)
    BY <1>1, <2>1, AnsweredTyped DEF OInv
  <2>2. CASE \E list \in Listings(Described(n, C)) :
                 Reply([kind |-> "FoundNodes", peers |-> Recommended(n, list)])
    <3>1. PICK list \in Listings(Described(n, C)) :
              Reply([kind |-> "FoundNodes", peers |-> Recommended(n, list)])
      BY <2>2
    <3>2. body.target \in NodeId
      BY <1>1, BodyFields
    <3>3. C \subseteq NodeId /\ IsFiniteSet(C) /\ Cardinality(C) <= 3
      BY <1>1, <3>2, ThreeClosest
    <3>4. Recommended(n, list) \in Seq(Candidates) /\ Len(Recommended(n, list)) <= 3
      <4> HIDE DEF C, n
      <4>1. /\ Recommended(n, list) \in Seq(Candidates)
            /\ Len(Recommended(n, list)) <= Cardinality(C)
        BY <1>1, <3>3, RecommendedTyped DEF OInv, StoresOK
      <4>2. Cardinality(C) \in Nat /\ Len(Recommended(n, list)) \in Nat
        BY <3>3, <4>1, FS_CardinalityType, LenProperties
      <4> QED
        BY <3>3, <4>1, <4>2
    <3>5. [kind |-> "FoundNodes", peers |-> Recommended(n, list)] \in Body
      BY <3>4, BodiesTyped
    <3> QED
      BY <1>1, <3>1, <3>5, AnsweredTyped DEF OInv
  <2> QED
    BY <2>1, <2>2 DEF find_node
<1>4. UNCHANGED <<table, store, heard, quorumVars, netVars, msg_counter, inputs>>
  BY DEF find_node, nodeVars
<1> QED
  BY <1>2, <1>3, <1>4, Kept DEF OInv

\* One candidate of an answer is offered to the table, ...
LEMMA OfferTyped ==
    ASSUME NEW n, NEW t \in TableType, NEW list \in Seq(Candidates), NEW i
    PROVE  OfferAt(n, t, list, i) \in TableType
<1>1. CASE i \in DOMAIN list
  <2>1. list[i] \in Candidates
    BY <1>1, LenProperties
  <2>2. list[i].descriptor.node_id \in NodeId /\ list[i].referrer \in NodeId
    BY <2>1 DEF Candidates, Descriptor
  <2>3. NewEntry("Greedy", list[i].descriptor.node_id, list[i].referrer) \in SlotEntry
    BY <2>2, NewEntryTyped DEF SlotKind
  <2> QED
    BY <1>1, <2>3, InsertTyped DEF OfferAt
<1>2. CASE i \notin DOMAIN list
  BY <1>2 DEF OfferAt
<1> QED
  BY <1>1, <1>2

\* What the i-th candidate of an answer adds to what was heard.
GivenAt(list, i) == IF i \in DOMAIN list THEN Given(list[i].descriptor, None) ELSE {}

\* ... and to the store.
LEMMA UpsertAtMerges ==
    ASSUME NEW S, NEW H, MergeOf(S, H), NEW list \in Seq(Candidates), NEW i
    PROVE  MergeOf(UpsertAt(S, list, i), H \cup GivenAt(list, i))
<1>1. CASE i \in DOMAIN list
  <2>1. list[i] \in Candidates
    BY <1>1, LenProperties
  <2>2. list[i].descriptor \in Descriptor(NodeId)
    BY <2>1 DEF Candidates
  <2>3. MergeOf(upsert(S, list[i].descriptor, None), H \cup Given(list[i].descriptor, None))
    BY <2>2, UpsertMerges
  <2> QED
    BY <1>1, <2>3 DEF UpsertAt, GivenAt
<1>2. CASE i \notin DOMAIN list
  <2>1. UpsertAt(S, list, i) = S /\ H \cup GivenAt(list, i) = H
    BY <1>2 DEF UpsertAt, GivenAt
  <2> QED
    BY <2>1
<1> QED
  BY <1>1, <1>2

\* The answer to a FIND_NODE.
LEMMA FoundNodesKeeps == OInv /\ found_nodes => OInv'
<1> SUFFICES ASSUME OInv, found_nodes PROVE OInv'
  OBVIOUS
<1> DEFINE n == msg.at
           list == body.peers
<1>1. /\ queue # << >> /\ n \in NodeId /\ table[n] \in TableType
      /\ body \in Body /\ body.kind = "FoundNodes"
  BY ArrivalTyped DEF found_nodes
<1>2. list \in Seq(Candidates) /\ Len(list) <= 3
  BY <1>1, BodyFields
<1>3. QueueOK'
  BY <1>1, AnsweredTyped DEF OInv, found_nodes
<1>4. TablesOK'
  <2> DEFINE t1 == OfferAt(n, table[n], list, 1)
             t2 == OfferAt(n, t1, list, 2)
             t3 == OfferAt(n, t2, list, 3)
  <2>1. table' = [table EXCEPT ![n] = t3]
    BY <1>1 DEF found_nodes, OInv, TablesOK
  <2>2. t1 \in TableType
    BY <1>1, <1>2, OfferTyped
  <2> HIDE DEF t1, list, n
  <2>3. t2 \in TableType
    BY <1>2, <2>2, OfferTyped
  <2> HIDE DEF t2
  <2>4. t3 \in TableType
    BY <1>2, <2>3, OfferTyped
  <2> HIDE DEF t3
  <2> QED
    BY <1>1, <2>1, <2>4, TableKeeps DEF OInv
<1>5. StoresOK'
  <2> DEFINE S1 == UpsertAt(store[n], list, 1)
             S2 == UpsertAt(S1, list, 2)
             S3 == UpsertAt(S2, list, 3)
             H1 == heard[n] \cup GivenAt(list, 1)
             H2 == H1 \cup GivenAt(list, 2)
             H3 == H2 \cup GivenAt(list, 3)
             new == {Cached(c.descriptor, None) :
                        c \in {x \in ToSet(list) : x.descriptor.valid}}
  <2>1. /\ store' = [store EXCEPT ![n] = S3]
        /\ heard' = [heard EXCEPT ![n] = heard[n] \cup new]
    BY <1>1 DEF found_nodes, OInv, StoresOK
  <2>2. heard[n] \cup new = H3
    <3>1. DOMAIN list = 1..Len(list) /\ Len(list) \in Nat
      BY <1>2, LenProperties
    <3>2. ToSet(list) = {list[i] : i \in DOMAIN list}
      BY DEF ToSet
    <3> HIDE DEF list
    <3>3. \A i \in DOMAIN list : i \in {1, 2, 3}
      BY <1>2, <3>1
    <3>4. ASSUME NEW e \in new PROVE e \in H3
      <4>1. PICK i \in DOMAIN list : /\ list[i].descriptor.valid
                                     /\ e = Cached(list[i].descriptor, None)
        BY <3>2
      <4>2. e \in GivenAt(list, i) /\ i \in {1, 2, 3}
        BY <3>3, <4>1 DEF GivenAt, Given
      <4> QED
        BY <4>2
    <3>5. ASSUME NEW i, NEW e \in GivenAt(list, i) PROVE e \in new
      BY <3>2 DEF GivenAt, Given
    <3> HIDE DEF new
    <3> QED
      BY <3>4, <3>5
  <2>3. MergeOf(store[n], heard[n])
    BY <1>1 DEF OInv, StoresOK
  <2> HIDE DEF list, n, new
  <2>4. MergeOf(S1, H1)
    BY <1>2, <2>3, UpsertAtMerges
  <2> HIDE DEF S1, H1
  <2>5. MergeOf(S2, H2)
    BY <1>2, <2>4, UpsertAtMerges
  <2> HIDE DEF S2, H2
  <2>6. MergeOf(S3, H3)
    BY <1>2, <2>5, UpsertAtMerges
  <2> HIDE DEF S3, H3
  <2>7. S3 \in SUBSET CachedDescriptor(NodeId) /\ H3 \in SUBSET CachedDescriptor(NodeId)
    BY <2>6 DEF MergeOf
  <2>8. heard' = [heard EXCEPT ![n] = H3]
    BY <2>1, <2>2
  <2> QED
    BY <1>1, <2>1, <2>6, <2>7, <2>8 DEF OInv, StoresOK
<1>6. UNCHANGED <<quorumVars, netVars, limits, msg_counter, inputs>>
  BY DEF found_nodes
<1> QED
  BY <1>3, <1>4, <1>5, <1>6, Kept DEF OInv

\* One candidate of a peer exchange.
LEMMA CandidateTyped ==
    ASSUME NEW n, NEW t \in TableType, NEW list, NEW i \in Nat \ {0},
           Len(list) \in Nat,
           \A j \in 1..Len(list) : list[j].peer \in NodeId /\ list[j].referrer \in NodeId
    PROVE  CandidateAt(n, t, list, i) \in TableType
<1>1. CASE i <= Len(list) /\ list[i].peer # n
  <2>1. list[i].peer \in NodeId /\ list[i].referrer \in NodeId
    BY <1>1
  <2>2. ASSUME NEW k \in {"Greedy", "Diversity"}
        PROVE  try_insert(n, t, NewEntry(k, list[i].peer, list[i].referrer)) \in TableType
    BY <2>1, NewEntryTyped, InsertTyped DEF SlotKind
  <2> QED
    BY <1>1, <2>2 DEF CandidateAt, Candidate
<1>2. CASE ~(i <= Len(list) /\ list[i].peer # n)
  BY <1>2 DEF CandidateAt, Candidate
<1> QED
  BY <1>1, <1>2

\* A peer exchange.
LEMMA PexKeeps == OInv /\ pex => OInv'
<1> SUFFICES ASSUME OInv, pex PROVE OInv'
  OBVIOUS
<1> DEFINE n == msg.at
           list == [i \in DOMAIN body.candidates |->
                       [peer |-> body.candidates[i].descriptor.node_id,
                        referrer |-> body.candidates[i].referrer]]
           t1 == CandidateAt(n, table[n], list, 1)
           t2 == CandidateAt(n, t1, list, 2)
           t3 == CandidateAt(n, t2, list, 3)
<1>1. /\ queue # << >> /\ n \in NodeId /\ table[n] \in TableType
      /\ body \in Body /\ body.kind = "Pex"
  BY ArrivalTyped DEF pex
<1>2. QueueOK'
  BY <1>1, AnsweredTyped DEF OInv, pex
<1>3. /\ Len(list) \in Nat
      /\ \A j \in 1..Len(list) : list[j].peer \in NodeId /\ list[j].referrer \in NodeId
  <2>1. body.candidates \in Seq(Candidates)
    BY <1>1, BodyFields
  <2> DEFINE c == body.candidates
  <2>2. Len(c) \in Nat /\ DOMAIN c = 1..Len(c) /\ \A j \in 1..Len(c) : c[j] \in Candidates
    BY <2>1, LenProperties, ElementOfSeq
  <2> HIDE DEF c
  <2>3. list = [i \in 1..Len(c) |-> [peer |-> c[i].descriptor.node_id,
                                    referrer |-> c[i].referrer]]
    BY <2>2 DEF c
  <2>4. \A j \in 1..Len(c) : /\ c[j].descriptor.node_id \in NodeId
                             /\ c[j].referrer \in NodeId
    BY <2>2 DEF Candidates, Descriptor
  <2> HIDE DEF list
  <2>5. Len(list) = Len(c)
    BY <2>2, <2>3
  <2> QED
    BY <2>2, <2>3, <2>4, <2>5
<1>4. table' = [table EXCEPT ![n] = t3]
  BY <1>1 DEF pex, apply_candidates, OInv, TablesOK
<1> HIDE DEF n, list
<1>5. t1 \in TableType
  BY <1>1, <1>3, CandidateTyped
<1> HIDE DEF t1
<1>6. t2 \in TableType
  BY <1>3, <1>5, CandidateTyped
<1> HIDE DEF t2
<1>7. t3 \in TableType
  BY <1>3, <1>6, CandidateTyped
<1> HIDE DEF t3
<1>8. TablesOK'
  BY <1>1, <1>4, <1>7, TableKeeps DEF OInv
<1>9. UNCHANGED <<store, heard, quorumVars, netVars, limits, msg_counter, inputs>>
  BY DEF pex
<1> QED
  BY <1>2, <1>8, <1>9, Kept DEF OInv

\* An announced descriptor.
LEMMA AnnounceKeeps == OInv /\ announce_descriptor => OInv'
<1> SUFFICES ASSUME OInv, announce_descriptor PROVE OInv'
  OBVIOUS
<1>1. /\ queue # << >> /\ msg.at \in NodeId
      /\ body \in Body /\ body.kind = "AnnounceDescriptor"
  BY ArrivalTyped DEF announce_descriptor
<1>2. body.descriptor \in Descriptor(NodeId)
  BY <1>1, BodyFields
<1>3. QueueOK'
  BY <1>1, AnsweredTyped DEF OInv, announce_descriptor
<1>4. StoresOK'
  BY <1>1, <1>2, UpsertKeeps DEF OInv, announce_descriptor, None
<1>5. UNCHANGED <<table, quorumVars, netVars, limits, msg_counter, inputs>>
  BY DEF announce_descriptor
<1> QED
  BY <1>3, <1>4, <1>5, Kept DEF OInv

\* User data for its receiver, an invitation, and a message nobody takes.
LEMMA PlainKeeps ==
    OInv /\ (user_data_delivered \/ invite \/ discard \/ lose) => OInv'
<1> SUFFICES ASSUME OInv, user_data_delivered \/ invite \/ discard \/ lose PROVE OInv'
  OBVIOUS
<1>1. queue # << >> /\ Sends(<< >>)
  BY DEF user_data_delivered, invite, discard, lose, Arrives
<1>2. QueueOK'
  BY <1>1, AnsweredTyped DEF OInv
<1>3. UNCHANGED <<table, store, heard, quorumVars, msg_counter, inputs>>
  BY DEF user_data_delivered, invite, discard, lose, nodeVars
<1>4. CASE invite
  <2>1. LimitsOK'
    BY <1>4, ArrivalTyped, ConsumedTyped DEF OInv, invite
  <2>2. UNCHANGED netVars
    BY <1>4 DEF invite
  <2> QED
    BY <1>2, <1>3, <2>1, <2>2, Kept DEF OInv
<1>5. CASE user_data_delivered \/ discard
  <2>1. UNCHANGED <<limits, netVars>>
    BY <1>5 DEF user_data_delivered, discard
  <2> QED
    BY <1>2, <1>3, <2>1, Kept DEF OInv
<1>6. CASE lose
  <2>1. NetOK'
    BY <1>6, OverlayAssumption DEF OInv, NetOK, lose
  <2>2. UNCHANGED limits
    BY <1>6 DEF lose
  <2> QED
    BY <1>2, <1>3, <2>1, <2>2, Kept DEF OInv
<1> QED
  BY <1>4, <1>5, <1>6

\* User data for somebody else.
LEMMA ForwardKeeps == OInv /\ forward_user_data => OInv'
<1> SUFFICES ASSUME OInv, forward_user_data PROVE OInv'
  OBVIOUS
<1> DEFINE n == msg.at
           jump == {s.peer_id : s \in OfKind(table[n], "LongJump")} \ {n}
<1>1. /\ queue # << >> /\ queue \in Seq(Message) /\ n \in NodeId
      /\ table[n] \in TableType /\ body \in Body /\ body.kind = "UserData"
      /\ table \in [NodeId -> TableType]
  BY ArrivalTyped DEF forward_user_data, OInv, TablesOK
<1>2. body.to \in NodeId
  BY <1>1, BodyFields
<1>3. \E out \in Seq(Message) : Sends(out)
  <2>1. CASE /\ next_hop(n, body.to, table[n]) = "Forward"
             /\ Sends(send_user_hop(BestHop(body.to, table[n])))
    <3>1. BestHop(body.to, table[n]) \in NodeId
      BY <1>1, <1>2, <2>1, BestHopTyped
    <3>2. send_user_hop(BestHop(body.to, table[n])) \in Seq(Message)
      BY <1>1, <3>1, HopTyped
    <3> QED
      BY <2>1, <3>2
  <2>2. CASE \E find \in Finds(n, body.to) :
                 Sends(find) \/ \E l \in jump : Sends(send_user_hop(l) \o find)
    <3>1. PICK find \in Finds(n, body.to) :
              Sends(find) \/ \E l \in jump : Sends(send_user_hop(l) \o find)
      BY <2>2
    <3>2. find \in Seq(Message)
      BY <1>1, <1>2, FindsTyped
    <3>3. ASSUME NEW l \in jump PROVE send_user_hop(l) \o find \in Seq(Message)
      <4>1. l \in NodeId
        BY <1>1, SlotsTyped DEF OfKind
      <4>2. send_user_hop(l) \in Seq(Message)
        BY <1>1, <4>1, HopTyped
      <4> QED
        BY <3>2, <4>2, ConcatProperties
    <3> QED
      BY <3>1, <3>2, <3>3
  <2> QED
    BY <2>1, <2>2 DEF forward_user_data
<1>4. QueueOK'
  BY <1>1, <1>3, SentTyped DEF QueueOK
<1>5. UNCHANGED <<table, store, heard, quorumVars, netVars, limits, msg_counter, inputs>>
  BY DEF forward_user_data, nodeVars
<1> QED
  BY <1>4, <1>5, Kept DEF OInv

\* A tracker records a copy: it keeps the entry of a message that waits, drops that
\* of a message that is accepted, and marks one that is inconsistent.
LEMMA RecordTyped ==
    ASSUME NEW P \in SUBSET Tracker, NEW id \in MessageId, NEW payload \in Payloads
    PROVE  record(P, id, payload) \in SUBSET Tracker
<1> DEFINE res == QuorumResult(P, id, payload)
           e == EntryOf(P, id, payload)
<1>1. CASE \E x \in P : x.message_id = id
  <2>1. e \in P
    BY <1>1 DEF EntryOf
  <2>2. e \in Tracker /\ e.matches = 1
    BY <2>1 DEF Tracker
  <2>3. res \in {"Inconsistent", "Accepted"}
    BY <2>2 DEF QuorumResult
  <2> HIDE DEF e, res
  <2>4. [e EXCEPT !.mismatch = TRUE] \in Tracker
    BY <2>2 DEF Tracker
  <2>5. CASE res = "Inconsistent"
    <3>1. record(P, id, payload) = (P \ {e}) \cup {[e EXCEPT !.mismatch = TRUE]}
      BY <2>5 DEF record, e, res
    <3> QED
      BY <2>4, <3>1
  <2>6. CASE res = "Accepted"
    <3>1. record(P, id, payload) = P \ {e}
      BY <2>6 DEF record, e, res
    <3> QED
      BY <3>1
  <2> QED
    BY <2>3, <2>5, <2>6
<1>2. CASE ~(\E x \in P : x.message_id = id)
  <2> DEFINE g == [e EXCEPT !.matches = @ + 1]
  <2>1. e = [message_id |-> id, payload |-> payload, matches |-> 0, mismatch |-> FALSE]
    BY <1>2 DEF EntryOf
  <2>2. res = "Pending"
    BY <2>1 DEF QuorumResult, Mismatched
  <2> HIDE DEF e, res
  <2>3. record(P, id, payload) = (P \ {e}) \cup {g}
    BY <2>2 DEF record, e, res
  <2>4. g \in Tracker
    <3>1. /\ e \in [message_id : MessageId, payload : Payloads, matches : {0},
                    mismatch : BOOLEAN]
          /\ e.matches + 1 = 1
      BY <2>1
    <3> QED
      BY <3>1 DEF Tracker
  <2> HIDE DEF g
  <2> QED
    BY <2>3, <2>4
<1> QED
  BY <1>1, <1>2

\* A copy of a critical message.
LEMMA CriticalKeeps == OInv /\ user_data_critical => OInv'
<1> SUFFICES ASSUME OInv, user_data_critical PROVE OInv'
  OBVIOUS
<1> DEFINE n == msg.at
           P1 == record(quorum[n], body.message_id, body.payload)
<1>1. /\ queue # << >> /\ n \in NodeId /\ body \in Body /\ body.kind = "UserData"
      /\ body.critical
  BY ArrivalTyped DEF user_data_critical
<1>2. body.message_id \in MessageId /\ body.payload \in Payloads
  BY <1>1, BodyFields
<1>3. quorum \in [NodeId -> SUBSET Tracker] /\ quorum[n] \in SUBSET Tracker
  BY <1>1 DEF OInv, TrackersOK
<1>4. QueueOK'
  BY <1>1, AnsweredTyped DEF OInv, user_data_critical
<1>5. quorum' = [quorum EXCEPT ![n] = P1]
  BY <1>1, <1>3 DEF user_data_critical
<1>6. P1 \in SUBSET Tracker
  BY <1>2, <1>3, RecordTyped
<1>7. TrackersOK'
  <2> HIDE DEF n, P1
  <2> QED
    BY <1>3, <1>5, <1>6 DEF TrackersOK
<1>8. UNCHANGED <<table, store, heard, netVars, limits, msg_counter, inputs>>
  BY DEF user_data_critical, nodeVars
<1> QED
  BY <1>4, <1>7, <1>8, Kept DEF OInv

-----------------------------------------------------------------------------
(* The calls from outside *)

\* Two nodes are introduced, or one is made to talk to the other.
LEMMA TalkKeeps ==
    ASSUME OInv, NEW a \in NodeId, NEW b \in NodeId, introduce(a, b) \/ enqueue(a, b)
    PROVE  OInv'
<1>1. queue \in Seq(Message)
  BY DEF OInv, QueueOK
<1>2. CASE introduce(a, b)
  <2> DEFINE out == <<Unsigned(a, b, Hello(own_descriptor(a))),
                      Unsigned(b, a, Hello(own_descriptor(b)))>>
  <2>1. out \in Seq(Message)
    BY OwnTyped, EnvelopeTyped, FewTyped
  <2>2. Enqueue(out)
    BY <1>2 DEF introduce
  <2> HIDE DEF out
  <2>3. QueueOK'
    BY <1>1, <2>1, <2>2, SentTyped DEF QueueOK
  <2>4. NetOK'
    BY <1>2, OverlayAssumption DEF OInv, NetOK, introduce, Input
  <2>5. UNCHANGED <<table, store, heard, quorumVars, limits>>
    BY <1>2 DEF introduce, nodeVars
  <2> QED
    BY <2>3, <2>4, <2>5, Kept DEF OInv
<1>3. CASE enqueue(a, b)
  <2>1. PICK c \in Bodies(a, b) : Enqueue(<<Unsigned(a, b, c)>>)
    BY <1>3 DEF enqueue
  <2>2. c \in Body
    <3>1. CASE c \in {Plain("Ping"), Plain("Invite"), UserData(b, b, 20)}
      BY <3>1, BodiesTyped
    <3>2. CASE c \in {FindNode(t) : t \in Targets}
      BY <3>2, BodiesTyped, OverlayAssumption
    <3>3. CASE c \in {[kind |-> "AnnounceDescriptor", descriptor |-> d] :
                         d \in {x \in Announced : x.node_id = a}}
      BY <3>3, BodiesTyped, OverlayAssumption
    <3>4. CASE c \in {[kind |-> "Pex", candidates |-> x] : x \in build_response(a)}
      BY <3>4, BodiesTyped, ExchangeTyped DEF OInv, TablesOK, StoresOK
    <3> QED
      BY <3>1, <3>2, <3>3, <3>4 DEF Bodies
  <2>3. <<Unsigned(a, b, c)>> \in Seq(Message)
    BY <2>2, EnvelopeTyped, FewTyped
  <2>4. QueueOK'
    BY <1>1, <2>1, <2>3, SentTyped DEF QueueOK
  <2>5. NetOK'
    BY <1>3, InputKeeps DEF OInv, enqueue
  <2>6. UNCHANGED <<table, store, heard, quorumVars, limits>>
    BY <1>3 DEF enqueue, nodeVars
  <2> QED
    BY <2>4, <2>5, <2>6, Kept DEF OInv
<1> QED
  BY <1>2, <1>3

\* A node is handed user data for another one.
LEMMA RelayKeeps ==
    ASSUME OInv, NEW n \in NodeId, NEW dest \in NodeId, relay_user_data(n, dest)
    PROVE  OInv'
<1>1. queue \in Seq(Message)
  BY DEF OInv, QueueOK
<1>2. PICK ttl \in Ttls : Enqueue(<<Unsigned(n, n, UserData(dest, dest, ttl))>>)
  BY DEF relay_user_data
<1>3. UserData(dest, dest, ttl) \in Body
  BY BodiesTyped, OverlayAssumption
<1>4. <<Unsigned(n, n, UserData(dest, dest, ttl))>> \in Seq(Message)
  BY <1>3, EnvelopeTyped, FewTyped
<1>5. QueueOK'
  BY <1>1, <1>2, <1>4, SentTyped DEF QueueOK
<1>6. NetOK'
  BY InputKeeps DEF OInv, relay_user_data
<1>7. UNCHANGED <<table, store, heard, quorumVars, limits>>
  BY DEF relay_user_data, nodeVars
<1> QED
  BY <1>5, <1>6, <1>7, Kept DEF OInv

\* The copies of a critical message.
LEMMA CopiesKeep ==
    ASSUME OInv, NEW n \in NodeId, NEW dest \in NodeId, NEW payload \in Payloads,
           send_critical(n, dest, payload)
    PROVE  OInv'
<1>1. queue \in Seq(Message)
  BY DEF OInv, QueueOK
<1> DEFINE copy(hop, id) == Signed(n, hop, Critical(hop, dest, id, payload))
<1>2. PICK id \in (msg_counter[n] + 1)..MaxMessageId :
          /\ msg_counter' = [msg_counter EXCEPT ![n] = id]
          /\ \/ \E hops \in pick_fork_hops(table[n]) :
                   Enqueue(<<copy(hops[1], id), copy(hops[2], id)>>)
             \/ \E hop \in all_peers(table[n]) : Enqueue(<<copy(hop, id)>>)
  BY DEF send_critical
<1>3. id \in MessageId
  <2>1. msg_counter[n] \in Nat /\ MaxMessageId \in Nat
    BY OverlayAssumption DEF OInv, NetOK
  <2> QED
    BY <1>2, <2>1 DEF MessageId
<1>4. ASSUME NEW hop \in NodeId PROVE copy(hop, id) \in Message
  BY <1>3, BodiesTyped, EnvelopeTyped
<1>5. \A hop \in all_peers(table[n]) : hop \in NodeId
  BY SlotsTyped DEF OInv, TablesOK
<1> HIDE DEF copy
<1>6. \E out \in Seq(Message) : Enqueue(out)
  BY <1>2, <1>4, <1>5, ForkTyped, FewTyped
<1>7. QueueOK'
  BY <1>1, <1>6, SentTyped DEF QueueOK
<1>8. NetOK'
  <2>1. id \in 0..MaxMessageId
    BY <1>3, OverlayAssumption DEF MessageId
  <2> QED
    BY <1>2, <2>1, OverlayAssumption DEF OInv, NetOK, send_critical, Input, netVars
<1>9. UNCHANGED <<table, store, heard, quorumVars, limits>>
  BY DEF send_critical, nodeVars
<1> QED
  BY <1>7, <1>8, <1>9, Kept DEF OInv

\* The repair of a table.
LEMMA RepairKeeps ==
    ASSUME OInv, NEW n \in NodeId, repair_tick(n)
    PROVE  OInv'
<1> DEFINE target == RepairTargets[n]
<1>1. queue \in Seq(Message) /\ table \in [NodeId -> TableType]
  BY DEF OInv, QueueOK, TablesOK
<1>2. target[1] \in NodeId /\ target[2] \in NodeId /\ target[3] \in NodeId
  BY OverlayAssumption
<1> DEFINE last(first) == IF OfKind(table[n], "LongJump") = {}
                            THEN <<Signed(n, first, FindNode(target[3]))>> ELSE << >>
<1>3. PICK first \in all_peers(table[n]) :
          Enqueue(Find(n, target[1], first) \o Find(n, target[2], first) \o last(first))
  BY DEF repair_tick
<1> HIDE DEF target
<1>4. /\ first \in NodeId
      /\ Find(n, target[1], first) \in Seq(Message)
      /\ Find(n, target[2], first) \in Seq(Message)
  BY <1>1, <1>2, FindTyped
<1>5. last(first) \in Seq(Message)
  BY <1>2, <1>4, BodiesTyped, EnvelopeTyped, FewTyped
<1> HIDE DEF last
<1>6. Find(n, target[1], first) \o Find(n, target[2], first) \o last(first) \in Seq(Message)
  BY <1>4, <1>5, ConcatProperties
<1>7. QueueOK'
  BY <1>1, <1>3, <1>6, SentTyped DEF QueueOK
<1>8. NetOK'
  BY InputKeeps DEF OInv, repair_tick
<1>9. UNCHANGED <<table, store, heard, quorumVars, limits>>
  BY DEF repair_tick, nodeVars
<1> QED
  BY <1>7, <1>8, <1>9, Kept DEF OInv

\* Calls on one node that send nothing.
LEMMA LocalKeeps ==
    ASSUME OInv, NEW n \in NodeId, NEW p \in NodeId,
           insert_long_jump(n, p) \/ clear(n) \/ kill_node(n)
    PROVE  OInv'
<1>1. CASE insert_long_jump(n, p)
  <2> DEFINE t == try_insert(n, table[n], NewEntry("LongJump", p, p))
  <2>1. table' = [table EXCEPT ![n] = t] /\ table[n] \in TableType
    BY <1>1 DEF insert_long_jump, OInv, TablesOK
  <2>2. t \in TableType
    BY <2>1, NewEntryTyped, InsertTyped DEF SlotKind
  <2> HIDE DEF t
  <2>3. TablesOK'
    BY <2>1, <2>2, TableKeeps DEF OInv
  <2>4. NetOK'
    BY <1>1, InputKeeps DEF OInv, insert_long_jump
  <2>5. UNCHANGED <<store, heard, quorumVars, queue, limits>>
    BY <1>1 DEF insert_long_jump
  <2> QED
    BY <2>3, <2>4, <2>5, Kept DEF OInv
<1>2. CASE clear(n)
  <2>1. quorum' = [quorum EXCEPT ![n] = {}]
    BY <1>2 DEF clear
  <2>2. TrackersOK'
    BY <2>1 DEF OInv, TrackersOK
  <2>3. NetOK'
    BY <1>2, InputKeeps DEF OInv, clear
  <2>4. UNCHANGED <<table, store, heard, queue, limits>>
    BY <1>2 DEF clear, nodeVars
  <2> QED
    BY <2>2, <2>3, <2>4, Kept DEF OInv
<1>3. CASE kill_node(n)
  <2>1. NetOK'
    BY <1>3, OverlayAssumption DEF OInv, NetOK, kill_node, Input
  <2>2. UNCHANGED <<table, store, heard, quorumVars, queue, limits>>
    BY <1>3 DEF kill_node, nodeVars
  <2> QED
    BY <2>1, <2>2, Kept DEF OInv
<1> QED
  BY <1>1, <1>2, <1>3

\* A descriptor is confirmed.
LEMMA ConfirmKeeps ==
    ASSUME OInv, NEW n \in NodeId, NEW d \in Announced, NEW h \in 0..1, confirm(n, d, h)
    PROVE  OInv'
<1>1. d \in Descriptor(NodeId) /\ h \in Nat \cup {None}
  BY OverlayAssumption
<1>2. StoresOK'
  BY <1>1, UpsertKeeps DEF OInv, confirm
<1>3. NetOK'
  BY InputKeeps DEF OInv, confirm
<1>4. UNCHANGED <<table, quorumVars, queue, limits>>
  BY DEF confirm
<1> QED
  BY <1>2, <1>3, <1>4, Kept DEF OInv

-----------------------------------------------------------------------------
(* The theorems *)

\* The first nodes know some others, and say so in their stores.
LEMMA OverlayStarts == Init => OInv
<1> SUFFICES ASSUME Init PROVE OInv
  OBVIOUS
<1>1. NetOK /\ QueueOK /\ LimitsOK
  BY OverlayAssumption DEF Init, NetOK, QueueOK, LimitsOK
<1>2. TrackersOK
  BY DEF Init, TrackersOK
<1> PICK links \in Links :
        LET known(n) == {p \in NodeId : {n, p} \in links}
        IN  /\ table = [n \in NodeId |-> [NewTable EXCEPT !.slots =
                           {NewEntry("Greedy", p, p) : p \in known(n)}]]
            /\ store = [n \in NodeId |->
                           {Cached(own_descriptor(p), None) : p \in known(n)}]
  BY DEF Init
<1> DEFINE known(n) == {p \in NodeId : {n, p} \in links}
<1>3. TablesOK
  <2>1. \A p \in NodeId : NewEntry("Greedy", p, p) \in SlotEntry
    BY NewEntryTyped DEF SlotKind
  <2> DEFINE slots(n) == {NewEntry("Greedy", p, p) : p \in known(n)}
  <2>2. table = [n \in NodeId |-> [NewTable EXCEPT !.slots = slots(n)]]
    OBVIOUS
  <2>3. ASSUME NEW n \in NodeId PROVE slots(n) \in SUBSET SlotEntry
    BY <2>1
  <2> HIDE DEF slots
  <2>4. ASSUME NEW n \in NodeId PROVE [NewTable EXCEPT !.slots = slots(n)] \in TableType
    BY <2>3 DEF NewTable, TableType
  <2> QED
    BY <2>2, <2>4 DEF TablesOK
<1>4. StoresOK
  <2> DEFINE first(p) == Cached(own_descriptor(p), None)
  <2>1. heard = store /\ store = [n \in NodeId |-> {first(p) : p \in known(n)}]
    BY DEF Init
  <2>2. ASSUME NEW p \in NodeId
        PROVE  /\ first(p) \in CachedDescriptor(NodeId)
               /\ first(p).descriptor.node_id = p /\ first(p).descriptor.valid
    BY OwnTyped DEF Cached, CachedDescriptor, own_descriptor
  <2>3. \A n \in NodeId : known(n) \subseteq NodeId
    OBVIOUS
  <2> HIDE DEF first, known
  <2>4. ASSUME NEW n \in NodeId
        PROVE  heard[n] = store[n] /\ \A e \in store[n] : \E p \in NodeId : e = first(p)
    <3>1. store[n] = {first(p) : p \in known(n)}
      BY <2>1, Zenon
    <3> QED
      BY <2>1, <2>3, <3>1
  <2>5. store \in [NodeId -> SUBSET CachedDescriptor(NodeId)]
    <3>1. ASSUME NEW n \in NodeId, NEW e \in store[n] PROVE e \in CachedDescriptor(NodeId)
      <4>1. PICK p \in NodeId : e = first(p)
        BY <2>4
      <4> QED
        BY <2>2, <4>1
    <3>2. store = [n \in NodeId |-> store[n]]
      BY <2>1, Zenon
    <3> QED
      BY <3>1, <3>2
  <2>6. ASSUME NEW n \in NodeId PROVE MergeOf(store[n], heard[n])
    <3>1. heard[n] = store[n] /\ \A e \in store[n] : \E p \in NodeId : e = first(p)
      BY <2>4
    <3>2. ASSUME NEW b \in store[n], NEW c \in store[n],
                 b.descriptor.node_id = c.descriptor.node_id
          PROVE  b = c
      <4>1. PICK p \in NodeId : b = first(p)
        BY <3>1
      <4>2. PICK q \in NodeId : c = first(q)
        BY <3>1
      <4>3. p = q
        BY <2>2, <3>2, <4>1, <4>2
      <4> QED
        BY <4>1, <4>2, <4>3
    <3>3. \A e \in store[n] : e \in CachedDescriptor(NodeId) /\ e.descriptor.valid
      BY <2>2, <3>1
    <3> QED
      BY <3>1, <3>2, <3>3 DEF MergeOf
  <2> QED
    BY <2>1, <2>5, <2>6 DEF StoresOK
<1> QED
  BY <1>1, <1>2, <1>3, <1>4 DEF OInv

\* Every step keeps the invariant.
LEMMA OverlayKeeps == OInv /\ [Next]_vars => OInv'
<1> SUFFICES ASSUME OInv, [Next]_vars PROVE OInv'
  OBVIOUS
<1>1. nodes \subseteq NodeId
  BY DEF OInv, NetOK
<1>2. CASE step
  BY <1>2, HelloKeeps, PingKeeps, PongKeeps, FindNodeKeeps, FoundNodesKeeps, PexKeeps,
     AnnounceKeeps, PlainKeeps, CriticalKeeps, ForwardKeeps DEF step, Handle
<1>3. CASE lose
  BY <1>3, PlainKeeps
<1>4. CASE \E a, b \in nodes : <<a, b>> \in Channels /\ (introduce(a, b) \/ enqueue(a, b))
  BY <1>1, <1>4, TalkKeeps
<1>5. CASE \E n \in nodes : \E dest \in Dests \ {n} : relay_user_data(n, dest)
  BY <1>1, <1>5, RelayKeeps, OverlayAssumption
<1>6. CASE \E n \in nodes : \E dest \in Dests \ {n} :
               \E payload \in Payloads : send_critical(n, dest, payload)
  BY <1>1, <1>6, CopiesKeep, OverlayAssumption
<1>7. CASE \E n \in nodes : \E p \in NodeId \ {n} : insert_long_jump(n, p)
  BY <1>1, <1>7, LocalKeeps
<1>8. CASE \E n \in nodes, d \in Announced, h \in 0..1 : n # d.node_id /\ confirm(n, d, h)
  BY <1>1, <1>8, ConfirmKeeps
<1>9. CASE \E n \in nodes : repair_tick(n) \/ clear(n) \/ kill_node(n)
  BY <1>1, <1>9, RepairKeeps, LocalKeeps
<1>10. CASE UNCHANGED vars
  <2>1. UNCHANGED <<table, store, heard, quorumVars, netVars, queue, limits, msg_counter, inputs>>
    BY <1>10 DEF vars, nodeVars
  <2> QED
    BY <2>1, Kept DEF OInv
<1> QED
  BY <1>2, <1>3, <1>4, <1>5, <1>6, <1>7, <1>8, <1>9, <1>10 DEF Next

\* The invariant of the simulated network: every message in the queue is one that
\* handle_envelope can take, every store is a merge and every tracker holds first
\* copies.
THEOREM OverlayHolds == Spec => []OInv
<1>1. Init => OInv
  BY OverlayStarts
<1>2. OInv /\ [Next]_vars => OInv'
  BY OverlayKeeps
<1> QED
  BY <1>1, <1>2, PTL DEF Spec

\* Whatever nodes send each other, lose, confirm and exchange, queues hold
\* messages, tables and stores hold entries, an answer to FIND_NODE never names
\* more than three peers, windows are never overrun, and a tracker never keeps a
\* message of which it has two copies.
THEOREM OverlayTyped == Spec => []TypeOK
<1>1. OInv => TypeOK
  <2> SUFFICES ASSUME OInv PROVE TypeOK
    OBVIOUS
  <2>1. /\ nodes \subseteq NodeId /\ queue \in Seq(Message)
        /\ table \in [NodeId -> TableType]
        /\ msg_counter \in [NodeId -> 0..MaxMessageId]
        /\ inputs \in 0..MaxInputs /\ losses \in 0..MaxLosses
    BY DEF OInv, NetOK, QueueOK, TablesOK
  <2>2. ASSUME NEW n \in NodeId
        PROVE  /\ \A e \in store[n] : e \in CachedDescriptor(NodeId)
               /\ \A e \in quorum[n] : e.matches \in 0..1 /\ e.message_id \in MessageId
               /\ \A op \in {"find", "invite"}, p \in NodeId :
                     limits[n][op][p] \in 0..MaxFind
    <3>1. \A e \in store[n] : e \in CachedDescriptor(NodeId)
      BY DEF OInv, StoresOK
    <3>2. \A e \in quorum[n] : e.matches \in 0..1 /\ e.message_id \in MessageId
      BY DEF OInv, TrackersOK, Tracker
    <3>3. \A op \in {"find", "invite"}, p \in NodeId : limits[n][op][p] \in 0..MaxFind
      BY DEF OInv, LimitsOK
    <3> QED
      BY <3>1, <3>2, <3>3
  <2> QED
    BY <2>1, <2>2 DEF TypeOK
<1> QED
  BY <1>1, OverlayHolds, PTL

\* The store of a node depends on the set of descriptors it was given, never on
\* their order or on how often or by whom they came (DescriptorStore::upsert).
THEOREM StoreIsMerge == Spec => []StoreIsBest
<1>1. OInv => StoreIsBest
  BY MergeIsBest DEF OInv, StoresOK, StoreIsBest
<1> QED
  BY <1>1, OverlayHolds, PTL
================================================================================
