----------------------------- MODULE TablesProofs ------------------------------
(***************************************************************************)
(* Proofs about routing tables, for any identities and any number of       *)
(* G-slots.  First one table under any sequence of insertions, peer        *)
(* exchanges, probes, evictions and ticks (modules Slots, PeerTable), then *)
(* the tables that the start-up of nodes leaves (module Introductions).    *)
(*                                                                         *)
(* A peer exchange inserts up to three candidates in one call, so each     *)
(* property is proved of one insertion as a relation between two tables    *)
(* that composes: what holds from t to u and from u to v holds from t to v.*)
(* An introduction registers up to four peers in one call, so what a table *)
(* is worth is stated relative to the set of peers it was told of, which   *)
(* grows with each of them.                                                *)
(***************************************************************************)
EXTENDS Introductions, PeerTable, FiniteSetTheorems, WellFoundedInduction, TLAPS

-----------------------------------------------------------------------------
(* Extremal elements *)

\* A set of numbers that is not empty has a least one.
LEMMA LeastNatural ==
    ASSUME NEW T, T \subseteq Nat, T # {}
    PROVE  \E x \in T : \A y \in T : x <= y
<1>1. PICK x \in T : \A y \in T : ~(<<y, x>> \in OpToRel(<, Nat))
  BY NatLessThanWellFounded, WFMin, Zenon
<1>2. ASSUME NEW y \in T PROVE x <= y
  <2>1. ~(y < x)
    BY <1>1 DEF OpToRel
  <2> QED
    BY <2>1
<1> QED
  BY <1>2

\* A finite set of entries that is not empty has one that is the farthest from a
\* node: the entry with the fewest entries farther away.
LEMMA FarthestExists ==
    ASSUME NEW S, IsFiniteSet(S), S # {}, NEW d, \A s \in S : d[s.peer_id] \in Nat
    PROVE  \E s \in S : \A other \in S : d[other.peer_id] <= d[s.peer_id]
<1> DEFINE Farther(s) == {o \in S : d[o.peer_id] > d[s.peer_id]}
           T == {Cardinality(Farther(s)) : s \in S}
<1>1. ASSUME NEW s \in S PROVE IsFiniteSet(Farther(s)) /\ Cardinality(Farther(s)) \in Nat
  BY FS_Subset, FS_CardinalityType
<1>2. PICK c \in T : \A e \in T : c <= e
  <2>1. T \subseteq Nat /\ T # {}
    BY <1>1
  <2> HIDE DEF T
  <2> QED
    BY <2>1, LeastNatural
<1>3. PICK s \in S : c = Cardinality(Farther(s))
  OBVIOUS
<1>4. ASSUME NEW o \in S PROVE d[o.peer_id] <= d[s.peer_id]
  <2> SUFFICES ASSUME d[o.peer_id] > d[s.peer_id] PROVE FALSE
    OBVIOUS
  <2>1. Farther(o) \subseteq Farther(s) /\ o \in Farther(s) /\ o \notin Farther(o)
    OBVIOUS
  <2>2. Cardinality(Farther(o)) < Cardinality(Farther(s))
    <3> HIDE DEF Farther
    <3> QED
      BY <1>1, <2>1, FS_Subset
  <2>3. Cardinality(Farther(s)) <= Cardinality(Farther(o))
    BY <1>2, <1>3
  <2> HIDE DEF Farther
  <2> QED
    BY <1>1, <2>2, <2>3
<1> QED
  BY <1>4

-----------------------------------------------------------------------------
(* One change of a table *)

\* The quotas, of any table: finitely many slots, one per peer, and the bounds.
TableOK(t) ==
    /\ t \in TableType
    /\ IsFiniteSet(t.slots)
    /\ \A s, u \in t.slots : s.peer_id = u.peer_id => s = u
    /\ Cardinality(greedy_slots(t)) <= max_greedy
    /\ Cardinality(OfKind(t, "LongJump")) <= 1
    /\ Cardinality(OfKind(t, "Diversity")) <= 1
    /\ \A r \in NodeId : Cardinality(FromReferrer(t, r)) <= 2

\* The slots of a table that obeys the quotas, and the parts that the quotas count.
LEMMA PartsFinite ==
    ASSUME NEW t, TableOK(t)
    PROVE  /\ t.slots \subseteq SlotEntry /\ t.replacements_this_tick \in 0..1
           /\ \A k : IsFiniteSet(OfKind(t, k)) /\ Cardinality(OfKind(t, k)) \in Nat
           /\ \A r : IsFiniteSet(FromReferrer(t, r)) /\ Cardinality(FromReferrer(t, r)) \in Nat
           /\ greedy_slots(t) = OfKind(t, "Greedy")
<1>1. IsFiniteSet(t.slots)
  BY DEF TableOK
<1>2. t.slots \subseteq SlotEntry /\ t.replacements_this_tick \in 0..1
  BY DEF TableOK, TableType
<1>3. ASSUME NEW k PROVE IsFiniteSet(OfKind(t, k)) /\ Cardinality(OfKind(t, k)) \in Nat
  <2>1. OfKind(t, k) \in SUBSET t.slots
    BY DEF OfKind
  <2> QED
    BY <1>1, <2>1, FS_Subset, FS_CardinalityType
<1>4. ASSUME NEW r
      PROVE  IsFiniteSet(FromReferrer(t, r)) /\ Cardinality(FromReferrer(t, r)) \in Nat
  <2>1. FromReferrer(t, r) \in SUBSET t.slots
    BY DEF FromReferrer, greedy_slots, OfKind
  <2> QED
    BY <1>1, <2>1, FS_Subset, FS_CardinalityType
<1> QED
  BY <1>2, <1>3, <1>4 DEF greedy_slots

\* Counting the replacement leaves the slots alone.
LEMMA SameSlots ==
    ASSUME NEW t, TableOK(t), NEW v \in TableType, v.slots = t.slots
    PROVE  TableOK(v)
  BY DEF TableOK, greedy_slots, OfKind, FromReferrer

\* Adding one element to a finite set.
LEMMA CardinalityAdd ==
    ASSUME NEW S, IsFiniteSet(S), NEW e
    PROVE  IsFiniteSet(S \cup {e}) /\ Cardinality(S \cup {e}) <= Cardinality(S) + 1
<1>1. Cardinality(S) \in Nat
  BY FS_CardinalityType
<1>2. /\ IsFiniteSet(S \cup {e})
      /\ Cardinality(S \cup {e}) = IF e \in S THEN Cardinality(S) ELSE Cardinality(S) + 1
  BY FS_AddElement
<1> QED
  BY <1>1, <1>2

\* Exchanging one element of a finite set.
LEMMA CardinalityExchange ==
    ASSUME NEW S, IsFiniteSet(S), NEW old \in S, NEW e
    PROVE  /\ IsFiniteSet((S \ {old}) \cup {e})
           /\ Cardinality((S \ {old}) \cup {e}) <= Cardinality(S)
<1>1. IsFiniteSet(S \ {old}) /\ Cardinality(S \ {old}) = Cardinality(S) - 1
  BY FS_RemoveElement
<1>2. /\ IsFiniteSet((S \ {old}) \cup {e})
      /\ Cardinality((S \ {old}) \cup {e}) <= Cardinality(S \ {old}) + 1
  BY <1>1, CardinalityAdd
<1>3. Cardinality(S) \in Nat /\ Cardinality((S \ {old}) \cup {e}) \in Nat
  BY <1>2, FS_CardinalityType
<1> QED
  BY <1>1, <1>2, <1>3

\* A new peer in a new slot obeys the quotas if there was room for it.
LEMMA PushOK ==
    ASSUME NEW t, TableOK(t), NEW e \in SlotEntry, e.peer_id \notin all_peers(t),
           e.kind = "Greedy" => /\ Cardinality(greedy_slots(t)) < max_greedy
                                /\ Cardinality(FromReferrer(t, e.referrer_id)) < 2,
           e.kind # "Greedy" => OfKind(t, e.kind) = {}
    PROVE  TableOK(Push(t, e))
<1> DEFINE u == Push(t, e)
<1>1. /\ u \in TableType /\ u.slots = t.slots \cup {e}
      /\ u.replacements_this_tick = t.replacements_this_tick
  BY DEF Push, TableOK, TableType
<1>2. IsFiniteSet(u.slots)
  BY <1>1, CardinalityAdd DEF TableOK
<1>3. \A x, y \in u.slots : x.peer_id = y.peer_id => x = y
  BY <1>1 DEF TableOK, all_peers
<1> HIDE DEF u
<1>4. ASSUME NEW k \in SlotKind
      PROVE  OfKind(u, k) = IF k = e.kind THEN OfKind(t, k) \cup {e} ELSE OfKind(t, k)
  BY <1>1 DEF OfKind
<1>5. ASSUME NEW r \in NodeId
      PROVE  FromReferrer(u, r) = IF r = e.referrer_id /\ e.kind = "Greedy"
                                    THEN FromReferrer(t, r) \cup {e} ELSE FromReferrer(t, r)
  BY <1>1 DEF FromReferrer, greedy_slots, OfKind
<1>6. Cardinality(greedy_slots(u)) <= max_greedy
  <2>1. CASE e.kind = "Greedy"
    <3>1. greedy_slots(u) = OfKind(t, "Greedy") \cup {e}
      BY <1>4, <2>1 DEF greedy_slots, SlotKind
    <3>2. Cardinality(greedy_slots(u)) <= Cardinality(OfKind(t, "Greedy")) + 1
      BY <3>1, PartsFinite, CardinalityAdd
    <3>3. Cardinality(greedy_slots(u)) \in Nat
      BY <3>1, PartsFinite, CardinalityAdd, FS_CardinalityType
    <3> QED
      BY <2>1, <3>2, <3>3, PartsFinite, GreedyAssumption
  <2>2. CASE e.kind # "Greedy"
    BY <1>4, <2>2 DEF greedy_slots, SlotKind, TableOK
  <2> QED
    BY <2>1, <2>2
<1>7. ASSUME NEW k \in {"LongJump", "Diversity"} PROVE Cardinality(OfKind(u, k)) <= 1
  <2>1. CASE e.kind = k
    <3>1. OfKind(u, k) = {e}
      BY <1>4, <2>1 DEF SlotKind
    <3> QED
      BY <3>1, FS_Singleton
  <2>2. CASE e.kind # k
    BY <1>4, <2>2 DEF SlotKind, TableOK
  <2> QED
    BY <2>1, <2>2
<1>8. ASSUME NEW r \in NodeId PROVE Cardinality(FromReferrer(u, r)) <= 2
  <2>1. CASE r = e.referrer_id /\ e.kind = "Greedy"
    <3>1. FromReferrer(u, r) = FromReferrer(t, r) \cup {e}
      BY <1>5, <2>1
    <3>2. /\ Cardinality(FromReferrer(u, r)) <= Cardinality(FromReferrer(t, r)) + 1
          /\ Cardinality(FromReferrer(u, r)) \in Nat
      BY <3>1, PartsFinite, CardinalityAdd, FS_CardinalityType
    <3> QED
      BY <2>1, <3>2, PartsFinite
  <2>2. CASE ~(r = e.referrer_id /\ e.kind = "Greedy")
    BY <1>5, <2>2 DEF TableOK
  <2> QED
    BY <2>1, <2>2
<1> QED
  BY <1>1, <1>2, <1>3, <1>6, <1>7, <1>8 DEF TableOK, u

\* A new peer in the slot of another of the same kind obeys the quotas, if its
\* referrer had room: the slot that is given up may be another referrer's.
LEMMA ReplaceOK ==
    ASSUME NEW t, TableOK(t), NEW e \in SlotEntry, e.peer_id \notin all_peers(t),
           NEW old \in t.slots, old.kind = e.kind,
           e.kind = "Greedy" => Cardinality(FromReferrer(t, e.referrer_id)) < 2
    PROVE  TableOK(Replace(t, old, e))
<1> DEFINE u == Replace(t, old, e)
<1>1. /\ u \in TableType /\ u.slots = (t.slots \ {old}) \cup {e}
      /\ u.replacements_this_tick = t.replacements_this_tick
  BY DEF Replace, TableOK, TableType
<1>2. IsFiniteSet(u.slots)
  <2>1. IsFiniteSet(t.slots)
    BY DEF TableOK
  <2>2. IsFiniteSet((t.slots \ {old}) \cup {e})
    BY <2>1, CardinalityExchange
  <2> HIDE DEF u
  <2> QED
    BY <1>1, <2>2
<1>3. \A x, y \in u.slots : x.peer_id = y.peer_id => x = y
  BY <1>1 DEF TableOK, all_peers
<1> HIDE DEF u
<1>4. ASSUME NEW k \in SlotKind
      PROVE  OfKind(u, k) = IF k = e.kind THEN (OfKind(t, k) \ {old}) \cup {e}
                                          ELSE OfKind(t, k)
  BY <1>1 DEF OfKind
<1>5. ASSUME NEW r \in NodeId
      PROVE  FromReferrer(u, r) \subseteq
                (IF r = e.referrer_id /\ e.kind = "Greedy"
                   THEN FromReferrer(t, r) \cup {e} ELSE FromReferrer(t, r))
  BY <1>1 DEF FromReferrer, greedy_slots, OfKind
<1>6. ASSUME NEW k \in SlotKind
      PROVE  Cardinality(OfKind(u, k)) <= Cardinality(OfKind(t, k))
  <2>1. CASE e.kind = k
    <3>1. old \in OfKind(t, k)
      BY <2>1 DEF OfKind
    <3>2. OfKind(u, k) = (OfKind(t, k) \ {old}) \cup {e}
      BY <1>4, <2>1
    <3> QED
      BY <3>1, <3>2, PartsFinite, CardinalityExchange
  <2>2. CASE e.kind # k
    BY <1>4, <2>2, PartsFinite
  <2> QED
    BY <2>1, <2>2
<1>7. ASSUME NEW k \in SlotKind PROVE Cardinality(OfKind(u, k)) \in Nat
  <2>1. OfKind(u, k) \in SUBSET u.slots
    BY DEF OfKind
  <2> QED
    BY <1>2, <2>1, FS_Subset, FS_CardinalityType
<1>8. /\ Cardinality(greedy_slots(u)) <= max_greedy
      /\ Cardinality(OfKind(u, "LongJump")) <= 1
      /\ Cardinality(OfKind(u, "Diversity")) <= 1
  <2>1. greedy_slots(u) = OfKind(u, "Greedy") /\ greedy_slots(t) = OfKind(t, "Greedy")
    BY DEF greedy_slots
  <2> QED
    BY <1>6, <1>7, <2>1, PartsFinite, GreedyAssumption DEF SlotKind, TableOK
<1>9. ASSUME NEW r \in NodeId PROVE Cardinality(FromReferrer(u, r)) <= 2
  <2>1. CASE r = e.referrer_id /\ e.kind = "Greedy"
    <3>1. FromReferrer(u, r) \in SUBSET (FromReferrer(t, r) \cup {e})
      BY <1>5, <2>1
    <3>2. /\ IsFiniteSet(FromReferrer(t, r) \cup {e})
          /\ Cardinality(FromReferrer(t, r) \cup {e}) <= Cardinality(FromReferrer(t, r)) + 1
      BY PartsFinite, CardinalityAdd
    <3>3. /\ Cardinality(FromReferrer(u, r)) <= Cardinality(FromReferrer(t, r) \cup {e})
          /\ Cardinality(FromReferrer(u, r)) \in Nat
          /\ Cardinality(FromReferrer(t, r) \cup {e}) \in Nat
      BY <3>1, <3>2, FS_Subset, FS_CardinalityType
    <3> QED
      BY <2>1, <3>2, <3>3, PartsFinite
  <2>2. CASE ~(r = e.referrer_id /\ e.kind = "Greedy")
    <3>1. FromReferrer(u, r) \in SUBSET FromReferrer(t, r)
      BY <1>5, <2>2
    <3>2. /\ Cardinality(FromReferrer(u, r)) <= Cardinality(FromReferrer(t, r))
          /\ Cardinality(FromReferrer(u, r)) \in Nat
      BY <3>1, PartsFinite, FS_Subset, FS_CardinalityType
    <3> QED
      BY <3>2, PartsFinite DEF TableOK
  <2> QED
    BY <2>1, <2>2
<1> QED
  BY <1>1, <1>2, <1>3, <1>8, <1>9 DEF TableOK, u

-----------------------------------------------------------------------------
(* What insertions do to a table, one or several of them *)

\* From t to u at most one greedy or diversity peer was lost, and only by spending
\* the replacement of the tick; and no greedy peer was lost for a farther one.
Effect(t, u) ==
    /\ t.replacements_this_tick <= u.replacements_this_tick
    /\ Lost(t, u) # {} => t.replacements_this_tick = 0 /\ u.replacements_this_tick = 1
    /\ \E p : Lost(t, u) \subseteq {p}
    /\ \A s \in greedy_slots(t) : Closest(u, Distance[self][s.peer_id])

\* Distances from the owner are numbers.
LEMMA DistanceIsNat ==
    ASSUME NEW t, TableOK(t)
    PROVE  \A s \in t.slots : s \in SlotEntry /\ Distance[self][s.peer_id] \in Nat
  BY PartsFinite, DistanceAssumption, TableAssumption DEF SlotEntry

\* Nothing happens.
LEMMA EffectStutters == ASSUME NEW t, TableOK(t) PROVE Effect(t, t)
<1>1. Lost(t, t) = {}
  BY DEF Lost
<1>2. \A s \in greedy_slots(t) : Closest(t, Distance[self][s.peer_id])
  BY DistanceIsNat DEF Closest, greedy_slots, OfKind
<1>3. t.replacements_this_tick \in 0..1
  BY PartsFinite
<1> QED
  BY <1>1, <1>2, <1>3 DEF Effect

\* One thing after the other.
LEMMA EffectComposes ==
    ASSUME NEW t, NEW u, NEW v, TableOK(t), TableOK(u), TableOK(v),
           Effect(t, u), Effect(u, v)
    PROVE  Effect(t, v)
<1>1. /\ t.replacements_this_tick \in 0..1 /\ u.replacements_this_tick \in 0..1
      /\ v.replacements_this_tick \in 0..1
  BY PartsFinite
<1>2. Lost(t, v) \subseteq Lost(t, u) \cup Lost(u, v)
  BY DEF Lost
<1>3. Lost(t, u) = {} \/ Lost(u, v) = {}
  BY <1>1 DEF Effect
<1>4. \E p : Lost(t, v) \subseteq {p}
  BY <1>2, <1>3 DEF Effect
<1>5. Lost(t, v) # {} => t.replacements_this_tick = 0 /\ v.replacements_this_tick = 1
  BY <1>1, <1>2 DEF Effect
<1>6. ASSUME NEW s \in greedy_slots(t) PROVE Closest(v, Distance[self][s.peer_id])
  <2>1. PICK x \in greedy_slots(u) : Distance[self][x.peer_id] <= Distance[self][s.peer_id]
    BY DEF Effect, Closest
  <2>2. PICK y \in greedy_slots(v) : Distance[self][y.peer_id] <= Distance[self][x.peer_id]
    BY DEF Effect, Closest
  <2>3. /\ Distance[self][s.peer_id] \in Nat /\ Distance[self][x.peer_id] \in Nat
        /\ Distance[self][y.peer_id] \in Nat
    BY DistanceIsNat DEF greedy_slots, OfKind
  <2> QED
    BY <2>1, <2>2, <2>3 DEF Closest
<1> QED
  BY <1>1, <1>4, <1>5, <1>6 DEF Effect

\* A new slot costs nobody anything.
LEMMA PushEffect ==
    ASSUME NEW t, TableOK(t), NEW e
    PROVE  Effect(t, Push(t, e))
<1> DEFINE u == Push(t, e)
<1>1. /\ u.slots = t.slots \cup {e}
      /\ u.replacements_this_tick = t.replacements_this_tick
      /\ t.replacements_this_tick \in 0..1
  BY PartsFinite DEF Push, TableOK, TableType
<1> HIDE DEF u
<1>2. Lost(t, u) = {}
  BY <1>1 DEF Lost
<1>3. \A s \in greedy_slots(t) : Closest(u, Distance[self][s.peer_id])
  BY <1>1, DistanceIsNat DEF Closest, greedy_slots, OfKind
<1> QED
  BY <1>1, <1>2, <1>3 DEF Effect, u

\* Neither does the counting, when it is the first of the tick.
LEMMA SpentEffect ==
    ASSUME NEW t, TableOK(t), t.replacements_this_tick = 0
    PROVE  TableOK(Spent(t)) /\ Effect(t, Spent(t))
<1> DEFINE u == Spent(t)
<1>1. u \in TableType /\ u.slots = t.slots /\ u.replacements_this_tick = 1
  BY DEF Spent, TableOK, TableType
<1> HIDE DEF u
<1>2. TableOK(u)
  BY <1>1, SameSlots
<1>3. Lost(t, u) = {}
  BY <1>1 DEF Lost
<1>4. \A s \in greedy_slots(t) : Closest(u, Distance[self][s.peer_id])
  BY <1>1, DistanceIsNat DEF Closest, greedy_slots, OfKind
<1> QED
  BY <1>1, <1>2, <1>3, <1>4 DEF Effect, u

\* A replacement that is counted loses the peer it replaces, a greedy one only for a
\* closer one.
LEMMA ReplaceEffect ==
    ASSUME NEW t, TableOK(t), t.replacements_this_tick = 0,
           NEW e \in SlotEntry, NEW old \in t.slots, old.kind = e.kind,
           e.kind = "Greedy" => Distance[self][e.peer_id] < Distance[self][old.peer_id],
           TableOK(Replace(t, old, e))
    PROVE  TableOK(Spent(Replace(t, old, e))) /\ Effect(t, Spent(Replace(t, old, e)))
<1> DEFINE v == Replace(t, old, e)
           u == Spent(v)
<1>0. v.slots = (t.slots \ {old}) \cup {e} /\ v.replacements_this_tick = 0 /\ v \in TableType
  BY DEF Replace, TableOK, TableType
<1> HIDE DEF v
<1>1. /\ u \in TableType /\ u.slots = (t.slots \ {old}) \cup {e} /\ u.slots = v.slots
      /\ u.replacements_this_tick = 1
  BY <1>0 DEF Spent, TableType
<1> HIDE DEF u
<1>2. TableOK(u)
  BY <1>1, SameSlots DEF v
<1>3. Lost(t, u) \subseteq {old.peer_id}
  BY <1>1 DEF Lost
<1>4. ASSUME NEW s \in greedy_slots(t) PROVE Closest(u, Distance[self][s.peer_id])
  <2>1. s \in t.slots /\ s.kind = "Greedy" /\ Distance[self][s.peer_id] \in Nat
    BY DistanceIsNat DEF greedy_slots, OfKind
  <2>2. CASE s = old
    <3>1. e \in greedy_slots(u) /\ Distance[self][e.peer_id] \in Nat
      BY <1>1, <2>1, <2>2, DistanceAssumption, TableAssumption
         DEF greedy_slots, OfKind, SlotEntry
    <3> QED
      BY <2>1, <2>2, <3>1 DEF Closest
  <2>3. CASE s # old
    BY <1>1, <2>1, <2>3 DEF Closest, greedy_slots, OfKind
  <2> QED
    BY <2>2, <2>3
<1> QED
  BY <1>1, <1>2, <1>3, <1>4 DEF Effect, u, v

\* The L-slot may be overwritten at any time: it costs no greedy or diversity peer.
LEMMA LongJumpEffect ==
    ASSUME NEW t, TableOK(t), NEW e \in SlotEntry, e.kind = "LongJump",
           NEW old \in t.slots, old.kind = "LongJump"
    PROVE  Effect(t, Replace(t, old, e))
<1> DEFINE u == Replace(t, old, e)
<1>1. /\ u.slots = (t.slots \ {old}) \cup {e}
      /\ u.replacements_this_tick = t.replacements_this_tick
      /\ t.replacements_this_tick \in 0..1
  BY PartsFinite DEF Replace, TableOK, TableType
<1> HIDE DEF u
<1>2. Lost(t, u) = {}
  BY <1>1 DEF Lost
<1>3. \A s \in greedy_slots(t) : Closest(u, Distance[self][s.peer_id])
  BY <1>1, DistanceIsNat DEF Closest, greedy_slots, OfKind
<1> QED
  BY <1>1, <1>2, <1>3 DEF Effect, u

\* try_insert_greedy: room, or a farthest slot that the new peer beats.
LEMMA GreedyOK ==
    ASSUME NEW t, TableOK(t), NEW e \in SlotEntry,
           e.peer_id \notin all_peers(t), e.kind = "Greedy"
    PROVE  /\ TableOK(try_insert_greedy(self, t, e))
           /\ Effect(t, try_insert_greedy(self, t, e))
<1> DEFINE w == WorstGreedy(self, t)
<1>1. CASE referrer_quota_exceeded(t, e.referrer_id)
  BY <1>1, EffectStutters DEF try_insert_greedy
<1>2. ASSUME ~referrer_quota_exceeded(t, e.referrer_id)
      PROVE  Cardinality(FromReferrer(t, e.referrer_id)) < 2
  <2>1. Cardinality(FromReferrer(t, e.referrer_id)) \in Nat
    BY PartsFinite
  <2> QED
    BY <1>2, <2>1 DEF referrer_quota_exceeded
<1>3. CASE /\ ~referrer_quota_exceeded(t, e.referrer_id)
           /\ Cardinality(greedy_slots(t)) < max_greedy
  <2>1. try_insert_greedy(self, t, e) = Push(t, e)
    BY <1>3 DEF try_insert_greedy
  <2> QED
    BY <1>2, <1>3, <2>1, PushOK, PushEffect
<1>4. CASE /\ ~referrer_quota_exceeded(t, e.referrer_id)
           /\ ~(Cardinality(greedy_slots(t)) < max_greedy)
           /\ t.replacements_this_tick < 1
           /\ Distance[self][e.peer_id] < Distance[self][w.peer_id]
  <2>1. greedy_slots(t) # {} /\ IsFiniteSet(greedy_slots(t))
    BY <1>4, PartsFinite, FS_EmptySet, GreedyAssumption
  <2>2. \A s \in greedy_slots(t) : Distance[self][s.peer_id] \in Nat
    BY DistanceIsNat DEF greedy_slots, OfKind
  <2>3. \E s \in greedy_slots(t) : \A other \in greedy_slots(t) :
            Distance[self][other.peer_id] <= Distance[self][s.peer_id]
    BY <2>1, <2>2, FarthestExists
  <2>4. w \in greedy_slots(t)
    BY <2>3 DEF WorstGreedy
  <2>5. w \in t.slots /\ w.kind = "Greedy"
    BY <2>4 DEF greedy_slots, OfKind
  <2>6. try_insert_greedy(self, t, e) = Spent(Replace(t, w, e))
    BY <1>4 DEF try_insert_greedy
  <2>7. t.replacements_this_tick = 0
    BY <1>4, PartsFinite
  <2> HIDE DEF w
  <2>8. TableOK(Replace(t, w, e))
    BY <1>2, <1>4, <2>5, ReplaceOK
  <2> QED
    BY <1>4, <2>5, <2>6, <2>7, <2>8, ReplaceEffect
<1>5. CASE /\ ~(Cardinality(greedy_slots(t)) < max_greedy)
           /\ ~(/\ t.replacements_this_tick < 1
                /\ Distance[self][e.peer_id] < Distance[self][w.peer_id])
  BY <1>5, EffectStutters DEF try_insert_greedy
<1> QED
  BY <1>1, <1>3, <1>4, <1>5

\* try_insert_longjump: the one L-slot is overwritten.
LEMMA LongJumpOK ==
    ASSUME NEW t, TableOK(t), NEW e \in SlotEntry,
           e.peer_id \notin all_peers(t), e.kind = "LongJump"
    PROVE  /\ TableOK(try_insert_longjump(t, e))
           /\ Effect(t, try_insert_longjump(t, e))
<1> DEFINE old == CHOOSE s \in OfKind(t, "LongJump") : TRUE
<1>1. CASE OfKind(t, "LongJump") # {}
  <2>1. try_insert_longjump(t, e) = Replace(t, old, e)
    BY <1>1 DEF try_insert_longjump
  <2>2. old \in OfKind(t, "LongJump")
    BY <1>1
  <2>3. old \in t.slots /\ old.kind = "LongJump"
    BY <2>2 DEF OfKind
  <2> HIDE DEF old
  <2> QED
    BY <2>1, <2>3, ReplaceOK, LongJumpEffect
<1>2. CASE OfKind(t, "LongJump") = {}
  <2>1. try_insert_longjump(t, e) \in {t, Push(t, e)}
    BY <1>2 DEF try_insert_longjump
  <2>2. TableOK(Push(t, e)) /\ Effect(t, Push(t, e))
    BY <1>2, PushOK, PushEffect
  <2> QED
    BY <2>1, <2>2, EffectStutters
<1> QED
  BY <1>1, <1>2

\* try_insert_diversity: the one D-slot is filled or overwritten once per tick.
LEMMA DiversityOK ==
    ASSUME NEW t, TableOK(t), NEW e \in SlotEntry,
           e.peer_id \notin all_peers(t), e.kind = "Diversity"
    PROVE  /\ TableOK(try_insert_diversity(t, e))
           /\ Effect(t, try_insert_diversity(t, e))
<1> DEFINE old == CHOOSE s \in OfKind(t, "Diversity") : TRUE
<1>1. CASE e.referrer_id \in greedy_referrers(t) \/ t.replacements_this_tick >= 1
  BY <1>1, EffectStutters DEF try_insert_diversity
<1>2. ASSUME ~(t.replacements_this_tick >= 1) PROVE t.replacements_this_tick = 0
  BY <1>2, PartsFinite
<1>3. CASE /\ ~(e.referrer_id \in greedy_referrers(t) \/ t.replacements_this_tick >= 1)
           /\ OfKind(t, "Diversity") # {}
  <2>1. try_insert_diversity(t, e) = Spent(Replace(t, old, e))
    BY <1>3 DEF try_insert_diversity
  <2>2. old \in OfKind(t, "Diversity")
    BY <1>3
  <2>3. old \in t.slots /\ old.kind = "Diversity"
    BY <2>2 DEF OfKind
  <2> HIDE DEF old
  <2>4. TableOK(Replace(t, old, e))
    BY <2>3, ReplaceOK
  <2> QED
    BY <1>2, <1>3, <2>1, <2>3, <2>4, ReplaceEffect
<1>4. CASE /\ ~(e.referrer_id \in greedy_referrers(t) \/ t.replacements_this_tick >= 1)
           /\ OfKind(t, "Diversity") = {}
  <2>1. try_insert_diversity(t, e) \in {t, Spent(Push(t, e))}
    BY <1>4 DEF try_insert_diversity
  <2>2. TableOK(Push(t, e)) /\ Effect(t, Push(t, e))
    BY <1>4, PushOK, PushEffect
  <2>3. Push(t, e).replacements_this_tick = 0
    BY <1>2, <1>4 DEF Push, TableOK, TableType
  <2>4. TableOK(Spent(Push(t, e))) /\ Effect(Push(t, e), Spent(Push(t, e)))
    BY <2>2, <2>3, SpentEffect
  <2>5. Effect(t, Spent(Push(t, e)))
    BY <2>2, <2>4, EffectComposes
  <2> QED
    BY <2>1, <2>4, <2>5, EffectStutters
<1> QED
  BY <1>1, <1>3, <1>4

\* try_insert, whatever the kind.
LEMMA InsertOK ==
    ASSUME NEW t, TableOK(t), NEW e \in SlotEntry
    PROVE  TableOK(try_insert(self, t, e)) /\ Effect(t, try_insert(self, t, e))
<1>1. CASE e.peer_id \in all_peers(t)
  <2>1. try_insert(self, t, e) = t
    BY <1>1 DEF try_insert
  <2> QED
    BY <2>1, EffectStutters
<1>2. CASE e.peer_id \notin all_peers(t) /\ e.kind = "Greedy"
  <2>1. try_insert(self, t, e) = try_insert_greedy(self, t, e)
    BY <1>2 DEF try_insert
  <2> QED
    BY <1>2, <2>1, GreedyOK
<1>3. CASE e.peer_id \notin all_peers(t) /\ e.kind = "LongJump"
  <2>1. try_insert(self, t, e) = try_insert_longjump(t, e)
    BY <1>3 DEF try_insert
  <2> QED
    BY <1>3, <2>1, LongJumpOK
<1>4. CASE e.peer_id \notin all_peers(t) /\ e.kind = "Diversity"
  <2>1. try_insert(self, t, e) = try_insert_diversity(t, e)
    BY <1>4 DEF try_insert
  <2> QED
    BY <1>4, <2>1, DiversityOK
<1> QED
  BY <1>1, <1>2, <1>3, <1>4 DEF SlotEntry, SlotKind

\* One candidate of a peer list, if the list is as long.
LEMMA CandidateOK ==
    ASSUME NEW t, TableOK(t), NEW list \in PexLists, NEW i \in Nat \ {0}
    PROVE  TableOK(CandidateAt(self, t, list, i)) /\ Effect(t, CandidateAt(self, t, list, i))
<1>1. CASE i <= Len(list) /\ list[i].peer # self
  <2>1. list \in Seq([peer : NodeId, referrer : NodeId])
    BY TableAssumption
  <2>2. list[i] \in [peer : NodeId, referrer : NodeId]
    <3>1. Len(list) \in Nat /\ i \in 1..Len(list)
      BY <1>1, <2>1
    <3>2. \A C : list \in Seq(C) => list[i] \in C
      BY <3>1
    <3> QED
      BY <2>1, <3>2, Zenon
  <2>3. PICK e \in SlotEntry : CandidateAt(self, t, list, i) = try_insert(self, t, e)
    BY <1>1, <2>2 DEF CandidateAt, Candidate, NewEntry, SlotEntry, SlotKind, Loss
  <2> QED
    BY <2>3, InsertOK
<1>2. CASE ~(i <= Len(list) /\ list[i].peer # self)
  <2>1. CandidateAt(self, t, list, i) = t
    BY <1>2 DEF CandidateAt, Candidate
  <2> QED
    BY <2>1, EffectStutters
<1> QED
  BY <1>1, <1>2

\* apply_candidates: three of them in one call.
LEMMA ExchangeOK ==
    ASSUME NEW t, TableOK(t), NEW list \in PexLists
    PROVE  TableOK(apply_candidates(self, t, list)) /\ Effect(t, apply_candidates(self, t, list))
<1> DEFINE t1 == CandidateAt(self, t, list, 1)
           t2 == CandidateAt(self, t1, list, 2)
           t3 == CandidateAt(self, t2, list, 3)
<1>1. TableOK(t1) /\ Effect(t, t1)
  BY CandidateOK
<1> HIDE DEF t1
<1>2. TableOK(t2) /\ Effect(t1, t2)
  BY <1>1, CandidateOK
<1> HIDE DEF t2
<1>3. TableOK(t3) /\ Effect(t2, t3)
  BY <1>2, CandidateOK
<1> HIDE DEF t3
<1>4. Effect(t, t3)
  BY <1>1, <1>2, <1>3, EffectComposes
<1> QED
  BY <1>3, <1>4 DEF apply_candidates, t1, t2, t3

\* A probe changes the loss of one entry and nothing that is counted.
LEMMA ProbeOK ==
    ASSUME NEW t, TableOK(t), NEW s \in t.slots, NEW loss \in Loss
    PROVE  TableOK([t EXCEPT !.slots = (@ \ {s}) \cup {[s EXCEPT !.ewma_loss = loss]}])
<1> DEFINE e == [s EXCEPT !.ewma_loss = loss]
           u == [t EXCEPT !.slots = (@ \ {s}) \cup {e}]
<1>1. s \in SlotEntry /\ IsFiniteSet(t.slots)
  BY PartsFinite DEF TableOK
<1>2. e \in SlotEntry /\ e.kind = s.kind /\ e.peer_id = s.peer_id /\ e.referrer_id = s.referrer_id
  BY <1>1 DEF SlotEntry
<1> HIDE DEF e
<1>3. u \in TableType /\ u.slots = (t.slots \ {s}) \cup {e}
  BY <1>2 DEF TableOK, TableType
<1> HIDE DEF u
<1>4. IsFiniteSet(u.slots)
  <2>1. IsFiniteSet((t.slots \ {s}) \cup {e})
    BY <1>1, CardinalityExchange
  <2> QED
    BY <1>3, <2>1
<1>5. \A x, y \in u.slots : x.peer_id = y.peer_id => x = y
  BY <1>2, <1>3 DEF TableOK
<1>6. ASSUME NEW S, NEW T, IsFiniteSet(S),
             T = IF s \in S THEN (S \ {s}) \cup {e} ELSE S
      PROVE  Cardinality(T) \in Nat /\ Cardinality(T) <= Cardinality(S) /\ Cardinality(S) \in Nat
  <2>1. CASE s \in S
    BY <1>6, <2>1, CardinalityExchange, FS_CardinalityType
  <2>2. CASE s \notin S
    <3>1. Cardinality(S) \in Nat
      BY <1>6, FS_CardinalityType
    <3> QED
      BY <1>6, <2>2, <3>1
  <2> QED
    BY <2>1, <2>2
<1>7. ASSUME NEW k
      PROVE  OfKind(u, k) = IF s \in OfKind(t, k) THEN (OfKind(t, k) \ {s}) \cup {e}
                                                  ELSE OfKind(t, k)
  BY <1>2, <1>3 DEF OfKind
<1>8. ASSUME NEW r
      PROVE  FromReferrer(u, r) = IF s \in FromReferrer(t, r)
                                    THEN (FromReferrer(t, r) \ {s}) \cup {e}
                                    ELSE FromReferrer(t, r)
  BY <1>2, <1>3 DEF FromReferrer, greedy_slots, OfKind
<1>9. ASSUME NEW k
      PROVE  /\ Cardinality(OfKind(u, k)) \in Nat
             /\ Cardinality(OfKind(u, k)) <= Cardinality(OfKind(t, k))
             /\ Cardinality(OfKind(t, k)) \in Nat
  <2>1. IsFiniteSet(OfKind(t, k))
    BY PartsFinite
  <2> QED
    BY <1>6, <1>7, <2>1
<1>10. ASSUME NEW r \in NodeId PROVE Cardinality(FromReferrer(u, r)) <= 2
  <2>1. IsFiniteSet(FromReferrer(t, r)) /\ Cardinality(FromReferrer(t, r)) <= 2
    BY PartsFinite DEF TableOK
  <2>2. /\ Cardinality(FromReferrer(u, r)) \in Nat
        /\ Cardinality(FromReferrer(u, r)) <= Cardinality(FromReferrer(t, r))
        /\ Cardinality(FromReferrer(t, r)) \in Nat
    BY <1>6, <1>8, <2>1
  <2> QED
    BY <2>1, <2>2
<1>11. /\ Cardinality(greedy_slots(u)) <= max_greedy
       /\ Cardinality(OfKind(u, "LongJump")) <= 1
       /\ Cardinality(OfKind(u, "Diversity")) <= 1
  BY <1>9, GreedyAssumption DEF greedy_slots, TableOK
<1>12. TableOK(u)
  BY <1>3, <1>4, <1>5, <1>10, <1>11 DEF TableOK
<1> QED
  BY <1>12 DEF u, e

\* evict_dead only removes.
LEMMA EvictOK == ASSUME NEW t, TableOK(t) PROVE TableOK(evict_dead(t))
<1> DEFINE u == evict_dead(t)
<1>1. u \in TableType /\ u.slots = {s \in t.slots : ~should_evict(s)}
  BY DEF evict_dead, TableOK, TableType
<1> HIDE DEF u
<1>2. u.slots \in SUBSET t.slots
  BY <1>1
<1>3. IsFiniteSet(u.slots)
  BY <1>2, FS_Subset DEF TableOK
<1>4. ASSUME NEW k
      PROVE  /\ Cardinality(OfKind(u, k)) \in Nat
             /\ Cardinality(OfKind(u, k)) <= Cardinality(OfKind(t, k))
             /\ Cardinality(OfKind(t, k)) \in Nat
  <2>1. OfKind(u, k) \in SUBSET OfKind(t, k) /\ IsFiniteSet(OfKind(t, k))
    BY <1>2, PartsFinite DEF OfKind
  <2> QED
    BY <2>1, FS_Subset, FS_CardinalityType
<1>5. ASSUME NEW r \in NodeId PROVE Cardinality(FromReferrer(u, r)) <= 2
  <2>1. FromReferrer(u, r) \in SUBSET FromReferrer(t, r) /\ IsFiniteSet(FromReferrer(t, r))
    BY <1>2, PartsFinite DEF FromReferrer, greedy_slots, OfKind
  <2>2. /\ Cardinality(FromReferrer(u, r)) \in Nat
        /\ Cardinality(FromReferrer(u, r)) <= Cardinality(FromReferrer(t, r))
        /\ Cardinality(FromReferrer(t, r)) \in Nat
    BY <2>1, FS_Subset, FS_CardinalityType
  <2> QED
    BY <2>2 DEF TableOK
<1>6. /\ Cardinality(greedy_slots(u)) <= max_greedy
      /\ Cardinality(OfKind(u, "LongJump")) <= 1
      /\ Cardinality(OfKind(u, "Diversity")) <= 1
  BY <1>4, GreedyAssumption DEF greedy_slots, TableOK
<1>7. TableOK(u)
  BY <1>1, <1>2, <1>3, <1>5, <1>6 DEF TableOK
<1> QED
  BY <1>7 DEF u

-----------------------------------------------------------------------------
(* The invariant *)

\* The quotas, and the link between the history and the counter of the tick: a peer
\* was displaced only if the replacement is spent.
TInv ==
    /\ TableOK(one_table)
    /\ displaced # {} => one_table.replacements_this_tick = 1
    /\ \E p : displaced \subseteq {p}

\* An insertion, or several in one call.
LEMMA UpdateKeeps ==
    ASSUME TInv, NEW u, Update(u), TableOK(u), Effect(one_table, u)
    PROVE  TInv' /\ \A s \in greedy_slots(one_table) : Closest(one_table', Distance[self][s.peer_id])
<1>1. one_table' = u /\ displaced' = displaced \cup Lost(one_table, u)
  BY DEF Update
<1>2. one_table.replacements_this_tick \in 0..1 /\ u.replacements_this_tick \in 0..1
  BY PartsFinite DEF TInv
<1>3. displaced = {} \/ Lost(one_table, u) = {}
  BY DEF TInv, Effect
<1>4. displaced' # {} => u.replacements_this_tick = 1
  BY <1>1, <1>2, <1>3 DEF TInv, Effect
<1>5. \E p : displaced' \subseteq {p}
  BY <1>1, <1>3 DEF TInv, Effect
<1> QED
  BY <1>1, <1>4, <1>5 DEF TInv, Effect

\* Every step keeps the invariant, and no live greedy peer is lost for a farther one.
LEMMA NextKeeps ==
    ASSUME TInv, TableNext
    PROVE  /\ TInv'
           /\ \A s \in greedy_slots(one_table) :
                 should_evict(s) \/ Closest(one_table', Distance[self][s.peer_id])
<1>1. ASSUME NEW kind \in SlotKind, NEW peer \in NodeId, NEW referrer \in Referrers,
             Insert(kind, peer, referrer)
      PROVE  TInv' /\ \A s \in greedy_slots(one_table) : Closest(one_table', Distance[self][s.peer_id])
  <2> DEFINE e == NewEntry(kind, peer, referrer)
  <2>1. e \in SlotEntry
    BY TableAssumption DEF NewEntry, SlotEntry, Loss
  <2>2. Update(try_insert(self, one_table, e))
    BY <1>1 DEF Insert
  <2> HIDE DEF e
  <2>3. TableOK(try_insert(self, one_table, e)) /\ Effect(one_table, try_insert(self, one_table, e))
    BY <2>1, InsertOK DEF TInv
  <2> QED
    BY <2>2, <2>3, UpdateKeeps
<1>2. ASSUME NEW list \in PexLists, PeerExchange(list)
      PROVE  TInv' /\ \A s \in greedy_slots(one_table) : Closest(one_table', Distance[self][s.peer_id])
  <2>1. /\ TableOK(apply_candidates(self, one_table, list))
        /\ Effect(one_table, apply_candidates(self, one_table, list))
    BY ExchangeOK DEF TInv
  <2> QED
    BY <1>2, <2>1, UpdateKeeps DEF PeerExchange
<1>3. CASE ResetTick
  <2>1. one_table' \in TableType /\ one_table'.slots = one_table.slots /\ displaced' = {}
    BY <1>3 DEF ResetTick, reset_tick, TInv, TableOK, TableType
  <2>2. TableOK(one_table')
    BY <2>1, SameSlots DEF TInv
  <2>3. \A s \in greedy_slots(one_table) : Closest(one_table', Distance[self][s.peer_id])
    BY <2>1, DistanceIsNat DEF Closest, greedy_slots, OfKind, TInv
  <2> QED
    BY <2>1, <2>2, <2>3 DEF TInv
<1>4. ASSUME NEW s \in one_table.slots, NEW success \in BOOLEAN, Probe(s, success)
      PROVE  TInv' /\ \A g \in greedy_slots(one_table) : Closest(one_table', Distance[self][g.peer_id])
  <2>1. s \in SlotEntry
    BY PartsFinite DEF TInv
  <2>2. PICK loss \in Loss :
            /\ one_table' = [one_table EXCEPT !.slots = (@ \ {s}) \cup {[s EXCEPT !.ewma_loss = loss]}]
            /\ UNCHANGED displaced
    BY <1>4, <2>1 DEF Probe, record_probe, Loss, SlotEntry
  <2>3. TableOK(one_table')
    BY <2>2, ProbeOK DEF TInv
  <2>4. /\ one_table'.replacements_this_tick = one_table.replacements_this_tick
        /\ one_table'.slots = (one_table.slots \ {s}) \cup {[s EXCEPT !.ewma_loss = loss]}
    BY <2>2 DEF TInv, TableOK, TableType
  <2>5. ASSUME NEW g \in greedy_slots(one_table)
        PROVE  Closest(one_table', Distance[self][g.peer_id])
    <3>1. \E x \in greedy_slots(one_table') : x.peer_id = g.peer_id
      <4> DEFINE e == [s EXCEPT !.ewma_loss = loss]
      <4>1. e.kind = s.kind /\ e.peer_id = s.peer_id /\ e \in one_table'.slots
        BY <2>1, <2>4 DEF SlotEntry
      <4> HIDE DEF e
      <4> QED
        BY <2>4, <4>1 DEF greedy_slots, OfKind, e
    <3>2. Distance[self][g.peer_id] \in Nat
      BY DistanceIsNat DEF greedy_slots, OfKind, TInv
    <3> QED
      BY <3>1, <3>2 DEF Closest
  <2> QED
    BY <2>2, <2>3, <2>4, <2>5 DEF TInv
<1>5. CASE EvictDead
  <2>1. one_table' = evict_dead(one_table) /\ UNCHANGED displaced
    BY <1>5 DEF EvictDead
  <2>2. TableOK(one_table')
    BY <2>1, EvictOK DEF TInv
  <2>3. /\ one_table'.replacements_this_tick = one_table.replacements_this_tick
        /\ one_table'.slots = {s \in one_table.slots : ~should_evict(s)}
    BY <2>1 DEF evict_dead, TInv, TableOK, TableType
  <2>4. ASSUME NEW s \in greedy_slots(one_table), ~should_evict(s)
        PROVE  Closest(one_table', Distance[self][s.peer_id])
    BY <2>3, <2>4, DistanceIsNat DEF Closest, greedy_slots, OfKind, TInv
  <2> QED
    BY <2>1, <2>2, <2>3, <2>4 DEF TInv
<1> QED
  BY <1>1, <1>2, <1>3, <1>4, <1>5 DEF TableNext

\* The empty table obeys everything.
LEMMA InitKeeps == TableInit => TInv
<1> SUFFICES ASSUME TableInit PROVE TInv
  OBVIOUS
<1>1. /\ one_table \in TableType /\ one_table.slots = {} /\ displaced = {}
      /\ one_table.replacements_this_tick = 0
  BY DEF TableInit, NewTable, TableType
<1>2. /\ greedy_slots(one_table) = {} /\ \A k : OfKind(one_table, k) = {}
      /\ \A r : FromReferrer(one_table, r) = {}
  BY <1>1 DEF greedy_slots, OfKind, FromReferrer
<1>3. TableOK(one_table)
  BY <1>1, <1>2, FS_EmptySet, GreedyAssumption DEF TableOK
<1> QED
  BY <1>1, <1>3 DEF TInv

\* The quotas hold of every table that calls can build, and with them the link
\* between what was displaced and what was counted.
THEOREM TablesKept == TableSpec => []TInv
<1>1. TInv /\ [TableNext]_tableVars => TInv'
  <2>1. TInv /\ TableNext => TInv'
    BY NextKeeps
  <2>2. TInv /\ UNCHANGED tableVars => TInv'
    BY DEF TInv, tableVars
  <2> QED
    BY <2>1, <2>2
<1> QED
  BY <1>1, InitKeeps, PTL DEF TableSpec

-----------------------------------------------------------------------------
(* The properties *)

\* The slots of a table are those of the three kinds, so that up to three G-slots
\* leave it within MAX_TOTAL.
LEMMA TotalBounded ==
    ASSUME NEW t, TableOK(t), max_greedy <= 3
    PROVE  Cardinality(t.slots) <= MAX_TOTAL
<1> DEFINE G == OfKind(t, "Greedy")
           L == OfKind(t, "LongJump")
           D == OfKind(t, "Diversity")
<1>1. t.slots \subseteq SlotEntry /\ greedy_slots(t) = G
  BY PartsFinite
<1>2. t.slots = G \cup (L \cup D)
  BY <1>1 DEF OfKind, SlotEntry, SlotKind
<1>3. /\ IsFiniteSet(G) /\ IsFiniteSet(L) /\ IsFiniteSet(D)
      /\ Cardinality(G) \in Nat /\ Cardinality(L) \in Nat /\ Cardinality(D) \in Nat
  BY PartsFinite
<1>4. Cardinality(G) <= max_greedy /\ Cardinality(L) <= 1 /\ Cardinality(D) <= 1
  BY <1>1 DEF TableOK
<1> HIDE DEF G, L, D
<1>5. /\ IsFiniteSet(L \cup D) /\ Cardinality(L \cup D) \in Nat
      /\ Cardinality(L \cup D) <= Cardinality(L) + Cardinality(D)
  <2>1. /\ IsFiniteSet(L \cup D) /\ Cardinality(L \cap D) \in Nat
        /\ Cardinality(L \cup D) = Cardinality(L) + Cardinality(D) - Cardinality(L \cap D)
    BY <1>3, FS_Union, FS_Intersection, FS_CardinalityType
  <2> QED
    BY <1>3, <2>1, FS_CardinalityType
<1>6. Cardinality(G \cup (L \cup D)) <= Cardinality(G) + Cardinality(L \cup D)
  <2>1. /\ Cardinality(G \cap (L \cup D)) \in Nat
        /\ Cardinality(G \cup (L \cup D)) =
               Cardinality(G) + Cardinality(L \cup D) - Cardinality(G \cap (L \cup D))
    BY <1>3, <1>5, FS_Union, FS_Intersection, FS_CardinalityType
  <2> QED
    BY <1>3, <1>5, <2>1
<1>7. IsFiniteSet(t.slots) /\ Cardinality(t.slots) \in Nat
  BY FS_CardinalityType DEF TableOK
<1> QED
  BY <1>2, <1>3, <1>4, <1>5, <1>6, <1>7, GreedyAssumption DEF MAX_TOTAL

\* One slot per peer and the quotas of each kind and each referrer, whatever is
\* offered, and in whatever order; and MAX_TOTAL in a table of at most three
\* G-slots.
THEOREM QuotasKept == TableSpec => []QuotasHold
<1>1. TInv => QuotasHold
  BY TableAssumption, TotalBounded DEF TInv, TableOK, QuotasHold
<1> QED
  BY <1>1, TablesKept, PTL

\* Insertions displace at most one greedy or diversity peer per tick, though a peer
\* exchange makes three of them.
THEOREM DisplacedOnce == TableSpec => []OneReplacementPerTick
<1>1. TInv => OneReplacementPerTick
  <2> SUFFICES ASSUME TInv PROVE Cardinality(displaced) <= 1
    BY DEF OneReplacementPerTick
  <2>1. PICK p : displaced \subseteq {p}
    BY DEF TInv
  <2>2. displaced = {} \/ displaced = {p}
    BY <2>1
  <2>3. Cardinality(displaced) = 0 \/ Cardinality(displaced) = 1
    BY <2>2, FS_EmptySet, FS_Singleton, Zenon
  <2> QED
    BY <2>3
<1> QED
  BY <1>1, TablesKept, PTL

\* No step but evict_dead takes from the table its closest greedy peer.
THEOREM ClosestIsKept == TableSpec => ClosestSurvives
<1>1. TInv /\ [TableNext]_tableVars =>
         [\A s \in greedy_slots(one_table) :
             should_evict(s) \/ Closest(one_table', Distance[self][s.peer_id])]_tableVars
  BY NextKeeps
<1> QED
  BY <1>1, TablesKept, PTL DEF TableSpec, ClosestSurvives

-----------------------------------------------------------------------------
(* Tables after the start-up: module Introductions *)

\* What the table of n is worth when n was told of the peers `known'.  A peer is
\* its own referrer, so that the quota per referrer never refuses one.
TableOf(n, t, known) ==
    /\ t \in TableType
    /\ \A s \in t.slots : s = NewEntry("Greedy", s.peer_id, s.peer_id)
    /\ IsFiniteSet(t.slots) /\ Cardinality(t.slots) <= max_greedy
    /\ all_peers(t) \subseteq known
    /\ \A p \in known :
          \/ p \in all_peers(t)
          \/ /\ Cardinality(t.slots) = max_greedy
             /\ \A s \in t.slots : Distance[n][s.peer_id] < Distance[n][p]

\* An introduction is answered with at most three nodes, by the node that heads
\* the list.
CallOK(n) ==
    /\ call[n].state # "none" => todo[n] # << >>
    /\ call[n].state = "answered" =>
          /\ Head(todo[n]) \in NodeId
          /\ call[n].neighbors \in Seq(NodeId) /\ Len(call[n].neighbors) <= 3

IInv ==
    /\ DOMAIN todo = NodeId /\ DOMAIN call = NodeId
    /\ tables \in [NodeId -> TableType]
    /\ peer_urls \in [NodeId -> SUBSET NodeId]
    /\ \A n \in NodeId : TableOf(n, tables[n], peer_urls[n]) /\ CallOK(n)

\* A table with fewer slots than it may have takes a new peer.
LEMMA FreeSlotTaken ==
    ASSUME NEW n \in NodeId, NEW t, NEW known \in SUBSET NodeId, TableOf(n, t, known),
           NEW p \in NodeId, p \notin all_peers(t), Cardinality(t.slots) < max_greedy
    PROVE  TableOf(n, Push(t, NewEntry("Greedy", p, p)), known \cup {p})
<1> DEFINE e == NewEntry("Greedy", p, p)
           u == Push(t, e)
<1>1. e \in SlotEntry /\ e.peer_id = p /\ e = NewEntry("Greedy", e.peer_id, e.peer_id)
  BY DEF NewEntry, SlotEntry, SlotKind, Loss
<1> HIDE DEF e
<1>2. u \in TableType /\ u.slots = t.slots \cup {e}
  BY <1>1 DEF TableOf, TableType, Push
<1>3. e \notin t.slots
  BY <1>1 DEF all_peers
<1>4. IsFiniteSet(u.slots) /\ Cardinality(u.slots) = Cardinality(t.slots) + 1
      /\ Cardinality(t.slots) \in Nat
  BY <1>2, <1>3, FS_AddElement, FS_CardinalityType DEF TableOf
<1>5. Cardinality(u.slots) <= max_greedy
  BY <1>4, GreedyAssumption
<1>6. all_peers(u) = all_peers(t) \cup {p}
  BY <1>1, <1>2 DEF all_peers
<1>7. \A q \in known \cup {p} : q \in all_peers(u)
  <2>1. Cardinality(t.slots) # max_greedy
    BY <1>4, GreedyAssumption
  <2> QED
    BY <1>6, <2>1 DEF TableOf
<1>8. \A s \in u.slots : s = NewEntry("Greedy", s.peer_id, s.peer_id)
  BY <1>1, <1>2 DEF TableOf
<1>9. all_peers(u) \subseteq known \cup {p}
  BY <1>6 DEF TableOf
<1> HIDE DEF u
<1>10. TableOf(n, u, known \cup {p})
  BY <1>2, <1>4, <1>5, <1>7, <1>8, <1>9 DEF TableOf
<1> QED
  BY <1>10 DEF u, e

\* In a full table a closer peer takes the place of the farthest.
LEMMA FarthestGivesWay ==
    ASSUME NEW n \in NodeId, NEW t, NEW known \in SUBSET NodeId, TableOf(n, t, known),
           NEW p \in NodeId, p \notin all_peers(t), Cardinality(t.slots) = max_greedy,
           NEW w \in t.slots, \A s \in t.slots : Distance[n][s.peer_id] <= Distance[n][w.peer_id],
           Distance[n][p] < Distance[n][w.peer_id], t.replacements_this_tick = 0
    PROVE  TableOf(n, Spent(Replace(t, w, NewEntry("Greedy", p, p))), known \cup {p})
<1> DEFINE e == NewEntry("Greedy", p, p)
           u == Spent(Replace(t, w, e))
<1>1. e \in SlotEntry /\ e.peer_id = p /\ e = NewEntry("Greedy", e.peer_id, e.peer_id)
  BY DEF NewEntry, SlotEntry, SlotKind, Loss
<1> HIDE DEF e
<1>2. u \in TableType /\ u.slots = (t.slots \ {w}) \cup {e}
  <2> DEFINE v == Replace(t, w, e)
  <2>1. /\ v \in TableType /\ v.slots = (t.slots \ {w}) \cup {e}
        /\ v.replacements_this_tick = 0
    BY <1>1 DEF TableOf, TableType, Replace
  <2> HIDE DEF v
  <2>2. Spent(v) \in TableType /\ Spent(v).slots = v.slots
    BY <2>1 DEF TableType, Spent
  <2> QED
    BY <2>1, <2>2 DEF v
<1>3. e \notin t.slots
  BY <1>1 DEF all_peers
<1>4. IsFiniteSet(u.slots) /\ Cardinality(u.slots) = max_greedy
  <2> DEFINE rest == t.slots \ {w}
  <2>1. IsFiniteSet(rest) /\ Cardinality(rest) = max_greedy - 1
    BY FS_RemoveElement DEF TableOf
  <2>2. e \notin rest /\ u.slots = rest \cup {e}
    BY <1>2, <1>3
  <2> HIDE DEF rest, u
  <2>3. IsFiniteSet(rest \cup {e}) /\ Cardinality(rest \cup {e}) = (max_greedy - 1) + 1
    BY <2>1, <2>2, FS_AddElement
  <2> QED
    BY <2>2, <2>3, GreedyAssumption
<1>5. \A s \in t.slots : s.peer_id \in NodeId /\ Distance[n][s.peer_id] \in Nat
  BY DistanceAssumption DEF TableOf, TableType, SlotEntry
<1>6. \A s \in u.slots : Distance[n][s.peer_id] < Distance[n][w.peer_id]
  <2>1. ASSUME NEW s \in t.slots, s # w PROVE Distance[n][s.peer_id] < Distance[n][w.peer_id]
    <3>1. s.peer_id # w.peer_id
      BY <2>1 DEF TableOf
    <3>2. Distance[n][s.peer_id] # Distance[n][w.peer_id]
      BY <1>5, <2>1, <3>1, DistanceAssumption
    <3> QED
      BY <1>5, <2>1, <3>2
  <2> QED
    BY <1>1, <1>2, <2>1
<1>7. ASSUME NEW q \in known \cup {p}
      PROVE  \/ q \in all_peers(u)
             \/ \A s \in u.slots : Distance[n][s.peer_id] < Distance[n][q]
  <2>1. CASE q = p
    BY <1>1, <1>2, <2>1 DEF all_peers
  <2>2. CASE q = w.peer_id
    BY <1>6, <2>2
  <2>3. CASE q # p /\ q # w.peer_id /\ q \in all_peers(t)
    BY <1>2, <2>3 DEF all_peers
  <2>4. CASE q # p /\ q \notin all_peers(t)
    <3>1. q \in NodeId /\ Distance[n][w.peer_id] < Distance[n][q]
      BY <1>7, <2>4 DEF TableOf
    <3>2. Distance[n][q] \in Nat
      BY <3>1, DistanceAssumption
    <3>3. \A s \in u.slots : Distance[n][s.peer_id] \in Nat
      BY <1>1, <1>2, <1>5, DistanceAssumption
    <3> QED
      BY <1>5, <1>6, <3>1, <3>2, <3>3
  <2> QED
    BY <2>1, <2>2, <2>3, <2>4
<1>8. all_peers(u) \subseteq known \cup {p}
  BY <1>1, <1>2 DEF TableOf, all_peers
<1>9. \A s \in u.slots : s = NewEntry("Greedy", s.peer_id, s.peer_id)
  BY <1>1, <1>2 DEF TableOf
<1>10. Cardinality(u.slots) <= max_greedy
  BY <1>4, GreedyAssumption
<1> HIDE DEF u
<1>11. TableOf(n, u, known \cup {p})
  BY <1>2, <1>4, <1>7, <1>8, <1>9, <1>10 DEF TableOf
<1> QED
  BY <1>11 DEF u, e

\* Hearing of one more peer, which do_introduce and handle_introduce do one peer at
\* a time, leaves the closest of all those heard of.
LEMMA RegisterKeeps ==
    ASSUME NEW n \in NodeId, NEW t, NEW known \in SUBSET NodeId, TableOf(n, t, known),
           NEW p \in NodeId
    PROVE  TableOf(n, Register(n, t, p), known \cup {p})
<1> DEFINE r == reset_tick(t)
           e == NewEntry("Greedy", p, p)
<1>1. r \in TableType /\ r.slots = t.slots /\ r.replacements_this_tick = 0
  BY DEF TableOf, TableType, reset_tick
<1>2. e.peer_id = p /\ e.referrer_id = p /\ e.kind = "Greedy"
  BY DEF NewEntry
<1> HIDE DEF r, e
<1>3. TableOf(n, r, known)
  BY <1>1 DEF TableOf, all_peers
<1>4. greedy_slots(r) = r.slots
  BY <1>3 DEF TableOf, greedy_slots, OfKind, NewEntry
<1>5. Cardinality(r.slots) \in Nat /\ IsFiniteSet(r.slots) /\ Cardinality(r.slots) <= max_greedy
  BY <1>3, FS_CardinalityType DEF TableOf
<1>6. Register(n, t, p) = try_insert(n, r, e)
  BY DEF Register, r, e
<1>7. CASE p \in all_peers(r)
  <2>1. try_insert(n, r, e) = r
    BY <1>2, <1>7 DEF try_insert
  <2> QED
    BY <1>3, <1>6, <1>7, <2>1 DEF TableOf
<1>8. CASE p \notin all_peers(r)
  <2>1. try_insert(n, r, e) = try_insert_greedy(n, r, e)
    BY <1>2, <1>8 DEF try_insert
  <2>2. ~referrer_quota_exceeded(r, p)
    <3>1. FromReferrer(r, p) = {}
      BY <1>3, <1>4, <1>8 DEF FromReferrer, TableOf, all_peers, NewEntry
    <3> QED
      BY <3>1, FS_EmptySet DEF referrer_quota_exceeded
  <2>3. CASE Cardinality(r.slots) < max_greedy
    <3>1. try_insert_greedy(n, r, e) = Push(r, e)
      BY <1>2, <1>4, <2>2, <2>3 DEF try_insert_greedy
    <3> QED
      BY <1>3, <1>6, <1>8, <2>1, <2>3, <3>1, FreeSlotTaken DEF e
  <2>4. CASE ~(Cardinality(r.slots) < max_greedy)
    <3> DEFINE w == WorstGreedy(n, r)
    <3>1. Cardinality(r.slots) = max_greedy /\ r.slots # {}
      BY <1>5, <2>4, GreedyAssumption, FS_EmptySet
    <3>2. w \in r.slots /\ \A s \in r.slots : Distance[n][s.peer_id] <= Distance[n][w.peer_id]
      <4>1. \A s \in r.slots : Distance[n][s.peer_id] \in Nat
        BY <1>1, DistanceAssumption DEF TableType, SlotEntry
      <4>2. \E s \in r.slots : \A other \in r.slots :
                Distance[n][other.peer_id] <= Distance[n][s.peer_id]
        BY <1>5, <3>1, <4>1, FarthestExists
      <4> QED
        BY <1>4, <4>2 DEF WorstGreedy
    <3>3. try_insert_greedy(n, r, e) =
             IF Distance[n][p] < Distance[n][w.peer_id] THEN Spent(Replace(r, w, e)) ELSE r
      BY <1>1, <1>2, <1>4, <2>2, <2>4 DEF try_insert_greedy
    <3> HIDE DEF w
    <3>4. CASE Distance[n][p] < Distance[n][w.peer_id]
      BY <1>1, <1>3, <1>6, <1>8, <2>1, <3>1, <3>2, <3>3, <3>4, FarthestGivesWay DEF e
    <3>5. CASE ~(Distance[n][p] < Distance[n][w.peer_id])
      <4>1. ASSUME NEW s \in r.slots PROVE Distance[n][s.peer_id] < Distance[n][p]
        <5>1. /\ s.peer_id \in NodeId /\ w.peer_id \in NodeId
              /\ Distance[n][s.peer_id] \in Nat /\ Distance[n][w.peer_id] \in Nat
              /\ Distance[n][p] \in Nat
          BY <1>1, <3>2, DistanceAssumption DEF TableType, SlotEntry
        <5>2. s.peer_id # p
          BY <1>8 DEF all_peers
        <5>3. Distance[n][s.peer_id] # Distance[n][p]
          BY <5>1, <5>2, DistanceAssumption
        <5> QED
          BY <3>2, <3>5, <5>1, <5>3
      <4> QED
        BY <1>3, <1>6, <2>1, <3>1, <3>3, <3>5, <4>1 DEF TableOf
    <3> QED
      BY <3>4, <3>5
  <2> QED
    BY <2>3, <2>4
<1> QED
  BY <1>7, <1>8

\* The same for the i-th neighbour of an answer, if there is one.
LEMMA RegisterAtKeeps ==
    ASSUME NEW n \in NodeId, NEW t, NEW known \in SUBSET NodeId, TableOf(n, t, known),
           NEW list \in Seq(NodeId), NEW i \in Nat \ {0}
    PROVE  TableOf(n, RegisterAt(n, t, list, i), known \cup {list[j] : j \in DOMAIN list \cap {i}})
<1>1. Len(list) \in Nat /\ DOMAIN list = 1..Len(list)
  OBVIOUS
<1>2. CASE i <= Len(list)
  <2>1. i \in DOMAIN list /\ list[i] \in NodeId
    BY <1>1, <1>2
  <2>2. {list[j] : j \in DOMAIN list \cap {i}} = {list[i]}
    BY <2>1
  <2> QED
    BY <1>2, <2>1, <2>2, RegisterKeeps DEF RegisterAt
<1>3. CASE ~(i <= Len(list))
  <2>1. DOMAIN list \cap {i} = {}
    BY <1>1, <1>3
  <2>2. known \cup {list[j] : j \in DOMAIN list \cap {i}} = known
    BY <2>1
  <2> QED
    BY <1>3, <2>2 DEF RegisterAt
<1> QED
  BY <1>2, <1>3

\* An answer names at most three nodes.
LEMMA AnswerIsShort ==
    ASSUME NEW t \in TableType, IsFiniteSet(t.slots), NEW urls,
           NEW peers \in FirstThree(t), NEW list \in Listings(peers \cap urls)
    PROVE  list \in Seq(NodeId) /\ Len(list) <= 3
<1>1. peers \subseteq NodeId /\ peers \subseteq all_peers(t)
  BY DEF FirstThree, all_peers, TableType, SlotEntry
<1>2. IsFiniteSet(all_peers(t))
  <2> DEFINE peer == [s \in t.slots |-> s.peer_id]
  <2>1. peer \in Surjection(t.slots, all_peers(t))
    BY DEF Surjection, all_peers
  <2> QED
    BY <2>1, FS_Surjection
<1>3. IsFiniteSet(peers) /\ Cardinality(t.slots) \in Nat
  BY <1>1, <1>2, FS_Subset, FS_CardinalityType
<1>4. Cardinality(peers) \in Nat /\ Cardinality(peers) <= 3
  BY <1>3, FS_CardinalityType DEF FirstThree
<1> DEFINE kept == peers \cap urls
<1>5. kept \subseteq NodeId /\ Cardinality(kept) \in Nat /\ Cardinality(kept) <= Cardinality(peers)
  BY <1>1, <1>3, FS_Subset, FS_CardinalityType
<1>6. list \in [1..Cardinality(kept) -> kept]
  BY DEF Listings
<1> HIDE DEF kept
<1>7. list \in Seq(NodeId) /\ Len(list) = Cardinality(kept)
  BY <1>5, <1>6
<1> QED
  BY <1>4, <1>5, <1>7

\* A step that changes one node's table and URLs, and one node's call.
LEMMA OneNodeChanges ==
    ASSUME IInv, NEW m \in NodeId, NEW n \in NodeId,
           NEW t, NEW known \in SUBSET NodeId, TableOf(m, t, known),
           tables' = [tables EXCEPT ![m] = t], peer_urls' = [peer_urls EXCEPT ![m] = known],
           DOMAIN todo' = NodeId, DOMAIN call' = NodeId, CallOK(n)',
           \A x \in NodeId \ {n} : todo'[x] = todo[x] /\ call'[x] = call[x]
    PROVE  IInv'
<1>1. tables' \in [NodeId -> TableType] /\ peer_urls' \in [NodeId -> SUBSET NodeId]
  BY DEF IInv, TableOf
<1>2. ASSUME NEW x \in NodeId PROVE TableOf(x, tables'[x], peer_urls'[x])
  BY DEF IInv
<1>3. ASSUME NEW x \in NodeId PROVE CallOK(x)'
  BY DEF IInv, CallOK
<1> QED
  BY <1>1, <1>2, <1>3 DEF IInv

\* handle_introduce at m, called by n.
LEMMA HandleKeeps ==
    ASSUME IInv, NEW n \in NodeId, NEW m \in NodeId, handle_introduce(n, m)
    PROVE  IInv'
<1> DEFINE t == Register(m, tables[m], n)
           known == peer_urls[m] \cup {n}
<1>1. /\ tables' = [tables EXCEPT ![m] = t] /\ peer_urls' = [peer_urls EXCEPT ![m] = known]
      /\ call[n].state = "sent" /\ m = Head(todo[n]) /\ todo' = todo
  BY DEF handle_introduce
<1>2a. PICK peers \in FirstThree(tables'[m]) :
           \E list \in Listings(peers \cap peer_urls'[m]) :
               call' = [call EXCEPT ![n] = Answered(list)]
  BY DEF handle_introduce
<1>2. PICK list \in Listings(peers \cap peer_urls'[m]) :
          call' = [call EXCEPT ![n] = Answered(list)]
  BY <1>2a
<1>3. peer_urls[m] \in SUBSET NodeId /\ known \in SUBSET NodeId /\ TableOf(m, tables[m], peer_urls[m])
  BY DEF IInv
<1>4. TableOf(m, t, known)
  BY <1>3, RegisterKeeps
<1> HIDE DEF t, known
<1>5. tables'[m] = t
  BY <1>1 DEF IInv
<1>6. list \in Seq(NodeId) /\ Len(list) <= 3
  <2>1. t \in TableType /\ IsFiniteSet(t.slots)
    BY <1>4 DEF TableOf
  <2> QED
    BY <1>5, <2>1, AnswerIsShort
<1>7. DOMAIN todo' = NodeId /\ DOMAIN call' = NodeId /\ call'[n] = Answered(list)
      /\ \A x \in NodeId \ {n} : todo'[x] = todo[x] /\ call'[x] = call[x]
  BY <1>1, <1>2 DEF IInv
<1>8. CallOK(n)'
  <2>1. todo[n] # << >>
    BY <1>1 DEF IInv, CallOK
  <2>2. call'[n].neighbors = list
    BY <1>7 DEF Answered
  <2> QED
    BY <1>1, <1>6, <2>1, <2>2 DEF CallOK
<1> QED
  BY <1>1, <1>3, <1>4, <1>7, <1>8, OneNodeChanges

\* do_introduce: the callee and up to three neighbours, one after the other.
LEMMA DoIntroduceKeeps ==
    ASSUME IInv, NEW n \in NodeId, do_introduce(n)
    PROVE  IInv'
<1> DEFINE target == Head(todo[n])
           list == call[n].neighbors
           t1 == Register(n, tables[n], target)
           t2 == RegisterAt(n, t1, list, 1)
           t3 == RegisterAt(n, t2, list, 2)
           t4 == RegisterAt(n, t3, list, 3)
           k1 == peer_urls[n] \cup {target}
           k2 == k1 \cup {list[j] : j \in DOMAIN list \cap {1}}
           k3 == k2 \cup {list[j] : j \in DOMAIN list \cap {2}}
           k4 == k3 \cup {list[j] : j \in DOMAIN list \cap {3}}
<1>1. /\ tables' = [tables EXCEPT ![n] = t4]
      /\ peer_urls' = [peer_urls EXCEPT ![n] = k1 \cup {list[i] : i \in DOMAIN list}]
      /\ call' = [call EXCEPT ![n] = NoCall] /\ call[n].state = "answered"
      /\ todo' = todo \/ todo' = [todo EXCEPT ![n] = Tail(@)]
  BY DEF do_introduce, RetryOrProceed, Proceed
<1>2. /\ peer_urls[n] \in SUBSET NodeId /\ TableOf(n, tables[n], peer_urls[n])
      /\ target \in NodeId /\ list \in Seq(NodeId) /\ Len(list) <= 3
  BY <1>1 DEF IInv, CallOK
<1> HIDE DEF target, list
<1>3. \A j \in DOMAIN list : j \in {1, 2, 3} /\ list[j] \in NodeId
  BY <1>2
<1>4. k1 \cup {list[i] : i \in DOMAIN list} = k4
  BY <1>3
<1>5. k1 \in SUBSET NodeId /\ k2 \in SUBSET NodeId /\ k3 \in SUBSET NodeId /\ k4 \in SUBSET NodeId
  BY <1>2, <1>3
<1>6. TableOf(n, t1, k1)
  BY <1>2, RegisterKeeps
<1> HIDE DEF t1, k1
<1>7. TableOf(n, t2, k2)
  BY <1>2, <1>5, <1>6, RegisterAtKeeps
<1> HIDE DEF t2, k2
<1>8. TableOf(n, t3, k3)
  BY <1>2, <1>5, <1>7, RegisterAtKeeps
<1> HIDE DEF t3, k3
<1>9. TableOf(n, t4, k4)
  BY <1>2, <1>5, <1>8, RegisterAtKeeps
<1> HIDE DEF t4, k4
<1>10. DOMAIN todo' = NodeId /\ DOMAIN call' = NodeId /\ call'[n] = NoCall
       /\ \A x \in NodeId \ {n} : todo'[x] = todo[x] /\ call'[x] = call[x]
  BY <1>1 DEF IInv
<1>11. CallOK(n)'
  BY <1>10 DEF CallOK, NoCall
<1> QED
  BY <1>1, <1>4, <1>5, <1>9, <1>10, <1>11, OneNodeChanges

\* The steps that leave tables and URLs alone.
LEMMA LocalStepKeeps ==
    ASSUME IInv, NEW n \in NodeId,
           \/ send_introduce(n) \/ fail_introduce(n) \/ start_round2(n) \/ listen(n)
    PROVE  IInv'
<1>1. UNCHANGED <<tables, peer_urls>>
  BY DEF send_introduce, fail_introduce, start_round2, listen
<1>2. /\ tables' = [tables EXCEPT ![n] = tables[n]]
      /\ peer_urls' = [peer_urls EXCEPT ![n] = peer_urls[n]]
      /\ peer_urls[n] \in SUBSET NodeId /\ TableOf(n, tables[n], peer_urls[n])
  BY <1>1 DEF IInv
<1>3. DOMAIN todo' = NodeId /\ DOMAIN call' = NodeId
      /\ \A x \in NodeId \ {n} : todo'[x] = todo[x] /\ call'[x] = call[x]
  BY DEF IInv, send_introduce, fail_introduce, start_round2, listen, RetryOrProceed, Proceed
<1>4. CallOK(n)'
  <2>1. CASE send_introduce(n)
    BY <2>1 DEF send_introduce, IInv, CallOK, SentCall
  <2>2. CASE fail_introduce(n)
    BY <2>2 DEF fail_introduce, IInv, CallOK, NoCall
  <2>3. CASE start_round2(n)
    BY <2>3 DEF start_round2, IInv, CallOK
  <2>4. CASE listen(n)
    BY <2>4 DEF listen, IInv, CallOK
  <2> QED
    BY <2>1, <2>2, <2>3, <2>4
<1> QED
  BY <1>2, <1>3, <1>4, OneNodeChanges

\* A node that was told of nothing.
LEMMA EmptyTableOf ==
    ASSUME NEW n \in NodeId PROVE TableOf(n, NewTable, {})
<1>1. NewTable \in TableType /\ NewTable.slots = {}
  BY DEF NewTable, TableType
<1> HIDE DEF NewTable
<1>2. IsFiniteSet(NewTable.slots) /\ Cardinality(NewTable.slots) = 0
  BY <1>1, FS_EmptySet
<1> QED
  BY <1>1, <1>2, GreedyAssumption DEF TableOf, all_peers

\* A crash leaves an empty table and no call.
LEMMA CrashKeeps ==
    ASSUME IInv, NEW n \in NodeId, crash(n) PROVE IInv'
<1>1. /\ tables' = [tables EXCEPT ![n] = NewTable]
      /\ peer_urls' = [peer_urls EXCEPT ![n] = {}]
  BY DEF crash
<1>2. DOMAIN todo' = NodeId /\ DOMAIN call' = NodeId /\ call'[n] = NoCall
      /\ \A x \in NodeId \ {n} : todo'[x] = todo[x] /\ call'[x] = call[x]
  BY DEF IInv, crash
<1>3. CallOK(n)'
  BY <1>2 DEF CallOK, NoCall
<1> QED
  BY <1>1, <1>2, <1>3, EmptyTableOf, OneNodeChanges

\* Every step keeps the invariant.
LEMMA IntroductionsKeep == IInv /\ [IntroNext]_introVars => IInv'
<1>1. ASSUME IInv, UNCHANGED introVars PROVE IInv'
  BY <1>1 DEF introVars, IInv, CallOK
<1>2. ASSUME IInv, NEW n \in NodeId, Step(n) \/ crash(n) PROVE IInv'
  BY <1>2, HandleKeeps, DoIntroduceKeeps, LocalStepKeeps, CrashKeeps DEF Step
<1> QED
  BY <1>1, <1>2 DEF IntroNext

\* Nodes start with nothing but their seeds.
LEMMA IntroductionsStart == IntroInit => IInv
<1> SUFFICES ASSUME IntroInit PROVE IInv
  OBVIOUS
<1>1. /\ DOMAIN todo = NodeId /\ DOMAIN call = NodeId
      /\ tables \in [NodeId -> TableType] /\ peer_urls \in [NodeId -> SUBSET NodeId]
  BY SeedsAssumption DEF IntroInit, NewTable, TableType
<1>2. ASSUME NEW n \in NodeId PROVE TableOf(n, tables[n], peer_urls[n])
  BY EmptyTableOf DEF IntroInit
<1>3. ASSUME NEW n \in NodeId PROVE CallOK(n)
  BY DEF IntroInit, CallOK, NoCall
<1> QED
  BY <1>1, <1>2, <1>3 DEF IInv

\* Whatever peers a node hears of, in whatever order, by its own introductions, by
\* those of others and through crashes, its table holds the closest of them.
THEOREM ClosestAreKept == IntroSpec => []KeepsClosest
<1>1. IInv => KeepsClosest
  BY DEF IInv, TableOf, KeepsClosest
<1> QED
  BY <1>1, IntroductionsStart, IntroductionsKeep, PTL DEF IntroSpec

\* A node holds the URL of every peer in its table.
THEOREM SlotsHaveUrls == IntroSpec => []EverySlotHasUrl
<1>1. IInv => EverySlotHasUrl
  BY DEF IInv, TableOf, EverySlotHasUrl
<1> QED
  BY <1>1, IntroductionsStart, IntroductionsKeep, PTL DEF IntroSpec
================================================================================
