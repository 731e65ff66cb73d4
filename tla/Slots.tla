-------------------------------- MODULE Slots --------------------------------
(***************************************************************************)
(* The routing table of a node (zona-p2p-types/src/slots.rs) as operators  *)
(* on a table value, shared by the modules that keep tables.               *)
(*                                                                         *)
(* Data abstraction.  The Vec of slots is a set: its order decides only    *)
(* which entries a bounded answer takes first, and that is a choice where  *)
(* it is used.  The EWMA loss in [0, 1] is one of three levels, cut at     *)
(* is_degraded (0.6) and should_evict (0.85); score is never read.         *)
(***************************************************************************)
EXTENDS Naturals, FiniteSets, Sequences

CONSTANTS
    NodeId,      \* node identities
    Distance,    \* Distance[a][b]: the XOR of two identities, as a number
    max_greedy   \* number of G-slots of a table

ASSUME DistanceAssumption ==
    /\ Distance \in [NodeId -> [NodeId -> Nat]]
    /\ \A a, b, c \in NodeId : Distance[a][b] = Distance[a][c] => b = c
    /\ \A a \in NodeId : Distance[a][a] = 0

ASSUME GreedyAssumption == max_greedy \in Nat \ {0}

MAX_TOTAL == 5

SlotKind == {"Greedy", "LongJump", "Diversity"}
Loss == {"low", "degraded", "evict"}

SlotEntry == [kind : SlotKind, peer_id : NodeId, referrer_id : NodeId, ewma_loss : Loss]

NewEntry(kind, peer, referrer) ==
    [kind |-> kind, peer_id |-> peer, referrer_id |-> referrer, ewma_loss |-> "low"]

\* What one probe can make of a loss: loss' = 0.2 * fail + 0.8 * loss.
record_probe(loss, success) ==
    CASE success /\ loss = "low"       -> {"low"}
      [] success /\ loss = "degraded"  -> {"low", "degraded"}
      [] success /\ loss = "evict"     -> {"degraded"}
      [] ~success /\ loss = "low"      -> {"low", "degraded"}
      [] ~success /\ loss = "degraded" -> {"degraded", "evict"}
      [] ~success /\ loss = "evict"    -> {"evict"}

should_evict(s) == s.ewma_loss = "evict"

TableType == [slots : SUBSET SlotEntry, replacements_this_tick : 0..1]

NewTable == [slots |-> {}, replacements_this_tick |-> 0]

reset_tick(t) == [t EXCEPT !.replacements_this_tick = 0]

OfKind(t, kind) == {s \in t.slots : s.kind = kind}
greedy_slots(t) == OfKind(t, "Greedy")
all_peers(t) == {s.peer_id : s \in t.slots}
greedy_referrers(t) == {s.referrer_id : s \in greedy_slots(t)}

\* The lists of some peers, in any order.
Listings(peers) ==
    {list \in [1..Cardinality(peers) -> peers] :
        \A i, j \in DOMAIN list : list[i] = list[j] => i = j}

FromReferrer(t, referrer) == {s \in greedy_slots(t) : s.referrer_id = referrer}
referrer_quota_exceeded(t, referrer) ==
    Cardinality(FromReferrer(t, referrer)) >= 2

\* The greedy slot farthest from the table's owner.
WorstGreedy(self, t) ==
    CHOOSE s \in greedy_slots(t) : \A other \in greedy_slots(t) :
        Distance[self][other.peer_id] <= Distance[self][s.peer_id]

Push(t, e) == [t EXCEPT !.slots = @ \cup {e}]
Replace(t, old, e) == [t EXCEPT !.slots = (@ \ {old}) \cup {e}]
Spent(t) == [t EXCEPT !.replacements_this_tick = @ + 1]

\* Mutant: the quota of two G-slots per referrer is not enforced.
InsertGreedyAnyReferrer(self, t, e) ==
    IF Cardinality(greedy_slots(t)) < max_greedy THEN Push(t, e)
    ELSE IF /\ t.replacements_this_tick < 1
            /\ Distance[self][e.peer_id]
                  < Distance[self][WorstGreedy(self, t).peer_id]
           THEN Spent(Replace(t, WorstGreedy(self, t), e))
           ELSE t

\* Mutant: the closest slot gives way instead of the worst one.
InsertGreedyForClosest(self, t, e) ==
    LET best == CHOOSE s \in greedy_slots(t) : \A other \in greedy_slots(t) :
                    Distance[self][s.peer_id] <= Distance[self][other.peer_id]
    IN  IF referrer_quota_exceeded(t, e.referrer_id) THEN t
        ELSE IF Cardinality(greedy_slots(t)) < max_greedy THEN Push(t, e)
        ELSE IF /\ t.replacements_this_tick < 1
                /\ Distance[self][e.peer_id]
                      < Distance[self][WorstGreedy(self, t).peer_id]
               THEN Spent(Replace(t, best, e))
               ELSE t

try_insert_greedy(self, t, e) ==
    IF referrer_quota_exceeded(t, e.referrer_id) THEN t
    ELSE IF Cardinality(greedy_slots(t)) < max_greedy THEN Push(t, e)
    ELSE IF /\ t.replacements_this_tick < 1
            /\ Distance[self][e.peer_id]
                  < Distance[self][WorstGreedy(self, t).peer_id]
           THEN Spent(Replace(t, WorstGreedy(self, t), e))
           ELSE t

\* The L-slot is overwritten whatever the tick; when there is none and the
\* table is full the entry is dropped (and the call still returns true).
try_insert_longjump(t, e) ==
    IF OfKind(t, "LongJump") # {}
      THEN Replace(t, CHOOSE s \in OfKind(t, "LongJump") : TRUE, e)
    ELSE IF Cardinality(t.slots) < MAX_TOTAL THEN Push(t, e)
    ELSE t

\* Mutant: a replacement of the D-slot is not counted.
InsertDiversityUncounted(t, e) ==
    IF e.referrer_id \in greedy_referrers(t) \/ t.replacements_this_tick >= 1
      THEN t
    ELSE IF OfKind(t, "Diversity") # {}
      THEN Replace(t, CHOOSE s \in OfKind(t, "Diversity") : TRUE, e)
    ELSE IF Cardinality(t.slots) < MAX_TOTAL THEN Spent(Push(t, e))
    ELSE t

try_insert_diversity(t, e) ==
    IF e.referrer_id \in greedy_referrers(t) \/ t.replacements_this_tick >= 1
      THEN t
    ELSE IF OfKind(t, "Diversity") # {}
      THEN Spent(Replace(t, CHOOSE s \in OfKind(t, "Diversity") : TRUE, e))
    ELSE IF Cardinality(t.slots) < MAX_TOTAL THEN Spent(Push(t, e))
    ELSE t

try_insert(self, t, e) ==
    CASE e.peer_id \in all_peers(t) -> t
      [] e.peer_id \notin all_peers(t) /\ e.kind = "Greedy" ->
            try_insert_greedy(self, t, e)
      [] e.peer_id \notin all_peers(t) /\ e.kind = "LongJump" ->
            try_insert_longjump(t, e)
      [] e.peer_id \notin all_peers(t) /\ e.kind = "Diversity" ->
            try_insert_diversity(t, e)

\* Peer exchange (overlay/src/peers/pex.rs): classify_candidate and the insertion
\* of one candidate; the node itself is skipped.
Candidate(self, t, c) ==
    IF c.peer = self THEN t
    ELSE try_insert(self, t,
           NewEntry(IF c.referrer \in greedy_referrers(t) THEN "Greedy"
                                                          ELSE "Diversity",
                    c.peer, c.referrer))

PEX_Q == 3
CandidateAt(self, t, list, i) ==
    IF i <= Len(list) THEN Candidate(self, t, list[i]) ELSE t

\* The first PEX_Q candidates, one after the other.
apply_candidates(self, t, list) ==
    CandidateAt(self,
        CandidateAt(self, CandidateAt(self, t, list, 1), list, 2), list, 3)

evict_dead(t) == [t EXCEPT !.slots = {s \in @ : ~should_evict(s)}]

\* Fewer than two G-slots that are alive.
in_recovery(t) == Cardinality({s \in greedy_slots(t) : ~should_evict(s)}) < 2

\* evaluate_recovery: neighbouring equal referrers are merged and fewer than
\* two must remain, that is, all G-slots share one referrer.
evaluate_recovery(t) ==
    IF in_recovery(t) \/ Cardinality(greedy_referrers(t)) < 2
      THEN "Recovery" ELSE "Healthy"
==============================================================================
