------------------------------ MODULE PeerTable ------------------------------
(***************************************************************************)
(* One routing table under every sequence of calls to its interface: the   *)
(* three kinds of insertion, peer exchange, probes, eviction and the       *)
(* stabilisation tick.                                                     *)
(***************************************************************************)
EXTENDS Slots

CONSTANTS
    self,       \* the owner of the table
    Referrers,  \* who recommends peers
    PexLists    \* candidate lists a peer may answer with: [peer, referrer]

\* The owner and those who recommend peers are nodes, and a peer list is a sequence
\* of recommendations.
ASSUME TableAssumption ==
    /\ self \in NodeId
    /\ Referrers \subseteq NodeId
    /\ PexLists \subseteq Seq([peer : NodeId, referrer : NodeId])

VARIABLES
    one_table,  \* the table
    displaced   \* history: greedy and diversity peers displaced this tick

tableVars == <<one_table, displaced>>

TableInit == one_table = NewTable /\ displaced = {}

\* The greedy and diversity peers that t loses when it becomes u.
Lost(t, u) ==
    {s.peer_id : s \in {x \in t.slots : x.kind # "LongJump"}}
        \ {s.peer_id : s \in {x \in u.slots : x.kind # "LongJump"}}

Update(t) == one_table' = t /\ displaced' = displaced \cup Lost(one_table, t)

Insert(kind, peer, referrer) ==
    Update(try_insert(self, one_table, NewEntry(kind, peer, referrer)))

PeerExchange(list) == Update(apply_candidates(self, one_table, list))

ResetTick ==
    /\ one_table' = reset_tick(one_table)
    /\ displaced' = {}

Probe(s, success) ==
    \E loss \in record_probe(s.ewma_loss, success) :
        /\ one_table' = [one_table EXCEPT !.slots =
                        (@ \ {s}) \cup {[s EXCEPT !.ewma_loss = loss]}]
        /\ UNCHANGED displaced

EvictDead == one_table' = evict_dead(one_table) /\ UNCHANGED displaced

TableNext ==
    \/ \E kind \in SlotKind, peer \in NodeId, referrer \in Referrers :
          Insert(kind, peer, referrer)
    \/ \E list \in PexLists : PeerExchange(list)
    \/ ResetTick
    \/ \E s \in one_table.slots, success \in BOOLEAN : Probe(s, success)
    \/ EvictDead

TableSpec == TableInit /\ [][TableNext]_tableVars

-----------------------------------------------------------------------------
(***************************************************************************)
(* Properties.                                                             *)
(***************************************************************************)

\* One slot per peer, whatever kinds it was offered under, at most max_greedy
\* G-slots, one L-slot, one D-slot, and two G-slots per referrer: a replacement
\* must not trade one bound for another.  `Maximum 5 permanent slots' (slots.rs)
\* follows for up to three G-slots only: the L-slot and the D-slot are refused in a
\* full table, G-slots are not, so the five of the deployed nodes can make seven.
QuotasHold ==
    /\ \A s, u \in one_table.slots : s.peer_id = u.peer_id => s = u
    /\ Cardinality(greedy_slots(one_table)) <= max_greedy
    /\ Cardinality(OfKind(one_table, "LongJump")) <= 1
    /\ Cardinality(OfKind(one_table, "Diversity")) <= 1
    /\ \A r \in Referrers : Cardinality(FromReferrer(one_table, r)) <= 2
    /\ max_greedy <= 3 => Cardinality(one_table.slots) <= MAX_TOTAL

\* `Diversity: must have a different referrer_id than all G-slots' (slots.rs): the
\* code compares the referrers when the D-slot is filled, never when a G-slot is.
DiversityStaysDiverse ==
    \A d \in OfKind(one_table, "Diversity"), g \in greedy_slots(one_table) :
        d.referrer_id # g.referrer_id

\* Between two ticks insertions displace at most one greedy or diversity peer,
\* though a peer exchange inserts up to three candidates in one call.
OneReplacementPerTick == Cardinality(displaced) <= 1

\* Insertions never cost the table its closest greedy peer: the distance of the
\* best one can grow only when evict_dead removes it.
Closest(t, d) == \E s \in greedy_slots(t) : Distance[self][s.peer_id] <= d
ClosestSurvives ==
    [][\A s \in greedy_slots(one_table) :
          should_evict(s) \/ Closest(one_table', Distance[self][s.peer_id])]_tableVars

\* `Healthy: >= 2 live greedy slots with distinct referrer_ids' (recovery.rs):
\* the code counts the live slots, but the referrers of the dead ones too.
HealthyHasTwoReferrers ==
    evaluate_recovery(one_table) = "Healthy" =>
        \E s, u \in {x \in greedy_slots(one_table) : ~should_evict(x)} :
            s.referrer_id # u.referrer_id
==============================================================================
