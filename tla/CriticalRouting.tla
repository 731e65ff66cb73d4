--------------------------- MODULE CriticalRouting ----------------------------
(***************************************************************************)
(* Critical messages (zona-p2p-overlay/src/routing/critical.rs): the       *)
(* sender's two first hops and the receiver's QuorumTracker.  The tracker's*)
(* HashMap is a set with one entry per message_id.                         *)
(***************************************************************************)
EXTENDS XorRouting

\* The pairs that pick_fork_hops may return, for some order of the slots.
Diverse(t) ==
    {hops \in NodeId \X NodeId :
        \E g \in greedy_slots(t) \cap Alive(t), d \in OfKind(t, "Diversity") :
            g.referrer_id # d.referrer_id /\ hops = <<g.peer_id, d.peer_id>>}

WithLongJump(t) ==
    {hops \in NodeId \X NodeId :
        \E g \in greedy_slots(t) \cap Alive(t), l \in OfKind(t, "LongJump") :
            hops = <<g.peer_id, l.peer_id>>}

AnyTwo(t) ==
    {hops \in NodeId \X NodeId :
        \E s, u \in Alive(t) : s # u /\ hops = <<s.peer_id, u.peer_id>>}

pick_fork_hops(t) ==
    IF Diverse(t) # {} THEN Diverse(t)
    ELSE IF WithLongJump(t) # {} THEN WithLongJump(t)
    ELSE AnyTwo(t)

\* The entry that record works on: the message's, or a new one.
EntryOf(pending, id, payload) ==
    IF \E e \in pending : e.message_id = id
      THEN CHOOSE e \in pending : e.message_id = id
      ELSE [message_id |-> id, payload |-> payload, matches |-> 0, mismatch |-> FALSE]

Mismatched(pending, id, payload) ==
    LET e == EntryOf(pending, id, payload) IN e.mismatch \/ e.payload # payload

QuorumResult(pending, id, payload) ==
    IF Mismatched(pending, id, payload) THEN "Inconsistent"
    ELSE IF EntryOf(pending, id, payload).matches + 1 >= 2 THEN "Accepted"
    ELSE "Pending"

\* The entries after QuorumTracker::record.
record(pending, id, payload) ==
    LET e == EntryOf(pending, id, payload)
    IN  (pending \ {e}) \cup
            CASE QuorumResult(pending, id, payload) = "Inconsistent" ->
                     {[e EXCEPT !.mismatch = TRUE]}
              [] QuorumResult(pending, id, payload) = "Accepted" -> {}
              [] QuorumResult(pending, id, payload) = "Pending" ->
                     {[e EXCEPT !.matches = @ + 1]}
==============================================================================
