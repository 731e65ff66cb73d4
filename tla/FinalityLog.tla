----------------------------- MODULE FinalityLog -----------------------------
(***************************************************************************)
(* What the BFT layer promises its users, without validators, epochs,      *)
(* certificates or channels: a log with at most one block per height, and  *)
(* readers whose head only moves up, to decided blocks, until they leave.  *)
(***************************************************************************)
EXTENDS Naturals

CONSTANTS
    Height,        \* heights of the log
    Hash,          \* blocks
    GenesisHash,   \* the block of height 0
    Readers        \* full nodes and light clients

VARIABLES
    decided,       \* decided[h]: {} or the singleton of the block of height h
    head           \* head[r]: height and block of the reader's head, for the
                   \* readers that follow the log

logVars == <<decided, head>>

Init ==
    /\ decided = [h \in Height |-> {}]
    /\ head = [r \in Readers |-> <<0, GenesisHash>>]

Decide(h, x) ==
    /\ UNCHANGED head
    /\ decided[h] = {}
    /\ decided' = [decided EXCEPT ![h] = {x}]

Advance(r, h) ==
    /\ r \in DOMAIN head
    /\ h > head[r][1]
    /\ \E x \in decided[h] : head' = [head EXCEPT ![r] = <<h, x>>]
    /\ UNCHANGED decided

\* The reader was given a validator set that the log does not commit to: what
\* it reads from now on is not promised.
Leave(r) ==
    /\ r \in DOMAIN head
    /\ head' = [s \in DOMAIN head \ {r} |-> head[s]]
    /\ UNCHANGED decided

Next ==
    \/ \E h \in Height, x \in Hash : Decide(h, x)
    \/ \E r \in Readers, h \in Height : Advance(r, h)
    \/ \E r \in Readers : Leave(r)

Spec == Init /\ [][Next]_logVars
==============================================================================
