---------------------------- MODULE VerifyQuorum -----------------------------
(***************************************************************************)
(* ValidatorSet::verify_quorum as the code runs it: a loop over a list of  *)
(* signatures, against a list of entries, with u64 sums that wrap.  Module *)
(* ValidatorSets has the set-level definition of the same check; the       *)
(* property says when the two agree.                                       *)
(***************************************************************************)
EXTENDS ValidatorSets, Sequences

CONSTANTS
    EntryLists,    \* the validator lists tried: sequences of [node_id, weight]
    MaxSignatures, \* bound on the length of the signature list
    Modulus        \* 2^64 in the code

ValidatorEntry == [node_id : NodeId, weight : 0..MaxWeight]
Signature == [signer : NodeId, good : BOOLEAN]

ASSUME EntryListsAssumption == EntryLists \subseteq Seq(ValidatorEntry)
ASSUME MaxSignaturesAssumption == MaxSignatures \in Nat
ASSUME ModulusAssumption == Modulus \in Nat \ {0, 1}

VARIABLES
    entries,             \* Vec<ValidatorEntry>, fixed
    signatures,          \* the list: signer and whether its signature verifies
    position,            \* next position of the loop
    seen, weight_accumulated,
    summed, total,       \* entries that total_weight has added up, and their sum
    result               \* "running", "Ok" or the error

loopVars == <<entries, signatures, position, seen, weight_accumulated,
              summed, total, result>>

Wrap(x) == x % Modulus

list_quorum_threshold == Wrap(Wrap(2 * total) \div 3 + 1)

\* The positions of the entries of a node; get takes the first.
Positions(v) == {k \in DOMAIN entries : entries[k].node_id = v}
get(v) ==
    entries[CHOOSE k \in Positions(v) : \A m \in Positions(v) : k <= m]

LoopInit ==
    /\ entries \in EntryLists
    /\ signatures \in UNION {[1..len -> Signature] : len \in 0..MaxSignatures}
    /\ position = 1
    /\ seen = {}
    /\ weight_accumulated = 0
    /\ summed = 0
    /\ total = 0
    /\ result = "running"

Running == result = "running" /\ position <= Len(signatures)
signer == signatures[position].signer

SkipDuplicate ==
    /\ Running
    /\ signer \in seen
    /\ position' = position + 1
    /\ UNCHANGED <<entries, signatures, seen, weight_accumulated, summed, total, result>>

\* Mutant: a signer counts as often as it appears.
CountEverySignature ==
    /\ Running
    /\ Positions(signer) # {}
    /\ signatures[position].good
    /\ seen' = seen \cup {signer}
    /\ weight_accumulated' = Wrap(weight_accumulated + get(signer).weight)
    /\ position' = position + 1
    /\ UNCHANGED <<entries, signatures, summed, total, result>>

CountSigner ==
    /\ Running
    /\ signer \notin seen
    /\ Positions(signer) # {}
    /\ signatures[position].good
    /\ seen' = seen \cup {signer}
    /\ weight_accumulated' = Wrap(weight_accumulated + get(signer).weight)
    /\ position' = position + 1
    /\ UNCHANGED <<entries, signatures, summed, total, result>>

RejectSigner ==
    /\ Running
    /\ signer \notin seen
    /\ Positions(signer) = {} \/ ~signatures[position].good
    /\ result' = IF Positions(signer) = {} THEN "UnknownValidator"
                                           ELSE "InvalidSignature"
    /\ seen' = seen \cup {signer}
    /\ UNCHANGED <<entries, signatures, position, weight_accumulated, summed, total>>

\* total_weight, called once the signatures are through: every entry of the list
\* counts, the duplicates of a node too.
AddWeight ==
    /\ result = "running"
    /\ position > Len(signatures)
    /\ summed < Len(entries)
    /\ summed' = summed + 1
    /\ total' = Wrap(total + entries[summed + 1].weight)
    /\ UNCHANGED <<entries, signatures, position, seen, weight_accumulated, result>>

Conclude ==
    /\ result = "running"
    /\ position > Len(signatures)
    /\ summed = Len(entries)
    /\ result' = IF weight_accumulated < list_quorum_threshold
                   THEN "InsufficientQuorum" ELSE "Ok"
    /\ UNCHANGED <<entries, signatures, position, seen, weight_accumulated, summed, total>>

LoopNext ==
    SkipDuplicate \/ CountSigner \/ RejectSigner \/ AddWeight \/ Conclude

LoopSpec == LoopInit /\ [][LoopNext]_loopVars

-----------------------------------------------------------------------------
\* The weight units of the first len entries, and the sum of the whole list
\* without wrapping; the u64 sums are exact when twice that sum fits.
Listed(len) == {u \in (1..len) \X (1..MaxWeight) : u[2] <= entries[u[1]].weight}
TrueTotal == Cardinality(Listed(Len(entries)))
Fits == 2 * TrueTotal < Modulus

Distinct ==
    \A k, m \in DOMAIN entries :
        entries[k].node_id = entries[m].node_id => k = m

\* The validator set of a list: for each node that it names, what get finds.
AsSet ==
    NewSet(0, [v \in {entries[k].node_id : k \in DOMAIN entries} |->
                  get(v).weight])

Claimed == {signatures[k].signer : k \in DOMAIN signatures}
\* A signature that the loop looks at is the first of its signer.
IsFirst(k) == \A m \in 1..(k - 1) : signatures[m].signer # signatures[k].signer
Genuine == {v \in Claimed : \E k \in DOMAIN signatures :
                /\ signatures[k].signer = v
                /\ IsFirst(k)
                /\ signatures[k].good}

\* The loop over the signature list, with its deduplication and its early
\* returns, decides exactly the quorum rule on the set of the signers.  Even with a
\* validator listed twice, what passes carries strictly more than two thirds of the
\* listed weight, each signer counted once: the threshold is exact at the boundary.
LoopDecidesQuorum ==
    Fits =>
        /\ Distinct /\ result # "running" =>
              (result = "Ok" <=> verify_quorum(AsSet, Claimed, Genuine))
        /\ result = "Ok" => 3 * WeightOf(AsSet, Claimed) > 2 * TrueTotal
==============================================================================
