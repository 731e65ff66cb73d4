----------------------------- MODULE MCAlgorithms -----------------------------
(***************************************************************************)
(* What runs inside one process for TLC: the algorithms, each against a    *)
(* reference definition, and the teaching of zona by its host.  A          *)
(* behaviour is about one of them.                                         *)
(*                                                                         *)
(* VerifyQuorum: every list of at most MaxSignatures signatures over four  *)
(* nodes, against lists of entries that put the total on each residue      *)
(* modulo 3, one with a zero weight, one with a node listed twice, one     *)
(* whose doubled total no longer fits.  MaskProfiles: two routes and       *)
(* samples with and without each measurement, with equal, near and far     *)
(* durations, taught in every order.  Synthesis: lengths below, at and     *)
(* above that of the marker, with no, all and some ones.  TeachPipeline:   *)
(* two requests on each of two routes.                                     *)
(***************************************************************************)
EXTENDS VerifyQuorum, MaskProfiles, Synthesis, TeachPipeline

CONSTANTS a, b, c, d, a1, a2, b1, b2, A, B

VARIABLE checks   \* "quorum", "profiles", "synthesis" or "teaching"

MCNodeId == {a, b, c, d}

E(node, w) == [node_id |-> node, weight |-> w]

MCEntryLists ==
    {<<E(a, 1), E(b, 1), E(c, 1)>>,
     <<E(a, 2), E(b, 1), E(c, 1)>>,
     <<E(a, 2), E(b, 3), E(c, 0)>>,
     <<E(a, 1), E(b, 2), E(a, 3)>>,
     <<E(a, 3), E(b, 3), E(c, 3)>>,
     << >>}

Sample(duration, query, length, res, histogram) ==
    [duration_ms |-> duration, query |-> query, request_length |-> length,
     response_length |-> res, ttfb |-> res, histogram16 |-> histogram]
Flat == [bin \in 1..16 |-> bin % 2]
MCSamples ==
    {Sample(0, None, None, 3, None), Sample(7, 5, 4, None, Flat),
     Sample(8, 1, 0, 9, <<1>>), Sample(90, None, 1, 2, None)}

MCRequests == {a1, a2, b1, b2}
MCRouteOf == [r \in MCRequests |-> IF r \in {a1, a2} THEN A ELSE B]

\* What a behaviour is not about has been given nothing.
MCInit ==
    /\ checks \in {"quorum", "profiles", "synthesis", "teaching"}
    /\ LoopInit /\ (checks # "quorum" => entries = << >> /\ signatures = << >>)
    /\ ProfileInit
    /\ SynthInit /\ (checks # "synthesis" => n = 0 /\ ratio = NoRatio)
    /\ Init /\ (checks # "teaching" =>
                   AutoStart /\ DoneMode = "Total" /\ store.routes = {})

Teaching(action) ==
    checks = "teaching" /\ action /\ UNCHANGED <<loopVars, profileVars, synthVars, checks>>

MCNext ==
    \/ checks = "quorum" /\ LoopNext /\ UNCHANGED <<profileVars, synthVars, vars, checks>>
    \/ checks = "profiles" /\ ProfileNext /\ UNCHANGED <<loopVars, synthVars, vars, checks>>
    \/ checks = "synthesis" /\ SynthNext /\ UNCHANGED <<loopVars, profileVars, vars, checks>>
    \/ Teaching(Next)

allVars == <<loopVars, profileVars, synthVars, vars, checks>>

\* The fairness of TeachPipeline.
MCSpec ==
    MCInit /\ [][MCNext]_allVars /\ WF_allVars(Teaching(PollStep /\ UNCHANGED options))
===============================================================================
