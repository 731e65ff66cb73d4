----------------------------- MODULE MaskProfiles -----------------------------
(***************************************************************************)
(* What zona tells of the traffic it was taught: GET /mask-profiles        *)
(* (mask_profiles.rs) and the lengths and readiness of                     *)
(* GET /signature-samples (signature_synth.rs, whose bytes are module      *)
(* Synthesis), asked while samples arrive.                                 *)
(*                                                                         *)
(* Data abstraction.  Floating point numbers are exact fractions:          *)
(* percentiles count hundredths of the unit that is measured, published    *)
(* latencies tenths of a millisecond.  Entropies and ratios of ones go     *)
(* through the same collect_percentile as the time to first byte.          *)
(***************************************************************************)
EXTENDS Integers, Sequences, FiniteSets

CONSTANTS
    Keys,          \* route keys
    Samples,       \* samples that may be taught, see below
    MinSamples,    \* min_samples of the store
    MaxSamples,    \* bound on the samples taught
    None           \* an absent measurement

VARIABLES
    routes,        \* routes[k]: the samples of key k, in the order of arrival
    response       \* the last answer, until another sample arrives

profileVars == <<routes, response>>

Optional == Nat \cup {None}

\* A sample has a duration and a canonical query, which may be None; the other
\* measurements may be missing.  histogram16 is a list of numbers, one per bin.
ASSUME NoneAssumption == None \notin Nat /\ None \notin Keys
ASSUME SamplesAssumption ==
    \A s \in Samples :
        /\ s.duration_ms \in Nat
        /\ {s.query, s.request_length, s.response_length, s.ttfb} \subseteq Optional
\* TrainStore::from_env takes no other.
ASSUME MinSamplesAssumption == MinSamples \in Nat \ {0}

-----------------------------------------------------------------------------
(* Percentiles *)

LATENCY_PERCENTILES == <<12, 28, 50, 72, 88>>
Bins == 16

\* The place of measurement i when the list is sorted, which is stable.
Rank(list, i) ==
    Cardinality({j \in DOMAIN list :
                    list[j] < list[i] \/ (list[j] = list[i] /\ j <= i)})
Sorted(list) ==
    [r \in 1..Cardinality(DOMAIN list) |->
        list[CHOOSE i \in DOMAIN list : Rank(list, i) = r]]

\* Mutant: the weights of the neighbours are exchanged.
percentile_swapped(sorted, p) ==
    LET k == (Len(sorted) - 1) * p
        lo == k \div 100
        w == k % 100
    IN  IF Len(sorted) = 0 THEN 0
        ELSE IF w = 0 THEN 100 * sorted[lo + 1]
        ELSE sorted[lo + 1] * w + sorted[lo + 2] * (100 - w)

\* Linear interpolation between the neighbours of the rank, in hundredths.
percentile(sorted, p) ==
    LET k == (Len(sorted) - 1) * p
        lo == k \div 100
        w == k % 100
    IN  IF Len(sorted) = 0 THEN 0
        ELSE IF w = 0 THEN 100 * sorted[lo + 1]
        ELSE sorted[lo + 1] * (100 - w) + sorted[lo + 2] * w

Whole(x) == (x + 50) \div 100   \* round
Tenths(x) == (x + 5) \div 10    \* (x * 10).round() / 10

Field(samples, f) == [i \in DOMAIN samples |-> samples[i][f]]
\* The measurements that there are, each at the position of its sample.
Present(list) == [i \in {j \in DOMAIN list : list[j] # None} |-> list[i]]

collect_percentile(samples, p, f) ==
    LET v == Present(Field(samples, f))
    IN  IF DOMAIN v = {} THEN None ELSE percentile(Sorted(v), p)

collect_length_percentile(samples, p, f) ==
    LET x == collect_percentile(samples, p, f) IN IF x = None THEN None ELSE Whole(x)

\* A sample without a query counts as one of length 0.
collect_query_length_percentile(samples, p) ==
    IF Len(samples) = 0 THEN None
    ELSE Whole(percentile(Sorted([i \in DOMAIN samples |->
                   IF samples[i].query = None THEN 0 ELSE samples[i].query]), p))

\* Histograms of another length are ignored; each bin has its own percentile.
collect_histogram_percentile(samples, p) ==
    LET h == Present(Field(samples, "histogram16"))
        rows == {i \in DOMAIN h : Len(h[i]) = Bins}
    IN  IF rows = {} THEN None
        ELSE [bin \in 1..Bins |-> percentile(Sorted([i \in rows |-> h[i][bin]]), p)]

Gap(x, y) == IF x < y THEN y - x ELSE x - y
Larger(x, y) == IF x < y THEN y ELSE x

\* The score is 100 exp(-z^2/2) with z = off / half_width.
masking_percent_for_latency(target, durations) ==
    [off |-> 2 * Gap(target, percentile(durations, 50)),
     half_width |-> Larger(percentile(durations, 90) - percentile(durations, 10), 200)]

\* A quarter of the interquartile range, one millisecond at least, in tenths.
jitter(durations) ==
    (Larger(percentile(durations, 75) - percentile(durations, 25), 400) + 20) \div 40

build_variants(samples) ==
    LET durations == Sorted(Field(samples, "duration_ms"))
    IN  [i \in 1..5 |->
            LET p == LATENCY_PERCENTILES[i]
                ttfb == collect_percentile(samples, p, "ttfb")
            IN  [latency |-> Tenths(percentile(durations, p)),
                 jitter |-> jitter(durations),
                 query |-> collect_query_length_percentile(samples, p),
                 request_length |-> collect_length_percentile(samples, p, "request_length"),
                 response_length |-> collect_length_percentile(samples, p, "response_length"),
                 ttfb |-> IF ttfb = None THEN None ELSE Tenths(ttfb),
                 histogram16 |-> collect_histogram_percentile(samples, p),
                 masking |-> masking_percent_for_latency(percentile(durations, p), durations)]]

-----------------------------------------------------------------------------
(* The endpoints *)

entry_for_samples(samples) ==
    [sample_count |-> Len(samples), ready |-> Len(samples) >= MinSamples,
     variants |-> IF Len(samples) >= MinSamples THEN build_variants(samples) ELSE << >>]

OrZero(x) == IF x = None THEN 0 ELSE x

\* The lengths that an example of variant v is made for.
variant_to_dto(v) ==
    [query |-> OrZero(v.query), body |-> OrZero(v.request_length),
     request |-> OrZero(v.query) + OrZero(v.request_length),
     response |-> OrZero(v.response_length)]

entry_for_route(samples) ==
    [sample_count |-> Len(samples), ready |-> TRUE,
     variants |-> [i \in 1..5 |-> variant_to_dto(build_variants(samples)[i])]]

\* The routes that a query asks for: one that names method and path, the routes of
\* the store otherwise.
Asked(q) == IF q = None THEN {k \in Keys : routes[k] # << >>} ELSE {q}

NoResponse == [from |-> "nobody", asked |-> None, entries |-> << >>]

mask_profiles(q) ==
    LET ready == {k \in Asked(q) : entry_for_samples(routes[k]).ready}
    IN  /\ response' = [from |-> "mask-profiles", asked |-> q,
                        entries |-> [k \in ready |-> entry_for_samples(routes[k])]]
        /\ UNCHANGED routes

signature_samples(q) ==
    LET ready == {k \in Asked(q) : Len(routes[k]) >= MinSamples}
    IN  /\ response' = [from |-> "signature-samples", asked |-> q,
                        entries |-> [k \in ready |-> entry_for_route(routes[k])]]
        /\ UNCHANGED routes

Taught == Cardinality(UNION {{k} \X DOMAIN routes[k] : k \in Keys})

\* POST /teach: TrainStore::record.
record(k, s) ==
    /\ Taught < MaxSamples
    /\ routes' = [routes EXCEPT ![k] = Append(@, s)]
    /\ response' = NoResponse

ProfileInit == routes = [k \in Keys |-> << >>] /\ response = NoResponse

ProfileNext ==
    \/ \E k \in Keys, s \in Samples : record(k, s)
    \/ \E q \in Keys \cup {None} : mask_profiles(q) \/ signature_samples(q)

ProfileSpec == ProfileInit /\ [][ProfileNext]_profileVars

-----------------------------------------------------------------------------
(***************************************************************************)
(* Properties.                                                             *)
(***************************************************************************)

\* Value x, in units of which the list counts `unit', has the rank of percentile
\* p: enough of the list is at or below it, and enough at or above.
Ranked(list, unit, x, p) ==
    LET steps == Cardinality(DOMAIN list) - 1
    IN  /\ 100 * Cardinality({i \in DOMAIN list : unit * list[i] <= x}) > steps * p
        /\ 100 * Cardinality({i \in DOMAIN list : unit * list[i] >= x}) > steps * (100 - p)

\* The five variants rise, and the closer to the median the better they mask.
Rising(variants, f) ==
    \A i, j \in DOMAIN variants : i < j => variants[i][f] <= variants[j][f]

\* `only routes with enough samples; with method and path, one route or an empty
\* list' (mask_profiles.rs), and both endpoints serve the same ones: exactly those
\* that /training-status counts as meeting min_samples.
ServedWhenReady ==
    response.from # "nobody" =>
        DOMAIN response.entries = {k \in Asked(response.asked) : Len(routes[k]) >= MinSamples}

\* What is said of a route by the variants made of its samples: every value still
\* has the rank it claims, they rise, and `off' falls to 0 at the median and rises.
Quantiles(samples, variants) ==
    LET durations == Field(samples, "duration_ms")
        off == [i \in 1..5 |-> variants[i].masking.off]
    IN  /\ \A i \in 1..5 :
              Ranked(durations, 10, variants[i].latency, LATENCY_PERCENTILES[i])
        /\ \A f \in {"request_length", "response_length", "ttfb"} :
              LET v == Present(Field(samples, f))
                  unit == IF f = "ttfb" THEN 10 ELSE 1
              IN  IF DOMAIN v = {} THEN \A i \in 1..5 : variants[i][f] = None
                  ELSE /\ Rising(variants, f)
                       /\ \A i \in 1..5 :
                             Ranked(v, unit, variants[i][f], LATENCY_PERCENTILES[i])
        /\ Rising(variants, "latency") /\ Rising(variants, "query")
        /\ off[1] >= off[2] /\ off[2] >= off[3] /\ off[3] = 0
        /\ off[3] <= off[4] /\ off[4] <= off[5]

\* What /mask-profiles publishes after all its sorting, interpolation and rounding
\* still has the rank it claims among the samples of its own route; the variants
\* rise from the lower tail to the upper one, and the score falls on both sides of
\* the median, where it is full.  Only routes with enough samples are served.
ProfilesAreQuantiles ==
    /\ ServedWhenReady
    /\ response.from = "mask-profiles" =>
        \A k \in DOMAIN response.entries :
            Quantiles(routes[k], response.entries[k].variants)
===============================================================================
