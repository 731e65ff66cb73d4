------------------------------- MODULE Synthesis -------------------------------
(***************************************************************************)
(* The bytes of GET /signature-samples (signature_synth.rs): an example of *)
(* a response of a given length.  Random bytes are drawn, random bits are  *)
(* flipped until the share of ones is the one observed or the patience     *)
(* ends, a marker is appended, and the result is read as UTF-8.  (A query  *)
(* or body is a stream without the marker.)                                *)
(*                                                                         *)
(* Data abstraction.  A byte is the number of its ones while bits are      *)
(* flipped.  For the reading of UTF-8 a byte is of ASCII ("a"), leads a    *)
(* sequence of two ("l") or continues one ("c"); the marker is "m".        *)
(***************************************************************************)
EXTENDS Naturals, Sequences, FiniteSets

CONSTANTS
    Lengths,       \* lengths of the example
    Ratios,        \* observed shares of ones, in hundredths, or NoRatio
    NoRatio,
    Marker,        \* length of RESPONSE_END_MARKER
    ByteBits       \* bits of a byte

ASSUME LengthsAssumption == Lengths \subseteq Nat
ASSUME RatiosAssumption == Ratios \subseteq (0..100) \cup {NoRatio}
ASSUME BytesAssumption == Marker \in Nat /\ ByteBits \in Nat

VARIABLES
    n, ratio,      \* the length asked for and target_response_ones_ratio
    stage,         \* "drawn", "adjusted" or "read"
    ones,          \* ones in the drawn bytes
    guard,         \* bits tried by adjust_ones_ratio
    text           \* the example as UTF-8 text

synthVars == <<n, ratio, stage, ones, guard, text>>

\* The bytes that are drawn: a response that is long enough ends with the marker.
StreamLength == IF n < Marker THEN n ELSE n - Marker
total_bits == StreamLength * ByteBits

\* Mutant: the number of ones is cut off, not rounded.
want_truncated == (ratio * total_bits) \div 100

want == (2 * ratio * total_bits + 100) \div 200   \* rounded

\* synth_stream draws the bytes from the histogram, which may hold any.
SynthInit ==
    /\ n \in Lengths /\ ratio \in Ratios
    /\ stage = "drawn"
    /\ ones \in 0..total_bits
    /\ guard = 0
    /\ text = << >>

Finished == ratio # NoRatio => ones = want \/ guard = 4 * total_bits

\* adjust_ones_ratio: a bit at random, flipped when that brings the count nearer;
\* there may be none left of the kind that the draw misses.
flip_bit ==
    /\ stage = "drawn" /\ ~Finished
    /\ guard' = guard + 1
    /\ \/ ones < want /\ ones' = ones + 1
       \/ ones > want /\ ones' = ones - 1
       \/ /\ IF ones < want THEN ones > 0 ELSE ones < total_bits
          /\ UNCHANGED ones
    /\ UNCHANGED <<n, ratio, stage, text>>

adjusted ==
    /\ stage = "drawn" /\ Finished
    /\ stage' = "adjusted"
    /\ UNCHANGED <<n, ratio, ones, guard, text>>

\* String::from_utf8_lossy: a lead with its continuation is one character "x", a
\* lead without one and a continuation without a lead are replaced ("?").
from_utf8_lossy(bytes) ==
    LET Swallowed(i) == i > 1 /\ bytes[i] = "c" /\ bytes[i - 1] = "l"
        Shown(i) == IF bytes[i] \in {"a", "m"} THEN bytes[i]
                    ELSE IF bytes[i] = "l" /\ i < Len(bytes) /\ bytes[i + 1] = "c" THEN "x"
                    ELSE "?"
        rest == {i \in DOMAIN bytes : ~Swallowed(i)}
    IN  [j \in 1..Cardinality(rest) |->
            Shown(CHOOSE i \in rest : Cardinality({x \in rest : x <= i}) = j)]

\* synth_response and synth_response_text.
synth_response_text ==
    /\ stage = "adjusted"
    /\ \E stream \in [1..StreamLength -> {"a", "l", "c"}] :
          text' = from_utf8_lossy([i \in 1..n |-> IF i <= StreamLength THEN stream[i] ELSE "m"])
    /\ stage' = "read"
    /\ UNCHANGED <<n, ratio, ones, guard>>

SynthNext == flip_bit \/ adjusted \/ synth_response_text

SynthSpec == SynthInit /\ [][SynthNext]_synthVars

-----------------------------------------------------------------------------
(***************************************************************************)
(* Properties.                                                             *)
(***************************************************************************)

\* The marks in a text.
Marks == {i \in DOMAIN text : text[i] = "m"}

\* The drawn bytes have the observed share of ones to the nearest bit, unless the
\* draws ran out first; and the text ends with the whole marker whenever the length
\* leaves room for it, whatever broken sequence the random bytes before it end in.
ExampleFitsVariant ==
    /\ stage # "drawn" /\ ratio # NoRatio /\ guard < 4 * total_bits =>
          /\ 200 * ones <= 2 * ratio * total_bits + 100
          /\ 200 * ones + 100 >= 2 * ratio * total_bits
    /\ stage = "read" /\ n >= Marker =>
          Marks = (Len(text) - Marker + 1)..Len(text)
===============================================================================
