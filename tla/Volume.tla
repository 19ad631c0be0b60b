------------------------------- MODULE Volume -------------------------------
(***************************************************************************)
(* A volume goes to GStreamer as the double v / 100.0 (music_set_volume)   *)
(* and comes back as (int)(volume * 100) (music_get_volume).  Neither      *)
(* result is exact; this is what the two roundings, and the truncation     *)
(* after them, make of a volume between 0 and 100.                         *)
(*                                                                         *)
(* The double next to v / 100 is m * 2^-(e + 52) with 53 bits in m.  What  *)
(* the division leaves over, r hundredths of the last bit, is what the     *)
(* product lacks, or has too much, when it is rounded to 53 bits again.    *)
(***************************************************************************)
EXTENDS Integers

Doublings == {1, 2, 4, 8, 16, 32, 64, 128}

(* 2^e, where v / 100 is in 2^-e .. 2^-(e - 1).                            *)
Scale(v) == CHOOSE s \in Doublings : 100 <= v * s /\ v * s < 200

(* 2^f, where v is in 2^f .. 2^(f + 1).                                    *)
Power(v) == CHOOSE p \in Doublings : p <= v /\ v < 2 * p

(* v * 2^(e + 52) mod 100; that of 2^52, or 4503599627370496, is 96.        *)
Remainder(v) == (96 * v * Scale(v)) % 100

(* Half of the distance from v to the double before it, in the units of the *)
(* remainder; below a power of two doubles are twice as dense.              *)
HalfGap(v) ==
  LET gap == Scale(v) * Power(v)
  IN IF v = Power(v) THEN gap \div 4 ELSE gap \div 2

(* The quotient was rounded down, by so much that the product falls on a    *)
(* double less than v.                                                      *)
FallsShort(v) == Remainder(v) < 50 /\ Remainder(v) > HalfGap(v)

(* Mutant: (int)volume * 100. *)
truncateFirst(v) == IF v = 100 THEN 100 ELSE 0

(* (int)(((double)v / 100.0) * 100) *)
music_get_volume(v) == IF v > 0 /\ FallsShort(v) THEN v - 1 ELSE v

-----------------------------------------------------------------------------
Volumes == 0..100

readBack == [v \in Volumes |-> music_get_volume(v)]

=============================================================================
