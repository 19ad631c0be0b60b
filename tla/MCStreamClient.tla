--------------------------- MODULE MCStreamClient ---------------------------
(***************************************************************************)
(* The instance of StreamClient that TLC checks: two songs, a file that is *)
(* missing, one that cannot be decoded, and lines of five lengths.         *)
(***************************************************************************)
EXTENDS StreamClient

CONSTANTS a, b, missing, noise

Typed(c, x, n) == [cmd |-> c, arg |-> x, length |-> n]

SomeLines ==
  {Typed("p", Absent, 2), Typed("s", Absent, 2), Typed("f", Absent, 1),
   Typed("v", Absent, 2), Typed("v", 7, 4), Typed("v", 29, 5),
   Typed("v", 101, 6), Typed("n", Absent, 2)}
  \cup {Typed("n", u, 6) : u \in {a, b, missing, noise}}

(* What is left of 29 and 101, and their like. *)
SomeNumbers == {1, 10, 2}

=============================================================================
