------------------------------ MODULE MCStream ------------------------------
(***************************************************************************)
(* The instances of StreamThread that TLC checks.                          *)
(***************************************************************************)
EXTENDS StreamThread, TLC

CONSTANTS s1, s2, u1, u2

TwoSongs == <<s1, s2>>

OneSong == <<s1>>

(* A valid volume and one that tcStreamWrapper::setVolume drops. *)
McVolumes == {50, 150}

(* Users are interchangeable: nothing compares them but for equality. *)
UserSymmetry == Permutations(Users)

=============================================================================
