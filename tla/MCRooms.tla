------------------------------ MODULE MCRooms ------------------------------
(***************************************************************************)
(* The instances of Rooms that TLC checks: a house of two rooms.           *)
(***************************************************************************)
EXTENDS RoomsHeard, TLC

CONSTANTS u1, u2

TwoRooms == <<"kitchen", "study">>

(* Users are interchangeable: nothing compares them but for equality. *)
UserSymmetry == Permutations(Users)

=============================================================================
