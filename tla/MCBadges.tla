------------------------------ MODULE MCBadges ------------------------------
(***************************************************************************)
(* The instance of Badges that TLC checks.  The two clients have a name    *)
(* each, or have been given the same one.                                  *)
(***************************************************************************)
EXTENDS Badges

CONSTANTS c1, c2

TwoRooms == {"kitchen", "study"}

OwnName == [c \in Clients |-> IF c = c1 THEN "kitchen" ELSE "study"]

OneOrTwoNames == {OwnName, [c \in Clients |-> "kitchen"]}

=============================================================================
