------------------------------ MODULE MCClient ------------------------------
(***************************************************************************)
(* The instances of ClientCtrl that TLC checks.  The bounds count clicks:  *)
(* every start doubles the connections of the tray, and with them the      *)
(* slots that the next click runs.                                         *)
(***************************************************************************)
EXTENDS ClientCtrl

=============================================================================
