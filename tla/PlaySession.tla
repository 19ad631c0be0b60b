---------------------------- MODULE PlaySession ----------------------------
(***************************************************************************)
(* What tcStreamThread promises to tcClientCtrl, seen from outside: a      *)
(* session plays one song; if the song plays to its end this is reported   *)
(* at most once, with songOver, after the end, and the session then makes  *)
(* way for another one.  A session may be closed at any time before.       *)
(***************************************************************************)
CONSTANTS Songs, NoSong

VARIABLES
  phase,   \* of the session: "none", "playing", "ended", "reported"
  song     \* the song of the session, NoSong if there is none

vars == <<phase, song>>

Init == phase = "none" /\ song = NoSong

(* Never without a song: a room without a user opens nothing. *)
Open ==
  /\ phase = "none"
  /\ phase' = "playing"
  /\ song' \in Songs

End ==
  /\ phase = "playing"
  /\ phase' = "ended"
  /\ UNCHANGED song

songOver ==
  /\ phase = "ended"
  /\ phase' = "reported"
  /\ UNCHANGED song

Close ==
  /\ phase # "none"
  /\ phase' = "none"
  /\ song' = NoSong

Next == Open \/ End \/ songOver \/ Close

Spec == Init /\ [][Next]_vars

=============================================================================
