----------------------------- MODULE Listening -----------------------------
(***************************************************************************)
(* What a house promises to a user who walks through it: the playlist,     *)
(* each song from its beginning to its end, one after the other, without a *)
(* gap, in whatever rooms.  Between two songs, or within one, somebody may *)
(* choose another.  There are users who are lost to this promise; they     *)
(* remain so.                                                              *)
(***************************************************************************)
EXTENDS Integers

CONSTANTS Users, MaxTrack, Length

VARIABLES
  track,   \* of each user: where in the playlist he is
  heard,   \* of each user: the places of that song which have sounded
  choices, \* how often somebody chose
  lost     \* the users who are promised nothing

vars == <<track, heard, choices, lost>>

Init ==
  /\ track = [u \in Users |-> 1]
  /\ heard = [u \in Users |-> {}]
  /\ choices = 0
  /\ lost = {}

Stays(u) == track'[u] = track[u] /\ heard'[u] = heard[u]

(* Another place of the song: the first, or one that follows on another. *)
HearsOn(u) ==
  \E p \in 0..Length :
    /\ p = 0 \/ p - 1 \in heard[u]
    /\ heard'[u] = heard[u] \cup {p}
    /\ track'[u] = track[u]

(* The next song, once all of this one has sounded. *)
SongOver(u) ==
  /\ heard[u] = 0..Length
  /\ track'[u] = IF track[u] = MaxTrack THEN 1 ELSE track[u] + 1
  /\ heard'[u] = {}

(* Time passes, for all users together. *)
Listen ==
  /\ choices' = choices
  /\ \A u \in Users : u \in lost' \/ Stays(u) \/ HearsOn(u) \/ SongOver(u)

Choose(u) ==
  /\ choices' = choices + 1
  /\ u \in lost' \/ (track'[u] # track[u] /\ heard'[u] = {})
  /\ \A v \in Users \ {u} : v \in lost' \/ Stays(v)

Next ==
  /\ lost \subseteq lost'
  /\ Listen \/ \E u \in Users : Choose(u)

Spec == Init /\ [][Next]_vars

=============================================================================
