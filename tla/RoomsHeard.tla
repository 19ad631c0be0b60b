----------------------------- MODULE RoomsHeard -----------------------------
(***************************************************************************)
(* Rooms, with a history of what has sounded.  A user who walks through    *)
(* the house hears a song in several rooms, which start their pipelines in *)
(* their own time and find the place in the song by the position in the    *)
(* table; that one is written by rooms which may lag, or may not have      *)
(* sought yet.                                                             *)
(***************************************************************************)
EXTENDS Rooms

VARIABLE heard  \* history: of each user who is not confused, the positions at
                \* which the track in the table has sounded in some room

(* A room sounds, with the track of the user that is in the table. *)
Sounds(r, u) ==
  /\ stream[r].phase = "sounding"
  /\ msUser[r] = [user |-> u, track |-> controller[u].track]

Places(u) == {stream[r].pos : r \in {q \in RoomNames : Sounds(q, u)}}

(* A new track has not sounded anywhere. *)
Hear ==
  heard' = [u \in Users |->
    IF u \in confused' THEN {}
    ELSE Places(u)' \cup
      (IF controller'[u].track = controller[u].track THEN heard[u] ELSE {})]

HeardInit == Init /\ heard = [u \in Users |-> {}]

HeardNext == Next /\ Hear

HeardSpec == HeardInit /\ [][HeardNext]_<<vars, heard>>

-----------------------------------------------------------------------------
(* Nobody misses a part of a song by moving: what has sounded of it, in     *)
(* whatever rooms, is a beginning of the song without a gap.  A position    *)
(* that a room reports before it has sought (tcStreamThread::poll) may send *)
(* the next room back, but none of them ahead - unless a track was started  *)
(* at the position of another one, which is to be confused.                 *)
NothingSkipped ==
  \A u \in Users : \A p \in heard[u] : 0..p \subseteq heard[u]

House == INSTANCE Listening WITH
  track <- [u \in Users |-> controller[u].track],
  lost <- confused

(* The rooms, which do not know of each other, together play the playlist:  *)
(* a user hears each song whole before requestNextSong moves him on.        *)
PlaysAsOne == House!Spec

=============================================================================
