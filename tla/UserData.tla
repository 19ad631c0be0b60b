------------------------------ MODULE UserData ------------------------------
(***************************************************************************)
(* The data a client works from: what one row of the server_commands view  *)
(* says about a room (client/src/tsuserdata.h, filled in by                *)
(* tcIfaceDB::getDBUser), and what tcIfaceDB::requestNextSong computes     *)
(* from it.  A song stands for the pair (Song_Hash, Track_Path): the code  *)
(* compares both.  The position column is left to the modules about        *)
(* positions.                                                              *)
(***************************************************************************)
EXTENDS Integers, Sequences

CONSTANTS
  Users,       \* the values of USER_ID
  NoUser,      \* the -1 of a tsUserData that no row has filled in
  Songs,       \* the songs of the playlists
  NoSong,      \* hash 0 and the empty path of a default tsSongData
  Playlist,    \* Playlist[t] is the song of track t
  Volumes      \* the values of the Volume column

ASSUME UserDataAssumption ==
  /\ NoUser \notin Users
  /\ NoSong \notin Songs
  /\ Playlist \in Seq(Songs)
  /\ Playlist # <<>>
  /\ Volumes \subseteq Int

Tracks == DOMAIN Playlist

PlayStates == {"Play", "Stop", "Pause"}

(* The row (or default-constructed record) of a room. *)
DefaultData == [user |-> NoUser, track |-> 1, ctl |-> "Stop", vol |-> 0]

UserRows == [user : Users, track : Tracks, ctl : PlayStates, vol : Volumes]

Rows == UserRows \cup {DefaultData}

SongOf(d) == IF d.user = NoUser THEN NoSong ELSE Playlist[d.track]

(* max(Track_Num) of the playlist, and the track after t: it wraps to 1. *)
MaxTrack == Len(Playlist)

(* Mutant: no wrap. *)
TrackAfter(t) == t + 1

NextTrack(t) == IF t + 1 > MaxTrack THEN 1 ELSE t + 1

=============================================================================
