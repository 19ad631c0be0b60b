------------------------------- MODULE Rooms -------------------------------
(***************************************************************************)
(* Several clients, one per room, and the tables they share.  A user may   *)
(* be in several rooms, and moves between them; each room polls its row of *)
(* the view server_commands (tcIfaceDB::getDBUser), and writes back the    *)
(* position of the user (updatePosition) and, when a song ends, the next   *)
(* track (requestNextSong).  The rooms know of each other only through the *)
(* tables.                                                                 *)
(*                                                                         *)
(* StreamThread looks into one client; here a stream is the song it plays  *)
(* and how far it has come, and the user's play state is Play.             *)
(***************************************************************************)
EXTENDS Integers, Sequences

CONSTANTS
  Users,       \* the values of USER_ID
  NoUser,      \* the -1 of a tsUserData that no row has filled in
  RoomOrder,   \* the rooms, in the order of the rows of server_commands
  MaxTrack,    \* max(Track_Num) of the playlist
  Length,      \* the length of a song: more than a tick
  ResetsPosition, \* TRUE: the server resets the position of a new track
  MaxMoves,    \* bound: times the server moves somebody
  MaxChoices   \* bound: times somebody chooses a track

ASSUME RoomsAssumption ==
  /\ NoUser \notin Users
  /\ RoomOrder \in Seq(STRING)
  /\ \A i, j \in DOMAIN RoomOrder : RoomOrder[i] = RoomOrder[j] => i = j
  /\ MaxTrack \in Nat \ {0}
  /\ Length \in Nat \ {0, 1}
  /\ ResetsPosition \in BOOLEAN
  /\ MaxMoves \in Nat
  /\ MaxChoices \in Nat

RoomNames == {RoomOrder[i] : i \in DOMAIN RoomOrder}
Tracks    == 1..MaxTrack
Positions == -1..Length

VARIABLES
  at,         \* server_commands: the user of each room
  controller, \* music_controller: track and position of each user
  moves,      \* how often somebody moved (counts to MaxMoves)
  choices,    \* how often somebody chose (counts to MaxChoices)
  msUser,     \* of each client: user and track of its last poll
  mbReportPosition, \* of each client's tcIfaceDB
  stream,     \* of each client: phase, position, and where to seek to
  late,       \* the rooms that have not polled since the last tick
  fresh,      \* history: the rooms that polled since somebody moved
  confused,   \* history: users whose position was that of another song, whose
              \* choice a room overwrote that had yet to poll, or who chose
              \* while a room had yet to follow them to the present track
  unaware     \* history: rooms that have yet to poll since a choice of track

tables == <<at, controller, moves, choices>>
client == <<msUser, mbReportPosition>>
history == <<fresh, confused, unaware>>
vars == <<tables, client, stream, late, history>>

-----------------------------------------------------------------------------
(* The environment: the server, and time. *)

Off == [phase |-> "off", pos |-> 0, seek |-> 0]

(* IR_PRIORITY(), or the web interface, puts a user into a room. *)
Move(r, u) ==
  /\ moves < MaxMoves
  /\ moves' = moves + 1
  /\ at[r] # u
  /\ at' = [at EXCEPT ![r] = u]
  /\ fresh' = {}
  /\ UNCHANGED <<controller, choices, client, stream, late, confused, unaware>>

(* A room that plays a track of the user that the table has left. *)
Behind(r, u) ==
  /\ stream[r].phase # "off"
  /\ msUser[r].user = u /\ msUser[r].track # controller[u].track

(* The user, or somebody with the web interface, chooses another track. *)
Choose(u, t) ==
  /\ choices < MaxChoices
  /\ choices' = choices + 1
  /\ controller[u].track # t
  /\ LET pos == IF ResetsPosition THEN 0 ELSE controller[u].pos
     IN /\ controller' = [controller EXCEPT ![u] = [track |-> t, pos |-> pos]]
        /\ confused' = confused \cup
             {v \in {u} : pos > 0 \/ \E r \in RoomNames : Behind(r, u)}
  /\ unaware' = unaware \cup {r \in RoomNames : msUser[r].user = u}
  /\ UNCHANGED <<at, moves, client, stream, late, fresh>>

(* Music plays on.  A tick is long against the poll interval of 50 ms, and  *)
(* short against a song: every room polls between two ticks.                *)
Tick ==
  /\ late = {}
  /\ late' = RoomNames
  /\ stream' = [r \in RoomNames |->
       IF stream[r].phase = "sounding" /\ stream[r].pos < Length
       THEN [stream[r] EXCEPT !.pos = @ + 1] ELSE stream[r]]
  /\ UNCHANGED <<tables, client, history>>

(* The pipeline plays (from the beginning), then the seek is served. *)
Plays(r) ==
  /\ stream[r].phase = "starting"
  /\ stream' = [stream EXCEPT ![r].phase = "playing"]
  /\ UNCHANGED <<tables, client, late, history>>

setPosition(r) ==
  /\ stream[r].phase = "playing"
  /\ LET s == stream[r].seek
     IN stream' = [stream EXCEPT ![r] =
          [phase |-> "sounding", pos |-> IF s > 0 THEN s ELSE 0, seek |-> 0]]
  /\ UNCHANGED <<tables, client, late, history>>

-----------------------------------------------------------------------------
(* tcIfaceDB and the slots of tcClientCtrl that call it. *)

(* Mutant: the first room and those after it. *)
someRoom(i) == TRUE

(* usersFound.count(user) == 1: no row before this one has its user. *)
firstRoom(i) == \A j \in 1..(i - 1) : at[RoomOrder[j]] # at[RoomOrder[i]]

(* Mutant: a room without a user goes on as before. *)
reportAsBefore(i) ==
  LET r == RoomOrder[i]
  IN IF at[r] = NoUser THEN mbReportPosition[r] ELSE firstRoom(i)

reportPosition(i) == at[RoomOrder[i]] # NoUser /\ firstRoom(i)

(* tcIfaceDB::getDBUser, then tcClientCtrl::poll with what it found: a new  *)
(* user or another song starts a stream, at the position of the row.        *)
Poll(i) ==
  LET r == RoomOrder[i]
      u == at[r]
      data == IF u = NoUser THEN [user |-> NoUser, track |-> 0]
              ELSE [user |-> u, track |-> controller[u].track]
  IN /\ mbReportPosition' = [mbReportPosition EXCEPT ![r] = reportPosition(i)]
     /\ msUser' = [msUser EXCEPT ![r] = data]
     /\ stream' = [stream EXCEPT ![r] =
          IF data = msUser[r] THEN stream[r]
          ELSE IF u = NoUser THEN Off
          ELSE [phase |-> "starting", pos |-> 0, seek |-> controller[u].pos]]
     /\ late' = late \ {r}
     /\ fresh' = fresh \cup {r}
     /\ unaware' = unaware \ {r}
     /\ UNCHANGED <<tables, confused>>

(* Mutant: position and length, in the wrong order. *)
songLength(r) == Length

(* tcStreamWrapper::position: -1 while nothing plays, and the beginning of  *)
(* the song until the seek is served.                                       *)
position(r) ==
  CASE stream[r].phase = "starting" -> -1
    [] stream[r].phase = "playing" -> 0
    [] OTHER -> stream[r].pos

(* songInfo: tcClientCtrl::onSongInfo, tcIfaceDB::updatePosition. *)
updatePosition(r) ==
  /\ stream[r].phase # "off"
  /\ mbReportPosition[r]
  /\ LET u == msUser[r].user
     IN /\ controller' = [controller EXCEPT ![u].pos = position(r)]
        /\ confused' = confused \cup
             {v \in {u} : controller[u].track # msUser[r].track}
  /\ UNCHANGED <<at, moves, choices, client, stream, late, fresh, unaware>>

(* Mutants: no wrap; the track after the one in the table. *)
trackAfter(r) == msUser[r].track + 1

afterRow(r) == (controller[msUser[r].user].track % MaxTrack) + 1

(* The track after the one the client played, which wraps to 1. *)
nextTrack(r) ==
  IF msUser[r].track + 1 > MaxTrack THEN 1 ELSE msUser[r].track + 1

(* songOver: tcClientCtrl::onSongOver, tcIfaceDB::requestNextSong, which    *)
(* writes a track and no position.                                          *)
requestNextSong(r) ==
  /\ stream[r].phase = "sounding"
  /\ stream[r].pos = Length
  /\ stream' = [stream EXCEPT ![r] = Off]
  /\ LET u == msUser[r].user
         new == controller[u].track # nextTrack(r)
         pos == IF new /\ ResetsPosition THEN 0 ELSE controller[u].pos
     IN /\ controller' =
             [controller EXCEPT ![u] = [track |-> nextTrack(r), pos |-> pos]]
        /\ confused' =
             confused \cup {v \in {u} : new /\ (pos > 0 \/ r \in unaware)}
  /\ UNCHANGED <<at, moves, choices, client, late, fresh, unaware>>

-----------------------------------------------------------------------------
Init ==
  /\ at \in [RoomNames -> Users \cup {NoUser}]
  /\ controller = [u \in Users |-> [track |-> 1, pos |-> 0]]
  /\ moves = 0
  /\ choices = 0
  /\ msUser = [r \in RoomNames |-> [user |-> NoUser, track |-> 0]]
  /\ mbReportPosition = [r \in RoomNames |-> FALSE]
  /\ stream = [r \in RoomNames |-> Off]
  /\ late = RoomNames
  /\ fresh = {}
  /\ confused = {}
  /\ unaware = {}

Next ==
  \/ Tick
  \/ \E i \in DOMAIN RoomOrder : Poll(i)
  \/ \E u \in Users, t \in Tracks : Choose(u, t)
  \/ \E r \in RoomNames :
       \/ \E u \in Users \cup {NoUser} : Move(r, u)
       \/ Plays(r) \/ setPosition(r)
       \/ updatePosition(r) \/ requestNextSong(r)

Spec == Init /\ [][Next]_vars

-----------------------------------------------------------------------------
(* Every variable keeps its type; in particular the track of a user stays   *)
(* in the playlist.                                                         *)
TypeOK ==
  /\ at \in [RoomNames -> Users \cup {NoUser}]
  /\ controller \in [Users -> [track : Tracks, pos : Positions]]
  /\ moves \in 0..MaxMoves
  /\ choices \in 0..MaxChoices
  /\ msUser \in [RoomNames -> [user : Users \cup {NoUser}, track : 0..MaxTrack]]
  /\ mbReportPosition \in [RoomNames -> BOOLEAN]
  /\ stream \in [RoomNames ->
       [phase : {"off", "starting", "playing", "sounding"},
        pos : 0..Length, seek : Positions]]
  /\ late \subseteq RoomNames /\ fresh \subseteq RoomNames
  /\ confused \subseteq Users /\ unaware \subseteq RoomNames

RoomsOf(u) == {r \in RoomNames : at[r] = u}

Reporters(u) == {r \in RoomNames : mbReportPosition[r] /\ msUser[r].user = u}

(* Once every room has polled after the last move, the position of each     *)
(* user who is in a room is reported, by one room only, which is one of     *)
(* theirs: the rooms, which do not know of each other, agree on the first.  *)
ReportersAgree ==
  fresh = RoomNames =>
    \A u \in Users : RoomsOf(u) # {} =>
      \E r \in RoomsOf(u) : Reporters(u) = {r}

(* A stream plays for the user of the last poll, and reports for nobody     *)
(* else: updatePosition() and requestNextSong() find a user to write to.    *)
WritesForSomebody ==
  \A r \in RoomNames :
    mbReportPosition[r] \/ stream[r].phase # "off" => msUser[r].user \in Users

PlaysOut(u) ==
  \E r \in RoomNames :
    /\ msUser[r] = [user |-> u, track |-> controller[u].track]
    /\ stream[r].phase = "sounding"
    /\ stream[r].pos = Length

Chosen(u) == controller'[u].track # controller[u].track /\ choices' # choices

(* However many rooms play for a user and report the end of a song, each of *)
(* them in its own time, the table leaves a track only when a room has      *)
(* played that very track to its end, or another one is chosen - unless a   *)
(* track was ever started at the position of another one, or a choice came  *)
(* between two songs, or so late that a room overwrites it before it polls. *)
SongsPlayOut ==
  [][\A u \in Users :
       controller'[u].track # controller[u].track =>
         PlaysOut(u) \/ Chosen(u) \/ u \in confused']_vars

(* getDBUser's comment: "We only report back to the server our position if  *)
(* we are the first room for this user".                                    *)
OneReporter ==
  \A u \in Users : \A r, q \in Reporters(u) : r = q

=============================================================================
