---------------------------- MODULE RoomsProofs ----------------------------
(***************************************************************************)
(* What the rooms of a house agree on, for every number of rooms, users,   *)
(* tracks and moves.  A room that has polled since somebody moved knows    *)
(* its user and whether it is the first room of that user; once all of     *)
(* them have polled, the first one, and no other, reports.                 *)
(*                                                                         *)
(* And what becomes of the playlist: rooms that end one song in their own  *)
(* time move the user on once, since none is more than one track behind    *)
(* (SongInv).                                                              *)
(***************************************************************************)
EXTENDS RoomsHeard, TLAPS, WellFoundedInduction

(* What the last poll of a room says is still so, if nobody moved since.   *)
FreshKnows ==
  \A i \in DOMAIN RoomOrder :
    RoomOrder[i] \in fresh =>
      /\ mbReportPosition[RoomOrder[i]] = reportPosition(i)
      /\ msUser[RoomOrder[i]].user = at[RoomOrder[i]]

IInv == TypeOK /\ WritesForSomebody /\ FreshKnows

-----------------------------------------------------------------------------
LEMMA RoomIsNamed ==
  /\ \A i \in DOMAIN RoomOrder : RoomOrder[i] \in RoomNames
  /\ \A r \in RoomNames : \E i \in DOMAIN RoomOrder : r = RoomOrder[i]
BY DEF RoomNames

LEMMA TracksAndPositions ==
  /\ 1 \in Tracks /\ Tracks \subseteq 0..MaxTrack
  /\ 0 \in 0..MaxTrack
  /\ 0 \in 0..Length /\ Length \in 0..Length
  /\ 0..Length \subseteq Positions /\ -1 \in Positions
BY RoomsAssumption DEF Tracks, Positions

LEMMA InitIInv == Init => IInv
<1> SUFFICES ASSUME Init PROVE IInv
  OBVIOUS
<1>1. TypeOK
  BY TracksAndPositions, RoomsAssumption DEF Init, TypeOK, Off
<1>2. WritesForSomebody
  BY DEF Init, WritesForSomebody, Off
<1>3. FreshKnows
  BY DEF Init, FreshKnows
<1> QED
  BY <1>1, <1>2, <1>3 DEF IInv

(* Somebody moves: no room knows of it yet. *)
LEMMA MoveIInv ==
  ASSUME IInv, NEW r \in RoomNames, NEW u \in Users \cup {NoUser}, Move(r, u)
  PROVE  IInv'
<1>1. TypeOK'
  BY RoomsAssumption DEF IInv, TypeOK, Move, client
<1>2. WritesForSomebody'
  BY DEF IInv, WritesForSomebody, Move, client
<1>3. FreshKnows'
  BY DEF FreshKnows, Move
<1> QED
  BY <1>1, <1>2, <1>3 DEF IInv

(* A track is chosen: no room has another user for that. *)
LEMMA ChooseIInv ==
  ASSUME IInv, NEW u \in Users, NEW t \in Tracks, Choose(u, t)
  PROVE  IInv'
<1>1. controller[u] \in [track : Tracks, pos : Positions]
  BY DEF IInv, TypeOK
<1>2. PICK pos \in {0, controller[u].pos} :
        controller' = [controller EXCEPT ![u] = [track |-> t, pos |-> pos]]
  BY DEF Choose
<1>3. controller' \in [Users -> [track : Tracks, pos : Positions]]
  BY <1>1, <1>2, TracksAndPositions DEF IInv, TypeOK
<1>4. confused' \subseteq Users /\ unaware' \subseteq RoomNames
      /\ choices' \in 0..MaxChoices
  BY RoomsAssumption DEF IInv, TypeOK, Choose
<1>5. UNCHANGED <<at, moves, client, stream, late, fresh>>
  BY DEF Choose
<1>6. TypeOK'
  BY <1>3, <1>4, <1>5 DEF IInv, TypeOK, client
<1>7. WritesForSomebody'
  BY <1>5 DEF IInv, WritesForSomebody, client
<1>8. FreshKnows'
  BY <1>5 DEF IInv, FreshKnows, reportPosition, firstRoom, client
<1> QED
  BY <1>6, <1>7, <1>8 DEF IInv

(* Steps of the streams, which know of no table. *)
LEMMA StreamIInv ==
  ASSUME IInv, UNCHANGED <<tables, client, history>>, late' \subseteq RoomNames,
         stream' \in [RoomNames ->
           [phase : {"off", "starting", "playing", "sounding"},
            pos : 0..Length, seek : Positions]],
         \A r \in RoomNames : stream[r].phase = "off" => stream'[r].phase = "off"
  PROVE  IInv'
<1>1. TypeOK'
  BY DEF IInv, TypeOK, tables, client, history
<1>2. WritesForSomebody'
  BY DEF IInv, WritesForSomebody, client
<1>3. FreshKnows'
  BY DEF IInv, FreshKnows, reportPosition, firstRoom, tables, client, history
<1> QED
  BY <1>1, <1>2, <1>3 DEF IInv

LEMMA TickIInv == IInv /\ Tick => IInv'
<1> SUFFICES ASSUME IInv, Tick PROVE IInv'
  OBVIOUS
<1> DEFINE Streams == [phase : {"off", "starting", "playing", "sounding"},
                       pos : 0..Length, seek : Positions]
<1>1. ASSUME NEW r \in RoomNames
      PROVE  stream'[r] \in Streams
             /\ (stream[r].phase = "off" => stream'[r].phase = "off")
  <2>1. stream[r] \in Streams
    BY DEF IInv, TypeOK
  <2>2. CASE stream[r].phase = "sounding" /\ stream[r].pos < Length
    <3>1. stream'[r] = [stream[r] EXCEPT !.pos = stream[r].pos + 1]
      BY <2>2 DEF Tick
    <3>2. stream[r].pos + 1 \in 0..Length
      BY <2>1, <2>2, RoomsAssumption
    <3> QED
      BY <2>1, <2>2, <3>1, <3>2
  <2>3. CASE ~(stream[r].phase = "sounding" /\ stream[r].pos < Length)
    BY <2>1, <2>3 DEF Tick
  <2> QED
    BY <2>2, <2>3
<1>2. stream' \in [RoomNames -> Streams]
  BY <1>1 DEF Tick
<1> QED
  BY <1>1, <1>2, StreamIInv DEF Tick

LEMMA PlaysIInv ==
  ASSUME IInv, NEW r \in RoomNames, Plays(r) \/ setPosition(r)
  PROVE  IInv'
<1> DEFINE Streams == [phase : {"off", "starting", "playing", "sounding"},
                       pos : 0..Length, seek : Positions]
<1>1. stream \in [RoomNames -> Streams] /\ late \subseteq RoomNames
  BY DEF IInv, TypeOK
<1>2. CASE Plays(r)
  BY <1>1, <1>2, StreamIInv DEF Plays
<1>3. CASE setPosition(r)
  <2> DEFINE p == IF stream[r].seek > 0 THEN stream[r].seek ELSE 0
  <2>1. p \in 0..Length
    BY <1>1, RoomsAssumption DEF Positions
  <2>2. stream' = [stream EXCEPT ![r] =
                     [phase |-> "sounding", pos |-> p, seek |-> 0]]
    BY <1>1, <1>3 DEF setPosition
  <2>3. [phase |-> "sounding", pos |-> p, seek |-> 0] \in Streams
    BY <2>1, TracksAndPositions
  <2>4. stream' \in [RoomNames -> Streams]
    BY <1>1, <2>2, <2>3
  <2>5. \A q \in RoomNames : stream[q].phase = "off" => stream'[q].phase = "off"
    BY <1>1, <1>3, <2>2 DEF setPosition
  <2> QED
    BY <1>1, <1>3, <2>4, <2>5, StreamIInv DEF setPosition
<1> QED
  BY <1>2, <1>3


(* A poll of one room: it alone learns something, and starts what it must. *)
LEMMA PollIInv ==
  ASSUME IInv, NEW i \in DOMAIN RoomOrder, Poll(i)
  PROVE  IInv'
<1> DEFINE r == RoomOrder[i]
           u == at[r]
           data == IF u = NoUser THEN [user |-> NoUser, track |-> 0]
                   ELSE [user |-> u, track |-> controller[u].track]
           Streams == [phase : {"off", "starting", "playing", "sounding"},
                       pos : 0..Length, seek : Positions]
           new == IF data = msUser[r] THEN stream[r]
                  ELSE IF u = NoUser THEN Off
                  ELSE [phase |-> "starting", pos |-> 0,
                        seek |-> controller[u].pos]
<1>1. /\ mbReportPosition' = [mbReportPosition EXCEPT ![r] = reportPosition(i)]
      /\ msUser' = [msUser EXCEPT ![r] = data]
      /\ stream' = [stream EXCEPT ![r] = new]
      /\ late' = late \ {r} /\ fresh' = fresh \cup {r}
      /\ unaware' = unaware \ {r}
      /\ UNCHANGED <<tables, confused>>
  BY DEF Poll
<1>2. r \in RoomNames /\ u \in Users \cup {NoUser}
  BY RoomIsNamed DEF IInv, TypeOK
<1>3. u # NoUser => /\ controller[u].track \in Tracks
                    /\ controller[u].pos \in Positions
  BY <1>2 DEF IInv, TypeOK
<1>4. data \in [user : Users \cup {NoUser}, track : 0..MaxTrack]
  BY <1>2, <1>3, TracksAndPositions
<1>5. new \in Streams
  <2>1. stream[r] \in Streams
    BY <1>2 DEF IInv, TypeOK
  <2>2. Off \in Streams
    BY TracksAndPositions DEF Off
  <2> QED
    BY <1>3, <2>1, <2>2, TracksAndPositions
<1>6. reportPosition(i) \in BOOLEAN
  BY DEF reportPosition
<1> HIDE DEF data, new
<1>7. TypeOK'
  <2>1. mbReportPosition' \in [RoomNames -> BOOLEAN]
    BY <1>1, <1>6 DEF IInv, TypeOK
  <2>2. /\ msUser' \in [RoomNames -> [user : Users \cup {NoUser}, track : 0..MaxTrack]]
        /\ stream' \in [RoomNames -> Streams]
    BY <1>1, <1>4, <1>5 DEF IInv, TypeOK
  <2> QED
    BY <1>1, <1>2, <2>1, <2>2 DEF IInv, TypeOK, tables
<1>8. WritesForSomebody'
  <2> SUFFICES ASSUME NEW q \in RoomNames,
                      mbReportPosition'[q] \/ stream'[q].phase # "off"
               PROVE  msUser'[q].user \in Users
    BY DEF WritesForSomebody
  <2>1. CASE q # r
    BY <1>1, <2>1 DEF IInv, TypeOK, WritesForSomebody
  <2>2. CASE q = r
    <3>1. msUser'[r] = data /\ stream'[r] = new
      BY <1>1, <1>2 DEF IInv, TypeOK
    <3>2. mbReportPosition'[r] => u # NoUser
      BY <1>1, <1>2 DEF IInv, TypeOK, reportPosition
    <3>3. data.user = u
      BY DEF data
    <3>4. CASE u # NoUser
      BY <1>2, <2>2, <3>1, <3>3, <3>4
    <3>5. CASE u = NoUser
      <4>1. stream'[r].phase # "off"
        BY <2>2, <3>2, <3>5
      <4>2. data = msUser[r] /\ stream[r].phase # "off"
        BY <3>1, <3>5, <4>1 DEF new, Off
      <4> QED
        BY <1>2, <2>2, <3>1, <4>2 DEF IInv, WritesForSomebody
    <3> QED
      BY <3>4, <3>5
  <2> QED
    BY <2>1, <2>2
<1>9. FreshKnows'
  <2> SUFFICES ASSUME NEW j \in DOMAIN RoomOrder, RoomOrder[j] \in fresh'
               PROVE  /\ mbReportPosition'[RoomOrder[j]] = reportPosition(j)
                      /\ msUser'[RoomOrder[j]].user = at[RoomOrder[j]]
    BY <1>1 DEF FreshKnows, reportPosition, firstRoom, tables
  <2>1. CASE j = i
    BY <1>1, <1>2, <2>1 DEF IInv, TypeOK, data
  <2>2. CASE j # i
    <3>1. RoomOrder[j] # r /\ RoomOrder[j] \in RoomNames
      BY <2>2, RoomsAssumption, RoomIsNamed
    <3> QED
      BY <1>1, <3>1 DEF IInv, TypeOK, FreshKnows
  <2> QED
    BY <2>1, <2>2
<1> QED
  BY <1>7, <1>8, <1>9 DEF IInv

(* What is written to music_controller keeps to its type. *)
LEMMA WriteIInv ==
  ASSUME IInv, NEW r \in RoomNames, updatePosition(r) \/ requestNextSong(r)
  PROVE  IInv'
<1> DEFINE u == msUser[r].user
           Streams == [phase : {"off", "starting", "playing", "sounding"},
                       pos : 0..Length, seek : Positions]
           Row == [track : Tracks, pos : Positions]
<1>1. stream[r].phase # "off"
  BY DEF updatePosition, requestNextSong
<1>2. u \in Users
  BY <1>1 DEF IInv, WritesForSomebody
<1>3. controller[u] \in Row /\ stream[r] \in Streams
      /\ msUser[r].track \in 0..MaxTrack
  BY <1>2 DEF IInv, TypeOK
<1>4. position(r) \in Positions
  BY <1>3, TracksAndPositions DEF position
<1>5. nextTrack(r) \in Tracks
  BY <1>3, RoomsAssumption DEF nextTrack, Tracks
<1>6. controller' \in [Users -> Row]
  <2>1. CASE updatePosition(r)
    <3>1. controller' = [controller EXCEPT ![u] =
                           [controller[u] EXCEPT !.pos = position(r)]]
      BY <1>2, <2>1 DEF updatePosition, IInv, TypeOK
    <3> QED
      BY <1>3, <1>4, <3>1 DEF IInv, TypeOK
  <2>2. CASE requestNextSong(r)
    <3>1. PICK pos \in {0, controller[u].pos} :
            controller' = [controller EXCEPT ![u] =
                             [track |-> nextTrack(r), pos |-> pos]]
      BY <2>2 DEF requestNextSong
    <3> QED
      BY <1>3, <1>5, <3>1, TracksAndPositions DEF IInv, TypeOK
  <2> QED
    BY <2>1, <2>2
<1>7. confused' \subseteq Users
  BY <1>2 DEF IInv, TypeOK, updatePosition, requestNextSong
<1>8. stream' \in [RoomNames -> Streams]
      /\ \A q \in RoomNames : stream[q].phase = "off" => stream'[q].phase = "off"
  <2>1. stream \in [RoomNames -> Streams]
    BY DEF IInv, TypeOK
  <2>2. Off \in Streams
    BY TracksAndPositions DEF Off
  <2>3. stream' = stream \/ stream' = [stream EXCEPT ![r] = Off]
    BY DEF updatePosition, requestNextSong
  <2> QED
    BY <2>1, <2>2, <2>3 DEF Off
<1>9. UNCHANGED <<at, moves, choices, client, late, fresh, unaware>>
  BY DEF updatePosition, requestNextSong
<1>10. TypeOK'
  BY <1>6, <1>7, <1>8, <1>9 DEF IInv, TypeOK, client
<1>11. WritesForSomebody'
  BY <1>8, <1>9 DEF IInv, WritesForSomebody, client
<1>12. FreshKnows'
  BY <1>9 DEF IInv, FreshKnows, reportPosition, firstRoom, client
<1> QED
  BY <1>10, <1>11, <1>12 DEF IInv

-----------------------------------------------------------------------------
LEMMA NextIInv == IInv /\ [Next]_vars => IInv'
<1> SUFFICES ASSUME IInv, [Next]_vars PROVE IInv'
  OBVIOUS
<1>1. CASE Tick
  BY <1>1, TickIInv
<1>2. ASSUME NEW i \in DOMAIN RoomOrder, Poll(i) PROVE IInv'
  BY <1>2, PollIInv
<1>3. ASSUME NEW r \in RoomNames, NEW u \in Users \cup {NoUser}, Move(r, u)
      PROVE  IInv'
  BY <1>3, MoveIInv
<1>4. ASSUME NEW r \in RoomNames, Plays(r) \/ setPosition(r) PROVE IInv'
  BY <1>4, PlaysIInv
<1>5. ASSUME NEW r \in RoomNames, updatePosition(r) \/ requestNextSong(r)
      PROVE  IInv'
  BY <1>5, WriteIInv
<1>6. ASSUME NEW u \in Users, NEW t \in Tracks, Choose(u, t) PROVE IInv'
  BY <1>6, ChooseIInv
<1>7. CASE UNCHANGED vars
  <2>1. stream' = stream /\ late' = late /\ UNCHANGED <<tables, client, history>>
    BY <1>7 DEF vars
  <2> QED
    BY <2>1, StreamIInv DEF IInv, TypeOK
<1> QED
  BY <1>1, <1>2, <1>3, <1>4, <1>5, <1>6, <1>7 DEF Next

(* The invariant on which the theorems below rest. *)
THEOREM Invariance == Spec => []IInv
BY InitIInv, NextIInv, PTL DEF Spec

(* Every variable keeps its type, and every user a track of the playlist.  *)
THEOREM RoomsTypeCorrect == Spec => []TypeOK
<1>1. IInv => TypeOK
  BY DEF IInv
<1> QED
  BY <1>1, Invariance, PTL

(* updatePosition() and requestNextSong() have a user to write to.         *)
THEOREM WritesFindUser == Spec => []WritesForSomebody
<1>1. IInv => WritesForSomebody
  BY DEF IInv
<1> QED
  BY <1>1, Invariance, PTL

-----------------------------------------------------------------------------
(* Of the rooms of a user there is a first one. *)
LEMMA FirstRoomExists ==
  ASSUME NEW u \in Users, RoomsOf(u) # {}
  PROVE  \E i \in DOMAIN RoomOrder : at[RoomOrder[i]] = u /\ firstRoom(i)
<1> DEFINE T == {i \in DOMAIN RoomOrder : at[RoomOrder[i]] = u}
<1>1. T \subseteq Nat /\ T # {}
  BY RoomsAssumption, RoomIsNamed DEF RoomsOf
<1>2. PICK m \in T : \A j \in T : ~(<<j, m>> \in OpToRel(<, Nat))
  <2> HIDE DEF T
  <2> QED
    BY <1>1, NatLessThanWellFounded, WFMin, Zenon
<1>3. \A j \in T : ~(j < m)
  BY <1>1, <1>2 DEF OpToRel
<1>4. ASSUME NEW j \in 1..(m - 1) PROVE at[RoomOrder[j]] # at[RoomOrder[m]]
  <2>1. j \in DOMAIN RoomOrder /\ j < m
    BY <1>4, RoomsAssumption
  <2> QED
    BY <1>3, <2>1
<1> QED
  BY <1>4 DEF firstRoom

(* There is no other. *)
LEMMA FirstRoomIsOne ==
  ASSUME NEW i \in DOMAIN RoomOrder, NEW j \in DOMAIN RoomOrder,
         firstRoom(i), firstRoom(j), at[RoomOrder[i]] = at[RoomOrder[j]]
  PROVE  i = j
<1>1. i \in Nat /\ j \in Nat /\ i >= 1 /\ j >= 1
  BY RoomsAssumption
<1>2. ~(j < i)
  BY <1>1 DEF firstRoom
<1>3. ~(i < j)
  BY <1>1 DEF firstRoom
<1> QED
  BY <1>1, <1>2, <1>3

(* Rooms that have all polled agree on the first room of each user.        *)
LEMMA FreshRoomsAgree == IInv => ReportersAgree
<1> SUFFICES ASSUME IInv, fresh = RoomNames, NEW u \in Users, RoomsOf(u) # {}
             PROVE  \E r \in RoomsOf(u) : Reporters(u) = {r}
  BY DEF ReportersAgree
<1>1. PICK m \in DOMAIN RoomOrder : at[RoomOrder[m]] = u /\ firstRoom(m)
  BY FirstRoomExists
<1>2. ASSUME NEW i \in DOMAIN RoomOrder
      PROVE  /\ RoomOrder[i] \in RoomNames
             /\ mbReportPosition[RoomOrder[i]] = reportPosition(i)
             /\ msUser[RoomOrder[i]].user = at[RoomOrder[i]]
  BY RoomIsNamed DEF IInv, FreshKnows
<1>3. RoomOrder[m] \in Reporters(u)
  BY <1>1, <1>2, RoomsAssumption DEF Reporters, reportPosition
<1>4. ASSUME NEW q \in Reporters(u) PROVE q = RoomOrder[m]
  <2>1. PICK i \in DOMAIN RoomOrder : q = RoomOrder[i]
    BY RoomIsNamed DEF Reporters
  <2>2. firstRoom(i) /\ at[RoomOrder[i]] = u
    BY <1>2, <2>1 DEF Reporters, reportPosition
  <2> QED
    BY <1>1, <2>1, <2>2, FirstRoomIsOne
<1> QED
  BY <1>1, <1>2, <1>3, <1>4 DEF RoomsOf

(* getDBUser decides in each room by itself which room is the first of a    *)
(* user; once all have polled after a move exactly one of that user's rooms *)
(* reports his position.                                                    *)
THEOREM RoomsAgree == Spec => []ReportersAgree
BY Invariance, FreshRoomsAgree, PTL

-----------------------------------------------------------------------------
(* A room follows a user to the track in the table when it polls next, and  *)
(* it polls within a tick.  Until then the table holds the track that the   *)
(* room will ask for when its own song ends, and the song that plays in     *)
(* the rooms which are ahead of it has hardly begun.                        *)
Playing(r, u) == stream[r].phase # "off" /\ msUser[r].user = u

slack(r) == IF r \in late THEN 1 ELSE 0

OneTrackBehind(u) ==
  \A r \in RoomNames :
    Behind(r, u) /\ r \notin unaware => nextTrack(r) = controller[u].track

HardlyBegun(u) ==
  \A r \in RoomNames : Behind(r, u) =>
    /\ controller[u].pos <= slack(r)
    /\ \A q \in RoomNames : Playing(q, u) /\ ~Behind(q, u) =>
         stream[q].pos <= slack(r) /\ stream[q].seek <= slack(r)

SongInv ==
  \A u \in Users \ confused : OneTrackBehind(u) /\ HardlyBegun(u)

LEMMA InitSongInv == Init => SongInv
<1> SUFFICES ASSUME Init PROVE SongInv
  OBVIOUS
<1>1. \A r \in RoomNames, u \in Users : ~Behind(r, u)
  BY DEF Init, Behind, Off
<1> QED
  BY <1>1 DEF SongInv, OneTrackBehind, HardlyBegun

(* Nobody is confused for a while only. *)
LEMMA ConfusedStays == [Next]_vars => confused \subseteq confused'
<1> SUFFICES ASSUME [Next]_vars PROVE confused \subseteq confused'
  OBVIOUS
<1> QED
  BY DEF Next, Tick, Move, Choose, Poll, Plays, setPosition, updatePosition,
         requestNextSong, vars, history

(* Rooms that play on, for the same users: none falls behind by that. *)
LEMMA StreamSongInv ==
  ASSUME IInv, SongInv, Tick \/ \E r \in RoomNames : Plays(r) \/ setPosition(r)
  PROVE  SongInv'
<1> DEFINE Streams == [phase : {"off", "starting", "playing", "sounding"},
                       pos : 0..Length, seek : Positions]
<1>1. UNCHANGED <<controller, msUser, unaware, confused>>
  BY DEF Tick, Plays, setPosition, tables, client, history
<1>2. stream \in [RoomNames -> Streams]
  BY DEF IInv, TypeOK
<1>3. ASSUME NEW r \in RoomNames
      PROVE  (stream'[r].phase = "off") = (stream[r].phase = "off")
  BY <1>2, <1>3 DEF Tick, Plays, setPosition
<1>4. \A u \in Users, r \in RoomNames :
        Behind(r, u)' = Behind(r, u) /\ Playing(r, u)' = Playing(r, u)
  BY <1>1, <1>3 DEF Behind, Playing
<1>5. \A u \in Users : OneTrackBehind(u) => OneTrackBehind(u)'
  BY <1>1, <1>4 DEF OneTrackBehind, nextTrack
<1>6. ASSUME NEW u \in Users, HardlyBegun(u), NEW r \in RoomNames, Behind(r, u)
      PROVE  /\ controller'[u].pos <= slack(r)'
             /\ \A q \in RoomNames : Playing(q, u) /\ ~Behind(q, u) =>
                  stream'[q].pos <= slack(r)' /\ stream'[q].seek <= slack(r)'
  <2>1. controller[u].pos \in Int
    BY DEF IInv, TypeOK, Positions
  <2>2. CASE Tick
    <3>1. slack(r) = 0 /\ slack(r)' = 1
      BY <2>2 DEF Tick, slack
    <3>2. ASSUME NEW q \in RoomNames, Playing(q, u), ~Behind(q, u)
          PROVE  stream'[q].pos <= 1 /\ stream'[q].seek <= 1
      <4>1. stream[q] \in Streams /\ stream[q].pos <= 0 /\ stream[q].seek <= 0
        BY <1>2, <1>6, <3>1, <3>2 DEF HardlyBegun
      <4>2. stream'[q] = stream[q]
            \/ stream'[q] = [stream[q] EXCEPT !.pos = stream[q].pos + 1]
        BY <2>2 DEF Tick
      <4> QED
        BY <4>1, <4>2, RoomsAssumption DEF Positions
    <3> QED
      BY <1>1, <1>6, <2>1, <3>1, <3>2 DEF HardlyBegun
  <2>3. ASSUME NEW p \in RoomNames, Plays(p) \/ setPosition(p)
        PROVE  /\ controller'[u].pos <= slack(r)'
               /\ \A q \in RoomNames : Playing(q, u) /\ ~Behind(q, u) =>
                    stream'[q].pos <= slack(r)' /\ stream'[q].seek <= slack(r)'
    <3>1. late' = late
      BY <2>3 DEF Plays, setPosition
    <3>2. slack(r)' = slack(r) /\ slack(r) \in {0, 1}
      BY <3>1 DEF slack
    <3>3. ASSUME NEW q \in RoomNames
          PROVE  /\ stream'[q].pos \in {stream[q].pos, stream[q].seek, 0}
                 /\ stream'[q].seek \in {stream[q].seek, 0}
      BY <1>2, <2>3 DEF Plays, setPosition
    <3> QED
      BY <1>1, <1>6, <3>2, <3>3 DEF HardlyBegun
  <2> QED
    BY <2>2, <2>3
<1>7. \A u \in Users : HardlyBegun(u) => HardlyBegun(u)'
  BY <1>4, <1>6 DEF HardlyBegun
<1> QED
  BY <1>1, <1>5, <1>7 DEF SongInv

(* A room polls: it is not behind then, and begins where the others are. *)
LEMMA PollSongInv ==
  ASSUME IInv, SongInv, NEW i \in DOMAIN RoomOrder, Poll(i)
  PROVE  SongInv'
<1> DEFINE p == RoomOrder[i]
<1>1. UNCHANGED <<controller, confused>> /\ late' = late \ {p}
      /\ unaware' = unaware \ {p}
  BY DEF Poll, tables
<1>2. p \in RoomNames /\ at[p] \in Users \cup {NoUser}
  BY RoomIsNamed DEF IInv, TypeOK
<1>3. \A q \in RoomNames \ {p} : msUser'[q] = msUser[q] /\ stream'[q] = stream[q]
  BY DEF Poll, IInv, TypeOK
<1>4. ASSUME NEW u \in Users
      PROVE  ~Behind(p, u)'
  <2> SUFFICES ASSUME msUser'[p].user = u
               PROVE  msUser'[p].track = controller[u].track
    BY <1>1 DEF Behind
  <2>1. u # NoUser
    BY RoomsAssumption
  <2> QED
    BY <1>2, <2>1 DEF Poll, IInv, TypeOK
<1>5. \A u \in Users : \A q \in RoomNames \ {p} :
        Behind(q, u)' = Behind(q, u) /\ Playing(q, u)' = Playing(q, u)
        /\ slack(q)' = slack(q)
  BY <1>1, <1>3 DEF Behind, Playing, slack
<1>6. ASSUME NEW u \in Users, OneTrackBehind(u) PROVE OneTrackBehind(u)'
  BY <1>1, <1>3, <1>4, <1>5, <1>6 DEF OneTrackBehind, nextTrack
<1>7. ASSUME NEW u \in Users, HardlyBegun(u) PROVE HardlyBegun(u)'
  <2> SUFFICES ASSUME NEW r \in RoomNames \ {p}, Behind(r, u),
                      NEW q \in RoomNames, Playing(q, u)', ~Behind(q, u)'
               PROVE  stream'[q].pos <= slack(r) /\ stream'[q].seek <= slack(r)
    BY <1>1, <1>4, <1>5, <1>7 DEF HardlyBegun
  <2>1. CASE q # p
    BY <1>3, <1>5, <1>7, <2>1 DEF HardlyBegun
  <2>2. CASE q = p /\ stream'[p] = stream[p] /\ msUser'[p] = msUser[p]
    BY <1>1, <1>7, <2>2 DEF HardlyBegun, Playing, Behind
  <2>3. CASE q = p /\ ~(stream'[p] = stream[p] /\ msUser'[p] = msUser[p])
    <3>1. stream'[p].phase # "off" /\ msUser'[p].user = u /\ u # NoUser
      BY <2>3, RoomsAssumption DEF Playing
    <3>2. stream'[p] = [phase |-> "starting", pos |-> 0,
                        seek |-> controller[u].pos]
      BY <1>2, <2>3, <3>1 DEF Poll, IInv, TypeOK, Off
    <3>3. controller[u].pos <= slack(r) /\ slack(r) \in {0, 1}
      BY <1>7 DEF HardlyBegun, slack
    <3> QED
      BY <2>3, <3>2, <3>3
  <2> QED
    BY <2>1, <2>2, <2>3
<1> QED
  BY <1>1, <1>6, <1>7 DEF SongInv

(* A position is reported by a room that is not behind, or for one who is   *)
(* confused from then on.                                                   *)
LEMMA UpdateSongInv ==
  ASSUME IInv, SongInv, NEW p \in RoomNames, updatePosition(p)
  PROVE  SongInv'
<1> DEFINE v == msUser[p].user
<1>1. UNCHANGED <<msUser, stream, late, unaware>> /\ v \in Users
      /\ stream[p].phase # "off"
  BY DEF updatePosition, client, IInv, WritesForSomebody
<1>2. controller' = [controller EXCEPT ![v].pos = position(p)]
  BY DEF updatePosition
<1>3. \A u \in Users : controller'[u].track = controller[u].track
  BY <1>2 DEF IInv, TypeOK
<1>4. \A u \in Users, r \in RoomNames :
        Behind(r, u)' = Behind(r, u) /\ Playing(r, u)' = Playing(r, u)
        /\ slack(r)' = slack(r) /\ slack(r) \in {0, 1}
  BY <1>1, <1>3 DEF Behind, Playing, slack
<1>5. \A u \in Users : OneTrackBehind(u) => OneTrackBehind(u)'
  BY <1>1, <1>3, <1>4 DEF OneTrackBehind, nextTrack
<1>6. ASSUME NEW u \in Users \ confused', HardlyBegun(u) PROVE HardlyBegun(u)'
  <2> SUFFICES ASSUME NEW r \in RoomNames, Behind(r, u)
               PROVE  controller'[u].pos <= slack(r)
    BY <1>1, <1>4, <1>6 DEF HardlyBegun
  <2>1. CASE u # v
    BY <1>2, <1>6, <2>1 DEF HardlyBegun, IInv, TypeOK
  <2>2. CASE u = v
    <3>1. controller'[u].pos = position(p)
      BY <1>1, <1>2, <2>2 DEF IInv, TypeOK
    <3>2. Playing(p, u) /\ ~Behind(p, u)
      BY <1>1, <2>2 DEF updatePosition, Playing, Behind
    <3>3. stream[p].pos <= slack(r) /\ slack(r) \in {0, 1}
      BY <1>4, <1>6, <3>2 DEF HardlyBegun
    <3> QED
      BY <3>1, <3>3 DEF position
  <2> QED
    BY <2>1, <2>2
<1>7. confused \subseteq confused'
  BY DEF updatePosition
<1> QED
  BY <1>5, <1>6, <1>7 DEF SongInv

(* A room asks for the next track of one who is not confused from then on.  *)
(* Either the table has it already, or the room is not behind; its song is  *)
(* over, so that nobody else is behind either, and all others are now.      *)
LEMMA NewTrackIsPlayedOut ==
  ASSUME IInv, SongInv, NEW p \in RoomNames, requestNextSong(p),
         msUser[p].user \notin confused',
         controller[msUser[p].user].track # nextTrack(p)
  PROVE  /\ PlaysOut(msUser[p].user)
         /\ \A r \in RoomNames : ~Behind(r, msUser[p].user)
<1> DEFINE u == msUser[p].user
<1>1. u \in Users \ confused /\ stream[p].phase = "sounding"
      /\ stream[p].pos = Length
  BY DEF requestNextSong, IInv, WritesForSomebody
<1>2. p \notin unaware
  BY DEF requestNextSong
<1>3. ~Behind(p, u)
  BY <1>1, <1>2 DEF SongInv, OneTrackBehind
<1>4. Playing(p, u) /\ msUser[p].track = controller[u].track
  BY <1>1, <1>3 DEF Behind, Playing
<1>5. msUser[p] = [user |-> u, track |-> controller[u].track]
  BY <1>4 DEF IInv, TypeOK
<1>6. \A r \in RoomNames : ~Behind(r, u)
  BY <1>1, <1>3, <1>4, RoomsAssumption DEF SongInv, HardlyBegun, slack
<1> QED
  BY <1>1, <1>5, <1>6 DEF PlaysOut

LEMMA RequestSongInv ==
  ASSUME IInv, SongInv, NEW p \in RoomNames, requestNextSong(p)
  PROVE  SongInv'
<1>0. PICK v : v = msUser[p].user
  OBVIOUS
<1> USE <1>0
<1>1. UNCHANGED <<msUser, late, unaware>> /\ confused \subseteq confused'
      /\ stream' = [stream EXCEPT ![p] = Off]
  BY DEF requestNextSong, client
<1>2. v \in Users /\ controller[v] \in [track : Tracks, pos : Positions]
  BY DEF requestNextSong, IInv, TypeOK, WritesForSomebody
<1>3. PICK pos \in {0, controller[v].pos} :
        /\ controller' = [controller EXCEPT ![v] =
                            [track |-> nextTrack(p), pos |-> pos]]
        /\ controller[v].track = nextTrack(p) => pos = controller[v].pos
        /\ v \in confused' \/ controller[v].track = nextTrack(p) \/ ~(pos > 0)
  BY DEF requestNextSong
<1>4. \A u \in Users \ {v} : controller'[u] = controller[u]
  BY <1>3 DEF IInv, TypeOK
<1>5. controller'[v] = [track |-> nextTrack(p), pos |-> pos]
  BY <1>2, <1>3 DEF IInv, TypeOK
<1>6. \A r \in RoomNames : slack(r)' = slack(r) /\ slack(r) \in {0, 1}
                           /\ nextTrack(r)' = nextTrack(r)
  BY <1>1 DEF slack, nextTrack
<1>7. /\ \A q \in RoomNames \ {p} : stream'[q] = stream[q]
      /\ stream'[p].phase = "off"
  BY <1>1 DEF IInv, TypeOK, Off
<1>8. ASSUME NEW u \in Users \ confused',
             controller'[u].track = controller[u].track,
             controller'[u].pos = controller[u].pos
      PROVE  OneTrackBehind(u)' /\ HardlyBegun(u)'
  <2>1. \A r \in RoomNames \ {p} : Behind(r, u)' = Behind(r, u)
                                   /\ Playing(r, u)' = Playing(r, u)
    BY <1>1, <1>7, <1>8 DEF Behind, Playing
  <2>2. ~Behind(p, u)' /\ ~Playing(p, u)'
    BY <1>7 DEF Behind, Playing
  <2>3. OneTrackBehind(u) /\ HardlyBegun(u)
    BY <1>1, <1>8 DEF SongInv
  <2> QED
    BY <1>1, <1>6, <1>7, <1>8, <2>1, <2>2, <2>3 DEF OneTrackBehind, HardlyBegun
<1>9. ASSUME v \notin confused', controller[v].track # nextTrack(p)
      PROVE  OneTrackBehind(v)' /\ HardlyBegun(v)'
  <2>1. \A r \in RoomNames : ~Behind(r, v)
    BY <1>9, NewTrackIsPlayedOut
  <2>2. ~Behind(p, v) /\ msUser[p].track = controller[v].track
    BY <2>1 DEF Behind, requestNextSong
  <2>3. ASSUME NEW r \in RoomNames, Playing(r, v)'
        PROVE  Behind(r, v)' /\ nextTrack(r) = nextTrack(p)
    <3>1. Playing(r, v)
      BY <1>1, <1>7, <2>3 DEF Playing
    <3>2. msUser[r].track = controller[v].track
      BY <2>1, <3>1 DEF Behind, Playing
    <3> QED
      BY <1>1, <1>5, <1>9, <2>2, <2>3, <3>2 DEF Behind, Playing, nextTrack
  <2>4. \A r \in RoomNames : Behind(r, v)' => Playing(r, v)'
    BY DEF Behind, Playing
  <2>5. OneTrackBehind(v)'
    <3>1. ASSUME NEW r \in RoomNames, Behind(r, v)'
          PROVE  nextTrack(r)' = controller'[v].track
      BY <1>5, <1>6, <2>3, <2>4, <3>1
    <3> QED
      BY <3>1 DEF OneTrackBehind
  <2>6. pos <= 0
    BY <1>2, <1>3, <1>9 DEF Positions
  <2>7. HardlyBegun(v)'
    <3>1. ASSUME NEW r \in RoomNames PROVE controller'[v].pos <= slack(r)'
      BY <1>2, <1>5, <1>6, <2>6 DEF Positions
    <3> QED
      BY <2>3, <3>1 DEF HardlyBegun
  <2> QED
    BY <2>5, <2>7
<1>10. CASE controller[v].track = nextTrack(p)
  BY <1>3, <1>4, <1>5, <1>8, <1>10 DEF SongInv
<1>11. CASE controller[v].track # nextTrack(p)
  <2>1. \A u \in Users \ confused' : OneTrackBehind(u)' /\ HardlyBegun(u)'
    BY <1>4, <1>8, <1>9, <1>11
  <2> QED
    BY <2>1 DEF SongInv
<1> QED
  BY <1>10, <1>11

(* A choice leaves all rooms of the user behind, at the same song. *)
LEMMA ChooseSongInv ==
  ASSUME IInv, SongInv, NEW v \in Users, NEW t \in Tracks, Choose(v, t)
  PROVE  SongInv'
<1>1. UNCHANGED <<msUser, stream, late>> /\ confused \subseteq confused'
      /\ unaware' = unaware \cup {r \in RoomNames : msUser[r].user = v}
  BY DEF Choose, client
<1>2. PICK pos \in {0, controller[v].pos} :
        /\ controller' = [controller EXCEPT ![v] = [track |-> t, pos |-> pos]]
        /\ confused' = confused \cup
             {w \in {v} : pos > 0 \/ \E r \in RoomNames : Behind(r, v)}
  BY DEF Choose
<1>3. /\ \A u \in Users \ {v} : controller'[u] = controller[u]
      /\ controller'[v] = [track |-> t, pos |-> pos]
      /\ controller[v].pos \in Positions
  BY <1>2 DEF IInv, TypeOK
<1>4. \A r \in RoomNames : slack(r)' = slack(r) /\ slack(r) \in {0, 1}
                           /\ nextTrack(r)' = nextTrack(r)
  BY <1>1 DEF slack, nextTrack
<1>5. ASSUME NEW u \in Users \ confused', u # v
      PROVE  OneTrackBehind(u)' /\ HardlyBegun(u)'
  <2>1. \A r \in RoomNames : Behind(r, u)' = Behind(r, u)
                             /\ Playing(r, u)' = Playing(r, u)
    BY <1>1, <1>3, <1>5 DEF Behind, Playing
  <2>2. OneTrackBehind(u) /\ HardlyBegun(u)
    BY <1>1, <1>5 DEF SongInv
  <2> QED
    BY <1>1, <1>3, <1>4, <1>5, <2>1, <2>2 DEF OneTrackBehind, HardlyBegun
<1>6. ASSUME v \notin confused' PROVE OneTrackBehind(v)' /\ HardlyBegun(v)'
  <2>1. ~(pos > 0) /\ \A r \in RoomNames : ~Behind(r, v)
    BY <1>2, <1>6
  <2>2. pos <= 0
    BY <1>3, <2>1 DEF Positions
  <2>3. \A r \in RoomNames : Playing(r, v)' => Behind(r, v)'
    BY <1>1, <1>3, <2>1 DEF Playing, Behind, Choose
  <2>4. \A r \in RoomNames : Behind(r, v)' => r \in unaware'
    BY <1>1 DEF Behind
  <2> QED
    BY <1>3, <1>4, <2>2, <2>3, <2>4 DEF OneTrackBehind, HardlyBegun, Positions
<1> QED
  BY <1>5, <1>6 DEF SongInv

LEMMA NextSongInv == IInv /\ SongInv /\ [Next]_vars => SongInv'
<1> SUFFICES ASSUME IInv, SongInv, [Next]_vars PROVE SongInv'
  OBVIOUS
<1>1. CASE Tick \/ \E r \in RoomNames : Plays(r) \/ setPosition(r)
  BY <1>1, StreamSongInv
<1>2. ASSUME NEW i \in DOMAIN RoomOrder, Poll(i) PROVE SongInv'
  BY <1>2, PollSongInv
<1>3. CASE UNCHANGED vars
           \/ \E r \in RoomNames, u \in Users \cup {NoUser} : Move(r, u)
  <2>1. UNCHANGED <<controller, msUser, stream, late, unaware, confused>>
    BY <1>3 DEF Move, vars, tables, client, history
  <2> QED
    BY <2>1 DEF SongInv, OneTrackBehind, HardlyBegun, Behind, Playing, slack,
                nextTrack
<1>4. ASSUME NEW u \in Users, NEW t \in Tracks, Choose(u, t) PROVE SongInv'
  BY <1>4, ChooseSongInv
<1>5. ASSUME NEW r \in RoomNames, updatePosition(r) PROVE SongInv'
  BY <1>5, UpdateSongInv
<1>6. ASSUME NEW r \in RoomNames, requestNextSong(r) PROVE SongInv'
  BY <1>6, RequestSongInv
<1> QED
  BY <1>1, <1>2, <1>3, <1>4, <1>5, <1>6 DEF Next

(* The step that changes a track is the end of that song, or a choice. *)
LEMMA TrackIsLeftAtItsEnd ==
  ASSUME IInv, SongInv, [Next]_vars, NEW u \in Users,
         controller'[u].track # controller[u].track
  PROVE  PlaysOut(u) \/ Chosen(u) \/ u \in confused'
<1>1. controller' # controller
  OBVIOUS
<1>2. ASSUME NEW v \in Users, NEW t \in Tracks, Choose(v, t)
      PROVE  Chosen(u)
  BY <1>2, RoomsAssumption DEF Choose, Chosen, IInv, TypeOK
<1>3. ASSUME NEW r \in RoomNames, updatePosition(r) PROVE FALSE
  BY <1>3 DEF updatePosition, IInv, TypeOK
<1>4. ASSUME NEW r \in RoomNames, requestNextSong(r)
      PROVE  PlaysOut(u) \/ u \in confused'
  <2>1. u = msUser[r].user /\ controller[u].track # nextTrack(r)
    BY <1>4 DEF requestNextSong, IInv, TypeOK
  <2> QED
    BY <1>4, <2>1, NewTrackIsPlayedOut
<1> QED
  BY <1>1, <1>2, <1>3, <1>4 DEF Next, Tick, Poll, Move, Plays, setPosition,
                                vars, tables

(* However many rooms play for a user, and however late each of them ends   *)
(* its song and polls, no song is skipped: updatePosition() and             *)
(* requestNextSong() change the track in the table at the end of that very  *)
(* track only, but for the cases that SongsPlayOut names.                   *)
THEOREM SongsAreNotSkipped == Spec => SongsPlayOut
<1>1. Spec => []SongInv
  BY InitSongInv, NextSongInv, Invariance, PTL DEF Spec
<1>2. IInv /\ SongInv /\ [Next]_vars =>
        [\A u \in Users : controller'[u].track # controller[u].track =>
           PlaysOut(u) \/ Chosen(u) \/ u \in confused']_vars
  BY TrackIsLeftAtItsEnd
<1> QED
  BY <1>1, <1>2, Invariance, PTL DEF Spec, SongsPlayOut

-----------------------------------------------------------------------------
(* Where a room may begin: at the beginning, or at a place that was heard.  *)
Known(u, p) == p <= 0 \/ p \in heard[u]

OnTrack(r, u) ==
  /\ stream[r].phase # "off"
  /\ msUser[r] = [user |-> u, track |-> controller[u].track]

(* The position in the table, and where the rooms that play the track are   *)
(* or will seek to, have all been heard.                                    *)
HeardOf(u) ==
  /\ heard[u] \subseteq 0..Length
  /\ \A p \in heard[u] : 0..p \subseteq heard[u]
  /\ Known(u, controller[u].pos)
  /\ \A r \in RoomNames : OnTrack(r, u) =>
       /\ Known(u, stream[r].seek)
       /\ stream[r].phase = "sounding" => stream[r].pos \in heard[u]

HeardInv == \A u \in Users \ confused : HeardOf(u)

(* What House allows of one user, as long as nobody chooses. *)
Onward(u) == House!Stays(u) \/ House!HearsOn(u) \/ House!SongOver(u)

LEMMA InitHeardInv == HeardInit => HeardInv
<1> SUFFICES ASSUME HeardInit, NEW u \in Users PROVE HeardOf(u)
  BY DEF HeardInv
<1>1. heard[u] = {} /\ controller[u].pos = 0
  BY DEF HeardInit, Init
<1>2. \A r \in RoomNames : ~OnTrack(r, u)
  BY DEF HeardInit, Init, OnTrack, Off
<1> QED
  BY <1>1, <1>2 DEF HeardOf, Known

(* Heard are the places where the rooms are, and those of before. *)
LEMMA HeardIs ==
  ASSUME Hear, NEW u \in Users \ confused'
  PROVE  /\ heard'[u] = Places(u)' \cup
              (IF controller'[u].track = controller[u].track
               THEN heard[u] ELSE {})
         /\ \A p \in Places(u)' : \E r \in RoomNames :
              /\ p = stream'[r].pos /\ stream'[r].phase = "sounding"
              /\ OnTrack(r, u)'
         /\ \A r \in RoomNames :
              OnTrack(r, u)' /\ stream'[r].phase = "sounding" =>
                stream'[r].pos \in Places(u)'
<1>1. heard'[u] = Places(u)' \cup
        (IF controller'[u].track = controller[u].track THEN heard[u] ELSE {})
  BY DEF Hear
<1> QED
  BY <1>1 DEF Places, Sounds, OnTrack

(* What one step adds to a beginning of the song is the next place of it. *)
LEMMA OneMore ==
  ASSUME NEW H, H \subseteq 0..Length, \A p \in H : 0..p \subseteq H,
         NEW P, P \subseteq 0..Length,
         \A p \in P : p \in {0} \cup H \/ p - 1 \in H
  PROVE  /\ \A p \in P \cup H : 0..p \subseteq P \cup H
         /\ P \cup H # H =>
              \E p \in 0..Length : /\ p = 0 \/ p - 1 \in H
                                  /\ P \cup H = H \cup {p}
<1>0. Length \in Nat /\ \A p \in P \cup H : p \in Nat /\ p \in 0..Length
  BY RoomsAssumption
<1>1. ASSUME NEW p \in P PROVE 0..p \subseteq P \cup H
  <2>1. CASE p \in H
    BY <2>1
  <2>2. CASE p = 0
    <3>1. 0..p = {p}
      BY <2>2
    <3> QED
      BY <3>1
  <2>3. CASE p - 1 \in H
    <3>1. 0..(p - 1) \subseteq H
      BY <2>3
    <3>2. ASSUME NEW q \in 0..p PROVE q = p \/ q \in 0..(p - 1)
      BY <1>0
    <3> QED
      BY <3>1, <3>2
  <2> QED
    BY <2>1, <2>2, <2>3
<1>2. ASSUME NEW p \in P \ H, NEW q \in P \ H PROVE ~(p < q)
  <2> SUFFICES ASSUME p < q PROVE FALSE
    OBVIOUS
  <2>1. p \in Nat /\ q \in Nat
    BY <1>0
  <2>2. q - 1 \in H
    BY <2>1
  <2>3. p \in 0..(q - 1)
    BY <2>1
  <2> QED
    BY <2>2, <2>3
<1>3. ASSUME NEW p \in P \ H PROVE P \cup H = H \cup {p}
  <2>1. ASSUME NEW q \in P \ H PROVE q = p
    <3>1. ~(p < q) /\ ~(q < p)
      BY <1>2, <1>3
    <3> QED
      BY <1>0, <3>1
  <2> QED
    BY <2>1
<1>4. ASSUME P \cup H # H
      PROVE  \E p \in 0..Length : (p = 0 \/ p - 1 \in H) /\ P \cup H = H \cup {p}
  <2>1. PICK p \in P \ H : TRUE
    BY <1>4
  <2> QED
    BY <1>3, <2>1
<1> QED
  BY <1>1, <1>4

(* The track goes on, and each room sounds where somebody has heard it, or  *)
(* one tick further on.                                                     *)
LEMMA TrackGoesOn ==
  ASSUME TypeOK', Hear, NEW u \in Users \ confused', HeardOf(u),
         controller'[u].track = controller[u].track,
         Known(u, controller'[u].pos),
         \A r \in RoomNames : OnTrack(r, u)' =>
           /\ Known(u, stream'[r].seek)
           /\ stream'[r].phase = "sounding" =>
                \/ stream'[r].pos \in {0} \cup heard[u]
                \/ stream'[r].pos - 1 \in heard[u]
  PROVE  HeardOf(u)' /\ (House!Stays(u) \/ House!HearsOn(u))
<1>1. heard'[u] = Places(u)' \cup heard[u]
  BY HeardIs
<1>2. /\ heard[u] \subseteq 0..Length
      /\ \A p \in heard[u] : 0..p \subseteq heard[u]
  BY DEF HeardOf
<1>3. /\ Places(u)' \subseteq 0..Length
      /\ \A p \in Places(u)' : p \in {0} \cup heard[u] \/ p - 1 \in heard[u]
  <2> SUFFICES ASSUME NEW p \in Places(u)'
               PROVE  /\ p \in 0..Length
                      /\ p \in {0} \cup heard[u] \/ p - 1 \in heard[u]
    OBVIOUS
  <2>1. PICK r \in RoomNames : /\ p = stream'[r].pos
                               /\ stream'[r].phase = "sounding" /\ OnTrack(r, u)'
    BY HeardIs
  <2> QED
    BY <2>1 DEF TypeOK
<1>4. heard'[u] \subseteq 0..Length
      /\ \A p \in heard'[u] : 0..p \subseteq heard'[u]
  BY <1>1, <1>2, <1>3, OneMore
<1>5. Known(u, controller[u].pos)'
  BY <1>1 DEF Known
<1>6. ASSUME NEW r \in RoomNames, OnTrack(r, u)'
      PROVE  /\ Known(u, stream[r].seek)'
             /\ stream'[r].phase = "sounding" => stream'[r].pos \in heard'[u]
  BY <1>1, <1>6, HeardIs DEF Known
<1>7. House!Stays(u) \/ House!HearsOn(u)
  <2> DEFINE P == Places(u)'
             H == heard[u]
  <2>1. P \cup H # H =>
          \E p \in 0..Length : (p = 0 \/ p - 1 \in H) /\ P \cup H = H \cup {p}
    <3> HIDE DEF P, H
    <3> QED
      BY <1>2, <1>3, OneMore DEF P, H
  <2> QED
    BY <1>1, <2>1 DEF House!Stays, House!HearsOn
<1> QED
  BY <1>4, <1>5, <1>6, <1>7 DEF HeardOf

(* A new track, which no room plays yet. *)
LEMMA TrackBegins ==
  ASSUME Hear, NEW u \in Users \ confused',
         controller'[u].track # controller[u].track, controller'[u].pos <= 0,
         \A r \in RoomNames : ~OnTrack(r, u)'
  PROVE  HeardOf(u)' /\ heard'[u] = {}
<1>1. heard'[u] = {}
  BY HeardIs
<1> QED
  BY <1>1 DEF HeardOf, Known

(* Nothing that matters to a user has changed. *)
LEMMA NotConcerned ==
  ASSUME TypeOK', Hear, NEW u \in Users \ confused', HeardOf(u),
         controller'[u] = controller[u],
         \A r \in RoomNames : OnTrack(r, u)' =>
           OnTrack(r, u) /\ stream'[r] = stream[r]
  PROVE  HeardOf(u)' /\ House!Stays(u)
<1>1. \A r \in RoomNames : OnTrack(r, u)' =>
        /\ Known(u, stream'[r].seek)
        /\ stream'[r].phase = "sounding" => stream'[r].pos \in heard[u]
  BY DEF HeardOf
<1>2. Known(u, controller'[u].pos)
  BY DEF HeardOf
<1>3. heard'[u] = heard[u]
  <2>1. heard'[u] = Places(u)' \cup heard[u]
    BY HeardIs
  <2>2. \A p \in Places(u)' : p \in heard[u]
    BY <1>1, HeardIs
  <2> QED
    BY <2>1, <2>2
<1>4. House!Stays(u)
  BY <1>3 DEF House!Stays
<1> QED
  BY <1>1, <1>2, <1>4, TrackGoesOn

(* Music plays on, starts, or goes to where it was to start. *)
LEMMA StreamHeardInv ==
  ASSUME IInv, IInv', Hear, NEW u \in Users \ confused', HeardOf(u),
         Tick \/ \E r \in RoomNames : Plays(r) \/ setPosition(r)
  PROVE  HeardOf(u)' /\ Onward(u)
<1> DEFINE Streams == [phase : {"off", "starting", "playing", "sounding"},
                       pos : 0..Length, seek : Positions]
<1>1. UNCHANGED <<controller, msUser>>
  BY DEF Tick, Plays, setPosition, tables, client
<1>2. stream \in [RoomNames -> Streams]
  BY DEF IInv, TypeOK
<1>3. Known(u, controller'[u].pos)
  BY <1>1 DEF HeardOf
<1>4. ASSUME NEW r \in RoomNames, OnTrack(r, u)'
      PROVE  /\ Known(u, stream'[r].seek)
             /\ stream'[r].phase = "sounding" =>
                  \/ stream'[r].pos \in {0} \cup heard[u]
                  \/ stream'[r].pos - 1 \in heard[u]
  <2>1. stream[r] \in Streams /\ stream[r].pos \in Int /\ stream[r].seek \in Int
    BY <1>2 DEF Positions
  <2>2. OnTrack(r, u)
    BY <1>1, <1>2, <1>4 DEF OnTrack, Tick, Plays, setPosition
  <2>3. /\ Known(u, stream[r].seek)
        /\ stream[r].phase = "sounding" => stream[r].pos \in heard[u]
    BY <2>2 DEF HeardOf
  <2>4. CASE Tick
    <3>1. \/ stream'[r] = stream[r]
          \/ stream[r].phase = "sounding"
             /\ stream'[r] = [stream[r] EXCEPT !.pos = stream[r].pos + 1]
      BY <2>4 DEF Tick
    <3> QED
      BY <2>1, <2>3, <3>1
  <2>5. ASSUME NEW q \in RoomNames, Plays(q) \/ setPosition(q)
        PROVE  /\ Known(u, stream'[r].seek)
               /\ stream'[r].phase = "sounding" =>
                    stream'[r].pos \in {0} \cup heard[u]
    <3>1. CASE stream'[r] = stream[r]
      BY <2>3, <3>1
    <3>2. CASE Plays(q) /\ q = r
      BY <1>2, <2>3, <3>2 DEF Plays
    <3>3. CASE setPosition(q) /\ q = r
      <4>1. stream'[r] = [phase |-> "sounding", seek |-> 0,
                          pos |-> IF stream[r].seek > 0 THEN stream[r].seek ELSE 0]
        BY <1>2, <3>3 DEF setPosition
      <4> QED
        BY <2>1, <2>3, <4>1 DEF Known
    <3> QED
      BY <1>2, <2>5, <3>1, <3>2, <3>3 DEF Plays, setPosition
  <2> QED
    BY <2>4, <2>5
<1> QED
  BY <1>1, <1>3, <1>4, TrackGoesOn DEF IInv, Onward


(* A room that starts a song seeks to the position in the table. *)
LEMMA PollHeardInv ==
  ASSUME IInv, IInv', Hear, NEW u \in Users \ confused', HeardOf(u),
         NEW i \in DOMAIN RoomOrder, Poll(i)
  PROVE  HeardOf(u)' /\ Onward(u)
<1> DEFINE p == RoomOrder[i]
<1>1. controller' = controller
  BY DEF Poll, tables
<1>2. p \in RoomNames /\ at[p] \in Users \cup {NoUser}
  BY RoomIsNamed DEF IInv, TypeOK
<1>3. \A q \in RoomNames \ {p} : msUser'[q] = msUser[q] /\ stream'[q] = stream[q]
  BY DEF Poll, IInv, TypeOK
<1>4. Known(u, controller'[u].pos)
  BY <1>1 DEF HeardOf
<1>5. ASSUME NEW r \in RoomNames, OnTrack(r, u)'
      PROVE  /\ Known(u, stream'[r].seek)
             /\ stream'[r].phase = "sounding" => stream'[r].pos \in heard[u]
  <2>1. CASE stream'[r] = stream[r] /\ msUser'[r] = msUser[r]
    <3>1. OnTrack(r, u)
      BY <1>1, <1>5, <2>1 DEF OnTrack
    <3> QED
      BY <2>1, <3>1 DEF HeardOf
  <2>2. CASE ~(stream'[r] = stream[r] /\ msUser'[r] = msUser[r])
    <3>1. r = p
      BY <1>3, <2>2
    <3>2. stream'[p].phase # "off" /\ msUser'[p].user = u /\ u # NoUser
      BY <1>5, <3>1, RoomsAssumption DEF OnTrack
    <3>3. stream'[p] = [phase |-> "starting", pos |-> 0,
                        seek |-> controller[u].pos]
      BY <1>2, <2>2, <3>1, <3>2 DEF Poll, IInv, TypeOK, Off
    <3> QED
      BY <3>1, <3>3 DEF HeardOf
  <2> QED
    BY <2>1, <2>2
<1> QED
  BY <1>1, <1>4, <1>5, TrackGoesOn DEF IInv, Onward

(* A room that reports for one who is not confused plays the track in the   *)
(* table: it reports -1, 0 or a place where it has sounded.                 *)
LEMMA UpdateHeardInv ==
  ASSUME IInv, IInv', Hear, NEW u \in Users \ confused', HeardOf(u),
         NEW p \in RoomNames, updatePosition(p)
  PROVE  HeardOf(u)' /\ Onward(u)
<1> DEFINE v == msUser[p].user
<1>1. UNCHANGED <<msUser, stream>> /\ v \in Users /\ stream[p].phase # "off"
  BY DEF updatePosition, client, IInv, WritesForSomebody
<1>2. controller' = [controller EXCEPT ![v].pos = position(p)]
  BY DEF updatePosition
<1>3. controller'[u].track = controller[u].track
  BY <1>2 DEF IInv, TypeOK
<1>4. \A r \in RoomNames : OnTrack(r, u)' => OnTrack(r, u)
  BY <1>1, <1>3 DEF OnTrack
<1>5. Known(u, controller'[u].pos)
  <2>1. CASE u # v
    BY <1>2, <2>1 DEF HeardOf, IInv, TypeOK
  <2>2. CASE u = v
    <3>1. controller'[u].pos = position(p)
      BY <1>1, <1>2, <2>2 DEF IInv, TypeOK
    <3>2. OnTrack(p, u)
      BY <1>1, <2>2 DEF updatePosition, OnTrack, IInv, TypeOK
    <3>3. stream[p].phase \in {"starting", "playing", "sounding"}
      BY <1>1 DEF IInv, TypeOK
    <3> QED
      BY <3>1, <3>2, <3>3 DEF HeardOf, Known, position
  <2> QED
    BY <2>1, <2>2
<1> QED
  BY <1>1, <1>3, <1>4, <1>5, TrackGoesOn DEF HeardOf, IInv, Onward

(* The end of a song: whoever is not confused begins the next one at its    *)
(* beginning, and nobody is ahead of the table.                             *)
LEMMA RequestHeardInv ==
  ASSUME IInv, IInv', SongInv, Hear, NEW u \in Users \ confused', HeardOf(u),
         NEW p \in RoomNames, requestNextSong(p)
  PROVE  HeardOf(u)' /\ Onward(u)
<1>0. PICK v : v = msUser[p].user
  OBVIOUS
<1> USE <1>0
<1>1. msUser' = msUser /\ stream' = [stream EXCEPT ![p] = Off]
  BY DEF requestNextSong, client
<1>2. v \in Users /\ controller[v] \in [track : Tracks, pos : Positions]
  BY DEF requestNextSong, IInv, TypeOK, WritesForSomebody
<1>3. PICK pos \in {0, controller[v].pos} :
        /\ controller' = [controller EXCEPT ![v] =
                            [track |-> nextTrack(p), pos |-> pos]]
        /\ controller[v].track = nextTrack(p) => pos = controller[v].pos
        /\ v \in confused' \/ controller[v].track = nextTrack(p) \/ ~(pos > 0)
  BY DEF requestNextSong
<1>4. \A r \in RoomNames : stream'[r].phase # "off" =>
        stream'[r] = stream[r]
  BY <1>1 DEF IInv, TypeOK, Off
<1>5. CASE controller'[u] = controller[u]
  <2>1. \A r \in RoomNames : OnTrack(r, u)' =>
          OnTrack(r, u) /\ stream'[r] = stream[r]
    BY <1>1, <1>4, <1>5 DEF OnTrack
  <2> QED
    BY <1>5, <2>1, NotConcerned DEF IInv, Onward
<1>6. CASE controller'[u] # controller[u]
  <2>1. u = v
    BY <1>3, <1>6 DEF IInv, TypeOK
  <2>2. controller'[v] = [track |-> nextTrack(p), pos |-> pos]
    BY <1>2, <1>3 DEF IInv, TypeOK
  <2>3. controller[v].track # nextTrack(p)
    BY <1>2, <1>3, <1>6, <2>1, <2>2
  <2>4. pos <= 0
    BY <1>2, <1>3, <2>1, <2>3 DEF Positions
  <2>5. \A r \in RoomNames : ~Behind(r, v)
    BY <2>1, <2>3, NewTrackIsPlayedOut
  <2>6. ASSUME NEW r \in RoomNames PROVE ~OnTrack(r, u)'
    BY <1>1, <1>4, <2>1, <2>2, <2>3, <2>5 DEF OnTrack, Behind
  <2>7. HeardOf(u)' /\ heard'[u] = {}
    BY <2>1, <2>2, <2>3, <2>4, <2>6, TrackBegins
  <2>8. heard[u] = 0..Length
    <3>1. PlaysOut(u)
      BY <2>1, <2>3, NewTrackIsPlayedOut
    <3>2. Length \in heard[u]
      BY <3>1 DEF PlaysOut, HeardOf, OnTrack
    <3> QED
      BY <3>2 DEF HeardOf
  <2>9. msUser[p].track = controller[v].track
    BY <2>5 DEF requestNextSong, Behind
  <2>10. controller'[u].track = IF controller[u].track = MaxTrack THEN 1
                                ELSE controller[u].track + 1
    BY <1>2, <2>1, <2>2, <2>9, RoomsAssumption DEF nextTrack, Tracks
  <2> QED
    BY <2>7, <2>8, <2>10 DEF Onward, House!SongOver
<1> QED
  BY <1>5, <1>6

(* So does a choice, unless a room plays another track than the table has.  *)
LEMMA ChooseHeardInv ==
  ASSUME IInv, IInv', Hear, NEW u \in Users \ confused', HeardOf(u),
         NEW v \in Users, NEW t \in Tracks, Choose(v, t)
  PROVE  /\ HeardOf(u)'
         /\ IF u = v THEN controller'[u].track # controller[u].track /\ heard'[u] = {}
            ELSE House!Stays(u)
<1>1. UNCHANGED <<msUser, stream>> /\ controller[v].track # t
  BY DEF Choose, client
<1>2. PICK pos \in {0, controller[v].pos} :
        /\ controller' = [controller EXCEPT ![v] = [track |-> t, pos |-> pos]]
        /\ confused' = confused \cup
             {w \in {v} : pos > 0 \/ \E r \in RoomNames : Behind(r, v)}
  BY DEF Choose
<1>3. CASE u # v
  <2>1. controller'[u] = controller[u]
    BY <1>2, <1>3 DEF IInv, TypeOK
  <2>2. \A r \in RoomNames : OnTrack(r, u)' =>
          OnTrack(r, u) /\ stream'[r] = stream[r]
    BY <1>1, <2>1 DEF OnTrack
  <2> QED
    BY <1>3, <2>1, <2>2, NotConcerned DEF IInv
<1>4. CASE u = v
  <2>1. controller'[v] = [track |-> t, pos |-> pos]
    BY <1>2 DEF IInv, TypeOK
  <2>2. ~(pos > 0) /\ \A r \in RoomNames : ~Behind(r, v)
    BY <1>2, <1>4
  <2>3. pos <= 0
    <3>1. controller[v].pos \in Positions
      BY DEF IInv, TypeOK
    <3> QED
      BY <1>2, <2>2, <3>1 DEF Positions
  <2>4. \A r \in RoomNames : ~OnTrack(r, u)'
    BY <1>1, <1>4, <2>1, <2>2 DEF OnTrack, Behind
  <2> QED
    BY <1>1, <1>4, <2>1, <2>3, <2>4, TrackBegins
<1> QED
  BY <1>3, <1>4

LEMMA NextHeardInv ==
  ASSUME IInv, IInv', SongInv, HeardInv, [HeardNext]_<<vars, heard>>
  PROVE  HeardInv' /\ [House!Next]_House!vars
<1>1. CASE UNCHANGED <<vars, heard>>
  <2>1. UNCHANGED <<controller, msUser, stream, confused, heard, choices>>
    BY <1>1 DEF vars, tables, client, history
  <2> QED
    BY <2>1 DEF HeardInv, HeardOf, Known, OnTrack, House!vars
<1>2. CASE HeardNext
  <2>1. Next /\ Hear /\ confused \subseteq confused'
    BY <1>2, ConfusedStays DEF HeardNext
  <2>2. \A u \in Users \ confused' : HeardOf(u)
    BY <2>1 DEF HeardInv
  <2>3. ASSUME UNCHANGED choices,
               \A u \in Users \ confused' : HeardOf(u)' /\ Onward(u)
        PROVE  HeardInv' /\ House!Next
    BY <2>1, <2>3 DEF HeardInv, Onward, House!Next, House!Listen
  <2>4. CASE Tick \/ \E r \in RoomNames : Plays(r) \/ setPosition(r)
    <3>1. UNCHANGED choices
      BY <2>4 DEF Tick, Plays, setPosition, tables
    <3> QED
      BY <2>1, <2>2, <2>3, <2>4, <3>1, StreamHeardInv
  <2>5. ASSUME NEW i \in DOMAIN RoomOrder, Poll(i)
        PROVE  HeardInv' /\ House!Next
    <3>1. UNCHANGED choices
      BY <2>5 DEF Poll, tables
    <3> QED
      BY <2>1, <2>2, <2>3, <2>5, <3>1, PollHeardInv
  <2>6. ASSUME NEW v \in Users, NEW t \in Tracks, Choose(v, t)
        PROVE  HeardInv' /\ House!Next
    <3>1. \A u \in Users \ confused' :
            /\ HeardOf(u)'
            /\ IF u = v
               THEN controller'[u].track # controller[u].track /\ heard'[u] = {}
               ELSE House!Stays(u)
      BY <2>1, <2>2, <2>6, ChooseHeardInv
    <3>2. choices' = choices + 1
      BY <2>6 DEF Choose
    <3>3. House!Choose(v)
      BY <3>1, <3>2 DEF House!Choose
    <3> QED
      BY <2>1, <3>1, <3>3 DEF HeardInv, House!Next
  <2>7. ASSUME NEW r \in RoomNames, NEW v \in Users \cup {NoUser}, Move(r, v)
        PROVE  HeardInv' /\ House!Next
    <3>1. UNCHANGED <<controller, msUser, stream, choices>>
      BY <2>7 DEF Move, client
    <3>2. \A u \in Users : \A q \in RoomNames : OnTrack(q, u)' =>
            OnTrack(q, u) /\ stream'[q] = stream[q]
      BY <3>1 DEF OnTrack
    <3>3. \A u \in Users \ confused' : HeardOf(u)' /\ House!Stays(u)
      BY <2>1, <2>2, <3>1, <3>2, NotConcerned DEF IInv
    <3> QED
      BY <2>3, <3>1, <3>3 DEF Onward
  <2>8. ASSUME NEW r \in RoomNames, updatePosition(r)
        PROVE  HeardInv' /\ House!Next
    <3>1. UNCHANGED choices
      BY <2>8 DEF updatePosition
    <3> QED
      BY <2>1, <2>2, <2>3, <2>8, <3>1, UpdateHeardInv
  <2>9. ASSUME NEW r \in RoomNames, requestNextSong(r)
        PROVE  HeardInv' /\ House!Next
    <3>1. UNCHANGED choices
      BY <2>9 DEF requestNextSong
    <3> QED
      BY <2>1, <2>2, <2>3, <2>9, <3>1, RequestHeardInv
  <2> QED
    BY <2>1, <2>4, <2>5, <2>6, <2>7, <2>8, <2>9 DEF Next
<1> QED
  BY <1>1, <1>2

(* A history takes nothing away from the behaviours of the rooms. *)
LEMMA HistoryOnly == HeardSpec => Spec
<1>1. HeardInit => Init
  BY DEF HeardInit
<1>2. [HeardNext]_<<vars, heard>> => [Next]_vars
  BY DEF HeardNext
<1> QED
  BY <1>1, <1>2, PTL DEF HeardSpec, Spec

(* Of a confused user nothing is said. *)
ConfusedHeard == \A u \in confused : heard[u] = {}

LEMMA HeardInvariance ==
  /\ HeardSpec => [](IInv /\ SongInv)
  /\ HeardSpec => [](HeardInv /\ ConfusedHeard)
<1>1. Spec => [](IInv /\ SongInv)
  BY InitSongInv, NextSongInv, Invariance, PTL DEF Spec
<1>2. HeardSpec => [](IInv /\ SongInv)
  BY <1>1, HistoryOnly, PTL
<1>3. HeardInit => HeardInv /\ ConfusedHeard
  BY InitHeardInv DEF HeardInit, Init, ConfusedHeard
<1>4. IInv' /\ ConfusedHeard /\ [HeardNext]_<<vars, heard>> => ConfusedHeard'
  <2>1. CASE UNCHANGED <<vars, heard>>
    BY <2>1 DEF vars, history, ConfusedHeard
  <2>2. ASSUME IInv', HeardNext PROVE ConfusedHeard'
    BY <2>2 DEF HeardNext, Hear, IInv, TypeOK, ConfusedHeard
  <2> QED
    BY <2>1, <2>2
<1>5. IInv /\ IInv' /\ SongInv /\ HeardInv /\ [HeardNext]_<<vars, heard>> =>
        HeardInv'
  BY NextHeardInv
<1> QED
  BY <1>2, <1>3, <1>4, <1>5, PTL DEF HeardSpec

(* A user who walks through the house misses no part of a song: getDBUser,  *)
(* updatePosition() and the seek of a room that starts (setPosition) may    *)
(* take him back, but never past what some room has played, whatever the    *)
(* rooms report before they have sought.                                    *)
THEOREM NothingIsSkipped == HeardSpec => []NothingSkipped
<1>1. HeardInv /\ ConfusedHeard => NothingSkipped
  BY DEF HeardInv, HeardOf, ConfusedHeard, NothingSkipped
<1> QED
  BY <1>1, HeardInvariance, PTL

(* The rooms implement the house: as long as a user is not confused, what   *)
(* requestNextSong() and updatePosition() of any number of rooms do to his  *)
(* row is to play each song of the playlist whole, and then the next.       *)
THEOREM RoomsPlayAsOne == HeardSpec => PlaysAsOne
<1>1. HeardInit => House!Init
  BY DEF HeardInit, Init, House!Init
<1>2. IInv /\ IInv' /\ SongInv /\ HeardInv /\ [HeardNext]_<<vars, heard>> =>
        [House!Next]_House!vars
  BY NextHeardInv
<1> QED
  BY <1>1, <1>2, HeardInvariance, PTL DEF HeardSpec, PlaysAsOne, House!Spec

=============================================================================
