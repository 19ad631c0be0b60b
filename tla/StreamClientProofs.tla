------------------------- MODULE StreamClientProofs -------------------------
(***************************************************************************)
(* What the player promises at its prompt, for all lines that can be typed,*)
(* all URIs, whichever of them play, fail or stay silent, and any number   *)
(* of reads that fail.                                                     *)
(***************************************************************************)
EXTENDS StreamClient, TLAPS

PlayType ==
  /\ main \in {"playSong", "setState", "prompt", "join", "exited", "crashed",
               "underflow"}
  /\ state \in {0, 1}
  /\ pipe \in [target : States, current : States, source : Uris \cup {NoUri},
               failed : BOOLEAN]
  /\ uri \in Uris \cup {NoUri}
  /\ next \in Uris
  /\ volume \in Volumes

(* How the pipeline can be found: what it is asked for is never READY, it   *)
(* fails on its way from there, and plays only what can be played.          *)
PipeWhole ==
  /\ pipe.target # "READY"
  /\ "NULL" \in {pipe.target, pipe.current} => pipe = Stopped
  /\ pipe.failed => pipe.current = "READY"
  /\ pipe.current \in {"PAUSED", "PLAYING"} => pipe.source \in Playable

(* A pipeline on its way, or arrived, has the URI that was last set; between*)
(* the setting of another and its start nothing is under way.               *)
Loaded ==
  /\ pipe.current # "NULL" /\ ~pipe.failed /\ main # "setState" =>
       pipe.source = uri
  /\ main = "setState" => pipe = Stopped \/ pipe.failed

PlayInv == PlayType /\ PipeWhole /\ Loaded /\ FlagNeverAhead

(* The older bytes that follow the line get fewer with every read of it.    *)
Shrinks ==
  again > 0 => held < line.length \/ held + again <= Longest - 1

BufType ==
  /\ held \in 0..(Longest - 1)
  /\ line \in Lines
  /\ errors \in 0..MaxErrors
  /\ again \in 0..Longest

BufInv == BufType /\ Shrinks

IInv == PlayInv /\ BufInv

-----------------------------------------------------------------------------
LEMMA LineTypes ==
  ASSUME NEW l \in Lines
  PROVE  /\ l.length \in 1..Longest
         /\ l.cmd = "n" => l.arg \in Uris \cup {Absent}
BY StreamClientAssumption

(* After any call of gst_element_set_state() the pipeline is whole again,   *)
(* and a new start takes the URI that is set.                               *)
LEMMA SetStateKeeps ==
  ASSUME PlayInv, NEW s \in {"NULL", "PAUSED", "PLAYING"}, SetState(s)
  PROVE  /\ pipe' \in [target : States, current : States,
                       source : Uris \cup {NoUri}, failed : BOOLEAN]
         /\ PipeWhole'
         /\ pipe'.target = s
         /\ s = "NULL" => pipe' = Stopped
         /\ s # "NULL" => ~pipe'.failed
         /\ s # "NULL" /\ (pipe.current = "NULL" \/ pipe.failed
                             \/ pipe.source = uri) => pipe'.source = uri
<1>1. CASE s = "NULL"
  BY <1>1 DEF SetState, Stopped, PipeWhole, States
<1>2. CASE s # "NULL"
  <2>1. pipe' = [target  |-> s,
                 current |-> IF pipe.current = "NULL" THEN "READY"
                             ELSE pipe.current,
                 source  |-> IF pipe.current = "NULL" \/ pipe.failed THEN uri
                             ELSE pipe.source,
                 failed  |-> FALSE]
    BY <1>2 DEF SetState
  <2> QED
    BY <1>2, <2>1 DEF PlayInv, PlayType, PipeWhole, States, Stopped
<1> QED
  BY <1>1, <1>2

-----------------------------------------------------------------------------
(* The commands, typed or read again. *)

LEMMA NothingKeeps ==
  ASSUME PlayInv, main = "prompt", Nothing
  PROVE  PlayInv'
BY DEF PlayInv, PlayType, PipeWhole, Loaded, FlagNeverAhead, Nothing

LEMMA PausePlayKeeps ==
  ASSUME PlayInv, main = "prompt", PausePlay
  PROVE  PlayInv'
<1> DEFINE s == IF state = 1 THEN "PAUSED" ELSE "PLAYING"
<1>1. SetState(s) /\ s \in {"NULL", "PAUSED", "PLAYING"} /\ s # "NULL"
  BY DEF PausePlay
<1>2. pipe.current # "NULL" /\ ~pipe.failed => pipe.source = uri
  BY DEF PlayInv, Loaded
<1>3. /\ pipe' \in [target : States, current : States,
                    source : Uris \cup {NoUri}, failed : BOOLEAN]
      /\ PipeWhole'
      /\ pipe'.target = s
      /\ pipe'.source = uri
  BY <1>1, <1>2, SetStateKeeps
<1>4. state' = 1 - state /\ main' = "prompt" /\ uri' = uri
      /\ next' = next /\ volume' = volume
  BY DEF PausePlay, toggle
<1>5. state \in {0, 1}
  BY DEF PlayInv, PlayType
<1>6. PlayType'
  BY <1>3, <1>4, <1>5 DEF PlayInv, PlayType
<1>7. Loaded' /\ FlagNeverAhead'
  BY <1>3, <1>4, <1>5 DEF Loaded, FlagNeverAhead
<1> QED
  BY <1>3, <1>6, <1>7 DEF PlayInv

LEMMA SetVolumeKeeps ==
  ASSUME PlayInv, main = "prompt", NEW l, NEW how, SetVolume(l, how)
  PROVE  PlayInv'
<1>1. volume' \in Volumes
  BY DEF SetVolume, music_set_volume, PlayInv, PlayType
<1> QED
  BY <1>1 DEF SetVolume, PlayInv, PlayType, PipeWhole, Loaded, FlagNeverAhead

LEMMA NextSongKeeps ==
  ASSUME PlayInv, main = "prompt", NEW l \in Lines, l.cmd = "n", NEW how,
         NextSong(l, how)
  PROVE  PlayInv'
<1>1. PICK u \in strstr(l, how) :
        IF u = Absent THEN main' = "crashed" /\ UNCHANGED next
        ELSE main' = "playSong" /\ next' = u
  BY DEF NextSong
<1>2. u \in Uris \cup {Absent}
  BY LineTypes, StreamClientAssumption DEF strstr
<1>3. next' \in Uris /\ main' \in {"crashed", "playSong"}
  BY <1>1, <1>2 DEF PlayInv, PlayType
<1> QED
  BY <1>3 DEF NextSong, PlayInv, PlayType, PipeWhole, Loaded, FlagNeverAhead

LEMMA ObeyKeeps ==
  ASSUME PlayInv, main = "prompt", NEW l \in Lines, NEW how, Obey(l, how)
  PROVE  PlayInv'
<1>1. CASE l.cmd = "p"
  BY <1>1, PausePlayKeeps DEF Obey
<1>2. CASE l.cmd = "s"
  BY <1>2 DEF Obey, Stop, PlayInv, PlayType, PipeWhole, Loaded, FlagNeverAhead
<1>3. CASE l.cmd = "v"
  BY <1>3, SetVolumeKeeps DEF Obey
<1>4. CASE l.cmd = "n"
  BY <1>4, NextSongKeeps DEF Obey
<1>5. CASE l.cmd \notin {"p", "s", "v", "n"}
  BY <1>5, NothingKeeps DEF Obey
<1> QED
  BY <1>1, <1>2, <1>3, <1>4, <1>5

-----------------------------------------------------------------------------
(* The pipeline and music_play_song(). *)

LEMMA SettleKeeps ==
  ASSUME PlayInv, Settle
  PROVE  PlayInv'
<1>1. pipe.current # pipe.target /\ ~pipe.failed
  BY DEF Settle, Settled
<1>2. pipe.current # "NULL" /\ pipe.target # "NULL"
  BY <1>1 DEF PlayInv, PipeWhole, Stopped
<1>3. main # "setState" /\ pipe.source = uri
  BY <1>1, <1>2 DEF PlayInv, Loaded, Stopped
<1>4. CASE pipe.source \in Playable
  <2>1. pipe' = [pipe EXCEPT !.current = pipe.target]
    BY <1>4 DEF Settle
  <2> QED
    BY <1>1, <1>2, <1>3, <1>4, <2>1
    DEF PlayInv, PlayType, PipeWhole, Loaded, FlagNeverAhead, Settle, States
<1>5. CASE pipe.source \notin Playable
  <2>1. pipe.current = "READY"
    BY <1>2, <1>5 DEF PlayInv, PlayType, PipeWhole, States
  <2>2. pipe' = [pipe EXCEPT !.failed = TRUE]
    BY <1>5 DEF Settle
  <2> QED
    BY <1>1, <1>2, <1>3, <1>5, <2>1, <2>2
    DEF PlayInv, PlayType, PipeWhole, Loaded, FlagNeverAhead, Settle, States
<1> QED
  BY <1>4, <1>5

(* What music_play_song() finds when its wait is over is stopped, or has    *)
(* failed, or is stopped now.                                               *)
LEMMA PlaySongKeeps ==
  ASSUME PlayInv, music_play_song
  PROVE  PlayInv'
<1>1. pipe' = Stopped \/ pipe'.failed
  <2>1. CASE InTheWay
    BY <2>1 DEF music_play_song, SetState
  <2>2. CASE ~InTheWay
    BY <2>2
    DEF music_play_song, InTheWay, Awaited, Settled, PlayInv, PlayType,
        PipeWhole, States
  <2> QED
    BY <2>1, <2>2
<1>2. pipe' \in [target : States, current : States,
                 source : Uris \cup {NoUri}, failed : BOOLEAN] /\ PipeWhole'
  <2>1. CASE InTheWay
    BY <2>1, SetStateKeeps DEF music_play_song
  <2>2. CASE ~InTheWay
    BY <2>2 DEF music_play_song, PlayInv, PlayType, PipeWhole
  <2> QED
    BY <2>1, <2>2
<1> QED
  BY <1>1, <1>2 DEF music_play_song, PlayInv, PlayType, Loaded,
                    FlagNeverAhead, Stopped

LEMMA SetPlayingKeeps ==
  ASSUME PlayInv, music_set_state
  PROVE  PlayInv'
<1>1. pipe.current = "NULL" \/ pipe.failed
  BY DEF music_set_state, PlayInv, Loaded, Stopped
<1>2. /\ pipe' \in [target : States, current : States,
                    source : Uris \cup {NoUri}, failed : BOOLEAN]
      /\ PipeWhole'
      /\ pipe'.target = "PLAYING"
      /\ pipe'.source = uri
  BY <1>1, SetStateKeeps DEF music_set_state
<1> QED
  BY <1>2 DEF music_set_state, PlayInv, PlayType, Loaded, FlagNeverAhead

-----------------------------------------------------------------------------
(* The buffer. *)

LEMMA ReadLineBuffer ==
  ASSUME BufInv, NEW l \in Lines, ReadLine(l)
  PROVE  BufInv'
<1>1. /\ l.length \in 1..Longest /\ Longest \in 1..255
      /\ line.length \in 1..Longest
      /\ held \in 0..(Longest - 1) /\ again \in 0..Longest
  BY LineTypes, StreamClientAssumption DEF BufInv, BufType
<1>2. /\ held' = (IF held <= l.length THEN l.length ELSE held) - 1
      /\ line' = l /\ errors' = errors
  BY DEF ReadLine, cut, strlen
<1>3. again' = CASE l # line -> 1
                 [] l = line /\ again < Longest -> again + 1
                 [] OTHER -> again
  BY DEF ReadLine
<1>4. held' \in 0..(Longest - 1) /\ again' \in 0..Longest
  <2>1. held' \in 0..(Longest - 1)
    BY <1>1, <1>2
  <2>2. CASE l # line
    BY <1>1, <1>3, <2>1, <2>2
  <2>3. CASE l = line
    BY <1>1, <1>3, <2>1, <2>3
  <2> QED
    BY <2>2, <2>3
<1>5. Shrinks'
  <2>1. CASE held <= l.length
    BY <1>1, <1>2, <2>1 DEF Shrinks
  <2>2. CASE held > l.length /\ l # line
    BY <1>1, <1>2, <1>3, <2>2 DEF Shrinks
  <2>3. CASE held > l.length /\ l = line
    <3>1. again > 0 => held + again <= Longest - 1
      BY <1>1, <2>3 DEF BufInv, Shrinks
    <3>2. again < Longest
      BY <1>1, <3>1
    <3>3. again' = again + 1
      BY <1>3, <2>3, <3>2
    <3> QED
      BY <1>1, <1>2, <2>3, <3>1, <3>3 DEF Shrinks
  <2> QED
    BY <1>1, <2>1, <2>2, <2>3
<1> QED
  BY <1>2, <1>4, <1>5 DEF BufInv, BufType

LEMMA ReadFailsBuffer ==
  ASSUME BufInv, ReadFails
  PROVE  BufInv'
<1>1. /\ Longest \in 1..255 /\ line.length \in 1..Longest
      /\ held \in 0..(Longest - 1) /\ again \in 0..Longest
      /\ errors \in 0..MaxErrors /\ MaxErrors \in Nat
  BY LineTypes, StreamClientAssumption DEF BufInv, BufType
<1>2. held' = IF held = 0 THEN 0 ELSE held - 1
  BY <1>1 DEF ReadFails, cut
<1>3. line' = line /\ again' = again /\ errors' = errors + 1
      /\ errors < MaxErrors
  BY DEF ReadFails
<1>4. BufType'
  BY <1>1, <1>2, <1>3 DEF BufInv, BufType
<1>5. Shrinks'
  BY <1>1, <1>2, <1>3 DEF BufInv, Shrinks
<1> QED
  BY <1>4, <1>5 DEF BufInv

-----------------------------------------------------------------------------
LEMMA InitIInv == Init => IInv
<1> SUFFICES ASSUME Init
             PROVE  IInv
  OBVIOUS
<1>1. PlayInv
  BY DEF Init, PlayInv, PlayType, PipeWhole, Loaded, FlagNeverAhead, Stopped,
         States, Volumes
<1>2. BufInv
  BY StreamClientAssumption DEF Init, BufInv, BufType, Shrinks
<1> QED
  BY <1>1, <1>2 DEF IInv

LEMMA NextIInv == IInv /\ [Next]_vars => IInv'
<1> SUFFICES ASSUME IInv, [Next]_vars
             PROVE  IInv'
  OBVIOUS
<1>1. PlayInv /\ BufInv
  BY DEF IInv
<1>2. CASE Settle
  BY <1>1, <1>2, SettleKeeps DEF Settle, IInv, BufInv, BufType, Shrinks
<1>3. CASE music_play_song
  BY <1>1, <1>3, PlaySongKeeps
  DEF music_play_song, IInv, BufInv, BufType, Shrinks
<1>4. CASE music_set_state
  BY <1>1, <1>4, SetPlayingKeeps
  DEF music_set_state, IInv, BufInv, BufType, Shrinks
<1>5. CASE ReadFails
  <2>1. BufInv'
    BY <1>1, <1>5, ReadFailsBuffer
  <2>2. main = "prompt"
    BY <1>5 DEF ReadFails
  <2>3. CASE held = 0
    <3>1. PlayInv'
      BY <1>1, <1>5, <2>3
      DEF ReadFails, PlayInv, PlayType, PipeWhole, Loaded, FlagNeverAhead
    <3> QED
      BY <2>1, <3>1 DEF IInv
  <2>4. CASE held # 0 /\ held' = 0
    <3>1. Nothing
      BY <1>5, <2>4 DEF ReadFails
    <3> QED
      BY <1>1, <2>1, <2>2, <3>1, NothingKeeps DEF IInv
  <2>5. CASE held # 0 /\ held' # 0
    <3>1. line \in Lines /\ Obey(line, "cut")
      BY <1>1, <1>5, <2>5 DEF BufInv, BufType, ReadFails
    <3> QED
      BY <1>1, <2>1, <2>2, <3>1, ObeyKeeps DEF IInv
  <2> QED
    BY <2>3, <2>4, <2>5
<1>6. CASE ReadEnd
  BY <1>1, <1>6
  DEF ReadEnd, IInv, BufInv, BufType, Shrinks, PlayInv, PlayType, PipeWhole,
      Loaded, FlagNeverAhead
<1>7. ASSUME NEW l \in Lines, ReadLine(l)
      PROVE  IInv'
  <2>1. BufInv'
    BY <1>1, <1>7, ReadLineBuffer
  <2>2. main = "prompt"
    BY <1>7 DEF ReadLine
  <2>3. CASE held' = 0
    <3>1. Nothing
      BY <1>7, <2>3 DEF ReadLine
    <3> QED
      BY <1>1, <2>1, <2>2, <3>1, NothingKeeps DEF IInv
  <2>4. CASE held' # 0
    <3>1. Obey(l, How(l))
      BY <1>7, <2>4 DEF ReadLine
    <3> QED
      BY <1>1, <2>1, <2>2, <3>1, ObeyKeeps DEF IInv
  <2> QED
    BY <2>3, <2>4
<1>8. CASE UNCHANGED vars
  BY <1>1, <1>8
  DEF vars, IInv, BufInv, BufType, Shrinks, PlayInv, PlayType, PipeWhole,
      Loaded, FlagNeverAhead
<1> QED
  BY <1>2, <1>3, <1>4, <1>5, <1>6, <1>7, <1>8 DEF Next

THEOREM Invariance == Spec => []IInv
BY InitIInv, NextIInv, PTL DEF Spec

(* Every variable keeps its type, whatever is typed: the volume is one that *)
(* the library accepts, the buffer no longer than a line.                   *)
THEOREM PlayerTypeCorrect == Spec => []TypeOK
<1>1. IInv => TypeOK
  BY DEF IInv, PlayInv, PlayType, BufInv, BufType, TypeOK
<1> QED
  BY <1>1, Invariance, PTL

(* When the flag says playing, the pipeline was told to play.               *)
THEOREM FlagIsNeverAhead == Spec => []FlagNeverAhead
<1>1. IInv => FlagNeverAhead
  BY DEF IInv, PlayInv
<1> QED
  BY <1>1, Invariance, PTL

(* What sounds, or is paused, at the prompt is what was loaded last.        *)
THEOREM LoadedSongPlays == Spec => []PlaysWhatWasLoaded
<1>1. IInv => PlaysWhatWasLoaded
  BY DEF IInv, PlayInv, PipeWhole, Loaded, PlaysWhatWasLoaded
<1> QED
  BY <1>1, Invariance, PTL

(* A line typed as many times as it is shorter than the longest is          *)
(* understood.                                                              *)
THEOREM RepeatedLineUnderstood == Spec => []Understood
<1>1. IInv => Understood
  <2> SUFFICES ASSUME IInv, again > 0, again >= Longest - line.length
               PROVE  held < line.length
    BY DEF Understood
  <2>1. /\ Longest \in 1..255 /\ line.length \in 1..Longest
        /\ held \in 0..(Longest - 1) /\ again \in 0..Longest
    BY LineTypes, StreamClientAssumption DEF IInv, BufInv, BufType
  <2> QED
    BY <2>1 DEF IInv, BufInv, Shrinks
<1> QED
  BY <1>1, Invariance, PTL

-----------------------------------------------------------------------------
(* The two roundings of a volume. *)

LEMMA ScaleOf ==
  ASSUME NEW v \in 1..100
  PROVE  /\ Scale(v) \in Doublings
         /\ 100 <= v * Scale(v) /\ v * Scale(v) < 200
<1>1. \E s \in Doublings : 100 <= v * s /\ v * s < 200
  <2>1. CASE v \in 1..3
    <3>1. \/ 100 <= v * 128 /\ v * 128 < 200
          \/ 100 <= v * 64 /\ v * 64 < 200
      BY <2>1
    <3> QED
      BY <3>1 DEF Doublings
  <2>2. CASE v \in 4..12
    <3>1. \/ 100 <= v * 32 /\ v * 32 < 200
          \/ 100 <= v * 16 /\ v * 16 < 200
      BY <2>2
    <3> QED
      BY <3>1 DEF Doublings
  <2>3. CASE v \in 13..49
    <3>1. \/ 100 <= v * 8 /\ v * 8 < 200
          \/ 100 <= v * 4 /\ v * 4 < 200
      BY <2>3
    <3> QED
      BY <3>1 DEF Doublings
  <2>4. CASE v \in 50..100
    <3>1. \/ 100 <= v * 2 /\ v * 2 < 200
          \/ 100 <= v * 1 /\ v * 1 < 200
      BY <2>4
    <3> QED
      BY <3>1 DEF Doublings
  <2> QED
    BY <2>1, <2>2, <2>3, <2>4
<1> QED
  BY <1>1 DEF Scale

LEMMA PowerOf ==
  ASSUME NEW v \in 1..100
  PROVE  Power(v) \in Doublings /\ Power(v) <= v /\ v < 2 * Power(v)
<1>1. \E p \in Doublings : p <= v /\ v < 2 * p
  <2>1. CASE v \in 1..7
    BY <2>1 DEF Doublings
  <2>2. CASE v \in 8..100
    BY <2>2 DEF Doublings
  <2> QED
    BY <2>1, <2>2
<1> QED
  BY <1>1 DEF Power

(* From 128 on half a gap is more than any remainder that was rounded down;  *)
(* and a power of two leaves the remainder 88.                               *)
LEMMA ShortIsRare ==
  ASSUME NEW v \in 1..100
  PROVE  FallsShort(v) <=> v \in {29, 57, 58}
<1>1. PICK s \in Doublings : s = Scale(v) /\ 100 <= v * s /\ v * s < 200
  BY ScaleOf
<1>2. PICK p \in Doublings : p = Power(v) /\ p <= v /\ v < 2 * p
  BY PowerOf
<1>3. FallsShort(v) <=>
        LET r == (96 * v * s) % 100
            h == IF v = p THEN (s * p) \div 4 ELSE (s * p) \div 2
        IN r < 50 /\ r > h
  BY <1>1, <1>2 DEF FallsShort, Remainder, HalfGap
<1>4. CASE s = 1
  BY <1>1, <1>2, <1>3, <1>4 DEF Doublings
<1>5. CASE s = 2
  BY <1>1, <1>2, <1>3, <1>5 DEF Doublings
<1>6. CASE s = 4
  BY <1>1, <1>2, <1>3, <1>6 DEF Doublings
<1>7. CASE s = 8
  BY <1>1, <1>2, <1>3, <1>7 DEF Doublings
<1>8. CASE s \in {16, 32, 64, 128}
  BY <1>1, <1>2, <1>3, <1>8 DEF Doublings
<1> QED
  BY <1>1, <1>4, <1>5, <1>6, <1>7, <1>8 DEF Doublings

(* Of all volumes that music_set_volume() accepts, music_get_volume() reads  *)
(* back three as one lower, and the others as they were set.                 *)
THEOREM VolumesReadBack == Spec => []VolumeReadBack
<1>1. ASSUME NEW v \in Volumes
      PROVE  readBack[v] = IF v \in {29, 57, 58} THEN v - 1 ELSE v
  <2>1. readBack[v] = music_get_volume(v)
    BY DEF readBack
  <2>2. CASE v = 0
    BY <2>1, <2>2 DEF music_get_volume
  <2>3. CASE v # 0
    <3>1. v \in 1..100
      BY <2>3 DEF Volumes
    <3> QED
      BY <2>1, <3>1, ShortIsRare DEF music_get_volume
  <2> QED
    BY <2>2, <2>3
<1>2. TypeOK => VolumeReadBack
  BY <1>1 DEF TypeOK, VolumeReadBack
<1> QED
  BY <1>2, PlayerTypeCorrect, PTL

=============================================================================
