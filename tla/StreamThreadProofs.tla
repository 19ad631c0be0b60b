------------------------- MODULE StreamThreadProofs -------------------------
(***************************************************************************)
(* What is proved of StreamThread, for every playlist, every set of users  *)
(* and volumes, every bound, and whatever the platform, the build and the  *)
(* database do.                                                            *)
(***************************************************************************)
EXTENDS StreamThread, TLAPS

-----------------------------------------------------------------------------
(* The inductive invariant. *)

Stopping == {"joinOld", "awaitStop", "awaitHalt", "awaitOver", "wedged"}

(* Where the worker may be while main is where it is.  start() and quit()   *)
(* are each followed by a loop that main does not leave before the worker   *)
(* has answered, so that the worker builds the wrapper only while main      *)
(* waits for a start, and deletes it only while main waits for a stop.      *)
Threads ==
  /\ mpStream = "live"
       <=> worker \in {"wired", "exec", "loop", "waitPlaying", "teardown"}
  /\ mbStarted
       <=> worker \in {"exec", "loop", "waitPlaying", "teardown", "deleted"}
  /\ worker \in {"construct", "wired"}
       => main \in {"awaitStart", "wedged"} /\ ~exited
  /\ worker \in {"teardown", "deleted"} => main \in Stopping
  /\ Serving /\ exited => main \in Stopping
  /\ main = "polling" => Serving
  /\ ~haveStream => worker = "off" /\ main = "idle"

(* An end on the bus or in endofstream is that of this wrapper's song, and  *)
(* once it has been reported main waits for the wrapper to go.              *)
Reports ==
  mpStream = "live" =>
    /\ bus \/ endofstream => pipe.done
    /\ over => main \in {"awaitOver", "wedged"}

Agrees(d) ==
  /\ msSongData = SongOf(d)
  /\ msControls = [ctl |-> d.ctl, vol |-> d.vol]

(* Whom the stream works for, at each point of the handlers; a room without *)
(* a user starts nothing.                                                   *)
Work ==
  /\ main \in {"idle", "polling", "awaitOver"} /\ haveStream => Agrees(msUser)
  /\ main = "checkUser" /\ data.user = NoUser
       => msSongData = NoSong /\ msControls.ctl = "Stop"
  /\ main \in {"awaitStop", "awaitHalt"} => data.user # NoUser
  /\ main = "awaitStart" => data.user # NoUser /\ Agrees(data)
  /\ worker = "construct" => msSongData \in Songs
  /\ /\ main \in {"idle", "polling", "checkUser", "awaitStart"}
     /\ worker \in {"wired", "exec", "loop", "waitPlaying"}
     => pipe.song = msSongData

IInv == TypeOK /\ Threads /\ QuitHeard /\ Reports /\ Work

-----------------------------------------------------------------------------
(* Rows, songs and signals. *)

(* The track after a track is a track: requestNextSong leaves no user       *)
(* beyond the playlist.                                                     *)
LEMMA NextTrackType ==
  ASSUME NEW t \in Int, t >= 0
  PROVE  NextTrack(t) \in Tracks
<1>1. Len(Playlist) \in Nat /\ Len(Playlist) >= 1 /\ Tracks = 1..Len(Playlist)
  BY UserDataAssumption DEF Tracks
<1> QED
  BY <1>1 DEF NextTrack, MaxTrack

(* A row names a user, with one of the songs, or is the default. *)
LEMMA RowCases ==
  ASSUME NEW d \in Rows
  PROVE  /\ \/ d.user = NoUser /\ d = DefaultData
            \/ d.user # NoUser /\ d \in UserRows
         /\ d.user # NoUser => SongOf(d) \in Songs
         /\ d.user = NoUser => SongOf(d) = NoSong /\ d.ctl = "Stop"
         /\ SongOf(d) \in Songs \cup {NoSong}
         /\ d.ctl \in PlayStates /\ d.vol \in VolumesSent
         /\ d.track \in Int /\ d.track >= 1
<1>1. Playlist \in [1..Len(Playlist) -> Songs] /\ Tracks = 1..Len(Playlist)
  BY UserDataAssumption DEF Tracks
<1>2. CASE d = DefaultData
  BY <1>2 DEF DefaultData, SongOf, PlayStates, VolumesSent
<1>3. CASE d \in UserRows
  <2>1. d.user \in Users /\ d.track \in Tracks /\ d.ctl \in PlayStates /\ d.vol \in Volumes
    BY <1>3 DEF UserRows
  <2>2. d.user # NoUser
    BY <2>1, UserDataAssumption
  <2>3. SongOf(d) = Playlist[d.track] /\ Playlist[d.track] \in Songs
    BY <2>1, <2>2, <1>1 DEF SongOf
  <2> QED
    BY <1>3, <1>1, <2>1, <2>2, <2>3 DEF VolumesSent
<1> QED
  BY <1>2, <1>3 DEF Rows

(* What a query answers is a row. *)
LEMMA AnswerIsRow ==
  ASSUME row \in Rows, NEW d \in getDBUser
  PROVE  d \in Rows
BY DEF getDBUser, Rows

(* The signals that main emits. *)
LEMMA EmittedSignals ==
  ASSUME NEW d \in Rows
  PROVE  /\ s_setPlayState(d.ctl) \in Signals
         /\ s_setPosition \in Signals
         /\ s_setVolume(d.vol) \in Signals
BY RowCases DEF Signals, VolumesSent

LEMMA EmitType ==
  ASSUME queue \in Seq(Signals), NEW sigs \in Seq(Signals), Emit(sigs)
  PROVE  queue' \in Seq(Signals)
BY DEF Emit

LEMMA TailType ==
  ASSUME queue \in Seq(Signals), queue # <<>>
  PROVE  Head(queue) \in Signals /\ Tail(queue) \in Seq(Signals)
OBVIOUS

LEMMA InitType == Init => TypeOK
<1> SUFFICES ASSUME Init PROVE TypeOK
  OBVIOUS
<1>1. DataType
  BY StreamThreadAssumption DEF Init, DataType, Rows
<1>2. StreamType
  BY DEF Init, StreamType, PlayStates, VolumesSent
<1>3. ThreadType
  BY DEF Init, ThreadType, MainStates, WorkerStates
<1>4. QueueType
  BY StreamThreadAssumption DEF Init, QueueType
<1>5. PipeType
  BY DEF Init, PipeType, Pipes
<1> QED
  BY <1>1, <1>2, <1>3, <1>4, <1>5 DEF TypeOK

(* NewStream, syncData, PollDone and the way a handler ends keep the types. *)
LEMMA NewStreamType ==
  ASSUME NewStream, MaxPolls \in Nat
  PROVE  /\ StreamType' /\ QueueType'
         /\ mpStream' = "null" /\ mbStarted' = FALSE /\ exited' = FALSE
BY DEF NewStream, StreamType, QueueType, PlayStates, VolumesSent

LEMMA SyncDataType ==
  ASSUME StreamType, data \in Rows, syncData, haveStream' = haveStream
  PROVE  StreamType'
<1>1. SongOf(data) \in Songs \cup {NoSong} /\ data.ctl \in PlayStates /\ data.vol \in VolumesSent
  BY RowCases
<1> QED
  BY <1>1 DEF syncData, StreamType

LEMMA PollDoneType ==
  ASSUME DataType, PollDone, UNCHANGED dbVars
  PROVE  DataType' /\ main' = "idle" /\ haveStream' = haveStream
<1>1. DefaultData \in Rows
  BY DEF Rows
<1> QED
  BY <1>1 DEF PollDone, DataType, dbVars

(* The handlers of the main thread, up to the queue. *)
LEMMA CtrlPollType == TypeOK /\ CtrlPoll => TypeOK'
<1> SUFFICES ASSUME TypeOK, CtrlPoll PROVE TypeOK'
  OBVIOUS
<1>1. DataType'
  BY AnswerIsRow DEF TypeOK, DataType, CtrlPoll, dbVars
<1>2. PipeType'
  BY DEF TypeOK, PipeType, CtrlPoll, pipeVars
<1>3. CASE haveStream /\ data'.user = msUser.user
  BY <1>1, <1>2, <1>3 DEF TypeOK, StreamType, ThreadType, QueueType, MainStates,
     CtrlPoll, streamVars, threadVars
<1>4. CASE haveStream /\ data'.user # msUser.user /\ isRunning
  BY <1>1, <1>2, <1>4 DEF TypeOK, StreamType, ThreadType, QueueType, MainStates,
     CtrlPoll, quit, streamVars
<1>5. CASE ~(haveStream /\ data'.user = msUser.user) /\ ~(haveStream /\ isRunning)
  <2>1. NewStream /\ main' = "checkUser" /\ worker' = worker
    BY <1>5 DEF CtrlPoll
  <2> QED
    BY <1>1, <1>2, <2>1, NewStreamType, StreamThreadAssumption
    DEF TypeOK, ThreadType, MainStates
<1> QED
  BY <1>3, <1>4, <1>5

LEMMA JoinOldType == TypeOK /\ JoinOld => TypeOK'
<1> SUFFICES ASSUME TypeOK, JoinOld PROVE TypeOK'
  OBVIOUS
<1>1. DataType' /\ PipeType'
  BY DEF TypeOK, DataType, PipeType, JoinOld, dbVars, pipeVars
<1> QED
  BY <1>1, NewStreamType, StreamThreadAssumption
  DEF TypeOK, ThreadType, MainStates, JoinOld

LEMMA QuitType ==
  ASSUME TypeOK, RestartForSong \/ HaltStream
  PROVE  TypeOK'
<1>1. DataType' /\ StreamType' /\ QueueType' /\ PipeType'
  BY DEF TypeOK, DataType, StreamType, QueueType, PipeType, RestartForSong,
     HaltStream, dbVars, ctrlVars, streamVars, pipeVars
<1> QED
  BY <1>1 DEF TypeOK, ThreadType, MainStates, RestartForSong, HaltStream, quit

LEMMA StartType ==
  ASSUME TypeOK, StartStream \/ AwaitStop
  PROVE  TypeOK'
<1>1. syncAndStart
  BY DEF StartStream, AwaitStop
<1>2. DataType' /\ QueueType' /\ PipeType'
  BY <1>1 DEF TypeOK, DataType, QueueType, PipeType, syncAndStart, dbVars,
     ctrlVars, pipeVars
<1>3. StreamType'
  BY <1>1, SyncDataType DEF TypeOK, DataType, syncAndStart, ctrlVars
<1> QED
  BY <1>1, <1>2, <1>3
  DEF TypeOK, ThreadType, MainStates, WorkerStates, syncAndStart, start

LEMMA EmissionType ==
  ASSUME TypeOK, AwaitStart \/ AwaitHalt \/ PassControls
  PROVE  TypeOK'
<1>1. DataType' /\ main' = "idle" /\ haveStream' = haveStream
  BY PollDoneType DEF TypeOK, AwaitStart, AwaitHalt, PassControls
<1>2. StreamType'
  <2>1. CASE AwaitStart
    BY <1>1, <2>1 DEF TypeOK, StreamType, AwaitStart, streamVars
  <2>2. CASE AwaitHalt \/ PassControls
    BY <1>1, <2>2, SyncDataType DEF TypeOK, DataType, AwaitHalt, PassControls
  <2> QED
    BY <2>1, <2>2
<1>3. ThreadType' /\ PipeType' /\ polls' \in 0..MaxPolls
  BY <1>1 DEF TypeOK, ThreadType, PipeType, QueueType, MainStates, AwaitStart,
     AwaitHalt, PassControls, threadVars, pipeVars
<1>4. queue' \in Seq(Signals)
  <2>1. /\ s_setPlayState(data.ctl) \in Signals
        /\ s_setPosition \in Signals
        /\ s_setVolume(data.vol) \in Signals
    BY EmittedSignals DEF TypeOK, DataType
  <2>2. VolumeSignal \in Seq(Signals)
    BY <2>1 DEF VolumeSignal
  <2>3. PICK sigs \in Seq(Signals) : Emit(sigs)
    <3>1. CASE AwaitStart
      <4>1. <<s_setPlayState(data.ctl), s_setPosition, s_setVolume(data.vol)>>
              \in Seq(Signals)
        BY <2>1
      <4> QED
        BY <3>1, <4>1 DEF AwaitStart
    <3>2. CASE AwaitHalt
      BY <2>2, <3>2 DEF AwaitHalt
    <3>3. CASE PassControls
      <4> DEFINE first == IF PlayStateChanged THEN <<s_setPlayState(data.ctl)>>
                          ELSE <<>>
      <4>1. first \in Seq(Signals)
        BY <2>1
      <4>2. first \o VolumeSignal \in Seq(Signals)
        BY <2>2, <4>1
      <4>3. Emit(first \o VolumeSignal)
        BY <3>3 DEF PassControls
      <4> QED
        BY <4>2, <4>3
    <3> QED
      BY <3>1, <3>2, <3>3
  <2> QED
    BY <2>3, EmitType DEF TypeOK, QueueType
<1> QED
  BY <1>1, <1>2, <1>3, <1>4 DEF TypeOK, QueueType

LEMMA EditType == TypeOK /\ Edit => TypeOK'
<1> SUFFICES ASSUME TypeOK, Edit PROVE TypeOK'
  OBVIOUS
<1>1. DataType'
  BY StreamThreadAssumption DEF TypeOK, DataType, Edit, ctrlVars
<1> QED
  BY <1>1 DEF TypeOK, StreamType, ThreadType, QueueType, PipeType, Edit,
     ctrlVars, streamVars, threadVars, pipeVars

LEMMA StreamPollType ==
  ASSUME TypeOK, StreamPoll \/ PollPlaying \/ AwaitOver \/ SpinForever
  PROVE  TypeOK'
<1>1. DataType' /\ StreamType' /\ PipeType'
  BY DEF TypeOK, DataType, StreamType, PipeType, StreamPoll, PollPlaying,
     AwaitOver, SpinForever, dbVars, ctrlVars, streamVars, pipeVars
<1>2. QueueType'
  BY StreamThreadAssumption DEF TypeOK, QueueType, StreamPoll, PollPlaying,
     AwaitOver, SpinForever
<1> QED
  BY <1>1, <1>2 DEF TypeOK, ThreadType, MainStates, StreamPoll, PollPlaying,
     AwaitOver, SpinForever, threadVars

(* The row that requestNextSong leaves behind is a row. *)
LEMMA NextSongRow ==
  ASSUME DataType, requestNextSong
  PROVE  row' \in Rows
<1>1. NextTrack(msUser.track) \in Tracks
  BY RowCases, NextTrackType DEF DataType
<1>2. CASE row.user # NoUser /\ row' = [row EXCEPT !.track = NextTrack(msUser.track)]
  <2>1. row \in UserRows
    BY <1>2, RowCases DEF DataType
  <2> QED
    BY <1>1, <1>2, <2>1 DEF UserRows, Rows
<1>3. CASE row' = row
  BY <1>3 DEF DataType
<1> QED
  BY <1>2, <1>3 DEF requestNextSong

LEMMA PollOverType == TypeOK /\ PollOver => TypeOK'
<1> SUFFICES ASSUME TypeOK, PollOver PROVE TypeOK'
  OBVIOUS
<1>1. DataType'
  BY NextSongRow DEF TypeOK, DataType, PollOver, ctrlVars
<1>2. PipeType'
  BY DEF TypeOK, PipeType, PollOver
<1> QED
  BY <1>1, <1>2 DEF TypeOK, StreamType, ThreadType, QueueType, MainStates,
     PollOver, quit, ctrlVars, streamVars

(* The worker and the pipeline. *)
LEMMA WorkerStepType ==
  ASSUME TypeOK, NEW from, NEW to \in WorkerStates, WorkerStep(from, to)
  PROVE  /\ DataType' /\ StreamType'
         /\ main' \in MainStates /\ worker' \in WorkerStates
BY DEF TypeOK, DataType, StreamType, ThreadType, WorkerStep, dbVars, ctrlVars,
   streamVars

LEMMA RunType ==
  ASSUME TypeOK,
         SetStarted \/ EnterExec \/ WaitPlaying \/ LeaveExec \/ ClearStarted \/ FinishThread
  PROVE  TypeOK'
<1>1. DataType' /\ StreamType' /\ main' \in MainStates /\ worker' \in WorkerStates
  <2>1. PICK from, to \in WorkerStates : WorkerStep(from, to)
    BY DEF SetStarted, EnterExec, WaitPlaying, LeaveExec, ClearStarted,
       FinishThread, WorkerStates
  <2> QED
    BY <2>1, WorkerStepType
<1>2. QueueType' /\ PipeType'
  BY DEF TypeOK, QueueType, PipeType, SetStarted, EnterExec, WaitPlaying,
     LeaveExec, ClearStarted, FinishThread, pipeVars
<1> QED
  BY <1>1, <1>2 DEF TypeOK, ThreadType, SetStarted, EnterExec, WaitPlaying,
     LeaveExec, ClearStarted, FinishThread

LEMMA ConstructType == TypeOK /\ Construct => TypeOK'
<1> SUFFICES ASSUME TypeOK, Construct PROVE TypeOK'
  OBVIOUS
<1>1. DataType' /\ StreamType' /\ main' \in MainStates /\ worker' \in WorkerStates
  BY WorkerStepType DEF Construct, WorkerStates
<1>2. PipeType'
  BY DEF TypeOK, StreamType, PipeType, Pipes, Construct, music_make_pipeline,
     NewPipe
<1> QED
  BY <1>1, <1>2 DEF TypeOK, ThreadType, QueueType, Construct

LEMMA TimerFiresType == TypeOK /\ TimerFires => TypeOK'
<1> SUFFICES ASSUME TypeOK, TimerFires PROVE TypeOK'
  OBVIOUS
<1>1. DataType' /\ StreamType' /\ main' \in MainStates /\ worker' \in WorkerStates
  BY WorkerStepType DEF TimerFires, WorkerStates
<1>2. QueueType'
  BY StreamThreadAssumption DEF TypeOK, QueueType, TimerFires
<1> QED
  BY <1>1, <1>2 DEF TypeOK, ThreadType, PipeType, TimerFires, pipeVars

(* A slot takes the signal at the head of the queue. *)
LEMMA SlotType ==
  ASSUME TypeOK, SlotSetPlayState \/ SlotSetVolume \/ SlotSetPosition
  PROVE  TypeOK'
<1>1. DataType' /\ StreamType' /\ main' \in MainStates /\ worker' \in WorkerStates
  <2>1. PICK to \in WorkerStates : WorkerStep("loop", to)
    BY DEF SlotSetPlayState, SlotSetVolume, SlotSetPosition, WorkerStates
  <2> QED
    BY <2>1, WorkerStepType
<1>2. QueueType' /\ Head(queue) \in Signals
  BY TailType DEF TypeOK, QueueType, SlotSetPlayState, SlotSetVolume,
     SlotSetPosition
<1>3. PipeType'
  <2>1. CASE SlotSetPlayState
    <3>1. Head(queue).play_state \in PlayStates
      BY <1>2, <2>1 DEF SlotSetPlayState, Signals, s_setPlayState,
         s_setPosition, s_setVolume
    <3>2. pipe' \in Pipes
      BY <2>1, <3>1 DEF TypeOK, PipeType, Pipes, SlotSetPlayState, StateOf,
         PlayStates
    <3> QED
      BY <2>1, <3>2 DEF TypeOK, PipeType, SlotSetPlayState
  <2>2. CASE SlotSetVolume
    <3>1. Head(queue).vol \in VolumesSent
      BY <1>2, <2>2 DEF SlotSetVolume, Signals, s_setPlayState,
         s_setPosition, s_setVolume, VolumesSent
    <3>2. pipe' \in Pipes
      BY <2>2, <3>1 DEF TypeOK, PipeType, Pipes, SlotSetVolume
    <3> QED
      BY <2>2, <3>2 DEF TypeOK, PipeType, SlotSetVolume
  <2>3. CASE SlotSetPosition
    BY <2>3 DEF TypeOK, PipeType, SlotSetPosition, pipeVars
  <2> QED
    BY <2>1, <2>2, <2>3
<1> QED
  BY <1>1, <1>2, <1>3
  DEF TypeOK, ThreadType, SlotSetPlayState, SlotSetVolume, SlotSetPosition

LEMMA DeleteWrapperType == TypeOK /\ DeleteWrapper => TypeOK'
<1> SUFFICES ASSUME TypeOK, DeleteWrapper PROVE TypeOK'
  OBVIOUS
<1>1. DataType' /\ StreamType' /\ main' \in MainStates /\ worker' \in WorkerStates
  BY WorkerStepType DEF DeleteWrapper, WorkerStates
<1>2. PipeType'
  BY DEF TypeOK, PipeType, Pipes, DeleteWrapper
<1> QED
  BY <1>1, <1>2 DEF TypeOK, ThreadType, QueueType, DeleteWrapper

LEMMA PipelineType ==
  ASSUME TypeOK, PipeSettles \/ PipeEnds \/ BusCallback
  PROVE  TypeOK'
<1>1. DataType' /\ StreamType' /\ ThreadType' /\ QueueType'
  BY DEF TypeOK, DataType, StreamType, ThreadType, QueueType, PipeSettles,
     PipeEnds, BusCallback, PipeStep, dbVars, ctrlVars, streamVars, threadVars
<1>2. PipeType'
  BY DEF TypeOK, PipeType, Pipes, PipeSettles, PipeEnds, BusCallback, PipeStep
<1> QED
  BY <1>1, <1>2 DEF TypeOK

LEMMA StutterType == TypeOK /\ UNCHANGED vars => TypeOK'
BY DEF TypeOK, DataType, StreamType, ThreadType, QueueType, PipeType, vars,
   dbVars, ctrlVars, streamVars, threadVars, pipeVars

LEMMA NextType == TypeOK /\ [Next]_vars => TypeOK'
<1>1. ASSUME TypeOK, Next PROVE TypeOK'
  BY <1>1, EditType, CtrlPollType, JoinOldType, QuitType, StartType,
     EmissionType, StreamPollType, PollOverType, RunType, ConstructType,
     TimerFiresType, SlotType, DeleteWrapperType, PipelineType
  DEF Next, Handler, Run
<1> QED
  BY <1>1, StutterType

(* Types: the row stays a row of the playlist, and no signal but those of   *)
(* the header is ever queued.                                               *)
THEOREM TypeCorrect == Spec => []TypeOK
BY InitType, NextType, PTL DEF Spec

-----------------------------------------------------------------------------
(* Threads and QuitHeard: start, quit and the loops that wait for them. *)

LEMMA ThreadsInit == Init => Threads /\ QuitHeard
BY DEF Init, Threads, QuitHeard, Serving, isRunning

LEMMA ThreadsNext ==
  ASSUME TypeOK, Threads, QuitHeard, [Next]_vars
  PROVE  Threads' /\ QuitHeard'
<1> USE DEF TypeOK, ThreadType, MainStates, WorkerStates, Threads, QuitHeard,
        Serving, Stopping, isRunning
<1>1. CASE Edit
  BY <1>1 DEF Edit, threadVars, ctrlVars
<1>2. CASE CtrlPoll
  BY <1>2 DEF CtrlPoll, NewStream, quit, threadVars
<1>3. CASE JoinOld
  BY <1>3 DEF JoinOld, NewStream
<1>4. CASE RestartForSong
  BY <1>4 DEF RestartForSong, quit, ctrlVars
<1>5. CASE StartStream
  BY <1>5 DEF StartStream, syncAndStart, start, ctrlVars
<1>6. CASE AwaitStop
  BY <1>6 DEF AwaitStop, syncAndStart, start, Stopped, ctrlVars
<1>7. CASE AwaitStart
  BY <1>7 DEF AwaitStart, PollDone, threadVars
<1>8. CASE HaltStream
  BY <1>8 DEF HaltStream, quit, ctrlVars
<1>9. CASE AwaitHalt
  BY <1>9 DEF AwaitHalt, PollDone, Stopped, threadVars
<1>10. CASE PassControls
  BY <1>10 DEF PassControls, PollDone, threadVars
<1>11. CASE StreamPoll
  BY <1>11 DEF StreamPoll, threadVars, ctrlVars
<1>12. CASE PollPlaying
  BY <1>12 DEF PollPlaying, threadVars, ctrlVars
<1>13. CASE PollOver
  BY <1>13 DEF PollOver, quit, ctrlVars
<1>14. CASE AwaitOver
  BY <1>14 DEF AwaitOver, Stopped, threadVars, ctrlVars
<1>15. CASE SpinForever
  BY <1>15 DEF SpinForever, threadVars, ctrlVars
<1>16. CASE Construct
  BY <1>16 DEF Construct, WorkerStep, ctrlVars
<1>17. CASE SetStarted
  BY <1>17 DEF SetStarted, WorkerStep, ctrlVars
<1>18. CASE EnterExec
  BY <1>18 DEF EnterExec, WorkerStep, ctrlVars
<1>19. CASE TimerFires
  BY <1>19 DEF TimerFires, WorkerStep, ctrlVars
<1>20. CASE SlotSetPlayState
  BY <1>20 DEF SlotSetPlayState, WorkerStep, ctrlVars
<1>21. CASE WaitPlaying
  BY <1>21 DEF WaitPlaying, WorkerStep, ctrlVars
<1>22. CASE SlotSetVolume
  BY <1>22 DEF SlotSetVolume, WorkerStep, ctrlVars
<1>23. CASE SlotSetPosition
  BY <1>23 DEF SlotSetPosition, WorkerStep, ctrlVars
<1>24. CASE LeaveExec
  BY <1>24 DEF LeaveExec, WorkerStep, ctrlVars
<1>25. CASE DeleteWrapper
  BY <1>25 DEF DeleteWrapper, WorkerStep, ctrlVars
<1>26. CASE ClearStarted
  BY <1>26 DEF ClearStarted, WorkerStep, ctrlVars
<1>27. CASE FinishThread
  BY <1>27 DEF FinishThread, WorkerStep, ctrlVars
<1>28. CASE PipeSettles
  BY <1>28 DEF PipeSettles, PipeStep, threadVars, ctrlVars
<1>29. CASE PipeEnds
  BY <1>29 DEF PipeEnds, PipeStep, threadVars, ctrlVars
<1>30. CASE BusCallback
  BY <1>30 DEF BusCallback, threadVars, ctrlVars
<1>31. CASE UNCHANGED vars
  BY <1>31 DEF vars, threadVars, ctrlVars
<1> QED
  BY <1>1, <1>2, <1>3, <1>4, <1>5, <1>6, <1>7, <1>8, <1>9, <1>10,
     <1>11, <1>12, <1>13, <1>14, <1>15, <1>16, <1>17, <1>18, <1>19, <1>20,
     <1>21, <1>22, <1>23, <1>24, <1>25, <1>26, <1>27, <1>28, <1>29, <1>30,
     <1>31
  DEF Next, Handler, Run

-----------------------------------------------------------------------------
(* Reports: what main takes for the end of a song is one. *)

LEMMA ReportsInit == Init => Reports
BY DEF Init, Reports

LEMMA ReportsNext ==
  ASSUME TypeOK, Threads, Reports, [Next]_vars
  PROVE  Reports'
<1> USE DEF TypeOK, ThreadType, PipeType, Pipes, MainStates, WorkerStates,
        Threads, Reports, Serving, Stopping, dbVars, ctrlVars, streamVars,
        threadVars, pipeVars
<1>1. CASE Edit
  BY <1>1 DEF Edit
<1>2. CASE CtrlPoll
  BY <1>2 DEF CtrlPoll, NewStream, quit
<1>3. CASE JoinOld
  BY <1>3 DEF JoinOld, NewStream
<1>4. CASE RestartForSong
  BY <1>4 DEF RestartForSong, quit, SongChanged
<1>5. CASE StartStream
  BY <1>5 DEF StartStream, syncAndStart, syncData, start, SongChanged, PlayStateChanged
<1>6. CASE AwaitStop
  BY <1>6 DEF AwaitStop, syncAndStart, syncData, start, Stopped
<1>7. CASE AwaitStart
  BY <1>7 DEF AwaitStart, PollDone
<1>8. CASE HaltStream
  BY <1>8 DEF HaltStream, quit, PlayStateChanged
<1>9. CASE AwaitHalt
  BY <1>9 DEF AwaitHalt, PollDone, syncData, Stopped
<1>10. CASE PassControls
  BY <1>10 DEF PassControls, PollDone, syncData, SongChanged
<1>11. CASE StreamPoll
  BY <1>11 DEF StreamPoll
<1>12. CASE PollPlaying
  BY <1>12 DEF PollPlaying
<1>13. CASE PollOver
  BY <1>13 DEF PollOver, quit, EndOfStream
<1>14. CASE AwaitOver
  BY <1>14 DEF AwaitOver, Stopped
<1>15. CASE SpinForever
  BY <1>15 DEF SpinForever
<1>16. CASE Construct
  BY <1>16 DEF Construct, WorkerStep, music_make_pipeline, NewPipe
<1>17. CASE SetStarted
  BY <1>17 DEF SetStarted, WorkerStep
<1>18. CASE EnterExec
  BY <1>18 DEF EnterExec, WorkerStep
<1>19. CASE TimerFires
  BY <1>19 DEF TimerFires, WorkerStep
<1>20. CASE SlotSetPlayState
  BY <1>20 DEF SlotSetPlayState, WorkerStep
<1>21. CASE WaitPlaying
  BY <1>21 DEF WaitPlaying, WorkerStep
<1>22. CASE SlotSetVolume
  BY <1>22 DEF SlotSetVolume, WorkerStep
<1>23. CASE SlotSetPosition
  BY <1>23 DEF SlotSetPosition, WorkerStep
<1>24. CASE LeaveExec
  BY <1>24 DEF LeaveExec, WorkerStep
<1>25. CASE DeleteWrapper
  BY <1>25 DEF DeleteWrapper, WorkerStep
<1>26. CASE ClearStarted
  BY <1>26 DEF ClearStarted, WorkerStep
<1>27. CASE FinishThread
  BY <1>27 DEF FinishThread, WorkerStep
<1>28. CASE PipeSettles
  BY <1>28 DEF PipeSettles, PipeStep
<1>29. CASE PipeEnds
  BY <1>29 DEF PipeEnds, PipeStep
<1>30. CASE BusCallback
  BY <1>30 DEF BusCallback
<1>31. CASE UNCHANGED vars
  BY <1>31 DEF vars
<1> QED
  BY <1>1, <1>2, <1>3, <1>4, <1>5, <1>6, <1>7, <1>8, <1>9, <1>10,
     <1>11, <1>12, <1>13, <1>14, <1>15, <1>16, <1>17, <1>18, <1>19, <1>20,
     <1>21, <1>22, <1>23, <1>24, <1>25, <1>26, <1>27, <1>28, <1>29, <1>30,
     <1>31
  DEF Next, Handler, Run

-----------------------------------------------------------------------------
(* Work: for whom and with what the stream works. *)

LEMMA WorkInit == Init => Work
BY DEF Init, Work

LEMMA WorkNext ==
  ASSUME TypeOK, Threads, Work, [Next]_vars
  PROVE  Work'
<1> USE DEF TypeOK, DataType, StreamType, ThreadType, PipeType, Pipes,
        MainStates, WorkerStates, Threads, Work, Agrees, Serving, isRunning,
        Stopping, dbVars, ctrlVars, streamVars, threadVars, pipeVars
<1>a. /\ data.user # NoUser => SongOf(data) \in Songs
      /\ data.user = NoUser => SongOf(data) = NoSong /\ data.ctl = "Stop"
  BY RowCases
<1>b. msUser.user = NoUser => SongOf(msUser) = NoSong /\ msUser.ctl = "Stop"
  BY RowCases
<1>1. CASE Edit
  BY <1>1 DEF Edit
<1>2. CASE CtrlPoll
  BY <1>2, <1>a, <1>b DEF CtrlPoll, NewStream, quit
<1>3. CASE JoinOld
  BY <1>3 DEF JoinOld, NewStream
<1>4. CASE RestartForSong
  BY <1>4, <1>a DEF RestartForSong, quit, SongChanged
<1>5. CASE StartStream
  BY <1>5, <1>a DEF StartStream, syncAndStart, syncData, start, SongChanged, PlayStateChanged
<1>6. CASE AwaitStop
  BY <1>6, <1>a DEF AwaitStop, syncAndStart, syncData, start, Stopped
<1>7. CASE AwaitStart
  BY <1>7 DEF AwaitStart, PollDone
<1>8. CASE HaltStream
  BY <1>8 DEF HaltStream, quit, PlayStateChanged
<1>9. CASE AwaitHalt
  BY <1>9 DEF AwaitHalt, PollDone, syncData, Stopped
<1>10. CASE PassControls
  BY <1>10 DEF PassControls, PollDone, syncData, SongChanged
<1>11. CASE StreamPoll
  BY <1>11 DEF StreamPoll
<1>12. CASE PollPlaying
  BY <1>12 DEF PollPlaying
<1>13. CASE PollOver
  BY <1>13 DEF PollOver, quit, EndOfStream
<1>14. CASE AwaitOver
  BY <1>14 DEF AwaitOver, Stopped
<1>15. CASE SpinForever
  BY <1>15 DEF SpinForever
<1>16. CASE Construct
  BY <1>16 DEF Construct, WorkerStep, music_make_pipeline, NewPipe
<1>17. CASE SetStarted
  BY <1>17 DEF SetStarted, WorkerStep
<1>18. CASE EnterExec
  BY <1>18 DEF EnterExec, WorkerStep
<1>19. CASE TimerFires
  BY <1>19 DEF TimerFires, WorkerStep
<1>20. CASE SlotSetPlayState
  BY <1>20 DEF SlotSetPlayState, WorkerStep
<1>21. CASE WaitPlaying
  BY <1>21 DEF WaitPlaying, WorkerStep
<1>22. CASE SlotSetVolume
  BY <1>22 DEF SlotSetVolume, WorkerStep
<1>23. CASE SlotSetPosition
  BY <1>23 DEF SlotSetPosition, WorkerStep
<1>24. CASE LeaveExec
  BY <1>24 DEF LeaveExec, WorkerStep
<1>25. CASE DeleteWrapper
  BY <1>25 DEF DeleteWrapper, WorkerStep
<1>26. CASE ClearStarted
  BY <1>26 DEF ClearStarted, WorkerStep
<1>27. CASE FinishThread
  BY <1>27 DEF FinishThread, WorkerStep
<1>28. CASE PipeSettles
  BY <1>28 DEF PipeSettles, PipeStep
<1>29. CASE PipeEnds
  BY <1>29 DEF PipeEnds, PipeStep
<1>30. CASE BusCallback
  BY <1>30 DEF BusCallback
<1>31. CASE UNCHANGED vars
  BY <1>31 DEF vars
<1> QED
  BY <1>1, <1>2, <1>3, <1>4, <1>5, <1>6, <1>7, <1>8, <1>9, <1>10,
     <1>11, <1>12, <1>13, <1>14, <1>15, <1>16, <1>17, <1>18, <1>19, <1>20,
     <1>21, <1>22, <1>23, <1>24, <1>25, <1>26, <1>27, <1>28, <1>29, <1>30,
     <1>31
  DEF Next, Handler, Run

-----------------------------------------------------------------------------
(* The theorems. *)

LEMMA IInvInductive == IInv /\ [Next]_vars => IInv'
BY NextType, ThreadsNext, ReportsNext, WorkNext DEF IInv

LEMMA Invariance == Spec => []IInv
<1>1. Init => IInv
  BY InitType, ThreadsInit, ReportsInit, WorkInit DEF IInv
<1> QED
  BY <1>1, IInvInductive, PTL DEF Spec

(* No handler of main meets a wrapper that run() is building or deleting,   *)
(* although nothing locks it.                                               *)
THEOREM WrapperSafe == Spec => []WrapperWhole
<1>1. IInv => WrapperWhole
  BY DEF IInv, TypeOK, ThreadType, MainStates, Threads, Stopping, Serving,
     WrapperWhole
<1> QED
  BY <1>1, Invariance, PTL

(* Main never waits for a stop that the worker has not been told of.        *)
THEOREM QuitsAreHeard == Spec => []QuitHeard
BY Invariance, PTL DEF IInv

(* The user moved on by onSongOver is the one whose song ended.             *)
THEOREM StreamWorksForUser == Spec => []WorksForUser
<1>1. IInv => WorksForUser
  BY DEF IInv, Threads, Serving, Work, Agrees, WorksForUser
<1> QED
  BY <1>1, Invariance, PTL

-----------------------------------------------------------------------------
(* The refinement of PlaySession. *)

LEMMA SessionInit == Init => Session!Init
BY DEF Init, Session!Init, Phase

(* What each step is to the session, by what it does to these variables.    *)
LEMMA SessionUnchanged ==
  ASSUME UNCHANGED <<mpStream, over, pipe.done, pipe.song>>
  PROVE  UNCHANGED Session!vars
BY DEF Session!vars, Phase

LEMMA SessionStep == IInv /\ [Next]_vars => [Session!Next]_(Session!vars)
<1> SUFFICES ASSUME IInv, [Next]_vars PROVE [Session!Next]_(Session!vars)
  OBVIOUS
<1> USE DEF Session!Next
<1>1. CASE Construct
  <2>1. mpStream = "null" /\ mpStream' = "live" /\ ~over' /\ ~pipe'.done
    BY <1>1 DEF IInv, TypeOK, ThreadType, Threads, Construct, WorkerStep,
       music_make_pipeline, NewPipe
  <2>2. pipe'.song = msSongData /\ msSongData \in Songs
    BY <1>1 DEF IInv, Work, Construct, WorkerStep, music_make_pipeline, NewPipe
  <2>3. Session!Open
    BY <2>1, <2>2 DEF Session!Open, Phase
  <2> QED
    BY <2>3
<1>2. CASE PipeEnds
  <2>1. /\ mpStream = "live" /\ UNCHANGED <<mpStream, over, pipe.song>>
        /\ ~pipe.done /\ pipe'.done
    BY <1>2 DEF IInv, TypeOK, PipeType, Pipes, PipeEnds, PipeStep, threadVars
  <2>2. CASE over
    BY <2>1, <2>2 DEF Session!vars, Phase
  <2>3. CASE ~over
    BY <2>1, <2>3 DEF Session!End, Phase
  <2> QED
    BY <2>2, <2>3
<1>3. CASE PollOver
  <2>1. mpStream = "live" /\ mpStream' = "live" /\ ~over /\ over'
    BY <1>3 DEF IInv, TypeOK, ThreadType, PipeType, Threads, Serving, Reports,
       PollOver
  <2>2. pipe.done /\ pipe' = pipe
    BY <1>3, <2>1 DEF IInv, Reports, PollOver, EndOfStream
  <2>3. Session!songOver
    BY <2>1, <2>2 DEF Session!songOver, Phase
  <2> QED
    BY <2>3
<1>4. CASE DeleteWrapper
  <2>1. mpStream = "live" /\ mpStream' = "null"
    BY <1>4 DEF IInv, TypeOK, ThreadType, Threads, DeleteWrapper, WorkerStep
  <2>2. Session!Close
    BY <2>1 DEF Session!Close, Phase
  <2> QED
    BY <2>2
<1>5. CASE CtrlPoll \/ JoinOld
  <2>1. UNCHANGED <<pipe, over>>
    BY <1>5 DEF CtrlPoll, JoinOld, pipeVars
  <2>2. CASE mpStream' = mpStream
    BY <2>1, <2>2, SessionUnchanged
  <2>3. CASE mpStream' # mpStream
    <3>1. mpStream = "null" /\ mpStream' = "null"
      BY <1>5, <2>3 DEF IInv, TypeOK, ThreadType, Threads, CtrlPoll, JoinOld,
         NewStream, threadVars, isRunning
    <3> QED
      BY <2>3, <3>1
  <2> QED
    BY <2>2, <2>3
<1>6. CASE Edit \/ RestartForSong \/ StartStream \/ AwaitStop \/ AwaitStart
           \/ HaltStream \/ AwaitHalt \/ PassControls \/ StreamPoll
           \/ PollPlaying \/ AwaitOver \/ SpinForever \/ BusCallback
           \/ UNCHANGED vars
  <2>1. UNCHANGED <<mpStream, over, pipe>>
    BY <1>6 DEF Edit, RestartForSong, StartStream, AwaitStop, AwaitStart,
       HaltStream, AwaitHalt, PassControls, StreamPoll, PollPlaying, AwaitOver,
       SpinForever, BusCallback, syncAndStart, vars, threadVars, pipeVars
  <2> QED
    BY <2>1, SessionUnchanged
<1>7. CASE SetStarted \/ EnterExec \/ TimerFires \/ WaitPlaying
           \/ SlotSetPosition \/ LeaveExec \/ ClearStarted \/ FinishThread
  <2>1. UNCHANGED <<mpStream, over, pipe>>
    BY <1>7 DEF SetStarted, EnterExec, TimerFires, WaitPlaying,
       SlotSetPosition, LeaveExec, ClearStarted, FinishThread, pipeVars
  <2> QED
    BY <2>1, SessionUnchanged
<1>8. CASE SlotSetPlayState \/ SlotSetVolume \/ PipeSettles
  <2>1. UNCHANGED <<mpStream, over, pipe.done, pipe.song>>
    BY <1>8 DEF IInv, TypeOK, PipeType, Pipes, SlotSetPlayState, SlotSetVolume,
       PipeSettles, PipeStep, threadVars
  <2> QED
    BY <2>1, SessionUnchanged
<1> QED
  BY <1>1, <1>2, <1>3, <1>4, <1>5, <1>6, <1>7, <1>8 DEF Next, Handler, Run

(* Each wrapper plays one song and reports its end at most once, after the  *)
(* song has played to its end, whether the end comes by the bus callback or *)
(* (Windows) off the bus itself.                                            *)
THEOREM ImplementsSession == Spec => OneReportPerSong
<1>1. Init => Session!Init
  BY SessionInit
<1>2. IInv /\ [Next]_vars => [Session!Next]_(Session!vars)
  BY SessionStep
<1> QED
  BY <1>1, <1>2, Invariance, PTL DEF Spec, OneReportPerSong, Session!Spec

-----------------------------------------------------------------------------
(* PlayerFollows.  A player told to stop before it ever played has no       *)
(* slot for the signal: that it is silent is an invariant of its own.       *)

Silent ==
  msControls.ctl = "Stop" =>
    /\ pipe.target = "NULL"
    /\ \A i \in DOMAIN queue :
         queue[i].sig = "setPlayState" => queue[i].play_state = "Stop"

AtPoint == main \in {"idle", "polling", "checkUser"} /\ mbStarted

Untouched ==
  main = "awaitStart" /\ data.ctl = "Stop"
  /\ worker \in {"wired", "exec", "loop", "waitPlaying"}
    => queue = <<>> /\ pipe.target = "NULL"

Player ==
  /\ AtPoint => VolumeFollows /\ PlayStateFollows /\ Silent
  /\ Untouched

(* The last signal of a kind, when the head of the queue is taken off.      *)
LEMMA LastOfTail ==
  ASSUME queue \in Seq(Signals), queue # <<>>, queue' = Tail(queue), NEW kind
  PROVE  /\ \A i \in DOMAIN queue' : queue'[i] = queue[i + 1]
         /\ \A i \in DOMAIN queue' : i \in Nat /\ i + 1 \in DOMAIN queue
         /\ \A i \in DOMAIN queue' : LastOf(kind, i)' => LastOf(kind, i + 1)
         /\ NoneOf(kind)' /\ Head(queue).sig = kind => LastOf(kind, 1)
         /\ NoneOf(kind)' /\ Head(queue).sig # kind => NoneOf(kind)
<1>1. /\ DOMAIN queue = 1..Len(queue) /\ Len(queue) \in Nat /\ Len(queue) >= 1
      /\ DOMAIN queue' = 1..(Len(queue) - 1)
      /\ \A i \in 1..(Len(queue) - 1) : queue'[i] = queue[i + 1]
      /\ Head(queue) = queue[1]
  OBVIOUS
<1>2. ASSUME NEW j \in DOMAIN queue, j > 1
      PROVE  j - 1 \in DOMAIN queue' /\ queue[j] = queue'[j - 1]
  BY <1>1, <1>2
<1>3. ASSUME NEW i \in DOMAIN queue', LastOf(kind, i)'
      PROVE  LastOf(kind, i + 1)
  <2>1. queue'[i].sig = kind
        /\ \A j \in DOMAIN queue' : j > i => queue'[j].sig # kind
    BY <1>3 DEF LastOf
  <2>2. ASSUME NEW j \in DOMAIN queue, j > i + 1 PROVE queue[j].sig # kind
    <3>1. j - 1 \in DOMAIN queue' /\ queue[j] = queue'[j - 1] /\ j - 1 > i
      BY <1>1, <1>2, <2>2
    <3> QED
      BY <2>1, <3>1
  <2> QED
    BY <1>1, <2>1, <2>2 DEF LastOf
<1>4. ASSUME NoneOf(kind)', NEW j \in DOMAIN queue, j > 1
      PROVE  queue[j].sig # kind
  BY <1>2, <1>4 DEF NoneOf
<1>5. NoneOf(kind)' /\ Head(queue).sig = kind => LastOf(kind, 1)
  BY <1>1, <1>4 DEF LastOf
<1>6. NoneOf(kind)' /\ Head(queue).sig # kind => NoneOf(kind)
  BY <1>1, <1>4 DEF NoneOf
<1> QED
  BY <1>1, <1>3, <1>5, <1>6

(* The last signal of a kind, when signals are queued: it is the last one   *)
(* of these or, when none of them is of the kind, the one that it was.      *)
LEMMA LastOfEmitted ==
  ASSUME queue \in Seq(Signals), NEW sigs \in Seq(Signals), queue' = queue \o sigs
  PROVE  \A kind :
           /\ \A i \in DOMAIN queue' : LastOf(kind, i)' =>
                \/ /\ i \in DOMAIN queue /\ queue'[i] = queue[i] /\ LastOf(kind, i)
                   /\ \A k \in DOMAIN sigs : sigs[k].sig # kind
                \/ \E k \in DOMAIN sigs : queue'[i] = sigs[k] /\ sigs[k].sig = kind
           /\ NoneOf(kind)' =>
                NoneOf(kind) /\ \A k \in DOMAIN sigs : sigs[k].sig # kind
<1> TAKE kind
<1>1. /\ DOMAIN queue = 1..Len(queue) /\ Len(queue) \in Nat
      /\ DOMAIN sigs = 1..Len(sigs) /\ Len(sigs) \in Nat
      /\ DOMAIN queue' = 1..(Len(queue) + Len(sigs))
  OBVIOUS
<1>2. /\ \A j \in DOMAIN queue : j \in DOMAIN queue' /\ queue'[j] = queue[j]
      /\ \A k \in DOMAIN sigs : /\ Len(queue) + k \in DOMAIN queue'
                                /\ queue'[Len(queue) + k] = sigs[k]
  BY <1>1
<1>3. ASSUME NEW i \in DOMAIN queue', LastOf(kind, i)'
      PROVE  \/ /\ i \in DOMAIN queue /\ queue'[i] = queue[i] /\ LastOf(kind, i)
                /\ \A k \in DOMAIN sigs : sigs[k].sig # kind
             \/ \E k \in DOMAIN sigs : queue'[i] = sigs[k] /\ sigs[k].sig = kind
  <2>1. /\ queue'[i].sig = kind
        /\ \A j \in DOMAIN queue' : j > i => queue'[j].sig # kind
    BY <1>3 DEF LastOf
  <2>2. CASE i \in DOMAIN queue
    <3>1. \A k \in DOMAIN sigs : Len(queue) + k > i
      BY <1>1, <2>2
    <3>2. LastOf(kind, i)
      BY <1>2, <2>1, <2>2 DEF LastOf
    <3> QED
      BY <1>2, <2>1, <2>2, <3>1, <3>2
  <2>3. CASE i \notin DOMAIN queue
    <3>1. i - Len(queue) \in DOMAIN sigs /\ i = Len(queue) + (i - Len(queue))
      BY <1>1, <2>3
    <3>2. queue'[i] = sigs[i - Len(queue)]
      BY <1>2, <3>1
    <3> QED
      BY <2>1, <3>1, <3>2
  <2> QED
    BY <2>2, <2>3
<1>4. NoneOf(kind)' => NoneOf(kind) /\ \A k \in DOMAIN sigs : sigs[k].sig # kind
  BY <1>2 DEF NoneOf
<1> QED
  BY <1>3, <1>4

LEMMA PlayerInit == Init => Player
BY DEF Init, Player, AtPoint, Untouched

(* A slot takes its signal off the queue, and what the queue promised the   *)
(* player now has or is promised still.                                     *)
LEMMA SlotPlayer ==
  ASSUME TypeOK, Threads, Player,
         SlotSetPlayState \/ SlotSetVolume \/ SlotSetPosition
  PROVE  Player'
<1>1. /\ queue \in Seq(Signals) /\ queue # <<>> /\ queue' = Tail(queue)
      /\ worker = "loop" /\ UNCHANGED <<main, mbStarted, msControls, data>>
  BY DEF TypeOK, QueueType, SlotSetPlayState, SlotSetVolume, SlotSetPosition,
     WorkerStep, ctrlVars, streamVars
<1>2. Untouched'
  BY <1>1 DEF Player, Untouched
<1>3. ASSUME AtPoint, VolumeFollows PROVE VolumeFollows'
  <2> DEFINE v == msControls.vol
  <2>1. SUFFICES ASSUME ValidVolume(v)
                 PROVE  /\ \A i \in DOMAIN queue' :
                             LastOf("setVolume", i)' => queue'[i].vol = v
                        /\ NoneOf("setVolume")' => pipe'.vol = v
    BY <1>1 DEF VolumeFollows, ValidVolume
  <2>2. /\ \A i \in DOMAIN queue : LastOf("setVolume", i) => queue[i].vol = v
        /\ NoneOf("setVolume") => pipe.vol = v
    BY <1>3, <2>1 DEF VolumeFollows
  <2>3. \A i \in DOMAIN queue' : LastOf("setVolume", i)' => queue'[i].vol = v
    BY <1>1, <2>2, LastOfTail
  <2>4. ASSUME NoneOf("setVolume")' PROVE pipe'.vol = v
    <3>1. CASE SlotSetVolume
      <4>1. Head(queue).vol = v
        <5>1. LastOf("setVolume", 1)
          BY <1>1, <2>4, <3>1, LastOfTail DEF SlotSetVolume
        <5>2. 1 \in DOMAIN queue /\ Head(queue) = queue[1]
          BY <1>1
        <5> QED
          BY <2>2, <5>1, <5>2
      <4> QED
        BY <2>1, <3>1, <4>1 DEF SlotSetVolume, TypeOK, PipeType, Pipes
    <3>2. CASE SlotSetPlayState \/ SlotSetPosition
      <4>1. Head(queue).sig # "setVolume"
        BY <3>2 DEF SlotSetPlayState, SlotSetPosition
      <4>2. NoneOf("setVolume")
        BY <1>1, <2>4, <4>1, LastOfTail
      <4>3. pipe'.vol = pipe.vol
        BY <3>2 DEF SlotSetPlayState, SlotSetPosition, TypeOK, PipeType, Pipes,
           pipeVars
      <4> QED
        BY <2>2, <4>2, <4>3
    <3> QED
      BY <3>1, <3>2
  <2> QED
    BY <2>3, <2>4
<1>4. ASSUME AtPoint, PlayStateFollows, Silent
      PROVE  PlayStateFollows' /\ Silent'
  <2> DEFINE c == msControls.ctl
  <2>1. /\ \A i \in DOMAIN queue :
              LastOf("setPlayState", i) => queue[i].play_state = c
        /\ NoneOf("setPlayState") => pipe.target = StateOf(c)
    BY <1>4 DEF PlayStateFollows
  <2>2. \A i \in DOMAIN queue' :
          LastOf("setPlayState", i)' => queue'[i].play_state = c
    BY <1>1, <2>1, LastOfTail
  <2>3. 1 \in DOMAIN queue /\ Head(queue) = queue[1]
    BY <1>1
  <2>4. Silent'
    <3>1. SUFFICES ASSUME c = "Stop"
                   PROVE  /\ pipe'.target = "NULL"
                          /\ \A i \in DOMAIN queue' :
                               queue'[i].sig = "setPlayState"
                                 => queue'[i].play_state = "Stop"
      BY <1>1 DEF Silent
    <3>2. /\ pipe.target = "NULL"
          /\ \A i \in DOMAIN queue :
               queue[i].sig = "setPlayState" => queue[i].play_state = "Stop"
      BY <1>4, <3>1 DEF Silent
    <3>3. \A i \in DOMAIN queue' :
            queue'[i].sig = "setPlayState" => queue'[i].play_state = "Stop"
      BY <1>1, <3>2, LastOfTail
    <3>4. pipe'.target = "NULL"
      BY <2>3, <3>2 DEF SlotSetPlayState, SlotSetVolume, SlotSetPosition,
         TypeOK, PipeType, Pipes, pipeVars
    <3> QED
      BY <3>3, <3>4
  <2>5. ASSUME NoneOf("setPlayState")' PROVE pipe'.target = StateOf(c)
    <3>1. CASE SlotSetPlayState
      <4>1. LastOf("setPlayState", 1)
        BY <1>1, <2>5, <3>1, LastOfTail DEF SlotSetPlayState
      <4>2. Head(queue).play_state = c
        BY <2>1, <2>3, <4>1
      <4>3. CASE c = "Stop"
        BY <2>4, <4>3, <1>1 DEF Silent, StateOf
      <4>4. CASE c # "Stop"
        BY <3>1, <4>2, <4>4 DEF SlotSetPlayState, TypeOK, PipeType, Pipes
      <4> QED
        BY <4>3, <4>4
    <3>2. CASE SlotSetVolume \/ SlotSetPosition
      <4>1. Head(queue).sig # "setPlayState"
        BY <3>2 DEF SlotSetVolume, SlotSetPosition
      <4>2. NoneOf("setPlayState")
        BY <1>1, <2>5, <4>1, LastOfTail
      <4>3. pipe'.target = pipe.target
        BY <3>2 DEF SlotSetVolume, SlotSetPosition, TypeOK, PipeType, Pipes,
           pipeVars
      <4> QED
        BY <2>1, <4>2, <4>3
    <3> QED
      BY <3>1, <3>2
  <2>6. PlayStateFollows'
    BY <1>1, <2>2, <2>5 DEF PlayStateFollows
  <2> QED
    BY <2>4, <2>6
<1> QED
  BY <1>1, <1>2, <1>3, <1>4 DEF Player, AtPoint

(* A new wrapper gets the three signals of the user. *)
LEMMA AwaitStartPlayer ==
  ASSUME TypeOK, Threads, Work, Player, AwaitStart
  PROVE  Player'
<1> DEFINE sigs == <<s_setPlayState(data.ctl), s_setPosition, s_setVolume(data.vol)>>
<1>1. /\ queue \in Seq(Signals) /\ sigs \in Seq(Signals)
      /\ Len(sigs) = 3 /\ DOMAIN sigs = 1..3
  <2>1. /\ s_setPlayState(data.ctl) \in Signals
        /\ s_setPosition \in Signals
        /\ s_setVolume(data.vol) \in Signals
    BY EmittedSignals DEF TypeOK, DataType
  <2> QED
    BY <2>1 DEF TypeOK, QueueType
<1>2. worker \in {"exec", "loop", "waitPlaying"} /\ mpStream = "live"
  BY DEF Threads, Stopping, AwaitStart
<1>3. /\ queue' = queue \o sigs
      /\ UNCHANGED <<msControls, pipe, worker, mbStarted>> /\ main' = "idle"
  BY <1>2 DEF AwaitStart, Emit, PollDone, streamVars, threadVars, pipeVars
<1>4. msControls.ctl = data.ctl /\ msControls.vol = data.vol
  BY DEF Work, Agrees, AwaitStart
<1>5. /\ sigs[1].sig = "setPlayState" /\ sigs[1].play_state = data.ctl
      /\ sigs[2].sig = "setPosition"
      /\ sigs[3].sig = "setVolume" /\ sigs[3].vol = data.vol
  BY DEF s_setPlayState, s_setPosition, s_setVolume
<1> HIDE DEF sigs
<1>e. \A kind :
        /\ \A i \in DOMAIN queue' : LastOf(kind, i)' =>
             \/ /\ i \in DOMAIN queue /\ queue'[i] = queue[i] /\ LastOf(kind, i)
                /\ \A k \in DOMAIN sigs : sigs[k].sig # kind
             \/ \E k \in DOMAIN sigs : queue'[i] = sigs[k] /\ sigs[k].sig = kind
        /\ NoneOf(kind)' =>
             NoneOf(kind) /\ \A k \in DOMAIN sigs : sigs[k].sig # kind
  BY <1>1, <1>3, LastOfEmitted
<1>6. VolumeFollows'
  <2>1. ASSUME NEW i \in DOMAIN queue', LastOf("setVolume", i)'
        PROVE  queue'[i].vol = data.vol
    <3>a. ~\A k \in DOMAIN sigs : sigs[k].sig # "setVolume"
      BY <1>1, <1>5
    <3>1. PICK k \in DOMAIN sigs :
            queue'[i] = sigs[k] /\ sigs[k].sig = "setVolume"
      BY <1>e, <2>1, <3>a
    <3>2. k = 3
      BY <1>1, <1>5, <3>1
    <3> QED
      BY <1>5, <3>1, <3>2
  <2>2. ~NoneOf("setVolume")'
    BY <1>1, <1>5, <1>e
  <2> QED
    BY <1>3, <1>4, <2>1, <2>2 DEF VolumeFollows
<1>7. PlayStateFollows'
  <2>1. ASSUME NEW i \in DOMAIN queue', LastOf("setPlayState", i)'
        PROVE  queue'[i].play_state = data.ctl
    <3>a. ~\A k \in DOMAIN sigs : sigs[k].sig # "setPlayState"
      BY <1>1, <1>5
    <3>1. PICK k \in DOMAIN sigs :
            queue'[i] = sigs[k] /\ sigs[k].sig = "setPlayState"
      BY <1>e, <2>1, <3>a
    <3>2. k = 1
      BY <1>1, <1>5, <3>1
    <3> QED
      BY <1>5, <3>1, <3>2
  <2>2. ~NoneOf("setPlayState")'
    BY <1>1, <1>5, <1>e
  <2> QED
    BY <1>3, <1>4, <2>1, <2>2 DEF PlayStateFollows
<1>8. Silent'
  <2>1. SUFFICES ASSUME data.ctl = "Stop"
                 PROVE  /\ pipe.target = "NULL"
                        /\ \A i \in DOMAIN queue' :
                             queue'[i].sig = "setPlayState"
                               => queue'[i].play_state = "Stop"
    BY <1>3, <1>4 DEF Silent
  <2>2. queue = <<>> /\ pipe.target = "NULL"
    BY <1>2, <2>1 DEF Player, Untouched, AwaitStart
  <2>3. queue' = sigs
    BY <1>1, <1>3, <2>2
  <2> QED
    BY <1>1, <1>5, <2>1, <2>2, <2>3
<1> QED
  BY <1>3, <1>6, <1>7, <1>8 DEF Player, Untouched

(* PassControls: what changed since the last poll is queued. *)
LEMMA PassControlsPlayer ==
  ASSUME TypeOK, Threads, Player, PassControls
  PROVE  Player'
<1> DEFINE play == IF PlayStateChanged THEN <<s_setPlayState(data.ctl)>> ELSE <<>>
           sigs == play \o VolumeSignal
<1>1. queue \in Seq(Signals) /\ sigs \in Seq(Signals)
  <2>1. s_setPlayState(data.ctl) \in Signals /\ s_setVolume(data.vol) \in Signals
    BY EmittedSignals DEF TypeOK, DataType
  <2> QED
    BY <2>1 DEF TypeOK, QueueType, VolumeSignal
<1>2. /\ Emit(sigs) /\ UNCHANGED <<pipe, worker, mbStarted, mpStream>>
      /\ main = "checkUser" /\ main' = "idle"
      /\ msControls'.ctl = data.ctl /\ msControls'.vol = data.vol
  BY DEF PassControls, PollDone, syncData, threadVars, pipeVars
<1>3. SUFFICES ASSUME mbStarted
               PROVE  VolumeFollows' /\ PlayStateFollows' /\ Silent'
  BY <1>2 DEF Player, AtPoint, Untouched
<1>4. mpStream = "live"
  BY <1>2, <1>3 DEF Threads, Stopping
<1>5. queue' = queue \o sigs
  BY <1>2, <1>4 DEF Emit
<1>6. VolumeFollows /\ PlayStateFollows /\ Silent
  BY <1>2, <1>3 DEF Player, AtPoint
<1>7. /\ \A k \in DOMAIN sigs :
           \/ sigs[k].sig = "setPlayState" /\ sigs[k].play_state = data.ctl
              /\ PlayStateChanged
           \/ sigs[k].sig = "setVolume" /\ sigs[k].vol = data.vol
      /\ PlayStateChanged => \E k \in DOMAIN sigs : sigs[k].sig = "setPlayState"
      /\ VolumeChanged => \E k \in DOMAIN sigs : sigs[k].sig = "setVolume"
  <2>1. CASE PlayStateChanged /\ VolumeChanged
    <3>1. play = <<s_setPlayState(data.ctl)>> /\ VolumeSignal = <<s_setVolume(data.vol)>>
      BY <2>1 DEF VolumeSignal
    <3>2. /\ DOMAIN sigs = 1..2
          /\ sigs[1] = s_setPlayState(data.ctl) /\ sigs[2] = s_setVolume(data.vol)
      BY <3>1
    <3>3. /\ sigs[1].sig = "setPlayState" /\ sigs[1].play_state = data.ctl
          /\ sigs[2].sig = "setVolume" /\ sigs[2].vol = data.vol
      BY <3>2 DEF s_setPlayState, s_setVolume
    <3> HIDE DEF sigs
    <3> QED
      BY <2>1, <3>2, <3>3
  <2>2. CASE PlayStateChanged /\ ~VolumeChanged
    <3>1. sigs = <<s_setPlayState(data.ctl)>>
      BY <2>2 DEF VolumeSignal
    <3> QED
      BY <2>2, <3>1 DEF s_setPlayState
  <2>3. CASE ~PlayStateChanged /\ VolumeChanged
    <3>1. play = <<>> /\ VolumeSignal = <<s_setVolume(data.vol)>>
      BY <2>3 DEF VolumeSignal
    <3>2. DOMAIN sigs = 1..1 /\ sigs[1] = s_setVolume(data.vol)
      BY <3>1
    <3>3. sigs[1].sig = "setVolume" /\ sigs[1].vol = data.vol
      BY <3>2 DEF s_setVolume
    <3> HIDE DEF sigs
    <3> QED
      BY <2>3, <3>2, <3>3
  <2>4. CASE ~PlayStateChanged /\ ~VolumeChanged
    <3>1. sigs = <<>>
      BY <2>4 DEF VolumeSignal
    <3> QED
      BY <2>4, <3>1
  <2> QED
    BY <2>1, <2>2, <2>3, <2>4
<1> HIDE DEF sigs
<1>e. \A kind :
        /\ \A i \in DOMAIN queue' : LastOf(kind, i)' =>
             \/ /\ i \in DOMAIN queue /\ queue'[i] = queue[i] /\ LastOf(kind, i)
                /\ \A k \in DOMAIN sigs : sigs[k].sig # kind
             \/ \E k \in DOMAIN sigs : queue'[i] = sigs[k] /\ sigs[k].sig = kind
        /\ NoneOf(kind)' =>
             NoneOf(kind) /\ \A k \in DOMAIN sigs : sigs[k].sig # kind
  BY <1>1, <1>5, LastOfEmitted
<1>8. VolumeFollows'
  <2>1. SUFFICES ASSUME ValidVolume(data.vol)
                 PROVE  /\ \A i \in DOMAIN queue' :
                             LastOf("setVolume", i)' => queue'[i].vol = data.vol
                        /\ NoneOf("setVolume")' => pipe.vol = data.vol
    BY <1>2 DEF VolumeFollows, ValidVolume
  <2>2. ASSUME NEW i \in DOMAIN queue', LastOf("setVolume", i)'
        PROVE  queue'[i].vol = data.vol
    <3>1. CASE \E k \in DOMAIN sigs : queue'[i] = sigs[k] /\ sigs[k].sig = "setVolume"
      BY <1>7, <3>1
    <3>2. CASE /\ i \in DOMAIN queue /\ queue'[i] = queue[i] /\ LastOf("setVolume", i)
               /\ \A k \in DOMAIN sigs : sigs[k].sig # "setVolume"
      BY <1>6, <1>7, <2>1, <3>2 DEF VolumeFollows, VolumeChanged
    <3> QED
      BY <1>e, <2>2, <3>1, <3>2
  <2>3. ASSUME NoneOf("setVolume")' PROVE pipe.vol = data.vol
    <3>1. NoneOf("setVolume") /\ ~VolumeChanged
      BY <1>7, <1>e, <2>3
    <3> QED
      BY <1>6, <2>1, <3>1 DEF VolumeFollows, VolumeChanged
  <2> QED
    BY <2>2, <2>3
<1>9. PlayStateFollows'
  <2>1. ASSUME NEW i \in DOMAIN queue', LastOf("setPlayState", i)'
        PROVE  queue'[i].play_state = data.ctl
    <3>1. CASE \E k \in DOMAIN sigs : queue'[i] = sigs[k] /\ sigs[k].sig = "setPlayState"
      BY <1>7, <3>1
    <3>2. CASE /\ i \in DOMAIN queue /\ queue'[i] = queue[i] /\ LastOf("setPlayState", i)
               /\ \A k \in DOMAIN sigs : sigs[k].sig # "setPlayState"
      BY <1>6, <1>7, <3>2 DEF PlayStateFollows, PlayStateChanged
    <3> QED
      BY <1>e, <2>1, <3>1, <3>2
  <2>2. ASSUME NoneOf("setPlayState")' PROVE pipe.target = StateOf(data.ctl)
    <3>1. NoneOf("setPlayState") /\ ~PlayStateChanged
      BY <1>7, <1>e, <2>2
    <3> QED
      BY <1>6, <3>1 DEF PlayStateFollows, PlayStateChanged
  <2> QED
    BY <1>2, <2>1, <2>2 DEF PlayStateFollows
<1>10. Silent'
  <2>1. SUFFICES ASSUME data.ctl = "Stop"
                 PROVE  /\ pipe.target = "NULL"
                        /\ \A i \in DOMAIN queue' :
                             queue'[i].sig = "setPlayState"
                               => queue'[i].play_state = "Stop"
    BY <1>2 DEF Silent
  <2>2. ~PlayStateChanged /\ msControls.ctl = "Stop"
    BY <2>1 DEF PassControls, PlayStateChanged
  <2>3. /\ pipe.target = "NULL"
        /\ \A i \in DOMAIN queue :
             queue[i].sig = "setPlayState" => queue[i].play_state = "Stop"
    BY <1>6, <2>2 DEF Silent
  <2>4. ASSUME NEW i \in DOMAIN queue', queue'[i].sig = "setPlayState"
        PROVE  queue'[i].play_state = "Stop"
    <3>1. \/ i \in DOMAIN queue /\ queue'[i] = queue[i]
          \/ \E k \in DOMAIN sigs : queue'[i] = sigs[k]
      <4>1. i \in 1..(Len(queue) + Len(sigs))
        BY <1>1, <1>5, <2>4
      <4>2. CASE i \in 1..Len(queue)
        BY <1>1, <1>5, <4>2
      <4>3. CASE i \notin 1..Len(queue)
        <5>1. i - Len(queue) \in DOMAIN sigs /\ queue'[i] = sigs[i - Len(queue)]
          BY <1>1, <1>5, <4>1, <4>3
        <5> QED
          BY <5>1
      <4> QED
        BY <4>2, <4>3
    <3> QED
      BY <1>7, <2>2, <2>3, <2>4, <3>1
  <2> QED
    BY <2>3, <2>4
<1> QED
  BY <1>8, <1>9, <1>10

LEMMA PlayerNext ==
  ASSUME TypeOK, Threads, Work, Player, [Next]_vars
  PROVE  Player'
<1>1. CASE SlotSetPlayState \/ SlotSetVolume \/ SlotSetPosition
  BY <1>1, SlotPlayer
<1>2. CASE AwaitStart
  BY <1>2, AwaitStartPlayer
<1>3. CASE PassControls
  BY <1>3, PassControlsPlayer
<1>4. ASSUME UNCHANGED <<queue, msControls, pipe.target, pipe.vol>>, AtPoint' => AtPoint
      PROVE  (AtPoint => VolumeFollows /\ PlayStateFollows /\ Silent)'
  BY <1>4 DEF Player, VolumeFollows, PlayStateFollows, Silent, LastOf, NoneOf
<1>5. CASE StartStream \/ AwaitStop
  <2>1. ~AtPoint'
    BY <1>5 DEF StartStream, AwaitStop, syncAndStart, AtPoint
  <2>2. Untouched'
    BY <1>5 DEF StartStream, AwaitStop, syncAndStart, start, isRunning, Stopped,
       PlayStateChanged, ctrlVars, Threads, Untouched, TypeOK, ThreadType,
       WorkerStates
  <2> QED
    BY <2>1, <2>2 DEF Player
<1>6. CASE RestartForSong \/ HaltStream \/ AwaitHalt \/ JoinOld \/ PollOver
           \/ AwaitOver \/ SpinForever
  <2>1. ~AtPoint' /\ main' # "awaitStart"
    BY <1>6 DEF RestartForSong, HaltStream, AwaitHalt, JoinOld, PollOver,
       AwaitOver, SpinForever, Stopped, NewStream, PollDone, threadVars, AtPoint
  <2> QED
    BY <2>1 DEF Player, Untouched
<1>7. CASE CtrlPoll
  <2>1. main' # "awaitStart"
    BY <1>7 DEF CtrlPoll
  <2>2. CASE mbStarted'
    <3>1. CASE main' = "joinOld"
      BY <2>1, <3>1 DEF Player, Untouched, AtPoint
    <3>2. CASE main' # "joinOld"
      <4>1. UNCHANGED <<queue, msControls, pipe, mbStarted>> /\ main = "idle"
        BY <1>7, <2>2, <3>2 DEF CtrlPoll, NewStream, streamVars, threadVars, pipeVars
      <4> QED
        BY <1>4, <2>1, <2>2, <4>1 DEF Player, Untouched, AtPoint
    <3> QED
      BY <3>1, <3>2
  <2>3. CASE ~mbStarted'
    BY <2>1, <2>3 DEF Player, Untouched, AtPoint
  <2> QED
    BY <2>2, <2>3
<1>8. CASE StreamPoll \/ PollPlaying
  <2>1. /\ UNCHANGED <<queue, msControls, pipe, mbStarted>>
        /\ main' # "awaitStart" /\ main \in {"idle", "polling"}
    BY <1>8 DEF StreamPoll, PollPlaying, streamVars, threadVars, pipeVars
  <2> QED
    BY <1>4, <2>1 DEF Player, Untouched, AtPoint
<1>9. CASE Edit \/ BusCallback \/ UNCHANGED vars
  <2>1. UNCHANGED <<queue, msControls, pipe, mbStarted, main, data, worker>>
    BY <1>9 DEF Edit, BusCallback, vars, ctrlVars, streamVars, threadVars, pipeVars
  <2> QED
    BY <1>4, <2>1 DEF Player, Untouched, AtPoint
<1>10. CASE PipeSettles \/ PipeEnds
  <2>1. /\ UNCHANGED <<queue, msControls, mbStarted, main, data, worker>>
        /\ pipe'.target = pipe.target /\ pipe'.vol = pipe.vol
    BY <1>10 DEF PipeSettles, PipeEnds, PipeStep, TypeOK, PipeType, Pipes,
       ctrlVars, streamVars, threadVars
  <2> QED
    BY <1>4, <2>1 DEF Player, Untouched, AtPoint
<1>11. CASE Construct
  <2>1. ~AtPoint'
    BY <1>11 DEF Construct, WorkerStep, Threads, AtPoint
  <2>2. queue' = <<>> /\ pipe'.target = "NULL"
    BY <1>11 DEF Construct, music_make_pipeline, NewPipe
  <2> QED
    BY <2>1, <2>2 DEF Player, Untouched
<1>12. CASE SetStarted
  <2>1. ~AtPoint' /\ UNCHANGED <<queue, pipe, main, data>> /\ worker = "wired"
    BY <1>12 DEF SetStarted, WorkerStep, Threads, AtPoint, ctrlVars, pipeVars
  <2> QED
    BY <2>1 DEF Player, Untouched
<1>13. CASE EnterExec \/ TimerFires \/ WaitPlaying \/ LeaveExec \/ FinishThread
  <2>1. /\ UNCHANGED <<queue, msControls, pipe, mbStarted, main, data>>
        /\ worker' \in {"wired", "exec", "loop", "waitPlaying"}
             => worker \in {"exec", "loop", "waitPlaying"}
    BY <1>13 DEF EnterExec, TimerFires, WaitPlaying, LeaveExec, FinishThread,
       WorkerStep, ctrlVars, streamVars, pipeVars
  <2> QED
    BY <1>4, <2>1 DEF Player, Untouched, AtPoint
<1>14. CASE DeleteWrapper \/ ClearStarted
  <2>1. ~AtPoint' /\ worker' \in {"deleted", "ended"}
    BY <1>14 DEF DeleteWrapper, ClearStarted, WorkerStep, Threads, Stopping,
       AtPoint
  <2> QED
    BY <2>1 DEF Player, Untouched
<1> QED
  BY <1>1, <1>2, <1>3, <1>5, <1>6, <1>7, <1>8, <1>9, <1>10, <1>11, <1>12,
     <1>13, <1>14
  DEF Next, Handler, Run

(* Between two handlers, the player is playing the song, at the volume and  *)
(* in the state that checkUser believes it has set, as soon as it has       *)
(* served its queue: no signal is lost or overtaken on the way, however     *)
(* the polls of the two timers and the restarts fall.                       *)
THEOREM PlayerFollowsUser == Spec => []PlayerFollows
<1>1. IInv /\ Player => PlayerFollows
  BY DEF IInv, Threads, Stopping, Work, Player, AtPoint, PlayerFollows
<1>2. IInv /\ Player /\ [Next]_vars => Player'
  BY PlayerNext DEF IInv
<1> QED
  BY <1>1, <1>2, PlayerInit, Invariance, PTL DEF Spec

=============================================================================
