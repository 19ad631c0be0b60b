---------------------------- MODULE StreamThread ----------------------------
(***************************************************************************)
(* One client playing the music of its room.  Two threads run:             *)
(*                                                                         *)
(*   - the main (GUI) thread dispatches tcClientCtrl::poll every 50 ms,    *)
(*     tcStreamThread::poll (queued to it by the timer of the worker, for  *)
(*     a QThread object lives in the thread that created it) and the bus   *)
(*     callback of the pipeline.  Between two handlers it is "idle"; the   *)
(*     other values of main are the points at which a handler can be       *)
(*     overtaken by the worker, most of them busy-wait loops;              *)
(*   - the worker runs tcStreamThread::run: it builds the stream wrapper,  *)
(*     serves the signals queued to it and tears the wrapper down.         *)
(*                                                                         *)
(* The row of server_commands for the room is the environment's; so are    *)
(* QThread (Qt 4.8) and the GStreamer pipeline, modelled from how          *)
(* the code uses them.                                                     *)
(***************************************************************************)
EXTENDS UserData

CONSTANTS
  Playable,     \* the songs whose pipeline reaches PLAYING when asked to
  LossyDB,      \* TRUE: a query to the database may fail
  HoistedSpin,  \* TRUE: the build reads mbStarted once per busy-wait loop
  WIN32,        \* TRUE: end_of_stream() pops the bus, no callback runs
  MaxEdits,     \* bound: times the server changes the row of the room
  MaxPolls      \* bound: timeouts of the stream's timer queued to main

ASSUME StreamThreadAssumption ==
  /\ Playable \subseteq Songs
  /\ {LossyDB, HoistedSpin, WIN32} \subseteq BOOLEAN
  /\ MaxEdits \in Nat
  /\ MaxPolls \in Nat

VARIABLES
  row,          \* what the database says of the room
  edits,        \* how often the server changed it (counts to MaxEdits)
  main,         \* where the main thread is
  data,         \* the local variable of tcClientCtrl::poll
  msUser,       \* tcClientCtrl::msUser, the data of the last poll
  haveStream,   \* tcClientCtrl::mpStream is not NULL
  msSongData,   \* tcStreamThread::msSongData, its song
  msControls,   \* tcStreamThread::msControls
  mbStarted,    \* tcStreamThread::mbStarted
  mpStream,     \* tcStreamThread::mpStream, the wrapper: "null" or "live"
  worker,       \* where the worker thread is, "off" if there is none
  exited,       \* QThread: exit() was called and no event loop has seen it
  queue,        \* the signals queued to the wrapper
  polls,        \* the calls of tcStreamThread::poll queued to main
  pipe,         \* the pipeline: song, states, volume, played to the end
  bus,          \* an end-of-stream message is on the bus of the pipeline
  endofstream,  \* music_rtp_pipeline::endofstream
  over          \* history: this wrapper's end was reported with songOver

ctrlVars   == <<data, msUser, haveStream>>
streamVars == <<msSongData, msControls>>
threadVars == <<worker, exited, mbStarted, mpStream>>
pipeVars   == <<pipe, bus, endofstream>>
dbVars     == <<row, edits>>
vars == <<dbVars, main, ctrlVars, streamVars, threadVars, queue, polls,
          pipeVars, over>>

-----------------------------------------------------------------------------
(* QThread, as the client uses it. *)

isRunning == worker # "off"

(* start() does nothing while the thread runs: not even when run() is over *)
(* and the thread has yet to be marked finished.                           *)
start ==
  IF isRunning
  THEN UNCHANGED <<worker, exited>>
  ELSE worker' = "construct" /\ exited' = FALSE

(* Mutant: exit() as that of a plain event loop, lost before exec(). *)
quitLoop == exited' = (worker \in {"loop", "waitPlaying"})

(* quit() is remembered: an exec() that has yet to begin returns at once.  *)
quit == exited' = TRUE

(* Mutant: nobody waits. *)
NotAwaited == TRUE

(* while(mbStarted); has come to its end. *)
Stopped == ~mbStarted

(* The signals that main queues to the wrapper in the worker. *)
s_setPlayState(c) == [sig |-> "setPlayState", play_state |-> c]
s_setPosition     == [sig |-> "setPosition"]
s_setVolume(v)    == [sig |-> "setVolume", vol |-> v]

Signals == {s_setPlayState(c) : c \in PlayStates} \cup {s_setPosition}
           \cup {s_setVolume(v) : v \in Volumes \cup {0}}

(* A signal reaches a wrapper that is connected, and nobody otherwise. *)
Emit(signals) ==
  queue' = IF mpStream = "live" THEN queue \o signals ELSE queue

(* Mutant: the controls are forgotten. *)
syncSong ==
  /\ msSongData' = SongOf(data)
  /\ UNCHANGED msControls

(* tcStreamThread::syncData. *)
syncData ==
  /\ msSongData' = SongOf(data)
  /\ msControls' = [ctl |-> data.ctl, vol |-> data.vol]

(* A tcStreamThread just constructed; what was queued to the old one dies. *)
NewStream ==
  /\ haveStream' = TRUE
  /\ msSongData' = NoSong
  /\ msControls' = [ctl |-> "Stop", vol |-> 0]
  /\ mbStarted' = FALSE
  /\ mpStream' = "null"
  /\ exited' = FALSE
  /\ queue' = <<>>
  /\ polls' = 0

-----------------------------------------------------------------------------
(* The server: web interface, voice commands, IR_PRIORITY(). *)

Edit ==
  /\ edits < MaxEdits
  /\ edits' = edits + 1
  /\ row' \in Rows \ {row}
  /\ UNCHANGED <<main, ctrlVars, streamVars, threadVars, queue, polls,
                 pipeVars, over>>

-----------------------------------------------------------------------------
(* tcClientCtrl::poll. *)

(* getDBUser answers the row of the room; a query that fails finds no row, *)
(* which reads as a room without a user.                                   *)
getDBUser == {row} \cup (IF LossyDB THEN {DefaultData} ELSE {})

(* The first poll creates a stream, a poll that finds another user replaces *)
(* it, once the old one has stopped, and every poll ends in checkUser.     *)
CtrlPoll ==
  /\ main = "idle"
  /\ data' \in getDBUser
  /\ IF haveStream /\ data'.user = msUser.user
     THEN /\ main' = "checkUser"
          /\ UNCHANGED <<haveStream, streamVars, threadVars, queue, polls>>
     ELSE IF haveStream /\ isRunning
     THEN /\ quit
          /\ main' = "joinOld"
          /\ UNCHANGED <<haveStream, streamVars, worker, mbStarted, mpStream,
                         queue, polls>>
     ELSE /\ NewStream
          /\ main' = "checkUser"
          /\ UNCHANGED worker
  /\ UNCHANGED <<dbVars, msUser, pipeVars, over>>

(* while(mpStream->isRunning()); then the new stream. *)
JoinOld ==
  /\ main = "joinOld"
  /\ ~isRunning
  /\ NewStream
  /\ main' = "checkUser"
  /\ UNCHANGED <<dbVars, data, msUser, worker, pipeVars, over>>

(* Mutant: msUser stays what it was. *)
PollDoneStale ==
  /\ data' = DefaultData
  /\ main' = "idle"
  /\ UNCHANGED <<msUser, haveStream>>

(* The end of the handler: msUser = data, and data goes out of scope. *)
PollDone ==
  /\ msUser' = data
  /\ data' = DefaultData
  /\ main' = "idle"
  /\ UNCHANGED haveStream

-----------------------------------------------------------------------------
(* tcStreamThread::checkUser, called with data by tcClientCtrl::poll. *)

SongChanged == msSongData # SongOf(data)
PlayStateChanged == msControls.ctl # data.ctl
VolumeChanged == msControls.vol # data.vol

(* Another song, and a thread that plays the old one: stop that first. *)
RestartForSong ==
  /\ main = "checkUser"
  /\ SongChanged
  /\ isRunning
  /\ quit
  /\ main' = "awaitStop"
  /\ UNCHANGED <<dbVars, ctrlVars, streamVars, worker, mbStarted, mpStream,
                 queue, polls, pipeVars, over>>

syncAndStart ==
  /\ syncData
  /\ start
  /\ main' = "awaitStart"
  /\ UNCHANGED <<dbVars, ctrlVars, mbStarted, mpStream, queue, polls,
                 pipeVars, over>>

(* Another song and no thread, or the end of a stop. *)
StartStream ==
  /\ main = "checkUser"
  /\ \/ SongChanged /\ ~isRunning
     \/ ~SongChanged /\ PlayStateChanged /\ msControls.ctl = "Stop"
  /\ syncAndStart

(* while(mbStarted); of RestartForSong, then the start. *)
AwaitStop ==
  /\ main = "awaitStop"
  /\ Stopped
  /\ syncAndStart

(* while(!mbStarted); and the settings of the user for the new wrapper. *)
AwaitStart ==
  /\ main = "awaitStart"
  /\ mbStarted
  /\ Emit(<<s_setPlayState(data.ctl), s_setPosition, s_setVolume(data.vol)>>)
  /\ PollDone
  /\ UNCHANGED <<dbVars, streamVars, threadVars, polls, pipeVars, over>>

(* The song is to stop. *)
HaltStream ==
  /\ main = "checkUser"
  /\ ~SongChanged /\ PlayStateChanged
  /\ msControls.ctl # "Stop" /\ data.ctl = "Stop"
  /\ quit
  /\ main' = "awaitHalt"
  /\ UNCHANGED <<dbVars, ctrlVars, streamVars, worker, mbStarted, mpStream,
                 queue, polls, pipeVars, over>>

(* Mutant: else if. *)
VolumeSignalElse ==
  IF ~PlayStateChanged /\ VolumeChanged THEN <<s_setVolume(data.vol)>> ELSE <<>>

VolumeSignal == IF VolumeChanged THEN <<s_setVolume(data.vol)>> ELSE <<>>

AwaitHalt ==
  /\ main = "awaitHalt"
  /\ Stopped
  /\ Emit(VolumeSignal)
  /\ syncData
  /\ PollDone
  /\ UNCHANGED <<dbVars, threadVars, polls, pipeVars, over>>

(* Nothing to start or stop: pass on what changed. *)
PassControls ==
  /\ main = "checkUser"
  /\ ~SongChanged
  /\ PlayStateChanged => "Stop" \notin {msControls.ctl, data.ctl}
  /\ Emit((IF PlayStateChanged THEN <<s_setPlayState(data.ctl)>> ELSE <<>>)
           \o VolumeSignal)
  /\ syncData
  /\ PollDone
  /\ UNCHANGED <<dbVars, threadVars, polls, pipeVars, over>>

-----------------------------------------------------------------------------
(* tcStreamThread::poll, queued to main by the timer of the worker. *)

StreamPoll ==
  /\ main = "idle"
  /\ polls > 0
  /\ polls' = polls - 1
  /\ main' = IF mpStream = "null" THEN "idle" ELSE "polling"
  /\ UNCHANGED <<dbVars, ctrlVars, streamVars, threadVars, queue, pipeVars,
                 over>>

(* Mutant: the condition || position >= length, which is commented out. *)
EndByPosition == (IF WIN32 THEN bus ELSE endofstream) \/ pipe.cur = "NULL"

(* Mutant: the Unix branch, whatever the platform. *)
EndByCallback == endofstream

(* tcStreamWrapper::end_of_stream. *)
EndOfStream == IF WIN32 THEN bus ELSE endofstream

(* Position and length are read off the wrapper; no end yet. *)
PollPlaying ==
  /\ main = "polling"
  /\ ~EndOfStream
  /\ main' = "idle"
  /\ UNCHANGED <<dbVars, ctrlVars, streamVars, threadVars, queue, polls,
                 pipeVars, over>>

(* requestNextSong(msUser): the track of the user is set to the one after  *)
(* the track of the last poll, whatever the row says by now.  The room     *)
(* sees it if the user is still there; a query that fails changes nothing. *)
requestNextSong ==
  \/ row' = IF row.user = msUser.user /\ row.user # NoUser
            THEN [row EXCEPT !.track = NextTrack(msUser.track)] ELSE row
  \/ LossyDB /\ row' = row

(* The song is over: quit(), songOver, and wait for the thread. *)
PollOver ==
  /\ main = "polling"
  /\ EndOfStream
  /\ bus' = (bus /\ ~WIN32)
  /\ quit
  /\ requestNextSong
  /\ over' = TRUE
  /\ main' = "awaitOver"
  /\ UNCHANGED <<edits, ctrlVars, streamVars, worker, mbStarted, mpStream,
                 queue, polls, pipe, endofstream>>

AwaitOver ==
  /\ main = "awaitOver"
  /\ Stopped
  /\ main' = "idle"
  /\ UNCHANGED <<dbVars, ctrlVars, streamVars, threadVars, queue, polls,
                 pipeVars, over>>

(* mbStarted is a plain bool shared without synchronisation: an optimised  *)
(* build may read it once and, not finding the value it wants, spin on the *)
(* register for ever.                                                      *)
SpinForever ==
  /\ HoistedSpin
  /\ \/ main \in {"awaitStop", "awaitHalt", "awaitOver"} /\ mbStarted
     \/ main = "awaitStart" /\ ~mbStarted
  /\ main' = "wedged"
  /\ UNCHANGED <<dbVars, ctrlVars, streamVars, threadVars, queue, polls,
                 pipeVars, over>>

-----------------------------------------------------------------------------
(* The worker: tcStreamThread::run. *)

WorkerStep(from, to) ==
  /\ worker = from
  /\ worker' = to
  /\ UNCHANGED <<dbVars, main, ctrlVars, streamVars>>

NewPipe == [song |-> msSongData, target |-> "NULL", cur |-> "NULL",
            vol |-> 20, done |-> FALSE]

(* Mutant: endofstream is not reset. *)
music_make_no_reset == pipe' = NewPipe /\ bus' = FALSE /\ UNCHANGED endofstream

(* A pipeline that is not started yet, at the default volume. *)
music_make_pipeline == pipe' = NewPipe /\ bus' = FALSE /\ endofstream' = FALSE

(* mpStream = new tcStreamWrapper(song). *)
Construct ==
  /\ WorkerStep("construct", "wired")
  /\ mpStream' = "live"
  /\ music_make_pipeline
  /\ queue' = <<>>
  /\ over' = FALSE
  /\ UNCHANGED <<exited, mbStarted, polls>>

(* Signals connected, timer started: mbStarted = true. *)
SetStarted ==
  /\ WorkerStep("wired", "exec")
  /\ mbStarted' = TRUE
  /\ UNCHANGED <<exited, mpStream, queue, polls, pipeVars, over>>

(* exec() returns at once if exit() was called before it. *)
EnterExec ==
  /\ WorkerStep("exec", IF exited THEN "teardown" ELSE "loop")
  /\ exited' = FALSE
  /\ UNCHANGED <<mbStarted, mpStream, queue, polls, pipeVars, over>>

(* The timer queues a call of tcStreamThread::poll to main. *)
TimerFires ==
  /\ WorkerStep("loop", "loop")
  /\ polls < MaxPolls
  /\ polls' = polls + 1
  /\ UNCHANGED <<exited, mbStarted, mpStream, queue, pipeVars, over>>

StateOf(c) ==
  CASE c = "Play" -> "PLAYING" [] c = "Pause" -> "PAUSED" [] c = "Stop" -> "NULL"

(* tcStreamWrapper::setPlayState: Stop is not among its cases, and Play    *)
(* waits until the pipeline is PLAYING.                                    *)
SlotSetPlayState ==
  /\ queue # <<>>
  /\ Head(queue).sig = "setPlayState"
  /\ LET c == Head(queue).play_state
     IN /\ WorkerStep("loop", IF c = "Play" THEN "waitPlaying" ELSE "loop")
        /\ pipe' = IF c = "Stop" THEN pipe
                   ELSE [pipe EXCEPT !.target = StateOf(c)]
  /\ queue' = Tail(queue)
  /\ UNCHANGED <<exited, mbStarted, mpStream, polls, bus, endofstream, over>>

(* while(music_get_state(mpPLine) != GST_STATE_PLAYING); *)
WaitPlaying ==
  /\ WorkerStep("waitPlaying", "loop")
  /\ pipe.cur = "PLAYING"
  /\ UNCHANGED <<exited, mbStarted, mpStream, queue, polls, pipeVars, over>>

ValidVolume(v) == v \in 0..100

(* tcStreamWrapper::setVolume drops a volume out of range. *)
SlotSetVolume ==
  /\ WorkerStep("loop", "loop")
  /\ queue # <<>>
  /\ Head(queue).sig = "setVolume"
  /\ LET v == Head(queue).vol
     IN pipe' = IF ValidVolume(v) THEN [pipe EXCEPT !.vol = v] ELSE pipe
  /\ queue' = Tail(queue)
  /\ UNCHANGED <<exited, mbStarted, mpStream, polls, bus, endofstream, over>>

(* tcStreamWrapper::setPosition seeks, which no variable here shows. *)
SlotSetPosition ==
  /\ WorkerStep("loop", "loop")
  /\ queue # <<>>
  /\ Head(queue).sig = "setPosition"
  /\ queue' = Tail(queue)
  /\ UNCHANGED <<exited, mbStarted, mpStream, polls, pipeVars, over>>

(* The event loop sees exit(); what is still queued may be left undone. *)
LeaveExec ==
  /\ WorkerStep("loop", "teardown")
  /\ exited
  /\ exited' = FALSE
  /\ UNCHANGED <<mbStarted, mpStream, queue, polls, pipeVars, over>>

(* Timer and connections are gone; delete mpStream takes the pipeline to   *)
(* NULL, which empties its bus, and drops what was queued to the wrapper.  *)
DeleteWrapper ==
  /\ WorkerStep("teardown", "deleted")
  /\ mpStream' = "null"
  /\ queue' = <<>>
  /\ pipe' = [pipe EXCEPT !.target = "NULL", !.cur = "NULL"]
  /\ bus' = FALSE
  /\ UNCHANGED <<exited, mbStarted, polls, endofstream, over>>

ClearStarted ==
  /\ WorkerStep("deleted", "ended")
  /\ mbStarted' = FALSE
  /\ UNCHANGED <<exited, mpStream, queue, polls, pipeVars, over>>

(* run() has returned; QThread marks the thread finished. *)
FinishThread ==
  /\ WorkerStep("ended", "off")
  /\ UNCHANGED <<exited, mbStarted, mpStream, queue, polls, pipeVars, over>>

-----------------------------------------------------------------------------
(* The pipeline. *)

PipeStep ==
  /\ mpStream = "live"
  /\ UNCHANGED <<dbVars, main, ctrlVars, streamVars, threadVars, queue, polls,
                 over>>

(* An asynchronous state change ends; that of a bad song never does. *)
PipeSettles ==
  /\ PipeStep
  /\ pipe.cur # pipe.target
  /\ pipe.song \in Playable
  /\ pipe' = [pipe EXCEPT !.cur = pipe.target]
  /\ UNCHANGED <<bus, endofstream>>

(* The song ends: once, for nothing flows after it. *)
PipeEnds ==
  /\ PipeStep
  /\ pipe.cur = "PLAYING"
  /\ ~pipe.done
  /\ pipe' = [pipe EXCEPT !.done = TRUE]
  /\ bus' = TRUE
  /\ UNCHANGED endofstream

(* bus_callb, dispatched by the main thread where Qt runs GLib's loop. *)
BusCallback ==
  /\ main = "idle"
  /\ ~WIN32
  /\ bus
  /\ bus' = FALSE
  /\ endofstream' = TRUE
  /\ UNCHANGED <<dbVars, main, ctrlVars, streamVars, threadVars, queue, polls,
                 pipe, over>>

-----------------------------------------------------------------------------
Init ==
  /\ row \in Rows
  /\ edits = 0
  /\ main = "idle"
  /\ data = DefaultData
  /\ msUser = DefaultData
  /\ haveStream = FALSE
  /\ msSongData = NoSong
  /\ msControls = [ctl |-> "Stop", vol |-> 0]
  /\ mbStarted = FALSE
  /\ mpStream = "null"
  /\ worker = "off"
  /\ exited = FALSE
  /\ queue = <<>>
  /\ polls = 0
  /\ pipe = [song |-> NoSong, target |-> "NULL", cur |-> "NULL",
             vol |-> 20, done |-> FALSE]
  /\ bus = FALSE
  /\ endofstream = FALSE
  /\ over = FALSE

(* The steps of a handler that has begun. *)
Handler ==
  \/ JoinOld \/ RestartForSong \/ StartStream \/ AwaitStop \/ AwaitStart
  \/ HaltStream \/ AwaitHalt \/ PassControls
  \/ PollPlaying \/ PollOver \/ AwaitOver

Run ==
  \/ Construct \/ SetStarted \/ EnterExec
  \/ SlotSetPlayState \/ WaitPlaying \/ SlotSetVolume \/ SlotSetPosition
  \/ DeleteWrapper \/ ClearStarted \/ FinishThread

Next ==
  \/ Edit
  \/ CtrlPoll \/ StreamPoll \/ BusCallback \/ Handler \/ SpinForever
  \/ Run \/ TimerFires \/ LeaveExec
  \/ PipeSettles \/ PipeEnds

Spec == Init /\ [][Next]_vars

(* The event loop of the main thread serves its timer, its posted events   *)
(* and its GLib sources in turn: each is dispatched again and again while  *)
(* handlers return.  Both threads are scheduled, and a playable song       *)
(* starts.  The server owes nothing, and no song needs to end.             *)
Fairness ==
  /\ SF_vars(CtrlPoll)
  /\ SF_vars(StreamPoll)
  /\ SF_vars(BusCallback)
  /\ WF_vars(Handler)
  /\ WF_vars(Run)
  /\ WF_vars(TimerFires)
  /\ WF_vars(LeaveExec)
  /\ WF_vars(PipeSettles)

FairSpec == Spec /\ Fairness

-----------------------------------------------------------------------------
(* Types. *)

MainStates == {"idle", "checkUser", "joinOld", "awaitStop", "awaitHalt",
               "awaitStart", "polling", "awaitOver", "wedged"}

WorkerStates == {"off", "construct", "wired", "exec", "loop", "waitPlaying",
                 "teardown", "deleted", "ended"}

VolumesSent == Volumes \cup {0}

Pipes == [song : Songs \cup {NoSong}, target : {"NULL", "PAUSED", "PLAYING"},
          cur : {"NULL", "PAUSED", "PLAYING"},
          vol : VolumesSent \cup {20}, done : BOOLEAN]

DataType == row \in Rows /\ data \in Rows /\ msUser \in Rows /\ edits \in 0..MaxEdits

StreamType ==
  /\ haveStream \in BOOLEAN
  /\ msSongData \in Songs \cup {NoSong}
  /\ msControls \in [ctl : PlayStates, vol : VolumesSent]

ThreadType ==
  /\ main \in MainStates /\ worker \in WorkerStates
  /\ mpStream \in {"null", "live"}
  /\ mbStarted \in BOOLEAN /\ exited \in BOOLEAN

QueueType == queue \in Seq(Signals) /\ polls \in 0..MaxPolls

PipeType ==
  /\ pipe \in Pipes
  /\ bus \in BOOLEAN /\ endofstream \in BOOLEAN /\ over \in BOOLEAN

(* Every variable keeps its type; requestNextSong keeps to the playlist.    *)
TypeOK == DataType /\ StreamType /\ ThreadType /\ QueueType /\ PipeType

-----------------------------------------------------------------------------
(* Safety. *)

Serving == worker \in {"exec", "loop", "waitPlaying"}

(* The wrapper that main uses is whole.  tcStreamThread::poll reads         *)
(* position, length and end_of_stream() through mpStream, and the bus       *)
(* callback writes to the pipeline, with no lock: whenever main may do so   *)
(* the worker is serving it, and neither building nor deleting it.          *)
WrapperWhole ==
  main \in {"idle", "polling", "checkUser"} /\ mpStream = "live" => Serving

(* The stop that main waits for is under way.  Every loop in which main     *)
(* spins until the worker has stopped was preceded by a quit() that the     *)
(* worker has yet to see or is acting upon, even when quit() came before    *)
(* the worker reached exec().                                               *)
QuitHeard ==
  /\ main \in {"awaitStop", "awaitHalt", "awaitOver"} /\ mbStarted
       => exited \/ worker \in {"teardown", "deleted"}
  /\ main = "joinOld" /\ isRunning
       => exited \/ worker \in {"teardown", "deleted", "ended"}

(* The last signal of a kind that is still queued to the wrapper. *)
LastOf(kind, i) ==
  /\ i \in DOMAIN queue
  /\ queue[i].sig = kind
  /\ \A j \in DOMAIN queue : j > i => queue[j].sig # kind

NoneOf(kind) == \A i \in DOMAIN queue : queue[i].sig # kind

(* What checkUser believes it has set is what the player has, or will have  *)
(* once it has served its queue: the volume (unless it is out of range),    *)
(* the play state and the song.                                             *)
VolumeFollows ==
  LET v == msControls.vol
  IN ValidVolume(v) =>
       /\ \A i \in DOMAIN queue : LastOf("setVolume", i) => queue[i].vol = v
       /\ NoneOf("setVolume") => pipe.vol = v

PlayStateFollows ==
  LET c == msControls.ctl
  IN /\ \A i \in DOMAIN queue :
          LastOf("setPlayState", i) => queue[i].play_state = c
     /\ NoneOf("setPlayState") => pipe.target = StateOf(c)

PlayerFollows ==
  main \in {"idle", "polling", "checkUser"} /\ mbStarted
    => VolumeFollows /\ PlayStateFollows /\ pipe.song = msSongData

(* The track that tcClientCtrl::onSongOver moves the user on from is the    *)
(* track of the song that ended: between two handlers, the stream works for *)
(* the user, song and controls of the last poll.                            *)
WorksForUser ==
  /\ main = "idle" /\ haveStream =>
       /\ msSongData = SongOf(msUser)
       /\ msControls = [ctl |-> msUser.ctl, vol |-> msUser.vol]
  /\ main = "polling" => haveStream /\ pipe.song = SongOf(msUser)

-----------------------------------------------------------------------------
(* Liveness. *)

(* start() found the old thread not yet marked finished, and did nothing:   *)
(* run() clears mbStarted before it returns.  Nothing sets it again.        *)
StartLost == main = "awaitStart" /\ worker = "off" /\ ~mbStarted

(* The song asked for is the one that has ended (a playlist of one song, a  *)
(* song twice in a row, a jump back): checkUser sees no change.             *)
Exhausted == over /\ mpStream = "null" /\ msSongData = SongOf(row)

Wants == row.user # NoUser /\ row.ctl = "Play"

Sounding ==
  /\ mpStream = "live"
  /\ pipe.cur = "PLAYING" /\ ~pipe.done
  /\ pipe.song = SongOf(row)

(* The main thread spins only for a while, unless a start was lost. *)
MainReturns == main # "idle" ~> (main = "idle" \/ StartLost)

(* A user in the room whose music is to play hears it sooner or later,      *)
(* again and again from song to song, but for the two traps above.          *)
MusicFollows == []<>(Wants => Sounding \/ StartLost \/ Exhausted)

(* The same without the trap of the lost start: the README has music that   *)
(* "seemlessly follows users across rooms".                                 *)
MusicFollowsUnlessExhausted == []<>(Wants => Sounding \/ Exhausted)

-----------------------------------------------------------------------------
(* Refinement: see PlaySession. *)

Phase ==
  CASE mpStream = "null" -> "none"
    [] mpStream = "live" /\ over -> "reported"
    [] mpStream = "live" /\ ~over /\ pipe.done -> "ended"
    [] mpStream = "live" /\ ~over /\ ~pipe.done -> "playing"

Session == INSTANCE PlaySession WITH
  phase <- Phase,
  song <- IF mpStream = "null" THEN NoSong ELSE pipe.song

(* Every wrapper plays one song, and reports its end at most once and only  *)
(* after the song has played to its end.                                    *)
OneReportPerSong == Session!Spec

=============================================================================
