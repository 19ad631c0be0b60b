# M.U.S.I.C. client: TLA+ specifications

M.U.S.I.C. (Multi User Sound Immersion Controller) plays the music of several
people in the rooms of one house.  Each room has a client: a Qt 4 program in
the system tray that polls one row of a database, plays the song that the row
names with a GStreamer pipeline, and writes back how far it has come.  The
program is small; what makes it hard is that two threads hand a pipeline to each
other through busy-wait loops, that Qt delivers signals, timers and deletions
later, that several clients write to the same tables without knowing of each
other, and that what people say is cut out of a stream of samples by one thread and
sent to a server by another.  These specifications are about that.

File and line numbers refer to `src/`; `client/src/` and, for adintool,
`voice/julius-4.2.1/` are left out of the names of their files.

## 1. The system

| part | state | operations | talks to |
|---|---|---|---|
| stream thread, `tcStreamThread` | `msSongData`, `msControls`, `mbStarted`, `mpStream`, the QThread | `run`, `poll`, `checkUser`, `syncData` | client controller (calls, signals), wrapper (signals queued to the worker) |
| stream wrapper, `tcStreamWrapper` | a pipeline | construction, destruction, `setPlayState`, `setPosition`, `setVolume`; `position`, `length`, `end_of_stream` | streaming library |
| client controller, `tcClientCtrl` | pointers to database, IR receiver, poll timer, stream, adintool; `msUser` | `start`, `stop`, `restart`, `poll`, `onSongInfo`, `onSongOver`, `handleAdinTool`, `handleBadges` | everything in the client |
| system tray, `tcSystemTray` | enabled menu entries, icon, `mePlayState` | `onStarted`, `onStopped`, `setState` | client controller (signals) |
| IR receiver, `IRInterface` | an open serial port | `initialize`, `getBadgesIds` | serial port |
| database interface, `tcIfaceDB` | a connection, `mbReportPosition` | `getDBUser`, `requestNextSong`, `updatePosition`, `badgesFound`, `sendHB`, `isServerStarted` | the server's tables |
| client streaming library, `stream/` | pipeline, bus, `endofstream` | make, delete, play, seek, volume, bus callback | GStreamer |
| C streaming library, `streaming/`, and its player, `tests/stream_client.c` | a pipeline and a play/pause flag | commands typed by the user | GStreamer |
| adintool, `voice/julius-4.2.1/adintool/` with `adin-cut.c` | a cycle buffer, a swap buffer, the buffer `speech`, `transfer_online`, the position of the server's commands | `adin_cut`, `adin_store_buffer`, `adin_thread_process`, the commands pause, terminate, resume | microphone, an adinnet server |
| server | `server_commands`, `music_controller`, badges | web interface, voice commands, `IR_PRIORITY()` | not in the repository |
| recogniser, the rest of `voice/` | | | vendored Julius, acoustic model, grammar data |

How they interact:

- **Two threads.**  A `QThread` object lives in the thread that created it, so
  `tcStreamThread::poll` runs in the *main* thread although the timer that calls
  it lives in the worker; only `run()` and the wrapper's slots run in the
  *worker*.  The threads share `mbStarted` (a plain `bool`) and `mpStream` (a
  plain pointer) with no lock; six loops of the kind `while(mbStarted);` are the
  whole synchronisation.
- **Queued signals.**  Settings go from main to the wrapper through the worker's
  event queue; what is still queued when a wrapper dies is dropped.
- **Deferred deletion.**  `stop()` hands its objects to `deleteLater()`, which
  the event loop performs in some later event.
- **Repeated connection.**  `start()` connects the tray's signals once more each
  time it runs, so that a click runs its slot once per `start()` so far.
- **Shared tables.**  The clients read one view and write one table; each
  decides from its own last poll whether it is the one to report a position.
  Badges and heart beats go into two more tables, with a SELECT and then a write
  that depends on it, outside any transaction.
- **A process of its own.**  The client starts `adintool -in mic -out adinnet` when
  the server says that a julius server is up, and kills it when not.  Its capture
  thread and its main thread share one buffer and one flag; they lock each access
  to them but not the decisions in between.

Hard behaviours: the order of the steps of the two threads; stops that arrive
before the event loop runs; events of an old object that reach a new one; stale
answers of a previous poll; menu choices in any order; queries that fail; clients
that end between two queries; two rooms that end one song; a command buffer that
keeps its past; a silence that is kept back, sent or dropped, depending on what comes
after it.  `PROJECT.json` lists each at its line ("hazards").

What makes each part correct: main touches a wrapper only while it is whole; a
stop that is waited for comes; the player does what the last poll asked for; a
song's end is reported once and for the right user; music goes on (stream
thread, wrapper, library).  Menu, timer, database, receiver and adintool agree
however the menu is used (controller, tray, receiver).  One room reports for a
user and nobody is skipped past a song that was not played (database interface,
several clients).  A badge that stays is seen where it is, the tables do not grow, a
manual override is kept (badges).  What plays is what was loaded, the flag does
not run ahead of the pipeline, a line that is typed again is understood (the player).
A segment has no hole, its samples come in order, none is sent again but for what a
head margin may repeat of the silence before it, and the server is told where a segment
ends (adintool).

## 2. The modules

| module | what it is |
|---|---|
| `UserData` | the row of a room, the playlist, the track after a track |
| `StreamThread` | one client's main thread, worker thread and pipeline |
| `PlaySession` | abstract specification: what a stream thread promises |
| `StreamThreadProofs` | invariants and refinement of `StreamThread`, proved |
| `ClientCtrl` | the life of a client: menu, timer, receiver, adintool |
| `ClientCtrlProofs` | invariants of `ClientCtrl`, proved |
| `Rooms` | several clients and the tables they share |
| `RoomsHeard` | `Rooms` with a history of what has sounded of each song |
| `Listening` | abstract specification: what the house promises to a user who walks through it |
| `RoomsProofs` | what the rooms agree on and what they play together, proved |
| `Badges` | several clients, the badges they hear and the tables of badges and clients |
| `BadgesProofs` | how the races of their queries are bounded, proved |
| `Volume` | what becomes of a volume that is set and read back |
| `StreamClient` | the command-line player on top of the C streaming library |
| `StreamClientProofs` | what the player promises at its prompt, proved |
| `AdinTool` | adintool's two threads, its buffer, the server's commands |
| `AdinToolProofs` | what the two threads may rely on, proved |
| `AdinOrderProofs` | in what order samples are sent, and how many of them again, proved |
| `AdinHolesProofs` | that a segment has no hole and the swap buffer is long enough, proved |
| `MCStream`, `MCClient`, `MCRooms`, `MCBadges`, `MCStreamClient` | instances for TLC |

Four of the models meet at `tcClientCtrl::poll`.  `StreamThread` has the part of
it that deals with users and streams, step by step; `ClientCtrl` has the whole
handler as one step, the stream reduced to absent, idle or running; `Rooms` has
one poll per room as one step, the stream reduced to the song it plays and how
far it is; `Badges` has its end, the heart beat and the badges, query by query.
`StreamClient` and `AdinTool` are programs of their own; `ClientCtrl` starts the
latter.  Each variable carries the name of the member it models, each action
or operator the name of the function; `PROJECT.json` ("map") gives the lines.
An operator marked "Mutant" is a wrong version of the one after it; it is used
only to show that a property would notice.

### StreamThread

`main` is the program counter of the main thread.  `"idle"` is the event loop;
from there one handler begins: `CtrlPoll` (the 50 ms timer), `StreamPoll` (a call
queued by the worker's timer) or `BusCallback` (GLib's source for the pipeline's
bus).  A handler is cut into steps only where the worker can be observed:

| `main` | the code |
|---|---|
| `joinOld` | `while(mpStream->isRunning());` when another user has come |
| `checkUser` | the comparisons of `checkUser` |
| `awaitStop`, `awaitStart` | `while(mbStarted);`, `while(!mbStarted);` around the start of another song |
| `awaitHalt` | `while(mbStarted);` after a change to Stop |
| `polling`, `awaitOver` | `tcStreamThread::poll`, up to and after `songOver` |
| `wedged` | an optimised loop that read `mbStarted` once (`HoistedSpin`) |

`worker` is that of the worker: `construct`, `wired`, `exec`, `loop`,
`waitPlaying` (the loop in `setPlayState`), `teardown`, `deleted`, `ended`,
`off`.  `ended` and `off` differ because `run()` clears `mbStarted` before it
returns and QThread marks the thread finished afterwards.

Outside the repository, and modelled from how the code uses it: a QThread whose
`start()` does nothing while it runs and whose `quit()` is remembered until the
next `exec()` (`start`, `quit`, `EnterExec`, `LeaveExec`); a pipeline that changes
state asynchronously, ends a song once, and empties its bus on the way to NULL
(`PipeSettles`, `PipeEnds`, `DeleteWrapper`); a server that sets the row to
anything at any time (`Edit`).  A query that fails reads as a room with no user
(`LossyDB`).  `WIN32` selects the branch of `end_of_stream()` that pops the bus.

### ClientCtrl

Everything is the main thread, one event per action.  A click sets `slot` and
`rounds` (the number of connections); `CallStart`, `CallStop` and `CallRestart`
then run the slot, one connection at a time, before the next event.  A choice is
made only when what `deleteLater()` left has been done (`deferred = {}`): people
are slower than the event loop.  A use of a null or freed object, or the deletion
of a running thread, ends the behaviour, and `fate` says on what: `nullDB`,
`songNullDB`, `freedAdinTool`, `nullAdinTool`, `runningThread`.  A serial port that
can be opened once at a time is the parameter `ExclusivePort`; that there is a
port is assumed.

### Rooms

`Poll(i)` is `getDBUser` (with the count of users seen in earlier rows, which
decides `mbReportPosition`) and what `tcClientCtrl::poll` makes of it.  A stream is
`starting` (no position yet: -1), `playing` (from the beginning), then `sounding`
once the seek to the saved position is served.  `Tick` is time: a second or so,
before which every room has polled (`late`), since 50 ms is short against it.
`updatePosition` and `requestNextSong` write from `msUser`, the last poll.
`ResetsPosition` is the server's choice to reset the position of a new track.
`Choose` is a person who picks another track at the web interface.

`fresh`, `unaware` and `confused` are history variables, as is `over` in
`StreamThread`: they restrict no action.  `confused` are the users for whom a
position of one song was saved for another, whose choice was overwritten by a room
that had not polled since, or who chose between two songs, when a room was still at
the end of the one before (`Behind`); all are behaviours of the code (section 5).

`RoomsHeard` adds one more history variable: `heard` is, for each user who is not
confused, the set of positions at which the track in the table has sounded in some room
that plays for the user.  `Listening` has only the user's side of it: his track, what has
sounded of it, and the promise that this grows from the beginning without a gap, and
that the next track comes when all of this one has sounded or somebody chooses.
`RoomsHeard` maps `track` to the table, and the users who are lost to the promise to
`confused`.

### Badges

The program of each client is a record: its next query, the badges it has still
to do, the badge at hand.  `SelectClient`, `UpdateClient`, `InsertClient` are
`sendHB`; `getBadgesIds` reads the port and drops the bytes that are no badge;
`SelectBadge`, `UpdateBadge`, `InsertBadge` and `CallPriority` are `badgesFound`.
Each is one query and so one step; a query fails or not (`Query`), and a SELECT that
fails reads as one without rows, since the code asks only `query.isValid()`.  `Crash`
and `Restart` end a client between two queries and start it again.  A badge is
worn in one place and sends its id again and again (`Emit`, `Move`); a person may
override where it is (`Edit`).  `IR_PRIORITY()` is external: `CallPriority` records
which rooms it was shown.  The time stamps of the rows are left out, for no query
of the client reads them.

### StreamClient and Volume

`main` is at the prompt, in `music_play_song` (`playSong`) or just after it
(`setState`), or at one of the ends: `exited`, `join` (the end of the input),
`crashed` (`NULL + 1`), `underflow` (the byte before the buffer).  A line is a
command, an argument and a length; `held` is how much of the buffer is in use, and a
line that is shorter than the one before leaves the tail of that in place.  What
`sscanf` and `strstr` then find is one of a few values.  The pipeline goes to its
target in its own time (`Settle`), fails, or, for a `Silent` source, does neither.
`Volume` computes `(int)((v / 100.0) * 100)` from the remainders of the division,
without floating point: the quotient is rounded to 53 bits, so is the product, and
the truncation shows when the product falls short.

### AdinTool

A sample is the number of its capture, so that "twice", "late" and "missing" are
visible.  `capture` is where the capture thread is: it reads (`Read`), goes through
what it has read step by step (`Cut`), and stores each piece in two steps, for
`adin_store_buffer` looks whether there is room before it takes the lock (`Check`,
`Store`, `Overflow`).  `Cut` is a step that triggers (`Trigger`), one of trailing
silence (`TrailingSilence`) or one outside speech (`Silence`); which of them is the
speaker's choice.  `EndStep` ends an utterance after `nc_max` silent steps.
`process` is where the main thread is: `Poll` reads length and flags under the
lock, `CheckCommand` obeys pause or terminate, `Send` sends without the lock,
`Rehash` moves the buffer, `Empty` clears it at an overflow, a command or the end of
an utterance, `Wait` waits for resume, `Reopen` starts over.  `Fails` is a
microphone that fails.  The callback of adintool returns 0 always, so the
paths for 1 and -1 are left out.  `last` and `stale` are history variables.

## 3. What TLC checks

| run | properties | bounds | distinct states |
|---|---|---|---|
| `stream_safety` | `TypeOK`, `WrapperWhole`, `QuitHeard`, `PlayerFollows`, `WorksForUser`, `OneReportPerSong` | 2 users (symmetric), 2 songs of which one never starts, 2 volumes of which one is out of range, 2 edits, 1 queued poll, failing queries, hoisted loops | 711 800 |
| `stream_live` | `MainReturns`, `MusicFollows` | 2 users, 2 songs, 2 edits | 216 125 |
| `stream_win32` | `MusicFollows`, `OneReportPerSong` | 1 user, 2 songs, 2 edits, Windows | 36 651 |
| `client_life` | `TypeOK`, `TrayAgrees`, `OnePollTimer`, `StreamHasDatabase`, `BadgesRead`, `AdinToolFollows` | 5 clicks, 2 changes outside | 90 446 |
| `rooms_safety` | `TypeOK`, `ReportersAgree`, `WritesForSomebody`, `NothingSkipped`, `SongsPlayOut`, `PlaysAsOne` | 2 users (symmetric), 2 rooms, 2 tracks, songs of length 2, 1 move, 1 choice of a track | 1 770 616 |
| `badges` | `TypeOK`, `RowsBounded`, `OverrideKept`, `Followed`, `HeartBeats` | 2 clients with a name each or one for both, 2 bytes of which one is a badge, 1 move, 1 edit, 1 fault | 468 342 |
| `player` | `TypeOK`, `FlagNeverAhead`, `PlaysWhatWasLoaded`, `VolumeReadBack`, `Understood`, `PromptReturns` | lines of 5 lengths up to 6, 2 songs, a file that is missing, one that stays silent, 2 failed reads | 107 196 |
| `adin` | `TypeOK`, `ReadsStored`, `NothingDropped`, `HolesWhereStale`, `SwapFits`, `SentInOrder`, `SegmentsClosed` | 7 samples, reads of 0 to 3, steps of 2, head margin 4, tail margin 1, `nc_max` 3, buffer of 6, 2 commands, 1 failure | 1 230 390 |

The four runs of section 5 end with a counterexample.

**Why the bounds are enough.**  In `StreamThread` what a new poll finds depends on
the difference to the last one only, and two edits give each pair of differences
while a handler, a start or a stop of the first is under way; the end of a song
adds further changes of the row that no bound limits.  One queued poll is enough
for a poll of an old thread to meet a new wrapper.  The bound on polls blocks the
timer, never a handler.  In `ClientCtrl` the shortest way to a leaked timer takes
three choices, to a poll by it four; five leave room for one more.  In `Rooms` two
rooms can be each of first, second, ahead and behind; users start in any of them, so
one move brings a user in or away.  Positions 0, 1 and 2 are the beginning, the
middle and the end; a length of 1 would let a song end in the tick that starts it.
With two tracks the one that is chosen is the next one, and also the one before: the
choice that a lagging room is most easily mistaken about.  One that is neither needs a
third track, with which the same run has 5 424 428 states, takes more than twice as
long and finds no error either; the proofs cover any number.  Where the server keeps the
position of the old track (`ResetsPosition = FALSE`, 4 583 670 states, no error) most
changes of track confuse the user, so the run has the other case; the proofs have both.
In `Badges` two clients give every race of two queries; the third byte value would be
another badge, and badges meet only in the loop of one client, which the
proofs cover for any number.  A name of its own for each client makes them compete
for a badge, one name for both for a row of `clients`.  In `StreamClient` the lengths
are such that each command can follow one that is shorter, as long, or longer.  In
`AdinTool` reads of 0 to 3 samples, looked at two at a time, give steps of one and of
two: a read may bring nothing, less than a step, a step, or a step and a sample that is
left over for the next read, or for a step of its own if that brings nothing or fails.
Three silent steps let a silence be stored, kept back and taken up again; a buffer of 6
is moved (`RehashAt`), can be full, and holds what one read makes the capture thread
store, as `Room` (section 4) asks; two commands are a pause and the resume.  Seven
samples are two utterances with such a silence between them, the head margin of the
second reaching back over it.  With eight, and a buffer of 7, there are 2 697 829 states
and no error either.

**What is sent twice.**  `adin_cut` counts a silence in steps (`nc_max`), and its margins
in samples.  A step is `chunk_size` samples, or all there is if that is less: what a read
returned and the one before left over.  Three operators of `AdinTool` say what follows.
The shortest step is `MinStep`; of a silence in such steps the tail margin takes
`TailSteps`; what the rest keeps back (`KeptBack`) is not sent when the utterance ends.
If the head margin is longer than that, the next utterance repeats up to `Overlap` samples
of the silence that was sent:

| with the client's options, at 16 kHz | `MinStep` | `TailSteps` | `KeptBack` | `Overlap` |
|---|---|---|---|---|
| reads of a step, 1000 samples, or more | 1000 | 16 | 5000 | 0 |
| ALSA, periods of 32 ms (`adin_mic_linux_alsa.c:75`) | 512 | 31 | 0 | 4799 |
| OSS, fragments of up to 50 ms (`adin_mic_linux_oss.c:94`) | 512 | 31 | 0 | 4799 |
| a read of nothing at the wrong time, some samples left over | 1 | 15 840 | 0 | 4799 |
| the run `adin` | 1 | 1 | 2 | 1 |

(head margin 4800, tail margin `sbsize - c_length` = 15 840, `nc_max` 21).  So in the
usual configurations on Linux samples are sent twice; in whole steps none are.
`SentInOrder` has the bound for every length of reads, and the run reaches it: with one
less TLC finds it violated.

**What the runs say.**  `WrapperWhole`: no lock protects `mpStream`, yet whenever
main may read through it, or the bus callback may write, the worker is serving the
wrapper.  `QuitHeard`: no `quit()` that main waits for is lost, even if it comes
before `exec()`.  `PlayerFollows`: volume, play state and song are those that
`checkUser` believes it has set, or will be when the queue is served, although
queues and wrappers come and go.  `WorksForUser`: the user moved on by `songOver`
is the one whose song ended.  `OneReportPerSong` is the refinement of
`PlaySession`.  `MainReturns` and `MusicFollows` have two exceptions, `StartLost`
and `Exhausted`, each the subject of a finding.  `TrayAgrees`: the menu stays
right although one click may run several starts and stops.  `OnePollTimer`,
`BadgesRead`, `StreamHasDatabase`: what repeated starts can and cannot do to
timer, receiver and database.  `AdinToolFollows`: for a client left polling, what it
believes of the adintool settles on what the server says.  `ReportersAgree`: rooms
that do not know of each other agree on one reporter per user, once each has
polled.  `SongsPlayOut`: two rooms that both report the end of a song advance the
user once, and never past a song that nobody played out.  `NothingSkipped`:
a room reports positions before it has sought, and a user who moves is picked up by a
room that seeks to what is in the table, yet what has sounded of a song never has a gap;
he may hear a part twice.  `PlaysAsOne` is the refinement of `Listening`: the next song
begins when every position of this one has sounded.  `RowsBounded`: a race
between two SELECTs costs a row, and each client causes one at most, ever.
`OverrideKept`: what a person has set by hand is moved only by a client whose SELECT
came before, and by that once.  `Followed`: whatever was lost or ended, a badge that
stays is seen where it is, unless its rows name two rooms.  `HeartBeats`: a client
that stays up is heard of for ever.  `FlagNeverAhead`, `PlaysWhatWasLoaded`,
`Understood`, `PromptReturns`, `VolumeReadBack`: the player's flag, song, lines,
prompt and volume.  `ReadsStored`: the capture thread decides without the lock, and the
main thread reads without it, and neither leaves the buffer.  `NothingDropped`: the
buffer is emptied at the end of an utterance when all of it was sent.
`HolesWhereStale`: a segment is contiguous but for samples that were in the buffer
when it began.  `SwapFits`: what a silence keeps back stays within `sbsize`, however the
reads cut it.  `SentInOrder`: a sample that is sent is newer than all that were sent before it, but for
the last `Overlap`, which a head margin may repeat; with `Overlap` = 0, that none is sent
twice or late.
`SegmentsClosed`: the server is told the end of what it was sent.

**Fairness** (`FairSpec`).  The event loop of the main thread serves timers, posted
events and GLib sources in turn and starves none, but a handler may be running
whenever one of them is ready: strong fairness for `CtrlPoll`, `StreamPoll`,
`BusCallback`.  Both threads are scheduled and a handler that can go on does: weak
fairness for `Handler`, `Run`, `TimerFires`, `LeaveExec`.  A song that can be
played starts: weak fairness for `PipeSettles`.  No song needs to end, and the
server and the person at the menu owe nothing.  In `ClientCtrl`: the slots of a
click, the poll and the deferred deletions (weak); the query for `server_started`
fails only as often as `MaxToggles` allows, so that the client is told in the end.
In `Badges` the timer of each client goes on (weak fairness for `Step`) and a badge
that is worn goes on sending (`Emit`); nobody need move, edit or restart, and faults
are few (`MaxFaults`).  In `StreamClient` the main thread and a pipeline that can go
on do; nobody has to type.  In `AdinTool` both threads are scheduled (weak fairness
for `Capture` and `Process`); the microphone, the speaker and the server owe
nothing, a resume included (`Wait` is not fair), and adintool may choose to exit.

**Deadlock** is not checked in the runs of `MCStream`, `MCClient`, `MCStreamClient` and
`AdinTool`: a client that spins in a loop, has crashed or has been left stops for
good, as do a player that has exited or waits in `pthread_join` and an adintool
that waits for a command, and these are outcomes of the code, stated where a
property is about them.  The runs of `MCRooms` and `MCBadges` check it.

## 4. What is proved

TLAPS checks these for every value of the constants, from the assumptions
`UserDataAssumption`, `StreamThreadAssumption`, `ClientCtrlAssumption`,
`RoomsAssumption`, `BadgesAssumption`, `StreamClientAssumption` and
`AdinToolAssumption` only.  Two theorems about adintool have one more hypothesis
each, which the run `adin` satisfies as well: `SegmentsHaveNoHoles` (`Room`) and
`SwapBufferHolds`.  A third, `NoneTwice`, has one that the run does not satisfy, nor the
program with short reads.

`StreamThreadProofs`: `TypeCorrect`, `WrapperSafe`, `QuitsAreHeard`,
`StreamWorksForUser`, `PlayerFollowsUser`, `ImplementsSession`.  None of the
properties is inductive.  The invariant is

    IInv == TypeOK /\ Threads /\ QuitHeard /\ Reports /\ Work

`Threads` ties the two program counters together: which states of the worker
`mpStream` and `mbStarted` stand for, that a wrapper is built only while main waits
for a start, and taken down only while main waits for a stop.  The argument is
that each `start()` and each `quit()` is followed by a loop that main does not leave
before the worker has answered.  `Reports` says that an end on the bus is that of
this wrapper's song, and that main waits for the wrapper to go once it is reported
(hence one report per song).  `Work` says for whom the stream works at each point
of the handlers.  For `PlayerFollows`, `Player` adds what is in the queue at each
point; the lemmas `LastOfTail` and `LastOfEmitted` say how the last signal of a kind
changes when the queue loses its head or gains a few.  `ImplementsSession` maps
each step to a step of `PlaySession` or a stutter (`SessionStep`).

`ClientCtrlProofs`: `ClientTypeCorrect`, `MenuAgrees`, `TimersLeakOnRepeatedStart`,
`StreamsHaveDatabase`, `StartedClientsReadBadges`, from `Invariance`.  What the
properties lack is what a click still has to run: a `start()` among that finds no
stream, and, while there is only one connection, no timer and no receiver.

`RoomsProofs`: `RoomsTypeCorrect`, `WritesFindUser`, `RoomsAgree`, for every number of
rooms.  The invariant adds `FreshKnows`: a room that has polled since somebody
moved knows its user, and whether it comes first among the rooms of that user.
`RoomsAgree` then needs that there is a first room (a least index, by the
well-foundedness of < on Nat) and only one (rows of the view are distinct).

Its second part proves `SongsAreNotSkipped`.  `SongInv` says of each user who is not
`confused`: a room that plays a track which the table has left would, if its song ended
now, ask for the very track that the table holds (`OneTrackBehind`), unless a choice
came between; and as long as there is such a room the song of the rooms that are ahead
is at most a tick old, and so is the position in the table (`HardlyBegun`).  Without the
second part the first is not inductive: a room that is ahead could end its song and
leave the other two tracks behind.  Here songs have to be longer than a tick
(`Length` > 1).

Its third part proves `NothingIsSkipped` and `RoomsPlayAsOne`, of `RoomsHeard`.  With
the two invariants above, `HeardInv` is inductive.  It says of each user who is not
confused that what was heard has no gap, and that nobody is beyond it: the position in
the table, and the one that each room of his present track (`OnTrack`) is about to seek
to, was heard or is the beginning (`Known`), and the place where each such room sounds
was heard.  Without `Known` it is not inductive: a room could seek past the end of
what was heard.  Each position that a tick adds is one more than one that was heard
(`OneMore`, the step `HearsOn` of `Listening`); a track that is left was played to its
end by a room, as for `SongsAreNotSkipped`, and the end is heard only when all before it
is (the step `SongOver`).  That `heard` restricts no action (`HistoryOnly`) carries the
invariants of `Spec` over to `HeardSpec`.

`BadgesProofs`: `BadgesTypeCorrect`, `RowsStayFew`, `OverridesKept`, for every number of
clients, badges and faults.  The rows that are there are not enough for an
induction: `Counted` adds to them those that a client is about to insert, and a step
from "about to" to "there" leaves the sum alone; what makes the sum grow is a SELECT
that found no row, of which each client has one, or one that failed.  For overrides,
`FirstRowTells` says that an override shows in the first row, the only one that the
code looks at, and `MayMove` that whoever is about to move a badge has seen none,
unless it raced.

`StreamClientProofs`: `PlayerTypeCorrect`, `FlagIsNeverAhead`, `LoadedSongPlays`,
`RepeatedLineUnderstood`, for all lines and URIs, and `VolumesReadBack`.  `PipeWhole` and `Loaded` say in which
states the pipeline can be found and whose URI it has; `Shrinks` counts the bytes of
older lines against the times that a line was repeated.  `VolumesReadBack` is a fact
of arithmetic: `ScaleOf` and `PowerOf` say which power of two each CHOOSE of `Volume`
finds, and `ShortIsRare` that the remainder lies between half a gap and 50 for three
volumes only.

`AdinToolProofs`: `AdinTypeCorrect`, `BufferHoldsWhatIsRead`, `UtteranceIsSentWhole`, for
all lengths of steps, reads, margins and buffer.  The invariant is

    IInv == TypeOK /\ StepInv /\ StoreInv /\ LengthInv /\ OfflineInv

`StoreInv` keeps the answer of `Check` true until the store, since only the capture
thread makes the buffer longer.  `LengthInv` keeps the two lengths of the main thread
inside the buffer, through the moves of `Rehash`.  `OfflineInv` is the argument for
the end of an utterance: while the main thread is in `adin_thread_process` only the
capture thread takes the transfer offline, and itself with it, so that nothing is
stored after the length that the main thread reads together with the flag.

`AdinOrderProofs`: `OrderWithinOverlap`, for reads of any length, none included.  What is
stored next lies beyond `Reach`; all that is stored or sent is at most `Bound`
(`ReachInv`, `OrderInv`), which is `Reach` while somebody speaks and at most `Overlap`
more outside speech.  `Reach` is the end of the last step while somebody speaks, stays
behind while a silence is kept back, and is a head margin behind the microphone outside
speech, and it has to go back when an utterance ends: by how much is what `KeptInv` is for.
It counts the steps of the silence, none shorter than `MinStep`: `TailSteps` of them have
used up the tail margin, and the others have kept back at least `KeptBack` samples that
nobody stored.  `NoneTwice` is its corollary for a silence that keeps back a head margin,
`(nc_max - TailSteps) * MinStep + 1 >= c_length`: then nothing is sent twice.  In the
program this is so when each step is of at least 990 samples, and not for ALSA or OSS with
their default periods (section 3).

`AdinHolesProofs`: `SwapBufferHolds` and `SegmentsHaveNoHoles`, for reads of any length.

`SwapInv` says what a silence keeps back: the newest samples, none before the tail
margin is used up, and at most the steps of the silence so far.  `SwapBufferHolds` then
needs that the steps of the longest silence fit into both margins.  The client's options
give 20 steps of 1000 samples and a swap buffer of 20 640 (adin-cut.c:176); where they do
not fit the code logs it and copies all the same (:754).

`SegmentsHaveNoHoles` rests on

    IInv /\ SwapInv /\ HInv

where `HInv` is the conjunction of six parts; the property is within the last but one.
`WhereInv` and `WindowInv` place the threads and bound what was read and not yet looked
at. `PendingInv`: while somebody speaks, the fragments that wait to be stored follow one
another, and the sample that is stored next (`next`) is known. `OutInv`: between two
segments the buffer has no hole, and while the transfer is on it ends where `next`
begins (`GoesOn`). `JoinInv`: within a segment it ends there too, unless it holds no
more than what was there when the segment began (`stale`). `FlowInv`: what has been sent
has no hole but there, and what the main thread may send before it looks again has none
either. The last is why an overflow leaves no hole: the samples after the one that did
not fit are stored only once the main thread has ended the segment, and it sends no more
of the old one than it had read the length of.

`Room` is that what one read can make `adin_cut` store fits into an empty buffer: with its
first step the silence kept back or the head margin, and the rest of the read.  It cannot be left out: with steps of one
sample, reads of eight and a buffer of three, TLC finds that a long fragment overflows
between two segments while a shorter one after it fits, and the segment that begins with
the latter has a hole that no one marks.  The program has a buffer of 320 000 samples
(speech.h:65), the longest read is PortAudio's cycle buffer of 8 seconds, 128 000
samples (speech.h:79), and a silence adds 20 000.

Each of these properties is also checked by TLC.
Only checked by TLC: liveness (`MainReturns`, `MusicFollows`, `AdinToolFollows`,
`Followed`, `HeartBeats`, `PromptReturns`, `SegmentsClosed`), which is out of the
prover's reach.

## 5. Findings

Each is a run that TLC ends with a counterexample.

| run | the repository says | the code does |
|---|---|---|
| `stream_lost_start` | music follows users "seemlessly" (README:11) | `run()` clears `mbStarted` before the thread is finished; `checkUser` calls `start()` in between, QThread ignores it, and main spins for ever (tcstreamthread.cpp:103) |
| `client_adintool_lost` | "If it is then start the adintool client" (tcclientctrl.cpp:189) | `stop()` leaves `mpAdinTool` as it was: after a restart no adintool is started |
| `client_icon` | "Set the state of our icon" (tcclientctrl.cpp:125) | `mePlayState` is never assigned: a change to Stop is not shown |
| `rooms_reporter` | "only ... if we are the first room for this user" (ifacedb.cpp:101) | a user whom two rooms serve leaves the one that comes first: until that room polls, both report |

Two more texts are contradicted by behaviours that the models have and that no run of
their own is about:

- stream_client.c:38 says of the flag "non-zero = playing, 0 = paused".  After a pause,
  'n' plays and leaves the flag at 0, so that the next 'p' starts what plays
  (stream_client.c:173).  `FlagNeverAhead` is the other direction, which holds.
- adin-cut.c:1122 says "reset storing buffer --- input while recognition will be ignored".
  The buffer is not emptied when a segment begins, so that what the capture thread
  stored between two segments opens the next one: what `HolesWhereStale` excepts.

Other behaviours that contradict no text precise enough to hold them against:

- *Stream thread.*  The next song is the one that ended (a playlist of one, or the
  server chose it): `checkUser` sees no change and starts nothing (`Exhausted`).  An
  optimised `while(mbStarted);` may never end.  A song that cannot be played hangs the
  worker, and with it the next stop.
- *Client.*  Stop or Restart while music plays aborts the client (`~QThread` of a
  running thread); `adinPrint` may be called when `mpAdinTool` is NULL; `pkill adintool`
  may hit the adintool started next to it; after a restart an exclusively opened port
  stays shut; the branch "Deleting stream" of `tcClientCtrl::poll` is never taken, for
  `getDBUser` answers false only if the database was never opened.
- *Rooms.*  A position in the old song is saved for the new one; the position -1 or 0
  of a stream that has not sought yet overwrites the saved one, so that the room a user
  enters next may send him back (but not ahead: `NothingSkipped`); a track that a person
  chooses is overwritten by a room that has not polled since.  A choice back to the
  song before, made while some rooms play the next one and others have yet to end it,
  makes the rooms go back and forth: each room that ends a song sends the others on.
- *Badges.*  Two clients that insert a badge at a time may leave rows that name two
  rooms for good (`Split`): the first row is the only one that is looked at.
- *Player.*  The end of the input never gets to "basic cleanup" (stream_client.c:181), for nobody ends the GLib loop; 'n' without a blank uses `NULL + 1`; a
  read that fails is a line of length -1 and at last writes the byte before the
  buffer.  Volumes 29, 57 and 58 are read back one lower.
- *adintool.*  A resume that comes before the segment of its pause has ended is taken
  for no command, and adintool then waits for another (adintool.c:793, 1305).  `nc_max`
  counts steps: where the device returns less than a step, as ALSA and OSS do, an
  utterance may end before its tail margin, and the next one may send samples again
  (section 3).  A microphone that fails takes with it what has not been sent.

## 6. What is not modelled

Most of the lines of the repository are a vendored release of Julius, which the client
uses through one of its programs: the microphone side of adintool is modelled, the
recogniser, its sound drivers for some twenty platforms, its language and acoustic
models and its module mode are not.  Of the repository's own C and C++ about half of
the lines, headers and texts included, are the subject of a definition; the rest is
listed here.

- `music_seek`, `music_get_time_len`: move or read what no
  decision depends on.  `tcStreamThread::mnPosition` and the length of a song are
  copied and reported.
- An ERROR message of a pipeline that was playing is printed and the stream stays;
  the pipeline then looks to the client like one that plays for ever.
- The server, the web interface and the database procedures are not in the
  repository: environment actions.
- The julius server at the other end of adintool: its commands are an environment
  action that gives any of them at any time.
- adintool's other inputs (files, network, stdin) and outputs (files, several servers),
  `-rewind`, `-autopause`, `-oneshot`: the client does not ask for them.  A connection
  that breaks.  The level and zero-cross detector and the removal of the DC offset are
  the choice whether a step triggers.
- A pipeline that cannot be made: `music_make_pipeline` returns -1 (gst_stream.cpp:58-63), the
  wrapper's constructor says so and is done (tcstreamwrapper.cpp:14-17), and the stream
  thread goes on with a wrapper that has no song.
- The order of the rows of the view: `ksUsersQuery` has no ORDER BY (ifacedb.cpp:9), and
  `Rooms` takes one order that all clients see.  A server that gave its rows in another
  order to each client could have two of them report for good.  In `Rooms` no query fails
  (ifacedb.cpp:78, 119, 132); in `StreamThread`, `Badges` and `ClientCtrl` queries may.
- Machines that keep the high byte of an `int` first: `getBadgesIds` copies one byte into
  an `int` that is 0 (IRInterface.cpp:56-58), which makes it the number 0..255 of
  `badgeIds`, whether `char` has a sign or not, on those that keep the low byte first
  only.  A receiver that did not open (IRInterface.cpp:47), and a badge that the
  receivers of two rooms hear at once.
- Lines of the player of 256 bytes or more, whose `read` leaves no zero for `strlen`
  (stream_client.c:100-104): `Longest` is at most 255.
- Makefiles, project files and `bin/music_run.sh` have no state.
- Texts of tool tips and balloons, logging, configuration files.

## 7. Plan

Done: streams, client, rooms, badges, volume, player, adintool, and the proofs of their
safety.  Every safety property that a passing run checks is a theorem.  Left:

1. The other end of adinnet: `adin_tcpip_send_resume` and its like in the recogniser, the
   flush of what was under way, a connection that breaks; then `SegmentsClosed` for the
   pair.

## 8. Running it

    tlasany StreamThread.tla
    tlc -workers 2 -config StreamSafety.cfg MCStream
    tlapm StreamThreadProofs.tla

The longest runs (`rooms_safety`, `adin`) take two to three minutes, the proofs a few
minutes each on a first call.
