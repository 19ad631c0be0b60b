----------------------------- MODULE ClientCtrl -----------------------------
(***************************************************************************)
(* The life of a client: tcClientCtrl, the tray menu that starts, stops    *)
(* and restarts it, the poll timer, the IR receiver and the adintool that  *)
(* it runs for the voice server.  All of it is the main thread, one event  *)
(* at a time; what makes it hard is the order of the events, the objects   *)
(* that deleteLater() leaves to a later event, and start(), which connects *)
(* the signals of the tray once more each time it runs.                    *)
(*                                                                         *)
(* StreamThread looks into the stream; here it is only there or not, its   *)
(* thread running or not.  A use of a null or freed object, or of a freed  *)
(* thread, is undefined behaviour: fate records it and nothing follows.    *)
(***************************************************************************)
EXTENDS Integers

CONSTANTS
  ExclusivePort,  \* the serial port can be opened by one object at a time
  MaxClicks,      \* bound: choices made from the menu of the tray
  MaxToggles      \* bound: times server_started changes, the query for it
                  \* fails, or an adintool dies

ASSUME ClientCtrlAssumption ==
  /\ ExclusivePort \in BOOLEAN
  /\ MaxClicks \in Nat
  /\ MaxToggles \in Nat

VARIABLES
  fate,      \* "up", "exited", or what the client crashed on
  clicks,    \* choices made (counts to MaxClicks)
  toggles,   \* changes of the world outside (counts to MaxToggles)
  slot,      \* the slot that a click runs
  rounds,    \* how often it is yet to run before the click is served
  conns,     \* connections of each signal of the tray to its slot
  startOn,   \* "Start Client" is enabled
  stopOn,    \* "Stop Client" is enabled
  icon,      \* the play state that the icon of the tray shows
  mpDB,      \* tcClientCtrl::mpDB: "null", "open", or "shut" if open() failed
  mpIR,      \* tcClientCtrl::mpIR: "null", "open", or "shut"
  mpPollTimer, \* tcClientCtrl::mpPollTimer is not NULL (and runs)
  leaked,    \* timers that run although no pointer leads to them
  lostPort,  \* an IR receiver that no pointer leads to holds the port
  mpStream,  \* tcClientCtrl::mpStream: "null", "idle", or "running"
  msUser,    \* the play state in tcClientCtrl::msUser
  mpAdinTool,\* "null", "live", "dead" (its process is gone), or "freed"
  deferred,  \* objects left to deleteLater()
  server     \* server_started in the row of clients of the room

menuVars   == <<clicks, conns, startOn, stopOn>>
objectVars == <<mpDB, mpIR, mpPollTimer, leaked, lostPort>>
pollVars   == <<mpStream, msUser, mpAdinTool, icon>>
worldVars  == <<toggles, server>>
vars == <<fate, slot, rounds, menuVars, objectVars, pollVars, deferred,
          worldVars>>

PlayStates == {"Play", "Stop", "Pause"}

(* What deleteLater() was called on: "oldAdinTool" is one that stopAdinTool *)
(* let go of, "adinTool" one that mpAdinTool still points to.  Nothing      *)
(* depends on when the others (database, timer, idle stream) are deleted.   *)
Deferrable == {"IR", "runningStream", "adinTool", "oldAdinTool"}

Later(object, condition) == IF condition THEN {object} ELSE {}

-----------------------------------------------------------------------------
(* The slots. *)

(* IRInterface::initialize, where there is a port: open() fails while       *)
(* another object has it.                                                   *)
initializeIR(held) == mpIR' = IF ExclusivePort /\ held THEN "shut" ELSE "open"

(* mpPollTimer = new QTimer(this): the one before, if any, runs on. *)
newPollTimer ==
  /\ mpPollTimer' = TRUE
  /\ leaked' = IF mpPollTimer THEN leaked + 1 ELSE leaked

(* Mutants: the timer is not stopped; its pointer is not reset. *)
abandonPollTimer ==
  /\ mpPollTimer' = FALSE
  /\ leaked' = IF mpPollTimer THEN leaked + 1 ELSE leaked

keepPollTimer == UNCHANGED <<mpPollTimer, leaked>>

stopPollTimer == mpPollTimer' = FALSE /\ leaked' = leaked

onStarted == startOn' = FALSE /\ stopOn' = TRUE

(* Mutant: only one of the two entries is switched. *)
onStoppedStart == startOn' = TRUE /\ UNCHANGED stopOn

onStopped == startOn' = TRUE /\ stopOn' = FALSE

(* tcClientCtrl::start connects the tray (again) and overwrites pointers    *)
(* without a look at what they point to.                                    *)
start ==
  /\ conns' = conns + 1
  /\ mpDB' \in {"open", "shut"}
  /\ lostPort' = (lostPort \/ mpIR = "open")
  /\ initializeIR(lostPort' \/ "IR" \in deferred)
  /\ newPollTimer
  /\ onStarted
  /\ UNCHANGED <<fate, clicks, pollVars, deferred, worldVars>>

(* Mutant: the stream outlives the stop. *)
keepStream == UNCHANGED mpStream

dropStream == mpStream' = "null"

(* Mutant: the receiver is not deleted. *)
leakReceiver ==
  /\ mpIR' = "null"
  /\ lostPort' = (lostPort \/ mpIR = "open")

dropReceiver == mpIR' = "null" /\ UNCHANGED lostPort

(* tcClientCtrl::stop resets every pointer but mpAdinTool, and deletes the  *)
(* stream without a quit() of its thread.                                   *)
stop ==
  /\ mpDB' = "null"
  /\ dropReceiver
  /\ stopPollTimer
  /\ dropStream
  /\ mpAdinTool' = IF mpAdinTool = "live" THEN "dead" ELSE mpAdinTool
  /\ fate' = IF mpAdinTool = "freed" THEN "freedAdinTool" ELSE fate
  /\ deferred' = deferred \cup Later("IR", mpIR = "open")
                          \cup Later("runningStream", mpStream = "running")
                          \cup Later("adinTool", mpAdinTool # "null")
  /\ onStopped
  /\ UNCHANGED <<clicks, conns, msUser, icon, worldVars>>

-----------------------------------------------------------------------------
(* Events. *)

Idle == fate = "up" /\ rounds = 0

(* A choice from the menu, made by somebody slower than the event loop.     *)
(* Each connection runs the slot; those made meanwhile do not count.        *)
Click(chosen) ==
  /\ Idle
  /\ deferred = {}
  /\ clicks < MaxClicks
  /\ clicks' = clicks + 1
  /\ slot' = chosen
  /\ rounds' = conns
  /\ UNCHANGED <<fate, conns, startOn, stopOn, objectVars, pollVars, deferred,
                 worldVars>>

ClickStart   == startOn /\ Click("start")
ClickStop    == stopOn /\ Click("stop")
ClickRestart == Click("restart")

Slot(current, next) ==
  /\ fate = "up"
  /\ rounds > 0
  /\ slot = current
  /\ slot' = next

CallStart == Slot("start", "start") /\ start /\ rounds' = rounds - 1

CallStop == Slot("stop", "stop") /\ stop /\ rounds' = rounds - 1

(* tcClientCtrl::restart is a stop and a start. *)
CallRestart ==
  \/ Slot("restart", "restarted") /\ stop /\ UNCHANGED rounds
  \/ Slot("restarted", "restart") /\ start /\ rounds' = rounds - 1

(* "Exit": the event loop ends and ~tcClientCtrl deletes what it knows of.  *)
ClickExit ==
  /\ Idle
  /\ deferred = {}
  /\ fate' = IF mpStream = "running" THEN "runningThread"
             ELSE IF mpAdinTool = "freed" THEN "freedAdinTool"
             ELSE "exited"
  /\ UNCHANGED <<slot, rounds, menuVars, objectVars, pollVars, deferred,
                 worldVars>>

(* What deleteLater() left.  A thread that is deleted while it runs aborts. *)
(* The destructor of a process that has yet to end waits for it, and what   *)
(* it prints meanwhile calls adinPrint, which reads from mpAdinTool.        *)
Delete ==
  /\ Idle
  /\ \E object \in deferred :
       /\ deferred' = deferred \ {object}
       /\ \/ /\ object = "runningStream"
             /\ fate' = "runningThread"
          \/ /\ object = "oldAdinTool"
             /\ mpAdinTool = "null"
             /\ fate' = "nullAdinTool"
          \/ /\ object # "runningStream"
             /\ fate' = fate
       /\ mpAdinTool' = IF object = "adinTool" THEN "freed" ELSE mpAdinTool
  /\ UNCHANGED <<slot, rounds, menuVars, objectVars, mpStream, msUser, icon,
                 worldVars>>

(* adinPrint, for output of the process that mpAdinTool points to, changes  *)
(* nothing, and no slot is told that the process has died.                  *)
AdinDies ==
  /\ Idle
  /\ toggles < MaxToggles
  /\ toggles' = toggles + 1
  /\ mpAdinTool = "live"
  /\ mpAdinTool' = "dead"
  /\ UNCHANGED <<fate, slot, rounds, menuVars, objectVars, mpStream, msUser,
                 icon, deferred, server>>

(* The server sets server_started of the room. *)
ServerToggles ==
  /\ fate = "up"
  /\ toggles < MaxToggles
  /\ toggles' = toggles + 1
  /\ server' = ~server
  /\ UNCHANGED <<fate, slot, rounds, menuVars, objectVars, pollVars, deferred>>

(* A running stream, also one that waits for its deletion, reports its      *)
(* position (onSongInfo) and perhaps the end of its song (onSongOver).      *)
StreamReports ==
  /\ Idle
  /\ mpStream = "running" \/ "runningStream" \in deferred
  /\ IF mpDB = "null"
     THEN fate' = "songNullDB" /\ UNCHANGED <<mpStream, deferred>>
     ELSE /\ fate' = fate
          /\ \/ mpStream = "running" /\ mpStream' = "idle" /\ UNCHANGED deferred
             \/ /\ "runningStream" \in deferred
                /\ deferred' = deferred \ {"runningStream"}
                /\ UNCHANGED mpStream
  /\ UNCHANGED <<slot, rounds, menuVars, objectVars, msUser, mpAdinTool, icon,
                 worldVars>>

-----------------------------------------------------------------------------
(* tcClientCtrl::poll, by mpPollTimer or a timer that leaked. *)

(* getDBUser fails only if the database was never opened. *)
getDBUser == mpDB = "open"

(* The stream: StreamThread has the details of the first branch. *)
pollStream ==
  IF getDBUser
  THEN mpStream' \in {"idle", "running"} /\ msUser' \in PlayStates
  ELSE mpStream' = "null" /\ msUser' = "Stop"

(* tcSystemTray::mePlayState is Stop, and stays so. *)
setState == icon' = IF msUser' # "Stop" THEN msUser' ELSE icon

(* A query that fails reads as FALSE, as does a database that is not open. *)
isServerStarted(started) ==
  \/ started = (getDBUser /\ server) /\ UNCHANGED worldVars
  \/ /\ toggles < MaxToggles
     /\ toggles' = toggles + 1
     /\ started = FALSE
     /\ UNCHANGED server

(* pkill adintool, which is not waited for, may hit the new one too. *)
startAdinTool == mpAdinTool' \in {"live", "dead"} /\ fate' = fate

stopAdinTool ==
  IF mpAdinTool = "freed"
  THEN mpAdinTool' = mpAdinTool /\ fate' = "freedAdinTool"
  ELSE mpAdinTool' = "null" /\ fate' = fate

(* Mutant: a started server only ever starts it. *)
handleStarted(started) ==
  IF started /\ mpAdinTool = "null" THEN startAdinTool
  ELSE UNCHANGED <<mpAdinTool, fate>>

handleAdinTool(started) ==
  IF started /\ mpAdinTool = "null" THEN startAdinTool
  ELSE IF ~started /\ mpAdinTool # "null" THEN stopAdinTool
  ELSE UNCHANGED <<mpAdinTool, fate>>

Poll ==
  /\ Idle
  /\ mpPollTimer \/ leaked > 0
  /\ mpDB # "null"
  /\ pollStream
  /\ setState
  /\ \E started \in BOOLEAN :
       /\ isServerStarted(started)
       /\ handleAdinTool(started)
       /\ deferred' =
            (deferred \ Later("adinTool", mpAdinTool' = "null"))
              \cup Later("runningStream", ~getDBUser /\ mpStream = "running")
              \cup Later("oldAdinTool",
                         mpAdinTool # "null" /\ mpAdinTool' = "null")
  /\ UNCHANGED <<slot, rounds, menuVars, objectVars>>

(* A timer that leaked polls for a client that is stopped. *)
PollStopped ==
  /\ Idle
  /\ mpPollTimer \/ leaked > 0
  /\ mpDB = "null"
  /\ fate' = "nullDB"
  /\ UNCHANGED <<slot, rounds, menuVars, objectVars, pollVars, deferred,
                 worldVars>>

-----------------------------------------------------------------------------
(* initialize() has called start(). *)
Init ==
  /\ fate = "up" /\ clicks = 0 /\ toggles = 0
  /\ slot = "start" /\ rounds = 0 /\ conns = 1
  /\ startOn = FALSE /\ stopOn = TRUE
  /\ icon = "Stop" /\ msUser = "Stop"
  /\ mpDB \in {"open", "shut"} /\ mpIR = "open"
  /\ mpPollTimer = TRUE /\ leaked = 0 /\ lostPort = FALSE
  /\ mpStream = "null" /\ mpAdinTool = "null"
  /\ deferred = {}
  /\ server \in BOOLEAN

Next ==
  \/ ClickStart \/ ClickStop \/ ClickRestart \/ ClickExit
  \/ CallStart \/ CallStop \/ CallRestart
  \/ Poll \/ PollStopped \/ StreamReports \/ Delete
  \/ AdinDies \/ ServerToggles

Spec == Init /\ [][Next]_vars

(* The event loop returns to what is posted and to the timers; whether      *)
(* anybody clicks is up to them.                                            *)
Fairness ==
  /\ WF_vars(CallStart \/ CallStop \/ CallRestart)
  /\ WF_vars(Poll)
  /\ WF_vars(Delete)

FairSpec == Spec /\ Fairness

-----------------------------------------------------------------------------
Fates == {"up", "exited", "nullDB", "songNullDB", "freedAdinTool",
          "nullAdinTool", "runningThread"}

ClickType ==
  /\ clicks \in 0..MaxClicks /\ toggles \in 0..MaxToggles
  /\ slot \in {"start", "stop", "restart", "restarted"}
  /\ rounds \in Nat /\ conns \in Nat \ {0} /\ leaked \in 0..(conns - 1)

FlagType ==
  /\ startOn \in BOOLEAN /\ stopOn \in BOOLEAN
  /\ mpPollTimer \in BOOLEAN /\ lostPort \in BOOLEAN /\ server \in BOOLEAN

ObjectType ==
  /\ fate \in Fates
  /\ icon \in PlayStates /\ msUser \in PlayStates
  /\ mpDB \in {"null", "open", "shut"} /\ mpIR \in {"null", "open", "shut"}
  /\ mpStream \in {"null", "idle", "running"}
  /\ mpAdinTool \in {"null", "live", "dead", "freed"}
  /\ deferred \subseteq Deferrable

(* Every variable keeps its type; timers leak only where start() runs, so   *)
(* there are fewer of them than runs of it.                                 *)
TypeOK == ClickType /\ FlagType /\ ObjectType

(* However often a click runs its slots, the menu offers to stop a client   *)
(* that has its database and its timer, and to start one that has neither.  *)
TrayAgrees ==
  /\ stopOn = (mpDB # "null")
  /\ startOn = ~stopOn
  /\ mpPollTimer = stopOn

(* There is one poll timer until the client has been started and stopped    *)
(* (or restarted) and is then started again: only then has the tray two     *)
(* connections to start(), the second of which overwrites the timer of the  *)
(* first.  A client with one connection polls only while it is started.     *)
OnePollTimer == (leaked > 0 => conns > 2) /\ (fate = "nullDB" => leaked > 0)

(* A client with a stream has an open database: the slots onSongInfo and    *)
(* onSongOver, called by the stream, use mpDB without a look; and the       *)
(* branch of poll() for a user who has left ("Deleting stream") never runs. *)
StreamHasDatabase == mpStream # "null" => mpDB = "open"

(* A client started from the menu reads badges, for the receiver of the     *)
(* client before has let go of the port, until the tray has two connections *)
(* to start(): the second overwrites the receiver of the first, which then  *)
(* holds the port for good.  Nothing of the kind holds after a restart,     *)
(* which opens the port before deleteLater() has closed it.                 *)
BadgesRead ==
  slot = "start" /\ mpIR = "shut" => lostPort /\ conns > 2

Polling == fate = "up" /\ mpPollTimer /\ mpDB = "open"

(* A client that goes on polling has an adintool (as far as it knows) while *)
(* the julius server is started for its room, and none while it is not.     *)
AdinToolFollows ==
  <>[]Polling => <>[](server = (mpAdinTool # "null"))

(* handleAdinTool's comment: if the server is started "then start the       *)
(* adintool client".  There is an adintool, whether or not it has died.     *)
AdinToolStarts ==
  <>[](Polling /\ server) => <>[](mpAdinTool \in {"live", "dead"})

(* poll's comment: "Set the state of our icon". *)
IconShowsState == Polling => icon = msUser

=============================================================================
