-------------------------- MODULE ClientCtrlProofs --------------------------
(***************************************************************************)
(* The safety of ClientCtrl, for every number of clicks.  What needs an    *)
(* invariant of its own are the slots that a click has yet to run: a       *)
(* start() among them finds no stream, and while the tray has only one     *)
(* connection per signal it finds no timer either.                         *)
(***************************************************************************)
EXTENDS ClientCtrl, TLAPS

StartIsNext == rounds > 0 /\ slot \in {"start", "restarted"}

StartFindsNoStream == StartIsNext => mpStream = "null"

StartFindsNoTimer == conns = 1 => rounds < 2 /\ (StartIsNext => ~mpPollTimer)

(* The receiver comes and goes with the database, and a start() from the    *)
(* menu waits until the one before is deleted.                              *)
Receiver ==
  /\ mpDB = "null" => mpIR = "null"
  /\ conns = 1 /\ StartIsNext => mpIR # "open"
  /\ lostPort => conns > 2
  /\ slot = "start" => "IR" \notin deferred /\ (mpIR = "shut" => lostPort)

IInv ==
  /\ TypeOK
  /\ TrayAgrees
  /\ StartFindsNoStream
  /\ StartFindsNoTimer
  /\ OnePollTimer
  /\ StreamHasDatabase
  /\ Receiver

-----------------------------------------------------------------------------
LEMMA InitIInv == Init => IInv
<1>1. Init => ClickType
  BY ClientCtrlAssumption DEF Init, ClickType
<1>2. Init => FlagType
  BY DEF Init, FlagType
<1>3. Init => ObjectType
  BY DEF Init, ObjectType, Fates, PlayStates
<1>4. Init => TrayAgrees
  BY DEF Init, TrayAgrees
<1>5. Init => StreamHasDatabase /\ OnePollTimer
  BY DEF Init, StreamHasDatabase, OnePollTimer
<1>6. Init => StartFindsNoStream /\ StartFindsNoTimer
  BY DEF Init, StartFindsNoStream, StartFindsNoTimer, StartIsNext
<1>7. Init => Receiver
  BY DEF Init, Receiver, StartIsNext
<1> QED
  BY <1>1, <1>2, <1>3, <1>4, <1>5, <1>6, <1>7 DEF IInv, TypeOK

(* A click changes nothing that the invariant reads but what is to run.    *)
LEMMA ClickIInv ==
  ASSUME IInv, NEW chosen \in {"start", "stop", "restart"},
         Click(chosen), chosen = "start" => startOn
  PROVE  IInv'
<1>1. ClickType'
  BY ClientCtrlAssumption
  DEF Click, IInv, TypeOK, ClickType, objectVars, worldVars
<1>2. FlagType' /\ TrayAgrees'
  BY DEF Click, IInv, TypeOK, FlagType, TrayAgrees, objectVars, worldVars
<1>3. ObjectType' /\ StreamHasDatabase' /\ OnePollTimer'
  BY DEF Click, IInv, TypeOK, ObjectType, StreamHasDatabase, OnePollTimer,
         objectVars, pollVars
<1>4. chosen = "start" => ~mpPollTimer /\ mpStream = "null"
  <2>1. chosen = "start" => ~stopOn /\ ~mpPollTimer
    BY DEF IInv, TypeOK, FlagType, TrayAgrees
  <2>2. ~stopOn => mpDB = "null"
    BY DEF IInv, TrayAgrees
  <2> QED
    BY <2>1, <2>2 DEF IInv, StreamHasDatabase
<1>5. StartFindsNoStream' /\ StartFindsNoTimer'
  BY <1>4 DEF Click, IInv, TypeOK, ClickType, StartFindsNoStream,
              StartFindsNoTimer, StartIsNext, objectVars, pollVars
<1>6. chosen = "start" => mpIR = "null"
  <2>1. chosen = "start" => ~stopOn
    BY DEF IInv, TypeOK, FlagType, TrayAgrees
  <2> QED
    BY <2>1 DEF IInv, TrayAgrees, Receiver
<1>7. Receiver'
  BY <1>6 DEF Click, IInv, Receiver, StartIsNext, objectVars
<1> QED
  BY <1>1, <1>2, <1>3, <1>5, <1>7 DEF IInv, TypeOK

(* A start() that is served, as the next of a click. *)
LEMMA StartIInv ==
  ASSUME IInv, start, fate = "up", StartIsNext, rounds' = rounds - 1,
         slot' = IF slot = "start" THEN "start" ELSE "restart"
  PROVE  IInv'
<1>1. ClickType'
  BY DEF IInv, TypeOK, ClickType, start, newPollTimer, worldVars, StartIsNext
<1>2. FlagType'
  BY DEF IInv, TypeOK, FlagType, start, newPollTimer, onStarted, worldVars
<1>3. ObjectType'
  BY DEF IInv, TypeOK, ObjectType, start, initializeIR, pollVars
<1>4. TrayAgrees'
  BY DEF TrayAgrees, start, newPollTimer, onStarted
<1>5. StreamHasDatabase'
  BY DEF IInv, StreamHasDatabase, StartFindsNoStream, start, pollVars
<1>6. StartFindsNoStream' /\ StartFindsNoTimer'
  BY DEF IInv, TypeOK, ClickType, StartFindsNoStream, StartFindsNoTimer,
         StartIsNext, start, pollVars
<1>7. OnePollTimer'
  BY DEF IInv, TypeOK, ClickType, OnePollTimer, StartFindsNoTimer, start,
         newPollTimer
<1>8. Receiver'
  BY DEF IInv, TypeOK, ClickType, FlagType, Receiver, StartIsNext, start,
         initializeIR
<1> QED
  BY <1>1, <1>2, <1>3, <1>4, <1>5, <1>6, <1>7, <1>8 DEF IInv, TypeOK

(* A stop() that is served, with or without a start() to follow. *)
LEMMA StopIInv ==
  ASSUME IInv, stop, fate = "up", rounds > 0,
         \/ slot' = "stop" /\ rounds' = rounds - 1
         \/ slot' = "restarted" /\ rounds' = rounds
  PROVE  IInv'
<1>1. ClickType'
  BY DEF IInv, TypeOK, ClickType, stop, stopPollTimer, worldVars
<1>2. FlagType' /\ TrayAgrees'
  BY DEF IInv, TypeOK, FlagType, TrayAgrees, stop, stopPollTimer, onStopped,
         dropReceiver, worldVars
<1>3. ObjectType' /\ StreamHasDatabase'
  BY DEF IInv, TypeOK, ObjectType, StreamHasDatabase, stop, dropStream,
         dropReceiver, Later, Deferrable, Fates
<1>4. StartFindsNoStream' /\ StartFindsNoTimer'
  BY DEF IInv, TypeOK, ClickType, StartFindsNoStream, StartFindsNoTimer,
         StartIsNext, stop, stopPollTimer, dropStream
<1>5. OnePollTimer'
  BY DEF IInv, OnePollTimer, stop, stopPollTimer
<1>6. Receiver'
  BY DEF IInv, Receiver, StartIsNext, stop, dropReceiver
<1> QED
  BY <1>1, <1>2, <1>3, <1>4, <1>5, <1>6 DEF IInv, TypeOK

(* The other events run between clicks, when no start() is to come, and     *)
(* leave the menu, the database and the timers alone.                       *)
LEMMA EventIInv ==
  ASSUME IInv, ObjectType', fate = "up", fate' = "nullDB" => leaked > 0,
         rounds' = 0 \/ UNCHANGED mpStream,
         mpStream' # "null" => mpDB = "open",
         "IR" \in deferred' => "IR" \in deferred,
         UNCHANGED <<slot, rounds, menuVars, objectVars>>,
         toggles' \in 0..MaxToggles, server' \in BOOLEAN
  PROVE  IInv'
<1>1. ClickType'
  BY DEF IInv, TypeOK, ClickType, menuVars, objectVars
<1>2. FlagType' /\ TrayAgrees'
  BY DEF IInv, TypeOK, FlagType, TrayAgrees, menuVars, objectVars
<1>3. StreamHasDatabase' /\ OnePollTimer'
  BY DEF IInv, StreamHasDatabase, OnePollTimer, menuVars, objectVars
<1>4. StartFindsNoStream' /\ StartFindsNoTimer'
  BY DEF IInv, StartFindsNoStream, StartFindsNoTimer, StartIsNext, menuVars,
         objectVars
<1>5. Receiver'
  BY DEF IInv, Receiver, StartIsNext, menuVars, objectVars
<1> QED
  BY <1>1, <1>2, <1>3, <1>4, <1>5 DEF IInv, TypeOK

(* A poll changes the stream, the adintool and the icon. *)
LEMMA PollIInv == IInv /\ Poll => IInv'
<1> SUFFICES ASSUME IInv, Poll PROVE IInv'
  OBVIOUS
<1>1. PICK started \in BOOLEAN :
        isServerStarted(started) /\ handleAdinTool(started)
  BY DEF Poll
<1>2. fate' \in {"up", "freedAdinTool"}
      /\ mpAdinTool' \in {"null", "live", "dead", "freed"}
  BY <1>1 DEF Poll, Idle, IInv, TypeOK, ObjectType, handleAdinTool,
              startAdinTool, stopAdinTool
<1>3. deferred' \subseteq Deferrable
  BY DEF Poll, IInv, TypeOK, ObjectType, Later, Deferrable
<1>4. /\ mpStream' \in {"null", "idle", "running"}
      /\ mpStream' # "null" => mpDB = "open"
      /\ msUser' \in PlayStates /\ icon' \in PlayStates
  BY DEF Poll, IInv, TypeOK, ObjectType, pollStream, getDBUser, setState,
         PlayStates
<1>5. ObjectType'
  BY <1>2, <1>3, <1>4 DEF Poll, IInv, TypeOK, ObjectType, Fates, objectVars
<1>6. toggles' \in 0..MaxToggles
  BY <1>1, ClientCtrlAssumption
  DEF isServerStarted, IInv, TypeOK, ClickType, worldVars
<1>7. server' \in BOOLEAN
  BY <1>1 DEF isServerStarted, IInv, TypeOK, FlagType, worldVars
<1>8. "IR" \in deferred' => "IR" \in deferred
  BY DEF Poll, Later
<1> QED
  BY <1>2, <1>4, <1>5, <1>6, <1>7, <1>8, EventIInv DEF Poll, Idle

-----------------------------------------------------------------------------
LEMMA NextIInv == IInv /\ [Next]_vars => IInv'
<1> SUFFICES ASSUME IInv, [Next]_vars PROVE IInv'
  OBVIOUS
<1>0. /\ toggles \in 0..MaxToggles /\ server \in BOOLEAN
      /\ mpStream # "null" => mpDB = "open"
  BY DEF IInv, TypeOK, ClickType, FlagType, StreamHasDatabase
<1>1. CASE ClickStart
  BY <1>1, ClickIInv DEF ClickStart
<1>2. CASE ClickStop
  BY <1>2, ClickIInv DEF ClickStop
<1>3. CASE ClickRestart
  BY <1>3, ClickIInv DEF ClickRestart
<1>4. CASE ClickExit
  <2>1. ObjectType'
    BY <1>4 DEF ClickExit, IInv, TypeOK, ObjectType, Fates, objectVars, pollVars
  <2> QED
    BY <1>0, <1>4, <2>1, EventIInv DEF ClickExit, Idle, pollVars, worldVars
<1>5. CASE CallStart
  BY <1>5, StartIInv DEF CallStart, Slot, StartIsNext
<1>6. CASE CallStop
  BY <1>6, StopIInv DEF CallStop, Slot
<1>7. CASE CallRestart
  BY <1>7, StartIInv, StopIInv DEF CallRestart, Slot, StartIsNext
<1>8. CASE Poll
  BY <1>8, PollIInv
<1>9. CASE PollStopped
  <2>1. ObjectType'
    BY <1>9
    DEF PollStopped, IInv, TypeOK, ObjectType, Fates, objectVars, pollVars
  <2>2. leaked > 0
    BY <1>9 DEF PollStopped, IInv, TrayAgrees
  <2> QED
    BY <1>0, <1>9, <2>1, <2>2, EventIInv
    DEF PollStopped, Idle, pollVars, worldVars
<1>10. CASE StreamReports
  <2>1. ObjectType'
    BY <1>10
    DEF StreamReports, IInv, TypeOK, ObjectType, Fates, Deferrable, objectVars
  <2> QED
    BY <1>0, <1>10, <2>1, EventIInv DEF StreamReports, Idle, worldVars
<1>11. CASE Delete
  <2>1. ObjectType'
    BY <1>11
    DEF Delete, Idle, IInv, TypeOK, ObjectType, Fates, Deferrable, objectVars
  <2> QED
    BY <1>0, <1>11, <2>1, EventIInv DEF Delete, Idle, worldVars
<1>12. CASE AdinDies
  <2>1. ObjectType'
    BY <1>12 DEF AdinDies, IInv, TypeOK, ObjectType, objectVars
  <2>2. toggles' \in 0..MaxToggles
    BY <1>0, <1>12, ClientCtrlAssumption DEF AdinDies
  <2> QED
    BY <1>0, <1>12, <2>1, <2>2, EventIInv DEF AdinDies, Idle
<1>13. CASE ServerToggles
  <2>1. ObjectType'
    BY <1>13 DEF ServerToggles, IInv, TypeOK, ObjectType, objectVars, pollVars
  <2>2. toggles' \in 0..MaxToggles
    BY <1>0, <1>13, ClientCtrlAssumption DEF ServerToggles
  <2>3. server' \in BOOLEAN
    BY <1>0, <1>13 DEF ServerToggles
  <2> QED
    BY <1>0, <1>13, <2>1, <2>2, <2>3, EventIInv DEF ServerToggles, pollVars
<1>14. CASE UNCHANGED vars
  BY <1>14
  DEF vars, menuVars, objectVars, pollVars, worldVars, IInv, TypeOK, ClickType,
      FlagType, ObjectType, TrayAgrees, StartFindsNoStream, StartFindsNoTimer,
      StartIsNext, OnePollTimer, StreamHasDatabase, Receiver
<1> QED
  BY <1>1, <1>2, <1>3, <1>4, <1>5, <1>6, <1>7, <1>8, <1>9, <1>10, <1>11,
     <1>12, <1>13, <1>14 DEF Next

(* The invariant on which the theorems below rest. *)
THEOREM Invariance == Spec => []IInv
BY InitIInv, NextIInv, PTL DEF Spec

(* Every variable of the client keeps its type. *)
THEOREM ClientTypeCorrect == Spec => []TypeOK
<1>1. IInv => TypeOK
  BY DEF IInv
<1> QED
  BY <1>1, Invariance, PTL

(* tcSystemTray::onStarted and onStopped keep the menu in agreement with    *)
(* the database and the timer of the client, whatever is clicked.           *)
THEOREM MenuAgrees == Spec => []TrayAgrees
<1>1. IInv => TrayAgrees
  BY DEF IInv
<1> QED
  BY <1>1, Invariance, PTL

(* A timer leaks only where start() runs twice in a click, and only a timer *)
(* that leaked polls for a client that is stopped.                          *)
THEOREM TimersLeakOnRepeatedStart == Spec => []OnePollTimer
<1>1. IInv => OnePollTimer
  BY DEF IInv
<1> QED
  BY <1>1, Invariance, PTL

(* The slots onSongInfo and onSongOver find the database of the stream that *)
(* calls them; the branch of poll() that deletes a stream is never taken.   *)
THEOREM StreamsHaveDatabase == Spec => []StreamHasDatabase
<1>1. IInv => StreamHasDatabase
  BY DEF IInv
<1> QED
  BY <1>1, Invariance, PTL

(* Once the event loop has deleted the receiver of the client before, a     *)
(* client started from the menu holds the serial port, unless start() ran   *)
(* twice in a click.                                                        *)
THEOREM StartedClientsReadBadges == Spec => []BadgesRead
<1>1. IInv => BadgesRead
  BY DEF IInv, Receiver, BadgesRead
<1> QED
  BY <1>1, Invariance, PTL

=============================================================================
