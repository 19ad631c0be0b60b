------------------------------- MODULE Badges -------------------------------
(***************************************************************************)
(* The clients of a house and the badges that people wear.  A poll of a    *)
(* client ends with its heart beat (tcIfaceDB::sendHB) and, if its infrared *)
(* receiver has heard a badge, with badgesFound(): a SELECT, then an UPDATE *)
(* or an INSERT for each badge, then CALL IR_PRIORITY().  No transaction    *)
(* holds these queries together: another client, a person at the web        *)
(* interface, a lost query or the end of the client may come between two.   *)
(***************************************************************************)
EXTENDS Naturals, Sequences, FiniteSets

CONSTANTS
  Clients,     \* the clients
  RoomNames,   \* values of client/name
  Configurations, \* which client has which of them in its file
  Bytes,       \* what the receivers hear
  NoBadge,     \* no badge at hand
  min, max,    \* ir/min_badge_id, ir/max_badge_id: the bytes that are badges
  MaxMoves,    \* bound: times the wearer of a badge goes elsewhere
  MaxEdits,    \* bound: manual overrides set or lifted
  MaxFaults    \* bound: queries that fail, and clients that end in a poll

ASSUME BadgesAssumption ==
  /\ IsFiniteSet(Clients)
  /\ Configurations \subseteq [Clients -> RoomNames]
  /\ Bytes \subseteq 0..255 /\ NoBadge \notin Bytes
  /\ min \in Nat /\ max \in Nat
  /\ MaxMoves \in Nat /\ MaxEdits \in Nat /\ MaxFaults \in Nat

Ids == {b \in Bytes : min <= b /\ b <= max}

VARIABLES
  msRoomId,   \* of each client: the name in its configuration file
  prog,       \* of each client: its next query, the badges it has still to
              \* do, and the badge at hand
  serial,     \* of each client: the bytes that wait at its serial port
  ir_badges,  \* of each id: its rows, (client_name, manual_override)
  clients,    \* of each name: how many rows it has in the table clients
  priority,   \* of each id: the rooms in which IR_PRIORITY() last saw it
  where,      \* of each byte: the clients that can hear it, one at most
  moves, edits, fails, crashes, \* counters
  raced       \* history: clients that have read the row of a badge before an
              \* override was set on it, and go on to move it

tables == <<ir_badges, clients, priority>>
world == <<where, moves, edits, crashes>>
vars == <<msRoomId, prog, serial, tables, world, fails, raced>>

-----------------------------------------------------------------------------
(* The steps of a client: each is one query, or the read of the port. *)

Off  == [pc |-> "off", found |-> {}, badge |-> NoBadge]
Idle == [pc |-> "idle", found |-> {}, badge |-> NoBadge]

Goto(c, next) == prog' = [prog EXCEPT ![c] = next]

At(c, pc) == prog[c].pc = pc

(* A query is answered, or fails, and nobody asks which.  A SELECT that     *)
(* fails looks like one that found no row: query.isValid() is false.        *)
Query(ok) ==
  \/ ok /\ UNCHANGED fails
  \/ ~ok /\ fails + crashes < MaxFaults /\ fails' = fails + 1

Registered(c) == clients[msRoomId[c]] > 0

(* Mutant: a client that is in the table is left alone. *)
onlyInsert(c) == IF Registered(c) THEN "receive" ELSE "insertClient"

heartBeat(c) == IF Registered(c) THEN "updateClient" ELSE "insertClient"

(* sendHB: "Make sure [we] are added to the client table and update our     *)
(* last heard from".                                                        *)
SelectClient(c, ok) ==
  /\ At(c, "idle")
  /\ Query(ok)
  /\ Goto(c, [Idle EXCEPT !.pc =
       IF ok THEN heartBeat(c) ELSE "insertClient"])
  /\ UNCHANGED <<msRoomId, serial, tables, world, raced>>

UpdateClient(c, ok) ==
  /\ At(c, "updateClient")
  /\ Query(ok)
  /\ Goto(c, [Idle EXCEPT !.pc = "receive"])
  /\ UNCHANGED <<msRoomId, serial, tables, world, raced>>

InsertClient(c, ok) ==
  /\ At(c, "insertClient")
  /\ Query(ok)
  /\ clients' = IF ok
       THEN [clients EXCEPT ![msRoomId[c]] = @ + 1] ELSE clients
  /\ Goto(c, [Idle EXCEPT !.pc = "receive"])
  /\ UNCHANGED <<msRoomId, serial, ir_badges, priority, world, raced>>

(* Mutant: no range of ids. *)
allBytes(c) == serial[c]

badgeIds(c) == {b \in serial[c] : min <= b /\ b <= max}

(* getBadgesIds: the badges among the bytes that have arrived;              *)
(* handleBadges ends the poll if there are none.                            *)
getBadgesIds(c) ==
  /\ At(c, "receive")
  /\ LET ids == badgeIds(c)
     IN Goto(c, IF ids = {} THEN Idle
                ELSE [Idle EXCEPT !.pc = "select", !.found = ids])
  /\ serial' = [serial EXCEPT ![c] = {}]
  /\ UNCHANGED <<msRoomId, tables, world, fails, raced>>

(* badgesFound: a loop over the badges in the order of a hash, and the CALL *)
(* after it, which is made whatever the loop has changed.                   *)
NextBadge(rest) ==
  [pc |-> IF rest = {} THEN "priority" ELSE "select",
   found |-> rest, badge |-> NoBadge]

(* Mutant: if(changed), which the source has commented out, before the CALL *)
(* (of a loop over one badge).                                              *)
NoChange(rest) == IF rest = {} THEN Idle ELSE NextBadge(rest)

(* A badge for which nothing is to be written. *)
SkipBadge(rest) == NextBadge(rest)

(* Mutant: the override is not looked at. *)
isElsewhere(c, row) == row.client_name # msRoomId[c]

(* !manualOR && loc != msRoomId *)
MovesHere(c, row) == ~row.manual_override /\ row.client_name # msRoomId[c]

(* Mutant: without query.next() no row is ever valid. *)
noRows(b) == <<>>

rowsOf(b) == ir_badges[b]

SelectBadge(c, b, ok) ==
  /\ At(c, "select") /\ b \in prog[c].found
  /\ Query(ok)
  /\ LET rest == prog[c].found \ {b}
         rows == rowsOf(b)
     IN Goto(c, IF ~ok \/ rows = <<>>
                THEN [pc |-> "insert", found |-> rest, badge |-> b]
                ELSE IF MovesHere(c, rows[1])
                THEN [pc |-> "update", found |-> rest, badge |-> b]
                ELSE SkipBadge(rest))
  /\ UNCHANGED <<msRoomId, serial, tables, world, raced>>

(* The UPDATE is of all rows of the badge. *)
Placed(rows, room) ==
  [i \in DOMAIN rows |-> [rows[i] EXCEPT !.client_name = room]]

UpdateBadge(c, ok) ==
  /\ At(c, "update")
  /\ Query(ok)
  /\ LET b == prog[c].badge
     IN ir_badges' = IF ok
          THEN [ir_badges EXCEPT ![b] = Placed(ir_badges[b], msRoomId[c])]
          ELSE ir_badges
  /\ Goto(c, NextBadge(prog[c].found))
  /\ raced' = raced \ {c}
  /\ UNCHANGED <<msRoomId, serial, clients, priority, world>>

InsertBadge(c, ok) ==
  /\ At(c, "insert")
  /\ Query(ok)
  /\ LET b == prog[c].badge
         row == [client_name |-> msRoomId[c], manual_override |-> FALSE]
     IN ir_badges' = IF ok
          THEN [ir_badges EXCEPT ![b] = Append(ir_badges[b], row)]
          ELSE ir_badges
  /\ Goto(c, NextBadge(prog[c].found))
  /\ UNCHANGED <<msRoomId, serial, clients, priority, world, raced>>

RoomsIn(rows) == {rows[i].client_name : i \in DOMAIN rows}

(* CALL IR_PRIORITY(): the server decides again who is where. *)
CallPriority(c, ok) ==
  /\ At(c, "priority")
  /\ Query(ok)
  /\ priority' = IF ok THEN [b \in Ids |-> RoomsIn(ir_badges[b])] ELSE priority
  /\ Goto(c, Idle)
  /\ UNCHANGED <<msRoomId, serial, ir_badges, clients, world, raced>>

Step(c) ==
  \/ getBadgesIds(c)
  \/ \E ok \in BOOLEAN :
       \/ SelectClient(c, ok) \/ UpdateClient(c, ok) \/ InsertClient(c, ok)
       \/ \E b \in Ids : SelectBadge(c, b, ok)
       \/ UpdateBadge(c, ok) \/ InsertBadge(c, ok) \/ CallPriority(c, ok)

-----------------------------------------------------------------------------
(* The rest of the house. *)

(* A badge sends its id again and again. *)
Emit(b) ==
  /\ \E c \in where[b] :
       /\ ~At(c, "off") /\ b \notin serial[c]
       /\ serial' = [serial EXCEPT ![c] = @ \cup {b}]
  /\ UNCHANGED <<msRoomId, prog, tables, world, fails, raced>>

Move(b, to) ==
  /\ moves < MaxMoves /\ moves' = moves + 1
  /\ where[b] # to
  /\ where' = [where EXCEPT ![b] = to]
  /\ UNCHANGED <<msRoomId, prog, serial, tables, edits, crashes, fails, raced>>

(* A person overrides where a badge is, or lifts the override. *)
Edit(b, row) ==
  /\ edits < MaxEdits /\ edits' = edits + 1
  /\ ir_badges[b] # <<>>
  /\ ir_badges' = [ir_badges EXCEPT ![b] = [i \in DOMAIN ir_badges[b] |-> row]]
  /\ raced' = raced \cup {c \in Clients : row.manual_override
                            /\ At(c, "update") /\ prog[c].badge = b}
  /\ UNCHANGED <<msRoomId, prog, serial, clients, priority, where,
                 moves, crashes, fails>>

(* A client ends between two queries, and is started again; start()         *)
(* flushes what has arrived at the port.                                    *)
Crash(c) ==
  /\ ~At(c, "off")
  /\ fails + crashes < MaxFaults /\ crashes' = crashes + 1
  /\ Goto(c, Off)
  /\ serial' = [serial EXCEPT ![c] = {}]
  /\ raced' = raced \ {c}
  /\ UNCHANGED <<msRoomId, tables, where, moves, edits, fails>>

Restart(c) ==
  /\ At(c, "off")
  /\ Goto(c, Idle)
  /\ UNCHANGED <<msRoomId, serial, tables, world, fails, raced>>

Places == {{}} \cup {{c} : c \in Clients}

Rows == [client_name : RoomNames, manual_override : BOOLEAN]

Init ==
  /\ msRoomId \in Configurations
  /\ prog = [c \in Clients |-> Off]
  /\ serial = [c \in Clients |-> {}]
  /\ ir_badges = [b \in Ids |-> <<>>]
  /\ clients = [n \in RoomNames |-> 0]
  /\ priority = [b \in Ids |-> {}]
  /\ \E place \in Places : where = [b \in Bytes |-> place]
  /\ moves = 0 /\ edits = 0 /\ fails = 0 /\ crashes = 0
  /\ raced = {}

Next ==
  \/ \E c \in Clients : Step(c) \/ Crash(c) \/ Restart(c)
  \/ \E b \in Bytes : Emit(b) \/ \E to \in Places : Move(b, to)
  \/ \E b \in Ids, row \in Rows : Edit(b, row)

Spec == Init /\ [][Next]_vars

(* A client goes on with its poll, and polls again; a badge is heard in the *)
(* end where it is.  Nobody need move, edit or start anything.              *)
FairSpec ==
  /\ Spec
  /\ \A c \in Clients : WF_vars(Step(c))
  /\ \A b \in Bytes : WF_vars(Emit(b))

-----------------------------------------------------------------------------
(* Every variable keeps its type.  A byte that is no badge gets no further  *)
(* than the serial port.                                                    *)
Programs ==
  [pc : {"off", "idle", "updateClient", "insertClient", "receive", "select",
         "update", "insert", "priority"},
   found : SUBSET Ids, badge : Ids \cup {NoBadge}]

TypeOK ==
  /\ msRoomId \in [Clients -> RoomNames]
  /\ prog \in [Clients -> Programs]
  /\ serial \in [Clients -> SUBSET Bytes]
  /\ ir_badges \in [Ids -> Seq(Rows)]
  /\ clients \in [RoomNames -> Nat]
  /\ priority \in [Ids -> SUBSET RoomNames]
  /\ where \in [Bytes -> Places]
  /\ moves \in 0..MaxMoves /\ edits \in 0..MaxEdits
  /\ fails \in Nat /\ crashes \in Nat /\ fails + crashes <= MaxFaults
  /\ raced \subseteq Clients

Inserting(b) == {c \in Clients : At(c, "insert") /\ prog[c].badge = b}

Named(n) == {c \in Clients : msRoomId[c] = n}

(* What the races between SELECT and INSERT can do to a table: each client  *)
(* adds a row at most once, however often they all poll, and a further one  *)
(* only where a SELECT has failed.                                          *)
RowsBounded ==
  /\ \A b \in Ids : Len(ir_badges[b]) <= Cardinality(Clients) + fails
  /\ \A n \in RoomNames : clients[n] <= Cardinality(Named(n)) + fails

(* A badge that somebody has put somewhere by hand is left there.  The      *)
(* exception is a client that had read its row before; each such client     *)
(* moves it once.                                                           *)
OverrideKept ==
  [][\A b \in Ids : \A i \in DOMAIN ir_badges[b] :
       ir_badges[b][i].manual_override =>
         \/ ir_badges'[b][i] = ir_badges[b][i]
         \/ edits' # edits
         \/ \E c \in raced \ raced' : prog[c].badge = b]_vars

(* The rows of a badge name several rooms, the first of them the right one: *)
(* no client will ever repair the others while its wearer stays.            *)
Split(b) == Cardinality(RoomsIn(ir_badges[b])) > 1

Overridden(b) ==
  \E i \in DOMAIN ir_badges[b] : ir_badges[b][i].manual_override

(* Whatever queries were lost, whichever clients interfered or ended: when  *)
(* the wearer of a badge stays in a room whose client runs, the server in   *)
(* the end sees the badge there, and nowhere else.                          *)
Followed ==
  \A b \in Ids, c \in Clients :
    <>[](/\ where[b] = {c} /\ ~At(c, "off")
         /\ ~Overridden(b) /\ ~Split(b))
      => <>[](priority[b] = {msRoomId[c]})

(* The heart beat reaches a row of the table. *)
Beat(c) == UpdateClient(c, TRUE) /\ Registered(c)

(* A client that stays up is heard of again and again. *)
HeartBeats ==
  \A c \in Clients : <>[](~At(c, "off")) => []<><<Beat(c)>>_vars

=============================================================================
