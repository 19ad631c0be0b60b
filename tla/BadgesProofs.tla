---------------------------- MODULE BadgesProofs ----------------------------
(***************************************************************************)
(* What the races between the queries of the clients can do to the tables, *)
(* for every number of clients, badges, moves, edits and faults: how many  *)
(* rows they can add, and when they can move a badge that a person has put *)
(* somewhere.                                                               *)
(***************************************************************************)
EXTENDS Badges, TLAPS, FiniteSetTheorems

Joining(n) == {c \in Clients : At(c, "insertClient") /\ msRoomId[c] = n}

(* The badge at hand is one. *)
AtHand ==
  \A c \in Clients :
    At(c, "update") \/ At(c, "insert") => prog[c].badge \in Ids

(* Rows that are there and rows that are on their way. *)
Counted ==
  /\ \A b \in Ids : Len(ir_badges[b]) + Cardinality(Inserting(b))
                      <= Cardinality(Clients) + fails
  /\ \A n \in RoomNames : clients[n] + Cardinality(Joining(n))
                            <= Cardinality(Named(n)) + fails

(* An override is on all rows of a badge but those inserted later, so it is *)
(* seen in the first row, the only one that is looked at.                   *)
FirstRowTells ==
  \A b \in Ids : \A i \in DOMAIN ir_badges[b] :
    ir_badges[b][i].manual_override => ir_badges[b][1].manual_override

(* A client that is about to move a badge has seen that it may, and that    *)
(* is still so, or it is one of those that raced.                           *)
MayMove ==
  \A c \in Clients \ raced :
    At(c, "update") =>
      /\ ir_badges[prog[c].badge] # <<>>
      /\ ~ir_badges[prog[c].badge][1].manual_override

IInv == TypeOK /\ AtHand /\ Counted /\ FirstRowTells /\ MayMove

-----------------------------------------------------------------------------
LEMMA CountTypes ==
  ASSUME NEW S \in SUBSET Clients
  PROVE  IsFiniteSet(S) /\ Cardinality(S) \in Nat
         /\ Cardinality(S) <= Cardinality(Clients)
         /\ Cardinality(Clients) \in Nat
<1>1. IsFiniteSet(S) /\ Cardinality(S) <= Cardinality(Clients)
  BY BadgesAssumption, FS_Subset
<1> QED
  BY <1>1, BadgesAssumption, FS_CardinalityType

(* How a set of clients counts when one of them enters or leaves it.       *)
LEMMA OneMore ==
  ASSUME NEW S \in SUBSET Clients, NEW T \in SUBSET Clients,
         NEW c \in Clients, T \subseteq S \cup {c}
  PROVE  Cardinality(T) <= Cardinality(S) + 1
<1>1. IsFiniteSet(S \cup {c}) /\ Cardinality(S \cup {c}) <= Cardinality(S) + 1
  BY CountTypes, FS_AddElement
<1>2. Cardinality(T) <= Cardinality(S \cup {c})
  BY <1>1, FS_Subset
<1>3. Cardinality(S \cup {c}) \in Nat
  BY <1>1, FS_CardinalityType
<1> QED
  BY <1>1, <1>2, <1>3, CountTypes

LEMMA NoMore ==
  ASSUME NEW S \in SUBSET Clients, NEW T \in SUBSET Clients, T \subseteq S
  PROVE  Cardinality(T) <= Cardinality(S)
BY CountTypes, FS_Subset

LEMMA OneLess ==
  ASSUME NEW S \in SUBSET Clients, NEW T \in SUBSET Clients,
         NEW c \in S, T \subseteq S \ {c}
  PROVE  Cardinality(T) + 1 <= Cardinality(S)
<1>1. IsFiniteSet(S \ {c}) /\ Cardinality(S \ {c}) = Cardinality(S) - 1
  BY CountTypes, FS_RemoveElement
<1>2. Cardinality(T) <= Cardinality(S \ {c})
  BY <1>1, FS_Subset
<1> QED
  BY <1>1, <1>2, CountTypes

LEMMA Counters ==
  /\ \A b : Inserting(b) \in SUBSET Clients
  /\ \A n : Joining(n) \in SUBSET Clients /\ Named(n) \in SUBSET Clients
BY DEF Inserting, Joining, Named

(* UPDATE keeps the number of rows and their overrides.                    *)
LEMMA PlacedRows ==
  ASSUME NEW rows \in Seq(Rows), NEW room \in RoomNames
  PROVE  /\ Placed(rows, room) \in Seq(Rows)
         /\ Len(Placed(rows, room)) = Len(rows)
         /\ DOMAIN Placed(rows, room) = DOMAIN rows
         /\ \A i \in DOMAIN rows :
              Placed(rows, room)[i].manual_override = rows[i].manual_override
<1>1. \A i \in DOMAIN rows :
        /\ rows[i] \in Rows
        /\ Placed(rows, room)[i] = [rows[i] EXCEPT !.client_name = room]
  BY DEF Placed
<1>2. \A i \in DOMAIN rows :
        /\ Placed(rows, room)[i] \in Rows
        /\ Placed(rows, room)[i].manual_override = rows[i].manual_override
  BY <1>1 DEF Rows
<1>3. Placed(rows, room) \in [1..Len(rows) -> Rows]
  BY <1>2 DEF Placed
<1> QED
  BY <1>2, <1>3

LEMMA ProgramTypes ==
  /\ Off \in Programs /\ Idle \in Programs
  /\ \A rest \in SUBSET Ids :
       /\ NextBadge(rest) \in Programs
       /\ NextBadge(rest).pc \in {"priority", "select"}
  /\ Off.pc = "off" /\ Idle.pc = "idle"
BY DEF Off, Idle, NextBadge, Programs

LEMMA InitIInv == Init => IInv
<1> SUFFICES ASSUME Init PROVE IInv
  OBVIOUS
<1>1. TypeOK
  BY ProgramTypes, BadgesAssumption DEF Init, TypeOK
<1>2. \A c \in Clients : At(c, "off")
  BY ProgramTypes DEF Init, At
<1>3. \A b : Inserting(b) = {} /\ \A n : Joining(n) = {}
  BY <1>2 DEF Inserting, Joining, At
<1>4. Counted
  <2>1. \A n : Cardinality(Named(n)) \in Nat /\ Cardinality(Clients) \in Nat
    BY Counters, CountTypes
  <2>2. /\ \A b : Cardinality(Inserting(b)) = 0
        /\ \A n : Cardinality(Joining(n)) = 0
    BY <1>3, FS_EmptySet
  <2>3. /\ \A b \in Ids : Len(ir_badges[b]) = 0
        /\ \A n \in RoomNames : clients[n] = 0
        /\ fails = 0
    BY DEF Init
  <2> QED
    BY <2>1, <2>2, <2>3 DEF Counted
<1> QED
  BY <1>1, <1>2, <1>4 DEF IInv, AtHand, FirstRowTells, MayMove, At, Init

-----------------------------------------------------------------------------
(* The conjuncts, one at a time.  A client goes on with its program n.     *)

(* A client that goes on to something else than an INSERT.                 *)
LEMMA CountedKept ==
  ASSUME IInv, NEW c \in Clients, NEW n \in Programs, Goto(c, n),
         n.pc \notin {"insert", "insertClient"},
         fails' = fails \/ fails' = fails + 1,
         UNCHANGED <<msRoomId, clients>>,
         \A b \in Ids : Len(ir_badges'[b]) = Len(ir_badges[b])
  PROVE  Counted'
<1>1. \A b : Inserting(b)' \subseteq Inserting(b)
      /\ \A m : Joining(m)' \subseteq Joining(m)
  BY DEF IInv, TypeOK, Goto, Inserting, Joining, At
<1>2. /\ \A b : Cardinality(Inserting(b)') <= Cardinality(Inserting(b))
      /\ \A m : Cardinality(Joining(m)') <= Cardinality(Joining(m))
  <2>1. /\ \A b : Inserting(b)' \in SUBSET Clients
        /\ \A m : Joining(m)' \in SUBSET Clients
    BY DEF Inserting, Joining
  <2> QED
    BY <1>1, <2>1, Counters, NoMore
<1>3. \A m : Named(m)' = Named(m)
  BY DEF Named
<1>4. /\ \A b : Cardinality(Inserting(b)') \in Nat
      /\ \A m : Cardinality(Joining(m)') \in Nat
      /\ \A b : Cardinality(Inserting(b)) \in Nat
      /\ \A m : Cardinality(Joining(m)) \in Nat /\ Cardinality(Named(m)) \in Nat
      /\ Cardinality(Clients) \in Nat
  <2>1. /\ \A b : Inserting(b)' \in SUBSET Clients
        /\ \A m : Joining(m)' \in SUBSET Clients
    BY DEF Inserting, Joining
  <2> QED
    BY <2>1, Counters, CountTypes
<1>5. /\ \A b \in Ids : Len(ir_badges[b]) \in Nat
      /\ \A m \in RoomNames : clients[m] \in Nat
      /\ fails \in Nat
  BY DEF IInv, TypeOK
<1>6. \A b \in Ids : Len(ir_badges'[b]) + Cardinality(Inserting(b)')
                       <= Cardinality(Clients) + fails'
  BY <1>2, <1>4, <1>5 DEF IInv, Counted
<1>7. \A m \in RoomNames : clients'[m] + Cardinality(Joining(m)')
                             <= Cardinality(Named(m)') + fails'
  BY <1>2, <1>3, <1>4, <1>5 DEF IInv, Counted
<1> QED
  BY <1>6, <1>7 DEF Counted

(* A query that is answered costs nothing, one that fails a fault.         *)
LEMMA QueryCounts ==
  ASSUME TypeOK, NEW ok \in BOOLEAN, Query(ok), UNCHANGED crashes
  PROVE  /\ fails' \in Nat /\ fails' + crashes' <= MaxFaults
         /\ IF ok THEN fails' = fails ELSE fails' = fails + 1
BY BadgesAssumption DEF TypeOK, Query

(* The world outside of clients and tables. *)
WorldTyped ==
  /\ where \in [Bytes -> Places]
  /\ moves \in 0..MaxMoves /\ edits \in 0..MaxEdits
  /\ fails \in Nat /\ crashes \in Nat /\ fails + crashes <= MaxFaults

(* Steps of a client that begin neither an INSERT nor an UPDATE; they may   *)
(* rename the rooms in rows, and do nothing else to them.                   *)
LEMMA QuietIInv ==
  ASSUME IInv, NEW c \in Clients, NEW n \in Programs, Goto(c, n),
         n.pc \notin {"insert", "insertClient", "update"},
         fails' = fails \/ fails' = fails + 1,
         UNCHANGED <<msRoomId, clients>>,
         WorldTyped', serial' \in [Clients -> SUBSET Bytes],
         priority' \in [Ids -> SUBSET RoomNames],
         raced' \subseteq raced, raced \ {c} \subseteq raced',
         ir_badges' \in [Ids -> Seq(Rows)],
         \A b \in Ids :
           /\ Len(ir_badges'[b]) = Len(ir_badges[b])
           /\ DOMAIN ir_badges'[b] = DOMAIN ir_badges[b]
           /\ \A i \in DOMAIN ir_badges[b] :
                ir_badges'[b][i].manual_override
                  = ir_badges[b][i].manual_override
  PROVE  IInv'
<1>1. prog' = [prog EXCEPT ![c] = n] /\ prog \in [Clients -> Programs]
  BY DEF IInv, TypeOK, Goto
<1>2. TypeOK'
  BY <1>1 DEF IInv, TypeOK, WorldTyped
<1>3. \A d \in Clients : At(d, "update")' \/ At(d, "insert")' =>
        d # c /\ prog'[d] = prog[d]
  BY <1>1 DEF At
<1>4. AtHand'
  BY <1>3 DEF IInv, AtHand, At
<1>5. Counted'
  BY CountedKept
<1>6. \A b \in Ids : ir_badges[b] \in Seq(Rows) /\ ir_badges'[b] \in Seq(Rows)
  BY DEF IInv, TypeOK
<1>7. FirstRowTells'
  <2> SUFFICES ASSUME NEW b \in Ids, NEW i \in DOMAIN ir_badges'[b],
                      ir_badges'[b][i].manual_override
               PROVE  ir_badges'[b][1].manual_override
    BY DEF FirstRowTells
  <2>1. ir_badges[b][1].manual_override
    BY DEF IInv, FirstRowTells
  <2>2. 1 \in DOMAIN ir_badges[b]
    BY <1>6
  <2> QED
    BY <2>1, <2>2
<1>8. MayMove'
  <2> SUFFICES ASSUME NEW d \in Clients, d \notin raced', At(d, "update")'
               PROVE  /\ ir_badges'[prog'[d].badge] # <<>>
                      /\ ~ir_badges'[prog'[d].badge][1].manual_override
    BY DEF MayMove
  <2> DEFINE b == prog[d].badge
  <2>1. d # c /\ prog'[d] = prog[d] /\ d \notin raced /\ At(d, "update")
    BY <1>3 DEF At
  <2>2. b \in Ids /\ ir_badges[b] # <<>> /\ ~ir_badges[b][1].manual_override
    BY <2>1 DEF IInv, AtHand, MayMove
  <2>3. 1 \in DOMAIN ir_badges[b] /\ ir_badges'[b] # <<>>
    BY <1>6, <2>2
  <2> QED
    BY <2>1, <2>2, <2>3
<1> QED
  BY <1>2, <1>4, <1>5, <1>7, <1>8 DEF IInv

(* What moves outside of the clients and the tables. *)
LEMMA HouseIInv ==
  ASSUME IInv, WorldTyped', serial' \in [Clients -> SUBSET Bytes],
         UNCHANGED <<msRoomId, prog, tables, fails, raced>>
  PROVE  IInv'
<1>1. TypeOK'
  BY DEF IInv, TypeOK, WorldTyped, tables
<1>2. /\ \A b : Inserting(b)' = Inserting(b)
      /\ \A n : Joining(n)' = Joining(n) /\ Named(n)' = Named(n)
  BY DEF Inserting, Joining, Named, At
<1>3. Counted'
  BY <1>2 DEF IInv, Counted, tables
<1> QED
  BY <1>1, <1>3 DEF IInv, AtHand, FirstRowTells, MayMove, At, tables

-----------------------------------------------------------------------------
(* The actions of a client. *)

LEMMA SelectClientIInv ==
  ASSUME IInv, NEW c \in Clients, NEW ok \in BOOLEAN, SelectClient(c, ok)
  PROVE  IInv'
<1> DEFINE pc == IF ok THEN heartBeat(c) ELSE "insertClient"
           n == [Idle EXCEPT !.pc = pc]
<1>1. /\ Query(ok) /\ Goto(c, n)
      /\ UNCHANGED <<msRoomId, serial, tables, world, raced>>
  BY DEF SelectClient
<1>2. TypeOK /\ UNCHANGED crashes
  BY <1>1 DEF IInv, world
<1>3. /\ fails' \in Nat /\ fails' + crashes' <= MaxFaults
      /\ IF ok THEN fails' = fails ELSE fails' = fails + 1
  BY <1>1, <1>2, QueryCounts
<1>4. WorldTyped'
  BY <1>1, <1>3 DEF WorldTyped, IInv, TypeOK, world
<1>5. n \in Programs /\ n.pc = pc /\ pc \in {"updateClient", "insertClient"}
  BY ProgramTypes DEF heartBeat, Idle, Programs
<1> HIDE DEF n
<1>6. CASE pc = "updateClient"
  BY <1>1, <1>3, <1>4, <1>5, <1>6, QuietIInv DEF IInv, TypeOK, tables
<1>7. CASE pc = "insertClient"
  <2>1. prog' = [prog EXCEPT ![c] = n] /\ prog \in [Clients -> Programs]
    BY <1>1 DEF IInv, TypeOK, Goto
  <2>2. TypeOK'
    BY <1>1, <1>4, <1>5, <2>1 DEF IInv, TypeOK, WorldTyped, tables
  <2>3. AtHand'
    BY <1>5, <1>7, <2>1 DEF IInv, AtHand, At
  <2>4. \A b : Inserting(b)' \subseteq Inserting(b)
    BY <1>5, <1>7, <2>1 DEF Inserting, At
  <2>5. \A m : Joining(m)' \subseteq Joining(m) \cup {c}
    BY <1>1, <1>5, <1>7, <2>1 DEF Joining, At
  <2>6. \A m : m # msRoomId[c] => Joining(m)' \subseteq Joining(m)
    BY <1>1, <1>5, <1>7, <2>1 DEF Joining, At
  <2>7. ASSUME NEW b \in Ids
        PROVE  Len(ir_badges'[b]) + Cardinality(Inserting(b)')
                 <= Cardinality(Clients) + fails'
    <3>1. Inserting(b)' \in SUBSET Clients /\ Inserting(b) \in SUBSET Clients
      BY DEF Inserting
    <3>2. Cardinality(Inserting(b)') <= Cardinality(Inserting(b))
      BY <2>4, <3>1, NoMore
    <3>3. /\ Cardinality(Inserting(b)') \in Nat
          /\ Cardinality(Inserting(b)) \in Nat /\ Cardinality(Clients) \in Nat
      BY <3>1, CountTypes
    <3>4. Len(ir_badges[b]) \in Nat /\ fails \in Nat /\ ir_badges' = ir_badges
      BY <1>1 DEF IInv, TypeOK, tables
    <3>5. Len(ir_badges[b]) + Cardinality(Inserting(b))
            <= Cardinality(Clients) + fails
      BY DEF IInv, Counted
    <3> QED
      BY <1>3, <3>2, <3>3, <3>4, <3>5
  <2>8. ASSUME NEW m \in RoomNames
        PROVE  clients'[m] + Cardinality(Joining(m)')
                 <= Cardinality(Named(m)') + fails'
    <3>1. /\ Joining(m)' \in SUBSET Clients /\ Joining(m) \in SUBSET Clients
          /\ Named(m) \in SUBSET Clients /\ Named(m)' = Named(m)
          /\ Joining(m)' \subseteq Named(m)
      BY <1>1 DEF Joining, Named
    <3>2. /\ Cardinality(Joining(m)') \in Nat /\ Cardinality(Joining(m)) \in Nat
          /\ Cardinality(Named(m)) \in Nat
      BY <3>1, CountTypes
    <3>3. /\ clients[m] \in Nat /\ fails \in Nat /\ clients' = clients
      BY <1>1 DEF IInv, TypeOK, tables
    <3>4. clients[m] + Cardinality(Joining(m)) <= Cardinality(Named(m)) + fails
      BY DEF IInv, Counted
    <3>5. CASE ~ok
      <4>1. Cardinality(Joining(m)') <= Cardinality(Joining(m)) + 1
        BY <2>5, <3>1, OneMore
      <4> QED
        BY <1>3, <3>1, <3>2, <3>3, <3>4, <3>5, <4>1
    <3>6. CASE m # msRoomId[c]
      <4>1. Cardinality(Joining(m)') <= Cardinality(Joining(m))
        BY <2>6, <3>1, <3>6, NoMore
      <4> QED
        BY <1>3, <3>1, <3>2, <3>3, <3>4, <4>1
    <3>7. CASE ok /\ m = msRoomId[c]
      <4>1. clients[m] = 0
        BY <1>7, <3>3, <3>7 DEF heartBeat, Registered
      <4>2. Cardinality(Joining(m)') <= Cardinality(Named(m))
        BY <3>1, NoMore
      <4> QED
        BY <1>3, <3>1, <3>2, <3>3, <4>1, <4>2
    <3> QED
      BY <3>5, <3>6, <3>7
  <2>9. Counted'
    BY <2>7, <2>8 DEF Counted
  <2>10. FirstRowTells'
    BY <1>1 DEF IInv, FirstRowTells, tables
  <2>11. MayMove'
    BY <1>1, <1>5, <1>7, <2>1 DEF IInv, MayMove, At, tables
  <2> QED
    BY <2>2, <2>3, <2>9, <2>10, <2>11 DEF IInv
<1> QED
  BY <1>5, <1>6, <1>7

(* What every step of a client that is one query has in common. *)
LEMMA QueryWorld ==
  ASSUME IInv, NEW ok \in BOOLEAN, Query(ok), UNCHANGED world
  PROVE  /\ WorldTyped'
         /\ IF ok THEN fails' = fails ELSE fails' = fails + 1
<1>1. TypeOK /\ UNCHANGED crashes
  BY DEF IInv, world
<1>2. /\ fails' \in Nat /\ fails' + crashes' <= MaxFaults
      /\ IF ok THEN fails' = fails ELSE fails' = fails + 1
  BY <1>1, QueryCounts
<1> QED
  BY <1>1, <1>2 DEF WorldTyped, TypeOK, world

LEMMA UpdateClientIInv ==
  ASSUME IInv, NEW c \in Clients, NEW ok \in BOOLEAN, UpdateClient(c, ok)
  PROVE  IInv'
<1> DEFINE n == [Idle EXCEPT !.pc = "receive"]
<1>1. /\ Query(ok) /\ Goto(c, n)
      /\ UNCHANGED <<msRoomId, serial, tables, world, raced>>
  BY DEF UpdateClient
<1>2. WorldTyped' /\ IF ok THEN fails' = fails ELSE fails' = fails + 1
  BY <1>1, QueryWorld
<1>3. n \in Programs /\ n.pc = "receive"
  BY ProgramTypes DEF Idle, Programs
<1> HIDE DEF n
<1> QED
  BY <1>1, <1>2, <1>3, QuietIInv DEF IInv, TypeOK, tables

LEMMA InsertClientIInv ==
  ASSUME IInv, NEW c \in Clients, NEW ok \in BOOLEAN, InsertClient(c, ok)
  PROVE  IInv'
<1> DEFINE n == [Idle EXCEPT !.pc = "receive"]
           room == msRoomId[c]
<1>1. /\ Query(ok) /\ Goto(c, n) /\ At(c, "insertClient")
      /\ clients' = IF ok THEN [clients EXCEPT ![room] = clients[room] + 1]
                    ELSE clients
      /\ UNCHANGED <<msRoomId, serial, ir_badges, priority, world, raced>>
  BY DEF InsertClient
<1>2. WorldTyped' /\ IF ok THEN fails' = fails ELSE fails' = fails + 1
  BY <1>1, QueryWorld
<1>3. n \in Programs /\ n.pc = "receive"
  BY ProgramTypes DEF Idle, Programs
<1> HIDE DEF n
<1>4. prog' = [prog EXCEPT ![c] = n] /\ prog \in [Clients -> Programs]
  BY <1>1 DEF IInv, TypeOK, Goto
<1>5. room \in RoomNames /\ clients \in [RoomNames -> Nat]
  BY DEF IInv, TypeOK
<1>6. TypeOK'
  BY <1>1, <1>2, <1>3, <1>4, <1>5 DEF IInv, TypeOK, WorldTyped
<1>7. AtHand'
  BY <1>3, <1>4 DEF IInv, AtHand, At
<1>8. ASSUME NEW b \in Ids
      PROVE  Len(ir_badges'[b]) + Cardinality(Inserting(b)')
               <= Cardinality(Clients) + fails'
  <2>1. /\ Inserting(b)' \in SUBSET Clients /\ Inserting(b) \in SUBSET Clients
        /\ Inserting(b)' \subseteq Inserting(b)
    BY <1>3, <1>4 DEF Inserting, At
  <2>2. Cardinality(Inserting(b)') <= Cardinality(Inserting(b))
    BY <2>1, NoMore
  <2>3. /\ Cardinality(Inserting(b)') \in Nat
        /\ Cardinality(Inserting(b)) \in Nat /\ Cardinality(Clients) \in Nat
    BY <2>1, CountTypes
  <2>4. Len(ir_badges[b]) \in Nat /\ fails \in Nat /\ ir_badges' = ir_badges
    BY <1>1 DEF IInv, TypeOK
  <2>5. Len(ir_badges[b]) + Cardinality(Inserting(b))
          <= Cardinality(Clients) + fails
    BY DEF IInv, Counted
  <2> QED
    BY <1>2, <2>2, <2>3, <2>4, <2>5
<1>9. ASSUME NEW m \in RoomNames
      PROVE  clients'[m] + Cardinality(Joining(m)')
               <= Cardinality(Named(m)') + fails'
  <2>1. /\ Joining(m)' \in SUBSET Clients /\ Joining(m) \in SUBSET Clients
        /\ Named(m) \in SUBSET Clients /\ Named(m)' = Named(m)
        /\ Joining(m)' \subseteq Joining(m) \ {c}
    BY <1>1, <1>3, <1>4 DEF Joining, Named, At
  <2>2. /\ Cardinality(Joining(m)') \in Nat /\ Cardinality(Joining(m)) \in Nat
        /\ Cardinality(Named(m)) \in Nat
    BY <2>1, CountTypes
  <2>3. clients[m] \in Nat /\ fails \in Nat
    BY DEF IInv, TypeOK
  <2>4. clients[m] + Cardinality(Joining(m)) <= Cardinality(Named(m)) + fails
    BY DEF IInv, Counted
  <2>5. CASE m = room
    <3>1. c \in Joining(m)
      BY <1>1, <2>5 DEF Joining
    <3>2. Cardinality(Joining(m)') + 1 <= Cardinality(Joining(m))
      BY <2>1, <3>1, OneLess
    <3>3. clients'[m] = clients[m] \/ clients'[m] = clients[m] + 1
      BY <1>1, <1>5, <2>5
    <3> QED
      BY <1>2, <2>1, <2>2, <2>3, <2>4, <3>2, <3>3
  <2>6. CASE m # room
    <3>1. Cardinality(Joining(m)') <= Cardinality(Joining(m))
      BY <2>1, NoMore
    <3>2. clients'[m] = clients[m]
      BY <1>1, <1>5, <2>6
    <3> QED
      BY <1>2, <2>1, <2>2, <2>3, <2>4, <3>1, <3>2
  <2> QED
    BY <2>5, <2>6
<1>10. Counted'
  BY <1>8, <1>9 DEF Counted
<1>11. FirstRowTells'
  BY <1>1 DEF IInv, FirstRowTells
<1>12. MayMove'
  BY <1>1, <1>3, <1>4 DEF IInv, MayMove, At
<1> QED
  BY <1>6, <1>7, <1>10, <1>11, <1>12 DEF IInv

LEMMA GetBadgesIInv ==
  ASSUME IInv, NEW c \in Clients, getBadgesIds(c)
  PROVE  IInv'
<1> DEFINE ids == badgeIds(c)
           n == IF ids = {} THEN Idle
                ELSE [Idle EXCEPT !.pc = "select", !.found = ids]
<1>1. /\ Goto(c, n) /\ serial' = [serial EXCEPT ![c] = {}]
      /\ UNCHANGED <<msRoomId, tables, world, fails, raced>>
  BY DEF getBadgesIds
<1>2. ids \in SUBSET Ids
  BY DEF badgeIds, Ids, IInv, TypeOK
<1>3. n \in Programs /\ n.pc \in {"idle", "select"}
  BY <1>2, ProgramTypes DEF Idle, Programs
<1> HIDE DEF n
<1>4. WorldTyped' /\ serial' \in [Clients -> SUBSET Bytes]
  BY <1>1 DEF IInv, TypeOK, WorldTyped, world
<1> QED
  BY <1>1, <1>3, <1>4, QuietIInv DEF IInv, TypeOK, tables

LEMMA CallPriorityIInv ==
  ASSUME IInv, NEW c \in Clients, NEW ok \in BOOLEAN, CallPriority(c, ok)
  PROVE  IInv'
<1>1. /\ Query(ok) /\ Goto(c, Idle)
      /\ priority' = IF ok THEN [b \in Ids |-> RoomsIn(ir_badges[b])]
                     ELSE priority
      /\ UNCHANGED <<msRoomId, serial, ir_badges, clients, world, raced>>
  BY DEF CallPriority
<1>2. WorldTyped' /\ IF ok THEN fails' = fails ELSE fails' = fails + 1
  BY <1>1, QueryWorld
<1>3. \A b \in Ids : RoomsIn(ir_badges[b]) \subseteq RoomNames
  <2>1. ASSUME NEW b \in Ids, NEW i \in DOMAIN ir_badges[b]
        PROVE  ir_badges[b][i] \in Rows
    BY DEF IInv, TypeOK
  <2> QED
    BY <2>1 DEF RoomsIn, Rows
<1>4. priority' \in [Ids -> SUBSET RoomNames]
  BY <1>1, <1>3 DEF IInv, TypeOK
<1> QED
  BY <1>1, <1>2, <1>4, ProgramTypes, QuietIInv DEF IInv, TypeOK

LEMMA UpdateBadgeIInv ==
  ASSUME IInv, NEW c \in Clients, NEW ok \in BOOLEAN, UpdateBadge(c, ok)
  PROVE  IInv'
<1> DEFINE b == prog[c].badge
           n == NextBadge(prog[c].found)
<1>1. /\ Query(ok) /\ Goto(c, n) /\ At(c, "update")
      /\ ir_badges' = IF ok
           THEN [ir_badges EXCEPT ![b] = Placed(ir_badges[b], msRoomId[c])]
           ELSE ir_badges
      /\ raced' = raced \ {c}
      /\ UNCHANGED <<msRoomId, serial, clients, priority, world>>
  BY DEF UpdateBadge
<1>2. WorldTyped' /\ IF ok THEN fails' = fails ELSE fails' = fails + 1
  BY <1>1, QueryWorld
<1>3. n \in Programs /\ n.pc \in {"priority", "select"}
  BY ProgramTypes DEF IInv, TypeOK, Programs
<1> HIDE DEF n
<1>4. /\ b \in Ids /\ msRoomId[c] \in RoomNames
      /\ ir_badges \in [Ids -> Seq(Rows)]
  BY <1>1 DEF IInv, AtHand, TypeOK
<1>5. ir_badges[b] \in Seq(Rows)
  BY <1>4
<1>6. /\ Placed(ir_badges[b], msRoomId[c]) \in Seq(Rows)
      /\ Len(Placed(ir_badges[b], msRoomId[c])) = Len(ir_badges[b])
      /\ DOMAIN Placed(ir_badges[b], msRoomId[c]) = DOMAIN ir_badges[b]
      /\ \A i \in DOMAIN ir_badges[b] :
           Placed(ir_badges[b], msRoomId[c])[i].manual_override
             = ir_badges[b][i].manual_override
  BY <1>4, <1>5, PlacedRows
<1>7. ir_badges' \in [Ids -> Seq(Rows)]
  BY <1>1, <1>4, <1>6
<1>8. ASSUME NEW a \in Ids
      PROVE  /\ Len(ir_badges'[a]) = Len(ir_badges[a])
             /\ DOMAIN ir_badges'[a] = DOMAIN ir_badges[a]
             /\ \A i \in DOMAIN ir_badges[a] :
                  ir_badges'[a][i].manual_override
                    = ir_badges[a][i].manual_override
  <2>1. CASE ok /\ a = b
    <3>1. ir_badges'[a] = Placed(ir_badges[b], msRoomId[c])
      BY <1>1, <1>4, <2>1
    <3> QED
      BY <1>6, <2>1, <3>1
  <2>2. CASE ~ok \/ a # b
    <3>1. ir_badges'[a] = ir_badges[a]
      BY <1>1, <1>4, <2>2
    <3> QED
      BY <3>1
  <2> QED
    BY <2>1, <2>2
<1> QED
  BY <1>1, <1>2, <1>3, <1>7, <1>8, QuietIInv DEF IInv, TypeOK

LEMMA InsertBadgeIInv ==
  ASSUME IInv, NEW c \in Clients, NEW ok \in BOOLEAN, InsertBadge(c, ok)
  PROVE  IInv'
<1> DEFINE b == prog[c].badge
           n == NextBadge(prog[c].found)
           row == [client_name |-> msRoomId[c], manual_override |-> FALSE]
<1>1. /\ Query(ok) /\ Goto(c, n) /\ At(c, "insert")
      /\ ir_badges' = IF ok
           THEN [ir_badges EXCEPT ![b] = Append(ir_badges[b], row)]
           ELSE ir_badges
      /\ UNCHANGED <<msRoomId, serial, clients, priority, world, raced>>
  BY DEF InsertBadge
<1>2. WorldTyped' /\ IF ok THEN fails' = fails ELSE fails' = fails + 1
  BY <1>1, QueryWorld
<1>3. n \in Programs /\ n.pc \in {"priority", "select"}
  BY ProgramTypes DEF IInv, TypeOK, Programs
<1> HIDE DEF n
<1>4. prog' = [prog EXCEPT ![c] = n] /\ prog \in [Clients -> Programs]
  BY <1>1 DEF IInv, TypeOK, Goto
<1>5. /\ b \in Ids /\ row \in Rows
      /\ ir_badges \in [Ids -> Seq(Rows)]
  BY <1>1 DEF IInv, AtHand, TypeOK, Rows
<1> HIDE DEF row
<1>6. /\ ir_badges[b] \in Seq(Rows) /\ Append(ir_badges[b], row) \in Seq(Rows)
      /\ Len(Append(ir_badges[b], row)) = Len(ir_badges[b]) + 1
      /\ \A i \in DOMAIN ir_badges[b] :
           Append(ir_badges[b], row)[i] = ir_badges[b][i]
      /\ Append(ir_badges[b], row)[Len(ir_badges[b]) + 1] = row
  BY <1>5
<1>7. /\ ir_badges' \in [Ids -> Seq(Rows)]
      /\ ok => ir_badges'[b] = Append(ir_badges[b], row)
      /\ \A a \in Ids : ~ok \/ a # b => ir_badges'[a] = ir_badges[a]
  BY <1>1, <1>5, <1>6
<1>8. TypeOK'
  BY <1>1, <1>2, <1>3, <1>4, <1>7 DEF IInv, TypeOK, WorldTyped
<1>9. AtHand'
  BY <1>3, <1>4 DEF IInv, AtHand, At
<1>10. ASSUME NEW a \in Ids
       PROVE  Len(ir_badges'[a]) + Cardinality(Inserting(a)')
                <= Cardinality(Clients) + fails'
  <2>1. /\ Inserting(a)' \in SUBSET Clients /\ Inserting(a) \in SUBSET Clients
        /\ Inserting(a)' \subseteq Inserting(a) \ {c}
    BY <1>3, <1>4 DEF Inserting, At
  <2>2. /\ Cardinality(Inserting(a)') \in Nat
        /\ Cardinality(Inserting(a)) \in Nat /\ Cardinality(Clients) \in Nat
    BY <2>1, CountTypes
  <2>3. Len(ir_badges[a]) \in Nat /\ fails \in Nat
    BY <1>5 DEF IInv, TypeOK
  <2>4. Len(ir_badges[a]) + Cardinality(Inserting(a))
          <= Cardinality(Clients) + fails
    BY DEF IInv, Counted
  <2>5. CASE ok /\ a = b
    <3>1. c \in Inserting(a)
      BY <1>1, <2>5 DEF Inserting
    <3>2. Cardinality(Inserting(a)') + 1 <= Cardinality(Inserting(a))
      BY <2>1, <3>1, OneLess
    <3>3. Len(ir_badges'[a]) = Len(ir_badges[a]) + 1
      BY <1>6, <1>7, <2>5
    <3> QED
      BY <1>2, <2>2, <2>3, <2>4, <2>5, <3>2, <3>3
  <2>6. CASE ~ok \/ a # b
    <3>1. Cardinality(Inserting(a)') <= Cardinality(Inserting(a))
      BY <2>1, NoMore
    <3>2. ir_badges'[a] = ir_badges[a]
      BY <1>7, <2>6
    <3> QED
      BY <1>2, <2>2, <2>3, <2>4, <3>1, <3>2
  <2> QED
    BY <2>5, <2>6
<1>11. ASSUME NEW m \in RoomNames
       PROVE  clients'[m] + Cardinality(Joining(m)')
                <= Cardinality(Named(m)') + fails'
  <2>1. /\ Joining(m)' \in SUBSET Clients /\ Joining(m) \in SUBSET Clients
        /\ Named(m) \in SUBSET Clients /\ Named(m)' = Named(m)
        /\ Joining(m)' \subseteq Joining(m)
    BY <1>1, <1>3, <1>4 DEF Joining, Named, At
  <2>2. /\ Cardinality(Joining(m)') \in Nat /\ Cardinality(Joining(m)) \in Nat
        /\ Cardinality(Named(m)) \in Nat
    BY <2>1, CountTypes
  <2>3. clients[m] \in Nat /\ fails \in Nat /\ clients' = clients
    BY <1>1 DEF IInv, TypeOK
  <2>4. clients[m] + Cardinality(Joining(m)) <= Cardinality(Named(m)) + fails
    BY DEF IInv, Counted
  <2>5. Cardinality(Joining(m)') <= Cardinality(Joining(m))
    BY <2>1, NoMore
  <2> QED
    BY <1>2, <2>1, <2>2, <2>3, <2>4, <2>5
<1>12. Counted'
  BY <1>10, <1>11 DEF Counted
<1>13. FirstRowTells'
  <2> SUFFICES ASSUME NEW a \in Ids, NEW i \in DOMAIN ir_badges'[a],
                      ir_badges'[a][i].manual_override
               PROVE  ir_badges'[a][1].manual_override
    BY DEF FirstRowTells
  <2>1. CASE ~ok \/ a # b
    BY <1>7, <2>1 DEF IInv, FirstRowTells
  <2>2. CASE ok /\ a = b
    <3>1. ~row.manual_override
      BY DEF row
    <3>2. ir_badges'[a] = Append(ir_badges[b], row)
      BY <1>7, <2>2
    <3>3. i \in 1..(Len(ir_badges[b]) + 1)
      BY <1>5, <1>6, <3>2
    <3>4. i \in DOMAIN ir_badges[b]
      BY <1>6, <3>1, <3>2, <3>3
    <3>5. ir_badges[b][1].manual_override /\ 1 \in DOMAIN ir_badges[b]
      BY <1>5, <1>6, <3>2, <3>4 DEF IInv, FirstRowTells
    <3> QED
      BY <1>6, <3>2, <3>5
  <2> QED
    BY <2>1, <2>2
<1>14. MayMove'
  <2> SUFFICES ASSUME NEW d \in Clients, d \notin raced', At(d, "update")'
               PROVE  /\ ir_badges'[prog'[d].badge] # <<>>
                      /\ ~ir_badges'[prog'[d].badge][1].manual_override
    BY DEF MayMove
  <2> DEFINE a == prog[d].badge
  <2>1. prog'[d] = prog[d] /\ At(d, "update") /\ d \notin raced
    BY <1>1, <1>3, <1>4 DEF At
  <2>2. a \in Ids /\ ir_badges[a] # <<>> /\ ~ir_badges[a][1].manual_override
    BY <2>1 DEF IInv, AtHand, MayMove
  <2>3. CASE ~ok \/ a # b
    BY <1>7, <2>1, <2>2, <2>3
  <2>4. CASE ok /\ a = b
    <3>1. 1 \in DOMAIN ir_badges[b]
      BY <1>6, <2>2, <2>4
    <3> QED
      BY <1>6, <1>7, <2>1, <2>2, <2>4, <3>1
  <2> QED
    BY <2>3, <2>4
<1> QED
  BY <1>8, <1>9, <1>12, <1>13, <1>14 DEF IInv

LEMMA SelectBadgeIInv ==
  ASSUME IInv, NEW c \in Clients, NEW b \in Ids, NEW ok \in BOOLEAN,
         SelectBadge(c, b, ok)
  PROVE  IInv'
<1> DEFINE rest == prog[c].found \ {b}
           to(pc) == [pc |-> pc, found |-> rest, badge |-> b]
           n == IF ~ok \/ ir_badges[b] = <<>> THEN to("insert")
                ELSE IF MovesHere(c, ir_badges[b][1]) THEN to("update")
                ELSE NextBadge(rest)
<1>1. /\ Query(ok) /\ Goto(c, n) /\ At(c, "select")
      /\ UNCHANGED <<msRoomId, serial, tables, world, raced>>
  BY DEF SelectBadge, rowsOf, SkipBadge
<1>2. WorldTyped' /\ IF ok THEN fails' = fails ELSE fails' = fails + 1
  BY <1>1, QueryWorld
<1>3. rest \in SUBSET Ids
  BY DEF IInv, TypeOK, Programs
<1>4. n \in Programs
  BY <1>3, ProgramTypes DEF Programs
<1>5. /\ n.pc \in {"insert", "update"} => n.badge = b
      /\ n.pc = "insert" => ~ok \/ ir_badges[b] = <<>>
      /\ n.pc = "update" => /\ ir_badges[b] # <<>>
                            /\ ~ir_badges[b][1].manual_override
      /\ n.pc # "insertClient"
  BY <1>3, ProgramTypes DEF MovesHere
<1> HIDE DEF n
<1>6. prog' = [prog EXCEPT ![c] = n] /\ prog \in [Clients -> Programs]
  BY <1>1 DEF IInv, TypeOK, Goto
<1>7. TypeOK'
  BY <1>1, <1>2, <1>4, <1>6 DEF IInv, TypeOK, WorldTyped, tables
<1>8. AtHand'
  BY <1>5, <1>6 DEF IInv, AtHand, At
<1>9. CASE n.pc # "insert"
  <2>1. Counted'
    BY <1>1, <1>2, <1>4, <1>5, <1>9, CountedKept DEF tables
  <2>2. FirstRowTells'
    BY <1>1 DEF IInv, FirstRowTells, tables
  <2>3. MayMove'
    <3> SUFFICES ASSUME NEW d \in Clients, d \notin raced', At(d, "update")'
                 PROVE  /\ ir_badges'[prog'[d].badge] # <<>>
                        /\ ~ir_badges'[prog'[d].badge][1].manual_override
      BY DEF MayMove
    <3>1. CASE d = c
      BY <1>1, <1>5, <1>6, <3>1 DEF At, tables
    <3>2. CASE d # c
      BY <1>1, <1>6, <3>2 DEF At, tables, IInv, MayMove
    <3> QED
      BY <3>1, <3>2
  <2> QED
    BY <1>7, <1>8, <2>1, <2>2, <2>3 DEF IInv
<1>10. CASE n.pc = "insert"
  <2>1. ASSUME NEW a \in Ids
        PROVE  Len(ir_badges'[a]) + Cardinality(Inserting(a)')
                 <= Cardinality(Clients) + fails'
    <3>1. /\ Inserting(a)' \in SUBSET Clients /\ Inserting(a) \in SUBSET Clients
          /\ Inserting(a)' \subseteq Inserting(a) \cup {c}
          /\ a # b => Inserting(a)' \subseteq Inserting(a)
      BY <1>5, <1>6, <1>10 DEF Inserting, At
    <3>2. /\ Cardinality(Inserting(a)') \in Nat
          /\ Cardinality(Inserting(a)) \in Nat /\ Cardinality(Clients) \in Nat
          /\ Cardinality(Inserting(a)') <= Cardinality(Clients)
      BY <3>1, CountTypes
    <3>3. Len(ir_badges[a]) \in Nat /\ fails \in Nat /\ ir_badges' = ir_badges
      BY <1>1 DEF IInv, TypeOK, tables
    <3>4. Len(ir_badges[a]) + Cardinality(Inserting(a))
            <= Cardinality(Clients) + fails
      BY DEF IInv, Counted
    <3>5. CASE a # b
      <4>1. Cardinality(Inserting(a)') <= Cardinality(Inserting(a))
        BY <3>1, <3>5, NoMore
      <4> QED
        BY <1>2, <3>2, <3>3, <3>4, <4>1
    <3>6. CASE ~ok
      <4>1. Cardinality(Inserting(a)') <= Cardinality(Inserting(a)) + 1
        BY <3>1, OneMore
      <4> QED
        BY <1>2, <3>2, <3>3, <3>4, <3>6, <4>1
    <3>7. CASE a = b /\ ok
      <4>1. Len(ir_badges[a]) = 0
        BY <1>5, <1>10, <3>7
      <4> QED
        BY <1>2, <3>2, <3>3, <3>7, <4>1
    <3> QED
      BY <3>5, <3>6, <3>7
  <2>2. ASSUME NEW m \in RoomNames
        PROVE  clients'[m] + Cardinality(Joining(m)')
                 <= Cardinality(Named(m)') + fails'
    <3>1. /\ Joining(m)' \in SUBSET Clients /\ Joining(m) \in SUBSET Clients
          /\ Named(m) \in SUBSET Clients /\ Named(m)' = Named(m)
          /\ Joining(m)' \subseteq Joining(m)
      BY <1>1, <1>5, <1>6 DEF Joining, Named, At
    <3>2. /\ Cardinality(Joining(m)') \in Nat /\ Cardinality(Joining(m)) \in Nat
          /\ Cardinality(Named(m)) \in Nat
      BY <3>1, CountTypes
    <3>3. clients[m] \in Nat /\ fails \in Nat /\ clients' = clients
      BY <1>1 DEF IInv, TypeOK, tables
    <3>4. clients[m] + Cardinality(Joining(m)) <= Cardinality(Named(m)) + fails
      BY DEF IInv, Counted
    <3>5. Cardinality(Joining(m)') <= Cardinality(Joining(m))
      BY <3>1, NoMore
    <3> QED
      BY <1>2, <3>1, <3>2, <3>3, <3>4, <3>5
  <2>3. Counted'
    BY <2>1, <2>2 DEF Counted
  <2>4. FirstRowTells'
    BY <1>1 DEF IInv, FirstRowTells, tables
  <2>5. MayMove'
    BY <1>1, <1>6, <1>10 DEF IInv, MayMove, At, tables
  <2> QED
    BY <1>7, <1>8, <2>3, <2>4, <2>5 DEF IInv
<1> QED
  BY <1>9, <1>10

-----------------------------------------------------------------------------
(* The rest of the house. *)

LEMMA EditIInv ==
  ASSUME IInv, NEW b \in Ids, NEW row \in Rows, Edit(b, row)
  PROVE  IInv'
<1> DEFINE all == [i \in DOMAIN ir_badges[b] |-> row]
<1>1. /\ edits' = edits + 1 /\ edits < MaxEdits
      /\ ir_badges' = [ir_badges EXCEPT ![b] = all]
      /\ raced' = raced \cup {c \in Clients : row.manual_override
                                /\ At(c, "update") /\ prog[c].badge = b}
      /\ UNCHANGED <<msRoomId, prog, serial, clients, priority, where,
                     moves, crashes, fails>>
  BY DEF Edit
<1>2. ir_badges \in [Ids -> Seq(Rows)] /\ ir_badges[b] \in Seq(Rows)
  BY DEF IInv, TypeOK
<1>3. /\ all \in Seq(Rows) /\ Len(all) = Len(ir_badges[b])
      /\ DOMAIN all = DOMAIN ir_badges[b]
      /\ \A i \in DOMAIN all : all[i] = row
  <2>1. all \in [1..Len(ir_badges[b]) -> Rows]
    BY <1>2
  <2> QED
    BY <1>2, <2>1
<1> HIDE DEF all
<1>4. /\ ir_badges' \in [Ids -> Seq(Rows)] /\ ir_badges'[b] = all
      /\ \A a \in Ids : a # b => ir_badges'[a] = ir_badges[a]
      /\ \A a \in Ids : Len(ir_badges'[a]) = Len(ir_badges[a])
  BY <1>1, <1>2, <1>3
<1>5. TypeOK'
  BY <1>1, <1>4, BadgesAssumption DEF IInv, TypeOK
<1>6. AtHand'
  BY <1>1 DEF IInv, AtHand, At
<1>7. Counted'
  <2>1. /\ \A a : Inserting(a)' = Inserting(a)
        /\ \A m : Joining(m)' = Joining(m) /\ Named(m)' = Named(m)
    BY <1>1 DEF Inserting, Joining, Named, At
  <2> QED
    BY <1>1, <1>4, <2>1 DEF IInv, Counted
<1>8. FirstRowTells'
  <2> SUFFICES ASSUME NEW a \in Ids, NEW i \in DOMAIN ir_badges'[a],
                      ir_badges'[a][i].manual_override
               PROVE  ir_badges'[a][1].manual_override
    BY DEF FirstRowTells
  <2>1. CASE a # b
    BY <1>4, <2>1 DEF IInv, FirstRowTells
  <2>2. CASE a = b
    <3>1. 1 \in DOMAIN all
      BY <1>3, <1>4, <2>2
    <3> QED
      BY <1>3, <1>4, <2>2, <3>1
  <2> QED
    BY <2>1, <2>2
<1>9. MayMove'
  <2> SUFFICES ASSUME NEW d \in Clients, d \notin raced', At(d, "update")'
               PROVE  /\ ir_badges'[prog'[d].badge] # <<>>
                      /\ ~ir_badges'[prog'[d].badge][1].manual_override
    BY DEF MayMove
  <2>1. prog' = prog /\ At(d, "update") /\ d \notin raced
    BY <1>1 DEF At
  <2>2. /\ prog[d].badge \in Ids /\ ir_badges[prog[d].badge] # <<>>
        /\ ~ir_badges[prog[d].badge][1].manual_override
    BY <2>1 DEF IInv, AtHand, MayMove
  <2>3. CASE prog[d].badge # b
    BY <1>4, <2>1, <2>2, <2>3
  <2>4. CASE prog[d].badge = b
    <3>1. ~row.manual_override
      BY <1>1, <2>1, <2>4
    <3>2. 1 \in DOMAIN all /\ all # <<>>
      BY <1>2, <1>3, <2>2, <2>4
    <3> QED
      BY <1>3, <1>4, <2>1, <2>4, <3>1, <3>2
  <2> QED
    BY <2>3, <2>4
<1> QED
  BY <1>5, <1>6, <1>7, <1>8, <1>9 DEF IInv

LEMMA CrashIInv ==
  ASSUME IInv, NEW c \in Clients, Crash(c) \/ Restart(c)
  PROVE  IInv'
<1>1. CASE Crash(c)
  <2>1. WorldTyped' /\ serial' \in [Clients -> SUBSET Bytes]
    BY <1>1, BadgesAssumption DEF Crash, IInv, TypeOK, WorldTyped
  <2> QED
    BY <1>1, <2>1, ProgramTypes, QuietIInv DEF Crash, IInv, TypeOK, tables
<1>2. CASE Restart(c)
  <2>1. WorldTyped'
    BY <1>2 DEF Restart, IInv, TypeOK, WorldTyped, world
  <2> QED
    BY <1>2, <2>1, ProgramTypes, QuietIInv DEF Restart, IInv, TypeOK, tables
<1> QED
  BY <1>1, <1>2

LEMMA BadgeIInv ==
  ASSUME IInv, NEW b \in Bytes,
         Emit(b) \/ \E to \in Places : Move(b, to)
  PROVE  IInv'
<1>1. CASE Emit(b)
  <2>1. WorldTyped'
    BY <1>1 DEF Emit, IInv, TypeOK, WorldTyped, world
  <2>2. serial' \in [Clients -> SUBSET Bytes]
    <3>1. PICK c \in where[b] :
            serial' = [serial EXCEPT ![c] = serial[c] \cup {b}]
      BY <1>1 DEF Emit
    <3> QED
      BY <3>1 DEF IInv, TypeOK
  <2> QED
    BY <1>1, <2>1, <2>2, HouseIInv DEF Emit
<1>2. CASE \E to \in Places : Move(b, to)
  <2>1. WorldTyped'
    BY <1>2, BadgesAssumption DEF Move, IInv, TypeOK, WorldTyped
  <2> QED
    BY <1>2, <2>1, HouseIInv DEF Move, IInv, TypeOK
<1> QED
  BY <1>1, <1>2

-----------------------------------------------------------------------------
LEMMA NextIInv == IInv /\ [Next]_vars => IInv'
<1> SUFFICES ASSUME IInv, [Next]_vars PROVE IInv'
  OBVIOUS
<1>1. ASSUME NEW c \in Clients, getBadgesIds(c) PROVE IInv'
  BY <1>1, GetBadgesIInv
<1>2. ASSUME NEW c \in Clients, NEW ok \in BOOLEAN,
             SelectClient(c, ok) \/ UpdateClient(c, ok) \/ InsertClient(c, ok)
      PROVE  IInv'
  BY <1>2, SelectClientIInv, UpdateClientIInv, InsertClientIInv
<1>3. ASSUME NEW c \in Clients, NEW b \in Ids, NEW ok \in BOOLEAN,
             SelectBadge(c, b, ok)
      PROVE  IInv'
  BY <1>3, SelectBadgeIInv
<1>4. ASSUME NEW c \in Clients, NEW ok \in BOOLEAN,
             UpdateBadge(c, ok) \/ InsertBadge(c, ok) \/ CallPriority(c, ok)
      PROVE  IInv'
  BY <1>4, UpdateBadgeIInv, InsertBadgeIInv, CallPriorityIInv
<1>5. ASSUME NEW c \in Clients, Crash(c) \/ Restart(c) PROVE IInv'
  BY <1>5, CrashIInv
<1>6. ASSUME NEW b \in Bytes, Emit(b) \/ \E to \in Places : Move(b, to)
      PROVE  IInv'
  BY <1>6, BadgeIInv
<1>7. ASSUME NEW b \in Ids, NEW row \in Rows, Edit(b, row) PROVE IInv'
  BY <1>7, EditIInv
<1>8. CASE UNCHANGED vars
  <2>1. WorldTyped' /\ serial' \in [Clients -> SUBSET Bytes]
    BY <1>8 DEF vars, world, IInv, TypeOK, WorldTyped
  <2> QED
    BY <1>8, <2>1, HouseIInv DEF vars
<1> QED
  BY <1>1, <1>2, <1>3, <1>4, <1>5, <1>6, <1>7, <1>8 DEF Next, Step

(* The invariant on which the theorems below rest. *)
THEOREM Invariance == Spec => []IInv
BY InitIInv, NextIInv, PTL DEF Spec

(* Every variable keeps its type, and only badges get past the port.       *)
THEOREM BadgesTypeCorrect == Spec => []TypeOK
<1>1. IInv => TypeOK
  BY DEF IInv
<1> QED
  BY <1>1, Invariance, PTL

(* badgesFound() and sendHB() look for a row and insert it later, but       *)
(* duplicates do not pile up: one row for each client, and one more for     *)
(* each query that failed.                                                  *)
THEOREM RowsStayFew == Spec => []RowsBounded
<1>1. IInv => RowsBounded
  <2> SUFFICES ASSUME IInv PROVE RowsBounded
    OBVIOUS
  <2>1. /\ \A b \in Ids : Len(ir_badges[b]) \in Nat
        /\ \A m \in RoomNames : clients[m] \in Nat
        /\ fails \in Nat
    BY DEF IInv, TypeOK
  <2>2. /\ \A b : Cardinality(Inserting(b)) \in Nat
        /\ \A m : Cardinality(Joining(m)) \in Nat /\ Cardinality(Named(m)) \in Nat
        /\ Cardinality(Clients) \in Nat
    BY Counters, CountTypes
  <2>3. \A b \in Ids : Len(ir_badges[b]) <= Cardinality(Clients) + fails
    BY <2>1, <2>2 DEF IInv, Counted
  <2>4. \A n \in RoomNames : clients[n] <= Cardinality(Named(n)) + fails
    BY <2>1, <2>2 DEF IInv, Counted
  <2> QED
    BY <2>3, <2>4 DEF RowsBounded
<1> QED
  BY <1>1, Invariance, PTL

(* Of the steps that change the rows of a badge, one is the person's own    *)
(* edit, one adds a row, and one is the update of a client that had read    *)
(* the row before the override was set.                                     *)
LEMMA OverrideStep ==
  ASSUME IInv, [Next]_vars, NEW b \in Ids, NEW i \in DOMAIN ir_badges[b],
         ir_badges[b][i].manual_override
  PROVE  \/ ir_badges'[b][i] = ir_badges[b][i]
         \/ edits' # edits
         \/ \E c \in raced \ raced' : prog[c].badge = b
<1>1. ir_badges \in [Ids -> Seq(Rows)] /\ edits \in Nat
  BY BadgesAssumption DEF IInv, TypeOK
<1>2. ASSUME NEW c \in Clients, NEW ok \in BOOLEAN, UpdateBadge(c, ok)
      PROVE  ir_badges'[b][i] = ir_badges[b][i]
             \/ \E d \in raced \ raced' : prog[d].badge = b
  <2>1. CASE ~ok \/ prog[c].badge # b
    BY <1>1, <1>2, <2>1 DEF UpdateBadge
  <2>2. CASE prog[c].badge = b
    <3>1. ir_badges[b][1].manual_override
      BY DEF IInv, FirstRowTells
    <3>2. c \in raced
      BY <1>2, <2>2, <3>1 DEF IInv, MayMove, UpdateBadge
    <3>3. c \notin raced'
      BY <1>2 DEF UpdateBadge
    <3> QED
      BY <2>2, <3>2, <3>3
  <2> QED
    BY <2>1, <2>2
<1>3. ASSUME NEW c \in Clients, NEW ok \in BOOLEAN, InsertBadge(c, ok)
      PROVE  ir_badges'[b][i] = ir_badges[b][i]
  <2> DEFINE a == prog[c].badge
             row == [client_name |-> msRoomId[c], manual_override |-> FALSE]
  <2>1. ir_badges' = ir_badges
        \/ ir_badges' = [ir_badges EXCEPT ![a] = Append(ir_badges[a], row)]
    BY <1>3 DEF InsertBadge
  <2>2. ir_badges[b] \in Seq(Rows)
    BY <1>1
  <2>3. Append(ir_badges[b], row)[i] = ir_badges[b][i]
    BY <2>2
  <2> HIDE DEF row
  <2> QED
    BY <1>1, <2>1, <2>3
<1>4. ASSUME NEW c \in Clients, NEW ok \in BOOLEAN,
             \/ SelectClient(c, ok) \/ UpdateClient(c, ok)
             \/ InsertClient(c, ok) \/ CallPriority(c, ok)
             \/ \E a \in Ids : SelectBadge(c, a, ok)
      PROVE  ir_badges' = ir_badges
  BY <1>4 DEF SelectClient, UpdateClient, InsertClient, CallPriority,
              SelectBadge, tables
<1>5. ASSUME NEW c \in Clients, getBadgesIds(c) \/ Crash(c) \/ Restart(c)
      PROVE  ir_badges' = ir_badges
  BY <1>5 DEF getBadgesIds, Crash, Restart, tables
<1>6. ASSUME NEW a \in Bytes, Emit(a) \/ \E to \in Places : Move(a, to)
      PROVE  ir_badges' = ir_badges
  BY <1>6 DEF Emit, Move, tables
<1>7. ASSUME NEW a \in Ids, NEW row \in Rows, Edit(a, row)
      PROVE  edits' # edits
  BY <1>1, <1>7 DEF Edit
<1>8. CASE UNCHANGED vars
  BY <1>8 DEF vars, tables
<1> QED
  BY <1>2, <1>3, <1>4, <1>5, <1>6, <1>7, <1>8 DEF Next, Step

(* A manual override is respected, however the clients interleave, but by   *)
(* those that had read the row before.                                      *)
THEOREM OverridesKept == Spec => OverrideKept
<1>1. IInv /\ [Next]_vars =>
        [\A b \in Ids : \A i \in DOMAIN ir_badges[b] :
           ir_badges[b][i].manual_override =>
             \/ ir_badges'[b][i] = ir_badges[b][i]
             \/ edits' # edits
             \/ \E c \in raced \ raced' : prog[c].badge = b]_vars
  BY OverrideStep
<1> QED
  BY <1>1, Invariance, PTL DEF Spec, OverrideKept

=============================================================================
