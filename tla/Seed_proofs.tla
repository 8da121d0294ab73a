------------------------------ MODULE Seed_proofs ------------------------------
(***************************************************************************)
(* Proofs about Seed, for any program of games, any number of runs, faults *)
(* and bookings: however often the tool has been interrupted, a run builds *)
(* on no row but its own.                                                  *)
(***************************************************************************)
EXTENDS Seed, FiniteSetTheorems, SequenceTheorems, TLAPS

LEMMA PhaseNames ==
  /\ Running = {"clear", "teams", "games", "seats", "tickets"}
  /\ DOMAIN Following = {"teams", "games", "seats"}
  /\ DOMAIN Filled = {"teams", "games", "seats", "tickets", "done"}
  /\ DOMAIN Empty = {"teams", "games", "seats", "tickets", "reservations"}
  /\ Following["teams"] = "games" /\ Following["games"] = "seats"
  /\ Following["seats"] = "tickets"
BY DEF Running, Following, Filled, Empty

(* How many rows each table has, phase by phase. *)
LEMMA InsertedValues ==
  /\ phase = "teams" => /\ Inserted("teams") = k
                        /\ Inserted("games") = 0 /\ Inserted("seats") = 0
  /\ phase = "games" => /\ Inserted("teams") = LoopLength["teams"]
                        /\ Inserted("games") = k /\ Inserted("seats") = 0
  /\ phase = "seats" => /\ Inserted("teams") = LoopLength["teams"]
                        /\ Inserted("games") = LoopLength["games"]
                        /\ Inserted("seats") = k
  /\ phase \in {"tickets", "done"} =>
       \A table \in {"teams", "games", "seats"} : Inserted(table) = LoopLength[table]
BY DEF Inserted, Filled

LEMMA KeysInitInv == Init => KeysInv
<1> SUFFICES ASSUME Init PROVE KeysInv
  OBVIOUS
<1>1. phase = "idle" /\ k = 0 /\ bookings = 0 /\ db = Empty
  BY DEF Init
<1>2. ReservationsExist
  BY <1>1 DEF ReservationsExist, Empty
<1> QED  BY <1>1, <1>2, PhaseNames DEF KeysInv

(* A step that leaves the rows alone and the tool outside its loops. *)
LEMMA OutsideInv ==
  ASSUME KeysInv, db' = db, bookings' = bookings, k' \in Nat,
         phase' \in {"clear", "failed"}
  PROVE  KeysInv'
<1>1. ReservationsExist'
  BY DEF KeysInv, ReservationsExist
<1> QED  BY <1>1, PhaseNames DEF KeysInv

Ids(S) == {row.id : row \in S}

FirstKeys(table, n) == {<<attempt, table, i>> : i \in 0 .. (n - 1)}

(* A table into which a loop has inserted its first k rows gets the next.  *)
LEMMA RowAdded ==
  ASSUME NEW table, NEW S, NEW n \in Nat, NEW row,
         IsFiniteSet(S), Cardinality(S) = n,
         Ids(S) = FirstKeys(table, n), row.id = <<attempt, table, n>>
  PROVE  /\ IsFiniteSet(S \cup {row}) /\ Cardinality(S \cup {row}) = n + 1
         /\ Ids(S \cup {row}) = FirstKeys(table, n + 1)
<1>1. row \notin S
  <2>1. SUFFICES ASSUME row \in S PROVE FALSE
    OBVIOUS
  <2>2. row.id \in FirstKeys(table, n)
    BY <2>1 DEF Ids
  <2>3. PICK i \in 0 .. (n - 1) : row.id = <<attempt, table, i>>
    BY <2>2 DEF FirstKeys
  <2> QED  BY <2>3
<1>2. IsFiniteSet(S \cup {row}) /\ Cardinality(S \cup {row}) = n + 1
  BY <1>1, FS_AddElement
<1>3. 0 .. ((n + 1) - 1) = (0 .. (n - 1)) \cup {n}
  OBVIOUS
<1>4. Ids(S \cup {row}) = Ids(S) \cup {row.id}
  BY DEF Ids
<1>5. FirstKeys(table, n + 1) = FirstKeys(table, n) \cup {<<attempt, table, n>>}
  BY <1>3 DEF FirstKeys
<1> QED  BY <1>2, <1>4, <1>5

(* INSERT adds one row, whether its answer arrives or not: the two tries   *)
(* have the same key.                                                      *)
LEMMA InsertResult ==
  ASSUME KeysInv, phase \in {"teams", "games", "seats", "tickets"},
         NEW n, NEW row, Insert(n, row)
  PROVE  /\ db' = [db EXCEPT ![phase] = @ \cup {[row EXCEPT !.id = RowId(n, 1)]}]
         /\ UNCHANGED <<attempt, bookings>>
         /\ Proceed \/ Stopped
<1>1. RowId(n, 1) = RowId(n, 2)
  BY DEF RowId
<1>2. {[row EXCEPT !.id = RowId(n, 1)], [row EXCEPT !.id = RowId(n, 2)]}
        = {[row EXCEPT !.id = RowId(n, 1)]}
  BY <1>1
<1> QED  BY <1>1, <1>2 DEF Insert

(* Wherever a row is added, reservations stay what tickets refer to. *)
LEMMA ReservationsStay ==
  ASSUME KeysInv, phase \in {"teams", "games", "seats", "tickets"}, NEW new,
         db' = [db EXCEPT ![phase] = @ \cup {new}], bookings' = bookings,
         phase = "tickets" => new.reservation = Nobody
  PROVE  ReservationsExist' /\ DOMAIN db' = DOMAIN Empty
<1>1. DOMAIN db = {"teams", "games", "seats", "tickets", "reservations"}
  BY PhaseNames DEF KeysInv
<1>2. /\ DOMAIN db' = DOMAIN db
      /\ db'.reservations = db.reservations
      /\ \A t \in db'.tickets : t \in db.tickets \/ t.reservation = Nobody
  BY <1>1
<1>3. db'.reservations \subseteq 1 .. bookings'
  BY <1>2 DEF KeysInv, ReservationsExist
<1> QED  BY <1>2, <1>3 DEF KeysInv, ReservationsExist

LEMMA StoppedInv ==
  ASSUME KeysInv, phase \in {"teams", "games", "seats", "tickets"}, NEW new,
         db' = [db EXCEPT ![phase] = @ \cup {new}], bookings' = bookings,
         phase = "tickets" => new.reservation = Nobody, Stopped
  PROVE  KeysInv'
<1>1. ReservationsExist' /\ DOMAIN db' = DOMAIN Empty
  BY ReservationsStay
<1> QED  BY <1>1, PhaseNames DEF KeysInv, Stopped

(* A loop goes on after the INSERT of a team, a game or a seat. *)
LEMMA LoopInv ==
  ASSUME KeysInv, phase \in {"teams", "games", "seats"}, NEW new,
         db' = [db EXCEPT ![phase] = @ \cup {new}],
         UNCHANGED <<attempt, bookings>>, Proceed,
         new.id = <<attempt, phase, k>>,
         phase = "games" => {new.home, new.away} \subseteq KeysOf("teams")
  PROVE  KeysInv'
<1>1. ReservationsExist' /\ DOMAIN db' = DOMAIN Empty
  BY ReservationsStay
<1>2. phase' = phase /\ k' = k + 1 /\ k \in Nat
  BY DEF Proceed, KeysInv
<1>3. RunsRows /\ TicketsToCome /\ db.tickets = {}
  BY PhaseNames DEF KeysInv, TicketsToCome
<1> PICK p \in {"teams", "games", "seats"} : p = phase
  OBVIOUS
<1>4. /\ db'[p] = db[p] \cup {new}
      /\ \A table \in {"teams", "games", "seats", "tickets"} \ {p} : db'[table] = db[table]
  BY PhaseNames DEF KeysInv
<1>5. Inserted(p) = k /\ Inserted(p)' = k + 1
  BY <1>2 DEF Inserted
<1>6. \A table \in {"teams", "games", "seats"} \ {p} : Inserted(table)' = Inserted(table)
  BY <1>2 DEF Inserted
<1>7. /\ KeysOf(p)' = {<<attempt', p, i>> : i \in 0 .. (Inserted(p)' - 1)}
      /\ IsFiniteSet(db'[p]) /\ Cardinality(db'[p]) = Inserted(p)'
  <2> DEFINE S == db[p]
  <2>1. IsFiniteSet(S) /\ Cardinality(S) = k /\ Ids(S) = FirstKeys(p, k)
    BY <1>3, <1>5, PhaseNames DEF RunsRows, KeysOf, Ids, FirstKeys
  <2> HIDE DEF S
  <2>2. new.id = <<attempt, p, k>>
    OBVIOUS
  <2>3. /\ IsFiniteSet(S \cup {new}) /\ Cardinality(S \cup {new}) = k + 1
        /\ Ids(S \cup {new}) = FirstKeys(p, k + 1)
    BY <2>1, <2>2, <1>2, RowAdded
  <2>4. KeysOf(p)' = Ids(S \cup {new})
    BY <1>4 DEF S, KeysOf, Ids
  <2>5. FirstKeys(p, k + 1) = {<<attempt', p, i>> : i \in 0 .. ((k + 1) - 1)}
    BY DEF FirstKeys
  <2> QED  BY <1>4, <1>5, <2>3, <2>4, <2>5 DEF S
<1>8. \A table \in {"teams", "games", "seats"} \ {p} :
        /\ KeysOf(table)' = KeysOf(table)
        /\ KeysOf(table)' = {<<attempt', table, i>> : i \in 0 .. (Inserted(table)' - 1)}
        /\ IsFiniteSet(db'[table]) /\ Cardinality(db'[table]) = Inserted(table)'
  BY <1>3, <1>4, <1>6, PhaseNames DEF RunsRows, KeysOf
<1>9. KeysOf("teams") \subseteq KeysOf("teams")'
  BY <1>4, <1>8 DEF KeysOf
<1>10. \A g \in db'.games : {g.home, g.away} \subseteq KeysOf("teams")'
  <2>1. \A g \in db'.games : g \in db.games \/ (phase = "games" /\ g = new)
    BY <1>4
  <2> QED  BY <1>3, <1>9, <2>1 DEF RunsRows
<1>11. db'.tickets = {}
  BY <1>3, <1>4
<1>12. RunsRows'
  <2>1. \A table \in {"teams", "games", "seats"} :
          /\ KeysOf(table)' = {<<attempt', table, i>> : i \in 0 .. (Inserted(table)' - 1)}
          /\ IsFiniteSet(db'[table]) /\ Cardinality(db'[table]) = Inserted(table)'
    <3> SUFFICES ASSUME NEW table \in {"teams", "games", "seats"}
                 PROVE  /\ KeysOf(table)' = {<<attempt', table, i>> : i \in 0 .. (Inserted(table)' - 1)}
                        /\ IsFiniteSet(db'[table]) /\ Cardinality(db'[table]) = Inserted(table)'
      OBVIOUS
    <3>1. CASE table = p   BY <3>1, <1>7
    <3>2. CASE table # p   BY <3>2, <1>8
    <3> QED  BY <3>1, <3>2
  <2> QED  BY <1>10, <1>11, <2>1, PhaseNames DEF RunsRows
<1>13. TicketsToCome'
  BY <1>2, <1>11, PhaseNames DEF TicketsToCome
<1> QED  BY <1>1, <1>2, <1>12, <1>13, PhaseNames DEF KeysInv

LEMMA SeedTeamInv == KeysInv /\ SeedTeam => KeysInv'
<1> SUFFICES ASSUME KeysInv, SeedTeam PROVE KeysInv'
  OBVIOUS
<1> DEFINE row == [id |-> 0, name |-> TeamNames[k + 1]]
           new == [row EXCEPT !.id = RowId(k, 1)]
<1>1. phase = "teams" /\ Insert(k, row)
  BY DEF SeedTeam
<1>2. new.id = <<attempt, phase, k>>
  BY DEF RowId
<1> HIDE DEF new
<1>3. /\ db' = [db EXCEPT ![phase] = @ \cup {new}]
      /\ UNCHANGED <<attempt, bookings>>
      /\ Proceed \/ Stopped
  BY <1>1, InsertResult DEF new
<1> QED  BY <1>1, <1>2, <1>3, LoopInv, StoppedInv

LEMMA SeedSeatInv == KeysInv /\ SeedSeat => KeysInv'
<1> SUFFICES ASSUME KeysInv, SeedSeat PROVE KeysInv'
  OBVIOUS
<1> DEFINE row == [id |-> 0, grade |-> SeatRows[k + 1]]
           new == [row EXCEPT !.id = RowId(k, 1)]
<1>1. phase = "seats" /\ Insert(k, row)
  BY DEF SeedSeat
<1>2. new.id = <<attempt, phase, k>>
  BY DEF RowId
<1> HIDE DEF new
<1>3. /\ db' = [db EXCEPT ![phase] = @ \cup {new}]
      /\ UNCHANGED <<attempt, bookings>>
      /\ Proceed \/ Stopped
  BY <1>1, InsertResult DEF new
<1> QED  BY <1>1, <1>2, <1>3, LoopInv, StoppedInv

(* The teams of a game are found by name among those of this run. *)
LEMMA SeedGameInv == KeysInv /\ SeedGame => KeysInv'
<1> SUFFICES ASSUME KeysInv, SeedGame PROVE KeysInv'
  OBVIOUS
<1>1. phase = "games"
  BY DEF SeedGame
<1>2. CASE Stopped /\ UNCHANGED <<db, attempt, faults, bookings>>
  BY <1>2, OutsideInv DEF Stopped
<1>3. CASE \E home \in getTeamIDByName(Fixtures[k + 1][1]),
              away \in getTeamIDByName(Fixtures[k + 1][2]) :
              Insert(k, [id |-> 0, home |-> home, away |-> away])
  <2>1. PICK home \in getTeamIDByName(Fixtures[k + 1][1]),
             away \in getTeamIDByName(Fixtures[k + 1][2]) :
             Insert(k, [id |-> 0, home |-> home, away |-> away])
    BY <1>3
  <2>2. home \in KeysOf("teams") /\ away \in KeysOf("teams")
    BY DEF getTeamIDByName, KeysOf
  <2> DEFINE row == [id |-> 0, home |-> home, away |-> away]
             new == [row EXCEPT !.id = RowId(k, 1)]
  <2>3. new.id = <<attempt, phase, k>> /\ new.home = home /\ new.away = away
    BY DEF RowId
  <2> HIDE DEF new
  <2>4. /\ db' = [db EXCEPT ![phase] = @ \cup {new}]
        /\ UNCHANGED <<attempt, bookings>>
        /\ Proceed \/ Stopped
    BY <1>1, <2>1, InsertResult DEF new
  <2> QED  BY <1>1, <2>2, <2>3, <2>4, LoopInv, StoppedInv
<1> QED  BY <1>2, <1>3 DEF SeedGame

(* TRUNCATE makes way for the rows of this run. *)
LEMMA ClearTablesInv == KeysInv /\ ClearTables => KeysInv'
<1> SUFFICES ASSUME KeysInv, ClearTables PROVE KeysInv'
  OBVIOUS
<1>1. db' = Empty /\ bookings' = bookings
  BY DEF ClearTables, Truncated
<1>2. ReservationsExist' /\ DOMAIN db' = DOMAIN Empty
  BY <1>1 DEF ReservationsExist, Empty
<1>3. CASE Stopped
  BY <1>1, <1>2, <1>3, PhaseNames DEF KeysInv, Stopped
<1>4. CASE phase' = "teams" /\ k' = 0
  <2>1. \A table \in {"teams", "games", "seats", "tickets"} : db'[table] = {}
    BY <1>1 DEF Empty
  <2>2. \A table \in {"teams", "games", "seats"} : Inserted(table)' = 0
    BY <1>4 DEF Inserted, Filled
  <2>3. IsFiniteSet({}) /\ Cardinality({}) = 0
    BY FS_EmptySet
  <2>4. \A table \in {"teams", "games", "seats"} :
          /\ KeysOf(table)' = {<<attempt', table, i>> : i \in 0 .. (Inserted(table)' - 1)}
          /\ IsFiniteSet(db'[table]) /\ Cardinality(db'[table]) = Inserted(table)'
    <3> SUFFICES ASSUME NEW table \in {"teams", "games", "seats"}
                 PROVE  /\ KeysOf(table)' = {<<attempt', table, i>> : i \in 0 .. (Inserted(table)' - 1)}
                        /\ IsFiniteSet(db'[table]) /\ Cardinality(db'[table]) = Inserted(table)'
      OBVIOUS
    <3>1. 0 .. (Inserted(table)' - 1) = {}
      BY <2>2
    <3>2. KeysOf(table)' = {}
      BY <2>1 DEF KeysOf
    <3> QED  BY <2>1, <2>2, <2>3, <3>1, <3>2
  <2>5. db'.games = {} /\ db'.tickets = {}
    BY <2>1
  <2>6. RunsRows'
    BY <2>4, <2>5, PhaseNames DEF RunsRows
  <2>7. TicketsToCome'
    BY <1>4, <2>5 DEF TicketsToCome
  <2> QED  BY <1>2, <1>4, <2>6, <2>7, PhaseNames DEF ClearTables, KeysInv
<1> QED  BY <1>3, <1>4 DEF ClearTables

(* What an unchanged database and equal counts leave true. *)
LEMMA SameRows ==
  ASSUME RunsRows, db' = db, attempt' = attempt,
         \A table \in {"teams", "games", "seats"} : Inserted(table)' = Inserted(table)
  PROVE  RunsRows' /\ \A table \in {"teams", "games", "seats"} : KeysOf(table)' = KeysOf(table)
<1>1. \A table \in {"teams", "games", "seats"} : KeysOf(table)' = KeysOf(table)
  BY DEF KeysOf
<1> QED  BY <1>1, PhaseNames DEF RunsRows

LEMMA EndLoopInv == KeysInv /\ EndLoop => KeysInv'
<1> SUFFICES ASSUME KeysInv, EndLoop PROVE KeysInv'
  OBVIOUS
<1>1. /\ phase \in {"teams", "games", "seats"} /\ k = LoopLength[phase]
      /\ phase' = Following[phase] /\ k' = 0
      /\ UNCHANGED <<db, attempt, bookings>>
  BY PhaseNames DEF EndLoop
<1>2. RunsRows /\ TicketsToCome /\ ReservationsExist /\ db.tickets = {}
  BY <1>1, PhaseNames DEF KeysInv, TicketsToCome
<1>3. \A table \in {"teams", "games", "seats"} : Inserted(table)' = Inserted(table)
  BY <1>1, PhaseNames DEF Inserted, Filled
<1>4. RunsRows' /\ \A table \in {"teams", "games", "seats"} : KeysOf(table)' = KeysOf(table)
  BY <1>1, <1>2, <1>3, SameRows
<1>5. TicketsToCome'
  <2>1. CASE phase' = "tickets"
    <3>1. todo' = KeysOf("games") \X KeysOf("seats")
      BY <2>1 DEF EndLoop, KeysOf
    <3> QED  BY <1>1, <1>2, <1>4, <2>1, <3>1, PhaseNames DEF TicketsToCome
  <2>2. CASE phase' # "tickets"
    BY <1>1, <1>2, <2>2 DEF TicketsToCome
  <2> QED  BY <2>1, <2>2
<1>6. ReservationsExist'
  BY <1>1, <1>2 DEF ReservationsExist
<1> QED  BY <1>1, <1>4, <1>5, <1>6, PhaseNames DEF KeysInv

(* One ticket more, for a seat of a game that has none. *)
LEMMA SeedTicketInv == KeysInv /\ SeedTicket => KeysInv'
<1> SUFFICES ASSUME KeysInv, SeedTicket PROVE KeysInv'
  OBVIOUS
<1>1. /\ phase = "tickets" /\ RunsRows
      /\ todo \subseteq KeysOf("games") \X KeysOf("seats")
      /\ \A g \in KeysOf("games"), s \in KeysOf("seats") :
           <<g, s>> \in todo <=> ~\E t \in db.tickets : t.game = g /\ t.seat = s
  BY PhaseNames DEF SeedTicket, KeysInv, TicketsToCome
<1>2. PICK pair \in todo :
        /\ IF \E t \in db.tickets : t.game = pair[1] /\ t.seat = pair[2]
           THEN Stopped /\ UNCHANGED <<db, attempt, faults, bookings>>
           ELSE Insert(pair, [id |-> 0, game |-> pair[1], seat |-> pair[2],
                              reservation |-> Nobody])
        /\ todo' = todo \ {pair}
  BY DEF SeedTicket
<1>3. CASE Stopped /\ UNCHANGED <<db, attempt, faults, bookings>>
  BY <1>3, OutsideInv DEF Stopped
<1>4. CASE Insert(pair, [id |-> 0, game |-> pair[1], seat |-> pair[2], reservation |-> Nobody])
  <2> DEFINE row == [id |-> 0, game |-> pair[1], seat |-> pair[2], reservation |-> Nobody]
             new == [row EXCEPT !.id = RowId(pair, 1)]
  <2>1. new.game = pair[1] /\ new.seat = pair[2] /\ new.reservation = Nobody
    OBVIOUS
  <2> HIDE DEF new
  <2>2. /\ db' = [db EXCEPT ![phase] = @ \cup {new}]
        /\ UNCHANGED <<attempt, bookings>>
        /\ Proceed \/ Stopped
    BY <1>1, <1>4, InsertResult DEF new
  <2>3. CASE Stopped
    BY <1>1, <2>1, <2>2, <2>3, StoppedInv
  <2>4. CASE Proceed
    <3>1. ReservationsExist' /\ DOMAIN db' = DOMAIN Empty
      BY <1>1, <2>1, <2>2, ReservationsStay
    <3>2. phase' = "tickets" /\ k' \in Nat /\ bookings' \in Nat
      BY <1>1, <2>2, <2>4 DEF Proceed, KeysInv
    <3>3. /\ db'.tickets = db.tickets \cup {new}
          /\ \A table \in {"teams", "games", "seats"} : db'[table] = db[table]
      BY <1>1, <2>2, PhaseNames DEF KeysInv
    <3>4. /\ \A table \in {"teams", "games", "seats"} : KeysOf(table)' = KeysOf(table)
          /\ \A table \in {"teams", "games", "seats"} : Inserted(table)' = Inserted(table)
      BY <1>1, <3>2, <3>3, InsertedValues DEF KeysOf, Inserted
    <3>5. pair[1] \in KeysOf("games") /\ pair[2] \in KeysOf("seats") /\ pair = <<pair[1], pair[2]>>
      BY <1>1
    <3>6. RunsRows'
      <4>1. \A table \in {"teams", "games", "seats"} :
              /\ KeysOf(table)' = {<<attempt', table, i>> : i \in 0 .. (Inserted(table)' - 1)}
              /\ IsFiniteSet(db'[table]) /\ Cardinality(db'[table]) = Inserted(table)'
        BY <1>1, <2>2, <3>3, <3>4, PhaseNames DEF RunsRows
      <4>2. \A g \in db'.games : {g.home, g.away} \subseteq KeysOf("teams")'
        BY <1>1, <3>3, <3>4 DEF RunsRows
      <4>3. \A t \in db'.tickets : t.game \in KeysOf("games")' /\ t.seat \in KeysOf("seats")'
        BY <1>1, <2>1, <3>3, <3>4, <3>5 DEF RunsRows
      <4> QED  BY <4>1, <4>2, <4>3, PhaseNames DEF RunsRows
    <3>7. TicketsToCome'
      <4>1. todo' = todo \ {pair}
        BY <1>2
      <4>2. ASSUME NEW g \in KeysOf("games"), NEW s \in KeysOf("seats")
            PROVE  <<g, s>> \in todo' <=> ~\E t \in db'.tickets : t.game = g /\ t.seat = s
        <5>1. CASE <<g, s>> = pair
          BY <2>1, <3>3, <4>1, <5>1
        <5>2. CASE <<g, s>> # pair
          <6>1. ~(new.game = g /\ new.seat = s)
            BY <2>1, <3>5, <5>2
          <6> QED  BY <1>1, <3>3, <4>1, <5>2, <6>1
        <5> QED  BY <5>1, <5>2
      <4> QED  BY <1>1, <3>2, <3>4, <4>1, <4>2, PhaseNames DEF TicketsToCome
    <3> QED  BY <3>1, <3>2, <3>6, <3>7, PhaseNames DEF KeysInv
  <2> QED  BY <2>2, <2>3, <2>4
<1> QED  BY <1>2, <1>3, <1>4

LEMMA FinishInv == KeysInv /\ Finish => KeysInv'
<1> SUFFICES ASSUME KeysInv, Finish PROVE KeysInv'
  OBVIOUS
<1>1. phase = "tickets" /\ phase' = "done" /\ k' = 0 /\ UNCHANGED <<db, attempt, bookings>>
  BY DEF Finish
<1>2. RunsRows /\ ReservationsExist
  BY <1>1, PhaseNames DEF KeysInv
<1>3. \A table \in {"teams", "games", "seats"} : Inserted(table)' = Inserted(table)
  BY <1>1 DEF Inserted, Filled
<1>4. RunsRows'
  BY <1>1, <1>2, <1>3, SameRows
<1>5. TicketsToCome'
  BY <1>1, PhaseNames DEF TicketsToCome
<1>6. ReservationsExist'
  BY <1>1, <1>2 DEF ReservationsExist
<1> QED  BY <1>1, <1>4, <1>5, <1>6, PhaseNames DEF KeysInv

(* A booking changes who has a ticket, and nothing that the tool reads. *)
LEMMA BookInv == KeysInv /\ Book => KeysInv'
<1> SUFFICES ASSUME KeysInv, Book PROVE KeysInv'
  OBVIOUS
<1>1. PICK t \in db.tickets :
        /\ t.reservation = Nobody
        /\ db' = [db EXCEPT
                    !.tickets = (@ \ {t}) \cup {[t EXCEPT !.reservation = bookings + 1]},
                    !.reservations = @ \cup {bookings + 1}]
  BY DEF Book
<1> DEFINE sold == [t EXCEPT !.reservation = bookings + 1]
<1>2. /\ bookings' = bookings + 1 /\ bookings \in Nat
      /\ UNCHANGED <<phase, k, todo, attempt>>
      /\ DOMAIN db = {"teams", "games", "seats", "tickets", "reservations"}
  BY PhaseNames DEF Book, KeysInv
<1>3. sold.game = t.game /\ sold.seat = t.seat /\ sold.reservation \in {Nobody, bookings + 1}
  BY <1>1
<1> HIDE DEF sold
<1>4. /\ DOMAIN db' = DOMAIN Empty
      /\ db'.tickets = (db.tickets \ {t}) \cup {sold}
      /\ db'.reservations = db.reservations \cup {bookings + 1}
      /\ \A table \in {"teams", "games", "seats"} : db'[table] = db[table]
  BY <1>1, <1>2, PhaseNames DEF sold
<1>5. ReservationsExist'
  BY <1>2, <1>3, <1>4 DEF KeysInv, ReservationsExist
<1>6. ASSUME phase \in DOMAIN Filled
      PROVE  RunsRows' /\ TicketsToCome'
  <2>1. RunsRows /\ TicketsToCome
    BY <1>6 DEF KeysInv
  <2>2. /\ \A table \in {"teams", "games", "seats"} : KeysOf(table)' = KeysOf(table)
        /\ \A table \in {"teams", "games", "seats"} : Inserted(table)' = Inserted(table)
    BY <1>2, <1>4 DEF KeysOf, Inserted
  <2>3. RunsRows'
    <3>1. \A table \in {"teams", "games", "seats"} :
            /\ KeysOf(table)' = {<<attempt', table, i>> : i \in 0 .. (Inserted(table)' - 1)}
            /\ IsFiniteSet(db'[table]) /\ Cardinality(db'[table]) = Inserted(table)'
      BY <1>2, <1>4, <2>1, <2>2, PhaseNames DEF RunsRows
    <3>2. \A g \in db'.games : {g.home, g.away} \subseteq KeysOf("teams")'
      BY <1>4, <2>1, <2>2 DEF RunsRows
    <3>3. \A u \in db'.tickets : u.game \in KeysOf("games")' /\ u.seat \in KeysOf("seats")'
      BY <1>1, <1>3, <1>4, <2>1, <2>2 DEF RunsRows
    <3> QED  BY <3>1, <3>2, <3>3, PhaseNames DEF RunsRows
  <2>4. TicketsToCome'
    <3>1. phase \notin DOMAIN Following
      BY <1>1, <2>1 DEF TicketsToCome
    <3>2. \A g, s : (\E u \in db'.tickets : u.game = g /\ u.seat = s)
                       <=> (\E u \in db.tickets : u.game = g /\ u.seat = s)
      BY <1>1, <1>3, <1>4
    <3> QED  BY <1>2, <2>1, <2>2, <3>1, <3>2 DEF TicketsToCome
  <2> QED  BY <2>3, <2>4
<1>7. k' \in Nat /\ bookings' \in Nat /\ phase' \in Running \cup {"idle", "failed", "done"}
  BY <1>2 DEF KeysInv
<1>8. phase' \in DOMAIN Filled => RunsRows' /\ TicketsToCome'
  BY <1>2, <1>6
<1> QED  BY <1>4, <1>5, <1>7, <1>8 DEF KeysInv

LEMMA KeysStutterInv == KeysInv /\ UNCHANGED vars => KeysInv'
<1> SUFFICES ASSUME KeysInv, UNCHANGED vars PROVE KeysInv'
  OBVIOUS
<1>1. UNCHANGED <<db, phase, k, todo, attempt, bookings>>
  BY DEF vars
<1>2. ReservationsExist'
  BY <1>1 DEF KeysInv, ReservationsExist
<1>3. ASSUME phase \in DOMAIN Filled
      PROVE  RunsRows' /\ TicketsToCome'
  <2>1. RunsRows /\ TicketsToCome
    BY <1>3 DEF KeysInv
  <2>2. \A table \in {"teams", "games", "seats"} : Inserted(table)' = Inserted(table)
    BY <1>1 DEF Inserted
  <2>3. RunsRows' /\ \A table \in {"teams", "games", "seats"} : KeysOf(table)' = KeysOf(table)
    BY <1>1, <2>1, <2>2, SameRows
  <2>4. TicketsToCome'
    BY <1>1, <2>1, <2>3 DEF TicketsToCome
  <2> QED  BY <2>3, <2>4
<1> QED  BY <1>1, <1>2, <1>3 DEF KeysInv

LEMMA KeysNextInv == KeysInv /\ [Next]_vars => KeysInv'
<1> SUFFICES ASSUME KeysInv, [Next]_vars PROVE KeysInv'
  OBVIOUS
<1>1. CASE ClearTables     BY <1>1, ClearTablesInv
<1>2. CASE SeedTeam        BY <1>2, SeedTeamInv
<1>3. CASE SeedGame        BY <1>3, SeedGameInv
<1>4. CASE SeedSeat        BY <1>4, SeedSeatInv
<1>5. CASE EndLoop         BY <1>5, EndLoopInv
<1>6. CASE SeedTicket      BY <1>6, SeedTicketInv
<1>7. CASE Finish          BY <1>7, FinishInv
<1>8. CASE Start           BY <1>8, OutsideInv DEF Start, KeysInv
<1>9. CASE Fail            BY <1>9, OutsideInv DEF Fail, Stopped
<1>10. CASE Book           BY <1>10, BookInv
<1>11. CASE UNCHANGED vars BY <1>11, KeysStutterInv
<1> QED  BY <1>1, <1>2, <1>3, <1>4, <1>5, <1>6, <1>7, <1>8, <1>9, <1>10, <1>11 DEF Next, run

-----------------------------------------------------------------------------
(* What the rows say *)

(* The tables that the later loops fill are still empty. *)
LEMMA LaterTablesEmpty ==
  ASSUME KeysInv
  PROVE  /\ phase = "teams" => db.games = {} /\ db.seats = {} /\ db.tickets = {}
         /\ phase = "games" => db.seats = {} /\ db.tickets = {}
         /\ phase = "seats" => db.tickets = {}
<1>1. ASSUME NEW table \in {"games", "seats"}, phase \in DOMAIN Filled, Inserted(table) = 0
      PROVE  db[table] = {}
  <2>1. IsFiniteSet(db[table]) /\ Cardinality(db[table]) = 0
    BY <1>1, PhaseNames DEF KeysInv, RunsRows
  <2> QED  BY <2>1, FS_EmptySet
<1>2. phase \in {"teams", "games", "seats"} => db.tickets = {}
  BY PhaseNames DEF KeysInv, TicketsToCome
<1> QED  BY <1>1, <1>2, InsertedValues, PhaseNames

(* The key of the loop's next row is new. *)
LEMMA NextKeyFree ==
  ASSUME KeysInv, phase \in {"teams", "games", "seats"}
  PROVE  /\ <<attempt, phase, k>> \notin KeysOf(phase)
         /\ \A x \in db[phase] : x.id # <<attempt, phase, k>>
<1>1. PICK p \in {"teams", "games", "seats"} : p = phase
  OBVIOUS
<1>2. Inserted(p) = k /\ k \in Nat
  BY <1>1 DEF Inserted, KeysInv
<1>3. KeysOf(p) = {<<attempt, p, i>> : i \in 0 .. (k - 1)}
  BY <1>1, <1>2, PhaseNames DEF KeysInv, RunsRows
<1>4. <<attempt, p, k>> \notin KeysOf(p)
  BY <1>2, <1>3
<1>5. \A x \in db[p] : x.id \in KeysOf(p)
  BY DEF KeysOf
<1> QED  BY <1>1, <1>4, <1>5

LEMMA SeedTeamRows ==
  ASSUME KeysInv, ProgramRows, SeedTeam
  PROVE  phase' \in DOMAIN Filled => ProgramRows'
<1> SUFFICES ASSUME phase' \in DOMAIN Filled PROVE ProgramRows'
  OBVIOUS
<1> DEFINE row == [id |-> 0, name |-> TeamNames[k + 1]]
           new == [row EXCEPT !.id = RowId(k, 1)]
<1>1. phase = "teams" /\ Insert(k, row) /\ k \in Nat
  BY DEF SeedTeam, KeysInv
<1>2. new.id = <<attempt, "teams", k>> /\ new.name = TeamNames[k + 1]
  BY <1>1 DEF RowId
<1>3. db' = [db EXCEPT !["teams"] = @ \cup {new}]
  BY <1>1, InsertResult
<1> HIDE DEF row, new
<1>4. /\ db'.teams = db.teams \cup {new} /\ db'.games = {} /\ db'.seats = {}
      /\ db'.tickets = {}
  BY <1>1, <1>3, LaterTablesEmpty, PhaseNames DEF KeysInv
<1>5. \A x \in db.teams : x.id # new.id
  BY <1>1, <1>2, NextKeyFree
<1>6. \A x, y \in db.teams : x.id = y.id => x = y
  BY PhaseNames DEF ProgramRows
<1>7. \A x, y \in db'.teams : x.id = y.id => x = y
  BY <1>4, <1>5, <1>6
<1>8. \A t \in db'.teams : t.name = TeamNames[t.id[3] + 1]
  BY <1>2, <1>4 DEF ProgramRows
<1> QED  BY <1>4, <1>7, <1>8, PhaseNames DEF ProgramRows

LEMMA SeedSeatRows ==
  ASSUME KeysInv, ProgramRows, SeedSeat
  PROVE  phase' \in DOMAIN Filled => ProgramRows'
<1> SUFFICES ASSUME phase' \in DOMAIN Filled PROVE ProgramRows'
  OBVIOUS
<1> DEFINE row == [id |-> 0, grade |-> SeatRows[k + 1]]
           new == [row EXCEPT !.id = RowId(k, 1)]
<1>1. phase = "seats" /\ Insert(k, row) /\ k \in Nat
  BY DEF SeedSeat, KeysInv
<1>2. new.id = <<attempt, "seats", k>> /\ new.grade = SeatRows[k + 1]
  BY <1>1 DEF RowId
<1>3. db' = [db EXCEPT !["seats"] = @ \cup {new}]
  BY <1>1, InsertResult
<1> HIDE DEF row, new
<1>4. /\ db'.seats = db.seats \cup {new} /\ db'.teams = db.teams /\ db'.games = db.games
      /\ db'.tickets = {}
  BY <1>1, <1>3, LaterTablesEmpty, PhaseNames DEF KeysInv
<1>5. \A x \in db.seats : x.id # new.id
  BY <1>1, <1>2, NextKeyFree
<1>6. \A table \in {"teams", "games", "seats"} : \A x, y \in db[table] : x.id = y.id => x = y
  BY PhaseNames DEF ProgramRows
<1>7. \A table \in {"teams", "games", "seats"} : \A x, y \in db'[table] : x.id = y.id => x = y
  BY <1>4, <1>5, <1>6
<1>8. \A t \in db'.seats : t.grade = SeatRows[t.id[3] + 1]
  BY <1>2, <1>4 DEF ProgramRows
<1> QED  BY <1>4, <1>7, <1>8, PhaseNames DEF ProgramRows

(* The names are looked up, so the game gets the teams of its fixture. *)
LEMMA SeedGameRows ==
  ASSUME KeysInv, ProgramRows, SeedGame
  PROVE  phase' \in DOMAIN Filled => ProgramRows'
<1> SUFFICES ASSUME phase' \in DOMAIN Filled PROVE ProgramRows'
  OBVIOUS
<1>1. phase = "games" /\ k \in Nat /\ k < Len(Fixtures)
  BY DEF SeedGame, LoopLength, KeysInv
<1>2. ~Stopped
  BY PhaseNames DEF Stopped
<1>3. PICK home \in getTeamIDByName(Fixtures[k + 1][1]),
           away \in getTeamIDByName(Fixtures[k + 1][2]) :
           Insert(k, [id |-> 0, home |-> home, away |-> away])
  BY <1>2 DEF SeedGame
<1> DEFINE row == [id |-> 0, home |-> home, away |-> away]
           new == [row EXCEPT !.id = RowId(k, 1)]
<1>4. new.id = <<attempt, "games", k>> /\ new.home = home /\ new.away = away
  BY <1>1 DEF RowId
<1>5. db' = [db EXCEPT !["games"] = @ \cup {new}]
  BY <1>1, <1>3, InsertResult
<1> HIDE DEF row, new
<1>6. /\ db'.games = db.games \cup {new} /\ db'.teams = db.teams /\ db'.seats = {}
      /\ db'.tickets = {}
  BY <1>1, <1>5, LaterTablesEmpty, PhaseNames DEF KeysInv
<1>7. \E h, a \in db.teams :
        h.id = new.home /\ a.id = new.away /\ Fixtures[new.id[3] + 1] = <<h.name, a.name>>
  <2>1. Fixtures[k + 1] = <<Fixtures[k + 1][1], Fixtures[k + 1][2]>>
    BY <1>1, ProgramAssumption
  <2>2. PICK h \in db.teams : h.id = home /\ h.name = Fixtures[k + 1][1]
    BY DEF getTeamIDByName
  <2>3. PICK a \in db.teams : a.id = away /\ a.name = Fixtures[k + 1][2]
    BY DEF getTeamIDByName
  <2> QED  BY <1>4, <2>1, <2>2, <2>3
<1>8. \A x \in db.games : x.id # new.id
  BY <1>1, <1>4, NextKeyFree
<1>9. \A table \in {"teams", "games", "seats"} : \A x, y \in db[table] : x.id = y.id => x = y
  BY PhaseNames DEF ProgramRows
<1>10. \A table \in {"teams", "games", "seats"} : \A x, y \in db'[table] : x.id = y.id => x = y
  BY <1>6, <1>8, <1>9
<1>11. \A g \in db'.games :
         \E h, a \in db'.teams :
           h.id = g.home /\ a.id = g.away /\ Fixtures[g.id[3] + 1] = <<h.name, a.name>>
  <2>1. \A g \in db.games :
          \E h, a \in db.teams :
            h.id = g.home /\ a.id = g.away /\ Fixtures[g.id[3] + 1] = <<h.name, a.name>>
    BY DEF ProgramRows
  <2>2. db'.teams = db.teams /\ \A g \in db'.games : g \in db.games \/ g = new
    BY <1>6
  <2> QED  BY <1>7, <2>1, <2>2
<1> QED  BY <1>6, <1>10, <1>11, PhaseNames DEF ProgramRows

(* Only a pair without a ticket gets one. *)
LEMMA SeedTicketRows ==
  ASSUME KeysInv, ProgramRows, SeedTicket
  PROVE  phase' \in DOMAIN Filled => ProgramRows' /\ phase' # "done"
<1> SUFFICES ASSUME phase' \in DOMAIN Filled PROVE ProgramRows' /\ phase' # "done"
  OBVIOUS
<1>1. phase = "tickets" /\ ~Stopped
  BY PhaseNames DEF SeedTicket, Stopped
<1>2. PICK pair \in todo :
        /\ ~\E t \in db.tickets : t.game = pair[1] /\ t.seat = pair[2]
        /\ Insert(pair, [id |-> 0, game |-> pair[1], seat |-> pair[2],
                         reservation |-> Nobody])
  BY <1>1 DEF SeedTicket
<1> DEFINE row == [id |-> 0, game |-> pair[1], seat |-> pair[2], reservation |-> Nobody]
           new == [row EXCEPT !.id = RowId(pair, 1)]
<1>3. new.game = pair[1] /\ new.seat = pair[2]
  OBVIOUS
<1>4. db' = [db EXCEPT !["tickets"] = @ \cup {new}] /\ Proceed
  BY <1>1, <1>2, InsertResult
<1> HIDE DEF row, new
<1>5. /\ db'.tickets = db.tickets \cup {new} /\ db'.teams = db.teams /\ db'.games = db.games
      /\ db'.seats = db.seats
  BY <1>4, PhaseNames DEF KeysInv
<1>6. \A t, u \in db'.tickets : t.game = u.game /\ t.seat = u.seat => t = u
  BY <1>2, <1>3, <1>5 DEF ProgramRows
<1>7. \A table \in {"teams", "games", "seats"} : db'[table] = db[table]
  BY <1>5
<1>8. ProgramRows'
  BY <1>5, <1>6, <1>7, PhaseNames DEF ProgramRows
<1> QED  BY <1>1, <1>4, <1>8 DEF Proceed

LEMMA BookRows ==
  ASSUME KeysInv, ProgramRows, Book
  PROVE  ProgramRows' /\ (AllTicketed => AllTicketed')
<1>1. PICK t \in db.tickets :
        db' = [db EXCEPT
                 !.tickets = (@ \ {t}) \cup {[t EXCEPT !.reservation = bookings + 1]},
                 !.reservations = @ \cup {bookings + 1}]
  BY DEF Book
<1> DEFINE sold == [t EXCEPT !.reservation = bookings + 1]
<1>2. sold.game = t.game /\ sold.seat = t.seat
  OBVIOUS
<1> HIDE DEF sold
<1>3. /\ db'.tickets = (db.tickets \ {t}) \cup {sold}
      /\ \A table \in {"teams", "games", "seats"} : db'[table] = db[table]
  BY <1>1, PhaseNames DEF KeysInv, sold
<1>4. \A u, v \in db'.tickets : u.game = v.game /\ u.seat = v.seat => u = v
  BY <1>2, <1>3 DEF ProgramRows
<1>5. ProgramRows'
  <2>1. db'.teams = db.teams /\ db'.games = db.games /\ db'.seats = db.seats
    BY <1>3
  <2>2. \A table \in {"teams", "games", "seats"} : \A x, y \in db'[table] : x.id = y.id => x = y
    BY <1>3, PhaseNames DEF ProgramRows
  <2>3. /\ \A u \in db'.teams : u.name = TeamNames[u.id[3] + 1]
        /\ \A u \in db'.seats : u.grade = SeatRows[u.id[3] + 1]
        /\ \A g \in db'.games :
             \E h, a \in db'.teams :
               h.id = g.home /\ a.id = g.away /\ Fixtures[g.id[3] + 1] = <<h.name, a.name>>
    <3>1. /\ \A u \in db.teams : u.name = TeamNames[u.id[3] + 1]
          /\ \A u \in db.seats : u.grade = SeatRows[u.id[3] + 1]
      BY DEF ProgramRows
    <3>2. \A g \in db.games :
            \E h, a \in db.teams :
              h.id = g.home /\ a.id = g.away /\ Fixtures[g.id[3] + 1] = <<h.name, a.name>>
      BY DEF ProgramRows
    <3> QED  BY <2>1, <3>1, <3>2
  <2> QED  BY <1>4, <2>2, <2>3, PhaseNames DEF ProgramRows
<1>6. \A g, s : (\E u \in db.tickets : u.game = g /\ u.seat = s)
                  => (\E u \in db'.tickets : u.game = g /\ u.seat = s)
  BY <1>2, <1>3
<1>7. KeysOf("games")' = KeysOf("games") /\ KeysOf("seats")' = KeysOf("seats")
  BY <1>3 DEF KeysOf
<1> QED  BY <1>5, <1>6, <1>7 DEF AllTicketed

(* The rows stay the same. *)
LEMMA SameProgram ==
  ASSUME db' = db
  PROVE  ProgramRows' = ProgramRows /\ AllTicketed' = AllTicketed
<1>1. KeysOf("games")' = KeysOf("games") /\ KeysOf("seats")' = KeysOf("seats")
  BY DEF KeysOf
<1> QED  BY <1>1 DEF ProgramRows, AllTicketed

LEMMA SeedInitInv == Init => SeedInv
  BY KeysInitInv, PhaseNames DEF SeedInv, Init

LEMMA SeedNextInv == SeedInv /\ [Next]_vars => SeedInv'
<1> SUFFICES ASSUME SeedInv, [Next]_vars PROVE SeedInv'
  OBVIOUS
<1>0. KeysInv /\ KeysInv'
  BY KeysNextInv DEF SeedInv
<1>1. ASSUME phase' \notin DOMAIN Filled PROVE SeedInv'
  BY <1>0, <1>1, PhaseNames DEF SeedInv
<1>2. CASE ClearTables
  <2>1. phase' = "teams" \/ phase' = "failed"
    BY <1>2 DEF ClearTables, Stopped
  <2>2. \A table \in {"teams", "games", "seats", "tickets"} : db'[table] = {}
    BY <1>2 DEF ClearTables, Truncated, Empty
  <2>3. ProgramRows'
    BY <2>2, PhaseNames DEF ProgramRows
  <2> QED  BY <1>0, <2>1, <2>3 DEF SeedInv
<1>3. CASE SeedTeam \/ SeedGame \/ SeedSeat
  <2>1. phase \in {"teams", "games", "seats"}
    BY <1>3 DEF SeedTeam, SeedGame, SeedSeat
  <2>2. ProgramRows
    BY <2>1, PhaseNames DEF SeedInv
  <2>3. phase' # "done"
    BY <1>3, <2>1 DEF SeedTeam, SeedGame, SeedSeat, Insert, Stopped, Proceed
  <2> QED  BY <1>0, <1>3, <2>2, <2>3, SeedTeamRows, SeedGameRows, SeedSeatRows DEF SeedInv
<1>4. CASE EndLoop
  <2>1. /\ phase \in {"teams", "games", "seats"} /\ db' = db
        /\ phase' \in {"games", "seats", "tickets"}
    BY <1>4, PhaseNames DEF EndLoop
  <2> QED  BY <1>0, <2>1, SameProgram, PhaseNames DEF SeedInv
<1>5. CASE SeedTicket
  <2>1. ProgramRows
    BY <1>5, PhaseNames DEF SeedTicket, SeedInv
  <2> QED  BY <1>0, <1>1, <1>5, <2>1, SeedTicketRows DEF SeedInv
<1>6. CASE Finish
  <2>1. phase = "tickets" /\ todo = {} /\ db' = db
    BY <1>6 DEF Finish
  <2>2. ProgramRows /\ TicketsToCome
    BY <1>0, <2>1, PhaseNames DEF SeedInv, KeysInv
  <2>3. AllTicketed
    BY <2>1, <2>2 DEF TicketsToCome, AllTicketed
  <2> QED  BY <1>0, <2>1, <2>2, <2>3, SameProgram DEF SeedInv
<1>7. CASE Start \/ Fail
  BY <1>1, <1>7, PhaseNames DEF Start, Fail, Stopped
<1>8. CASE Book
  <2>1. phase' = phase
    BY <1>8 DEF Book
  <2> QED  BY <1>0, <1>8, <2>1, BookRows, PhaseNames DEF SeedInv
<1>9. CASE UNCHANGED vars
  <2>1. phase' = phase /\ db' = db
    BY <1>9 DEF vars
  <2> QED  BY <1>0, <2>1, SameProgram DEF SeedInv
<1> QED  BY <1>2, <1>3, <1>4, <1>5, <1>6, <1>7, <1>8, <1>9 DEF Next, run

(* In every state of every run of the tool, whatever earlier runs left and *)
(* the service sells meanwhile: the run has made exactly the rows that its *)
(* loops have passed, each with the values of its place in the list, their *)
(* references lead to rows of the same run, and the tickets still to come  *)
(* are those that are not on sale.                                         *)
THEOREM SeedInvariant == Spec => []SeedInv
BY SeedInitInv, SeedNextInv, PTL DEF Spec

-----------------------------------------------------------------------------
(* A finished run has seeded the program *)

(* The i-th block of P numbers is where division by P gives i - 1. *)
LEMMA Blocks ==
  ASSUME NEW P \in Nat \ {0}, NEW i \in Nat \ {0}, NEW a \in Nat
  PROVE  (a \div P) + 1 = i <=> a \in ((i - 1) * P) .. (i * P - 1)
<1> DEFINE q == a \div P
           r == a % P
           lo == (i - 1) * P
<1>1. q \in Nat /\ r \in 0 .. (P - 1) /\ a = P * q + r
  OBVIOUS
<1>2. i * P = lo + P /\ lo \in Nat
  <2>1. PICK z \in Nat : i = z + 1
    BY i - 1 \in Nat
  <2>2. (z + 1) * P = z * P + P /\ z * P \in Nat
    OBVIOUS
  <2> QED  BY <2>1, <2>2
<1>3. q = i - 1 => P * q = lo
  OBVIOUS
<1>4. q > i - 1 => P * q >= lo + P
  <2> SUFFICES ASSUME q > i - 1 PROVE P * q >= lo + P
    OBVIOUS
  <2>1. PICK z \in Nat : q = i + z
    BY <1>1, q - i \in Nat
  <2> HIDE DEF q
  <2>2. P * (i + z) = i * P + P * z /\ P * z \in Nat
    OBVIOUS
  <2>3. i * P \in Nat
    OBVIOUS
  <2> HIDE DEF lo
  <2> QED  BY <1>2, <2>1, <2>2, <2>3
<1>5. q < i - 1 => P * q + P <= lo
  <2> SUFFICES ASSUME q < i - 1 PROVE P * q + P <= lo
    OBVIOUS
  <2>1. PICK z \in Nat : i - 1 = q + 1 + z
    BY <1>1, i - 1 - q - 1 \in Nat
  <2>2. q \in Nat
    BY <1>1
  <2> HIDE DEF q
  <2>3. (q + 1 + z) * P = P * q + P + z * P /\ z * P \in Nat /\ P * q \in Nat
    BY <2>2
  <2> QED  BY <2>1, <2>3
<1>6. P * q \in Nat
  BY <1>1
<1> DEFINE Pq == P * q
<1> HIDE DEF q, r, lo, Pq
<1>7. a = Pq + r /\ Pq \in Nat /\ (q = i - 1 => Pq = lo) /\ (q > i - 1 => Pq >= lo + P)
      /\ (q < i - 1 => Pq + P <= lo)
  BY <1>1, <1>3, <1>4, <1>5, <1>6 DEF Pq
<1>8. q + 1 = i <=> a \in lo .. (lo + P - 1)
  BY <1>1, <1>2, <1>7
<1> QED  BY <1>2, <1>8 DEF q, lo

LEMMA Single ==
  ASSUME NEW S, NEW x \in S, \A y \in S : y = x
  PROVE  ExactlyOne(S)
<1>1. S = {x}
  OBVIOUS
<1> QED  BY <1>1, FS_Singleton DEF ExactlyOne

LEMMA LoopLengths ==
  /\ LoopLength["teams"] = Len(TeamNames) /\ Len(TeamNames) \in Nat
  /\ LoopLength["games"] = Len(Fixtures) /\ Len(Fixtures) \in Nat
  /\ LoopLength["seats"] = Len(Grades) * PerGrade /\ Len(Grades) * PerGrade \in Nat
  /\ DOMAIN SeatRows = 1 .. (Len(Grades) * PerGrade)
<1>1. Len(TeamNames) \in Nat /\ Len(Fixtures) \in Nat /\ Len(Grades) \in Nat /\ PerGrade \in Nat
  BY ProgramAssumption
<1> DEFINE n == Len(Grades) * PerGrade
<1>2. n \in Nat
  BY <1>1
<1>3. DOMAIN SeatRows = 1 .. n
  BY DEF SeatRows
<1>4. Len(SeatRows) = n
  <2> HIDE DEF n
  <2>1. \A m \in Nat : 1 .. n = 1 .. m => m = n
    BY <1>2
  <2>2. SeatRows \in Seq({SeatRows[j] : j \in 1 .. n})
    <3>1. SeatRows = [i \in 1 .. n |-> SeatRows[i]]
      BY DEF SeatRows, n
    <3>2. \A i \in 1 .. n : SeatRows[i] \in {SeatRows[j] : j \in 1 .. n}
      OBVIOUS
    <3> QED  BY <1>2, <3>1, <3>2
  <2>3. Len(SeatRows) \in Nat /\ DOMAIN SeatRows = 1 .. Len(SeatRows)
    BY <2>2, LenProperties
  <2> QED  BY <1>3, <2>1, <2>3
<1> QED  BY <1>1, <1>2, <1>3, <1>4 DEF LoopLength

(* The rows of a table after a finished run, by their place in the list. *)
LEMMA DoneTable ==
  ASSUME SeedInv, phase = "done", NEW table \in {"teams", "games", "seats"}
  PROVE  /\ IsFiniteSet(db[table]) /\ Cardinality(db[table]) = LoopLength[table]
         /\ \A i \in 1 .. LoopLength[table] :
              \E x \in db[table] : x.id = <<attempt, table, i - 1>>
         /\ \A x \in db[table] :
              \E i \in 1 .. LoopLength[table] : x.id = <<attempt, table, i - 1>>
         /\ \A x, y \in db[table] : x.id = y.id => x = y
<1>1. RunsRows /\ ProgramRows
  BY PhaseNames DEF SeedInv, KeysInv
<1>2. Inserted(table) = LoopLength[table] /\ LoopLength[table] \in Nat
  BY InsertedValues, LoopLengths
<1>3. /\ KeysOf(table) = {<<attempt, table, i>> : i \in 0 .. (LoopLength[table] - 1)}
      /\ IsFiniteSet(db[table]) /\ Cardinality(db[table]) = LoopLength[table]
  BY <1>1, <1>2, PhaseNames DEF RunsRows
<1>4. \A x, y \in db[table] : x.id = y.id => x = y
  BY <1>1, PhaseNames DEF ProgramRows
<1>5. ASSUME NEW i \in 1 .. LoopLength[table]
      PROVE  \E x \in db[table] : x.id = <<attempt, table, i - 1>>
  <2>1. i - 1 \in 0 .. (LoopLength[table] - 1)
    BY <1>2
  <2>2. <<attempt, table, i - 1>> \in KeysOf(table)
    BY <1>3, <2>1
  <2> QED  BY <2>2 DEF KeysOf
<1>6. ASSUME NEW x \in db[table]
      PROVE  \E i \in 1 .. LoopLength[table] : x.id = <<attempt, table, i - 1>>
  <2>1. x.id \in KeysOf(table)
    BY DEF KeysOf
  <2>2. PICK j \in 0 .. (LoopLength[table] - 1) : x.id = <<attempt, table, j>>
    BY <1>3, <2>1
  <2>3. j + 1 \in 1 .. LoopLength[table] /\ (j + 1) - 1 = j
    BY <1>2
  <2> QED  BY <2>2, <2>3
<1> QED  BY <1>3, <1>4, <1>5, <1>6

LEMMA DoneTeams ==
  ASSUME SeedInv, phase = "done"
  PROVE  /\ Cardinality(db.teams) = Len(TeamNames)
         /\ \A i \in DOMAIN TeamNames : ExactlyOne({t \in db.teams : t.name = TeamNames[i]})
<1>1. \A t \in db.teams : t.name = TeamNames[t.id[3] + 1]
  BY PhaseNames DEF SeedInv, ProgramRows
<1>2. DOMAIN TeamNames = 1 .. Len(TeamNames) /\ NamedOnce(TeamNames)
  BY ProgramAssumption
<1>3. ASSUME NEW i \in DOMAIN TeamNames
      PROVE  ExactlyOne({t \in db.teams : t.name = TeamNames[i]})
  <2>1. PICK x \in db.teams : x.id = <<attempt, "teams", i - 1>>
    BY <1>2, DoneTable, LoopLengths
  <2>2. x.name = TeamNames[i]
    BY <1>1, <1>2, <2>1
  <2>3. ASSUME NEW y \in db.teams, y.name = TeamNames[i]
        PROVE  y = x
    <3>1. PICK j \in 1 .. Len(TeamNames) : y.id = <<attempt, "teams", j - 1>>
      BY DoneTable, LoopLengths
    <3>2. TeamNames[j] = TeamNames[i]
      BY <1>1, <1>2, <2>3, <3>1
    <3>3. j = i
      BY <1>2, <3>2 DEF NamedOnce
    <3> QED  BY <2>1, <3>1, <3>3, DoneTable
  <2> DEFINE S == {t \in db.teams : t.name = TeamNames[i]}
  <2>4. x \in S /\ \A y \in S : y = x
    BY <2>2, <2>3
  <2> HIDE DEF S
  <2>5. ExactlyOne(S)
    BY <2>4, Single
  <2> QED  BY <2>5 DEF S
<1> QED  BY <1>3, DoneTable, LoopLengths

LEMMA DoneGames ==
  ASSUME SeedInv, phase = "done"
  PROVE  /\ Cardinality(db.games) = Len(Fixtures)
         /\ \A i \in DOMAIN Fixtures :
              ExactlyOne({g \in db.games : <<NameOf(g.home), NameOf(g.away)>> = Fixtures[i]})
<1>1. \A g \in db.games :
        \E home, away \in db.teams :
          home.id = g.home /\ away.id = g.away /\ Fixtures[g.id[3] + 1] = <<home.name, away.name>>
  BY PhaseNames DEF SeedInv, ProgramRows
<1>2. DOMAIN Fixtures = 1 .. Len(Fixtures) /\ NamedOnce(Fixtures)
  BY ProgramAssumption
<1>3. ASSUME NEW t \in db.teams PROVE NameOf(t.id) = t.name
  <2>1. \A u \in db.teams : u.id = t.id => u = t
    BY DoneTable
  <2> QED  BY <2>1 DEF NameOf
<1>4. \A g \in db.games : <<NameOf(g.home), NameOf(g.away)>> = Fixtures[g.id[3] + 1]
  BY <1>1, <1>3
<1>5. ASSUME NEW i \in DOMAIN Fixtures
      PROVE  ExactlyOne({g \in db.games : <<NameOf(g.home), NameOf(g.away)>> = Fixtures[i]})
  <2>1. PICK x \in db.games : x.id = <<attempt, "games", i - 1>>
    BY <1>2, DoneTable, LoopLengths
  <2>2. <<NameOf(x.home), NameOf(x.away)>> = Fixtures[i]
    BY <1>2, <1>4, <2>1
  <2>3. ASSUME NEW y \in db.games, <<NameOf(y.home), NameOf(y.away)>> = Fixtures[i]
        PROVE  y = x
    <3>1. PICK j \in 1 .. Len(Fixtures) : y.id = <<attempt, "games", j - 1>>
      BY DoneTable, LoopLengths
    <3>2. Fixtures[j] = Fixtures[i]
      BY <1>2, <1>4, <2>3, <3>1
    <3>3. j = i
      BY <1>2, <3>2 DEF NamedOnce
    <3> QED  BY <2>1, <3>1, <3>3, DoneTable
  <2> DEFINE S == {g \in db.games : <<NameOf(g.home), NameOf(g.away)>> = Fixtures[i]}
  <2>4. x \in S /\ \A y \in S : y = x
    BY <2>2, <2>3
  <2> HIDE DEF S
  <2>5. ExactlyOne(S)
    BY <2>4, Single
  <2> QED  BY <2>5 DEF S
<1> QED  BY <1>5, DoneTable, LoopLengths

(* Two finite sets of which one is a renaming of the other.                *)
LEMMA SameSize ==
  ASSUME NEW S, IsFiniteSet(S), NEW T, NEW f \in [S -> T],
         \A x, y \in S : f[x] = f[y] => x = y,
         \A t \in T : \E x \in S : f[x] = t
  PROVE  IsFiniteSet(T) /\ Cardinality(T) = Cardinality(S)
<1>1. f \in Bijection(S, T)
  BY DEF Bijection, Injection, Surjection, IsInjective
<1>2. ExistsBijection(S, T)
  BY <1>1 DEF ExistsBijection
<1> QED  BY <1>2, FS_Bijection

LEMMA TimesMonotone ==
  ASSUME NEW P \in Nat, NEW a \in Nat, NEW b \in Nat, a <= b
  PROVE  a * P <= b * P /\ a * P \in Nat /\ b * P \in Nat
<1>1. PICK z \in Nat : b = a + z
  BY b - a \in Nat
<1>2. (a + z) * P = a * P + z * P /\ z * P \in Nat /\ a * P \in Nat
  OBVIOUS
<1> QED  BY <1>1, <1>2

(* The rows of the i-th grade are the i-th block of the seats. *)
LEMMA GradeBlock ==
  ASSUME PerGrade # 0, NEW i \in DOMAIN Grades, NEW a \in 0 .. (Len(Grades) * PerGrade - 1)
  PROVE  SeatRows[a + 1] = Grades[i] <=> a \in ((i - 1) * PerGrade) .. (i * PerGrade - 1)
<1> DEFINE P == PerGrade
           len == Len(Grades)
           q == (a \div P) + 1
<1>1. /\ P \in Nat \ {0} /\ len \in Nat /\ DOMAIN Grades = 1 .. len /\ NamedOnce(Grades)
      /\ len * P \in Nat
  BY ProgramAssumption, LoopLengths
<1>2. a \in Nat /\ a + 1 \in 1 .. (len * P) /\ (a + 1) - 1 = a
  BY <1>1
<1>3. SeatRows[a + 1] = Grades[q]
  BY <1>2 DEF SeatRows
<1>4. q \in Nat \ {0}
  BY <1>1, <1>2
<1>5. q <= len
  <2> SUFFICES ASSUME len <= q - 1 PROVE FALSE
    BY <1>1, <1>4
  <2>1. a \in ((q - 1) * P) .. (q * P - 1)
    BY <1>1, <1>2, <1>4, Blocks
  <2> HIDE DEF q
  <2>2. len * P <= (q - 1) * P /\ (q - 1) * P \in Nat
    BY <1>1, <1>4, TimesMonotone
  <2> QED  BY <1>1, <1>2, <2>1, <2>2
<1>6. q = i <=> a \in ((i - 1) * P) .. (i * P - 1)
  <2>1. i \in Nat \ {0} /\ P \in Nat \ {0} /\ a \in Nat
    BY <1>1, <1>2
  <2> HIDE DEF P
  <2> QED  BY <2>1, Blocks
<1> HIDE DEF q
<1>7. Grades[q] = Grades[i] <=> q = i
  BY <1>1, <1>4, <1>5 DEF NamedOnce
<1> QED  BY <1>3, <1>6, <1>7

LEMMA DoneSeats ==
  ASSUME SeedInv, phase = "done"
  PROVE  /\ Cardinality(db.seats) = Len(Grades) * PerGrade
         /\ \A i \in DOMAIN Grades :
              Cardinality({s \in db.seats : s.grade = Grades[i]}) = PerGrade
<1> DEFINE n == Len(Grades) * PerGrade
<1>1. /\ n \in Nat /\ IsFiniteSet(db.seats) /\ Cardinality(db.seats) = n
      /\ \A j \in 1 .. n : \E x \in db.seats : x.id = <<attempt, "seats", j - 1>>
      /\ \A x \in db.seats : \E j \in 1 .. n : x.id = <<attempt, "seats", j - 1>>
      /\ \A x, y \in db.seats : x.id = y.id => x = y
  BY DoneTable, LoopLengths
<1>2. \A s \in db.seats : s.grade = SeatRows[s.id[3] + 1]
  BY PhaseNames DEF SeedInv, ProgramRows
<1>3. ASSUME NEW i \in DOMAIN Grades
      PROVE  Cardinality({s \in db.seats : s.grade = Grades[i]}) = PerGrade
  <2> DEFINE S == {s \in db.seats : s.grade = Grades[i]}
             lo == (i - 1) * PerGrade
             hi == i * PerGrade - 1
             f == [a \in lo .. hi |-> CHOOSE s \in db.seats : s.id = <<attempt, "seats", a>>]
  <2>1. PerGrade \in Nat /\ Len(Grades) \in Nat /\ DOMAIN Grades = 1 .. Len(Grades)
    BY ProgramAssumption
  <2>2. CASE PerGrade = 0
    <3>1. n = 0
      BY <2>1, <2>2
    <3> HIDE DEF n
    <3>2. S = {}
      BY <1>1, <3>1
    <3> HIDE DEF S
    <3> QED  BY <2>2, <3>2, FS_EmptySet DEF S
  <2>3. CASE PerGrade # 0
    <3>1. /\ i \in Nat /\ i - 1 \in Nat /\ i <= Len(Grades)
      BY <2>1
    <3>2. /\ lo \in Nat /\ i * PerGrade <= n /\ i * PerGrade \in Nat
          /\ i * PerGrade = lo + PerGrade
      <4>1. i * PerGrade <= n /\ i * PerGrade \in Nat
        BY <2>1, <3>1, TimesMonotone
      <4>2. PICK z \in Nat : i = z + 1
        BY <3>1
      <4>3. (z + 1) * PerGrade = z * PerGrade + PerGrade /\ z * PerGrade \in Nat
        BY <2>1
      <4> QED  BY <4>1, <4>2, <4>3
    <3>3. \A a \in 0 .. (n - 1) : SeatRows[a + 1] = Grades[i] <=> a \in lo .. hi
      BY <2>3, GradeBlock
    <3>4. IsFiniteSet(lo .. hi) /\ Cardinality(lo .. hi) = PerGrade
      <4> DEFINE iP == i * PerGrade
      <4>1. lo \in Int /\ iP - 1 \in Int /\ ~(lo > iP - 1) /\ (iP - 1) - lo + 1 = PerGrade
        <5> HIDE DEF lo, iP
        <5>1. lo \in Nat /\ iP \in Nat /\ iP = lo + PerGrade
          BY <3>2 DEF iP
        <5> QED  BY <2>1, <2>3, <5>1
      <4>2. hi = iP - 1
        OBVIOUS
      <4> HIDE DEF lo, iP, hi
      <4> QED  BY <4>1, <4>2, FS_Interval
    <3>5. lo .. hi \subseteq 0 .. (n - 1)
      <4> DEFINE iP == i * PerGrade
      <4> HIDE DEF lo, n, iP
      <4>1. lo \in Nat /\ iP \in Nat /\ iP <= n /\ n \in Nat /\ hi = iP - 1
        BY <1>1, <3>2 DEF iP
      <4> QED  BY <4>1
    <3> HIDE DEF lo, hi, n
    <3>6. ASSUME NEW a \in lo .. hi
          PROVE  /\ f[a] \in db.seats /\ f[a].id = <<attempt, "seats", a>>
                 /\ f[a].grade = Grades[i]
      <4>1. a \in 0 .. (n - 1) /\ a + 1 \in 1 .. n /\ (a + 1) - 1 = a
        BY <1>1, <3>5
      <4>2. \E x \in db.seats : x.id = <<attempt, "seats", a>>
        BY <1>1, <4>1
      <4>3. f[a] \in db.seats /\ f[a].id = <<attempt, "seats", a>>
        BY <4>2
      <4>4. f[a].grade = SeatRows[a + 1]
        <5> HIDE DEF f
        <5>1. f[a].id[3] = a
          BY <4>3
        <5> QED  BY <1>2, <4>3, <5>1
      <4> QED  BY <3>3, <4>1, <4>3, <4>4
    <3>7. DOMAIN f = lo .. hi /\ f = [a \in lo .. hi |-> f[a]]
      OBVIOUS
    <3> HIDE DEF f
    <3>8. f \in [lo .. hi -> S]
      BY <3>6, <3>7
    <3>9. \A a, b \in lo .. hi : f[a] = f[b] => a = b
      <4> SUFFICES ASSUME NEW a \in lo .. hi, NEW b \in lo .. hi, f[a] = f[b] PROVE a = b
        OBVIOUS
      <4>1. <<attempt, "seats", a>> = <<attempt, "seats", b>>
        BY <3>6
      <4> QED  BY <4>1
    <3>10. ASSUME NEW s \in S PROVE \E a \in lo .. hi : f[a] = s
      <4>1. PICK j \in 1 .. n : s.id = <<attempt, "seats", j - 1>>
        BY <1>1
      <4>2. j - 1 \in 0 .. (n - 1) /\ (j - 1) + 1 = j
        BY <1>1
      <4>3. s.grade = SeatRows[j]
        BY <1>2, <4>1, <4>2
      <4>4. j - 1 \in lo .. hi
        BY <3>3, <4>2, <4>3
      <4>5. f[j - 1] = s
        BY <1>1, <3>6, <4>1, <4>4
      <4> QED  BY <4>4, <4>5
    <3> HIDE DEF S
    <3>11. Cardinality(S) = Cardinality(lo .. hi)
      BY <3>4, <3>8, <3>9, <3>10, SameSize
    <3> QED  BY <3>4, <3>11 DEF S
  <2> QED  BY <2>2, <2>3
<1> QED  BY <1>1, <1>3

(* The tickets are a renaming of the pairs of a game and a seat. *)
LEMMA DoneTickets ==
  ASSUME SeedInv, phase = "done"
  PROVE  /\ Cardinality(db.tickets) = Cardinality(db.games) * Cardinality(db.seats)
         /\ \A g \in db.games, s \in db.seats :
              ExactlyOne({t \in db.tickets : t.game = g.id /\ t.seat = s.id})
<1> DEFINE Of(g, s) == {t \in db.tickets : t.game = g.id /\ t.seat = s.id}
           f == [p \in db.games \X db.seats |->
                   CHOOSE t \in db.tickets : t.game = p[1].id /\ t.seat = p[2].id]
<1>1. /\ IsFiniteSet(db.games) /\ \A x, y \in db.games : x.id = y.id => x = y
      /\ IsFiniteSet(db.seats) /\ \A x, y \in db.seats : x.id = y.id => x = y
  BY DoneTable
<1>2. \A t, u \in db.tickets : t.game = u.game /\ t.seat = u.seat => t = u
  BY PhaseNames DEF SeedInv, ProgramRows
<1>3. \A g \in db.games, s \in db.seats : \E t \in db.tickets : t.game = g.id /\ t.seat = s.id
  BY DEF SeedInv, AllTicketed, KeysOf
<1>4. \A t \in db.tickets : \E g \in db.games, s \in db.seats : t.game = g.id /\ t.seat = s.id
  <2>1. \A t \in db.tickets : t.game \in KeysOf("games") /\ t.seat \in KeysOf("seats")
    BY PhaseNames DEF SeedInv, KeysInv, RunsRows
  <2> QED  BY <2>1 DEF KeysOf
<1>5. ASSUME NEW g \in db.games, NEW s \in db.seats PROVE ExactlyOne(Of(g, s))
  <2>1. PICK t \in db.tickets : t.game = g.id /\ t.seat = s.id
    BY <1>3
  <2>2. t \in Of(g, s) /\ \A u \in Of(g, s) : u = t
    BY <1>2, <2>1
  <2> HIDE DEF Of
  <2> QED  BY <2>2, Single
<1>6. \A p \in db.games \X db.seats :
        f[p] \in db.tickets /\ f[p].game = p[1].id /\ f[p].seat = p[2].id
  BY <1>3
<1>7. f = [p \in db.games \X db.seats |-> f[p]]
  OBVIOUS
<1> HIDE DEF f
<1>8. f \in [db.games \X db.seats -> db.tickets]
  BY <1>6, <1>7
<1>9. \A p, q \in db.games \X db.seats : f[p] = f[q] => p = q
  BY <1>1, <1>6
<1>10. ASSUME NEW t \in db.tickets PROVE \E p \in db.games \X db.seats : f[p] = t
  <2>1. PICK g \in db.games, s \in db.seats : t.game = g.id /\ t.seat = s.id
    BY <1>4
  <2>2. f[<<g, s>>] = t
    BY <1>2, <1>6, <2>1
  <2> QED  BY <2>2
<1>11. Cardinality(db.tickets) = Cardinality(db.games \X db.seats)
  BY <1>1, <1>8, <1>9, <1>10, FS_Product, SameSize
<1> QED  BY <1>1, <1>5, <1>11, FS_Product

(* A run that returns nil has filled the tables with the program of games, *)
(* once, and with nothing else: for any program, and for any number of     *)
(* earlier runs that failed at any of their statements, and whatever the   *)
(* service has sold meanwhile.                                             *)
THEOREM SeedSucceeds == Spec => []SuccessMeansSeeded
<1>1. SeedInv => SuccessMeansSeeded
  <2> SUFFICES ASSUME SeedInv, phase = "done" PROVE Seeded
    BY DEF SuccessMeansSeeded
  <2>1. \A t \in db.tickets : t.reservation # Nobody => t.reservation \in db.reservations
    BY DEF SeedInv, KeysInv, ReservationsExist
  <2> QED  BY <2>1, DoneTeams, DoneGames, DoneSeats, DoneTickets DEF Seeded
<1> QED  BY <1>1, SeedInvariant, PTL
================================================================================
