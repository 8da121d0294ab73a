-------------------------------- MODULE Seed --------------------------------
(***************************************************************************)
(* The seed tool, cmd/seed: it clears the tables and fills them again, one *)
(* statement at a time and without a transaction, and stops at the first   *)
(* error.  A run may be interrupted at any statement, before or after the  *)
(* database has executed it, and is then repeated by hand; the service may *)
(* take bookings all the while.  Runs do not overlap.                      *)
(***************************************************************************)
EXTENDS Naturals, Sequences, FiniteSets

CONSTANTS
  TeamNames,  \* the names of _seedTeams, in order
  Fixtures,   \* home and away team of each game of _seedGames, in order
  Grades,     \* the grades of _seedSeats, in order
  PerGrade,   \* seatsPerGrade
  Nobody,     \* NULL in tickets.reservation_id
  MaxRuns,    \* bound on the runs, for TLC
  MaxFaults,  \* bound on the statements that fail, for TLC
  MaxBookings     \* bound on the bookings, for TLC

(* The lists name no team, no fixture and no grade twice.                  *)
NamedOnce(list) == \A i, j \in DOMAIN list : list[i] = list[j] => i = j

ASSUME ProgramAssumption ==
  /\ TeamNames \in Seq(STRING) /\ NamedOnce(TeamNames)
  /\ Fixtures \in Seq(STRING \X STRING) /\ NamedOnce(Fixtures)
  /\ Grades \in Seq(STRING) /\ NamedOnce(Grades)
  /\ PerGrade \in Nat

VARIABLES
  db,        \* the committed rows of each table
  phase,     \* the function the tool is in, or how its last run ended
  k,         \* iterations the loop of that function has made
  todo,      \* the games and seats for which _seedTickets has no ticket yet
  attempt,   \* number of the run
  faults,    \* statements that have failed
  bookings   \* reservations the service has made

vars == <<db, phase, k, todo, attempt, faults, bookings>>

Running == {"clear", "teams", "games", "seats", "tickets"}

Empty == [teams |-> {}, games |-> {}, seats |-> {}, tickets |-> {}, reservations |-> {}]

Init ==
  /\ db = Empty
  /\ phase = "idle"
  /\ k = 0
  /\ todo = {}
  /\ attempt = 0
  /\ faults = 0
  /\ bookings = 0

-----------------------------------------------------------------------------
(* An operator runs the tool, for the first time or again. *)
Start ==
  /\ phase \notin Running
  /\ attempt < MaxRuns
  /\ attempt' = attempt + 1
  /\ phase' = "clear"
  /\ UNCHANGED <<db, k, todo, faults, bookings>>

(* return err: the rows inserted so far stay. *)
Stopped == phase' = "failed" /\ k' = 0

Proceed == phase' = phase /\ k' = k + 1

(* A statement fails unexecuted, or the process is killed. *)
Fail ==
  /\ phase \in Running
  /\ faults < MaxFaults
  /\ faults' = faults + 1
  /\ Stopped
  /\ UNCHANGED <<db, todo, attempt, bookings>>

(* The primary key of row n of a table, in try number try of its INSERT:   *)
(* uuid.NewUUID gives it before Exec is called, so the tries share it.     *)
(* Faulty variant: the column's DEFAULT uuid_generate_v4() gives it.       *)
IdByDatabase(n, try) == <<attempt, phase, n, try>>

RowId(n, try) == <<attempt, phase, n>>

(* INSERT of row n, with the values of row and RowId for its id.  When the *)
(* answer is lost, database/sql may send the statement again over a new    *)
(* connection; the row's key is then taken.  If it does not, Exec returns  *)
(* the error at once, which is the same here.                              *)
Insert(n, row) ==
  LET try(i) == [row EXCEPT !.id = RowId(n, i)] IN
  \/ /\ db' = [db EXCEPT ![phase] = @ \cup {try(1)}]
     /\ Proceed
     /\ UNCHANGED <<attempt, faults, bookings>>
  \/ /\ faults < MaxFaults
     /\ faults' = faults + 1
     /\ db' = [db EXCEPT ![phase] = @ \cup {try(1), try(2)}]
     /\ IF try(2) = try(1) THEN Stopped ELSE Proceed
     /\ UNCHANGED <<attempt, bookings>>

(* Faulty variant: a TRUNCATE that leaves out seats. *)
SeatsKept == [Empty EXCEPT !.seats = db.seats]

(* TRUNCATE ... CASCADE of all tables. *)
Truncated == Empty

(* It may be sent twice without harm; a lost answer may still end the run. *)
ClearTables ==
  /\ phase = "clear"
  /\ db' = Truncated
  /\ \/ phase' = "teams" /\ k' = 0 /\ UNCHANGED faults
     \/ faults < MaxFaults /\ faults' = faults + 1 /\ Stopped
  /\ UNCHANGED <<todo, attempt, bookings>>

(* The grades of the seats in the order of the two loops of _seedSeats. *)
SeatRows == [i \in 1 .. (Len(Grades) * PerGrade) |-> Grades[((i - 1) \div PerGrade) + 1]]

(* How often the loop of each function runs.  Faulty variant: the list of  *)
(* the teams lacks its last one.                                           *)
LastTeamMissing ==
  [teams |-> Len(TeamNames) - 1, games |-> Len(Fixtures), seats |-> Len(SeatRows)]

LoopLength == [teams |-> Len(TeamNames), games |-> Len(Fixtures), seats |-> Len(SeatRows)]

SeedTeam ==
  /\ phase = "teams"
  /\ k < LoopLength.teams
  /\ Insert(k, [id |-> 0, name |-> TeamNames[k + 1]])
  /\ UNCHANGED todo

(* SELECT id FROM Teams WHERE name = $1, of which one row is scanned. *)
getTeamIDByName(name) == {team.id : team \in {t \in db.teams : t.name = name}}

SeedGame ==
  /\ phase = "games"
  /\ k < LoopLength.games
  /\ LET homes == getTeamIDByName(Fixtures[k + 1][1])
         aways == getTeamIDByName(Fixtures[k + 1][2])
     IN  IF homes = {} \/ aways = {}
         THEN Stopped /\ UNCHANGED <<db, attempt, faults, bookings>>
         ELSE \E home \in homes, away \in aways :
                Insert(k, [id |-> 0, home |-> home, away |-> away])
  /\ UNCHANGED todo

SeedSeat ==
  /\ phase = "seats"
  /\ k < LoopLength.seats
  /\ Insert(k, [id |-> 0, grade |-> SeatRows[k + 1]])
  /\ UNCHANGED todo

(* A loop ends; _seedTickets begins with reading the seats and the games. *)
Following == [teams |-> "games", games |-> "seats", seats |-> "tickets"]

EndLoop ==
  /\ phase \in DOMAIN Following
  /\ k = LoopLength[phase]
  /\ phase' = Following[phase]
  /\ k' = 0
  /\ todo' = IF phase' = "tickets"
             THEN {game.id : game \in db.games} \X {seat.id : seat \in db.seats}
             ELSE todo
  /\ UNCHANGED <<db, attempt, faults, bookings>>

(* A game whose seats the inner loop of _seedTickets is visiting. *)
Begun(game) ==
  /\ \E pair \in todo : pair[1] = game
  /\ \E seat \in db.seats : <<game, seat.id>> \notin todo

(* The next ticket: game after game, the seats of each in any order, for   *)
(* they are the keys of a Go map.  UNIQUE (seat_id, game_id) refuses a     *)
(* ticket that is there already.                                           *)
SeedTicket ==
  /\ phase = "tickets"
  /\ \E pair \in todo :
       /\ \A other \in todo : other[1] # pair[1] => ~Begun(other[1])
       /\ IF \E t \in db.tickets : t.game = pair[1] /\ t.seat = pair[2]
          THEN Stopped /\ UNCHANGED <<db, attempt, faults, bookings>>
          ELSE Insert(pair, [id |-> 0, game |-> pair[1], seat |-> pair[2],
                             reservation |-> Nobody])
       /\ todo' = todo \ {pair}

(* return nil *)
Finish ==
  /\ phase = "tickets"
  /\ todo = {}
  /\ phase' = "done"
  /\ k' = 0
  /\ UNCHANGED <<db, todo, attempt, faults, bookings>>

(* The service, which may be up, books a ticket that is on sale. *)
Book ==
  /\ bookings < MaxBookings
  /\ \E t \in db.tickets :
       /\ t.reservation = Nobody
       /\ db' = [db EXCEPT
                   !.tickets = (@ \ {t}) \cup {[t EXCEPT !.reservation = bookings + 1]},
                   !.reservations = @ \cup {bookings + 1}]
  /\ bookings' = bookings + 1
  /\ UNCHANGED <<phase, k, todo, attempt, faults>>

run ==
  \/ ClearTables
  \/ SeedTeam
  \/ SeedGame
  \/ SeedSeat
  \/ EndLoop
  \/ SeedTicket
  \/ Finish

Next == run \/ Start \/ Fail \/ Book

Spec == Init /\ [][Next]_vars

(* A run goes on until it returns: no statement waits forever. *)
FairSpec == Spec /\ WF_vars(run)

-----------------------------------------------------------------------------
(* Properties *)

(* The tables that are full in each phase. *)
Filled ==
  [teams |-> {}, games |-> {"teams"}, seats |-> {"teams", "games"},
   tickets |-> {"teams", "games", "seats"}, done |-> {"teams", "games", "seats"}]

Inserted(table) ==
  IF phase = table THEN k
  ELSE IF table \in Filled[phase] THEN LoopLength[table] ELSE 0

KeysOf(table) == {row.id : row \in db[table]}

(* The tables of the service hang together in every state, even where a    *)
(* run has stopped.                                                        *)
ReservationsExist ==
  /\ db.reservations \subseteq 1 .. bookings
  /\ \A t \in db.tickets : t.reservation # Nobody => t.reservation \in db.reservations

(* A running tool has inserted, whatever earlier runs left behind, as many *)
(* rows as its loops have made; no key is there twice, and references lead *)
(* to rows of this run.                                                    *)
RunsRows ==
  /\ \A table \in DOMAIN Following :
       /\ KeysOf(table) = {<<attempt, table, i>> : i \in 0 .. (Inserted(table) - 1)}
       /\ IsFiniteSet(db[table]) /\ Cardinality(db[table]) = Inserted(table)
  /\ \A g \in db.games : {g.home, g.away} \subseteq KeysOf("teams")
  /\ \A t \in db.tickets : t.game \in KeysOf("games") /\ t.seat \in KeysOf("seats")

(* What _seedTickets has left to do is what the service cannot sell yet,   *)
(* however much of the rest it has sold in the meantime.                   *)
TicketsToCome ==
  /\ phase \in DOMAIN Following => db.tickets = {}
  /\ phase = "tickets" =>
       /\ todo \subseteq KeysOf("games") \X KeysOf("seats")
       /\ \A g \in KeysOf("games"), s \in KeysOf("seats") :
            <<g, s>> \in todo <=> ~\E t \in db.tickets : t.game = g /\ t.seat = s

(* The rows and their keys, phase by phase. *)
KeysInv ==
  /\ phase \in Running \cup {"idle", "failed", "done"}
  /\ k \in Nat /\ bookings \in Nat
  /\ DOMAIN db = DOMAIN Empty
  /\ ReservationsExist
  /\ phase \in DOMAIN Filled => RunsRows /\ TicketsToCome

(* What those rows say: the row that the i-th INSERT of a loop has made    *)
(* holds the i-th values of its list, wherever the loop was interrupted in *)
(* earlier runs, and the keys and pairs that lead to it lead to no other.  *)
ProgramRows ==
  /\ \A table \in DOMAIN Following :
       \A x, y \in db[table] : x.id = y.id => x = y
  /\ \A t \in db.teams : t.name = TeamNames[t.id[3] + 1]
  /\ \A s \in db.seats : s.grade = SeatRows[s.id[3] + 1]
  /\ \A g \in db.games :
       \E home, away \in db.teams :
         /\ home.id = g.home /\ away.id = g.away
         /\ Fixtures[g.id[3] + 1] = <<home.name, away.name>>
  /\ \A t, u \in db.tickets : t.game = u.game /\ t.seat = u.seat => t = u

AllTicketed ==
  \A g \in KeysOf("games"), s \in KeysOf("seats") :
    \E t \in db.tickets : t.game = g /\ t.seat = s

(* The inductive invariant. *)
SeedInv ==
  /\ KeysInv
  /\ phase \in DOMAIN Filled => ProgramRows
  /\ phase = "done" => AllTicketed

(* The tables hold the program of games once, and nothing else. *)
ExactlyOne(set) == Cardinality(set) = 1

NameOf(team) == (CHOOSE t \in db.teams : t.id = team).name

Seeded ==
  /\ Cardinality(db.teams) = Len(TeamNames)
  /\ \A i \in DOMAIN TeamNames : ExactlyOne({t \in db.teams : t.name = TeamNames[i]})
  /\ Cardinality(db.games) = Len(Fixtures)
  /\ \A i \in DOMAIN Fixtures :
       ExactlyOne({g \in db.games : <<NameOf(g.home), NameOf(g.away)>> = Fixtures[i]})
  /\ Cardinality(db.seats) = Len(Grades) * PerGrade
  /\ \A i \in DOMAIN Grades :
       Cardinality({s \in db.seats : s.grade = Grades[i]}) = PerGrade
  /\ Cardinality(db.tickets) = Cardinality(db.games) * Cardinality(db.seats)
  /\ \A g \in db.games, s \in db.seats :
       ExactlyOne({t \in db.tickets : t.game = g.id /\ t.seat = s.id})
  /\ \A t \in db.tickets : t.reservation # Nobody => t.reservation \in db.reservations

(* A run that returns nil has filled the tables with the program of games, *)
(* once: every team, every fixture between the teams it names, PerGrade    *)
(* seats of each grade, and one ticket for each seat of each game.  What   *)
(* earlier runs left, at whichever statement they failed, is gone, and so  *)
(* are the reservations made before; a ticket is off sale only if a        *)
(* reservation has taken it since.                                         *)
SuccessMeansSeeded == phase = "done" => Seeded

(* A run that meets no fault returns nil, whatever state the tables are in *)
(* when it starts: repeating the tool is a way out of every failure.       *)
UndisturbedRunSeeds ==
  \A n \in 1 .. MaxRuns :
    phase = "clear" /\ attempt = n /\ faults = MaxFaults ~> phase = "done" /\ attempt = n
=============================================================================
