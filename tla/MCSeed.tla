------------------------------- MODULE MCSeed -------------------------------
(* A program of two games between three teams, with two grades of seats.   *)
EXTENDS Seed

ThreeTeams == <<"A", "B", "C">>
TwoGames == <<<<"A", "B">>, <<"C", "A">>>>
TwoGrades == <<"SS", "S">>
=============================================================================
