------------------------------ MODULE GridBot ------------------------------
(***************************************************************************)
(* A process of the grid bot (grid-bot/rust/src/main.rs, main): one        *)
(* subcommand, which is the terminal UI or a run.  Of a run there are the  *)
(* stream of events with the wait of the loop, and the plans with the      *)
(* orders made from them.  These parts share no state and are never in one *)
(* behaviour: a process does not change its subcommand, and the run loop   *)
(* reads nothing of an event but that it came (GridRun has the loop).      *)
(***************************************************************************)
EXTENDS TerminalUI, SpotEvents, GridPlanning

CONSTANT AtWork    \* the parts of the program that are looked at

ASSUME GridBotAssumption == AtWork \subseteq {"tui", "events", "plan"}

VARIABLE part      \* the part at work in this process

vars == <<part, uiVars, eventVars, planVars>>

\* What is not at work is in one of its initial states, and stays there.
TuiRests ==
  /\ TuiInit
  /\ app.tab = "config" /\ app.form.key = 0 /\ app.form.subaccount = 0 /\ stored = None
  /\ session = CHOOSE s \in Sessions : TRUE

PlanRests ==
  /\ config = CHOOSE c \in Settings : TRUE
  /\ mid = CHOOSE m \in Mids : TRUE
  /\ PlanInit

\* main: the subcommand decides.
Dispatch ==
  /\ part \in AtWork
  /\ IF part = "tui" THEN TuiInit ELSE TuiRests
  /\ IF part = "plan" THEN PlanInit ELSE PlanRests
  /\ SpotEventsInit

Next ==
  \/ part = "tui" /\ TuiNext /\ UNCHANGED <<part, eventVars, planVars>>
  \/ part = "events" /\ SpotEventsNext /\ UNCHANGED <<part, uiVars, planVars>>
  \/ part = "plan" /\ PlanNext /\ UNCHANGED <<part, uiVars, eventVars>>

Spec == Dispatch /\ [][Next]_vars /\ (part = "events" => StreamFairness)

\* The variables of the part at work have their types, through every step of it.
TypeOK ==
  CASE part = "tui" -> TuiTypeOK
    [] part = "events" -> EventsTypeOK
    [] part = "plan" -> PlanTypeOK
=============================================================================
