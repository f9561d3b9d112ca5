------------------------------- MODULE MCProgram -------------------------------
(***************************************************************************)
(* Program for TLC, with the pure helpers a program calls on the way: the  *)
(* wire form of the run's id, the type guards for its events, and the      *)
(* refusal reader for what its model answers.  What is said of those has   *)
(* no state in it: TLC evaluates it once, over bounded inputs.             *)
(***************************************************************************)
EXTENDS Program, WireId, TypedEvents, ParseRefusal

CONSTANT c1

(* The shapes of all operations of both clients.                           *)
AllOperations == Client1 \cup Client2

-----------------------------------------------------------------------------
(* Whoever has a run in hand can put its id into a path and read it back,  *)
(* whatever characters the id is made of (WireId).                         *)
RunIdSurvives == HasRun => BoundIdSurvives

(* ... and the segment of a link, projected or percent-encoded, is sent    *)
(* back as the id it stands for (WireId).                                  *)
RunLinkSurvives == HasRun => LinkSurvives

(* No guard drops an event of the run whose payload is valid by the schema *)
(* the protocol has for it (TypedEvents).                                  *)
EventsAreRecognised == HasRun => GuardsAcceptTheirSchema

(* What the run's model answers is taken for a refusal if and only if a    *)
(* vendor signalled one, in a way the parsers look for (ParseRefusal).     *)
RunRefusalIsFound == HasRun => RefusalIsFound

(* The category reported for a refusal is the likeliest one (ParseRefusal).*)
RunCategoryIsWorst == HasRun => CategoryIsWorst

==============================================================================
