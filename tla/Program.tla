-------------------------------- MODULE Program --------------------------------
(***************************************************************************)
(* A program at work: it makes calls through the REST client (RestClient)  *)
(* and, when one of them, Call, started a run, follows the run by polling  *)
(* (PollSession).  The two meet in the host: it logs events from the       *)
(* moment it has started the run, which may be long before the program     *)
(* learns that it did.                                                     *)
(***************************************************************************)
EXTENDS RestClient, PollSession

CONSTANT Call         \* the call that may start the run

ASSUME ProgramAssumption == Call \in Calls

programVars == <<vars, sessionVars>>

(* The program has the document of its new run and reads its id from it.   *)
HasRun == result[Call] = "value" /\ kind[Call] = Create

ProgramInit ==
    /\ Init /\ PollInit
    /\ delivered = Start
    /\ kind[Call] # Create => gen = 1 /\ judge = "flag" /\ ~engine

RestStep == Next /\ UNCHANGED sessionVars

RunRuns ==
    /\ kind[Call] = Create /\ done[Call] > 0
    /\ HostLogs
    /\ UNCHANGED vars

Follow ==
    /\ HasRun
    /\ \/ Poll \/ HostAnswers \/ PollBreaks
       \/ ReceivePage \/ Handle \/ Finish
    /\ UNCHANGED vars

ProgramNext == RestStep \/ RunRuns \/ Follow

ProgramSpec == ProgramInit /\ [][ProgramNext]_programVars

(* The host works on; connections that do not break carry their answers;   *)
(* the program polls and handles what it gets.                             *)
Fairness ==
    /\ WF_programVars(RunRuns)
    /\ WF_programVars(HasRun /\ Poll /\ UNCHANGED vars)
    /\ WF_programVars(HasRun /\ HostAnswers /\ UNCHANGED vars)
    /\ WF_programVars(HasRun /\ ReceivePage /\ UNCHANGED vars)
    /\ WF_programVars(HasRun /\ Handle /\ UNCHANGED vars)
    /\ WF_programVars(HasRun /\ Finish /\ UNCHANGED vars)

LiveSpec == ProgramSpec /\ Fairness

-----------------------------------------------------------------------------
(* A program that polls, or came to an end in polling, follows a run the   *)
(* host did start; and if its call had a key, the only one: no request     *)
(* that went astray before the answer, or arrives after it, leaves the     *)
(* program with the events of one run and the host with two.               *)
Follows == polling \/ delivered # Start \/ outcome # "open"
FollowsItsRun ==
    Follows => /\ HasRun /\ done[Call] >= 1
               /\ HasKey(Call) => done[Call] = 1

(* Once a program has the run it created, following it comes to an end:    *)
(* no page, empty or late, leaves it polling for ever.                     *)
RunIsFollowed == HasRun ~> outcome # "open"

==============================================================================
