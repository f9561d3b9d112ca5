------------------------------ MODULE RunStatus ------------------------------
(***************************************************************************)
(* A run as a program that polls it sees it: events 0..Last, the last of   *)
(* them terminal, and a status.                                            *)
(***************************************************************************)
EXTENDS Integers

CONSTANT Last     \* sequence of the terminal event

ASSUME RunAssumption == Last \in Nat

ACTIVE_RUN_STATUSES ==
    {"pending", "running", "paused", "waiting-approval", "waiting-input",
     "waiting-external", "cancelling"}
TERMINAL_RUN_STATUSES == {"completed", "failed", "cancelled"}

(* Hosts have terminal statuses of their own, and an engine behind the     *)
(* host has statuses for runs that are not over.                           *)
ExtensionStatuses == {"timed-out", "interrupted"}
EngineStatuses    == {"planned", "executing"}
Statuses == ACTIVE_RUN_STATUSES \cup TERMINAL_RUN_STATUSES
               \cup ExtensionStatuses \cup EngineStatuses

(* A status the client does not know is taken for terminal; in the mutant  *)
(* it is not.                                                              *)
IsTerminalRunStatusKnown(status) == status \in TERMINAL_RUN_STATUSES
IsTerminalRunStatus(status) == status \notin ACTIVE_RUN_STATUSES

==============================================================================
