---------------------------- MODULE EventDelivery ----------------------------
(***************************************************************************)
(* What a subscription to a run's events promises its consumer, whatever   *)
(* happens to the connections below it: every event after the starting     *)
(* position, once, in order, and a clean end only at the terminal event.   *)
(* Only the event at the starting position, which the consumer has seen    *)
(* before, may come again, and then in front of all others.                *)
(***************************************************************************)
EXTENDS Integers

CONSTANT Last       \* sequence of the terminal event

VARIABLES
    delivered,      \* position of the consumer: the last event it has seen
    handed,         \* how many events it was handed
    again,          \* the event at that position may come once more
    status          \* "open", "completed", "stopped" or "failed"

vars == <<delivered, handed, again, status>>

Init ==
    /\ delivered \in -1 .. Last /\ handed = 0 /\ status = "open"
    /\ again \in BOOLEAN /\ (again => delivered # -1)

(* The next event; the consumer may leave its loop on it.                  *)
Deliver ==
    /\ status = "open" /\ delivered < Last
    /\ delivered' = delivered + 1 /\ handed' = handed + 1 /\ again' = FALSE
    /\ status' \in {"open", "stopped"}

(* A reader told where to resume knows no sequences yet: what its host     *)
(* sends once more passes the duplicate guard.                             *)
Repeat ==
    /\ status = "open" /\ again
    /\ UNCHANGED delivered /\ handed' = handed + 1 /\ again' = FALSE
    /\ status' \in {"open", "stopped"}

Complete ==
    /\ status = "open" /\ delivered = Last
    /\ status' = "completed" /\ UNCHANGED <<delivered, handed, again>>

(* The consumer stops it, or it fails with an error.                       *)
Stop ==
    /\ status = "open" /\ status' = "stopped"
    /\ UNCHANGED <<delivered, handed, again>>
Fail ==
    /\ status = "open" /\ status' = "failed"
    /\ UNCHANGED <<delivered, handed, again>>

Next == Deliver \/ Repeat \/ Complete \/ Stop \/ Fail

Spec == Init /\ [][Next]_vars

==============================================================================
