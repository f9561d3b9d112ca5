----------------------- MODULE ReasoningSubscription -----------------------
(***************************************************************************)
(* subscribeToAgentReasoning (TypeScript): a detached task that reads a    *)
(* run's events and calls the consumer's callbacks, next to a consumer     *)
(* that may unsubscribe at any moment, its own callbacks included.  The    *)
(* stream below is that of EventDelivery, except that the server may close *)
(* it before the terminal event: with reconnect off, or young and silent.  *)
(*                                                                         *)
(* The task's place is `pc`; while it is "handler", "report", "end" or     *)
(* "last" one of the consumer's callbacks is running.                      *)
(***************************************************************************)
EXTENDS Integers

CONSTANT Last        \* sequence of the run's terminal event

ASSUME LastAssumption == Last \in Nat

Callbacks == {"onDelta", "onClosed", "onEnd", "onError"}

VARIABLES
    given,           \* the callbacks the consumer passed
    callback,        \* the callback an event goes to, "none" for other types
    start,           \* options.lastEventId
    delivered, handed, again, status,   \* of the stream, see EventDelivery
    pc,
    stopped,         \* the consumer has called the Unsubscribe
    handled          \* events a callback was called for

frozen == <<given, callback, start>>
stream == <<delivered, handed, again, status>>
vars   == <<frozen, stream, pc, stopped, handled>>

Stream == INSTANCE EventDelivery

Init ==
    /\ given \in SUBSET Callbacks
    /\ callback \in [0 .. Last -> {"onDelta", "onClosed", "none"}]
    /\ callback[Last] = "none"
    /\ start \in -1 .. Last /\ delivered = start /\ Stream!Init
    /\ pc = "next" /\ stopped = FALSE
    /\ handled = {}

-----------------------------------------------------------------------------
(* The `for await` has asked the stream for its next event.                *)

StreamYields ==
    /\ UNCHANGED <<frozen, stopped, handled>>
    /\ pc = "next" /\ (Stream!Deliver \/ Stream!Repeat) /\ status' = "open"
    /\ pc' = "got"

(* The server closed the stream early, which the reader takes for its end. *)
ServerCloses ==
    /\ status = "open" /\ delivered < Last
    /\ status' = "closed" /\ UNCHANGED <<delivered, handed, again>>

(* "The SSE stream ends cleanly (server closed or run reached terminal     *)
(* status)".                                                               *)
StreamEnds ==
    /\ UNCHANGED <<frozen, stopped, handled>>
    /\ pc = "next" /\ (Stream!Complete \/ ServerCloses)
    /\ pc' = "ending"

(* Mutant: the unsubscribe does not reach the stream.                      *)
StreamAbortsNever == pc = "aborting" /\ UNCHANGED vars

(* The abort signal makes the stream return.                               *)
StreamAborts ==
    /\ UNCHANGED <<frozen, stopped, handled>>
    /\ pc = "next" /\ stopped /\ Stream!Stop
    /\ pc' = "ending"

StreamFails ==
    /\ UNCHANGED <<frozen, stopped, handled>>
    /\ pc = "next" /\ Stream!Fail
    /\ pc' = "caught"

(* Mutant: an event that arrives after the unsubscribe is still handled.   *)
LeavesNever == FALSE

(* An event that arrives after the unsubscribe ends the loop.              *)
Leaves == stopped

(* Leave the loop, or hand the event to its callback, if there is one.     *)
Dispatch ==
    /\ pc = "got" /\ UNCHANGED <<frozen, stopped>>
    /\ IF Leaves
         THEN Stream!Stop /\ pc' = "ending" /\ UNCHANGED handled
         ELSE /\ UNCHANGED stream
              /\ IF callback[delivered] \in given
                   THEN pc' = "handler" /\ handled' = handled \cup {delivered}
                   ELSE pc' = "next" /\ UNCHANGED handled

(* The awaited callback returns or its promise resolves.                   *)
HandlerReturns ==
    /\ pc = "handler" /\ pc' = "next"
    /\ UNCHANGED <<frozen, stream, stopped, handled>>

(* It throws or its promise is rejected: report it and go on.              *)
HandlerThrows ==
    /\ pc = "handler"
    /\ pc' = IF "onError" \in given THEN "report" ELSE "next"
    /\ UNCHANGED <<frozen, stream, stopped, handled>>

(* onError returns, or throws in its turn out of the loop.                 *)
ReportReturns ==
    /\ pc = "report" /\ pc' = "next"
    /\ UNCHANGED <<frozen, stream, stopped, handled>>

ReportThrows ==
    /\ UNCHANGED <<frozen, stopped, handled>>
    /\ pc = "report" /\ Stream!Stop
    /\ pc' = "caught"

-----------------------------------------------------------------------------
(* After the loop.                                                         *)

(* Mutants: the end is announced whoever ended the stream, or to a         *)
(* callback that was not passed.                                           *)
AnnouncesAnyEnd == "onEnd" \in given
AnnouncesBlind  == ~stopped

(* The end is announced unless the consumer asked for it.                  *)
Announces == ~stopped /\ "onEnd" \in given

Ending ==
    /\ pc = "ending"
    /\ pc' = IF Announces THEN "end" ELSE "finished"
    /\ UNCHANGED <<frozen, stream, stopped, handled>>

EndReturns ==
    /\ pc = "end" /\ pc' = "finished"
    /\ UNCHANGED <<frozen, stream, stopped, handled>>

EndThrows ==
    /\ pc = "end" /\ pc' = "caught"
    /\ UNCHANGED <<frozen, stream, stopped, handled>>

(* The outer catch: a failed stream, a throwing onError or onEnd.          *)
Caught ==
    /\ pc = "caught"
    /\ pc' = IF ~stopped /\ "onError" \in given THEN "last" ELSE "finished"
    /\ UNCHANGED <<frozen, stream, stopped, handled>>

(* An onError that throws here rejects the promise nobody awaits.          *)
LastSettles ==
    /\ pc = "last" /\ pc' = "finished"
    /\ UNCHANGED <<frozen, stream, stopped, handled>>

(* The Unsubscribe; a second call changes nothing.                         *)
Unsubscribe ==
    /\ ~stopped /\ stopped' = TRUE
    /\ UNCHANGED <<frozen, stream, pc, handled>>

-----------------------------------------------------------------------------
Task ==
    \/ Dispatch \/ HandlerReturns \/ HandlerThrows
    \/ ReportReturns \/ ReportThrows
    \/ Ending \/ EndReturns \/ EndThrows
    \/ Caught \/ LastSettles

Next ==
    \/ StreamYields \/ StreamEnds \/ StreamAborts \/ StreamFails
    \/ Task \/ Unsubscribe

Spec == Init /\ [][Next]_vars

(* The event loop runs the task, callbacks settle, and an aborted stream   *)
(* returns.                                                                *)
LiveSpec == Spec /\ WF_vars(Task) /\ WF_vars(StreamAborts)

-----------------------------------------------------------------------------
(* Properties.                                                             *)

TypeOK ==
    /\ given \subseteq Callbacks
    /\ callback \in [0 .. Last -> {"onDelta", "onClosed", "none"}]
    /\ start \in -1 .. Last /\ delivered \in -1 .. Last
    /\ handed \in Nat /\ again \in BOOLEAN
    /\ status \in {"open", "completed", "closed", "stopped", "failed"}
    /\ pc \in {"next", "got", "handler", "report", "ending", "end", "caught",
               "last", "finished"}
    /\ stopped \in BOOLEAN /\ handled \subseteq 0 .. Last
    /\ pc = "end" => "onEnd" \in given
    /\ pc \in {"report", "last"} => "onError" \in given

(* What the stream gave this task: behind `start`, and `start` if that one *)
(* came again.                                                             *)
Arrived == delivered - handed + 1 .. delivered
Wanted  == {n \in Arrived : callback[n] \in given}

(* Callbacks that throw, reject or unsubscribe cost the consumer no event: *)
(* before each new event, and when the end is announced, every delta and   *)
(* closed block received so far was handed over; and the end is announced  *)
(* only for a stream that ended by itself, not for one that failed, that a *)
(* throwing callback tore down or that the consumer left ("onEnd should    *)
(* NOT fire on an error path").                                            *)
NothingSkipped ==
    /\ pc \in {"next", "end"} => handled = Wanted
    /\ pc = "end" => status \in {"completed", "closed"}

(* Once unsubscribed, no event is handed over, no end and no failure of    *)
(* the stream is reported; the one call still possible is onError for the  *)
(* callback that was running.                                              *)
QuietAfterStop ==
    [][stopped /\ pc' # pc =>
          /\ pc' \notin {"handler", "end", "last"}
          /\ pc' = "report" => pc = "handler"]_vars

(* An unsubscribe takes effect: the connection is given up and the task    *)
(* comes to its end, whatever the callbacks do.                            *)
StopReleases == stopped ~> pc = "finished" /\ status # "open"

(* "Callback exceptions are caught + reported via onError so one bad       *)
(* handler doesn't tear down the stream": the task leaves an open stream   *)
(* only because the consumer unsubscribed.                                 *)
BadHandlerKeepsStream == status = "stopped" => stopped

=============================================================================
