---------------------------- MODULE ReasoningOfRun ----------------------------
(***************************************************************************)
(* ReasoningSubscription over the log of a run: the events are those of a  *)
(* host of one major, and the guards of TypedEvents decide which callback  *)
(* an event goes to.                                                       *)
(***************************************************************************)
EXTENDS ReasoningSubscription, TypedEvents

CONSTANT Major       \* of the protocol the host speaks

VARIABLE log

Event(guard) ==
    LET type == CHOOSE t \in Discriminators[guard] : TRUE
    IN [type |-> TypeOn(Major, type), payload |-> PayloadSchemas[guard]]

Delta     == Event("isAgentReasoningDelta")
Closed    == Event("isAgentReasoned")
Malformed == [Delta EXCEPT !.payload = PayloadSchemas["isAgentReasoned"]]
Terminal  == [type |-> "run.completed", payload |-> <<>>]

(* The dispatch of the loop.                                               *)
CallbackOf(event) ==
    IF Narrows("isAgentReasoningDelta", event) THEN "onDelta"
    ELSE IF Narrows("isAgentReasoned", event) THEN "onClosed" ELSE "none"

RunInit ==
    /\ log \in [0 .. Last -> {Delta, Closed, Malformed, Terminal}]
    /\ log[Last] = Terminal
    /\ Init
    /\ callback = [n \in 0 .. Last |-> CallbackOf(log[n])]

RunSpec == RunInit /\ [][Next /\ UNCHANGED log]_<<vars, log>>

(* "Convenience wrapper over `streamEvents()` that dispatches the two      *)
(* RFC 0024 event types into typed callbacks": a consumer that passed both *)
(* callbacks has been given every delta and every closed block the stream  *)
(* has delivered under a name that the package's own list of event types   *)
(* knows.                                                                  *)
DispatchesReasoning ==
    pc = "next" /\ {"onDelta", "onClosed"} \subseteq given =>
        \A n \in Arrived :
            log[n] \in {Delta, Closed} /\ isKnownRunEventType(log[n].type)
                => n \in handled

=============================================================================
