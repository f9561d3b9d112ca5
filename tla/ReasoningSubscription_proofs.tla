-------------------- MODULE ReasoningSubscription_proofs --------------------
(***************************************************************************)
(* Proofs about ReasoningSubscription, for a run of any length, and about  *)
(* what it makes of the log of a run (ReasoningOfRun).                     *)
(***************************************************************************)
EXTENDS ReasoningOfRun, TLAPS

InLoop == pc \in {"next", "got", "handler", "report"}

AtTheEnd == status \in {"completed", "closed"} /\ handled = Wanted

(* The events that arrived begin behind `start`, or at it once the stream  *)
(* has made use of its one repetition.                                     *)
StreamInv ==
    /\ delivered - handed \in {start - 1, start} /\ delivered - handed >= -1
    /\ again => handed = 0 /\ delivered = start /\ start # -1

(* What was handed over, at each place of the task; between the arrival of *)
(* an event and its dispatch everything before it.                         *)
HandledInv ==
    /\ InLoop => status = "open"
    /\ pc \in {"next", "handler", "report"} => handled = Wanted
    /\ pc = "got" =>
          /\ handled = {n \in delivered - handed + 1 .. delivered - 1 : callback[n] \in given}
          /\ handed > 0
    /\ pc = "ending" => stopped \/ AtTheEnd
    /\ pc = "end" => AtTheEnd

IInv == TypeOK /\ StreamInv /\ HandledInv

LEMMA IInit == Init => IInv
  <1> SUFFICES ASSUME Init PROVE IInv
    OBVIOUS
  <1>1. /\ delivered \in -1 .. Last /\ start = delivered /\ status = "open"
        /\ handed = 0 /\ again \in BOOLEAN /\ (again => delivered # -1)
        /\ pc = "next" /\ handled = {} /\ stopped = FALSE /\ given \subseteq Callbacks
        /\ callback \in [0 .. Last -> {"onDelta", "onClosed", "none"}]
    BY DEF Init, Stream!Init
  <1>2. TypeOK
    BY <1>1 DEF TypeOK
  <1>3. StreamInv
    BY <1>1, LastAssumption DEF StreamInv
  <1>4. Wanted = {}
    BY <1>1, LastAssumption DEF Wanted, Arrived
  <1>5. HandledInv
    BY <1>1, <1>4, LastAssumption DEF HandledInv, InLoop
  <1> QED BY <1>2, <1>3, <1>5 DEF IInv

(* One more event: the next one, or the one at the starting position.      *)
LEMMA StreamMoves ==
  ASSUME TypeOK, StreamInv, StreamYields
  PROVE  /\ pc = "next" /\ pc' = "got" /\ status' = "open"
         /\ UNCHANGED <<given, callback, start, stopped, handled>>
         /\ delivered' \in -1 .. Last /\ handed' \in Nat \ {0} /\ again' = FALSE
         /\ delivered' - handed' + 1 .. delivered' - 1 = Arrived
         /\ StreamInv'
  <1>1. /\ delivered \in -1 .. Last /\ handed \in Nat /\ start \in -1 .. Last
        /\ delivered - handed \in {start - 1, start} /\ delivered - handed >= -1
        /\ again => handed = 0 /\ delivered = start /\ start # -1
    BY DEF TypeOK, StreamInv
  <1>2. /\ pc = "next" /\ pc' = "got" /\ status' = "open"
        /\ UNCHANGED <<given, callback, start, stopped, handled>>
        /\ handed' = handed + 1 /\ again' = FALSE
        /\ \/ delivered < Last /\ delivered' = delivered + 1
           \/ again /\ delivered' = delivered
    BY DEF StreamYields, Stream!Deliver, Stream!Repeat, frozen
  <1>3. CASE delivered < Last /\ delivered' = delivered + 1
    <2>1. delivered' - handed' = delivered - handed /\ delivered' - 1 = delivered
      BY <1>1, <1>2, <1>3, LastAssumption
    <2>2. delivered' \in -1 .. Last /\ handed' \in Nat \ {0}
      BY <1>1, <1>2, <1>3, LastAssumption
    <2> QED BY <1>1, <1>2, <2>1, <2>2 DEF StreamInv, Arrived
  <1>4. CASE again /\ delivered' = delivered
    <2>1. /\ delivered' - handed' = start - 1 /\ start - 1 >= -1
          /\ delivered' \in -1 .. Last /\ handed' \in Nat \ {0}
      BY <1>1, <1>2, <1>4, LastAssumption
    <2>2. delivered' - handed' + 1 .. delivered' - 1 = {} /\ Arrived = {}
      BY <1>1, <1>2, <1>4, <2>1, LastAssumption DEF Arrived
    <2> QED BY <1>2, <2>1, <2>2 DEF StreamInv
  <1> QED BY <1>2, <1>3, <1>4

LEMMA IStep == IInv /\ [Next]_vars => IInv'
  <1> SUFFICES ASSUME IInv, [Next]_vars PROVE IInv'
    OBVIOUS
  <1> USE LastAssumption DEF IInv, frozen, stream
  <1>1. CASE StreamYields
    <2>1. /\ pc = "next" /\ pc' = "got" /\ status' = "open"
          /\ UNCHANGED <<given, callback, start, stopped, handled>>
          /\ delivered' \in -1 .. Last /\ handed' \in Nat \ {0} /\ again' = FALSE
          /\ delivered' - handed' + 1 .. delivered' - 1 = Arrived
          /\ StreamInv'
      BY <1>1, StreamMoves
    <2>2. handled' = {n \in delivered' - handed' + 1 .. delivered' - 1 : callback'[n] \in given'}
      <3>1. handled = Wanted
        BY <2>1 DEF HandledInv
      <3> QED BY <2>1, <3>1 DEF Wanted
    <2>3. handed' > 0
      BY <2>1
    <2> QED BY <2>1, <2>2, <2>3 DEF TypeOK, HandledInv, InLoop
  <1>2. CASE Dispatch
    <2>1. /\ pc = "got" /\ UNCHANGED <<given, callback, start, stopped, delivered, handed, again>>
          /\ handled = {n \in delivered - handed + 1 .. delivered - 1 : callback[n] \in given}
          /\ delivered \in 0 .. Last /\ delivered \in Arrived
      <3>1. /\ delivered \in -1 .. Last /\ handed \in Nat /\ handed > 0
            /\ delivered - handed >= -1
        BY <1>2 DEF Dispatch, TypeOK, StreamInv, HandledInv
      <3>2. delivered \in 0 .. Last /\ delivered \in Arrived
        BY <3>1 DEF Arrived
      <3> QED BY <1>2, <3>2 DEF Dispatch, Stream!Stop, HandledInv
    <2>2. StreamInv'
      BY <2>1 DEF StreamInv
    <2>3. CASE Leaves
      BY <1>2, <2>1, <2>2, <2>3
      DEF Dispatch, Leaves, Stream!Stop, TypeOK, HandledInv, InLoop
    <2>4. CASE ~Leaves
      <3>1. /\ UNCHANGED <<given, callback, delivered, handed, status>>
            /\ \/ /\ callback[delivered] \in given
                  /\ pc' = "handler" /\ handled' = handled \cup {delivered}
               \/ /\ callback[delivered] \notin given
                  /\ pc' = "next" /\ handled' = handled
        BY <1>2, <2>1, <2>4 DEF Dispatch
      <3>2. \A n : n \in Arrived <=> n \in delivered - handed + 1 .. delivered - 1 \/ n = delivered
        BY <2>1 DEF Arrived, TypeOK
      <3>3. handled' = Wanted'
        BY <2>1, <3>1, <3>2 DEF Wanted, Arrived
      <3>4. handled' \subseteq 0 .. Last
        BY <2>1, <3>1 DEF TypeOK
      <3>5. status = "open"
        BY <2>1 DEF HandledInv, InLoop
      <3> QED BY <2>1, <2>2, <3>1, <3>3, <3>4, <3>5 DEF TypeOK, HandledInv, InLoop
    <2> QED BY <2>3, <2>4
  <1>3. ASSUME UNCHANGED <<given, callback, start, delivered, handed, again, handled>>
        PROVE  StreamInv' /\ Wanted' = Wanted
    BY <1>3 DEF StreamInv, Wanted, Arrived
  <1> USE DEF TypeOK, HandledInv, InLoop, AtTheEnd
  <1>4. CASE StreamEnds
    BY <1>3, <1>4 DEF StreamEnds, Stream!Complete, ServerCloses
  <1>5. CASE StreamAborts
    BY <1>3, <1>5 DEF StreamAborts, Stream!Stop
  <1>6. CASE StreamFails
    BY <1>3, <1>6 DEF StreamFails, Stream!Fail
  <1>7. CASE HandlerReturns \/ HandlerThrows \/ ReportReturns
    BY <1>3, <1>7 DEF HandlerReturns, HandlerThrows, ReportReturns
  <1>8. CASE ReportThrows
    BY <1>3, <1>8 DEF ReportThrows, Stream!Stop
  <1>9. CASE Ending
    BY <1>3, <1>9 DEF Ending, Announces
  <1>10. CASE EndReturns \/ EndThrows \/ Caught \/ LastSettles
    BY <1>3, <1>10 DEF EndReturns, EndThrows, Caught, LastSettles
  <1>11. CASE Unsubscribe \/ UNCHANGED vars
    BY <1>3, <1>11 DEF Unsubscribe, vars
  <1> QED BY <1>1, <1>2, <1>4, <1>5, <1>6, <1>7, <1>8, <1>9, <1>10, <1>11 DEF Next, Task

LEMMA Invariance == Spec => []IInv
  BY IInit, IStep, PTL DEF Spec

(* The task is well typed and calls only callbacks it was given.           *)
THEOREM CallsOnlyGiven == Spec => []TypeOK
  <1>1. IInv => TypeOK
    BY DEF IInv
  <1> QED BY <1>1, Invariance, PTL

(* Every event up to the task's position was handed over, whatever the     *)
(* callbacks did, and onEnd is called only for a stream that ended cleanly.*)
THEOREM HandsOverAll == Spec => []NothingSkipped
  <1>1. IInv => NothingSkipped
    BY DEF IInv, HandledInv, AtTheEnd, NothingSkipped
  <1> QED BY <1>1, Invariance, PTL

(* After the unsubscribe only a running callback's error is reported.      *)
THEOREM StaysQuiet == Spec => QuietAfterStop
  <1>1. [Next]_vars => [stopped /\ pc' # pc =>
                          /\ pc' \notin {"handler", "end", "last"}
                          /\ pc' = "report" => pc = "handler"]_vars
    <2> SUFFICES ASSUME Next, stopped, pc' # pc
                 PROVE  /\ pc' \notin {"handler", "end", "last"}
                        /\ pc' = "report" => pc = "handler"
      OBVIOUS
    <2>1. CASE StreamYields \/ StreamEnds \/ StreamAborts \/ StreamFails \/ Unsubscribe
      BY <2>1 DEF StreamYields, StreamEnds, StreamAborts, StreamFails, Unsubscribe
    <2>2. CASE Task
      BY <2>2 DEF Task, Dispatch, Leaves, HandlerReturns, HandlerThrows, ReportReturns,
                  ReportThrows, Ending, Announces, EndReturns, EndThrows, Caught, LastSettles
    <2> QED BY <2>1, <2>2 DEF Next
  <1> QED BY <1>1, PTL DEF Spec, QuietAfterStop

-----------------------------------------------------------------------------
(* What the documentation says of the helper, and when it is so.           *)

(* A callback that throws tears no stream down; what does is a throwing    *)
(* onError, so a consumer without one is safe from its own callbacks.      *)
THEOREM HandlersKeepStream ==
    Spec => []("onError" \notin given => BadHandlerKeepsStream)
  <1> DEFINE Kept == status = "stopped" => stopped \/ "onError" \in given
  <1>1. Init => Kept
    BY DEF Init, Stream!Init
  <1>2. IInv /\ Kept /\ [Next]_vars => Kept'
    <2> SUFFICES ASSUME IInv, Kept, [Next]_vars PROVE Kept'
      OBVIOUS
    <2> USE DEF frozen, stream
    <2>1. CASE StreamYields \/ StreamEnds \/ StreamAborts \/ StreamFails
      BY <2>1 DEF StreamYields, StreamEnds, StreamAborts, StreamFails,
                  Stream!Complete, ServerCloses, Stream!Stop, Stream!Fail
    <2>2. CASE Dispatch
      BY <2>2 DEF Dispatch, Leaves, Stream!Stop
    <2>3. CASE ReportThrows
      BY <2>3 DEF ReportThrows, IInv, TypeOK
    <2>4. CASE UNCHANGED <<given, status>> /\ (stopped => stopped')
      BY <2>4
    <2>5. CASE \/ HandlerReturns \/ HandlerThrows \/ ReportReturns \/ Ending
               \/ EndReturns \/ EndThrows \/ Caught \/ LastSettles
               \/ Unsubscribe \/ UNCHANGED vars
      BY <2>4, <2>5
      DEF HandlerReturns, HandlerThrows, ReportReturns, Ending, EndReturns,
          EndThrows, Caught, LastSettles, Unsubscribe, vars
    <2> QED BY <2>1, <2>2, <2>3, <2>5 DEF Next, Task
  <1>3. Kept => ("onError" \notin given => BadHandlerKeepsStream)
    BY DEF BadHandlerKeepsStream
  <1> QED BY <1>1, <1>2, <1>3, Invariance, PTL DEF Spec

(* Of a host of the first major, the guards know the two reasoning events. *)
LEMMA DeltaGuard ==
  /\ Discriminators["isAgentReasoningDelta"] = {"agent.reasoning.delta"}
  /\ Guards["isAgentReasoningDelta"] = AgentGuards.isAgentReasoningDelta
  /\ PayloadSchemas["isAgentReasoningDelta"] = AgentSchemas.isAgentReasoningDelta
  BY DEF Discriminators, Guards, PayloadSchemas, AgentDiscriminators, AgentGuards, AgentSchemas,
         Joined

LEMMA ClosedGuard ==
  /\ Discriminators["isAgentReasoned"] = {"agent.reasoned"}
  /\ Guards["isAgentReasoned"] = AgentGuards.isAgentReasoned
  /\ PayloadSchemas["isAgentReasoned"] = AgentSchemas.isAgentReasoned
  BY DEF Discriminators, Guards, PayloadSchemas, AgentDiscriminators, AgentGuards, AgentSchemas,
         Joined

LEMMA ReasoningHasCallback ==
  ASSUME Major = 1, NEW event \in {Delta, Closed}
  PROVE  CallbackOf(event) \in {"onDelta", "onClosed"}
  <1>1. AgentSchemas = AgentGuards
    BY DEF AgentSchemas, AgentGuards, HandoffFields
  <1>2. Narrows("isAgentReasoningDelta", Delta)
    <2>1. /\ Delta.type = "agent.reasoning.delta"
          /\ Delta.payload = AgentSchemas.isAgentReasoningDelta
      BY DeltaGuard DEF Delta, Event, TypeOn
    <2> QED BY <1>1, <2>1, DeltaGuard DEF Narrows, Satisfies, IsA
  <1>3. Narrows("isAgentReasoned", Closed)
    <2>1. /\ Closed.type = "agent.reasoned"
          /\ Closed.payload = AgentSchemas.isAgentReasoned
      BY ClosedGuard DEF Closed, Event, TypeOn
    <2> QED BY <1>1, <2>1, ClosedGuard DEF Narrows, Satisfies, IsA
  <1> QED BY <1>2, <1>3 DEF CallbackOf

(* The log decides which callback an event goes to, and neither changes.   *)
LogInv == \A n \in 0 .. Last : callback[n] = CallbackOf(log[n])

LEMMA FrozenStays == [Next]_vars => UNCHANGED <<given, callback, start>>
  BY DEF Next, Task, vars, frozen, StreamYields, StreamEnds, StreamAborts, StreamFails,
         Dispatch, HandlerReturns, HandlerThrows, ReportReturns, ReportThrows, Ending,
         EndReturns, EndThrows, Caught, LastSettles, Unsubscribe

LEMMA RunIsRead == RunSpec => Spec /\ []LogInv
  <1>1. RunInit => Init /\ LogInv
    BY DEF RunInit, LogInv
  <1>2. [Next /\ UNCHANGED log]_<<vars, log>> => [Next]_vars
    OBVIOUS
  <1>3. LogInv /\ [Next /\ UNCHANGED log]_<<vars, log>> => LogInv'
    BY <1>2, FrozenStays DEF LogInv
  <1> QED BY <1>1, <1>2, <1>3, PTL DEF RunSpec, Spec

(* On the log of a host of the first major a consumer that passed both     *)
(* callbacks is given every delta and every closed block that arrives.     *)
THEOREM FirstMajorIsDispatched == Major = 1 => (RunSpec => []DispatchesReasoning)
  <1> SUFFICES ASSUME Major = 1 PROVE RunSpec => []DispatchesReasoning
    OBVIOUS
  <1>1. IInv /\ LogInv => DispatchesReasoning
    <2> SUFFICES ASSUME IInv, LogInv, pc = "next", {"onDelta", "onClosed"} \subseteq given,
                        NEW n \in Arrived, log[n] \in {Delta, Closed}
                 PROVE  n \in handled
      BY DEF DispatchesReasoning
    <2>1. n \in 0 .. Last
      BY LastAssumption DEF IInv, TypeOK, StreamInv, Arrived
    <2>2. callback[n] \in given
      BY <2>1, ReasoningHasCallback DEF LogInv
    <2> QED BY <2>2 DEF IInv, HandledInv, Wanted
  <1> QED BY <1>1, RunIsRead, Invariance, PTL

=============================================================================
