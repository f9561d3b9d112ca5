-------------------------- MODULE SseDelivery_proofs --------------------------
(***************************************************************************)
(* Proofs about how a subscription of SseResume ends, and that it keeps    *)
(* the promise of EventDelivery, for every run length, batch size, attempt *)
(* and fault bound and every set of scenarios.                             *)
(***************************************************************************)
EXTENDS SseResume_proofs

(* The connection has ended, its last documents are perhaps still on their *)
(* way to the consumer, and Decide comes next.                             *)
Ending == pc = "decide" \/ (pc = "deliver" /\ after = "decide")

-----------------------------------------------------------------------------
(* Giving up.  The code counts `failures`; `barren` counts what that is    *)
(* meant to be, the attempts in a row that brought no frame and failed.    *)
(* The counter lags behind by the attempt that Decide has not judged yet,  *)
(* and may run ahead only while a frame has been seen, which is what makes *)
(* Decide reset it.                                                        *)
AttemptInv ==
    /\ outcome # "running" => pc = "done"
    /\ pc \in {"wait", "connect"} => failures <= barren
    /\ Reading \/ pc = "fetch" => framesSeen \/ failures <= barren
    /\ Ending /\ Fruitless => failures < barren \/ (QuietClose /\ HasTerminal)
    /\ GivesUpLate

LEMMA AttemptInit == Init => AttemptInv
  BY DEF Init, AttemptInv, Ending, Reading, GivesUpLate

(* A step that is not about connections leaves the counts as they are.     *)
LEMMA AttemptKeeps ==
  ASSUME AttemptInv,
         UNCHANGED <<scn, outcome, failures, barren, framesSeen, failure, old, established>>,
         UNCHANGED <<pc, after>>
         \/ (pc = "deliver" /\ pc' = after /\ UNCHANGED after /\ after \in {"read", "decide"})
  PROVE  AttemptInv'
  <1>1. QuietClose' = QuietClose /\ HasTerminal' = HasTerminal /\ (Fruitless' <=> Fruitless)
    BY DEF QuietClose, HasTerminal, Fruitless
  <1>2. (Ending' => Ending) /\ (Reading' => Reading) /\ GivesUpLate'
    BY DEF Ending, Reading, AttemptInv, GivesUpLate
  <1>3. /\ (outcome' # "running" => pc' = "done")
        /\ (pc' \in {"wait", "connect"} => pc \in {"wait", "connect"})
        /\ (pc' = "fetch" => pc = "fetch")
    BY DEF AttemptInv
  <1> QED BY <1>1, <1>2, <1>3 DEF AttemptInv

(* The end of a body that brought no frame counts, on a channel whose end  *)
(* is not in its silence.                                                  *)
LEMMA AttemptBody ==
  ASSUME TypeInv, WireInv, AttemptInv, BodyEnds \/ BodyBreaks
  PROVE  AttemptInv'
  <1>1. /\ pc = "read" /\ UNCHANGED <<scn, old, established, failures, stopped>>
        /\ framesSeen' \in BOOLEAN
    <2>1. CASE BodyEnds
      BY <2>1, StepFlushTypes DEF BodyEnds, FlushTyped
    <2>2. CASE BodyBreaks /\ scn.sdk = "go"
      BY <2>2, StepFlushTypes DEF BodyBreaks, FlushTyped
    <2>3. CASE BodyBreaks /\ scn.sdk # "go"
      BY <2>3 DEF BodyBreaks, TypeInv, TypeOK
    <2> QED BY <2>1, <2>2, <2>3
  <1>2. failures \in Nat /\ barren \in Nat /\ outcome = "running"
    BY <1>1, SseAssumption DEF TypeInv, TypeOK, AttemptInv
  <1>3. framesSeen => framesSeen'
    <2>1. ASSUME NEW t, NEW g, Flush(t[1], t[2], g, "decide") PROVE framesSeen => framesSeen'
      BY <2>1 DEF Flush
    <2>2. CASE BodyEnds
      BY <2>1, <2>2, FinalFlushes DEF BodyEnds
    <2>3. CASE BodyBreaks /\ scn.sdk = "go"
      BY <2>1, <2>3 DEF BodyBreaks, GoFinalFlush
    <2>4. CASE BodyBreaks /\ scn.sdk # "go"
      BY <2>4 DEF BodyBreaks
    <2> QED BY <2>2, <2>3, <2>4
  <1>4. framesSeen \/ failures <= barren
    BY <1>1 DEF AttemptInv, Reading
  <1>5. ~framesSeen' => failures' <= barren
    BY <1>1, <1>3, <1>4
  <1>6. CASE BodyEnds
    <2>1. pc' = "deliver" /\ after' = "decide" /\ UNCHANGED <<outcome, failure>>
      BY <1>6 DEF BodyEnds, FinalFlush, TsFinalFlush, PyFinalFlush, GoFinalFlush, Flush
    <2>2. barren' = IF framesSeen' \/ old \/ HasTerminal THEN 0 ELSE barren + 1
      BY <1>6 DEF BodyEnds
    <2>3. failure' = "none"
      BY <1>1, <2>1 DEF WireInv, Reading
    <2>4. Fruitless' => ~framesSeen' /\ ~old /\ QuietClose'
      BY <1>1, <2>3 DEF Fruitless, QuietClose
    <2>5. Fruitless' => failures' < barren' \/ (QuietClose' /\ HasTerminal')
      BY <1>1, <1>2, <1>5, <2>2, <2>4 DEF HasTerminal
    <2> QED BY <1>2, <2>1, <2>5 DEF AttemptInv, Reading, GivesUpLate
  <1>7. CASE BodyBreaks
    <2>1. barren' = (IF framesSeen' THEN 0 ELSE barren + 1) /\ failure' = "stream"
      BY <1>7 DEF BodyBreaks
    <2>2. Fruitless' => failures' < barren'
      BY <1>1, <1>2, <1>5, <2>1 DEF Fruitless
    <2>3. CASE scn.sdk = "go"
      <3>1. pc' = "deliver" /\ after' = "decide" /\ UNCHANGED outcome
        BY <1>7, <2>3 DEF BodyBreaks, GoFinalFlush, Flush
      <3> QED BY <1>2, <2>2, <3>1 DEF AttemptInv, Reading, GivesUpLate
    <2>4. CASE scn.sdk # "go"
      <3>1. \/ pc' = "decide" /\ UNCHANGED outcome
            \/ pc' = "done" /\ outcome' = "ended"
            \/ pc' = "done" /\ ~scn.reconnect
        BY <1>7, <2>4 DEF BodyBreaks, Finish
      <3> QED BY <1>1, <1>2, <2>2, <3>1 DEF AttemptInv, Reading, Ending, GivesUpLate
    <2> QED BY <2>3, <2>4
  <1> QED BY <1>6, <1>7

LEMMA AttemptStep ==
  TypeInv /\ WireInv /\ AttemptInv /\ [Next]_vars => AttemptInv'
  <1> SUFFICES ASSUME TypeInv, WireInv, AttemptInv, [Next]_vars PROVE AttemptInv'
    OBVIOUS
  <1> USE DEF hostVars, cursorVars, parseVars, outVars
  <1>0. /\ failures \in Nat /\ barren \in Nat /\ MaxAttempts \in Nat
        /\ after \in {"read", "decide"}
        /\ established \in BOOLEAN /\ framesSeen \in BOOLEAN /\ old \in BOOLEAN
    BY SseAssumption DEF TypeInv, TypeOK
  <1>1. CASE \/ HostLogs \/ HostSends \/ HostSendsEphemeral \/ ReadId \/ ReadData \/ Abort
             \/ UNCHANGED vars
    BY <1>1, AttemptKeeps DEF HostLogs, HostSends, HostSendsEphemeral, ReadId, ReadData,
                              Abort, vars
  <1>2. CASE FloorPasses
    BY <1>2 DEF FloorPasses, ClockRuns, AttemptInv, Ending, Reading, GivesUpLate
  <1>3. CASE StartConnect
    BY <1>3 DEF StartConnect, Finish, AttemptInv, Ending, Reading, GivesUpLate
  <1>4. CASE ConnectOk
    BY <1>4 DEF ConnectOk, AttemptInv, Ending, Reading, GivesUpLate
  <1>5. ASSUME NEW why \in {"network", "retryable", "refused"}, ConnectFails(why)
        PROVE  AttemptInv'
    <2>1. /\ pc = "fetch" /\ outcome = "running" /\ (framesSeen \/ failures <= barren)
          /\ failure' = why /\ barren' = barren + 1
          /\ UNCHANGED <<scn, established, failures, framesSeen, old>>
      BY <1>5 DEF ConnectFails, AttemptInv
    <2>2. \/ pc' = "done" /\ outcome' = "ended"
          \/ pc' = "done" /\ (~scn.reconnect \/ ~established \/ why = "refused")
          \/ pc' = "decide" /\ UNCHANGED outcome
      BY <1>5 DEF ConnectFails, Finish
    <2>3. Fruitless' => failures' < barren'
      BY <1>0, <2>1 DEF Fruitless
    <2>4. GivesUpLate'
      BY <1>0, <2>1, <2>2 DEF GivesUpLate
    <2> QED BY <1>0, <2>1, <2>2, <2>3, <2>4 DEF AttemptInv, Ending, Reading
  <1>6. CASE ConnectError \/ ConnectAborted
    BY <1>5, <1>6 DEF ConnectError, ConnectAborted
  <1>7. CASE ReadBlank
    <2>1. /\ pc = "read" /\ pc' = "deliver" /\ after' = "read"
          /\ framesSeen' = (framesSeen \/ pendingData)
          /\ barren' = (IF pendingData THEN 0 ELSE barren)
          /\ UNCHANGED <<scn, outcome, failures, established, failure>>
      BY <1>7 DEF ReadBlank, Flush
    <2> QED BY <2>1 DEF AttemptInv, Ending, Reading, GivesUpLate
  <1>8. CASE Yield
    <2>1. CASE UNCHANGED <<pc, outcome, stopped>>
      BY <1>8, <2>1, AttemptKeeps DEF Yield
    <2>2. CASE Finish("ended")
      BY <1>8, <2>2 DEF Yield, Finish, AttemptInv, Ending, Reading, GivesUpLate
    <2> QED BY <1>8, <2>1, <2>2 DEF Yield
  <1>9. CASE SendCancelled
    BY <1>9 DEF SendCancelled, Finish, AttemptInv, Ending, Reading, GivesUpLate
  <1>10. CASE Delivered
    <2>1. CASE terminal
      BY <1>10, <2>1 DEF Delivered, Finish, AttemptInv, Ending, Reading, GivesUpLate
    <2>2. CASE ~terminal
      BY <1>0, <1>10, <2>2, AttemptKeeps DEF Delivered
    <2> QED BY <2>1, <2>2
  <1>11. CASE BodyEnds \/ BodyBreaks
    BY <1>11, AttemptBody
  <1>12. CASE Decide
    <2>1. /\ pc = "decide" /\ outcome = "running"
          /\ UNCHANGED <<scn, barren, established>>
          /\ Fruitless => failures < barren \/ (QuietClose /\ HasTerminal)
      BY <1>12 DEF Decide, AttemptInv, Ending
    <2>2. \/ pc' = "done" /\ outcome' = "ended"
          \/ /\ ~(QuietClose /\ HasTerminal)
             /\ failures' = IF Fruitless THEN failures + 1 ELSE 0
             /\ \/ pc' = "done" /\ failures' > MaxAttempts
                \/ pc' = "wait" /\ UNCHANGED outcome
      BY <1>12 DEF Decide, Finish, GivesUp
    <2>3. CASE pc' = "done" /\ outcome' = "ended"
      BY <2>3 DEF AttemptInv, Ending, Reading, GivesUpLate
    <2>4. CASE /\ ~(QuietClose /\ HasTerminal)
               /\ failures' = IF Fruitless THEN failures + 1 ELSE 0
               /\ \/ pc' = "done" /\ failures' > MaxAttempts
                  \/ pc' = "wait" /\ UNCHANGED outcome
      <3>1. failures' <= barren'
        BY <1>0, <2>1, <2>4
      <3>2. pc' = "done" => barren' > MaxAttempts
        BY <1>0, <2>1, <2>4, <3>1
      <3> QED BY <2>1, <2>4, <3>1, <3>2 DEF AttemptInv, Ending, Reading, GivesUpLate
    <2> QED BY <2>2, <2>3, <2>4
  <1>13. CASE Wait
    BY <1>13 DEF Wait, Finish, AttemptInv, Ending, Reading, GivesUpLate
  <1> QED BY <1>1, <1>2, <1>3, <1>4, <1>6, <1>7, <1>8, <1>9, <1>10, <1>11, <1>12, <1>13
          DEF Next

(* An established subscription fails on a refusal, or after more than      *)
(* maxAttempts attempts in a row that brought nothing.                     *)
THEOREM LateGivingUp == Spec => []GivesUpLate
  <1>1. TypeInv /\ WireInv /\ AttemptInv /\ [Next]_vars
           => TypeInv' /\ WireInv' /\ AttemptInv'
    BY TypeStep, WireStep, AttemptStep
  <1>2. Init => TypeInv /\ WireInv /\ AttemptInv
    BY TypeInit, PositionInit, AttemptInit
  <1>3. AttemptInv => GivesUpLate
    BY DEF AttemptInv
  <1> QED BY <1>1, <1>2, <1>3, PTL DEF Spec

-----------------------------------------------------------------------------
(* Ending cleanly.  Two ways of ending are no error and no stop: the       *)
(* terminal document was handed over, or the stream was silent and closed  *)
(* young.  In the first the document is in the queue, or was; in the       *)
(* second the host closes because the run is over, so that the position of *)
(* the reader is the last event's, and that event is covered.              *)
TerminalInv ==
    terminal /\ pc = "deliver" /\ Decodes =>
        IF outNext <= outEnd THEN outEnd = Last ELSE Has(Last)

SilentInv ==
    /\ Ending /\ QuietClose /\ scn.reconnect
    /\ HasTerminal /\ LosslessEnds /\ ~scn.quick
    => cursor = Last

EndInv ==
    /\ outcome # "running" => pc = "done"
    /\ TerminalInv
    /\ SilentInv
    /\ EndsAtTerminal

LEMMA SeenHas == \A n : Has(n) <=> n \in Seen
  BY DEF Has, Seen

LEMMA EndInit == Init => EndInv
  BY DEF Init, EndInv, TerminalInv, SilentInv, Ending, EndsAtTerminal

(* A flush that finds the terminal document queues it.                     *)
LEMMA TerminalFlush ==
  ASSUME NEW id, NEW data, NEW guard, NEW then, Flush(id, data, guard, then),
         UNCHANGED scn
  PROVE  TerminalInv'
  <1> SUFFICES ASSUME terminal', Decodes' PROVE outNext' <= outEnd' /\ outEnd' = Last
    BY DEF TerminalInv
  <1>1. Decodes /\ data /\ FirstNew(guard) <= frame.hi /\ frame.hi = Last
    BY DEF Flush, Decodes, IsTerminal
  <1> QED BY <1>1 DEF Flush

(* The close of a silent, young connection comes from a run that is over.  *)
LEMMA SilentBody ==
  ASSUME TypeInv, WireInv, PlaceInv, BodyEnds \/ BodyBreaks
  PROVE  SilentInv'
  <1> SUFFICES ASSUME QuietClose', scn'.reconnect, HasTerminal', LosslessEnds', ~scn'.quick
               PROVE  cursor' = Last
    BY DEF SilentInv
  <1>1. UNCHANGED <<scn, old, sent, stopped>> /\ pc = "read"
    BY DEF BodyEnds, BodyBreaks
  <1>2. BodyEnds
    BY DEF BodyBreaks, QuietClose
  <1>3. LosslessEnds /\ scn.reconnect /\ ~scn.quick /\ ~old' /\ ~framesSeen'
    BY <1>1 DEF LosslessEnds, QuietClose
  <1>4. ~onWire
    BY <1>2, <1>3 DEF BodyEnds, LosslessEnds
  <1>5. framesSeen => framesSeen'
    <2>1. ASSUME NEW t, NEW g, Flush(t[1], t[2], g, "decide") PROVE framesSeen => framesSeen'
      BY <2>1 DEF Flush
    <2> QED BY <1>2, <2>1, FinalFlushes DEF BodyEnds
  <1>6. RunOver
    BY <1>1, <1>2, <1>3, <1>4, <1>5 DEF BodyEnds
  <1>7. CaughtUp
    BY <1>1, <1>3, <1>4 DEF PlaceInv, Reading, Cancelled
  <1>8. cursor = Last
    BY <1>6, <1>7, SseAssumption DEF RunOver, CaughtUp, TypeInv, TypeOK, NoCursor
  <1>9. ~Cancelled'
    BY <1>1, <1>2 DEF Cancelled, QuietClose
  <1> QED BY <1>3, <1>2, <1>8, <1>9, LosslessEnd

(* Where the reader stands at its last event, that event was handed over.  *)
LEMMA LastIsCovered ==
  ASSUME TypeInv, WireInv, CoverInv, SilentInv, EndInv, Decide,
         QuietClose, HasTerminal, scn.reconnect, Decodes, LosslessEnds, ~scn.quick
  PROVE  Last \in Seen \/ scn.start = Last
  <1>1. pc = "decide" /\ cursor = Last
    BY DEF Decide, SilentInv, Ending
  <1>2. ~Cancelled /\ outEnd < outNext
    BY <1>1 DEF Cancelled, QuietClose, WireInv
  <1>3. \A n \in scn.start + 1 .. Last : Has(n) \/ n \in outNext .. outEnd
    BY <1>1, <1>2 DEF CoverInv
  <1>4. Last \in Int /\ scn.start \in NoCursor .. Last /\ outNext \in Int /\ outEnd \in Int
    BY SseAssumption DEF TypeInv, TypeOK, Scenario
  <1>5. Last \notin outNext .. outEnd
    BY <1>2, <1>4
  <1>6. scn.start # Last => Last \in scn.start + 1 .. Last
    BY <1>4 DEF NoCursor
  <1> QED BY <1>3, <1>5, <1>6, SeenHas

(* A step that leaves queue, position and outcome alone.                   *)
LEMMA EndKeeps ==
  ASSUME EndInv, UNCHANGED <<scn, cursor, yielded, outNext, outEnd>>,
         \/ pc' # "deliver"
         \/ UNCHANGED <<terminal, pc>>,
         \/ ~Ending'
         \/ Ending /\ UNCHANGED <<failure, framesSeen, old>>
         \/ failure' # "none",
         outcome' # "running" => pc' = "done",
         \/ UNCHANGED <<outcome, stopped>>
         \/ outcome' # "ended" \/ stopped'
  PROVE  EndInv'
  <1>1. TerminalInv'
    BY DEF EndInv, TerminalInv, Decodes, Has
  <1>2. SilentInv'
    BY DEF EndInv, SilentInv, QuietClose, HasTerminal, LosslessEnds
  <1>3. EndsAtTerminal'
    BY DEF EndInv, EndsAtTerminal, HasTerminal, Decodes, LosslessEnds, Seen
  <1> QED BY <1>1, <1>2, <1>3 DEF EndInv

LEMMA EndStep ==
  TypeInv /\ WireInv /\ PlaceInv /\ CoverInv /\ EndInv /\ [Next]_vars => EndInv'
  <1> SUFFICES ASSUME TypeInv, WireInv, PlaceInv, CoverInv, EndInv, [Next]_vars
               PROVE  EndInv'
    OBVIOUS
  <1> USE DEF hostVars, cursorVars, parseVars, outVars
  <1>0. /\ outcome # "running" => pc = "done"
        /\ outNext \in Int /\ outEnd \in Int /\ after \in {"read", "decide"}
        /\ stopped \in BOOLEAN
    BY SseAssumption DEF TypeInv, TypeOK, EndInv
  <1>1. CASE \/ HostLogs \/ HostSends \/ HostSendsEphemeral \/ ReadId \/ ReadData
             \/ UNCHANGED vars
    BY <1>0, <1>1, EndKeeps DEF HostLogs, HostSends, HostSendsEphemeral, ReadId, ReadData, vars,
                                        Ending
  <1>2. CASE FloorPasses
    BY <1>0, <1>2, EndKeeps DEF FloorPasses, ClockRuns, Ending
  <1>3. CASE StartConnect
    BY <1>0, <1>3, EndKeeps DEF StartConnect, Finish, Ending
  <1>4. CASE ConnectOk
    BY <1>0, <1>4, EndKeeps DEF ConnectOk, Ending
  <1>5. ASSUME NEW why \in {"network", "retryable", "refused"}, ConnectFails(why)
        PROVE  EndInv'
    <2>1. \/ pc' = "done" /\ outcome' = "ended" /\ stopped'
          \/ pc' = "done" /\ outcome' = "failed"
          \/ pc' = "decide" /\ UNCHANGED outcome /\ pc = "fetch"
      BY <1>5 DEF ConnectFails, Finish, AbortNoticed
    <2>2. UNCHANGED <<scn, cursor, yielded, outNext, outEnd, stopped>> /\ failure' # "none"
      BY <1>5 DEF ConnectFails
    <2> QED BY <1>0, <2>1, <2>2, EndKeeps
  <1>6. CASE ConnectError \/ ConnectAborted
    BY <1>5, <1>6 DEF ConnectError, ConnectAborted
  <1>7. CASE ReadBlank
    <2>1. /\ Flush(pendingId, pendingData, TRUE, "read") /\ UNCHANGED <<scn, outcome>>
          /\ pc = "read"
      BY <1>7 DEF ReadBlank
    <2>2. pc' = "deliver" /\ after' = "read"
      BY <2>1 DEF Flush
    <2> QED BY <1>0, <2>1, <2>2, TerminalFlush DEF EndInv, SilentInv, Ending, EndsAtTerminal
  <1>8. CASE Yield
    <2>1. /\ pc = "deliver" /\ UNCHANGED <<scn, cursor, failure, framesSeen, old, terminal, after>>
          /\ \/ UNCHANGED <<pc, outcome, stopped>>
             \/ pc' = "done" /\ outcome' = "ended" /\ stopped'
      BY <1>8 DEF Yield, Finish
    <2>2. TerminalInv'
      <3> SUFFICES ASSUME terminal', Decodes', pc' = "deliver"
                   PROVE  IF outNext' <= outEnd' THEN outEnd' = Last ELSE Has(Last)'
        BY DEF TerminalInv
      <3>1. outEnd = Last
        BY <1>8, <2>1, YieldMoves DEF EndInv, TerminalInv, Decodes
      <3>2. CASE outNext' <= outEnd'
        BY <1>8, <3>1, <3>2, YieldMoves
      <3>3. CASE ~(outNext' <= outEnd')
        <4>1. outNext = Last
          BY <1>8, <3>1, <3>3, YieldMoves
        <4> QED BY <1>8, <3>3, <4>1, YieldMoves DEF Has
      <3> QED BY <3>2, <3>3
    <2>3. SilentInv'
      BY <2>1 DEF EndInv, SilentInv, QuietClose, HasTerminal, LosslessEnds, Ending
    <2>4. EndsAtTerminal' /\ (outcome' # "running" => pc' = "done")
      BY <1>0, <2>1 DEF EndsAtTerminal
    <2> QED BY <2>2, <2>3, <2>4 DEF EndInv
  <1>9. CASE SendCancelled
    BY <1>9, EndKeeps DEF SendCancelled, Finish, Ending
  <1>10. CASE Delivered
    <2>1. CASE terminal
      <3>1. Decodes => Last \in Seen
        BY <1>0, <1>10, <2>1, SeenHas DEF Delivered, EndInv, TerminalInv
      <3>2. pc' = "done" /\ UNCHANGED <<scn, yielded, stopped>>
        BY <1>10, <2>1 DEF Delivered, Finish
      <3>3. EndsAtTerminal'
        BY <3>1, <3>2 DEF EndsAtTerminal, Decodes, Seen
      <3> QED BY <3>2, <3>3 DEF EndInv, TerminalInv, SilentInv, Ending
    <2>2. CASE ~terminal
      BY <1>0, <1>10, <2>2, EndKeeps DEF Delivered, Ending
    <2> QED BY <2>1, <2>2
  <1>11. CASE BodyEnds \/ BodyBreaks
    <2>1. SilentInv'
      BY <1>11, SilentBody
    <2>2. TerminalInv'
      <3>1. UNCHANGED scn
        BY <1>11 DEF BodyEnds, BodyBreaks
      <3>2. CASE BodyEnds
        BY <3>1, <3>2, FinalFlushes, TerminalFlush DEF BodyEnds
      <3>3. CASE BodyBreaks /\ scn.sdk = "go"
        BY <3>1, <3>3, TerminalFlush DEF BodyBreaks, GoFinalFlush
      <3>4. CASE BodyBreaks /\ scn.sdk # "go"
        BY <3>4 DEF BodyBreaks, Finish, TerminalInv
      <3> QED BY <1>11, <3>2, <3>3, <3>4
    <2>3. /\ outcome' # "running" => pc' = "done"
          /\ outcome' = "ended" => stopped'
      BY <1>0, <1>11 DEF BodyEnds, BodyBreaks, Finish
    <2> QED BY <2>1, <2>2, <2>3 DEF EndInv, EndsAtTerminal
  <1>12. CASE Decide
    <2>1. /\ pc = "decide" /\ outcome = "running"
          /\ UNCHANGED <<scn, stopped, yielded, cursor, outNext, outEnd>>
          /\ \/ pc' = "done" /\ outcome' = "failed"
             \/ pc' = "wait" /\ UNCHANGED outcome
             \/ pc' = "done" /\ outcome' = "ended" /\ (StopsHere \/ (QuietClose /\ HasTerminal))
      BY <1>0, <1>12 DEF Decide, Finish
    <2>2. CASE outcome' # "ended"
      BY <2>1, <2>2, EndKeeps DEF Ending
    <2>3. CASE pc' = "done" /\ (StopsHere \/ (QuietClose /\ HasTerminal))
      <3>1. EndsAtTerminal'
        <4> SUFFICES ASSUME ~stopped, scn.reconnect, HasTerminal, Decodes, LosslessEnds,
                            ~scn.quick
                     PROVE  Last \in Seen \/ scn.start = Last
          BY <2>1 DEF EndsAtTerminal, HasTerminal, Decodes, LosslessEnds, Seen
        <4> QED BY <1>12, <2>3, LastIsCovered DEF StopsHere, EndInv
      <3> QED BY <2>3, <3>1 DEF EndInv, TerminalInv, SilentInv, Ending
    <2> QED BY <1>0, <2>1, <2>2, <2>3
  <1>13. CASE Wait
    BY <1>0, <1>13, EndKeeps DEF Wait, Finish, Ending
  <1>14. CASE Abort
    BY <1>0, <1>14, EndKeeps DEF Abort, Ending
  <1> QED BY <1>1, <1>2, <1>3, <1>4, <1>6, <1>7, <1>8, <1>9, <1>10, <1>11, <1>12, <1>13, <1>14
          DEF Next

LEMMA EndInvariance == Spec => []EndInv
  <1>1. IInv /\ EndInv /\ [Next]_vars => EndInv'
    BY EndStep DEF IInv
  <1> QED BY <1>1, EndInit, Invariance, PTL DEF Spec

(* A subscription that ends without an error and without being stopped     *)
(* handed over the terminal event, where no proxy closes early in silence  *)
(* and no connection ends inside a frame beyond repair.                    *)
THEOREM EndingAtTerminal == Spec => []EndsAtTerminal
  <1>1. EndInv => EndsAtTerminal
    BY DEF EndInv
  <1> QED BY <1>1, EndInvariance, PTL

-----------------------------------------------------------------------------
(* The promise of EventDelivery.                                           *)

(* The subscriptions that hand over every event, in order: run events, and *)
(* no connection that ends inside a frame beyond repair.                   *)
Kept == Guarded /\ LosslessEnds

(* The queue continues where the consumer is, and the cursor is where the  *)
(* consumer will be once the queue is empty; so is the duplicate guard,    *)
(* once it has seen a document.                                            *)
PromiseInv ==
    Kept =>
        /\ Position >= scn.start
        /\ outNext <= outEnd => outNext = Position + 1 \/ (MayRepeat /\ outNext = Position)
        /\ ~Cancelled =>
              /\ IF outNext <= outEnd THEN outEnd = cursor ELSE Position = cursor
              /\ \/ maxSequence = cursor
                 \/ maxSequence = -1 /\ (~scn.resends \/ (MayRepeat /\ outEnd < outNext))

LEMMA PositionTypes ==
  ASSUME TypeInv
  PROVE  /\ scn.start \in NoCursor .. Last /\ Position \in -1 .. Last
         /\ cursor \in NoCursor .. Last /\ maxSequence \in -1 .. Last
         /\ outNext \in Int /\ outEnd \in Int /\ outEnd <= Last
         /\ frame.lo \in -1 .. Last /\ frame.hi \in -1 .. Last
  <1>1. /\ scn.start \in NoCursor .. Last /\ yielded \in Seq(-1 .. Last)
        /\ cursor \in NoCursor .. Last /\ maxSequence \in -1 .. Last
        /\ outNext \in Int /\ outEnd \in Int /\ outEnd <= Last
        /\ frame.lo \in -1 .. Last /\ frame.hi \in -1 .. Last
    BY SseAssumption DEF TypeInv, TypeOK, Scenario
  <1>2. ASSUME NEW S, NEW s \in Seq(S), s # <<>> PROVE s[Len(s)] \in S
    BY <1>2
  <1>3. Position \in -1 .. Last
    BY <1>1, <1>2 DEF Position, NoCursor
  <1> QED BY <1>1, <1>3

LEMMA PromiseInit == Init => PromiseInv
  <1> SUFFICES ASSUME Init PROVE PromiseInv
    OBVIOUS
  <1>1. scn.start \in NoCursor .. Last /\ scn.resends \in BOOLEAN
    BY SseAssumption DEF Init, Scenario
  <1>2. Position = scn.start /\ cursor = scn.start /\ maxSequence = -1
        /\ outNext = 0 /\ outEnd = -1 /\ yielded = <<>>
    BY DEF Init, Position
  <1> QED BY <1>1, <1>2, SseAssumption DEF PromiseInv, MayRepeat, NoCursor

(* The frame on the wire begins, behind the guard, where the reader is, or *)
(* with the event there, which only a caller that gave it may see again.   *)
LEMMA FrameContinues ==
  ASSUME TypeInv, WireInv, PlaceInv, PromiseInv, Kept, pc = "read", onWire
  PROVE  /\ NextFrame /\ Position = cursor /\ Decodes
         /\ \/ Larger(frame.lo, maxSequence + 1) = cursor + 1
            \/ MayRepeat /\ Larger(frame.lo, maxSequence + 1) = cursor
  <1>1. ~Cancelled /\ outEnd < outNext
    BY DEF Cancelled, WireInv
  <1>2. NextFrame
    BY <1>1 DEF PlaceInv, Kept, Reading, EphemeralFrame
  <1>3. Position = cursor
    BY <1>1, PositionTypes DEF PromiseInv
  <1>4. \/ Larger(frame.lo, maxSequence + 1) = cursor + 1
        \/ MayRepeat /\ Larger(frame.lo, maxSequence + 1) = cursor
    <2>1. \/ maxSequence = cursor
          \/ maxSequence = -1 /\ (~scn.resends \/ MayRepeat)
      BY <1>1 DEF PromiseInv
    <2>2. /\ frame.lo \in {cursor, cursor + 1} /\ frame.lo >= 0
          /\ ~scn.resends => frame.lo = cursor + 1
      BY <1>2 DEF NextFrame
    <2> QED BY <2>1, <2>2, PositionTypes DEF Larger, NoCursor
  <1> QED BY <1>2, <1>3, <1>4 DEF Kept, Guarded, Decodes

LEMMA YieldPosition ==
  ASSUME TypeInv, Yield
  PROVE  Position' = outNext
  <1>1. yielded' = Append(yielded, outNext) /\ yielded \in Seq(-1 .. Last)
    BY DEF Yield, TypeInv, TypeOK
  <1>2. ASSUME NEW S, NEW s \in Seq(S), NEW e
        PROVE  Append(s, e) # <<>> /\ Append(s, e)[Len(Append(s, e))] = e
    BY <1>2
  <1> QED BY <1>1, <1>2 DEF Position

LEMMA PromiseStep ==
  TypeInv /\ WireInv /\ PlaceInv /\ PromiseInv /\ [Next]_vars => PromiseInv'
  <1> SUFFICES ASSUME TypeInv, WireInv, PlaceInv, PromiseInv, [Next]_vars, Kept'
               PROVE  PromiseInv'
    BY DEF PromiseInv
  <1>0. scn' = scn
    BY StepKinds DEF ReadBlank, Yield, BodyEnds, BodyBreaks
  <1>1. Kept /\ (~Cancelled' => ~Cancelled)
    BY <1>0, CancelledForGood DEF Kept, Guarded, LosslessEnds
  <1>2. /\ Position >= scn.start
        /\ outNext <= outEnd => outNext = Position + 1 \/ (MayRepeat /\ outNext = Position)
        /\ ~Cancelled =>
              /\ IF outNext <= outEnd THEN outEnd = cursor ELSE Position = cursor
              /\ \/ maxSequence = cursor
                 \/ maxSequence = -1 /\ (~scn.resends \/ (MayRepeat /\ outEnd < outNext))
    BY <1>1 DEF PromiseInv
  <1>3. CASE UNCHANGED <<scn, cursor, maxSequence, yielded, outNext, outEnd>>
    BY <1>1, <1>2, <1>3 DEF PromiseInv, Position, MayRepeat
  <1>4. CASE Yield
    <2>1. /\ outNext <= outEnd /\ Position' = outNext /\ outNext' = Position' + 1
          /\ UNCHANGED <<outEnd, cursor, maxSequence>>
      BY <1>4, YieldPosition, YieldMoves, PositionTypes
    <2>2. outNext >= Position
      BY <1>2, <2>1, PositionTypes
    <2>3. Position' >= scn'.start
      BY <1>0, <1>2, <2>1, <2>2, PositionTypes DEF NoCursor
    <2>4. ASSUME ~Cancelled'
          PROVE  /\ IF outNext' <= outEnd' THEN outEnd' = cursor' ELSE Position' = cursor'
                 /\ maxSequence' = cursor' \/ (maxSequence' = -1 /\ ~scn'.resends)
      <3>1. outEnd = cursor /\ (maxSequence = cursor \/ (maxSequence = -1 /\ ~scn.resends))
        BY <1>1, <1>2, <2>1, <2>4, PositionTypes
      <3>2. outNext' <= outEnd' \/ Position' = cursor'
        BY <2>1, <3>1, PositionTypes
      <3> QED BY <1>0, <2>1, <3>1, <3>2
    <2> QED BY <2>1, <2>3, <2>4 DEF PromiseInv
  <1>5. CASE ReadBlank
    <2>1. /\ NextFrame /\ Position = cursor /\ Decodes
          /\ \/ Larger(frame.lo, maxSequence + 1) = cursor + 1
             \/ MayRepeat /\ Larger(frame.lo, maxSequence + 1) = cursor
      BY <1>1, <1>5, FrameContinues DEF ReadBlank
    <2>2. /\ UNCHANGED <<scn, yielded>> /\ cursor' = frame.hi /\ maxSequence' = frame.hi
          /\ outNext' = Larger(frame.lo, maxSequence + 1) /\ outEnd' = frame.hi
      BY <1>1, <1>5, <2>1, FrameMoves DEF Kept
    <2>3. cursor <= frame.hi /\ Position' = Position /\ MayRepeat' = MayRepeat
      BY <2>1, <2>2 DEF NextFrame, Position, MayRepeat
    <2>4. outNext' = Position' + 1 \/ (MayRepeat' /\ outNext' = Position')
      BY <2>1, <2>2, <2>3
    <2>5. IF outNext' <= outEnd' THEN outEnd' = cursor' ELSE Position' = cursor'
      BY <2>1, <2>2, <2>3, <2>4, PositionTypes DEF NoCursor
    <2> QED BY <1>2, <2>2, <2>3, <2>4, <2>5 DEF PromiseInv
  <1>6. CASE BodyEnds \/ BodyBreaks
    <2>0. pc = "read" /\ outEnd < outNext /\ UNCHANGED yielded
      BY <1>6 DEF BodyEnds, BodyBreaks, WireInv
    <2>1. Position' = Position /\ MayRepeat' = MayRepeat
      BY <1>0, <2>0 DEF Position, MayRepeat
    <2>2. CASE ~Cancelled'
      <3>1. /\ UNCHANGED <<scn, cursor, maxSequence>>
            /\ UNCHANGED <<outNext, outEnd>> \/ (outNext' = 0 /\ outEnd' = -2)
        BY <1>1, <1>6, <2>2, LosslessEnd DEF Kept
      <3>2. ~(outNext' <= outEnd') /\ outEnd' < outNext' /\ ~(outNext <= outEnd)
        BY <2>0, <3>1, PositionTypes
      <3> QED BY <1>1, <1>2, <2>1, <2>2, <3>1, <3>2 DEF PromiseInv
    <2>3. CASE Cancelled'
      <3>1. PICK t \in (NoId .. Last) \X BOOLEAN :
               Flush(t[1], t[2], TRUE, "decide") /\ (t[2] => onWire)
        BY <1>6, <2>3, CancelledFlush
      <3>2. CASE ~t[2]
        <4>1. outNext' = 0 /\ outEnd' = -2
          BY <3>1, <3>2 DEF Flush
        <4> QED BY <1>0, <1>2, <2>1, <2>3, <4>1 DEF PromiseInv
      <3>3. CASE t[2]
        <4>1. /\ Position = cursor
              /\ \/ Larger(frame.lo, maxSequence + 1) = cursor + 1
                 \/ MayRepeat /\ Larger(frame.lo, maxSequence + 1) = cursor
          BY <1>1, <2>0, <3>1, <3>3, FrameContinues
        <4>2. outNext' = Larger(frame.lo, maxSequence + 1)
          BY <1>1, <3>1, <3>3 DEF Flush, FirstNew, Kept
        <4> QED BY <1>0, <1>2, <2>1, <2>3, <4>1, <4>2 DEF PromiseInv
      <3> QED BY <3>2, <3>3
    <2> QED BY <2>2, <2>3
  <1> QED BY <1>3, <1>4, <1>5, <1>6, StepKinds

-----------------------------------------------------------------------------
(* Step by step: a delivery is Deliver, or Repeat when it is the first and *)
(* the host sent it again; an end is Complete, Stop or Fail; everything    *)
(* else is invisible.                                                      *)

(* A subscription that is over stays as it is.                             *)
LEMMA OverForGood ==
  ASSUME EndInv, outcome # "running", [Next]_vars
  PROVE  UNCHANGED <<scn, yielded, outcome, stopped>>
  <1>1. pc = "done"
    BY DEF EndInv
  <1>2. CASE UNCHANGED vars
    BY <1>2 DEF vars
  <1>3. CASE Next
    BY <1>1, <1>3
    DEF Next, HostLogs, HostSends, HostSendsEphemeral, FloorPasses, StartConnect,
        ConnectOk, ConnectError, ConnectAborted, ConnectFails, ReadId, ReadData,
        ReadBlank, Yield, SendCancelled, Delivered, BodyEnds, BodyBreaks, Decide, Wait,
        Abort
  <1> QED BY <1>2, <1>3

(* The consumer that has the terminal event, or began at it, is at it.     *)
AtLast == Status = "completed" => Position = Last

LEMMA CompletedAtLast ==
  ASSUME TypeInv, OrderInv, EndInv, PromiseInv, Promised
  PROVE  AtLast
  <1> SUFFICES ASSUME outcome = "ended", ~stopped PROVE Position = Last
    BY DEF AtLast, Status, TypeInv, TypeOK
  <1>1. Last \in Seen \/ scn.start = Last
    BY DEF EndInv, EndsAtTerminal, Promised, Kept, Guarded, HasTerminal, Decodes
  <1>2. CASE scn.start = Last
    BY <1>2, PositionTypes, SseAssumption DEF PromiseInv, Promised, Kept
  <1>3. CASE Last \in Seen
    <2>1. PICK i \in 1 .. Len(yielded) : yielded[i] = Last
      BY <1>3 DEF Seen
    <2>2. GuardHolds
      BY DEF Promised, Kept, LosslessEnds, GuardHolds
    <2>3. \A S : \A s \in Seq(S) : Len(s) \in Nat /\ (s = <<>> => Len(s) = 0)
      OBVIOUS
    <2>4. Len(yielded) \in Nat /\ yielded # <<>>
      BY <2>1, <2>3 DEF TypeInv, TypeOK
    <2>5. Position = yielded[Len(yielded)]
      BY <2>4 DEF Position
    <2>6. i < Len(yielded) => Last < Position
      BY <2>1, <2>2, <2>4, <2>5 DEF OrderInv
    <2>7. i = Len(yielded)
      BY <2>1, <2>4, <2>6, PositionTypes, SseAssumption
    <2> QED BY <2>1, <2>5, <2>7
  <1> QED BY <1>1, <1>2, <1>3

LEMMA DeliveryStep ==
  ASSUME TypeInv, TypeInv', EndInv, PromiseInv, Promised, Promised', AtLast',
         [Next]_vars
  PROVE  [Delivery!Next]_(Delivery!vars)
  <1> USE DEF Delivery!Next, Delivery!vars
  <1>1. CASE Yield
    <2>0. outNext <= outEnd /\ Position' = outNext
      BY <1>1, YieldPosition DEF Yield
    <2>1. \/ Position' = Position + 1 /\ Position < Last
          \/ MayRepeat /\ Position' = Position
      BY <2>0, PositionTypes, SseAssumption DEF PromiseInv, Promised, Kept
    <2>2. Len(yielded') = Len(yielded) + 1 /\ MayRepeat' = FALSE
      <3>1. Len(yielded) \in Nat /\ Len(yielded') = Len(yielded) + 1
        BY <1>1, YieldMoves
      <3>2. yielded' # <<>>
        BY <3>1
      <3> QED BY <3>1, <3>2 DEF MayRepeat
    <2>3. outcome = "running" /\ Status' \in {"open", "stopped"}
      BY <1>1 DEF Yield, EndInv, Finish, Status
    <2>4. CASE Position' = Position + 1 /\ Position < Last
      BY <2>2, <2>3, <2>4 DEF Delivery!Deliver, Status
    <2>5. CASE MayRepeat /\ Position' = Position
      BY <2>2, <2>3, <2>5 DEF Delivery!Repeat, Status
    <2> QED BY <2>1, <2>4, <2>5
  <1>2. CASE ~Yield
    <2>1. UNCHANGED <<scn, yielded>>
      BY <1>2, StepKinds DEF ReadBlank, BodyEnds, BodyBreaks
    <2>2. /\ Position' = Position /\ Len(yielded') = Len(yielded)
          /\ MayRepeat' = MayRepeat
      BY <2>1 DEF Position, MayRepeat
    <2>3. outcome # "running" => Status' = Status
      BY OverForGood DEF Status
    <2>4. outcome' \in {"running", "ended", "failed"} /\ stopped' \in BOOLEAN
      BY DEF TypeInv, TypeOK
    <2>5. Status' = "completed" => Position' = Last
      BY DEF AtLast
    <2>6. CASE outcome # "running"
      BY <2>1, <2>2, <2>3, <2>6
    <2>7. CASE outcome = "running" /\ outcome' = "running"
      BY <2>1, <2>2, <2>7 DEF Status
    <2>8. CASE outcome = "running" /\ outcome' = "failed"
      BY <2>2, <2>8 DEF Status, Delivery!Fail
    <2>9. CASE outcome = "running" /\ outcome' = "ended" /\ stopped'
      BY <2>2, <2>9 DEF Status, Delivery!Stop
    <2>10. CASE outcome = "running" /\ outcome' = "ended" /\ ~stopped'
      <3>1. Position = Last
        BY <2>2, <2>5, <2>10 DEF Status
      <3> QED BY <2>2, <2>10, <3>1 DEF Status, Delivery!Complete
    <2> QED BY <2>4, <2>6, <2>7, <2>8, <2>9, <2>10
  <1> QED BY <1>1, <1>2

(* A subscription to a run's events hands over every event behind its      *)
(* starting position, once and in order, over any number of connections,   *)
(* and ends cleanly only at the terminal one; what a host sends again at a *)
(* reconnect it keeps to itself, but for the event a caller resumed from.  *)
(* In the scenarios Promised names it implements EventDelivery.            *)
THEOREM DeliveryIsKept == Spec /\ Promised => KeepsDeliveryPromise
  <1>1. Init /\ Promised => Delivery!Init
    <2> SUFFICES ASSUME Init, Promised PROVE Delivery!Init
      OBVIOUS
    <2>1. /\ scn.start \in -1 .. Last /\ scn.resends \in BOOLEAN
          /\ yielded = <<>> /\ outcome = "running"
      BY SseAssumption DEF Init, Scenario, NoCursor
    <2> QED BY <2>1 DEF Delivery!Init, NoCursor, Position, MayRepeat, Status
  <1>2. Promised /\ [Next]_vars => Promised'
    <2>1. [Next]_vars => scn' = scn
      BY StepKinds DEF ReadBlank, Yield, BodyEnds, BodyBreaks
    <2> QED BY <2>1 DEF Promised, Guarded, LosslessEnds
  <1>3. IInv /\ PromiseInv /\ [Next]_vars => PromiseInv'
    BY PromiseStep DEF IInv
  <1>4. IInv /\ EndInv /\ PromiseInv /\ Promised => TypeInv /\ AtLast
    BY CompletedAtLast DEF IInv
  <1>5. TypeInv /\ TypeInv' /\ EndInv /\ PromiseInv /\ Promised /\ Promised' /\ AtLast'
        /\ [Next]_vars => [Delivery!Next]_(Delivery!vars)
    BY DeliveryStep
  <1> QED BY <1>1, <1>2, <1>3, <1>4, <1>5, Invariance, EndInvariance, PromiseInit, PTL
          DEF Spec, KeepsDeliveryPromise, Delivery!Spec

-----------------------------------------------------------------------------
(* What the documentation says of every subscription, and when it is so.   *)

GapInv == Kept => \A i \in 2 .. Len(yielded) : yielded[i] = yielded[i - 1] + 1

LEMMA GapInit == Init => GapInv
  BY DEF Init, GapInv

LEMMA GapStep == TypeInv /\ PromiseInv /\ GapInv /\ [Next]_vars => GapInv'
  <1> SUFFICES ASSUME TypeInv, PromiseInv, GapInv, [Next]_vars, Kept',
                      NEW i \in 2 .. Len(yielded')
               PROVE  yielded'[i] = yielded'[i - 1] + 1
    BY DEF GapInv
  <1>1. scn' = scn
    BY StepKinds DEF ReadBlank, Yield, BodyEnds, BodyBreaks
  <1>2. Kept /\ \A k \in 2 .. Len(yielded) : yielded[k] = yielded[k - 1] + 1
    BY <1>1 DEF GapInv, Kept, Guarded, LosslessEnds
  <1>3. CASE Yield
    <2>1. PICK len \in Nat : len = Len(yielded)
      BY <1>3, YieldMoves
    <2>2. /\ outNext <= outEnd /\ Len(yielded') = len + 1 /\ yielded'[len + 1] = outNext
          /\ \A k \in 1 .. len : yielded'[k] = yielded[k]
      BY <1>3, <2>1, YieldMoves
    <2>3. CASE i <= len
      BY <1>2, <2>1, <2>2, <2>3
    <2>4. CASE i = len + 1
      <3>1. len >= 1 /\ i - 1 = len /\ yielded # <<>>
        BY <2>1, <2>4
      <3>2. outNext = Position + 1
        BY <1>2, <2>2, <3>1 DEF PromiseInv, MayRepeat
      <3>3. Position = yielded[len]
        BY <2>1, <3>1 DEF Position
      <3> QED BY <2>2, <2>4, <3>1, <3>2, <3>3
    <2> QED BY <2>1, <2>2, <2>3, <2>4
  <1>4. CASE ~Yield
    <2>1. yielded' = yielded
      BY <1>4, StepKinds DEF ReadBlank, BodyEnds, BodyBreaks
    <2> QED BY <1>2, <2>1
  <1> QED BY <1>3, <1>4

(* "Yields each RunEventDoc through the terminal event": where no          *)
(* connection ends inside a frame beyond repair, there is no gap.          *)
THEOREM NoEventIsSkipped == Spec => [](LosslessEnds => YieldsEachEvent)
  <1>1. IInv /\ PromiseInv /\ [Next]_vars => PromiseInv'
    BY PromiseStep DEF IInv
  <1>2. IInv /\ PromiseInv /\ GapInv /\ [Next]_vars => GapInv'
    BY GapStep DEF IInv
  <1>3. IInv /\ GapInv => (LosslessEnds => YieldsEachEvent)
    <2> SUFFICES ASSUME TypeInv, GapInv, Kept, NEW i \in 2 .. Len(yielded)
                 PROVE  yielded[i] <= yielded[i - 1] + 1
      BY DEF IInv, Kept, YieldsEachEvent
    <2>1. \A S : \A s \in Seq(S) : Len(s) \in Nat /\ \A k \in 1 .. Len(s) : s[k] \in S
      OBVIOUS
    <2>2. yielded[i] \in Int
      BY <2>1, SseAssumption DEF TypeInv, TypeOK
    <2> QED BY <2>2 DEF GapInv
  <1> QED BY <1>1, <1>2, <1>3, Invariance, PromiseInit, GapInit, PTL DEF Spec

(* "Never re-yields an event": so it is on every run stream whose final    *)
(* flush has the duplicate guard, or is never of use.                      *)
THEOREM NoEventIsReyielded == Spec => [](NoRepetition => NeverReyieldsAnEvent)
  <1>1. IInv => (NoRepetition => NeverReyieldsAnEvent)
    <2> SUFFICES ASSUME IInv, NoRepetition, Guarded,
                        NEW i \in 1 .. Len(yielded), NEW j \in 1 .. Len(yielded), i # j
                 PROVE  yielded[i] # yielded[j]
      BY DEF NeverReyieldsAnEvent
    <2>1. \A k, l \in 1 .. Len(yielded) : k < l => yielded[k] < yielded[l]
      BY DEF IInv, OrderInv, GuardHolds, NoRepetition
    <2>2. \A S : \A s \in Seq(S) : Len(s) \in Nat /\ \A k \in 1 .. Len(s) : s[k] \in S
      OBVIOUS
    <2>3. yielded \in Seq(-1 .. Last)
      BY DEF IInv, TypeInv, TypeOK
    <2>4. /\ Len(yielded) \in Nat
          /\ \A k \in 1 .. Len(yielded) : yielded[k] \in -1 .. Last
      BY <2>2, <2>3
    <2>5. i \in Int /\ j \in Int /\ yielded[i] \in Int /\ yielded[j] \in Int
      BY <2>4, SseAssumption
    <2>6. i < j \/ j < i
      BY <2>5
    <2> QED BY <2>1, <2>5, <2>6
  <1> QED BY <1>1, Invariance, PTL

(* "When a stream ends before the run's terminal event the SDK             *)
(* reconnects": so it does where no proxy closes a young and silent stream *)
(* and no connection ends inside a frame beyond repair.                    *)
THEOREM CleanEndIsTerminal ==
    Spec => [](Decodes /\ LosslessEnds /\ ~scn.quick => ResumesUntilTerminal)
  <1>1. EndsAtTerminal => (Decodes /\ LosslessEnds /\ ~scn.quick => ResumesUntilTerminal)
    BY DEF EndsAtTerminal, ResumesUntilTerminal
  <1> QED BY <1>1, EndingAtTerminal, PTL

=============================================================================
