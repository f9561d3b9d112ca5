-------------------------- MODULE SseResume_proofs --------------------------
(***************************************************************************)
(* Proofs about SseResume, for every run length, batch size, attempt and   *)
(* fault bound and every set of scenarios.                                 *)
(***************************************************************************)
EXTENDS SseResume, TLAPS

(* What the reader has of the frame on the wire.                           *)
FrameOK ==
    /\ onWire => frame.id \in {NoId, frame.hi}
    /\ ~onWire => unread = {} /\ pendingId = NoId /\ ~pendingData
    /\ pendingId \in {NoId, frame.id}

(* The attempt counter exceeds its limit only in the step that gives up.   *)
AttemptsOK == pc # "done" => failures <= MaxAttempts

TypeInv == TypeOK /\ FrameOK /\ AttemptsOK

-----------------------------------------------------------------------------
LEMMA TypeInit == Init => TypeInv
  <1> SUFFICES ASSUME Init PROVE TypeInv
    OBVIOUS
  <1> USE SseAssumption DEF Init, NoCursor, NoId, Ephemeral
  <1>1. scn \in Scenarios /\ scn.start \in NoCursor .. Last
    BY DEF Scenario
  <1>2. frame \in [id : NoId .. Last, lo : -1 .. Last, hi : -1 .. Last, batch : BOOLEAN]
    BY DEF NoFrame
  <1>a. yielded \in Seq(-1 .. Last)
    BY DEF Init
  <1>b. logged \in NoCursor .. Last /\ sent \in NoCursor .. Last
    BY <1>1
  <1>c. cursor \in NoCursor .. Last /\ maxSequence \in -1 .. Last
    BY <1>1
  <1>d. failures \in 0 .. MaxAttempts + 1 /\ faults \in 0 .. MaxFaults /\ barren \in Nat
    OBVIOUS
  <1>e. outNext \in -1 .. Last + 1 /\ outEnd \in -2 .. Last /\ pendingId \in NoId .. Last
    OBVIOUS
  <1>3. TypeOK
    BY <1>1, <1>2, <1>a, <1>b, <1>c, <1>d, <1>e DEF TypeOK
  <1>4. FrameOK
    BY DEF FrameOK, NoFrame
  <1> QED BY <1>3, <1>4 DEF TypeInv, AttemptsOK

(* A flush leaves the reader well typed whichever id it is given.          *)
FlushTyped ==
    /\ cursor' \in NoCursor .. Last /\ maxSequence' \in -1 .. Last
    /\ framesSeen' \in BOOLEAN /\ terminal' \in BOOLEAN
    /\ outNext' \in -1 .. Last + 1 /\ outEnd' \in -2 .. Last
    /\ after' \in {"read", "decide"} /\ pc' = "deliver"
    /\ pendingId' = NoId /\ pendingData' = FALSE
    /\ onWire' = FALSE /\ unread' = {}
    /\ frame'.id = NoId
    /\ frame' \in [id : NoId .. Last, lo : -1 .. Last, hi : -1 .. Last, batch : BOOLEAN]

LEMMA FlushTypes ==
  ASSUME TypeInv, NEW id \in NoId .. Last, NEW data \in BOOLEAN,
         NEW guard \in BOOLEAN, NEW then \in {"read", "decide"},
         Flush(id, data, guard, then)
  PROVE  FlushTyped
  <1> USE SseAssumption DEF NoId, NoCursor
  <1>1. FirstNew(guard) \in -1 .. Last + 1
    BY DEF TypeInv, TypeOK, FirstNew, Larger
  <1>2. frame.hi \in -1 .. Last
    BY DEF TypeInv, TypeOK
  <1>3. maxSequence \in -1 .. Last /\ Larger(maxSequence, frame.hi) \in -1 .. Last
    BY <1>2 DEF TypeInv, TypeOK, Larger
  <1>4. /\ cursor' \in NoCursor .. Last /\ maxSequence' \in -1 .. Last
        /\ outNext' \in -1 .. Last + 1 /\ outEnd' \in -2 .. Last
    BY <1>1, <1>2, <1>3 DEF Flush, NextCursor, TypeInv, TypeOK
  <1>5. framesSeen' \in BOOLEAN /\ terminal' \in BOOLEAN
    BY DEF Flush, TypeInv, TypeOK
  <1>6. frame' \in [id : NoId .. Last, lo : -1 .. Last, hi : -1 .. Last, batch : BOOLEAN]
    BY DEF Flush, NoFrame
  <1>7. frame'.id = NoId
    BY DEF Flush, NoFrame
  <1> QED BY <1>4, <1>5, <1>6, <1>7 DEF Flush, FlushTyped

(* What is pending when a connection ends stays well typed, a torn tail    *)
(* included.                                                               *)
LEMMA TailTypes ==
  ASSUME TypeInv
  PROVE  {<<pendingId, pendingData>>} \cup TornTails \subseteq (NoId .. Last) \X BOOLEAN
  <1> USE SseAssumption DEF NoId, NoCursor, TypeInv, TypeOK
  <1>1. <<pendingId, pendingData>> \in (NoId .. Last) \X BOOLEAN
    OBVIOUS
  <1>2. <<pendingId, FALSE>> \in (NoId .. Last) \X BOOLEAN
    OBVIOUS
  <1>3. (NoCursor .. frame.id - 1) \X {pendingData} \subseteq (NoId .. Last) \X BOOLEAN
    OBVIOUS
  <1> QED BY <1>1, <1>2, <1>3 DEF TornTails

LEMMA FinalFlushes ==
  ASSUME TypeInv, FinalFlush
  PROVE  \E t \in (NoId .. Last) \X BOOLEAN, g \in BOOLEAN :
            Flush(t[1], t[2], g, "decide")
  <1>1. CASE TsFinalFlush
    <2>1. <<pendingId, pendingData>> \in (NoId .. Last) \X BOOLEAN
      BY DEF TypeInv, TypeOK
    <2> QED BY <1>1, <2>1 DEF TsFinalFlush
  <1>2. CASE PyFinalFlush
    BY <1>2, TailTypes DEF PyFinalFlush
  <1>3. CASE GoFinalFlush
    BY <1>3, TailTypes DEF GoFinalFlush
  <1> QED BY <1>1, <1>2, <1>3 DEF FinalFlush

LEMMA StepFlushTypes ==
  ASSUME TypeInv, ReadBlank \/ BodyEnds \/ (BodyBreaks /\ scn.sdk = "go")
  PROVE  FlushTyped
  <1>1. CASE ReadBlank
    <2>1. Flush(pendingId, pendingData, TRUE, "read")
      BY <1>1 DEF ReadBlank
    <2>2. pendingId \in NoId .. Last /\ pendingData \in BOOLEAN
      BY DEF TypeInv, TypeOK
    <2> QED BY <2>1, <2>2, FlushTypes
  <1>2. ASSUME NEW t \in (NoId .. Last) \X BOOLEAN, NEW g \in BOOLEAN,
               Flush(t[1], t[2], g, "decide")
        PROVE  FlushTyped
    <2>1. t[1] \in NoId .. Last /\ t[2] \in BOOLEAN
      OBVIOUS
    <2> QED BY <1>2, <2>1, FlushTypes
  <1>3. CASE BodyEnds
    BY <1>2, <1>3, FinalFlushes DEF BodyEnds
  <1>4. CASE BodyBreaks /\ scn.sdk = "go"
    <2>1. GoFinalFlush
      BY <1>4 DEF BodyBreaks
    <2> QED BY <1>2, <2>1, TailTypes DEF GoFinalFlush
  <1> QED BY <1>1, <1>3, <1>4


(* The end of a body costs at most one fault, and counts its connection as *)
(* barren at most once.                                                    *)
LEMMA BodyCounters ==
  ASSUME TypeInv, BodyEnds \/ BodyBreaks
  PROVE  faults' \in 0 .. MaxFaults /\ barren' \in Nat
  <1>1. UNCHANGED faults \/ Fault
    BY DEF BodyEnds, BodyBreaks, ReadError
  <1>2. barren' = 0 \/ barren' = barren + 1
    BY DEF BodyEnds, BodyBreaks
  <1>3. faults \in 0 .. MaxFaults /\ barren \in Nat
    BY DEF TypeInv, TypeOK
  <1>4. faults' \in 0 .. MaxFaults
    BY <1>1, <1>3, SseAssumption DEF Fault, CanFault
  <1>5. barren' \in Nat
    BY <1>2, <1>3
  <1> QED BY <1>4, <1>5

(* Every step keeps the state well typed.                                  *)
LEMMA TypeStep == TypeInv /\ [Next]_vars => TypeInv'
  <1> SUFFICES ASSUME TypeInv, [Next]_vars PROVE TypeInv'
    OBVIOUS
  <1> USE SseAssumption DEF NoCursor, NoId, Ephemeral, hostVars, cursorVars,
          parseVars, outVars
  <1> USE DEF TypeInv, TypeOK, FrameOK, AttemptsOK
  <1>0. scn.start \in NoCursor .. Last
    BY DEF Scenario
  <1>1. CASE HostLogs
    BY <1>1 DEF HostLogs
  <1>2. CASE HostSends
    <2> SUFFICES ASSUME HostSends PROVE TypeInv'
      BY <1>2
    <2>1. frame' \in [id : NoId .. Last, lo : -1 .. Last, hi : -1 .. Last, batch : BOOLEAN]
      BY DEF HostSends
    <2>2. frame'.id = frame'.hi /\ sent' \in NoCursor .. Last
      BY DEF HostSends
    <2>3. pendingId = NoId
      BY DEF HostSends
    <2> QED BY <2>1, <2>2, <2>3 DEF HostSends
  <1>3. CASE HostSendsEphemeral
    <2>1. frame' \in [id : NoId .. Last, lo : -1 .. Last, hi : -1 .. Last, batch : BOOLEAN]
      BY <1>3 DEF HostSendsEphemeral
    <2> QED BY <1>3, <2>1 DEF HostSendsEphemeral, Fault, CanFault
  <1>4. CASE FloorPasses
    BY <1>4 DEF FloorPasses, Fault, CanFault
  <1>5. CASE StartConnect
    BY <1>5 DEF StartConnect, Finish
  <1>6. CASE ConnectOk
    <2>1. faults' \in 0 .. MaxFaults
      BY <1>6 DEF ConnectOk, Fault, CanFault
    <2> QED BY <1>6, <2>1 DEF ConnectOk
  <1>7. CASE ConnectError
    BY <1>7 DEF ConnectError, ConnectFails, Fault, CanFault, Finish
  <1>8. CASE ConnectAborted
    BY <1>8 DEF ConnectAborted, ConnectFails, Finish
  <1>9. CASE ReadId
    BY <1>9 DEF ReadId
  <1>10. CASE ReadData
    BY <1>10 DEF ReadData
  <1>11. CASE ReadBlank
    <2>1. FlushTyped
      BY <1>11, StepFlushTypes DEF TypeInv
    <2> QED BY <1>11, <2>1 DEF ReadBlank, FlushTyped
  <1>12. CASE Yield
    <2>1. outNext \in -1 .. Last
      BY <1>12 DEF Yield
    <2>2. yielded' \in Seq(-1 .. Last)
      BY <1>12, <2>1 DEF Yield
    <2>3. outNext' \in -1 .. Last + 1
      BY <1>12, <2>1 DEF Yield
    <2>4. pc' \in {"deliver", "done"} /\ outcome' \in {"running", "ended", "failed"}
          /\ stopped' \in BOOLEAN
      BY <1>12 DEF Yield, Finish
    <2> QED BY <1>12, <2>2, <2>3, <2>4 DEF Yield
  <1>13. CASE SendCancelled
    BY <1>13 DEF SendCancelled, Finish
  <1>14. CASE Delivered
    BY <1>14 DEF Delivered, Finish
  <1>15. CASE BodyEnds
    <2>1. FlushTyped
      BY <1>15, StepFlushTypes DEF TypeInv
    <2>2. faults' \in 0 .. MaxFaults /\ barren' \in Nat
      BY <1>15, BodyCounters
    <2> QED BY <1>15, <2>1, <2>2 DEF BodyEnds, FlushTyped
  <1>16. CASE BodyBreaks
    <2>1. faults' \in 0 .. MaxFaults /\ barren' \in Nat
      BY <1>16, BodyCounters
    <2>2. CASE scn.sdk = "go"
      <3>1. FlushTyped
        BY <1>16, <2>2, StepFlushTypes DEF TypeInv
      <3> QED BY <1>16, <2>1, <2>2, <3>1 DEF BodyBreaks, FlushTyped
    <2>3. CASE scn.sdk # "go"
      <3>1. /\ onWire' = FALSE /\ frame' = NoFrame /\ unread' = {}
            /\ pendingId' = NoId /\ pendingData' = FALSE
            /\ UNCHANGED <<cursorVars, framesSeen, outVars>>
        BY <1>16, <2>3 DEF BodyBreaks
      <3>2. /\ pc' \in {"done", "decide"} /\ failure' = "stream"
            /\ outcome' \in {"running", "ended", "failed"}
        BY <1>16, <2>3 DEF BodyBreaks, Finish
      <3>3. frame' \in [id : NoId .. Last, lo : -1 .. Last, hi : -1 .. Last, batch : BOOLEAN]
        BY <3>1 DEF NoFrame
      <3>4. frame'.id = NoId
        BY <3>1 DEF NoFrame
      <3>5. failures' <= MaxAttempts
        BY <1>16 DEF BodyBreaks
      <3>6. UNCHANGED <<scn, logged, sent, old, established, failures, stopped, yielded>>
        BY <1>16 DEF BodyBreaks
      <3> HIDE <1>16
      <3> QED BY <2>1, <3>1, <3>2, <3>3, <3>4, <3>5, <3>6
    <2> QED BY <2>2, <2>3
  <1>18. CASE Decide
    BY <1>18 DEF Decide, GivesUp, Finish
  <1>19. CASE Wait
    BY <1>19 DEF Wait, Finish
  <1>20. CASE Abort
    BY <1>20 DEF Abort
  <1>21. CASE UNCHANGED vars
    BY <1>21 DEF vars
  <1> QED BY <1>1, <1>2, <1>3, <1>4, <1>5, <1>6, <1>7, <1>8, <1>9, <1>10, <1>11, <1>12, <1>13, <1>14, <1>15, <1>16, <1>18, <1>19, <1>20, <1>21 DEF Next

(* The reader's state is well typed throughout, whatever the bounds.       *)
THEOREM TypeCorrect == Spec => []TypeOK
  <1>1. TypeInv => TypeOK
    BY DEF TypeInv
  <1> QED BY <1>1, TypeInit, TypeStep, PTL DEF Spec

-----------------------------------------------------------------------------
(* The order of the deliveries on a run's event stream.  The duplicate     *)
(* guard carries it: what was yielded is at or below maxSequence, and what *)
(* is still to be yielded lies above what was and at or below it too.      *)

GuardHolds == Guarded /\ (scn.sdk = "py" => "clean" \notin scn.cuts)

OrderInv ==
    GuardHolds =>
        /\ \A i, j \in 1 .. Len(yielded) : i < j => yielded[i] < yielded[j]
        /\ \A i \in 1 .. Len(yielded) : yielded[i] <= maxSequence
        /\ outNext <= outEnd =>
              /\ outEnd <= maxSequence
              /\ \A i \in 1 .. Len(yielded) : yielded[i] < outNext

LEMMA OrderInit == Init => OrderInv
  BY DEF Init, OrderInv

(* A guarded flush offers only what lies above maxSequence.                *)
LEMMA OrderFlush ==
  ASSUME TypeInv, OrderInv, UNCHANGED <<scn, yielded>>,
         NEW id, NEW data \in BOOLEAN, NEW guard \in BOOLEAN, NEW then,
         Flush(id, data, guard, then), GuardHolds => guard \/ ~data
  PROVE  OrderInv'
  <1> SUFFICES ASSUME GuardHolds PROVE OrderInv'
    BY DEF OrderInv, GuardHolds, Guarded
  <1> USE SseAssumption
  <1>1. /\ yielded \in Seq(-1 .. Last) /\ maxSequence \in -1 .. Last
        /\ frame.lo \in -1 .. Last /\ frame.hi \in -1 .. Last
    BY DEF TypeInv, TypeOK
  <1>2. CASE data
    <2>1. maxSequence' = Larger(maxSequence, frame.hi)
      BY <1>2 DEF Flush, GuardHolds
    <2>2. outNext' = Larger(frame.lo, maxSequence + 1)
      BY <1>2 DEF Flush, FirstNew, GuardHolds
    <2>3. outEnd' \in {frame.hi, -2}
      BY <1>2 DEF Flush
    <2>4. maxSequence <= maxSequence' /\ frame.hi <= maxSequence' /\ maxSequence < outNext'
      BY <1>1, <2>1, <2>2 DEF Larger
    <2>5. outNext' \in Int /\ outEnd' \in Int /\ maxSequence' \in Int
      BY <1>1, <2>1, <2>2, <2>3 DEF Larger
    <2>6. outNext' <= outEnd' => outEnd' <= maxSequence'
      BY <1>1, <2>2, <2>3, <2>4, <2>5 DEF Larger
    <2>7. \A i \in 1 .. Len(yielded) : yielded[i] \in Int /\ yielded[i] <= maxSequence
      BY <1>1 DEF OrderInv
    <2>8. \A i \in 1 .. Len(yielded) : yielded[i] <= maxSequence' /\ yielded[i] < outNext'
      BY <1>1, <2>4, <2>5, <2>7
    <2> QED BY <2>6, <2>8 DEF OrderInv
  <1>3. CASE ~data
    BY <1>1, <1>3 DEF Flush, NextCursor, OrderInv
  <1> QED BY <1>2, <1>3

LEMMA OrderStep == TypeInv /\ OrderInv /\ [Next]_vars => OrderInv'
  <1> SUFFICES ASSUME TypeInv, OrderInv, [Next]_vars PROVE OrderInv'
    OBVIOUS
  <1> USE DEF GuardHolds, Guarded, hostVars, cursorVars, parseVars, outVars
  <1>1. CASE HostLogs
    BY <1>1 DEF HostLogs, OrderInv
  <1>2. CASE HostSends
    BY <1>2 DEF HostSends, OrderInv
  <1>3. CASE HostSendsEphemeral
    BY <1>3 DEF HostSendsEphemeral, Fault, CanFault, OrderInv
  <1>4. CASE FloorPasses
    BY <1>4 DEF FloorPasses, OrderInv
  <1>5. CASE StartConnect
    BY <1>5 DEF StartConnect, Finish, OrderInv
  <1>6. CASE ConnectOk
    BY <1>6 DEF ConnectOk, Fault, CanFault, OrderInv
  <1>7. CASE ConnectError
    BY <1>7 DEF ConnectError, ConnectFails, Fault, CanFault, Finish, OrderInv
  <1>8. CASE ConnectAborted
    BY <1>8 DEF ConnectAborted, ConnectFails, Finish, OrderInv
  <1>9. CASE ReadId
    BY <1>9 DEF ReadId, OrderInv
  <1>10. CASE ReadData
    BY <1>10 DEF ReadData, OrderInv
  <1>11. CASE ReadBlank
    <2>1. Flush(pendingId, pendingData, TRUE, "read") /\ UNCHANGED <<scn, yielded>>
      BY <1>11 DEF ReadBlank
    <2>2. pendingData \in BOOLEAN
      BY DEF TypeInv, TypeOK
    <2> QED BY <2>1, <2>2, OrderFlush
  <1>12. CASE Yield
    <2> SUFFICES ASSUME GuardHolds PROVE OrderInv'
      BY <1>12 DEF OrderInv, Yield
    <2>1. /\ outNext <= outEnd /\ yielded' = Append(yielded, outNext)
          /\ outNext' = outNext + 1 /\ UNCHANGED <<outEnd, maxSequence>>
      BY <1>12 DEF Yield
    <2>2. /\ yielded \in Seq(-1 .. Last) /\ maxSequence \in Int
          /\ outNext \in Int /\ outEnd \in Int
      BY SseAssumption DEF TypeInv, TypeOK
    <2>3. /\ Len(yielded') = Len(yielded) + 1
          /\ yielded'[Len(yielded) + 1] = outNext
          /\ \A i \in 1 .. Len(yielded) : yielded'[i] = yielded[i] /\ yielded[i] \in Int
      BY <2>1, <2>2, SseAssumption
    <2>4. /\ outEnd <= maxSequence
          /\ \A i \in 1 .. Len(yielded) : yielded[i] < outNext
      BY <2>1 DEF OrderInv
    <2>5. \A i \in 1 .. Len(yielded') : yielded'[i] \in Int /\ yielded'[i] < outNext + 1
      BY <2>2, <2>3, <2>4
    <2>6. \A i \in 1 .. Len(yielded') : yielded'[i] <= maxSequence
      BY <2>1, <2>2, <2>4, <2>5
    <2>7. \A i, j \in 1 .. Len(yielded') : i < j => yielded'[i] < yielded'[j]
      <3>1. \A i, j \in 1 .. Len(yielded) : i < j => yielded[i] < yielded[j]
        BY DEF OrderInv
      <3>2. Len(yielded) \in Nat
        BY <2>2
      <3> QED BY <2>3, <2>4, <3>1, <3>2
    <2> QED BY <2>1, <2>4, <2>5, <2>6, <2>7 DEF OrderInv
  <1>13. CASE SendCancelled
    BY <1>13 DEF SendCancelled, Finish, OrderInv
  <1>14. CASE Delivered
    BY <1>14 DEF Delivered, Finish, OrderInv
  <1>15. CASE BodyEnds
    <2>1. UNCHANGED <<scn, yielded>>
      BY <1>15 DEF BodyEnds
    <2>2. pendingData \in BOOLEAN
      BY DEF TypeInv, TypeOK
    <2>3. CASE TsFinalFlush
      BY <2>1, <2>2, <2>3, OrderFlush DEF TsFinalFlush
    <2>4. CASE scn.sdk = "go" /\ GoFinalFlush
      <3>1. PICK t \in (NoId .. Last) \X BOOLEAN : Flush(t[1], t[2], TRUE, "decide")
        BY <2>4, TailTypes DEF GoFinalFlush
      <3>2. t[2] \in BOOLEAN
        OBVIOUS
      <3> QED BY <2>1, <3>1, <3>2, OrderFlush
    <2>5. CASE scn.sdk = "py" /\ PyFinalFlush
      <3>1. PICK t \in {<<pendingId, pendingData>>} \cup TornTails :
               Flush(t[1], t[2], FALSE, "decide")
        BY <2>5 DEF PyFinalFlush
      <3>2. t[2] \in BOOLEAN
        BY TailTypes
      <3>3. GuardHolds => ~onWire
        BY <1>15, <2>5 DEF BodyEnds
      <3>4. GuardHolds => ~t[2]
        <4>1. ~onWire => TornTails = {} /\ ~pendingData
          BY DEF TornTails, TypeInv, FrameOK
        <4>2. ~onWire => t = <<pendingId, pendingData>>
          BY <4>1
        <4>3. ~onWire => t[2] = pendingData
          BY <4>2
        <4> QED BY <3>3, <4>1, <4>3
      <3> QED BY <2>1, <3>1, <3>2, <3>4, OrderFlush
    <2> QED BY <1>15, <2>3, <2>4, <2>5 DEF BodyEnds, FinalFlush
  <1>16. CASE BodyBreaks
    <2>1. UNCHANGED <<scn, yielded>>
      BY <1>16 DEF BodyBreaks
    <2>2. CASE scn.sdk = "go"
      <3>0. GoFinalFlush
        BY <1>16, <2>2 DEF BodyBreaks
      <3>1. PICK t \in (NoId .. Last) \X BOOLEAN : Flush(t[1], t[2], TRUE, "decide")
        BY <3>0, TailTypes DEF GoFinalFlush
      <3>2. t[2] \in BOOLEAN
        OBVIOUS
      <3> QED BY <2>1, <3>1, <3>2, OrderFlush
    <2>3. CASE scn.sdk # "go"
      BY <1>16, <2>1, <2>3 DEF BodyBreaks, OrderInv
    <2> QED BY <2>2, <2>3
  <1>18. CASE Decide
    BY <1>18 DEF Decide, GivesUp, Finish, OrderInv
  <1>19. CASE Wait
    BY <1>19 DEF Wait, Finish, OrderInv
  <1>20. CASE Abort
    BY <1>20 DEF Abort, OrderInv
  <1>21. CASE UNCHANGED vars
    BY <1>21 DEF vars, OrderInv
  <1> QED BY <1>1, <1>2, <1>3, <1>4, <1>5, <1>6, <1>7, <1>8, <1>9, <1>10, <1>11,
         <1>12, <1>13, <1>14, <1>15, <1>16, <1>18, <1>19, <1>20, <1>21 DEF Next

-----------------------------------------------------------------------------
(* The position of the reader.  While a connection is read, the host is at *)
(* the cursor (one behind it when it re-sends), and the frame on the wire  *)
(* starts no later than behind the cursor.  So a flush moves the cursor    *)
(* over exactly the events it hands out, and the cursor separates what the *)
(* consumer has, or is about to get, from what it has not.                 *)

Reading == pc = "read" \/ (pc = "deliver" /\ after = "read")

(* A cancelled Go reader flushes what it has of a frame, and then stops:   *)
(* its position means nothing any more.                                    *)
Cancelled ==
    /\ scn.sdk = "go" /\ stopped /\ failure = "stream"
    /\ pc \in {"deliver", "decide", "done"}

(* What the parser holds of a frame it has read, and an empty out queue.   *)
WireInv ==
    /\ Reading \/ pc = "fetch" => failure = "none"
    /\ pc \notin {"read", "done"} => ~onWire
    /\ onWire /\ "id" \notin unread => pendingId = frame.id
    /\ onWire /\ "data" \notin unread => pendingData
    /\ pc \notin {"deliver", "done"} => outEnd < outNext

CaughtUp == sent \in {cursor - 1, cursor} /\ (~scn.resends => sent = cursor)

EphemeralFrame ==
    frame.id = NoId /\ frame.lo = Ephemeral /\ frame.hi = Ephemeral /\ ~Guarded

NextFrame ==
    /\ frame.id = frame.hi /\ sent = frame.hi
    /\ frame.lo \in {cursor, cursor + 1} /\ frame.lo >= 0
    /\ frame.lo <= frame.hi /\ cursor <= frame.hi
    /\ ~scn.resends => frame.lo = cursor + 1

PlaceInv ==
    LosslessEnds /\ ~Cancelled =>
        /\ Reading /\ ~onWire => CaughtUp
        /\ Reading /\ onWire => (EphemeralFrame /\ CaughtUp) \/ NextFrame
        /\ maxSequence <= cursor
        /\ \A i \in 1 .. Len(yielded) : yielded[i] <= cursor
        /\ outNext <= outEnd => outEnd <= cursor

Has(n) == \E i \in 1 .. Len(yielded) : yielded[i] = n

CoverInv ==
    LosslessEnds /\ Decodes /\ ~Cancelled =>
        \A n \in scn.start + 1 .. cursor : Has(n) \/ n \in outNext .. outEnd

(* Channels without sequences: order rests on the position alone.          *)
RisingInv ==
    ~Guarded /\ ~scn.resends /\ LosslessEnds =>
        /\ \A i, j \in 1 .. Len(yielded) :
              i < j /\ yielded[i] # Ephemeral /\ yielded[j] # Ephemeral
                  => yielded[i] < yielded[j]
        /\ outNext <= outEnd =>
              IF outNext = Ephemeral THEN outEnd = Ephemeral
              ELSE \A i \in 1 .. Len(yielded) : yielded[i] < outNext

LEMMA PositionInit == Init => WireInv /\ PlaceInv /\ CoverInv /\ RisingInv
  <1> SUFFICES ASSUME Init PROVE WireInv /\ PlaceInv /\ CoverInv /\ RisingInv
    OBVIOUS
  <1>1. scn.start \in NoCursor .. Last
    BY SseAssumption DEF Init, Scenario
  <1>2. PlaceInv
    BY <1>1 DEF Init, PlaceInv, Reading, NoCursor
  <1>3. CoverInv
    BY <1>1 DEF Init, CoverInv, NoCursor
  <1> QED BY <1>2, <1>3 DEF Init, WireInv, RisingInv

LEMMA WireStep == TypeInv /\ WireInv /\ [Next]_vars => WireInv'
  <1> SUFFICES ASSUME TypeInv, WireInv, [Next]_vars PROVE WireInv'
    OBVIOUS
  <1> USE DEF WireInv, Reading, hostVars, cursorVars, parseVars, outVars
  <1>1. CASE HostLogs
    BY <1>1 DEF HostLogs
  <1>2. CASE HostSends
    BY <1>2 DEF HostSends, TypeInv, FrameOK
  <1>3. CASE HostSendsEphemeral
    BY <1>3 DEF HostSendsEphemeral, Fault, CanFault, TypeInv, FrameOK
  <1>4. CASE FloorPasses
    BY <1>4 DEF FloorPasses
  <1>5. CASE StartConnect
    BY <1>5 DEF StartConnect, Finish
  <1>6. CASE ConnectOk
    BY <1>6 DEF ConnectOk, Fault, CanFault
  <1>7. CASE ConnectError
    BY <1>7 DEF ConnectError, ConnectFails, Fault, CanFault, Finish
  <1>8. CASE ConnectAborted
    BY <1>8 DEF ConnectAborted, ConnectFails, Finish
  <1>9. CASE ReadId
    BY <1>9 DEF ReadId
  <1>10. CASE ReadData
    BY <1>10 DEF ReadData
  <1>11. CASE ReadBlank
    <2>1. FlushTyped
      BY <1>11, StepFlushTypes
    <2>2. failure' = "none"
      BY <1>11 DEF ReadBlank
    <2> QED BY <2>1, <2>2 DEF FlushTyped
  <1>12. CASE Yield
    BY <1>12 DEF Yield, Finish
  <1>13. CASE SendCancelled
    BY <1>13 DEF SendCancelled, Finish
  <1>14. CASE Delivered
    BY <1>14, SseAssumption DEF Delivered, Finish, TypeInv, TypeOK
  <1>15. CASE BodyEnds
    <2>1. FlushTyped
      BY <1>15, StepFlushTypes
    <2>2. failure' = "none"
      BY <1>15 DEF BodyEnds
    <2> QED BY <2>1, <2>2 DEF FlushTyped
  <1>16. CASE BodyBreaks
    <2>1. CASE scn.sdk = "go"
      <3>1. FlushTyped
        BY <1>16, <2>1, StepFlushTypes
      <3>2. after' = "decide"
        BY <1>16, <2>1 DEF BodyBreaks, GoFinalFlush, Flush
      <3> QED BY <3>1, <3>2 DEF FlushTyped
    <2>2. CASE scn.sdk # "go"
      BY <1>16, <2>2 DEF BodyBreaks, Finish
    <2> QED BY <2>1, <2>2
  <1>18. CASE Decide
    BY <1>18 DEF Decide, GivesUp, Finish
  <1>19. CASE Wait
    BY <1>19 DEF Wait, Finish
  <1>20. CASE Abort
    BY <1>20 DEF Abort
  <1>21. CASE UNCHANGED vars
    BY <1>21 DEF vars
  <1> QED BY <1>1, <1>2, <1>3, <1>4, <1>5, <1>6, <1>7, <1>8, <1>9, <1>10, <1>11,
         <1>12, <1>13, <1>14, <1>15, <1>16, <1>18, <1>19, <1>20, <1>21 DEF Next

(* Only a flush and a delivery move the cursor and the queue.              *)
LEMMA StepKinds ==
  ASSUME [Next]_vars
  PROVE  \/ ReadBlank \/ Yield \/ BodyEnds \/ BodyBreaks
         \/ UNCHANGED <<scn, cursor, maxSequence, yielded, outNext, outEnd>>
  <1> USE DEF hostVars, cursorVars, parseVars, outVars
  <1>1. CASE HostLogs
    BY <1>1 DEF HostLogs
  <1>2. CASE HostSends
    BY <1>2 DEF HostSends
  <1>3. CASE HostSendsEphemeral
    BY <1>3 DEF HostSendsEphemeral, Fault, CanFault
  <1>4. CASE FloorPasses
    BY <1>4 DEF FloorPasses
  <1>5. CASE StartConnect
    BY <1>5 DEF StartConnect, Finish
  <1>6. CASE ConnectOk
    BY <1>6 DEF ConnectOk, Fault, CanFault
  <1>7. CASE ConnectError
    BY <1>7 DEF ConnectError, ConnectFails, Fault, CanFault, Finish
  <1>8. CASE ConnectAborted
    BY <1>8 DEF ConnectAborted, ConnectFails, Finish
  <1>9. CASE ReadId
    BY <1>9 DEF ReadId
  <1>10. CASE ReadData
    BY <1>10 DEF ReadData
  <1>11. CASE SendCancelled
    BY <1>11 DEF SendCancelled, Finish
  <1>12. CASE Delivered
    BY <1>12 DEF Delivered, Finish
  <1>14. CASE Decide
    BY <1>14 DEF Decide, GivesUp, Finish
  <1>15. CASE Wait
    BY <1>15 DEF Wait, Finish
  <1>16. CASE Abort
    BY <1>16 DEF Abort
  <1>17. CASE UNCHANGED vars
    BY <1>17 DEF vars
  <1> QED BY <1>1, <1>2, <1>3, <1>4, <1>5, <1>6, <1>7, <1>8, <1>9, <1>10, <1>11,
         <1>12, <1>14, <1>15, <1>16, <1>17 DEF Next

(* A cancelled Go reader stays so: it reads and connects no more.          *)
LEMMA CancelledForGood == TypeInv /\ WireInv /\ Cancelled /\ [Next]_vars => Cancelled'
  <1> SUFFICES ASSUME TypeInv, WireInv, Cancelled, [Next]_vars PROVE Cancelled'
    OBVIOUS
  <1> USE DEF Cancelled, WireInv, Reading
  <1>1. CASE HostLogs \/ HostSends \/ HostSendsEphemeral \/ FloorPasses \/ Abort
    BY <1>1 DEF HostLogs, HostSends, HostSendsEphemeral, FloorPasses, Abort
  <1>2. CASE \/ StartConnect \/ ConnectOk \/ ConnectError \/ ConnectAborted
             \/ ReadId \/ ReadData \/ ReadBlank \/ BodyEnds \/ BodyBreaks \/ Wait
    BY <1>2 DEF StartConnect, ConnectOk, ConnectError, ConnectAborted, ConnectFails,
                ReadId, ReadData, ReadBlank, BodyEnds, BodyBreaks, Wait
  <1>3. CASE Yield
    BY <1>3 DEF Yield, Finish
  <1>4. CASE SendCancelled
    BY <1>4 DEF SendCancelled, Finish
  <1>5. CASE Delivered
    BY <1>5 DEF Delivered, Finish, TypeInv, TypeOK
  <1>6. CASE Decide
    BY <1>6 DEF Decide, StopsHere, GivesUp, Finish
  <1>7. CASE UNCHANGED vars
    BY <1>7 DEF vars
  <1> QED BY <1>1, <1>2, <1>3, <1>4, <1>5, <1>6, <1>7 DEF Next

(* The end of a connection that cuts no frame moves nothing.               *)
LEMMA LosslessEnd ==
  ASSUME TypeInv, LosslessEnds, ~Cancelled', BodyEnds \/ BodyBreaks
  PROVE  /\ UNCHANGED <<scn, cursor, maxSequence, yielded>>
         /\ \/ UNCHANGED <<outNext, outEnd>>
            \/ outNext' = 0 /\ outEnd' = -2
  <1>1. UNCHANGED <<scn, yielded>>
    BY DEF BodyEnds, BodyBreaks
  <1>2. ASSUME ~onWire, NEW g, NEW t \in {<<pendingId, pendingData>>} \cup TornTails,
               Flush(t[1], t[2], g, "decide")
        PROVE  /\ UNCHANGED <<cursor, maxSequence>>
               /\ outNext' = 0 /\ outEnd' = -2
    <2>1. TornTails = {} /\ pendingId = NoId /\ pendingData = FALSE
      BY <1>2 DEF TornTails, TypeInv, TypeOK, FrameOK
    <2>2. t = <<NoId, FALSE>>
      BY <2>1
    <2>3. t[1] = NoId /\ t[2] = FALSE
      BY <2>2
    <2>4. Flush(NoId, FALSE, g, "decide")
      BY <1>2, <2>3
    <2> QED BY <2>4 DEF Flush, NextCursor
  <1>3. CASE BodyEnds
    <2>1. ~onWire
      BY <1>3 DEF BodyEnds, LosslessEnds
    <2>2. \E g \in BOOLEAN, t \in {<<pendingId, pendingData>>} \cup TornTails :
             Flush(t[1], t[2], g, "decide")
      <3>1. CASE TsFinalFlush
        <4>1. <<pendingId, pendingData>>[1] = pendingId /\ <<pendingId, pendingData>>[2] = pendingData
          OBVIOUS
        <4> QED BY <3>1, <4>1 DEF TsFinalFlush
      <3>2. CASE PyFinalFlush
        BY <3>2 DEF PyFinalFlush
      <3>3. CASE GoFinalFlush
        BY <3>3 DEF GoFinalFlush
      <3> QED BY <1>3, <3>1, <3>2, <3>3 DEF BodyEnds, FinalFlush
    <2> QED BY <1>1, <1>2, <2>1, <2>2
  <1>4. CASE BodyBreaks /\ scn.sdk = "go"
    <2>1. GoFinalFlush /\ pc' = "deliver" /\ UNCHANGED <<scn, stopped>> /\ failure' = "stream"
      BY <1>4 DEF BodyBreaks, GoFinalFlush, Flush
    <2>2. ~stopped
      BY <1>4, <2>1 DEF Cancelled
    <2>3. ~onWire
      BY <1>4, <2>2 DEF BodyBreaks, ReadError, LosslessEnds
    <2> QED BY <1>1, <1>2, <2>1, <2>3 DEF GoFinalFlush
  <1>5. CASE BodyBreaks /\ scn.sdk # "go"
    BY <1>1, <1>5 DEF BodyBreaks, cursorVars, outVars
  <1> QED BY <1>3, <1>4, <1>5

(* What the blank line of a frame does to the position.                    *)
LEMMA FrameMoves ==
  ASSUME TypeInv, WireInv, PlaceInv, LosslessEnds, ReadBlank
  PROVE  /\ UNCHANGED <<scn, yielded, sent>>
         /\ onWire' = FALSE /\ pc' = "deliver" /\ after' = "read"
         /\ \/ /\ ~Guarded /\ CaughtUp
               /\ UNCHANGED <<cursor, maxSequence>>
               /\ outNext' = Ephemeral /\ outEnd' \in {Ephemeral, -2}
            \/ /\ NextFrame
               /\ cursor' = frame.hi
               /\ maxSequence' = IF Guarded THEN frame.hi ELSE maxSequence
               /\ outNext' = IF Guarded THEN Larger(frame.lo, maxSequence + 1)
                                       ELSE frame.lo
               /\ outEnd' = IF Decodes THEN frame.hi ELSE -2
  <1> USE DEF NoId, NoCursor, Ephemeral
  <1>1. /\ pc = "read" /\ onWire /\ Flush(pendingId, pendingData, TRUE, "read")
        /\ UNCHANGED <<scn, yielded, sent>>
    BY DEF ReadBlank
  <1>2. pendingId = frame.id /\ pendingData = TRUE
    BY DEF ReadBlank, WireInv, TypeInv, TypeOK
  <1>3. Flush(frame.id, TRUE, TRUE, "read")
    BY <1>1, <1>2
  <1>4. ((EphemeralFrame /\ CaughtUp) \/ NextFrame) /\ maxSequence <= cursor
    BY <1>1 DEF PlaceInv, Reading, Cancelled
  <1>5. onWire' = FALSE /\ pc' = "deliver" /\ after' = "read"
    BY <1>3 DEF Flush
  <1>6. CASE EphemeralFrame /\ CaughtUp
    <2>1. frame.id = -2 /\ frame.lo = -1 /\ frame.hi = -1 /\ ~Guarded
      BY <1>6 DEF EphemeralFrame
    <2> QED BY <1>1, <1>3, <1>5, <1>6, <2>1 DEF Flush, NextCursor, FirstNew
  <1>7. CASE NextFrame
    <2>1. frame.id = frame.hi /\ frame.hi \in 0 .. Last /\ cursor <= frame.hi
      BY <1>7, SseAssumption DEF NextFrame, TypeInv, TypeOK
    <2>2. cursor' = frame.hi
      BY <1>3, <2>1, SseAssumption DEF Flush, NextCursor
    <2>3. maxSequence <= cursor /\ cursor \in Int /\ maxSequence \in Int
      BY <1>4, SseAssumption DEF TypeInv, TypeOK
    <2>4. Guarded => Larger(maxSequence, frame.hi) = frame.hi
      BY <2>1, <2>3, SseAssumption DEF Larger
    <2>5. maxSequence' = IF Guarded THEN frame.hi ELSE maxSequence
      BY <1>3, <2>4 DEF Flush
    <2>6. /\ outNext' = IF Guarded THEN Larger(frame.lo, maxSequence + 1) ELSE frame.lo
          /\ outEnd' = IF Decodes THEN frame.hi ELSE -2
      BY <1>3 DEF Flush, FirstNew
    <2> QED BY <1>1, <1>5, <1>7, <2>2, <2>5, <2>6
  <1> QED BY <1>4, <1>6, <1>7

LEMMA PlaceStep ==
  TypeInv /\ TypeInv' /\ WireInv /\ WireInv' /\ PlaceInv /\ [Next]_vars => PlaceInv'
  <1> SUFFICES ASSUME TypeInv, TypeInv', WireInv, WireInv', PlaceInv, [Next]_vars,
                      LosslessEnds', ~Cancelled'
               PROVE  PlaceInv'
    BY DEF PlaceInv
  <1>0. scn' = scn /\ LosslessEnds /\ ~Cancelled
    <2>1. scn' = scn
      BY StepKinds DEF ReadBlank, Yield, BodyEnds, BodyBreaks
    <2> QED BY <2>1, CancelledForGood DEF LosslessEnds
  <1> USE SseAssumption
  <1>a. /\ cursor \in NoCursor .. Last /\ maxSequence \in -1 .. Last
        /\ outNext \in Int /\ outEnd \in Int /\ sent \in NoCursor .. Last
        /\ yielded \in Seq(-1 .. Last)
        /\ frame.lo \in Int /\ frame.hi \in Int
    BY DEF TypeInv, TypeOK
  <1>b. /\ maxSequence <= cursor
        /\ \A i \in 1 .. Len(yielded) : yielded[i] <= cursor
        /\ outNext <= outEnd => outEnd <= cursor
        /\ Reading /\ ~onWire => CaughtUp
        /\ Reading /\ onWire => (EphemeralFrame /\ CaughtUp) \/ NextFrame
    BY <1>0 DEF PlaceInv
  <1> USE DEF NoCursor, hostVars, cursorVars, parseVars, outVars
  <1>c. ASSUME UNCHANGED <<scn, cursor, maxSequence, yielded, outNext, outEnd>>,
               /\ Reading' /\ ~onWire' => CaughtUp'
               /\ Reading' /\ onWire' => (EphemeralFrame' /\ CaughtUp') \/ NextFrame'
        PROVE  PlaceInv'
    BY <1>b, <1>c DEF PlaceInv
  <1>d. ASSUME UNCHANGED <<scn, cursor, maxSequence, yielded, outNext, outEnd>>,
               pc' \notin {"read", "deliver"}
        PROVE  PlaceInv'
    BY <1>c, <1>d DEF Reading
  <1>e. ASSUME UNCHANGED <<scn, cursor, maxSequence, yielded, outNext, outEnd>>,
               UNCHANGED <<sent, frame, onWire>>, Reading' => Reading
        PROVE  PlaceInv'
    <2>1. CaughtUp' <=> CaughtUp
      BY <1>e DEF CaughtUp
    <2>2. (NextFrame' <=> NextFrame) /\ (EphemeralFrame' <=> EphemeralFrame)
      BY <1>e DEF NextFrame, EphemeralFrame, Guarded
    <2> QED BY <1>b, <1>c, <1>e, <2>1, <2>2
  <1>1. CASE HostLogs
    BY <1>1, <1>e DEF HostLogs, Reading
  <1>2. CASE HostSends
    <2>1. CaughtUp
      BY <1>2, <1>b DEF HostSends, Reading
    <2>2. PICK hi \in sent + 1 .. logged, batch \in BOOLEAN :
             /\ frame' = [id |-> hi, lo |-> sent + 1, hi |-> hi, batch |-> batch]
             /\ sent' = hi
      BY <1>2 DEF HostSends
    <2>3. hi \in Int /\ sent + 1 <= hi
      BY <1>a, <2>2 DEF TypeInv, TypeOK
    <2>4. frame'.id = hi /\ frame'.lo = sent + 1 /\ frame'.hi = hi
      BY <2>2
    <2>5. UNCHANGED <<scn, cursor, maxSequence, yielded, outNext, outEnd>> /\ onWire' = TRUE
      BY <1>2 DEF HostSends
    <2>6. NextFrame'
      BY <1>a, <2>1, <2>2, <2>3, <2>4, <2>5 DEF NextFrame, CaughtUp
    <2> QED BY <1>c, <2>5, <2>6
  <1>3. CASE HostSendsEphemeral
    <2>1. CaughtUp
      BY <1>3, <1>b DEF HostSendsEphemeral, Reading
    <2>2. UNCHANGED <<scn, cursor, maxSequence, yielded, outNext, outEnd, sent>> /\ onWire' = TRUE
      BY <1>3 DEF HostSendsEphemeral
    <2>3. frame'.id = NoId /\ frame'.lo = Ephemeral /\ frame'.hi = Ephemeral
      BY <1>3 DEF HostSendsEphemeral
    <2>4. EphemeralFrame' /\ CaughtUp'
      BY <1>3, <2>1, <2>2, <2>3 DEF EphemeralFrame, CaughtUp, Guarded, HostSendsEphemeral
    <2> QED BY <1>c, <2>2, <2>4
  <1>4. CASE FloorPasses
    BY <1>4, <1>e DEF FloorPasses, Reading
  <1>5. CASE StartConnect
    BY <1>5, <1>d DEF StartConnect, Finish
  <1>6. CASE ConnectOk
    <2>1. UNCHANGED <<scn, cursor, maxSequence, yielded, outNext, outEnd, onWire>>
      BY <1>6 DEF ConnectOk
    <2>2. sent' = cursor \/ (scn.resends /\ sent' = cursor - 1)
      BY <1>6 DEF ConnectOk
    <2>3. CaughtUp'
      BY <1>a, <2>1, <2>2 DEF CaughtUp
    <2>4. ~onWire'
      BY <1>6, <2>1 DEF ConnectOk, WireInv
    <2> QED BY <1>c, <2>1, <2>3, <2>4
  <1>7. CASE ConnectError
    BY <1>7, <1>d DEF ConnectError, ConnectFails, Fault, CanFault, Finish
  <1>8. CASE ConnectAborted
    BY <1>8, <1>d DEF ConnectAborted, ConnectFails, Finish
  <1>9. CASE ReadId
    BY <1>9, <1>e DEF ReadId, Reading
  <1>10. CASE ReadData
    BY <1>10, <1>e DEF ReadData, Reading
  <1>11. CASE ReadBlank
    <2>1. CASE /\ ~Guarded /\ CaughtUp
               /\ UNCHANGED <<scn, yielded, sent, cursor, maxSequence>>
               /\ onWire' = FALSE
               /\ outNext' = Ephemeral /\ outEnd' \in {Ephemeral, -2}
      <3>1. CaughtUp'
        BY <2>1 DEF CaughtUp
      <3>2. outNext' <= outEnd' => outEnd' <= cursor'
        BY <1>a, <2>1 DEF Ephemeral
      <3> QED BY <1>b, <2>1, <3>1, <3>2 DEF PlaceInv
    <2>2. CASE /\ NextFrame /\ cursor' = frame.hi
               /\ UNCHANGED <<scn, yielded, sent>> /\ onWire' = FALSE
               /\ maxSequence' = (IF Guarded THEN frame.hi ELSE maxSequence)
               /\ outEnd' = (IF Decodes THEN frame.hi ELSE -2)
      <3>1. sent' = cursor' /\ cursor <= cursor' /\ cursor' \in Int
        BY <1>a, <2>2 DEF NextFrame
      <3>2. CaughtUp'
        BY <3>1 DEF CaughtUp
      <3>3. maxSequence' <= cursor'
        BY <1>a, <1>b, <2>2, <3>1
      <3>4. outNext' <= outEnd' => outEnd' <= cursor'
        BY <1>a, <2>2, <3>1
      <3>5. \A i \in 1 .. Len(yielded) : yielded[i] \in Int
        BY <1>a
      <3>6. \A i \in 1 .. Len(yielded) : yielded[i] <= cursor'
        BY <1>a, <1>b, <3>1, <3>5
      <3> QED BY <2>2, <3>2, <3>3, <3>4, <3>6 DEF PlaceInv
    <2> QED BY <1>0, <1>11, <2>1, <2>2, FrameMoves
  <1>12. CASE Yield
    <2>1. /\ outNext <= outEnd /\ yielded' = Append(yielded, outNext)
          /\ outNext' = outNext + 1 /\ pc = "deliver"
          /\ UNCHANGED <<scn, outEnd, cursor, maxSequence, sent, onWire, frame, after>>
          /\ pc' \in {"deliver", "done"}
      BY <1>12 DEF Yield, Finish
    <2>2. \A i \in 1 .. Len(yielded') : yielded'[i] <= cursor
      BY <1>a, <1>b, <2>1
    <2>3. Reading' => Reading
      BY <2>1 DEF Reading
    <2>4. CaughtUp' <=> CaughtUp
      BY <2>1 DEF CaughtUp
    <2>5. ~onWire
      BY <2>1 DEF WireInv
    <2>6. outNext' <= outEnd' => outEnd' <= cursor'
      BY <1>a, <1>b, <2>1
    <2> QED BY <1>b, <2>1, <2>2, <2>3, <2>4, <2>5, <2>6 DEF PlaceInv
  <1>13. CASE SendCancelled
    BY <1>13, <1>d DEF SendCancelled, Finish
  <1>14. CASE Delivered
    BY <1>14, <1>e DEF Delivered, Finish, Reading
  <1>15. CASE BodyEnds
    <2>1. /\ UNCHANGED <<cursor, maxSequence, yielded>>
          /\ UNCHANGED <<outNext, outEnd>> \/ (outNext' = 0 /\ outEnd' = -2)
      BY <1>0, <1>15, LosslessEnd
    <2>2. ~Reading'
      BY <1>15 DEF BodyEnds, FinalFlush, TsFinalFlush, PyFinalFlush, GoFinalFlush, Flush, Reading
    <2> QED BY <1>b, <2>1, <2>2 DEF PlaceInv
  <1>16. CASE BodyBreaks
    <2>1. /\ UNCHANGED <<cursor, maxSequence, yielded>>
          /\ UNCHANGED <<outNext, outEnd>> \/ (outNext' = 0 /\ outEnd' = -2)
      BY <1>0, <1>16, LosslessEnd
    <2>2. ~Reading'
      BY <1>16 DEF BodyBreaks, GoFinalFlush, Flush, Finish, Reading
    <2> QED BY <1>b, <2>1, <2>2 DEF PlaceInv
  <1>18. CASE Decide
    BY <1>18, <1>d DEF Decide, GivesUp, Finish
  <1>19. CASE Wait
    BY <1>19, <1>d DEF Wait, Finish
  <1>20. CASE Abort
    BY <1>20, <1>e DEF Abort, Reading
  <1>21. CASE UNCHANGED vars
    BY <1>21, <1>e DEF vars, Reading
  <1> QED BY <1>1, <1>2, <1>3, <1>4, <1>5, <1>6, <1>7, <1>8, <1>9, <1>10, <1>11,
         <1>12, <1>13, <1>14, <1>15, <1>16, <1>18, <1>19, <1>20, <1>21 DEF Next

(* The facts about a delivery that the two invariants below share.         *)
LEMMA YieldMoves ==
  ASSUME TypeInv, Yield
  PROVE  /\ outNext \in Int /\ outEnd \in Int /\ outNext <= outEnd
         /\ outNext' = outNext + 1
         /\ UNCHANGED <<scn, outEnd, cursor, maxSequence>>
         /\ Len(yielded) \in Nat /\ Len(yielded') = Len(yielded) + 1
         /\ yielded'[Len(yielded) + 1] = outNext
         /\ \A i \in 1 .. Len(yielded) :
               yielded'[i] = yielded[i] /\ yielded[i] \in -1 .. Last
  <1>1. /\ outNext <= outEnd /\ outNext' = outNext + 1
        /\ yielded' = Append(yielded, outNext)
        /\ UNCHANGED <<scn, outEnd, cursor, maxSequence>>
    BY DEF Yield, cursorVars
  <1>2. outNext \in Int /\ outEnd \in Int /\ yielded \in Seq(-1 .. Last)
    BY SseAssumption DEF TypeInv, TypeOK
  <1>3. Len(yielded) \in Nat /\ \A i \in 1 .. Len(yielded) : yielded[i] \in -1 .. Last
    <2>1. \A S : \A s \in Seq(S) : Len(s) \in Nat /\ \A i \in 1 .. Len(s) : s[i] \in S
      OBVIOUS
    <2> QED BY <1>2, <2>1
  <1>4. /\ Len(yielded') = Len(yielded) + 1
        /\ yielded'[Len(yielded) + 1] = outNext
        /\ \A i \in 1 .. Len(yielded) : yielded'[i] = yielded[i]
    BY <1>1, <1>2
  <1> QED BY <1>1, <1>2, <1>3, <1>4

LEMMA CoverStep ==
  TypeInv /\ WireInv /\ PlaceInv /\ CoverInv /\ [Next]_vars => CoverInv'
  <1> SUFFICES ASSUME TypeInv, WireInv, PlaceInv, CoverInv, [Next]_vars,
                      LosslessEnds', Decodes', ~Cancelled'
               PROVE  CoverInv'
    BY DEF CoverInv
  <1>0. scn' = scn
    BY StepKinds DEF ReadBlank, Yield, BodyEnds, BodyBreaks
  <1>1. LosslessEnds /\ Decodes /\ ~Cancelled
    BY <1>0, CancelledForGood DEF LosslessEnds, Decodes
  <1>2. /\ cursor \in Int /\ maxSequence \in Int /\ outNext \in Int /\ outEnd \in Int
        /\ scn.start \in Int /\ frame.lo \in Int /\ frame.hi \in Int
    BY SseAssumption DEF TypeInv, TypeOK, Scenario, NoCursor
  <1>3. \A n \in scn.start + 1 .. cursor : Has(n) \/ n \in outNext .. outEnd
    BY <1>1 DEF CoverInv
  <1>4. CASE UNCHANGED <<scn, cursor, maxSequence, yielded, outNext, outEnd>>
    BY <1>3, <1>4 DEF CoverInv, Has
  <1>5. CASE BodyEnds \/ BodyBreaks
    <2>1. outEnd < outNext
      BY <1>5 DEF BodyEnds, BodyBreaks, WireInv
    <2>2. \A n \in scn.start + 1 .. cursor : Has(n)
      BY <1>2, <1>3, <2>1
    <2>3. UNCHANGED <<cursor, yielded>>
      BY <1>1, <1>5, LosslessEnd
    <2> QED BY <1>0, <2>2, <2>3 DEF CoverInv, Has
  <1>6. CASE Yield
    <2> SUFFICES ASSUME NEW n \in scn.start + 1 .. cursor
                 PROVE  Has(n)' \/ n \in outNext' .. outEnd'
      BY <1>0, <1>6, YieldMoves DEF CoverInv
    <2>1. CASE Has(n)
      BY <1>6, <2>1, YieldMoves DEF Has
    <2>2. CASE n \in outNext .. outEnd /\ n # outNext
      BY <1>2, <1>6, <2>2, YieldMoves
    <2>3. CASE n = outNext
      BY <1>6, <2>3, YieldMoves DEF Has
    <2> QED BY <1>3, <2>1, <2>2, <2>3
  <1>7. CASE ReadBlank
    <2>1. outEnd < outNext
      BY <1>7 DEF ReadBlank, WireInv
    <2>2. \A n \in scn.start + 1 .. cursor : Has(n)
      BY <1>2, <1>3, <2>1
    <2>3. UNCHANGED yielded
      BY <1>7 DEF ReadBlank
    <2>4. CASE UNCHANGED cursor
      BY <1>0, <2>2, <2>3, <2>4 DEF CoverInv, Has
    <2>5. CASE /\ NextFrame /\ cursor' = frame.hi
               /\ outNext' = (IF Guarded THEN Larger(frame.lo, maxSequence + 1)
                                         ELSE frame.lo)
               /\ outEnd' = (IF Decodes THEN frame.hi ELSE -2)
      <3> SUFFICES ASSUME NEW n \in scn.start + 1 .. cursor', ~Has(n)
                   PROVE  n \in outNext' .. outEnd'
        BY <1>0, <2>3 DEF CoverInv, Has
      <3>1. n \in Int /\ cursor < n /\ n <= frame.hi
        BY <1>2, <2>2, <2>5
      <3>2. maxSequence <= cursor
        BY <1>1 DEF PlaceInv
      <3>3. frame.lo <= cursor + 1
        BY <1>2, <2>5 DEF NextFrame
      <3>4. outNext' <= n /\ outNext' \in Int
        BY <1>2, <2>5, <3>1, <3>2, <3>3 DEF Larger
      <3> QED BY <1>1, <1>2, <2>5, <3>1, <3>4
    <2> QED BY <1>1, <1>7, <2>4, <2>5, FrameMoves
  <1> QED BY <1>4, <1>5, <1>6, <1>7, StepKinds

(* A cancelled Go reader flushes what it has of a frame: nothing, if there *)
(* is none on the wire.                                                    *)
LEMMA CancelledFlush ==
  ASSUME TypeInv, WireInv, BodyEnds \/ BodyBreaks, Cancelled'
  PROVE  /\ pc = "read" /\ ~Cancelled /\ UNCHANGED <<scn, yielded>>
         /\ \E t \in (NoId .. Last) \X BOOLEAN :
               Flush(t[1], t[2], TRUE, "decide") /\ (t[2] => onWire)
  <1>1. /\ pc = "read" /\ BodyBreaks /\ scn.sdk = "go" /\ UNCHANGED <<scn, yielded>>
        /\ ~Cancelled
    BY DEF BodyEnds, BodyBreaks, Cancelled, WireInv, Reading
  <1>2. PICK t \in {<<pendingId, pendingData>>} \cup TornTails : Flush(t[1], t[2], TRUE, "decide")
    BY <1>1 DEF BodyBreaks, GoFinalFlush
  <1>3. ~onWire => ~t[2]
    <2>1. ~onWire => TornTails = {} /\ ~pendingData
      BY DEF TornTails, TypeInv, FrameOK
    <2>2. ~onWire => t = <<pendingId, pendingData>>
      BY <2>1
    <2> QED BY <2>1, <2>2
  <1> QED BY <1>1, <1>2, <1>3, TailTypes

(* Half a frame flushed by a cancelled Go reader is still news.            *)
LEMMA RisingWhenCancelled ==
  ASSUME TypeInv, WireInv, PlaceInv, RisingInv, BodyEnds \/ BodyBreaks, Cancelled',
         ~Guarded, ~scn.resends, LosslessEnds
  PROVE  RisingInv'
  <1> USE DEF NoId, NoCursor, Ephemeral
  <1>1. pc = "read" /\ UNCHANGED <<scn, yielded>>
    BY CancelledFlush
  <1>2. PICK t \in (NoId .. Last) \X BOOLEAN : Flush(t[1], t[2], TRUE, "decide") /\ (t[2] => onWire)
    BY CancelledFlush
  <1>3. /\ yielded \in Seq(-1 .. Last) /\ cursor \in Int /\ frame.lo \in Int
        /\ cursor >= -1
    BY SseAssumption DEF TypeInv, TypeOK
  <1>4. ~Cancelled
    BY CancelledFlush
  <1>5. \A i \in 1 .. Len(yielded) : yielded[i] \in Int /\ yielded[i] <= cursor
    BY <1>3, <1>4, SseAssumption DEF PlaceInv
  <1>6. CASE ~t[2]
    <2>1. outNext' = 0 /\ outEnd' = -2
      BY <1>2, <1>6 DEF Flush
    <2> QED BY <1>1, <2>1 DEF RisingInv
  <1>7. CASE t[2]
    <2>1. outNext' = frame.lo /\ outEnd' \in {frame.hi, -2}
      BY <1>2, <1>7 DEF Flush, FirstNew
    <2>2. (EphemeralFrame /\ CaughtUp) \/ NextFrame
      BY <1>1, <1>2, <1>4, <1>7 DEF PlaceInv, Reading
    <2>3. CASE EphemeralFrame
      BY <1>1, <2>1, <2>3 DEF RisingInv, EphemeralFrame
    <2>4. CASE NextFrame
      <3>1. frame.lo = cursor + 1 /\ frame.lo \in Int /\ frame.lo >= 0
        BY <1>3, <2>4 DEF NextFrame
      <3>2. outNext' # -1 /\ \A i \in 1 .. Len(yielded) : yielded[i] < outNext'
        BY <1>3, <1>5, <2>1, <3>1
      <3> QED BY <1>1, <3>2 DEF RisingInv
    <2> QED BY <2>2, <2>3, <2>4
  <1> QED BY <1>6, <1>7

LEMMA RisingStep ==
  TypeInv /\ WireInv /\ PlaceInv /\ RisingInv /\ [Next]_vars => RisingInv'
  <1> SUFFICES ASSUME TypeInv, WireInv, PlaceInv, RisingInv, [Next]_vars,
                      ~Guarded', ~scn'.resends, LosslessEnds'
               PROVE  RisingInv'
    BY DEF RisingInv
  <1>0. scn' = scn
    BY StepKinds DEF ReadBlank, Yield, BodyEnds, BodyBreaks
  <1>1. ~Guarded /\ ~scn.resends /\ LosslessEnds
    BY <1>0 DEF LosslessEnds, Guarded
  <1>2. /\ cursor \in Int /\ outNext \in Int /\ outEnd \in Int
        /\ yielded \in Seq(-1 .. Last) /\ frame.lo \in Int
    BY SseAssumption DEF TypeInv, TypeOK, NoCursor
  <1>3. /\ \A i, j \in 1 .. Len(yielded) :
              i < j /\ yielded[i] # Ephemeral /\ yielded[j] # Ephemeral
                  => yielded[i] < yielded[j]
        /\ outNext <= outEnd =>
              IF outNext = Ephemeral THEN outEnd = Ephemeral
              ELSE \A i \in 1 .. Len(yielded) : yielded[i] < outNext
    BY <1>1 DEF RisingInv
  <1>4. CASE UNCHANGED <<scn, cursor, maxSequence, yielded, outNext, outEnd>>
    BY <1>3, <1>4 DEF RisingInv
  <1>5. CASE BodyEnds \/ BodyBreaks
    <2>1. outEnd < outNext
      BY <1>5 DEF BodyEnds, BodyBreaks, WireInv
    <2>2. UNCHANGED yielded
      BY <1>5 DEF BodyEnds, BodyBreaks
    <2>3. CASE UNCHANGED <<outNext, outEnd>> \/ (outNext' = 0 /\ outEnd' = -2)
      BY <1>2, <1>3, <2>1, <2>2, <2>3 DEF RisingInv
    <2>4. CASE Cancelled'
      BY <1>1, <1>5, <2>4, RisingWhenCancelled
    <2> QED BY <1>1, <1>5, <2>3, <2>4, LosslessEnd
  <1>6. CASE Yield
    <2>1. \A i, j \in 1 .. Len(yielded') :
             i < j /\ yielded'[i] # Ephemeral /\ yielded'[j] # Ephemeral
                 => yielded'[i] < yielded'[j]
      <3> SUFFICES ASSUME NEW i \in 1 .. Len(yielded'), NEW j \in 1 .. Len(yielded'),
                          i < j, yielded'[i] # Ephemeral, yielded'[j] # Ephemeral
                   PROVE  yielded'[i] < yielded'[j]
        OBVIOUS
      <3>1. CASE j <= Len(yielded)
        <4>1. i \in 1 .. Len(yielded) /\ j \in 1 .. Len(yielded)
          BY <1>6, <3>1, YieldMoves
        <4> QED BY <1>3, <1>6, <4>1, YieldMoves
      <3>2. CASE j = Len(yielded) + 1
        <4>1. i \in 1 .. Len(yielded) /\ yielded'[j] = outNext
          BY <1>6, <3>2, YieldMoves
        <4> QED BY <1>3, <1>6, <4>1, YieldMoves
      <3> QED BY <1>6, <3>1, <3>2, YieldMoves
    <2>2. ASSUME outNext' <= outEnd'
          PROVE  outNext' # Ephemeral /\ \A i \in 1 .. Len(yielded') : yielded'[i] < outNext'
      <3>1. outNext + 1 <= outEnd
        BY <1>6, <2>2, YieldMoves
      <3>2. outNext # Ephemeral
        BY <1>2, <1>3, <3>1 DEF Ephemeral
      <3>3. outNext \in -1 .. Last + 1
        BY DEF TypeInv, TypeOK
      <3>4. \A i \in 1 .. Len(yielded) : yielded[i] < outNext
        BY <1>2, <1>3, <3>1, <3>2
      <3> QED BY <1>2, <1>6, <3>2, <3>3, <3>4, YieldMoves, SseAssumption DEF Ephemeral
    <2> QED BY <2>1, <2>2 DEF RisingInv
  <1>7. CASE ReadBlank
    <2>1. UNCHANGED yielded
      BY <1>7 DEF ReadBlank
    <2>2. CASE outNext' = Ephemeral /\ outEnd' \in {Ephemeral, -2}
      BY <1>3, <2>1, <2>2 DEF RisingInv, Ephemeral
    <2>3. CASE NextFrame /\ outNext' = frame.lo
      <3>1. frame.lo = cursor + 1 /\ frame.lo # Ephemeral
        BY <1>1, <1>2, <2>3 DEF NextFrame, Ephemeral
      <3>2. \A i \in 1 .. Len(yielded) : yielded[i] \in Int /\ yielded[i] <= cursor
        BY <1>1, <1>2, <1>7, SseAssumption DEF PlaceInv, Cancelled, ReadBlank
      <3>3. \A i \in 1 .. Len(yielded) : yielded[i] < outNext'
        BY <1>2, <2>3, <3>1, <3>2
      <3> QED BY <1>3, <2>1, <2>3, <3>1, <3>3 DEF RisingInv
    <2> QED BY <1>1, <1>7, <2>2, <2>3, FrameMoves
  <1> QED BY <1>4, <1>5, <1>6, <1>7, StepKinds

-----------------------------------------------------------------------------
(* The whole inductive invariant and what follows from it.                 *)

IInv == TypeInv /\ OrderInv /\ WireInv /\ PlaceInv /\ CoverInv /\ RisingInv

LEMMA Invariance == Spec => []IInv
  <1>1. Init => IInv
    BY TypeInit, OrderInit, PositionInit DEF IInv
  <1>2. IInv /\ [Next]_vars => IInv'
    <2> SUFFICES ASSUME IInv, [Next]_vars PROVE IInv'
      OBVIOUS
    <2>1. TypeInv' /\ OrderInv' /\ WireInv'
      BY TypeStep, OrderStep, WireStep DEF IInv
    <2>2. PlaceInv' /\ CoverInv' /\ RisingInv'
      BY <2>1, PlaceStep, CoverStep, RisingStep DEF IInv
    <2> QED BY <2>1, <2>2 DEF IInv
  <1> QED BY <1>1, <1>2, PTL DEF Spec

(* No event is yielded twice or out of order, on any channel, over any     *)
(* number of connections, in the scenarios NoRepetition names.             *)
THEOREM OrderedDelivery == Spec => []NeverReyields
  <1>1. IInv => NeverReyields
    <2> SUFFICES ASSUME IInv, NoRepetition PROVE NeverReyields
      BY DEF NeverReyields
    <2>1. CASE Guarded
      BY <2>1 DEF IInv, OrderInv, GuardHolds, NoRepetition, NeverReyields
    <2>2. CASE ~Guarded
      BY <2>2 DEF IInv, RisingInv, NoRepetition, NeverReyields
    <2> QED BY <2>1, <2>2
  <1> QED BY <1>1, Invariance, PTL

(* The cursor never passes an event that was not handed out, unless a      *)
(* connection ends inside a frame in a way the SDK cannot undo.            *)
THEOREM LosslessDelivery == Spec => []NoEventLost
  <1>1. IInv => NoEventLost
    <2> SUFFICES ASSUME CoverInv PROVE NoEventLost
      BY DEF IInv
    <2>1. ASSUME NEW n, Has(n) PROVE n \in Seen
      BY <2>1 DEF Has, Seen
    <2> QED BY <2>1 DEF CoverInv, NoEventLost, Cancelled
  <1> QED BY <1>1, Invariance, PTL

(* Every reconnect asks for what comes after the last delivery.            *)
THEOREM ExactResumption == Spec => []ResumesExactly
  <1>1. IInv => ResumesExactly
    BY DEF IInv, PlaceInv, ResumesExactly, Seen, Cancelled
  <1> QED BY <1>1, Invariance, PTL

=============================================================================
