------------------------------ MODULE SseResume ------------------------------
(***************************************************************************)
(* The resumable SSE reader of the three 2.x SDKs (RFC 0247): one          *)
(* subscription, from the caller's `for` loop down to the lines of each    *)
(* connection, next to the host and network it talks to.                   *)
(*                                                                         *)
(* The three readers are one algorithm with a few differences, so there is *)
(* one module: `scn.sdk` selects the operator where an SDK departs from    *)
(* the others (final flush, torn last line, decoding, cancellation).       *)
(*                                                                         *)
(* Events of the stream are numbered 0..Last as the host numbers them;     *)
(* Last is the terminal one on a run stream.  -1 is "no cursor" and, as a  *)
(* document, an ephemeral one, which is numbered nowhere.                  *)
(***************************************************************************)
EXTENDS Integers, Sequences

CONSTANTS
    Last,         \* sequence of the last event, the terminal one of a run
    MaxBatch,     \* most documents the host puts into one frame
    MaxAttempts,  \* policy.maxAttempts
    MaxFaults,    \* bound: adverse moves of host and network in a behaviour
    Scenarios     \* the scenarios to start from, each a member of Scenario

NoCursor  == -1   \* `cursor` undefined or ""
Ephemeral == -1   \* a document with neither sequence nor id
NoId      == -2   \* `pendingId` undefined

Scenario ==
    [ sdk       : {"ts", "py", "go"},
      mode      : {"updates", "values", "host"},  \* events, snapshots, host channel
      reconnect : BOOLEAN,           \* options.reconnect
      start     : NoCursor..Last,    \* options.lastEventId
      resends   : BOOLEAN,           \* the host may re-send the resumption point
      quick     : BOOLEAN,           \* a proxy may close a young, silent stream
      slow      : BOOLEAN,           \* any connect may take longer than the floor
      cuts      : SUBSET {"clean", "drop"} ]  \* ends that may fall inside a frame

ASSUME SseAssumption ==
    /\ Last \in Nat
    /\ MaxBatch \in Nat \ {0}
    /\ MaxAttempts \in Nat
    /\ MaxFaults \in Nat
    /\ Scenarios \subseteq Scenario

VARIABLES
    scn,          \* the scenario, fixed by Init
    (* host and network *)
    logged,       \* last event the host has logged
    sent,         \* last event the host has sent on this connection
    onWire,       \* a frame is being transmitted
    frame,        \* that frame
    unread,       \* its field lines the client has not read yet
    old,          \* the connection outlived the floor for an empty close
    faults,       \* adverse moves so far
    (* client *)
    pc, established, cursor, maxSequence, failures,
    framesSeen,   \* frames > 0 on this connection
    failure,      \* why this connection ended
    pendingId, pendingData,
    outNext, outEnd,  \* decoded documents not yet yielded: outNext..outEnd
    terminal,     \* the flushed frame held the terminal document
    after,        \* where the reader goes once they are yielded
    stopped,      \* the consumer aborted, cancelled or left the loop
    outcome,
    (* history *)
    yielded,      \* documents handed to the consumer
    barren        \* attempts in a row that brought no frame and failed

hostVars   == <<logged, sent, onWire, frame, unread, old>>
cursorVars == <<cursor, maxSequence>>
parseVars  == <<pendingId, pendingData>>
outVars    == <<outNext, outEnd, terminal, after>>
vars == <<scn, hostVars, faults, pc, established, cursorVars, failures,
          framesSeen, failure, parseVars, outVars, stopped, outcome,
          yielded, barren>>

-----------------------------------------------------------------------------
Larger(a, b) == IF a >= b THEN a ELSE b

NoFrame == [id |-> NoId, lo |-> 0, hi |-> -1, batch |-> FALSE]

(* Run events carry a numeric sequence; snapshots and host events do not.  *)
Guarded     == scn.mode = "updates"
HasTerminal == scn.mode # "host"

(* The Python and Go decoders drop a snapshot: it is no RunEventDoc.       *)
Decodes == scn.sdk = "ts" \/ scn.mode # "values"

(* A terminal event counts in any frame, a terminal snapshot only in a     *)
(* `state.snapshot` frame, never inside a batch.                           *)
IsTerminal(doc, batch) ==
    /\ doc = Last
    /\ \/ scn.mode = "updates"
       \/ scn.mode = "values" /\ ~batch

RunOver  == HasTerminal /\ logged = Last /\ sent = Last
CanFault == faults < MaxFaults
Fault    == CanFault /\ faults' = faults + 1

Finish(how) == pc' = "done" /\ outcome' = how

Init ==
    /\ scn \in Scenarios
    /\ logged = scn.start /\ sent = NoCursor
    /\ onWire = FALSE /\ frame = NoFrame /\ unread = {} /\ old = FALSE
    /\ faults = 0
    /\ pc = "connect" /\ established = FALSE
    /\ cursor = scn.start /\ maxSequence = -1 /\ failures = 0
    /\ framesSeen = FALSE /\ failure = "none"
    /\ pendingId = NoId /\ pendingData = FALSE
    /\ outNext = 0 /\ outEnd = -1 /\ terminal = FALSE /\ after = "read"
    /\ stopped = FALSE /\ outcome = "running"
    /\ yielded = <<>> /\ barren = 0

-----------------------------------------------------------------------------
(* The host and the network.                                               *)

HostLogs ==
    /\ logged < Last /\ outcome = "running"
    /\ logged' = logged + 1
    /\ UNCHANGED <<scn, sent, onWire, frame, unread, old, faults, pc,
                   established, cursorVars, failures, framesSeen, failure,
                   parseVars, outVars, stopped, outcome, yielded, barren>>

(* One frame with the next events; its id is that of the last of them.     *)
HostSends ==
    /\ pc = "read" /\ ~onWire
    /\ \E hi \in sent + 1 .. logged :
          /\ hi <= sent + MaxBatch
          /\ \E batch \in BOOLEAN :
                /\ hi > sent + 1 => batch
                /\ frame' = [id |-> hi, lo |-> sent + 1, hi |-> hi, batch |-> batch]
          /\ sent' = hi
    /\ onWire' = TRUE /\ unread' = {"id", "data"}
    /\ UNCHANGED <<scn, logged, old, faults, pc, established, cursorVars,
                   failures, framesSeen, failure, parseVars, outVars, stopped,
                   outcome, yielded, barren>>

(* The host channel also carries ephemeral frames, which have no id.       *)
HostSendsEphemeral ==
    /\ pc = "read" /\ ~onWire /\ scn.mode = "host"
    /\ Fault
    /\ frame' = [id |-> NoId, lo |-> Ephemeral, hi |-> Ephemeral, batch |-> FALSE]
    /\ onWire' = TRUE /\ unread' = {"data"}
    /\ UNCHANGED <<scn, logged, sent, old, pc, established, cursorVars,
                   failures, framesSeen, failure, parseVars, outVars, stopped,
                   outcome, yielded, barren>>

(* The clock of a connection runs from before the request, so a slow       *)
(* connect counts.  Go's is set anew once the answer is there.             *)
ClockRuns == pc = "read" \/ (pc = "fetch" /\ scn.sdk # "go")

(* Time passes the floor below which an empty close has its own meaning.   *)
(* A host keeps an unfinished stream open as long as it likes; answering   *)
(* late, or closing the stream of a finished run late, is an adverse move. *)
FloorPasses ==
    /\ ClockRuns /\ ~old
    /\ \/ pc = "read" /\ ~RunOver /\ UNCHANGED faults
       \/ pc = "fetch" /\ scn.slow /\ UNCHANGED faults
       \/ Fault
    /\ old' = TRUE
    /\ UNCHANGED <<scn, logged, sent, onWire, frame, unread, pc,
                   established, cursorVars, failures, framesSeen, failure,
                   parseVars, outVars, stopped, outcome, yielded, barren>>

-----------------------------------------------------------------------------
(* Connecting.                                                             *)

(* Top of the reconnect loop; only TypeScript looks at the signal here.    *)
StartConnect ==
    /\ pc = "connect"
    /\ IF stopped /\ scn.sdk = "ts"
         THEN Finish("ended")
         ELSE pc' = "fetch" /\ UNCHANGED outcome
    /\ framesSeen' = FALSE /\ failure' = "none" /\ terminal' = FALSE
    /\ old' = FALSE
    /\ UNCHANGED <<scn, logged, sent, onWire, frame, unread, faults,
                   established, cursorVars, failures, parseVars, outNext,
                   outEnd, after, stopped, yielded, barren>>

(* 2xx: the host goes on behind the cursor, or re-sends the cursor's event. *)
ConnectOk ==
    /\ pc = "fetch"
    /\ \/ sent' = cursor /\ UNCHANGED faults
       \/ scn.resends /\ cursor # NoCursor /\ sent' = cursor - 1 /\ Fault
    /\ established' = TRUE /\ pc' = "read"
    /\ UNCHANGED <<scn, logged, onWire, frame, unread, old, cursorVars,
                   failures, framesSeen, failure, parseVars, outVars, stopped,
                   outcome, yielded, barren>>

(* Go looks at its context first, TypeScript only on a network error.      *)
AbortNoticed(why) ==
    /\ stopped
    /\ \/ scn.sdk = "go" /\ established
       \/ scn.sdk = "ts" /\ why = "network"

(* The connect failed for `why`: the first connect and, whatever came      *)
(* before, a status not worth a retry end the subscription with the error. *)
ConnectFails(why) ==
    /\ pc = "fetch"
    /\ IF AbortNoticed(why) THEN Finish("ended")
       ELSE IF ~scn.reconnect \/ ~established \/ why = "refused"
         THEN Finish("failed")
       ELSE pc' = "decide" /\ UNCHANGED outcome
    /\ failure' = why
    /\ barren' = barren + 1
    /\ UNCHANGED <<scn, hostVars, established, cursorVars, failures, framesSeen,
                   parseVars, outVars, stopped, yielded>>

(* "retryable": 429, 502, 503, 504; "refused": any other non-2xx.          *)
ConnectError ==
    \E why \in {"network", "retryable", "refused"} : Fault /\ ConnectFails(why)

(* The consumer's signal makes the pending fetch fail.                     *)
ConnectAborted == stopped /\ ConnectFails("network") /\ UNCHANGED faults

-----------------------------------------------------------------------------
(* Reading a connection, line by line.                                     *)

(* Mutant: the cursor moves with the id line, not with the frame's end.    *)
ReadIdEager ==
    /\ pc = "read" /\ "id" \in unread
    /\ pendingId' = frame.id /\ cursor' = frame.id
    /\ unread' = unread \ {"id"}
    /\ UNCHANGED <<scn, logged, sent, onWire, frame, old, faults, pc,
                   established, maxSequence, failures, framesSeen, failure,
                   pendingData, outVars, stopped, outcome, yielded, barren>>

ReadId ==
    /\ pc = "read" /\ "id" \in unread
    /\ pendingId' = frame.id
    /\ unread' = unread \ {"id"}
    /\ UNCHANGED <<scn, logged, sent, onWire, frame, old, faults, pc,
                   established, cursorVars, failures, framesSeen, failure,
                   pendingData, outVars, stopped, outcome, yielded, barren>>

ReadData ==
    /\ pc = "read" /\ "data" \in unread
    /\ pendingData' = TRUE
    /\ unread' = unread \ {"data"}
    /\ UNCHANGED <<scn, logged, sent, onWire, frame, old, faults, pc,
                   established, cursorVars, failures, framesSeen, failure,
                   pendingId, outVars, stopped, outcome, yielded, barren>>

(* Mutants: events at the guard's edge dropped; the guard left out; the    *)
(* cursor never moved by a frame.                                          *)
FirstNewSkips(guard)     == Larger(frame.lo, maxSequence + 2)
FirstNewUnguarded(guard) == frame.lo
NextCursorStale(id)      == cursor

NextCursor(id) == IF id = NoId THEN cursor ELSE id

(* The frame's documents from the first one that is to be yielded.         *)
FirstNew(guard) ==
    IF guard /\ Guarded THEN Larger(frame.lo, maxSequence + 1) ELSE frame.lo

(* Dispatch what is pending: the cursor moves to the id whether or not the *)
(* data is there and parses; documents at or below maxSequence are dropped *)
(* when the duplicate guard is on.                                         *)
Flush(id, data, guard, then) ==
    /\ cursor' = NextCursor(id)
    /\ framesSeen' = (framesSeen \/ data)
    /\ maxSequence' = IF data /\ guard /\ Guarded
                        THEN Larger(maxSequence, frame.hi) ELSE maxSequence
    /\ terminal' = (data /\ FirstNew(guard) <= frame.hi
                         /\ IsTerminal(frame.hi, frame.batch))
    /\ outNext' = IF data THEN FirstNew(guard) ELSE 0
    /\ outEnd'  = IF data /\ Decodes THEN frame.hi ELSE -2
    /\ after' = then /\ pc' = "deliver"
    /\ pendingId' = NoId /\ pendingData' = FALSE
    /\ onWire' = FALSE /\ frame' = NoFrame /\ unread' = {}

(* The blank line that ends a frame.                                       *)
ReadBlank ==
    /\ pc = "read" /\ onWire /\ unread = {}
    /\ Flush(pendingId, pendingData, TRUE, "read")
    /\ barren' = IF pendingData THEN 0 ELSE barren
    /\ UNCHANGED <<scn, logged, sent, old, faults, established, failures,
                   failure, stopped, outcome, yielded>>

(* One document goes to the consumer, which may leave its loop on it.      *)
Yield ==
    /\ pc = "deliver" /\ outNext <= outEnd
    /\ yielded' = Append(yielded, outNext)
    /\ outNext' = outNext + 1
    /\ \/ UNCHANGED <<pc, outcome, stopped>>
       \/ scn.sdk # "go" /\ stopped' = TRUE /\ Finish("ended")
    /\ UNCHANGED <<scn, hostVars, faults, established, cursorVars, failures,
                   framesSeen, failure, parseVars, outEnd, terminal, after,
                   barren>>

(* A Go send selects on ctx.Done() as well.                                *)
SendCancelled ==
    /\ pc = "deliver" /\ outNext <= outEnd /\ scn.sdk = "go" /\ stopped
    /\ Finish("ended")
    /\ UNCHANGED <<scn, hostVars, faults, established, cursorVars, failures,
                   framesSeen, failure, parseVars, outVars, stopped, yielded,
                   barren>>

Delivered ==
    /\ pc = "deliver" /\ outNext > outEnd
    /\ IF terminal THEN Finish("ended") ELSE pc' = after /\ UNCHANGED outcome
    /\ UNCHANGED <<scn, hostVars, faults, established, cursorVars, failures,
                   framesSeen, failure, parseVars, outVars, stopped, yielded,
                   barren>>

-----------------------------------------------------------------------------
(* The end of a connection.                                                *)

(* What a reader that takes an unterminated last line for a line may hold: *)
(* a torn id is an earlier position or empty, torn data is no JSON.        *)
TornTails ==
    (IF "id" \in unread THEN (NoCursor .. frame.id - 1) \X {pendingData} ELSE {})
      \cup (IF "data" \in unread THEN {<<pendingId, FALSE>>} ELSE {})

(* TypeScript drops the unterminated line and flushes what is pending.     *)
TsFinalFlush == Flush(pendingId, pendingData, TRUE, "decide")

(* Python reads the unterminated line and flushes without the guard.       *)
PyFinalFlush ==
    \E t \in {<<pendingId, pendingData>>} \cup TornTails :
       Flush(t[1], t[2], FALSE, "decide")

(* Go reads it as well, and flushes after a read error too.                *)
GoFinalFlush ==
    \E t \in {<<pendingId, pendingData>>} \cup TornTails :
       Flush(t[1], t[2], TRUE, "decide")

FinalFlush ==
    \/ scn.sdk = "ts" /\ TsFinalFlush
    \/ scn.sdk = "py" /\ PyFinalFlush
    \/ scn.sdk = "go" /\ GoFinalFlush

(* A host closes a stream of a run that is over, or after the floor; a     *)
(* proxy or platform closes when it likes.                                 *)
BodyEnds ==
    /\ pc = "read"
    /\ \/ ~onWire /\ RunOver /\ UNCHANGED faults
       \/ Fault /\ IF onWire THEN "clean" \in scn.cuts
                   ELSE old \/ framesSeen \/ ~scn.reconnect \/ scn.quick
    /\ FinalFlush
    /\ barren' = IF framesSeen' \/ old \/ HasTerminal THEN 0 ELSE barren + 1
    /\ UNCHANGED <<scn, logged, sent, old, established, failures, failure,
                   stopped, outcome, yielded>>

(* Mutant: the consumer's signal does not reach the reader.                *)
ReadErrorDeaf == Fault /\ (onWire => "drop" \in scn.cuts)

(* The connection drops, or the consumer's signal makes the read fail.     *)
ReadError ==
    \/ Fault /\ (onWire => "drop" \in scn.cuts)
    \/ stopped /\ UNCHANGED faults

(* TypeScript and Python lose the pending frame, and throw when reconnect  *)
(* is off; Go flushes it and never reports the error.                      *)
BodyBreaks ==
    /\ pc = "read"
    /\ ReadError
    /\ failure' = "stream"
    /\ \/ /\ scn.sdk = "go"
          /\ GoFinalFlush
          /\ UNCHANGED outcome
       \/ /\ scn.sdk # "go"
          /\ IF stopped THEN Finish("ended")
             ELSE IF ~scn.reconnect THEN Finish("failed")
             ELSE pc' = "decide" /\ UNCHANGED outcome
          /\ onWire' = FALSE /\ frame' = NoFrame /\ unread' = {}
          /\ pendingId' = NoId /\ pendingData' = FALSE
          /\ UNCHANGED <<cursorVars, framesSeen, outVars>>
    /\ barren' = IF framesSeen' THEN 0 ELSE barren + 1
    /\ UNCHANGED <<scn, logged, sent, old, established, failures, stopped,
                   yielded>>

(* Mutants: a silent close ends a run stream whatever its age, or never.   *)
QuietCloseAnyAge == failure = "none" /\ ~framesSeen
QuietCloseNever  == FALSE

(* A silent close before the floor: the end of a run stream, a failed      *)
(* attempt on the host channel.                                            *)
QuietClose == failure = "none" /\ ~framesSeen /\ ~old

(* Mutants: frames before the failure do not count; one attempt too many.  *)
FruitlessDespiteFrames == failure # "none" \/ QuietClose
GivesUpOneLate(n)      == n > MaxAttempts + 1

(* The connection brought no frame and failed; when to stop trying.        *)
Fruitless  == ~framesSeen /\ (failure # "none" \/ QuietClose)
GivesUp(n) == n > MaxAttempts

(* Go looks at its context after a read, not after a failed connect.       *)
StopsHere ==
    \/ ~scn.reconnect
    \/ stopped /\ (scn.sdk = "ts" \/ failure \in {"none", "stream"})

(* The connection ended without the terminal event: end, give up or wait.  *)
Decide ==
    /\ pc = "decide"
    /\ IF StopsHere \/ (QuietClose /\ HasTerminal)
         THEN Finish("ended") /\ UNCHANGED failures
         ELSE /\ failures' = IF Fruitless THEN failures + 1 ELSE 0
              /\ IF GivesUp(failures')
                   THEN Finish("failed")
                   ELSE pc' = "wait" /\ UNCHANGED outcome
    /\ UNCHANGED <<scn, hostVars, faults, established, cursorVars, framesSeen,
                   failure, parseVars, outVars, stopped, yielded, barren>>

(* The delay ends, or the signal cuts it short; Go's select then returns.  *)
Wait ==
    /\ pc = "wait"
    /\ \/ pc' = "connect" /\ UNCHANGED outcome
       \/ stopped /\ scn.sdk = "go" /\ Finish("ended")
    /\ UNCHANGED <<scn, hostVars, faults, established, cursorVars, failures,
                   framesSeen, failure, parseVars, outVars, stopped, yielded,
                   barren>>

(* The caller's AbortSignal, context or cleanup; Python has no such thing. *)
Abort ==
    /\ outcome = "running" /\ ~stopped /\ scn.sdk # "py"
    /\ stopped' = TRUE
    /\ UNCHANGED <<scn, hostVars, faults, pc, established, cursorVars, failures,
                   framesSeen, failure, parseVars, outVars, outcome, yielded,
                   barren>>

-----------------------------------------------------------------------------
Client == \/ StartConnect \/ ReadId \/ ReadData \/ ReadBlank
          \/ Yield \/ Delivered \/ Decide \/ Wait
Next ==
    \/ HostLogs \/ HostSends \/ HostSendsEphemeral \/ FloorPasses
    \/ StartConnect \/ ConnectOk \/ ConnectError \/ ConnectAborted
    \/ ReadId \/ ReadData \/ ReadBlank
    \/ Yield \/ SendCancelled \/ Delivered
    \/ BodyEnds \/ BodyBreaks
    \/ Decide \/ Wait \/ Abort

Spec == Init /\ [][Next]_vars

(* The reader runs on; the host logs, answers, sends and, once the run is  *)
(* over, closes; a signal makes a pending call fail.  Faults are bounded,  *)
(* so the network behaves in the end.                                      *)
LiveSpec ==
    /\ Spec
    /\ WF_vars(Client)
    /\ WF_vars(HostLogs) /\ WF_vars(HostSends) /\ WF_vars(ConnectOk)
    /\ WF_vars(RunOver /\ BodyEnds)
    /\ WF_vars(ConnectAborted) /\ WF_vars(stopped /\ BodyBreaks)

-----------------------------------------------------------------------------
(* Properties.                                                             *)

(* The scenarios in which no connection ends inside a frame in a way the   *)
(* SDK's reader cannot undo: it loses nothing on a read error, Go excepted. *)
LosslessEnds ==
    /\ "clean" \notin scn.cuts
    /\ scn.sdk = "go" => "drop" \notin scn.cuts

(* The scenarios in which the reader, or the host, rules out repetition.   *)
NoRepetition ==
    IF Guarded THEN scn.sdk = "py" => "clean" \notin scn.cuts
               ELSE ~scn.resends /\ LosslessEnds

TypeOK ==
    /\ scn \in Scenarios
    /\ logged \in NoCursor .. Last /\ sent \in NoCursor .. Last
    /\ onWire \in BOOLEAN
    /\ frame \in [id : NoId .. Last, lo : -1 .. Last, hi : -1 .. Last, batch : BOOLEAN]
    /\ unread \in SUBSET {"id", "data"}
    /\ old \in BOOLEAN /\ faults \in 0 .. MaxFaults
    /\ pc \in {"connect", "fetch", "read", "deliver", "decide", "wait", "done"}
    /\ established \in BOOLEAN
    /\ cursor \in NoCursor .. Last /\ maxSequence \in -1 .. Last
    /\ failures \in 0 .. MaxAttempts + 1
    /\ framesSeen \in BOOLEAN
    /\ failure \in {"none", "network", "retryable", "refused", "stream"}
    /\ pendingId \in NoId .. Last /\ pendingData \in BOOLEAN
    /\ outNext \in -1 .. Last + 1 /\ outEnd \in -2 .. Last
    /\ terminal \in BOOLEAN /\ after \in {"read", "decide"}
    /\ stopped \in BOOLEAN /\ outcome \in {"running", "ended", "failed"}
    /\ yielded \in Seq(-1 .. Last) /\ barren \in Nat

(* The consumer sees the stream's events in order and none twice, over any *)
(* number of connections, re-sent frames and torn ends ("never re-yields   *)
(* an event", streamEvents).                                               *)
NeverReyields ==
    NoRepetition =>
        \A i, j \in 1 .. Len(yielded) :
            i < j /\ yielded[i] # Ephemeral /\ yielded[j] # Ephemeral
                => yielded[i] < yielded[j]

Seen == {yielded[i] : i \in 1 .. Len(yielded)}

(* The cursor never passes an event the consumer has not been given, nor   *)
(* is about to be given: the next Last-Event-ID would skip it for good.    *)
(* (A cancelled Go reader flushes half a frame, but connects no more.)     *)
NoEventLost ==
    LosslessEnds /\ Decodes /\ (scn.sdk = "go" => ~stopped) =>
        \A n \in scn.start + 1 .. cursor : n \in Seen \/ n \in outNext .. outEnd

(* No reconnect asks for what the consumer already has: at every connect   *)
(* the cursor has caught up with the deliveries.                           *)
ResumesExactly ==
    LosslessEnds /\ pc \in {"wait", "connect", "fetch"} =>
        \A n \in Seen : n <= cursor

(* A subscription that ends without an error and without being stopped has *)
(* handed over the terminal event, unless something closed the stream      *)
(* early and silently.                                                     *)
EndsAtTerminal ==
    /\ outcome = "ended" /\ ~stopped /\ scn.reconnect
    /\ HasTerminal /\ Decodes /\ LosslessEnds /\ ~scn.quick
    => Last \in Seen \/ scn.start = Last

(* An established subscription fails only on a refusal or after more than  *)
(* maxAttempts attempts in a row that brought nothing.                     *)
GivesUpLate ==
    outcome = "failed" /\ established /\ scn.reconnect =>
        failure = "refused" \/ barren > MaxAttempts

(* The subscriptions with such a promise: run events, reconnect on, no     *)
(* connection that ends inside a frame beyond repair, and no proxy that    *)
(* closes early in silence.                                                *)
Promised == Guarded /\ LosslessEnds /\ scn.reconnect /\ ~scn.quick

(* The consumer's position, and how the subscription stands.               *)
Position == IF yielded = <<>> THEN scn.start ELSE yielded[Len(yielded)]
Status ==
    IF outcome = "running" THEN "open"
    ELSE IF outcome = "failed" THEN "failed"
    ELSE IF stopped THEN "stopped" ELSE "completed"

(* The consumer has seen nothing but what the caller had before, and the   *)
(* host may send that again.                                               *)
MayRepeat == scn.resends /\ scn.start # NoCursor /\ yielded = <<>>

(* The promise of EventDelivery; a subscription without it maps to one at  *)
(* which nothing happens.                                                  *)
Delivery == INSTANCE EventDelivery WITH
    delivered <- IF Promised THEN Position ELSE scn.start,
    handed    <- IF Promised THEN Len(yielded) ELSE 0,
    again     <- Promised /\ MayRepeat,
    status    <- IF Promised THEN Status ELSE "open"
KeepsDeliveryPromise == Delivery!Spec

(* Every subscription to a run comes to its end once the faults are over,  *)
(* late answers among them.                                                *)
Completes == HasTerminal /\ ~scn.slow ~> outcome # "running"

(* An abort, cancellation or cleanup ends any subscription, the endless    *)
(* one to the host channel included, wherever it finds the reader.         *)
Cancels == stopped ~> outcome # "running"

-----------------------------------------------------------------------------
(* What the documentation says of every subscription, without the          *)
(* conditions above.                                                       *)

(* "Yields each RunEventDoc ... through the run's terminal event": the     *)
(* events arrive without a gap.                                            *)
YieldsEachEvent ==
    Guarded => \A i \in 2 .. Len(yielded) : yielded[i] <= yielded[i - 1] + 1

(* "resumes with Last-Event-ID whenever the stream ends before the         *)
(* terminal event; never re-yields an event".                              *)
NeverReyieldsAnEvent ==
    Guarded => \A i, j \in 1 .. Len(yielded) : i # j => yielded[i] # yielded[j]

(* "when a stream ends before the run's terminal event (a host's bounded   *)
(* close, a platform or proxy timeout, a dropped connection) the SDK       *)
(* reconnects": a clean end means the terminal event was handed over.      *)
ResumesUntilTerminal ==
    outcome = "ended" /\ ~stopped /\ scn.reconnect /\ HasTerminal
        => Last \in Seen \/ scn.start = Last

(* "A resume on a terminal run that closes at once without a frame ends    *)
(* the iterator": resumed behind the terminal event, the reader ends.      *)
EndsFinishedRun == RunOver /\ cursor = Last ~> outcome # "running"

==============================================================================
