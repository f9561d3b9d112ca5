------------------------------ MODULE PollSession ------------------------------
(***************************************************************************)
(* A program that follows a run by polling: `runs.pollEvents` in a loop,   *)
(* each answer fed into the next request as the method's comment says,     *)
(* until the status is terminal.  It is the fallback for the event stream, *)
(* so it may start at any position, and it makes the same promise          *)
(* (EventDelivery).                                                        *)
(*                                                                         *)
(* The host answers with every event behind the position asked for and     *)
(* with the highest sequence of its log, all read at one moment.           *)
(***************************************************************************)
EXTENDS RunStatus

CONSTANT MaxBreaks    \* bound: polls whose connection breaks

Omitted == -2     \* undefined: no parameter in the query
Start   == -1     \* in front of the first event; lastSequence of an empty log

Reply == [lo : 0..Last + 1, hi : Start..Last, last : Start..Last,
          status : Statuses]
NoReply == [lo |-> 0, hi |-> Omitted, last |-> Start, status |-> "pending"]

VARIABLES
    gen,        \* generation of the client: 1 or 2
    judge,      \* how the program sees the end: the answer's flag, or status
    engine,     \* the host shows its engine's statuses of unfinished runs
    logged,     \* last event in the host's log
    position,   \* afterSequence or lastSequence of the next poll
    polling,    \* a poll is out
    after,      \* the query parameter of that poll
    reply,      \* the answer on its way
    next, hi,   \* events received and not yet handled: next..hi
    ended,      \* the last answer was terminal
    breaks,
    delivered,  \* last event handled
    handled,    \* how many were handled
    outcome

pollVars == <<polling, after, reply>>
hostAndProgram == <<gen, judge, engine>>
sessionVars == <<hostAndProgram, logged, position, pollVars, next, hi, ended,
                 breaks, delivered, handled, outcome>>

(* Only there does it matter what the host calls the run.                  *)
ByStatus == gen = 2 /\ judge = "status"

PollInit ==
    /\ gen \in {1, 2} /\ judge \in {"flag", "status"} /\ engine \in BOOLEAN
    /\ engine => ByStatus
    /\ delivered \in Start..Last /\ logged = delivered
    /\ position = IF delivered = Start THEN Omitted ELSE delivered
    /\ polling = FALSE /\ after = Omitted /\ reply = NoReply
    /\ next = 0 /\ hi = Start /\ ended = FALSE
    /\ breaks = 0 /\ handled = 0 /\ outcome = "open"

-----------------------------------------------------------------------------
HostLogs ==
    /\ logged < Last
    /\ logged' = logged + 1
    /\ UNCHANGED <<hostAndProgram, position, pollVars, next, hi, ended, breaks,
                   delivered, handled, outcome>>

(* Only `undefined` leaves the parameter out; 0 is a position, and so is   *)
(* the -1 that a 2.x host gives for an empty log.                          *)
QueryParameterTruthy(p) == IF p = 0 THEN Omitted ELSE p
QueryParameter(p) == p

Poll ==
    /\ outcome = "open" /\ ~polling /\ next > hi /\ ~ended
    /\ polling' = TRUE
    /\ after' = QueryParameter(position)
    /\ UNCHANGED <<hostAndProgram, logged, position, reply, next, hi, ended,
                   breaks, delivered, handled, outcome>>

(* What a host can call the run by now.                                    *)
HostStatuses ==
    IF logged = Last THEN TERMINAL_RUN_STATUSES \cup ExtensionStatuses
    ELSE ACTIVE_RUN_STATUSES \cup (IF engine THEN EngineStatuses ELSE {})

(* The wait is over: there is an event, or the timeout has passed.         *)
HostAnswers ==
    /\ polling /\ reply = NoReply
    /\ \E status \in HostStatuses :
          reply' = [lo |-> IF after = Omitted THEN 0 ELSE after + 1,
                    hi |-> logged, last |-> logged, status |-> status]
    /\ UNCHANGED <<hostAndProgram, logged, position, polling, after, next, hi,
                   ended, breaks, delivered, handled, outcome>>

PollBreaks ==
    /\ polling /\ breaks < MaxBreaks
    /\ breaks' = breaks + 1
    /\ polling' = FALSE /\ reply' = NoReply
    /\ outcome' \in {"open", "failed"}     \* poll again, or give up
    /\ UNCHANGED <<hostAndProgram, logged, position, after, next, hi, ended,
                   delivered, handled>>

(* 1.x: isComplete; 2.x: isTerminal, or the helper applied to the status.  *)
SaysEnd(r) ==
    IF ByStatus THEN IsTerminalRunStatus(r.status)
               ELSE r.last = Last

(* 2.x: the answer's lastSequence; 1.x answers have none, the program      *)
(* keeps the sequence of the last event it was given.                      *)
NextPosition(r) ==
    CASE gen = 2                 -> r.last
      [] gen = 1 /\ r.lo <= r.hi -> r.hi
      [] OTHER                   -> position

ReceivePage ==
    /\ polling /\ reply # NoReply
    /\ polling' = FALSE /\ reply' = NoReply
    /\ next' = reply.lo /\ hi' = reply.hi
    /\ position' = NextPosition(reply)
    /\ ended' = SaysEnd(reply)
    /\ UNCHANGED <<hostAndProgram, logged, after, breaks, delivered, handled,
                   outcome>>

(* The program handles an event, and may leave its loop there.             *)
Handle ==
    /\ outcome = "open" /\ next <= hi
    /\ delivered' = next /\ handled' = handled + 1
    /\ next' = next + 1
    /\ outcome' \in {"open", "stopped"}
    /\ UNCHANGED <<hostAndProgram, logged, position, pollVars, hi, ended,
                   breaks>>

Finish ==
    /\ outcome = "open" /\ ~polling /\ next > hi /\ ended
    /\ outcome' = "completed"
    /\ UNCHANGED <<hostAndProgram, logged, position, pollVars, next, hi, ended,
                   breaks, delivered, handled>>

PollNext == \/ HostLogs \/ Poll \/ HostAnswers \/ PollBreaks
            \/ ReceivePage \/ Handle \/ Finish

PollSpec == PollInit /\ [][PollNext]_sessionVars

-----------------------------------------------------------------------------
PollTypeOK ==
    /\ gen \in {1, 2} /\ judge \in {"flag", "status"} /\ engine \in BOOLEAN
    /\ logged \in Start..Last /\ position \in Omitted..Last
    /\ polling \in BOOLEAN /\ after \in Omitted..Last
    /\ reply \in Reply \cup {NoReply}
    /\ next \in 0..Last + 1 /\ hi \in Start..Last /\ ended \in BOOLEAN
    /\ breaks \in Nat /\ delivered \in Start..Last
    /\ handled \in Nat
    /\ outcome \in {"open", "completed", "stopped", "failed"}

(* Following a run by polling keeps the promise of a subscription: every   *)
(* event after the starting position once and in order, and a clean end    *)
(* only behind the terminal event, whatever answers are lost - if the      *)
(* program goes by the answer's flag, or by the status of a host that      *)
(* calls an unfinished run by the protocol's names only.  (The others map  *)
(* to an idle subscription.)                                               *)
Promised == ByStatus => ~engine
Delivery == INSTANCE EventDelivery WITH
    delivered <- IF Promised THEN delivered ELSE Start,
    handed    <- IF Promised THEN handled ELSE 0,
    again     <- FALSE,
    status    <- IF Promised THEN outcome ELSE "open"
PollKeepsPromise == Delivery!Spec

(* Violated.  "Returns true if the status indicates the run will not       *)
(* transition further" (run-helpers.ts:69): a program that ends when it    *)
(* does has seen the run end.  Not so on `planned` and `executing`, which  *)
(* the same file says hosts show (run-helpers.ts:24).                      *)
CompletesWithRun == outcome = "completed" => delivered = Last

==============================================================================
