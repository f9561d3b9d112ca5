---------------------------- MODULE Program_proofs ----------------------------
(***************************************************************************)
(* Theorems about a program that starts a run and polls it: first polling  *)
(* (PollSession) by itself, for a run of any length and any number of      *)
(* broken connections; then both together.                                 *)
(*                                                                         *)
(* Polling: between two polls the position asks for exactly what follows   *)
(* the last event handled; an answer on its way starts there (ReplyInv),   *)
(* what is in hand starts there and reaches to the position (PlaceInv),    *)
(* and the client sees the end only in an answer that reaches to the       *)
(* terminal event (EndInv).                                                *)
(*                                                                         *)
(* The program: a step of it is a step of the client or of polling, which  *)
(* leaves the other alone, so that what is proved of each holds of both.   *)
(* And what neither says by itself: the run that is polled is the run that *)
(* was created.                                                            *)
(*                                                                         *)
(* The helpers a program calls have no state: what is said of them is      *)
(* proved of every input the parameters allow - of ids and of lists of     *)
(* ratings, of those of any length, by induction from a set (Climb).       *)
(***************************************************************************)
EXTENDS MCProgram, RestClient_proofs, WireId_proofs

First(p) == IF p = Omitted THEN 0 ELSE p + 1

(* The types, the flags apart: no one prover does both.                    *)
Flags == polling \in BOOLEAN /\ ended \in BOOLEAN /\ engine \in BOOLEAN
Types ==
    /\ gen \in {1, 2} /\ judge \in {"flag", "status"}
    /\ logged \in Start..Last /\ position \in Omitted..Last
    /\ after \in Omitted..Last /\ reply \in Reply \cup {NoReply}
    /\ next \in 0..Last + 1 /\ hi \in Start..Last
    /\ breaks \in Nat /\ delivered \in Start..Last
    /\ handled \in Nat /\ outcome \in {"open", "completed", "stopped", "failed"}

PlaceInv ==
    /\ delivered <= logged
    /\ next > hi => First(position) = delivered + 1
    /\ next <= hi => next = delivered + 1 /\ position = hi /\ hi <= logged

ReplyInv ==
    /\ polling => after = position /\ next > hi /\ outcome = "open"
    /\ reply # NoReply =>
          /\ polling
          /\ reply.lo = delivered + 1 /\ reply.hi = reply.last
          /\ delivered <= reply.hi /\ reply.hi <= logged
          /\ reply.status \in ACTIVE_RUN_STATUSES => reply.last < Last
          /\ Promised /\ ByStatus =>
                (reply.last < Last => reply.status \in ACTIVE_RUN_STATUSES)

EndInv ==
    ended /\ Promised => (next > hi => delivered = Last) /\ (next <= hi => hi = Last)

PollInv == Types /\ Flags /\ PlaceInv /\ ReplyInv /\ EndInv

USE RunAssumption DEF Omitted, Start

LEMMA PollInitially ==
    ASSUME PollInit
    PROVE  PollInv
  <1>1. /\ delivered \in -1 .. Last /\ logged = delivered
        /\ position = IF delivered = -1 THEN -2 ELSE delivered
        /\ next = 0 /\ hi = -1
        BY DEF PollInit
  <1>2. Types /\ Flags
    <2>1. Types
          BY <1>1 DEF PollInit, Types
    <2>2. Flags
          BY DEF PollInit, Flags
    <2> QED BY <2>1, <2>2
  <1>3. PlaceInv
        BY <1>1 DEF PlaceInv, First
  <1>4. ReplyInv /\ EndInv
        BY DEF PollInit, ReplyInv, EndInv
  <1> QED BY <1>2, <1>3, <1>4 DEF PollInv

(* How the program sees the end, and what it can see, is settled.          *)
LEMMA Settings ==
    ASSUME [PollNext]_sessionVars
    PROVE  /\ gen' = gen /\ judge' = judge /\ engine' = engine
           /\ ByStatus' <=> ByStatus
           /\ Promised' <=> Promised
  <1>1. gen' = gen /\ judge' = judge /\ engine' = engine
        BY DEF PollNext, sessionVars, hostAndProgram, HostLogs, Poll,
               HostAnswers, PollBreaks, ReceivePage, Handle, Finish
  <1>2. ByStatus' <=> ByStatus
        BY <1>1 DEF ByStatus
  <1> QED BY <1>1, <1>2 DEF Promised

LEMMA ReplyType == NoReply \notin Reply
  BY DEF NoReply, Reply

(* What the client does with an answer.                                    *)
LEMMA ReceiveStep ==
    ASSUME PollInv, ReceivePage
    PROVE  PollInv'
  <1>0. /\ gen' = gen /\ judge' = judge /\ engine' = engine
        /\ ByStatus' <=> ByStatus
        /\ Promised' <=> Promised
        BY Settings DEF PollNext
  <1>1. /\ reply \in Reply /\ reply.lo = delivered + 1 /\ reply.hi = reply.last
        /\ delivered <= reply.hi /\ reply.hi <= logged
        /\ Promised /\ ByStatus =>
              (reply.last < Last => reply.status \in ACTIVE_RUN_STATUSES)
        /\ First(position) = delivered + 1
        BY DEF PollInv, Types, ReplyInv, PlaceInv, ReceivePage
  <1>2. NextPosition(reply) = IF reply.lo <= reply.hi \/ gen = 2 THEN reply.hi
                                                               ELSE position
        BY <1>1 DEF NextPosition, PollInv, Types, Reply
  <1>3. SaysEnd(reply) \in BOOLEAN /\ (SaysEnd(reply) /\ Promised => reply.hi = Last)
    <2>1. CASE ByStatus
      <3>1. SaysEnd(reply) <=> reply.status \notin ACTIVE_RUN_STATUSES
            BY <2>1 DEF SaysEnd, IsTerminalRunStatus
      <3>2. SaysEnd(reply) = (reply.status \notin ACTIVE_RUN_STATUSES)
            BY <2>1 DEF SaysEnd, IsTerminalRunStatus
      <3>3. reply.last \in Int /\ reply.last <= Last
            BY <1>1 DEF Reply
      <3>4. SaysEnd(reply) /\ Promised => reply.hi = Last
            BY <1>1, <2>1, <3>1, <3>3
      <3> QED BY <3>2, <3>4
    <2>2. CASE ~ByStatus
      <3>1. SaysEnd(reply) = (reply.last = Last)
            BY <2>2 DEF SaysEnd
      <3> QED BY <1>1, <3>1
    <2> QED BY <2>1, <2>2
  <1>4. Types' /\ Flags'
    <2>1. Types'
          BY <1>1, <1>2 DEF ReceivePage, hostAndProgram, PollInv, Types, Reply
    <2>2. Flags'
          BY <1>0, <1>3 DEF ReceivePage, PollInv, Flags
    <2> QED BY <2>1, <2>2
  <1>5. PlaceInv'
        BY <1>1, <1>2 DEF ReceivePage, PollInv, Types, PlaceInv, First, Reply
  <1>6. ReplyInv'
        BY <1>0 DEF ReceivePage, ReplyInv
  <1>7. EndInv'
        BY <1>0, <1>1, <1>3 DEF ReceivePage, EndInv, PollInv, Types, Reply
  <1> QED BY <1>4, <1>5, <1>6, <1>7 DEF PollInv

LEMMA PollStepwise ==
    ASSUME PollInv, [PollNext]_sessionVars
    PROVE  PollInv'
  <1> USE DEF PollInv, pollVars, hostAndProgram
  <1>0. /\ gen' = gen /\ judge' = judge /\ engine' = engine
        /\ ByStatus' <=> ByStatus
        /\ Promised' <=> Promised
        BY Settings
  <1>1. CASE HostLogs
    <2>1. Types'
          BY <1>1 DEF HostLogs, Types, PlaceInv, ReplyInv
    <2>2. Flags'
          BY <1>1 DEF HostLogs, Flags
    <2>3. PlaceInv'
          BY <1>1 DEF HostLogs, Types, PlaceInv, ReplyInv
    <2>4. ReplyInv' /\ EndInv'
          BY <1>0, <1>1 DEF HostLogs, Reply, Types, PlaceInv, ReplyInv, EndInv
    <2> QED BY <2>1, <2>2, <2>3, <2>4
  <1>2. CASE Poll
    <2>1. Types'
          BY <1>2 DEF Poll, QueryParameter, First, Types, PlaceInv, ReplyInv
    <2>2. Flags'
          BY <1>2 DEF Poll, Flags
    <2>3. PlaceInv'
          BY <1>2 DEF Poll, QueryParameter, First, Types, PlaceInv, ReplyInv
    <2>4. ReplyInv' /\ EndInv'
          BY <1>0, <1>2 DEF Poll, QueryParameter, First, Types, PlaceInv, ReplyInv,
             EndInv
    <2> QED BY <2>1, <2>2, <2>3, <2>4
  <1>3. CASE HostAnswers
    <2>0. PICK status \in HostStatuses :
             reply' = [lo |-> IF after = Omitted THEN 0 ELSE after + 1,
                       hi |-> logged, last |-> logged, status |-> status]
          BY <1>3 DEF HostAnswers
    <2>1. Types'
      <3>1. status \in Statuses
            BY DEF HostStatuses, Statuses
      <3> QED BY <1>3, <2>0, <3>1
              DEF HostAnswers, Reply, Types, PlaceInv, ReplyInv
    <2>2. Flags'
          BY <1>3 DEF HostAnswers, Flags
    <2>3. PlaceInv'
          BY <1>3 DEF HostAnswers, First, Types, PlaceInv, ReplyInv
    <2>4. ReplyInv'
      <3>1. /\ status \in ACTIVE_RUN_STATUSES => logged < Last
            /\ Promised /\ ByStatus =>
                  (logged < Last => status \in ACTIVE_RUN_STATUSES)
        <4>1. CASE logged = Last
              BY <4>1 DEF HostStatuses, ACTIVE_RUN_STATUSES,
                 TERMINAL_RUN_STATUSES, ExtensionStatuses
        <4>2. CASE logged # Last
              BY <4>2 DEF HostStatuses, Promised, Types
        <4> QED BY <4>1, <4>2
      <3>2. /\ reply'.lo = delivered + 1 /\ reply'.hi = logged
            /\ reply'.last = logged /\ reply'.status = status
            BY <1>3, <2>0 DEF HostAnswers, First, Types, PlaceInv, ReplyInv
      <3> QED BY <1>0, <1>3, <3>1, <3>2
              DEF HostAnswers, Types, PlaceInv, ReplyInv
    <2>5. EndInv'
          BY <1>0, <1>3 DEF HostAnswers, EndInv
    <2> QED BY <2>1, <2>2, <2>3, <2>4, <2>5
  <1>4. CASE PollBreaks
    <2>1. Types'
          BY <1>4 DEF PollBreaks, Types, PlaceInv, ReplyInv
    <2>2. Flags'
          BY <1>4 DEF PollBreaks, Flags
    <2>3. PlaceInv'
          BY <1>4 DEF PollBreaks, Types, PlaceInv, ReplyInv
    <2>4. ReplyInv' /\ EndInv'
          BY <1>0, <1>4 DEF PollBreaks, Types, PlaceInv, ReplyInv, EndInv
    <2> QED BY <2>1, <2>2, <2>3, <2>4
  <1>5. CASE ReceivePage
        BY <1>5, ReceiveStep
  <1>6. CASE Handle
    <2>1. Types'
          BY <1>6 DEF Handle, First, Types, PlaceInv, ReplyInv
    <2>2. Flags'
          BY <1>6 DEF Handle, Flags
    <2>3. PlaceInv'
          BY <1>6 DEF Handle, First, Types, PlaceInv, ReplyInv
    <2>4. ReplyInv' /\ EndInv'
          BY <1>0, <1>6 DEF Handle, First, Types, PlaceInv, ReplyInv, EndInv
    <2> QED BY <2>1, <2>2, <2>3, <2>4
  <1>7. CASE Finish
    <2>1. Types'
          BY <1>7 DEF Finish, Types, PlaceInv, ReplyInv
    <2>2. Flags'
          BY <1>7 DEF Finish, Flags
    <2>3. PlaceInv'
          BY <1>7 DEF Finish, Types, PlaceInv, ReplyInv
    <2>4. ReplyInv' /\ EndInv'
          BY <1>0, <1>7 DEF Finish, Types, PlaceInv, ReplyInv, EndInv
    <2> QED BY <2>1, <2>2, <2>3, <2>4
  <1>8. CASE UNCHANGED sessionVars
    <2>1. Types'
          BY <1>8 DEF sessionVars, Types, PlaceInv, ReplyInv
    <2>2. Flags'
          BY <1>8 DEF sessionVars, Flags
    <2>3. PlaceInv'
          BY <1>8 DEF sessionVars, Types, PlaceInv, ReplyInv
    <2>4. ReplyInv' /\ EndInv'
          BY <1>0, <1>8 DEF sessionVars, Types, PlaceInv, ReplyInv, EndInv
    <2> QED BY <2>1, <2>2, <2>3, <2>4
  <1> QED BY <1>1, <1>2, <1>3, <1>4, <1>5, <1>6, <1>7, <1>8 DEF PollNext

LEMMA PollInvariance == PollSpec => []PollInv
  <1> QED BY PollInitially, PollStepwise, PTL DEF PollSpec

-----------------------------------------------------------------------------
(* Every variable keeps its type.                                          *)
THEOREM PollTypesHold == PollSpec => []PollTypeOK
  <1>1. PollInv => PollTypeOK
        BY Zenon DEF PollInv, Types, Flags, PollTypeOK
  <1> QED BY <1>1, PollInvariance, PTL

(* Each step of a program that polls is a step of EventDelivery, or none.  *)
LEMMA StepRefines ==
    ASSUME PollInv, [PollNext]_sessionVars
    PROVE  [Delivery!Next]_(Delivery!vars)
  <1>0. Promised' <=> Promised
        BY Settings
  <1> SUFFICES ASSUME Promised
               PROVE  [Delivery!Next]_(Delivery!vars)
      BY <1>0 DEF Delivery!vars
  <1> USE <1>0 DEF Delivery!Next, Delivery!vars
  <1>1. CASE Handle
    <2>1. delivered < Last /\ delivered' = delivered + 1
          BY <1>1 DEF Handle, PollInv, Types, PlaceInv
    <2> QED BY <1>1, <2>1 DEF Handle, Delivery!Deliver
  <1>2. CASE Finish
    <2>1. delivered = Last
          BY <1>2 DEF Finish, PollInv, EndInv
    <2> QED BY <1>2, <2>1 DEF Finish, Delivery!Complete
  <1>3. CASE PollBreaks
        BY <1>3 DEF PollBreaks, PollInv, ReplyInv, Delivery!Fail
  <1>4. CASE \/ HostLogs \/ Poll \/ HostAnswers \/ ReceivePage
             \/ UNCHANGED sessionVars
        BY <1>4 DEF HostLogs, Poll, HostAnswers, ReceivePage, sessionVars
  <1> QED BY <1>1, <1>2, <1>3, <1>4 DEF PollNext

(* Following a run by polling keeps the promise of a subscription: by the  *)
(* answers' flag at any host, by the status at one without engine statuses.*)
THEOREM PollingDelivers == PollSpec => PollKeepsPromise
  <1>1. PollInit => Delivery!Init
        BY DEF PollInit, Delivery!Init
  <1>2. PollInv /\ [PollNext]_sessionVars => [Delivery!Next]_(Delivery!vars)
        BY StepRefines
  <1> QED BY <1>1, <1>2, PollInvariance, PTL
          DEF PollSpec, PollKeepsPromise, Delivery!Spec

-----------------------------------------------------------------------------
(* The two parts of the program.                                           *)

(* The poll loop's variables change by its own steps only ...              *)
LEMMA SessionSteps == [ProgramNext]_programVars => [PollNext]_sessionVars
  <1> SUFFICES ASSUME [ProgramNext]_programVars
               PROVE  [PollNext]_sessionVars
      OBVIOUS
  <1>1. CASE RestStep
        BY <1>1 DEF RestStep
  <1>2. CASE RunRuns
        BY <1>2 DEF RunRuns, PollNext
  <1>3. CASE Follow
        BY <1>3 DEF Follow, PollNext
  <1>4. CASE UNCHANGED programVars
        BY <1>4 DEF programVars
  <1>5. QED
        BY <1>1, <1>2, <1>3, <1>4 DEF ProgramNext

(* ... and so do those of the client, the network and the host.            *)
LEMMA RestSteps == [ProgramNext]_programVars => [Next]_vars
  BY DEF ProgramNext, RestStep, RunRuns, Follow, programVars

LEMMA ProgramIsBoth == ProgramSpec => Spec /\ PollSpec
  <1>1. ProgramInit => Init /\ PollInit
        BY DEF ProgramInit
  <1>2. QED
        BY <1>1, SessionSteps, RestSteps, PTL DEF ProgramSpec, Spec, PollSpec

(* Whatever became of the tries of the call that started the run, polling  *)
(* it keeps the promise of EventDelivery.                                  *)
THEOREM RunDelivers == ProgramSpec => PollKeepsPromise
  BY ProgramIsBoth, PollingDelivers, PTL

(* A program that goes on to poll changes nothing in what its calls come   *)
(* to: at most once, one active run per scope, final refusals, real values.*)
THEOREM CallsStaySafe ==
    ProgramSpec => [](/\ TypeOK /\ AtMostOnce /\ OneRun
                      /\ RefusalIsFinal /\ ValueIsReal)
  BY ProgramIsBoth, TypeCorrect, KeyedOnce, DedupedOnce, RefusalsAreFinal,
     ValuesAreReal, PTL

-----------------------------------------------------------------------------
(* The two together.                                                       *)

(* A program that has its run keeps it, and polls no other.                *)
HeldInv == Follows \/ next <= hi \/ ended => HasRun

(* No later answer replaces a document.                                    *)
LEMMA RunIsKept ==
    ASSUME IInv, HasRun, [Next]_vars
    PROVE  HasRun'
  <1> USE DEF HasRun
  <1>1. Call \in Calls /\ result \in [Calls -> Result]
        BY ProgramAssumption DEF IInv, TypeOK
  <1>2. kind' = kind
        BY DEF Next, vars, clientVars, Send, Receive, ConnectionBreaks,
               ProxyAnswers, HostReplays, HostIsBusy, HostRejectsDuplicate,
               HostStarts, HostSucceeds, HostRefuses, ClaimLapses
  <1>3. ASSUME NEW c \in Calls, Send(c) \/ Receive(c) \/ ConnectionBreaks(c)
        PROVE  result'[Call] = "value"
        BY <1>1, <1>3 DEF Send, Receive, ConnectionBreaks, Settled
  <1>4. CASE UNCHANGED result
        BY <1>4, <1>2
  <1>5. \/ \E c \in Calls : Send(c) \/ Receive(c) \/ ConnectionBreaks(c)
        \/ UNCHANGED result
        BY DEF Next, vars, clientVars, ProxyAnswers, HostReplays, HostIsBusy,
               HostRejectsDuplicate, HostStarts, HostSucceeds, HostRefuses,
               ClaimLapses
  <1> QED BY <1>2, <1>3, <1>4, <1>5

LEMMA HeldInit == ProgramInit => HeldInv
  BY DEF ProgramInit, PollInit, HeldInv, Follows, Start

LEMMA HeldStep == IInv /\ HeldInv /\ [ProgramNext]_programVars => HeldInv'
  <1> SUFFICES ASSUME IInv, HeldInv, [ProgramNext]_programVars
               PROVE  HeldInv'
      OBVIOUS
  <1>1. HasRun => HasRun'
        BY RunIsKept, RestSteps
  <1>2. CASE RestStep \/ UNCHANGED programVars
        BY <1>1, <1>2 DEF RestStep, programVars, sessionVars, pollVars, HeldInv,
                          Follows
  <1>3. CASE RunRuns
        BY <1>1, <1>3 DEF RunRuns, HostLogs, pollVars, HeldInv, Follows
  <1>4. CASE Follow
        BY <1>1, <1>4 DEF Follow, HeldInv
  <1> QED BY <1>2, <1>3, <1>4 DEF ProgramNext

(* The run a program follows exists, and is the only one its call started  *)
(* if the call had a key.                                                  *)
THEOREM TheRunIsFollowed == ProgramSpec => []FollowsItsRun
  <1>1. ProgramSpec => []IInv
        BY ProgramIsBoth, Invariance, PTL
  <1>2. ProgramSpec => []HeldInv
        BY <1>1, HeldInit, HeldStep, PTL DEF ProgramSpec
  <1>3. IInv /\ HeldInv /\ AtMostOnce /\ ValueIsReal => FollowsItsRun
    <2> SUFFICES ASSUME IInv, HeldInv, AtMostOnce, ValueIsReal, Follows
                 PROVE  /\ HasRun /\ done[Call] >= 1
                        /\ HasKey(Call) => done[Call] = 1
        BY DEF FollowsItsRun
    <2>1. Call \in Calls /\ done[Call] \in Nat
          BY ProgramAssumption DEF IInv, TypeOK
    <2>2. HasRun
          BY DEF HeldInv
    <2>3. kind[Call].writes
          BY <2>2 DEF HasRun, Create, Keyed, Write, Read
    <2> QED BY <2>1, <2>2, <2>3 DEF HasRun, ValueIsReal, AtMostOnce
  <1> QED BY <1>1, <1>2, <1>3, CallsStaySafe, PTL

-----------------------------------------------------------------------------
(* The id of the run (WireId), however long it is.                         *)

(* Whoever has a run in hand gets its id back from a path, however long    *)
(* the id is.                                                              *)
THEOREM RunIdsSurvive == ProgramSpec => []RunIdSurvives
  <1>1. RunIdSurvives
    BY BoundIdsSurvive DEF RunIdSurvives
  <1> QED BY <1>1, PTL

(* ... and the segment of any link to it is sent back as the id.           *)
THEOREM RunLinksSurvive == ProgramSpec => []RunLinkSurvives
  <1>1. RunLinkSurvives
    BY BoundIdsSurvive DEF RunLinkSurvives
  <1> QED BY <1>1, PTL

-----------------------------------------------------------------------------
(* The events of the run (TypedEvents).                                    *)

(* What a guard asks of an event's payload, the event's schema asks too.   *)
LEMMA AgentSatisfies ==
  ASSUME NEW guard \in DOMAIN AgentGuards
  PROVE  Satisfies(AgentSchemas[guard], AgentGuards[guard])
  BY DEF AgentSchemas, AgentGuards, HandoffFields, Satisfies, IsA

LEMMA MediaSatisfies ==
  ASSUME NEW guard \in DOMAIN MediaGuards
  PROVE  Satisfies(MediaSchemas[guard], MediaGuards[guard])
  BY DEF MediaSchemas, MediaGuards, Satisfies, IsA

LEMMA SchemasPassGuards == GuardsAcceptTheirSchema
  <1> SUFFICES ASSUME NEW guard \in GuardNames
               PROVE  Satisfies(PayloadSchemas[guard], Guards[guard])
    BY DEF GuardsAcceptTheirSchema, Narrows
  <1>1. /\ DOMAIN AgentSchemas = DOMAIN AgentGuards
        /\ DOMAIN MediaSchemas = DOMAIN MediaGuards
    BY DEF AgentSchemas, AgentGuards, MediaSchemas, MediaGuards
  <1>2. CASE guard \in DOMAIN AgentGuards
    BY <1>1, <1>2, AgentSatisfies DEF Guards, PayloadSchemas, Joined
  <1>3. CASE guard \notin DOMAIN AgentGuards /\ guard \in DOMAIN MediaGuards
    BY <1>1, <1>3, MediaSatisfies DEF Guards, PayloadSchemas, Joined
  <1> QED BY <1>2, <1>3 DEF GuardNames, Guards, Joined

(* No guard drops an event of the run whose payload is valid by the schema *)
(* the protocol has for it.                                                *)
THEOREM TypedEventsAreRecognised == ProgramSpec => []EventsAreRecognised
  <1>1. EventsAreRecognised
    BY SchemasPassGuards DEF EventsAreRecognised
  <1> QED BY <1>1, PTL

-----------------------------------------------------------------------------
(* What the run's model answers (ParseRefusal).                            *)

LEMMA AtMostOneIs ==
  ASSUME NEW S, NEW list \in AtMostOne(S)
  PROVE  \/ list = <<>> /\ Lists!ToSet(list) = {}
         \/ list # <<>> /\ Head(list) \in S /\ Lists!ToSet(list) = {Head(list)}
  <1>1. CASE list = <<>>
    BY <1>1 DEF Lists!ToSet
  <1>2. CASE list # <<>>
    <2>1. PICK x \in S : list = <<x>>
      BY <1>2 DEF AtMostOne
    <2>2. DOMAIN list = {1} /\ Head(list) = x /\ list[1] = x
      BY <2>1
    <2> QED BY <1>2, <2>2 DEF Lists!ToSet
  <1> QED BY <1>1, <1>2

LEMMA OpenAIMarks ==
  ASSUME NEW r \in Responses
  PROVE  tryParseOpenAI(r) # {} <=>
            \E choice \in Lists!ToSet(r.choices) :
               \/ choice.finish_reason = "content_filter"
               \/ choice.refusal = "refusal"
  <1>1. r.choices \in AtMostOne(Choice)
    BY DEF Responses
  <1>2. CASE r.choices = <<>>
    BY <1>1, <1>2, AtMostOneIs DEF tryParseOpenAI
  <1>3. CASE r.choices # <<>>
    <2>1. Lists!ToSet(r.choices) = {Head(r.choices)}
      BY <1>1, <1>3, AtMostOneIs
    <2>2. tryParseOpenAI(r) # {} <=>
             \/ Head(r.choices).finish_reason = "content_filter"
             \/ Head(r.choices).refusal = "refusal"
      BY <1>3 DEF tryParseOpenAI
    <2> QED BY <2>1, <2>2
  <1> QED BY <1>2, <1>3

LEMMA AnthropicMarks ==
  ASSUME NEW r
  PROVE  tryParseAnthropic(r) # {} <=> r.stop_reason = "refusal"
  BY DEF tryParseAnthropic

LEMMA GeminiMarks ==
  ASSUME NEW r \in Responses
  PROVE  tryParseGemini(r) # {} <=>
            \/ \E candidate \in Lists!ToSet(r.candidates) :
                  candidate.finishReason = "SAFETY"
            \/ \E feedback \in Lists!ToSet(r.promptFeedback) :
                  feedback.blockReason \in NamesSafety
  <1>1. /\ r.candidates \in AtMostOne(Candidate)
        /\ r.promptFeedback \in AtMostOne(Feedback)
    BY DEF Responses
  <1>2. (\E candidate \in Lists!ToSet(r.candidates) :
            candidate.finishReason = "SAFETY")
        <=> r.candidates # <<>> /\ Head(r.candidates).finishReason = "SAFETY"
    BY <1>1, AtMostOneIs
  <1>3. (\E feedback \in Lists!ToSet(r.promptFeedback) :
            feedback.blockReason \in NamesSafety)
        <=> /\ r.promptFeedback # <<>>
            /\ Head(r.promptFeedback).blockReason \in NamesSafety
    BY <1>1, AtMostOneIs
  <1>4. tryParseGemini(r) # {} <=>
           \/ r.candidates # <<>> /\ Head(r.candidates).finishReason = "SAFETY"
           \/ /\ r.promptFeedback # <<>>
              /\ Head(r.promptFeedback).blockReason \in NamesSafety
    BY DEF tryParseGemini
  <1> QED BY <1>2, <1>3, <1>4

(* Each parser finds a signal exactly where its vendor's mark is, and the  *)
(* three are asked until one does.                                         *)
LEMMA MarksAreFound == RefusalIsFound
  <1> SUFFICES ASSUME NEW r \in Responses
               PROVE  parseRefusal(r) # {} <=> Stopped(r)
    BY DEF RefusalIsFound, Mistaken, Refused, Unseen
  <1>1. parseRefusal(r) # {} <=>
           \/ tryParseOpenAI(r) # {} \/ tryParseAnthropic(r) # {}
           \/ tryParseGemini(r) # {}
    BY DEF parseRefusal
  <1> QED BY <1>1, OpenAIMarks, AnthropicMarks, GeminiMarks DEF Stopped

(* What the run's model answers is taken for a refusal if and only if a    *)
(* vendor signalled one, whatever other vendors' fields are with it - the  *)
(* marked turn that no parser looks for apart.                             *)
THEOREM RefusalsAreFound == ProgramSpec => []RunRefusalIsFound
  <1>1. RunRefusalIsFound
    BY MarksAreFound DEF RunRefusalIsFound
  <1> QED BY <1>1, PTL

(* No category yet, the riskier of two, and the category picked from the   *)
(* ratings at the places s, for all sets s of places up to n: the fold of  *)
(* extractGeminiHighestRiskCategory.                                       *)
None == [category |-> "absent", probability |-> "absent"]
Worse(best, rating) == IF Rank(rating) > Rank(best) THEN rating ELSE best

Picks(f, r, n) ==
    f = [s \in SUBSET (1 .. n) |->
            IF s = {} THEN None
            ELSE Worse(f[s \ {Lists!Max(s)}], r[Lists!Max(s)])]

LEMMA LastIsMax ==
  ASSUME NEW n \in Nat, NEW s \in SUBSET (1 .. n + 1), n + 1 \in s
  PROVE  Lists!Max(s) = n + 1
  <1>1. \A y \in s : n + 1 >= y
    OBVIOUS
  <1>2. \A x \in s : (\A y \in s : x >= y) => x = n + 1
    OBVIOUS
  <1> QED BY <1>1, <1>2 DEF Lists!Max

LEMMA PicksExist ==
  ASSUME NEW r, NEW N \in Nat
  PROVE  \E f : Picks(f, r, N)
  <1> DEFINE S == {n \in 0 .. N : \E f : Picks(f, r, n)}
  <1>1. 0 \in S
    <2> DEFINE f == [s \in SUBSET (1 .. 0) |-> None]
    <2>1. \A s \in SUBSET (1 .. 0) : s = {}
      OBVIOUS
    <2>2. Picks(f, r, 0)
      BY <2>1 DEF Picks
    <2> HIDE DEF f
    <2> QED BY <2>2
  <1>2. ASSUME NEW n \in 0 .. N - 1, n \in S
        PROVE  n + 1 \in S
    <2>1. PICK f : Picks(f, r, n)
      BY <1>2
    <2> DEFINE g == [s \in SUBSET (1 .. n + 1) |->
                           IF n + 1 \in s THEN Worse(f[s \ {n + 1}], r[n + 1])
                           ELSE f[s]]
    <2>2. /\ DOMAIN g = SUBSET (1 .. n + 1)
          /\ g = [s \in SUBSET (1 .. n + 1) |-> g[s]]
      OBVIOUS
    <2>3. \A s \in SUBSET (1 .. n + 1) : n + 1 \notin s => s \in SUBSET (1 .. n)
      OBVIOUS
    <2>4. \A s \in SUBSET (1 .. n) : s \in SUBSET (1 .. n + 1) /\ n + 1 \notin s
      OBVIOUS
    <2>5. \A s \in SUBSET (1 .. n) : g[s] = f[s]
      BY <2>4
    <2>6. \A s \in SUBSET (1 .. n + 1) :
             n + 1 \in s => g[s] = Worse(f[s \ {n + 1}], r[n + 1])
      OBVIOUS
    <2> HIDE DEF g
    <2>7. ASSUME NEW s \in SUBSET (1 .. n + 1)
          PROVE  g[s] = IF s = {} THEN None
                        ELSE Worse(g[s \ {Lists!Max(s)}], r[Lists!Max(s)])
      <3>1. CASE n + 1 \in s
        <4>1. Lists!Max(s) = n + 1
          BY <3>1, LastIsMax
        <4>2. s \ {n + 1} \in SUBSET (1 .. n)
          OBVIOUS
        <4>3. g[s] = Worse(g[s \ {n + 1}], r[n + 1])
          BY <2>5, <2>6, <3>1, <4>2
        <4> QED BY <3>1, <4>1, <4>3
      <3>2. CASE n + 1 \notin s
        <4>1. s \in SUBSET (1 .. n)
          BY <2>3, <3>2
        <4>2. s \ {Lists!Max(s)} \in SUBSET (1 .. n)
          BY <4>1
        <4>3. f[s] = IF s = {} THEN None
                     ELSE Worse(f[s \ {Lists!Max(s)}], r[Lists!Max(s)])
          BY <2>1, <4>1 DEF Picks
        <4> QED BY <2>5, <4>1, <4>2, <4>3
      <3> QED BY <3>1, <3>2
    <2>8. Picks(g, r, n + 1)
      BY <2>2, <2>7 DEF Picks
    <2> QED BY <2>8
  <1>3. N \in 0 .. N
    OBVIOUS
  <1> HIDE DEF S
  <1>4. N \in S
    BY <1>1, <1>2, <1>3, Climb
  <1> QED BY <1>4 DEF S

LEMMA ExtractPicks ==
  ASSUME NEW r \in Seq(Rating)
  PROVE  \E f : /\ Picks(f, r, Len(r))
               /\ extractGeminiHighestRiskCategory(r) = f[1 .. Len(r)]
  <1> DEFINE iter[s \in SUBSET (DOMAIN r)] ==
                IF s = {} THEN None
                ELSE Worse(iter[s \ {Lists!Max(s)}], r[Lists!Max(s)])
  <1>1. extractGeminiHighestRiskCategory(r) = iter[DOMAIN r]
    BY DEF extractGeminiHighestRiskCategory, Lists!FoldLeft, Lists!MapThenFoldSet,
           None, Worse
  <1>2. DOMAIN r = 1 .. Len(r) /\ Len(r) \in Nat
    OBVIOUS
  <1>3. PICK f : Picks(f, r, Len(r))
    BY <1>2, PicksExist
  <1>4. f = [s \in SUBSET (DOMAIN r) |->
                IF s = {} THEN None
                ELSE Worse(f[s \ {Lists!Max(s)}], r[Lists!Max(s)])]
    BY <1>2, <1>3 DEF Picks
  <1>5. iter = [s \in SUBSET (DOMAIN r) |->
                   IF s = {} THEN None
                   ELSE Worse(iter[s \ {Lists!Max(s)}], r[Lists!Max(s)])]
    BY <1>4
  <1> HIDE DEF iter
  <1>6. Picks(iter, r, Len(r))
    BY <1>2, <1>5 DEF Picks
  <1> QED BY <1>1, <1>2, <1>6

(* The first m ratings are no riskier than w, which is one of them or none *)
WorstOf(w, r, m) ==
    /\ w.category = "absent" \/ \E k \in 1 .. m : w = r[k]
    /\ w \in Rating \cup {None}
    /\ \A k \in 1 .. m : Rank(r[k]) <= Rank(w)

LEMMA RankIsNat == \A w \in Rating \cup {None} : Rank(w) \in Nat
  BY DEF Rank, PROBABILITY_RANK, Rating, None

LEMMA WorstStep ==
  ASSUME NEW r \in Seq(Rating), NEW m \in 0 .. Len(r) - 1,
         NEW w, WorstOf(w, r, m)
  PROVE  WorstOf(Worse(w, r[m + 1]), r, m + 1)
  <1>1. r[m + 1] \in Rating
    OBVIOUS
  <1>2. \A k \in 1 .. m + 1 : r[k] \in Rating
    OBVIOUS
  <1>3. \A k \in 1 .. m + 1 : k \in 1 .. m \/ k = m + 1
    OBVIOUS
  <1>4. m + 1 \in 1 .. m + 1 /\ \A k \in 1 .. m : k \in 1 .. m + 1
    OBVIOUS
  <1>5. /\ Rank(w) \in Nat
        /\ \A k \in 1 .. m + 1 : Rank(r[k]) \in Nat
    BY <1>2, RankIsNat DEF WorstOf
  <1>6. CASE Rank(r[m + 1]) > Rank(w)
    <2>1. Worse(w, r[m + 1]) = r[m + 1]
      BY <1>6 DEF Worse
    <2>2. \A k \in 1 .. m + 1 : Rank(r[k]) <= Rank(r[m + 1])
      <3>1. ASSUME NEW k \in 1 .. m + 1 PROVE Rank(r[k]) <= Rank(r[m + 1])
        <4>1. Rank(r[k]) \in Nat /\ Rank(r[m + 1]) \in Nat /\ Rank(w) \in Nat
          BY <1>4, <1>5
        <4>2. CASE k = m + 1
          BY <4>1, <4>2
        <4>3. CASE k \in 1 .. m
          <5>1. Rank(r[k]) <= Rank(w)
            BY <4>3 DEF WorstOf
          <5> QED BY <1>6, <4>1, <5>1
        <4> QED BY <1>3, <4>2, <4>3
      <3> QED BY <3>1
    <2>3. \E k \in 1 .. m + 1 : r[m + 1] = r[k]
      BY <1>4
    <2> QED BY <1>1, <2>1, <2>2, <2>3 DEF WorstOf
  <1>7. CASE ~(Rank(r[m + 1]) > Rank(w))
    <2>1. Worse(w, r[m + 1]) = w
      BY <1>7 DEF Worse
    <2>2. Rank(r[m + 1]) <= Rank(w)
      <3>1. Rank(r[m + 1]) \in Nat
        BY <1>4, <1>5
      <3> QED BY <1>5, <1>7, <3>1
    <2>3. \A k \in 1 .. m + 1 : Rank(r[k]) <= Rank(w)
      BY <1>3, <2>2 DEF WorstOf
    <2>4. w.category = "absent" \/ \E k \in 1 .. m + 1 : w = r[k]
      BY <1>4 DEF WorstOf
    <2> QED BY <2>1, <2>3, <2>4 DEF WorstOf
  <1> QED BY <1>6, <1>7

LEMMA WorstIsPicked ==
  ASSUME NEW r \in Seq(Rating)
  PROVE  WorstOf(extractGeminiHighestRiskCategory(r), r, Len(r))
  <1>1. PICK f : /\ Picks(f, r, Len(r))
                 /\ extractGeminiHighestRiskCategory(r) = f[1 .. Len(r)]
    BY ExtractPicks
  <1> DEFINE S == {m \in 0 .. Len(r) : WorstOf(f[1 .. m], r, m)}
  <1>2. 0 \in S
    <2>1. 1 .. 0 = {} /\ 1 .. 0 \in SUBSET (1 .. Len(r)) /\ 0 \in 0 .. Len(r)
      OBVIOUS
    <2>2. f[1 .. 0] = None
      BY <1>1, <2>1 DEF Picks
    <2>3. WorstOf(None, r, 0)
      BY <2>1 DEF WorstOf, None
    <2> QED BY <2>1, <2>2, <2>3
  <1>3. ASSUME NEW m \in 0 .. Len(r) - 1, m \in S
        PROVE  m + 1 \in S
    <2>a. m \in Nat /\ m + 1 \in 0 .. Len(r) /\ m + 1 \in 1 .. m + 1
      OBVIOUS
    <2>b. (1 .. m + 1) \ {m + 1} = 1 .. m
      <3>1. \A k \in 1 .. m + 1 : k \in 1 .. m \/ k = m + 1
        OBVIOUS
      <3>2. \A k \in 1 .. m : k \in 1 .. m + 1 /\ k # m + 1
        OBVIOUS
      <3>3. m + 1 \notin 1 .. m
        BY <2>a
      <3> QED BY <3>1, <3>2, <3>3
    <2>c. 1 .. m + 1 \in SUBSET (1 .. Len(r))
      <3>1. \A k \in 1 .. m + 1 : k \in 1 .. Len(r)
        OBVIOUS
      <3> QED BY <3>1
    <2>1. /\ 1 .. m + 1 \in SUBSET (1 .. Len(r)) /\ m + 1 \in 1 .. m + 1
          /\ 1 .. m + 1 # {} /\ (1 .. m + 1) \ {m + 1} = 1 .. m
          /\ m \in Nat /\ m + 1 \in 0 .. Len(r)
      BY Zenon, <2>a, <2>b, <2>c
    <2>2. Lists!Max(1 .. m + 1) = m + 1
      BY <2>1, LastIsMax
    <2>3. f[1 .. m + 1] = Worse(f[1 .. m], r[m + 1])
      BY <1>1, <2>1, <2>2 DEF Picks
    <2>4. WorstOf(Worse(f[1 .. m], r[m + 1]), r, m + 1)
      BY <1>3, WorstStep
    <2> QED BY <2>1, <2>3, <2>4
  <1>4. Len(r) \in Nat /\ Len(r) \in 0 .. Len(r)
    OBVIOUS
  <1> HIDE DEF S
  <1>5. Len(r) \in S
    BY <1>2, <1>3, <1>4, Climb
  <1> QED BY <1>1, <1>5 DEF S

(* From a list of ratings of any length, the category that is reported is  *)
(* one none of the list outranks, and it is of the list unless there is    *)
(* none to report.                                                         *)
THEOREM WorstOfAnyList ==
  ASSUME NEW ratings \in Seq(Rating), NEW worst,
         worst = extractGeminiHighestRiskCategory(ratings)
  PROVE  /\ \A rating \in Lists!ToSet(ratings) : ~(Rank(rating) > Rank(worst))
         /\ worst \in Lists!ToSet(ratings) \/ worst.category = "absent"
  <1>1. WorstOf(worst, ratings, Len(ratings))
    BY WorstIsPicked
  <1>2. Lists!ToSet(ratings) = {ratings[k] : k \in 1 .. Len(ratings)}
    BY DEF Lists!ToSet
  <1>3. \A k \in 1 .. Len(ratings) : ratings[k] \in Rating
    OBVIOUS
  <1>4. ASSUME NEW k \in 1 .. Len(ratings)
        PROVE  ~(Rank(ratings[k]) > Rank(worst))
    <2>1. Rank(ratings[k]) \in Nat /\ Rank(worst) \in Nat
      BY <1>1, <1>3, RankIsNat DEF WorstOf
    <2>2. Rank(ratings[k]) <= Rank(worst)
      BY <1>1 DEF WorstOf
    <2> QED BY <2>1, <2>2
  <1>5. worst \in Lists!ToSet(ratings) \/ worst.category = "absent"
    BY <1>1, <1>2 DEF WorstOf
  <1> QED BY <1>2, <1>4, <1>5

(* The category that is reported for a refusal of the run's model is one   *)
(* the vendor thought most likely.                                         *)
THEOREM WorstIsReported == ProgramSpec => []RunCategoryIsWorst
  <1>1. ASSUME NEW ratings \in Ratings PROVE ratings \in Seq(Rating)
    <2>1. PICK m \in 0 .. 2 : ratings \in [1 .. m -> Rating]
      BY Zenon DEF Ratings, Lists!BoundedSeq, Lists!SeqOf
    <2> QED BY <2>1
  <1>2. RunCategoryIsWorst
    BY <1>1, WorstOfAnyList DEF RunCategoryIsWorst, CategoryIsWorst, Belittled
  <1> QED BY <1>2, PTL

================================================================================
