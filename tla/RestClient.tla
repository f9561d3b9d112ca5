------------------------------ MODULE RestClient ------------------------------
(***************************************************************************)
(* One program's calls through a REST client, from `client.runs.create(..)`*)
(* down to the host that carries the request out: the request pipeline     *)
(* (#mutationHeaders, #request and the handlers around it) between a       *)
(* program that repeats a call it got no clear answer to and a network     *)
(* that breaks connections, delivers requests late and answers itself.     *)
(*                                                                         *)
(* A call is one thing the program wants done, with an idempotency key of  *)
(* its own; each try of it is one request.  The two generations of the     *)
(* client have the same pipeline, so Operations are the shapes of both.    *)
(***************************************************************************)
EXTENDS Integers, RestOperations

CONSTANT Calls    \* the calls the program makes

VARIABLES
    (* the program and the client *)
    kind,     \* the operation of each call
    options,  \* its MutationOptions
    tries,    \* requests sent for it
    result,   \* what the last try came to
    (* the network *)
    wire,     \* requests on their way
    answer,   \* the answer on its way to each call's pending try
    faults,
    (* the host *)
    working,  \* requests being carried out
    cached,   \* answer kept for each call's idempotency key
    done,     \* how often the host carried the call out
    lapsed    \* how many of the runs it started hold their scope no more

clientVars == <<kind, options, tries, result>>
netVars    == <<wire, answer, faults>>
hostVars   == <<working, cached, done, lapsed>>
vars       == <<clientVars, netVars, hostVars>>

(* A body is JSON, nothing, no JSON, or an error envelope: that another     *)
(* request with this key is in flight, or any other refusal.               *)
Answer == [status : {200, 404, 409, 501, 502},
           body   : {"json", "empty", "html", "inFlight", "refusal"}]
NoAnswer == [status |-> 0, body |-> "empty"]

Request == [call : Calls, try : 1..MaxTries, key : BOOLEAN, dedup : BOOLEAN]

Result == {"idle", "pending", "network", "value", "undefined", "true", "null",
           "false", "refused", "busy", "opaque", "garbled", "typeError"}

Init ==
    /\ kind \in [Calls -> Operations]
    /\ options \in [Calls -> [key : BOOLEAN, dedup : BOOLEAN]]
    /\ \A c \in Calls : ~kind[c].offers => ~options[c].key /\ ~options[c].dedup
    /\ tries = [c \in Calls |-> 0] /\ result = [c \in Calls |-> "idle"]
    /\ wire = {} /\ answer = [c \in Calls |-> NoAnswer] /\ faults = 0
    /\ working = {} /\ cached = [c \in Calls |-> NoAnswer]
    /\ done = [c \in Calls |-> 0] /\ lapsed = [c \in Calls |-> 0]

-----------------------------------------------------------------------------
(* The client.                                                             *)

(* Mutants of MutationHeaders, Failure and, further down, Outcome.         *)
MutationHeadersFirstTry(c) ==
    [key |-> options[c].key /\ tries[c] = 0, dedup |-> options[c].dedup]
MutationHeadersNoDedup(c) ==
    [key |-> kind[c].sends /\ options[c].key, dedup |-> FALSE]
MutationHeadersEither(c) ==
    [key   |-> kind[c].sends /\ options[c].key /\ ~options[c].dedup,
     dedup |-> kind[c].sends /\ options[c].dedup]
FailureRaw(shape, a) ==
    IF a.status \in shape.absent THEN shape.missing ELSE a.body
FailureByStatus(shape, a) ==
    IF a.status \in shape.absent THEN shape.missing
    ELSE IF a.status = 502 THEN "opaque" ELSE "refused"

(* The headers that make a repeated request recognisable.                  *)
MutationHeaders(c) ==
    [key   |-> kind[c].sends /\ options[c].key,
     dedup |-> kind[c].sends /\ options[c].dedup]

(* Results after which the program has no reason to repeat the call.       *)
Settled == {"value", "true", "null", "false", "refused"}

Send(c) ==
    /\ result[c] \notin Settled \cup {"pending"}
    /\ tries[c] < MaxTries
    /\ tries' = [tries EXCEPT ![c] = @ + 1]
    /\ LET h == MutationHeaders(c)
       IN wire' = wire \cup {[call |-> c, try |-> tries[c] + 1,
                              key |-> h.key, dedup |-> h.dedup]}
    /\ result' = [result EXCEPT ![c] = "pending"]
    /\ UNCHANGED <<kind, options, answer, faults, hostVars>>

(* A success: text is taken as it is; anything else must be JSON or empty. *)
Empty(shape) ==
    IF shape.answer = "field" THEN "typeError"
    ELSE IF shape.answer = "true" THEN "true" ELSE "undefined"
Success(shape, body) ==
    IF shape.answer = "text" THEN "value"
    ELSE IF body = "html" THEN "garbled"
    ELSE IF body = "empty" THEN Empty(shape)
    ELSE IF shape.answer = "true" THEN "true" ELSE "value"

(* A failure: an absent surface is a value, all else a WopError, which has *)
(* an envelope only if the body is one.                                    *)
Failure(shape, a) ==
    IF a.status \in shape.absent THEN shape.missing
    ELSE IF a.body = "inFlight" THEN "busy"
    ELSE IF a.body = "refusal" THEN "refused" ELSE "opaque"

OutcomeUnparsed(shape, a) ==
    IF a.status = 200 THEN "value" ELSE Failure(shape, a)

Outcome(shape, a) ==
    IF a.status = 200 THEN Success(shape, a.body) ELSE Failure(shape, a)

Receive(c) ==
    /\ result[c] = "pending" /\ answer[c] # NoAnswer
    /\ result' = [result EXCEPT ![c] = Outcome(kind[c], answer[c])]
    /\ answer' = [answer EXCEPT ![c] = NoAnswer]
    /\ UNCHANGED <<kind, options, tries, wire, faults, hostVars>>

-----------------------------------------------------------------------------
(* The network.                                                            *)

Fault == faults < MaxFaults /\ faults' = faults + 1

IsPending(c) == result[c] = "pending" /\ answer[c] = NoAnswer
Latest(r)    == r.try = tries[r.call]

(* The request may be gone, or reach the host long after the client and    *)
(* the program have moved on.                                              *)
KeepOrLose(c) ==
    \/ wire' = wire
    \/ wire' = {r \in wire : ~(r.call = c /\ Latest(r))}

(* fetch or res.text() rejects; an answer on its way is lost.              *)
ConnectionBreaks(c) ==
    /\ result[c] = "pending" /\ Fault
    /\ result' = [result EXCEPT ![c] = "network"]
    /\ answer' = [answer EXCEPT ![c] = NoAnswer]
    /\ KeepOrLose(c)
    /\ UNCHANGED <<kind, options, tries, hostVars>>

(* Something on the way answers: a gateway's page for a backend that is    *)
(* down or a route it does not have, a portal's page, an empty success.    *)
ProxyAnswers(c) ==
    /\ IsPending(c) /\ Fault
    /\ \E a \in [status : {200, 404, 501, 502}, body : {"html"}]
                 \cup {[status |-> 200, body |-> "empty"]} :
          answer' = [answer EXCEPT ![c] = a]
    /\ KeepOrLose(c)
    /\ UNCHANGED <<clientVars, hostVars>>

(* An answer reaches the client if the connection it belongs to is open.   *)
Give(r, a) ==
    answer' = IF IsPending(r.call) /\ Latest(r)
              THEN [answer EXCEPT ![r.call] = a]
              ELSE answer

-----------------------------------------------------------------------------
(* The host: one answer per idempotency key, and no second request with    *)
(* the key while the first one is worked on.  A run holds its scope until  *)
(* it is over or its claim has become stale; till then, and while it is    *)
(* being started, the host starts no other run there if asked not to.      *)

Keep(r, a) == cached' = IF r.key THEN [cached EXCEPT ![r.call] = a] ELSE cached

KeyInUse(r) == r.key /\ \E w \in working : w.call = r.call /\ w.key
Known(r)    == r.key /\ cached[r.call] # NoAnswer
Duplicate(r) ==
    /\ r.dedup /\ kind[r.call].dedups
    /\ \/ done[r.call] > lapsed[r.call]
       \/ \E w \in working : w.call = r.call /\ w.dedup

HostReplays(r) ==
    /\ Known(r)
    /\ Give(r, cached[r.call])
    /\ wire' = wire \ {r}
    /\ UNCHANGED <<clientVars, faults, hostVars>>

HostIsBusy(r) ==
    /\ ~Known(r) /\ KeyInUse(r)
    /\ Give(r, [status |-> 409, body |-> "inFlight"])
    /\ wire' = wire \ {r}
    /\ UNCHANGED <<clientVars, faults, hostVars>>

HostRejectsDuplicate(r) ==
    /\ ~Known(r) /\ ~KeyInUse(r) /\ Duplicate(r)
    /\ LET a == [status |-> 409, body |-> "refusal"]
       IN Give(r, a) /\ Keep(r, a)
    /\ wire' = wire \ {r}
    /\ UNCHANGED <<clientVars, faults, working, done, lapsed>>

HostStarts(r) ==
    /\ ~Known(r) /\ ~KeyInUse(r) /\ ~Duplicate(r)
    /\ wire' = wire \ {r}
    /\ working' = working \cup {r}
    /\ UNCHANGED <<clientVars, answer, faults, cached, done, lapsed>>

HostSucceeds(r) ==
    /\ \E body \in {"json", "empty"} :
          /\ body = "empty" => kind[r.call].answer \in {"none", "true"}
          /\ LET a == [status |-> 200, body |-> body]
             IN Give(r, a) /\ Keep(r, a)
    /\ done' = IF kind[r.call].writes THEN [done EXCEPT ![r.call] = @ + 1]
                                    ELSE done
    /\ working' = working \ {r}
    /\ UNCHANGED <<clientVars, wire, faults, lapsed>>

HostRefuses(r) ==
    /\ \E status \in {404, 409, 501} :
          LET a == [status |-> status, body |-> "refusal"]
          IN Give(r, a) /\ Keep(r, a)
    /\ working' = working \ {r}
    /\ UNCHANGED <<clientVars, wire, faults, done, lapsed>>

ClaimLapses(c) ==
    /\ kind[c].dedups /\ lapsed[c] < done[c]
    /\ lapsed' = [lapsed EXCEPT ![c] = @ + 1]
    /\ UNCHANGED <<clientVars, netVars, working, cached, done>>

Next ==
    \/ \E c \in Calls : Send(c) \/ Receive(c)
    \/ \E c \in Calls : ConnectionBreaks(c) \/ ProxyAnswers(c)
    \/ \E r \in wire : \/ HostReplays(r) \/ HostIsBusy(r)
                       \/ HostRejectsDuplicate(r) \/ HostStarts(r)
    \/ \E r \in working : HostSucceeds(r) \/ HostRefuses(r)
    \/ \E c \in Calls : ClaimLapses(c)

Spec == Init /\ [][Next]_vars

-----------------------------------------------------------------------------
TypeOK ==
    /\ kind \in [Calls -> Operations]
    /\ options \in [Calls -> [key : BOOLEAN, dedup : BOOLEAN]]
    /\ tries \in [Calls -> 0..MaxTries]
    /\ result \in [Calls -> Result]
    /\ wire \subseteq Request /\ working \subseteq Request
    /\ answer \in [Calls -> Answer \cup {NoAnswer}]
    /\ cached \in [Calls -> Answer \cup {NoAnswer}]
    /\ done \in [Calls -> Nat] /\ lapsed \in [Calls -> Nat]
    /\ faults \in 0..MaxFaults

(* The program gave a key, or asked for one run per scope, in a call of an *)
(* operation that passes it on.                                            *)
HasKey(c)   == options[c].key /\ kind[c].sends
HasDedup(c) == options[c].dedup /\ kind[c].sends /\ kind[c].dedups

(* "`Idempotency-Key` for at-most-once mutation semantics": however often  *)
(* the program repeats a keyed call after broken connections, answers of a *)
(* proxy or `409 idempotency_in_flight`, and in whatever order the         *)
(* requests arrive, the host carries it out once.                          *)
AtMostOnce == \A c \in Calls : HasKey(c) => done[c] <= 1

(* `dedup: 'enforce'` alone keeps a program that repeats runs.create, and  *)
(* requests of its that arrive late, from having two runs active in one    *)
(* scope.  It is no key: once the first run is over a retry starts another.*)
OneRun == \A c \in Calls : HasDedup(c) => done[c] <= lapsed[c] + 1

(* A refusal is the truth about every try of a keyed call: nothing was     *)
(* done, and no late copy of the request does it afterwards.  Without a    *)
(* key a refused retry says nothing about the try before it; and neither   *)
(* does a `null` or `false` that stands for an absent surface, which the   *)
(* client makes of the status alone: the page of a gateway will do.        *)
RefusalIsFinal ==
    \A c \in Calls : HasKey(c) /\ result[c] = "refused" => done[c] = 0

(* A mutation whose answer is a document was carried out: no gateway's     *)
(* error page, portal's page or empty body is taken for the host's word.   *)
ValueIsReal ==
    \A c \in Calls : kind[c].writes /\ result[c] = "value" => done[c] >= 1

==============================================================================
