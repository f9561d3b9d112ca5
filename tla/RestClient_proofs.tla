--------------------------- MODULE RestClient_proofs ---------------------------
(***************************************************************************)
(* Theorems about RestClient, for any set of calls and operations and any  *)
(* number of tries and faults.                                             *)
(*                                                                         *)
(* The argument: a keyed call puts its key on every request (TagInv), so   *)
(* the host works on at most one of them at a time and on none once it     *)
(* keeps an answer (KeyInv); whatever the client is told is that answer    *)
(* (AnswerInv).                                                            *)
(***************************************************************************)
EXTENDS RestClient, TLAPS

TagInv ==
    \A r \in wire \cup working :
        /\ HasKey(r.call) => r.key
        /\ HasDedup(r.call) => r.dedup

KeyInv ==
    \A c \in Calls : HasKey(c) =>
        /\ \A v, w \in working : v.call = c /\ w.call = c => v = w
        /\ cached[c] # NoAnswer => \A w \in working : w.call # c
        /\ done[c] <= 1
        /\ done[c] = 1 => cached[c].status = 200

RunInv ==
    \A c \in Calls : HasDedup(c) =>
        /\ \A v, w \in working : v.call = c /\ w.call = c => v = w
        /\ done[c] <= lapsed[c] + 1
        /\ done[c] > lapsed[c] => \A w \in working : w.call # c

(* No error envelope comes with a success.                                 *)
WellFormed(a) ==
    a.status = 200 => a.body \in {"json", "empty", "html"}

(* A document from the host means that the call was carried out.           *)
Backed(c, a) ==
    kind[c].writes /\ a.status = 200 /\ a.body = "json" => done[c] >= 1

AnswerInv ==
    \A c \in Calls :
        /\ WellFormed(answer[c]) /\ WellFormed(cached[c])
        /\ Backed(c, answer[c]) /\ Backed(c, cached[c])
        /\ HasKey(c) /\ answer[c].body = "refusal" => cached[c] = answer[c]
        /\ HasKey(c) /\ result[c] = "refused" => cached[c].body = "refusal"
        /\ kind[c].writes /\ result[c] = "value" => done[c] >= 1

IInv == TypeOK /\ TagInv /\ KeyInv /\ RunInv /\ AnswerInv

-----------------------------------------------------------------------------
(* What the client makes of an answer.                                     *)

LEMMA OutcomeType ==
    ASSUME NEW shape \in Shape, NEW a \in Answer
    PROVE  Outcome(shape, a) \in Result \ {"idle", "pending", "network"}
  BY DEF Outcome, Success, Empty, Failure, Shape, Answer, Result

(* A document is a document of the host, unless text was asked for.        *)
LEMMA ValueIsJson ==
    ASSUME NEW shape \in Shape, NEW a \in Answer, WellFormed(a),
           shape.answer # "text", Outcome(shape, a) = "value"
    PROVE  a.status = 200 /\ a.body = "json"
  BY DEF Outcome, Success, Empty, Failure, Shape, Answer, WellFormed

(* A refusal is a refusal of the host.                                     *)
LEMMA RefusedIsRefusal ==
    ASSUME NEW shape \in Shape, NEW a \in Answer, WellFormed(a),
           Outcome(shape, a) = "refused"
    PROVE  a.body = "refusal"
  BY DEF Outcome, Success, Empty, Failure, Shape, Answer, WellFormed

-----------------------------------------------------------------------------
(* The steps.                                                              *)

(* What a call is never changes.                                           *)
LEMMA Given ==
    ASSUME [Next]_vars
    PROVE  /\ kind' = kind /\ options' = options
           /\ \A c : (HasKey(c)' <=> HasKey(c)) /\ (HasDedup(c)' <=> HasDedup(c))
  <1>1. kind' = kind /\ options' = options
        BY DEF Next, vars, clientVars, netVars, hostVars, Send, Receive,
               ConnectionBreaks, ProxyAnswers, HostReplays, HostIsBusy,
               HostRejectsDuplicate, HostStarts, HostSucceeds, HostRefuses,
               ClaimLapses
  <1> QED BY <1>1 DEF HasKey, HasDedup

LEMMA TypeNext ==
    ASSUME TypeOK, [Next]_vars
    PROVE  TypeOK'
  <1>1. ASSUME NEW c \in Calls, Send(c) PROVE TypeOK'
    <2>1. kind[c] \in Shape
          BY RestAssumption DEF TypeOK
    <2>2. MutationHeaders(c) \in [key : BOOLEAN, dedup : BOOLEAN]
          BY <2>1 DEF MutationHeaders, Shape, TypeOK
    <2>3. [call |-> c, try |-> tries[c] + 1, key |-> MutationHeaders(c).key,
           dedup |-> MutationHeaders(c).dedup] \in Request
          BY <1>1, <2>2, RestAssumption DEF Send, TypeOK, Request
    <2> QED BY <1>1, <2>3, RestAssumption
            DEF Send, TypeOK, Result, hostVars
  <1>2. ASSUME NEW c \in Calls, Receive(c) PROVE TypeOK'
    <2>1. kind[c] \in Shape /\ answer[c] \in Answer
          BY <1>2, RestAssumption DEF Receive, TypeOK
    <2>2. Outcome(kind[c], answer[c]) \in Result
          BY <2>1, OutcomeType
    <2> QED BY <1>2, <2>2 DEF Receive, TypeOK, clientVars, netVars, hostVars
  <1>3. ASSUME NEW c \in Calls, ConnectionBreaks(c) PROVE TypeOK'
        BY <1>3, RestAssumption
        DEF ConnectionBreaks, KeepOrLose, Fault, TypeOK, Request, Answer,
            NoAnswer, Result, clientVars, netVars, hostVars
  <1>4. ASSUME NEW c \in Calls, ProxyAnswers(c) PROVE TypeOK'
        BY <1>4, RestAssumption
        DEF ProxyAnswers, KeepOrLose, Fault, TypeOK, Request, Answer,
            NoAnswer, Result, clientVars, netVars, hostVars
  <1>5. ASSUME NEW r \in wire, HostReplays(r) PROVE TypeOK'
        BY <1>5, RestAssumption
        DEF HostReplays, Give, TypeOK, Request, Answer, NoAnswer, Result,
            clientVars, netVars, hostVars
  <1>6. ASSUME NEW r \in wire, HostIsBusy(r) PROVE TypeOK'
        BY <1>6, RestAssumption
        DEF HostIsBusy, Give, TypeOK, Request, Answer, NoAnswer, Result,
            clientVars, netVars, hostVars
  <1>7. ASSUME NEW r \in wire, HostRejectsDuplicate(r) PROVE TypeOK'
        BY <1>7, RestAssumption
        DEF HostRejectsDuplicate, Give, Keep, TypeOK, Request, Answer,
            NoAnswer, Result, clientVars, netVars, hostVars
  <1>8. ASSUME NEW r \in wire, HostStarts(r) PROVE TypeOK'
        BY <1>8, RestAssumption
        DEF HostStarts, TypeOK, Request, Answer, NoAnswer, Result,
            clientVars, netVars, hostVars
  <1>9. ASSUME NEW r \in working, HostSucceeds(r) PROVE TypeOK'
        BY <1>9, RestAssumption
        DEF HostSucceeds, Give, Keep, TypeOK, Request, Answer, NoAnswer,
            Result, clientVars, netVars, hostVars
  <1>10. ASSUME NEW r \in working, HostRefuses(r) PROVE TypeOK'
        BY <1>10, RestAssumption
        DEF HostRefuses, Give, Keep, TypeOK, Request, Answer, NoAnswer,
            Result, clientVars, netVars, hostVars
  <1>11. ASSUME NEW c \in Calls, ClaimLapses(c) PROVE TypeOK'
        BY <1>11, RestAssumption
        DEF ClaimLapses, TypeOK, Request, Answer, NoAnswer, Result,
            clientVars, netVars, hostVars
  <1>12. CASE UNCHANGED vars
        BY <1>12, RestAssumption
        DEF vars, TypeOK, Request, Answer, NoAnswer, Result, clientVars,
            netVars, hostVars
  <1> QED BY <1>1, <1>2, <1>3, <1>4, <1>5, <1>6, <1>7, <1>8, <1>9, <1>10,
  <1>11, <1>12 DEF Next

LEMMA TagNext ==
    ASSUME TypeOK, TagInv, [Next]_vars
    PROVE  TagInv'
  <1>1. ASSUME NEW c \in Calls, Send(c) PROVE TagInv'
    <2>1. HasKey(c) => MutationHeaders(c).key
          BY DEF MutationHeaders, HasKey
    <2>2. HasDedup(c) => MutationHeaders(c).dedup
          BY DEF MutationHeaders, HasDedup
    <2> QED BY <1>1, Given, <2>1, <2>2 DEF Send, TagInv, hostVars
  <1>2. ASSUME NEW c \in Calls, Receive(c) PROVE TagInv'
        BY <1>2, Given
        DEF Receive, TagInv, TypeOK, Request, clientVars, netVars, hostVars
  <1>3. ASSUME NEW c \in Calls, ConnectionBreaks(c) PROVE TagInv'
        BY <1>3, Given
        DEF ConnectionBreaks, KeepOrLose, Fault, TagInv, TypeOK, Request,
            clientVars, netVars, hostVars
  <1>4. ASSUME NEW c \in Calls, ProxyAnswers(c) PROVE TagInv'
        BY <1>4, Given
        DEF ProxyAnswers, KeepOrLose, Fault, TagInv, TypeOK, Request,
            clientVars, netVars, hostVars
  <1>5. ASSUME NEW r \in wire, HostReplays(r) PROVE TagInv'
        BY <1>5, Given
        DEF HostReplays, Give, TagInv, TypeOK, Request, clientVars, netVars,
            hostVars
  <1>6. ASSUME NEW r \in wire, HostIsBusy(r) PROVE TagInv'
        BY <1>6, Given
        DEF HostIsBusy, Give, TagInv, TypeOK, Request, clientVars, netVars,
            hostVars
  <1>7. ASSUME NEW r \in wire, HostRejectsDuplicate(r) PROVE TagInv'
        BY <1>7, Given
        DEF HostRejectsDuplicate, Give, Keep, TagInv, TypeOK, Request,
            clientVars, netVars, hostVars
  <1>8. ASSUME NEW r \in wire, HostStarts(r) PROVE TagInv'
        BY <1>8, Given
        DEF HostStarts, TagInv, TypeOK, Request, clientVars, netVars, hostVars
  <1>9. ASSUME NEW r \in working, HostSucceeds(r) PROVE TagInv'
        BY <1>9, Given
        DEF HostSucceeds, Give, Keep, TagInv, TypeOK, Request, clientVars,
            netVars, hostVars
  <1>10. ASSUME NEW r \in working, HostRefuses(r) PROVE TagInv'
        BY <1>10, Given
        DEF HostRefuses, Give, Keep, TagInv, TypeOK, Request, clientVars,
            netVars, hostVars
  <1>11. ASSUME NEW c \in Calls, ClaimLapses(c) PROVE TagInv'
        BY <1>11, Given
        DEF ClaimLapses, TagInv, TypeOK, Request, clientVars, netVars,
            hostVars
  <1>12. CASE UNCHANGED vars
        BY <1>12, Given
        DEF vars, TagInv, TypeOK, Request, clientVars, netVars, hostVars
  <1> QED BY <1>1, <1>2, <1>3, <1>4, <1>5, <1>6, <1>7, <1>8, <1>9, <1>10,
  <1>11, <1>12 DEF Next

LEMMA KeyNext ==
    ASSUME TypeOK, TagInv, KeyInv, [Next]_vars
    PROVE  KeyInv'
  <1>1. ASSUME NEW c \in Calls, Send(c) PROVE KeyInv'
        BY <1>1, Given
        DEF Send, MutationHeaders, KeyInv, TagInv, TypeOK, Request, NoAnswer,
            Known, KeyInUse, Duplicate, clientVars, netVars, hostVars
  <1>2. ASSUME NEW c \in Calls, Receive(c) PROVE KeyInv'
        BY <1>2, Given
        DEF Receive, KeyInv, TagInv, TypeOK, Request, NoAnswer, Known,
            KeyInUse, Duplicate, clientVars, netVars, hostVars
  <1>3. ASSUME NEW c \in Calls, ConnectionBreaks(c) PROVE KeyInv'
        BY <1>3, Given
        DEF ConnectionBreaks, KeepOrLose, Fault, KeyInv, TagInv, TypeOK,
            Request, NoAnswer, Known, KeyInUse, Duplicate, clientVars,
            netVars, hostVars
  <1>4. ASSUME NEW c \in Calls, ProxyAnswers(c) PROVE KeyInv'
        BY <1>4, Given
        DEF ProxyAnswers, KeepOrLose, Fault, KeyInv, TagInv, TypeOK, Request,
            NoAnswer, Known, KeyInUse, Duplicate, clientVars, netVars, hostVars
  <1>5. ASSUME NEW r \in wire, HostReplays(r) PROVE KeyInv'
        BY <1>5, Given
        DEF HostReplays, Give, KeyInv, TagInv, TypeOK, Request, NoAnswer,
            Known, KeyInUse, Duplicate, clientVars, netVars, hostVars
  <1>6. ASSUME NEW r \in wire, HostIsBusy(r) PROVE KeyInv'
        BY <1>6, Given
        DEF HostIsBusy, Give, KeyInv, TagInv, TypeOK, Request, NoAnswer,
            Known, KeyInUse, Duplicate, clientVars, netVars, hostVars
  <1>7. ASSUME NEW r \in wire, HostRejectsDuplicate(r) PROVE KeyInv'
        BY <1>7, Given
        DEF HostRejectsDuplicate, Give, Keep, KeyInv, TagInv, TypeOK,
            Request, NoAnswer, Known, KeyInUse, Duplicate, clientVars,
            netVars, hostVars
  <1>8. ASSUME NEW r \in wire, HostStarts(r) PROVE KeyInv'
        BY <1>8, Given
        DEF HostStarts, KeyInv, TagInv, TypeOK, Request, NoAnswer, Known,
            KeyInUse, Duplicate, clientVars, netVars, hostVars
  <1>9. ASSUME NEW r \in working, HostSucceeds(r) PROVE KeyInv'
    <2>1. r.call \in Calls
          BY <1>9 DEF TypeOK, Request
    <2>2. /\ working' = working \ {r}
          /\ \A c \in Calls : c # r.call =>
                 done'[c] = done[c] /\ cached'[c] = cached[c]
          BY <1>9, <2>1 DEF HostSucceeds, Keep, TypeOK
    <2>3. done'[r.call] \in {done[r.call], done[r.call] + 1}
          BY <1>9, <2>1 DEF HostSucceeds, TypeOK
    <2>4. HasKey(r.call) => cached'[r.call].status = 200
          BY <1>9, <2>1 DEF HostSucceeds, Keep, TagInv, TypeOK
    <2>5. HasKey(r.call) => done[r.call] = 0
      <3>1. HasKey(r.call) => cached[r.call].status = 0 /\ done[r.call] <= 1
            BY <1>9, <2>1 DEF KeyInv, NoAnswer
      <3>2. done[r.call] \in Nat
            BY <2>1 DEF TypeOK
      <3> QED BY <2>1, <3>1, <3>2 DEF KeyInv
    <2> QED BY <1>9, <2>1, <2>2, <2>3, <2>4, <2>5, Given DEF KeyInv, TypeOK
  <1>10. ASSUME NEW r \in working, HostRefuses(r) PROVE KeyInv'
        BY <1>10, Given
        DEF HostRefuses, Give, Keep, KeyInv, TagInv, TypeOK, Request,
            NoAnswer, Known, KeyInUse, Duplicate, clientVars, netVars, hostVars
  <1>11. ASSUME NEW c \in Calls, ClaimLapses(c) PROVE KeyInv'
        BY <1>11, Given
        DEF ClaimLapses, KeyInv, TagInv, TypeOK, Request, NoAnswer, Known,
            KeyInUse, Duplicate, clientVars, netVars, hostVars
  <1>12. CASE UNCHANGED vars
        BY <1>12, Given
        DEF vars, KeyInv, TagInv, TypeOK, Request, NoAnswer, Known, KeyInUse,
            Duplicate, clientVars, netVars, hostVars
  <1> QED BY <1>1, <1>2, <1>3, <1>4, <1>5, <1>6, <1>7, <1>8, <1>9, <1>10,
  <1>11, <1>12 DEF Next

LEMMA RunNext ==
    ASSUME TypeOK, TagInv, RunInv, [Next]_vars
    PROVE  RunInv'
  <1>1. ASSUME NEW c \in Calls, Send(c) PROVE RunInv'
        BY <1>1, Given
        DEF Send, MutationHeaders, RunInv, TagInv, HasDedup, TypeOK, Request,
            NoAnswer, Known, KeyInUse, Duplicate, clientVars, netVars, hostVars
  <1>2. ASSUME NEW c \in Calls, Receive(c) PROVE RunInv'
        BY <1>2, Given
        DEF Receive, RunInv, TagInv, HasDedup, TypeOK, Request, NoAnswer,
            Known, KeyInUse, Duplicate, clientVars, netVars, hostVars
  <1>3. ASSUME NEW c \in Calls, ConnectionBreaks(c) PROVE RunInv'
        BY <1>3, Given
        DEF ConnectionBreaks, KeepOrLose, Fault, RunInv, TagInv, HasDedup,
            TypeOK, Request, NoAnswer, Known, KeyInUse, Duplicate,
            clientVars, netVars, hostVars
  <1>4. ASSUME NEW c \in Calls, ProxyAnswers(c) PROVE RunInv'
        BY <1>4, Given
        DEF ProxyAnswers, KeepOrLose, Fault, RunInv, TagInv, HasDedup,
            TypeOK, Request, NoAnswer, Known, KeyInUse, Duplicate,
            clientVars, netVars, hostVars
  <1>5. ASSUME NEW r \in wire, HostReplays(r) PROVE RunInv'
        BY <1>5, Given
        DEF HostReplays, Give, RunInv, TagInv, HasDedup, TypeOK, Request,
            NoAnswer, Known, KeyInUse, Duplicate, clientVars, netVars, hostVars
  <1>6. ASSUME NEW r \in wire, HostIsBusy(r) PROVE RunInv'
        BY <1>6, Given
        DEF HostIsBusy, Give, RunInv, TagInv, HasDedup, TypeOK, Request,
            NoAnswer, Known, KeyInUse, Duplicate, clientVars, netVars, hostVars
  <1>7. ASSUME NEW r \in wire, HostRejectsDuplicate(r) PROVE RunInv'
        BY <1>7, Given
        DEF HostRejectsDuplicate, Give, Keep, RunInv, TagInv, HasDedup,
            TypeOK, Request, NoAnswer, Known, KeyInUse, Duplicate,
            clientVars, netVars, hostVars
  <1>8. ASSUME NEW r \in wire, HostStarts(r) PROVE RunInv'
        BY <1>8, Given
        DEF HostStarts, RunInv, TagInv, HasDedup, TypeOK, Request, NoAnswer,
            Known, KeyInUse, Duplicate, clientVars, netVars, hostVars
  <1>9. ASSUME NEW r \in working, HostSucceeds(r) PROVE RunInv'
    <2>1. r.call \in Calls
          BY <1>9 DEF TypeOK, Request
    <2>2. /\ working' = working \ {r} /\ lapsed' = lapsed
          /\ \A c \in Calls : c # r.call => done'[c] = done[c]
          BY <1>9, <2>1 DEF HostSucceeds, TypeOK
    <2>3. done'[r.call] \in {done[r.call], done[r.call] + 1}
          BY <1>9, <2>1 DEF HostSucceeds, TypeOK
    <2>4. HasDedup(r.call) => done[r.call] <= lapsed[r.call]
      <3>1. HasDedup(r.call) => ~(done[r.call] > lapsed[r.call])
            BY <1>9, <2>1 DEF RunInv
      <3>2. done[r.call] \in Nat /\ lapsed[r.call] \in Nat
            BY <2>1 DEF TypeOK
      <3> QED BY <3>1, <3>2
    <2> QED BY <1>9, <2>1, <2>2, <2>3, <2>4, Given DEF RunInv, TypeOK
  <1>10. ASSUME NEW r \in working, HostRefuses(r) PROVE RunInv'
        BY <1>10, Given
        DEF HostRefuses, Give, Keep, RunInv, TagInv, HasDedup, TypeOK,
            Request, NoAnswer, Known, KeyInUse, Duplicate, clientVars,
            netVars, hostVars
  <1>11. ASSUME NEW c \in Calls, ClaimLapses(c) PROVE RunInv'
        BY <1>11, Given
        DEF ClaimLapses, RunInv, TagInv, HasDedup, TypeOK, Request,
            NoAnswer, Known, KeyInUse, Duplicate, clientVars, netVars,
            hostVars
  <1>12. CASE UNCHANGED vars
        BY <1>12, Given
        DEF vars, RunInv, TagInv, HasDedup, TypeOK, Request, NoAnswer, Known,
            KeyInUse, Duplicate, clientVars, netVars, hostVars
  <1> QED BY <1>1, <1>2, <1>3, <1>4, <1>5, <1>6, <1>7, <1>8, <1>9, <1>10,
  <1>11, <1>12 DEF Next

LEMMA AnswerNext ==
    ASSUME TypeOK, TagInv, KeyInv, AnswerInv, [Next]_vars
    PROVE  AnswerInv'
  <1>1. ASSUME NEW c \in Calls, Send(c) PROVE AnswerInv'
        BY <1>1, Given
        DEF Send, MutationHeaders, AnswerInv, WellFormed, Backed, Answer,
            TypeOK, Request, NoAnswer, Known, KeyInUse, Duplicate,
            clientVars, netVars, hostVars
  <1>2. ASSUME NEW c \in Calls, Receive(c) PROVE AnswerInv'
    <2>1. kind[c] \in Shape /\ answer[c] \in Answer /\ WellFormed(answer[c])
          BY <1>2, RestAssumption DEF Receive, TypeOK, AnswerInv
    <2>2. kind[c].writes /\ Outcome(kind[c], answer[c]) = "value" => done[c] >= 1
          BY <2>1, ValueIsJson, RestAssumption DEF TypeOK, AnswerInv, Backed
    <2>3. HasKey(c) /\ Outcome(kind[c], answer[c]) = "refused"
             => cached[c].body = "refusal"
          BY <2>1, RefusedIsRefusal DEF AnswerInv
    <2> QED BY <1>2, <2>2, <2>3, Given
            DEF Receive, AnswerInv, WellFormed, Backed, NoAnswer, TypeOK,
                hostVars
  <1>3. ASSUME NEW c \in Calls, ConnectionBreaks(c) PROVE AnswerInv'
        BY <1>3, Given
        DEF ConnectionBreaks, KeepOrLose, Fault, AnswerInv, WellFormed,
            Backed, Answer, TypeOK, Request, NoAnswer, Known, KeyInUse,
            Duplicate, clientVars, netVars, hostVars
  <1>4. ASSUME NEW c \in Calls, ProxyAnswers(c) PROVE AnswerInv'
        BY <1>4, Given
        DEF ProxyAnswers, KeepOrLose, Fault, AnswerInv, WellFormed, Backed,
            Answer, TypeOK, Request, NoAnswer, Known, KeyInUse, Duplicate,
            clientVars, netVars, hostVars
  <1>5. ASSUME NEW r \in wire, HostReplays(r) PROVE AnswerInv'
        BY <1>5, Given
        DEF HostReplays, Give, AnswerInv, WellFormed, Backed, Answer, TypeOK,
            Request, NoAnswer, Known, KeyInUse, Duplicate, clientVars,
            netVars, hostVars
  <1>6. ASSUME NEW r \in wire, HostIsBusy(r) PROVE AnswerInv'
        BY <1>6, Given
        DEF HostIsBusy, Give, AnswerInv, WellFormed, Backed, Answer, TypeOK,
            Request, NoAnswer, Known, KeyInUse, Duplicate, clientVars,
            netVars, hostVars
  <1>7. ASSUME NEW r \in wire, HostRejectsDuplicate(r) PROVE AnswerInv'
    <2>. DEFINE a == [status |-> 409, body |-> "refusal"]
    <2>1. r.call \in Calls
          BY <1>7 DEF TypeOK, Request
    <2>2. /\ WellFormed(a) /\ a.body = "refusal" /\ a.status = 409
          BY DEF WellFormed
    <2>3. /\ done' = done /\ result' = result
          /\ \A d \in Calls : d # r.call =>
                 answer'[d] = answer[d] /\ cached'[d] = cached[d]
          /\ answer'[r.call] \in {answer[r.call], a}
          /\ cached'[r.call] = IF r.key THEN a ELSE cached[r.call]
          BY <1>7, <2>1 DEF HostRejectsDuplicate, Give, Keep, TypeOK,
             clientVars
    <2>4. HasKey(r.call) => r.key /\ cached[r.call].body = "empty"
          BY <1>7, <2>1 DEF HostRejectsDuplicate, Known, TagInv, NoAnswer
    <2> HIDE DEF a
    <2> QED BY <2>1, <2>2, <2>3, <2>4, Given DEF AnswerInv, Backed
  <1>8. ASSUME NEW r \in wire, HostStarts(r) PROVE AnswerInv'
        BY <1>8, Given
        DEF HostStarts, AnswerInv, WellFormed, Backed, Answer, TypeOK,
            Request, NoAnswer, Known, KeyInUse, Duplicate, clientVars,
            netVars, hostVars
  <1>9. ASSUME NEW r \in working, HostSucceeds(r) PROVE AnswerInv'
    <2>1. r.call \in Calls
          BY <1>9 DEF TypeOK, Request
    <2>2. PICK body \in {"json", "empty"} :
             LET a == [status |-> 200, body |-> body]
             IN Give(r, a) /\ Keep(r, a)
          BY <1>9 DEF HostSucceeds
    <2>. DEFINE a == [status |-> 200, body |-> body]
    <2>3. WellFormed(a) /\ a.body # "refusal" /\ a.status = 200
          BY <2>2 DEF WellFormed
    <2>4. /\ result' = result
          /\ \A d \in Calls : d # r.call =>
                 answer'[d] = answer[d] /\ cached'[d] = cached[d]
          /\ answer'[r.call] \in {answer[r.call], a}
          /\ cached'[r.call] = IF r.key THEN a ELSE cached[r.call]
          BY <1>9, <2>1, <2>2 DEF HostSucceeds, Give, Keep, TypeOK, clientVars
    <2>5. /\ \A d \in Calls : done'[d] >= done[d] /\ done[d] \in Nat /\ done'[d] \in Nat
          /\ kind[r.call].writes => done'[r.call] >= 1
          BY <1>9, <2>1 DEF HostSucceeds, TypeOK
    <2>6. HasKey(r.call) => r.key /\ cached[r.call].body = "empty"
          BY <1>9, <2>1 DEF KeyInv, TagInv, NoAnswer
    <2> HIDE DEF a
    <2> QED BY <2>1, <2>3, <2>4, <2>5, <2>6, Given DEF AnswerInv, Backed
  <1>10. ASSUME NEW r \in working, HostRefuses(r) PROVE AnswerInv'
    <2>1. r.call \in Calls
          BY <1>10 DEF TypeOK, Request
    <2>2. PICK status \in {404, 409, 501} :
             LET a == [status |-> status, body |-> "refusal"]
             IN Give(r, a) /\ Keep(r, a)
          BY <1>10 DEF HostRefuses
    <2>. DEFINE a == [status |-> status, body |-> "refusal"]
    <2>3. WellFormed(a) /\ a.body = "refusal" /\ a.status # 200
          BY <2>2 DEF WellFormed
    <2>4. /\ done' = done /\ result' = result
          /\ \A d \in Calls : d # r.call =>
                 answer'[d] = answer[d] /\ cached'[d] = cached[d]
          /\ answer'[r.call] \in {answer[r.call], a}
          /\ cached'[r.call] = IF r.key THEN a ELSE cached[r.call]
          BY <1>10, <2>1, <2>2 DEF HostRefuses, Give, Keep, TypeOK, clientVars
    <2>5. HasKey(r.call) => r.key /\ cached[r.call].body = "empty"
          BY <1>10, <2>1 DEF KeyInv, TagInv, NoAnswer
    <2> HIDE DEF a
    <2> QED BY <2>1, <2>3, <2>4, <2>5, Given DEF AnswerInv, Backed
  <1>11. ASSUME NEW c \in Calls, ClaimLapses(c) PROVE AnswerInv'
        BY <1>11, Given
        DEF ClaimLapses, AnswerInv, WellFormed, Backed, Answer, TypeOK,
            Request, NoAnswer, Known, KeyInUse, Duplicate, clientVars,
            netVars, hostVars
  <1>12. CASE UNCHANGED vars
        BY <1>12, Given
        DEF vars, AnswerInv, WellFormed, Backed, Answer, TypeOK, Request,
            NoAnswer, Known, KeyInUse, Duplicate, clientVars, netVars, hostVars
  <1> QED BY <1>1, <1>2, <1>3, <1>4, <1>5, <1>6, <1>7, <1>8, <1>9, <1>10,
  <1>11, <1>12 DEF Next

(* The initial states.                                                     *)
LEMMA Initially ==
    ASSUME Init
    PROVE  IInv
  BY RestAssumption
  DEF Init, IInv, TypeOK, TagInv, KeyInv, RunInv, AnswerInv, WellFormed,
      Backed,
      NoAnswer, Result, Request

LEMMA Stepwise ==
    ASSUME IInv, [Next]_vars
    PROVE  IInv'
  BY TypeNext, TagNext, KeyNext, RunNext, AnswerNext DEF IInv

LEMMA Invariance == Spec => []IInv
  <1>1. Init => IInv
        BY Initially
  <1>2. IInv /\ [Next]_vars => IInv'
        BY Stepwise
  <1> QED BY <1>1, <1>2, PTL DEF Spec

-----------------------------------------------------------------------------
(* The theorems.                                                           *)

(* Every variable keeps its type.                                          *)
THEOREM TypeCorrect == Spec => []TypeOK
  <1>1. IInv => TypeOK
        BY DEF IInv
  <1> QED BY <1>1, Invariance, PTL

(* A keyed call is carried out at most once, however the program repeats   *)
(* it and the network treats its requests (#mutationHeaders).              *)
THEOREM KeyedOnce == Spec => []AtMostOnce
  <1>1. IInv => AtMostOnce
        BY DEF IInv, KeyInv, AtMostOnce
  <1> QED BY <1>1, Invariance, PTL

(* `dedup: 'enforce'` alone keeps a repeated runs.create to one active run.*)
THEOREM DedupedOnce == Spec => []OneRun
  <1>1. IInv => OneRun
        BY DEF IInv, RunInv, OneRun
  <1> QED BY <1>1, Invariance, PTL

(* A keyed call that was refused was not and will not be carried out.      *)
THEOREM RefusalsAreFinal == Spec => []RefusalIsFinal
  <1>1. IInv => RefusalIsFinal
    <2> SUFFICES ASSUME IInv, NEW c \in Calls, HasKey(c),
                        result[c] = "refused"
                 PROVE  done[c] = 0
        BY DEF RefusalIsFinal
    <2>1. done[c] \in Nat /\ done[c] <= 1
          BY DEF IInv, TypeOK, KeyInv
    <2>2. cached[c].status # 200
          BY DEF IInv, AnswerInv, WellFormed
    <2> QED BY <2>1, <2>2 DEF IInv, KeyInv
  <1> QED BY <1>1, Invariance, PTL

(* A document in answer to a mutation means that it was carried out.       *)
THEOREM ValuesAreReal == Spec => []ValueIsReal
  <1>1. IInv => ValueIsReal
        BY DEF IInv, AnswerInv, ValueIsReal
  <1> QED BY <1>1, Invariance, PTL

==============================================================================
