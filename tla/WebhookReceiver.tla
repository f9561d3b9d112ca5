---------------------------- MODULE WebhookReceiver ----------------------------
(***************************************************************************)
(* A program that receives a host's webhook deliveries and judges each one *)
(* with readWebhookHeaders and verifyWebhookSignature, between a host that *)
(* repeats a delivery until it is acknowledged and a network that delays,  *)
(* copies, loses and alters deliveries.  Host and program have clocks that *)
(* disagree, and the program learns its secret from the answer to          *)
(* `webhooks.register`, which the first deliveries may overtake.           *)
(*                                                                         *)
(* Time is relative: a delivery carries how long ago it was signed.  A     *)
(* signature is what was signed: the secret and, implicitly, the text and  *)
(* the timestamp, so it matches only if neither was altered.  The helpers  *)
(* compare the body as text and, in TypeScript, the timestamp as a number: *)
(* bytes that are not UTF-8, or another spelling of one number, that come  *)
(* to the same are not an alteration here.                                 *)
(***************************************************************************)
EXTENDS Integers

CONSTANTS
    Window,       \* DEFAULT_WEBHOOK_FRESHNESS_WINDOW_SECONDS
    MaxSkew,      \* bound: difference of the two clocks
    MaxDelay,     \* how long a delivery takes if nothing goes wrong
    MaxSecrets,   \* bound: registrations of the webhook
    MaxFaults     \* bound: faults of the network

ASSUME WebhookAssumption ==
    {Window, MaxSkew, MaxDelay, MaxSecrets, MaxFaults} \subseteq Nat

Receivers == {"1.x", "2.x", "go"}          \* Python is as TypeScript 2.x
Hosts     == {"legacy", "v1", "dual", "v2",
              "next"}                      \* signs with a scheme yet to come
Families  == {"openwop", "x-openwop", "legacy"}
Parts     == {"signature", "timestamp", "algorithm"}
Omitted   == -2                            \* an option the program left out
Options   == {Omitted, -1, 0}              \* ... or set, for no check at all

(* Old enough that no further second makes a difference.                   *)
Ages == 0..Window + MaxSkew + 1

Delivery == [secret : 1..MaxSecrets,          \* it was signed with
             age : Ages,                      \* since it was signed
             restamped : BOOLEAN,             \* its timestamp says: now
             body : {"raw", "reserialized"},
             headers : SUBSET (Families \X Parts)]

Outcomes == {"valid", "no_headers", "malformed_signature_header",
             "unsupported_signature_algorithm", "malformed_timestamp_header",
             "timestamp_expired", "timestamp_too_far_in_future",
             "signature_mismatch"}

VARIABLES
    receiver, option, skew, host,   \* who they are; fixed
    secret,     \* of the subscription, counted by registrations
    known,      \* the secret the program has
    wire,       \* deliveries on their way
    faults,
    acked,      \* the host has the program's acknowledgement
    judged,     \* the delivery judged in the last step, if any, with the outcome
    arrived     \* the program has accepted the event

parties == <<receiver, option, skew, host>>
vars == <<parties, secret, known, wire, faults, acked, judged, arrived>>

Init ==
    /\ receiver \in Receivers /\ option \in Options
    /\ skew \in -MaxSkew..MaxSkew /\ host \in Hosts
    /\ secret = 0 /\ known = 0
    /\ wire = {} /\ faults = 0
    /\ acked = FALSE /\ judged = {} /\ arrived = FALSE

-----------------------------------------------------------------------------
(* The helpers.                                                            *)

(* WEBHOOK_HEADER_FAMILIES, in their order.  Mutant: the 2.x receiver is   *)
(* told of its own family only.                                            *)
FamiliesOwn(r) ==
    IF r = "1.x" THEN <<"openwop", "x-openwop", "legacy">> ELSE <<"openwop">>
WEBHOOK_HEADER_FAMILIES(r) ==
    IF r = "1.x" THEN <<"openwop", "x-openwop", "legacy">>
                 ELSE <<"openwop", "x-openwop">>

(* The first family with a signature and a timestamp: none or one.         *)
(* Mutant: the first with a signature.                                     *)
CompleteSignature(headers, family) == <<family, "signature">> \in headers
Complete(headers, family) ==
    {<<family, "signature">>, <<family, "timestamp">>} \subseteq headers
readWebhookHeaders(r, headers) ==
    LET families == WEBHOOK_HEADER_FAMILIES(r) IN
    {families[i] : i \in {j \in DOMAIN families :
        /\ Complete(headers, families[j])
        /\ \A k \in 1..j - 1 : ~Complete(headers, families[k])}}

(* `sha256=` in every family but the one only the 1.x package ever used.   *)
parseSignatureValue(r, family) == family # "legacy" \/ r = "1.x"

(* Go's zero value selects the default; elsewhere zero is no check, and    *)
(* what is left out is the default.                                        *)
WindowOf(r, o) == IF o = Omitted \/ (r = "go" /\ o = 0) THEN Window ELSE o

(* Receiver's clock less the timestamp.                                    *)
Delta(d) == IF d.restamped THEN skew ELSE d.age + skew

(* Mutant: a reason that is not among those the type lists.                *)
FreshnessUnlisted(window, delta) ==
    IF window > 0 /\ delta \notin -window..window
    THEN {"timestamp_outside_window"} ELSE {}
Freshness(window, delta) ==
    CASE window > 0 /\ delta > window  -> {"timestamp_expired"}
      [] window > 0 /\ delta < -window -> {"timestamp_too_far_in_future"}
      [] OTHER                         -> {}

(* The algorithm the header names; one that is missing is not checked.     *)
Supported(d, family) ==
    receiver = "1.x" \/ host # "next" \/ <<family, "algorithm">> \notin d.headers

(* The HMAC of the timestamp and the body.  Mutant: of the body.           *)
MatchesBody(d) == host # "next" /\ d.secret = known /\ d.body = "raw"
Matches(d) ==
    host # "next" /\ d.secret = known /\ d.body = "raw" /\ ~d.restamped

verifyWebhookSignature(d, family) ==
    LET stale == Freshness(WindowOf(receiver, option), Delta(d)) IN
    IF ~parseSignatureValue(receiver, family) THEN "malformed_signature_header"
    ELSE IF ~Supported(d, family) THEN "unsupported_signature_algorithm"
    ELSE IF <<family, "timestamp">> \notin d.headers
         THEN "malformed_timestamp_header"
    ELSE IF stale # {} THEN CHOOSE why \in stale : TRUE
    ELSE IF ~Matches(d) THEN "signature_mismatch" ELSE "valid"

Outcome(d) ==
    LET read == readWebhookHeaders(receiver, d.headers) IN
    IF read = {} THEN "no_headers"
    ELSE verifyWebhookSignature(d, CHOOSE family \in read : TRUE)

(* signWebhookDelivery and its predecessors: the families a host sends.    *)
signWebhookDelivery ==
    LET all == IF host = "legacy" THEN {"legacy"}
               ELSE IF host = "v1" THEN {"x-openwop"}
               ELSE IF host = "dual" THEN {"openwop", "x-openwop"}
               ELSE {"openwop"}
    IN [secret |-> secret, age |-> 0, restamped |-> FALSE, body |-> "raw",
        headers |-> {p \in all \X Parts : p # <<"legacy", "algorithm">>}]

-----------------------------------------------------------------------------
(* The program registers its webhook, with a secret of its own or one it   *)
(* will learn from the answer.                                             *)
Register ==
    /\ secret < MaxSecrets /\ known = secret
    /\ secret' = secret + 1
    /\ known' \in {secret, secret + 1}
    /\ judged' = {}
    /\ UNCHANGED <<parties, wire, faults, acked, arrived>>

Registered ==
    /\ known' = secret /\ known # secret
    /\ judged' = {}
    /\ UNCHANGED <<parties, secret, wire, faults, acked, arrived>>

(* A delivery, or its repetition: signed anew.                             *)
HostDelivers ==
    /\ secret > 0 /\ ~acked /\ wire = {}
    /\ wire' = {signWebhookDelivery}
    /\ judged' = {}
    /\ UNCHANGED <<parties, secret, known, faults, acked, arrived>>

Older(d) ==
    [d EXCEPT !.age = IF @ < Window + MaxSkew + 1 THEN @ + 1 ELSE @]

Fault == faults < MaxFaults /\ faults' = faults + 1

(* A second passes; a delivery that takes longer than it should is a fault.*)
Tick ==
    /\ wire # {}
    /\ \/ \A d \in wire : d.age < MaxDelay
          /\ UNCHANGED faults
       \/ \E d \in wire : d.age >= MaxDelay
          /\ Fault
    /\ wire' = {Older(d) : d \in wire}
    /\ judged' = {}
    /\ UNCHANGED <<parties, secret, known, acked, arrived>>

(* The program judges a delivery and acknowledges it if it is valid; the   *)
(* delivery may come again, and the acknowledgement may be lost.           *)
Receive(d) ==
    LET valid == Outcome(d) = "valid" IN
    /\ judged' = {[delivery |-> d, held |-> known, outcome |-> Outcome(d)]}
    /\ arrived' = (arrived \/ valid)
    /\ \/ wire' = wire \ {d} /\ acked' = (acked \/ valid) /\ UNCHANGED faults
       \/ wire' = wire /\ acked' = (acked \/ valid) /\ Fault
       \/ wire' = wire \ {d} /\ valid /\ UNCHANGED acked /\ Fault
    /\ UNCHANGED <<parties, secret, known>>

(* It is lost, or passes something that drops a header it does not know,   *)
(* writes the body anew, or stamps it with the time of its own sending.    *)
Altered(d) ==
    {[d EXCEPT !.headers = @ \ {name}] : name \in d.headers}
    \cup {[d EXCEPT !.body = "reserialized"], [d EXCEPT !.restamped = TRUE]}

NetworkFails(d) ==
    /\ Fault
    /\ \/ wire' = wire \ {d}
       \/ \E other \in Altered(d) : wire' = (wire \ {d}) \cup {other}
    /\ judged' = {}
    /\ UNCHANGED <<parties, secret, known, acked, arrived>>

Next == \/ Register \/ Registered \/ HostDelivers \/ Tick
        \/ \E d \in wire : Receive(d) \/ NetworkFails(d)

Spec == Init /\ [][Next]_vars

(* Answers arrive, the host repeats what is not acknowledged, and a        *)
(* delivery that is not lost reaches the program.                          *)
Fairness ==
    /\ WF_vars(Registered) /\ WF_vars(HostDelivers)
    /\ WF_vars(\E d \in wire : Receive(d))

LiveSpec == Spec /\ Fairness

-----------------------------------------------------------------------------
TypeOK ==
    /\ receiver \in Receivers /\ option \in Options /\ host \in Hosts
    /\ skew \in -MaxSkew..MaxSkew
    /\ secret \in 0..MaxSecrets /\ known \in 0..MaxSecrets
    /\ wire \subseteq Delivery /\ faults \in 0..MaxFaults
    /\ acked \in BOOLEAN /\ arrived \in BOOLEAN
    /\ judged \subseteq [delivery : Delivery, held : 0..MaxSecrets,
                         outcome : Outcomes]

(* "Receivers MUST verify both the HMAC and the timestamp freshness": what *)
(* the program accepts has the text and the time that the host signed with *)
(* the secret the program holds, and was signed within the window, give or *)
(* take the difference of the clocks, however long the network kept it and *)
(* whatever it was stamped with.                                           *)
AcceptedIsFresh ==
    \A j \in judged : j.outcome = "valid" =>
        /\ j.delivery.secret = j.held
        /\ j.delivery.body = "raw" /\ ~j.delivery.restamped
        /\ WindowOf(receiver, option) > 0
               => j.delivery.age + skew \in -Window..Window

(* "Dual emission": a delivery of the current secret that comes through    *)
(* unaltered and in time is accepted, from a host of either generation,    *)
(* with whatever is left of the headers as long as one family the receiver *)
(* must know is whole.                                                     *)
MustKnow == {"openwop", "x-openwop"} \cup
                (IF receiver = "1.x" THEN {"legacy"} ELSE {})
Timely(d) ==
    /\ host # "next" /\ d.body = "raw" /\ ~d.restamped
    /\ d.age + skew \in -Window..Window
    /\ \E family \in MustKnow :
          {<<family, "signature">>, <<family, "timestamp">>} \subseteq d.headers
TimelyIsAccepted ==
    \A j \in judged :
        j.delivery.secret = j.held /\ Timely(j.delivery) => j.outcome = "valid"

(* An event the host keeps delivering reaches the program in the end, also *)
(* when the deliveries overtook the secret they were signed with.  (A host *)
(* may give a delivery up as dead; of one that does nothing is said.)      *)
EventArrives ==
    secret > 0 /\ host # "next" /\ (host # "legacy" \/ receiver = "1.x")
        /\ skew + MaxDelay <= Window /\ -skew <= Window
        ~> arrived

==============================================================================
