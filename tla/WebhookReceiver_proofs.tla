------------------------ MODULE WebhookReceiver_proofs ------------------------
(***************************************************************************)
(* Proofs about WebhookReceiver, for any window, clocks, delays and number *)
(* of registrations and faults: type correctness, that no delivery is      *)
(* accepted that is stale, altered, or signed with another secret, and     *)
(* that every timely and whole one is.                                     *)
(***************************************************************************)
EXTENDS WebhookReceiver, TLAPS

USE WebhookAssumption

-----------------------------------------------------------------------------
(* What the host signs is a delivery, and stays one on its way.            *)

LEMMA SignedIsDelivery ==
    ASSUME secret \in 1..MaxSecrets
    PROVE  signWebhookDelivery \in Delivery
BY DEF signWebhookDelivery, Delivery, Ages, Families, Parts

LEMMA OlderIsDelivery ==
    ASSUME NEW d \in Delivery
    PROVE  Older(d) \in Delivery
BY DEF Older, Delivery, Ages

LEMMA AlteredIsDelivery ==
    ASSUME NEW d \in Delivery, NEW other \in Altered(d)
    PROVE  other \in Delivery
<1>1. CASE \E name \in d.headers : other = [d EXCEPT !.headers = @ \ {name}]
      BY <1>1 DEF Delivery
<1>2. CASE \/ other = [d EXCEPT !.body = "reserialized"]
           \/ other = [d EXCEPT !.restamped = TRUE]
      BY <1>2 DEF Delivery
<1>3. QED  BY <1>1, <1>2 DEF Altered

(* The verdict of the freshness test, and of the whole handler.            *)
LEMMA FreshnessTwo ==
    ASSUME NEW window \in Int, NEW delta \in Int
    PROVE  /\ Freshness(window, delta) \subseteq
                  {"timestamp_expired", "timestamp_too_far_in_future"}
           /\ window > 0 /\ Freshness(window, delta) = {}
                  => delta \in -window..window
BY DEF Freshness

LEMMA NumbersOfVerdict ==
    ASSUME TypeOK, NEW d \in Delivery
    PROVE  /\ WindowOf(receiver, option) \in Int
           /\ WindowOf(receiver, option) \in {Window, -1, 0}
           /\ Delta(d) \in Int
           /\ ~d.restamped => Delta(d) = d.age + skew
BY DEF TypeOK, WindowOf, Options, Omitted, Delta, Delivery, Ages

LEMMA OutcomeIsListed ==
    ASSUME TypeOK, NEW d \in Delivery
    PROVE  Outcome(d) \in Outcomes
<1>  DEFINE stale == Freshness(WindowOf(receiver, option), Delta(d))
<1>1. stale \subseteq {"timestamp_expired", "timestamp_too_far_in_future"}
      BY NumbersOfVerdict, FreshnessTwo
<1>2. stale # {} => (CHOOSE why \in stale : TRUE) \in stale
      OBVIOUS
<1>3. ASSUME NEW family  PROVE verifyWebhookSignature(d, family) \in Outcomes
      BY <1>1, <1>2 DEF verifyWebhookSignature, Outcomes
<1>4. QED  BY <1>3 DEF Outcome, Outcomes

-----------------------------------------------------------------------------
LEMMA TypeInit == Init => TypeOK
<1>1. Init => acked \in BOOLEAN /\ arrived \in BOOLEAN
      BY DEF Init
<1>2. Init => /\ skew \in -MaxSkew..MaxSkew
              /\ secret \in 0..MaxSecrets /\ known \in 0..MaxSecrets
              /\ faults \in 0..MaxFaults
      BY DEF Init
<1>3. Init => /\ receiver \in Receivers /\ option \in Options
              /\ host \in Hosts /\ wire \subseteq Delivery
              /\ judged \subseteq [delivery : Delivery, held : 0..MaxSecrets,
                                   outcome : Outcomes]
      BY DEF Init
<1>4. QED  BY <1>1, <1>2, <1>3 DEF TypeOK

LEMMA TypeNext == TypeOK /\ [Next]_vars => TypeOK'
<1>  SUFFICES ASSUME TypeOK, [Next]_vars PROVE TypeOK'
     OBVIOUS
<1>  USE DEF TypeOK, parties
<1>1. CASE Register
      BY <1>1 DEF Register
<1>2. CASE Registered
      BY <1>2 DEF Registered
<1>3. CASE HostDelivers
      <2>1. signWebhookDelivery \in Delivery
            BY <1>3, SignedIsDelivery DEF HostDelivers
      <2>2. QED  BY <1>3, <2>1 DEF HostDelivers
<1>4. CASE Tick
      <2>1. wire' \subseteq Delivery
            BY <1>4, OlderIsDelivery DEF Tick
      <2>2. faults' \in 0..MaxFaults
            BY <1>4 DEF Tick, Fault
      <2>3. QED  BY <1>4, <2>1, <2>2 DEF Tick
<1>5. ASSUME NEW d \in wire, Receive(d)  PROVE TypeOK'
      <2>1. Outcome(d) \in Outcomes /\ d \in Delivery
            BY OutcomeIsListed
      <2>2. /\ judged' \subseteq [delivery : Delivery, held : 0..MaxSecrets,
                                 outcome : Outcomes]
            BY <1>5, <2>1 DEF Receive
      <2>3. wire' \subseteq Delivery /\ faults' \in 0..MaxFaults
            BY <1>5 DEF Receive, Fault
      <2>4. arrived' \in BOOLEAN /\ acked' \in BOOLEAN
            BY <1>5 DEF Receive
      <2>5. QED  BY <1>5, <2>2, <2>3, <2>4 DEF Receive
<1>6. ASSUME NEW d \in wire, NetworkFails(d)  PROVE TypeOK'
      <2>1. wire' \subseteq Delivery
            BY <1>6, AlteredIsDelivery DEF NetworkFails
      <2>2. QED  BY <1>6, <2>1 DEF NetworkFails, Fault
<1>7. CASE UNCHANGED vars
      BY <1>7 DEF vars
<1>8. QED  BY <1>1, <1>2, <1>3, <1>4, <1>5, <1>6, <1>7 DEF Next

(* Deliveries keep their shape, the program's secret is one of the         *)
(* registrations', and every verdict is one the result type lists.         *)
THEOREM TypeCorrect == Spec => []TypeOK
BY TypeInit, TypeNext, PTL DEF Spec

-----------------------------------------------------------------------------
(* A valid verdict passed all the tests.                                   *)
LEMMA ValidPassed ==
    ASSUME TypeOK, NEW d \in Delivery, Outcome(d) = "valid"
    PROVE  /\ Matches(d)
           /\ Freshness(WindowOf(receiver, option), Delta(d)) = {}
<1>  DEFINE stale == Freshness(WindowOf(receiver, option), Delta(d))
<1>1. stale \subseteq {"timestamp_expired", "timestamp_too_far_in_future"}
      BY NumbersOfVerdict, FreshnessTwo
<1>2. stale # {} => (CHOOSE why \in stale : TRUE) # "valid"
      <2>1. stale # {} => (CHOOSE why \in stale : TRUE) \in stale
            OBVIOUS
      <2>2. QED  BY <1>1, <2>1
<1>3. PICK family : verifyWebhookSignature(d, family) = "valid"
      BY DEF Outcome
<1>4. QED  BY <1>2, <1>3 DEF verifyWebhookSignature

LEMMA FreshNext == TypeOK /\ AcceptedIsFresh /\ [Next]_vars => AcceptedIsFresh'
<1>  SUFFICES ASSUME TypeOK, AcceptedIsFresh, [Next]_vars
              PROVE  AcceptedIsFresh'
     OBVIOUS
<1>1. ASSUME NEW d \in wire, Receive(d)  PROVE AcceptedIsFresh'
      <2>1. d \in Delivery
            BY DEF TypeOK
      <2>2. ASSUME Outcome(d) = "valid"
            PROVE  /\ d.secret = known /\ d.body = "raw" /\ ~d.restamped
                   /\ WindowOf(receiver, option) > 0
                          => d.age + skew \in -Window..Window
            <3>1. Matches(d)
                  /\ Freshness(WindowOf(receiver, option), Delta(d)) = {}
                  BY <2>1, <2>2, ValidPassed
            <3>2. d.secret = known /\ d.body = "raw" /\ ~d.restamped
                  BY <3>1 DEF Matches
            <3>3. WindowOf(receiver, option) > 0
                      => WindowOf(receiver, option) = Window
                  BY <2>1, NumbersOfVerdict
            <3>4. WindowOf(receiver, option) > 0
                      => Delta(d) \in -Window..Window
                  BY <2>1, <3>1, <3>3, NumbersOfVerdict, FreshnessTwo
            <3>5. QED  BY <2>1, <3>2, <3>4, NumbersOfVerdict
      <2>3. /\ judged' = {[delivery |-> d, held |-> known,
                           outcome |-> Outcome(d)]}
            /\ receiver' = receiver /\ option' = option /\ skew' = skew
            BY <1>1 DEF Receive, parties
      <2>4. QED  BY <2>2, <2>3 DEF AcceptedIsFresh, WindowOf
<1>2. CASE judged' = {}
      BY <1>2 DEF AcceptedIsFresh
<1>3. CASE UNCHANGED vars
      BY <1>3 DEF AcceptedIsFresh, vars, parties, WindowOf
<1>4. QED
      BY <1>1, <1>2, <1>3
      DEF Next, Register, Registered, HostDelivers, Tick, NetworkFails

(* What the program accepts is what the host signed with the secret the    *)
(* program holds, within the window, whatever the network did.             *)
THEOREM AcceptedAreFresh == Spec => []AcceptedIsFresh
<1>1. Init => AcceptedIsFresh
      BY DEF Init, AcceptedIsFresh
<1>2. QED  BY <1>1, TypeCorrect, FreshNext, PTL DEF Spec

-----------------------------------------------------------------------------
(* Reading the headers: a family the receiver must know that is whole is   *)
(* enough for one to be found, and what is found is whole and known.       *)
LEMMA WholeFamilyIsRead ==
    ASSUME NEW r \in Receivers, NEW headers,
           NEW whole \in {"openwop", "x-openwop"} \cup
                             (IF r = "1.x" THEN {"legacy"} ELSE {}),
           Complete(headers, whole)
    PROVE  readWebhookHeaders(r, headers) # {}
<1>  DEFINE families == WEBHOOK_HEADER_FAMILIES(r)
            First(j) == /\ j \in DOMAIN families
                        /\ Complete(headers, families[j])
                        /\ \A k \in 1..j - 1 : ~Complete(headers, families[k])
<1>1. /\ families[1] = "openwop" /\ families[2] = "x-openwop"
      /\ 1 \in DOMAIN families /\ 2 \in DOMAIN families
      /\ r = "1.x" => 3 \in DOMAIN families /\ families[3] = "legacy"
      BY DEF WEBHOOK_HEADER_FAMILIES
<1>2. Complete(headers, "openwop") => First(1)
      BY <1>1
<1>3. ~Complete(headers, "openwop") /\ Complete(headers, "x-openwop")
          => First(2)
      BY <1>1
<1>4. ASSUME r = "1.x", ~Complete(headers, "openwop"),
             ~Complete(headers, "x-openwop"), Complete(headers, "legacy")
      PROVE  First(3)
      <2>1. \A k \in 1..3 - 1 : k = 1 \/ k = 2
            OBVIOUS
      <2>2. \A k \in 1..3 - 1 : ~Complete(headers, families[k])
            BY <1>1, <1>4, <2>1
      <2>3. QED  BY <1>1, <1>4, <2>2
<1>5. \E j : First(j)
      BY <1>2, <1>3, <1>4
<1>6. QED  BY <1>5 DEF readWebhookHeaders

LEMMA ReadFamilyIsWhole ==
    ASSUME NEW r \in Receivers, NEW headers,
           NEW family \in readWebhookHeaders(r, headers)
    PROVE  Complete(headers, family) /\ parseSignatureValue(r, family)
<1>1. Complete(headers, family)
      BY DEF readWebhookHeaders
<1>2. PICK j \in DOMAIN WEBHOOK_HEADER_FAMILIES(r) :
          family = WEBHOOK_HEADER_FAMILIES(r)[j]
      BY DEF readWebhookHeaders
<1>3. r # "1.x" => family \in {"openwop", "x-openwop"}
      BY <1>2 DEF WEBHOOK_HEADER_FAMILIES
<1>4. QED  BY <1>1, <1>3 DEF parseSignatureValue

(* What was signed with the secret the receiver holds and comes through    *)
(* unaltered and in time passes every test.                                *)
LEMMA TimelyPasses ==
    ASSUME TypeOK, NEW d \in Delivery, d.secret = known, Timely(d)
    PROVE  Outcome(d) = "valid"
<1>  DEFINE read  == readWebhookHeaders(receiver, d.headers)
            stale == Freshness(WindowOf(receiver, option), Delta(d))
<1>1. receiver \in Receivers
      BY DEF TypeOK
<1>2. read # {}
      BY <1>1, WholeFamilyIsRead DEF Timely, MustKnow, Complete
<1>3. (CHOOSE family \in read : TRUE) \in read
      BY <1>2
<1>4. ASSUME NEW family \in read
      PROVE  verifyWebhookSignature(d, family) = "valid"
      <2>1. Complete(d.headers, family) /\ parseSignatureValue(receiver, family)
            BY <1>1, ReadFamilyIsWhole
      <2>2. Supported(d, family)
            BY DEF Supported, Timely
      <2>3. <<family, "timestamp">> \in d.headers
            BY <2>1 DEF Complete
      <2>4. Delta(d) \in -Window..Window
            BY NumbersOfVerdict DEF Timely
      <2>5. stale = {}
            BY <2>4, NumbersOfVerdict DEF Freshness
      <2>6. Matches(d)
            BY DEF Matches, Timely
      <2>7. QED  BY <2>1, <2>2, <2>3, <2>5, <2>6 DEF verifyWebhookSignature
<1>5. QED  BY <1>2, <1>3, <1>4 DEF Outcome

LEMMA TimelyNext == TypeOK /\ TimelyIsAccepted /\ [Next]_vars => TimelyIsAccepted'
<1>  SUFFICES ASSUME TypeOK, TimelyIsAccepted, [Next]_vars
              PROVE  TimelyIsAccepted'
     OBVIOUS
<1>1. ASSUME NEW d \in wire, Receive(d)  PROVE TimelyIsAccepted'
      <2>1. d \in Delivery
            BY DEF TypeOK
      <2>2. d.secret = known /\ Timely(d) => Outcome(d) = "valid"
            BY <2>1, TimelyPasses
      <2>3. /\ judged' = {[delivery |-> d, held |-> known,
                           outcome |-> Outcome(d)]}
            /\ receiver' = receiver /\ host' = host /\ skew' = skew
            BY <1>1 DEF Receive, parties
      <2>4. ASSUME NEW j \in judged', j.delivery.secret = j.held,
                   Timely(j.delivery)'
            PROVE  j.outcome = "valid"
            <3>1. j.delivery = d /\ j.held = known /\ j.outcome = Outcome(d)
                  BY <2>3
            <3>2. Timely(j.delivery)
                  BY <2>3, <2>4 DEF Timely, MustKnow
            <3>3. QED  BY <2>2, <2>4, <3>1, <3>2
      <2>5. QED  BY <2>4 DEF TimelyIsAccepted
<1>2. CASE judged' = {}
      BY <1>2 DEF TimelyIsAccepted
<1>3. CASE UNCHANGED vars
      BY <1>3 DEF TimelyIsAccepted, Timely, MustKnow, vars, parties
<1>4. QED
      BY <1>1, <1>2, <1>3
      DEF Next, Register, Registered, HostDelivers, Tick, NetworkFails

(* A delivery signed with the secret the program holds that comes through  *)
(* unaltered and in time is accepted, from a host of either generation, as *)
(* long as one family of headers the receiver must know is whole.          *)
THEOREM TimelyAreAccepted == Spec => []TimelyIsAccepted
<1>1. Init => TimelyIsAccepted
      BY DEF Init, TimelyIsAccepted
<1>2. QED  BY <1>1, TypeCorrect, TimelyNext, PTL DEF Spec

==============================================================================
