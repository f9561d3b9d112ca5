----------------------------- MODULE ParseRefusal -----------------------------
(***************************************************************************)
(* parseRefusal: whether the answer of a language model is a refusal, told *)
(* from the safety-stop fields of three vendors in turn.  The same file in *)
(* both TypeScript packages.                                               *)
(*                                                                         *)
(* A response is reduced to the fields that are read.  An array of which   *)
(* only the first element counts is a sequence of at most one; a field     *)
(* that is absent or of another type is "absent"; a text is told by where  *)
(* it comes from.  A parser returns a set: empty for null, else the signal.*)
(***************************************************************************)
EXTENDS Integers, Sequences

Lists == INSTANCE SequencesExt

Choice    == [finish_reason : {"stop", "content_filter"},
              refusal : {"absent", "empty", "refusal"},
              content : {"absent", "content"}]
Rating    == [category : {"harassment", "violence"},
              probability : {"HIGH", "MEDIUM", "LOW", "NEGLIGIBLE", "absent"}]
Ratings   == Lists!BoundedSeq(Rating, 2)
(* Where only the stop counts, the ratings are one example or none.        *)
Example   == {<<>>, <<[category |-> "violence", probability |-> "HIGH"]>>}
Candidate == [finishReason : {"STOP", "SAFETY"}, safetyRatings : Example]
Feedback  == [blockReason : {"absent", "OTHER", "SAFETY", "IMAGE_SAFETY"},
              safetyRatings : Example]

AtMostOne(S) == {<<>>} \cup {<<x>> : x \in S}

Signal(provider, text, category) ==
    [provider |-> provider, refusalText |-> text, safetyCategory |-> category]

-----------------------------------------------------------------------------
(* The text field first, then the reason the completion stopped.           *)
tryParseOpenAI(r) ==
    IF r.choices = <<>> THEN {}
    ELSE LET choice == Head(r.choices) IN
         IF choice.refusal = "refusal"
         THEN {Signal("openai", "refusal", "absent")}
         ELSE IF choice.finish_reason = "content_filter"
              THEN {Signal("openai", choice.content, "content_filter")}
              ELSE {}

(* All text blocks of the content make the text.                           *)
tryParseAnthropic(r) ==
    IF r.stop_reason # "refusal" THEN {}
    ELSE {Signal("anthropic",
                 IF "text" \in Lists!ToSet(r.content)
                 THEN "content" ELSE "absent",
                 "absent")}

PROBABILITY_RANK ==
    [HIGH |-> 3, MEDIUM |-> 2, LOW |-> 1, NEGLIGIBLE |-> 0, absent |-> 0]
Rank(rating) == PROBABILITY_RANK[rating.probability]

(* Mutant: the first category that is not negligible.                      *)
HighestRiskFirst(ratings) ==
    Lists!FoldLeft(LAMBDA best, rating :
                 IF Rank(best) = 0 THEN rating ELSE best,
             [category |-> "absent", probability |-> "absent"], ratings)

(* The first category of the highest rank.                                 *)
extractGeminiHighestRiskCategory(ratings) ==
    Lists!FoldLeft(LAMBDA best, rating :
                 IF Rank(rating) > Rank(best) THEN rating ELSE best,
             [category |-> "absent", probability |-> "absent"], ratings)

(* Mutant: only the output side is looked at.                              *)
tryParseGeminiOutput(r) ==
    IF r.candidates # <<>> /\ Head(r.candidates).finishReason = "SAFETY"
    THEN {Signal("google", "absent", "absent")} ELSE {}

(* A prompt is blocked for any reason with SAFETY in its name.             *)
NamesSafety == {"SAFETY", "IMAGE_SAFETY"}

(* The output was blocked, or the prompt was.                              *)
tryParseGemini(r) ==
    LET Blocked(ratings) ==
            {Signal("google", "absent",
                    extractGeminiHighestRiskCategory(ratings).category)}
    IN IF r.candidates # <<>> /\ Head(r.candidates).finishReason = "SAFETY"
       THEN Blocked(Head(r.candidates).safetyRatings)
       ELSE IF r.promptFeedback # <<>>
               /\ Head(r.promptFeedback).blockReason \in NamesSafety
            THEN Blocked(Head(r.promptFeedback).safetyRatings)
            ELSE {}

parseRefusal(r) ==
    IF tryParseOpenAI(r) # {} THEN tryParseOpenAI(r)
    ELSE IF tryParseAnthropic(r) # {} THEN tryParseAnthropic(r)
    ELSE tryParseGemini(r)

-----------------------------------------------------------------------------
(* Every response of these fields, of one vendor or with fields of several *)
(* (a gateway that speaks one dialect and passes another's through).       *)
Responses ==
    [choices : AtMostOne(Choice),
     stop_reason : {"absent", "end_turn", "refusal"},
     content : {<<>>, <<"image">>, <<"image", "text">>, <<"marker">>},
     candidates : AtMostOne(Candidate), promptFeedback : AtMostOne(Feedback)]

(* The signals the file's header lists.  One of them, a safety marker in   *)
(* the content of a turn that ended, no parser looks for.                  *)
Stopped(r) ==
    \/ \E choice \in Lists!ToSet(r.choices) :
           choice.finish_reason = "content_filter" \/ choice.refusal = "refusal"
    \/ r.stop_reason = "refusal"
    \/ \E candidate \in Lists!ToSet(r.candidates) :
           candidate.finishReason = "SAFETY"
    \/ \E feedback \in Lists!ToSet(r.promptFeedback) :
           feedback.blockReason \in NamesSafety
MarkedTurn(r) ==
    r.stop_reason = "end_turn" /\ "marker" \in Lists!ToSet(r.content)
Refused(r) == Stopped(r) \/ MarkedTurn(r)
Unseen     == {r \in Responses : MarkedTurn(r) /\ ~Stopped(r)}

(* Responses that are taken for what they are not, and lists of ratings of *)
(* which not the worst is picked.                                          *)
Mistaken == {r \in Responses \ Unseen : parseRefusal(r) # {} <=> ~Refused(r)}
Belittled ==
    {ratings \in Ratings :
        LET worst == extractGeminiHighestRiskCategory(ratings)
        IN \/ \E rating \in Lists!ToSet(ratings) : Rank(rating) > Rank(worst)
           \/ worst \notin Lists!ToSet(ratings) /\ worst.category # "absent"}

(* "Hosts MUST NOT retry on refusal": a response is taken for a refusal if *)
(* and only if a vendor signalled one, in whatever company the signal is - *)
(* but for the responses whose only signal is a marked turn (Unseen).      *)
RefusalIsFound == Mistaken = {}

(* The category that is reported is one the vendor thought most likely,    *)
(* and there is none only when every rating is negligible.                 *)
CategoryIsWorst == Belittled = {}

=============================================================================
