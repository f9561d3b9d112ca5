-------------------------------- MODULE WireId --------------------------------
(***************************************************************************)
(* projectId and unprojectId: a tenant-bound id `<tenant>/<opaque>` as one *)
(* segment of a path, every byte outside [A-Za-z0-9._-] written `~XX`, and *)
(* back, the percent-encoded form of older links accepted too.             *)
(*                                                                         *)
(* An id is the sequence of its UTF-8 bytes.                               *)
(***************************************************************************)
EXTENDS Integers, Sequences

Seqs == INSTANCE SequencesExt

Slash   == 47
Tilde   == 126
Percent == 37

PASSTHROUGH == (48..57) \cup (65..90) \cup (97..122) \cup {45, 46, 95}

(* Hexadecimal digits: the value of each, and the upper-case digit of each *)
(* value.                                                                  *)
HexValue ==
    [b \in (48..57) \cup (65..70) \cup (97..102) |->
        IF b <= 57 THEN b - 48 ELSE (b - 55) % 32]
HexDigit(v) == IF v < 10 THEN 48 + v ELSE 55 + v

(* What fatal decoding refuses, for characters of one or two bytes.        *)
Malformed == <<-1>>
IsUtf8(bytes) ==
    \A i \in DOMAIN bytes :
        /\ bytes[i] < 128 \/ bytes[i] \in 194..223 \/ bytes[i] \in 128..191
        /\ bytes[i] \in 194..223 =>
               i < Len(bytes) /\ bytes[i + 1] \in 128..191
        /\ bytes[i] \in 128..191 => i > 1 /\ bytes[i - 1] \in 194..223

HEX_PAIR(segment, i) ==
    /\ i + 2 <= Len(segment) /\ segment[i] \in {Tilde, Percent}
    /\ {segment[i + 1], segment[i + 2]} \subseteq DOMAIN HexValue

unprojectId(segment) ==
    LET from[i \in 1..Len(segment) + 1] ==
            IF i > Len(segment) THEN <<>>
            ELSE IF HEX_PAIR(segment, i)
                 THEN <<16 * HexValue[segment[i + 1]]
                           + HexValue[segment[i + 2]]>> \o from[i + 3]
                 ELSE <<segment[i]>> \o from[i + 1]
    IN IF IsUtf8(from[1]) THEN from[1] ELSE Malformed

(* Mutants: only the percent-encoded form is recognised; the escape        *)
(* character itself is not escaped.                                        *)
IsWireFormPercent(id) ==
    \E i \in DOMAIN id : HEX_PAIR(id, i) /\ id[i] = Percent
ProjectByteTilde(b) ==
    IF b \in PASSTHROUGH \cup {Tilde} THEN <<b>>
    ELSE <<Tilde, HexDigit(b \div 16), HexDigit(b % 16)>>

(* No `/`, but an escaped one in either form.                              *)
IsWireForm(id) ==
    /\ Slash \notin Seqs!ToSet(id)
    /\ \E i \in DOMAIN id :
           HEX_PAIR(id, i) /\ id[i + 1] = 50 /\ id[i + 2] \in {70, 102}

ProjectByte(b) ==
    IF b \in PASSTHROUGH THEN <<b>>
    ELSE <<Tilde, HexDigit(b \div 16), HexDigit(b % 16)>>

projectId(id) ==
    LET bound == IF IsWireForm(id) THEN unprojectId(id) ELSE id
    IN IF bound = Malformed THEN Malformed
       ELSE Seqs!FlattenSeq([i \in DOMAIN bound |-> ProjectByte(bound[i])])

-----------------------------------------------------------------------------
(* The ids to try: r, 2, F, /, ~, % and a character of two bytes.          *)
CONSTANT IdLength    \* bound: characters of an id

ASSUME WireAssumption == IdLength \in Nat

Characters ==
    {<<114>>, <<50>>, <<70>>, <<Slash>>, <<Tilde>>, <<Percent>>, <<195, 169>>}
BoundIds ==
    {Seqs!FlattenSeq(s) : s \in {t \in Seqs!BoundedSeq(Characters, IdLength) :
                               <<Slash>> \in Seqs!ToSet(t)}}

(* The link of an older host: percent-encoding, which leaves `~` alone.    *)
PercentEncoded(id) ==
    Seqs!FlattenSeq([i \in DOMAIN id |->
        IF id[i] \in PASSTHROUGH \cup {Tilde} THEN <<id[i]>>
        ELSE <<Percent>> \o Tail(ProjectByte(id[i]))])

(* Ids that come back changed, and ids whose segment, from a new link or   *)
(* from an old one, is not sent back as it came.  The two escapes clash in *)
(* an old link of an id that itself holds something like `~2F`.            *)
Lost == {id \in BoundIds : unprojectId(projectId(id)) # id}
Garbled ==
    {id \in BoundIds :
        \/ projectId(projectId(id)) # projectId(id)
        \/ /\ ~(\E i \in DOMAIN id : HEX_PAIR(id, i) /\ id[i] = Tilde)
           /\ projectId(PercentEncoded(id)) # projectId(id)}

(* A tenant-bound id survives its way through a path: `spec/v2/core/       *)
(* identity.md`, "Wire form".                                              *)
BoundIdSurvives == Lost = {}

(* A segment taken from a link, of a new or an old host, is sent back as   *)
(* the id it stands for and never escaped twice.                           *)
LinkSurvives == Garbled = {}

=============================================================================
