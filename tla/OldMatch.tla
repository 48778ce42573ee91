------------------------------ MODULE OldMatch ------------------------------
(***************************************************************************)
(* A match built by an application in OpenFlow 1.2 and 1.3: OFPMatch of    *)
(* ryu/ofproto/ofproto_v1_2_parser.py and ofproto_v1_3_parser.py.  A match *)
(* comes from keyword arguments, from the wire, or from the older calls    *)
(* set_xxx, set_xxx_masked and append_field, and two kinds can meet in one *)
(* object.  The application makes calls in any order and serializes.       *)
(*                                                                         *)
(* Values and masks have two bits.                                         *)
(***************************************************************************)
EXTENDS Integers, Sequences, SequencesExt, FiniteSets, Bitwise, TLC

CONSTANTS
    FieldTables,     \* by version, the fields and their setters: OldFields
    OldCalls         \* calls an application makes on one match

Ones == 3
Values == {1, 3}
Masks == {0, 2}
NoMask == -1

----------------------------------------------------------------------------
VARIABLES ver,      \* the version of the protocol
          used,     \* the fields the application cares about
          start,    \* how the match came about: "empty", "keywords", "parsed"
          fields2,  \* _fields2: what came with keywords or from the wire
          fields,   \* fields: what was appended
          flow,     \* _flow, _wc: by field, whether it is set, its value and its mask
          done,     \* _serialized
          out,      \* what the last call that renders the match gave
          asked,    \* what the application asked for: by field, set last, and appended
          calls,    \* calls made on it, and those among them that serialize it
          sends

vars == <<ver, used, start, fields2, fields, flow, done, out, asked, calls, sends>>

V == FieldTables[ver]
Other == "eth_type"

Unset(f) == [set |-> FALSE, v |-> 0, m |-> IF V.set[f].mask = "bytes" THEN NoMask ELSE 0]
Entry(f, v, m) == [f |-> f, v |-> v, m |-> m]
Asked(v, m) == <<v & m, m>>
Nothing == [how |-> "none", list |-> <<>>]

\* OFPMatch(), OFPMatch(field = 1), or OFPMatch.parser, which fills both lists.
Init ==
    /\ ver \in {3, 4}
    /\ \E f \in DOMAIN V.set : used = {f, Other}
    /\ start \in {"empty", "keywords", "parsed"}
    /\ LET one == <<Entry(CHOOSE f \in used : f # Other \/ used = {Other}, 1, NoMask)>>
       IN  /\ fields2 = IF start = "empty" THEN <<>> ELSE one
           /\ fields = IF start = "parsed" THEN one ELSE <<>>
    /\ flow = [f \in used |-> Unset(f)]
    /\ done = FALSE
    /\ out = Nothing
    /\ asked = [f \in used |-> [set |-> IF \E i \in DOMAIN fields2 : fields2[i].f = f
                                        THEN {Asked(1, Ones)} ELSE {},
                                more |-> {}]]
    /\ calls = 0
    /\ sends = 0

_composed_with_old_api == (fields # <<>> /\ fields2 = <<>>) \/ \E f \in used : flow[f].set

\* set_xxx; the tag-present bit set_vlan_vid adds is left out.
Set(f, v) ==
    /\ calls < OldCalls
    /\ flow' = [flow EXCEPT ![f].set = TRUE, ![f].v = v,
                            ![f].m = IF V.set[f].mask = "max" THEN Ones ELSE @]
    /\ asked' = [asked EXCEPT ![f].set = {Asked(v, Ones)}]
    /\ calls' = calls + 1
    /\ out' = Nothing
    /\ UNCHANGED <<ver, used, start, fields2, fields, done, sends>>

\* set_xxx_masked
SetMasked(f, v, m) ==
    /\ calls < OldCalls
    /\ V.set[f].mask # "plain"
    /\ flow' = [flow EXCEPT ![f] = [set |-> TRUE, v |-> IF V.set[f].and THEN v & m ELSE v, m |-> m]]
    /\ asked' = [asked EXCEPT ![f].set = {Asked(v, m)}]
    /\ calls' = calls + 1
    /\ out' = Nothing
    /\ UNCHANGED <<ver, used, start, fields2, fields, done, sends>>

append_field(f, v, m) ==
    /\ calls < OldCalls
    /\ m # NoMask => V.set[f].mask # "plain"
    /\ fields' = Append(fields, Entry(f, v, m))
    /\ asked' = [asked EXCEPT ![f].more = @ \cup {Asked(v, IF m = NoMask THEN Ones ELSE m)}]
    /\ calls' = calls + 1
    /\ out' = Nothing
    /\ UNCHANGED <<ver, used, start, fields2, flow, done, sends>>

\* Mutant: a mask is sent only with the fields that have no maximum.
SentMaskNotMax(f) ==
    LET m == flow[f].m
    IN  CASE V.set[f].mask \in {"plain", "max"} -> NoMask
          [] V.set[f].mask = "bytes" -> m
          [] V.set[f].mask = "int" -> IF m = 0 THEN NoMask ELSE m

\* The mask a field is sent with: whether its header has the mask bit.
SentMask(f) ==
    LET m == flow[f].m
    IN  CASE V.set[f].mask = "plain" -> NoMask
          [] V.set[f].mask = "max" -> IF m = Ones THEN NoMask ELSE m
          [] V.set[f].mask = "bytes" -> m
          [] V.set[f].mask = "int" -> IF m = 0 THEN NoMask ELSE m

\* The fields serialize_old appends.
FieldsSet ==
    LET set == SelectSeq(V.order, LAMBDA f : f \in used /\ flow[f].set)
    IN  [i \in DOMAIN set |-> Entry(set[i], flow[set[i]].v, SentMask(set[i]))]

\* serialize, serialize_old: with the older calls a match can be serialized once.
Serialize ==
    /\ calls < OldCalls
    /\ calls' = calls + 1
    /\ sends' = sends + 1
    /\ IF ~_composed_with_old_api
       THEN /\ out' = [how |-> "sent", list |-> fields2]
            /\ UNCHANGED <<fields, done>>
       ELSE IF done
       THEN /\ out' = [how |-> "raised", list |-> <<>>]
            /\ UNCHANGED <<fields, done>>
       ELSE /\ fields' = fields \o FieldsSet
            /\ done' = TRUE
            /\ out' = [how |-> "sent", list |-> fields']
    /\ UNCHANGED <<ver, used, start, fields2, flow, asked>>

\* Mutant: the match itself is serialized to show it.
ShowItself ==
    /\ calls < OldCalls
    /\ calls' = calls + 1
    /\ out' = [how |-> "shown", list |-> IF _composed_with_old_api THEN fields ELSE fields2]
    /\ done' = (done \/ _composed_with_old_api)
    /\ UNCHANGED <<ver, used, start, fields2, fields, flow, asked, sends>>

\* to_jsondict and __str__: a match made with the older calls is copied,
\* serialized and parsed.  The copy gets the appended fields only.
Show ==
    /\ calls < OldCalls
    /\ calls' = calls + 1
    /\ out' = [how |-> "shown", list |-> IF _composed_with_old_api THEN fields ELSE fields2]
    /\ UNCHANGED <<ver, used, start, fields2, fields, flow, done, asked, sends>>

Next ==
    \/ \E f \in used, v \in Values : Set(f, v)
    \/ \E f \in used, v \in Values, m \in Masks : SetMasked(f, v, m)
    \/ \E f \in used, m \in {NoMask, 2} : append_field(f, 1, m)
    \/ Serialize
    \/ Show

Spec == Init /\ [][Next]_vars

----------------------------------------------------------------------------
\* What a switch, or a reader, makes of a list of fields: constraints by
\* field, those without a bit left out.
Constraints(list, f) ==
    {Asked(list[i].v, IF list[i].m = NoMask THEN Ones ELSE list[i].m) :
        i \in {j \in DOMAIN list : list[j].f = f}}

Wanted(f) == asked[f].set \cup asked[f].more
Meant(cs) == {c \in cs : c[2] # 0}

\* Keywords, or a parsed match, together with the older calls: one of the two
\* is left out, or what was replaced is sent as well.
Mixed == fields2 # <<>> /\ (\E f \in used : flow[f].set \/ asked[f].more # {})

\* A setter without a mask after one with a mask leaves the mask in place; a
\* mask of 0 is not sent, the value is.
StaleMask(f) ==
    \E c \in asked[f].set :
        \/ V.set[f].mask \in {"bytes", "int"} /\ c[2] = Ones /\ flow[f].m \in 1 .. Ones - 1
        \/ V.set[f].mask = "bytes" /\ c[2] = Ones /\ flow[f].m = 0
        \/ V.set[f].mask = "int" /\ c[2] = 0

TypeOK ==
    /\ ver \in {3, 4}
    /\ used \subseteq DOMAIN V.set
    /\ \A f \in used : flow[f].v \in 0 .. Ones /\ flow[f].m \in {NoMask} \cup 0 .. Ones
    /\ out.how \in {"none", "sent", "raised", "shown"}
    /\ calls \in 0 .. OldCalls

\* The match on the wire asks of a packet what the application asked for, in
\* as many bytes as each header announces.
SentIsAsked ==
    out.how = "sent" /\ ~Mixed
        => \A f \in used :
              /\ ~StaleMask(f) => Meant(Constraints(out.list, f)) = Meant(Wanted(f))
              /\ V.mt[f] = V.oxm[f].size

\* Rendering a match for a log or a client does not use it up: the first
\* serialization of a match succeeds.
FirstSendWorks == out.how = "raised" => sends > 1

\* to_jsondict returns the flow match.
ShownIsAsked ==
    out.how = "shown" /\ ~Mixed =>
        \A f \in used : ~StaleMask(f) => Meant(Constraints(out.list, f)) = Meant(Wanted(f))

============================================================================
