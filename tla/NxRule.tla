------------------------------- MODULE NxRule -------------------------------
(***************************************************************************)
(* A rule for an OpenFlow 1.0 switch: ClsRule of ryu/ofproto/nx_match.py   *)
(* and Datapath.send_flow_mod of ryu/controller/controller.py.  The        *)
(* application describes a rule with calls set_xxx and sends it; the rule  *)
(* goes out as an OpenFlow 1.0 match or, if that cannot express it, as a   *)
(* list of Nicira fields (NXM), for which the switch has to change its     *)
(* flow format first.                                                      *)
(*                                                                         *)
(* Values and masks have three bits; of nw_tos the lowest is ECN.          *)
(***************************************************************************)
EXTENDS Integers, Sequences, SequencesExt, FiniteSets, Bitwise, TLC

CONSTANTS MaxCalls,     \* calls on one rule
          MaxRules,     \* rules sent
          MaxLoss       \* connections lost

Ones == 7
IP_ECN_MASK == 1
IP_DSCP_MASK == 6
None == -1            \* an empty list, or no mask
NXFF_OPENFLOW10 == 0
NXFF_NXM == 2
ICMP == 1
TCP == 6
UDP == 17
ICMPV6 == 58

----------------------------------------------------------------------------
\* ClsRule: what the setter of a field does with the mask.
\*   bit: there is no mask, the setter clears a bit of the wildcards.
\*   keep: the setter without a mask leaves the mask alone.
\*   full: the setter without a mask sets all bits.
\*   zero: the setter without a mask clears it, and sets a bit of regs_bits.
\*   tos: the field is a part of nw_tos, and has a bit of the wildcards.
\* and: the masked setter clears the bits of the value outside the mask.
Bit(n) == [kind |-> "bit", bit |-> n, and |-> FALSE]
Keep == [kind |-> "keep", bit |-> None, and |-> TRUE]
Full(and) == [kind |-> "full", bit |-> None, and |-> and]
Register == [kind |-> "zero", bit |-> None, and |-> FALSE]
Tos(n) == [kind |-> "tos", bit |-> n, and |-> FALSE]

SettersToTpDst ==
    [in_port |-> Bit(0), dl_vlan |-> Bit(1), dl_vlan_pcp |-> Bit(20), dl_dst |-> Keep,
     dl_src |-> Keep, dl_type |-> Bit(4), dl_tci |-> Full(FALSE), tp_src |-> Full(TRUE),
     tp_dst |-> Full(TRUE)]
SettersFromNwProto ==
    [nw_proto |-> Bit(5), nw_src |-> Full(FALSE), nw_dst |-> Full(FALSE), nw_dscp |-> Tos(1),
     tun_id |-> Full(TRUE), nw_ecn |-> Tos(2), nw_ttl |-> Bit(8), nw_frag |-> Full(TRUE),
     arp_spa |-> Full(FALSE), arp_tpa |-> Full(FALSE), arp_sha |-> Bit(3), arp_tha |-> Bit(6),
     ipv6_label |-> Bit(7), ipv6_src |-> Keep, ipv6_dst |-> Keep, nd_target |-> Keep,
     reg |-> Register, pkt_mark |-> Full(FALSE)]
Setters == SettersToTpDst @@ SettersFromNwProto
Fields == DOMAIN Setters
Bytes == {"dl_dst", "dl_src"}
Lists == {"ipv6_src", "ipv6_dst", "nd_target"}

\* Flow and FlowWildcards, by field.
Flow == [f \in Fields |-> IF f \in Lists THEN None ELSE 0]
FlowWildcards == [f \in Fields |-> IF f \in Lists \cup Bytes THEN None ELSE 0]
Blank == [flow |-> Flow, mask |-> FlowWildcards, tos |-> 0, clear |-> {}, regs |-> FALSE]

\* One call: set_f(v) for m = None, otherwise set_f_masked(v, m).
Call(r, f, v, m) ==
    LET s == Setters[f]
        part == IF f = "nw_ecn" THEN IP_ECN_MASK ELSE IP_DSCP_MASK
    IN  CASE s.kind = "bit" -> [r EXCEPT !.clear = @ \cup {s.bit}, !.flow[f] = v]
          [] s.kind = "tos" -> [r EXCEPT !.clear = @ \cup {s.bit},
                                         !.tos = (@ & (Ones - part)) + (v & part)]
          [] OTHER -> [r EXCEPT !.flow[f] = IF m # None /\ s.and THEN v & m ELSE v,
                                !.mask[f] = IF m # None THEN m
                                            ELSE IF s.kind = "keep" THEN @
                                            ELSE IF s.kind = "zero" THEN 0 ELSE Ones,
                                !.regs = @ \/ s.kind = "zero"]

\* Mutant: the tunnel id is forgotten.
flow_format_no_tun_id(r) ==
    IF r.mask.dl_dst # None \/ r.mask.dl_src # None \/ Setters.nw_ecn.bit \in r.clear \/ r.regs
    THEN NXFF_NXM ELSE NXFF_OPENFLOW10

flow_format(r) ==
    IF \/ r.mask.tun_id # 0
       \/ r.mask.dl_dst # None
       \/ r.mask.dl_src # None
       \/ Setters.nw_ecn.bit \in r.clear
       \/ r.regs
    THEN NXFF_NXM ELSE NXFF_OPENFLOW10

----------------------------------------------------------------------------
\* match_tuple: by field of an OpenFlow 1.0 match the value and the mask.
Prefix(m) ==
    CASE m \in {1, 3, 7} -> 7     \* bin(m) has no zero: no bit is wildcarded
      [] m \in {2, 6} -> 6
      [] m = 4 -> 4
      [] OTHER -> 0               \* 0, or "01" in bin(m)

match_tuple(r) ==
    LET exact(f, on) == IF on THEN {[f |-> f, v |-> r.flow[f], m |-> Ones]} ELSE {}
        bit(f) == exact(f, Setters[f].bit \in r.clear)
        value(f) == exact(f, r.flow[f] # 0)
        prefix(f) == {[f |-> f, v |-> r.flow[f], m |-> Prefix(r.mask[f])]}
    IN  bit("in_port") \cup value("dl_src") \cup value("dl_dst") \cup bit("dl_type")
        \cup value("dl_vlan") \cup value("dl_vlan_pcp")
        \cup (IF r.tos # 0 THEN {[f |-> "nw_dscp", v |-> r.tos & IP_DSCP_MASK, m |-> IP_DSCP_MASK]} ELSE {})
        \cup value("nw_proto") \cup prefix("nw_src") \cup prefix("nw_dst")
        \cup value("tp_src") \cup value("tp_dst")

----------------------------------------------------------------------------
\* MFField: what a field's class writes after the header.
_put(v, m) == <<v>>
putw(v, m) == <<v, m>>
\* Mutant: a mask of all bits is written.
putm_ones(v, m) == IF m = 0 THEN <<>> ELSE <<v, m>>
putm(v, m) == CASE m = 0 -> <<>> [] m = Ones -> <<v>> [] OTHER -> <<v, m>>
putv6(v, m) == IF m # None THEN <<v, m>> ELSE <<v>>
put(kind, v, m) ==
    CASE kind = "put" -> _put(v, m)
      [] kind = "putm" -> putm(v, m)
      [] kind = "putv6" -> putv6(v, m)
      [] kind = "mac" -> IF m # None THEN putw(v, m) ELSE _put(v, m)
      [] kind = "frag" -> IF m = Ones THEN _put(v, m) ELSE putw(v, m)
      [] kind = "reg" -> IF m # 0 THEN putm(v, m) ELSE _put(v, m)

\* By NXM header: the field of the rule, the length in the header, the bytes
\* of pack_str, and what put writes.
MF(f, len, n_bytes, kind) == [f |-> f, len |-> len, n_bytes |-> n_bytes, put |-> kind]

MFToIPSrc ==
    [IN_PORT |-> MF("in_port", 2, 2, "put"), ETH_DST |-> MF("dl_dst", 6, 6, "mac"),
     ETH_SRC |-> MF("dl_src", 6, 6, "mac"), ETH_TYPE |-> MF("dl_type", 2, 2, "put"),
     VLAN_TCI |-> MF("dl_tci", 2, 2, "putm"), IP_TOS |-> MF("nw_dscp", 1, 1, "put"),
     TUN_ID |-> MF("tun_id", 8, 8, "putm"), IP_SRC |-> MF("nw_src", 4, 4, "putm")]

MFToArpSha ==
    [IP_DST |-> MF("nw_dst", 4, 4, "putm"), IP_ECN |-> MF("nw_ecn", 1, 1, "put"),
     IP_TTL |-> MF("nw_ttl", 1, 1, "put"), IP_PROTO |-> MF("nw_proto", 1, 1, "put"),
     TP_SRC |-> MF("tp_src", 2, 2, "putm"), TP_DST |-> MF("tp_dst", 2, 2, "putm"),
     ARP_SPA |-> MF("arp_spa", 4, 4, "putm"), ARP_TPA |-> MF("arp_tpa", 4, 4, "putm"),
     ARP_SHA |-> MF("arp_sha", 6, 6, "put")]

MFToICMPCode ==
    [IPV6_SRC |-> MF("ipv6_src", 16, 16, "putv6"), IPV6_DST |-> MF("ipv6_dst", 16, 16, "putv6"),
     ND_TARGET |-> MF("nd_target", 16, 16, "putv6"), IP_FRAG |-> MF("nw_frag", 1, 1, "frag"),
     ARP_THA |-> MF("arp_tha", 6, 6, "put"), ICMP_TYPE |-> MF("tp_src", 1, 1, "put"),
     ICMP_CODE |-> MF("tp_dst", 1, 1, "put")]

MFFromICMPV6Type ==
    [ICMPV6_TYPE |-> MF("tp_src", 1, 1, "put"), ICMPV6_CODE |-> MF("tp_dst", 1, 1, "put"),
     IPV6_LABEL |-> MF("ipv6_label", 4, 4, "put"), REG |-> MF("reg", 4, 4, "reg"),
     PKT_MARK |-> MF("pkt_mark", 4, 4, "putm")]

MFs == MFToIPSrc @@ MFToArpSha @@ MFToICMPCode @@ MFFromICMPV6Type

\* nxm_put, with the header h or h_W.
nxm_put(r, h, masked) ==
    LET mf == MFs[h]
        v == CASE h = "IP_TOS" -> r.tos & IP_DSCP_MASK
               [] h = "IP_ECN" -> r.tos & IP_ECN_MASK
               [] OTHER -> r.flow[mf.f]
        written == put(mf.put, v, r.mask[mf.f])
    IN  [h |-> h, f |-> mf.f, masked |-> masked, put |-> written,
         fits |-> Len(written) * mf.n_bytes = (IF masked THEN 2 ELSE 1) * mf.len]

\* serialize_nxm_match: the headers in their order, each with the condition
\* under which it is sent and the one under which it has a mask.
Sent(r, h, on, masked) == IF on THEN <<nxm_put(r, h, masked)>> ELSE <<>>
Unwild(r, f) == Setters[f].bit \in r.clear
Proto(r, p) == Unwild(r, "nw_proto") /\ r.flow.nw_proto = p

SerializeToIPProto(r) ==
    Sent(r, "IN_PORT", Unwild(r, "in_port"), FALSE)
    \o Sent(r, "ETH_DST", r.flow.dl_dst # 0, r.mask.dl_dst # None)
    \o Sent(r, "ETH_SRC", r.flow.dl_src # 0, r.mask.dl_src # None)
    \o Sent(r, "ETH_TYPE", Unwild(r, "dl_type"), FALSE)
    \o Sent(r, "VLAN_TCI", r.mask.dl_tci # 0, r.mask.dl_tci # Ones)
    \o Sent(r, "IP_TOS", Unwild(r, "nw_dscp"), FALSE)
    \o Sent(r, "IP_ECN", Unwild(r, "nw_ecn"), FALSE)
    \o Sent(r, "IP_TTL", Unwild(r, "nw_ttl"), FALSE)
    \o Sent(r, "IP_PROTO", Unwild(r, "nw_proto"), FALSE)
    \o Sent(r, "ICMP_TYPE", Proto(r, ICMP) /\ r.mask.tp_src # 0, FALSE)
    \o Sent(r, "ICMP_CODE", Proto(r, ICMP) /\ r.mask.tp_dst # 0, FALSE)

SerializeToNdTarget(r) ==
    Sent(r, "TP_SRC", r.flow.tp_src # 0 /\ r.flow.nw_proto \in {TCP, UDP}, r.mask.tp_src # Ones)
    \o Sent(r, "TP_DST", r.flow.tp_dst # 0 /\ r.flow.nw_proto \in {TCP, UDP}, r.mask.tp_dst # Ones)
    \o Sent(r, "IP_SRC", r.flow.nw_src # 0, r.mask.nw_src # Ones)
    \o Sent(r, "IP_DST", r.flow.nw_dst # 0, r.mask.nw_dst # Ones)
    \o Sent(r, "ICMPV6_TYPE", Proto(r, ICMPV6) /\ r.mask.tp_src # 0, FALSE)
    \o Sent(r, "ICMPV6_CODE", Proto(r, ICMPV6) /\ r.mask.tp_dst # 0, FALSE)
    \o Sent(r, "IPV6_LABEL", Unwild(r, "ipv6_label"), FALSE)
    \o Sent(r, "IPV6_SRC", r.flow.ipv6_src # None, r.mask.ipv6_src # None)
    \o Sent(r, "IPV6_DST", r.flow.ipv6_dst # None, r.mask.ipv6_dst # None)
    \o Sent(r, "ND_TARGET", r.flow.nd_target # None, r.mask.nd_target # None)

SerializeFromArp(r) ==
    Sent(r, "ARP_SPA", r.flow.arp_spa # 0, r.mask.arp_spa # Ones)
    \o Sent(r, "ARP_TPA", r.flow.arp_tpa # 0, r.mask.arp_tpa # Ones)
    \o Sent(r, "ARP_SHA", Unwild(r, "arp_sha"), FALSE)
    \o Sent(r, "ARP_THA", Unwild(r, "arp_tha"), FALSE)
    \o Sent(r, "IP_FRAG", r.flow.nw_frag # 0, r.mask.nw_frag # Ones)
    \o Sent(r, "PKT_MARK", r.flow.pkt_mark # 0, r.mask.pkt_mark # Ones)
    \o Sent(r, "TUN_ID", r.mask.tun_id # 0, r.mask.tun_id # Ones)
    \o Sent(r, "REG", r.regs, r.mask.reg # 0)

serialize_nxm_match(r) == SerializeToIPProto(r) \o SerializeToNdTarget(r) \o SerializeFromArp(r)

----------------------------------------------------------------------------
VARIABLES used,      \* the fields the application uses
          rule,      \* the ClsRule the application is building
          asked,     \* by field, the constraint asked for last
          calls,     \* calls made on it
          format,    \* Datapath.flow_format
          chan,      \* messages on their way to the switch
          switch,    \* the flow format of the switch
          rules,     \* rules sent
          losses     \* connections lost

vars == <<used, rule, asked, calls, format, chan, switch, rules, losses>>

Unasked == [f \in Fields |-> [v |-> 0, m |-> 0]]
Nothing == [type |-> "none", nxm |-> <<>>, of10 |-> {}, asked |-> Unasked, rule |-> Blank]
SetFormat == [Nothing EXCEPT !.type = "set_flow_format"]
Barrier == [Nothing EXCEPT !.type = "barrier"]

\* ClsRule(nw_proto = p), or ClsRule() for p = 0.
New(p) ==
    /\ rule' = IF p = 0 THEN Blank ELSE Call(Blank, "nw_proto", p, None)
    /\ asked' = IF p = 0 THEN Unasked ELSE [Unasked EXCEPT !.nw_proto = [v |-> p, m |-> Ones]]
    /\ calls' = 0

Calls == IF used = Fields THEN MaxCalls ELSE 1
Rules == IF used = Fields THEN 1 ELSE MaxRules
Protos == {0, ICMP, TCP, ICMPV6}

\* One rule with any of the fields, or several with a few.
Init ==
    /\ used \in {Fields, {"in_port", "tun_id"}}
    /\ rule = Blank /\ asked = Unasked /\ calls = 0
    /\ format = NXFF_OPENFLOW10
    /\ chan = <<>>
    /\ switch = NXFF_OPENFLOW10
    /\ rules = 0 /\ losses = 0

Set(f, v, m) ==
    /\ rules < Rules
    /\ calls < Calls
    /\ m # None => Setters[f].kind \notin {"bit", "tos"}
    /\ f = "pkt_mark" => m # None
    /\ rule' = Call(rule, f, v, m)
    /\ asked' = [asked EXCEPT ![f] = LET k == CASE f = "nw_ecn" -> IP_ECN_MASK
                                                [] f = "nw_dscp" -> IP_DSCP_MASK
                                                [] OTHER -> IF m = None THEN Ones ELSE m
                                     IN  [v |-> IF f = "nw_proto" THEN v ELSE v & k, m |-> k]]
    /\ calls' = calls + 1
    /\ UNCHANGED <<used, format, chan, switch, rules, losses>>

Another(p) ==
    /\ rules < Rules
    /\ used = Fields
    /\ rule = Blank
    /\ New(p)
    /\ UNCHANGED <<used, format, chan, switch, rules, losses>>

\* Mutant: only the barrier is sent.
send_barrier_only(ff) == IF format = ff THEN <<>> ELSE <<Barrier>>

\* Datapath.send_nxt_set_flow_format
send_nxt_set_flow_format(ff) == IF format = ff THEN <<>> ELSE <<SetFormat, Barrier>>

\* Datapath.send_flow_mod.  MFNdTarget packs eight numbers with '!4I' and
\* raises: the message is not sent.  The application lets go of the rule.
send_flow_mod ==
    LET ff == flow_format(rule)
        first == IF format < ff THEN send_nxt_set_flow_format(ff) ELSE <<>>
        mod == [Nothing EXCEPT !.type = IF ff = NXFF_NXM THEN "nxt_flow_mod" ELSE "flow_mod",
                               !.nxm = IF ff = NXFF_NXM THEN serialize_nxm_match(rule) ELSE @,
                               !.of10 = IF ff = NXFF_NXM THEN @ ELSE match_tuple(rule),
                               !.asked = asked,
                               !.rule = rule]
        raises == ff = NXFF_NXM /\ rule.flow.nd_target # None
    IN  /\ rules < Rules
        /\ rules' = rules + 1
        /\ format' = IF format < ff THEN ff ELSE format
        /\ chan' = chan \o first \o (IF raises THEN <<>> ELSE <<mod>>)
        /\ rule' = Blank /\ asked' = Unasked /\ calls' = 0
        /\ UNCHANGED <<used, switch, losses>>

\* The switch takes the next message.
Format(old, msg) == IF msg.type = "set_flow_format" THEN NXFF_NXM ELSE old

Receive ==
    /\ chan # <<>>
    /\ switch' = Format(switch, Head(chan))
    /\ chan' = Tail(chan)
    /\ UNCHANGED <<used, rule, asked, calls, format, rules, losses>>

\* The connection is lost: the next one has a new Datapath, and the switch
\* starts with the format of OpenFlow 1.0 again.
Reconnect ==
    /\ losses < MaxLoss
    /\ losses' = losses + 1
    /\ format' = NXFF_OPENFLOW10
    /\ switch' = NXFF_OPENFLOW10
    /\ chan' = <<>>
    /\ UNCHANGED <<used, rule, asked, calls, rules>>

Values == {0, 5}
Masks == {0, 6, 7}

Next ==
    \/ \E f \in used, v \in Values : Set(f, v, None)
    \/ \E f \in used, v \in Values, m \in Masks : Set(f, v, m)
    \/ \E p \in Protos : Another(p)
    \/ send_flow_mod
    \/ Receive
    \/ Reconnect

Spec == Init /\ [][Next]_vars

----------------------------------------------------------------------------
\* What the switch makes of a flow mod: by field a value and a mask.
Constraint(v, m) == [v |-> v & m, m |-> m]
Exact(f) == CASE f = "nw_ecn" -> IP_ECN_MASK [] f = "nw_dscp" -> IP_DSCP_MASK [] OTHER -> Ones
Value(f, v, m) == IF f = "nw_proto" THEN [v |-> v, m |-> m] ELSE Constraint(v, m)
Given(msg, f) ==
    {c \in {Value(f, e.v, e.m) : e \in {x \in msg.of10 : x.f = f}}
           \cup {Value(f, e.put[1], IF e.masked THEN e.put[2] ELSE Exact(f)) :
                     e \in {x \in ToSet(msg.nxm) : x.f = f}} : c.m # 0}
Wanted(msg, f) == IF msg.asked[f].m = 0 THEN {} ELSE {msg.asked[f]}

IsRule(msg) == msg.type \in {"flow_mod", "nxt_flow_mod"}

\* What OpenFlow 1.0 cannot express, and flow_format does not look at.
Beyond10(msg, f) ==
    /\ msg.type = "flow_mod"
    /\ \/ f \in {"dl_tci", "nw_ttl", "nw_frag", "arp_spa", "arp_tpa", "arp_sha", "arp_tha",
                 "ipv6_label", "ipv6_src", "ipv6_dst", "nd_target", "pkt_mark"}
       \/ f \in {"tp_src", "tp_dst"} /\ msg.asked[f].m # Ones
       \/ f \in {"nw_src", "nw_dst"} /\ msg.asked[f].m \notin {0, 4, 6, 7}

\* A field that is asked to be zero counts as not asked for.
Zero(msg, f) ==
    /\ msg.asked[f].v = 0
    /\ \/ msg.type = "flow_mod" /\ f \notin {"in_port", "dl_type", "nw_src", "nw_dst"}
       \/ f \in {"dl_dst", "dl_src", "tp_src", "tp_dst", "nw_src", "nw_dst", "arp_spa", "arp_tpa",
                 "nw_frag", "pkt_mark"}

\* A setter without a mask after one with a mask: the mask stays.  A register
\* with a mask of no bits is sent as one without a mask.
StaleMask(msg, f) ==
    \/ Setters[f].kind = "keep" /\ msg.asked[f].m = Ones /\ msg.rule.mask[f] \notin {None, Ones}
    \/ f = "reg" /\ msg.rule.regs /\ msg.asked.reg.m = 0

\* The two VLAN fields have no NXM header, and the bit of dl_vlan is the one
\* of nw_dscp: the rule gets a DSCP of 0.
Vlan(msg, f) ==
    /\ msg.type = "nxt_flow_mod"
    /\ \/ f \in {"dl_vlan", "dl_vlan_pcp"}
       \/ f = "nw_dscp" /\ msg.asked.nw_dscp.m = 0

\* A port, a type or a code needs the protocol; a type or a code is exact.
NoPort(msg, f) ==
    /\ msg.type = "nxt_flow_mod"
    /\ f \in {"tp_src", "tp_dst"}
    /\ \/ msg.rule.flow.nw_proto \notin {ICMP, TCP, UDP, ICMPV6}
       \/ msg.rule.flow.nw_proto \in {ICMP, ICMPV6} /\ msg.asked[f].m # Ones

\* A mask of no bits leaves a header with nothing behind it; a register with
\* a mask of all bits has a header that announces the mask and no mask.
Shortened(e, msg) ==
    \/ e.f \in {"nw_src", "nw_dst", "arp_spa", "arp_tpa", "pkt_mark"} /\ msg.asked[e.f].m = 0
    \/ e.f = "reg" /\ msg.rule.mask.reg = Ones

TypeOK ==
    /\ rule.flow \in [Fields -> {None, 0, 5, 7, ICMP, TCP, ICMPV6} \cup 0 .. Ones]
    /\ rule.mask \in [Fields -> {None} \cup 0 .. Ones]
    /\ rule.tos \in 0 .. Ones
    /\ {format, switch} \subseteq {NXFF_OPENFLOW10, NXFF_NXM}

\* Every Nicira field on its way is as long as its header announces.
FieldsFit ==
    \A msg \in ToSet(chan) : \A e \in ToSet(msg.nxm) : Shortened(e, msg) \/ e.fits

\* A rule on its way matches what the application asked for.
MatchIsAsked ==
    \A msg \in ToSet(chan) :
        IsRule(msg) /\ (\A e \in ToSet(msg.nxm) : ~Shortened(e, msg)) =>
            \A f \in Fields :
                \/ Beyond10(msg, f) \/ Zero(msg, f) \/ StaleMask(msg, f) \/ Vlan(msg, f) \/ NoPort(msg, f)
                \/ Given(msg, f) = Wanted(msg, f)

\* A Nicira rule finds the switch told to expect one, after a reconnection
\* too; and once the switch has taken everything, it has the format the
\* controller believes it has.
FormatFirst ==
    /\ \A i \in DOMAIN chan : chan[i].type = "nxt_flow_mod"
                                  => FoldSeq(LAMBDA m, old : Format(old, m), switch, SubSeq(chan, 1, i)) = NXFF_NXM
    /\ FoldSeq(LAMBDA m, old : Format(old, m), switch, chan) = format

============================================================================
