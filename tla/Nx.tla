--------------------------------- MODULE Nx ---------------------------------
(***************************************************************************)
(* Nicira actions of OpenFlow 1.3 and 1.5 (ryu/ofproto/nx_actions.py):     *)
(* experimenter actions told apart by a subtype.                           *)
(***************************************************************************)
EXTENDS Oxx

\* nicira_ext
NXAST_REG_MOVE == 6
NXAST_RESUBMIT_TABLE == 14
NXAST_LEARN == 16
NXAST_CONJUNCTION == 34
NXAST_CT == 35

\* NXAction over OFPActionExperimenter: the length is rounded up, and nothing
\* is written for what it is rounded up by.
NXAction(experimenter, subtype, fmt, names, parts) ==
    [Sub(Sub(Elem("OFPAction", experimenter,
                  <<Raw(<<2, 2, 4, 2>> \o fmt, <<"type", "len", "experimenter", "subtype">> \o names)>>
                  \o parts),
             "experimenter", NX_EXPERIMENTER_ID),
         "subtype", subtype)
        EXCEPT !.pads = FALSE]

\* Its constructor reads a class attribute _subtype it does not have.
NXActionUnknown(experimenter) ==
    Raising(ReadOnly(Sub(Elem("OFPAction", experimenter,
        <<Raw(<<2, 2, 4, 2>>, <<"type", "len", "experimenter", "subtype">>)>>),
        "experimenter", NX_EXPERIMENTER_ID)))

NXActionRegMove(experimenter) ==
    NXAction(experimenter, NXAST_REG_MOVE, <<2, 2, 2>>, <<"n_bits", "src_ofs", "dst_ofs">>,
             <<One("oxm_header"), One("oxm_header")>>)

NXActionLearn(experimenter) ==
    NXAction(experimenter, NXAST_LEARN, <<2, 2, 2, 8, 2, 1, -1, 2, 2>>,
             <<"idle_timeout", "hard_timeout", "priority", "cookie", "flags", "table_id",
               "fin_idle_timeout", "fin_hard_timeout">>, <<Each("NXFlowSpec")>>)

NXActionConjunction(experimenter) ==
    NXAction(experimenter, NXAST_CONJUNCTION, <<1, 1, 4>>, <<"clause", "n_clauses", "id">>, <<>>)

NXActionResubmitTable(experimenter) ==
    NXAction(experimenter, NXAST_RESUBMIT_TABLE, <<2, 1, -3>>, <<"in_port", "table_id">>, <<>>)

NXActionCT(experimenter) ==
    NXAction(experimenter, NXAST_CT, <<2, 4, 2, 1, -3, 2>>,
             <<"flags", "zone_src", "zone_ofs_nbits", "recirc_table", "alg">>, <<Each("OFPAction")>>)

\* oxm_serialize_header: the header of a field without its value, with the
\* experimenter header.
OxmHeaders ==
    [oxm_header |-> Sub(Struct("oxm_header", <<Raw(<<4>>, <<"type">>)>>), "type", 1),
     oxm_header_experimenter |->
        Sub(Struct("oxm_header", <<Raw(<<4, 4>>, <<"type", "exp_id">>)>>), "type", 2)]

\* NXFlowSpec: a header with the kinds of the source and the destination and
\* the number of bits; a subfield, or an immediate value in whole 16 bit words;
\* and a subfield, unless the destination is an output.
SrcSubfield == 0
SrcImmediate == 1
DstMatch == 0
DstLoad == 1
DstOutput == 2

NXFlowSpec(src, dst, n_bits) ==
    LET value == IF src = SrcSubfield THEN <<4, 2>> ELSE <<((n_bits + 15) \div 16) * 2>>
        source == IF src = SrcSubfield THEN <<"src", "src_ofs">> ELSE <<"src">>
        subfield == IF dst = DstOutput THEN <<>> ELSE <<4, 2>>
        target == IF dst = DstOutput THEN <<>> ELSE <<"dst", "dst_ofs">>
    IN  Sub(Struct("NXFlowSpec", <<Raw(<<2>> \o value \o subfield, <<"hdr">> \o source \o target)>>),
            "hdr", src * 8192 + dst * 2048 + n_bits)

NXFlowSpecs ==
    [NXFlowSpecMatch |-> NXFlowSpec(SrcSubfield, DstMatch, 48),
     NXFlowSpecMatchValue |-> NXFlowSpec(SrcImmediate, DstMatch, 17),
     NXFlowSpecLoad |-> NXFlowSpec(SrcSubfield, DstLoad, 32),
     NXFlowSpecLoadValue |-> NXFlowSpec(SrcImmediate, DstLoad, 12),
     NXFlowSpecOutput |-> NXFlowSpec(SrcSubfield, DstOutput, 16),
     NXFlowSpecOutputValue |-> NXFlowSpec(SrcImmediate, DstOutput, 16)]

\* nx_actions.generate
NXActions(experimenter) ==
    [NXActionUnknown |-> NXActionUnknown(experimenter),
     NXActionRegMove |-> NXActionRegMove(experimenter),
     NXActionLearn |-> NXActionLearn(experimenter),
     NXActionConjunction |-> NXActionConjunction(experimenter),
     NXActionResubmitTable |-> NXActionResubmitTable(experimenter),
     NXActionCT |-> NXActionCT(experimenter)]
    @@ OxmHeaders @@ NXFlowSpecs

============================================================================
