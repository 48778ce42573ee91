------------------------------ MODULE OFP13 -------------------------------
(***************************************************************************)
(* OpenFlow 1.3: the constants of ryu/ofproto/ofproto_v1_3.py and the      *)
(* classes of ryu/ofproto/ofproto_v1_3_parser.py, in the order of the      *)
(* source.                                                                 *)
(***************************************************************************)
EXTENDS Nx

Constants1 ==
    [OFPT_HELLO |-> 0, OFPT_ERROR |-> 1, OFPT_ECHO_REQUEST |-> 2, OFPT_ECHO_REPLY |-> 3,
     OFPT_EXPERIMENTER |-> 4, OFPT_FEATURES_REQUEST |-> 5, OFPT_FEATURES_REPLY |-> 6,
     OFPT_GET_CONFIG_REQUEST |-> 7, OFPT_GET_CONFIG_REPLY |-> 8, OFPT_SET_CONFIG |-> 9,
     OFPT_PACKET_IN |-> 10, OFPT_FLOW_REMOVED |-> 11, OFPT_PORT_STATUS |-> 12,
     OFPT_PACKET_OUT |-> 13, OFPT_FLOW_MOD |-> 14, OFPT_GROUP_MOD |-> 15,
     OFPT_PORT_MOD |-> 16, OFPT_TABLE_MOD |-> 17, OFPT_MULTIPART_REQUEST |-> 18,
     OFPT_MULTIPART_REPLY |-> 19, OFPT_BARRIER_REQUEST |-> 20, OFPT_BARRIER_REPLY |-> 21,
     OFPT_QUEUE_GET_CONFIG_REQUEST |-> 22, OFPT_QUEUE_GET_CONFIG_REPLY |-> 23,
     OFPT_ROLE_REQUEST |-> 24, OFPT_ROLE_REPLY |-> 25, OFPT_GET_ASYNC_REQUEST |-> 26,
     OFPT_GET_ASYNC_REPLY |-> 27, OFPT_SET_ASYNC |-> 28, OFPT_METER_MOD |-> 29,
     OFP_PORT |-> P(<<4, -4, 6, -2, 16, 4, 4, 4, 4, 4, 4, 4, 4>>, 64)]

Constants2 ==
    [OFP_PACKET_QUEUE |-> P(<<4, 4, 2, -6>>, 16), OFPQT_MIN_RATE |-> 1, OFPQT_MAX_RATE |-> 2,
     OFPQT_EXPERIMENTER |-> 65535, OFP_QUEUE_PROP_HEADER |-> P(<<2, 2, -4>>, 8),
     OFP_QUEUE_PROP_MIN_RATE |-> P(<<2, -6>>, 16),
     OFP_QUEUE_PROP_MAX_RATE |-> P(<<2, -6>>, 16),
     OFP_QUEUE_PROP_EXPERIMENTER |-> P(<<4, -4>>, 16),
     OFP_MATCH |-> P(<<2, 2, 1, 1, 1, 1>>, 8), OFPMT_OXM |-> 1]

Constants3 ==
    [OFPIT_GOTO_TABLE |-> 1, OFPIT_WRITE_METADATA |-> 2, OFPIT_WRITE_ACTIONS |-> 3,
     OFPIT_APPLY_ACTIONS |-> 4, OFPIT_CLEAR_ACTIONS |-> 5, OFPIT_METER |-> 6,
     OFP_INSTRUCTION_GOTO_TABLE |-> P(<<2, 2, 1, -3>>, 8),
     OFP_INSTRUCTION_WRITE_METADATA |-> P(<<2, 2, -4, 8, 8>>, 24),
     OFP_INSTRUCTION_ACTIONS |-> P(<<2, 2, -4>>, 8),
     OFP_INSTRUCTION_METER |-> P(<<2, 2, 4>>, 8), OFPAT_OUTPUT |-> 0,
     OFPAT_COPY_TTL_OUT |-> 11, OFPAT_COPY_TTL_IN |-> 12, OFPAT_SET_MPLS_TTL |-> 15,
     OFPAT_DEC_MPLS_TTL |-> 16, OFPAT_PUSH_VLAN |-> 17, OFPAT_POP_VLAN |-> 18,
     OFPAT_PUSH_MPLS |-> 19, OFPAT_POP_MPLS |-> 20, OFPAT_SET_QUEUE |-> 21,
     OFPAT_GROUP |-> 22, OFPAT_SET_NW_TTL |-> 23, OFPAT_DEC_NW_TTL |-> 24,
     OFPAT_SET_FIELD |-> 25, OFPAT_PUSH_PBB |-> 26, OFPAT_POP_PBB |-> 27,
     OFPAT_EXPERIMENTER |-> 65535, OFP_ACTION_HEADER |-> P(<<2, 2, -4>>, 8),
     OFP_ACTION_OUTPUT |-> P(<<2, 2, 4, 2, -6>>, 16), OFP_ACTION_GROUP |-> P(<<2, 2, 4>>, 8),
     OFP_ACTION_SET_QUEUE |-> P(<<2, 2, 4>>, 8),
     OFP_ACTION_MPLS_TTL |-> P(<<2, 2, 1, -3>>, 8),
     OFP_ACTION_NW_TTL |-> P(<<2, 2, 1, -3>>, 8), OFP_ACTION_PUSH |-> P(<<2, 2, 2, -2>>, 8),
     OFP_ACTION_POP_MPLS |-> P(<<2, 2, 2, -2>>, 8),
     OFP_ACTION_EXPERIMENTER_HEADER |-> P(<<2, 2, 4>>, 8),
     OFP_SWITCH_FEATURES |-> P(<<8, 4, 1, 1, -2, 4, 4>>, 32)]

Constants4 ==
    [OFP_SWITCH_CONFIG |-> P(<<2, 2>>, 12)]

Constants5 ==
    [OFP_TABLE_MOD |-> P(<<1, -3, 4>>, 16)]

\* Mutant of Constants6: a size that leaves out the padding of a flow mod.
Constants6Unpadded ==
    [OFP_FLOW_MOD |-> P(<<8, 8, 1, 1, 2, 2, 2, 4, 4, 4, 2, -2>>, 54)]

Constants6 ==
    [OFP_FLOW_MOD |-> P(<<8, 8, 1, 1, 2, 2, 2, 4, 4, 4, 2, -2>>, 56)]

Constants7 ==
    [OFP_GROUP_MOD |-> P(<<2, 1, -1, 4>>, 16)]

Constants8 ==
    [OFP_BUCKET |-> P(<<2, 2, 4, 4, -4>>, 16),
     OFP_PORT_MOD |-> P(<<4, -4, 6, -2, 4, 4, 4, -4>>, 40),
     OFP_METER_MOD |-> P(<<2, 2, 4>>, 16)]

Constants9 ==
    [OFPMBT_DROP |-> 1, OFPMBT_DSCP_REMARK |-> 2, OFPMBT_EXPERIMENTER |-> 65535,
     OFP_METER_BAND_DROP |-> P(<<2, 2, 4, 4, -4>>, 16),
     OFP_METER_BAND_DSCP_REMARK |-> P(<<2, 2, 4, 4, 1, -3>>, 16),
     OFP_METER_BAND_EXPERIMENTER |-> P(<<2, 2, 4, 4, 4>>, 16),
     OFP_MULTIPART_REQUEST |-> P(<<2, 2, -4>>, 16),
     OFP_MULTIPART_REPLY |-> P(<<2, 2, -4>>, 16), OFPMP_DESC |-> 0, OFPMP_FLOW |-> 1,
     OFPMP_AGGREGATE |-> 2, OFPMP_TABLE |-> 3, OFPMP_PORT_STATS |-> 4, OFPMP_QUEUE |-> 5,
     OFPMP_GROUP |-> 6, OFPMP_GROUP_DESC |-> 7, OFPMP_GROUP_FEATURES |-> 8,
     OFPMP_METER |-> 9, OFPMP_METER_CONFIG |-> 10, OFPMP_METER_FEATURES |-> 11,
     OFPMP_TABLE_FEATURES |-> 12, OFPMP_PORT_DESC |-> 13, OFPMP_EXPERIMENTER |-> 65535,
     OFP_DESC |-> P(<<256, 256, 256, 32, 256>>, 1056),
     OFP_FLOW_STATS_REQUEST_0 |-> P(<<1, -3, 4, 4, -4, 8, 8>>, 32),
     OFP_FLOW_STATS_0 |-> P(<<2, 1, -1, 4, 4, 2, 2, 2, 2, -4, 8, 8, 8>>, 48)]

Constants10 ==
    [OFP_AGGREGATE_STATS_REPLY |-> P(<<8, 8, 4, -4>>, 24),
     OFP_TABLE_STATS |-> P(<<1, -3, 4, 8, 8>>, 24),
     OFP_TABLE_FEATURES |-> P(<<2, 1, -5, 32, 8, 8, 4, 4>>, 64), OFPTFPT_INSTRUCTIONS |-> 0,
     OFPTFPT_INSTRUCTIONS_MISS |-> 1, OFPTFPT_NEXT_TABLES |-> 2,
     OFPTFPT_NEXT_TABLES_MISS |-> 3, OFPTFPT_WRITE_ACTIONS |-> 4,
     OFPTFPT_WRITE_ACTIONS_MISS |-> 5, OFPTFPT_APPLY_ACTIONS |-> 6,
     OFPTFPT_APPLY_ACTIONS_MISS |-> 7, OFPTFPT_MATCH |-> 8, OFPTFPT_WILDCARDS |-> 10,
     OFPTFPT_WRITE_SETFIELD |-> 12, OFPTFPT_WRITE_SETFIELD_MISS |-> 13,
     OFPTFPT_APPLY_SETFIELD |-> 14, OFPTFPT_APPLY_SETFIELD_MISS |-> 15,
     OFPTFPT_EXPERIMENTER |-> 65534, OFPTFPT_EXPERIMENTER_MISS |-> 65535]

Constants11 ==
    [OFP_PORT_STATS_REQUEST |-> P(<<4, -4>>, 8),
     OFP_PORT_STATS |-> P(<<4, -4, 8, 8, 8, 8, 8, 8, 8, 8, 8, 8, 8, 8, 4, 4>>, 112),
     OFP_QUEUE_STATS_REQUEST |-> P(<<4, 4>>, 8),
     OFP_QUEUE_STATS |-> P(<<4, 4, 8, 8, 8, 4, 4>>, 40),
     OFP_GROUP_STATS_REQUEST |-> P(<<4, -4>>, 8),
     OFP_GROUP_STATS |-> P(<<2, -2, 4, 4, -4, 8, 8, 4, 4>>, 40),
     OFP_BUCKET_COUNTER |-> P(<<8, 8>>, 16), OFP_GROUP_DESC_STATS |-> P(<<2, 1, -1, 4>>, 8),
     OFP_GROUP_FEATURES |-> P(<<4, 4, 4, 4, 4, 4, 4, 4, 4, 4>>, 40),
     OFP_METER_MULTIPART_REQUEST |-> P(<<4, -4>>, 8),
     OFP_METER_STATS |-> P(<<4, 2, -6, 4, 8, 8, 4, 4>>, 40),
     OFP_METER_BAND_STATS |-> P(<<8, 8>>, 16), OFP_METER_CONFIG |-> P(<<2, 2, 4>>, 8),
     OFP_METER_FEATURES |-> P(<<4, 4, 4, 1, 1, -2>>, 16),
     OFP_EXPERIMENTER_MULTIPART_HEADER |-> P(<<4, 4>>, 8),
     OFP_QUEUE_GET_CONFIG_REQUEST |-> P(<<4, -4>>, 16),
     OFP_QUEUE_GET_CONFIG_REPLY |-> P(<<4, -4>>, 16),
     OFP_PACKET_OUT |-> P(<<4, 4, 2, -6>>, 24), OFP_ROLE_REQUEST |-> P(<<4, -4, 8>>, 24),
     OFP_ASYNC_CONFIG |-> P(<<4, 4, 4, 4, 4, 4>>, 32),
     OFP_PACKET_IN |-> P(<<4, 2, 1, 1, 8>>, 32)]

Constants12 ==
    [OFP_FLOW_REMOVED |-> P(<<8, 2, 1, 1, 4, 4, 2, 2, 8, 8>>, 56),
     OFP_PORT_STATUS |-> P(<<1, -7, 4, -4, 6, -2, 16, 4, 4, 4, 4, 4, 4, 4, 4>>, 80),
     OFP_PORT_STATUS_DESC_OFFSET |-> 16]

Constants13 ==
    [ONF_FLOW_MONITOR_REQUEST |-> P(<<4, 2, 2, 4, 1, -3>>, 16)]

Constants14 ==
    [OFP_ERROR_MSG |-> P(<<2, 2>>, 12)]

Constants15 ==
    [OFPET_EXPERIMENTER |-> 65535]

Constants16 ==
    [OFP_ERROR_EXPERIMENTER_MSG |-> P(<<2, 2, 4>>, 16),
     OFP_EXPERIMENTER_HEADER |-> P(<<4, 4>>, 16)]

Constants17 ==
    [OFPHET_VERSIONBITMAP |-> 1, OFP_HELLO_ELEM_VERSIONBITMAP_HEADER |-> P(<<2, 2>>, 4)]

Constants18 ==
    [OFP_PROP_EXPERIMENTER |-> P(<<2, 2, 4, 4>>, 12)]

Constants ==
    Constants1 @@ Constants2 @@ Constants3 @@ Constants4 @@ Constants5 @@ Constants6
    @@ Constants7 @@ Constants8 @@ Constants9 @@ Constants10 @@ Constants11 @@ Constants12
    @@ Constants13 @@ Constants14 @@ Constants15 @@ Constants16 @@ Constants17
    @@ Constants18

----------------------------------------------------------------------------
\* OFPMultipartRequest and OFPMultipartReply: a type, flags and a body, which
\* the reply's parser reads to the end of the message.
MpRequest(K, type, parts) ==
    Sub(Request(K.OFPT_MULTIPART_REQUEST, <<Body(K.OFP_MULTIPART_REQUEST, <<"type", "flags">>)>> \o parts),
        "type", type)
MpReplyOf(K, type, part) ==
    Sub(Reply(K.OFPT_MULTIPART_REPLY, <<Body(K.OFP_MULTIPART_REPLY, <<"type", "flags">>), part>>),
        "type", type)
MpReply(K, type, of) == MpReplyOf(K, type, Each(of))
MpReplyOne(K, type, of) == MpReplyOf(K, type, First(of))

\* OFPPropBase and OFPPropCommonExperimenter4ByteData: built in a buffer of
\* their own, padded to 8; the length leaves the padding out.
PropOf(fam, type, parts) ==
    Prop(fam, type, <<Raw(<<2, 2>>, <<"type", "length">>)>> \o parts)
PropExperimenter(K, fam, type) ==
    Prop(fam, type,
         <<Fix(K.OFP_PROP_EXPERIMENTER, <<"type", "length", "experimenter", "exp_type">>),
           App(Each("exp_data"))>>)
exp_data == Struct("exp_data", <<Raw(<<4>>, <<"data">>)>>)

\* OFPQueueProp: a header, then the property in what is left of its SIZE.
QueueProp(K, property, p, names, parts) ==
    Class("OFPQueueProp", [property |-> property], "len", "whole", 1,
          <<Fix(K.OFP_QUEUE_PROP_HEADER, <<"property", "len">>),
            Fix(P(p.fmt, p.size - K.OFP_QUEUE_PROP_HEADER.size), names)>> \o parts)

OxmTypes ==
    [in_port |-> OpenFlowBasic(0, 4), in_phy_port |-> OpenFlowBasic(1, 4),
     metadata |-> OpenFlowBasic(2, 8), eth_dst |-> OpenFlowBasic(3, 6),
     eth_src |-> OpenFlowBasic(4, 6), eth_type |-> OpenFlowBasic(5, 2),
     vlan_vid |-> OpenFlowBasic(6, 2), vlan_pcp |-> OpenFlowBasic(7, 1),
     ip_dscp |-> OpenFlowBasic(8, 1), ip_ecn |-> OpenFlowBasic(9, 1),
     ip_proto |-> OpenFlowBasic(10, 1), ipv4_src |-> OpenFlowBasic(11, 4),
     ipv4_dst |-> OpenFlowBasic(12, 4), tcp_src |-> OpenFlowBasic(13, 2),
     tcp_dst |-> OpenFlowBasic(14, 2), udp_src |-> OpenFlowBasic(15, 2),
     udp_dst |-> OpenFlowBasic(16, 2), sctp_src |-> OpenFlowBasic(17, 2),
     sctp_dst |-> OpenFlowBasic(18, 2), icmpv4_type |-> OpenFlowBasic(19, 1),
     icmpv4_code |-> OpenFlowBasic(20, 1), arp_op |-> OpenFlowBasic(21, 2),
     arp_spa |-> OpenFlowBasic(22, 4), arp_tpa |-> OpenFlowBasic(23, 4),
     arp_sha |-> OpenFlowBasic(24, 6), arp_tha |-> OpenFlowBasic(25, 6),
     ipv6_src |-> OpenFlowBasic(26, 16), ipv6_dst |-> OpenFlowBasic(27, 16),
     ipv6_flabel |-> OpenFlowBasic(28, 4), icmpv6_type |-> OpenFlowBasic(29, 1),
     icmpv6_code |-> OpenFlowBasic(30, 1), ipv6_nd_target |-> OpenFlowBasic(31, 16),
     ipv6_nd_sll |-> OpenFlowBasic(32, 6), ipv6_nd_tll |-> OpenFlowBasic(33, 6),
     mpls_label |-> OpenFlowBasic(34, 4), mpls_tc |-> OpenFlowBasic(35, 1),
     mpls_bos |-> OpenFlowBasic(36, 1), pbb_isid |-> OpenFlowBasic(37, 3),
     tunnel_id |-> OpenFlowBasic(38, 8), ipv6_exthdr |-> OpenFlowBasic(39, 2),
     pbb_uca |-> OldONFExperimenter(2560, 1), tcp_flags |-> OpenFlowBasic(40, 2),
     actset_output |-> ONFExperimenter(43, 4)]
    @@ NxOxmTypes @@ BebaOxmTypes

FromOFPHello(K) ==
    [OFPHello |-> Reply(K.OFPT_HELLO, <<Each("OFPHelloElem")>>),
     OFPHelloElemVersionBitmap |-> Class("OFPHelloElem", [type |-> K.OFPHET_VERSIONBITMAP],
        "length", "whole", 1,
        <<Fix(K.OFP_HELLO_ELEM_VERSIONBITMAP_HEADER, <<"type", "length">>), Each("bitmap")>>),
     bitmap |-> Struct("bitmap", <<Raw(<<4>>, <<"bitmap">>)>>)]

FromOFPErrorMsg(K) ==
    [OFPErrorMsg |-> Msg(K.OFPT_ERROR, <<Body(K.OFP_ERROR_MSG, <<"type", "code">>), Data>>),
     OFPErrorExperimenterMsg |-> Sub(Msg(K.OFPT_ERROR,
        <<Body(K.OFP_ERROR_EXPERIMENTER_MSG, <<"type", "exp_type", "experimenter">>), Data>>),
        "type", K.OFPET_EXPERIMENTER),
     OFPEchoRequest |-> Msg(K.OFPT_ECHO_REQUEST, <<Data>>)]

FromOFPEchoReply(K) ==
    [OFPEchoReply |-> Msg(K.OFPT_ECHO_REPLY, <<Data>>),
     OFPExperimenter |-> Msg(K.OFPT_EXPERIMENTER,
        <<Body(K.OFP_EXPERIMENTER_HEADER, <<"experimenter", "exp_type">>), Data>>),
     OFPFeaturesRequest |-> Request(K.OFPT_FEATURES_REQUEST, <<>>)]

FromOFPSwitchFeatures(K) ==
    [OFPSwitchFeatures |-> Reply(K.OFPT_FEATURES_REPLY,
        <<Body(K.OFP_SWITCH_FEATURES, <<"datapath_id", "n_buffers", "n_tables",
            "auxiliary_id", "capabilities", "reserved">>)>>),
     OFPGetConfigRequest |-> Request(K.OFPT_GET_CONFIG_REQUEST, <<>>),
     OFPGetConfigReply |-> Reply(K.OFPT_GET_CONFIG_REPLY,
        <<Body(K.OFP_SWITCH_CONFIG, <<"flags", "miss_send_len">>)>>)]

FromOFPSetConfig(K) ==
    [OFPSetConfig |-> Request(K.OFPT_SET_CONFIG,
        <<Body(K.OFP_SWITCH_CONFIG, <<"flags", "miss_send_len">>)>>)]

FromOFPMatch(K) ==
    [OFPMatch |-> Prop("OFPMatch", K.OFPMT_OXM, <<Raw(<<2, 2>>, <<"type", "length">>),
            Each("oxm")>>)]

FromOFPPacketIn(K) ==
    [OFPPacketIn |-> Reply(K.OFPT_PACKET_IN,
        <<Abs(K.OFP_PACKET_IN.fmt, <<"buffer_id", "total_len", "reason", "table_id",
            "cookie">>,
              K.OFP_PACKET_IN.size - K.OFP_MATCH.size),
          One("OFPMatch"), Raw(<<-2>>, <<>>), Data>>)]

FromOFPFlowRemoved(K) ==
    [OFPFlowRemoved |-> Reply(K.OFPT_FLOW_REMOVED,
        <<Abs(K.OFP_FLOW_REMOVED.fmt, <<"cookie", "priority", "reason", "table_id",
            "duration_sec",
              "duration_nsec", "idle_timeout", "hard_timeout", "packet_count", "byte_count">>,
              K.OFP_FLOW_REMOVED.size - K.OFP_MATCH.size), One("OFPMatch")>>)]

FromOFPPort(K) ==
    [OFPPort |-> Struct("OFPPort",
        <<Fix(K.OFP_PORT, <<"port_no", "hw_addr", "name", "config", "state", "curr",
            "advertised", "supported", "peer", "curr_speed", "max_speed">>)>>),
     OFPPortStatus |-> Reply(K.OFPT_PORT_STATUS,
        <<Abs(SubSeq(K.OFP_PORT_STATUS.fmt, 1, 2), <<"reason">>,
            K.OFP_PORT_STATUS_DESC_OFFSET), One("OFPPort")>>)]

FromOFPPacketOut(K) ==
    [OFPPacketOut |-> Ordered(Request(K.OFPT_PACKET_OUT,
        <<Body(K.OFP_PACKET_OUT, <<"buffer_id", "in_port", "actions_len">>),
          EachIn("OFPAction", "actions_len"), Data>>), <<2, 3, 1>>)]

FromOFPFlowMod(K) ==
    [OFPFlowMod |-> Request(K.OFPT_FLOW_MOD,
        <<Abs(K.OFP_FLOW_MOD.fmt, <<"cookie", "cookie_mask", "table_id", "command",
            "idle_timeout",
              "hard_timeout", "priority", "buffer_id", "out_port", "out_group", "flags">>,
              K.OFP_FLOW_MOD.size - K.OFP_MATCH.size), One("OFPMatch"),
            Each("OFPInstruction")>>)]

FromOFPInstructionGotoTable(K) ==
    [OFPInstructionGotoTable |-> Elem("OFPInstruction", K.OFPIT_GOTO_TABLE,
        <<Fix(K.OFP_INSTRUCTION_GOTO_TABLE, <<"type", "len", "table_id">>)>>),
     OFPInstructionWriteMetadata |-> Elem("OFPInstruction", K.OFPIT_WRITE_METADATA,
        <<Fix(K.OFP_INSTRUCTION_WRITE_METADATA, <<"type", "len", "metadata",
            "metadata_mask">>)>>)]
    @@
    [t \in {"OFPIT_WRITE_ACTIONS", "OFPIT_APPLY_ACTIONS", "OFPIT_CLEAR_ACTIONS"} |->
        Elem("OFPInstruction", K[t],
        <<Fix(K.OFP_INSTRUCTION_ACTIONS, <<"type", "len">>), Each("OFPAction")>>)]

FromOFPInstructionMeter(K) ==
    [OFPInstructionMeter |-> Elem("OFPInstruction", K.OFPIT_METER,
        <<Fix(K.OFP_INSTRUCTION_METER, <<"type", "len", "meter_id">>)>>),
     OFPActionOutput |-> Elem("OFPAction", K.OFPAT_OUTPUT,
        <<Fix(K.OFP_ACTION_OUTPUT, <<"type", "len", "port", "max_len">>)>>),
     OFPActionGroup |-> Elem("OFPAction", K.OFPAT_GROUP,
        <<Fix(K.OFP_ACTION_GROUP, <<"type", "len", "group_id">>)>>)]

FromOFPActionSetQueue(K) ==
    [OFPActionSetQueue |-> Elem("OFPAction", K.OFPAT_SET_QUEUE,
        <<Fix(K.OFP_ACTION_SET_QUEUE, <<"type", "len", "queue_id">>)>>),
     OFPActionSetMplsTtl |-> Elem("OFPAction", K.OFPAT_SET_MPLS_TTL,
        <<Fix(K.OFP_ACTION_MPLS_TTL, <<"type", "len", "mpls_ttl">>)>>),
     OFPActionDecMplsTtl |-> Elem("OFPAction", K.OFPAT_DEC_MPLS_TTL,
        <<Fix(K.OFP_ACTION_HEADER, <<"type", "len">>)>>),
     OFPActionSetNwTtl |-> Elem("OFPAction", K.OFPAT_SET_NW_TTL,
        <<Fix(K.OFP_ACTION_NW_TTL, <<"type", "len", "nw_ttl">>)>>),
     OFPActionDecNwTtl |-> Elem("OFPAction", K.OFPAT_DEC_NW_TTL,
        <<Fix(K.OFP_ACTION_HEADER, <<"type", "len">>)>>),
     OFPActionCopyTtlOut |-> Elem("OFPAction", K.OFPAT_COPY_TTL_OUT,
        <<Fix(K.OFP_ACTION_HEADER, <<"type", "len">>)>>)]

FromOFPActionCopyTtlIn(K) ==
    [OFPActionCopyTtlIn |-> Elem("OFPAction", K.OFPAT_COPY_TTL_IN,
        <<Fix(K.OFP_ACTION_HEADER, <<"type", "len">>)>>),
     OFPActionPushVlan |-> Elem("OFPAction", K.OFPAT_PUSH_VLAN,
        <<Fix(K.OFP_ACTION_PUSH, <<"type", "len", "ethertype">>)>>),
     OFPActionPushMpls |-> Elem("OFPAction", K.OFPAT_PUSH_MPLS,
        <<Fix(K.OFP_ACTION_PUSH, <<"type", "len", "ethertype">>)>>),
     OFPActionPopVlan |-> Elem("OFPAction", K.OFPAT_POP_VLAN,
        <<Fix(K.OFP_ACTION_HEADER, <<"type", "len">>)>>),
     OFPActionPopMpls |-> Elem("OFPAction", K.OFPAT_POP_MPLS,
        <<Fix(K.OFP_ACTION_POP_MPLS, <<"type", "len", "ethertype">>)>>)]

FromOFPActionSetField(K) ==
    [OFPActionSetField |-> Elem("OFPAction", K.OFPAT_SET_FIELD, <<Raw(<<2, 2>>, <<"type",
            "len">>), One("oxm")>>),
     OFPActionPushPbb |-> Elem("OFPAction", K.OFPAT_PUSH_PBB,
        <<Fix(K.OFP_ACTION_PUSH, <<"type", "len", "ethertype">>)>>)]

FromOFPActionPopPbb(K) ==
    [OFPActionPopPbb |-> Elem("OFPAction", K.OFPAT_POP_PBB,
        <<Fix(K.OFP_ACTION_HEADER, <<"type", "len">>)>>),
     OFPActionExperimenterUnknown |-> [Elem("OFPAction", K.OFPAT_EXPERIMENTER,
        <<Fix(K.OFP_ACTION_EXPERIMENTER_HEADER, <<"type", "len", "experimenter">>),
            At(Data)>>)
            EXCEPT !.pads = FALSE, !.grain = 8],
     OFPBucket |-> [Class("OFPBucket", <<>>, "len", "whole", 8,
        <<Fix(K.OFP_BUCKET, <<"len", "weight", "watch_port", "watch_group">>),
            Each("OFPAction")>>)
            EXCEPT !.pads = FALSE]]

FromOFPGroupMod(K) ==
    [OFPGroupMod |-> Request(K.OFPT_GROUP_MOD,
        <<Body(K.OFP_GROUP_MOD, <<"command", "type", "group_id">>), Each("OFPBucket")>>),
     OFPPortMod |-> Request(K.OFPT_PORT_MOD,
        <<Body(K.OFP_PORT_MOD, <<"port_no", "hw_addr", "config", "mask", "advertise">>)>>)]

FromOFPMeterMod(K) ==
    [OFPMeterMod |-> Request(K.OFPT_METER_MOD,
        <<Body(K.OFP_METER_MOD, <<"command", "flags", "meter_id">>),
            Each("OFPMeterBandHeader")>>),
     OFPTableMod |-> Request(K.OFPT_TABLE_MOD, <<Body(K.OFP_TABLE_MOD, <<"table_id",
            "config">>)>>)]

FromOFPDescStats(K) ==
    [OFPDescStats |-> Struct("OFPDescStats",
        <<Fix(K.OFP_DESC, <<"mfr_desc", "hw_desc", "sw_desc", "serial_num", "dp_desc">>)>>),
     OFPDescStatsRequest |-> MpRequest(K, K.OFPMP_DESC, <<>>),
     OFPDescStatsReply |-> MpReplyOne(K, K.OFPMP_DESC, "OFPDescStats"),
     OFPFlowStats |-> Sized("OFPFlowStats", "length",
        <<Fix(K.OFP_FLOW_STATS_0, <<"length", "table_id", "duration_sec", "duration_nsec",
            "priority", "idle_timeout",
              "hard_timeout", "flags", "cookie", "packet_count", "byte_count">>),
          One("OFPMatch"), Each("OFPInstruction")>>)]

FromOFPFlowStatsRequest(K) ==
    [OFPFlowStatsRequest |-> MpRequest(K, K.OFPMP_FLOW,
        <<Fix(K.OFP_FLOW_STATS_REQUEST_0, <<"table_id", "out_port", "out_group", "cookie",
            "cookie_mask">>),
          One("OFPMatch")>>),
     OFPFlowStatsReply |-> MpReply(K, K.OFPMP_FLOW, "OFPFlowStats"),
     OFPAggregateStats |-> Struct("OFPAggregateStats",
        <<Fix(K.OFP_AGGREGATE_STATS_REPLY, <<"packet_count", "byte_count", "flow_count">>)>>),
     OFPAggregateStatsRequest |-> MpRequest(K, K.OFPMP_AGGREGATE,
        <<Fix(K.OFP_FLOW_STATS_REQUEST_0, <<"table_id", "out_port", "out_group", "cookie",
            "cookie_mask">>),
          One("OFPMatch")>>)]

FromOFPAggregateStatsReply(K) ==
    [OFPAggregateStatsReply |-> MpReplyOne(K, K.OFPMP_AGGREGATE, "OFPAggregateStats"),
     OFPTableStats |-> Struct("OFPTableStats",
        <<Fix(K.OFP_TABLE_STATS, <<"table_id", "active_count", "lookup_count",
            "matched_count">>)>>),
     OFPTableStatsRequest |-> MpRequest(K, K.OFPMP_TABLE, <<>>),
     OFPTableStatsReply |-> MpReply(K, K.OFPMP_TABLE, "OFPTableStats"),
     OFPPortStats |-> Struct("OFPPortStats",
        <<Fix(K.OFP_PORT_STATS, <<"port_no", "rx_packets", "tx_packets", "rx_bytes",
            "tx_bytes", "rx_dropped", "tx_dropped", "rx_errors", "tx_errors", "rx_frame_err",
            "rx_over_err", "rx_crc_err", "collisions", "duration_sec", "duration_nsec">>)>>),
     OFPPortStatsRequest |-> MpRequest(K, K.OFPMP_PORT_STATS, <<Fix(K.OFP_PORT_STATS_REQUEST,
            <<"port_no">>)>>)]

FromOFPPortStatsReply(K) ==
    [OFPPortStatsReply |-> MpReply(K, K.OFPMP_PORT_STATS, "OFPPortStats"),
     OFPQueueStats |-> Struct("OFPQueueStats",
        <<Fix(K.OFP_QUEUE_STATS, <<"port_no", "queue_id", "tx_bytes", "tx_packets",
            "tx_errors", "duration_sec", "duration_nsec">>)>>),
     OFPQueueStatsRequest |-> MpRequest(K, K.OFPMP_QUEUE,
        <<Fix(K.OFP_QUEUE_STATS_REQUEST, <<"port_no", "queue_id">>)>>),
     OFPQueueStatsReply |-> MpReply(K, K.OFPMP_QUEUE, "OFPQueueStats"),
     OFPBucketCounter |-> Struct("OFPBucketCounter",
        <<Fix(K.OFP_BUCKET_COUNTER, <<"packet_count", "byte_count">>)>>)]

FromOFPGroupStats(K) ==
    [OFPGroupStats |-> Sized("OFPGroupStats", "length",
        <<Fix(K.OFP_GROUP_STATS, <<"length", "group_id", "ref_count", "packet_count",
            "byte_count",
              "duration_sec", "duration_nsec">>), Each("OFPBucketCounter")>>),
     OFPGroupStatsRequest |-> MpRequest(K, K.OFPMP_GROUP, <<Fix(K.OFP_GROUP_STATS_REQUEST,
            <<"group_id">>)>>),
     OFPGroupStatsReply |-> MpReply(K, K.OFPMP_GROUP, "OFPGroupStats"),
     OFPGroupDescStats |-> Sized("OFPGroupDescStats", "length",
        <<Fix(K.OFP_GROUP_DESC_STATS, <<"length", "type", "group_id">>), Each("OFPBucket")>>)]

FromOFPGroupDescStatsRequest(K) ==
    [OFPGroupDescStatsRequest |-> MpRequest(K, K.OFPMP_GROUP_DESC, <<>>),
     OFPGroupDescStatsReply |-> MpReply(K, K.OFPMP_GROUP_DESC, "OFPGroupDescStats"),
     OFPGroupFeaturesStats |-> Struct("OFPGroupFeaturesStats",
        <<Fix(K.OFP_GROUP_FEATURES, <<"types", "capabilities", "max_groups_0", "max_groups_1",
              "max_groups_2", "max_groups_3", "actions_0", "actions_1", "actions_2",
            "actions_3">>)>>),
     OFPGroupFeaturesStatsRequest |-> MpRequest(K, K.OFPMP_GROUP_FEATURES, <<>>),
     OFPGroupFeaturesStatsReply |-> MpReplyOne(K, K.OFPMP_GROUP_FEATURES,
            "OFPGroupFeaturesStats"),
     OFPMeterBandStats |-> Struct("OFPMeterBandStats",
        <<Fix(K.OFP_METER_BAND_STATS, <<"packet_band_count", "byte_band_count">>)>>)]

FromOFPMeterStats(K) ==
    [OFPMeterStats |-> Sized("OFPMeterStats", "len",
        <<Fix(K.OFP_METER_STATS, <<"meter_id", "len", "flow_count", "packet_in_count",
            "byte_in_count",
              "duration_sec", "duration_nsec">>), Each("OFPMeterBandStats")>>),
     OFPMeterStatsRequest |-> MpRequest(K, K.OFPMP_METER, <<Fix(K.OFP_METER_MULTIPART_REQUEST,
            <<"meter_id">>)>>),
     OFPMeterStatsReply |-> MpReply(K, K.OFPMP_METER, "OFPMeterStats")]

FromOFPMeterBandDrop(K) ==
    [OFPMeterBandDrop |-> Elem("OFPMeterBandHeader", K.OFPMBT_DROP,
        <<Fix(K.OFP_METER_BAND_DROP, <<"type", "len", "rate", "burst_size">>)>>),
     OFPMeterBandDscpRemark |-> Elem("OFPMeterBandHeader", K.OFPMBT_DSCP_REMARK,
        <<Fix(K.OFP_METER_BAND_DSCP_REMARK, <<"type", "len", "rate", "burst_size",
            "prec_level">>)>>),
     OFPMeterBandExperimenter |-> Elem("OFPMeterBandHeader", K.OFPMBT_EXPERIMENTER,
        <<Fix(K.OFP_METER_BAND_EXPERIMENTER, <<"type", "len", "rate", "burst_size",
            "experimenter">>)>>),
     OFPMeterConfigStats |-> Sized("OFPMeterConfigStats", "length",
        <<Fix(K.OFP_METER_CONFIG, <<"length", "flags", "meter_id">>),
            Each("OFPMeterBandHeader")>>),
     OFPMeterConfigStatsRequest |-> MpRequest(K, K.OFPMP_METER_CONFIG,
        <<Fix(K.OFP_METER_MULTIPART_REQUEST, <<"meter_id">>)>>)]

FromOFPMeterConfigStatsReply(K) ==
    [OFPMeterConfigStatsReply |-> MpReply(K, K.OFPMP_METER_CONFIG, "OFPMeterConfigStats"),
     OFPMeterFeaturesStats |-> Struct("OFPMeterFeaturesStats",
        <<Fix(K.OFP_METER_FEATURES, <<"max_meter", "band_types", "capabilities", "max_bands",
            "max_color">>)>>),
     OFPMeterFeaturesStatsRequest |-> MpRequest(K, K.OFPMP_METER_FEATURES, <<>>),
     OFPMeterFeaturesStatsReply |-> MpReply(K, K.OFPMP_METER_FEATURES, "OFPMeterFeaturesStats")]

FromOFPTableFeaturesStats(K) ==
    [OFPTableFeaturesStats |-> Sized("OFPTableFeaturesStats", "length",
        <<Fix(K.OFP_TABLE_FEATURES, <<"length", "table_id", "name", "metadata_match",
            "metadata_write",
              "config", "max_entries">>), App(Each("OFPTableFeatureProp"))>>),
     OFPInstructionId |-> Sized("OFPInstructionId", "len", <<Raw(<<2, 2>>, <<"type",
            "len">>)>>)]
    @@
    [t \in {"OFPTFPT_INSTRUCTIONS", "OFPTFPT_INSTRUCTIONS_MISS"} |->
        PropOf("OFPTableFeatureProp", K[t], <<App(Each("OFPInstructionId"))>>)]

FromOFPTableFeaturePropNextTables(K) ==
    [table_id |-> Struct("table_id", <<Raw(<<1>>, <<"table_id">>)>>),
     OFPActionId |-> Sized("OFPActionId", "len", <<Raw(<<2, 2>>, <<"type", "len">>)>>)]
    @@
    [t \in {"OFPTFPT_NEXT_TABLES", "OFPTFPT_NEXT_TABLES_MISS"} |->
        PropOf("OFPTableFeatureProp", K[t], <<App(Each("table_id"))>>)]
    @@
    [t \in {"OFPTFPT_WRITE_ACTIONS", "OFPTFPT_WRITE_ACTIONS_MISS", "OFPTFPT_APPLY_ACTIONS",
            "OFPTFPT_APPLY_ACTIONS_MISS"} |->
        PropOf("OFPTableFeatureProp", K[t], <<App(Each("OFPActionId"))>>)]

FromOFPOxmId(K) ==
    [OFPOxmId |-> Struct("OFPOxmId", <<Raw(<<4>>, <<"oxm">>)>>),
     OFPExperimenterOxmId |-> ReadOnly(Sub(Struct("OFPOxmId",
        <<Raw(<<2, 2, 4>>, <<"class", "field", "exp_id">>)>>), "class", OFPXXC_EXPERIMENTER)),
     OFPTableFeaturesStatsRequest |-> MpRequest(K, K.OFPMP_TABLE_FEATURES,
            <<App(Each("OFPTableFeaturesStats"))>>),
     OFPTableFeaturesStatsReply |-> MpReply(K, K.OFPMP_TABLE_FEATURES, "OFPTableFeaturesStats")]
    @@
    [t \in {"OFPTFPT_MATCH", "OFPTFPT_WILDCARDS", "OFPTFPT_WRITE_SETFIELD",
            "OFPTFPT_WRITE_SETFIELD_MISS", "OFPTFPT_APPLY_SETFIELD",
            "OFPTFPT_APPLY_SETFIELD_MISS"} |->
        PropOf("OFPTableFeatureProp", K[t], <<App(Each("OFPOxmId"))>>)]
    @@
    [t \in {"OFPTFPT_EXPERIMENTER", "OFPTFPT_EXPERIMENTER_MISS"} |->
        PropExperimenter(K, "OFPTableFeatureProp", K[t])]

FromOFPPortDescStatsRequest(K) ==
    [OFPPortDescStatsRequest |-> MpRequest(K, K.OFPMP_PORT_DESC, <<>>),
     OFPPortDescStatsReply |-> MpReply(K, K.OFPMP_PORT_DESC, "OFPPort"),
     OFPExperimenterMultipart |-> [Struct("OFPExperimenterMultipart",
        <<Fix(K.OFP_EXPERIMENTER_MULTIPART_HEADER, <<"experimenter", "exp_type">>), Data>>)
            EXCEPT !.adv = K.OFP_METER_FEATURES.size],
     OFPExperimenterStatsRequest |-> MpRequest(K, K.OFPMP_EXPERIMENTER,
        <<App(One("OFPExperimenterMultipart"))>>)]

FromONFFlowMonitorRequest(K) ==
    [ONFFlowMonitorRequest |-> Class("ONFFlowMonitorRequest", <<>>, "", "whole", 8,
        <<Fix(K.ONF_FLOW_MONITOR_REQUEST, <<"id", "flags", "match_len", "out_port",
            "table_id">>),
          EachIn("oxm", "match_len")>>),
     ONFFlowMonitorStatsRequest |-> MpRequest(K, K.OFPMP_EXPERIMENTER,
        <<Fix(K.OFP_EXPERIMENTER_MULTIPART_HEADER, <<"experimenter", "exp_type">>),
          App(Each("ONFFlowMonitorRequest"))>>),
     OFPExperimenterStatsReply |-> MpReplyOne(K, K.OFPMP_EXPERIMENTER,
            "OFPExperimenterMultipart"),
     OFPBarrierRequest |-> Request(K.OFPT_BARRIER_REQUEST, <<>>),
     OFPBarrierReply |-> Reply(K.OFPT_BARRIER_REPLY, <<>>),
     OFPQueueGetConfigRequest |-> Request(K.OFPT_QUEUE_GET_CONFIG_REQUEST,
        <<Body(K.OFP_QUEUE_GET_CONFIG_REQUEST, <<"port">>)>>)]

FromOFPQueuePropMinRate(K) ==
    [OFPQueuePropMinRate |-> QueueProp(K, K.OFPQT_MIN_RATE, K.OFP_QUEUE_PROP_MIN_RATE,
            <<"rate">>, <<>>),
     OFPQueuePropMaxRate |-> QueueProp(K, K.OFPQT_MAX_RATE, K.OFP_QUEUE_PROP_MAX_RATE,
            <<"rate">>, <<>>),
     OFPQueuePropExperimenter |-> QueueProp(K, K.OFPQT_EXPERIMENTER,
            K.OFP_QUEUE_PROP_EXPERIMENTER,
        <<"experimenter">>, <<Data>>),
     OFPPacketQueue |-> Sized("OFPPacketQueue", "len",
        <<Fix(K.OFP_PACKET_QUEUE, <<"queue_id", "port", "len">>), Each("OFPQueueProp")>>),
     OFPQueueGetConfigReply |-> Reply(K.OFPT_QUEUE_GET_CONFIG_REPLY,
        <<Body(K.OFP_QUEUE_GET_CONFIG_REPLY, <<"port">>), Each("OFPPacketQueue")>>)]

FromOFPRoleRequest(K) ==
    [OFPRoleRequest |-> Request(K.OFPT_ROLE_REQUEST,
        <<Body(K.OFP_ROLE_REQUEST, <<"role", "generation_id">>)>>),
     OFPRoleReply |-> Reply(K.OFPT_ROLE_REPLY,
        <<Body(K.OFP_ROLE_REQUEST, <<"role", "generation_id">>)>>),
     OFPGetAsyncRequest |-> Request(K.OFPT_GET_ASYNC_REQUEST, <<>>)]

FromOFPGetAsyncReply(K) ==
    [OFPGetAsyncReply |-> Reply(K.OFPT_GET_ASYNC_REPLY,
        <<Body(K.OFP_ASYNC_CONFIG, <<"packet_in_mask_m", "packet_in_mask_s",
            "port_status_mask_m", "port_status_mask_s", "flow_removed_mask_m",
            "flow_removed_mask_s">>)>>),
     OFPSetAsync |-> Request(K.OFPT_SET_ASYNC,
        <<Body(K.OFP_ASYNC_CONFIG, <<"packet_in_mask_0", "packet_in_mask_1",
            "port_status_mask_0", "port_status_mask_1", "flow_removed_mask_0",
            "flow_removed_mask_1">>)>>)]

Classes(K) ==
    FromOFPHello(K) @@ FromOFPErrorMsg(K) @@ FromOFPEchoReply(K) @@ FromOFPSwitchFeatures(K)
    @@ FromOFPSetConfig(K) @@ FromOFPMatch(K) @@ FromOFPPacketIn(K) @@ FromOFPFlowRemoved(K)
    @@ FromOFPPort(K) @@ FromOFPPacketOut(K) @@ FromOFPFlowMod(K) @@ FromOFPInstructionGotoTable(K)
    @@ FromOFPInstructionMeter(K) @@ FromOFPActionSetQueue(K) @@ FromOFPActionCopyTtlIn(K)
    @@ FromOFPActionSetField(K) @@ FromOFPActionPopPbb(K) @@ FromOFPGroupMod(K) @@ FromOFPMeterMod(K)
    @@ FromOFPDescStats(K) @@ FromOFPFlowStatsRequest(K) @@ FromOFPAggregateStatsReply(K)
    @@ FromOFPPortStatsReply(K) @@ FromOFPGroupStats(K) @@ FromOFPGroupDescStatsRequest(K)
    @@ FromOFPMeterStats(K) @@ FromOFPMeterBandDrop(K) @@ FromOFPMeterConfigStatsReply(K)
    @@ FromOFPTableFeaturesStats(K) @@ FromOFPTableFeaturePropNextTables(K) @@ FromOFPOxmId(K)
    @@ FromOFPPortDescStatsRequest(K) @@ FromONFFlowMonitorRequest(K) @@ FromOFPQueuePropMinRate(K)
    @@ FromOFPRoleRequest(K) @@ FromOFPGetAsyncReply(K) @@ OxmClasses(OxmTypes)
    @@ [exp_data |-> exp_data] @@ NXActions(K.OFPAT_EXPERIMENTER)

Protocol == Version(4, Classes(Constants))

============================================================================
