------------------------------ MODULE OFP12 -------------------------------
(***************************************************************************)
(* OpenFlow 1.2: the constants of ryu/ofproto/ofproto_v1_2.py and the      *)
(* classes of ryu/ofproto/ofproto_v1_2_parser.py, in the order of the      *)
(* source.                                                                 *)
(***************************************************************************)
EXTENDS Oxx

Constants1 ==
    [OFPT_HELLO |-> 0, OFPT_ERROR |-> 1, OFPT_ECHO_REQUEST |-> 2, OFPT_ECHO_REPLY |-> 3,
     OFPT_EXPERIMENTER |-> 4, OFPT_FEATURES_REQUEST |-> 5, OFPT_FEATURES_REPLY |-> 6,
     OFPT_GET_CONFIG_REQUEST |-> 7, OFPT_GET_CONFIG_REPLY |-> 8, OFPT_SET_CONFIG |-> 9,
     OFPT_PACKET_IN |-> 10, OFPT_FLOW_REMOVED |-> 11, OFPT_PORT_STATUS |-> 12,
     OFPT_PACKET_OUT |-> 13, OFPT_FLOW_MOD |-> 14, OFPT_GROUP_MOD |-> 15,
     OFPT_PORT_MOD |-> 16, OFPT_TABLE_MOD |-> 17, OFPT_STATS_REQUEST |-> 18,
     OFPT_STATS_REPLY |-> 19, OFPT_BARRIER_REQUEST |-> 20, OFPT_BARRIER_REPLY |-> 21,
     OFPT_QUEUE_GET_CONFIG_REQUEST |-> 22, OFPT_QUEUE_GET_CONFIG_REPLY |-> 23,
     OFPT_ROLE_REQUEST |-> 24, OFPT_ROLE_REPLY |-> 25,
     OFP_PORT |-> P(<<4, -4, 6, -2, 16, 4, 4, 4, 4, 4, 4, 4, 4>>, 64)]

Constants2 ==
    [OFP_PACKET_QUEUE |-> P(<<4, 4, 2, -6>>, 16), OFPQT_MIN_RATE |-> 1, OFPQT_MAX_RATE |-> 2,
     OFP_QUEUE_PROP_HEADER |-> P(<<2, 2, -4>>, 8),
     OFP_QUEUE_PROP_MIN_RATE |-> P(<<2, -6>>, 16),
     OFP_QUEUE_PROP_MAX_RATE |-> P(<<2, -6>>, 16), OFP_MATCH |-> P(<<2, 2, 1, 1, 1, 1>>, 8),
     OFPMT_OXM |-> 1]

Constants3 ==
    [OFPIT_GOTO_TABLE |-> 1, OFPIT_WRITE_METADATA |-> 2, OFPIT_WRITE_ACTIONS |-> 3,
     OFPIT_APPLY_ACTIONS |-> 4, OFPIT_CLEAR_ACTIONS |-> 5,
     OFP_INSTRUCTION_GOTO_TABLE |-> P(<<2, 2, 1, -3>>, 8),
     OFP_INSTRUCTION_WRITE_METADATA |-> P(<<2, 2, -4, 8, 8>>, 24),
     OFP_INSTRUCTION_ACTIONS |-> P(<<2, 2, -4>>, 8), OFPAT_OUTPUT |-> 0,
     OFPAT_COPY_TTL_OUT |-> 11, OFPAT_COPY_TTL_IN |-> 12, OFPAT_SET_MPLS_TTL |-> 15,
     OFPAT_DEC_MPLS_TTL |-> 16, OFPAT_PUSH_VLAN |-> 17, OFPAT_POP_VLAN |-> 18,
     OFPAT_PUSH_MPLS |-> 19, OFPAT_POP_MPLS |-> 20, OFPAT_SET_QUEUE |-> 21,
     OFPAT_GROUP |-> 22, OFPAT_SET_NW_TTL |-> 23, OFPAT_DEC_NW_TTL |-> 24,
     OFPAT_SET_FIELD |-> 25, OFPAT_EXPERIMENTER |-> 65535,
     OFP_ACTION_HEADER |-> P(<<2, 2, -4>>, 8),
     OFP_ACTION_OUTPUT |-> P(<<2, 2, 4, 2, -6>>, 16), OFP_ACTION_GROUP |-> P(<<2, 2, 4>>, 8),
     OFP_ACTION_SET_QUEUE |-> P(<<2, 2, 4>>, 8),
     OFP_ACTION_MPLS_TTL |-> P(<<2, 2, 1, -3>>, 8),
     OFP_ACTION_NW_TTL |-> P(<<2, 2, 1, -3>>, 8), OFP_ACTION_PUSH |-> P(<<2, 2, 2, -2>>, 8),
     OFP_ACTION_POP_MPLS |-> P(<<2, 2, 2, -2>>, 8),
     OFP_ACTION_EXPERIMENTER_HEADER |-> P(<<2, 2, 4>>, 8),
     OFP_SWITCH_FEATURES |-> P(<<8, 4, 1, -3, 4, 4>>, 32)]

Constants4 ==
    [OFP_SWITCH_CONFIG |-> P(<<2, 2>>, 12)]

Constants5 ==
    [OFP_TABLE_MOD |-> P(<<1, -3, 4>>, 16)]

Constants6 ==
    [OFP_FLOW_MOD |-> P(<<8, 8, 1, 1, 2, 2, 2, 4, 4, 4, 2, -2>>, 56)]

Constants7 ==
    [OFP_GROUP_MOD |-> P(<<2, 1, -1, 4>>, 16)]

Constants8 ==
    [OFP_BUCKET |-> P(<<2, 2, 4, 4, -4>>, 16),
     OFP_PORT_MOD |-> P(<<4, -4, 6, -2, 4, 4, 4, -4>>, 40),
     OFP_STATS_REQUEST |-> P(<<2, 2, -4>>, 16), OFP_STATS_REPLY |-> P(<<2, 2, -4>>, 16),
     OFPST_DESC |-> 0, OFPST_FLOW |-> 1, OFPST_AGGREGATE |-> 2, OFPST_TABLE |-> 3,
     OFPST_PORT |-> 4, OFPST_QUEUE |-> 5, OFPST_GROUP |-> 6, OFPST_GROUP_DESC |-> 7,
     OFPST_GROUP_FEATURES |-> 8, OFP_DESC_STATS |-> P(<<256, 256, 256, 32, 256>>, 1056),
     OFP_FLOW_STATS_REQUEST |-> P(<<1, -3, 4, 4, -4, 8, 8>>, 40),
     OFP_FLOW_STATS |-> P(<<2, 1, -1, 4, 4, 2, 2, 2, -6, 8, 8, 8>>, 56),
     OFP_AGGREGATE_STATS_REQUEST |-> P(<<1, -3, 4, 4, -4, 8, 8>>, 40),
     OFP_AGGREGATE_STATS_REPLY |-> P(<<8, 8, 4, -4>>, 24),
     OFP_TABLE_STATS |-> P(<<1, -7, 32, 8, 8, 4, 4, 8, 8, 8, 8, 4, 4, 4, 4, 8, 8>>, 128),
     OFP_PORT_STATS_REQUEST |-> P(<<4, -4>>, 8),
     OFP_PORT_STATS |-> P(<<4, -4, 8, 8, 8, 8, 8, 8, 8, 8, 8, 8, 8, 8>>, 104),
     OFP_QUEUE_STATS_REQUEST |-> P(<<4, 4>>, 8),
     OFP_QUEUE_STATS |-> P(<<4, 4, 8, 8, 8>>, 32),
     OFP_GROUP_STATS_REQUEST |-> P(<<4, -4>>, 8),
     OFP_GROUP_STATS |-> P(<<2, -2, 4, 4, -4, 8, 8>>, 32),
     OFP_BUCKET_COUNTER |-> P(<<8, 8>>, 16), OFP_GROUP_DESC_STATS |-> P(<<2, 1, -1, 4>>, 8),
     OFP_GROUP_FEATURES_STATS |-> P(<<4, 4, 4, 4, 4, 4, 4, 4, 4, 4>>, 40)]

Constants9 ==
    [OFP_QUEUE_GET_CONFIG_REQUEST |-> P(<<4, -4>>, 16),
     OFP_QUEUE_GET_CONFIG_REPLY |-> P(<<4, -4>>, 16),
     OFP_PACKET_OUT |-> P(<<4, 4, 2, -6>>, 24), OFP_ROLE_REQUEST |-> P(<<4, -4, 8>>, 24),
     OFP_PACKET_IN |-> P(<<4, 2, 1, 1>>, 24)]

Constants10 ==
    [OFP_FLOW_REMOVED |-> P(<<8, 2, 1, 1, 4, 4, 2, 2, 8, 8>>, 56),
     OFP_PORT_STATUS |-> P(<<1, -7, 4, -4, 6, -2, 16, 4, 4, 4, 4, 4, 4, 4, 4>>, 80),
     OFP_PORT_STATUS_DESC_OFFSET |-> 16, OFP_ERROR_MSG |-> P(<<2, 2>>, 12)]

Constants11 ==
    [OFPET_EXPERIMENTER |-> 65535]

Constants12 ==
    [OFP_ERROR_EXPERIMENTER_MSG |-> P(<<2, 2, 4>>, 16),
     OFP_EXPERIMENTER_HEADER |-> P(<<4, 4>>, 16)]

Constants ==
    Constants1 @@ Constants2 @@ Constants3 @@ Constants4 @@ Constants5 @@ Constants6
    @@ Constants7 @@ Constants8 @@ Constants9 @@ Constants10 @@ Constants11 @@ Constants12

----------------------------------------------------------------------------
\* OFPStatsRequest and OFPStatsReply: a type, flags and a body, which
\* the reply's parser reads to the end of the message.
MpRequest(K, type, parts) ==
    Sub(Request(K.OFPT_STATS_REQUEST, <<Body(K.OFP_STATS_REQUEST, <<"type", "flags">>)>> \o parts),
        "type", type)
MpReplyOf(K, type, part) ==
    Sub(Reply(K.OFPT_STATS_REPLY, <<Body(K.OFP_STATS_REPLY, <<"type", "flags">>), part>>),
        "type", type)
MpReply(K, type, of) == MpReplyOf(K, type, Each(of))
MpReplyOne(K, type, of) == MpReplyOf(K, type, First(of))

\* OFPQueueProp: a header, then the property in what is left of its SIZE.
QueueProp(K, property, p, names, parts) ==
    Class("OFPQueueProp", [property |-> property], "len", "whole", 1,
          <<Fix(K.OFP_QUEUE_PROP_HEADER, <<"property", "len">>),
            Fix(P(p.fmt, p.size - K.OFP_QUEUE_PROP_HEADER.size), names)>> \o parts)

OxmTypes ==
    [in_port |-> OpenFlowBasic(0, 4), in_phy_port |-> OpenFlowBasic(1, 4),
     metadata |-> OpenFlowBasic(2, 8), eth_dst |-> OpenFlowBasic(3, 6),
     eth_src |-> OpenFlowBasic(4, 6), eth_type |-> OpenFlowBasic(5, 2),
     vlan_vid |-> OpenFlowBasic(6, 2), vlan_pcp |-> OpenFlowBasic(7, 1),
     ip_dscp |-> OpenFlowBasic(8, 1), ip_ecn |-> OpenFlowBasic(9, 1),
     ip_proto |-> OpenFlowBasic(10, 1), ipv4_src |-> OpenFlowBasic(11, 4),
     ipv4_dst |-> OpenFlowBasic(12, 4), tcp_src |-> OpenFlowBasic(13, 2),
     tcp_dst |-> OpenFlowBasic(14, 2), udp_src |-> OpenFlowBasic(15, 2),
     udp_dst |-> OpenFlowBasic(16, 2), sctp_src |-> OpenFlowBasic(17, 2),
     sctp_dst |-> OpenFlowBasic(18, 2), icmpv4_type |-> OpenFlowBasic(19, 1),
     icmpv4_code |-> OpenFlowBasic(20, 1), arp_op |-> OpenFlowBasic(21, 2),
     arp_spa |-> OpenFlowBasic(22, 4), arp_tpa |-> OpenFlowBasic(23, 4),
     arp_sha |-> OpenFlowBasic(24, 6), arp_tha |-> OpenFlowBasic(25, 6),
     ipv6_src |-> OpenFlowBasic(26, 16), ipv6_dst |-> OpenFlowBasic(27, 16),
     ipv6_flabel |-> OpenFlowBasic(28, 4), icmpv6_type |-> OpenFlowBasic(29, 1),
     icmpv6_code |-> OpenFlowBasic(30, 1), ipv6_nd_target |-> OpenFlowBasic(31, 16),
     ipv6_nd_sll |-> OpenFlowBasic(32, 6), ipv6_nd_tll |-> OpenFlowBasic(33, 6),
     mpls_label |-> OpenFlowBasic(34, 4), mpls_tc |-> OpenFlowBasic(35, 1),
     pbb_uca |-> OldONFExperimenter(2560, 1), tcp_flags |-> ONFExperimenter(42, 2),
     actset_output |-> ONFExperimenter(43, 4)]
    @@ NxOxmTypes

FromOFPHello(K) ==
    [OFPHello |-> Reply(K.OFPT_HELLO, <<>>),
     OFPErrorMsg |-> Msg(K.OFPT_ERROR, <<Body(K.OFP_ERROR_MSG, <<"type", "code">>), Data>>),
     OFPErrorExperimenterMsg |-> Sub(Msg(K.OFPT_ERROR,
        <<Body(K.OFP_ERROR_EXPERIMENTER_MSG, <<"type", "exp_type", "experimenter">>), Data>>),
        "type", K.OFPET_EXPERIMENTER)]

FromOFPEchoRequest(K) ==
    [OFPEchoRequest |-> Msg(K.OFPT_ECHO_REQUEST, <<Data>>),
     OFPEchoReply |-> Msg(K.OFPT_ECHO_REPLY, <<Data>>),
     OFPExperimenter |-> Msg(K.OFPT_EXPERIMENTER,
        <<Body(K.OFP_EXPERIMENTER_HEADER, <<"experimenter", "exp_type">>), Data>>)]

FromOFPPort(K) ==
    [OFPPort |-> Struct("OFPPort",
        <<Fix(K.OFP_PORT, <<"port_no", "hw_addr", "name", "config", "state", "curr",
            "advertised", "supported", "peer", "curr_speed", "max_speed">>)>>),
     OFPFeaturesRequest |-> Request(K.OFPT_FEATURES_REQUEST, <<>>),
     OFPSwitchFeatures |-> Reply(K.OFPT_FEATURES_REPLY,
        <<Body(K.OFP_SWITCH_FEATURES, <<"datapath_id", "n_buffers", "n_tables",
            "capabilities", "reserved">>),
          Each("OFPPort")>>)]

FromOFPGetConfigRequest(K) ==
    [OFPGetConfigRequest |-> Request(K.OFPT_GET_CONFIG_REQUEST, <<>>),
     OFPGetConfigReply |-> Reply(K.OFPT_GET_CONFIG_REPLY,
        <<Body(K.OFP_SWITCH_CONFIG, <<"flags", "miss_send_len">>)>>),
     OFPSetConfig |-> Request(K.OFPT_SET_CONFIG,
        <<Body(K.OFP_SWITCH_CONFIG, <<"flags", "miss_send_len">>)>>)]

FromOFPPacketIn(K) ==
    [OFPPacketIn |-> Reply(K.OFPT_PACKET_IN,
        <<Abs(K.OFP_PACKET_IN.fmt, <<"buffer_id", "total_len", "reason", "table_id">>,
              K.OFP_PACKET_IN.size - K.OFP_MATCH.size),
          One("OFPMatch"), Raw(<<-2>>, <<>>), Data>>)]

FromOFPFlowRemoved(K) ==
    [OFPFlowRemoved |-> Reply(K.OFPT_FLOW_REMOVED,
        <<Abs(K.OFP_FLOW_REMOVED.fmt, <<"cookie", "priority", "reason", "table_id",
            "duration_sec",
              "duration_nsec", "idle_timeout", "hard_timeout", "packet_count", "byte_count">>,
              K.OFP_FLOW_REMOVED.size - K.OFP_MATCH.size), One("OFPMatch")>>)]

FromOFPPortStatus(K) ==
    [OFPPortStatus |-> Reply(K.OFPT_PORT_STATUS,
        <<Abs(SubSeq(K.OFP_PORT_STATUS.fmt, 1, 2), <<"reason">>,
            K.OFP_PORT_STATUS_DESC_OFFSET), One("OFPPort")>>),
     OFPPacketOut |-> Ordered(Request(K.OFPT_PACKET_OUT,
        <<Body(K.OFP_PACKET_OUT, <<"buffer_id", "in_port", "actions_len">>),
          EachIn("OFPAction", "actions_len"), Data>>), <<2, 3, 1>>)]

FromOFPFlowMod(K) ==
    [OFPFlowMod |-> Request(K.OFPT_FLOW_MOD,
        <<Abs(K.OFP_FLOW_MOD.fmt, <<"cookie", "cookie_mask", "table_id", "command",
            "idle_timeout",
              "hard_timeout", "priority", "buffer_id", "out_port", "out_group", "flags">>,
              K.OFP_FLOW_MOD.size - K.OFP_MATCH.size), One("OFPMatch"),
            Each("OFPInstruction")>>)]

FromOFPInstructionGotoTable(K) ==
    [OFPInstructionGotoTable |-> Elem("OFPInstruction", K.OFPIT_GOTO_TABLE,
        <<Fix(K.OFP_INSTRUCTION_GOTO_TABLE, <<"type", "len", "table_id">>)>>),
     OFPInstructionWriteMetadata |-> Elem("OFPInstruction", K.OFPIT_WRITE_METADATA,
        <<Fix(K.OFP_INSTRUCTION_WRITE_METADATA, <<"type", "len", "metadata",
            "metadata_mask">>)>>)]
    @@
    [t \in {"OFPIT_WRITE_ACTIONS", "OFPIT_APPLY_ACTIONS", "OFPIT_CLEAR_ACTIONS"} |->
        Elem("OFPInstruction", K[t],
        <<Fix(K.OFP_INSTRUCTION_ACTIONS, <<"type", "len">>), Each("OFPAction")>>)]

FromOFPActionOutput(K) ==
    [OFPActionOutput |-> Elem("OFPAction", K.OFPAT_OUTPUT,
        <<Fix(K.OFP_ACTION_OUTPUT, <<"type", "len", "port", "max_len">>)>>),
     OFPActionGroup |-> Elem("OFPAction", K.OFPAT_GROUP,
        <<Fix(K.OFP_ACTION_GROUP, <<"type", "len", "group_id">>)>>),
     OFPActionSetQueue |-> Elem("OFPAction", K.OFPAT_SET_QUEUE,
        <<Fix(K.OFP_ACTION_SET_QUEUE, <<"type", "len", "queue_id">>)>>),
     OFPActionSetMplsTtl |-> Elem("OFPAction", K.OFPAT_SET_MPLS_TTL,
        <<Fix(K.OFP_ACTION_MPLS_TTL, <<"type", "len", "mpls_ttl">>)>>),
     OFPActionDecMplsTtl |-> Elem("OFPAction", K.OFPAT_DEC_MPLS_TTL,
        <<Fix(K.OFP_ACTION_HEADER, <<"type", "len">>)>>)]

FromOFPActionSetNwTtl(K) ==
    [OFPActionSetNwTtl |-> Elem("OFPAction", K.OFPAT_SET_NW_TTL,
        <<Fix(K.OFP_ACTION_NW_TTL, <<"type", "len", "nw_ttl">>)>>),
     OFPActionDecNwTtl |-> Elem("OFPAction", K.OFPAT_DEC_NW_TTL,
        <<Fix(K.OFP_ACTION_HEADER, <<"type", "len">>)>>),
     OFPActionCopyTtlOut |-> Elem("OFPAction", K.OFPAT_COPY_TTL_OUT,
        <<Fix(K.OFP_ACTION_HEADER, <<"type", "len">>)>>),
     OFPActionCopyTtlIn |-> Elem("OFPAction", K.OFPAT_COPY_TTL_IN,
        <<Fix(K.OFP_ACTION_HEADER, <<"type", "len">>)>>),
     OFPActionPushVlan |-> Elem("OFPAction", K.OFPAT_PUSH_VLAN,
        <<Fix(K.OFP_ACTION_PUSH, <<"type", "len", "ethertype">>)>>),
     OFPActionPushMpls |-> Elem("OFPAction", K.OFPAT_PUSH_MPLS,
        <<Fix(K.OFP_ACTION_PUSH, <<"type", "len", "ethertype">>)>>)]

FromOFPActionPopVlan(K) ==
    [OFPActionPopVlan |-> Elem("OFPAction", K.OFPAT_POP_VLAN,
        <<Fix(K.OFP_ACTION_HEADER, <<"type", "len">>)>>),
     OFPActionPopMpls |-> Elem("OFPAction", K.OFPAT_POP_MPLS,
        <<Fix(K.OFP_ACTION_POP_MPLS, <<"type", "len", "ethertype">>)>>)]

FromOFPActionSetField(K) ==
    [OFPActionSetField |-> Elem("OFPAction", K.OFPAT_SET_FIELD, <<Raw(<<2, 2>>, <<"type",
            "len">>), One("oxm")>>)]

FromOFPActionExperimenter(K) ==
    [OFPActionExperimenter |-> Elem("OFPAction", K.OFPAT_EXPERIMENTER,
        <<Fix(K.OFP_ACTION_EXPERIMENTER_HEADER, <<"type", "len", "experimenter">>)>>),
     OFPBucket |-> [Class("OFPBucket", <<>>, "len", "whole", 8,
        <<Fix(K.OFP_BUCKET, <<"len", "weight", "watch_port", "watch_group">>),
            Each("OFPAction")>>)
            EXCEPT !.pads = FALSE],
     OFPGroupMod |-> Request(K.OFPT_GROUP_MOD,
        <<Body(K.OFP_GROUP_MOD, <<"command", "type", "group_id">>), Each("OFPBucket")>>)]

FromOFPPortMod(K) ==
    [OFPPortMod |-> Request(K.OFPT_PORT_MOD,
        <<Body(K.OFP_PORT_MOD, <<"port_no", "hw_addr", "config", "mask", "advertise">>)>>),
     OFPTableMod |-> Request(K.OFPT_TABLE_MOD, <<Body(K.OFP_TABLE_MOD, <<"table_id",
            "config">>)>>)]

FromOFPDescStatsRequest(K) ==
    [OFPDescStatsRequest |-> MpRequest(K, K.OFPST_DESC, <<>>),
     OFPDescStats |-> Struct("OFPDescStats",
        <<Fix(K.OFP_DESC_STATS, <<"mfr_desc", "hw_desc", "sw_desc", "serial_num",
            "dp_desc">>)>>),
     OFPDescStatsMsg |-> MpReplyOne(K, K.OFPST_DESC, "OFPDescStats"),
     OFPFlowStatsRequest |-> MpRequest(K, K.OFPST_FLOW,
        <<Fix(P(K.OFP_FLOW_STATS_REQUEST.fmt,
            K.OFP_FLOW_STATS_REQUEST.size - K.OFP_MATCH.size),
              <<"table_id", "out_port", "out_group", "cookie", "cookie_mask">>),
            One("OFPMatch")>>)]

FromOFPFlowStats(K) ==
    [OFPFlowStats |-> Sized("OFPFlowStats", "length",
        <<Fix(P(K.OFP_FLOW_STATS.fmt, K.OFP_FLOW_STATS.size - K.OFP_MATCH.size),
              <<"length", "table_id", "duration_sec", "duration_nsec", "priority",
            "idle_timeout",
                "hard_timeout", "cookie", "packet_count", "byte_count">>),
          One("OFPMatch"), Each("OFPInstruction")>>),
     OFPFlowStatsMsg |-> MpReply(K, K.OFPST_FLOW, "OFPFlowStats")]

FromOFPAggregateStatsRequest(K) ==
    [OFPAggregateStatsRequest |-> MpRequest(K, K.OFPST_AGGREGATE,
        <<Fix(P(K.OFP_AGGREGATE_STATS_REQUEST.fmt,
            K.OFP_AGGREGATE_STATS_REQUEST.size - K.OFP_MATCH.size),
              <<"table_id", "out_port", "out_group", "cookie", "cookie_mask">>),
            One("OFPMatch")>>),
     OFPAggregateStatsReply |-> Struct("OFPAggregateStatsReply",
        <<Fix(K.OFP_AGGREGATE_STATS_REPLY, <<"packet_count", "byte_count", "flow_count">>)>>),
     OFPAggregateStatsMsg |-> MpReplyOne(K, K.OFPST_AGGREGATE, "OFPAggregateStatsReply"),
     OFPTableStatsRequest |-> MpRequest(K, K.OFPST_TABLE, <<>>)]

FromOFPTableStats(K) ==
    [OFPTableStats |-> Struct("OFPTableStats",
        <<Fix(K.OFP_TABLE_STATS, <<"table_id", "name", "match", "wildcards", "write_actions",
            "apply_actions", "write_setfields", "apply_setfields", "metadata_match",
            "metadata_write", "instructions", "config", "max_entries", "active_count",
            "lookup_count", "matched_count">>)>>),
     OFPTableStatsMsg |-> MpReply(K, K.OFPST_TABLE, "OFPTableStats"),
     OFPPortStatsRequest |-> MpRequest(K, K.OFPST_PORT, <<Fix(K.OFP_PORT_STATS_REQUEST,
            <<"port_no">>)>>)]

FromOFPPortStats(K) ==
    [OFPPortStats |-> Struct("OFPPortStats",
        <<Fix(K.OFP_PORT_STATS, <<"port_no", "rx_packets", "tx_packets", "rx_bytes",
            "tx_bytes", "rx_dropped", "tx_dropped", "rx_errors", "tx_errors", "rx_frame_err",
            "rx_over_err", "rx_crc_err", "collisions">>)>>),
     OFPPortStatsMsg |-> MpReply(K, K.OFPST_PORT, "OFPPortStats"),
     OFPQueueStatsRequest |-> MpRequest(K, K.OFPST_QUEUE, <<Fix(K.OFP_QUEUE_STATS_REQUEST,
            <<"port_no", "queue_id">>)>>)]

FromOFPQueueStats(K) ==
    [OFPQueueStats |-> Struct("OFPQueueStats",
        <<Fix(K.OFP_QUEUE_STATS, <<"port_no", "queue_id", "tx_bytes", "tx_packets",
            "tx_errors">>)>>),
     OFPQueueStatsMsg |-> MpReply(K, K.OFPST_QUEUE, "OFPQueueStats"),
     OFPBucketCounter |-> Struct("OFPBucketCounter", <<Fix(K.OFP_BUCKET_COUNTER, <<"packet",
            "byte">>)>>),
     OFPGroupStatsRequest |-> MpRequest(K, K.OFPST_GROUP, <<Fix(K.OFP_GROUP_STATS_REQUEST,
            <<"group_id">>)>>)]

FromOFPGroupStats(K) ==
    [OFPGroupStats |-> Sized("OFPGroupStats", "length",
        <<Fix(K.OFP_GROUP_STATS, <<"length", "group_id", "ref_count", "packet_count",
            "byte_count">>),
          Each("OFPBucketCounter")>>),
     OFPGroupStatsMsg |-> MpReply(K, K.OFPST_GROUP, "OFPGroupStats"),
     OFPGroupDescStatsRequest |-> MpRequest(K, K.OFPST_GROUP_DESC, <<>>)]

FromOFPGroupDescStats(K) ==
    [OFPGroupDescStats |-> Sized("OFPGroupDescStats", "length",
        <<Fix(K.OFP_GROUP_DESC_STATS, <<"length", "type", "group_id">>), Each("OFPBucket")>>),
     OFPGroupDescStatsMsg |-> MpReply(K, K.OFPST_GROUP_DESC, "OFPGroupDescStats"),
     OFPGroupFeaturesStatsRequest |-> MpRequest(K, K.OFPST_GROUP_FEATURES, <<>>),
     OFPGroupFeaturesStats |-> Struct("OFPGroupFeaturesStats",
        <<Fix(K.OFP_GROUP_FEATURES_STATS, <<"types", "capabilities", "max_groups_0",
            "max_groups_1",
              "max_groups_2", "max_groups_3", "actions_0", "actions_1", "actions_2",
            "actions_3">>)>>),
     OFPGroupFeaturesStatsMsg |-> MpReplyOne(K, K.OFPST_GROUP_FEATURES, "OFPGroupFeaturesStats")]

FromOFPQueueGetConfigRequest(K) ==
    [OFPQueueGetConfigRequest |-> Request(K.OFPT_QUEUE_GET_CONFIG_REQUEST,
        <<Body(K.OFP_QUEUE_GET_CONFIG_REQUEST, <<"port">>)>>),
     OFPPacketQueue |-> Sized("OFPPacketQueue", "len",
        <<Fix(K.OFP_PACKET_QUEUE, <<"queue_id", "port", "len">>), Each("OFPQueueProp")>>),
     OFPQueuePropMinRate |-> QueueProp(K, K.OFPQT_MIN_RATE, K.OFP_QUEUE_PROP_MIN_RATE,
            <<"rate">>, <<>>),
     OFPQueuePropMaxRate |-> QueueProp(K, K.OFPQT_MAX_RATE, K.OFP_QUEUE_PROP_MAX_RATE,
            <<"rate">>, <<>>)]

FromOFPQueueGetConfigReply(K) ==
    [OFPQueueGetConfigReply |-> Reply(K.OFPT_QUEUE_GET_CONFIG_REPLY,
        <<Body(K.OFP_QUEUE_GET_CONFIG_REPLY, <<"port">>), Each("OFPPacketQueue")>>),
     OFPBarrierRequest |-> Request(K.OFPT_BARRIER_REQUEST, <<>>),
     OFPBarrierReply |-> Reply(K.OFPT_BARRIER_REPLY, <<>>),
     OFPRoleRequest |-> Request(K.OFPT_ROLE_REQUEST,
        <<Body(K.OFP_ROLE_REQUEST, <<"role", "generation_id">>)>>)]

FromOFPRoleReply(K) ==
    [OFPRoleReply |-> Reply(K.OFPT_ROLE_REPLY,
        <<Body(K.OFP_ROLE_REQUEST, <<"role", "generation_id">>)>>)]

FromOFPMatch(K) ==
    [OFPMatch |-> Prop("OFPMatch", K.OFPMT_OXM, <<Raw(<<2, 2>>, <<"type", "length">>),
            Each("oxm")>>)]

Classes(K) ==
    FromOFPHello(K) @@ FromOFPEchoRequest(K) @@ FromOFPPort(K) @@ FromOFPGetConfigRequest(K)
    @@ FromOFPPacketIn(K) @@ FromOFPFlowRemoved(K) @@ FromOFPPortStatus(K) @@ FromOFPFlowMod(K)
    @@ FromOFPInstructionGotoTable(K) @@ FromOFPActionOutput(K) @@ FromOFPActionSetNwTtl(K)
    @@ FromOFPActionPopVlan(K) @@ FromOFPActionSetField(K) @@ FromOFPActionExperimenter(K)
    @@ FromOFPPortMod(K) @@ FromOFPDescStatsRequest(K) @@ FromOFPFlowStats(K)
    @@ FromOFPAggregateStatsRequest(K) @@ FromOFPTableStats(K) @@ FromOFPPortStats(K)
    @@ FromOFPQueueStats(K) @@ FromOFPGroupStats(K) @@ FromOFPGroupDescStats(K)
    @@ FromOFPQueueGetConfigRequest(K) @@ FromOFPQueueGetConfigReply(K) @@ FromOFPRoleReply(K)
    @@ FromOFPMatch(K) @@ OxmClasses(OxmTypes)

Protocol == Version(3, Classes(Constants))

============================================================================
