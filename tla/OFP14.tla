------------------------------ MODULE OFP14 -------------------------------
(***************************************************************************)
(* OpenFlow 1.4: the constants of ryu/ofproto/ofproto_v1_4.py and the      *)
(* classes of ryu/ofproto/ofproto_v1_4_parser.py, in the order of the      *)
(* source.                                                                 *)
(***************************************************************************)
EXTENDS Oxx

Constants1 ==
    [OFPT_HELLO |-> 0, OFPT_ERROR |-> 1, OFPT_ECHO_REQUEST |-> 2, OFPT_ECHO_REPLY |-> 3,
     OFPT_EXPERIMENTER |-> 4, OFPT_FEATURES_REQUEST |-> 5, OFPT_FEATURES_REPLY |-> 6,
     OFPT_GET_CONFIG_REQUEST |-> 7, OFPT_GET_CONFIG_REPLY |-> 8, OFPT_SET_CONFIG |-> 9,
     OFPT_PACKET_IN |-> 10, OFPT_FLOW_REMOVED |-> 11, OFPT_PORT_STATUS |-> 12,
     OFPT_PACKET_OUT |-> 13, OFPT_FLOW_MOD |-> 14, OFPT_GROUP_MOD |-> 15,
     OFPT_PORT_MOD |-> 16, OFPT_TABLE_MOD |-> 17, OFPT_MULTIPART_REQUEST |-> 18,
     OFPT_MULTIPART_REPLY |-> 19, OFPT_BARRIER_REQUEST |-> 20, OFPT_BARRIER_REPLY |-> 21,
     OFPT_ROLE_REQUEST |-> 24, OFPT_ROLE_REPLY |-> 25, OFPT_GET_ASYNC_REQUEST |-> 26,
     OFPT_GET_ASYNC_REPLY |-> 27, OFPT_SET_ASYNC |-> 28, OFPT_METER_MOD |-> 29,
     OFPT_ROLE_STATUS |-> 30, OFPT_TABLE_STATUS |-> 31, OFPT_REQUESTFORWARD |-> 32,
     OFPT_BUNDLE_CONTROL |-> 33, OFPT_BUNDLE_ADD_MESSAGE |-> 34]

Constants2 ==
    [OFPHET_VERSIONBITMAP |-> 1, OFP_HELLO_ELEM_VERSIONBITMAP_HEADER |-> P(<<2, 2>>, 4)]

Constants3 ==
    [OFP_SWITCH_CONFIG |-> P(<<2, 2>>, 12)]

Constants4 ==
    [OFPTMPT_EVICTION |-> 2, OFPTMPT_VACANCY |-> 3, OFPTMPT_EXPERIMENTER |-> 65535,
     OFP_TABLE_MOD_PROP_EVICTION |-> P(<<2, 2, 4>>, 8),
     OFP_TABLE_MOD_PROP_VACANCY |-> P(<<2, 2, 1, 1, 1, -1>>, 8),
     OFP_TABLE_MOD |-> P(<<1, -3, 4>>, 16)]

Constants5 ==
    [OFPPDPT_ETHERNET |-> 0, OFPPDPT_OPTICAL |-> 1, OFPPDPT_EXPERIMENTER |-> 65535,
     OFP_PORT_DESC_PROP_ETHERNET |-> P(<<2, 2, -4, 4, 4, 4, 4, 4, 4>>, 32),
     OFP_PORT_DESC_PROP_OPTICAL |-> P(<<2, 2, -4, 4, 4, 4, 4, 4, 4, 4, 2, 2>>, 40)]

Constants6 ==
    [OFP_PORT |-> P(<<4, 2, -2, 6, -2, 16, 4, 4>>, 40),
     OFP_SWITCH_FEATURES |-> P(<<8, 4, 1, 1, -2, 4, 4>>, 32)]

Constants7 ==
    [OFPPMPT_ETHERNET |-> 0, OFPPMPT_OPTICAL |-> 1, OFPPMPT_EXPERIMENTER |-> 65535,
     OFP_PORT_MOD_PROP_ETHERNET |-> P(<<2, 2, 4>>, 8),
     OFP_PORT_MOD_PROP_OPTICAL |-> P(<<2, 2, 4, 4, 4, 4, 4>>, 24),
     OFP_PORT_MOD |-> P(<<4, -4, 6, -2, 4, 4>>, 32), OFPMT_OXM |-> 1,
     OFP_MATCH |-> P(<<2, 2, -4>>, 8)]

Constants8 ==
    [OFPAT_OUTPUT |-> 0, OFPAT_COPY_TTL_OUT |-> 11, OFPAT_COPY_TTL_IN |-> 12,
     OFPAT_SET_MPLS_TTL |-> 15, OFPAT_DEC_MPLS_TTL |-> 16, OFPAT_PUSH_VLAN |-> 17,
     OFPAT_POP_VLAN |-> 18, OFPAT_PUSH_MPLS |-> 19, OFPAT_POP_MPLS |-> 20,
     OFPAT_SET_QUEUE |-> 21, OFPAT_GROUP |-> 22, OFPAT_SET_NW_TTL |-> 23,
     OFPAT_DEC_NW_TTL |-> 24, OFPAT_SET_FIELD |-> 25, OFPAT_PUSH_PBB |-> 26,
     OFPAT_POP_PBB |-> 27, OFPAT_EXPERIMENTER |-> 65535,
     OFP_ACTION_HEADER |-> P(<<2, 2, -4>>, 8),
     OFP_ACTION_OUTPUT |-> P(<<2, 2, 4, 2, -6>>, 16),
     OFP_ACTION_MPLS_TTL |-> P(<<2, 2, 1, -3>>, 8),
     OFP_ACTION_PUSH |-> P(<<2, 2, 2, -2>>, 8),
     OFP_ACTION_POP_MPLS |-> P(<<2, 2, 2, -2>>, 8),
     OFP_ACTION_SET_QUEUE |-> P(<<2, 2, 4>>, 8), OFP_ACTION_GROUP |-> P(<<2, 2, 4>>, 8),
     OFP_ACTION_NW_TTL |-> P(<<2, 2, 1, -3>>, 8),
     OFP_ACTION_EXPERIMENTER_HEADER |-> P(<<2, 2, 4>>, 8), OFPIT_GOTO_TABLE |-> 1,
     OFPIT_WRITE_METADATA |-> 2, OFPIT_WRITE_ACTIONS |-> 3, OFPIT_APPLY_ACTIONS |-> 4,
     OFPIT_CLEAR_ACTIONS |-> 5, OFPIT_METER |-> 6,
     OFP_INSTRUCTION_GOTO_TABLE |-> P(<<2, 2, 1, -3>>, 8),
     OFP_INSTRUCTION_WRITE_METADATA |-> P(<<2, 2, -4, 8, 8>>, 24),
     OFP_INSTRUCTION_ACTIONS |-> P(<<2, 2, -4>>, 8),
     OFP_INSTRUCTION_METER |-> P(<<2, 2, 4>>, 8)]

Constants9 ==
    [OFP_FLOW_MOD |-> P(<<8, 8, 1, 1, 2, 2, 2, 4, 4, 4, 2, 2>>, 56)]

Constants10 ==
    [OFP_BUCKET |-> P(<<2, 2, 4, 4, -4>>, 16), OFP_GROUP_MOD |-> P(<<2, 1, -1, 4>>, 16)]

Constants11 ==
    [OFP_PACKET_OUT |-> P(<<4, 4, 2, -6>>, 24)]

Constants12 ==
    [OFP_PACKET_IN |-> P(<<4, 2, 1, 1, 8>>, 32)]

Constants13 ==
    [OFP_PORT_STATUS |-> P(<<1, -7, 4, 2, -2, 6, -2, 16, 4, 4>>, 56),
     OFP_PORT_STATUS_DESC_OFFSET |-> 16,
     OFP_FLOW_REMOVED |-> P(<<8, 2, 1, 1, 4, 4, 2, 2, 8, 8>>, 56), OFPMBT_DROP |-> 1,
     OFPMBT_DSCP_REMARK |-> 2, OFPMBT_EXPERIMENTER |-> 65535,
     OFP_METER_BAND_DROP |-> P(<<2, 2, 4, 4, -4>>, 16),
     OFP_METER_BAND_DSCP_REMARK |-> P(<<2, 2, 4, 4, 1, -3>>, 16),
     OFP_METER_BAND_EXPERIMENTER |-> P(<<2, 2, 4, 4, 4>>, 16)]

Constants14 ==
    [OFP_METER_MOD |-> P(<<2, 2, 4>>, 16)]

Constants15 ==
    [OFPET_EXPERIMENTER |-> 65535]

Constants16 ==
    [OFP_ERROR_MSG |-> P(<<2, 2>>, 12), OFP_EXPERIMENTER_HEADER |-> P(<<4, 4>>, 16),
     OFPMP_DESC |-> 0, OFPMP_FLOW |-> 1, OFPMP_AGGREGATE |-> 2, OFPMP_TABLE |-> 3,
     OFPMP_PORT_STATS |-> 4, OFPMP_QUEUE_STATS |-> 5, OFPMP_GROUP |-> 6,
     OFPMP_GROUP_DESC |-> 7, OFPMP_GROUP_FEATURES |-> 8, OFPMP_METER |-> 9,
     OFPMP_METER_CONFIG |-> 10, OFPMP_METER_FEATURES |-> 11, OFPMP_TABLE_FEATURES |-> 12,
     OFPMP_PORT_DESC |-> 13, OFPMP_TABLE_DESC |-> 14, OFPMP_QUEUE_DESC |-> 15,
     OFPMP_FLOW_MONITOR |-> 16, OFPMP_EXPERIMENTER |-> 65535,
     OFP_MULTIPART_REQUEST |-> P(<<2, 2, -4>>, 16),
     OFP_MULTIPART_REPLY |-> P(<<2, 2, -4>>, 16),
     OFP_DESC |-> P(<<256, 256, 256, 32, 256>>, 1056),
     OFP_FLOW_STATS_REQUEST_0 |-> P(<<1, -3, 4, 4, -4, 8, 8>>, 32),
     OFP_FLOW_STATS_0 |-> P(<<2, 1, -1, 4, 4, 2, 2, 2, 2, 2, -2, 8, 8, 8>>, 48)]

Constants17 ==
    [OFP_AGGREGATE_STATS_REPLY |-> P(<<8, 8, 4, -4>>, 24), OFPTFPT_INSTRUCTIONS |-> 0,
     OFPTFPT_INSTRUCTIONS_MISS |-> 1, OFPTFPT_NEXT_TABLES |-> 2,
     OFPTFPT_NEXT_TABLES_MISS |-> 3, OFPTFPT_WRITE_ACTIONS |-> 4,
     OFPTFPT_WRITE_ACTIONS_MISS |-> 5, OFPTFPT_APPLY_ACTIONS |-> 6,
     OFPTFPT_APPLY_ACTIONS_MISS |-> 7, OFPTFPT_MATCH |-> 8, OFPTFPT_WILDCARDS |-> 10,
     OFPTFPT_WRITE_SETFIELD |-> 12, OFPTFPT_WRITE_SETFIELD_MISS |-> 13,
     OFPTFPT_APPLY_SETFIELD |-> 14, OFPTFPT_APPLY_SETFIELD_MISS |-> 15,
     OFPTFPT_TABLE_SYNC_FROM |-> 16, OFPTFPT_EXPERIMENTER |-> 65534,
     OFPTFPT_EXPERIMENTER_MISS |-> 65535]

Constants18 ==
    [OFP_TABLE_FEATURES |-> P(<<2, 1, -5, 32, 8, 8, 4, 4>>, 64),
     OFP_TABLE_STATS |-> P(<<1, -3, 4, 8, 8>>, 24), OFP_TABLE_DESC |-> P(<<2, 1, -1, 4>>, 8),
     OFP_PORT_STATS_REQUEST |-> P(<<4, -4>>, 8), OFPPSPT_ETHERNET |-> 0,
     OFPPSPT_OPTICAL |-> 1, OFPPSPT_EXPERIMENTER |-> 65535,
     OFP_PORT_STATS_PROP_ETHERNET |-> P(<<2, 2, -4, 8, 8, 8, 8>>, 40),
     OFP_PORT_STATS_PROP_OPTICAL |-> P(<<2, 2, -4, 4, 4, 4, 4, 4, 4, 4, 2, 2, 2, 2>>, 44)]

Constants19 ==
    [OFP_PORT_STATS |-> P(<<2, -2, 4, 4, 4, 8, 8, 8, 8, 8, 8, 8, 8>>, 80),
     OFP_GROUP_STATS_REQUEST |-> P(<<4, -4>>, 8), OFP_BUCKET_COUNTER |-> P(<<8, 8>>, 16),
     OFP_GROUP_STATS |-> P(<<2, -2, 4, 4, -4, 8, 8, 4, 4>>, 40),
     OFP_GROUP_DESC_STATS |-> P(<<2, 1, -1, 4>>, 8),
     OFP_GROUP_FEATURES |-> P(<<4, 4, 4, 4, 4, 4, 4, 4, 4, 4>>, 40),
     OFP_METER_MULTIPART_REQUEST |-> P(<<4, -4>>, 8),
     OFP_METER_STATS |-> P(<<4, 2, -6, 4, 8, 8, 4, 4>>, 40),
     OFP_METER_BAND_STATS |-> P(<<8, 8>>, 16), OFP_METER_CONFIG |-> P(<<2, 2, 4>>, 8),
     OFP_METER_FEATURES |-> P(<<4, 4, 4, 1, 1, -2>>, 16)]

Constants20 ==
    [OFPQDPT_MIN_RATE |-> 1, OFPQDPT_MAX_RATE |-> 2, OFPQDPT_EXPERIMENTER |-> 65535,
     OFP_QUEUE_DESC_PROP_MIN_RATE |-> P(<<2, 2, 2, -2>>, 8),
     OFP_QUEUE_DESC_PROP_MAX_RATE |-> P(<<2, 2, 2, -2>>, 8),
     OFP_QUEUE_DESC_REQUEST |-> P(<<4, 4>>, 8), OFP_QUEUE_DESC |-> P(<<4, 4, 2, -6>>, 16),
     OFP_QUEUE_STATS_REQUEST |-> P(<<4, 4>>, 8), OFPQSPT_EXPERIMENTER |-> 65535,
     OFP_QUEUE_STATS |-> P(<<2, -6, 4, 4, 8, 8, 8, 4, 4>>, 48),
     OFP_FLOW_MONITOR_REQUEST_0 |-> P(<<4, 4, 4, 2, 1, 1>>, 16)]

Constants21 ==
    [OFPFME_INITIAL |-> 0, OFPFME_ADDED |-> 1, OFPFME_REMOVED |-> 2, OFPFME_MODIFIED |-> 3,
     OFPFME_ABBREV |-> 4, OFPFME_PAUSED |-> 5, OFPFME_RESUMED |-> 6,
     OFP_FLOW_UPDATE_FULL_0 |-> P(<<2, 2, 1, 1, 2, 2, 2, -4, 8>>, 24),
     OFP_FLOW_UPDATE_ABBREV |-> P(<<2, 2, 4>>, 8),
     OFP_FLOW_UPDATE_PAUSED |-> P(<<2, 2, -4>>, 8),
     OFP_EXPERIMENTER_MULTIPART_HEADER |-> P(<<4, 4>>, 8),
     OFP_ERROR_EXPERIMENTER_MSG |-> P(<<2, 2, 4>>, 16),
     OFP_ROLE_REQUEST |-> P(<<4, -4, 8>>, 24), OFPRPT_EXPERIMENTER |-> 65535]

Constants22 ==
    [OFP_ROLE_STATUS |-> P(<<4, 1, -3, 8>>, 24), OFPACPT_PACKET_IN_SLAVE |-> 0,
     OFPACPT_PACKET_IN_MASTER |-> 1, OFPACPT_PORT_STATUS_SLAVE |-> 2,
     OFPACPT_PORT_STATUS_MASTER |-> 3, OFPACPT_FLOW_REMOVED_SLAVE |-> 4,
     OFPACPT_FLOW_REMOVED_MASTER |-> 5, OFPACPT_ROLE_STATUS_SLAVE |-> 6,
     OFPACPT_ROLE_STATUS_MASTER |-> 7, OFPACPT_TABLE_STATUS_SLAVE |-> 8,
     OFPACPT_TABLE_STATUS_MASTER |-> 9, OFPACPT_REQUESTFORWARD_SLAVE |-> 10,
     OFPACPT_REQUESTFORWARD_MASTER |-> 11, OFPTFPT_EXPERIMENTER_SLAVE |-> 65534,
     OFPTFPT_EXPERIMENTER_MASTER |-> 65535,
     OFP_ASYNC_CONFIG_PROP_REASONS |-> P(<<2, 2, 4>>, 8)]

Constants23 ==
    [OFP_TABLE_STATUS_0 |-> P(<<1, -7>>, 16)]

Constants24 ==
    [OFP_BUNDLE_CTRL_MSG |-> P(<<4, 2, 2>>, 16)]

Constants25 ==
    [OFP_PROP_EXPERIMENTER |-> P(<<2, 2, 4, 4>>, 12)]

Constants ==
    Constants1 @@ Constants2 @@ Constants3 @@ Constants4 @@ Constants5 @@ Constants6
    @@ Constants7 @@ Constants8 @@ Constants9 @@ Constants10 @@ Constants11 @@ Constants12
    @@ Constants13 @@ Constants14 @@ Constants15 @@ Constants16 @@ Constants17
    @@ Constants18 @@ Constants19 @@ Constants20 @@ Constants21 @@ Constants22
    @@ Constants23 @@ Constants24 @@ Constants25

----------------------------------------------------------------------------
\* OFPMultipartRequest and OFPMultipartReply: a type, flags and a body, which
\* the reply's parser reads to the end of the message.
MpRequest(K, type, parts) ==
    Sub(Request(K.OFPT_MULTIPART_REQUEST, <<Body(K.OFP_MULTIPART_REQUEST, <<"type", "flags">>)>> \o parts),
        "type", type)
MpReplyOf(K, type, part) ==
    Sub(Reply(K.OFPT_MULTIPART_REPLY, <<Body(K.OFP_MULTIPART_REPLY, <<"type", "flags">>), part>>),
        "type", type)
MpReply(K, type, of) == MpReplyOf(K, type, Each(of))
MpReplyOne(K, type, of) == MpReplyOf(K, type, First(of))

\* OFPPropBase and OFPPropCommonExperimenter4ByteData: built in a buffer of
\* their own, padded to 8; the length leaves the padding out.
PropOf(fam, type, parts) ==
    Prop(fam, type, <<Raw(<<2, 2>>, <<"type", "length">>)>> \o parts)
PropExperimenter(K, fam, type) ==
    Prop(fam, type,
         <<Fix(K.OFP_PROP_EXPERIMENTER, <<"type", "length", "experimenter", "exp_type">>),
           App(Each("exp_data"))>>)
exp_data == Struct("exp_data", <<Raw(<<4>>, <<"data">>)>>)

OxmTypes ==
    [in_port |-> OpenFlowBasic(0, 4), in_phy_port |-> OpenFlowBasic(1, 4),
     metadata |-> OpenFlowBasic(2, 8), eth_dst |-> OpenFlowBasic(3, 6),
     eth_src |-> OpenFlowBasic(4, 6), eth_type |-> OpenFlowBasic(5, 2),
     vlan_vid |-> OpenFlowBasic(6, 2), vlan_pcp |-> OpenFlowBasic(7, 1),
     ip_dscp |-> OpenFlowBasic(8, 1), ip_ecn |-> OpenFlowBasic(9, 1),
     ip_proto |-> OpenFlowBasic(10, 1), ipv4_src |-> OpenFlowBasic(11, 4),
     ipv4_dst |-> OpenFlowBasic(12, 4), tcp_src |-> OpenFlowBasic(13, 2),
     tcp_dst |-> OpenFlowBasic(14, 2), udp_src |-> OpenFlowBasic(15, 2),
     udp_dst |-> OpenFlowBasic(16, 2), sctp_src |-> OpenFlowBasic(17, 2),
     sctp_dst |-> OpenFlowBasic(18, 2), icmpv4_type |-> OpenFlowBasic(19, 1),
     icmpv4_code |-> OpenFlowBasic(20, 1), arp_op |-> OpenFlowBasic(21, 2),
     arp_spa |-> OpenFlowBasic(22, 4), arp_tpa |-> OpenFlowBasic(23, 4),
     arp_sha |-> OpenFlowBasic(24, 6), arp_tha |-> OpenFlowBasic(25, 6),
     ipv6_src |-> OpenFlowBasic(26, 16), ipv6_dst |-> OpenFlowBasic(27, 16),
     ipv6_flabel |-> OpenFlowBasic(28, 4), icmpv6_type |-> OpenFlowBasic(29, 1),
     icmpv6_code |-> OpenFlowBasic(30, 1), ipv6_nd_target |-> OpenFlowBasic(31, 16),
     ipv6_nd_sll |-> OpenFlowBasic(32, 6), ipv6_nd_tll |-> OpenFlowBasic(33, 6),
     mpls_label |-> OpenFlowBasic(34, 4), mpls_tc |-> OpenFlowBasic(35, 1),
     mpls_bos |-> OpenFlowBasic(36, 1), pbb_isid |-> OpenFlowBasic(37, 3),
     tunnel_id |-> OpenFlowBasic(38, 8), ipv6_exthdr |-> OpenFlowBasic(39, 2),
     pbb_uca |-> OpenFlowBasic(41, 1), tcp_flags |-> ONFExperimenter(42, 2),
     actset_output |-> ONFExperimenter(43, 4)]
    @@ NxOxmTypes

FromOFPHello(K) ==
    [OFPHello |-> Reply(K.OFPT_HELLO, <<Each("OFPHelloElem")>>),
     OFPHelloElemVersionBitmap |-> Class("OFPHelloElem", [type |-> K.OFPHET_VERSIONBITMAP],
        "length", "whole", 1,
        <<Fix(K.OFP_HELLO_ELEM_VERSIONBITMAP_HEADER, <<"type", "length">>), Each("bitmap")>>),
     bitmap |-> Struct("bitmap", <<Raw(<<4>>, <<"bitmap">>)>>),
     OFPEchoRequest |-> Msg(K.OFPT_ECHO_REQUEST, <<Data>>)]

FromOFPErrorMsg(K) ==
    [OFPErrorMsg |-> Msg(K.OFPT_ERROR, <<Body(K.OFP_ERROR_MSG, <<"type", "code">>), Data>>),
     OFPErrorExperimenterMsg |-> Sub(Msg(K.OFPT_ERROR,
        <<Body(K.OFP_ERROR_EXPERIMENTER_MSG, <<"type", "exp_type", "experimenter">>), Data>>),
        "type", K.OFPET_EXPERIMENTER),
     OFPEchoReply |-> Msg(K.OFPT_ECHO_REPLY, <<Data>>)]

FromOFPFeaturesRequest(K) ==
    [OFPFeaturesRequest |-> Request(K.OFPT_FEATURES_REQUEST, <<>>),
     OFPExperimenter |-> Msg(K.OFPT_EXPERIMENTER,
        <<Body(K.OFP_EXPERIMENTER_HEADER, <<"experimenter", "exp_type">>), Data>>),
     OFPSwitchFeatures |-> Reply(K.OFPT_FEATURES_REPLY,
        <<Body(K.OFP_SWITCH_FEATURES, <<"datapath_id", "n_buffers", "n_tables",
            "auxiliary_id", "capabilities", "reserved">>)>>),
     OFPGetConfigRequest |-> Request(K.OFPT_GET_CONFIG_REQUEST, <<>>)]

FromOFPGetConfigReply(K) ==
    [OFPGetConfigReply |-> Reply(K.OFPT_GET_CONFIG_REPLY,
        <<Body(K.OFP_SWITCH_CONFIG, <<"flags", "miss_send_len">>)>>),
     OFPSetConfig |-> Request(K.OFPT_SET_CONFIG,
        <<Body(K.OFP_SWITCH_CONFIG, <<"flags", "miss_send_len">>)>>)]

FromOFPMatch(K) ==
    [OFPMatch |-> Prop("OFPMatch", K.OFPMT_OXM, <<Raw(<<2, 2>>, <<"type", "length">>),
            Each("oxm")>>)]

FromOFPPortDescPropEthernet(K) ==
    [OFPPortDescPropEthernet |-> Prop("OFPPortDescProp", K.OFPPDPT_ETHERNET,
        <<Fix(K.OFP_PORT_DESC_PROP_ETHERNET, <<"type", "length", "curr", "advertised",
            "supported", "peer", "curr_speed", "max_speed">>)>>),
     OFPPortDescPropOptical |-> Prop("OFPPortDescProp", K.OFPPDPT_OPTICAL,
        <<Fix(K.OFP_PORT_DESC_PROP_OPTICAL, <<"type", "length", "supported",
            "tx_min_freq_lmda", "tx_max_freq_lmda", "tx_grid_freq_lmda", "rx_min_freq_lmda",
            "rx_max_freq_lmda", "rx_grid_freq_lmda", "tx_pwr_min", "tx_pwr_max">>)>>),
     OFPPortDescPropExperimenter |-> PropExperimenter(K, "OFPPortDescProp",
            K.OFPPDPT_EXPERIMENTER),
     OFPTableModPropEviction |-> Prop("OFPTableModProp", K.OFPTMPT_EVICTION,
        <<Fix(K.OFP_TABLE_MOD_PROP_EVICTION, <<"type", "length", "flags">>)>>),
     OFPTableModPropVacancy |-> Prop("OFPTableModProp", K.OFPTMPT_VACANCY,
        <<Fix(K.OFP_TABLE_MOD_PROP_VACANCY, <<"type", "length", "vacancy_down", "vacancy_up",
            "vacancy">>)>>),
     OFPTableModPropExperimenter |-> PropExperimenter(K, "OFPTableModProp",
            K.OFPTMPT_EXPERIMENTER),
     OFPQueueDescPropMinRate |-> Prop("OFPQueueDescProp", K.OFPQDPT_MIN_RATE,
        <<Fix(K.OFP_QUEUE_DESC_PROP_MIN_RATE, <<"type", "length", "rate">>)>>)]

FromOFPQueueDescPropMaxRate(K) ==
    [OFPQueueDescPropMaxRate |-> Prop("OFPQueueDescProp", K.OFPQDPT_MAX_RATE,
        <<Fix(K.OFP_QUEUE_DESC_PROP_MAX_RATE, <<"type", "length", "rate">>)>>),
     OFPQueueDescPropExperimenter |-> PropExperimenter(K, "OFPQueueDescProp",
            K.OFPQDPT_EXPERIMENTER),
     OFPRolePropExperimenter |-> PropExperimenter(K, "OFPRoleProp", K.OFPRPT_EXPERIMENTER),
     OFPBundlePropExperimenter |-> PropExperimenter(K, "OFPBundleProp", K.OFPRPT_EXPERIMENTER),
     OFPPacketIn |-> Reply(K.OFPT_PACKET_IN,
        <<Abs(K.OFP_PACKET_IN.fmt, <<"buffer_id", "total_len", "reason", "table_id",
            "cookie">>,
              K.OFP_PACKET_IN.size - K.OFP_MATCH.size),
          One("OFPMatch"), Raw(<<-2>>, <<>>), Data>>)]

FromOFPFlowRemoved(K) ==
    [OFPFlowRemoved |-> Reply(K.OFPT_FLOW_REMOVED,
        <<Abs(K.OFP_FLOW_REMOVED.fmt, <<"cookie", "priority", "reason", "table_id",
            "duration_sec",
              "duration_nsec", "idle_timeout", "hard_timeout", "packet_count", "byte_count">>,
              K.OFP_FLOW_REMOVED.size - K.OFP_MATCH.size), One("OFPMatch")>>)]

FromOFPPort(K) ==
    [OFPPort |-> ReadOnly(Sized("OFPPort", "length",
        <<Fix(K.OFP_PORT, <<"port_no", "length", "hw_addr", "name", "config", "state">>),
          Each("OFPPortDescProp")>>)),
     OFPTableDesc |-> ReadOnly(Sized("OFPTableDesc", "length",
        <<Fix(K.OFP_TABLE_DESC, <<"length", "table_id", "config">>),
            Each("OFPTableModProp")>>)),
     OFPQueueDesc |-> ReadOnly(Sized("OFPQueueDesc", "len",
        <<Fix(K.OFP_QUEUE_DESC, <<"port_no", "queue_id", "len">>),
            Each("OFPQueueDescProp")>>))]

FromOFPMeterMod(K) ==
    [OFPMeterMod |-> Msg(K.OFPT_METER_MOD,
        <<Body(K.OFP_METER_MOD, <<"command", "flags", "meter_id">>),
            Each("OFPMeterBandHeader")>>),
     OFPTableMod |-> Request(K.OFPT_TABLE_MOD,
        <<Body(K.OFP_TABLE_MOD, <<"table_id", "config">>), App(Each("OFPTableModProp"))>>)]

FromOFPDescStats(K) ==
    [OFPDescStats |-> Struct("OFPDescStats",
        <<Fix(K.OFP_DESC, <<"mfr_desc", "hw_desc", "sw_desc", "serial_num", "dp_desc">>)>>),
     OFPDescStatsRequest |-> MpRequest(K, K.OFPMP_DESC, <<>>),
     OFPDescStatsReply |-> MpReplyOne(K, K.OFPMP_DESC, "OFPDescStats"),
     OFPTableFeaturesStats |-> Sized("OFPTableFeaturesStats", "length",
        <<Fix(K.OFP_TABLE_FEATURES, <<"length", "table_id", "name", "metadata_match",
            "metadata_write",
              "capabilities", "max_entries">>), App(Each("OFPTableFeatureProp"))>>)]

FromOFPInstructionId(K) ==
    [OFPInstructionId |-> Sized("OFPInstructionId", "len", <<Raw(<<2, 2>>, <<"type",
            "len">>)>>),
     OFPActionId |-> Sized("OFPActionId", "len", <<Raw(<<2, 2>>, <<"type", "len">>)>>),
     table_id |-> Struct("table_id", <<Raw(<<1>>, <<"table_id">>)>>)]
    @@
    [t \in {"OFPTFPT_INSTRUCTIONS", "OFPTFPT_INSTRUCTIONS_MISS"} |->
        PropOf("OFPTableFeatureProp", K[t], <<App(Each("OFPInstructionId"))>>)]
    @@
    [t \in {"OFPTFPT_WRITE_ACTIONS", "OFPTFPT_WRITE_ACTIONS_MISS", "OFPTFPT_APPLY_ACTIONS",
            "OFPTFPT_APPLY_ACTIONS_MISS"} |->
        PropOf("OFPTableFeatureProp", K[t], <<App(Each("OFPActionId"))>>)]
    @@
    [t \in {"OFPTFPT_NEXT_TABLES", "OFPTFPT_NEXT_TABLES_MISS", "OFPTFPT_TABLE_SYNC_FROM"} |->
        PropOf("OFPTableFeatureProp", K[t], <<App(Each("table_id"))>>)]

FromOFPOxmId(K) ==
    [OFPOxmId |-> Struct("OFPOxmId", <<Raw(<<4>>, <<"oxm">>)>>),
     OFPExperimenterOxmId |-> ReadOnly(Sub(Struct("OFPOxmId",
        <<Raw(<<2, 2, 4>>, <<"class", "field", "exp_id">>)>>), "class", OFPXXC_EXPERIMENTER)),
     OFPTableFeaturesStatsRequest |-> MpRequest(K, K.OFPMP_TABLE_FEATURES,
            <<App(Each("OFPTableFeaturesStats"))>>),
     OFPTableFeaturesStatsReply |-> MpReply(K, K.OFPMP_TABLE_FEATURES, "OFPTableFeaturesStats")]
    @@
    [t \in {"OFPTFPT_MATCH", "OFPTFPT_WILDCARDS", "OFPTFPT_WRITE_SETFIELD",
            "OFPTFPT_WRITE_SETFIELD_MISS", "OFPTFPT_APPLY_SETFIELD",
            "OFPTFPT_APPLY_SETFIELD_MISS"} |->
        PropOf("OFPTableFeatureProp", K[t], <<App(Each("OFPOxmId"))>>)]
    @@
    [t \in {"OFPTFPT_EXPERIMENTER", "OFPTFPT_EXPERIMENTER_MISS"} |->
        PropExperimenter(K, "OFPTableFeatureProp", K[t])]

FromOFPPortDescStatsRequest(K) ==
    [OFPPortDescStatsRequest |-> MpRequest(K, K.OFPMP_PORT_DESC, <<>>),
     OFPPortDescStatsReply |-> MpReply(K, K.OFPMP_PORT_DESC, "OFPPort"),
     OFPTableDescStatsRequest |-> MpRequest(K, K.OFPMP_TABLE_DESC, <<>>),
     OFPTableDescStatsReply |-> MpReply(K, K.OFPMP_TABLE_DESC, "OFPTableDesc"),
     OFPQueueDescStatsRequest |-> MpRequest(K, K.OFPMP_QUEUE_DESC,
        <<Fix(K.OFP_QUEUE_DESC_REQUEST, <<"port_no", "queue_id">>)>>)]

FromOFPQueueDescStatsReply(K) ==
    [OFPQueueDescStatsReply |-> MpReply(K, K.OFPMP_QUEUE_DESC, "OFPQueueDesc"),
     OFPQueueStatsPropExperimenter |-> PropExperimenter(K, "OFPQueueStatsProp",
            K.OFPQSPT_EXPERIMENTER),
     OFPQueueStats |-> ReadOnly(Sized("OFPQueueStats", "length",
        <<Fix(K.OFP_QUEUE_STATS, <<"length", "port_no", "queue_id", "tx_bytes", "tx_packets",
            "tx_errors",
              "duration_sec", "duration_nsec">>), Each("OFPQueueStatsProp")>>)),
     OFPQueueStatsRequest |-> MpRequest(K, K.OFPMP_QUEUE_STATS,
        <<Fix(K.OFP_QUEUE_STATS_REQUEST, <<"port_no", "queue_id">>)>>),
     OFPQueueStatsReply |-> MpReply(K, K.OFPMP_QUEUE_STATS, "OFPQueueStats")]

FromOFPBucketCounter(K) ==
    [OFPBucketCounter |-> Struct("OFPBucketCounter",
        <<Fix(K.OFP_BUCKET_COUNTER, <<"packet_count", "byte_count">>)>>),
     OFPGroupStats |-> Sized("OFPGroupStats", "length",
        <<Fix(K.OFP_GROUP_STATS, <<"length", "group_id", "ref_count", "packet_count",
            "byte_count",
              "duration_sec", "duration_nsec">>), Each("OFPBucketCounter")>>),
     OFPGroupStatsRequest |-> MpRequest(K, K.OFPMP_GROUP, <<Fix(K.OFP_GROUP_STATS_REQUEST,
            <<"group_id">>)>>),
     OFPGroupStatsReply |-> MpReply(K, K.OFPMP_GROUP, "OFPGroupStats"),
     OFPGroupDescStats |-> Sized("OFPGroupDescStats", "length",
        <<Fix(K.OFP_GROUP_DESC_STATS, <<"length", "type", "group_id">>), Each("OFPBucket")>>)]

FromOFPGroupDescStatsRequest(K) ==
    [OFPGroupDescStatsRequest |-> MpRequest(K, K.OFPMP_GROUP_DESC, <<>>),
     OFPGroupDescStatsReply |-> MpReply(K, K.OFPMP_GROUP_DESC, "OFPGroupDescStats"),
     OFPGroupFeaturesStats |-> Struct("OFPGroupFeaturesStats",
        <<Fix(K.OFP_GROUP_FEATURES, <<"types", "capabilities", "max_groups_0", "max_groups_1",
              "max_groups_2", "max_groups_3", "actions_0", "actions_1", "actions_2",
            "actions_3">>)>>),
     OFPGroupFeaturesStatsRequest |-> MpRequest(K, K.OFPMP_GROUP_FEATURES, <<>>),
     OFPGroupFeaturesStatsReply |-> MpReplyOne(K, K.OFPMP_GROUP_FEATURES,
            "OFPGroupFeaturesStats"),
     OFPMeterBandStats |-> Struct("OFPMeterBandStats",
        <<Fix(K.OFP_METER_BAND_STATS, <<"packet_band_count", "byte_band_count">>)>>)]

FromOFPMeterStats(K) ==
    [OFPMeterStats |-> Sized("OFPMeterStats", "len",
        <<Fix(K.OFP_METER_STATS, <<"meter_id", "len", "flow_count", "packet_in_count",
            "byte_in_count",
              "duration_sec", "duration_nsec">>), Each("OFPMeterBandStats")>>),
     OFPMeterStatsRequest |-> MpRequest(K, K.OFPMP_METER, <<Fix(K.OFP_METER_MULTIPART_REQUEST,
            <<"meter_id">>)>>),
     OFPMeterStatsReply |-> MpReply(K, K.OFPMP_METER, "OFPMeterStats")]

FromOFPMeterBandDrop(K) ==
    [OFPMeterBandDrop |-> Elem("OFPMeterBandHeader", K.OFPMBT_DROP,
        <<Fix(K.OFP_METER_BAND_DROP, <<"type", "len", "rate", "burst_size">>)>>),
     OFPMeterBandDscpRemark |-> Elem("OFPMeterBandHeader", K.OFPMBT_DSCP_REMARK,
        <<Fix(K.OFP_METER_BAND_DSCP_REMARK, <<"type", "len", "rate", "burst_size",
            "prec_level">>)>>),
     OFPMeterBandExperimenter |-> Elem("OFPMeterBandHeader", K.OFPMBT_EXPERIMENTER,
        <<Fix(K.OFP_METER_BAND_EXPERIMENTER, <<"type", "len", "rate", "burst_size",
            "experimenter">>)>>),
     OFPMeterConfigStats |-> Sized("OFPMeterConfigStats", "length",
        <<Fix(K.OFP_METER_CONFIG, <<"length", "flags", "meter_id">>),
            Each("OFPMeterBandHeader")>>),
     OFPMeterConfigStatsRequest |-> MpRequest(K, K.OFPMP_METER_CONFIG,
        <<Fix(K.OFP_METER_MULTIPART_REQUEST, <<"meter_id">>)>>)]

FromOFPMeterConfigStatsReply(K) ==
    [OFPMeterConfigStatsReply |-> MpReply(K, K.OFPMP_METER_CONFIG, "OFPMeterConfigStats"),
     OFPMeterFeaturesStats |-> Struct("OFPMeterFeaturesStats",
        <<Fix(K.OFP_METER_FEATURES, <<"max_meter", "band_types", "capabilities", "max_bands",
            "max_color">>)>>),
     OFPMeterFeaturesStatsRequest |-> MpRequest(K, K.OFPMP_METER_FEATURES, <<>>),
     OFPMeterFeaturesStatsReply |-> MpReply(K, K.OFPMP_METER_FEATURES, "OFPMeterFeaturesStats")]

FromOFPFlowUpdateFull(K) ==
    [OFPFlowUpdateAbbrev |-> Class("OFPFlowUpdateHeader", [event |-> K.OFPFME_ABBREV],
            "length", "whole", 1,
        <<Fix(K.OFP_FLOW_UPDATE_ABBREV, <<"length", "event", "xid">>)>>)]
    @@
    [t \in {"OFPFME_INITIAL", "OFPFME_ADDED", "OFPFME_REMOVED", "OFPFME_MODIFIED"} |->
        Asserting(Class("OFPFlowUpdateHeader", [event |-> K[t]], "length", "whole", 1,
        <<Fix(K.OFP_FLOW_UPDATE_FULL_0, <<"length", "event", "table_id", "reason",
            "idle_timeout",
              "hard_timeout", "priority", "cookie">>), One("OFPMatch"),
            Each("OFPInstruction")>>),
        "event", K.OFPFME_INITIAL)]
    @@
    [t \in {"OFPFME_PAUSED", "OFPFME_RESUMED"} |->
        Asserting(Class("OFPFlowUpdateHeader", [event |-> K[t]], "length", "whole", 1,
        <<Fix(K.OFP_FLOW_UPDATE_PAUSED, <<"length", "event">>)>>),
        "event", K.OFPFME_PAUSED)]

FromOFPFlowMonitorRequest(K) ==
    [OFPFlowMonitorRequest |-> MpRequest(K, K.OFPMP_FLOW_MONITOR,
        <<Fix(K.OFP_FLOW_MONITOR_REQUEST_0, <<"monitor_id", "out_port", "out_group",
            "monitor_flags",
              "table_id", "command">>), One("OFPMatch")>>),
     OFPFlowMonitorReply |-> MpReply(K, K.OFPMP_FLOW_MONITOR, "OFPFlowUpdateHeader"),
     OFPExperimenterMultipart |-> [Struct("OFPExperimenterMultipart",
        <<Fix(K.OFP_EXPERIMENTER_MULTIPART_HEADER, <<"experimenter", "exp_type">>), Data>>)
            EXCEPT !.adv = K.OFP_METER_FEATURES.size]]

FromOFPExperimenterStatsRequest(K) ==
    [OFPExperimenterStatsRequest |-> MpRequest(K, K.OFPMP_EXPERIMENTER,
        <<App(One("OFPExperimenterMultipart"))>>),
     OFPExperimenterStatsReply |-> MpReplyOne(K, K.OFPMP_EXPERIMENTER,
            "OFPExperimenterMultipart"),
     OFPFlowStats |-> Sized("OFPFlowStats", "length",
        <<Fix(K.OFP_FLOW_STATS_0, <<"length", "table_id", "duration_sec", "duration_nsec",
            "priority", "idle_timeout",
              "hard_timeout", "flags", "importance", "cookie", "packet_count",
            "byte_count">>),
          One("OFPMatch"), Each("OFPInstruction")>>)]

FromOFPFlowStatsRequest(K) ==
    [OFPFlowStatsRequest |-> MpRequest(K, K.OFPMP_FLOW,
        <<Fix(K.OFP_FLOW_STATS_REQUEST_0, <<"table_id", "out_port", "out_group", "cookie",
            "cookie_mask">>),
          One("OFPMatch")>>),
     OFPFlowStatsReply |-> MpReply(K, K.OFPMP_FLOW, "OFPFlowStats"),
     OFPAggregateStats |-> Struct("OFPAggregateStats",
        <<Fix(K.OFP_AGGREGATE_STATS_REPLY, <<"packet_count", "byte_count", "flow_count">>)>>),
     OFPAggregateStatsRequest |-> MpRequest(K, K.OFPMP_AGGREGATE,
        <<Fix(K.OFP_FLOW_STATS_REQUEST_0, <<"table_id", "out_port", "out_group", "cookie",
            "cookie_mask">>),
          One("OFPMatch")>>)]

FromOFPAggregateStatsReply(K) ==
    [OFPAggregateStatsReply |-> MpReplyOne(K, K.OFPMP_AGGREGATE, "OFPAggregateStats"),
     OFPTableStats |-> Struct("OFPTableStats",
        <<Fix(K.OFP_TABLE_STATS, <<"table_id", "active_count", "lookup_count",
            "matched_count">>)>>),
     OFPTableStatsRequest |-> MpRequest(K, K.OFPMP_TABLE, <<>>),
     OFPTableStatsReply |-> MpReply(K, K.OFPMP_TABLE, "OFPTableStats"),
     OFPPortStatsPropEthernet |-> Prop("OFPPortStatsProp", K.OFPPSPT_ETHERNET,
        <<Fix(K.OFP_PORT_STATS_PROP_ETHERNET, <<"type", "length", "rx_frame_err",
            "rx_over_err", "rx_crc_err", "collisions">>)>>)]

FromOFPPortStatsPropOptical(K) ==
    [OFPPortStatsPropOptical |-> Prop("OFPPortStatsProp", K.OFPPSPT_OPTICAL,
        <<Fix(K.OFP_PORT_STATS_PROP_OPTICAL, <<"type", "length", "flags", "tx_freq_lmda",
            "tx_offset", "tx_grid_span", "rx_freq_lmda", "rx_offset", "rx_grid_span",
            "tx_pwr", "rx_pwr", "bias_current", "temperature">>)>>),
     OFPPortStatsPropExperimenter |-> PropExperimenter(K, "OFPPortStatsProp",
            K.OFPPSPT_EXPERIMENTER),
     OFPPortStats |-> ReadOnly(Sized("OFPPortStats", "length",
        <<Fix(K.OFP_PORT_STATS, <<"length", "port_no", "duration_sec", "duration_nsec",
            "rx_packets",
              "tx_packets", "rx_bytes", "tx_bytes", "rx_dropped", "tx_dropped", "rx_errors",
            "tx_errors">>),
          Each("OFPPortStatsProp")>>)),
     OFPPortStatsRequest |-> MpRequest(K, K.OFPMP_PORT_STATS, <<Fix(K.OFP_PORT_STATS_REQUEST,
            <<"port_no">>)>>),
     OFPPortStatsReply |-> MpReply(K, K.OFPMP_PORT_STATS, "OFPPortStats")]

FromOFPBarrierRequest(K) ==
    [OFPBarrierRequest |-> Request(K.OFPT_BARRIER_REQUEST, <<>>),
     OFPBarrierReply |-> Reply(K.OFPT_BARRIER_REPLY, <<>>),
     OFPPortStatus |-> Reply(K.OFPT_PORT_STATUS,
        <<Abs(SubSeq(K.OFP_PORT_STATUS.fmt, 1, 2), <<"reason">>,
            K.OFP_PORT_STATUS_DESC_OFFSET), One("OFPPort")>>)]

FromOFPRoleStatus(K) ==
    [OFPRoleStatus |-> Reply(K.OFPT_ROLE_STATUS,
        <<Body(K.OFP_ROLE_STATUS, <<"role", "reason", "generation_id">>),
            Each("OFPRoleProp")>>),
     OFPTableStatus |-> Reply(K.OFPT_TABLE_STATUS,
        <<Body(K.OFP_TABLE_STATUS_0, <<"reason">>), One("OFPTableDesc")>>)]

FromOFPRequestForward(K) ==
    [OFPRequestForward |-> Msg(K.OFPT_REQUESTFORWARD, <<App(One("request"))>>),
     OFPPacketOut |-> Ordered(Request(K.OFPT_PACKET_OUT,
        <<Body(K.OFP_PACKET_OUT, <<"buffer_id", "in_port", "actions_len">>),
          EachIn("OFPAction", "actions_len"), Data>>), <<2, 3, 1>>)]

FromOFPFlowMod(K) ==
    [OFPFlowMod |-> Request(K.OFPT_FLOW_MOD,
        <<Abs(K.OFP_FLOW_MOD.fmt, <<"cookie", "cookie_mask", "table_id", "command",
            "idle_timeout",
              "hard_timeout", "priority", "buffer_id", "out_port", "out_group", "flags",
            "importance">>,
              K.OFP_FLOW_MOD.size - K.OFP_MATCH.size), One("OFPMatch"),
            Each("OFPInstruction")>>)]

FromOFPInstructionGotoTable(K) ==
    [OFPInstructionGotoTable |-> Elem("OFPInstruction", K.OFPIT_GOTO_TABLE,
        <<Fix(K.OFP_INSTRUCTION_GOTO_TABLE, <<"type", "len", "table_id">>)>>),
     OFPInstructionWriteMetadata |-> Elem("OFPInstruction", K.OFPIT_WRITE_METADATA,
        <<Fix(K.OFP_INSTRUCTION_WRITE_METADATA, <<"type", "len", "metadata",
            "metadata_mask">>)>>)]
    @@
    [t \in {"OFPIT_WRITE_ACTIONS", "OFPIT_APPLY_ACTIONS", "OFPIT_CLEAR_ACTIONS"} |->
        Elem("OFPInstruction", K[t],
        <<Fix(K.OFP_INSTRUCTION_ACTIONS, <<"type", "len">>), Each("OFPAction")>>)]

FromOFPInstructionMeter(K) ==
    [OFPInstructionMeter |-> Elem("OFPInstruction", K.OFPIT_METER,
        <<Fix(K.OFP_INSTRUCTION_METER, <<"type", "len", "meter_id">>)>>),
     OFPActionOutput |-> Elem("OFPAction", K.OFPAT_OUTPUT,
        <<Fix(K.OFP_ACTION_OUTPUT, <<"type", "len", "port", "max_len">>)>>),
     OFPActionGroup |-> Elem("OFPAction", K.OFPAT_GROUP,
        <<Fix(K.OFP_ACTION_GROUP, <<"type", "len", "group_id">>)>>)]

FromOFPActionSetQueue(K) ==
    [OFPActionSetQueue |-> Elem("OFPAction", K.OFPAT_SET_QUEUE,
        <<Fix(K.OFP_ACTION_SET_QUEUE, <<"type", "len", "queue_id">>)>>),
     OFPActionSetMplsTtl |-> Elem("OFPAction", K.OFPAT_SET_MPLS_TTL,
        <<Fix(K.OFP_ACTION_MPLS_TTL, <<"type", "len", "mpls_ttl">>)>>),
     OFPActionDecMplsTtl |-> Elem("OFPAction", K.OFPAT_DEC_MPLS_TTL,
        <<Fix(K.OFP_ACTION_HEADER, <<"type", "len">>)>>),
     OFPActionSetNwTtl |-> Elem("OFPAction", K.OFPAT_SET_NW_TTL,
        <<Fix(K.OFP_ACTION_NW_TTL, <<"type", "len", "nw_ttl">>)>>),
     OFPActionDecNwTtl |-> Elem("OFPAction", K.OFPAT_DEC_NW_TTL,
        <<Fix(K.OFP_ACTION_HEADER, <<"type", "len">>)>>),
     OFPActionCopyTtlOut |-> Elem("OFPAction", K.OFPAT_COPY_TTL_OUT,
        <<Fix(K.OFP_ACTION_HEADER, <<"type", "len">>)>>)]

FromOFPActionCopyTtlIn(K) ==
    [OFPActionCopyTtlIn |-> Elem("OFPAction", K.OFPAT_COPY_TTL_IN,
        <<Fix(K.OFP_ACTION_HEADER, <<"type", "len">>)>>),
     OFPActionPushVlan |-> Elem("OFPAction", K.OFPAT_PUSH_VLAN,
        <<Fix(K.OFP_ACTION_PUSH, <<"type", "len", "ethertype">>)>>),
     OFPActionPushMpls |-> Elem("OFPAction", K.OFPAT_PUSH_MPLS,
        <<Fix(K.OFP_ACTION_PUSH, <<"type", "len", "ethertype">>)>>),
     OFPActionPopVlan |-> Elem("OFPAction", K.OFPAT_POP_VLAN,
        <<Fix(K.OFP_ACTION_HEADER, <<"type", "len">>)>>),
     OFPActionPopMpls |-> Elem("OFPAction", K.OFPAT_POP_MPLS,
        <<Fix(K.OFP_ACTION_POP_MPLS, <<"type", "len", "ethertype">>)>>)]

FromOFPActionSetField(K) ==
    [OFPActionSetField |-> Elem("OFPAction", K.OFPAT_SET_FIELD, <<Raw(<<2, 2>>, <<"type",
            "len">>), One("oxm")>>),
     OFPActionPushPbb |-> Elem("OFPAction", K.OFPAT_PUSH_PBB,
        <<Fix(K.OFP_ACTION_PUSH, <<"type", "len", "ethertype">>)>>),
     OFPActionPopPbb |-> Elem("OFPAction", K.OFPAT_POP_PBB,
        <<Fix(K.OFP_ACTION_HEADER, <<"type", "len">>)>>),
     OFPActionExperimenter |-> [Elem("OFPAction", K.OFPAT_EXPERIMENTER,
        <<Fix(K.OFP_ACTION_EXPERIMENTER_HEADER, <<"type", "len", "experimenter">>), Data>>)
            EXCEPT !.pads = FALSE, !.grain = 8]]

FromOFPGroupMod(K) ==
    [OFPGroupMod |-> Msg(K.OFPT_GROUP_MOD,
        <<Body(K.OFP_GROUP_MOD, <<"command", "type", "group_id">>), Each("OFPBucket")>>),
     OFPPortModPropEthernet |-> Prop("OFPPortModProp", K.OFPPMPT_ETHERNET,
        <<Fix(K.OFP_PORT_MOD_PROP_ETHERNET, <<"type", "length", "advertise">>)>>),
     OFPPortModPropOptical |-> Prop("OFPPortModProp", K.OFPPMPT_OPTICAL,
        <<Fix(K.OFP_PORT_MOD_PROP_OPTICAL, <<"type", "length", "configure", "freq_lmda",
            "fl_offset",
              "grid_span", "tx_pwr">>)>>),
     OFPPortModPropExperimenter |-> PropExperimenter(K, "OFPPortModProp", K.OFPPMPT_EXPERIMENTER)]

FromOFPPortMod(K) ==
    [OFPPortMod |-> Request(K.OFPT_PORT_MOD,
        <<Body(K.OFP_PORT_MOD, <<"port_no", "hw_addr", "config", "mask">>),
            App(Each("OFPPortModProp"))>>),
     OFPBucket |-> [Class("OFPBucket", <<>>, "len", "whole", 8,
        <<Fix(K.OFP_BUCKET, <<"len", "weight", "watch_port", "watch_group">>),
            Each("OFPAction")>>)
            EXCEPT !.pads = FALSE]]

FromOFPRoleRequest(K) ==
    [OFPRoleRequest |-> Request(K.OFPT_ROLE_REQUEST,
        <<Body(K.OFP_ROLE_REQUEST, <<"role", "generation_id">>)>>),
     OFPRoleReply |-> Reply(K.OFPT_ROLE_REPLY,
        <<Body(K.OFP_ROLE_REQUEST, <<"role", "generation_id">>)>>)]
    @@
    [t \in {"OFPACPT_PACKET_IN_SLAVE", "OFPACPT_PACKET_IN_MASTER",
            "OFPACPT_PORT_STATUS_SLAVE", "OFPACPT_PORT_STATUS_MASTER",
            "OFPACPT_FLOW_REMOVED_SLAVE", "OFPACPT_FLOW_REMOVED_MASTER",
            "OFPACPT_ROLE_STATUS_SLAVE", "OFPACPT_ROLE_STATUS_MASTER",
            "OFPACPT_TABLE_STATUS_SLAVE", "OFPACPT_TABLE_STATUS_MASTER",
            "OFPACPT_REQUESTFORWARD_SLAVE", "OFPACPT_REQUESTFORWARD_MASTER"} |->
        Prop("OFPAsyncConfigProp", K[t],
        <<Fix(K.OFP_ASYNC_CONFIG_PROP_REASONS, <<"type", "length", "mask">>)>>)]
    @@
    [t \in {"OFPTFPT_EXPERIMENTER_SLAVE", "OFPTFPT_EXPERIMENTER_MASTER"} |->
        PropExperimenter(K, "OFPAsyncConfigProp", K[t])]

FromOFPGetAsyncRequest(K) ==
    [OFPGetAsyncRequest |-> Request(K.OFPT_GET_ASYNC_REQUEST, <<>>),
     OFPGetAsyncReply |-> Reply(K.OFPT_GET_ASYNC_REPLY, <<Each("OFPAsyncConfigProp")>>),
     OFPSetAsync |-> Request(K.OFPT_SET_ASYNC, <<App(Each("OFPAsyncConfigProp"))>>)]

FromOFPBundleCtrlMsg(K) ==
    [OFPBundleCtrlMsg |-> Request(K.OFPT_BUNDLE_CONTROL,
        <<Body(K.OFP_BUNDLE_CTRL_MSG, <<"bundle_id", "type", "flags">>),
            App(Each("OFPBundleProp"))>>),
     OFPBundleAddMsg |-> Request(K.OFPT_BUNDLE_ADD_MESSAGE,
        <<Raw(<<4, -2, 2>>, <<"bundle_id", "flags">>),
          App(One("bundled")), PadTo8, App(Each("OFPBundleProp"))>>)]

Classes(K) ==
    FromOFPHello(K) @@ FromOFPErrorMsg(K) @@ FromOFPFeaturesRequest(K) @@ FromOFPGetConfigReply(K)
    @@ FromOFPMatch(K) @@ FromOFPPortDescPropEthernet(K) @@ FromOFPQueueDescPropMaxRate(K)
    @@ FromOFPFlowRemoved(K) @@ FromOFPPort(K) @@ FromOFPMeterMod(K) @@ FromOFPDescStats(K)
    @@ FromOFPInstructionId(K) @@ FromOFPOxmId(K) @@ FromOFPPortDescStatsRequest(K)
    @@ FromOFPQueueDescStatsReply(K) @@ FromOFPBucketCounter(K) @@ FromOFPGroupDescStatsRequest(K)
    @@ FromOFPMeterStats(K) @@ FromOFPMeterBandDrop(K) @@ FromOFPMeterConfigStatsReply(K)
    @@ FromOFPFlowUpdateFull(K) @@ FromOFPFlowMonitorRequest(K)
    @@ FromOFPExperimenterStatsRequest(K) @@ FromOFPFlowStatsRequest(K)
    @@ FromOFPAggregateStatsReply(K) @@ FromOFPPortStatsPropOptical(K) @@ FromOFPBarrierRequest(K)
    @@ FromOFPRoleStatus(K) @@ FromOFPRequestForward(K) @@ FromOFPFlowMod(K)
    @@ FromOFPInstructionGotoTable(K) @@ FromOFPInstructionMeter(K) @@ FromOFPActionSetQueue(K)
    @@ FromOFPActionCopyTtlIn(K) @@ FromOFPActionSetField(K) @@ FromOFPGroupMod(K)
    @@ FromOFPPortMod(K) @@ FromOFPRoleRequest(K) @@ FromOFPGetAsyncRequest(K)
    @@ FromOFPBundleCtrlMsg(K) @@ OxmClasses(OxmTypes)
    @@ [exp_data |-> exp_data]

\* What a request-forward or a bundle may hold.
Protocol ==
    LET v == Version(5, Classes(Constants))
    IN  [v EXCEPT !.fam = @ @@ [request |-> {"OFPGroupMod", "OFPMeterMod"},
                                bundled |-> {"OFPFlowMod", "OFPPortMod", "OFPPacketOut"}]]

============================================================================
