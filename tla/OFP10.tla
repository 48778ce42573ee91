------------------------------ MODULE OFP10 -------------------------------
(***************************************************************************)
(* OpenFlow 1.0 and its Nicira(K) extensions: the constants of                *)
(* ryu/ofproto/ofproto_v1_0.py and nicira_ext.py, and the classes of       *)
(* ryu/ofproto/ofproto_v1_0_parser.py, in the order of the source.         *)
(***************************************************************************)
EXTENDS Oxx

Constants1 ==
    [OFPT_HELLO |-> 0, OFPT_ERROR |-> 1, OFPT_ECHO_REQUEST |-> 2, OFPT_ECHO_REPLY |-> 3,
     OFPT_VENDOR |-> 4, OFPT_FEATURES_REQUEST |-> 5, OFPT_FEATURES_REPLY |-> 6,
     OFPT_GET_CONFIG_REQUEST |-> 7, OFPT_GET_CONFIG_REPLY |-> 8, OFPT_SET_CONFIG |-> 9,
     OFPT_PACKET_IN |-> 10, OFPT_FLOW_REMOVED |-> 11, OFPT_PORT_STATUS |-> 12,
     OFPT_PACKET_OUT |-> 13, OFPT_FLOW_MOD |-> 14, OFPT_PORT_MOD |-> 15,
     OFPT_STATS_REQUEST |-> 16, OFPT_STATS_REPLY |-> 17, OFPT_BARRIER_REQUEST |-> 18,
     OFPT_BARRIER_REPLY |-> 19, OFPT_QUEUE_GET_CONFIG_REQUEST |-> 20,
     OFPT_QUEUE_GET_CONFIG_REPLY |-> 21]

Constants2 ==
    [OFP_SWITCH_CONFIG |-> P(<<2, 2>>, 12)]

Constants3 ==
    [OFP_PHY_PORT |-> P(<<2, 6, 16, 4, 4, 4, 4, 4, 4>>, 48),
     OFP_SWITCH_FEATURES |-> P(<<8, 4, 1, -3, 4, 4>>, 32),
     OFP_PORT_STATUS |-> P(<<1, -7, 2, 6, 16, 4, 4, 4, 4, 4, 4>>, 64),
     OFP_PORT_STATUS_DESC_OFFSET |-> 16, OFP_PORT_MOD |-> P(<<2, 6, 4, 4, 4, -4>>, 32)]

Constants4 ==
    [OFP_PACKET_IN |-> P(<<4, 2, 2, 1, -1>>, 18), OFPAT_OUTPUT |-> 0,
     OFPAT_SET_VLAN_VID |-> 1, OFPAT_SET_VLAN_PCP |-> 2, OFPAT_STRIP_VLAN |-> 3,
     OFPAT_SET_DL_SRC |-> 4, OFPAT_SET_DL_DST |-> 5, OFPAT_SET_NW_SRC |-> 6,
     OFPAT_SET_NW_DST |-> 7, OFPAT_SET_NW_TOS |-> 8, OFPAT_SET_TP_SRC |-> 9,
     OFPAT_SET_TP_DST |-> 10, OFPAT_ENQUEUE |-> 11, OFPAT_VENDOR |-> 65535,
     OFP_ACTION_OUTPUT |-> P(<<2, 2, 2, 2>>, 8),
     OFP_ACTION_VLAN_VID |-> P(<<2, 2, 2, -2>>, 8),
     OFP_ACTION_VLAN_PCP |-> P(<<2, 2, 1, -3>>, 8),
     OFP_ACTION_DL_ADDR |-> P(<<2, 2, 6, -6>>, 16), OFP_ACTION_NW_ADDR |-> P(<<2, 2, 4>>, 8),
     OFP_ACTION_NW_TOS |-> P(<<2, 2, 1, -3>>, 8),
     OFP_ACTION_TP_PORT |-> P(<<2, 2, 2, -2>>, 8), OFP_ACTION_HEADER |-> P(<<2, 2, -4>>, 8),
     OFP_ACTION_ENQUEUE |-> P(<<2, 2, 2, -6, 4>>, 16), OFP_PACKET_OUT |-> P(<<4, 2, 2>>, 16)]

Constants5 ==
    [OFP_MATCH |-> P(<<4, 2, 6, 6, 2, 1, -1, 2, 1, 1, -2, 4, 4, 2, 2>>, 40)]

Constants6 ==
    [OFP_FLOW_MOD |-> P(<<8, 2, 2, 2, 2, 4, 2, 2>>, 72),
     OFP_FLOW_REMOVED |-> P(<<8, 2, 1, -1, 4, 4, 2, -2, 8, 8>>, 88)]

Constants7 ==
    [OFP_ERROR_MSG |-> P(<<2, 2>>, 12), OFPST_DESC |-> 0, OFPST_FLOW |-> 1,
     OFPST_AGGREGATE |-> 2, OFPST_TABLE |-> 3, OFPST_PORT |-> 4, OFPST_QUEUE |-> 5,
     OFPST_VENDOR |-> 65535, OFP_STATS_MSG |-> P(<<2, 2>>, 12),
     OFP_DESC_STATS |-> P(<<256, 256, 256, 32, 256>>, 1068)]

Constants8 ==
    [OFP_FLOW_STATS_0 |-> P(<<2, 1, -1>>, 4),
     OFP_FLOW_STATS_1 |-> P(<<4, 4, 2, 2, 2, -6, 8, 8, 8>>, 44),
     OFP_AGGREGATE_STATS_REPLY |-> P(<<8, 8, 4, -4>>, 36),
     OFP_TABLE_STATS |-> P(<<1, -3, 32, 4, 4, 4, 8, 8>>, 64),
     OFP_PORT_STATS_REQUEST |-> P(<<2, -6>>, 20),
     OFP_PORT_STATS |-> P(<<2, -6, 8, 8, 8, 8, 8, 8, 8, 8, 8, 8, 8, 8>>, 104),
     OFP_QUEUE_STATS_REQUEST |-> P(<<2, -2, 4>>, 8),
     OFP_QUEUE_STATS |-> P(<<2, -2, 4, 8, 8, 8>>, 32), OFP_VENDOR_STATS_MSG |-> P(<<4>>, 16),
     OFP_VENDOR_HEADER |-> P(<<4>>, 12), OFP_QUEUE_GET_CONFIG_REQUEST |-> P(<<2, -2>>, 12),
     OFP_QUEUE_GET_CONFIG_REPLY |-> P(<<2, -6>>, 16), OFPQT_NONE |-> 0, OFPQT_MIN_RATE |-> 1,
     OFP_QUEUE_PROP_HEADER |-> P(<<2, 2, -4>>, 8),
     OFP_QUEUE_PROP_MIN_RATE |-> P(<<2, -6>>, 16)]

Constants9 ==
    [NXAST_RESUBMIT |-> 1, NXAST_SET_TUNNEL |-> 2, NXAST_SET_QUEUE |-> 4,
     NXAST_POP_QUEUE |-> 5, NXAST_REG_MOVE |-> 6, NXAST_REG_LOAD |-> 7, NXAST_NOTE |-> 8,
     NXAST_SET_TUNNEL64 |-> 9, NXAST_MULTIPATH |-> 10, NXAST_AUTOPATH |-> 11,
     NXAST_BUNDLE |-> 12, NXAST_BUNDLE_LOAD |-> 13, NXAST_RESUBMIT_TABLE |-> 14,
     NXAST_OUTPUT_REG |-> 15, NXAST_LEARN |-> 16, NXAST_EXIT |-> 17, NXAST_DEC_TTL |-> 18,
     NXAST_FIN_TIMEOUT |-> 19, NXAST_CONTROLLER |-> 20,
     NX_ACTION_RESUBMIT |-> P(<<2, 2, 4, 2, 2, 1, -3>>, 16),
     NX_ACTION_SET_TUNNEL |-> P(<<2, 2, 4, 2, -2, 4>>, 16),
     NX_ACTION_SET_QUEUE |-> P(<<2, 2, 4, 2, -2, 4>>, 16),
     NX_ACTION_POP_QUEUE |-> P(<<2, 2, 4, 2, -6>>, 16),
     NX_ACTION_REG_MOVE |-> P(<<2, 2, 4, 2, 2, 2, 2, 4, 4>>, 24),
     NX_ACTION_REG_LOAD |-> P(<<2, 2, 4, 2, 2, 4, 8>>, 24),
     NX_ACTION_SET_TUNNEL64 |-> P(<<2, 2, 4, 2, -6, 8>>, 24),
     NX_ACTION_MULTIPATH |-> P(<<2, 2, 4, 2, 2, 2, -2, 2, 2, 4, -2, 2, 4>>, 32),
     NX_ACTION_NOTE |-> P(<<2, 2, 4, 2, 1, 1, 1, 1, 1, 1>>, 16),
     NX_ACTION_BUNDLE |-> P(<<2, 2, 4, 2, 2, 2, 2, 4, 2, 2, 4, -4>>, 32),
     NX_ACTION_AUTOPATH |-> P(<<2, 2, 4, 2, 2, 4, 4, -4>>, 24),
     NX_ACTION_OUTPUT_REG |-> P(<<2, 2, 4, 2, 2, 4, 2, -6>>, 24),
     NX_ACTION_LEARN |-> P(<<2, 2, 4, 2, 2, 2, 2, 8, 2, 1, -1, 2, 2>>, 32),
     NX_ACTION_CONTROLLER |-> P(<<2, 2, 4, 2, 2, 2, 1, 1>>, 16),
     NX_ACTION_FIN_TIMEOUT |-> P(<<2, 2, 4, 2, 2, 2, -2>>, 16),
     NX_ACTION_HEADER |-> P(<<2, 2, 4, 2, -6>>, 16), NXT_ROLE_REQUEST |-> 10,
     NXT_ROLE_REPLY |-> 11, NXT_SET_FLOW_FORMAT |-> 12, NXT_FLOW_MOD |-> 13,
     NXT_FLOW_REMOVED |-> 14, NXT_FLOW_MOD_TABLE_ID |-> 15, NXT_SET_PACKET_IN_FORMAT |-> 16,
     NXT_PACKET_IN |-> 17, NXT_FLOW_AGE |-> 18, NXT_SET_ASYNC_CONFIG |-> 19,
     NXT_SET_CONTROLLER_ID |-> 20]

Constants10 ==
    [NXST_FLOW |-> 0, NXST_AGGREGATE |-> 1, NICIRA_HEADER |-> P(<<4, 4>>, 16),
     NX_ROLE |-> P(<<4>>, 20), NX_FLOW_MOD |-> P(<<8, 2, 2, 2, 2, 4, 2, 2, 2, -6>>, 48),
     NX_SET_FLOW_FORMAT |-> P(<<4>>, 20),
     NX_FLOW_REMOVED |-> P(<<8, 2, 1, -1, 4, 4, 2, 2, 8, 8>>, 56),
     NX_FLOW_MOD_TABLE_ID |-> P(<<1, -7>>, 24), NX_SET_PACKET_IN_FORMAT |-> P(<<4>>, 20),
     NX_PACKET_IN |-> P(<<4, 2, 1, 1, 8, 2, -6>>, 40),
     NX_ASYNC_CONFIG |-> P(<<4, 4, 4, 4, 4, 4>>, 40), NX_CONTROLLER_ID |-> P(<<-6, 2>>, 24),
     NX_STATS_MSG |-> P(<<4, -4>>, 24), NX_FLOW_STATS_REQUEST |-> P(<<2, 2, 1, -3>>, 8),
     NX_FLOW_STATS |-> P(<<2, 1, -1, 4, 4, 2, 2, 2, 2, 2, 2, 8, 8, 8>>, 48),
     NX_AGGREGATE_STATS_REQUEST |-> P(<<2, 2, 1, -3>>, 8),
     NX_AGGREGATE_STATS_REPLY |-> P(<<8, 8, 4, -4>>, 24)]

Constants ==
    Constants1 @@ Constants2 @@ Constants3 @@ Constants4 @@ Constants5 @@ Constants6
    @@ Constants7 @@ Constants8 @@ Constants9 @@ Constants10

----------------------------------------------------------------------------
\* OFPStatsRequest and OFPStatsReply: a type, flags and a body, which
\* the reply's parser reads to the end of the message.
MpRequest(K, type, parts) ==
    Sub(Request(K.OFPT_STATS_REQUEST, <<Body(K.OFP_STATS_MSG, <<"type", "flags">>)>> \o parts),
        "type", type)
MpReplyOf(K, type, part) ==
    Sub(Reply(K.OFPT_STATS_REPLY, <<Body(K.OFP_STATS_MSG, <<"type", "flags">>), part>>),
        "type", type)
MpReply(K, type, of) == MpReplyOf(K, type, Each(of))
MpReplyOne(K, type, of) == MpReplyOf(K, type, First(of))

\* OFPQueuePropHeader: a header, then the property in what is left of its SIZE.
QueueProp(K, property, p, names, parts) ==
    Class("OFPQueueProp", [property |-> property], "len", "whole", 1,
          <<Fix(K.OFP_QUEUE_PROP_HEADER, <<"property", "len">>),
            Fix(P(p.fmt, p.size - K.OFP_QUEUE_PROP_HEADER.size), names)>> \o parts)

\* NXActionHeader, NiciraHeader, NXStatsRequest and NXStatsReply: vendor
\* actions, messages and statistics, told apart by the vendor and a subtype.
NXAction(K, subtype, p, names, parts) ==
    Sub(Sub(Elem("OFPAction", K.OFPAT_VENDOR,
                 <<Fix(p, <<"type", "len", "vendor", "subtype">> \o names)>> \o parts),
            "vendor", NX_EXPERIMENTER_ID), "subtype", subtype)
Nicira(K, dir, subtype, parts) ==
    [Sub(Sub(Msg(K.OFPT_VENDOR, <<Body(K.NICIRA_HEADER, <<"vendor", "subtype">>)>> \o parts),
             "vendor", NX_EXPERIMENTER_ID), "subtype", subtype) EXCEPT !.dir = dir]
NXStats(K, c, subtype, parts) ==
    Ordered(Sub(Sub(Sub([c EXCEPT !.parts =
                            <<Abs(K.OFP_STATS_MSG.fmt \o K.OFP_VENDOR_STATS_MSG.fmt \o K.NX_STATS_MSG.fmt,
                                  <<"type", "flags", "vendor", "subtype">>, K.NX_STATS_MSG.size)>> \o parts],
                        "type", K.OFPST_VENDOR), "vendor", NX_EXPERIMENTER_ID), "subtype", subtype),
            [i \in 1 .. Len(parts) + 1 |-> i])

\* The fields of the Nicira extended match, those that take a mask, and those
\* a parser is registered for (MFField.register_field_header).
NxmTypes ==
    [NXM_OF_IN_PORT |-> NiciraExtended0(0, 2), NXM_OF_ETH_DST |-> NiciraExtended0(1, 6),
     NXM_OF_ETH_SRC |-> NiciraExtended0(2, 6), NXM_OF_ETH_TYPE |-> NiciraExtended0(3, 2),
     NXM_OF_VLAN_TCI |-> NiciraExtended0(4, 2), NXM_OF_IP_TOS |-> NiciraExtended0(5, 1),
     NXM_NX_TUN_ID |-> NiciraExtended1(16, 8), NXM_OF_IP_SRC |-> NiciraExtended0(7, 4),
     NXM_OF_IP_DST |-> NiciraExtended0(8, 4), NXM_NX_IP_ECN |-> NiciraExtended1(28, 1),
     NXM_NX_IP_TTL |-> NiciraExtended1(29, 1), NXM_OF_IP_PROTO |-> NiciraExtended0(6, 1),
     NXM_OF_TCP_SRC |-> NiciraExtended0(9, 2), NXM_OF_UDP_SRC |-> NiciraExtended0(11, 2),
     NXM_OF_TCP_DST |-> NiciraExtended0(10, 2), NXM_OF_UDP_DST |-> NiciraExtended0(12, 2),
     NXM_OF_ARP_SPA |-> NiciraExtended0(16, 4), NXM_OF_ARP_TPA |-> NiciraExtended0(17, 4),
     NXM_NX_ARP_SHA |-> NiciraExtended1(17, 6), NXM_NX_IPV6_SRC |-> NiciraExtended1(19, 16),
     NXM_NX_IPV6_DST |-> NiciraExtended1(20, 16),
     NXM_NX_ND_TARGET |-> NiciraExtended1(23, 16),
     NXM_NX_IP_FRAG |-> NiciraExtended1(26, 1), NXM_NX_ARP_THA |-> NiciraExtended1(18, 6),
     NXM_OF_ICMP_TYPE |-> NiciraExtended0(13, 1),
     NXM_OF_ICMP_CODE |-> NiciraExtended0(14, 1),
     NXM_NX_ICMPV6_TYPE |-> NiciraExtended1(21, 1),
     NXM_NX_ICMPV6_CODE |-> NiciraExtended1(22, 1),
     NXM_NX_IPV6_LABEL |-> NiciraExtended1(27, 4), NXM_NX_REG0 |-> NiciraExtended1(0, 4),
     NXM_NX_REG1 |-> NiciraExtended1(1, 4), NXM_NX_REG2 |-> NiciraExtended1(2, 4),
     NXM_NX_REG3 |-> NiciraExtended1(3, 4), NXM_NX_REG4 |-> NiciraExtended1(4, 4),
     NXM_NX_REG5 |-> NiciraExtended1(5, 4), NXM_NX_REG6 |-> NiciraExtended1(6, 4),
     NXM_NX_REG7 |-> NiciraExtended1(7, 4), NXM_NX_PKT_MARK |-> NiciraExtended1(33, 4)]

NxmMasked ==
    {"NXM_OF_ETH_DST", "NXM_OF_ETH_SRC", "NXM_OF_VLAN_TCI", "NXM_NX_TUN_ID",
     "NXM_OF_IP_SRC", "NXM_OF_IP_DST", "NXM_OF_TCP_SRC", "NXM_OF_UDP_SRC", "NXM_OF_TCP_DST",
     "NXM_OF_UDP_DST", "NXM_OF_ARP_SPA", "NXM_OF_ARP_TPA", "NXM_NX_IPV6_SRC",
     "NXM_NX_IPV6_DST", "NXM_NX_ND_TARGET", "NXM_NX_IP_FRAG", "NXM_NX_REG0", "NXM_NX_REG1",
     "NXM_NX_REG2", "NXM_NX_REG3", "NXM_NX_REG4", "NXM_NX_REG5", "NXM_NX_REG6",
     "NXM_NX_REG7", "NXM_NX_PKT_MARK"}

NxmRead ==
    {"NXM_OF_IN_PORT", "NXM_OF_ETH_DST", "NXM_OF_ETH_SRC", "NXM_OF_ETH_TYPE",
     "NXM_OF_VLAN_TCI", "NXM_OF_IP_TOS", "NXM_NX_TUN_ID", "NXM_OF_IP_SRC", "NXM_OF_IP_DST",
     "NXM_NX_IPV6_SRC", "NXM_NX_IPV6_DST"}

NxmClass(n, hasmask) ==
    [OxxClass("nxm", NxmTypes[n], hasmask)
        EXCEPT !.dir = IF n \in NxmRead THEN {"put", "get"} ELSE {"put"}]
NxmClasses ==
    [n \in DOMAIN NxmTypes |-> NxmClass(n, 0)]
    @@ [n \in {m \o "_W" : m \in NxmMasked} |->
           NxmClass(CHOOSE m \in NxmMasked : m \o "_W" = n, 1)]

FromOFPPhyPort(K) ==
    [OFPPhyPort |-> Struct("OFPPhyPort",
        <<Fix(K.OFP_PHY_PORT, <<"port_no", "hw_addr", "name", "config", "state", "curr",
            "advertised", "supported", "peer">>)>>)]

FromOFPMatch(K) ==
    [OFPMatch |-> Struct("OFPMatch",
        <<Fix(K.OFP_MATCH, <<"wildcards", "in_port", "dl_src", "dl_dst", "dl_vlan",
            "dl_vlan_pcp", "dl_type", "nw_tos",
              "nw_proto", "nw_src", "nw_dst", "tp_src", "tp_dst">>)>>)]

FromOFPActionOutput(K) ==
    [OFPActionOutput |-> Elem("OFPAction", K.OFPAT_OUTPUT,
        <<Fix(K.OFP_ACTION_OUTPUT, <<"type", "len", "port", "max_len">>)>>),
     OFPActionVlanVid |-> Elem("OFPAction", K.OFPAT_SET_VLAN_VID,
        <<Fix(K.OFP_ACTION_VLAN_VID, <<"type", "len", "vlan_vid">>)>>),
     OFPActionVlanPcp |-> Elem("OFPAction", K.OFPAT_SET_VLAN_PCP,
        <<Fix(K.OFP_ACTION_VLAN_PCP, <<"type", "len", "vlan_pcp">>)>>),
     OFPActionStripVlan |-> Elem("OFPAction", K.OFPAT_STRIP_VLAN,
        <<Fix(K.OFP_ACTION_HEADER, <<"type", "len">>)>>)]

FromOFPActionSetDlSrc(K) ==
    [OFPActionSetDlSrc |-> Elem("OFPAction", K.OFPAT_SET_DL_SRC, <<Fix(K.OFP_ACTION_DL_ADDR,
            <<"type", "len", "dl_addr">>)>>),
     OFPActionSetDlDst |-> Elem("OFPAction", K.OFPAT_SET_DL_DST, <<Fix(K.OFP_ACTION_DL_ADDR,
            <<"type", "len", "dl_addr">>)>>),
     OFPActionSetNwSrc |-> Elem("OFPAction", K.OFPAT_SET_NW_SRC, <<Fix(K.OFP_ACTION_NW_ADDR,
            <<"type", "len", "nw_addr">>)>>),
     OFPActionSetNwDst |-> Elem("OFPAction", K.OFPAT_SET_NW_DST, <<Fix(K.OFP_ACTION_NW_ADDR,
            <<"type", "len", "nw_addr">>)>>),
     OFPActionSetNwTos |-> Elem("OFPAction", K.OFPAT_SET_NW_TOS,
        <<Fix(K.OFP_ACTION_NW_TOS, <<"type", "len", "tos">>)>>)]

FromOFPActionSetTpSrc(K) ==
    [OFPActionSetTpSrc |-> Elem("OFPAction", K.OFPAT_SET_TP_SRC, <<Fix(K.OFP_ACTION_TP_PORT,
            <<"type", "len", "tp">>)>>),
     OFPActionSetTpDst |-> Elem("OFPAction", K.OFPAT_SET_TP_DST, <<Fix(K.OFP_ACTION_TP_PORT,
            <<"type", "len", "tp">>)>>),
     OFPActionEnqueue |-> Elem("OFPAction", K.OFPAT_ENQUEUE,
        <<Fix(K.OFP_ACTION_ENQUEUE, <<"type", "len", "port", "queue_id">>)>>)]

FromNXActionResubmit(K) ==
    [NXActionResubmit |-> NXAction(K, K.NXAST_RESUBMIT, K.NX_ACTION_RESUBMIT,
        <<"in_port", "table">>, <<>>),
     NXActionResubmitTable |-> NXAction(K, K.NXAST_RESUBMIT_TABLE, K.NX_ACTION_RESUBMIT,
        <<"in_port", "table">>, <<>>),
     NXActionSetTunnel |-> NXAction(K, K.NXAST_SET_TUNNEL, K.NX_ACTION_SET_TUNNEL, <<"tun_id">>,
            <<>>),
     NXActionSetQueue |-> NXAction(K, K.NXAST_SET_QUEUE, K.NX_ACTION_SET_QUEUE, <<"queue_id">>,
            <<>>),
     NXActionPopQueue |-> NXAction(K, K.NXAST_POP_QUEUE, K.NX_ACTION_POP_QUEUE, <<>>, <<>>),
     NXActionRegMove |-> NXAction(K, K.NXAST_REG_MOVE, K.NX_ACTION_REG_MOVE,
        <<"n_bits", "src_ofs", "dst_ofs", "src", "dst">>, <<>>),
     NXActionRegLoad |-> NXAction(K, K.NXAST_REG_LOAD, K.NX_ACTION_REG_LOAD,
        <<"ofs_nbits", "dst", "value">>, <<>>),
     NXActionSetTunnel64 |-> NXAction(K, K.NXAST_SET_TUNNEL64, K.NX_ACTION_SET_TUNNEL64,
        <<"tun_id">>, <<>>)]

FromNXActionMultipath(K) ==
    [NXActionMultipath |-> NXAction(K, K.NXAST_MULTIPATH, K.NX_ACTION_MULTIPATH,
        <<"fields", "basis", "algorithm", "max_link", "arg", "ofs_nbits", "dst">>, <<>>),
     NXActionNote |-> [NXAction(K, K.NXAST_NOTE, K.NX_ACTION_NOTE,
        <<"note0", "note1", "note2", "note3", "note4", "note5">>,
            <<At(Data)>>) EXCEPT !.grain = 8],
     NXActionBundle |-> [NXAction(K, K.NXAST_BUNDLE, K.NX_ACTION_BUNDLE,
        <<"algorithm", "fields", "basis", "slave_type", "n_slaves", "ofs_nbits", "dst">>,
        <<EachOf("slave", "n_slaves")>>) EXCEPT !.conv = "again"],
     slave |-> Struct("slave", <<Raw(<<2>>, <<"slave">>)>>),
     NXActionBundleLoad |-> [NXAction(K, K.NXAST_BUNDLE_LOAD, K.NX_ACTION_BUNDLE,
        <<"algorithm", "fields", "basis", "slave_type", "n_slaves", "ofs_nbits", "dst">>,
        <<EachOf("slave", "n_slaves")>>) EXCEPT !.conv = "again"]]

FromNXActionAutopath(K) ==
    [NXActionAutopath |-> NXAction(K, K.NXAST_AUTOPATH, K.NX_ACTION_AUTOPATH,
        <<"ofs_nbits", "dst", "id">>, <<>>),
     NXActionOutputReg |-> NXAction(K, K.NXAST_OUTPUT_REG, K.NX_ACTION_OUTPUT_REG,
        <<"ofs_nbits", "src", "max_len">>, <<>>),
     NXActionExit |-> NXAction(K, K.NXAST_EXIT, K.NX_ACTION_HEADER, <<>>, <<>>),
     NXActionDecTtl |-> NXAction(K, K.NXAST_DEC_TTL, K.NX_ACTION_HEADER, <<>>, <<>>),
     NXActionLearn |-> [NXAction(K, K.NXAST_LEARN, K.NX_ACTION_LEARN,
        <<"idle_timeout", "hard_timeout", "priority", "cookie", "flags", "table_id",
          "fin_idle_timeout", "fin_hard_timeout">>, <<DataRest>>) EXCEPT !.conv = "next"],
     NXActionController |-> NXAction(K, K.NXAST_CONTROLLER, K.NX_ACTION_CONTROLLER,
        <<"max_len", "controller_id", "reason", "zero">>, <<>>)]

FromNXActionFinTimeout(K) ==
    [NXActionFinTimeout |-> NXAction(K, K.NXAST_FIN_TIMEOUT, K.NX_ACTION_FIN_TIMEOUT,
        <<"fin_idle_timeout", "fin_hard_timeout">>, <<>>),
     OFPDescStats |-> Struct("OFPDescStats",
        <<Fix(K.OFP_DESC_STATS, <<"mfr_desc", "hw_desc", "sw_desc", "serial_num",
            "dp_desc">>)>>),
     OFPFlowStats |-> Sized("OFPFlowStats", "length",
        <<Fix(K.OFP_FLOW_STATS_0, <<"length", "table_id">>), One("OFPMatch"),
          Fix(K.OFP_FLOW_STATS_1, <<"duration_sec", "duration_nsec", "priority",
            "idle_timeout",
              "hard_timeout", "cookie", "packet_count", "byte_count">>), Each("OFPAction")>>),
     OFPAggregateStats |-> Struct("OFPAggregateStats",
        <<Fix(K.OFP_AGGREGATE_STATS_REPLY, <<"packet_count", "byte_count", "flow_count">>)>>),
     OFPTableStats |-> Struct("OFPTableStats",
        <<Fix(K.OFP_TABLE_STATS, <<"table_id", "name", "wildcards", "max_entries",
            "active_count", "lookup_count", "matched_count">>)>>),
     OFPPortStats |-> Struct("OFPPortStats",
        <<Fix(K.OFP_PORT_STATS, <<"port_no", "rx_packets", "tx_packets", "rx_bytes",
            "tx_bytes", "rx_dropped", "tx_dropped", "rx_errors", "tx_errors", "rx_frame_err",
            "rx_over_err", "rx_crc_err", "collisions">>)>>)]

FromOFPQueueStats(K) ==
    [OFPQueueStats |-> Struct("OFPQueueStats",
        <<Fix(K.OFP_QUEUE_STATS, <<"port_no", "queue_id", "tx_bytes", "tx_packets",
            "tx_errors">>)>>),
     NXFlowStats |-> Sized("NXFlowStats", "length",
        <<Fix(K.NX_FLOW_STATS, <<"length", "table_id", "duration_sec", "duration_nsec",
            "priority",
              "idle_timeout", "hard_timeout", "match_len", "idle_age", "hard_age", "cookie",
              "packet_count", "byte_count">>),
          EachIn("nxm", "match_len"), Pad8, Each("OFPAction")>>),
     NXAggregateStats |-> Struct("NXAggregateStats",
        <<Fix(K.NX_AGGREGATE_STATS_REPLY, <<"packet_count", "byte_count", "flow_count">>)>>),
     OFPQueuePropNone |-> Class("OFPQueueProp", [property |-> K.OFPQT_NONE], "len", "whole",
            1,
        <<Fix(K.OFP_QUEUE_PROP_HEADER, <<"property", "len">>)>>),
     OFPQueuePropMinRate |-> QueueProp(K, K.OFPQT_MIN_RATE, K.OFP_QUEUE_PROP_MIN_RATE,
            <<"rate">>, <<>>)]

FromOFPPacketQueue(K) ==
    [OFPPacketQueue |-> Sized("OFPPacketQueue", "len",
        <<Raw(<<4, 2, -2>>, <<"queue_id", "len">>), Each("OFPQueueProp")>>),
     OFPHello |-> Reply(K.OFPT_HELLO, <<>>),
     OFPErrorMsg |-> Msg(K.OFPT_ERROR, <<Body(K.OFP_ERROR_MSG, <<"type", "code">>), Data>>)]

FromOFPEchoRequest(K) ==
    [OFPEchoRequest |-> Msg(K.OFPT_ECHO_REQUEST, <<Data>>),
     OFPEchoReply |-> Msg(K.OFPT_ECHO_REPLY, <<Data>>),
     OFPVendor |-> Msg(K.OFPT_VENDOR, <<Body(K.OFP_VENDOR_HEADER, <<"vendor">>), Data>>)]

FromNXTSetFlowFormat(K) ==
    [NXTSetFlowFormat |-> Nicira(K, {"put"}, K.NXT_SET_FLOW_FORMAT,
        <<Body(K.NX_SET_FLOW_FORMAT, <<"format">>)>>),
     NXTFlowMod |-> Ordered(Nicira(K, {"put"}, K.NXT_FLOW_MOD,
        <<Body(K.NX_FLOW_MOD, <<"cookie", "command", "idle_timeout", "hard_timeout",
            "priority",
              "buffer_id", "out_port", "flags", "match_len">>),
          EachIn("nxm", "match_len"), Pad8, Each("OFPAction")>>), <<1, 3, 4, 2, 5>>),
     NXTRoleRequest |-> Nicira(K, {"put"}, K.NXT_ROLE_REQUEST,
        <<Body(K.NX_ROLE, <<"role">>)>>),
     NXTRoleReply |-> Nicira(K, {"get"}, K.NXT_ROLE_REPLY,
        <<Body(K.NX_ROLE, <<"role">>)>>),
     NXTFlowModTableId |-> Nicira(K, {"put"}, K.NXT_FLOW_MOD_TABLE_ID,
        <<Body(K.NX_FLOW_MOD_TABLE_ID, <<"set">>)>>),
     NXTFlowRemoved |-> Nicira(K, {"get"}, K.NXT_FLOW_REMOVED,
        <<Body(K.NX_FLOW_REMOVED, <<"cookie", "priority", "reason", "duration_sec",
            "duration_nsec",
              "idle_timeout", "match_len", "packet_count", "byte_count">>),
          HeadIn("nxm", "match_len"), Pad8>>),
     NXTSetPacketInFormat |-> Nicira(K, {"put"}, K.NXT_SET_PACKET_IN_FORMAT,
        <<Body(K.NX_SET_PACKET_IN_FORMAT, <<"format">>)>>)]

FromNXTPacketIn(K) ==
    [NXTPacketIn |-> Nicira(K, {"get"}, K.NXT_PACKET_IN,
        <<Body(K.NX_PACKET_IN, <<"buffer_id", "total_len", "reason", "table_id", "cookie",
            "match_len">>),
          HeadIn("nxm", "match_len"), Pad8, Data>>),
     NXTFlowAge |-> Nicira(K, {"put"}, K.NXT_FLOW_AGE, <<>>),
     NXTSetAsyncConfig |-> Nicira(K, {"put"}, K.NXT_SET_ASYNC_CONFIG,
        <<Body(K.NX_ASYNC_CONFIG, <<"packet_in_mask_0", "packet_in_mask_1",
            "port_status_mask_0",
              "port_status_mask_1", "flow_removed_mask_0", "flow_removed_mask_1">>)>>),
     NXTSetControllerId |-> Nicira(K, {"put"}, K.NXT_SET_CONTROLLER_ID,
        <<Body(K.NX_CONTROLLER_ID, <<"controller_id">>)>>)]

FromOFPSwitchFeatures(K) ==
    [OFPSwitchFeatures |-> Reply(K.OFPT_FEATURES_REPLY,
        <<Body(K.OFP_SWITCH_FEATURES, <<"datapath_id", "n_buffers", "n_tables",
            "capabilities", "actions">>),
          Each("OFPPhyPort")>>),
     OFPPortStatus |-> Reply(K.OFPT_PORT_STATUS,
        <<Abs(SubSeq(K.OFP_PORT_STATUS.fmt, 1, 2), <<"reason">>,
            K.OFP_PORT_STATUS_DESC_OFFSET), One("OFPPhyPort")>>)]

FromOFPPacketIn(K) ==
    [OFPPacketIn |-> Reply(K.OFPT_PACKET_IN,
        <<Body(K.OFP_PACKET_IN, <<"buffer_id", "total_len", "in_port", "reason">>), Data>>),
     OFPGetConfigReply |-> Reply(K.OFPT_GET_CONFIG_REPLY,
        <<Body(K.OFP_SWITCH_CONFIG, <<"flags", "miss_send_len">>)>>),
     OFPBarrierReply |-> Reply(K.OFPT_BARRIER_REPLY, <<>>)]

FromOFPFlowRemoved(K) ==
    [OFPFlowRemoved |-> Reply(K.OFPT_FLOW_REMOVED,
        <<One("OFPMatch"), Body(K.OFP_FLOW_REMOVED, <<"cookie", "priority", "reason",
            "duration_sec",
              "duration_nsec", "idle_timeout", "packet_count", "byte_count">>)>>),
     OFPQueueGetConfigReply |-> Reply(K.OFPT_QUEUE_GET_CONFIG_REPLY,
        <<Body(K.OFP_QUEUE_GET_CONFIG_REPLY, <<"port">>), Each("OFPPacketQueue")>>)]

FromOFPDescStatsReply(K) ==
    [OFPDescStatsReply |-> MpReplyOne(K, K.OFPST_DESC, "OFPDescStats"),
     OFPFlowStatsReply |-> MpReply(K, K.OFPST_FLOW, "OFPFlowStats"),
     OFPAggregateStatsReply |-> MpReplyOf(K, K.OFPST_AGGREGATE, One("OFPAggregateStats"))]

FromOFPTableStatsReply(K) ==
    [OFPTableStatsReply |-> MpReply(K, K.OFPST_TABLE, "OFPTableStats"),
     OFPPortStatsReply |-> MpReply(K, K.OFPST_PORT, "OFPPortStats"),
     OFPQueueStatsReply |-> MpReply(K, K.OFPST_QUEUE, "OFPQueueStats")]

FromOFPVendorStatsReply(K) ==
    [OFPVendorStatsReply |-> Sub(Reply(K.OFPT_STATS_REPLY,
        <<Abs(K.OFP_STATS_MSG.fmt \o K.OFP_VENDOR_STATS_MSG.fmt, <<"type", "flags",
            "vendor">>,
              K.OFP_VENDOR_STATS_MSG.size), Data>>), "type", K.OFPST_VENDOR),
     NXFlowStatsReply |-> NXStats(K, Reply(K.OFPT_STATS_REPLY, <<>>), K.NXST_FLOW,
            <<Each("NXFlowStats")>>),
     NXAggregateStatsReply |-> NXStats(K, Reply(K.OFPT_STATS_REPLY, <<>>), K.NXST_AGGREGATE,
        <<Each("NXAggregateStats")>>),
     OFPFeaturesRequest |-> Request(K.OFPT_FEATURES_REQUEST, <<>>)]

FromOFPGetConfigRequest(K) ==
    [OFPGetConfigRequest |-> Request(K.OFPT_GET_CONFIG_REQUEST, <<>>),
     OFPSetConfig |-> Request(K.OFPT_SET_CONFIG,
        <<Body(K.OFP_SWITCH_CONFIG, <<"flags", "miss_send_len">>)>>),
     OFPPacketOut |-> Ordered(Request(K.OFPT_PACKET_OUT,
        <<Body(K.OFP_PACKET_OUT, <<"buffer_id", "in_port", "actions_len">>),
          EachIn("OFPAction", "actions_len"), Data>>), <<2, 3, 1>>)]

FromOFPFlowMod(K) ==
    [OFPFlowMod |-> Request(K.OFPT_FLOW_MOD,
        <<One("OFPMatch"), Body(K.OFP_FLOW_MOD, <<"cookie", "command", "idle_timeout",
            "hard_timeout",
              "priority", "buffer_id", "out_port", "flags">>), Each("OFPAction")>>)]

FromOFPPortMod(K) ==
    [OFPPortMod |-> Request(K.OFPT_PORT_MOD,
        <<Body(K.OFP_PORT_MOD, <<"port_no", "hw_addr", "config", "mask", "advertise">>)>>),
     OFPBarrierRequest |-> Request(K.OFPT_BARRIER_REQUEST, <<>>),
     OFPQueueGetConfigRequest |-> Request(K.OFPT_QUEUE_GET_CONFIG_REQUEST,
        <<Body(K.OFP_QUEUE_GET_CONFIG_REQUEST, <<"port">>)>>)]

FromOFPDescStatsRequest(K) ==
    [OFPDescStatsRequest |-> MpRequest(K, K.OFPST_DESC, <<>>),
     OFPFlowStatsRequest |-> MpRequest(K, K.OFPST_FLOW,
        <<One("OFPMatch"), Raw(<<1, -1, 2>>, <<"table_id", "out_port">>)>>),
     OFPAggregateStatsRequest |-> MpRequest(K, K.OFPST_AGGREGATE,
        <<One("OFPMatch"), Raw(<<1, -1, 2>>, <<"table_id", "out_port">>)>>),
     OFPTableStatsRequest |-> MpRequest(K, K.OFPST_TABLE, <<>>)]

FromOFPPortStatsRequest(K) ==
    [OFPPortStatsRequest |-> MpRequest(K, K.OFPST_PORT, <<Body(K.OFP_PORT_STATS_REQUEST,
            <<"port_no">>)>>),
     OFPQueueStatsRequest |-> MpRequest(K, K.OFPST_QUEUE,
        <<Fix(K.OFP_QUEUE_STATS_REQUEST, <<"port_no", "queue_id">>)>>),
     OFPVendorStatsRequest |-> Sub(Request(K.OFPT_STATS_REQUEST,
        <<Abs(K.OFP_STATS_MSG.fmt \o K.OFP_VENDOR_STATS_MSG.fmt, <<"type", "flags",
            "vendor">>,
              K.OFP_VENDOR_STATS_MSG.size), Data>>), "type", K.OFPST_VENDOR),
     NXFlowStatsRequest |-> Ordered(NXStats(K, Request(K.OFPT_STATS_REQUEST, <<>>), K.NXST_FLOW,
        <<Fix(K.NX_FLOW_STATS_REQUEST, <<"out_port", "match_len", "table_id">>),
          EachIn("nxm", "match_len"), Pad8>>), <<1, 3, 4, 2>>)]

FromNXAggregateStatsRequest(K) ==
    [NXAggregateStatsRequest |-> Ordered(NXStats(K, Request(K.OFPT_STATS_REQUEST, <<>>),
            K.NXST_AGGREGATE,
        <<Fix(K.NX_AGGREGATE_STATS_REQUEST, <<"out_port", "match_len", "table_id">>),
          EachIn("nxm", "match_len"), Pad8>>), <<1, 3, 4, 2>>)]

Classes(K) ==
    FromOFPPhyPort(K) @@ FromOFPMatch(K) @@ FromOFPActionOutput(K) @@ FromOFPActionSetDlSrc(K)
    @@ FromOFPActionSetTpSrc(K) @@ FromNXActionResubmit(K) @@ FromNXActionMultipath(K)
    @@ FromNXActionAutopath(K) @@ FromNXActionFinTimeout(K) @@ FromOFPQueueStats(K)
    @@ FromOFPPacketQueue(K) @@ FromOFPEchoRequest(K) @@ FromNXTSetFlowFormat(K) @@ FromNXTPacketIn(K)
    @@ FromOFPSwitchFeatures(K) @@ FromOFPPacketIn(K) @@ FromOFPFlowRemoved(K)
    @@ FromOFPDescStatsReply(K) @@ FromOFPTableStatsReply(K) @@ FromOFPVendorStatsReply(K)
    @@ FromOFPGetConfigRequest(K) @@ FromOFPFlowMod(K) @@ FromOFPPortMod(K)
    @@ FromOFPDescStatsRequest(K) @@ FromOFPPortStatsRequest(K) @@ FromNXAggregateStatsRequest(K)
    @@ NxmClasses

Protocol == Version(1, Classes(Constants))

============================================================================
