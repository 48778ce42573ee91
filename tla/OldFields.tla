------------------------------ MODULE OldFields -----------------------------
(***************************************************************************)
(* The match fields of OpenFlow 1.2 and 1.3 as the older calls of OFPMatch *)
(* know them, in ryu/ofproto/ofproto_v1_2_parser.py and                    *)
(* ofproto_v1_3_parser.py: the setters, the order of serialize_old and the *)
(* classes derived from OFPMatchField.                                     *)
(***************************************************************************)
EXTENDS Integers, Sequences, SequencesExt, TLC

V12 == INSTANCE OFP12
V13 == INSTANCE OFP13

----------------------------------------------------------------------------
\* What a field's setters do with its mask.
\*   plain: there is none.
\*   max: the setter without a mask sets it to all ones; all ones is sent
\*        without a mask.
\*   bytes, int: the setter without a mask leaves it alone; a mask that is
\*        false is not sent: no bytes, or the number 0.
\* and: whether the masked setter clears the bits of the value outside.
Plain == [mask |-> "plain", and |-> FALSE]
MaskOnes(and) == [mask |-> "max", and |-> and]
MaskBytes == [mask |-> "bytes", and |-> TRUE]
MaskInt == [mask |-> "int", and |-> FALSE]

SettersToArpOp ==
    [in_port |-> Plain, in_phy_port |-> Plain, metadata |-> MaskOnes(TRUE), eth_dst |-> MaskBytes,
     eth_src |-> MaskBytes, eth_type |-> Plain, vlan_vid |-> MaskOnes(FALSE), vlan_pcp |-> Plain,
     ip_dscp |-> Plain, ip_ecn |-> Plain, ip_proto |-> Plain, ipv4_src |-> MaskOnes(FALSE),
     ipv4_dst |-> MaskOnes(FALSE), tcp_src |-> Plain, tcp_dst |-> Plain, tcp_flags |-> MaskOnes(FALSE),
     udp_src |-> Plain, udp_dst |-> Plain, sctp_src |-> Plain, sctp_dst |-> Plain,
     icmpv4_type |-> Plain, icmpv4_code |-> Plain, arp_op |-> Plain]

SettersFromArpSpa ==
    [arp_spa |-> MaskOnes(FALSE), arp_tpa |-> MaskOnes(FALSE), arp_sha |-> MaskBytes, arp_tha |-> MaskBytes,
     ipv6_src |-> MaskBytes, ipv6_dst |-> MaskBytes, ipv6_flabel |-> MaskOnes(FALSE),
     icmpv6_type |-> Plain, icmpv6_code |-> Plain, ipv6_nd_target |-> Plain, ipv6_nd_sll |-> Plain,
     ipv6_nd_tll |-> Plain, mpls_label |-> Plain, mpls_tc |-> Plain, mpls_bos |-> Plain,
     pbb_isid |-> MaskInt, tunnel_id |-> MaskInt, ipv6_exthdr |-> MaskInt]

Setters == SettersToArpOp @@ SettersFromArpSpa

\* The order in which serialize_old appends what was set.
SerializeToSctpSrc ==
    <<"in_port", "in_phy_port", "metadata", "eth_dst", "eth_src", "eth_type", "vlan_vid",
      "vlan_pcp", "ip_dscp", "ip_ecn", "ip_proto", "ipv4_src", "ipv4_dst", "tcp_src", "tcp_dst",
      "tcp_flags", "udp_src", "udp_dst", "sctp_src">>

SerializeFromSctpDst ==
    <<"sctp_dst", "icmpv4_type", "icmpv4_code", "arp_op", "arp_spa", "arp_tpa", "arp_sha",
      "arp_tha", "ipv6_src", "ipv6_dst", "ipv6_flabel", "icmpv6_type", "icmpv6_code",
      "ipv6_nd_target", "ipv6_nd_sll", "ipv6_nd_tll", "mpls_label", "mpls_tc", "mpls_bos",
      "pbb_isid", "tunnel_id", "ipv6_exthdr">>

\* OFPMatchField: the bytes the pack_str of a field's class writes for a value.
MTToIPDscp ==
    [in_port |-> 4, metadata |-> 8, in_phy_port |-> 4, eth_dst |-> 6, eth_src |-> 6,
     eth_type |-> 2, vlan_vid |-> 2, vlan_pcp |-> 1, ip_dscp |-> 1]
MTToICMPV4Type ==
    [ip_ecn |-> 1, ip_proto |-> 1, ipv4_src |-> 4, ipv4_dst |-> 4, tcp_src |-> 2, tcp_dst |-> 2,
     udp_src |-> 2, udp_dst |-> 2, sctp_src |-> 2, sctp_dst |-> 2, icmpv4_type |-> 1]
MTToMplsLabel ==
    [icmpv4_code |-> 1, arp_op |-> 2, arp_spa |-> 4, arp_tpa |-> 4, arp_sha |-> 6, arp_tha |-> 6,
     ipv6_src |-> 16, ipv6_dst |-> 16, ipv6_flabel |-> 4, mpls_label |-> 4]
MTFromICMPV6Type ==
    [icmpv6_type |-> 1, icmpv6_code |-> 1, ipv6_nd_target |-> 16, ipv6_nd_sll |-> 6,
     ipv6_nd_tll |-> 6, mpls_tc |-> 1, mpls_bos |-> 1, pbb_isid |-> 3, tunnel_id |-> 8,
     ipv6_exthdr |-> 2, tcp_flags |-> 2]

MT == MTToIPDscp @@ MTToICMPV4Type @@ MTToMplsLabel @@ MTFromICMPV6Type

\* OpenFlow 1.2 has five fields fewer.
Added == {"tcp_flags", "mpls_bos", "pbb_isid", "tunnel_id", "ipv6_exthdr"}
Old(f) == f \notin Added
Kept(table) == [f \in DOMAIN table \ Added |-> table[f]]
SettersToArpOp12 == Kept(SettersToArpOp)
SettersFromArpSpa12 == Kept(SettersFromArpSpa)
SerializeToSctpSrc12 == SelectSeq(SerializeToSctpSrc, Old)
SerializeFromSctpDst12 == SelectSeq(SerializeFromSctpDst, Old)
MTToIPDscp12 == MTToIPDscp
MTToICMPV4Type12 == MTToICMPV4Type
MTToMplsLabel12 == MTToMplsLabel
MTFromICMPV6Type12 == Kept(MTFromICMPV6Type)

FieldTables ==
    3 :> [set |-> SettersToArpOp12 @@ SettersFromArpSpa12,
          order |-> SerializeToSctpSrc12 \o SerializeFromSctpDst12,
          mt |-> MTToIPDscp12 @@ MTToICMPV4Type12 @@ MTToMplsLabel12 @@ MTFromICMPV6Type12,
          oxm |-> V12!OxmTypes]
    @@ 4 :> [set |-> Setters, order |-> SerializeToSctpSrc \o SerializeFromSctpDst, mt |-> MT,
             oxm |-> V13!OxmTypes]
============================================================================
