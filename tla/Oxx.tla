-------------------------------- MODULE Oxx --------------------------------
(***************************************************************************)
(* Extensible match and statistics fields (ryu/ofproto/oxx_fields.py,      *)
(* oxm_fields.py, oxs_fields.py): a 4 byte header with class, field, mask  *)
(* bit and payload length, for experimenter fields an experimenter header, *)
(* the value and, where the mask bit is set, the mask.                     *)
(***************************************************************************)
EXTENDS Wire

OFPXMC_NXM_0 == 0
OFPXMC_NXM_1 == 1
OFPXMC_OPENFLOW_BASIC == 32768
OFPXMC_PACKET_REGS == 32769
OFPXSC_OPENFLOW_BASIC == 32770
OFPXXC_EXPERIMENTER == 65535

\* Experimenter ids need 32 bits, more than TLC's integers have; only that
\* they differ matters.
NX_EXPERIMENTER_ID == 1
ONF_EXPERIMENTER_ID == 2
BEBA_EXPERIMENTER_ID == 3

\* A field: its class, its number in the class, the size of a value, and for
\* experimenter fields the id and, in the style of EXT-256, the exp_type.
Field(class, num, size) == [class |-> class, num |-> num, size |-> size, exp |-> <<>>]

OpenFlowBasic(num, size) == Field(OFPXMC_OPENFLOW_BASIC, num, size)
PacketRegs(num, size) == Field(OFPXMC_PACKET_REGS, num, size)
NiciraExtended0(num, size) == Field(OFPXMC_NXM_0, num, size)
NiciraExtended1(num, size) == Field(OFPXMC_NXM_1, num, size)
OxsBasic(num, size) == Field(OFPXSC_OPENFLOW_BASIC, num, size)
Experimenter(id, num, size) ==
    [class |-> OFPXXC_EXPERIMENTER, num |-> num, size |-> size, exp |-> <<id>>]
ONFExperimenter(num, size) == Experimenter(ONF_EXPERIMENTER_ID, num, size)
BebaExperimenter(num, size) == Experimenter(BEBA_EXPERIMENTER_ID, num, size)
NiciraExperimenter(num, size) == Experimenter(NX_EXPERIMENTER_ID, num, size)
OldONFExperimenter(num, size) ==
    [class |-> OFPXXC_EXPERIMENTER, num |-> 0, size |-> size,
     exp |-> <<ONF_EXPERIMENTER_ID, num>>]

\* _OxmClass.oxm_type
oxm_type(f) == f.class * 128 + f.num

\* _make_exp_hdr: '!I' or '!IH'.
exp_hdr_pack_str(f) == SubSeq(<<4, 2>>, 1, Len(f.exp))

\* _serialize and _parse: the length counts the experimenter header, the
\* value and the mask.
OxxClass(fam, f, hasmask) ==
    LET exp == SubSeq(<<"exp_id", "exp_type">>, 1, Len(f.exp))
        codes == [oxm_hm |-> 2 * oxm_type(f) + hasmask]
                 @@ [n \in ToSet(exp) |-> f.exp[IF n = "exp_id" THEN 1 ELSE 2]]
        value == IF hasmask = 1 THEN <<f.size, f.size>> ELSE <<f.size>>
    IN  Class(fam, codes, "oxm_length", "payload", 1,
              <<Raw(<<3, 1>> \o exp_hdr_pack_str(f) \o value,
                    <<"oxm_hm", "oxm_length">> \o exp
                        \o SubSeq(<<"value", "mask">>, 1, 1 + hasmask))>>)

\* generate: the fields by name, those of oxm with and without a mask.
OxmClasses(types) ==
    [n \in DOMAIN types |-> OxxClass("oxm", types[n], 0)]
    @@ [n \in {m \o "/mask" : m \in DOMAIN types} |->
           OxxClass("oxm", types[CHOOSE m \in DOMAIN types : m \o "/mask" = n], 1)]
OxsClasses(types) == [n \in DOMAIN types |-> OxxClass("oxs", types[n], 0)]

\* nx_match.oxm_types
NxOxmTypes ==
    [eth_dst_nxm |-> NiciraExtended0(1, 6), eth_src_nxm |-> NiciraExtended0(2, 6),
     tunnel_id_nxm |-> NiciraExtended1(16, 8), tun_ipv4_src |-> NiciraExtended1(31, 4),
     tun_ipv4_dst |-> NiciraExtended1(32, 4), pkt_mark |-> NiciraExtended1(33, 4),
     conj_id |-> NiciraExtended1(37, 4), ct_state |-> NiciraExtended1(105, 4),
     ct_zone |-> NiciraExtended1(106, 2), ct_mark |-> NiciraExtended1(107, 4),
     ct_label |-> NiciraExtended1(108, 16), _dp_hash |-> NiciraExperimenter(0, 4),
     reg0 |-> NiciraExtended1(0, 4), reg1 |-> NiciraExtended1(1, 4),
     reg2 |-> NiciraExtended1(2, 4), reg3 |-> NiciraExtended1(3, 4),
     reg4 |-> NiciraExtended1(4, 4), reg5 |-> NiciraExtended1(5, 4),
     reg6 |-> NiciraExtended1(6, 4), reg7 |-> NiciraExtended1(7, 4)]

\* beba_v1_0.oxm_types
BebaOxmTypes == [global_state |-> BebaExperimenter(0, 4), state |-> BebaExperimenter(1, 4)]

============================================================================
