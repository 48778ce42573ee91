------------------------------ MODULE Packets ------------------------------
(***************************************************************************)
(* Packets of three protocols of ryu/lib/packet/, in the terms of Wire:    *)
(* SCTP (sctp.py), BFD (bfd.py) and the slow protocols with LACP           *)
(* (slow.py).  A packet is built by appending what its parts serialize to; *)
(* a length, a count or a checksum of 0 stands for the right one, which is *)
(* filled in at the end.  The flag bits of a byte are one field.           *)
(***************************************************************************)
EXTENDS Wire

\* The chunks of SCTP: a type, flags and a length; what follows is padded to 4
\* bytes by the peer, by this code only where it says so, and the parser steps
\* by the length alone.
ChunkOf(type, fmt, names, parts) ==
    [Class("chunk", [type |-> type], "length", "bare", 4,
           <<Raw(<<1, 1, 2>> \o fmt, <<"type", "flags", "length">> \o names)>> \o parts)
        EXCEPT !.pads = FALSE, !.steps = FALSE]
Chunk(type, parts) == ChunkOf(type, <<>>, <<>>, parts)

InitBase(type, recognized) ==
    ChunkOf(type, <<4, 4, 2, 2, 4>>, <<"init_tag", "a_rwnd", "os", "mis", "i_tsn">>,
            <<App(Each(recognized))>>)
HeartbeatBase(type) == Chunk(type, <<App(One("heartbeat_param"))>>)
AckBase(type) == Chunk(type, <<>>)
EcnBase(type) == ChunkOf(type, <<4>>, <<"low_tsn">>, <<>>)

FromChunkData ==
    [chunk_data |-> ChunkOf(0, <<4, 2, 2, 4>>, <<"tsn", "sid", "seq", "payload_id">>, <<Data>>)]

FromChunkInit ==
    [chunk_init |-> InitBase(1, "init_param"), chunk_init_ack |-> InitBase(2, "init_ack_param")]

FromChunkSack ==
    [chunk_sack |-> ChunkOf(3, <<4, 4, 2, 2>>, <<"tsn_ack", "a_rwnd", "gapack_num", "duptsn_num">>,
                            <<App(EachOf("gapack", "gapack_num")), App(EachOf("duptsn", "duptsn_num"))>>),
     gapack |-> Struct("gapack", <<Raw(<<2, 2>>, <<"start", "end">>)>>),
     duptsn |-> Struct("duptsn", <<Raw(<<4>>, <<"duptsn">>)>>)]

FromChunkHeartbeat ==
    [chunk_heartbeat |-> HeartbeatBase(4), chunk_heartbeat_ack |-> HeartbeatBase(5)]

FromChunkAbort ==
    [chunk_abort |-> Chunk(6, <<App(Each("cause"))>>),
     chunk_shutdown |-> ChunkOf(7, <<4>>, <<"tsn_ack">>, <<>>)]

FromChunkShutdownAck ==
    [chunk_shutdown_ack |-> AckBase(8), chunk_error |-> Chunk(9, <<App(Each("cause"))>>)]

FromChunkCookieEcho ==
    [chunk_cookie_echo |-> [Chunk(10, <<Data>>) EXCEPT !.pads = TRUE],
     chunk_cookie_ack |-> AckBase(11), chunk_ecn_echo |-> EcnBase(12)]

FromChunkCwr ==
    [chunk_cwr |-> EcnBase(13), chunk_shutdown_complete |-> AckBase(14)]

\* The causes of an error, and the parameters of a chunk: a code and a length,
\* padded to 4 bytes, which the length leaves out and the parser steps over.
Padded4(fam, code, fmt, names, parts) ==
    Class(fam, [code |-> code], "length", "bare", 4,
          <<Raw(<<2, 2>> \o fmt, <<"code", "length">> \o names)>> \o parts)
Cause(code, parts) == Padded4("cause", code, <<>>, <<>>, parts)
CauseWithValue(code) == Cause(code, <<Data>>)
Param(type) == Padded4("param", type, <<>>, <<>>, <<Data>>)
ParamOf(type, width) == Padded4("param", type, <<width>>, <<"value">>, <<>>)

FromCauseInvalidStreamId ==
    [cause_invalid_stream_id |-> Padded4("cause", 1, <<2, -2>>, <<"value">>, <<>>),
     cause_missing_param |-> Padded4("cause", 2, <<4>>, <<"num">>, <<App(EachOf("missing", "num"))>>),
     missing |-> Struct("missing", <<Raw(<<2>>, <<"type">>)>>)]

FromCauseStaleCookie ==
    [cause_stale_cookie |-> CauseWithValue(3), cause_out_of_resource |-> Cause(4, <<>>),
     cause_unresolvable_addr |-> Cause(5, <<App(One("addr_param"))>>)]

FromCauseUnrecognizedChunk ==
    [cause_unrecognized_chunk |-> CauseWithValue(6), cause_invalid_param |-> Cause(7, <<>>),
     cause_unrecognized_param |-> CauseWithValue(8), cause_no_userdata |-> CauseWithValue(9)]

FromCauseCookieWhileShutdown ==
    [cause_cookie_while_shutdown |-> Cause(10, <<>>),
     cause_restart_with_new_addr |-> Cause(11, <<App(Each("addr_param"))>>)]

FromCauseUserInitiatedAbort ==
    [cause_user_initiated_abort |-> CauseWithValue(12), cause_protocol_violation |-> CauseWithValue(13)]

FromParamHeartbeat ==
    [param_heartbeat |-> Param(1), param_state_cookie |-> Param(7), param_unrecognized_param |-> Param(8)]

FromParamCookiePreserve ==
    [param_cookie_preserve |-> ParamOf(9, 4), param_ecn |-> Padded4("param", 32768, <<>>, <<>>, <<>>),
     param_host_addr |-> Param(11)]

FromParamSupportedAddr ==
    [param_supported_addr |-> Padded4("param", 12, <<>>, <<>>, <<App(Each("addr_type"))>>),
     addr_type |-> Struct("addr_type", <<Raw(<<2>>, <<"type">>)>>)]

FromParamIpv4 ==
    [param_ipv4 |-> ParamOf(5, 4), param_ipv6 |-> ParamOf(6, 16)]

FromSctp ==
    [sctp |-> Struct("msg", <<Raw(<<2, 2, 4, 4>>, <<"src_port", "dst_port", "vtag", "csum">>),
                              App(Each("chunk"))>>)]

\* The parameters each chunk and cause recognizes (register_param_type).
AddrParams == {"param_host_addr", "param_ipv4", "param_ipv6"}
Recognized ==
    [init_param |-> AddrParams \cup {"param_cookie_preserve", "param_ecn", "param_supported_addr"},
     init_ack_param |-> AddrParams \cup {"param_state_cookie", "param_unrecognized_param", "param_ecn"},
     heartbeat_param |-> {"param_heartbeat"},
     addr_param |-> AddrParams]

Sctp ==
    [Version(132, FromSctp @@ FromChunkData @@ FromChunkInit @@ FromChunkSack @@ FromChunkHeartbeat
                  @@ FromChunkAbort @@ FromChunkShutdownAck @@ FromChunkCookieEcho @@ FromChunkCwr
                  @@ FromCauseInvalidStreamId @@ FromCauseStaleCookie @@ FromCauseUnrecognizedChunk
                  @@ FromCauseCookieWhileShutdown @@ FromCauseUserInitiatedAbort @@ FromParamHeartbeat
                  @@ FromParamCookiePreserve @@ FromParamSupportedAddr @@ FromParamIpv4)
        EXCEPT !.fam = Recognized @@ @]

----------------------------------------------------------------------------
\* BFD: the A bit of the flags says whether an authentication section follows.
\* A password has at least one byte.
BFDAuth(type, fmt, names, parts) ==
    Class("BFDAuth", [auth_type |-> type], "auth_len", "whole", 1,
          <<Raw(<<1, 1>> \o fmt, <<"auth_type", "auth_len">> \o names)>> \o parts)

SimplePassword == BFDAuth(1, <<1, 1>>, <<"auth_key_id", "password">>, <<Data>>)

KeyedMD5(type) ==
    [BFDAuth(type, <<1, -1, 4, 16>>, <<"auth_key_id", "seq", "digest">>, <<>>) EXCEPT !.adv = 24]

KeyedSHA1(type) ==
    [BFDAuth(type, <<1, -1, 4, 20>>, <<"auth_key_id", "seq", "auth_hash">>, <<>>) EXCEPT !.adv = 28]

BfdPacket ==
    Sized("msg", "length",
          <<Raw(<<1, 1, 1, 1, 4, 4, 4, 4, 4>>,
                <<"diag", "flags", "detect_mult", "length", "my_discr", "your_discr", "desired_min_tx_interval",
                  "required_min_rx_interval", "required_min_echo_rx_interval">>),
            App(OptIf("BFDAuth", "flags"))>>)

Bfd ==
    Version(3784, [bfd |-> BfdPacket, SimplePassword |-> SimplePassword,
                   KeyedMD5 |-> KeyedMD5(2), MeticulousKeyedMD5 |-> KeyedMD5(3),
                   KeyedSHA1 |-> KeyedSHA1(4), MeticulousKeyedSHA1 |-> KeyedSHA1(5)])

----------------------------------------------------------------------------
\* LACP: 110 bytes, with tags and lengths the parser insists on.
LacpTags ==
    [subtype |-> 1, version |-> 1, actor_tag |-> 1, actor_length |-> 20, partner_tag |-> 2,
     partner_length |-> 20, collector_tag |-> 3, collector_length |-> 16,
     terminator_tag |-> 0, terminator_length |-> 0]

ActPrtInfo == <<1, 1, 2, 6, 2, 2, 2, 1, -3>>

Lacp ==
    LET packed == Raw(<<1, 1>> \o ActPrtInfo \o ActPrtInfo \o <<1, 1, 2, -12>> \o <<1, 1, -50>>,
                      <<"subtype", "version",
                        "actor_tag", "actor_length", "actor_system_priority", "actor_system", "actor_key",
                        "actor_port_priority", "actor_port", "actor_state",
                        "partner_tag", "partner_length", "partner_system_priority", "partner_system",
                        "partner_key", "partner_port_priority", "partner_port", "partner_state",
                        "collector_tag", "collector_length", "collector_max_delay",
                        "terminator_tag", "terminator_length">>)
    IN  [Class("msg", LacpTags, "", "whole", 1, <<packed>>) EXCEPT !.asserts = LacpTags]

Slow == Version(34825, [lacp |-> Lacp])

============================================================================
