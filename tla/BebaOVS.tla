------------------------------ MODULE BebaOVS -------------------------------
(***************************************************************************)
(* A Beba application on an Open vSwitch: OVSDatapath and Beba2OVSWrapper  *)
(* of beba_v1_0_parser.py.  A stage with a state table and a flow table    *)
(* becomes two flow tables of the switch; send_msg rewrites what the       *)
(* application sends.                                                      *)
(***************************************************************************)
EXTENDS Integers, Sequences, SequencesExt, TLC

CONSTANTS Stages,      \* stages of the application
          Scopes,      \* the lists of fields it uses as a key
          MaxSends     \* messages it sends

get_state_table_id(t) == 2 * t
\* Mutant: both tables of a stage have the same number.
get_flow_table_id_same(t) == 2 * t
get_flow_table_id(t) == 2 * t + 1

\* add_prereq_match_to_dict: the field a field of the key requires.
Prereq ==
    [ipv4_src |-> "eth_type", ipv4_dst |-> "eth_type", tcp_src |-> "ip_proto", tcp_dst |-> "ip_proto",
     udp_src |-> "ip_proto", udp_dst |-> "ip_proto", sctp_src |-> "ip_proto", sctp_dst |-> "ip_proto",
     icmpv4_type |-> "ip_proto", icmpv4_code |-> "ip_proto", arp_op |-> "eth_type", arp_spa |-> "eth_type",
     arp_tpa |-> "eth_type", arp_sha |-> "eth_type", arp_tha |-> "eth_type", ipv6_src |-> "eth_type",
     ipv6_dst |-> "eth_type", ipv6_flabel |-> "eth_type", icmpv6_type |-> "ip_proto",
     icmpv6_code |-> "ip_proto", ipv6_nd_sll |-> "icmpv6_type", ipv6_nd_tll |-> "icmpv6_type",
     pbb_isid |-> "eth_type", ipv6_exthdr |-> "eth_type"]
\* Mutant: the fields of the key alone.
add_no_prereq(fields) == ToSet(fields)
add_prereq_match_to_dict(fields) ==
    ToSet(fields) \cup {Prereq[f] : f \in ToSet(fields) \cap DOMAIN Prereq}

----------------------------------------------------------------------------
VARIABLES lookup_scope,             \* by stage, once it has been set
          stateful_stages_in_use,
          mods,                     \* OFPFlowMod objects of the application
          out,                      \* what the switch was sent, in order
          sends

vars == <<lookup_scope, stateful_stages_in_use, mods, out, sends>>

None == -1
Mod == [stage : Stages, next : Stages \cup {None}, state : BOOLEAN, learn : {"no", "first", "last"}]

\* A flow mod as the application made it, and the fields send_msg assigns.  A
\* set-state action comes before or after the instruction to go on.
New(m) == [asked |-> m, table_id |-> m.stage, goto |-> m.next, match |-> IF m.state THEN "state" ELSE "any",
           times |-> 0]

Entry(table, kind, goto, fields) == [table |-> table, kind |-> kind, goto |-> goto, fields |-> fields, mod |-> 0]
Miss(t) == Entry(get_state_table_id(t), "miss", get_flow_table_id(t), {"reg1"})
Default(t) == Entry(get_state_table_id(t), "default", None, {"reg1"})

\* Beba2OVSWrapper, at switch_features_handler.
Init ==
    /\ lookup_scope = [t \in {} |-> <<>>]
    /\ stateful_stages_in_use = {}
    /\ \E m1, m2 \in Mod : mods = <<New(m1), New(m2)>>
    /\ out = <<>>
    /\ sends = 0

Sending(entries) ==
    /\ sends < MaxSends
    /\ sends' = sends + 1
    /\ out' = out \o entries

\* Mutant: the miss entry is left to a goto.
ConfiguredDefault(t) == <<Default(t)>>

\* The two entries a stage starts with.
Configured(t) == <<Miss(t), Default(t)>>

\* OFPExpMsgConfigureStatefulTable
Configure(t) ==
    /\ Sending(Configured(t))
    /\ stateful_stages_in_use' = stateful_stages_in_use \cup {t}
    /\ UNCHANGED <<lookup_scope, mods>>

\* OFPExpMsgKeyExtract notes the scope; send_msg unpacks the three numbers of
\* the message into two and raises.
KeyExtract(t, fields) ==
    /\ Sending(<<>>)
    /\ lookup_scope' = (t :> fields) @@ lookup_scope
    /\ UNCHANGED <<stateful_stages_in_use, mods>>

\* OFPExpMsgSetFlowState and OFPExpMsgDelFlowState: the key becomes a match.
FlowState(t, kind) ==
    /\ IF t \in DOMAIN lookup_scope
       THEN Sending(<<Entry(get_state_table_id(t), kind, None,
                               {"reg1"} \cup add_prereq_match_to_dict(lookup_scope[t]))>>)
       ELSE Sending(<<>>)
    /\ UNCHANGED <<lookup_scope, stateful_stages_in_use, mods>>

\* OFPFlowMod: a goto leads to the state table of the stage, which gets its
\* miss entry first; a match on the state becomes one on a register; the
\* entry goes to the flow table.  The message itself is changed.  A set-state
\* action raises, nine numbers being unpacked into eight.
FlowMod(i) ==
    LET m == mods[i]
        jumps == m.goto # None /\ m.asked.learn # "first"
        news == jumps /\ m.goto \notin stateful_stages_in_use
        goto == IF jumps THEN get_state_table_id(m.goto) ELSE m.goto
        raises == m.asked.learn # "no"
        match == IF m.match = "state" THEN "reg0" ELSE m.match
        entry == [Entry(get_flow_table_id(m.table_id), "flow", goto, {match}) EXCEPT !.mod = i]
    IN  /\ Sending((IF news THEN <<Miss(m.goto)>> ELSE <<>>) \o (IF raises THEN <<>> ELSE <<entry>>))
        /\ stateful_stages_in_use' = IF news THEN stateful_stages_in_use \cup {m.goto}
                                             ELSE stateful_stages_in_use
        /\ mods' = [mods EXCEPT ![i] = IF raises THEN [m EXCEPT !.goto = goto]
                                       ELSE [m EXCEPT !.goto = goto, !.match = match, !.times = @ + 1,
                                                      !.table_id = get_flow_table_id(@)]]
        /\ UNCHANGED lookup_scope

\* OFPGroupMod: the actions of its buckets; without a set-state action it is
\* sent as it is.
GroupMod(learn) ==
    /\ Sending(IF learn THEN <<>> ELSE <<Entry(None, "group", None, {})>>)
    /\ UNCHANGED <<lookup_scope, stateful_stages_in_use, mods>>

\* Global states and statistics requests are dropped.
Dropped ==
    /\ Sending(<<>>)
    /\ UNCHANGED <<lookup_scope, stateful_stages_in_use, mods>>

Next ==
    \/ \E t \in Stages : Configure(t)
    \/ \E t \in Stages, fields \in Scopes : KeyExtract(t, fields)
    \/ \E t \in Stages, kind \in {"set", "del"} : FlowState(t, kind)
    \/ \E i \in DOMAIN mods : FlowMod(i)
    \/ \E learn \in BOOLEAN : GroupMod(learn)
    \/ Dropped

Spec == Init /\ [][Next]_vars

----------------------------------------------------------------------------
TypeOK ==
    /\ DOMAIN lookup_scope \subseteq Stages
    /\ \A i \in DOMAIN out : out[i].kind \in {"miss", "default", "set", "del", "flow", "group"}

\* An entry that sends packets on finds the table it sends them to with the
\* miss entry that leads on to that stage's flow table, whoever asked for it,
\* and nothing else leads packets to a state table.
GotoHasMiss ==
    \A i \in DOMAIN out : out[i].kind = "flow" /\ out[i].goto # None =>
        \E j \in 1 .. i : /\ out[j].table = out[i].goto
                          /\ out[j].kind = "miss"
                          /\ out[j].goto = out[i].goto + 1

\* A message sent once goes to a table without states, which it shares with
\* those of its own stage only, sends packets on to the state table of the
\* stage it names, and does not match on the state any more.
InItsTable ==
    LET once(i) == out[i].kind = "flow" /\ mods[out[i].mod].times = 1
        asked(i) == mods[out[i].mod].asked
    IN  \A i \in DOMAIN out : once(i) =>
            /\ \A j \in DOMAIN out : out[j].table = out[i].table =>
                   out[j].kind = "flow" /\ (once(j) => asked(i).stage = asked(j).stage)
            /\ out[i].goto = IF asked(i).next = None THEN None ELSE get_state_table_id(asked(i).next)
            /\ "state" \notin out[i].fields

\* What OpenFlow requires of a match (external).
Requires == Prereq @@ [ip_proto |-> "eth_type"]

\* The state of a flow is set and deleted in the state table of a stage, by a
\* match the switch accepts: every field of the key comes with the field it
\* requires.  What that field requires in turn is not added: for a key of
\* transport fields alone the type of the packet is missing.
KeyAccepted ==
    \A i \in DOMAIN out : out[i].kind \in {"set", "del"} =>
        /\ out[i].table \in {get_state_table_id(t) : t \in Stages}
        /\ \E key \in Scopes :
              /\ ToSet(key) \subseteq out[i].fields
              /\ \A f \in ToSet(key) \cap DOMAIN Requires : Requires[f] \in out[i].fields

============================================================================
