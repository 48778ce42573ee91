-------------------------------- MODULE Beba --------------------------------
(***************************************************************************)
(* The stateful extension: the messages of beba_v1_0_parser.py between an  *)
(* application and a Beba switch.  The application configures the state    *)
(* table of a stage with the fields that make its key (its scope), sets    *)
(* and deletes the states of flows, and asks for the state tables.  A      *)
(* reply holds keys without the names of their fields: the controller      *)
(* reads them with the scope it noted itself, in Datapath.lookup_scope,    *)
(* which a reconnection loses.                                             *)
(*                                                                         *)
(* The switch is external: it keeps its tables over a reconnection, builds *)
(* keys from the fields it was sent and answers in order.                  *)
(***************************************************************************)
EXTENDS Integers, Sequences, SequencesExt, FiniteSets, FiniteSetsExt, TLC

V13 == INSTANCE OFP13

CONSTANTS Tables,     \* stages
          Scopes,     \* the lists of fields an application uses as a key
          Flows,      \* flows
          MaxMsgs,    \* messages an application builds
          MaxLoss     \* connections lost

MAX_FIELD_COUNT == 6
MAX_KEY_LEN == 48
OFP_STATE_STATS_SIZE == 32
OFP_STATE_STATS_SHORT_SIZE == 8
MaxSeconds == 4294      \* 32 bits of microseconds

----------------------------------------------------------------------------
\* get_field_string: the bytes of a field in a key.
FieldsToICMPV4Code ==
    [in_port |-> 4, in_phy_port |-> 4, vlan_vid |-> 2, vlan_pcp |-> 1, eth_type |-> 2, tcp_src |-> 2,
     tcp_dst |-> 2, tcp_flags |-> 2, udp_src |-> 2, udp_dst |-> 2, sctp_src |-> 2, sctp_dst |-> 2,
     eth_src |-> 6, eth_dst |-> 6, ipv4_src |-> 4, ipv4_dst |-> 4, ip_proto |-> 1, ip_dscp |-> 1,
     ip_ecn |-> 1, icmpv4_type |-> 1, icmpv4_code |-> 1]
FieldsFromArpSha ==
    [arp_sha |-> 6, arp_tha |-> 6, arp_spa |-> 4, arp_tpa |-> 4, arp_op |-> 2, ipv6_src |-> 16,
     ipv6_dst |-> 16, ipv6_nd_target |-> 16, ipv6_nd_sll |-> 6, ipv6_nd_tll |-> 6, ipv6_flabel |-> 4,
     icmpv6_type |-> 1, icmpv6_code |-> 1, mpls_label |-> 4, mpls_tc |-> 1, mpls_bos |-> 1,
     pbb_isid |-> 4, tunnel_id |-> 8, ipv6_exthdr |-> 2]
get_field_string == FieldsToICMPV4Code @@ FieldsFromArpSha

\* A field it does not know, and an IPv6 address written into an empty list.
FieldRaises(f) == f \notin DOMAIN get_field_string \/ f \in {"ipv6_src", "ipv6_nd_target"}

----------------------------------------------------------------------------
\* Bytes: one of a key, of the padding, or of the head of an entry.
Byte(flow, f, i, head) == [flow |-> flow, f |-> f, i |-> i, head |-> head]
NoHead == [table |-> 0, key_len |-> 0, state |-> 0]
Bytes(flow, f) == [i \in 1 .. V13!OxmTypes[f].size |-> Byte(flow, f, i, NoHead)]
Key(flow, fields) == FlattenSeq([i \in DOMAIN fields |-> Bytes(flow, fields[i])])
Padding(n) == [i \in 1 .. (8 - (n % 8)) % 8 |-> Byte(0, "pad", i, NoHead)]
Headed(size, head) == [i \in 1 .. size |-> Byte(0, "head", i, head)]

VARIABLES up,       \* the connection
          scope,    \* Datapath.lookup_scope: by table, the fields, if it has been set
          held,     \* the message built last, if it has not been sent
          chan,     \* messages on their way to the switch
          back,     \* replies on their way to the controller
          sw,       \* the switch: by table its scope and the states of its flows; global state
          shown,    \* what the application made of the last reply
          msgs, losses

vars == <<up, scope, held, chan, back, sw, shown, msgs, losses>>

NoScope == <<>>
Msg(type, t) == [type |-> type, table |-> t, fields |-> NoScope, key |-> <<>>, state |-> 0]
Nothing == Msg("none", 0)
NotShown == [how |-> "none", list |-> <<>>, was |-> <<>>, scopes |-> [t \in Tables |-> NoScope],
             noted |-> [t \in {} |-> NoScope]]

Init ==
    /\ up = TRUE
    /\ scope = [set |-> FALSE, of |-> [t \in {} |-> NoScope]]
    /\ held = Nothing
    /\ chan = <<>> /\ back = <<>>
    /\ sw = [scope |-> [t \in Tables |-> NoScope], states |-> [t \in Tables |-> [f \in Flows |-> 0]], global |-> 0]
    /\ shown = NotShown
    /\ msgs = 0 /\ losses = 0

Build(m) ==
    /\ held = Nothing /\ msgs < MaxMsgs
    /\ held' = m
    /\ msgs' = msgs + 1
    /\ UNCHANGED <<up, chan, back, sw, shown, losses>>

\* Mutant: the fields of the update are noted as well.
NotedAlways(command) == TRUE

\* Only those of the lookup are noted.
Noted(command) == command = "extract"

\* Too many fields are not sent.
FieldsSent(fields) == IF Len(fields) > MAX_FIELD_COUNT THEN <<>> ELSE fields

\* OFPExpMsgKeyExtract, for the lookup or for the update: the scope is noted
\* when the message is made, even if the fields are too many to be sent.
OFPExpMsgKeyExtract(t, command, fields) ==
    /\ Build([Msg(command, t) EXCEPT !.fields = FieldsSent(fields)])
    /\ scope' = IF Noted(command) THEN [set |-> TRUE, of |-> (t :> fields) @@ scope.of] ELSE scope

\* OFPExpMsgSetFlowState: the key is the one of a flow with the fields the
\* application thinks the table has; one that is too long is not sent.  A
\* timeout of more than MaxSeconds does not fit and raises.
KeySent(flow, fields) ==
    LET key == Key(flow, fields)
    IN  IF Len(key) > MAX_KEY_LEN THEN <<>> ELSE key

OFPExpMsgSetFlowState(t, flow, state, timeout) ==
    /\ t \in DOMAIN scope.of
    /\ timeout <= MaxSeconds
    /\ Build([Msg("set", t) EXCEPT !.key = KeySent(flow, scope.of[t]), !.state = state])
    /\ UNCHANGED scope

OFPExpMsgDelFlowState(t, flow) ==
    /\ t \in DOMAIN scope.of
    /\ Build([Msg("del", t) EXCEPT !.key = KeySent(flow, scope.of[t])])
    /\ UNCHANGED scope

OFPExpSetGlobalState(state) == Build([Msg("global", 0) EXCEPT !.state = state]) /\ UNCHANGED scope
OFPExpResetGlobalState == Build(Msg("reset", 0)) /\ UNCHANGED scope

\* The requests for all tables: long or short entries, and, with delete,
\* emptying the tables.
OFPExpStateStatsMultipartRequest(type) == Build(Msg(type, 0)) /\ UNCHANGED scope
Short == {"stats_short", "stats_delete_short"}
Deleting == {"stats_delete", "stats_delete_short"}
Requests == {"stats", "global_stats"} \cup Short \cup Deleting

\* Datapath.send_msg
Send ==
    /\ up /\ held # Nothing
    /\ chan' = Append(chan, held)
    /\ held' = Nothing
    /\ UNCHANGED <<up, scope, back, sw, shown, msgs, losses>>

\* The switch (external): a new scope empties the table; a state is set for
\* the flow with the key, if the key has the length of the scope's.
Entries ==
    SetToSortSeq({e \in [table : Tables, flow : Flows, state : 1 .. 2] : sw.states[e.table][e.flow] = e.state},
                 LAMBDA a, b : a.table < b.table \/ (a.table = b.table /\ a.flow < b.flow))

Laid(entries, size) ==
    FlattenSeq([i \in DOMAIN entries |->
        LET e == entries[i]
            key == Key(e.flow, sw.scope[e.table])
        IN  Headed(size, [table |-> e.table, key_len |-> Len(key), state |-> e.state])
            \o key \o Padding(Len(key))])

Update(m) ==
    CASE m.type = "extract" /\ m.fields # <<>> ->
             [sw EXCEPT !.scope[m.table] = m.fields, !.states[m.table] = [f \in Flows |-> 0]]
      [] m.type \in {"set", "del"} /\ sw.scope[m.table] # NoScope ->
             [sw EXCEPT !.states[m.table] = [f \in Flows |-> IF Key(f, sw.scope[m.table]) = m.key
                                                               THEN m.state ELSE @[f]]]
      [] m.type \in Deleting -> [sw EXCEPT !.states = [t \in Tables |-> [f \in Flows |-> 0]]]
      [] m.type = "global" -> [sw EXCEPT !.global = m.state]
      [] m.type = "reset" -> [sw EXCEPT !.global = 0]
      [] OTHER -> sw

Switch ==
    /\ chan # <<>>
    /\ LET m == Head(chan)
           size == IF m.type \in Short THEN OFP_STATE_STATS_SHORT_SIZE ELSE OFP_STATE_STATS_SIZE
       IN  /\ sw' = Update(m)
           /\ back' = IF m.type \in Requests
                      THEN Append(back, [type |-> m.type, size |-> size, buf |-> Laid(Entries, size),
                                         was |-> Entries, scopes |-> sw.scope, global |-> sw.global])
                      ELSE back
    /\ chan' = Tail(chan)
    /\ UNCHANGED <<up, scope, held, shown, msgs, losses>>

\* A packet with a set-state action puts a flow into a state.
Packet(t, flow) ==
    /\ sw.scope[t] # NoScope
    /\ sw.states[t][flow] = 0
    /\ sw' = [sw EXCEPT !.states[t][flow] = 1]
    /\ UNCHANGED <<up, scope, held, chan, back, shown, msgs, losses>>

----------------------------------------------------------------------------
Slice(buf, from, n) == SubSeq(buf, from + 1, Min({from + n, Len(buf)}))

\* Mutant: the padding of the key is not skipped.
OFPStateEntryUnpadded(buf, offset, key_len) ==
    LET n == IF key_len <= MAX_KEY_LEN THEN key_len ELSE 0
    IN  [key |-> Slice(buf, offset, n), next |-> offset + n]

\* OFPStateEntry.parser: the key at an offset, and the offset after it; a
\* key that is too long is not read, and only the padding skipped.
OFPStateEntry(buf, offset, key_len) ==
    LET n == IF key_len <= MAX_KEY_LEN THEN key_len ELSE 0
    IN  [key |-> Slice(buf, offset, n), next |-> offset + n + Len(Padding(key_len))]

\* OFPStateStats.parser and OFPStateStatsShort.parser.  An entry of a table
\* without a scope is left out; its key is then taken for the next entry.
RECURSIVE ReadFrom(_, _, _, _)
ReadFrom(buf, size, offset, list) ==
    IF offset >= Len(buf) THEN [how |-> "list", list |-> list]
    ELSE IF offset + size > Len(buf) THEN [how |-> "raised", list |-> <<>>]
    ELSE LET head == buf[offset + 1].head
         IN  IF Slice(buf, offset, size) # Headed(size, head) THEN [how |-> "garbled", list |-> <<>>]
             ELSE IF ~scope.set THEN [how |-> "raised", list |-> <<>>]
             ELSE IF head.table \notin DOMAIN scope.of THEN ReadFrom(buf, size, offset + size, list)
             ELSE LET e == OFPStateEntry(buf, offset + size, head.key_len)
                  IN  ReadFrom(buf, size, e.next,
                               Append(list, [table |-> head.table, state |-> head.state,
                                             fields |-> scope.of[head.table], key |-> e.key]))

\* state_entry_key_to_str: the fields one after the other.
RECURSIVE Fields(_, _, _)
Fields(fields, key, offset) ==
    IF fields = <<>> THEN <<>>
    ELSE LET n == IF FieldRaises(Head(fields)) THEN 0 ELSE get_field_string[Head(fields)]
         IN  <<[f |-> Head(fields), value |-> Slice(key, offset, n)]>> \o Fields(Tail(fields), key, offset + n)

state_entry_key_to_str(e) == Fields(e.fields, e.key, 0)

\* It raises on a key that ends too early.
ToStrRaises(e) ==
    \E i \in DOMAIN e.fields :
        FieldRaises(e.fields[i]) \/ Len(state_entry_key_to_str(e)[i].value) < get_field_string[e.fields[i]]

\* The application reads a reply and prints the entries.
Read ==
    /\ up /\ back # <<>>
    /\ LET r == Head(back)
           got == ReadFrom(r.buf, r.size, 0, <<>>)
       IN  shown' = IF r.type = "global_stats"
                    THEN [NotShown EXCEPT !.how = "global", !.was = <<r.global>>]
                    ELSE [how |-> IF \E i \in DOMAIN got.list : ToStrRaises(got.list[i])
                                  THEN "raised" ELSE got.how,
                          was |-> r.was, scopes |-> r.scopes, noted |-> scope.of,
                          list |-> [i \in DOMAIN got.list |->
                                       [table |-> got.list[i].table, state |-> got.list[i].state,
                                        key |-> state_entry_key_to_str(got.list[i])]]]
    /\ back' = Tail(back)
    /\ UNCHANGED <<up, scope, held, chan, sw, msgs, losses>>

\* The connection is lost, and a new one has a new Datapath.
Lose ==
    /\ up /\ losses < MaxLoss
    /\ up' = FALSE
    /\ chan' = <<>> /\ back' = <<>> /\ held' = Nothing
    /\ shown' = NotShown
    /\ losses' = losses + 1
    /\ UNCHANGED <<scope, sw, msgs>>

Connect ==
    /\ ~up
    /\ up' = TRUE
    /\ scope' = [set |-> FALSE, of |-> [t \in {} |-> NoScope]]
    /\ UNCHANGED <<held, chan, back, sw, shown, msgs, losses>>

Next ==
    \/ \E t \in Tables, command \in {"extract", "extract_update"}, fields \in Scopes :
          OFPExpMsgKeyExtract(t, command, fields)
    \/ \E t \in Tables, flow \in Flows, timeout \in {0, MaxSeconds} : OFPExpMsgSetFlowState(t, flow, 2, timeout)
    \/ \E t \in Tables, flow \in Flows : OFPExpMsgDelFlowState(t, flow)
    \/ OFPExpSetGlobalState(1)
    \/ OFPExpResetGlobalState
    \/ \E type \in Requests : OFPExpStateStatsMultipartRequest(type)
    \/ Send
    \/ Switch
    \/ \E t \in Tables, flow \in Flows : Packet(t, flow)
    \/ Read
    \/ Lose
    \/ Connect

Spec == Init /\ [][Next]_vars

----------------------------------------------------------------------------
\* What the application should see of an entry.
Seen(e, fields) ==
    [table |-> e.table, state |-> e.state,
     key |-> [i \in DOMAIN fields |-> [f |-> fields[i], value |-> Bytes(e.flow, fields[i])]]]

\* A reply the controller cannot read: with an entry of a table whose scope
\* it does not know (any more), or with a key that is too long.
Unreadable ==
    \E i \in DOMAIN shown.was :
        LET t == shown.was[i].table
        IN  t \notin DOMAIN shown.noted \/ Len(Key(1, shown.scopes[t])) > MAX_KEY_LEN

\* A reply from before the switch got the scope the controller noted.
Early ==
    \E i \in DOMAIN shown.was :
        LET t == shown.was[i].table
        IN  t \in DOMAIN shown.noted /\ shown.noted[t] # shown.scopes[t]

\* A field that raises, or whose length differs from the switch's.
Odd(fields) == \E i \in DOMAIN fields :
                  FieldRaises(fields[i]) \/ get_field_string[fields[i]] # V13!OxmTypes[fields[i]].size

TypeOK ==
    /\ DOMAIN scope.of \subseteq Tables
    /\ ~scope.set => scope.of = [t \in {} |-> NoScope]
    /\ shown.how \in {"none", "list", "raised", "garbled", "global"}
    /\ \A i \in DOMAIN chan : Len(chan[i].fields) <= MAX_FIELD_COUNT /\ Len(chan[i].key) <= MAX_KEY_LEN

\* The application sees the state tables as they were when the switch
\* answered, the keys by the names of their fields.
ShownAsStored ==
    shown.how \in {"list", "raised", "garbled"} /\ ~Unreadable /\ ~Early
        /\ ~(\E i \in DOMAIN shown.was : Odd(shown.scopes[shown.was[i].table]))
        => shown.how = "list"
           /\ shown.list = [i \in DOMAIN shown.was |-> Seen(shown.was[i], shown.scopes[shown.was[i].table])]

\* The scope the controller reads with is the one the switch uses, once
\* everything built is sent and taken, for scopes that can be sent.
ScopeNoted ==
    up /\ chan = <<>> /\ held = Nothing =>
        \A t \in DOMAIN scope.of : Len(scope.of[t]) <= MAX_FIELD_COUNT => sw.scope[t] = scope.of[t]

============================================================================
