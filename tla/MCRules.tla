------------------------------- MODULE MCRules ------------------------------
(***************************************************************************)
(* Instances of the four modules about what an application builds and      *)
(* sends as a rule: OldMatch, NxRule, Beba and BebaOVS.  They do not       *)
(* interact: a behaviour is one of one module, the variables of the others *)
(* stay 0.                                                                 *)
(***************************************************************************)
EXTENDS NxRule

CONSTANTS OldCalls, Tables, Flows, MaxMsgs, Stages, MaxSends

VARIABLES which,
          ver, start, fields2, fields, flow, done, out, sends,
          up, scope, held, back, sw, shown, msgs,
          lookup_scope, stateful_stages_in_use, mods

\* Keys of one and of two fields, of 48 bytes, and of too many fields.
BebaScopes == {<<"in_port">>, <<"eth_src", "tcp_dst">>,
               <<"ipv6_dst", "eth_src", "eth_dst", "tunnel_id", "arp_sha", "arp_tha">>,
               <<"in_port", "eth_src", "eth_dst", "ipv4_src", "ipv4_dst", "tcp_src", "tcp_dst">>}
OvsScopes == {<<"eth_src", "tcp_dst">>, <<"ipv4_src", "ipv4_dst">>}

F == INSTANCE OldFields
Old == INSTANCE OldMatch WITH FieldTables <- F!FieldTables
B == INSTANCE Beba WITH Scopes <- BebaScopes
Ovs == INSTANCE BebaOVS WITH Scopes <- OvsScopes

oldOnly == <<ver, start, fields2, fields, flow, done>>
ruleOnly == <<rule, format, switch, rules>>
bebaOnly == <<up, scope, held, back, sw, shown, msgs>>
ovsOnly == <<lookup_scope, stateful_stages_in_use, mods>>
rulesVars == <<which, oldOnly, ruleOnly, bebaOnly, ovsOnly, used, out, asked, calls, sends, chan, losses>>

NoOld == ver = 0 /\ start = 0 /\ fields2 = 0 /\ fields = 0 /\ flow = 0 /\ done = 0
NoRule == rule = 0 /\ format = 0 /\ switch = 0 /\ rules = 0
NoBeba == up = 0 /\ scope = 0 /\ held = 0 /\ back = 0 /\ sw = 0 /\ shown = 0 /\ msgs = 0
NoOvs == lookup_scope = 0 /\ stateful_stages_in_use = 0 /\ mods = 0

RulesInit ==
    \/ /\ which = "old" /\ Old!Init
       /\ NoRule /\ NoBeba /\ NoOvs /\ chan = 0 /\ losses = 0
    \/ /\ which = "rule" /\ Init
       /\ NoOld /\ NoBeba /\ NoOvs /\ out = 0 /\ sends = 0
    \/ /\ which = "beba" /\ B!Init
       /\ NoOld /\ NoRule /\ NoOvs /\ used = 0 /\ out = 0 /\ asked = 0 /\ calls = 0 /\ sends = 0
    \/ /\ which = "ovs" /\ Ovs!Init
       /\ NoOld /\ NoRule /\ NoBeba /\ used = 0 /\ asked = 0 /\ calls = 0 /\ chan = 0 /\ losses = 0

RulesNext ==
    \/ /\ which = "old" /\ Old!Next
       /\ UNCHANGED <<which, ruleOnly, bebaOnly, ovsOnly, chan, losses>>
    \/ /\ which = "rule" /\ Next
       /\ UNCHANGED <<which, oldOnly, bebaOnly, ovsOnly, out, sends>>
    \/ /\ which = "beba" /\ B!Next
       /\ UNCHANGED <<which, oldOnly, ruleOnly, ovsOnly, used, out, asked, calls, sends>>
    \/ /\ which = "ovs" /\ Ovs!Next
       /\ UNCHANGED <<which, oldOnly, ruleOnly, bebaOnly, used, asked, calls, chan, losses>>

RulesSpec == RulesInit /\ [][RulesNext]_rulesVars

----------------------------------------------------------------------------
\* The properties of the modules, each in its own behaviours, with the type
\* invariant.  OldMatch: the first serialization of a match succeeds, and the match on the
\* wire is the one asked for by the calls made so far.
MatchAsAsked == which = "old" => Old!TypeOK /\ Old!FirstSendWorks /\ Old!SentIsAsked

\* NxRule: the switch is told about the flow format before the first rule that
\* needs it; the fields of a rule are as long as they are announced, and the
\* rule matches what was asked for.
RuleAsAsked == which = "rule" => TypeOK /\ FormatFirst /\ FieldsFit /\ MatchIsAsked

\* Beba: the scope the controller noted is the one the switch has, and state
\* tables are shown as they are.
StatesAsStored == which = "beba" => B!TypeOK /\ B!ScopeNoted /\ B!ShownAsStored

\* BebaOVS: a message sent once reaches its table, packets find a miss entry
\* where they are sent, and states are set by a match the switch accepts.
StagesConnected == which = "ovs" => Ovs!TypeOK /\ Ovs!InItsTable /\ Ovs!GotoHasMiss /\ Ovs!KeyAccepted

============================================================================
