-------------------------------- MODULE Lacp --------------------------------
(***************************************************************************)
(* Link aggregation (ryu/lib/lacplib.py).  The library answers the LACP    *)
(* packets of a partner, and has the switch watch it: a flow entry for     *)
(* them expires when none came for the time that the partner asked for.    *)
(* Switch and controller are at the two ends of a connection.              *)
(***************************************************************************)
EXTENDS Naturals, Sequences

CONSTANTS
    Ports,       \* ports of the switch
    Srcs,        \* MAC addresses of a partner
    Timeouts,    \* SHORT_TIMEOUT_TIME, LONG_TIMEOUT_TIME
    MaxChannel,  \* messages under way in either direction, at most
    MaxChanges   \* how often a partner changes its address or timeout

VARIABLES
    slaves,      \* the ports that add() was called for
    enabled,     \* slave['enabled']
    timeout,     \* slave['timeout']
    told,        \* EventSlaveStateChanged.enabled of the last event
    entry,       \* the flow entries of the switch: [port -> [src -> idle_timeout]], 0 if there is none
    toCtrl,      \* packet-in and flow-removed messages under way
    toSwitch,    \* flow-mod messages under way
    partner,     \* [src, timeout, alive]
    changes

vars == <<slaves, enabled, timeout, told, entry, toCtrl, toSwitch, partner, changes>>

Init ==
    /\ slaves \in SUBSET Ports
    /\ enabled = [p \in Ports |-> FALSE]
    /\ timeout = [p \in Ports |-> 0]
    /\ told = [p \in Ports |-> FALSE]
    /\ entry = [p \in Ports |-> [s \in Srcs |-> 0]]
    /\ toCtrl = <<>> /\ toSwitch = <<>>
    /\ partner \in [Ports -> [src : Srcs, timeout : Timeouts, alive : BOOLEAN]]
    /\ changes = 0

----------------------------------------------------------------------------
\* _set_slave_enabled and _set_slave_timeout: other ports are not noted.
Set(var, p, value) == IF p \in slaves THEN [var EXCEPT ![p] = value] ELSE var

\* packet_in_handler and _do_lacp
packet_in_handler ==
    /\ toCtrl # <<>> /\ Head(toCtrl).kind = "lacp"
    /\ toCtrl' = Tail(toCtrl)
    /\ LET m == Head(toCtrl)
       IN  /\ enabled' = Set(enabled, m.port, TRUE)
           /\ told' = [told EXCEPT ![m.port] = @ \/ ~ enabled[m.port]]
           /\ timeout' = Set(timeout, m.port, m.timeout)
           /\ IF m.timeout # timeout[m.port]
              THEN Len(toSwitch) < MaxChannel /\ toSwitch' = Append(toSwitch, m)
              ELSE UNCHANGED toSwitch
    /\ UNCHANGED <<slaves, entry, partner, changes>>

\* Mutant: the timeout is not reset.
flow_removed_handler_keeping ==
    /\ toCtrl # <<>> /\ Head(toCtrl).kind = "removed"
    /\ toCtrl' = Tail(toCtrl)
    /\ LET p == Head(toCtrl).port
       IN  enabled' = Set(enabled, p, FALSE) /\ told' = [told EXCEPT ![p] = FALSE]
    /\ UNCHANGED <<slaves, timeout, entry, toSwitch, partner, changes>>

\* flow_removed_handler
flow_removed_handler ==
    /\ toCtrl # <<>> /\ Head(toCtrl).kind = "removed"
    /\ toCtrl' = Tail(toCtrl)
    /\ LET p == Head(toCtrl).port
       IN  /\ enabled' = Set(enabled, p, FALSE)
           /\ timeout' = Set(timeout, p, 0)
           /\ told' = [told EXCEPT ![p] = FALSE]
    /\ UNCHANGED <<slaves, entry, toSwitch, partner, changes>>

----------------------------------------------------------------------------
\* The switch: a flow entry is entered, or entered anew, and it expires.
FlowAdded ==
    /\ toSwitch # <<>>
    /\ toSwitch' = Tail(toSwitch)
    /\ LET m == Head(toSwitch) IN entry' = [entry EXCEPT ![m.port][m.src] = m.timeout]
    /\ UNCHANGED <<slaves, enabled, timeout, told, toCtrl, partner, changes>>

Expire(p, s) ==
    /\ entry[p][s] # 0
    /\ Len(toCtrl) < MaxChannel
    /\ entry' = [entry EXCEPT ![p][s] = 0]
    /\ toCtrl' = Append(toCtrl, [kind |-> "removed", port |-> p])
    /\ UNCHANGED <<slaves, enabled, timeout, told, toSwitch, partner, changes>>

\* The partner sends LACP packets, a second or more apart, so that the last
\* one has been handled; dies, comes back, changes its address or the timeout it
\* asks for.
Under(m, kind, p) == m.kind = kind /\ m.port = p
Lacp(p) ==
    /\ partner[p].alive
    /\ Len(toCtrl) < MaxChannel /\ \A i \in DOMAIN toCtrl : ~ Under(toCtrl[i], "lacp", p)
    /\ toCtrl' = Append(toCtrl, [kind |-> "lacp", port |-> p, src |-> partner[p].src,
                                 timeout |-> partner[p].timeout])
    /\ UNCHANGED <<slaves, enabled, timeout, told, entry, toSwitch, partner, changes>>

Change(p) ==
    /\ changes < MaxChanges
    /\ changes' = changes + 1
    /\ \E new \in [src : Srcs, timeout : Timeouts, alive : BOOLEAN] : partner' = [partner EXCEPT ![p] = new]
    /\ UNCHANGED <<slaves, enabled, timeout, told, entry, toCtrl, toSwitch>>

Next ==
    \/ packet_in_handler \/ flow_removed_handler \/ FlowAdded
    \/ \E p \in Ports : Lacp(p) \/ Change(p) \/ \E s \in Srcs : Expire(p, s)

Spec == Init /\ [][Next]_vars

\* The applications and the switch go on; a partner that lives sends packets,
\* and the entry of a silent one expires.
Silent(p, s) == ~ partner[p].alive \/ partner[p].src # s
FairSpec ==
    /\ Spec
    /\ WF_vars(packet_in_handler) /\ WF_vars(flow_removed_handler) /\ WF_vars(FlowAdded)
    /\ \A p \in Ports : WF_vars(Lacp(p)) /\ \A s \in Srcs : WF_vars(Silent(p, s) /\ Expire(p, s))

----------------------------------------------------------------------------
\* A slave that is enabled is watched: the switch has an entry for it, or is
\* about to have one, or the end of one is on its way to the controller.
Watched ==
    \A p \in slaves : enabled[p] =>
        \/ \E s \in Srcs : entry[p][s] # 0
        \/ \E i \in DOMAIN toSwitch : toSwitch[i].port = p
        \/ \E i \in DOMAIN toCtrl : Under(toCtrl[i], "removed", p)

\* Observers know the state of the slaves.
ToldTheState == \A p \in slaves : told[p] = enabled[p]

\* The partner of a slave.
Living(p) == p \in slaves /\ partner[p].alive
Dead(p) == p \in slaves /\ ~ partner[p].alive

============================================================================
