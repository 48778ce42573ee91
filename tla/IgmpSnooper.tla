----------------------------- MODULE IgmpSnooper -----------------------------
(***************************************************************************)
(* IGMP snooping (IgmpSnooper in ryu/lib/igmplib.py) for one switch.  The  *)
(* handler of a query, and the handler of a leave, spawn a greenlet that   *)
(* waits for the reports; nothing cancels it.                              *)
(***************************************************************************)
EXTENDS Naturals, FiniteSets, TLC

CONSTANTS
    Hosts,       \* ports with members
    Routers,     \* ports that queries arrive at
    Groups,      \* multicast addresses that hosts join
    Others,      \* further ones that a router asks for
    MaxTimers    \* greenlets of a kind that wait, at most

ANY == "0.0.0.0"
CONTROLLER == 0

VARIABLES
    querier,     \* _to_querier[dpid]['port'], 0 when there is none
    hosts,       \* _to_hosts[dpid]
    flow,        \* the flow entries of the switch: [in_port, group -> ports]
    told,        \* the members that the observers know of
    queries,     \* greenlets in _do_timeout_for_query
    leaves,      \* those in _do_timeout_for_leave, of each group and port
    heard,       \* the reports since the last query, but for those who left
    rushed,      \* the last query came while an earlier one was waited for
    moved        \* queries came from more than one port

vars == <<querier, hosts, flow, told, queries, leaves, heard, rushed, moved>>

Ports == Hosts \cup Routers

Init ==
    /\ querier = 0
    /\ hosts = <<>>
    /\ flow = [e \in Ports \X Groups |-> {}]
    /\ told = [g \in Groups |-> {}]
    /\ queries = 0
    /\ leaves = [e \in Groups \X Hosts |-> 0]
    /\ heard = {} /\ rushed = FALSE /\ moved = FALSE

----------------------------------------------------------------------------
NewGroup == [replied |-> FALSE, leave |-> FALSE, ports |-> <<>>]
Group(hs, g) == IF g \in DOMAIN hs THEN hs[g] ELSE NewGroup
Without(f, k) == [x \in DOMAIN f \ k |-> f[x]]

\* _do_query
Asked(query, g) == query \in {ANY, g}
_do_query(in_port, query) ==
    /\ queries < MaxTimers
    /\ querier' = in_port
    /\ hosts' = [g \in DOMAIN hosts |->
                    IF Asked(query, g) THEN [hosts[g] EXCEPT !.replied = FALSE, !.leave = FALSE]
                    ELSE hosts[g]]
    /\ queries' = queries + 1
    /\ heard' = {r \in heard : ~ Asked(query, r[2])}
    /\ rushed' = (queries > 0)
    /\ moved' = (moved \/ querier \notin {0, in_port})
    /\ UNCHANGED <<flow, told, leaves>>

\* _do_report: without a querier only the entry to the controller is made.
_do_report(in_port, g) ==
    LET old == Group(hosts, g)
        isNew == in_port \notin DOMAIN old.ports
        isIn == ~ isNew /\ old.ports[in_port].in
        ports == in_port :> [out |-> TRUE, in |-> isIn \/ querier # 0] @@ old.ports
        toCtrl == IF isNew THEN [flow EXCEPT ![in_port, g] = {CONTROLLER}] ELSE flow
    IN  /\ hosts' = g :> [old EXCEPT !.ports = ports, !.replied = @ \/ querier # 0] @@ hosts
        /\ IF querier # 0 /\ ~ isIn
           THEN /\ told' = [told EXCEPT ![g] = DOMAIN ports]
                /\ flow' = [toCtrl EXCEPT ![querier, g] = DOMAIN ports]
           ELSE told' = told /\ flow' = toCtrl
        /\ heard' = IF querier # 0 THEN heard \cup {<<in_port, g>>} ELSE heard
        /\ UNCHANGED <<querier, queries, leaves, rushed, moved>>

\* _do_leave
_do_leave(in_port, g) ==
    /\ querier # 0
    /\ leaves[g, in_port] < MaxTimers
    /\ LET old == Group(hosts, g)
       IN  hosts' = g :> [old EXCEPT !.leave = TRUE,
                                     !.ports = in_port :> [out |-> FALSE, in |-> FALSE] @@ @] @@ hosts
    /\ leaves' = [leaves EXCEPT ![g, in_port] = @ + 1]
    /\ heard' = heard \ {<<in_port, g>>}
    /\ UNCHANGED <<querier, flow, told, queries, rushed, moved>>

\* Mutant: the entries of the members' ports stay.
ClearedQuerierOnly(fl, gs) == [e \in DOMAIN fl |-> IF e[2] \in gs /\ e[1] = querier THEN {} ELSE fl[e]]

\* _remove_multicast_group, for all the groups in gs
Cleared(fl, gs) ==
    [e \in DOMAIN fl |->
        IF e[2] \in gs /\ (e[1] = querier \/ e[1] \in DOMAIN hosts[e[2]].ports) THEN {} ELSE fl[e]]
Removed(gs) == [g \in Groups |-> IF g \in gs THEN {} ELSE told[g]]

\* _do_timeout_for_query
_do_timeout_for_query ==
    /\ queries > 0
    /\ queries' = queries - 1
    /\ LET silent == {g \in DOMAIN hosts : ~ hosts[g].replied}
       IN  /\ flow' = Cleared(flow, silent)
           /\ told' = Removed(silent)
           /\ hosts' = Without(hosts, silent)
    /\ UNCHANGED <<querier, leaves, heard, rushed, moved>>

\* _do_timeout_for_leave: the greenlet ends with a KeyError when the port or
\* the whole group has been removed meanwhile.
Waits(g, p) == g \in DOMAIN hosts /\ p \in DOMAIN hosts[g].ports
LeaveRemoves(g, p, rest) ==
    LET without == [flow EXCEPT ![p, g] = {}]
    IN  IF rest # <<>>
        THEN /\ hosts' = [hosts EXCEPT ![g].ports = rest, ![g].leave = FALSE]
             /\ told' = [told EXCEPT ![g] = DOMAIN rest]
             /\ flow' = [without EXCEPT ![querier, g] = DOMAIN rest]
        ELSE /\ hosts' = Without(hosts, {g})
             /\ told' = Removed({g})
             /\ flow' = Cleared(without, {g})

_do_timeout_for_leave(g, p) ==
    /\ leaves[g, p] > 0
    /\ leaves' = [leaves EXCEPT ![g, p] = @ - 1]
    /\ IF Waits(g, p) /\ ~ hosts[g].ports[p].out
       THEN LeaveRemoves(g, p, Without(hosts[g].ports, {p}))
       ELSE UNCHANGED <<hosts, told, flow>>
    /\ UNCHANGED <<querier, queries, heard, rushed, moved>>

Next ==
    \/ \E r \in Routers, q \in Groups \cup Others \cup {ANY} : _do_query(r, q)
    \/ \E p \in Hosts, g \in Groups :
          _do_report(p, g) \/ _do_leave(p, g) \/ _do_timeout_for_leave(g, p)
    \/ _do_timeout_for_query

Spec == Init /\ [][Next]_vars

----------------------------------------------------------------------------
\* A port that answered the last query, and did not leave since, gets what the
\* router sends to the group: neither the greenlets of the members that left
\* nor those of the query take it away, whatever they find when they wake up.
\* Not so while the greenlet of an earlier query is still waiting: it finds
\* the groups that have not answered the later one yet.
ReportedIsServed ==
    ~ moved /\ ~ rushed => \A r \in heard : r[1] \in flow[querier, r[2]]

\* No entry outlives its group or its port.
NothingLeftBehind ==
    ~ moved => \A e \in DOMAIN flow : flow[e] # {} =>
        /\ e[2] \in DOMAIN hosts
        /\ e[1] = querier \/ e[1] \in DOMAIN hosts[e[2]].ports

\* Observers know the members that the router's packets go to.
ToldAsServed == ~ moved /\ querier # 0 => \A g \in Groups : told[g] = flow[querier, g]

============================================================================
