----------------------------- MODULE IgmpQuerier -----------------------------
(***************************************************************************)
(* The IGMP querier (IgmpLib and IgmpQuerier in ryu/lib/igmplib.py): a     *)
(* greenlet that asks the hosts of one switch for the groups they are in,  *)
(* started and stopped as the switch comes and goes.                       *)
(***************************************************************************)
EXTENDS Naturals, Sequences, FiniteSets, TLC

CONSTANTS
    Hosts,       \* ports with members
    Groups,      \* multicast addresses
    MaxConns     \* connections of the switch, one after the other

SERVER == 100
CONTROLLER == 101
Conns == 1 .. MaxConns

VARIABLES
    conns,       \* the state of each connection of the switch
    events,      \* EventOFPStateChange on their way to the handler
    served,      \* the connections that packets are handled of
    loop,        \* the library handles events
    threads,     \* what the greenlets that run _send_query wait for
    thread,      \* _querier_thread, 0 when there is none
    datapath,    \* _datapath, 0 when there is none
    mcast,       \* _mcast
    flow,        \* the flow entries of the switch
    heard,       \* the reports since the last query, but for those who left
    lost,        \* a flow-mod was sent to a connection that had ended
    orderly      \* one connection was over before the next, and entered MAIN

connVars == <<conns, events, served, loop>>
threadVars == <<threads, thread, datapath>>
vars == <<connVars, threadVars, mcast, flow, heard, lost, orderly>>

Init ==
    /\ conns = [c \in Conns |-> "none"]
    /\ events = <<>> /\ served = {} /\ loop = TRUE
    /\ threads = <<>> /\ thread = 0 /\ datapath = 0
    /\ mcast = <<>>
    /\ flow = [e \in (Hosts \cup {SERVER}) \X Groups |-> {}]
    /\ heard = {} /\ lost = FALSE /\ orderly = TRUE

----------------------------------------------------------------------------
\* The switch connects, has its features known, enters MAIN, and is lost.
Connect(c) ==
    /\ conns[c] = "none" /\ (c > 1 => conns[c - 1] # "none")
    /\ conns' = [conns EXCEPT ![c] = "config"]
    /\ orderly' = (orderly /\ events = <<>> /\ \A d \in Conns : conns[d] \in {"none", "closed"})
    /\ UNCHANGED <<events, served, loop, threadVars, mcast, flow, heard, lost>>

Enter(c) ==
    /\ conns[c] = "config"
    /\ conns' = [conns EXCEPT ![c] = "main"]
    /\ events' = Append(events, <<"main", c>>)
    /\ UNCHANGED <<served, loop, threadVars, mcast, flow, heard, lost, orderly>>

Drop(c) ==
    /\ conns[c] \in {"config", "main"}
    /\ conns' = [conns EXCEPT ![c] = "closed"]
    /\ events' = Append(events, <<"dead", c>>)
    /\ orderly' = (orderly /\ conns[c] = "main")
    /\ UNCHANGED <<served, loop, threadVars, mcast, flow, heard, lost>>

----------------------------------------------------------------------------
Without(f, k) == [x \in DOMAIN f \ k |-> f[x]]

\* start_loop: an earlier greenlet is forgotten, not stopped.
start_loop(c) ==
    \E t \in 1 .. MaxConns :
        /\ t \notin DOMAIN threads
        /\ \A u \in 1 .. t - 1 : u \in DOMAIN threads
        /\ threads' = t :> "start" @@ threads
        /\ thread' = t /\ datapath' = c

\* stop_loop: without a greenlet to kill the handler raises, which ends the
\* event loop of the library.
stop_loop ==
    IF thread = 0 THEN loop' = FALSE /\ UNCHANGED threadVars
    ELSE threads' = Without(threads, {thread}) /\ thread' = 0 /\ datapath' = 0 /\ loop' = loop

\* state_change_handler
state_change_handler ==
    /\ loop /\ events # <<>>
    /\ events' = Tail(events)
    /\ LET e == Head(events)
       IN  IF e[1] = "main" THEN start_loop(e[2]) /\ served' = served \cup {e[2]} /\ loop' = loop
           ELSE stop_loop /\ served' = served \ {e[2]}
    /\ UNCHANGED <<conns, mcast, flow, heard, lost, orderly>>

\* set_querier_mode, called again
set_querier_mode ==
    /\ thread # 0
    /\ threads' = Without(threads, {thread}) /\ thread' = 0
    /\ orderly' = FALSE
    /\ UNCHANGED <<connVars, datapath, mcast, flow, heard, lost>>

----------------------------------------------------------------------------
Members(mc, g) == IF g \in DOMAIN mc THEN mc[g] ELSE <<>>

\* Flow-mods sent to connection c: the entries in fl are what they make of
\* those of the switch.
Send(c, fl) ==
    IF c # 0 /\ conns[c] = "main" THEN flow' = fl /\ lost' = lost
    ELSE flow' = flow /\ lost' = (lost \/ fl # flow)

\* _do_report
_do_report(c, p, g) ==
    /\ loop /\ c \in served
    /\ LET ms == p :> TRUE @@ Members(mcast, g)
       IN  /\ mcast' = g :> ms @@ mcast
           /\ Send(c, IF p \in DOMAIN Members(mcast, g) THEN flow
                      ELSE [flow EXCEPT ![SERVER, g] = DOMAIN ms, ![p, g] = {CONTROLLER}])
    /\ heard' = heard \cup {<<p, g>>}
    /\ UNCHANGED <<connVars, threadVars, orderly>>

\* _do_leave
_do_leave(c, p, g) ==
    /\ loop /\ c \in served
    /\ LET ms == Without(Members(mcast, g), {p})
       IN  /\ mcast' = g :> ms @@ mcast
           /\ Send(c, IF p \notin DOMAIN Members(mcast, g) THEN flow
                      ELSE [flow EXCEPT ![p, g] = {}, ![SERVER, g] = DOMAIN ms])
    /\ heard' = heard \ {<<p, g>>}
    /\ UNCHANGED <<connVars, threadVars, orderly>>

----------------------------------------------------------------------------
\* _send_query: the head of the loop.  It fails when there is no _datapath.
Query(t) ==
    /\ t \in DOMAIN threads /\ threads[t] \in {"start", "rest"}
    /\ mcast' = [g \in DOMAIN mcast |-> [p \in DOMAIN mcast[g] |-> FALSE]]
    /\ threads' = IF datapath = 0 THEN Without(threads, {t}) ELSE [threads EXCEPT ![t] = "reports"]
    /\ heard' = {}
    /\ UNCHANGED <<connVars, thread, datapath, flow, lost, orderly>>

\* _send_query: what follows the sleep.  Without a _datapath it fails at the
\* first entry to change, before anything is taken out of _mcast.
Silent(g) == {p \in DOMAIN mcast[g] : ~ mcast[g][p]}
Swept == [g \in {h \in DOMAIN mcast : Silent(h) # DOMAIN mcast[h]} |-> Without(mcast[g], Silent(g))]
SweptFlow ==
    [e \in DOMAIN flow |->
        IF e[2] \notin DOMAIN mcast THEN flow[e]
        ELSE IF e[1] = SERVER
             THEN IF Silent(e[2]) = {} /\ e[2] \in DOMAIN Swept THEN flow[e]
                  ELSE DOMAIN mcast[e[2]] \ Silent(e[2])
             ELSE IF e[1] \in Silent(e[2]) THEN {} ELSE flow[e]]

Sweep(t) ==
    /\ t \in DOMAIN threads /\ threads[t] = "reports"
    /\ IF datapath = 0 /\ Swept # mcast
       THEN threads' = Without(threads, {t}) /\ UNCHANGED <<mcast, flow, lost>>
       ELSE /\ threads' = [threads EXCEPT ![t] = "rest"]
            /\ mcast' = Swept
            /\ Send(datapath, SweptFlow)
    /\ UNCHANGED <<connVars, thread, datapath, heard, orderly>>

Next ==
    \/ \E c \in Conns : Connect(c) \/ Enter(c) \/ Drop(c)
    \/ state_change_handler \/ set_querier_mode
    \/ \E c \in Conns, p \in Hosts, g \in Groups : _do_report(c, p, g) \/ _do_leave(c, p, g)
    \/ \E t \in Conns : Query(t) \/ Sweep(t)

Spec == Init /\ [][Next]_vars

\* Greenlets that are due run.
FairSpec ==
    Spec /\ WF_vars(state_change_handler) /\ \A t \in Conns : WF_vars(Query(t)) /\ WF_vars(Sweep(t))

----------------------------------------------------------------------------
\* The switch forwards to the ports that are listed, and to no others, as long
\* as it got what was sent to it: also when two greenlets take turns.
ServedAsListed ==
    ~ lost => \A p \in Hosts, g \in Groups :
        /\ flow[SERVER, g] = DOMAIN Members(mcast, g)
        /\ flow[p, g] = IF p \in DOMAIN Members(mcast, g) THEN {CONTROLLER} ELSE {}

\* Who answered the last query, and has not left, is listed; and once the time
\* for answers is over nobody else is, unless a second greenlet interfered.
AnsweredIsListed ==
    LET listed == {<<p, g>> \in Hosts \X Groups : p \in DOMAIN Members(mcast, g)}
    IN  /\ heard \subseteq listed
        /\ orderly /\ thread # 0 /\ threads[thread] = "rest" => listed = heard

\* The switch came and went in order, and is there; its hosts are asked.
There == orderly /\ \E c \in Conns : conns[c] = "main"
Asking == \E t \in DOMAIN threads : threads[t] = "reports"

============================================================================
