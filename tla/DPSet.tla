------------------------------- MODULE DPSet -------------------------------
(***************************************************************************)
(* The set of connected switches kept by the dpset application             *)
(* (ryu/controller/dpset.py), composed with the OpenFlow connections that  *)
(* feed it (ryu/controller/controller.py, ofp_handler.py) through its      *)
(* bounded event queue (ryu/base/app_manager.py).                          *)
(*                                                                         *)
(* Every connection has two greenlets, the one that runs serve() and       *)
(* _recv_loop() and the one that runs _send_loop(); dpset has one, its     *)
(* event loop.  Greenlets switch only where they block, so what a greenlet *)
(* does between two blocking calls is one action.  A put on a full queue   *)
(* blocks: the event stays in `pend' until there is room, and eventlet     *)
(* wakes the blocked putters in no particular order.                       *)
(***************************************************************************)
EXTENDS Naturals, Sequences

CONSTANTS
    Conns,           \* the Datapath objects, one per accepted connection
    Dpids,           \* datapath identifiers of the switches
    Ports,           \* port numbers
    QCap,            \* capacity of the event queue, 128 in the code
    MaxPortChanges,  \* how often the ports of a switch change
    LiveDictViews,   \* TRUE on Python 3: dict.values() is a live view
    OtherObservers,  \* other applications observe the state changes too
    None             \* Python's None, an absent key

PortVal == {"absent", "up", "down"}

PortMap == [Ports -> PortVal]

ASSUME ConstantsAssumption ==
    /\ QCap \in Nat \ {0}
    /\ MaxPortChanges \in Nat
    /\ LiveDictViews \in BOOLEAN /\ OtherObservers \in BOOLEAN
    /\ None \notin Conns \cup Dpids \cup PortMap

VARIABLES
    state,       \* Datapath.state of every connection; "none": not accepted
    id,          \* Datapath.id
    ports,       \* Datapath.ports as the handshake left it
    closeReq,    \* Datapath.close_requested
    recv,        \* where the serving greenlet is
    send,        \* where the sending greenlet is
    pend,        \* the event a greenlet is blocked putting, or None
    link,        \* the transport connection is up
    chan,        \* messages the switch sent and nobody read yet
    swPorts,     \* the ports the switches really have
    changes,     \* how often they changed
    queue,       \* RyuApp.events of dpset
    dpset,       \* its event loop: running, or ended by an exception
    closing,     \* the connection whose registration is held up in close()
    dps,         \* DPSet.dps
    port_state,  \* DPSet.port_state
    seen         \* what an observer of dpset's events knows

connVars == <<state, id, ports, closeReq, recv, send, pend>>
netVars  == <<link, chan, swPorts, changes>>
appVars  == <<dpset, closing, dps, port_state, seen>>
vars     == <<connVars, netVars, queue, appVars>>

Greenlets == {"recv", "send"} \X Conns

StateEvents == [type : {"state"}, conn : Conns, state : {"main", "dead"}]
PortEvents  == [type : {"port"}, conn : Conns, port : Ports, val : PortVal, reason : {"add", "delete", "modify"}]
Events      == StateEvents \cup PortEvents

ASSUME NoneAssumption == None \notin Events

PortMsgs    == [type : {"port"}, port : Ports, val : PortVal, reason : {"add", "delete", "modify"}]
DescMsgs    == [type : {"desc"}, ports : PortMap]
Msgs        == PortMsgs \cup DescMsgs

StateEvent(c, s) == [type |-> "state", conn |-> c, state |-> s]
PortEvent(c, m)  == [type |-> "port", conn |-> c, port |-> m.port, val |-> m.val, reason |-> m.reason]

TypeOK ==
    /\ state \in [Conns -> {"none", "config", "main", "dead"}]
    /\ id \in [Conns -> Dpids \cup {None}]
    /\ ports \in [Conns -> PortMap \cup {None}]
    /\ closeReq \in [Conns -> BOOLEAN]
    /\ recv \in [Conns -> {"off", "run", "ended", "joining", "closed"}]
    /\ send \in [Conns -> {"off", "run", "done"}]
    /\ pend \in [Greenlets -> Events \cup {None}]
    /\ link \in [Conns -> BOOLEAN]
    /\ chan \in [Conns -> Seq(Msgs)]
    /\ swPorts \in [Dpids -> PortMap]
    /\ changes \in 0 .. MaxPortChanges
    /\ queue \in Seq(Events) /\ Len(queue) <= QCap
    /\ dpset \in {"run", "raised"}
    /\ closing \in Conns \cup {None}
    /\ dps \in [Dpids -> Conns \cup {None}]
    /\ port_state \in [Dpids -> PortMap \cup {None}]
    /\ seen \in [Dpids -> PortMap \cup {None}]

Init ==
    /\ state = [c \in Conns |-> "none"]
    /\ id = [c \in Conns |-> None]
    /\ ports = [c \in Conns |-> None]
    /\ closeReq = [c \in Conns |-> FALSE]
    /\ recv = [c \in Conns |-> "off"]
    /\ send = [c \in Conns |-> "off"]
    /\ pend = [g \in Greenlets |-> None]
    /\ link = [c \in Conns |-> FALSE]
    /\ chan = [c \in Conns |-> <<>>]
    /\ swPorts \in [Dpids -> [Ports -> {"absent", "up"}]]
    /\ changes = 0
    /\ queue = <<>>
    /\ dpset = "run"
    /\ closing = None
    /\ dps = [d \in Dpids |-> None]
    /\ port_state = [d \in Dpids |-> None]
    /\ seen = [d \in Dpids |-> None]
-----------------------------------------------------------------------------
(***************************************************************************)
(* The event queue.                                                        *)
(***************************************************************************)

\* Mutant: the bound is off by one.
RoomOffByOne(q) == Len(q) <= QCap

\* A put on queue q does not block.
Room(q) == Len(q) < QCap

\* Greenlet g sends event e to the observers.  It puts e on dpset's queue, or
\* blocks: that queue is full, or the one of an observer served before dpset.
_send_event(g, e) ==
    \/ /\ Room(queue)
       /\ queue' = Append(queue, e)
       /\ UNCHANGED pend
    \/ /\ ~ Room(queue) \/ OtherObservers
       /\ pend' = [pend EXCEPT ![g] = e]
       /\ UNCHANGED queue

\* There is room again and one of the blocked greenlets is woken.
Unblock(g) ==
    /\ pend[g] # None
    /\ Room(queue)
    /\ queue' = Append(queue, pend[g])
    /\ pend' = [pend EXCEPT ![g] = None]
    /\ UNCHANGED <<state, id, ports, closeReq, recv, send, netVars, appVars>>

\* The serving greenlet of c is in its receive loop and is not blocked.
Receiving(c) == recv[c] = "run" /\ pend[<<"recv", c>>] = None

\* Mutant: DEAD is not announced.
_deactivate_silent(g, c) ==
    /\ state' = [state EXCEPT ![c] = "dead"]
    /\ UNCHANGED <<queue, pend>>

\* The _deactivate decorator, in greenlet g, when the method it wraps is over.
_deactivate(g, c) ==
    /\ state' = [state EXCEPT ![c] = "dead"]
    /\ _send_event(g, StateEvent(c, "dead"))

\* Mutant: the handlers are not filtered by the state.
DispatchedAlways(c, s) == TRUE

\* Handlers are those of the state the connection is in.
Dispatched(c, s) == state[c] = s

-----------------------------------------------------------------------------
(***************************************************************************)
(* The environment: the switches and the network.                          *)
(***************************************************************************)

\* A port of switch d appears, disappears, or goes up or down.  The switch
\* reports it on the connection it believes it has.
PortChange(d, p, v) ==
    LET m == [type |-> "port", port |-> p, val |-> v,
              reason |-> IF swPorts[d][p] = "absent" THEN "add"
                         ELSE IF v = "absent" THEN "delete" ELSE "modify"]
    IN  /\ changes < MaxPortChanges
        /\ v # swPorts[d][p]
        /\ changes' = changes + 1
        /\ swPorts' = [swPorts EXCEPT ![d][p] = v]
        /\ chan' = [c \in Conns |-> IF link[c] /\ id[c] = d
                                    THEN Append(chan[c], m) ELSE chan[c]]
        /\ UNCHANGED <<connVars, link, queue, appVars>>

\* The switch answers the port description request, with the ports it has now.
PortDesc(c) ==
    /\ link[c] /\ state[c] = "config"
    /\ \A i \in 1 .. Len(chan[c]) : chan[c][i].type # "desc"
    /\ chan' = [chan EXCEPT ![c] = Append(@, [type |-> "desc", ports |-> swPorts[id[c]]])]
    /\ UNCHANGED <<connVars, link, swPorts, changes, queue, appVars>>

\* The transport connection breaks.  What the controller has not read yet is
\* lost from some point on.
LinkDown(c) ==
    /\ link[c]
    /\ link' = [link EXCEPT ![c] = FALSE]
    /\ \E n \in 0 .. Len(chan[c]) : chan' = [chan EXCEPT ![c] = SubSeq(@, 1, n)]
    /\ UNCHANGED <<connVars, swPorts, changes, queue, appVars>>

-----------------------------------------------------------------------------
(***************************************************************************)
(* The connection.                                                         *)
(***************************************************************************)

\* Switch d connects and the handshake gets as far as the features reply.
\* A switch opens a new connection only after it gave up the old one.
Connect(c, d) ==
    /\ state[c] = "none"
    /\ \A b \in Conns : id[b] = d => ~ link[b]
    /\ link' = [link EXCEPT ![c] = TRUE]
    /\ state' = [state EXCEPT ![c] = "config"]
    /\ id' = [id EXCEPT ![c] = d]
    /\ recv' = [recv EXCEPT ![c] = "run"]
    /\ send' = [send EXCEPT ![c] = "run"]
    /\ UNCHANGED <<ports, closeReq, pend, chan, swPorts, changes, queue, appVars>>

\* The receive loop of c reads the next message.
Reads(c) ==
    /\ Receiving(c)
    /\ chan[c] # <<>>
    /\ ~ closeReq[c]
    /\ chan' = [chan EXCEPT ![c] = Tail(@)]
    /\ UNCHANGED <<id, closeReq, recv, send, link, swPorts, changes, appVars>>

\* The port description reply, in CONFIG: the connection moves to MAIN.
multipart_reply_handler(c) ==
    /\ Reads(c)
    /\ Head(chan[c]).type = "desc"
    /\ Dispatched(c, "config")
    /\ ports' = [ports EXCEPT ![c] = Head(chan[c]).ports]
    /\ state' = [state EXCEPT ![c] = "main"]
    /\ _send_event(<<"recv", c>>, StateEvent(c, "main"))

\* A port status message, in MAIN, goes to dpset.
recv_port_status(c) ==
    /\ Reads(c)
    /\ Head(chan[c]).type = "port"
    /\ Dispatched(c, "main")
    /\ _send_event(<<"recv", c>>, PortEvent(c, Head(chan[c])))
    /\ UNCHANGED <<state, ports>>

\* A message nobody handles in the state the connection is in is dropped.
recv_ignored(c) ==
    /\ Reads(c)
    /\ CASE Head(chan[c]).type = "desc" -> ~ Dispatched(c, "config")
         [] Head(chan[c]).type = "port" -> ~ Dispatched(c, "main")
    /\ UNCHANGED <<state, ports, queue, pend>>

\* The receive loop ends: the peer is gone and everything it sent was read,
\* or somebody asked for the connection to be closed.
recv_loop_end(c) ==
    /\ Receiving(c)
    /\ closeReq[c] \/ (~ link[c] /\ chan[c] = <<>>)
    /\ link' = [link EXCEPT ![c] = FALSE]
    /\ chan' = [chan EXCEPT ![c] = <<>>]
    /\ recv' = [recv EXCEPT ![c] = "ended"]
    /\ _deactivate(<<"recv", c>>, c)
    /\ UNCHANGED <<id, ports, closeReq, send, swPorts, changes, appVars>>

\* The sending greenlet fails to send, because the connection is broken or the
\* switch has not read for socket_timeout seconds, or it finds send_active reset
\* by close().  The receive loop may go on.
send_loop_end(c) ==
    /\ send[c] = "run"
    /\ send' = [send EXCEPT ![c] = "done"]
    /\ _deactivate(<<"send", c>>, c)
    /\ UNCHANGED <<id, ports, closeReq, recv, netVars, appVars>>

\* serve() kills the sending greenlet.  One that is still in its loop announces
\* DEAD on its way out; one that is blocked announcing it is cut short.
serve_kill(c) ==
    /\ recv[c] = "ended" /\ pend[<<"recv", c>>] = None
    /\ recv' = [recv EXCEPT ![c] = "joining"]
    /\ send' = [send EXCEPT ![c] = "done"]
    /\ IF send[c] = "run"
       THEN _send_event(<<"send", c>>, StateEvent(c, "dead"))
       ELSE pend' = [pend EXCEPT ![<<"send", c>>] = None] /\ UNCHANGED queue
    /\ UNCHANGED <<state, id, ports, closeReq, netVars, appVars>>

\* The sending greenlet is joined and contextlib.closing calls close().
serve_close(c) ==
    /\ recv[c] = "joining" /\ pend[<<"send", c>>] = None
    /\ recv' = [recv EXCEPT ![c] = "closed"]
    /\ closeReq' = [closeReq EXCEPT ![c] = TRUE]
    /\ _deactivate(<<"recv", c>>, c)
    /\ UNCHANGED <<id, ports, send, netVars, appVars>>

-----------------------------------------------------------------------------
(***************************************************************************)
(* The dpset application.  Its handlers run one at a time in its event     *)
(* loop; an exception in a handler ends the loop.                          *)
(***************************************************************************)

\* The event loop is free to take the next event off the queue, and it is e.
Take(e) ==
    /\ dpset = "run" /\ closing = None
    /\ queue # <<>>
    /\ e = Head(queue)
    /\ UNCHANGED <<id, ports, recv, send, pend, netVars>>

\* An exception leaves the handler.
Raise ==
    /\ dpset' = "raised"
    /\ queue' = Tail(queue)
    /\ UNCHANGED <<state, closeReq, closing, dps, seen>>

\* _register of a dpid that has no connection: EventDP enter.
register_new(c) ==
    LET d == id[c]
    IN  /\ dps[d] = None
        /\ dps' = [dps EXCEPT ![d] = c]
        /\ IF port_state[d] = None
           THEN /\ port_state' = [port_state EXCEPT ![d] = ports[c]]
                /\ seen' = [seen EXCEPT ![d] = ports[c]]
           ELSE UNCHANGED <<port_state, seen>>
        /\ queue' = Tail(queue)
        /\ UNCHANGED <<state, closeReq, dpset, closing>>

\* Mutant: an event is removed from the queue when its handlers are done.
RoomForOwnLate == Room(queue)

\* The queue this event loop just took an event from has room for one of its
\* own.
RoomForOwn == Room(Tail(queue))

\* _register of a dpid that has a connection: the old one is closed, and its
\* DEAD event goes to the very queue this greenlet has to empty.  The ports
\* already known are kept.
register_again(c) ==
    LET d   == id[c]
        old == dps[d]
    IN  /\ old # None
        /\ closeReq' = [closeReq EXCEPT ![old] = TRUE]
        /\ state' = [state EXCEPT ![old] = "dead"]
        /\ \/ /\ RoomForOwn
              /\ queue' = Append(Tail(queue), StateEvent(old, "dead"))
              /\ dps' = [dps EXCEPT ![d] = c]
              /\ UNCHANGED closing
           \/ /\ ~ RoomForOwn \/ OtherObservers
              /\ queue' = Tail(queue)
              /\ closing' = c
              /\ UNCHANGED dps
        /\ UNCHANGED <<dpset, port_state, seen>>

\* The put inside close() gets through and the registration is completed.
register_resume ==
    LET d == id[closing]
    IN  /\ closing # None
        /\ Room(queue)
        /\ queue' = Append(queue, StateEvent(dps[d], "dead"))
        /\ dps' = [dps EXCEPT ![d] = closing]
        /\ closing' = None
        /\ UNCHANGED <<connVars, netVars, dpset, port_state, seen>>

\* Mutant: the ports of a datapath that left are kept.
LeaveKeepingPorts(d) ==
    /\ dps' = [dps EXCEPT ![d] = None]
    /\ seen' = [seen EXCEPT ![d] = None]
    /\ UNCHANGED port_state

\* EventDP leave, and the deletion of both entries.
Leave(d) ==
    /\ dps' = [dps EXCEPT ![d] = None]
    /\ seen' = [seen EXCEPT ![d] = None]
    /\ port_state' = [port_state EXCEPT ![d] = None]

\* Mutant: any connection of the switch is taken for the current one.
CurrentWhatever(c) == TRUE

\* dp in self.dps.values()
Current(c) == \E d \in Dpids : dps[d] = c

\* _unregister: nothing for a connection that was replaced, else EventDP leave.
\* On Python 3 removing a port while iterating over values() raises.
_unregister(c) ==
    LET d == id[c]
        present == {p \in Ports : port_state[d][p] # "absent"}
    IN  IF ~ Current(c)
        THEN queue' = Tail(queue) /\ UNCHANGED <<state, closeReq, appVars>>
        ELSE IF LiveDictViews /\ present # {}
        THEN /\ Raise
             /\ \E p \in present : port_state' = [port_state EXCEPT ![d][p] = "absent"]
        ELSE /\ Leave(d)
             /\ queue' = Tail(queue)
             /\ UNCHANGED <<state, closeReq, dpset, closing>>

\* dispatcher_change
dispatcher_change(e) ==
    /\ Take(e)
    /\ e.type = "state"
    /\ \/ e.state = "main" /\ register_new(e.conn)
       \/ e.state = "main" /\ register_again(e.conn)
       \/ e.state = "dead" /\ _unregister(e.conn)

\* Mutant: the change is recorded and nobody is told.
PortChangedSilently(d, p, v) ==
    /\ port_state' = [port_state EXCEPT ![d][p] = v]
    /\ UNCHANGED seen

\* The change is recorded and the observers get EventPortAdd, EventPortDelete
\* or EventPortModify.
PortChanged(d, p, v) ==
    /\ port_state' = [port_state EXCEPT ![d][p] = v]
    /\ seen' = [seen EXCEPT ![d][p] = v]

\* port_status_handler: a dpid that is not known, and the deletion of a port
\* that is not known, are KeyErrors.
port_status_handler(e) ==
    LET d == id[e.conn]
        KeyError == \/ port_state[d] = None
                    \/ e.reason = "delete" /\ port_state[d][e.port] = "absent"
    IN  /\ Take(e)
        /\ e.type = "port"
        /\ IF KeyError
           THEN Raise /\ UNCHANGED port_state
           ELSE /\ PortChanged(d, e.port, e.val)
                /\ queue' = Tail(queue)
                /\ UNCHANGED <<state, closeReq, dpset, closing, dps>>

Handle == \E e \in {queue[i] : i \in DOMAIN queue} : dispatcher_change(e) \/ port_status_handler(e)

Next ==
    \/ \E d \in Dpids, p \in Ports, v \in PortVal : PortChange(d, p, v)
    \/ \E c \in Conns, d \in Dpids : Connect(c, d)
    \/ \E c \in Conns :
          \/ LinkDown(c) \/ PortDesc(c)
          \/ multipart_reply_handler(c) \/ recv_port_status(c) \/ recv_ignored(c)
          \/ recv_loop_end(c) \/ send_loop_end(c)
          \/ serve_kill(c) \/ serve_close(c)
    \/ \E g \in Greenlets : Unblock(g)
    \/ register_resume
    \/ Handle

Spec == Init /\ [][Next]_vars

\* Every greenlet that can run is run in the end, and so is every one that
\* can be woken.  The network and the switches owe nothing, nor does a sending
\* greenlet: it waits for something to send.
Fairness ==
    /\ \A c \in Conns :
          /\ WF_vars(multipart_reply_handler(c)) /\ WF_vars(recv_port_status(c))
          /\ WF_vars(recv_ignored(c)) /\ WF_vars(recv_loop_end(c))
          /\ WF_vars(serve_kill(c)) /\ WF_vars(serve_close(c))
    /\ \A g \in Greenlets : SF_vars(Unblock(g))
    /\ WF_vars(register_resume)
    /\ WF_vars(Handle)

FairSpec == Spec /\ Fairness

-----------------------------------------------------------------------------
(***************************************************************************)
(* Properties.                                                             *)
(***************************************************************************)

\* Nothing is on its way to dpset and its event loop waits for events.
Settled ==
    /\ dpset = "run" /\ closing = None
    /\ queue = <<>>
    /\ \A g \in Greenlets : pend[g] = None

\* The two dictionaries of DPSet have the same keys, and a datapath is filed
\* under its own id, whatever the order in which the connections of a switch
\* come and go (the assertion in _unregister, and the deletions after it).
RegistryConsistent ==
    \A d \in Dpids :
        /\ dps[d] = None <=> port_state[d] = None
        /\ dps[d] # None => id[dps[d]] = d

\* An application that only follows the events of dpset (EventDP, EventPortAdd,
\* EventPortDelete, EventPortModify) knows the ports dpset itself would report.
ObserversKnow == dpset = "run" => seen = port_state

\* A connection in MAIN is the one dpset would return for its dpid once dpset
\* has caught up: the end of an older connection never removes a newer one.
MainIsRegistered ==
    Settled => \A c \in Conns : state[c] = "main" => dps[id[c]] = c

\* dpset never holds on to a connection nobody serves any more: although the
\* DEAD event of one greenlet may overtake the MAIN event of the other, the
\* last DEAD event comes after MAIN.
RegisteredIsServed ==
    Settled => \A c \in Conns : Current(c) => recv[c] = "run"

\* DEAD is final: a handshake message handled by the receiving greenlet never
\* revives a connection that the sending greenlet or dpset declared dead.
DeadIsFinal ==
    [][\A c \in Conns : state[c] = "dead" => state'[c] = "dead"]_vars

\* When no other application holds it up, dpset never blocks on its own queue:
\* it puts one event there per event it takes.
NeverHeldUp == closing = None

\* A connection that is dead and whose switch has gone is forgotten in the end.
\* (While the switch keeps it open it may stay registered: the DEAD event of
\* the sending greenlet can overtake the MAIN event of the receiving one.)
DeadIsForgotten ==
    \A c \in Conns :
        state[c] = "dead" /\ ~ link[c] ~> (~ Current(c) \/ dpset = "raised")

\* The handlers of dpset raise no exception: the comment in _register says
\* duplicates are handled and the ports kept.
NoHandlerRaises == dpset # "raised"

\* The ports dpset reports are those of the switch, once every message of the
\* switch is processed: the warning of Datapath.ports sends applications that
\* want ports kept up to date to dpset.
PortsUpToDate ==
    Settled => \A c \in Conns :
        state[c] = "main" /\ link[c] /\ chan[c] = <<>> => port_state[id[c]] = swPorts[id[c]]

\* When dpset replaces a connection, it forgets the older of the two, as the
\* comment in _register says: the one the switch has given up.
OlderIsForgotten ==
    [][\A d \in Dpids :
         dps[d] # None /\ dps'[d] \notin {None, dps[d]} => ~ link[dps[d]]]_vars

\* A second connection from a switch is registered in the end: dpset does not
\* stay blocked in the close() of the first.
DuplicateIsRegistered == closing # None ~> closing = None
====
