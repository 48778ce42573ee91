------------------------------ MODULE Topology ------------------------------
(***************************************************************************)
(* Discovery of switches and links (ryu/topology/switches.py).  Three      *)
(* greenlets share the tables: the event loop of the application, which    *)
(* handles what comes from the switches, lldp_loop, which sends an LLDP    *)
(* packet out of every port every 0.9 seconds, and link_loop, which        *)
(* forgets links.  A greenlet gives way where it may block: lldp_loop      *)
(* between two packets, the other two where they announce a lost link.     *)
(*                                                                         *)
(* Time is in the order of events: of the ports an LLDP packet was sent    *)
(* of, those it was sent of first are due again first.  Whether the last   *)
(* packet seen on a link is older than 10 seconds is left open.            *)
(***************************************************************************)
EXTENDS Naturals, Sequences, FiniteSets, SequencesExt, Functions, TLC

CONSTANTS
    PortSeq,          \* the ports <<dpid, port number>>, in the order of a switch's list
    Unstable,         \* the switches that may lose their connection
    Changing,         \* the ports that may appear, go, and go up or down
    HostPorts,        \* where the packets of a host come from
    LINK_LLDP_DROP,   \* Switches.LINK_LLDP_DROP
    MaxQueue,         \* events waiting for the application, at most
    MaxEnv            \* what happens to switches, ports and cables, at most

ASSUME TopologyConstants == LINK_LLDP_DROP \in Nat /\ MaxQueue \in Nat /\ MaxEnv \in Nat

Ports == ToSet(PortSeq)
Switches == {p[1] : p \in Ports}
Links == {l \in Ports \X Ports : l[1][1] # l[2][1]}

VARIABLES
    link_discovery,   \* CONF.observe_links
    is_active,        \* FALSE once close() was called
    dps,              \* the switches in self.dps and self.port_state
    port_state,       \* their ports: whether the port is down
    ports,            \* self.ports: whether the port is down, PortData.sent
    order,            \* the linked list in self.ports
    stamps,           \* the ports with a timestamp, oldest first
    links,            \* self.links
    peer,             \* self.links._map
    host,             \* self.hosts: the port of the only host, if it is known
    lldp_event,       \* whether self.lldp_event is set
    lldp,             \* lldp_loop: "start", "send", "wait" or "ended"
    todo,             \* ports_now and ports
    timeout,          \* whether timeout is not None
    link,             \* link_loop: "top", "down", or "ended"
    deleted, batch,   \* the links still to be taken down, all of them
    events,           \* the events waiting for the application
    loop,             \* the event loop: "get", "leave", or "ended"
    leaving,          \* the ports a handler has still to remove
    told              \* the links observers have been told of

tables == <<dps, port_state, host>>
probes == <<ports, order, stamps>>
linked == <<links, peer, told>>
lldpVars == <<lldp, todo, timeout>>
linkVars == <<link, deleted, batch>>

VARIABLES
    conn,      \* the switches that are connected
    dying,     \* how often a switch's end has still to be announced
    present,   \* the ports of the switches: "up", "down" or "absent"
    wire,      \* the cables
    ever,      \* the cables there ever were
    air,       \* the LLDP packets under way
    env        \* what happened so far

outside == <<conn, dying, present, wire, ever, air, env>>
vars == <<link_discovery, is_active, tables, probes, linked, lldp_event, lldpVars, linkVars,
          events, loop, leaving, outside>>

----------------------------------------------------------------------------
\* PortDataState.

Stamped(p) == p \in ToSet(stamps)
Data(down) == [down |-> down, sent |-> 0]

\* move_front
MoveFront(p) ==
    IF p \in DOMAIN ports
    THEN /\ order' = <<p>> \o Remove(order, p)
         /\ stamps' = Remove(stamps, p)
    ELSE UNCHANGED <<order, stamps>>

\* add_port for all the ports of a list: new ones come first.
AddPorts(down) ==
    LET new == SelectSeq(PortSeq, LAMBDA p : p \in DOMAIN down \ DOMAIN ports)
    IN  /\ ports' = [p \in DOMAIN down \ DOMAIN ports |-> Data(down[p])]
                    @@ [p \in DOMAIN ports |-> IF p \in DOMAIN down
                                               THEN [ports[p] EXCEPT !.down = down[p]]
                                               ELSE ports[p]]
        /\ order' = Reverse(new) \o order
        /\ UNCHANGED stamps

\* Mutant: the port at the other end keeps its peer.
LinkDownOneWay(p) ==
    IF p \notin DOMAIN peer
    THEN UNCHANGED linked
    ELSE LET dst == peer[p]
         IN  /\ links' = links \ {<<p, dst>>, <<dst, p>>}
             /\ peer' = Restrict(peer, DOMAIN peer \ {p})
             /\ told' = told \ {<<p, dst>>, <<dst, p>>}

\* _link_down: the link out of a port, and the one back, are forgotten.  Of the
\* port at the other end an LLDP packet is sent soon.
LinkDown(p) ==
    IF p \notin DOMAIN peer
    THEN UNCHANGED linked
    ELSE LET dst  == peer[p]
             lost == {<<p, dst>>} \cup (IF dst \in DOMAIN peer THEN {<<dst, peer[dst]>>} ELSE {})
         IN  /\ links' = links \ {<<p, dst>>, <<dst, p>>}
             /\ peer' = Restrict(peer, DOMAIN peer \ {p, dst})
             /\ told' = told \ lost

\* The other end of the link out of a port that is forgotten: one element, or none.
OtherEnd(p) == {q \in Ports : p \in DOMAIN peer /\ peer[p] = q}

IsEdge(p) == \A l \in links : p # l[1] /\ p # l[2]

----------------------------------------------------------------------------
Init ==
    /\ link_discovery \in BOOLEAN
    /\ is_active = TRUE
    /\ dps = {} /\ port_state = <<>> /\ host = <<>>
    /\ ports = <<>> /\ order = <<>> /\ stamps = <<>>
    /\ links = {} /\ peer = <<>> /\ told = {}
    /\ lldp_event = FALSE
    /\ lldp = (IF link_discovery THEN "start" ELSE "ended") /\ todo = <<>> /\ timeout = FALSE
    /\ link = (IF link_discovery THEN "top" ELSE "ended") /\ deleted = <<>> /\ batch = {}
    /\ events = <<>> /\ loop = "get" /\ leaving = <<>>
    /\ conn = {} /\ dying = [d \in Switches |-> 0]
    /\ present = [p \in Ports |-> "up"]
    /\ wire \in {{l, <<l[2], l[1]>>} : l \in Links}
    /\ ever = wire
    /\ air = {} /\ env = 0

----------------------------------------------------------------------------
\* What happens outside, while the application listens.

Happens == loop # "ended" /\ env < MaxEnv /\ env' = env + 1
Announce(e) == Len(events) < MaxQueue /\ events' = Append(events, e)
Event(kind, d, down) == [kind |-> kind, of |-> d, down |-> down]
Inside == <<link_discovery, is_active, tables, probes, linked, lldp_event, lldpVars, linkVars, loop, leaving>>

\* A switch connects; the ports are those of its description.
Connect(d) ==
    /\ d \notin conn
    /\ conn' = conn \cup {d}
    /\ LET its == {p \in Ports : p[1] = d /\ present[p] # "absent"}
       IN  Announce(Event("main", d, [p \in its |-> present[p] = "down"]))
    /\ UNCHANGED <<Inside, dying, present, wire, ever, air, env>>

\* A connection ends.  Both its greenlets will announce that.
Disconnect(d) ==
    /\ d \in conn \cap Unstable
    /\ conn' = conn \ {d}
    /\ dying' = [dying EXCEPT ![d] = @ + 2]
    /\ Happens
    /\ UNCHANGED <<Inside, events, present, wire, ever, air>>

AnnounceDead(d) ==
    /\ dying[d] > 0
    /\ dying' = [dying EXCEPT ![d] = @ - 1]
    /\ Announce(Event("dead", d, <<>>))
    /\ UNCHANGED <<Inside, conn, present, wire, ever, air, env>>

\* A port appears, goes, or goes up or down, on a switch that is connected or
\* on one that is not.
PortChanges(p, now) ==
    /\ present[p] # now
    /\ present' = [present EXCEPT ![p] = now]
    /\ LET kind == CASE present[p] = "absent" -> "add" [] now = "absent" -> "delete" [] OTHER -> "modify"
       IN  IF p[1] \in conn THEN Announce(Event(kind, p[1], p :> (now = "down"))) ELSE UNCHANGED events
    /\ Happens
    /\ UNCHANGED <<Inside, conn, dying, wire, ever, air>>

\* A cable is put between two ports, instead of those they had.
Rewire(l) ==
    /\ l \notin wire
    /\ wire' = {m \in wire : {m[1], m[2]} \cap {l[1], l[2]} = {}} \cup {l, <<l[2], l[1]>>}
    /\ ever' = ever \cup wire'
    /\ Happens
    /\ UNCHANGED <<Inside, events, conn, dying, present, air>>

----------------------------------------------------------------------------
\* The event loop.

NoLoops == UNCHANGED <<link_discovery, is_active, lldpVars, linkVars>>

Get(kind) ==
    /\ loop = "get"
    /\ events # <<>> /\ Head(events).kind = kind
    /\ events' = Tail(events)
    /\ NoLoops
    /\ UNCHANGED outside

\* An exception in a handler ends the event loop.
Raise == loop' = "ended" /\ UNCHANGED <<tables, probes, linked, lldp_event, leaving>>

\* Mutant: lldp_loop is not told.
WakeNobody == UNCHANGED lldp_event

Wake == lldp_event' = (lldp_event \/ link_discovery)

\* state_change_handler, MAIN_DISPATCHER.
Enter ==
    /\ Get("main")
    /\ LET e == Head(events)
       IN  IF e.of \in dps
           THEN UNCHANGED <<dps, port_state, probes>>
           ELSE /\ dps' = dps \cup {e.of}
                /\ port_state' = e.down @@ port_state
                /\ IF link_discovery THEN AddPorts(e.down) ELSE UNCHANGED probes
    /\ Wake
    /\ UNCHANGED <<host, linked, loop, leaving>>

\* state_change_handler, DEAD_DISPATCHER: without a switch, there is no list of
\* its ports.
Leave ==
    /\ Get("dead")
    /\ LET d == Head(events).of
       IN  IF d \in dps
           THEN /\ dps' = dps \ {d}
                /\ port_state' = Restrict(port_state, {p \in DOMAIN port_state : p[1] # d})
                /\ leaving' = (IF link_discovery THEN SelectSeq(PortSeq, LAMBDA p : p[1] = d /\ p \in DOMAIN port_state)
                               ELSE <<>>)
                /\ loop' = (IF link_discovery THEN "leave" ELSE "get")
                /\ UNCHANGED <<host, probes, linked, lldp_event>>
           ELSE IF link_discovery THEN Raise
                ELSE UNCHANGED <<tables, probes, linked, lldp_event, loop, leaving>>

LeavePort ==
    /\ loop = "leave"
    /\ IF leaving = <<>>
       THEN /\ loop' = "get"
            /\ Wake
            /\ UNCHANGED <<tables, probes, linked, leaving>>
       ELSE LET p == Head(leaving)
                rest == Restrict(ports, DOMAIN ports \ {p})
                soon == OtherEnd(p) \cap DOMAIN rest
            IN  IF p \notin DOMAIN ports THEN Raise
                ELSE /\ leaving' = Tail(leaving)
                     /\ ports' = rest
                     /\ order' = SetToSeq(soon) \o SelectSeq(order, LAMBDA q : q \notin soon \cup {p})
                     /\ stamps' = SelectSeq(stamps, LAMBDA q : q \notin soon \cup {p})
                     /\ LinkDown(p)
                     /\ UNCHANGED <<tables, lldp_event, loop>>
    /\ NoLoops
    /\ UNCHANGED <<events, outside>>

\* port_status_handler, OFPPR_ADD.
PortAdd ==
    /\ Get("add")
    /\ LET e == Head(events)
       IN  IF e.of \notin dps THEN Raise
           ELSE /\ port_state' = e.down @@ port_state
                /\ IF link_discovery THEN AddPorts(e.down) ELSE UNCHANGED probes
                /\ Wake
                /\ UNCHANGED <<dps, host, linked, loop, leaving>>

\* port_status_handler, OFPPR_DELETE: the port is looked for where it has just
\* been removed, so it stays in self.ports and self.links.
PortDelete ==
    /\ Get("delete")
    /\ LET e == Head(events)
       IN  IF ~ DOMAIN e.down \subseteq DOMAIN port_state THEN Raise
           ELSE /\ port_state' = Restrict(port_state, DOMAIN port_state \ DOMAIN e.down)
                /\ UNCHANGED <<dps, host, probes, linked, lldp_event, loop, leaving>>

\* port_status_handler, OFPPR_MODIFY.
PortModify ==
    /\ Get("modify")
    /\ \E p \in DOMAIN Head(events).down :
        LET down == Head(events).down[p]
            soon == (IF down THEN OtherEnd(p) ELSE {p}) \cap DOMAIN ports
        IN  IF p[1] \notin dps THEN Raise
            ELSE /\ port_state' = (p :> down) @@ port_state
                 /\ IF ~ link_discovery THEN UNCHANGED <<probes, linked, lldp_event, loop>>
                    ELSE IF p \notin DOMAIN ports THEN loop' = "ended" /\ UNCHANGED <<probes, linked, lldp_event>>
                    ELSE /\ ports' = [ports EXCEPT ![p].down = down]
                         /\ order' = SetToSeq(soon) \o SelectSeq(order, LAMBDA q : q \notin soon)
                         /\ stamps' = SelectSeq(stamps, LAMBDA q : q \notin soon \cup {p})
                         /\ IF down THEN LinkDown(p) ELSE UNCHANGED linked
                         /\ Wake
                         /\ UNCHANGED loop
                 /\ UNCHANGED <<dps, host, leaving>>

\* lldp_packet_in_handler.  A link is announced when it is new; one that a port
\* had before is announced to be lost, and kept.
PacketIn(l) ==
    LET src == l[1]
        dst == l[2]
        back == <<dst, src>>
    IN  /\ loop = "get"
        /\ l \in air /\ dst[1] \in conn
        /\ air' = air \ {l}
        /\ IF link_discovery /\ src \in DOMAIN port_state /\ src \in DOMAIN ports
           THEN ports' = [ports EXCEPT ![src].sent = 0]
           ELSE UNCHANGED ports
        /\ IF link_discovery /\ {src, dst} \subseteq DOMAIN port_state
           THEN /\ told' = (told \ (IF src \in DOMAIN peer /\ peer[src] # dst THEN {<<src, peer[src]>>} ELSE {}))
                           \cup ({l} \ links)
                /\ host' = IF l \notin links /\ \E p \in DOMAIN host : ~ IsEdge(host[p]) THEN <<>> ELSE host
                /\ links' = links \cup {l}
                /\ peer' = (src :> dst) @@ peer
                /\ IF back \in links'
                   THEN UNCHANGED <<order, stamps, lldp_event>>
                   ELSE MoveFront(dst) /\ lldp_event' = TRUE
           ELSE UNCHANGED <<host, linked, order, stamps, lldp_event>>
        /\ NoLoops
        /\ UNCHANGED <<dps, port_state, events, loop, leaving, conn, dying, present, wire, ever, env>>

\* host_discovery_packet_in_handler: a packet that is not LLDP.
HostPacketIn(p) ==
    /\ loop = "get"
    /\ p[1] \in conn /\ p \in DOMAIN port_state /\ IsEdge(p)
    /\ host = <<>>
    /\ host' = <<p>>
    /\ NoLoops
    /\ UNCHANGED <<dps, port_state, probes, linked, lldp_event, events, loop, leaving, outside>>

----------------------------------------------------------------------------
\* lldp_loop.

\* The other two greenlets are followed as long as the application handles events.
NoHandlers == loop # "ended" /\ UNCHANGED <<link_discovery, is_active, tables, linkVars, events, loop, leaving>>

\* The ports before the first that is neither new nor due: without a timestamp
\* first, then the ones that are due.  The wait is for the first, if there is one.
Pick(n) ==
    LET fresh == ToSet(SubSeq(stamps, n + 1, Len(stamps)))
        first == Cardinality({i \in DOMAIN order : \E j \in 1..i : order[j] \in fresh})
        seen  == SubSeq(order, 1, Len(order) - first)
    IN  [todo |-> SelectSeq(seen, LAMBDA p : ~ Stamped(p)) \o SelectSeq(seen, LAMBDA p : Stamped(p)),
         timeout |-> first > 0]

\* One round of the loop: when it starts, when the event is set, or when the
\* timeout is over, and the first port is due.  0.9 seconds have passed since
\* the packets of the first n ports.
LldpLook(n) ==
    /\ lldp = "start" \/ (lldp = "wait" /\ (lldp_event \/ (timeout /\ n > 0)))
    /\ IF is_active
       THEN /\ lldp_event' = FALSE
            /\ todo' = Pick(n).todo
            /\ timeout' = Pick(n).timeout
            /\ lldp' = (IF Pick(n).todo = <<>> THEN "wait" ELSE "send")
       ELSE lldp' = "ended" /\ UNCHANGED <<lldp_event, todo, timeout>>
    /\ NoHandlers
    /\ UNCHANGED <<probes, linked, outside>>

\* Mutant: the port stays where it is in the list.
LldpSentInPlace(p) ==
    /\ ports' = [ports EXCEPT ![p].sent = IF @ > LINK_LLDP_DROP THEN @ ELSE @ + 1]
    /\ stamps' = Append(Remove(stamps, p), p)
    /\ UNCHANGED order

\* lldp_sent
LldpSent(p) ==
    /\ ports' = [ports EXCEPT ![p].sent = IF @ > LINK_LLDP_DROP THEN @ ELSE @ + 1]
    /\ order' = Append(Remove(order, p), p)
    /\ stamps' = Append(Remove(stamps, p), p)

\* LLDPPacket: a packet names the port it is sent of; it comes to the one at the
\* other end of the cable.
LldpPacket(p) == {l \in wire : l[1] = p}

\* send_lldp_packet: the switch sends the packet out of its port.  It may be
\* on its way for ever, and is lost if another is sent before it arrives.  After the last port,
\* self.lldp_event.wait(timeout).
SendLldp ==
    /\ lldp = "send"
    /\ todo' = Tail(todo)
    /\ lldp' = (IF Len(todo) = 1 THEN "wait" ELSE "send")
    /\ LET p == Head(todo)
       IN  IF p \notin DOMAIN ports THEN UNCHANGED <<probes, air>>
           ELSE /\ LldpSent(p)
                /\ air' = IF ~ ports[p].down /\ p[1] \in dps \cap conn
                          THEN LldpPacket(p) ELSE air
    /\ NoHandlers
    /\ UNCHANGED <<linked, lldp_event, timeout, conn, dying, present, wire, ever, env>>

----------------------------------------------------------------------------
\* link_loop.

\* Links whose last packet is old, and whose port has sent too many since.
LinkTop ==
    /\ link = "top" /\ loop # "ended"
    /\ IF is_active
       THEN /\ batch' \in SUBSET {l \in links : l[1] \in DOMAIN ports /\ ports[l[1]].sent > LINK_LLDP_DROP} \ {{}}
            /\ deleted' \in SetToSeqs(batch')
            /\ link' = "down"
       ELSE link' = "ended" /\ UNCHANGED <<batch, deleted>>
    /\ UNCHANGED <<link_discovery, is_active, tables, probes, linked, lldp_event, lldpVars, events, loop, leaving, outside>>

\* LinkState.link_down, and the early check of the reverse link.  A link that
\* is no longer there, or no longer the one of its port, raises KeyError.
LinkLoopDown ==
    /\ link = "down" /\ loop # "ended"
    /\ LET l == Head(deleted)
           back == <<l[2], l[1]>>
       IN  /\ links' = links \ {l}
           /\ IF l \notin links \/ l[1] \notin DOMAIN peer
              THEN link' = "ended" /\ UNCHANGED <<peer, told, order, stamps, lldp_event>>
              ELSE /\ link' = (IF Len(deleted) = 1 THEN "top" ELSE "down")
                   /\ peer' = Restrict(peer, DOMAIN peer \ {l[1]})
                   /\ told' = told \ {l}
                   /\ IF back \in batch
                      THEN UNCHANGED <<order, stamps, lldp_event>>
                      ELSE /\ MoveFront(l[2])
                           /\ lldp_event' = (lldp_event \/ l[2] \in DOMAIN ports)
           /\ deleted' = (IF link' = "down" THEN Tail(deleted) ELSE <<>>)
           /\ batch' = (IF link' = "down" THEN batch ELSE {})
    /\ UNCHANGED <<link_discovery, is_active, tables, ports, lldpVars, events, loop, leaving, outside>>

\* close()
Close ==
    /\ is_active
    /\ is_active' = FALSE
    /\ Wake
    /\ Happens
    /\ UNCHANGED <<link_discovery, tables, probes, linked, lldpVars, linkVars, events, loop, leaving,
                   conn, dying, present, wire, ever, air>>

Next ==
    \/ \E d \in Switches : Connect(d) \/ Disconnect(d) \/ AnnounceDead(d)
    \/ (\E p \in HostPorts : HostPacketIn(p))
    \/ \E p \in Changing, now \in {"up", "down", "absent"} : PortChanges(p, now)
    \/ \E l \in Links : Rewire(l) \/ PacketIn(l)
    \/ Enter \/ Leave \/ LeavePort \/ PortAdd \/ PortDelete \/ PortModify
    \/ (\E n \in 0..Len(stamps) : LldpLook(n)) \/ SendLldp
    \/ LinkTop \/ LinkLoopDown
    \/ Close

Spec == Init /\ [][Next]_vars
FairSpec == Spec /\ WF_vars(\E n \in 0..Len(stamps) : LldpLook(n)) /\ WF_vars(SendLldp) /\ WF_vars(LeavePort)

----------------------------------------------------------------------------
\* PortDataState: the list holds the ports of the table, each once.
ListedOnce == ToSet(order) = DOMAIN ports /\ Len(order) = Cardinality(DOMAIN ports)

\* LinkState: what get_peer() says of a port is a link.
PeerIsLinked == \A p \in DOMAIN peer : <<p, peer[p]>> \in links

\* Every port of a registered switch is one that LLDP packets are sent of, so
\* that the handlers find it there.
KnownIsProbed == link_discovery => DOMAIN port_state \subseteq DOMAIN ports

\* lldp_loop stops looking at the first port that is not due ("break"): the
\* ports with a timestamp are in the order of their timestamps, so it overlooks
\* none that is due.
InOrder == SelectSeq(order, Stamped) = stamps

\* A link that observers were told of, and not told to be lost, is a link, and
\* the other way round, as long as its ports had no other cable.
Only(p, q) == \A l \in ever : l[1] = p => l[2] = q
ToldIsKnown == \A l \in Links : Only(l[1], l[2]) /\ Only(l[2], l[1]) => (l \in told <=> l \in links)

\* lldp_loop never sleeps without end over a port that it has to send a packet
\* of: clear() comes before it looks, and who changes a port sets the event.
NoneForgotten ==
    lldp = "wait" /\ ~ timeout /\ ~ lldp_event /\ loop # "leave" =>
        \A p \in DOMAIN ports : ports[p].down \/ Stamped(p)

\* A port that came up, or one at the other end of a lost link, that no packet
\* was sent of yet.
Unprobed(p) == p \in DOMAIN ports /\ ~ ports[p].down /\ ~ Stamped(p)
Closing == ~ is_active /\ lldp # "ended"
Ended == loop = "ended"

============================================================================
