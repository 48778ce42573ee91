----------------------------- MODULE DPSetProofs ----------------------------
(***************************************************************************)
(* Proofs about dpset for any number of connections, switches and ports,   *)
(* any queue capacity, either Python version and any other observers.      *)
(***************************************************************************)
EXTENDS DPSet, TLAPS

\* The connection an event is about has an id, and if the event announces MAIN
\* it has ports.
Known(e) ==
    /\ id[e.conn] # None
    /\ e.type = "state" /\ e.state = "main" => ports[e.conn] # None

\* A connection has an id as soon as a greenlet serves it.
HandshakeInv ==
    \A c \in Conns :
        /\ state[c] = "none" <=> id[c] = None
        /\ recv[c] # "off" => id[c] # None
        /\ send[c] # "off" => id[c] # None
        /\ state[c] = "main" => ports[c] # None

\* Every event on its way to dpset is about a connection that completed the
\* part of the handshake the event tells of.
EventsKnown ==
    /\ \A i \in 1 .. Len(queue) : Known(queue[i])
    /\ \A g \in Greenlets : pend[g] # None => Known(pend[g])

\* The entry found by _register stays while the registration is held up, and
\* only another observer can hold it up.
ClosingInv ==
    closing # None => id[closing] # None /\ dps[id[closing]] # None /\ OtherObservers

\* The inductive invariant.
IInv ==
    /\ TypeOK
    /\ HandshakeInv
    /\ EventsKnown
    /\ RegistryConsistent
    /\ ClosingInv
    /\ ObserversKnow

-----------------------------------------------------------------------------
(***************************************************************************)
(* The queue.                                                              *)
(***************************************************************************)

LEMMA AppendProperties ==
    ASSUME NEW S, NEW q \in Seq(S), NEW f \in S
    PROVE  /\ Append(q, f) \in Seq(S) /\ Len(Append(q, f)) = Len(q) + 1
           /\ Append(q, f)[Len(q) + 1] = f /\ \A i \in 1 .. Len(q) : Append(q, f)[i] = q[i]
OBVIOUS

LEMMA HeadTailProperties ==
    ASSUME NEW S, NEW q \in Seq(S), q # <<>>
    PROVE  /\ Head(q) \in S /\ Head(q) = q[1] /\ Tail(q) \in Seq(S) /\ Len(Tail(q)) = Len(q) - 1
           /\ \A i \in 1 .. Len(Tail(q)) : Tail(q)[i] = q[i + 1]
OBVIOUS

\* Connections keep the id and the ports they have.
Grows ==
    \A c \in Conns :
        /\ id[c] # None => id'[c] # None
        /\ ports[c] # None => ports'[c] # None

LEMMA KnownGrows ==
    ASSUME NEW e \in Events, Grows, Known(e)
    PROVE  Known(e)'
BY Zenon DEF Known, Grows, Events, StateEvents, PortEvents

\* What stays of the events on their way when nothing is sent or taken.
LEMMA EventsKept ==
    ASSUME TypeOK, EventsKnown, Grows, UNCHANGED <<queue, pend>>
    PROVE  EventsKnown'
<1>1. ASSUME NEW i \in 1 .. Len(queue') PROVE Known(queue[i])'
  <2>1. queue[i] \in Events /\ Known(queue[i])
    BY DEF TypeOK, EventsKnown
  <2>. QED BY <2>1, KnownGrows, Zenon
<1>2. ASSUME NEW g \in Greenlets, pend[g] # None PROVE Known(pend[g])'
  <2>1. pend[g] \in Events /\ Known(pend[g])
    BY <1>2, Zenon DEF TypeOK, EventsKnown
  <2>. QED BY <2>1, KnownGrows, Zenon
<1>. QED BY <1>1, <1>2, Zenon DEF EventsKnown

\* Sending an event that is itself about a known connection.
LEMMA EventsSent ==
    ASSUME TypeOK, EventsKnown, Grows,
           NEW g \in Greenlets, NEW e \in Events, Known(e)', _send_event(g, e)
    PROVE  /\ EventsKnown'
           /\ queue' \in Seq(Events) /\ Len(queue') <= QCap
           /\ pend' \in [Greenlets -> Events \cup {None}]
<1>. USE ConstantsAssumption DEF TypeOK
<1>1. CASE Room(queue) /\ queue' = Append(queue, e) /\ UNCHANGED pend
  <2>1. queue' \in Seq(Events) /\ Len(queue') <= QCap /\ pend' \in [Greenlets -> Events \cup {None}]
    BY <1>1 DEF Room
  <2>2. ASSUME NEW i \in 1 .. Len(queue') PROVE Known(queue[i])'
    <3>1. CASE i = Len(queue) + 1
      <4>1. queue'[i] = e
        BY <3>1, <1>1
      <4>. QED BY <4>1, Zenon DEF Known
    <3>2. CASE i \in 1 .. Len(queue)
      <4>1. queue'[i] = queue[i] /\ queue[i] \in Events /\ Known(queue[i])
        BY <3>2, <1>1 DEF EventsKnown
      <4>2. Known(queue[i])'
        <5>1. id'[queue[i].conn] # None /\ (queue[i].type = "state" /\ queue[i].state = "main" => ports'[queue[i].conn] # None)
          BY <4>1, Zenon DEF Known, Grows, Events, StateEvents, PortEvents
        <5>. QED BY <4>1, <5>1, Zenon DEF Known
      <4>. QED BY <4>2, Zenon
    <3>. QED BY <3>1, <3>2, <1>1
  <2>3. ASSUME NEW h \in Greenlets, pend'[h] # None PROVE Known(pend[h])'
    <3>1. pend'[h] = pend[h] /\ pend[h] \in Events /\ Known(pend[h])
      BY <2>3, <1>1, Zenon DEF EventsKnown
    <3>. QED BY <3>1 DEF Known, Grows, Events, StateEvents, PortEvents
  <2>. QED BY <2>1, <2>2, <2>3, Zenon DEF EventsKnown
<1>2. CASE pend' = [pend EXCEPT ![g] = e] /\ UNCHANGED queue
  <2>1. queue' \in Seq(Events) /\ Len(queue') <= QCap /\ pend' \in [Greenlets -> Events \cup {None}]
    BY <1>2, Zenon
  <2>2. ASSUME NEW i \in 1 .. Len(queue') PROVE Known(queue[i])'
    <3>1. queue'[i] = queue[i] /\ queue[i] \in Events /\ Known(queue[i])
      BY <1>2 DEF EventsKnown
    <3>. QED BY <3>1 DEF Known, Grows, Events, StateEvents, PortEvents
  <2>3. ASSUME NEW h \in Greenlets, pend'[h] # None PROVE Known(pend[h])'
    <3>1. CASE h = g
      <4>1. pend'[h] = e
        BY <3>1, <1>2, Zenon
      <4>. QED BY <4>1, Zenon DEF Known
    <3>2. CASE h # g
      <4>1. pend'[h] = pend[h] /\ pend[h] \in Events /\ Known(pend[h])
        BY <3>2, <2>3, <1>2, Zenon DEF EventsKnown
      <4>. QED BY <4>1 DEF Known, Grows, Events, StateEvents, PortEvents
    <3>. QED BY <3>1, <3>2, Zenon
  <2>. QED BY <2>1, <2>2, <2>3, Zenon DEF EventsKnown
<1>. QED BY <1>1, <1>2, Zenon DEF _send_event

\* Taking the first event off the queue.
LEMMA EventsTaken ==
    ASSUME TypeOK, EventsKnown, Grows, queue # <<>>, queue' = Tail(queue), UNCHANGED pend
    PROVE  /\ EventsKnown'
           /\ queue' \in Seq(Events) /\ Len(queue') < QCap
           /\ Head(queue) \in Events /\ Known(Head(queue))
<1>. USE ConstantsAssumption DEF TypeOK
<1>1. /\ queue' \in Seq(Events) /\ Len(queue') = Len(queue) - 1 /\ Len(queue') < QCap
      /\ Head(queue) \in Events /\ Head(queue) = queue[1] /\ 1 \in 1 .. Len(queue)
  OBVIOUS
<1>2. ASSUME NEW i \in 1 .. Len(queue') PROVE Known(queue[i])'
  <2>1. queue'[i] = queue[i + 1] /\ i + 1 \in 1 .. Len(queue)
    BY <1>1
  <2>2. queue[i + 1] \in Events /\ Known(queue[i + 1])
    BY <2>1 DEF EventsKnown
  <2>. QED BY <2>1, <2>2 DEF Known, Grows, Events, StateEvents, PortEvents
<1>3. ASSUME NEW h \in Greenlets, pend'[h] # None PROVE Known(pend[h])'
  <2>1. pend'[h] = pend[h] /\ pend[h] \in Events /\ Known(pend[h])
    BY <1>3, Zenon DEF EventsKnown
  <2>. QED BY <2>1, Zenon DEF Known, Grows, Events, StateEvents, PortEvents
<1>. QED BY <1>1, <1>2, <1>3 DEF EventsKnown

-----------------------------------------------------------------------------
(***************************************************************************)
(* The actions.                                                            *)
(***************************************************************************)

LEMMA InitIInv == Init => IInv
<1>. USE ConstantsAssumption
<1>. SUFFICES ASSUME Init PROVE IInv
  OBVIOUS
<1>1. TypeOK
  BY DEF Init, TypeOK, PortMap, PortVal
<1>2. HandshakeInv
  BY Zenon DEF Init, HandshakeInv
<1>3. EventsKnown
  BY DEF Init, EventsKnown
<1>4. RegistryConsistent /\ ClosingInv /\ ObserversKnow
  BY Zenon DEF Init, RegistryConsistent, ClosingInv, ObserversKnow
<1>. QED BY <1>1, <1>2, <1>3, <1>4, Zenon DEF IInv

LEMMA UnblockIInv ==
    ASSUME IInv, NEW g \in Greenlets, Unblock(g)
    PROVE  IInv'
<1>. USE ConstantsAssumption DEF IInv
<1>1. /\ UNCHANGED <<state, id, ports, closeReq, recv, send, netVars, appVars>>
      /\ pend[g] \in Events /\ Known(pend[g])
  BY Zenon DEF Unblock, TypeOK, EventsKnown
<1>2. TypeOK'
  BY <1>1 DEF TypeOK, Unblock, Room, netVars, appVars
<1>3. EventsKnown'
  <2>1. ASSUME NEW i \in 1 .. Len(queue') PROVE Known(queue[i])'
    <3>1. CASE i = Len(queue) + 1
      BY <3>1, <1>1 DEF Unblock, Known, TypeOK
    <3>2. CASE i \in 1 .. Len(queue)
      BY <3>2, <1>1 DEF Unblock, Known, TypeOK, EventsKnown
    <3>. QED BY <3>1, <3>2 DEF Unblock, TypeOK
  <2>2. ASSUME NEW h \in Greenlets, pend'[h] # None PROVE Known(pend[h])'
    BY <2>2, <1>1, Zenon DEF Unblock, Known, TypeOK, EventsKnown
  <2>. QED BY <2>1, <2>2, Zenon DEF EventsKnown
<1>4. HandshakeInv' /\ RegistryConsistent' /\ ClosingInv' /\ ObserversKnow'
  BY <1>1, Zenon DEF HandshakeInv, RegistryConsistent, ClosingInv, ObserversKnow, netVars, appVars
<1>. QED BY <1>2, <1>3, <1>4, Zenon

NetType ==
    /\ link \in [Conns -> BOOLEAN]
    /\ chan \in [Conns -> Seq(Msgs)]
    /\ swPorts \in [Dpids -> PortMap]
    /\ changes \in 0 .. MaxPortChanges

\* A step of the environment has only its own variables to type.
LEMMA EnvironmentTypes ==
    ASSUME TypeOK, UNCHANGED <<connVars, queue, appVars>>, NetType'
    PROVE  TypeOK'
<1>1. UNCHANGED <<state, id, ports, closeReq, recv, send, pend, queue, dpset, closing, dps, port_state, seen>>
  BY Zenon DEF connVars, appVars
<1>. QED BY <1>1, Zenon DEF TypeOK, NetType

\* The switches and the network touch nothing dpset relies on.
LEMMA EnvironmentIInv ==
    ASSUME IInv,
           \/ \E d \in Dpids, p \in Ports, v \in PortVal : PortChange(d, p, v)
           \/ \E c \in Conns : LinkDown(c) \/ PortDesc(c)
    PROVE  IInv'
<1>. USE ConstantsAssumption DEF IInv
<1>1. UNCHANGED <<connVars, queue, appVars>>
  BY Zenon DEF PortChange, LinkDown, PortDesc
<1>2. TypeOK'
  <2>1. ASSUME NEW d \in Dpids, NEW p \in Ports, NEW v \in PortVal, PortChange(d, p, v)
        PROVE  TypeOK'
    <3>1. PICK r \in {"add", "delete", "modify"} :
             chan' = [c \in Conns |-> IF link[c] /\ id[c] = d
                                      THEN Append(chan[c], [type |-> "port", port |-> p, val |-> v, reason |-> r])
                                      ELSE chan[c]]
      BY <2>1, Zenon DEF PortChange
    <3>2. chan' \in [Conns -> Seq(Msgs)]
      <4>. DEFINE m == [type |-> "port", port |-> p, val |-> v, reason |-> r]
      <4>1. m \in Msgs
        BY Zenon DEF Msgs, PortMsgs
      <4>. HIDE DEF m
      <4>2. ASSUME NEW c \in Conns PROVE chan'[c] \in Seq(Msgs)
        <5>1. chan[c] \in Seq(Msgs)
          BY Zenon DEF TypeOK
        <5>2. Append(chan[c], m) \in Seq(Msgs)
          BY <5>1, <4>1, AppendProperties, Zenon
        <5>3. chan'[c] \in {chan[c], Append(chan[c], m)}
          BY <3>1, Zenon DEF m
        <5>. QED BY <5>1, <5>2, <5>3, Zenon
      <4>3. chan' = [c \in Conns |-> chan'[c]]
        BY <3>1, Zenon
      <4>. HIDE <3>1
      <4>. QED BY <4>2, <4>3, Zenon
    <3>3. changes' \in 0 .. MaxPortChanges /\ swPorts' \in [Dpids -> PortMap] /\ link' = link
      BY <2>1 DEF PortChange, TypeOK, PortMap
    <3>4. NetType'
      BY <3>2, <3>3, Zenon DEF TypeOK, NetType
    <3>. QED BY <3>4, <1>1, EnvironmentTypes, Zenon
  <2>2. ASSUME NEW c \in Conns, LinkDown(c)
        PROVE  TypeOK'
    <3>1. PICK n \in 0 .. Len(chan[c]) : chan' = [chan EXCEPT ![c] = SubSeq(@, 1, n)]
      BY <2>2, Zenon DEF LinkDown
    <3>2. SubSeq(chan[c], 1, n) \in Seq(Msgs)
      BY DEF TypeOK
    <3>3. NetType'
      BY <2>2, <3>1, <3>2, Zenon DEF LinkDown, TypeOK, NetType
    <3>. QED BY <3>3, <1>1, EnvironmentTypes, Zenon
  <2>3. ASSUME NEW c \in Conns, PortDesc(c)
        PROVE  TypeOK'
    <3>. DEFINE m == [type |-> "desc", ports |-> swPorts[id[c]]]
    <3>1. id[c] \in Dpids /\ swPorts[id[c]] \in PortMap
      BY <2>3, Zenon DEF PortDesc, TypeOK, HandshakeInv
    <3>2. m \in Msgs
      BY <3>1, Zenon DEF Msgs, DescMsgs
    <3>3. chan' = [chan EXCEPT ![c] = Append(@, m)] /\ UNCHANGED <<link, swPorts, changes>>
      BY <2>3, Zenon DEF PortDesc
    <3>. HIDE DEF m
    <3>4. chan[c] \in Seq(Msgs)
      BY Zenon DEF TypeOK
    <3>5. NetType'
      BY <3>2, <3>3, <3>4 DEF TypeOK, NetType
    <3>. QED BY <3>5, <1>1, EnvironmentTypes, Zenon
  <2>. QED BY <2>1, <2>2, <2>3, Zenon
<1>3. EventsKnown'
  BY <1>1, EventsKept, Zenon DEF connVars, Grows
<1>4. HandshakeInv' /\ RegistryConsistent' /\ ClosingInv' /\ ObserversKnow'
  BY <1>1, Zenon DEF HandshakeInv, RegistryConsistent, ClosingInv, ObserversKnow, connVars, appVars
<1>. QED BY <1>2, <1>3, <1>4, Zenon

LEMMA ConnectIInv ==
    ASSUME IInv, NEW c \in Conns, NEW d \in Dpids, Connect(c, d)
    PROVE  IInv'
<1>. USE ConstantsAssumption DEF IInv
<1>1. TypeOK'
  BY Zenon DEF TypeOK, Connect, appVars
<1>2. HandshakeInv'
  BY DEF TypeOK, Connect, HandshakeInv
<1>3. Grows /\ UNCHANGED <<queue, pend, appVars>>
  BY Zenon DEF TypeOK, Connect, Grows
<1>4. EventsKnown'
  BY <1>3, EventsKept, Zenon
<1>5. id[c] = None /\ \A b \in Conns : id[b] # None => id'[b] = id[b]
  BY Zenon DEF TypeOK, Connect, HandshakeInv
<1>6. UNCHANGED <<dpset, closing, dps, port_state, seen>>
  BY <1>3, Zenon DEF appVars
<1>7. RegistryConsistent'
  <2>1. dps \in [Dpids -> Conns \cup {None}]
    BY Zenon DEF TypeOK
  <2>2. ASSUME NEW k \in Dpids, dps[k] # None PROVE id'[dps[k]] = k
    <3>1. dps[k] \in Conns /\ id[dps[k]] = k
      BY <2>1, <2>2, Zenon DEF RegistryConsistent
    <3>. QED BY <3>1, <1>5, Zenon
  <2>. QED BY <1>6, <2>2, Zenon DEF RegistryConsistent
<1>8. ClosingInv'
  <2>1. closing # None => closing \in Conns /\ id[closing] # None
    BY Zenon DEF TypeOK, ClosingInv
  <2>. QED BY <1>5, <1>6, <2>1, Zenon DEF ClosingInv
<1>9. ObserversKnow'
  BY <1>6, Zenon DEF ObserversKnow
<1>. QED BY <1>1, <1>2, <1>4, <1>7, <1>8, <1>9, Zenon

\* dpset's own variables are left alone, and no connection loses its id.
LEMMA ConnectionStep ==
    ASSUME IInv, UNCHANGED <<id, appVars>>
    PROVE  RegistryConsistent' /\ ClosingInv' /\ ObserversKnow'
BY Zenon DEF IInv, RegistryConsistent, ClosingInv, ObserversKnow, appVars

\* The message read is one the switch sent, and the rest stays.
LEMMA ReadsMessage ==
    ASSUME IInv, NEW c \in Conns, Reads(c)
    PROVE  /\ UNCHANGED <<id, closeReq, recv, send, link, swPorts, changes, appVars>>
           /\ chan' \in [Conns -> Seq(Msgs)]
           /\ Head(chan[c]) \in Msgs
           /\ recv[c] = "run" /\ id[c] \in Dpids
<1>1. chan[c] \in Seq(Msgs) /\ chan[c] # <<>> /\ chan' = [chan EXCEPT ![c] = Tail(@)]
  BY Zenon DEF IInv, TypeOK, Reads
<1>2. Head(chan[c]) \in Msgs /\ Tail(chan[c]) \in Seq(Msgs)
  BY <1>1
<1>3. chan' \in [Conns -> Seq(Msgs)]
  BY <1>1, <1>2, Zenon DEF IInv, TypeOK
<1>4. recv[c] = "run" /\ id[c] \in Dpids
  BY DEF IInv, TypeOK, HandshakeInv, Reads, Receiving
<1>. QED BY <1>2, <1>3, <1>4, Zenon DEF Reads

LEMMA HandshakeIInv ==
    ASSUME IInv, NEW c \in Conns, multipart_reply_handler(c)
    PROVE  IInv'
<1>. USE ConstantsAssumption DEF IInv
<1>. DEFINE g == <<"recv", c>>
            e == StateEvent(c, "main")
<1>1. PICK pm : /\ UNCHANGED <<id, closeReq, recv, send, link, swPorts, changes, appVars>>
                /\ chan' \in [Conns -> Seq(Msgs)]
                /\ ports' = [ports EXCEPT ![c] = pm]
                /\ pm \in PortMap
                /\ state' = [state EXCEPT ![c] = "main"]
                /\ _send_event(g, e)
                /\ recv[c] = "run" /\ id[c] \in Dpids
  <2>1. Head(chan[c]) \in Msgs /\ Head(chan[c]).type = "desc"
    BY ReadsMessage, Zenon DEF multipart_reply_handler
  <2>2. Head(chan[c]).ports \in PortMap
    BY <2>1, Zenon DEF Msgs, PortMsgs, DescMsgs
  <2>. QED BY <2>2, ReadsMessage, Zenon DEF multipart_reply_handler
<1>2. id[c] \in Dpids /\ pm \in PortMap
  BY <1>1, Zenon
<1>3. Grows /\ ports'[c] # None
  BY <1>1, <1>2, Zenon DEF TypeOK, Grows
<1>4. g \in Greenlets /\ e \in Events
  BY Zenon DEF Greenlets, StateEvent, Events, StateEvents
<1>5. Known(e)'
  BY <1>1, <1>2, <1>3, Zenon DEF Known, StateEvent
<1>. HIDE DEF g, e
<1>6. /\ EventsKnown' /\ queue' \in Seq(Events) /\ Len(queue') <= QCap
      /\ pend' \in [Greenlets -> Events \cup {None}]
  BY <1>1, <1>3, <1>4, <1>5, EventsSent, Zenon
<1>7. TypeOK'
  BY <1>1, <1>2, <1>6, Zenon DEF TypeOK, appVars
<1>8. HandshakeInv'
  BY <1>1, <1>2, <1>3 DEF TypeOK, HandshakeInv
<1>. QED BY <1>1, <1>6, <1>7, <1>8, ConnectionStep, Zenon

LEMMA PortStatusIInv ==
    ASSUME IInv, NEW c \in Conns, recv_port_status(c) \/ recv_ignored(c)
    PROVE  IInv'
<1>. USE ConstantsAssumption DEF IInv
<1>. DEFINE g == <<"recv", c>>
<1>1. /\ UNCHANGED <<state, id, ports, closeReq, recv, send, link, swPorts, changes, appVars>>
      /\ chan' \in [Conns -> Seq(Msgs)]
      /\ recv[c] = "run"
      /\ \/ Head(chan[c]) \in PortMsgs /\ _send_event(g, PortEvent(c, Head(chan[c])))
         \/ UNCHANGED <<queue, pend>>
  <2>1. Head(chan[c]).type = "port" /\ Head(chan[c]) \in Msgs => Head(chan[c]) \in PortMsgs
    BY Zenon DEF Msgs, DescMsgs
  <2>. QED BY <2>1, ReadsMessage, Zenon DEF recv_port_status, recv_ignored
<1>2. Grows /\ id'[c] # None
  BY <1>1, Zenon DEF Grows, HandshakeInv
<1>3. g \in Greenlets
  BY Zenon DEF Greenlets
<1>. HIDE DEF g
<1>4. /\ EventsKnown' /\ queue' \in Seq(Events) /\ Len(queue') <= QCap
      /\ pend' \in [Greenlets -> Events \cup {None}]
  <2>1. ASSUME Head(chan[c]) \in PortMsgs, _send_event(g, PortEvent(c, Head(chan[c])))
        PROVE  /\ EventsKnown' /\ queue' \in Seq(Events) /\ Len(queue') <= QCap
               /\ pend' \in [Greenlets -> Events \cup {None}]
    <3>1. PICK m \in PortMsgs : m = Head(chan[c])
      BY <2>1, Zenon
    <3>2. PICK e \in Events : e = PortEvent(c, m) /\ e.conn = c /\ e.type = "port"
      <4>1. m.port \in Ports /\ m.val \in PortVal /\ m.reason \in {"add", "delete", "modify"}
        BY Zenon DEF PortMsgs
      <4>2. PortEvent(c, m) \in Events
        BY <4>1, Zenon DEF PortEvent, Events, PortEvents
      <4>3. PortEvent(c, m).conn = c /\ PortEvent(c, m).type = "port"
        BY Zenon DEF PortEvent
      <4>. QED BY <4>2, <4>3, Zenon
    <3>3. Known(e)'
      BY <1>2, <3>2, Zenon DEF Known
    <3>. QED BY <2>1, <1>2, <1>3, <3>1, <3>2, <3>3, EventsSent, Zenon
  <2>2. CASE UNCHANGED <<queue, pend>>
    <3>1. EventsKnown'
      BY <2>2, <1>2, EventsKept, Zenon
    <3>. QED BY <3>1, <2>2, Zenon DEF TypeOK
  <2>. QED BY <1>1, <2>1, <2>2, Zenon
<1>5. TypeOK'
  BY <1>1, <1>4, Zenon DEF TypeOK, appVars
<1>6. HandshakeInv'
  BY <1>1, Zenon DEF HandshakeInv
<1>. QED BY <1>1, <1>4, <1>5, <1>6, ConnectionStep, Zenon

\* The ways a connection ends: each announces DEAD, from one greenlet or the
\* other, and changes nothing else that dpset relies on.
LEMMA EndIInv ==
    ASSUME IInv, NEW c \in Conns,
           recv_loop_end(c) \/ send_loop_end(c) \/ serve_kill(c) \/ serve_close(c)
    PROVE  IInv'
<1>. USE ConstantsAssumption DEF IInv
<1>. DEFINE e == StateEvent(c, "dead")
<1>1. /\ UNCHANGED <<id, ports, swPorts, changes, appVars>>
      /\ state' = [state EXCEPT ![c] = "dead"] \/ UNCHANGED state
      /\ closeReq' = [closeReq EXCEPT ![c] = TRUE] \/ UNCHANGED closeReq
      /\ recv' = recv \/ \E r \in {"ended", "joining", "closed"} : recv[c] # "off" /\ recv' = [recv EXCEPT ![c] = r]
      /\ send' = send \/ send' = [send EXCEPT ![c] = "done"]
      /\ link' = link \/ link' = [link EXCEPT ![c] = FALSE]
      /\ chan' = chan \/ chan' = [chan EXCEPT ![c] = <<>>]
      /\ recv[c] # "off" \/ send[c] # "off"
      /\ \/ \E g \in {<<"recv", c>>, <<"send", c>>} : _send_event(g, e)
         \/ pend' = [pend EXCEPT ![<<"send", c>>] = None] /\ UNCHANGED queue
  BY Zenon DEF recv_loop_end, send_loop_end, serve_kill, serve_close, _deactivate, netVars, Receiving
<1>2. Grows /\ id'[c] # None
  BY <1>1, Zenon DEF Grows, HandshakeInv
<1>3. <<"recv", c>> \in Greenlets /\ <<"send", c>> \in Greenlets /\ e \in Events
  BY Zenon DEF Greenlets, StateEvent, Events, StateEvents
<1>4. Known(e)'
  BY <1>2, Zenon DEF Known, StateEvent
<1>. HIDE DEF e
<1>5. /\ EventsKnown' /\ queue' \in Seq(Events) /\ Len(queue') <= QCap
      /\ pend' \in [Greenlets -> Events \cup {None}]
  <2>1. ASSUME NEW g \in {<<"recv", c>>, <<"send", c>>}, _send_event(g, e)
        PROVE  /\ EventsKnown' /\ queue' \in Seq(Events) /\ Len(queue') <= QCap
               /\ pend' \in [Greenlets -> Events \cup {None}]
    BY <2>1, <1>2, <1>3, <1>4, EventsSent, Zenon
  <2>2. CASE pend' = [pend EXCEPT ![<<"send", c>>] = None] /\ UNCHANGED queue
    <3>1. pend' \in [Greenlets -> Events \cup {None}] /\ queue' \in Seq(Events) /\ Len(queue') <= QCap
      BY <2>2, Zenon DEF TypeOK
    <3>2. ASSUME NEW i \in 1 .. Len(queue') PROVE Known(queue[i])'
      BY <2>2, <1>1, Zenon DEF EventsKnown, Known
    <3>3. ASSUME NEW h \in Greenlets, pend'[h] # None PROVE Known(pend[h])'
      <4>1. pend'[h] = pend[h]
        BY <2>2, <3>3, Zenon DEF TypeOK
      <4>. QED BY <3>3, <4>1, <1>1, Zenon DEF EventsKnown, Known
    <3>4. EventsKnown'
      BY <3>2, <3>3, Zenon DEF EventsKnown
    <3>. QED BY <3>1, <3>4, Zenon
  <2>. QED BY <1>1, <2>1, <2>2, Zenon
<1>6. TypeOK'
  <2>1. state' \in [Conns -> {"none", "config", "main", "dead"}]
    BY <1>1, ZenonT(40) DEF TypeOK
  <2>6. closeReq' \in [Conns -> BOOLEAN]
    BY <1>1, ZenonT(40) DEF TypeOK
  <2>2. recv' \in [Conns -> {"off", "run", "ended", "joining", "closed"}]
    BY <1>1, Zenon DEF TypeOK
  <2>3. send' \in [Conns -> {"off", "run", "done"}]
    BY <1>1, ZenonT(40) DEF TypeOK
  <2>7. link' \in [Conns -> BOOLEAN]
    BY <1>1, ZenonT(40) DEF TypeOK
  <2>4. chan' \in [Conns -> Seq(Msgs)]
    <3>1. <<>> \in Seq(Msgs)
      OBVIOUS
    <3>. QED BY <1>1, <3>1, ZenonT(40) DEF TypeOK
  <2>5. UNCHANGED <<id, ports, swPorts, changes, dpset, closing, dps, port_state, seen>>
    BY <1>1, Zenon DEF appVars
  <2>. QED BY <1>5, <2>1, <2>2, <2>3, <2>4, <2>5, <2>6, <2>7, Zenon DEF TypeOK
<1>7. HandshakeInv'
  <2>. SUFFICES ASSUME NEW b \in Conns
                PROVE  /\ state'[b] = "none" <=> id'[b] = None
                       /\ recv'[b] # "off" => id'[b] # None
                       /\ send'[b] # "off" => id'[b] # None
                       /\ state'[b] = "main" => ports'[b] # None
    BY Zenon DEF HandshakeInv
  <2>1. id'[b] = id[b] /\ ports'[b] = ports[b]
    BY <1>1, Zenon
  <2>2. CASE b # c
    <3>1. state'[b] = state[b] /\ recv'[b] = recv[b] /\ send'[b] = send[b]
      BY <1>1, <2>2 DEF TypeOK
    <3>. QED BY <2>1, <3>1, Zenon DEF HandshakeInv
  <2>3. CASE b = c
    <3>1. id[c] # None
      BY <1>1, <1>2, Zenon
    <3>2. state[c] # "none"
      BY <3>1, Zenon DEF HandshakeInv
    <3>3. state'[c] = "dead" \/ state'[c] = state[c]
      BY <1>1, Zenon DEF TypeOK
    <3>. QED BY <2>1, <2>3, <3>1, <3>2, <3>3, Zenon DEF HandshakeInv
  <2>. QED BY <2>2, <2>3, Zenon
<1>. QED BY <1>1, <1>5, <1>6, <1>7, ConnectionStep, Zenon

-----------------------------------------------------------------------------
(***************************************************************************)
(* The handlers of dpset.                                                  *)
(***************************************************************************)

\* Taking the head of a queue and perhaps appending one element.
LEMMA TailThenAppend ==
    ASSUME NEW S, NEW q \in Seq(S), q # <<>>, NEW f \in S, NEW cap \in Nat,
           Len(Tail(q)) < cap, NEW r, r = Append(Tail(q), f) \/ r = Tail(q)
    PROVE  /\ r \in Seq(S) /\ Len(r) <= cap
           /\ \A i \in 1 .. Len(r) : r[i] = f \/ \E j \in 1 .. Len(q) : r[i] = q[j]
<1>1. PICK t \in Seq(S) : t = Tail(q) /\ Len(t) = Len(q) - 1 /\ \A i \in 1 .. Len(t) : t[i] = q[i + 1]
  <2>1. /\ Tail(q) \in Seq(S) /\ Len(Tail(q)) = Len(q) - 1
        /\ \A i \in 1 .. Len(Tail(q)) : Tail(q)[i] = q[i + 1]
    BY HeadTailProperties, Zenon
  <2>. QED BY <2>1, Zenon
<1>2. Len(t) \in Nat /\ Len(q) \in Nat /\ Len(t) < cap
  BY <1>1
<1>3. \A i \in 1 .. Len(t) : \E j \in 1 .. Len(q) : t[i] = q[j]
  <2>1. \A i \in 1 .. Len(t) : i + 1 \in 1 .. Len(q)
    BY <1>1, <1>2
  <2>. QED BY <1>1, <2>1, Zenon
<1>4. CASE r = t
  <2>1. Len(r) <= cap
    BY <1>2, <1>4
  <2>. QED BY <1>3, <1>4, <2>1, Zenon
<1>5. CASE r = Append(t, f)
  <2>1. /\ r \in Seq(S) /\ Len(r) = Len(t) + 1 /\ r[Len(t) + 1] = f
        /\ \A i \in 1 .. Len(t) : r[i] = t[i]
    BY <1>5, AppendProperties
  <2>2. \A i \in 1 .. Len(r) : i = Len(t) + 1 \/ i \in 1 .. Len(t)
    BY <1>2, <2>1
  <2>3. Len(r) <= cap
    BY <1>2, <2>1
  <2>. QED BY <1>3, <2>1, <2>2, <2>3, Zenon
<1>. QED BY <1>1, <1>4, <1>5, Zenon

\* The types of what the handlers of dpset change.
QueueType == queue \in Seq(Events) /\ Len(queue) <= QCap

ConnType ==
    /\ state \in [Conns -> {"none", "config", "main", "dead"}]
    /\ closeReq \in [Conns -> BOOLEAN]

AppType ==
    /\ dpset \in {"run", "raised"}
    /\ closing \in Conns \cup {None}
    /\ dps \in [Dpids -> Conns \cup {None}]
    /\ port_state \in [Dpids -> PortMap \cup {None}]
    /\ seen \in [Dpids -> PortMap \cup {None}]

\* What every handler leaves alone, and what it knows of its event.
LEMMA Taken ==
    ASSUME IInv, NEW e, Take(e)
    PROVE  /\ UNCHANGED <<id, ports, recv, send, pend, netVars>>
           /\ dpset = "run" /\ closing = None /\ queue # <<>>
           /\ e \in Events /\ Known(e) /\ e.conn \in Conns
           /\ id[e.conn] \in Dpids
           /\ Tail(queue) \in Seq(Events) /\ Len(Tail(queue)) < QCap
           /\ Grows
           /\ queue' = Tail(queue) => EventsKnown' /\ QueueType'
<1>. USE ConstantsAssumption DEF IInv
<1>1. /\ UNCHANGED <<id, ports, recv, send, pend, netVars>>
      /\ dpset = "run" /\ closing = None /\ queue # <<>> /\ e = Head(queue)
  BY Zenon DEF Take
<1>2. Grows
  BY <1>1, Zenon DEF Grows
<1>3. Tail(queue) \in Seq(Events) /\ Len(Tail(queue)) < QCap /\ queue[1] = e /\ 1 \in 1 .. Len(queue)
  BY <1>1 DEF TypeOK
<1>4. e \in Events /\ Known(e)
  <2>. queue \in Seq(Events)
    BY Zenon DEF TypeOK
  <2>1. queue[1] \in Events
    <3>. HIDE DEF IInv
    <3>. QED BY <1>3
  <2>2. Known(queue[1])
    BY <1>3, Zenon DEF EventsKnown
  <2>. QED BY <1>3, <2>1, <2>2, Zenon
<1>5. e.conn \in Conns /\ id[e.conn] \in Dpids
  BY <1>4 DEF TypeOK, Known, Events, StateEvents, PortEvents
<1>6. queue' = Tail(queue) => EventsKnown' /\ QueueType'
  <2>1. queue' = Tail(queue) => EventsKnown'
    BY <1>1, <1>2, EventsTaken, Zenon
  <2>2. Len(Tail(queue)) \in Nat /\ Len(Tail(queue)) <= QCap
    BY <1>3
  <2>. QED BY <1>3, <2>1, <2>2, Zenon DEF QueueType
<1>. QED BY <1>1, <1>2, <1>3, <1>4, <1>5, <1>6, Zenon

\* A handler that leaves the greenlets and the network alone keeps every type
\* if it keeps those of the variables it changes.
LEMMA HandlerTypes ==
    ASSUME TypeOK, UNCHANGED <<id, ports, recv, send, pend, netVars>>,
           QueueType', ConnType', AppType'
    PROVE  TypeOK'
<1>1. UNCHANGED <<id, ports, recv, send, pend, link, chan, swPorts, changes>>
  BY Zenon DEF netVars
<1>. QED BY <1>1, ZenonT(30) DEF TypeOK, QueueType, ConnType, AppType

LEMMA RegisterNewIInv ==
    ASSUME IInv, NEW e, Take(e), e.type = "state", e.state = "main", register_new(e.conn)
    PROVE  IInv'
<1>. USE ConstantsAssumption DEF IInv
<1>. DEFINE c == e.conn
            d == id[e.conn]
<1>1. /\ UNCHANGED <<id, ports, recv, send, pend, netVars>>
      /\ dpset = "run" /\ closing = None
      /\ c \in Conns /\ d \in Dpids /\ ports[c] \in PortMap
      /\ Tail(queue) \in Seq(Events) /\ Len(Tail(queue)) < QCap
      /\ queue' = Tail(queue) => EventsKnown' /\ QueueType'
  <2>1. /\ UNCHANGED <<id, ports, recv, send, pend, netVars>>
        /\ dpset = "run" /\ closing = None
        /\ Known(e) /\ e.conn \in Conns /\ id[e.conn] \in Dpids
        /\ Tail(queue) \in Seq(Events) /\ Len(Tail(queue)) < QCap
        /\ queue' = Tail(queue) => EventsKnown' /\ QueueType'
    <3>. HIDE DEF IInv
    <3>. QED BY Taken, Zenon
  <2>2. ports[e.conn] # None
    BY <2>1, Zenon DEF Known
  <2>3. ports \in [Conns -> PortMap \cup {None}]
    BY Zenon DEF TypeOK
  <2>4. ports[e.conn] \in PortMap
    <3>. HIDE DEF IInv
    <3>. QED BY <2>1, <2>2, <2>3, Zenon
  <2>. QED BY <2>1, <2>4, Zenon
<1>2. /\ dps[d] = None /\ dps' = [dps EXCEPT ![d] = c]
      /\ queue' = Tail(queue)
      /\ UNCHANGED <<state, closeReq, dpset, closing>>
      /\ port_state' = [port_state EXCEPT ![d] = ports[c]]
      /\ seen' = [seen EXCEPT ![d] = ports[c]]
  BY <1>1, Zenon DEF register_new, RegistryConsistent
<1>. HIDE DEF c, d
<1>3. TypeOK'
  <2>1. ConnType'
    BY <1>2, Zenon DEF TypeOK, ConnType
  <2>2. AppType'
    BY <1>1, <1>2, Zenon DEF TypeOK, AppType
  <2>. QED BY <1>1, <1>2, <2>1, <2>2, HandlerTypes, Zenon
<1>4. HandshakeInv' /\ ClosingInv'
  BY <1>1, <1>2, ZenonT(30) DEF HandshakeInv, ClosingInv
<1>5. RegistryConsistent'
  <2>1. dps \in [Dpids -> Conns \cup {None}] /\ port_state \in [Dpids -> PortMap \cup {None}]
    BY Zenon DEF TypeOK
  <2>2. id' = id /\ id[c] = d /\ c # None /\ ports[c] # None
    BY <1>1, Zenon DEF c, d
  <2>. QED BY <1>1, <1>2, <2>1, <2>2, Zenon DEF RegistryConsistent
<1>6. ObserversKnow'
  BY <1>1, <1>2, Zenon DEF TypeOK, ObserversKnow
<1>. QED BY <1>1, <1>2, <1>3, <1>4, <1>5, <1>6, Zenon

LEMMA RegisterAgainIInv ==
    ASSUME IInv, NEW e, Take(e), register_again(e.conn)
    PROVE  IInv'
<1>. USE ConstantsAssumption DEF IInv
<1>. DEFINE d == id[e.conn]
            old == dps[id[e.conn]]
<1>1. /\ UNCHANGED <<id, ports, recv, send, pend, netVars>>
      /\ dpset = "run" /\ closing = None
      /\ e.conn \in Conns /\ d \in Dpids
      /\ Tail(queue) \in Seq(Events) /\ Len(Tail(queue)) < QCap
      /\ queue # <<>> /\ Grows
      /\ queue' = Tail(queue) => EventsKnown' /\ QueueType'
  BY Taken, Zenon
<1>2. /\ old \in Conns /\ id[old] = d /\ id[old] # None
      /\ closeReq' = [closeReq EXCEPT ![old] = TRUE]
      /\ state' = [state EXCEPT ![old] = "dead"]
      /\ UNCHANGED <<dpset, port_state, seen>>
  <2>1. old \in Conns /\ old # None
    BY <1>1, Zenon DEF register_again, TypeOK
  <2>2. id[old] = d
    BY <1>1, <2>1, Zenon DEF RegistryConsistent
  <2>. QED BY <1>1, <2>1, <2>2, Zenon DEF register_again, TypeOK
<1>3. \/ /\ queue' = Append(Tail(queue), StateEvent(old, "dead"))
         /\ dps' = [dps EXCEPT ![d] = e.conn] /\ UNCHANGED closing
      \/ /\ queue' = Tail(queue) /\ closing' = e.conn /\ UNCHANGED dps /\ OtherObservers
  BY <1>1, Zenon DEF register_again, RoomForOwn, Room
<1>4. PICK f \in Events : f = StateEvent(old, "dead") /\ f.conn = old /\ f.type = "state" /\ f.state = "dead"
  <2>. HIDE DEF old
  <2>1. StateEvent(old, "dead") \in Events
    BY <1>2, Zenon DEF StateEvent, Events, StateEvents
  <2>2. LET f == StateEvent(old, "dead") IN f.conn = old /\ f.type = "state" /\ f.state = "dead"
    BY Zenon DEF StateEvent
  <2>. QED BY <2>1, <2>2, Zenon
<1>5. id'[f.conn] # None
  BY <1>1, <1>2, <1>4, Zenon
<1>6. /\ queue' \in Seq(Events) /\ Len(queue') <= QCap
      /\ \A i \in 1 .. Len(queue') : queue'[i] = f \/ \E j \in 1 .. Len(queue) : queue'[i] = queue[j]
  <2>1. PICK q \in Seq(Events) : q = queue
    BY Zenon DEF TypeOK
  <2>2. PICK r : r = queue'
    OBVIOUS
  <2>3. q # <<>> /\ Len(Tail(q)) < QCap /\ (r = Append(Tail(q), f) \/ r = Tail(q))
    BY <1>1, <1>3, <1>4, <2>1, <2>2, Zenon
  <2>4. /\ r \in Seq(Events) /\ Len(r) <= QCap
        /\ \A i \in 1 .. Len(r) : r[i] = f \/ \E j \in 1 .. Len(q) : r[i] = q[j]
    BY <2>3, TailThenAppend, SMTT(30)
  <2>. QED BY <2>1, <2>2, <2>4
<1>7. EventsKnown'
  <2>1. ASSUME NEW i \in 1 .. Len(queue') PROVE Known(queue[i])'
    <3>1. CASE queue'[i] = f
      BY <3>1, <1>4, <1>5, Zenon DEF Known
    <3>2. ASSUME NEW j \in 1 .. Len(queue), queue'[i] = queue[j] PROVE Known(queue[i])'
      BY <3>2, <1>1, Zenon DEF EventsKnown, Known
    <3>. QED BY <3>1, <3>2, <1>6, Zenon
  <2>2. ASSUME NEW h \in Greenlets, pend'[h] # None PROVE Known(pend[h])'
    BY <2>2, <1>1, Zenon DEF EventsKnown, Known
  <2>. QED BY <2>1, <2>2, Zenon DEF EventsKnown
<1>. HIDE DEF d, old
<1>8. TypeOK'
  <2>1. dps' \in [Dpids -> Conns \cup {None}] /\ closing' \in Conns \cup {None}
    BY <1>1, <1>3, Zenon DEF TypeOK
  <2>2. AppType'
    BY <1>2, <2>1, Zenon DEF TypeOK, AppType
  <2>3. ConnType'
    BY <1>2, Zenon DEF TypeOK, ConnType
  <2>4. QueueType'
    BY <1>6, Zenon DEF QueueType
  <2>. QED BY <1>1, <2>2, <2>3, <2>4, HandlerTypes, Zenon
<1>9. HandshakeInv'
  <2>1. state' = [state EXCEPT ![old] = "dead"] /\ old \in Conns /\ id[old] # None /\ UNCHANGED <<id, ports, recv, send>>
    BY <1>1, <1>2, Zenon
  <2>2. ASSUME NEW b \in Conns PROVE state'[b] = state[b] \/ (b = old /\ state'[b] = "dead")
    BY <2>1, Zenon DEF TypeOK
  <2>. QED BY <2>1, <2>2, Zenon DEF HandshakeInv
<1>10. RegistryConsistent'
  <2>1. dps[d] # None /\ d = id[e.conn] /\ e.conn # None
    BY <1>1, <1>2, Zenon DEF d, old
  <2>2. dps' = dps \/ dps' = [dps EXCEPT ![d] = e.conn]
    BY <1>3, Zenon
  <2>3. UNCHANGED <<id, port_state>> /\ dps \in [Dpids -> Conns \cup {None}]
    BY <1>1, <1>2, Zenon DEF TypeOK
  <2>. QED BY <1>1, <2>1, <2>2, <2>3, Zenon DEF RegistryConsistent
<1>11. ClosingInv'
  <2>1. CASE closing' = None
    BY <2>1, ZenonT(30) DEF ClosingInv
  <2>2. CASE closing' = e.conn /\ UNCHANGED dps /\ OtherObservers
    <3>1. dps[id[e.conn]] # None /\ id[e.conn] # None
      BY <1>1, <1>2, Zenon DEF d, old
    <3>. QED BY <1>1, <2>2, <3>1, Zenon DEF ClosingInv
  <2>. QED BY <1>1, <1>3, <2>1, <2>2, Zenon
<1>12. ObserversKnow'
  BY <1>2, Zenon DEF ObserversKnow
<1>. QED BY <1>7, <1>8, <1>9, <1>10, <1>11, <1>12, Zenon

\* An event is put on a queue that has room for it.
LEMMA AppendedQueue ==
    ASSUME queue \in Seq(Events), NEW f \in Events, Len(queue) < QCap, queue' = Append(queue, f)
    PROVE  /\ queue' \in Seq(Events) /\ Len(queue') = Len(queue) + 1 /\ Len(queue') <= QCap
           /\ queue'[Len(queue) + 1] = f /\ \A i \in 1 .. Len(queue) : queue'[i] = queue[i]
<1>1. /\ queue' \in Seq(Events) /\ Len(queue') = Len(queue) + 1
      /\ queue'[Len(queue) + 1] = f /\ \A i \in 1 .. Len(queue) : queue'[i] = queue[i]
  BY AppendProperties
<1>2. Len(queue) + 1 <= QCap
  <2>1. Len(queue) \in Nat /\ QCap \in Nat
    BY ConstantsAssumption
  <2>. QED BY <2>1
<1>. QED BY <1>1, <1>2, Zenon

LEMMA RegisterResumeIInv ==
    ASSUME IInv, register_resume
    PROVE  IInv'
<1>. USE ConstantsAssumption DEF IInv
<1>. DEFINE d == id[closing]
            old == dps[id[closing]]
<1>1. /\ UNCHANGED <<connVars, netVars, dpset, port_state, seen>>
      /\ closing \in Conns /\ d \in Dpids /\ old \in Conns /\ id[old] = d
      /\ queue' = Append(queue, StateEvent(old, "dead")) /\ Len(queue) < QCap
      /\ dps' = [dps EXCEPT ![d] = closing]
      /\ closing' = None
  BY Zenon DEF register_resume, ClosingInv, TypeOK, RegistryConsistent, Room
<1>2. PICK f \in Events : f = StateEvent(old, "dead") /\ f.conn = old /\ f.type = "state" /\ f.state = "dead"
  <2>. HIDE DEF old
  <2>1. StateEvent(old, "dead") \in Events
    BY <1>1, Zenon DEF StateEvent, Events, StateEvents
  <2>2. LET f == StateEvent(old, "dead") IN f.conn = old /\ f.type = "state" /\ f.state = "dead"
    BY Zenon DEF StateEvent
  <2>. QED BY <2>1, <2>2, Zenon
<1>. HIDE DEF d, old
<1>3. /\ queue \in Seq(Events) /\ queue' \in Seq(Events) /\ Len(queue') = Len(queue) + 1 /\ Len(queue') <= QCap
      /\ queue'[Len(queue) + 1] = f /\ \A i \in 1 .. Len(queue) : queue'[i] = queue[i]
  <2>1. queue \in Seq(Events)
    BY Zenon DEF TypeOK
  <2>2. Len(queue) < QCap /\ queue' = Append(queue, f)
    BY <1>1, <1>2, Zenon
  <2>. QED BY <2>1, <2>2, AppendedQueue, Zenon
<1>4. EventsKnown'
  <2>1. ASSUME NEW i \in 1 .. Len(queue') PROVE Known(queue[i])'
    <3>1. CASE i = Len(queue) + 1
      <4>1. queue'[i] = f
        BY <3>1, <1>3, Zenon
      <4>. QED BY <4>1, <1>1, <1>2, Zenon DEF Known, connVars
    <3>2. CASE i \in 1 .. Len(queue)
      <4>1. queue'[i] = queue[i]
        BY <3>2, <1>3, Zenon
      <4>. QED BY <3>2, <4>1, <1>1, Zenon DEF Known, EventsKnown, connVars
    <3>3. i = Len(queue) + 1 \/ i \in 1 .. Len(queue)
      BY <1>3
    <3>. QED BY <3>1, <3>2, <3>3, Zenon
  <2>2. ASSUME NEW h \in Greenlets, pend'[h] # None PROVE Known(pend[h])'
    BY <2>2, <1>1, Zenon DEF EventsKnown, Known, connVars
  <2>. QED BY <2>1, <2>2, Zenon DEF EventsKnown
<1>5. RegistryConsistent'
  BY <1>1 DEF TypeOK, RegistryConsistent, connVars, d, old
<1>6. TypeOK'
  BY <1>1, <1>3, Zenon DEF TypeOK, connVars, netVars
<1>7. HandshakeInv' /\ ClosingInv' /\ ObserversKnow'
  BY <1>1, Zenon DEF HandshakeInv, ClosingInv, ObserversKnow, connVars
<1>. QED BY <1>4, <1>5, <1>6, <1>7, Zenon

LEMMA UnregisterIInv ==
    ASSUME IInv, NEW e, Take(e), _unregister(e.conn)
    PROVE  IInv'
<1>. USE ConstantsAssumption DEF IInv
<1>. DEFINE d == id[e.conn]
<1>1. /\ UNCHANGED <<id, ports, recv, send, pend, netVars>>
      /\ dpset = "run" /\ closing = None
      /\ e.conn \in Conns /\ d \in Dpids
      /\ Tail(queue) \in Seq(Events) /\ Len(Tail(queue)) < QCap
      /\ queue' = Tail(queue) => EventsKnown' /\ QueueType'
  BY Taken, Zenon
<1>2. queue' = Tail(queue) /\ UNCHANGED <<state, closeReq, closing>>
  BY Zenon DEF _unregister, Raise, appVars
<1>3. HandshakeInv' /\ ClosingInv'
  BY <1>1, <1>2, Zenon DEF HandshakeInv, ClosingInv
<1>4. CASE UNCHANGED appVars
  <2>1. TypeOK'
    <3>1. ConnType' /\ AppType'
      BY <1>2, <1>4, Zenon DEF TypeOK, ConnType, AppType, appVars
    <3>. QED BY <1>1, <1>2, <3>1, HandlerTypes, Zenon
  <2>2. RegistryConsistent' /\ ObserversKnow'
    BY <1>1, <1>4, Zenon DEF RegistryConsistent, ObserversKnow, appVars
  <2>. QED BY <1>1, <1>2, <1>3, <2>1, <2>2, Zenon
<1>5. ASSUME NEW p \in Ports, Raise, port_state[d] # None, port_state' = [port_state EXCEPT ![d][p] = "absent"]
      PROVE  IInv'
  <2>. HIDE DEF d
  <2>1. port_state' \in [Dpids -> PortMap \cup {None}] /\ port_state'[d] # None
        /\ \A k \in Dpids : k # d => port_state'[k] = port_state[k]
    <3>. DEFINE pm == [port_state[d] EXCEPT ![p] = "absent"]
    <3>1. pm \in PortMap
      BY <1>1, <1>5, Zenon DEF TypeOK, PortMap, PortVal
    <3>2. port_state' = [port_state EXCEPT ![d] = pm]
      BY <1>5, Zenon
    <3>. HIDE DEF pm
    <3>. QED BY <1>1, <3>1, <3>2, Zenon DEF TypeOK
  <2>2. TypeOK'
    <3>1. ConnType' /\ AppType'
      BY <1>2, <1>5, <2>1, Zenon DEF TypeOK, ConnType, AppType, Raise
    <3>. QED BY <1>1, <1>2, <3>1, HandlerTypes, Zenon
  <2>3. RegistryConsistent' /\ ObserversKnow'
    BY <1>1, <1>5, <2>1, Zenon DEF RegistryConsistent, ObserversKnow, Raise
  <2>. QED BY <1>1, <1>2, <1>3, <2>2, <2>3, Zenon
<1>6. CASE Leave(d) /\ UNCHANGED dpset
  <2>. HIDE DEF d
  <2>1. TypeOK'
    <3>1. ConnType' /\ AppType'
      BY <1>1, <1>2, <1>6, Zenon DEF TypeOK, ConnType, AppType, Leave
    <3>. QED BY <1>1, <1>2, <3>1, HandlerTypes, Zenon
  <2>2. RegistryConsistent'
    BY <1>1, <1>6, Zenon DEF TypeOK, RegistryConsistent, Leave
  <2>3. ObserversKnow'
    BY <1>1, <1>6, Zenon DEF TypeOK, ObserversKnow, Leave
  <2>. QED BY <1>1, <1>2, <1>3, <2>1, <2>2, <2>3, Zenon
<1>7. Current(e.conn) => port_state[d] # None
  <2>. SUFFICES ASSUME Current(e.conn) PROVE port_state[d] # None
    OBVIOUS
  <2>1. PICK k \in Dpids : dps[k] = e.conn
    BY Zenon DEF Current
  <2>2. dps[k] # None
    BY <1>1, <2>1, Zenon
  <2>3. port_state[k] # None /\ id[dps[k]] = k
    BY <2>2, Zenon DEF RegistryConsistent
  <2>. QED BY <2>1, <2>3, Zenon
<1>. QED BY <1>4, <1>5, <1>6, <1>7, Zenon DEF _unregister

LEMMA PortHandlerIInv ==
    ASSUME IInv, NEW e, port_status_handler(e)
    PROVE  IInv'
<1>. USE ConstantsAssumption DEF IInv
<1>. DEFINE d == id[e.conn]
<1>1. /\ UNCHANGED <<id, ports, recv, send, pend, netVars>>
      /\ dpset = "run" /\ closing = None
      /\ e.conn \in Conns /\ d \in Dpids /\ e \in Events
      /\ Tail(queue) \in Seq(Events) /\ Len(Tail(queue)) < QCap
      /\ queue' = Tail(queue) => EventsKnown' /\ QueueType'
  BY Taken, Zenon DEF port_status_handler
<1>2. e.port \in Ports /\ e.val \in PortVal
  BY <1>1, Zenon DEF port_status_handler, Events, StateEvents, PortEvents
<1>3. queue' = Tail(queue) /\ UNCHANGED <<state, closeReq, closing, dps>>
  BY Zenon DEF port_status_handler, Raise
<1>4. HandshakeInv' /\ ClosingInv'
  BY <1>1, <1>3, Zenon DEF HandshakeInv, ClosingInv
<1>5. CASE Raise /\ UNCHANGED port_state
  <2>1. TypeOK'
    <3>1. ConnType' /\ AppType'
      BY <1>3, <1>5, ZenonT(30) DEF TypeOK, ConnType, AppType, Raise
    <3>. QED BY <1>1, <1>3, <3>1, HandlerTypes, Zenon
  <2>2. RegistryConsistent' /\ ObserversKnow'
    BY <1>1, <1>5, Zenon DEF RegistryConsistent, ObserversKnow, Raise
  <2>. QED BY <1>1, <1>3, <1>4, <2>1, <2>2, Zenon
<1>6. CASE port_state[d] # None /\ PortChanged(d, e.port, e.val) /\ UNCHANGED dpset
  <2>. HIDE DEF d
  <2>1. seen = port_state /\ seen' = port_state'
    BY <1>1, <1>6, Zenon DEF ObserversKnow, PortChanged
  <2>2. port_state' \in [Dpids -> PortMap \cup {None}] /\ port_state'[d] # None
        /\ \A k \in Dpids : k # d => port_state'[k] = port_state[k]
    <3>. DEFINE pm == [port_state[d] EXCEPT ![e.port] = e.val]
    <3>1. pm \in PortMap
      BY <1>1, <1>2, <1>6, Zenon DEF TypeOK, PortMap
    <3>2. port_state' = [port_state EXCEPT ![d] = pm]
      BY <1>6, Zenon DEF PortChanged
    <3>. HIDE DEF pm
    <3>. QED BY <1>1, <3>1, <3>2, Zenon DEF TypeOK
  <2>3. TypeOK'
    <3>1. ConnType' /\ AppType'
      BY <1>3, <1>6, <2>1, <2>2, Zenon DEF TypeOK, ConnType, AppType
    <3>. QED BY <1>1, <1>3, <3>1, HandlerTypes, Zenon
  <2>4. RegistryConsistent' /\ ObserversKnow'
    BY <1>1, <1>3, <1>6, <2>1, <2>2, Zenon DEF RegistryConsistent, ObserversKnow
  <2>. QED BY <1>1, <1>3, <1>4, <2>3, <2>4, Zenon
<1>. QED BY <1>5, <1>6, Zenon DEF port_status_handler

-----------------------------------------------------------------------------
(***************************************************************************)
(* The theorems.                                                           *)
(***************************************************************************)

LEMMA NextIInv == IInv /\ [Next]_vars => IInv'
<1>. SUFFICES ASSUME IInv, [Next]_vars PROVE IInv'
  OBVIOUS
<1>1. CASE UNCHANGED vars
  <2>1. UNCHANGED <<connVars, netVars, queue, appVars>>
    BY <1>1, Zenon DEF vars
  <2>2. Grows /\ UNCHANGED <<queue, pend>>
    BY <2>1, Zenon DEF Grows, connVars
  <2>3. EventsKnown'
    BY <2>2, EventsKept, Zenon DEF IInv
  <2>4. TypeOK' /\ HandshakeInv'
    BY <2>1, Zenon DEF IInv, TypeOK, HandshakeInv, connVars, netVars, appVars
  <2>5. RegistryConsistent' /\ ClosingInv' /\ ObserversKnow'
    BY <2>1, ConnectionStep, Zenon DEF connVars
  <2>. QED BY <2>3, <2>4, <2>5, Zenon DEF IInv
<1>2. CASE Handle
  <2>1. PICK e : dispatcher_change(e) \/ port_status_handler(e)
    BY <1>2, Zenon DEF Handle
  <2>2. CASE port_status_handler(e)
    BY <2>2, PortHandlerIInv, Zenon
  <2>3. CASE dispatcher_change(e)
    BY <2>3, RegisterNewIInv, RegisterAgainIInv, UnregisterIInv, Zenon DEF dispatcher_change
  <2>. QED BY <2>1, <2>2, <2>3, Zenon
<1>3. CASE \E d \in Dpids, p \in Ports, v \in PortVal : PortChange(d, p, v)
  BY <1>3, EnvironmentIInv, Zenon
<1>4. CASE \E c \in Conns, d \in Dpids : Connect(c, d)
  BY <1>4, ConnectIInv, Zenon
<1>5. CASE \E c \in Conns :
               \/ LinkDown(c) \/ PortDesc(c)
               \/ multipart_reply_handler(c) \/ recv_port_status(c) \/ recv_ignored(c)
               \/ recv_loop_end(c) \/ send_loop_end(c)
               \/ serve_kill(c) \/ serve_close(c)
  BY <1>5, EnvironmentIInv, HandshakeIInv, PortStatusIInv, EndIInv, Zenon
<1>6. CASE \E g \in Greenlets : Unblock(g)
  BY <1>6, UnblockIInv, Zenon
<1>7. CASE register_resume
  BY <1>7, RegisterResumeIInv, Zenon
<1>. QED BY <1>1, <1>2, <1>3, <1>4, <1>5, <1>6, <1>7, Zenon DEF Next

LEMMA Invariance == Spec => []IInv
BY InitIInv, NextIInv, PTL DEF Spec

\* Every variable keeps its type, and the event queue its bound: a put blocks
\* when the queue is full (hub.Queue(128)).
THEOREM TypeCorrect == Spec => []TypeOK
<1>1. IInv => TypeOK
  BY Zenon DEF IInv
<1>. QED BY <1>1, Invariance, PTL

\* dps and port_state of DPSet always have the same keys and every datapath is
\* filed under its own id, so neither the assertion nor the two deletions of
\* _unregister can fail.
THEOREM RegistryIsConsistent == Spec => []RegistryConsistent
<1>1. IInv => RegistryConsistent
  BY Zenon DEF IInv
<1>. QED BY <1>1, Invariance, PTL

\* As long as dpset runs, its observers know from its events exactly the ports
\* it keeps.
THEOREM ObserversAreInformed == Spec => []ObserversKnow
<1>1. IInv => ObserversKnow
  BY Zenon DEF IInv
<1>. QED BY <1>1, Invariance, PTL

\* Without another observer to hold it up, dpset never blocks on the put into
\* its own queue that closing a replaced connection makes.
THEOREM DPSetIsNeverHeldUp ==
    ASSUME ~ OtherObservers
    PROVE  Spec => []NeverHeldUp
<1>1. IInv => NeverHeldUp
  BY Zenon DEF IInv, ClosingInv, NeverHeldUp
<1>. QED BY <1>1, Invariance, PTL
====
