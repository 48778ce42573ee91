------------------------------ MODULE Datapath ------------------------------
(***************************************************************************)
(* One OpenFlow connection: a Datapath with its serving greenlet, its      *)
(* sending greenlet and its bounded send queue                             *)
(* (ryu/controller/controller.py), the handshake run by OFPHandler         *)
(* (ryu/controller/ofp_handler.py), and applications that send messages    *)
(* and close the connection.                                               *)
(*                                                                         *)
(* Greenlets switch only where they block.  The serving greenlet can block *)
(* while it reads, while it puts an event on the queue of an observer, and *)
(* while it puts a message on the send queue; a message it read is         *)
(* therefore handled in two steps, before and after its event is posted.   *)
(***************************************************************************)
EXTENDS Negotiation, Sequences

CONSTANTS
    Senders,         \* greenlets of applications that send to the switch
    SendCap,         \* capacity of send_q, 16 in the code
    MaxSends,        \* how often each of them sends
    MaxEchoes,       \* how many echo requests the switch sends
    MaxHellos,       \* how many hello messages
    Parts,           \* in how many messages the switch describes its ports
    Supported,       \* supported_ofp_version
    HelloVersions,   \* versions a hello of the switch may have
    None

ASSUME ConstantsAssumption ==
    /\ SendCap \in Nat \ {0}
    /\ MaxSends \in Nat /\ MaxEchoes \in Nat /\ MaxHellos \in Nat
    /\ Parts \in Nat \ {0}
    /\ Supported \subseteq _versions /\ Supported # {}
    /\ HelloVersions \subseteq Nat
    /\ "serve" \notin Senders

Greenlets == Senders \cup {"serve"}

Kinds == {"hello", "hello_failed", "features_request", "port_desc_request", "echo_reply", "app"}

\* A message to the switch: who sent it, what it is, and a number.
Messages == [by : Greenlets, kind : Kinds, n : 0 .. MaxSends]

\* A message of the switch: its version if it is a hello, its place among the
\* parts of the port description.
Incoming == [kind : {"hello", "features", "ports", "echo"}, n : Nat]

NoMessage == [kind |-> "none", n |-> 0]

ASSUME NoneAssumption == None \notin Messages

VARIABLES
    state,       \* Datapath.state
    version,     \* the version set_version was called with, or NoVersion
    ports,       \* how many parts of the port description are in Datapath.ports
    known,       \* applications were given the datapath
    closeReq,    \* Datapath.close_requested
    sendActive,  \* Datapath.send_active
    qref,        \* Datapath.send_q is not None
    sendQ,       \* the queue send_q referred to
    blocked,     \* the message a greenlet is blocked putting there, or None
    serve,       \* where the serving greenlet is
    cur,         \* the message it is handling
    sender,      \* where the sending greenlet is
    buf,         \* the message it is sending
    link,        \* the transport connection is up
    inbox,       \* messages the switch sent and nobody read yet
    switch,      \* how many messages of each kind the switch sent
    sends,       \* how often each application greenlet sent
    log,         \* history: the messages put on the queue
    wire,        \* the messages the switch received
    late         \* history: how many of them after DEAD

dpVars   == <<state, version, ports, known, closeReq, sendActive>>
qVars    == <<qref, sendQ, blocked, log>>
peerVars == <<link, inbox, switch>>
vars     == <<dpVars, qVars, serve, cur, sender, buf, peerVars, sends, wire, late>>

TypeOK ==
    /\ state \in {"handshake", "config", "main", "dead"}
    /\ version \in Supported \cup {NoVersion}
    /\ ports \in 0 .. Parts
    /\ known \in BOOLEAN /\ closeReq \in BOOLEAN /\ sendActive \in BOOLEAN
    /\ qref \in BOOLEAN
    /\ sendQ \in Seq(Messages) /\ Len(sendQ) <= SendCap
    /\ blocked \in [Greenlets -> Messages \cup {None}]
    /\ serve \in {"start", "recv", "posting", "request", "ended", "killed", "closed"}
    /\ cur \in Incoming \cup {NoMessage}
    /\ sender \in {"new", "get", "sending", "done"}
    /\ buf \in Messages \cup {None}
    /\ link \in BOOLEAN
    /\ inbox \in Seq(Incoming)
    /\ switch \in [hello : 0 .. MaxHellos, features : 0 .. 1, ports : 0 .. Parts, echo : 0 .. MaxEchoes]
    /\ sends \in [Senders -> 0 .. MaxSends]
    /\ log \in Seq(Messages) /\ wire \in Seq(Messages)
    /\ late \in Nat

Init ==
    /\ state = "handshake" /\ version = NoVersion /\ ports = 0
    /\ known = FALSE /\ closeReq = FALSE /\ sendActive = TRUE
    /\ qref = TRUE /\ sendQ = <<>>
    /\ blocked = [g \in Greenlets |-> None]
    /\ serve = "start" /\ cur = NoMessage
    /\ sender = "new" /\ buf = None
    /\ link = TRUE /\ inbox = <<>>
    /\ switch = [hello |-> 0, features |-> 0, ports |-> 0, echo |-> 0]
    /\ sends = [s \in Senders |-> 0]
    /\ log = <<>> /\ wire = <<>> /\ late = 0

-----------------------------------------------------------------------------
(***************************************************************************)
(* The send queue.                                                         *)
(***************************************************************************)

\* Mutant: a message for a full queue is dropped.
send_dropping(g, m) ==
    /\ IF qref /\ Len(sendQ) < SendCap
       THEN sendQ' = Append(sendQ, m) /\ log' = Append(log, m)
       ELSE UNCHANGED <<sendQ, log>>
    /\ UNCHANGED <<qref, blocked>>

\* Mutant: the bound of the queue is off by one.
send_off_by_one(g, m) ==
    /\ UNCHANGED qref
    /\ IF ~ qref THEN UNCHANGED <<sendQ, blocked, log>>
       ELSE IF Len(sendQ) <= SendCap
       THEN sendQ' = Append(sendQ, m) /\ log' = Append(log, m) /\ UNCHANGED blocked
       ELSE blocked' = [blocked EXCEPT ![g] = m] /\ UNCHANGED <<sendQ, log>>

\* Datapath.send in greenlet g: nothing once send_q is None, else a put, which
\* blocks while the queue is full.
send(g, m) ==
    /\ UNCHANGED qref
    /\ IF ~ qref THEN UNCHANGED <<sendQ, blocked, log>>
       ELSE IF Len(sendQ) < SendCap
       THEN sendQ' = Append(sendQ, m) /\ log' = Append(log, m) /\ UNCHANGED blocked
       ELSE blocked' = [blocked EXCEPT ![g] = m] /\ UNCHANGED <<sendQ, log>>

\* One of the greenlets blocked in put() is woken because there is room.  It
\* holds the queue itself: that send_q was set to None does not matter to it.
Unblock(g) ==
    /\ blocked[g] # None
    /\ Len(sendQ) < SendCap
    /\ sendQ' = Append(sendQ, blocked[g])
    /\ log' = Append(log, blocked[g])
    /\ blocked' = [blocked EXCEPT ![g] = None]
    /\ UNCHANGED <<dpVars, qref, serve, cur, sender, buf, peerVars, sends, wire, late>>

\* _deactivate: whatever ended, sending is over and the connection is DEAD.
_deactivate == sendActive' = FALSE /\ state' = "dead"

-----------------------------------------------------------------------------
(***************************************************************************)
(* The sending greenlet.                                                   *)
(***************************************************************************)

\* Mutant: the queue is left as it is.
_send_loop_finally_undrained ==
    /\ sender' = "done" /\ buf' = None
    /\ qref' = FALSE
    /\ _deactivate
    /\ UNCHANGED <<sendQ, blocked, log, version, ports, known, closeReq>>

\* The end of _send_loop: send_q is cleared and the queue drained.
_send_loop_finally ==
    /\ sender' = "done" /\ buf' = None
    /\ qref' = FALSE
    /\ sendQ' = <<>>
    /\ _deactivate
    /\ UNCHANGED <<blocked, log, version, ports, known, closeReq>>

\* Mutant: the loop does not test send_active.
_send_loop_test_missing ==
    sender' = "get" /\ buf' = None /\ UNCHANGED <<dpVars, qVars>>

\* The test at the head of the loop.
_send_loop_test ==
    IF sendActive THEN sender' = "get" /\ buf' = None /\ UNCHANGED <<dpVars, qVars>>
                  ELSE _send_loop_finally

\* The greenlet runs for the first time.
send_start ==
    /\ sender = "new" /\ serve # "start"
    /\ _send_loop_test
    /\ UNCHANGED <<serve, cur, peerVars, sends, wire, late>>

\* send_q.get() returns.
send_get ==
    /\ sender = "get" /\ sendQ # <<>>
    /\ sender' = "sending" /\ buf' = Head(sendQ)
    /\ sendQ' = Tail(sendQ)
    /\ UNCHANGED <<dpVars, qref, blocked, log, serve, cur, peerVars, sends, wire, late>>

\* sendall() returns.  What was sent after the peer left is lost.
send_done ==
    /\ sender = "sending"
    /\ _send_loop_test
    /\ IF link
       THEN /\ wire' = Append(wire, buf)
            /\ late' = IF state = "dead" THEN late + 1 ELSE late
       ELSE UNCHANGED <<wire, late>>
    /\ UNCHANGED <<serve, cur, peerVars, sends>>

\* sendall() raises: the connection is broken, or the switch does not read and
\* socket_timeout has passed.
send_error ==
    /\ sender = "sending"
    /\ _send_loop_finally
    /\ UNCHANGED <<serve, cur, peerVars, sends, wire, late>>

-----------------------------------------------------------------------------
(***************************************************************************)
(* The serving greenlet.                                                   *)
(***************************************************************************)

\* The serving greenlet is at p and not blocked in send().
ServeAt(p) == serve = p /\ blocked["serve"] = None

Reply(k) == [by |-> "serve", kind |-> k, n |-> 0]

\* serve(): the sending greenlet is spawned and the hello put on the queue.
serve_start ==
    /\ ServeAt("start")
    /\ serve' = "recv"
    /\ send("serve", Reply("hello"))
    /\ UNCHANGED <<dpVars, cur, sender, buf, peerVars, sends, wire, late>>

\* _recv_loop reads a message and posts its event to the observers of the state
\* the connection is in; the features reply gives them the datapath.
recv ==
    /\ ServeAt("recv")
    /\ inbox # <<>> /\ ~ closeReq
    /\ Head(inbox).kind = "hello" => Head(inbox).n \in _versions
    /\ cur' = Head(inbox)
    /\ inbox' = Tail(inbox)
    /\ serve' = "posting"
    /\ known' = (known \/ (Head(inbox).kind = "features" /\ state = "config"))
    /\ UNCHANGED <<state, version, ports, closeReq, sendActive, qVars, sender, buf, link, switch, sends, wire, late>>

\* A version without a parser: the exception leaves _recv_loop, and the socket
\* is not closed.
recv_raise ==
    /\ ServeAt("recv")
    /\ inbox # <<>> /\ ~ closeReq
    /\ Head(inbox).kind = "hello" /\ Head(inbox).n \notin _versions
    /\ inbox' = Tail(inbox)
    /\ serve' = "ended"
    /\ _deactivate
    /\ UNCHANGED <<version, ports, known, closeReq, qVars, cur, sender, buf, link, switch, sends, wire, late>>

\* Mutant: a timeout of recv() always starts over.
RecvOverPeerOnly == ~ link /\ inbox = <<>>

\* The peer left, or close_requested is found set when recv() returns or times
\* out.
RecvOver == closeReq \/ (~ link /\ inbox = <<>>)

recv_end ==
    /\ ServeAt("recv")
    /\ RecvOver
    /\ link' = FALSE /\ inbox' = <<>>
    /\ serve' = "ended"
    /\ _deactivate
    /\ UNCHANGED <<version, ports, known, closeReq, qVars, cur, sender, buf, switch, sends, wire, late>>

\* The handlers of the message, those of the state the connection is in now
\* that its event is posted.
Handling(k, states) ==
    /\ ServeAt("posting")
    /\ cur.kind = k /\ state \in states
    /\ UNCHANGED <<known, closeReq, sendActive, cur, sender, buf, peerVars, sends, wire, late>>

hello_handler ==
    LET v == VersionChosen(Supported, [version |-> cur.n, elements |-> {}])
    IN  /\ Handling("hello", {"handshake"})
        /\ IF v = NoVersion
           THEN /\ send("serve", Reply("hello_failed"))
                /\ serve' = "recv"
                /\ UNCHANGED <<state, version>>
           ELSE /\ version' = v
                /\ state' = "config"
                /\ serve' = "request"
                /\ UNCHANGED qVars
        /\ UNCHANGED ports

\* hello_handler after set_state(): the features request.
hello_handler_request ==
    /\ ServeAt("request")
    /\ serve' = "recv"
    /\ send("serve", Reply("features_request"))
    /\ UNCHANGED <<dpVars, cur, sender, buf, peerVars, sends, wire, late>>

\* Before OpenFlow 1.3 the features reply has the ports and ends the handshake.
switch_features_handler ==
    /\ Handling("features", {"config"})
    /\ serve' = "recv"
    /\ IF version < 4
       THEN ports' = Parts /\ state' = "main" /\ UNCHANGED qVars
       ELSE ports' = 0 /\ send("serve", Reply("port_desc_request")) /\ UNCHANGED state
    /\ UNCHANGED version

\* Mutant: OFPMPF_REPLY_MORE is ignored.
LastPartAny(m) == TRUE

\* OFPMPF_REPLY_MORE is not set.
LastPart(m) == m.n = Parts

multipart_reply_handler ==
    /\ Handling("ports", {"config"})
    /\ serve' = "recv"
    /\ ports' = ports + 1
    /\ state' = IF LastPart(cur) THEN "main" ELSE state
    /\ UNCHANGED <<version, qVars>>

echo_request_handler ==
    /\ Handling("echo", {"handshake", "config", "main"})
    /\ serve' = "recv"
    /\ send("serve", Reply("echo_reply"))
    /\ UNCHANGED <<state, version, ports>>

\* Nobody handles the message in this state.
no_handler ==
    /\ \/ Handling("hello", {"config", "main", "dead"})
       \/ Handling("features", {"handshake", "main", "dead"})
       \/ Handling("ports", {"handshake", "main", "dead"})
       \/ Handling("echo", {"dead"})
    /\ serve' = "recv"
    /\ UNCHANGED <<state, version, ports, qVars>>

\* Mutant: the sending greenlet is left alone.
serve_kill_nobody ==
    /\ ServeAt("ended")
    /\ serve' = "killed"
    /\ UNCHANGED <<dpVars, qVars, cur, sender, buf, peerVars, sends, wire, late>>

\* serve(): the sending greenlet is killed.  One that never ran does not even
\* enter _send_loop, and its queue stays.
serve_kill ==
    /\ ServeAt("ended")
    /\ serve' = "killed"
    /\ CASE sender = "new" -> sender' = "done" /\ UNCHANGED <<dpVars, qVars, buf>>
         [] sender \in {"get", "sending"} -> _send_loop_finally
         [] sender = "done" -> UNCHANGED <<dpVars, qVars, sender, buf>>
    /\ UNCHANGED <<cur, peerVars, sends, wire, late>>

\* contextlib.closing in datapath_connection_factory.
serve_close ==
    /\ ServeAt("killed")
    /\ serve' = "closed"
    /\ closeReq' = TRUE
    /\ _deactivate
    /\ UNCHANGED <<version, ports, known, qVars, cur, sender, buf, peerVars, sends, wire, late>>

-----------------------------------------------------------------------------
(***************************************************************************)
(* Applications that were given the datapath, and the switch.              *)
(***************************************************************************)

app_send(s) ==
    /\ known /\ blocked[s] = None /\ sends[s] < MaxSends
    /\ sends' = [sends EXCEPT ![s] = @ + 1]
    /\ send(s, [by |-> s, kind |-> "app", n |-> sends[s] + 1])
    /\ UNCHANGED <<dpVars, serve, cur, sender, buf, peerVars, wire, late>>

\* Datapath.close(), as dpset calls it.
close ==
    /\ known /\ ~ closeReq
    /\ closeReq' = TRUE
    /\ _deactivate
    /\ UNCHANGED <<version, ports, known, qVars, serve, cur, sender, buf, peerVars, sends, wire, late>>

Received(k) == \E i \in DOMAIN wire : wire[i].kind = k

\* The switch sends a message of kind k.
Sends(k, n) ==
    /\ link
    /\ inbox' = Append(inbox, [kind |-> k, n |-> n])
    /\ switch' = [switch EXCEPT ![k] = @ + 1]
    /\ UNCHANGED <<dpVars, qVars, serve, cur, sender, buf, link, sends, wire, late>>

SwitchHello == switch.hello < MaxHellos /\ \E v \in HelloVersions : Sends("hello", v)

SwitchFeatures == switch.features = 0 /\ Received("features_request") /\ Sends("features", 0)

SwitchPorts ==
    /\ switch.ports < Parts /\ Received("port_desc_request")
    /\ Sends("ports", switch.ports + 1)

SwitchEcho == switch.echo < MaxEchoes /\ Sends("echo", 0)

\* The connection breaks; what was not read yet is lost from some point on.
LinkDown ==
    /\ link
    /\ link' = FALSE
    /\ \E n \in 0 .. Len(inbox) : inbox' = SubSeq(inbox, 1, n)
    /\ UNCHANGED <<dpVars, qVars, serve, cur, sender, buf, switch, sends, wire, late>>

Serve ==
    \/ serve_start \/ recv \/ recv_raise \/ recv_end
    \/ hello_handler \/ hello_handler_request \/ switch_features_handler
    \/ multipart_reply_handler \/ echo_request_handler \/ no_handler
    \/ serve_kill \/ serve_close

Send == send_start \/ send_get \/ send_done \/ send_error

Switch == SwitchHello \/ SwitchFeatures \/ SwitchPorts \/ SwitchEcho \/ LinkDown

Next ==
    \/ Serve \/ Send \/ Switch \/ close
    \/ \E g \in Greenlets : Unblock(g)
    \/ \E s \in Senders : app_send(s)

Spec == Init /\ [][Next]_vars

\* Both greenlets are run whenever they can run (sendall() and recv() return
\* or time out), and a greenlet that can be woken again and again is woken in
\* the end.  The switch and the applications owe nothing.
Fairness ==
    /\ WF_vars(Serve) /\ WF_vars(Send)
    /\ \A g \in Greenlets : SF_vars(Unblock(g))

FairSpec == Spec /\ Fairness

-----------------------------------------------------------------------------
(***************************************************************************)
(* Properties.                                                             *)
(***************************************************************************)

\* A connection reaches MAIN only with the whole port description, although
\* it comes in several messages and other messages are handled in between.
MainIsComplete == state = "main" => ports = Parts /\ version # NoVersion

\* What one greenlet sends arrives in the order it was sent and without gaps,
\* although its puts may block and others overtake them.
NoGaps ==
    \A s \in Senders, i \in DOMAIN wire : wire[i].by = s =>
        /\ \A j \in 1 .. i - 1 : wire[j].by = s => wire[j].n < wire[i].n
        /\ \A k \in 1 .. wire[i].n : \E j \in 1 .. i : wire[j].by = s /\ wire[j].n = k

\* Once serve() is over, the queue is gone: an application that still holds
\* the datapath and sends does not fill a queue nobody reads.
EndedIsInert == serve \in {"killed", "closed"} /\ known => ~ qref

\* The life cycle and the order of delivery promised in module Connection.
Promise == INSTANCE Connection WITH phase <- state

Implements == Promise!Spec

\* Greenlets blocked in send_q.put() are released, "by draining the queue" at
\* the latest (the comment in _send_loop).
SendersReleased == \A g \in Greenlets : blocked[g] # None ~> blocked[g] = None

\* No more greenlets are blocked than the queue has places: those that draining
\* it does not wake are woken by nobody.
FewBlocked == Cardinality({g \in Greenlets : blocked[g] # None}) <= SendCap

\* As long as few are blocked, they are released, whenever the connection ends.
FewAreReleased == []FewBlocked => SendersReleased

\* As long as few are blocked, close() ends the connection: the receive loop
\* notices close_requested and serve() returns.
CloseEnds == []FewBlocked => (closeReq ~> serve = "closed")

\* After OFPHFC_INCOMPATIBLE the controller must "then terminate the
\* connection" (the specification quoted in hello_handler).
FailedHelloTerminates ==
    (\E i \in DOMAIN log : log[i].kind = "hello_failed") ~> ~ link

\* DEAD_DISPATCHER means "Disconnect from the peer" (ryu_app_api.rst).
DeadDisconnects == state = "dead" ~> ~ link
====
