------------------------- MODULE DatapathHandshake --------------------------
(***************************************************************************)
(* Every step of a connection keeps what is known of the answers of the    *)
(* switch and of the port description.                                     *)
(***************************************************************************)
EXTENDS DatapathInv

-----------------------------------------------------------------------------
(***************************************************************************)
(* The answers of the switch.                                              *)
(***************************************************************************)

\* What the switch received it keeps, and a message accepted stays accepted.
LEMMA ReceivedKept ==
    ASSUME TypeOK, NEW k, Received(k), UNCHANGED wire \/ wire' = Append(wire, buf)
    PROVE  Received(k)'
<1>1. wire \in Seq(Messages)
  BY Zenon DEF TypeOK
<1>2. CASE UNCHANGED wire
  BY <1>2, Zenon DEF Received
<1>3. CASE wire' = Append(wire, buf)
  <2>1. PICK i \in DOMAIN wire : wire[i].kind = k
    BY Zenon DEF Received
  <2>2. i \in DOMAIN wire' /\ wire'[i] = wire[i]
    BY <1>1, <1>3, <2>1
  <2>. QED BY <2>1, <2>2, Zenon DEF Received
<1>. QED BY <1>2, <1>3, Zenon

LEMMA WireGrows ==
    ASSUME [Next]_vars
    PROVE  UNCHANGED wire \/ wire' = Append(wire, buf)
<1>1. CASE Serve
  BY <1>1, Zenon DEF Serve, serve_start, recv, recv_raise, recv_end, hello_handler, hello_handler_request,
     switch_features_handler, multipart_reply_handler, echo_request_handler, no_handler, serve_kill,
     serve_close, Handling
<1>2. CASE Send
  BY <1>2, Zenon DEF Send, send_start, send_get, send_done, send_error
<1>3. CASE Switch
  BY <1>3, SwitchKeeps, Zenon
<1>4. CASE close \/ UNCHANGED vars
  BY <1>4, Zenon DEF close, vars
<1>5. ASSUME NEW g \in Greenlets, Unblock(g) PROVE UNCHANGED wire
  BY <1>5, Zenon DEF Unblock
<1>6. ASSUME NEW s \in Senders, app_send(s) PROVE UNCHANGED wire
  BY <1>6, Zenon DEF app_send
<1>. QED BY <1>1, <1>2, <1>3, <1>4, <1>5, <1>6, Zenon DEF Next

\* Nobody but the handler of the features reply asks for the ports.
LEMMA RequestedKept ==
    ASSUME UNCHANGED <<log, blocked>>
    PROVE  Requested' = Requested
BY Zenon DEF Requested

LEMMA RequestedPut ==
    ASSUME TypeOK, NEW m \in Messages, log' = Append(log, m), UNCHANGED blocked,
           m.kind # "port_desc_request"
    PROVE  Requested' => Requested
<1>1. /\ log \in Seq(Messages) /\ Len(log) \in Nat /\ Len(log') = Len(log) + 1
      /\ log'[Len(log) + 1] = m /\ \A i \in 1 .. Len(log) : log'[i] = log[i]
  BY Appended DEF TypeOK
<1>. QED BY <1>1 DEF Requested

LEMMA RequestedSend ==
    ASSUME TypeOK, NEW g \in Greenlets, NEW m \in Messages, send(g, m), m.kind # "port_desc_request"
    PROVE  Requested' => Requested
<1>1. CASE Put(m) /\ UNCHANGED blocked
  BY <1>1, RequestedPut, Zenon DEF Put
<1>2. CASE blocked' = [blocked EXCEPT ![g] = m] /\ UNCHANGED log
  BY <1>2, ServeIsGreenlet, Zenon DEF Requested, TypeOK
<1>3. CASE UNCHANGED <<log, blocked>>
  BY <1>3, RequestedKept, Zenon
<1>. QED BY <1>1, <1>2, <1>3, SendPuts, Zenon

LEMMA RequestedUnblock ==
    ASSUME TypeOK, Numbered, NEW g \in Greenlets, Unblock(g)
    PROVE  Requested' => Requested
<1>1. PICK m \in Messages : m = blocked[g]
  BY Zenon DEF Unblock, TypeOK
<1>2. /\ log' = Append(log, m) /\ m # None /\ blocked' = [blocked EXCEPT ![g] = None]
      /\ DOMAIN blocked = Greenlets /\ log \in Seq(Messages)
  BY <1>1, Zenon DEF Unblock, TypeOK
<1>3. /\ Len(log) \in Nat /\ Len(log') = Len(log) + 1
      /\ log'[Len(log) + 1] = m /\ \A i \in 1 .. Len(log) : log'[i] = log[i]
  BY <1>2, Appended
<1>4. m.kind = "port_desc_request" => g = "serve"
  BY <1>1, <1>2, Zenon DEF Numbered, OwnMessages, Greenlets
<1>5. blocked'["serve"] \in {None, blocked["serve"]}
  BY <1>2, ServeIsGreenlet, Zenon
<1>. QED BY <1>1, <1>2, <1>3, <1>4, <1>5 DEF Requested

\* The handshake is not started over.
LEMMA HandshakeOnce ==
    ASSUME TypeOK, [Next]_vars, state # "handshake"
    PROVE  state' # "handshake"
<1>1. CASE Serve
  <2>1. CASE serve_start \/ recv \/ hello_handler_request
    BY <2>1, Zenon DEF serve_start, recv, hello_handler_request, dpVars
  <2>2. CASE recv_raise \/ recv_end \/ serve_close
    BY <2>2, Zenon DEF recv_raise, recv_end, serve_close, _deactivate
  <2>3. CASE hello_handler
    <3>1. Handling("hello", {"handshake"})
      BY <2>3, Zenon DEF hello_handler
    <3>. QED BY <3>1, Zenon DEF Handling
  <2>4. CASE switch_features_handler \/ multipart_reply_handler \/ echo_request_handler \/ no_handler
    <3>1. state' \in {state, "main"}
      BY <2>4, Zenon DEF switch_features_handler, multipart_reply_handler, echo_request_handler, no_handler
    <3>. QED BY <3>1, Zenon
  <2>5. CASE serve_kill
    BY <2>5, Zenon DEF serve_kill, _send_loop_finally, _deactivate, dpVars, TypeOK
  <2>. QED BY <1>1, <2>1, <2>2, <2>3, <2>4, <2>5, Zenon DEF Serve
<1>2. CASE Send
  BY <1>2, Zenon DEF Send, send_start, send_get, send_done, send_error, _send_loop_test, _send_loop_finally,
     _deactivate, dpVars
<1>3. CASE Switch
  BY <1>3, SwitchKeeps, Zenon DEF dpVars
<1>4. CASE close \/ UNCHANGED vars
  BY <1>4, Zenon DEF close, _deactivate, vars, dpVars
<1>5. ASSUME NEW g \in Greenlets, Unblock(g) PROVE UNCHANGED state
  BY <1>5, Zenon DEF Unblock, dpVars
<1>6. ASSUME NEW s \in Senders, app_send(s) PROVE UNCHANGED state
  BY <1>6, Zenon DEF app_send, dpVars
<1>. QED BY <1>1, <1>2, <1>3, <1>4, <1>5, <1>6, Zenon DEF Next

\* The steps that do not read a message of the switch.
LEMMA PendingSame ==
    ASSUME Answers, UNCHANGED inbox, Unhandled' => Unhandled
    PROVE  (FeaturesPending' => FeaturesPending) /\ OneReply' /\ NoReplyLeft'
BY Zenon DEF Answers, FeaturesPending, OneReply, NoReplyLeft

LEMMA AnswersKept ==
    ASSUME TypeOK, Answers, [Next]_vars, UNCHANGED switch, known' => known,
           Requested' => Requested, FeaturesPending' => FeaturesPending, OneReply', NoReplyLeft'
    PROVE  Answers'
<1>1. /\ Received("features_request") => Received("features_request")'
      /\ Received("port_desc_request") => Received("port_desc_request")'
  BY WireGrows, ReceivedKept, Zenon
<1>2. Requested' => state # "handshake" /\ ~ FeaturesPending
  BY Zenon DEF Answers
<1>. QED BY <1>1, <1>2, HandshakeOnce, Zenon DEF Answers

LEMMA AnswersSame ==
    ASSUME TypeOK, Answers, [Next]_vars, UNCHANGED <<switch, inbox, known>>,
           Unhandled' => Unhandled, Requested' => Requested
    PROVE  Answers'
BY PendingSame, AnswersKept, Zenon

\* The first messages of the inbox are left.
LEMMA PendingCut ==
    ASSUME TypeOK, Answers, UNCHANGED <<serve, cur>>, NEW n \in 0 .. Len(inbox),
           inbox' = SubSeq(inbox, 1, n)
    PROVE  (FeaturesPending' => FeaturesPending) /\ OneReply' /\ NoReplyLeft'
<1>1. inbox \in Seq(Incoming) /\ Len(inbox) \in Nat
  BY DEF TypeOK
<1>2. Len(inbox') = n /\ \A i \in 1 .. n : inbox'[i] = inbox[i] /\ i \in 1 .. Len(inbox)
  BY <1>1
<1>. QED BY <1>2 DEF Answers, FeaturesPending, OneReply, NoReplyLeft, Unhandled

\* The first message is read.
LEMMA PendingRead ==
    ASSUME TypeOK, Answers, inbox # <<>>, inbox' = Tail(inbox), ~ Unhandled,
           Unhandled' => inbox[1].kind = "features"
    PROVE  (FeaturesPending' => FeaturesPending) /\ OneReply' /\ NoReplyLeft'
<1>1. inbox \in Seq(Incoming) /\ Len(inbox) \in Nat /\ Len(inbox) >= 1
  BY DEF TypeOK
<1>2. Len(inbox') = Len(inbox) - 1 /\ \A i \in 1 .. Len(inbox') : inbox'[i] = inbox[i + 1]
  BY <1>1
<1>3. \A i \in 1 .. Len(inbox') : i + 1 \in 1 .. Len(inbox) /\ i + 1 # 1
  BY <1>1, <1>2
<1>4. 1 \in 1 .. Len(inbox)
  BY <1>1
<1>5. OneReply
  BY Zenon DEF Answers
<1>6. FeaturesPending' => FeaturesPending
  BY <1>2, <1>3, <1>4, Zenon DEF FeaturesPending
<1>7. OneReply'
  <2>1. SUFFICES ASSUME NEW i \in 1 .. Len(inbox'), NEW j \in 1 .. Len(inbox'),
                        inbox'[i].kind = "features", inbox'[j].kind = "features"
                 PROVE  i = j
    BY Zenon DEF OneReply
  <2>2. i + 1 = j + 1
    BY <1>2, <1>3, <1>5, <2>1 DEF OneReply
  <2>. QED BY <1>1, <1>2, <2>2
<1>8. NoReplyLeft'
  BY <1>2, <1>3, <1>4, <1>5, Zenon DEF NoReplyLeft, OneReply
<1>. QED BY <1>6, <1>7, <1>8, Zenon

LEMMA AnswersRead ==
    ASSUME TypeOK, Answers, recv \/ recv_raise \/ recv_end
    PROVE  Answers'
<1>0. [Next]_vars /\ UNCHANGED <<log, blocked, switch>> /\ ~ Unhandled
  BY Zenon DEF recv, recv_raise, recv_end, Next, Serve, qVars, ServeAt, Unhandled
<1>1. CASE recv
  <2>1. inbox \in Seq(Incoming) /\ inbox # <<>>
    BY <1>1, Zenon DEF TypeOK, recv
  <2>2. Head(inbox) = inbox[1] /\ 1 \in 1 .. Len(inbox)
    BY <2>1
  <2>3. (FeaturesPending' => FeaturesPending) /\ OneReply' /\ NoReplyLeft'
    BY <1>0, <1>1, <2>1, <2>2, PendingRead, Zenon DEF recv, Unhandled
  <2>4. known' => known \/ FeaturesPending
    BY <1>1, <2>2, Zenon DEF recv, FeaturesPending
  <2>5. known' => switch'.features = 1
    BY <1>0, <2>4, Zenon DEF Answers
  <2>6. Requested' => Requested
    BY <1>0, RequestedKept, Zenon
  <2>7. /\ Received("features_request") => Received("features_request")'
        /\ Received("port_desc_request") => Received("port_desc_request")'
    BY <1>0, WireGrows, ReceivedKept, Zenon
  <2>. QED BY <1>0, <2>3, <2>5, <2>6, <2>7, HandshakeOnce, Zenon DEF Answers
<1>2. CASE recv_raise
  <2>1. inbox # <<>> /\ inbox' = Tail(inbox) /\ ~ Unhandled' /\ UNCHANGED known
    BY <1>2, Zenon DEF recv_raise, Unhandled
  <2>. QED BY <1>0, <2>1, PendingRead, AnswersKept, RequestedKept, Zenon
<1>3. CASE recv_end
  <2>1. ~ Unhandled' /\ inbox' = <<>> /\ UNCHANGED known
    BY <1>3, Zenon DEF recv_end, Unhandled
  <2>2. Len(<<>>) = 0
    OBVIOUS
  <2>3. ~ FeaturesPending' /\ OneReply' /\ NoReplyLeft'
    BY <2>1, <2>2 DEF FeaturesPending, OneReply, NoReplyLeft
  <2>. QED BY <1>0, <2>1, <2>3, AnswersKept, RequestedKept, Zenon
<1>. QED BY <1>1, <1>2, <1>3, Zenon

LEMMA AnswersHandler ==
    ASSUME TypeOK, Answers,
           \/ hello_handler \/ switch_features_handler \/ multipart_reply_handler
           \/ echo_request_handler \/ no_handler
    PROVE  Answers'
<1>0. /\ [Next]_vars /\ UNCHANGED <<switch, inbox, known>> /\ ~ Unhandled'
      /\ serve = "posting"
  <2>1. UNCHANGED <<switch, inbox, known>> /\ serve = "posting"
    BY Zenon DEF hello_handler, switch_features_handler, multipart_reply_handler, echo_request_handler,
       no_handler, Handling, ServeAt, peerVars
  <2>2. serve' \in {"recv", "request"}
    BY Zenon DEF hello_handler, switch_features_handler, multipart_reply_handler, echo_request_handler,
       no_handler
  <2>. QED BY <2>1, <2>2, Zenon DEF Next, Serve, Unhandled
<1>1. ASSUME NEW k \in Kinds, send("serve", Reply(k)), k # "port_desc_request"
      PROVE  Answers'
  <2>1. Reply(k) \in Messages /\ Reply(k).kind # "port_desc_request"
    BY <1>1, ReplyIsMessage, Zenon DEF Reply
  <2>. QED BY <1>0, <1>1, <2>1, ServeIsGreenlet, RequestedSend, AnswersSame, Zenon
<1>2. CASE UNCHANGED qVars
  BY <1>0, <1>2, RequestedKept, AnswersSame DEF qVars
<1>3. CASE hello_handler
  <2>1. send("serve", Reply("hello_failed")) \/ UNCHANGED qVars
    BY <1>3, Zenon DEF hello_handler
  <2>. QED BY <1>1, <1>2, <2>1, Zenon DEF Kinds
<1>4. CASE multipart_reply_handler \/ no_handler
  BY <1>2, <1>4, Zenon DEF multipart_reply_handler, no_handler
<1>5. CASE echo_request_handler
  BY <1>1, <1>5, Zenon DEF echo_request_handler, Kinds
<1>6. CASE switch_features_handler
  <2>1. Unhandled /\ state = "config"
    BY <1>6, Zenon DEF switch_features_handler, Handling, ServeAt, Unhandled
  <2>2. switch.features = 1
    BY <2>1, Zenon DEF Answers, FeaturesPending
  <2>3. (FeaturesPending' => FeaturesPending) /\ OneReply' /\ NoReplyLeft' /\ ~ FeaturesPending'
    <3>1. ~ FeaturesPending'
      BY <1>0, <2>1, Zenon DEF Answers, NoReplyLeft, FeaturesPending
    <3>. QED BY <1>0, <3>1, PendingSame, Zenon
  <2>4. /\ Received("features_request") => Received("features_request")'
        /\ Received("port_desc_request") => Received("port_desc_request")'
    BY <1>0, WireGrows, ReceivedKept, Zenon
  <2>5. state' # "handshake"
    BY <1>0, <2>1, HandshakeOnce, Zenon
  <2>. QED BY <1>0, <2>2, <2>3, <2>4, <2>5, Zenon DEF Answers
<1>. QED BY <1>3, <1>4, <1>5, <1>6, Zenon

LEMMA AnswersServe ==
    ASSUME TypeOK, Answers, Serve
    PROVE  Answers'
<1>0. [Next]_vars
  BY Zenon DEF Next
<1>1. CASE serve_start \/ hello_handler_request
  <2>1. /\ UNCHANGED <<switch, inbox, known>> /\ ~ Unhandled'
        /\ \E k \in Kinds \ {"port_desc_request"} : send("serve", Reply(k))
    BY <1>1, Zenon DEF serve_start, hello_handler_request, Unhandled, peerVars, dpVars, Kinds
  <2>2. PICK k \in Kinds \ {"port_desc_request"} : send("serve", Reply(k))
    BY <2>1, Zenon
  <2>3. Reply(k) \in Messages /\ Reply(k).kind # "port_desc_request"
    BY ReplyIsMessage, Zenon DEF Reply
  <2>. QED BY <1>0, <2>1, <2>2, <2>3, ServeIsGreenlet, RequestedSend, AnswersSame, Zenon
<1>2. CASE serve_kill
  <2>1. UNCHANGED <<switch, inbox, log, blocked, known>> /\ ~ Unhandled'
    BY <1>2, Zenon DEF serve_kill, _send_loop_finally, Unhandled, peerVars, qVars, dpVars, TypeOK
  <2>. QED BY <1>0, <2>1, RequestedKept, AnswersSame
<1>3. CASE serve_close
  <2>1. UNCHANGED <<switch, inbox, log, blocked, known>> /\ ~ Unhandled'
    BY <1>3, Zenon DEF serve_close, Unhandled, peerVars, qVars
  <2>. QED BY <1>0, <2>1, RequestedKept, AnswersSame
<1>. QED BY <1>1, <1>2, <1>3, AnswersRead, AnswersHandler, Zenon DEF Serve

LEMMA AnswersSwitch ==
    ASSUME TypeOK, Answers, Switch
    PROVE  Answers'
<1>0. [Next]_vars /\ UNCHANGED <<serve, cur, known, log, blocked, state, wire>>
  BY SwitchKeeps, Zenon DEF Next, dpVars, qVars
<1>1. Requested' = Requested
  BY <1>0, RequestedKept, Zenon
<1>2. Unhandled' = Unhandled
  BY <1>0, Zenon DEF Unhandled
<1>3. \A k : Received(k)' = Received(k)
  BY <1>0, Zenon DEF Received
<1>4. CASE LinkDown
  <2>1. UNCHANGED switch
    BY <1>4, Zenon DEF LinkDown
  <2>2. PICK n \in 0 .. Len(inbox) : inbox' = SubSeq(inbox, 1, n)
    BY <1>4, Zenon DEF LinkDown
  <2>. QED BY <1>0, <1>1, <2>1, <2>2, PendingCut, AnswersKept, Zenon
<1>5. ASSUME NEW m \in Incoming, inbox' = Append(inbox, m)
      PROVE  /\ Len(inbox) \in Nat /\ Len(inbox') = Len(inbox) + 1 /\ inbox'[Len(inbox) + 1] = m
             /\ \A i \in 1 .. Len(inbox) : inbox'[i] = inbox[i]
  BY <1>5, Appended DEF TypeOK
<1>6. CASE SwitchHello \/ SwitchPorts \/ SwitchEcho
  <2>1. PICK m \in Incoming : inbox' = Append(inbox, m) /\ m.kind # "features"
    <3>1. CASE SwitchHello
      BY <3>1, ConstantsAssumption DEF SwitchHello, Sends, Incoming
    <3>2. CASE SwitchPorts
      <4>1. switch.ports + 1 \in Nat
        BY DEF TypeOK
      <4>. QED BY <3>2, <4>1 DEF SwitchPorts, Sends, Incoming
    <3>3. CASE SwitchEcho
      BY <3>3 DEF SwitchEcho, Sends, Incoming
    <3>. QED BY <1>6, <3>1, <3>2, <3>3, Zenon
  <2>2. (FeaturesPending' => FeaturesPending) /\ OneReply' /\ NoReplyLeft'
    BY <1>2, <1>5, <2>1 DEF Answers, FeaturesPending, OneReply, NoReplyLeft
  <2>3. switch'.features = switch.features
    BY <1>6, Zenon DEF SwitchHello, SwitchPorts, SwitchEcho, Sends, TypeOK
  <2>4. switch'.ports > 0 => switch.ports > 0 \/ Received("port_desc_request")
    BY <1>6, Zenon DEF SwitchHello, SwitchPorts, SwitchEcho, Sends, TypeOK
  <2>. QED BY <1>0, <1>1, <1>3, <2>2, <2>3, <2>4, Zenon DEF Answers
<1>7. CASE SwitchFeatures
  <2>1. PICK m \in Incoming : inbox' = Append(inbox, m)
    BY <1>7, Zenon DEF SwitchFeatures, Sends, Incoming
  <2>2. ~ known /\ ~ FeaturesPending /\ ~ Requested /\ Received("features_request")
    BY <1>7 DEF SwitchFeatures, Answers
  <2>3. OneReply' /\ NoReplyLeft'
    BY <1>2, <1>5, <2>1, <2>2 DEF FeaturesPending, OneReply, NoReplyLeft
  <2>4. switch'.features = 1 /\ switch'.ports = switch.ports
    BY <1>7 DEF SwitchFeatures, Sends, TypeOK
  <2>. QED BY <1>0, <1>1, <1>3, <2>2, <2>3, <2>4, Zenon DEF Answers
<1>. QED BY <1>4, <1>6, <1>7, Zenon DEF Switch

LEMMA AnswersStep ==
    ASSUME TypeOK, Numbered, Answers, [Next]_vars
    PROVE  Answers'
<1>1. CASE Send
  <2>1. UNCHANGED <<switch, inbox, known, log, blocked, serve, cur>>
    BY <1>1, Zenon DEF Send, send_start, send_get, send_done, send_error, _send_loop_test, _send_loop_finally,
       dpVars, qVars, peerVars
  <2>. QED BY <2>1, RequestedKept, AnswersSame DEF Unhandled
<1>2. CASE close \/ UNCHANGED vars
  <2>1. UNCHANGED <<switch, inbox, known, log, blocked, serve, cur>>
    BY <1>2, Zenon DEF close, vars, dpVars, qVars, peerVars
  <2>. QED BY <2>1, RequestedKept, AnswersSame DEF Unhandled
<1>3. ASSUME NEW g \in Greenlets, Unblock(g) PROVE Answers'
  <2>1. UNCHANGED <<switch, inbox, known, serve, cur>>
    BY <1>3, Zenon DEF Unblock, dpVars, peerVars
  <2>. QED BY <1>3, <2>1, RequestedUnblock, AnswersSame, Zenon DEF Unhandled
<1>4. ASSUME NEW s \in Senders, app_send(s) PROVE Answers'
  <2>. DEFINE m == [by |-> s, kind |-> "app", n |-> sends[s] + 1]
  <2>1. /\ UNCHANGED <<switch, inbox, known, serve, cur>> /\ send(s, m)
        /\ m \in Messages /\ m.kind # "port_desc_request" /\ s \in Greenlets
    BY <1>4, AppMessage, ServeIsGreenlet, Zenon DEF app_send, dpVars, peerVars
  <2>. HIDE DEF m
  <2>. QED BY <2>1, RequestedSend, AnswersSame, Zenon DEF Unhandled
<1>. QED BY <1>1, <1>2, <1>3, <1>4, AnswersServe, AnswersSwitch, Zenon DEF Next

-----------------------------------------------------------------------------
(***************************************************************************)
(* The port description.                                                   *)
(***************************************************************************)

\* Before the ports are asked for there are none.
LEMMA NoPortsYet ==
    ASSUME TypeOK, Fifo, Answers, PortsInv, ~ Requested
    PROVE  switch.ports = 0 /\ \A i \in 1 .. Len(inbox) : inbox[i].kind # "ports"
<1>1. Received("port_desc_request") => Requested
  <2>1. SUFFICES ASSUME NEW i \in DOMAIN wire, wire[i].kind = "port_desc_request" PROVE Requested
    BY Zenon DEF Received
  <2>2. i \in 1 .. Len(wire) /\ Len(wire) \in Nat /\ Len(log) \in Nat
    BY DEF TypeOK
  <2>3. i \in 1 .. Len(log) /\ log[i] = wire[i]
    BY <2>2 DEF Fifo
  <2>. QED BY <2>1, <2>3, Zenon DEF Requested
<1>2. switch.ports \in Nat
  BY DEF TypeOK
<1>3. switch.ports = 0
  BY <1>1, <1>2, SMTT(30) DEF Answers
<1>. QED BY <1>3 DEF PortsInv

\* The steps that leave the port description and its messages alone.
LEMMA PortsSame ==
    ASSUME PortsInv, UNCHANGED <<inbox, switch, ports>>, link' => link, state' \in {state, "dead"},
           serve' = "posting" => UNCHANGED <<serve, cur>>,
           HandlingPorts => HandlingPorts' \/ state' # "config"
    PROVE  PortsInv'
<1>1. HandlingPorts' => HandlingPorts /\ UNCHANGED cur
  BY Zenon DEF HandlingPorts
<1>2. state' = "config" => Reached' = Reached
  BY <1>1, Zenon DEF Reached
<1>3. ASSUME NEW r, Follow(r) PROVE Follow(r)'
  BY <1>3, ZenonT(30) DEF Follow
<1>4. /\ \A i \in 1 .. Len(inbox') : inbox'[i].kind = "ports" => inbox'[i].n \in 1 .. switch'.ports
      /\ HandlingPorts' => cur'.n \in 1 .. switch'.ports
      /\ state' = "handshake" => ports' = 0
      /\ state' = "main" => ports' = Parts
  BY <1>1, Zenon DEF PortsInv
<1>5. ASSUME state' = "config"
      PROVE  Reached' <= switch'.ports /\ (HandlingPorts' => cur'.n = ports' + 1) /\ Follow(Reached)'
  <2>1. state = "config"
    BY <1>5, Zenon
  <2>2. PICK r : r = Reached
    BY Zenon
  <2>3. Follow(r)' /\ r = Reached'
    BY <1>2, <1>3, <1>5, <2>1, <2>2, Zenon DEF PortsInv
  <2>4. Follow(Reached)'
    BY <2>3, Zenon DEF Follow
  <2>. QED BY <1>1, <1>2, <1>5, <2>1, <2>4, Zenon DEF PortsInv
<1>. QED BY <1>4, <1>5, Zenon DEF PortsInv

LEMMA PortsRecv ==
    ASSUME TypeOK, PortsInv, recv
    PROVE  PortsInv'
<1>1. /\ inbox \in Seq(Incoming) /\ inbox # <<>> /\ Len(inbox) \in Nat /\ ports \in Nat
      /\ switch.ports \in Nat
  BY ConstantsAssumption DEF TypeOK, recv
<1>2. /\ Len(inbox) >= 1 /\ Head(inbox) = inbox[1] /\ Len(inbox') = Len(inbox) - 1
      /\ \A i \in 1 .. Len(inbox') : inbox'[i] = inbox[i + 1] /\ i + 1 \in 1 .. Len(inbox)
      /\ \A i \in 1 .. Len(inbox) : inbox[i].n \in Nat
  <2>1. inbox' = Tail(inbox)
    BY Zenon DEF recv
  <2>2. \A i \in 1 .. Len(inbox) : inbox[i] \in Incoming
    BY <1>1
  <2>3. \A i \in 1 .. Len(inbox) : inbox[i].n \in Nat
    BY <2>2, Zenon DEF Incoming
  <2>. QED BY <1>1, <2>1, <2>3
<1>3. /\ cur' = inbox[1] /\ serve' = "posting" /\ ~ HandlingPorts
      /\ UNCHANGED <<switch, ports, state, link>>
  BY <1>2, Zenon DEF recv, HandlingPorts, ServeAt
<1>4. ASSUME state = "config"
      PROVE  Reached' <= switch.ports /\ (HandlingPorts' => cur'.n = ports + 1) /\ Follow(Reached)'
  <2>1. Follow(ports) /\ ports <= switch.ports
    BY <1>3, <1>4, Zenon DEF PortsInv, Reached
  <2>2. 1 \in 1 .. Len(inbox)
    BY <1>1, <1>2
  <2>3. PICK r \in Nat : r = Reached'
    BY <1>1, <1>3 DEF Reached
  <2>4. /\ r = ports \/ r = ports + 1
        /\ HandlingPorts' => inbox[1].kind = "ports" /\ r = ports + 1
        /\ ~ HandlingPorts' => inbox[1].kind # "ports" /\ r = ports
    BY <1>1, <1>3, <2>3, Zenon DEF Reached, HandlingPorts
  <2>5. inbox[1].kind = "ports" => inbox[1].n = ports + 1
    <3>1. SUFFICES ASSUME inbox[1].kind = "ports", inbox[1].n # ports + 1 PROVE FALSE
      BY Zenon
    <3>2. inbox[1].n > ports
      BY <2>1, <2>2, <3>1, Zenon DEF Follow
    <3>3. ports + 1 \in ports + 1 .. inbox[1].n - 1
      BY <1>1, <1>2, <2>2, <3>1, <3>2
    <3>4. \E j \in 1 .. 1 - 1 : inbox[j].kind = "ports" /\ inbox[j].n = ports + 1
      BY <2>1, <2>2, <3>1, <3>3, Zenon DEF Follow
    <3>. QED BY <3>4
  <2>6. inbox[1].kind = "ports" => ports + 1 <= switch.ports
    BY <1>1, <1>2, <2>2, <2>5 DEF PortsInv
  <2>7. ASSUME NEW i \in 1 .. Len(inbox'), inbox'[i].kind = "ports"
        PROVE  /\ inbox'[i].n > r
               /\ \A k \in r + 1 .. inbox'[i].n - 1 :
                     \E j \in 1 .. i - 1 : inbox'[j].kind = "ports" /\ inbox'[j].n = k
               /\ \A j \in 1 .. i - 1 : inbox'[j].kind = "ports" => inbox'[j].n < inbox'[i].n
    <3>1. i + 1 \in 1 .. Len(inbox) /\ inbox[i + 1].kind = "ports" /\ inbox'[i] = inbox[i + 1]
      BY <1>2, <2>7, Zenon
    <3>2. /\ inbox[i + 1].n > ports
          /\ \A k \in ports + 1 .. inbox[i + 1].n - 1 :
                \E j \in 1 .. (i + 1) - 1 : inbox[j].kind = "ports" /\ inbox[j].n = k
          /\ \A j \in 1 .. (i + 1) - 1 : inbox[j].kind = "ports" => inbox[j].n < inbox[i + 1].n
      BY <2>1, <3>1, Zenon DEF Follow
    <3>3. inbox'[i].n > r
      BY <1>1, <1>2, <2>4, <2>5, <3>1, <3>2
    <3>4. ASSUME NEW k \in r + 1 .. inbox'[i].n - 1
          PROVE  \E j \in 1 .. i - 1 : inbox'[j].kind = "ports" /\ inbox'[j].n = k
      <4>1. k \in ports + 1 .. inbox[i + 1].n - 1 /\ (inbox[1].kind = "ports" => k # inbox[1].n)
        BY <1>1, <2>4, <2>5, <3>1, <3>4
      <4>2. PICK j \in 1 .. (i + 1) - 1 : inbox[j].kind = "ports" /\ inbox[j].n = k
        BY <3>2, <4>1, Zenon
      <4>3. j # 1
        BY <4>1, <4>2, Zenon
      <4>4. j - 1 \in 1 .. i - 1 /\ j - 1 \in 1 .. Len(inbox') /\ (j - 1) + 1 = j
        BY <1>1, <1>2, <4>2, <4>3
      <4>. QED BY <1>2, <4>2, <4>4, Zenon
    <3>5. ASSUME NEW j \in 1 .. i - 1, inbox'[j].kind = "ports" PROVE inbox'[j].n < inbox'[i].n
      <4>1. j \in 1 .. Len(inbox') /\ j + 1 \in 1 .. (i + 1) - 1
        BY <1>1, <1>2, <3>5
      <4>. QED BY <1>2, <3>1, <3>2, <3>5, <4>1, ZenonT(30)
    <3>. QED BY <3>3, <3>4, <3>5, Zenon
  <2>8. ASSUME link, NEW k \in r + 1 .. switch.ports
        PROVE  \E j \in 1 .. Len(inbox') : inbox'[j].kind = "ports" /\ inbox'[j].n = k
    <3>1. k \in ports + 1 .. switch.ports /\ (inbox[1].kind = "ports" => k # inbox[1].n)
      BY <1>1, <2>4, <2>5, <2>8
    <3>2. PICK j \in 1 .. Len(inbox) : inbox[j].kind = "ports" /\ inbox[j].n = k
      BY <2>1, <2>8, <3>1, Zenon DEF Follow
    <3>3. j # 1
      BY <3>1, <3>2, Zenon
    <3>4. j - 1 \in 1 .. Len(inbox') /\ (j - 1) + 1 = j
      BY <1>1, <1>2, <3>2, <3>3
    <3>. QED BY <1>2, <3>2, <3>4, Zenon
  <2>9. Follow(Reached)'
    BY <1>3, <2>3, <2>7, <2>8, Zenon DEF Follow
  <2>. QED BY <1>1, <1>3, <2>1, <2>3, <2>4, <2>5, <2>6, <2>9, Zenon
<1>5. \A i \in 1 .. Len(inbox') : inbox'[i].kind = "ports" => inbox'[i].n \in 1 .. switch'.ports
  BY <1>2, <1>3, Zenon DEF PortsInv
<1>6. HandlingPorts' => cur'.n \in 1 .. switch'.ports
  <2>1. 1 \in 1 .. Len(inbox)
    BY <1>1, <1>2
  <2>. QED BY <1>3, <2>1, Zenon DEF PortsInv, HandlingPorts
<1>. QED BY <1>3, <1>4, <1>5, <1>6, Zenon DEF PortsInv

LEMMA PortsHandler ==
    ASSUME TypeOK, Fifo, Answers, PortsInv,
           \/ hello_handler \/ switch_features_handler \/ multipart_reply_handler
           \/ echo_request_handler \/ no_handler
    PROVE  PortsInv'
<1>0. /\ UNCHANGED <<switch, inbox, link, cur>> /\ serve = "posting" /\ serve' \in {"recv", "request"}
      /\ ~ HandlingPorts' /\ ports \in Nat /\ switch.ports \in Nat
  <2>1. UNCHANGED <<switch, inbox, link, cur>> /\ serve = "posting"
    BY Zenon DEF hello_handler, switch_features_handler, multipart_reply_handler, echo_request_handler,
       no_handler, Handling, ServeAt, peerVars
  <2>2. serve' \in {"recv", "request"}
    BY Zenon DEF hello_handler, switch_features_handler, multipart_reply_handler, echo_request_handler,
       no_handler
  <2>3. ports \in Nat /\ switch.ports \in Nat
    BY ConstantsAssumption, SMTT(30) DEF TypeOK
  <2>. QED BY <2>1, <2>2, <2>3, Zenon DEF HandlingPorts
<1>1. (\A i \in 1 .. Len(inbox) : inbox[i].kind = "ports" => inbox[i].n \in 1 .. switch.ports)'
  BY <1>0, Zenon DEF PortsInv
<1>2. ASSUME ~ Requested, ports' = 0 PROVE Reached' <= switch'.ports /\ Follow(Reached)'
  <2>1. switch.ports = 0 /\ \A i \in 1 .. Len(inbox) : inbox[i].kind # "ports"
    BY <1>2, NoPortsYet, Zenon
  <2>2. Reached' = 0
    BY <1>0, <1>2, Zenon DEF Reached
  <2>. QED BY <1>0, <2>1, <2>2 DEF Follow
<1>3. CASE hello_handler
  <2>1. state = "handshake" /\ UNCHANGED ports /\ state' \in {"handshake", "config"}
    <3>1. Handling("hello", {"handshake"}) /\ UNCHANGED ports
      BY <1>3, Zenon DEF hello_handler
    <3>2. UNCHANGED state \/ state' = "config"
      BY <1>3, Zenon DEF hello_handler
    <3>. QED BY <3>1, <3>2, Zenon DEF Handling
  <2>2. ~ Requested /\ ports' = 0
    BY <2>1, Zenon DEF Answers, PortsInv
  <2>. QED BY <1>0, <1>1, <1>2, <2>1, <2>2, Zenon DEF PortsInv
<1>4. CASE switch_features_handler
  <2>1. /\ cur.kind = "features" /\ state = "config"
        /\ (ports' = Parts /\ state' = "main") \/ (ports' = 0 /\ UNCHANGED state)
    BY <1>4, Zenon DEF switch_features_handler, Handling
  <2>2. ~ Requested
    BY <1>0, <2>1, Zenon DEF Answers, FeaturesPending, Unhandled
  <2>. QED BY <1>0, <1>1, <1>2, <2>1, <2>2, Zenon DEF PortsInv
<1>5. CASE multipart_reply_handler
  <2>1. /\ HandlingPorts /\ state = "config" /\ ports' = ports + 1
        /\ state' = IF cur.n = Parts THEN "main" ELSE "config"
    BY <1>0, <1>5, Zenon DEF multipart_reply_handler, Handling, HandlingPorts, LastPart
  <2>2. cur.n = ports + 1 /\ Reached = ports + 1 /\ Follow(Reached) /\ Reached <= switch.ports
    BY <2>1, Zenon DEF PortsInv, Reached
  <2>3. Reached' = Reached
    BY <1>0, <2>1, <2>2, Zenon DEF Reached
  <2>4. Follow(Reached)' /\ Reached' <= switch'.ports
    BY <1>0, <2>2, <2>3, SMTT(30) DEF Follow
  <2>. QED BY <1>0, <1>1, <2>1, <2>2, <2>4, Zenon DEF PortsInv
<1>6. CASE echo_request_handler \/ no_handler
  <2>1. UNCHANGED <<ports, state>> /\ (cur.kind = "ports" => state # "config")
    BY <1>6, Zenon DEF echo_request_handler, no_handler, Handling
  <2>. QED BY <1>0, <2>1, PortsSame, Zenon DEF HandlingPorts
<1>. QED BY <1>3, <1>4, <1>5, <1>6, Zenon

LEMMA PortsServe ==
    ASSUME TypeOK, Fifo, Answers, PortsInv, Serve
    PROVE  PortsInv'
<1>1. CASE serve_start \/ hello_handler_request
  <2>1. UNCHANGED <<inbox, switch, ports, link, state>> /\ serve # "posting" /\ serve' # "posting"
    BY <1>1, Zenon DEF serve_start, hello_handler_request, ServeAt, peerVars, dpVars
  <2>. QED BY <2>1, PortsSame, Zenon DEF HandlingPorts
<1>2. CASE recv_raise
  <2>1. inbox \in Seq(Incoming) /\ inbox # <<>> /\ Len(inbox) \in Nat
    BY <1>2 DEF TypeOK, recv_raise
  <2>2. /\ Len(inbox') = Len(inbox) - 1
        /\ \A i \in 1 .. Len(inbox') : inbox'[i] = inbox[i + 1] /\ i + 1 \in 1 .. Len(inbox)
    BY <1>2, <2>1 DEF recv_raise
  <2>3. UNCHANGED switch /\ ~ HandlingPorts' /\ state' = "dead"
    BY <1>2, Zenon DEF recv_raise, HandlingPorts, _deactivate
  <2>. QED BY <2>2, <2>3, Zenon DEF PortsInv
<1>3. CASE recv_end
  <2>1. Len(inbox') = 0 /\ UNCHANGED switch /\ ~ HandlingPorts' /\ state' = "dead"
    BY <1>3, Zenon DEF recv_end, HandlingPorts, _deactivate
  <2>. QED BY <2>1 DEF PortsInv
<1>4. CASE serve_kill
  <2>1. UNCHANGED <<inbox, switch, ports, link>> /\ state' \in {state, "dead"}
    BY <1>4, Zenon DEF serve_kill, _send_loop_finally, _deactivate, peerVars, dpVars, TypeOK
  <2>2. serve # "posting" /\ serve' # "posting"
    BY <1>4, Zenon DEF serve_kill, ServeAt
  <2>. QED BY <2>1, <2>2, PortsSame, Zenon DEF HandlingPorts
<1>5. CASE serve_close
  <2>1. /\ UNCHANGED <<inbox, switch, ports, link>> /\ state' = "dead"
        /\ serve # "posting" /\ serve' # "posting"
    BY <1>5, Zenon DEF serve_close, ServeAt, _deactivate, peerVars
  <2>. QED BY <2>1, PortsSame, Zenon DEF HandlingPorts
<1>. QED BY <1>1, <1>2, <1>3, <1>4, <1>5, PortsRecv, PortsHandler, Zenon DEF Serve

\* A message arrives: the next part of the ports, or something else.
LEMMA PortsArrive ==
    ASSUME TypeOK, PortsInv, link, NEW m \in Incoming, inbox' = Append(inbox, m),
           \/ m.kind # "ports" /\ switch'.ports = switch.ports
           \/ m.kind = "ports" /\ m.n = switch.ports + 1 /\ switch'.ports = switch.ports + 1,
           UNCHANGED <<serve, cur, ports, state, link>>
    PROVE  PortsInv'
<1>1. /\ Len(inbox) \in Nat /\ ports \in Nat /\ switch.ports \in Nat
      /\ Len(inbox') = Len(inbox) + 1 /\ inbox'[Len(inbox) + 1] = m
      /\ \A i \in 1 .. Len(inbox) : inbox'[i] = inbox[i]
  BY Appended, ConstantsAssumption, SMTT(30) DEF TypeOK
<1>2. HandlingPorts' = HandlingPorts /\ Reached' = Reached /\ Reached \in Nat
  BY <1>1 DEF HandlingPorts, Reached
<1>3. switch'.ports \in Nat /\ switch.ports <= switch'.ports
  BY <1>1, SMTT(30)
<1>4. \A i \in 1 .. Len(inbox') : inbox'[i].kind = "ports" => inbox'[i].n \in 1 .. switch'.ports
  <2>1. ASSUME NEW i \in 1 .. Len(inbox), inbox[i].kind = "ports" PROVE inbox[i].n \in 1 .. switch'.ports
    BY <1>1, <1>3, <2>1, SMTT(30) DEF PortsInv
  <2>2. m.kind = "ports" => m.n \in 1 .. switch'.ports
    BY <1>1, SMTT(30)
  <2>3. ASSUME NEW i \in 1 .. Len(inbox'), inbox'[i].kind = "ports" PROVE inbox'[i].n \in 1 .. switch'.ports
    <3>1. CASE i \in 1 .. Len(inbox)
      <4>1. inbox'[i] = inbox[i]
        BY <1>1, <3>1, Zenon
      <4>. QED BY <2>1, <2>3, <3>1, <4>1, Zenon
    <3>2. CASE i = Len(inbox) + 1
      <4>1. inbox'[i] = m
        BY <1>1, <3>2, Zenon
      <4>. QED BY <2>2, <2>3, <4>1, Zenon
    <3>3. i \in 1 .. Len(inbox) \/ i = Len(inbox) + 1
      BY <1>1, <2>3
    <3>. QED BY <3>1, <3>2, <3>3, Zenon
  <2>. QED BY <2>3, Zenon
<1>5. HandlingPorts => cur.n \in 1 .. switch'.ports
  BY <1>1, <1>3 DEF PortsInv
<1>6. ASSUME state = "config" PROVE Reached <= switch'.ports /\ Follow(Reached)'
  <2>1. Reached <= switch.ports /\ Follow(Reached)
    BY <1>6, Zenon DEF PortsInv
  <2>2. PICK r \in Nat : r = Reached /\ r = Reached'
    BY <1>2, Zenon
  <2>3. ASSUME NEW i \in 1 .. Len(inbox'), inbox'[i].kind = "ports"
        PROVE  /\ inbox'[i].n > r
               /\ \A k \in r + 1 .. inbox'[i].n - 1 :
                     \E j \in 1 .. i - 1 : inbox'[j].kind = "ports" /\ inbox'[j].n = k
               /\ \A j \in 1 .. i - 1 : inbox'[j].kind = "ports" => inbox'[j].n < inbox'[i].n
    <3>1. CASE i \in 1 .. Len(inbox)
      <4>1. /\ inbox'[i] = inbox[i]
            /\ \A j \in 1 .. i - 1 : j \in 1 .. Len(inbox) /\ inbox'[j] = inbox[j]
        BY <1>1, <3>1
      <4>2. /\ inbox[i].n > r
            /\ \A k \in r + 1 .. inbox[i].n - 1 :
                  \E j \in 1 .. i - 1 : inbox[j].kind = "ports" /\ inbox[j].n = k
            /\ \A j \in 1 .. i - 1 : inbox[j].kind = "ports" => inbox[j].n < inbox[i].n
        BY <2>1, <2>2, <2>3, <3>1, <4>1, Zenon DEF Follow
      <4>. QED BY <4>1, <4>2
    <3>2. CASE i = Len(inbox) + 1
      <4>1. inbox'[i] = m /\ m.n = switch.ports + 1 /\ i - 1 = Len(inbox)
        BY <1>1, <2>3, <3>2
      <4>2. inbox'[i].n > r
        BY <1>1, <2>1, <2>2, <4>1
      <4>3. ASSUME NEW k \in r + 1 .. switch.ports
            PROVE  \E j \in 1 .. Len(inbox) : inbox'[j].kind = "ports" /\ inbox'[j].n = k
        BY <1>1, <2>1, <2>2, <4>3, Zenon DEF Follow
      <4>4. ASSUME NEW j \in 1 .. Len(inbox), inbox'[j].kind = "ports" PROVE inbox'[j].n < m.n
        <5>1. inbox[j].n \in 1 .. switch.ports
          BY <1>1, <4>4, Zenon DEF PortsInv
        <5>. QED BY <1>1, <4>1, <5>1
      <4>5. inbox'[i].n - 1 = switch.ports
        BY <1>1, <4>1
      <4>. QED BY <4>1, <4>2, <4>3, <4>4, <4>5, Zenon
    <3>. QED BY <1>1, <3>1, <3>2, SMTT(30)
  <2>4. ASSUME NEW k \in r + 1 .. switch'.ports
        PROVE  \E j \in 1 .. Len(inbox') : inbox'[j].kind = "ports" /\ inbox'[j].n = k
    <3>1. CASE k \in r + 1 .. switch.ports
      <4>1. PICK j \in 1 .. Len(inbox) : inbox[j].kind = "ports" /\ inbox[j].n = k
        BY <2>1, <2>2, <3>1, Zenon DEF Follow
      <4>. QED BY <1>1, <4>1
    <3>2. CASE k = switch.ports + 1 /\ m.kind = "ports"
      BY <1>1, <3>2
    <3>. QED BY <1>1, <3>1, <3>2
  <2>5. Follow(Reached)'
    <3>1. Follow(r)'
      BY <2>3, <2>4, Zenon DEF Follow
    <3>2. Reached' = r
      BY <2>2, Zenon
    <3>. QED BY <3>1, <3>2, Zenon DEF Follow
  <2>6. Reached <= switch'.ports
    BY <1>1, <1>2, <1>3, <2>1
  <2>. QED BY <2>5, <2>6, Zenon
<1>. QED BY <1>2, <1>4, <1>5, <1>6, Zenon DEF PortsInv

LEMMA PortsSwitch ==
    ASSUME TypeOK, PortsInv, Switch
    PROVE  PortsInv'
<1>0. UNCHANGED <<serve, cur, ports, state>>
  BY SwitchKeeps, Zenon DEF dpVars
<1>1. CASE LinkDown
  <2>1. PICK n \in 0 .. Len(inbox) : inbox' = SubSeq(inbox, 1, n)
    BY <1>1, Zenon DEF LinkDown
  <2>2. inbox \in Seq(Incoming) /\ Len(inbox) \in Nat
    BY DEF TypeOK
  <2>3. Len(inbox') = n /\ \A i \in 1 .. n : inbox'[i] = inbox[i] /\ i \in 1 .. Len(inbox)
    BY <2>1, <2>2
  <2>4. UNCHANGED switch /\ ~ link'
    BY <1>1, Zenon DEF LinkDown
  <2>5. HandlingPorts' = HandlingPorts /\ Reached' = Reached
    BY <1>0, Zenon DEF HandlingPorts, Reached
  <2>6. ASSUME Follow(Reached) PROVE Follow(Reached)'
    <3>1. ASSUME NEW i \in 1 .. Len(inbox'), inbox'[i].kind = "ports"
          PROVE  /\ inbox'[i].n > Reached
                 /\ \A k \in Reached + 1 .. inbox'[i].n - 1 :
                       \E j \in 1 .. i - 1 : inbox'[j].kind = "ports" /\ inbox'[j].n = k
                 /\ \A j \in 1 .. i - 1 : inbox'[j].kind = "ports" => inbox'[j].n < inbox'[i].n
      <4>1. /\ inbox'[i] = inbox[i] /\ i \in 1 .. Len(inbox)
            /\ \A j \in 1 .. i - 1 : inbox'[j] = inbox[j]
        BY <2>1, <2>3, <3>1, SMTT(30)
      <4>2. /\ inbox[i].n > Reached
            /\ \A k \in Reached + 1 .. inbox[i].n - 1 :
                  \E j \in 1 .. i - 1 : inbox[j].kind = "ports" /\ inbox[j].n = k
            /\ \A j \in 1 .. i - 1 : inbox[j].kind = "ports" => inbox[j].n < inbox[i].n
        BY <2>6, <3>1, <4>1, Zenon DEF Follow
      <4>. QED BY <4>1, <4>2, Zenon
    <3>. QED BY <2>4, <2>5, <3>1, Zenon DEF Follow
  <2>. QED BY <1>0, <2>3, <2>4, <2>5, <2>6, Zenon DEF PortsInv
<1>2. CASE SwitchHello
  <2>1. PICK v \in HelloVersions : Sends("hello", v)
    BY <1>2, Zenon DEF SwitchHello
  <2>2. [kind |-> "hello", n |-> v] \in Incoming
    BY ConstantsAssumption, Zenon DEF Incoming
  <2>3. switch'.ports = switch.ports
    BY <2>1, Zenon DEF Sends, TypeOK
  <2>. QED BY <1>0, <2>1, <2>2, <2>3, PortsArrive, Zenon DEF Sends
<1>3. CASE SwitchFeatures
  <2>1. [kind |-> "features", n |-> 0] \in Incoming
    BY Zenon DEF Incoming
  <2>2. switch'.ports = switch.ports
    BY <1>3, Zenon DEF SwitchFeatures, Sends, TypeOK
  <2>. QED BY <1>0, <1>3, <2>1, <2>2, PortsArrive, Zenon DEF SwitchFeatures, Sends
<1>4. CASE SwitchEcho
  <2>1. [kind |-> "echo", n |-> 0] \in Incoming
    BY Zenon DEF Incoming
  <2>2. switch'.ports = switch.ports
    BY <1>4, Zenon DEF SwitchEcho, Sends, TypeOK
  <2>. QED BY <1>0, <1>4, <2>1, <2>2, PortsArrive, Zenon DEF SwitchEcho, Sends
<1>5. CASE SwitchPorts
  <2>1. switch.ports + 1 \in Nat
    BY DEF TypeOK
  <2>2. [kind |-> "ports", n |-> switch.ports + 1] \in Incoming
    BY <2>1, Zenon DEF Incoming
  <2>3. switch'.ports = switch.ports + 1
    BY <1>5, Zenon DEF SwitchPorts, Sends, TypeOK
  <2>. QED BY <1>0, <1>5, <2>2, <2>3, PortsArrive, Zenon DEF SwitchPorts, Sends
<1>. QED BY <1>1, <1>2, <1>3, <1>4, <1>5, Zenon DEF Switch

LEMMA PortsStep ==
    ASSUME TypeOK, Fifo, Answers, PortsInv, [Next]_vars
    PROVE  PortsInv'
<1>1. CASE Send
  <2>1. UNCHANGED <<inbox, switch, ports, link, serve, cur>> /\ state' \in {state, "dead"}
    BY <1>1, Zenon DEF Send, send_start, send_get, send_done, send_error, _send_loop_test, _send_loop_finally,
       _deactivate, dpVars, peerVars
  <2>. QED BY <2>1, PortsSame, Zenon DEF HandlingPorts
<1>2. CASE close \/ UNCHANGED vars
  <2>1. UNCHANGED <<inbox, switch, ports, link, serve, cur>> /\ state' \in {state, "dead"}
    BY <1>2, Zenon DEF close, _deactivate, vars, dpVars, peerVars
  <2>. QED BY <2>1, PortsSame, Zenon DEF HandlingPorts
<1>3. ASSUME NEW g \in Greenlets, Unblock(g) PROVE PortsInv'
  <2>1. UNCHANGED <<inbox, switch, ports, link, serve, cur, state>>
    BY <1>3, Zenon DEF Unblock, dpVars, peerVars
  <2>. QED BY <2>1, PortsSame, Zenon DEF HandlingPorts
<1>4. ASSUME NEW s \in Senders, app_send(s) PROVE PortsInv'
  <2>1. UNCHANGED <<inbox, switch, ports, link, serve, cur, state>>
    BY <1>4, Zenon DEF app_send, dpVars, peerVars
  <2>. QED BY <2>1, PortsSame, Zenon DEF HandlingPorts
<1>. QED BY <1>1, <1>2, <1>3, <1>4, PortsServe, PortsSwitch, Zenon DEF Next
====
