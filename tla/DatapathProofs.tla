--------------------------- MODULE DatapathProofs ---------------------------
(***************************************************************************)
(* What holds of one OpenFlow connection, for any applications, any        *)
(* capacity of the send queue, any supported versions and any number of    *)
(* messages, and that it keeps the promise of module Connection.           *)
(***************************************************************************)
EXTENDS DatapathQueue, DatapathHandshake

-----------------------------------------------------------------------------
(***************************************************************************)
(* The invariant.                                                          *)
(***************************************************************************)

LEMMA InitIInv ==
    ASSUME Init
    PROVE  IInv
<1>. USE ConstantsAssumption DEF Init
<1>0. Len(<<>>) = 0
  OBVIOUS
<1>1. TypeOK
  <2>1. QType
    BY <1>0 DEF QType
  <2>2. DpType
    <3>1. ports \in 0 .. Parts
      OBVIOUS
    <3>. QED BY <3>1, Zenon DEF DpType
  <2>4. sends \in [Senders -> 0 .. MaxSends] /\ <<>> \in Seq(Messages) /\ 0 \in Nat
    OBVIOUS
  <2>5. RunType
    <3>. HIDE ConstantsAssumption
    <3>. QED BY <2>4, Zenon DEF RunType
  <2>3. PeerType
    BY DEF PeerType
  <2>. QED BY <2>1, <2>2, <2>3, <2>5, TypeParts, Zenon
<1>2. Life
  BY Zenon DEF Life
<1>3. Fifo
  BY <1>0 DEF Fifo, InHand
<1>4. Numbered
  <2>1. ASSUME NEW s \in Senders PROVE NumberedOf(s)
    BY <1>0, ServeIsGreenlet DEF NumberedOf, Accepted
  <2>. QED BY <2>1, ServeIsGreenlet, Zenon DEF Numbered, OwnMessages
<1>5. Answers
  <2>1. ~ Requested
    BY <1>0, ServeIsGreenlet DEF Requested
  <2>. QED BY <1>0, <2>1 DEF Answers, FeaturesPending, Unhandled, OneReply, NoReplyLeft
<1>6. PortsInv
  BY <1>0 DEF PortsInv, HandlingPorts
<1>. QED BY <1>1, <1>2, <1>3, <1>4, <1>5, <1>6, Zenon DEF IInv

LEMMA StepIInv ==
    ASSUME IInv, [Next]_vars
    PROVE  IInv'
BY TypeStep, LifeStep, FifoStep, NumberedStep, AnswersStep, PortsStep, Zenon DEF IInv

LEMMA Invariance == Spec => []IInv
BY InitIInv, StepIInv, PTL DEF Spec

-----------------------------------------------------------------------------
(***************************************************************************)
(* The theorems.                                                           *)
(***************************************************************************)

\* Every variable of a connection keeps its type; the send queue never holds
\* more messages than its capacity, however many greenlets put there.
THEOREM ConnectionTypes == Spec => []TypeOK
<1>1. IInv => TypeOK
  BY Zenon DEF IInv
<1>. QED BY <1>1, Invariance, PTL

\* The handshake of OFPHandler ends in MAIN only when every part of the port
\* description is in Datapath.ports, for any number of parts and whatever is
\* handled in between.
THEOREM HandshakeIsComplete == Spec => []MainIsComplete
<1>1. IInv => MainIsComplete
  BY Zenon DEF IInv, Life, PortsInv, MainIsComplete
<1>. QED BY <1>1, Invariance, PTL

\* The messages of an application reach the switch in the order of its calls
\* of send_msg() and without gaps, for any number of applications and any
\* capacity of the queue.
THEOREM DeliveryHasNoGaps == Spec => []NoGaps
<1>1. ASSUME TypeOK, Fifo, Numbered, NEW s \in Senders, NEW i \in DOMAIN wire, wire[i].by = s
      PROVE  /\ \A j \in 1 .. i - 1 : wire[j].by = s => wire[j].n < wire[i].n
             /\ \A k \in 1 .. wire[i].n : \E j \in 1 .. i : wire[j].by = s /\ wire[j].n = k
  <2>1. Len(wire) \in Nat /\ Len(log) \in Nat /\ i \in 1 .. Len(wire)
    BY <1>1 DEF TypeOK
  <2>2. i \in 1 .. Len(log) /\ wire[i] = log[i] /\ \A j \in 1 .. i : wire[j] = log[j]
    BY <1>1, <2>1 DEF Fifo
  <2>3. /\ \A j \in 1 .. i - 1 : log[j].by = s => log[j].n < log[i].n
        /\ \A k \in 1 .. log[i].n : \E j \in 1 .. i : log[j].by = s /\ log[j].n = k
    BY <1>1, <2>2 DEF Numbered, NumberedOf
  <2>4. ASSUME NEW j \in 1 .. i - 1, wire[j].by = s PROVE wire[j].n < wire[i].n
    <3>1. j \in 1 .. i /\ wire[j] = log[j]
      BY <2>1, <2>2, <2>4
    <3>. QED BY <2>2, <2>3, <2>4, <3>1, Zenon
  <2>5. ASSUME NEW k \in 1 .. wire[i].n PROVE \E j \in 1 .. i : wire[j].by = s /\ wire[j].n = k
    BY <2>2, <2>3, <2>5, Zenon
  <2>. QED BY <2>4, <2>5, Zenon
<1>2. IInv => NoGaps
  BY <1>1, Zenon DEF IInv, NoGaps
<1>. QED BY <1>2, Invariance, PTL

\* When serve() has returned from _send_loop's end, send_q is None for every
\* application that was given the datapath: it was given it by a features
\* reply, so the sending greenlet had run.
THEOREM EndedConnectionIsInert == Spec => []EndedIsInert
<1>1. IInv => EndedIsInert
  <2>1. SUFFICES ASSUME TypeOK, Life, Answers, serve \in {"killed", "closed"}, known, qref PROVE FALSE
    BY Zenon DEF IInv, EndedIsInert
  <2>2. wire = <<>>
    BY <2>1, Zenon DEF Life
  <2>3. Received("features_request")
    BY <2>1, Zenon DEF Answers
  <2>. QED BY <2>2, <2>3 DEF Received
<1>. QED BY <1>1, Invariance, PTL

-----------------------------------------------------------------------------
(***************************************************************************)
(* A Datapath implements what module Connection promises: each step of its *)
(* greenlets is a step of the connection or leaves it as it is.            *)
(***************************************************************************)

LEMMA AdvanceStep ==
    ASSUME TypeOK, [Next]_vars
    PROVE  Promise!Advance
<1>. USE DEF Promise!Advance
<1>1. CASE Serve
  <2>1. CASE serve_start \/ recv \/ hello_handler_request
    BY <2>1, Zenon DEF serve_start, recv, hello_handler_request, dpVars
  <2>2. CASE recv_raise \/ recv_end \/ serve_close
    BY <2>2, Zenon DEF recv_raise, recv_end, serve_close, _deactivate
  <2>3. CASE hello_handler
    <3>1. Handling("hello", {"handshake"}) /\ (UNCHANGED state \/ state' = "config")
      BY <2>3, Zenon DEF hello_handler
    <3>. QED BY <3>1, Zenon DEF Handling
  <2>4. CASE switch_features_handler \/ multipart_reply_handler
    <3>1. state = "config" /\ state' \in {state, "main"}
      BY <2>4, Zenon DEF switch_features_handler, multipart_reply_handler, Handling
    <3>. QED BY <3>1, Zenon
  <2>5. CASE echo_request_handler \/ no_handler
    BY <2>5, Zenon DEF echo_request_handler, no_handler
  <2>6. CASE serve_kill
    BY <2>6, Zenon DEF serve_kill, _send_loop_finally, _deactivate, dpVars, TypeOK
  <2>. QED BY <1>1, <2>1, <2>2, <2>3, <2>4, <2>5, <2>6, Zenon DEF Serve
<1>2. CASE Send
  BY <1>2, Zenon DEF Send, send_start, send_get, send_done, send_error, _send_loop_test, _send_loop_finally,
     _deactivate, dpVars
<1>3. CASE Switch
  BY <1>3, SwitchKeeps, Zenon DEF dpVars
<1>4. CASE close \/ UNCHANGED vars
  BY <1>4, Zenon DEF close, _deactivate, vars, dpVars
<1>5. ASSUME NEW g \in Greenlets, Unblock(g) PROVE UNCHANGED state
  BY <1>5, Zenon DEF Unblock, dpVars
<1>6. ASSUME NEW s \in Senders, app_send(s) PROVE UNCHANGED state
  BY <1>6, Zenon DEF app_send, dpVars
<1>. QED BY <1>1, <1>2, <1>3, <1>4, <1>5, <1>6, Zenon DEF Next

LEMMA AcceptStep ==
    ASSUME TypeOK, [Next]_vars
    PROVE  Promise!Accept
<1>. USE DEF Promise!Accept
<1>0. ASSUME NEW g, NEW m \in Messages, send(g, m) PROVE Promise!Accept
  BY <1>0, SendPuts, Zenon DEF Put
<1>1. CASE Serve
  <2>1. CASE serve_start \/ hello_handler_request \/ echo_request_handler
    <3>1. \E k \in Kinds : send("serve", Reply(k))
      BY <2>1, Zenon DEF serve_start, hello_handler_request, echo_request_handler, Kinds
    <3>. QED BY <1>0, <3>1, ReplyIsMessage, Zenon
  <2>2. CASE recv \/ recv_raise \/ recv_end \/ serve_close \/ multipart_reply_handler \/ no_handler
    BY <2>2, Zenon DEF recv, recv_raise, recv_end, serve_close, multipart_reply_handler, no_handler, qVars
  <2>3. CASE hello_handler
    <3>1. (\E k \in Kinds : send("serve", Reply(k))) \/ UNCHANGED qVars
      BY <2>3, Zenon DEF hello_handler, Kinds
    <3>. QED BY <1>0, <3>1, ReplyIsMessage, Zenon DEF qVars
  <2>4. CASE switch_features_handler
    <3>1. (\E k \in Kinds : send("serve", Reply(k))) \/ UNCHANGED qVars
      BY <2>4, Zenon DEF switch_features_handler, Kinds
    <3>. QED BY <1>0, <3>1, ReplyIsMessage, Zenon DEF qVars
  <2>5. CASE serve_kill
    BY <2>5, Zenon DEF serve_kill, _send_loop_finally, qVars, TypeOK
  <2>. QED BY <1>1, <2>1, <2>2, <2>3, <2>4, <2>5, Zenon DEF Serve
<1>2. CASE Send
  BY <1>2, Zenon DEF Send, send_start, send_get, send_done, send_error, _send_loop_test, _send_loop_finally, qVars
<1>3. CASE Switch
  BY <1>3, SwitchKeeps, Zenon DEF qVars
<1>4. CASE close \/ UNCHANGED vars
  BY <1>4, Zenon DEF close, vars, qVars
<1>5. ASSUME NEW g \in Greenlets, Unblock(g) PROVE Promise!Accept
  <2>1. blocked[g] \in Messages
    BY <1>5, Zenon DEF Unblock, TypeOK
  <2>. QED BY <1>5, <2>1, Zenon DEF Unblock
<1>6. ASSUME NEW s \in Senders, app_send(s) PROVE Promise!Accept
  BY <1>0, <1>6, AppMessage, Zenon DEF app_send
<1>. QED BY <1>1, <1>2, <1>3, <1>4, <1>5, <1>6, Zenon DEF Next

LEMMA DeliverStep ==
    ASSUME TypeOK, Life, Fifo, [Next]_vars
    PROVE  Promise!Deliver
<1>. USE DEF Promise!Deliver
<1>1. CASE Serve
  BY <1>1, Zenon DEF Serve, serve_start, recv, recv_raise, recv_end, hello_handler, hello_handler_request,
     switch_features_handler, multipart_reply_handler, echo_request_handler, no_handler, serve_kill,
     serve_close, Handling
<1>2. CASE send_start \/ send_get \/ send_error
  BY <1>2, Zenon DEF send_start, send_get, send_error
<1>3. CASE send_done /\ ~ link
  BY <1>3, Zenon DEF send_done
<1>4. CASE send_done /\ link
  <2>1. sender = "sending" /\ wire' = Append(wire, buf) /\ late' = IF state = "dead" THEN late + 1 ELSE late
    BY <1>4, Zenon DEF send_done
  <2>2. Len(log) = Len(wire) + 1 + Len(sendQ) /\ log[Len(wire) + 1] = buf
    BY <1>4, <2>1, Zenon DEF Fifo, InHand
  <2>3. Len(wire) \in Nat /\ Len(sendQ) \in Nat
    BY DEF TypeOK
  <2>4. late = 0
    BY <2>1, Zenon DEF Life
  <2>. QED BY <2>1, <2>2, <2>3, <2>4
<1>5. CASE Switch
  BY <1>5, SwitchKeeps, Zenon
<1>6. CASE close \/ UNCHANGED vars
  BY <1>6, Zenon DEF close, vars
<1>7. ASSUME NEW g \in Greenlets, Unblock(g) PROVE UNCHANGED <<wire, late>>
  BY <1>7, Zenon DEF Unblock
<1>8. ASSUME NEW s \in Senders, app_send(s) PROVE UNCHANGED <<wire, late>>
  BY <1>8, Zenon DEF app_send
<1>. QED BY <1>1, <1>2, <1>3, <1>4, <1>5, <1>6, <1>7, <1>8, Zenon DEF Next, Send

\* A connection keeps the promises of module Connection: its life cycle, the
\* order of delivery, and at most one message after DEAD.
THEOREM DatapathKeepsItsPromise == Spec => Implements
<1>1. Init => Promise!Init
  BY Zenon DEF Init, Promise!Init
<1>2. IInv /\ [Next]_vars => [Promise!Next]_(Promise!vars)
  BY AdvanceStep, AcceptStep, DeliverStep, Zenon DEF IInv, Promise!Next
<1>. QED BY <1>1, <1>2, Invariance, PTL DEF Spec, Implements, Promise!Spec
====
