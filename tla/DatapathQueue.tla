--------------------------- MODULE DatapathQueue ----------------------------
(***************************************************************************)
(* Every step of a connection keeps the types, the life of its greenlets,  *)
(* the order of the queue and the numbers of the applications' messages.   *)
(***************************************************************************)
EXTENDS DatapathInv

-----------------------------------------------------------------------------
(***************************************************************************)
(* Positions in a sequence.                                                *)
(***************************************************************************)

LEMMA NextPosition ==
    ASSUME NEW n \in Nat
    PROVE  /\ n + 1 \in 1 .. n + 1
           /\ \A i \in 1 .. n : i \in 1 .. n + 1
           /\ \A i \in 1 .. n + 1 : i = n + 1 \/ i \in 1 .. n
           /\ \A i : i = n + 1 => \A j \in 1 .. i - 1 : j \in 1 .. n
OBVIOUS

LEMMA EarlierPosition ==
    ASSUME NEW n \in Nat, NEW i \in 1 .. n
    PROVE  /\ \A j \in 1 .. i : j \in 1 .. n
           /\ \A j \in 1 .. i - 1 : j \in 1 .. i
OBVIOUS

LEMMA LastPosition ==
    ASSUME NEW b \in Nat \ {0}
    PROVE  /\ b \in 1 .. b
           /\ \A k \in 1 .. b : k = b \/ k \in 1 .. b - 1
           /\ \A k \in 1 .. b - 1 : k < b /\ k \in 1 .. b
OBVIOUS

-----------------------------------------------------------------------------
(***************************************************************************)
(* The version that is negotiated.                                         *)
(***************************************************************************)

LEMMA HighestOfVersions ==
    ASSUME NEW S \in SUBSET _versions, S # {}
    PROVE  Highest(S) \in S /\ \A w \in S : w <= Highest(S)
<1>1. \E v \in S : \A w \in S : w <= v
  <2>1. CASE 6 \in S
    BY <2>1 DEF _versions
  <2>2. CASE 6 \notin S /\ 5 \in S
    BY <2>2 DEF _versions
  <2>3. CASE 6 \notin S /\ 5 \notin S /\ 4 \in S
    BY <2>3 DEF _versions
  <2>4. CASE 6 \notin S /\ 5 \notin S /\ 4 \notin S /\ 3 \in S
    BY <2>4 DEF _versions
  <2>5. CASE S = {1}
    BY <2>5
  <2>. QED BY <2>1, <2>2, <2>3, <2>4, <2>5, Zenon DEF _versions
<1>. QED BY <1>1, Zenon DEF Highest

\* The handler sets a version the controller supports, or none.
LEMMA VersionIsSupported ==
    ASSUME NEW n \in Nat
    PROVE  VersionChosen(Supported, [version |-> n, elements |-> {}]) \in Supported \cup {NoVersion}
<1>. DEFINE h == [version |-> n, elements |-> {}]
            U == usable_versions(Supported, h)
<1>1. U \in SUBSET Supported /\ U \in SUBSET _versions
  BY ConstantsAssumption, Zenon DEF usable_versions
<1>2. U # {} => Highest(U) \in Supported
  <2>. HIDE DEF U
  <2>. QED BY <1>1, HighestOfVersions, Zenon
<1>. HIDE DEF h
<1>3. VersionChosen(Supported, h) \in {Highest(U), NoVersion} /\ (U = {} => VersionChosen(Supported, h) = NoVersion)
  BY Zenon DEF VersionChosen
<1>. HIDE DEF U
<1>. QED BY <1>2, <1>3, Zenon DEF h

-----------------------------------------------------------------------------
(***************************************************************************)
(* Types, in parts: the queue, the datapath, the greenlets, the peer.      *)
(***************************************************************************)

QType ==
    /\ qref \in BOOLEAN
    /\ sendQ \in Seq(Messages) /\ Len(sendQ) <= SendCap
    /\ blocked \in [Greenlets -> Messages \cup {None}]
    /\ log \in Seq(Messages)

DpType ==
    /\ state \in {"handshake", "config", "main", "dead"}
    /\ version \in Supported \cup {NoVersion}
    /\ ports \in 0 .. Parts
    /\ known \in BOOLEAN /\ closeReq \in BOOLEAN /\ sendActive \in BOOLEAN

RunType ==
    /\ serve \in {"start", "recv", "posting", "request", "ended", "killed", "closed"}
    /\ cur \in Incoming \cup {NoMessage}
    /\ sender \in {"new", "get", "sending", "done"}
    /\ buf \in Messages \cup {None}
    /\ sends \in [Senders -> 0 .. MaxSends]
    /\ wire \in Seq(Messages)
    /\ late \in Nat

PeerType ==
    /\ link \in BOOLEAN
    /\ inbox \in Seq(Incoming)
    /\ switch \in [hello : 0 .. MaxHellos, features : 0 .. 1, ports : 0 .. Parts, echo : 0 .. MaxEchoes]

LEMMA TypeParts == TypeOK <=> QType /\ DpType /\ RunType /\ PeerType
BY Zenon DEF TypeOK, QType, DpType, RunType, PeerType

LEMMA TypePartsNext == TypeOK' <=> QType' /\ DpType' /\ RunType' /\ PeerType'
BY Zenon DEF TypeOK, QType, DpType, RunType, PeerType

LEMMA SendType ==
    ASSUME QType, NEW g \in Greenlets, NEW m \in Messages, send(g, m)
    PROVE  QType'
<1>. USE ConstantsAssumption
<1>1. CASE ~ qref
  BY <1>1, Zenon DEF QType, send
<1>2. CASE qref /\ Len(sendQ) < SendCap
  <2>1. sendQ' = Append(sendQ, m) /\ log' = Append(log, m) /\ UNCHANGED <<qref, blocked>>
    BY <1>2, Zenon DEF send
  <2>2. sendQ' \in Seq(Messages) /\ Len(sendQ') = Len(sendQ) + 1 /\ log' \in Seq(Messages)
    BY <2>1, Appended, Zenon DEF QType
  <2>. QED BY <1>2, <2>1, <2>2 DEF QType
<1>3. CASE qref /\ ~ (Len(sendQ) < SendCap)
  BY <1>3, Zenon DEF QType, send
<1>. QED BY <1>1, <1>2, <1>3, Zenon

LEMMA FinallyType ==
    ASSUME QType, DpType, RunType, _send_loop_finally
    PROVE  QType' /\ DpType' /\ sender' = "done" /\ buf' = None
<1>1. Len(<<>>) = 0 /\ <<>> \in Seq(Messages) /\ 0 <= SendCap
  BY ConstantsAssumption
<1>2. QType'
  BY <1>1, Zenon DEF QType, _send_loop_finally
<1>3. DpType'
  BY Zenon DEF DpType, _send_loop_finally, _deactivate
<1>. QED BY <1>2, <1>3, Zenon DEF _send_loop_finally

LEMMA TestType ==
    ASSUME QType, DpType, RunType, _send_loop_test
    PROVE  QType' /\ DpType' /\ sender' \in {"get", "done"} /\ buf' = None
<1>1. CASE sendActive
  BY <1>1, Zenon DEF _send_loop_test, QType, DpType, qVars, dpVars
<1>2. CASE ~ sendActive
  BY <1>2, FinallyType, Zenon DEF _send_loop_test
<1>. QED BY <1>1, <1>2, Zenon

LEMMA SendingTypes ==
    ASSUME TypeOK, Life, Send
    PROVE  TypeOK'
<1>. USE TypeParts, TypePartsNext, ConstantsAssumption
<1>1. CASE send_start
  <2>1. QType' /\ DpType' /\ sender' \in {"get", "done"} /\ buf' = None
    BY <1>1, TestType, Zenon DEF send_start
  <2>2. UNCHANGED <<serve, cur, link, inbox, switch, sends, wire, late>>
    BY <1>1, Zenon DEF send_start, peerVars
  <2>. QED BY <2>1, <2>2, Zenon DEF RunType, PeerType
<1>2. CASE send_get
  <2>1. sendQ \in Seq(Messages) /\ sendQ # <<>>
    BY <1>2, Zenon DEF send_get, QType
  <2>2. Head(sendQ) \in Messages /\ Tail(sendQ) \in Seq(Messages) /\ Len(Tail(sendQ)) <= Len(sendQ)
    BY <2>1
  <2>3. QType'
    BY <1>2, <2>2 DEF send_get, QType
  <2>4. DpType' /\ PeerType'
    BY <1>2, Zenon DEF send_get, DpType, PeerType, dpVars, peerVars
  <2>5. RunType'
    BY <1>2, <2>2, Zenon DEF send_get, RunType
  <2>. QED BY <2>3, <2>4, <2>5, Zenon
<1>3. CASE send_done
  <2>1. QType' /\ DpType' /\ sender' \in {"get", "done"} /\ buf' = None
    BY <1>3, TestType, Zenon DEF send_done
  <2>2. UNCHANGED <<serve, cur, link, inbox, switch, sends>>
    BY <1>3, Zenon DEF send_done, peerVars
  <2>3. wire' \in Seq(Messages) /\ late' \in Nat
    <3>1. CASE link
      <4>1. wire' = Append(wire, buf) /\ late' = (IF state = "dead" THEN late + 1 ELSE late)
        BY <1>3, <3>1, Zenon DEF send_done
      <4>2. wire \in Seq(Messages) /\ buf \in Messages /\ late \in Nat
        BY <1>3, Zenon DEF send_done, RunType, Life
      <4>. QED BY <4>1, <4>2, Appended
    <3>2. CASE ~ link
      BY <1>3, <3>2, Zenon DEF send_done, RunType
    <3>. QED BY <3>1, <3>2, Zenon
  <2>. QED BY <2>1, <2>2, <2>3, Zenon DEF RunType, PeerType
<1>4. CASE send_error
  <2>1. QType' /\ DpType' /\ sender' = "done" /\ buf' = None
    BY <1>4, FinallyType, Zenon DEF send_error
  <2>2. UNCHANGED <<serve, cur, link, inbox, switch, sends, wire, late>>
    BY <1>4, Zenon DEF send_error, peerVars
  <2>. QED BY <2>1, <2>2, Zenon DEF RunType, PeerType
<1>. QED BY <1>1, <1>2, <1>3, <1>4, Zenon DEF Send

\* A reply of the serving greenlet is put on the queue.
LEMMA ReplyType ==
    ASSUME QType, NEW k \in Kinds, send("serve", Reply(k))
    PROVE  QType'
BY ReplyIsMessage, ServeIsGreenlet, SendType, Zenon

LEMMA HandlingType ==
    ASSUME RunType, PeerType, NEW k, NEW S, Handling(k, S), serve' \in {"recv", "request"}
    PROVE  RunType' /\ PeerType' /\ UNCHANGED <<known, closeReq, sendActive>>
BY Zenon DEF Handling, RunType, PeerType, peerVars

LEMMA HandlerTypes ==
    ASSUME TypeOK, PortsInv,
           \/ hello_handler \/ switch_features_handler \/ multipart_reply_handler
           \/ echo_request_handler \/ no_handler
    PROVE  TypeOK'
<1>. USE TypeParts, TypePartsNext
<1>1. CASE hello_handler
  <2>. DEFINE v == VersionChosen(Supported, [version |-> cur.n, elements |-> {}])
  <2>1. Handling("hello", {"handshake"}) /\ UNCHANGED ports
    BY <1>1, Zenon DEF hello_handler
  <2>2. cur.n \in Nat
    BY <2>1 DEF Handling, RunType, Incoming, NoMessage
  <2>3. v \in Supported \cup {NoVersion}
    BY <2>2, VersionIsSupported, Zenon
  <2>4. \/ send("serve", Reply("hello_failed")) /\ serve' = "recv" /\ UNCHANGED <<state, version>>
        \/ version' = v /\ state' = "config" /\ serve' = "request" /\ UNCHANGED qVars
    BY <1>1, Zenon DEF hello_handler
  <2>. HIDE DEF v
  <2>5. QType'
    BY <2>4, ReplyType, Zenon DEF Kinds, QType, qVars
  <2>6. RunType' /\ PeerType' /\ UNCHANGED <<known, closeReq, sendActive>>
    BY <2>1, <2>4, HandlingType, Zenon
  <2>7. DpType'
    BY <2>1, <2>3, <2>4, <2>6, Zenon DEF DpType
  <2>. QED BY <2>5, <2>6, <2>7, Zenon
<1>2. CASE switch_features_handler
  <2>1. /\ Handling("features", {"config"}) /\ serve' = "recv" /\ UNCHANGED version
        /\ \/ ports' = Parts /\ state' = "main" /\ UNCHANGED qVars
           \/ ports' = 0 /\ send("serve", Reply("port_desc_request")) /\ UNCHANGED state
    BY <1>2, Zenon DEF switch_features_handler
  <2>2. QType'
    BY <2>1, ReplyType, Zenon DEF Kinds, QType, qVars
  <2>3. RunType' /\ PeerType' /\ UNCHANGED <<known, closeReq, sendActive>>
    BY <2>1, HandlingType, Zenon
  <2>4. DpType'
    BY <2>1, <2>3, ConstantsAssumption DEF DpType
  <2>. QED BY <2>2, <2>3, <2>4, Zenon
<1>3. CASE multipart_reply_handler
  <2>1. /\ Handling("ports", {"config"}) /\ serve' = "recv" /\ ports' = ports + 1
        /\ state' \in {"main", state} /\ UNCHANGED <<version, qVars>>
    BY <1>3, Zenon DEF multipart_reply_handler
  <2>2. QType'
    BY <2>1, Zenon DEF QType, qVars
  <2>3. RunType' /\ PeerType' /\ UNCHANGED <<known, closeReq, sendActive>>
    BY <2>1, HandlingType, Zenon
  <2>4. ports + 1 \in 0 .. Parts
    <3>1. serve = "posting" /\ cur.kind = "ports" /\ state = "config"
      BY <2>1, Zenon DEF Handling, ServeAt
    <3>2. cur.n = ports + 1 /\ cur.n \in 1 .. switch.ports
      BY <3>1, Zenon DEF PortsInv, HandlingPorts
    <3>3. switch.ports \in 0 .. Parts
      BY Zenon DEF PeerType
    <3>. QED BY <3>2, <3>3, ConstantsAssumption
  <2>5. DpType'
    BY <2>1, <2>3, <2>4, Zenon DEF DpType
  <2>. QED BY <2>2, <2>3, <2>5, Zenon
<1>4. CASE echo_request_handler
  <2>1. /\ \E S : Handling("echo", S)
        /\ serve' = "recv" /\ send("serve", Reply("echo_reply")) /\ UNCHANGED <<state, version, ports>>
    BY <1>4, Zenon DEF echo_request_handler
  <2>2. QType'
    BY <2>1, ReplyType, Zenon DEF Kinds
  <2>3. RunType' /\ PeerType' /\ UNCHANGED <<known, closeReq, sendActive>>
    BY <2>1, HandlingType, Zenon
  <2>4. DpType'
    BY <2>1, <2>3, Zenon DEF DpType
  <2>. QED BY <2>2, <2>3, <2>4, Zenon
<1>5. CASE no_handler
  <2>1. /\ \E k, S : Handling(k, S)
        /\ serve' = "recv" /\ UNCHANGED <<state, version, ports, qVars>>
    BY <1>5, Zenon DEF no_handler
  <2>2. QType'
    BY <2>1, Zenon DEF QType, qVars
  <2>3. RunType' /\ PeerType' /\ UNCHANGED <<known, closeReq, sendActive>>
    BY <2>1, HandlingType, Zenon
  <2>4. DpType'
    BY <2>1, <2>3, Zenon DEF DpType
  <2>. QED BY <2>2, <2>3, <2>4, Zenon
<1>. QED BY <1>1, <1>2, <1>3, <1>4, <1>5, Zenon

LEMMA ServingTypes ==
    ASSUME TypeOK,
           \/ serve_start \/ hello_handler_request \/ recv \/ recv_raise \/ recv_end
           \/ serve_kill \/ serve_close \/ close
    PROVE  TypeOK'
<1>. USE TypeParts, TypePartsNext
<1>1. CASE serve_start \/ hello_handler_request
  <2>1. /\ \E k \in Kinds : send("serve", Reply(k))
        /\ serve' = "recv" /\ UNCHANGED <<dpVars, cur, sender, buf, peerVars, sends, wire, late>>
    BY <1>1, Zenon DEF serve_start, hello_handler_request, Kinds
  <2>2. QType'
    BY <2>1, ReplyType, Zenon
  <2>3. DpType' /\ RunType' /\ PeerType'
    BY <2>1 DEF DpType, RunType, PeerType, dpVars, peerVars
  <2>. QED BY <2>2, <2>3, Zenon
<1>2. CASE recv
  <2>1. inbox \in Seq(Incoming) /\ inbox # <<>>
    BY <1>2, Zenon DEF recv, PeerType
  <2>2. Head(inbox) \in Incoming /\ Tail(inbox) \in Seq(Incoming)
    BY <2>1
  <2>3. QType'
    BY <1>2, Zenon DEF recv, QType, qVars
  <2>4. DpType'
    BY <1>2, Zenon DEF recv, DpType
  <2>5. RunType' /\ PeerType'
    BY <1>2, <2>2, Zenon DEF recv, RunType, PeerType
  <2>. QED BY <2>3, <2>4, <2>5, Zenon
<1>3. CASE recv_raise
  <2>1. inbox \in Seq(Incoming) /\ inbox # <<>>
    BY <1>3, Zenon DEF recv_raise, PeerType
  <2>2. Tail(inbox) \in Seq(Incoming)
    BY <2>1
  <2>3. QType' /\ DpType'
    BY <1>3, Zenon DEF recv_raise, _deactivate, QType, DpType, qVars
  <2>4. RunType' /\ PeerType'
    BY <1>3, <2>2, Zenon DEF recv_raise, RunType, PeerType
  <2>. QED BY <2>3, <2>4, Zenon
<1>4. CASE recv_end
  <2>1. <<>> \in Seq(Incoming)
    OBVIOUS
  <2>2. QType' /\ DpType'
    BY <1>4, Zenon DEF recv_end, _deactivate, QType, DpType, qVars
  <2>3. RunType' /\ PeerType'
    BY <1>4, <2>1, Zenon DEF recv_end, RunType, PeerType
  <2>. QED BY <2>2, <2>3, Zenon
<1>5. CASE serve_kill
  <2>1. QType' /\ DpType' /\ sender' = "done" /\ buf' \in {None, buf}
    <3>1. CASE sender \in {"get", "sending"}
      BY <1>5, <3>1, FinallyType, Zenon DEF serve_kill
    <3>2. CASE sender \in {"new", "done"}
      BY <1>5, <3>2, ZenonT(30) DEF serve_kill, QType, DpType, qVars, dpVars
    <3>. QED BY <3>1, <3>2, Zenon DEF RunType
  <2>2. serve' = "killed" /\ UNCHANGED <<cur, link, inbox, switch, sends, wire, late>>
    BY <1>5, Zenon DEF serve_kill, peerVars
  <2>. QED BY <2>1, <2>2, Zenon DEF RunType, PeerType
<1>6. CASE serve_close \/ close
  <2>1. QType' /\ DpType'
    BY <1>6, Zenon DEF serve_close, close, _deactivate, QType, DpType, qVars
  <2>2. RunType' /\ PeerType'
    BY <1>6, Zenon DEF serve_close, close, RunType, PeerType, peerVars
  <2>. QED BY <2>1, <2>2, Zenon
<1>. QED BY <1>1, <1>2, <1>3, <1>4, <1>5, <1>6, Zenon

LEMMA UnblockTypes ==
    ASSUME TypeOK, NEW g \in Greenlets, Unblock(g)
    PROVE  TypeOK'
<1>. USE TypeParts, TypePartsNext
<1>1. blocked[g] \in Messages
  BY Zenon DEF Unblock, QType
<1>2. sendQ' \in Seq(Messages) /\ Len(sendQ') = Len(sendQ) + 1 /\ log' \in Seq(Messages)
  BY <1>1, Appended, Zenon DEF Unblock, QType
<1>3. QType'
  BY <1>2, ConstantsAssumption DEF Unblock, QType
<1>4. DpType' /\ RunType' /\ PeerType'
  BY DEF Unblock, DpType, RunType, PeerType, dpVars, peerVars
<1>. QED BY <1>3, <1>4, Zenon

LEMMA AppTypes ==
    ASSUME TypeOK, NEW s \in Senders, app_send(s)
    PROVE  TypeOK'
<1>. USE TypeParts, TypePartsNext
<1>1. QType'
  BY AppMessage, SendType, ServeIsGreenlet, Zenon DEF app_send
<1>2. sends' \in [Senders -> 0 .. MaxSends]
  BY AppMessage, Zenon DEF app_send, RunType
<1>3. DpType' /\ RunType' /\ PeerType'
  BY <1>2 DEF app_send, DpType, RunType, PeerType, dpVars, peerVars
<1>. QED BY <1>1, <1>3, Zenon

LEMMA SwitchTypes ==
    ASSUME TypeOK, Switch
    PROVE  TypeOK'
<1>. USE TypeParts, TypePartsNext, ConstantsAssumption
<1>1. UNCHANGED <<dpVars, qVars, serve, cur, sender, buf, sends, wire, late>>
  BY SwitchKeeps, Zenon
<1>2. QType' /\ DpType' /\ RunType'
  BY <1>1 DEF QType, DpType, RunType, qVars, dpVars
<1>3. inbox' \in Seq(Incoming) /\ link' \in BOOLEAN
  <2>1. CASE LinkDown
    <3>1. PICK n \in 0 .. Len(inbox) : inbox' = SubSeq(inbox, 1, n)
      BY <2>1, Zenon DEF LinkDown
    <3>2. SubSeq(inbox, 1, n) \in Seq(Incoming)
      BY SMTT(30) DEF PeerType
    <3>. QED BY <2>1, <3>1, <3>2, Zenon DEF LinkDown
  <2>2. ASSUME NEW k \in {"hello", "features", "ports", "echo"}, NEW n \in Nat, Sends(k, n)
        PROVE  inbox' \in Seq(Incoming) /\ link' \in BOOLEAN
    <3>1. [kind |-> k, n |-> n] \in Incoming
      BY Zenon DEF Incoming
    <3>. QED BY <2>2, <3>1, Appended, Zenon DEF Sends, PeerType
  <2>3. SwitchPorts => switch.ports + 1 \in Nat
    BY DEF PeerType
  <2>. QED BY <2>1, <2>2, <2>3, Zenon DEF Switch, SwitchHello, SwitchFeatures, SwitchPorts, SwitchEcho
<1>4. switch' \in [hello : 0 .. MaxHellos, features : 0 .. 1, ports : 0 .. Parts, echo : 0 .. MaxEchoes]
  <2>. DEFINE R == [hello : 0 .. MaxHellos, features : 0 .. 1, ports : 0 .. Parts, echo : 0 .. MaxEchoes]
  <2>0. /\ switch \in R
        /\ switch.hello \in 0 .. MaxHellos /\ switch.features \in 0 .. 1
        /\ switch.ports \in 0 .. Parts /\ switch.echo \in 0 .. MaxEchoes
    BY Zenon DEF PeerType
  <2>1. CASE SwitchHello
    <3>1. switch' = [switch EXCEPT !.hello = @ + 1]
      BY <2>1, Zenon DEF SwitchHello, Sends
    <3>2. switch.hello < MaxHellos
      BY <2>1, Zenon DEF SwitchHello
    <3>. QED BY <2>0, <3>1, <3>2
  <2>2. CASE SwitchFeatures
    <3>1. switch' = [switch EXCEPT !.features = @ + 1]
      BY <2>2, Zenon DEF SwitchFeatures, Sends
    <3>2. switch.features = 0
      BY <2>2, Zenon DEF SwitchFeatures
    <3>. QED BY <2>0, <3>1, <3>2
  <2>3. CASE SwitchPorts
    <3>1. switch' = [switch EXCEPT !.ports = @ + 1]
      BY <2>3, Zenon DEF SwitchPorts, Sends
    <3>2. switch.ports < Parts
      BY <2>3, Zenon DEF SwitchPorts
    <3>. QED BY <2>0, <3>1, <3>2
  <2>4. CASE SwitchEcho
    <3>1. switch' = [switch EXCEPT !.echo = @ + 1]
      BY <2>4, Zenon DEF SwitchEcho, Sends
    <3>2. switch.echo < MaxEchoes
      BY <2>4, Zenon DEF SwitchEcho
    <3>. QED BY <2>0, <3>1, <3>2
  <2>5. CASE LinkDown
    BY <2>5, Zenon DEF LinkDown, PeerType
  <2>. QED BY <2>1, <2>2, <2>3, <2>4, <2>5, Zenon DEF Switch
<1>. QED BY <1>2, <1>3, <1>4, Zenon DEF PeerType

LEMMA TypeStep ==
    ASSUME TypeOK, Life, PortsInv, [Next]_vars
    PROVE  TypeOK'
<1>1. CASE Next
  <2>1. CASE Serve
    BY <2>1, ServingTypes, HandlerTypes, Zenon DEF Serve
  <2>2. CASE Send
    BY <2>2, SendingTypes, Zenon
  <2>3. CASE Switch
    BY <2>3, SwitchTypes, Zenon
  <2>4. CASE close
    BY <2>4, ServingTypes, Zenon
  <2>. QED BY <1>1, <2>1, <2>2, <2>3, <2>4, UnblockTypes, AppTypes, Zenon DEF Next
<1>2. CASE UNCHANGED vars
  BY <1>2 DEF TypeOK, vars, dpVars, qVars, peerVars
<1>. QED BY <1>1, <1>2, Zenon

-----------------------------------------------------------------------------
(***************************************************************************)
(* The life of the connection.                                             *)
(***************************************************************************)

\* The steps that leave the sending greenlet and what it sent alone.
LEMMA LifeKept ==
    ASSUME Life, UNCHANGED <<sender, buf, qref, wire, late>>,
           state' = "dead" => ~ sendActive',
           state' \in {"config", "main"} => version' # NoVersion,
           serve' \in {"killed", "closed"} => serve \in {"killed", "closed"}
    PROVE  Life'
BY Zenon DEF Life

LEMMA LifeSend ==
    ASSUME TypeOK, Life, Send
    PROVE  Life'
<1>1. CASE send_get
  <2>1. sendQ \in Seq(Messages) /\ sendQ # <<>>
    BY <1>1, Zenon DEF send_get, TypeOK
  <2>2. Head(sendQ) \in Messages
    BY <2>1
  <2>. QED BY <1>1, <2>2, NoneAssumption, Zenon DEF send_get, Life, dpVars
<1>2. CASE send_start
  BY <1>2, Zenon DEF send_start, _send_loop_test, _send_loop_finally, _deactivate, Life, dpVars, qVars
<1>3. CASE send_error
  BY <1>3, Zenon DEF send_error, _send_loop_finally, _deactivate, Life
<1>4. CASE send_done
  <2>1. CASE sendActive
    <3>1. state # "dead"
      BY <2>1, Zenon DEF Life
    <3>2. late' = late
      BY <1>4, <3>1, Zenon DEF send_done
    <3>. QED BY <1>4, <2>1, <3>2, Zenon DEF send_done, _send_loop_test, Life, dpVars, qVars
  <2>2. CASE ~ sendActive
    <3>1. late = 0 /\ late' \in {0, 1}
      BY <1>4 DEF send_done, Life
    <3>. QED BY <1>4, <2>2, <3>1, Zenon DEF send_done, _send_loop_test, _send_loop_finally, _deactivate, Life
  <2>. QED BY <2>1, <2>2, Zenon
<1>. QED BY <1>1, <1>2, <1>3, <1>4, Zenon DEF Send

LEMMA LifeServe ==
    ASSUME TypeOK, Life, Serve
    PROVE  Life'
<1>1. CASE serve_start \/ hello_handler_request \/ recv
  BY <1>1, LifeKept DEF Life, serve_start, hello_handler_request, recv, send, dpVars, qVars
<1>2. CASE recv_raise \/ recv_end
  BY <1>2, LifeKept, Zenon DEF recv_raise, recv_end, _deactivate, qVars
<1>3. CASE hello_handler
  <2>1. /\ UNCHANGED <<sender, buf, qref, wire, late, sendActive>> /\ state = "handshake"
        /\ serve' \in {"recv", "request"}
    BY <1>3, Zenon DEF hello_handler, Handling, send, qVars
  <2>2. UNCHANGED <<state, version>> \/ (state' = "config" /\ version' # NoVersion)
    BY <1>3, Zenon DEF hello_handler
  <2>. QED BY <2>1, <2>2, LifeKept, Zenon DEF Life
<1>4. CASE switch_features_handler \/ echo_request_handler
  BY <1>4, LifeKept, Zenon DEF Life, switch_features_handler, echo_request_handler, Handling, send, qVars
<1>5. CASE multipart_reply_handler \/ no_handler
  BY <1>5, LifeKept DEF Life, multipart_reply_handler, no_handler, Handling, qVars
<1>6. CASE serve_kill
  <2>1. CASE sender = "new"
    BY <1>6, <2>1, Zenon DEF serve_kill, Life, dpVars, qVars
  <2>2. CASE sender \in {"get", "sending"}
    BY <1>6, <2>2, Zenon DEF serve_kill, Life, _send_loop_finally, _deactivate
  <2>3. CASE sender = "done"
    BY <1>6, <2>3, Zenon DEF serve_kill, Life, dpVars, qVars
  <2>. QED BY <2>1, <2>2, <2>3, Zenon DEF TypeOK
<1>7. CASE serve_close
  BY <1>7, LifeKept, Zenon DEF serve_close, ServeAt, _deactivate, qVars
<1>. QED BY <1>1, <1>2, <1>3, <1>4, <1>5, <1>6, <1>7, Zenon DEF Serve

LEMMA LifeStep ==
    ASSUME TypeOK, Life, [Next]_vars
    PROVE  Life'
<1>1. CASE Switch
  BY <1>1, SwitchKeeps, LifeKept DEF Life, dpVars, qVars
<1>2. CASE close
  BY <1>2, LifeKept, Zenon DEF close, _deactivate, qVars
<1>3. ASSUME NEW g \in Greenlets, Unblock(g) PROVE Life'
  BY <1>3, LifeKept, Zenon DEF Life, Unblock, dpVars
<1>4. ASSUME NEW s \in Senders, app_send(s) PROVE Life'
  BY <1>4, LifeKept, Zenon DEF Life, app_send, send, dpVars
<1>5. CASE UNCHANGED vars
  BY <1>5, LifeKept, Zenon DEF Life, vars, dpVars, qVars
<1>. QED BY <1>1, <1>2, <1>3, <1>4, <1>5, LifeServe, LifeSend, Zenon DEF Next

-----------------------------------------------------------------------------
(***************************************************************************)
(* The order of delivery.                                                  *)
(***************************************************************************)

LEMMA FifoPut ==
    ASSUME TypeOK, Fifo, NEW m \in Messages, Put(m), UNCHANGED <<wire, link, sender, buf>>
    PROVE  Fifo'
<1>1. /\ log \in Seq(Messages) /\ wire \in Seq(Messages) /\ sendQ \in Seq(Messages)
      /\ Len(log) \in Nat /\ Len(wire) \in Nat /\ Len(sendQ) \in Nat
  BY DEF TypeOK
<1>2. /\ Len(log') = Len(log) + 1 /\ log'[Len(log) + 1] = m
      /\ \A i \in 1 .. Len(log) : log'[i] = log[i]
  BY <1>1, Appended DEF Put
<1>3. /\ Len(sendQ') = Len(sendQ) + 1 /\ sendQ'[Len(sendQ) + 1] = m
      /\ \A i \in 1 .. Len(sendQ) : sendQ'[i] = sendQ[i]
  BY <1>1, Appended DEF Put
<1>4. Len(wire) <= Len(log) /\ \A i \in 1 .. Len(wire) : wire[i] = log[i]
  BY Zenon DEF Fifo
<1>5. Len(wire') <= Len(log') /\ \A i \in 1 .. Len(wire') : wire'[i] = log'[i]
  <2>1. wire' = wire /\ Len(wire) <= Len(log')
    BY <1>1, <1>2, <1>4
  <2>2. \A i \in 1 .. Len(wire) : i \in 1 .. Len(log)
    BY <1>1, <1>4
  <2>. QED BY <1>2, <1>4, <2>1, <2>2, Zenon
<1>6. ASSUME link, sender # "done"
      PROVE  /\ Len(log') = Len(wire) + InHand + Len(sendQ')
             /\ sender = "sending" => log'[Len(wire) + 1] = buf
             /\ \A i \in 1 .. Len(sendQ') : sendQ'[i] = log'[Len(wire) + InHand + i]
  <2>1. /\ Len(log) = Len(wire) + InHand + Len(sendQ)
        /\ sender = "sending" => log[Len(wire) + 1] = buf
        /\ \A i \in 1 .. Len(sendQ) : sendQ[i] = log[Len(wire) + InHand + i]
    BY <1>6, Zenon DEF Fifo
  <2>2. InHand \in {0, 1} /\ (sender = "sending" => InHand = 1)
    BY Zenon DEF InHand
  <2>3. Len(log') = Len(wire) + InHand + Len(sendQ')
    BY <1>1, <1>2, <1>3, <2>1, <2>2
  <2>4. sender = "sending" => log'[Len(wire) + 1] = buf
    BY <1>1, <1>2, <2>1, <2>2
  <2>5. ASSUME NEW i \in 1 .. Len(sendQ') PROVE sendQ'[i] = log'[Len(wire) + InHand + i]
    <3>1. CASE i = Len(sendQ) + 1
      BY <1>1, <1>2, <1>3, <2>1, <2>2, <3>1
    <3>2. CASE i \in 1 .. Len(sendQ)
      <4>1. Len(wire) + InHand + i \in 1 .. Len(log)
        BY <1>1, <2>1, <2>2, <3>2
      <4>. QED BY <1>2, <1>3, <2>1, <3>2, <4>1, Zenon
    <3>. QED BY <1>1, <1>3, <2>5, <3>1, <3>2
  <2>. QED BY <2>3, <2>4, <2>5, Zenon
<1>7. InHand' = InHand
  BY Zenon DEF InHand
<1>. QED BY <1>5, <1>6, <1>7, Zenon DEF Fifo

\* The steps after which the connection is down or the sending greenlet gone.
LEMMA FifoOver ==
    ASSUME Fifo, UNCHANGED <<wire, log>>, ~ link' \/ sender' = "done"
    PROVE  Fifo'
BY Zenon DEF Fifo

LEMMA FifoKept ==
    ASSUME Fifo, UNCHANGED <<wire, log, link, sender, sendQ, buf>>
    PROVE  Fifo'
BY Zenon DEF Fifo, InHand

LEMMA FifoSend ==
    ASSUME TypeOK, Life, Fifo, Send
    PROVE  Fifo'
<1>1. CASE send_start
  <2>1. CASE sendActive
    BY <1>1, <2>1, Zenon DEF send_start, _send_loop_test, Fifo, InHand, qVars, dpVars, peerVars
  <2>2. CASE ~ sendActive
    BY <1>1, <2>2, FifoOver, Zenon DEF send_start, _send_loop_test, _send_loop_finally
  <2>. QED BY <2>1, <2>2, Zenon
<1>2. CASE send_error
  BY <1>2, FifoOver, Zenon DEF send_error, _send_loop_finally
<1>3. CASE send_get
  <2>1. sendQ \in Seq(Messages) /\ sendQ # <<>> /\ Len(sendQ) \in Nat /\ Len(wire) \in Nat
    BY <1>3 DEF send_get, TypeOK
  <2>2. /\ buf' = sendQ[1] /\ Len(sendQ') = Len(sendQ) - 1 /\ Len(sendQ) >= 1
        /\ \A i \in 1 .. Len(sendQ') : sendQ'[i] = sendQ[i + 1]
    BY <1>3, <2>1 DEF send_get
  <2>3. UNCHANGED <<wire, log, link>> /\ sender = "get" /\ sender' = "sending"
    BY <1>3, Zenon DEF send_get, peerVars
  <2>4. InHand = 0 /\ InHand' = 1
    BY <2>3, Zenon DEF InHand
  <2>5. ASSUME link
        PROVE  /\ Len(log) = Len(wire) + 1 + Len(sendQ')
               /\ log[Len(wire) + 1] = buf'
               /\ \A i \in 1 .. Len(sendQ') : sendQ'[i] = log[Len(wire) + 1 + i]
    <3>1. /\ Len(log) = Len(wire) + 0 + Len(sendQ)
          /\ \A i \in 1 .. Len(sendQ) : sendQ[i] = log[Len(wire) + 0 + i]
      BY <2>3, <2>4, <2>5, Zenon DEF Fifo
    <3>2. ASSUME NEW i \in 1 .. Len(sendQ') PROVE sendQ'[i] = log[Len(wire) + 1 + i]
      <4>1. i + 1 \in 1 .. Len(sendQ) /\ Len(wire) + 0 + (i + 1) = Len(wire) + 1 + i
        BY <2>1, <2>2, <3>2
      <4>. QED BY <2>2, <3>1, <3>2, <4>1, Zenon
    <3>. QED BY <2>1, <2>2, <3>1, <3>2
  <2>. QED BY <2>3, <2>4, <2>5, Zenon DEF Fifo
<1>4. CASE send_done
  <2>1. UNCHANGED <<link, log>> /\ sender = "sending" /\ ((sender' = "get" /\ UNCHANGED sendQ) \/ sender' = "done")
    BY <1>4, Zenon DEF send_done, _send_loop_test, _send_loop_finally, qVars, peerVars
  <2>2. CASE ~ link
    BY <1>4, <2>1, <2>2, FifoOver, Zenon DEF send_done
  <2>3. CASE link
    <3>1. /\ wire \in Seq(Messages) /\ Len(wire) \in Nat /\ buf \in Messages
          /\ Len(log) \in Nat /\ Len(sendQ) \in Nat
      BY <2>1, TypeParts, SMTT(30) DEF QType, RunType, Life
    <3>2. /\ Len(wire') = Len(wire) + 1 /\ wire'[Len(wire) + 1] = buf
          /\ \A i \in 1 .. Len(wire) : wire'[i] = wire[i]
      BY <1>4, <2>3, <3>1, Appended DEF send_done
    <3>3. /\ Len(log) = Len(wire) + 1 + Len(sendQ)
          /\ log[Len(wire) + 1] = buf
          /\ \A i \in 1 .. Len(sendQ) : sendQ[i] = log[Len(wire) + 1 + i]
          /\ \A i \in 1 .. Len(wire) : wire[i] = log[i]
      BY <2>1, <2>3, Zenon DEF Fifo, InHand
    <3>4. Len(wire') <= Len(log') /\ \A i \in 1 .. Len(wire') : wire'[i] = log'[i]
      BY <2>1, <3>1, <3>2, <3>3
    <3>5. sender' # "done" =>
            /\ Len(log') = Len(wire') + 0 + Len(sendQ')
            /\ \A i \in 1 .. Len(sendQ') : sendQ'[i] = log'[Len(wire') + 0 + i]
      <4>1. SUFFICES ASSUME sender' # "done"
                     PROVE  /\ Len(log') = Len(wire') + 0 + Len(sendQ')
                            /\ \A i \in 1 .. Len(sendQ') : sendQ'[i] = log'[Len(wire') + 0 + i]
        BY Zenon
      <4>2. sendQ' = sendQ /\ log' = log /\ Len(wire') + 0 = Len(wire) + 1
        BY <2>1, <3>1, <3>2, <4>1
      <4>. QED BY <3>3, <4>2, Zenon
    <3>6. sender' # "sending" /\ InHand' = 0
      BY <2>1, Zenon DEF InHand
    <3>. QED BY <3>4, <3>5, <3>6, Zenon DEF Fifo
  <2>. QED BY <2>2, <2>3, Zenon
<1>. QED BY <1>1, <1>2, <1>3, <1>4, Zenon DEF Send

LEMMA FifoServe ==
    ASSUME TypeOK, Fifo, Serve
    PROVE  Fifo'
<1>1. ASSUME NEW k \in Kinds, send("serve", Reply(k)), UNCHANGED <<wire, link, sender, buf>>
      PROVE  Fifo'
  BY <1>1, SendPuts, ReplyIsMessage, FifoPut, FifoKept, Zenon
<1>2. CASE serve_start \/ hello_handler_request
  BY <1>1, <1>2, Zenon DEF serve_start, hello_handler_request, peerVars, Kinds
<1>3. CASE recv \/ recv_raise
  BY <1>3, FifoKept, Zenon DEF recv, recv_raise, qVars
<1>4. CASE recv_end
  BY <1>4, FifoOver, Zenon DEF recv_end, qVars
<1>5. CASE hello_handler
  <2>1. UNCHANGED <<wire, link, sender, buf>>
    BY <1>5, Zenon DEF hello_handler, Handling, peerVars
  <2>2. send("serve", Reply("hello_failed")) \/ UNCHANGED qVars
    BY <1>5, Zenon DEF hello_handler
  <2>. QED BY <1>1, <2>1, <2>2, FifoKept, Zenon DEF Kinds, qVars
<1>6. CASE switch_features_handler \/ echo_request_handler
  <2>1. UNCHANGED <<wire, link, sender, buf>>
    BY <1>6, Zenon DEF switch_features_handler, echo_request_handler, Handling, peerVars
  <2>2. \/ send("serve", Reply("port_desc_request")) \/ send("serve", Reply("echo_reply"))
        \/ UNCHANGED qVars
    BY <1>6, Zenon DEF switch_features_handler, echo_request_handler
  <2>. QED BY <1>1, <2>1, <2>2, FifoKept, Zenon DEF Kinds, qVars
<1>7. CASE multipart_reply_handler \/ no_handler
  BY <1>7, FifoKept, Zenon DEF multipart_reply_handler, no_handler, Handling, peerVars, qVars
<1>8. CASE serve_kill
  BY <1>8, FifoOver, Zenon DEF serve_kill, _send_loop_finally, qVars, TypeOK
<1>9. CASE serve_close
  BY <1>9, FifoKept, Zenon DEF serve_close, qVars, peerVars
<1>. QED BY <1>2, <1>3, <1>4, <1>5, <1>6, <1>7, <1>8, <1>9, Zenon DEF Serve

LEMMA FifoStep ==
    ASSUME TypeOK, Life, Fifo, [Next]_vars
    PROVE  Fifo'
<1>1. CASE Switch
  <2>1. UNCHANGED <<wire, log, sender, sendQ, buf>>
    BY <1>1, SwitchKeeps, Zenon DEF qVars
  <2>2. ~ link' \/ UNCHANGED link
    BY <1>1, Zenon DEF Switch, SwitchHello, SwitchFeatures, SwitchPorts, SwitchEcho, LinkDown, Sends
  <2>. QED BY <2>1, <2>2, FifoOver, FifoKept, Zenon
<1>2. CASE close
  BY <1>2, FifoKept, Zenon DEF close, qVars, peerVars
<1>3. ASSUME NEW g \in Greenlets, Unblock(g) PROVE Fifo'
  <2>1. blocked[g] \in Messages
    BY <1>3, Zenon DEF Unblock, TypeOK
  <2>. QED BY <1>3, <2>1, FifoPut, Zenon DEF Unblock, Put, peerVars
<1>4. ASSUME NEW s \in Senders, app_send(s) PROVE Fifo'
  <2>. DEFINE m == [by |-> s, kind |-> "app", n |-> sends[s] + 1]
  <2>1. m \in Messages /\ send(s, m) /\ UNCHANGED <<wire, link, sender, buf>>
    BY <1>4, AppMessage, Zenon DEF app_send, peerVars
  <2>. HIDE DEF m
  <2>. QED BY <2>1, SendPuts, FifoPut, FifoKept, Zenon
<1>5. CASE UNCHANGED vars
  BY <1>5, FifoKept, Zenon DEF vars, qVars, peerVars
<1>. QED BY <1>1, <1>2, <1>3, <1>4, <1>5, FifoServe, FifoSend, Zenon DEF Next

-----------------------------------------------------------------------------
(***************************************************************************)
(* What the applications send is accepted in order and without gaps.       *)
(***************************************************************************)

LEMMA NumberedKept ==
    ASSUME NEW s \in Senders, NumberedOf(s), UNCHANGED log,
           blocked'[s] = blocked[s], sends'[s] = sends[s], qref' => qref
    PROVE  NumberedOf(s)'
<1>1. \A b : Accepted(s, b) => Accepted(s, b)'
  BY Zenon DEF Accepted
<1>2. \A i \in 1 .. Len(log') : log'[i].by = s =>
            /\ log'[i].n \in 1 .. sends'[s]
            /\ blocked'[s] # None => log'[i].n < sends'[s]
            /\ \A j \in 1 .. i - 1 : log'[j].by = s => log'[j].n < log'[i].n
            /\ \A k \in 1 .. log'[i].n : \E j \in 1 .. i : log'[j].by = s /\ log'[j].n = k
  BY ZenonT(30) DEF NumberedOf
<1>3. \A b : (\A k \in 1 .. b : \E j \in 1 .. Len(log) : log[j].by = s /\ log[j].n = k)
            => (\A k \in 1 .. b : \E j \in 1 .. Len(log') : log'[j].by = s /\ log'[j].n = k)
  BY <1>1, Zenon DEF Accepted
<1>4. (blocked[s] # None =>
          sends[s] > 0 /\ blocked[s].n = sends[s] /\ Accepted(s, sends[s] - 1))'
  BY <1>3, Zenon DEF NumberedOf, Accepted
<1>5. (qref /\ blocked[s] = None => Accepted(s, sends[s]))'
  BY <1>3, Zenon DEF NumberedOf, Accepted
<1>. QED BY <1>2, <1>4, <1>5, Zenon DEF NumberedOf

\* The log has m as one more entry.
Grown(m) ==
    /\ Len(log) \in Nat /\ Len(log') = Len(log) + 1 /\ log'[Len(log) + 1] = m
    /\ \A i \in 1 .. Len(log) : log'[i] = log[i]

LEMMA AppendedLog ==
    ASSUME log \in Seq(Messages), NEW m \in Messages, log' = Append(log, m)
    PROVE  Grown(m)
BY Appended DEF Grown

\* The messages of s on the log are in order, without gaps, and at most m.
Ordered(s, m) ==
    \A i \in 1 .. Len(log) : log[i].by = s =>
        /\ log[i].n \in 1 .. m
        /\ \A j \in 1 .. i - 1 : log[j].by = s => log[j].n < log[i].n
        /\ \A k \in 1 .. log[i].n : \E j \in 1 .. i : log[j].by = s /\ log[j].n = k

\* A message of another greenlet is accepted.
LEMMA NumberedOther ==
    ASSUME NEW s \in Senders, NumberedOf(s), NEW m \in Messages, Grown(m), m.by # s,
           blocked'[s] = blocked[s], sends'[s] = sends[s], qref' => qref
    PROVE  NumberedOf(s)'
<1>1. /\ Len(log) \in Nat /\ Len(log') = Len(log) + 1 /\ log'[Len(log) + 1] = m
      /\ \A i \in 1 .. Len(log) : log'[i] = log[i]
  BY Zenon DEF Grown
<1>2. ASSUME NEW b, \A k \in 1 .. b : \E j \in 1 .. Len(log) : log[j].by = s /\ log[j].n = k
      PROVE  \A k \in 1 .. b : \E j \in 1 .. Len(log') : log'[j].by = s /\ log'[j].n = k
  <2>1. ASSUME NEW k \in 1 .. b PROVE \E j \in 1 .. Len(log') : log'[j].by = s /\ log'[j].n = k
    <3>1. PICK j \in 1 .. Len(log) : log[j].by = s /\ log[j].n = k
      BY <1>2, Zenon
    <3>. QED BY <1>1, <3>1, NextPosition, Zenon
  <2>. QED BY <2>1, Zenon
<1>3. ASSUME NEW i \in 1 .. Len(log'), log'[i].by = s
      PROVE  /\ log'[i].n \in 1 .. sends'[s]
             /\ blocked'[s] # None => log'[i].n < sends'[s]
             /\ \A j \in 1 .. i - 1 : log'[j].by = s => log'[j].n < log'[i].n
             /\ \A k \in 1 .. log'[i].n : \E j \in 1 .. i : log'[j].by = s /\ log'[j].n = k
  <2>0. i # Len(log) + 1
    BY <1>1, <1>3, Zenon
  <2>1. i \in 1 .. Len(log) /\ log'[i] = log[i] /\ \A j \in 1 .. i : log'[j] = log[j]
    <3>1. i \in 1 .. Len(log)
      BY <1>1, <1>3, <2>0, NextPosition, Zenon
    <3>2. \A j \in 1 .. i : j \in 1 .. Len(log)
      BY <1>1, <3>1, EarlierPosition, Zenon
    <3>. QED BY <1>1, <3>1, <3>2, Zenon
  <2>2. /\ log[i].n \in 1 .. sends[s]
        /\ blocked[s] # None => log[i].n < sends[s]
        /\ \A j \in 1 .. i - 1 : log[j].by = s => log[j].n < log[i].n
        /\ \A k \in 1 .. log[i].n : \E j \in 1 .. i : log[j].by = s /\ log[j].n = k
    BY <1>3, <2>1, Zenon DEF NumberedOf
  <2>3. log'[i].n \in 1 .. sends'[s] /\ (blocked'[s] # None => log'[i].n < sends'[s])
    BY <2>1, <2>2, Zenon
  <2>4. ASSUME NEW j \in 1 .. i - 1, log'[j].by = s PROVE log'[j].n < log'[i].n
    <3>1. log'[j] = log[j]
      BY <1>1, <2>1, <2>4, EarlierPosition, Zenon
    <3>. QED BY <2>1, <2>2, <2>4, <3>1, Zenon
  <2>5. ASSUME NEW k \in 1 .. log'[i].n PROVE \E j \in 1 .. i : log'[j].by = s /\ log'[j].n = k
    <3>1. PICK j \in 1 .. i : log[j].by = s /\ log[j].n = k
      BY <2>1, <2>2, <2>5, Zenon
    <3>. QED BY <2>1, <3>1, Zenon
  <2>. QED BY <2>3, <2>4, <2>5, Zenon
<1>4. (blocked[s] # None =>
          sends[s] > 0 /\ blocked[s].n = sends[s] /\ Accepted(s, sends[s] - 1))'
  BY <1>2, ZenonT(30) DEF NumberedOf, Accepted
<1>5. (qref /\ blocked[s] = None => Accepted(s, sends[s]))'
  BY <1>2, Zenon DEF NumberedOf, Accepted
<1>. QED BY <1>3, <1>4, <1>5, Zenon DEF NumberedOf

\* A message of s itself is accepted, the one after those accepted before.
LEMMA NumberedOwn ==
    ASSUME NEW s \in Senders, NEW m \in Messages, NEW b \in Nat \ {0},
           Grown(m), m.by = s, m.n = b, sends'[s] = b, blocked'[s] = None,
           Accepted(s, b - 1), Ordered(s, b - 1)
    PROVE  NumberedOf(s)'
<1>1. /\ Len(log) \in Nat /\ Len(log') = Len(log) + 1 /\ log'[Len(log) + 1] = m
      /\ \A i \in 1 .. Len(log) : log'[i] = log[i]
  BY Zenon DEF Grown
<1>2. ASSUME NEW k \in 1 .. b
      PROVE  \E j \in 1 .. Len(log) + 1 : log'[j].by = s /\ log'[j].n = k
  <2>1. CASE k = b
    BY <1>1, <2>1, NextPosition, Zenon
  <2>2. CASE k \in 1 .. b - 1
    <3>1. PICK j \in 1 .. Len(log) : log[j].by = s /\ log[j].n = k
      BY <2>2, Zenon DEF Accepted
    <3>. QED BY <1>1, <3>1, NextPosition, Zenon
  <2>. QED BY <1>2, <2>1, <2>2, LastPosition, Zenon
<1>3. ASSUME NEW i \in 1 .. Len(log'), log'[i].by = s
      PROVE  /\ log'[i].n \in 1 .. b
             /\ \A j \in 1 .. i - 1 : log'[j].by = s => log'[j].n < log'[i].n
             /\ \A k \in 1 .. log'[i].n : \E j \in 1 .. i : log'[j].by = s /\ log'[j].n = k
  <2>1. CASE i = Len(log) + 1
    <3>1. log'[i].n = b
      BY <1>1, <2>1, Zenon
    <3>2. ASSUME NEW j \in 1 .. i - 1, log'[j].by = s PROVE log'[j].n < b
      <4>1. j \in 1 .. Len(log) /\ log'[j] = log[j]
        <5>1. j \in 1 .. Len(log)
          BY <1>1, <2>1, <3>2, NextPosition, Zenon
        <5>. QED BY <1>1, <5>1, Zenon
      <4>2. log[j].n \in 1 .. b - 1
        BY <3>2, <4>1, Zenon DEF Ordered
      <4>. QED BY <4>1, <4>2, LastPosition, Zenon
    <3>3. ASSUME NEW k \in 1 .. b PROVE \E j \in 1 .. i : log'[j].by = s /\ log'[j].n = k
      BY <1>2, <2>1, Zenon
    <3>4. b \in 1 .. b
      BY LastPosition, Zenon
    <3>. QED BY <3>1, <3>2, <3>3, <3>4, Zenon
  <2>2. CASE i \in 1 .. Len(log)
    <3>1. log'[i] = log[i] /\ \A j \in 1 .. i : log'[j] = log[j]
      BY <1>1, <2>2, EarlierPosition, Zenon
    <3>2. ASSUME NEW j \in 1 .. i - 1, log'[j].by = s PROVE log'[j].n < log'[i].n
      <4>1. log'[j] = log[j]
        BY <2>2, <3>1, <3>2, <1>1, EarlierPosition, Zenon
      <4>. QED BY <1>3, <2>2, <3>1, <3>2, <4>1, Zenon DEF Ordered
    <3>3. ASSUME NEW k \in 1 .. log'[i].n PROVE \E j \in 1 .. i : log'[j].by = s /\ log'[j].n = k
      <4>1. log[i].by = s /\ k \in 1 .. log[i].n
        BY <1>3, <3>1, <3>3, Zenon
      <4>2. PICK j \in 1 .. i : log[j].by = s /\ log[j].n = k
        BY <2>2, <4>1, Zenon DEF Ordered
      <4>. QED BY <3>1, <4>2, Zenon
    <3>4. log'[i].n \in 1 .. b
      <4>1. log[i].n \in 1 .. b - 1
        BY <1>3, <2>2, <3>1, Zenon DEF Ordered
      <4>. QED BY <3>1, <4>1, LastPosition, Zenon
    <3>. QED BY <3>2, <3>3, <3>4, Zenon
  <2>. QED BY <1>1, <1>3, <2>1, <2>2, NextPosition, Zenon
<1>4. Accepted(s, sends[s])'
  BY <1>1, <1>2, Zenon DEF Accepted
<1>5. \A i \in 1 .. Len(log') : log'[i].by = s =>
            /\ log'[i].n \in 1 .. sends'[s]
            /\ blocked'[s] # None => log'[i].n < sends'[s]
            /\ \A j \in 1 .. i - 1 : log'[j].by = s => log'[j].n < log'[i].n
            /\ \A k \in 1 .. log'[i].n : \E j \in 1 .. i : log'[j].by = s /\ log'[j].n = k
  BY <1>3, Zenon
<1>. QED BY <1>4, <1>5, Zenon DEF NumberedOf

\* The next message of s is not accepted.
LEMMA NumberedHeld ==
    ASSUME NEW s \in Senders, NumberedOf(s), NEW b \in Nat \ {0}, sends[s] = b - 1, blocked[s] = None,
           UNCHANGED log, sends'[s] = b,
           \/ qref /\ blocked'[s] # None /\ blocked'[s].n = b
           \/ ~ qref' /\ blocked'[s] = None
    PROVE  NumberedOf(s)'
<1>1. ASSUME NEW i \in 1 .. Len(log), log[i].by = s
      PROVE  /\ log[i].n \in 1 .. b /\ log[i].n < b
             /\ \A j \in 1 .. i - 1 : log[j].by = s => log[j].n < log[i].n
             /\ \A k \in 1 .. log[i].n : \E j \in 1 .. i : log[j].by = s /\ log[j].n = k
  <2>1. log[i].n \in 1 .. b - 1
    BY <1>1, Zenon DEF NumberedOf
  <2>2. log[i].n \in 1 .. b /\ log[i].n < b
    BY <2>1
  <2>. QED BY <1>1, <2>2, Zenon DEF NumberedOf
<1>2. qref => Accepted(s, b - 1)
  BY Zenon DEF NumberedOf
<1>3. /\ b > 0 /\ log' = log
      /\ qref => \A k \in 1 .. b - 1 : \E j \in 1 .. Len(log') : log'[j].by = s /\ log'[j].n = k
  <2>1. log' = log
    BY Zenon
  <2>2. CASE qref
    <3>1. \A k \in 1 .. b - 1 : \E j \in 1 .. Len(log) : log[j].by = s /\ log[j].n = k
      BY <1>2, <2>2, Zenon DEF Accepted
    <3>. QED BY <2>1, <3>1
  <2>. QED BY <2>1, <2>2
<1>4. \A i \in 1 .. Len(log') : log'[i].by = s =>
            /\ log'[i].n \in 1 .. sends'[s]
            /\ blocked'[s] # None => log'[i].n < sends'[s]
            /\ \A j \in 1 .. i - 1 : log'[j].by = s => log'[j].n < log'[i].n
            /\ \A k \in 1 .. log'[i].n : \E j \in 1 .. i : log'[j].by = s /\ log'[j].n = k
  <2>1. log' = log /\ sends'[s] = b
    BY Zenon
  <2>. DEFINE Q(l, n) ==
            \A i \in 1 .. Len(l) : l[i].by = s =>
                /\ l[i].n \in 1 .. n
                /\ blocked'[s] # None => l[i].n < n
                /\ \A j \in 1 .. i - 1 : l[j].by = s => l[j].n < l[i].n
                /\ \A k \in 1 .. l[i].n : \E j \in 1 .. i : l[j].by = s /\ l[j].n = k
  <2>2. Q(log, b)
    BY <1>1, Zenon
  <2>. HIDE DEF Q
  <2>3. Q(log', sends'[s])
    BY <2>1, <2>2, Zenon
  <2>. QED BY <2>3, Zenon DEF Q
<1>5. (blocked[s] # None =>
          sends[s] > 0 /\ blocked[s].n = sends[s] /\ Accepted(s, sends[s] - 1))'
  BY <1>3, Zenon DEF Accepted
<1>. QED BY <1>4, <1>5, Zenon DEF NumberedOf

LEMMA NumberedSame ==
    ASSUME Numbered, UNCHANGED <<log, blocked, sends>>, qref' => qref
    PROVE  Numbered'
BY NumberedKept, Zenon DEF Numbered, OwnMessages

LEMMA NumberedReply ==
    ASSUME TypeOK, Numbered, NEW k \in Kinds, send("serve", Reply(k)), UNCHANGED sends
    PROVE  Numbered'
<1>. DEFINE m == Reply(k)
<1>1. m \in Messages /\ m.by = "serve" /\ "serve" \notin Senders /\ "serve" \in Greenlets
  BY ReplyIsMessage, ServeIsGreenlet, ConstantsAssumption, Zenon DEF Reply
<1>2. log \in Seq(Messages) /\ DOMAIN blocked = Greenlets
  BY Zenon DEF TypeOK
<1>. HIDE DEF m
<1>3. CASE qref /\ Put(m) /\ UNCHANGED <<blocked, qref>>
  <2>1. ASSUME NEW s \in Senders PROVE NumberedOf(s)'
    <3>1. Grown(m) /\ NumberedOf(s) /\ m.by # s
      BY <1>1, <1>2, <1>3, AppendedLog, Zenon DEF Numbered, Put
    <3>. QED BY <1>1, <1>3, <3>1, NumberedOther, Zenon
  <2>. QED BY <1>3, <2>1, Zenon DEF Numbered, OwnMessages
<1>4. CASE blocked' = [blocked EXCEPT !["serve"] = m] /\ UNCHANGED <<log, qref>>
  <2>1. ASSUME NEW s \in Senders PROVE NumberedOf(s)'
    <3>1. blocked'[s] = blocked[s]
      BY <1>1, <1>2, <1>4
    <3>. QED BY <1>4, <3>1, NumberedKept, Zenon DEF Numbered
  <2>2. OwnMessages'
    BY <1>1, <1>2, <1>4, Zenon DEF Numbered, OwnMessages
  <2>. QED BY <2>1, <2>2, Zenon DEF Numbered
<1>5. CASE UNCHANGED <<log, blocked, qref>>
  BY <1>5, NumberedSame, Zenon
<1>. QED BY <1>3, <1>4, <1>5, SendPuts, Zenon DEF m

LEMMA NumberedUnblock ==
    ASSUME TypeOK, Numbered, NEW g \in Greenlets, Unblock(g)
    PROVE  Numbered'
<1>1. PICK m \in Messages : m = blocked[g]
  BY Zenon DEF Unblock, TypeOK
<1>2. /\ log \in Seq(Messages) /\ log' = Append(log, m) /\ UNCHANGED <<qref, sends>>
      /\ blocked' = [blocked EXCEPT ![g] = None] /\ m # None /\ DOMAIN blocked = Greenlets
  BY <1>1, Zenon DEF Unblock, TypeOK
<1>3. m.by = g /\ Grown(m)
  BY <1>1, <1>2, AppendedLog, Zenon DEF Numbered, OwnMessages
<1>4. OwnMessages'
  BY <1>2, Zenon DEF Numbered, OwnMessages
<1>5. ASSUME NEW s \in Senders PROVE NumberedOf(s)'
  <2>0. s \in Greenlets /\ NumberedOf(s)
    BY ServeIsGreenlet, Zenon DEF Numbered
  <2>1. CASE s # g
    <3>1. blocked'[s] = blocked[s]
      BY <1>2, <2>0, <2>1, Zenon
    <3>. QED BY <1>2, <1>3, <2>0, <2>1, <3>1, NumberedOther, Zenon
  <2>2. CASE s = g
    <3>1. sends[s] \in Nat \ {0} /\ m.n = sends[s] /\ Accepted(s, sends[s] - 1)
      BY <1>1, <1>2, <2>0, <2>2 DEF NumberedOf, TypeOK
    <3>2. ASSUME NEW i \in 1 .. Len(log), log[i].by = s
          PROVE  /\ log[i].n \in 1 .. sends[s] - 1
                 /\ \A j \in 1 .. i - 1 : log[j].by = s => log[j].n < log[i].n
                 /\ \A k \in 1 .. log[i].n : \E j \in 1 .. i : log[j].by = s /\ log[j].n = k
      <4>1. log[i].n \in 1 .. sends[s] /\ log[i].n < sends[s]
        BY <1>1, <1>2, <2>0, <2>2, <3>2, Zenon DEF NumberedOf
      <4>2. log[i].n \in 1 .. sends[s] - 1
        BY <3>1, <4>1
      <4>. QED BY <2>0, <3>2, <4>2, Zenon DEF NumberedOf
    <3>3. blocked'[s] = None /\ sends'[s] = sends[s]
      BY <1>2, <2>0, <2>2, Zenon
    <3>4. PICK b \in Nat \ {0} : b = sends[s]
      BY <3>1, Zenon
    <3>5. m.by = s /\ m.n = b /\ sends'[s] = b /\ Accepted(s, b - 1)
      BY <1>3, <2>2, <3>1, <3>3, <3>4, Zenon
    <3>6. Ordered(s, b - 1)
      BY <3>2, <3>4, Zenon DEF Ordered
    <3>. QED BY <1>3, <3>3, <3>5, <3>6, NumberedOwn, Zenon
  <2>. QED BY <2>1, <2>2, Zenon
<1>. QED BY <1>4, <1>5, Zenon DEF Numbered

LEMMA NumberedApp ==
    ASSUME TypeOK, Numbered, NEW s \in Senders, app_send(s)
    PROVE  Numbered'
<1>. DEFINE b == sends[s] + 1
            m == [by |-> s, kind |-> "app", n |-> b]
<1>1. m \in Messages /\ m.by = s /\ m.n = b /\ m.kind = "app" /\ b \in Nat \ {0} /\ m # None
  BY AppMessage, NoneAssumption, SMTT(30)
<1>2. /\ send(s, m) /\ blocked[s] = None /\ sends' = [sends EXCEPT ![s] = b]
      /\ log \in Seq(Messages) /\ DOMAIN blocked = Greenlets /\ s \in Greenlets /\ DOMAIN sends = Senders
      /\ sends[s] = b - 1 /\ sends[s] \in Nat
  <2>1. send(s, m) /\ blocked[s] = None /\ sends' = [sends EXCEPT ![s] = b]
    BY Zenon DEF app_send
  <2>2. log \in Seq(Messages) /\ DOMAIN blocked = Greenlets /\ DOMAIN sends = Senders /\ sends[s] \in Nat
    BY DEF TypeOK
  <2>3. s \in Greenlets
    BY ServeIsGreenlet, Zenon
  <2>4. sends[s] = b - 1
    BY <2>2
  <2>. QED BY <2>1, <2>2, <2>3, <2>4, Zenon
<1>. HIDE DEF m, b
<1>3. sends'[s] = b /\ \A t \in Senders \ {s} : sends'[t] = sends[t]
  BY <1>2, Zenon
<1>4. \A t \in Senders : NumberedOf(t)
  BY Zenon DEF Numbered
<1>5. CASE qref /\ Put(m) /\ UNCHANGED <<blocked, qref>>
  <2>0. Grown(m)
    BY <1>1, <1>2, <1>5, AppendedLog, Zenon DEF Put
  <2>1. ASSUME NEW t \in Senders \ {s} PROVE NumberedOf(t)'
    BY <1>1, <1>3, <1>4, <1>5, <2>0, NumberedOther, Zenon
  <2>2. Accepted(s, b - 1)
    BY <1>2, <1>4, <1>5, ZenonT(30) DEF NumberedOf
  <2>3. Ordered(s, b - 1)
    <3>1. NumberedOf(s)
      BY <1>4, Zenon
    <3>. QED BY <1>2, <3>1, Zenon DEF NumberedOf, Ordered
  <2>4. blocked'[s] = None
    BY <1>2, <1>5, Zenon
  <2>5. NumberedOf(s)'
    BY <1>1, <1>3, <2>0, <2>2, <2>3, <2>4, NumberedOwn, Zenon
  <2>. QED BY <1>5, <2>1, <2>5, Zenon DEF Numbered, OwnMessages
<1>6. CASE qref /\ blocked' = [blocked EXCEPT ![s] = m] /\ UNCHANGED <<log, qref>>
  <2>1. ASSUME NEW t \in Senders \ {s} PROVE NumberedOf(t)'
    <3>1. blocked'[t] = blocked[t]
      BY <1>2, <1>6, ServeIsGreenlet, Zenon
    <3>. QED BY <1>3, <1>4, <1>6, <3>1, NumberedKept, Zenon
  <2>2. blocked'[s] = m
    BY <1>2, <1>6, Zenon
  <2>3. NumberedOf(s)'
    BY <1>1, <1>2, <1>3, <1>4, <1>6, <2>2, NumberedHeld, Zenon
  <2>4. OwnMessages'
    BY <1>1, <1>2, <1>6, Zenon DEF Numbered, OwnMessages
  <2>. QED BY <2>1, <2>3, <2>4, Zenon DEF Numbered
<1>7. CASE ~ qref /\ UNCHANGED <<log, blocked, qref>>
  <2>1. ASSUME NEW t \in Senders \ {s} PROVE NumberedOf(t)'
    BY <1>3, <1>4, <1>7, NumberedKept, Zenon
  <2>2. NumberedOf(s)'
    BY <1>1, <1>2, <1>3, <1>4, <1>7, NumberedHeld, Zenon
  <2>. QED BY <1>7, <2>1, <2>2, Zenon DEF Numbered, OwnMessages
<1>. QED BY <1>2, <1>5, <1>6, <1>7, SendPuts, Zenon

LEMMA NumberedStep ==
    ASSUME TypeOK, Numbered, [Next]_vars
    PROVE  Numbered'
<1>1. CASE Serve
  <2>1. CASE serve_start \/ hello_handler_request
    <3>1. /\ UNCHANGED sends
          /\ send("serve", Reply("hello")) \/ send("serve", Reply("features_request"))
      BY <2>1, Zenon DEF serve_start, hello_handler_request
    <3>. QED BY <3>1, NumberedReply, Zenon DEF Kinds
  <2>2. CASE recv \/ recv_raise \/ recv_end \/ serve_close
    <3>1. UNCHANGED <<log, blocked, sends>> /\ (qref' => qref)
      BY <2>2 DEF recv, recv_raise, recv_end, serve_close, qVars
    <3>. QED BY <3>1, NumberedSame, Zenon
  <2>3. CASE hello_handler
    <3>1. UNCHANGED sends /\ (send("serve", Reply("hello_failed")) \/ UNCHANGED qVars)
      BY <2>3, Zenon DEF hello_handler, Handling
    <3>. QED BY <3>1, NumberedReply, NumberedSame DEF Kinds, qVars
  <2>4. CASE switch_features_handler \/ echo_request_handler
    <3>1. /\ UNCHANGED sends
          /\ \/ send("serve", Reply("port_desc_request")) \/ send("serve", Reply("echo_reply"))
             \/ UNCHANGED qVars
      BY <2>4, Zenon DEF switch_features_handler, echo_request_handler, Handling
    <3>. QED BY <3>1, NumberedReply, NumberedSame DEF Kinds, qVars
  <2>5. CASE multipart_reply_handler \/ no_handler
    BY <2>5, NumberedSame DEF multipart_reply_handler, no_handler, Handling, qVars
  <2>6. CASE serve_kill
    BY <2>6, NumberedSame, Zenon DEF serve_kill, _send_loop_finally, qVars, TypeOK
  <2>. QED BY <1>1, <2>1, <2>2, <2>3, <2>4, <2>5, <2>6, Zenon DEF Serve
<1>2. CASE Send
  BY <1>2, NumberedSame
     DEF Send, send_start, send_get, send_done, send_error, _send_loop_test, _send_loop_finally, qVars
<1>3. CASE Switch
  BY <1>3, SwitchKeeps, NumberedSame, SMTT(30) DEF qVars
<1>4. CASE close \/ UNCHANGED vars
  BY <1>4, NumberedSame DEF close, vars, qVars
<1>. QED BY <1>1, <1>2, <1>3, <1>4, NumberedUnblock, NumberedApp, Zenon DEF Next
====
