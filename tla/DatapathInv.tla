---------------------------- MODULE DatapathInv -----------------------------
(***************************************************************************)
(* The inductive invariant of one OpenFlow connection, and lemmas about its *)
(* operators that the proofs of the parts share.                           *)
(***************************************************************************)
EXTENDS Datapath, TLAPS

\* What the flags of the connection and the places of its greenlets say of
\* each other.
Life ==
    /\ state = "dead" => ~ sendActive
    /\ state \in {"config", "main"} => version # NoVersion
    /\ sender \in {"new", "get", "sending"} => qref
    /\ sender = "sending" => buf # None
    /\ sender = "new" \/ (sender = "done" /\ qref) => wire = <<>>
    /\ serve \in {"killed", "closed"} => sender = "done"
    /\ late = 0 \/ (late = 1 /\ sender = "done")

\* The switch has received a prefix of what was accepted.  While the sending
\* greenlet runs and the connection is up, the rest is in its hands and on the
\* queue, in order.
InHand == IF sender = "sending" THEN 1 ELSE 0

Fifo ==
    /\ Len(wire) <= Len(log)
    /\ \A i \in 1 .. Len(wire) : wire[i] = log[i]
    /\ link /\ sender # "done" =>
          /\ Len(log) = Len(wire) + InHand + Len(sendQ)
          /\ sender = "sending" => log[Len(wire) + 1] = buf
          /\ \A i \in 1 .. Len(sendQ) : sendQ[i] = log[Len(wire) + InHand + i]

\* Every one of the first m messages of s was accepted.
Accepted(s, m) == \A k \in 1 .. m : \E j \in 1 .. Len(log) : log[j].by = s /\ log[j].n = k

\* The messages of application s are accepted in order and without gaps.  Its
\* last message may be missing: it is blocked with it, or the queue is gone.
NumberedOf(s) ==
    /\ \A i \in 1 .. Len(log) : log[i].by = s =>
          /\ log[i].n \in 1 .. sends[s]
          /\ blocked[s] # None => log[i].n < sends[s]
          /\ \A j \in 1 .. i - 1 : log[j].by = s => log[j].n < log[i].n
          /\ \A k \in 1 .. log[i].n : \E j \in 1 .. i : log[j].by = s /\ log[j].n = k
    /\ blocked[s] # None =>
          sends[s] > 0 /\ blocked[s].n = sends[s] /\ Accepted(s, sends[s] - 1)
    /\ qref /\ blocked[s] = None => Accepted(s, sends[s])

\* A greenlet is blocked with a message of its own.
OwnMessages ==
    \A g \in Greenlets : blocked[g] # None =>
        blocked[g].by = g /\ (g \in Senders => blocked[g].kind = "app")

Numbered == OwnMessages /\ \A s \in Senders : NumberedOf(s)

\* The features reply has not been handled yet.
Unhandled == serve = "posting" /\ cur.kind = "features"
FeaturesPending == Unhandled \/ \E i \in 1 .. Len(inbox) : inbox[i].kind = "features"

\* The ports of the switch were asked for.
Requested ==
    \/ \E i \in 1 .. Len(log) : log[i].kind = "port_desc_request"
    \/ blocked["serve"] # None /\ blocked["serve"].kind = "port_desc_request"

\* The switch answers what it was asked, once; the features reply precedes the
\* request for the ports.
OneReply ==
    \A i, j \in 1 .. Len(inbox) : inbox[i].kind = "features" /\ inbox[j].kind = "features" => i = j

NoReplyLeft == Unhandled => \A i \in 1 .. Len(inbox) : inbox[i].kind # "features"

Answers ==
    /\ switch.features = 1 => Received("features_request")
    /\ switch.ports > 0 => Received("port_desc_request")
    /\ known \/ FeaturesPending \/ Requested => switch.features = 1
    /\ Requested => ~ FeaturesPending /\ state # "handshake"
    /\ OneReply /\ NoReplyLeft

\* How many parts of the port description are handled or being handled.
HandlingPorts == serve = "posting" /\ cur.kind = "ports"
Reached == IF HandlingPorts THEN ports + 1 ELSE ports

\* The parts not handled yet follow on from the first r, without gaps.
Follow(r) ==
    /\ \A i \in 1 .. Len(inbox) : inbox[i].kind = "ports" =>
          /\ inbox[i].n > r
          /\ \A k \in r + 1 .. inbox[i].n - 1 :
                \E j \in 1 .. i - 1 : inbox[j].kind = "ports" /\ inbox[j].n = k
          /\ \A j \in 1 .. i - 1 : inbox[j].kind = "ports" => inbox[j].n < inbox[i].n
    /\ link => \A k \in r + 1 .. switch.ports :
                  \E j \in 1 .. Len(inbox) : inbox[j].kind = "ports" /\ inbox[j].n = k

PortsInv ==
    /\ \A i \in 1 .. Len(inbox) : inbox[i].kind = "ports" => inbox[i].n \in 1 .. switch.ports
    /\ HandlingPorts => cur.n \in 1 .. switch.ports
    /\ state = "handshake" => ports = 0
    /\ state = "main" => ports = Parts
    /\ state = "config" =>
          /\ Reached <= switch.ports
          /\ HandlingPorts => cur.n = ports + 1
          /\ Follow(Reached)

\* The inductive invariant.
IInv == TypeOK /\ Life /\ Fifo /\ Numbered /\ Answers /\ PortsInv

-----------------------------------------------------------------------------
(***************************************************************************)
(* Messages and queues.                                                    *)
(***************************************************************************)

LEMMA Appended ==
    ASSUME NEW S, NEW q \in Seq(S), NEW e \in S
    PROVE  /\ Append(q, e) \in Seq(S) /\ Len(q) \in Nat /\ Len(Append(q, e)) = Len(q) + 1
           /\ Append(q, e)[Len(q) + 1] = e
           /\ \A i \in 1 .. Len(q) : Append(q, e)[i] = q[i]
OBVIOUS

LEMMA ReplyIsMessage ==
    ASSUME NEW k \in Kinds
    PROVE  Reply(k) \in Messages /\ Reply(k) # None /\ Reply(k).by = "serve" /\ Reply(k).kind = k
BY ConstantsAssumption, NoneAssumption DEF Reply, Messages, Greenlets

LEMMA ServeIsGreenlet == "serve" \in Greenlets /\ Senders \subseteq Greenlets
BY Zenon DEF Greenlets

\* A message is accepted.
Put(m) == sendQ' = Append(sendQ, m) /\ log' = Append(log, m)

\* Datapath.send puts the message on the queue or does not.
LEMMA SendPuts ==
    ASSUME NEW g, NEW m, send(g, m)
    PROVE  /\ UNCHANGED qref
           /\ \/ qref /\ Put(m) /\ UNCHANGED blocked
              \/ qref /\ blocked' = [blocked EXCEPT ![g] = m] /\ UNCHANGED <<sendQ, log>>
              \/ ~ qref /\ UNCHANGED <<sendQ, blocked, log>>
BY Zenon DEF send, Put

LEMMA SwitchKeeps ==
    ASSUME Switch
    PROVE  UNCHANGED <<dpVars, qVars, serve, cur, sender, buf, sends, wire, late>>
BY Zenon DEF Switch, SwitchHello, SwitchFeatures, SwitchPorts, SwitchEcho, LinkDown, Sends

LEMMA AppMessage ==
    ASSUME TypeOK, NEW s \in Senders, app_send(s)
    PROVE  /\ [by |-> s, kind |-> "app", n |-> sends[s] + 1] \in Messages
           /\ sends[s] \in Nat /\ sends[s] + 1 \in 0 .. MaxSends
<1>1. sends[s] \in 0 .. MaxSends /\ sends[s] < MaxSends
  BY Zenon DEF TypeOK, app_send
<1>2. sends[s] \in Nat /\ sends[s] + 1 \in 0 .. MaxSends
  BY <1>1, ConstantsAssumption
<1>. QED BY <1>2, Zenon DEF Messages, Kinds, Greenlets
====
