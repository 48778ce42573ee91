---------------------------- MODULE DPSetSettled ----------------------------
(***************************************************************************)
(* Proofs about what dpset has come to once it has caught up with its      *)
(* events, for any connections, switches, ports, queue capacity and other  *)
(* observers.                                                              *)
(***************************************************************************)
EXTENDS DPSetProofs

MAIN(c) == StateEvent(c, "main")
DEAD(c) == StateEvent(c, "dead")

InQueue(q, e) == \E i \in 1 .. Len(q) : q[i] = e

\* Every MAIN of c in the queue q has a DEAD behind it, which may be p, the
\* event the serving greenlet of c is blocked with.
Following(q, p, c) ==
    \A i \in 1 .. Len(q) : q[i] = MAIN(c) =>
        p = DEAD(c) \/ \E j \in 1 .. Len(q) : i < j /\ q[j] = DEAD(c)

\* The event the serving greenlet of c is blocked with.
Blocked(c) == pend[<<"recv", c>>]

\* The receive loop of c has ended.
Over(c) == recv[c] \in {"ended", "joining", "closed"}

\* Only the dead are said to be dead, MAIN is announced by the serving greenlet,
\* and a greenlet that serves a connection does so from the handshake on.
Truthful(c) ==
    /\ InQueue(queue, DEAD(c)) => state[c] = "dead"
    /\ \A g \in Greenlets : pend[g] = DEAD(c) => state[c] = "dead"
    /\ \A g \in Greenlets : pend[g] = MAIN(c) => g = <<"recv", c>>
    /\ Over(c) => state[c] = "dead"
    /\ id[c] # None => recv[c] # "off"

\* A connection in MAIN is registered or on its way to be.
Reached(c) ==
    state[c] = "main" =>
        dps[id[c]] = c \/ closing = c \/ InQueue(queue, MAIN(c)) \/ Blocked(c) = MAIN(c)

\* A connection nobody serves any more is not registered or on its way out.
Leaving(c) ==
    Over(c) =>
        /\ Blocked(c) # MAIN(c)
        /\ Following(queue, Blocked(c), c)
        /\ Current(c) \/ closing = c => Blocked(c) = DEAD(c) \/ InQueue(queue, DEAD(c))

One(c) == Truthful(c) /\ (dpset = "run" => Reached(c) /\ Leaving(c))

\* The connection that is being replaced was declared dead.
ReplacedIsDead == closing # None => state[dps[id[closing]]] = "dead"

\* The inductive invariant, beside the one of DPSetProofs.
SInv == ReplacedIsDead /\ \A c \in Conns : One(c)

-----------------------------------------------------------------------------
(***************************************************************************)
(* Events and queues.                                                      *)
(***************************************************************************)

LEMMA EventsDiffer ==
    ASSUME NEW c \in Conns, NEW b \in Conns
    PROVE  /\ MAIN(c) \in Events /\ DEAD(c) \in Events
           /\ MAIN(c) # None /\ DEAD(c) # None
           /\ MAIN(c) # DEAD(b)
           /\ c # b => MAIN(c) # MAIN(b) /\ DEAD(c) # DEAD(b)
<1>1. MAIN(c) \in Events /\ DEAD(c) \in Events
  BY Zenon DEF MAIN, DEAD, StateEvent, Events, StateEvents
<1>2. MAIN(c).state = "main" /\ DEAD(b).state = "dead"
  BY Zenon DEF MAIN, DEAD, StateEvent
<1>3. MAIN(c).conn = c /\ MAIN(b).conn = b /\ DEAD(c).conn = c /\ DEAD(b).conn = b
  BY Zenon DEF MAIN, DEAD, StateEvent
<1>. QED BY <1>1, <1>2, <1>3, NoneAssumption, Zenon

LEMMA AppendShape ==
    ASSUME NEW q \in Seq(Events), NEW f \in Events
    PROVE  \E r \in Seq(Events) : /\ r = Append(q, f) /\ Len(r) = Len(q) + 1 /\ r[Len(q) + 1] = f
                                  /\ \A i \in 1 .. Len(q) : r[i] = q[i]
<1>1. Append(q, f) \in Seq(Events) /\ Len(Append(q, f)) = Len(q) + 1 /\ Append(q, f)[Len(q) + 1] = f
  OBVIOUS
<1>2. \A i \in 1 .. Len(q) : Append(q, f)[i] = q[i]
  OBVIOUS
<1>. QED BY <1>1, <1>2, Zenon

LEMMA TailShape ==
    ASSUME NEW q \in Seq(Events), q # <<>>
    PROVE  \E r \in Seq(Events) : /\ r = Tail(q) /\ Len(r) = Len(q) - 1 /\ Head(q) = q[1]
                                  /\ \A i \in 1 .. Len(r) : r[i] = q[i + 1]
<1>1. Tail(q) \in Seq(Events) /\ Len(Tail(q)) = Len(q) - 1 /\ Head(q) = q[1]
  OBVIOUS
<1>2. \A i \in 1 .. Len(Tail(q)) : Tail(q)[i] = q[i + 1]
  BY <1>1
<1>. QED BY <1>1, <1>2, Zenon

LEMMA InAppend ==
    ASSUME NEW q \in Seq(Events), NEW f \in Events, NEW e
    PROVE  InQueue(Append(q, f), e) <=> InQueue(q, e) \/ f = e
<1>1. PICK r \in Seq(Events) : /\ r = Append(q, f) /\ Len(r) = Len(q) + 1 /\ r[Len(q) + 1] = f
                               /\ \A i \in 1 .. Len(q) : r[i] = q[i]
  BY AppendShape, Zenon
<1>2. Len(q) \in Nat
  OBVIOUS
<1>3. ASSUME NEW i \in 1 .. Len(r) PROVE i \in 1 .. Len(q) \/ i = Len(q) + 1
  BY <1>1, <1>2
<1>4. \A i \in 1 .. Len(q) : i \in 1 .. Len(r)
  BY <1>1, <1>2
<1>5. Len(q) + 1 \in 1 .. Len(r)
  BY <1>1, <1>2
<1>6. InQueue(r, e) => InQueue(q, e) \/ f = e
  BY <1>1, <1>3, Zenon DEF InQueue
<1>7. InQueue(q, e) \/ f = e => InQueue(r, e)
  BY <1>1, <1>4, <1>5, Zenon DEF InQueue
<1>. QED BY <1>1, <1>6, <1>7, Zenon

LEMMA InTail ==
    ASSUME NEW q \in Seq(Events), q # <<>>, NEW e
    PROVE  InQueue(q, e) <=> Head(q) = e \/ InQueue(Tail(q), e)
<1>1. PICK r \in Seq(Events) : /\ r = Tail(q) /\ Len(r) = Len(q) - 1 /\ Head(q) = q[1]
                               /\ \A i \in 1 .. Len(r) : r[i] = q[i + 1]
  BY TailShape, Zenon
<1>2. Len(q) \in Nat /\ Len(q) > 0 /\ 1 \in 1 .. Len(q)
  OBVIOUS
<1>3. ASSUME NEW i \in 1 .. Len(q) PROVE i = 1 \/ (i - 1 \in 1 .. Len(r) /\ (i - 1) + 1 = i)
  BY <1>1, <1>2
<1>4. \A i \in 1 .. Len(r) : i + 1 \in 1 .. Len(q)
  BY <1>1, <1>2
<1>5. InQueue(q, e) => Head(q) = e \/ InQueue(r, e)
  <2>. SUFFICES ASSUME NEW i \in 1 .. Len(q), q[i] = e PROVE Head(q) = e \/ InQueue(r, e)
    BY Zenon DEF InQueue
  <2>1. CASE i = 1
    BY <2>1, <1>1, Zenon
  <2>2. CASE i - 1 \in 1 .. Len(r) /\ (i - 1) + 1 = i
    <3>1. r[i - 1] = q[i]
      BY <2>2, <1>1, Zenon
    <3>. QED BY <3>1, <2>2, Zenon DEF InQueue
  <2>. QED BY <2>1, <2>2, <1>3, Zenon
<1>6. Head(q) = e \/ InQueue(r, e) => InQueue(q, e)
  BY <1>1, <1>2, <1>4, Zenon DEF InQueue
<1>. QED BY <1>1, <1>5, <1>6, Zenon

\* An event behind those of the queue.
LEMMA FollowingAppend ==
    ASSUME NEW q \in Seq(Events), NEW f \in Events, NEW p, NEW c \in Conns
    PROVE  /\ Following(q, p, c) /\ f # MAIN(c) => Following(Append(q, f), p, c)
           /\ Following(Append(q, DEAD(c)), p, c)
           /\ Following(q, DEAD(c), c)
<1>2. Len(q) \in Nat
  OBVIOUS
<1>3. ASSUME Following(q, p, c), f # MAIN(c) PROVE Following(Append(q, f), p, c)
  <2>1. PICK r \in Seq(Events) : /\ r = Append(q, f) /\ Len(r) = Len(q) + 1 /\ r[Len(q) + 1] = f
                                 /\ \A i \in 1 .. Len(q) : r[i] = q[i]
    BY AppendShape, Zenon
  <2>2. \A i \in 1 .. Len(r) : i \in 1 .. Len(q) \/ i = Len(q) + 1
    BY <2>1, <1>2
  <2>3. \A i \in 1 .. Len(q) : i \in 1 .. Len(r)
    BY <2>1, <1>2
  <2>4. Following(r, p, c)
    BY <2>1, <2>2, <2>3, <1>3 DEF Following
  <2>. QED BY <2>1, <2>4, Zenon
<1>4. Following(Append(q, DEAD(c)), p, c)
  <2>1. PICK r \in Seq(Events) : /\ r = Append(q, DEAD(c)) /\ Len(r) = Len(q) + 1 /\ r[Len(q) + 1] = DEAD(c)
                                 /\ \A i \in 1 .. Len(q) : r[i] = q[i]
    BY EventsDiffer, AppendShape, Zenon
  <2>2. Len(q) + 1 \in 1 .. Len(r) /\ \A i \in 1 .. Len(r) : i < Len(q) + 1 \/ i = Len(q) + 1
    BY <2>1, <1>2
  <2>3. r[Len(q) + 1] # MAIN(c)
    BY <2>1, EventsDiffer, Zenon
  <2>4. Following(r, p, c)
    BY <2>1, <2>2, <2>3, Zenon DEF Following
  <2>. QED BY <2>1, <2>4, Zenon
<1>5. Following(q, DEAD(c), c)
  BY Zenon DEF Following
<1>. QED BY <1>3, <1>4, <1>5, Zenon

\* The first event of the queue is taken.
LEMMA FollowingTail ==
    ASSUME NEW q \in Seq(Events), q # <<>>, NEW p, NEW c \in Conns, Following(q, p, c)
    PROVE  /\ Following(Tail(q), p, c)
           /\ Head(q) = MAIN(c) => p = DEAD(c) \/ InQueue(Tail(q), DEAD(c))
<1>1. PICK r \in Seq(Events) : /\ r = Tail(q) /\ Len(r) = Len(q) - 1 /\ Head(q) = q[1]
                               /\ \A i \in 1 .. Len(r) : r[i] = q[i + 1]
  BY TailShape, Zenon
<1>2. Len(q) \in Nat /\ Len(q) > 0 /\ 1 \in 1 .. Len(q)
  OBVIOUS
<1>3. ASSUME NEW i \in 1 .. Len(q), q[i] = MAIN(c), p # DEAD(c)
      PROVE  \E j \in 1 .. Len(r) : i < j + 1 /\ r[j] = DEAD(c)
  <2>1. PICK j \in 1 .. Len(q) : i < j /\ q[j] = DEAD(c)
    BY <1>3, Zenon DEF Following
  <2>2. j - 1 \in 1 .. Len(r) /\ (j - 1) + 1 = j
    BY <2>1, <1>1, <1>2
  <2>3. r[j - 1] = DEAD(c) /\ i < (j - 1) + 1
    BY <2>1, <2>2, <1>1, Zenon
  <2>. QED BY <2>2, <2>3, Zenon
<1>4. Following(r, p, c)
  <2>. SUFFICES ASSUME NEW i \in 1 .. Len(r), r[i] = MAIN(c), p # DEAD(c)
                PROVE  \E j \in 1 .. Len(r) : i < j /\ r[j] = DEAD(c)
    BY Zenon DEF Following
  <2>1. i + 1 \in 1 .. Len(q) /\ q[i + 1] = MAIN(c)
    BY <1>1, <1>2
  <2>2. PICK j \in 1 .. Len(r) : i + 1 < j + 1 /\ r[j] = DEAD(c)
    BY <2>1, <1>3, Zenon
  <2>. QED BY <2>2
<1>5. Head(q) = MAIN(c) => p = DEAD(c) \/ InQueue(r, DEAD(c))
  BY <1>1, <1>2, <1>3, Zenon DEF InQueue
<1>. QED BY <1>1, <1>4, <1>5, Zenon

-----------------------------------------------------------------------------
(***************************************************************************)
(* Steps that are not about a connection.                                  *)
(***************************************************************************)

\* The events of c in the queue are the same and in the same order.
QueueAlike(c) ==
    /\ InQueue(queue', DEAD(c)) <=> InQueue(queue, DEAD(c))
    /\ InQueue(queue', MAIN(c)) <=> InQueue(queue, MAIN(c))
    /\ Following(queue, Blocked(c), c) => Following(queue', Blocked(c), c)

\* The events of c greenlets are blocked with are the same.
PendAlike(c) ==
    /\ Over(c) /\ Blocked(c) = DEAD(c) => pend'[<<"recv", c>>] = DEAD(c)
    /\ Blocked(c) = MAIN(c) => pend'[<<"recv", c>>] = MAIN(c)
    /\ \A g \in Greenlets : pend'[g] \in {MAIN(c), DEAD(c)} => pend'[g] = pend[g]

\* So is what c itself is at.
SelfAlike(c) ==
    /\ state'[c] = state[c] /\ id'[c] = id[c]
    /\ recv'[c] = recv[c] \/ (Over(c) /\ recv'[c] \in {"ended", "joining", "closed"})

\* c stays registered, or on its way to it, if it was, and only then.
Kept(c) ==
    dpset' = "run" =>
        /\ dpset = "run"
        /\ state[c] = "main" /\ (dps[id[c]] = c \/ closing = c) => dps'[id[c]] = c \/ closing' = c
        /\ (\E d \in Dpids : dps'[d] = c) \/ closing' = c => Current(c) \/ closing = c

LEMMA AlikeOne ==
    ASSUME NEW c \in Conns, One(c), QueueAlike(c), PendAlike(c), SelfAlike(c), Kept(c)
    PROVE  One(c)'
<1>1. (Over(c)' <=> Over(c)) /\ (recv'[c] = "off" => recv[c] = "off") /\ state'[c] = state[c] /\ id'[c] = id[c]
  BY Zenon DEF SelfAlike, Over
<1>2. Truthful(c)'
  BY <1>1, Zenon DEF One, Truthful, QueueAlike, PendAlike
<1>3. ASSUME dpset' = "run" PROVE Reached(c)'
  BY <1>1, <1>3, Zenon DEF One, Reached, QueueAlike, PendAlike, Kept, Blocked
<1>4. ASSUME dpset' = "run" PROVE Leaving(c)'
  <2>. SUFFICES ASSUME Over(c)'
                PROVE  /\ Blocked(c)' # MAIN(c)
                       /\ Following(queue', Blocked(c)', c)
                       /\ (Current(c) \/ closing = c)' => Blocked(c)' = DEAD(c) \/ InQueue(queue', DEAD(c))
    BY Zenon DEF Leaving
  <2>1. Leaving(c) /\ Over(c)
    BY <1>1, <1>4, Zenon DEF One, Kept
  <2>2. (Current(c) \/ closing = c)' => Current(c) \/ closing = c
    BY <1>4, Zenon DEF Kept, Current
  <2>3. <<"recv", c>> \in Greenlets
    BY Zenon DEF Greenlets
  <2>4. Blocked(c)' # MAIN(c) /\ (Blocked(c) = DEAD(c) => Blocked(c)' = DEAD(c))
    <3>1. PICK g \in Greenlets : g = <<"recv", c>>
      BY <2>3, Zenon
    <3>2. pend'[g] = MAIN(c) => pend[g] = MAIN(c)
      BY Zenon DEF PendAlike
    <3>3. Over(c) /\ pend[g] = DEAD(c) => pend'[g] = DEAD(c)
      BY <3>1, Zenon DEF PendAlike, Blocked
    <3>. QED BY <2>1, <3>1, <3>2, <3>3, Zenon DEF Leaving, Blocked
  <2>5. Following(queue', Blocked(c), c)
    BY <2>1, Zenon DEF Leaving, QueueAlike
  <2>6. Following(queue', Blocked(c)', c)
    BY <2>4, <2>5, Zenon DEF Following
  <2>. QED BY <2>1, <2>2, <2>4, <2>6, Zenon DEF Leaving, QueueAlike
<1>. QED BY <1>2, <1>3, <1>4, Zenon DEF One

\* An event about another connection, or a port, goes to the queue.
LEMMA AppendAlike ==
    ASSUME TypeOK, NEW c \in Conns, NEW f \in Events, f # MAIN(c), f # DEAD(c), queue' = Append(queue, f)
    PROVE  QueueAlike(c)
<1>1. queue \in Seq(Events)
  BY Zenon DEF TypeOK
<1>2. PICK q \in Seq(Events) : q = queue
  BY <1>1, Zenon
<1>3. PICK p : p = Blocked(c)
  OBVIOUS
<1>4. InQueue(Append(q, f), DEAD(c)) <=> InQueue(q, DEAD(c))
  BY InAppend, Zenon
<1>5. InQueue(Append(q, f), MAIN(c)) <=> InQueue(q, MAIN(c))
  BY InAppend, Zenon
<1>6. Following(q, p, c) => Following(Append(q, f), p, c)
  BY FollowingAppend, Zenon
<1>. QED BY <1>2, <1>3, <1>4, <1>5, <1>6, Zenon DEF QueueAlike

LEMMA TailAlike ==
    ASSUME TypeOK, NEW c \in Conns, queue # <<>>, Head(queue) # MAIN(c), Head(queue) # DEAD(c),
           queue' = Tail(queue)
    PROVE  QueueAlike(c)
<1>1. queue \in Seq(Events)
  BY Zenon DEF TypeOK
<1>2. PICK q \in Seq(Events) : q = queue
  BY <1>1, Zenon
<1>3. PICK p : p = Blocked(c)
  OBVIOUS
<1>4. InQueue(q, DEAD(c)) <=> InQueue(Tail(q), DEAD(c))
  BY <1>2, InTail, Zenon
<1>5. InQueue(q, MAIN(c)) <=> InQueue(Tail(q), MAIN(c))
  BY <1>2, InTail, Zenon
<1>6. Following(q, p, c) => Following(Tail(q), p, c)
  BY <1>2, FollowingTail, Zenon
<1>. QED BY <1>2, <1>3, <1>4, <1>5, <1>6, Zenon DEF QueueAlike

\* Both.
LEMMA TailAppendAlike ==
    ASSUME TypeOK, NEW c \in Conns, queue # <<>>, Head(queue) # MAIN(c), Head(queue) # DEAD(c),
           NEW f \in Events, f # MAIN(c), f # DEAD(c), queue' = Append(Tail(queue), f)
    PROVE  QueueAlike(c)
<1>1. queue \in Seq(Events)
  BY Zenon DEF TypeOK
<1>2. PICK q \in Seq(Events) : q = queue
  BY <1>1, Zenon
<1>3. PICK p : p = Blocked(c)
  OBVIOUS
<1>4. PICK r \in Seq(Events) : r = Tail(q)
  BY <1>2, TailShape, Zenon
<1>5. InQueue(q, DEAD(c)) <=> InQueue(Append(r, f), DEAD(c))
  <2>1. InQueue(q, DEAD(c)) <=> InQueue(r, DEAD(c))
    BY <1>2, <1>4, InTail, Zenon
  <2>. QED BY <2>1, InAppend, Zenon
<1>6. InQueue(q, MAIN(c)) <=> InQueue(Append(r, f), MAIN(c))
  <2>1. InQueue(q, MAIN(c)) <=> InQueue(r, MAIN(c))
    BY <1>2, <1>4, InTail, Zenon
  <2>. QED BY <2>1, InAppend, Zenon
<1>7. Following(q, p, c) => Following(Append(r, f), p, c)
  <2>1. Following(q, p, c) => Following(r, p, c)
    BY <1>2, <1>4, FollowingTail, Zenon
  <2>. QED BY <2>1, FollowingAppend, Zenon
<1>. QED BY <1>2, <1>3, <1>4, <1>5, <1>6, <1>7, Zenon DEF QueueAlike

\* Greenlet g of b sends an event about b that c is not concerned with: another
\* connection, or b itself while it receives and is told of a port.
LEMMA SendAlike ==
    ASSUME TypeOK, NEW b \in Conns, NEW c \in Conns, NEW k \in {"recv", "send"},
           NEW f \in Events, f # MAIN(c), f # DEAD(c), _send_event(<<k, b>>, f),
           b # c \/ (recv[c] = "run" /\ Blocked(c) = None)
    PROVE  QueueAlike(c) /\ PendAlike(c)
<1>1. CASE queue' = Append(queue, f) /\ UNCHANGED pend
  <2>1. QueueAlike(c)
    BY <1>1, AppendAlike, Zenon
  <2>2. PendAlike(c)
    BY <1>1, Zenon DEF PendAlike, Blocked
  <2>. QED BY <2>1, <2>2, Zenon
<1>2. CASE pend' = [pend EXCEPT ![<<k, b>>] = f] /\ UNCHANGED queue
  <2>1. QueueAlike(c)
    BY <1>2, Zenon DEF QueueAlike
  <2>2. ASSUME NEW g \in Greenlets PROVE pend'[g] = pend[g] \/ pend'[g] = f
    BY <1>2, Zenon DEF TypeOK
  <2>3. b # c => pend'[<<"recv", c>>] = pend[<<"recv", c>>]
    <3>1. <<"recv", c>> \in Greenlets /\ (b # c => <<"recv", c>> # <<k, b>>)
      BY Zenon DEF Greenlets
    <3>. QED BY <1>2, <3>1, Zenon DEF TypeOK
  <2>4. b = c => ~ Over(c) /\ Blocked(c) # MAIN(c)
    <3>1. MAIN(c) # None
      BY EventsDiffer, Zenon
    <3>. QED BY <3>1, Zenon DEF Over
  <2>5. PendAlike(c)
    BY <2>2, <2>3, <2>4, Zenon DEF PendAlike, Blocked
  <2>. QED BY <2>1, <2>5, Zenon
<1>. QED BY <1>1, <1>2, Zenon DEF _send_event

-----------------------------------------------------------------------------
(***************************************************************************)
(* The actions.                                                            *)
(***************************************************************************)

LEMMA InitSInv == Init => SInv
<1>. SUFFICES ASSUME Init PROVE SInv
  OBVIOUS
<1>1. ReplacedIsDead
  BY Zenon DEF Init, ReplacedIsDead
<1>2. ASSUME NEW c \in Conns PROVE One(c)
  <2>1. ~ InQueue(queue, DEAD(c))
    BY DEF Init, InQueue
  <2>2. state[c] = "none" /\ id[c] = None /\ ~ Over(c)
    BY Zenon DEF Init, Over
  <2>3. \A g \in Greenlets : pend[g] # DEAD(c) /\ pend[g] # MAIN(c)
    BY EventsDiffer, Zenon DEF Init
  <2>4. Truthful(c)
    BY <2>1, <2>2, <2>3, Zenon DEF Truthful
  <2>. QED BY <2>2, <2>4, Zenon DEF One, Reached, Leaving
<1>. QED BY <1>1, <1>2, Zenon DEF SInv

\* A step that leaves dpset alone, and the connection that is being replaced
\* dead, need only be looked at where it changes something.
LEMMA StillReplaced ==
    ASSUME IInv, SInv, UNCHANGED appVars,
           \A c \in Conns : (id[c] # None => id'[c] = id[c]) /\ (state[c] = "dead" => state'[c] = "dead")
    PROVE  ReplacedIsDead' /\ \A c \in Conns : id'[c] = id[c] => Kept(c)
<1>1. UNCHANGED <<dpset, closing, dps>>
  BY Zenon DEF appVars
<1>2. \A c \in Conns : id'[c] = id[c] => Kept(c)
  BY <1>1, Zenon DEF Kept, Current
<1>3. ReplacedIsDead'
  <2>. SUFFICES ASSUME closing # None PROVE state'[dps[id'[closing]]] = "dead"
    BY <1>1, Zenon DEF ReplacedIsDead
  <2>1. closing \in Conns /\ id[closing] \in Dpids /\ dps[id[closing]] \in Conns
    BY DEF IInv, TypeOK, ClosingInv
  <2>2. id'[closing] = id[closing] /\ state[dps[id[closing]]] = "dead"
    BY <2>1, Zenon DEF SInv, ReplacedIsDead, IInv, ClosingInv
  <2>. QED BY <2>1, <2>2, Zenon
<1>. QED BY <1>2, <1>3, Zenon

LEMMA EnvironmentSInv ==
    ASSUME IInv, SInv, UNCHANGED <<connVars, queue, appVars>>
    PROVE  SInv'
<1>1. UNCHANGED <<state, id, recv, pend, queue, dpset, closing, dps>>
  BY Zenon DEF connVars, appVars
<1>2. ReplacedIsDead'
  BY <1>1, Zenon DEF SInv, ReplacedIsDead
<1>3. ASSUME NEW c \in Conns PROVE One(c)'
  <2>1. One(c)
    BY Zenon DEF SInv
  <2>2. QueueAlike(c) /\ PendAlike(c) /\ SelfAlike(c) /\ Kept(c)
    BY <1>1, Zenon DEF QueueAlike, PendAlike, SelfAlike, Kept, Current, Blocked
  <2>. QED BY <2>1, <2>2, AlikeOne, Zenon
<1>. QED BY <1>2, <1>3, Zenon DEF SInv

LEMMA ConnectSInv ==
    ASSUME IInv, SInv, NEW b \in Conns, NEW d \in Dpids, Connect(b, d)
    PROVE  SInv'
<1>1. /\ UNCHANGED <<pend, queue, appVars>> /\ state[b] = "none" /\ id[b] = None
      /\ state' = [state EXCEPT ![b] = "config"] /\ id' = [id EXCEPT ![b] = d] /\ recv' = [recv EXCEPT ![b] = "run"]
  BY Zenon DEF Connect, IInv, HandshakeInv
<1>2. /\ state'[b] = "config" /\ id'[b] = d /\ recv'[b] = "run"
      /\ \A c \in Conns : c # b => state'[c] = state[c] /\ id'[c] = id[c] /\ recv'[c] = recv[c]
  BY <1>1, Zenon DEF IInv, TypeOK
<1>3. \A c \in Conns : (id[c] # None => id'[c] = id[c]) /\ (state[c] = "dead" => state'[c] = "dead")
  BY <1>1, <1>2, Zenon
<1>4. ReplacedIsDead' /\ \A c \in Conns : id'[c] = id[c] => Kept(c)
  BY <1>1, <1>3, StillReplaced, Zenon
<1>5. ASSUME NEW c \in Conns PROVE One(c)'
  <2>1. One(c)
    BY Zenon DEF SInv
  <2>2. CASE c # b
    <3>1. QueueAlike(c) /\ PendAlike(c) /\ SelfAlike(c) /\ Kept(c)
      BY <2>2, <1>1, <1>2, <1>4, Zenon DEF QueueAlike, PendAlike, SelfAlike, Blocked
    <3>. QED BY <2>1, <3>1, AlikeOne, Zenon
  <2>3. CASE c = b
    <3>1. ~ Over(c)'
      BY <2>3, <1>2, Zenon DEF Over
    <3>2. state[c] # "dead" /\ state'[c] # "main" /\ recv'[c] # "off" /\ UNCHANGED <<queue, pend>>
      BY <2>3, <1>1, <1>2, Zenon
    <3>3. Truthful(c)'
      BY <2>1, <3>1, <3>2, Zenon DEF One, Truthful
    <3>. QED BY <3>1, <3>2, <3>3, Zenon DEF One, Reached, Leaving
  <2>. QED BY <2>2, <2>3, Zenon
<1>. QED BY <1>4, <1>5, Zenon DEF SInv

\* The step of a greenlet of b that sends an event about b: what is left to show
\* concerns b alone.
LEMMA OthersAlike ==
    ASSUME IInv, SInv, NEW b \in Conns, NEW k \in {"recv", "send"}, NEW f \in Events, f.conn = b,
           _send_event(<<k, b>>, f), UNCHANGED <<id, appVars>>,
           NEW s \in {"main", "dead"}, NEW r,
           state' = state \/ (state' = [state EXCEPT ![b] = s] /\ (s = "main" => state[b] # "dead")),
           recv' = recv \/ recv' = [recv EXCEPT ![b] = r],
           One(b)'
    PROVE  SInv'
<1>1. /\ state'[b] = state[b] \/ (state'[b] = s /\ (s = "main" => state[b] # "dead"))
      /\ \A c \in Conns : c # b => state'[c] = state[c] /\ recv'[c] = recv[c]
  BY Zenon DEF IInv, TypeOK
<1>2. \A c \in Conns : state[c] = "dead" => state'[c] = "dead"
  BY <1>1, Zenon
<1>3. ReplacedIsDead' /\ \A c \in Conns : Kept(c)
  BY <1>2, StillReplaced, Zenon
<1>4. ASSUME NEW c \in Conns, c # b PROVE One(c)'
  <2>1. One(c)
    BY Zenon DEF SInv
  <2>2. f # MAIN(c) /\ f # DEAD(c)
    BY <1>4 DEF MAIN, DEAD, StateEvent
  <2>3. QueueAlike(c) /\ PendAlike(c)
    BY <2>2, <1>4, SendAlike, Zenon DEF IInv
  <2>4. SelfAlike(c)
    BY <1>1, <1>4, Zenon DEF SelfAlike
  <2>. QED BY <2>1, <2>3, <2>4, <1>3, AlikeOne, Zenon
<1>. QED BY <1>3, <1>4, Zenon DEF SInv

\* MAIN is announced by a greenlet that serves a connection nobody declared dead.
LEMMA HandshakeSInv ==
    ASSUME IInv, SInv, NEW c \in Conns, multipart_reply_handler(c)
    PROVE  SInv'
<1>1. /\ UNCHANGED <<id, recv, appVars>> /\ recv[c] = "run" /\ Blocked(c) = None
      /\ state[c] = "config" /\ state' = [state EXCEPT ![c] = "main"] /\ _send_event(<<"recv", c>>, MAIN(c))
  BY Zenon DEF multipart_reply_handler, Reads, Receiving, Dispatched, MAIN, Blocked
<1>2. state'[c] = "main" /\ state[c] # "dead" /\ recv'[c] # "off" /\ ~ Over(c)'
  BY <1>1, Zenon DEF IInv, TypeOK, Over
<1>3. MAIN(c) \in Events /\ MAIN(c).conn = c /\ MAIN(c) # DEAD(c)
  <2>1. MAIN(c).conn = c
    BY Zenon DEF MAIN, StateEvent
  <2>. QED BY <2>1, EventsDiffer, Zenon
<1>4. One(c)
  BY Zenon DEF SInv
<1>5. InQueue(queue', DEAD(c)) => InQueue(queue, DEAD(c))
  <2>1. PICK q \in Seq(Events) : q = queue
    BY Zenon DEF IInv, TypeOK
  <2>2. InQueue(Append(q, MAIN(c)), DEAD(c)) => InQueue(q, DEAD(c))
    BY <1>3, InAppend, Zenon
  <2>. QED BY <2>1, <2>2, <1>1, Zenon DEF _send_event
<1>6. \A g \in Greenlets : pend'[g] = pend[g] \/ (g = <<"recv", c>> /\ pend'[g] = MAIN(c))
  <2>1. pend' = pend \/ pend' = [pend EXCEPT ![<<"recv", c>>] = MAIN(c)]
    BY <1>1, Zenon DEF _send_event
  <2>. QED BY <2>1, Zenon DEF IInv, TypeOK
<1>7. InQueue(queue', MAIN(c)) \/ Blocked(c)' = MAIN(c)
  <2>1. CASE queue' = Append(queue, MAIN(c))
    <3>1. PICK q \in Seq(Events) : q = queue
      BY Zenon DEF IInv, TypeOK
    <3>2. InQueue(Append(q, MAIN(c)), MAIN(c))
      BY <1>3, InAppend, Zenon
    <3>. QED BY <2>1, <3>1, <3>2, Zenon
  <2>2. CASE pend' = [pend EXCEPT ![<<"recv", c>>] = MAIN(c)]
    <3>1. <<"recv", c>> \in Greenlets
      BY Zenon DEF Greenlets
    <3>. QED BY <2>2, <3>1, Zenon DEF IInv, TypeOK, Blocked
  <2>. QED BY <2>1, <2>2, <1>1, Zenon DEF _send_event
<1>8. Truthful(c)'
  BY <1>2, <1>3, <1>4, <1>5, <1>6, Zenon DEF One, Truthful
<1>9. One(c)'
  BY <1>2, <1>7, <1>8, Zenon DEF One, Reached, Leaving
<1>. QED BY <1>1, <1>2, <1>3, <1>9, OthersAlike, Zenon

\* Port status messages and those nobody handles.
LEMMA PortStatusSInv ==
    ASSUME IInv, SInv, NEW b \in Conns, recv_port_status(b) \/ recv_ignored(b)
    PROVE  SInv'
<1>1. /\ UNCHANGED <<state, id, recv, appVars>>
      /\ recv[b] = "run" /\ Blocked(b) = None
      /\ \/ Head(chan[b]) \in PortMsgs /\ _send_event(<<"recv", b>>, PortEvent(b, Head(chan[b])))
         \/ UNCHANGED <<queue, pend>>
  <2>1. Head(chan[b]).type = "port" /\ Head(chan[b]) \in Msgs => Head(chan[b]) \in PortMsgs
    BY Zenon DEF Msgs, DescMsgs
  <2>2. Reads(b)
    BY Zenon DEF recv_port_status, recv_ignored
  <2>3. recv[b] = "run" /\ Blocked(b) = None
    BY <2>2, Zenon DEF Reads, Receiving, Blocked
  <2>. QED BY <2>1, <2>2, <2>3, ReadsMessage, Zenon DEF recv_port_status, recv_ignored
<1>2. ReplacedIsDead' /\ \A c \in Conns : Kept(c) /\ SelfAlike(c)
  BY <1>1, StillReplaced, Zenon DEF SelfAlike
<1>3. ASSUME NEW c \in Conns PROVE QueueAlike(c) /\ PendAlike(c)
  <2>1. CASE UNCHANGED <<queue, pend>>
    BY <2>1, Zenon DEF QueueAlike, PendAlike, Blocked
  <2>2. ASSUME Head(chan[b]) \in PortMsgs, _send_event(<<"recv", b>>, PortEvent(b, Head(chan[b])))
        PROVE  QueueAlike(c) /\ PendAlike(c)
    <3>1. PICK m \in PortMsgs : m = Head(chan[b])
      BY <2>2, Zenon
    <3>2. m.port \in Ports /\ m.val \in PortVal /\ m.reason \in {"add", "delete", "modify"}
      BY Zenon DEF PortMsgs
    <3>3. PortEvent(b, m) \in Events /\ PortEvent(b, m).type = "port"
      BY <3>2, Zenon DEF PortEvent, Events, PortEvents
    <3>4. PICK f \in Events : f = PortEvent(b, m) /\ f.type = "port"
      BY <3>3, Zenon
    <3>5. f # MAIN(c) /\ f # DEAD(c)
      BY <3>4 DEF MAIN, DEAD, StateEvent
    <3>6. b # c \/ (recv[c] = "run" /\ Blocked(c) = None)
      BY <1>1, Zenon
    <3>. QED BY <2>2, <3>1, <3>4, <3>5, <3>6, SendAlike, Zenon DEF IInv
  <2>. QED BY <1>1, <2>1, <2>2, Zenon
<1>4. ASSUME NEW c \in Conns PROVE One(c)'
  <2>1. One(c)
    BY Zenon DEF SInv
  <2>. QED BY <2>1, <1>2, <1>3, AlikeOne, Zenon
<1>. QED BY <1>2, <1>4, Zenon DEF SInv

RecvMoves(c) == recv' = recv \/ \E r \in {"ended", "joining", "closed"} : recv' = [recv EXCEPT ![c] = r]

\* DEAD is announced by a greenlet of c: by the serving one when its receive
\* loop ends, by either before or after.
LEMMA DeadSInv ==
    ASSUME IInv, SInv, NEW c \in Conns, NEW k \in {"recv", "send"}, _send_event(<<k, c>>, DEAD(c)),
           UNCHANGED <<id, appVars>>,
           state' = [state EXCEPT ![c] = "dead"] \/ (state' = state /\ state[c] = "dead"),
           RecvMoves(c), Over(c)' => Over(c) \/ (k = "recv" /\ Blocked(c) = None)
    PROVE  SInv'
<1>1. state'[c] = "dead"
  BY Zenon DEF IInv, TypeOK
<1>2. DEAD(c) \in Events /\ DEAD(c).conn = c /\ MAIN(c) # DEAD(c) /\ MAIN(c) # None
  <2>1. DEAD(c).conn = c
    BY Zenon DEF DEAD, StateEvent
  <2>. QED BY <2>1, EventsDiffer, Zenon
<1>3. One(c)
  BY Zenon DEF SInv
<1>4. <<"recv", c>> \in Greenlets /\ <<k, c>> \in Greenlets
  BY Zenon DEF Greenlets
<1>5. pend' = pend \/ pend' = [pend EXCEPT ![<<k, c>>] = DEAD(c)]
  BY Zenon DEF _send_event
<1>6. \A g \in Greenlets : pend'[g] = pend[g] \/ pend'[g] = DEAD(c)
  BY <1>5, Zenon DEF IInv, TypeOK
<1>7. recv'[c] = recv[c] \/ recv'[c] # "off"
  BY Zenon DEF IInv, TypeOK, RecvMoves
<1>8. Truthful(c)'
  BY <1>1, <1>2, <1>3, <1>6, <1>7, Zenon DEF One, Truthful
<1>9. ASSUME Over(c)', dpset' = "run"
      PROVE  /\ Blocked(c)' # MAIN(c)
             /\ Following(queue', Blocked(c)', c)
             /\ (Current(c) \/ closing = c)' => Blocked(c)' = DEAD(c) \/ InQueue(queue', DEAD(c))
  <2>1. UNCHANGED <<dpset, closing, dps>>
    BY Zenon DEF appVars
  <2>2. Over(c) => Leaving(c)
    BY <1>3, <1>9, <2>1, Zenon DEF One
  <2>3. Blocked(c)' # MAIN(c)
    <3>1. Blocked(c)' = Blocked(c) \/ Blocked(c)' = DEAD(c)
      BY <1>4, <1>6, Zenon DEF Blocked
    <3>. QED BY <1>2, <1>9, <2>2, <3>1, Zenon DEF Leaving
  <2>4. PICK q \in Seq(Events) : q = queue
    BY Zenon DEF IInv, TypeOK
  <2>5. PICK p : p = Blocked(c)'
    OBVIOUS
  <2>6. CASE queue' = Append(queue, DEAD(c))
    <3>1. InQueue(Append(q, DEAD(c)), DEAD(c))
      BY <1>2, InAppend, Zenon
    <3>2. Following(Append(q, DEAD(c)), p, c)
      BY <1>2, FollowingAppend, Zenon
    <3>. QED BY <2>3, <2>4, <2>5, <2>6, <3>1, <3>2, Zenon
  <2>7. CASE pend' = [pend EXCEPT ![<<k, c>>] = DEAD(c)] /\ UNCHANGED queue
    <3>1. CASE k = "recv"
      <4>1. Blocked(c)' = DEAD(c)
        BY <2>7, <3>1, <1>4, Zenon DEF IInv, TypeOK, Blocked
      <4>2. Following(q, DEAD(c), c)
        BY <1>2, FollowingAppend, Zenon
      <4>. QED BY <2>3, <2>4, <2>7, <4>1, <4>2, Zenon
    <3>2. CASE k = "send"
      <4>1. Blocked(c)' = Blocked(c)
        BY <2>7, <3>2, <1>4, Zenon DEF IInv, TypeOK, Blocked
      <4>2. Over(c) /\ Leaving(c)
        BY <3>2, <1>9, <2>2, Zenon
      <4>3. (Current(c) \/ closing = c)' => Current(c) \/ closing = c
        BY <2>1, Zenon DEF Current
      <4>. QED BY <2>7, <4>1, <4>2, <4>3, Zenon DEF Leaving
    <3>. QED BY <3>1, <3>2, Zenon
  <2>. QED BY <2>6, <2>7, Zenon DEF _send_event
<1>10. One(c)'
  BY <1>1, <1>8, <1>9, Zenon DEF One, Reached, Leaving
<1>11. state' = state \/ state' = [state EXCEPT ![c] = "dead"]
  OBVIOUS
<1>12. PICK r : recv' = recv \/ recv' = [recv EXCEPT ![c] = r]
  BY Zenon DEF RecvMoves
<1>. QED BY <1>2, <1>10, <1>11, <1>12, OthersAlike, Zenon

\* The ways a connection ends.
LEMMA EndSInv ==
    ASSUME IInv, SInv, NEW c \in Conns,
           recv_loop_end(c) \/ send_loop_end(c) \/ serve_kill(c) \/ serve_close(c)
    PROVE  SInv'
<1>1. CASE recv_loop_end(c)
  <2>1. /\ recv' = [recv EXCEPT ![c] = "ended"] /\ UNCHANGED <<id, appVars>> /\ state' = [state EXCEPT ![c] = "dead"]
        /\ _send_event(<<"recv", c>>, DEAD(c)) /\ Blocked(c) = None
    BY <1>1, Zenon DEF recv_loop_end, _deactivate, Receiving, Blocked, DEAD
  <2>2. RecvMoves(c)
    BY <2>1, Zenon DEF RecvMoves
  <2>. QED BY <2>1, <2>2, DeadSInv, Zenon
<1>2. CASE send_loop_end(c)
  <2>1. /\ recv' = recv /\ UNCHANGED <<id, appVars>> /\ state' = [state EXCEPT ![c] = "dead"]
        /\ _send_event(<<"send", c>>, DEAD(c))
    BY <1>2, Zenon DEF send_loop_end, _deactivate, DEAD
  <2>2. (Over(c)' => Over(c)) /\ RecvMoves(c)
    BY <2>1, Zenon DEF Over, RecvMoves
  <2>. QED BY <2>1, <2>2, DeadSInv, Zenon
<1>3. CASE serve_close(c)
  <2>1. /\ recv' = [recv EXCEPT ![c] = "closed"] /\ UNCHANGED <<id, appVars>> /\ state' = [state EXCEPT ![c] = "dead"]
        /\ _send_event(<<"recv", c>>, DEAD(c)) /\ Over(c)
    BY <1>3, Zenon DEF serve_close, _deactivate, DEAD, Over
  <2>2. RecvMoves(c)
    BY <2>1, Zenon DEF RecvMoves
  <2>. QED BY <2>1, <2>2, DeadSInv, Zenon
<1>4. CASE serve_kill(c)
  <2>1. /\ recv' = [recv EXCEPT ![c] = "joining"] /\ UNCHANGED <<id, state, appVars>> /\ Over(c)
    BY <1>4, Zenon DEF serve_kill, Over
  <2>2. state[c] = "dead" /\ RecvMoves(c)
    BY <2>1, Zenon DEF SInv, One, Truthful, RecvMoves
  <2>3. CASE _send_event(<<"send", c>>, DEAD(c))
    BY <2>1, <2>2, <2>3, DeadSInv, Zenon
  <2>4. CASE pend' = [pend EXCEPT ![<<"send", c>>] = None] /\ UNCHANGED queue
    <3>1. ReplacedIsDead' /\ \A b \in Conns : Kept(b)
      BY <2>1, StillReplaced, Zenon
    <3>2. ASSUME NEW b \in Conns PROVE One(b)'
      <4>1. One(b)
        BY Zenon DEF SInv
      <4>2. SelfAlike(b)
        BY <2>1, Zenon DEF SelfAlike, IInv, TypeOK
      <4>3. QueueAlike(b)
        BY <2>4, Zenon DEF QueueAlike
      <4>4. PendAlike(b)
        <5>1. \A g \in Greenlets : pend'[g] = pend[g] \/ pend'[g] = None
          BY <2>4, Zenon DEF IInv, TypeOK
        <5>2. pend'[<<"recv", b>>] = pend[<<"recv", b>>]
          <6>1. <<"recv", b>> \in Greenlets
            BY Zenon DEF Greenlets
          <6>. QED BY <2>4, <6>1, Zenon DEF IInv, TypeOK
        <5>3. MAIN(b) # None /\ DEAD(b) # None
          BY EventsDiffer, Zenon
        <5>. QED BY <5>1, <5>2, <5>3, Zenon DEF PendAlike, Blocked
      <4>. QED BY <3>1, <4>1, <4>2, <4>3, <4>4, AlikeOne, Zenon
    <3>. QED BY <3>1, <3>2, Zenon DEF SInv
  <2>. QED BY <1>4, <2>3, <2>4, Zenon DEF serve_kill, DEAD
<1>. QED BY <1>1, <1>2, <1>3, <1>4, Zenon

\* A blocked greenlet puts its event.
LEMMA UnblockSInv ==
    ASSUME IInv, SInv, NEW g \in Greenlets, Unblock(g)
    PROVE  SInv'
<1>1. UNCHANGED <<state, id, recv, appVars>> /\ queue' = Append(queue, pend[g]) /\ pend' = [pend EXCEPT ![g] = None]
  BY Zenon DEF Unblock
<1>2. PICK f \in Events : f = pend[g]
  BY Zenon DEF Unblock, IInv, TypeOK
<1>3. PICK q \in Seq(Events) : q = queue
  BY Zenon DEF IInv, TypeOK
<1>4. \A h \in Greenlets : pend'[h] = None \/ (h # g /\ pend'[h] = pend[h])
  BY <1>1, Zenon DEF IInv, TypeOK
<1>5. ReplacedIsDead' /\ \A c \in Conns : Kept(c) /\ SelfAlike(c)
  BY <1>1, StillReplaced, Zenon DEF SelfAlike
<1>6. ASSUME NEW c \in Conns PROVE One(c)'
  <2>1. One(c)
    BY Zenon DEF SInv
  <2>2. MAIN(c) # None /\ DEAD(c) # None /\ MAIN(c) # DEAD(c) /\ MAIN(c) \in Events /\ DEAD(c) \in Events
    BY EventsDiffer, Zenon
  <2>3. <<"recv", c>> \in Greenlets
    BY Zenon DEF Greenlets
  <2>4. CASE f # MAIN(c) /\ f # DEAD(c)
    <3>1. QueueAlike(c)
      BY <2>4, <1>1, <1>2, AppendAlike, Zenon DEF IInv
    <3>2. PendAlike(c)
      BY <2>2, <2>3, <2>4, <1>1, <1>2, <1>4, Zenon DEF PendAlike, Blocked, IInv, TypeOK
    <3>. QED BY <2>1, <3>1, <3>2, <1>5, AlikeOne, Zenon
  <2>5. CASE f = MAIN(c)
    <3>1. g = <<"recv", c>> /\ Blocked(c) = MAIN(c)
      BY <2>1, <2>5, <1>2, Zenon DEF One, Truthful, Blocked
    <3>2. InQueue(Append(q, f), MAIN(c)) /\ (InQueue(Append(q, f), DEAD(c)) => InQueue(q, DEAD(c)))
      BY <2>2, <2>5, InAppend, Zenon
    <3>3. Truthful(c)'
      <4>1. InQueue(queue', DEAD(c)) => InQueue(queue, DEAD(c))
        BY <3>2, <1>1, <1>2, <1>3, Zenon
      <4>2. Over(c)' = Over(c)
        BY <1>1, Zenon DEF Over
      <4>. QED BY <2>1, <2>2, <4>1, <4>2, <1>1, <1>4, Zenon DEF One, Truthful
    <3>4. InQueue(queue', MAIN(c))
      BY <3>2, <1>1, <1>2, <1>3, Zenon
    <3>5. dpset' = "run" => ~ Over(c)'
      <4>1. dpset' = dpset /\ recv' = recv
        BY <1>1, Zenon DEF appVars
      <4>. QED BY <2>1, <3>1, <4>1, Zenon DEF One, Leaving, Over
    <3>. QED BY <3>3, <3>4, <3>5, Zenon DEF One, Reached, Leaving
  <2>6. CASE f = DEAD(c)
    <3>1. state'[c] = "dead"
      BY <2>1, <2>6, <1>1, <1>2, Zenon DEF One, Truthful
    <3>2. PICK p : p = Blocked(c)'
      OBVIOUS
    <3>3. InQueue(Append(q, DEAD(c)), DEAD(c)) /\ Following(Append(q, DEAD(c)), p, c)
      BY <2>2, InAppend, FollowingAppend, Zenon
    <3>4. InQueue(queue', DEAD(c)) /\ Following(queue', Blocked(c)', c)
      BY <2>6, <3>2, <3>3, <1>1, <1>2, <1>3, Zenon
    <3>5. Truthful(c)'
      BY <2>1, <2>2, <3>1, <1>1, <1>4, Zenon DEF One, Truthful
    <3>6. ASSUME dpset' = "run", Over(c)' PROVE Blocked(c)' # MAIN(c)
      <4>1. dpset' = dpset /\ recv' = recv
        BY <1>1, Zenon DEF appVars
      <4>2. Blocked(c) # MAIN(c)
        BY <3>6, <2>1, <4>1, Zenon DEF One, Leaving, Over
      <4>. QED BY <4>2, <2>2, <2>3, <1>4, Zenon DEF Blocked
    <3>. QED BY <3>1, <3>4, <3>5, <3>6, Zenon DEF One, Reached, Leaving
  <2>. QED BY <2>4, <2>5, <2>6, Zenon
<1>. QED BY <1>5, <1>6, Zenon DEF SInv

\* A connection is filed under its own id and no other.
LEMMA FiledOnce ==
    ASSUME IInv, NEW c \in Conns, NEW d \in Dpids, dps[d] = c
    PROVE  id[c] = d
BY ConstantsAssumption, Zenon DEF IInv, RegistryConsistent

\* What is left of the promises about c when a DEAD of c was just put.
LEMMA JustSaid ==
    ASSUME NEW c \in Conns, One(c), state'[c] = "dead", UNCHANGED <<id, recv, pend>>,
           dpset' = "run" => dpset = "run",
           NEW q \in Seq(Events), queue' = Append(q, DEAD(c))
    PROVE  One(c)'
<1>1. DEAD(c) \in Events
  BY EventsDiffer, Zenon
<1>2. PICK p : p = Blocked(c)'
  OBVIOUS
<1>3. InQueue(Append(q, DEAD(c)), DEAD(c)) /\ Following(Append(q, DEAD(c)), p, c)
  BY <1>1, InAppend, FollowingAppend, Zenon
<1>4. InQueue(queue', DEAD(c)) /\ Following(queue', Blocked(c)', c)
  BY <1>2, <1>3, Zenon
<1>5. Over(c)' = Over(c) /\ Blocked(c)' = Blocked(c)
  BY Zenon DEF Over, Blocked
<1>6. Truthful(c)'
  BY Zenon DEF One, Truthful
<1>7. dpset' = "run" /\ Over(c)' => Blocked(c)' # MAIN(c)
  BY <1>5, Zenon DEF One, Leaving
<1>. QED BY <1>4, <1>6, <1>7, Zenon DEF One, Reached, Leaving

\* The registration that was held up is completed.
LEMMA ResumeSInv ==
    ASSUME IInv, SInv, register_resume
    PROVE  SInv'
<1>1. PICK b \in Conns : b = closing
  BY Zenon DEF register_resume, IInv, TypeOK
<1>2. PICK d \in Dpids : d = id[b]
  BY <1>1, ConstantsAssumption, Zenon DEF register_resume, IInv, TypeOK, ClosingInv
<1>3. PICK old \in Conns : old = dps[d]
  BY <1>1, <1>2, Zenon DEF register_resume, IInv, TypeOK, ClosingInv
<1>4. /\ queue' = Append(queue, DEAD(old)) /\ dps' = [dps EXCEPT ![d] = b] /\ closing' = None /\ b # None
      /\ UNCHANGED <<state, id, recv, pend, dpset>>
  BY <1>1, <1>2, <1>3, Zenon DEF register_resume, connVars, DEAD
<1>5. state[old] = "dead"
  BY <1>1, <1>2, <1>3, <1>4, Zenon DEF SInv, ReplacedIsDead
<1>6. ReplacedIsDead'
  BY <1>4, Zenon DEF ReplacedIsDead
<1>7. queue \in Seq(Events) /\ DEAD(old) \in Events
  BY EventsDiffer, Zenon DEF IInv, TypeOK
<1>8. /\ dps'[d] = b
      /\ \A k \in Dpids : k # d => dps'[k] = dps[k]
  BY <1>4, Zenon DEF IInv, TypeOK
<1>9. ASSUME NEW c \in Conns PROVE One(c)'
  <2>1. One(c)
    BY Zenon DEF SInv
  <2>2. CASE c = old
    BY <2>1, <2>2, <1>4, <1>5, <1>7, JustSaid, Zenon
  <2>3. CASE c # old
    <3>1. PendAlike(c) /\ SelfAlike(c)
      BY <1>4, Zenon DEF PendAlike, SelfAlike, Blocked
    <3>2. DEAD(old) # MAIN(c) /\ DEAD(old) # DEAD(c)
      BY <2>3, EventsDiffer, Zenon
    <3>3. QueueAlike(c)
      BY <3>2, <1>4, <1>7, AppendAlike, Zenon DEF IInv
    <3>4. Kept(c)
      <4>1. state[c] = "main" => id[c] \in Dpids
        BY DEF IInv, HandshakeInv, TypeOK
      <4>2. state[c] = "main" /\ dps[id[c]] = c => dps'[id[c]] = c
        BY <4>1, <2>3, <1>3, <1>8, Zenon
      <4>3. closing = c => dps'[id[c]] = c
        BY <1>1, <1>2, <1>8, Zenon
      <4>4. (\E k \in Dpids : dps'[k] = c) => Current(c) \/ closing = c
        BY <1>1, <1>8, Zenon DEF Current
      <4>5. closing' # c
        BY <1>4, ConstantsAssumption, Zenon
      <4>. QED BY <4>2, <4>3, <4>4, <4>5, <1>4, Zenon DEF Kept
    <3>. QED BY <2>1, <3>1, <3>3, <3>4, AlikeOne, Zenon
  <2>. QED BY <2>2, <2>3, Zenon
<1>. QED BY <1>6, <1>9, Zenon DEF SInv

\* dpset takes an event: nobody else moves.
LEMMA TakenS ==
    ASSUME IInv, NEW e, Take(e)
    PROVE  /\ UNCHANGED <<id, recv, pend>>
           /\ dpset = "run" /\ closing = None /\ queue # <<>> /\ e = Head(queue)
           /\ queue \in Seq(Events) /\ Tail(queue) \in Seq(Events)
           /\ e \in Events /\ e.conn \in Conns /\ id[e.conn] \in Dpids
           /\ \A c \in Conns : PendAlike(c)
<1>1. /\ UNCHANGED <<id, recv, pend>> /\ e \in Events /\ e.conn \in Conns /\ id[e.conn] \in Dpids
      /\ dpset = "run" /\ closing = None /\ queue # <<>> /\ Tail(queue) \in Seq(Events)
  BY Taken, Zenon
<1>2. queue \in Seq(Events) /\ e = Head(queue)
  BY Zenon DEF IInv, TypeOK, Take
<1>3. \A c \in Conns : PendAlike(c)
  BY <1>1, Zenon DEF PendAlike, Blocked
<1>. QED BY <1>1, <1>2, <1>3, Zenon

\* The queue after its first event was taken, which may have been a MAIN of c.
LEMMA TakenMain ==
    ASSUME TypeOK, NEW c \in Conns, Truthful(c), Leaving(c), queue # <<>>, Head(queue) = MAIN(c), Over(c)
    PROVE  /\ Following(Tail(queue), Blocked(c), c)
           /\ Blocked(c) = DEAD(c) \/ InQueue(Tail(queue), DEAD(c))
<1>1. PICK q \in Seq(Events) : q = queue
  BY Zenon DEF TypeOK
<1>2. PICK p : p = Blocked(c)
  OBVIOUS
<1>3. Following(q, p, c)
  BY <1>1, <1>2, Zenon DEF Leaving
<1>4. Following(Tail(q), p, c) /\ (p = DEAD(c) \/ InQueue(Tail(q), DEAD(c)))
  BY <1>1, <1>3, FollowingTail, Zenon
<1>. QED BY <1>1, <1>2, <1>4, Zenon

\* A connection that is registered, or on its way to it, by the MAIN just taken.
LEMMA TakenOne ==
    ASSUME TypeOK, NEW c \in Conns, One(c), queue # <<>>, Head(queue) = MAIN(c), dpset = "run",
           UNCHANGED <<id, recv, pend>>, queue' = Tail(queue),
           state'[c] = state[c] \/ state'[c] = "dead",
           state'[c] = "main" => dps'[id[c]] = c \/ closing' = c
    PROVE  One(c)'
<1>1. PICK q \in Seq(Events) : q = queue
  BY Zenon DEF TypeOK
<1>2. InQueue(queue', DEAD(c)) => InQueue(queue, DEAD(c))
  <2>1. InQueue(Tail(q), DEAD(c)) => InQueue(q, DEAD(c))
    BY <1>1, InTail, Zenon
  <2>. QED BY <2>1, <1>1, Zenon
<1>3. Over(c)' = Over(c) /\ Blocked(c)' = Blocked(c)
  BY Zenon DEF Over, Blocked
<1>4. Truthful(c)'
  BY <1>2, <1>3, Zenon DEF One, Truthful
<1>5. Reached(c)'
  BY Zenon DEF Reached
<1>6. Leaving(c)'
  <2>1. Over(c) => Following(queue', Blocked(c), c) /\ (Blocked(c) = DEAD(c) \/ InQueue(queue', DEAD(c)))
    BY TakenMain, Zenon DEF One
  <2>. QED BY <2>1, <1>3, Zenon DEF One, Leaving
<1>. QED BY <1>4, <1>5, <1>6, Zenon DEF One

LEMMA RegisterNewSInv ==
    ASSUME IInv, SInv, NEW b \in Conns, Take(MAIN(b)), register_new(b)
    PROVE  SInv'
<1>1. /\ UNCHANGED <<id, recv, pend>> /\ dpset = "run" /\ closing = None /\ queue # <<>> /\ MAIN(b) = Head(queue)
      /\ \A c \in Conns : PendAlike(c)
  BY TakenS, Zenon
<1>2. PICK d \in Dpids : d = id[b]
  <2>1. MAIN(b).conn = b
    BY Zenon DEF MAIN, StateEvent
  <2>. QED BY <2>1, TakenS, Zenon
<1>3. /\ dps[d] = None /\ dps' = [dps EXCEPT ![d] = b] /\ queue' = Tail(queue)
      /\ UNCHANGED <<state, dpset, closing>>
  BY <1>2, Zenon DEF register_new
<1>4. dps'[d] = b /\ \A k \in Dpids : k # d => dps'[k] = dps[k]
  BY <1>3, Zenon DEF IInv, TypeOK
<1>5. ReplacedIsDead'
  BY <1>1, <1>3, Zenon DEF ReplacedIsDead
<1>6. ASSUME NEW c \in Conns PROVE One(c)'
  <2>1. One(c)
    BY Zenon DEF SInv
  <2>2. CASE c = b
    BY <2>1, <2>2, <1>1, <1>2, <1>3, <1>4, TakenOne, Zenon DEF IInv
  <2>3. CASE c # b
    <3>1. MAIN(b) # MAIN(c) /\ MAIN(b) # DEAD(c)
      BY <2>3, EventsDiffer, Zenon
    <3>2. QueueAlike(c)
      BY <3>1, <1>1, <1>3, TailAlike, Zenon DEF IInv
    <3>3. SelfAlike(c)
      BY <1>1, <1>3, Zenon DEF SelfAlike
    <3>4. Kept(c)
      <4>1. state[c] = "main" => id[c] \in Dpids
        BY DEF IInv, HandshakeInv, TypeOK
      <4>2. c # None
        BY ConstantsAssumption, Zenon
      <4>3. state[c] = "main" /\ dps[id[c]] = c => dps'[id[c]] = c
        BY <4>1, <4>2, <1>3, <1>4, Zenon
      <4>4. (\E k \in Dpids : dps'[k] = c) => Current(c)
        BY <2>3, <1>4, Zenon DEF Current
      <4>. QED BY <4>3, <4>4, <1>1, <1>3, Zenon DEF Kept
    <3>. QED BY <2>1, <3>2, <3>3, <3>4, <1>1, AlikeOne, Zenon
  <2>. QED BY <2>2, <2>3, Zenon
<1>. QED BY <1>5, <1>6, Zenon DEF SInv

LEMMA RegisterAgainSInv ==
    ASSUME IInv, SInv, NEW b \in Conns, Take(MAIN(b)), register_again(b)
    PROVE  SInv'
<1>1. /\ UNCHANGED <<id, recv, pend>> /\ dpset = "run" /\ closing = None /\ queue # <<>> /\ MAIN(b) = Head(queue)
      /\ Tail(queue) \in Seq(Events)
      /\ \A c \in Conns : PendAlike(c)
  BY TakenS, Zenon
<1>2. PICK d \in Dpids : d = id[b]
  <2>1. MAIN(b).conn = b
    BY Zenon DEF MAIN, StateEvent
  <2>. QED BY <2>1, TakenS, Zenon
<1>3. PICK old \in Conns : old = dps[d]
  BY <1>2, Zenon DEF register_again, IInv, TypeOK
<1>4. /\ state' = [state EXCEPT ![old] = "dead"] /\ UNCHANGED dpset
      /\ \/ queue' = Append(Tail(queue), DEAD(old)) /\ dps' = [dps EXCEPT ![d] = b] /\ UNCHANGED closing
         \/ queue' = Tail(queue) /\ closing' = b /\ UNCHANGED dps
  BY <1>2, <1>3, Zenon DEF register_again, DEAD
<1>5. state'[old] = "dead" /\ \A c \in Conns : c # old => state'[c] = state[c]
  BY <1>4, Zenon DEF IInv, TypeOK
<1>6. DEAD(old) \in Events /\ b # None /\ closing # b
  BY <1>1, EventsDiffer, ConstantsAssumption, Zenon
<1>7. CASE queue' = Append(Tail(queue), DEAD(old)) /\ dps' = [dps EXCEPT ![d] = b] /\ UNCHANGED closing
  <2>1. ReplacedIsDead'
    BY <1>1, <1>7, Zenon DEF ReplacedIsDead
  <2>2. dps'[d] = b /\ \A k \in Dpids : k # d => dps'[k] = dps[k]
    BY <1>7, Zenon DEF IInv, TypeOK
  <2>3. ASSUME NEW c \in Conns PROVE One(c)'
    <3>1. One(c)
      BY Zenon DEF SInv
    <3>2. CASE c = old
      BY <3>1, <3>2, <1>1, <1>4, <1>5, <1>7, JustSaid, Zenon
    <3>3. CASE c # old /\ c = b
      <4>1. PICK q \in Seq(Events) : q = Tail(queue)
        BY <1>1, Zenon
      <4>2. PICK p : p = Blocked(c)
        BY Zenon
      <4>3. DEAD(old) # MAIN(c) /\ DEAD(old) # DEAD(c)
        BY <3>3, EventsDiffer, Zenon
      <4>4. /\ InQueue(Append(q, DEAD(old)), DEAD(c)) <=> InQueue(q, DEAD(c))
            /\ Following(q, p, c) => Following(Append(q, DEAD(old)), p, c)
        BY <4>3, <1>6, InAppend, FollowingAppend, Zenon
      <4>5. InQueue(q, DEAD(c)) => InQueue(queue, DEAD(c))
        BY <1>1, <4>1, InTail, Zenon DEF IInv, TypeOK
      <4>6. Over(c)' = Over(c) /\ Blocked(c)' = Blocked(c)
        BY <1>1, Zenon DEF Over, Blocked
      <4>7. Truthful(c)'
        <5>1. InQueue(queue', DEAD(c)) => InQueue(queue, DEAD(c))
          BY <4>1, <4>4, <4>5, <1>7, Zenon
        <5>. QED BY <3>1, <3>3, <4>6, <5>1, <1>1, <1>5, Zenon DEF One, Truthful
      <4>8. Reached(c)'
        BY <3>3, <2>2, <1>1, <1>2, Zenon DEF Reached
      <4>9. Over(c) => Following(Tail(queue), Blocked(c), c) /\ (Blocked(c) = DEAD(c) \/ InQueue(Tail(queue), DEAD(c)))
        BY <3>1, <3>3, <1>1, TakenMain, Zenon DEF One, IInv
      <4>10. Over(c) => Following(queue', Blocked(c), c) /\ (Blocked(c) = DEAD(c) \/ InQueue(queue', DEAD(c)))
        BY <4>1, <4>2, <4>4, <4>9, <1>7, Zenon
      <4>11. Leaving(c)'
        BY <3>1, <4>6, <4>10, <1>1, Zenon DEF One, Leaving
      <4>. QED BY <4>7, <4>8, <4>11, Zenon DEF One
    <3>4. CASE c # old /\ c # b
      <4>1. MAIN(b) # MAIN(c) /\ MAIN(b) # DEAD(c) /\ DEAD(old) # MAIN(c) /\ DEAD(old) # DEAD(c)
        BY <3>4, EventsDiffer, Zenon
      <4>2. QueueAlike(c)
        BY <4>1, <1>1, <1>6, <1>7, TailAppendAlike, Zenon DEF IInv
      <4>3. SelfAlike(c)
        BY <3>4, <1>1, <1>5, Zenon DEF SelfAlike
      <4>4. Kept(c)
        <5>1. state[c] = "main" => id[c] \in Dpids
          BY DEF IInv, HandshakeInv, TypeOK
        <5>2. state[c] = "main" /\ dps[id[c]] = c => dps'[id[c]] = c
          BY <5>1, <3>4, <1>3, <2>2, Zenon
        <5>3. (\E k \in Dpids : dps'[k] = c) => Current(c)
          BY <3>4, <2>2, Zenon DEF Current
        <5>. QED BY <5>2, <5>3, <1>1, <1>4, <1>7, Zenon DEF Kept
      <4>. QED BY <3>1, <4>2, <4>3, <4>4, <1>1, AlikeOne, Zenon
    <3>. QED BY <3>2, <3>3, <3>4, Zenon
  <2>. QED BY <2>1, <2>3, Zenon DEF SInv
<1>8. CASE queue' = Tail(queue) /\ closing' = b /\ UNCHANGED dps
  <2>1. ReplacedIsDead'
    BY <1>1, <1>2, <1>3, <1>5, <1>8, Zenon DEF ReplacedIsDead
  <2>2. ASSUME NEW c \in Conns PROVE One(c)'
    <3>1. One(c)
      BY Zenon DEF SInv
    <3>2. CASE c = b
      <4>1. state'[c] = state[c] \/ state'[c] = "dead"
        BY <1>5, Zenon
      <4>2. closing' = c
        BY <3>2, <1>8, Zenon
      <4>. QED BY <3>1, <3>2, <4>1, <4>2, <1>1, <1>8, TakenOne, Zenon DEF IInv
    <3>3. CASE c # b
      <4>1. MAIN(b) # MAIN(c) /\ MAIN(b) # DEAD(c)
        BY <3>3, EventsDiffer, Zenon
      <4>2. QueueAlike(c)
        BY <4>1, <1>1, <1>8, TailAlike, Zenon DEF IInv
      <4>3. Kept(c)
        <5>1. closing # c /\ closing' # c
          BY <3>3, <1>1, <1>8, ConstantsAssumption, Zenon
        <5>. QED BY <5>1, <1>1, <1>4, <1>8, Zenon DEF Kept, Current
      <4>4. CASE c # old
        <5>1. SelfAlike(c)
          BY <4>4, <1>1, <1>5, Zenon DEF SelfAlike
        <5>. QED BY <3>1, <4>2, <4>3, <5>1, <1>1, AlikeOne, Zenon
      <4>5. CASE c = old
        <5>1. state'[c] = "dead"
          BY <4>5, <1>5, Zenon
        <5>2. Over(c)' = Over(c) /\ Blocked(c)' = Blocked(c)
          BY <1>1, Zenon DEF Over, Blocked
        <5>3. Truthful(c)'
          BY <3>1, <5>1, <5>2, <1>1, Zenon DEF One, Truthful
        <5>4. (Current(c) \/ closing = c)' => Current(c) \/ closing = c
          BY <3>3, <1>8, Zenon DEF Current
        <5>5. Leaving(c)'
          BY <3>1, <4>2, <5>2, <5>4, <1>1, Zenon DEF One, Leaving, QueueAlike
        <5>. QED BY <5>1, <5>3, <5>5, Zenon DEF One, Reached
      <4>. QED BY <4>4, <4>5, Zenon
    <3>. QED BY <3>2, <3>3, Zenon
  <2>. QED BY <2>1, <2>2, Zenon DEF SInv
<1>. QED BY <1>4, <1>7, <1>8, Zenon

\* _unregister: its DEAD is true, and a connection that leaves was the one
\* filed under its id.
LEMMA UnregisterSInv ==
    ASSUME IInv, SInv, NEW b \in Conns, Take(DEAD(b)), _unregister(b)
    PROVE  SInv'
<1>1. /\ UNCHANGED <<id, recv, pend>> /\ dpset = "run" /\ closing = None /\ queue # <<>> /\ DEAD(b) = Head(queue)
      /\ \A c \in Conns : PendAlike(c)
  BY TakenS, Zenon
<1>2. /\ queue' = Tail(queue) /\ UNCHANGED <<state, closing>>
      /\ \/ ~ Current(b) /\ UNCHANGED <<dpset, dps>>
         \/ dpset' = "raised" /\ UNCHANGED dps
         \/ Current(b) /\ UNCHANGED dpset /\ dps' = [dps EXCEPT ![id[b]] = None]
  BY Zenon DEF _unregister, Raise, Leave, appVars
<1>3. ReplacedIsDead'
  BY <1>1, <1>2, Zenon DEF ReplacedIsDead
<1>4. PICK q \in Seq(Events) : q = queue
  BY Zenon DEF IInv, TypeOK
<1>5. state[b] = "dead"
  <2>1. InQueue(q, DEAD(b))
    BY <1>1, <1>4, InTail, Zenon
  <2>. QED BY <2>1, <1>4, Zenon DEF SInv, One, Truthful
<1>6. (\E k \in Dpids : dps'[k] = b) => dpset' = "raised"
  <2>1. Current(b) /\ dps' = [dps EXCEPT ![id[b]] = None] => \A k \in Dpids : dps'[k] # b
    <3>. SUFFICES ASSUME Current(b), dps' = [dps EXCEPT ![id[b]] = None], NEW k \in Dpids, dps'[k] = b
                  PROVE  FALSE
      OBVIOUS
    <3>1. k # id[b] /\ dps[k] = b
      BY ConstantsAssumption, Zenon DEF IInv, TypeOK
    <3>. QED BY <3>1, FiledOnce, Zenon
  <2>. QED BY <2>1, <1>2, Zenon DEF Current
<1>7. \A c \in Conns : c # b => Kept(c)
  <2>. SUFFICES ASSUME NEW c \in Conns, c # b, dpset' = "run" PROVE Kept(c)
    BY Zenon DEF Kept
  <2>1. CASE UNCHANGED dps
    BY <2>1, <1>1, <1>2, Zenon DEF Kept, Current
  <2>2. CASE Current(b) /\ dps' = [dps EXCEPT ![id[b]] = None]
    <3>1. PICK k \in Dpids : dps[k] = b
      BY <2>2, Zenon DEF Current
    <3>2. id[b] = k
      BY <3>1, FiledOnce, Zenon
    <3>3. \A j \in Dpids : dps'[j] = dps[j] \/ (j = k /\ dps'[j] = None)
      BY <2>2, <3>2, Zenon DEF IInv, TypeOK
    <3>4. c # None
      BY ConstantsAssumption, Zenon
    <3>5. state[c] = "main" => id[c] \in Dpids
      BY Zenon DEF IInv, HandshakeInv, TypeOK
    <3>6. state[c] = "main" /\ dps[id[c]] = c => dps'[id[c]] = c
      BY <3>1, <3>3, <3>5, Zenon
    <3>7. (\E j \in Dpids : dps'[j] = c) => Current(c)
      BY <3>3, <3>4, Zenon DEF Current
    <3>. QED BY <3>6, <3>7, <1>1, <1>2, Zenon DEF Kept
  <2>. QED BY <2>1, <2>2, <1>2, Zenon
<1>8. ASSUME NEW c \in Conns PROVE One(c)'
  <2>1. One(c)
    BY Zenon DEF SInv
  <2>2. CASE c # b
    <3>1. DEAD(b) # MAIN(c) /\ DEAD(b) # DEAD(c)
      BY <2>2, EventsDiffer, Zenon
    <3>2. QueueAlike(c)
      BY <3>1, <1>1, <1>2, TailAlike, Zenon DEF IInv
    <3>3. SelfAlike(c)
      BY <1>1, <1>2, Zenon DEF SelfAlike
    <3>. QED BY <2>1, <2>2, <3>2, <3>3, <1>1, <1>7, AlikeOne, Zenon
  <2>3. CASE c = b
    <3>1. Over(c)' = Over(c) /\ Blocked(c)' = Blocked(c) /\ state'[c] = "dead"
      BY <2>3, <1>1, <1>2, <1>5, Zenon DEF Over, Blocked
    <3>2. Truthful(c)'
      BY <2>1, <3>1, <1>1, Zenon DEF One, Truthful
    <3>3. dpset' = "run" => ~ (Current(c) \/ closing = c)'
      BY <2>3, <1>1, <1>2, <1>6, ConstantsAssumption, Zenon DEF Current
    <3>4. Over(c) => Following(queue', Blocked(c), c)
      <4>1. PICK p : p = Blocked(c)
        OBVIOUS
      <4>2. Following(q, p, c) => Following(Tail(q), p, c)
        BY <1>1, <1>4, FollowingTail, Zenon
      <4>3. Over(c) => Following(queue, Blocked(c), c)
        BY <2>1, <1>1, Zenon DEF One, Leaving
      <4>. QED BY <4>1, <4>2, <4>3, <1>2, <1>4, Zenon
    <3>5. Over(c) => Blocked(c) # MAIN(c)
      BY <2>1, <1>1, Zenon DEF One, Leaving
    <3>. QED BY <3>1, <3>2, <3>3, <3>4, <3>5, Zenon DEF One, Reached, Leaving
  <2>. QED BY <2>2, <2>3, Zenon
<1>. QED BY <1>3, <1>8, Zenon DEF SInv

\* A port event is about no registration.
LEMMA PortEventSInv ==
    ASSUME IInv, SInv, NEW e, port_status_handler(e)
    PROVE  SInv'
<1>1. /\ UNCHANGED <<id, recv, pend>> /\ dpset = "run" /\ closing = None /\ queue # <<>> /\ e = Head(queue)
      /\ \A c \in Conns : PendAlike(c)
  <2>1. Take(e)
    BY Zenon DEF port_status_handler
  <2>. QED BY <2>1, TakenS, Zenon
<1>2. /\ queue' = Tail(queue) /\ e.type = "port" /\ UNCHANGED <<state, closing, dps>>
      /\ dpset' = dpset \/ dpset' = "raised"
  BY Zenon DEF port_status_handler, Raise
<1>3. ReplacedIsDead'
  BY <1>1, <1>2, Zenon DEF ReplacedIsDead
<1>4. ASSUME NEW c \in Conns PROVE One(c)'
  <2>1. One(c)
    BY Zenon DEF SInv
  <2>2. e # MAIN(c) /\ e # DEAD(c)
    BY <1>2 DEF MAIN, DEAD, StateEvent
  <2>3. QueueAlike(c)
    BY <2>2, <1>1, <1>2, TailAlike, Zenon DEF IInv
  <2>4. SelfAlike(c) /\ Kept(c)
    BY <1>1, <1>2, Zenon DEF SelfAlike, Kept, Current
  <2>. QED BY <2>1, <2>3, <2>4, <1>1, AlikeOne, Zenon
<1>. QED BY <1>3, <1>4, Zenon DEF SInv

LEMMA StateEventSInv ==
    ASSUME IInv, SInv, NEW e, dispatcher_change(e)
    PROVE  SInv'
<1>1. /\ Take(e) /\ e.type = "state"
      /\ \/ e.state = "main" /\ (register_new(e.conn) \/ register_again(e.conn))
         \/ e.state = "dead" /\ _unregister(e.conn)
  BY Zenon DEF dispatcher_change
<1>2. e \in Events /\ e.conn \in Conns
  BY <1>1, TakenS, Zenon
<1>3. e \in StateEvents
  BY <1>1, <1>2, Zenon DEF Events, PortEvents
<1>4. PICK c \in Conns : c = e.conn /\ (e.state = "main" => e = MAIN(c)) /\ (e.state = "dead" => e = DEAD(c))
  BY <1>3, Zenon DEF StateEvents, MAIN, DEAD, StateEvent
<1>. QED BY <1>1, <1>4, RegisterNewSInv, RegisterAgainSInv, UnregisterSInv, Zenon

LEMMA NextSInv ==
    ASSUME IInv, SInv, [Next]_vars
    PROVE  SInv'
<1>1. CASE UNCHANGED vars
  BY <1>1, EnvironmentSInv, Zenon DEF vars
<1>2. CASE \/ \E d \in Dpids, p \in Ports, v \in PortVal : PortChange(d, p, v)
           \/ \E c \in Conns : LinkDown(c) \/ PortDesc(c)
  BY <1>2, EnvironmentSInv, Zenon DEF PortChange, LinkDown, PortDesc
<1>3. CASE \E c \in Conns, d \in Dpids : Connect(c, d)
  BY <1>3, ConnectSInv, Zenon
<1>4. CASE \E c \in Conns : multipart_reply_handler(c)
  BY <1>4, HandshakeSInv, Zenon
<1>5. CASE \E c \in Conns : recv_port_status(c) \/ recv_ignored(c)
  BY <1>5, PortStatusSInv, Zenon
<1>6. CASE \E c \in Conns : recv_loop_end(c) \/ send_loop_end(c) \/ serve_kill(c) \/ serve_close(c)
  BY <1>6, EndSInv, Zenon
<1>7. CASE \E g \in Greenlets : Unblock(g)
  BY <1>7, UnblockSInv, Zenon
<1>8. CASE register_resume
  BY <1>8, ResumeSInv, Zenon
<1>9. CASE Handle
  BY <1>9, PortEventSInv, StateEventSInv, Zenon DEF Handle
<1>. QED BY <1>1, <1>2, <1>3, <1>4, <1>5, <1>6, <1>7, <1>8, <1>9, Zenon DEF Next

LEMMA SpecSInv == Spec => [](IInv /\ SInv)
<1>1. Init => IInv /\ SInv
  BY InitIInv, InitSInv, Zenon
<1>2. (IInv /\ SInv) /\ [Next]_vars => (IInv /\ SInv)'
  BY NextIInv, NextSInv, Zenon
<1>. QED BY <1>1, <1>2, PTL DEF Spec

-----------------------------------------------------------------------------
(***************************************************************************)
(* The theorems.                                                           *)
(***************************************************************************)

\* Once dpset has caught up with its events, a connection in MAIN is the one it
\* returns for its dpid, whatever connections of the same switch came and went
\* (_register, _unregister).
THEOREM MainComesToBeRegistered == Spec => []MainIsRegistered
<1>1. IInv /\ SInv => MainIsRegistered
  <2>. SUFFICES ASSUME SInv, Settled, NEW c \in Conns, state[c] = "main" PROVE dps[id[c]] = c
    BY Zenon DEF MainIsRegistered
  <2>1. Reached(c) /\ closing # c /\ Blocked(c) = None
    <3>1. <<"recv", c>> \in Greenlets
      BY Zenon DEF Greenlets
    <3>. QED BY <3>1, ConstantsAssumption, Zenon DEF SInv, One, Settled, Blocked
  <2>2. ~ InQueue(queue, MAIN(c))
    BY DEF Settled, InQueue
  <2>3. MAIN(c) # None
    BY EventsDiffer, Zenon
  <2>. QED BY <2>1, <2>2, <2>3, Zenon DEF Reached
<1>. QED BY <1>1, SpecSInv, PTL

\* Once dpset has caught up, it holds on to no connection whose receive loop has
\* ended, although the DEAD of the sending greenlet may overtake MAIN (serve).
THEOREM RegisteredStaysServed == Spec => []RegisteredIsServed
<1>1. IInv /\ SInv => RegisteredIsServed
  <2>. SUFFICES ASSUME IInv, SInv, Settled, NEW c \in Conns, Current(c) PROVE recv[c] = "run"
    BY Zenon DEF RegisteredIsServed
  <2>1. Leaving(c) /\ Truthful(c) /\ Blocked(c) = None
    <3>1. <<"recv", c>> \in Greenlets
      BY Zenon DEF Greenlets
    <3>. QED BY <3>1, Zenon DEF SInv, One, Settled, Blocked
  <2>2. ~ InQueue(queue, DEAD(c))
    BY DEF Settled, InQueue
  <2>3. DEAD(c) # None
    BY EventsDiffer, Zenon
  <2>4. ~ Over(c)
    BY <2>1, <2>2, <2>3, Zenon DEF Leaving
  <2>5. recv[c] # "off"
    <3>1. PICK d \in Dpids : dps[d] = c
      BY Zenon DEF Current
    <3>2. id[c] # None
      BY <3>1, FiledOnce, ConstantsAssumption, Zenon
    <3>. QED BY <2>1, <3>2, Zenon DEF Truthful
  <2>. QED BY <2>4, <2>5, Zenon DEF IInv, TypeOK, Over
<1>. QED BY <1>1, SpecSInv, PTL

\* A connection declared dead, by either of its greenlets or by dpset, never
\* leaves that state: a late port description finds no handler (_deactivate,
\* multipart_reply_handler).
THEOREM DeadStaysDead == Spec => DeadIsFinal
<1>1. ASSUME TypeOK, [Next]_vars PROVE [\A c \in Conns : state[c] = "dead" => state'[c] = "dead"]_vars
  <2>. SUFFICES ASSUME Next, NEW c \in Conns, state[c] = "dead" PROVE state'[c] = "dead"
    BY <1>1, Zenon
  <2>. USE DEF TypeOK
  <2>1. CASE \/ \E d \in Dpids, p \in Ports, v \in PortVal : PortChange(d, p, v)
             \/ \E b \in Conns : LinkDown(b) \/ PortDesc(b) \/ recv_port_status(b) \/ recv_ignored(b) \/ serve_kill(b)
             \/ \E g \in Greenlets : Unblock(g)
             \/ register_resume
    <3>1. state' = state
      BY <2>1, Zenon DEF PortChange, LinkDown, PortDesc, recv_port_status, recv_ignored, serve_kill, Unblock,
                  register_resume, connVars
    <3>. QED BY <3>1, Zenon
  <2>2. CASE \E b \in Conns, d \in Dpids : Connect(b, d)
    BY <2>2, <1>1, Zenon DEF Connect
  <2>3. CASE \E b \in Conns : multipart_reply_handler(b)
    BY <2>3, <1>1, Zenon DEF multipart_reply_handler, Dispatched
  <2>4. CASE \E b \in Conns : recv_loop_end(b) \/ send_loop_end(b) \/ serve_close(b)
    <3>1. PICK b \in Conns : state' = [state EXCEPT ![b] = "dead"]
      BY <2>4, Zenon DEF recv_loop_end, send_loop_end, serve_close, _deactivate
    <3>. QED BY <3>1, <1>1, Zenon
  <2>5. CASE Handle
    <3>1. state' = state \/ \E old : state' = [state EXCEPT ![old] = "dead"]
      BY <2>5, Zenon DEF Handle, dispatcher_change, port_status_handler, register_new, register_again, _unregister, Raise
    <3>. QED BY <3>1, <1>1, Zenon
  <2>. QED BY <2>1, <2>2, <2>3, <2>4, <2>5, Zenon DEF Next
<1>2. IInv => TypeOK
  BY Zenon DEF IInv
<1>. QED BY <1>1, <1>2, SpecSInv, PTL DEF Spec, DeadIsFinal
====
