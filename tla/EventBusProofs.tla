--------------------------- MODULE EventBusProofs ---------------------------
(***************************************************************************)
(* Proofs about the event bus for any applications and clients, any        *)
(* capacity of the queues, and any pattern of events, requests, exceptions *)
(* and stops.                                                              *)
(***************************************************************************)
EXTENDS EventBus, TLAPS

\* What a blocked greenlet holds: its event is the last one it sent to the
\* application it is blocked on, and will be the next one for those it has not
\* come to.  A request has one addressee.
Putting ==
    \A g \in Greenlets :
        /\ at[g] = "blocked" <=> onto[g] # None
        /\ onto[g] # None =>
              /\ out[g] # None /\ out[g].src = g
              /\ out[g].n[onto[g]] = sent[onto[g]][g]
              /\ onto[g] \notin todo[g]
              /\ \A t \in todo[g] : out[g].n[t] = sent[t][g] + 1
              /\ out[g].kind = "request" => todo[g] = {}

\* Only an application in the middle of a handler has an event in hand.
InHand ==
    \A g \in Greenlets : g \notin Apps \/ at[g] \in {"idle", "ended", "raised"} => cur[g] = None

\* e is a request of x.
Asking(e, x) == e # None /\ e.kind = "request" /\ e.src = x

\* The events of a: the one in hand, at place 0, and those on its queue.
Place(q, c, a, i) == IF i = 0 THEN c[a] ELSE q[a][i]

\* Requests in the queues q or in the hands c are of greenlets that wait.
Waiting(q, c, w) ==
    \A a \in Apps : \A i \in 0 .. Len(q[a]) : \A x \in Greenlets :
        Asking(Place(q, c, a, i), x) => w[x] = "waiting"

\* A greenlet has at most one request in the queues q and the hands c.
One(q, c) ==
    \A a, b \in Apps : \A i \in 0 .. Len(q[a]), j \in 0 .. Len(q[b]) : \A x \in Greenlets :
        Asking(Place(q, c, a, i), x) /\ Asking(Place(q, c, b, j), x) => a = b /\ i = j

OneRequest == One(queue, cur)

\* The inductive invariant.
Asked == Waiting(queue, cur, at)

IInv == TypeOK /\ Putting /\ InHand /\ NothingLost /\ Asked /\ OneRequest

-----------------------------------------------------------------------------
(***************************************************************************)
(* Queues: an event is put at the end, the first one is taken.             *)
(***************************************************************************)

LEMMA Appended ==
    ASSUME NEW S, NEW q \in Seq(S), NEW e \in S
    PROVE  /\ Append(q, e) \in Seq(S) /\ Len(q) \in Nat /\ Len(Append(q, e)) = Len(q) + 1
           /\ Append(q, e)[Len(q) + 1] = e
           /\ \A i \in 1 .. Len(q) : Append(q, e)[i] = q[i]
OBVIOUS

LEMMA QueueLengths ==
    ASSUME NEW q \in [Apps -> Seq(Events)]
    PROVE  \A a \in Apps : q[a] \in Seq(Events) /\ Len(q[a]) \in Nat /\ 0 \in 0 .. Len(q[a])
OBVIOUS

LEMMA Shortened ==
    ASSUME NEW S, NEW q \in Seq(S), q # <<>>
    PROVE  /\ Head(q) = q[1] /\ Head(q) \in S /\ Tail(q) \in Seq(S) /\ Len(q) \in Nat /\ Len(q) >= 1
           /\ Len(Tail(q)) = Len(q) - 1
           /\ \A i \in 1 .. Len(Tail(q)) : Tail(q)[i] = q[i + 1] /\ i + 1 \in 1 .. Len(q)
OBVIOUS

LEMMA SequenceOwn ==
    ASSUME NEW q \in Seq(Events), NEW a \in Apps, NEW g \in Greenlets, NEW m \in Nat, NEW n \in Int,
           InSequence(q, a, g, m, n), NEW e \in Events, e.src = g, e.n[a] = n + 1
    PROVE  InSequence(Append(q, e), a, g, m, n + 1)
<1>1. PICK r \in Seq(Events) : r = Append(q, e)
  BY Appended, Zenon
<1>2. /\ Len(q) \in Nat /\ Len(r) = Len(q) + 1 /\ r[Len(q) + 1] = e
      /\ \A i \in 1 .. Len(q) : r[i] = q[i]
  BY <1>1, Appended
<1>3. m <= n + 1 /\ m <= n /\ n \in Nat
  BY DEF InSequence
<1>4. ASSUME NEW i \in 1 .. Len(r), r[i].src = g
      PROVE  /\ r[i].n[a] \in m + 1 .. n + 1
             /\ \A j \in 1 .. i - 1 : r[j].src = g => r[j].n[a] < r[i].n[a]
  <2>1. CASE i = Len(q) + 1
    <3>1. r[i].n[a] = n + 1
      BY <1>2, <2>1, Zenon
    <3>2. ASSUME NEW j \in 1 .. i - 1, r[j].src = g PROVE r[j].n[a] < n + 1
      <4>1. j \in 1 .. Len(q) /\ r[j] = q[j]
        BY <1>2, <2>1
      <4>2. q[j].n[a] \in m + 1 .. n
        BY <3>2, <4>1, Zenon DEF InSequence
      <4>. QED BY <1>3, <4>1, <4>2
    <3>. QED BY <1>3, <3>1, <3>2
  <2>2. CASE i \in 1 .. Len(q)
    <3>1. q[i].n[a] \in m + 1 .. n /\ \A j \in 1 .. i - 1 : q[j].src = g => q[j].n[a] < q[i].n[a]
      BY <1>2, <1>4, <2>2, Zenon DEF InSequence
    <3>2. r[i] = q[i] /\ \A j \in 1 .. i - 1 : r[j] = q[j]
      BY <1>2, <2>2
    <3>3. r[i].n[a] \in m + 1 .. n + 1
      BY <1>3, <3>1, <3>2
    <3>. QED BY <3>1, <3>2, <3>3, Zenon
  <2>. QED BY <1>2, <2>1, <2>2
<1>5. ASSUME NEW k \in m + 1 .. n + 1
      PROVE  \E i \in 1 .. Len(r) : r[i].src = g /\ r[i].n[a] = k
  <2>1. CASE k = n + 1
    BY <1>2, <2>1
  <2>2. CASE k \in m + 1 .. n
    <3>1. PICK i \in 1 .. Len(q) : q[i].src = g /\ q[i].n[a] = k
      BY <2>2, Zenon DEF InSequence
    <3>. QED BY <1>2, <3>1
  <2>. QED BY <1>3, <2>1, <2>2
<1>. QED BY <1>1, <1>3, <1>4, <1>5, Zenon DEF InSequence

LEMMA SequenceOther ==
    ASSUME NEW q \in Seq(Events), NEW a, NEW g, NEW m, NEW n,
           InSequence(q, a, g, m, n), NEW e \in Events, e.src # g
    PROVE  InSequence(Append(q, e), a, g, m, n)
<1>1. PICK r \in Seq(Events) : r = Append(q, e)
  BY Appended, Zenon
<1>2. /\ Len(q) \in Nat /\ Len(r) = Len(q) + 1 /\ r[Len(q) + 1] = e
      /\ \A i \in 1 .. Len(q) : r[i] = q[i]
  BY <1>1, Appended
<1>3. ASSUME NEW i \in 1 .. Len(r), r[i].src = g
      PROVE  r[i].n[a] \in m + 1 .. n /\ \A j \in 1 .. i - 1 : r[j].src = g => r[j].n[a] < r[i].n[a]
  <2>1. i \in 1 .. Len(q) /\ r[i] = q[i] /\ \A j \in 1 .. i - 1 : r[j] = q[j]
    BY <1>2, <1>3
  <2>2. q[i].n[a] \in m + 1 .. n /\ \A j \in 1 .. i - 1 : q[j].src = g => q[j].n[a] < q[i].n[a]
    BY <1>3, <2>1, Zenon DEF InSequence
  <2>. QED BY <2>1, <2>2, Zenon
<1>4. ASSUME NEW k \in m + 1 .. n PROVE \E i \in 1 .. Len(r) : r[i].src = g /\ r[i].n[a] = k
  <2>1. PICK i \in 1 .. Len(q) : q[i].src = g /\ q[i].n[a] = k
    BY Zenon DEF InSequence
  <2>. QED BY <1>2, <2>1
<1>. QED BY <1>1, <1>3, <1>4, Zenon DEF InSequence

\* The first event is the next one of its sender.
LEMMA SequenceTaken ==
    ASSUME NEW q \in Seq(Events), q # <<>>, NEW a \in Apps, NEW g \in Greenlets,
           NEW m \in Nat, NEW n \in Int, InSequence(q, a, g, m, n)
    PROVE  InSequence(Tail(q), a, g, IF Head(q).src = g THEN m + 1 ELSE m, n)
<1>1. PICK r \in Seq(Events) : r = Tail(q)
  BY Shortened, Zenon
<1>2. /\ Len(q) \in Nat /\ Len(q) >= 1 /\ Len(r) = Len(q) - 1 /\ Head(q) = q[1]
      /\ \A i \in 1 .. Len(r) : r[i] = q[i + 1] /\ i + 1 \in 1 .. Len(q)
  BY <1>1, Shortened, Zenon
<1>3. PICK m1 \in Nat : m1 = IF Head(q).src = g THEN m + 1 ELSE m
  OBVIOUS
<1>4. 1 \in 1 .. Len(q) /\ \A i \in 1 .. Len(q) : q[i].n[a] \in Nat
  <2>1. \A i \in 1 .. Len(q) : q[i] \in Events
    OBVIOUS
  <2>. QED BY <1>2, <2>1 DEF Events
<1>5. q[1].src = g => q[1].n[a] = m + 1 /\ m1 = m + 1 /\ m + 1 <= n
  <2>1. SUFFICES ASSUME q[1].src = g PROVE q[1].n[a] = m + 1 /\ m + 1 <= n
    BY <1>2, <1>3, Zenon
  <2>2. q[1].n[a] \in m + 1 .. n
    BY <1>4, <2>1, Zenon DEF InSequence
  <2>3. PICK i \in 1 .. Len(q) : q[i].src = g /\ q[i].n[a] = m + 1
    <3>1. m + 1 \in m + 1 .. n
      BY <2>2
    <3>. QED BY <3>1, Zenon DEF InSequence
  <2>4. i # 1 => q[1].n[a] < q[i].n[a]
    <3>1. i # 1 => 1 \in 1 .. i - 1
      BY <2>3
    <3>. QED BY <2>1, <2>3, <3>1, Zenon DEF InSequence
  <2>. QED BY <2>2, <2>3, <2>4
<1>6. q[1].src # g => m1 = m
  BY <1>2, <1>3, Zenon
<1>7. m1 <= n
  BY <1>5, <1>6, Zenon DEF InSequence
<1>8. ASSUME NEW i \in 1 .. Len(r), r[i].src = g
      PROVE  r[i].n[a] \in m1 + 1 .. n /\ \A j \in 1 .. i - 1 : r[j].src = g => r[j].n[a] < r[i].n[a]
  <2>1. i + 1 \in 1 .. Len(q) /\ r[i] = q[i + 1] /\ q[i + 1].src = g
    BY <1>2, <1>8, Zenon
  <2>2. /\ q[i + 1].n[a] \in m + 1 .. n
        /\ \A j \in 1 .. (i + 1) - 1 : q[j].src = g => q[j].n[a] < q[i + 1].n[a]
    BY <2>1, Zenon DEF InSequence
  <2>3. q[1].src = g => q[1].n[a] < q[i + 1].n[a]
    <3>1. 1 \in 1 .. (i + 1) - 1
      BY <1>2, <1>8
    <3>. QED BY <2>2, <3>1, Zenon
  <2>4. r[i].n[a] \in m1 + 1 .. n
    BY <1>4, <1>5, <1>6, <2>1, <2>2, <2>3, SMTT(30)
  <2>5. ASSUME NEW j \in 1 .. i - 1, r[j].src = g PROVE r[j].n[a] < r[i].n[a]
    <3>1. j + 1 \in 1 .. (i + 1) - 1 /\ j \in 1 .. Len(r)
      BY <1>2, <2>5
    <3>. QED BY <1>2, <2>1, <2>2, <2>5, <3>1, Zenon
  <2>. QED BY <2>4, <2>5, Zenon
<1>9. ASSUME NEW k \in m1 + 1 .. n PROVE \E i \in 1 .. Len(r) : r[i].src = g /\ r[i].n[a] = k
  <2>1. k \in m + 1 .. n /\ (q[1].src = g => k # q[1].n[a])
    BY <1>5, <1>6
  <2>2. PICK i \in 1 .. Len(q) : q[i].src = g /\ q[i].n[a] = k
    BY <2>1, Zenon DEF InSequence
  <2>3. i # 1
    BY <2>1, <2>2, Zenon
  <2>4. i - 1 \in 1 .. Len(r) /\ (i - 1) + 1 = i
    BY <1>2, <2>2, <2>3
  <2>. QED BY <1>2, <2>2, <2>4, Zenon
<1>. QED BY <1>1, <1>3, <1>7, <1>8, <1>9 DEF InSequence

-----------------------------------------------------------------------------
(***************************************************************************)
(* What a greenlet does that sends an event: it puts it on the queues of   *)
(* the applications D and either is done or is blocked on the queue of b.  *)
(***************************************************************************)

Delivered(q, D, e) == [a \in Apps |-> IF a \in D THEN Append(q[a], e) ELSE q[a]]

Goes(g, T, e, h, D, b) ==
    /\ b = None =>
          /\ D = T
          /\ out' = [out EXCEPT ![g] = None] /\ todo' = [todo EXCEPT ![g] = {}]
          /\ IF Waits(e)
             THEN at' = [at EXCEPT ![g] = "waiting"] /\ cur' = [cur EXCEPT ![g] = h]
             ELSE Finish(g, h, queue')
    /\ b # None =>
          /\ out' = [out EXCEPT ![g] = e] /\ todo' = [todo EXCEPT ![g] = T \ (D \cup {b})]
          /\ at' = [at EXCEPT ![g] = "blocked"] /\ cur' = [cur EXCEPT ![g] = h]

Puts(g, T, e, q, D, b) ==
    /\ \A t \in D : Len(q[t]) < QCap
    /\ queue' = Delivered(q, D, e)
    /\ sent' = [a \in Apps |-> IF a \in D \/ a = b THEN [sent[a] EXCEPT ![g] = @ + 1] ELSE sent[a]]
    /\ onto' = [onto EXCEPT ![g] = b]

LEMMA SendCases ==
    ASSUME NEW g, NEW T \in SUBSET Apps, NEW e, NEW q, NEW h, send_event(g, T, e, q, h),
           \A a \in Apps : Len(q[a]) \in Nat
    PROVE  \E D \in SUBSET T, b \in T \cup {None} :
              b \notin D /\ Puts(g, T, e, q, D, b) /\ Goes(g, T, e, h, D, b)
<1>. USE ConstantsAssumption
<1>0. None \notin Apps
  BY Zenon DEF Greenlets
<1>1. \A t \in Apps : ~ Full(q, t) => Len(q[t]) < QCap
  BY DEF Full
<1>. DEFINE full     == {t \in T : Full(q, t)}
            After(D) == [a \in Apps |-> IF a \in D THEN Append(q[a], e) ELSE q[a]]
            Count(D) == [a \in Apps |-> IF a \in D THEN [sent[a] EXCEPT ![g] = @ + 1] ELSE sent[a]]
<1>2. CASE /\ full = {}
           /\ queue' = After(T) /\ sent' = Count(T)
           /\ out' = [out EXCEPT ![g] = None]
           /\ onto' = [onto EXCEPT ![g] = None]
           /\ todo' = [todo EXCEPT ![g] = {}]
           /\ IF Waits(e)
              THEN at' = [at EXCEPT ![g] = "waiting"] /\ cur' = [cur EXCEPT ![g] = h]
              ELSE Finish(g, h, After(T))
  <2>1. Goes(g, T, e, h, T, None)
    BY <1>2, Zenon DEF Goes
  <2>2. sent' = [a \in Apps |-> IF a \in T \/ a = None THEN [sent[a] EXCEPT ![g] = @ + 1] ELSE sent[a]]
    BY <1>0, <1>2, Zenon
  <2>3. Puts(g, T, e, q, T, None)
    BY <1>1, <1>2, <2>2, Zenon DEF Puts, Delivered
  <2>. QED BY <1>0, <2>1, <2>3, Zenon
<1>3. ASSUME NEW f \in full, NEW D \in SUBSET (T \ full),
             /\ queue' = After(D) /\ sent' = Count(D \cup {f})
             /\ out' = [out EXCEPT ![g] = e]
             /\ onto' = [onto EXCEPT ![g] = f]
             /\ todo' = [todo EXCEPT ![g] = T \ (D \cup {f})]
             /\ at' = [at EXCEPT ![g] = "blocked"]
             /\ cur' = [cur EXCEPT ![g] = h]
      PROVE  f \in T /\ f \notin D /\ D \in SUBSET T /\ Puts(g, T, e, q, D, f) /\ Goes(g, T, e, h, D, f)
  <2>1. f \in T /\ f \notin D /\ D \in SUBSET T /\ f # None
    BY <1>0, <1>3, Zenon
  <2>2. Goes(g, T, e, h, D, f)
    BY <1>3, <2>1, Zenon DEF Goes
  <2>3. sent' = [a \in Apps |-> IF a \in D \/ a = f THEN [sent[a] EXCEPT ![g] = @ + 1] ELSE sent[a]]
    BY <1>3, Zenon
  <2>4. \A t \in D : Len(q[t]) < QCap
    BY <1>1, <1>3, Zenon
  <2>5. Puts(g, T, e, q, D, f)
    BY <1>3, <2>3, <2>4, Zenon DEF Puts, Delivered
  <2>. QED BY <2>1, <2>2, <2>5, Zenon
<1>4. CASE \E f \in full, D \in SUBSET (T \ full) :
              /\ queue' = After(D) /\ sent' = Count(D \cup {f})
              /\ out' = [out EXCEPT ![g] = e]
              /\ onto' = [onto EXCEPT ![g] = f]
              /\ todo' = [todo EXCEPT ![g] = T \ (D \cup {f})]
              /\ at' = [at EXCEPT ![g] = "blocked"]
              /\ cur' = [cur EXCEPT ![g] = h]
  <2>1. PICK f \in full, D \in SUBSET (T \ full) :
              /\ queue' = After(D) /\ sent' = Count(D \cup {f})
              /\ out' = [out EXCEPT ![g] = e]
              /\ onto' = [onto EXCEPT ![g] = f]
              /\ todo' = [todo EXCEPT ![g] = T \ (D \cup {f})]
              /\ at' = [at EXCEPT ![g] = "blocked"]
              /\ cur' = [cur EXCEPT ![g] = h]
    BY <1>4, Zenon
  <2>. HIDE DEF full, After, Count
  <2>2. f \in T /\ f \notin D /\ D \in SUBSET T /\ Puts(g, T, e, q, D, f) /\ Goes(g, T, e, h, D, f)
    BY <1>3, <2>1, Zenon
  <2>. QED BY <2>2, Zenon
<1>. QED BY <1>2, <1>4, Zenon DEF send_event

\* Types, in two parts.
BusType ==
    /\ queue \in [Apps -> Seq(Events)] /\ \A a \in Apps : Len(queue[a]) <= QCap
    /\ at \in [Greenlets -> {"idle", "blocked", "waiting", "replied", "ended", "raised"}]
    /\ cur \in [Greenlets -> Events \cup {None}]
    /\ out \in [Greenlets -> Events \cup {None}]
    /\ onto \in [Greenlets -> Apps \cup {None}]
    /\ todo \in [Greenlets -> SUBSET Apps]
    /\ sent \in [Apps -> [Greenlets -> Nat]]

RestType ==
    /\ active \in [Apps -> BOOLEAN]
    /\ bricks \subseteq Apps
    /\ observers \subseteq Observes
    /\ stopping \in Apps \cup {None}
    /\ ops \in [Clients -> 0 .. MaxSends]
    /\ handled \in [Apps -> [Greenlets -> Nat]]

LEMMA TypeParts == TypeOK <=> BusType /\ RestType
BY Zenon DEF TypeOK, BusType, RestType

LEMMA TypePartsNext == TypeOK' <=> BusType' /\ RestType'
BY Zenon DEF TypeOK, BusType, RestType

LEMMA FinishType ==
    ASSUME BusType, NEW g \in Greenlets, NEW h, NEW q, Finish(g, h, q)
    PROVE  /\ at' \in [Greenlets -> {"idle", "blocked", "waiting", "replied", "ended", "raised"}]
           /\ cur' \in [Greenlets -> Events \cup {None}]
           /\ at'[g] \in {"idle", "ended"} /\ cur'[g] = None
           /\ \A x \in Greenlets \ {g} :
                 /\ at'[x] = (IF h # None /\ h.kind = "request" /\ h.src = x THEN "replied" ELSE at[x])
                 /\ cur'[x] = cur[x]
<1>. DEFINE A == {"idle", "blocked", "waiting", "replied", "ended", "raised"}
<1>1. (IF g \in Apps THEN LoopTest(g, q) ELSE "idle") \in {"idle", "ended"}
  BY Zenon DEF LoopTest
<1>2. \A x \in Greenlets : at[x] \in A
  BY Zenon DEF BusType
<1>3. at' \in [Greenlets -> A]
  BY <1>1, <1>2, Zenon DEF Finish
<1>4. cur' \in [Greenlets -> Events \cup {None}]
  BY Zenon DEF Finish, BusType
<1>. QED BY <1>1, <1>3, <1>4, Zenon DEF Finish, BusType

\* e is the next event of g for the applications T.
NextOf(e, g, T) == e.src = g /\ \A t \in T : e.n[t] = sent[t][g] + 1

\* A request goes to one application.
ForOne(e, T) == e.kind = "request" => \E t : T \subseteq {t}

\* What the sender, and the others, are like afterwards.
Sender(g, T, e, h, D, b) ==
    /\ b # None => /\ at'[g] = "blocked" /\ cur'[g] = h /\ out'[g] = e
                   /\ todo'[g] = T \ (D \cup {b})
    /\ b = None => \/ Waits(e) /\ at'[g] = "waiting" /\ cur'[g] = h
                   \/ ~ Waits(e) /\ at'[g] \in {"idle", "ended"} /\ cur'[g] = None

Others(g, h) ==
    \A x \in Greenlets \ {g} :
        /\ cur'[x] = cur[x]
        /\ at'[x] = at[x] \/ (Asking(h, x) /\ at'[x] = "replied" /\ cur'[g] = None)

PutType ==
    /\ at \in [Greenlets -> {"idle", "blocked", "waiting", "replied", "ended", "raised"}]
    /\ cur \in [Greenlets -> Events \cup {None}]
    /\ out \in [Greenlets -> Events \cup {None}]
    /\ todo \in [Greenlets -> SUBSET Apps]

LEMMA SendGreenlets ==
    ASSUME BusType, NEW g \in Greenlets, NEW T \in SUBSET Apps, NEW e \in Events,
           NEW h \in Events \cup {None}, NEW D \in SUBSET T, NEW b \in T \cup {None},
           Goes(g, T, e, h, D, b)
    PROVE  /\ PutType' /\ Sender(g, T, e, h, D, b) /\ Others(g, h)
           /\ \A x \in Greenlets \ {g} : out'[x] = out[x] /\ todo'[x] = todo[x]
<1>1. CASE b # None
  <2>1. /\ out' = [out EXCEPT ![g] = e] /\ todo' = [todo EXCEPT ![g] = T \ (D \cup {b})]
        /\ at' = [at EXCEPT ![g] = "blocked"] /\ cur' = [cur EXCEPT ![g] = h]
    BY <1>1, Zenon DEF Goes
  <2>2. todo' \in [Greenlets -> SUBSET Apps]
    BY <2>1, Zenon DEF BusType
  <2>. QED BY <1>1, <2>1, <2>2, Zenon DEF BusType, PutType, Sender, Others
<1>2. CASE b = None /\ Waits(e)
  <2>1. /\ out' = [out EXCEPT ![g] = None] /\ todo' = [todo EXCEPT ![g] = {}]
        /\ at' = [at EXCEPT ![g] = "waiting"] /\ cur' = [cur EXCEPT ![g] = h]
    BY <1>2, Zenon DEF Goes
  <2>2. todo' \in [Greenlets -> SUBSET Apps]
    BY <2>1, Zenon DEF BusType
  <2>. QED BY <1>2, <2>1, <2>2, Zenon DEF BusType, PutType, Sender, Others
<1>3. CASE b = None /\ ~ Waits(e)
  <2>1. Finish(g, h, queue')
    BY <1>3, Zenon DEF Goes
  <2>2. out' = [out EXCEPT ![g] = None] /\ todo' = [todo EXCEPT ![g] = {}]
    BY <1>3, Zenon DEF Goes
  <2>3. out' \in [Greenlets -> Events \cup {None}] /\ todo' \in [Greenlets -> SUBSET Apps]
    BY <2>2, Zenon DEF BusType
  <2>4. \A x \in Greenlets \ {g} : out'[x] = out[x] /\ todo'[x] = todo[x]
    BY <2>2, Zenon DEF BusType
  <2>. QED BY <1>3, <2>1, <2>3, <2>4, FinishType DEF PutType, Sender, Others, Asking
<1>. QED BY <1>1, <1>2, <1>3, Zenon

LEMMA SendType ==
    ASSUME BusType, NEW g \in Greenlets, NEW T \in SUBSET Apps, NEW e \in Events,
           NEW h \in Events \cup {None}, NEW D \in SUBSET T, NEW b \in T \cup {None},
           NEW q \in [Apps -> Seq(Events)], \A a \in Apps : Len(q[a]) <= QCap,
           Puts(g, T, e, q, D, b), Goes(g, T, e, h, D, b)
    PROVE  BusType'
<1>. USE ConstantsAssumption
<1>1. ASSUME NEW a \in Apps
      PROVE  queue'[a] \in Seq(Events) /\ Len(queue'[a]) <= QCap
  <2>1. CASE a \in D
    <3>1. queue'[a] = Append(q[a], e) /\ Len(q[a]) < QCap
      BY <2>1, Zenon DEF Puts, Delivered
    <3>2. Append(q[a], e) \in Seq(Events) /\ Len(q[a]) \in Nat /\ Len(Append(q[a], e)) = Len(q[a]) + 1
      BY Appended
    <3>. QED BY <3>1, <3>2
  <2>2. CASE a \notin D
    BY <2>2, Zenon DEF Puts, Delivered
  <2>. QED BY <2>1, <2>2, Zenon
<1>2. queue' = [a \in Apps |-> queue'[a]]
  BY Zenon DEF Puts, Delivered
<1>3. queue' \in [Apps -> Seq(Events)]
  BY <1>1, <1>2, Zenon
<1>4. \A a \in Apps : sent[a] \in [Greenlets -> Nat] /\ sent[a][g] + 1 \in Nat
  BY DEF BusType
<1>5. sent' \in [Apps -> [Greenlets -> Nat]]
  BY <1>4, Zenon DEF Puts
<1>6. onto' \in [Greenlets -> Apps \cup {None}]
  BY Zenon DEF Puts, BusType
<1>7. PutType'
  BY SendGreenlets, Zenon
<1>. QED BY <1>1, <1>3, <1>5, <1>6, <1>7, Zenon DEF BusType, PutType

LEMMA SendPutting ==
    ASSUME BusType, Putting, NEW g \in Greenlets, NEW T \in SUBSET Apps, NEW e \in Events,
           NEW h \in Events \cup {None}, NEW D \in SUBSET T, NEW b \in T \cup {None}, b \notin D,
           NEW q, Puts(g, T, e, q, D, b), Goes(g, T, e, h, D, b),
           NextOf(e, g, T),
           ForOne(e, T),
           \A x \in Greenlets : Asking(h, x) => at[x] # "blocked"
    PROVE  Putting'
<1>. USE ConstantsAssumption
<1>0. None \notin Apps
  BY Zenon DEF Greenlets
<1>1. Sender(g, T, e, h, D, b)
  BY SendGreenlets, Zenon
<1>2. \A x \in Greenlets \ {g} : /\ out'[x] = out[x] /\ todo'[x] = todo[x]
                                 /\ at'[x] = at[x] \/ (Asking(h, x) /\ at'[x] = "replied")
  <2>1. Others(g, h) /\ \A x \in Greenlets \ {g} : out'[x] = out[x] /\ todo'[x] = todo[x]
    BY SendGreenlets, Zenon
  <2>. QED BY <2>1, Zenon DEF Others
<1>3. /\ onto'[g] = b
      /\ \A x \in Greenlets \ {g} : onto'[x] = onto[x]
      /\ \A a \in Apps, x \in Greenlets \ {g} : sent'[a][x] = sent[a][x]
      /\ \A a \in Apps : sent'[a][g] = (IF a \in D \/ a = b THEN sent[a][g] + 1 ELSE sent[a][g])
  BY Zenon DEF Puts, BusType
<1>. DEFINE Well(x) == /\ at'[x] = "blocked" <=> onto'[x] # None
                       /\ onto'[x] # None =>
                            /\ out'[x] # None /\ out'[x].src = x
                            /\ out'[x].n[onto'[x]] = sent'[onto'[x]][x]
                            /\ onto'[x] \notin todo'[x]
                            /\ \A t \in todo'[x] : out'[x].n[t] = sent'[t][x] + 1
                            /\ out'[x].kind = "request" => todo'[x] = {}
<1>4. ASSUME NEW x \in Greenlets \ {g} PROVE Well(x)
  <2>1. at'[x] = "blocked" <=> at[x] = "blocked"
    BY <1>2, <1>4, Zenon
  <2>2. onto[x] \in Apps \cup {None} /\ todo[x] \in SUBSET Apps
    BY Zenon DEF BusType
  <2>3. \A t \in todo[x] \cup ({onto[x]} \ {None}) : sent'[t][x] = sent[t][x]
    BY <1>3, <2>2, ZenonT(30)
  <2>4. onto'[x] = onto[x] /\ out'[x] = out[x] /\ todo'[x] = todo[x]
    BY <1>2, <1>3, <1>4, Zenon
  <2>5. onto[x] # None => sent'[onto[x]][x] = sent[onto[x]][x]
    BY <2>3, Zenon
  <2>6. \A t \in todo[x] : sent'[t][x] = sent[t][x]
    BY <2>3, Zenon
  <2>7. /\ at[x] = "blocked" <=> onto[x] # None
        /\ onto[x] # None =>
             /\ out[x] # None /\ out[x].src = x
             /\ out[x].n[onto[x]] = sent[onto[x]][x]
             /\ onto[x] \notin todo[x]
             /\ \A t \in todo[x] : out[x].n[t] = sent[t][x] + 1
             /\ out[x].kind = "request" => todo[x] = {}
    BY <1>4, Zenon DEF Putting
  <2>. QED BY <2>1, <2>4, <2>5, <2>6, <2>7, Zenon
<1>5. Well(g)
  <2>1. CASE b = None
    BY <1>1, <1>3, <2>1, Zenon DEF Sender, NextOf, ForOne
  <2>2. CASE b # None
    <3>1. b \in T /\ b \in Apps /\ e # None
      BY <2>2, NoneAssumption, Zenon
    <3>2. out'[g].n[b] = sent'[b][g]
      BY <1>1, <1>3, <2>2, <3>1 DEF Sender, NextOf, ForOne
    <3>3. \A t \in todo'[g] : out'[g].n[t] = sent'[t][g] + 1
      BY <1>1, <1>3, <2>2, <3>1 DEF Sender, NextOf, ForOne
    <3>4. out'[g].kind = "request" => todo'[g] = {}
      BY <1>1, <2>2, <3>1, Zenon DEF Sender, NextOf, ForOne
    <3>. QED BY <1>1, <1>3, <2>2, <3>1, <3>2, <3>3, <3>4, Zenon DEF Sender, NextOf, ForOne
  <2>. QED BY <2>1, <2>2, Zenon
<1>. HIDE DEF Well
<1>6. \A x \in Greenlets : Well(x)
  BY <1>4, <1>5, Zenon
<1>. QED BY <1>6, Zenon DEF Putting, Well

\* The queues q hold what is left of what was sent, but for what a blocked
\* greenlet still holds.
Left(q) ==
    \A a \in Apps, x \in Greenlets :
        InSequence(q[a], a, x, handled'[a][x],
                   IF onto[x] = a THEN sent[a][x] - 1 ELSE sent[a][x])

\* The same where g holds nothing back.
Following(q, g) ==
    \A a \in Apps, x \in Greenlets :
        InSequence(q[a], a, x, handled'[a][x],
                   IF x # g /\ onto[x] = a THEN sent[a][x] - 1 ELSE sent[a][x])

LEMMA SendSequence ==
    ASSUME BusType, NEW g \in Greenlets, NEW T \in SUBSET Apps, NEW e \in Events,
           NEW D \in SUBSET T, NEW b \in T \cup {None}, b \notin D,
           NEW q \in [Apps -> Seq(Events)], Puts(g, T, e, q, D, b),
           NextOf(e, g, T),
           handled' \in [Apps -> [Greenlets -> Nat]],
           Following(q, g)
    PROVE  NothingLost'
<1>. USE ConstantsAssumption
<1>1. SUFFICES ASSUME NEW a \in Apps, NEW x \in Greenlets
               PROVE  InSequence(queue'[a], a, x, handled'[a][x],
                                 IF onto'[x] = a THEN sent'[a][x] - 1 ELSE sent'[a][x])
  BY Zenon DEF NothingLost
<1>2. /\ onto'[g] = b
      /\ \A y \in Greenlets \ {g} : onto'[y] = onto[y]
      /\ \A y \in Greenlets \ {g} : sent'[a][y] = sent[a][y]
      /\ sent'[a][g] = (IF a \in D \/ a = b THEN sent[a][g] + 1 ELSE sent[a][g])
      /\ sent[a][g] \in Nat
  <2>1. onto'[g] = b /\ \A y \in Greenlets \ {g} : onto'[y] = onto[y]
    BY Zenon DEF Puts, BusType
  <2>2. sent'[a] = (IF a \in D \/ a = b THEN [sent[a] EXCEPT ![g] = @ + 1] ELSE sent[a])
    BY Zenon DEF Puts
  <2>3. sent[a] \in [Greenlets -> Nat]
    BY Zenon DEF BusType
  <2>. QED BY <2>1, <2>2, <2>3, Zenon
<1>3. queue'[a] = (IF a \in D THEN Append(q[a], e) ELSE q[a]) /\ q[a] \in Seq(Events)
  BY Zenon DEF Puts, Delivered
<1>4. handled'[a][x] \in Nat
  OBVIOUS
<1>5. CASE x # g
  <2>1. InSequence(q[a], a, x, handled'[a][x], IF onto'[x] = a THEN sent'[a][x] - 1 ELSE sent'[a][x])
    <3>1. (IF onto'[x] = a THEN sent'[a][x] - 1 ELSE sent'[a][x])
          = (IF x # g /\ onto[x] = a THEN sent[a][x] - 1 ELSE sent[a][x])
      BY <1>2, <1>5, Zenon
    <3>2. InSequence(q[a], a, x, handled'[a][x],
                     IF x # g /\ onto[x] = a THEN sent[a][x] - 1 ELSE sent[a][x])
      BY Zenon DEF Following
    <3>. QED BY <3>1, <3>2, Zenon
  <2>2. CASE a \in D
    <3>1. PICK n : n = (IF onto'[x] = a THEN sent'[a][x] - 1 ELSE sent'[a][x])
      OBVIOUS
    <3>2. PICK m : m = handled'[a][x]
      BY Zenon
    <3>3. InSequence(q[a], a, x, m, n)
      BY <2>1, <3>1, <3>2, Zenon
    <3>4. InSequence(Append(q[a], e), a, x, m, n)
      BY <1>3, <1>5, <3>3, SequenceOther, Zenon DEF NextOf
    <3>. QED BY <1>3, <2>2, <3>1, <3>2, <3>4, Zenon
  <2>3. CASE a \notin D
    BY <1>3, <2>1, <2>3, Zenon
  <2>. QED BY <2>2, <2>3, Zenon
<1>6. CASE x = g
  <2>0. InSequence(q[a], a, g, handled'[a][g], sent[a][g])
    BY <1>6, Zenon DEF Following
  <2>1. CASE a \in D
    <3>1. InSequence(Append(q[a], e), a, g, handled'[a][g], sent[a][g] + 1)
      BY <1>2, <1>3, <1>4, <1>6, <2>0, <2>1, SequenceOwn DEF NextOf
    <3>2. onto'[g] # a /\ sent'[a][g] = sent[a][g] + 1
      BY <1>2, <2>1, Zenon
    <3>. QED BY <1>3, <1>6, <2>1, <3>1, <3>2, Zenon
  <2>2. CASE a \notin D
    <3>1. (IF onto'[g] = a THEN sent'[a][g] - 1 ELSE sent'[a][g]) = sent[a][g]
      BY <1>2, <2>2
    <3>. QED BY <1>3, <1>6, <2>0, <2>2, <3>1, Zenon
  <2>. QED BY <2>1, <2>2, Zenon
<1>. QED BY <1>5, <1>6, Zenon

\* A step of g keeps who has what in hand.
LEMMA HandKept ==
    ASSUME InHand, NEW g \in Greenlets, NEW h, Others(g, h),
           g \notin Apps \/ at'[g] \in {"idle", "ended", "raised"} => cur'[g] = None
    PROVE  InHand'
<1>1. ASSUME NEW x \in Greenlets, x \notin Apps \/ at'[x] \in {"idle", "ended", "raised"}
      PROVE  cur'[x] = None
  <2>1. CASE x = g
    BY <1>1, <2>1, Zenon
  <2>2. CASE x # g
    <3>1. cur'[x] = cur[x] /\ (at'[x] = at[x] \/ at'[x] = "replied")
      BY <2>2, Zenon DEF Others
    <3>. QED BY <1>1, <3>1, Zenon DEF InHand
  <2>. QED BY <2>1, <2>2, Zenon
<1>. QED BY <1>1, Zenon DEF InHand

\* Nothing of g is asked for in the queues q and the hands c.
Silent(q, c, g) == \A a \in Apps : \A i \in 0 .. Len(q[a]) : ~ Asking(Place(q, c, a, i), g)

LEMMA OneAt ==
    ASSUME NEW q, NEW c, One(q, c), NEW a \in Apps, NEW b \in Apps,
           NEW i \in 0 .. Len(q[a]), NEW j \in 0 .. Len(q[b]), NEW x \in Greenlets,
           Asking(Place(q, c, a, i), x), Asking(Place(q, c, b, j), x)
    PROVE  a = b /\ i = j
BY Zenon DEF One

LEMMA SilentAt ==
    ASSUME NEW q, NEW c, NEW g, Silent(q, c, g), NEW a \in Apps, NEW i \in 0 .. Len(q[a]),
           NEW x, Asking(Place(q, c, a, i), x)
    PROVE  x # g
BY Zenon DEF Silent

LEMMA ZeroPlace == \A n \in Nat : 0 \in 0 .. n
OBVIOUS

LEMMA CountedUp ==
    ASSUME NEW S, NEW f \in [S -> Nat], NEW x \in S
    PROVE  [f EXCEPT ![x] = f[x] + 1] \in [S -> Nat]
OBVIOUS

LEMMA ExceptHand ==
    ASSUME NEW c \in [Greenlets -> Events \cup {None}], NEW g \in Greenlets, NEW h
    PROVE  [c EXCEPT ![g] = h][g] = h /\ \A x \in Greenlets \ {g} : [c EXCEPT ![g] = h][x] = c[x]
OBVIOUS

\* A step of g, which had h in hand, that puts e on the queues E of q.
LEMMA RequestsKept ==
    ASSUME BusType, NEW g \in Greenlets, NEW e \in Events, NEW h \in Events \cup {None},
           NEW q \in [Apps -> Seq(Events)], NEW E \in SUBSET Apps,
           queue' = Delivered(q, E, e), e.src = g,
           e.kind = "request" /\ E # {} => (at'[g] = "waiting" /\ \E t : E \subseteq {t}),
           Others(g, h), cur'[g] \in {h, None}, h # None => g \in Apps,
           Waiting(q, [cur EXCEPT ![g] = h], at), One(q, [cur EXCEPT ![g] = h]),
           Silent(q, [cur EXCEPT ![g] = h], g)
    PROVE  Asked' /\ OneRequest'
<1>1. PICK c : c = [cur EXCEPT ![g] = h]
  OBVIOUS
<1>2. c[g] = h /\ \A x \in Greenlets \ {g} : c[x] = cur[x]
  BY <1>1, ExceptHand DEF BusType
<1>3. Waiting(q, c, at) /\ One(q, c) /\ Silent(q, c, g)
  BY <1>1, Zenon
<1>4. \A a \in Apps : Len(q[a]) \in Nat
  BY QueueLengths, Zenon
<1>. DEFINE P(a, i) == Place(q, c, a, i)
            N(a, i) == Place(queue', cur', a, i)
<1>5. ASSUME NEW a \in Apps, NEW i \in 0 .. Len(queue'[a])
      PROVE  \/ N(a, i) = None
             \/ i \in 0 .. Len(q[a]) /\ N(a, i) = P(a, i)
             \/ a \in E /\ i = Len(q[a]) + 1 /\ N(a, i) = e
  <2>1. CASE i = 0
    <3>1. N(a, i) = cur'[a] /\ P(a, i) = c[a] /\ i \in 0 .. Len(q[a])
      BY <1>4, <2>1, ZeroPlace, Zenon DEF Place
    <3>2. cur'[a] = None \/ cur'[a] = c[a]
      BY <1>2, Zenon DEF Others, Greenlets
    <3>. QED BY <3>1, <3>2, Zenon
  <2>2. CASE i # 0 /\ a \in E
    <3>1. queue'[a] = Append(q[a], e) /\ N(a, i) = queue'[a][i]
      BY <2>2, Zenon DEF Delivered, Place
    <3>2. /\ Len(queue'[a]) = Len(q[a]) + 1
          /\ queue'[a][Len(q[a]) + 1] = e
          /\ \A j \in 1 .. Len(q[a]) : queue'[a][j] = q[a][j]
      <4>1. q[a] \in Seq(Events)
        BY QueueLengths, Zenon
      <4>. QED BY <3>1, <4>1, Appended, SMTT(30)
    <3>3. CASE i = Len(q[a]) + 1
      BY <2>2, <3>1, <3>2, <3>3, Zenon
    <3>4. CASE i # Len(q[a]) + 1
      <4>1. i \in 1 .. Len(q[a]) /\ i \in 0 .. Len(q[a])
        BY <1>4, <2>2, <3>2, <3>4
      <4>2. N(a, i) = q[a][i]
        BY <3>1, <3>2, <4>1, Zenon
      <4>3. P(a, i) = q[a][i]
        BY <2>2, Zenon DEF Place
      <4>. QED BY <4>1, <4>2, <4>3, Zenon
    <3>. QED BY <3>3, <3>4, Zenon
  <2>3. CASE i # 0 /\ a \notin E
    BY <2>3, Zenon DEF Delivered, Place
  <2>. QED BY <2>1, <2>2, <2>3, Zenon
<1>6. \A x \in Greenlets : Asking(e, x) => x = g /\ e.kind = "request"
  BY Zenon DEF Asking
<1>7. \A x : ~ Asking(None, x)
  BY Zenon DEF Asking
<1>. HIDE DEF P, N
<1>8. ASSUME NEW a \in Apps, NEW i \in 0 .. Len(q[a]), NEW x \in Greenlets, Asking(P(a, i), x)
      PROVE  at[x] = "waiting" /\ x # g
  <2>1. Asking(Place(q, c, a, i), x)
    BY <1>8, Zenon DEF P
  <2>2. at[x] = "waiting"
    BY <1>3, <2>1, Zenon DEF Waiting
  <2>3. x # g
    BY <1>3, <2>1, SilentAt, Zenon
  <2>. QED BY <2>2, <2>3, Zenon
<1>9. ASSUME NEW a \in Apps, NEW i \in 0 .. Len(queue'[a]), NEW x \in Greenlets, Asking(N(a, i), x)
      PROVE  at'[x] = "waiting"
  <2>1. CASE i \in 0 .. Len(q[a]) /\ N(a, i) = P(a, i)
    <3>1. at[x] = "waiting" /\ x # g
      BY <1>8, <1>9, <2>1, Zenon
    <3>2. CASE at'[x] = at[x]
      BY <3>1, <3>2, Zenon
    <3>3. CASE Asking(h, x) /\ at'[x] = "replied" /\ cur'[g] = None
      <4>1. g \in Apps /\ 0 \in 0 .. Len(q[g]) /\ P(g, 0) = h
        BY <1>2, <1>4, <3>3 DEF P, Place, Asking
      <4>2. a = g /\ i = 0
        <5>1. Asking(P(a, i), x) /\ Asking(P(g, 0), x)
          BY <1>9, <2>1, <3>3, <4>1, Zenon
        <5>. QED BY <1>3, <2>1, <4>1, <5>1, OneAt, Zenon DEF P
      <4>3. N(a, i) = None
        BY <3>3, <4>2, Zenon DEF N, Place
      <4>4. Asking(None, x)
        BY <1>9, <4>3, Zenon
      <4>. QED BY <1>7, <4>4, Zenon
    <3>. QED BY <3>1, <3>2, <3>3, Zenon DEF Others
  <2>2. CASE a \in E /\ N(a, i) = e
    BY <1>6, <1>9, <2>2, Zenon
  <2>. QED BY <1>5, <1>7, <1>9, <2>1, <2>2, Zenon
<1>10. ASSUME NEW a \in Apps, NEW b \in Apps, NEW i \in 0 .. Len(queue'[a]), NEW j \in 0 .. Len(queue'[b]),
              NEW x \in Greenlets, Asking(N(a, i), x), Asking(N(b, j), x)
       PROVE  a = b /\ i = j
  <2>1. CASE i \in 0 .. Len(q[a]) /\ N(a, i) = P(a, i) /\ j \in 0 .. Len(q[b]) /\ N(b, j) = P(b, j)
    <3>1. Asking(P(a, i), x) /\ Asking(P(b, j), x)
      BY <1>10, <2>1, Zenon
    <3>. QED BY <1>3, <2>1, <3>1, OneAt, Zenon DEF P
  <2>2. CASE a \in E /\ i = Len(q[a]) + 1 /\ N(a, i) = e /\ b \in E /\ j = Len(q[b]) + 1 /\ N(b, j) = e
    BY <1>6, <1>10, <2>2, Zenon
  <2>3. CASE x = g
    <3>1. N(a, i) = e /\ N(b, j) = e
      BY <1>5, <1>7, <1>8, <1>10, <2>3, Zenon
    <3>2. ASSUME i \in 0 .. Len(q[a]), N(a, i) = P(a, i) PROVE FALSE
      BY <1>8, <1>10, <2>3, <3>2, Zenon
    <3>3. ASSUME j \in 0 .. Len(q[b]), N(b, j) = P(b, j) PROVE FALSE
      BY <1>8, <1>10, <2>3, <3>3, Zenon
    <3>. QED BY <1>5, <1>7, <1>10, <2>2, <3>2, <3>3, Zenon
  <2>4. CASE x # g
    <3>1. N(a, i) # e /\ N(b, j) # e
      BY <1>6, <1>10, <2>4, Zenon
    <3>. QED BY <1>5, <1>7, <1>10, <2>1, <3>1, Zenon
  <2>. QED BY <2>3, <2>4, Zenon
<1>11. Waiting(queue', cur', at')
  <2>1. ASSUME NEW a \in Apps, NEW i \in 0 .. Len(queue'[a]), NEW x \in Greenlets,
               Asking(Place(queue', cur', a, i), x)
        PROVE  at'[x] = "waiting"
    BY <1>9, <2>1, Zenon DEF N
  <2>. QED BY <2>1, Zenon DEF Waiting
<1>12. One(queue', cur')
  BY <1>10 DEF One, N
<1>. QED BY <1>11, <1>12, Zenon DEF Asked, OneRequest, Waiting, One, Place

LEMMA NotAsking ==
    ASSUME NEW q, NEW c, NEW g \in Greenlets, Waiting(q, c, at), at[g] # "waiting"
    PROVE  Silent(q, c, g)
BY Zenon DEF Waiting, Silent

\* A step of g, which has h in hand, that sends e to T after it has put it on
\* the queues F.
LEMMA SendStep ==
    ASSUME TypeOK, Putting, InHand, NEW g \in Greenlets, at[g] # "waiting",
           NEW T \in SUBSET Apps, NEW F \in SUBSET Apps, F \cap T = {},
           NEW e \in Events, NextOf(e, g, T),
           ForOne(e, F \cup T),
           NEW h \in Events \cup {None}, h # None => g \in Apps,
           NEW q \in [Apps -> Seq(Events)], NEW p \in [Apps -> Seq(Events)], p = Delivered(q, F, e),
           \A a \in Apps : Len(p[a]) <= QCap,
           Waiting(q, [cur EXCEPT ![g] = h], at), One(q, [cur EXCEPT ![g] = h]),
           RestType',
           Following(p, g),
           send_event(g, T, e, p, h)
    PROVE  IInv'
<1>. USE ConstantsAssumption
<1>0. BusType
  BY TypeParts, Zenon
<1>1. \A a \in Apps : Len(p[a]) \in Nat
  BY QueueLengths, Zenon
<1>2. PICK D \in SUBSET T, b \in T \cup {None} :
         b \notin D /\ Puts(g, T, e, p, D, b) /\ Goes(g, T, e, h, D, b)
  BY <1>1, SendCases, Zenon
<1>3. PutType' /\ Sender(g, T, e, h, D, b) /\ Others(g, h)
  BY <1>0, <1>2, SendGreenlets, Zenon
<1>4. BusType'
  BY <1>0, <1>2, SendType, Zenon
<1>5. TypeOK'
  BY <1>4, TypePartsNext, Zenon
<1>6. \A x \in Greenlets : Asking(h, x) => at[x] = "waiting"
  <2>1. SUFFICES ASSUME NEW x \in Greenlets, Asking(h, x) PROVE at[x] = "waiting"
    BY Zenon
  <2>2. g \in Apps
    BY <2>1, Zenon DEF Asking
  <2>3. PICK c : c = [cur EXCEPT ![g] = h]
    BY Zenon
  <2>4. c[g] = h /\ Waiting(q, c, at)
    BY <1>0, <2>3, Zenon DEF BusType
  <2>5. Place(q, c, g, 0) = h /\ 0 \in 0 .. Len(q[g])
    BY <2>2, <2>4, QueueLengths, Zenon DEF Place
  <2>6. Asking(Place(q, c, g, 0), x)
    BY <2>1, <2>5, Zenon
  <2>. QED BY <2>2, <2>4, <2>5, <2>6, Zenon DEF Waiting
<1>7. Putting'
  <2>1. \A x \in Greenlets : Asking(h, x) => at[x] # "blocked"
    BY <1>6, Zenon
  <2>2. ForOne(e, T)
    BY Zenon DEF ForOne
  <2>. QED BY <1>0, <1>2, <2>1, <2>2, SendPutting, Zenon
<1>8. InHand'
  <2>1. g \notin Apps \/ at'[g] \in {"idle", "ended", "raised"} => cur'[g] = None
    BY <1>3, Zenon DEF Sender
  <2>. QED BY <1>3, <2>1, HandKept, Zenon
<1>9. NothingLost'
  <2>1. handled' \in [Apps -> [Greenlets -> Nat]]
    BY Zenon DEF RestType
  <2>. QED BY <1>0, <1>2, <2>1, SendSequence, Zenon
<1>10. Asked' /\ OneRequest'
  <2>1. queue' = Delivered(p, D, e)
    BY <1>2, Zenon DEF Puts
  <2>2. queue' = Delivered(q, F \cup D, e)
    <3>1. ASSUME NEW a \in Apps
          PROVE  (IF a \in D THEN Append(p[a], e) ELSE p[a])
                 = (IF a \in F \cup D THEN Append(q[a], e) ELSE q[a])
      <4>1. p[a] = (IF a \in F THEN Append(q[a], e) ELSE q[a])
        BY Zenon DEF Delivered
      <4>2. ~ (a \in F /\ a \in D)
        BY Zenon
      <4>. QED BY <4>1, <4>2, Zenon
    <3>. QED BY <2>1, <3>1, Zenon DEF Delivered
  <2>3. ASSUME e.kind = "request", F \cup D # {}
        PROVE  at'[g] = "waiting" /\ \E t : F \cup D \subseteq {t}
    <3>1. b = None
      BY <1>2, <2>3, Zenon DEF ForOne
    <3>2. Waits(e)
      BY <2>3, Zenon DEF Waits
    <3>. QED BY <1>3, <2>3, <3>1, <3>2, Zenon DEF Sender, ForOne
  <2>4. cur'[g] \in {h, None}
    BY <1>3, Zenon DEF Sender
  <2>5. Silent(q, [cur EXCEPT ![g] = h], g)
    BY NotAsking, Zenon
  <2>6. F \cup D \in SUBSET Apps
    BY Zenon
  <2>7. e.src = g
    BY Zenon DEF NextOf
  <2>. QED BY <1>0, <1>3, <2>2, <2>3, <2>4, <2>5, <2>6, <2>7, RequestsKept, Zenon
<1>. QED BY <1>5, <1>7, <1>8, <1>9, <1>10, Zenon DEF IInv

\* A step that sends nothing: greenlet g, which has h in hand, goes on.
LEMMA QuietStep ==
    ASSUME TypeOK, Putting, InHand, NEW g \in Greenlets, NEW h \in Events \cup {None}, h # None => g \in Apps,
           at[g] # "blocked",
           NEW q \in [Apps -> Seq(Events)], \A a \in Apps : Len(q[a]) <= QCap, queue' = q,
           UNCHANGED <<putVars, sent>>,
           at' \in [Greenlets -> {"idle", "blocked", "waiting", "replied", "ended", "raised"}],
           cur' \in [Greenlets -> Events \cup {None}],
           at'[g] \in {"idle", "ended", "raised"}, cur'[g] = None, Others(g, h),
           Waiting(q, [cur EXCEPT ![g] = h], at), One(q, [cur EXCEPT ![g] = h]),
           Silent(q, [cur EXCEPT ![g] = h], g),
           RestType',
           Left(q)
    PROVE  IInv'
<1>. USE ConstantsAssumption
<1>0. BusType
  BY TypeParts, Zenon
<1>1. out' = out /\ onto' = onto /\ todo' = todo /\ sent' = sent
  BY Zenon DEF putVars
<1>2. BusType'
  BY <1>0, <1>1, Zenon DEF BusType
<1>3. TypeOK'
  BY <1>2, TypePartsNext, Zenon
<1>4. ASSUME NEW x \in Greenlets PROVE at'[x] = "blocked" <=> at[x] = "blocked"
  <2>1. CASE x = g
    BY <2>1, Zenon
  <2>2. CASE x # g /\ at'[x] # at[x]
    <3>1. Asking(h, x) /\ at'[x] = "replied"
      BY <2>2, Zenon DEF Others
    <3>2. g \in Apps
      BY <3>1, Zenon DEF Asking
    <3>3. PICK c : c = [cur EXCEPT ![g] = h]
      BY Zenon
    <3>4. c[g] = h /\ Waiting(q, c, at)
      BY <1>0, <3>3, Zenon DEF BusType
    <3>5. Place(q, c, g, 0) = h /\ 0 \in 0 .. Len(q[g])
      BY <3>2, <3>4, QueueLengths, Zenon DEF Place
    <3>6. at[x] = "waiting"
      <4>1. Asking(Place(q, c, g, 0), x)
        BY <3>1, <3>5, Zenon
      <4>. QED BY <3>2, <3>4, <3>5, <4>1, Zenon DEF Waiting
    <3>. QED BY <3>1, <3>6, Zenon
  <2>. QED BY <2>1, <2>2, Zenon
<1>5. Putting'
  <2>1. \A x \in Greenlets : at'[x] = "blocked" <=> at[x] = "blocked"
    BY <1>4, Zenon
  <2>2. ASSUME NEW x \in Greenlets
        PROVE  /\ at'[x] = "blocked" <=> onto'[x] # None
               /\ onto'[x] # None =>
                     /\ out'[x] # None /\ out'[x].src = x
                     /\ out'[x].n[onto'[x]] = sent'[onto'[x]][x]
                     /\ onto'[x] \notin todo'[x]
                     /\ \A t \in todo'[x] : out'[x].n[t] = sent'[t][x] + 1
                     /\ out'[x].kind = "request" => todo'[x] = {}
    <3>1. /\ at[x] = "blocked" <=> onto[x] # None
          /\ onto[x] # None =>
                /\ out[x] # None /\ out[x].src = x
                /\ out[x].n[onto[x]] = sent[onto[x]][x]
                /\ onto[x] \notin todo[x]
                /\ \A t \in todo[x] : out[x].n[t] = sent[t][x] + 1
                /\ out[x].kind = "request" => todo[x] = {}
      BY Zenon DEF Putting
    <3>. QED BY <1>1, <2>1, <3>1, Zenon
  <2>. QED BY <2>2, Zenon DEF Putting
<1>6. InHand'
  BY HandKept, Zenon
<1>7. NothingLost'
  BY <1>1, Zenon DEF NothingLost, Left
<1>8. Asked' /\ OneRequest'
  <2>1. PICK e \in Events : e.src = g
    <3>1. [src |-> g, kind |-> "event", n |-> [a \in Apps |-> 0]] \in Events
      BY Zenon DEF Events, Kinds
    <3>. QED BY <3>1, Zenon
  <2>2. queue' = Delivered(q, {}, e)
    BY Zenon DEF Delivered
  <2>. QED BY <1>0, <2>1, <2>2, RequestsKept, Zenon
<1>. QED BY <1>3, <1>5, <1>6, <1>7, <1>8, Zenon DEF IInv

-----------------------------------------------------------------------------
(***************************************************************************)
(* Every step keeps the invariant.                                         *)
(***************************************************************************)

\* An application takes an event off its queue.
LEMMA TakenRequests ==
    ASSUME TypeOK, InHand, Asked, OneRequest, NEW a \in Apps, at[a] = "idle", queue[a] # <<>>,
           NEW e, e = Head(queue[a]), NEW q, q = [queue EXCEPT ![a] = Tail(@)]
    PROVE  /\ e \in Events /\ q \in [Apps -> Seq(Events)] /\ \A b \in Apps : Len(q[b]) <= QCap
           /\ Waiting(q, [cur EXCEPT ![a] = e], at) /\ One(q, [cur EXCEPT ![a] = e])
           /\ Silent(q, [cur EXCEPT ![a] = e], a)
<1>. USE ConstantsAssumption
<1>0. a \in Greenlets /\ cur[a] = None
  BY Zenon DEF InHand, Greenlets
<1>1. /\ e = queue[a][1] /\ e \in Events /\ Tail(queue[a]) \in Seq(Events)
      /\ Len(queue[a]) \in Nat /\ Len(queue[a]) >= 1 /\ Len(Tail(queue[a])) = Len(queue[a]) - 1
      /\ \A i \in 1 .. Len(Tail(queue[a])) : Tail(queue[a])[i] = queue[a][i + 1] /\ i + 1 \in 1 .. Len(queue[a])
  BY Shortened, SMTT(30) DEF TypeOK
<1>2. q \in [Apps -> Seq(Events)] /\ q[a] = Tail(queue[a]) /\ \A b \in Apps \ {a} : q[b] = queue[b]
  BY <1>1, Zenon DEF TypeOK
<1>3. \A b \in Apps : Len(q[b]) <= QCap
  BY <1>1, <1>2 DEF TypeOK
<1>4. PICK c : c = [cur EXCEPT ![a] = e]
  BY Zenon
<1>5. c[a] = e /\ \A b \in Apps \ {a} : c[b] = cur[b]
  BY <1>0, <1>4, Zenon DEF TypeOK, Greenlets
<1>. DEFINE k(b, i) == IF b = a THEN i + 1 ELSE i
<1>6. ASSUME NEW b \in Apps, NEW i \in 0 .. Len(q[b])
      PROVE  k(b, i) \in 0 .. Len(queue[b]) /\ Place(q, c, b, i) = Place(queue, cur, b, k(b, i))
  <2>1. CASE b # a
    BY <1>2, <1>5, <2>1, Zenon DEF Place
  <2>2. CASE b = a /\ i = 0
    BY <1>1, <1>5, <2>2 DEF Place
  <2>3. CASE b = a /\ i # 0
    <3>1. i \in 1 .. Len(Tail(queue[a])) /\ i + 1 # 0
      BY <1>2, <2>3
    <3>2. Tail(queue[a])[i] = queue[a][i + 1] /\ i + 1 \in 1 .. Len(queue[a])
      BY <1>1, <3>1, Zenon
    <3>. QED BY <1>2, <2>3, <3>1, <3>2 DEF Place
  <2>. QED BY <2>1, <2>2, <2>3, Zenon
<1>7. \A b \in Apps : \A i, j \in 0 .. Len(q[b]) : k(b, i) = k(b, j) => i = j
  BY <1>2
<1>. HIDE DEF k
<1>8. Waiting(q, c, at)
  BY <1>6 DEF Waiting, Asked
<1>9. One(q, c)
  <2>1. SUFFICES ASSUME NEW b \in Apps, NEW d \in Apps, NEW i \in 0 .. Len(q[b]), NEW j \in 0 .. Len(q[d]),
                        NEW x \in Greenlets, Asking(Place(q, c, b, i), x), Asking(Place(q, c, d, j), x)
                 PROVE  b = d /\ i = j
    BY SMTT(30) DEF One
  <2>2. b = d /\ k(b, i) = k(d, j)
    BY <1>6, <2>1, SMTT(30) DEF OneRequest, One
  <2>. QED BY <1>7, <2>2, Zenon
<1>10. Silent(q, c, a)
  BY <1>0, <1>8, NotAsking, Zenon
<1>. QED BY <1>1, <1>2, <1>3, <1>4, <1>8, <1>9, <1>10, Zenon

LEMMA TakenSequence ==
    ASSUME TypeOK, Putting, NothingLost, NEW a \in Apps, at[a] = "idle", queue[a] # <<>>,
           NEW e, e = Head(queue[a]), NEW q, q = [queue EXCEPT ![a] = Tail(@)],
           Takes(a, e, q)
    PROVE  /\ RestType' /\ Following(q, a)
           /\ Left(q)
<1>. USE ConstantsAssumption
<1>0. a \in Greenlets /\ onto[a] = None /\ None \notin Apps
  BY Zenon DEF Putting, Greenlets
<1>1. e \in Events /\ e.src \in Greenlets
  <2>1. e \in Events
    BY Shortened, ZenonT(30) DEF TypeOK
  <2>. QED BY <2>1, Zenon DEF Events
<1>2. handled' = [handled EXCEPT ![a] = [handled[a] EXCEPT ![e.src] = handled[a][e.src] + 1]]
  BY Zenon DEF Takes
<1>3. \A b \in Apps : handled[b] \in [Greenlets -> Nat]
  BY Zenon DEF TypeOK
<1>4. handled' \in [Apps -> [Greenlets -> Nat]]
  <2>1. [handled[a] EXCEPT ![e.src] = handled[a][e.src] + 1] \in [Greenlets -> Nat]
    BY <1>1, <1>3, CountedUp, Zenon
  <2>. QED BY <1>2, <2>1, Zenon DEF TypeOK
<1>5. RestType'
  BY <1>4, Zenon DEF RestType, TypeOK, Takes
<1>6. ASSUME NEW b \in Apps, NEW x \in Greenlets
      PROVE  InSequence(q[b], b, x, handled'[b][x], IF onto[x] = b THEN sent[b][x] - 1 ELSE sent[b][x])
  <2>1. PICK n \in Int : n = (IF onto[x] = b THEN sent[b][x] - 1 ELSE sent[b][x])
    BY SMTT(30) DEF TypeOK
  <2>2. InSequence(queue[b], b, x, handled[b][x], n)
    BY <2>1, Zenon DEF NothingLost
  <2>3. CASE b # a
    BY <1>2, <2>1, <2>2, <2>3, Zenon DEF TypeOK
  <2>4. CASE b = a
    <3>1. handled'[b][x] = (IF Head(queue[b]).src = x THEN handled[b][x] + 1 ELSE handled[b][x])
      BY <1>1, <1>2, <1>3, <2>4, Zenon DEF TypeOK
    <3>2. q[b] = Tail(queue[b]) /\ queue[b] \in Seq(Events) /\ queue[b] # <<>> /\ handled[b][x] \in Nat
      BY <1>3, <2>4, Zenon DEF TypeOK
    <3>3. InSequence(Tail(queue[b]), b, x, IF Head(queue[b]).src = x THEN handled[b][x] + 1 ELSE handled[b][x], n)
      BY <2>2, <3>2, SequenceTaken, Zenon
    <3>. QED BY <2>1, <3>1, <3>2, <3>3, Zenon
  <2>. QED BY <2>3, <2>4, Zenon
<1>7. Following(q, a)
  <2>1. ASSUME NEW b \in Apps, NEW x \in Greenlets
        PROVE  InSequence(q[b], b, x, handled'[b][x],
                          IF x # a /\ onto[x] = b THEN sent[b][x] - 1 ELSE sent[b][x])
    <3>1. (IF x # a /\ onto[x] = b THEN sent[b][x] - 1 ELSE sent[b][x])
          = (IF onto[x] = b THEN sent[b][x] - 1 ELSE sent[b][x])
      BY <1>0, Zenon
    <3>. QED BY <1>6, <3>1, Zenon
  <2>. QED BY <2>1, Zenon DEF Following
<1>. QED BY <1>5, <1>6, <1>7, Zenon DEF Left

\* A greenlet that is not blocked has put all it sent.
LEMMA NothingHeld ==
    ASSUME TypeOK, Putting, NothingLost, NEW g \in Greenlets, at[g] # "blocked", handled' = handled
    PROVE  /\ Following(queue, g)
           /\ Left(queue)
<1>0. onto[g] = None /\ None \notin Apps
  BY ConstantsAssumption, Zenon DEF Putting, Greenlets
<1>1. ASSUME NEW a \in Apps, NEW x \in Greenlets
      PROVE  /\ InSequence(queue[a], a, x, handled'[a][x],
                           IF onto[x] = a THEN sent[a][x] - 1 ELSE sent[a][x])
             /\ InSequence(queue[a], a, x, handled'[a][x],
                           IF x # g /\ onto[x] = a THEN sent[a][x] - 1 ELSE sent[a][x])
  <2>1. (IF x # g /\ onto[x] = a THEN sent[a][x] - 1 ELSE sent[a][x])
        = (IF onto[x] = a THEN sent[a][x] - 1 ELSE sent[a][x])
    BY <1>0, Zenon
  <2>2. InSequence(queue[a], a, x, handled'[a][x],
                   IF onto[x] = a THEN sent[a][x] - 1 ELSE sent[a][x])
    BY Zenon DEF NothingLost
  <2>. QED BY <2>1, <2>2, Zenon
<1>. QED BY <1>1, Zenon DEF Following, Left

\* The events in hand stay the same.
LEMMA SameHand ==
    ASSUME BusType, NEW g \in Greenlets, NEW h, cur[g] = h
    PROVE  [cur EXCEPT ![g] = h] = cur
BY Zenon DEF BusType

LEMMA NewEvent ==
    ASSUME TypeOK, NEW g \in Greenlets, NEW k \in Kinds, k = "request" => g # Manager, NEW T \in SUBSET Apps
    PROVE  Event(g, k) \in Events /\ NextOf(Event(g, k), g, T) /\ Event(g, k).kind = k
<1>1. [a \in Apps |-> sent[a][g] + 1] \in [Apps -> Nat]
  BY DEF TypeOK
<1>. QED BY <1>1, Zenon DEF Event, Events, NextOf

LEMMA NoneFirst ==
    ASSUME NEW q \in [Apps -> Seq(Events)], NEW e
    PROVE  q = Delivered(q, {}, e)
BY Zenon DEF Delivered

LEMMA ClientStep ==
    ASSUME IInv, NEW c \in Clients, NEW a \in Apps, NEW k \in {"event", "request"}, ClientSends(c, a, k)
    PROVE  IInv'
<1>. USE ConstantsAssumption
<1>1. c \in Greenlets /\ c \notin Apps /\ c # Manager /\ at[c] = "idle" /\ cur[c] = None
  BY Zenon DEF IInv, InHand, Greenlets, ClientSends
<1>2. PICK e \in Events : e = Event(c, k) /\ NextOf(e, c, {a} \cap bricks)
  BY <1>1, NewEvent, Zenon DEF IInv, Kinds
<1>3. RestType' /\ handled' = handled
  BY SMTT(30) DEF RestType, IInv, TypeOK, ClientSends
<1>4. TypeOK /\ Putting /\ InHand /\ NothingLost /\ BusType /\ queue \in [Apps -> Seq(Events)]
  BY TypeParts, Zenon DEF IInv, BusType
<1>5. [cur EXCEPT ![c] = None] = cur
  BY <1>1, <1>4, SameHand, Zenon
<1>6. Waiting(queue, [cur EXCEPT ![c] = None], at) /\ One(queue, [cur EXCEPT ![c] = None])
  BY <1>5, Zenon DEF IInv, Asked, OneRequest
<1>7. Following(queue, c)
  BY <1>1, <1>3, <1>4, NothingHeld, Zenon
<1>8. ForOne(e, {} \cup ({a} \cap bricks))
  BY Zenon DEF ForOne
<1>9. send_event(c, {a} \cap bricks, e, queue, None) /\ at[c] # "waiting"
  BY <1>1, <1>2, Zenon DEF ClientSends
<1>10. queue = Delivered(queue, {}, e) /\ \A b \in Apps : Len(queue[b]) <= QCap
  BY <1>4, NoneFirst, Zenon DEF BusType
<1>11. {a} \cap bricks \in SUBSET Apps /\ {} \in SUBSET Apps /\ {} \cap ({a} \cap bricks) = {} /\ None \in Events \cup {None}
  BY Zenon
<1>12. None # None => c \in Apps
  OBVIOUS
<1>. QED BY <1>1, <1>2, <1>3, <1>4, <1>6, <1>7, <1>8, <1>9, <1>10, <1>11, <1>12, SendStep, Zenon

LEMMA StopStep ==
    ASSUME IInv, NEW a \in Apps, uninstantiate(a)
    PROVE  IInv'
<1>. USE ConstantsAssumption
<1>. DEFINE c == Manager
<1>1. c \in Greenlets /\ c \notin Apps /\ at[c] = "idle" /\ cur[c] = None
  BY Zenon DEF IInv, InHand, Greenlets, uninstantiate
<1>2. PICK e \in Events : e = Event(c, "stop") /\ NextOf(e, c, {a}) /\ e.kind = "stop"
  BY <1>1, NewEvent, Zenon DEF IInv, Kinds
<1>3. RestType' /\ handled' = handled
  <2>1. active' \in [Apps -> BOOLEAN]
    BY Zenon DEF IInv, TypeOK, uninstantiate
  <2>. QED BY <2>1, Zenon DEF RestType, IInv, TypeOK, uninstantiate
<1>4. TypeOK /\ Putting /\ InHand /\ NothingLost /\ BusType /\ queue \in [Apps -> Seq(Events)]
  BY TypeParts, Zenon DEF IInv, BusType
<1>5. [cur EXCEPT ![c] = None] = cur
  BY <1>1, <1>4, SameHand, Zenon
<1>6. Waiting(queue, [cur EXCEPT ![c] = None], at) /\ One(queue, [cur EXCEPT ![c] = None])
  BY <1>5, Zenon DEF IInv, Asked, OneRequest
<1>7. Following(queue, c)
  BY <1>1, <1>3, <1>4, NothingHeld, Zenon
<1>8. ForOne(e, {} \cup {a})
  BY <1>2, Zenon DEF ForOne
<1>9. send_event(c, {a}, e, queue, None) /\ at[c] # "waiting"
  BY <1>1, <1>2, Zenon DEF uninstantiate
<1>10. queue = Delivered(queue, {}, e) /\ \A b \in Apps : Len(queue[b]) <= QCap
  BY <1>4, NoneFirst, Zenon DEF BusType
<1>11. {a} \in SUBSET Apps /\ {} \in SUBSET Apps /\ {} \cap {a} = {} /\ None \in Events \cup {None}
  BY Zenon
<1>12. None # None => c \in Apps
  OBVIOUS
<1>. HIDE DEF c
<1>. QED BY <1>1, <1>2, <1>3, <1>4, <1>6, <1>7, <1>8, <1>9, <1>10, <1>11, <1>12, SendStep, Zenon

\* A handler that sends.
LEMMA HandlerSends ==
    ASSUME IInv, NEW a \in Apps, NEW h, h = Head(queue[a]), NEW q, q = [queue EXCEPT ![a] = Tail(@)],
           Takes(a, h, q), NEW T \in SUBSET Apps, NEW k \in {"notice", "request"}, ForOne(Event(a, k), T),
           send_event(a, T, Event(a, k), q, h)
    PROVE  IInv'
<1>. USE ConstantsAssumption
<1>1. a \in Greenlets /\ a # Manager /\ at[a] = "idle" /\ queue[a] # <<>>
  BY Zenon DEF Greenlets, Takes
<1>2. PICK e \in Events : e = Event(a, k) /\ NextOf(e, a, T)
  BY <1>1, NewEvent, Zenon DEF IInv, Kinds
<1>3. TypeOK /\ Putting /\ InHand /\ NothingLost /\ Asked /\ OneRequest
  BY Zenon DEF IInv
<1>4. RestType' /\ Following(q, a)
  BY <1>1, <1>3, TakenSequence, Zenon
<1>5. /\ h \in Events /\ q \in [Apps -> Seq(Events)] /\ \A b \in Apps : Len(q[b]) <= QCap
      /\ Waiting(q, [cur EXCEPT ![a] = h], at) /\ One(q, [cur EXCEPT ![a] = h])
  BY <1>1, <1>3, TakenRequests, Zenon
<1>6. q = Delivered(q, {}, e)
  BY <1>5, NoneFirst, Zenon
<1>7. ForOne(e, {} \cup T)
  BY <1>2, Zenon DEF ForOne
<1>8. send_event(a, T, e, q, h) /\ at[a] # "waiting"
  BY <1>1, <1>2, Zenon
<1>9. {} \in SUBSET Apps /\ {} \cap T = {} /\ h \in Events \cup {None} /\ (h # None => a \in Apps)
  BY <1>5, Zenon
<1>. QED BY <1>1, <1>2, <1>3, <1>4, <1>5, <1>6, <1>7, <1>8, <1>9, SendStep, Zenon

LEMMA LoopStep ==
    ASSUME IInv, NEW a \in Apps, _event_loop(a)
    PROVE  IInv'
<1>. USE ConstantsAssumption
<1>1. PICK h : h = Head(queue[a])
  OBVIOUS
<1>2. PICK q : q = [queue EXCEPT ![a] = Tail(@)]
  BY Zenon
<1>3. Takes(a, h, q)
  BY <1>1, <1>2, Zenon DEF _event_loop
<1>4. a \in Greenlets /\ at[a] = "idle" /\ queue[a] # <<>> /\ cur[a] = None
  BY <1>3, Zenon DEF Greenlets, Takes, IInv, InHand
<1>5. TypeOK /\ Putting /\ InHand /\ NothingLost /\ Asked /\ OneRequest /\ BusType
  BY TypeParts, Zenon DEF IInv
<1>6. /\ h \in Events /\ q \in [Apps -> Seq(Events)] /\ \A b \in Apps : Len(q[b]) <= QCap
      /\ Waiting(q, [cur EXCEPT ![a] = h], at) /\ One(q, [cur EXCEPT ![a] = h])
      /\ Silent(q, [cur EXCEPT ![a] = h], a)
  BY <1>1, <1>2, <1>4, <1>5, TakenRequests, Zenon
<1>7. RestType' /\ Left(q)
  BY <1>1, <1>2, <1>3, <1>4, <1>5, TakenSequence, Zenon
<1>8. at[a] # "blocked" /\ h \in Events \cup {None} /\ (h # None => a \in Apps)
  BY <1>4, <1>6, Zenon
<1>9. CASE handler_returns(a, h, q)
  <2>1. Finish(a, h, q) /\ queue' = q /\ UNCHANGED <<putVars, sent>>
    BY <1>9, Zenon DEF handler_returns
  <2>2. /\ at' \in [Greenlets -> {"idle", "blocked", "waiting", "replied", "ended", "raised"}]
        /\ cur' \in [Greenlets -> Events \cup {None}]
        /\ at'[a] \in {"idle", "ended"} /\ cur'[a] = None
        /\ \A x \in Greenlets \ {a} :
              /\ at'[x] = (IF h # None /\ h.kind = "request" /\ h.src = x THEN "replied" ELSE at[x])
              /\ cur'[x] = cur[x]
    BY <1>4, <1>5, <2>1, FinishType, Zenon
  <2>3. Others(a, h)
    BY <2>2, Zenon DEF Others, Asking
  <2>4. at'[a] \in {"idle", "ended", "raised"}
    BY <2>2, Zenon
  <2>. QED BY <1>4, <1>5, <1>6, <1>7, <1>8, <2>1, <2>2, <2>3, <2>4, QuietStep, Zenon
<1>10. CASE send_event_to_observers(a, h, q)
  <2>1. ForOne(Event(a, "notice"), {b \in bricks : <<a, b>> \in observers})
    BY Zenon DEF ForOne, Event
  <2>2. {b \in bricks : <<a, b>> \in observers} \in SUBSET Apps
    BY <1>5, Zenon DEF TypeOK
  <2>. QED BY <1>1, <1>2, <1>3, <1>10, <2>1, <2>2, HandlerSends, Zenon DEF send_event_to_observers
<1>11. CASE \E b \in Apps : send_request(a, b, h, q)
  <2>1. PICK b \in Apps : send_request(a, b, h, q)
    BY <1>11, Zenon
  <2>2. ForOne(Event(a, "request"), {b} \cap bricks) /\ {b} \cap bricks \in SUBSET Apps
    BY Zenon DEF ForOne
  <2>. QED BY <1>1, <1>2, <1>3, <2>1, <2>2, HandlerSends, Zenon DEF send_request
<1>12. CASE handler_raises(a, h, q)
  <2>1. queue' = q /\ at' = [at EXCEPT ![a] = "raised"] /\ cur' = cur /\ UNCHANGED <<putVars, sent>>
    BY <1>12, Zenon DEF handler_raises
  <2>2. /\ at' \in [Greenlets -> {"idle", "blocked", "waiting", "replied", "ended", "raised"}]
        /\ cur' \in [Greenlets -> Events \cup {None}]
        /\ at'[a] \in {"idle", "ended", "raised"} /\ cur'[a] = None /\ Others(a, h)
    BY <1>4, <1>5, <2>1, Zenon DEF BusType, Others
  <2>. QED BY <1>4, <1>5, <1>6, <1>7, <1>8, <2>1, <2>2, QuietStep, Zenon
<1>. QED BY <1>1, <1>2, <1>9, <1>10, <1>11, <1>12, Zenon DEF _event_loop

LEMMA UnblockStep ==
    ASSUME IInv, NEW g \in Greenlets, Unblock(g)
    PROVE  IInv'
<1>. USE ConstantsAssumption
<1>1. TypeOK /\ Putting /\ InHand /\ NothingLost /\ Asked /\ OneRequest /\ BusType
  BY TypeParts, Zenon DEF IInv
<1>2. at[g] = "blocked" /\ onto[g] # None
  BY <1>1, Zenon DEF Unblock, Putting
<1>3. PICK f \in Apps : f = onto[g]
  BY <1>1, <1>2, Zenon DEF BusType
<1>4. PICK e \in Events : e = out[g]
  BY <1>1, <1>2 DEF BusType, Putting
<1>5. PICK h \in Events \cup {None} : h = cur[g]
  BY <1>1, Zenon DEF BusType
<1>6. PICK T \in SUBSET Apps : T = todo[g] \cap bricks
  BY <1>1, Zenon DEF BusType
<1>7. /\ e.src = g /\ e.n[f] = sent[f][g] /\ f \notin T
      /\ \A t \in T : e.n[t] = sent[t][g] + 1
      /\ e.kind = "request" => T = {}
  BY <1>1, <1>2, <1>3, <1>4, <1>6, Zenon DEF Putting
<1>8. NextOf(e, g, T) /\ ForOne(e, {f} \cup T) /\ {f} \cap T = {}
  BY <1>7 DEF NextOf, ForOne
<1>9. PICK p : p = [queue EXCEPT ![f] = Append(@, e)]
  BY Zenon
<1>10. /\ Append(queue[f], e) \in Seq(Events) /\ Len(queue[f]) \in Nat /\ Len(Append(queue[f], e)) = Len(queue[f]) + 1
       /\ queue \in [Apps -> Seq(Events)]
  <2>1. queue \in [Apps -> Seq(Events)]
    BY <1>1, Zenon DEF BusType
  <2>2. queue[f] \in Seq(Events)
    BY <2>1, QueueLengths, Zenon
  <2>. QED BY <2>1, <2>2, Appended
<1>11. p \in [Apps -> Seq(Events)] /\ p = Delivered(queue, {f}, e)
  BY <1>9, <1>10, Zenon DEF Delivered
<1>12. Len(queue[f]) < QCap
  <2>1. ~ (Len(queue[f]) >= QCap)
    BY <1>3, Zenon DEF Unblock, Full
  <2>. QED BY <1>10, <2>1
<1>13. \A a \in Apps : Len(p[a]) <= QCap
  BY <1>1, <1>9, <1>10, <1>12 DEF BusType
<1>14. send_event(g, T, e, p, h)
  BY <1>3, <1>4, <1>5, <1>6, <1>9, Zenon DEF Unblock
<1>15. RestType' /\ handled' = handled
  BY <1>1, Zenon DEF TypeOK, RestType, Unblock
<1>16. h # None => g \in Apps
  BY <1>1, <1>5, Zenon DEF InHand
<1>17. Waiting(queue, [cur EXCEPT ![g] = h], at) /\ One(queue, [cur EXCEPT ![g] = h])
  BY <1>1, <1>5, SameHand, Zenon DEF Asked, OneRequest
<1>18. Following(p, g)
  <2>1. SUFFICES ASSUME NEW a \in Apps, NEW x \in Greenlets
                 PROVE  InSequence(p[a], a, x, handled'[a][x],
                                   IF x # g /\ onto[x] = a THEN sent[a][x] - 1 ELSE sent[a][x])
    BY Zenon DEF Following
  <2>2. /\ handled'[a][x] = handled[a][x] /\ handled[a][x] \in Nat
        /\ sent[a][x] \in Nat /\ queue[a] \in Seq(Events)
    BY <1>1, <1>15 DEF TypeOK
  <2>3. PICK m \in Nat : m = handled'[a][x]
    BY <2>2, Zenon
  <2>4. PICK n \in Int : n = (IF onto[x] = a THEN sent[a][x] - 1 ELSE sent[a][x])
    BY <2>2, SMTT(30)
  <2>5. InSequence(queue[a], a, x, m, n)
    BY <1>1, <2>2, <2>3, <2>4, Zenon DEF NothingLost
  <2>6. CASE a # f
    <3>1. p[a] = queue[a]
      BY <1>9, <1>10, <2>6, Zenon
    <3>2. (IF x # g /\ onto[x] = a THEN sent[a][x] - 1 ELSE sent[a][x]) = n
      BY <1>3, <2>4, <2>6, Zenon
    <3>. QED BY <2>3, <2>5, <3>1, <3>2, Zenon
  <2>7. CASE a = f /\ x # g
    <3>1. p[a] = Append(queue[a], e)
      BY <1>9, <1>10, <2>7, Zenon
    <3>2. (IF x # g /\ onto[x] = a THEN sent[a][x] - 1 ELSE sent[a][x]) = n
      BY <2>4, <2>7, Zenon
    <3>3. InSequence(Append(queue[a], e), a, x, m, n)
      BY <1>7, <2>2, <2>5, <2>7, SequenceOther, Zenon
    <3>. QED BY <2>3, <3>1, <3>2, <3>3, Zenon
  <2>8. CASE a = f /\ x = g
    <3>1. p[a] = Append(queue[a], e)
      BY <1>9, <1>10, <2>8, Zenon
    <3>2. n = sent[a][x] - 1 /\ n + 1 = sent[a][x]
      <4>1. onto[x] = a
        BY <1>3, <2>8, Zenon
      <4>2. n = sent[a][x] - 1
        BY <2>4, <4>1, Zenon
      <4>. QED BY <2>2, <4>2
    <3>3. e.n[a] = n + 1
      BY <1>7, <2>8, <3>2, Zenon
    <3>4. InSequence(Append(queue[a], e), a, x, m, n + 1)
      BY <1>7, <2>2, <2>5, <2>8, <3>3, SequenceOwn, Zenon
    <3>5. (IF x # g /\ onto[x] = a THEN sent[a][x] - 1 ELSE sent[a][x]) = n + 1
      BY <2>8, <3>2, Zenon
    <3>. QED BY <2>3, <3>1, <3>4, <3>5, Zenon
  <2>. QED BY <2>6, <2>7, <2>8, Zenon
<1>19. {f} \in SUBSET Apps /\ at[g] # "waiting"
  BY <1>2, Zenon
<1>. QED BY <1>1, <1>8, <1>10, <1>11, <1>13, <1>14, <1>15, <1>16, <1>17, <1>18, <1>19, SendStep, Zenon

LEMMA ResumeStep ==
    ASSUME IInv, NEW g \in Greenlets, Resume(g)
    PROVE  IInv'
<1>1. TypeOK /\ Putting /\ InHand /\ NothingLost /\ Asked /\ OneRequest /\ BusType
  BY TypeParts, Zenon DEF IInv
<1>2. PICK h \in Events \cup {None} : h = cur[g]
  BY <1>1, Zenon DEF BusType
<1>3. /\ at[g] = "replied" /\ Finish(g, h, queue)
      /\ queue' = queue /\ handled' = handled /\ UNCHANGED <<putVars, sent>>
  BY <1>2, Zenon DEF Resume, busVars
<1>4. /\ at' \in [Greenlets -> {"idle", "blocked", "waiting", "replied", "ended", "raised"}]
      /\ cur' \in [Greenlets -> Events \cup {None}]
      /\ at'[g] \in {"idle", "ended"} /\ cur'[g] = None
      /\ \A x \in Greenlets \ {g} :
            /\ at'[x] = (IF h # None /\ h.kind = "request" /\ h.src = x THEN "replied" ELSE at[x])
            /\ cur'[x] = cur[x]
  BY <1>1, <1>3, FinishType, Zenon
<1>5. Others(g, h)
  BY <1>4, Zenon DEF Others, Asking
<1>6. at'[g] \in {"idle", "ended", "raised"} /\ at[g] # "blocked" /\ at[g] # "waiting"
  BY <1>3, <1>4, Zenon
<1>7. RestType'
  BY <1>1, Zenon DEF TypeOK, RestType, Resume, busVars
<1>8. h # None => g \in Apps
  BY <1>1, <1>2, Zenon DEF InHand
<1>9. Waiting(queue, [cur EXCEPT ![g] = h], at) /\ One(queue, [cur EXCEPT ![g] = h])
  BY <1>1, <1>2, SameHand, Zenon DEF Asked, OneRequest
<1>10. Silent(queue, [cur EXCEPT ![g] = h], g)
  BY <1>6, <1>9, NotAsking, Zenon
<1>11. Left(queue)
  BY <1>1, <1>3, <1>6, NothingHeld, Zenon
<1>12. queue \in [Apps -> Seq(Events)] /\ \A a \in Apps : Len(queue[a]) <= QCap
  BY <1>1, Zenon DEF BusType
<1>. QED BY <1>1, <1>3, <1>4, <1>5, <1>6, <1>7, <1>8, <1>9, <1>10, <1>11, <1>12, QuietStep, Zenon

LEMMA JoinStep ==
    ASSUME IInv, joinall
    PROVE  IInv'
<1>. USE ConstantsAssumption
<1>1. TypeOK /\ Putting /\ InHand /\ NothingLost /\ Asked /\ OneRequest /\ BusType
  BY TypeParts, Zenon DEF IInv
<1>2. PICK g \in Greenlets : g = Manager
  BY Zenon DEF Greenlets
<1>3. PICK h \in Events \cup {None} : h = None
  BY Zenon
<1>4. g \notin Apps /\ cur[g] = h /\ at[g] = "waiting"
  BY <1>1, <1>2, <1>3, Zenon DEF InHand, Greenlets, joinall
<1>5. /\ at' = [at EXCEPT ![g] = "idle"] /\ cur' = cur
      /\ queue' = queue /\ handled' = handled /\ UNCHANGED <<putVars, sent>>
  BY <1>2, Zenon DEF joinall, busVars
<1>6. /\ at' \in [Greenlets -> {"idle", "blocked", "waiting", "replied", "ended", "raised"}]
      /\ cur' \in [Greenlets -> Events \cup {None}]
      /\ at'[g] \in {"idle", "ended", "raised"} /\ cur'[g] = None /\ Others(g, h)
      /\ at[g] # "blocked"
  BY <1>1, <1>3, <1>4, <1>5, Zenon DEF BusType, Others
<1>7. RestType'
  BY <1>1, Zenon DEF TypeOK, RestType, joinall, busVars
<1>8. h # None => g \in Apps
  BY <1>3, Zenon
<1>9. Waiting(queue, [cur EXCEPT ![g] = h], at) /\ One(queue, [cur EXCEPT ![g] = h])
  BY <1>1, <1>4, SameHand, Zenon DEF Asked, OneRequest
<1>10. Silent(queue, [cur EXCEPT ![g] = h], g)
  <2>1. [cur EXCEPT ![g] = h] = cur
    BY <1>1, <1>4, SameHand, Zenon
  <2>2. ASSUME NEW a \in Apps, NEW i \in 0 .. Len(queue[a]) PROVE ~ Asking(Place(queue, cur, a, i), g)
    <3>1. Place(queue, cur, a, i) \in Events \cup {None}
      BY <1>1 DEF BusType, Place, Greenlets
    <3>. QED BY <1>2, <3>1, Zenon DEF Asking, Events
  <2>. QED BY <2>1, <2>2, Zenon DEF Silent
<1>11. Left(queue)
  BY <1>1, <1>5, <1>6, NothingHeld, Zenon
<1>12. queue \in [Apps -> Seq(Events)] /\ \A a \in Apps : Len(queue[a]) <= QCap
  BY <1>1, Zenon DEF BusType
<1>. QED BY <1>1, <1>5, <1>6, <1>7, <1>8, <1>9, <1>10, <1>11, <1>12, QuietStep, Zenon

LEMMA InitIInv == Init => IInv
<1>. SUFFICES ASSUME Init PROVE IInv
  BY Zenon
<1>. USE ConstantsAssumption
<1>0. None \notin Apps /\ \A a \in Apps : a \in Greenlets
  BY Zenon DEF Greenlets
<1>1. TypeOK
  <2>1. <<>> \in Seq(Events) /\ Len(<<>>) = 0
    OBVIOUS
  <2>2. queue \in [Apps -> Seq(Events)] /\ \A a \in Apps : Len(queue[a]) <= QCap
    BY <2>1, SMTT(30) DEF Init
  <2>. QED BY <2>2 DEF Init, TypeOK
<1>2. Putting
  BY Zenon DEF Init, Putting
<1>3. InHand
  BY Zenon DEF Init, InHand
<1>4. NothingLost
  <2>1. ASSUME NEW a \in Apps, NEW g \in Greenlets
        PROVE  InSequence(queue[a], a, g, handled[a][g], IF onto[g] = a THEN sent[a][g] - 1 ELSE sent[a][g])
    <3>1. queue[a] = <<>> /\ handled[a][g] = 0 /\ sent[a][g] = 0 /\ onto[g] # a
      BY <1>0, Zenon DEF Init
    <3>2. InSequence(<<>>, a, g, 0, 0)
      BY SMTT(30) DEF InSequence
    <3>. QED BY <3>1, <3>2, Zenon
  <2>. QED BY <2>1, Zenon DEF NothingLost
<1>5. \A a \in Apps : \A i \in 0 .. Len(queue[a]) : Place(queue, cur, a, i) = None
  BY <1>0 DEF Init, Place
<1>6. Asked /\ OneRequest
  BY <1>5, ZenonT(30) DEF Asked, OneRequest, Waiting, One, Asking
<1>. QED BY <1>1, <1>2, <1>3, <1>4, <1>6, Zenon DEF IInv

LEMMA StepIInv == IInv /\ [Next]_vars => IInv'
<1>. SUFFICES ASSUME IInv, [Next]_vars PROVE IInv'
  BY Zenon
<1>. USE ConstantsAssumption
<1>1. ASSUME NEW p \in Sends, ClientSends(p[1], p[2], "event") PROVE IInv'
  <2>1. p[1] \in Clients /\ p[2] \in Apps
    BY <1>1, Zenon
  <2>. QED BY <1>1, <2>1, ClientStep, Zenon
<1>2. ASSUME NEW p \in Asks, p[1] \in Clients, ClientSends(p[1], p[2], "request") PROVE IInv'
  <2>1. p[2] \in Apps
    BY <1>2, Zenon
  <2>. QED BY <1>2, <2>1, ClientStep, Zenon
<1>3. ASSUME NEW a \in Apps, _event_loop(a) PROVE IInv'
  BY <1>3, LoopStep, Zenon
<1>4. ASSUME NEW a \in Apps, uninstantiate(a) PROVE IInv'
  BY <1>4, StopStep, Zenon
<1>5. ASSUME NEW g \in Greenlets, Unblock(g) PROVE IInv'
  BY <1>5, UnblockStep, Zenon
<1>6. ASSUME NEW g \in Greenlets, Resume(g) PROVE IInv'
  BY <1>6, ResumeStep, Zenon
<1>7. CASE joinall
  BY <1>7, JoinStep, Zenon
<1>8. CASE UNCHANGED vars
  <2>1. /\ queue' = queue /\ active' = active /\ bricks' = bricks /\ observers' = observers
        /\ at' = at /\ cur' = cur /\ out' = out /\ onto' = onto /\ todo' = todo
        /\ stopping' = stopping /\ ops' = ops /\ sent' = sent /\ handled' = handled
    BY <1>8, Zenon DEF vars, busVars, putVars
  <2>2. TypeOK' /\ Putting' /\ InHand'
    BY <2>1, Zenon DEF IInv, TypeOK, Putting, InHand
  <2>3. NothingLost'
    BY <2>1, Zenon DEF IInv, NothingLost
  <2>4. Asked' /\ OneRequest'
    BY <2>1, Zenon DEF IInv, Asked, OneRequest
  <2>. QED BY <2>2, <2>3, <2>4, Zenon DEF IInv
<1>. QED BY <1>1, <1>2, <1>3, <1>4, <1>5, <1>6, <1>7, <1>8, Zenon DEF Next

LEMMA Invariance == Spec => []IInv
<1>. QED BY InitIInv, StepIInv, PTL DEF Spec

-----------------------------------------------------------------------------
(***************************************************************************)
(* The theorems.                                                           *)
(***************************************************************************)

\* The state stays well formed; no queue holds more than its capacity.
THEOREM BusTypes == Spec => []TypeOK
<1>1. IInv => TypeOK
  BY Zenon DEF IInv
<1>. QED BY <1>1, Invariance, PTL

\* Between any two greenlets the bus loses, repeats and reorders nothing, with
\* any number of senders blocked on full queues, exceptions and stops.
THEOREM BusLosesNothing == Spec => []NothingLost
<1>1. IInv => NothingLost
  BY Zenon DEF IInv
<1>. QED BY <1>1, Invariance, PTL

\* A queued or handled request is one whose sender waits for its reply.
THEOREM RequestersWait == Spec => []RequesterWaits
<1>1. ASSUME IInv PROVE RequesterWaits
  <2>1. BusType /\ Waiting(queue, cur, at)
    BY <1>1, TypeParts, Zenon DEF IInv, Asked
  <2>2. ASSUME NEW a \in Apps, NEW i \in 1 .. Len(queue[a]), queue[a][i].kind = "request"
        PROVE  at[queue[a][i].src] = "waiting"
    <3>1. queue[a][i] \in Events
      BY <2>1 DEF BusType
    <3>2. queue[a][i] # None /\ queue[a][i].src \in Greenlets
      BY <3>1, NoneAssumption, Zenon DEF Events
    <3>3. Place(queue, cur, a, i) = queue[a][i] /\ i \in 0 .. Len(queue[a])
      BY SMTT(30) DEF Place
    <3>4. Asking(Place(queue, cur, a, i), queue[a][i].src)
      BY <2>2, <3>2, <3>3, Zenon DEF Asking
    <3>. QED BY <2>1, <3>2, <3>3, <3>4, Zenon DEF Waiting
  <2>3. ASSUME NEW a \in Apps, cur[a] # None, cur[a].kind = "request"
        PROVE  at[cur[a].src] = "waiting"
    <3>1. cur[a] \in Events
      BY <2>1, <2>3, Zenon DEF BusType, Greenlets
    <3>2. cur[a].src \in Greenlets
      BY <3>1, Zenon DEF Events
    <3>3. Place(queue, cur, a, 0) = cur[a] /\ 0 \in 0 .. Len(queue[a])
      BY <2>1 DEF Place, BusType
    <3>4. Asking(Place(queue, cur, a, 0), cur[a].src)
      BY <2>3, <3>3, Zenon DEF Asking
    <3>. QED BY <2>1, <3>2, <3>3, <3>4, Zenon DEF Waiting
  <2>. QED BY <2>2, <2>3, Zenon DEF RequesterWaits
<1>. QED BY <1>1, Invariance, PTL

\* An event loop that g's step ends had nothing left on its queue.
LEMMA FinishEnds ==
    ASSUME NEW g \in Greenlets, NEW h, NEW q, Finish(g, h, q),
           NEW a \in Apps, at[a] # "ended", at'[a] = "ended"
    PROVE  q[a] = <<>>
<1>1. a \in Greenlets
  BY Zenon DEF Greenlets
<1>2. a = g
  BY <1>1, Zenon DEF Finish
<1>3. at'[a] = LoopTest(a, q)
  BY <1>1, <1>2, Zenon DEF Finish
<1>. QED BY <1>3, Zenon DEF LoopTest

LEMMA SendEnds ==
    ASSUME BusType, NEW g \in Greenlets, NEW T \in SUBSET Apps, NEW e, NEW h,
           NEW q \in [Apps -> Seq(Events)], send_event(g, T, e, q, h),
           NEW a \in Apps, at[a] # "ended", at'[a] = "ended"
    PROVE  queue'[a] = <<>>
<1>1. a \in Greenlets /\ \A b \in Apps : Len(q[b]) \in Nat
  BY DEF Greenlets
<1>2. PICK D \in SUBSET T, b \in T \cup {None} :
         b \notin D /\ Puts(g, T, e, q, D, b) /\ Goes(g, T, e, h, D, b)
  BY <1>1, SendCases, Zenon
<1>3. b = None /\ ~ Waits(e)
  BY <1>1, <1>2, Zenon DEF Goes, BusType
<1>4. Finish(g, h, queue')
  BY <1>2, <1>3, Zenon DEF Goes
<1>. QED BY <1>4, FinishEnds, Zenon

\* An event loop ends only when nothing is left on its queue.
THEOREM LoopsEndDrained == Spec => EndsDrained
<1>1. ASSUME IInv, [Next]_vars
      PROVE  [\A a \in Apps : at[a] # "ended" /\ at'[a] = "ended" => queue'[a] = <<>>]_vars
  <2>. USE ConstantsAssumption
  <2>1. SUFFICES ASSUME NEW a \in Apps, at[a] # "ended", at'[a] = "ended", Next
                 PROVE  queue'[a] = <<>>
    BY <1>1, Zenon
  <2>2. TypeOK /\ BusType /\ queue \in [Apps -> Seq(Events)] /\ a \in Greenlets
    BY <1>1, TypeParts, Zenon DEF IInv, BusType, Greenlets
  <2>3. ASSUME NEW c \in Clients, NEW b \in Apps, NEW k, ClientSends(c, b, k) PROVE queue'[a] = <<>>
    <3>1. c \in Greenlets /\ {b} \cap bricks \in SUBSET Apps
      BY Zenon DEF Greenlets
    <3>2. send_event(c, {b} \cap bricks, Event(c, k), queue, None)
      BY <2>3, Zenon DEF ClientSends
    <3>. QED BY <2>1, <2>2, <3>1, <3>2, SendEnds, Zenon
  <2>4. ASSUME NEW p \in Sends, ClientSends(p[1], p[2], "event") PROVE queue'[a] = <<>>
    <3>1. p[1] \in Clients /\ p[2] \in Apps
      BY <2>4, Zenon
    <3>. QED BY <2>3, <2>4, <3>1, Zenon
  <2>5. ASSUME NEW p \in Asks, p[1] \in Clients, ClientSends(p[1], p[2], "request") PROVE queue'[a] = <<>>
    <3>1. p[2] \in Apps
      BY <2>5, Zenon
    <3>. QED BY <2>3, <2>5, <3>1, Zenon
  <2>6. ASSUME NEW b \in Apps, _event_loop(b) PROVE queue'[a] = <<>>
    <3>1. PICK h : h = Head(queue[b])
      OBVIOUS
    <3>2. PICK q : q = [queue EXCEPT ![b] = Tail(@)]
      BY Zenon
    <3>3. b \in Greenlets /\ queue[b] # <<>>
      BY <2>6, <3>1, <3>2, Zenon DEF Greenlets, _event_loop, Takes
    <3>4. q \in [Apps -> Seq(Events)]
      <4>1. Tail(queue[b]) \in Seq(Events)
        BY <2>2, <3>3, Shortened
      <4>. QED BY <2>2, <3>2, <4>1, Zenon
    <3>5. CASE handler_returns(b, h, q)
      BY <2>1, <3>3, <3>5, FinishEnds, Zenon DEF handler_returns
    <3>6. CASE send_event_to_observers(b, h, q)
      <4>1. {d \in bricks : <<b, d>> \in observers} \in SUBSET Apps
        BY <2>2, Zenon DEF TypeOK
      <4>2. send_event(b, {d \in bricks : <<b, d>> \in observers}, Event(b, "notice"), q, h)
        BY <3>6, Zenon DEF send_event_to_observers
      <4>. QED BY <2>1, <2>2, <3>3, <3>4, <4>1, <4>2, SendEnds, Zenon
    <3>7. ASSUME NEW d \in Apps, send_request(b, d, h, q) PROVE queue'[a] = <<>>
      <4>1. {d} \cap bricks \in SUBSET Apps
        BY Zenon
      <4>2. send_event(b, {d} \cap bricks, Event(b, "request"), q, h)
        BY <3>7, Zenon DEF send_request
      <4>. QED BY <2>1, <2>2, <3>3, <3>4, <4>1, <4>2, SendEnds, Zenon
    <3>8. CASE handler_raises(b, h, q)
      BY <2>1, <2>2, <3>3, <3>8, Zenon DEF handler_raises, BusType
    <3>. QED BY <2>6, <3>1, <3>2, <3>5, <3>6, <3>7, <3>8, Zenon DEF _event_loop
  <2>7. ASSUME NEW b \in Apps, uninstantiate(b) PROVE queue'[a] = <<>>
    <3>1. Manager \in Greenlets /\ {b} \in SUBSET Apps
      BY Zenon DEF Greenlets
    <3>2. send_event(Manager, {b}, Event(Manager, "stop"), queue, None)
      BY <2>7, Zenon DEF uninstantiate
    <3>. QED BY <2>1, <2>2, <3>1, <3>2, SendEnds, Zenon
  <2>8. ASSUME NEW g \in Greenlets, Unblock(g) PROVE queue'[a] = <<>>
    <3>1. PICK q : q = [queue EXCEPT ![onto[g]] = Append(@, out[g])]
      BY Zenon
    <3>2. onto[g] \in Apps /\ out[g] \in Events /\ todo[g] \cap bricks \in SUBSET Apps
      <4>1. at[g] = "blocked"
        BY <2>8, Zenon DEF Unblock
      <4>2. onto[g] # None /\ out[g] # None
        BY <1>1, <4>1, Zenon DEF IInv, Putting
      <4>. QED BY <2>2, <4>2, Zenon DEF BusType
    <3>3. q \in [Apps -> Seq(Events)]
      <4>1. Append(queue[onto[g]], out[g]) \in Seq(Events)
        BY <2>2, <3>2, Appended
      <4>. QED BY <2>2, <3>1, <3>2, <4>1, Zenon
    <3>4. send_event(g, todo[g] \cap bricks, out[g], q, cur[g])
      BY <2>8, <3>1, Zenon DEF Unblock
    <3>. QED BY <2>1, <2>2, <3>2, <3>3, <3>4, SendEnds, Zenon
  <2>9. ASSUME NEW g \in Greenlets, Resume(g) PROVE queue'[a] = <<>>
    BY <2>1, <2>9, FinishEnds, Zenon DEF Resume, busVars
  <2>10. CASE joinall
    BY <2>1, <2>2, <2>10, Zenon DEF joinall, BusType, Greenlets
  <2>. QED BY <2>1, <2>4, <2>5, <2>6, <2>7, <2>8, <2>9, <2>10, Zenon DEF Next
<1>. QED BY <1>1, Invariance, PTL DEF Spec, EndsDrained
====
