---------------------------- MODULE OfctlProofs -----------------------------
(***************************************************************************)
(* Proofs about the request service for any connections, requests, reply   *)
(* classes and identifiers, and any other use of the connections.          *)
(***************************************************************************)
EXTENDS Ofctl, FiniteSetTheorems, TLAPS

\* An event that an application waits for the service to handle.
Call(ev) == ev.kind \in {"get_datapath", "send_msg"}

\* An application waits in one place: its call is in the queue q, once, or its
\* request is under way.
Queued(q, cl, ts) ==
    \A i \in 1 .. Len(q) :
        /\ q[i].kind = "get_datapath" => cl[q[i].req] = "asking"
        /\ q[i].kind = "send_msg" => cl[q[i].req] = "waiting" /\ \A x \in Xids : ts[x] # q[i].req
        /\ \A j \in 1 .. Len(q) : Call(q[i]) /\ Call(q[j]) /\ q[i].req = q[j].req => i = j

\* It holds a connection from the answer to its first call on.
Calls ==
    /\ Queued(queue, client, xids)
    /\ \A x \in Xids : xids[x] # None => client[xids[x]] = "waiting"
    /\ \A r \in Reqs : client[r] \in {"holding", "waiting"} => dp[r] # None

\* Only ended connections are announced as such.
Ended == \A i \in 1 .. Len(queue) : queue[i].kind = "dead" => state[queue[i].dp] = "dead"

\* Requests under way are counted, whatever their class.
Counted ==
    \A c \in Classes :
        /\ observing[c] >= Cardinality(Pending(c))
        /\ observing[c] > 0 => observers[c] # None

\* The inductive invariant.
IInv == TypeOK /\ TablesAgree /\ Calls /\ Ended /\ Counted

-----------------------------------------------------------------------------
(***************************************************************************)
(* Identifiers, events and queues.                                         *)
(***************************************************************************)

\* Two sequences of messages make one, as do two messages.
LEMMA ConcatInSeq ==
    ASSUME NEW S, NEW s1 \in Seq(S), NEW s2 \in Seq(S)
    PROVE  s1 \o s2 \in Seq(S)
OBVIOUS

LEMMA PairInSeq ==
    ASSUME NEW S, NEW a \in S, NEW b \in S
    PROVE  <<a, b>> \in Seq(S)
OBVIOUS

LEMMA NextXidType == \A x \in Xids : NextXid(x) \in Xids
BY OfctlAssumption DEF Xids, NextXid

LEMMA EventFields ==
    ASSUME NEW ev \in Events
    PROVE  /\ ev.kind \in {"features", "dead", "get_datapath", "send_msg", "msg"}
           /\ ev.kind \in {"features", "dead", "msg"} => ev.dp \in Conns
           /\ Call(ev) => ev.req \in Reqs
           /\ ev.kind = "msg" => ev.xid \in Xids /\ ev.cls \in Classes
BY Zenon DEF Events, Call

LEMMA Appended ==
    ASSUME NEW S, NEW q \in Seq(S), NEW e \in S
    PROVE  /\ Append(q, e) \in Seq(S) /\ Len(q) \in Nat /\ Len(Append(q, e)) = Len(q) + 1
           /\ Append(q, e)[Len(q) + 1] = e
           /\ \A i \in 1 .. Len(q) : Append(q, e)[i] = q[i]
OBVIOUS

LEMMA Shortened ==
    ASSUME NEW S, NEW q \in Seq(S), q # <<>>
    PROVE  /\ Head(q) = q[1] /\ Head(q) \in S /\ Tail(q) \in Seq(S) /\ Len(q) \in Nat /\ Len(q) >= 1
           /\ Len(Tail(q)) = Len(q) - 1
           /\ \A i \in 1 .. Len(Tail(q)) : Tail(q)[i] = q[i + 1] /\ i + 1 \in 1 .. Len(q)
OBVIOUS

\* Nothing in q is a call of r.
NoCall(q, r) == \A i \in 1 .. Len(q) : Call(q[i]) => q[i].req # r

\* An event that is no call, or the only one of its application, is queued.
LEMMA QueuedAppend ==
    ASSUME NEW q \in Seq(Events), NEW cl, NEW ts, Queued(q, cl, ts), NEW ev \in Events,
           Call(ev) => NoCall(q, ev.req),
           ev.kind = "get_datapath" => cl[ev.req] = "asking",
           ev.kind = "send_msg" => cl[ev.req] = "waiting" /\ \A x \in Xids : ts[x] # ev.req
    PROVE  Queued(Append(q, ev), cl, ts)
<1>1. PICK r \in Seq(Events) : r = Append(q, ev)
  BY Appended, Zenon
<1>2. /\ Len(q) \in Nat /\ Len(r) = Len(q) + 1 /\ r[Len(q) + 1] = ev
      /\ \A i \in 1 .. Len(q) : r[i] = q[i]
  BY <1>1, Appended
<1>3. ASSUME NEW i \in 1 .. Len(r)
      PROVE  /\ r[i].kind = "get_datapath" => cl[r[i].req] = "asking"
             /\ r[i].kind = "send_msg" => cl[r[i].req] = "waiting" /\ \A x \in Xids : ts[x] # r[i].req
  <2>1. CASE i = Len(q) + 1
    BY <1>2, <2>1, Zenon
  <2>2. CASE i \in 1 .. Len(q)
    BY <1>2, <2>2 DEF Queued
  <2>. QED BY <1>2, <2>1, <2>2
<1>4. ASSUME NEW i \in 1 .. Len(r), NEW j \in 1 .. Len(r), Call(r[i]), Call(r[j]), r[i].req = r[j].req
      PROVE  i = j
  <2>1. CASE i \in 1 .. Len(q) /\ j \in 1 .. Len(q)
    BY <1>2, <1>4, <2>1, Zenon DEF Queued
  <2>2. CASE i \in 1 .. Len(q) /\ j = Len(q) + 1
    BY <1>2, <1>4, <2>2, Zenon DEF NoCall
  <2>3. CASE i = Len(q) + 1 /\ j \in 1 .. Len(q)
    BY <1>2, <1>4, <2>3, Zenon DEF NoCall
  <2>. QED BY <1>2, <2>1, <2>2, <2>3
<1>5. Queued(r, cl, ts)
  BY <1>3, <1>4, Zenon DEF Queued
<1>. QED BY <1>1, <1>5, Zenon

\* The first event is taken.
LEMMA QueuedTail ==
    ASSUME NEW q \in Seq(Events), q # <<>>, NEW cl, NEW ts, Queued(q, cl, ts)
    PROVE  /\ Queued(Tail(q), cl, ts)
           /\ Call(Head(q)) => NoCall(Tail(q), Head(q).req)
           /\ \A r : NoCall(q, r) => NoCall(Tail(q), r)
<1>1. PICK r \in Seq(Events) : r = Tail(q)
  BY Shortened, Zenon
<1>2. /\ Len(q) \in Nat /\ Len(q) >= 1 /\ Head(q) = q[1] /\ Len(r) = Len(q) - 1
      /\ \A i \in 1 .. Len(r) : r[i] = q[i + 1] /\ i + 1 \in 1 .. Len(q)
  BY <1>1, Shortened, Zenon
<1>3. Queued(r, cl, ts)
  <2>1. ASSUME NEW i \in 1 .. Len(r)
        PROVE  /\ r[i].kind = "get_datapath" => cl[r[i].req] = "asking"
               /\ r[i].kind = "send_msg" => cl[r[i].req] = "waiting" /\ \A x \in Xids : ts[x] # r[i].req
    BY <1>2, Zenon DEF Queued
  <2>2. ASSUME NEW i \in 1 .. Len(r), NEW j \in 1 .. Len(r), Call(r[i]), Call(r[j]), r[i].req = r[j].req
        PROVE  i = j
    <3>1. i + 1 \in 1 .. Len(q) /\ j + 1 \in 1 .. Len(q) /\ r[i] = q[i + 1] /\ r[j] = q[j + 1]
      BY <1>2, Zenon
    <3>2. Call(q[i + 1]) /\ Call(q[j + 1]) /\ q[i + 1].req = q[j + 1].req
      BY <2>2, <3>1, Zenon
    <3>3. i + 1 = j + 1
      BY <3>1, <3>2, Zenon DEF Queued
    <3>. QED BY <3>3
  <2>. QED BY <2>1, <2>2, Zenon DEF Queued
<1>4. ASSUME Call(q[1]), NEW i \in 1 .. Len(r), Call(r[i]), r[i].req = q[1].req PROVE FALSE
  <2>1. i + 1 = 1
    BY <1>2, <1>4 DEF Queued
  <2>. QED BY <1>2, <2>1
<1>5. Call(Head(q)) => NoCall(r, Head(q).req)
  BY <1>2, <1>4, Zenon DEF NoCall
<1>6. \A s : NoCall(q, s) => NoCall(r, s)
  BY <1>2, Zenon DEF NoCall
<1>. QED BY <1>1, <1>3, <1>5, <1>6, Zenon

\* From cl to c2, nothing but application r changes; from ts to t2, nothing is
\* entered but a request of r.
Besides(r, cl, c2) == \A s \in Reqs \ {r} : c2[s] = cl[s]
Entered(r, ts, t2) == \A x \in Xids : t2[x] \in {ts[x], None, r}

\* What an application does whose call is not queued.
LEMMA QueuedOther ==
    ASSUME NEW q \in Seq(Events), NEW cl, NEW ts, Queued(q, cl, ts), NEW r, NoCall(q, r),
           NEW c2, Besides(r, cl, c2), NEW t2, Entered(r, ts, t2)
    PROVE  Queued(q, c2, t2)
<1>1. ASSUME NEW i \in 1 .. Len(q), Call(q[i])
      PROVE  q[i].req \in Reqs \ {r} /\ q[i].req # None
  <2>1. q[i] \in Events
    OBVIOUS
  <2>2. q[i].req \in Reqs
    BY <1>1, <2>1, EventFields, Zenon
  <2>. QED BY <1>1, <2>2, OfctlAssumption, Zenon DEF NoCall
<1>2. ASSUME NEW i \in 1 .. Len(q)
      PROVE  /\ q[i].kind = "get_datapath" => c2[q[i].req] = "asking"
             /\ q[i].kind = "send_msg" => c2[q[i].req] = "waiting" /\ \A x \in Xids : t2[x] # q[i].req
  BY <1>1 DEF Queued, Call, Besides, Entered
<1>. QED BY <1>2, Zenon DEF Queued

-----------------------------------------------------------------------------
(***************************************************************************)
(* The requests under way of each class.                                   *)
(***************************************************************************)

LEMMA PendingFinite ==
    ASSUME NEW c PROVE IsFiniteSet(Pending(c)) /\ Cardinality(Pending(c)) \in Nat
<1>1. IsFiniteSet(Xids)
  BY FS_Interval, OfctlAssumption DEF Xids
<1>2. Pending(c) \in SUBSET Xids
  BY Zenon DEF Pending
<1>3. IsFiniteSet(Pending(c))
  BY <1>1, <1>2, FS_Subset, Zenon
<1>. QED BY <1>3, FS_CardinalityType, Zenon

LEMMA CountedSame ==
    ASSUME Counted, UNCHANGED <<xids, watch>>
    PROVE  Counted'
BY Zenon DEF Counted, watch, Pending

LEMMA CountedEmpty ==
    ASSUME TypeOK, Counted, xids' = Empty, UNCHANGED watch
    PROVE  Counted'
<1>1. ASSUME NEW c \in Classes PROVE observing[c] >= Cardinality(Pending(c)')
  <2>1. Pending(c)' = {}
    BY Zenon DEF Pending, Empty
  <2>. QED BY <2>1, FS_EmptySet DEF TypeOK
<1>. QED BY <1>1, Zenon DEF Counted, watch

\* A request is entered, or counted and dropped.
LEMMA CountedSend ==
    ASSUME TypeOK, Counted, NEW r \in Reqs, NEW x \in Xids,
           xids' = xids \/ (xids[x] = None /\ xids' = [xids EXCEPT ![x] = r]),
           IF ReplyCls[r] # None THEN _observe_msg(ReplyCls[r]) ELSE UNCHANGED watch
    PROVE  Counted'
<1>. USE OfctlAssumption
<1>0. ReplyCls[r] # None => ReplyCls[r] \in Classes
  BY Zenon
<1>1. ASSUME NEW c \in Classes
      PROVE  observing'[c] = (IF ReplyCls[r] = c THEN observing[c] + 1 ELSE observing[c])
  BY <1>0 DEF _observe_msg, watch, TypeOK
<1>2. ASSUME NEW c \in Classes
      PROVE  observing'[c] > 0 => observers'[c] # None
  <2>1. CASE ReplyCls[r] = c
    <3>1. observers' = IF observing[c] = 0 /\ observers[c] = None
                       THEN [observers EXCEPT ![c] = {}] ELSE observers
      BY <2>1, Zenon DEF _observe_msg
    <3>2. CASE observing[c] = 0 /\ observers[c] = None
      <4>1. observers'[c] = {}
        BY <3>1, <3>2, Zenon DEF TypeOK
      <4>. QED BY <4>1, Zenon
    <3>3. CASE ~ (observing[c] = 0 /\ observers[c] = None)
      <4>1. observers' = observers /\ observing[c] \in Nat
        BY <3>1, <3>3, Zenon DEF TypeOK
      <4>. QED BY <3>3, <4>1, SMTT(30) DEF Counted
    <3>. QED BY <3>2, <3>3, Zenon
  <2>2. CASE ReplyCls[r] # c
    <3>1. observers'[c] = observers[c]
      BY <1>0, <2>2, Zenon DEF _observe_msg, watch, TypeOK
    <3>. QED BY <1>1, <2>2, <3>1, Zenon DEF Counted
  <2>. QED BY <2>1, <2>2, Zenon
<1>3. ASSUME NEW c \in Classes
      PROVE  observing'[c] >= Cardinality(Pending(c)')
  <2>0. /\ IsFiniteSet(Pending(c)) /\ Cardinality(Pending(c)) \in Nat
        /\ observing[c] >= Cardinality(Pending(c)) /\ observing[c] \in Nat
    BY PendingFinite, Zenon DEF Counted, TypeOK
  <2>1. CASE xids' = [xids EXCEPT ![x] = r] /\ ReplyCls[r] = c
    <3>1. Pending(c)' = Pending(c) \cup {x}
      BY <2>1, SMTT(30) DEF Pending, TypeOK
    <3>2. Cardinality(Pending(c) \cup {x}) <= Cardinality(Pending(c)) + 1
      <4>1. Cardinality(Pending(c) \cup {x})
            = (IF x \in Pending(c) THEN Cardinality(Pending(c)) ELSE Cardinality(Pending(c)) + 1)
        BY <2>0, FS_AddElement, Zenon
      <4>. QED BY <2>0, <4>1
    <3>3. Cardinality(Pending(c) \cup {x}) \in Nat
      BY <2>0, FS_AddElement, FS_CardinalityType, Zenon
    <3>. QED BY <1>1, <2>0, <2>1, <3>1, <3>2, <3>3, SMTT(30)
  <2>2. CASE xids' = xids \/ ReplyCls[r] # c
    <3>1. Pending(c)' = Pending(c)
      BY <2>2, ZenonT(30) DEF Pending, TypeOK
    <3>. QED BY <1>1, <2>0, <3>1, SMTT(30)
  <2>. QED BY <2>1, <2>2, Zenon
<1>. QED BY <1>2, <1>3, Zenon DEF Counted

\* A request is answered.
LEMMA CountedAnswer ==
    ASSUME TypeOK, Counted, NEW x \in Xids, NEW r \in Reqs, xids[x] = r, xids' = Forget(xids, x),
           IF ReplyCls[r] # None THEN _unobserve_msg(ReplyCls[r]) ELSE UNCHANGED watch
    PROVE  Counted' /\ observing' \in [Classes -> Nat]
<1>. USE OfctlAssumption
<1>0. ReplyCls[r] # None => ReplyCls[r] \in Classes
  BY Zenon
<1>1. ASSUME NEW c \in Classes
      PROVE  observing'[c] = (IF ReplyCls[r] = c THEN observing[c] - 1 ELSE observing[c])
  BY <1>0, SMTT(30) DEF _unobserve_msg, watch, TypeOK
<1>2. ASSUME NEW c \in Classes
      PROVE  observing'[c] >= Cardinality(Pending(c)') /\ observing'[c] \in Nat
  <2>0. /\ IsFiniteSet(Pending(c)) /\ Cardinality(Pending(c)) \in Nat
        /\ observing[c] >= Cardinality(Pending(c)) /\ observing[c] \in Nat
    BY PendingFinite, Zenon DEF Counted, TypeOK
  <2>1. CASE ReplyCls[r] = c
    <3>1. x \in Pending(c)
      BY <2>1, Zenon DEF Pending
    <3>2. Pending(c)' = Pending(c) \ {x}
      BY Zenon DEF Pending, TypeOK, Forget
    <3>3. Cardinality(Pending(c) \ {x}) = Cardinality(Pending(c)) - 1
      BY <2>0, <3>1, FS_RemoveElement, Zenon
    <3>4. Cardinality(Pending(c)) > 0
      BY <2>0, <3>1, FS_EmptySet
    <3>. QED BY <1>1, <2>0, <2>1, <3>2, <3>3, <3>4
  <2>2. CASE ReplyCls[r] # c
    <3>1. Pending(c)' = Pending(c)
      BY <2>2, Zenon DEF Pending, TypeOK, Forget
    <3>. QED BY <1>1, <2>0, <2>2, <3>1, Zenon
  <2>. QED BY <2>1, <2>2, Zenon
<1>3. ASSUME NEW c \in Classes
      PROVE  observing'[c] > 0 => observers'[c] # None
  <2>1. CASE ReplyCls[r] = c
    <3>1. observers' = IF observing[c] = 1 THEN [observers EXCEPT ![c] = None] ELSE observers
      BY <2>1, Zenon DEF _unobserve_msg
    <3>2. observing[c] \in Nat /\ (observing[c] > 0 => observers[c] # None)
      BY Zenon DEF Counted, TypeOK
    <3>. QED BY <1>1, <2>1, <3>1, <3>2
  <2>2. CASE ReplyCls[r] # c
    <3>1. observers'[c] = observers[c]
      BY <1>0, <2>2 DEF _unobserve_msg, watch, TypeOK
    <3>. QED BY <1>1, <2>2, <3>1, Zenon DEF Counted
  <2>. QED BY <2>1, <2>2, Zenon
<1>4. observing' = [c \in Classes |-> observing'[c]]
  BY Zenon DEF _unobserve_msg, watch, TypeOK
<1>5. observing' \in [Classes -> Nat]
  BY <1>2, <1>4, Zenon
<1>. QED BY <1>2, <1>3, <1>5, Zenon DEF Counted

-----------------------------------------------------------------------------
(***************************************************************************)
(* The tables of a switch.                                                 *)
(***************************************************************************)

LEMMA TablesSame ==
    ASSUME TablesAgree, UNCHANGED tables
    PROVE  TablesAgree'
BY DEF TablesAgree, tables, Empty

\* Replies are collected only for requests under way.
LEMMA TablesCollect ==
    ASSUME TablesAgree, UNCHANGED <<switches, xids, barriers>>,
           \A y \in Xids : results'[y] = None <=> results[y] = None
    PROVE  TablesAgree'
BY DEF TablesAgree, Empty

LEMMA TablesEmpty ==
    ASSUME xids' = Empty, barriers' = Empty, results' = Empty
    PROVE  TablesAgree'
BY Zenon DEF TablesAgree, Empty

\* A request is entered under unused numbers.
LEMMA TablesEnter ==
    ASSUME TypeOK, TablesAgree, NEW r \in Reqs, NEW x \in Xids, NEW b \in Xids,
           switches # None, UNCHANGED switches, \A y \in Xids : xids[y] # r,
           xids[x] = None, results[x] = None, barriers[b] = None,
           results' = [results EXCEPT ![x] = <<>>], xids' = [xids EXCEPT ![x] = r],
           barriers' = [barriers EXCEPT ![b] = x]
    PROVE  TablesAgree'
<1>0. <<>> # None /\ r # None /\ x # None
  <2>1. <<>> \in Seq(Classes)
    OBVIOUS
  <2>. QED BY <2>1, OfctlAssumption, Zenon
<1>1. /\ \A y \in Xids : xids'[y] = (IF y = x THEN r ELSE xids[y])
      /\ \A y \in Xids : results'[y] = (IF y = x THEN <<>> ELSE results[y])
      /\ \A y \in Xids : barriers'[y] = (IF y = b THEN x ELSE barriers[y])
  BY Zenon DEF TypeOK
<1>2. \A c \in Xids : barriers[c] # x
  BY <1>0, ZenonT(30) DEF TablesAgree
<1>3. \A y \in Xids : (xids'[y] = None) <=> (results'[y] = None)
  BY <1>0, <1>1, SMTT(30) DEF TablesAgree
<1>4. \A c \in Xids : barriers'[c] # None => xids'[barriers'[c]] # None
  BY <1>0, <1>1 DEF TablesAgree, TypeOK
<1>5. ASSUME NEW y \in Xids, xids'[y] # None
      PROVE  \E c \in Xids : barriers'[c] = y /\ \A d \in Xids : barriers'[d] = y => d = c
  <2>1. CASE y = x
    BY <1>1, <1>2, <2>1
  <2>2. CASE y # x
    <3>1. PICK c \in Xids : barriers[c] = y /\ \A d \in Xids : barriers[d] = y => d = c
      BY <1>1, <1>5, <2>2 DEF TablesAgree
    <3>2. c # b
      BY <3>1, OfctlAssumption, Zenon
    <3>. QED BY <1>1, <2>2, <3>1, <3>2
  <2>. QED BY <2>1, <2>2, Zenon
<1>6. \A y, z \in Xids : xids'[y] # None /\ xids'[y] = xids'[z] => y = z
  BY <1>1 DEF TablesAgree
<1>. QED BY <1>3, <1>4, <1>5, <1>6, Zenon DEF TablesAgree

\* A request is answered.
LEMMA TablesLeave ==
    ASSUME TypeOK, TablesAgree, NEW x \in Xids, NEW b \in Xids, switches # None, UNCHANGED switches,
           barriers[b] = x, xids' = Forget(xids, x), barriers' = [barriers EXCEPT ![b] = None],
           \A y \in Xids : (results'[y] = None) <=> (y = x \/ results[y] = None)
    PROVE  TablesAgree'
<1>. USE OfctlAssumption
<1>0. x # None
  BY Zenon
<1>1. /\ \A y \in Xids : xids'[y] = (IF y = x THEN None ELSE xids[y])
      /\ \A y \in Xids : barriers'[y] = (IF y = b THEN None ELSE barriers[y])
  BY Zenon DEF TypeOK, Forget
<1>2. xids[x] # None /\ \A c \in Xids : barriers[c] = x => c = b
  BY <1>0, Zenon DEF TablesAgree
<1>3. \A y \in Xids : (xids'[y] = None) <=> (results'[y] = None)
  BY <1>1 DEF TablesAgree
<1>4. ASSUME NEW c \in Xids, barriers'[c] # None PROVE xids'[barriers'[c]] # None
  <2>1. c # b /\ barriers'[c] = barriers[c]
    BY <1>1, <1>4, Zenon
  <2>2. barriers[c] \in Xids /\ barriers[c] # x
    BY <1>2, <1>4, <2>1, Zenon DEF TypeOK
  <2>3. xids[barriers[c]] # None
    BY <1>4, <2>1, Zenon DEF TablesAgree
  <2>. QED BY <1>1, <2>1, <2>2, <2>3
<1>5. ASSUME NEW y \in Xids, xids'[y] # None
      PROVE  \E c \in Xids : barriers'[c] = y /\ \A d \in Xids : barriers'[d] = y => d = c
  <2>1. y # x /\ xids[y] # None
    BY <1>1, <1>5, Zenon
  <2>2. PICK c \in Xids : barriers[c] = y /\ \A d \in Xids : barriers[d] = y => d = c
    BY <2>1, Zenon DEF TablesAgree
  <2>3. c # b /\ y # None
    BY <2>1, <2>2, Zenon
  <2>. QED BY <1>1, <2>2, <2>3
<1>6. \A y, z \in Xids : xids'[y] # None /\ xids'[y] = xids'[z] => y = z
  BY <1>1 DEF TablesAgree
<1>. QED BY <1>3, <1>4, <1>5, <1>6, Zenon DEF TablesAgree

\* Replies are collected for requests under way only.
LEMMA CollectKeeps ==
    ASSUME NEW m, m.xid \in Xids, m.cls \in Classes, NEW ts, NEW rs \in [Xids -> Seq(Classes) \cup {None}]
    PROVE  /\ Collect(m, ts, rs) \in [Xids -> Seq(Classes) \cup {None}]
           /\ \A y \in Xids : Collect(m, ts, rs)[y] = None <=> rs[y] = None
<1>1. CASE ts[m.xid] # None /\ rs[m.xid] # None /\ Expects(ts[m.xid], m.cls)
  <2>1. rs[m.xid] \in Seq(Classes)
    BY <1>1, Zenon
  <2>2. Append(rs[m.xid], m.cls) \in Seq(Classes)
    BY <2>1, Appended, Zenon
  <2>4. Append(rs[m.xid], m.cls) # None
    BY <2>2, OfctlAssumption, Zenon
  <2>3. Collect(m, ts, rs) = [rs EXCEPT ![m.xid] = Append(rs[m.xid], m.cls)]
    BY <1>1, Zenon DEF Collect
  <2>. QED BY <1>1, <2>2, <2>3, <2>4, Zenon
<1>2. CASE ~ (ts[m.xid] # None /\ rs[m.xid] # None /\ Expects(ts[m.xid], m.cls))
  BY <1>2, Zenon DEF Collect
<1>. QED BY <1>1, <1>2, Zenon

-----------------------------------------------------------------------------
(***************************************************************************)
(* The steps of the connections: they keep the service's own state, and    *)
(* queue at most one event, which is nobody's call.                        *)
(***************************************************************************)

ConnType ==
    /\ state \in [Conns -> {"new", "posting", "config", "main", "dead"}]
    /\ identified \subseteq Conns /\ reading \subseteq Conns

NetType ==
    /\ xid \in [Conns -> Xids]
    /\ wire \in [Conns -> Seq(Sent)]
    /\ chan \in [Conns -> Seq(Messages)]
    /\ others \in 0 .. MaxOthers

QueueType == queue \in Seq(Events) /\ alive \in BOOLEAN

TablesType ==
    /\ switches \in Conns \cup {None}
    /\ xids \in [Xids -> Reqs \cup {None}]
    /\ barriers \in [Xids -> Xids \cup {None}]
    /\ results \in [Xids -> Seq(Classes) \cup {None}]

WatchType ==
    /\ observing \in [Classes -> Nat]
    /\ observers \in [Classes -> (SUBSET {"config", "main"}) \cup {None}]

ClientType ==
    /\ client \in [Reqs -> {"idle", "asking", "holding", "gone", "waiting", "done"}]
    /\ dp \in [Reqs -> Conns \cup {None}]
    /\ answer \in [Reqs -> Answers]

SaidType == said \in [Reqs -> Seq(Classes)]

LEMMA TypeParts ==
    TypeOK <=> ConnType /\ NetType /\ QueueType /\ TablesType /\ WatchType /\ ClientType /\ SaidType
BY Zenon DEF TypeOK, ConnType, NetType, QueueType, TablesType, WatchType, ClientType, SaidType

LEMMA TypePartsAfter ==
    TypeOK' <=> ConnType' /\ NetType' /\ QueueType' /\ TablesType' /\ WatchType' /\ ClientType' /\ SaidType'
BY Zenon DEF TypeOK, ConnType, NetType, QueueType, TablesType, WatchType, ClientType, SaidType

LEMMA PartsSame ==
    /\ ConnType /\ UNCHANGED connVars => ConnType'
    /\ NetType /\ UNCHANGED <<xid, netVars>> => NetType'
    /\ TablesType /\ UNCHANGED tables => TablesType'
    /\ WatchType /\ UNCHANGED watch => WatchType'
    /\ ClientType /\ UNCHANGED clientVars => ClientType'
    /\ SaidType /\ UNCHANGED said => SaidType'
BY Zenon DEF ConnType, NetType, TablesType, WatchType, ClientType, SaidType,
       connVars, netVars, tables, watch, clientVars

\* A connection that ended stays so.
DeadStay == \A d \in Conns : state[d] = "dead" => state'[d] = "dead"

\* At most one event of a connection is queued.
Queues ==
    \/ UNCHANGED queue
    \/ \E ev \in Events : /\ ~ Call(ev) /\ (ev.kind = "dead" => state'[ev.dp] = "dead")
                          /\ queue' = Append(queue, ev)

LEMMA EndedAppend ==
    ASSUME queue \in Seq(Events), Ended, DeadStay, NEW ev \in Events,
           ev.kind = "dead" => state'[ev.dp] = "dead", queue' = Append(queue, ev)
    PROVE  Ended'
<1>1. PICK q \in Seq(Events) : q = queue'
  BY Appended, Zenon
<1>2. /\ Len(queue) \in Nat /\ Len(q) = Len(queue) + 1 /\ q[Len(queue) + 1] = ev
      /\ \A i \in 1 .. Len(queue) : q[i] = queue[i]
  BY <1>1, Appended
<1>3. ASSUME NEW i \in 1 .. Len(q), q[i].kind = "dead" PROVE state'[q[i].dp] = "dead"
  <2>1. CASE i = Len(queue) + 1
    BY <1>2, <1>3, <2>1, Zenon
  <2>2. CASE i \in 1 .. Len(queue)
    <3>1. queue[i] \in Events /\ q[i] = queue[i]
      BY <1>2, <2>2
    <3>2. queue[i].dp \in Conns
      BY <1>3, <3>1, EventFields, Zenon
    <3>3. state[queue[i].dp] = "dead"
      BY <1>3, <2>2, <3>1, Zenon DEF Ended
    <3>. QED BY <3>1, <3>2, <3>3, Zenon DEF DeadStay
  <2>. QED BY <1>2, <2>1, <2>2
<1>. QED BY <1>1, <1>3, Zenon DEF Ended

LEMMA EndedSame ==
    ASSUME queue \in Seq(Events), Ended, DeadStay, UNCHANGED queue
    PROVE  Ended'
<1>1. ASSUME NEW i \in 1 .. Len(queue), queue[i].kind = "dead" PROVE state'[queue[i].dp] = "dead"
  <2>1. queue[i] \in Events
    OBVIOUS
  <2>2. queue[i].dp \in Conns
    BY <1>1, <2>1, EventFields, Zenon
  <2>. QED BY <1>1, <2>2, Zenon DEF DeadStay, Ended
<1>. QED BY <1>1, Zenon DEF Ended

LEMMA EndedTail ==
    ASSUME queue \in Seq(Events), queue # <<>>, Ended, UNCHANGED state, queue' = Tail(queue)
    PROVE  Ended'
<1>1. PICK q \in Seq(Events) : q = queue'
  BY Shortened, Zenon
<1>2. \A i \in 1 .. Len(q) : q[i] = queue[i + 1] /\ i + 1 \in 1 .. Len(queue)
  BY <1>1, Shortened, Zenon
<1>. QED BY <1>1, <1>2, ZenonT(30) DEF Ended

\* What a connection does changes nothing the service relies on.
LEMMA ConnStep ==
    ASSUME IInv, Queues, DeadStay, UNCHANGED <<alive, tables, watch, clientVars>>,
           ConnType', NetType', SaidType'
    PROVE  IInv'
<1>1. QueueType /\ TablesType /\ WatchType /\ ClientType
  BY TypeParts, Zenon DEF IInv
<1>2. TablesType' /\ WatchType' /\ ClientType'
  BY <1>1, PartsSame, Zenon
<1>3. CASE UNCHANGED queue
  <2>1. TypeOK'
    BY <1>1, <1>2, <1>3, TypePartsAfter, Zenon DEF QueueType
  <2>2. Calls'
    BY <1>3, Zenon DEF IInv, Calls, Queued, tables, clientVars
  <2>3. Ended'
    BY <1>1, <1>3, EndedSame, Zenon DEF IInv, QueueType
  <2>. QED BY <2>1, <2>2, <2>3, TablesSame, CountedSame, Zenon DEF IInv, tables
<1>4. ASSUME NEW ev \in Events, ~ Call(ev), ev.kind = "dead" => state'[ev.dp] = "dead",
             queue' = Append(queue, ev)
      PROVE  IInv'
  <2>0. queue' \in Seq(Events)
    BY <1>1, <1>4, Appended, Zenon DEF QueueType
  <2>1. TypeOK'
    BY <1>1, <1>2, <2>0, TypePartsAfter, Zenon DEF QueueType
  <2>2. Calls'
    <3>1. Queued(queue, client, xids) /\ queue \in Seq(Events)
      BY <1>1, Zenon DEF IInv, Calls, QueueType
    <3>2. ev.kind # "get_datapath" /\ ev.kind # "send_msg"
      BY <1>4, Zenon DEF Call
    <3>3. Queued(Append(queue, ev), client, xids)
      BY <1>4, <3>1, <3>2, QueuedAppend, Zenon
    <3>. QED BY <1>4, <3>3, Zenon DEF IInv, Calls, tables, clientVars
  <2>3. Ended'
    BY <1>1, <1>4, EndedAppend, Zenon DEF IInv, QueueType
  <2>. QED BY <2>1, <2>2, <2>3, TablesSame, CountedSame, Zenon DEF IInv, tables
<1>. QED BY <1>3, <1>4, Zenon DEF Queues

LEMMA ConnEvents ==
    ASSUME NEW d \in Conns
    PROVE  /\ ConnEvent("features", d) \in Events /\ ConnEvent("dead", d) \in Events
           /\ ~ Call(ConnEvent("features", d)) /\ ~ Call(ConnEvent("dead", d))
           /\ ConnEvent("features", d).kind = "features"
           /\ ConnEvent("dead", d).kind = "dead" /\ ConnEvent("dead", d).dp = d
BY Zenon DEF ConnEvent, Events, Call

LEMMA FeaturesStep ==
    ASSUME IInv, NEW d \in Conns, recv_features(d)
    PROVE  IInv'
<1>0. ConnType /\ NetType /\ SaidType
  BY TypeParts, Zenon DEF IInv
<1>1. ConnType' /\ DeadStay
  BY <1>0, Zenon DEF recv_features, ConnType, DeadStay
<1>2. Queues
  BY ConnEvents, Zenon DEF recv_features, Queues, Put
<1>3. NetType' /\ SaidType'
  BY <1>0, PartsSame, Zenon DEF recv_features
<1>. QED BY <1>1, <1>2, <1>3, ConnStep, Zenon DEF recv_features

LEMMA IdStep ==
    ASSUME IInv, NEW d \in Conns, switch_features_handler(d)
    PROVE  IInv'
<1>0. ConnType /\ NetType /\ SaidType
  BY TypeParts, Zenon DEF IInv
<1>1. ConnType' /\ DeadStay
  BY <1>0, Zenon DEF switch_features_handler, ConnType, DeadStay
<1>3. NetType' /\ SaidType' /\ Queues
  BY <1>0, PartsSame, Zenon DEF switch_features_handler, Queues
<1>. QED BY <1>1, <1>3, ConnStep, Zenon DEF switch_features_handler

LEMMA MainStep ==
    ASSUME IInv, NEW d \in Conns, multipart_reply_handler(d)
    PROVE  IInv'
<1>0. ConnType /\ NetType /\ SaidType
  BY TypeParts, Zenon DEF IInv
<1>1. ConnType' /\ DeadStay
  BY <1>0, Zenon DEF multipart_reply_handler, ConnType, DeadStay
<1>3. NetType' /\ SaidType' /\ Queues
  BY <1>0, PartsSame, Zenon DEF multipart_reply_handler, Queues
<1>. QED BY <1>1, <1>3, ConnStep, Zenon DEF multipart_reply_handler

LEMMA RecvStep ==
    ASSUME IInv, NEW d \in Conns, recv_msg(d)
    PROVE  IInv'
<1>0. ConnType /\ NetType /\ SaidType
  BY TypeParts, Zenon DEF IInv
<1>1. Head(chan[d]) \in Messages /\ Tail(chan[d]) \in Seq(Messages)
  <2>1. chan[d] \in Seq(Messages) /\ chan[d] # <<>>
    BY <1>0, Zenon DEF recv_msg, NetType
  <2>. QED BY <2>1, Shortened, Zenon
<1>2. PICK m \in Messages : m = Head(chan[d])
  BY <1>1, Zenon
<1>3. PICK ev : ev = [kind |-> "msg", dp |-> d, xid |-> m.xid, cls |-> m.cls]
  BY Zenon
<1>4. ev \in Events /\ ~ Call(ev) /\ ev.kind # "dead"
  BY <1>3, Zenon DEF Messages, Events, Call
<1>5. queue' = Append(queue, ev) \/ UNCHANGED queue
  BY <1>2, <1>3, Zenon DEF recv_msg, Put
<1>6. Queues
  BY <1>4, <1>5, Zenon DEF Queues
<1>7. NetType'
  BY <1>0, <1>1, Zenon DEF recv_msg, NetType
<1>8. ConnType' /\ SaidType' /\ DeadStay
  BY <1>0, PartsSame, Zenon DEF recv_msg, DeadStay, connVars
<1>. QED BY <1>6, <1>7, <1>8, ConnStep, Zenon DEF recv_msg

LEMMA SendEndStep ==
    ASSUME IInv, NEW d \in Conns, send_loop_end(d)
    PROVE  IInv'
<1>0. ConnType /\ NetType /\ SaidType
  BY TypeParts, Zenon DEF IInv
<1>1. ConnType' /\ DeadStay /\ state'[d] = "dead"
  BY <1>0, Zenon DEF send_loop_end, ConnType, DeadStay
<1>2. Queues
  BY <1>1, ConnEvents, Zenon DEF send_loop_end, Queues, Put
<1>3. NetType' /\ SaidType'
  BY <1>0, SMTT(30) DEF send_loop_end, NetType, SaidType
<1>. QED BY <1>1, <1>2, <1>3, ConnStep, Zenon DEF send_loop_end

LEMMA RecvEndStep ==
    ASSUME IInv, NEW d \in Conns, recv_loop_end(d)
    PROVE  IInv'
<1>0. ConnType /\ NetType /\ SaidType
  BY TypeParts, Zenon DEF IInv
<1>1. ConnType' /\ DeadStay /\ state'[d] = "dead"
  BY <1>0, Zenon DEF recv_loop_end, ConnType, DeadStay
<1>2. Queues
  BY <1>1, ConnEvents, Zenon DEF recv_loop_end, Queues, Put
<1>3. NetType' /\ SaidType'
  BY <1>0 DEF recv_loop_end, NetType, SaidType
<1>. QED BY <1>1, <1>2, <1>3, ConnStep, Zenon DEF recv_loop_end

LEMMA WireType ==
    ASSUME NEW d \in Conns, wire \in [Conns -> Seq(Sent)], NEW ms \in Seq(Sent), send(d, ms)
    PROVE  wire' \in [Conns -> Seq(Sent)]
<1>1. wire[d] \o ms \in Seq(Sent)
  <2>1. wire[d] \in Seq(Sent)
    BY Zenon
  <2>. QED BY <2>1, ConcatInSeq, Zenon
<1>. QED BY <1>1, Zenon DEF send

LEMMA OtherStep ==
    ASSUME IInv, NEW d \in Conns, OtherSends(d)
    PROVE  IInv'
<1>0. ConnType /\ NetType /\ SaidType
  BY TypeParts, Zenon DEF IInv
<1>1. xid[d] \in Xids /\ NextXid(xid[d]) \in Xids
  BY <1>0, NextXidType, Zenon DEF NetType
<1>2. PICK m : m = [kind |-> "barrier", xid |-> NextXid(xid[d])]
  BY Zenon
<1>3. m \in Sent /\ <<m>> \in Seq(Sent)
  BY <1>1, <1>2 DEF Sent
<1>4. send(d, <<m>>)
  BY <1>2, Zenon DEF OtherSends
<1>5. wire' \in [Conns -> Seq(Sent)]
  BY <1>0, <1>3, <1>4, WireType, Zenon DEF NetType
<1>6. xid' \in [Conns -> Xids]
  BY <1>0, <1>1, Zenon DEF NetType, OtherSends
<1>7. others' \in 0 .. MaxOthers
  BY <1>0, OfctlAssumption DEF NetType, OtherSends
<1>8. NetType'
  BY <1>0, <1>5, <1>6, <1>7, Zenon DEF NetType, OtherSends
<1>9. ConnType' /\ SaidType' /\ DeadStay /\ Queues
  BY <1>0, PartsSame, Zenon DEF OtherSends, DeadStay, connVars, Queues
<1>. QED BY <1>8, <1>9, ConnStep, Zenon DEF OtherSends

\* What the switch says in answer to a message.
LEMMA RepliesType ==
    ASSUME NEW m, m.xid \in Xids, AnswerCls[m.req] \in Classes, NEW n \in Nat, NEW fails \in BOOLEAN,
           NEW rs, rs = Replies(m, n, fails)
    PROVE  rs \in Seq(Messages) /\ [i \in DOMAIN rs |-> rs[i].cls] \in Seq(Classes)
<1>1. Reply(m, AnswerCls[m.req]) \in Messages /\ Reply(m, "error") \in Messages
  BY Zenon DEF Reply, Messages, Classes, Static
<1>2. [i \in 1 .. n |-> Reply(m, AnswerCls[m.req])] \in Seq(Messages)
  BY <1>1, SMTT(30)
<1>3. (IF fails THEN <<Reply(m, "error")>> ELSE <<>>) \in Seq(Messages)
  BY <1>1, SMTT(30)
<1>4. rs \in Seq(Messages)
  BY <1>2, <1>3, ConcatInSeq, Zenon DEF Replies
<1>5. /\ Len(rs) \in Nat /\ DOMAIN rs = 1 .. Len(rs)
      /\ \A i \in 1 .. Len(rs) : rs[i] \in Messages
  BY <1>4, SMTT(30)
<1>6. \A i \in 1 .. Len(rs) : rs[i].cls \in Classes
  BY <1>5, Zenon DEF Messages
<1>7. [i \in 1 .. Len(rs) |-> rs[i].cls] \in Seq(Classes)
  BY <1>5, <1>6, SMTT(30)
<1>. QED BY <1>4, <1>5, <1>7, Zenon

LEMMA AnswerStep ==
    ASSUME IInv, NEW d \in Conns, SwitchAnswers(d)
    PROVE  IInv'
<1>0. ConnType /\ NetType /\ SaidType
  BY TypeParts, Zenon DEF IInv
<1>1. wire[d] \in Seq(Sent) /\ wire[d] # <<>> /\ chan[d] \in Seq(Messages)
  BY <1>0, Zenon DEF NetType, SwitchAnswers
<1>2. PICK m \in Sent : m = Head(wire[d])
  BY <1>1, Shortened, Zenon
<1>3. wire' \in [Conns -> Seq(Sent)]
  <2>1. Tail(wire[d]) \in Seq(Sent)
    BY <1>1, Shortened, Zenon
  <2>. QED BY <1>0, <2>1, Zenon DEF NetType, SwitchAnswers
<1>4. m.xid \in Xids /\ (m.kind = "msg" => m.req \in Reqs)
  BY Zenon DEF Sent
<1>5. SwitchSays(d, m)
  BY <1>2, Zenon DEF SwitchAnswers
<1>6. chan' \in [Conns -> Seq(Messages)] /\ SaidType'
  <2>1. CASE m.kind = "barrier"
    <3>1. Reply(m, "barrier") \in Messages
      BY <1>4, Zenon DEF Reply, Messages, Classes, Static
    <3>2. Append(chan[d], Reply(m, "barrier")) \in Seq(Messages)
      BY <1>1, <3>1, Appended, Zenon
    <3>3. chan' = [chan EXCEPT ![d] = Append(chan[d], Reply(m, "barrier"))] /\ UNCHANGED said
      BY <1>5, <2>1, Zenon DEF SwitchSays
    <3>. QED BY <1>0, <3>2, <3>3, Zenon DEF NetType, SaidType
  <2>2. CASE m.kind # "barrier"
    <3>1. PICK n \in 0 .. MaxReplies, fails \in BOOLEAN :
             /\ m.kind = "msg"
             /\ chan' = [chan EXCEPT ![d] = chan[d] \o Replies(m, n, fails)]
             /\ said' = [said EXCEPT ![m.req] =
                           [i \in DOMAIN Replies(m, n, fails) |-> Replies(m, n, fails)[i].cls]]
      BY <1>5, <2>2, Zenon DEF SwitchSays
    <3>2. PICK rs : rs = Replies(m, n, fails)
      BY Zenon
    <3>3. n \in Nat /\ AnswerCls[m.req] \in Classes
      BY <1>4, <3>1, OfctlAssumption
    <3>4. rs \in Seq(Messages) /\ [i \in DOMAIN rs |-> rs[i].cls] \in Seq(Classes)
      BY <1>4, <3>2, <3>3, RepliesType, Zenon
    <3>5. chan[d] \o rs \in Seq(Messages)
      BY <1>1, <3>4, ConcatInSeq, Zenon
    <3>6. PICK cs \in Seq(Classes) : cs = [i \in DOMAIN rs |-> rs[i].cls]
      BY <3>4, Zenon
    <3>7. chan' \in [Conns -> Seq(Messages)]
      BY <1>0, <3>1, <3>2, <3>5, Zenon DEF NetType
    <3>8. said' = [said EXCEPT ![m.req] = cs]
      BY <3>1, <3>2, <3>6, Zenon
    <3>. QED BY <1>0, <1>4, <3>1, <3>7, <3>8, ZenonT(30) DEF SaidType
  <2>. QED BY <2>1, <2>2, Zenon
<1>7. NetType'
  BY <1>0, <1>3, <1>6, Zenon DEF NetType, SwitchAnswers
<1>8. ConnType' /\ DeadStay /\ Queues
  BY <1>0, PartsSame, Zenon DEF SwitchAnswers, DeadStay, connVars, Queues
<1>. QED BY <1>6, <1>7, <1>8, ConnStep, Zenon DEF SwitchAnswers

-----------------------------------------------------------------------------
(***************************************************************************)
(* The calls of applications.                                              *)
(***************************************************************************)

\* An application whose state says so has no call in the queue and no request
\* under way.
LEMMA NotCalling ==
    ASSUME IInv, NEW r \in Reqs, client[r] \notin {"asking", "waiting"}
    PROVE  NoCall(queue, r) /\ \A x \in Xids : xids[x] # r
<1>1. NoCall(queue, r)
  BY Zenon DEF IInv, Calls, Queued, NoCall, Call
<1>2. \A x \in Xids : xids[x] # r
  BY OfctlAssumption, Zenon DEF IInv, Calls
<1>. QED BY <1>1, <1>2, Zenon

\* Application r puts its call on the queue.
LEMMA CallStep ==
    ASSUME IInv, NEW r \in Reqs, NEW k \in {"get_datapath", "send_msg"},
           client[r] = (IF k = "get_datapath" THEN "idle" ELSE "holding"),
           client' = [client EXCEPT ![r] = IF k = "get_datapath" THEN "asking" ELSE "waiting"],
           queue' = Append(queue, [kind |-> k, req |-> r]),
           UNCHANGED <<connVars, xid, netVars, alive, tables, watch, dp, answer, said>>
    PROVE  IInv'
<1>0. TypeOK /\ ConnType /\ NetType /\ QueueType /\ TablesType /\ WatchType /\ ClientType /\ SaidType
  BY TypeParts, Zenon DEF IInv
<1>1. PICK ev : ev = [kind |-> k, req |-> r]
  OBVIOUS
<1>2. ev \in Events /\ ev.kind = k /\ ev.req = r /\ ev.kind # "dead"
  BY <1>1, Zenon DEF Events
<1>3. QueueType'
  BY <1>0, <1>1, <1>2, Appended, Zenon DEF QueueType
<1>4. ClientType'
  BY <1>0, Zenon DEF ClientType
<1>5. TypeOK'
  <2>1. ConnType' /\ NetType' /\ TablesType' /\ WatchType' /\ SaidType'
    BY <1>0, PartsSame, Zenon
  <2>. QED BY <1>3, <1>4, <2>1, TypePartsAfter, Zenon
<1>6. NoCall(queue, r) /\ \A x \in Xids : xids[x] # r
  BY NotCalling, Zenon
<1>7. Ended'
  <2>1. DeadStay
    BY Zenon DEF DeadStay, connVars
  <2>. QED BY <1>0, <1>1, <1>2, <2>1, EndedAppend, Zenon DEF IInv, QueueType
<1>8. Calls'
  <2>1. PICK c : c = client'
    BY Zenon
  <2>2. /\ \A s \in Reqs \ {r} : c[s] = client[s]
        /\ c[r] = IF k = "get_datapath" THEN "asking" ELSE "waiting"
    BY <1>0, <2>1, Zenon DEF ClientType
  <2>3. Queued(queue, client, xids) /\ queue \in Seq(Events)
    BY <1>0, Zenon DEF IInv, Calls, QueueType
  <2>4. Queued(queue, c, xids)
    <3>1. Besides(r, client, c) /\ Entered(r, xids, xids)
      BY <2>2, Zenon DEF Besides, Entered
    <3>. QED BY <1>6, <2>3, <3>1, QueuedOther, Zenon
  <2>5. Queued(Append(queue, ev), c, xids)
    BY <1>2, <1>6, <2>2, <2>3, <2>4, QueuedAppend, Zenon
  <2>6. Queued(queue', client', xids')
    BY <1>1, <2>1, <2>5, Zenon DEF tables
  <2>7. ASSUME NEW x \in Xids, xids[x] # None PROVE c[xids[x]] = "waiting"
    <3>1. xids[x] \in Reqs \ {r}
      BY <1>0, <1>6, <2>7, Zenon DEF TablesType
    <3>. QED BY <2>2, <2>7, <3>1, Zenon DEF IInv, Calls
  <2>8. ASSUME NEW s \in Reqs, c[s] \in {"holding", "waiting"} PROVE dp[s] # None
    <3>1. CASE s = r
      <4>1. client[r] = "holding"
        BY <2>2, <2>8, <3>1, Zenon
      <4>. QED BY <3>1, <4>1, Zenon DEF IInv, Calls
    <3>2. CASE s # r
      BY <2>2, <2>8, <3>2, Zenon DEF IInv, Calls
    <3>. QED BY <3>1, <3>2, Zenon
  <2>. QED BY <2>1, <2>6, <2>7, <2>8, Zenon DEF Calls, tables
<1>9. TablesAgree' /\ Counted'
  BY TablesSame, CountedSame, Zenon DEF IInv, tables
<1>. QED BY <1>5, <1>7, <1>8, <1>9, Zenon DEF IInv

LEMMA GetDatapathCall ==
    ASSUME IInv, NEW r \in Reqs, get_datapath(r)
    PROVE  IInv'
<1>1. PICK k \in {"get_datapath", "send_msg"} : k = "get_datapath"
  OBVIOUS
<1>2. /\ client[r] = (IF k = "get_datapath" THEN "idle" ELSE "holding")
      /\ client' = [client EXCEPT ![r] = IF k = "get_datapath" THEN "asking" ELSE "waiting"]
      /\ queue' = Append(queue, [kind |-> k, req |-> r])
      /\ UNCHANGED <<connVars, xid, netVars, alive, tables, watch, dp, answer, said>>
  BY <1>1, Zenon DEF get_datapath, Put
<1>. QED BY <1>2, CallStep, Zenon

LEMMA SendMsgCall ==
    ASSUME IInv, NEW r \in Reqs, send_msg(r)
    PROVE  IInv'
<1>1. PICK k \in {"get_datapath", "send_msg"} : k = "send_msg"
  OBVIOUS
<1>2. /\ client[r] = (IF k = "get_datapath" THEN "idle" ELSE "holding")
      /\ client' = [client EXCEPT ![r] = IF k = "get_datapath" THEN "asking" ELSE "waiting"]
      /\ queue' = Append(queue, [kind |-> k, req |-> r])
      /\ UNCHANGED <<connVars, xid, netVars, alive, tables, watch, dp, answer, said>>
  BY <1>1, Zenon DEF send_msg, Put
<1>. QED BY <1>2, CallStep, Zenon

-----------------------------------------------------------------------------
(***************************************************************************)
(* The handlers of the service.                                            *)
(***************************************************************************)

LEMMA Taken ==
    ASSUME IInv, NEW k, Take(k)
    PROVE  /\ queue \in Seq(Events) /\ queue # <<>> /\ queue' = Tail(queue) /\ queue' \in Seq(Events)
           /\ Head(queue) \in Events /\ Head(queue).kind = k
           /\ Head(queue) = queue[1] /\ 1 \in 1 .. Len(queue)
           /\ Queued(Tail(queue), client, xids)
           /\ Call(Head(queue)) => NoCall(Tail(queue), Head(queue).req)
<1>1. queue \in Seq(Events) /\ Queued(queue, client, xids)
  BY Zenon DEF IInv, TypeOK, Calls
<1>2. queue # <<>> /\ queue' = Tail(queue) /\ Head(queue).kind = k
  BY Zenon DEF Take
<1>3. Head(queue) = queue[1] /\ Head(queue) \in Events /\ Tail(queue) \in Seq(Events) /\ 1 \in 1 .. Len(queue)
  BY <1>1, <1>2, Shortened
<1>4. Queued(Tail(queue), client, xids) /\ (Call(Head(queue)) => NoCall(Tail(queue), Head(queue).req))
  BY <1>1, <1>2, QueuedTail, Zenon
<1>. QED BY <1>1, <1>2, <1>3, <1>4, Zenon

LEMMA NobodyCalls ==
    ASSUME NEW q \in Seq(Events) PROVE NoCall(q, None)
<1>1. ASSUME NEW i \in 1 .. Len(q), Call(q[i]) PROVE q[i].req # None
  <2>1. q[i] \in Events
    OBVIOUS
  <2>. QED BY <1>1, <2>1, EventFields, OfctlAssumption, Zenon
<1>. QED BY <1>1, Zenon DEF NoCall

\* A handler that answers no call.
LEMMA QuietTake ==
    ASSUME IInv, NEW k, Take(k), UNCHANGED <<connVars, xid, netVars, watch, clientVars, said>>,
           alive' \in BOOLEAN, TablesType', TablesAgree', Counted',
           \A x \in Xids : xids'[x] \in {xids[x], None}
    PROVE  IInv'
<1>0. ConnType /\ NetType /\ WatchType /\ ClientType /\ SaidType
  BY TypeParts, Zenon DEF IInv
<1>1. /\ queue \in Seq(Events) /\ queue # <<>> /\ queue' = Tail(queue) /\ queue' \in Seq(Events)
      /\ Queued(Tail(queue), client, xids)
  BY Taken, Zenon
<1>2. TypeOK'
  <2>1. ConnType' /\ NetType' /\ WatchType' /\ ClientType' /\ SaidType'
    BY <1>0, PartsSame, Zenon
  <2>. QED BY <1>1, <2>1, TypePartsAfter, Zenon DEF QueueType
<1>3. Ended'
  BY <1>1, EndedTail, Zenon DEF IInv, connVars
<1>4. Calls'
  <2>1. PICK t : t = xids'
    BY Zenon
  <2>2. \A x \in Xids : t[x] \in {xids[x], None, None}
    BY <2>1, Zenon
  <2>3. NoCall(Tail(queue), None)
    BY <1>1, NobodyCalls, Zenon
  <2>4. Queued(Tail(queue), client, t)
    <3>1. Besides(None, client, client) /\ Entered(None, xids, t)
      BY <2>2, Zenon DEF Besides, Entered
    <3>2. Tail(queue) \in Seq(Events)
      BY <1>1, Zenon
    <3>. QED BY <1>1, <2>3, <3>1, <3>2, QueuedOther, Zenon
  <2>5. \A x \in Xids : t[x] # None => client[t[x]] = "waiting"
    BY <2>2, Zenon DEF IInv, Calls
  <2>. QED BY <1>1, <2>1, <2>4, <2>5, Zenon DEF IInv, Calls, clientVars
<1>. QED BY <1>2, <1>3, <1>4, Zenon DEF IInv

LEMMA FeaturesHandled ==
    ASSUME IInv, _switch_features_handler
    PROVE  IInv'
<1>0. TypeOK /\ TablesType /\ alive \in BOOLEAN /\ TablesAgree /\ Counted /\ Take("features")
  BY TypeParts, Zenon DEF IInv, QueueType, _switch_features_handler
<1>1. Head(queue).dp \in Conns
  BY <1>0, Taken, EventFields, Zenon
<1>2. CASE /\ switches' = Head(queue).dp /\ xids' = Empty /\ barriers' = Empty /\ results' = Empty
           /\ UNCHANGED alive
  <2>1. TablesType' /\ \A x \in Xids : xids'[x] = None
    BY <1>1, <1>2, Zenon DEF TablesType, Empty
  <2>2. UNCHANGED <<connVars, xid, netVars, watch, clientVars, said>>
    BY Zenon DEF _switch_features_handler
  <2>3. TablesAgree' /\ Counted'
    BY <1>0, <1>2, <2>2, TablesEmpty, CountedEmpty, Zenon
  <2>. QED BY <1>0, <1>2, <2>1, <2>2, <2>3, QuietTake, Zenon
<1>3. CASE Raise /\ UNCHANGED tables
  <2>1. TablesType' /\ alive' \in BOOLEAN /\ \A x \in Xids : xids'[x] = xids[x]
    BY <1>0, <1>3, PartsSame, Zenon DEF Raise, tables
  <2>2. UNCHANGED <<connVars, xid, netVars, watch, clientVars, said>>
    BY Zenon DEF _switch_features_handler
  <2>3. TablesAgree' /\ Counted'
    BY <1>0, <1>3, <2>2, TablesSame, CountedSame, Zenon DEF tables
  <2>. QED BY <1>0, <2>1, <2>2, <2>3, QuietTake, Zenon
<1>. QED BY <1>2, <1>3, Zenon DEF _switch_features_handler

LEMMA DeadHandled ==
    ASSUME IInv, _handle_dead
    PROVE  IInv'
<1>0. TypeOK /\ TablesType /\ alive' \in BOOLEAN /\ TablesAgree /\ Counted /\ Take("dead")
  BY TypeParts, Zenon DEF IInv, QueueType, _handle_dead
<1>1. UNCHANGED <<connVars, xid, netVars, watch, clientVars, said>>
  BY Zenon DEF _handle_dead
<1>2. CASE switches' = None /\ xids' = Empty /\ barriers' = Empty /\ results' = Empty
  <2>1. TablesType' /\ \A x \in Xids : xids'[x] = None
    BY <1>2, Zenon DEF TablesType, Empty
  <2>2. TablesAgree' /\ Counted'
    BY <1>0, <1>1, <1>2, TablesEmpty, CountedEmpty
  <2>. QED BY <1>0, <1>1, <2>1, <2>2, QuietTake, Zenon
<1>3. CASE UNCHANGED tables
  <2>1. TablesType' /\ \A x \in Xids : xids'[x] = xids[x]
    BY <1>0, <1>3, PartsSame, Zenon DEF tables
  <2>2. TablesAgree' /\ Counted'
    BY <1>0, <1>1, <1>3, TablesSame, CountedSame, Zenon DEF tables
  <2>. QED BY <1>0, <1>1, <2>1, <2>2, QuietTake, Zenon
<1>. QED BY <1>2, <1>3, Zenon DEF _handle_dead

LEMMA GetDatapathHandled ==
    ASSUME IInv, _handle_get_datapath
    PROVE  IInv'
<1>0. /\ ConnType /\ NetType /\ TablesType /\ WatchType /\ ClientType /\ SaidType /\ alive \in BOOLEAN
      /\ Take("get_datapath") /\ UNCHANGED <<connVars, xid, netVars, alive, tables, watch, answer, said>>
  BY TypeParts, Zenon DEF IInv, QueueType, _handle_get_datapath
<1>1. /\ queue \in Seq(Events) /\ queue # <<>> /\ queue' = Tail(queue) /\ queue' \in Seq(Events)
      /\ Head(queue) \in Events /\ Head(queue).kind = "get_datapath"
      /\ Head(queue) = queue[1] /\ 1 \in 1 .. Len(queue)
      /\ Queued(Tail(queue), client, xids)
      /\ Call(Head(queue)) => NoCall(Tail(queue), Head(queue).req)
  BY <1>0, Taken, Zenon
<1>2. PICK r : r = Head(queue).req
  BY Zenon
<1>3. r \in Reqs /\ NoCall(Tail(queue), r) /\ client[r] = "asking"
  <2>1. Call(Head(queue))
    BY <1>1, Zenon DEF Call
  <2>2. client[Head(queue).req] = "asking"
    BY <1>1, Zenon DEF IInv, Calls, Queued
  <2>. QED BY <1>1, <1>2, <2>1, <2>2, EventFields, Zenon
<1>4. PICK c : c = client'
  BY Zenon
<1>5. /\ dp' = [dp EXCEPT ![r] = switches]
      /\ c = [client EXCEPT ![r] = IF switches = None THEN "gone" ELSE "holding"]
  BY <1>2, <1>4, Zenon DEF _handle_get_datapath
<1>6. ClientType'
  BY <1>0, <1>3, <1>4, <1>5 DEF ClientType, TablesType
<1>7. TypeOK'
  <2>1. ConnType' /\ NetType' /\ TablesType' /\ WatchType' /\ SaidType'
    BY <1>0, PartsSame, Zenon
  <2>. QED BY <1>0, <1>1, <1>6, <2>1, TypePartsAfter, Zenon DEF QueueType
<1>8. Ended'
  BY <1>0, <1>1, EndedTail, Zenon DEF IInv, connVars
<1>9. Calls'
  <2>1. /\ \A s \in Reqs \ {r} : c[s] = client[s] /\ dp'[s] = dp[s]
        /\ c[r] = (IF switches = None THEN "gone" ELSE "holding") /\ dp'[r] = switches
    BY <1>0, <1>3, <1>5, Zenon DEF ClientType
  <2>2. Queued(Tail(queue), c, xids)
    <3>1. PICK q \in Seq(Events) : q = Tail(queue)
      BY <1>1, Zenon
    <3>2. Queued(q, client, xids) /\ NoCall(q, r)
      BY <1>1, <1>3, <3>1, Zenon
    <3>3. Besides(r, client, c) /\ Entered(r, xids, xids)
      BY <2>1, Zenon DEF Besides, Entered
    <3>4. Queued(q, c, xids)
      BY <3>2, <3>3, QueuedOther, Zenon
    <3>. QED BY <3>1, <3>4, Zenon
  <2>3. ASSUME NEW x \in Xids, xids[x] # None PROVE c[xids[x]] = "waiting"
    <3>1. client[xids[x]] = "waiting" /\ xids[x] \in Reqs
      BY <1>0, <2>3, Zenon DEF IInv, Calls, TablesType
    <3>. QED BY <1>3, <2>1, <3>1, Zenon
  <2>4. ASSUME NEW s \in Reqs, c[s] \in {"holding", "waiting"} PROVE dp'[s] # None
    <3>1. CASE s = r
      BY <2>1, <2>4, <3>1, Zenon
    <3>2. CASE s # r
      BY <2>1, <2>4, <3>2, Zenon DEF IInv, Calls
    <3>. QED BY <3>1, <3>2, Zenon
  <2>. QED BY <1>0, <1>1, <1>4, <2>2, <2>3, <2>4, ZenonT(30) DEF Calls, tables
<1>10. TablesAgree' /\ Counted'
  BY <1>0, TablesSame, CountedSame, Zenon DEF IInv, tables
<1>. QED BY <1>7, <1>8, <1>9, <1>10, Zenon DEF IInv

LEMMA ReplyHandled ==
    ASSUME IInv, _handle_reply
    PROVE  IInv'
<1>0. TypeOK /\ TablesType /\ alive' \in BOOLEAN /\ TablesAgree /\ Counted /\ Take("msg")
  BY TypeParts, Zenon DEF IInv, QueueType, _handle_reply
<1>1. PICK m : m = Head(queue)
  BY Zenon
<1>2. m.xid \in Xids /\ m.cls \in Classes
  BY <1>0, <1>1, Taken, EventFields
<1>3. UNCHANGED <<switches, xids, barriers>> /\ results' \in {Collect(m, xids, results), results}
  BY <1>1, Zenon DEF _handle_reply
<1>4. results \in [Xids -> Seq(Classes) \cup {None}]
  BY <1>0, Zenon DEF TablesType
<1>5. results' \in [Xids -> Seq(Classes) \cup {None}] /\ \A y \in Xids : results'[y] = None <=> results[y] = None
  <2>1. PICK rs : rs = Collect(m, xids, results)
    BY Zenon
  <2>2. rs \in [Xids -> Seq(Classes) \cup {None}] /\ \A y \in Xids : rs[y] = None <=> results[y] = None
    BY <1>2, <1>4, <2>1, CollectKeeps
  <2>. QED BY <1>3, <1>4, <2>1, <2>2, Zenon
<1>6. TablesType'
  BY <1>0, <1>3, <1>5, Zenon DEF TablesType
<1>7. TablesAgree'
  BY <1>0, <1>3, <1>5, TablesCollect, Zenon
<1>8. UNCHANGED <<connVars, xid, netVars, watch, clientVars, said>>
  BY Zenon DEF _handle_reply
<1>9. Counted'
  BY <1>0, <1>3, <1>8, CountedSame, Zenon
<1>. QED BY <1>0, <1>3, <1>6, <1>7, <1>8, <1>9, QuietTake

LEMMA OutcomeType ==
    ASSUME NEW r, NEW rs \in Seq(Classes) PROVE Outcome(r, rs) \in Answers
BY ZenonT(30) DEF Outcome, Answers

\* No request of r is under way after the step, and none was entered.
Gone(r) == \A x \in Xids : xids'[x] \in {xids[x], None} /\ xids'[x] # r

\* The request of application r ends: its call is answered.
LEMMA CallEnds ==
    ASSUME IInv, NEW k, Take(k), NEW r \in Reqs, NoCall(Tail(queue), r),
           Gone(r), NEW a \in Answers, reply_to_request(r, a)
    PROVE  Calls' /\ ClientType'
<1>0. ClientType /\ TablesType
  BY TypeParts, Zenon DEF IInv
<1>1. /\ queue \in Seq(Events) /\ queue # <<>> /\ queue' = Tail(queue) /\ queue' \in Seq(Events)
      /\ Queued(Tail(queue), client, xids)
  BY Taken, Zenon
<1>2. PICK c : c = client'
  BY Zenon
<1>3. PICK t : t = xids'
  BY Zenon
<1>4. c[r] = "done" /\ \A s \in Reqs \ {r} : c[s] = client[s]
  BY <1>0, <1>2, Zenon DEF ClientType, reply_to_request
<1>5. \A x \in Xids : t[x] \in {xids[x], None, r} /\ t[x] # r /\ (t[x] # None => t[x] = xids[x])
  BY <1>3, Zenon DEF Gone
<1>6. Queued(Tail(queue), c, t)
  <2>1. PICK q \in Seq(Events) : q = Tail(queue)
    BY <1>1, Zenon
  <2>2. Queued(q, client, xids) /\ NoCall(q, r)
    BY <1>1, <2>1, Zenon
  <2>3. Besides(r, client, c) /\ Entered(r, xids, t)
    BY <1>4, <1>5, Zenon DEF Besides, Entered
  <2>4. Queued(q, c, t)
    BY <2>2, <2>3, QueuedOther, Zenon
  <2>. QED BY <2>1, <2>4, Zenon
<1>7. ASSUME NEW x \in Xids, t[x] # None PROVE c[t[x]] = "waiting"
  <2>1. t[x] = xids[x] /\ xids[x] \in Reqs \ {r}
    BY <1>0, <1>5, <1>7, Zenon DEF TablesType
  <2>. QED BY <1>4, <1>7, <2>1, Zenon DEF IInv, Calls
<1>8. \A s \in Reqs : c[s] \in {"holding", "waiting"} => dp[s] # None
  BY <1>4, Zenon DEF IInv, Calls
<1>9. ClientType'
  BY <1>0, Zenon DEF ClientType, reply_to_request
<1>. QED BY <1>1, <1>2, <1>3, <1>6, <1>7, <1>8, <1>9, Zenon DEF Calls, reply_to_request

LEMMA ObserveType ==
    ASSUME WatchType, NEW c, c # None => c \in Classes,
           IF c # None THEN _observe_msg(c) ELSE UNCHANGED watch
    PROVE  WatchType'
<1>1. CASE c = None
  BY <1>1, Zenon DEF WatchType, watch
<1>2. CASE c # None
  <2>1. observing[c] + 1 \in Nat
    BY <1>2 DEF WatchType
  <2>2. observing' \in [Classes -> Nat]
    BY <1>2, <2>1, Zenon DEF WatchType, _observe_msg
  <2>3. observers' \in [Classes -> (SUBSET {"config", "main"}) \cup {None}]
    <3>1. {} \in SUBSET {"config", "main"}
      BY Zenon
    <3>. QED BY <1>2, <3>1, Zenon DEF WatchType, _observe_msg
  <2>. QED BY <2>2, <2>3, Zenon DEF WatchType
<1>. QED BY <1>1, <1>2, Zenon

\* The service takes the call of r to send its message.
LEMMA SendTaken ==
    ASSUME IInv, Take("send_msg"), NEW r, r = Head(queue).req
    PROVE  /\ r \in Reqs /\ NoCall(Tail(queue), r) /\ client[r] = "waiting" /\ dp[r] \in Conns
           /\ \A x \in Xids : xids[x] # r
<1>1. /\ queue \in Seq(Events) /\ Head(queue) \in Events /\ Head(queue).kind = "send_msg"
      /\ Head(queue) = queue[1] /\ 1 \in 1 .. Len(queue)
      /\ Call(Head(queue)) => NoCall(Tail(queue), Head(queue).req)
  BY Taken, Zenon
<1>2. Call(Head(queue))
  BY <1>1, Zenon DEF Call
<1>3. client[r] = "waiting" /\ \A x \in Xids : xids[x] # r
  BY <1>1, Zenon DEF IInv, Calls, Queued
<1>4. r \in Reqs
  BY <1>1, <1>2, EventFields, Zenon
<1>5. dp[r] \in Conns
  BY <1>3, <1>4, Zenon DEF IInv, Calls, TypeOK
<1>. QED BY <1>1, <1>2, <1>3, <1>4, <1>5, Zenon

LEMMA SendHandled ==
    ASSUME IInv, _handle_send_msg
    PROVE  IInv'
<1>0. /\ TypeOK /\ ConnType /\ NetType /\ QueueType /\ TablesType /\ WatchType /\ ClientType /\ SaidType
      /\ Take("send_msg") /\ UNCHANGED <<connVars, chan, others, said>>
  BY TypeParts, Zenon DEF IInv, _handle_send_msg
<1>1. /\ queue \in Seq(Events) /\ queue # <<>> /\ queue' = Tail(queue) /\ queue' \in Seq(Events)
      /\ Queued(Tail(queue), client, xids)
  BY <1>0, Taken, Zenon
<1>2. PICK r : r = Head(queue).req
  OBVIOUS
<1>3. /\ r \in Reqs /\ NoCall(Tail(queue), r) /\ client[r] = "waiting" /\ dp[r] \in Conns
      /\ \A x \in Xids : xids[x] # r
  BY <1>0, <1>2, SendTaken, Zenon
<1>4. PICK d \in Conns : d = dp[r]
  BY <1>3, Zenon
<1>5. PICK x \in Xids : x = NextXid(xid[d])
  BY <1>0, NextXidType, Zenon DEF NetType
<1>6. PICK b \in Xids : b = NextXid(x)
  BY NextXidType, Zenon
<1>7. ConnType' /\ SaidType' /\ Ended'
  BY <1>0, <1>1, PartsSame, EndedTail, Zenon DEF IInv, connVars
<1>8. CASE switches = None
  <2>1. /\ reply_to_request(r, [tag |-> "InvalidDatapath", result |-> <<>>])
        /\ UNCHANGED <<xid, wire, alive, tables, watch>>
    BY <1>2, <1>8, Zenon DEF _handle_send_msg
  <2>2. PICK a \in Answers : a = [tag |-> "InvalidDatapath", result |-> <<>>]
    <3>1. <<>> \in Seq(Classes)
      OBVIOUS
    <3>. QED BY <3>1, Zenon DEF Answers
  <2>3. Gone(r)
    BY <1>3, <2>1, Zenon DEF tables, Gone
  <2>4. reply_to_request(r, a)
    BY <2>1, <2>2, Zenon
  <2>5. Calls' /\ ClientType'
    <3>1. Take("send_msg") /\ r \in Reqs /\ NoCall(Tail(queue), r) /\ a \in Answers
      BY <1>0, <1>3, Zenon
    <3>. QED BY <2>3, <2>4, <3>1, CallEnds, Zenon
  <2>6. NetType' /\ TablesType' /\ WatchType' /\ QueueType'
    BY <1>0, <1>1, <2>1, PartsSame, Zenon DEF QueueType, netVars
  <2>7. TypeOK'
    BY <1>7, <2>5, <2>6, TypePartsAfter, Zenon
  <2>8. TablesAgree' /\ Counted'
    BY <2>1, TablesSame, CountedSame, Zenon DEF IInv, tables
  <2>. QED BY <1>7, <2>5, <2>7, <2>8 DEF IInv
<1>9. CASE switches # None
  <2>0. /\ IF ReplyCls[r] # None THEN _observe_msg(ReplyCls[r]) ELSE UNCHANGED watch
        /\ xid' = [xid EXCEPT ![d] = b] /\ UNCHANGED clientVars
        /\ IF results[x] # None \/ xids[x] # None \/ barriers[b] # None
           THEN Raise /\ UNCHANGED <<tables, wire>>
           ELSE /\ results' = [results EXCEPT ![x] = <<>>] /\ xids' = [xids EXCEPT ![x] = r]
                /\ barriers' = [barriers EXCEPT ![b] = x]
                /\ send(d, <<[kind |-> "msg", xid |-> x, req |-> r], [kind |-> "barrier", xid |-> b]>>)
                /\ UNCHANGED <<switches, alive>>
    BY <1>2, <1>4, <1>5, <1>6, <1>9, Zenon DEF _handle_send_msg
  <2>1. WatchType' /\ ClientType'
    <3>1. ReplyCls[r] # None => ReplyCls[r] \in Classes
      BY <1>3, OfctlAssumption, Zenon
    <3>. QED BY <1>0, <2>0, <3>1, ObserveType, PartsSame, ZenonT(30)
  <2>2. xid' \in [Conns -> Xids]
    BY <1>0, <2>0, Zenon DEF NetType
  <2>3. CASE results[x] # None \/ xids[x] # None \/ barriers[b] # None
    <3>1. Raise /\ UNCHANGED <<tables, wire>>
      BY <2>0, <2>3, Zenon
    <3>2. NetType' /\ TablesType' /\ QueueType'
      BY <1>0, <1>1, <2>2, <3>1, PartsSame, Zenon DEF NetType, Raise, QueueType
    <3>3. TypeOK'
      BY <1>7, <2>1, <3>2, TypePartsAfter, Zenon
    <3>4. Counted'
      BY <1>0, <1>3, <2>0, <3>1, CountedSend, Zenon DEF IInv, tables
    <3>5. Calls'
      BY <1>1, <2>0, <3>1, Zenon DEF IInv, Calls, tables, clientVars
    <3>. QED BY <1>7, <3>1, <3>3, <3>4, <3>5, TablesSame DEF IInv
  <2>4. CASE results[x] = None /\ xids[x] = None /\ barriers[b] = None
    <3>1. /\ results' = [results EXCEPT ![x] = <<>>] /\ xids' = [xids EXCEPT ![x] = r]
          /\ barriers' = [barriers EXCEPT ![b] = x]
          /\ send(d, <<[kind |-> "msg", xid |-> x, req |-> r], [kind |-> "barrier", xid |-> b]>>)
          /\ UNCHANGED <<switches, alive>>
      BY <2>0, <2>4, Zenon
    <3>2. NetType' /\ QueueType'
      <4>1. PICK ms : ms = <<[kind |-> "msg", xid |-> x, req |-> r], [kind |-> "barrier", xid |-> b]>>
        BY Zenon
      <4>2. [kind |-> "msg", xid |-> x, req |-> r] \in Sent /\ [kind |-> "barrier", xid |-> b] \in Sent
        BY <1>3, Zenon DEF Sent
      <4>3. ms \in Seq(Sent)
        BY <4>1, <4>2, PairInSeq, Zenon
      <4>4. send(d, ms)
        BY <3>1, <4>1, ZenonT(30)
      <4>5. wire' \in [Conns -> Seq(Sent)]
        BY <1>0, <4>3, <4>4, WireType, ZenonT(30) DEF NetType
      <4>. QED BY <1>0, <1>1, <2>2, <3>1, <4>5 DEF NetType, QueueType
    <3>3. TablesType'
      <4>1. <<>> \in Seq(Classes)
        OBVIOUS
      <4>. QED BY <1>0, <1>3, <3>1, <4>1 DEF TablesType
    <3>4. TypeOK'
      BY <1>7, <2>1, <3>2, <3>3, TypePartsAfter
    <3>5. TablesAgree'
      BY <1>0, <1>3, <1>9, <2>4, <3>1, TablesEnter, ZenonT(30) DEF IInv
    <3>6. Counted'
      BY <1>0, <1>3, <2>0, <2>4, <3>1, CountedSend, ZenonT(30) DEF IInv
    <3>7. Calls'
      <4>1. PICK t : t = xids'
        OBVIOUS
      <4>2. \A y \in Xids : t[y] = (IF y = x THEN r ELSE xids[y])
        BY <1>0, <3>1, <4>1, Zenon DEF TablesType
      <4>3. Besides(r, client, client) /\ Entered(r, xids, t)
        BY <4>2, Zenon DEF Besides, Entered
      <4>4. PICK q \in Seq(Events) : q = Tail(queue)
        BY <1>1, Zenon
      <4>5. Queued(q, client, xids) /\ NoCall(q, r)
        BY <1>1, <1>3, <4>4, Zenon
      <4>6. Queued(q, client, t)
        BY <4>3, <4>5, QueuedOther, Zenon
      <4>7. \A y \in Xids : t[y] # None => client[t[y]] = "waiting"
        BY <1>3, <4>2, Zenon DEF IInv, Calls
      <4>. QED BY <1>1, <2>0, <4>1, <4>4, <4>6, <4>7 DEF IInv, Calls, clientVars
    <3>. QED BY <1>7, <3>4, <3>5, <3>6, <3>7, ZenonT(30) DEF IInv
  <2>. QED BY <2>3, <2>4, Zenon
<1>. QED BY <1>8, <1>9, Zenon

LEMMA UnobserveType ==
    ASSUME WatchType, NEW c, c # None => c \in Classes, observing' \in [Classes -> Nat],
           IF c # None THEN _unobserve_msg(c) ELSE UNCHANGED watch
    PROVE  WatchType'
BY Zenon DEF WatchType, watch, _unobserve_msg

\* The reply to the barrier of a request under way.
LEMMA Answered ==
    ASSUME IInv, NEW b \in Xids, NEW x, x = barriers[b], x # None, NEW r, r = xids[x]
    PROVE  /\ x \in Xids /\ r \in Reqs /\ NoCall(queue, r) /\ results[x] \in Seq(Classes)
           /\ \A y \in Xids : xids[y] = r => y = x
<1>1. x \in Xids
  BY Zenon DEF IInv, TypeOK
<1>2. xids[x] # None
  BY Zenon DEF IInv, TablesAgree
<1>3. r \in Reqs
  BY <1>1, <1>2 DEF IInv, TypeOK
<1>4. results[x] # None /\ \A y \in Xids : xids[y] = r => y = x
  BY <1>1, <1>2, ZenonT(30) DEF IInv, TablesAgree
<1>5. results[x] \in Seq(Classes)
  BY <1>1, <1>4 DEF IInv, TypeOK
<1>6. client[r] = "waiting"
  BY <1>1, <1>2, Zenon DEF IInv, Calls
<1>7. NoCall(queue, r)
  <2>1. ASSUME NEW i \in 1 .. Len(queue), Call(queue[i]), queue[i].req = r PROVE FALSE
    <3>1. CASE queue[i].kind = "get_datapath"
      BY <1>6, <2>1, <3>1 DEF IInv, Calls, Queued
    <3>2. CASE queue[i].kind = "send_msg"
      <4>1. \A y \in Xids : xids[y] # queue[i].req
        BY <3>2, Zenon DEF IInv, Calls, Queued
      <4>. QED BY <1>1, <2>1, <4>1, Zenon
    <3>. QED BY <2>1, <3>1, <3>2 DEF Call
  <2>. QED BY <2>1, Zenon DEF NoCall
<1>. QED BY <1>1, <1>3, <1>4, <1>5, <1>7

LEMMA BarrierHandled ==
    ASSUME IInv, _handle_barrier
    PROVE  IInv'
<1>0. /\ TypeOK /\ ConnType /\ NetType /\ QueueType /\ TablesType /\ WatchType /\ ClientType /\ SaidType
      /\ Take("msg") /\ UNCHANGED <<connVars, xid, netVars, alive, switches, said>>
      /\ TablesAgree /\ Counted
  BY TypeParts, Zenon DEF IInv, _handle_barrier
<1>1. /\ queue \in Seq(Events) /\ queue # <<>> /\ queue' = Tail(queue) /\ queue' \in Seq(Events)
      /\ Queued(Tail(queue), client, xids)
  BY <1>0, Taken, Zenon
<1>2. PICK m : m = Head(queue)
  OBVIOUS
<1>3. m.xid \in Xids /\ m.cls \in Classes
  BY <1>0, <1>2, Taken, EventFields, ZenonT(30)
<1>4. PICK x : x = barriers[m.xid]
  OBVIOUS
<1>5. CASE switches = None \/ x = None
  <2>1. UNCHANGED <<barriers, xids, watch, clientVars>> /\ results' \in {Collect(m, xids, results), results}
    BY <1>2, <1>4, <1>5, Zenon DEF _handle_barrier
  <2>2. results \in [Xids -> Seq(Classes) \cup {None}]
    BY <1>0, Zenon DEF TablesType
  <2>3. PICK rs : rs = Collect(m, xids, results)
    OBVIOUS
  <2>4. rs \in [Xids -> Seq(Classes) \cup {None}] /\ \A y \in Xids : rs[y] = None <=> results[y] = None
    BY <1>3, <2>2, <2>3, CollectKeeps, Zenon
  <2>5. results' \in [Xids -> Seq(Classes) \cup {None}] /\ \A y \in Xids : results'[y] = None <=> results[y] = None
    BY <2>1, <2>2, <2>3, <2>4, ZenonT(30)
  <2>6. TablesType'
    BY <1>0, <2>1, <2>5 DEF TablesType
  <2>7. TablesAgree'
    BY <1>0, <2>1, <2>5, TablesCollect, Zenon
  <2>8. Counted' /\ alive' \in BOOLEAN
    BY <1>0, <2>1, CountedSame, Zenon DEF QueueType
  <2>. QED BY <1>0, <2>1, <2>6, <2>7, <2>8, QuietTake
<1>6. CASE switches # None /\ x # None
  <2>1. PICK r : r = xids[x]
    OBVIOUS
  <2>2. /\ x \in Xids /\ r \in Reqs /\ NoCall(queue, r) /\ results[x] \in Seq(Classes)
        /\ \A y \in Xids : xids[y] = r => y = x
    BY <1>3, <1>4, <1>6, <2>1, Answered, ZenonT(30)
  <2>3. /\ barriers' = [barriers EXCEPT ![m.xid] = None] /\ xids' = Forget(xids, x)
        /\ results' \in {Collect(m, xids', Forget(results, x)), Forget(results, x)}
        /\ IF ReplyCls[r] # None THEN _unobserve_msg(ReplyCls[r]) ELSE UNCHANGED watch
        /\ reply_to_request(r, Outcome(r, results[x]))
    BY <1>2, <1>4, <1>6, <2>1, Zenon DEF _handle_barrier
  <2>4. xids' = [xids EXCEPT ![x] = None] /\ xids' \in [Xids -> Reqs \cup {None}]
    BY <1>0, <2>3, Zenon DEF Forget, TablesType
  <2>5. /\ results' \in [Xids -> Seq(Classes) \cup {None}]
        /\ \A y \in Xids : results'[y] = None <=> (y = x \/ results[y] = None)
    <3>1. PICK fs : fs = Forget(results, x)
      OBVIOUS
    <3>2. fs \in [Xids -> Seq(Classes) \cup {None}] /\ \A y \in Xids : fs[y] = None <=> (y = x \/ results[y] = None)
      BY <1>0, <2>2, <3>1, Zenon DEF Forget, TablesType
    <3>3. PICK ts : ts = xids'
      OBVIOUS
    <3>4. PICK rs : rs = Collect(m, ts, fs)
      OBVIOUS
    <3>5. rs \in [Xids -> Seq(Classes) \cup {None}] /\ \A y \in Xids : rs[y] = None <=> fs[y] = None
      BY <1>3, <3>2, <3>4, CollectKeeps, Zenon
    <3>6. results' = rs \/ results' = fs
      BY <2>3, <3>1, <3>3, <3>4, Zenon
    <3>. QED BY <3>2, <3>5, <3>6, Zenon
  <2>6. TablesType'
    BY <1>0, <1>3, <2>3, <2>4, <2>5, Zenon DEF TablesType
  <2>7. TablesAgree'
    BY <1>0, <1>3, <1>4, <1>6, <2>2, <2>3, <2>5, TablesLeave, ZenonT(30)
  <2>8. Counted' /\ observing' \in [Classes -> Nat]
    BY <1>0, <2>1, <2>2, <2>3, CountedAnswer, Zenon
  <2>9. WatchType'
    <3>1. ReplyCls[r] # None => ReplyCls[r] \in Classes
      BY <2>2, OfctlAssumption, Zenon
    <3>. QED BY <1>0, <2>3, <2>8, <3>1, UnobserveType, ZenonT(30)
  <2>10. Calls' /\ ClientType'
    <3>1. NoCall(Tail(queue), r)
      BY <1>1, <2>2, QueuedTail, ZenonT(30) DEF IInv, Calls
    <3>2. Gone(r)
      BY <1>0, <2>2, <2>4, OfctlAssumption DEF Gone, TablesType
    <3>3. PICK a \in Answers : a = Outcome(r, results[x])
      BY <2>2, OutcomeType, Zenon
    <3>4. reply_to_request(r, a)
      BY <2>3, <3>3, Zenon
    <3>. QED BY <1>0, <2>2, <3>1, <3>2, <3>4, CallEnds, ZenonT(30)
  <2>11. TypeOK' /\ Ended'
    <3>1. ConnType' /\ NetType' /\ SaidType' /\ QueueType'
      BY <1>0, <1>1, PartsSame, Zenon DEF QueueType
    <3>2. Ended'
      BY <1>0, <1>1, EndedTail, Zenon DEF IInv, connVars
    <3>. QED BY <2>6, <2>9, <2>10, <3>1, <3>2, TypePartsAfter
  <2>. QED BY <2>7, <2>8, <2>10, <2>11, Zenon DEF IInv
<1>. QED BY <1>5, <1>6, Zenon

-----------------------------------------------------------------------------
(***************************************************************************)
(* The theorems.                                                           *)
(***************************************************************************)

LEMMA InitIInv == Init => IInv
<1>. SUFFICES ASSUME Init PROVE IInv
  OBVIOUS
<1>. USE OfctlAssumption
<1>0. queue = <<>> /\ Len(queue) = 0 /\ xids = Empty /\ barriers = Empty /\ results = Empty
  BY ZenonT(30) DEF Init
<1>1. ConnType /\ NetType /\ QueueType
  BY SMTT(30) DEF Init, ConnType, NetType, QueueType
<1>2. TablesType
  BY Zenon DEF Init, TablesType, Empty
<1>3. WatchType
  <2>1. \A c \in Static : Declared[c] \in SUBSET {"config", "main"}
    BY Zenon DEF Declared
  <2>2. Static \subseteq Classes
    BY Zenon DEF Classes
  <2>. QED BY <2>1, <2>2, Zenon DEF Init, WatchType
<1>4. ClientType /\ SaidType
  <2>1. NoneYet \in Answers
    BY DEF NoneYet, Answers
  <2>2. <<>> \in Seq(Classes)
    OBVIOUS
  <2>. QED BY <2>1, <2>2, ZenonT(30) DEF Init, ClientType, SaidType
<1>5. TypeOK
  BY <1>1, <1>2, <1>3, <1>4, TypeParts, ZenonT(30)
<1>6. TablesAgree
  BY <1>0, ZenonT(30) DEF TablesAgree, Empty
<1>7. Calls
  BY <1>0, SMTT(30) DEF Init, Calls, Queued, Empty
<1>8. Ended
  BY <1>0 DEF Ended
<1>9. Counted
  <2>1. ASSUME NEW c \in Classes PROVE observing[c] = 0 /\ Pending(c) = {}
    BY <1>0, Zenon DEF Init, Pending, Empty
  <2>2. Cardinality({}) = 0
    BY FS_EmptySet, Zenon
  <2>3. ASSUME NEW c \in Classes
        PROVE  observing[c] >= Cardinality(Pending(c)) /\ (observing[c] > 0 => observers[c] # None)
    <3>1. observing[c] = 0 /\ Pending(c) = {}
      BY <2>1, Zenon
    <3>2. Cardinality(Pending(c)) = 0
      BY <2>2, <3>1, Zenon
    <3>. QED BY <3>1, <3>2, SMTT(30)
  <2>. QED BY <2>3, Zenon DEF Counted
<1>. QED BY <1>5, <1>6, <1>7, <1>8, <1>9, ZenonT(30) DEF IInv

LEMMA StepIInv == IInv /\ [Next]_vars => IInv'
<1>. SUFFICES ASSUME IInv, [Next]_vars PROVE IInv'
  OBVIOUS
<1>1. CASE Service
  BY <1>1, FeaturesHandled, DeadHandled, GetDatapathHandled, SendHandled, ReplyHandled, BarrierHandled, ZenonT(30)
     DEF Service
<1>2. ASSUME NEW r \in Reqs, get_datapath(r) \/ send_msg(r) PROVE IInv'
  BY <1>2, GetDatapathCall, SendMsgCall, Zenon
<1>3. ASSUME NEW d \in Conns,
             \/ recv_features(d) \/ switch_features_handler(d)
             \/ multipart_reply_handler(d) \/ recv_msg(d) \/ send_loop_end(d)
             \/ recv_loop_end(d) \/ OtherSends(d) \/ SwitchAnswers(d)
      PROVE  IInv'
  BY <1>3, FeaturesStep, IdStep, MainStep, RecvStep, SendEndStep, RecvEndStep, OtherStep, AnswerStep, ZenonT(30)
<1>4. CASE UNCHANGED vars
  <2>1. /\ UNCHANGED <<alive, tables, watch, clientVars>> /\ UNCHANGED queue
        /\ UNCHANGED <<connVars, xid, netVars>> /\ UNCHANGED said
    BY <1>4, Zenon DEF vars
  <2>2. ConnType' /\ NetType' /\ SaidType'
    BY <2>1, TypeParts, PartsSame, Zenon DEF IInv
  <2>3. Queues /\ DeadStay
    BY <2>1, Zenon DEF Queues, DeadStay, connVars
  <2>. QED BY <2>1, <2>2, <2>3, ConnStep, Zenon
<1>. QED BY <1>1, <1>2, <1>3, <1>4, Zenon DEF Next

LEMMA Invariance == Spec => []IInv
<1>1. Init => IInv
  BY InitIInv, Zenon
<1>2. IInv /\ [Next]_vars => IInv'
  BY StepIInv, Zenon
<1>. QED BY <1>1, <1>2, PTL DEF Spec

\* The attributes of the service and of the connections, the events and the
\* messages have their types, for any number of connections and requests.
THEOREM ServiceTypes == Spec => []TypeOK
<1>1. IInv => TypeOK
  BY Zenon DEF IInv
<1>. QED BY <1>1, Invariance, PTL

\* The dictionaries of a switch agree whatever the switch answers, and however
\* the connections end and come back: the pops of _handle_barrier find their
\* keys.
THEOREM TablesAlwaysAgree == Spec => []TablesAgree
<1>1. IInv => TablesAgree
  BY Zenon DEF IInv
<1>. QED BY <1>1, Invariance, PTL

\* A class that requests under way expect is counted for each of them, and
\* observed.
THEOREM PendingAlwaysObserved == Spec => []PendingIsObserved
<1>1. IInv => PendingIsObserved
  BY Zenon DEF IInv, Counted, PendingIsObserved, Classes
<1>. QED BY <1>1, Invariance, PTL

\* Only the end of the registered connection itself takes its entry away.
THEOREM EntryStaysItsOwn == Spec => EntryIsOfItsOwn
<1>1. IInv /\ [Next]_vars =>
         [\A d \in Conns : switches = d /\ switches' = None => state[d] = "dead"]_vars
  <2>. SUFFICES ASSUME IInv, Next, NEW d \in Conns, switches = d, switches' = None
                PROVE  state[d] = "dead"
    BY Zenon DEF vars
  <2>0. d # None /\ queue \in Seq(Events)
    BY OfctlAssumption, Zenon DEF IInv, TypeOK
  <2>1. CASE _handle_dead
    <3>1. Take("dead") /\ Head(queue).dp = d
      BY <2>0, <2>1, Zenon DEF _handle_dead, tables
    <3>2. Head(queue).kind = "dead" /\ Head(queue) = queue[1] /\ 1 \in 1 .. Len(queue)
      BY <3>1, Taken, Zenon
    <3>. QED BY <3>1, <3>2, Zenon DEF IInv, Ended
  <2>2. CASE _switch_features_handler
    <3>1. Take("features")
      BY <2>2, Zenon DEF _switch_features_handler
    <3>2. Head(queue).dp \in Conns
      BY <3>1, Taken, EventFields, Zenon
    <3>. QED BY <2>0, <2>2, <3>2, OfctlAssumption, Zenon DEF _switch_features_handler, tables
  <2>3. CASE _handle_get_datapath \/ _handle_send_msg \/ _handle_reply \/ _handle_barrier
    BY <2>0, <2>3, Zenon DEF _handle_get_datapath, _handle_send_msg, _handle_reply, _handle_barrier, tables
  <2>4. ASSUME NEW r \in Reqs, get_datapath(r) \/ send_msg(r) PROVE FALSE
    BY <2>0, <2>4, Zenon DEF get_datapath, send_msg, tables
  <2>5. ASSUME NEW e \in Conns,
               \/ recv_features(e) \/ switch_features_handler(e)
               \/ multipart_reply_handler(e) \/ recv_msg(e) \/ send_loop_end(e)
               \/ recv_loop_end(e) \/ OtherSends(e) \/ SwitchAnswers(e)
        PROVE  FALSE
    BY <2>0, <2>5, Zenon DEF recv_features, switch_features_handler, multipart_reply_handler, recv_msg,
                      send_loop_end, recv_loop_end, OtherSends, SwitchAnswers, tables
  <2>. QED BY <2>1, <2>2, <2>3, <2>4, <2>5, Zenon DEF Next, Service
<1>. QED BY <1>1, Invariance, PTL DEF Spec, EntryIsOfItsOwn
====
