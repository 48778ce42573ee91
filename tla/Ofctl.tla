------------------------------- MODULE Ofctl --------------------------------
(***************************************************************************)
(* The request service of ryu/app/ofctl: applications send a message to a  *)
(* switch and wait for its replies.  The service numbers the message,      *)
(* sends a barrier after it, collects what arrives under the number, and   *)
(* answers when the reply to the barrier comes.  The classes of replies    *)
(* are observed only while requests expect them.                           *)
(*                                                                         *)
(* The connections are reduced to what the service sees of them: the       *)
(* events of ryu/controller/controller.py and ofp_handler.py, in order,    *)
(* and the identifiers they give out (set_xid).                            *)
(***************************************************************************)
EXTENDS Integers, Sequences, FiniteSets

CONSTANTS
    Conns,          \* the Datapath objects, all of one switch (one dpid)
    Reqs,           \* the requests of applications
    ReplyCls,       \* Reqs -> the reply_cls given to send_msg, or None
    AnswerCls,      \* Reqs -> the class the switch answers the message with
    ReplyMulti,     \* Reqs -> the reply_multi given to send_msg
    Dynamic,        \* reply classes without a handler of their own
    None,
    MaxXid,         \* xids are taken modulo MaxXid + 1
    FirstXid,       \* Conns -> the random xid of a new Datapath
    MaxReplies,     \* bound: replies of the switch to one message
    MaxOthers,      \* bound: barriers sent by other applications
    Mortal,         \* the connections that may end
    Posting         \* can another observer of the features reply block?

\* The reply classes that have a handler from the start, with the states of
\* the connection it is declared for.
Static == {"features", "barrier", "error"}
Declared == [c \in Static |-> IF c = "features" THEN {"config"} ELSE {"main"}]

Classes == Static \cup Dynamic
Xids == 0 .. MaxXid

ASSUME OfctlAssumption ==
    /\ MaxXid \in Nat /\ MaxReplies \in Nat /\ MaxOthers \in Nat
    /\ FirstXid \in [Conns -> Xids]
    /\ None \notin Conns /\ None \notin Reqs
    /\ None \notin Classes /\ None \notin Xids
    /\ None \notin Seq(Classes) /\ None # {}
    /\ Dynamic \cap Static = {}
    /\ ReplyCls \in [Reqs -> (Classes \ {"error"}) \cup {None}]
    /\ AnswerCls \in [Reqs -> Classes]
    /\ ReplyMulti \in [Reqs -> BOOLEAN]
    /\ Mortal \subseteq Conns /\ Posting \in BOOLEAN

VARIABLES
    state,          \* Datapath.state; "new" before the features reply
    identified,     \* the connections whose Datapath.id is set
    reading,        \* the connections whose receive loop runs
    xid,            \* Datapath.xid
    wire,           \* per connection, what is on its way to the switch
    chan,           \* per connection, what is on its way from the switch
    others,         \* number of barriers sent by other applications
    queue,          \* the events of the service
    alive,          \* does its event loop run?
    switches,       \* _switches[dpid].datapath, None without an entry
    xids,           \* _SwitchInfo.xids, with None for an absent key
    barriers,       \* _SwitchInfo.barriers
    results,        \* _SwitchInfo.results
    observing,      \* _observing_events; an absent key is 0
    observers,      \* class -> states the service observes it in, or None
    client,         \* where the application of a request is
    dp,             \* the Datapath the application holds
    answer,         \* what send_msg returned or raised
    said            \* ghost: the replies the switch gave to the message

connVars == <<state, identified, reading>>
netVars == <<wire, chan, others>>
tables == <<switches, xids, barriers, results>>
watch == <<observing, observers>>
clientVars == <<client, dp, answer>>
vars == <<connVars, xid, netVars, queue, alive, tables, watch, clientVars,
          said>>

NoneYet == [tag |-> "nothing", result |-> <<>>]
Empty == [x \in Xids |-> None]

Init ==
    /\ state = [d \in Conns |-> "new"]
    /\ identified = {}
    /\ reading = {}
    /\ xid = FirstXid
    /\ wire = [d \in Conns |-> <<>>]
    /\ chan = [d \in Conns |-> <<>>]
    /\ others = 0
    /\ queue = <<>>
    /\ alive = TRUE
    /\ switches = None
    /\ xids = Empty /\ barriers = Empty /\ results = Empty
    /\ observing = [c \in Classes |-> 0]
    /\ observers = [c \in Classes |-> IF c \in Static THEN Declared[c]
                                                      ELSE None]
    /\ client = [r \in Reqs |-> "idle"]
    /\ dp = [r \in Reqs |-> None]
    /\ answer = [r \in Reqs |-> NoneYet]
    /\ said = [r \in Reqs |-> <<>>]

-----------------------------------------------------------------------------
(* The connections.                                                        *)

\* get_observers(): is an event of class c delivered in state s?
Observed(c, s) ==
    /\ observers[c] # None
    /\ observers[c] = {} \/ s \in observers[c]

Put(ev) == queue' = Append(queue, ev)
ConnEvent(k, d) == [kind |-> k, dp |-> d]

\* The features reply is read: its event goes to the observers, the service
\* among them, and then switch_features_handler sets the id.  The greenlet
\* stays between the two when the queue of another observer is full.
recv_features(d) ==
    /\ state[d] = "new"
    /\ \/ /\ state' = [state EXCEPT ![d] = "config"]
          /\ identified' = identified \cup {d}
       \/ /\ Posting
          /\ state' = [state EXCEPT ![d] = "posting"]
          /\ UNCHANGED identified
    /\ reading' = reading \cup {d}
    /\ IF Observed("features", "config") THEN Put(ConnEvent("features", d))
                                         ELSE UNCHANGED queue
    /\ UNCHANGED <<xid, netVars, alive, tables, watch, clientVars, said>>

switch_features_handler(d) ==
    /\ state[d] = "posting"
    /\ state' = [state EXCEPT ![d] = "config"]
    /\ identified' = identified \cup {d}
    /\ UNCHANGED <<reading, xid, netVars, queue, alive, tables, watch,
                   clientVars, said>>

\* The port description, which precedes every reply to the service.
multipart_reply_handler(d) ==
    /\ state[d] = "config"
    /\ state' = [state EXCEPT ![d] = "main"]
    /\ UNCHANGED <<identified, reading, xid, netVars, queue, alive, tables,
                   watch, clientVars, said>>

\* The receive loop passes the next message on to the observers.
recv_msg(d) ==
    /\ d \in reading /\ chan[d] # <<>> /\ state[d] \in {"main", "dead"}
    /\ chan' = [chan EXCEPT ![d] = Tail(@)]
    /\ LET m == Head(chan[d])
       IN  IF Observed(m.cls, state[d])
           THEN Put([kind |-> "msg", dp |-> d, xid |-> m.xid, cls |-> m.cls])
           ELSE UNCHANGED queue
    /\ UNCHANGED <<connVars, xid, wire, others, alive, tables, watch,
                   clientVars, said>>

\* Sending fails: the connection is DEAD, its queue is gone, and the receive
\* loop goes on.
send_loop_end(d) ==
    /\ d \in Mortal /\ state[d] \in {"config", "main"}
    /\ state' = [state EXCEPT ![d] = "dead"]
    /\ wire' = [wire EXCEPT ![d] = <<>>]
    /\ Put(ConnEvent("dead", d))
    /\ UNCHANGED <<identified, reading, xid, chan, others, alive, tables,
                   watch, clientVars, said>>

\* The connection breaks: the rest of both directions is lost.
recv_loop_end(d) ==
    /\ d \in Mortal /\ d \in reading /\ state[d] # "posting"
    /\ state' = [state EXCEPT ![d] = "dead"]
    /\ reading' = reading \ {d}
    /\ wire' = [wire EXCEPT ![d] = <<>>]
    /\ chan' = [chan EXCEPT ![d] = <<>>]
    /\ Put(ConnEvent("dead", d))
    /\ UNCHANGED <<identified, xid, others, alive, tables, watch, clientVars,
                   said>>

\* Datapath.set_xid.
NextXid(x) == (x + 1) % (MaxXid + 1)

\* Mutant: the barrier is not sent.
send_first(d, msgs) ==
    wire' = IF state[d] = "dead" THEN wire
                                 ELSE [wire EXCEPT ![d] = Append(@, Head(msgs))]

\* Datapath.send_msg: a dead connection has no queue and drops the message.
send(d, msgs) ==
    wire' = IF state[d] = "dead" THEN wire
                                 ELSE [wire EXCEPT ![d] = @ \o msgs]

\* Another application sends a barrier of its own.
OtherSends(d) ==
    /\ others < MaxOthers /\ d \in identified
    /\ others' = others + 1
    /\ xid' = [xid EXCEPT ![d] = NextXid(@)]
    /\ send(d, <<[kind |-> "barrier", xid |-> NextXid(xid[d])]>>)
    /\ UNCHANGED <<connVars, chan, queue, alive, tables, watch, clientVars,
                   said>>

\* What the switch says to message m: n replies of its class, or an error.
Reply(m, c) == [cls |-> c, xid |-> m.xid]
Replies(m, n, fails) == [i \in 1 .. n |-> Reply(m, AnswerCls[m.req])]
                        \o IF fails THEN <<Reply(m, "error")>> ELSE <<>>

\* A barrier gets its reply, a message some replies of its class, or an error.
SwitchSays(d, m) ==
    \/ /\ m.kind = "barrier"
       /\ chan' = [chan EXCEPT ![d] = Append(@, Reply(m, "barrier"))]
       /\ UNCHANGED said
    \/ /\ m.kind = "msg"
       /\ \E n \in 0 .. MaxReplies, fails \in BOOLEAN :
            LET rs == Replies(m, n, fails)
            IN  /\ chan' = [chan EXCEPT ![d] = @ \o rs]
                /\ said' = [said EXCEPT ![m.req] = [i \in DOMAIN rs |-> rs[i].cls]]

\* The switch handles what it receives in order.
SwitchAnswers(d) ==
    /\ wire[d] # <<>>
    /\ wire' = [wire EXCEPT ![d] = Tail(@)]
    /\ SwitchSays(d, Head(wire[d]))
    /\ UNCHANGED <<connVars, xid, others, queue, alive, tables, watch,
                   clientVars>>

-----------------------------------------------------------------------------
(* The applications: ryu/app/ofctl/api.py.                                 *)

get_datapath(r) ==
    /\ client[r] = "idle"
    /\ client' = [client EXCEPT ![r] = "asking"]
    /\ Put([kind |-> "get_datapath", req |-> r])
    /\ UNCHANGED <<connVars, xid, netVars, alive, tables, watch, dp, answer,
                   said>>

send_msg(r) ==
    /\ client[r] = "holding"
    /\ client' = [client EXCEPT ![r] = "waiting"]
    /\ Put([kind |-> "send_msg", req |-> r])
    /\ UNCHANGED <<connVars, xid, netVars, alive, tables, watch, dp, answer,
                   said>>

-----------------------------------------------------------------------------
(* The service: ryu/app/ofctl/service.py.                                  *)

Take(k) ==
    /\ alive /\ queue # <<>> /\ Head(queue).kind = k
    /\ queue' = Tail(queue)

\* A failed assertion leaves the handler and ends the event loop.
Raise == alive' = FALSE

reply_to_request(r, a) ==
    /\ answer' = [answer EXCEPT ![r] = a]
    /\ client' = [client EXCEPT ![r] = "done"]
    /\ UNCHANGED dp

_switch_features_handler ==
    /\ Take("features")
    /\ LET d == Head(queue).dp
       IN  IF d \in identified
           THEN /\ switches' = d
                /\ xids' = Empty /\ barriers' = Empty /\ results' = Empty
                /\ UNCHANGED alive
           ELSE Raise /\ UNCHANGED tables
    /\ UNCHANGED <<connVars, xid, netVars, watch, clientVars, said>>

\* Mutant: the end of any connection of the switch removes the entry.
_handle_dead_any ==
    /\ Take("dead")
    /\ switches' = None
    /\ xids' = Empty /\ barriers' = Empty /\ results' = Empty
    /\ UNCHANGED <<connVars, xid, netVars, alive, watch, clientVars, said>>

_handle_dead ==
    /\ Take("dead")
    /\ LET d == Head(queue).dp
       IN  IF d \in identified /\ switches = d
           THEN /\ switches' = None
                /\ xids' = Empty /\ barriers' = Empty /\ results' = Empty
           ELSE UNCHANGED tables
    /\ UNCHANGED <<connVars, xid, netVars, alive, watch, clientVars, said>>

\* An application that is told there is no such switch gives up.
_handle_get_datapath ==
    /\ Take("get_datapath")
    /\ LET r == Head(queue).req
       IN  /\ dp' = [dp EXCEPT ![r] = switches]
           /\ client' = [client EXCEPT ![r] =
                           IF switches = None THEN "gone" ELSE "holding"]
    /\ UNCHANGED <<connVars, xid, netVars, alive, tables, watch, answer, said>>

\* Mutant: the request is not counted.
_observe_msg_uncounted(c) ==
    /\ UNCHANGED observing
    /\ observers' = IF observing[c] = 0 /\ observers[c] = None
                    THEN [observers EXCEPT ![c] = {}] ELSE observers

\* A class that is observed already keeps its states.
_observe_msg(c) ==
    /\ observing' = [observing EXCEPT ![c] = @ + 1]
    /\ observers' = IF observing[c] = 0 /\ observers[c] = None
                    THEN [observers EXCEPT ![c] = {}] ELSE observers

_unobserve_msg(c) ==
    /\ observing' = [observing EXCEPT ![c] = @ - 1]
    /\ observers' = IF observing[c] = 1
                    THEN [observers EXCEPT ![c] = None] ELSE observers

\* The service looks the switch up by the dpid of the message's Datapath,
\* which need not be the connection that is registered.
_handle_send_msg ==
    /\ Take("send_msg")
    /\ LET r == Head(queue).req
           d == dp[r]
           x == NextXid(xid[d])
           b == NextXid(x)
       IN  \/ /\ switches = None
              /\ reply_to_request(r, [tag |-> "InvalidDatapath",
                                      result |-> <<>>])
              /\ UNCHANGED <<xid, wire, alive, tables, watch>>
           \/ /\ switches # None
              /\ IF ReplyCls[r] # None THEN _observe_msg(ReplyCls[r])
                                       ELSE UNCHANGED watch
              /\ xid' = [xid EXCEPT ![d] = b]
              /\ IF \/ results[x] # None \/ xids[x] # None
                    \/ barriers[b] # None
                 THEN Raise /\ UNCHANGED <<tables, wire>>
                 ELSE /\ results' = [results EXCEPT ![x] = <<>>]
                      /\ xids' = [xids EXCEPT ![x] = r]
                      /\ barriers' = [barriers EXCEPT ![b] = x]
                      /\ send(d, <<[kind |-> "msg", xid |-> x, req |-> r],
                                   [kind |-> "barrier", xid |-> b]>>)
                      /\ UNCHANGED <<switches, alive>>
              /\ UNCHANGED clientVars
    /\ UNCHANGED <<connVars, chan, others, said>>

\* What send_msg returns or raises for the replies collected.
Outcome(r, result) ==
    [result |-> result,
     tag |-> IF \E i \in DOMAIN result : result[i] = "error" THEN "OFError"
             ELSE IF ReplyMulti[r] THEN "list"
             ELSE IF Len(result) = 0 THEN "none"
             ELSE IF Len(result) = 1 THEN "message"
             ELSE "UnexpectedMultiReply"]

\* Mutant: replies are not compared with the class the request expects.
Expects_any(r, c) == TRUE

\* Does _handle_reply keep a reply of class c for request r?
Expects(r, c) == c = "error" \/ ReplyCls[r] = c

\* _handle_reply for event m, with the tables ts and rs.
Collect(m, ts, rs) ==
    IF ts[m.xid] # None /\ rs[m.xid] # None /\ Expects(ts[m.xid], m.cls)
    THEN [rs EXCEPT ![m.xid] = Append(@, m.cls)]
    ELSE rs

_handle_reply ==
    /\ Take("msg") /\ Head(queue).cls # "barrier"
    /\ LET m == Head(queue)
           handled == m.cls = "error" \/ observing[m.cls] > 0
       IN  results' = IF switches # None /\ handled
                      THEN Collect(m, xids, results) ELSE results
    /\ UNCHANGED <<connVars, xid, netVars, alive, switches, xids, barriers,
                   watch, clientVars, said>>

\* Mutant: the request is left in the tables.
Forget_not(t, x) == t

\* dict.pop(x).
Forget(t, x) == [t EXCEPT ![x] = None]

\* The reply to a barrier.  While a request expects barrier replies,
\* _handle_reply is called with the event as well.
_handle_barrier ==
    /\ Take("msg") /\ Head(queue).cls = "barrier"
    /\ LET m == Head(queue)
           x == barriers[m.xid]
           r == xids[x]
           After(ts, rs) == IF observing["barrier"] > 0 /\ switches # None
                            THEN Collect(m, ts, rs) ELSE rs
       IN  \/ /\ switches = None \/ x = None
              /\ results' = After(xids, results)
              /\ UNCHANGED <<barriers, xids, watch, clientVars>>
           \/ /\ switches # None /\ x # None
              /\ barriers' = [barriers EXCEPT ![m.xid] = None]
              /\ xids' = Forget(xids, x)
              /\ results' = After(xids', Forget(results, x))
              /\ IF ReplyCls[r] # None THEN _unobserve_msg(ReplyCls[r])
                                       ELSE UNCHANGED watch
              /\ reply_to_request(r, Outcome(r, results[x]))
    /\ UNCHANGED <<connVars, xid, netVars, alive, switches, said>>

-----------------------------------------------------------------------------
Service ==
    \/ _switch_features_handler \/ _handle_dead \/ _handle_get_datapath
    \/ _handle_send_msg \/ _handle_reply \/ _handle_barrier

Next ==
    \/ Service
    \/ \E r \in Reqs : get_datapath(r) \/ send_msg(r)
    \/ \E d \in Conns :
         \/ recv_features(d) \/ switch_features_handler(d)
         \/ multipart_reply_handler(d) \/ recv_msg(d) \/ send_loop_end(d)
         \/ recv_loop_end(d) \/ OtherSends(d) \/ SwitchAnswers(d)

Spec == Init /\ [][Next]_vars

\* The event loop runs, connections complete their handshake and read, and
\* the switch answers what it received.
Fairness ==
    /\ WF_vars(Service)
    /\ \A d \in Conns : /\ WF_vars(switch_features_handler(d))
                        /\ WF_vars(multipart_reply_handler(d))
                        /\ WF_vars(recv_msg(d))
                        /\ WF_vars(SwitchAnswers(d))

FairSpec == Spec /\ Fairness

-----------------------------------------------------------------------------
Messages == [cls : Classes, xid : Xids]
Sent == [kind : {"barrier"}, xid : Xids]
        \cup [kind : {"msg"}, xid : Xids, req : Reqs]
Events == [kind : {"features", "dead"}, dp : Conns]
          \cup [kind : {"get_datapath", "send_msg"}, req : Reqs]
          \cup [kind : {"msg"}, dp : Conns, xid : Xids, cls : Classes]
Answers == [tag : {"nothing", "InvalidDatapath", "OFError", "list", "none",
                   "message", "UnexpectedMultiReply"},
            result : Seq(Classes)]

\* The types of the attributes of Datapath and of OfctlService, and of what
\* is in flight between them.
TypeOK ==
    /\ state \in [Conns -> {"new", "posting", "config", "main", "dead"}]
    /\ identified \subseteq Conns /\ reading \subseteq Conns
    /\ xid \in [Conns -> Xids]
    /\ wire \in [Conns -> Seq(Sent)]
    /\ chan \in [Conns -> Seq(Messages)]
    /\ others \in 0 .. MaxOthers
    /\ queue \in Seq(Events)
    /\ alive \in BOOLEAN
    /\ switches \in Conns \cup {None}
    /\ xids \in [Xids -> Reqs \cup {None}]
    /\ barriers \in [Xids -> Xids \cup {None}]
    /\ results \in [Xids -> Seq(Classes) \cup {None}]
    /\ observing \in [Classes -> Nat]
    /\ observers \in [Classes -> (SUBSET {"config", "main"}) \cup {None}]
    /\ client \in [Reqs -> {"idle", "asking", "holding", "gone", "waiting",
                         "done"}]
    /\ dp \in [Reqs -> Conns \cup {None}]
    /\ answer \in [Reqs -> Answers]
    /\ said \in [Reqs -> Seq(Classes)]

\* The three dictionaries of a _SwitchInfo are about the same requests: a
\* barrier leads to exactly one request under way and every request under
\* way to one barrier, so that the pops of _handle_barrier find their keys;
\* and without an entry for the switch nothing is under way.
TablesAgree ==
    /\ \A x \in Xids : (xids[x] = None) <=> (results[x] = None)
    /\ \A b \in Xids : barriers[b] # None => xids[barriers[b]] # None
    /\ \A x \in Xids : xids[x] # None =>
         \E b \in Xids : /\ barriers[b] = x
                         /\ \A b2 \in Xids : barriers[b2] = x => b2 = b
    /\ \A x, y \in Xids : xids[x] # None /\ xids[x] = xids[y] => x = y
    /\ switches = None => xids = Empty /\ barriers = Empty

Pending(c) == {x \in Xids : xids[x] # None /\ ReplyCls[xids[x]] = c}

\* As long as a request under way expects replies of a class, the service is
\* registered as an observer of that class: the count of _observe_msg and
\* _unobserve_msg is at least the number of such requests.
PendingIsObserved ==
    \A c \in Dynamic :
      /\ observing[c] >= Cardinality(Pending(c))
      /\ observing[c] > 0 => observers[c] # None

\* The answer to a request is made of all the replies of the switch to this
\* message that the request expects and of its errors, in order, and of
\* nothing else: replies to other requests, other connections and other
\* applications do not get in, and none is missing when the barrier returns.
AnswerIsOwn ==
    \A r \in Reqs :
      client[r] = "done" /\ answer[r].tag # "InvalidDatapath" =>
        answer[r] = Outcome(r, SelectSeq(said[r], LAMBDA c :
                                 c = "error" \/ c = ReplyCls[r]))

\* The registered connection is forgotten only by its own end or replaced by
\* another one: the end of an older connection, announced late or twice,
\* does not take away the entry of the connection in use.
EntryIsOfItsOwn ==
    [][\A d \in Conns : switches = d /\ switches' = None =>
         state[d] = "dead"]_vars

\* The assertions of the handlers hold: service.py:76 (the id of a datapath
\* is known), service.py:132-134 (xids are not in use).
NoHandlerRaises == alive

\* send_msg returns or raises in the end.
RequestReturns ==
    \A r \in Reqs : client[r] = "waiting" ~> client[r] = "done"
=============================================================================
