------------------------------ MODULE EventBus ------------------------------
(***************************************************************************)
(* The event bus between Ryu applications (ryu/base/app_manager.py): the   *)
(* bounded event queue and the event loop of every application, events to  *)
(* one application or to all observers, requests that wait for a reply,    *)
(* and the manager that stops the applications.                            *)
(*                                                                         *)
(* Greenlets switch only where they block.  A greenlet that sends an event *)
(* to several observers goes on until it meets a full queue; what is left  *)
(* of the list it computed at the start waits in `todo'.                   *)
(***************************************************************************)
EXTENDS Integers, Sequences, FiniteSets

CONSTANTS
    Apps,        \* the applications
    Clients,     \* other greenlets: connections, REST threads
    QCap,        \* capacity of an event queue, 128 in the code
    MaxSends,    \* how many events and requests a client sends
    Sends,       \* pairs of a client and an application it sends events to
    Observes,    \* pairs of an application and one that observes its events
    Asks,        \* pairs of a greenlet and an application it sends requests to
    MayRaise,    \* applications with a handler that may raise an exception
    MayStop,     \* the manager stops the applications
    None

Manager   == "manager"
Greenlets == Apps \cup Clients \cup {Manager}

ASSUME ConstantsAssumption ==
    /\ QCap \in Nat \ {0} /\ MaxSends \in Nat
    /\ Sends \subseteq Clients \X Apps
    /\ Observes \subseteq Apps \X Apps
    /\ Asks \subseteq (Apps \cup Clients) \X Apps
    /\ MayRaise \subseteq Apps
    /\ MayStop \in BOOLEAN
    /\ Apps \cap Clients = {} /\ Manager \notin Apps \cup Clients
    /\ None \notin Greenlets

VARIABLES
    queue,       \* RyuApp.events
    active,      \* RyuApp.is_active
    bricks,      \* SERVICE_BRICKS: the applications that can be addressed
    observers,   \* RyuApp.observers: pairs of an application and its observer
    at,          \* where each greenlet is
    cur,         \* the event it is handling, if it is an application's
    out,         \* the event a blocked greenlet is putting
    onto,        \* the application on whose queue it is blocked
    todo,        \* the observers it has not come to yet
    stopping,    \* the application the manager is stopping
    ops,         \* how often each client sent something
    sent,        \* history: how many events a greenlet sent to an application
    handled      \* history: how many of them the application took

busVars == <<queue, active, bricks, observers>>
putVars == <<out, onto, todo>>
vars    == <<busVars, at, cur, putVars, stopping, ops, sent, handled>>

\* An event: the greenlet it is from, its kind, and for each application its
\* number among the events of that greenlet to that application.
Kinds == {"event", "notice", "request", "stop"}

\* The manager sends no requests.
Events ==
    {e \in [src : Greenlets, kind : Kinds, n : [Apps -> Nat]] :
        e.kind = "request" => e.src # Manager}

ASSUME NoneAssumption == None \notin Events

Event(g, k) == [src |-> g, kind |-> k, n |-> [a \in Apps |-> sent[a][g] + 1]]

TypeOK ==
    /\ queue \in [Apps -> Seq(Events)] /\ \A a \in Apps : Len(queue[a]) <= QCap
    /\ active \in [Apps -> BOOLEAN]
    /\ bricks \subseteq Apps
    /\ observers \subseteq Observes
    /\ at \in [Greenlets -> {"idle", "blocked", "waiting", "replied", "ended", "raised"}]
    /\ cur \in [Greenlets -> Events \cup {None}]
    /\ out \in [Greenlets -> Events \cup {None}]
    /\ onto \in [Greenlets -> Apps \cup {None}]
    /\ todo \in [Greenlets -> SUBSET Apps]
    /\ stopping \in Apps \cup {None}
    /\ ops \in [Clients -> 0 .. MaxSends]
    /\ sent \in [Apps -> [Greenlets -> Nat]]
    /\ handled \in [Apps -> [Greenlets -> Nat]]

Init ==
    /\ queue = [a \in Apps |-> <<>>]
    /\ active = [a \in Apps |-> TRUE]
    /\ bricks = Apps
    /\ observers = Observes
    /\ at = [g \in Greenlets |-> "idle"]
    /\ cur = [g \in Greenlets |-> None]
    /\ out = [g \in Greenlets |-> None]
    /\ onto = [g \in Greenlets |-> None]
    /\ todo = [g \in Greenlets |-> {}]
    /\ stopping = None
    /\ ops = [c \in Clients |-> 0]
    /\ sent = [a \in Apps |-> [g \in Greenlets |-> 0]]
    /\ handled = [a \in Apps |-> [g \in Greenlets |-> 0]]
-----------------------------------------------------------------------------
(***************************************************************************)
(* Sending.                                                                *)
(***************************************************************************)

\* Mutant: the bound is off by one.
FullLate(q, t) == Len(q[t]) > QCap

\* A put on the queue of t blocks.
Full(q, t) == Len(q[t]) >= QCap

\* Mutant: the loop ends although events are waiting.
LoopTestActive(a, q) == IF active[a] THEN "idle" ELSE "ended"

\* while self.is_active or not self.events.empty()
LoopTest(a, q) == IF active[a] \/ q[a] # <<>> THEN "idle" ELSE "ended"

\* Mutant: requests are not replied to.
Finish_silently(g, h, q) ==
    /\ at' = [at EXCEPT ![g] = IF g \in Apps THEN LoopTest(g, q) ELSE "idle"]
    /\ cur' = [cur EXCEPT ![g] = None]

\* Greenlet g is done with event h, given the queues q: an application replies
\* to a request and goes back to its event loop, a client goes on.
Finish(g, h, q) ==
    /\ at' = [x \in Greenlets |->
                 IF x = g THEN (IF g \in Apps THEN LoopTest(g, q) ELSE "idle")
                 ELSE IF h # None /\ h.kind = "request" /\ h.src = x THEN "replied"
                 ELSE at[x]]
    /\ cur' = [cur EXCEPT ![g] = None]

\* Mutant: a request is sent like any other event.
WaitsStopOnly(e) == e.kind = "stop"

\* The sender of e waits for something: a reply, or the end of the event loop.
Waits(e) == e.kind \in {"request", "stop"}

\* Mutant: a sender that meets a full queue skips the application.
send_event_lossy(g, T, e, q, h) ==
    LET room  == {t \in T : ~ Full(q, t)}
        after == [a \in Apps |-> IF a \in room THEN Append(q[a], e) ELSE q[a]]
    IN  /\ queue' = after
        /\ sent' = [a \in Apps |-> IF a \in T THEN [sent[a] EXCEPT ![g] = @ + 1] ELSE sent[a]]
        /\ out' = [out EXCEPT ![g] = None]
        /\ onto' = [onto EXCEPT ![g] = None]
        /\ todo' = [todo EXCEPT ![g] = {}]
        /\ IF Waits(e)
           THEN at' = [at EXCEPT ![g] = "waiting"] /\ cur' = [cur EXCEPT ![g] = h]
           ELSE Finish(g, h, after)

\* Greenlet g, handling h, sends e to the applications T in some order, given
\* the queues q.  It blocks at the first full queue it comes to.
send_event(g, T, e, q, h) ==
    LET full     == {t \in T : Full(q, t)}
        After(D) == [a \in Apps |-> IF a \in D THEN Append(q[a], e) ELSE q[a]]
        Count(D) == [a \in Apps |-> IF a \in D THEN [sent[a] EXCEPT ![g] = @ + 1] ELSE sent[a]]
    IN  \/ /\ full = {}
           /\ queue' = After(T) /\ sent' = Count(T)
           /\ out' = [out EXCEPT ![g] = None]
           /\ onto' = [onto EXCEPT ![g] = None]
           /\ todo' = [todo EXCEPT ![g] = {}]
           /\ IF Waits(e)
              THEN at' = [at EXCEPT ![g] = "waiting"] /\ cur' = [cur EXCEPT ![g] = h]
              ELSE Finish(g, h, After(T))
        \/ \E f \in full, D \in SUBSET (T \ full) :
              /\ queue' = After(D) /\ sent' = Count(D \cup {f})
              /\ out' = [out EXCEPT ![g] = e]
              /\ onto' = [onto EXCEPT ![g] = f]
              /\ todo' = [todo EXCEPT ![g] = T \ (D \cup {f})]
              /\ at' = [at EXCEPT ![g] = "blocked"]
              /\ cur' = [cur EXCEPT ![g] = h]

\* A greenlet blocked in put() is woken; it goes on with the observers left of
\* its list that can still be addressed.
Unblock(g) ==
    LET f == onto[g]
    IN  /\ at[g] = "blocked" /\ ~ Full(queue, f)
        /\ send_event(g, todo[g] \cap bricks, out[g],
                      [queue EXCEPT ![f] = Append(@, out[g])], cur[g])
        /\ UNCHANGED <<active, bricks, observers, stopping, ops, handled>>

\* A client sends an event or a request; the one to an application that cannot
\* be addressed is lost.
ClientSends(c, a, k) ==
    /\ at[c] = "idle" /\ ops[c] < MaxSends
    /\ ops' = [ops EXCEPT ![c] = @ + 1]
    /\ send_event(c, {a} \cap bricks, Event(c, k), queue, None)
    /\ UNCHANGED <<active, bricks, observers, stopping, handled>>

-----------------------------------------------------------------------------
(***************************************************************************)
(* The event loop of an application.                                       *)
(***************************************************************************)

\* The event loop of a takes event e off its queue, which leaves the queues q.
Takes(a, e, q) ==
    /\ at[a] = "idle" /\ queue[a] # <<>>
    /\ e = Head(queue[a])
    /\ q = [queue EXCEPT ![a] = Tail(@)]
    /\ handled' = [handled EXCEPT ![a][e.src] = @ + 1]
    /\ UNCHANGED <<active, bricks, observers, stopping, ops>>

\* The handler returns; one of a request replies.  The stop event has none.
handler_returns(a, e, q) ==
    /\ queue' = q
    /\ Finish(a, e, q)
    /\ UNCHANGED <<putVars, sent>>

\* The handler sends an event to the observers of a.
send_event_to_observers(a, e, q) ==
    /\ e.kind = "event"
    /\ send_event(a, {b \in bricks : <<a, b>> \in observers}, Event(a, "notice"), q, e)

\* The handler sends a request to b and waits.
send_request(a, b, e, q) ==
    /\ e.kind # "stop"
    /\ <<a, b>> \in Asks
    /\ send_event(a, {b} \cap bricks, Event(a, "request"), q, e)

\* The handler raises: the exception ends the event loop.
handler_raises(a, e, q) ==
    /\ a \in MayRaise /\ e.kind # "stop"
    /\ queue' = q
    /\ at' = [at EXCEPT ![a] = "raised"]
    /\ UNCHANGED <<cur, putVars, sent>>

_event_loop(a) ==
    LET e == Head(queue[a])
        q == [queue EXCEPT ![a] = Tail(@)]
    IN  /\ Takes(a, e, q)
        /\ \/ handler_returns(a, e, q)
           \/ send_event_to_observers(a, e, q)
           \/ \E b \in Apps : send_request(a, b, e, q)
           \/ handler_raises(a, e, q)

\* reply_q.get() returns; the handler of the event, if any, is done.
Resume(g) ==
    /\ at[g] = "replied"
    /\ Finish(g, cur[g], queue)
    /\ UNCHANGED <<busVars, putVars, stopping, ops, sent, handled>>

-----------------------------------------------------------------------------
(***************************************************************************)
(* The manager.                                                            *)
(***************************************************************************)

\* Mutant: the loop is not woken by a stop event.
uninstantiate_silently(a) ==
    /\ MayStop /\ at[Manager] = "idle" /\ a \in bricks
    /\ bricks' = bricks \ {a}
    /\ observers' = {p \in observers : p[2] # a}
    /\ active' = [active EXCEPT ![a] = FALSE]
    /\ stopping' = a
    /\ at' = [at EXCEPT ![Manager] = "waiting"]
    /\ UNCHANGED <<queue, cur, putVars, ops, sent, handled>>

\* uninstantiate() up to the end of stop(): the application can no longer be
\* addressed and observes nothing, its loop is told to stop and joined.  Its
\* own observers stay.
uninstantiate(a) ==
    /\ MayStop /\ at[Manager] = "idle" /\ a \in bricks
    /\ bricks' = bricks \ {a}
    /\ observers' = {p \in observers : p[2] # a}
    /\ active' = [active EXCEPT ![a] = FALSE]
    /\ stopping' = a
    /\ send_event(Manager, {a}, Event(Manager, "stop"), queue, None)
    /\ UNCHANGED <<ops, handled>>

\* hub.joinall() in stop() returns.
joinall ==
    /\ at[Manager] = "waiting" /\ at[stopping] \in {"ended", "raised"}
    /\ at' = [at EXCEPT ![Manager] = "idle"]
    /\ stopping' = None
    /\ UNCHANGED <<busVars, cur, putVars, ops, sent, handled>>

Next ==
    \/ \E p \in Sends : ClientSends(p[1], p[2], "event")
    \/ \E p \in Asks : p[1] \in Clients /\ ClientSends(p[1], p[2], "request")
    \/ \E a \in Apps : _event_loop(a) \/ uninstantiate(a)
    \/ \E g \in Greenlets : Unblock(g) \/ Resume(g)
    \/ joinall

Spec == Init /\ [][Next]_vars

\* The hub runs every greenlet that can run, and wakes in the end a greenlet
\* that can be woken again and again.  Clients owe nothing, and nobody has to
\* stop anything.
Fairness ==
    /\ \A a \in Apps : WF_vars(_event_loop(a))
    /\ \A g \in Greenlets : SF_vars(Unblock(g)) /\ WF_vars(Resume(g))
    /\ WF_vars(joinall)

FairSpec == Spec /\ Fairness

-----------------------------------------------------------------------------
(***************************************************************************)
(* Properties.                                                             *)
(***************************************************************************)

\* The events of g on the queue q of a are numbered from m + 1 to n, in order.
InSequence(q, a, g, m, n) ==
    /\ m <= n
    /\ \A i \in 1 .. Len(q) : q[i].src = g =>
          /\ q[i].n[a] \in m + 1 .. n
          /\ \A j \in 1 .. i - 1 : q[j].src = g => q[j].n[a] < q[i].n[a]
    /\ \A k \in m + 1 .. n : \E i \in 1 .. Len(q) : q[i].src = g /\ q[i].n[a] = k

\* Between two greenlets the bus loses, repeats and reorders nothing: what an
\* application has taken, what is on its queue, in order, and what a blocked
\* put still holds make up what was sent, also across a stop.
NothingLost ==
    \A a \in Apps, g \in Greenlets :
        InSequence(queue[a], a, g, handled[a][g],
                   IF onto[g] = a THEN sent[a][g] - 1 ELSE sent[a][g])

\* A greenlet whose request is queued or being handled is waiting for that
\* reply and nothing else, so the reply cannot be taken for another one.
RequesterWaits ==
    \A a \in Apps :
        /\ \A i \in 1 .. Len(queue[a]) :
              queue[a][i].kind = "request" => at[queue[a][i].src] = "waiting"
        /\ cur[a] # None /\ cur[a].kind = "request" => at[cur[a].src] = "waiting"

\* An event loop that was told to stop ends only when everything that was put
\* on its queue, before or after, has been handled.
EndsDrained ==
    [][\A a \in Apps : at[a] # "ended" /\ at'[a] = "ended" => queue'[a] = <<>>]_vars

\* send_request returns ("block until receiving a reply.  Returns the received
\* reply", its docstring), and deadlock is avoided (ryu_app_api.rst).
RequestReturns ==
    \A g \in Apps \cup Clients : at[g] = "waiting" ~> at[g] # "waiting"

\* Every event sent to an application is handled: its thread "keep[s] draining
\* the receive queue" (ryu_app_api.rst).
EventsHandled ==
    \A a \in Apps, g \in Apps \cup Clients, n \in 1 .. MaxSends :
        sent[a][g] >= n ~> handled[a][g] >= n

\* No handler has raised and nobody stops an application.
Undisturbed == stopping = None /\ \A a \in Apps : at[a] \notin {"raised", "ended"}

\* As long as nothing is raised or stopped, every request returns and every
\* event is handled.
UndisturbedServed == []Undisturbed => RequestReturns /\ EventsHandled

\* stop() returns: the application it stops comes to its end.
StopReturns == stopping # None ~> stopping = None
====
