-------------------------------- MODULE Vrrp --------------------------------
(***************************************************************************)
(* Virtual routers (ryu/services/protocols/vrrp): the state machine of     *)
(* router.py, its timers, and the life of an instance in manager.py.  The  *)
(* routers of a group run in controllers of their own, on one LAN.         *)
(*                                                                         *)
(* Every router is an application with an event queue.  A timer is a       *)
(* greenlet that puts an event into it.  To cancel a timer is to wait for  *)
(* its greenlet to end, which a handler may do for ever: the greenlet may  *)
(* wait for room in the queue, which only the handler could make.          *)
(***************************************************************************)
EXTENDS Naturals, Sequences, SequencesExt

CONSTANTS
    Routers,      \* the routers of the group, numbers in the order of their IP addresses
    Configs,      \* what the group may start with: the version, and a configuration each
    Changes,      \* the requests to change one
    MaxQueue,     \* RyuApp.events: hub.Queue(128)
    MaxEnv        \* requests and losses, at most

OWNER == 255      \* VRRP_PRIORITY_ADDRESS_OWNER
RELEASE == 0      \* VRRP_PRIORITY_RELEASE_RESPONSIBILITY
NoPacket == 256
Timers == {"adver", "down", "preempt"}

VARIABLES
    version,    \* of the protocol: 2 or 3
    instance,   \* whether VRRPManager has an instance
    config,     \* [priority, preempt, delay, admin]
    machine,    \* [state, timer, sent, waits]: what the handlers of a router work on
    queue,      \* its events, and behind them those whose senders wait for room
    orphan,     \* whether a timer of an instance that was shut down still runs
    env

vars == <<version, instance, config, machine, queue, orphan, env>>

----------------------------------------------------------------------------
\* Timer.  "off": no greenlet; "run": it waits for the interval; "over": the
\* interval is over, and the event sent, or waiting for room.  A handler that
\* waits for a greenlet in vain does nothing more.

Go(m, new) == IF m.waits THEN m ELSE new

Cancel(m, t) == Go(m, IF t \in m.blocked THEN [m EXCEPT !.waits = TRUE]
                      ELSE [m EXCEPT !.timer[t] = "off"])
Begin(m, t) == Go(m, [m EXCEPT !.timer[t] = "run"])
Start(m, t) == Begin(Cancel(m, t), t)
Running(m, t) == m.timer[t] # "off"

\* send_advertisement and state_change.
Send(m, priority) == Go(m, [m EXCEPT !.sent = priority])
Become(m, state) == Go(m, [m EXCEPT !.state = state])

New == [state |-> "None", timer |-> [t \in Timers |-> "off"], sent |-> NoPacket,
        waits |-> FALSE, blocked |-> {}]

----------------------------------------------------------------------------
\* The state machine: what a router makes of an event.

\* VRRPV2StateBackup._master_down, VRRPV3StateBackup._master_down
MasterDown(m, c) == Start(Become(Cancel(Send(m, c.priority), "preempt"), "Master"), "adver")

\* VRRPV2StateMaster._adver, VRRPV3StateMaster._adver
Adver(m, c) == Start(Send(m, c.priority), "adver")

\* Mutant: the address decides, not the priority.
MasterReceivedByAddress(r, m, c, e) ==
    IF e.priority = RELEASE THEN Adver(m, c)
    ELSE IF c.priority < e.priority \/ r < e.from
         THEN Start(Become(Cancel(m, "adver"), "Backup"), "down")
         ELSE m

\* vrrp_received
MasterReceived(r, m, c, e) ==
    IF e.priority = RELEASE THEN Adver(m, c)
    ELSE IF c.priority < e.priority \/ (c.priority = e.priority /\ r < e.from)
         THEN Start(Become(Cancel(m, "adver"), "Backup"), "down")
         ELSE m

BackupReceived(m, c, e) ==
    IF e.priority = RELEASE THEN Start(m, "down")
    ELSE IF ~ c.preempt \/ c.priority <= e.priority
         THEN Start(IF version = 2 THEN Cancel(m, "preempt") ELSE m, "down")
         ELSE IF c.delay
              THEN Start(IF Running(m, "preempt") THEN m ELSE Start(m, "preempt"), "down")
              ELSE m

\* vrrp_shutdown_request
MasterShutdown(m) == Become(Send(Cancel(m, "adver"), RELEASE), "Initialize")
BackupShutdown(m) == Become(Cancel(Cancel(m, "down"), "preempt"), "Initialize")

\* vrrp_config_change_request
MasterConfig(m, c, e) == IF "priority" \in DOMAIN e.change THEN Adver(Cancel(m, "adver"), c) ELSE m
BackupConfig(m, c, e) ==
    LET owner == "priority" \in DOMAIN e.change /\ c.priority = OWNER
        n == IF owner THEN MasterDown(Cancel(m, "down"), c) ELSE m
    IN  IF {"preempt", "delay"} \cap DOMAIN e.change # {} THEN Cancel(n, "preempt") ELSE n

React(r, m, c, e) ==
    CASE m.state = "Master" /\ e.kind = "adver"     -> Adver(m, c)
      [] m.state = "Master" /\ e.kind = "received"  -> MasterReceived(r, m, c, e)
      [] m.state = "Master" /\ e.kind = "shutdown"  -> MasterShutdown(m)
      [] m.state = "Master" /\ e.kind = "config"    -> MasterConfig(m, c, e)
      [] m.state = "Backup" /\ e.kind \in {"down", "preempt"} -> MasterDown(m, c)
      [] m.state = "Backup" /\ e.kind = "received"  -> BackupReceived(m, c, e)
      [] m.state = "Backup" /\ e.kind = "shutdown"  -> BackupShutdown(m)
      [] m.state = "Backup" /\ e.kind = "config"    -> BackupConfig(m, c, e)
      [] OTHER -> m

\* VRRPRouterV2.start, VRRPRouterV3.start
Started(c) ==
    IF c.priority = OWNER \/ (version = 3 /\ c.admin)
    THEN Start(Become(Send(Become(New, "Initialize"), c.priority), "Master"), "adver")
    ELSE Start(Become(Become(New, "Initialize"), "Backup"), "down")

----------------------------------------------------------------------------
\* RyuApp.send_event.  The kinds of the events that wait for room; who waits
\* sends nothing else.
Beyond(events) == {events[i].kind : i \in MaxQueue + 1 .. Len(events)}
Put(r, e, kinds) ==
    /\ Beyond(queue[r]) \cap kinds = {}
    /\ queue' = [queue EXCEPT ![r] = Append(@, e)]

\* VRRPInterfaceMonitor._parse_received_packet: what a router has sent arrives
\* at the others, unless their monitor is still waiting with the last packet.
Arrives(r, m, events) ==
    [q \in Routers |->
        IF q # r /\ m.sent # NoPacket /\ instance[q] /\ "received" \notin Beyond(events[q])
        THEN Append(events[q], [kind |-> "received", priority |-> m.sent, from |-> r])
        ELSE events[q]]

Advance(r, m, events) ==
    /\ machine' = [machine EXCEPT ![r] = [m EXCEPT !.sent = NoPacket, !.blocked = {}]]
    /\ queue' = Arrives(r, m, events)

Happens == env < MaxEnv /\ env' = env + 1

Init ==
    /\ instance = [r \in Routers |-> FALSE]
    /\ \E c \in Configs : version = c.version /\ config = c.of
    /\ machine = [r \in Routers |-> New]
    /\ queue = [r \in Routers |-> <<>>]
    /\ orphan = [r \in Routers |-> FALSE]
    /\ env = 0

\* VRRPManager.config_request_handler: no instance of this name may be there.
ConfigRequest(r) ==
    /\ ~ instance[r]
    /\ machine[r].state = "None" \/ env < MaxEnv
    /\ env' = IF machine[r].state = "None" THEN env ELSE env + 1
    /\ instance' = [instance EXCEPT ![r] = TRUE]
    /\ Advance(r, Started(config[r]), queue)
    /\ UNCHANGED <<version, config, orphan>>

\* VRRPManager._proxy_event: the request goes to the router.
ShutdownRequest(r) ==
    /\ instance[r]
    /\ Put(r, [kind |-> "shutdown"], {"shutdown", "config"})
    /\ Happens
    /\ UNCHANGED <<version, instance, config, machine, orphan>>

ConfigChangeRequest(r, change) ==
    /\ instance[r]
    /\ Put(r, [kind |-> "config", change |-> change], {"shutdown", "config"})
    /\ Happens
    /\ UNCHANGED <<version, instance, config, machine, orphan>>

\* The interval of a timer is over: TimerEventSender._timeout.
Fire(r, t) ==
    /\ machine[r].timer[t] = "run"
    /\ machine' = [machine EXCEPT ![r].timer[t] = "over"]
    /\ Put(r, [kind |-> t], {})
    /\ UNCHANGED <<version, instance, config, orphan, env>>

\* The timer of an instance that is no more: send_event() looks its router up
\* by name, and may find the one that was created since.
OrphanFires(r) ==
    /\ orphan[r]
    /\ orphan' = [orphan EXCEPT ![r] = FALSE]
    /\ IF instance[r] THEN Len(queue[r]) < MaxQueue /\ Put(r, [kind |-> "down"], {}) ELSE UNCHANGED queue
    /\ UNCHANGED <<version, instance, config, machine, env>>

\* A packet is lost.
Lose(r) ==
    /\ queue[r] # <<>> /\ Last(queue[r]).kind = "received"
    /\ queue' = [queue EXCEPT ![r] = Front(@)]
    /\ Happens
    /\ UNCHANGED <<version, instance, config, machine, orphan>>

\* The router handles an event.
Changed(c, e) ==
    IF e.kind = "config"
    THEN [f \in DOMAIN c |-> IF f \in DOMAIN e.change THEN e.change[f] ELSE c[f]]
    ELSE c

Handle(r) ==
    /\ instance[r] /\ ~ machine[r].waits
    /\ queue[r] # <<>>
    /\ \E c \in {Changed(config[r], Head(queue[r]))} :
        \E m \in {React(r, [machine[r] EXCEPT !.blocked = Beyond(Tail(queue[r]))], c, Head(queue[r]))} :
           /\ config' = [config EXCEPT ![r] = c]
           /\ Advance(r, m, [queue EXCEPT ![r] = Tail(@)])
    /\ UNCHANGED <<version, instance, orphan, env>>

\* VRRPManager._shutdown_loop, after state_change_handler.
Uninstantiate(r) ==
    /\ instance[r] /\ machine[r].state = "Initialize"
    /\ instance' = [instance EXCEPT ![r] = FALSE]
    /\ orphan' = [orphan EXCEPT ![r] = @ \/ machine[r].timer["down"] = "run"]
    /\ machine' = [machine EXCEPT ![r].timer = New.timer]
    /\ queue' = [queue EXCEPT ![r] = <<>>]
    /\ UNCHANGED <<version, config, env>>

Next ==
    \/ \E r \in Routers :
           \/ ConfigRequest(r) \/ Lose(r) \/ ShutdownRequest(r) \/ Handle(r) \/ Uninstantiate(r) \/ OrphanFires(r)
           \/ \E change \in Changes : ConfigChangeRequest(r, change)
           \/ \E t \in Timers : Fire(r, t)

Spec == Init /\ [][Next]_vars

\* A timer that is not started anew is over some day.  Only the timer for
\* the master going down may be started anew again and again, by the packets
\* of a master that the router respects.
Respected(q, r) ==
    /\ machine[q].state = "Master"
    /\ ~ config[r].preempt \/ config[r].delay \/ config[r].priority <= config[q].priority
Unheard(r) == \A q \in Routers \ {r} : ~ Respected(q, r)

Fairness ==
    \A r \in Routers :
        /\ WF_vars(Handle(r))
        /\ WF_vars(Fire(r, "adver") \/ Fire(r, "preempt"))
        /\ WF_vars(Unheard(r) /\ Fire(r, "down"))

FairSpec == Spec /\ Fairness

----------------------------------------------------------------------------
Coming(r, t) == machine[r].timer[t] = "run" \/ [kind |-> t] \in {queue[r][i] : i \in DOMAIN queue[r]}

\* A master that handles events never falls silent, and a backup never stops
\* waiting for its master to go down: the timer runs, or its event is to come.
\* No timer is started by one state and lost by another.
TimerGoesOn ==
    \A r \in Routers :
        instance[r] /\ ~ machine[r].waits =>
            /\ machine[r].state = "Master" => Coming(r, "adver")
            /\ machine[r].state = "Backup" => Coming(r, "down")

\* The router that has the highest priority, and insists on it, is the master;
\* and where there are routers, there is a master.
Up(r) == instance[r] /\ machine[r].state \in {"Master", "Backup"}
Highest(r) == Up(r) /\ \A q \in Routers \ {r} : Up(q) => config[q].priority < config[r].priority
HighestRules ==
    /\ \A r \in Routers : Highest(r) /\ config[r].preempt => machine[r].state = "Master"
    /\ (\E r \in Routers : Up(r)) => \E r \in Routers : Up(r) /\ machine[r].state = "Master"
NobodyHangs == \A r \in Routers : ~ machine[r].waits

============================================================================
