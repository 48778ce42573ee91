----------------------------- MODULE MCServices -----------------------------
(***************************************************************************)
(* Instances of the modules about what applications know of switches,      *)
(* hosts and other controllers: Topology, Network, IgmpSnooper,            *)
(* IgmpQuerier, Lacp, Bfd, Vrrp and Ofctl.  They do not interact: a        *)
(* behaviour is one of one module, the variables of the others stay 0.     *)
(***************************************************************************)
EXTENDS Topology

CONSTANTS
    Modules,                                          \* those that are checked
    NetworkIds, Macs, Keys, MaxCalls,                 \* Network
    Hosts, Routers, Groups, Others, MaxTimers,        \* IgmpSnooper
    MaxConns,                                         \* IgmpQuerier
    Slaves, Srcs, Timeouts, MaxChannel, MaxChanges,   \* Lacp
    Auths, DetectMult, MaxFaults, Foreign,            \* Bfd
    Configs, Changes,                                 \* Vrrp
    None                                              \* Ofctl

\* Topology: one port on one switch, and one or two on the other.
OneAndTwo == <<<<1, 1>>, <<2, 1>>, <<2, 2>>>>
OneAndOne == <<<<1, 1>>, <<2, 1>>>>
FirstPort == {<<1, 1>>}
SecondPort == {<<2, 1>>}

\* Network: a port on each of two switches.
NetworkPorts == {<<1, 1>>, <<2, 1>>}

\* Vrrp: two routers of the same priority, and two of which one was told to be
\* the master first; the requests to change them.
Router(p, m, d, a) == [priority |-> p, preempt |-> m, delay |-> d, admin |-> a]
VersionTwo == [version |-> 2, of |-> <<Router(2, TRUE, FALSE, FALSE), Router(2, TRUE, TRUE, FALSE)>>]
VersionThree == [version |-> 3, of |-> <<Router(2, TRUE, TRUE, FALSE), Router(1, FALSE, FALSE, TRUE)>>]
BothVersions == {VersionTwo, VersionThree}
LastVersion == {VersionThree}
BothChanges == {[priority |-> 255], [preempt |-> TRUE]}
Promotion == {[priority |-> 255]}

\* Ofctl: two requests that expect replies of the same class.
OfctlReqs == {"one", "multi"}
AllStats == [r \in OfctlReqs |-> "stats"]

VARIABLES
    which,
    networks, dpids, switches, mac_addresses, tunnel_keys, remote, netTold, loose, half, calls,
    querier, hosts, flow, members, queries, leaves, heard, rushed, moved,
    conns, states, served, handling, threads, thread, main, mcast, entries, answered, lost, orderly,
    slaves, enabled, slaveTimeout, slaveTold, entry, toCtrl, toSwitch, partner, changes,
    auth, sess, datapath, gap, packets, missed, working, faults,
    version, instance, config, machine, queue, orphan, requests,
    state, identified, reading, xid, sending, chan, others, ofctlEvents, alive, known, xids,
    barriers, results, observing, observers, client, dp, answer, said

Net == INSTANCE Network WITH Ports <- NetworkPorts, told <- netTold
Sn == INSTANCE IgmpSnooper WITH told <- members
Qu == INSTANCE IgmpQuerier WITH events <- states, loop <- handling, datapath <- main,
                            flow <- entries, heard <- answered
La == INSTANCE Lacp WITH Ports <- Slaves, timeout <- slaveTimeout, told <- slaveTold
Bf == INSTANCE Bfd WITH air <- packets, link <- working
Vr == INSTANCE Vrrp WITH Routers <- {1, 2}, env <- requests
Of == INSTANCE Ofctl WITH
          Conns <- {"conn"}, FirstXid <- [c \in {"conn"} |-> 1], MaxXid <- 9, Mortal <- {}, Posting <- FALSE,
          Reqs <- OfctlReqs, ReplyCls <- AllStats, AnswerCls <- AllStats, Dynamic <- {"stats"},
          ReplyMulti <- [r \in OfctlReqs |-> r = "multi"],
          MaxReplies <- 2, MaxOthers <- 1,
          wire <- sending, queue <- ofctlEvents, switches <- known

topologyVars == <<link_discovery, is_active, dps, port_state, ports, order, stamps, links, peer,
                  host, lldp_event, lldp, todo, timeout, link, deleted, batch, events, loop,
                  leaving, told, conn, dying, present, wire, ever, air, env>>
networkVars == <<networks, dpids, switches, mac_addresses, tunnel_keys, remote, netTold, loose,
                 half, calls>>
snooperVars == <<querier, hosts, flow, members, queries, leaves, heard, rushed, moved>>
querierVars == <<conns, states, served, handling, threads, thread, main, mcast, entries, answered,
                 lost, orderly>>
lacpVars == <<slaves, enabled, slaveTimeout, slaveTold, entry, toCtrl, toSwitch, partner, changes>>
bfdVars == <<auth, sess, datapath, gap, packets, missed, working, faults>>
vrrpVars == <<version, instance, config, machine, queue, orphan, requests>>
ofctlVars == <<state, identified, reading, xid, sending, chan, others, ofctlEvents, alive, known,
               xids, barriers, results, observing, observers, client, dp, answer, said>>
servicesVars == <<which, topologyVars, networkVars, snooperVars, querierVars, lacpVars, bfdVars, vrrpVars,
                  ofctlVars>>

NoTopology == link_discovery = 0 /\ is_active = 0 /\ dps = 0 /\ port_state = 0 /\ ports = 0 /\
              order = 0 /\ stamps = 0 /\ links = 0 /\ peer = 0 /\ host = 0 /\ lldp_event = 0 /\
              lldp = 0 /\ todo = 0 /\ timeout = 0 /\ link = 0 /\ deleted = 0 /\ batch = 0 /\
              events = 0 /\ loop = 0 /\ leaving = 0 /\ told = 0 /\ conn = 0 /\ dying = 0 /\
              present = 0 /\ wire = 0 /\ ever = 0 /\ air = 0 /\ env = 0
NoNetwork == networks = 0 /\ dpids = 0 /\ switches = 0 /\ mac_addresses = 0 /\ tunnel_keys = 0 /\
             remote = 0 /\ netTold = 0 /\ loose = 0 /\ half = 0 /\ calls = 0
NoSnooper == querier = 0 /\ hosts = 0 /\ flow = 0 /\ members = 0 /\ queries = 0 /\ leaves = 0 /\
             heard = 0 /\ rushed = 0 /\ moved = 0
NoQuerier == conns = 0 /\ states = 0 /\ served = 0 /\ handling = 0 /\ threads = 0 /\ thread = 0 /\
             main = 0 /\ mcast = 0 /\ entries = 0 /\ answered = 0 /\ lost = 0 /\ orderly = 0
NoLacp == slaves = 0 /\ enabled = 0 /\ slaveTimeout = 0 /\ slaveTold = 0 /\ entry = 0 /\
          toCtrl = 0 /\ toSwitch = 0 /\ partner = 0 /\ changes = 0
NoBfd == auth = 0 /\ sess = 0 /\ datapath = 0 /\ gap = 0 /\ packets = 0 /\ missed = 0 /\
         working = 0 /\ faults = 0
NoVrrp == version = 0 /\ instance = 0 /\ config = 0 /\ machine = 0 /\ queue = 0 /\ orphan = 0 /\
          requests = 0
NoOfctl == state = 0 /\ identified = 0 /\ reading = 0 /\ xid = 0 /\ sending = 0 /\ chan = 0 /\
           others = 0 /\ ofctlEvents = 0 /\ alive = 0 /\ known = 0 /\ xids = 0 /\ barriers = 0 /\
           results = 0 /\ observing = 0 /\ observers = 0 /\ client = 0 /\ dp = 0 /\ answer = 0 /\
           said = 0

\* A step of one module.
Topology(A) ==
    which = "topology" /\ A /\
    UNCHANGED <<which, networkVars, snooperVars, querierVars, lacpVars, bfdVars, vrrpVars, ofctlVars>>
Network(A) ==
    which = "network" /\ A /\
    UNCHANGED <<which, topologyVars, snooperVars, querierVars, lacpVars, bfdVars, vrrpVars, ofctlVars>>
Snooper(A) ==
    which = "snooper" /\ A /\
    UNCHANGED <<which, topologyVars, networkVars, querierVars, lacpVars, bfdVars, vrrpVars, ofctlVars>>
Querier(A) ==
    which = "querier" /\ A /\
    UNCHANGED <<which, topologyVars, networkVars, snooperVars, lacpVars, bfdVars, vrrpVars, ofctlVars>>
Lacp(A) ==
    which = "lacp" /\ A /\
    UNCHANGED <<which, topologyVars, networkVars, snooperVars, querierVars, bfdVars, vrrpVars, ofctlVars>>
Bfd(A) ==
    which = "bfd" /\ A /\
    UNCHANGED <<which, topologyVars, networkVars, snooperVars, querierVars, lacpVars, vrrpVars, ofctlVars>>
Vrrp(A) ==
    which = "vrrp" /\ A /\
    UNCHANGED <<which, topologyVars, networkVars, snooperVars, querierVars, lacpVars, bfdVars, ofctlVars>>
Ofctl(A) ==
    which = "ofctl" /\ A /\
    UNCHANGED <<which, topologyVars, networkVars, snooperVars, querierVars, lacpVars, bfdVars, vrrpVars>>

ServicesInit ==
    /\ which \in Modules
    /\ IF which = "topology" THEN Init ELSE NoTopology
    /\ IF which = "network" THEN Net!Init ELSE NoNetwork
    /\ IF which = "snooper" THEN Sn!Init ELSE NoSnooper
    /\ IF which = "querier" THEN Qu!Init ELSE NoQuerier
    /\ IF which = "lacp" THEN La!Init ELSE NoLacp
    /\ IF which = "bfd" THEN Bf!Init ELSE NoBfd
    /\ IF which = "vrrp" THEN Vr!Init ELSE NoVrrp
    /\ IF which = "ofctl" THEN Of!Init ELSE NoOfctl

ServicesNext ==
    \/ Topology(Next) \/ Network(Net!Next) \/ Snooper(Sn!Next)
    \/ Querier(Qu!Next) \/ Lacp(La!Next)
    \/ Bfd(Bf!Next) \/ Vrrp(Vr!Next) \/ Ofctl(Of!Next)

ServicesSpec == ServicesInit /\ [][ServicesNext]_servicesVars

\* The fairness of the modules.  Their behaviours are apart, so that one
\* condition may be one of each; it is about the variables of that module.
ownVars ==
    CASE which = "topology" -> topologyVars [] which = "network" -> networkVars
      [] which = "snooper" -> snooperVars [] which = "querier" -> querierVars
      [] which = "lacp" -> lacpVars [] which = "bfd" -> bfdVars
      [] which = "vrrp" -> vrrpVars [] which = "ofctl" -> ofctlVars
Due(module, A) == which = module /\ A /\ UNCHANGED which

Fair(i) ==
    /\ WF_ownVars(\/ Due("vrrp", Vr!Handle(i)) \/ Due("bfd", Bf!_send_loop(i)) \/ Due("querier", Qu!Query(i))
                  \/ i = 1 /\ Due("lacp", La!packet_in_handler)
                  \/ i = 2 /\ Due("lacp", La!flow_removed_handler)
                  \/ i = 1 /\ Due("ofctl", Of!Service)
                  \/ i = 2 /\ Due("ofctl", Of!recv_msg("conn"))
                  \/ i = 2 /\ Due("topology", LeavePort))
    /\ WF_ownVars(\/ Due("vrrp", Vr!Fire(i, "adver") \/ Vr!Fire(i, "preempt"))
                  \/ Due("bfd", Bf!recv_bfd_pkt(i)) \/ Due("querier", Qu!Sweep(i))
                  \/ i = 1 /\ Due("lacp", La!FlowAdded)
                  \/ i = 1 /\ Due("ofctl", Of!switch_features_handler("conn"))
                  \/ i = 2 /\ Due("ofctl", Of!multipart_reply_handler("conn"))
                  \/ i = 1 /\ Due("topology", \E n \in 0 .. Len(stamps) : LldpLook(n))
                  \/ i = 2 /\ Due("topology", SendLldp))
    /\ WF_ownVars(\/ Due("vrrp", Vr!Unheard(i) /\ Vr!Fire(i, "down")) \/ Due("bfd", Bf!_recv_timeout_loop(i))
                  \/ i = 1 /\ Due("querier", Qu!state_change_handler)
                  \/ i = 1 /\ Due("ofctl", Of!SwitchAnswers("conn"))
                  \/ i = 1 /\ Due("lacp", La!Lacp(1))
                  \/ i = 2 /\ Due("lacp", \E s \in Srcs : La!Silent(1, s) /\ La!Expire(1, s)))

FairServicesSpec == ServicesSpec /\ \A i \in {1, 2} : Fair(i)

----------------------------------------------------------------------------
\* Topology: the tables of links agree, and with what observers were told;
\* every port of a registered switch is sent LLDP packets of, and lldp_loop
\* overlooks none that is due and never sleeps without end over a new one.
LinksAsFound ==
    which = "topology" =>
        PeerIsLinked /\ ToldIsKnown /\ KnownIsProbed /\ ListedOnce /\ InOrder /\ NoneForgotten

\* What is kept of ports is so.  Network: a port is in the network its packets
\* are isolated in, observers know it, its MAC address leads to it, and no tunnel
\* key is that of two networks.  IgmpSnooper: who reported is served, nothing is
\* left of those who are gone, and observers know it.  IgmpQuerier: the switch
\* forwards to the ports that are listed, and those that answered the last query
\* are.
TablesAsTold ==
    /\ which = "network" => Net!InItsNetwork /\ Net!ToldAsListed /\ Net!MacLeadsBack /\ Net!KeysDiffer
    /\ which = "snooper" => Sn!ReportedIsServed /\ Sn!NothingLeftBehind /\ Sn!ToldAsServed
    /\ which = "querier" => Qu!ServedAsListed /\ Qu!AnsweredIsListed

\* What the protocols know of the other side is so.  Vrrp: no timer is lost
\* between two states of a router, so that a master never falls silent and a
\* backup never waits in vain.  Bfd: a session that is up was seen by the other.
\* Lacp: a slave that is enabled is watched, and observers know its state.
PeersAsKnown ==
    /\ which = "vrrp" => Vr!TimerGoesOn
    /\ which = "bfd" => Bf!UpIsMutual
    /\ which = "lacp" => La!Watched /\ La!ToldTheState

\* Topology: a port that no packet was sent of is sent one of in the end, unless
\* it goes or goes down, and close() ends lldp_loop.
ProbedInTheEnd ==
    /\ \A i \in 1 .. Len(PortSeq) :
          []<>(which = "topology" => ~ Unprobed(PortSeq[i]) \/ ~ is_active \/ Ended)
    /\ []<>(which = "topology" => ~ Closing \/ Ended)

\* Vrrp: the router that has the highest priority, and insists on it, is the
\* master in the end, whatever the requests and the losses before, and where
\* there are routers there is a master, unless a handler waits for its own timer.
HighestIsMaster ==
    <>[](which = "vrrp" /\ Vr!NobodyHangs) => <>[](which = "vrrp" => Vr!HighestRules)

\* What is known of a neighbour follows it.  Bfd: when nothing goes wrong any more
\* both sessions come up and stay so, and the poll sequences end; when packets get
\* lost, the sessions go down.  Lacp: a slave whose partner is dead is disabled in
\* the end, and the one of a partner that lives is enabled again and again.
\* IgmpQuerier: a switch that comes and goes in order, and stays in the end, is
\* asked again and again.
NeighboursFollowed ==
    /\ <>[](which = "bfd" /\ Bf!Good) => <>[](which = "bfd" => Bf!Established)
    /\ <>[](which = "bfd" /\ ~ Bf!Linked) => <>[](which = "bfd" => Bf!NoneUp)
    /\ \A p \in Slaves :
          /\ <>[](which = "lacp" /\ La!Dead(p)) => <>[](which = "lacp" => ~ enabled[p])
          /\ <>[](which = "lacp" /\ La!Living(p)) => []<>(which = "lacp" => enabled[p])
    /\ <>[](which = "querier" /\ Qu!There) => []<>(which = "querier" => Qu!Asking)

\* Ofctl, while no connection ends: a client that waits for an answer gets one,
\* though another request observes the same class of messages.
RequestsReturn == \A r \in OfctlReqs : []<>(which = "ofctl" => client[r] # "waiting")

============================================================================
