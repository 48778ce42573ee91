------------------------------ MODULE Network -------------------------------
(***************************************************************************)
(* Tenant networks (ryu/controller/network.py) and the keys and ports of   *)
(* their tunnels (ryu/controller/tunnels.py).  The REST applications call  *)
(* their methods, and the handlers for what happens to switches.  A method *)
(* that raises an exception may have done a part of its work.              *)
(***************************************************************************)
EXTENDS Naturals, FiniteSets, Functions, TLC

CONSTANTS
    NetworkIds,    \* network ids
    Ports,         \* ports <<dpid, port_no>>
    Macs,          \* MAC addresses
    Keys,          \* tunnel keys
    MaxCalls       \* calls, at most

Unknown == "NW_ID_UNKNOWN"
NoMac == "no mac"
Dpids == {p[1] : p \in Ports}

VARIABLES
    networks,      \* Networks: network_id -> set of ports
    dpids,         \* DPIDs: port -> [network_id, mac_address]
    switches,      \* the keys of DPIDs
    mac_addresses, \* MacAddresses: the <<network_id, mac_address, port>>
    tunnel_keys,   \* TunnelKeys: network_id -> key
    remote,        \* tunnels.DPIDs: port -> remote dpid
    told,          \* the <<network_id, port>> of EventNetworkPort
    loose,         \* ports that a switch deleted, whose network was removed, or that were
                   \* removed from another network than theirs
    half,          \* ports that a call raised an exception over half way
    calls

tables == <<networks, dpids, switches, mac_addresses, told, loose, half>>
vars == <<tables, tunnel_keys, remote, calls>>

Init ==
    /\ networks = <<>> /\ dpids = <<>> /\ switches = {} /\ mac_addresses = {}
    /\ tunnel_keys = <<>> /\ remote = <<>>
    /\ told = {} /\ loose = {} /\ half = {}
    /\ calls = 0

Call == calls < MaxCalls /\ calls' = calls + 1
Port(n, m) == [network_id |-> n, mac_address |-> m]
Known(n) == n # Unknown
NetworkOf(p) == IF p \in DOMAIN dpids THEN dpids[p].network_id ELSE Unknown

----------------------------------------------------------------------------
\* Network: what the methods do when they do not raise an exception first.

\* create_network and update_network
create_network(n) ==
    /\ n \notin DOMAIN networks
    /\ networks' = n :> {} @@ networks
    /\ UNCHANGED <<dpids, switches, mac_addresses, told, loose, half>>

\* The ports keep the id of the network.
remove_network(n) ==
    /\ n \in DOMAIN networks
    /\ networks' = Restrict(networks, DOMAIN networks \ {n})
    /\ told' = {t \in told : t[1] # n}
    /\ loose' = loose \cup {p \in DOMAIN dpids : dpids[p].network_id = n}
    /\ UNCHANGED <<dpids, switches, mac_addresses, half>>

\* _update_port: the port is added to the network before it is removed from
\* the one it was in, which may not be there any more.
_update_port(n, p, may_exist) ==
    LET before == NetworkOf(p)
        move == before # n
    IN  /\ n \in DOMAIN networks
        /\ p \in networks[n] \/ Known(before) => may_exist
        /\ IF move /\ Known(before) /\ before \notin DOMAIN networks
           THEN /\ networks' = [networks EXCEPT ![n] = @ \cup {p}]
                /\ half' = half \cup {p}
                /\ UNCHANGED <<dpids, switches, told>>
           ELSE /\ networks' = [m \in DOMAIN networks |->
                                    IF m = n /\ move THEN networks[m] \cup {p}
                                    ELSE IF m = before /\ move THEN networks[m] \ {p} ELSE networks[m]]
                /\ dpids' = p :> Port(n, IF p \in DOMAIN dpids THEN dpids[p].mac_address ELSE NoMac) @@ dpids
                /\ switches' = switches \cup {p[1]}
                /\ told' = IF move THEN (told \ {<<before, p>>}) \cup {<<n, p>>} ELSE told
                /\ UNCHANGED half
        /\ UNCHANGED <<mac_addresses, loose>>

\* remove_port.  The network may have been removed before.
remove_port(n, p) ==
    /\ p[1] \in switches
    /\ dpids' = Restrict(dpids, DOMAIN dpids \ {p})
    /\ networks' = [m \in DOMAIN networks |-> IF m = n THEN networks[m] \ {p} ELSE networks[m]]
    /\ told' = told \ {<<n, p>>}
    /\ mac_addresses' = IF p \in DOMAIN dpids /\ dpids[p].network_id = n
                        THEN mac_addresses \ {<<n, dpids[p].mac_address, p>>} ELSE mac_addresses
    /\ loose' = IF NetworkOf(p) \in {n, Unknown} THEN loose ELSE loose \cup {p}
    /\ UNCHANGED <<switches, half>>

\* DPIDs._set_mac does not raise PortNotFound.
MaySet(n, p) == p \in DOMAIN dpids /\ dpids[p].network_id \in {n, Unknown}

\* create_mac: the address is entered first.
create_mac(n, p, mac) ==
    /\ mac_addresses' = mac_addresses \cup {<<n, mac, p>>}
    /\ IF MaySet(n, p) /\ dpids[p].mac_address = NoMac
       THEN dpids' = [dpids EXCEPT ![p] = Port(n, mac)] /\ UNCHANGED half
       ELSE half' = half \cup {p} /\ UNCHANGED dpids
    /\ UNCHANGED <<networks, switches, told, loose>>

\* update_mac
update_mac(n, p, mac) ==
    /\ p \in DOMAIN dpids
    /\ IF dpids[p].mac_address = NoMac
       THEN MaySet(n, p) /\ dpids' = [dpids EXCEPT ![p] = Port(n, mac)]
       ELSE dpids[p].mac_address = mac /\ UNCHANGED dpids
    /\ mac_addresses' = mac_addresses \cup {<<n, mac, p>>}
    /\ UNCHANGED <<networks, switches, told, loose, half>>

\* port_added
port_added(p) ==
    /\ p \notin DOMAIN dpids
    /\ dpids' = p :> Port(Unknown, NoMac) @@ dpids
    /\ switches' = switches \cup {p[1]}
    /\ UNCHANGED <<networks, mac_addresses, told, loose, half>>

\* add_datapath for a switch without ports.
add_datapath(d) ==
    /\ d \notin switches
    /\ switches' = switches \cup {d}
    /\ UNCHANGED <<networks, dpids, mac_addresses, told, loose, half>>

\* port_deleted: networks and mac_addresses keep the port.
port_deleted(p) ==
    /\ p \in DOMAIN dpids
    /\ dpids' = Restrict(dpids, DOMAIN dpids \ {p})
    /\ loose' = loose \cup {p}
    /\ UNCHANGED <<networks, switches, mac_addresses, told, half>>

----------------------------------------------------------------------------
\* Tunnels.

\* TunnelKeys.register_key and update_key
register_key(n, key) ==
    /\ n \notin DOMAIN tunnel_keys
    /\ \A m \in DOMAIN tunnel_keys : tunnel_keys[m] # key
    /\ tunnel_keys' = n :> key @@ tunnel_keys

delete_key(n) ==
    /\ n \in DOMAIN tunnel_keys
    /\ tunnel_keys' = Restrict(tunnel_keys, DOMAIN tunnel_keys \ {n})

\* DPIDs.add_remote_dpid and update_remote_dpid
register_port(p, d) ==
    /\ p \notin DOMAIN remote
    /\ remote' = p :> d @@ remote

delete_port(p) ==
    /\ p \in DOMAIN remote
    /\ remote' = Restrict(remote, DOMAIN remote \ {p})

Tenants ==
    \/ \E n \in NetworkIds : create_network(n) \/ remove_network(n)
    \/ \E n \in NetworkIds, p \in Ports :
           \/ remove_port(n, p)
           \/ \E may_exist \in BOOLEAN : _update_port(n, p, may_exist)
           \/ \E mac \in Macs : create_mac(n, p, mac) \/ update_mac(n, p, mac)
    \/ \E p \in Ports : port_added(p) \/ port_deleted(p)
    \/ \E d \in Dpids : add_datapath(d)

Tunnels ==
    \/ /\ \E n \in NetworkIds : delete_key(n) \/ \E key \in Keys : register_key(n, key)
       /\ UNCHANGED remote
    \/ /\ \E p \in Ports : delete_port(p) \/ \E d \in Dpids : register_port(p, d)
       /\ UNCHANGED tunnel_keys

Next ==
    /\ Call
    /\ \/ Tenants /\ UNCHANGED <<tunnel_keys, remote>>
       \/ Tunnels /\ UNCHANGED tables

Spec == Init /\ [][Next]_vars

----------------------------------------------------------------------------
\* What the network tables say of a port agrees, and with what observers were
\* told, as long as its switch did not delete it, its network was not removed
\* and no call raised an exception half way: it is in one network at most, the
\* one that isolates its packets (same_network).
InItsNetwork ==
    \A n \in DOMAIN networks, p \in Ports \ (loose \cup half) :
        p \in networks[n] => NetworkOf(p) = n

ToldAsListed ==
    \A n \in NetworkIds, p \in Ports \ half :
        <<n, p>> \in told <=> n \in DOMAIN networks /\ p \in networks[n]

\* The address of a port is the one that leads to it.
MacLeadsBack ==
    \A p \in DOMAIN dpids : dpids[p].mac_address # NoMac =>
        \E n \in NetworkIds : <<n, dpids[p].mac_address, p>> \in mac_addresses

\* No two networks share a tunnel key, so that packets from a tunnel stay in
\* their network.
KeysDiffer ==
    \A m, n \in DOMAIN tunnel_keys : tunnel_keys[m] = tunnel_keys[n] => m = n

============================================================================
