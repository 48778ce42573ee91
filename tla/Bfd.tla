--------------------------------- MODULE Bfd ---------------------------------
(***************************************************************************)
(* Bidirectional forwarding detection (ryu/lib/bfdlib.py): two controllers *)
(* with a session to each other, each behind a switch of its own.  Nothing *)
(* in the library updates _remote_session_state, so demand mode is never   *)
(* honoured and _enable_send stays set.                                    *)
(***************************************************************************)
EXTENDS Naturals, Integers, TLC

CONSTANTS
    Auths,       \* "none", "keyed" (random increments), "meticulous"
    DetectMult,  \* detect_mult: packets missed in a row until the session is over
    MaxFaults,   \* how often something goes wrong
    Foreign      \* sessions of other implementations, which an operator may shut

Nodes == {1, 2}
Other(n) == 3 - n
Window == 3 * DetectMult
Behind == -1

VARIABLES
    auth,        \* _auth_type of both
    sess,        \* each session, see New
    datapath,    \* [switch is connected, session.datapath is set]
    gap,         \* how far _xmit_auth_seq of the other is ahead of _rcv_auth_seq
    air,         \* the packet under way from each, Nothing if there is none
    missed,      \* packets of the other not received, in a row
    link,        \* packets get through
    faults

vars == <<auth, sess, datapath, gap, air, missed, link, faults>>

Nothing == [state |-> "none"]

\* BFDSession.__init__
New(discr) == [discr |-> discr, state |-> "down", peer |-> 0, watch |-> FALSE,
               polling |-> TRUE, final |-> FALSE, known |-> FALSE]

Init ==
    /\ auth \in Auths
    /\ sess = [n \in Nodes |-> New(0)]
    /\ datapath = [n \in Nodes |-> [on |-> FALSE, set |-> FALSE]]
    /\ gap = [n \in Nodes |-> 0]
    /\ air = [n \in Nodes |-> Nothing]
    /\ missed = [n \in Nodes |-> 0]
    /\ link = TRUE
    /\ faults = 0

----------------------------------------------------------------------------
\* add_bfd_session: discr is 0 as long as there is no session.
add_bfd_session(n) ==
    /\ sess[n].discr = 0
    /\ sess' = [sess EXCEPT ![n] = New(1)]
    /\ UNCHANGED <<auth, datapath, gap, air, missed, link, faults>>

\* switch_features_handler: the sessions that exist by then get the datapath.
switch_features_handler(n) ==
    /\ ~ datapath[n].on
    /\ datapath' = [datapath EXCEPT ![n] = [on |-> TRUE, set |-> @.set \/ sess[n].discr # 0]]
    /\ UNCHANGED <<auth, sess, gap, air, missed, link, faults>>

\* BFDPacket: what a packet says of the session.
Packet(n) == [state |-> sess[n].state, my |-> sess[n].discr, your |-> sess[n].peer,
              final |-> sess[n].final, poll |-> sess[n].polling /\ ~ sess[n].final]

\* _send: the authentication sequence number goes on.
Steps == CASE auth = "none" -> {0} [] auth = "keyed" -> {0, 1} [] auth = "meticulous" -> {1}
Further(g, k) == IF g = Behind THEN g ELSE IF g + k > Window THEN Window + 1 ELSE g + k
Sent(n) ==
    /\ sess' = [sess EXCEPT ![n].final = FALSE, ![n].polling = @ /\ ~ sess[n].final]
    /\ \E k \in Steps : gap' = [gap EXCEPT ![Other(n)] = Further(@, k)]

\* _send_loop: a packet that does not get through is missed.  A packet is
\* delivered before the next one is due.
Through(n) == link /\ datapath[n].on /\ datapath[Other(n)].on /\ sess[Other(n)].discr # 0
Miss(n) == missed' = [missed EXCEPT ![n] = IF @ < DetectMult THEN @ + 1 ELSE @]
_send_loop(n) ==
    /\ air[n] = Nothing
    /\ IF sess[n].discr # 0 /\ datapath[n].set THEN Sent(n) ELSE UNCHANGED <<sess, gap>>
    /\ IF sess[n].discr # 0 /\ datapath[n].set /\ Through(n)
       THEN air' = [air EXCEPT ![n] = Packet(n)] /\ UNCHANGED missed
       ELSE Miss(Other(n)) /\ UNCHANGED air
    /\ UNCHANGED <<auth, datapath, link, faults>>

----------------------------------------------------------------------------
\* recv_bfd_pkt: what is discarded
Authentic(n) ==
    auth # "none" /\ sess[n].known =>
        gap[n] # Behind /\ gap[n] <= Window /\ (auth = "meticulous" => gap[n] > 0)
Accepted(n, p) ==
    /\ sess[n].discr # 0
    /\ p.your \in {0, sess[n].discr}
    /\ p.your = 0 => p.state \in {"admin", "down"}
    /\ Authentic(n)

\* _set_state
Set(s, state) == [s EXCEPT !.state = state, !.polling = @ \/ state \in {"down", "up"}]

\* Mutant: a session that is up over there is not answered.
ReactionToInitOnly(s, remote) ==
    CASE s.state \in {"down", "init"} /\ remote = "init" -> Set(s, "up")
      [] s.state = "down" /\ remote = "down" -> Set(s, "init")
      [] s.state \in {"init", "up"} /\ remote = "admin" -> Set(s, "down")
      [] s.state = "up" /\ remote = "down" -> Set(s, "down")
      [] OTHER -> s

\* BFDSession.recv: the state that a packet leads to
Reaction(s, remote) ==
    CASE s.state = "admin" -> s
      [] s.state # "admin" /\ remote = "admin" -> IF s.state = "down" THEN s ELSE Set(s, "down")
      [] s.state = "down" /\ remote = "down" -> Set(s, "init")
      [] s.state = "down" /\ remote = "init" -> Set(s, "up")
      [] s.state = "init" /\ remote \in {"init", "up"} -> Set(s, "up")
      [] s.state = "up" /\ remote = "down" -> Set(s, "down")
      [] OTHER -> s

\* When the session is shut recv returns before it notes a poll or the
\* sequence number, and does not wake up the timeout loop.
Received(s, p) ==
    LET noted == [s EXCEPT !.peer = p.my, !.polling = @ /\ ~ p.final]
        next == Reaction(noted, p.state)
    IN  IF s.state = "admin" THEN noted
        ELSE [next EXCEPT !.watch = TRUE, !.final = @ \/ p.poll, !.known = TRUE]

recv_bfd_pkt(n) ==
    LET p == air[Other(n)]
    IN  /\ p # Nothing
        /\ air' = [air EXCEPT ![Other(n)] = Nothing]
        /\ IF Accepted(n, p)
           THEN /\ sess' = [sess EXCEPT ![n] = Received(@, p)]
                /\ gap' = IF sess[n].state = "admin" THEN gap ELSE [gap EXCEPT ![n] = 0]
                /\ missed' = [missed EXCEPT ![n] = 0]
           ELSE Miss(n) /\ UNCHANGED <<sess, gap>>
        /\ UNCHANGED <<auth, datapath, link, faults>>

\* _recv_timeout_loop, when the wait for a packet ends without one
_recv_timeout_loop(n) ==
    /\ sess[n].watch /\ missed[n] = DetectMult
    /\ sess' = [sess EXCEPT ![n] = [IF @.state \in {"down", "admin"} THEN @ ELSE Set(@, "down")
                                    EXCEPT !.known = FALSE]]
    /\ missed' = [missed EXCEPT ![n] = 0]
    /\ UNCHANGED <<auth, datapath, gap, air, link, faults>>

----------------------------------------------------------------------------
\* The link breaks, the switch is lost, the controller starts anew, the
\* sequence number starts from 0 again, an operator shuts the session of
\* another implementation.
Fault == faults < MaxFaults /\ faults' = faults + 1

Cut == Fault /\ link' = FALSE /\ UNCHANGED <<auth, sess, datapath, gap, air, missed>>
Mend == ~ link /\ link' = TRUE /\ UNCHANGED <<auth, sess, datapath, gap, air, missed, faults>>

Disconnect(n) ==
    /\ Fault /\ datapath[n].on
    /\ datapath' = [datapath EXCEPT ![n].on = FALSE]
    /\ UNCHANGED <<auth, sess, gap, air, missed, link>>

Restart(n) ==
    /\ Fault /\ sess[n].discr # 0
    /\ sess' = [sess EXCEPT ![n] = New(sess[n].discr + 1)]
    /\ datapath' = [datapath EXCEPT ![n] = [on |-> FALSE, set |-> FALSE]]
    /\ \E g \in {Behind, 1, Window + 1} : gap' = [gap EXCEPT ![Other(n)] = g]
    /\ UNCHANGED <<auth, air, missed, link>>

Wrap(n) ==
    /\ Fault /\ auth # "none" /\ gap[Other(n)] # Behind /\ air[n] = Nothing
    /\ gap' = [gap EXCEPT ![Other(n)] = Behind]
    /\ UNCHANGED <<auth, sess, datapath, air, missed, link>>

Shut(n) ==
    /\ Fault /\ n \in Foreign /\ sess[n].discr # 0 /\ sess[n].state # "admin"
    /\ sess' = [sess EXCEPT ![n].state = "admin"]
    /\ UNCHANGED <<auth, datapath, gap, air, missed, link>>

Open(n) ==
    /\ sess[n].state = "admin"
    /\ sess' = [sess EXCEPT ![n].state = "down"]
    /\ UNCHANGED <<auth, datapath, gap, air, missed, link, faults>>

Next ==
    \/ \E n \in Nodes :
          \/ add_bfd_session(n) \/ switch_features_handler(n) \/ _send_loop(n)
          \/ recv_bfd_pkt(n) \/ _recv_timeout_loop(n)
          \/ Disconnect(n) \/ Restart(n) \/ Wrap(n) \/ Shut(n) \/ Open(n)
    \/ Cut \/ Mend

Spec == Init /\ [][Next]_vars

\* Greenlets that are due run, and packets arrive.
FairSpec ==
    /\ Spec
    /\ \A n \in Nodes : WF_vars(_send_loop(n)) /\ WF_vars(recv_bfd_pkt(n)) /\ WF_vars(_recv_timeout_loop(n))

----------------------------------------------------------------------------
\* A session that is up was seen by the other side: if the session it has
\* heard of is the present one over there, that one has heard of it.
UpIsMutual ==
    \A n \in Nodes :
        sess[n].state = "up" /\ sess[n].peer = sess[Other(n)].discr => sess[Other(n)].peer = sess[n].discr

\* Packets get through.  A session that was added after its switch had
\* connected sends nothing; and packets that cross on the link for ever may
\* take both sessions from state to state for ever, which the random part of
\* _xmit_period makes unlikely.
Linked == link /\ \A n \in Nodes : datapath[n].on
Good ==
    /\ Linked /\ \A n \in Nodes : datapath[n].set /\ sess[n].state # "admin"
    /\ Nothing \in {air[1], air[2]}

\* Both sessions are up, and have told each other their parameters.
Established == \A n \in Nodes : sess[n].state = "up" /\ ~ sess[n].polling
NoneUp == \A n \in Nodes : sess[n].state # "up"

============================================================================
