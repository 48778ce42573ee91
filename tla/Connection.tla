----------------------------- MODULE Connection -----------------------------
(***************************************************************************)
(* What a Datapath (ryu/controller/controller.py) promises, whatever its   *)
(* greenlets do: its life goes HANDSHAKE, CONFIG, MAIN, and to DEAD from   *)
(* anywhere; DEAD is the end.  The switch receives what was accepted for   *)
(* sending, in order and without gaps, perhaps not all of it, and at most  *)
(* one message after the connection was declared dead.                     *)
(***************************************************************************)
EXTENDS Naturals, Sequences

CONSTANT Messages

VARIABLES
    phase,   \* Datapath.state
    log,     \* the messages accepted for sending
    wire,    \* the messages the switch received
    late     \* how many of them after DEAD

vars == <<phase, log, wire, late>>

Init ==
    /\ phase = "handshake"
    /\ log = <<>>
    /\ wire = <<>>
    /\ late = 0

Advance ==
    \/ phase = "handshake" /\ phase' = "config"
    \/ phase = "config" /\ phase' = "main"
    \/ phase' = "dead"
    \/ UNCHANGED phase

Accept == (\E m \in Messages : log' = Append(log, m)) \/ UNCHANGED log

Deliver ==
    \/ UNCHANGED <<wire, late>>
    \/ /\ Len(wire) < Len(log)
       /\ wire' = Append(wire, log[Len(wire) + 1])
       /\ late' = IF phase = "dead" THEN late + 1 ELSE late
       /\ late' <= 1

Next == Advance /\ Accept /\ Deliver

Spec == Init /\ [][Next]_vars
====
