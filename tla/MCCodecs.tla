------------------------------ MODULE MCCodecs ------------------------------
(***************************************************************************)
(* The messages of Codecs, and the hellos that choose the version they     *)
(* are in.  A behaviour is one of Codecs or one of NegotiationCases, the   *)
(* variables of the other stay 0.                                          *)
(***************************************************************************)
EXTENDS Codecs

CONSTANT HelloVersions    \* versions a switch may know

VARIABLES which, sup, hello, chosen

Hello == INSTANCE NegotiationCases WITH Versions <- HelloVersions

helloVars == <<sup, hello, chosen>>
allVars == <<which, vars, helloVars>>

MCInit ==
    \/ which = "codec" /\ Init /\ sup = 0 /\ hello = 0 /\ chosen = 0
    \/ which = "hello" /\ Hello!Init /\ ver = 0 /\ obj = 0 /\ pc = "none" /\ buf = 0 /\ got = 0

MCNext ==
    \/ which = "codec" /\ Next /\ UNCHANGED <<which, helloVars>>
    \/ which = "hello" /\ Hello!Next /\ UNCHANGED <<which, vars>>

MCSpec == MCInit /\ [][MCNext]_allVars

\* Codecs: what is sent is the message the switch expects.
MessageSent == which = "codec" => SentAsLaidOut
\* Codecs: what is read is the message the switch sent.
MessageRead == which = "codec" => ReadAsSent
\* NegotiationCases: the version is the one the switch expects, and no version
\* both know is higher.
VersionAsExpected == which = "hello" => Hello!AsTheSwitchExpects /\ Hello!HighestCommon

============================================================================
