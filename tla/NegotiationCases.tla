-------------------------- MODULE NegotiationCases --------------------------
(***************************************************************************)
(* Every hello a switch can send to every controller, and the answer.      *)
(***************************************************************************)
EXTENDS Negotiation

CONSTANT Versions    \* versions a switch may know, more than the controller

VARIABLES sup, hello, chosen

vars == <<sup, hello, chosen>>

\* A hello of the parsers for 1.0 and 1.2 has no elements.
Hellos ==
    [version : _versions, elements : {{}}]
    \cup [version : {v \in _versions : v >= 4}, elements : {{b} : b \in SUBSET Versions}]

NotAnswered == 255

Init ==
    /\ sup \in SUBSET _versions \ {{}}
    /\ hello \in Hellos
    /\ chosen = NotAnswered

hello_handler ==
    /\ chosen = NotAnswered
    /\ chosen' = VersionChosen(sup, hello)
    /\ UNCHANGED <<sup, hello>>

Next == hello_handler

Spec == Init /\ [][Next]_vars

Answered == chosen # NotAnswered

Succeeded == Answered /\ chosen # NoVersion

\* The version a switch that saw no bitmap of ours expects, by the comment in
\* hello_handler: the smaller of the two header versions, or its highest that
\* is not above ours.  The hello succeeds exactly when that version is one of
\* ours, and with that version.
AsTheSwitchExpects ==
    LET expected == IF hello.elements = {} THEN {Smaller(hello.version, OwnVersion(sup))}
                    ELSE {v \in negotiated_versions(sup, hello) :
                             \A w \in negotiated_versions(sup, hello) : w <= v}
    IN  Answered => IF expected \subseteq sup /\ expected # {}
                    THEN chosen \in expected
                    ELSE chosen = NoVersion

\* A switch that sent a bitmap never gets a version it did not list, and none
\* of the versions both ends know is higher than the one used.
HighestCommon ==
    Succeeded /\ hello.elements # {} =>
        /\ chosen \in switch_versions(hello) \cap sup
        /\ \A v \in switch_versions(hello) \cap sup : v <= chosen

\* The comment in hello_handler: when the version of the specification cannot
\* be used, "use max(usable_versions) with the hope that the switch is able to
\* understand lower version".
UsesLowerVersion ==
    Answered /\ hello.elements = {} /\ usable_versions(sup, hello) # {} => chosen # NoVersion

\* The specification as quoted in hello_handler: as the controller sends no
\* bitmap, "the negotiated version must be the smaller of the version number
\* that was sent and the one that was received", for a switch whose header
\* version is the highest it lists.
SmallerOfBoth ==
    Succeeded /\ (hello.elements # {} => hello.version = Highest(switch_versions(hello)))
        => chosen = Smaller(hello.version, OwnVersion(sup))
====
