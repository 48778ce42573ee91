---------------------------- MODULE Negotiation ----------------------------
(***************************************************************************)
(* The choice of the OpenFlow version in OFPHandler.hello_handler          *)
(* (ryu/controller/ofp_handler.py).                                        *)
(*                                                                         *)
(* sup is datapath.supported_ofp_version, not empty.  A hello message h    *)
(* has a version, the one of its header, and a set of elements, each the   *)
(* set of versions of one version bitmap; a hello without elements has     *)
(* none.  Versions are the numbers on the wire: 1 is OpenFlow 1.0, 3 is    *)
(* 1.2, 4 is 1.3 and so on; 2, OpenFlow 1.1, has no parser.                *)
(***************************************************************************)
EXTENDS Naturals, FiniteSets

\* The versions the controller has a parser for.
_versions == {1, 3, 4, 5, 6}

\* No version was found: the hello fails.
NoVersion == 0

Highest(S) == CHOOSE v \in S : \A w \in S : w <= v

Smaller(v, w) == IF v <= w THEN v ELSE w

\* The version in the header of the controller's own hello, OFP_VERSION.
OwnVersion(sup) == Highest(sup)

switch_versions(h) == UNION h.elements

usable_versions(sup, h) ==
    IF h.elements # {} THEN switch_versions(h) \cap sup
                       ELSE {v \in sup : v <= h.version}

\* What the switch takes for negotiated: it has not seen a bitmap.
negotiated_versions(sup, h) == {v \in switch_versions(h) : v <= OwnVersion(sup)}

\* Mutant: the comment's version, the highest usable one.
VersionUsable(sup, h) ==
    LET usable == usable_versions(sup, h)
    IN  IF usable = {} THEN NoVersion ELSE Highest(usable)

\* Mutant: what the switch takes for negotiated is not looked up in sup.
VersionNegotiated(sup, h) ==
    IF usable_versions(sup, h) = {} THEN NoVersion
    ELSE IF h.elements = {} THEN Smaller(h.version, OwnVersion(sup))
    ELSE Highest(negotiated_versions(sup, h))

\* The version hello_handler sets, or NoVersion when it answers with
\* OFPET_HELLO_FAILED.
VersionChosen(sup, h) ==
    LET usable     == usable_versions(sup, h)
        negotiated == negotiated_versions(sup, h)
        expected   == IF h.elements = {} THEN Smaller(h.version, OwnVersion(sup))
                      ELSE IF negotiated = {} THEN Highest(usable)
                      ELSE Highest(negotiated)
    IN  IF usable = {} \/ Highest(usable) # expected
        THEN NoVersion
        ELSE Highest(usable)
====
