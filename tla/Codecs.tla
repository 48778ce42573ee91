------------------------------- MODULE Codecs -------------------------------
(***************************************************************************)
(* Messages between the controller and a switch, in every version of the   *)
(* protocol the controller speaks, and packets of the protocols in         *)
(* Packets.  The controller serializes a message, or the switch lays one   *)
(* out and the controller parses it.                                       *)
(***************************************************************************)
EXTENDS Wire

CONSTANTS Versions,    \* the versions, and the other protocols, to check
          Depth        \* how deep objects nest inside a message

V10 == INSTANCE OFP10
V12 == INSTANCE OFP12
V13 == INSTANCE OFP13
V14 == INSTANCE OFP14
V15 == INSTANCE OFP15
Pk == INSTANCE Packets

Protocols == 1 :> V10!Protocol @@ 3 :> V12!Protocol @@ 4 :> V13!Protocol
             @@ 5 :> V14!Protocol @@ 6 :> V15!Protocol
             @@ 132 :> Pk!Sctp @@ 3784 :> Pk!Bfd @@ 34825 :> Pk!Slow

VARIABLES ver,    \* the version negotiated
          obj,    \* the message
          pc,     \* "made", "sent" by the controller, "arrived" from the switch, "read"
          buf,    \* the bytes on the wire
          got     \* what the parser made of them

vars == <<ver, obj, pc, buf, got>>

----------------------------------------------------------------------------
\* The messages: the smallest of every class, and then each part of it in
\* turn empty, with every member of its family, alone and before another.

RECURSIVE Smallest(_, _), Variants(_, _, _)
Member(V, fam) == CHOOSE cls \in V.fam[fam] :
                      \A other \in V.fam[fam] : Len(V.cls[cls].parts) <= Len(V.cls[other].parts)

Smallest(V, cls) ==
    [cls |-> cls, data |-> 0,
     kids |-> [i \in DOMAIN V.cls[cls].parts |->
                  LET p == V.cls[cls].parts[i]
                  IN  IF p.k = "one" THEN <<Smallest(V, Member(V, p.of))>> ELSE <<>>]]

Variants(V, cls, depth) ==
    LET c == V.cls[cls]
        small == Smallest(V, cls)
        sizes == IF \E i \in DOMAIN c.parts : c.parts[i].k = "data"
                 THEN {0, 3 * c.grain, c.adv} ELSE {0}
        members(fam) == UNION {Variants(V, m, depth - 1) : m \in V.fam[fam]}
        choices(p) ==
            CASE p.k = "one" -> {<<m>> : m \in members(p.of)}
              [] p.k = "each" /\ p.unit \in {"opt", "bit"} -> {<<>>} \cup {<<m>> : m \in members(p.of)}
              [] p.k = "each" -> {<<>>} \cup {<<m, Smallest(V, Member(V, p.of))>> : m \in members(p.of)}
                                 \cup (IF depth = Depth THEN {<<m>> : m \in members(p.of)} ELSE {})
              [] OTHER -> {<<>>}
    IN  IF depth = 0 THEN {small}
        ELSE {[small EXCEPT !.data = n] : n \in sizes}
             \cup UNION {{[small EXCEPT !.kids[i] = ks, !.data = n] :
                             ks \in choices(c.parts[i]), n \in sizes} : i \in DOMAIN c.parts}

RECURSIVE Can(_, _, _)
Can(V, o, dir) ==
    /\ dir \in V.cls[o.cls].dir
    /\ \A i \in DOMAIN o.kids : \A j \in DOMAIN o.kids[i] : Can(V, o.kids[i][j], dir)

Nothing == [ok |-> FALSE, o |-> [cls |-> "", kids |-> <<>>, data |-> 0]]

Messages(V) == UNION {Variants(V, cls, Depth) : cls \in V.fam["msg"]}

Init ==
    /\ ver \in Versions
    /\ obj \in Messages(Protocols[ver])
    /\ pc = "made"
    /\ buf = <<>>
    /\ got = Nothing

\* Datapath.send_msg, Packet.serialize: the controller serializes its message.
Serialize(V) ==
    /\ pc = "made"
    /\ Can(V, obj, "put") = TRUE
    /\ buf' = Serialized(V, obj)
    /\ pc' = "sent"
    /\ UNCHANGED <<ver, obj, got>>

\* The switch sends the message.
Arrive(V) ==
    /\ pc = "made"
    /\ Can(V, obj, "get") = TRUE
    /\ buf' = Laid(V, obj)
    /\ pc' = "arrived"
    /\ UNCHANGED <<ver, obj, got>>

\* ofproto_parser.msg: the class registered for the version and the type
\* parses the message; Packet._parser calls the parser of the protocol.
Parse(V) ==
    /\ pc = "arrived"
    /\ LET g == Get(V, buf, 0, Len(buf), "msg")
       IN  got' = [ok |-> g.ok, o |-> g.o]
    /\ pc' = "read"
    /\ UNCHANGED <<ver, obj, buf>>

Step(V) == Serialize(V) \/ Arrive(V) \/ Parse(V)
Next == Step(Protocols[ver])

Spec == Init /\ [][Next]_vars

----------------------------------------------------------------------------
RECURSIVE Within(_)
Within(o) == {o} \cup UNION {Within(k) : k \in UNION {ToSet(o.kids[i]) : i \in DOMAIN o.kids}}

\* OFPPacketOut appends the data where the actions end and packs its own
\* fields afterwards: without actions they cover the data.
Overwritten(o) ==
    \E x \in Within(o) : x.cls = "OFPPacketOut" /\ x.kids[2] = <<>> /\ x.data > 0

\* A parser that fails on a class, or on all but one of the codes it is
\* registered for.
Refused(V, o) ==
    \E x \in Within(o) :
        LET c == V.cls[x.cls]
        IN  c.raises \/ \E n \in DOMAIN c.asserts : c.asserts[n] # c.consts[n]

\* A class that takes all its objects to have one size, or that computes its
\* padding wrongly, steps over some of them wrongly: what follows is written,
\* and looked for, in the wrong place.
Misstepped(V, o) ==
    \E x \in Within(o) :
        LET c == V.cls[x.cls]
        IN  \/ c.adv # 0 /\ TrueSize(V, x) > c.adv
            \/ c.conv \in {"again", "next"} /\ Extent(V, x) # TrueSize(V, x)

\* A list read with the length of the whole structure runs into the structure
\* that follows; one that leaves out the padding of its members falls short.
Overread(V, o) ==
    \E x \in Within(o) : \E i \in DOMAIN x.kids : \E j \in DOMAIN x.kids[i] :
        LET k == x.kids[i][j]
        IN  \/ /\ j < Len(x.kids[i])
               /\ \E p \in ToSet(V.cls[k.cls].parts) : p.unit = "over"
            \/ /\ V.cls[x.cls].conv = "kids"
               /\ TrueSize(V, k) # TrueStart(V, k, Len(k.kids) + 1)

\* Of a match in a Nicira message the parser keeps the header of the first
\* field, and fails if there is none; NXActionLearn takes all of the message
\* that follows for its own.
Curtailed(V, o) ==
    \E x \in Within(o) :
        \/ \E i \in DOMAIN x.kids : Parts(V, x)[i].unit = "head" /\ Len(x.kids[i]) # 1
        \/ \E p \in ToSet(Parts(V, x)) : p.unit = "rest"

\* Actions that count their padding and leave writing it to what follows: it
\* is missing where nothing follows that is packed at an offset.
Unpadded(V, o) ==
    \E x \in Within(o) : \E i \in DOMAIN x.kids : \E j \in DOMAIN x.kids[i] :
        LET k == x.kids[i][j]
        IN  /\ ~V.cls[k.cls].pads
            /\ TrueSize(V, k) # TrueStart(V, k, Len(k.kids) + 1)
            /\ x.cls # "OFPInstructionActions"

\* A chunk of SCTP is as long as its length says to the parser, which takes
\* the padding of a chunk of any other length for the next one.
Unstepped(V, o) ==
    \E x \in Within(o) :
        ~V.cls[x.cls].steps /\ TrueSize(V, x) # TrueStart(V, x, Len(x.kids) + 1)

\* What the controller sends is, byte for byte, the message the switch
\* expects: the fields in their places, every length what follows.
SentRight(V) == ~Overwritten(obj) /\ ~Misstepped(V, obj) /\ ~Unpadded(V, obj) => buf = Laid(V, obj)
SentAsLaidOut == pc = "sent" => SentRight(Protocols[ver])

\* What the switch sent is what the application gets.
ReadRight(V) ==
    ~Refused(V, obj) /\ ~Misstepped(V, obj) /\ ~Overread(V, obj) /\ ~Curtailed(V, obj) /\ ~Unstepped(V, obj)
        => got = [ok |-> TRUE, o |-> obj]
ReadAsSent == pc = "read" => ReadRight(Protocols[ver])

============================================================================
