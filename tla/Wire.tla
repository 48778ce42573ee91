------------------------------- MODULE Wire -------------------------------
(***************************************************************************)
(* Byte layouts of messages: how the classes of                            *)
(* ryu/ofproto/ofproto_v1_x_parser.py and ryu/lib/packet/ write themselves *)
(* into a buffer and read themselves back, over the struct module and      *)
(* ryu/lib/pack_utils.py.                                                  *)
(*                                                                         *)
(* A byte is a tuple: the class and the field it belongs to, the number it *)
(* encodes (lengths, types and counts, which steer the parsers), and its   *)
(* index in the field.  What an opaque field holds does not matter, only   *)
(* that it is found again, whole, under its own name.                      *)
(*                                                                         *)
(* A struct format is a sequence of widths, padding negative: '!HHIH6x' is *)
(* <<2, 2, 4, 2, -6>>.  A class is a record: the family it is registered   *)
(* in, the fields with a fixed code its parser is found by, the name of    *)
(* its length field, what that length counts, its alignment, and its parts *)
(* in wire order; "order" is the order in which the code writes them.      *)
(* An object is a class name, the objects in each of its parts, and the    *)
(* number of bytes of trailing data.                                       *)
(***************************************************************************)
EXTENDS Integers, Sequences, FiniteSets, SequencesExt, TLC

Zeros(n) == [i \in 1 .. n |-> <<"", "", 0, 0>>]

Bytes(val, w) == [i \in 1 .. w |-> <<val[1], val[2], val[3], i>>]

Num(n) == <<"", "#", n>>

\* utils.round_up
RoundUp(x, y) == ((x + y - 1) \div y) * y

Lesser(a, b) == IF a < b THEN a ELSE b

SumSeq(s) == FoldLeft(LAMBDA a, b : a + b, 0, s)

\* struct.calcsize
CalcSize(fmt) == SumSeq([i \in DOMAIN fmt |-> IF fmt[i] < 0 THEN -fmt[i] ELSE fmt[i]])

\* pack_utils.msg_pack_into: grow the buffer with zeros as far as is needed,
\* then overwrite.
MsgPackInto(buf, off, bytes) ==
    LET grown == buf \o Zeros(off + Len(bytes) - Len(buf))
    IN  [i \in DOMAIN grown |->
            IF i > off /\ i <= off + Len(bytes) THEN bytes[i - off] ELSE grown[i]]

----------------------------------------------------------------------------
\* The parts of a class.

\* A PACK_STR with the SIZE that goes with it.
P(fmt, size) == [fmt |-> fmt, size |-> size]

\* The name of the field at each place of a format, and where a field is.
Fields(fmt, names) ==
    [j \in DOMAIN fmt |-> IF fmt[j] > 0 THEN names[Cardinality({i \in 1 .. j : fmt[i] > 0})] ELSE ""]
Places(fmt, fields) ==
    [n \in ToSet(fields) \ {""} |->
        LET j == CHOOSE j \in DOMAIN fmt : fields[j] = n IN <<CalcSize(SubSeq(fmt, 1, j - 1)), fmt[j]>>]
Layout(fmt, names) ==
    [fmt |-> fmt, fields |-> Fields(fmt, names), at |-> Places(fmt, Fields(fmt, names)), wide |-> CalcSize(fmt)]

Part(k, of, fmt, names, next, abs, by, unit) ==
    [k |-> k, of |-> of, fmt |-> fmt, names |-> names, next |-> next, abs |-> abs, by |-> by, unit |-> unit]

\* Fields packed where the previous part ends; the next part SIZE bytes on.
Fix(p, names) == Part("fix", "", p.fmt, names, p.size, FALSE, "", "")
\* Fields packed where the previous part ends; the next part at offset next,
\* for most messages the SIZE, which counts the header.
Abs(fmt, names, next) == Part("fix", "", fmt, names, next, TRUE, "", "")
Body(p, names) == Abs(p.fmt, names, p.size)
\* Fields packed one after the other without a SIZE: struct.calcsize.
Raw(fmt, names) == Fix(P(fmt, CalcSize(fmt)), names)
\* One object of a family; or the first of all up to the end.
One(of) == Part("one", of, <<>>, <<>>, 0, FALSE, "", "")
First(of) == Part("one", of, <<>>, <<>>, 0, FALSE, "", "first")
\* Objects of a family up to the end of what the length field announces.
Each(of) == Part("each", of, <<>>, <<>>, 0, FALSE, "", "")
\* Objects of a family, as many bytes, or as many objects, as a field says.
EachIn(of, field) == Part("each", of, <<>>, <<>>, 0, FALSE, field, "bytes")
EachOf(of, field) == Part("each", of, <<>>, <<>>, 0, FALSE, field, "count")
\* Bytes up to the end, or to the end of the buffer, or as many as a field
\* says.
Data == Part("data", "", <<>>, <<>>, 0, FALSE, "", "")
DataRest == Part("data", "", <<>>, <<>>, 0, FALSE, "", "rest")
DataIn(field) == Part("data", "", <<>>, <<>>, 0, FALSE, field, "bytes")
\* At most one object, if anything is left.
Opt(of) == Part("each", of, <<>>, <<>>, 0, FALSE, "", "opt")
\* One object if a bit of a field says so.
OptIf(of, field) == Part("each", of, <<>>, <<>>, 0, FALSE, field, "bit")
\* Objects in as many bytes as the whole structure has, counted from where
\* they start instead of from where the structure does.
Over(part) == [part EXCEPT !.unit = "over"]
\* As many bytes of fields as a field says, of which the parser keeps the first.
HeadIn(of, field) == Part("each", of, <<>>, <<>>, 0, FALSE, field, "head")
\* Zeros up to a multiple of 8; if there is anything in the next part.
Pad8 == Part("pad", "", <<>>, <<>>, 0, FALSE, "", "always")
PadTo8 == Part("pad", "", <<>>, <<>>, 0, FALSE, "", "")
\* Objects built in buffers of their own and appended.
App(part) == [part EXCEPT !.abs = TRUE]
\* Data packed at its offset and not appended.
At(part) == [part EXCEPT !.abs = TRUE]

\* pads: whether the padding is written; steps: whether the parser steps over
\* it; adv: the length the code gives every
\* object, if that does not depend on what is in it; grain: trailing data comes
\* in multiples of this; asserts: the codes the parser insists on; raises:
\* whether the parser fails on everything.
Class(fam, consts, lenf, conv, align, parts) ==
    [fam |-> fam, consts |-> consts, lenf |-> lenf, conv |-> conv,
     align |-> align, parts |-> parts, order |-> [i \in DOMAIN parts |-> i],
     base |-> 0, pads |-> TRUE, steps |-> TRUE, adv |-> 0, grain |-> 1,
     asserts |-> <<>>, raises |-> FALSE, dir |-> {"put", "get"}]

\* A structure without a length field, and one that says how long it is.
Struct(fam, parts) == Class(fam, <<>>, "", "whole", 1, parts)
Sized(fam, lenf, parts) == Class(fam, <<>>, lenf, "whole", 1, parts)
\* A type-length-value whose length counts its padding, or does not.
Elem(fam, type, parts) == Class(fam, [type |-> type], "len", "whole", 8, parts)
Prop(fam, type, parts) == Class(fam, [type |-> type], "length", "bare", 8, parts)

\* A message: its parts start behind the header.  MsgBase.serialize writes
\* the header last, from the length the buffer then has.
Msg(type, parts) ==
    [Class("msg", [msg_type |-> type], "msg_len", "whole", 1, parts)
        EXCEPT !.base = 8]
Request(type, parts) == [Msg(type, parts) EXCEPT !.dir = {"put"}]
Reply(type, parts) == [Msg(type, parts) EXCEPT !.dir = {"get"}]
\* A class registered below another by the code of one more field.
Sub(c, field, code) == [c EXCEPT !.consts = @ @@ (field :> code)]
Ordered(c, order) == [c EXCEPT !.order = order]
\* A class registered for several codes, whose parser compares the code with
\* the class attribute: it holds the one registered last.
Asserting(c, field, code) == [c EXCEPT !.asserts = field :> code]
Raising(c) == [c EXCEPT !.raises = TRUE]
ReadOnly(c) == [c EXCEPT !.dir = {"get"}]

\* A version of the protocol: its number, its classes, and the classes of
\* every family.
LaidOut(part) ==
    [k |-> part.k, of |-> part.of, pack |-> Layout(part.fmt, part.names), next |-> part.next,
     abs |-> part.abs, by |-> part.by, unit |-> part.unit]
Version(number, classes) ==
    [version |-> number,
     cls |-> [c \in DOMAIN classes |->
                 [classes[c] EXCEPT !.parts = [i \in DOMAIN @ |-> LaidOut(@[i])]]],
     fam |-> [f \in {classes[c].fam : c \in DOMAIN classes} |->
                 {c \in DOMAIN classes : classes[c].fam = f}]]

----------------------------------------------------------------------------
Parts(V, o) == V.cls[o.cls].parts

\* The size the code takes a structure to have with its padding: rounded up;
\* the remainder added once more; rounded up to the next multiple.
Padded(c, size) ==
    CASE c.conv = "again" -> size + (size % c.align)
      [] c.conv = "next" -> (size \div c.align + 1) * c.align
      [] OTHER -> RoundUp(size, c.align)

\* Where the code takes part i of o to start, from the SIZE constants and the
\* len attributes of the children; and by how much it steps over o.
RECURSIVE Start(_, _, _), Extent(_, _)
Start(V, o, i) ==
    IF i = 1 THEN V.cls[o.cls].base
    ELSE LET p == Parts(V, o)[i - 1]
             before == Start(V, o, i - 1)
         IN  CASE p.k = "fix" -> (IF p.abs THEN 0 ELSE before) + p.next
               [] p.k = "data" -> before + o.data
               [] p.k = "pad" -> IF p.unit = "" /\ o.kids[i] = <<>> THEN before ELSE RoundUp(before, 8)
               [] OTHER -> before + SumSeq([j \in DOMAIN o.kids[i - 1] |->
                                               Extent(V, o.kids[i - 1][j])])
Extent(V, o) ==
    LET c == V.cls[o.cls]
    IN  IF c.adv # 0 THEN c.adv ELSE Padded(c, Start(V, o, Len(o.kids) + 1))

\* The number a length field holds for a structure of the given size, without
\* and with its padding.
Announced(c, size, padded) ==
    CASE c.conv \in {"bare", "kids"} -> size
      [] c.conv = "payload" -> size - 4
      [] OTHER -> padded

DataBytes(o) == Bytes(<<o.cls, "data", 0>>, o.data)

\* The value of a field of o: the length, a code, the size of another part,
\* or its own contents.
FieldVal(V, o, name, len, sizeOf(_)) ==
    LET c == V.cls[o.cls]
        counted == {i \in DOMAIN c.parts : c.parts[i].by = name}
    IN  CASE name = c.lenf -> Num(len)
          [] name \in DOMAIN c.consts -> Num(c.consts[name])
          [] counted # {} ->
                LET i == CHOOSE i \in counted : TRUE
                IN  Num(CASE c.parts[i].unit \in {"count", "bit"} -> Len(o.kids[i])
                          [] c.parts[i].k = "data" -> o.data
                          [] OTHER -> SumSeq([j \in DOMAIN o.kids[i] |-> sizeOf(o.kids[i][j])]))
          [] OTHER -> <<o.cls, name, 0>>

\* struct.pack: the fields in turn, with zeros for the padding.
Pack(pack, vals) ==
    FlattenSeq([j \in DOMAIN pack.fmt |->
        IF pack.fmt[j] < 0 THEN Zeros(-pack.fmt[j]) ELSE Bytes(vals[j], pack.fmt[j])])

\* The arguments of struct.pack: the values of the fields.
Values(pack, val(_)) == [j \in DOMAIN pack.fields |-> val(pack.fields[j])]

Header == Layout(<<1, 1, 2, 4>>, <<"version", "msg_type", "msg_len", "xid">>)

\* Lengths are 16 bits wide: no buffer grows further.
MaxLength == 65535

\* The serialize methods: the parts in the order of the code, each at the
\* offset the code computes, or appended to what there is.
RECURSIVE Put(_, _, _, _), PutMsg(_, _), PutParts(_, _, _, _, _, _), PutKids(_, _, _, _, _)
PutKid(V, buf, at, abs, k) ==
    IF abs /\ V.cls[k.cls].base = 8 THEN buf \o PutMsg(V, k)
    ELSE IF abs THEN buf \o Put(V, <<>>, 0, k)
    ELSE Put(V, buf, at, k)

PutKids(V, buf, at, abs, kids) ==
    IF kids = <<>> \/ Len(buf) > MaxLength THEN buf
    ELSE PutKids(V, PutKid(V, buf, at, abs, Head(kids)), at + Extent(V, Head(kids)), abs, Tail(kids))

PutPart(V, buf, at, after, o, p, kids, len) ==
    LET ext(k) == Extent(V, k)
        val(name) == FieldVal(V, o, name, len, ext)
    IN  CASE p.k = "fix" -> MsgPackInto(buf, at, Pack(p.pack, Values(p.pack, val)))
          [] p.k = "data" /\ p.abs -> MsgPackInto(buf, at, DataBytes(o))
          [] p.k = "data" -> buf \o DataBytes(o)
          [] p.k = "pad" -> MsgPackInto(buf, after, <<>>)
          [] OTHER -> PutKids(V, buf, at, p.abs, kids)

PutParts(V, buf, off, o, len, order) ==
    IF order = <<>> \/ Len(buf) > MaxLength THEN buf
    ELSE LET i == Head(order)
         IN  PutParts(V, PutPart(V, buf, off + Start(V, o, i), off + Start(V, o, i + 1), o,
                                 Parts(V, o)[i], o.kids[i], len), off, o, len, Tail(order))

Put(V, buf, off, o) ==
    LET c == V.cls[o.cls]
        size == Start(V, o, Len(o.kids) + 1)
        body == PutParts(V, buf, off, o, IF c.adv # 0 THEN c.adv ELSE Announced(c, size, Padded(c, size)),
                         c.order)
    IN  IF c.pads /\ c.align > 1 THEN MsgPackInto(body, off + Extent(V, o), <<>>) ELSE body

\* MsgBase.serialize.
PutMsg(V, o) ==
    LET body == Put(V, Zeros(8), 0, o)
        none(k) == 0
        val(name) == IF name = "version" THEN Num(V.version)
                     ELSE FieldVal(V, o, name, Len(body), none)
    IN  MsgPackInto(body, 0, Pack(Header, Values(Header, val)))

\* A message with the header of OpenFlow, or one of another protocol.
Serialized(V, o) == IF V.cls[o.cls].base = 8 THEN PutMsg(V, o) ELSE Put(V, <<>>, 0, o)

----------------------------------------------------------------------------
\* The layout the peer uses: every part right behind the other, padded to
\* the alignment.  It takes the formats and none of the SIZE constants,
\* offsets or orders of the code.

RECURSIVE TrueStart(_, _, _), TrueSize(_, _), Laid(_, _)
TrueStart(V, o, i) ==
    IF i = 1 THEN V.cls[o.cls].base
    ELSE LET p == Parts(V, o)[i - 1]
             before == TrueStart(V, o, i - 1)
         IN  CASE p.k = "fix" -> before + p.pack.wide
               [] p.k = "data" -> before + o.data
               [] p.k = "pad" -> IF p.unit = "" /\ o.kids[i] = <<>> THEN before ELSE RoundUp(before, 8)
               [] OTHER -> before + SumSeq([j \in DOMAIN o.kids[i - 1] |->
                                               TrueSize(V, o.kids[i - 1][j])])
TrueSize(V, o) == RoundUp(TrueStart(V, o, Len(o.kids) + 1), V.cls[o.cls].align)

Laid(V, o) ==
    LET c == V.cls[o.cls]
        size == TrueStart(V, o, Len(o.kids) + 1)
        true(k) == TrueSize(V, k)
        val(name) == IF name = "version" /\ c.base = 8 THEN Num(V.version)
                     ELSE FieldVal(V, o, name, Announced(c, size, TrueSize(V, o)), true)
        part(i) == LET p == c.parts[i]
                   IN  CASE p.k = "fix" -> Pack(p.pack, Values(p.pack, val))
                         [] p.k = "data" -> DataBytes(o)
                         [] p.k = "pad" -> Zeros(TrueStart(V, o, i + 1) - TrueStart(V, o, i))
                         [] OTHER -> FlattenSeq([j \in DOMAIN o.kids[i] |-> Laid(V, o.kids[i][j])])
    IN  (IF c.base = 8 THEN Pack(Header, Values(Header, val)) ELSE <<>>)
        \o FlattenSeq([i \in DOMAIN o.kids |-> part(i)])
        \o Zeros(TrueSize(V, o) - size)

----------------------------------------------------------------------------
\* struct.unpack_from reads no further than the buffer.  A number is read as
\* one only where one was written.
Slice(buf, off, w) == IF off + w <= Len(buf) THEN SubSeq(buf, off + 1, off + w) ELSE <<>>

ReadNum(buf, off, w) ==
    LET s == Slice(buf, off, w)
    IN  IF s # <<>> /\ s = Bytes(Num(s[1][3]), w) THEN s[1][3] ELSE -1

\* The number in a field of a structure at an offset.
NumberAt(buf, off, pack, n) == ReadNum(buf, off + pack.at[n][1], pack.at[n][2])

\* The other fields hold what belongs to them.
OwnBytes(buf, off, cls, pack, numeric) ==
    \A n \in DOMAIN pack.at \ numeric :
        Slice(buf, off + pack.at[n][1], pack.at[n][2]) = Bytes(<<cls, n, 0>>, pack.at[n][2])

\* The class a parser hands the bytes at off to: the one registered with the
\* most codes found there; the one for any code comes last.
FirstPack(c) == IF c.base = 8 THEN Header ELSE c.parts[1].pack

Code(buf, off, c, n) ==
    IF n \in DOMAIN FirstPack(c).at THEN NumberAt(buf, off, FirstPack(c), n)
    ELSE NumberAt(buf, off + 8, c.parts[1].pack, n)

Registered(V, buf, off, cls) ==
    LET c == V.cls[cls]
    IN  \A n \in DOMAIN c.consts : Code(buf, off, c, n) = c.consts[n]

\* Mutant of Dispatch: a class with a type of its own is found before one
\* with a type and a subtype.
DispatchByType(V, buf, off, fam) ==
    LET hits == {cls \in V.fam[fam] : Registered(V, buf, off, cls)}
        codes(cls) == Cardinality(DOMAIN V.cls[cls].consts)
        best == {cls \in hits : \A other \in hits : codes(cls) <= codes(other)}
    IN  CASE Cardinality(V.fam[fam]) = 1 -> CHOOSE cls \in V.fam[fam] : TRUE
          [] Cardinality(best) = 1 -> CHOOSE cls \in best : TRUE
          [] OTHER -> "none"

Dispatch(V, buf, off, fam) ==
    LET hits == {cls \in V.fam[fam] : Registered(V, buf, off, cls)}
        codes(cls) == Cardinality(DOMAIN V.cls[cls].consts)
        best == {cls \in hits : \A other \in hits : codes(other) <= codes(cls)}
    IN  CASE Cardinality(V.fam[fam]) = 1 -> CHOOSE cls \in V.fam[fam] : TRUE
          [] Cardinality(best) = 1 -> CHOOSE cls \in best : TRUE
          [] OTHER -> "none"

Failed == [ok |-> FALSE, o |-> [cls |-> "none", kids |-> <<>>, data |-> 0], next |-> 0]

\* A flow spec with a zero header is padding between specs (_NXFlowSpec.parse).
Skipped(buf, cur, fam) == fam = "NXFlowSpec" /\ Slice(buf, cur, 2) = Zeros(2)

\* The parser methods, at off in a buffer, or a slice of it, that ends at lim:
\* the object, and where the caller looks for the next one.  A loop that would
\* not advance, or an unpack behind the end, is a failure.
RECURSIVE Get(_, _, _, _, _), GetParts(_, _, _, _, _, _, _, _), GetList(_, _, _, _, _, _, _, _)
GetNext(V, buf, cur, end, lim, n, fam, found, g) ==
    IF g.ok /\ g.next > cur
    THEN GetList(V, buf, g.next, end, lim, n, fam, Append(found, g.o))
    ELSE [ok |-> FALSE, kids |-> found, next |-> cur]

GetList(V, buf, cur, end, lim, n, fam, found) ==
    IF cur >= end \/ Len(found) = n THEN [ok |-> TRUE, kids |-> found, next |-> cur]
    ELSE IF Skipped(buf, cur, fam) THEN GetList(V, buf, cur + 2, end, lim, n, fam, found)
    ELSE GetNext(V, buf, cur, end, lim, n, fam, found, Get(V, buf, cur, lim, fam))

\* Where a list of parts ends, where the slice it is read from ends, and how
\* many there are, -1 if the end decides.
ListBounds(p, st, off, end, lim) ==
    LET here(to) == [to |-> to, lim |-> to, n |-> -1]
    IN  CASE p.unit = "over" -> here(Lesser(st.cur + end - off, lim))
          [] p.unit = "bytes" -> here(st.cur + st.nums[p.by])
          [] p.unit \in {"count", "bit"} -> [to |-> end, lim |-> lim, n |-> st.nums[p.by]]
          [] p.unit = "head" -> [to |-> lim, lim |-> lim, n |-> 1]
          [] p.unit = "opt" \/ (p.k = "one" /\ p.unit = "") -> [to |-> end, lim |-> lim, n |-> 1]
          [] OTHER -> [to |-> end, lim |-> lim, n |-> -1]

\* A part read from the buffer: what it adds, and where the next one is.
ReadPart(ok, kids, data, cur) == [ok |-> ok, kids |-> kids, data |-> data, cur |-> cur]

Numeric(c) == {c.lenf} \cup DOMAIN c.consts \cup {c.parts[j].by : j \in DOMAIN c.parts}

FixPart(buf, off, cls, p, st, numeric) ==
    ReadPart(st.cur + p.pack.wide <= Len(buf) /\ OwnBytes(buf, st.cur, cls, p.pack, numeric),
             <<>>, 0, IF p.abs THEN off + p.next ELSE st.cur + p.next)

Numbers(buf, off, pack, numeric) == [n \in DOMAIN pack.at \cap numeric |-> NumberAt(buf, off, pack, n)]

DataPart(buf, cls, st, size) ==
    ReadPart(size >= 0 /\ Slice(buf, st.cur, size) = Bytes(<<cls, "data", 0>>, size), <<>>, size, st.cur + size)

ListPart(p, st, n, list) ==
    CASE p.unit = "first" -> ReadPart(list.ok /\ list.kids # <<>>, SubSeq(list.kids, 1, 1), 0, list.next)
      [] p.unit = "head" -> ReadPart(st.nums[p.by] >= 4 /\ list.ok /\ list.kids # <<>>, list.kids, 0,
                                 st.cur + st.nums[p.by])
      [] OTHER -> ReadPart(list.ok /\ (n >= 0 /\ p.unit # "opt" => Len(list.kids) = n), list.kids, 0, list.next)

ReadList(V, buf, p, st, bounds) ==
    ListPart(p, st, bounds.n, GetList(V, buf, st.cur, bounds.to, bounds.lim, bounds.n, p.of, <<>>))

\* st: the parts read so far, the numbers among their fields, the position.
AddPart(st, part, nums) ==
    [ok |-> part.ok, kids |-> Append(st.kids, part.kids), data |-> st.data + part.data,
     nums |-> nums @@ st.nums, cur |-> part.cur]

GetPart(V, buf, off, end, lim, cls, p, st) ==
    CASE p.k = "fix" -> AddPart(st, FixPart(buf, off, cls, p, st, Numeric(V.cls[cls])),
                                Numbers(buf, st.cur, p.pack, Numeric(V.cls[cls])))
      [] p.k = "pad" -> AddPart(st, ReadPart(TRUE, <<>>, 0, off + RoundUp(st.cur - off, 8)), <<>>)
      [] p.k = "data" ->
            AddPart(st, DataPart(buf, cls, st, CASE p.unit = "" -> end - st.cur
                                                 [] p.unit = "rest" -> lim - st.cur
                                                 [] p.unit = "bytes" -> st.nums[p.by]), <<>>)
      [] OTHER -> AddPart(st, ReadList(V, buf, p, st, ListBounds(p, st, off, end, lim)), <<>>)

GetParts(V, buf, off, end, lim, cls, i, st) ==
    IF i > Len(V.cls[cls].parts) \/ ~st.ok THEN st
    ELSE GetParts(V, buf, off, end, lim, cls, i + 1,
                  GetPart(V, buf, off, end, lim, cls, V.cls[cls].parts[i], st))

\* Where a structure ends, by its length field.
EndOf(c, buf, off, lim, head) ==
    IF c.lenf = "" THEN lim
    ELSE off + (IF c.conv = "payload" THEN 4 ELSE 0) + NumberAt(buf, off, head, c.lenf)

\* The padding of the parts, which some lengths leave out.
KidsPadding(V, kids) ==
    SumSeq([i \in DOMAIN kids |-> SumSeq([j \in DOMAIN kids[i] |->
        TrueSize(V, kids[i][j]) - TrueStart(V, kids[i][j], Len(kids[i][j].kids) + 1)])])

Got(V, buf, off, end, cls, c, st) ==
    [ok |-> /\ st.ok
            /\ ~c.raises
            /\ end <= Len(buf)
            /\ \A n \in DOMAIN c.asserts : Code(buf, off, c, n) = c.asserts[n],
     o |-> [cls |-> cls, kids |-> st.kids, data |-> st.data],
     next |-> LET varying == c.conv = "payload" \/ \E i \in DOMAIN c.parts : c.parts[i].k # "fix"
                  size == CASE c.adv # 0 -> c.adv
                            [] c.conv = "kids" -> st.cur - off - KidsPadding(V, st.kids)
                            [] c.lenf # "" /\ varying /\ c.conv \notin {"again", "next"} -> end - off
                            [] OTHER -> st.cur - off
              IN  off + IF c.steps THEN Padded(c, size) ELSE size]

GetTo(V, buf, off, end, lim, cls, c) ==
    Got(V, buf, off, end, cls, c,
        GetParts(V, buf, off, end, lim, cls, 1,
                 [ok |-> TRUE, kids |-> <<>>, data |-> 0, nums |-> <<>>, cur |-> off + c.base]))

GetAs(V, buf, off, lim, cls, c) == GetTo(V, buf, off, EndOf(c, buf, off, lim, FirstPack(c)), lim, cls, c)

GetOf(V, buf, off, lim, cls) == IF cls = "none" THEN Failed ELSE GetAs(V, buf, off, lim, cls, V.cls[cls])

Get(V, buf, off, lim, fam) == GetOf(V, buf, off, lim, Dispatch(V, buf, off, fam))

============================================================================
