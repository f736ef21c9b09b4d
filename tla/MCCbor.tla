------------------------------- MODULE MCCbor -------------------------------
(***************************************************************************)
(* Items for Cbor: every nesting of short lists two deep, and lists        *)
(* around them to depth four; integers at the limits of every width;       *)
(* strings whole and in pieces; the records of the probes; and heads that  *)
(* promise more than any buffer holds.  And structs of three indices, each *)
(* unused, required, optional, tagged or an enum, written by one version   *)
(* of a program and read by all that may; and structs of 24 fields.        *)
(***************************************************************************)
EXTENDS Derive

Zero == [k |-> "int", m |-> UNSIGNED, n |-> <<>>]
Lists(kids, mapkids) ==
  [k : {"list", "open"}, m : {ARRAY}, kids : kids]
    \union [k : {"list", "open"}, m : {MAP}, kids : mapkids]
Tags(S) == [k : {"tag"}, n : {<<1>>}, kid : S]

Pairs(S) == {<<>>} \union {<<x, y>> : x \in S, y \in S}
Short(S) == Pairs(S) \union {<<x>> : x \in S}
Around(S) == {<<x>> : x \in S} \union {<<Zero, x, Zero>> : x \in S}
AroundPair(S) == {<<Zero, x>> : x \in S} \union {<<x, Zero>> : x \in S}

Flat   == {Zero} \union Lists(Short({Zero}), Pairs({Zero})) \union Tags({Zero})
Nested == Flat \union Lists(Short(Flat), Pairs(Flat)) \union Tags(Flat)
Deep   == Lists(Around(Nested), AroundPair(Nested)) \union Tags(Nested)

Deeper == Lists({<<x>> : x \in Deep}, {<<Zero, x>> : x \in Deep})

Limits ==
  {<<>>, <<23>>, <<24>>} \union
  UNION {{to_be_bytes(<<1>> \o [i \in 1 .. (w - 1) |-> 0], w), <<127>> \o [i \in 1 .. (w - 1) |-> 255],
          <<128>> \o [i \in 1 .. (w - 1) |-> 0], [i \in 1 .. w |-> 255]} : w \in 1 .. 8}
Ints == [k : {"int"}, m : {UNSIGNED, SIGNED}, n : Limits]

Str(m, d) == [k |-> "str", m |-> m, data |-> d]
Strings == {Str(m, d) : m \in {BYTES, TEXT}, d \in {<<>>, <<97>>, <<97, 98>>}}
Pieces == {[k |-> "open", m |-> m, kids |-> s] :
             m \in {BYTES}, s \in Short({Str(BYTES, <<>>), Str(BYTES, <<200>>)})}
          \union {[k |-> "open", m |-> TEXT, kids |-> s] : s \in Short({Str(TEXT, <<97>>)})}
Others == [k : {"simple"}, n : {0, 19, 32, 255}] \union [k : {"const"}, n : 20 .. 23]
          \union [k : {"float"}, bits : {<<60, 0>>, <<63, 128, 0, 1>>, <<0, 0, 0, 0, 0, 0, 0, 1>>}]
Partial == [k : {"partial"}, m : {ARRAY, MAP, BYTES}, n : {<<2>>, <<128, 0, 0, 0, 0, 0, 0, 0>>}]
Bad == [k : {"reserved"}, m : {UNSIGNED, SIGNED, BYTES, TEXT, ARRAY, MAP, TAGGED, SIMPLE}]
       \union {Str(TEXT, <<97, 200>>)}
Mixed == Lists(Short(Strings \union Pieces \union Others), Pairs(Strings \union Others))

Field(typ, opt, def, tag) == [typ |-> typ, opt |-> opt, def |-> def, tag |-> tag]
Written ==   \* a field of the writer and its value
  {<<Field({}, FALSE, FALSE, None), U8(<<7>>)>>}
  \union {<<Field({}, TRUE, FALSE, t), v>> : t \in {None, 5}, v \in {Nil, U8(<<200>>)}}
  \union {<<Field({0, 1}, TRUE, FALSE, None), v>> : v \in {Nil, Variant(0, 0), Variant(1, 2)}}
Readable ==
  {Field({}, o, FALSE, t) : o \in BOOLEAN, t \in {None, 5}}
  \union {Field({}, FALSE, TRUE, None), Field({0}, TRUE, FALSE, None)}

Indices == SUBSET {0, 1, 2}
MCReaders == [enc : {ARRAY, MAP}, fields : UNION {[I -> Readable] : I \in Indices}]
Struct(enc, kv, kind) ==
  LET w == [enc |-> enc, fields |-> [i \in DOMAIN kv |-> kv[i][1]]]
      v == [i \in DOMAIN kv |-> kv[i][2]]
      it == EncodeStruct(w, v)
  IN  [k |-> kind, m |-> it.m, kids |-> it.kids, writer |-> w, val |-> v]
Structs ==
  {Struct(enc, kv, kind) : enc \in {ARRAY, MAP}, kind \in {"list", "open"},
                           kv \in UNION {[I -> Written] : I \in Indices}}
(* 24 fields, one or two of them nil: the lengths on both sides of 24.     *)
Wide ==
  {Struct(enc, [i \in 0 .. 23 |-> IF i \in nil THEN <<Field({}, TRUE, FALSE, 5), Nil>>
                                   ELSE <<Field({}, FALSE, FALSE, None), U8(<<7>>)>>], "list") :
     enc \in {ARRAY, MAP}, nil \in {{}, {1}, {23}, {0, 23}}}
Small(structs) == {x \in structs : 2 \notin DOMAIN x.val}

MCInputs ==
  [item : Ints \union Strings \union Pieces \union Others \union Flat, form : {0, 1, 2, 4, 8},
   cut : {TRUE}]
  \union [item : Nested, form : {0}, cut : {TRUE}]
  \union [item : Deep \union Deeper \union Bad, form : {0}, cut : {FALSE}]
  \union [item : Mixed \union Structs \union Wide, form : {0}, cut : {FALSE}]
  \union [item : Small(Structs), form : {0}, cut : {TRUE}]
  \union [item : Partial, form : {0, 8}, cut : {TRUE}]
  \union [item : Records, form : {8}, cut : {FALSE}]

MCNumbers == {<<>>, <<255, 255, 255, 255, 255, 255, 255, 255>>}
=============================================================================
