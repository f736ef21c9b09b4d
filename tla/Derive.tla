------------------------------- MODULE Derive -------------------------------
(***************************************************************************)
(* The code minicbor-derive generates for structs and enums: how a struct  *)
(* of one version of a program is written, and what another version reads. *)
(*                                                                         *)
(* A struct is [enc, fields]: fields maps an index, the n of #[n(...)], to *)
(* [typ, opt, def, tag]: a u8 or an enum, whether it is an Option, whether *)
(* it has #[cbor(default)], and its #[cbor(tag(...))] or None.  An enum    *)
(* type is the set of the variants that the program knows.                 *)
(***************************************************************************)
EXTENDS CborValues

CONSTANT Readers   \* the structs that try to read what was written

Nil == [none |-> TRUE]
Missing == [missing |-> TRUE]
U8(s) == [u8 |-> s]
Variant(i, n) == [variant |-> i, size |-> n]   \* variant i with n fields
IsVariant(v) == "variant" \in DOMAIN v

Null == [k |-> "const", n |-> 22]
List(m, kids) == [k |-> "list", m |-> m, kids |-> kids]

(* An enum without index_only or flat is the index and a list of fields.   *)
EncodeEnum(v) ==
  List(ARRAY, <<U64(Mag(v.variant)), List(ARRAY, [i \in 1 .. v.size |-> U64(<<>>)])>>)

EncodeField(f, v) ==
  LET x == IF v = Nil THEN Null ELSE IF IsVariant(v) THEN EncodeEnum(v) ELSE U64(v.u8)
  IN  IF f.tag = None THEN x ELSE [k |-> "tag", n |-> Mag(f.tag), kid |-> x]

(* encode_fields: an array up to the last field that is not nil, with null *)
(* in the gaps between the indices, or a map of the fields that are not.   *)
EncodeStruct(s, val) ==
  LET live == {i \in DOMAIN s.fields : val[i] # Nil}
      num  == Max({-1} \union live) + 1
      keys == SelectSeq([j \in 1 .. num |-> j - 1], LAMBDA i : i \in live)
  IN  IF s.enc = MAP
      THEN List(MAP, FlattenSeq([j \in DOMAIN keys |->
             <<U64(Mag(keys[j])), EncodeField(s.fields[keys[j]], val[keys[j]])>>]))
      ELSE List(ARRAY, [j \in 1 .. num |->
             IF j - 1 \in DOMAIN s.fields THEN EncodeField(s.fields[j - 1], val[j - 1])
             ELSE Null])

-----------------------------------------------------------------------------
(* Decoder::skip, which SkipExact shows to end where the item does; what a *)
(* struct holds is of known length.                                        *)
RECURSIVE SkipTo(_, _)
SkipTo(p, n) ==
  IF n = 0 THEN Ok(<<>>, p)
  ELSE IF AtEnd(p) THEN Err("EndOfInput", p)
  ELSE LET b == current(p)
       IN  Then(IF type_of(b) \in {BYTES, TEXT} THEN ReadStr(type_of(b), p)
                ELSE unsigned(info_of(b), p + 1),
                LAMBDA r : SkipTo(r.pos, n - 1 + CASE type_of(b) = ARRAY  -> NatOf(r.val)
                                                   [] type_of(b) = MAP    -> 2 * NatOf(r.val)
                                                   [] type_of(b) = TAGGED -> 1
                                                   [] OTHER               -> 0))

skip(p) == SkipTo(p, 1)

(* A reader of integers, at any position, and i64 as the number it is.     *)
ReadAt(t, p) == IF AtEnd(p) THEN Err("EndOfInput", p) ELSE ReadInt(t, p)
ReadKey(p) ==
  Then(ReadAt("i64", p), LAMBDA r :
    Ok(IF type_of(current(p)) = SIGNED THEN -1 - NatOf(r.val) ELSE NatOf(r.val), r.pos))

(* The variants a reader knows have no fields: whatever was written for    *)
(* them is skipped.                                                        *)
DecodeEnum(known, p) ==
  Then(ReadHead(ARRAY, p), LAMBDA h :
    IF h.val # 2 THEN Err("Message", h.pos)
    ELSE Then(ReadKey(h.pos), LAMBDA r :
           IF r.val \notin known THEN Err("UnknownVariant", r.pos)
           ELSE Then(skip(r.pos), LAMBDA rest : Ok(Variant(r.val, 0), rest.pos))))

DecodeValue(f, p) ==
  IF f.opt /\ ~ AtEnd(p) /\ current(p) = SIMPLE + 22 THEN Ok(Nil, p + 1)
  ELSE IF f.typ # {} THEN DecodeEnum(f.typ, p)
  ELSE Then(ReadAt("u8", p), LAMBDA u : Ok(U8(u.val), u.pos))

(* The field's variable is old before and keeps that when the variant is   *)
(* unknown and the field optional: then what the variant holds is skipped. *)
DecodeTag(f, p) == IF f.tag = None THEN Ok(None, p) ELSE ReadHead(TAGGED, p)
Unknown(f, v) == ~ v.ok /\ v.val = "UnknownVariant" /\ f.opt

KeepMutant(f, old, v) == IF Unknown(f, v) THEN Ok(old, v.pos) ELSE v   \* mutant: no skip
Keep(f, old, v) ==
  IF Unknown(f, v) THEN Then(skip(v.pos), LAMBDA rest : Ok(old, rest.pos)) ELSE v

DecodeField(f, old, p) ==
  Then(DecodeTag(f, p), LAMBDA t :
    IF t.val # f.tag THEN Err("TagMismatch", t.pos)
    ELSE Keep(f, old, DecodeValue(f, t.pos)))

(* The loop over the n elements or pairs, or, with n = None, to the break; *)
(* i is the position in the array.                                         *)
RECURSIVE DecodeFields(_, _, _, _, _)
DecodeFields(s, n, i, got, p) ==
  IF n = 0 THEN Ok(got, p)
  ELSE IF n = None /\ AtEnd(p) THEN Err("EndOfInput", p)
  ELSE IF n = None /\ current(p) = BREAK THEN Ok(got, p + 1)
  ELSE Then(IF s.enc = MAP THEN ReadKey(p) ELSE Ok(i, p), LAMBDA key :
         LET j == key.val
             known == j \in DOMAIN s.fields
         IN  Then(IF known THEN DecodeField(s.fields[j], got[j], key.pos) ELSE skip(key.pos),
                  LAMBDA r : DecodeFields(s, IF n = None THEN n ELSE n - 1, i + 1,
                               IF known THEN [got EXCEPT ![j] = r.val] ELSE got, r.pos)))

DecodeStruct(s, p) ==
  LET init == [i \in DOMAIN s.fields |-> IF s.fields[i].opt THEN Nil ELSE Missing]
  IN  Then(ReadHead(s.enc, p), LAMBDA h :
        Then(DecodeFields(s, h.val, 0, init, h.pos), LAMBDA r :
          IF \E i \in DOMAIN s.fields : r.val[i] = Missing /\ ~ s.fields[i].def
          THEN Err("MissingValue", r.pos)
          ELSE Ok([i \in DOMAIN s.fields |->
                     IF r.val[i] = Missing THEN U8(<<>>) ELSE r.val[i]], r.pos)))

-----------------------------------------------------------------------------
(* The struct r may replace w, by the rules of the documentation (what is  *)
(* in both keeps its type, and what is new is optional or has a default)   *)
(* and by one that it does not mention: in an array the gap at the index   *)
(* of a new field holds a null, which only an Option without a tag can     *)
(* read.  A new field with a tag or only a default must come behind all    *)
(* old ones, or an old struct is an error.                                 *)
MayRead(r, w) ==
  /\ r.enc = w.enc
  /\ \A i \in DOMAIN r.fields :
       LET f == r.fields[i]
       IN  IF i \in DOMAIN w.fields
           THEN /\ (f.typ = {}) = (w.fields[i].typ = {})
                /\ f.tag = w.fields[i].tag
                /\ (w.fields[i].opt \/ f.typ # {}) => f.opt
           ELSE /\ f.opt \/ f.def
                /\ \/ r.enc = MAP
                   \/ f.opt /\ f.tag = None
                   \/ \A j \in DOMAIN w.fields : j < i

ReadAs(f, v) ==
  IF IsVariant(v) THEN IF v.variant \in f.typ THEN Variant(v.variant, 0) ELSE Nil ELSE v

(* The derived CborLen: of the fields that are not nil, and one byte for   *)
(* every index below the last of them that is not written otherwise.       *)
FieldLen(f, v) ==
  (IF f.tag = None THEN 0 ELSE head_len(Mag(f.tag)))
    + cbor_len(IF IsVariant(v) THEN EncodeEnum(v) ELSE U64(v.u8))

StructLen(s, val) ==
  LET live == {i \in DOMAIN s.fields : val[i] # Nil}
      num  == Max({-1} \union live) + 1
  IN  IF s.enc = MAP
      THEN head_len(Mag(Cardinality(DOMAIN s.fields)))
             + MapThenSumSet(LAMBDA i : head_len(Mag(i)) + FieldLen(s.fields[i], val[i]), live)
      ELSE head_len(Mag(num)) + num - Cardinality(live)
             + MapThenSumSet(LAMBDA i : FieldLen(s.fields[i], val[i]), live)

(* What StructLen leaves out: the tag of a nil field in front of one that  *)
(* is not is written, though its null only is counted.  And what it counts *)
(* too much: the head of a map is written for the fields that are not nil. *)
UncountedTags(s, val) ==
  MapThenSumSet(LAMBDA i : head_len(Mag(s.fields[i].tag)),
    {i \in DOMAIN s.fields : /\ s.enc = ARRAY /\ s.fields[i].tag # None /\ val[i] = Nil
                             /\ \E j \in DOMAIN s.fields : i < j /\ val[j] # Nil})

SpareHead(s, val) ==
  IF s.enc = ARRAY THEN 0
  ELSE head_len(Mag(Cardinality(DOMAIN s.fields)))
         - head_len(Mag(Cardinality({i \in DOMAIN s.fields : val[i] # Nil})))


(* The derived code is compatible in both directions, as its documentation *)
(* says: fields the reader does not know are ignored, optional fields that *)
(* are not there are None, those with a default have it, and an unknown    *)
(* variant of an optional enum becomes None; every other field keeps its   *)
(* value, and reading ends where the struct does.  One that is cut short   *)
(* is never taken for a whole one.                                         *)
Compatible ==
  Start /\ "writer" \in DOMAIN item =>
    \A r \in Readers : MayRead(r, item.writer) =>
      LET d == DecodeStruct(r, 0)
      IN  IF Truncated THEN ~ d.ok /\ d.val = "EndOfInput"
          ELSE /\ d.ok /\ d.pos = size
               /\ \A i \in DOMAIN r.fields :
                    d.val[i] = IF i \in DOMAIN item.val THEN ReadAs(r.fields[i], item.val[i])
                               ELSE IF r.fields[i].opt THEN Nil ELSE U8(<<>>)
=============================================================================
