------------------------------ MODULE CborValues ------------------------------
(***************************************************************************)
(* The traits Decode and CborLen of minicbor for the types of Rust's       *)
(* library, and the iterators over arrays, maps and strings in pieces that *)
(* Decode uses.  A type is given by an item of it: a list stands for a     *)
(* Vec, a map, or a tuple of what the items in it stand for.               *)
(***************************************************************************)
EXTENDS Cbor

(* array, map and tag, and the heads of strings in pieces: the number      *)
(* behind a head of the major type m, or None for an indefinite list.      *)
ReadHead(m, p) ==
  LET b == current(p)
      r == unsigned(info_of(b), p + 1)
  IN  IF AtEnd(p) THEN Err("EndOfInput", p)
      ELSE IF type_of(b) # m THEN Mismatch(b, p)
      ELSE IF info_of(b) = Indefinite /\ m # TAGGED THEN Ok(None, p + 1)
      ELSE IF r.ok THEN Ok(NatOf(r.val), r.pos) ELSE r

(* null, undefined, bool and simple; f16, f32 and f64 of their own width.  *)
ReadConst(n, p) ==
  IF current(p) = SIMPLE + n THEN Ok(<<>>, p + 1) ELSE Mismatch(current(p), p)

ReadSimple(p) ==
  IF current(p) \in SIMPLE .. (SIMPLE + 19) THEN Ok(current(p) - SIMPLE, p + 1)
  ELSE IF current(p) # SIMPLE + 24 THEN Mismatch(current(p), p)
  ELSE IF AtEnd(p + 1) THEN Err("EndOfInput", p + 1)
  ELSE Ok(current(p + 1), p + 2)

ReadFloat(w, p) ==
  IF current(p) # WithHead(SIMPLE, <<>>, w)[1] THEN Mismatch(current(p), p)
  ELSE read_slice(p + 1, w)

(* The question mark of Rust: go on with what r read, or return its error. *)
Then(r, F(_)) == IF r.ok THEN F(r) ELSE r

(* What r read, put together by the operator F, or r's error.              *)
Map(r, F(_)) == Then(r, LAMBDA x : Ok(F(x.val), x.pos))

RECURSIVE Read(_, _), Iterate(_, _, _, _)

(* ArrayIter, MapIter, BytesIter and StrIter to their end: n parts, or     *)
(* with None all up to the break, of which an entry of a map is two.       *)
IterateMutant(it, n, got, p) ==   \* mutant: the end of an indefinite list stays unread
  LET Elem(i) == IF i \in DOMAIN it.kids THEN it.kids[i] ELSE U64(<<>>)
      a == Read(Elem(Len(got) + 1), p)
      b == IF it.m = MAP THEN Read(Elem(Len(got) + 2), a.pos) ELSE a
      part == IF it.m = MAP THEN <<a.val, b.val>> ELSE <<a.val>>
  IN  IF n = 0 THEN Ok(got, p)
      ELSE IF n = None /\ AtEnd(p) THEN Err("EndOfInput", p)
      ELSE IF n = None /\ current(p) = BREAK THEN Ok(got, p)
      ELSE IF ~ a.ok THEN a
      ELSE IF ~ b.ok THEN b
      ELSE Iterate(it, IF n = None THEN None ELSE n - 1, got \o part, b.pos)

Iterate(it, n, got, p) ==
  LET Elem(i) == IF i \in DOMAIN it.kids THEN it.kids[i] ELSE U64(<<>>)
      a == Read(Elem(Len(got) + 1), p)
      b == IF it.m = MAP THEN Read(Elem(Len(got) + 2), a.pos) ELSE a
      part == IF it.m = MAP THEN <<a.val, b.val>> ELSE <<a.val>>
  IN  IF n = 0 THEN Ok(got, p)
      ELSE IF n = None /\ AtEnd(p) THEN Err("EndOfInput", p)
      ELSE IF n = None /\ current(p) = BREAK THEN Ok(got, p + 1)
      ELSE IF ~ a.ok THEN a
      ELSE IF ~ b.ok THEN b
      ELSE Iterate(it, IF n = None THEN None ELSE n - 1, got \o part, b.pos)

(* decode of the type it stands for: another item of it.                   *)
Read(it, p) ==
  IF AtEnd(p) THEN Err("EndOfInput", p)
  ELSE CASE it.k = "int"    -> Map(ReadInt("int", p), LAMBDA n :
                                 [it EXCEPT !.m = type_of(current(p)), !.n = n])
         [] it.k = "str"    -> Map(ReadStr(it.m, p), LAMBDA d : [it EXCEPT !.data = d])
         [] it.k = "const"  -> Map(ReadConst(it.n, p), LAMBDA n : it)
         [] it.k = "simple" -> Map(ReadSimple(p), LAMBDA n : [it EXCEPT !.n = n])
         [] it.k = "float"  -> Map(ReadFloat(Len(it.bits), p), LAMBDA s :
                                 [it EXCEPT !.bits = s])
         [] it.k = "tag"    ->
              LET t == ReadHead(TAGGED, p)
              IN  IF ~ t.ok THEN t
                  ELSE IF t.val # NatOf(it.n) THEN Err("TagMismatch", t.pos)
                  ELSE Map(Read(it.kid, t.pos), LAMBDA x : [it EXCEPT !.kid = x])
         [] it.k \in {"list", "open"} ->
              LET h == ReadHead(it.m, p)
              IN  IF ~ h.ok THEN h
                  ELSE Map(Iterate(it, h.val, <<>>, h.pos), LAMBDA s :
                         [it EXCEPT !.kids = s])

-----------------------------------------------------------------------------

head_len(s) ==
  IF s = <<>> \/ (Len(s) = 1 /\ s[1] <= 23) THEN 1
  ELSE CASE Len(s) = 1 -> 2 [] Len(s) = 2 -> 3 [] Len(s) \in {3, 4} -> 5 [] OTHER -> 9

RECURSIVE cbor_len(_)
cbor_len(it) ==
  LET parts == FoldLeft(LAMBDA n, kid : n + cbor_len(kid), 0, it.kids)
  IN  CASE it.k = "int"   -> head_len(it.n)
        [] it.k = "str"   -> head_len(Mag(Len(it.data))) + Len(it.data)
        [] it.k = "const" -> 1
        [] it.k = "float" -> 1 + Len(it.bits)
        [] it.k = "tag"   -> head_len(it.n) + cbor_len(it.kid)
        [] it.k = "list" /\ it.m = ARRAY -> head_len(Mag(Len(it.kids))) + parts
        [] it.k = "list" /\ it.m = MAP   -> head_len(Mag(Len(it.kids) \div 2)) + parts

(* The values with a CborLen: not what is written in pieces.               *)
RECURSIVE HasLen(_)
HasLen(it) ==
  CASE it.k \in {"int", "str", "const"} -> TRUE
    [] it.k = "float" -> Len(it.bits) > 2
    [] it.k = "tag"   -> HasLen(it.kid)
    [] it.k = "list"  -> \A i \in DOMAIN it.kids : HasLen(it.kids[i])
    [] OTHER          -> FALSE

-----------------------------------------------------------------------------
(* What the iterators over arrays, maps and strings in pieces and the      *)
(* readers give back is the value that was written, however they are       *)
(* nested and whatever the width of the heads, and they end right behind   *)
(* it.  No prefix of a value is taken for one.                             *)
ReadBack ==
  Start /\ ~ Malformed /\ item.k # "partial" =>
    LET r == Read(item, 0)
    IN  IF Truncated THEN ~ r.ok /\ r.val = "EndOfInput"
        ELSE r.ok /\ r.val = item /\ r.pos = size
===============================================================================
