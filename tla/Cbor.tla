-------------------------------- MODULE Cbor --------------------------------
(***************************************************************************)
(* minicbor: all that Encoder writes for an item, and the tokens of a      *)
(* stream.  ringbuf_put's record of a sample window is one of the items.   *)
(***************************************************************************)
EXTENDS CborCore, TLC

simple(n) == IF n < 20 THEN <<SIMPLE + n>> ELSE <<SIMPLE + 24, n>>
(* The bytes of a float.  (A half goes through f32 and back, which keeps   *)
(* every number; what becomes of a NaN's payload is left out.)             *)
float(bits) == WithHead(SIMPLE, bits, Len(bits))

(* The calls an application makes for an item:                             *)
(*   int      an integer, m = UNSIGNED or SIGNED                           *)
(*   str      bytes or text                                                *)
(*   const    false, true, null, undefined                                 *)
(*   list     an array or map of known length                              *)
(*   open     begin_..., the parts, end                                    *)
(*   partial  the head of a list whose parts never come                    *)
(*   reserved a first byte that no item has (never written by Encoder)     *)
RECURSIVE Encode(_, _)
Encode(it, w) ==
  LET Parts == FlattenSeq([i \in DOMAIN it.kids |-> Encode(it.kids[i], w)])
      Count == IF it.m = MAP THEN Len(it.kids) \div 2 ELSE Len(it.kids)
  IN  CASE it.k = "int"     -> Form(it.m, it.n, w)
        [] it.k = "str"     -> Form(it.m, Mag(Len(it.data)), w) \o it.data
        [] it.k = "const"   -> <<SIMPLE + it.n>>
        [] it.k = "simple"  -> simple(it.n)
        [] it.k = "float"   -> float(it.bits)
        [] it.k = "tag"     -> Form(TAGGED, it.n, w) \o Encode(it.kid, w)
        [] it.k = "list"    -> Form(it.m, Mag(Count), w) \o Parts
        [] it.k = "open"    -> <<it.m + Indefinite>> \o Parts \o <<BREAK>>
        [] it.k = "partial" -> Form(it.m, it.n, w)
        [] it.k = "reserved" -> <<it.m + 28>>

(* Where an item and its parts lie: for each start the end and the starts  *)
(* of its parts.                                                           *)
RECURSIVE TreeAt(_, _, _)
TreeAt(it, w, p) ==
  LET kids == CASE it.k \in {"list", "open"} -> it.kids [] it.k = "tag" -> <<it.kid>> [] OTHER -> <<>>
      size_of == Len(Encode(it, w))
      sizes == [i \in DOMAIN kids |-> Len(Encode(kids[i], w))]
      behind == IF it.k = "open" THEN 1 ELSE 0
      at[i \in 1 .. (Len(kids) + 1)] ==   \* from the last one to the first
        IF i > Len(kids) THEN p + size_of - behind ELSE at[i + 1] - sizes[i]
  IN  FoldLeft(LAMBDA t, i : t @@ TreeAt(kids[i], w, at[i]),
               p :> [end |-> p + size_of, parts |-> [i \in DOMAIN kids |-> at[i]]],
               [i \in DOMAIN kids |-> i])
TreeOf(it, w) == TreeAt(it, w, 0)

-----------------------------------------------------------------------------
(* One token, with its first byte.                                         *)
Token(p) ==
  LET b == current(p)
      t == Type(b, p)
  IN  CASE t = "EndOfInput" -> Err(t, p)
        [] t = "unknown"    -> Err("TypeMismatch", p)
        [] t = "byte"       -> Ok(<<>>, p + 1)
        [] t \in IntTypes   -> ReadInt(t, p)
        [] t = "float"      -> read_slice(p + 1, Width(info_of(b)))
        [] t = "sized" /\ type_of(b) \in {BYTES, TEXT} -> ReadStr(type_of(b), p)
        [] OTHER            -> unsigned(info_of(b), p + 1)

EncodeToken(b, t, v) ==
  CASE t = "byte"   -> <<b>>
    [] t = "float"  -> float(v)
    [] t = "simple" -> simple(NatOf(v))
    [] t = "sized" /\ type_of(b) \in {BYTES, TEXT} ->
         type_len(type_of(b), Mag(Len(v))) \o v
    [] OTHER -> type_len(type_of(b), v)

(* Tokenizer::next until it returns None, each token encoded again.        *)
RECURSIVE Recoded(_)
Recoded(p) ==
  LET r == Token(p)
  IN  IF AtEnd(p) \/ (~ r.ok /\ r.val = "EndOfInput") THEN <<>>
      ELSE IF ~ r.ok THEN <<-1>>
      ELSE EncodeToken(current(p), Type(current(p), p), r.val) \o Recoded(r.pos)

-----------------------------------------------------------------------------
(* The tokens of a stream, written again, are the stream in its shortest   *)
(* form: datatype() names a reader that takes the item, and no value       *)
(* changes.  Of an item that is cut short they are a part, and the         *)
(* iteration ends like that of a whole one.                                *)
TokensFaithful ==
  Start /\ ~ Malformed =>
    IF Truncated THEN IsPrefix(Recoded(0), Encode(item, 0))
    ELSE Recoded(0) = Encode(item, 0) \o <<0>>
=============================================================================
