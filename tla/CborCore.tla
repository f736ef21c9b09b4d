------------------------------ MODULE CborCore ------------------------------
(***************************************************************************)
(* minicbor: the heads that Encoder writes, the readers of Decoder, and    *)
(* Decoder::skip as the loop it is, one round a step.  What an encoder     *)
(* writes for a whole item is a parameter here; Cbor defines it.           *)
(*                                                                         *)
(* The bytes are those of the code.  A number of up to 64 bits is the      *)
(* sequence of its bytes without leading zeros, so that widths and signs   *)
(* are exact.                                                              *)
(***************************************************************************)
EXTENDS Integers, Sequences, SequencesExt, FiniteSetsExt

CONSTANTS
  Inputs,        \* [item, form, cut]: an item, its heads' width, whether to cut it short
  Bytes(_, _),   \* what is written for an item with heads of a width
  Tree(_, _),    \* where in these bytes the item and its parts lie
  OpLens,        \* the lengths of the names of the traced functions
  PathLens,      \* the lengths of path prefixes, as the loader script stores them
  Numbers        \* the numbers a record reports

VARIABLES
  item, size,          \* what the buffer holds, and in how many bytes
  buf,                 \* the buffer of the decoder
  alloc,               \* the build has the feature "alloc"
  pos,                 \* position of the decoder
  nrounds, irounds,    \* locals of skip
  stack,               \* Vec<Option<u64>>
  outcome              \* "run", "ok" or the error skip returned

vars == <<item, size, buf, alloc, pos, nrounds, irounds, stack, outcome>>

UNSIGNED == 0
SIGNED == 32
BYTES == 64
TEXT == 96
ARRAY == 128
MAP == 160
TAGGED == 192
SIMPLE == 224
BREAK == 255
Indefinite == 31

type_of(b) == (b \div 32) * 32
info_of(b) == b % 32

None == -1
Cap == 256 * 256 * 256   \* for u64::MAX; no buffer is near it
saturating_add(a, b) == Min({a + b, Cap})
saturating_mul(a, b) == Min({a * b, Cap})

Mag(n) == IF n = 0 THEN <<>> ELSE IF n < 256 THEN <<n>> ELSE <<n \div 256, n % 256>>
NatOf(s) ==
  LET byte(i) == IF i < Len(s) THEN s[Len(s) - i] ELSE 0
  IN  IF Len(s) > 3 THEN Cap ELSE (byte(2) * 256 + byte(1)) * 256 + byte(0)
Strip(s) == LET zeros == {k \in 0 .. Len(s) : \A i \in 1 .. k : s[i] = 0}
            IN  SubSeq(s, Max(zeros) + 1, Len(s))
to_be_bytes(s, w) == [i \in 1 .. w |-> IF i <= w - Len(s) THEN 0 ELSE s[i - (w - Len(s))]]
Width(info) == <<1, 2, 4, 8>>[info - 23]

-----------------------------------------------------------------------------
(* Encoder.  type_len is also how u8 to u64, i8 to i64 and int write.      *)
WithHead(t, s, w) ==
  <<t + (CHOOSE i \in 24 .. 27 : w = Width(i))>> \o to_be_bytes(s, w)

type_len(t, s) ==
  IF s = <<>> \/ (Len(s) = 1 /\ s[1] <= 23) THEN <<t + NatOf(s)>>
  ELSE WithHead(t, s, Min({w \in {1, 2, 4, 8} : Len(s) <= w}))

(* u64_noncanonical and str_noncanonical are w = 8.  Other encoders write  *)
(* other widths.                                                           *)
type_len_noncanonical(t, s, w) ==
  WithHead(t, s, Min({v \in {1, 2, 4, 8} : v >= w /\ Len(s) <= v}))

Form(t, s, w) == IF w = 0 THEN type_len(t, s) ELSE type_len_noncanonical(t, s, w)

(* The record of ringbuf_put, call by call; its strings are given by their *)
(* lengths.                                                                *)
BUFSIZE == 1024
PATHFRAGLEN == 32

str_noncanonical(n) == type_len_noncanonical(TEXT, Mag(n), 8) \o [i \in 1 .. n |-> 97]
u64_noncanonical(s) == type_len_noncanonical(UNSIGNED, s, 8)
begin_map == <<MAP + Indefinite>>
end == <<BREAK>>

Entry(key, value) == str_noncanonical(key) \o value

StoredMutant(pathlen) == pathlen   \* mutant: the stored length is trusted
Stored(pathlen) == Min({pathlen, PATHFRAGLEN})

ringbuf_put(filpop, pathlen, x) ==
  LET N == u64_noncanonical(x)
  IN  begin_map \o Entry(2, str_noncanonical(8)) \o Entry(19, N)
        \o Entry(6, str_noncanonical(filpop)) \o Entry(8, N) \o Entry(4, str_noncanonical(2))
        \o Entry(7, begin_map \o Entry(11, N) \o Entry(11, N) \o Entry(13, N)
                      \o Entry(11, N) \o Entry(13, N) \o Entry(16, N) \o end)
        \o Entry(11, str_noncanonical(Stored(pathlen))) \o end

(* The same record as an item.                                             *)
Text(n) == [k |-> "str", m |-> TEXT, data |-> [i \in 1 .. n |-> 97]]
U64(s)  == [k |-> "int", m |-> UNSIGNED, n |-> s]
OpenMap(kids) == [k |-> "open", m |-> MAP, kids |-> kids]

Record(filpop, pathlen, x) ==
  OpenMap(<<Text(2), Text(8), Text(19), U64(x), Text(6), Text(filpop), Text(8), U64(x),
            Text(4), Text(2), Text(7),
            OpenMap(<<Text(11), U64(x), Text(11), U64(x), Text(13), U64(x),
                      Text(11), U64(x), Text(13), U64(x), Text(16), U64(x)>>),
            Text(11), Text(Stored(pathlen))>>)

Records == {Record(f, l, x) : f \in OpLens, l \in PathLens, x \in Numbers}

-----------------------------------------------------------------------------
(* What CBOR is: a head at p has an argument and ends at After(e, p).  A   *)
(* tree gives for the start of every item its end and those of its parts.  *)
Byte == 0 .. 255
Number(s) == s \in Seq(Byte) /\ Len(s) <= 8 /\ (s # <<>> => s[1] # 0)

After(e, p) == p + 1 + (IF info_of(e[p + 1]) <= 23 THEN 0 ELSE Width(info_of(e[p + 1])))
Argument(e, p) ==
  IF info_of(e[p + 1]) <= 23 THEN Mag(info_of(e[p + 1]))
  ELSE Strip(SubSeq(e, p + 2, After(e, p)))

InRow(t, parts, p, q) ==   \* the parts lie one behind the other from p to q
  LET at(i) == IF i <= Len(parts) THEN parts[i] ELSE q
  IN  /\ at(1) = p
      /\ \A i \in 1 .. Len(parts) : parts[i] \in DOMAIN t /\ t[parts[i]].end = at(i + 1)

Sized(e, t, p) ==
  LET m == type_of(e[p + 1])
      a == After(e, p)
      n == NatOf(Argument(e, p))
      x == t[p]
  IN  /\ info_of(e[p + 1]) <= 27
      /\ a <= Len(e)
      /\ \/ m \in {UNSIGNED, SIGNED, SIMPLE} /\ x.end = a
         \/ m = BYTES /\ x.end = a + n
         \/ m = TEXT /\ x.end = a + n /\ \A i \in (a + 1) .. (a + n) : e[i] < 128
         \/ m = ARRAY /\ InRow(t, x.parts, a, x.end) /\ Len(x.parts) = n
         \/ m = MAP /\ InRow(t, x.parts, a, x.end) /\ Len(x.parts) = 2 * n
         \/ m = TAGGED /\ InRow(t, x.parts, a, x.end) /\ Len(x.parts) = 1

Open(e, t, p) ==
  LET m == type_of(e[p + 1])
      x == t[p]
  IN  /\ info_of(e[p + 1]) = Indefinite
      /\ m \in {BYTES, TEXT, ARRAY, MAP}
      /\ InRow(t, x.parts, p + 1, x.end - 1) /\ e[x.end] = BREAK
      /\ m \in {BYTES, TEXT} =>
           \A i \in 1 .. Len(x.parts) :
             type_of(e[x.parts[i] + 1]) = m /\ info_of(e[x.parts[i] + 1]) <= 27

Wellformed(e, t) ==
  /\ 0 \in DOMAIN t /\ t[0].end = Len(e)
  /\ \A p \in DOMAIN t :
       /\ p \in 0 .. (Len(e) - 1) /\ t[p].end \in (p + 1) .. Len(e)
       /\ t[p].parts \in Seq(Nat)
       /\ Sized(e, t, p) \/ Open(e, t, p)

(* Items that no encoder writes: a head that is reserved, a text that is   *)
(* not UTF-8, and a head whose parts never come.                           *)
Broken(it) ==
  \/ it.k = "reserved"
  \/ it.k = "str" /\ it.m = TEXT /\ \E i \in DOMAIN it.data : it.data[i] >= 128

BadText(e) ==
  /\ e # <<>> /\ type_of(e[1]) = TEXT /\ info_of(e[1]) <= 27 /\ After(e, 0) <= Len(e)
  /\ After(e, 0) + NatOf(Argument(e, 0)) = Len(e)
  /\ \E i \in (After(e, 0) + 1) .. Len(e) : e[i] >= 128

Promise(e) ==
  /\ e # <<>> /\ type_of(e[1]) \in {BYTES, TEXT, ARRAY, MAP} /\ info_of(e[1]) <= 27
  /\ After(e, 0) = Len(e) /\ NatOf(Argument(e, 0)) > 0

Majors == {UNSIGNED, SIGNED, BYTES, TEXT, ARRAY, MAP, TAGGED, SIMPLE}

ASSUME BytesAssumption ==
  \A x \in Inputs : Bytes(x.item, x.form) \in Seq(Byte) /\ Len(Bytes(x.item, x.form)) < Cap

ASSUME IntsAssumption ==
  \A x \in Inputs : x.item.k = "int" =>
    /\ x.item.m \in {UNSIGNED, SIGNED} /\ Number(x.item.n) /\ x.form \in {0, 1, 2, 4, 8}
    /\ Bytes(x.item, x.form) = Form(x.item.m, x.item.n, x.form)

ASSUME ItemsAssumption ==
  \A x \in Inputs :
    LET it == x.item
        e  == Bytes(it, x.form)
    IN  IF it.k = "partial" THEN Promise(e)
        ELSE IF it.k = "reserved" THEN it.m \in Majors /\ e = <<it.m + 28>>
        ELSE IF Broken(it) THEN BadText(e)
        ELSE Wellformed(e, Tree(it, x.form))

ASSUME RecordsAssumption ==
  /\ OpLens \subseteq 0 .. 15 /\ PathLens \subseteq Nat
  /\ \A n \in Numbers : Number(n)
  /\ \A x \in Inputs : x.item \in Records => x.form = 8
  /\ \A f \in OpLens, l \in PathLens, n \in Numbers :
       Bytes(Record(f, l, n), 8) = ringbuf_put(f, l, n)

-----------------------------------------------------------------------------
(* Decoder.  A reader gets a position and returns what it read and the     *)
(* position after it, or an error.                                         *)
Ok(v, p)  == [ok |-> TRUE, val |-> v, pos |-> p]
Err(e, p) == [ok |-> FALSE, val |-> e, pos |-> p]

AtEnd(p) == p >= Len(buf)
current(p) == buf[p + 1]

read_slice(p, n) ==
  IF p + n <= Len(buf) THEN Ok(SubSeq(buf, p + 1, p + n), p + n) ELSE Err("EndOfInput", p)

unsigned(info, p) ==
  IF info <= 23 THEN Ok(Mag(info), p)
  ELSE IF info > 27 THEN Err("TypeMismatch", p)
  ELSE LET r == read_slice(p, Width(info))
       IN  IF r.ok THEN Ok(Strip(r.val), r.pos) ELSE r

IntTypes == {"u8", "u16", "u32", "u64", "i8", "i16", "i32", "i64", "int"}
Narrow == <<"i8", "i16", "i32", "i64", "int">>

NegativeMutant(i, p) ==   \* mutant: the type is the one of the head's width
  IF AtEnd(p + 1) THEN "EndOfInput" ELSE Narrow[i - 23]

(* A negative number needs the next wider type if its first bit is set.    *)
Negative(i, p) ==
  IF AtEnd(p + 1) THEN "EndOfInput"
  ELSE IF current(p + 1) < 128 THEN Narrow[i - 23] ELSE Narrow[i - 22]

(* Decoder::type_of, p being the position at which it is called: for a     *)
(* negative number it looks at the byte after that.                        *)
Type(b, p) ==
  LET t == type_of(b)  i == info_of(b)
  IN  CASE t = UNSIGNED -> IF i <= 24 THEN "u8" ELSE IF i > 27 THEN "unknown"
                           ELSE <<"u16", "u32", "u64">>[i - 24]
        [] t = SIGNED   -> IF i <= 23 THEN "i8" ELSE IF i > 27 THEN "unknown"
                           ELSE Negative(i, p)
        [] t \in {BYTES, TEXT, ARRAY, MAP, TAGGED} ->
             IF i <= 27 THEN "sized"
             ELSE IF i = Indefinite /\ t # TAGGED THEN "byte" ELSE "unknown"
        [] t = SIMPLE   -> CASE i \in 0 .. 19 \union {24} -> "simple"
                             [] i \in 20 .. 23 \union {31} -> "byte"
                             [] i \in 25 .. 27 -> "float"
                             [] OTHER -> "unknown"

(* Every reader names the type it found instead of its own, having moved   *)
(* past the first byte already.                                            *)
Mismatch(b, p) ==
  Err(IF Type(b, p + 1) = "EndOfInput" THEN "EndOfInput" ELSE "TypeMismatch", p + 1)

(* try_as                                                                  *)
SizeOf(t) == CASE t \in {"u8", "i8"} -> 1 [] t \in {"u16", "i16"} -> 2
               [] t \in {"u32", "i32"} -> 4 [] OTHER -> 8

FitsMutant(t, s) == Len(s) <= SizeOf(t)   \* mutant: no bit for the sign
Fits(t, s) ==
  \/ Len(s) < SizeOf(t)
  \/ Len(s) = SizeOf(t) /\ (t \in {"u8", "u16", "u32", "u64", "int"} \/ s[1] < 128)

ReadInt(t, p) ==
  LET b == current(p)
      r == unsigned(info_of(b), p + 1)
      majors == IF t \in {"u8", "u16", "u32", "u64"} THEN {UNSIGNED} ELSE {UNSIGNED, SIGNED}
  IN  IF type_of(b) \notin majors \/ info_of(b) > 27 THEN Mismatch(b, p)
      ELSE IF r.ok /\ ~ Fits(t, r.val) THEN Err("Overflow", r.pos)
      ELSE r

(* bytes and str; bytes from 128 on stand for what is not UTF-8            *)
ReadStr(m, p) ==
  LET b == current(p)
      n == unsigned(info_of(b), p + 1)
      r == read_slice(n.pos, NatOf(n.val))
  IN  IF type_of(b) # m \/ info_of(b) = Indefinite THEN Mismatch(b, p)
      ELSE IF ~ n.ok THEN n
      ELSE IF r.ok /\ m = TEXT /\ \E i \in DOMAIN r.val : r.val[i] >= 128
           THEN Err("Utf8", r.pos)
      ELSE r

(* bytes_iter and str_iter, to the end                                     *)
ReadChunks(m, p) ==
  LET chunks[q \in 0 .. Len(buf)] ==
        IF AtEnd(q) THEN Err("EndOfInput", q)
        ELSE IF current(q) = BREAK THEN Ok(<<>>, q + 1)
        ELSE IF ReadStr(m, q).ok THEN chunks[ReadStr(m, q).pos] ELSE ReadStr(m, q)
  IN  chunks[p]

-----------------------------------------------------------------------------
Init ==
  \E x \in Inputs :
    LET e == Bytes(x.item, x.form)
    IN  /\ item = x.item
        /\ size = IF x.item.k = "partial" THEN Cap ELSE Len(e)
        /\ \E lost \in (IF x.cut THEN 0 .. Len(e) ELSE {0}) :
             buf = IF lost = 0 /\ size < Cap THEN e \o <<0>>
                   ELSE SubSeq(e, 1, Len(e) - lost)
        /\ alloc \in BOOLEAN
        /\ pos = 0
        /\ nrounds = 1 /\ irounds = 0 /\ stack = <<>>
        /\ outcome = "run"

Counting == nrounds > 0 \/ irounds > 0   \* no stack of lengths yet

(* The end of a round: one item less, or the last lists are done.          *)
EndRound(n, i, s) ==
  LET open == Max({0} \union {k \in DOMAIN s : s[k] # 0})   \* the last that is not Some(0)
  IN  IF n = 0 /\ i = 0
      THEN /\ nrounds' = 0 /\ irounds' = 0
           /\ stack' = IF open > 0 /\ s[open] # None
                       THEN [SubSeq(s, 1, open) EXCEPT ![open] = @ - 1]
                       ELSE SubSeq(s, 1, open)
           /\ outcome' = IF open = 0 THEN "ok" ELSE "run"
      ELSE /\ nrounds' = Max({0, n - 1}) /\ irounds' = i /\ stack' = s
           /\ outcome' = IF n <= 1 /\ i = 0 /\ s = <<>> THEN "ok" ELSE "run"

Round(r, n, i, s) ==
  /\ pos' = r.pos
  /\ IF r.ok THEN EndRound(n, i, s)
     ELSE outcome' = r.val /\ UNCHANGED <<nrounds, irounds, stack>>
  /\ UNCHANGED <<item, size, buf, alloc>>

At(m) == outcome = "run" /\ ~ AtEnd(pos) /\ type_of(current(pos)) = m
Info == info_of(current(pos))

SkipEndOfInput ==
  /\ outcome = "run" /\ AtEnd(pos)
  /\ outcome' = "EndOfInput"
  /\ UNCHANGED <<item, size, buf, alloc, pos, nrounds, irounds, stack>>

SkipScalar ==
  /\ At(UNSIGNED) \/ At(SIGNED) \/ At(SIMPLE)
  /\ Info <= 27
  /\ Round(unsigned(Info, pos + 1), nrounds, irounds, stack)

SkipString(m) ==
  /\ At(m)
  /\ Round(IF Info = Indefinite THEN ReadChunks(m, pos + 1) ELSE ReadStr(m, pos),
           nrounds, irounds, stack)

(* An array or map of known length.                                        *)
SkipSized(m) ==
  /\ At(m) /\ Info # Indefinite
  /\ LET r == unsigned(Info, pos + 1)
         n == IF m = MAP THEN saturating_mul(NatOf(r.val), 2) ELSE NatOf(r.val)
     IN  IF ~ r.ok \/ n = 0 THEN Round(r, nrounds, irounds, stack)
         ELSE IF Counting THEN Round(r, saturating_add(nrounds, n), irounds, stack)
         ELSE Round(r, 0, 0, Append(stack, n))

(* One of unknown length: among items that are counted the lengths move to *)
(* the stack, or, without one, skip gives up.                              *)
SkipOpenMutant(m) ==   \* mutant: the open lists around it are forgotten
  /\ At(m) /\ Info = Indefinite
  /\ LET r == Ok(<<>>, pos + 1)
     IN  IF ~ Counting THEN Round(r, 0, 0, Append(stack, None))
         ELSE IF nrounds < 2
         THEN Round(r, nrounds, saturating_add(irounds, 1), stack)
         ELSE IF alloc
         THEN Round(r, 0, 0, stack \o <<nrounds - 1, None>>)
         ELSE Round(Err("Message", pos + 1), 0, 0, stack)

SkipOpenMutant2(m) ==   \* mutant: the counters are not set back
  /\ At(m) /\ Info = Indefinite
  /\ LET r == Ok(<<>>, pos + 1)
     IN  IF ~ Counting THEN Round(r, 0, 0, Append(stack, None))
         ELSE IF nrounds < 2 \/ ~ alloc
         THEN Round(r, nrounds, saturating_add(irounds, 1), stack)
         ELSE Round(r, nrounds, irounds, stack \o <<nrounds - 1, None>>)

SkipOpen(m) ==
  /\ At(m) /\ Info = Indefinite
  /\ LET r == Ok(<<>>, pos + 1)
     IN  IF ~ Counting THEN Round(r, 0, 0, Append(stack, None))
         ELSE IF nrounds < 2
         THEN Round(r, nrounds, saturating_add(irounds, 1), stack)
         ELSE IF alloc
         THEN Round(r, 0, 0, stack \o [i \in 1 .. irounds |-> None]
                                   \o <<nrounds - 1, None>>)
         ELSE Round(Err("Message", pos + 1), 0, 0, stack)

SkipTag ==
  /\ At(TAGGED) /\ Info <= 27
  /\ LET r == unsigned(Info, pos + 1)
     IN  /\ pos' = r.pos
         /\ outcome' = IF r.ok THEN "run" ELSE r.val
  /\ UNCHANGED <<item, size, buf, alloc, nrounds, irounds, stack>>

SkipBreak ==
  /\ At(SIMPLE) /\ Info = Indefinite
  /\ IF Counting THEN Round(Ok(<<>>, pos + 1), nrounds, Max({0, irounds - 1}), stack)
     ELSE Round(Ok(<<>>, pos + 1), 0, 0, IF Last(stack) = None THEN Front(stack) ELSE stack)

SkipUnknown ==
  /\ \/ (At(UNSIGNED) \/ At(SIGNED) \/ At(TAGGED)) /\ Info > 27
     \/ At(SIMPLE) /\ Info \in 28 .. 30
  /\ Round(Err("TypeMismatch", pos), nrounds, irounds, stack)

Next ==
  \/ SkipEndOfInput \/ SkipScalar \/ SkipTag \/ SkipBreak \/ SkipUnknown
  \/ \E m \in {BYTES, TEXT} : SkipString(m)
  \/ \E m \in {ARRAY, MAP} : SkipSized(m) \/ SkipOpen(m)

Spec == Init /\ [][Next]_vars

-----------------------------------------------------------------------------
Truncated == Len(buf) < size
Start == pos = 0 /\ outcome = "run" /\ alloc
Malformed == Broken(item)

(* The lengths are kept in one place: once skip has a stack, the counters  *)
(* stay 0, and only the build with "alloc" has one.  The decoder never     *)
(* moves past its input.                                                   *)
TypeOK ==
  /\ pos \in 0 .. Len(buf)
  /\ nrounds \in 0 .. Cap /\ irounds \in 0 .. Cap
  /\ stack \in Seq(Nat \union {None})
  /\ stack # <<>> => ~ Counting /\ alloc
  /\ outcome \in {"run", "ok", "EndOfInput", "TypeMismatch", "Utf8", "Message"}

(* skip ends exactly behind the item, however lists of known and unknown   *)
(* length, tags and strings in pieces are nested in each other; on an item *)
(* that is cut short anywhere it reports the end of the input, and only a  *)
(* malformed one is an error of its own.  Without "alloc" it may give up   *)
(* instead, as its documentation says, but never ends elsewhere.           *)
SkipExact ==
  CASE outcome = "run"        -> TRUE
    [] outcome = "ok"         -> ~ Truncated /\ ~ Malformed /\ pos = size
    [] outcome = "EndOfInput" -> Truncated
    [] outcome = "Message"    -> ~ alloc
    [] OTHER                  -> Malformed

(* A reader of a type of integers takes exactly the numbers of the type,   *)
(* whatever the width of their heads, and gives them back as they were     *)
(* written.                                                                *)
Limit(t) == [i \in 1 .. SizeOf(t) |->
               IF i = 1 /\ t \in {"i8", "i16", "i32", "i64"} THEN 127 ELSE 255]
AtMost(a, b) ==
  \/ Len(a) < Len(b)
  \/ Len(a) = Len(b)
       /\ (a = b \/ \E i \in DOMAIN a : a[i] < b[i] /\ \A j \in 1 .. (i - 1) : a[j] = b[j])

IntsExact ==
  Start /\ item.k = "int" /\ ~ Truncated =>
    \A t \in IntTypes :
      LET r == ReadInt(t, 0)
      IN  /\ r.ok = (/\ AtMost(item.n, Limit(t))
                     /\ item.m = SIGNED => t \notin {"u8", "u16", "u32", "u64"})
          /\ r.ok => r.val = item.n /\ r.pos = size

(* Every record ringbuf_put writes fits the entry it reserved, whatever    *)
(* the loader stored as the length of the prefix: no put fails, which is   *)
(* what the unwrap_unchecked after each of them relies on.                 *)
RecordFits == item \in Records => size <= BUFSIZE
=============================================================================
