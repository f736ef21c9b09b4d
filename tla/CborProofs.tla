----------------------------- MODULE CborProofs -----------------------------
(***************************************************************************)
(* Proofs about CborCore, for every set of inputs: that Decoder::skip      *)
(* keeps its counters and its stack apart, goes forward and ends behind    *)
(* the item; that the readers of integers take exactly those of their      *)
(* type; and that the record of a window fits its buffer.                  *)
(*                                                                         *)
(* SkipInv is about any buffer.  ExactInv says where skip is in an item:   *)
(* the lengths it keeps, counted or on the stack, are what is left of the  *)
(* lists that are open around its position, the innermost one last, and    *)
(* the outermost of them ends with the item (Levels).  The two forms in    *)
(* which skip keeps them are made one in In: nrounds items and irounds     *)
(* open lists are a stack of irounds times None and nrounds.               *)
(***************************************************************************)
EXTENDS CborCore, SequenceTheorems, WellFoundedInduction, TLAPS

-----------------------------------------------------------------------------
(* A set of natural numbers has a least element.                           *)
LEMMA NatLeast ==
  ASSUME NEW T, T \subseteq Nat, T # {}
  PROVE  \E x \in T : \A y \in T : x <= y
<1> DEFINE R == OpToRel(<, Nat)
<1>1. IsWellFoundedOn(R, Nat)
  BY NatLessThanWellFounded, Zenon
<1>2. \A a, b \in Nat : a < b => <<a, b>> \in R
  BY DEF OpToRel
<1> HIDE DEF R
<1>3. PICK x \in T : \A y \in T : ~ (<<y, x>> \in R)
  BY <1>1, WFMin, Zenon
<1>4. \A y \in T : ~ (y < x)
  BY <1>2, <1>3, Zenon
<1> QED BY <1>4

(* Induction, with a set for the predicate.                                *)
LEMMA NatInd ==
  ASSUME NEW T, 0 \in T, \A n \in Nat : n \in T => n + 1 \in T
  PROVE  \A n \in Nat : n \in T
<1> SUFFICES ASSUME ~ (Nat \subseteq T) PROVE FALSE
  OBVIOUS
<1>1. PICK x \in Nat \ T : \A y \in Nat \ T : x <= y
  <2>1. Nat \ T \subseteq Nat /\ Nat \ T # {}
    OBVIOUS
  <2> QED BY <2>1, NatLeast, Zenon
<1>2. x # 0
  OBVIOUS
<1>3. x - 1 \in Nat /\ x - 1 \notin T => FALSE
  BY <1>1, <1>2
<1>4. x - 1 \in Nat /\ x - 1 \in T
  BY <1>2, <1>3
<1>5. (x - 1) + 1 = x
  OBVIOUS
<1> QED BY <1>4, <1>5

(* A bounded set of natural numbers has a greatest element: Max is it.     *)
LEMMA MaxOf ==
  ASSUME NEW n \in Nat, NEW S, S \subseteq 0 .. n, S # {}
  PROVE  Max(S) \in S /\ \A y \in S : y <= Max(S)
<1> DEFINE T == {x \in Nat : \A y \in S : y <= x}
<1>1. T \subseteq Nat /\ n \in T
  OBVIOUS
<1>2. PICK x \in T : \A y \in T : x <= y
  BY <1>1, NatLeast
<1>3. x \in S
  <2> SUFFICES ASSUME x \notin S PROVE FALSE
    OBVIOUS
  <2>1. x \in Nat /\ \A y \in S : y <= x
    OBVIOUS
  <2>2. PICK z \in S : TRUE
    OBVIOUS
  <2>3. z \in Nat /\ z < x
    BY <2>1, <2>2
  <2>4. x - 1 \in Nat /\ ~ (x <= x - 1)
    BY <2>1, <2>3
  <2>5. \A y \in S : y <= x - 1
    BY <2>1
  <2> QED BY <1>2, <2>4, <2>5
<1>4. \A y \in S : x >= y
  OBVIOUS
<1>5. Max(S) \in S /\ \A y \in S : Max(S) >= y
  BY <1>3, <1>4, Zenon DEF Max
<1> QED BY <1>5

(* The maxima and minima of two numbers, as saturating_sub and             *)
(* saturating_add take them.                                               *)
LEMMA MaxPair ==
  ASSUME NEW n \in Int
  PROVE  Max({0, n}) = IF n >= 0 THEN n ELSE 0
<1>1. PICK m : m = IF n >= 0 THEN n ELSE 0
  OBVIOUS
<1>2. m \in {0, n} /\ \A y \in {0, n} : m >= y
  BY <1>1
<1>3. \A x \in {0, n} : (\A y \in {0, n} : x >= y) => x = m
  BY <1>1
<1>4. Max({0, n}) \in {0, n} /\ \A y \in {0, n} : Max({0, n}) >= y
  BY <1>2, Zenon DEF Max
<1> QED BY <1>1, <1>3, <1>4

LEMMA MinPair ==
  ASSUME NEW a \in Int, NEW b \in Int
  PROVE  Min({a, b}) = IF a <= b THEN a ELSE b
<1>1. PICK m : m = IF a <= b THEN a ELSE b
  OBVIOUS
<1>2. m \in {a, b} /\ \A y \in {a, b} : m <= y
  BY <1>1
<1>3. \A x \in {a, b} : (\A y \in {a, b} : x <= y) => x = m
  BY <1>1
<1>4. Min({a, b}) \in {a, b} /\ \A y \in {a, b} : Min({a, b}) <= y
  BY <1>2, Zenon DEF Min
<1> QED BY <1>1, <1>3, <1>4

(* The five bits of a head, and what they say of the bytes behind it.      *)
LEMMA Heads ==
  ASSUME NEW b \in Byte
  PROVE  info_of(b) \in 0 .. 31
BY DEF Byte, info_of

(* A head that has bytes behind it has 1, 2, 4 or 8.                       *)
LEMMA Widths ==
  ASSUME NEW i \in 24 .. 27
  PROVE  Width(i) \in {1, 2, 4, 8}
BY DEF Width

(* Leading zeros are dropped.                                              *)
LEMMA StripType ==
  ASSUME NEW s \in Seq(Byte)
  PROVE  /\ Strip(s) \in Seq(Byte)
         /\ \E k \in 0 .. Len(s) : /\ Strip(s) = SubSeq(s, k + 1, Len(s))
                                   /\ \A i \in 1 .. k : s[i] = 0
                                   /\ k < Len(s) => s[k + 1] # 0
<1> DEFINE Z == {k \in 0 .. Len(s) : \A i \in 1 .. k : s[i] = 0}
<1>1. Len(s) \in Nat
  BY LenProperties
<1>2. Z \subseteq 0 .. Len(s) /\ 0 \in Z
  BY <1>1
<1>3. Max(Z) \in Z /\ \A y \in Z : y <= Max(Z)
  BY <1>1, <1>2, MaxOf
<1>4. PICK k : k = Max(Z)
  OBVIOUS
<1>5. k \in 0 .. Len(s) /\ \A i \in 1 .. k : s[i] = 0
  BY <1>3, <1>4
<1>6. k < Len(s) => s[k + 1] # 0
  <2> SUFFICES ASSUME k < Len(s), s[k + 1] = 0 PROVE FALSE
    OBVIOUS
  <2>1. k + 1 \in 0 .. Len(s) /\ ~ (k + 1 <= k) /\ \A i \in 1 .. (k + 1) : i \in 1 .. k \/ i = k + 1
    BY <1>1, <1>5
  <2>2. \A i \in 1 .. (k + 1) : s[i] = 0
    BY <1>5, <2>1
  <2>3. k + 1 \in Z
    BY <2>1, <2>2
  <2> QED BY <1>3, <1>4, <2>1, <2>3
<1>7. Strip(s) = SubSeq(s, k + 1, Len(s))
  BY <1>4 DEF Strip
<1>8. SubSeq(s, k + 1, Len(s)) \in Seq(Byte)
  <2>1. k + 1 \in 1 .. (Len(s) + 1)
    BY <1>1, <1>5
  <2> QED BY <1>1, <2>1, SubSeqProperties
<1> QED BY <1>5, <1>6, <1>7, <1>8

(* The stand-in for the greatest u64 is a number, and not the least.       *)
LEMMA CapType == Cap \in Nat /\ Cap >= 2
BY SMT DEF Cap

(* A length that was read.                                                 *)
LEMMA NatOfType ==
  ASSUME NEW s \in Seq(Byte)
  PROVE  NatOf(s) \in 0 .. Cap
<1> DEFINE byte(i) == IF i < Len(s) THEN s[Len(s) - i] ELSE 0
<1>1. Len(s) \in Nat
  BY LenProperties
<1>2. ASSUME NEW i \in Nat PROVE byte(i) \in Byte
  <2>1. CASE i < Len(s)
    <3>1. Len(s) - i \in 1 .. Len(s)
      BY <1>1, <2>1
    <3>2. s[Len(s) - i] \in Byte
      BY <3>1, ElementOfSeq
    <3> QED BY <2>1, <3>2
  <2>2. CASE ~ (i < Len(s))
    BY <2>2 DEF Byte
  <2> QED BY <2>1, <2>2
<1> HIDE DEF byte
<1>3. PICK x \in 0 .. 255, y \in 0 .. 255, z \in 0 .. 255 :
        x = byte(2) /\ y = byte(1) /\ z = byte(0)
  BY <1>2, Zenon DEF Byte
<1>4. (x * 256 + y) * 256 + z \in Nat
  OBVIOUS
<1>5. (x * 256 + y) * 256 + z <= Cap
  BY SMT DEF Cap
<1>6. NatOf(s) = IF Len(s) > 3 THEN Cap ELSE (byte(2) * 256 + byte(1)) * 256 + byte(0)
  BY Zenon DEF NatOf, byte
<1>7. NatOf(s) = IF Len(s) > 3 THEN Cap ELSE (x * 256 + y) * 256 + z
  BY <1>3, <1>6, Zenon
<1> QED BY <1>4, <1>5, <1>7, CapType

-----------------------------------------------------------------------------
(* The errors that skip can return.                                        *)
Errors == {"EndOfInput", "TypeMismatch", "Utf8", "Message"}

(* What a reader that starts at p returns: it moves forward, stays in the  *)
(* buffer, and its error is one of the decoder's.                          *)
Reads(r, p) ==
  /\ r.ok \in BOOLEAN
  /\ r.pos \in p .. Len(buf)
  /\ ~ r.ok => r.val \in Errors

(* A reader may fail wherever it has got to.                               *)
LEMMA ErrReads ==
  ASSUME NEW e \in Errors, NEW p, NEW q, q \in p .. Len(buf)
  PROVE  Reads(Err(e, q), p) /\ ~ Err(e, q).ok
BY DEF Reads, Err

(* A slice lies in the buffer or is refused.                               *)
LEMMA SliceReads ==
  ASSUME buf \in Seq(Byte), NEW p \in 0 .. Len(buf), NEW n \in Nat
  PROVE  LET r == read_slice(p, n)
         IN  /\ Reads(r, p)
             /\ r.ok => r.pos = p + n /\ r.val = SubSeq(buf, p + 1, p + n) /\ r.val \in Seq(Byte)
<1>1. Len(buf) \in Nat
  BY LenProperties
<1>2. CASE p + n <= Len(buf)
  <2>1. read_slice(p, n) = Ok(SubSeq(buf, p + 1, p + n), p + n)
    BY <1>2, Zenon DEF read_slice
  <2>2. p + n \in p .. Len(buf)
    BY <1>1, <1>2
  <2>3. SubSeq(buf, p + 1, p + n) \in Seq(Byte)
    <3>1. \A i \in (p + 1) .. (p + n) : buf[i] \in Byte
      <4>1. (p + 1) .. (p + n) \subseteq 1 .. Len(buf)
        BY <1>1, <1>2
      <4> QED BY <4>1, ElementOfSeq
    <3> QED BY <1>1, <3>1, SubSeqProperties
  <2>4. PICK v : v = SubSeq(buf, p + 1, p + n)
    OBVIOUS
  <2>5. Reads(Ok(v, p + n), p) /\ Ok(v, p + n).ok /\ Ok(v, p + n).val = v /\ Ok(v, p + n).pos = p + n
    BY <2>2, SMT DEF Reads, Ok
  <2> QED BY <2>1, <2>3, <2>4, <2>5, Zenon
<1>3. CASE ~ (p + n <= Len(buf))
  <2>1. read_slice(p, n) = Err("EndOfInput", p)
    BY <1>3, Zenon DEF read_slice
  <2>2. p \in p .. Len(buf)
    BY <1>1
  <2>3. "EndOfInput" \in Errors
    BY DEF Errors
  <2> QED BY <2>1, <2>2, <2>3, ErrReads, Zenon
<1> QED BY <1>2, <1>3, Zenon

(* The five bits of a head, as a number.                                   *)
LEMMA MagType ==
  ASSUME NEW n \in 0 .. 31
  PROVE  Mag(n) \in Seq(Byte)
<1>1. n \in Byte
  BY DEF Byte
<1>2. <<>> \in Seq(Byte) /\ <<n>> \in Seq(Byte)
  BY <1>1
<1>3. n < 256
  OBVIOUS
<1> QED BY <1>2, <1>3 DEF Mag

(* A number behind a head.                                                 *)
LEMMA UnsignedReads ==
  ASSUME buf \in Seq(Byte), NEW p \in 0 .. Len(buf), NEW i \in 0 .. 31
  PROVE  Reads(unsigned(i, p), p) /\ (unsigned(i, p).ok => unsigned(i, p).val \in Seq(Byte))
<1>1. Len(buf) \in Nat /\ p \in p .. Len(buf)
  BY LenProperties
<1>2. CASE i <= 23
  <2>1. unsigned(i, p) = Ok(Mag(i), p)
    BY <1>2, Zenon DEF unsigned
  <2>2. PICK v : v = Mag(i)
    OBVIOUS
  <2>3. Reads(Ok(v, p), p) /\ Ok(v, p).val = v
    BY <1>1, SMT DEF Reads, Ok
  <2>4. v \in Seq(Byte)
    BY <2>2, MagType, Zenon
  <2> QED BY <2>1, <2>2, <2>3, <2>4, Zenon
<1>3. CASE ~ (i <= 23) /\ i > 27
  <2>1. unsigned(i, p) = Err("TypeMismatch", p)
    BY <1>3, Zenon DEF unsigned
  <2>2. "TypeMismatch" \in Errors
    BY DEF Errors
  <2> QED BY <1>1, <2>1, <2>2, ErrReads, Zenon
<1>4. CASE ~ (i <= 23) /\ ~ (i > 27)
  <2>1. PICK r : r = read_slice(p, Width(i))
    OBVIOUS
  <2>2. i \in 24 .. 27
    BY <1>4
  <2>3. Width(i) \in Nat
    BY <2>2, Widths
  <2>4. Reads(r, p) /\ (r.ok => r.val \in Seq(Byte))
    BY <2>1, <2>3, SliceReads, Zenon
  <2>5. unsigned(i, p) = IF r.ok THEN Ok(Strip(r.val), r.pos) ELSE r
    BY <1>4, <2>1, Zenon DEF unsigned
  <2>6. CASE r.ok
    <3>1. r.pos \in p .. Len(buf)
      BY <2>4 DEF Reads
    <3>2. PICK v : v = Strip(r.val)
      OBVIOUS
    <3>3. Reads(Ok(v, r.pos), p) /\ Ok(v, r.pos).val = v
      BY <3>1, SMT DEF Reads, Ok
    <3>4. v \in Seq(Byte)
      BY <2>4, <2>6, <3>2, StripType, Zenon
    <3> QED BY <2>5, <2>6, <3>2, <3>3, <3>4, Zenon
  <2>7. CASE ~ r.ok
    BY <2>4, <2>5, <2>7, Zenon
  <2> QED BY <2>6, <2>7, Zenon
<1> QED BY <1>2, <1>3, <1>4, Zenon

(* There is a byte to read before the end of the buffer.                   *)
LEMMA CurrentByte ==
  ASSUME buf \in Seq(Byte), NEW p \in 0 .. Len(buf), ~ AtEnd(p)
  PROVE  /\ current(p) \in Byte /\ info_of(current(p)) \in 0 .. 31
         /\ p + 1 \in 0 .. Len(buf)
         /\ Len(buf) \in Nat
<1>1. Len(buf) \in Nat
  BY LenProperties
<1>2. p + 1 \in 1 .. Len(buf)
  BY <1>1 DEF AtEnd
<1>3. current(p) \in Byte
  BY <1>2, ElementOfSeq DEF current
<1> QED BY <1>1, <1>2, <1>3, Heads

(* A reader that finds another type has moved past the first byte.         *)
LEMMA MismatchReads ==
  ASSUME buf \in Seq(Byte), NEW p \in 0 .. Len(buf), ~ AtEnd(p), NEW b
  PROVE  Reads(Mismatch(b, p), p + 1) /\ ~ Mismatch(b, p).ok
<1>1. p + 1 \in (p + 1) .. Len(buf)
  BY CurrentByte
<1>2. PICK e \in Errors : Mismatch(b, p) = Err(e, p + 1)
  BY Zenon DEF Mismatch, Errors
<1> QED BY <1>1, <1>2, ErrReads, Zenon

(* A string, after its head.                                               *)
LEMMA StrReads ==
  ASSUME buf \in Seq(Byte), NEW p \in 0 .. Len(buf), ~ AtEnd(p), NEW m
  PROVE  Reads(ReadStr(m, p), p + 1)
<1> DEFINE b == current(p)
           n == unsigned(info_of(b), p + 1)
           r == read_slice(n.pos, NatOf(n.val))
<1>1. Reads(n, p + 1) /\ (n.ok => n.val \in Seq(Byte))
  BY CurrentByte, UnsignedReads, Zenon
<1>2. ReadStr(m, p) = IF type_of(b) # m \/ info_of(b) = Indefinite THEN Mismatch(b, p)
      ELSE IF ~ n.ok THEN n
      ELSE IF r.ok /\ m = TEXT /\ \E i \in DOMAIN r.val : r.val[i] >= 128
           THEN Err("Utf8", r.pos)
      ELSE r
  BY Zenon DEF ReadStr
<1>3. CASE n.ok
  <2>1. n.pos \in (p + 1) .. Len(buf) /\ NatOf(n.val) \in Nat
    BY <1>1, <1>3, NatOfType, CapType DEF Reads
  <2>2. n.pos \in 0 .. Len(buf)
    BY <2>1, CurrentByte
  <2>3. Reads(r, n.pos)
    BY <2>1, <2>2, SliceReads, Zenon
  <2>4. r.pos \in (p + 1) .. Len(buf)
    <3>1. r.pos \in n.pos .. Len(buf)
      BY <2>3 DEF Reads
    <3> HIDE DEF n, r
    <3> QED BY <2>1, <3>1, CurrentByte
  <2>5. Reads(r, p + 1)
    BY <2>3, <2>4 DEF Reads
  <2>6. "Utf8" \in Errors
    BY DEF Errors
  <2>7. Reads(Err("Utf8", r.pos), p + 1)
    BY <2>4, <2>6, ErrReads, Zenon
  <2> HIDE DEF b, n, r
  <2> QED BY <1>2, <1>3, <2>5, <2>7, MismatchReads, Zenon
<1>4. CASE ~ n.ok
  <2> HIDE DEF b, n, r
  <2> QED BY <1>1, <1>2, <1>4, MismatchReads, Zenon
<1> QED BY <1>3, <1>4, Zenon

(* One round of bytes_iter or str_iter, f being the rounds behind it.      *)
Chunk(m, f, q) ==
  IF AtEnd(q) THEN Err("EndOfInput", q)
  ELSE IF current(q) = BREAK THEN Ok(<<>>, q + 1)
  ELSE IF ReadStr(m, q).ok THEN f[ReadStr(m, q).pos] ELSE ReadStr(m, q)

(* A round depends only on what is behind it.                              *)
LEMMA ChunkLocal ==
  ASSUME buf \in Seq(Byte), NEW m, NEW q \in 0 .. Len(buf), NEW f, NEW g,
         \A x \in (q + 1) .. Len(buf) : f[x] = g[x]
  PROVE  Chunk(m, f, q) = Chunk(m, g, q)
<1>1. CASE AtEnd(q)
  BY <1>1, Zenon DEF Chunk
<1>2. CASE ~ AtEnd(q)
  <2>1. ReadStr(m, q).pos \in (q + 1) .. Len(buf)
    BY <1>2, StrReads DEF Reads
  <2> QED BY <1>2, <2>1, Zenon DEF Chunk
<1> QED BY <1>1, <1>2, Zenon

(* So the pieces are well defined: the function exists.                    *)
LEMMA ChunksExist ==
  ASSUME buf \in Seq(Byte), NEW m
  PROVE  \E f : f = [q \in 0 .. Len(buf) |-> Chunk(m, f, q)]
<1>1. PICK L \in Nat : L = Len(buf)
  BY LenProperties
<1> DEFINE From(k) == (L - k) .. L
           Good(f, k) == f = [q \in From(k) |-> Chunk(m, f, q)]
           T == {k \in Nat : k <= L => \E f : Good(f, k)}
<1>2. 0 \in T
  <2>1. PICK z : z = Chunk(m, <<>>, L)
    OBVIOUS
  <2>2. PICK f : f = [q \in From(0) |-> z]
    OBVIOUS
  <2>3. L \in 0 .. Len(buf) /\ \A x \in (L + 1) .. Len(buf) : f[x] = <<>>[x]
    BY <1>1
  <2>4. Chunk(m, f, L) = z
    BY <2>1, <2>3, ChunkLocal, Zenon
  <2>5. \A q \in From(0) : q = L
    OBVIOUS
  <2>6. [q \in From(0) |-> z] = [q \in From(0) |-> Chunk(m, f, q)]
    BY <2>4, <2>5, Zenon
  <2>7. Good(f, 0)
    BY <2>2, <2>6, Zenon
  <2> QED BY <2>7
<1>3. ASSUME NEW k \in Nat, k \in T PROVE k + 1 \in T
  <2> SUFFICES ASSUME k + 1 <= L PROVE \E g : Good(g, k + 1)
    OBVIOUS
  <2>1. PICK f : Good(f, k)
    BY <1>3
  <2>2. PICK p \in Nat : p = L - (k + 1)
    OBVIOUS
  <2>3. /\ p \in 0 .. Len(buf) /\ p \notin From(k) /\ (p + 1) .. Len(buf) \subseteq From(k)
        /\ \A q \in From(k + 1) : q = p \/ q \in From(k)
        /\ \A q \in From(k) : q \in 0 .. Len(buf) /\ (q + 1) .. Len(buf) \subseteq From(k)
    BY <1>1, <2>2
  <2>4. PICK g : g = [q \in From(k + 1) |-> IF q = p THEN Chunk(m, f, p) ELSE f[q]]
    OBVIOUS
  <2>5. \A x \in From(k) : x \in From(k + 1)
    OBVIOUS
  <2> HIDE DEF From
  <2>6. \A x \in From(k) : g[x] = f[x] /\ f[x] = Chunk(m, f, x)
    BY <2>1, <2>3, <2>4, <2>5, Zenon
  <2>7. ASSUME NEW q \in From(k) PROVE Chunk(m, g, q) = g[q]
    <3>1. \A x \in (q + 1) .. Len(buf) : f[x] = g[x]
      BY <2>3, <2>6, Zenon
    <3>2. Chunk(m, f, q) = Chunk(m, g, q)
      BY <2>3, <3>1, ChunkLocal, Zenon
    <3> QED BY <2>6, <3>2, Zenon
  <2>8. Chunk(m, f, p) = Chunk(m, g, p)
    <3>1. \A x \in (p + 1) .. Len(buf) : f[x] = g[x]
      BY <2>3, <2>6, Zenon
    <3> QED BY <2>3, <3>1, ChunkLocal, Zenon
  <2>9. ASSUME NEW q \in From(k + 1)
        PROVE  (IF q = p THEN Chunk(m, f, p) ELSE f[q]) = Chunk(m, g, q)
    <3>1. CASE q = p
      BY <2>8, <3>1, Zenon
    <3>2. CASE q # p
      BY <2>3, <2>6, <2>7, <3>2, Zenon
    <3> QED BY <3>1, <3>2, Zenon
  <2>10. [q \in From(k + 1) |-> IF q = p THEN Chunk(m, f, p) ELSE f[q]]
           = [q \in From(k + 1) |-> Chunk(m, g, q)]
    BY <2>9, Zenon
  <2>11. Good(g, k + 1)
    BY <2>4, <2>10, Zenon
  <2> QED BY <2>11, Zenon
<1>4. L \in T
  <2> HIDE DEF T
  <2> QED BY <1>2, <1>3, NatInd, Zenon
<1>5. PICK f : Good(f, L)
  BY <1>4
<1>6. From(L) = 0 .. Len(buf)
  BY <1>1
<1> QED BY <1>5, <1>6, Zenon

(* g gives the pieces from every position on, and ReadChunks those from p. *)
ChunksAre(m, g, p) ==
  ReadChunks(m, p) = g[p] /\ \A q \in 0 .. Len(buf) : g[q] = Chunk(m, g, q)

(* There is such a g: the recursion of ReadChunks always moves forward.    *)
LEMMA ChunksDefined ==
  ASSUME buf \in Seq(Byte), NEW m, NEW p \in 0 .. Len(buf)
  PROVE  \E g : ChunksAre(m, g, p)
<1> DEFINE chunks == CHOOSE g : g = [q \in 0 .. Len(buf) |-> Chunk(m, g, q)]
<1>1. chunks = [q \in 0 .. Len(buf) |-> Chunk(m, chunks, q)]
  BY ChunksExist, Zenon
<1>2. ReadChunks(m, p) = chunks[p]
  BY Zenon DEF ReadChunks, Chunk
<1>3. PICK g : g = chunks
  OBVIOUS
<1>4. \A q \in 0 .. Len(buf) : g[q] = Chunk(m, g, q)
  <2> HIDE DEF chunks
  <2> QED BY <1>1, <1>3, Zenon
<1> HIDE DEF chunks
<1> QED BY <1>2, <1>3, <1>4, Zenon DEF ChunksAre

(* The pieces of a string of unknown length, to its end.                   *)
LEMMA ChunksRead ==
  ASSUME buf \in Seq(Byte), NEW m, NEW p \in 0 .. Len(buf)
  PROVE  Reads(ReadChunks(m, p), p)
<1>2. PICK g : /\ ReadChunks(m, p) = g[p]
               /\ \A q \in 0 .. Len(buf) : g[q] = Chunk(m, g, q)
  BY ChunksDefined, Zenon DEF ChunksAre
<1>4. \A q \in 0 .. Len(buf) : g[q] = Chunk(m, g, q)
  BY <1>2, Zenon
<1>5. PICK L \in Nat : L = Len(buf)
  BY LenProperties
<1> DEFINE Bad == {k \in 0 .. L : ~ Reads(g[L - k], L - k)}
<1>6. ASSUME NEW q \in 0 .. Len(buf), \A x \in (q + 1) .. Len(buf) : Reads(g[x], x)
      PROVE  Reads(g[q], q)
  <2>1. g[q] = Chunk(m, g, q)
    BY <1>4, Zenon
  <2>2. q \in q .. Len(buf) /\ "EndOfInput" \in Errors
    BY <1>5 DEF Errors
  <2>3. CASE AtEnd(q)
    <3>1. g[q] = Err("EndOfInput", q)
      BY <2>1, <2>3, Zenon DEF Chunk
    <3> QED BY <2>2, <3>1, ErrReads, Zenon
  <2>4. CASE ~ AtEnd(q)
    <3>1. PICK r : r = ReadStr(m, q)
      OBVIOUS
    <3>2. Reads(r, q + 1)
      BY <2>4, <3>1, StrReads, Zenon
    <3>3. r.pos \in (q + 1) .. Len(buf) /\ r.ok \in BOOLEAN
      BY <3>2 DEF Reads
    <3>4. g[q] = IF current(q) = BREAK THEN Ok(<<>>, q + 1) ELSE IF r.ok THEN g[r.pos] ELSE r
      BY <2>1, <2>4, <3>1, Zenon DEF Chunk
    <3>5. Reads(Ok(<<>>, q + 1), q)
      <4>1. q + 1 \in q .. Len(buf)
        BY <2>4, CurrentByte
      <4> QED BY <4>1, SMT DEF Reads, Ok
    <3>6. r.ok => Reads(g[r.pos], q)
      <4> SUFFICES ASSUME r.ok PROVE Reads(g[r.pos], q)
        OBVIOUS
      <4>1. PICK v : v = g[r.pos]
        OBVIOUS
      <4>2. Reads(v, r.pos)
        BY <1>6, <3>3, <4>1, Zenon
      <4>3. v.pos \in r.pos .. Len(buf) /\ v.ok \in BOOLEAN /\ (~ v.ok => v.val \in Errors)
        BY <4>2 DEF Reads
      <4>4. v.pos \in q .. Len(buf)
        BY <1>5, <3>3, <4>3
      <4> QED BY <4>1, <4>3, <4>4, Zenon DEF Reads
    <3>7. Reads(r, q)
      <4>1. r.pos \in q .. Len(buf)
        BY <1>5, <3>3
      <4> QED BY <3>2, <4>1, Zenon DEF Reads
    <3> QED BY <3>3, <3>4, <3>5, <3>6, <3>7, Zenon
  <2> QED BY <2>3, <2>4, Zenon
<1>7. Bad = {}
  <2> SUFFICES ASSUME Bad # {} PROVE FALSE
    OBVIOUS
  <2>1. Bad \subseteq Nat
    OBVIOUS
  <2>2. PICK k \in Bad : \A y \in Bad : k <= y
    BY <2>1, NatLeast, Zenon
  <2>3. PICK q \in 0 .. Len(buf) : q = L - k
    BY <1>5
  <2>4. ASSUME NEW x \in (q + 1) .. Len(buf) PROVE Reads(g[x], x)
    <3>1. L - x \in 0 .. L /\ ~ (k <= L - x) /\ L - (L - x) = x
      BY <1>5, <2>3
    <3>2. L - x \notin Bad
      BY <2>2, <3>1, Zenon
    <3>3. Reads(g[L - (L - x)], L - (L - x))
      BY <3>1, <3>2, Zenon
    <3> QED BY <3>1, <3>3, Zenon
  <2>5. Reads(g[q], q)
    BY <1>6, <2>4, Zenon
  <2> QED BY <2>2, <2>3, <2>5, Zenon
<1>8. L - p \in 0 .. L /\ L - (L - p) = p
  BY <1>5
<1>9. L - p \notin Bad
  BY <1>7, Zenon
<1>10. Reads(g[L - (L - p)], L - (L - p))
  BY <1>8, <1>9, Zenon
<1> QED BY <1>2, <1>8, <1>10, Zenon

-----------------------------------------------------------------------------
(* Between two rounds there is something left to skip.                     *)
Pending == outcome = "run" => Counting \/ stack # <<>>

(* The invariant of skip, whatever is in the buffer.                       *)
SkipInv == TypeOK /\ buf \in Seq(Byte) /\ alloc \in BOOLEAN /\ Pending

(* The stack of lengths that skip keeps: numbers of items, and None for a  *)
(* list that ends with a break.                                            *)
Lengths == Seq(Nat \union {None})

(* Lengths that a round may go on with: counted, or on the stack.          *)
Kept(n, i, s) ==
  /\ n \in 0 .. Cap /\ i \in 0 .. Cap /\ s \in Lengths
  /\ s # <<>> => n = 0 /\ i = 0 /\ alloc

(* A stack that is cut after an element, and that element counted down.    *)
LEMMA StackEnd ==
  ASSUME NEW s \in Lengths, NEW k \in 1 .. Len(s)
  PROVE  /\ SubSeq(s, 1, k) \in Lengths /\ SubSeq(s, 1, k) # <<>>
         /\ s[k] \notin {0, None} => [SubSeq(s, 1, k) EXCEPT ![k] = @ - 1] \in Lengths
         /\ [SubSeq(s, 1, k) EXCEPT ![k] = @ - 1] # <<>>
<1> DEFINE t == SubSeq(s, 1, k)
<1>1. Len(s) \in Nat
  BY LenProperties DEF Lengths
<1>2. t \in Lengths /\ Len(t) = k /\ \A i \in 1 .. k : t[i] = s[i]
  <2>1. \A i \in 1 .. k : s[i] \in Nat \union {None}
    BY <1>1, ElementOfSeq DEF Lengths
  <2> QED BY <1>1, <2>1, SubSeqProperties DEF Lengths
<1>3. t # <<>>
  BY <1>2
<1>4. s[k] \in Nat \union {None}
  BY <1>1, ElementOfSeq DEF Lengths
<1> HIDE DEF t
<1>5. ASSUME s[k] \notin {0, None} PROVE [t EXCEPT ![k] = @ - 1] \in Lengths
  <2>1. t[k] - 1 \in Nat
    BY <1>2, <1>4, <1>5
  <2>2. k \in 1 .. Len(t)
    BY <1>1, <1>2
  <2> QED BY <1>2, <2>1, <2>2, ExceptSeq DEF Lengths
<1>6. [t EXCEPT ![k] = @ - 1] # <<>>
  <2>1. k \in DOMAIN t
    BY <1>1, <1>2 DEF Lengths
  <2>2. DOMAIN [t EXCEPT ![k] = @ - 1] = DOMAIN t
    OBVIOUS
  <2>3. DOMAIN <<>> = {}
    OBVIOUS
  <2> QED BY <2>1, <2>2, <2>3, Zenon
<1> QED BY <1>2, <1>3, <1>5, <1>6 DEF t

(* The end of a round keeps the lengths in one place, and goes on only if  *)
(* there is one.                                                           *)
LEMMA EndRoundKeeps ==
  ASSUME NEW n, NEW i, NEW s, Kept(n, i, s), EndRound(n, i, s)
  PROVE  /\ nrounds' \in 0 .. Cap /\ irounds' \in 0 .. Cap /\ stack' \in Lengths
         /\ stack' # <<>> => nrounds' = 0 /\ irounds' = 0 /\ alloc
         /\ outcome' \in {"run", "ok"}
         /\ outcome' = "run" => nrounds' > 0 \/ irounds' > 0 \/ stack' # <<>>
<1>1. n \in Nat /\ i \in Nat /\ n <= Cap /\ i <= Cap /\ s \in Lengths /\ Cap \in Nat
  BY CapType DEF Kept
<1>2. CASE n = 0 /\ i = 0
  <2> DEFINE Left == {k \in DOMAIN s : s[k] # 0}
             open == Max({0} \union Left)
  <2>1. /\ nrounds' = 0 /\ irounds' = 0
        /\ stack' = IF open > 0 /\ s[open] # None
                       THEN [SubSeq(s, 1, open) EXCEPT ![open] = @ - 1]
                       ELSE SubSeq(s, 1, open)
        /\ outcome' = IF open = 0 THEN "ok" ELSE "run"
    BY <1>2, Zenon DEF EndRound
  <2>2. Len(s) \in Nat /\ DOMAIN s = 1 .. Len(s)
    BY <1>1, LenProperties DEF Lengths
  <2>3. {0} \union Left \subseteq 0 .. Len(s) /\ {0} \union Left # {}
    BY <2>2
  <2>4. open \in {0} \union Left
    BY <2>2, <2>3, MaxOf
  <2>5. PICK o : o = open
    OBVIOUS
  <2>6. o = 0 \/ (o \in 1 .. Len(s) /\ s[o] # 0)
    BY <2>2, <2>4, <2>5
  <2> HIDE DEF open
  <2>7. CASE o = 0
    <3>1. ~ (o > 0) /\ SubSeq(s, 1, 0) = <<>> /\ <<>> \in Lengths
      BY <2>7 DEF Lengths
    <3>2. stack' = <<>> /\ outcome' = "ok"
      BY <2>1, <2>5, <2>7, <3>1, Zenon
    <3>3. 0 \in 0 .. Cap /\ "ok" # "run"
      BY <1>1
    <3> QED BY <2>1, <3>1, <3>2, <3>3, Zenon
  <2>8. CASE o \in 1 .. Len(s) /\ s[o] # 0
    <3>1. stack' \in Lengths /\ stack' # <<>>
      <4>1. CASE o > 0 /\ s[o] # None
        <5>1. stack' = [SubSeq(s, 1, o) EXCEPT ![o] = @ - 1]
          BY <2>1, <2>5, <4>1, Zenon
        <5> QED BY <1>1, <2>8, <4>1, <5>1, StackEnd, Zenon
      <4>2. CASE ~ (o > 0 /\ s[o] # None)
        <5>1. stack' = SubSeq(s, 1, o)
          BY <2>1, <2>5, <4>2, Zenon
        <5> QED BY <1>1, <2>8, <5>1, StackEnd, Zenon
      <4> QED BY <4>1, <4>2, Zenon
    <3>2. s # <<>>
      BY <2>2, <2>8
    <3>3. o # 0
      BY <2>8
    <3>4. outcome' = "run"
      BY <2>1, <2>5, <3>3, Zenon
    <3>5. alloc
      BY <3>2, Zenon DEF Kept
    <3>6. 0 \in 0 .. Cap
      BY <1>1
    <3> QED BY <2>1, <3>1, <3>4, <3>5, <3>6, Zenon
  <2> QED BY <2>6, <2>7, <2>8, Zenon
<1>3. CASE ~ (n = 0 /\ i = 0)
  <2>1. /\ nrounds' = Max({0, n - 1}) /\ irounds' = i /\ stack' = s
        /\ outcome' = IF n <= 1 /\ i = 0 /\ s = <<>> THEN "ok" ELSE "run"
    BY <1>3, Zenon DEF EndRound
  <2>2. s = <<>>
    BY <1>3, Zenon DEF Kept
  <2>3. n - 1 \in Int
    BY <1>1
  <2>4. nrounds' = IF n - 1 >= 0 THEN n - 1 ELSE 0
    BY <2>1, <2>3, MaxPair, Zenon
  <2>5. nrounds' \in 0 .. Cap /\ irounds' \in 0 .. Cap
    BY <1>1, <2>1, <2>4
  <2>6. ~ (n <= 1 /\ i = 0) => nrounds' > 0 \/ irounds' > 0
    BY <1>1, <2>1, <2>4
  <2>7. outcome' = "run" => ~ (n <= 1 /\ i = 0)
    <3>1. "ok" # "run"
      OBVIOUS
    <3> QED BY <2>1, <2>2, <3>1, Zenon
  <2>8. outcome' \in {"run", "ok"}
    BY <2>1, Zenon
  <2> QED BY <1>1, <2>1, <2>2, <2>5, <2>6, <2>7, <2>8, Zenon
<1> QED BY <1>2, <1>3, Zenon

(* A round of skip that reads r, and goes on with the lengths n, i, s.     *)
LEMMA RoundKeeps ==
  ASSUME SkipInv, NEW r, NEW n, NEW i, NEW s,
         Reads(r, pos), r.ok => r.pos > pos, r.ok => Kept(n, i, s), Round(r, n, i, s)
  PROVE  SkipInv' /\ (pos' > pos \/ outcome' # "run")
<1>1. /\ pos' = r.pos
      /\ IF r.ok THEN EndRound(n, i, s)
         ELSE outcome' = r.val /\ UNCHANGED <<nrounds, irounds, stack>>
      /\ buf' = buf /\ alloc' = alloc
  BY DEF Round
<1>2. r.ok \in BOOLEAN /\ r.pos \in pos .. Len(buf) /\ (~ r.ok => r.val \in Errors)
  BY DEF Reads
<1>3. /\ pos \in 0 .. Len(buf) /\ nrounds \in 0 .. Cap /\ irounds \in 0 .. Cap
      /\ stack \in Lengths /\ (stack # <<>> => ~ Counting /\ alloc)
      /\ buf \in Seq(Byte) /\ alloc \in BOOLEAN
  BY Zenon DEF SkipInv, TypeOK, Lengths
<1>4. pos' \in 0 .. Len(buf')
  <2>1. Len(buf) \in Nat
    BY <1>3, LenProperties
  <2> QED BY <1>1, <1>2, <1>3, <2>1
<1>5. buf' \in Seq(Byte) /\ alloc' \in BOOLEAN
  BY <1>1, <1>3, Zenon
<1>6. CASE r.ok
  <2>1. /\ nrounds' \in 0 .. Cap /\ irounds' \in 0 .. Cap /\ stack' \in Lengths
        /\ stack' # <<>> => nrounds' = 0 /\ irounds' = 0 /\ alloc
        /\ outcome' \in {"run", "ok"}
        /\ outcome' = "run" => nrounds' > 0 \/ irounds' > 0 \/ stack' # <<>>
    <3>1. EndRound(n, i, s) /\ Kept(n, i, s)
      BY <1>1, <1>6, Zenon
    <3> QED BY <3>1, EndRoundKeeps
  <2>2. stack' # <<>> => ~ (nrounds' > 0 \/ irounds' > 0) /\ alloc'
    <3>1. stack' # <<>> => ~ (nrounds' > 0) /\ ~ (irounds' > 0)
      BY <2>1
    <3> QED BY <1>1, <2>1, <3>1, Zenon
  <2>3. TypeOK'
    BY <1>4, <2>1, <2>2, Zenon DEF TypeOK, Lengths, Counting
  <2>4. Pending'
    BY <2>1, Zenon DEF Pending, Counting
  <2>5. pos' > pos
    BY <1>1, <1>6
  <2> QED BY <1>5, <2>3, <2>4, <2>5, Zenon DEF SkipInv
<1>7. CASE ~ r.ok
  <2>1. outcome' = r.val /\ nrounds' = nrounds /\ irounds' = irounds /\ stack' = stack
    BY <1>1, <1>7, Zenon
  <2>2. outcome' \in Errors
    BY <1>2, <1>7, <2>1, Zenon
  <2>3. outcome' # "run" /\ outcome' \in {"run", "ok", "EndOfInput", "TypeMismatch", "Utf8", "Message"}
    BY <2>2 DEF Errors
  <2>4. Counting' = Counting
    BY <2>1, Zenon DEF Counting
  <2>5. TypeOK'
    BY <1>1, <1>3, <1>4, <2>1, <2>3, <2>4, Zenon DEF TypeOK, Lengths
  <2>6. Pending'
    BY <2>3, Zenon DEF Pending
  <2> QED BY <1>5, <2>3, <2>5, <2>6, Zenon DEF SkipInv
<1> QED BY <1>2, <1>6, <1>7, Zenon

(* What holds before every round, apart from its kind.                     *)
LEMMA Before ==
  ASSUME SkipInv
  PROVE  /\ pos \in 0 .. Len(buf) /\ Len(buf) \in Nat /\ buf \in Seq(Byte)
         /\ Kept(nrounds, irounds, stack)
         /\ Counting => stack = <<>>
         /\ outcome = "run" /\ ~ Counting => stack # <<>> /\ alloc
<1>1. /\ pos \in 0 .. Len(buf) /\ nrounds \in 0 .. Cap /\ irounds \in 0 .. Cap
      /\ stack \in Lengths /\ (stack # <<>> => ~ Counting /\ alloc)
      /\ buf \in Seq(Byte) /\ (outcome = "run" => Counting \/ stack # <<>>)
  BY Zenon DEF SkipInv, TypeOK, Lengths, Pending
<1>2. Len(buf) \in Nat
  BY <1>1, LenProperties
<1>3. ~ Counting => nrounds = 0 /\ irounds = 0
  BY <1>1, CapType DEF Counting
<1>4. Kept(nrounds, irounds, stack)
  BY <1>1, <1>3, Zenon DEF Kept
<1> QED BY <1>1, <1>2, <1>4, Zenon

(* Skip is at a byte of the buffer.                                        *)
LEMMA AtHead ==
  ASSUME SkipInv, NEW m, At(m)
  PROVE  /\ outcome = "run" /\ ~ AtEnd(pos) /\ Info \in 0 .. 31
         /\ pos + 1 \in 0 .. Len(buf) /\ pos \in 0 .. Len(buf) /\ Len(buf) \in Nat
         /\ buf \in Seq(Byte)
<1>1. outcome = "run" /\ ~ AtEnd(pos)
  BY Zenon DEF At
<1>2. PICK p \in 0 .. Len(buf) : p = pos
  BY Before
<1>3. Info \in 0 .. 31 /\ p + 1 \in 0 .. Len(buf)
  BY <1>1, <1>2, Before, CurrentByte, Zenon DEF Info
<1> QED BY <1>1, <1>2, <1>3, Before, Zenon

(* A reader that starts behind the head moves forward.                     *)
LEMMA Forward ==
  ASSUME NEW p \in Nat, NEW r, Reads(r, p + 1)
  PROVE  Reads(r, p) /\ (r.ok => r.pos > p)
<1>1. r.pos \in (p + 1) .. Len(buf) /\ r.ok \in BOOLEAN /\ (~ r.ok => r.val \in Errors)
  BY DEF Reads
<1>2. r.pos \in p .. Len(buf) /\ r.pos > p
  BY <1>1
<1> QED BY <1>1, <1>2, Zenon DEF Reads

(* The number behind the head of the item at pos.                          *)
LEMMA HeadNumber ==
  ASSUME SkipInv, NEW m, At(m)
  PROVE  \E r : /\ r = unsigned(Info, pos + 1)
                /\ Reads(r, pos) /\ (r.ok => r.pos > pos /\ NatOf(r.val) \in 0 .. Cap)
<1>1. PICK p \in Nat : p = pos
  BY AtHead
<1>2. PICK r : r = unsigned(Info, p + 1)
  OBVIOUS
<1>3. PICK i \in 0 .. 31 : i = Info
  BY AtHead
<1>4. Reads(r, p + 1) /\ (r.ok => r.val \in Seq(Byte))
  <2>1. buf \in Seq(Byte) /\ p + 1 \in 0 .. Len(buf)
    BY <1>1, AtHead, Zenon
  <2> QED BY <1>2, <1>3, <2>1, UnsignedReads, Zenon
<1>5. Reads(r, p) /\ (r.ok => r.pos > p)
  BY <1>4, Forward, Zenon
<1>6. r.ok => NatOf(r.val) \in 0 .. Cap
  BY <1>4, NatOfType, Zenon
<1> QED BY <1>1, <1>2, <1>5, <1>6, Zenon

(* One byte was read.                                                      *)
LEMMA HeadOnly ==
  ASSUME SkipInv, NEW m, At(m), NEW v
  PROVE  Reads(Ok(v, pos + 1), pos) /\ (Ok(v, pos + 1).ok => Ok(v, pos + 1).pos > pos)
<1>1. pos + 1 \in pos .. Len(buf) /\ pos + 1 > pos
  BY AtHead
<1> QED BY <1>1, SMT DEF Reads, Ok

(* A step keeps the invariant, and moves forward or ends skip.             *)
Keeps == SkipInv' /\ (pos' > pos \/ outcome' # "run")

(* One lemma for each action.                                              *)
LEMMA EndKeeps == ASSUME SkipInv, SkipEndOfInput PROVE Keeps
<1>1. /\ outcome' = "EndOfInput" /\ UNCHANGED <<item, size, buf, alloc, pos, nrounds, irounds, stack>>
  BY Zenon DEF SkipEndOfInput
<1>2. outcome' # "run" /\ outcome' \in {"run", "ok", "EndOfInput", "TypeMismatch", "Utf8", "Message"}
  BY <1>1
<1>3. Counting' = Counting
  BY <1>1, Zenon DEF Counting
<1>4. TypeOK' /\ Pending'
  BY <1>1, <1>2, <1>3, Zenon DEF SkipInv, TypeOK, Pending
<1> QED BY <1>1, <1>2, <1>4, Zenon DEF SkipInv, Keeps

LEMMA ScalarKeeps == ASSUME SkipInv, SkipScalar PROVE Keeps
<1>1. PICK m : At(m)
  BY Zenon DEF SkipScalar
<1>2. PICK r : r = unsigned(Info, pos + 1) /\ Reads(r, pos) /\ (r.ok => r.pos > pos)
  BY <1>1, HeadNumber, Zenon
<1>3. PICK n, i, s : n = nrounds /\ i = irounds /\ s = stack
  OBVIOUS
<1>4. Round(r, n, i, s) /\ Kept(n, i, s)
  BY <1>2, <1>3, Before, Zenon DEF SkipScalar
<1> QED BY <1>2, <1>4, RoundKeeps, Zenon DEF Keeps

LEMMA StringKeeps == ASSUME SkipInv, NEW m, SkipString(m) PROVE Keeps
<1>1. At(m)
  BY Zenon DEF SkipString
<1>2. PICK p \in Nat : p = pos
  BY <1>1, AtHead
<1>3. p \in 0 .. Len(buf) /\ p + 1 \in 0 .. Len(buf) /\ buf \in Seq(Byte) /\ ~ AtEnd(p)
  BY <1>1, <1>2, AtHead, Zenon
<1>4. PICK r : r = IF Info = Indefinite THEN ReadChunks(m, p + 1) ELSE ReadStr(m, p)
  OBVIOUS
<1>5. Reads(r, p + 1)
  BY <1>3, <1>4, ChunksRead, StrReads, Zenon
<1>6. Reads(r, p) /\ (r.ok => r.pos > p)
  BY <1>5, Forward, Zenon
<1>7. PICK n, i, s : n = nrounds /\ i = irounds /\ s = stack
  OBVIOUS
<1>8. Round(r, n, i, s) /\ Kept(n, i, s)
  BY <1>2, <1>4, <1>7, Before, Zenon DEF SkipString
<1> QED BY <1>2, <1>6, <1>8, RoundKeeps, Zenon DEF Keeps

(* Saturating arithmetic stays below the cap.                              *)
LEMMA Saturates ==
  ASSUME NEW a \in 0 .. Cap, NEW b \in 0 .. Cap
  PROVE  saturating_add(a, b) \in 0 .. Cap /\ saturating_mul(a, 2) \in 0 .. Cap
<1>1. a \in Nat /\ b \in Nat /\ Cap \in Nat
  BY CapType
<1>2. a + b \in Nat /\ a * 2 \in Nat
  BY <1>1
<1>3. saturating_add(a, b) = (IF a + b <= Cap THEN a + b ELSE Cap)
  BY <1>1, <1>2, MinPair DEF saturating_add
<1>4. saturating_mul(a, 2) = (IF a * 2 <= Cap THEN a * 2 ELSE Cap)
  BY <1>1, <1>2, MinPair DEF saturating_mul
<1> QED BY <1>1, <1>2, <1>3, <1>4

(* A length is pushed only by the build that has a stack.                  *)
LEMMA Pushed ==
  ASSUME SkipInv, outcome = "run", ~ Counting, NEW x \in Nat \union {None}
  PROVE  Kept(0, 0, Append(stack, x))
<1>1. alloc /\ stack \in Lengths
  BY Before, Zenon DEF Kept
<1>2. Append(stack, x) \in Lengths
  BY <1>1 DEF Lengths
<1>3. 0 \in 0 .. Cap
  BY CapType
<1> QED BY <1>1, <1>2, <1>3, Zenon DEF Kept

LEMMA SizedKeeps == ASSUME SkipInv, NEW m, SkipSized(m) PROVE Keeps
<1>1. At(m)
  BY Zenon DEF SkipSized
<1>2. PICK r : /\ r = unsigned(Info, pos + 1) /\ Reads(r, pos)
               /\ (r.ok => r.pos > pos /\ NatOf(r.val) \in 0 .. Cap)
  BY <1>1, HeadNumber, Zenon
<1>3. PICK k : k = IF m = MAP THEN saturating_mul(NatOf(r.val), 2) ELSE NatOf(r.val)
  OBVIOUS
<1>4. r.ok => k \in 0 .. Cap
  BY <1>2, <1>3, Saturates, Zenon
<1>5. IF ~ r.ok \/ k = 0 THEN Round(r, nrounds, irounds, stack)
      ELSE IF Counting THEN Round(r, saturating_add(nrounds, k), irounds, stack)
      ELSE Round(r, 0, 0, Append(stack, k))
  BY <1>2, <1>3, Zenon DEF SkipSized
<1>6. PICK n, i, s : n = nrounds /\ i = irounds /\ s = stack
  OBVIOUS
<1>7. Kept(n, i, s) /\ (Counting => s = <<>>) /\ outcome = "run"
  BY <1>1, <1>6, Before, AtHead, Zenon
<1>8. CASE ~ r.ok \/ k = 0
  <2>1. Round(r, n, i, s)
    BY <1>5, <1>6, <1>8, Zenon
  <2> QED BY <1>2, <1>7, <2>1, RoundKeeps, Zenon DEF Keeps
<1>9. CASE r.ok /\ Counting
  <2> SUFFICES ASSUME k # 0 PROVE Keeps
    BY <1>8, Zenon
  <2>1. Round(r, saturating_add(n, k), i, s)
    BY <1>5, <1>6, <1>9, Zenon
  <2>2. saturating_add(n, k) \in 0 .. Cap
    BY <1>4, <1>7, <1>9, Saturates, Zenon DEF Kept
  <2>3. Kept(saturating_add(n, k), i, s)
    BY <1>7, <1>9, <2>2, Zenon DEF Kept
  <2> QED BY <1>2, <2>1, <2>3, RoundKeeps, Zenon DEF Keeps
<1>10. CASE r.ok /\ ~ Counting
  <2> SUFFICES ASSUME k # 0 PROVE Keeps
    BY <1>8, Zenon
  <2>1. PICK t : t = Append(stack, k)
    OBVIOUS
  <2>2. Round(r, 0, 0, t)
    BY <1>5, <1>10, <2>1, Zenon
  <2>3. k \in Nat \union {None}
    BY <1>4, <1>10, CapType
  <2>4. Kept(0, 0, t)
    BY <1>7, <1>10, <2>1, <2>3, Pushed, Zenon
  <2> QED BY <1>2, <2>2, <2>4, RoundKeeps, Zenon DEF Keeps
<1> QED BY <1>8, <1>9, <1>10, Zenon

LEMMA OpenKeeps == ASSUME SkipInv, NEW m, SkipOpen(m) PROVE Keeps
<1>1. At(m)
  BY Zenon DEF SkipOpen
<1>2. PICK r : r = Ok(<<>>, pos + 1)
  OBVIOUS
<1>3. Reads(r, pos) /\ (r.ok => r.pos > pos)
  BY <1>1, <1>2, HeadOnly, Zenon
<1>4. IF ~ Counting THEN Round(r, 0, 0, Append(stack, None))
      ELSE IF nrounds < 2
      THEN Round(r, nrounds, saturating_add(irounds, 1), stack)
      ELSE IF alloc
      THEN Round(r, 0, 0, stack \o [i \in 1 .. irounds |-> None] \o <<nrounds - 1, None>>)
      ELSE Round(Err("Message", pos + 1), 0, 0, stack)
  BY <1>2, Zenon DEF SkipOpen
<1>5. PICK n, i, s : n = nrounds /\ i = irounds /\ s = stack
  OBVIOUS
<1>6. Kept(n, i, s) /\ (Counting => s = <<>>) /\ outcome = "run"
  BY <1>1, <1>5, Before, AtHead, Zenon
<1>7. CASE ~ Counting
  <2>1. PICK t : t = Append(stack, None)
    OBVIOUS
  <2>2. Round(r, 0, 0, t)
    BY <1>4, <1>7, <2>1, Zenon
  <2>3. None \in Nat \union {None}
    BY Zenon
  <2>4. Kept(0, 0, t)
    BY <1>6, <1>7, <2>1, <2>3, Pushed, Zenon
  <2> QED BY <1>3, <2>2, <2>4, RoundKeeps, Zenon DEF Keeps
<1>8. CASE Counting /\ nrounds < 2
  <2>1. Round(r, n, saturating_add(i, 1), s)
    BY <1>4, <1>5, <1>8, Zenon
  <2>2. 1 \in 0 .. Cap
    BY CapType
  <2>3. saturating_add(i, 1) \in 0 .. Cap
    BY <1>6, <2>2, Saturates, Zenon DEF Kept
  <2>4. Kept(n, saturating_add(i, 1), s)
    BY <1>6, <1>8, <2>3, Zenon DEF Kept
  <2> QED BY <1>3, <2>1, <2>4, RoundKeeps, Zenon DEF Keeps
<1>9. CASE Counting /\ ~ (nrounds < 2) /\ alloc
  <2>1. PICK t : t = stack \o [j \in 1 .. irounds |-> None] \o <<nrounds - 1, None>>
    OBVIOUS
  <2>2. Round(r, 0, 0, t)
    BY <1>4, <1>9, <2>1, Zenon
  <2>3. t \in Lengths
    <3>1. stack \in Lengths /\ nrounds \in Nat /\ irounds \in Nat
      BY <1>5, <1>6, CapType DEF Kept
    <3>2. [j \in 1 .. irounds |-> None] \in Lengths
      BY <3>1 DEF Lengths
    <3>3. nrounds - 1 \in Nat
      BY <1>9, <3>1
    <3>4. <<nrounds - 1, None>> \in Lengths
      BY <3>3 DEF Lengths
    <3> QED BY <2>1, <3>1, <3>2, <3>4, ConcatProperties DEF Lengths
  <2>4. 0 \in 0 .. Cap
    BY CapType
  <2>5. Kept(0, 0, t)
    BY <1>9, <2>3, <2>4, Zenon DEF Kept
  <2> QED BY <1>3, <2>2, <2>5, RoundKeeps, Zenon DEF Keeps
<1>10. CASE Counting /\ ~ (nrounds < 2) /\ ~ alloc
  <2>1. PICK e : e = Err("Message", pos + 1)
    OBVIOUS
  <2>2. Round(e, 0, 0, s)
    BY <1>4, <1>5, <1>10, <2>1, Zenon
  <2>3. pos + 1 \in pos .. Len(buf) /\ "Message" \in Errors
    BY <1>1, AtHead DEF Errors
  <2>4. Reads(e, pos) /\ ~ e.ok
    BY <2>1, <2>3, SMT DEF Reads, Err
  <2> QED BY <2>2, <2>4, RoundKeeps, Zenon DEF Keeps
<1> QED BY <1>7, <1>8, <1>9, <1>10, Zenon

LEMMA TagKeeps == ASSUME SkipInv, SkipTag PROVE Keeps
<1>1. At(TAGGED)
  BY Zenon DEF SkipTag
<1>2. PICK r : r = unsigned(Info, pos + 1) /\ Reads(r, pos) /\ (r.ok => r.pos > pos)
  BY <1>1, HeadNumber, Zenon
<1>3. /\ pos' = r.pos /\ outcome' = IF r.ok THEN "run" ELSE r.val
      /\ UNCHANGED <<item, size, buf, alloc, nrounds, irounds, stack>>
  BY <1>2, Zenon DEF SkipTag
<1>4. r.ok \in BOOLEAN /\ r.pos \in pos .. Len(buf) /\ (~ r.ok => r.val \in Errors)
  BY <1>2 DEF Reads
<1>5. pos' \in 0 .. Len(buf')
  BY <1>1, <1>3, <1>4, AtHead
<1>6. Counting' = Counting /\ buf' = buf /\ alloc' = alloc
  BY <1>3, Zenon DEF Counting
<1>7. outcome' \in {"run"} \union Errors /\ (~ r.ok => outcome' \in Errors)
  BY <1>3, <1>4, Zenon
<1>8. /\ outcome' \in {"run", "ok", "EndOfInput", "TypeMismatch", "Utf8", "Message"}
      /\ ~ r.ok => outcome' # "run"
  BY <1>7, Zenon DEF Errors
<1>9. TypeOK'
  <2>1. nrounds' = nrounds /\ irounds' = irounds /\ stack' = stack
    BY <1>3, Zenon
  <2>2. /\ nrounds \in 0 .. Cap /\ irounds \in 0 .. Cap /\ stack \in Seq(Nat \union {None})
        /\ stack # <<>> => ~ Counting /\ alloc
    BY Zenon DEF SkipInv, TypeOK
  <2> QED BY <1>5, <1>6, <1>8, <2>1, <2>2, Zenon DEF TypeOK
<1>10. outcome = "run"
  BY <1>1, AtHead, Zenon
<1>11. Pending'
  BY <1>3, <1>6, <1>10, Zenon DEF SkipInv, Pending
<1>12. SkipInv'
  BY <1>6, <1>9, <1>11, Zenon DEF SkipInv
<1> QED BY <1>2, <1>3, <1>4, <1>8, <1>12, Zenon DEF Keeps

LEMMA BreakKeeps == ASSUME SkipInv, SkipBreak PROVE Keeps
<1>1. At(SIMPLE)
  BY Zenon DEF SkipBreak
<1>2. PICK r : r = Ok(<<>>, pos + 1)
  OBVIOUS
<1>3. Reads(r, pos) /\ (r.ok => r.pos > pos)
  BY <1>1, <1>2, HeadOnly, Zenon
<1>4. IF Counting THEN Round(r, nrounds, Max({0, irounds - 1}), stack)
      ELSE Round(r, 0, 0, IF Last(stack) = None THEN Front(stack) ELSE stack)
  BY <1>2, Zenon DEF SkipBreak
<1>5. PICK n, i, s : n = nrounds /\ i = irounds /\ s = stack
  OBVIOUS
<1>6. Kept(n, i, s) /\ (Counting => s = <<>>) /\ (~ Counting => s # <<>> /\ alloc)
  BY <1>1, <1>5, Before, AtHead, Zenon
<1>7. CASE Counting
  <2>1. PICK j : j = Max({0, i - 1})
    OBVIOUS
  <2>2. Round(r, n, j, s)
    BY <1>4, <1>5, <1>7, <2>1, Zenon
  <2>3. i \in 0 .. Cap /\ Cap \in Nat
    BY <1>6, CapType DEF Kept
  <2>4. j = IF i - 1 >= 0 THEN i - 1 ELSE 0
    BY <2>1, <2>3, MaxPair
  <2>5. j \in 0 .. Cap
    BY <2>3, <2>4
  <2>6. Kept(n, j, s)
    BY <1>6, <1>7, <2>5, Zenon DEF Kept
  <2> QED BY <1>3, <2>2, <2>6, RoundKeeps, Zenon DEF Keeps
<1>8. CASE ~ Counting
  <2>1. PICK t : t = IF Last(stack) = None THEN Front(stack) ELSE stack
    OBVIOUS
  <2>2. Round(r, 0, 0, t)
    BY <1>4, <1>8, <2>1, Zenon
  <2>3. s \in Lengths /\ s # <<>> /\ alloc
    BY <1>6, <1>8, Zenon DEF Kept
  <2>4. Front(s) \in Lengths
    <3>1. Front(s) = SubSeq(s, 1, Len(s) - 1)
      BY Zenon DEF Front
    <3>2. Len(s) \in Nat \ {0} /\ \A k \in 1 .. (Len(s) - 1) : s[k] \in Nat \union {None}
      BY <2>3, EmptySeq, LenProperties, ElementOfSeq DEF Lengths
    <3> QED BY <2>3, <3>1, <3>2, SubSeqProperties DEF Lengths
  <2>5. t \in Lengths
    BY <1>5, <2>1, <2>3, <2>4, Zenon
  <2>6. 0 \in 0 .. Cap
    BY CapType
  <2>7. Kept(0, 0, t)
    BY <2>3, <2>5, <2>6, Zenon DEF Kept
  <2> QED BY <1>3, <2>2, <2>7, RoundKeeps, Zenon DEF Keeps
<1> QED BY <1>7, <1>8, Zenon

LEMMA UnknownKeeps == ASSUME SkipInv, SkipUnknown PROVE Keeps
<1>1. PICK m : At(m)
  BY Zenon DEF SkipUnknown
<1>2. PICK e : e = Err("TypeMismatch", pos)
  OBVIOUS
<1>3. pos \in pos .. Len(buf) /\ "TypeMismatch" \in Errors
  BY <1>1, AtHead DEF Errors
<1>4. Reads(e, pos) /\ ~ e.ok
  BY <1>2, <1>3, SMT DEF Reads, Err
<1>5. PICK n, i, s : n = nrounds /\ i = irounds /\ s = stack
  OBVIOUS
<1>6. Round(e, n, i, s)
  BY <1>2, <1>5, Zenon DEF SkipUnknown
<1> QED BY <1>4, <1>6, RoundKeeps, Zenon DEF Keeps

(* Any input is read by a decoder in this state.                           *)
LEMMA InitKeeps == Init => SkipInv
<1> SUFFICES ASSUME Init PROVE SkipInv
  OBVIOUS
<1>1. PICK x \in Inputs :
        /\ \E lost \in (IF x.cut THEN 0 .. Len(Bytes(x.item, x.form)) ELSE {0}) :
             buf = IF lost = 0 /\ size < Cap THEN Bytes(x.item, x.form) \o <<0>>
                   ELSE SubSeq(Bytes(x.item, x.form), 1, Len(Bytes(x.item, x.form)) - lost)
        /\ alloc \in BOOLEAN
        /\ pos = 0 /\ nrounds = 1 /\ irounds = 0 /\ stack = <<>> /\ outcome = "run"
  BY Zenon DEF Init
<1>2. PICK e : e = Bytes(x.item, x.form)
  OBVIOUS
<1>3. e \in Seq(Byte)
  BY <1>2, BytesAssumption, Zenon
<1>4. PICK lost \in (IF x.cut THEN 0 .. Len(e) ELSE {0}) :
        buf = IF lost = 0 /\ size < Cap THEN e \o <<0>> ELSE SubSeq(e, 1, Len(e) - lost)
  BY <1>1, <1>2, Zenon
<1>5. Len(e) \in Nat /\ lost \in 0 .. Len(e)
  BY <1>3, LenProperties
<1>6. e \o <<0>> \in Seq(Byte)
  <2>1. 0 \in Byte
    BY DEF Byte
  <2>2. <<0>> \in Seq(Byte)
    BY <2>1
  <2> QED BY <1>3, <2>2, ConcatProperties
<1>7. SubSeq(e, 1, Len(e) - lost) \in Seq(Byte)
  <2>1. \A k \in 1 .. (Len(e) - lost) : e[k] \in Byte
    BY <1>3, <1>5, ElementOfSeq
  <2> QED BY <1>3, <1>5, <2>1, SubSeqProperties
<1>8. buf \in Seq(Byte)
  BY <1>4, <1>6, <1>7, Zenon
<1>9. 0 \in 0 .. Len(buf) /\ 1 \in 0 .. Cap /\ 0 \in 0 .. Cap /\ 1 > 0
  BY <1>8, LenProperties, CapType
<1>10. <<>> \in Seq(Nat \union {None})
  OBVIOUS
<1>11. TypeOK
  BY <1>1, <1>9, <1>10, Zenon DEF TypeOK
<1>12. Pending
  BY <1>1, <1>9, Zenon DEF Pending, Counting
<1> QED BY <1>1, <1>8, <1>11, <1>12, Zenon DEF SkipInv

(* Every step keeps the invariant.                                         *)
LEMMA StepKeeps == SkipInv /\ [Next]_vars => SkipInv'
<1> SUFFICES ASSUME SkipInv, [Next]_vars PROVE SkipInv'
  OBVIOUS
<1>1. CASE UNCHANGED vars
  BY <1>1, Zenon DEF vars, SkipInv, TypeOK, Pending, Counting
<1>2. CASE Next
  BY <1>2, EndKeeps, ScalarKeeps, StringKeeps, SizedKeeps, OpenKeeps, TagKeeps, BreakKeeps,
     UnknownKeeps, Zenon DEF Next, Keeps
<1> QED BY <1>1, <1>2, Zenon

(* Decoder::skip never moves behind its buffer, never has lengths in the   *)
(* counters and on the stack at once, and has a stack only in the build    *)
(* with "alloc": for every input, well-formed or not, and every depth of   *)
(* nesting.                                                                *)
THEOREM SkipTyped == Spec => []TypeOK
<1>1. SkipInv => TypeOK
  BY Zenon DEF SkipInv
<1> QED BY <1>1, InitKeeps, StepKeeps, PTL DEF Spec

(* Every round of skip consumes a byte or is the last one: the loop ends   *)
(* after at most as many rounds as there are bytes, whatever lengths they  *)
(* promise.                                                                *)
THEOREM SkipAdvances == Spec => [][pos' > pos \/ outcome' # "run"]_vars
<1>1. SkipInv /\ [Next]_vars => [pos' > pos \/ outcome' # "run"]_vars
  <2> SUFFICES ASSUME SkipInv, Next PROVE pos' > pos \/ outcome' # "run"
    OBVIOUS
  <2> QED BY EndKeeps, ScalarKeeps, StringKeeps, SizedKeeps, OpenKeeps, TagKeeps, BreakKeeps,
             UnknownKeeps, Zenon DEF Next, Keeps
<1> QED BY <1>1, InitKeeps, StepKeeps, PTL DEF Spec

-----------------------------------------------------------------------------
(* A number written in v bytes is read back from them.                     *)
LEMMA BytesOfNumber ==
  ASSUME NEW n, Number(n), NEW v \in Nat, Len(n) <= v
  PROVE  /\ to_be_bytes(n, v) \in Seq(Byte) /\ Len(to_be_bytes(n, v)) = v
         /\ Strip(to_be_bytes(n, v)) = n
<1>1. n \in Seq(Byte) /\ (n # <<>> => n[1] # 0)
  BY DEF Number
<1>2. PICK l \in Nat : l = Len(n) /\ l <= v
  BY <1>1, LenProperties
<1>3. PICK B : B = to_be_bytes(n, v)
  OBVIOUS
<1>4. B = [i \in 1 .. v |-> IF i <= v - l THEN 0 ELSE n[i - (v - l)]]
  BY <1>2, <1>3, Zenon DEF to_be_bytes
<1>5. \A i \in 1 .. v : B[i] = IF i <= v - l THEN 0 ELSE n[i - (v - l)]
  BY <1>4
<1>6. \A i \in 1 .. v : B[i] \in Byte
  <2> SUFFICES ASSUME NEW i \in 1 .. v PROVE B[i] \in Byte
    OBVIOUS
  <2>1. CASE i <= v - l
    <3>1. 0 \in Byte
      BY DEF Byte
    <3> QED BY <1>5, <2>1, <3>1
  <2>2. CASE ~ (i <= v - l)
    <3>1. i - (v - l) \in 1 .. Len(n)
      BY <1>2, <2>2
    <3>2. n[i - (v - l)] \in Byte
      BY <1>1, <3>1, ElementOfSeq
    <3> QED BY <1>5, <2>2, <3>2
  <2> QED BY <2>1, <2>2
<1>7. B \in Seq(Byte) /\ Len(B) = v
  <2>1. B \in [1 .. v -> Byte]
    BY <1>4, <1>6
  <2> QED BY <2>1
<1>8. PICK k \in 0 .. v : /\ Strip(B) = SubSeq(B, k + 1, v)
                          /\ \A i \in 1 .. k : B[i] = 0
                          /\ k < v => B[k + 1] # 0
  BY <1>7, StripType
<1>9. k = v - l
  <2>1. ASSUME k < v - l PROVE FALSE
    <3>1. k + 1 \in 1 .. v /\ k + 1 <= v - l /\ k < v
      BY <1>2, <2>1
    <3> QED BY <1>5, <1>8, <3>1
  <2>2. ASSUME k > v - l PROVE FALSE
    <3>1. l # 0 /\ (v - l) + 1 \in 1 .. k /\ (v - l) + 1 \in 1 .. v
          /\ ~ ((v - l) + 1 <= v - l) /\ ((v - l) + 1) - (v - l) = 1
      BY <1>2, <2>2
    <3>2. n # <<>>
      BY <1>2, <3>1
    <3>3. B[(v - l) + 1] = n[1]
      BY <1>5, <3>1
    <3> QED BY <1>1, <1>8, <3>1, <3>2, <3>3
  <2> QED BY <1>2, <2>1, <2>2
<1>10. SubSeq(B, k + 1, v) = n
  <2>1. PICK a \in Nat : a = k + 1
    OBVIOUS
  <2>2. \A i \in a .. v : B[i] \in Byte
    BY <1>6, <2>1
  <2>3. /\ SubSeq(B, a, v) \in Seq(Byte)
        /\ Len(SubSeq(B, a, v)) = IF a <= v THEN v - a + 1 ELSE 0
        /\ \A i \in 1 .. (v - a + 1) : SubSeq(B, a, v)[i] = B[a + i - 1]
    BY <2>2, SubSeqProperties
  <2>4. PICK t : t = SubSeq(B, a, v)
    OBVIOUS
  <2>5. t \in Seq(Byte) /\ Len(t) = l
    BY <1>2, <1>9, <2>1, <2>3, <2>4
  <2>6. ASSUME NEW i \in 1 .. l PROVE t[i] = n[i]
    <3>1. i \in 1 .. (v - a + 1) /\ a + i - 1 \in 1 .. v /\ ~ (a + i - 1 <= v - l)
          /\ (a + i - 1) - (v - l) = i
      BY <1>2, <1>9, <2>1
    <3>2. t[i] = B[a + i - 1]
      BY <2>3, <2>4, <3>1
    <3>3. B[a + i - 1] = n[(a + i - 1) - (v - l)]
      BY <1>5, <3>1
    <3> QED BY <3>1, <3>2, <3>3
  <2>7. t = n
    BY <1>1, <1>2, <2>5, <2>6, SeqEqual
  <2> QED BY <2>1, <2>4, <2>7
<1> QED BY <1>3, <1>7, <1>8, <1>10

(* The bits of a head.                                                     *)
LEMMA HeadBits ==
  ASSUME NEW m \in Majors, NEW i \in 0 .. 31
  PROVE  type_of(m + i) = m /\ info_of(m + i) = i /\ m + i \in Byte
<1>1. PICK j \in 0 .. 7 : m = j * 32
  BY DEF Majors, UNSIGNED, SIGNED, BYTES, TEXT, ARRAY, MAP, TAGGED, SIMPLE
<1>2. (j * 32 + i) \div 32 = j /\ (j * 32 + i) % 32 = i /\ j * 32 + i \in 0 .. 255
  OBVIOUS
<1> QED BY <1>1, <1>2 DEF type_of, info_of, Byte

(* Every width has its head.                                               *)
LEMMA WidthInfo ==
  ASSUME NEW v \in {1, 2, 4, 8}
  PROVE  \E i \in 24 .. 27 : i = (CHOOSE j \in 24 .. 27 : v = Width(j)) /\ Width(i) = v
<1>1. \E j \in 24 .. 27 : v = Width(j)
  <2>1. Width(24) = 1 /\ Width(25) = 2 /\ Width(26) = 4 /\ Width(27) = 8
    BY DEF Width
  <2> QED BY <2>1
<1> QED BY <1>1, Zenon

(* The least of the widths that are wide enough is one of them.            *)
LEMMA MinWidth ==
  ASSUME NEW W, W \subseteq {1, 2, 4, 8}, W # {}
  PROVE  Min(W) \in W
<1>1. W \subseteq Nat
  OBVIOUS
<1>2. PICK x \in W : \A y \in W : x <= y
  BY <1>1, NatLeast
<1> QED BY <1>2, Zenon DEF Min

(* What is written for an integer: its value in the head itself, or a head *)
(* and the bytes.                                                          *)
LEMMA Written ==
  ASSUME NEW m \in Majors, NEW n, Number(n), NEW w \in {0, 1, 2, 4, 8}
  PROVE  \/ \E a \in 0 .. 23 : Form(m, n, w) = <<m + a>> /\ Mag(a) = n
         \/ \E v \in {1, 2, 4, 8}, i \in 24 .. 27 :
              Width(i) = v /\ Len(n) <= v /\ Form(m, n, w) = <<m + i>> \o to_be_bytes(n, v)
<1>1. n \in Seq(Byte) /\ Len(n) <= 8 /\ (n # <<>> => n[1] # 0) /\ Len(n) \in Nat
  BY LenProperties DEF Number
<1>2. ASSUME NEW v \in {1, 2, 4, 8}, Len(n) <= v, Form(m, n, w) = WithHead(m, n, v)
      PROVE  \E u \in {1, 2, 4, 8}, i \in 24 .. 27 :
               Width(i) = u /\ Len(n) <= u /\ Form(m, n, w) = <<m + i>> \o to_be_bytes(n, u)
  <2>1. PICK i \in 24 .. 27 : i = (CHOOSE j \in 24 .. 27 : v = Width(j)) /\ Width(i) = v
    BY WidthInfo, Zenon
  <2>2. WithHead(m, n, v) = <<m + i>> \o to_be_bytes(n, v)
    BY <2>1, Zenon DEF WithHead
  <2> QED BY <1>2, <2>1, <2>2, Zenon
<1>3. CASE w = 0 /\ (n = <<>> \/ (Len(n) = 1 /\ n[1] <= 23))
  <2>1. Form(m, n, w) = <<m + NatOf(n)>>
    BY <1>3, Zenon DEF Form, type_len
  <2>2. CASE n = <<>>
    <3>1. Len(n) = 0 /\ ~ (Len(n) > 3) /\ ~ (2 < Len(n)) /\ ~ (1 < Len(n)) /\ ~ (0 < Len(n))
      BY <2>2
    <3>2. NatOf(n) = (0 * 256 + 0) * 256 + 0
      BY <3>1, Zenon DEF NatOf
    <3>3. NatOf(n) = 0 /\ Mag(0) = <<>> /\ 0 \in 0 .. 23
      BY <3>2 DEF Mag
    <3> QED BY <2>1, <2>2, <3>3, Zenon
  <2>3. CASE n # <<>>
    <3>1. Len(n) = 1 /\ n[1] <= 23 /\ n[1] # 0
      BY <1>1, <1>3, <2>3
    <3>2. n[1] \in Byte
      BY <1>1, <3>1, ElementOfSeq
    <3>3. PICK a \in 1 .. 23 : a = n[1]
      BY <3>1, <3>2 DEF Byte
    <3>4. ~ (Len(n) > 3) /\ ~ (2 < Len(n)) /\ ~ (1 < Len(n)) /\ 0 < Len(n) /\ Len(n) - 0 = 1
      BY <3>1
    <3>5. NatOf(n) = (0 * 256 + 0) * 256 + n[1]
      BY <3>4, Zenon DEF NatOf
    <3>6. NatOf(n) = a
      BY <3>3, <3>5
    <3>7. Mag(a) = <<a>>
      BY DEF Mag
    <3>8. n = <<a>>
      BY <1>1, <3>1, <3>3
    <3>9. a \in 0 .. 23
      OBVIOUS
    <3> QED BY <2>1, <3>6, <3>7, <3>8, <3>9, Zenon
  <2> QED BY <2>2, <2>3, Zenon
<1>4. CASE w = 0 /\ ~ (n = <<>> \/ (Len(n) = 1 /\ n[1] <= 23))
  <2> DEFINE W == {v \in {1, 2, 4, 8} : Len(n) <= v}
  <2>1. Form(m, n, w) = WithHead(m, n, Min(W))
    BY <1>4, Zenon DEF Form, type_len
  <2>2. W \subseteq {1, 2, 4, 8} /\ 8 \in W
    BY <1>1
  <2>3. Min(W) \in W
    BY <2>2, MinWidth
  <2>4. PICK v \in {1, 2, 4, 8} : v = Min(W) /\ Len(n) <= v
    BY <2>3
  <2> QED BY <1>2, <2>1, <2>4, Zenon
<1>5. CASE w # 0
  <2> DEFINE W == {v \in {1, 2, 4, 8} : v >= w /\ Len(n) <= v}
  <2>1. Form(m, n, w) = WithHead(m, n, Min(W))
    BY <1>5, Zenon DEF Form, type_len_noncanonical
  <2>2. W \subseteq {1, 2, 4, 8} /\ 8 \in W
    BY <1>1
  <2>3. Min(W) \in W
    BY <2>2, MinWidth
  <2>4. PICK v \in {1, 2, 4, 8} : v = Min(W) /\ Len(n) <= v
    BY <2>3
  <2> QED BY <1>2, <2>1, <2>4, Zenon
<1> QED BY <1>3, <1>4, <1>5, Zenon

(* A buffer that starts with an integer: the number behind its head.       *)
LEMMA ReadsBack ==
  ASSUME NEW m \in Majors, NEW n, Number(n), NEW w \in {0, 1, 2, 4, 8},
         buf = Form(m, n, w) \o << 0 >>
  PROVE  /\ Len(Form(m, n, w)) \in 1 .. 9
         /\ type_of(current(0)) = m /\ info_of(current(0)) \in 0 .. 27
         /\ unsigned(info_of(current(0)), 1) = Ok(n, Len(Form(m, n, w)))
<1>1. <<0>> \in Seq(Byte) /\ Len(<<0>>) = 1
  <2>1. 0 \in Byte
    BY DEF Byte
  <2> QED BY <2>1
<1>2. ASSUME NEW a \in 0 .. 23, Form(m, n, w) = <<m + a>>, Mag(a) = n
      PROVE  /\ Len(Form(m, n, w)) \in 1 .. 9
             /\ type_of(current(0)) = m /\ info_of(current(0)) \in 0 .. 27
             /\ unsigned(info_of(current(0)), 1) = Ok(n, Len(Form(m, n, w)))
  <2>1. type_of(m + a) = m /\ info_of(m + a) = a /\ m + a \in Byte
    <3>1. a \in 0 .. 31
      OBVIOUS
    <3> QED BY <3>1, HeadBits, Zenon
  <2>2. PICK h : h = m + a
    OBVIOUS
  <2>3. buf = <<h>> \o <<0>> /\ Len(Form(m, n, w)) = 1
    BY <1>2, <2>2
  <2>4. current(0) = h
    BY <2>3 DEF current
  <2>5. a <= 23 /\ a \in 0 .. 27 /\ 1 \in 1 .. 9
    OBVIOUS
  <2>6. unsigned(a, 1) = Ok(n, 1)
    BY <1>2, <2>5, Zenon DEF unsigned
  <2> QED BY <2>1, <2>2, <2>3, <2>4, <2>5, <2>6, Zenon
<1>3. ASSUME NEW v \in {1, 2, 4, 8}, NEW i \in 24 .. 27,
             Width(i) = v, Len(n) <= v, Form(m, n, w) = <<m + i>> \o to_be_bytes(n, v)
      PROVE  /\ Len(Form(m, n, w)) \in 1 .. 9
             /\ type_of(current(0)) = m /\ info_of(current(0)) \in 0 .. 27
             /\ unsigned(info_of(current(0)), 1) = Ok(n, Len(Form(m, n, w)))
  <2>1. type_of(m + i) = m /\ info_of(m + i) = i /\ m + i \in Byte
    <3>1. i \in 0 .. 31
      OBVIOUS
    <3> QED BY <3>1, HeadBits, Zenon
  <2>2. PICK h \in Byte : h = m + i
    BY <2>1
  <2>3. PICK B : B = to_be_bytes(n, v)
    OBVIOUS
  <2>4. B \in Seq(Byte) /\ Len(B) = v /\ Strip(B) = n
    <3>1. v \in Nat
      OBVIOUS
    <3> QED BY <1>3, <2>3, <3>1, BytesOfNumber
  <2>5. PICK e : e = Form(m, n, w)
    OBVIOUS
  <2>6. e = <<h>> \o B /\ <<h>> \in Seq(Byte) /\ Len(<<h>>) = 1
    BY <1>3, <2>2, <2>3, <2>5
  <2>7. /\ e \in Seq(Byte) /\ Len(e) = v + 1 /\ e[1] = h
        /\ \A j \in 1 .. v : e[j + 1] = B[j]
    <3>1. PICK x : x = <<h>>
      OBVIOUS
    <3>2. x \in Seq(Byte) /\ Len(x) = 1 /\ x[1] = h
      BY <2>6, <3>1
    <3>3. /\ x \o B \in Seq(Byte) /\ Len(x \o B) = Len(x) + Len(B)
          /\ \A j \in 1 .. (Len(x) + Len(B)) : (x \o B)[j] = IF j <= Len(x) THEN x[j] ELSE B[j - Len(x)]
      BY <2>4, <3>2, ConcatProperties
    <3>4. e = x \o B
      BY <2>6, <3>1
    <3>5. Len(e) = v + 1
      BY <2>4, <3>2, <3>3, <3>4
    <3>6. \A j \in 1 .. (v + 1) : e[j] = IF j <= 1 THEN x[j] ELSE B[j - 1]
      BY <2>4, <3>2, <3>3, <3>4
    <3>7. e[1] = h
      BY <3>2, <3>6
    <3>8. \A j \in 1 .. v : e[j + 1] = B[j]
      <4> SUFFICES ASSUME NEW j \in 1 .. v PROVE e[j + 1] = B[j]
        OBVIOUS
      <4>1. j + 1 \in 1 .. (v + 1) /\ ~ (j + 1 <= 1) /\ (j + 1) - 1 = j
        OBVIOUS
      <4> QED BY <3>6, <4>1
    <3> QED BY <3>3, <3>4, <3>5, <3>7, <3>8
  <2>8. /\ buf \in Seq(Byte) /\ Len(buf) = v + 2
        /\ \A j \in 1 .. (v + 1) : buf[j] = e[j]
    <3>1. PICK z : z = <<0>>
      OBVIOUS
    <3>2. z \in Seq(Byte) /\ Len(z) = 1
      BY <1>1, <3>1
    <3>3. /\ e \o z \in Seq(Byte) /\ Len(e \o z) = Len(e) + Len(z)
          /\ \A j \in 1 .. (Len(e) + Len(z)) : (e \o z)[j] = IF j <= Len(e) THEN e[j] ELSE z[j - Len(e)]
      BY <2>7, <3>2, ConcatProperties
    <3>4. buf = e \o z
      BY <2>5, <3>1
    <3>5. Len(buf) = v + 2
      BY <2>7, <3>2, <3>3, <3>4
    <3>6. \A j \in 1 .. (v + 1) : buf[j] = e[j]
      BY <2>7, <3>2, <3>3, <3>4
    <3> QED BY <3>3, <3>4, <3>5, <3>6
  <2>9. current(0) = h
    BY <2>7, <2>8 DEF current
  <2>10. SubSeq(buf, 2, 1 + v) = B
    <3>1. PICK c : c = buf
      OBVIOUS
    <3>2. PICK k \in Int : k = 1 + v
      OBVIOUS
    <3>3. \A j \in 2 .. k : c[j] \in Byte
      <4>1. 2 .. k \subseteq 1 .. Len(c)
        BY <2>8, <3>1, <3>2
      <4> QED BY <2>8, <3>1, <4>1, ElementOfSeq
    <3>4. /\ SubSeq(c, 2, k) \in Seq(Byte)
          /\ Len(SubSeq(c, 2, k)) = IF 2 <= k THEN k - 2 + 1 ELSE 0
          /\ \A j \in 1 .. (k - 2 + 1) : SubSeq(c, 2, k)[j] = c[2 + j - 1]
      BY <3>3, SubSeqProperties
    <3>5. PICK t : t = SubSeq(c, 2, k)
      OBVIOUS
    <3>6. t \in Seq(Byte) /\ Len(t) = Len(B)
      BY <2>4, <3>2, <3>4, <3>5
    <3>7. ASSUME NEW j \in 1 .. v PROVE t[j] = B[j]
      <4>1. j \in 1 .. (k - 2 + 1) /\ 2 + j - 1 = j + 1 /\ j + 1 \in 1 .. (v + 1)
        BY <3>2
      <4>2. t[j] = c[j + 1]
        BY <3>4, <3>5, <4>1
      <4>3. c[j + 1] = e[j + 1]
        BY <2>8, <3>1, <4>1
      <4> QED BY <2>7, <4>2, <4>3
    <3>8. t = B
      BY <2>4, <3>6, <3>7, SeqEqual
    <3> QED BY <3>1, <3>2, <3>5, <3>8
  <2>11. read_slice(1, v) = Ok(B, 1 + v)
    <3>1. 1 + v <= Len(buf) /\ 1 + 1 = 2
      BY <2>8
    <3> QED BY <2>10, <3>1, Zenon DEF read_slice
  <2>12. unsigned(i, 1) = Ok(n, 1 + v)
    <3>1. ~ (i <= 23) /\ ~ (i > 27)
      OBVIOUS
    <3>2. unsigned(i, 1) = IF Ok(B, 1 + v).ok THEN Ok(Strip(Ok(B, 1 + v).val), Ok(B, 1 + v).pos)
                           ELSE Ok(B, 1 + v)
      BY <1>3, <2>11, <3>1, Zenon DEF unsigned
    <3>3. Ok(B, 1 + v).ok /\ Ok(B, 1 + v).val = B /\ Ok(B, 1 + v).pos = 1 + v
      BY SMT DEF Ok
    <3> QED BY <2>4, <3>2, <3>3, Zenon
  <2>13. Len(e) = 1 + v /\ Len(e) \in 1 .. 9 /\ i \in 0 .. 27
    BY <2>7
  <2> QED BY <2>1, <2>2, <2>5, <2>9, <2>12, <2>13, Zenon
<1>4. \/ \E a \in 0 .. 23 : Form(m, n, w) = <<m + a>> /\ Mag(a) = n
      \/ \E v \in {1, 2, 4, 8}, i \in 24 .. 27 :
           Width(i) = v /\ Len(n) <= v /\ Form(m, n, w) = <<m + i>> \o to_be_bytes(n, v)
  BY Written
<1> QED BY <1>2, <1>3, <1>4, Zenon

(* Two sequences of which one is nowhere above the other.                  *)
LEMMA FirstBelow ==
  ASSUME NEW l \in Nat, NEW a, NEW b, \A i \in 1 .. l : a[i] \in Nat /\ b[i] \in Nat /\ a[i] <= b[i],
         NEW k \in 1 .. l, a[k] # b[k]
  PROVE  \E i \in 1 .. l : a[i] < b[i] /\ \A j \in 1 .. (i - 1) : a[j] = b[j]
<1> DEFINE D == {i \in 1 .. l : a[i] # b[i]}
<1>1. D \subseteq Nat /\ D # {}
  OBVIOUS
<1>2. PICK i \in D : \A y \in D : i <= y
  BY <1>1, NatLeast
<1>3. \A j \in 1 .. (i - 1) : a[j] = b[j]
  BY <1>2
<1>4. a[i] < b[i]
  BY <1>2
<1> QED BY <1>2, <1>3, <1>4

(* A number fits a type if it is at most its greatest.                     *)
LEMMA FitsExactly ==
  ASSUME NEW t \in IntTypes, NEW n, Number(n)
  PROVE  Fits(t, n) <=> AtMost(n, Limit(t))
<1> DEFINE Signed == t \in {"i8", "i16", "i32", "i64"}
<1>1. n \in Seq(Byte) /\ Len(n) \in Nat /\ \A i \in 1 .. Len(n) : n[i] \in 0 .. 255
  BY LenProperties, ElementOfSeq DEF Number, Byte
<1>2. PICK z \in {1, 2, 4, 8} : z = SizeOf(t)
  BY Zenon DEF SizeOf, IntTypes
<1>3. PICK L : L = Limit(t)
  OBVIOUS
<1>4. L = [i \in 1 .. z |-> IF i = 1 /\ Signed THEN 127 ELSE 255]
  BY <1>2, <1>3, Zenon DEF Limit
<1>5. /\ ~ Signed => t \in {"u8", "u16", "u32", "u64", "int"}
      /\ Signed => t \notin {"u8", "u16", "u32", "u64", "int"}
  BY DEF IntTypes
<1>6. Fits(t, n) <=> \/ Len(n) < z
                     \/ Len(n) = z /\ (~ Signed \/ n[1] < 128)
  BY <1>2, <1>5, Zenon DEF Fits
<1>7. PICK top : top = IF Signed THEN 127 ELSE 255
  OBVIOUS
<1>16. top \in {127, 255}
  BY <1>7, Zenon
<1>8. (~ Signed \/ n[1] < 128) <=> (top = 255 \/ n[1] < 128)
  <2>1. 127 # 255
    OBVIOUS
  <2> QED BY <1>7, <2>1, Zenon
<1> HIDE DEF Signed
<1>9. L = [i \in 1 .. z |-> IF i = 1 THEN top ELSE 255]
  <2>1. \A i \in 1 .. z : (IF i = 1 /\ Signed THEN 127 ELSE 255) = (IF i = 1 THEN top ELSE 255)
    <3> SUFFICES ASSUME NEW i \in 1 .. z
                 PROVE  (IF i = 1 /\ Signed THEN 127 ELSE 255) = (IF i = 1 THEN top ELSE 255)
      BY Zenon
    <3>1. CASE Signed
      BY <1>7, <3>1, Zenon
    <3>2. CASE ~ Signed
      BY <1>7, <3>2, Zenon
    <3> QED BY <3>1, <3>2, Zenon
  <2> QED BY <1>4, <2>1, Zenon
<1>10. Len(L) = z /\ \A i \in 1 .. z : L[i] = IF i = 1 THEN top ELSE 255
  BY <1>9
<1>11. L \in Seq(Nat)
  <2>1. \A i \in 1 .. z : (IF i = 1 THEN top ELSE 255) \in Nat
    BY <1>16
  <2>2. L \in [1 .. z -> Nat]
    BY <1>9, <2>1
  <2> QED BY <2>2
<1>12. AtMost(n, L) <=> Len(n) < z \/ (Len(n) = z /\ (top = 255 \/ n[1] < 128))
  <2>1. CASE Len(n) # z
    BY <1>10, <2>1 DEF AtMost
  <2>2. CASE Len(n) = z
    <3> DEFINE Below == \E i \in 1 .. z : n[i] < L[i] /\ \A j \in 1 .. (i - 1) : n[j] = L[j]
    <3>1. AtMost(n, L) <=> n = L \/ Below
      <4>1. DOMAIN n = 1 .. z
        BY <1>1, <2>2
      <4>2. ~ (Len(n) < Len(L)) /\ Len(n) = Len(L)
        BY <1>1, <1>10, <2>2
      <4>3. AtMost(n, L) <=>
              \/ Len(n) < Len(L)
              \/ Len(n) = Len(L)
                   /\ (n = L \/ \E i \in DOMAIN n : n[i] < L[i] /\ \A j \in 1 .. (i - 1) : n[j] = L[j])
        BY Zenon DEF AtMost
      <4> QED BY <4>1, <4>2, <4>3, Zenon
    <3>2. ASSUME n = L \/ Below PROVE top = 255 \/ n[1] < 128
      <4> SUFFICES ASSUME top # 255 PROVE n[1] < 128
        OBVIOUS
      <4>1. L[1] = 127
        BY <1>16, <1>10
      <4>2. CASE n = L
        BY <4>1, <4>2
      <4>3. CASE Below
        <5>1. PICK i \in 1 .. z : n[i] < L[i] /\ \A j \in 1 .. (i - 1) : n[j] = L[j]
          BY <4>3
        <5>2. CASE i = 1
          <6>1. n[1] \in 0 .. 255 /\ n[1] < 127
            BY <1>1, <2>2, <4>1, <5>1, <5>2
          <6> QED BY <6>1
        <5>3. CASE i # 1
          <6>1. 1 \in 1 .. (i - 1)
            BY <5>3
          <6> QED BY <4>1, <5>1, <6>1
        <5> QED BY <5>2, <5>3
      <4> QED BY <3>2, <4>2, <4>3
    <3>3. ASSUME top = 255 \/ n[1] < 128 PROVE n = L \/ Below
      <4> SUFFICES ASSUME n # L PROVE Below
        OBVIOUS
      <4>1. PICK k \in 1 .. z : n[k] # L[k]
        <5>1. n \in Seq(Nat)
          <6>1. Byte \subseteq Nat
            BY DEF Byte
          <6> QED BY <1>1, <6>1, SeqMonotonic
        <5> QED BY <1>10, <1>11, <2>2, <5>1, SeqEqual
      <4>2. ASSUME NEW i \in 1 .. z PROVE n[i] \in Nat /\ L[i] \in Nat /\ n[i] <= L[i]
        <5>1. n[i] \in 0 .. 255
          BY <1>1, <2>2
        <5>2. CASE i = 1
          <6>1. L[i] = top
            BY <1>10, <5>2
          <6>2. top = 255 \/ (top = 127 /\ n[i] < 128)
            BY <1>16, <3>3, <5>2
          <6> QED BY <5>1, <6>1, <6>2
        <5>3. CASE i # 1
          <6>1. L[i] = 255
            BY <1>10, <5>3
          <6> QED BY <5>1, <6>1
        <5> QED BY <5>2, <5>3
      <4>3. z \in Nat
        OBVIOUS
      <4> QED BY <4>1, <4>2, <4>3, FirstBelow
    <3>4. ~ (Len(n) < z)
      BY <1>1, <2>2
    <3> QED BY <2>2, <3>1, <3>2, <3>3, <3>4, Zenon
  <2> QED BY <2>1, <2>2
<1> QED BY <1>3, <1>6, <1>8, <1>12, Zenon

(* A reader of type t takes the number n of sign m and length l if it is   *)
(* one of its type, and returns it.                                        *)
ReadsInt(t, m, n, l) ==
  LET r == ReadInt(t, 0)
  IN  /\ r.ok = (/\ AtMost(n, Limit(t))
                 /\ m = SIGNED => t \notin {"u8", "u16", "u32", "u64"})
      /\ r.ok => r.val = n /\ r.pos = l

(* The readers of integers, on an integer.                                 *)
LEMMA IntReadExactly ==
  ASSUME NEW m \in {UNSIGNED, SIGNED}, NEW n, Number(n), NEW w \in {0, 1, 2, 4, 8},
         buf = Form(m, n, w) \o << 0 >>, NEW t \in IntTypes
  PROVE  ReadsInt(t, m, n, Len(Form(m, n, w)))
<1> SUFFICES /\ ReadInt(t, 0).ok = (/\ AtMost(n, Limit(t))
                                    /\ m = SIGNED => t \notin {"u8", "u16", "u32", "u64"})
             /\ ReadInt(t, 0).ok => ReadInt(t, 0).val = n /\ ReadInt(t, 0).pos = Len(Form(m, n, w))
  BY Zenon DEF ReadsInt
<1>1. PICK b : b = current(0)
  OBVIOUS
<1>2. PICK l : l = Len(Form(m, n, w))
  OBVIOUS
<1>3. type_of(b) = m /\ info_of(b) \in 0 .. 27 /\ unsigned(info_of(b), 0 + 1) = Ok(n, l)
  <2>1. 0 + 1 = 1
    OBVIOUS
  <2>2. /\ type_of(current(0)) = m /\ info_of(current(0)) \in 0 .. 27
        /\ unsigned(info_of(current(0)), 1) = Ok(n, Len(Form(m, n, w)))
    <3>1. m \in Majors
      BY Zenon DEF Majors
    <3> QED BY <3>1, ReadsBack
  <2> QED BY <1>1, <1>2, <2>1, <2>2, Zenon
<1>4. ~ (info_of(b) > 27)
  <2>1. PICK j \in 0 .. 27 : j = info_of(b)
    BY <1>3, Zenon
  <2>2. ~ (j > 27)
    OBVIOUS
  <2> QED BY <2>1, <2>2, Zenon
<1> DEFINE Short == t \in {"u8", "u16", "u32", "u64"}
<1>5. PICK majors : majors = IF Short THEN {UNSIGNED} ELSE {UNSIGNED, SIGNED}
  OBVIOUS
<1>6. m \notin majors <=> (m = SIGNED /\ Short)
  <2>1. UNSIGNED # SIGNED
    BY DEF UNSIGNED, SIGNED
  <2> HIDE DEF Short
  <2> QED BY <1>5, <2>1, Zenon
<1>7. ReadInt(t, 0) = IF type_of(b) \notin majors \/ info_of(b) > 27 THEN Mismatch(b, 0)
      ELSE IF Ok(n, l).ok /\ ~ Fits(t, Ok(n, l).val) THEN Err("Overflow", Ok(n, l).pos)
      ELSE Ok(n, l)
  BY <1>1, <1>3, <1>5, Zenon DEF ReadInt
<1>8. Ok(n, l).ok = TRUE /\ Ok(n, l).val = n /\ Ok(n, l).pos = l
  BY SMT DEF Ok
<1>9. Err("Overflow", l).ok = FALSE
  BY SMT DEF Err
<1>10. Mismatch(b, 0).ok = FALSE
  <2>1. PICK e : Mismatch(b, 0) = Err(e, 0 + 1)
    BY Zenon DEF Mismatch
  <2>2. Err(e, 0 + 1).ok = FALSE
    BY SMT DEF Err
  <2> QED BY <2>1, <2>2, Zenon
<1>11. Fits(t, n) <=> AtMost(n, Limit(t))
  BY FitsExactly, Zenon
<1>12. AtMost(n, Limit(t)) \in BOOLEAN
  BY Zenon DEF AtMost
<1> HIDE DEF Short
<1>13. CASE m \notin majors
  <2>1. ReadInt(t, 0).ok = FALSE
    BY <1>3, <1>7, <1>10, <1>13, Zenon
  <2> QED BY <1>6, <1>13, <2>1, Zenon DEF Short
<1>14. CASE m \in majors /\ ~ Fits(t, n)
  <2>1. ReadInt(t, 0) = Err("Overflow", l)
    BY <1>3, <1>4, <1>7, <1>8, <1>14, Zenon
  <2> QED BY <1>9, <1>11, <1>14, <2>1, Zenon
<1>15. CASE m \in majors /\ Fits(t, n)
  <2>1. ReadInt(t, 0) = Ok(n, l)
    BY <1>3, <1>4, <1>7, <1>8, <1>15, Zenon
  <2> QED BY <1>2, <1>6, <1>8, <1>11, <1>15, <2>1, Zenon DEF Short
<1> QED BY <1>13, <1>14, <1>15, Zenon

(* The buffer, if it holds an integer to its end.                          *)
IntInv ==
  item.k = "int" /\ ~ Truncated =>
    /\ item.m \in {UNSIGNED, SIGNED} /\ Number(item.n)
    /\ \E w \in {0, 1, 2, 4, 8} :
         buf = Form(item.m, item.n, w) \o <<0>> /\ size = Len(Form(item.m, item.n, w))

(* The buffer at the start, if it holds an integer to its end.             *)
LEMMA IntInit == Init => IntInv
<1> SUFFICES ASSUME Init, item.k = "int", ~ Truncated
             PROVE  /\ item.m \in {UNSIGNED, SIGNED} /\ Number(item.n)
                    /\ \E w \in {0, 1, 2, 4, 8} :
                         buf = Form(item.m, item.n, w) \o <<0>> /\ size = Len(Form(item.m, item.n, w))
  BY Zenon DEF IntInv
<1>1. PICK x \in Inputs :
        /\ item = x.item
        /\ size = IF x.item.k = "partial" THEN Cap ELSE Len(Bytes(x.item, x.form))
        /\ \E lost \in (IF x.cut THEN 0 .. Len(Bytes(x.item, x.form)) ELSE {0}) :
             buf = IF lost = 0 /\ size < Cap THEN Bytes(x.item, x.form) \o <<0>>
                   ELSE SubSeq(Bytes(x.item, x.form), 1, Len(Bytes(x.item, x.form)) - lost)
  BY Zenon DEF Init
<1>2. PICK m, n, w : m = x.item.m /\ n = x.item.n /\ w = x.form
  OBVIOUS
<1>3. /\ m \in {UNSIGNED, SIGNED} /\ Number(n) /\ w \in {0, 1, 2, 4, 8}
      /\ Bytes(x.item, x.form) = Form(m, n, w) /\ Form(m, n, w) \in Seq(Byte)
  <2>1. x.item.k = "int" /\ Bytes(x.item, x.form) \in Seq(Byte)
    BY <1>1, BytesAssumption, Zenon
  <2> QED BY <1>2, <2>1, IntsAssumption, Zenon
<1>4. PICK e : e = Form(m, n, w)
  OBVIOUS
<1>5. size = Len(e)
  <2>1. "int" # "partial"
    OBVIOUS
  <2> QED BY <1>1, <1>3, <1>4, <2>1, Zenon
<1>6. PICK lost \in (IF x.cut THEN 0 .. Len(e) ELSE {0}) :
        buf = IF lost = 0 /\ size < Cap THEN e \o <<0>> ELSE SubSeq(e, 1, Len(e) - lost)
  BY <1>1, <1>3, <1>4, Zenon
<1>7. Len(e) \in 0 .. 9 /\ lost \in 0 .. Len(e) /\ e \in Seq(Byte)
  <2>1. Len(e) \in 0 .. 9
    <3>1. CASE \E a \in 0 .. 23 : e = <<m + a>> /\ Mag(a) = n
      BY <3>1
    <3>2. CASE \E v \in {1, 2, 4, 8}, i \in 24 .. 27 :
                 Width(i) = v /\ Len(n) <= v /\ e = <<m + i>> \o to_be_bytes(n, v)
      <4>1. PICK v \in {1, 2, 4, 8}, i \in 24 .. 27 : Len(n) <= v /\ e = <<m + i>> \o to_be_bytes(n, v)
        BY <3>2
      <4>2. PICK B : B = to_be_bytes(n, v)
        OBVIOUS
      <4>3. B \in Seq(Byte) /\ Len(B) = v
        <5>1. v \in Nat
          OBVIOUS
        <5> QED BY <1>3, <4>1, <4>2, <5>1, BytesOfNumber
      <4>4. PICK h \in Byte : h = m + i
        <5>1. i \in 0 .. 31 /\ m \in Majors
          BY <1>3 DEF Majors
        <5> QED BY <5>1, HeadBits
      <4>5. e = <<h>> \o B
        BY <4>1, <4>2, <4>4, Zenon
      <4>6. <<h>> \in Seq(Byte) /\ Len(<<h>>) = 1
        OBVIOUS
      <4>7. Len(<<h>> \o B) = 1 + v
        BY <4>3, <4>6, ConcatProperties
      <4> QED BY <4>5, <4>7
    <3>3. \/ \E a \in 0 .. 23 : Form(m, n, w) = <<m + a>> /\ Mag(a) = n
          \/ \E v \in {1, 2, 4, 8}, i \in 24 .. 27 :
               Width(i) = v /\ Len(n) <= v /\ Form(m, n, w) = <<m + i>> \o to_be_bytes(n, v)
      <4>1. m \in Majors
        BY <1>3, Zenon DEF Majors
      <4> QED BY <1>3, <4>1, Written
    <3> QED BY <1>4, <3>1, <3>2, <3>3, Zenon
  <2>2. CASE lost = 0
    BY <1>3, <1>4, <2>1, <2>2
  <2>3. CASE lost # 0
    <3>1. lost \in 0 .. Len(e)
      BY <1>6, <2>3, Zenon
    <3> QED BY <1>3, <1>4, <2>1, <3>1, Zenon
  <2> QED BY <2>2, <2>3, Zenon
<1>8. lost = 0
  <2> SUFFICES ASSUME lost # 0 PROVE FALSE
    OBVIOUS
  <2>1. buf = SubSeq(e, 1, Len(e) - lost)
    BY <1>6, Zenon
  <2>2. PICK k \in Nat : k = Len(e) - lost /\ k < Len(e)
    BY <1>7
  <2>3. \A j \in 1 .. k : e[j] \in Byte
    BY <1>7, <2>2, ElementOfSeq
  <2>4. Len(SubSeq(e, 1, k)) = k
    BY <2>2, <2>3, SubSeqProperties
  <2>5. Len(buf) < size
    BY <1>5, <2>1, <2>2, <2>4
  <2> QED BY <2>5, Zenon DEF Truncated
<1>9. size < Cap
  <2>1. Cap > 9
    BY SMT DEF Cap
  <2> QED BY <1>5, <1>7, <2>1, CapType
<1>10. buf = e \o <<0>>
  BY <1>6, <1>8, <1>9, Zenon
<1> QED BY <1>1, <1>2, <1>3, <1>4, <1>5, <1>10, Zenon

(* skip only looks at its input.                                           *)
LEMMA InputStays == [Next]_vars => UNCHANGED <<item, size, buf>>
<1>1. Next => UNCHANGED <<item, size, buf>>
  <2> SUFFICES ASSUME Next PROVE item' = item /\ size' = size /\ buf' = buf
    BY Zenon
  <2>1. ASSUME NEW r, NEW n, NEW i, NEW s, Round(r, n, i, s)
        PROVE  item' = item /\ size' = size /\ buf' = buf
    BY <2>1, Zenon DEF Round
  <2>2. CASE SkipEndOfInput
    BY <2>2, Zenon DEF SkipEndOfInput
  <2>3. CASE SkipScalar
    BY <2>3, Zenon DEF SkipScalar, Round
  <2>4. CASE SkipTag
    BY <2>4, Zenon DEF SkipTag
  <2>5. CASE SkipBreak
    BY <2>5, Zenon DEF SkipBreak, Round
  <2>6. CASE SkipUnknown
    BY <2>6, Zenon DEF SkipUnknown, Round
  <2>7. CASE \E m \in {BYTES, TEXT} : SkipString(m)
    BY <2>7, Zenon DEF SkipString, Round
  <2>8. CASE \E m \in {ARRAY, MAP} : SkipSized(m)
    BY <2>8, Zenon DEF SkipSized, Round
  <2>9. CASE \E m \in {ARRAY, MAP} : SkipOpen(m)
    BY <2>9, Zenon DEF SkipOpen, Round
  <2> QED BY <2>2, <2>3, <2>4, <2>5, <2>6, <2>7, <2>8, <2>9, Zenon DEF Next
<1> QED BY <1>1, Zenon DEF vars

(* Decoder::u8 to u64, i8 to i64 and int take an integer if and only if it *)
(* is in the range of their type, at every width of the head, and return   *)
(* it as it was written: for every integer, where the run has those at the *)
(* limits.                                                                 *)
THEOREM IntegersExact == Spec => []IntsExact
<1>1. IntInv /\ [Next]_vars => IntInv'
  BY InputStays, Zenon DEF IntInv, Truncated
<1>2. IntInv => IntsExact
  <2> SUFFICES ASSUME IntInv, item.k = "int", ~ Truncated, NEW t \in IntTypes
               PROVE  LET r == ReadInt(t, 0)
                      IN  /\ r.ok = (/\ AtMost(item.n, Limit(t))
                                     /\ item.m = SIGNED => t \notin {"u8", "u16", "u32", "u64"})
                          /\ r.ok => r.val = item.n /\ r.pos = size
    BY Zenon DEF IntsExact
  <2>1. PICK m, n : m = item.m /\ n = item.n
    OBVIOUS
  <2>2. PICK w \in {0, 1, 2, 4, 8} : buf = Form(m, n, w) \o <<0>> /\ size = Len(Form(m, n, w))
    BY <2>1, Zenon DEF IntInv
  <2>3. m \in {UNSIGNED, SIGNED} /\ Number(n)
    BY <2>1, Zenon DEF IntInv
  <2>4. ReadsInt(t, m, n, Len(Form(m, n, w)))
    BY <2>2, <2>3, IntReadExactly
  <2>5. ReadsInt(t, item.m, item.n, size)
    BY <2>1, <2>2, <2>4, Zenon
  <2> QED BY <2>5, Zenon DEF ReadsInt
<1> QED BY <1>1, <1>2, IntInit, PTL DEF Spec

-----------------------------------------------------------------------------
(* Bytes, n of them.                                                       *)
Of(n) == {s \in Seq(Byte) : Len(s) = n}

(* Lengths of bytes add up.                                                *)
LEMMA Joined ==
  ASSUME NEW k \in Nat, NEW l \in Nat, NEW a \in Of(k), NEW b \in Of(l)
  PROVE  a \o b \in Of(k + l)
BY ConcatProperties DEF Of

(* A length, as the bytes of a number.                                     *)
LEMMA MagNumber ==
  ASSUME NEW n \in Nat, n < 256 * 256
  PROVE  Number(Mag(n))
<1>1. CASE n = 0
  <2>1. Mag(n) = <<>>
    BY <1>1 DEF Mag
  <2> QED BY <2>1 DEF Number
<1>2. CASE n # 0 /\ n < 256
  <2>1. Mag(n) = <<n>> /\ n \in Byte
    BY <1>2 DEF Mag, Byte
  <2> QED BY <1>2, <2>1 DEF Number
<1>3. CASE n # 0 /\ ~ (n < 256)
  <2>1. PICK x \in 1 .. 255, y \in 0 .. 255 : x = n \div 256 /\ y = n % 256
    <3>1. PICK u \in Nat, v \in 0 .. 255 : u = n \div 256 /\ v = n % 256 /\ n = 256 * u + v
      OBVIOUS
    <3>2. u \in 1 .. 255
      BY <1>3, <3>1
    <3> QED BY <3>1, <3>2
  <2>2. Mag(n) = <<x, y>>
    BY <1>3, <2>1, Zenon DEF Mag
  <2>3. x \in Byte /\ y \in Byte
    BY DEF Byte
  <2>4. <<x, y>> \in Seq(Byte) /\ Len(<<x, y>>) = 2 /\ <<x, y>>[1] = x
    BY <2>3
  <2> QED BY <2>2, <2>4 DEF Number
<1> QED BY <1>1, <1>2, <1>3

(* The wide heads have nine bytes.                                         *)
LEMMA WideHead ==
  ASSUME NEW m \in Majors, NEW s, Number(s)
  PROVE  type_len_noncanonical(m, s, 8) \in Of(9)
<1> DEFINE W == {v \in {1, 2, 4, 8} : v >= 8 /\ Len(s) <= v}
<1>1. s \in Seq(Byte) /\ Len(s) <= 8 /\ Len(s) \in Nat
  BY LenProperties DEF Number
<1>2. W = {8}
  BY <1>1
<1>3. Min({8}) = 8
  <2>1. \A x \in {8} : (\A y \in {8} : x <= y) => x = 8
    OBVIOUS
  <2>2. \E x \in {8} : \A y \in {8} : x <= y
    OBVIOUS
  <2> QED BY <2>1, <2>2, Zenon DEF Min
<1>4. type_len_noncanonical(m, s, 8) = WithHead(m, s, 8)
  BY <1>2, <1>3, Zenon DEF type_len_noncanonical
<1>5. PICK i \in 24 .. 27 : i = (CHOOSE j \in 24 .. 27 : 8 = Width(j))
  <2>1. 8 \in {1, 2, 4, 8}
    OBVIOUS
  <2> QED BY <2>1, WidthInfo, Zenon
<1>6. WithHead(m, s, 8) = <<m + i>> \o to_be_bytes(s, 8)
  BY <1>5, Zenon DEF WithHead
<1>7. m + i \in Byte
  <2>1. i \in 0 .. 31
    OBVIOUS
  <2> QED BY <2>1, HeadBits, Zenon
<1>8. <<m + i>> \in Of(1)
  <2>1. PICK h \in Byte : h = m + i
    BY <1>7, Zenon
  <2>2. <<h>> \in Seq(Byte) /\ Len(<<h>>) = 1
    OBVIOUS
  <2> QED BY <2>1, <2>2, Zenon DEF Of
<1>9. to_be_bytes(s, 8) \in Of(8)
  <2>1. 8 \in Nat /\ Len(s) <= 8
    BY <1>1
  <2>2. to_be_bytes(s, 8) \in Seq(Byte) /\ Len(to_be_bytes(s, 8)) = 8
    BY <1>1, <2>1, BytesOfNumber
  <2> QED BY <2>2, Zenon DEF Of
<1>10. PICK a, b : a = <<m + i>> /\ b = to_be_bytes(s, 8)
  OBVIOUS
<1>11. 1 \in Nat /\ 8 \in Nat /\ 1 + 8 = 9
  OBVIOUS
<1>12. a \o b \in Of(1 + 8)
  BY <1>8, <1>9, <1>10, <1>11, Joined, Zenon
<1> QED BY <1>4, <1>6, <1>10, <1>11, <1>12, Zenon

(* A string of the record, and an entry of it, take a head of nine bytes   *)
(* and their own.                                                          *)
LEMMA StrLen ==
  ASSUME NEW n \in 0 .. 255
  PROVE  str_noncanonical(n) \in Of(9 + n)
<1>1. type_len_noncanonical(TEXT, Mag(n), 8) \in Of(9)
  <2>1. TEXT \in Majors
    BY Zenon DEF Majors
  <2>2. Number(Mag(n))
    <3>1. n \in Nat /\ n < 256 * 256
      BY SMT
    <3> QED BY <3>1, MagNumber
  <2> QED BY <2>1, <2>2, WideHead
<1>2. [i \in 1 .. n |-> 97] \in Of(n)
  <2>1. 97 \in Byte
    BY DEF Byte
  <2>2. [i \in 1 .. n |-> 97] \in Seq(Byte)
    BY <2>1
  <2>3. Len([i \in 1 .. n |-> 97]) = n
    OBVIOUS
  <2> QED BY <2>2, <2>3 DEF Of
<1> QED BY <1>1, <1>2, Joined DEF str_noncanonical

LEMMA EntryLen ==
  ASSUME NEW k \in 0 .. 255, NEW l \in Nat, NEW v \in Of(l)
  PROVE  Entry(k, v) \in Of(9 + k + l)
<1>1. str_noncanonical(k) \in Of(9 + k) /\ 9 + k \in Nat
  BY StrLen
<1> QED BY <1>1, Joined, Zenon DEF Entry

(* What is stored of a prefix is at most PATHFRAGLEN bytes long.           *)
LEMMA StoredLen ==
  ASSUME NEW l \in Nat
  PROVE  Stored(l) \in 0 .. 32
<1>1. Stored(l) = IF l <= 32 THEN l ELSE 32
  BY MinPair DEF Stored, PATHFRAGLEN
<1> QED BY <1>1

(* The record is at most 418 bytes long.                                   *)
LEMMA RecordLen ==
  ASSUME NEW f \in 0 .. 15, NEW l \in Nat, NEW x, Number(x)
  PROVE  Len(ringbuf_put(f, l, x)) <= BUFSIZE
<1>1. PICK N : N = u64_noncanonical(x)
  OBVIOUS
<1>2. N \in Of(9)
  <2>1. UNSIGNED \in Majors
    BY Zenon DEF Majors
  <2> QED BY <1>1, <2>1, WideHead DEF u64_noncanonical
<1>3. begin_map \in Of(1) /\ end \in Of(1)
  <2>1. begin_map = <<191>> /\ end = <<255>>
    BY DEF begin_map, end, MAP, Indefinite, BREAK
  <2>2. 191 \in Byte /\ 255 \in Byte
    BY DEF Byte
  <2>3. <<191>> \in Seq(Byte) /\ <<255>> \in Seq(Byte) /\ Len(<<191>>) = 1 /\ Len(<<255>>) = 1
    BY <2>2
  <2> QED BY <2>1, <2>3 DEF Of
<1>4. /\ Entry(11, N) \in Of(29) /\ Entry(13, N) \in Of(31) /\ Entry(16, N) \in Of(34)
      /\ Entry(19, N) \in Of(37) /\ Entry(8, N) \in Of(26)
  BY <1>2, EntryLen
<1>5. PICK s \in 0 .. 32 : s = Stored(l)
  BY StoredLen
<1>6. /\ str_noncanonical(8) \in Of(17) /\ str_noncanonical(2) \in Of(11)
      /\ str_noncanonical(f) \in Of(9 + f) /\ str_noncanonical(s) \in Of(9 + s)
  <2>1. f \in 0 .. 255 /\ s \in 0 .. 255
    OBVIOUS
  <2> QED BY <2>1, StrLen
<1>7. Entry(2, str_noncanonical(8)) \in Of(28) /\ Entry(4, str_noncanonical(2)) \in Of(24)
  BY <1>6, EntryLen
<1>8. Entry(6, str_noncanonical(f)) \in Of(24 + f)
  <2>1. 9 + f \in Nat /\ 9 + 6 + (9 + f) = 24 + f
    OBVIOUS
  <2>2. Entry(6, str_noncanonical(f)) \in Of(9 + 6 + (9 + f))
    BY <1>6, <2>1, EntryLen
  <2> QED BY <2>1, <2>2
<1>9. Entry(11, str_noncanonical(s)) \in Of(29 + s)
  <2>1. 9 + s \in Nat /\ 9 + 11 + (9 + s) = 29 + s
    OBVIOUS
  <2>2. Entry(11, str_noncanonical(s)) \in Of(9 + 11 + (9 + s))
    BY <1>6, <2>1, EntryLen
  <2> QED BY <2>1, <2>2
<1>10. PICK M : M = begin_map \o Entry(11, N) \o Entry(11, N) \o Entry(13, N)
                      \o Entry(11, N) \o Entry(13, N) \o Entry(16, N) \o end
  OBVIOUS
<1>11. M \in Of(185)
  <2>1. begin_map \o Entry(11, N) \in Of(30)
    BY <1>3, <1>4, Joined
  <2>2. begin_map \o Entry(11, N) \o Entry(11, N) \in Of(59)
    BY <1>4, <2>1, Joined
  <2>3. begin_map \o Entry(11, N) \o Entry(11, N) \o Entry(13, N) \in Of(90)
    BY <1>4, <2>2, Joined
  <2>4. begin_map \o Entry(11, N) \o Entry(11, N) \o Entry(13, N) \o Entry(11, N) \in Of(119)
    BY <1>4, <2>3, Joined
  <2>5. begin_map \o Entry(11, N) \o Entry(11, N) \o Entry(13, N)
          \o Entry(11, N) \o Entry(13, N) \in Of(150)
    BY <1>4, <2>4, Joined
  <2>6. begin_map \o Entry(11, N) \o Entry(11, N) \o Entry(13, N)
          \o Entry(11, N) \o Entry(13, N) \o Entry(16, N) \in Of(184)
    BY <1>4, <2>5, Joined
  <2> QED BY <1>3, <1>10, <2>6, Joined
<1>12. Entry(7, M) \in Of(201)
  BY <1>11, EntryLen
<1>13. PICK R : R = begin_map \o Entry(2, str_noncanonical(8)) \o Entry(19, N)
                      \o Entry(6, str_noncanonical(f)) \o Entry(8, N)
                      \o Entry(4, str_noncanonical(2)) \o Entry(7, M)
                      \o Entry(11, str_noncanonical(s)) \o end
  OBVIOUS
<1>14. R \in Of(371 + f + s)
  <2>1. begin_map \o Entry(2, str_noncanonical(8)) \in Of(29)
    BY <1>3, <1>7, Joined
  <2>2. PICK a : a = begin_map \o Entry(2, str_noncanonical(8)) \o Entry(19, N)
    OBVIOUS
  <2>3. a \in Of(66)
    BY <1>4, <2>1, <2>2, Joined
  <2>4. a \o Entry(6, str_noncanonical(f)) \in Of(90 + f)
    <3>1. 24 + f \in Nat /\ 66 + (24 + f) = 90 + f
      OBVIOUS
    <3>2. a \o Entry(6, str_noncanonical(f)) \in Of(66 + (24 + f))
      BY <1>8, <2>3, <3>1, Joined
    <3> QED BY <3>1, <3>2
  <2>5. PICK b : b = a \o Entry(6, str_noncanonical(f))
    OBVIOUS
  <2>6. b \in Of(90 + f)
    BY <2>4, <2>5
  <2>7. b \o Entry(8, N) \in Of(116 + f)
    <3>1. 90 + f \in Nat /\ (90 + f) + 26 = 116 + f
      OBVIOUS
    <3>2. b \o Entry(8, N) \in Of((90 + f) + 26)
      BY <1>4, <2>6, <3>1, Joined
    <3> QED BY <3>1, <3>2
  <2>8. b \o Entry(8, N) \o Entry(4, str_noncanonical(2)) \in Of(140 + f)
    <3>1. 116 + f \in Nat /\ (116 + f) + 24 = 140 + f
      OBVIOUS
    <3>2. b \o Entry(8, N) \o Entry(4, str_noncanonical(2)) \in Of((116 + f) + 24)
      BY <1>7, <2>7, <3>1, Joined
    <3> QED BY <3>1, <3>2
  <2>9. PICK c : c = b \o Entry(8, N) \o Entry(4, str_noncanonical(2))
    OBVIOUS
  <2>10. c \o Entry(7, M) \in Of(341 + f)
    <3>1. 140 + f \in Nat /\ (140 + f) + 201 = 341 + f
      OBVIOUS
    <3>2. c \o Entry(7, M) \in Of((140 + f) + 201)
      BY <1>12, <2>8, <2>9, <3>1, Joined
    <3> QED BY <3>1, <3>2
  <2>11. c \o Entry(7, M) \o Entry(11, str_noncanonical(s)) \in Of(370 + f + s)
    <3>1. 341 + f \in Nat /\ 29 + s \in Nat /\ (341 + f) + (29 + s) = 370 + f + s
      OBVIOUS
    <3>2. c \o Entry(7, M) \o Entry(11, str_noncanonical(s)) \in Of((341 + f) + (29 + s))
      BY <1>9, <2>10, <3>1, Joined
    <3> QED BY <3>1, <3>2
  <2>12. c \o Entry(7, M) \o Entry(11, str_noncanonical(s)) \o end \in Of(371 + f + s)
    <3>1. 370 + f + s \in Nat /\ (370 + f + s) + 1 = 371 + f + s
      OBVIOUS
    <3>2. c \o Entry(7, M) \o Entry(11, str_noncanonical(s)) \o end \in Of((370 + f + s) + 1)
      BY <1>3, <2>11, <3>1, Joined
    <3> QED BY <3>1, <3>2
  <2> QED BY <1>13, <2>2, <2>5, <2>9, <2>12, Zenon
<1>15. ringbuf_put(f, l, x) = R
  BY <1>1, <1>5, <1>10, <1>13, Zenon DEF ringbuf_put
<1> QED BY <1>14, <1>15 DEF Of, BUFSIZE

(* The record of ringbuf_put fits the BUFSIZE bytes it reserved, for every *)
(* name of up to 15 bytes, every number and every length of a prefix that  *)
(* the map holds, also one that is longer than the array.                  *)
THEOREM RecordsFit == Spec => []RecordFits
<1>1. Init => RecordFits
  <2> SUFFICES ASSUME Init, item \in Records PROVE size <= BUFSIZE
    BY Zenon DEF RecordFits
  <2>1. PICK x \in Inputs :
          /\ item = x.item
          /\ size = IF x.item.k = "partial" THEN Cap ELSE Len(Bytes(x.item, x.form))
    BY Zenon DEF Init
  <2>2. PICK f \in OpLens, l \in PathLens, n \in Numbers : x.item = Record(f, l, n)
    <3>1. x.item \in {Record(f, l, n) : f \in OpLens, l \in PathLens, n \in Numbers}
      BY <2>1 DEF Records
    <3> QED BY <3>1
  <2>3. x.form = 8
    BY <2>1, RecordsAssumption, Zenon
  <2>4. Bytes(x.item, x.form) = ringbuf_put(f, l, n)
    BY <2>2, <2>3, RecordsAssumption, Zenon
  <2>5. x.item.k # "partial"
    <3>1. x.item.k = "open"
      BY <2>2, SMT DEF Record, OpenMap
    <3> QED BY <3>1
  <2>6. f \in 0 .. 15 /\ l \in Nat /\ Number(n)
    BY RecordsAssumption, Zenon
  <2>7. Len(ringbuf_put(f, l, n)) <= BUFSIZE
    BY <2>6, RecordLen
  <2> QED BY <2>1, <2>4, <2>5, <2>7, Zenon
<1>2. RecordFits /\ [Next]_vars => RecordFits'
  BY InputStays, Zenon DEF RecordFits
<1> QED BY <1>1, <1>2, PTL DEF Spec

-----------------------------------------------------------------------------
(* n items of t, one behind the other, from p to q.                        *)
Items(t, p, q, n) ==
  \E f \in [0 .. n -> Nat] :
    /\ f[0] = p /\ f[n] = q
    /\ \A i \in 0 .. (n - 1) : f[i] \in DOMAIN t /\ t[f[i]].end = f[i + 1]

(* Items in a row: none, one, the first, two rows joined, the last.        *)
LEMMA ItemEnds ==
  ASSUME NEW t, NEW p, NEW q, NEW n \in Nat, Items(t, p, q, n)
  PROVE  p \in Nat /\ q \in Nat /\ (n = 0 => p = q)
<1>1. PICK f \in [0 .. n -> Nat] : f[0] = p /\ f[n] = q
  BY DEF Items
<1>2. 0 \in 0 .. n /\ n \in 0 .. n
  OBVIOUS
<1> QED BY <1>1, <1>2

LEMMA NoItems ==
  ASSUME NEW t, NEW p \in Nat
  PROVE  Items(t, p, p, 0)
<1>1. PICK f : f = [i \in 0 .. 0 |-> p]
  OBVIOUS
<1>2. f \in [0 .. 0 -> Nat] /\ f[0] = p /\ \A i \in 0 .. (0 - 1) : FALSE
  BY <1>1
<1> QED BY <1>2 DEF Items

LEMMA OneItem ==
  ASSUME NEW t, NEW p \in Nat, p \in DOMAIN t, t[p].end \in Nat
  PROVE  Items(t, p, t[p].end, 1)
<1>1. PICK f : f = [i \in 0 .. 1 |-> IF i = 0 THEN p ELSE t[p].end]
  OBVIOUS
<1>2. f \in [0 .. 1 -> Nat] /\ f[0] = p /\ f[1] = t[p].end /\ \A i \in 0 .. (1 - 1) : i = 0
  BY <1>1
<1>3. \A i \in 0 .. (1 - 1) : f[i] \in DOMAIN t /\ t[f[i]].end = f[i + 1]
  BY <1>2
<1> QED BY <1>2, <1>3 DEF Items

LEMMA FirstItem ==
  ASSUME NEW t, NEW p, NEW q, NEW n \in Nat, n > 0, Items(t, p, q, n)
  PROVE  p \in Nat /\ p \in DOMAIN t /\ Items(t, t[p].end, q, n - 1)
<1>1. PICK f \in [0 .. n -> Nat] :
        /\ f[0] = p /\ f[n] = q
        /\ \A i \in 0 .. (n - 1) : f[i] \in DOMAIN t /\ t[f[i]].end = f[i + 1]
  BY DEF Items
<1>2. PICK g : g = [i \in 0 .. (n - 1) |-> f[i + 1]]
  OBVIOUS
<1>3. 0 \in 0 .. (n - 1) /\ n - 1 \in 0 .. (n - 1) /\ n \in 0 .. n /\ (n - 1) + 1 = n /\ 0 + 1 = 1
      /\ 0 \in 0 .. n
  OBVIOUS
<1>4. p \in Nat /\ p \in DOMAIN t /\ t[p].end = f[1]
  BY <1>1, <1>3
<1>5. g \in [0 .. (n - 1) -> Nat] /\ g[0] = f[1] /\ g[n - 1] = q
  BY <1>1, <1>2, <1>3
<1>6. ASSUME NEW i \in 0 .. ((n - 1) - 1) PROVE g[i] \in DOMAIN t /\ t[g[i]].end = g[i + 1]
  <2>1. i \in 0 .. (n - 1) /\ i + 1 \in 0 .. (n - 1)
    OBVIOUS
  <2> QED BY <1>1, <1>2, <2>1
<1> QED BY <1>4, <1>5, <1>6 DEF Items

LEMMA ItemsJoin ==
  ASSUME NEW t, NEW p, NEW q, NEW r, NEW k \in Nat, NEW n \in Nat,
         Items(t, p, q, k), Items(t, q, r, n)
  PROVE  Items(t, p, r, k + n)
<1>1. PICK f \in [0 .. k -> Nat] :
        /\ f[0] = p /\ f[k] = q
        /\ \A i \in 0 .. (k - 1) : f[i] \in DOMAIN t /\ t[f[i]].end = f[i + 1]
  BY DEF Items
<1>2. PICK h \in [0 .. n -> Nat] :
        /\ h[0] = q /\ h[n] = r
        /\ \A i \in 0 .. (n - 1) : h[i] \in DOMAIN t /\ t[h[i]].end = h[i + 1]
  BY DEF Items
<1>3. PICK g : g = [i \in 0 .. (k + n) |-> IF i < k THEN f[i] ELSE h[i - k]]
  OBVIOUS
<1>4. g \in [0 .. (k + n) -> Nat]
  <2>1. ASSUME NEW i \in 0 .. (k + n) PROVE (IF i < k THEN f[i] ELSE h[i - k]) \in Nat
    <3>1. i < k => i \in 0 .. k
      OBVIOUS
    <3>2. ~ (i < k) => i - k \in 0 .. n
      OBVIOUS
    <3> QED BY <3>1, <3>2
  <2> QED BY <1>3, <2>1
<1>5. \A i \in 0 .. k : g[i] = f[i]
  BY <1>1, <1>2, <1>3
<1>6. \A i \in 0 .. n : g[k + i] = h[i]
  BY <1>3
<1>7. g[0] = p /\ g[k + n] = r
  BY <1>1, <1>2, <1>5, <1>6
<1>8. ASSUME NEW i \in 0 .. ((k + n) - 1) PROVE g[i] \in DOMAIN t /\ t[g[i]].end = g[i + 1]
  <2>1. CASE i < k
    <3>1. i \in 0 .. (k - 1) /\ i \in 0 .. k /\ i + 1 \in 0 .. k
      BY <2>1
    <3> QED BY <1>1, <1>5, <3>1
  <2>2. CASE ~ (i < k)
    <3>1. PICK j \in 0 .. (n - 1) : i = k + j
      BY <2>2
    <3>2. j \in 0 .. n /\ j + 1 \in 0 .. n /\ i + 1 = k + (j + 1)
      BY <3>1
    <3> QED BY <1>2, <1>6, <3>1, <3>2
  <2> QED BY <2>1, <2>2
<1> QED BY <1>4, <1>7, <1>8 DEF Items

LEMMA LastItem ==
  ASSUME NEW t, NEW p, NEW q, NEW n \in Nat, n > 0, Items(t, p, q, n)
  PROVE  \E c \in Nat : Items(t, p, c, n - 1) /\ Items(t, c, q, 1)
<1>1. PICK f \in [0 .. n -> Nat] :
        /\ f[0] = p /\ f[n] = q
        /\ \A i \in 0 .. (n - 1) : f[i] \in DOMAIN t /\ t[f[i]].end = f[i + 1]
  BY DEF Items
<1>2. n - 1 \in 0 .. n /\ n - 1 \in 0 .. (n - 1) /\ (n - 1) + 1 = n /\ n \in 0 .. n /\ 0 \in 0 .. (n - 1)
  OBVIOUS
<1>3. PICK c \in Nat : c = f[n - 1]
  BY <1>2
<1>4. c \in DOMAIN t /\ t[c].end = q /\ q \in Nat
  BY <1>1, <1>2, <1>3
<1>5. Items(t, c, q, 1)
  BY <1>4, OneItem
<1>6. PICK g : g = [i \in 0 .. (n - 1) |-> f[i]]
  OBVIOUS
<1>7. g \in [0 .. (n - 1) -> Nat] /\ g[0] = p /\ g[n - 1] = c
  BY <1>1, <1>2, <1>3, <1>6
<1>8. ASSUME NEW i \in 0 .. ((n - 1) - 1) PROVE g[i] \in DOMAIN t /\ t[g[i]].end = g[i + 1]
  <2>1. i \in 0 .. (n - 1) /\ i + 1 \in 0 .. (n - 1)
    OBVIOUS
  <2> QED BY <1>1, <1>6, <2>1
<1>9. Items(t, p, c, n - 1)
  BY <1>7, <1>8 DEF Items
<1> QED BY <1>5, <1>9

(* Every item is at least one byte long, so many of them are as long.      *)
LEMMA ItemsSize ==
  ASSUME NEW t, \A x \in DOMAIN t : x \in Nat /\ t[x].end \in Nat /\ t[x].end > x,
         NEW p, NEW q, NEW n \in Nat, Items(t, p, q, n)
  PROVE  p + n <= q /\ p \in Nat /\ q \in Nat
<1>1. PICK f \in [0 .. n -> Nat] :
        /\ f[0] = p /\ f[n] = q
        /\ \A i \in 0 .. (n - 1) : f[i] \in DOMAIN t /\ t[f[i]].end = f[i + 1]
  BY DEF Items
<1> DEFINE T == {i \in Nat : i <= n => f[0] + i <= f[i]}
<1>2. 0 \in T
  <2>1. f[0] \in Nat
    OBVIOUS
  <2> QED BY <2>1
<1>3. ASSUME NEW i \in Nat, i \in T PROVE i + 1 \in T
  <2> SUFFICES ASSUME i + 1 <= n PROVE f[0] + (i + 1) <= f[i + 1]
    OBVIOUS
  <2>1. i \in 0 .. (n - 1) /\ i \in 0 .. n /\ 0 \in 0 .. n /\ i + 1 \in 0 .. n
    OBVIOUS
  <2>2. f[i] \in Nat /\ f[0] \in Nat /\ f[i + 1] \in Nat /\ f[0] + i <= f[i]
    BY <1>3, <2>1
  <2>3. f[i + 1] > f[i]
    BY <1>1, <2>1
  <2> QED BY <2>2, <2>3
<1>4. n \in T
  <2> HIDE DEF T
  <2> QED BY <1>2, <1>3, NatInd, Zenon
<1> QED BY <1>1, <1>4, ItemEnds

(* Parts in a row are as many items.                                       *)
LEMMA RowItems ==
  ASSUME NEW t, NEW parts \in Seq(Nat), NEW p, NEW q \in Nat, InRow(t, parts, p, q)
  PROVE  Items(t, p, q, Len(parts))
<1>1. PICK n \in Nat : n = Len(parts)
  BY LenProperties
<1>2. PICK f : f = [i \in 0 .. n |-> IF i + 1 <= n THEN parts[i + 1] ELSE q]
  OBVIOUS
<1>3. /\ (IF 1 <= n THEN parts[1] ELSE q) = p
      /\ \A i \in 1 .. n : parts[i] \in DOMAIN t
           /\ t[parts[i]].end = (IF i + 1 <= n THEN parts[i + 1] ELSE q)
  BY <1>1 DEF InRow
<1>4. \A i \in 1 .. n : parts[i] \in Nat
  BY <1>1, ElementOfSeq
<1>5. f \in [0 .. n -> Nat] /\ f[0] = p /\ f[n] = q
  <2>1. ASSUME NEW i \in 0 .. n PROVE (IF i + 1 <= n THEN parts[i + 1] ELSE q) \in Nat
    <3>1. i + 1 <= n => i + 1 \in 1 .. n
      OBVIOUS
    <3> QED BY <1>4, <3>1
  <2>2. f \in [0 .. n -> Nat]
    BY <1>2, <2>1
  <2>3. 0 \in 0 .. n /\ n \in 0 .. n /\ ~ (n + 1 <= n) /\ 0 + 1 = 1
    OBVIOUS
  <2> QED BY <1>2, <1>3, <2>2, <2>3
<1>6. ASSUME NEW i \in 0 .. (n - 1) PROVE f[i] \in DOMAIN t /\ t[f[i]].end = f[i + 1]
  <2>1. i \in 0 .. n /\ i + 1 \in 0 .. n /\ i + 1 \in 1 .. n /\ i + 1 <= n
    OBVIOUS
  <2>2. f[i] = parts[i + 1] /\ f[i + 1] = (IF (i + 1) + 1 <= n THEN parts[(i + 1) + 1] ELSE q)
    BY <1>2, <2>1
  <2> QED BY <1>3, <2>1, <2>2
<1> QED BY <1>1, <1>5, <1>6 DEF Items

(* What a length on the stack stands for, from p to r: so many items, or   *)
(* any number of them and a break.                                         *)
Rest(e, t, c, p, r) ==
  IF c = None
  THEN \E b \in Nat, k \in Nat : Items(t, p, b, k) /\ b < Len(e) /\ e[b + 1] = BREAK /\ r = b + 1
  ELSE Items(t, p, r, c)

(* The lists of s are open at p, the last one innermost, and together they *)
(* end with e.                                                             *)
Levels(e, t, s, p) ==
  \E q \in [0 .. Len(s) -> Nat] :
    /\ q[0] = Len(e) /\ q[Len(s)] = p
    /\ \A j \in 1 .. Len(s) : Rest(e, t, s[j], q[j], q[j - 1])

(* A number of items is not the mark of an open list.                      *)
LEMMA NatNotNone == ASSUME NEW c \in Nat PROVE c # None
BY DEF None

(* Without open lists, skip is behind e.                                   *)
LEMMA LevelsAt ==
  ASSUME NEW e, NEW t, NEW s \in Lengths, NEW p, Levels(e, t, s, p)
  PROVE  p \in Nat /\ (s = <<>> => p = Len(e))
<1>1. PICK n \in Nat : n = Len(s)
  BY LenProperties DEF Lengths
<1>2. PICK q \in [0 .. n -> Nat] : q[0] = Len(e) /\ q[n] = p
  BY <1>1 DEF Levels
<1>3. s = <<>> => n = 0
  BY <1>1
<1>4. n \in 0 .. n
  OBVIOUS
<1> QED BY <1>2, <1>3, <1>4

LEMMA LevelsNone ==
  ASSUME NEW e, NEW t, Len(e) \in Nat
  PROVE  Levels(e, t, <<>>, Len(e))
<1>1. PICK q : q = [j \in 0 .. 0 |-> Len(e)]
  OBVIOUS
<1>2. Len(<<>>) = 0 /\ q \in [0 .. 0 -> Nat] /\ q[0] = Len(e) /\ \A j \in 1 .. 0 : FALSE
  BY <1>1
<1> QED BY <1>2 DEF Levels

(* A list opens before what is left of the others, or is closed again.     *)
LEMMA Push ==
  ASSUME NEW e, NEW t, NEW s \in Lengths, NEW c \in Nat \union {None}, NEW p \in Nat, NEW r,
         Levels(e, t, s, r), Rest(e, t, c, p, r)
  PROVE  Levels(e, t, Append(s, c), p)
<1>1. PICK n \in Nat : n = Len(s)
  BY LenProperties DEF Lengths
<1>2. PICK q \in [0 .. n -> Nat] :
        /\ q[0] = Len(e) /\ q[n] = r
        /\ \A j \in 1 .. n : Rest(e, t, s[j], q[j], q[j - 1])
  BY <1>1 DEF Levels
<1>3. PICK u : u = Append(s, c)
  OBVIOUS
<1>4. Len(u) = n + 1 /\ u[n + 1] = c /\ \A j \in 1 .. n : u[j] = s[j]
  BY <1>1, <1>3, AppendProperties DEF Lengths
<1>5. PICK g : g = [j \in 0 .. (n + 1) |-> IF j = n + 1 THEN p ELSE q[j]]
  OBVIOUS
<1>6. g \in [0 .. (n + 1) -> Nat] /\ \A j \in 0 .. n : g[j] = q[j]
  BY <1>5
<1>7. g[0] = Len(e) /\ g[n + 1] = p /\ g[n] = r
  BY <1>2, <1>5, <1>6
<1>8. ASSUME NEW j \in 1 .. (n + 1) PROVE Rest(e, t, u[j], g[j], g[j - 1])
  <2>1. CASE j = n + 1
    <3>1. j - 1 = n
      BY <2>1
    <3> QED BY <1>4, <1>7, <2>1, <3>1, Zenon
  <2>2. CASE j \in 1 .. n
    <3>1. j \in 0 .. n /\ j - 1 \in 0 .. n
      BY <2>2
    <3> QED BY <1>2, <1>4, <1>6, <2>2, <3>1, Zenon
  <2>3. j = n + 1 \/ j \in 1 .. n
    OBVIOUS
  <2> QED BY <2>1, <2>2, <2>3, Zenon
<1> QED BY <1>3, <1>4, <1>6, <1>7, <1>8, Zenon DEF Levels

LEMMA Pop ==
  ASSUME NEW e, NEW t, NEW s \in Lengths, NEW c \in Nat \union {None}, NEW p,
         Levels(e, t, Append(s, c), p)
  PROVE  \E r \in Nat : Levels(e, t, s, r) /\ Rest(e, t, c, p, r)
<1>1. PICK n \in Nat : n = Len(s)
  BY LenProperties DEF Lengths
<1>2. PICK u : u = Append(s, c)
  OBVIOUS
<1>3. Len(u) = n + 1 /\ u[n + 1] = c /\ \A j \in 1 .. n : u[j] = s[j]
  BY <1>1, <1>2, AppendProperties DEF Lengths
<1>4. PICK q \in [0 .. (n + 1) -> Nat] :
        /\ q[0] = Len(e) /\ q[n + 1] = p
        /\ \A j \in 1 .. (n + 1) : Rest(e, t, u[j], q[j], q[j - 1])
  BY <1>2, <1>3, Zenon DEF Levels
<1>5. PICK g : g = [j \in 0 .. n |-> q[j]]
  OBVIOUS
<1>6. g \in [0 .. n -> Nat] /\ \A j \in 0 .. n : g[j] = q[j]
  BY <1>5
<1>7. PICK r \in Nat : r = q[n]
  BY <1>4
<1>8. g[0] = Len(e) /\ g[n] = r
  BY <1>4, <1>6, <1>7
<1>9. ASSUME NEW j \in 1 .. n PROVE Rest(e, t, s[j], g[j], g[j - 1])
  <2>1. j \in 0 .. n /\ j - 1 \in 0 .. n /\ j \in 1 .. (n + 1)
    OBVIOUS
  <2> QED BY <1>3, <1>4, <1>6, <2>1, Zenon
<1>10. Levels(e, t, s, r)
  BY <1>1, <1>6, <1>8, <1>9, Zenon DEF Levels
<1>11. Rest(e, t, c, p, r)
  <2>1. n + 1 \in 1 .. (n + 1) /\ (n + 1) - 1 = n
    OBVIOUS
  <2> QED BY <1>3, <1>4, <1>7, <2>1, Zenon
<1> QED BY <1>10, <1>11

(* An empty rest may be dropped.                                           *)
LEMMA DropZero ==
  ASSUME NEW e, NEW t, NEW s \in Lengths, NEW p, Levels(e, t, Append(s, 0), p)
  PROVE  Levels(e, t, s, p)
<1>1. PICK r \in Nat : Levels(e, t, s, r) /\ Rest(e, t, 0, p, r)
  <2>1. 0 \in Nat \union {None}
    OBVIOUS
  <2> QED BY <2>1, Pop, Zenon
<1>2. 0 # None
  BY DEF None
<1>3. Items(t, p, r, 0)
  BY <1>1, <1>2, Zenon DEF Rest
<1>4. p = r
  <2>1. 0 \in Nat
    OBVIOUS
  <2> QED BY <1>3, <2>1, ItemEnds
<1> QED BY <1>1, <1>4, Zenon

(* One item of a list of known length.                                     *)
LEMMA TakeOne ==
  ASSUME NEW e, NEW t, NEW s \in Lengths, NEW c \in Nat, c > 0, NEW p,
         Levels(e, t, Append(s, c), p)
  PROVE  p \in Nat /\ p \in DOMAIN t /\ Levels(e, t, Append(s, c - 1), t[p].end)
<1>1. c \in Nat \union {None} /\ c - 1 \in Nat /\ c - 1 \in Nat \union {None}
  OBVIOUS
<1>2. PICK r \in Nat : Levels(e, t, s, r) /\ Rest(e, t, c, p, r)
  BY <1>1, Pop, Zenon
<1>3. Items(t, p, r, c)
  BY <1>2, NatNotNone, Zenon DEF Rest
<1>4. p \in Nat /\ p \in DOMAIN t /\ Items(t, t[p].end, r, c - 1)
  BY <1>3, FirstItem
<1>5. Rest(e, t, c - 1, t[p].end, r)
  BY <1>1, <1>4, NatNotNone, Zenon DEF Rest
<1>6. t[p].end \in Nat
  BY <1>1, <1>4, ItemEnds, Zenon
<1>7. Levels(e, t, Append(s, c - 1), t[p].end)
  BY <1>1, <1>2, <1>5, <1>6, Push, Zenon
<1> QED BY <1>4, <1>7

(* One item of a list of unknown length, or its end.                       *)
LEMMA TakeOpen ==
  ASSUME NEW e, NEW t, NEW s \in Lengths, NEW p, Levels(e, t, Append(s, None), p)
  PROVE  /\ p \in Nat
         /\ \/ p \in DOMAIN t /\ Levels(e, t, Append(s, None), t[p].end)
            \/ p < Len(e) /\ e[p + 1] = BREAK /\ Levels(e, t, s, p + 1)
<1>1. None \in Nat \union {None}
  OBVIOUS
<1>2. PICK r \in Nat : Levels(e, t, s, r) /\ Rest(e, t, None, p, r)
  BY <1>1, Pop, Zenon
<1>3. PICK b \in Nat, k \in Nat : Items(t, p, b, k) /\ b < Len(e) /\ e[b + 1] = BREAK /\ r = b + 1
  BY <1>2, Zenon DEF Rest
<1>4. p \in Nat
  BY <1>3, ItemEnds, Zenon
<1>5. CASE k = 0
  <2>1. p = b
    BY <1>3, <1>5, ItemEnds, Zenon
  <2> QED BY <1>2, <1>3, <1>4, <2>1, Zenon
<1>6. CASE k > 0
  <2>1. p \in DOMAIN t /\ Items(t, t[p].end, b, k - 1)
    BY <1>3, <1>6, FirstItem
  <2>2. k - 1 \in Nat
    BY <1>6
  <2>3. t[p].end \in Nat
    BY <2>1, <2>2, ItemEnds, Zenon
  <2>4. Rest(e, t, None, t[p].end, r)
    BY <1>3, <2>1, <2>2, Zenon DEF Rest
  <2>5. Levels(e, t, Append(s, None), t[p].end)
    BY <1>1, <1>2, <2>3, <2>4, Push, Zenon
  <2> QED BY <1>4, <2>1, <2>5, Zenon
<1>7. k = 0 \/ k > 0
  OBVIOUS
<1> QED BY <1>5, <1>6, <1>7, Zenon

(* More items before a list of known or unknown length.                    *)
LEMMA PutMore ==
  ASSUME NEW e, NEW t, NEW s \in Lengths, NEW c \in Nat, NEW k \in Nat, NEW p, NEW r,
         Levels(e, t, Append(s, c), r), Items(t, p, r, k)
  PROVE  Levels(e, t, Append(s, k + c), p)
<1>1. c \in Nat \union {None} /\ k + c \in Nat /\ k + c \in Nat \union {None}
  OBVIOUS
<1>2. PICK x \in Nat : Levels(e, t, s, x) /\ Rest(e, t, c, r, x)
  BY <1>1, Pop, Zenon
<1>3. Items(t, r, x, c)
  BY <1>2, NatNotNone, Zenon DEF Rest
<1>4. Items(t, p, x, k + c)
  BY <1>3, ItemsJoin, Zenon
<1>5. Rest(e, t, k + c, p, x)
  BY <1>1, <1>4, NatNotNone, Zenon DEF Rest
<1>6. p \in Nat
  BY ItemEnds, Zenon
<1> QED BY <1>1, <1>2, <1>5, <1>6, Push, Zenon

LEMMA PutOpen ==
  ASSUME NEW e, NEW t, NEW s \in Lengths, NEW k \in Nat, NEW p, NEW r,
         Levels(e, t, Append(s, None), r), Items(t, p, r, k)
  PROVE  Levels(e, t, Append(s, None), p)
<1>1. None \in Nat \union {None}
  OBVIOUS
<1>2. PICK x \in Nat : Levels(e, t, s, x) /\ Rest(e, t, None, r, x)
  BY <1>1, Pop, Zenon
<1>3. PICK b \in Nat, n \in Nat : Items(t, r, b, n) /\ b < Len(e) /\ e[b + 1] = BREAK /\ x = b + 1
  BY <1>2, Zenon DEF Rest
<1>4. Items(t, p, b, k + n)
  BY <1>3, ItemsJoin, Zenon
<1>5. k + n \in Nat
  OBVIOUS
<1>6. Rest(e, t, None, p, x)
  BY <1>3, <1>4, <1>5, Zenon DEF Rest
<1>7. p \in Nat
  BY ItemEnds, Zenon
<1> QED BY <1>1, <1>2, <1>6, <1>7, Push, Zenon

(* Of the items before the rest of an open list the last may count as one  *)
(* of that list.                                                           *)
LEMMA CountLess ==
  ASSUME NEW e, NEW t, NEW s \in Lengths, NEW k \in Nat, k > 0, NEW p,
         Levels(e, t, Append(Append(s, None), k), p)
  PROVE  Levels(e, t, Append(Append(s, None), k - 1), p)
<1>1. PICK u : u = Append(s, None)
  OBVIOUS
<1>2. u \in Lengths
  BY <1>1 DEF Lengths
<1>3. k \in Nat \union {None} /\ k - 1 \in Nat /\ k - 1 \in Nat \union {None} /\ 1 \in Nat
  OBVIOUS
<1>4. PICK x \in Nat : Levels(e, t, u, x) /\ Rest(e, t, k, p, x)
  BY <1>1, <1>2, <1>3, Pop, Zenon
<1>5. Items(t, p, x, k)
  BY <1>4, NatNotNone, Zenon DEF Rest
<1>6. PICK c \in Nat : Items(t, p, c, k - 1) /\ Items(t, c, x, 1)
  BY <1>5, LastItem, Zenon
<1>7. Levels(e, t, u, c)
  BY <1>1, <1>3, <1>4, <1>6, PutOpen, Zenon
<1>8. Rest(e, t, k - 1, p, c)
  BY <1>3, <1>6, NatNotNone, Zenon DEF Rest
<1>9. p \in Nat
  BY <1>3, <1>6, ItemEnds, Zenon
<1> QED BY <1>1, <1>2, <1>3, <1>7, <1>8, <1>9, Push, Zenon

(* i lists of unknown length.                                              *)
Opened(i) == [j \in 1 .. i |-> None]

(* They are a stack.                                                       *)
LEMMA OpenedLengths ==
  ASSUME NEW i \in Nat
  PROVE  /\ Opened(i) \in Lengths /\ Len(Opened(i)) = i
         /\ Opened(0) = <<>> /\ Opened(i + 1) = Append(Opened(i), None)
<1>1. ASSUME NEW n \in Nat PROVE Opened(n) \in Lengths /\ Len(Opened(n)) = n
  BY DEF Opened, Lengths
<1>2. Opened(0) = <<>>
  BY DEF Opened
<1>3. PICK a, b : a = Opened(i + 1) /\ b = Opened(i)
  OBVIOUS
<1>4. a \in Lengths /\ Len(a) = i + 1 /\ b \in Lengths /\ Len(b) = i
  BY <1>1, <1>3
<1>5. a = Append(b, None)
  <2>1. Append(b, None) \in Lengths /\ Len(Append(b, None)) = i + 1
    BY <1>4, AppendProperties DEF Lengths
  <2>2. ASSUME NEW j \in 1 .. (i + 1) PROVE a[j] = Append(b, None)[j]
    <3>1. a[j] = None
      BY <1>3 DEF Opened
    <3>2. Append(b, None)[j] = None
      <4>1. j \in 1 .. i => b[j] = None
        BY <1>3 DEF Opened
      <4> QED BY <1>4, <4>1, AppendProperties DEF Lengths
    <3> QED BY <3>1, <3>2
  <2> QED BY <1>4, <2>1, <2>2, SeqEqual DEF Lengths
<1> QED BY <1>1, <1>2, <1>3, <1>5

(* There are not more of them than bytes.                                  *)
LEMMA Depth ==
  ASSUME NEW e, Len(e) \in Nat, NEW t,
         \A x \in DOMAIN t : x \in Nat /\ t[x].end \in Nat /\ t[x].end > x,
         NEW i \in Nat, NEW p, Levels(e, t, Opened(i), p)
  PROVE  p + i <= Len(e)
<1> DEFINE T == {n \in Nat : \A x \in Nat : Levels(e, t, Opened(n), x) => x + n <= Len(e)}
<1>1. 0 \in T
  <2> SUFFICES ASSUME NEW x \in Nat, Levels(e, t, Opened(0), x) PROVE x + 0 <= Len(e)
    OBVIOUS
  <2>1. 0 \in Nat
    OBVIOUS
  <2>2. Opened(0) = <<>> /\ Opened(0) \in Lengths
    BY <2>1, OpenedLengths, Zenon
  <2>3. x = Len(e)
    BY <2>2, LevelsAt, Zenon
  <2> QED BY <2>3
<1>2. ASSUME NEW n \in Nat, n \in T PROVE n + 1 \in T
  <2> SUFFICES ASSUME NEW x \in Nat, Levels(e, t, Opened(n + 1), x) PROVE x + (n + 1) <= Len(e)
    OBVIOUS
  <2>1. Opened(n + 1) = Append(Opened(n), None) /\ Opened(n) \in Lengths
    BY OpenedLengths, Zenon
  <2>2. PICK r \in Nat : Levels(e, t, Opened(n), r) /\ Rest(e, t, None, x, r)
    <3>1. None \in Nat \union {None}
      OBVIOUS
    <3> QED BY <2>1, <3>1, Pop, Zenon
  <2>3. r + n <= Len(e)
    BY <1>2, <2>2
  <2>4. PICK b \in Nat, k \in Nat : Items(t, x, b, k) /\ r = b + 1
    BY <2>2, Zenon DEF Rest
  <2>5. x + k <= b
    BY <2>4, ItemsSize
  <2> QED BY <2>3, <2>4, <2>5
<1>3. i \in T
  <2> HIDE DEF T
  <2> QED BY <1>1, <1>2, NatInd, Zenon
<1>4. p \in Nat
  BY OpenedLengths, LevelsAt, Zenon
<1> QED BY <1>3, <1>4

-----------------------------------------------------------------------------
(* The buffer starts like e, as far as both go.                            *)
Matches(e) ==
  /\ buf \in Seq(Byte) /\ e \in Seq(Byte)
  /\ \A i \in 1 .. Len(e) : i <= Len(buf) => buf[i] = e[i]

(* A reader got to x, or the buffer ended before e did.                    *)
Ends(r, e, x) ==
  /\ r.ok \in BOOLEAN
  /\ r.ok => r.pos = x
  /\ ~ r.ok => r.val = "EndOfInput" /\ Len(buf) < Len(e)

(* What a reader returns that got there, and one that did not.             *)
LEMMA OkEnds ==
  ASSUME NEW v, NEW x, NEW e
  PROVE  Ends(Ok(v, x), e, x) /\ Ok(v, x).ok /\ Ok(v, x).val = v /\ Ok(v, x).pos = x
BY SMT DEF Ends, Ok

LEMMA ErrEnds ==
  ASSUME NEW p, NEW e, NEW x, Len(buf) < Len(e)
  PROVE  Ends(Err("EndOfInput", p), e, x) /\ ~ Err("EndOfInput", p).ok
BY SMT DEF Ends, Err

(* Where both go on, the buffer has the byte of e.                         *)
LEMMA HeadAt ==
  ASSUME NEW e, Matches(e), NEW p \in Nat, p < Len(e), ~ AtEnd(p)
  PROVE  /\ current(p) = e[p + 1] /\ e[p + 1] \in Byte /\ Len(e) \in Nat /\ Len(buf) \in Nat
         /\ p + 1 \in 0 .. Len(buf) /\ p \in 0 .. Len(buf)
<1>1. Len(e) \in Nat /\ Len(buf) \in Nat
  BY LenProperties DEF Matches
<1>2. p + 1 \in 1 .. Len(e) /\ p + 1 <= Len(buf)
  BY <1>1 DEF AtEnd
<1>3. buf[p + 1] = e[p + 1]
  BY <1>2, Zenon DEF Matches
<1>4. e[p + 1] \in Byte
  BY <1>2, ElementOfSeq DEF Matches
<1>5. p + 1 \in 0 .. Len(buf) /\ p \in 0 .. Len(buf)
  BY <1>1, <1>2
<1> QED BY <1>1, <1>3, <1>4, <1>5, Zenon DEF current

(* The bytes of a slice.                                                   *)
LEMMA Slice ==
  ASSUME NEW e \in Seq(Byte), NEW a \in Nat, NEW n \in Nat, a + n <= Len(e)
  PROVE  /\ SubSeq(e, a + 1, a + n) \in Seq(Byte) /\ Len(SubSeq(e, a + 1, a + n)) = n
         /\ \A k \in 1 .. n : SubSeq(e, a + 1, a + n)[k] = e[a + k]
<1>1. PICK l \in Nat : l = Len(e)
  BY LenProperties
<1>2. PICK b \in Int, c \in Int : b = a + 1 /\ c = a + n
  OBVIOUS
<1>3. \A k \in b .. c : k \in 1 .. l
  BY <1>1, <1>2
<1>4. \A k \in b .. c : e[k] \in Byte
  BY <1>1, <1>3, ElementOfSeq
<1>5. PICK w : w = SubSeq(e, b, c)
  OBVIOUS
<1>6. /\ w \in Seq(Byte) /\ Len(w) = IF b <= c THEN c - b + 1 ELSE 0
      /\ \A k \in 1 .. c - b + 1 : w[k] = e[b + k - 1]
  <2>1. /\ SubSeq(e, b, c) \in Seq(Byte) /\ Len(SubSeq(e, b, c)) = IF b <= c THEN c - b + 1 ELSE 0
        /\ \A k \in 1 .. c - b + 1 : SubSeq(e, b, c)[k] = e[b + k - 1]
    BY <1>4, SubSeqProperties
  <2> QED BY <1>5, <2>1, Zenon
<1>7. Len(w) = n
  BY <1>2, <1>6
<1>8. \A k \in 1 .. n : k \in 1 .. c - b + 1 /\ b + k - 1 = a + k
  BY <1>2
<1>9. \A k \in 1 .. n : w[k] = e[a + k]
  BY <1>6, <1>8, Zenon
<1> QED BY <1>2, <1>5, <1>6, <1>7, <1>9, Zenon

(* A slice of e.                                                           *)
LEMMA SliceEnds ==
  ASSUME NEW e, Matches(e), NEW p \in Nat, NEW n \in Nat, p + n <= Len(e)
  PROVE  /\ Ends(read_slice(p, n), e, p + n)
         /\ read_slice(p, n).ok => read_slice(p, n).val = SubSeq(e, p + 1, p + n)
<1>1. Len(e) \in Nat /\ Len(buf) \in Nat /\ buf \in Seq(Byte) /\ e \in Seq(Byte)
  BY LenProperties DEF Matches
<1>2. CASE p + n <= Len(buf)
  <2>1. PICK v, w : v = SubSeq(buf, p + 1, p + n) /\ w = SubSeq(e, p + 1, p + n)
    OBVIOUS
  <2>2. read_slice(p, n) = Ok(v, p + n)
    BY <1>2, <2>1, Zenon DEF read_slice
  <2>3. v = w
    <3>1. \A i \in (p + 1) .. (p + n) : i \in 1 .. Len(buf) /\ i \in 1 .. Len(e) /\ i <= Len(buf)
      BY <1>1, <1>2
    <3>2. \A i \in (p + 1) .. (p + n) : buf[i] \in Byte /\ e[i] \in Byte /\ buf[i] = e[i]
      BY <1>1, <3>1, ElementOfSeq DEF Matches
    <3>3. v \in Seq(Byte) /\ Len(v) = n /\ \A i \in 1 .. n : v[i] = buf[p + i]
      BY <1>1, <1>2, <2>1, Slice, Zenon
    <3>4. w \in Seq(Byte) /\ Len(w) = n /\ \A i \in 1 .. n : w[i] = e[p + i]
      BY <1>1, <2>1, Slice, Zenon
    <3>5. \A i \in 1 .. n : p + i \in (p + 1) .. (p + n)
      OBVIOUS
    <3>6. \A i \in 1 .. n : v[i] = w[i]
      BY <3>2, <3>3, <3>4, <3>5, Zenon
    <3> QED BY <3>3, <3>4, <3>6, SeqEqual
  <2>4. PICK x : x = p + n
    OBVIOUS
  <2>5. Ends(Ok(v, x), e, x) /\ Ok(v, x).val = v
    BY OkEnds, Zenon
  <2> QED BY <2>1, <2>2, <2>3, <2>4, <2>5, Zenon
<1>3. CASE ~ (p + n <= Len(buf))
  <2>1. read_slice(p, n) = Err("EndOfInput", p)
    BY <1>3, Zenon DEF read_slice
  <2>2. Len(buf) < Len(e)
    BY <1>1, <1>3
  <2> QED BY <2>1, <2>2, ErrEnds, Zenon
<1> QED BY <1>2, <1>3, Zenon

(* A head of e and the number behind it.                                   *)
LEMMA HeadType ==
  ASSUME NEW e \in Seq(Byte), NEW p \in Nat, p < Len(e), info_of(e[p + 1]) <= 27,
         After(e, p) <= Len(e)
  PROVE  /\ After(e, p) \in Nat /\ After(e, p) > p /\ info_of(e[p + 1]) \in 0 .. 27
         /\ Argument(e, p) \in Seq(Byte) /\ NatOf(Argument(e, p)) \in 0 .. Cap
         /\ NatOf(Argument(e, p)) \in Nat
<1>1. Len(e) \in Nat /\ p + 1 \in 1 .. Len(e)
  BY LenProperties
<1>2. e[p + 1] \in Byte
  BY <1>1, ElementOfSeq
<1>3. PICK i \in 0 .. 27 : i = info_of(e[p + 1])
  <2>1. PICK i \in 0 .. 31 : i = info_of(e[p + 1])
    BY <1>2, Heads, Zenon
  <2>2. i <= 27
    BY <2>1, Zenon
  <2>3. i \in 0 .. 27
    BY <2>2
  <2> QED BY <2>1, <2>3, Zenon
<1>4. CASE i <= 23
  <2>1. After(e, p) = p + 1 + 0 /\ Argument(e, p) = Mag(i)
    BY <1>3, <1>4, Zenon DEF After, Argument
  <2>2. i \in 0 .. 31
    OBVIOUS
  <2>3. Argument(e, p) \in Seq(Byte)
    BY <2>1, <2>2, MagType, Zenon
  <2> QED BY <1>3, <2>1, <2>3, NatOfType, CapType
<1>5. CASE ~ (i <= 23)
  <2>1. PICK w \in {1, 2, 4, 8} : w = Width(i)
    <3>1. i \in 24 .. 27
      BY <1>5
    <3> QED BY <3>1, Widths, Zenon
  <2>2. After(e, p) = p + 1 + w /\ Argument(e, p) = Strip(SubSeq(e, p + 2, p + 1 + w))
    BY <1>3, <1>5, <2>1, Zenon DEF After, Argument
  <2>3. SubSeq(e, p + 2, p + 1 + w) \in Seq(Byte)
    <3>1. (p + 2) .. (p + 1 + w) \subseteq 1 .. Len(e)
      BY <1>1, <2>2
    <3>2. \A k \in (p + 2) .. (p + 1 + w) : e[k] \in Byte
      BY <3>1, ElementOfSeq
    <3> QED BY <1>1, <3>2, SubSeqProperties
  <2>4. Argument(e, p) \in Seq(Byte)
    BY <2>2, <2>3, StripType, Zenon
  <2> QED BY <1>3, <2>2, <2>4, NatOfType, CapType
<1> QED BY <1>4, <1>5, Zenon

(* The number is read, or the buffer ends.                                 *)
LEMMA HeadEnds ==
  ASSUME NEW e, Matches(e), NEW p \in Nat, p < Len(e), ~ AtEnd(p), info_of(e[p + 1]) <= 27,
         After(e, p) <= Len(e)
  PROVE  \E r : /\ r = unsigned(info_of(current(p)), p + 1)
                /\ Ends(r, e, After(e, p))
                /\ r.ok => r.val = Argument(e, p)
<1>1. e \in Seq(Byte) /\ current(p) = e[p + 1] /\ Len(e) \in Nat
  BY HeadAt, Zenon DEF Matches
<1>2. PICK i \in 0 .. 27 : i = info_of(e[p + 1])
  BY <1>1, HeadType
<1>3. PICK u : u = unsigned(i, p + 1)
  OBVIOUS
<1>4. CASE i <= 23
  <2>1. After(e, p) = p + 1 /\ Argument(e, p) = Mag(i)
    <3>1. After(e, p) = p + 1 + 0 /\ Argument(e, p) = Mag(i)
      BY <1>2, <1>4, Zenon DEF After, Argument
    <3> QED BY <3>1
  <2>2. u = Ok(Mag(i), p + 1)
    BY <1>3, <1>4, Zenon DEF unsigned
  <2>3. Ends(u, e, After(e, p)) /\ u.val = Argument(e, p)
    BY <2>1, <2>2, OkEnds, Zenon
  <2> QED BY <1>1, <1>2, <1>3, <2>3, Zenon
<1>5. CASE ~ (i <= 23)
  <2>1. PICK w \in {1, 2, 4, 8} : w = Width(i)
    <3>1. i \in 24 .. 27
      BY <1>5
    <3> QED BY <3>1, Widths, Zenon
  <2>2. After(e, p) = p + 1 + w /\ Argument(e, p) = Strip(SubSeq(e, p + 2, p + 1 + w))
    BY <1>2, <1>5, <2>1, Zenon DEF After, Argument
  <2>3. PICK r : r = read_slice(p + 1, w)
    OBVIOUS
  <2>4. p + 1 \in Nat /\ w \in Nat /\ (p + 1) + w <= Len(e) /\ (p + 1) + 1 = p + 2
        /\ (p + 1) + w = p + 1 + w
    BY <2>2
  <2>5. Ends(r, e, (p + 1) + w) /\ (r.ok => r.val = SubSeq(e, (p + 1) + 1, (p + 1) + w))
    BY <2>3, <2>4, SliceEnds, Zenon
  <2>6. ~ (i > 27)
    OBVIOUS
  <2>7. u = IF r.ok THEN Ok(Strip(r.val), r.pos) ELSE r
    BY <1>3, <1>5, <2>1, <2>3, <2>6, Zenon DEF unsigned
  <2>8. CASE r.ok
    <3>1. u = Ok(Argument(e, p), After(e, p))
      BY <2>2, <2>4, <2>5, <2>7, <2>8, Zenon DEF Ends
    <3>2. PICK v, x : v = Argument(e, p) /\ x = After(e, p)
      OBVIOUS
    <3>3. Ends(Ok(v, x), e, x) /\ Ok(v, x).val = v
      BY OkEnds, Zenon
    <3>4. Ends(u, e, After(e, p)) /\ u.val = Argument(e, p)
      BY <3>1, <3>2, <3>3, Zenon
    <3> QED BY <1>1, <1>2, <1>3, <3>4, Zenon
  <2>9. CASE ~ r.ok
    <3>1. Ends(u, e, After(e, p)) /\ ~ u.ok
      BY <2>5, <2>7, <2>9, Zenon DEF Ends
    <3> QED BY <1>1, <1>2, <1>3, <3>1, Zenon
  <2> QED BY <2>8, <2>9, Zenon
<1> QED BY <1>4, <1>5, Zenon

(* What bytes and str make of a head of their type, with a length n that   *)
(* ends at a.                                                              *)
StrFrom(z, m, e, a, n) ==
  \/ Ends(z, e, a) /\ ~ z.ok
  \/ \E r : /\ r = read_slice(a, n)
            /\ z = IF r.ok /\ m = TEXT /\ \E i \in DOMAIN r.val : r.val[i] >= 128
                   THEN Err("Utf8", r.pos) ELSE r

(* A string whose head is there.                                           *)
LEMMA StrOn ==
  ASSUME NEW e, Matches(e), NEW p \in Nat, p < Len(e), ~ AtEnd(p), info_of(e[p + 1]) <= 27,
         After(e, p) <= Len(e), NEW m, type_of(e[p + 1]) = m
  PROVE  StrFrom(ReadStr(m, p), m, e, After(e, p), NatOf(Argument(e, p)))
<1>1. current(p) = e[p + 1] /\ e \in Seq(Byte)
  BY HeadAt, Zenon DEF Matches
<1>2. info_of(e[p + 1]) # Indefinite
  <2>1. info_of(e[p + 1]) \in 0 .. 27
    BY <1>1, HeadType
  <2> QED BY <2>1 DEF Indefinite
<1>3. PICK u : /\ u = unsigned(info_of(current(p)), p + 1)
               /\ Ends(u, e, After(e, p)) /\ (u.ok => u.val = Argument(e, p))
  BY HeadEnds, Zenon
<1>4. PICK r : r = read_slice(u.pos, NatOf(u.val))
  OBVIOUS
<1>5. ReadStr(m, p) =
        IF ~ u.ok THEN u
        ELSE IF r.ok /\ m = TEXT /\ \E i \in DOMAIN r.val : r.val[i] >= 128
             THEN Err("Utf8", r.pos)
        ELSE r
  BY <1>1, <1>2, <1>3, <1>4, Zenon DEF ReadStr
<1>6. CASE u.ok
  <2>1. u.pos = After(e, p) /\ u.val = Argument(e, p)
    BY <1>3, <1>6, Zenon DEF Ends
  <2> QED BY <1>4, <1>5, <1>6, <2>1, Zenon DEF StrFrom
<1>7. CASE ~ u.ok
  BY <1>3, <1>5, <1>7, Zenon DEF StrFrom
<1> QED BY <1>6, <1>7, Zenon

(* A string of e, if it is UTF-8, is read to its end.                      *)
LEMMA StrEnds ==
  ASSUME NEW e, Matches(e), NEW p \in Nat, p < Len(e), ~ AtEnd(p), info_of(e[p + 1]) <= 27,
         After(e, p) <= Len(e), NEW m, type_of(e[p + 1]) = m, NEW x \in Nat, x <= Len(e),
         x = After(e, p) + NatOf(Argument(e, p)),
         m = TEXT => \A i \in (After(e, p) + 1) .. x : e[i] < 128
  PROVE  Ends(ReadStr(m, p), e, x)
<1>1. e \in Seq(Byte) /\ Len(e) \in Nat
  BY LenProperties DEF Matches
<1>2. PICK a \in Nat, n \in Nat : a = After(e, p) /\ n = NatOf(Argument(e, p))
  BY <1>1, HeadType
<1>3. CASE Ends(ReadStr(m, p), e, After(e, p)) /\ ~ ReadStr(m, p).ok
  BY <1>3, Zenon DEF Ends
<1>4. ASSUME NEW r, r = read_slice(a, n),
             ReadStr(m, p) = IF r.ok /\ m = TEXT /\ \E i \in DOMAIN r.val : r.val[i] >= 128
                             THEN Err("Utf8", r.pos) ELSE r
      PROVE  Ends(ReadStr(m, p), e, x)
  <2>1. a + n = x /\ a + n <= Len(e)
    BY <1>2
  <2>2. Ends(r, e, x) /\ (r.ok => r.val = SubSeq(e, a + 1, a + n))
    <3>1. /\ Ends(read_slice(a, n), e, a + n)
          /\ read_slice(a, n).ok => read_slice(a, n).val = SubSeq(e, a + 1, a + n)
      BY <2>1, SliceEnds, Zenon
    <3> QED BY <1>4, <2>1, <3>1, Zenon
  <2>3. ~ (r.ok /\ m = TEXT /\ \E i \in DOMAIN r.val : r.val[i] >= 128)
    <3> SUFFICES ASSUME r.ok, m = TEXT, NEW i \in DOMAIN r.val, r.val[i] >= 128 PROVE FALSE
      BY Zenon
    <3>1. PICK w : w = r.val /\ w = SubSeq(e, a + 1, a + n)
      BY <2>2, Zenon
    <3>2. \A k \in (a + 1) .. (a + n) : k \in 1 .. Len(e)
      BY <1>1, <2>1
    <3>3. \A k \in (a + 1) .. (a + n) : e[k] \in Byte
      BY <1>1, <3>2, ElementOfSeq
    <3>4. w \in Seq(Byte) /\ Len(w) = n /\ \A k \in 1 .. n : w[k] = e[a + k]
      <4>1. /\ SubSeq(e, a + 1, a + n) \in Seq(Byte) /\ Len(SubSeq(e, a + 1, a + n)) = n
            /\ \A k \in 1 .. n : SubSeq(e, a + 1, a + n)[k] = e[a + k]
        BY <1>1, <2>1, Slice, Zenon
      <4> QED BY <3>1, <4>1, Zenon
    <3>5. DOMAIN w = 1 .. n
      BY <3>4, LenProperties
    <3>6. i \in 1 .. n /\ w[i] >= 128
      BY <3>1, <3>5, Zenon
    <3>7. a + i \in (a + 1) .. x /\ a + i \in (a + 1) .. (a + n)
      BY <2>1, <3>6
    <3>8. \A k \in (a + 1) .. x : e[k] < 128
      BY <1>2, Zenon
    <3>9. e[a + i] < 128 /\ w[i] = e[a + i]
      BY <3>4, <3>6, <3>7, <3>8, Zenon
    <3>10. PICK z \in 0 .. 255 : z = e[a + i]
      BY <3>3, <3>7, Zenon DEF Byte
    <3>11. z < 128 /\ z >= 128
      BY <3>6, <3>9, <3>10, Zenon
    <3> QED BY <3>11
  <2>4. ReadStr(m, p) = r
    BY <1>4, <2>3, Zenon
  <2> QED BY <2>2, <2>4, Zenon
<1>5. StrFrom(ReadStr(m, p), m, e, After(e, p), NatOf(Argument(e, p)))
  BY StrOn, Zenon
<1> QED BY <1>2, <1>3, <1>4, <1>5, Zenon DEF StrFrom

(* An item of a tree lies in e and is one byte long at least.              *)
LEMMA ItemFacts ==
  ASSUME NEW e \in Seq(Byte), NEW t, Wellformed(e, t), NEW p \in DOMAIN t
  PROVE  /\ p \in Nat /\ p < Len(e) /\ Len(e) \in Nat
         /\ t[p].end \in Nat /\ t[p].end <= Len(e) /\ t[p].end > p
         /\ t[p].parts \in Seq(Nat) /\ (Sized(e, t, p) \/ Open(e, t, p))
<1>1. Len(e) \in Nat
  BY LenProperties
<1>2. /\ p \in 0 .. (Len(e) - 1) /\ t[p].end \in (p + 1) .. Len(e)
      /\ t[p].parts \in Seq(Nat) /\ (Sized(e, t, p) \/ Open(e, t, p))
  BY Zenon DEF Wellformed
<1>3. p \in Nat /\ p < Len(e)
  BY <1>1, <1>2
<1>4. t[p].end \in Nat /\ t[p].end <= Len(e) /\ t[p].end > p
  BY <1>1, <1>2, <1>3
<1> QED BY <1>1, <1>2, <1>3, <1>4, Zenon

LEMMA TreeGrows ==
  ASSUME NEW e \in Seq(Byte), NEW t, Wellformed(e, t)
  PROVE  \A x \in DOMAIN t : x \in Nat /\ t[x].end \in Nat /\ t[x].end > x
BY ItemFacts, Zenon

(* The types of heads differ, and a break is none of a list.               *)
LEMMA MajorsDiffer ==
  /\ type_of(BREAK) = SIMPLE /\ info_of(BREAK) = Indefinite
  /\ SIMPLE \notin {BYTES, TEXT, ARRAY, MAP, TAGGED, UNSIGNED, SIGNED}
  /\ TAGGED \notin {BYTES, TEXT, ARRAY, MAP, UNSIGNED, SIGNED}
  /\ BYTES \notin {TEXT, ARRAY, MAP, UNSIGNED, SIGNED} /\ TEXT \notin {ARRAY, MAP, UNSIGNED, SIGNED}
  /\ ARRAY \notin {MAP, UNSIGNED, SIGNED} /\ MAP \notin {UNSIGNED, SIGNED}
BY DEF type_of, info_of, BREAK, Indefinite, SIMPLE, TAGGED, BYTES, TEXT, ARRAY, MAP, UNSIGNED, SIGNED

(* Of the two kinds of an item, the head tells which it is.                *)
LEMMA NotOpen ==
  ASSUME NEW e, NEW t, NEW p, Sized(e, t, p) \/ Open(e, t, p)
  PROVE  /\ info_of(e[p + 1]) <= 27 => Sized(e, t, p)
         /\ info_of(e[p + 1]) = Indefinite => Open(e, t, p)
         /\ info_of(e[p + 1]) <= 27 \/ info_of(e[p + 1]) = Indefinite
<1>1. Sized(e, t, p) => info_of(e[p + 1]) <= 27
  BY Zenon DEF Sized
<1>2. Open(e, t, p) => info_of(e[p + 1]) = Indefinite
  BY Zenon DEF Open
<1>3. ~ (Indefinite <= 27)
  BY DEF Indefinite
<1>4. info_of(e[p + 1]) = Indefinite => ~ (info_of(e[p + 1]) <= 27)
  BY <1>3, Zenon
<1> QED BY <1>1, <1>2, <1>4, Zenon

(* bytes_iter and str_iter read the pieces of a string to its break.       *)
LEMMA ChunksEnd ==
  ASSUME NEW e, Matches(e), NEW t, Wellformed(e, t), NEW p \in DOMAIN t, Open(e, t, p),
         NEW m \in {BYTES, TEXT}, type_of(e[p + 1]) = m, ~ AtEnd(p)
  PROVE  Ends(ReadChunks(m, p + 1), e, t[p].end)
<1>1. e \in Seq(Byte) /\ buf \in Seq(Byte)
  BY Zenon DEF Matches
<1>2. PICK parts \in Seq(Nat), X \in Nat : parts = t[p].parts /\ X = t[p].end
  BY <1>1, ItemFacts, Zenon
<1>3. p \in Nat /\ p < Len(e) /\ X <= Len(e) /\ X > p /\ Len(e) \in Nat
  BY <1>1, <1>2, ItemFacts, Zenon
<1>4. PICK n \in Nat : n = Len(parts)
  BY LenProperties
<1> DEFINE at(i) == IF i <= n THEN parts[i] ELSE X - 1
<1>5. /\ at(1) = p + 1 /\ e[X] = BREAK
      /\ \A i \in 1 .. n : parts[i] \in DOMAIN t /\ t[parts[i]].end = at(i + 1)
      /\ \A i \in 1 .. n : type_of(e[parts[i] + 1]) = m /\ info_of(e[parts[i] + 1]) <= 27
  BY <1>2, <1>4, Zenon DEF Open, InRow
<1>6. p + 1 \in 0 .. Len(buf) /\ Len(buf) \in Nat
  BY <1>3, HeadAt, Zenon
<1>7. PICK g : /\ ReadChunks(m, p + 1) = g[p + 1]
               /\ \A q \in 0 .. Len(buf) : g[q] = Chunk(m, g, q)
  <2>1. PICK c \in 0 .. Len(buf) : c = p + 1
    BY <1>6, Zenon
  <2>2. \E g : ChunksAre(m, g, c)
    BY <1>1, ChunksDefined, Zenon
  <2> QED BY <2>1, <2>2, Zenon DEF ChunksAre
<1>8. ASSUME NEW q \in Nat, q <= Len(buf), q < Len(e), AtEnd(q) PROVE Ends(g[q], e, X)
  <2>1. q \in 0 .. Len(buf) /\ Len(buf) < Len(e)
    BY <1>3, <1>6, <1>8 DEF AtEnd
  <2>2. g[q] = Err("EndOfInput", q)
    BY <1>7, <1>8, <2>1, Zenon DEF Chunk
  <2> QED BY <2>1, <2>2, ErrEnds, Zenon
<1>9. ASSUME X - 1 <= Len(buf) PROVE Ends(g[X - 1], e, X)
  <2>1. PICK q \in Nat : q = X - 1
    BY <1>3
  <2>2. q < Len(e) /\ q <= Len(buf) /\ q + 1 = X /\ q \in 0 .. Len(buf)
    BY <1>3, <1>6, <1>9, <2>1
  <2>3. CASE ~ AtEnd(q)
    <3>1. current(q) = BREAK
      BY <1>5, <2>2, <2>3, HeadAt, Zenon
    <3>2. g[q] = Ok(<<>>, X)
      BY <1>7, <2>2, <2>3, <3>1, Zenon DEF Chunk
    <3>3. Ends(Ok(<<>>, X), e, X)
      BY OkEnds, Zenon
    <3> QED BY <2>1, <3>2, <3>3, Zenon
  <2> QED BY <1>8, <2>1, <2>2, <2>3, Zenon
<1>10. ASSUME NEW i \in 1 .. n, at(i + 1) <= Len(buf) => Ends(g[at(i + 1)], e, X),
              parts[i] <= Len(buf)
       PROVE  Ends(g[parts[i]], e, X)
  <2>1. PICK q \in DOMAIN t : q = parts[i]
    BY <1>5, Zenon
  <2>2. t[q].end = at(i + 1) /\ type_of(e[q + 1]) = m /\ info_of(e[q + 1]) <= 27
    BY <1>5, <2>1, Zenon
  <2>3. /\ q \in Nat /\ q < Len(e) /\ t[q].end \in Nat /\ t[q].end <= Len(e)
        /\ Sized(e, t, q)
    BY <1>1, <2>2, ItemFacts, NotOpen, Zenon
  <2>4. q \in 0 .. Len(buf)
    BY <1>6, <1>10, <2>1, <2>3
  <2>5. CASE ~ AtEnd(q)
    <3>1. PICK x \in Nat : x = t[q].end
      BY <2>3, Zenon
    <3>2. /\ After(e, q) <= Len(e)
          /\ x = After(e, q) + NatOf(Argument(e, q))
          /\ m = TEXT => \A k \in (After(e, q) + 1) .. x : e[k] < 128
      BY <2>2, <2>3, <3>1, MajorsDiffer, Zenon DEF Sized
    <3>3. PICK r : r = ReadStr(m, q)
      OBVIOUS
    <3>4. Ends(r, e, x)
      BY <2>2, <2>3, <2>5, <3>1, <3>2, <3>3, StrEnds, Zenon
    <3>5. r.pos <= Len(buf)
      <4>1. Reads(r, q + 1)
        BY <1>1, <2>4, <2>5, <3>3, StrReads, Zenon
      <4>2. r.pos \in (q + 1) .. Len(buf)
        BY <4>1, Zenon DEF Reads
      <4> QED BY <1>6, <2>3, <4>2
    <3>6. current(q) # BREAK
      BY <2>2, <2>3, <2>5, HeadAt, MajorsDiffer, Zenon
    <3>7. g[q] = IF r.ok THEN g[r.pos] ELSE r
      BY <1>7, <2>4, <2>5, <3>3, <3>6, Zenon DEF Chunk
    <3>8. CASE r.ok
      <4>1. r.pos = at(i + 1)
        BY <2>2, <3>1, <3>4, <3>8, Zenon DEF Ends
      <4> HIDE DEF at
      <4> QED BY <1>10, <2>1, <3>5, <3>7, <3>8, <4>1, Zenon
    <3>9. CASE ~ r.ok
      <4>1. Ends(r, e, X)
        BY <3>4, <3>9, Zenon DEF Ends
      <4> QED BY <2>1, <3>7, <3>9, <4>1, Zenon
    <3> QED BY <3>8, <3>9, Zenon
  <2> QED BY <1>8, <1>10, <2>1, <2>3, <2>5, Zenon
<1> DEFINE T == {d \in Nat : d <= n => (at((n + 1) - d) <= Len(buf) => Ends(g[at((n + 1) - d)], e, X))}
<1>11. 0 \in T
  <2>1. (n + 1) - 0 = n + 1 /\ ~ (n + 1 <= n)
    OBVIOUS
  <2>2. at((n + 1) - 0) = X - 1
    BY <2>1, Zenon
  <2> HIDE DEF at
  <2> QED BY <1>9, <2>2
<1>12. ASSUME NEW d \in Nat, d \in T PROVE d + 1 \in T
  <2> SUFFICES ASSUME d + 1 <= n, at((n + 1) - (d + 1)) <= Len(buf)
               PROVE  Ends(g[at((n + 1) - (d + 1))], e, X)
    OBVIOUS
  <2>1. PICK i \in 1 .. n : i = (n + 1) - (d + 1) /\ (n + 1) - d = i + 1 /\ i <= n /\ d <= n
    OBVIOUS
  <2>2. at(i + 1) <= Len(buf) => Ends(g[at(i + 1)], e, X)
    BY <1>12, <2>1, Zenon
  <2>3. at(i) = parts[i]
    BY <2>1, Zenon
  <2> HIDE DEF at
  <2> QED BY <1>10, <2>1, <2>2, <2>3, Zenon
<1>13. n \in T
  <2> HIDE DEF T
  <2> QED BY <1>11, <1>12, NatInd, Zenon
<1>14. (n + 1) - n = 1 /\ n <= n /\ p + 1 <= Len(buf)
  BY <1>6
<1> HIDE DEF at
<1>15. Ends(g[at(1)], e, X)
  BY <1>5, <1>13, <1>14, Zenon
<1> QED BY <1>2, <1>5, <1>7, <1>15, Zenon

-----------------------------------------------------------------------------
(* saturating_sub(1)                                                       *)
Less(n) == IF n > 0 THEN n - 1 ELSE 0

(* Where skip is at p, when a round ends and n, i and s are its lengths.   *)
Pre(e, t, n, i, s, p) ==
  IF n = 0 /\ i = 0 THEN Levels(e, t, s, p)
  ELSE s = <<>> /\ Levels(e, t, Append(Opened(i), Less(n)), p)

(* Where it is before a round: counted or on the stack, the item at p is   *)
(* the next one.                                                           *)
In(e, t, n, i, s, p) ==
  IF n > 0 \/ i > 0 THEN s = <<>> /\ Levels(e, t, Append(Opened(i), n), p)
  ELSE /\ s # <<>>
       /\ IF Last(s) = None THEN Levels(e, t, s, p)
          ELSE p \in Nat /\ p \in DOMAIN t /\ Levels(e, t, s, t[p].end)

(* A list of which nothing is left may be added.                           *)
LEMMA PutZero ==
  ASSUME NEW e, NEW t, NEW s \in Lengths, NEW p, Levels(e, t, s, p)
  PROVE  Levels(e, t, Append(s, 0), p)
<1>1. p \in Nat /\ 0 \in Nat \union {None} /\ 0 # None
  BY LevelsAt DEF None
<1>2. Rest(e, t, 0, p, p)
  BY <1>1, NoItems, Zenon DEF Rest
<1> QED BY <1>1, <1>2, Push, Zenon

(* A stack without its end, and with the next length.                      *)
LEMMA SubSeqGrows ==
  ASSUME NEW s \in Lengths, NEW k \in 1 .. Len(s)
  PROVE  /\ SubSeq(s, 1, k - 1) \in Lengths /\ Len(SubSeq(s, 1, k - 1)) = k - 1
         /\ s[k] \in Nat \union {None}
         /\ SubSeq(s, 1, k) = Append(SubSeq(s, 1, k - 1), s[k])
<1>1. Len(s) \in Nat
  BY LenProperties DEF Lengths
<1>2. \A j \in 1 .. Len(s) : s[j] \in Nat \union {None}
  BY ElementOfSeq DEF Lengths
<1>3. PICK u, v : u = SubSeq(s, 1, k - 1) /\ v = SubSeq(s, 1, k)
  OBVIOUS
<1>4. u \in Lengths /\ Len(u) = k - 1 /\ \A j \in 1 .. (k - 1) : u[j] = s[j]
  <2>1. \A j \in 1 .. (k - 1) : s[j] \in Nat \union {None}
    BY <1>1, <1>2
  <2> QED BY <1>1, <1>3, <2>1, SubSeqProperties DEF Lengths
<1>5. v \in Lengths /\ Len(v) = k /\ \A j \in 1 .. k : v[j] = s[j]
  <2>1. \A j \in 1 .. k : s[j] \in Nat \union {None}
    BY <1>1, <1>2
  <2> QED BY <1>1, <1>3, <2>1, SubSeqProperties DEF Lengths
<1>6. PICK c \in Nat \union {None} : c = s[k]
  BY <1>2
<1>7. /\ Append(u, c) \in Lengths /\ Len(Append(u, c)) = k
      /\ \A j \in 1 .. k : Append(u, c)[j] = IF j = k THEN c ELSE u[j]
  BY <1>4, AppendProperties DEF Lengths
<1>8. ASSUME NEW j \in 1 .. k PROVE v[j] = Append(u, c)[j]
  <2>1. j # k => j \in 1 .. (k - 1)
    OBVIOUS
  <2> QED BY <1>4, <1>5, <1>6, <1>7, <2>1
<1>9. v = Append(u, c)
  BY <1>5, <1>7, <1>8, SeqEqual DEF Lengths
<1> QED BY <1>3, <1>4, <1>6, <1>9

(* The last length of a stack.                                             *)
LEMMA TopChanged ==
  ASSUME NEW u \in Lengths, NEW c \in Nat \union {None}, NEW x \in Nat \union {None}
  PROVE  /\ [Append(u, c) EXCEPT ![Len(u) + 1] = x] = Append(u, x)
         /\ Last(Append(u, c)) = c /\ Front(Append(u, c)) = u /\ Append(u, c) # <<>>
         /\ Append(u, c) \in Lengths
<1>1. PICK n \in Nat : n = Len(u)
  BY LenProperties DEF Lengths
<1>2. PICK a, b : a = Append(u, c) /\ b = Append(u, x)
  OBVIOUS
<1>3. /\ a \in Lengths /\ Len(a) = n + 1 /\ \A j \in 1 .. (n + 1) : a[j] = IF j = n + 1 THEN c ELSE u[j]
      /\ b \in Lengths /\ Len(b) = n + 1 /\ \A j \in 1 .. (n + 1) : b[j] = IF j = n + 1 THEN x ELSE u[j]
  BY <1>1, <1>2, AppendProperties DEF Lengths
<1>4. n + 1 \in 1 .. (n + 1)
  OBVIOUS
<1>5. PICK d : d = [a EXCEPT ![n + 1] = x]
  OBVIOUS
<1>6. d \in Lengths /\ Len(d) = n + 1 /\ \A j \in 1 .. (n + 1) : d[j] = IF j = n + 1 THEN x ELSE a[j]
  BY <1>3, <1>4, <1>5, ExceptSeq DEF Lengths
<1>7. \A j \in 1 .. (n + 1) : d[j] = b[j]
  BY <1>3, <1>6
<1>8. d = b
  BY <1>3, <1>6, <1>7, SeqEqual DEF Lengths
<1>9. Last(a) = c
  BY <1>3, <1>4 DEF Last
<1>10. a # <<>>
  BY <1>3
<1>11. Front(a) = u
  <2>1. n + 1 \in 1 .. Len(a) /\ (n + 1) - 1 = n
    BY <1>3
  <2>2. Front(a) = SubSeq(a, 1, n)
    BY <1>3, <2>1 DEF Front
  <2>3. SubSeq(a, 1, n) \in Lengths /\ Len(SubSeq(a, 1, n)) = n
    BY <1>3, <2>1, SubSeqGrows
  <2>4. \A j \in 1 .. n : SubSeq(a, 1, n)[j] = u[j]
    BY <1>3
  <2>5. SubSeq(a, 1, n) = u
    BY <1>1, <2>3, <2>4, SeqEqual DEF Lengths
  <2> QED BY <2>2, <2>5
<1> QED BY <1>1, <1>2, <1>3, <1>5, <1>8, <1>9, <1>10, <1>11

LEMMA TopOf ==
  ASSUME NEW s \in Lengths, s # <<>>
  PROVE  \E u \in Lengths, c \in Nat \union {None} :
           s = Append(u, c) /\ Last(s) = c /\ Front(s) = u
<1>1. Len(s) \in Nat /\ Len(s) # 0
  BY EmptySeq, LenProperties DEF Lengths
<1>2. PICK k \in 1 .. Len(s) : k = Len(s)
  BY <1>1
<1>3. PICK u \in Lengths, c \in Nat \union {None} : SubSeq(s, 1, k) = Append(u, c)
  BY SubSeqGrows, Zenon
<1>4. SubSeq(s, 1, k) = s
  <2>1. \A j \in 1 .. Len(s) : s[j] \in Nat \union {None}
    BY ElementOfSeq DEF Lengths
  <2>2. SubSeq(s, 1, k) \in Lengths /\ Len(SubSeq(s, 1, k)) = k
        /\ \A j \in 1 .. k : SubSeq(s, 1, k)[j] = s[j]
    BY <1>1, <1>2, <2>1, SubSeqProperties DEF Lengths
  <2> QED BY <1>2, <2>2, SeqEqual DEF Lengths
<1>5. Last(Append(u, c)) = c /\ Front(Append(u, c)) = u
  BY TopChanged, Zenon
<1> QED BY <1>3, <1>4, <1>5, Zenon

(* The lists that are done at the end of a round.                          *)
LEMMA DropZeros ==
  ASSUME NEW e, NEW t, NEW s \in Lengths, NEW p, Levels(e, t, s, p), NEW o \in 0 .. Len(s),
         \A k \in (o + 1) .. Len(s) : s[k] = 0
  PROVE  Levels(e, t, SubSeq(s, 1, o), p)
<1>1. PICK n \in Nat : n = Len(s)
  BY LenProperties DEF Lengths
<1> DEFINE T == {d \in Nat : d <= n - o => Levels(e, t, SubSeq(s, 1, n - d), p)}
<1>2. 0 \in T
  <2>1. \A j \in 1 .. n : s[j] \in Nat \union {None}
    BY <1>1, ElementOfSeq DEF Lengths
  <2>2. SubSeq(s, 1, n) \in Lengths /\ Len(SubSeq(s, 1, n)) = n
        /\ \A j \in 1 .. n : SubSeq(s, 1, n)[j] = s[j]
    BY <1>1, <2>1, SubSeqProperties DEF Lengths
  <2>3. SubSeq(s, 1, n) = s
    BY <1>1, <2>2, SeqEqual DEF Lengths
  <2>4. n - 0 = n
    OBVIOUS
  <2> QED BY <2>3, <2>4
<1>3. ASSUME NEW d \in Nat, d \in T PROVE d + 1 \in T
  <2> SUFFICES ASSUME d + 1 <= n - o PROVE Levels(e, t, SubSeq(s, 1, n - (d + 1)), p)
    OBVIOUS
  <2>1. PICK k \in 1 .. Len(s) : k = n - d
    <3>1. o \in Nat /\ n - d \in 1 .. n
      BY <1>1
    <3> QED BY <1>1, <3>1, Zenon
  <2>2. k - 1 = n - (d + 1) /\ d <= n - o /\ k \in (o + 1) .. Len(s)
    BY <1>1, <2>1
  <2>3. Levels(e, t, SubSeq(s, 1, k), p)
    BY <1>3, <2>1, <2>2, Zenon
  <2>4. s[k] = 0
    BY <2>2
  <2>5. SubSeq(s, 1, k - 1) \in Lengths /\ SubSeq(s, 1, k) = Append(SubSeq(s, 1, k - 1), 0)
    BY <2>4, SubSeqGrows, Zenon
  <2>6. Levels(e, t, SubSeq(s, 1, k - 1), p)
    BY <2>3, <2>5, DropZero, Zenon
  <2> QED BY <2>2, <2>6, Zenon
<1>4. n - o \in Nat /\ n - o <= n - o /\ n - (n - o) = o
  BY <1>1
<1>5. n - o \in T
  <2> HIDE DEF T
  <2> QED BY <1>2, <1>3, <1>4, NatInd, Zenon
<1>6. Levels(e, t, SubSeq(s, 1, n - (n - o)), p)
  BY <1>4, <1>5, Zenon
<1> QED BY <1>4, <1>6, Zenon

(* At the end of a round skip is behind e and says so, or is where the     *)
(* next item or break starts.                                              *)
LEMMA EndRoundIn ==
  ASSUME NEW e, NEW t, NEW n, NEW i, NEW s, NEW p,
         Kept(n, i, s), Pre(e, t, n, i, s, p), EndRound(n, i, s)
  PROVE  \/ outcome' = "ok" /\ p = Len(e)
         \/ outcome' = "run" /\ In(e, t, nrounds', irounds', stack', p)
<1>1. n \in Nat /\ i \in Nat /\ s \in Lengths
  BY CapType DEF Kept
<1>2. CASE n = 0 /\ i = 0
  <2> DEFINE Left == {k \in DOMAIN s : s[k] # 0}
             open == Max({0} \union Left)
  <2>1. /\ nrounds' = 0 /\ irounds' = 0
        /\ stack' = IF open > 0 /\ s[open] # None
                       THEN [SubSeq(s, 1, open) EXCEPT ![open] = @ - 1]
                       ELSE SubSeq(s, 1, open)
        /\ outcome' = IF open = 0 THEN "ok" ELSE "run"
    BY <1>2, Zenon DEF EndRound
  <2>2. Len(s) \in Nat /\ DOMAIN s = 1 .. Len(s)
    BY <1>1, LenProperties DEF Lengths
  <2>3. {0} \union Left \subseteq 0 .. Len(s) /\ {0} \union Left # {}
    BY <2>2
  <2>4. open \in {0} \union Left /\ \A y \in {0} \union Left : y <= open
    BY <2>2, <2>3, MaxOf
  <2>5. PICK o : o = open
    OBVIOUS
  <2>6. o \in 0 .. Len(s) /\ (o = 0 \/ (o \in 1 .. Len(s) /\ s[o] # 0))
    BY <2>2, <2>4, <2>5
  <2>7. \A k \in (o + 1) .. Len(s) : s[k] = 0
    <3> SUFFICES ASSUME NEW k \in (o + 1) .. Len(s), s[k] # 0 PROVE FALSE
      OBVIOUS
    <3>1. k \in DOMAIN s /\ ~ (k <= o)
      BY <2>2, <2>6
    <3>2. k \in {0} \union Left
      BY <3>1
    <3> HIDE DEF open
    <3> QED BY <2>4, <2>5, <3>1, <3>2, Zenon
  <2> HIDE DEF open, Left
  <2>8. Levels(e, t, s, p)
    BY <1>2, Zenon DEF Pre
  <2>9. Levels(e, t, SubSeq(s, 1, o), p)
    BY <1>1, <2>6, <2>7, <2>8, DropZeros, Zenon
  <2>10. ~ (nrounds' > 0 \/ irounds' > 0)
    <3>1. ~ (0 > 0)
      OBVIOUS
    <3> QED BY <2>1, <3>1, Zenon
  <2>11. CASE o = 0
    <3>1. SubSeq(s, 1, 0) = <<>> /\ <<>> \in Lengths
      BY DEF Lengths
    <3>2. p = Len(e)
      BY <2>9, <2>11, <3>1, LevelsAt, Zenon
    <3> QED BY <2>1, <2>5, <2>11, <3>2, Zenon
  <2>12. CASE o \in 1 .. Len(s) /\ s[o] # 0
    <3>1. PICK u \in Lengths, c \in Nat \union {None} :
            /\ u = SubSeq(s, 1, o - 1) /\ Len(u) = o - 1 /\ c = s[o] /\ SubSeq(s, 1, o) = Append(u, c)
      BY <1>1, <2>12, SubSeqGrows, Zenon
    <3>2. o > 0 /\ o # 0 /\ Len(u) + 1 = o
      BY <2>12, <3>1
    <3>3. outcome' = "run"
      BY <2>1, <2>5, <3>2, Zenon
    <3>4. Levels(e, t, Append(u, c), p)
      BY <2>9, <3>1, Zenon
    <3>5. CASE c = None
      <4>1. stack' = Append(u, c)
        BY <2>1, <2>5, <3>1, <3>5, Zenon
      <4>2. Last(Append(u, c)) = c /\ Append(u, c) # <<>>
        BY TopChanged, Zenon
      <4> QED BY <2>10, <3>3, <3>4, <3>5, <4>1, <4>2, Zenon DEF In
    <3>6. CASE c # None
      <4>1. c \in Nat /\ c > 0 /\ c - 1 \in Nat
        <5>1. c \in Nat /\ c # 0
          BY <2>12, <3>1, <3>6, Zenon
        <5> QED BY <5>1
      <4>2. stack' = [Append(u, c) EXCEPT ![o] = @ - 1]
        BY <2>1, <2>5, <3>1, <3>2, <3>6, Zenon
      <4>3. Append(u, c)[o] = c
        BY <3>2, AppendProperties DEF Lengths
      <4>4. stack' = [Append(u, c) EXCEPT ![Len(u) + 1] = c - 1]
        BY <3>2, <4>2, <4>3, Zenon
      <4>5. PICK x \in Nat \union {None} : x = c - 1
        BY <4>1
      <4>6. stack' = Append(u, x)
        <5>1. [Append(u, c) EXCEPT ![Len(u) + 1] = x] = Append(u, x)
          BY TopChanged, Zenon
        <5> QED BY <4>4, <4>5, <5>1, Zenon
      <4>7. Last(Append(u, x)) = x /\ Append(u, x) # <<>>
        BY TopChanged, Zenon
      <4>8. x # None
        BY <4>1, <4>5, NatNotNone, Zenon
      <4>9. p \in Nat /\ p \in DOMAIN t /\ Levels(e, t, Append(u, c - 1), t[p].end)
        BY <3>4, <4>1, TakeOne, Zenon
      <4>10. Levels(e, t, Append(u, x), t[p].end)
        BY <4>5, <4>9, Zenon
      <4> QED BY <2>10, <3>3, <4>6, <4>7, <4>8, <4>9, <4>10, Zenon DEF In
    <3> QED BY <3>5, <3>6, Zenon
  <2> QED BY <2>6, <2>11, <2>12, Zenon
<1>3. CASE ~ (n = 0 /\ i = 0)
  <2>1. /\ nrounds' = Max({0, n - 1}) /\ irounds' = i /\ stack' = s
        /\ outcome' = IF n <= 1 /\ i = 0 /\ s = <<>> THEN "ok" ELSE "run"
    BY <1>3, Zenon DEF EndRound
  <2>2. s = <<>> /\ Levels(e, t, Append(Opened(i), Less(n)), p)
    BY <1>3, Zenon DEF Pre
  <2>3. n - 1 \in Int
    BY <1>1
  <2>4. nrounds' = IF n - 1 >= 0 THEN n - 1 ELSE 0
    BY <2>1, <2>3, MaxPair, Zenon
  <2>5. nrounds' = Less(n)
    BY <1>1, <2>4 DEF Less
  <2>6. CASE n <= 1 /\ i = 0
    <3>1. Less(n) = 0
      BY <1>1, <2>6 DEF Less
    <3>2. Opened(0) = <<>> /\ 0 \in Nat /\ <<>> \in Lengths
      BY OpenedLengths DEF Lengths
    <3>3. Levels(e, t, Append(<<>>, 0), p)
      BY <2>2, <2>6, <3>1, <3>2, Zenon
    <3>4. Levels(e, t, <<>>, p)
      BY <3>2, <3>3, DropZero, Zenon
    <3>5. p = Len(e)
      BY <3>2, <3>4, LevelsAt, Zenon
    <3> QED BY <2>1, <2>2, <2>6, <3>5, Zenon
  <2>7. CASE ~ (n <= 1 /\ i = 0)
    <3>1. Less(n) > 0 \/ i > 0
      BY <1>1, <2>7 DEF Less
    <3>2. In(e, t, nrounds', irounds', stack', p)
      BY <2>1, <2>2, <2>5, <3>1, Zenon DEF In
    <3> QED BY <2>1, <2>7, <3>2, Zenon
  <2> QED BY <2>6, <2>7, Zenon
<1> QED BY <1>2, <1>3, Zenon

(* At p is the break of the innermost list.                                *)
Break(e, t, n, i, s, p) ==
  /\ p < Len(e) /\ e[p + 1] = BREAK
  /\ IF n > 0 \/ i > 0
     THEN n = 0 /\ i > 0 /\ s = <<>> /\ Levels(e, t, Opened(i - 1), p + 1)
     ELSE s # <<>> /\ Last(s) = None /\ Levels(e, t, Front(s), p + 1)

(* At p is an item, behind which the round may end, or a break.            *)
LEMMA Here ==
  ASSUME NEW e, NEW t, NEW n, NEW i, NEW s, NEW p, Kept(n, i, s), In(e, t, n, i, s, p)
  PROVE  /\ p \in Nat
         /\ (p \in DOMAIN t /\ Pre(e, t, n, i, s, t[p].end)) \/ Break(e, t, n, i, s, p)
<1>1. n \in Nat /\ i \in Nat /\ s \in Lengths
  BY CapType DEF Kept
<1>2. Opened(i) \in Lengths
  BY <1>1, OpenedLengths, Zenon
<1>3. CASE n > 0
  <2>1. s = <<>> /\ Levels(e, t, Append(Opened(i), n), p)
    BY <1>3, Zenon DEF In
  <2>2. p \in Nat /\ p \in DOMAIN t /\ Levels(e, t, Append(Opened(i), n - 1), t[p].end)
    BY <1>1, <1>2, <1>3, <2>1, TakeOne, Zenon
  <2>3. Less(n) = n - 1 /\ n # 0
    BY <1>3 DEF Less
  <2>4. Pre(e, t, n, i, s, t[p].end)
    BY <2>1, <2>2, <2>3, Zenon DEF Pre
  <2> QED BY <2>2, <2>4, Zenon
<1>4. CASE n = 0 /\ i > 0
  <2>1. s = <<>> /\ Levels(e, t, Append(Opened(i), n), p)
    BY <1>4, Zenon DEF In
  <2>2. Levels(e, t, Opened(i), p)
    BY <1>2, <1>4, <2>1, DropZero, Zenon
  <2>3. PICK j \in Nat : j = i - 1 /\ j + 1 = i
    BY <1>1, <1>4
  <2>4. Opened(j + 1) = Append(Opened(j), None) /\ Opened(j) \in Lengths
    BY OpenedLengths, Zenon
  <2>5. Opened(i) = Append(Opened(j), None)
    BY <2>3, <2>4, Zenon
  <2>6. /\ p \in Nat
        /\ \/ p \in DOMAIN t /\ Levels(e, t, Append(Opened(j), None), t[p].end)
           \/ p < Len(e) /\ e[p + 1] = BREAK /\ Levels(e, t, Opened(j), p + 1)
    BY <2>2, <2>4, <2>5, TakeOpen, Zenon
  <2>7. CASE p \in DOMAIN t /\ Levels(e, t, Append(Opened(j), None), t[p].end)
    <3>1. Levels(e, t, Append(Opened(i), 0), t[p].end)
      BY <1>2, <2>5, <2>7, PutZero, Zenon
    <3>2. Less(n) = 0 /\ ~ (i = 0)
      BY <1>4 DEF Less
    <3>3. Pre(e, t, n, i, s, t[p].end)
      BY <2>1, <3>1, <3>2, Zenon DEF Pre
    <3> QED BY <2>6, <2>7, <3>3, Zenon
  <2>8. CASE p < Len(e) /\ e[p + 1] = BREAK /\ Levels(e, t, Opened(j), p + 1)
    BY <1>4, <2>1, <2>3, <2>6, <2>8, Zenon DEF Break
  <2> QED BY <2>6, <2>7, <2>8, Zenon
<1>5. CASE ~ (n > 0) /\ ~ (i > 0)
  <2>1. n = 0 /\ i = 0
    BY <1>1, <1>5
  <2>2. /\ s # <<>>
        /\ IF Last(s) = None THEN Levels(e, t, s, p)
           ELSE p \in Nat /\ p \in DOMAIN t /\ Levels(e, t, s, t[p].end)
    BY <1>5, Zenon DEF In
  <2>3. CASE Last(s) = None
    <3>1. PICK u \in Lengths : s = Append(u, None) /\ Front(s) = u
      BY <1>1, <2>2, <2>3, TopOf, Zenon
    <3>2. /\ p \in Nat
          /\ \/ p \in DOMAIN t /\ Levels(e, t, s, t[p].end)
             \/ p < Len(e) /\ e[p + 1] = BREAK /\ Levels(e, t, u, p + 1)
      BY <2>2, <2>3, <3>1, TakeOpen, Zenon
    <3>3. p \in DOMAIN t /\ Levels(e, t, s, t[p].end) => Pre(e, t, n, i, s, t[p].end)
      BY <2>1, Zenon DEF Pre
    <3> QED BY <1>5, <2>2, <2>3, <3>1, <3>2, <3>3, Zenon DEF Break
  <2>4. CASE Last(s) # None
    BY <2>1, <2>2, <2>4, Zenon DEF Pre
  <2> QED BY <2>3, <2>4, Zenon
<1>6. n > 0 \/ (n = 0 /\ i > 0) \/ (~ (n > 0) /\ ~ (i > 0))
  BY <1>1
<1> QED BY <1>3, <1>4, <1>5, <1>6, Zenon

(* What skip has found so far.                                             *)
Exact(e, t) ==
  /\ outcome = "run" => In(e, t, nrounds, irounds, stack, pos)
  /\ outcome = "ok" => pos = Len(e)
  /\ outcome = "EndOfInput" => Len(buf) < Len(e)
  /\ outcome = "Message" => ~ alloc
  /\ outcome \notin {"TypeMismatch", "Utf8"}

(* A round that got to the end of the item, or to that of the buffer.      *)
LEMMA RoundExact ==
  ASSUME NEW e, NEW t, NEW r, NEW n, NEW i, NEW s, NEW x, Ends(r, e, x),
         r.ok => Kept(n, i, s) /\ Pre(e, t, n, i, s, x), Round(r, n, i, s)
  PROVE  Exact(e, t)'
<1>1. /\ pos' = r.pos /\ buf' = buf
      /\ IF r.ok THEN EndRound(n, i, s) ELSE outcome' = r.val
  BY Zenon DEF Round
<1>2. /\ "ok" # "run" /\ "ok" # "EndOfInput" /\ "ok" # "Message" /\ "ok" \notin {"TypeMismatch", "Utf8"}
      /\ "run" # "EndOfInput" /\ "run" # "Message" /\ "run" \notin {"TypeMismatch", "Utf8"}
      /\ "EndOfInput" # "Message" /\ "EndOfInput" \notin {"TypeMismatch", "Utf8"}
  OBVIOUS
<1>3. CASE r.ok
  <2>1. r.pos = x
    BY <1>3, Zenon DEF Ends
  <2>2. \/ outcome' = "ok" /\ x = Len(e)
        \/ outcome' = "run" /\ In(e, t, nrounds', irounds', stack', x)
    BY <1>1, <1>3, EndRoundIn, Zenon
  <2> QED BY <1>1, <1>2, <2>1, <2>2, Zenon DEF Exact
<1>4. CASE ~ r.ok
  <2>1. outcome' = "EndOfInput" /\ Len(buf') < Len(e)
    BY <1>1, <1>4, Zenon DEF Ends
  <2> QED BY <1>2, <2>1, Zenon DEF Exact
<1> QED BY <1>3, <1>4, Zenon

(* The buffer holds e or a part of it, and e is an item with the tree t.   *)
Skips(e, t) ==
  /\ SkipInv /\ Matches(e) /\ Wellformed(e, t) /\ Len(e) < Cap /\ Exact(e, t)

(* The item or the break at p, when skip is there.                         *)
Part(e, t, p, m) ==
  /\ p \in DOMAIN t /\ Pre(e, t, nrounds, irounds, stack, t[p].end)
  /\ info_of(e[p + 1]) <= 27 => Sized(e, t, p)
  /\ info_of(e[p + 1]) = Indefinite => Open(e, t, p) /\ m \in {BYTES, TEXT, ARRAY, MAP}
  /\ info_of(e[p + 1]) <= 27 \/ info_of(e[p + 1]) = Indefinite

(* What an action may use.                                                 *)
LEMMA Facts ==
  ASSUME NEW e, NEW t, Skips(e, t)
  PROVE  /\ SkipInv /\ Matches(e) /\ Wellformed(e, t) /\ Len(e) < Cap /\ Exact(e, t)
         /\ e \in Seq(Byte) /\ buf \in Seq(Byte) /\ Len(e) \in Nat /\ Len(buf) \in Nat
         /\ Kept(nrounds, irounds, stack) /\ Cap \in Nat
<1>1. e \in Seq(Byte) /\ buf \in Seq(Byte)
  BY Zenon DEF Skips, Matches
<1>2. Len(e) \in Nat /\ Len(buf) \in Nat
  BY <1>1, LenProperties
<1> QED BY <1>1, <1>2, Before, CapType, Zenon DEF Skips

(* Skip is at the start of a part of e or at a break.                      *)
LEMMA AtItem ==
  ASSUME NEW e, NEW t, Skips(e, t), NEW m, At(m)
  PROVE  \E p \in Nat :
           /\ p = pos /\ p < Len(e) /\ ~ AtEnd(p) /\ current(p) = e[p + 1]
           /\ type_of(e[p + 1]) = m /\ Info = info_of(e[p + 1])
           /\ \/ Part(e, t, p, m)
              \/ Break(e, t, nrounds, irounds, stack, p) /\ m = SIMPLE /\ Info = Indefinite
<1>1. outcome = "run" /\ ~ AtEnd(pos) /\ type_of(current(pos)) = m /\ Info = info_of(current(pos))
  BY Zenon DEF At, Info
<1>2. PICK n, i, s, p : n = nrounds /\ i = irounds /\ s = stack /\ p = pos
  OBVIOUS
<1>3. Kept(n, i, s) /\ In(e, t, n, i, s, p)
  BY <1>1, <1>2, Facts, Zenon DEF Exact
<1>4. /\ p \in Nat
      /\ (p \in DOMAIN t /\ Pre(e, t, n, i, s, t[p].end)) \/ Break(e, t, n, i, s, p)
  BY <1>3, Here, Zenon
<1>5. CASE p \in DOMAIN t /\ Pre(e, t, n, i, s, t[p].end)
  <2>1. p < Len(e) /\ (Sized(e, t, p) \/ Open(e, t, p))
    BY <1>5, Facts, ItemFacts, Zenon
  <2>2. current(p) = e[p + 1]
    BY <1>1, <1>2, <1>4, <2>1, Facts, HeadAt, Zenon
  <2>3. Open(e, t, p) => m \in {BYTES, TEXT, ARRAY, MAP}
    BY <1>1, <1>2, <2>2, Zenon DEF Open
  <2>4. Part(e, t, p, m)
    BY <1>2, <1>5, <2>1, <2>3, NotOpen, Zenon DEF Part
  <2> QED BY <1>1, <1>2, <1>4, <2>1, <2>2, <2>4, Zenon
<1>6. CASE Break(e, t, n, i, s, p)
  <2>1. p < Len(e) /\ e[p + 1] = BREAK
    BY <1>6, Zenon DEF Break
  <2>2. current(p) = e[p + 1]
    BY <1>1, <1>2, <1>4, <2>1, Facts, HeadAt, Zenon
  <2> QED BY <1>1, <1>2, <1>4, <1>6, <2>1, <2>2, MajorsDiffer, Zenon
<1> QED BY <1>4, <1>5, <1>6, Zenon

(* One lemma for each action.                                              *)
LEMMA EndExact ==
  ASSUME NEW e, NEW t, Skips(e, t), SkipEndOfInput
  PROVE  Exact(e, t)'
<1>1. outcome = "run" /\ AtEnd(pos) /\ outcome' = "EndOfInput" /\ buf' = buf
  BY Zenon DEF SkipEndOfInput
<1>2. PICK n, i, s, p : n = nrounds /\ i = irounds /\ s = stack /\ p = pos
  OBVIOUS
<1>3. Kept(n, i, s) /\ In(e, t, n, i, s, p)
  BY <1>1, <1>2, Facts, Zenon DEF Exact
<1>4. p \in Nat /\ (p \in DOMAIN t \/ p < Len(e))
  BY <1>3, Here, Zenon DEF Break
<1>5. p < Len(e)
  BY <1>4, Facts, ItemFacts, Zenon
<1>6. p >= Len(buf)
  BY <1>1, <1>2, Zenon DEF AtEnd
<1>7. Len(buf) < Len(e)
  BY <1>4, <1>5, <1>6, Facts
<1>8. /\ "EndOfInput" # "run" /\ "EndOfInput" # "ok" /\ "EndOfInput" # "Message"
      /\ "EndOfInput" \notin {"TypeMismatch", "Utf8"}
  OBVIOUS
<1> QED BY <1>1, <1>7, <1>8, Zenon DEF Exact

(* The mark of unknown length is not one of a width.                       *)
LEMMA NotIndefinite == ~ (Indefinite <= 27) /\ Indefinite > 27 /\ Indefinite \notin 28 .. 30
BY DEF Indefinite

LEMMA ScalarExact ==
  ASSUME NEW e, NEW t, Skips(e, t), SkipScalar
  PROVE  Exact(e, t)'
<1>1. PICK m \in {UNSIGNED, SIGNED, SIMPLE} : At(m)
  BY Zenon DEF SkipScalar
<1>2. PICK p \in Nat :
        /\ p = pos /\ p < Len(e) /\ ~ AtEnd(p) /\ current(p) = e[p + 1]
        /\ type_of(e[p + 1]) = m /\ Info = info_of(e[p + 1])
        /\ \/ Part(e, t, p, m)
           \/ Break(e, t, nrounds, irounds, stack, p) /\ m = SIMPLE /\ Info = Indefinite
  BY <1>1, AtItem, Zenon
<1>3. Info <= 27 /\ Part(e, t, p, m)
  BY <1>2, NotIndefinite, Zenon DEF SkipScalar
<1>4. Sized(e, t, p) /\ Pre(e, t, nrounds, irounds, stack, t[p].end)
  BY <1>2, <1>3, Zenon DEF Part
<1>5. After(e, p) <= Len(e) /\ t[p].end = After(e, p)
  BY <1>1, <1>2, <1>4, MajorsDiffer, Zenon DEF Sized
<1>6. PICK r : r = unsigned(info_of(current(p)), p + 1) /\ Ends(r, e, After(e, p))
  BY <1>2, <1>3, <1>5, Facts, HeadEnds, Zenon
<1>7. PICK n, i, s, x : n = nrounds /\ i = irounds /\ s = stack /\ x = t[p].end
  OBVIOUS
<1>8. Round(r, n, i, s) /\ Kept(n, i, s) /\ Ends(r, e, x) /\ Pre(e, t, n, i, s, x)
  BY <1>2, <1>4, <1>5, <1>6, <1>7, Facts, Zenon DEF SkipScalar
<1> QED BY <1>8, RoundExact, Zenon

LEMMA StringExact ==
  ASSUME NEW e, NEW t, Skips(e, t), NEW m \in {BYTES, TEXT}, SkipString(m)
  PROVE  Exact(e, t)'
<1>1. At(m)
  BY Zenon DEF SkipString
<1>2. PICK p \in Nat :
        /\ p = pos /\ p < Len(e) /\ ~ AtEnd(p) /\ current(p) = e[p + 1]
        /\ type_of(e[p + 1]) = m /\ Info = info_of(e[p + 1])
        /\ \/ Part(e, t, p, m)
           \/ Break(e, t, nrounds, irounds, stack, p) /\ m = SIMPLE /\ Info = Indefinite
  BY <1>1, AtItem, Zenon
<1>3. Part(e, t, p, m)
  BY <1>2, MajorsDiffer, Zenon
<1>4. p \in DOMAIN t /\ Pre(e, t, nrounds, irounds, stack, t[p].end)
  BY <1>3, Zenon DEF Part
<1>5. PICK r : r = IF Info = Indefinite THEN ReadChunks(m, p + 1) ELSE ReadStr(m, p)
  OBVIOUS
<1>6. PICK n, i, s, x : n = nrounds /\ i = irounds /\ s = stack /\ x = t[p].end
  OBVIOUS
<1>7. Ends(r, e, x)
  <2>1. CASE Info = Indefinite
    <3>1. Open(e, t, p)
      BY <1>2, <1>3, <2>1, Zenon DEF Part
    <3>2. Ends(ReadChunks(m, p + 1), e, t[p].end)
      BY <1>2, <1>4, <3>1, Facts, ChunksEnd, Zenon
    <3> QED BY <1>5, <1>6, <2>1, <3>2, Zenon
  <2>2. CASE Info # Indefinite
    <3>1. info_of(e[p + 1]) <= 27 /\ Sized(e, t, p)
      BY <1>2, <1>3, <2>2, Zenon DEF Part
    <3>2. x \in Nat /\ x <= Len(e)
      BY <1>4, <1>6, Facts, ItemFacts, Zenon
    <3>3. /\ After(e, p) <= Len(e)
          /\ x = After(e, p) + NatOf(Argument(e, p))
          /\ m = TEXT => \A k \in (After(e, p) + 1) .. x : e[k] < 128
      BY <1>2, <1>6, <3>1, MajorsDiffer, Zenon DEF Sized
    <3>4. Ends(ReadStr(m, p), e, x)
      BY <1>2, <3>1, <3>2, <3>3, Facts, StrEnds, Zenon
    <3> QED BY <1>5, <2>2, <3>4, Zenon
  <2> QED BY <2>1, <2>2, Zenon
<1>8. Round(r, n, i, s) /\ Kept(n, i, s) /\ Pre(e, t, n, i, s, x)
  BY <1>2, <1>4, <1>5, <1>6, Facts, Zenon DEF SkipString
<1> QED BY <1>7, <1>8, RoundExact, Zenon

(* k more items are counted.                                               *)
LEMMA CountMore ==
  ASSUME NEW e, NEW t, Len(e) \in Nat,
         \A y \in DOMAIN t : y \in Nat /\ t[y].end \in Nat /\ t[y].end > y,
         NEW n \in Nat, NEW i \in Nat, n > 0 \/ i > 0, NEW k \in Nat, k > 0, NEW a, NEW x,
         Levels(e, t, Append(Opened(i), Less(n)), x), Items(t, a, x, k)
  PROVE  Levels(e, t, Append(Opened(i), (n + k) - 1), a) /\ (n + k) - 1 <= Len(e)
<1>1. Less(n) \in Nat /\ Opened(i) \in Lengths
  <2>1. Less(n) \in Nat
    BY DEF Less
  <2> QED BY <2>1, OpenedLengths, Zenon
<1>2. PICK c \in Nat : c = k + Less(n)
  BY <1>1
<1>3. Levels(e, t, Append(Opened(i), c), a)
  BY <1>1, <1>2, PutMore, Zenon
<1>4. c <= Len(e)
  <2>1. c \in Nat \union {None}
    OBVIOUS
  <2>2. PICK y \in Nat : Levels(e, t, Opened(i), y) /\ Rest(e, t, c, a, y)
    BY <1>1, <1>3, <2>1, Pop, Zenon
  <2>3. Items(t, a, y, c)
    BY <2>2, NatNotNone, Zenon DEF Rest
  <2>4. a + c <= y /\ a \in Nat
    BY <2>3, ItemsSize, Zenon
  <2>5. y + i <= Len(e)
    BY <2>2, Depth, Zenon
  <2> QED BY <2>4, <2>5
<1>5. CASE n > 0
  <2>1. c = (n + k) - 1
    BY <1>2, <1>5 DEF Less
  <2> QED BY <1>3, <1>4, <2>1, Zenon
<1>6. CASE n = 0 /\ i > 0
  <2>1. c = k /\ (n + k) - 1 = k - 1 /\ k - 1 <= c
    BY <1>2, <1>6 DEF Less
  <2>2. PICK j \in Nat : j + 1 = i
    BY <1>6
  <2>3. Opened(i) = Append(Opened(j), None) /\ Opened(j) \in Lengths
    BY <2>2, OpenedLengths, Zenon
  <2>4. Levels(e, t, Append(Append(Opened(j), None), k - 1), a)
    BY <1>3, <2>1, <2>3, CountLess, Zenon
  <2>5. k - 1 <= Len(e)
    BY <1>4, <2>1
  <2> QED BY <2>1, <2>3, <2>4, <2>5, Zenon
<1> QED BY <1>5, <1>6

(* The lengths of a stack, or the counters: one of both.                   *)
LEMMA Counted ==
  ASSUME NEW e, NEW t, Skips(e, t), NEW x, Pre(e, t, nrounds, irounds, stack, x),
         outcome = "run"
  PROVE  /\ nrounds \in Nat /\ irounds \in Nat /\ stack \in Lengths
         /\ nrounds <= Cap /\ irounds <= Cap
         /\ Counting => /\ stack = <<>> /\ (nrounds > 0 \/ irounds > 0)
                        /\ Levels(e, t, Append(Opened(irounds), Less(nrounds)), x)
         /\ ~ Counting => /\ nrounds = 0 /\ irounds = 0 /\ stack # <<>> /\ alloc
                          /\ Levels(e, t, stack, x)
<1>1. Kept(nrounds, irounds, stack) /\ SkipInv
  BY Facts, Zenon
<1>2. nrounds \in Nat /\ irounds \in Nat /\ stack \in Lengths /\ nrounds <= Cap /\ irounds <= Cap
  BY <1>1, CapType DEF Kept
<1>3. Counting => (nrounds > 0 \/ irounds > 0) /\ ~ (nrounds = 0 /\ irounds = 0)
  BY <1>2 DEF Counting
<1>4. ~ Counting => nrounds = 0 /\ irounds = 0
  BY <1>2 DEF Counting
<1>5. ~ Counting => stack # <<>> /\ alloc
  BY <1>1, Before, Zenon
<1> QED BY <1>2, <1>3, <1>4, <1>5, Zenon DEF Pre

(* The lengths of e are below the cap, so nothing saturates.               *)
LEMMA Doubled ==
  ASSUME NEW n \in Nat, 2 * n <= Cap
  PROVE  saturating_mul(n, 2) = 2 * n
<1>1. n * 2 = 2 * n /\ n * 2 \in Int
  OBVIOUS
<1> QED BY <1>1, CapType, MinPair DEF saturating_mul

LEMMA Added ==
  ASSUME NEW n \in Nat, NEW k \in Nat, n + k <= Cap
  PROVE  saturating_add(n, k) = n + k
<1>1. n + k \in Int
  OBVIOUS
<1> QED BY <1>1, CapType, MinPair DEF saturating_add

(* What the number of an array or map stands for.                          *)
LEMMA ListItems ==
  ASSUME NEW e \in Seq(Byte), NEW t, Wellformed(e, t), Len(e) < Cap, NEW p \in DOMAIN t,
         Sized(e, t, p), NEW m \in {ARRAY, MAP}, type_of(e[p + 1]) = m
  PROVE  \E k \in Nat :
           /\ k = IF m = MAP THEN saturating_mul(NatOf(Argument(e, p)), 2) ELSE NatOf(Argument(e, p))
           /\ Items(t, After(e, p), t[p].end, k) /\ k <= Len(e)
<1>1. /\ p \in Nat /\ p < Len(e) /\ Len(e) \in Nat
      /\ t[p].end \in Nat /\ t[p].end <= Len(e) /\ t[p].parts \in Seq(Nat)
  BY ItemFacts, Zenon
<1>2. /\ info_of(e[p + 1]) <= 27 /\ After(e, p) <= Len(e)
      /\ InRow(t, t[p].parts, After(e, p), t[p].end)
      /\ Len(t[p].parts) = IF m = MAP THEN 2 * NatOf(Argument(e, p)) ELSE NatOf(Argument(e, p))
  BY MajorsDiffer, Zenon DEF Sized
<1>3. PICK n \in Nat, a \in Nat : n = NatOf(Argument(e, p)) /\ a = After(e, p)
  BY <1>1, <1>2, HeadType, Zenon
<1>4. PICK k \in Nat : k = Len(t[p].parts)
  BY <1>1, LenProperties, Zenon
<1>5. Items(t, a, t[p].end, k)
  BY <1>1, <1>2, <1>3, <1>4, RowItems, Zenon
<1>6. a + k <= t[p].end
  BY <1>5, TreeGrows, ItemsSize, Zenon
<1>7. k <= Len(e) /\ k <= Cap
  BY <1>1, <1>6, CapType
<1>8. k = IF m = MAP THEN saturating_mul(n, 2) ELSE n
  BY <1>2, <1>3, <1>4, <1>7, Doubled, Zenon
<1> QED BY <1>3, <1>5, <1>7, <1>8, Zenon

LEMMA SizedExact ==
  ASSUME NEW e, NEW t, Skips(e, t), NEW m \in {ARRAY, MAP}, SkipSized(m)
  PROVE  Exact(e, t)'
<1>1. At(m) /\ Info # Indefinite
  BY Zenon DEF SkipSized
<1>2. PICK p \in Nat :
        /\ p = pos /\ p < Len(e) /\ ~ AtEnd(p) /\ current(p) = e[p + 1]
        /\ type_of(e[p + 1]) = m /\ Info = info_of(e[p + 1])
        /\ \/ Part(e, t, p, m)
           \/ Break(e, t, nrounds, irounds, stack, p) /\ m = SIMPLE /\ Info = Indefinite
  BY <1>1, AtItem, Zenon
<1>3. Part(e, t, p, m) /\ outcome = "run"
  BY <1>1, <1>2, Zenon DEF At
<1>4. /\ p \in DOMAIN t /\ Pre(e, t, nrounds, irounds, stack, t[p].end)
      /\ info_of(e[p + 1]) <= 27 /\ Sized(e, t, p)
  BY <1>1, <1>2, <1>3, Zenon DEF Part
<1>5. After(e, p) <= Len(e)
  BY <1>4, Zenon DEF Sized
<1>6. PICK r : /\ r = unsigned(info_of(current(p)), p + 1) /\ Ends(r, e, After(e, p))
               /\ r.ok => r.val = Argument(e, p)
  BY <1>2, <1>4, <1>5, Facts, HeadEnds, Zenon
<1>7. PICK h : h = IF m = MAP THEN saturating_mul(NatOf(r.val), 2) ELSE NatOf(r.val)
  OBVIOUS
<1>8. IF ~ r.ok \/ h = 0 THEN Round(r, nrounds, irounds, stack)
      ELSE IF Counting THEN Round(r, saturating_add(nrounds, h), irounds, stack)
      ELSE Round(r, 0, 0, Append(stack, h))
  BY <1>2, <1>6, <1>7, Zenon DEF SkipSized
<1>9. PICK k \in Nat :
        /\ k = IF m = MAP THEN saturating_mul(NatOf(Argument(e, p)), 2) ELSE NatOf(Argument(e, p))
        /\ Items(t, After(e, p), t[p].end, k) /\ k <= Len(e)
  BY <1>2, <1>4, Facts, ListItems, Zenon
<1>10. r.ok => h = k
  BY <1>6, <1>7, <1>9, Zenon
<1>11. PICK n, i, s : n = nrounds /\ i = irounds /\ s = stack
  OBVIOUS
<1>12. PICK a \in Nat, x \in Nat : a = After(e, p) /\ x = t[p].end
  BY <1>2, <1>4, <1>5, Facts, HeadType, ItemFacts, Zenon
<1>13. Ends(r, e, a) /\ Items(t, a, x, k) /\ Pre(e, t, n, i, s, x) /\ Kept(n, i, s)
  BY <1>4, <1>6, <1>9, <1>11, <1>12, Facts, Zenon
<1>14. CASE ~ r.ok \/ h = 0
  <2>1. Round(r, n, i, s)
    BY <1>8, <1>11, <1>14, Zenon
  <2>2. r.ok => Pre(e, t, n, i, s, a)
    <3> SUFFICES ASSUME r.ok PROVE Pre(e, t, n, i, s, a)
      OBVIOUS
    <3>1. k = 0
      BY <1>10, <1>14, Zenon
    <3>2. a = x
      BY <1>13, <3>1, ItemEnds, Zenon
    <3> QED BY <1>13, <3>2, Zenon
  <2> QED BY <1>13, <2>1, <2>2, RoundExact, Zenon
<1>15. /\ n \in Nat /\ i \in Nat /\ s \in Lengths /\ n <= Cap /\ i <= Cap
       /\ Counting => /\ s = <<>> /\ (n > 0 \/ i > 0)
                      /\ Levels(e, t, Append(Opened(i), Less(n)), x)
       /\ ~ Counting => n = 0 /\ i = 0 /\ s # <<>> /\ alloc /\ Levels(e, t, s, x)
  BY <1>3, <1>4, <1>11, <1>12, Counted, Zenon
<1>16. CASE r.ok /\ h # 0 /\ Counting
  <2>1. k > 0
    BY <1>10, <1>16
  <2>2. Levels(e, t, Append(Opened(i), (n + k) - 1), a) /\ (n + k) - 1 <= Len(e)
    BY <1>13, <1>15, <1>16, <2>1, Facts, TreeGrows, CountMore, Zenon
  <2>3. n + k <= Cap /\ n + k \in Nat /\ n + k # 0 /\ n + k \in 0 .. Cap /\ Less(n + k) = (n + k) - 1
    BY <1>15, <2>1, <2>2, Facts DEF Less
  <2>4. saturating_add(n, k) = n + k
    BY <1>15, <2>3, Added, Zenon
  <2>5. Round(r, n + k, i, s)
    BY <1>8, <1>10, <1>11, <1>16, <2>4, Zenon
  <2>6. Kept(n + k, i, s)
    BY <1>13, <1>15, <1>16, <2>3, Zenon DEF Kept
  <2>7. Pre(e, t, n + k, i, s, a)
    BY <1>15, <1>16, <2>2, <2>3, Zenon DEF Pre
  <2> QED BY <1>13, <2>5, <2>6, <2>7, RoundExact, Zenon
<1>17. CASE r.ok /\ h # 0 /\ ~ Counting
  <2>1. PICK u : u = Append(s, k)
    OBVIOUS
  <2>2. Round(r, 0, 0, u)
    BY <1>8, <1>10, <1>11, <1>17, <2>1, Zenon
  <2>3. k \in Nat \union {None} /\ 0 \in 0 .. Cap
    BY Facts
  <2>4. Rest(e, t, k, a, x)
    BY <1>13, NatNotNone, Zenon DEF Rest
  <2>5. Levels(e, t, u, a)
    BY <1>15, <1>17, <2>1, <2>3, <2>4, Push, Zenon
  <2>6. u \in Lengths
    BY <1>15, <2>1, <2>3 DEF Lengths
  <2>7. Kept(0, 0, u)
    BY <1>15, <1>17, <2>3, <2>6, Zenon DEF Kept
  <2>8. Pre(e, t, 0, 0, u, a)
    BY <2>5, Zenon DEF Pre
  <2> QED BY <1>13, <2>2, <2>7, <2>8, RoundExact, Zenon
<1> QED BY <1>14, <1>16, <1>17, Zenon

(* The parts of a list of unknown length and its break.                    *)
LEMMA OpenRest ==
  ASSUME NEW e \in Seq(Byte), NEW t, Wellformed(e, t), NEW p \in DOMAIN t, Open(e, t, p)
  PROVE  Rest(e, t, None, p + 1, t[p].end)
<1>1. /\ p \in Nat /\ Len(e) \in Nat /\ t[p].end \in Nat /\ t[p].end <= Len(e) /\ t[p].end > p
      /\ t[p].parts \in Seq(Nat)
  BY ItemFacts, Zenon
<1>2. InRow(t, t[p].parts, p + 1, t[p].end - 1) /\ e[t[p].end] = BREAK
  BY Zenon DEF Open
<1>3. PICK b \in Nat : b = t[p].end - 1 /\ b < Len(e) /\ b + 1 = t[p].end
  BY <1>1
<1>4. PICK k \in Nat : k = Len(t[p].parts)
  BY <1>1, LenProperties, Zenon
<1>5. Items(t, p + 1, b, k)
  BY <1>1, <1>2, <1>3, <1>4, RowItems, Zenon
<1> QED BY <1>2, <1>3, <1>5, Zenon DEF Rest

LEMMA OpenExact ==
  ASSUME NEW e, NEW t, Skips(e, t), NEW m \in {ARRAY, MAP}, SkipOpen(m)
  PROVE  Exact(e, t)'
<1>1. At(m) /\ Info = Indefinite
  BY Zenon DEF SkipOpen
<1>2. PICK p \in Nat :
        /\ p = pos /\ p < Len(e) /\ ~ AtEnd(p) /\ current(p) = e[p + 1]
        /\ type_of(e[p + 1]) = m /\ Info = info_of(e[p + 1])
        /\ \/ Part(e, t, p, m)
           \/ Break(e, t, nrounds, irounds, stack, p) /\ m = SIMPLE /\ Info = Indefinite
  BY <1>1, AtItem, Zenon
<1>3. Part(e, t, p, m) /\ outcome = "run"
  BY <1>1, <1>2, MajorsDiffer, Zenon DEF At
<1>4. p \in DOMAIN t /\ Pre(e, t, nrounds, irounds, stack, t[p].end) /\ Open(e, t, p)
  BY <1>1, <1>2, <1>3, Zenon DEF Part
<1>5. PICK n, i, s : n = nrounds /\ i = irounds /\ s = stack
  OBVIOUS
<1>6. PICK a \in Nat, x \in Nat : a = p + 1 /\ x = t[p].end
  <2>1. p + 1 \in Nat
    OBVIOUS
  <2> QED BY <1>4, <2>1, Facts, ItemFacts, Zenon
<1>7. Rest(e, t, None, a, x)
  BY <1>4, <1>6, Facts, OpenRest, Zenon
<1>8. /\ n \in Nat /\ i \in Nat /\ s \in Lengths /\ n <= Cap /\ i <= Cap
      /\ Counting => /\ s = <<>> /\ (n > 0 \/ i > 0)
                     /\ Levels(e, t, Append(Opened(i), Less(n)), x)
      /\ ~ Counting => n = 0 /\ i = 0 /\ s # <<>> /\ alloc /\ Levels(e, t, s, x)
  BY <1>3, <1>4, <1>5, <1>6, Counted, Zenon
<1>9. PICK r : r = Ok(<<>>, a)
  OBVIOUS
<1>10. Ends(r, e, a) /\ r.ok
  BY <1>9, OkEnds, Zenon
<1>11. IF ~ Counting THEN Round(r, 0, 0, Append(s, None))
       ELSE IF n < 2
       THEN Round(r, n, saturating_add(i, 1), s)
       ELSE IF alloc
       THEN Round(r, 0, 0, s \o [j \in 1 .. i |-> None] \o <<n - 1, None>>)
       ELSE Round(Err("Message", a), 0, 0, s)
  BY <1>2, <1>5, <1>6, <1>9, Zenon DEF SkipOpen
<1>12. None \in Nat \union {None} /\ 0 \in 0 .. Cap
  BY Facts
<1>13. Opened(i) \in Lengths /\ Opened(i + 1) = Append(Opened(i), None) /\ Opened(i + 1) \in Lengths
  <2>1. i + 1 \in Nat
    BY <1>8
  <2> QED BY <1>8, <2>1, OpenedLengths, Zenon
<1>14. CASE ~ Counting
  <2>1. PICK u : u = Append(s, None)
    OBVIOUS
  <2>2. Round(r, 0, 0, u)
    BY <1>11, <1>14, <2>1, Zenon
  <2>3. Levels(e, t, u, a)
    BY <1>7, <1>8, <1>12, <1>14, <2>1, Push, Zenon
  <2>4. u \in Lengths
    BY <1>8, <2>1 DEF Lengths
  <2>5. Kept(0, 0, u)
    BY <1>8, <1>12, <1>14, <2>4, Zenon DEF Kept
  <2>6. Pre(e, t, 0, 0, u, a)
    BY <2>3, Zenon DEF Pre
  <2> QED BY <1>10, <2>2, <2>5, <2>6, RoundExact, Zenon
<1>15. CASE Counting /\ n < 2
  <2>1. Less(n) = 0
    BY <1>8, <1>15 DEF Less
  <2>2. Levels(e, t, Opened(i), x)
    BY <1>8, <1>13, <1>15, <2>1, DropZero, Zenon
  <2>3. x + i <= Len(e)
    BY <1>8, <2>2, Facts, TreeGrows, Depth, Zenon
  <2>4. PICK j \in Nat : j = i + 1 /\ j <= Cap /\ j # 0 /\ j \in 0 .. Cap
    BY <1>8, <2>3, Facts
  <2>5. saturating_add(i, 1) = j
    <3>1. 1 \in Nat
      OBVIOUS
    <3> QED BY <1>8, <2>4, <3>1, Added, Zenon
  <2>6. Round(r, n, j, s)
    BY <1>11, <1>15, <2>5, Zenon
  <2>7. Levels(e, t, Opened(j), a)
    BY <1>7, <1>12, <1>13, <2>2, <2>4, Push, Zenon
  <2>8. Levels(e, t, Append(Opened(j), 0), a)
    BY <1>13, <2>4, <2>7, PutZero, Zenon
  <2>9. Kept(n, j, s)
    <3>1. n \in 0 .. Cap
      BY <1>8, Facts
    <3> QED BY <1>8, <1>15, <2>4, <3>1, Zenon DEF Kept
  <2>10. Pre(e, t, n, j, s, a)
    BY <1>8, <1>15, <2>1, <2>4, <2>8, Zenon DEF Pre
  <2> QED BY <1>10, <2>6, <2>9, <2>10, RoundExact, Zenon
<1>16. CASE Counting /\ ~ (n < 2) /\ alloc
  <2>1. PICK c \in Nat : c = n - 1 /\ Less(n) = c
    BY <1>8, <1>16 DEF Less
  <2>2. PICK u : u = s \o [j \in 1 .. i |-> None] \o <<n - 1, None>>
    OBVIOUS
  <2>3. Round(r, 0, 0, u)
    BY <1>11, <1>16, <2>2, Zenon
  <2>4. c \in Nat \union {None}
    OBVIOUS
  <2>5. PICK v : v = Append(Opened(i), c)
    OBVIOUS
  <2>6. v \in Lengths /\ Append(v, None) \in Lengths
    BY <1>12, <1>13, <2>4, <2>5, TopChanged, Zenon
  <2>7. u = Append(v, None)
    <3>1. u = <<>> \o Opened(i) \o <<c, None>>
      BY <1>8, <1>16, <2>1, <2>2, Zenon DEF Opened
    <3>2. <<>> \o Opened(i) = Opened(i)
      BY <1>13, ConcatEmptySeq DEF Lengths
    <3>3. Opened(i) \o <<c, None>> = Append(v, None)
      <4>1. PICK z : z = Opened(i)
        OBVIOUS
      <4>2. z \in Lengths
        BY <1>13, <4>1, Zenon
      <4>3. z \o <<c, None>> = Append(Append(z, c), None)
        BY <2>4, <4>2 DEF Lengths
      <4> QED BY <2>5, <4>1, <4>3, Zenon
    <3> QED BY <3>1, <3>2, <3>3, Zenon
  <2>8. Levels(e, t, v, x)
    BY <1>8, <1>16, <2>1, <2>5, Zenon
  <2>9. Levels(e, t, u, a)
    BY <1>7, <1>12, <2>6, <2>7, <2>8, Push, Zenon
  <2>10. Kept(0, 0, u)
    BY <1>12, <1>16, <2>6, <2>7, Zenon DEF Kept
  <2>11. Pre(e, t, 0, 0, u, a)
    BY <2>9, Zenon DEF Pre
  <2> QED BY <1>10, <2>3, <2>10, <2>11, RoundExact, Zenon
<1>17. CASE Counting /\ ~ (n < 2) /\ ~ alloc
  <2>1. Round(Err("Message", a), 0, 0, s)
    BY <1>11, <1>17, Zenon
  <2>2. PICK f : f = Err("Message", a)
    OBVIOUS
  <2>3. f.ok = FALSE /\ f.val = "Message"
    BY <2>2, SMT DEF Err
  <2>4. outcome' = "Message" /\ alloc' = alloc
    BY <2>1, <2>2, <2>3, Zenon DEF Round
  <2>5. /\ "Message" # "run" /\ "Message" # "ok" /\ "Message" # "EndOfInput"
        /\ "Message" \notin {"TypeMismatch", "Utf8"}
    OBVIOUS
  <2> QED BY <1>17, <2>4, <2>5, Zenon DEF Exact
<1> QED BY <1>14, <1>15, <1>16, <1>17, Zenon

LEMMA TagExact ==
  ASSUME NEW e, NEW t, Skips(e, t), SkipTag
  PROVE  Exact(e, t)'
<1>1. At(TAGGED) /\ Info <= 27
  BY Zenon DEF SkipTag
<1>2. PICK p \in Nat :
        /\ p = pos /\ p < Len(e) /\ ~ AtEnd(p) /\ current(p) = e[p + 1]
        /\ type_of(e[p + 1]) = TAGGED /\ Info = info_of(e[p + 1])
        /\ \/ Part(e, t, p, TAGGED)
           \/ Break(e, t, nrounds, irounds, stack, p) /\ TAGGED = SIMPLE /\ Info = Indefinite
  BY <1>1, AtItem, Zenon
<1>3. Part(e, t, p, TAGGED) /\ outcome = "run"
  BY <1>1, <1>2, NotIndefinite, Zenon DEF At
<1>4. /\ p \in DOMAIN t /\ Pre(e, t, nrounds, irounds, stack, t[p].end)
      /\ info_of(e[p + 1]) <= 27 /\ Sized(e, t, p)
  BY <1>1, <1>2, <1>3, Zenon DEF Part
<1>5. /\ After(e, p) <= Len(e) /\ InRow(t, t[p].parts, After(e, p), t[p].end)
      /\ Len(t[p].parts) = 1
  BY <1>2, <1>4, MajorsDiffer, Zenon DEF Sized
<1>6. PICK r : r = unsigned(info_of(current(p)), p + 1) /\ Ends(r, e, After(e, p))
  BY <1>2, <1>4, <1>5, Facts, HeadEnds, Zenon
<1>7. PICK n, i, s : n = nrounds /\ i = irounds /\ s = stack
  OBVIOUS
<1>8. PICK a \in Nat, x \in Nat : a = After(e, p) /\ x = t[p].end
  BY <1>2, <1>4, <1>5, Facts, HeadType, ItemFacts, Zenon
<1>9. Items(t, a, x, 1)
  <2>1. t[p].parts \in Seq(Nat)
    BY <1>4, Facts, ItemFacts, Zenon
  <2> QED BY <1>5, <1>8, <2>1, RowItems, Zenon
<1>10. /\ n \in Nat /\ i \in Nat /\ s \in Lengths
       /\ Counting => /\ s = <<>> /\ (n > 0 \/ i > 0)
                      /\ Levels(e, t, Append(Opened(i), Less(n)), x)
       /\ ~ Counting => n = 0 /\ i = 0 /\ s # <<>> /\ Levels(e, t, s, x)
  BY <1>3, <1>4, <1>7, <1>8, Counted, Zenon
<1>11. /\ pos' = r.pos /\ outcome' = IF r.ok THEN "run" ELSE r.val
       /\ buf' = buf /\ nrounds' = n /\ irounds' = i /\ stack' = s
  BY <1>2, <1>6, <1>7, Zenon DEF SkipTag
<1>12. /\ "run" # "ok" /\ "run" # "EndOfInput" /\ "run" # "Message" /\ "run" \notin {"TypeMismatch", "Utf8"}
       /\ "EndOfInput" # "ok" /\ "EndOfInput" # "Message" /\ "EndOfInput" \notin {"TypeMismatch", "Utf8"}
  OBVIOUS
<1>13. CASE r.ok
  <2>1. pos' = a /\ outcome' = "run"
    BY <1>6, <1>8, <1>11, <1>13, Zenon DEF Ends
  <2>2. 1 \in Nat /\ 1 > 0 /\ (n + 1) - 1 = n /\ ~ (0 > 0)
    BY <1>10
  <2>3. In(e, t, n, i, s, a)
    <3>1. CASE Counting
      <4>1. Levels(e, t, Append(Opened(i), (n + 1) - 1), a)
        BY <1>9, <1>10, <2>2, <3>1, Facts, TreeGrows, CountMore, Zenon
      <4> QED BY <1>10, <2>2, <3>1, <4>1, Zenon DEF In
    <3>2. CASE ~ Counting
      <4>1. ~ (n > 0 \/ i > 0) /\ s # <<>> /\ Levels(e, t, s, x)
        BY <1>10, <2>2, <3>2, Zenon
      <4>2. CASE Last(s) = None
        <5>1. PICK u \in Lengths : s = Append(u, None)
          BY <1>10, <4>1, <4>2, TopOf, Zenon
        <5>2. Levels(e, t, Append(u, None), a)
          BY <1>9, <2>2, <4>1, <5>1, PutOpen, Zenon
        <5> QED BY <4>1, <4>2, <5>1, <5>2, Zenon DEF In
      <4>3. CASE Last(s) # None
        <5>1. a \in DOMAIN t /\ Items(t, t[a].end, x, 0)
          <6>1. a \in DOMAIN t /\ Items(t, t[a].end, x, 1 - 1)
            BY <1>9, <2>2, FirstItem, Zenon
          <6>2. 1 - 1 = 0
            OBVIOUS
          <6> QED BY <6>1, <6>2, Zenon
        <5>2. t[a].end = x
          <6>1. 0 \in Nat
            OBVIOUS
          <6> QED BY <5>1, <6>1, ItemEnds, Zenon
        <5> QED BY <4>1, <4>3, <5>1, <5>2, Zenon DEF In
      <4> QED BY <4>2, <4>3, Zenon
    <3> QED BY <3>1, <3>2, Zenon
  <2> QED BY <1>11, <1>12, <2>1, <2>3, Zenon DEF Exact
<1>14. CASE ~ r.ok
  <2>1. outcome' = "EndOfInput" /\ Len(buf') < Len(e)
    BY <1>6, <1>11, <1>14, Zenon DEF Ends
  <2> QED BY <1>12, <2>1, Zenon DEF Exact
<1> QED BY <1>13, <1>14, Zenon

LEMMA BreakExact ==
  ASSUME NEW e, NEW t, Skips(e, t), SkipBreak
  PROVE  Exact(e, t)'
<1>1. At(SIMPLE) /\ Info = Indefinite
  BY Zenon DEF SkipBreak
<1>2. PICK p \in Nat :
        /\ p = pos /\ p < Len(e) /\ ~ AtEnd(p) /\ current(p) = e[p + 1]
        /\ type_of(e[p + 1]) = SIMPLE /\ Info = info_of(e[p + 1])
        /\ \/ Part(e, t, p, SIMPLE)
           \/ Break(e, t, nrounds, irounds, stack, p) /\ SIMPLE = SIMPLE /\ Info = Indefinite
  BY <1>1, AtItem, Zenon
<1>3. Break(e, t, nrounds, irounds, stack, p)
  BY <1>1, <1>2, MajorsDiffer, Zenon DEF Part
<1>4. PICK n, i, s : n = nrounds /\ i = irounds /\ s = stack
  OBVIOUS
<1>5. Break(e, t, n, i, s, p) /\ Kept(n, i, s)
  BY <1>3, <1>4, Facts, Zenon
<1>6. PICK a \in Nat : a = p + 1
  OBVIOUS
<1>7. PICK r : r = Ok(<<>>, a)
  OBVIOUS
<1>8. Ends(r, e, a) /\ r.ok
  BY <1>7, OkEnds, Zenon
<1>9. IF n > 0 \/ i > 0 THEN Round(r, n, Max({0, i - 1}), s)
      ELSE Round(r, 0, 0, IF Last(s) = None THEN Front(s) ELSE s)
  BY <1>2, <1>4, <1>6, <1>7, Zenon DEF SkipBreak, Counting
<1>10. n \in Nat /\ i \in Nat /\ s \in Lengths /\ i <= Cap /\ 0 \in 0 .. Cap
  BY <1>5, Facts DEF Kept
<1>11. CASE n > 0 \/ i > 0
  <2>1. n = 0 /\ i > 0 /\ s = <<>> /\ Levels(e, t, Opened(i - 1), a)
    BY <1>5, <1>6, <1>11, Zenon DEF Break
  <2>2. PICK j \in Nat : j = i - 1 /\ j \in 0 .. Cap
    BY <1>10, <2>1, Facts
  <2>3. Max({0, i - 1}) = j
    <3>1. i - 1 \in Int /\ i - 1 >= 0
      BY <1>10, <2>1
    <3> QED BY <2>2, <3>1, MaxPair, Zenon
  <2>4. Round(r, 0, j, s)
    BY <1>9, <1>11, <2>1, <2>3, Zenon
  <2>5. Opened(j) \in Lengths /\ Opened(0) = <<>>
    BY OpenedLengths, Zenon
  <2>6. Levels(e, t, Append(Opened(j), 0), a)
    BY <2>1, <2>2, <2>5, PutZero, Zenon
  <2>7. Less(0) = 0
    BY DEF Less
  <2>8. Pre(e, t, 0, j, s, a)
    BY <2>1, <2>2, <2>5, <2>6, <2>7, Zenon DEF Pre
  <2>9. Kept(0, j, s)
    BY <1>10, <2>1, <2>2, Zenon DEF Kept
  <2> QED BY <1>8, <2>4, <2>8, <2>9, RoundExact, Zenon
<1>12. CASE ~ (n > 0 \/ i > 0)
  <2>1. s # <<>> /\ Last(s) = None /\ Levels(e, t, Front(s), a)
    BY <1>5, <1>6, <1>12, Zenon DEF Break
  <2>2. PICK u \in Lengths : u = Front(s)
    BY <1>10, <2>1, TopOf, Zenon
  <2>3. Round(r, 0, 0, u)
    BY <1>9, <1>12, <2>1, <2>2, Zenon
  <2>4. Kept(0, 0, u)
    BY <1>5, <1>10, <2>1, Zenon DEF Kept
  <2>5. Pre(e, t, 0, 0, u, a)
    BY <2>1, <2>2, Zenon DEF Pre
  <2> QED BY <1>8, <2>3, <2>4, <2>5, RoundExact, Zenon
<1> QED BY <1>11, <1>12, Zenon

LEMMA UnknownNever ==
  ASSUME NEW e, NEW t, Skips(e, t), SkipUnknown
  PROVE  FALSE
<1>1. PICK m \in {UNSIGNED, SIGNED, TAGGED, SIMPLE} :
        At(m) /\ Info > 27 /\ (m = SIMPLE => Info \in 28 .. 30)
  <2>1. Info \in 28 .. 30 => Info > 27
    OBVIOUS
  <2> QED BY <2>1, MajorsDiffer, Zenon DEF SkipUnknown
<1>2. PICK p \in Nat :
        /\ p = pos /\ Info = info_of(e[p + 1])
        /\ \/ Part(e, t, p, m)
           \/ Break(e, t, nrounds, irounds, stack, p) /\ m = SIMPLE /\ Info = Indefinite
  BY <1>1, AtItem, Zenon
<1>3. Part(e, t, p, m)
  BY <1>1, <1>2, NotIndefinite, Zenon
<1>4. Info # Indefinite
  BY <1>1, <1>2, <1>3, MajorsDiffer, Zenon DEF Part
<1>5. Info <= 27
  BY <1>2, <1>3, <1>4, Zenon DEF Part
<1>6. PICK y \in 0 .. 31 : y = Info
  BY <1>1, Facts, AtHead, Zenon
<1>7. y <= 27 /\ y > 27
  BY <1>1, <1>5, <1>6, Zenon
<1> QED BY <1>7

-----------------------------------------------------------------------------
(* The cases of the buffer, each with what skip does on it.                *)
ReservedCase(e) ==
  /\ SkipInv /\ Matches(e) /\ \E m \in Majors : e = <<m + 28>>
  /\ outcome = "run" => pos = 0
  /\ outcome \in {"run", "EndOfInput", "TypeMismatch"}
  /\ outcome = "EndOfInput" => Len(buf) < Len(e)

TextCase(e) ==
  /\ SkipInv /\ Matches(e) /\ BadText(e)
  /\ outcome = "run" => pos = 0
  /\ outcome \in {"run", "EndOfInput", "Utf8"}
  /\ outcome = "EndOfInput" => Len(buf) < Len(e)

PromiseCase(e) ==
  /\ SkipInv /\ Matches(e) /\ Promise(e) /\ Len(buf) <= Len(e)
  /\ outcome = "run" => (pos = 0 /\ nrounds = 1 /\ irounds = 0 /\ stack = <<>>) \/ AtEnd(pos)
  /\ outcome \in {"run", "EndOfInput"}

(* A round that fails ends skip with its error.                            *)
LEMMA RoundFails ==
  ASSUME NEW r, NEW n, NEW i, NEW s, ~ r.ok, Round(r, n, i, s)
  PROVE  outcome' = r.val /\ buf' = buf
BY Zenon DEF Round

(* Skip is at the first byte of e, or the buffer is empty.                 *)
LEMMA AtZero ==
  ASSUME NEW e, Matches(e), e # <<>>, SkipInv, pos = 0, NEW m, At(m)
  PROVE  /\ ~ AtEnd(0) /\ current(0) = e[0 + 1] /\ 0 + 1 = 1 /\ 0 < Len(e) /\ 0 \in Nat
         /\ type_of(e[1]) = m /\ Info = info_of(e[1]) /\ Len(e) \in Nat /\ e \in Seq(Byte)
<1>1. ~ AtEnd(0) /\ type_of(current(0)) = m /\ Info = info_of(current(0))
  BY Zenon DEF At, Info
<1>2. e \in Seq(Byte) /\ Len(e) \in Nat /\ 0 < Len(e)
  <2>1. e \in Seq(Byte)
    BY Zenon DEF Matches
  <2>2. Len(e) \in Nat /\ Len(e) # 0
    BY <2>1, EmptySeq, LenProperties
  <2> QED BY <2>1, <2>2
<1>3. 0 \in Nat /\ 0 + 1 = 1
  OBVIOUS
<1>4. current(0) = e[0 + 1]
  BY <1>1, <1>2, <1>3, HeadAt, Zenon
<1> QED BY <1>1, <1>2, <1>3, <1>4, Zenon

LEMMA EndAtZero ==
  ASSUME NEW e, Matches(e), e # <<>>, pos = 0, SkipEndOfInput
  PROVE  Len(buf) < Len(e)
<1>1. e \in Seq(Byte) /\ buf \in Seq(Byte)
  BY Zenon DEF Matches
<1>2. Len(e) \in Nat /\ Len(e) # 0 /\ Len(buf) \in Nat
  BY <1>1, EmptySeq, LenProperties
<1>3. 0 >= Len(buf)
  BY Zenon DEF SkipEndOfInput, AtEnd
<1> QED BY <1>2, <1>3

(* A first byte that is reserved.                                          *)
LEMMA ReservedStep ==
  ASSUME NEW e, ReservedCase(e), Next
  PROVE  /\ outcome' \in {"EndOfInput", "TypeMismatch"}
         /\ outcome' = "EndOfInput" => Len(buf) < Len(e)
<1>1. PICK k \in Majors : e = <<k + 28>>
  BY Zenon DEF ReservedCase
<1>2. e # <<>> /\ e[1] = k + 28
  BY <1>1
<1>3. info_of(e[1]) = 28
  <2>1. 28 \in 0 .. 31
    OBVIOUS
  <2> QED BY <1>2, <2>1, HeadBits, Zenon
<1>4. SkipInv /\ Matches(e)
  BY Zenon DEF ReservedCase
<1>5. ASSUME NEW m, At(m) PROVE Info = 28 /\ pos = 0 /\ outcome = "run"
  <2>1. outcome = "run" /\ pos = 0
    BY <1>5, Zenon DEF At, ReservedCase
  <2> QED BY <1>2, <1>3, <1>4, <1>5, <2>1, AtZero, Zenon
<1>6. ~ (28 <= 27) /\ 28 # Indefinite /\ 28 > 27 /\ ~ (28 <= 23) /\ "TypeMismatch" # "EndOfInput"
  BY DEF Indefinite
<1>7. unsigned(28, 0 + 1) = Err("TypeMismatch", 0 + 1)
  BY <1>6, Zenon DEF unsigned
<1>8. ASSUME NEW r, r.val = "TypeMismatch", ~ r.ok, NEW n, NEW i, NEW s, Round(r, n, i, s)
      PROVE  outcome' = "TypeMismatch"
  BY <1>8, RoundFails, Zenon
<1>9. ASSUME NEW q PROVE Err("TypeMismatch", q).val = "TypeMismatch" /\ Err("TypeMismatch", q).ok = FALSE
  BY SMT DEF Err
<1>10. CASE SkipEndOfInput
  <2>1. outcome = "run" /\ outcome' = "EndOfInput"
    BY <1>10, Zenon DEF SkipEndOfInput
  <2>2. pos = 0
    BY <2>1, Zenon DEF ReservedCase
  <2> QED BY <1>2, <1>4, <1>10, <2>1, <2>2, EndAtZero, Zenon
<1>11. CASE SkipScalar
  BY <1>5, <1>6, <1>11, Zenon DEF SkipScalar
<1>12. CASE SkipTag
  BY <1>5, <1>6, <1>12, Zenon DEF SkipTag
<1>13. CASE SkipBreak
  BY <1>5, <1>6, <1>13, Zenon DEF SkipBreak
<1>14. CASE SkipUnknown
  <2>1. PICK q : Round(Err("TypeMismatch", q), nrounds, irounds, stack)
    BY <1>14, Zenon DEF SkipUnknown
  <2> QED BY <1>6, <1>8, <1>9, <2>1, Zenon
<1>15. ASSUME NEW m \in {BYTES, TEXT}, SkipString(m) PROVE outcome' = "TypeMismatch"
  <2>1. At(m)
    BY <1>15, Zenon DEF SkipString
  <2>2. Info = 28 /\ pos = 0 /\ ~ AtEnd(0) /\ type_of(current(0)) = m /\ info_of(current(0)) = 28
    BY <1>5, <2>1, Zenon DEF At, Info
  <2>3. PICK u : u = Err("TypeMismatch", 0 + 1)
    OBVIOUS
  <2>4. u.val = "TypeMismatch" /\ ~ u.ok
    BY <1>9, <2>3, Zenon
  <2>5. ReadStr(m, 0) = u
    BY <1>6, <1>7, <2>2, <2>3, <2>4, Zenon DEF ReadStr
  <2>6. Round(u, nrounds, irounds, stack)
    BY <1>6, <1>15, <2>2, <2>5, Zenon DEF SkipString
  <2> QED BY <1>8, <2>4, <2>6, Zenon
<1>16. ASSUME NEW m \in {ARRAY, MAP}, SkipSized(m) PROVE outcome' = "TypeMismatch"
  <2>1. At(m)
    BY <1>16, Zenon DEF SkipSized
  <2>2. Info = 28 /\ pos = 0
    BY <1>5, <2>1, Zenon
  <2>3. PICK u : u = Err("TypeMismatch", 0 + 1)
    OBVIOUS
  <2>4. u.val = "TypeMismatch" /\ ~ u.ok
    BY <1>9, <2>3, Zenon
  <2>5. Round(u, nrounds, irounds, stack)
    BY <1>7, <1>16, <2>2, <2>3, <2>4, Zenon DEF SkipSized
  <2> QED BY <1>8, <2>4, <2>5, Zenon
<1>17. ASSUME NEW m \in {ARRAY, MAP}, SkipOpen(m) PROVE FALSE
  BY <1>5, <1>6, <1>17, Zenon DEF SkipOpen
<1> QED BY <1>6, <1>10, <1>11, <1>12, <1>13, <1>14, <1>15, <1>16, <1>17, Zenon DEF Next

(* The actions a head of known length leaves.                              *)
LEMMA OnlyString ==
  ASSUME Next, outcome = "run", ~ AtEnd(pos), NEW m \in {BYTES, TEXT},
         type_of(current(pos)) = m, Info <= 27
  PROVE  SkipString(m)
<1>1. \A k : At(k) => k = m
  BY Zenon DEF At
<1> QED BY <1>1, MajorsDiffer, Zenon DEF Next, SkipEndOfInput, SkipScalar, SkipTag, SkipBreak,
             SkipUnknown, SkipSized, SkipOpen, SkipString

LEMMA OnlySized ==
  ASSUME Next, outcome = "run", ~ AtEnd(pos), NEW m \in {ARRAY, MAP},
         type_of(current(pos)) = m, Info <= 27
  PROVE  SkipSized(m)
<1>1. \A k : At(k) => k = m
  BY Zenon DEF At
<1>2. Info # Indefinite
  BY NotIndefinite, Zenon
<1> QED BY <1>1, <1>2, MajorsDiffer, Zenon DEF Next, SkipEndOfInput, SkipScalar, SkipTag, SkipBreak,
             SkipUnknown, SkipSized, SkipOpen, SkipString

(* Only the end of the input is left at the end of the buffer.             *)
LEMMA OnlyWhileRunning ==
  ASSUME Next
  PROVE  outcome = "run" /\ (AtEnd(pos) => SkipEndOfInput)
BY Zenon DEF Next, SkipEndOfInput, SkipScalar, SkipTag, SkipBreak, SkipUnknown, SkipString,
             SkipSized, SkipOpen, At

(* A text that is not UTF-8.                                               *)
LEMMA TextStep ==
  ASSUME NEW e, TextCase(e), Next
  PROVE  /\ outcome' \in {"EndOfInput", "Utf8"}
         /\ outcome' = "EndOfInput" => Len(buf) < Len(e)
<1>1. SkipInv /\ Matches(e) /\ e # <<>> /\ BadText(e) /\ outcome = "run" /\ pos = 0
  BY OnlyWhileRunning, Zenon DEF TextCase, BadText
<1>2. "Utf8" # "EndOfInput"
  OBVIOUS
<1>3. CASE AtEnd(pos)
  <2>1. SkipEndOfInput
    BY <1>3, OnlyWhileRunning, Zenon
  <2>2. outcome' = "EndOfInput"
    BY <2>1, Zenon DEF SkipEndOfInput
  <2> QED BY <1>1, <2>1, <2>2, EndAtZero, Zenon
<1>4. CASE ~ AtEnd(pos)
  <2>1. e \in Seq(Byte) /\ Len(e) \in Nat /\ 0 < Len(e) /\ 0 \in Nat /\ 0 + 1 = 1
    <3>1. e \in Seq(Byte)
      BY <1>1, Zenon DEF Matches
    <3>2. Len(e) \in Nat /\ Len(e) # 0
      BY <1>1, <3>1, EmptySeq, LenProperties
    <3> QED BY <3>1, <3>2
  <2>2. current(0) = e[0 + 1] /\ ~ AtEnd(0)
    BY <1>1, <1>4, <2>1, HeadAt, Zenon
  <2>3. /\ type_of(e[0 + 1]) = TEXT /\ info_of(e[0 + 1]) <= 27 /\ After(e, 0) <= Len(e)
        /\ After(e, 0) + NatOf(Argument(e, 0)) = Len(e)
    BY <1>1, <2>1, Zenon DEF BadText
  <2>4. Info <= 27 /\ Info # Indefinite
    BY <1>1, <2>2, <2>3, NotIndefinite, Zenon DEF Info
  <2>5. SkipString(TEXT)
    <3>1. TEXT \in {BYTES, TEXT}
      OBVIOUS
    <3> QED BY <1>1, <1>4, <2>2, <2>3, <2>4, <3>1, OnlyString, Zenon
  <2>6. PICK z : z = ReadStr(TEXT, 0)
    OBVIOUS
  <2>7. Round(z, nrounds, irounds, stack)
    BY <1>1, <2>4, <2>5, <2>6, Zenon DEF SkipString
  <2>8. PICK a \in Nat, n \in Nat : a = After(e, 0) /\ n = NatOf(Argument(e, 0))
    BY <2>1, <2>3, HeadType, Zenon
  <2>9. CASE Ends(z, e, After(e, 0)) /\ ~ z.ok
    <3>1. outcome' = z.val
      BY <2>7, <2>9, RoundFails, Zenon
    <3> QED BY <2>9, <3>1, Zenon DEF Ends
  <2>10. ASSUME NEW r, r = read_slice(a, n),
                z = IF r.ok /\ TEXT = TEXT /\ \E i \in DOMAIN r.val : r.val[i] >= 128
                    THEN Err("Utf8", r.pos) ELSE r
         PROVE  /\ outcome' \in {"EndOfInput", "Utf8"}
                /\ outcome' = "EndOfInput" => Len(buf) < Len(e)
    <3>1. a + n = Len(e) /\ a + n <= Len(e)
      BY <2>1, <2>3, <2>8
    <3>2. Ends(r, e, a + n) /\ (r.ok => r.val = SubSeq(e, a + 1, a + n))
      BY <1>1, <2>10, <3>1, SliceEnds, Zenon
    <3>3. CASE r.ok
      <4>1. PICK i \in (a + 1) .. Len(e) : e[i] >= 128
        BY <1>1, <2>8, Zenon DEF BadText
      <4>2. PICK w : w = r.val /\ w = SubSeq(e, a + 1, a + n)
        BY <3>2, <3>3, Zenon
      <4>3. /\ SubSeq(e, a + 1, a + n) \in Seq(Byte) /\ Len(SubSeq(e, a + 1, a + n)) = n
            /\ \A k \in 1 .. n : SubSeq(e, a + 1, a + n)[k] = e[a + k]
        BY <2>1, <3>1, Slice, Zenon
      <4>5. w \in Seq(Byte) /\ Len(w) = n /\ \A k \in 1 .. n : w[k] = e[a + k]
        BY <4>2, <4>3, Zenon
      <4>6. DOMAIN w = 1 .. n
        BY <4>5, LenProperties
      <4>7. PICK k \in 1 .. n : a + k = i
        BY <2>1, <3>1, <4>1
      <4>8. w[k] >= 128
        BY <4>1, <4>5, <4>7, Zenon
      <4>9. z = Err("Utf8", r.pos)
        BY <2>10, <3>3, <4>2, <4>6, <4>8, Zenon
      <4>10. z.val = "Utf8" /\ z.ok = FALSE
        BY <4>9, SMT DEF Err
      <4> QED BY <1>2, <2>7, <4>10, RoundFails, Zenon
    <3>4. CASE ~ r.ok
      <4>1. z = r
        BY <2>10, <3>4, Zenon
      <4>2. outcome' = r.val
        BY <2>7, <3>4, <4>1, RoundFails, Zenon
      <4> QED BY <3>2, <3>4, <4>2, Zenon DEF Ends
    <3> QED BY <3>3, <3>4, Zenon
  <2>11. StrFrom(ReadStr(TEXT, 0), TEXT, e, After(e, 0), NatOf(Argument(e, 0)))
    BY <1>1, <2>1, <2>2, <2>3, StrOn, Zenon
  <2> QED BY <2>6, <2>8, <2>9, <2>10, <2>11, Zenon DEF StrFrom
<1> QED BY <1>3, <1>4, Zenon

(* After a head that promises parts, more than one item is counted.        *)
LEMMA AtLeastTwo ==
  ASSUME NEW n \in 0 .. Cap, n > 0, NEW k,
         k = saturating_mul(n, 2) \/ k = n
  PROVE  /\ k # 0 /\ saturating_add(1, k) \in 0 .. Cap /\ saturating_add(1, k) >= 2
<1>1. n \in Nat /\ Cap \in Nat /\ Cap >= 2 /\ n <= Cap
  BY CapType
<1>2. n * 2 \in Int
  BY <1>1
<1>3. saturating_mul(n, 2) = IF n * 2 <= Cap THEN n * 2 ELSE Cap
  BY <1>1, <1>2, MinPair DEF saturating_mul
<1>4. k \in Nat /\ k >= 1 /\ k <= Cap
  BY <1>1, <1>3
<1>5. 1 + k \in Int
  BY <1>4
<1>6. saturating_add(1, k) = IF 1 + k <= Cap THEN 1 + k ELSE Cap
  BY <1>1, <1>5, MinPair DEF saturating_add
<1> QED BY <1>1, <1>4, <1>6

(* A head whose parts never come.                                          *)
LEMMA PromiseStep ==
  ASSUME NEW e, PromiseCase(e), Next
  PROVE  /\ outcome' \in {"run", "EndOfInput"}
         /\ outcome' = "run" => AtEnd(pos)'
<1>1. /\ SkipInv /\ Matches(e) /\ e # <<>> /\ Promise(e) /\ outcome = "run" /\ Len(buf) <= Len(e)
      /\ (pos = 0 /\ nrounds = 1 /\ irounds = 0 /\ stack = <<>>) \/ AtEnd(pos)
  BY OnlyWhileRunning, Zenon DEF PromiseCase, Promise
<1>2. "run" # "EndOfInput"
  OBVIOUS
<1>3. CASE AtEnd(pos)
  <2>1. outcome' = "EndOfInput"
    BY <1>3, OnlyWhileRunning, Zenon DEF SkipEndOfInput
  <2> QED BY <1>2, <2>1, Zenon
<1>4. CASE ~ AtEnd(pos)
  <2>1. /\ e \in Seq(Byte) /\ Len(e) \in Nat /\ 0 < Len(e) /\ 0 \in Nat /\ 0 + 1 = 1
        /\ Len(buf) \in Nat
    <3>1. e \in Seq(Byte) /\ buf \in Seq(Byte)
      BY <1>1, Zenon DEF Matches
    <3>2. Len(e) \in Nat /\ Len(e) # 0 /\ Len(buf) \in Nat
      BY <1>1, <3>1, EmptySeq, LenProperties
    <3> QED BY <3>1, <3>2
  <2>2. pos = 0 /\ nrounds = 1 /\ irounds = 0 /\ stack = <<>> /\ ~ AtEnd(0)
    BY <1>1, <1>4, Zenon
  <2>3. current(0) = e[0 + 1]
    BY <1>1, <2>1, <2>2, HeadAt, Zenon
  <2>4. PICK m \in {BYTES, TEXT, ARRAY, MAP} : m = type_of(e[0 + 1])
    BY <1>1, <2>1, Zenon DEF Promise
  <2>5. /\ info_of(e[0 + 1]) <= 27 /\ After(e, 0) = Len(e) /\ NatOf(Argument(e, 0)) > 0
    BY <1>1, <2>1, Zenon DEF Promise
  <2>6. After(e, 0) <= Len(e)
    BY <2>1, <2>5
  <2>7. Info <= 27 /\ Info # Indefinite /\ Info = info_of(current(0))
    BY <2>2, <2>3, <2>5, NotIndefinite, Zenon DEF Info
  <2>8. PICK n \in 0 .. Cap : n = NatOf(Argument(e, 0)) /\ n > 0
    BY <2>1, <2>5, <2>6, HeadType, Zenon
  <2>9. CASE m \in {BYTES, TEXT}
    <3>1. SkipString(m)
      BY <1>1, <1>4, <2>2, <2>3, <2>4, <2>7, <2>9, OnlyString, Zenon
    <3>2. PICK z : z = ReadStr(m, 0)
      OBVIOUS
    <3>3. Round(z, nrounds, irounds, stack)
      BY <2>2, <2>7, <3>1, <3>2, Zenon DEF SkipString
    <3>4. CASE Ends(z, e, After(e, 0)) /\ ~ z.ok
      <4>1. outcome' = z.val
        BY <3>3, <3>4, RoundFails, Zenon
      <4> QED BY <1>2, <3>4, <4>1, Zenon DEF Ends
    <3>5. ASSUME NEW r, r = read_slice(After(e, 0), NatOf(Argument(e, 0))),
                 z = IF r.ok /\ m = TEXT /\ \E i \in DOMAIN r.val : r.val[i] >= 128
                     THEN Err("Utf8", r.pos) ELSE r
          PROVE  outcome' = "EndOfInput"
      <4>1. ~ (Len(e) + n <= Len(buf))
        BY <1>1, <2>1, <2>8
      <4>2. r = Err("EndOfInput", Len(e))
        BY <2>5, <2>8, <3>5, <4>1, Zenon DEF read_slice
      <4>3. r.ok = FALSE /\ r.val = "EndOfInput"
        BY <4>2, SMT DEF Err
      <4>4. z = r
        BY <3>5, <4>3, Zenon
      <4> QED BY <3>3, <4>3, <4>4, RoundFails, Zenon
    <3>6. StrFrom(ReadStr(m, 0), m, e, After(e, 0), NatOf(Argument(e, 0)))
      BY <1>1, <2>1, <2>2, <2>4, <2>5, <2>6, StrOn, Zenon
    <3> QED BY <1>2, <3>2, <3>4, <3>5, <3>6, Zenon DEF StrFrom
  <2>10. CASE m \in {ARRAY, MAP}
    <3>1. SkipSized(m)
      BY <1>1, <1>4, <2>2, <2>3, <2>4, <2>7, <2>10, OnlySized, Zenon
    <3>2. PICK r : /\ r = unsigned(info_of(current(0)), 0 + 1) /\ Ends(r, e, After(e, 0))
                   /\ r.ok => r.val = Argument(e, 0)
      BY <1>1, <2>1, <2>2, <2>5, <2>6, HeadEnds, Zenon
    <3>3. PICK k : k = IF m = MAP THEN saturating_mul(NatOf(r.val), 2) ELSE NatOf(r.val)
      OBVIOUS
    <3>4. Counting
      <4>1. 1 > 0
        OBVIOUS
      <4> QED BY <2>2, <4>1, Zenon DEF Counting
    <3>5. IF ~ r.ok \/ k = 0 THEN Round(r, nrounds, irounds, stack)
          ELSE Round(r, saturating_add(1, k), 0, <<>>)
      BY <2>2, <2>7, <3>1, <3>2, <3>3, <3>4, Zenon DEF SkipSized
    <3>6. CASE ~ r.ok
      <4>1. outcome' = r.val
        BY <3>5, <3>6, RoundFails, Zenon
      <4> QED BY <1>2, <3>2, <3>6, <4>1, Zenon DEF Ends
    <3>7. CASE r.ok
      <4>1. k = saturating_mul(n, 2) \/ k = n
        BY <2>8, <3>2, <3>3, <3>7, Zenon
      <4>2. PICK N : N = saturating_add(1, k)
        OBVIOUS
      <4>3. k # 0 /\ N \in 0 .. Cap /\ N >= 2
        BY <2>8, <4>1, <4>2, AtLeastTwo, Zenon
      <4>4. Round(r, N, 0, <<>>)
        BY <3>5, <3>7, <4>2, <4>3, Zenon
      <4>5. EndRound(N, 0, <<>>) /\ pos' = r.pos /\ buf' = buf
        BY <3>7, <4>4, Zenon DEF Round
      <4>6. N # 0 /\ ~ (N <= 1)
        BY <4>3
      <4>7. outcome' = "run"
        BY <4>5, <4>6, Zenon DEF EndRound
      <4>8. pos' = Len(e)
        BY <2>5, <3>2, <3>7, <4>5, Zenon DEF Ends
      <4>9. Len(e) >= Len(buf)
        BY <1>1, <2>1
      <4>10. AtEnd(pos)'
        BY <4>5, <4>8, <4>9, Zenon DEF AtEnd
      <4> QED BY <1>2, <4>7, <4>10, Zenon
    <3> QED BY <3>6, <3>7, Zenon
  <2> QED BY <2>4, <2>9, <2>10, Zenon
<1> QED BY <1>3, <1>4, Zenon

-----------------------------------------------------------------------------
(* The input that Init took, and where skip is in it.                      *)
Found(it, e, t) ==
  /\ item = it /\ Len(e) < Cap
  /\ size = IF it.k = "partial" THEN Cap ELSE Len(e)
  /\ IF it.k = "partial" THEN PromiseCase(e)
     ELSE IF it.k = "reserved" THEN ReservedCase(e)
     ELSE IF Broken(it) THEN TextCase(e)
     ELSE Skips(e, t)

(* The inductive invariant of SkipExact.                                   *)
ExactInv == \E x \in Inputs : Found(x.item, Bytes(x.item, x.form), Tree(x.item, x.form))

(* The buffer of Init.                                                     *)
LEMMA InitMatches ==
  ASSUME NEW e \in Seq(Byte), NEW lost \in 0 .. Len(e), buf \in Seq(Byte),
         buf = e \o << 0 >> \/ buf = SubSeq(e, 1, Len(e) - lost)
  PROVE  Matches(e)
<1>1. PICK n \in Nat : n = Len(e)
  BY LenProperties
<1>2. ASSUME buf = e \o << 0 >>, NEW i \in 1 .. n PROVE buf[i] = e[i]
  <2>1. 0 \in Byte
    BY DEF Byte
  <2>2. <<0>> \in Seq(Byte)
    BY <2>1
  <2> QED BY <1>1, <1>2, <2>2, ConcatProperties
<1>3. ASSUME buf = SubSeq(e, 1, n - lost), NEW i \in 1 .. n, i <= Len(buf) PROVE buf[i] = e[i]
  <2>1. \A k \in 1 .. (n - lost) : e[k] \in Byte
    BY <1>1, ElementOfSeq
  <2>2. Len(buf) = n - lost /\ \A k \in 1 .. (n - lost) : buf[k] = e[k]
    BY <1>1, <1>3, <2>1, SubSeqProperties
  <2> QED BY <1>1, <1>3, <2>2
<1> QED BY <1>1, <1>2, <1>3, Zenon DEF Matches

(* Before the first round one item is to come, and it is all of e.         *)
LEMMA InitIn ==
  ASSUME NEW e \in Seq(Byte), NEW t, Wellformed(e, t)
  PROVE  In(e, t, 1, 0, <<>>, 0)
<1>1. 0 \in DOMAIN t /\ t[0].end = Len(e) /\ Len(e) \in Nat
  BY LenProperties DEF Wellformed
<1>2. <<>> \in Lengths /\ Opened(0) = <<>> /\ 1 \in Nat \union {None} /\ 0 \in Nat /\ 1 > 0 /\ 1 \in Nat
  BY OpenedLengths DEF Lengths
<1>3. Items(t, 0, t[0].end, 1)
  BY <1>1, <1>2, OneItem, Zenon
<1>4. Rest(e, t, 1, 0, Len(e))
  BY <1>1, <1>2, <1>3, NatNotNone, Zenon DEF Rest
<1>5. Levels(e, t, <<>>, Len(e))
  BY <1>1, LevelsNone, Zenon
<1>6. Levels(e, t, Append(<<>>, 1), 0)
  BY <1>2, <1>4, <1>5, Push, Zenon
<1> QED BY <1>2, <1>6, Zenon DEF In

(* The invariant holds of every input at the start.                        *)
LEMMA InitFound == Init => ExactInv
<1> SUFFICES ASSUME Init PROVE ExactInv
  OBVIOUS
<1>1. PICK x \in Inputs :
        /\ item = x.item
        /\ size = IF x.item.k = "partial" THEN Cap ELSE Len(Bytes(x.item, x.form))
        /\ \E lost \in (IF x.cut THEN 0 .. Len(Bytes(x.item, x.form)) ELSE {0}) :
             buf = IF lost = 0 /\ size < Cap THEN Bytes(x.item, x.form) \o <<0>>
                   ELSE SubSeq(Bytes(x.item, x.form), 1, Len(Bytes(x.item, x.form)) - lost)
        /\ pos = 0 /\ nrounds = 1 /\ irounds = 0 /\ stack = <<>> /\ outcome = "run"
  BY Zenon DEF Init
<1>2. PICK it, e, t : it = x.item /\ e = Bytes(x.item, x.form) /\ t = Tree(x.item, x.form)
  OBVIOUS
<1>3. e \in Seq(Byte) /\ Len(e) < Cap
  BY <1>2, BytesAssumption, Zenon
<1>4. PICK lost \in (IF x.cut THEN 0 .. Len(e) ELSE {0}) :
        buf = IF lost = 0 /\ size < Cap THEN e \o <<0>> ELSE SubSeq(e, 1, Len(e) - lost)
  BY <1>1, <1>2, Zenon
<1>5. Len(e) \in Nat /\ lost \in 0 .. Len(e) /\ Cap \in Nat
  BY <1>3, LenProperties, CapType
<1>6. SkipInv /\ buf \in Seq(Byte)
  BY InitKeeps, Zenon DEF SkipInv
<1>7. buf = e \o <<0>> \/ buf = SubSeq(e, 1, Len(e) - lost)
  BY <1>4, Zenon
<1>8. Matches(e)
  BY <1>3, <1>5, <1>6, <1>7, InitMatches, Zenon
<1>9. /\ "run" # "ok" /\ "run" # "EndOfInput" /\ "run" # "Message"
      /\ "run" \notin {"TypeMismatch", "Utf8"}
  OBVIOUS
<1>10. CASE it.k = "partial"
  <2>1. Promise(e)
    BY <1>2, <1>10, ItemsAssumption, Zenon
  <2>2. ~ (size < Cap)
    BY <1>1, <1>2, <1>5, <1>10
  <2>3. buf = SubSeq(e, 1, Len(e) - lost)
    BY <1>4, <2>2, Zenon
  <2>4. \A k \in 1 .. (Len(e) - lost) : e[k] \in Byte
    BY <1>3, <1>5, ElementOfSeq
  <2>5. Len(buf) = Len(e) - lost
    BY <1>3, <1>5, <2>3, <2>4, SubSeqProperties
  <2>6. Len(buf) <= Len(e)
    BY <1>5, <2>5
  <2>7. PromiseCase(e)
    BY <1>1, <1>6, <1>8, <2>1, <2>6, Zenon DEF PromiseCase
  <2> QED BY <1>1, <1>2, <1>3, <1>10, <2>7, Zenon DEF ExactInv, Found
<1>11. CASE it.k # "partial" /\ it.k = "reserved"
  <2>1. it.m \in Majors /\ e = <<it.m + 28>>
    BY <1>2, <1>11, ItemsAssumption, Zenon
  <2>2. ReservedCase(e)
    BY <1>1, <1>6, <1>8, <1>9, <2>1, Zenon DEF ReservedCase
  <2> QED BY <1>1, <1>2, <1>3, <1>11, <2>2, Zenon DEF ExactInv, Found
<1>12. CASE it.k # "partial" /\ it.k # "reserved" /\ Broken(it)
  <2>1. BadText(e)
    BY <1>2, <1>12, ItemsAssumption, Zenon
  <2>2. TextCase(e)
    BY <1>1, <1>6, <1>8, <1>9, <2>1, Zenon DEF TextCase
  <2> QED BY <1>1, <1>2, <1>3, <1>12, <2>2, Zenon DEF ExactInv, Found
<1>13. CASE it.k # "partial" /\ it.k # "reserved" /\ ~ Broken(it)
  <2>1. Wellformed(e, t)
    BY <1>2, <1>13, ItemsAssumption, Zenon
  <2>2. In(e, t, 1, 0, <<>>, 0)
    BY <1>3, <2>1, InitIn, Zenon
  <2>3. Exact(e, t)
    BY <1>1, <1>9, <2>2, Zenon DEF Exact
  <2>4. Skips(e, t)
    BY <1>3, <1>6, <1>8, <2>1, <2>3, Zenon DEF Skips
  <2> QED BY <1>1, <1>2, <1>3, <1>13, <2>4, Zenon DEF ExactInv, Found
<1> QED BY <1>10, <1>11, <1>12, <1>13, Zenon

(* Every step keeps it.                                                    *)
LEMMA StepFound == ExactInv /\ [Next]_vars => ExactInv'
<1> SUFFICES ASSUME ExactInv, [Next]_vars PROVE ExactInv'
  OBVIOUS
<1>1. PICK x \in Inputs : Found(x.item, Bytes(x.item, x.form), Tree(x.item, x.form))
  BY Zenon DEF ExactInv
<1>2. PICK it, e, t : it = x.item /\ e = Bytes(x.item, x.form) /\ t = Tree(x.item, x.form)
  OBVIOUS
<1>3. Found(it, e, t)
  BY <1>1, <1>2, Zenon
<1>4. item' = item /\ size' = size /\ buf' = buf
  BY InputStays, Zenon
<1>5. SkipInv
  BY <1>3, Zenon DEF Found, PromiseCase, ReservedCase, TextCase, Skips
<1>6. SkipInv'
  BY <1>5, StepKeeps, Zenon
<1>7. Matches(e) => Matches(e)'
  BY <1>4, Zenon DEF Matches
<1>8. CASE UNCHANGED vars
  <2>1. /\ pos' = pos /\ nrounds' = nrounds /\ irounds' = irounds /\ stack' = stack
        /\ outcome' = outcome /\ alloc' = alloc
    BY <1>8, Zenon DEF vars
  <2>2. PromiseCase(e) => PromiseCase(e)'
    BY <1>4, <1>6, <1>7, <2>1, Zenon DEF PromiseCase, AtEnd
  <2>3. ReservedCase(e) => ReservedCase(e)'
    BY <1>4, <1>6, <1>7, <2>1, Zenon DEF ReservedCase
  <2>4. TextCase(e) => TextCase(e)'
    BY <1>4, <1>6, <1>7, <2>1, Zenon DEF TextCase
  <2>5. Exact(e, t) => Exact(e, t)'
    BY <1>4, <2>1, Zenon DEF Exact
  <2>6. Skips(e, t) => Skips(e, t)'
    BY <1>6, <1>7, <2>5, Zenon DEF Skips
  <2>7. Found(it, e, t)'
    BY <1>3, <1>4, <2>2, <2>3, <2>4, <2>6, Zenon DEF Found
  <2> QED BY <1>2, <2>7, Zenon DEF ExactInv
<1>9. CASE Next
  <2>1. /\ "EndOfInput" # "run" /\ "TypeMismatch" # "run" /\ "Utf8" # "run"
    OBVIOUS
  <2>2. PromiseCase(e) => PromiseCase(e)'
    <3> SUFFICES ASSUME PromiseCase(e) PROVE PromiseCase(e)'
      OBVIOUS
    <3>1. outcome' \in {"run", "EndOfInput"} /\ (outcome' = "run" => AtEnd(pos)')
      BY <1>9, PromiseStep, Zenon
    <3>2. Promise(e) /\ Matches(e)' /\ Len(buf') <= Len(e)
      BY <1>4, <1>7, Zenon DEF PromiseCase
    <3> QED BY <1>6, <3>1, <3>2, Zenon DEF PromiseCase
  <2>3. ReservedCase(e) => ReservedCase(e)'
    <3> SUFFICES ASSUME ReservedCase(e) PROVE ReservedCase(e)'
      OBVIOUS
    <3>1. outcome' \in {"EndOfInput", "TypeMismatch"} /\ (outcome' = "EndOfInput" => Len(buf) < Len(e))
      BY <1>9, ReservedStep, Zenon
    <3>2. Matches(e)' /\ \E m \in Majors : e = <<m + 28>>
      BY <1>7, Zenon DEF ReservedCase
    <3> QED BY <1>4, <1>6, <2>1, <3>1, <3>2, Zenon DEF ReservedCase
  <2>4. TextCase(e) => TextCase(e)'
    <3> SUFFICES ASSUME TextCase(e) PROVE TextCase(e)'
      OBVIOUS
    <3>1. outcome' \in {"EndOfInput", "Utf8"} /\ (outcome' = "EndOfInput" => Len(buf) < Len(e))
      BY <1>9, TextStep, Zenon
    <3>2. Matches(e)' /\ BadText(e)
      BY <1>7, Zenon DEF TextCase
    <3> QED BY <1>4, <1>6, <2>1, <3>1, <3>2, Zenon DEF TextCase
  <2>5. Skips(e, t) => Skips(e, t)'
    <3> SUFFICES ASSUME Skips(e, t) PROVE Skips(e, t)'
      OBVIOUS
    <3>1. Exact(e, t)'
      BY <1>9, EndExact, ScalarExact, StringExact, SizedExact, OpenExact, TagExact, BreakExact,
         UnknownNever, Zenon DEF Next
    <3>2. Matches(e)' /\ Wellformed(e, t) /\ Len(e) < Cap
      BY <1>7, Zenon DEF Skips
    <3> QED BY <1>6, <3>1, <3>2, Zenon DEF Skips
  <2>6. Found(it, e, t)'
    BY <1>3, <1>4, <2>2, <2>3, <2>4, <2>5, Zenon DEF Found
  <2> QED BY <1>2, <2>6, Zenon DEF ExactInv
<1> QED BY <1>8, <1>9, Zenon

(* Decoder::skip ends exactly behind the item it started at, for every     *)
(* well-formed item, any nesting and any widths; it reports the end of the *)
(* input exactly if the item is cut short, an error of its own only on a   *)
(* malformed one, and gives up only without "alloc".                       *)
THEOREM SkipsExactly == Spec => []SkipExact
<1>1. ExactInv => SkipExact
  <2> SUFFICES ASSUME ExactInv PROVE SkipExact
    OBVIOUS
  <2>1. PICK it, e, t : Found(it, e, t)
    BY Zenon DEF ExactInv
  <2>2. SkipInv /\ Matches(e)
    BY <2>1, Zenon DEF Found, PromiseCase, ReservedCase, TextCase, Skips
  <2>3. Len(e) \in Nat /\ Len(buf) \in Nat /\ pos \in 0 .. Len(buf) /\ Cap \in Nat /\ Len(e) < Cap
    <3>1. e \in Seq(Byte) /\ buf \in Seq(Byte) /\ pos \in 0 .. Len(buf)
      BY <2>2, Zenon DEF Matches, SkipInv, TypeOK
    <3> QED BY <2>1, <3>1, LenProperties, CapType DEF Found
  <2>4. /\ "run" # "ok" /\ "run" # "EndOfInput" /\ "run" # "Message" /\ "ok" # "EndOfInput"
        /\ "ok" # "Message" /\ "EndOfInput" # "Message" /\ "TypeMismatch" # "run"
        /\ "TypeMismatch" # "ok" /\ "TypeMismatch" # "EndOfInput" /\ "TypeMismatch" # "Message"
        /\ "Utf8" # "run" /\ "Utf8" # "ok" /\ "Utf8" # "EndOfInput" /\ "Utf8" # "Message"
    OBVIOUS
  <2>5. Malformed = Broken(it)
    BY <2>1, Zenon DEF Found, Malformed
  <2>6. CASE it.k = "partial"
    <3>1. PromiseCase(e) /\ size = Cap
      BY <2>1, <2>6, Zenon DEF Found
    <3>2. Len(buf) < size
      BY <2>3, <3>1 DEF PromiseCase
    <3>3. outcome \in {"run", "EndOfInput"} /\ Truncated
      BY <3>1, <3>2, Zenon DEF PromiseCase, Truncated
    <3> QED BY <2>4, <3>3, Zenon DEF SkipExact
  <2>7. CASE it.k # "partial" /\ it.k = "reserved"
    <3>1. ReservedCase(e) /\ size = Len(e)
      BY <2>1, <2>7, Zenon DEF Found
    <3>2. Malformed
      BY <2>5, <2>7, Zenon DEF Broken
    <3>3. /\ outcome \in {"run", "EndOfInput", "TypeMismatch"}
          /\ outcome = "EndOfInput" => Truncated
      BY <3>1, Zenon DEF ReservedCase, Truncated
    <3> QED BY <2>4, <3>2, <3>3, Zenon DEF SkipExact
  <2>8. CASE it.k # "partial" /\ it.k # "reserved" /\ Broken(it)
    <3>1. TextCase(e) /\ size = Len(e)
      BY <2>1, <2>8, Zenon DEF Found
    <3>2. outcome \in {"run", "EndOfInput", "Utf8"} /\ (outcome = "EndOfInput" => Truncated)
      BY <3>1, Zenon DEF TextCase, Truncated
    <3> QED BY <2>4, <2>5, <2>8, <3>2, Zenon DEF SkipExact
  <2>9. CASE it.k # "partial" /\ it.k # "reserved" /\ ~ Broken(it)
    <3>1. Skips(e, t) /\ size = Len(e)
      BY <2>1, <2>9, Zenon DEF Found
    <3>2. Exact(e, t)
      BY <3>1, Zenon DEF Skips
    <3>3. outcome \in {"run", "ok", "EndOfInput", "TypeMismatch", "Utf8", "Message"}
      BY <2>2, Zenon DEF SkipInv, TypeOK
    <3>4. CASE outcome = "ok"
      <4>1. pos = size
        BY <3>1, <3>2, <3>4, Zenon DEF Exact
      <4>2. ~ (Len(buf) < size)
        BY <2>3, <4>1
      <4> QED BY <2>4, <2>5, <2>9, <3>4, <4>1, <4>2, Zenon DEF SkipExact, Truncated
    <3>5. CASE outcome = "EndOfInput"
      <4>1. Truncated
        BY <3>1, <3>2, <3>5, Zenon DEF Exact, Truncated
      <4> QED BY <2>4, <3>5, <4>1, Zenon DEF SkipExact
    <3>6. CASE outcome = "Message"
      <4>1. ~ alloc
        BY <3>2, <3>6, Zenon DEF Exact
      <4> QED BY <2>4, <3>6, <4>1, Zenon DEF SkipExact
    <3>7. CASE outcome = "run"
      BY <2>4, <3>7, Zenon DEF SkipExact
    <3> QED BY <3>2, <3>3, <3>4, <3>5, <3>6, <3>7, Zenon DEF Exact
  <2> QED BY <2>6, <2>7, <2>8, <2>9, Zenon
<1> QED BY <1>1, InitFound, StepFound, PTL DEF Spec
=============================================================================
