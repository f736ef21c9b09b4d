--------------------------- MODULE FramingProofs ----------------------------
(***************************************************************************)
(* The buffers of minicbor-io stay within their bounds, and what a reader  *)
(* gets is what a writer sent: Framing implements the steps of FrameQueue, *)
(* and the end of the stream at a boundary of frames means that all was    *)
(* read.                                                                   *)
(***************************************************************************)
EXTENDS Framing, SequenceTheorems, TLAPS

(* The type invariant, with the reader's state as the record it is.        *)
Typed ==
  /\ TypeOK
  /\ broken \in BOOLEAN
  /\ rstate \in [need : Nat \union {None}, buf : Seq(Bytes)]
  /\ mode \in {"async", "sync"}

(* The bytes of a prefix, for any length that a writer accepts. *)
LEMMA PrefixType ==
  ASSUME NEW n \in 0 .. WriterMax
  PROVE  to_be_bytes(n) \in Seq(Bytes) /\ Len(to_be_bytes(n)) = PrefixLen
<1>1. to_be_bytes(n) \in [1 .. PrefixLen -> Bytes] /\ PrefixLen \in Nat
  BY PrefixAssumption, ConstantsAssumption
<1>. QED  BY <1>1

(* What a writer does keeps the types: a resized buffer is one of bytes,   *)
(* and sync takes no more than the buffer and the stream hold.             *)
LEMMA WriterTyped == ASSUME Typed, WriterStep PROVE Typed'
<1>0. /\ PrefixLen \in Nat \ {0} /\ PipeCap \in Nat /\ WriterMax \in Nat /\ Base \in Nat \ {0, 1}
      /\ pipe \in Seq(Bytes) /\ wbuf \in Seq(Bytes) /\ Len(pipe) \in Nat /\ Len(wbuf) \in Nat
      /\ Len(pipe) <= PipeCap
  BY ConstantsAssumption, LenProperties DEF Typed, TypeOK
<1>1. ASSUME NEW v \in Values, Write(v) PROVE Typed'
  <2>1. v \in Seq(Bytes) /\ Len(v) \in 0 .. WriterMax
    BY <1>0, <1>1, ConstantsAssumption, LenProperties DEF Write, Bytes
  <2>2. wbuf' \in Seq(Bytes)
    BY <1>1, <2>1, PrefixType, ConcatProperties DEF Write
  <2>3. Len(wbuf') \in Nat
    BY <2>2, LenProperties
  <2>. QED  BY <1>1, <2>2, <2>3 DEF Write, Encoding, reader, Typed, TypeOK, Wanted, None
<1>2. ASSUME NEW v \in Values, WriteRefused(v) PROVE Typed'
  <2>1. v \in Seq(Bytes)
    BY ConstantsAssumption DEF Bytes
  <2>2. Resized \in Seq(Bytes)
    <3>1. \A i \in 1 .. PrefixLen : (IF i <= Len(wbuf) THEN wbuf[i] ELSE 0) \in Bytes
      BY <1>0 DEF Bytes
    <3>. QED  BY <1>0, <3>1 DEF Resized
  <2>3. wbuf' \in Seq(Bytes)
    BY <1>2, <2>1, <2>2, ConcatProperties DEF WriteRefused
  <2>4. Len(wbuf') \in Nat
    BY <2>3, LenProperties
  <2>5. ~ broken' => wstate' <= Len(wbuf')
    <3>1. ~ broken' => wstate' = None
      BY <1>2, Zenon DEF WriteRefused
    <3>. QED  BY <2>4, <3>1 DEF None
  <2>6. broken' \in BOOLEAN
    BY <1>2 DEF WriteRefused
  <2>. QED  BY <1>2, <2>3, <2>5, <2>6 DEF WriteRefused, Encoding, reader, Typed, TypeOK, Wanted, None
<1>3. CASE SyncStep
  <2>1. PICK n \in 1 .. Least(Len(wbuf) - wstate, PipeCap - Len(pipe)) :
          /\ pipe' = pipe \o SubSeq(wbuf, wstate + 1, wstate + n)
          /\ wstate' = wstate + n
    BY <1>3 DEF SyncStep
  <2>2. wstate \in Nat
    BY <1>3 DEF SyncStep, Typed, TypeOK
  <2>3. n \in Nat /\ n <= Len(wbuf) - wstate /\ n <= PipeCap - Len(pipe)
    BY <1>0, <2>1, <2>2 DEF Least
  <2>4. /\ SubSeq(wbuf, wstate + 1, wstate + n) \in Seq(Bytes)
        /\ Len(SubSeq(wbuf, wstate + 1, wstate + n)) = n
    BY <1>0, <2>2, <2>3
  <2>5. pipe' \in Seq(Bytes) /\ Len(pipe') = Len(pipe) + n
    BY <1>0, <2>1, <2>4, ConcatProperties
  <2>6. Len(pipe') <= PipeCap /\ wstate' \in Nat /\ wstate' <= Len(wbuf)
    BY <1>0, <2>1, <2>2, <2>3, <2>5
  <2>. QED  BY <1>3, <2>5, <2>6 DEF SyncStep, reader, Typed, TypeOK, Wanted, None
<1>4. CASE SyncDone \/ WriteError \/ CancelWrite \/ Sync \/ Close
  <2>0. broken => broken'
    <3>1. CASE WriteError
      BY <3>1 DEF WriteError
    <3>2. CASE SyncDone \/ CancelWrite \/ Sync \/ Close
      BY <3>2 DEF SyncDone, CancelWrite, Sync, Close
    <3>. QED  BY <1>4, <3>1, <3>2
  <2>1. /\ UNCHANGED <<mode, pipe, wbuf, rcall, rstate>>
        /\ wstate' = wstate \/ wstate' = None
    BY <1>4 DEF SyncDone, WriteError, CancelWrite, Sync, Close, writer, reader
  <2>2. wstate' \in Nat \union {None} /\ (~ broken' => wstate' <= Len(wbuf'))
    BY <1>0, <2>0, <2>1 DEF Typed, TypeOK, None
  <2>3. wcall' \in BOOLEAN /\ closed' \in BOOLEAN /\ broken' \in BOOLEAN
    <3>1. wcall \in BOOLEAN /\ closed \in BOOLEAN /\ broken \in BOOLEAN
      BY DEF Typed, TypeOK
    <3>2. wcall' = wcall \/ wcall' = FALSE \/ wcall' = TRUE
      BY <1>4 DEF SyncDone, WriteError, CancelWrite, Sync, Close, writer
    <3>3. closed' = closed \/ closed' = TRUE
      BY <1>4 DEF SyncDone, WriteError, CancelWrite, Sync, Close
    <3>4. broken' \in BOOLEAN
      <4>1. CASE WriteError
        BY <4>1 DEF WriteError
      <4>2. CASE SyncDone \/ CancelWrite \/ Sync \/ Close
        BY <3>1, <4>2 DEF SyncDone, CancelWrite, Sync, Close
      <4>. QED  BY <1>4, <4>1, <4>2
    <3>. QED  BY <3>1, <3>2, <3>3, <3>4, Zenon
  <2>. QED  BY <2>1, <2>2, <2>3 DEF Typed, TypeOK, Wanted
<1>. QED  BY <1>1, <1>2, <1>3, <1>4 DEF WriterStep

(* What a reader does keeps the types: it never takes more than it wants.  *)
LEMMA ReaderTyped == ASSUME Typed, ReaderStep PROVE Typed'
<1>0. /\ PrefixLen \in Nat \ {0} /\ PipeCap \in Nat
      /\ pipe \in Seq(Bytes) /\ Len(pipe) \in Nat /\ Len(pipe) <= PipeCap
      /\ rstate \in [need : Nat \union {None}, buf : Seq(Bytes)]
      /\ rstate.buf \in Seq(Bytes) /\ Len(rstate.buf) \in Nat /\ Wanted \in Nat
  <2>1. /\ PrefixLen \in Nat \ {0} /\ PipeCap \in Nat
        /\ pipe \in Seq(Bytes) /\ Len(pipe) \in Nat /\ Len(pipe) <= PipeCap
        /\ rstate \in [need : Nat \union {None}, buf : Seq(Bytes)]
        /\ Wanted >= 0
    BY ConstantsAssumption, LenProperties DEF Typed, TypeOK
  <2>2. rstate.buf \in Seq(Bytes) /\ Len(rstate.buf) \in Nat
    BY <2>1, LenProperties
  <2>. QED  BY <2>1, <2>2 DEF Wanted, None
<1>1. NewRead \in [need : Nat \union {None}, buf : Seq(Bytes)] /\ Len(NewRead.buf) = 0
      /\ NewRead.need = None
  BY DEF NewRead
<1>2. CASE ReadStart \/ CancelRead
  BY <1>2 DEF ReadStart, CancelRead, writer, Typed, TypeOK, Wanted, None
<1>3. CASE ReadStep
  <2>1. PICK n \in 1 .. Least(Wanted, Len(pipe)) :
          /\ rstate' = [rstate EXCEPT !.buf = @ \o SubSeq(pipe, 1, n)]
          /\ pipe' = SubSeq(pipe, n + 1, Len(pipe))
    BY <1>3 DEF ReadStep
  <2>2. n \in Nat /\ n <= Wanted /\ n <= Len(pipe)
    BY <1>0, <2>1 DEF Least
  <2>3. SubSeq(pipe, 1, n) \in Seq(Bytes) /\ Len(SubSeq(pipe, 1, n)) = n
    BY <1>0, <2>2
  <2>4. pipe' \in Seq(Bytes) /\ Len(pipe') = Len(pipe) - n
    <3>1. n + 1 \in 1 .. (Len(pipe) + 1) /\ Len(pipe) \in n .. Len(pipe)
      BY <1>0, <2>2
    <3>2. /\ SubSeq(pipe, n + 1, Len(pipe)) \in Seq(Bytes)
          /\ Len(SubSeq(pipe, n + 1, Len(pipe))) =
               IF n + 1 <= Len(pipe) THEN Len(pipe) - (n + 1) + 1 ELSE 0
      BY <1>0, <2>2, <3>1, SubSeqProperties
    <3>. QED  BY <1>0, <2>1, <2>2, <3>2
  <2>5. /\ rstate.buf \o SubSeq(pipe, 1, n) \in Seq(Bytes)
        /\ Len(rstate.buf \o SubSeq(pipe, 1, n)) = Len(rstate.buf) + n
    BY <1>0, <2>3, ConcatProperties
  <2>6. /\ rstate' \in [need : Nat \union {None}, buf : Seq(Bytes)]
        /\ rstate'.need = rstate.need /\ Len(rstate'.buf) = Len(rstate.buf) + n
    BY <1>0, <2>1, <2>5
  <2>7. Wanted' = Wanted - n
    BY <1>0, <2>2, <2>6 DEF Wanted, None
  <2>8. Len(pipe') <= PipeCap /\ Wanted' >= 0
    BY <1>0, <2>2, <2>4, <2>7
  <2>. QED  BY <1>3, <2>4, <2>6, <2>8 DEF ReadStep, writer, Typed, TypeOK, None
<1>4. CASE LenDone
  <2>1. rstate.buf \in [1 .. PrefixLen -> Bytes]
    BY <1>0, <1>4 DEF LenDone, Wanted, None
  <2>2. from_be_bytes(rstate.buf) \in Nat
    BY <2>1, PrefixAssumption
  <2>3. /\ rstate' \in [need : Nat \union {None}, buf : Seq(Bytes)]
        /\ rstate'.need = from_be_bytes(rstate.buf) /\ Len(rstate'.buf) = 0
    BY <1>4, <2>2 DEF LenDone
  <2>4. Wanted' >= 0
    BY <2>2, <2>3 DEF Wanted, None
  <2>. QED  BY <1>4, <2>3, <2>4 DEF LenDone, writer, Typed, TypeOK, None
<1>5. CASE LenRefused \/ ReadDone \/ ReadEof \/ ReadError
  <2>1. rstate' = rstate \/ rstate' = NewRead
    BY <1>5 DEF LenRefused, ReadDone, ReadEof, ReadError, Reading
  <2>2. rstate' \in [need : Nat \union {None}, buf : Seq(Bytes)] /\ Wanted' >= 0
    BY <1>0, <1>1, <2>1 DEF Wanted, None
  <2>. QED  BY <1>5, <2>2 DEF LenRefused, ReadDone, ReadEof, ReadError, ReadReturns, writer,
                              Typed, TypeOK, None
<1>. QED  BY <1>2, <1>3, <1>4, <1>5 DEF ReaderStep

LEMMA InitTyped == Init => Typed
<1>. SUFFICES ASSUME Init PROVE Typed
  OBVIOUS
<1>1. rstate \in [need : Nat \union {None}, buf : Seq(Bytes)] /\ Wanted >= 0
  <2>1. rstate = [need |-> -1, buf |-> <<>>]
    BY DEF Init, NewRead, None
  <2>2. rstate.need = -1 /\ rstate.buf = <<>> /\ Len(rstate.buf) = 0
    BY <2>1
  <2>. QED  BY <2>1, <2>2, ConstantsAssumption DEF Wanted, None
<1>2. closed \in BOOLEAN /\ wcall \in BOOLEAN /\ rcall \in BOOLEAN /\ broken \in BOOLEAN
  BY Zenon DEF Init
<1>3. pipe \in Seq(Bytes) /\ wbuf \in Seq(Bytes) /\ Len(pipe) = 0 /\ Len(wbuf) = 0
  <2>1. pipe = <<>> /\ wbuf = <<>>
    BY Zenon DEF Init
  <2>. QED  BY <2>1, EmptySeq
<1>4. wstate = -1 /\ mode \in {"async", "sync"}
  BY ConstantsAssumption DEF Init, None
<1>. QED  BY <1>1, <1>2, <1>3, <1>4, ConstantsAssumption DEF Typed, TypeOK, None

LEMMA StepTyped == Typed /\ [Next]_vars => Typed'
<1>1. ASSUME Typed, UNCHANGED vars PROVE Typed'
  BY <1>1 DEF vars, writer, reader, Typed, TypeOK, Wanted
<1>. QED  BY <1>1, WriterTyped, ReaderTyped DEF Next

(* Whatever the stream does and whatever is cancelled, the offsets stay    *)
(* inside the buffers and a reader never holds more than it asked for.     *)
THEOREM FramingTyped == Spec => []TypeOK
<1>1. Typed => TypeOK
  BY DEF Typed
<1>. QED  BY <1>1, InitTyped, StepTyped, PTL DEF Spec

-----------------------------------------------------------------------------
(***************************************************************************)
(* What arrives.  The bytes written so far are a tape T, cut into the      *)
(* frames of the values sent and the part of a frame that is under way;    *)
(* what the reader holds and what the stream holds continue it from the    *)
(* last cut that was read.                                                 *)
(***************************************************************************)
Frame(v) == to_be_bytes(Len(v)) \o v

Cuts(T, cut, vs) ==
  /\ cut[0] = 0
  /\ \A i \in 0 .. Len(vs) : cut[i] <= cut[Len(vs)]
  /\ \A i \in 1 .. Len(vs) :
       /\ cut[i] = cut[i - 1] + PrefixLen + Len(vs[i])
       /\ \A k \in 1 .. (PrefixLen + Len(vs[i])) : T[cut[i - 1] + k] = Frame(vs[i])[k]

Part(ws, wb) == IF ws > 0 /\ ws < Len(wb) THEN ws ELSE 0

WritingAt(T, c, ws, wb) ==    \* the writer, its frame begun at c
  /\ ws # None => \E v \in Values : Len(v) <= WriterMax /\ wb = Frame(v)
  /\ Len(T) = c + Part(ws, wb)
  /\ \A k \in 1 .. Part(ws, wb) : T[c + k] = wb[k]

Held(rs) == IF rs.need = None THEN Len(rs.buf) ELSE PrefixLen + Len(rs.buf)

ReadingAt(T, c, rs, p) ==     \* the reader, its frame begun at c
  /\ c + Held(rs) + Len(p) = Len(T)
  /\ \A k \in 1 .. Len(p) : p[k] = T[c + Held(rs) + k]
  /\ rs.need = None => \A k \in 1 .. Len(rs.buf) : rs.buf[k] = T[c + k]
  /\ rs.need # None =>
       /\ rs.need = from_be_bytes([k \in 1 .. PrefixLen |-> T[c + k]])
       /\ \A k \in 1 .. Len(rs.buf) : rs.buf[k] = T[c + PrefixLen + k]

ReadState == [need : Nat \union {None}, buf : Seq(Bytes)]

(* A frame is a prefix, from which the length is read back, and the value. *)
LEMMA FrameProperties ==
  ASSUME NEW v \in Values, Len(v) <= WriterMax
  PROVE  /\ v \in Seq(Bytes) /\ Len(v) \in Nat
         /\ Frame(v) \in Seq(Bytes) /\ Len(Frame(v)) = PrefixLen + Len(v)
         /\ \A k \in 1 .. Len(v) : Frame(v)[PrefixLen + k] = v[k]
         /\ from_be_bytes([k \in 1 .. PrefixLen |-> Frame(v)[k]]) = Len(v)
         /\ Payload(Frame(v)) = v
<1>0. PrefixLen \in Nat \ {0} /\ WriterMax \in Nat
  BY ConstantsAssumption
<1>1. v \in Seq(Bytes) /\ Len(v) \in 0 .. WriterMax /\ Len(v) \in Nat
  BY <1>0, ConstantsAssumption, LenProperties DEF Bytes
<1>. DEFINE b == to_be_bytes(Len(v))
<1>2. b \in Seq(Bytes) /\ Len(b) = PrefixLen
  BY <1>1, PrefixType
<1>3. b \in [1 .. PrefixLen -> Bytes] /\ from_be_bytes(b) = Len(v)
  BY <1>1, PrefixAssumption
<1>. HIDE DEF b
<1>4. /\ b \o v \in Seq(Bytes) /\ Len(b \o v) = PrefixLen + Len(v)
      /\ \A k \in 1 .. (PrefixLen + Len(v)) :
           (b \o v)[k] = IF k <= PrefixLen THEN b[k] ELSE v[k - PrefixLen]
  BY <1>1, <1>2, ConcatProperties
<1>. DEFINE f == b \o v
<1>. HIDE DEF f
<1>5. /\ f \in Seq(Bytes) /\ Len(f) = PrefixLen + Len(v)
      /\ \A k \in 1 .. PrefixLen : f[k] = b[k]
      /\ \A k \in 1 .. Len(v) : f[PrefixLen + k] = v[k]
  BY <1>0, <1>1, <1>4 DEF f
<1>6. [k \in 1 .. PrefixLen |-> f[k]] = b
  BY <1>3, <1>5
<1>7. SubSeq(f, PrefixLen + 1, Len(f)) = v
  <2>. DEFINE s == SubSeq(f, PrefixLen + 1, Len(f))
  <2>1. \A k \in (PrefixLen + 1) .. Len(f) : f[k] \in Bytes
    BY <1>0, <1>5, ElementOfSeq
  <2>2. /\ s \in Seq(Bytes)
        /\ Len(s) = IF PrefixLen + 1 <= Len(f) THEN Len(f) - (PrefixLen + 1) + 1 ELSE 0
        /\ \A k \in 1 .. (Len(f) - (PrefixLen + 1) + 1) : s[k] = f[PrefixLen + 1 + k - 1]
    <3>1. PrefixLen + 1 \in Int /\ Len(f) \in Int
      BY <1>0, <1>1, <1>5
    <3>. QED  BY <2>1, <3>1, SubSeqProperties
  <2>. HIDE DEF s
  <2>3. Len(s) = Len(v) /\ \A k \in 1 .. Len(v) : s[k] = v[k]
    <3>1. Len(s) = Len(v)
      BY <1>0, <1>1, <1>5, <2>2
    <3>2. ASSUME NEW k \in 1 .. Len(v) PROVE s[k] = v[k]
      <4>1. k \in 1 .. (Len(f) - (PrefixLen + 1) + 1) /\ PrefixLen + 1 + k - 1 = PrefixLen + k
        BY <1>0, <1>1, <1>5
      <4>. QED  BY <1>5, <2>2, <4>1
    <3>. QED  BY <3>1, <3>2
  <2>4. s = v
    BY <1>1, <2>2, <2>3, SeqEqual
  <2>. QED  BY <2>4 DEF s
<1>8. from_be_bytes([k \in 1 .. PrefixLen |-> f[k]]) = Len(v)
  BY <1>3, <1>6
<1>9. Frame(v) = f
  BY DEF Frame, f, b
<1>. QED  BY <1>1, <1>5, <1>7, <1>8, <1>9 DEF Payload

(* A frame of which the reader has as many bytes as its length says is the *)
(* next one that was sent.                                                 *)
HasRead(T, cut, vs, g, ws, wb, rs, p) ==
  /\ T \in Seq(Bytes) /\ vs \in Seq(Values) /\ cut \in [0 .. Len(vs) -> Nat]
  /\ ws \in Nat \union {None} /\ wb \in Seq(Bytes) /\ rs \in ReadState
  /\ p \in Seq(Bytes) /\ g \in 0 .. Len(vs)
  /\ \A i \in 1 .. Len(vs) : Len(vs[i]) <= WriterMax
  /\ Cuts(T, cut, vs) /\ WritingAt(T, cut[Len(vs)], ws, wb) /\ ReadingAt(T, cut[g], rs, p)
  /\ rs.need # None /\ Len(rs.buf) = rs.need

LEMMA NextFrame ==
  ASSUME NEW T, NEW cut, NEW vs, NEW g, NEW ws, NEW wb, NEW rs, NEW p,
         HasRead(T, cut, vs, g, ws, wb, rs, p)
  PROVE  /\ g + 1 \in 1 .. Len(vs)
         /\ rs.buf = vs[g + 1]
         /\ cut[g + 1] = cut[g] + Held(rs)
<1>9. /\ T \in Seq(Bytes) /\ vs \in Seq(Values) /\ cut \in [0 .. Len(vs) -> Nat]
      /\ ws \in Nat \union {None} /\ wb \in Seq(Bytes) /\ rs \in ReadState
      /\ p \in Seq(Bytes) /\ g \in 0 .. Len(vs)
      /\ \A i \in 1 .. Len(vs) : Len(vs[i]) <= WriterMax
      /\ Cuts(T, cut, vs) /\ WritingAt(T, cut[Len(vs)], ws, wb) /\ ReadingAt(T, cut[g], rs, p)
      /\ rs.need # None /\ Len(rs.buf) = rs.need
  BY DEF HasRead
<1>. USE <1>9
<1>. DEFINE c == cut[g]
            pre == [k \in 1 .. PrefixLen |-> T[c + k]]
<1>0. /\ PrefixLen \in Nat \ {0} /\ c \in Nat /\ Len(T) \in Nat /\ Len(p) \in Nat
      /\ rs.buf \in Seq(Bytes) /\ Len(rs.buf) \in Nat /\ Len(vs) \in Nat
  BY ConstantsAssumption, LenProperties DEF ReadState
<1>1. /\ c + PrefixLen + Len(rs.buf) + Len(p) = Len(T)
      /\ Len(rs.buf) = from_be_bytes(pre)
      /\ \A k \in 1 .. Len(rs.buf) : rs.buf[k] = T[c + PrefixLen + k]
      /\ Held(rs) = PrefixLen + Len(rs.buf)
  BY <1>0, SMTT(30) DEF ReadingAt, Held
<1>2. CASE g = Len(vs)
  <2>1. PICK q \in Nat : q = Part(ws, wb)
    BY DEF Part
  <2>2. Len(T) = c + q /\ \A k \in 1 .. q : T[c + k] = wb[k]
    BY <1>2, <2>1 DEF WritingAt
  <2>3. q > 0 /\ PrefixLen <= q /\ PrefixLen + Len(rs.buf) <= q
    BY <1>0, <1>1, <2>2, SMTT(30)
  <2>4. ws # None /\ q < Len(wb)
    BY <2>1, <2>3 DEF Part, None
  <2>5. PICK v \in Values : Len(v) <= WriterMax /\ wb = Frame(v)
    BY <2>4 DEF WritingAt
  <2>6. pre = [k \in 1 .. PrefixLen |-> Frame(v)[k]]
    BY <1>0, <2>2, <2>3, <2>5
  <2>7. Len(rs.buf) = Len(v) /\ Len(wb) = PrefixLen + Len(v) /\ Len(v) \in Nat
    BY <1>1, <2>5, <2>6, FrameProperties
  <2>. QED  BY <1>0, <2>3, <2>4, <2>7
<1>3. CASE g # Len(vs)
  <2>1. g + 1 \in 1 .. Len(vs) /\ (g + 1) - 1 = g
    BY <1>0, <1>3
  <2>. DEFINE v == vs[g + 1]
  <2>2. v \in Values /\ Len(v) <= WriterMax
    BY <2>1, ElementOfSeq
  <2>3. /\ cut[g + 1] = c + PrefixLen + Len(v)
        /\ \A k \in 1 .. (PrefixLen + Len(v)) : T[c + k] = Frame(v)[k]
    BY <2>1 DEF Cuts
  <2>. HIDE DEF v
  <2>4. /\ v \in Seq(Bytes) /\ Len(v) \in Nat
        /\ \A k \in 1 .. Len(v) : Frame(v)[PrefixLen + k] = v[k]
        /\ from_be_bytes([k \in 1 .. PrefixLen |-> Frame(v)[k]]) = Len(v)
    BY <2>2, FrameProperties
  <2>5. pre = [k \in 1 .. PrefixLen |-> Frame(v)[k]]
    BY <1>0, <2>3, <2>4
  <2>6. Len(rs.buf) = Len(v)
    BY <1>1, <2>4, <2>5
  <2>7. \A k \in 1 .. Len(v) : rs.buf[k] = v[k]
    <3>. SUFFICES ASSUME NEW k \in 1 .. Len(v) PROVE rs.buf[k] = v[k]
      OBVIOUS
    <3>1. PrefixLen + k \in 1 .. (PrefixLen + Len(v)) /\ c + PrefixLen + k = c + (PrefixLen + k)
      BY <1>0, <2>4
    <3>. QED  BY <1>1, <2>3, <2>4, <2>6, <3>1
  <2>8. rs.buf = v
    BY <1>0, <2>4, <2>6, <2>7, SeqEqual
  <2>9. cut[g + 1] = c + Held(rs)
    <3>1. Held(rs) = PrefixLen + Len(v)
      BY <1>1, <2>6
    <3>2. c + (PrefixLen + Len(v)) = c + PrefixLen + Len(v)
      BY <1>0, <2>4
    <3>. QED  BY <2>3, <3>1, <3>2
  <2>. QED  BY <2>1, <2>8, <2>9 DEF v
<1>. QED  BY <1>2, <1>3

(* The reader takes n bytes off the stream. *)
LEMMA TakeBytes ==
  ASSUME NEW T \in Seq(Bytes), NEW c \in Nat, NEW rs \in ReadState, NEW p \in Seq(Bytes),
         NEW n \in 1 .. Len(p), ReadingAt(T, c, rs, p)
  PROVE  ReadingAt(T, c, [rs EXCEPT !.buf = @ \o SubSeq(p, 1, n)],
                   SubSeq(p, n + 1, Len(p)))
<1>. DEFINE a  == SubSeq(p, 1, n)
            p2 == SubSeq(p, n + 1, Len(p))
            b2 == rs.buf \o a
            r2 == [rs EXCEPT !.buf = b2]
<1>0. /\ PrefixLen \in Nat \ {0} /\ Len(T) \in Nat /\ Len(p) \in Nat /\ n \in Nat
      /\ rs.buf \in Seq(Bytes) /\ Len(rs.buf) \in Nat /\ Held(rs) \in Nat /\ n <= Len(p)
  BY ConstantsAssumption, LenProperties DEF ReadState, Held
<1>1. a \in Seq(Bytes) /\ Len(a) = n /\ \A k \in 1 .. n : a[k] = p[k]
  BY <1>0
<1>2. p2 \in Seq(Bytes) /\ Len(p2) = Len(p) - n /\ \A k \in 1 .. (Len(p) - n) : p2[k] = p[n + k]
  <2>1. \A i \in (n + 1) .. Len(p) : p[i] \in Bytes
    BY <1>0, ElementOfSeq
  <2>2. /\ p2 \in Seq(Bytes)
        /\ Len(p2) = IF n + 1 <= Len(p) THEN Len(p) - (n + 1) + 1 ELSE 0
        /\ \A k \in 1 .. (Len(p) - (n + 1) + 1) : p2[k] = p[n + 1 + k - 1]
    <3>1. n + 1 \in Int /\ Len(p) \in Int
      BY <1>0
    <3>. QED  BY <2>1, <3>1, SubSeqProperties
  <2>. HIDE DEF p2
  <2>3. Len(p2) = Len(p) - n
    BY <1>0, <2>2
  <2>4. ASSUME NEW k \in 1 .. (Len(p) - n) PROVE p2[k] = p[n + k]
    <3>1. k \in 1 .. (Len(p) - (n + 1) + 1) /\ n + 1 + k - 1 = n + k
      BY <1>0
    <3>. QED  BY <2>2, <3>1
  <2>. QED  BY <2>2, <2>3, <2>4
<1>. HIDE DEF a, p2
<1>3. /\ b2 \in Seq(Bytes) /\ Len(b2) = Len(rs.buf) + n
      /\ \A k \in 1 .. (Len(rs.buf) + n) :
           b2[k] = IF k <= Len(rs.buf) THEN rs.buf[k] ELSE a[k - Len(rs.buf)]
  <2>1. PICK x \in Seq(Bytes), y \in Seq(Bytes) : x = rs.buf /\ y = a
    BY <1>0, <1>1
  <2>2. /\ x \o y \in Seq(Bytes) /\ Len(x \o y) = Len(x) + Len(y)
        /\ \A k \in 1 .. (Len(x) + Len(y)) :
             (x \o y)[k] = IF k <= Len(x) THEN x[k] ELSE y[k - Len(x)]
    BY ConcatProperties
  <2>3. Len(y) = n
    BY <1>1, <2>1
  <2>. QED  BY <2>1, <2>2, <2>3
<1>. HIDE DEF b2
<1>4. r2.need = rs.need /\ r2.buf = b2
  BY DEF ReadState
<1>5. r2 = [rs EXCEPT !.buf = @ \o a]
  BY DEF b2
<1>. HIDE DEF r2
<1>6. Held(r2) = Held(rs) + n
  <2>1. CASE rs.need = None
    BY <1>0, <1>3, <1>4, <2>1 DEF Held
  <2>2. CASE rs.need # None
    <3>1. Held(r2) = PrefixLen + (Len(rs.buf) + n) /\ Held(rs) = PrefixLen + Len(rs.buf)
      BY <1>3, <1>4, <2>2 DEF Held
    <3>. QED  BY <1>0, <3>1
  <2>. QED  BY <2>1, <2>2
<1>7. c + Held(rs) + Len(p) = Len(T) /\ \A k \in 1 .. Len(p) : p[k] = T[c + Held(rs) + k]
  BY DEF ReadingAt
<1>8. c + Held(r2) + Len(p2) = Len(T)
  BY <1>0, <1>2, <1>6, <1>7
<1>9. \A k \in 1 .. Len(p2) : p2[k] = T[c + Held(r2) + k]
  <2>. SUFFICES ASSUME NEW k \in 1 .. Len(p2) PROVE p2[k] = T[c + Held(r2) + k]
    OBVIOUS
  <2>1. n + k \in 1 .. Len(p) /\ c + Held(r2) + k = c + Held(rs) + (n + k)
    BY <1>0, <1>2, <1>6
  <2>. QED  BY <1>2, <1>7, <2>1
<1>10. ASSUME NEW d \in Nat, Held(rs) = d + Len(rs.buf),
              \A k \in 1 .. Len(rs.buf) : rs.buf[k] = T[c + d + k]
       PROVE  \A k \in 1 .. Len(b2) : b2[k] = T[c + d + k]
  <2>. SUFFICES ASSUME NEW k \in 1 .. Len(b2) PROVE b2[k] = T[c + d + k]
    OBVIOUS
  <2>1. CASE k <= Len(rs.buf)
    BY <1>0, <1>3, <1>10, <2>1
  <2>2. CASE ~ (k <= Len(rs.buf))
    <3>1. /\ k - Len(rs.buf) \in 1 .. n /\ k - Len(rs.buf) \in 1 .. Len(p)
          /\ c + Held(rs) + (k - Len(rs.buf)) = c + d + k
      <4>1. PICK x \in Nat, h \in Nat, z \in Nat :
              x = Len(rs.buf) /\ h = Held(rs) /\ z = Len(p)
        BY <1>0
      <4>2. /\ h = d + x /\ k \in 1 .. (x + n) /\ ~ (k <= x) /\ n <= z
        BY <1>0, <1>3, <1>10, <2>2, <4>1
      <4>3. k - x \in 1 .. n /\ k - x \in 1 .. z /\ c + h + (k - x) = c + d + k
        BY <1>0, <4>2
      <4>. QED  BY <4>1, <4>3
    <3>. QED  BY <1>1, <1>3, <1>7, <2>2, <3>1
  <2>. QED  BY <2>1, <2>2
<1>11. CASE rs.need = None
  <2>1. \A k \in 1 .. Len(rs.buf) : rs.buf[k] = T[c + 0 + k]
    BY <1>0, <1>11 DEF ReadingAt
  <2>2. Held(rs) = 0 + Len(rs.buf)
    BY <1>0, <1>11 DEF Held
  <2>3. \A k \in 1 .. Len(b2) : b2[k] = T[c + 0 + k]
    BY <1>10, <2>1, <2>2
  <2>4. \A k \in 1 .. Len(b2) : b2[k] = T[c + k]
    BY <1>0, <2>3
  <2>. QED  BY <1>4, <1>5, <1>8, <1>9, <1>11, <2>4 DEF ReadingAt, a, p2
<1>12. CASE rs.need # None
  <2>1. /\ rs.need = from_be_bytes([k \in 1 .. PrefixLen |-> T[c + k]])
        /\ \A k \in 1 .. Len(rs.buf) : rs.buf[k] = T[c + PrefixLen + k]
    BY <1>12 DEF ReadingAt
  <2>2. Held(rs) = PrefixLen + Len(rs.buf)
    BY <1>12 DEF Held
  <2>3. \A k \in 1 .. Len(b2) : b2[k] = T[c + PrefixLen + k]
    BY <1>0, <1>10, <2>1, <2>2
  <2>. QED  BY <1>4, <1>5, <1>8, <1>9, <1>12, <2>1, <2>3 DEF ReadingAt, a, p2
<1>. QED  BY <1>11, <1>12

(* The reader has the length of a value. *)
LEMMA TakeLength ==
  ASSUME NEW T \in Seq(Bytes), NEW c \in Nat, NEW rs \in ReadState, NEW p \in Seq(Bytes),
         ReadingAt(T, c, rs, p), rs.need = None, Len(rs.buf) = PrefixLen
  PROVE  ReadingAt(T, c, [need |-> from_be_bytes(rs.buf), buf |-> <<>>], p)
<1>. DEFINE r2 == [need |-> from_be_bytes(rs.buf), buf |-> <<>>]
<1>0. /\ PrefixLen \in Nat \ {0} /\ rs.buf \in Seq(Bytes)
  BY ConstantsAssumption DEF ReadState
<1>1. rs.buf \in [1 .. PrefixLen -> Bytes]
  BY <1>0
<1>2. from_be_bytes(rs.buf) \in Nat
  BY <1>1, PrefixAssumption
<1>3. \A k \in 1 .. PrefixLen : rs.buf[k] = T[c + k]
  BY DEF ReadingAt
<1>4. rs.buf = [k \in 1 .. PrefixLen |-> T[c + k]]
  BY <1>1, <1>3
<1>5. r2.need = from_be_bytes(rs.buf) /\ r2.buf = <<>> /\ Len(r2.buf) = 0 /\ r2.need # None
  BY <1>2 DEF None
<1>6. Held(r2) = PrefixLen /\ Held(rs) = PrefixLen
  BY <1>0, <1>5 DEF Held
<1>. HIDE DEF r2
<1>7. /\ c + Held(r2) + Len(p) = Len(T)
      /\ \A k \in 1 .. Len(p) : p[k] = T[c + Held(r2) + k]
  BY <1>6 DEF ReadingAt
<1>8. r2.need = from_be_bytes([k \in 1 .. PrefixLen |-> T[c + k]])
  BY <1>4, <1>5
<1>9. ReadingAt(T, c, r2, p)
  BY <1>5, <1>7, <1>8 DEF ReadingAt
<1>. QED  BY <1>9 DEF r2

(* The reader has the value: it goes on at the next cut. *)
LEMMA TakeValue ==
  ASSUME NEW T \in Seq(Bytes), NEW c \in Nat, NEW d \in Nat, NEW rs \in ReadState,
         NEW p \in Seq(Bytes), ReadingAt(T, c, rs, p), d = c + Held(rs)
  PROVE  ReadingAt(T, d, NewRead, p)
<1>1. NewRead.need = None /\ Len(NewRead.buf) = 0
  BY DEF NewRead
<1>2. Held(NewRead) = 0 /\ d + 0 = d
  BY <1>1 DEF Held
<1>3. /\ d + Len(p) = Len(T)
      /\ \A k \in 1 .. Len(p) : p[k] = T[d + k]
  BY DEF ReadingAt
<1>4. /\ d + Held(NewRead) + Len(p) = Len(T)
      /\ \A k \in 1 .. Len(p) : p[k] = T[d + Held(NewRead) + k]
  BY <1>2, <1>3
<1>. QED  BY <1>1, <1>4 DEF ReadingAt

(* A reader at a cut, with nothing left in the stream, has read all. *)
LEMMA AtTheEnd ==
  ASSUME NEW T \in Seq(Bytes), NEW vs \in Seq(Values), NEW cut \in [0 .. Len(vs) -> Nat],
         NEW ws \in Nat \union {None}, NEW wb \in Seq(Bytes), NEW g \in 0 .. Len(vs),
         Cuts(T, cut, vs), WritingAt(T, cut[Len(vs)], ws, wb),
         ReadingAt(T, cut[g], NewRead, <<>>)
  PROVE  g = Len(vs)
<1>0. PrefixLen \in Nat \ {0} /\ Len(vs) \in Nat
  BY ConstantsAssumption, LenProperties
<1>1. NewRead.need = None /\ Len(NewRead.buf) = 0 /\ Len(<<>>) = 0
  BY DEF NewRead
<1>2. Held(NewRead) = 0
  BY <1>1 DEF Held
<1>3. cut[g] = Len(T)
  BY <1>1, <1>2, SMTT(30) DEF ReadingAt
<1>4. PICK q \in Nat : q = Part(ws, wb)
  BY DEF Part
<1>5. Len(T) = cut[Len(vs)] + q
  BY <1>4 DEF WritingAt
<1>. SUFFICES ASSUME g # Len(vs) PROVE FALSE
  OBVIOUS
<1>6. g + 1 \in 1 .. Len(vs) /\ (g + 1) - 1 = g /\ g + 1 \in 0 .. Len(vs)
  BY <1>0
<1>7. cut[g + 1] = cut[g] + PrefixLen + Len(vs[g + 1]) /\ cut[g + 1] <= cut[Len(vs)]
  BY <1>6 DEF Cuts
<1>8. vs[g + 1] \in Values
  BY <1>6, ElementOfSeq
<1>9. Len(vs[g + 1]) \in Nat
  BY <1>8, ConstantsAssumption, LenProperties
<1>10. PICK x \in Nat, y \in Nat, z \in Nat, m \in Nat :
         x = cut[g] /\ y = cut[Len(vs)] /\ z = cut[g + 1] /\ m = Len(vs[g + 1])
  <2>1. \A i \in 0 .. Len(vs) : cut[i] \in Nat
    OBVIOUS
  <2>2. Len(vs) \in 0 .. Len(vs)
    BY <1>0
  <2>3. cut[g] \in Nat /\ cut[Len(vs)] \in Nat
    BY <2>1, <2>2
  <2>4. cut[g + 1] \in Nat
    BY <1>6, <2>1
  <2>. QED  BY <1>9, <2>3, <2>4
<1>11. x = y + q /\ z = x + PrefixLen + m /\ z <= y
  BY <1>3, <1>5, <1>7, <1>10
<1>. QED  BY <1>0, <1>11

(***************************************************************************)
(* sync writes n bytes more of the frame wb, from the offset ws: the tape  *)
(* grows by them, and so does the stream.                                  *)
(***************************************************************************)
Grown(T, T2, a, c, ws, wb, n) ==
  /\ a = SubSeq(wb, ws + 1, ws + n)
  /\ Len(T2) = c + (ws + n) /\ Len(T2) = Len(T) + Len(a) /\ c <= Len(T)
  /\ \A k \in 1 .. Len(T) : T2[k] = T[k]
  /\ \A k \in 1 .. Len(a) : T2[Len(T) + k] = a[k]
  /\ \A k \in 1 .. (ws + n) : T2[c + k] = wb[k]

LEMMA TapeGrows ==
  ASSUME NEW T \in Seq(Bytes), NEW c \in Nat, NEW ws \in Nat, NEW wb \in Seq(Bytes),
         NEW n \in Nat, ws < Len(wb), ws + n <= Len(wb), WritingAt(T, c, ws, wb)
  PROVE  \E T2 \in Seq(Bytes), a \in Seq(Bytes) : Grown(T, T2, a, c, ws, wb, n)
<1>. DEFINE a  == SubSeq(wb, ws + 1, ws + n)
            T2 == T \o a
<1>0. Len(wb) \in Nat /\ Len(T) \in Nat
  BY LenProperties
<1>1. Part(ws, wb) = ws
  BY <1>0 DEF Part
<1>2. Len(T) = c + ws /\ \A k \in 1 .. ws : T[c + k] = wb[k]
  BY <1>1 DEF WritingAt
<1>3. a \in Seq(Bytes) /\ Len(a) = n /\ \A k \in 1 .. n : a[k] = wb[ws + k]
  <2>1. \A i \in (ws + 1) .. (ws + n) : wb[i] \in Bytes
    BY <1>0, ElementOfSeq
  <2>2. /\ a \in Seq(Bytes)
        /\ Len(a) = IF ws + 1 <= ws + n THEN ws + n - (ws + 1) + 1 ELSE 0
        /\ \A k \in 1 .. (ws + n - (ws + 1) + 1) : a[k] = wb[ws + 1 + k - 1]
    <3>1. ws + 1 \in Int /\ ws + n \in Int
      OBVIOUS
    <3>. QED  BY <2>1, <3>1, SubSeqProperties
  <2>. HIDE DEF a
  <2>3. Len(a) = n
    BY <2>2
  <2>4. ASSUME NEW k \in 1 .. n PROVE a[k] = wb[ws + k]
    <3>1. k \in 1 .. (ws + n - (ws + 1) + 1) /\ ws + 1 + k - 1 = ws + k
      OBVIOUS
    <3>. QED  BY <2>2, <3>1
  <2>. QED  BY <2>2, <2>3, <2>4
<1>. HIDE DEF a
<1>4. /\ T2 \in Seq(Bytes) /\ Len(T2) = Len(T) + n
      /\ \A k \in 1 .. (Len(T) + n) : T2[k] = IF k <= Len(T) THEN T[k] ELSE a[k - Len(T)]
  BY <1>3, ConcatProperties
<1>. HIDE DEF T2
<1>5. \A k \in 1 .. Len(T) : T2[k] = T[k]
  BY <1>0, <1>4
<1>6. ASSUME NEW k \in 1 .. n PROVE T2[Len(T) + k] = a[k]
  <2>1. /\ Len(T) + k \in 1 .. (Len(T) + n) /\ ~ (Len(T) + k <= Len(T))
        /\ Len(T) + k - Len(T) = k
    BY <1>0
  <2>. QED  BY <1>4, <2>1
<1>7. ASSUME NEW k \in 1 .. (ws + n) PROVE T2[c + k] = wb[k]
  <2>1. CASE k <= ws
    <3>1. c + k \in 1 .. Len(T) /\ k \in 1 .. ws
      BY <1>0, <1>2, <2>1
    <3>. QED  BY <1>2, <1>5, <3>1
  <2>2. CASE ~ (k <= ws)
    <3>1. k - ws \in 1 .. n /\ ws + (k - ws) = k
      BY <2>2
    <3>2. Len(T) + (k - ws) = c + k
      BY <1>2
    <3>. QED  BY <1>3, <1>6, <3>1, <3>2
  <2>. QED  BY <2>1, <2>2
<1>8. Len(T2) = c + (ws + n)
  BY <1>0, <1>2, <1>4
<1>9. Len(T2) = Len(T) + Len(a) /\ c <= Len(T)
  BY <1>0, <1>2, <1>3, <1>4
<1>10. Grown(T, T2, a, c, ws, wb, n)
  BY <1>2, <1>3, <1>4, <1>5, <1>6, <1>7, <1>8, <1>9 DEF a, Grown
<1>. QED  BY <1>3, <1>4, <1>10

(* A longer tape reads the same, with more in the stream. *)
LEMMA ReadingGrows ==
  ASSUME NEW T \in Seq(Bytes), NEW T2 \in Seq(Bytes), NEW c \in Nat, NEW rs \in ReadState,
         NEW p \in Seq(Bytes), NEW a \in Seq(Bytes), ReadingAt(T, c, rs, p),
         Len(T2) = Len(T) + Len(a),
         \A k \in 1 .. Len(T) : T2[k] = T[k],
         \A k \in 1 .. Len(a) : T2[Len(T) + k] = a[k]
  PROVE  ReadingAt(T2, c, rs, p \o a)
<1>. DEFINE p2 == p \o a
<1>0. /\ PrefixLen \in Nat \ {0} /\ Len(T) \in Nat /\ Len(p) \in Nat /\ Len(a) \in Nat
      /\ rs.buf \in Seq(Bytes) /\ Len(rs.buf) \in Nat /\ Held(rs) \in Nat
  BY ConstantsAssumption, LenProperties DEF ReadState, Held
<1>1. /\ p2 \in Seq(Bytes) /\ Len(p2) = Len(p) + Len(a)
      /\ \A k \in 1 .. (Len(p) + Len(a)) : p2[k] = IF k <= Len(p) THEN p[k] ELSE a[k - Len(p)]
  BY ConcatProperties
<1>. HIDE DEF p2
<1>2. /\ c + Held(rs) + Len(p) = Len(T)
      /\ \A k \in 1 .. Len(p) : p[k] = T[c + Held(rs) + k]
  BY DEF ReadingAt
<1>3. c + Held(rs) + Len(p2) = Len(T2)
  BY <1>0, <1>1, <1>2
<1>4. \A k \in 1 .. Len(p2) : p2[k] = T2[c + Held(rs) + k]
  <2>. SUFFICES ASSUME NEW k \in 1 .. Len(p2) PROVE p2[k] = T2[c + Held(rs) + k]
    OBVIOUS
  <2>1. CASE k <= Len(p)
    <3>1. k \in 1 .. Len(p) /\ c + Held(rs) + k \in 1 .. Len(T)
      BY <1>0, <1>2, <2>1
    <3>. QED  BY <1>0, <1>1, <1>2, <2>1, <3>1
  <2>2. CASE ~ (k <= Len(p))
    <3>1. k - Len(p) \in 1 .. Len(a) /\ c + Held(rs) + k = Len(T) + (k - Len(p))
      <4>1. PICK x \in Nat, h \in Nat, y \in Nat, z \in Nat :
              x = Len(p) /\ h = Held(rs) /\ y = Len(T) /\ z = Len(a)
        BY <1>0
      <4>2. k \in 1 .. (x + z) /\ ~ (k <= x) /\ c + h + x = y
        BY <1>1, <1>2, <2>2, <4>1
      <4>3. k - x \in 1 .. z /\ c + h + k = y + (k - x)
        BY <4>2
      <4>. QED  BY <4>1, <4>3
    <3>. QED  BY <1>1, <2>2, <3>1
  <2>. QED  BY <2>1, <2>2
<1>5. ASSUME NEW k \in 1 .. Held(rs) PROVE T2[c + k] = T[c + k]
  <2>1. c + k \in 1 .. Len(T)
    BY <1>0, <1>2
  <2>. QED  BY <2>1
<1>6. CASE rs.need = None
  <2>1. \A k \in 1 .. Len(rs.buf) : rs.buf[k] = T2[c + k]
    BY <1>5, <1>6 DEF ReadingAt, Held
  <2>. QED  BY <1>3, <1>4, <1>6, <2>1 DEF ReadingAt, p2
<1>7. CASE rs.need # None
  <2>1. /\ rs.need = from_be_bytes([k \in 1 .. PrefixLen |-> T[c + k]])
        /\ \A k \in 1 .. Len(rs.buf) : rs.buf[k] = T[c + PrefixLen + k]
        /\ Held(rs) = PrefixLen + Len(rs.buf)
    BY <1>7 DEF ReadingAt, Held
  <2>2. [k \in 1 .. PrefixLen |-> T2[c + k]] = [k \in 1 .. PrefixLen |-> T[c + k]]
    <3>1. \A k \in 1 .. PrefixLen : T2[c + k] = T[c + k]
      BY <1>0, <1>5, <2>1
    <3>. QED  BY <3>1
  <2>3. ASSUME NEW k \in 1 .. Len(rs.buf) PROVE rs.buf[k] = T2[c + PrefixLen + k]
    <3>1. PrefixLen + k \in 1 .. Held(rs) /\ c + (PrefixLen + k) = c + PrefixLen + k
      BY <1>0, <2>1, SMTT(30)
    <3>. QED  BY <1>5, <2>1, <3>1
  <2>4. rs.need = from_be_bytes([k \in 1 .. PrefixLen |-> T2[c + k]])
    BY <2>1, <2>2
  <2>. QED  BY <1>3, <1>4, <1>7, <2>3, <2>4 DEF ReadingAt, p2
<1>. QED  BY <1>6, <1>7

(* The cuts of a longer tape, and one more when a frame is complete. *)
LEMMA CutsGrow ==
  ASSUME NEW T \in Seq(Bytes), NEW T2 \in Seq(Bytes), NEW vs \in Seq(Values),
         NEW cut \in [0 .. Len(vs) -> Nat], Cuts(T, cut, vs),
         cut[Len(vs)] <= Len(T),
         \A k \in 1 .. Len(T) : T2[k] = T[k]
  PROVE  Cuts(T2, cut, vs)
<1>0. PrefixLen \in Nat \ {0} /\ Len(vs) \in Nat /\ Len(T) \in Nat
  BY ConstantsAssumption, LenProperties
<1>1. ASSUME NEW i \in 1 .. Len(vs), NEW k \in 1 .. (PrefixLen + Len(vs[i]))
      PROVE  T2[cut[i - 1] + k] = Frame(vs[i])[k]
  <2>1. i - 1 \in 0 .. Len(vs) /\ i \in 0 .. Len(vs)
    BY <1>0
  <2>2. vs[i] \in Values
    BY ElementOfSeq
  <2>3. PICK m \in Nat : m = Len(vs[i])
    BY <2>2, ConstantsAssumption, LenProperties
  <2>4. PICK x \in Nat, y \in Nat, z \in Nat : x = cut[i - 1] /\ y = cut[i] /\ z = cut[Len(vs)]
    <3>1. cut[i - 1] \in Nat
      BY <2>1
    <3>2. cut[i] \in Nat
      BY <2>1
    <3>3. Len(vs) \in 0 .. Len(vs)
      BY <1>0
    <3>4. cut[Len(vs)] \in Nat
      BY <3>3
    <3>. QED  BY <3>1, <3>2, <3>4
  <2>5. y = x + PrefixLen + m /\ y <= z /\ z <= Len(T) /\ k \in 1 .. (PrefixLen + m)
    BY <1>1, <2>1, <2>3, <2>4 DEF Cuts
  <2>6. x + k \in 1 .. Len(T)
    BY <1>0, <2>5
  <2>7. T[x + k] = Frame(vs[i])[k]
    BY <2>4 DEF Cuts
  <2>. QED  BY <2>4, <2>6, <2>7
<1>. QED  BY <1>1 DEF Cuts

LEMMA CutsAppend ==
  ASSUME NEW T \in Seq(Bytes), NEW vs \in Seq(Values), NEW cut \in [0 .. Len(vs) -> Nat],
         NEW v \in Values, Len(v) <= WriterMax, Cuts(T, cut, vs),
         Len(T) = cut[Len(vs)] + (PrefixLen + Len(v)),
         \A k \in 1 .. (PrefixLen + Len(v)) : T[cut[Len(vs)] + k] = Frame(v)[k]
  PROVE  \E cut2 \in [0 .. (Len(vs) + 1) -> Nat] :
           /\ \A i \in 0 .. Len(vs) : cut2[i] = cut[i]
           /\ cut2[Len(vs) + 1] = Len(T)
           /\ Cuts(T, cut2, Append(vs, v))
<1>. DEFINE vs2  == Append(vs, v)
            L    == Len(vs)
            cut2 == [i \in 0 .. Len(vs2) |-> IF i <= L THEN cut[i] ELSE Len(T)]
<1>0. PrefixLen \in Nat \ {0} /\ L \in Nat /\ Len(T) \in Nat /\ Len(v) \in Nat
  BY ConstantsAssumption, LenProperties
<1>1. /\ vs2 \in Seq(Values) /\ Len(vs2) = L + 1 /\ vs2[L + 1] = v
      /\ \A i \in 1 .. L : vs2[i] = vs[i]
  BY AppendProperties
<1>. HIDE DEF vs2
<1>2. \A i \in 0 .. L : cut[i] \in Nat
  OBVIOUS
<1>3. cut2 \in [0 .. Len(vs2) -> Nat]
  BY <1>0, <1>1, <1>2
<1>4. \A i \in 0 .. L : cut2[i] = cut[i]
  BY <1>0, <1>1
<1>5. cut2[L + 1] = Len(T)
  BY <1>0, <1>1
<1>. HIDE DEF cut2, L
<1>6. PICK z \in Nat : z = cut[L]
  BY <1>0, <1>2
<1>7. Len(T) = z + (PrefixLen + Len(v))
  BY <1>6 DEF L
<1>8. \A i \in 0 .. L : cut[i] <= z
  BY <1>6 DEF Cuts, L
<1>9. cut2[0] = 0
  BY <1>0, <1>4 DEF Cuts
<1>10. \A i \in 0 .. Len(vs2) : cut2[i] <= cut2[Len(vs2)]
  <2>. SUFFICES ASSUME NEW i \in 0 .. Len(vs2) PROVE cut2[i] <= Len(T)
    BY <1>1, <1>5
  <2>1. CASE i = L + 1
    BY <1>0, <1>5, <2>1
  <2>2. CASE i # L + 1
    <3>1. i \in 0 .. L
      BY <1>0, <1>1, <2>2
    <3>2. cut2[i] = cut[i] /\ cut[i] <= z /\ cut[i] \in Nat
      BY <1>2, <1>4, <1>8, <3>1
    <3>. QED  BY <1>0, <1>7, <3>2
  <2>. QED  BY <2>1, <2>2
<1>11. ASSUME NEW i \in 1 .. Len(vs2)
       PROVE  /\ cut2[i] = cut2[i - 1] + PrefixLen + Len(vs2[i])
              /\ \A k \in 1 .. (PrefixLen + Len(vs2[i])) : T[cut2[i - 1] + k] = Frame(vs2[i])[k]
  <2>1. CASE i = L + 1
    <3>1. i - 1 = L /\ L \in 0 .. L
      BY <1>0, <2>1
    <3>2. cut2[i - 1] = z /\ cut2[i] = Len(T) /\ vs2[i] = v
      BY <1>1, <1>4, <1>5, <1>6, <2>1, <3>1
    <3>3. Len(T) = z + PrefixLen + Len(v)
      BY <1>0, <1>7
    <3>4. \A k \in 1 .. (PrefixLen + Len(v)) : T[z + k] = Frame(v)[k]
      BY <1>6 DEF L
    <3>. QED  BY <3>2, <3>3, <3>4
  <2>2. CASE i # L + 1
    <3>1. i \in 1 .. L /\ i \in 0 .. L /\ i - 1 \in 0 .. L
      BY <1>0, <1>1, <2>2
    <3>2. cut2[i] = cut[i] /\ cut2[i - 1] = cut[i - 1] /\ vs2[i] = vs[i]
      BY <1>1, <1>4, <3>1
    <3>. QED  BY <3>1, <3>2 DEF Cuts, L
  <2>. QED  BY <2>1, <2>2
<1>12. Cuts(T, cut2, vs2)
  BY <1>9, <1>10, <1>11 DEF Cuts
<1>13. cut2 \in [0 .. (Len(vs) + 1) -> Nat]
  BY <1>1, <1>3 DEF L
<1>. QED  BY <1>1, <1>4, <1>5, <1>12, <1>13 DEF vs2, L

-----------------------------------------------------------------------------
(***************************************************************************)
(* The invariant of a stream that is not broken: what was read is what was *)
(* sent first, and the rest is on the tape.                                *)
(***************************************************************************)
OnTape(T, cut) ==
  /\ Cuts(T, cut, sent)
  /\ WritingAt(T, cut[Len(sent)], wstate, wbuf)
  /\ ReadingAt(T, cut[Len(got)], rstate, pipe)

Intact ==
  /\ sent \in Seq(Values) /\ got \in Seq(Values)
  /\ \A i \in 1 .. Len(sent) : Len(sent[i]) <= WriterMax
  /\ Len(got) <= Len(sent)
  /\ \A i \in 1 .. Len(got) : got[i] = sent[i]
  /\ \E T \in Seq(Bytes), cut \in [0 .. Len(sent) -> Nat] : OnTape(T, cut)

(* After the end of the stream nothing is written. *)
Ended ==
  /\ closed => ~ wcall
  /\ result = "None" => closed

StreamInv == Typed /\ Ended /\ NoneMeansAll /\ (~ broken => Intact)

QueueStep == [Queue!Next]_(Queue!vars)

(* A step of the writer that is at a boundary of frames before and after   *)
(* it, or that leaves its buffer and offset alone, keeps the stream.       *)
LEMMA BoundaryKeepsIntact ==
  ASSUME Intact, UNCHANGED <<sent, got, rstate, pipe>>,
         \/ UNCHANGED <<wstate, wbuf>>
         \/ /\ Part(wstate, wbuf) = 0 /\ Part(wstate', wbuf') = 0
            /\ wstate' # None => \E v \in Values : Len(v) <= WriterMax /\ wbuf' = Frame(v)
  PROVE  Intact'
<1>1. PICK T \in Seq(Bytes), cut \in [0 .. Len(sent) -> Nat] : OnTape(T, cut)
  BY DEF Intact
<1>2. WritingAt(T, cut[Len(sent)], wstate', wbuf')
  <2>1. CASE UNCHANGED <<wstate, wbuf>>
    BY <1>1, <2>1 DEF OnTape
  <2>2. CASE ~ UNCHANGED <<wstate, wbuf>>
    <3>1. WritingAt(T, cut[Len(sent)], wstate, wbuf)
      BY <1>1 DEF OnTape
    <3>. QED  BY <2>2, <3>1 DEF WritingAt
  <2>. QED  BY <2>1, <2>2
<1>3. OnTape(T, cut)'
  BY <1>1, <1>2 DEF OnTape
<1>. QED  BY <1>1, <1>3 DEF Intact

(* sync writes a part of a frame, or the rest of it, which sends a value.  *)
LEMMA SyncKeepsIntact ==
  ASSUME Typed, Intact, SyncStep
  PROVE  /\ Intact'
         /\ \/ UNCHANGED sent
            \/ \E v \in Values : sent' = Append(sent, v)
<1>0. /\ PrefixLen \in Nat \ {0} /\ PipeCap \in Nat /\ WriterMax \in Nat
      /\ pipe \in Seq(Bytes) /\ wbuf \in Seq(Bytes) /\ Len(pipe) \in Nat /\ Len(wbuf) \in Nat
      /\ Len(pipe) <= PipeCap /\ wstate \in Nat /\ wstate < Len(wbuf) /\ wstate # None
      /\ rstate \in ReadState /\ sent \in Seq(Values) /\ got \in Seq(Values)
      /\ Len(sent) \in Nat /\ Len(got) \in 0 .. Len(sent)
  <2>1. pipe \in Seq(Bytes) /\ wbuf \in Seq(Bytes) /\ rstate \in ReadState /\ Len(pipe) <= PipeCap
    BY DEF Typed, TypeOK, ReadState
  <2>2. wstate \in Nat /\ wstate < Len(wbuf) /\ wstate # None
    BY DEF SyncStep, Typed, TypeOK
  <2>3. sent \in Seq(Values) /\ got \in Seq(Values) /\ Len(got) <= Len(sent)
    BY DEF Intact
  <2>4. /\ Len(pipe) \in Nat /\ Len(wbuf) \in Nat
        /\ Len(sent) \in Nat /\ Len(got) \in Nat
    BY <2>1, <2>3, LenProperties
  <2>. QED  BY <2>1, <2>2, <2>3, <2>4, ConstantsAssumption
<1>1. PICK T \in Seq(Bytes), cut \in [0 .. Len(sent) -> Nat] : OnTape(T, cut)
  BY DEF Intact
<1>2. PICK n \in 1 .. Least(Len(wbuf) - wstate, PipeCap - Len(pipe)) :
        /\ pipe' = pipe \o SubSeq(wbuf, wstate + 1, wstate + n)
        /\ wstate' = wstate + n
        /\ sent' = IF wstate' = Len(wbuf) THEN Append(sent, Payload(wbuf)) ELSE sent
  BY DEF SyncStep
<1>3. n \in Nat /\ n > 0 /\ wstate + n <= Len(wbuf)
  BY <1>0, <1>2 DEF Least
<1>4. UNCHANGED <<wbuf, rstate, got>>
  BY DEF SyncStep, reader
<1>5. PICK c \in Nat, d \in Nat : c = cut[Len(sent)] /\ d = cut[Len(got)]
  <2>1. Len(sent) \in 0 .. Len(sent)
    BY <1>0
  <2>2. cut[Len(sent)] \in Nat
    BY <2>1
  <2>3. cut[Len(got)] \in Nat
    BY <1>0
  <2>. QED  BY <2>2, <2>3
<1>6. /\ Cuts(T, cut, sent) /\ WritingAt(T, c, wstate, wbuf) /\ ReadingAt(T, d, rstate, pipe)
      /\ Len(T) \in Nat
  BY <1>1, <1>5, LenProperties DEF OnTape
<1>7. PICK T2 \in Seq(Bytes), a \in Seq(Bytes) : Grown(T, T2, a, c, wstate, wbuf, n)
  BY <1>0, <1>3, <1>6, TapeGrows
<1>8. pipe' = pipe \o a
  BY <1>2, <1>7 DEF Grown
<1>9. /\ Len(T2) = Len(T) + Len(a)
      /\ \A k \in 1 .. Len(T) : T2[k] = T[k]
      /\ \A k \in 1 .. Len(a) : T2[Len(T) + k] = a[k]
  BY <1>7 DEF Grown
<1>10. ReadingAt(T2, d, rstate, pipe')
  <2>1. ReadingAt(T, d, rstate, pipe) /\ rstate \in ReadState /\ pipe \in Seq(Bytes)
    BY <1>0, <1>6
  <2>2. ReadingAt(T2, d, rstate, pipe \o a)
    BY <1>9, <2>1, ReadingGrows
  <2>. QED  BY <1>8, <2>2
<1>11. Cuts(T2, cut, sent)
  <2>1. cut[Len(sent)] <= Len(T)
    BY <1>5, <1>7 DEF Grown
  <2>. QED  BY <1>0, <1>6, <1>9, <2>1, CutsGrow
<1>12. PICK v \in Values : Len(v) <= WriterMax /\ wbuf = Frame(v)
  BY <1>0, <1>6 DEF WritingAt
<1>13. /\ Len(v) \in Nat /\ Len(wbuf) = PrefixLen + Len(v) /\ Payload(wbuf) = v
  BY <1>12, FrameProperties
<1>14. CASE wstate + n # Len(wbuf)
  <2>1. sent' = sent /\ wstate' = wstate + n /\ wbuf' = wbuf
    BY <1>2, <1>4, <1>14
  <2>2. Part(wstate + n, wbuf) = wstate + n
    BY <1>0, <1>3, <1>14 DEF Part
  <2>3. WritingAt(T2, c, wstate + n, wbuf)
    BY <1>7, <1>12, <2>2 DEF WritingAt, Grown
  <2>4. OnTape(T2, cut)'
    BY <1>4, <1>5, <1>10, <1>11, <2>1, <2>3 DEF OnTape
  <2>5. \E S \in Seq(Bytes), ct \in [0 .. Len(sent') -> Nat] : OnTape(S, ct)'
    BY <1>7, <2>1, <2>4
  <2>. QED  BY <1>4, <2>1, <2>5 DEF Intact
<1>15. CASE wstate + n = Len(wbuf)
  <2>1. sent' = Append(sent, v) /\ wstate' = Len(wbuf) /\ wbuf' = wbuf
    BY <1>2, <1>4, <1>13, <1>15
  <2>2. PICK cut2 \in [0 .. (Len(sent) + 1) -> Nat] :
          /\ \A i \in 0 .. Len(sent) : cut2[i] = cut[i]
          /\ cut2[Len(sent) + 1] = Len(T2)
          /\ Cuts(T2, cut2, Append(sent, v))
    <3>1. Len(T2) = cut[Len(sent)] + (PrefixLen + Len(v))
      BY <1>5, <1>7, <1>13, <1>15 DEF Grown
    <3>2. \A k \in 1 .. (PrefixLen + Len(v)) : T2[cut[Len(sent)] + k] = Frame(v)[k]
      BY <1>5, <1>7, <1>12, <1>13, <1>15 DEF Grown
    <3>3. sent \in Seq(Values) /\ Len(v) <= WriterMax
      BY <1>0, <1>12
    <3>. QED  BY <1>11, <3>1, <3>2, <3>3, CutsAppend
  <2>3. Part(Len(wbuf), wbuf) = 0 /\ Len(T2) \in Nat
    BY <1>0, <1>7, LenProperties DEF Part
  <2>4. WritingAt(T2, Len(T2), Len(wbuf), wbuf)
    <3>1. Len(T2) = Len(T2) + Part(Len(wbuf), wbuf)
      BY <2>3
    <3>2. \A k \in 1 .. Part(Len(wbuf), wbuf) : T2[Len(T2) + k] = wbuf[k]
      BY <2>3
    <3>. QED  BY <1>12, <3>1, <3>2 DEF WritingAt
  <2>5. cut2[Len(got)] = d
    BY <1>0, <1>5, <2>2
  <2>8. /\ Len(sent') = Len(sent) + 1 /\ sent'[Len(sent) + 1] = v
        /\ \A i \in 1 .. Len(sent) : sent'[i] = sent[i]
        /\ sent' \in Seq(Values)
    BY <1>0, <2>1, AppendProperties
  <2>6. OnTape(T2, cut2)'
    BY <1>4, <1>10, <2>1, <2>2, <2>4, <2>5, <2>8 DEF OnTape
  <2>7. \E S \in Seq(Bytes), ct \in [0 .. Len(sent') -> Nat] : OnTape(S, ct)'
    BY <1>7, <2>2, <2>6, <2>8
  <2>9. \A i \in 1 .. Len(sent') : Len(sent'[i]) <= WriterMax
    <3>. SUFFICES ASSUME NEW i \in 1 .. Len(sent') PROVE Len(sent'[i]) <= WriterMax
      OBVIOUS
    <3>1. CASE i = Len(sent) + 1
      BY <1>12, <2>8, <3>1
    <3>2. CASE i # Len(sent) + 1
      <4>1. i \in 1 .. Len(sent)
        BY <1>0, <2>8, <3>2, SMTT(30)
      <4>. QED  BY <2>8, <4>1 DEF Intact
    <3>. QED  BY <3>1, <3>2
  <2>10. Len(got') <= Len(sent') /\ \A i \in 1 .. Len(got') : got'[i] = sent'[i]
    BY <1>0, <1>4, <2>8, SMTT(30) DEF Intact
  <2>11. sent' \in Seq(Values) /\ got' \in Seq(Values)
    BY <1>0, <1>4, <2>8
  <2>. QED  BY <2>1, <2>7, <2>9, <2>10, <2>11 DEF Intact
<1>. QED  BY <1>14, <1>15

(* A step of the reader that takes bytes or a length moves it along the    *)
(* tape.                                                                   *)
LEMMA ReadKeepsIntact ==
  ASSUME Typed, Intact, ReadStep \/ LenDone
  PROVE  Intact' /\ UNCHANGED <<sent, got>>
<1>0. /\ PrefixLen \in Nat \ {0} /\ pipe \in Seq(Bytes) /\ rstate \in ReadState
      /\ sent \in Seq(Values) /\ got \in Seq(Values) /\ Len(got) \in 0 .. Len(sent)
      /\ Len(pipe) \in Nat /\ rstate.buf \in Seq(Bytes) /\ Len(rstate.buf) \in Nat
      /\ Wanted \in Nat
  <2>1. pipe \in Seq(Bytes) /\ rstate \in ReadState /\ Wanted >= 0
    BY DEF Typed, TypeOK, ReadState
  <2>2. sent \in Seq(Values) /\ got \in Seq(Values) /\ Len(got) <= Len(sent)
    BY DEF Intact
  <2>3. Len(pipe) \in Nat /\ Len(sent) \in Nat /\ Len(got) \in Nat
    BY <2>1, <2>2, LenProperties
  <2>4. rstate.buf \in Seq(Bytes) /\ rstate.need \in Nat \union {None}
    BY <2>1 DEF ReadState
  <2>5. Len(rstate.buf) \in Nat
    BY <2>4, LenProperties
  <2>6. Wanted \in Nat
    BY <2>1, <2>4, <2>5, ConstantsAssumption DEF Wanted, None
  <2>. QED  BY <2>1, <2>2, <2>3, <2>4, <2>5, <2>6, ConstantsAssumption
<1>1. PICK T \in Seq(Bytes), cut \in [0 .. Len(sent) -> Nat] : OnTape(T, cut)
  BY DEF Intact
<1>2. PICK d \in Nat : d = cut[Len(got)]
  BY <1>0
<1>3. ReadingAt(T, d, rstate, pipe)
  BY <1>1, <1>2 DEF OnTape
<1>4. UNCHANGED <<sent, got, wstate, wbuf>>
  BY DEF ReadStep, LenDone, writer
<1>5. ReadingAt(T, d, rstate', pipe')
  <2>1. CASE ReadStep
    <3>1. PICK n \in 1 .. Least(Wanted, Len(pipe)) :
            /\ rstate' = [rstate EXCEPT !.buf = @ \o SubSeq(pipe, 1, n)]
            /\ pipe' = SubSeq(pipe, n + 1, Len(pipe))
      BY <2>1 DEF ReadStep
    <3>2. n \in 1 .. Len(pipe)
      BY <1>0, <3>1 DEF Least
    <3>. QED  BY <1>0, <1>3, <3>1, <3>2, TakeBytes
  <2>2. CASE LenDone
    <3>1. /\ rstate.need = None /\ Wanted = 0 /\ pipe' = pipe
          /\ rstate' = [need |-> from_be_bytes(rstate.buf), buf |-> <<>>]
      BY <2>2 DEF LenDone
    <3>2. Len(rstate.buf) = PrefixLen
      BY <1>0, <3>1 DEF Wanted
    <3>3. ReadingAt(T, d, [need |-> from_be_bytes(rstate.buf), buf |-> <<>>], pipe)
      BY <1>0, <1>3, <3>1, <3>2, TakeLength
    <3>. QED  BY <3>1, <3>3
  <2>. QED  BY <2>1, <2>2
<1>6. OnTape(T, cut)'
  BY <1>1, <1>2, <1>4, <1>5 DEF OnTape
<1>. QED  BY <1>1, <1>4, <1>6 DEF Intact

(* The value that a reader returns is the next one that was sent. *)
LEMMA ReadDoneKeepsIntact ==
  ASSUME Typed, Intact, ReadDone
  PROVE  /\ Intact' /\ UNCHANGED sent
         /\ Len(got) < Len(sent) /\ got' = Append(got, sent[Len(got) + 1])
<1>0. /\ PrefixLen \in Nat \ {0} /\ pipe \in Seq(Bytes) /\ rstate \in ReadState
      /\ wbuf \in Seq(Bytes) /\ wstate \in Nat \union {None}
      /\ sent \in Seq(Values) /\ got \in Seq(Values)
      /\ Len(got) \in 0 .. Len(sent) /\ Len(sent) \in Nat /\ Len(got) \in Nat
      /\ \A i \in 1 .. Len(sent) : Len(sent[i]) <= WriterMax
  <2>1. /\ pipe \in Seq(Bytes) /\ rstate \in ReadState
        /\ wbuf \in Seq(Bytes) /\ wstate \in Nat \union {None}
    BY DEF Typed, TypeOK, ReadState
  <2>2. /\ sent \in Seq(Values) /\ got \in Seq(Values) /\ Len(got) <= Len(sent)
        /\ \A i \in 1 .. Len(sent) : Len(sent[i]) <= WriterMax
    BY DEF Intact
  <2>3. Len(sent) \in Nat /\ Len(got) \in Nat
    BY <2>2, LenProperties
  <2>. QED  BY <2>1, <2>2, <2>3, ConstantsAssumption
<1>1. PICK T \in Seq(Bytes), cut \in [0 .. Len(sent) -> Nat] : OnTape(T, cut)
  BY DEF Intact
<1>2. PICK g \in 0 .. Len(sent) : g = Len(got)
  BY <1>0
<1>3. /\ Cuts(T, cut, sent) /\ WritingAt(T, cut[Len(sent)], wstate, wbuf)
      /\ ReadingAt(T, cut[g], rstate, pipe)
  BY <1>1, <1>2 DEF OnTape
<1>4. rstate.need # None /\ Len(rstate.buf) = rstate.need
  <2>1. rstate.need # None /\ Wanted = 0
    BY DEF ReadDone
  <2>2. rstate.buf \in Seq(Bytes) /\ rstate.need \in Nat
    BY <1>0, <2>1 DEF ReadState
  <2>3. Len(rstate.buf) \in Nat
    BY <2>2, LenProperties
  <2>. QED  BY <2>1, <2>2, <2>3 DEF Wanted
<1>5. g + 1 \in 1 .. Len(sent) /\ rstate.buf = sent[g + 1] /\ cut[g + 1] = cut[g] + Held(rstate)
  <2>1. HasRead(T, cut, sent, g, wstate, wbuf, rstate, pipe)
    BY <1>0, <1>3, <1>4 DEF HasRead
  <2>. QED  BY <2>1, NextFrame
<1>6. sent[g + 1] \in Values
  BY <1>0, <1>5, ElementOfSeq
<1>7. /\ UNCHANGED <<sent, wstate, wbuf, pipe>> /\ rstate' = NewRead
      /\ got' = Append(got, sent[g + 1])
  BY <1>5, <1>6 DEF ReadDone, ReadReturns, writer
<1>8. /\ got' \in Seq(Values) /\ Len(got') = g + 1 /\ got'[g + 1] = sent[g + 1]
      /\ \A i \in 1 .. g : got'[i] = got[i]
  BY <1>0, <1>2, <1>6, <1>7, AppendProperties
<1>9. \A i \in 1 .. Len(got') : got'[i] = sent[i]
  <2>. SUFFICES ASSUME NEW i \in 1 .. (g + 1) PROVE got'[i] = sent[i]
    BY <1>8
  <2>1. CASE i = g + 1
    BY <1>8, <2>1
  <2>2. CASE i # g + 1
    <3>1. i \in 1 .. g
      BY <2>2
    <3>. QED  BY <1>2, <1>8, <3>1 DEF Intact
  <2>. QED  BY <2>1, <2>2
<1>10. ReadingAt(T, cut[g + 1], NewRead, pipe)
  <2>1. g + 1 \in 0 .. Len(sent)
    BY <1>0, <1>5
  <2>2. PICK c \in Nat, d \in Nat : c = cut[g] /\ d = cut[g + 1]
    <3>1. cut[g] \in Nat
      OBVIOUS
    <3>2. cut[g + 1] \in Nat
      BY <2>1
    <3>. QED  BY <3>1, <3>2
  <2>3. ReadingAt(T, c, rstate, pipe) /\ d = c + Held(rstate)
    BY <1>3, <1>5, <2>2
  <2>4. ReadingAt(T, d, NewRead, pipe)
    BY <1>0, <2>3, TakeValue
  <2>. QED  BY <2>2, <2>4
<1>11. OnTape(T, cut)'
  BY <1>3, <1>7, <1>8, <1>10 DEF OnTape
<1>12. Len(got) < Len(sent) /\ Len(got') <= Len(sent)
  BY <1>0, <1>2, <1>5, <1>8
<1>13. \E S \in Seq(Bytes), ct \in [0 .. Len(sent') -> Nat] : OnTape(S, ct)'
  BY <1>7, <1>11
<1>. QED  BY <1>0, <1>2, <1>7, <1>8, <1>9, <1>12, <1>13 DEF Intact

(***************************************************************************)
(* Every step keeps the stream intact or breaks it, and is a step of       *)
(* FrameQueue.                                                             *)
(***************************************************************************)
LEMMA BreaksOnce ==
  ASSUME Typed, ~ broken, ~ broken', WriterStep \/ ReaderStep
  PROVE  UNCHANGED broken
<1>1. Typed'
  BY WriterTyped, ReaderTyped
<1>2. broken \in BOOLEAN /\ broken' \in BOOLEAN
  BY <1>1 DEF Typed
<1>. QED  BY <1>2, Zenon

LEMMA WriterIntact ==
  ASSUME Typed, Intact, ~ broken, ~ broken', WriterStep
  PROVE  Intact' /\ QueueStep
<1>. USE DEF QueueStep, Queue!Next, Queue!Send, Queue!vars
<1>0. /\ wbuf \in Seq(Bytes) /\ Len(wbuf) \in Nat /\ wstate \in Nat \union {None}
      /\ PrefixLen \in Nat \ {0}
  BY LenProperties, ConstantsAssumption DEF Typed, TypeOK
<1>5. UNCHANGED broken
  BY BreaksOnce
<1>1. ASSUME NEW v \in Values, Write(v) PROVE Intact' /\ QueueStep
  <2>1. ~ (wstate > 0)
    BY <1>1 DEF Write
  <2>2. Part(wstate, wbuf) = 0
    BY <2>1 DEF Part
  <2>3. wstate' = 0 /\ wbuf' = Frame(v) /\ Len(v) <= WriterMax
    BY <1>1 DEF Write, Frame
  <2>4. Part(wstate', wbuf') = 0
    BY <2>3 DEF Part
  <2>5. UNCHANGED <<sent, got, rstate, pipe>>
    BY <1>1 DEF Write, Encoding, reader
  <2>6. Intact'
    BY <2>2, <2>3, <2>4, <2>5, BoundaryKeepsIntact
  <2>. QED  BY <1>5, <2>5, <2>6
<1>2. ASSUME NEW v \in Values, WriteRefused(v) PROVE Intact' /\ QueueStep
  <2>1. wstate = None /\ wstate' = None
    BY <1>2 DEF WriteRefused
  <2>2. Part(wstate, wbuf) = 0 /\ Part(wstate', wbuf') = 0
    BY <2>1 DEF Part, None
  <2>3. UNCHANGED <<sent, got, rstate, pipe>>
    BY <1>2 DEF WriteRefused, Encoding, reader
  <2>4. Intact'
    BY <2>1, <2>2, <2>3, BoundaryKeepsIntact
  <2>. QED  BY <1>5, <2>3, <2>4
<1>3. CASE SyncStep
  <2>1. UNCHANGED <<got, broken>>
    BY <1>3 DEF SyncStep
  <2>. QED  BY <1>3, <2>1, SyncKeepsIntact
<1>4. CASE SyncDone \/ WriteError \/ CancelWrite \/ Sync \/ Close
  <2>1. UNCHANGED <<sent, got, rstate, pipe, wbuf>>
    BY <1>4 DEF SyncDone, WriteError, CancelWrite, Sync, Close, writer, reader
  <2>2. \/ UNCHANGED wstate
        \/ wstate' = None /\ Part(wstate, wbuf) = 0
    <3>1. CASE SyncDone
      BY <1>0, <3>1 DEF SyncDone, Part, None
    <3>2. CASE WriteError
      <4>1. mode = "sync" => wstate \notin 1 .. (Len(wbuf) - 1)
        BY <3>2 DEF WriteError
      <4>2. wstate \notin 1 .. (Len(wbuf) - 1) => Part(wstate, wbuf) = 0
        BY <1>0 DEF Part, None
      <4>. QED  BY <3>2, <4>1, <4>2 DEF WriteError
    <3>3. CASE CancelWrite \/ Sync \/ Close
      BY <3>3 DEF CancelWrite, Sync, Close, writer
    <3>. QED  BY <1>4, <3>1, <3>2, <3>3
  <2>3. wstate' = None => Part(wstate', wbuf') = 0
    BY DEF Part, None
  <2>4. Intact'
    BY <2>1, <2>2, <2>3, BoundaryKeepsIntact
  <2>. QED  BY <1>5, <2>1, <2>4
<1>. QED  BY <1>1, <1>2, <1>3, <1>4 DEF WriterStep

LEMMA ReaderIntact ==
  ASSUME Typed, Intact, ~ broken, ~ broken', ReaderStep
  PROVE  Intact' /\ QueueStep
<1>. USE DEF QueueStep, Queue!Next, Queue!Receive, Queue!vars
<1>5. UNCHANGED broken
  BY BreaksOnce
<1>1. CASE ReadStep \/ LenDone
  BY <1>1, <1>5, ReadKeepsIntact
<1>2. CASE ReadDone
  <2>1. UNCHANGED broken
    BY <1>2 DEF ReadDone
  <2>. QED  BY <1>2, <2>1, ReadDoneKeepsIntact
<1>3. CASE LenRefused
  BY <1>3 DEF LenRefused
<1>4. CASE ReadStart \/ CancelRead \/ ReadEof \/ ReadError
  <2>1. UNCHANGED <<sent, got, pipe, wstate, wbuf>>
    BY <1>4 DEF ReadStart, CancelRead, ReadEof, ReadError, ReadReturns, writer
  <2>2. UNCHANGED rstate
    <3>1. CASE ReadStart \/ CancelRead
      BY <3>1 DEF ReadStart, CancelRead
    <3>2. CASE ReadEof
      <4>1. rstate = NewRead
        BY <3>2 DEF ReadEof
      <4>. QED  BY <3>2, <4>1 DEF ReadEof, Reading
    <3>3. CASE ReadError
      <4>1. mode = "sync" => rstate = NewRead
        BY <3>3 DEF ReadError
      <4>. QED  BY <3>3, <4>1 DEF ReadError, Reading
    <3>. QED  BY <1>4, <3>1, <3>2, <3>3
  <2>3. Intact'
    BY <2>1, <2>2, BoundaryKeepsIntact
  <2>. QED  BY <1>5, <2>1, <2>3
<1>. QED  BY <1>1, <1>2, <1>3, <1>4 DEF ReaderStep

-----------------------------------------------------------------------------
(***************************************************************************)
(* The end of the stream.                                                  *)
(***************************************************************************)

(* A closed stream is not written to, and a stream ends only when closed.  *)
LEMMA StepEnded == ASSUME Ended, Next PROVE Ended'
<1>1. CASE WriterStep
  <2>1. UNCHANGED result /\ (closed => closed')
    BY <1>1 DEF WriterStep, Write, WriteRefused, Encoding, SyncStep, SyncDone, WriteError,
                CancelWrite, Sync, Close
  <2>2. closed' => ~ wcall'
    <3>1. ASSUME NEW v \in Values, Write(v) \/ WriteRefused(v) PROVE ~ closed'
      BY <3>1 DEF Write, WriteRefused, Encoding
    <3>2. CASE SyncStep \/ SyncDone \/ WriteError \/ CancelWrite
      BY <3>2 DEF Ended, SyncStep, SyncDone, WriteError, CancelWrite
    <3>3. CASE Sync \/ Close
      BY <3>3 DEF Sync, Close, writer
    <3>. QED  BY <1>1, <3>1, <3>2, <3>3 DEF WriterStep
  <2>. QED  BY <2>1, <2>2 DEF Ended
<1>2. CASE ReaderStep
  <2>1. UNCHANGED <<closed, wcall>>
    BY <1>2 DEF ReaderStep, ReadStart, ReadStep, LenDone, LenRefused, ReadDone, ReadEof,
                ReadError, CancelRead, ReadReturns, writer
  <2>2. result' = "None" => result = "None" \/ closed
    <3>1. CASE ReadStart \/ ReadStep \/ LenDone \/ CancelRead
      BY <3>1 DEF ReadStart, ReadStep, LenDone, CancelRead
    <3>2. CASE LenRefused \/ ReadDone \/ ReadError
      BY <3>2 DEF LenRefused, ReadDone, ReadError, ReadReturns
    <3>3. CASE ReadEof
      BY <3>3 DEF ReadEof
    <3>. QED  BY <1>2, <3>1, <3>2, <3>3 DEF ReaderStep
  <2>. QED  BY <2>1, <2>2 DEF Ended
<1>. QED  BY <1>1, <1>2 DEF Next

(* A stream that has broken stays broken. *)
LEMMA StaysBroken == ASSUME broken, Next PROVE broken'
<1>1. CASE WriterStep
  <2>1. ASSUME NEW v \in Values, Write(v) \/ WriteRefused(v) PROVE broken'
    BY <2>1 DEF Write, WriteRefused
  <2>2. CASE SyncStep \/ SyncDone \/ CancelWrite \/ Sync \/ Close
    BY <2>2 DEF SyncStep, SyncDone, CancelWrite, Sync, Close
  <2>3. CASE WriteError
    BY <2>3 DEF WriteError
  <2>. QED  BY <1>1, <2>1, <2>2, <2>3 DEF WriterStep
<1>2. CASE ReaderStep
  <2>1. CASE ReadStart \/ ReadStep \/ LenDone \/ CancelRead \/ ReadDone
    BY <2>1 DEF ReadStart, ReadStep, LenDone, CancelRead, ReadDone
  <2>2. CASE LenRefused \/ ReadEof \/ ReadError
    BY <2>2 DEF LenRefused, ReadEof, ReadError
  <2>. QED  BY <1>2, <2>1, <2>2 DEF ReaderStep
<1>. QED  BY <1>1, <1>2 DEF Next

(* Nothing in the stream and nothing in the reader's buffer: what was read *)
(* is all that was sent.                                                   *)
LEMMA AllRead ==
  ASSUME Typed, Intact, rstate = NewRead, pipe = <<>>
  PROVE  got = sent
<1>1. /\ sent \in Seq(Values) /\ got \in Seq(Values) /\ Len(got) <= Len(sent)
      /\ \A i \in 1 .. Len(got) : got[i] = sent[i]
  BY DEF Intact
<1>2. PICK T \in Seq(Bytes), cut \in [0 .. Len(sent) -> Nat] : OnTape(T, cut)
  BY DEF Intact
<1>3. Len(got) \in 0 .. Len(sent)
  BY <1>1, LenProperties
<1>4. /\ Cuts(T, cut, sent) /\ WritingAt(T, cut[Len(sent)], wstate, wbuf)
      /\ ReadingAt(T, cut[Len(got)], NewRead, <<>>)
  BY <1>2 DEF OnTape
<1>5. wstate \in Nat \union {None} /\ wbuf \in Seq(Bytes)
  BY DEF Typed, TypeOK
<1>6. Len(got) = Len(sent)
  BY <1>1, <1>3, <1>4, <1>5, AtTheEnd
<1>. QED  BY <1>1, <1>6, SeqEqual

LEMMA StepNone == ASSUME StreamInv, Next PROVE NoneMeansAll'
<1>. SUFFICES ASSUME result' = "None", ~ broken' PROVE got' = sent'
  BY DEF NoneMeansAll
<1>1. ~ broken
  BY StaysBroken
<1>2. Typed /\ Intact /\ Ended /\ (result = "None" => got = sent)
  BY <1>1 DEF StreamInv, NoneMeansAll
<1>3. CASE WriterStep
  <2>1. UNCHANGED <<result, got>>
    BY <1>3 DEF WriterStep, Write, WriteRefused, Encoding, SyncStep, SyncDone, WriteError,
                CancelWrite, Sync, Close
  <2>2. ~ wcall
    BY <1>2, <2>1 DEF Ended
  <2>3. UNCHANGED sent
    BY <1>3, <2>2 DEF WriterStep, Write, WriteRefused, Encoding, SyncStep, SyncDone, WriteError,
                      CancelWrite, Sync, Close
  <2>. QED  BY <1>2, <2>1, <2>3
<1>4. CASE ReadStart \/ ReadStep \/ LenDone \/ CancelRead
  BY <1>2, <1>4 DEF ReadStart, ReadStep, LenDone, CancelRead
<1>5. CASE LenRefused \/ ReadDone \/ ReadError
  BY <1>5 DEF LenRefused, ReadDone, ReadError, ReadReturns
<1>6. CASE ReadEof
  <2>1. rstate = NewRead /\ pipe = <<>> /\ UNCHANGED <<sent, got>>
    BY <1>6 DEF ReadEof, ReadReturns
  <2>. QED  BY <1>2, <2>1, AllRead
<1>. QED  BY <1>3, <1>4, <1>5, <1>6 DEF Next, ReaderStep

-----------------------------------------------------------------------------
(* At the start the tape is empty. *)
LEMMA InitStream == Init => StreamInv /\ Queue!Init
<1>. SUFFICES ASSUME Init PROVE StreamInv /\ Queue!Init
  OBVIOUS
<1>1. Typed
  BY InitTyped
<1>2. Ended /\ NoneMeansAll
  BY DEF Init, Ended, NoneMeansAll
<1>3. Queue!Init
  BY DEF Init, Queue!Init
<1>4. sent = <<>> /\ got = <<>> /\ pipe = <<>> /\ wstate = None /\ rstate = NewRead
  BY DEF Init
<1>5. sent \in Seq(Values) /\ Len(sent) = 0 /\ got \in Seq(Values) /\ Len(got) = 0
  BY <1>4
<1>6. PICK T \in Seq(Bytes), cut \in [{0} -> Nat] : T = <<>> /\ Len(T) = 0 /\ cut[0] = 0
  <2>1. <<>> \in Seq(Bytes) /\ Len(<<>>) = 0
    OBVIOUS
  <2>2. [i \in {0} |-> 0] \in [{0} -> Nat] /\ [i \in {0} |-> 0][0] = 0
    OBVIOUS
  <2>. QED  BY <2>1, <2>2
<1>7. Part(wstate, wbuf) = 0 /\ Held(rstate) = 0 /\ rstate.need = None /\ Len(rstate.buf) = 0
  BY <1>4 DEF Part, Held, None, NewRead
<1>8. Cuts(T, cut, sent)
  BY <1>5, <1>6 DEF Cuts
<1>9. WritingAt(T, 0, wstate, wbuf)
  BY <1>4, <1>6, <1>7 DEF WritingAt
<1>10. ReadingAt(T, 0, rstate, pipe)
  BY <1>4, <1>6, <1>7 DEF ReadingAt
<1>11. OnTape(T, cut) /\ cut \in [0 .. Len(sent) -> Nat]
  BY <1>5, <1>6, <1>8, <1>9, <1>10 DEF OnTape
<1>12. Intact
  BY <1>5, <1>6, <1>11 DEF Intact
<1>. QED  BY <1>1, <1>2, <1>3, <1>12 DEF StreamInv

LEMMA StepStream == StreamInv /\ [Next]_vars => StreamInv' /\ QueueStep
<1>1. ASSUME StreamInv, UNCHANGED vars PROVE StreamInv' /\ QueueStep
  <2>1. UNCHANGED <<pipe, closed, wcall, wbuf, wstate, rcall, rstate, mode, sent, got, result, broken>>
    BY <1>1 DEF vars, writer, reader
  <2>2. Typed' /\ Ended' /\ NoneMeansAll'
    BY <1>1, <2>1 DEF StreamInv, Typed, TypeOK, Wanted, Ended, NoneMeansAll
  <2>3. ~ broken' => Intact'
    <3>1. Intact => Intact'
      BY <2>1, BoundaryKeepsIntact
    <3>. QED  BY <1>1, <2>1, <3>1 DEF StreamInv
  <2>4. QueueStep
    BY <2>1 DEF QueueStep, Queue!vars
  <2>. QED  BY <2>2, <2>3, <2>4 DEF StreamInv
<1>2. ASSUME StreamInv, Next PROVE StreamInv' /\ QueueStep
  <2>1. Typed' /\ Ended' /\ NoneMeansAll'
    BY <1>2, StepTyped, StepEnded, StepNone DEF StreamInv
  <2>2. CASE ~ broken'
    <3>1. ~ broken /\ Typed /\ Intact
      BY <1>2, <2>2, StaysBroken DEF StreamInv
    <3>2. Intact' /\ QueueStep
      BY <1>2, <2>2, <3>1, WriterIntact, ReaderIntact DEF Next
    <3>. QED  BY <2>1, <3>2 DEF StreamInv
  <2>3. CASE broken'
    <3>1. broken' = TRUE
      <4>1. broken' \in BOOLEAN
        BY <2>1 DEF Typed
      <4>. QED  BY <2>3, <4>1, Zenon
    <3>2. QueueStep
      BY <3>1 DEF QueueStep, Queue!Next, Queue!Break
    <3>. QED  BY <2>1, <2>3, <3>2 DEF StreamInv
  <2>. QED  BY <2>2, <2>3
<1>. QED  BY <1>1, <1>2

(* read returns Ok(None) only when every value written has been read,      *)
(* unless a frame that was begun was given up or refused, for streams that *)
(* cut, fail and end anywhere and for futures dropped at any point.        *)
THEOREM NoneMeansAllRead == Spec => []NoneMeansAll
<1>1. StreamInv => NoneMeansAll
  BY DEF StreamInv
<1>. QED  BY <1>1, InitStream, StepStream, PTL DEF Spec

(* Every step of the writer and the reader is a step of FrameQueue: until  *)
(* the stream breaks, the values whose frames were written to the end are  *)
(* read once each and in the order they were sent.                         *)
THEOREM FramingImplementsQueue == Spec => Queue!Init /\ [][Queue!Next]_(Queue!vars)
<1>1. StreamInv /\ [Next]_vars => [Queue!Next]_(Queue!vars)
  BY StepStream DEF QueueStep
<1>. QED  BY <1>1, InitStream, StepStream, PTL DEF Spec
=============================================================================
