------------------------------- MODULE Framing -------------------------------
(***************************************************************************)
(* Length-delimited CBOR values over a byte stream: Writer, Reader,        *)
(* AsyncWriter and AsyncReader of minicbor-io.  The stream takes and gives *)
(* any number of bytes at a time, fails now and then, and ends; the        *)
(* futures of the asynchronous pair may be dropped while pending, after    *)
(* which the application goes on with write, sync or read.                 *)
(*                                                                         *)
(* Bytes are numbers below Base, so that a reader that is out of step      *)
(* takes payload for a length.  A value is the bytes it is encoded to.     *)
(***************************************************************************)
EXTENDS Integers, Sequences, SequencesExt

CONSTANTS
  Modes,        \* subset of {"async", "sync"}
  Values,       \* the encodings of the values, sequences of bytes
  Base,         \* 256
  PrefixLen,    \* 4: the bytes of the length
  WriterMax,    \* max_len of the writer
  ReaderMaxes,  \* max_len of the reader
  PipeCap,      \* bytes the stream holds
  MaxWrites, MaxCancels, MaxErrors   \* bounds

ASSUME ConstantsAssumption ==
  /\ Modes \subseteq {"async", "sync"}
  /\ Base \in Nat \ {0, 1}
  /\ Values \subseteq Seq(0 .. (Base - 1))
  /\ PrefixLen \in Nat \ {0}
  /\ WriterMax \in Nat /\ ReaderMaxes \subseteq Nat
  /\ PipeCap \in Nat \ {0}
  /\ MaxWrites \in Nat /\ MaxCancels \in Nat /\ MaxErrors \in Nat

VARIABLES
  mode, rmax,      \* which pair, and the reader's max_len
  pipe, closed,    \* bytes under way; the writer has closed the stream
  wcall,           \* a future of write or sync is pending
  wbuf, wstate,    \* buffer and state of the writer: None or an offset
  rcall,           \* a future of read is pending
  rstate,          \* ReadLen: [need |-> None, buf]; ReadVal: [need |-> length, buf]
  \* History.
  writes, cancels, errors,
  sent,            \* the values whose frames were written to the end
  got,             \* the values read
  result,          \* how the last read ended
  broken           \* a frame was given up half-way, or refused: from here on nothing is
                   \* promised, although the code lets the caller go on

writer == <<wcall, wbuf, wstate>>
reader == <<rcall, rstate>>
vars == <<mode, rmax, pipe, closed, writer, reader, writes, cancels, errors, sent, got,
          result, broken>>

None == -1

Bytes == 0 .. (Base - 1)
to_be_bytes(n) == [i \in 1 .. PrefixLen |-> (n \div Base ^ (PrefixLen - i)) % Base]
from_be_bytes(s) == FoldLeft(LAMBDA n, b : n * Base + b, 0, s)

(* A prefix has PrefixLen bytes, and a length that a writer accepts fits   *)
(* into them (max_len is set from a u32) and is read back as it was.       *)
ASSUME PrefixAssumption ==
  /\ \A n \in 0 .. WriterMax : /\ to_be_bytes(n) \in [1 .. PrefixLen -> Bytes]
                               /\ from_be_bytes(to_be_bytes(n)) = n
  /\ \A s \in [1 .. PrefixLen -> Bytes] : from_be_bytes(s) \in Nat

(* buffer.resize(4, 0) keeps the first bytes of a longer buffer.           *)
Resized == [i \in 1 .. PrefixLen |-> IF i <= Len(wbuf) THEN wbuf[i] ELSE 0]
Payload(frame) == SubSeq(frame, PrefixLen + 1, Len(frame))

NewRead == [need |-> None, buf |-> <<>>]
Least(a, b) == IF a <= b THEN a ELSE b

Init ==
  /\ mode \in Modes /\ rmax \in ReaderMaxes
  /\ pipe = <<>> /\ closed = FALSE
  /\ wcall = FALSE /\ wbuf = <<>> /\ wstate = None
  /\ rcall = FALSE /\ rstate = NewRead
  /\ writes = 0 /\ cancels = 0 /\ errors = 0
  /\ sent = <<>> /\ got = <<>> /\ result = "" /\ broken = FALSE

-----------------------------------------------------------------------------
(* write_with.  The buffer is overwritten first; the state only once the   *)
(* value is known to be encodable and not too long.                        *)
Encoding ==
  /\ ~ closed /\ ~ wcall
  /\ writes < MaxWrites
  /\ writes' = writes + 1
  /\ UNCHANGED <<mode, rmax, pipe, closed, reader, cancels, errors, sent, got, result>>

Write(v) ==
  /\ Encoding
  /\ Len(v) <= WriterMax
  /\ wbuf' = to_be_bytes(Len(v)) \o v
  /\ wstate' = 0
  /\ wcall' = TRUE
  /\ broken' = (broken \/ wstate > 0)   \* a frame that was begun is given up

(* The value is too long, or fails to encode: the state still says where   *)
(* to go on in a buffer that is gone.                                      *)
WriteRefused(v) ==
  /\ Encoding
  /\ wbuf' \in {Resized} \union (IF Len(v) > WriterMax THEN {Resized \o v} ELSE {})
  /\ broken' = (broken \/ wstate # None)
  /\ UNCHANGED <<wcall, wstate>>

(* sync: some of the bytes are taken ...                                   *)
SyncStepMutant ==   \* mutant: the offset is not advanced
  /\ wcall /\ wstate # None /\ wstate < Len(wbuf)
  /\ \E n \in 1 .. Least(Len(wbuf) - wstate, PipeCap - Len(pipe)) :
       /\ pipe' = pipe \o SubSeq(wbuf, wstate + 1, wstate + n)
       /\ wstate' = n
       /\ sent' = IF wstate' = Len(wbuf) THEN Append(sent, Payload(wbuf)) ELSE sent
  /\ UNCHANGED <<mode, rmax, closed, wcall, wbuf, reader, writes, cancels, errors, got,
                 result, broken>>

SyncStep ==
  /\ wcall /\ wstate # None /\ wstate < Len(wbuf)
  /\ \E n \in 1 .. Least(Len(wbuf) - wstate, PipeCap - Len(pipe)) :
       /\ pipe' = pipe \o SubSeq(wbuf, wstate + 1, wstate + n)
       /\ wstate' = wstate + n
       /\ sent' = IF wstate' = Len(wbuf) THEN Append(sent, Payload(wbuf)) ELSE sent
  /\ UNCHANGED <<mode, rmax, closed, wcall, wbuf, reader, writes, cancels, errors, got,
                 result, broken>>

(* ... and it returns once nothing is left.                                *)
SyncDone ==
  /\ wcall
  /\ wstate = None \/ wstate >= Len(wbuf)
  /\ wstate' = None
  /\ wcall' = FALSE
  /\ UNCHANGED <<mode, rmax, pipe, closed, wbuf, reader, writes, cancels, errors, sent,
                 got, result, broken>>

(* An error of the stream, or a write of 0 bytes.  write_all of the        *)
(* synchronous writer forgets how far it got.                              *)
WriteError ==
  /\ wcall
  /\ errors < MaxErrors
  /\ errors' = errors + 1
  /\ wcall' = FALSE
  /\ wstate' = IF mode = "sync" THEN None ELSE wstate
  /\ broken' = (broken \/ (mode = "sync" /\ wstate \in 1 .. (Len(wbuf) - 1)))
  /\ UNCHANGED <<mode, rmax, pipe, closed, wbuf, reader, writes, cancels, sent, got,
                 result>>

CancelWrite ==
  /\ mode = "async" /\ wcall
  /\ cancels < MaxCancels
  /\ cancels' = cancels + 1
  /\ wcall' = FALSE
  /\ UNCHANGED <<mode, rmax, pipe, closed, wbuf, wstate, reader, writes, errors, sent, got,
                 result, broken>>

(* The application calls sync on its own.                                  *)
Sync ==
  /\ mode = "async" /\ ~ closed /\ ~ wcall /\ wstate # None
  /\ wcall' = TRUE
  /\ UNCHANGED <<mode, rmax, pipe, closed, wbuf, wstate, reader, writes, cancels, errors,
                 sent, got, result, broken>>

Close ==
  /\ ~ closed /\ ~ wcall
  /\ closed' = TRUE
  /\ UNCHANGED <<mode, rmax, pipe, writer, reader, writes, cancels, errors, sent, got,
                 result, broken>>

-----------------------------------------------------------------------------
(* read_with.  The state of the asynchronous reader outlives the call;     *)
(* that of the synchronous one is its local variables.                     *)
Reading(s) == IF mode = "sync" THEN NewRead ELSE s

ReadStart ==
  /\ ~ rcall
  /\ rcall' = TRUE
  /\ UNCHANGED <<mode, rmax, pipe, closed, writer, rstate, writes, cancels, errors, sent,
                 got, result, broken>>

Wanted == (IF rstate.need = None THEN PrefixLen ELSE rstate.need) - Len(rstate.buf)

ReadStep ==
  /\ rcall
  /\ \E n \in 1 .. Least(Wanted, Len(pipe)) :
       /\ rstate' = [rstate EXCEPT !.buf = @ \o SubSeq(pipe, 1, n)]
       /\ pipe' = SubSeq(pipe, n + 1, Len(pipe))
  /\ UNCHANGED <<mode, rmax, closed, writer, rcall, writes, cancels, errors, sent, got,
                 result, broken>>

ReadReturns(res) ==
  /\ rcall' = FALSE
  /\ result' = res
  /\ UNCHANGED <<mode, rmax, closed, writer, writes, cancels, sent>>

(* The length is complete.  An asynchronous reader that finds it too large *)
(* stays where it is; a synchronous one has consumed the prefix, and what  *)
(* comes next is the payload.                                              *)
LenDoneMutant ==   \* mutant: the prefix stays in the buffer
  /\ rcall /\ rstate.need = None /\ Wanted = 0
  /\ from_be_bytes(rstate.buf) <= rmax
  /\ rstate' = [rstate EXCEPT !.need = from_be_bytes(rstate.buf)]
  /\ UNCHANGED <<mode, rmax, pipe, closed, writer, rcall, writes, cancels, errors, sent,
                 got, result, broken>>

LenDone ==
  /\ rcall /\ rstate.need = None /\ Wanted = 0
  /\ from_be_bytes(rstate.buf) <= rmax
  /\ rstate' = [need |-> from_be_bytes(rstate.buf), buf |-> <<>>]
  /\ UNCHANGED <<mode, rmax, pipe, closed, writer, rcall, writes, cancels, errors, sent,
                 got, result, broken>>

LenRefused ==
  /\ rcall /\ rstate.need = None /\ Wanted = 0
  /\ from_be_bytes(rstate.buf) > rmax
  /\ rstate' = Reading(rstate)
  /\ broken' = TRUE
  /\ ReadReturns("InvalidLen")
  /\ UNCHANGED <<pipe, errors, got>>

(* The value is complete and decoded.                                      *)
ReadDone ==
  /\ rcall /\ rstate.need # None /\ Wanted = 0
  /\ rstate' = NewRead
  /\ got' = IF rstate.buf \in Values THEN Append(got, rstate.buf) ELSE got
  /\ ReadReturns(IF rstate.buf \in Values THEN "Some" ELSE "Decode")
  /\ UNCHANGED <<pipe, errors, broken>>

(* The stream is at its end.                                               *)
ReadEof ==
  /\ rcall /\ Wanted > 0
  /\ closed /\ pipe = <<>>
  /\ rstate' = Reading(rstate)
  /\ broken' = (broken \/ rstate # NewRead)
  /\ ReadReturns(IF rstate = NewRead THEN "None" ELSE "UnexpectedEof")
  /\ UNCHANGED <<pipe, errors, got>>

(* An error of the stream.  (The synchronous reader retries an interrupted *)
(* read of the length, which is no step here.)                             *)
ReadError ==
  /\ rcall /\ Wanted > 0
  /\ errors < MaxErrors
  /\ errors' = errors + 1
  /\ rstate' = Reading(rstate)
  /\ broken' = (broken \/ (mode = "sync" /\ rstate # NewRead))
  /\ ReadReturns("Io")
  /\ UNCHANGED <<pipe, got>>

CancelReadMutant ==   \* mutant: the next call starts with a new state
  /\ mode = "async" /\ rcall
  /\ cancels < MaxCancels
  /\ cancels' = cancels + 1
  /\ rcall' = FALSE
  /\ rstate' = NewRead
  /\ UNCHANGED <<mode, rmax, pipe, closed, writer, writes, errors, sent, got, result, broken>>

CancelRead ==
  /\ mode = "async" /\ rcall
  /\ cancels < MaxCancels
  /\ cancels' = cancels + 1
  /\ rcall' = FALSE
  /\ UNCHANGED <<mode, rmax, pipe, closed, writer, rstate, writes, errors, sent, got,
                 result, broken>>

WriterStep ==
  \/ \E v \in Values : Write(v) \/ WriteRefused(v)
  \/ SyncStep \/ SyncDone \/ WriteError \/ CancelWrite \/ Sync \/ Close

ReaderStep ==
  \/ ReadStart \/ ReadStep \/ LenDone \/ LenRefused \/ ReadDone \/ ReadEof
  \/ ReadError \/ CancelRead

Next == WriterStep \/ ReaderStep

Spec == Init /\ [][Next]_vars

(* The reader's application goes on calling read.                          *)
FairSpec == Spec /\ WF_vars(ReadStart \/ ReadStep \/ LenDone \/ LenRefused \/ ReadDone)

-----------------------------------------------------------------------------
(* The offsets lie inside the buffers they point into, and the reader      *)
(* never holds more than it asked for.                                     *)
TypeOK ==
  /\ pipe \in Seq(Bytes) /\ Len(pipe) <= PipeCap
  /\ closed \in BOOLEAN /\ wcall \in BOOLEAN /\ rcall \in BOOLEAN
  /\ wbuf \in Seq(Bytes)
  /\ wstate \in Nat \union {None}
  /\ ~ broken => wstate <= Len(wbuf)
  /\ rstate.need \in Nat \union {None}
  /\ rstate.buf \in Seq(Bytes)
  /\ Wanted >= 0

(* The documentation of AsyncReader and AsyncWriter: reading resumes where *)
(* a dropped future left off, and a dropped write can be resumed by sync.  *)
(* Whatever is cancelled, cut into pieces or retried, the values written   *)
(* arrive once, in order and eventually, unless a frame that was begun is  *)
(* given up or refused.                                                    *)
Queue == INSTANCE FrameQueue WITH received <- got
QueueSpec == Queue!Spec

(* Ok(None), the end of the stream at a boundary of frames, is only        *)
(* returned when nothing was lost: every value written has been read, and  *)
(* no part of another one was.                                             *)
NoneMeansAll == result = "None" /\ ~ broken => got = sent
=============================================================================
