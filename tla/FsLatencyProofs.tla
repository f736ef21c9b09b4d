-------------------------- MODULE FsLatencyProofs --------------------------
(***************************************************************************)
(* Proofs about FsLatency.  The inductive invariant is built in layers:    *)
(* TypeInv (types and control) carries the exclusion of the critical       *)
(* sections, DataInv on top of it Conservation, EmptyInv on top of both    *)
(* NoEmptyReport; CountersNeverAhead needs only TypeInv.                   *)
(*                                                                         *)
(* The second half is about single samples: which record a handler reads,  *)
(* which prefixes its sample reaches, and what the record of a window then *)
(* says, as long as the LRU map has an element per thread; and that no     *)
(* sample is lost on the way.  RecordInv is the invariant about PTRLIST;   *)
(* PrefixInv and, with StartInv, MetricInv rest on it; HeldInv is about    *)
(* the samples between entry and ring.  All rest on TypeInv.               *)
(***************************************************************************)
EXTENDS FsLatency, SequenceTheorems, FiniteSetTheorems, TLAPS

(* Where a thread is in its handler says what its frame, its index and the *)
(* locks are: from the match of a prefix on, the entry was loaded; inside  *)
(* the critical sections the thread is the holder of the entry's lock.     *)
ControlInv ==
  \A t \in Threads :
    /\ pc[t] # "kernel" => frames[t] # <<>>
    /\ pc[t] \in Matched => idx[t] \in Idx /\ Key(t) \in loaded
    /\ pc[t] \in Critical => lock[Key(t)] = t

TypeInv == TypeOK /\ ControlInv

-----------------------------------------------------------------------------
(* u64 additions and subtractions stay in u64. *)
LEMMA ArithmeticType ==
  ASSUME NEW a \in u64, NEW b \in u64
  PROVE  /\ Add64(a, b) \in u64
         /\ Sub64(a, b) \in u64
         /\ Add64(a, b) <= a + b
BY ConstantsAssumption DEF Add64, Sub64, u64

(* The value of a stats entry and of a PTRLIST element that nobody wrote. *)
LEMMA ZeroType ==
  /\ 0 \in u64
  /\ MAX64 \in u64
  /\ ZeroStats \in Stats
BY ConstantsAssumption DEF u64, MAX64, ZeroStats, Stats

(* The snapshot before the first one. *)
LEMMA NoSnapshotType == NoSnapshot \in Message
<1>1. << >> \in Seq(Sample)
  OBVIOUS
<1>2. 0 \in Idx
  BY ConstantsAssumption DEF Idx
<1> QED
  BY <1>1, <1>2, ZeroType DEF NoSnapshot, Message

(* Adding a sample keeps the type of an entry. *)
LEMMA update_stats_lockedType ==
  ASSUME NEW s \in Stats, NEW latency \in u64, NEW bytes \in u64
  PROVE  update_stats_locked(s, latency, bytes) \in Stats
<1>1. 1 \in u64
  BY ConstantsAssumption DEF u64
<1>2. /\ Add64(s.count, 1) \in u64
      /\ Add64(s.total_lat, latency) \in u64
      /\ Add64(s.total_bytes, bytes) \in u64
  BY <1>1, ArithmeticType DEF Stats
<1> HIDE DEF u64
<1> QED
  BY <1>2 DEF update_stats_locked, Stats

(* Clearing keeps the type of an entry. *)
LEMMA clear_stats_lockedType ==
  ASSUME NEW s \in Stats, NEW n \in u64
  PROVE  clear_stats_locked(s, n) \in Stats
BY ZeroType DEF clear_stats_locked, Stats

(* A thread inside a traced call has an innermost call, and thereby an entry. *)
LEMMA TopType ==
  ASSUME TypeOK, NEW t \in Threads, frames[t] # <<>>
  PROVE  /\ Top(t) \in Frame
         /\ Len(frames[t]) \in Nat \ {0}
<1>1. frames[t] \in Seq(Frame)
  BY DEF TypeOK
<1>2. Len(frames[t]) \in Nat \ {0}
  BY <1>1, EmptySeq
<1>3. Len(frames[t]) \in 1 .. Len(frames[t])
  BY <1>2
<1> QED
  BY <1>1, <1>2, <1>3, ElementOfSeq DEF Top

(* Leaving the innermost call keeps the type of the frames. *)
LEMMA ReturnType ==
  ASSUME TypeOK, NEW t \in Threads, frames[t] # <<>>, Return(t)
  PROVE  frames' \in [Threads -> Seq(Frame)]
<1>1. frames[t] \in Seq(Frame) /\ Len(frames[t]) \in Nat \ {0}
  BY TopType DEF TypeOK
<1>2. \A i \in 1 .. (Len(frames[t]) - 1) : frames[t][i] \in Frame
  BY <1>1, ElementOfSeq
<1>3. SubSeq(frames[t], 1, Len(frames[t]) - 1) \in Seq(Frame)
  BY <1>1, <1>2, SubSeqProperties
<1> QED
  BY <1>3 DEF TypeOK, Return

(* Removing a key keeps the type of PTRLIST. *)
LEMMA RemoveKeyType ==
  ASSUME TypeOK, NEW k
  PROVE  RemoveKey(k) \in [Elem -> EntryRec]
<1>1. \A e \in Elem : /\ PTRLIST[e] \in EntryRec
                      /\ [PTRLIST[e] EXCEPT !.key = NoThread] \in EntryRec
  BY ZenonT(30) DEF TypeOK, EntryRec
<1> QED
  BY <1>1 DEF RemoveKey

(* The initial state has its types. *)
LEMMA InitType == Init => TypeInv
<1> SUFFICES ASSUME Init PROVE TypeInv
  OBVIOUS
<1>1. FreeElem \in EntryRec
  BY ZeroType DEF FreeElem, EntryRec
<1>2. TypeOK
  BY <1>1, ConstantsAssumption, ZeroType, NoSnapshotType DEF Init, TypeOK, Idx, Elem, Labels
<1>3. ControlInv
  BY DEF Init, ControlInv, Matched, Critical
<1> QED
  BY <1>2, <1>3 DEF TypeInv

(* The fentry probe keeps the types. *)
LEMMA EntryType ==
  ASSUME TypeInv, NEW t \in Threads, NEW op \in Ops, NEW path \in Paths,
         TryFslatEntry(t, op, path)
  PROVE  TypeOK'
<1>1. clock \in u64
  BY ConstantsAssumption DEF TypeInv, TypeOK, u64
<1>2. frames' \in [Threads -> Seq(Frame)]
  <2>1. frames[t] \in Seq(Frame) /\ [op |-> op, path |-> path, start |-> clock] \in Frame
    BY <1>1 DEF TypeInv, TypeOK, Frame
  <2>2. Append(frames[t], [op |-> op, path |-> path, start |-> clock]) \in Seq(Frame)
    BY <2>1, AppendProperties
  <2> QED
    BY <2>2 DEF TypeInv, TypeOK, TryFslatEntry
<1>3. PTRLIST' \in [Elem -> EntryRec]
  <2>1. [key |-> PidTgid(t), timestamp |-> clock, path |-> path] \in EntryRec
    BY <1>1 DEF EntryRec, PidTgid
  <2> QED
    BY <2>1 DEF TypeInv, TypeOK, TryFslatEntry
<1> QED
  BY <1>2, <1>3 DEF TypeInv, TypeOK, TryFslatEntry, locals, ghosts

(* The start of the fexit probe keeps the types. *)
LEMMA ExitType ==
  ASSUME TypeInv, NEW t \in Threads, NEW r \in Rets,
         \/ TryFslatExitNoRecord(t, r)
         \/ TryFslatExitFailed(t, r)
         \/ TryFslatExit(t, r)
  PROVE  TypeOK'
<1> USE DEF TypeInv
<1>1. CASE TryFslatExitNoRecord(t, r)
  <2>1. frames' \in [Threads -> Seq(Frame)]
    BY <1>1, ReturnType DEF TryFslatExitNoRecord
  <2>2. <<Top(t).op, Top(t).path>> \in Ops \X Paths
    BY <1>1, TopType DEF TryFslatExitNoRecord, Frame
  <2> QED
    BY <1>1, <2>1, <2>2 DEF TypeOK, TryFslatExitNoRecord, maps, locals
<1>2. CASE TryFslatExitFailed(t, r)
  <2>1. frames' \in [Threads -> Seq(Frame)]
    BY <1>2, ReturnType DEF TryFslatExitFailed
  <2>2. PTRLIST' \in [Elem -> EntryRec]
    BY <1>2, RemoveKeyType DEF TryFslatExitFailed
  <2> QED
    BY <1>2, <2>1, <2>2 DEF TypeOK, TryFslatExitFailed, locals, ghosts
<1>3. CASE TryFslatExit(t, r)
  <2>1. /\ clock \in u64
        /\ r \in u64
        /\ 0 \in 0 .. NumPathPrefix
    BY <1>3, ConstantsAssumption DEF TypeOK, TryFslatExit, u64
  <2>2. (CHOOSE e \in ElemsOf(PidTgid(t)) : TRUE) \in Elem
    BY <1>3 DEF TryFslatExit, ElemsOf
  <2>3. Configured(Top(t).op, Top(t).path) \subseteq Idx
    BY DEF Configured
  <2> QED
    BY <1>3, <2>1, <2>2, <2>3 DEF TypeOK, TryFslatExit, maps, Goto, Labels
<1> QED
  BY <1>1, <1>2, <1>3

(* Adding the sample of a thread keeps the types. *)
LEMMA SampleType ==
  ASSUME TypeInv, NEW t \in Threads, pc[t] # "kernel", AddSample(t), idx[t] \in Idx
  PROVE  /\ stats' \in [Keys -> Stats]
         /\ window' \in [Keys -> Seq(Sample)]
         /\ sampled' \in [Keys -> Nat]
         /\ hit' \in [Threads -> SUBSET Idx]
<1> USE DEF TypeInv
<1>1. Key(t) \in Keys
  BY TopType DEF ControlInv, Key, Keys, Frame
<1>2. /\ PTRLIST[ptr[t]] \in EntryRec
      /\ now[t] \in u64
      /\ ret[t] \in u64
      /\ stats[Key(t)] \in Stats
  BY <1>1 DEF TypeOK
<1>3. Sub64(now[t], PTRLIST[ptr[t]].timestamp) \in u64
  BY <1>2, ArithmeticType DEF EntryRec
<1>4. update_stats_locked(stats[Key(t)], Sub64(now[t], PTRLIST[ptr[t]].timestamp), ret[t])
        \in Stats
  BY <1>2, <1>3, update_stats_lockedType
<1>5. [latency |-> now[t] - Top(t).start, bytes |-> ret[t]] \in Sample
  <2>1. Top(t).start \in Int /\ now[t] \in Int /\ ret[t] \in Int
    BY <1>2, TopType DEF ControlInv, Frame, u64
  <2> QED
    BY <2>1 DEF Sample
<1>6. Append(window[Key(t)], [latency |-> now[t] - Top(t).start, bytes |-> ret[t]])
        \in Seq(Sample)
  BY <1>1, <1>5, AppendProperties DEF TypeOK
<1> QED
  BY <1>1, <1>4, <1>6 DEF TypeOK, AddSample

(* Taking the snapshot keeps the types. *)
LEMMA SnapshotType ==
  ASSUME TypeInv, NEW t \in Threads, TakeSnapshot(t)
  PROVE  snapshot' \in [Threads -> Message]
<1> USE DEF TypeInv
<1>1. /\ Top(t) \in Frame
      /\ idx[t] \in Idx
  BY TopType DEF ControlInv, TakeSnapshot, Matched, Critical
<1>2. Key(t) \in Keys
  BY <1>1 DEF Key, Keys, Frame
<1>3. /\ stats[Key(t)] \in Stats
      /\ window[Key(t)] \in Seq(Sample)
      /\ now[t] \in u64
  BY <1>2 DEF TypeOK
<1>4. [op |-> Top(t).op, idx |-> idx[t], min |-> stats[Key(t)].min,
       max |-> stats[Key(t)].max, total_lat |-> stats[Key(t)].total_lat,
       total_bytes |-> stats[Key(t)].total_bytes, count |-> stats[Key(t)].count,
       monotonic |-> now[t], seq |-> 0, samples |-> window[Key(t)]] \in Message
  BY <1>1, <1>3 DEF Message, Stats, Frame
<1> QED
  BY <1>4 DEF TypeOK, TakeSnapshot

(* Adding to one of the counters that are indexed by entry. *)
LEMMA AddAt ==
  ASSUME NEW K, NEW f \in [K -> Nat], NEW k, NEW n \in Nat
  PROVE  [f EXCEPT ![k] = @ + n] \in [K -> Nat]
<1> DEFINE v == f[k] + n
<1>1. k \in K => v \in Nat
  OBVIOUS
<1> HIDE DEF v
<1>2. [f EXCEPT ![k] = v] \in [K -> Nat]
  BY <1>1
<1> QED
  BY <1>2 DEF v

(* The fields of a message. *)
LEMMA MessageFields ==
  ASSUME NEW m \in Message
  PROVE  /\ m.count \in Nat /\ m.min \in Nat /\ m.max \in Nat /\ m.seq \in Nat
         /\ \A n \in Nat : [m EXCEPT !.seq = n] \in Message
<1>1. m.count \in u64 /\ m.min \in u64 /\ m.max \in u64 /\ m.seq \in Nat
  BY DEF Message
<1>2. \A n \in Nat : [m EXCEPT !.seq = n] \in Message
  BY DEF Message
<1> QED
  BY <1>1, <1>2 DEF u64

(* The fields of a record of the ring. *)
LEMMA RecordFields ==
  ASSUME NEW rec \in RingRecord
  PROVE  /\ rec.msg \in Message
         /\ [rec EXCEPT !.busy = FALSE] \in RingRecord
BY DEF RingRecord

(* Every later step of the fexit probe keeps the types. *)
LEMMA HandlerType ==
  ASSUME TypeInv, NEW t \in Threads, Handler(t)
  PROVE  TypeOK'
<1> USE DEF TypeInv
<1>0. idx[t] \in Idx => idx[t] + 1 \in 0 .. NumPathPrefix
  BY ConstantsAssumption DEF Idx
<1>1. CASE Scan(t)
  BY <1>1, <1>0, ZenonT(30) DEF TypeOK, Scan, Continue, Goto, maps, ghosts, Labels
<1>2. CASE Acquire(t)
  BY <1>2 DEF TypeOK, Acquire, Goto, locals, ghosts, Labels
<1>3. CASE Update(t)
  <2>1. idx[t] \in Idx
    BY <1>3 DEF ControlInv, Update, Matched, Critical
  <2>2. /\ stats' \in [Keys -> Stats]
        /\ window' \in [Keys -> Seq(Sample)]
        /\ sampled' \in [Keys -> Nat]
        /\ hit' \in [Threads -> SUBSET Idx]
    BY <1>3, <2>1, SampleType DEF Update
  <2> QED
    BY <1>3, <1>0, <2>1, <2>2
    DEF TypeOK, Update, AddSample, Unlock, Continue, Goto, Labels
<1>4. CASE UpdatePublish(t)
  <2>1. idx[t] \in Idx
    BY <1>4 DEF ControlInv, UpdatePublish, Matched, Critical
  <2>2. /\ stats' \in [Keys -> Stats]
        /\ window' \in [Keys -> Seq(Sample)]
        /\ sampled' \in [Keys -> Nat]
        /\ hit' \in [Threads -> SUBSET Idx]
    BY <1>4, <2>1, SampleType DEF UpdatePublish
  <2> QED
    BY <1>4, <2>2 DEF TypeOK, UpdatePublish, AddSample, Goto, locals, Labels
<1>5. CASE TakeSnapshot(t)
  <2>1. snapshot' \in [Threads -> Message]
    BY <1>5, SnapshotType
  <2> QED
    BY <1>5, <2>1 DEF TypeOK, TakeSnapshot, Goto, maps, ghosts, Labels
<1>6. CASE ClearUnlock(t)
  <2>1. stats' \in [Keys -> Stats]
    BY <1>6, clear_stats_lockedType DEF TypeOK, ClearUnlock
  <2>2. snapshot' \in [Threads -> Message]
    BY <1>6, MessageFields DEF TypeOK, ClearUnlock
  <2>3. handed' \in [Keys -> Nat]
    <3>1. snapshot[t].count \in Nat
      BY MessageFields DEF TypeOK
    <3> QED
      BY <1>6, <3>1, AddAt DEF TypeOK, ClearUnlock
  <2>4. << >> \in Seq(Sample)
    OBVIOUS
  <2> QED
    BY <1>6, <2>1, <2>2, <2>3, <2>4 DEF TypeOK, ClearUnlock, Unlock, Goto, Labels
<1>7. CASE RingbufReserve(t)
  <2>1. /\ ring \in Seq(RingRecord)
        /\ [msg |-> snapshot[t], busy |-> TRUE, by |-> t] \in RingRecord
    BY DEF TypeOK, RingRecord
  <2>2. ring' \in Seq(RingRecord)
    BY <1>7, <2>1, AppendProperties DEF RingbufReserve
  <2> QED
    BY <1>7, <2>2 DEF TypeOK, RingbufReserve, Goto, locals, ghosts, Labels
<1>8. CASE RingbufSubmit(t)
  <2>1. \A i \in DOMAIN ring : /\ ring[i] \in RingRecord
                               /\ [ring[i] EXCEPT !.busy = FALSE] \in RingRecord
    BY ElementOfSeq, RecordFields DEF TypeOK
  <2>2. DOMAIN ring = 1 .. Len(ring) /\ Len(ring) \in Nat
    BY DEF TypeOK
  <2>3. ring' \in [1 .. Len(ring) -> RingRecord]
    BY <1>8, <2>1, <2>2 DEF RingbufSubmit
  <2>4. ring' \in Seq(RingRecord)
    BY <2>2, <2>3, SeqDef
  <2>5. reported' \in [Keys -> Nat]
    <3>1. snapshot[t].count \in Nat
      BY MessageFields DEF TypeOK
    <3> QED
      BY <1>8, <3>1, AddAt DEF TypeOK, RingbufSubmit
  <2> QED
    BY <1>8, <2>4, <2>5 DEF TypeOK, RingbufSubmit, Goto, locals, Labels
<1>9. CASE CounterLoad(t)
  BY <1>9 DEF TypeOK, CounterLoad, Goto, maps, ghosts, Labels
<1>10. CASE CounterStore(t)
  <2>1. idx[t] \in Idx
    BY <1>10 DEF ControlInv, CounterStore, Matched
  <2>2. Add64(tmp[t], 1) \in Nat
    BY ConstantsAssumption DEF TypeOK, Add64
  <2> QED
    BY <1>10, <1>0, <2>1, <2>2 DEF TypeOK, CounterStore, Continue, Goto, Labels
<1>11. CASE RingbufFull(t)
  <2>1. discarded' \in [Keys -> Nat]
    <3>1. snapshot[t].count \in Nat
      BY MessageFields DEF TypeOK
    <3> QED
      BY <1>11, <3>1, AddAt DEF TypeOK, RingbufFull
  <2> QED
    BY <1>11, <2>1 DEF TypeOK, RingbufFull, Goto, maps, Labels
<1>12. CASE DropsStore(t)
  <2>1. Add64(tmp[t], 1) \in Nat
    BY ConstantsAssumption DEF TypeOK, Add64
  <2> QED
    BY <1>12, <2>1 DEF TypeOK, DropsStore, Goto, locals, Labels
<1>13. CASE Finish(t)
  <2>1. frames' \in [Threads -> Seq(Frame)]
    BY <1>13, ReturnType DEF ControlInv, Finish
  <2>2. PTRLIST' \in [Elem -> EntryRec]
    BY <1>13, RemoveKeyType DEF Finish
  <2>3. 1 \in Elem /\ 0 \in 0 .. NumPathPrefix
    BY ConstantsAssumption DEF Elem
  <2> QED
    BY <1>13, <2>1, <2>2, <2>3, ZeroType, NoSnapshotType DEF TypeOK, Finish, Goto, Labels
<1> QED
  BY <1>1, <1>2, <1>3, <1>4, <1>5, <1>6, <1>7, <1>8, <1>9, <1>10, <1>11, <1>12, <1>13
  DEF Handler

(* What ControlInv says of one thread.                                     *)
ControlOf(t) ==
  /\ pc[t] # "kernel" => frames[t] # <<>>
  /\ pc[t] \in Matched => idx[t] \in Idx /\ Key(t) \in loaded
  /\ pc[t] \in Critical => lock[Key(t)] = t

(* A step that does not move thread u, and frees or takes no lock it       *)
(* holds, keeps what ControlInv says of u.                                 *)
LEMMA ControlFrame ==
  ASSUME NEW u \in Threads, ControlOf(u),
         pc'[u] = pc[u], frames'[u] = frames[u], idx'[u] = idx[u],
         loaded \subseteq loaded',
         pc[u] \in Critical => lock'[Key(u)] = lock[Key(u)]
  PROVE  ControlOf(u)'
BY DEF ControlOf, Key, Top

(* Every step keeps the control: who holds which lock, and who is where. *)
LEMMA ControlStep ==
  ASSUME TypeInv, Next
  PROVE  ControlInv'
<1> USE DEF TypeInv
<1> SUFFICES ASSUME NEW u \in Threads PROVE ControlOf(u)'
  BY DEF ControlInv, ControlOf
<1>0. \A t \in Threads : ControlOf(t)
  BY DEF ControlInv, ControlOf
<1>1. CASE Tick
  BY <1>0, <1>1, ControlFrame DEF Tick, maps, locals
<1>2. CASE \E k \in Keys : LoadPrefix(k)
  BY <1>0, <1>2, ControlFrame DEF LoadPrefix, locals
<1>3. CASE Consume
  BY <1>0, <1>3, ControlFrame DEF Consume, locals
<1>4. ASSUME NEW t \in Threads, NEW op \in Ops, NEW path \in Paths,
             TryFslatEntry(t, op, path)
      PROVE  ControlOf(u)'
  <2>1. CASE u # t
    BY <1>0, <1>4, <2>1, ControlFrame DEF TryFslatEntry, locals, TypeOK
  <2>2. CASE u = t
    BY <1>4, <2>2 DEF TryFslatEntry, ControlOf, Matched, Critical
  <2> QED
    BY <2>1, <2>2
<1>5. ASSUME NEW t \in Threads, NEW r \in Rets,
             \/ TryFslatExitNoRecord(t, r)
             \/ TryFslatExitFailed(t, r)
             \/ TryFslatExit(t, r)
      PROVE  ControlOf(u)'
  <2>1. CASE u # t
    BY <1>0, <1>5, <2>1, ControlFrame
    DEF TryFslatExitNoRecord, TryFslatExitFailed, TryFslatExit, Return, Goto, maps, locals,
        TypeOK
  <2>2. CASE u = t
    BY <1>5, <2>2
    DEF TryFslatExitNoRecord, TryFslatExitFailed, TryFslatExit, Goto, ControlOf, Matched,
        Critical, TypeOK
  <2> QED
    BY <2>1, <2>2
<1>6. ASSUME NEW t \in Threads, Handler(t), u # t
      PROVE  ControlOf(u)'
  <2>1. pc'[u] = pc[u] /\ frames'[u] = frames[u] /\ idx'[u] = idx[u] /\ loaded' = loaded
    BY <1>6
    DEF Handler, Scan, Acquire, Update, UpdatePublish, TakeSnapshot, ClearUnlock,
        RingbufReserve, RingbufSubmit, CounterLoad, CounterStore, RingbufFull, DropsStore,
        Finish, Continue, Goto, Return, locals, TypeOK
  <2>2. ASSUME pc[u] \in Critical PROVE lock'[Key(u)] = lock[Key(u)]
    <3>1. lock[Key(u)] = u
      BY <1>0, <2>2 DEF ControlOf
    <3>2. u # NoThread
      BY ConstantsAssumption
    <3>3. CASE Acquire(t)
      BY <3>1, <3>2, <3>3 DEF Acquire, TypeOK
    <3>4. CASE Update(t) \/ ClearUnlock(t)
      <4>1. lock[Key(t)] = t
        BY <1>0, <3>4 DEF ControlOf, Critical, Update, ClearUnlock
      <4>2. Key(u) # Key(t)
        BY <1>6, <3>1, <4>1
      <4>3. Key(u) \in Keys
        BY <1>0, <2>2 DEF ControlOf, Matched, TypeOK
      <4> QED
        BY <3>4, <4>2, <4>3 DEF Update, ClearUnlock, Unlock, TypeOK
    <3>5. CASE lock' = lock
      BY <3>5
    <3> QED
      BY <1>6, <3>3, <3>4, <3>5
      DEF Handler, Scan, UpdatePublish, TakeSnapshot, RingbufReserve, RingbufSubmit,
          CounterLoad, CounterStore, RingbufFull, DropsStore, Finish, maps
  <2> QED
    BY <1>0, <2>1, <2>2, ControlFrame
<1>7. ASSUME Handler(u) PROVE ControlOf(u)'
  <2>0. ControlOf(u)
    BY <1>0
  <2>1. CASE Scan(u)
    <3>1. frames' = frames /\ frames[u] # <<>> /\ loaded' = loaded
      BY <2>0, <2>1 DEF Scan, ControlOf
    <3>2. CASE pc'[u] \in {"scan", "finish"}
      BY <3>1, <3>2 DEF ControlOf, Matched, Critical
    <3>3. CASE idx[u] \in Idx /\ Matches(u) /\ UNCHANGED idx
               /\ pc'[u] \in {"lock_publish", "lock_update"}
      <4>1. Key(u) \in loaded
        BY <3>3 DEF Matches, starts_with, PathLen
      <4> QED
        BY <3>1, <3>3, <4>1 DEF ControlOf, Matched, Critical, Key, Top
    <3> QED
      BY <2>1, <3>2, <3>3 DEF Scan, Continue, Goto, TypeOK
  <2>2. CASE Acquire(u)
    <3>1. Key(u)' = Key(u) /\ Key(u) \in loaded /\ idx[u] \in Idx /\ frames[u] # <<>>
      BY <2>0, <2>2 DEF Acquire, locals, Key, Top, ControlOf, Matched
    <3> QED
      BY <2>2, <3>1 DEF Acquire, locals, ControlOf, Goto, TypeOK
  <2>3. CASE UpdatePublish(u) \/ TakeSnapshot(u) \/ RingbufReserve(u) \/ RingbufSubmit(u)
             \/ CounterLoad(u) \/ RingbufFull(u) \/ ClearUnlock(u)
    <3>1. /\ frames' = frames /\ idx' = idx /\ loaded' = loaded
          /\ pc[u] \in Matched
          /\ pc'[u] \in Matched
      BY <2>3
      DEF UpdatePublish, TakeSnapshot, RingbufReserve, RingbufSubmit, CounterLoad,
          RingbufFull, ClearUnlock, locals, Goto, Matched, Critical, TypeOK
    <3>2. pc'[u] \in Critical => pc[u] \in Critical /\ lock' = lock
      BY <2>3
      DEF UpdatePublish, TakeSnapshot, RingbufReserve, RingbufSubmit, CounterLoad,
          RingbufFull, ClearUnlock, maps, Goto, Critical, TypeOK
    <3>3. Key(u)' = Key(u) /\ pc[u] # "kernel"
      BY <3>1 DEF Key, Top, Matched, Critical
    <3> QED
      BY <2>0, <3>1, <3>2, <3>3 DEF ControlOf
  <2>4. CASE Update(u) \/ CounterStore(u) \/ DropsStore(u)
    BY <2>0, <2>4
    DEF Update, CounterStore, DropsStore, Continue, Goto, ControlOf, Matched, Critical, TypeOK
  <2>5. CASE Finish(u)
    BY <2>5 DEF Finish, Goto, ControlOf, Matched, Critical, TypeOK
  <2> QED
    BY <1>7, <2>1, <2>2, <2>3, <2>4, <2>5 DEF Handler
<1> QED
  BY <1>1, <1>2, <1>3, <1>4, <1>5, <1>6, <1>7 DEF Next

(* Every step keeps types and control. *)
LEMMA TypeStep == TypeInv /\ [Next]_vars => TypeInv'
<1> SUFFICES ASSUME TypeInv, [Next]_vars PROVE TypeInv'
  OBVIOUS
<1>1. CASE UNCHANGED vars
  BY <1>1
  DEF TypeInv, TypeOK, ControlInv, vars, maps, locals, ghosts, Key, Top
<1>2. CASE Next
  <2>1. TypeOK'
    <3>1. CASE Tick
      BY <3>1, ConstantsAssumption DEF TypeInv, TypeOK, Tick, maps, locals, ghosts
    <3>2. CASE \E k \in Keys : LoadPrefix(k)
      BY <3>2, ZeroType DEF TypeInv, TypeOK, LoadPrefix, locals, ghosts
    <3>3. CASE Consume
      <4>1. Tail(ring) \in Seq(RingRecord)
        BY <3>3, HeadTailProperties DEF TypeInv, TypeOK, Consume
      <4> QED
        BY <3>3, <4>1 DEF TypeInv, TypeOK, Consume, locals, ghosts
    <3>4. ASSUME NEW t \in Threads,
                 \E op \in Ops, path \in Paths : TryFslatEntry(t, op, path)
          PROVE  TypeOK'
      <4>1. PICK op \in Ops, path \in Paths : TryFslatEntry(t, op, path)
        BY <3>4
      <4> QED
        BY <4>1, EntryType
    <3>5. ASSUME NEW t \in Threads,
                 \E r \in Rets : \/ TryFslatExitNoRecord(t, r)
                                 \/ TryFslatExitFailed(t, r)
                                 \/ TryFslatExit(t, r)
          PROVE  TypeOK'
      <4>1. PICK r \in Rets : \/ TryFslatExitNoRecord(t, r)
                              \/ TryFslatExitFailed(t, r)
                              \/ TryFslatExit(t, r)
        BY <3>5
      <4> QED
        BY <4>1, ExitType
    <3>6. ASSUME NEW t \in Threads, Handler(t) PROVE TypeOK'
      BY <3>6, HandlerType
    <3> QED
      BY <1>2, <3>1, <3>2, <3>3, <3>4, <3>5, <3>6 DEF Next
  <2> QED
    BY <1>2, <2>1, ControlStep DEF TypeInv
<1> QED
  BY <1>1, <1>2

(* The type invariant holds throughout: the handlers' u64 fields and their *)
(* pointer into PTRLIST stay in range whatever the interleaving.           *)
THEOREM TypeCorrect == Spec => []TypeOK
<1>1. TypeInv => TypeOK
  BY DEF TypeInv
<1> QED
  BY <1>1, InitType, TypeStep, PTL DEF Spec

(* What lies between bpf_spin_lock and bpf_spin_unlock is exclusive: no    *)
(* two handlers are in the critical section of one entry.                  *)
MutualExclusion ==
  \A t, u \in Threads :
    pc[t] \in Critical /\ pc[u] \in Critical /\ Key(t) = Key(u) => t = u

(* bpf_spin_lock excludes all other handlers from an entry until           *)
(* bpf_spin_unlock, on every path of try_fslat_exit.                       *)
THEOREM LockExclusive == Spec => []MutualExclusion
<1>1. TypeInv => MutualExclusion
  BY DEF TypeInv, ControlInv, MutualExclusion
<1> QED
  BY <1>1, InitType, TypeStep, PTL DEF Spec

-----------------------------------------------------------------------------
(* Conservation is not inductive: clearing an entry removes from it what   *)
(* the handler copied some steps earlier, and the prefix loader overwrites *)
(* whole entries.  DataInv adds that nothing comes between the copy and    *)
(* the clear, and that an entry nobody loaded counts nothing.              *)
CopyExact == \A t \in Threads : pc[t] = "clear" => snapshot[t].count = stats[Key(t)].count
UnloadedEmpty == \A k \in Keys \ loaded : stats[k].count = 0
DataInv == Conservation /\ CopyExact /\ UnloadedEmpty

(* The entry a handler works on. *)
LEMMA KeyType ==
  ASSUME TypeInv, NEW t \in Threads, pc[t] \in Matched
  PROVE  Key(t) \in Keys /\ Key(t) \in loaded /\ pc[t] # "kernel" /\ idx[t] \in Idx
BY DEF TypeInv, TypeOK, ControlInv, Matched, Critical

(* A sample raises the count of an entry by one, modulo the width. *)
LEMMA UpdateEffect ==
  ASSUME NEW s \in Stats, NEW latency \in u64, NEW bytes \in u64
  PROVE  LET s2 == update_stats_locked(s, latency, bytes)
         IN  /\ s2.count = Add64(s.count, 1)
             /\ s2.min <= s2.max
<1>1. s.min \in Int /\ s.max \in Int /\ latency \in Int
  BY DEF Stats, u64
<1> DEFINE mn == IF latency < s.min \/ s.min = 0 THEN latency ELSE s.min
           mx == IF latency > s.max \/ s.max = 0 THEN latency ELSE s.max
<1>2. mn <= mx
  BY <1>1
<1> HIDE DEF mn, mx
<1>3. /\ update_stats_locked(s, latency, bytes).count = Add64(s.count, 1)
      /\ update_stats_locked(s, latency, bytes).min = mn
      /\ update_stats_locked(s, latency, bytes).max = mx
  BY DEF update_stats_locked, Stats, mn, mx
<1> QED
  BY <1>2, <1>3

(* What adding the sample of thread t does to the entries.                 *)
LEMMA SampleEffect ==
  ASSUME TypeInv, NEW t \in Threads, pc[t] \in {"update", "update_publish"}, AddSample(t)
  PROVE  /\ Key(t) \in Keys
         /\ sampled'[Key(t)] = sampled[Key(t)] + 1
         /\ stats'[Key(t)].count = Add64(stats[Key(t)].count, 1)
         /\ stats'[Key(t)].min <= stats'[Key(t)].max
         /\ \A k \in Keys : k # Key(t) => stats'[k] = stats[k] /\ sampled'[k] = sampled[k]
<1> USE DEF TypeInv
<1>1. Key(t) \in Keys
  BY KeyType DEF Matched, Critical
<1>2. /\ PTRLIST[ptr[t]] \in EntryRec
      /\ now[t] \in u64
      /\ ret[t] \in u64
      /\ stats[Key(t)] \in Stats
  BY <1>1 DEF TypeOK
<1> DEFINE lat == Sub64(now[t], PTRLIST[ptr[t]].timestamp)
<1>3. lat \in u64
  BY <1>2, ArithmeticType DEF EntryRec
<1>4. stats' = [stats EXCEPT ![Key(t)] = update_stats_locked(stats[Key(t)], lat, ret[t])]
  BY DEF AddSample
<1> HIDE DEF lat
<1>5. stats'[Key(t)] = update_stats_locked(stats[Key(t)], lat, ret[t])
  BY <1>1, <1>4 DEF TypeOK
<1>6. /\ stats'[Key(t)].count = Add64(stats[Key(t)].count, 1)
      /\ stats'[Key(t)].min <= stats'[Key(t)].max
  BY <1>2, <1>3, <1>5, UpdateEffect
<1>7. \A k \in Keys : k # Key(t) => stats'[k] = stats[k]
  BY <1>4 DEF TypeOK
<1> QED
  BY <1>1, <1>6, <1>7 DEF AddSample, TypeOK

(* A thread that does not move, or moves inside the handler.               *)
LEMMA SameKey ==
  ASSUME NEW u \in Threads, frames'[u] = frames[u], idx'[u] = idx[u]
  PROVE  Key(u)' = Key(u)
BY DEF Key, Top

(* What the copy of a snapshot says of its entry survives the steps of others. *)
LEMMA CopyFrame ==
  ASSUME TypeInv, DataInv, NEW t \in Threads, NEW u \in Threads, u # t,
         pc[t] \in Critical, Handler(t), pc'[u] = "clear",
         \A k \in Keys : k # Key(t) => stats'[k] = stats[k]
  PROVE  snapshot'[u].count = stats'[Key(u)'].count
<1>1. /\ pc[u] = "clear"
      /\ frames'[u] = frames[u]
      /\ idx'[u] = idx[u]
      /\ snapshot'[u] = snapshot[u]
  BY DEF TypeInv, TypeOK, Handler, Scan, Acquire, Update, UpdatePublish, TakeSnapshot,
     ClearUnlock, RingbufReserve, RingbufSubmit, CounterLoad, CounterStore, RingbufFull,
     DropsStore, Finish, Continue, Goto, Return, locals
<1>2. Key(u)' = Key(u) /\ Key(u) \in Keys
  BY <1>1, SameKey, KeyType DEF Matched, Critical
<1>3. Key(u) # Key(t)
  BY <1>1 DEF TypeInv, ControlInv, Critical
<1> QED
  BY <1>1, <1>2, <1>3 DEF DataInv, CopyExact

(* The accounting is right at first. *)
LEMMA DataInit == Init => DataInv
BY ConstantsAssumption
DEF Init, DataInv, Conservation, CopyExact, UnloadedEmpty, ZeroStats

(* The accounting survives a sample. *)
LEMMA DataSample ==
  ASSUME TypeInv, DataInv, NEW t \in Threads, Update(t) \/ UpdatePublish(t)
  PROVE  DataInv'
<1>1. /\ AddSample(t)
      /\ pc[t] \in {"update", "update_publish"}
      /\ handed' = handed
      /\ loaded' = loaded
      /\ pc'[t] # "clear"
  BY DEF TypeInv, TypeOK, Update, UpdatePublish, Continue, Goto
<1>2. /\ Key(t) \in Keys /\ Key(t) \in loaded
      /\ sampled'[Key(t)] = sampled[Key(t)] + 1
      /\ stats'[Key(t)].count = Add64(stats[Key(t)].count, 1)
      /\ \A k \in Keys : k # Key(t) => stats'[k] = stats[k] /\ sampled'[k] = sampled[k]
  BY <1>1, SampleEffect, KeyType DEF Matched, Critical
<1>3. Conservation'
  <2> SUFFICES ASSUME NEW k \in Keys, sampled'[k] < U64
               PROVE  sampled'[k] = stats'[k].count + handed'[k]
    BY DEF Conservation
  <2>1. CASE k # Key(t)
    BY <1>1, <1>2, <2>1 DEF DataInv, Conservation
  <2>2. CASE k = Key(t)
    <3>1. /\ sampled[k] \in Nat /\ handed[k] \in Nat
          /\ stats[k].count \in u64
      BY DEF TypeInv, TypeOK, Stats
    <3>2. sampled[k] < U64 /\ U64 \in Nat
      BY <1>2, <2>2, <3>1, ConstantsAssumption
    <3>3. sampled[k] = stats[k].count + handed[k]
      BY <3>2 DEF DataInv, Conservation
    <3>4. Add64(stats[k].count, 1) = stats[k].count + 1
      BY <1>2, <2>2, <3>1, <3>2, <3>3 DEF Add64, u64
    <3> QED
      BY <1>1, <1>2, <2>2, <3>1, <3>3, <3>4 DEF u64
  <2> QED
    BY <2>1, <2>2
<1>4. CopyExact'
  BY <1>1, <1>2, CopyFrame DEF CopyExact, Handler, Critical
<1>5. UnloadedEmpty'
  BY <1>1, <1>2 DEF DataInv, UnloadedEmpty
<1> QED
  BY <1>3, <1>4, <1>5 DEF DataInv

(* The accounting survives a snapshot. *)
LEMMA DataSnapshot ==
  ASSUME TypeInv, DataInv, NEW t \in Threads, TakeSnapshot(t)
  PROVE  DataInv'
<1>1. stats' = stats /\ sampled' = sampled /\ handed' = handed /\ loaded' = loaded
  BY DEF TakeSnapshot, maps, ghosts
<1>2. CopyExact'
  <2> SUFFICES ASSUME NEW u \in Threads, pc'[u] = "clear"
               PROVE  snapshot'[u].count = stats'[Key(u)'].count
    BY DEF CopyExact
  <2>1. CASE u # t
    BY <1>1, <2>1, CopyFrame DEF Handler, Critical, TakeSnapshot
  <2>2. CASE u = t
    <3>1. Key(t)' = Key(t)
      BY SameKey DEF TakeSnapshot
    <3>2. snapshot'[t].count = stats[Key(t)].count
      BY DEF TakeSnapshot, TypeInv, TypeOK
    <3> QED
      BY <1>1, <2>2, <3>1, <3>2
  <2> QED
    BY <2>1, <2>2
<1> QED
  BY <1>1, <1>2 DEF DataInv, Conservation, UnloadedEmpty

(* The accounting survives the clearing of an entry. *)
LEMMA DataClear ==
  ASSUME TypeInv, DataInv, NEW t \in Threads, ClearUnlock(t)
  PROVE  DataInv'
<1>1. /\ Key(t) \in Keys /\ Key(t) \in loaded
      /\ stats[Key(t)] \in Stats
      /\ snapshot[t].count = stats[Key(t)].count
  BY KeyType DEF ClearUnlock, TypeInv, TypeOK, DataInv, CopyExact, Matched, Critical
<1>2. /\ stats'[Key(t)].count = 0
      /\ handed'[Key(t)] = handed[Key(t)] + stats[Key(t)].count
      /\ \A k \in Keys : k # Key(t) => stats'[k] = stats[k] /\ handed'[k] = handed[k]
  BY <1>1 DEF ClearUnlock, TypeInv, TypeOK, clear_stats_locked, Stats
<1>3. sampled' = sampled /\ loaded' = loaded /\ pc'[t] # "clear" /\ pc[t] = "clear"
  BY DEF ClearUnlock, Goto, TypeInv, TypeOK
<1>4. Conservation'
  <2> SUFFICES ASSUME NEW k \in Keys, sampled'[k] < U64
               PROVE  sampled'[k] = stats'[k].count + handed'[k]
    BY DEF Conservation
  <2>1. stats[k].count \in Nat /\ handed[k] \in Nat
    BY DEF TypeInv, TypeOK, Stats, u64
  <2>2. sampled[k] = stats[k].count + handed[k]
    BY <1>3 DEF DataInv, Conservation
  <2>3. CASE k # Key(t)
    BY <1>2, <1>3, <2>2, <2>3
  <2>4. CASE k = Key(t)
    BY <1>2, <1>3, <2>1, <2>2, <2>4
  <2> QED
    BY <2>3, <2>4
<1>5. CopyExact'
  BY <1>2, <1>3, CopyFrame DEF CopyExact, Handler, Critical
<1>6. UnloadedEmpty'
  BY <1>1, <1>2, <1>3 DEF DataInv, UnloadedEmpty
<1> QED
  BY <1>4, <1>5, <1>6 DEF DataInv

(* The accounting survives the loader's write, which finds no samples. *)
LEMMA DataLoad ==
  ASSUME TypeInv, DataInv, NEW k \in Keys, LoadPrefix(k)
  PROVE  DataInv'
<1>1. stats[k].count = 0
  BY DEF LoadPrefix, DataInv, UnloadedEmpty
<1>2. /\ \A j \in Keys : stats'[j].count = stats[j].count
      /\ sampled' = sampled /\ handed' = handed /\ loaded \subseteq loaded'
  BY <1>1 DEF LoadPrefix, TypeInv, TypeOK, ZeroStats, ghosts
<1>3. CopyExact'
  <2> SUFFICES ASSUME NEW u \in Threads, pc'[u] = "clear"
               PROVE  snapshot'[u].count = stats'[Key(u)'].count
    BY DEF CopyExact
  <2>1. pc[u] = "clear" /\ snapshot' = snapshot /\ Key(u)' = Key(u)
    BY SameKey DEF LoadPrefix, locals
  <2>2. Key(u) \in Keys
    BY <2>1, KeyType DEF Matched, Critical
  <2> QED
    BY <1>2, <2>1, <2>2 DEF DataInv, CopyExact
<1> QED
  BY <1>2, <1>3 DEF DataInv, Conservation, UnloadedEmpty

(* The other steps leave the entries alone, and none of them enters or     *)
(* alters the state between the copy and the clear.                        *)
LEMMA DataOther ==
  ASSUME TypeInv, DataInv,
         stats' = stats, sampled' = sampled, handed' = handed, loaded' = loaded,
         \A u \in Threads : pc'[u] = "clear" =>
           /\ pc[u] = "clear" /\ snapshot'[u] = snapshot[u]
           /\ frames'[u] = frames[u] /\ idx'[u] = idx[u]
  PROVE  DataInv'
<1>1. CopyExact'
  BY SameKey DEF DataInv, CopyExact
<1> QED
  BY <1>1 DEF DataInv, Conservation, UnloadedEmpty

(* The accounting survives every step. *)
LEMMA DataStep == TypeInv /\ DataInv /\ [Next]_vars => DataInv'
<1> SUFFICES ASSUME TypeInv, DataInv, [Next]_vars PROVE DataInv'
  OBVIOUS
<1>1. CASE UNCHANGED vars
  BY <1>1, DataOther DEF vars, maps, locals, ghosts
<1>2. CASE Tick
  BY <1>2, DataOther DEF Tick, maps, locals, ghosts
<1>3. CASE Consume
  BY <1>3, DataOther DEF Consume, locals, ghosts
<1>4. CASE \E k \in Keys : LoadPrefix(k)
  BY <1>4, DataLoad
<1>5. ASSUME NEW t \in Threads, NEW op \in Ops, NEW path \in Paths,
             TryFslatEntry(t, op, path)
      PROVE  DataInv'
  BY <1>5, DataOther DEF TryFslatEntry, locals, ghosts, TypeInv, TypeOK
<1>6. ASSUME NEW t \in Threads, NEW r \in Rets,
             \/ TryFslatExitNoRecord(t, r)
             \/ TryFslatExitFailed(t, r)
             \/ TryFslatExit(t, r)
      PROVE  DataInv'
  BY <1>6, DataOther
  DEF TryFslatExitNoRecord, TryFslatExitFailed, TryFslatExit, Return, Goto, maps, locals,
      ghosts, TypeInv, TypeOK
<1>7. ASSUME NEW t \in Threads, Handler(t) PROVE DataInv'
  <2>1. CASE Update(t) \/ UpdatePublish(t)
    BY <2>1, DataSample
  <2>2. CASE TakeSnapshot(t)
    BY <2>2, DataSnapshot
  <2>3. CASE ClearUnlock(t)
    BY <2>3, DataClear
  <2>4. CASE Scan(t) \/ Acquire(t) \/ RingbufReserve(t) \/ RingbufSubmit(t) \/ CounterLoad(t)
             \/ CounterStore(t) \/ RingbufFull(t) \/ DropsStore(t) \/ Finish(t)
    BY <2>4, DataOther
    DEF Scan, Acquire, RingbufReserve, RingbufSubmit, CounterLoad, CounterStore, RingbufFull,
        DropsStore, Finish, Continue, Goto, Return, maps, locals, ghosts, TypeInv, TypeOK
  <2> QED
    BY <1>7, <2>1, <2>2, <2>3, <2>4 DEF Handler
<1> QED
  BY <1>1, <1>2, <1>3, <1>4, <1>5, <1>6, <1>7 DEF Next

(* For every number of threads, functions, prefixes and records: samples   *)
(* are neither lost nor counted twice between an entry and the snapshots   *)
(* taken of it, although the choice between updating and publishing is     *)
(* made before the lock is taken and the loader takes no lock at all.      *)
THEOREM SamplesConserved == Spec => []Conservation
<1>1. DataInv => Conservation
  BY DEF DataInv
<1> QED
  BY <1>1, InitType, TypeStep, DataInit, DataStep, PTL DEF Spec

-----------------------------------------------------------------------------
(* NoEmptyReport, followed back from the ring to the snapshot and from it  *)
(* to the entry: whoever publishes has added its own sample under the lock *)
(* it still holds, even if another thread cleared the entry just before.   *)
NotEmpty(s) == s.count >= 1 /\ s.min <= s.max
NoWrap == \A k \in Keys : sampled[k] < U64

EmptyInv ==
  NoWrap =>
    /\ \A t \in Threads : pc[t] = "snapshot" => NotEmpty(stats[Key(t)])
    /\ \A t \in Threads : pc[t] \in {"clear", "reserve"} => NotEmpty(snapshot[t])
    /\ \A i \in DOMAIN ring : NotEmpty(ring[i].msg)

(* No record is empty at first. *)
LEMMA EmptyInit == Init => EmptyInv
BY DEF Init, EmptyInv

(* Steps that add no sample, reserve no record and take no snapshot.       *)
LEMMA EmptyOther ==
  ASSUME TypeInv, EmptyInv, sampled' = sampled,
         \A u \in Threads : pc'[u] = "snapshot" =>
           /\ pc[u] = "snapshot" /\ frames'[u] = frames[u] /\ idx'[u] = idx[u]
           /\ stats'[Key(u)] = stats[Key(u)],
         \A u \in Threads : pc'[u] \in {"clear", "reserve"} =>
           /\ pc[u] \in {"clear", "reserve"}
           /\ snapshot'[u].count = snapshot[u].count
           /\ snapshot'[u].min = snapshot[u].min
           /\ snapshot'[u].max = snapshot[u].max,
         \A i \in DOMAIN ring' : \E j \in DOMAIN ring : ring'[i].msg = ring[j].msg
  PROVE  EmptyInv'
<1> SUFFICES ASSUME NoWrap'
             PROVE  /\ \A t \in Threads : pc'[t] = "snapshot" => NotEmpty(stats'[Key(t)'])
                    /\ \A t \in Threads :
                         pc'[t] \in {"clear", "reserve"} => NotEmpty(snapshot'[t])
                    /\ \A i \in DOMAIN ring' : NotEmpty(ring'[i].msg)
  BY DEF EmptyInv, NotEmpty
<1>1. NoWrap
  BY DEF NoWrap
<1> QED
  BY <1>1, SameKey DEF EmptyInv, NotEmpty

(* While a thread is between its sample and its copy, the steps of other   *)
(* threads do not touch its entry.                                         *)
LEMMA EntryFrame ==
  ASSUME TypeInv, NEW t \in Threads, NEW u \in Threads, u # t,
         pc[u] \in Critical, pc[t] \in Critical,
         \A k \in Keys : k # Key(t) => stats'[k] = stats[k]
  PROVE  stats'[Key(u)] = stats[Key(u)]
<1>1. Key(u) \in Keys
  BY KeyType DEF Matched
<1>2. Key(u) # Key(t)
  BY DEF TypeInv, ControlInv
<1> QED
  BY <1>1, <1>2

(* What a step of thread t leaves alone in thread u.                       *)
LEMMA OthersFrame ==
  ASSUME TypeInv, NEW t \in Threads, NEW u \in Threads, u # t, Handler(t)
  PROVE  /\ pc'[u] = pc[u] /\ frames'[u] = frames[u] /\ idx'[u] = idx[u]
         /\ snapshot'[u] = snapshot[u] /\ tmp'[u] = tmp[u]
BY DEF TypeInv, TypeOK, Handler, Scan, Acquire, Update, UpdatePublish, TakeSnapshot,
   ClearUnlock, RingbufReserve, RingbufSubmit, CounterLoad, CounterStore, RingbufFull,
   DropsStore, Finish, Continue, Goto, Return, locals

(* After a sample, the entry is not empty. *)
LEMMA EmptySample ==
  ASSUME TypeInv, DataInv, DataInv', EmptyInv, NEW t \in Threads, Update(t) \/ UpdatePublish(t)
  PROVE  EmptyInv'
<1>0. /\ AddSample(t) /\ Handler(t)
      /\ pc[t] \in {"update", "update_publish"} /\ pc[t] \in Critical
      /\ ring' = ring /\ snapshot' = snapshot /\ handed' = handed
      /\ pc'[t] \notin {"clear", "reserve"}
  BY DEF Update, UpdatePublish, Handler, Critical, locals, Continue, Goto, TypeInv, TypeOK
<1>1. /\ Key(t) \in Keys
      /\ sampled'[Key(t)] = sampled[Key(t)] + 1
      /\ stats'[Key(t)].count = Add64(stats[Key(t)].count, 1)
      /\ stats'[Key(t)].min <= stats'[Key(t)].max
      /\ \A k \in Keys : k # Key(t) => stats'[k] = stats[k] /\ sampled'[k] = sampled[k]
  BY <1>0, SampleEffect
<1> SUFFICES ASSUME NoWrap'
             PROVE  /\ \A u \in Threads : pc'[u] = "snapshot" => NotEmpty(stats'[Key(u)'])
                    /\ \A u \in Threads :
                         pc'[u] \in {"clear", "reserve"} => NotEmpty(snapshot'[u])
                    /\ \A i \in DOMAIN ring' : NotEmpty(ring'[i].msg)
  BY DEF EmptyInv, NotEmpty
<1>2. NoWrap
  <2> SUFFICES ASSUME NEW k \in Keys PROVE sampled[k] < U64
    BY DEF NoWrap
  <2>1. sampled[k] \in Nat /\ U64 \in Nat /\ sampled'[k] < U64
    BY ConstantsAssumption DEF TypeInv, TypeOK, NoWrap
  <2> QED
    BY <1>1, <2>1
<1>3. NotEmpty(stats'[Key(t)])
  <2>1. /\ sampled[Key(t)] \in Nat /\ handed[Key(t)] \in Nat
        /\ stats[Key(t)].count \in u64
    BY <1>1 DEF TypeInv, TypeOK, Stats
  <2>2. /\ sampled[Key(t)] = stats[Key(t)].count + handed[Key(t)]
        /\ sampled'[Key(t)] < U64
    BY <1>1, <1>2 DEF DataInv, Conservation, NoWrap
  <2>3. Add64(stats[Key(t)].count, 1) >= 1
    BY <1>1, <2>1, <2>2, ConstantsAssumption, SMTT(30) DEF Add64, u64
  <2> QED
    BY <1>1, <2>3 DEF NotEmpty
<1>4. ASSUME NEW u \in Threads, pc'[u] = "snapshot" PROVE NotEmpty(stats'[Key(u)'])
  <2>1. CASE u = t
    <3>1. Key(t)' = Key(t)
      BY <1>4, <2>1, SameKey DEF Update, UpdatePublish, locals, Continue, Goto, TypeInv, TypeOK
    <3> QED
      BY <1>3, <2>1, <3>1
  <2>2. CASE u # t
    <3>1. pc[u] = "snapshot" /\ Key(u)' = Key(u)
      BY <1>0, <1>4, <2>2, OthersFrame, SameKey
    <3>2. stats'[Key(u)] = stats[Key(u)]
      BY <1>0, <1>1, <2>2, <3>1, EntryFrame DEF Critical
    <3> QED
      BY <1>2, <3>1, <3>2 DEF EmptyInv, NotEmpty
  <2> QED
    BY <2>1, <2>2
<1>5. ASSUME NEW u \in Threads, pc'[u] \in {"clear", "reserve"} PROVE NotEmpty(snapshot'[u])
  <2>1. pc[u] \in {"clear", "reserve"}
    BY <1>0, <1>5, OthersFrame
  <2> QED
    BY <1>0, <1>2, <2>1 DEF EmptyInv, NotEmpty
<1> QED
  BY <1>0, <1>2, <1>4, <1>5 DEF EmptyInv, NotEmpty

(* The snapshot of an entry that is not empty is not empty. *)
LEMMA EmptySnapshot ==
  ASSUME TypeInv, EmptyInv, NEW t \in Threads, TakeSnapshot(t)
  PROVE  EmptyInv'
<1>0. Handler(t) /\ stats' = stats /\ ring' = ring /\ sampled' = sampled
  BY DEF Handler, TakeSnapshot, maps, ghosts
<1> SUFFICES ASSUME NoWrap
             PROVE  /\ \A u \in Threads : pc'[u] = "snapshot" => NotEmpty(stats'[Key(u)'])
                    /\ \A u \in Threads :
                         pc'[u] \in {"clear", "reserve"} => NotEmpty(snapshot'[u])
                    /\ \A i \in DOMAIN ring' : NotEmpty(ring'[i].msg)
  BY <1>0 DEF EmptyInv, NotEmpty, NoWrap
<1>1. /\ pc[t] = "snapshot" /\ pc'[t] = "clear"
      /\ snapshot'[t].count = stats[Key(t)].count
      /\ snapshot'[t].min = stats[Key(t)].min
      /\ snapshot'[t].max = stats[Key(t)].max
  BY DEF TakeSnapshot, Goto, TypeInv, TypeOK
<1>2. ASSUME NEW u \in Threads, pc'[u] = "snapshot" PROVE NotEmpty(stats'[Key(u)'])
  BY <1>0, <1>1, <1>2, OthersFrame, SameKey DEF EmptyInv, NotEmpty
<1>3. ASSUME NEW u \in Threads, pc'[u] \in {"clear", "reserve"} PROVE NotEmpty(snapshot'[u])
  BY <1>0, <1>1, <1>3, OthersFrame DEF EmptyInv, NotEmpty
<1> QED
  BY <1>0, <1>2, <1>3 DEF EmptyInv, NotEmpty

(* A record reserved for a snapshot that is not empty is not empty. *)
LEMMA EmptyReserve ==
  ASSUME TypeInv, EmptyInv, NEW t \in Threads, RingbufReserve(t)
  PROVE  EmptyInv'
<1>0. /\ Handler(t) /\ stats' = stats /\ sampled' = sampled /\ snapshot' = snapshot
      /\ pc[t] = "reserve" /\ pc'[t] = "submit"
  BY DEF Handler, RingbufReserve, locals, ghosts, Goto, TypeInv, TypeOK
<1> SUFFICES ASSUME NoWrap
             PROVE  /\ \A u \in Threads : pc'[u] = "snapshot" => NotEmpty(stats'[Key(u)'])
                    /\ \A u \in Threads :
                         pc'[u] \in {"clear", "reserve"} => NotEmpty(snapshot'[u])
                    /\ \A i \in DOMAIN ring' : NotEmpty(ring'[i].msg)
  BY <1>0 DEF EmptyInv, NotEmpty, NoWrap
<1>1. ASSUME NEW u \in Threads, pc'[u] = "snapshot" PROVE NotEmpty(stats'[Key(u)'])
  BY <1>0, <1>1, OthersFrame, SameKey DEF EmptyInv, NotEmpty
<1>2. ASSUME NEW u \in Threads, pc'[u] \in {"clear", "reserve"} PROVE NotEmpty(snapshot'[u])
  BY <1>0, <1>2, OthersFrame DEF EmptyInv, NotEmpty
<1>3. ASSUME NEW i \in DOMAIN ring' PROVE NotEmpty(ring'[i].msg)
  <2> DEFINE rec == [msg |-> snapshot[t], busy |-> TRUE, by |-> t]
  <2>1. ring \in Seq(RingRecord) /\ rec \in RingRecord /\ ring' = Append(ring, rec)
    BY DEF TypeInv, TypeOK, RingRecord, RingbufReserve
  <2>2. i \in 1 .. (Len(ring) + 1) /\ Len(ring) \in Nat
    BY <1>3, <2>1, AppendProperties, LenProperties
  <2>3. CASE i \in 1 .. Len(ring)
    BY <2>1, <2>3, AppendProperties, LenProperties DEF EmptyInv, NotEmpty
  <2>4. CASE i = Len(ring) + 1
    <3>1. ring'[i] = rec
      BY <2>1, <2>4, AppendProperties
    <3>2. NotEmpty(snapshot[t])
      BY <1>0 DEF EmptyInv
    <3> QED
      BY <3>1, <3>2
  <2> QED
    BY <2>2, <2>3, <2>4
<1> QED
  BY <1>1, <1>2, <1>3

(* No step brings an empty record into the ring. *)
LEMMA EmptyStep == TypeInv /\ DataInv /\ DataInv' /\ EmptyInv /\ [Next]_vars => EmptyInv'
<1> SUFFICES ASSUME TypeInv, DataInv, DataInv', EmptyInv, [Next]_vars PROVE EmptyInv'
  OBVIOUS
<1>1. CASE UNCHANGED vars
  BY <1>1, EmptyOther DEF vars, maps, locals, ghosts
<1>2. CASE Tick
  BY <1>2, EmptyOther DEF Tick, maps, locals, ghosts
<1>3. CASE Consume
  <2>1. \A i \in DOMAIN ring' : i + 1 \in DOMAIN ring /\ ring'[i] = ring[i + 1]
    <3>1. ring \in Seq(RingRecord) /\ ring # <<>> /\ ring' = Tail(ring)
      BY <1>3 DEF Consume, TypeInv, TypeOK
    <3>2. /\ Len(ring) \in Nat /\ DOMAIN ring = 1 .. Len(ring)
          /\ ring' \in Seq(RingRecord) /\ Len(ring') = Len(ring) - 1
          /\ DOMAIN ring' = 1 .. Len(ring')
          /\ \A i \in 1 .. Len(ring') : ring'[i] = ring[i + 1]
      BY <3>1, HeadTailProperties, LenProperties
    <3> QED
      BY <3>2
  <2> QED
    BY <1>3, <2>1, EmptyOther DEF Consume, locals, ghosts
<1>4. ASSUME NEW k \in Keys, LoadPrefix(k) PROVE EmptyInv'
  <2>1. \A u \in Threads : pc[u] = "snapshot" => stats'[Key(u)] = stats[Key(u)]
    BY <1>4, KeyType, SMTT(30) DEF LoadPrefix, TypeInv, TypeOK, Matched, Critical
  <2> QED
    BY <1>4, <2>1, EmptyOther DEF LoadPrefix, locals, ghosts
<1>5. ASSUME NEW t \in Threads, NEW op \in Ops, NEW path \in Paths,
             TryFslatEntry(t, op, path)
      PROVE  EmptyInv'
  BY <1>5, EmptyOther DEF TryFslatEntry, locals, ghosts, TypeInv, TypeOK
<1>6. ASSUME NEW t \in Threads, NEW r \in Rets,
             \/ TryFslatExitNoRecord(t, r)
             \/ TryFslatExitFailed(t, r)
             \/ TryFslatExit(t, r)
      PROVE  EmptyInv'
  BY <1>6, EmptyOther
  DEF TryFslatExitNoRecord, TryFslatExitFailed, TryFslatExit, Return, Goto, maps, locals,
      ghosts, TypeInv, TypeOK
<1>7. ASSUME NEW t \in Threads, Handler(t) PROVE EmptyInv'
  <2>1. CASE Update(t) \/ UpdatePublish(t)
    BY <2>1, EmptySample
  <2>2. CASE TakeSnapshot(t)
    BY <2>2, EmptySnapshot
  <2>3. CASE RingbufReserve(t)
    BY <2>3, EmptyReserve
  <2>4. CASE ClearUnlock(t)
    <3>1. /\ pc[t] = "clear" /\ pc'[t] = "reserve" /\ pc[t] \in Critical
          /\ sampled' = sampled /\ ring' = ring
          /\ \A k \in Keys : k # Key(t) => stats'[k] = stats[k]
      BY <2>4 DEF ClearUnlock, Goto, TypeInv, TypeOK, Critical
    <3>2. /\ snapshot'[t].count = snapshot[t].count
          /\ snapshot'[t].min = snapshot[t].min
          /\ snapshot'[t].max = snapshot[t].max
      BY <2>4, ZenonT(30) DEF ClearUnlock, TypeInv, TypeOK, Message
    <3>3. ASSUME NEW u \in Threads, pc'[u] = "snapshot"
          PROVE  /\ pc[u] = "snapshot" /\ frames'[u] = frames[u] /\ idx'[u] = idx[u]
                 /\ stats'[Key(u)] = stats[Key(u)]
      <4>1. pc[u] = "snapshot" /\ frames'[u] = frames[u] /\ idx'[u] = idx[u] /\ u # t
        BY <1>7, <3>1, <3>3, OthersFrame
      <4> QED
        BY <3>1, <4>1, EntryFrame DEF Critical
    <3>4. ASSUME NEW u \in Threads, pc'[u] \in {"clear", "reserve"}
          PROVE  /\ pc[u] \in {"clear", "reserve"}
                 /\ snapshot'[u].count = snapshot[u].count
                 /\ snapshot'[u].min = snapshot[u].min
                 /\ snapshot'[u].max = snapshot[u].max
      BY <1>7, <3>1, <3>2, <3>4, OthersFrame
    <3> QED
      BY <3>1, <3>3, <3>4, EmptyOther
  <2>5. CASE RingbufSubmit(t)
    <3>1. \A i \in DOMAIN ring' : i \in DOMAIN ring /\ ring'[i].msg = ring[i].msg
      <4>1. \A i \in DOMAIN ring : ring[i] \in RingRecord
        BY ElementOfSeq, LenProperties DEF TypeInv, TypeOK
      <4>2. \A i \in DOMAIN ring : [ring[i] EXCEPT !.busy = FALSE].msg = ring[i].msg
        BY <4>1 DEF RingRecord
      <4> QED
        BY <2>5, <4>2 DEF RingbufSubmit
    <3> QED
      BY <2>5, <3>1, EmptyOther DEF RingbufSubmit, Goto, locals, TypeInv, TypeOK
  <2>6. CASE Scan(t) \/ Acquire(t) \/ CounterLoad(t) \/ CounterStore(t) \/ RingbufFull(t)
             \/ DropsStore(t) \/ Finish(t)
    BY <2>6, EmptyOther, ZenonT(30)
    DEF Scan, Acquire, CounterLoad, CounterStore, RingbufFull, DropsStore, Finish, Continue,
        Goto, Return, maps, locals, ghosts, TypeInv, TypeOK
  <2> QED
    BY <1>7, <2>1, <2>2, <2>3, <2>4, <2>5, <2>6 DEF Handler
<1> QED
  BY <1>1, <1>2, <1>3, <1>4, <1>5, <1>6, <1>7 DEF Next

(* Whatever the threads' order, and although two of them may both find the *)
(* window over, no record without samples reaches the ring.                *)
THEOREM ReportsNotEmpty == Spec => []NoEmptyReport
<1>1. EmptyInv => NoEmptyReport
  BY DEF EmptyInv, NoEmptyReport, NotEmpty, NoWrap
<1> QED
  BY <1>1, InitType, TypeStep, DataInit, DataStep, EmptyInit, EmptyStep, PTL DEF Spec

-----------------------------------------------------------------------------
(* CountersNeverAhead is inductive together with the types.                *)
LEMMA CountersOther ==
  ASSUME CountersNeverAhead,
         COUNTER' = COUNTER, DROPS' = DROPS, incs' = incs, failed' = failed,
         \A u \in Threads :
           /\ pc'[u] = "counter_store" => pc[u] = "counter_store" /\ tmp'[u] = tmp[u]
           /\ pc'[u] = "drops_store" => pc[u] = "drops_store" /\ tmp'[u] = tmp[u]
           /\ snapshot'[u].seq = snapshot[u].seq \/ snapshot'[u].seq <= incs,
         \A i \in DOMAIN ring' : \/ \E j \in DOMAIN ring : ring'[i].msg = ring[j].msg
                                 \/ \E u \in Threads : ring'[i].msg = snapshot[u]
  PROVE  CountersNeverAhead'
<1> SUFFICES
      /\ COUNTER' <= incs'
      /\ DROPS' <= failed'
      /\ \A t \in Threads : /\ pc'[t] = "counter_store" => tmp'[t] <= incs'
                            /\ pc'[t] = "drops_store" => tmp'[t] <= failed'
                            /\ snapshot'[t].seq <= incs'
      /\ \A i \in DOMAIN ring' : ring'[i].msg.seq <= incs'
  BY DEF CountersNeverAhead
<1> QED
  BY DEF CountersNeverAhead

(* Every step keeps COUNTER and the drop counter behind the events they count. *)
LEMMA CountersStep == TypeInv /\ CountersNeverAhead /\ [Next]_vars => CountersNeverAhead'
<1> SUFFICES ASSUME TypeInv, CountersNeverAhead, [Next]_vars PROVE CountersNeverAhead'
  OBVIOUS
<1>0. 0 <= incs /\ incs \in Nat /\ failed \in Nat
  BY DEF TypeInv, TypeOK
<1>1. CASE UNCHANGED vars
  BY <1>1, CountersOther DEF vars, maps, locals, ghosts
<1>2. CASE Tick
  BY <1>2, CountersOther DEF Tick, maps, locals, ghosts
<1>3. CASE Consume
  <2>1. \A i \in DOMAIN ring' : i + 1 \in DOMAIN ring /\ ring'[i] = ring[i + 1]
    <3>1. ring \in Seq(RingRecord) /\ ring # <<>> /\ ring' = Tail(ring)
      BY <1>3 DEF Consume, TypeInv, TypeOK
    <3>2. /\ Len(ring) \in Nat /\ DOMAIN ring = 1 .. Len(ring)
          /\ ring' \in Seq(RingRecord) /\ Len(ring') = Len(ring) - 1
          /\ DOMAIN ring' = 1 .. Len(ring')
          /\ \A i \in 1 .. Len(ring') : ring'[i] = ring[i + 1]
      BY <3>1, HeadTailProperties, LenProperties
    <3> QED
      BY <3>2
  <2> QED
    BY <1>3, <2>1, CountersOther DEF Consume, locals, ghosts
<1>4. ASSUME NEW k \in Keys, LoadPrefix(k) PROVE CountersNeverAhead'
  BY <1>4, CountersOther DEF LoadPrefix, locals, ghosts
<1>5. ASSUME NEW t \in Threads, NEW op \in Ops, NEW path \in Paths,
             TryFslatEntry(t, op, path)
      PROVE  CountersNeverAhead'
  BY <1>5, CountersOther DEF TryFslatEntry, locals, ghosts
<1>6. ASSUME NEW t \in Threads, NEW r \in Rets,
             \/ TryFslatExitNoRecord(t, r)
             \/ TryFslatExitFailed(t, r)
             \/ TryFslatExit(t, r)
      PROVE  CountersNeverAhead'
  BY <1>6, CountersOther
  DEF TryFslatExitNoRecord, TryFslatExitFailed, TryFslatExit, Goto, maps, locals,
      ghosts, TypeInv, TypeOK
<1>7. ASSUME NEW t \in Threads, Handler(t) PROVE CountersNeverAhead'
  <2>1. CASE Scan(t) \/ Acquire(t) \/ Update(t) \/ UpdatePublish(t)
    BY <2>1, CountersOther
    DEF Scan, Acquire, Update, UpdatePublish, Continue, Goto, maps, locals, ghosts, TypeInv,
        TypeOK
  <2>2. CASE TakeSnapshot(t)
    <3>1. snapshot'[t].seq = 0
      BY <2>2 DEF TakeSnapshot, TypeInv, TypeOK
    <3>2. \A u \in Threads : u # t => snapshot'[u] = snapshot[u]
      BY <2>2 DEF TakeSnapshot, TypeInv, TypeOK
    <3>3. /\ COUNTER' = COUNTER /\ DROPS' = DROPS /\ incs' = incs /\ failed' = failed
          /\ ring' = ring /\ tmp' = tmp
          /\ \A u \in Threads : pc'[u] \in {"counter_store", "drops_store"} => pc'[u] = pc[u]
      BY <2>2 DEF TakeSnapshot, Goto, maps, ghosts, TypeInv, TypeOK
    <3> QED
      BY <1>0, <3>1, <3>2, <3>3, CountersOther
  <2>3. CASE ClearUnlock(t)
    <3>1. snapshot'[t].seq = COUNTER
      BY <2>3 DEF ClearUnlock, TypeInv, TypeOK, Message
    <3>2. \A u \in Threads : u # t => snapshot'[u] = snapshot[u]
      BY <2>3 DEF ClearUnlock, TypeInv, TypeOK
    <3>3. /\ COUNTER' = COUNTER /\ DROPS' = DROPS /\ incs' = incs /\ failed' = failed
          /\ ring' = ring /\ tmp' = tmp
          /\ \A u \in Threads : pc'[u] \in {"counter_store", "drops_store"} => pc'[u] = pc[u]
      BY <2>3 DEF ClearUnlock, Goto, TypeInv, TypeOK
    <3>4. COUNTER <= incs
      BY DEF CountersNeverAhead
    <3> QED
      BY <3>1, <3>2, <3>3, <3>4, CountersOther
  <2>4. CASE RingbufReserve(t)
    <3> DEFINE rec == [msg |-> snapshot[t], busy |-> TRUE, by |-> t]
    <3>1. ring \in Seq(RingRecord) /\ rec \in RingRecord /\ ring' = Append(ring, rec)
      BY <2>4 DEF TypeInv, TypeOK, RingRecord, RingbufReserve
    <3>2. \A i \in DOMAIN ring' : \/ i \in DOMAIN ring /\ ring'[i] = ring[i]
                                  \/ ring'[i] = rec
      BY <3>1, AppendProperties, LenProperties
    <3>3. \A i \in DOMAIN ring' : \/ \E j \in DOMAIN ring : ring'[i].msg = ring[j].msg
                                  \/ \E u \in Threads : ring'[i].msg = snapshot[u]
      BY <3>2
    <3> QED
      BY <2>4, <3>3, CountersOther DEF RingbufReserve, Goto, locals, ghosts, TypeInv, TypeOK
  <2>5. CASE RingbufSubmit(t)
    <3>1. \A i \in DOMAIN ring : ring[i] \in RingRecord
      BY ElementOfSeq, LenProperties DEF TypeInv, TypeOK
    <3>2. \A i \in DOMAIN ring : [ring[i] EXCEPT !.busy = FALSE].msg = ring[i].msg
      BY <3>1 DEF RingRecord
    <3>3. \A i \in DOMAIN ring' : i \in DOMAIN ring /\ ring'[i].msg = ring[i].msg
      BY <2>5, <3>2 DEF RingbufSubmit
    <3> QED
      BY <2>5, <3>3, CountersOther DEF RingbufSubmit, Goto, locals, TypeInv, TypeOK
  <2>6. CASE CounterLoad(t) \/ RingbufFull(t)
    <3> SUFFICES ASSUME NEW u \in Threads
                 PROVE  /\ pc'[u] = "counter_store" => tmp'[u] <= incs
                        /\ pc'[u] = "drops_store" => tmp'[u] <= failed
      BY <2>6 DEF CountersNeverAhead, CounterLoad, RingbufFull, maps, ghosts
    <3> QED
      BY <2>6 DEF CountersNeverAhead, CounterLoad, RingbufFull, Goto, TypeInv, TypeOK
  <2>7. CASE CounterStore(t)
    <3>1. COUNTER' <= incs + 1
      BY <2>7, <1>0, ConstantsAssumption
      DEF CountersNeverAhead, CounterStore, Add64, TypeInv, TypeOK
    <3>2. \A x \in Int : x <= incs => x <= incs + 1
      BY <1>0
    <3>3. /\ \A u \in Threads : tmp[u] \in Int /\ snapshot[u].seq \in Int
          /\ \A i \in DOMAIN ring : ring[i].msg.seq \in Int
      <4>1. \A u \in Threads : snapshot[u] \in Message /\ tmp[u] \in Int
        BY DEF TypeInv, TypeOK
      <4>2. \A i \in DOMAIN ring : ring[i].msg \in Message
        BY RecordFields, ElementOfSeq, LenProperties DEF TypeInv, TypeOK
      <4>3. \A m \in Message : m.seq \in Int
        BY MessageFields
      <4> QED
        BY <4>1, <4>2, <4>3
    <3>4. /\ incs' = incs + 1 /\ DROPS' = DROPS /\ failed' = failed /\ ring' = ring
          /\ tmp' = tmp /\ snapshot' = snapshot
          /\ \A u \in Threads : pc'[u] \in {"counter_store", "drops_store"} => pc'[u] = pc[u]
      BY <2>7 DEF CounterStore, Continue, Goto, TypeInv, TypeOK
    <3> QED
      BY <3>1, <3>2, <3>3, <3>4 DEF CountersNeverAhead
  <2>8. CASE DropsStore(t)
    <3>1. DROPS' <= failed + 1
      BY <2>8, <1>0, ConstantsAssumption
      DEF CountersNeverAhead, DropsStore, Add64, TypeInv, TypeOK
    <3>2. \A u \in Threads : tmp[u] \in Int /\ (tmp[u] <= failed => tmp[u] <= failed + 1)
      BY <1>0 DEF TypeInv, TypeOK
    <3>3. /\ failed' = failed + 1 /\ COUNTER' = COUNTER /\ incs' = incs /\ ring' = ring
          /\ tmp' = tmp /\ snapshot' = snapshot
          /\ \A u \in Threads : pc'[u] \in {"counter_store", "drops_store"} => pc'[u] = pc[u]
      BY <2>8 DEF DropsStore, Goto, locals, TypeInv, TypeOK
    <3> QED
      BY <3>1, <3>2, <3>3 DEF CountersNeverAhead
  <2>9. CASE Finish(t)
    <3>1. snapshot'[t].seq = 0
      BY <2>9 DEF Finish, NoSnapshot, TypeInv, TypeOK
    <3>2. \A u \in Threads : u # t => snapshot'[u] = snapshot[u] /\ tmp'[u] = tmp[u]
      BY <2>9 DEF Finish, TypeInv, TypeOK
    <3>3. /\ COUNTER' = COUNTER /\ DROPS' = DROPS /\ incs' = incs /\ failed' = failed
          /\ ring' = ring
          /\ \A u \in Threads : pc'[u] \in {"counter_store", "drops_store"} =>
               pc'[u] = pc[u] /\ u # t
      BY <2>9 DEF Finish, Goto, TypeInv, TypeOK
    <3> QED
      BY <1>0, <3>1, <3>2, <3>3, CountersOther
  <2> QED
    BY <1>7, <2>1, <2>2, <2>3, <2>4, <2>5, <2>6, <2>7, <2>8, <2>9 DEF Handler
<1> QED
  BY <1>1, <1>2, <1>3, <1>4, <1>5, <1>6, <1>7 DEF Next

(* However many increments of the two shared counters are lost to races,   *)
(* no sequence number runs ahead of the records submitted, and the drop    *)
(* counter never reports more drops than there were.                       *)
THEOREM CountersBounded == Spec => []CountersNeverAhead
<1>1. Init => CountersNeverAhead
  <2> SUFFICES ASSUME Init PROVE CountersNeverAhead
    OBVIOUS
  <2>1. DOMAIN ring = {}
    BY DEF Init
  <2>2. \A t \in Threads : snapshot[t].seq = 0 /\ pc[t] = "kernel"
    BY DEF Init, NoSnapshot
  <2> QED
    BY <2>1, <2>2 DEF Init, CountersNeverAhead
<1> QED
  BY <1>1, InitType, TypeStep, CountersStep, PTL DEF Spec

-----------------------------------------------------------------------------

RoomForAll == MaxEntries >= Cardinality(Threads)

(* A thread has one record at most; the record is that of its innermost    *)
(* call; and while its exit handler runs, entryrec points to it.           *)
RecordInv ==
  /\ \A e, f \in Elem : PTRLIST[e].key = PTRLIST[f].key /\ PTRLIST[e].key # NoThread => e = f
  /\ \A e \in Elem, t \in Threads : PTRLIST[e].key = t =>
       /\ frames[t] # <<>>
       /\ PTRLIST[e].timestamp = Top(t).start
       /\ PTRLIST[e].path = Top(t).path
  /\ \A t \in Threads : pc[t] # "kernel" => PTRLIST[ptr[t]].key = t

-----------------------------------------------------------------------------
(* A map with an element per thread evicts nobody: were every element in   *)
(* use by another thread, two would be of the same thread.                 *)
LEMMA NoEviction ==
  ASSUME RoomForAll, TypeInv, RecordInv, NEW t \in Threads, ElemsOf(t) = {}
  PROVE  ElemsOf(NoThread) # {}
<1> SUFFICES ASSUME ElemsOf(NoThread) = {} PROVE FALSE
  OBVIOUS
<1> DEFINE S == Threads \ {t}
           owner == [e \in Elem |-> PTRLIST[e].key]
<1>1. /\ IsFiniteSet(S) /\ Cardinality(S) = Cardinality(Threads) - 1
      /\ Cardinality(Threads) \in Nat
  BY ConstantsAssumption, FS_RemoveElement, FS_CardinalityType
<1>2. IsFiniteSet(Elem) /\ Cardinality(Elem) = MaxEntries /\ MaxEntries \in Nat
  <2>1. 1 \in Int /\ MaxEntries \in Int /\ MaxEntries >= 1
    BY ConstantsAssumption
  <2>2. IsFiniteSet(1 .. MaxEntries) /\ Cardinality(1 .. MaxEntries) = MaxEntries
    BY <2>1, FS_Interval
  <2> QED
    BY <2>1, <2>2 DEF Elem
<1>3. owner \in [Elem -> S]
  <2>1. ASSUME NEW e \in Elem PROVE PTRLIST[e].key \in S
    <3>1. PTRLIST[e].key \in Threads \union {NoThread}
      BY DEF TypeInv, TypeOK, EntryRec
    <3> QED
      BY <3>1 DEF ElemsOf
  <2> QED
    BY <2>1
<1>4. Cardinality(S) < Cardinality(Elem)
  BY <1>1, <1>2 DEF RoomForAll
<1>5. \E e, f \in Elem : e # f /\ owner[e] = owner[f]
  <2> HIDE DEF S, owner
  <2> QED
    BY <1>1, <1>2, <1>3, <1>4, FS_PigeonHole
<1>6. PICK e \in Elem, f \in Elem : e # f /\ PTRLIST[e].key = PTRLIST[f].key
  BY <1>5
<1> QED
  BY <1>6 DEF RecordInv, ElemsOf

(* Where the fentry probe puts the record of a thread: over its old one,   *)
(* or into a free element.                                                 *)
LEMMA InsertsInOwn ==
  ASSUME RoomForAll, TypeInv, RecordInv, NEW t \in Threads, NEW e \in Insertable(t)
  PROVE  /\ e \in Elem
         /\ PTRLIST[e].key \in {t, NoThread}
         /\ \A f \in Elem : PTRLIST[f].key = t => f = e
<1>1. CASE ElemsOf(t) # {}
  <2>1. e \in Elem /\ PTRLIST[e].key = t
    BY <1>1 DEF Insertable, ElemsOf
  <2>2. t # NoThread
    BY ConstantsAssumption
  <2> QED
    BY <2>1, <2>2 DEF RecordInv
<1>2. CASE ElemsOf(t) = {}
  <2>1. ElemsOf(NoThread) # {}
    BY <1>2, NoEviction
  <2>2. e \in ElemsOf(NoThread)
    BY <1>2, <2>1 DEF Insertable
  <2> QED
    BY <1>2, <2>2 DEF ElemsOf
<1> QED
  BY <1>1, <1>2

(* Steps that touch neither the map nor the calls.                         *)
LEMMA RecordOther ==
  ASSUME RecordInv, PTRLIST' = PTRLIST, frames' = frames,
         \A u \in Threads : pc'[u] # "kernel" => pc[u] # "kernel" /\ ptr'[u] = ptr[u]
  PROVE  RecordInv'
BY DEF RecordInv, Top

(* The record of a call is written by its fentry probe. *)
LEMMA RecordEntry ==
  ASSUME RoomForAll, TypeInv, RecordInv, NEW t \in Threads, NEW op \in Ops, NEW path \in Paths,
         TryFslatEntry(t, op, path)
  PROVE  RecordInv'
<1> DEFINE rec == [key |-> t, timestamp |-> clock, path |-> path]
           call == [op |-> op, path |-> path, start |-> clock]
<1>1. PICK e \in Insertable(t) : PTRLIST' = [PTRLIST EXCEPT ![e] = rec]
  BY DEF TryFslatEntry, PidTgid
<1>2. /\ e \in Elem
      /\ PTRLIST[e].key \in {t, NoThread}
      /\ \A f \in Elem : PTRLIST[f].key = t => f = e
  BY InsertsInOwn
<1>3. /\ PTRLIST'[e] = rec
      /\ \A f \in Elem : f # e => PTRLIST'[f] = PTRLIST[f]
  BY <1>1, <1>2 DEF TypeInv, TypeOK
<1>4. frames'[t] # <<>> /\ Top(t)' = call
  <2>0. clock \in u64
    BY ConstantsAssumption DEF TypeInv, TypeOK, u64
  <2>1. frames[t] \in Seq(Frame) /\ call \in Frame /\ frames'[t] = Append(frames[t], call)
    BY <2>0 DEF TypeInv, TypeOK, TryFslatEntry, Frame
  <2> HIDE DEF call
  <2>2. /\ Len(frames'[t]) = Len(frames[t]) + 1
        /\ frames'[t][Len(frames[t]) + 1] = call
        /\ frames'[t] # <<>>
    BY <2>1, AppendProperties
  <2> QED
    BY <2>2 DEF Top
<1>5. \A u \in Threads : u # t => frames'[u] = frames[u] /\ Top(u)' = Top(u)
  BY DEF TryFslatEntry, TypeInv, TypeOK, Top
<1>6. pc' = pc /\ ptr' = ptr /\ pc[t] = "kernel"
  BY DEF TryFslatEntry, locals
<1>7. t # NoThread
  BY ConstantsAssumption
<1>8. rec.key = t /\ rec.timestamp = call.start /\ rec.path = call.path
  OBVIOUS
<1> HIDE DEF rec, call
<1>9. \A f, g \in Elem :
        PTRLIST'[f].key = PTRLIST'[g].key /\ PTRLIST'[f].key # NoThread => f = g
  BY <1>2, <1>3, <1>7, <1>8 DEF RecordInv
<1>10. \A f \in Elem, u \in Threads : PTRLIST'[f].key = u =>
         /\ frames'[u] # <<>>
         /\ PTRLIST'[f].timestamp = Top(u)'.start
         /\ PTRLIST'[f].path = Top(u)'.path
  <2> SUFFICES ASSUME NEW f \in Elem, NEW u \in Threads, PTRLIST'[f].key = u
               PROVE  /\ frames'[u] # <<>>
                      /\ PTRLIST'[f].timestamp = Top(u)'.start
                      /\ PTRLIST'[f].path = Top(u)'.path
    OBVIOUS
  <2>1. CASE f = e
    BY <1>3, <1>4, <1>8, <2>1
  <2>2. CASE f # e
    <3>1. PTRLIST'[f] = PTRLIST[f] /\ u # t
      BY <1>2, <1>3, <2>2
    <3> QED
      BY <1>5, <3>1 DEF RecordInv
  <2> QED
    BY <2>1, <2>2
<1>11. \A u \in Threads : pc'[u] # "kernel" => PTRLIST'[ptr'[u]].key = u
  <2> SUFFICES ASSUME NEW u \in Threads, pc[u] # "kernel" PROVE PTRLIST'[ptr[u]].key = u
    BY <1>6
  <2>1. PTRLIST[ptr[u]].key = u /\ ptr[u] \in Elem /\ u # t /\ u # NoThread
    BY <1>6, ConstantsAssumption DEF RecordInv, TypeInv, TypeOK
  <2>2. ptr[u] # e
    BY <1>2, <2>1
  <2> QED
    BY <1>3, <2>1, <2>2
<1> QED
  BY <1>9, <1>10, <1>11 DEF RecordInv

(* Removing the record of a thread that is leaving its call keeps those of *)
(* the others.                                                             *)
LEMMA RecordRemoved ==
  ASSUME TypeInv, RecordInv, NEW t \in Threads, PTRLIST' = RemoveKey(t), Return(t),
         pc'[t] = "kernel",
         \A u \in Threads : u # t => pc'[u] = pc[u] /\ ptr'[u] = ptr[u]
  PROVE  RecordInv'
<1>1. \A u \in Threads : u # t => frames'[u] = frames[u] /\ Top(u)' = Top(u)
  BY DEF Return, TypeInv, TypeOK, Top
<1>2. \A e \in Elem : \/ PTRLIST'[e].key = NoThread
                      \/ PTRLIST'[e] = PTRLIST[e] /\ PTRLIST[e].key # t
  <2> SUFFICES ASSUME NEW e \in Elem, PTRLIST[e].key = t PROVE PTRLIST'[e].key = NoThread
    BY DEF RemoveKey
  <2>1. PTRLIST'[e] = [PTRLIST[e] EXCEPT !.key = NoThread] /\ PTRLIST[e] \in EntryRec
    BY DEF RemoveKey, TypeInv, TypeOK
  <2> QED
    BY <2>1 DEF EntryRec
<1>3. \A e \in Elem : PTRLIST[e].key # t => PTRLIST'[e] = PTRLIST[e]
  BY DEF RemoveKey
<1>4. NoThread \notin Threads
  BY ConstantsAssumption
<1>5. \A f, g \in Elem :
        PTRLIST'[f].key = PTRLIST'[g].key /\ PTRLIST'[f].key # NoThread => f = g
  BY <1>2 DEF RecordInv
<1>6. \A f \in Elem, u \in Threads : PTRLIST'[f].key = u =>
         /\ frames'[u] # <<>>
         /\ PTRLIST'[f].timestamp = Top(u)'.start
         /\ PTRLIST'[f].path = Top(u)'.path
  BY <1>1, <1>2, <1>4 DEF RecordInv
<1>7. \A u \in Threads : pc'[u] # "kernel" => PTRLIST'[ptr'[u]].key = u
  <2> SUFFICES ASSUME NEW u \in Threads, pc'[u] # "kernel" PROVE PTRLIST'[ptr'[u]].key = u
    OBVIOUS
  <2>1. u # t /\ ptr[u] \in Elem /\ PTRLIST[ptr[u]].key = u /\ ptr'[u] = ptr[u]
    BY DEF RecordInv, TypeInv, TypeOK
  <2> QED
    BY <1>3, <2>1
<1> QED
  BY <1>5, <1>6, <1>7 DEF RecordInv

(* Every step keeps the records right. *)
LEMMA RecordStep ==
  ASSUME RoomForAll, TypeInv, RecordInv, [Next]_vars
  PROVE  RecordInv'
<1>1. CASE UNCHANGED vars
  BY <1>1, RecordOther DEF vars, maps, locals
<1>2. CASE Tick \/ Consume \/ \E k \in Keys : LoadPrefix(k)
  BY <1>2, RecordOther DEF Tick, Consume, LoadPrefix, maps, locals
<1>3. ASSUME NEW t \in Threads, NEW op \in Ops, NEW path \in Paths,
             TryFslatEntry(t, op, path)
      PROVE  RecordInv'
  BY <1>3, RecordEntry
<1>4. ASSUME NEW t \in Threads, NEW r \in Rets, TryFslatExitNoRecord(t, r)
      PROVE  RecordInv'
  <2>1. PTRLIST' = PTRLIST /\ pc' = pc /\ ptr' = ptr /\ \A e \in Elem : PTRLIST[e].key # t
    BY <1>4 DEF TryFslatExitNoRecord, ElemsOf, PidTgid, maps, locals
  <2>2. \A u \in Threads : u # t => frames'[u] = frames[u] /\ Top(u)' = Top(u)
    BY <1>4 DEF TryFslatExitNoRecord, Return, TypeInv, TypeOK, Top
  <2> QED
    BY <2>1, <2>2 DEF RecordInv
<1>5. ASSUME NEW t \in Threads, NEW r \in Rets, TryFslatExitFailed(t, r)
      PROVE  RecordInv'
  BY <1>5, RecordRemoved DEF TryFslatExitFailed, PidTgid, locals
<1>6. ASSUME NEW t \in Threads, NEW r \in Rets, TryFslatExit(t, r)
      PROVE  RecordInv'
  <2>1. PTRLIST' = PTRLIST /\ frames' = frames
    BY <1>6 DEF TryFslatExit, maps
  <2>2. ptr'[t] \in ElemsOf(t)
    BY <1>6 DEF TryFslatExit, PidTgid, TypeInv, TypeOK
  <2>3. \A u \in Threads : u # t => pc'[u] = pc[u] /\ ptr'[u] = ptr[u]
    BY <1>6 DEF TryFslatExit, Goto, TypeInv, TypeOK
  <2>4. \A u \in Threads : Top(u)' = Top(u)
    BY <2>1 DEF Top
  <2>5. \A u \in Threads : pc'[u] # "kernel" => PTRLIST'[ptr'[u]].key = u
    BY <2>1, <2>2, <2>3 DEF RecordInv, ElemsOf
  <2> QED
    BY <2>1, <2>4, <2>5 DEF RecordInv
<1>7. ASSUME NEW t \in Threads, Handler(t) PROVE RecordInv'
  <2>1. CASE Finish(t)
    BY <2>1, RecordRemoved DEF Finish, PidTgid, Goto, TypeInv, TypeOK
  <2>2. CASE Scan(t) \/ Acquire(t) \/ Update(t) \/ UpdatePublish(t) \/ TakeSnapshot(t)
             \/ ClearUnlock(t)
    BY <2>2, RecordOther
    DEF Scan, Acquire, Update, UpdatePublish, TakeSnapshot, ClearUnlock, Continue, Goto, maps,
        locals, TypeInv, TypeOK
  <2>3. CASE RingbufReserve(t) \/ RingbufSubmit(t) \/ CounterLoad(t) \/ CounterStore(t)
             \/ RingbufFull(t) \/ DropsStore(t)
    BY <2>3, RecordOther
    DEF RingbufReserve, RingbufSubmit, CounterLoad, CounterStore, RingbufFull, DropsStore,
        Continue, Goto, maps, locals, TypeInv, TypeOK
  <2> QED
    BY <1>7, <2>1, <2>2, <2>3 DEF Handler
<1> QED
  BY <1>1, <1>2, <1>3, <1>4, <1>5, <1>6, <1>7 DEF Next

(* The map is empty at first. *)
LEMMA RecordInit == Init => RecordInv
<1> SUFFICES ASSUME Init PROVE RecordInv
  OBVIOUS
<1>1. \A e \in Elem : PTRLIST[e].key = NoThread
  BY DEF Init, FreeElem
<1> QED
  BY <1>1, ConstantsAssumption DEF Init, RecordInv

(* With an element of PTRLIST per thread, for any number of threads, the   *)
(* exit handler of a call reads the record of that very call, whatever the *)
(* other threads insert and delete meanwhile.                              *)
THEOREM ReadsOwnRecord == Spec => []OwnRecord
<1> DEFINE RInv == RoomForAll => RecordInv
<1>1. Init => RInv
  BY RecordInit
<1>2. TypeInv /\ RInv /\ [Next]_vars => RInv'
  BY RecordStep DEF RoomForAll
<1>3. TypeInv /\ RInv => OwnRecord
  BY DEF TypeInv, TypeOK, RecordInv, OwnRecord, RoomForAll
<1> HIDE DEF RInv
<1> QED
  BY <1>1, <1>2, <1>3, InitType, TypeStep, PTL DEF Spec

-----------------------------------------------------------------------------
(* What the loop over the prefixes has done for a thread that is in it.    *)
Served == {"snapshot", "clear", "reserve", "submit", "counter_load", "counter_store",
           "drops_store"}

PrefixOf(t) ==
  LET cfg == Configured(Top(t).op, Top(t).path)
  IN  /\ due[t] \subseteq cfg
      /\ {i \in due[t] : i < idx[t]} \subseteq hit[t]
      /\ hit[t] \subseteq cfg
      /\ pc[t] \in Matched => idx[t] \in cfg
      /\ pc[t] \in Served => idx[t] \in hit[t]
      /\ pc[t] = "finish" /\ idx[t] \in Idx => idx[t] \in hit[t]

(* Loop invariant: the prefixes behind idx that were due have the sample;  *)
(* what matched is configured, and stays so, since the loader only adds    *)
(* entries.                                                                *)
PrefixInv == \A t \in Threads : pc[t] # "kernel" => PrefixOf(t)

(* Steps that leave a thread in its round of the loop; loading more        *)
(* entries meanwhile configures no less.                                   *)
LEMMA PrefixFrame ==
  ASSUME NEW u \in Threads, PrefixOf(u), loaded \subseteq loaded',
         pc'[u] = pc[u], frames'[u] = frames[u], idx'[u] = idx[u], due'[u] = due[u],
         hit'[u] = hit[u]
  PROVE  PrefixOf(u)'
<1>1. Top(u)' = Top(u)
  BY DEF Top
<1>2. Configured(Top(u).op, Top(u).path) \subseteq Configured(Top(u).op, Top(u).path)'
  BY <1>1 DEF Configured, starts_with, PathLen
<1>3. pc[u] \in Matched => idx'[u] \in Configured(Top(u).op, Top(u).path)'
  BY <1>2 DEF PrefixOf
<1> QED
  BY <1>2, <1>3 DEF PrefixOf

(* A step of a thread's own round that keeps idx and the sample's prefixes. *)
LEMMA PrefixRound ==
  ASSUME NEW t \in Threads, PrefixOf(t),
         loaded' = loaded, frames' = frames, idx' = idx, due' = due, hit' = hit,
         pc'[t] \in Matched => pc[t] \in Matched,
         pc'[t] \in Served => pc[t] \in Served,
         pc'[t] = "finish" => pc[t] \in Served
  PROVE  PrefixOf(t)'
BY DEF PrefixOf, Top, Configured, starts_with, PathLen

(* A step that ends the round: idx is behind the loop from now on.         *)
LEMMA PrefixContinue ==
  ASSUME TypeInv, NEW t \in Threads, PrefixOf(t), idx[t] \in Idx,
         loaded' = loaded, frames' = frames, due' = due, Continue(t),
         hit[t] \subseteq hit'[t], hit'[t] \subseteq hit[t] \union {idx[t]},
         idx[t] \in hit'[t] => idx[t] \in Configured(Top(t).op, Top(t).path),
         idx[t] \in due[t] => idx[t] \in hit'[t]
  PROVE  PrefixOf(t)'
<1>1. pc'[t] = "scan" /\ idx'[t] = idx[t] + 1 /\ idx[t] \in Int
  BY ConstantsAssumption DEF Continue, Goto, TypeInv, TypeOK, Idx
<1>2. Configured(Top(t).op, Top(t).path)' = Configured(Top(t).op, Top(t).path)
  BY DEF Top, Configured, starts_with, PathLen
<1>3. {i \in due[t] : i < idx[t] + 1} \subseteq hit'[t]
  <2> SUFFICES ASSUME NEW i \in due[t], i < idx[t] + 1 PROVE i \in hit'[t]
    OBVIOUS
  <2>1. i \in Int
    BY ConstantsAssumption DEF TypeInv, TypeOK, Idx
  <2>2. i < idx[t] \/ i = idx[t]
    BY <1>1, <2>1
  <2> QED
    BY <2>2 DEF PrefixOf
<1>4. hit'[t] \subseteq Configured(Top(t).op, Top(t).path)
  BY DEF PrefixOf
<1>5. due[t] \subseteq Configured(Top(t).op, Top(t).path)
  BY DEF PrefixOf
<1> QED
  BY <1>1, <1>2, <1>3, <1>4, <1>5 DEF PrefixOf, Matched, Critical, Served

(* What the handler compares with the prefix is the path of the call. *)
LEMMA MatchesConfigured ==
  ASSUME RecordInv, TypeInv, NEW t \in Threads, pc[t] # "kernel", idx[t] \in Idx
  PROVE  Matches(t) <=> idx[t] \in Configured(Top(t).op, Top(t).path)
<1>1. PTRLIST[ptr[t]].path = Top(t).path
  BY DEF RecordInv, TypeInv, TypeOK
<1> QED
  BY <1>1 DEF Matches, Configured, Key

(* A handler serves the prefixes in order and leaves out none. *)
LEMMA PrefixHandler ==
  ASSUME TypeInv, RecordInv, PrefixInv, NEW t \in Threads, Handler(t), pc'[t] # "kernel"
  PROVE  PrefixOf(t)'
<1>0. pc[t] # "kernel" /\ PrefixOf(t)
  BY DEF PrefixInv, Handler, Scan, Acquire, Update, UpdatePublish, TakeSnapshot, ClearUnlock,
     RingbufReserve, RingbufSubmit, CounterLoad, CounterStore, RingbufFull, DropsStore, Finish
<1>1. CASE Scan(t)
  <2>0. /\ loaded' = loaded /\ frames' = frames /\ due' = due /\ hit' = hit
    BY <1>1 DEF Scan, ghosts
  <2>1. CASE idx[t] \notin Idx /\ Goto(t, "finish") /\ UNCHANGED idx
    <3>1. Configured(Top(t).op, Top(t).path)' = Configured(Top(t).op, Top(t).path)
      BY <2>0 DEF Top, Configured, starts_with, PathLen
    <3>2. pc'[t] = "finish" /\ idx'[t] \notin Idx
      BY <2>1 DEF Goto, TypeInv, TypeOK
    <3> QED
      BY <1>0, <2>0, <2>1, <3>1, <3>2 DEF PrefixOf, Matched, Critical, Served
  <2>2. CASE idx[t] \in Idx /\ ~ Matches(t) /\ Continue(t)
    <3>1. idx[t] \notin Configured(Top(t).op, Top(t).path)
      BY <1>0, <2>2, MatchesConfigured
    <3>2. idx[t] \notin due[t] /\ idx[t] \notin hit[t]
      BY <1>0, <3>1 DEF PrefixOf
    <3> QED
      BY <1>0, <2>0, <2>2, <3>2, PrefixContinue
  <2>3. CASE /\ idx[t] \in Idx /\ Matches(t) /\ UNCHANGED idx
             /\ Goto(t, IF WindowOver(t) THEN "lock_publish" ELSE "lock_update")
    <3>1. Configured(Top(t).op, Top(t).path)' = Configured(Top(t).op, Top(t).path)
      BY <2>0 DEF Top, Configured, starts_with, PathLen
    <3>2. idx[t] \in Configured(Top(t).op, Top(t).path)
      BY <1>0, <2>3, MatchesConfigured
    <3>3. pc'[t] \in {"lock_publish", "lock_update"}
      BY <2>3 DEF Goto, TypeInv, TypeOK
    <3> QED
      BY <1>0, <2>0, <2>3, <3>1, <3>2, <3>3 DEF PrefixOf, Served
  <2> QED
    BY <1>1, <2>1, <2>2, <2>3 DEF Scan
<1>2. CASE Update(t)
  <2>1. /\ loaded' = loaded /\ frames' = frames /\ due' = due /\ Continue(t)
        /\ hit'[t] = hit[t] \union {idx[t]}
    BY <1>2 DEF Update, AddSample, TypeInv, TypeOK
  <2>2. idx[t] \in Idx /\ idx[t] \in Configured(Top(t).op, Top(t).path)
    BY <1>0, <1>2 DEF PrefixOf, Update, TypeInv, ControlInv, Matched, Critical
  <2> QED
    BY <1>0, <2>1, <2>2, PrefixContinue
<1>3. CASE UpdatePublish(t)
  <2>1. /\ loaded' = loaded /\ frames' = frames /\ due' = due /\ idx' = idx
        /\ hit'[t] = hit[t] \union {idx[t]} /\ pc'[t] = "snapshot"
    BY <1>3 DEF UpdatePublish, AddSample, Goto, locals, TypeInv, TypeOK
  <2>2. idx[t] \in Configured(Top(t).op, Top(t).path)
    BY <1>0, <1>3 DEF PrefixOf, UpdatePublish, Matched, Critical
  <2>3. Configured(Top(t).op, Top(t).path)' = Configured(Top(t).op, Top(t).path)
    BY <2>1 DEF Top, Configured, starts_with, PathLen
  <2> QED
    BY <1>0, <2>1, <2>2, <2>3 DEF PrefixOf
<1>4. CASE CounterStore(t)
  <2>1. /\ loaded' = loaded /\ frames' = frames /\ due' = due /\ hit' = hit /\ Continue(t)
    BY <1>4 DEF CounterStore
  <2>2. /\ idx[t] \in Idx /\ idx[t] \in Configured(Top(t).op, Top(t).path)
        /\ idx[t] \in hit[t]
    BY <1>0, <1>4 DEF PrefixOf, CounterStore, TypeInv, ControlInv, Matched, Served
  <2> QED
    BY <1>0, <2>1, <2>2, PrefixContinue
<1>5. CASE Acquire(t) \/ TakeSnapshot(t) \/ ClearUnlock(t) \/ RingbufReserve(t)
           \/ RingbufSubmit(t)
  BY <1>0, <1>5, PrefixRound
  DEF Acquire, TakeSnapshot, ClearUnlock, RingbufReserve, RingbufSubmit, Goto, locals, ghosts,
      Matched, Critical, Served, TypeInv, TypeOK
<1>6. CASE CounterLoad(t) \/ RingbufFull(t) \/ DropsStore(t)
  BY <1>0, <1>6, PrefixRound
  DEF CounterLoad, RingbufFull, DropsStore, Goto, locals, ghosts, Matched, Critical, Served,
      TypeInv, TypeOK
<1>7. ~ Finish(t)
  BY DEF Finish, Goto, TypeInv, TypeOK
<1> QED
  BY <1>1, <1>2, <1>3, <1>4, <1>5, <1>6, <1>7 DEF Handler

(* Every step keeps the loop invariant. *)
LEMMA PrefixStep ==
  ASSUME TypeInv, RecordInv, PrefixInv, [Next]_vars
  PROVE  PrefixInv'
<1> SUFFICES ASSUME NEW u \in Threads, pc'[u] # "kernel" PROVE PrefixOf(u)'
  BY DEF PrefixInv
<1>1. CASE UNCHANGED vars
  BY <1>1, PrefixFrame DEF vars, locals, ghosts, PrefixInv
<1>2. CASE Tick \/ Consume \/ \E k \in Keys : LoadPrefix(k)
  BY <1>2, PrefixFrame DEF Tick, Consume, LoadPrefix, locals, ghosts, PrefixInv
<1>3. ASSUME NEW t \in Threads, NEW op \in Ops, NEW path \in Paths,
             TryFslatEntry(t, op, path)
      PROVE  PrefixOf(u)'
  <2>1. u # t
    BY <1>3 DEF TryFslatEntry
  <2> QED
    BY <1>3, <2>1, PrefixFrame DEF TryFslatEntry, locals, ghosts, PrefixInv, TypeInv, TypeOK
<1>4. ASSUME NEW t \in Threads, NEW r \in Rets,
             TryFslatExitNoRecord(t, r) \/ TryFslatExitFailed(t, r)
      PROVE  PrefixOf(u)'
  <2>1. u # t
    BY <1>4 DEF TryFslatExitNoRecord, TryFslatExitFailed
  <2> QED
    BY <1>4, <2>1, PrefixFrame
    DEF TryFslatExitNoRecord, TryFslatExitFailed, Return, locals, ghosts, PrefixInv, TypeInv,
        TypeOK
<1>5. ASSUME NEW t \in Threads, NEW r \in Rets, TryFslatExit(t, r) PROVE PrefixOf(u)'
  <2>1. CASE u # t
    BY <1>5, <2>1, PrefixFrame DEF TryFslatExit, Goto, PrefixInv, TypeInv, TypeOK
  <2>2. CASE u = t
    <3>1. /\ pc'[t] = "scan" /\ idx'[t] = 0 /\ hit'[t] = {}
          /\ due'[t] = Configured(Top(t).op, Top(t).path)
          /\ frames' = frames /\ loaded' = loaded
      BY <1>5 DEF TryFslatExit, Goto, TypeInv, TypeOK
    <3>2. Configured(Top(t).op, Top(t).path)' = Configured(Top(t).op, Top(t).path)
      BY <3>1 DEF Top, Configured, starts_with, PathLen
    <3>3. \A i \in due'[t] : ~ (i < 0)
      BY <3>1, ConstantsAssumption DEF Configured, Idx
    <3> QED
      BY <2>2, <3>1, <3>2, <3>3 DEF PrefixOf, Matched, Critical, Served
  <2> QED
    BY <2>1, <2>2
<1>6. ASSUME NEW t \in Threads, Handler(t) PROVE PrefixOf(u)'
  <2>1. CASE u = t
    BY <1>6, <2>1, PrefixHandler
  <2>2. CASE u # t
    <3>1. pc'[u] = pc[u] /\ frames'[u] = frames[u] /\ idx'[u] = idx[u] /\ loaded' = loaded
      BY <1>6, <2>2
      DEF Handler, Scan, Acquire, Update, UpdatePublish, TakeSnapshot, ClearUnlock,
          RingbufReserve, RingbufSubmit, CounterLoad, CounterStore, RingbufFull, DropsStore,
          Finish, Continue, Goto, Return, locals, TypeInv, TypeOK
    <3>2. due'[u] = due[u] /\ hit'[u] = hit[u]
      BY <1>6, <2>2
      DEF Handler, Scan, Acquire, Update, UpdatePublish, AddSample, TakeSnapshot, ClearUnlock,
          RingbufReserve, RingbufSubmit, CounterLoad, CounterStore, RingbufFull, DropsStore,
          Finish, ghosts, TypeInv, TypeOK
    <3> QED
      BY <3>1, <3>2, PrefixFrame DEF PrefixInv
  <2> QED
    BY <2>1, <2>2
<1> QED
  BY <1>1, <1>2, <1>3, <1>4, <1>5, <1>6 DEF Next

(* With an element of PTRLIST per thread, every sample reaches all         *)
(* prefixes that were configured for its path when its exit began, and no  *)
(* other, even though the loader writes prefixes under running handlers.   *)
THEOREM SampleReachesPrefixes == Spec => []PrefixesServed
<1> DEFINE PInv == RoomForAll => RecordInv /\ PrefixInv
<1>1. Init => PInv
  BY RecordInit DEF Init, PrefixInv
<1>2. TypeInv /\ PInv /\ [Next]_vars => PInv'
  BY RecordStep, PrefixStep DEF RoomForAll
<1>3. PInv => PrefixesServed
  BY DEF PrefixInv, PrefixOf, PrefixesServed, RoomForAll
<1> HIDE DEF PInv
<1> QED
  BY <1>1, <1>2, <1>3, InitType, TypeStep, PTL DEF Spec

-----------------------------------------------------------------------------
(***************************************************************************)
(* What a record says.  Partial sums, and u64 sums that may wrap, are      *)
(* continued by one value.                                                 *)
(***************************************************************************)
LEMMA SumStep ==
  ASSUME NEW len \in Nat, NEW n \in Nat, NEW x \in Nat, NEW v, NEW v2, SumsTo(n, len, v),
         \A i \in 1 .. len : v2[i] = v[i], v2[len + 1] = x
  PROVE  SumsTo(n + x, len + 1, v2)
<1>1. PICK p \in [0 .. len -> 0 .. n] :
        /\ p[0] = 0 /\ p[len] = n
        /\ \A i \in 1 .. len : p[i] = p[i - 1] + v[i]
  BY DEF SumsTo
<1> DEFINE q == [i \in 0 .. (len + 1) |-> IF i <= len THEN p[i] ELSE n + x]
<1>2. q \in [0 .. (len + 1) -> 0 .. (n + x)]
  <2>1. ASSUME NEW i \in 0 .. (len + 1) PROVE (IF i <= len THEN p[i] ELSE n + x) \in 0 .. (n + x)
    <3>1. CASE i <= len
      <4>1. p[i] \in 0 .. n
        BY <3>1
      <4> QED
        BY <3>1, <4>1
    <3> QED
      BY <3>1
  <2> QED
    BY <2>1
<1>3. q[len + 1] = n + x /\ \A i \in 0 .. len : q[i] = p[i]
  OBVIOUS
<1> HIDE DEF q
<1>4. ASSUME NEW i \in 1 .. (len + 1) PROVE q[i] = q[i - 1] + v2[i]
  <2>1. CASE i = len + 1
    <3>1. i - 1 = len /\ len \in 0 .. len
      BY <2>1
    <3> QED
      BY <1>1, <1>3, <2>1, <3>1
  <2>2. CASE i # len + 1
    <3>1. i \in 1 .. len /\ i \in 0 .. len /\ i - 1 \in 0 .. len
      BY <2>2
    <3> QED
      BY <1>1, <1>3, <3>1
  <2> QED
    BY <2>1, <2>2
<1>5. q[0] = 0
  BY <1>1, <1>3
<1> QED
  BY <1>2, <1>3, <1>4, <1>5 DEF SumsTo

(* An addition wraps once at most. *)
LEMMA WrapOnce ==
  ASSUME NEW a \in u64, NEW x \in u64, NEW len \in Nat, NEW laps \in 0 .. len
  PROVE  \E m \in 0 .. (len + 1) :
           /\ Add64(a, x) + m * U64 = (a + laps * U64) + x
           /\ Add64(a, x) \in u64 /\ a + laps * U64 \in Nat
<1>1. U64 \in Nat /\ U64 > 1 /\ a \in Nat /\ x \in Nat /\ a < U64 /\ x < U64 /\ laps \in Nat
  BY ConstantsAssumption DEF u64
<1>2. PICK y \in Nat, z \in Nat : y = laps * U64 /\ z = (laps + 1) * U64
  BY <1>1
<1>3. z = y + U64
  BY <1>1, <1>2
<1>4. CASE a + x < U64
  <2>1. Add64(a, x) = a + x
    BY <1>4 DEF Add64
  <2>2. a + x \in u64 /\ (a + x) + y = (a + y) + x /\ a + y \in Nat
    BY <1>1, <1>4 DEF u64
  <2> QED
    BY <1>2, <2>1, <2>2
<1>5. CASE ~ (a + x < U64)
  <2>1. Add64(a, x) = a + x - U64
    BY <1>5 DEF Add64
  <2>2. a + x - U64 \in u64 /\ (a + x - U64) + z = (a + y) + x /\ a + y \in Nat
    BY <1>1, <1>3, <1>5 DEF u64
  <2>3. laps + 1 \in 0 .. (len + 1)
    BY <1>1
  <2> QED
    BY <1>2, <2>1, <2>2, <2>3
<1> QED
  BY <1>4, <1>5

LEMMA WrapStep ==
  ASSUME NEW len \in Nat, NEW a \in u64, NEW x \in u64, NEW v, NEW v2, WrapsTo(a, len, v),
         \A i \in 1 .. len : v2[i] = v[i], v2[len + 1] = x
  PROVE  WrapsTo(Add64(a, x), len + 1, v2)
<1>1. PICK laps \in 0 .. len : SumsTo(a + laps * U64, len, v)
  BY DEF WrapsTo
<1>2. PICK m \in 0 .. (len + 1) :
        /\ Add64(a, x) + m * U64 = (a + laps * U64) + x
        /\ a + laps * U64 \in Nat
  BY WrapOnce
<1>3. PICK n \in Nat : n = a + laps * U64
  BY <1>2
<1>4. SumsTo(n, len, v) /\ x \in Nat
  BY <1>1, <1>3 DEF u64
<1>5. SumsTo(n + x, len + 1, v2)
  BY <1>4, SumStep
<1>6. n + x = Add64(a, x) + m * U64
  BY <1>2, <1>3
<1> QED
  BY <1>5, <1>6 DEF WrapsTo

(***************************************************************************)
(* An entry agrees with the samples w that were added to it since it was   *)
(* cleared or loaded.                                                      *)
(***************************************************************************)
Agrees(s, w) ==
  /\ Adds(s, w)
  /\ w # <<>> => /\ IsMax(s.max, w)
                 /\ (\A i \in DOMAIN w : w[i].latency # 0) => IsMin(s.min, w)
  /\ w = <<>> => s.max = 0 /\ s.min \in {0, MAX64}

(* An entry that is zero or was just cleared agrees with no samples. *)
LEMMA AgreesEmpty ==
  ASSUME NEW s, s.count = 0, s.total_lat = 0, s.total_bytes = 0, s.max = 0, s.min \in {0, MAX64}
  PROVE  Agrees(s, <<>>)
<1>1. U64 \in Nat /\ Len(<<>>) = 0 /\ 0 \in 0 .. 0 /\ 0 + 0 * U64 = 0
  BY ConstantsAssumption
<1>2. \A v : SumsTo(0, 0, v)
  <2> SUFFICES ASSUME NEW v PROVE SumsTo(0, 0, v)
    OBVIOUS
  <2>1. PICK p \in [0 .. 0 -> 0 .. 0] : p[0] = 0
    <3>1. [i \in 0 .. 0 |-> 0] \in [0 .. 0 -> 0 .. 0] /\ [i \in 0 .. 0 |-> 0][0] = 0
      OBVIOUS
    <3> QED
      BY <3>1
  <2>2. \A i \in 1 .. 0 : p[i] = p[i - 1] + v[i]
    OBVIOUS
  <2> QED
    BY <2>1, <2>2 DEF SumsTo
<1>3. \A v : WrapsTo(0, 0, v)
  BY <1>1, <1>2 DEF WrapsTo
<1> QED
  BY <1>1, <1>3 DEF Agrees, Adds

(* update_stats_locked keeps the agreement. *)
LEMMA AgreesUpdate ==
  ASSUME NEW s \in Stats, NEW w \in Seq(Sample), NEW lat \in u64, NEW bytes \in u64,
         Agrees(s, w), \A i \in 1 .. Len(w) : w[i].latency \in u64
  PROVE  Agrees(update_stats_locked(s, lat, bytes),
                Append(w, [latency |-> lat, bytes |-> bytes]))
<1> DEFINE r  == [latency |-> lat, bytes |-> bytes]
           w2 == Append(w, r)
           s2 == update_stats_locked(s, lat, bytes)
<1>0. /\ s.count \in u64 /\ s.total_lat \in u64 /\ s.total_bytes \in u64
      /\ s.min \in Int /\ s.max \in Int /\ lat \in Int /\ lat >= 0 /\ lat <= MAX64
      /\ MAX64 \in Int /\ 1 \in u64 /\ s.max >= 0 /\ s.min >= 0
  BY ConstantsAssumption DEF Stats, u64, MAX64
<1>1. r \in Sample /\ r.latency = lat /\ r.bytes = bytes
  BY DEF Sample, u64
<1>2. /\ Len(w) \in Nat /\ DOMAIN w = 1 .. Len(w)
      /\ w2 \in Seq(Sample) /\ Len(w2) = Len(w) + 1 /\ DOMAIN w2 = 1 .. (Len(w) + 1)
      /\ w2[Len(w) + 1] = r /\ w2 # <<>>
      /\ \A i \in 1 .. Len(w) : w2[i] = w[i]
  BY <1>1, AppendProperties, LenProperties
<1>3. /\ s2.count = Add64(s.count, 1)
      /\ s2.total_lat = Add64(s.total_lat, lat)
      /\ s2.total_bytes = Add64(s.total_bytes, bytes)
      /\ s2.min = IF lat < s.min \/ s.min = 0 THEN lat ELSE s.min
      /\ s2.max = IF lat > s.max \/ s.max = 0 THEN lat ELSE s.max
  BY DEF update_stats_locked, Stats
<1> HIDE DEF r, w2, s2
<1>4. \E m \in 0 .. Len(w2) : Len(w2) = s2.count + m * U64
  <2>1. PICK laps \in 0 .. Len(w) : Len(w) = s.count + laps * U64
    BY DEF Agrees, Adds
  <2>2. PICK m \in 0 .. (Len(w) + 1) : Add64(s.count, 1) + m * U64 = (s.count + laps * U64) + 1
    <3>1. PICK a \in u64, len \in Nat : a = s.count /\ len = Len(w)
      BY <1>0, <1>2
    <3>2. laps \in 0 .. len /\ 1 \in u64
      BY <1>0, <3>1
    <3>3. \E m \in 0 .. (len + 1) : Add64(a, 1) + m * U64 = (a + laps * U64) + 1
      BY <3>2, WrapOnce
    <3> QED
      BY <3>1, <3>3
  <2> QED
    BY <1>2, <1>3, <2>1, <2>2
<1>5. WrapsTo(s2.total_lat, Len(w2), Latencies(w2))
  <2>1. /\ \A i \in 1 .. Len(w) : Latencies(w2)[i] = Latencies(w)[i]
        /\ Latencies(w2)[Len(w) + 1] = lat
    BY <1>1, <1>2 DEF Latencies
  <2>2. WrapsTo(s.total_lat, Len(w), Latencies(w))
    BY DEF Agrees, Adds
  <2>3. WrapsTo(Add64(s.total_lat, lat), Len(w) + 1, Latencies(w2))
    BY <1>0, <1>2, <2>1, <2>2, WrapStep
  <2> QED
    BY <1>2, <1>3, <2>3
<1>6. WrapsTo(s2.total_bytes, Len(w2), Sizes(w2))
  <2>1. /\ \A i \in 1 .. Len(w) : Sizes(w2)[i] = Sizes(w)[i]
        /\ Sizes(w2)[Len(w) + 1] = bytes
    BY <1>1, <1>2 DEF Sizes
  <2>2. WrapsTo(s.total_bytes, Len(w), Sizes(w))
    BY DEF Agrees, Adds
  <2>3. WrapsTo(Add64(s.total_bytes, bytes), Len(w) + 1, Sizes(w2))
    BY <1>0, <1>2, <2>1, <2>2, WrapStep
  <2> QED
    BY <1>2, <1>3, <2>3
<1>7. w = <<>> => Len(w) = 0
  OBVIOUS
<1>8. IsMax(s2.max, w2)
  <2>1. CASE w = <<>>
    <3>1. s2.max = lat
      BY <1>3, <2>1 DEF Agrees
    <3>2. \A i \in DOMAIN w2 : i = Len(w) + 1
      BY <1>2, <1>7, <2>1
    <3> QED
      BY <1>0, <1>1, <1>2, <3>1, <3>2 DEF IsMax
  <2>2. CASE w # <<>>
    <3>1. /\ \A i \in 1 .. Len(w) : w2[i].latency <= s.max /\ w2[i].latency \in Int
          /\ \E i \in 1 .. Len(w) : w2[i].latency = s.max
      BY <1>2, <2>2 DEF Agrees, IsMax, u64
    <3>2. /\ s.max <= s2.max /\ lat <= s2.max /\ s2.max \in Int
          /\ s2.max = lat \/ s2.max = s.max
      BY <1>0, <1>3
    <3>3. \A i \in DOMAIN w2 : i \in 1 .. Len(w) \/ i = Len(w) + 1
      BY <1>2
    <3>4. \A i \in DOMAIN w2 : w2[i].latency <= s2.max
      <4> SUFFICES ASSUME NEW i \in DOMAIN w2 PROVE w2[i].latency <= s2.max
        OBVIOUS
      <4>1. CASE i = Len(w) + 1
        BY <1>1, <1>2, <3>2, <4>1
      <4>2. CASE i \in 1 .. Len(w)
        BY <1>0, <3>1, <3>2, <4>2
      <4> QED
        BY <3>3, <4>1, <4>2
    <3>5. \E i \in DOMAIN w2 : w2[i].latency = s2.max
      <4>1. CASE s2.max = lat
        <5>1. Len(w) + 1 \in DOMAIN w2 /\ w2[Len(w) + 1].latency = lat
          BY <1>1, <1>2
        <5> QED
          BY <4>1, <5>1
      <4>2. CASE s2.max = s.max
        <5>1. \A i \in 1 .. Len(w) : i \in DOMAIN w2
          BY <1>2
        <5> QED
          BY <3>1, <4>2, <5>1
      <4> QED
        BY <3>2, <4>1, <4>2
    <3> QED
      BY <3>4, <3>5 DEF IsMax
  <2> QED
    BY <2>1, <2>2
<1>9. ASSUME \A i \in DOMAIN w2 : w2[i].latency # 0 PROVE IsMin(s2.min, w2)
  <2>0. Len(w) + 1 \in DOMAIN w2 /\ w2[Len(w) + 1].latency = lat /\ lat # 0
    BY <1>1, <1>2, <1>9
  <2>1. CASE w = <<>>
    <3>1. s.min = 0 \/ s.min = MAX64
      BY <2>1 DEF Agrees
    <3>2. s2.min = lat
      BY <1>0, <1>3, <3>1
    <3>3. \A i \in DOMAIN w2 : i = Len(w) + 1
      BY <1>2, <1>7, <2>1
    <3> QED
      BY <1>0, <2>0, <3>2, <3>3 DEF IsMin
  <2>2. CASE w # <<>>
    <3>1. \A i \in 1 .. Len(w) : i \in DOMAIN w2 /\ w2[i] = w[i] /\ w[i].latency # 0
      BY <1>2, <1>9
    <3>2. /\ \A i \in 1 .. Len(w) : s.min <= w2[i].latency /\ w2[i].latency \in Int
          /\ \E i \in 1 .. Len(w) : w2[i].latency = s.min
          /\ s.min # 0
      BY <1>2, <2>2, <3>1, SMTT(30) DEF Agrees, IsMin, u64
    <3>3. /\ s2.min <= s.min /\ s2.min <= lat /\ s2.min \in Int
          /\ s2.min = lat \/ s2.min = s.min
      BY <1>0, <1>3, <3>2
    <3>4. \A i \in DOMAIN w2 : s2.min <= w2[i].latency
      <4> SUFFICES ASSUME NEW i \in DOMAIN w2 PROVE s2.min <= w2[i].latency
        OBVIOUS
      <4>1. CASE i = Len(w) + 1
        BY <2>0, <3>3, <4>1
      <4>2. CASE i # Len(w) + 1
        <5>1. i \in 1 .. Len(w)
          BY <1>2, <4>2
        <5> QED
          BY <1>0, <3>2, <3>3, <5>1
      <4> QED
        BY <4>1, <4>2
    <3>5. \E i \in DOMAIN w2 : w2[i].latency = s2.min
      <4>1. CASE s2.min = lat
        BY <2>0, <4>1
      <4>2. CASE s2.min = s.min
        BY <3>1, <3>2, <4>2
      <4> QED
        BY <3>3, <4>1, <4>2
    <3> QED
      BY <3>4, <3>5 DEF IsMin
  <2> QED
    BY <2>1, <2>2
<1>10. Agrees(s2, w2)
  BY <1>2, <1>4, <1>5, <1>6, <1>8, <1>9 DEF Agrees, Adds
<1> QED
  BY <1>10 DEF s2, w2, r

-----------------------------------------------------------------------------
(* A call starts before it ends: the clock that try_fslat_exit reads is    *)
(* not behind the one that its fentry probe read.                          *)
StartsOf(t) ==
  /\ \A i \in 1 .. Len(frames[t]) : frames[t][i].start <= clock
  /\ pc[t] # "kernel" => Top(t).start <= now[t]

StartInv == \A t \in Threads : StartsOf(t)

LEMMA StartsFrame ==
  ASSUME TypeInv, NEW u \in Threads, StartsOf(u), frames'[u] = frames[u], now'[u] = now[u],
         pc'[u] # "kernel" => pc[u] # "kernel", clock' = clock
  PROVE  StartsOf(u)'
BY DEF StartsOf, Top

LEMMA StartsReturn ==
  ASSUME TypeInv, StartInv, NEW t \in Threads, frames[t] # <<>>, Return(t), clock' = clock,
         pc'[t] = "kernel",
         \A u \in Threads : u # t => pc'[u] = pc[u] /\ now'[u] = now[u]
  PROVE  StartInv'
<1>1. frames[t] \in Seq(Frame) /\ Len(frames[t]) \in Nat /\ Len(frames[t]) >= 1
  BY TopType DEF TypeInv, TypeOK
<1>2. frames'[t] = SubSeq(frames[t], 1, Len(frames[t]) - 1)
  BY DEF Return, TypeInv, TypeOK
<1>3. /\ Len(frames'[t]) = Len(frames[t]) - 1
      /\ \A i \in 1 .. (Len(frames[t]) - 1) : frames'[t][i] = frames[t][i]
  BY <1>1, <1>2
<1>4. StartsOf(t)'
  BY <1>1, <1>3 DEF StartsOf, StartInv
<1>5. ASSUME NEW u \in Threads, u # t PROVE StartsOf(u)'
  <2>1. frames'[u] = frames[u]
    BY <1>5 DEF Return, TypeInv, TypeOK
  <2> QED
    BY <1>5, <2>1, StartsFrame DEF StartInv
<1> QED
  BY <1>4, <1>5 DEF StartInv

LEMMA StartStep == TypeInv /\ StartInv /\ [Next]_vars => StartInv'
<1> SUFFICES ASSUME TypeInv, StartInv, [Next]_vars PROVE StartInv'
  OBVIOUS
<1>1. CASE UNCHANGED vars
  BY <1>1, StartsFrame DEF vars, locals, StartInv
<1>2. CASE Consume \/ \E k \in Keys : LoadPrefix(k)
  BY <1>2, StartsFrame DEF Consume, LoadPrefix, locals, StartInv
<1>3. CASE Tick
  <2> SUFFICES ASSUME NEW u \in Threads PROVE StartsOf(u)'
    BY DEF StartInv
  <2>1. /\ clock \in Nat /\ clock' = clock + 1
        /\ pc' = pc /\ frames' = frames /\ now' = now
    BY <1>3, ConstantsAssumption DEF Tick, locals, TypeInv, TypeOK
  <2>2. frames[u] \in Seq(Frame)
    BY DEF TypeInv, TypeOK
  <2>3. \A i \in 1 .. Len(frames[u]) : frames[u][i].start <= clock'
    <3> SUFFICES ASSUME NEW i \in 1 .. Len(frames[u]) PROVE frames[u][i].start <= clock'
      OBVIOUS
    <3>1. frames[u][i] \in Frame
      BY <2>2, ElementOfSeq
    <3>2. frames[u][i].start \in Int /\ frames[u][i].start <= clock
      BY <3>1 DEF Frame, u64, StartInv, StartsOf
    <3> QED
      BY <2>1, <3>2
  <2>4. pc'[u] # "kernel" => Top(u)'.start <= now'[u]
    BY <2>1 DEF StartInv, StartsOf, Top
  <2> QED
    BY <2>1, <2>3, <2>4 DEF StartsOf
<1>4. ASSUME NEW t \in Threads, NEW op \in Ops, NEW path \in Paths,
             TryFslatEntry(t, op, path)
      PROVE  StartInv'
  <2> DEFINE call == [op |-> op, path |-> path, start |-> clock]
  <2>1. /\ pc[t] = "kernel" /\ pc' = pc /\ now' = now /\ clock' = clock
        /\ \A u \in Threads : u # t => frames'[u] = frames[u]
    BY <1>4 DEF TryFslatEntry, locals, TypeInv, TypeOK
  <2>2. clock \in u64
    BY ConstantsAssumption DEF TypeInv, TypeOK, u64
  <2>3. frames[t] \in Seq(Frame) /\ call \in Frame /\ frames'[t] = Append(frames[t], call)
    BY <1>4, <2>2 DEF TypeInv, TypeOK, TryFslatEntry, Frame
  <2>4. call.start = clock
    OBVIOUS
  <2> HIDE DEF call
  <2>5. /\ Len(frames[t]) \in Nat /\ Len(frames'[t]) = Len(frames[t]) + 1
        /\ frames'[t][Len(frames[t]) + 1] = call
        /\ \A i \in 1 .. Len(frames[t]) : frames'[t][i] = frames[t][i]
    BY <2>3, AppendProperties, LenProperties
  <2>6. \A i \in 1 .. Len(frames'[t]) : frames'[t][i].start <= clock
    <3> SUFFICES ASSUME NEW i \in 1 .. Len(frames'[t]) PROVE frames'[t][i].start <= clock
      OBVIOUS
    <3>1. CASE i = Len(frames[t]) + 1
      BY <2>2, <2>4, <2>5, <3>1 DEF u64
    <3>2. CASE i # Len(frames[t]) + 1
      <4>1. i \in 1 .. Len(frames[t])
        BY <2>5, <3>2
      <4> QED
        BY <2>5, <4>1 DEF StartInv, StartsOf
    <3> QED
      BY <3>1, <3>2
  <2>7. StartsOf(t)'
    BY <2>1, <2>6 DEF StartsOf
  <2>8. ASSUME NEW u \in Threads, u # t PROVE StartsOf(u)'
    BY <2>1, <2>8, StartsFrame DEF StartInv
  <2> QED
    BY <2>7, <2>8 DEF StartInv
<1>5. ASSUME NEW t \in Threads, NEW r \in Rets,
             TryFslatExitNoRecord(t, r) \/ TryFslatExitFailed(t, r)
      PROVE  StartInv'
  <2>1. /\ frames[t] # <<>> /\ Return(t) /\ clock' = clock /\ pc[t] = "kernel"
        /\ pc' = pc /\ now' = now
    BY <1>5 DEF TryFslatExitNoRecord, TryFslatExitFailed, locals
  <2> QED
    BY <2>1, StartsReturn
<1>6. ASSUME NEW t \in Threads, NEW r \in Rets, TryFslatExit(t, r) PROVE StartInv'
  <2>1. /\ frames[t] # <<>> /\ frames' = frames /\ clock' = clock /\ now'[t] = clock
        /\ \A u \in Threads : u # t => pc'[u] = pc[u] /\ now'[u] = now[u]
    BY <1>6 DEF TryFslatExit, Goto, TypeInv, TypeOK
  <2>2. Len(frames[t]) \in 1 .. Len(frames[t])
    BY <2>1, TopType DEF TypeInv
  <2>3. Top(t).start <= clock
    BY <2>2 DEF StartInv, StartsOf, Top
  <2>4. StartsOf(t)'
    BY <2>1, <2>3 DEF StartInv, StartsOf, Top
  <2>5. ASSUME NEW u \in Threads, u # t PROVE StartsOf(u)'
    BY <2>1, <2>5, StartsFrame DEF StartInv
  <2> QED
    BY <2>4, <2>5 DEF StartInv
<1>7. ASSUME NEW t \in Threads, Handler(t) PROVE StartInv'
  <2>1. CASE Finish(t)
    <3>1. /\ pc[t] # "kernel" /\ Return(t) /\ clock' = clock /\ pc'[t] = "kernel"
          /\ \A u \in Threads : u # t => pc'[u] = pc[u] /\ now'[u] = now[u]
      BY <2>1 DEF Finish, Goto, TypeInv, TypeOK
    <3>2. frames[t] # <<>>
      BY <3>1 DEF TypeInv, ControlInv
    <3> QED
      BY <3>1, <3>2, StartsReturn
  <2>2. CASE ~ Finish(t)
    <3>1. /\ frames' = frames /\ now' = now /\ clock' = clock /\ pc[t] # "kernel"
          /\ \A u \in Threads : u # t => pc'[u] = pc[u]
      BY <1>7, <2>2
      DEF Handler, Scan, Acquire, Update, UpdatePublish, TakeSnapshot, ClearUnlock,
          RingbufReserve, RingbufSubmit, CounterLoad, CounterStore, RingbufFull, DropsStore,
          Continue, Goto, locals, TypeInv, TypeOK
    <3> QED
      BY <3>1, StartsFrame DEF StartInv
  <2> QED
    BY <2>1, <2>2
<1> QED
  BY <1>1, <1>2, <1>3, <1>4, <1>5, <1>6, <1>7 DEF Next

(* Nobody is in a call at first. *)
LEMMA StartInit == Init => StartInv
<1> SUFFICES ASSUME Init, NEW t \in Threads PROVE StartsOf(t)
  BY DEF StartInv
<1>1. frames[t] = <<>> /\ pc[t] = "kernel"
  BY DEF Init
<1>2. Len(frames[t]) = 0
  BY <1>1
<1> QED
  BY <1>1, <1>2 DEF StartsOf

-----------------------------------------------------------------------------
(* MetricsExact, followed back from the ring to the snapshot and from it   *)
(* to the entry, which agrees with its window all the time.  An entry the  *)
(* loader has not written has no samples, so that loading it, which sets   *)
(* it to zero, forgets none.                                               *)
EntryOf(k) ==
  /\ Agrees(stats[k], window[k])
  /\ \A i \in 1 .. Len(window[k]) : window[k][i].latency \in u64
  /\ k \notin loaded => window[k] = <<>>

Described(m) == Agrees(m, m.samples) /\ m.samples # <<>>

MetricInv ==
  /\ \A k \in Keys : EntryOf(k)
  /\ \A t \in Threads : pc[t] = "snapshot" => window[Key(t)] # <<>>
  /\ \A t \in Threads : pc[t] \in {"clear", "reserve"} => Described(snapshot[t])
  /\ \A i \in DOMAIN ring : Described(ring[i].msg)

(* Agreement is about the five metrics. *)
LEMMA AgreesFields ==
  ASSUME NEW s, NEW m, NEW w, Agrees(s, w), m.count = s.count, m.total_lat = s.total_lat,
         m.total_bytes = s.total_bytes, m.min = s.min, m.max = s.max
  PROVE  Agrees(m, w)
BY DEF Agrees, Adds

(* An entry that a step leaves alone. *)
LEMMA MetricEntry ==
  ASSUME NEW k \in Keys, EntryOf(k), stats'[k] = stats[k], window'[k] = window[k],
         loaded \subseteq loaded'
  PROVE  EntryOf(k)'
<1>1. Agrees(stats[k], window[k])'
  BY DEF EntryOf, Agrees, Adds
<1> QED
  BY <1>1 DEF EntryOf

(* Nothing is sampled at first. *)
LEMMA MetricInit == Init => MetricInv
<1> SUFFICES ASSUME Init PROVE MetricInv
  OBVIOUS
<1>1. ASSUME NEW k \in Keys PROVE EntryOf(k)
  <2>1. stats[k] = ZeroStats /\ window[k] = <<>>
    BY DEF Init
  <2>2. Agrees(ZeroStats, <<>>)
    BY AgreesEmpty DEF ZeroStats
  <2>3. Len(window[k]) = 0
    BY <2>1
  <2> QED
    BY <2>1, <2>2, <2>3 DEF EntryOf
<1>2. DOMAIN ring = {} /\ \A t \in Threads : pc[t] = "kernel"
  BY DEF Init
<1> QED
  BY <1>1, <1>2 DEF MetricInv

(* Steps that keep the entries right, reserve no record and take no        *)
(* snapshot.                                                               *)
LEMMA MetricOther ==
  ASSUME MetricInv, \A k \in Keys : EntryOf(k)',
         \A u \in Threads : pc'[u] = "snapshot" =>
           /\ pc[u] = "snapshot" /\ frames'[u] = frames[u] /\ idx'[u] = idx[u]
           /\ window'[Key(u)] = window[Key(u)],
         \A u \in Threads : pc'[u] \in {"clear", "reserve"} =>
           pc[u] \in {"clear", "reserve"} /\ snapshot'[u] = snapshot[u],
         \A i \in DOMAIN ring' : \E j \in DOMAIN ring : ring'[i].msg = ring[j].msg
  PROVE  MetricInv'
<1>1. ASSUME NEW u \in Threads, pc'[u] = "snapshot" PROVE window'[Key(u)'] # <<>>
  BY <1>1, SameKey DEF MetricInv
<1>2. ASSUME NEW u \in Threads, pc'[u] \in {"clear", "reserve"} PROVE Described(snapshot'[u])
  BY <1>2 DEF MetricInv
<1>3. ASSUME NEW i \in DOMAIN ring' PROVE Described(ring'[i].msg)
  BY <1>3 DEF MetricInv
<1>4. /\ \A u \in Threads : pc'[u] = "snapshot" => window'[Key(u)'] # <<>>
      /\ \A u \in Threads : pc'[u] \in {"clear", "reserve"} => Described(snapshot'[u])
      /\ \A i \in DOMAIN ring' : Described(ring'[i].msg)
  BY <1>1, <1>2, <1>3
<1> QED
  BY <1>4 DEF MetricInv, Described, Agrees, Adds

(* The latency that a handler adds is that of its call. *)
LEMMA OwnLatency ==
  ASSUME TypeInv, RecordInv, StartInv, NEW t \in Threads, pc[t] # "kernel"
  PROVE  /\ Sub64(now[t], PTRLIST[ptr[t]].timestamp) = now[t] - Top(t).start
         /\ now[t] - Top(t).start \in u64
<1>1. PTRLIST[ptr[t]].timestamp = Top(t).start
  BY DEF RecordInv, TypeInv, TypeOK
<1>2. Top(t).start \in u64 /\ now[t] \in u64
  BY TopType DEF TypeInv, TypeOK, ControlInv, Frame
<1>3. Top(t).start <= now[t]
  BY DEF StartInv, StartsOf
<1> HIDE DEF Top
<1>4. now[t] - Top(t).start \in u64
  BY <1>2, <1>3, ConstantsAssumption DEF u64
<1> QED
  BY <1>1, <1>3, <1>4 DEF Sub64

(* Adding the sample of a call adds it to the entry and to its window. *)
LEMMA MetricSample ==
  ASSUME TypeInv, RecordInv, StartInv, MetricInv, NEW t \in Threads,
         Update(t) \/ UpdatePublish(t)
  PROVE  MetricInv'
<1> DEFINE lat == now[t] - Top(t).start
           r   == [latency |-> lat, bytes |-> ret[t]]
<1>0. /\ AddSample(t) /\ Handler(t)
      /\ pc[t] \in {"update", "update_publish"} /\ pc[t] \in Critical /\ pc[t] # "kernel"
      /\ pc[t] \in Matched
      /\ ring' = ring /\ snapshot' = snapshot /\ loaded' = loaded
      /\ pc'[t] \notin {"clear", "reserve"}
  BY DEF Update, UpdatePublish, Handler, Critical, Matched, locals, Continue, Goto, TypeInv,
     TypeOK
<1>1. Key(t) \in Keys
  BY <1>0, KeyType
<1>2. lat \in u64 /\ Sub64(now[t], PTRLIST[ptr[t]].timestamp) = lat
  BY <1>0, OwnLatency
<1>3. /\ stats'[Key(t)] = update_stats_locked(stats[Key(t)], lat, ret[t])
      /\ window'[Key(t)] = Append(window[Key(t)], r)
      /\ \A k \in Keys : k # Key(t) => stats'[k] = stats[k] /\ window'[k] = window[k]
  <2> HIDE DEF lat
  <2> QED
    BY <1>0, <1>1, <1>2 DEF AddSample, TypeInv, TypeOK, lat
<1>4. /\ stats[Key(t)] \in Stats /\ window[Key(t)] \in Seq(Sample) /\ ret[t] \in u64
      /\ Key(t) \in loaded
  BY <1>0, <1>1, KeyType DEF TypeInv, TypeOK
<1>5. r.latency = lat /\ r \in Sample
  BY <1>2, <1>4 DEF Sample, u64
<1>6. /\ Agrees(stats[Key(t)], window[Key(t)])
      /\ \A i \in 1 .. Len(window[Key(t)]) : window[Key(t)][i].latency \in u64
  BY <1>1 DEF MetricInv, EntryOf
<1>7. Agrees(stats'[Key(t)], window'[Key(t)])
  <2> HIDE DEF lat
  <2> QED
    BY <1>2, <1>3, <1>4, <1>6, AgreesUpdate
<1> HIDE DEF lat, r
<1>8. /\ window'[Key(t)] # <<>>
      /\ \A i \in 1 .. Len(window'[Key(t)]) : window'[Key(t)][i].latency \in u64
  <2>1. PICK w \in Seq(Sample) : w = window[Key(t)]
    BY <1>4
  <2>2. /\ Len(w) \in Nat /\ Append(w, r) # <<>> /\ Len(Append(w, r)) = Len(w) + 1
        /\ Append(w, r)[Len(w) + 1] = r
        /\ \A i \in 1 .. Len(w) : Append(w, r)[i] = w[i]
    BY <1>5, AppendProperties, LenProperties
  <2>3. ASSUME NEW i \in 1 .. (Len(w) + 1) PROVE Append(w, r)[i].latency \in u64
    <3>1. CASE i = Len(w) + 1
      BY <1>2, <1>5, <2>2, <3>1
    <3>2. CASE i # Len(w) + 1
      <4>1. i \in 1 .. Len(w)
        BY <2>2, <3>2
      <4> QED
        BY <1>6, <2>1, <2>2, <4>1
    <3> QED
      BY <3>1, <3>2
  <2> QED
    BY <1>3, <2>1, <2>2, <2>3
<1>9. ASSUME NEW k \in Keys PROVE EntryOf(k)'
  <2>1. CASE k = Key(t)
    <3>1. Agrees(stats[k], window[k])'
      BY <1>7, <2>1 DEF Agrees, Adds
    <3>2. /\ \A i \in 1 .. Len(window'[k]) : window'[k][i].latency \in u64
          /\ k \in loaded'
      BY <1>0, <1>4, <1>8, <2>1
    <3> QED
      BY <3>1, <3>2 DEF EntryOf
  <2>2. CASE k # Key(t)
    BY <1>0, <1>3, <2>2, MetricEntry DEF MetricInv
  <2> QED
    BY <2>1, <2>2
<1>10. ASSUME NEW u \in Threads, pc'[u] = "snapshot" PROVE window'[Key(u)'] # <<>>
  <2>1. CASE u = t
    <3>1. Key(t)' = Key(t)
      BY <1>10, <2>1, SameKey DEF Update, UpdatePublish, locals, Continue, Goto, TypeInv, TypeOK
    <3> QED
      BY <1>8, <2>1, <3>1
  <2>2. CASE u # t
    <3>1. pc[u] = "snapshot" /\ Key(u)' = Key(u)
      BY <1>0, <1>10, <2>2, OthersFrame, SameKey
    <3>2. Key(u) \in Keys /\ Key(u) # Key(t)
      BY <1>0, <2>2, <3>1, KeyType DEF TypeInv, ControlInv, Critical, Matched
    <3> QED
      BY <1>3, <3>1, <3>2 DEF MetricInv
  <2> QED
    BY <2>1, <2>2
<1>11. ASSUME NEW u \in Threads, pc'[u] \in {"clear", "reserve"} PROVE Described(snapshot'[u])
  BY <1>0, <1>11, OthersFrame DEF MetricInv
<1>12. /\ \A u \in Threads : pc'[u] = "snapshot" => window'[Key(u)'] # <<>>
       /\ \A u \in Threads : pc'[u] \in {"clear", "reserve"} => Described(snapshot'[u])
       /\ \A i \in DOMAIN ring' : Described(ring'[i].msg)
  BY <1>0, <1>10, <1>11 DEF MetricInv
<1> QED
  BY <1>9, <1>12 DEF MetricInv, Described, Agrees, Adds

(* The snapshot of an entry describes the window of the entry. *)
LEMMA MetricSnapshot ==
  ASSUME TypeInv, MetricInv, NEW t \in Threads, TakeSnapshot(t)
  PROVE  MetricInv'
<1>0. /\ Handler(t) /\ stats' = stats /\ ring' = ring /\ window' = window /\ loaded' = loaded
      /\ pc[t] = "snapshot" /\ pc'[t] = "clear" /\ pc[t] \in Matched
  BY DEF Handler, TakeSnapshot, maps, ghosts, Goto, Matched, Critical, TypeInv, TypeOK
<1>1. /\ snapshot'[t].count = stats[Key(t)].count
      /\ snapshot'[t].min = stats[Key(t)].min
      /\ snapshot'[t].max = stats[Key(t)].max
      /\ snapshot'[t].total_lat = stats[Key(t)].total_lat
      /\ snapshot'[t].total_bytes = stats[Key(t)].total_bytes
      /\ snapshot'[t].samples = window[Key(t)]
  BY DEF TakeSnapshot, TypeInv, TypeOK
<1>2. Described(snapshot'[t])
  <2>1. Agrees(stats[Key(t)], window[Key(t)]) /\ window[Key(t)] # <<>>
    BY <1>0, KeyType DEF MetricInv, EntryOf
  <2> QED
    BY <1>1, <2>1, AgreesFields DEF Described
<1>3. ASSUME NEW k \in Keys PROVE EntryOf(k)'
  BY <1>0, MetricEntry DEF MetricInv
<1>4. ASSUME NEW u \in Threads, pc'[u] = "snapshot" PROVE window'[Key(u)'] # <<>>
  BY <1>0, <1>4, OthersFrame, SameKey DEF MetricInv
<1>5. ASSUME NEW u \in Threads, pc'[u] \in {"clear", "reserve"} PROVE Described(snapshot'[u])
  BY <1>0, <1>2, <1>5, OthersFrame DEF MetricInv
<1>6. /\ \A u \in Threads : pc'[u] = "snapshot" => window'[Key(u)'] # <<>>
      /\ \A u \in Threads : pc'[u] \in {"clear", "reserve"} => Described(snapshot'[u])
      /\ \A i \in DOMAIN ring' : Described(ring'[i].msg)
  BY <1>0, <1>4, <1>5 DEF MetricInv
<1> QED
  BY <1>3, <1>6 DEF MetricInv, Described, Agrees, Adds

(* Clearing the entry only gives the snapshot its sequence number. *)
LEMMA ClearKeepsCopy ==
  ASSUME TypeInv, NEW t \in Threads, ClearUnlock(t)
  PROVE  /\ snapshot'[t].count = snapshot[t].count
         /\ snapshot'[t].min = snapshot[t].min
         /\ snapshot'[t].max = snapshot[t].max
         /\ snapshot'[t].total_lat = snapshot[t].total_lat
         /\ snapshot'[t].total_bytes = snapshot[t].total_bytes
         /\ snapshot'[t].samples = snapshot[t].samples
BY ZenonT(30) DEF ClearUnlock, TypeInv, TypeOK, Message

(* Clearing an entry starts an empty window; the snapshot stays. *)
LEMMA MetricClear ==
  ASSUME TypeInv, MetricInv, NEW t \in Threads, ClearUnlock(t)
  PROVE  MetricInv'
<1>0. /\ Handler(t) /\ ring' = ring /\ loaded' = loaded
      /\ pc[t] = "clear" /\ pc'[t] = "reserve" /\ pc[t] \in Critical /\ pc[t] \in Matched
  BY DEF Handler, ClearUnlock, Goto, Critical, Matched, TypeInv, TypeOK
<1>1. Key(t) \in Keys
  BY <1>0, KeyType
<1>2. /\ stats'[Key(t)] = clear_stats_locked(stats[Key(t)], now[t])
      /\ window'[Key(t)] = <<>>
      /\ \A k \in Keys : k # Key(t) => stats'[k] = stats[k] /\ window'[k] = window[k]
  BY <1>1 DEF ClearUnlock, TypeInv, TypeOK
<1>3. Agrees(stats'[Key(t)], <<>>)
  <2>1. PICK s \in Stats : s = stats[Key(t)]
    BY <1>1 DEF TypeInv, TypeOK
  <2> DEFINE s2 == clear_stats_locked(s, now[t])
  <2>2. s2.count = 0 /\ s2.total_lat = 0 /\ s2.total_bytes = 0 /\ s2.max = 0 /\ s2.min = MAX64
    BY DEF clear_stats_locked, Stats
  <2> HIDE DEF s2
  <2>3. Agrees(s2, <<>>)
    BY <2>2, AgreesEmpty
  <2> QED
    BY <1>2, <2>1, <2>3 DEF s2
<1>4. ASSUME NEW k \in Keys PROVE EntryOf(k)'
  <2>1. CASE k = Key(t)
    <3>1. Agrees(stats[k], window[k])'
      BY <1>2, <1>3, <2>1 DEF Agrees, Adds
    <3>2. window'[k] = <<>> /\ Len(window'[k]) = 0
      BY <1>2, <2>1
    <3> QED
      BY <3>1, <3>2 DEF EntryOf
  <2>2. CASE k # Key(t)
    BY <1>0, <1>2, <2>2, MetricEntry DEF MetricInv
  <2> QED
    BY <2>1, <2>2
<1>5. Described(snapshot'[t])
  <2>1. Agrees(snapshot[t], snapshot[t].samples) /\ snapshot[t].samples # <<>>
    BY <1>0 DEF MetricInv, Described
  <2> QED
    BY <2>1, ClearKeepsCopy, AgreesFields DEF Described
<1>6. ASSUME NEW u \in Threads, pc'[u] = "snapshot" PROVE window'[Key(u)'] # <<>>
  <2>1. u # t /\ pc[u] = "snapshot" /\ Key(u)' = Key(u)
    BY <1>0, <1>6, OthersFrame, SameKey
  <2>2. Key(u) \in Keys /\ Key(u) # Key(t)
    BY <1>0, <2>1, KeyType DEF TypeInv, ControlInv, Critical, Matched
  <2> QED
    BY <1>2, <2>1, <2>2 DEF MetricInv
<1>7. ASSUME NEW u \in Threads, pc'[u] \in {"clear", "reserve"} PROVE Described(snapshot'[u])
  BY <1>0, <1>5, <1>7, OthersFrame DEF MetricInv
<1>8. /\ \A u \in Threads : pc'[u] = "snapshot" => window'[Key(u)'] # <<>>
      /\ \A u \in Threads : pc'[u] \in {"clear", "reserve"} => Described(snapshot'[u])
      /\ \A i \in DOMAIN ring' : Described(ring'[i].msg)
  BY <1>0, <1>6, <1>7 DEF MetricInv
<1> QED
  BY <1>4, <1>8 DEF MetricInv, Described, Agrees, Adds

(* The record reserved for a snapshot holds the snapshot. *)
LEMMA MetricReserve ==
  ASSUME TypeInv, MetricInv, NEW t \in Threads, RingbufReserve(t)
  PROVE  MetricInv'
<1>0. /\ Handler(t) /\ stats' = stats /\ window' = window /\ snapshot' = snapshot
      /\ loaded' = loaded /\ pc[t] = "reserve" /\ pc'[t] = "submit"
  BY DEF Handler, RingbufReserve, locals, ghosts, Goto, TypeInv, TypeOK
<1>1. ASSUME NEW k \in Keys PROVE EntryOf(k)'
  BY <1>0, MetricEntry DEF MetricInv
<1>2. ASSUME NEW u \in Threads, pc'[u] = "snapshot" PROVE window'[Key(u)'] # <<>>
  BY <1>0, <1>2, OthersFrame, SameKey DEF MetricInv
<1>3. ASSUME NEW u \in Threads, pc'[u] \in {"clear", "reserve"} PROVE Described(snapshot'[u])
  BY <1>0, <1>3, OthersFrame DEF MetricInv
<1>4. ASSUME NEW i \in DOMAIN ring' PROVE Described(ring'[i].msg)
  <2> DEFINE rec == [msg |-> snapshot[t], busy |-> TRUE, by |-> t]
  <2>1. ring \in Seq(RingRecord) /\ rec \in RingRecord /\ ring' = Append(ring, rec)
    BY DEF TypeInv, TypeOK, RingRecord, RingbufReserve
  <2>2. rec.msg = snapshot[t]
    OBVIOUS
  <2> HIDE DEF rec
  <2>3. /\ i \in 1 .. (Len(ring) + 1) /\ Len(ring) \in Nat /\ DOMAIN ring = 1 .. Len(ring)
        /\ ring'[Len(ring) + 1] = rec
        /\ \A j \in 1 .. Len(ring) : ring'[j] = ring[j]
    BY <1>4, <2>1, AppendProperties, LenProperties
  <2>4. CASE i = Len(ring) + 1
    BY <1>0, <2>2, <2>3, <2>4 DEF MetricInv
  <2>5. CASE i # Len(ring) + 1
    <3>1. i \in 1 .. Len(ring)
      BY <2>3, <2>5
    <3> QED
      BY <2>3, <3>1 DEF MetricInv
  <2> QED
    BY <2>4, <2>5
<1>5. /\ \A u \in Threads : pc'[u] = "snapshot" => window'[Key(u)'] # <<>>
      /\ \A u \in Threads : pc'[u] \in {"clear", "reserve"} => Described(snapshot'[u])
      /\ \A i \in DOMAIN ring' : Described(ring'[i].msg)
  BY <1>2, <1>3, <1>4
<1> QED
  BY <1>1, <1>5 DEF MetricInv, Described, Agrees, Adds

(* Steps that touch no entry. *)
LEMMA MetricSame ==
  ASSUME MetricInv, stats' = stats, window' = window, loaded' = loaded,
         \A u \in Threads : pc'[u] = "snapshot" =>
           pc[u] = "snapshot" /\ frames'[u] = frames[u] /\ idx'[u] = idx[u],
         \A u \in Threads : pc'[u] \in {"clear", "reserve"} =>
           pc[u] \in {"clear", "reserve"} /\ snapshot'[u] = snapshot[u],
         \A i \in DOMAIN ring' : \E j \in DOMAIN ring : ring'[i].msg = ring[j].msg
  PROVE  MetricInv'
<1>1. \A k \in Keys : EntryOf(k)'
  BY MetricEntry DEF MetricInv
<1> QED
  BY <1>1, MetricOther

(* Every step keeps entries, snapshots and records in agreement with the   *)
(* samples they stand for.                                                 *)
LEMMA MetricStep ==
  ASSUME TypeInv, RecordInv, StartInv, MetricInv, [Next]_vars
  PROVE  MetricInv'
<1>1. CASE UNCHANGED vars
  BY <1>1, MetricSame DEF vars, maps, locals, ghosts
<1>2. CASE Tick
  BY <1>2, MetricSame DEF Tick, maps, locals, ghosts
<1>3. CASE Consume
  <2>1. \A i \in DOMAIN ring' : i + 1 \in DOMAIN ring /\ ring'[i] = ring[i + 1]
    <3>1. ring \in Seq(RingRecord) /\ ring # <<>> /\ ring' = Tail(ring)
      BY <1>3 DEF Consume, TypeInv, TypeOK
    <3>2. /\ Len(ring) \in Nat /\ DOMAIN ring = 1 .. Len(ring)
          /\ ring' \in Seq(RingRecord) /\ Len(ring') = Len(ring) - 1
          /\ DOMAIN ring' = 1 .. Len(ring')
          /\ \A i \in 1 .. Len(ring') : ring'[i] = ring[i + 1]
      BY <3>1, HeadTailProperties, LenProperties
    <3> QED
      BY <3>2
  <2> QED
    BY <1>3, <2>1, MetricSame DEF Consume, locals, ghosts
<1>4. ASSUME NEW k \in Keys, LoadPrefix(k) PROVE MetricInv'
  <2>1. /\ k \notin loaded /\ loaded \subseteq loaded' /\ window' = window
        /\ stats'[k] = ZeroStats /\ \A j \in Keys : j # k => stats'[j] = stats[j]
        /\ pc' = pc /\ frames' = frames /\ idx' = idx /\ snapshot' = snapshot /\ ring' = ring
    BY <1>4 DEF LoadPrefix, locals, ghosts, TypeInv, TypeOK
  <2>2. window[k] = <<>> /\ Len(window[k]) = 0
    BY <2>1 DEF MetricInv, EntryOf
  <2>3. Agrees(ZeroStats, <<>>)
    BY AgreesEmpty DEF ZeroStats
  <2>4. ASSUME NEW j \in Keys PROVE EntryOf(j)'
    <3>1. CASE j = k
      <4>1. Agrees(stats[k], window[k])'
        BY <2>1, <2>2, <2>3 DEF Agrees, Adds
      <4> QED
        BY <2>1, <2>2, <3>1, <4>1 DEF EntryOf
    <3>2. CASE j # k
      BY <2>1, <3>2, MetricEntry DEF MetricInv
    <3> QED
      BY <3>1, <3>2
  <2> QED
    BY <2>1, <2>4, MetricOther
<1>5. ASSUME NEW t \in Threads, NEW op \in Ops, NEW path \in Paths,
             TryFslatEntry(t, op, path)
      PROVE  MetricInv'
  BY <1>5, MetricSame DEF TryFslatEntry, locals, ghosts, TypeInv, TypeOK
<1>6. ASSUME NEW t \in Threads, NEW r \in Rets,
             \/ TryFslatExitNoRecord(t, r)
             \/ TryFslatExitFailed(t, r)
             \/ TryFslatExit(t, r)
      PROVE  MetricInv'
  BY <1>6, MetricSame
  DEF TryFslatExitNoRecord, TryFslatExitFailed, TryFslatExit, Return, Goto, maps, locals,
      ghosts, TypeInv, TypeOK
<1>7. ASSUME NEW t \in Threads, Handler(t) PROVE MetricInv'
  <2>1. CASE Update(t) \/ UpdatePublish(t)
    BY <2>1, MetricSample
  <2>2. CASE TakeSnapshot(t)
    BY <2>2, MetricSnapshot
  <2>3. CASE ClearUnlock(t)
    BY <2>3, MetricClear
  <2>4. CASE RingbufReserve(t)
    BY <2>4, MetricReserve
  <2>5. CASE RingbufSubmit(t)
    <3>1. \A i \in DOMAIN ring' : i \in DOMAIN ring /\ ring'[i].msg = ring[i].msg
      <4>1. \A i \in DOMAIN ring : ring[i] \in RingRecord
        BY ElementOfSeq, LenProperties DEF TypeInv, TypeOK
      <4>2. \A i \in DOMAIN ring : [ring[i] EXCEPT !.busy = FALSE].msg = ring[i].msg
        BY <4>1 DEF RingRecord
      <4> QED
        BY <2>5, <4>2 DEF RingbufSubmit
    <3> QED
      BY <2>5, <3>1, MetricSame DEF RingbufSubmit, Goto, locals, TypeInv, TypeOK
  <2>6. CASE Scan(t) \/ Acquire(t) \/ CounterLoad(t) \/ CounterStore(t) \/ RingbufFull(t)
             \/ DropsStore(t) \/ Finish(t)
    BY <2>6, MetricSame, ZenonT(30)
    DEF Scan, Acquire, CounterLoad, CounterStore, RingbufFull, DropsStore, Finish, Continue,
        Goto, Return, maps, locals, ghosts, TypeInv, TypeOK
  <2> QED
    BY <1>7, <2>1, <2>2, <2>3, <2>4, <2>5, <2>6 DEF Handler
<1> QED
  BY <1>1, <1>2, <1>3, <1>4, <1>5, <1>6, <1>7 DEF Next

(* With an element of PTRLIST per thread, for any number of threads,       *)
(* functions and prefixes and however their steps interleave, every record *)
(* in the ring describes exactly the calls of its window: count, totals    *)
(* and max, and min when none of them took no time.                        *)
THEOREM RecordsDescribeWindows == Spec => []MetricsExact
<1> DEFINE RInv == RoomForAll => RecordInv
           MInv == RoomForAll => MetricInv
<1>1. Init => RInv /\ MInv
  BY RecordInit, MetricInit
<1>2. TypeInv /\ RInv /\ [Next]_vars => RInv'
  BY RecordStep DEF RoomForAll
<1>3. TypeInv /\ StartInv /\ RInv /\ MInv /\ [Next]_vars => MInv'
  BY MetricStep DEF RoomForAll
<1>4. MInv => MetricsExact
  BY DEF MetricInv, MetricsExact, RoomForAll, Described, Agrees
<1> HIDE DEF RInv, MInv
<1> QED
  BY <1>1, <1>2, <1>3, <1>4, InitType, TypeStep, StartInit, StartStep, PTL DEF Spec

-----------------------------------------------------------------------------
(* NothingLost.  What left an entry and was neither submitted nor thrown   *)
(* away is what the handlers hold of it.  The partial sums of a sum over   *)
(* the threads rise, as nobody holds less than nothing; that they do is    *)
(* part of the invariant, so that no induction over the threads is needed. *)
Rising(n, len, v) ==
  \E p \in [0 .. len -> Int] :
    /\ p[0] = 0 /\ p[len] = n
    /\ \A i \in 1 .. len : p[i] = p[i - 1] + v[i]
    /\ \A i, j \in 0 .. len : i <= j => p[i] <= p[j]

Holding(k, at) == [i \in 1 .. Cardinality(Threads) |-> Held(k, at[i])]

HeldInv ==
  \A at \in Orders, k \in Keys :
    Rising(handed[k] - (reported[k] + discarded[k]), Cardinality(Threads), Holding(k, at))

(* Partial sums that rise are a sum. *)
LEMMA RisingSums ==
  ASSUME NEW n, NEW len \in Nat, NEW v, Rising(n, len, v)
  PROVE  SumsTo(n, len, v)
<1>1. PICK p \in [0 .. len -> Int] :
        /\ p[0] = 0 /\ p[len] = n
        /\ \A i \in 1 .. len : p[i] = p[i - 1] + v[i]
        /\ \A i, j \in 0 .. len : i <= j => p[i] <= p[j]
  BY DEF Rising
<1>2. ASSUME NEW i \in 0 .. len PROVE p[i] \in 0 .. n
  <2>1. 0 \in 0 .. len /\ len \in 0 .. len /\ 0 <= i /\ i <= len
    OBVIOUS
  <2>2. p[0] <= p[i] /\ p[i] <= p[len] /\ p[i] \in Int /\ p[len] \in Int
    BY <1>1, <2>1
  <2> QED
    BY <1>1, <2>2
<1>3. p \in [0 .. len -> 0 .. n]
  BY <1>2
<1> QED
  BY <1>1, <1>3 DEF SumsTo

(* When one of the values changes, the sum changes by as much. *)
LEMMA RisingChange ==
  ASSUME NEW len \in Nat, NEW v, NEW v2, NEW n \in Int, NEW d \in Int, NEW pos \in 1 .. len,
         Rising(n, len, v), \A i \in 1 .. len : v[i] \in Int,
         \A i \in 1 .. len : i # pos => v2[i] = v[i],
         v2[pos] = v[pos] + d, v2[pos] >= 0
  PROVE  Rising(n + d, len, v2)
<1>1. PICK p \in [0 .. len -> Int] :
        /\ p[0] = 0 /\ p[len] = n
        /\ \A i \in 1 .. len : p[i] = p[i - 1] + v[i]
        /\ \A i, j \in 0 .. len : i <= j => p[i] <= p[j]
  BY DEF Rising
<1> DEFINE q == [i \in 0 .. len |-> IF i < pos THEN p[i] ELSE p[i] + d]
<1>2. q \in [0 .. len -> Int]
  <2>1. ASSUME NEW i \in 0 .. len PROVE (IF i < pos THEN p[i] ELSE p[i] + d) \in Int
    <3>1. p[i] \in Int
      OBVIOUS
    <3> QED
      BY <3>1
  <2> QED
    BY <2>1
<1>3. \A i \in 0 .. len : /\ p[i] \in Int
                          /\ i < pos => q[i] = p[i]
                          /\ i >= pos => q[i] = p[i] + d
  OBVIOUS
<1> HIDE DEF q
<1>4. /\ pos \in 0 .. len /\ pos - 1 \in 0 .. len /\ 0 \in 0 .. len /\ len \in 0 .. len
      /\ 0 < pos /\ len >= pos /\ pos \in Int
  OBVIOUS
<1>5. q[0] = 0 /\ q[len] = n + d
  BY <1>1, <1>3, <1>4
<1>6. p[pos] = p[pos - 1] + v[pos] /\ v[pos] \in Int
  BY <1>1
<1>7. ASSUME NEW i \in 1 .. len PROVE q[i] = q[i - 1] + v2[i]
  <2>1. i \in 0 .. len /\ i - 1 \in 0 .. len /\ p[i] = p[i - 1] + v[i] /\ v[i] \in Int
    BY <1>1
  <2>2. CASE i < pos
    <3>1. i - 1 < pos /\ i # pos
      BY <2>2
    <3> QED
      BY <1>3, <2>1, <2>2, <3>1
  <2>3. CASE i = pos
    <3>1. i - 1 < pos /\ i >= pos
      BY <2>3
    <3>2. q[i] = p[i] + d /\ q[i - 1] = p[i - 1] /\ p[i - 1] \in Int
      BY <1>3, <2>1, <3>1
    <3>3. v2[i] = v[i] + d
      BY <2>3
    <3> QED
      BY <2>1, <3>2, <3>3
  <2>4. CASE i > pos
    <3>1. i - 1 >= pos /\ i >= pos /\ i # pos
      BY <2>4
    <3>2. q[i] = p[i] + d /\ q[i - 1] = p[i - 1] + d /\ p[i - 1] \in Int /\ v2[i] = v[i]
      BY <1>3, <2>1, <3>1
    <3> QED
      BY <2>1, <3>2
  <2> QED
    BY <2>2, <2>3, <2>4
<1>8. ASSUME NEW i \in 0 .. len, NEW j \in 0 .. len, i <= j PROVE q[i] <= q[j]
  <2>1. p[i] \in Int /\ p[j] \in Int /\ p[i] <= p[j]
    BY <1>1, <1>8
  <2>2. CASE j < pos
    <3>1. i < pos
      BY <1>8, <2>2
    <3> QED
      BY <1>3, <2>1, <2>2, <3>1
  <2>3. CASE i >= pos
    <3>1. j >= pos
      BY <1>8, <2>3
    <3>2. q[i] = p[i] + d /\ q[j] = p[j] + d
      BY <1>3, <2>3, <3>1
    <3> QED
      BY <2>1, <3>2
  <2>4. CASE i < pos /\ j >= pos
    <3>1. q[i] = p[i] /\ q[j] = p[j] + d
      BY <1>3, <2>4
    <3>2. i <= pos - 1 /\ pos <= j
      BY <2>4
    <3>3. p[i] <= p[pos - 1] /\ p[pos] <= p[j] /\ p[pos - 1] \in Int /\ p[pos] \in Int
      BY <1>1, <1>4, <3>2
    <3>4. p[pos] + d >= p[pos - 1]
      BY <1>6, <3>3, SMTT(30)
    <3> QED
      BY <2>1, <3>1, <3>3, <3>4
  <2> QED
    BY <2>2, <2>3, <2>4
<1> QED
  BY <1>2, <1>5, <1>7, <1>8 DEF Rising

(* Every order has each thread in one place. *)
LEMMA OnePlace ==
  ASSUME NEW at \in Orders, NEW t \in Threads
  PROVE  \E pos \in 1 .. Cardinality(Threads) :
           /\ at[pos] = t
           /\ \A i \in 1 .. Cardinality(Threads) : at[i] \in Threads /\ (i # pos => at[i] # t)
<1> DEFINE N == Cardinality(Threads)
<1>1. N \in Nat
  BY ConstantsAssumption, FS_CardinalityType
<1>2. IsFiniteSet(1 .. N) /\ Cardinality(1 .. N) = N
  <2>1. 1 \in Int /\ N \in Int
    BY <1>1
  <2>2. /\ IsFiniteSet(1 .. N)
        /\ Cardinality(1 .. N) = IF 1 > N THEN 0 ELSE N - 1 + 1
    BY <2>1, FS_Interval
  <2> HIDE DEF N
  <2> QED
    BY <1>1, <2>2
<1>3. at \in [1 .. N -> Threads] /\ \A u \in Threads : \E i \in 1 .. N : at[i] = u
  BY DEF Orders
<1> HIDE DEF N
<1>4. at \in Surjection(1 .. N, Threads)
  BY <1>3 DEF Surjection
<1>5. at \in Injection(1 .. N, Threads)
  BY <1>2, <1>4, FS_SurjSameCardinalityImpliesInj DEF N
<1>6. \A i, j \in 1 .. N : at[i] = at[j] => i = j
  BY <1>5 DEF Injection, IsInjective
<1>7. \E pos \in 1 .. N : at[pos] = t
  BY <1>3
<1>8. \E pos \in 1 .. N : at[pos] = t /\ \A i \in 1 .. N : at[i] \in Threads /\ (i # pos => at[i] # t)
  BY <1>3, <1>6, <1>7
<1> QED
  BY <1>8 DEF N

(* There is an order, as there are finitely many threads. *)
LEMMA SomeOrder == Orders # {}
<1>1. PICK n \in Nat : ExistsBijection(1 .. n, Threads)
  BY ConstantsAssumption, FS_NatBijection
<1>2. Cardinality(Threads) = n
  BY <1>1, FS_CountingElements
<1>3. PICK f : f \in Bijection(1 .. n, Threads)
  BY <1>1 DEF ExistsBijection
<1>4. f \in [1 .. n -> Threads] /\ \A t \in Threads : \E i \in 1 .. n : f[i] = t
  BY <1>3 DEF Bijection, Surjection
<1>5. f \in Orders
  BY <1>2, <1>4 DEF Orders
<1> QED
  BY <1>5

(* What a handler holds is a number. *)
LEMMA HeldType ==
  ASSUME TypeInv, NEW t \in Threads, NEW k
  PROVE  Held(k, t) \in Nat
<1>1. snapshot[t].count \in Nat
  BY MessageFields DEF TypeInv, TypeOK
<1> QED
  BY <1>1 DEF Held

(* Steps in which no samples change hands. *)
LEMMA HeldSame ==
  ASSUME HeldInv, handed' = handed, reported' = reported, discarded' = discarded,
         \A u \in Threads :
           LET holds == {"reserve", "submit"}
           IN  /\ pc'[u] \in holds <=> pc[u] \in holds
               /\ pc[u] \in holds => /\ frames'[u] = frames[u] /\ idx'[u] = idx[u]
                                     /\ snapshot'[u] = snapshot[u]
  PROVE  HeldInv'
<1>1. ASSUME NEW u \in Threads, NEW k PROVE Held(k, u)' = Held(k, u)
  BY SameKey DEF Held
<1>2. ASSUME NEW at \in Orders, NEW k \in Keys PROVE Holding(k, at)' = Holding(k, at)
  <2>1. \A i \in 1 .. Cardinality(Threads) : at[i] \in Threads
    BY DEF Orders
  <2> QED
    BY <1>1, <2>1 DEF Holding
<1> QED
  BY <1>2 DEF HeldInv, Rising

(* A step in which handler t takes, or gives away, samples of its entry.   *)
LEMMA HeldMove ==
  ASSUME TypeInv, HeldInv, NEW t \in Threads, NEW kt \in Keys, NEW d \in Int,
         Held(kt, t)' = Held(kt, t) + d, Held(kt, t)' >= 0,
         \A k \in Keys : k # kt => Held(k, t)' = Held(k, t),
         \A u \in Threads : u # t => \A k \in Keys : Held(k, u)' = Held(k, u),
         handed'[kt] - (reported'[kt] + discarded'[kt])
           = handed[kt] - (reported[kt] + discarded[kt]) + d,
         \A k \in Keys : k # kt =>
           handed'[k] = handed[k] /\ reported'[k] = reported[k] /\ discarded'[k] = discarded[k]
  PROVE  HeldInv'
<1> DEFINE N == Cardinality(Threads)
<1> SUFFICES ASSUME NEW at \in Orders, NEW k \in Keys
             PROVE  Rising(handed'[k] - (reported'[k] + discarded'[k]), N, Holding(k, at)')
  BY DEF HeldInv, Rising
<1>1. N \in Nat
  BY ConstantsAssumption, FS_CardinalityType
<1>2. PICK pos \in 1 .. N :
        /\ at[pos] = t
        /\ \A i \in 1 .. N : at[i] \in Threads /\ (i # pos => at[i] # t)
  BY OnePlace
<1>3. Rising(handed[k] - (reported[k] + discarded[k]), N, Holding(k, at))
  BY DEF HeldInv
<1>4. /\ \A i \in 1 .. N : Holding(k, at)[i] = Held(k, at[i])
      /\ \A i \in 1 .. N : Holding(k, at)'[i] = Held(k, at[i])'
  BY DEF Holding
<1>5. CASE k = kt
  <2>1. \A i \in 1 .. N : Holding(k, at)[i] \in Int
    BY <1>2, <1>4, HeldType
  <2>2. \A i \in 1 .. N : i # pos => Holding(k, at)'[i] = Holding(k, at)[i]
    BY <1>2, <1>4
  <2>3. Holding(k, at)'[pos] = Holding(k, at)[pos] + d
    BY <1>2, <1>4, <1>5
  <2>4. Holding(k, at)'[pos] >= 0
    BY <1>2, <1>4, <1>5
  <2>5. PICK n \in Int : n = handed[k] - (reported[k] + discarded[k])
    <3>1. handed[k] \in Nat /\ reported[k] \in Nat /\ discarded[k] \in Nat
      BY DEF TypeInv, TypeOK
    <3> QED
      BY <3>1
  <2> HIDE DEF N
  <2>6. Rising(n + d, N, Holding(k, at)')
    BY <1>1, <1>3, <2>1, <2>2, <2>3, <2>4, <2>5, RisingChange
  <2> QED
    BY <1>5, <2>5, <2>6
<1>6. CASE k # kt
  <2>1. \A i \in 1 .. N : Held(k, at[i])' = Held(k, at[i])
    BY <1>2, <1>6
  <2>2. Holding(k, at)' = Holding(k, at)
    BY <2>1 DEF Holding
  <2> QED
    BY <1>3, <1>6, <2>2
<1> QED
  BY <1>5, <1>6

(* Every sample that a handler takes out of an entry it holds until the    *)
(* record is submitted or thrown away.                                     *)
LEMMA HeldStep == TypeInv /\ HeldInv /\ [Next]_vars => HeldInv'
<1> SUFFICES ASSUME TypeInv, HeldInv, [Next]_vars PROVE HeldInv'
  OBVIOUS
<1>1. CASE UNCHANGED vars
  BY <1>1, HeldSame DEF vars, locals, ghosts
<1>2. CASE Tick \/ Consume \/ \E k \in Keys : LoadPrefix(k)
  BY <1>2, HeldSame DEF Tick, Consume, LoadPrefix, locals, ghosts
<1>3. ASSUME NEW t \in Threads, NEW op \in Ops, NEW path \in Paths,
             TryFslatEntry(t, op, path)
      PROVE  HeldInv'
  BY <1>3, HeldSame DEF TryFslatEntry, locals, ghosts, TypeInv, TypeOK
<1>4. ASSUME NEW t \in Threads, NEW r \in Rets,
             \/ TryFslatExitNoRecord(t, r)
             \/ TryFslatExitFailed(t, r)
             \/ TryFslatExit(t, r)
      PROVE  HeldInv'
  BY <1>4, HeldSame
  DEF TryFslatExitNoRecord, TryFslatExitFailed, TryFslatExit, Return, Goto, locals,
      ghosts, TypeInv, TypeOK
<1>5. ASSUME NEW t \in Threads, Handler(t) PROVE HeldInv'
  <2>1. CASE Scan(t) \/ Acquire(t) \/ Update(t) \/ UpdatePublish(t) \/ TakeSnapshot(t)
             \/ RingbufReserve(t) \/ CounterLoad(t) \/ CounterStore(t) \/ DropsStore(t)
             \/ Finish(t)
    BY <2>1, HeldSame
    DEF Scan, Acquire, Update, UpdatePublish, TakeSnapshot, RingbufReserve, CounterLoad,
        CounterStore, DropsStore, Finish, AddSample, Continue, Goto, Return, locals, ghosts,
        TypeInv, TypeOK
  <2>2. ASSUME NEW u \in Threads, u # t, NEW k \in Keys PROVE Held(k, u)' = Held(k, u)
    <3>1. pc'[u] = pc[u] /\ Key(u)' = Key(u) /\ snapshot'[u] = snapshot[u]
      BY <1>5, <2>2, OthersFrame, SameKey
    <3> QED
      BY <3>1 DEF Held
  <2>3. snapshot[t].count \in Nat
    BY MessageFields DEF TypeInv, TypeOK
  <2>4. CASE ClearUnlock(t)
    <3>1. /\ pc[t] = "clear" /\ pc'[t] = "reserve" /\ Key(t)' = Key(t)
          /\ reported' = reported /\ discarded' = discarded
      BY <2>4, SameKey DEF ClearUnlock, Goto, TypeInv, TypeOK
    <3>2. Key(t) \in Keys
      BY <3>1, KeyType DEF Matched, Critical
    <3>3. snapshot'[t].count = snapshot[t].count
      BY <2>4, ClearKeepsCopy
    <3>4. /\ handed'[Key(t)] = handed[Key(t)] + snapshot[t].count
          /\ \A k \in Keys : k # Key(t) => handed'[k] = handed[k]
      BY <2>4, <3>2 DEF ClearUnlock, TypeInv, TypeOK
    <3>5. PICK kt \in Keys : kt = Key(t)
      BY <3>2
    <3>6. /\ Held(kt, t) = 0 /\ Held(kt, t)' = snapshot[t].count
          /\ \A k \in Keys : k # kt => Held(k, t)' = Held(k, t)
      BY <3>1, <3>3, <3>5 DEF Held
    <3>7. handed[kt] \in Int /\ reported[kt] \in Int /\ discarded[kt] \in Int
      BY DEF TypeInv, TypeOK
    <3>8. PICK d \in Int : d = snapshot[t].count
      BY <2>3
    <3>9. /\ Held(kt, t)' = Held(kt, t) + d /\ Held(kt, t)' >= 0
          /\ handed'[kt] - (reported'[kt] + discarded'[kt])
               = handed[kt] - (reported[kt] + discarded[kt]) + d
      BY <2>3, <3>1, <3>4, <3>5, <3>6, <3>7, <3>8
    <3> QED
      BY <2>2, <3>1, <3>4, <3>5, <3>6, <3>9, HeldMove
  <2>5. CASE RingbufSubmit(t) \/ RingbufFull(t)
    <3>1. /\ pc[t] \in {"reserve", "submit"} /\ pc'[t] \notin {"reserve", "submit"}
          /\ handed' = handed /\ pc[t] \in Matched
      BY <2>5 DEF RingbufSubmit, RingbufFull, Goto, Matched, TypeInv, TypeOK
    <3>2. Key(t) \in Keys
      BY <3>1, KeyType
    <3>3. /\ reported'[Key(t)] + discarded'[Key(t)]
               = reported[Key(t)] + discarded[Key(t)] + snapshot[t].count
          /\ \A k \in Keys : k # Key(t) =>
               reported'[k] = reported[k] /\ discarded'[k] = discarded[k]
      <4>0. reported[Key(t)] \in Int /\ discarded[Key(t)] \in Int
        BY <3>2 DEF TypeInv, TypeOK
      <4>1. CASE RingbufSubmit(t)
        <5>1. /\ reported'[Key(t)] = reported[Key(t)] + snapshot[t].count
              /\ \A k \in Keys : k # Key(t) => reported'[k] = reported[k]
              /\ discarded' = discarded
          BY <3>2, <4>1 DEF RingbufSubmit, TypeInv, TypeOK
        <5> QED
          BY <2>3, <4>0, <5>1
      <4>2. CASE RingbufFull(t)
        <5>1. /\ discarded'[Key(t)] = discarded[Key(t)] + snapshot[t].count
              /\ \A k \in Keys : k # Key(t) => discarded'[k] = discarded[k]
              /\ reported' = reported
          BY <3>2, <4>2 DEF RingbufFull, TypeInv, TypeOK
        <5> QED
          BY <2>3, <4>0, <5>1
      <4> QED
        BY <2>5, <4>1, <4>2
    <3>4. PICK kt \in Keys : kt = Key(t)
      BY <3>2
    <3>5. /\ Held(kt, t) = snapshot[t].count /\ Held(kt, t)' = 0
          /\ \A k \in Keys : k # kt => Held(k, t)' = Held(k, t)
      BY <3>1, <3>4 DEF Held
    <3>6. handed[kt] \in Int /\ reported[kt] \in Int /\ discarded[kt] \in Int
      BY DEF TypeInv, TypeOK
    <3>7. PICK d \in Int : d = 0 - snapshot[t].count
      BY <2>3
    <3>8. /\ Held(kt, t)' = Held(kt, t) + d /\ Held(kt, t)' >= 0
          /\ handed'[kt] - (reported'[kt] + discarded'[kt])
               = handed[kt] - (reported[kt] + discarded[kt]) + d
      BY <2>3, <3>1, <3>3, <3>4, <3>5, <3>6, <3>7
    <3> QED
      BY <2>2, <3>1, <3>3, <3>4, <3>5, <3>8, HeldMove
  <2> QED
    BY <1>5, <2>1, <2>4, <2>5 DEF Handler
<1> QED
  BY <1>1, <1>2, <1>3, <1>4, <1>5 DEF Next

(* At first nobody holds anything. *)
LEMMA HeldInit == Init => HeldInv
<1> SUFFICES ASSUME Init, NEW at \in Orders, NEW k \in Keys
             PROVE  Rising(handed[k] - (reported[k] + discarded[k]), Cardinality(Threads),
                           Holding(k, at))
  BY DEF HeldInv
<1>1. PICK N \in Nat : N = Cardinality(Threads)
  BY ConstantsAssumption, FS_CardinalityType
<1>2. handed[k] - (reported[k] + discarded[k]) = 0
  BY DEF Init
<1>3. \A i \in 1 .. N : Holding(k, at)[i] = 0
  <2>1. \A i \in 1 .. N : at[i] \in Threads
    BY <1>1 DEF Orders
  <2>2. \A t \in Threads : Held(k, t) = 0
    BY DEF Init, Held
  <2> QED
    BY <1>1, <2>1, <2>2 DEF Holding
<1>4. PICK p \in [0 .. N -> Int] : \A i \in 0 .. N : p[i] = 0
  <2>1. /\ [i \in 0 .. N |-> 0] \in [0 .. N -> Int]
        /\ \A i \in 0 .. N : [j \in 0 .. N |-> 0][i] = 0
    OBVIOUS
  <2> QED
    BY <2>1
<1>5. /\ p[0] = 0 /\ p[N] = 0
      /\ \A i, j \in 0 .. N : i <= j => p[i] <= p[j]
  BY <1>4
<1>6. \A i \in 1 .. N : p[i] = p[i - 1] + Holding(k, at)[i]
  <2> SUFFICES ASSUME NEW i \in 1 .. N PROVE p[i] = p[i - 1] + Holding(k, at)[i]
    OBVIOUS
  <2>1. i \in 0 .. N /\ i - 1 \in 0 .. N
    OBVIOUS
  <2> QED
    BY <1>3, <1>4, <2>1
<1> QED
  BY <1>1, <1>2, <1>4, <1>5, <1>6 DEF Rising

(* For any number of threads, functions and prefixes: until the count of   *)
(* an entry wraps, each of its samples is in the entry, in the hands of    *)
(* one handler, in a submitted record or among those that a full ring      *)
(* threw away, and in one of them only.                                    *)
THEOREM NoSampleLost == Spec => []NothingLost
<1>1. ASSUME TypeInv, DataInv, HeldInv PROVE NothingLost
  <2> SUFFICES ASSUME NEW k \in Keys, sampled[k] < U64
               PROVE  \E at \in Orders :
                        SumsTo(sampled[k] - (stats[k].count + reported[k] + discarded[k]),
                               Cardinality(Threads), [i \in DOMAIN at |-> Held(k, at[i])])
    BY DEF NothingLost
  <2>1. PICK at \in Orders : TRUE
    BY SomeOrder
  <2>2. Cardinality(Threads) \in Nat
    BY ConstantsAssumption, FS_CardinalityType
  <2>3. SumsTo(handed[k] - (reported[k] + discarded[k]), Cardinality(Threads), Holding(k, at))
    BY <1>1, <2>2, RisingSums DEF HeldInv
  <2>4. DOMAIN at = 1 .. Cardinality(Threads)
    BY DEF Orders
  <2>5. Holding(k, at) = [i \in DOMAIN at |-> Held(k, at[i])]
    BY <2>4 DEF Holding
  <2>6. sampled[k] = stats[k].count + handed[k]
    BY <1>1 DEF DataInv, Conservation
  <2>7. /\ stats[k].count \in u64 /\ handed[k] \in Int /\ reported[k] \in Int
        /\ discarded[k] \in Int
    BY <1>1 DEF TypeInv, TypeOK, Stats
  <2>8. sampled[k] - (stats[k].count + reported[k] + discarded[k])
          = handed[k] - (reported[k] + discarded[k])
    BY <2>6, <2>7 DEF u64
  <2> QED
    BY <2>3, <2>5, <2>8
<1>2. TypeInv /\ DataInv /\ HeldInv => NothingLost
  BY <1>1
<1> QED
  BY <1>2, InitType, TypeStep, DataInit, DataStep, HeldInit, HeldStep, PTL DEF Spec
=============================================================================
