------------------------------ MODULE FsLatency ------------------------------
(***************************************************************************)
(* The in-kernel half of the vfslatency producer: the fentry/fexit probe   *)
(* pair of every traced VFS function (vfslatency-ebpf/src/main.rs), the    *)
(* handlers try_fslat_entry and try_fslat_exit with their helpers          *)
(* (vfslatency-common/src/lib.rs) and the BPF maps they share              *)
(* (vfslatency-common/src/maps.rs).                                        *)
(*                                                                         *)
(* Threads run on several CPUs, so the steps of their handlers interleave. *)
(* An action is a maximal run of handler code that touches shared state    *)
(* once; the program counter pc[t] names the code the thread is about to   *)
(* run.  What bpf_spin_lock protects is still split into steps, so that    *)
(* the lock, not the model, is what keeps other threads out.               *)
(*                                                                         *)
(* Left to other modules: how a path is resolved (partial_d_path), the     *)
(* PROF_*_HIST histograms and their reset, and the CBOR bytes of a record. *)
(***************************************************************************)
EXTENDS Integers, Sequences, FiniteSets

CONSTANTS
  Threads,        \* the (pid, tgid) keys: one per kernel task
  NoThread,       \* marks a free lock or a free PTRLIST element
  Ops,            \* the traced kernel functions, each with its own stats map
  Paths,          \* resolved path fragments, PathFragLen characters each
  Rets,           \* return values of the traced functions
  Prefix,         \* Prefix[i]: what the loader writes to entry i
  PathFragLen,    \* PATHFRAGLEN
  NumPathPrefix,  \* NUM_PATH_PREFIX
  AggInterval,    \* AGG_INTERVAL
  MaxEntries,     \* capacity of PTRLIST
  RingCap,        \* records of BUFSIZE bytes the shared ring can hold
  U64,            \* 2^64: arithmetic on u64 wraps modulo U64
  MaxClock,       \* bound on the clock
  MaxCalls,       \* bound on the number of traced calls
  Nests           \* <<f, g>>: traced function f may call traced function g

Idx  == 0 .. (NumPathPrefix - 1)
Keys == Ops \X Idx          \* one FsLatencyStats entry per function and prefix
Elem == 1 .. MaxEntries     \* preallocated elements of the LRU hash map

ASSUME ConstantsAssumption ==
  /\ IsFiniteSet(Threads)
  /\ NoThread \notin Threads
  /\ PathFragLen \in Nat \ {0}
  /\ NumPathPrefix \in Nat \ {0}
  /\ AggInterval \in Nat
  /\ MaxEntries \in Nat \ {0}
  /\ RingCap \in Nat
  /\ U64 \in Nat \ {0, 1}
  /\ MaxClock \in 0 .. (U64 - 1)
  /\ MaxCalls \in Nat
  /\ Nests \subseteq Ops \X Ops
  /\ Rets \subseteq {r \in Int : r < U64}
  /\ Paths \subseteq [1 .. PathFragLen -> STRING]
  /\ Prefix \in [Idx -> [pathlen : Nat, path_prefix : Seq(STRING)]]

VARIABLES
  clock,      \* bpf_ktime_get_ns()
  loaded,     \* the stats entries the prefix loader has written
  stats,      \* *_STATS: the FsLatencyStats entries
  lock,       \* the bpf_spin_lock of each entry: its holder
  COUNTER,    \* the sequence counter
  DROPS,      \* PROF_RINGBUF_DROPS
  PTRLIST,    \* the LRU hash map of entry records
  ring,       \* LDMS_SHARED_STREAM: reserved and submitted records, oldest first
  frames,     \* frames[t]: the traced calls thread t is in, innermost last
  pc,         \* pc[t]: where thread t is in try_fslat_exit
  now,        \* local now
  ret,        \* local ret
  idx,        \* local idx of the loop over the prefixes
  ptr,        \* local entryrec: a pointer to an element of PTRLIST
  snapshot,   \* local snapshot and the fields of eventf
  tmp,        \* the register of a load-add-store on a shared counter
  \* History, read by no guard.
  calls,      \* traced calls so far
  window,     \* window[k]: the samples added to entry k since it was cleared
  sampled,    \* sampled[k]: how many samples were added to entry k
  handed,     \* handed[k]: how many of them left entry k in a snapshot
  reported,   \* reported[k]: how many of them were submitted to the ring
  discarded,  \* discarded[k]: how many of them a full ring threw away
  incs,       \* completed increments of COUNTER
  failed,     \* failed calls of ringbuf_put
  missed,     \* <<op, path>> of the successful calls on a configured path whose
              \* exit found no record
  due,        \* due[t]: the prefixes configured for the call when its exit began
  hit         \* hit[t]: the prefixes that have the sample of the call

maps   == <<stats, lock, COUNTER, DROPS, PTRLIST, ring>>
locals == <<now, ret, idx, ptr, snapshot, tmp>>
ghosts == <<window, sampled, handed, reported, discarded, incs, failed, missed, due,
            hit>>
vars   == <<clock, loaded, maps, frames, pc, locals, calls, ghosts>>

-----------------------------------------------------------------------------
(* u64 arithmetic of the release build: it wraps modulo U64.               *)
Add64(a, b) == IF a + b < U64 THEN a + b ELSE a + b - U64
Sub64(a, b) == IF b <= a THEN a - b ELSE a - b + U64
MAX64 == U64 - 1

(* The value bpftool writes behind the prefix, and the value of an entry   *)
(* that was never written: all zero.                                       *)
ZeroStats == [min |-> 0, max |-> 0, total_lat |-> 0, total_bytes |-> 0,
              count |-> 0, lastpublish |-> 0]

ZeroPath == [i \in 1 .. PathFragLen |-> ""]   \* "" is the NUL character
FreeElem == [key |-> NoThread, timestamp |-> 0, path |-> ZeroPath]

NoSnapshot == [op |-> "", idx |-> 0, min |-> 0, max |-> 0, total_lat |-> 0,
               total_bytes |-> 0, count |-> 0, monotonic |-> 0, seq |-> 0,
               samples |-> <<>>]

(* The key of a thread's record in PTRLIST: (pid, tgid).                   *)
PidTgidMutant(t) == CHOOSE u \in Threads : TRUE   \* mutant: one key per process
PidTgid(t) == t

Top(t) == frames[t][Len(frames[t])]
Key(t) == <<Top(t).op, idx[t]>>

(* The first len bytes of haystack are those of needle.  A length of 0 is  *)
(* an entry nobody wrote, a length over PathFragLen cannot match.          *)
starts_with(needle, haystack, len) ==
  /\ len # 0
  /\ len <= PathFragLen
  /\ \A i \in 1 .. len : haystack[i] = needle[i]

PathLen(k) == IF k \in loaded THEN Prefix[k[2]].pathlen ELSE 0

Configured(op, path) ==
  {i \in Idx : starts_with(Prefix[i].path_prefix, path, PathLen(<<op, i>>))}

update_stats_locked(s, latency, bytes) ==
  [s EXCEPT !.min = IF latency < @ \/ @ = 0 THEN latency ELSE @,
            !.max = IF latency > @ \/ @ = 0 THEN latency ELSE @,
            !.count = Add64(@, 1),
            !.total_lat = Add64(@, latency),
            !.total_bytes = Add64(@, bytes)]

clear_stats_lockedMutant(s, t) ==   \* mutant: count is not reset
  [s EXCEPT !.lastpublish = t, !.min = MAX64, !.max = 0,
            !.total_lat = 0, !.total_bytes = 0]

clear_stats_lockedMutant2(s, t) ==  \* mutant: max is not reset
  [s EXCEPT !.lastpublish = t, !.min = MAX64,
            !.total_lat = 0, !.total_bytes = 0, !.count = 0]

clear_stats_locked(s, t) ==
  [s EXCEPT !.lastpublish = t, !.min = MAX64, !.max = 0,
            !.total_lat = 0, !.total_bytes = 0, !.count = 0]

(* BPF_MAP_TYPE_LRU_HASH: a key has one element; a new key takes a free    *)
(* element and, when there is none, that of a victim whose record is lost  *)
(* although the victim's handler may still hold a pointer to it.  A        *)
(* deleted element keeps its bytes until it is used again.  (A simplified  *)
(* LRU: the kernel takes the element of an update before it looks for an   *)
(* old one of the same key, and keeps free elements per CPU, so near its   *)
(* limit it evicts a little earlier than this.)                            *)
ElemsOf(key) == {e \in Elem : PTRLIST[e].key = key}

Insertable(key) ==
  IF ElemsOf(key) # {} THEN ElemsOf(key)
  ELSE IF ElemsOf(NoThread) # {} THEN {CHOOSE e \in ElemsOf(NoThread) : TRUE}
  ELSE Elem

RemoveKey(key) ==
  [e \in Elem |-> IF PTRLIST[e].key = key THEN [PTRLIST[e] EXCEPT !.key = NoThread]
                                          ELSE PTRLIST[e]]

-----------------------------------------------------------------------------
Init ==
  /\ clock = 0
  /\ loaded = {}
  /\ stats = [k \in Keys |-> ZeroStats]
  /\ lock = [k \in Keys |-> NoThread]
  /\ COUNTER = 0
  /\ DROPS = 0
  /\ PTRLIST = [e \in Elem |-> FreeElem]
  /\ ring = <<>>
  /\ frames = [t \in Threads |-> <<>>]
  /\ pc = [t \in Threads |-> "kernel"]
  /\ now = [t \in Threads |-> 0]
  /\ ret = [t \in Threads |-> 0]
  /\ idx = [t \in Threads |-> 0]
  /\ ptr = [t \in Threads |-> 1]
  /\ snapshot = [t \in Threads |-> NoSnapshot]
  /\ tmp = [t \in Threads |-> 0]
  /\ calls = 0
  /\ window = [k \in Keys |-> <<>>]
  /\ sampled = [k \in Keys |-> 0]
  /\ handed = [k \in Keys |-> 0]
  /\ reported = [k \in Keys |-> 0]
  /\ discarded = [k \in Keys |-> 0]
  /\ incs = 0
  /\ failed = 0
  /\ missed = {}
  /\ due = [t \in Threads |-> {}]
  /\ hit = [t \in Threads |-> {}]

Goto(t, label) == pc' = [pc EXCEPT ![t] = label]

(* Time passes.                                                            *)
Tick ==
  /\ clock < MaxClock
  /\ clock' = clock + 1
  /\ UNCHANGED <<loaded, maps, frames, pc, locals, calls, ghosts>>

(* vfslatency_load_prefixes.sh, one `bpftool map update`, which runs after *)
(* the probes are attached: the whole value is replaced, not the lock.     *)
(* (The kernel copies it without the lock, word by word, and an operator   *)
(* may run the script again; here each entry is written once, at once.)    *)
LoadPrefix(k) ==
  /\ k \notin loaded
  /\ loaded' = loaded \union {k}
  /\ stats' = [stats EXCEPT ![k] = ZeroStats]
  /\ UNCHANGED <<clock, lock, COUNTER, DROPS, PTRLIST, ring, frames, pc, locals,
                 calls, ghosts>>

(* A thread calls a traced function, possibly from inside another one, and *)
(* the fentry probe inserts the record of the thread.                      *)
TryFslatEntry(t, op, path) ==
  /\ pc[t] = "kernel"
  /\ calls < MaxCalls
  /\ frames[t] # <<>> => <<Top(t).op, op>> \in Nests
  /\ calls' = calls + 1
  /\ frames' = [frames EXCEPT ![t] = Append(@, [op |-> op, path |-> path, start |-> clock])]
  /\ \E e \in Insertable(PidTgid(t)) :
       PTRLIST' = [PTRLIST EXCEPT ![e] =
                      [key |-> PidTgid(t), timestamp |-> clock, path |-> path]]
  /\ UNCHANGED <<clock, loaded, stats, lock, COUNTER, DROPS, ring, pc, locals, ghosts>>

Return(t) == frames' = [frames EXCEPT ![t] = SubSeq(@, 1, Len(@) - 1)]

(* The innermost traced call of the thread returns r and the fexit probe   *)
(* starts.  Without a record it does nothing; a failed call only gives up  *)
(* its record; otherwise the handler reads the clock and enters the loop.  *)
TryFslatExitNoRecord(t, r) ==
  /\ pc[t] = "kernel"
  /\ frames[t] # <<>>
  /\ ElemsOf(PidTgid(t)) = {}
  /\ Return(t)
  /\ missed' = IF r >= 0 /\ Configured(Top(t).op, Top(t).path) # {}
                  THEN missed \union {<<Top(t).op, Top(t).path>>}
                  ELSE missed
  /\ UNCHANGED <<clock, loaded, maps, pc, locals, calls, window, sampled, handed, reported,
                 discarded, incs, failed, due, hit>>

TryFslatExitFailed(t, r) ==
  /\ pc[t] = "kernel"
  /\ frames[t] # <<>>
  /\ ElemsOf(PidTgid(t)) # {}
  /\ r < 0
  /\ PTRLIST' = RemoveKey(PidTgid(t))
  /\ Return(t)
  /\ UNCHANGED <<clock, loaded, stats, lock, COUNTER, DROPS, ring, pc, locals, calls,
                 ghosts>>

TryFslatExit(t, r) ==
  /\ pc[t] = "kernel"
  /\ frames[t] # <<>>
  /\ ElemsOf(PidTgid(t)) # {}
  /\ r >= 0
  /\ ptr' = [ptr EXCEPT ![t] = CHOOSE e \in ElemsOf(PidTgid(t)) : TRUE]
  /\ ret' = [ret EXCEPT ![t] = r]
  /\ now' = [now EXCEPT ![t] = clock]
  /\ idx' = [idx EXCEPT ![t] = 0]
  /\ hit' = [hit EXCEPT ![t] = {}]
  /\ due' = [due EXCEPT ![t] = Configured(Top(t).op, Top(t).path)]
  /\ Goto(t, "scan")
  /\ UNCHANGED <<clock, loaded, maps, frames, snapshot, tmp, calls, window, sampled,
                 handed, reported, discarded, incs, failed, missed>>

(* One round of the loop up to the lock: the prefix test and, for a match, *)
(* the test of the aggregation window, which reads lastpublish unlocked.   *)
Matches(t) ==
  starts_with(Prefix[idx[t]].path_prefix, PTRLIST[ptr[t]].path, PathLen(Key(t)))

WindowOver(t) == Sub64(now[t], stats[Key(t)].lastpublish) > AggInterval

(* The next round of the loop.                                             *)
ContinueMutant(t) ==   \* mutant: a prefix is skipped
  /\ idx' = [idx EXCEPT ![t] = @ + 2]
  /\ Goto(t, "scan")

Continue(t) ==
  /\ idx' = [idx EXCEPT ![t] = @ + 1]
  /\ Goto(t, "scan")

ScanMutant(t) ==   \* mutant: the range is inclusive, and a missing entry is passed over
  /\ pc[t] = "scan"
  /\ \/ /\ idx[t] > NumPathPrefix
        /\ Goto(t, "finish")
        /\ UNCHANGED idx
     \/ /\ idx[t] <= NumPathPrefix
        /\ idx[t] \in Idx => ~ Matches(t)
        /\ Continue(t)
     \/ /\ idx[t] \in Idx
        /\ Matches(t)
        /\ Goto(t, IF WindowOver(t) THEN "lock_publish" ELSE "lock_update")
        /\ UNCHANGED idx
  /\ UNCHANGED <<clock, loaded, maps, frames, now, ret, ptr, snapshot, tmp, calls, ghosts>>

Scan(t) ==
  /\ pc[t] = "scan"
  /\ \/ /\ idx[t] \notin Idx
        /\ Goto(t, "finish")
        /\ UNCHANGED idx
     \/ /\ idx[t] \in Idx
        /\ ~ Matches(t)
        /\ Continue(t)
     \/ /\ idx[t] \in Idx
        /\ Matches(t)
        /\ Goto(t, IF WindowOver(t) THEN "lock_publish" ELSE "lock_update")
        /\ UNCHANGED idx
  /\ UNCHANGED <<clock, loaded, maps, frames, now, ret, ptr, snapshot, tmp, calls, ghosts>>

AcquireMutant(t) ==   \* mutant: the lock is not waited for
  /\ pc[t] \in {"lock_publish", "lock_update"}
  /\ lock' = [lock EXCEPT ![Key(t)] = t]
  /\ Goto(t, IF pc[t] = "lock_publish" THEN "update_publish" ELSE "update")
  /\ UNCHANGED <<clock, loaded, stats, COUNTER, DROPS, PTRLIST, ring, frames, locals,
                 calls, ghosts>>

Acquire(t) ==
  /\ pc[t] \in {"lock_publish", "lock_update"}
  /\ lock[Key(t)] = NoThread
  /\ lock' = [lock EXCEPT ![Key(t)] = t]
  /\ Goto(t, IF pc[t] = "lock_publish" THEN "update_publish" ELSE "update")
  /\ UNCHANGED <<clock, loaded, stats, COUNTER, DROPS, PTRLIST, ring, frames, locals,
                 calls, ghosts>>

AddSample(t) ==
  /\ stats' = [stats EXCEPT ![Key(t)] =
                 update_stats_locked(@, Sub64(now[t], PTRLIST[ptr[t]].timestamp), ret[t])]
  /\ window' = [window EXCEPT ![Key(t)] =
                 Append(@, [latency |-> now[t] - Top(t).start, bytes |-> ret[t]])]
  /\ sampled' = [sampled EXCEPT ![Key(t)] = @ + 1]
  /\ hit' = [hit EXCEPT ![t] = @ \union {idx[t]}]
  /\ UNCHANGED due

Unlock(t) == lock' = [lock EXCEPT ![Key(t)] = NoThread]

(* Inside the window: add the sample and unlock.                           *)
UpdateMutant(t) ==   \* mutant: bpf_spin_unlock is forgotten
  /\ pc[t] = "update"
  /\ AddSample(t)
  /\ Continue(t)
  /\ UNCHANGED <<clock, loaded, lock, COUNTER, DROPS, PTRLIST, ring, frames, now, ret,
                 ptr, snapshot, tmp, calls, handed, reported, discarded, incs, failed,
                 missed>>

Update(t) ==
  /\ pc[t] = "update"
  /\ AddSample(t)
  /\ Unlock(t)
  /\ Continue(t)
  /\ UNCHANGED <<clock, loaded, COUNTER, DROPS, PTRLIST, ring, frames, now, ret, ptr,
                 snapshot, tmp, calls, handed, reported, discarded, incs, failed, missed>>

(* The window is over: add the sample, copy the entry, clear it, unlock.   *)
UpdatePublishMutant(t) ==   \* mutant: published without the sample of the call
  /\ pc[t] = "update_publish"
  /\ Goto(t, "snapshot")
  /\ UNCHANGED <<clock, loaded, maps, frames, locals, calls, ghosts>>

UpdatePublish(t) ==
  /\ pc[t] = "update_publish"
  /\ AddSample(t)
  /\ Goto(t, "snapshot")
  /\ UNCHANGED <<clock, loaded, lock, COUNTER, DROPS, PTRLIST, ring, frames, locals,
                 calls, handed, reported, discarded, incs, failed, missed>>

TakeSnapshot(t) ==
  /\ pc[t] = "snapshot"
  /\ snapshot' = [snapshot EXCEPT ![t] =
       LET s == stats[Key(t)]
       IN  [op |-> Top(t).op, idx |-> idx[t], min |-> s.min, max |-> s.max,
            total_lat |-> s.total_lat, total_bytes |-> s.total_bytes,
            count |-> s.count, monotonic |-> now[t], seq |-> 0,
            samples |-> window[Key(t)]]]
  /\ Goto(t, "clear")
  /\ UNCHANGED <<clock, loaded, maps, frames, now, ret, idx, ptr, tmp, calls, ghosts>>

ClearUnlock(t) ==
  /\ pc[t] = "clear"
  /\ stats' = [stats EXCEPT ![Key(t)] = clear_stats_locked(@, now[t])]
  /\ window' = [window EXCEPT ![Key(t)] = <<>>]
  /\ handed' = [handed EXCEPT ![Key(t)] = @ + snapshot[t].count]
  /\ snapshot' = [snapshot EXCEPT ![t].seq = COUNTER]
  /\ Unlock(t)
  /\ Goto(t, "reserve")
  /\ UNCHANGED <<clock, loaded, COUNTER, DROPS, PTRLIST, ring, frames, now, ret, idx,
                 ptr, tmp, calls, sampled, reported, discarded, incs, failed, missed, due, hit>>

(* ringbuf_put: reserve a record of the shared ring, encode the snapshot   *)
(* into it and submit it.  A record that is reserved and not yet submitted *)
(* keeps its place in the ring.                                            *)
RingbufReserve(t) ==
  /\ pc[t] = "reserve"
  /\ Len(ring) < RingCap
  /\ ring' = Append(ring, [msg |-> snapshot[t], busy |-> TRUE, by |-> t])
  /\ Goto(t, "submit")
  /\ UNCHANGED <<clock, loaded, stats, lock, COUNTER, DROPS, PTRLIST, frames, locals,
                 calls, ghosts>>

RingbufSubmit(t) ==
  /\ pc[t] = "submit"
  /\ ring' = [i \in DOMAIN ring |->
                IF ring[i].by = t THEN [ring[i] EXCEPT !.busy = FALSE] ELSE ring[i]]
  /\ reported' = [reported EXCEPT ![Key(t)] = @ + snapshot[t].count]
  /\ Goto(t, "counter_load")
  /\ UNCHANGED <<clock, loaded, stats, lock, COUNTER, DROPS, PTRLIST, frames, locals,
                 calls, window, sampled, handed, discarded, incs, failed, missed, due, hit>>

(* *countptr += 1, outside every lock: a load, then a store.               *)
CounterLoad(t) ==
  /\ pc[t] = "counter_load"
  /\ tmp' = [tmp EXCEPT ![t] = COUNTER]
  /\ Goto(t, "counter_store")
  /\ UNCHANGED <<clock, loaded, maps, frames, now, ret, idx, ptr, snapshot, calls, ghosts>>

CounterStore(t) ==
  /\ pc[t] = "counter_store"
  /\ COUNTER' = Add64(tmp[t], 1)
  /\ incs' = incs + 1
  /\ Continue(t)
  /\ UNCHANGED <<clock, loaded, stats, lock, DROPS, PTRLIST, ring, frames, now, ret, ptr,
                 snapshot, tmp, calls, window, sampled, handed, reported, discarded, failed,
                 missed, due, hit>>

(* The ring is full: the snapshot is gone, *drops += 1 counts it, and the  *)
(* loop ends: the prefixes after this one do not see the sample.           *)
RingbufFullMutant(t) ==   \* mutant: the drop is counted from the wrong counter
  /\ pc[t] = "reserve"
  /\ Len(ring) >= RingCap
  /\ tmp' = [tmp EXCEPT ![t] = COUNTER]
  /\ discarded' = [discarded EXCEPT ![Key(t)] = @ + snapshot[t].count]
  /\ Goto(t, "drops_store")
  /\ UNCHANGED <<clock, loaded, maps, frames, now, ret, idx, ptr, snapshot, calls,
                 window, sampled, handed, reported, incs, failed, missed, due, hit>>

RingbufFull(t) ==
  /\ pc[t] = "reserve"
  /\ Len(ring) >= RingCap
  /\ tmp' = [tmp EXCEPT ![t] = DROPS]
  /\ discarded' = [discarded EXCEPT ![Key(t)] = @ + snapshot[t].count]
  /\ Goto(t, "drops_store")
  /\ UNCHANGED <<clock, loaded, maps, frames, now, ret, idx, ptr, snapshot, calls,
                 window, sampled, handed, reported, incs, failed, missed, due, hit>>

DropsStore(t) ==
  /\ pc[t] = "drops_store"
  /\ DROPS' = Add64(tmp[t], 1)
  /\ failed' = failed + 1
  /\ Goto(t, "finish")
  /\ UNCHANGED <<clock, loaded, stats, lock, COUNTER, PTRLIST, ring, frames, locals,
                 calls, window, sampled, handed, reported, discarded, incs, missed, due, hit>>

(* The end of the handler removes the record of the thread, whichever it   *)
(* is, and the traced function returns.  The locals are gone.              *)
Finish(t) ==
  /\ pc[t] = "finish"
  /\ PTRLIST' = RemoveKey(PidTgid(t))
  /\ Return(t)
  /\ Goto(t, "kernel")
  /\ now' = [now EXCEPT ![t] = 0]
  /\ ret' = [ret EXCEPT ![t] = 0]
  /\ idx' = [idx EXCEPT ![t] = 0]
  /\ ptr' = [ptr EXCEPT ![t] = 1]
  /\ snapshot' = [snapshot EXCEPT ![t] = NoSnapshot]
  /\ tmp' = [tmp EXCEPT ![t] = 0]
  /\ due' = [due EXCEPT ![t] = {}]
  /\ hit' = [hit EXCEPT ![t] = {}]
  /\ UNCHANGED <<clock, loaded, stats, lock, COUNTER, DROPS, ring, calls, window, sampled,
                 handed, reported, discarded, incs, failed, missed>>

(* The daemon takes the oldest record once it is submitted.                *)
Consume ==
  /\ ring # <<>>
  /\ ~ ring[1].busy
  /\ ring' = Tail(ring)
  /\ UNCHANGED <<clock, loaded, stats, lock, COUNTER, DROPS, PTRLIST, frames, pc, locals,
                 calls, ghosts>>

Handler(t) ==
  \/ Scan(t) \/ Acquire(t) \/ Update(t) \/ UpdatePublish(t) \/ TakeSnapshot(t)
  \/ ClearUnlock(t) \/ RingbufReserve(t) \/ RingbufSubmit(t) \/ CounterLoad(t)
  \/ CounterStore(t) \/ RingbufFull(t) \/ DropsStore(t) \/ Finish(t)

Next ==
  \/ Tick
  \/ \E k \in Keys : LoadPrefix(k)
  \/ \E t \in Threads :
       \/ \E op \in Ops, path \in Paths : TryFslatEntry(t, op, path)
       \/ \E r \in Rets : \/ TryFslatExitNoRecord(t, r)
                          \/ TryFslatExitFailed(t, r)
                          \/ TryFslatExit(t, r)
       \/ Handler(t)
  \/ Consume

Spec == Init /\ [][Next]_vars

(* A handler that started runs on: BPF programs are neither blocked nor    *)
(* abandoned.  bpf_spin_lock is a queued lock, which serves every waiter.  *)
Fairness ==
  \A t \in Threads : /\ WF_vars(Handler(t))
                     /\ SF_vars(Acquire(t))

FairSpec == Spec /\ Fairness

-----------------------------------------------------------------------------
u64 == 0 .. (U64 - 1)

Sample == [latency : Int, bytes : Int]

Stats == [min : u64, max : u64, total_lat : u64, total_bytes : u64, count : u64,
          lastpublish : u64]

Message == [op : Ops \union {""}, idx : Idx, min : u64, max : u64, total_lat : u64,
            total_bytes : u64, count : u64, monotonic : u64, seq : Nat,
            samples : Seq(Sample)]

Frame == [op : Ops, path : Paths, start : u64]

EntryRec == [key : Threads \union {NoThread}, timestamp : u64,
             path : Paths \union {ZeroPath}]

RingRecord == [msg : Message, busy : BOOLEAN, by : Threads]

Labels == {"kernel", "scan", "lock_publish", "lock_update", "update_publish", "update",
           "snapshot", "clear", "reserve", "submit", "counter_load", "counter_store",
           "drops_store", "finish"}

(* Every variable keeps its type: the loop of try_fslat_exit ends with the *)
(* last entry of the stats map, and entryrec points into PTRLIST, though   *)
(* perhaps at a record that was removed.                                   *)
TypeOK ==
  /\ clock \in 0 .. MaxClock
  /\ loaded \subseteq Keys
  /\ stats \in [Keys -> Stats]
  /\ lock \in [Keys -> Threads \union {NoThread}]
  /\ COUNTER \in Nat
  /\ DROPS \in Nat
  /\ PTRLIST \in [Elem -> EntryRec]
  /\ ring \in Seq(RingRecord)
  /\ frames \in [Threads -> Seq(Frame)]
  /\ pc \in [Threads -> Labels]
  /\ now \in [Threads -> u64]
  /\ ret \in [Threads -> u64]
  /\ idx \in [Threads -> 0 .. NumPathPrefix]
  /\ ptr \in [Threads -> Elem]
  /\ snapshot \in [Threads -> Message]
  /\ tmp \in [Threads -> Nat]
  /\ calls \in Nat
  /\ window \in [Keys -> Seq(Sample)]
  /\ sampled \in [Keys -> Nat]
  /\ handed \in [Keys -> Nat]
  /\ reported \in [Keys -> Nat]
  /\ discarded \in [Keys -> Nat]
  /\ incs \in Nat
  /\ failed \in Nat
  /\ missed \subseteq Ops \X Paths
  /\ due \in [Threads -> SUBSET Idx]
  /\ hit \in [Threads -> SUBSET Idx]

(* The code between bpf_spin_lock and bpf_spin_unlock, and the code that   *)
(* runs for a prefix that matched.                                         *)
Critical == {"update_publish", "update", "snapshot", "clear"}
Matched  == Critical \union {"lock_publish", "lock_update", "reserve", "submit",
                             "counter_load", "counter_store", "drops_store"}

(* What the critical sections of try_fslat_exit must not let happen, even  *)
(* though the test that chooses between them reads the entry unlocked, and *)
(* although the prefix loader overwrites entries under running probes:     *)
(* every sample added to an entry is still counted in it or left it in     *)
(* exactly one snapshot.  (count is a u64: until it wraps.)                *)
Conservation ==
  \A k \in Keys : sampled[k] < U64 => sampled[k] = stats[k].count + handed[k]

(* Two threads that both find the window over both publish; the second of  *)
(* them must still publish at least its own sample, never the cleared      *)
(* entry with its count of 0 and its min of u64::MAX above max.            *)
NoEmptyReport ==
  (\A k \in Keys : sampled[k] < U64) =>
    \A i \in DOMAIN ring : /\ ring[i].msg.count >= 1
                           /\ ring[i].msg.min <= ring[i].msg.max

(* *countptr += 1 and *drops += 1 run outside every lock, so increments    *)
(* may be lost; still neither counter, nor a value a thread has loaded,    *)
(* nor a sequence number in a record, runs ahead of the number of records  *)
(* submitted, or of the drops.                                             *)
CountersNeverAhead ==
  /\ COUNTER <= incs
  /\ DROPS <= failed
  /\ \A t \in Threads : /\ pc[t] = "counter_store" => tmp[t] <= incs
                        /\ pc[t] = "drops_store" => tmp[t] <= failed
                        /\ snapshot[t].seq <= incs
  /\ \A i \in DOMAIN ring : ring[i].msg.seq <= incs

(* While the exit handler of a thread runs, entryrec is the record its own *)
(* fentry probe wrote for the call that returns: the sample gets that      *)
(* call's start time and path.  The map must hold a record per thread.     *)
OwnRecord ==
  MaxEntries >= Cardinality(Threads) =>
    \A t \in Threads : pc[t] # "kernel" =>
      /\ PTRLIST[ptr[t]].timestamp = Top(t).start
      /\ PTRLIST[ptr[t]].path = Top(t).path

(* n is the sum of v[1] .. v[len]: partial sums lead to it.  A u64 that    *)
(* every value was added to is that sum modulo U64.                        *)
SumsTo(n, len, v) ==
  \E p \in [0 .. len -> 0 .. n] :
    /\ p[0] = 0 /\ p[len] = n
    /\ \A i \in 1 .. len : p[i] = p[i - 1] + v[i]

WrapsTo(a, len, v) == \E laps \in 0 .. len : SumsTo(a + laps * U64, len, v)

Latencies(w) == [i \in DOMAIN w |-> w[i].latency]
Sizes(w)     == [i \in DOMAIN w |-> w[i].bytes]

(* Count and totals are those of the samples w, modulo the width of a u64. *)
Adds(s, w) ==
  /\ \E laps \in 0 .. Len(w) : Len(w) = s.count + laps * U64
  /\ WrapsTo(s.total_lat, Len(w), Latencies(w))
  /\ WrapsTo(s.total_bytes, Len(w), Sizes(w))

IsMax(x, w) ==
  /\ \A i \in DOMAIN w : w[i].latency <= x
  /\ \E i \in DOMAIN w : w[i].latency = x

IsMin(x, w) ==
  /\ \A i \in DOMAIN w : x <= w[i].latency
  /\ \E i \in DOMAIN w : w[i].latency = x

(* The aggregation of update_stats_locked and clear_stats_locked, as other *)
(* threads interleave with it, against the samples themselves: a record    *)
(* describes exactly the calls of its window, count, totals and max        *)
(* always, min unless some call took no time (0 marks an unset min).       *)
MetricsExact ==
  MaxEntries >= Cardinality(Threads) =>
    \A i \in DOMAIN ring :
      LET msg == ring[i].msg
      IN  /\ Adds(msg, msg.samples)
          /\ IsMax(msg.max, msg.samples)
          /\ (\A j \in DOMAIN msg.samples : msg.samples[j].latency # 0)
               => IsMin(msg.min, msg.samples)

(* What handler t holds of the samples that left entry k in a snapshot and *)
(* were neither submitted nor thrown away.                                 *)
Held(k, t) == IF pc[t] \in {"reserve", "submit"} /\ Key(t) = k THEN snapshot[t].count ELSE 0

(* The threads, one after the other: what a sum over them goes through.    *)
Orders == {at \in [1 .. Cardinality(Threads) -> Threads] :
             \A t \in Threads : \E i \in DOMAIN at : at[i] = t}

(* Every sample is at every moment in exactly one place: its entry, the    *)
(* snapshot of one handler, a submitted record, or the samples that a full *)
(* ring threw away.  (count is a u64: until it wraps.)                     *)
NothingLost ==
  \A k \in Keys : sampled[k] < U64 =>
    \E at \in Orders : SumsTo(sampled[k] - (stats[k].count + reported[k] + discarded[k]),
                             Cardinality(Threads), [i \in DOMAIN at |-> Held(k, at[i])])

(* The loop over the prefixes gives the sample of a call to every prefix   *)
(* that was configured for its path when the exit began, and to no prefix  *)
(* the path does not start with: at the latest when the loop moves on to   *)
(* the next prefix, and whether or not the record of an earlier prefix was *)
(* published.  Only a full ring, which ends the loop, spares later ones.   *)
PrefixesServed ==
  MaxEntries >= Cardinality(Threads) =>
    \A t \in Threads : pc[t] # "kernel" =>
      /\ {i \in due[t] : i < idx[t]} \subseteq hit[t]
      /\ hit[t] \subseteq Configured(Top(t).op, Top(t).path)
      /\ pc[t] = "finish" /\ idx[t] \in Idx => idx[t] \in hit[t]

(* A handler that started ends, whoever else wants the same spin locks.    *)
HandlerTerminates == \A t \in Threads : pc[t] # "kernel" ~> pc[t] = "kernel"

(* producers/fslatency/README.md: "Within each 1s aggregation window,      *)
(* per-prefix statistics are accumulated in a BPF array map for each of    *)
(* the traced functions", and "At the end of each window, a stats record   *)
(* is serialized": the windows of an entry end more than AGG_INTERVAL      *)
(* apart.                                                                  *)
WindowSpacing ==
  [][\A k \in Keys : stats'[k].lastpublish # stats[k].lastpublish =>
       stats'[k].lastpublish > stats[k].lastpublish + AggInterval]_vars

(* producers/fslatency/README.md: "On fexit, the elapsed time is           *)
(* calculated and matched against the configured path prefix table. If the *)
(* file's path starts with one of the configured prefixes, the latency     *)
(* sample is added to the running statistics for that prefix": no          *)
(* successful call is left out.                                            *)
NoCallMissed == missed = {}
=============================================================================
