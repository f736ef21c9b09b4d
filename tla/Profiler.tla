------------------------------ MODULE Profiler ------------------------------
(***************************************************************************)
(* The profile the probes keep of themselves: log2_bucket, hist_increment  *)
(* and check_prof_reset (vfslatency-common/src/lib.rs) on the PROF_* maps  *)
(* (maps.rs), as the handlers of all CPUs call them, and the reset that    *)
(* deploy/vfslatency-profiler.py asks for.                                 *)
(*                                                                         *)
(* Nothing here is locked.  A histogram is a BPF hash map with             *)
(* preallocated elements: a pointer to the count of a bucket stays usable  *)
(* after the bucket was removed, and the element may by then belong to     *)
(* another bucket.                                                         *)
(***************************************************************************)
EXTENDS Integers, Sequences, FiniteSets

CONSTANTS
  Cpus,
  EntryHists,    \* the histograms try_fslat_entry counts in, in its order
  ExitHists,     \* those of try_fslat_exit
  ResetHists,    \* all five, in the order of the reset loop
  LinearHists,   \* those whose bucket is the value itself: PROF_WALK_ITERS_HIST
  Values,        \* the times and iteration counts that are measured
  Bits,          \* 64: the width of u64, and how many buckets a reset removes
  MaxEntries,    \* 64: the capacity of a histogram
  Spares,        \* preallocated elements beyond it: one per possible CPU
  MaxRuns,       \* bound on the handlers that count
  MaxResets      \* bound on the resets asked for

Hists == {ResetHists[i] : i \in DOMAIN ResetHists}
Elem  == 1 .. (MaxEntries + Spares)
NoKey == -1

ASSUME ConstantsAssumption ==
  /\ ResetHists \in Seq(STRING)
  /\ EntryHists \in Seq(Hists) /\ ExitHists \in Seq(Hists)
  /\ Values \subseteq Nat
  /\ Bits \in Nat \ {0}
  /\ MaxEntries \in Nat \ {0}
  /\ Spares \in Nat \ {0}
  /\ MaxRuns \in Nat
  /\ MaxResets \in Nat

VARIABLES
  PROF_CTRL,   \* 0: no reset yet, 1: reset asked for, Stamp: time of the last reset
  hist,        \* hist[h][e]: element e of histogram h, [key, count]
  pc,          \* pc[c]: where the handler on CPU c is
  todo,        \* the histograms it has still to count in
  step,        \* its rounds of the reset loop
  bucket, ptr, reg,   \* locals of hist_increment
  \* History, read by no guard but the bounds.
  runs, resets,
  stored,      \* stored[h][e]: the counts stored to, or inserted in, element e
  counted,     \* counted[h][k]: how many values that belong under the label of bucket k
               \* were counted since the bucket was removed
  fresh,       \* fresh[h][k]: how many since the last reset was asked for
  val,         \* the value being counted
  overlap,     \* the histograms on which two handlers were at once
  absorbed     \* the last reset was asked for while another one was under way

history == <<runs, resets, stored, counted, fresh, val, overlap, absorbed>>
vars == <<PROF_CTRL, hist, pc, todo, step, bucket, ptr, reg, history>>

Stamp == 2   \* any value over 1

-----------------------------------------------------------------------------
leading_zeros(v) == Cardinality({i \in 0 .. (Bits - 1) : v < 2 ^ i})

log2_bucketMutant(v) ==   \* mutant: the bucket below
  IF v = 0 THEN 0 ELSE Bits - 1 - leading_zeros(v)
log2_bucket(v) == IF v = 0 THEN 0 ELSE Bits - leading_zeros(v)

(* The buckets, and the one number that the profiler prints for each: 0,   *)
(* the bucket itself, or 1 << key.                                         *)
Buckets == 0 .. Bits

Label(h, k) == IF h \in LinearHists \/ k = 0 THEN k ELSE 2 ^ k

(* The bar a value belongs under: the one labelled with the value, where   *)
(* the labels are the values or the value is 0, else the least label above *)
(* it.  The profiler prints one number and no range, so a reader has to    *)
(* take it as a bound: not a lower one, since no bar is labelled 1.        *)
Belongs(h, k, v) ==
  IF h \in LinearHists \/ v = 0 THEN Label(h, k) = v
  ELSE /\ v < Label(h, k)
       /\ \A j \in Buckets : v < Label(h, j) => Label(h, k) <= Label(h, j)

(* The key hist_increment is called with.                                  *)
BucketOf(h, v) == IF h \in LinearHists THEN v ELSE log2_bucket(v)

(* The values are u64, and each goes to a bucket that a reset removes: no  *)
(* time takes 2^63 ns, and a walk has at most MAX_PARENT + 1 components.   *)
ASSUME ValuesAssumption ==
  /\ \A v \in Values : v < 2 ^ Bits
  /\ \A h \in Hists, v \in Values : BucketOf(h, v) < Bits

(* The reset loop: bucket by bucket, each in all the histograms.           *)
ResetHist(n) == ResetHists[(n % Len(ResetHists)) + 1]
ResetBucket(n) == n \div Len(ResetHists)
ResetRounds == Bits * Len(ResetHists)

FreeElem == [key |-> NoKey, count |-> 0]
ElemsOf(h, k) == {e \in Elem : hist[h][e].key = k}
KeysOf(h) == {hist[h][e].key : e \in Elem} \ {NoKey}

Counting == {"load", "store", "insert"}   \* inside hist_increment
Others(c, h) == {d \in Cpus \ {c} : pc[d] \in Counting /\ Head(todo[d]) = h}

Init ==
  /\ PROF_CTRL = 0
  /\ hist = [h \in Hists |-> [e \in Elem |-> FreeElem]]
  /\ pc = [c \in Cpus |-> "idle"]
  /\ todo = [c \in Cpus |-> <<>>]
  /\ step = [c \in Cpus |-> 0]
  /\ bucket = [c \in Cpus |-> 0]
  /\ ptr = [c \in Cpus |-> 1]
  /\ reg = [c \in Cpus |-> 0]
  /\ runs = 0 /\ resets = 0
  /\ stored = [h \in Hists |-> [e \in Elem |-> 0]]
  /\ counted = [h \in Hists |-> [k \in Buckets |-> 0]]
  /\ fresh = [h \in Hists |-> [k \in Buckets |-> 0]]
  /\ val = [c \in Cpus |-> 0]
  /\ overlap = {}
  /\ absorbed = FALSE

Goto(c, label) == pc' = [pc EXCEPT ![c] = label]
Proceed(c, hists) == Goto(c, IF hists = <<>> THEN "idle" ELSE "next")

(* A handler starts with check_prof_reset, which reads the control word.   *)
(* hists is what it will count in: nothing when it returns early (no       *)
(* record, or a failed call).                                              *)
StartProbe(c, hists) ==
  /\ pc[c] = "idle"
  /\ hists # <<>> => runs < MaxRuns
  /\ runs' = IF hists # <<>> THEN runs + 1 ELSE runs
  /\ todo' = [todo EXCEPT ![c] = hists]
  /\ IF PROF_CTRL = 1 THEN Goto(c, "reset") ELSE Proceed(c, hists)
  /\ UNCHANGED <<PROF_CTRL, hist, step, bucket, ptr, reg, resets, stored, counted,
                 fresh, val, overlap, absorbed>>

(* One `remove`.  The element keeps its bytes.                             *)
ResetRemoveMutant(c) ==   \* mutant: the last bucket is left out
  /\ pc[c] = "reset" /\ step[c] < ResetRounds
  /\ LET h == ResetHist(step[c])
         k == ResetBucket(step[c])
     IN  /\ hist' = IF k = Bits - 1 THEN hist
                    ELSE [hist EXCEPT ![h] = [e \in Elem |->
                       IF @[e].key = k THEN [@[e] EXCEPT !.key = NoKey] ELSE @[e]]]
         /\ counted' = [counted EXCEPT ![h][k] = IF k = Bits - 1 THEN @ ELSE 0]
         /\ overlap' = IF Others(c, h) # {} THEN overlap \union {h} ELSE overlap
  /\ step' = [step EXCEPT ![c] = @ + 1]
  /\ UNCHANGED <<PROF_CTRL, pc, todo, bucket, ptr, reg, runs, resets, stored,
                 fresh, val, absorbed>>

ResetRemoveMutant2(c) ==   \* mutant: one round too many
  /\ pc[c] = "reset" /\ step[c] <= ResetRounds
  /\ step' = [step EXCEPT ![c] = @ + 1]
  /\ UNCHANGED <<PROF_CTRL, hist, pc, todo, bucket, ptr, reg, history>>

ResetRemove(c) ==
  /\ pc[c] = "reset" /\ step[c] < ResetRounds
  /\ LET h == ResetHist(step[c])
         k == ResetBucket(step[c])
     IN  /\ hist' = [hist EXCEPT ![h] = [e \in Elem |->
                       IF @[e].key = k THEN [@[e] EXCEPT !.key = NoKey] ELSE @[e]]]
         /\ counted' = [counted EXCEPT ![h][k] = 0]
         /\ overlap' = IF Others(c, h) # {} THEN overlap \union {h} ELSE overlap
  /\ step' = [step EXCEPT ![c] = @ + 1]
  /\ UNCHANGED <<PROF_CTRL, pc, todo, bucket, ptr, reg, runs, resets, stored,
                 fresh, val, absorbed>>

(* *ctrl = bpf_ktime_get_ns(), whoever else is still removing, and over a  *)
(* request that came in the meantime.                                      *)
ResetStampMutant(c) ==   \* mutant: the request is left standing
  /\ pc[c] = "reset" /\ step[c] >= ResetRounds
  /\ step' = [step EXCEPT ![c] = 0]
  /\ Proceed(c, todo[c])
  /\ UNCHANGED <<PROF_CTRL, hist, todo, bucket, ptr, reg, history>>

ResetStamp(c) ==
  /\ pc[c] = "reset" /\ step[c] >= ResetRounds
  /\ PROF_CTRL' = Stamp
  /\ step' = [step EXCEPT ![c] = 0]
  /\ Proceed(c, todo[c])
  /\ UNCHANGED <<hist, todo, bucket, ptr, reg, history>>

(* hist_increment: get_ptr_mut finds the bucket of a measured value ...    *)
Lookup(c, v) ==
  /\ pc[c] = "next"
  /\ LET h  == Head(todo[c])
         es == ElemsOf(h, BucketOf(h, v))
     IN  /\ bucket' = [bucket EXCEPT ![c] = BucketOf(h, v)]
         /\ val' = [val EXCEPT ![c] = v]
         /\ ptr' = [ptr EXCEPT ![c] = IF es # {} THEN CHOOSE e \in es : TRUE ELSE @]
         /\ Goto(c, IF es # {} THEN "load" ELSE "insert")
         /\ overlap' = IF Others(c, h) # {} THEN overlap \union {h} ELSE overlap
  /\ UNCHANGED <<PROF_CTRL, hist, todo, step, reg, runs, resets, stored, counted,
                 fresh, absorbed>>

(* ... and `*count += 1` loads and stores through the pointer ...          *)
Load(c) ==
  /\ pc[c] = "load"
  /\ reg' = [reg EXCEPT ![c] = hist[Head(todo[c])][ptr[c]].count]
  /\ Goto(c, "store")
  /\ UNCHANGED <<PROF_CTRL, hist, todo, step, bucket, ptr, history>>

OneMore(f, h, v) ==
  [f EXCEPT ![h] = [k \in Buckets |-> IF Belongs(h, k, v) THEN f[h][k] + 1 ELSE f[h][k]]]

Counted(c) ==
  /\ counted' = OneMore(counted, Head(todo[c]), val[c])
  /\ fresh' = OneMore(fresh, Head(todo[c]), val[c])

(* The end of hist_increment: its locals go away.                          *)
Leave(c) ==
  /\ todo' = [todo EXCEPT ![c] = Tail(@)]
  /\ bucket' = [bucket EXCEPT ![c] = 0]
  /\ ptr' = [ptr EXCEPT ![c] = 1]
  /\ reg' = [reg EXCEPT ![c] = 0]
  /\ val' = [val EXCEPT ![c] = 0]
  /\ Proceed(c, Tail(todo[c]))
  /\ UNCHANGED <<PROF_CTRL, step, runs, resets, overlap, absorbed>>

StoreMutant(c) ==   \* mutant: the load is from another place than the store
  /\ pc[c] = "store"
  /\ hist' = [hist EXCEPT ![Head(todo[c])][ptr[c]].count = @ + reg[c]]
  /\ stored' = [stored EXCEPT ![Head(todo[c])][ptr[c]] = @ + 1]
  /\ Counted(c)
  /\ Leave(c)

Store(c) ==
  /\ pc[c] = "store"
  /\ hist' = [hist EXCEPT ![Head(todo[c])][ptr[c]].count = reg[c] + 1]
  /\ stored' = [stored EXCEPT ![Head(todo[c])][ptr[c]] = @ + 1]
  /\ Counted(c)
  /\ Leave(c)

(* ... or a new element is inserted with 1, in the place of what others    *)
(* may have inserted since; a full map takes no new bucket, and the value  *)
(* is not counted.                                                         *)
Insert(c) ==
  LET h == Head(todo[c])
      k == bucket[c]
  IN  /\ pc[c] = "insert"
      /\ IF ElemsOf(h, k) = {} /\ Cardinality(KeysOf(h)) >= MaxEntries
         THEN UNCHANGED <<hist, stored, counted, fresh>>
         ELSE \E new \in ElemsOf(h, NoKey) :
                /\ hist' = [hist EXCEPT ![h] = [e \in Elem |->
                     IF e = new THEN [key |-> k, count |-> 1]
                     ELSE IF @[e].key = k THEN [@[e] EXCEPT !.key = NoKey] ELSE @[e]]]
                /\ stored' = [stored EXCEPT ![h][new] = @ + 1]
                /\ Counted(c)
      /\ Leave(c)

(* reset_maps of vfslatency-profiler.py.  Without the id of PROF_CTRL, or  *)
(* when bpftool fails, it does nothing.                                    *)
ResetMaps ==
  /\ resets < MaxResets
  /\ resets' = resets + 1
  /\ PROF_CTRL' = 1
  /\ fresh' = [h \in Hists |-> [k \in Buckets |-> 0]]
  /\ absorbed' = (\E c \in Cpus : pc[c] = "reset")
  /\ UNCHANGED <<hist, pc, todo, step, bucket, ptr, reg, runs, stored, counted,
                 val, overlap>>

ProbeStep(c) ==
  \/ \E hists \in {EntryHists, ExitHists, <<>>} : StartProbe(c, hists)
  \/ ResetRemove(c) \/ ResetStamp(c)
  \/ \E v \in Values : Lookup(c, v)
  \/ Load(c) \/ Store(c) \/ Insert(c)

Next == (\E c \in Cpus : ProbeStep(c)) \/ ResetMaps

Spec == Init /\ [][Next]_vars

(* The code of a handler runs on, and the traced functions are called on   *)
(* every CPU as long as the node is used (a handler that counts nothing    *)
(* can always start).                                                      *)
FairSpec == Spec /\ \A c \in Cpus : WF_vars(ProbeStep(c))

-----------------------------------------------------------------------------
(* The handlers use only elements the maps have, though perhaps of a       *)
(* bucket that is gone, and the reset loop ends.                           *)
TypeOK ==
  /\ PROF_CTRL \in {0, 1, Stamp}
  /\ hist \in [Hists -> [Elem -> [key : Nat \union {NoKey}, count : Nat]]]
  /\ pc \in [Cpus -> {"idle", "reset", "next"} \union Counting]
  /\ todo \in [Cpus -> Seq(Hists)]
  /\ \A c \in Cpus : pc[c] \in {"next"} \union Counting => todo[c] # <<>>
  /\ step \in [Cpus -> 0 .. ResetRounds]
  /\ bucket \in [Cpus -> Nat]
  /\ ptr \in [Cpus -> Elem]
  /\ reg \in [Cpus -> Nat]
  /\ stored \in [Hists -> [Elem -> Nat]]

(* However increments, resets and stale pointers interleave, no element    *)
(* ever holds more than was stored to it: races of hist_increment lose     *)
(* counts or move them to another bucket, they never invent any.           *)
CountBacked ==
  \A h \in Hists : \A e \in Elem : hist[h][e].count <= stored[h][e]

(* Why: what a handler has loaded and is about to store was stored before. *)
LoadBacked ==
  \A c \in Cpus : pc[c] = "store" => reg[c] <= stored[Head(todo[c])][ptr[c]]

(* Bucket k of histogram h holds the count n: one element, none for 0.     *)
Holds(h, k, n) ==
  IF n = 0 THEN ElemsOf(h, k) = {}
  ELSE \E e \in Elem : ElemsOf(h, k) = {e} /\ hist[h][e].count = n

(* A histogram on which no two handlers of hist_increment and              *)
(* check_prof_reset ever met holds exactly the values measured since each  *)
(* bucket was last removed, less those a full map had no bucket for: each  *)
(* in the bucket under whose label the profiler's reader looks for it.     *)
Exact ==
  \A h \in Hists \ overlap : \A k \in Buckets : Holds(h, k, counted[h][k])

(* Once a reset has left its time in the control word, such a histogram    *)
(* has nothing from before the reset was asked for, unless that was while  *)
(* another reset was under way: the end of that one may overwrite the      *)
(* request.  The next request that finds none under way counts again.      *)
ResetForgets ==
  PROF_CTRL = Stamp /\ ~ absorbed =>
    \A h \in Hists \ overlap : \A k \in Buckets : \E n \in 0 .. fresh[h][k] : Holds(h, k, n)

(* Every bucket was removed since the last reset was asked for, or was     *)
(* empty then.                                                             *)
Forgotten == \A h \in Hists : \A k \in Buckets : counted[h][k] <= fresh[h][k]

(* A reset that is asked for while none is under way is carried out: some  *)
(* handler removes all that is older and leaves its time, whatever other   *)
(* handlers count or remove meanwhile.  (A request that comes during a     *)
(* reset may be overwritten without being carried out, which this does not *)
(* excuse for the ones before and after it.)                               *)
ResetHonoured ==
  PROF_CTRL = 1 /\ ~ absorbed ~> absorbed \/ (PROF_CTRL = Stamp /\ Forgotten)
=============================================================================
