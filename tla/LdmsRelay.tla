----------------------------- MODULE LdmsRelay ------------------------------
(***************************************************************************)
(* The daemon: main and the task it spawns, ring_loop                      *)
(* (daemon/ebpf_ldms/src/main.rs), its command line                        *)
(* (daemon/ebpf_ldms/src/cli.rs) and the LDMS transport it publishes on    *)
(* (daemon/ldms_stream/src/lib.rs).  Producers reserve and submit records  *)
(* of the shared ring concurrently; the process may stop at any moment.    *)
(*                                                                         *)
(* A message is what the daemon's tests on it can tell apart: whether the  *)
(* CBOR and the JSON conversion succeed, the id field and the monotonic    *)
(* timestamp field.                                                        *)
(***************************************************************************)
EXTENDS Integers, Sequences, FiniteSets

CONSTANTS
  Inputs,        \* the contents producers submit: [cbor, json, id, ts]
  Null,          \* a field that is missing (or null)
  Other,         \* a field of another type than the daemon expects
  Msglimits,     \* values of --msglimit
  Intervals,     \* values of --interval, in ticks of the clock
  TimeOffsets,   \* realtime minus monotonic clock when ring_loop starts
  RingCap,       \* records the ring can hold
  MaxMsgs,       \* bound on the number of messages
  MaxClock       \* bound on the clock

ASSUME ConstantsAssumption ==
  /\ Msglimits \subseteq Nat
  /\ Intervals \subseteq Nat
  /\ TimeOffsets \subseteq Int
  /\ RingCap \in Nat
  /\ MaxMsgs \in Nat
  /\ MaxClock \in Nat
  /\ \A m \in Inputs : /\ DOMAIN m = {"cbor", "json", "id", "ts"}
                       /\ m.ts \in Nat \union {Null, Other}
  /\ Null \notin Nat /\ Other \notin Nat /\ Null # Other

(* The limiter gets interval * 1000 milliseconds, a u64: up to 30 years,   *)
(* far below where the product wraps, a tick of the clock stands for one   *)
(* second and the factor for the unit.                                     *)
MaxInterval == 1000000000

ASSUME IntervalsAssumption == Intervals \subseteq 0 .. MaxInterval

VARIABLES
  clock,
  proc,        \* where main is
  xprt,        \* the transport behind SockStream's handle
  msglimit,
  interval,
  time_offset,
  task,        \* where ring_loop is
  producer_tokens,
  ring,        \* records of LDMS_SHARED_STREAM, oldest first: [n, msg, busy]
  produced,    \* messages producers tried to submit, which numbers them
  published,   \* what LDMS accepted: [n, id, at, timestamp]
  refused      \* history: the last message over its rate, [id, at]

vars == <<clock, proc, xprt, msglimit, interval, time_offset, task, producer_tokens, ring,
          produced, published, refused>>

config == <<msglimit, interval, time_offset>>

-----------------------------------------------------------------------------
(* cli.rs: both limits are at least 1.                                     *)
parse_ratelimitMutant(limit, period) == <<limit, period>>   \* mutant: unchecked
parse_ratelimit(limit, period) ==
  <<IF limit = 0 THEN 1 ELSE limit, IF period = 0 THEN 1 ELSE period>>

(* The key of the message's rate limit.  All ids that are no strings share *)
(* one.                                                                    *)
ProducerIdMutant(msg) == "ebpf"   \* mutant: one limit for all producers
ProducerId(msg) == IF msg.id = Other THEN "invalid id field" ELSE msg.id

(* The published timestamp, in time since the epoch.                       *)
Timestamp(msg) == time_offset + (IF msg.ts = Other THEN 0 ELSE msg.ts)

Relayable(msg) ==
  /\ msg.cbor /\ msg.json
  /\ msg.id # Null /\ msg.ts # Null
  /\ Timestamp(msg) >= 0

(* burster's SlidingWindowCounter: the acceptances of the current window   *)
(* and, by the share of it that the sliding window still covers, those of  *)
(* the window before.  Windows are counted from the limiter's creation,    *)
(* which is the id's first message.                                        *)
FreshTokens == [start |-> clock, window |-> 0, prev |-> 0, cur |-> 0]

Roll(tokens) ==
  LET w == (clock - tokens.start) \div interval
  IN  IF w = tokens.window THEN tokens
      ELSE [start |-> tokens.start, window |-> w, cur |-> 0,
            prev |-> IF w = tokens.window + 1 THEN tokens.cur ELSE 0]

TokensOf(id) ==
  Roll(IF id \in DOMAIN producer_tokens THEN producer_tokens[id] ELSE FreshTokens)

HasToken(id) ==
  LET t == TokensOf(id)
      covered == interval - ((clock - t.start) % interval)
  IN  t.prev * covered + t.cur * interval < msglimit * interval

SetTokens(id, tokens) ==
  producer_tokens' = [i \in DOMAIN producer_tokens \union {id} |->
                        IF i = id THEN tokens ELSE producer_tokens[i]]

-----------------------------------------------------------------------------
Init ==
  /\ clock = 0
  /\ proc = "start"
  /\ xprt = "none"
  /\ \E l \in Msglimits, i \in Intervals :
       /\ msglimit = parse_ratelimit(l, i)[1]
       /\ interval = parse_ratelimit(l, i)[2]
  /\ time_offset = 0
  /\ task = "none"
  /\ producer_tokens = <<>>
  /\ ring = <<>>
  /\ produced = 0
  /\ published = <<>>
  /\ refused = Null

Tick ==
  /\ clock < MaxClock
  /\ clock' = clock + 1
  /\ UNCHANGED <<proc, xprt, config, task, producer_tokens, ring, produced, published,
                 refused>>

(* A producer reserves a record of the ring, and later submits it; without *)
(* room it gives the message up.                                           *)
Reserve(msg) ==
  /\ produced < MaxMsgs
  /\ produced' = produced + 1
  /\ Len(ring) < RingCap
  /\ ring' = Append(ring, [n |-> produced', msg |-> msg, busy |-> TRUE])
  /\ UNCHANGED <<clock, proc, xprt, config, task, producer_tokens, published, refused>>

ReserveFails ==
  /\ produced < MaxMsgs
  /\ produced' = produced + 1
  /\ Len(ring) >= RingCap
  /\ UNCHANGED <<clock, proc, xprt, config, task, producer_tokens, ring, published, refused>>

Submit(i) ==
  /\ i \in DOMAIN ring
  /\ ring[i].busy
  /\ ring' = [ring EXCEPT ![i].busy = FALSE]
  /\ UNCHANGED <<clock, proc, xprt, config, task, producer_tokens, produced, published,
                 refused>>

(* main up to the spawn of ring_loop: SockStream::new, connect, the map    *)
(* from its pin.  Each of them may fail, which ends the process.           *)
NewStream ==
  /\ proc = "start"
  /\ xprt' = "open"
  /\ proc' = "created"
  /\ UNCHANGED <<clock, config, task, producer_tokens, ring, produced, published, refused>>

Connect ==
  /\ proc = "created"
  /\ xprt' = "connected"
  /\ proc' = "connected"
  /\ UNCHANGED <<clock, config, task, producer_tokens, ring, produced, published, refused>>

SpawnRingLoop ==
  /\ proc = "connected"
  /\ proc' = "waiting"
  /\ task' = "init"
  /\ UNCHANGED <<clock, xprt, config, producer_tokens, ring, produced, published, refused>>

StartFails ==
  /\ proc \in {"start", "created", "connected"}
  /\ proc' = "exited"
  /\ xprt' = IF xprt = "none" THEN "none" ELSE "closed"
  /\ UNCHANGED <<clock, config, task, producer_tokens, ring, produced, published, refused>>

(* ring_loop: take the offset of the clocks once, for all messages to      *)
(* come, and register the ring with the reactor.                           *)
StartLoop ==
  /\ task = "init"
  /\ time_offset' \in TimeOffsets
  /\ task' = "poll"
  /\ UNCHANGED <<clock, proc, xprt, msglimit, interval, producer_tokens, ring, produced,
                 published, refused>>

StartLoopErr ==
  /\ task = "init"
  /\ time_offset' \in TimeOffsets
  /\ task' = "dead"
  /\ xprt' = "closed"
  /\ UNCHANGED <<clock, proc, msglimit, interval, producer_tokens, ring, produced,
                 published, refused>>

(* Then await readability, then take records until none is ready.    *)
(* A record that a producer has reserved makes the ring readable, but is   *)
(* not taken before it is submitted.                                       *)
Readable ==
  /\ task = "poll"
  /\ ring # <<>>
  /\ task' = "next"
  /\ UNCHANGED <<clock, proc, xprt, config, producer_tokens, ring, produced, published,
                 refused>>

NextItem ==
  /\ task = "next"
  /\ task' = IF ring # <<>> /\ ~ ring[1].busy THEN "body" ELSE "poll"
  /\ UNCHANGED <<clock, proc, xprt, config, producer_tokens, ring, produced, published,
                 refused>>

(* The item is dropped at the end of the loop's body, on every path: only  *)
(* then does the ring get its room back.                                   *)
DropItemMutant == UNCHANGED ring   \* mutant: the record is read again
DropItem == ring' = Tail(ring)

SkipMutant ==   \* mutant: the skipped record is not given back
  /\ task = "body"
  /\ ~ Relayable(ring[1].msg)
  /\ task' = "next"
  /\ UNCHANGED <<clock, proc, xprt, config, producer_tokens, ring, produced, published,
                 refused>>

Skip ==
  /\ task = "body"
  /\ ~ Relayable(ring[1].msg)
  /\ DropItem
  /\ task' = "next"
  /\ UNCHANGED <<clock, proc, xprt, config, producer_tokens, produced, published, refused>>

RateLimited ==
  /\ task = "body"
  /\ Relayable(ring[1].msg)
  /\ LET id == ProducerId(ring[1].msg)
     IN  /\ ~ HasToken(id)
         /\ SetTokens(id, TokensOf(id))
         /\ refused' = [id |-> ring[1].msg.id, at |-> clock]
  /\ DropItem
  /\ task' = "next"
  /\ UNCHANGED <<clock, proc, xprt, config, produced, published>>

StartPublishMutant ==   \* mutant: the limit is not looked at
  /\ task = "body"
  /\ Relayable(ring[1].msg)
  /\ task' = "publish"
  /\ UNCHANGED <<clock, proc, xprt, config, producer_tokens, ring, produced, published,
                 refused>>

StartPublish ==
  /\ task = "body"
  /\ Relayable(ring[1].msg)
  /\ LET id == ProducerId(ring[1].msg)
     IN  /\ HasToken(id)
         /\ SetTokens(id, [TokensOf(id) EXCEPT !.cur = @ + 1])
  /\ task' = "publish"
  /\ UNCHANGED <<clock, proc, xprt, config, ring, produced, published, refused>>

Publish ==
  published' = Append(published,
                      [n |-> ring[1].n, id |-> ring[1].msg.id, at |-> clock,
                       timestamp |-> Timestamp(ring[1].msg)])

PublishOk ==
  /\ task = "publish"
  /\ Publish
  /\ DropItem
  /\ task' = "next"
  /\ UNCHANGED <<clock, proc, xprt, config, producer_tokens, produced, refused>>

(* An error of ldms_msg_publish ends ring_loop, which closes the           *)
(* transport.  main does not await the task: it goes on waiting.           *)
PublishErr ==
  /\ task = "publish"
  /\ DropItem
  /\ task' = "dead"
  /\ xprt' = "closed"
  /\ UNCHANGED <<clock, proc, config, producer_tokens, produced, published, refused>>

(* Ctrl-C, or any other end of the process: main does not wait for the     *)
(* task, which may be in the middle of a publish that still gets through.  *)
Exit ==
  /\ proc = "waiting"
  /\ proc' = "exited"
  /\ task' = "dropped"
  /\ xprt' = "closed"
  /\ \/ UNCHANGED published
     \/ task = "publish" /\ Publish
  /\ UNCHANGED <<clock, config, producer_tokens, ring, produced, refused>>

RingLoop ==
  \/ StartLoop \/ StartLoopErr \/ Readable \/ NextItem \/ Skip \/ RateLimited
  \/ StartPublish \/ PublishOk \/ PublishErr

Next ==
  \/ Tick
  \/ \E msg \in Inputs : Reserve(msg)
  \/ ReserveFails
  \/ \E i \in DOMAIN ring : Submit(i)
  \/ NewStream \/ Connect \/ SpawnRingLoop \/ StartFails
  \/ RingLoop
  \/ Exit

Spec == Init /\ [][Next]_vars

(* The executor runs a task that is ready; a producer's program that has   *)
(* reserved a record runs on to submit it.                                 *)
Fairness ==
  /\ WF_vars(RingLoop)
  /\ WF_vars(\E i \in DOMAIN ring : Submit(i))

FairSpec == Spec /\ Fairness

-----------------------------------------------------------------------------
TokensType == [start : Nat, window : Int, prev : Nat, cur : Nat]

RingRecord == [n : Nat, msg : Inputs, busy : BOOLEAN]

Published == [n : Nat, id : {msg.id : msg \in Inputs}, at : Nat, timestamp : Int]

(* Every variable keeps its type; in particular the limits are never 0     *)
(* (the limiter divides by the interval), though the command line says so. *)
TypeOK ==
  /\ clock \in Nat
  /\ proc \in {"start", "created", "connected", "waiting", "exited"}
  /\ xprt \in {"none", "open", "connected", "closed"}
  /\ msglimit \in Nat \ {0}
  /\ interval \in Nat \ {0}
  /\ time_offset \in Int
  /\ task \in {"none", "init", "poll", "next", "body", "publish", "dead", "dropped"}
  /\ \A id \in DOMAIN producer_tokens : producer_tokens[id] \in TokensType
  /\ ring \in Seq(RingRecord)
  /\ produced \in Nat
  /\ published \in Seq(Published)

(* What the daemon does with the ring implements LossyRelay: whatever the  *)
(* producers, the limiter, LDMS and a stop in the middle of a publish do,  *)
(* no message is published twice, out of order, or from nowhere.           *)
Numbers(records) == [i \in DOMAIN records |-> records[i].n]

Relay == INSTANCE LossyRelay
           WITH sent      <- produced,
                pending   <- IF proc = "exited" THEN <<>> ELSE Numbers(ring),
                delivered <- Numbers(published)

RelaySpec == Relay!Spec

(* Ids that share a limit: equal ones, and those that are no strings with  *)
(* the text that stands for them.                                          *)
SameProducer(a, b) == a = b \/ {a, b} = {Other, "invalid id field"}

(* How many of a limiter's windows a span of time can touch.               *)
WindowsTouched(span) == (span + interval - 1) \div interval + 1

(* "Average message rate limit for an individual producer in               *)
(* messages/interval": from one message of a producer to any later moment, *)
(* however its messages fall across the limiter's windows and however long *)
(* a publish takes, LDMS gets at most msglimit more of them per window     *)
(* that the span can touch.  (Not counting the first one: its own publish  *)
(* may have taken so long that it belongs to an earlier window.)           *)
RateBound ==
  \A i, j \in DOMAIN published : i <= j =>
    Cardinality({k \in (i + 1) .. j : SameProducer(published[k].id, published[i].id)})
      <= msglimit * WindowsTouched(published[j].at - published[i].at)

(* A message is over its rate only when its own producer has used the rate *)
(* up: LDMS got at least msglimit messages of that very producer in the    *)
(* window of the refusal and the one before.  No producer can make the     *)
(* daemon drop the messages of another.                                    *)
RefusedOnlyOverLimit ==
  refused # Null =>
    Cardinality({k \in DOMAIN published : /\ SameProducer(published[k].id, refused.id)
                                          /\ published[k].at > refused.at - 2 * interval})
      >= msglimit

(* The ring does not stay filled while ring_loop runs: whatever is in it,  *)
(* malformed or over its rate, is taken and its room given back.           *)
DrainedByLoop ==
  (proc = "waiting" /\ ring # <<>>)
    ~> (ring = <<>> \/ proc # "waiting" \/ task = "dead")

(* "The ebpf_ldms daemon reads messages off of the ring buffer map", and a *)
(* message "will be accepted by the daemon and relayed to LDMS": as long   *)
(* as the daemon is up, the ring does not stay filled.                     *)
Drained == (proc = "waiting" /\ ring # <<>>) ~> (ring = <<>> \/ proc # "waiting")
=============================================================================
