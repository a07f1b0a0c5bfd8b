----------------------------- MODULE RateLimit -----------------------------
(***************************************************************************)
(* The token-bucket limiter, src/internal/ratelimit/ratelimit.go, as the   *)
(* rate-limit interceptor uses it: Allow once per request, on any number   *)
(* of goroutines, and the sweeper that forgets idle buckets.               *)
(*                                                                         *)
(* Allow reads the clock BEFORE it takes the mutex, so requests may reach  *)
(* the bucket with times out of order; time runs in ticks and tokens come  *)
(* in whole numbers, Rate of them per tick.                                *)
(***************************************************************************)
EXTENDS Integers

CONSTANTS
    Keys,           \* bucket keys: "u:<subject>", "ip:<address>"
    Callers,        \* goroutines that call Allow
    Capacity,       \* Config.Capacity
    Rate,           \* Config.RefillPerSecond, in tokens per tick
    IdleTimeout,    \* Config.IdleTimeout, in ticks
    MaxDelay,       \* bound: ticks between time.Now() and the mutex
    Horizon,        \* bound: the clock stops here
    NoBucket, NoKey, NoTick

ASSUME RateAssumption ==
    /\ Capacity \in Nat \ {0} /\ Rate \in Nat \ {0}
    /\ MaxDelay \in Nat /\ Horizon \in Nat
    /\ IdleTimeout \in Nat \ {0}

ASSUME NullsAssumption == NoKey \notin Keys /\ NoBucket \notin [tokens : Int, updated : Nat]

\* A bucket is full again before the sweeper may forget it, even if the request
\* that updated it last and the one that makes it anew were both late.  The
\* server has 60 tokens, 60 per second, and 10 minutes.
ASSUME IdleAssumption == Rate * (IdleTimeout - 2 * MaxDelay) >= Capacity

VARIABLES
    clock,      \* time.Now()
    buckets,    \* Bucket.buckets: key -> entry, NoBucket if absent
    call,       \* goroutine -> its key and the time it read
    tick,       \* the tick waiting in the ticker's channel, NoTick if none
    sweeper,    \* the sweeper: "running", told to stop ("stop"), or "done"
    granted     \* history: how many requests Allow let through, by key

vars == <<clock, buckets, call, tick, sweeper, granted>>

Idle == [key |-> NoKey, now |-> 0]
Entries == [tokens : Int, updated : Nat]

TypeOK ==
    /\ clock \in 0..Horizon
    /\ buckets \in [Keys -> Entries \cup {NoBucket}]
    /\ \A k \in Keys : buckets[k] # NoBucket => buckets[k].tokens <= Capacity
    /\ call \in [Callers -> [key : Keys \cup {NoKey}, now : Nat]]
    /\ tick \in Nat \cup {NoTick}
    /\ sweeper \in {"running", "stop", "done"}
    /\ granted \in [Keys -> Nat]

Init ==
    /\ clock = 0
    /\ buckets = [k \in Keys |-> NoBucket]
    /\ call = [c \in Callers |-> Idle]
    /\ tick = NoTick
    /\ sweeper = "running"
    /\ granted = [k \in Keys |-> 0]

-----------------------------------------------------------------------------
(* Allow *)

\* Mutant: no cap on what accumulates.
Refilled_NoCap(e, now) ==
    IF e = NoBucket THEN [tokens |-> Capacity, updated |-> now]
    ELSE [tokens |-> e.tokens + (now - e.updated) * Rate, updated |-> now]

\* Mutant: updated never goes back, but a late request still takes tokens away.
Refilled_KeepsLatest(e, now) ==
    IF e = NoBucket THEN [tokens |-> Capacity, updated |-> now]
    ELSE LET tokens == e.tokens + (now - e.updated) * Rate
         IN  [tokens |-> IF tokens > Capacity THEN Capacity ELSE tokens,
              updated |-> IF now > e.updated THEN now ELSE e.updated]

\* The bucket a request finds: a full one for a new key, else the one there,
\* with what has accumulated since updated; less than before if now is earlier.
Refilled(e, now) ==
    IF e = NoBucket THEN [tokens |-> Capacity, updated |-> now]
    ELSE LET tokens == e.tokens + (now - e.updated) * Rate
         IN  [tokens |-> IF tokens > Capacity THEN Capacity ELSE tokens, updated |-> now]

\* Allow, up to b.mu.Lock().
ReadClock(c, k) ==
    /\ call[c] = Idle
    /\ call' = [call EXCEPT ![c] = [key |-> k, now |-> clock]]
    /\ UNCHANGED <<clock, buckets, tick, sweeper, granted>>

Admits(c) == Refilled(buckets[call[c].key], call[c].now).tokens >= 1

\* Allow, under the mutex.
Take(c) ==
    LET k == call[c].key
        e == Refilled(buckets[k], call[c].now)
        n == IF Admits(c) THEN 1 ELSE 0
    IN  /\ call[c] # Idle
        /\ buckets' = [buckets EXCEPT ![k] = [e EXCEPT !.tokens = @ - n]]
        /\ granted' = [granted EXCEPT ![k] = @ + n]
        /\ call' = [call EXCEPT ![c] = Idle]
        /\ UNCHANGED <<clock, tick, sweeper>>

-----------------------------------------------------------------------------
(* Time and the sweeper *)

\* The clock advances, unless a request would be late by more than MaxDelay.
\* The ticker drops a tick that the sweeper is too slow to receive.
Advance ==
    /\ clock < Horizon
    /\ \A c \in Callers : call[c] # Idle => clock - call[c].now < MaxDelay
    /\ clock' = clock + 1
    /\ tick' = IF sweeper # "done" /\ tick = NoTick /\ clock' % IdleTimeout = 0
               THEN clock' ELSE tick
    /\ UNCHANGED <<buckets, call, sweeper, granted>>

\* Mutant: the sweeper forgets every bucket.
Swept_All(e, now) == TRUE

Swept(e, now) == now - e.updated > IdleTimeout

\* One round of sweep.
Sweep ==
    /\ sweeper # "done"
    /\ tick # NoTick
    /\ buckets' = [k \in Keys |-> IF buckets[k] # NoBucket /\ Swept(buckets[k], tick)
                                  THEN NoBucket ELSE buckets[k]]
    /\ tick' = NoTick
    /\ UNCHANGED <<clock, call, sweeper, granted>>

\* Close; a second call would panic, no code makes one.
Close ==
    /\ sweeper = "running"
    /\ sweeper' = "stop"
    /\ UNCHANGED <<clock, buckets, call, tick, granted>>

\* sweep returns and stops its ticker.
SweepEnds ==
    /\ sweeper = "stop"
    /\ sweeper' = "done"
    /\ tick' = NoTick
    /\ UNCHANGED <<clock, buckets, call, granted>>

-----------------------------------------------------------------------------
Next ==
    \/ \E c \in Callers, k \in Keys : ReadClock(c, k)
    \/ \E c \in Callers : call[c] # Idle /\ Take(c)
    \/ Advance
    \/ Sweep
    \/ Close
    \/ SweepEnds

Spec == Init /\ [][Next]_vars
=============================================================================
