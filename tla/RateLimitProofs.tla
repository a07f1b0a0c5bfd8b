-------------------------- MODULE RateLimitProofs --------------------------
(***************************************************************************)
(* Proofs about RateLimit, with the history variables of MCRateLimit, for  *)
(* any keys, callers, capacity, rate, delay and horizon: typing, the bound *)
(* on what a key gets through, and service after a quiet tick.             *)
(***************************************************************************)
EXTENDS MCRateLimit, TLAPS

Present(k) == buckets[k] # NoBucket

HistoryOK == start \in Nat \cup {NotYet} /\ before \in [Keys -> Nat] /\ latest \in [Keys -> Nat]

\* A request is late by MaxDelay at most.
CallsRecent ==
    \A c \in Callers : call[c] # Idle =>
        call[c].key \in Keys /\ clock - MaxDelay <= call[c].now /\ call[c].now <= clock

TickPast == tick # NoTick => tick <= clock

\* What a bucket lacks, the late requests took: it has it back at the latest time
\* a request came with.
NeverOverdrawn(k) ==
    /\ latest[k] <= clock
    /\ Present(k) =>
          /\ buckets[k].updated <= latest[k] /\ latest[k] <= buckets[k].updated + MaxDelay
          /\ buckets[k].tokens >= Rate * (buckets[k].updated - latest[k])

\* What got through since the observer started, and what the bucket still holds,
\* come from one bucketful and the refill; a bucket that was swept had refilled.
Accounted(k) ==
    LET n == granted[k] - before[k]
    IN  /\ n <= Capacity + Rate * (clock - start + MaxDelay)
        /\ Present(k) =>
              n = 0 \/ n + buckets[k].tokens <= Capacity + Rate * (buckets[k].updated - start + MaxDelay)
        /\ ~Present(k) => n <= Rate * (clock - start)

Counted == start # NotYet => start <= clock /\ \A k \in Keys : Accounted(k)

\* The inductive invariant.
Steady == TypeOK /\ HistoryOK /\ CallsRecent /\ TickPast
IInv == Steady /\ (\A k \in Keys : NeverOverdrawn(k)) /\ Counted

-----------------------------------------------------------------------------
(* Arithmetic *)

\* Rate distributes, and preserves order.
LEMMA Times ==
    ASSUME NEW a \in Int, NEW b \in Int
    PROVE  /\ Rate * a \in Int
           /\ Rate * (a - b) = Rate * a - Rate * b
           /\ Rate * (a + b) = Rate * a + Rate * b
           /\ (a - b) * Rate = Rate * a - Rate * b
           /\ a <= b => Rate * a <= Rate * b
           /\ a < b => Rate * a + 1 <= Rate * b
<1>0. Rate \in Int /\ Rate >= 1
  BY RateAssumption
<1>1. Rate * a \in Int /\ Rate * (a - b) = Rate * a - Rate * b /\ Rate * (a + b) = Rate * a + Rate * b
      /\ (a - b) * Rate = Rate * a - Rate * b
  BY <1>0
<1>2. ASSUME NEW d \in Nat PROVE Rate * d >= d
  BY <1>0, <1>2
<1>3. a <= b => Rate * (b - a) >= b - a
  BY <1>2
<1>4. Rate * (b - a) = Rate * b - Rate * a /\ Rate * b \in Int
  BY <1>0
<1> QED BY <1>1, <1>3, <1>4

\* The refill from u to v, in terms of Rate * u and Rate * v.
LEMMA Refill ==
    ASSUME NEW a \in Int, NEW b \in Int, NEW d \in Int
    PROVE  Rate * (a - b + d) = Rate * a - Rate * b + Rate * d
<1>1. a - b \in Int
  OBVIOUS
<1> QED BY <1>1, Times

-----------------------------------------------------------------------------
(* Allow *)

\* A refilled bucket holds at most what the old one and the refill give.
LEMMA RefilledIs ==
    ASSUME NEW e \in Entries \cup {NoBucket}, NEW now \in Nat
    PROVE  LET r == Refilled(e, now)
           IN  /\ r \in Entries /\ r.updated = now /\ r.tokens <= Capacity
               /\ e = NoBucket => r.tokens = Capacity
               /\ e # NoBucket =>
                     /\ r.tokens <= e.tokens + Rate * now - Rate * e.updated
                     /\ r.tokens = Capacity \/ r.tokens = e.tokens + Rate * now - Rate * e.updated
<1>1. Capacity \in Int
  BY RateAssumption
<1>2. CASE e = NoBucket
  BY <1>1, <1>2 DEF Refilled, Entries
<1>3. CASE e # NoBucket
  <2>1. e.tokens \in Int /\ e.updated \in Int /\ now \in Int
    BY <1>3 DEF Entries
  <2>2. (now - e.updated) * Rate = Rate * now - Rate * e.updated
    BY <2>1, Times
  <2>3. Rate * now \in Int /\ Rate * e.updated \in Int
    BY <2>1, Times
  <2> DEFINE t == e.tokens + (now - e.updated) * Rate
  <2>4. t = e.tokens + Rate * now - Rate * e.updated /\ t \in Int
    BY <2>1, <2>2, <2>3
  <2>5. Refilled(e, now) = [tokens |-> IF t > Capacity THEN Capacity ELSE t, updated |-> now]
    BY <1>3 DEF Refilled
  <2> HIDE DEF t
  <2> QED BY <1>1, <1>3, <2>4, <2>5 DEF Entries
<1> QED BY <1>2, <1>3

\* What Allow does under the mutex, and what the observer notes.
LEMMA TakeIs ==
    ASSUME Steady, NEW c \in Callers, call[c] # Idle, Take(c), Observe
    PROVE  LET k   == call[c].key
               now == call[c].now
               r   == Refilled(buckets[k], now)
               n   == IF r.tokens >= 1 THEN 1 ELSE 0
           IN  /\ k \in Keys /\ now \in Nat /\ buckets[k] \in Entries \cup {NoBucket}
               /\ r \in Entries
               /\ buckets'[k] \in Entries /\ buckets'[k].tokens = r.tokens - n /\ buckets'[k].updated = now
               /\ granted'[k] = granted[k] + n
               /\ latest'[k] = (IF now > latest[k] THEN now ELSE latest[k])
               /\ \A x \in Keys : x # k =>
                     buckets'[x] = buckets[x] /\ granted'[x] = granted[x] /\ latest'[x] = latest[x]
               /\ Answered = {c}
<1> DEFINE k == call[c].key
           now == call[c].now
           r == Refilled(buckets[k], now)
           n == IF r.tokens >= 1 THEN 1 ELSE 0
<1>1. k \in Keys /\ now \in Nat /\ buckets[k] \in Entries \cup {NoBucket} /\ now \in 0..Horizon
  BY RateAssumption DEF Steady, TypeOK, CallsRecent
<1>2. r \in Entries /\ r.updated = now
  BY <1>1, RefilledIs
<1>3. buckets' = [buckets EXCEPT ![k] = [r EXCEPT !.tokens = r.tokens - n]]
  BY DEF Take, Admits
<1>4. granted' = [granted EXCEPT ![k] = granted[k] + n] /\ call' = [call EXCEPT ![c] = Idle]
  BY DEF Take, Admits, Steady, TypeOK
<1> HIDE DEF r
<1>5. /\ buckets'[k] \in Entries /\ buckets'[k].tokens = r.tokens - n /\ buckets'[k].updated = now
  BY <1>1, <1>2, <1>3 DEF Entries, Steady, TypeOK
<1>6. Answered = {c}
  BY <1>4 DEF Answered, Steady, TypeOK
<1>7. (CHOOSE m \in 0..Horizon : \E x \in Answered : call[x].now = m) = now
  BY <1>1, <1>6
<1>8. /\ latest'[k] = (IF now > latest[k] THEN now ELSE latest[k])
      /\ \A x \in Keys : x # k => latest'[x] = latest[x]
  BY <1>1, <1>6, <1>7 DEF Observe
<1>9. granted'[k] = granted[k] + n
  BY <1>1, <1>4 DEF Steady, TypeOK
<1>10. \A x \in Keys : x # k => buckets'[x] = buckets[x] /\ granted'[x] = granted[x]
  BY <1>3, <1>4 DEF Steady, TypeOK
<1> QED BY <1>1, <1>2, <1>5, <1>6, <1>8, <1>9, <1>10 DEF r

\* The bucket covers what it lacks, so a request after the latest one is served.
LEMMA TakeCovers ==
    ASSUME Steady, NEW c \in Callers, call[c] # Idle, Take(c), Observe,
           NEW k, k = call[c].key, NeverOverdrawn(k)
    PROVE  /\ call[c].now > latest[k] => granted'[k] > granted[k]
           /\ NeverOverdrawn(k)'
<1> DEFINE now == call[c].now
           L == latest[k]
           e == buckets[k]
           r == Refilled(e, now).tokens
           n == IF r >= 1 THEN 1 ELSE 0
<1>1. /\ k \in Keys /\ now \in Nat /\ e \in Entries \cup {NoBucket}
      /\ buckets'[k] \in Entries /\ buckets'[k].tokens = r - n /\ buckets'[k].updated = now
      /\ granted'[k] = granted[k] + n /\ r \in Int
      /\ latest'[k] = (IF now > L THEN now ELSE L)
  BY TakeIs DEF Entries
<1>2. /\ L \in Nat /\ L <= clock /\ clock \in Int /\ clock' = clock /\ granted[k] \in Int
      /\ clock - MaxDelay <= now /\ now <= clock /\ MaxDelay \in Int /\ Capacity \in Int /\ Capacity >= 1
  BY <1>1, RateAssumption DEF Steady, TypeOK, HistoryOK, CallsRecent, NeverOverdrawn, Take
<1>3. r <= Capacity /\ (r = Capacity \/ (e # NoBucket /\ r = e.tokens + Rate * now - Rate * e.updated))
  BY <1>1, RefilledIs
<1>a. now \in Int /\ L \in Int
  BY <1>1, <1>2
<1> HIDE DEF now, L
<1>4. Rate * now \in Int /\ Rate * L \in Int
  BY <1>a, Times
<1>5. r = Capacity \/ r >= Rate * now - Rate * L
  <2> SUFFICES ASSUME e # NoBucket, r = e.tokens + Rate * now - Rate * e.updated
               PROVE  r >= Rate * now - Rate * L
    BY <1>3
  <2>1. e.tokens >= Rate * (e.updated - L) /\ e.tokens \in Int /\ e.updated \in Int
    BY <1>1 DEF NeverOverdrawn, Present, Entries, L
  <2>2. Rate * (e.updated - L) = Rate * e.updated - Rate * L /\ Rate * e.updated \in Int
    BY <1>a, <2>1, Times
  <2> QED BY <1>4, <2>1, <2>2
<1> HIDE DEF r
<1>6. now > L => r >= 1
  <2>1. now > L => Rate * now >= Rate * L + 1
    BY <1>a, Times
  <2> QED BY <1>1, <1>2, <1>4, <1>5, <2>1
<1>7. now > L => granted'[k] > granted[k]
  BY <1>1, <1>2, <1>6
<1>8. latest'[k] \in Int /\ latest'[k] <= clock /\ now <= latest'[k] /\ latest'[k] <= now + MaxDelay
  BY <1>1, <1>2
<1>9. buckets'[k].tokens >= Rate * (now - latest'[k])
  <2>1. Rate * (now - latest'[k]) = Rate * now - Rate * latest'[k]
    BY <1>a, <1>8, Times
  <2>2. Rate * now <= Rate * latest'[k] /\ Rate * latest'[k] \in Int
    BY <1>a, <1>8, Times
  <2>3. CASE r >= 1
    BY <1>1, <1>4, <2>1, <2>2, <2>3
  <2>4. CASE ~(r >= 1)
    <3>1. latest'[k] = L
      BY <1>1, <1>6, <2>4
    <3> QED BY <1>1, <1>2, <1>4, <1>5, <2>1, <2>4, <3>1
  <2> QED BY <2>3, <2>4
<1>10. buckets'[k] # NoBucket
  BY <1>1, NullsAssumption DEF Entries
<1> QED BY <1>1, <1>2, <1>7, <1>8, <1>9 DEF NeverOverdrawn, Present, now, L

\* What a request adds to what got through, it takes out of the bucket.
LEMMA TakeAccounted ==
    ASSUME Steady, NEW c \in Callers, call[c] # Idle, Take(c), Observe,
           start \in Int, start <= clock, NEW k, k = call[c].key, Accounted(k)
    PROVE  Accounted(k)'
<1> DEFINE now == call[c].now
           e == buckets[k]
           r == Refilled(e, now).tokens
           n == IF r >= 1 THEN 1 ELSE 0
           g == granted[k] - before[k]
           Limit(t) == Capacity + Rate * (t - start + MaxDelay)
<1>1. /\ k \in Keys /\ now \in Nat /\ e \in Entries \cup {NoBucket}
      /\ buckets'[k] \in Entries /\ buckets'[k].tokens = r - n /\ buckets'[k].updated = now
      /\ granted'[k] = granted[k] + n /\ r \in Int
  BY TakeIs DEF Entries
<1>2. /\ clock \in Int /\ clock' = clock /\ start' = start /\ before' = before /\ g \in Int
      /\ clock - MaxDelay <= now /\ now <= clock /\ MaxDelay \in Int /\ Capacity \in Int /\ Capacity >= 1
      /\ granted[k] \in Int /\ before[k] \in Int
  BY <1>1, RateAssumption DEF Steady, TypeOK, HistoryOK, CallsRecent, Take, Observe
<1>3. r <= Capacity /\ (e # NoBucket => r <= e.tokens + Rate * now - Rate * e.updated)
  BY <1>1, RefilledIs
<1>a. now \in Int /\ start \in Int
  BY <1>1
<1> HIDE DEF now
<1>4. ASSUME NEW t \in Int
      PROVE  Limit(t) = Capacity + Rate * t - Rate * start + Rate * MaxDelay /\ Rate * t \in Int
  <2>1. Rate * (t - start + MaxDelay) = Rate * t - Rate * start + Rate * MaxDelay
    BY <1>2, <1>a, Refill
  <2>2. Rate * t \in Int /\ Rate * start \in Int /\ Rate * MaxDelay \in Int
    BY <1>2, <1>a, Times
  <2> QED BY <1>2, <2>1, <2>2
<1>5. Rate * start \in Int /\ Rate * MaxDelay \in Int
  BY <1>2, Times
<1>6. Limit(now) >= Capacity /\ Limit(now) <= Limit(clock)
  <2>1. start <= now + MaxDelay
    BY <1>1, <1>2
  <2>2. Rate * start <= Rate * (now + MaxDelay) /\ Rate * (now + MaxDelay) = Rate * now + Rate * MaxDelay
    <3>1. now + MaxDelay \in Int
      BY <1>2, <1>a
    <3>2. Rate * start <= Rate * (now + MaxDelay)
      BY <1>a, <2>1, <3>1, Times
    <3> QED BY <1>2, <1>a, <3>2, Times
  <2>3. Rate * now <= Rate * clock
    BY <1>2, <1>a, Times
  <2> QED BY <1>1, <1>2, <1>4, <1>5, <2>2, <2>3
<1>7. g + r <= Limit(now)
  <2>1. CASE e = NoBucket
    <3>1. g <= Rate * (clock - start)
      BY <2>1 DEF Accounted, Present
    <3>2. Rate * (clock - start) = Rate * clock - Rate * start /\ Rate * clock \in Int
      BY <1>2, Times
    <3>3. Rate * clock <= Rate * (now + MaxDelay) /\ Rate * (now + MaxDelay) = Rate * now + Rate * MaxDelay
      <4>1. now + MaxDelay \in Int /\ clock <= now + MaxDelay
        BY <1>2, <1>a
      <4>2. Rate * clock <= Rate * (now + MaxDelay)
        BY <1>2, <4>1, Times
      <4> QED BY <1>2, <1>a, <4>2, Times
    <3>4. Limit(now) = Capacity + Rate * now - Rate * start + Rate * MaxDelay /\ Rate * now \in Int
      BY <1>1, <1>4
    <3> QED BY <1>1, <1>2, <1>3, <1>5, <3>1, <3>2, <3>3, <3>4
  <2>2. CASE e # NoBucket /\ g = 0
    BY <1>1, <1>2, <1>3, <1>4, <1>5, <1>6, <2>2
  <2>3. CASE e # NoBucket /\ g # 0
    <3>1. g + e.tokens <= Limit(e.updated)
      BY <2>3 DEF Accounted, Present
    <3>2. e.tokens \in Int /\ e.updated \in Int
      BY <1>1, <2>3 DEF Entries
    <3>3. Limit(e.updated) = Capacity + Rate * e.updated - Rate * start + Rate * MaxDelay
          /\ Rate * e.updated \in Int
      BY <1>4, <3>2
    <3>4. Limit(now) = Capacity + Rate * now - Rate * start + Rate * MaxDelay /\ Rate * now \in Int
      BY <1>1, <1>4
    <3> QED BY <1>1, <1>2, <1>3, <1>5, <2>3, <3>1, <3>2, <3>3, <3>4
  <2> QED BY <2>1, <2>2, <2>3
<1>8. Limit(now) \in Int /\ Limit(clock) \in Int
  <2>1. ASSUME NEW t \in Int PROVE Limit(t) \in Int
    <3>1. Limit(t) = Capacity + Rate * t - Rate * start + Rate * MaxDelay /\ Rate * t \in Int
      BY <1>4
    <3> HIDE DEF Limit
    <3> QED BY <1>2, <1>5, <3>1
  <2> QED BY <1>2, <1>a, <2>1
<1>9. g <= Limit(clock)
  BY DEF Accounted
<1> HIDE DEF r, Limit
<1>10. granted'[k] - before'[k] + buckets'[k].tokens <= Limit(now)
  BY <1>1, <1>2, <1>7, <1>8
<1>11. granted'[k] - before'[k] <= Limit(clock)
  BY <1>1, <1>2, <1>6, <1>7, <1>8, <1>9
<1>12. buckets'[k] # NoBucket
  BY <1>1, NullsAssumption DEF Entries
<1> QED BY <1>1, <1>2, <1>10, <1>11, <1>12 DEF Accounted, Present, Limit, now

-----------------------------------------------------------------------------
(* The other steps *)

\* Nobody called yet, nobody counts.
LEMMA InitIInv == MCInit => IInv
<1> SUFFICES ASSUME MCInit PROVE IInv
  OBVIOUS
<1>1. TypeOK
  BY RateAssumption, NullsAssumption DEF MCInit, Init, TypeOK, Idle
<1>2. HistoryOK /\ CallsRecent /\ TickPast
  BY DEF MCInit, Init, HistoryOK, CallsRecent, TickPast
<1>3. (\A k \in Keys : NeverOverdrawn(k)) /\ Counted
  BY DEF MCInit, Init, NeverOverdrawn, Present, Counted
<1> QED BY <1>1, <1>2, <1>3 DEF IInv, Steady

\* Typing, and requests on time.
LEMMA NextSteady ==
    ASSUME Steady, [MCNext]_MCvars
    PROVE  Steady'
<1>0. /\ clock \in 0..Horizon /\ clock \in Int /\ buckets \in [Keys -> Entries \cup {NoBucket}]
      /\ \A k \in Keys : buckets[k] # NoBucket => buckets[k].tokens <= Capacity
      /\ call \in [Callers -> [key : Keys \cup {NoKey}, now : Nat]]
      /\ tick \in Nat \cup {NoTick} /\ sweeper \in {"running", "stop", "done"}
      /\ granted \in [Keys -> Nat]
      /\ start \in Nat \cup {NotYet} /\ before \in [Keys -> Nat] /\ latest \in [Keys -> Nat]
      /\ CallsRecent /\ TickPast
  BY RateAssumption DEF Steady, TypeOK, HistoryOK
<1>1. CASE StartCounting
  BY <1>0, <1>1, RateAssumption
     DEF StartCounting, vars, Steady, TypeOK, HistoryOK, CallsRecent, TickPast
<1>2. ASSUME Observe, Answered = {} PROVE HistoryOK'
  BY <1>0, <1>2 DEF Observe, HistoryOK
<1>3. ASSUME Observe, NEW c \in Callers, NEW k \in Keys, ReadClock(c, k) PROVE Steady'
  <2>1. /\ call' = [call EXCEPT ![c] = [key |-> k, now |-> clock]] /\ call[c] = Idle
        /\ UNCHANGED <<clock, buckets, tick, sweeper, granted>>
    BY <1>3 DEF ReadClock
  <2>2. Answered = {}
    BY <1>0, <2>1, NullsAssumption DEF Answered, Idle
  <2>3. CallsRecent'
    BY <1>0, <2>1, RateAssumption DEF CallsRecent
  <2>4. TypeOK' /\ TickPast'
    BY <1>0, <2>1, RateAssumption DEF TypeOK, TickPast
  <2> QED BY <1>2, <1>3, <2>2, <2>3, <2>4 DEF Steady
<1>4. ASSUME Observe, NEW c \in Callers, call[c] # Idle, Take(c) PROVE Steady'
  <2> DEFINE k == call[c].key
             r == Refilled(buckets[k], call[c].now)
             n == IF r.tokens >= 1 THEN 1 ELSE 0
  <2>1. /\ k \in Keys /\ call[c].now \in Nat /\ r \in Entries /\ buckets[k] \in Entries \cup {NoBucket}
        /\ buckets'[k] \in Entries /\ buckets'[k].tokens = r.tokens - n
        /\ granted'[k] = granted[k] + n
        /\ latest'[k] = (IF call[c].now > latest[k] THEN call[c].now ELSE latest[k])
        /\ \A x \in Keys : x # k =>
              buckets'[x] = buckets[x] /\ granted'[x] = granted[x] /\ latest'[x] = latest[x]
    BY <1>4, TakeIs
  <2>2. r.tokens <= Capacity /\ r.tokens \in Int /\ Capacity \in Int
    <3>1. r.tokens <= Capacity
      BY <2>1, RefilledIs
    <3> QED BY <2>1, <3>1, RateAssumption DEF Entries
  <2> HIDE DEF r
  <2>3. /\ call' = [call EXCEPT ![c] = Idle] /\ UNCHANGED <<clock, tick, sweeper, start, before>>
        /\ buckets' = [x \in Keys |-> buckets'[x]] /\ granted' = [x \in Keys |-> granted'[x]]
        /\ latest' = [x \in Keys |-> latest'[x]]
    <3>1. PICK b : buckets' = [buckets EXCEPT ![k] = b]
      BY <1>4 DEF Take
    <3>2. PICK g : granted' = [granted EXCEPT ![k] = g]
      BY <1>4 DEF Take
    <3>3. latest' = [x \in Keys |-> latest'[x]]
      BY <1>4 DEF Observe
    <3>4. call' = [call EXCEPT ![c] = Idle] /\ UNCHANGED <<clock, tick, sweeper, start, before>>
      BY <1>4 DEF Take, Observe
    <3> QED BY <1>0, <3>1, <3>2, <3>3, <3>4
  <2>4. call' \in [Callers -> [key : Keys \cup {NoKey}, now : Nat]] /\ CallsRecent'
    BY <1>0, <2>3, RateAssumption DEF Idle, CallsRecent
  <2>5. \A x \in Keys : buckets'[x] \in Entries \cup {NoBucket} /\ granted'[x] \in Nat /\ latest'[x] \in Nat
    BY <1>0, <2>1
  <2>6. \A x \in Keys : buckets'[x] # NoBucket => buckets'[x].tokens <= Capacity
    BY <1>0, <2>1, <2>2
  <2>7. buckets' \in [Keys -> Entries \cup {NoBucket}] /\ granted' \in [Keys -> Nat] /\ latest' \in [Keys -> Nat]
    BY <2>3, <2>5
  <2> QED BY <1>0, <2>3, <2>4, <2>6, <2>7 DEF Steady, TypeOK, HistoryOK, TickPast
<1>5. ASSUME Observe, Advance PROVE Steady'
  <2>1. Answered = {}
    BY <1>5 DEF Advance, Answered
  <2>2. /\ clock' = clock + 1 /\ clock < Horizon /\ UNCHANGED <<buckets, call, sweeper, granted>>
        /\ tick' \in {clock', tick} /\ \A c \in Callers : call[c] # Idle => clock - call[c].now < MaxDelay
    BY <1>5 DEF Advance
  <2>3. TypeOK'
    BY <1>0, <2>2, RateAssumption DEF TypeOK
  <2>4. CallsRecent'
    BY <1>0, <2>2, RateAssumption DEF CallsRecent
  <2>5. TickPast'
    BY <1>0, <2>2 DEF TickPast
  <2> QED BY <1>2, <1>5, <2>1, <2>3, <2>4, <2>5 DEF Steady
<1>6. ASSUME Observe, Sweep \/ Close \/ SweepEnds PROVE Steady'
  <2>1. /\ UNCHANGED <<clock, call, granted>> /\ tick' \in {tick, NoTick}
        /\ sweeper' \in {"running", "stop", "done"}
        /\ buckets' \in [Keys -> Entries \cup {NoBucket}]
        /\ \A k \in Keys : buckets'[k] \in {buckets[k], NoBucket}
    BY <1>0, <1>6 DEF Sweep, Close, SweepEnds
  <2>2. Answered = {}
    BY <2>1 DEF Answered
  <2>3. TypeOK'
    BY <1>0, <2>1 DEF TypeOK
  <2>4. CallsRecent' /\ TickPast'
    BY <1>0, <2>1 DEF CallsRecent, TickPast
  <2> QED BY <1>2, <1>6, <2>2, <2>3, <2>4 DEF Steady
<1>7. CASE UNCHANGED MCvars
  BY <1>7 DEF MCvars, vars, Steady, TypeOK, HistoryOK, CallsRecent, TickPast
<1> QED BY <1>1, <1>3, <1>4, <1>5, <1>6, <1>7 DEF MCNext, Next

\* A step that answers nobody leaves a bucket, or forgets it.
LEMMA Unanswered ==
    ASSUME IInv, Next, Observe, \A c \in Callers : ~(call[c] # Idle /\ Take(c))
    PROVE  /\ UNCHANGED <<granted, start, before>> /\ clock' \in Int /\ clock <= clock'
           /\ \A k \in Keys : latest'[k] = latest[k]
           /\ \A k \in Keys :
                 \/ buckets'[k] = buckets[k]
                 \/ /\ buckets'[k] = NoBucket /\ buckets[k] # NoBucket
                    /\ clock - buckets[k].updated > IdleTimeout
<1>0. /\ clock \in Int /\ call \in [Callers -> [key : Keys \cup {NoKey}, now : Nat]] /\ IdleTimeout \in Int
      /\ \A k \in Keys : buckets[k] # NoBucket => buckets[k].updated \in Int
  BY RateAssumption DEF IInv, Steady, TypeOK, Entries
<1>1. UNCHANGED <<granted, start, before>> /\ clock' \in Int /\ clock <= clock'
  BY <1>0 DEF Next, Observe, ReadClock, Advance, Sweep, Close, SweepEnds
<1>2. Answered = {}
  BY <1>0, NullsAssumption DEF Next, Answered, ReadClock, Advance, Sweep, Close, SweepEnds, Idle
<1>3. \A k \in Keys : latest'[k] = latest[k]
  BY <1>2 DEF Observe
<1>4. CASE Sweep
  <2> SUFFICES ASSUME NEW k \in Keys, buckets'[k] # buckets[k]
               PROVE  /\ buckets'[k] = NoBucket /\ buckets[k] # NoBucket
                      /\ clock - buckets[k].updated > IdleTimeout
    BY <1>1, <1>3
  <2>1. buckets'[k] = NoBucket /\ buckets[k] # NoBucket /\ tick - buckets[k].updated > IdleTimeout
    BY <1>4 DEF Sweep, Swept
  <2>2. tick \in Int /\ tick <= clock
    BY <1>4 DEF Sweep, IInv, Steady, TypeOK, TickPast
  <2> QED BY <1>0, <2>1, <2>2
<1>5. CASE ~Sweep
  BY <1>1, <1>3, <1>5 DEF Next, ReadClock, Advance, Close, SweepEnds
<1> QED BY <1>4, <1>5

\* A bucket idle for longer than IdleTimeout would be full: forgetting it gives
\* nothing away.
LEMMA IdleRefills ==
    ASSUME IInv, NEW k \in Keys, start \in Int, start <= clock, Accounted(k), buckets[k] # NoBucket,
           clock - buckets[k].updated > IdleTimeout
    PROVE  granted[k] - before[k] <= Rate * (clock - start)
<1> DEFINE e == buckets[k]
           u == e.updated
           L == latest[k]
           n == granted[k] - before[k]
<1>1. /\ u \in Int /\ L \in Int /\ clock \in Int /\ n \in Int /\ MaxDelay \in Int /\ IdleTimeout \in Int
      /\ e.tokens \in Int /\ Capacity \in Int
  BY RateAssumption DEF IInv, Steady, TypeOK, HistoryOK, Entries
<1>2. L <= u + MaxDelay /\ e.tokens >= Rate * (u - L)
  BY DEF IInv, NeverOverdrawn, Present
<1>3. n = 0 \/ n + e.tokens <= Capacity + Rate * (u - start + MaxDelay)
  BY DEF Accounted, Present
<1> HIDE DEF e, u, L, n
<1>4. /\ Rate * u \in Int /\ Rate * L \in Int /\ Rate * clock \in Int /\ Rate * start \in Int
      /\ Rate * MaxDelay \in Int /\ Rate * IdleTimeout \in Int
  BY <1>1, Times
<1>5. Rate * (u - L) = Rate * u - Rate * L
  BY <1>1, Times
<1>6. Rate * (u - start + MaxDelay) = Rate * u - Rate * start + Rate * MaxDelay
  BY <1>1, Refill
<1>7. Rate * (clock - start) = Rate * clock - Rate * start /\ Rate * start <= Rate * clock
  BY <1>1, Times
<1>8. Rate * L <= Rate * u + Rate * MaxDelay
  <2>1. u + MaxDelay \in Int
    BY <1>1
  <2>2. Rate * L <= Rate * (u + MaxDelay)
    BY <1>1, <1>2, <2>1, Times
  <2> QED BY <1>1, <2>2, Times
<1>9. Rate * IdleTimeout - Rate * MaxDelay - Rate * MaxDelay >= Capacity
  <2>1. 2 * MaxDelay \in Int /\ 2 * MaxDelay = MaxDelay + MaxDelay
    BY <1>1
  <2>2. Rate * (IdleTimeout - 2 * MaxDelay) = Rate * IdleTimeout - Rate * (2 * MaxDelay)
    BY <1>1, <2>1, Times
  <2>3. Rate * (MaxDelay + MaxDelay) = Rate * MaxDelay + Rate * MaxDelay
    BY <1>1, Times
  <2> QED BY <1>1, <1>4, <2>1, <2>2, <2>3, IdleAssumption
<1>10. Rate * u + Rate * IdleTimeout <= Rate * clock
  <2>1. u + IdleTimeout \in Int /\ u + IdleTimeout <= clock
    BY <1>1 DEF u, e
  <2>2. Rate * (u + IdleTimeout) <= Rate * clock
    BY <1>1, <2>1, Times
  <2> QED BY <1>1, <2>2, Times
<1>11. CASE n = 0
  BY <1>4, <1>7, <1>11 DEF n
<1>12. CASE n + e.tokens <= Capacity + Rate * (u - start + MaxDelay)
  <2>1. n <= Rate * clock - Rate * start
    BY <1>1, <1>2, <1>4, <1>5, <1>6, <1>8, <1>9, <1>10, <1>12
  <2> QED BY <1>7, <2>1 DEF n
<1> QED BY <1>3, <1>11, <1>12

\* As time passes the bounds only grow.
LEMMA TimePasses ==
    ASSUME NEW a \in Int, NEW b \in Int, NEW s \in Int, a <= b
    PROVE  /\ Rate * (a - s) <= Rate * (b - s) /\ Rate * (a - s + MaxDelay) <= Rate * (b - s + MaxDelay)
           /\ Rate * (b - s) <= Rate * (b - s + MaxDelay)
           /\ Rate * (a - s) \in Int /\ Rate * (b - s) \in Int
           /\ Rate * (a - s + MaxDelay) \in Int /\ Rate * (b - s + MaxDelay) \in Int
<1>1. /\ a - s \in Int /\ b - s \in Int /\ a - s + MaxDelay \in Int /\ b - s + MaxDelay \in Int
      /\ a - s <= b - s /\ a - s + MaxDelay <= b - s + MaxDelay /\ b - s <= b - s + MaxDelay
  BY RateAssumption
<1> QED BY <1>1, Times

\* Every step keeps every bucket covered and every count accounted for.
LEMMA NextIInv ==
    ASSUME IInv, [MCNext]_MCvars
    PROVE  IInv'
<1>0. Steady /\ Steady' /\ clock \in Int /\ Capacity \in Int
  BY NextSteady, RateAssumption DEF IInv, Steady, TypeOK
<1>1. CASE StartCounting
  <2>1. UNCHANGED <<clock, buckets, granted, latest>> /\ start' = clock /\ before' = granted
    BY <1>1 DEF StartCounting, vars
  <2>2. \A k \in Keys : NeverOverdrawn(k)'
    BY <2>1 DEF IInv, NeverOverdrawn, Present
  <2>3. ASSUME NEW k \in Keys PROVE Accounted(k)'
    <3>1. granted'[k] - before'[k] = 0
      BY <1>0, <2>1 DEF Steady, TypeOK
    <3>2. Rate * (clock - clock) = 0 /\ Rate * (clock - clock + MaxDelay) >= 0
          /\ Rate * (clock - clock + MaxDelay) \in Int
      BY <1>0, RateAssumption
    <3> QED BY <1>0, <2>1, <3>1, <3>2, RateAssumption DEF Accounted
  <2> QED BY <1>0, <2>1, <2>2, <2>3 DEF IInv, Counted
<1>2. ASSUME Observe, NEW c \in Callers, call[c] # Idle, Take(c) PROVE IInv'
  <2> DEFINE k == call[c].key
  <2>1. k \in Keys /\ \A x \in Keys : x # k =>
            buckets'[x] = buckets[x] /\ granted'[x] = granted[x] /\ latest'[x] = latest[x]
    BY <1>0, <1>2, TakeIs
  <2>2. UNCHANGED <<clock, start, before>>
    BY <1>2 DEF Take, Observe
  <2>3. ASSUME NEW x \in Keys PROVE NeverOverdrawn(x)'
    <3>1. NeverOverdrawn(x)
      BY DEF IInv
    <3>2. CASE x = k
      BY <1>0, <1>2, <3>1, <3>2, TakeCovers
    <3>3. CASE x # k
      BY <2>1, <2>2, <3>1, <3>3 DEF NeverOverdrawn, Present
    <3> QED BY <3>2, <3>3
  <2>4. ASSUME NEW x \in Keys, start # NotYet PROVE Accounted(x)'
    <3>1. Accounted(x) /\ start \in Int /\ start <= clock
      BY <1>0, <2>4 DEF IInv, Counted, Steady, HistoryOK
    <3>2. CASE x = k
      BY <1>0, <1>2, <3>1, <3>2, TakeAccounted
    <3>3. CASE x # k
      BY <2>1, <2>2, <3>1, <3>3 DEF Accounted, Present
    <3> QED BY <3>2, <3>3
  <2> QED BY <1>0, <2>2, <2>3, <2>4 DEF IInv, Counted
<1>3. ASSUME Observe, Next, \A c \in Callers : ~(call[c] # Idle /\ Take(c)) PROVE IInv'
  <2>1. /\ UNCHANGED <<granted, start, before>> /\ clock' \in Int /\ clock <= clock'
        /\ \A k \in Keys : latest'[k] = latest[k]
        /\ \A k \in Keys :
              \/ buckets'[k] = buckets[k]
              \/ /\ buckets'[k] = NoBucket /\ buckets[k] # NoBucket
                 /\ clock - buckets[k].updated > IdleTimeout
    BY <1>3, Unanswered
  <2>2. ASSUME NEW k \in Keys PROVE NeverOverdrawn(k)'
    <3>1. NeverOverdrawn(k) /\ latest[k] \in Int
      BY <1>0 DEF IInv, Steady, HistoryOK
    <3> QED BY <1>0, <2>1, <3>1 DEF NeverOverdrawn, Present
  <2>3. ASSUME NEW k \in Keys, start # NotYet PROVE Accounted(k)'
    <3> DEFINE n == granted[k] - before[k]
    <3>1. Accounted(k) /\ start \in Int /\ start <= clock /\ n \in Int
      BY <1>0, <2>3 DEF IInv, Counted, Steady, TypeOK, HistoryOK
    <3>2. /\ Rate * (clock - start) <= Rate * (clock' - start)
          /\ Rate * (clock - start + MaxDelay) <= Rate * (clock' - start + MaxDelay)
          /\ Rate * (clock - start) \in Int /\ Rate * (clock' - start) \in Int
          /\ Rate * (clock - start + MaxDelay) \in Int /\ Rate * (clock' - start + MaxDelay) \in Int
      BY <1>0, <2>1, <3>1, TimePasses
    <3>3. n <= Capacity + Rate * (clock' - start + MaxDelay)
      BY <1>0, <3>1, <3>2 DEF Accounted
    <3>4. CASE buckets'[k] = buckets[k]
      <4>1. ~Present(k) => n <= Rate * (clock' - start)
        BY <1>0, <3>1, <3>2 DEF Accounted
      <4>2. Present(k)' <=> Present(k)
        BY <3>4 DEF Present
      <4>3. Present(k) =>
              n = 0 \/ n + buckets[k].tokens <= Capacity + Rate * (buckets[k].updated - start + MaxDelay)
        BY <3>1 DEF Accounted
      <4> QED BY <2>1, <3>3, <3>4, <4>1, <4>2, <4>3 DEF Accounted
    <3>5. CASE /\ buckets'[k] = NoBucket /\ buckets[k] # NoBucket
               /\ clock - buckets[k].updated > IdleTimeout
      <4>1. n <= Rate * (clock - start)
        BY <3>1, <3>5, IdleRefills
      <4>2. n <= Rate * (clock' - start)
        BY <3>1, <3>2, <4>1
      <4> QED BY <2>1, <3>3, <3>5, <4>2 DEF Accounted, Present
    <3> QED BY <2>1, <3>4, <3>5
  <2>4. start # NotYet => start' <= clock'
    <3>1. start # NotYet => start \in Int /\ start <= clock
      BY <1>0 DEF IInv, Counted, Steady, HistoryOK
    <3> QED BY <1>0, <2>1, <3>1
  <2> QED BY <1>0, <2>1, <2>2, <2>3, <2>4 DEF IInv, Counted
<1>4. CASE UNCHANGED MCvars
  BY <1>0, <1>4 DEF MCvars, vars, IInv, NeverOverdrawn, Present, Counted, Accounted
<1> QED BY <1>1, <1>2, <1>3, <1>4 DEF MCNext

-----------------------------------------------------------------------------
(* The theorems *)

\* Covered buckets and accounted grants, in every reachable state.
THEOREM Inductive == MCSpec => []IInv
<1>1. IInv /\ [MCNext]_MCvars => IInv'
  BY NextIInv
<1> QED BY <1>1, InitIInv, PTL DEF MCSpec

\* Every variable keeps its type, and no bucket holds more than Capacity.
THEOREM TypeCorrect == MCSpec => []TypeOK
<1>1. IInv => TypeOK
  BY DEF IInv, Steady
<1> QED BY <1>1, Inductive, PTL

\* From any moment on a key gets through at most a bucketful and the refill
\* since, whatever the order in which requests reach the mutex and whenever
\* the sweeper forgets its bucket.
THEOREM RateIsBounded == MCSpec => []RateBound
<1>1. IInv => RateBound
  BY DEF IInv, Counted, Accounted, RateBound
<1> QED BY <1>1, Inductive, PTL

\* A request made at least a tick after every earlier one of its key is served.
THEOREM QuietKeysAreServed == MCSpec => QuietKeyServed
<1>1. IInv /\ [MCNext]_MCvars => [QuietServed]_MCvars
  <2> SUFFICES ASSUME IInv, MCNext, NEW c \in Answered, call[c].now > latest[call[c].key]
               PROVE  granted'[call[c].key] > granted[call[c].key]
    BY DEF QuietServed
  <2>1. Next /\ Observe
    BY DEF MCNext, StartCounting, Answered, vars
  <2>2. PICK d \in Callers : call[d] # Idle /\ Take(d)
    BY <2>1, NullsAssumption DEF Next, Answered, ReadClock, Advance, Sweep, Close, SweepEnds, Idle,
       IInv, Steady, TypeOK
  <2>3. call[d].key \in Keys /\ c = d
    BY <2>1, <2>2, TakeIs DEF IInv
  <2> QED BY <2>1, <2>2, <2>3, TakeCovers DEF IInv
<1> QED BY <1>1, Inductive, PTL DEF MCSpec, QuietKeyServed
=============================================================================
