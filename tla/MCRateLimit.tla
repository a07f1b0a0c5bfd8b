---------------------------- MODULE MCRateLimit ----------------------------
(***************************************************************************)
(* RateLimit for TLC, with history variables: a moment at which an         *)
(* observer starts to count, what had been granted by then, and the latest *)
(* time with which each bucket was updated.                                *)
(***************************************************************************)
EXTENDS RateLimit, TLC

CONSTANT NotYet

VARIABLES
    start,      \* when the observer started to count, NotYet before
    before,     \* granted, at that moment
    latest      \* key -> the latest `now` of its requests so far

MCvars == <<vars, start, before, latest>>

StartCounting ==
    /\ start = NotYet
    /\ start' = clock
    /\ before' = granted
    /\ UNCHANGED <<vars, latest>>

\* The requests that a step answers.
Answered == {c \in Callers : call[c] # Idle /\ call'[c] = Idle}

Observe ==
    /\ latest' = [k \in Keys |->
                    IF \E c \in Answered : call[c].key = k /\ call[c].now > latest[k]
                    THEN (CHOOSE n \in 0..Horizon : \E c \in Answered : call[c].now = n)
                    ELSE latest[k]]
    /\ UNCHANGED <<start, before>>

MCInit == Init /\ start = NotYet /\ before = granted /\ latest = [k \in Keys |-> 0]
MCNext == StartCounting \/ (Next /\ Observe)
MCSpec == MCInit /\ [][MCNext]_MCvars

Symmetry == Permutations(Callers) \cup Permutations(Keys)

-----------------------------------------------------------------------------
\* ratelimit.go: "A bucket grants Capacity tokens up-front and refills at
\* RefillPerSecond": from any moment on, a key gets through at most a bucketful
\* and the refill since, with requests out of order and buckets swept; requests
\* that read the clock before that moment add the refill of their delay.
RateBound ==
    start # NotYet => \A k \in Keys :
        granted[k] - before[k] <= Capacity + Rate * (clock - start + MaxDelay)

\* A request made at least a tick after every earlier one of its key gets through.
QuietServed ==
    \A c \in Answered :
        call[c].now > latest[call[c].key] => granted'[call[c].key] > granted[call[c].key]

\* A late request, which takes tokens out of the bucket, costs others nothing:
\* whoever comes after a quiet tick is served.
QuietKeyServed == [][QuietServed]_MCvars
=============================================================================
