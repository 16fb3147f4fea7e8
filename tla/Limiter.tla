------------------------------- MODULE Limiter -------------------------------
(***************************************************************************)
(* The webserver's rate limiter (internal/web/ratelimit.go) and the two    *)
(* places that charge it: the middleware in front of every page, and the   *)
(* probe filter ahead of routing (probes.go).  allow reads the clock first *)
(* and takes the mutex after, so requests may pass it in another order     *)
(* than that of their clock readings.                                      *)
(*                                                                         *)
(* Time is in ticks in which Rate tokens accrue.  The report of a full     *)
(* table is left out.                                                      *)
(***************************************************************************)
EXTENDS Integers, Sequences, FiniteSets, SequencesExt

CONSTANTS
    Requests,    \* requests under way at a time
    Addresses,   \* client addresses, as ClientIP gives them
    V6,          \* those that are IPv6 addresses of one /64
    Subnet,      \* the key of that /64
    Rate, Burst, \* RATE_LIMIT_RPS and RATE_LIMIT_BURST
    MaxBuckets,  \* maxBuckets
    Quiet,       \* evictLoop's ten minutes
    MaxSkew,     \* bound: ticks between reading the clock and getting the lock
    MaxTime      \* bound: ticks

\* With the defaults, in seconds: 20 tokens against 5 * (600 + 1 - 2 * skew).
LimiterConstants ==
    /\ V6 \subseteq Addresses /\ Subnet \notin Addresses
    /\ {Rate, Burst, MaxBuckets} \subseteq Nat \ {0}
    /\ {Quiet, MaxSkew, MaxTime} \subseteq Nat
    /\ Burst <= Rate * (Quiet + 1 - 2 * MaxSkew)

VARIABLES
    now,      \* the clock
    buckets,  \* the table: tokens and last of each tracked key
    order,    \* its keys, most recently used first
    req,      \* each request: the key it is charged to, the time it read
    spent     \* for the properties: what each key was let through, and since
              \* when, starting anew when its bucket is evicted to make room

vars == <<now, buckets, order, req, spent>>

Keys == Addresses \cup {Subnet}
NoKey == [key |-> Subnet, at |-> -1]

\* limiterKey.
limiterKey(ip) == IF ip \in V6 THEN Subnet ELSE ip

TypeOK ==
    /\ now \in 0..MaxTime
    /\ DOMAIN buckets \subseteq Keys
    /\ \A k \in DOMAIN buckets : buckets[k].tokens \in Int /\ buckets[k].last \in 0..now
    /\ order \in Seq(Keys)
    /\ req \in [Requests -> [key: Keys, at: -1..now]]
    /\ spent \in [Keys -> [n: Nat, since: 0..now]]

Init ==
    /\ now = 0
    /\ buckets = <<>> /\ order = <<>>
    /\ req = [r \in Requests |-> NoKey]
    /\ spent = [k \in Keys |-> [n |-> 0, since |-> 0]]
-----------------------------------------------------------------------------
Idle(r) == req[r].at = -1

Tick ==
    /\ now < MaxTime
    /\ \A r \in Requests : Idle(r) \/ now < req[r].at + MaxSkew
    /\ now' = now + 1
    /\ UNCHANGED <<buckets, order, req, spent>>

\* allow's first line.  A page is charged to its client's key, a probe to the
\* address itself.
Arrive(r) ==
    /\ Idle(r)
    /\ \E ip \in Addresses : \E key \in {limiterKey(ip), ip} :
          req' = [req EXCEPT ![r] = [key |-> key, at |-> now]]
    /\ UNCHANGED <<now, buckets, order, spent>>

\* The least recently used bucket goes when the table is full.
MakeRoom(s) == IF Len(s) >= MaxBuckets THEN Front(s) ELSE s

\* A new key: a full bucket, less the token it pays with.
AllowNew(r) ==
    LET k == req[r].key
        t == req[r].at
        kept == MakeRoom(order)
        gone == ToSet(order) \ ToSet(kept)
    IN  /\ ~Idle(r) /\ k \notin DOMAIN buckets
        /\ order' = <<k>> \o kept
        /\ buckets' = [x \in (DOMAIN buckets \ gone) \cup {k} |->
                          IF x = k THEN [tokens |-> Burst - 1, last |-> t] ELSE buckets[x]]
        /\ spent' = [x \in Keys |->
                        IF x = k THEN [n |-> spent[k].n + 1,
                                       since |-> IF spent[k].n = 0 THEN t ELSE spent[k].since]
                        ELSE IF x \in gone THEN [n |-> 0, since |-> 0]
                        ELSE spent[x]]
        /\ req' = [req EXCEPT ![r] = NoKey]
        /\ UNCHANGED now

\* Mutant: the time of the last refill stays.
RefillFromFirst(b, t) ==
    LET tokens == b.tokens + (t - b.last) * Rate
    IN  [tokens |-> IF tokens > Burst THEN Burst ELSE tokens, last |-> b.last]

\* The lazy refill.  With an earlier reading than the last one it takes away.
Refill(b, t) ==
    LET tokens == b.tokens + (t - b.last) * Rate
    IN  [tokens |-> IF tokens > Burst THEN Burst ELSE tokens, last |-> t]

\* A key in the table: let through against a token, or refused with 429.
AllowKnown(r) ==
    LET k == req[r].key
        b == Refill(buckets[k], req[r].at)
    IN  /\ ~Idle(r) /\ k \in DOMAIN buckets
        /\ order' = <<k>> \o Remove(order, k)
        /\ IF b.tokens < 1
             THEN buckets' = [buckets EXCEPT ![k] = b] /\ UNCHANGED spent
             ELSE /\ buckets' = [buckets EXCEPT ![k] = [b EXCEPT !.tokens = @ - 1]]
                  /\ spent' = [spent EXCEPT ![k].n = @ + 1]
        /\ req' = [req EXCEPT ![r] = NoKey]
        /\ UNCHANGED now

\* evictLoop.
Evict ==
    LET quiet == {k \in DOMAIN buckets : buckets[k].last < now - Quiet}
    IN  /\ quiet # {}
        /\ buckets' = [k \in DOMAIN buckets \ quiet |-> buckets[k]]
        /\ order' = SelectSeq(order, LAMBDA k : k \notin quiet)
        /\ UNCHANGED <<now, req, spent>>

Next == Tick \/ Evict \/ \E r \in Requests : Arrive(r) \/ AllowNew(r) \/ AllowKnown(r)

Spec == Init /\ [][Next]_vars
-----------------------------------------------------------------------------
(* Properties.                                                             *)

\* The table is bounded, and its list and its map hold the same keys, once
\* each (allow, drop, evictLoop).
TableAgrees ==
    /\ ToSet(order) = DOMAIN buckets
    /\ Cardinality(DOMAIN buckets) = Len(order)
    /\ Len(order) <= MaxBuckets

\* "Limiter allows burst requests immediately and rate per second thereafter,
\* counted per client": whatever order requests pass the mutex in, and though
\* evictLoop forgets who has gone quiet, no key is let through more often,
\* unless its bucket had to make room in between.
RateHeld == \A k \in Keys : spent[k].n > 0 => spent[k].n <= Burst + Rate * (now - spent[k].since)

(* What makes RateHeld inductive.                                          *)

\* The tokens left in a bucket are part of what its key could have been given
\* by the time of its last refill; a debt a late refill left is paid by now,
\* and is no more than what accrues in MaxSkew.
BucketHeld(k) ==
    LET b == buckets[k]
    IN  /\ spent[k].n + b.tokens <= Burst + Rate * (b.last - spent[k].since)
        /\ 0 <= b.tokens + Rate * (now - b.last)
        /\ 0 <= b.tokens + Rate * MaxSkew

\* A key that went quiet has accrued a full bucket for any request under way.
QuietPaid(k) == spent[k].n > 0 => spent[k].n <= Rate * (now - MaxSkew - spent[k].since)

Spendable ==
    /\ \A k \in DOMAIN buckets : BucketHeld(k)
    /\ \A k \in Keys \ DOMAIN buckets : QuietPaid(k)
    /\ \A r \in Requests : Idle(r) \/ now <= req[r].at + MaxSkew

\* The limiter's two promises.
LimiterHolds == TableAgrees /\ RateHeld
==============================================================================
