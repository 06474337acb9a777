----------------------------- MODULE RateLimit -----------------------------
(***************************************************************************)
(* The state of one key of the rate limiters: the token bucket and the     *)
(* sliding window of plugins/ratelimit, kept in a sharded map and dropped  *)
(* by a sweep once idle, and the token bucket that plugins/ratelimit-redis *)
(* keeps in a Redis hash.  Keys share nothing but the sweep.  A request    *)
(* reads the clock first and decides later, under the lock of its shard or *)
(* in the script, so decisions may see the clock run backwards.            *)
(*                                                                         *)
(* Time is counted in ticks of which Cost refill one token: Window is      *)
(* Limit * Cost ticks, and a bucket is kept in ticks.  The cost of what    *)
(* has been admitted is counted in the same unit.                          *)
(***************************************************************************)
EXTENDS Integers, Sequences

CONSTANTS
    Request,         \* goroutines that serve requests of the key
    Limit,           \* Config.Limit
    Cost,            \* ticks that refill one token
    Burst,           \* Config.Burst, by default Limit
    slidingBuckets,  \* sub-windows of the ring
    subWindow,       \* ticks of one of them
    EntryTTL,        \* Config.EntryTTL, by default 2 * Window
    MaxDelay,        \* longest time from reading the clock to the decision
    MaxTime,         \* bound on the clock
    MaxLog           \* bound on the history

Window == Limit * Cost
Capacity == Burst * Cost
RedisTTL == 2 * Window

ASSUME LimiterAssumption ==
    /\ Limit \in Nat \ {0} /\ Cost \in Nat \ {0} /\ Burst \in Nat \ {0}
    /\ slidingBuckets \in Nat \ {0} /\ subWindow \in Nat \ {0}
    /\ Window = slidingBuckets * subWindow
    /\ EntryTTL \in Nat /\ MaxDelay \in Nat
    /\ MaxTime \in Nat /\ MaxLog \in Nat

\* An idle ring has rolled out before it is dropped.  The constructors do not check it; the
\* default of EntryTTL satisfies it.
TTLCoversWindow == Window <= EntryTTL

VARIABLES
    now,        \* the clock
    limiter,    \* "token" or "sliding" (plugins/ratelimit), "redis"
    pc,         \* where each request is
    stamp,      \* the clock it read
    present,    \* the key has an entry
    tokens,     \* the bucket, in ticks
    last,       \* e.last, updated_ms
    touched,    \* e.lastAccess, the start of the key's TTL
    lastAbsSub, \* the sub-window of the ring's newest sample
    buckets,    \* the ring
    spent,      \* cost of everything admitted so far (history)
    forgiven,   \* what buckets that were dropped before they were full lacked (history)
    slack,      \* that, and how far the clock of the decisions ran backwards (history)
    log         \* the decisions so far, in their order (history)

bucket == <<tokens, last>>
ring == <<lastAbsSub, buckets>>
history == <<spent, forgiven, slack, log>>
vars == <<now, limiter, pc, stamp, present, touched, bucket, ring, history>>

Ring == 0 .. (slidingBuckets - 1)

\* A decision: when it was taken, the total cost before and after it, the instant up to
\* which the bucket had been refilled, and the slack until then.
Decision == [at : Nat, before : Nat, after : Nat, mark : Nat, slack : Nat]

TypeOK ==
    /\ now \in Nat
    /\ limiter \in {"token", "sliding", "redis"}
    /\ pc \in [Request -> {"idle", "decide"}]
    /\ stamp \in [Request -> Nat]
    /\ present \in BOOLEAN
    /\ tokens \in 0 .. Capacity
    /\ last \in Nat /\ touched \in Nat /\ lastAbsSub \in Nat
    /\ buckets \in [Ring -> Nat]
    /\ spent \in Nat /\ forgiven \in Nat /\ slack \in Nat
    /\ log \in Seq(Decision)

Init ==
    /\ now = 0
    /\ limiter \in {"token", "sliding", "redis"}
    /\ pc = [r \in Request |-> "idle"]
    /\ stamp = [r \in Request |-> 0]
    /\ present = FALSE
    /\ tokens = 0 /\ last = 0 /\ touched = 0
    /\ lastAbsSub = 0 /\ buckets = [i \in Ring |-> 0]
    /\ spent = 0 /\ forgiven = 0 /\ slack = 0 /\ log = << >>

----------------------------------------------------------------------------
\* decide reads the clock before the lock is taken or the script is sent; a request
\* that is skipped never comes here.
ReadClock(r) ==
    /\ pc[r] = "idle"
    /\ Len(log) < MaxLog
    /\ pc' = [pc EXCEPT ![r] = "decide"]
    /\ stamp' = [stamp EXCEPT ![r] = now]
    /\ UNCHANGED <<now, limiter, present, touched, bucket, ring, history>>

\* How far the clock of this decision is behind the bucket.
Rewound(mark) == IF present /\ mark < last THEN last - mark ELSE 0

\* What the bucket lacked, by the clock of this decision, if it was dropped since the
\* last one and now starts full again.
Forgiven(mark) ==
    LET missing == Capacity - (tokens + (mark - last))
    IN  IF ~present /\ log # << >> /\ limiter # "sliding" /\ missing > 0 THEN missing ELSE 0

\* The decision is taken: the next handler runs, or 429 is sent.  When the reply of the
\* script is lost, 503 is sent (or the next handler runs, FailOpenOnRedisError): a token
\* that the script took counts as spent all the same.
Decided(r, admit, mark) ==
    /\ pc' = [pc EXCEPT ![r] = "idle"]
    /\ stamp' = [stamp EXCEPT ![r] = 0]
    /\ present' = TRUE
    /\ touched' = now
    /\ spent' = IF admit THEN spent + Cost ELSE spent
    /\ forgiven' = forgiven + Forgiven(mark)
    /\ slack' = slack + Rewound(mark) + Forgiven(mark)
    /\ log' = Append(log, [at |-> now, before |-> spent, after |-> spent',
                           mark |-> mark, slack |-> slack'])
    /\ UNCHANGED <<now, limiter>>

\* Mutant of the refill: a bucket that starts empty.
RefillFromEmpty(t) ==
    LET full == IF t > last THEN tokens + (t - last) ELSE tokens
    IN  IF ~present THEN 0 ELSE IF full > Capacity THEN Capacity ELSE full

\* Both buckets: full when new, else what the elapsed time adds, up to the capacity.
Refill(t) ==
    LET full == IF t > last THEN tokens + (t - last) ELSE tokens
    IN  IF ~present THEN Capacity ELSE IF full > Capacity THEN Capacity ELSE full

TakeToken(t) ==
    LET have == Refill(t) IN tokens' = IF have >= Cost THEN have - Cost ELSE have

\* tokenBucketDecide moves e.last forwards only.
Mark(t) == IF present /\ t < last THEN last ELSE t

tokenBucketDecide(r) ==
    LET t == stamp[r] IN
    /\ limiter = "token" /\ pc[r] = "decide"
    /\ TakeToken(t)
    /\ last' = Mark(t)
    /\ Decided(r, Refill(t) >= Cost, Mark(t))
    /\ UNCHANGED ring

\* The script of ratelimit-redis stores the clock of its caller, earlier or not.
tokenBucketLua(r) ==
    LET t == stamp[r] IN
    /\ limiter = "redis" /\ pc[r] = "decide"
    /\ TakeToken(t)
    /\ last' = t
    /\ Decided(r, Refill(t) >= Cost, t)
    /\ UNCHANGED ring

\* The script does not run: 503, or the next handler with FailOpenOnRedisError, which is
\* then served without a token and is no decision of the limiter.
RedisError(r) ==
    /\ limiter = "redis" /\ pc[r] = "decide"
    /\ pc' = [pc EXCEPT ![r] = "idle"]
    /\ stamp' = [stamp EXCEPT ![r] = 0]
    /\ UNCHANGED <<now, limiter, present, touched, bucket, ring, history>>

\* Mutant: the slot of the new sample is not cleared.
RolledTooLate(sub) ==
    [i \in Ring |-> IF present /\ \A s \in (lastAbsSub + 1) .. (sub - 1) : s % slidingBuckets # i
                    THEN buckets[i] ELSE 0]

\* The ring with the sub-windows after the newest sample, up to sub, cleared.
Rolled(sub) ==
    [i \in Ring |-> IF present /\ \A s \in (lastAbsSub + 1) .. sub : s % slidingBuckets # i
                    THEN buckets[i] ELSE 0]

\* Sum of the ring: total[i] counts the slots up to i.
RingTotal(b) ==
    LET total[i \in Ring] == b[i] + (IF i = 0 THEN 0 ELSE total[i - 1])
    IN  total[slidingBuckets - 1]

slidingWindowDecide(r) ==
    LET nowAbsSub == stamp[r] \div subWindow
        b == Rolled(nowAbsSub)
        admit == RingTotal(b) < Limit
    IN
    /\ limiter = "sliding" /\ pc[r] = "decide"
    /\ lastAbsSub' = IF present /\ nowAbsSub < lastAbsSub THEN lastAbsSub ELSE nowAbsSub
    /\ buckets' = IF admit THEN [b EXCEPT ![nowAbsSub % slidingBuckets] = @ + 1] ELSE b
    /\ Decided(r, admit, stamp[r])
    /\ UNCHANGED bucket

\* Mutant: an entry is dropped once one token has been refilled.
StaleEarly == touched + Cost < now

\* lastAccess before the cutoff of sweepShard; the TTL that the script set has passed.
Stale ==
    IF limiter = "redis" THEN touched + RedisTTL <= now ELSE touched + EntryTTL < now

\* sweepShard, driven by the checks of all keys or by the janitor; the expiry of Redis.
Sweep ==
    /\ present /\ Stale
    /\ present' = FALSE
    /\ UNCHANGED <<now, limiter, pc, stamp, touched, bucket, ring, history>>

\* Time passes, but no request waits longer than MaxDelay for its decision, and a key
\* of Redis does not outlive its TTL.
Tick ==
    /\ now < MaxTime
    /\ \A r \in Request : pc[r] = "decide" => now < stamp[r] + MaxDelay
    /\ ~(limiter = "redis" /\ present /\ Stale)
    /\ now' = now + 1
    /\ UNCHANGED <<limiter, pc, stamp, present, touched, bucket, ring, history>>

Next ==
    \/ \E r \in Request :
          ReadClock(r) \/ tokenBucketDecide(r) \/ tokenBucketLua(r)
          \/ slidingWindowDecide(r) \/ RedisError(r)
    \/ Sweep \/ Tick

Spec == Init /\ [][Next]_vars

----------------------------------------------------------------------------
\* An idle bucket is full before it is dropped.  The constructors do not check it: the
\* defaults satisfy it while Burst stays below 2 * Limit, and the TTL on Redis is fixed.
CoversRefill == Capacity + MaxDelay <= IF limiter = "redis" THEN RedisTTL ELSE EntryTTL

\* Between any two decisions the token buckets admit at most Burst requests more than
\* the time between them refills, with the delay of a decision, and two things the code
\* gives away, as the only slack: the script of ratelimit-redis pays for every backward
\* step of its callers' clocks with as much refill again, and a bucket that is dropped
\* before it is full starts full.  The latter never happens if the TTL covers the refill.
\* What is counted are tokens: requests that are let through while Redis fails
\* (FailOpenOnRedisError) take none.
RateBound ==
    limiter \in {"token", "redis"} =>
        /\ CoversRefill => forgiven = 0
        /\ \A i, j \in DOMAIN log : i <= j =>
              log[j].after - log[i].before
                  <= Capacity + (log[j].at - log[i].at) + MaxDelay
                     + (log[j].slack - log[i].slack)

\* "The token bucket fully refills to Limit over each Window": a client gets a full
\* bucket only from the time it was idle.  Not so for a Burst of more than 2 * Limit.
NoEarlyDrop == limiter \in {"token", "redis"} => forgiven = 0

\* A denial of a token bucket is earned: from some decision on, the admitted requests
\* had used up what the bucket held and what the time had refilled.
DenialEarned ==
    limiter \in {"token", "redis"} =>
        \A n \in DOMAIN log : log[n].after = log[n].before =>
            \E i \in 1 .. n :
                log[n].before - log[i].before + Cost
                    > Capacity + (log[n].at - log[i].at) - MaxDelay

\* The sliding window admits at most Limit requests in any span of one sub-window less
\* than Window, and denies only when Limit requests were admitted within Window: the
\* gap between two samples clears exactly the sub-windows that have rolled out.
SlidingExact ==
    limiter = "sliding" =>
        /\ \A i, j \in DOMAIN log :
              i <= j /\ log[j].at - log[i].at + MaxDelay <= (slidingBuckets - 1) * subWindow
                  => log[j].after - log[i].before <= Window
        /\ \A n \in DOMAIN log : log[n].after = log[n].before =>
              \E i \in 1 .. n :
                  /\ log[n].at < log[i].at + Window + MaxDelay
                  /\ log[n].before - log[i].before >= Window
=============================================================================
