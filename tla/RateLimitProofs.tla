-------------------------- MODULE RateLimitProofs --------------------------
(***************************************************************************)
(* The limiters of plugins/ratelimit and plugins/ratelimit-redis for any   *)
(* number of requests, any limit, burst, window and TTL.                   *)
(*                                                                         *)
(* The argument for the token buckets is a potential: what was admitted    *)
(* since an earlier decision and what the bucket still holds never exceed  *)
(* its capacity and the refill since that decision.  The one for the       *)
(* sliding window counts samples: until a span of the ring has passed, the *)
(* ring covers what was admitted since a decision, and what it holds from  *)
(* a sub-window on was admitted since a decision in that sub-window.       *)
(***************************************************************************)
EXTENDS RateLimit, WellFoundedInduction, TLAPS

\* A request that is about to decide read the clock at most MaxDelay ago.
ClockOK ==
    \A r \in Request : pc[r] = "decide" => stamp[r] <= now /\ now <= stamp[r] + MaxDelay

IsBucket == limiter \in {"token", "redis"}

\* The bucket was refilled and touched in the past; if the TTL covers the refill, it would
\* be full once it is dropped, and nothing has been forgiven.
EntryOK ==
    /\ last <= touched /\ touched <= now
    /\ present => log # << >>
    /\ CoversRefill /\ IsBucket =>
          /\ forgiven = 0
          /\ ~present /\ log # << >> => touched + Capacity + MaxDelay <= now

\* The mark of a decision is at most MaxDelay before it, and the totals only grow.
LogOK ==
    \A i \in DOMAIN log :
        /\ log[i].mark <= log[i].at /\ log[i].at <= log[i].mark + MaxDelay
        /\ log[i].before <= spent

\* The potential, seen from the present state and from every later decision.
Potential ==
    \A i \in DOMAIN log :
        (spent - log[i].before) + tokens
            <= Capacity + (last - log[i].mark) + (slack - log[i].slack)

Spending ==
    \A i, j \in DOMAIN log : i <= j =>
        log[j].after - log[i].before
            <= Capacity + (log[j].mark - log[i].mark) + (log[j].slack - log[i].slack)

\* The bucket was full at some decision and has only been spent since.
Spent ==
    log # << >> =>
        \E i \in DOMAIN log :
            (spent - log[i].before) + tokens >= Capacity + (last - log[i].mark)

Denials ==
    \A n \in DOMAIN log : log[n].after = log[n].before =>
        \E i \in 1 .. n :
            log[n].before - log[i].before + Cost > Capacity + (log[n].mark - log[i].mark)

RInv ==
    /\ TypeOK /\ ClockOK /\ EntryOK
    /\ IsBucket => LogOK /\ Potential /\ Spending /\ Spent /\ Denials

----------------------------------------------------------------------------
LEMMA CapacityType == Capacity \in Nat /\ Cost \in Nat /\ Cost > 0 /\ MaxDelay \in Nat
BY LimiterAssumption DEF Capacity

\* The arithmetic of the potential, with every quantity an integer: s spent, k tokens,
\* l last and w the slack before a decision, t, y, q and x after it, h the tokens after
\* the refill, c the capacity; b, m and v of an older decision.
LEMMA Grows ==
    \A s, k, l, w, h, q, x, b, m, v, c \in Int :
        (s - b) + k <= c + (l - m) + (w - v) /\ h <= k + (q - l) + (x - w)
        => (s - b) + h <= c + (q - m) + (x - v)
OBVIOUS

LEMMA MovesBelow ==
    \A s, h, t, y, b, z \in Int :
        t + y <= s + h /\ (s - b) + h <= z => (t - b) + y <= z
OBVIOUS

LEMMA MovesAbove ==
    \A s, h, t, y, b, z \in Int :
        t + y >= s + h /\ (s - b) + h >= z => (t - b) + y >= z
OBVIOUS

LEMMA Starts ==
    \A s, h, t, y, q, x, c \in Int :
        t + y = s + h /\ h <= c => (t - s) + y <= c + (q - q) + (x - x)
OBVIOUS

LEMMA Spends ==
    \A t, y, q, x, b, m, v, c \in Int :
        (t - b) + y <= c + (q - m) + (x - v) /\ 0 <= y => t - b <= c + (q - m) + (x - v)
OBVIOUS

LEMMA Keeps ==
    \A s, k, l, h, q, b, m, c \in Int :
        (s - b) + k >= c + (l - m) /\ k + (q - l) <= h => (s - b) + h >= c + (q - m)
OBVIOUS

LEMMA Denies ==
    \A t, y, q, b, m, c, d \in Int :
        (t - b) + y >= c + (q - m) /\ y < d => t - b + d > c + (q - m)
OBVIOUS

LEMMA AppendFacts ==
    ASSUME NEW S, NEW s \in Seq(S), NEW e \in S
    PROVE  /\ Append(s, e) \in Seq(S)
           /\ DOMAIN Append(s, e) = DOMAIN s \cup {Len(s) + 1}
           /\ \A i \in DOMAIN s : Append(s, e)[i] = s[i] /\ i <= Len(s)
           /\ Append(s, e)[Len(s) + 1] = e
<1>1. Append(s, e) \in Seq(S) /\ Len(Append(s, e)) = Len(s) + 1 /\ Len(s) \in Nat
  OBVIOUS
<1>2. DOMAIN s = 1 .. Len(s) /\ DOMAIN Append(s, e) = 1 .. (Len(s) + 1)
  BY <1>1
<1>3. DOMAIN Append(s, e) = DOMAIN s \cup {Len(s) + 1}
  BY <1>1, <1>2
<1>4. \A i \in DOMAIN s : Append(s, e)[i] = s[i] /\ i <= Len(s)
  BY <1>1, <1>2
<1>5. Append(s, e)[Len(s) + 1] = e
  BY <1>1
<1> QED BY <1>1, <1>3, <1>4, <1>5

LEMMA ElementType ==
    ASSUME NEW S, NEW s \in Seq(S), NEW i \in DOMAIN s PROVE s[i] \in S
OBVIOUS

LEMMA LogType ==
    ASSUME TypeOK, NEW i \in DOMAIN log
    PROVE  /\ i \in Nat /\ i >= 1 /\ i <= Len(log)
           /\ log[i].at \in Nat /\ log[i].before \in Nat /\ log[i].after \in Nat
           /\ log[i].mark \in Nat /\ log[i].slack \in Nat
<1>1. log[i] \in Decision
  BY ElementType DEF TypeOK
<1>2. DOMAIN log = 1 .. Len(log) /\ Len(log) \in Nat
  BY DEF TypeOK
<1> QED BY <1>1, <1>2 DEF Decision

LEMMA InitHolds == Init => RInv
<1> SUFFICES ASSUME Init PROVE RInv
  OBVIOUS
<1>1. TypeOK
  <2>1. present \in BOOLEAN
    BY DEF Init
  <2>2. /\ now \in Nat /\ limiter \in {"token", "sliding", "redis"}
        /\ last \in Nat /\ touched \in Nat /\ lastAbsSub \in Nat
        /\ spent \in Nat /\ forgiven \in Nat /\ slack \in Nat /\ log \in Seq(Decision)
    BY DEF Init
  <2>3. /\ pc \in [Request -> {"idle", "decide"}] /\ stamp \in [Request -> Nat]
        /\ buckets \in [Ring -> Nat]
    BY DEF Init
  <2>4. tokens \in 0 .. Capacity
    BY CapacityType DEF Init
  <2> QED BY <2>1, <2>2, <2>3, <2>4 DEF TypeOK
<1>2. log = << >> /\ DOMAIN log = {}
  BY DEF Init
<1>3. ClockOK /\ EntryOK
  BY <1>2 DEF Init, ClockOK, EntryOK
<1> QED
  BY <1>1, <1>2, <1>3 DEF RInv, LogOK, Potential, Spending, Spent, Denials

----------------------------------------------------------------------------
\* What Refill grants: never more than the time since last, never less unless full.
LEMMA RefillFacts ==
    ASSUME TypeOK, NEW t \in Nat
    PROVE  /\ Refill(t) \in 0 .. Capacity
           /\ ~present => Refill(t) = Capacity
           /\ present /\ t >= last => Refill(t) <= tokens + (t - last)
           /\ present /\ t >= last => Refill(t) = Capacity \/ Refill(t) = tokens + (t - last)
           /\ present /\ t < last => Refill(t) = tokens
BY CapacityType DEF TypeOK, Refill

\* What a decision of either bucket does, in the terms of the invariant.
BucketStep(r, have, mark) ==
    /\ pc[r] = "decide"
    /\ tokens' = (IF have >= Cost THEN have - Cost ELSE have)
    /\ last' = mark
    /\ Decided(r, have >= Cost, mark)
    /\ UNCHANGED ring

LEMMA TokenStep ==
    ASSUME TypeOK, NEW r \in Request, tokenBucketDecide(r)
    PROVE  /\ BucketStep(r, Refill(stamp[r]), Mark(stamp[r]))
           /\ limiter = "token"
BY DEF tokenBucketDecide, TakeToken, BucketStep

LEMMA LuaStep ==
    ASSUME TypeOK, NEW r \in Request, tokenBucketLua(r)
    PROVE  /\ BucketStep(r, Refill(stamp[r]), stamp[r])
           /\ limiter = "redis"
BY DEF tokenBucketLua, TakeToken, BucketStep

\* What it may grant: mark is the clock of the caller or, where the later clock wins,
\* the mark before it.
Granted(r, have, mark) ==
    /\ mark = stamp[r] \/ (present /\ stamp[r] < last /\ mark = last)
    /\ ~present => have = Capacity
    /\ present /\ mark >= last => have <= tokens + (mark - last)
    /\ present /\ mark >= last => have = Capacity \/ have = tokens + (mark - last)
    /\ present /\ mark < last => have = tokens

\* What a decision adds to the slack.
LEMMA SlackFacts ==
    ASSUME TypeOK, NEW mark \in Nat
    PROVE  /\ Rewound(mark) \in Nat /\ Forgiven(mark) \in Nat
           /\ present => Forgiven(mark) = 0
           /\ present /\ mark < last => Rewound(mark) = last - mark
           /\ present /\ mark >= last => Rewound(mark) = 0
           /\ ~present => Rewound(mark) = 0
           /\ IsBucket /\ ~present /\ log # << >> =>
                 /\ Capacity <= tokens + (mark - last) + Forgiven(mark)
                 /\ last + Capacity <= mark => Forgiven(mark) = 0
<1>1. /\ tokens \in Nat /\ last \in Nat /\ Capacity \in Nat
  BY CapacityType DEF TypeOK
<1>2. /\ Rewound(mark) \in Nat
      /\ present /\ mark < last => Rewound(mark) = last - mark
      /\ present /\ mark >= last => Rewound(mark) = 0
      /\ ~present => Rewound(mark) = 0
  BY <1>1 DEF Rewound
<1>3. Forgiven(mark) \in Nat /\ (present => Forgiven(mark) = 0)
  BY <1>1 DEF Forgiven
<1>4. IsBucket => limiter # "sliding"
  BY DEF IsBucket
<1>5. ASSUME IsBucket, ~present, log # << >>
      PROVE  /\ Capacity <= tokens + (mark - last) + Forgiven(mark)
             /\ last + Capacity <= mark => Forgiven(mark) = 0
  BY <1>1, <1>4, <1>5 DEF Forgiven
<1> QED BY <1>2, <1>3, <1>5

\* Both kinds of decision keep the invariant.
LEMMA BucketKeeps ==
    ASSUME RInv, IsBucket, NEW r \in Request, NEW mark \in Nat, NEW have \in 0 .. Capacity,
           BucketStep(r, have, mark), Granted(r, have, mark)
    PROVE  RInv'
<1> USE CapacityType
<1> DEFINE n == Len(log) + 1
           e == [at |-> now, before |-> spent, after |-> spent', mark |-> mark,
                 slack |-> slack']
<1>1. /\ now \in Nat /\ stamp[r] \in Nat /\ tokens \in Nat /\ tokens <= Capacity
      /\ last \in Nat /\ touched \in Nat /\ spent \in Nat /\ slack \in Nat
      /\ forgiven \in Nat /\ have \in Nat /\ have <= Capacity /\ MaxDelay \in Nat /\ n \in Nat
  BY DEF RInv, TypeOK
<1>0. /\ spent \in Int /\ tokens \in Int /\ last \in Int /\ slack \in Int
      /\ have \in Int /\ mark \in Int /\ Capacity \in Int
  BY <1>1
<1>2. /\ pc' = [pc EXCEPT ![r] = "idle"] /\ stamp' = [stamp EXCEPT ![r] = 0]
      /\ present' = TRUE /\ touched' = now /\ now' = now /\ limiter' = limiter
      /\ log' = Append(log, e) /\ last' = mark
      /\ lastAbsSub' = lastAbsSub /\ buckets' = buckets
  BY DEF BucketStep, Decided, ring
<1>3. /\ have >= Cost => tokens' = have - Cost /\ spent' = spent + Cost
      /\ have < Cost => tokens' = have /\ spent' = spent
  BY <1>1 DEF BucketStep, Decided
<1>4. /\ tokens' \in Nat /\ tokens' <= Capacity /\ spent' \in Nat /\ spent' >= spent
      /\ spent' + tokens' = spent + have
      /\ spent' + tokens' <= spent + have /\ spent' + tokens' >= spent + have
      /\ spent' = spent => have < Cost
  BY <1>1, <1>3
<1>a. /\ slack' = slack + Rewound(mark) + Forgiven(mark)
      /\ forgiven' = forgiven + Forgiven(mark)
  BY DEF BucketStep, Decided
<1>b. TypeOK
  BY DEF RInv
<1>5. /\ present /\ mark < last => slack' = slack + (last - mark)
      /\ present /\ mark >= last => slack' = slack
      /\ ~present => slack' = slack + Forgiven(mark)
  <2>1. /\ Rewound(mark) \in Nat /\ Forgiven(mark) \in Nat
        /\ present => Forgiven(mark) = 0
        /\ present /\ mark < last => Rewound(mark) = last - mark
        /\ present /\ mark >= last => Rewound(mark) = 0
        /\ ~present => Rewound(mark) = 0
    BY <1>b, SlackFacts
  <2> QED BY <1>1, <1>a, <2>1
<1>6. slack' \in Nat /\ slack' >= slack /\ forgiven' \in Nat
  <2>1. Rewound(mark) \in Nat /\ Forgiven(mark) \in Nat
    BY <1>b, SlackFacts
  <2> QED BY <1>1, <1>a, <2>1
<1>7. /\ stamp[r] <= now /\ now <= stamp[r] + MaxDelay
      /\ mark <= now /\ now <= mark + MaxDelay
  <2>1. stamp[r] <= now /\ now <= stamp[r] + MaxDelay
    BY DEF RInv, ClockOK, BucketStep
  <2>2. last <= now
    <3>1. last <= touched /\ touched <= now
      BY DEF RInv, EntryOK
    <3> QED BY <1>1, <3>1
  <2>3. CASE mark = stamp[r]
    BY <2>1, <2>3
  <2>4. CASE stamp[r] < last /\ mark = last
    <3>1. now <= last + MaxDelay
      BY <1>1, <2>1, <2>4
    <3> QED BY <2>1, <2>2, <2>4, <3>1
  <2> QED BY <2>3, <2>4 DEF Granted
<1>8. e \in Decision
  BY <1>1, <1>4, <1>6 DEF Decision
<1>9. /\ log' \in Seq(Decision) /\ DOMAIN log' = DOMAIN log \cup {n}
      /\ \A i \in DOMAIN log : log'[i] = log[i] /\ i <= Len(log)
      /\ log'[n] = e
  BY <1>2, <1>8, AppendFacts DEF RInv, TypeOK
<1>10. /\ log'[n].at = now /\ log'[n].before = spent /\ log'[n].after = spent'
       /\ log'[n].mark = mark /\ log'[n].slack = slack'
  BY <1>9
<1> HIDE DEF e, n
<1>11. TypeOK'
  <2>1. present' \in BOOLEAN
    BY <1>2
  <2>2. /\ now' \in Nat /\ limiter' \in {"token", "sliding", "redis"}
        /\ last' \in Nat /\ touched' \in Nat /\ lastAbsSub' \in Nat
        /\ spent' \in Nat /\ forgiven' \in Nat /\ slack' \in Nat
        /\ log' \in Seq(Decision) /\ buckets' \in [Ring -> Nat]
    BY <1>1, <1>2, <1>4, <1>6, <1>9 DEF RInv, TypeOK
  <2>3. pc' \in [Request -> {"idle", "decide"}] /\ stamp' \in [Request -> Nat]
    BY <1>2 DEF RInv, TypeOK
  <2>4. tokens' \in 0 .. Capacity
    BY <1>4
  <2> QED BY <2>1, <2>2, <2>3, <2>4 DEF TypeOK
<1>12. ClockOK'
  BY <1>2 DEF RInv, TypeOK, ClockOK
\* Where the TTL covers the refill, a dropped bucket has been idle long enough to fill.
<1>15. ASSUME CoversRefill, log # << >>, ~present PROVE last + Capacity <= mark
  <2>1. touched + Capacity + MaxDelay <= now /\ last <= touched
    BY <1>15 DEF RInv, EntryOK
  <2> QED BY <1>1, <1>7, <2>1
<1>c. ASSUME CoversRefill PROVE forgiven' = 0
  <2>1. forgiven = 0
    BY <1>c DEF RInv, EntryOK
  <2>2. Forgiven(mark) = 0
    <3>1. CASE present
      BY <1>b, <3>1, SlackFacts
    <3>2. CASE log = << >>
      BY <3>2 DEF Forgiven
    <3>3. CASE ~present /\ log # << >>
      BY <1>b, <1>c, <1>15, <3>3, SlackFacts
    <3> QED BY <3>1, <3>2, <3>3
  <2> QED BY <1>a, <2>1, <2>2
<1>13. EntryOK'
  <2>1. log' # << >>
    <3>1. n \in DOMAIN log'
      BY <1>9
    <3> QED BY <3>1
  <2>2. CoversRefill' <=> CoversRefill
    BY <1>2 DEF CoversRefill
  <2>3. last' <= touched' /\ touched' <= now'
    BY <1>1, <1>2, <1>7
  <2> QED BY <1>2, <1>c, <2>1, <2>2, <2>3 DEF EntryOK
<1>14. LogOK'
  <2>1. \A i \in DOMAIN log :
          /\ log'[i].mark <= log'[i].at /\ log'[i].at <= log'[i].mark + MaxDelay
          /\ log'[i].before <= spent'
    <3> SUFFICES ASSUME NEW i \in DOMAIN log
                 PROVE  /\ log[i].mark <= log[i].at /\ log[i].at <= log[i].mark + MaxDelay
                        /\ log[i].before <= spent'
      BY <1>9
    <3>1. log[i].before \in Nat /\ log[i].before <= spent
      BY LogType DEF RInv, LogOK
    <3>2. log[i].mark <= log[i].at /\ log[i].at <= log[i].mark + MaxDelay
      BY DEF RInv, LogOK
    <3> QED BY <1>1, <1>4, <3>1, <3>2
  <2>2. /\ log'[n].mark <= log'[n].at /\ log'[n].at <= log'[n].mark + MaxDelay
        /\ log'[n].before <= spent'
    BY <1>1, <1>4, <1>7, <1>10
  <2> QED BY <1>9, <2>1, <2>2 DEF LogOK
<1>16. Potential'
  <2>1. ASSUME NEW i \in DOMAIN log
        PROVE  (spent' - log'[i].before) + tokens'
                 <= Capacity + (last' - log'[i].mark) + (slack' - log'[i].slack)
    <3>1. /\ log'[i] = log[i] /\ log[i].before \in Nat /\ log[i].mark \in Nat
          /\ log[i].slack \in Nat
      BY <1>9, LogType DEF RInv
    <3>2. (spent - log[i].before) + tokens
             <= Capacity + (last - log[i].mark) + (slack - log[i].slack)
      BY DEF RInv, Potential
    <3>3. ASSUME ~present PROVE have <= tokens + (mark - last) + (slack' - slack)
      <4>1. have = Capacity /\ slack' = slack + Forgiven(mark)
        BY <1>5, <3>3 DEF Granted
      <4>2. Capacity <= tokens + (mark - last) + Forgiven(mark) /\ Forgiven(mark) \in Nat
        BY <1>b, <3>3, SlackFacts
      <4> QED BY <1>1, <4>1, <4>2
    <3>4. ASSUME present, mark >= last
          PROVE  have <= tokens + (mark - last) + (slack' - slack)
      <4>1. have <= tokens + (mark - last) /\ slack' = slack
        BY <1>1, <1>5, <3>4 DEF Granted
      <4> QED BY <1>1, <4>1
    <3>5. ASSUME present, mark < last
          PROVE  have <= tokens + (mark - last) + (slack' - slack)
      <4>1. have = tokens /\ slack' = slack + (last - mark)
        BY <1>5, <3>5 DEF Granted
      <4> QED BY <1>1, <4>1
    <3>6. have <= tokens + (mark - last) + (slack' - slack)
      <4>1. mark >= last \/ mark < last
        BY <1>1
      <4> QED BY <3>3, <3>4, <3>5, <4>1
    <3>7. (spent' - log[i].before) + tokens'
             <= Capacity + (mark - log[i].mark) + (slack' - log[i].slack)
      <4>1. /\ log[i].before \in Int /\ log[i].mark \in Int /\ log[i].slack \in Int
            /\ spent' \in Int /\ tokens' \in Int /\ slack' \in Int
        BY <1>4, <1>6, <3>1
      <4>2. spent' + tokens' <= spent + have
        BY <1>4
      <4>3. (spent - log[i].before) + have
               <= Capacity + (mark - log[i].mark) + (slack' - log[i].slack)
        BY <1>0, <3>2, <3>6, <4>1, Grows, ZenonT(40)
      <4> DEFINE z == Capacity + (mark - log[i].mark) + (slack' - log[i].slack)
      <4>4. z \in Int
        BY <1>0, <4>1
      <4> HIDE DEF z
      <4>5. (spent - log[i].before) + have <= z
        BY <4>3 DEF z
      <4>6. (spent' - log[i].before) + tokens' <= z
        BY <1>0, <4>1, <4>2, <4>4, <4>5, MovesBelow, Zenon
      <4> QED BY <4>6 DEF z
    <3> QED BY <1>2, <3>1, <3>7
  <2>2. (spent' - log'[n].before) + tokens'
          <= Capacity + (last' - log'[n].mark) + (slack' - log'[n].slack)
    <3>1. spent' \in Int /\ tokens' \in Int /\ slack' \in Int
      BY <1>4, <1>6
    <3>2. spent' + tokens' = spent + have /\ have <= Capacity
      BY <1>1, <1>4
    <3>3. (spent' - spent) + tokens' <= Capacity + (mark - mark) + (slack' - slack')
      BY <1>0, <3>1, <3>2, Starts, Zenon
    <3> QED BY <1>2, <1>10, <3>3, Zenon
  <2> QED BY <1>9, <2>1, <2>2 DEF Potential
<1>17. Spending'
  <2>1. ASSUME NEW i \in DOMAIN log, NEW j \in DOMAIN log, i <= j
        PROVE  log'[j].after - log'[i].before
                 <= Capacity + (log'[j].mark - log'[i].mark)
                    + (log'[j].slack - log'[i].slack)
    BY <1>9, <2>1 DEF RInv, Spending
  <2>2. ASSUME NEW i \in DOMAIN log'
        PROVE  log'[n].after - log'[i].before
                 <= Capacity + (log'[n].mark - log'[i].mark)
                    + (log'[n].slack - log'[i].slack)
    <3>1. (spent' - log'[i].before) + tokens'
            <= Capacity + (last' - log'[i].mark) + (slack' - log'[i].slack)
      BY <1>16 DEF Potential
    <3>2. log'[i].before \in Nat /\ log'[i].mark \in Nat /\ log'[i].slack \in Nat
      <4>1. log'[i] \in Decision
        BY <1>9, ElementType
      <4> QED BY <4>1 DEF Decision
    <3>3. /\ log'[i].before \in Int /\ log'[i].mark \in Int /\ log'[i].slack \in Int
          /\ spent' \in Int /\ tokens' \in Int /\ slack' \in Int /\ last' \in Int
          /\ 0 <= tokens'
      <4>1. last' \in Int
        BY <1>2
      <4>2. tokens' \in Int /\ 0 <= tokens'
        BY <1>4
      <4>3. spent' \in Int /\ slack' \in Int
        BY <1>4, <1>6
      <4> QED BY <3>2, <4>1, <4>2, <4>3
    <3>4. spent' - log'[i].before
             <= Capacity + (last' - log'[i].mark) + (slack' - log'[i].slack)
      BY <1>0, <3>1, <3>3, Spends, Zenon
    <3> QED BY <1>2, <1>10, <3>4, Zenon
  <2>3. ASSUME NEW i \in DOMAIN log', NEW j \in DOMAIN log', i <= j, j # n
        PROVE  i \in DOMAIN log /\ j \in DOMAIN log
    <3>1. j \in DOMAIN log /\ j <= Len(log) /\ j \in Nat
      BY <1>9, <2>3, LogType DEF RInv
    <3>2. i # n
      BY <2>3, <3>1 DEF n
    <3> QED BY <1>9, <3>1, <3>2
  <2> QED BY <2>1, <2>2, <2>3 DEF Spending
<1>18. ASSUME NEW i \in DOMAIN log,
              (spent - log[i].before) + tokens >= Capacity + (last - log[i].mark),
              present, mark >= last => have = tokens + (mark - last)
       PROVE  (spent' - log'[i].before) + tokens' >= Capacity + (last' - log'[i].mark)
  <2>1. log'[i] = log[i] /\ log[i].before \in Nat /\ log[i].mark \in Nat
    BY <1>9, LogType DEF RInv
  <2>2. tokens + (mark - last) <= have
    BY <1>1, <1>18 DEF Granted
  <2>3. /\ log[i].before \in Int /\ log[i].mark \in Int
        /\ spent' \in Int /\ tokens' \in Int
    BY <1>4, <2>1
  <2>4. spent' + tokens' >= spent + have
    BY <1>4
  <2>5. (spent - log[i].before) + have >= Capacity + (mark - log[i].mark)
    <3>1. (spent - log[i].before) + tokens >= Capacity + (last - log[i].mark)
      BY <1>18
    <3> QED BY <1>0, <2>2, <2>3, <3>1, Keeps, Zenon
  <2>6. Capacity + (mark - log[i].mark) \in Int
    BY <1>0, <2>3
  <2>7. (spent' - log[i].before) + tokens' >= Capacity + (mark - log[i].mark)
    BY <1>0, <2>3, <2>4, <2>5, <2>6, MovesAbove, Zenon
  <2> QED BY <1>2, <2>1, <2>7, Zenon
<1>19. \E i \in DOMAIN log' :
          (spent' - log'[i].before) + tokens' >= Capacity + (last' - log'[i].mark)
  <2>1. ASSUME have = Capacity
        PROVE (spent' - log'[n].before) + tokens' >= Capacity + (last' - log'[n].mark)
    BY <1>1, <1>2, <1>4, <1>10, <2>1, SMTT(40)
  <2>2. ASSUME have # Capacity PROVE present /\ (mark >= last => have = tokens + (mark - last))
    BY <2>2 DEF Granted
  <2>3. ASSUME have # Capacity PROVE log # << >>
    BY <2>2, <2>3 DEF RInv, EntryOK
  <2>4. CASE have = Capacity
    BY <1>9, <2>1, <2>4
  <2>5. CASE have # Capacity
    <3>1. PICK i \in DOMAIN log :
            (spent - log[i].before) + tokens >= Capacity + (last - log[i].mark)
      BY <2>3, <2>5 DEF RInv, Spent
    <3>2. (spent' - log'[i].before) + tokens' >= Capacity + (last' - log'[i].mark)
      BY <1>18, <2>2, <2>5, <3>1
    <3> QED BY <1>9, <3>2
  <2> QED BY <2>4, <2>5
<1>20. Spent'
  BY <1>19 DEF Spent
<1>21. Denials'
  <2>1. ASSUME NEW m \in DOMAIN log, log'[m].after = log'[m].before
        PROVE  \E i \in 1 .. m :
                 log'[m].before - log'[i].before + Cost
                   > Capacity + (log'[m].mark - log'[i].mark)
    <3>1. log'[m] = log[m] /\ m \in Nat /\ m <= Len(log)
      BY <1>9, LogType DEF RInv
    <3>2. PICK i \in 1 .. m :
             log[m].before - log[i].before + Cost > Capacity + (log[m].mark - log[i].mark)
      BY <2>1, <3>1 DEF RInv, Denials
    <3>3. i \in DOMAIN log
      <4>1. DOMAIN log = 1 .. Len(log) /\ Len(log) \in Nat
        BY DEF RInv, TypeOK
      <4> QED BY <3>1, <4>1
    <3> QED BY <1>9, <3>1, <3>2, <3>3
  <2>2. ASSUME spent' = spent
        PROVE  \E i \in 1 .. n :
                 log'[n].before - log'[i].before + Cost
                   > Capacity + (log'[n].mark - log'[i].mark)
    <3>1. PICK i \in DOMAIN log' :
            (spent' - log'[i].before) + tokens' >= Capacity + (last' - log'[i].mark)
      BY <1>19
    <3>2. log'[i].before \in Nat /\ log'[i].mark \in Nat
      <4>1. log'[i] \in Decision
        BY <1>9, ElementType
      <4> QED BY <4>1 DEF Decision
    <3>3. i \in 1 .. n
      <4>1. DOMAIN log = 1 .. Len(log) /\ Len(log) \in Nat
        BY DEF RInv, TypeOK
      <4> QED BY <1>9, <4>1 DEF n
    <3>4. tokens' < Cost
      BY <1>1, <1>3, <1>4, <2>2
    <3>5. /\ log'[i].before \in Int /\ log'[i].mark \in Int /\ Cost \in Int
          /\ spent' \in Int /\ tokens' \in Int /\ last' \in Int
      BY <1>1, <1>2, <1>4, <3>2, SMTT(40)
    <3>6. spent' - log'[i].before + Cost > Capacity + (last' - log'[i].mark)
      BY <1>0, <3>1, <3>4, <3>5, Denies, Zenon
    <3>7. log'[n].before - log'[i].before + Cost
             > Capacity + (log'[n].mark - log'[i].mark)
      BY <1>2, <1>10, <2>2, <3>6, Zenon
    <3> QED BY <3>3, <3>7
  <2>3. ASSUME NEW m \in DOMAIN log', log'[m].after = log'[m].before
        PROVE  \E i \in 1 .. m :
                 log'[m].before - log'[i].before + Cost
                   > Capacity + (log'[m].mark - log'[i].mark)
    <3>1. CASE m \in DOMAIN log
      BY <2>1, <2>3, <3>1
    <3>2. CASE m = n
      BY <1>10, <2>2, <2>3, <3>2
    <3> QED BY <1>9, <3>1, <3>2
  <2> QED BY <2>3 DEF Denials
<1> QED BY <1>11, <1>12, <1>13, <1>14, <1>16, <1>17, <1>20, <1>21 DEF RInv

\* A step that leaves the bucket and the history alone and moves the clock forwards
\* keeps what the invariant says of the history.
LEMMA HistoryKept ==
    ASSUME RInv, UNCHANGED <<limiter, tokens, last, spent, slack, log>>
    PROVE  (IsBucket => LogOK /\ Potential /\ Spending /\ Spent /\ Denials)'
BY DEF RInv, IsBucket, LogOK, Potential, Spending, Spent, Denials

\* A decision of the sliding window has no part in the history of a bucket.
LEMMA SlidingKeeps ==
    ASSUME RInv, NEW r \in Request, slidingWindowDecide(r)
    PROVE  RInv'
<1> USE CapacityType
<1>1. /\ now \in Nat /\ stamp[r] \in Nat /\ last \in Nat /\ touched \in Nat
      /\ spent \in Nat /\ forgiven \in Nat /\ slack \in Nat /\ log \in Seq(Decision)
  BY DEF RInv, TypeOK
<1>2. stamp[r] \div subWindow \in Nat
  BY <1>1, LimiterAssumption
<1>3. /\ limiter = "sliding" /\ limiter' = limiter /\ pc[r] = "decide"
      /\ pc' = [pc EXCEPT ![r] = "idle"] /\ stamp' = [stamp EXCEPT ![r] = 0]
      /\ present' = TRUE /\ touched' = now /\ now' = now
      /\ tokens' = tokens /\ last' = last
  BY DEF slidingWindowDecide, Decided, bucket
<1>4. spent' \in Nat /\ forgiven' \in Nat /\ slack' \in Nat
  <2>1. spent' = spent + Cost \/ spent' = spent
    BY DEF slidingWindowDecide, Decided
  <2>2. /\ slack' = slack + Rewound(stamp[r]) + Forgiven(stamp[r])
        /\ forgiven' = forgiven + Forgiven(stamp[r])
    BY DEF slidingWindowDecide, Decided
  <2>3. Rewound(stamp[r]) \in Nat /\ Forgiven(stamp[r]) \in Nat
    BY <1>1, SlackFacts DEF RInv
  <2> QED BY <1>1, <2>1, <2>2, <2>3
<1>5. log' = Append(log, [at |-> now, before |-> spent, after |-> spent',
                          mark |-> stamp[r], slack |-> slack'])
  BY DEF slidingWindowDecide, Decided
<1>6. [at |-> now, before |-> spent, after |-> spent', mark |-> stamp[r],
       slack |-> slack'] \in Decision
  BY <1>1, <1>4 DEF Decision
<1>7. log' \in Seq(Decision) /\ Len(log) + 1 \in DOMAIN log'
  BY <1>1, <1>5, <1>6, AppendFacts
<1>8. lastAbsSub' \in Nat
  <2>1. lastAbsSub' = lastAbsSub \/ lastAbsSub' = stamp[r] \div subWindow
    BY DEF slidingWindowDecide
  <2> QED BY <1>2, <2>1 DEF RInv, TypeOK
<1>9. buckets' \in [Ring -> Nat]
  <2>1. Rolled(stamp[r] \div subWindow) \in [Ring -> Nat]
    BY DEF Rolled, RInv, TypeOK
  <2>2. \/ buckets' = Rolled(stamp[r] \div subWindow)
        \/ buckets' = [Rolled(stamp[r] \div subWindow) EXCEPT
                         ![(stamp[r] \div subWindow) % slidingBuckets] = @ + 1]
    BY DEF slidingWindowDecide
  <2> QED BY <2>1, <2>2
<1>10. TypeOK'
  <2>1. present' \in BOOLEAN
    BY <1>3
  <2>2. /\ now' \in Nat /\ limiter' \in {"token", "sliding", "redis"}
        /\ last' \in Nat /\ touched' \in Nat /\ tokens' \in 0 .. Capacity
    BY <1>1, <1>3 DEF RInv, TypeOK
  <2>3. pc' \in [Request -> {"idle", "decide"}] /\ stamp' \in [Request -> Nat]
    BY <1>3 DEF RInv, TypeOK
  <2> QED BY <1>4, <1>7, <1>8, <1>9, <2>1, <2>2, <2>3 DEF TypeOK
<1>11. ClockOK'
  BY <1>3 DEF RInv, TypeOK, ClockOK
<1>12. ~IsBucket'
  BY <1>3 DEF IsBucket
<1>13. EntryOK'
  <2>1. log' # << >>
    BY <1>7
  <2>2. last <= touched /\ touched <= now
    BY DEF RInv, EntryOK
  <2> QED BY <1>1, <1>3, <1>12, <2>1, <2>2 DEF EntryOK
<1> QED BY <1>10, <1>11, <1>12, <1>13 DEF RInv

LEMMA StepHolds == RInv /\ [Next]_vars => RInv'
<1> SUFFICES ASSUME RInv, [Next]_vars PROVE RInv'
  OBVIOUS
<1> USE CapacityType
<1>1. ASSUME NEW r \in Request, ReadClock(r) PROVE RInv'
  <2>1. TypeOK'
    <3>1. pc' \in [Request -> {"idle", "decide"}] /\ stamp' \in [Request -> Nat]
      BY <1>1 DEF RInv, TypeOK, ReadClock
    <3> QED BY <1>1, <3>1 DEF RInv, TypeOK, ReadClock, bucket, ring, history
  <2>2. ClockOK'
    BY <1>1 DEF RInv, TypeOK, ClockOK, ReadClock
  <2>3. EntryOK'
    BY <1>1 DEF RInv, EntryOK, IsBucket, CoversRefill, ReadClock, bucket, history
  <2>4. UNCHANGED <<limiter, tokens, last, spent, slack, log>>
    BY <1>1 DEF ReadClock, bucket, history
  <2> QED BY <2>1, <2>2, <2>3, <2>4, HistoryKept DEF RInv
<1>2. ASSUME NEW r \in Request, tokenBucketDecide(r) PROVE RInv'
  <2>1. BucketStep(r, Refill(stamp[r]), Mark(stamp[r])) /\ limiter = "token"
    BY <1>2, TokenStep DEF RInv
  <2>2. stamp[r] \in Nat /\ last \in Nat
    BY DEF RInv, TypeOK
  <2>3. Mark(stamp[r]) \in Nat
    BY <2>2 DEF Mark
  <2>4. Refill(stamp[r]) \in 0 .. Capacity
    BY <2>2, RefillFacts DEF RInv
  <2>5. Granted(r, Refill(stamp[r]), Mark(stamp[r]))
    <3>1. CASE present /\ stamp[r] < last
      <4>1. Mark(stamp[r]) = last
        BY <3>1 DEF Mark
      <4>2. Refill(stamp[r]) = tokens
        BY <2>2, <3>1, RefillFacts DEF RInv
      <4>3. tokens \in Nat
        BY DEF RInv, TypeOK
      <4>4. tokens + (last - last) = tokens
        BY <2>2, <4>3
      <4>5. tokens <= tokens + (last - last)
        BY <2>2, <4>3
      <4> QED BY <2>2, <3>1, <4>1, <4>2, <4>4, <4>5 DEF Granted
    <3>2. CASE ~(present /\ stamp[r] < last)
      <4>1. Mark(stamp[r]) = stamp[r]
        BY <3>2 DEF Mark
      <4> QED BY <2>2, <3>2, <4>1, RefillFacts DEF Granted, RInv
    <3> QED BY <3>1, <3>2
  <2> QED BY <2>1, <2>3, <2>4, <2>5, BucketKeeps DEF IsBucket
<1>3. ASSUME NEW r \in Request, tokenBucketLua(r) PROVE RInv'
  <2>1. BucketStep(r, Refill(stamp[r]), stamp[r]) /\ limiter = "redis"
    BY <1>3, LuaStep DEF RInv
  <2>2. stamp[r] \in Nat /\ last \in Nat
    BY DEF RInv, TypeOK
  <2>3. Refill(stamp[r]) \in 0 .. Capacity
    BY <2>2, RefillFacts DEF RInv
  <2>4. Granted(r, Refill(stamp[r]), stamp[r])
    BY <2>2, RefillFacts DEF Granted, RInv
  <2> QED BY <2>1, <2>2, <2>3, <2>4, BucketKeeps DEF IsBucket
<1>4. ASSUME NEW r \in Request, slidingWindowDecide(r) PROVE RInv'
  BY <1>4, SlidingKeeps
<1>5. ASSUME NEW r \in Request, RedisError(r) PROVE RInv'
  <2>1. TypeOK'
    <3>1. pc' \in [Request -> {"idle", "decide"}] /\ stamp' \in [Request -> Nat]
      BY <1>5 DEF RInv, TypeOK, RedisError
    <3> QED BY <1>5, <3>1 DEF RInv, TypeOK, RedisError, bucket, ring, history
  <2>2. ClockOK'
    BY <1>5 DEF RInv, TypeOK, ClockOK, RedisError
  <2>3. EntryOK'
    BY <1>5 DEF RInv, EntryOK, IsBucket, CoversRefill, RedisError, bucket, history
  <2>4. UNCHANGED <<limiter, tokens, last, spent, slack, log>>
    BY <1>5 DEF RedisError, bucket, history
  <2> QED BY <2>1, <2>2, <2>3, <2>4, HistoryKept DEF RInv
<1>6. ASSUME Sweep PROVE RInv'
  <2>1. TypeOK'
    <3>1. present' \in BOOLEAN
      BY <1>6 DEF Sweep
    <3> QED BY <1>6, <3>1 DEF RInv, TypeOK, Sweep, bucket, ring, history
  <2>2. ClockOK'
    BY <1>6 DEF RInv, ClockOK, Sweep
  <2>3. ASSUME CoversRefill PROVE touched + Capacity + MaxDelay <= now
    <3>1. touched \in Nat /\ now \in Nat /\ EntryTTL \in Nat /\ RedisTTL \in Nat
      BY LimiterAssumption DEF RInv, TypeOK, RedisTTL, Window
    <3>2. CASE limiter = "redis"
      <4>1. Capacity + MaxDelay <= RedisTTL /\ touched + RedisTTL <= now
        BY <1>6, <2>3, <3>2 DEF CoversRefill, Sweep, Stale
      <4> QED BY <3>1, <4>1
    <3>3. CASE limiter # "redis"
      <4>1. Capacity + MaxDelay <= EntryTTL /\ touched + EntryTTL < now
        BY <1>6, <2>3, <3>3 DEF CoversRefill, Sweep, Stale
      <4> QED BY <3>1, <4>1
    <3> QED BY <3>2, <3>3
  <2>4. EntryOK'
    BY <1>6, <2>3 DEF RInv, EntryOK, IsBucket, CoversRefill, Sweep, bucket, history
  <2>5. UNCHANGED <<limiter, tokens, last, spent, slack, log>>
    BY <1>6 DEF Sweep, bucket, history
  <2> QED BY <2>1, <2>2, <2>4, <2>5, HistoryKept DEF RInv
<1>7. ASSUME Tick PROVE RInv'
  <2>0. now \in Nat /\ touched \in Nat /\ last \in Nat /\ now' = now + 1
    BY <1>7 DEF RInv, TypeOK, Tick
  <2>1. TypeOK'
    BY <1>7, <2>0 DEF RInv, TypeOK, Tick, bucket, ring, history
  <2>2. ClockOK'
    <3> SUFFICES ASSUME NEW r \in Request, pc[r] = "decide"
                 PROVE  stamp[r] <= now' /\ now' <= stamp[r] + MaxDelay
      BY <1>7 DEF ClockOK, Tick
    <3>1. stamp[r] \in Nat /\ stamp[r] <= now
      BY DEF RInv, TypeOK, ClockOK
    <3>2. now < stamp[r] + MaxDelay
      BY <1>7 DEF Tick
    <3> QED BY <2>0, <3>1, <3>2
  <2>3. EntryOK'
    <3>1. /\ present' = present /\ log' = log /\ last' = last /\ touched' = touched
          /\ forgiven' = forgiven /\ limiter' = limiter
      BY <1>7 DEF Tick, bucket, history
    <3>2. last <= touched /\ touched <= now'
      BY <2>0 DEF RInv, EntryOK
    <3>3. CoversRefill /\ IsBucket =>
            /\ forgiven = 0
            /\ ~present /\ log # << >> => touched + Capacity + MaxDelay <= now'
      BY <2>0 DEF RInv, EntryOK
    <3> QED BY <3>1, <3>2, <3>3 DEF RInv, EntryOK, IsBucket, CoversRefill
  <2>4. UNCHANGED <<limiter, tokens, last, spent, slack, log>>
    BY <1>7 DEF Tick, bucket, history
  <2> QED BY <2>1, <2>2, <2>3, <2>4, HistoryKept DEF RInv
<1>8. ASSUME UNCHANGED vars PROVE RInv'
  <2>1. TypeOK'
    BY <1>8 DEF RInv, TypeOK, vars, bucket, ring, history
  <2>2. ClockOK'
    BY <1>8 DEF RInv, ClockOK, vars
  <2>3. EntryOK'
    BY <1>8 DEF RInv, EntryOK, IsBucket, CoversRefill, vars, bucket, history
  <2>4. UNCHANGED <<limiter, tokens, last, spent, slack, log>>
    BY <1>8 DEF vars, bucket, history
  <2> QED BY <2>1, <2>2, <2>3, <2>4, HistoryKept DEF RInv
<1> QED BY <1>1, <1>2, <1>3, <1>4, <1>5, <1>6, <1>7, <1>8 DEF Next

LEMMA Inductive == Spec => []RInv
<1>1. Init => RInv
  BY InitHolds
<1>2. RInv /\ [Next]_vars => RInv'
  BY StepHolds
<1> QED BY <1>1, <1>2, PTL DEF Spec

----------------------------------------------------------------------------
\* The variables of the limiters keep their types; the bucket is never negative and
\* never above its capacity.
THEOREM TypeCorrect == Spec => []TypeOK
<1>1. RInv => TypeOK
  BY DEF RInv
<1> QED BY <1>1, Inductive, PTL

\* For every limit, burst and TTL: neither bucket ever grants more than Burst tokens above
\* the refill rate, whatever the order of the decisions, but for what it gives away when
\* the clock of the script runs backwards or when it is dropped before it is full; and
\* the latter does not happen where the TTL covers the refill of the whole bucket.
THEOREM RateIsBounded == Spec => []RateBound
<1>1. RInv => RateBound
  <2>0. RInv /\ IsBucket => (CoversRefill => forgiven = 0)
    BY DEF RInv, EntryOK
  <2> SUFFICES ASSUME RInv, IsBucket, NEW i \in DOMAIN log, NEW j \in DOMAIN log, i <= j
               PROVE  log[j].after - log[i].before
                        <= Capacity + (log[j].at - log[i].at) + MaxDelay
                           + (log[j].slack - log[i].slack)
    BY <2>0 DEF RateBound, IsBucket
  <2> DEFINE a == log[j].after
             b == log[i].before
             mi == log[i].mark
             mj == log[j].mark
             ti == log[i].at
             tj == log[j].at
             vi == log[i].slack
             vj == log[j].slack
  <2>1. /\ a \in Int /\ b \in Int /\ mi \in Int /\ mj \in Int /\ ti \in Int /\ tj \in Int
        /\ vi \in Int /\ vj \in Int /\ Capacity \in Int /\ MaxDelay \in Int
    BY LogType, CapacityType DEF RInv
  <2>2. a - b <= Capacity + (mj - mi) + (vj - vi)
    BY DEF RInv, Spending
  <2>3. mj <= tj /\ ti <= mi + MaxDelay
    BY DEF RInv, LogOK
  <2> HIDE DEF a, b, mi, mj, ti, tj, vi, vj
  <2>4. \A x, y, p, q, s, t, u, v, c, d \in Int :
           x - y <= c + (q - p) + (v - u) /\ q <= t /\ s <= p + d
           => x - y <= c + (t - s) + d + (v - u)
    OBVIOUS
  <2>5. a - b <= Capacity + (tj - ti) + MaxDelay + (vj - vi)
    BY <2>1, <2>2, <2>3, <2>4, Zenon
  <2> QED BY <2>5 DEF a, b, ti, tj, vi, vj
<1> QED BY <1>1, Inductive, PTL

\* Neither bucket ever denies a request while its client stays within Burst and the
\* refill rate.
THEOREM DenialsAreEarned == Spec => []DenialEarned
<1>1. RInv => DenialEarned
  <2> SUFFICES ASSUME RInv, IsBucket, NEW n \in DOMAIN log, log[n].after = log[n].before
               PROVE  \E i \in 1 .. n :
                        log[n].before - log[i].before + Cost
                          > Capacity + (log[n].at - log[i].at) - MaxDelay
    BY DEF DenialEarned, IsBucket
  <2>1. PICK i \in 1 .. n :
           log[n].before - log[i].before + Cost > Capacity + (log[n].mark - log[i].mark)
    BY DEF RInv, Denials
  <2>2. i \in DOMAIN log
    <3>1. DOMAIN log = 1 .. Len(log) /\ Len(log) \in Nat
      BY DEF RInv, TypeOK
    <3> QED BY <3>1
  <2> DEFINE a == log[n].before
             b == log[i].before
             mi == log[i].mark
             mn == log[n].mark
             ti == log[i].at
             tn == log[n].at
  <2>3. /\ a \in Int /\ b \in Int /\ mi \in Int /\ mn \in Int /\ ti \in Int /\ tn \in Int
        /\ Capacity \in Int /\ MaxDelay \in Int /\ Cost \in Int
    BY <2>2, LogType, CapacityType DEF RInv
  <2>4. a - b + Cost > Capacity + (mn - mi)
    BY <2>1
  <2>5. mi <= ti /\ tn <= mn + MaxDelay
    BY <2>2 DEF RInv, LogOK
  <2> HIDE DEF a, b, mi, mn, ti, tn
  <2>6. \A x, y, p, q, s, t, k, c, d \in Int :
           x - y + k > c + (q - p) /\ p <= s /\ t <= q + d
           => x - y + k > c + (t - s) - d
    OBVIOUS
  <2>7. a - b + Cost > Capacity + (tn - ti) - MaxDelay
    BY <2>3, <2>4, <2>5, <2>6, Zenon
  <2> QED BY <2>7 DEF a, b, ti, tn
<1> QED BY <1>1, Inductive, PTL

----------------------------------------------------------------------------
(* The sum of the ring.                                                     *)

\* Induction over the naturals, for a set.
LEMMA SetInduction ==
    ASSUME NEW S, 0 \in S, \A n \in Nat : n \in S => n + 1 \in S
    PROVE  \A n \in Nat : n \in S
<1> DEFINE T == {n \in Nat : n \notin S}
           R == OpToRel(<, Nat)
<1>1. SUFFICES ASSUME T # {} PROVE FALSE
  OBVIOUS
<1>2. \A x, y \in Nat : <<y, x>> \in R <=> y < x
  BY DEF OpToRel
<1>3. T \subseteq Nat
  OBVIOUS
<1>4. PICK x \in T : \A y \in T : ~(<<y, x>> \in R)
  <2> HIDE DEF T
  <2> QED BY <1>1, <1>3, NatLessThanWellFounded, WFMin
<1> HIDE DEF R
<1>5. x \in Nat /\ x \notin S
  OBVIOUS
<1>6. x # 0 /\ x - 1 \in Nat /\ x - 1 < x
  BY <1>5
<1>7. x - 1 \in S
  BY <1>2, <1>4, <1>5, <1>6
<1> QED BY <1>5, <1>6, <1>7

\* The partial sums of a ring.
Sums(f, b) ==
    f \in [Ring -> Nat] /\ \A i \in Ring : f[i] = b[i] + (IF i = 0 THEN 0 ELSE f[i - 1])

\* The slots of the ring are the numbers below slidingBuckets.
LEMMA RingFacts ==
    /\ slidingBuckets \in Nat /\ slidingBuckets > 0 /\ slidingBuckets - 1 \in Ring /\ 0 \in Ring
    /\ \A i \in Ring : i \in Nat /\ i < slidingBuckets
    /\ \A i \in Ring : i # 0 => i - 1 \in Ring
    /\ \A i \in Nat : i < slidingBuckets => i \in Ring
BY LimiterAssumption DEF Ring

\* RingTotal is the last of them.
LEMMA TotalFacts ==
    ASSUME NEW b \in [Ring -> Nat]
    PROVE  \E f : Sums(f, b) /\ RingTotal(b) = f[slidingBuckets - 1]
<1> DEFINE at(i) == IF i \in Ring THEN b[i] ELSE 0
           P(f, n) == \A i \in 0 .. n : f[i] = at(i) + (IF i = 0 THEN 0 ELSE f[i - 1])
           S == {n \in Nat : \E f \in [0 .. n -> Nat] : P(f, n)}
<1>1. \A i \in Nat : at(i) \in Nat
  OBVIOUS
<1> HIDE DEF at
<1>2. 0 \in S
  <2> DEFINE h == [i \in 0 .. 0 |-> at(0)]
  <2>1. h \in [0 .. 0 -> Nat] /\ h[0] = at(0)
    BY <1>1
  <2>2. \A i \in 0 .. 0 : i = 0
    OBVIOUS
  <2> HIDE DEF h
  <2>3. P(h, 0)
    BY <1>1, <2>1, <2>2
  <2> QED BY <2>1, <2>3
<1>3. ASSUME NEW n \in Nat, n \in S PROVE n + 1 \in S
  <2>1. PICK f \in [0 .. n -> Nat] : P(f, n)
    BY <1>3
  <2> DEFINE h == [i \in 0 .. n + 1 |-> IF i = n + 1 THEN at(i) + f[n] ELSE f[i]]
  <2>2. h \in [0 .. n + 1 -> Nat]
    <3>1. ASSUME NEW i \in 0 .. n + 1
          PROVE  (IF i = n + 1 THEN at(i) + f[n] ELSE f[i]) \in Nat
      <4>1. i \in Nat /\ at(i) \in Nat /\ f[n] \in Nat /\ (i # n + 1 => i \in 0 .. n)
        BY <1>1
      <4> QED BY <4>1
    <3> QED BY <3>1
  <2>3. P(h, n + 1)
    <3> SUFFICES ASSUME NEW i \in 0 .. n + 1
                 PROVE  h[i] = at(i) + (IF i = 0 THEN 0 ELSE h[i - 1])
      OBVIOUS
    <3>1. CASE i = n + 1
      <4>1. h[n + 1] = at(n + 1) + f[n] /\ h[n] = f[n] /\ n + 1 # 0 /\ (n + 1) - 1 = n
        OBVIOUS
      <4> QED BY <3>1, <4>1
    <3>2. CASE i # n + 1
      <4>1. i \in 0 .. n /\ h[i] = f[i] /\ (i # 0 => h[i - 1] = f[i - 1])
        BY <3>2
      <4>2. f[i] = at(i) + (IF i = 0 THEN 0 ELSE f[i - 1])
        BY <2>1, <4>1
      <4> QED BY <4>1, <4>2
    <3> QED BY <3>1, <3>2
  <2>4. n + 1 \in Nat
    OBVIOUS
  <2> HIDE DEF h, P
  <2> QED BY <2>2, <2>3, <2>4
<1>4. slidingBuckets - 1 \in S
  <2> HIDE DEF S
  <2>1. \A n \in Nat : n \in S
    BY <1>2, <1>3, SetInduction
  <2> QED BY <2>1, RingFacts
<1>5. PICK f \in [Ring -> Nat] : \A i \in Ring : f[i] = b[i] + (IF i = 0 THEN 0 ELSE f[i - 1])
  BY <1>4, RingFacts DEF Ring, at
<1> DEFINE F == CHOOSE h : h = [i \in Ring |-> b[i] + (IF i = 0 THEN 0 ELSE h[i - 1])]
<1>6. f = [i \in Ring |-> b[i] + (IF i = 0 THEN 0 ELSE f[i - 1])]
  BY <1>5
<1>7. F = [i \in Ring |-> b[i] + (IF i = 0 THEN 0 ELSE F[i - 1])]
  BY <1>6
<1>8. RingTotal(b) = F[slidingBuckets - 1]
  BY DEF RingTotal
<1> HIDE DEF F
<1>9. F = f
  <2> DEFINE E == {n \in Nat : n \in Ring => F[n] = f[n]}
  <2>1. 0 \in E
    BY <1>5, <1>7, RingFacts
  <2>2. ASSUME NEW n \in Nat, n \in E PROVE n + 1 \in E
    <3> SUFFICES ASSUME n + 1 \in Ring PROVE F[n + 1] = f[n + 1]
      OBVIOUS
    <3>1. n \in Ring /\ n + 1 # 0 /\ (n + 1) - 1 = n
      BY RingFacts
    <3>2. F[n + 1] = b[n + 1] + F[n] /\ f[n + 1] = b[n + 1] + f[n]
      BY <1>5, <1>7, <3>1
    <3> QED BY <2>2, <3>1, <3>2
  <2>3. \A n \in Nat : n \in E
    <3> HIDE DEF E
    <3> QED BY <2>1, <2>2, SetInduction
  <2>4. \A i \in Ring : F[i] = f[i]
    BY <2>3, RingFacts
  <2> QED BY <1>5, <1>7, <2>4
<1> QED BY <1>5, <1>8, <1>9 DEF Sums

\* The sum is monotone.
LEMMA TotalMonotone ==
    ASSUME NEW b \in [Ring -> Nat], NEW c \in [Ring -> Nat], \A i \in Ring : c[i] <= b[i]
    PROVE  RingTotal(c) \in Nat /\ RingTotal(b) \in Nat /\ RingTotal(c) <= RingTotal(b)
<1>1. PICK f : Sums(f, b) /\ RingTotal(b) = f[slidingBuckets - 1]
  BY TotalFacts
<1>2. PICK h : Sums(h, c) /\ RingTotal(c) = h[slidingBuckets - 1]
  BY TotalFacts
<1> DEFINE S == {n \in Nat : n \in Ring => h[n] <= f[n]}
<1>3. 0 \in S
  BY <1>1, <1>2, RingFacts DEF Sums
<1>4. ASSUME NEW n \in Nat, n \in S PROVE n + 1 \in S
  <2> SUFFICES ASSUME n + 1 \in Ring PROVE h[n + 1] <= f[n + 1]
    OBVIOUS
  <2>1. n \in Ring /\ n + 1 # 0 /\ (n + 1) - 1 = n
    BY RingFacts
  <2>2. h[n + 1] = c[n + 1] + h[n] /\ f[n + 1] = b[n + 1] + f[n]
    BY <1>1, <1>2, <2>1 DEF Sums
  <2>3. h[n] \in Nat /\ f[n] \in Nat /\ h[n] <= f[n]
    BY <1>1, <1>2, <1>4, <2>1 DEF Sums
  <2> QED BY <2>2, <2>3
<1>5. \A n \in Nat : n \in S
  <2> HIDE DEF S
  <2> QED BY <1>3, <1>4, SetInduction
<1> QED BY <1>1, <1>2, <1>5, RingFacts DEF Sums

\* One more sample is one more in the sum.
LEMMA TotalCounts ==
    ASSUME NEW b \in [Ring -> Nat], NEW x \in Ring
    PROVE  RingTotal([b EXCEPT ![x] = @ + 1]) = RingTotal(b) + 1
<1> DEFINE c == [b EXCEPT ![x] = @ + 1]
<1>0. c \in [Ring -> Nat] /\ c[x] = b[x] + 1 /\ \A i \in Ring : i # x => c[i] = b[i]
  OBVIOUS
<1> HIDE DEF c
<1>1. PICK f : Sums(f, b) /\ RingTotal(b) = f[slidingBuckets - 1]
  BY TotalFacts
<1>2. PICK h : Sums(h, c) /\ RingTotal(c) = h[slidingBuckets - 1]
  BY <1>0, TotalFacts
<1> DEFINE S == {n \in Nat : n \in Ring => h[n] = f[n] + (IF n < x THEN 0 ELSE 1)}
<1>3. 0 \in S
  BY <1>0, <1>1, <1>2, RingFacts DEF Sums
<1>4. ASSUME NEW n \in Nat, n \in S PROVE n + 1 \in S
  <2> SUFFICES ASSUME n + 1 \in Ring PROVE h[n + 1] = f[n + 1] + (IF n + 1 < x THEN 0 ELSE 1)
    OBVIOUS
  <2>1. n \in Ring /\ n + 1 # 0 /\ (n + 1) - 1 = n /\ x \in Nat
    BY RingFacts
  <2>2. h[n + 1] = c[n + 1] + h[n] /\ f[n + 1] = b[n + 1] + f[n]
    BY <1>1, <1>2, <2>1 DEF Sums
  <2>3. h[n] \in Nat /\ f[n] \in Nat /\ h[n] = f[n] + (IF n < x THEN 0 ELSE 1)
    BY <1>1, <1>2, <1>4, <2>1 DEF Sums
  <2>4. b[n + 1] \in Nat /\ c[n + 1] = b[n + 1] + (IF n + 1 = x THEN 1 ELSE 0)
    BY <1>0
  <2> QED BY <2>1, <2>2, <2>3, <2>4
<1>5. \A n \in Nat : n \in S
  <2> HIDE DEF S
  <2> QED BY <1>3, <1>4, SetInduction
<1>6. h[slidingBuckets - 1] = f[slidingBuckets - 1] + 1
  BY <1>5, RingFacts
<1> QED BY <1>1, <1>2, <1>6 DEF c

\* An empty ring sums to zero.
LEMMA TotalZero == RingTotal([i \in Ring |-> 0]) = 0
<1> DEFINE z == [i \in Ring |-> 0]
<1>0. z \in [Ring -> Nat] /\ \A i \in Ring : z[i] = 0
  OBVIOUS
<1> HIDE DEF z
<1>1. PICK f : Sums(f, z) /\ RingTotal(z) = f[slidingBuckets - 1]
  BY <1>0, TotalFacts
<1> DEFINE S == {n \in Nat : n \in Ring => f[n] = 0}
<1>2. 0 \in S
  BY <1>0, <1>1, RingFacts DEF Sums
<1>3. ASSUME NEW n \in Nat, n \in S PROVE n + 1 \in S
  <2> SUFFICES ASSUME n + 1 \in Ring PROVE f[n + 1] = 0
    OBVIOUS
  <2>1. n \in Ring /\ n + 1 # 0 /\ (n + 1) - 1 = n
    BY RingFacts
  <2>2. f[n + 1] = z[n + 1] + f[n]
    BY <1>1, <2>1 DEF Sums
  <2> QED BY <1>0, <1>3, <2>1, <2>2
<1>4. \A n \in Nat : n \in S
  <2> HIDE DEF S
  <2> QED BY <1>2, <1>3, SetInduction
<1> QED BY <1>1, <1>4, RingFacts DEF z

----------------------------------------------------------------------------
(* Sub-windows and slots.                                                   *)

\* Products with a fixed factor.
LEMMA Times ==
    ASSUME NEW w \in Nat, NEW a \in Nat, NEW b \in Nat
    PROVE  /\ a * w \in Nat /\ (a + b) * w = a * w + b * w /\ (a + 1) * w = a * w + w
           /\ a <= b => a * w <= b * w
           /\ w * a = a * w /\ w * (a + 1) = w * a + w
<1>1. a * w \in Nat /\ b * w \in Nat /\ w * a = a * w
  OBVIOUS
<1>2. (a + b) * w = a * w + b * w /\ (a + 1) * w = a * w + w
  OBVIOUS
<1>3. w * (a + 1) = w * a + w
  OBVIOUS
<1>4. ASSUME a <= b PROVE a * w <= b * w
  <2>1. PICK d \in Nat : b = a + d
    <3>1. b - a \in Nat /\ b = a + (b - a)
      BY <1>4
    <3> QED BY <3>1
  <2>2. d * w \in Nat /\ b * w = a * w + d * w
    BY <2>1
  <2> QED BY <1>1, <2>2
<1> QED BY <1>1, <1>2, <1>3, <1>4

\* Quotient and remainder.
LEMMA Division ==
    ASSUME NEW t \in Nat, NEW w \in Nat, w > 0
    PROVE  /\ t \div w \in Nat /\ t % w \in Nat /\ t % w < w
           /\ t = w * (t \div w) + (t % w)
<1>1. t \div w \in Nat
  OBVIOUS
<1>2. t % w \in Nat /\ t % w < w
  OBVIOUS
<1> DEFINE a == t \div w
           e == t % w
<1>3. t = w * a + e
  OBVIOUS
<1> QED BY <1>1, <1>2, <1>3

\* A sub-window holds the instants from its start to the next one.
LEMMA SubWindow ==
    ASSUME NEW t \in Nat, NEW w \in Nat, w > 0
    PROVE  t \div w \in Nat /\ (t \div w) * w <= t /\ t < (t \div w + 1) * w
<1> DEFINE s == t \div w
           e == t % w
<1> HIDE DEF s, e
<1>3. s \in Nat /\ e \in Nat /\ t = w * s + e /\ e < w
  BY Division DEF s, e
<1>4. w * s = s * w /\ (s + 1) * w = s * w + w /\ s * w \in Nat
  BY <1>3, Times
<1>5. s * w <= t /\ t < (s + 1) * w
  BY <1>3, <1>4
<1> QED BY <1>3, <1>5 DEF s

\* Two sub-windows share a slot only a whole window apart.
LEMMA SlotsApart ==
    ASSUME NEW n \in Nat, n > 0, NEW s \in Nat, NEW u \in Nat, s % n = u % n, s < u
    PROVE  s + n <= u
<1> DEFINE a == s \div n
           b == u \div n
           e == s % n
<1>1. a \in Nat /\ b \in Nat /\ s = n * a + e /\ u = n * b + e /\ e \in Nat
  OBVIOUS
<1> HIDE DEF a, b, e
<1>2. n * a = a * n /\ n * b = b * n /\ (a + 1) * n = a * n + n /\ a * n \in Nat /\ b * n \in Nat
  BY <1>1, Times
<1>3. ~(b <= a)
  <2>1. b <= a => b * n <= a * n
    BY <1>1, Times
  <2> QED BY <1>1, <1>2, <2>1
<1>4. a + 1 <= b
  BY <1>1, <1>3
<1>5. (a + 1) * n <= b * n
  BY <1>1, <1>4, Times
<1> QED BY <1>1, <1>2, <1>5

\* A number below n is its own remainder, also after multiples of n.
LEMMA Remainder ==
    ASSUME NEW n \in Nat, n > 0, NEW a \in Nat, NEW x \in Nat, x < n
    PROVE  (n * a + x) % n = x
<1> DEFINE s == n * a + x
<1>0. n * a \in Nat /\ s \in Nat
  BY Times
<1> DEFINE b == s \div n
           e == s % n
<1> HIDE DEF s, b, e
<1>2. s = n * b + e /\ b \in Nat /\ e \in Nat /\ e < n /\ s = n * a + x
  BY <1>0, Division DEF s, b, e
<1>3. /\ n * a = a * n /\ n * b = b * n /\ (a + 1) * n = a * n + n /\ (b + 1) * n = b * n + n
      /\ a * n \in Nat /\ b * n \in Nat
  BY <1>2, Times
<1>4. ~(a < b)
  <2>1. a + 1 <= b => (a + 1) * n <= b * n
    BY <1>2, Times
  <2> QED BY <1>2, <1>3, <2>1
<1>5. ~(b < a)
  <2>1. b + 1 <= a => (b + 1) * n <= a * n
    BY <1>2, Times
  <2> QED BY <1>2, <1>3, <2>1
<1>6. a = b
  BY <1>2, <1>4, <1>5
<1>7. e = x
  BY <1>2, <1>3, <1>6
<1> QED BY <1>7 DEF s, e

\* As many sub-windows as the ring has slots use every slot.
LEMMA SlotsCovered ==
    ASSUME NEW m \in Nat, NEW x \in Ring
    PROVE  \E s \in m .. (m + slidingBuckets - 1) : s % slidingBuckets = x
<1> DEFINE n == slidingBuckets
           a == m \div n
           e == m % n
<1>1. n \in Nat /\ n > 0 /\ x \in Nat /\ x < n
  BY RingFacts
<1>2. a \in Nat /\ e \in Nat /\ e < n /\ m = n * a + e
  BY <1>1
<1> HIDE DEF n, a, e
<1>3. n * a \in Nat /\ n * (a + 1) = n * a + n
  BY <1>1, <1>2, Times
<1>4. CASE e <= x
  <2>1. (n * a + x) % n = x
    BY <1>1, <1>2, Remainder
  <2>2. n * a + x \in m .. (m + n - 1)
    BY <1>1, <1>2, <1>3, <1>4
  <2> QED BY <2>1, <2>2 DEF n
<1>5. CASE x < e
  <2>1. (n * (a + 1) + x) % n = x
    BY <1>1, <1>2, Remainder
  <2>2. n * (a + 1) + x \in m .. (m + n - 1)
    BY <1>1, <1>2, <1>3, <1>5
  <2> QED BY <2>1, <2>2 DEF n
<1> QED BY <1>1, <1>2, <1>4, <1>5

\* Every sub-window has its slot.
LEMMA SlotInRing == \A s \in Nat : s % slidingBuckets \in Ring
<1> SUFFICES ASSUME NEW s \in Nat PROVE s % slidingBuckets \in Ring
  OBVIOUS
<1> QED BY RingFacts, Division

----------------------------------------------------------------------------
(* The ring of the sliding window and its history.                          *)

\* The decision is a full span of the ring ago.
Expired(i) == now - log[i].at + MaxDelay > (slidingBuckets - 1) * subWindow

\* The samples c of the ring cover what was admitted since a decision at the instant at,
\* and each of them is of a sub-window that had not ended long before it.
Covers(c, ringNow, spentNow, sub, at, before) ==
    /\ \A x \in Ring : c[x] <= ringNow[x]
    /\ spentNow - before <= Cost * RingTotal(c)
    /\ \A x \in Ring : c[x] > 0 =>
          \E s \in 0 .. sub :
              s % slidingBuckets = x /\ at < (s + 1) * subWindow + MaxDelay

Remembers ==
    \A i \in DOMAIN log :
        \/ Expired(i)
        \/ present /\ \E c \in [Ring -> Nat] :
               Covers(c, buckets, spent, lastAbsSub, log[i].at, log[i].before)

\* The samples d were all admitted since a decision that is no older than sub-window m, and
\* the ring holds more than d only in slots that no sub-window since m has used.
Recent(d, m, ringNow, spentNow, sub, at, before) ==
    /\ m * subWindow <= at
    /\ Cost * RingTotal(d) <= spentNow - before
    /\ \A x \in Ring : d[x] < ringNow[x] => \A s \in m .. sub : s % slidingBuckets # x

Forgets ==
    present => \A m \in 0 .. lastAbsSub :
        \E i \in DOMAIN log, d \in [Ring -> Nat] :
            Recent(d, m, buckets, spent, lastAbsSub, log[i].at, log[i].before)

RingOK ==
    /\ RingTotal(buckets) <= Limit
    /\ Cost * RingTotal(buckets) <= spent
    /\ lastAbsSub * subWindow <= now
    /\ log = << >> => spent = 0
    /\ log # << >> => log[1].before = 0
    /\ \A i \in DOMAIN log : log[i].at <= touched /\ log[i].before <= spent

SInv == limiter = "sliding" => RingOK /\ Remembers /\ Forgets /\ SlidingExact

----------------------------------------------------------------------------
\* The ring c with the sample of an admitted request.
Sampled(c, s, admit) == IF admit THEN [c EXCEPT ![s % slidingBuckets] = @ + 1] ELSE c
Gain(admit) == IF admit THEN Cost ELSE 0

\* The constants of the sliding window.
LEMMA LimiterFacts ==
    /\ Limit \in Nat /\ Limit > 0 /\ Cost \in Nat /\ Cost > 0 /\ MaxDelay \in Nat
    /\ slidingBuckets \in Nat /\ slidingBuckets > 0 /\ subWindow \in Nat /\ subWindow > 0
    /\ Window = Limit * Cost /\ Window = slidingBuckets * subWindow /\ Window \in Nat
    /\ slidingBuckets - 1 \in Nat /\ (slidingBuckets - 1) * subWindow \in Nat
    /\ slidingBuckets * subWindow = (slidingBuckets - 1) * subWindow + subWindow
<1>1. /\ Limit \in Nat /\ Limit > 0 /\ Cost \in Nat /\ Cost > 0 /\ MaxDelay \in Nat
      /\ slidingBuckets \in Nat /\ slidingBuckets > 0 /\ subWindow \in Nat /\ subWindow > 0
      /\ Window = Limit * Cost /\ Window = slidingBuckets * subWindow
  BY LimiterAssumption DEF Window
<1>2. PICK k \in Nat : k = slidingBuckets - 1 /\ slidingBuckets = k + 1
  BY <1>1
<1>3. k * subWindow \in Nat /\ (k + 1) * subWindow = k * subWindow + subWindow
  BY <1>1, <1>2, Times
<1>4. Window \in Nat
  <2>1. Limit * Cost \in Nat
    BY <1>1, Times
  <2> QED BY <1>1, <2>1
<1> QED BY <1>1, <1>2, <1>3, <1>4

\* The sum of a ring and its cost are natural numbers.
LEMMA TotalType == \A c \in [Ring -> Nat] : RingTotal(c) \in Nat /\ Cost * RingTotal(c) \in Nat
<1> SUFFICES ASSUME NEW c \in [Ring -> Nat]
             PROVE  RingTotal(c) \in Nat /\ Cost * RingTotal(c) \in Nat
  OBVIOUS
<1>1. \A i \in Ring : c[i] <= c[i]
  OBVIOUS
<1>2. RingTotal(c) \in Nat
  BY <1>1, TotalMonotone
<1> QED BY <1>2, Times, LimiterFacts

\* The cost of a ring is monotone.
LEMMA CostMonotone ==
    ASSUME NEW b \in [Ring -> Nat], NEW c \in [Ring -> Nat], \A i \in Ring : c[i] <= b[i]
    PROVE  RingTotal(c) <= RingTotal(b) /\ Cost * RingTotal(c) <= Cost * RingTotal(b)
<1>1. RingTotal(c) \in Nat /\ RingTotal(b) \in Nat /\ RingTotal(c) <= RingTotal(b)
  BY TotalMonotone
<1>2. /\ RingTotal(c) * Cost <= RingTotal(b) * Cost
      /\ Cost * RingTotal(c) = RingTotal(c) * Cost /\ Cost * RingTotal(b) = RingTotal(b) * Cost
  BY <1>1, Times, LimiterFacts
<1> QED BY <1>1, <1>2

\* A sample adds its cost, and only in its slot.
LEMMA SampledFacts ==
    ASSUME NEW c \in [Ring -> Nat], NEW s \in Nat, NEW admit \in BOOLEAN
    PROVE  /\ Sampled(c, s, admit) \in [Ring -> Nat]
           /\ RingTotal(Sampled(c, s, admit)) = RingTotal(c) + (IF admit THEN 1 ELSE 0)
           /\ Cost * RingTotal(Sampled(c, s, admit)) = Cost * RingTotal(c) + Gain(admit)
           /\ \A x \in Ring : Sampled(c, s, admit)[x]
                 = c[x] + (IF admit /\ x = s % slidingBuckets THEN 1 ELSE 0)
<1>1. s % slidingBuckets \in Ring
  BY SlotInRing
<1>2. RingTotal(c) \in Nat
  BY TotalType
<1>3. CASE admit
  <2>1. Sampled(c, s, admit) = [c EXCEPT ![s % slidingBuckets] = @ + 1] /\ Gain(admit) = Cost
    BY <1>3 DEF Sampled, Gain
  <2>2. RingTotal(Sampled(c, s, admit)) = RingTotal(c) + 1
    BY <1>1, <2>1, TotalCounts
  <2>3. Cost * (RingTotal(c) + 1) = Cost * RingTotal(c) + Cost
    BY <1>2, Times, LimiterFacts
  <2> DEFINE y == s % slidingBuckets
             h == Sampled(c, s, admit)
  <2>a. y \in Ring /\ h = [c EXCEPT ![y] = @ + 1]
    BY <1>1, <2>1
  <2> HIDE DEF y, h
  <2>b. h \in [Ring -> Nat] /\ h[y] = c[y] + 1 /\ \A x \in Ring : x # y => h[x] = c[x]
    BY <2>a
  <2>4. Sampled(c, s, admit) \in [Ring -> Nat]
    BY <2>b DEF h
  <2>5. \A x \in Ring : Sampled(c, s, admit)[x]
            = c[x] + (IF admit /\ x = s % slidingBuckets THEN 1 ELSE 0)
    <3> SUFFICES ASSUME NEW x \in Ring PROVE h[x] = c[x] + (IF x = y THEN 1 ELSE 0)
      BY <1>3 DEF h, y
    <3>1. c[x] \in Nat
      OBVIOUS
    <3> QED BY <2>b, <3>1
  <2>6. Cost * RingTotal(Sampled(c, s, admit)) = Cost * RingTotal(c) + Gain(admit)
    BY <2>1, <2>2, <2>3
  <2> QED BY <1>3, <2>2, <2>4, <2>5, <2>6
<1>4. CASE ~admit
  <2>1. Sampled(c, s, admit) = c /\ Gain(admit) = 0
    BY <1>4 DEF Sampled, Gain
  <2>2. RingTotal(c) + 0 = RingTotal(c) /\ Cost * RingTotal(c) + 0 = Cost * RingTotal(c)
    BY <1>2, TotalType
  <2> QED BY <1>4, <2>1, <2>2
<1> QED BY <1>3, <1>4

\* The ring without samples.
LEMMA NoSamples ==
    /\ [x \in Ring |-> 0] \in [Ring -> Nat]
    /\ RingTotal([x \in Ring |-> 0]) = 0 /\ Cost * RingTotal([x \in Ring |-> 0]) = 0
BY TotalZero, LimiterFacts

\* What a decision does, with s the sub-window of its clock.
LEMMA SlidingFacts ==
    ASSUME RInv, NEW r \in Request, slidingWindowDecide(r), NEW s, s = stamp[r] \div subWindow,
           NEW b, b = Rolled(s), NEW admit, admit = (RingTotal(b) < Limit)
    PROVE  /\ s \in Nat /\ b \in [Ring -> Nat] /\ admit \in BOOLEAN
           /\ s * subWindow <= now /\ now < (s + 1) * subWindow + MaxDelay
           /\ lastAbsSub' \in Nat /\ s <= lastAbsSub'
           /\ present => lastAbsSub <= lastAbsSub'
           /\ lastAbsSub' = s \/ (present /\ lastAbsSub' = lastAbsSub)
           /\ buckets' = Sampled(b, s, admit)
           /\ spent' = spent + Gain(admit) /\ Gain(admit) \in Nat
           /\ \A x \in Ring : b[x] <= buckets[x]
           /\ \A x \in Ring : b[x] > 0 =>
                 /\ present /\ b[x] = buckets[x]
                 /\ \A u \in (lastAbsSub + 1) .. s : u % slidingBuckets # x
           /\ \A x \in Ring : present /\ b[x] # buckets[x] =>
                 \E u \in (lastAbsSub + 1) .. s : u % slidingBuckets = x
<1>1. /\ now \in Nat /\ stamp[r] \in Nat /\ lastAbsSub \in Nat /\ spent \in Nat
      /\ buckets \in [Ring -> Nat] /\ stamp[r] <= now /\ now <= stamp[r] + MaxDelay
  BY DEF RInv, TypeOK, ClockOK, slidingWindowDecide
<1>2. s \in Nat /\ s * subWindow <= stamp[r] /\ stamp[r] < (s + 1) * subWindow
  BY <1>1, SubWindow, LimiterFacts
<1>3. s * subWindow \in Nat /\ (s + 1) * subWindow = s * subWindow + subWindow
  BY <1>2, Times, LimiterFacts
<1>4. s * subWindow <= now /\ now < (s + 1) * subWindow + MaxDelay
  BY <1>1, <1>2, <1>3, LimiterFacts
<1>5. b \in [Ring -> Nat]
  BY <1>1 DEF Rolled
<1>6. admit \in BOOLEAN
  OBVIOUS
<1>7. lastAbsSub' = IF present /\ s < lastAbsSub THEN lastAbsSub ELSE s
  BY DEF slidingWindowDecide
<1>8. /\ lastAbsSub' \in Nat /\ s <= lastAbsSub' /\ (present => lastAbsSub <= lastAbsSub')
      /\ lastAbsSub' = s \/ (present /\ lastAbsSub' = lastAbsSub)
  <2>1. CASE present /\ s < lastAbsSub
    BY <1>1, <1>2, <1>7, <2>1
  <2>2. CASE ~(present /\ s < lastAbsSub)
    BY <1>1, <1>2, <1>7, <2>2
  <2> QED BY <2>1, <2>2
<1>9. buckets' = Sampled(b, s, admit)
  BY DEF slidingWindowDecide, Sampled
<1>10. spent' = spent + Gain(admit) /\ Gain(admit) \in Nat
  <2>1. spent' = IF admit THEN spent + Cost ELSE spent
    BY DEF slidingWindowDecide, Decided
  <2>2. CASE admit
    BY <1>1, <2>1, <2>2, LimiterFacts DEF Gain
  <2>3. CASE ~admit
    BY <1>1, <2>1, <2>3, LimiterFacts DEF Gain
  <2> QED BY <2>2, <2>3
<1>11. \A x \in Ring :
          /\ b[x] = buckets[x] \/ b[x] = 0
          /\ b[x] # 0 => present /\ \A u \in (lastAbsSub + 1) .. s : u % slidingBuckets # x
          /\ present /\ b[x] # buckets[x] =>
                \E u \in (lastAbsSub + 1) .. s : u % slidingBuckets = x
  <2> SUFFICES ASSUME NEW x \in Ring
               PROVE  /\ b[x] = buckets[x] \/ b[x] = 0
                      /\ b[x] # 0 =>
                           present /\ \A u \in (lastAbsSub + 1) .. s : u % slidingBuckets # x
                      /\ present /\ b[x] # buckets[x] =>
                           \E u \in (lastAbsSub + 1) .. s : u % slidingBuckets = x
    OBVIOUS
  <2>1. b[x] = IF present /\ \A u \in (lastAbsSub + 1) .. s : u % slidingBuckets # x
               THEN buckets[x] ELSE 0
    BY DEF Rolled
  <2> QED BY <2>1, Zenon
<1>12. \A x \in Ring : b[x] \in Nat /\ buckets[x] \in Nat
  BY <1>1, <1>5
<1>13. \A x \in Ring : b[x] <= buckets[x]
  BY <1>11, <1>12
<1>14. \A x \in Ring : b[x] > 0 =>
                 /\ present /\ b[x] = buckets[x]
                 /\ \A u \in (lastAbsSub + 1) .. s : u % slidingBuckets # x
  BY <1>11, <1>12
<1> QED BY <1>2, <1>4, <1>5, <1>6, <1>8, <1>9, <1>10, <1>11, <1>13, <1>14

\* The log gains the decision.
LEMMA SlidingLog ==
    ASSUME RInv, NEW r \in Request, slidingWindowDecide(r), NEW n, n = Len(log) + 1
    PROVE  /\ n \in Nat /\ n >= 1 /\ DOMAIN log = 1 .. Len(log) /\ DOMAIN log' = 1 .. n
           /\ DOMAIN log' = DOMAIN log \cup {n}
           /\ \A i \in DOMAIN log : log'[i] = log[i] /\ i < n
           /\ log'[n].at = now /\ log'[n].before = spent /\ log'[n].after = spent'
           /\ now' = now /\ present' = TRUE /\ touched' = now /\ limiter' = limiter
           /\ limiter = "sliding"
<1> DEFINE e == [at |-> now, before |-> spent, after |-> spent', mark |-> stamp[r],
                 slack |-> slack']
<1>1. /\ now' = now /\ present' = TRUE /\ touched' = now /\ limiter' = limiter
      /\ limiter = "sliding" /\ log' = Append(log, e)
  BY DEF slidingWindowDecide, Decided
<1>2. log \in Seq(Decision)
  BY DEF RInv, TypeOK
<1>3. Len(log) \in Nat /\ n \in Nat /\ n >= 1 /\ DOMAIN log = 1 .. Len(log)
  BY <1>2
<1>4. /\ DOMAIN log' = 1 .. n /\ DOMAIN log' = DOMAIN log \cup {n}
      /\ \A i \in DOMAIN log : log'[i] = log[i] /\ i < n
      /\ log'[n] = e
  <2> HIDE DEF e
  <2>1. Len(log') = n /\ DOMAIN log' = 1 .. n
    BY <1>1, <1>2, <1>3
  <2>2. DOMAIN log' = DOMAIN log \cup {n}
    BY <1>3, <2>1
  <2>3. \A i \in DOMAIN log : log'[i] = log[i] /\ i < n
    BY <1>1, <1>2, <1>3
  <2>4. log'[n] = e
    BY <1>1, <1>2, <1>3
  <2> QED BY <2>1, <2>2, <2>3, <2>4
<1>5. e.at = now /\ e.before = spent /\ e.after = spent'
  OBVIOUS
<1> HIDE DEF e
<1> QED BY <1>1, <1>3, <1>4, <1>5

\* A cover of what was admitted before a decision, with its sample, covers what was
\* admitted after it.
LEMMA CoversStep ==
    ASSUME NEW s \in Nat, NEW b \in [Ring -> Nat], NEW admit \in BOOLEAN, NEW sub \in Nat,
           s <= sub, NEW sp \in Nat, NEW at \in Nat, NEW before \in Nat,
           at < (s + 1) * subWindow + MaxDelay, NEW c \in [Ring -> Nat],
           Covers(c, b, sp, sub, at, before)
    PROVE  /\ Sampled(c, s, admit) \in [Ring -> Nat]
           /\ Covers(Sampled(c, s, admit), Sampled(b, s, admit), sp + Gain(admit), sub, at, before)
<1> DEFINE h == Sampled(c, s, admit)
           k == Sampled(b, s, admit)
           g == Gain(admit)
<1>1. /\ h \in [Ring -> Nat] /\ Cost * RingTotal(h) = Cost * RingTotal(c) + g
      /\ \A x \in Ring : h[x] = c[x] + (IF admit /\ x = s % slidingBuckets THEN 1 ELSE 0)
  BY SampledFacts
<1>2. \A x \in Ring : k[x] = b[x] + (IF admit /\ x = s % slidingBuckets THEN 1 ELSE 0)
  BY SampledFacts
<1>3. g \in Nat /\ Cost * RingTotal(c) \in Nat
  BY LimiterFacts, TotalType DEF Gain
<1> HIDE DEF h, k, g
<1>4. \A x \in Ring : h[x] <= k[x]
  <2> SUFFICES ASSUME NEW x \in Ring PROVE h[x] <= k[x]
    OBVIOUS
  <2>1. c[x] \in Nat /\ b[x] \in Nat /\ c[x] <= b[x]
    BY DEF Covers
  <2> QED BY <1>1, <1>2, <2>1
<1>5. (sp + g) - before <= Cost * RingTotal(h)
  <2>1. sp - before <= Cost * RingTotal(c)
    BY DEF Covers
  <2> QED BY <1>1, <1>3, <2>1
<1>6. ASSUME NEW x \in Ring, h[x] > 0
      PROVE  \E u \in 0 .. sub : u % slidingBuckets = x /\ at < (u + 1) * subWindow + MaxDelay
  <2>1. CASE c[x] > 0
    BY <2>1 DEF Covers
  <2>2. CASE ~(c[x] > 0)
    <3>1. c[x] \in Nat /\ c[x] = 0
      BY <2>2
    <3>2. x = s % slidingBuckets
      BY <1>1, <1>6, <3>1
    <3>3. s \in 0 .. sub
      OBVIOUS
    <3> QED BY <3>2, <3>3
  <2> QED BY <2>1, <2>2
<1>7. Covers(h, k, sp + g, sub, at, before)
  BY <1>4, <1>5, <1>6 DEF Covers
<1> QED BY <1>1, <1>7 DEF h, k, g

\* What was admitted since a recent decision, with its sample, was admitted since then.
LEMMA RecentStep ==
    ASSUME NEW s \in Nat, NEW b \in [Ring -> Nat], NEW admit \in BOOLEAN, NEW sub \in Nat,
           NEW sp \in Nat, NEW at \in Nat, NEW before \in Nat, NEW m \in Nat,
           NEW d \in [Ring -> Nat], Recent(d, m, b, sp, sub, at, before)
    PROVE  /\ Sampled(d, s, admit) \in [Ring -> Nat]
           /\ Recent(Sampled(d, s, admit), m, Sampled(b, s, admit), sp + Gain(admit), sub, at, before)
<1> DEFINE h == Sampled(d, s, admit)
           k == Sampled(b, s, admit)
           g == Gain(admit)
<1>1. /\ h \in [Ring -> Nat] /\ Cost * RingTotal(h) = Cost * RingTotal(d) + g
      /\ \A x \in Ring : h[x] = d[x] + (IF admit /\ x = s % slidingBuckets THEN 1 ELSE 0)
  BY SampledFacts
<1>2. \A x \in Ring : k[x] = b[x] + (IF admit /\ x = s % slidingBuckets THEN 1 ELSE 0)
  BY SampledFacts
<1>3. g \in Nat /\ Cost * RingTotal(d) \in Nat
  BY LimiterFacts, TotalType DEF Gain
<1> HIDE DEF h, k, g
<1>4. Cost * RingTotal(h) <= (sp + g) - before
  <2>1. Cost * RingTotal(d) <= sp - before
    BY DEF Recent
  <2> QED BY <1>1, <1>3, <2>1
<1>5. ASSUME NEW x \in Ring, h[x] < k[x]
      PROVE  \A u \in m .. sub : u % slidingBuckets # x
  <2>1. d[x] \in Nat /\ b[x] \in Nat
    OBVIOUS
  <2>2. d[x] < b[x]
    BY <1>1, <1>2, <1>5, <2>1
  <2> QED BY <2>2 DEF Recent
<1>6. Recent(h, m, k, sp + g, sub, at, before)
  BY <1>4, <1>5 DEF Recent
<1> QED BY <1>1, <1>6 DEF h, k, g

\* A slot that is cleared held nothing that a decision within the span had to remember.
LEMMA ClearedIsExpired ==
    ASSUME NEW s \in Nat, NEW sub \in Nat, NEW t \in Nat, NEW at \in Nat, NEW v \in 0 .. sub,
           NEW u \in (sub + 1) .. s, u % slidingBuckets = v % slidingBuckets,
           s * subWindow <= t, at < (v + 1) * subWindow + MaxDelay
    PROVE  t - at + MaxDelay > (slidingBuckets - 1) * subWindow
<1> DEFINE k == slidingBuckets - 1
<1>1. v \in Nat /\ u \in Nat /\ v < u /\ u <= s
  OBVIOUS
<1>2. v + slidingBuckets <= u
  BY <1>1, SlotsApart, LimiterFacts
<1>3. k \in Nat /\ (v + 1) + k = v + slidingBuckets /\ (v + 1) + k \in Nat
  BY <1>1, LimiterFacts
<1> HIDE DEF k
<1>4. (v + 1) + k <= s
  BY <1>1, <1>2, <1>3, LimiterFacts
<1>5. ((v + 1) + k) * subWindow <= s * subWindow
  BY <1>3, <1>4, Times, LimiterFacts
<1>6. /\ ((v + 1) + k) * subWindow = (v + 1) * subWindow + k * subWindow
      /\ (v + 1) * subWindow \in Nat /\ k * subWindow \in Nat /\ s * subWindow \in Nat
  <2>1. v + 1 \in Nat
    BY <1>1
  <2> QED BY <1>3, <2>1, Times, LimiterFacts
<1>7. t - at + MaxDelay > k * subWindow
  BY <1>5, <1>6, LimiterFacts
<1> QED BY <1>7 DEF k

\* Every sub-window has used its slot: a ring that is full was filled within Window.
LEMMA FullIsRecent ==
    ASSUME NEW b \in [Ring -> Nat], NEW d \in [Ring -> Nat], NEW sub \in Nat, NEW sp \in Nat,
           NEW at \in Nat, NEW before \in Nat, NEW m \in Nat, m + slidingBuckets - 1 = sub,
           Recent(d, m, b, sp, sub, at, before), Limit <= RingTotal(b),
           NEW t \in Nat, t < (sub + 1) * subWindow + MaxDelay
    PROVE  t < at + Window + MaxDelay /\ sp - before >= Window
<1>1. \A x \in Ring : b[x] <= d[x]
  <2> SUFFICES ASSUME NEW x \in Ring PROVE b[x] <= d[x]
    OBVIOUS
  <2>1. \E u \in m .. sub : u % slidingBuckets = x
    BY SlotsCovered
  <2>2. ~(d[x] < b[x])
    BY <2>1 DEF Recent
  <2>3. d[x] \in Nat /\ b[x] \in Nat
    OBVIOUS
  <2> QED BY <2>2, <2>3
<1>2. RingTotal(b) \in Nat /\ RingTotal(d) \in Nat /\ RingTotal(b) <= RingTotal(d)
  BY <1>1, TotalMonotone
<1>3. Limit <= RingTotal(d)
  BY <1>2, LimiterFacts
<1>4. Limit * Cost <= RingTotal(d) * Cost /\ Cost * RingTotal(d) = RingTotal(d) * Cost
  BY <1>2, <1>3, Times, LimiterFacts
<1>5. Window <= Cost * RingTotal(d) /\ Cost * RingTotal(d) \in Nat
  BY <1>4, TotalType, LimiterFacts
<1>6. sp - before >= Window
  BY <1>5, LimiterFacts DEF Recent
<1>7. sub + 1 = m + slidingBuckets
  BY LimiterFacts
<1>8. /\ (m + slidingBuckets) * subWindow = m * subWindow + slidingBuckets * subWindow
      /\ m * subWindow \in Nat
  BY Times, LimiterFacts
<1>9. m * subWindow <= at
  BY DEF Recent
<1>10. t < m * subWindow + Window + MaxDelay
  BY <1>7, <1>8, LimiterFacts
<1>11. t < at + Window + MaxDelay
  BY <1>8, <1>9, <1>10, LimiterFacts
<1> QED BY <1>6, <1>11

\* A decision of the sliding window keeps the invariant of its ring.
LEMMA SlidingHolds ==
    ASSUME RInv, SInv, NEW r \in Request, slidingWindowDecide(r)
    PROVE  SInv'
<1> DEFINE n == Len(log) + 1
           s == stamp[r] \div subWindow
           b == Rolled(s)
           admit == RingTotal(b) < Limit
           g == Gain(admit)
           zero == [x \in Ring |-> 0]
<1>1. /\ s \in Nat /\ b \in [Ring -> Nat] /\ admit \in BOOLEAN
      /\ s * subWindow <= now /\ now < (s + 1) * subWindow + MaxDelay
      /\ lastAbsSub' \in Nat /\ s <= lastAbsSub'
      /\ present => lastAbsSub <= lastAbsSub'
      /\ lastAbsSub' = s \/ (present /\ lastAbsSub' = lastAbsSub)
      /\ buckets' = Sampled(b, s, admit)
      /\ spent' = spent + g /\ g \in Nat
      /\ \A x \in Ring : b[x] <= buckets[x]
      /\ \A x \in Ring : b[x] > 0 =>
            /\ present /\ b[x] = buckets[x]
            /\ \A u \in (lastAbsSub + 1) .. s : u % slidingBuckets # x
      /\ \A x \in Ring : present /\ b[x] # buckets[x] =>
            \E u \in (lastAbsSub + 1) .. s : u % slidingBuckets = x
  BY SlidingFacts
<1>2. /\ n \in Nat /\ n >= 1 /\ DOMAIN log = 1 .. Len(log) /\ DOMAIN log' = 1 .. n
      /\ DOMAIN log' = DOMAIN log \cup {n}
      /\ \A i \in DOMAIN log : log'[i] = log[i] /\ i < n
      /\ log'[n].at = now /\ log'[n].before = spent /\ log'[n].after = spent'
      /\ now' = now /\ present' = TRUE /\ touched' = now /\ limiter' = limiter
      /\ limiter = "sliding"
  BY SlidingLog
<1>3. ~admit => RingTotal(b) >= Limit
  <2>1. RingTotal(b) \in Nat
    BY <1>1, TotalType
  <2> QED BY <2>1, LimiterFacts
<1>3a. admit => RingTotal(b) < Limit
  OBVIOUS
<1> HIDE DEF n, s, b, admit, g
<1>4. /\ now \in Nat /\ spent \in Nat /\ lastAbsSub \in Nat /\ touched \in Nat
      /\ buckets \in [Ring -> Nat] /\ present \in BOOLEAN /\ touched <= now
  BY DEF RInv, TypeOK, EntryOK
<1>5. RingOK /\ Remembers /\ Forgets /\ SlidingExact
  BY <1>2 DEF SInv
<1>6. zero \in [Ring -> Nat] /\ Cost * RingTotal(zero) = 0 /\ \A x \in Ring : zero[x] = 0
  BY NoSamples
<1> HIDE DEF zero
<1>7. \A i \in DOMAIN log :
         /\ log[i].at \in Nat /\ log[i].before \in Nat /\ log[i].at <= now
         /\ log[i].before <= spent
  <2> SUFFICES ASSUME NEW i \in DOMAIN log
               PROVE  /\ log[i].at \in Nat /\ log[i].before \in Nat /\ log[i].at <= now
                      /\ log[i].before <= spent
    OBVIOUS
  <2>1. log[i].at \in Nat /\ log[i].before \in Nat
    BY LogType DEF RInv
  <2>2. log[i].at <= touched /\ log[i].before <= spent
    BY <1>5 DEF RingOK
  <2> QED BY <1>4, <2>1, <2>2
<1>0. /\ s \in Nat /\ lastAbsSub' \in Nat /\ s <= lastAbsSub'
      /\ now < (s + 1) * subWindow + MaxDelay
  BY <1>1
<1>0b. PICK q \in Nat : q = lastAbsSub'
  BY <1>0
<1>0c. now < (q + 1) * subWindow + MaxDelay
  <2>1. /\ s + 1 \in Nat /\ q + 1 \in Nat /\ s + 1 <= q + 1
    <3>1. s \in Nat /\ s <= q
      BY <1>0, <1>0b, Zenon
    <3> QED BY <3>1
  <2>2. /\ (s + 1) * subWindow <= (q + 1) * subWindow
        /\ (s + 1) * subWindow \in Nat /\ (q + 1) * subWindow \in Nat
    BY <2>1, Times, LimiterFacts
  <2> QED BY <1>0, <1>4, <2>2, LimiterFacts
<1>7a. spent' \in Nat /\ \A i \in DOMAIN log' : log'[i].at \in Nat /\ log'[i].before \in Nat
  <2>1. spent' \in Nat
    <3>1. spent' = spent + g /\ g \in Nat
      BY <1>1
    <3> QED BY <1>4, <3>1
  <2>2. \A i \in DOMAIN log : log'[i].at \in Nat /\ log'[i].before \in Nat
    BY <1>2, <1>7
  <2>3. log'[n].at \in Nat /\ log'[n].before \in Nat
    BY <1>2, <1>4
  <2> QED BY <1>2, <2>1, <2>2, <2>3
\* The new decision looks back on a ring without samples.
<1>8. /\ Covers(zero, b, spent, lastAbsSub', now, spent)
      /\ now < (s + 1) * subWindow + MaxDelay
  <2>1. \A x \in Ring : zero[x] <= b[x] /\ ~(zero[x] > 0)
    BY <1>1, <1>6
  <2>2. spent - spent <= Cost * RingTotal(zero)
    BY <1>4, <1>6
  <2> QED BY <1>1, <2>1, <2>2 DEF Covers
<1>9. RingOK'
  <2>1. RingTotal(b) <= RingTotal(buckets) /\ Cost * RingTotal(b) <= Cost * RingTotal(buckets)
    BY <1>1, <1>4, CostMonotone
  <2>2. /\ RingTotal(buckets') = RingTotal(b) + (IF admit THEN 1 ELSE 0)
        /\ Cost * RingTotal(buckets') = Cost * RingTotal(b) + g
    BY <1>1, SampledFacts DEF g
  <2>3. /\ RingTotal(b) \in Nat /\ RingTotal(buckets) \in Nat /\ Cost * RingTotal(b) \in Nat
        /\ Cost * RingTotal(buckets) \in Nat
    BY <1>1, <1>4, TotalType
  <2>4. RingTotal(buckets) <= Limit /\ Cost * RingTotal(buckets) <= spent
    BY <1>5 DEF RingOK
  <2>5. RingTotal(buckets') <= Limit
    <3>1. CASE admit
      BY <1>3a, <2>2, <2>3, <3>1, LimiterFacts
    <3>2. CASE ~admit
      BY <2>1, <2>2, <2>3, <2>4, <3>2, LimiterFacts
    <3> QED BY <3>1, <3>2
  <2>6. Cost * RingTotal(buckets') <= spent'
    BY <1>1, <1>4, <2>1, <2>2, <2>3, <2>4
  <2>7. lastAbsSub' * subWindow <= now'
    <3>1. lastAbsSub * subWindow <= now
      BY <1>5 DEF RingOK
    <3> QED BY <1>1, <1>2, <3>1
  <2>8. log' # << >>
    <3>1. n \in DOMAIN log'
      BY <1>2
    <3> QED BY <3>1
  <2>9. log'[1].before = 0
    <3>1. CASE log = << >>
      <4>1. n = 1
        BY <3>1 DEF n
      <4> QED BY <1>2, <1>5, <3>1, <4>1 DEF RingOK
    <3>2. CASE log # << >>
      <4>1. 1 \in DOMAIN log
        BY <3>2 DEF RInv, TypeOK
      <4> QED BY <1>2, <1>5, <3>2, <4>1 DEF RingOK
    <3> QED BY <3>1, <3>2
  <2>10. \A i \in DOMAIN log' : log'[i].at <= touched' /\ log'[i].before <= spent'
    <3> SUFFICES ASSUME NEW i \in DOMAIN log'
                 PROVE  log'[i].at <= now /\ log'[i].before <= spent'
      BY <1>2
    <3>1. CASE i \in DOMAIN log
      <4>1. log'[i] = log[i] /\ log[i].before \in Nat /\ log[i].at <= now /\ log[i].before <= spent
        BY <1>2, <1>7, <3>1
      <4> QED BY <1>1, <1>4, <4>1
    <3>2. CASE i = n
      BY <1>1, <1>2, <1>4, <3>2
    <3> QED BY <1>2, <3>1, <3>2
  <2> QED BY <2>5, <2>6, <2>7, <2>8, <2>9, <2>10 DEF RingOK
\* What the ring keeps of the time since an earlier decision.
<1>10. ASSUME NEW i \in DOMAIN log', ~Expired(i)'
       PROVE  \E c \in [Ring -> Nat] :
                Covers(c, buckets', spent', lastAbsSub', log'[i].at, log'[i].before)
  <2>1. CASE i \in DOMAIN log
    <3>1. /\ log'[i] = log[i] /\ log[i].at \in Nat /\ log[i].before \in Nat /\ log[i].at <= now
      BY <1>2, <1>7, <2>1
    <3>2. ~(now - log[i].at + MaxDelay > (slidingBuckets - 1) * subWindow)
      BY <1>2, <1>10, <3>1 DEF Expired
    <3>3. PICK c \in [Ring -> Nat] :
            present /\ Covers(c, buckets, spent, lastAbsSub, log[i].at, log[i].before)
      BY <1>5, <2>1, <3>2 DEF Remembers, Expired
    <3>4. \A x \in Ring : c[x] <= b[x]
      <4> SUFFICES ASSUME NEW x \in Ring, ~(c[x] <= b[x]) PROVE FALSE
        OBVIOUS
      <4>1. c[x] \in Nat /\ b[x] \in Nat /\ buckets[x] \in Nat /\ c[x] <= buckets[x]
        BY <1>1, <1>4, <3>3 DEF Covers
      <4>2. c[x] > 0 /\ b[x] # buckets[x]
        BY <4>1
      <4>3. PICK v \in 0 .. lastAbsSub :
              v % slidingBuckets = x /\ log[i].at < (v + 1) * subWindow + MaxDelay
        BY <3>3, <4>2 DEF Covers
      <4>4. PICK u \in (lastAbsSub + 1) .. s : u % slidingBuckets = x
        BY <1>1, <3>3, <4>2
      <4>5. now - log[i].at + MaxDelay > (slidingBuckets - 1) * subWindow
        BY <1>1, <1>4, <3>1, <4>3, <4>4, ClearedIsExpired
      <4> QED BY <3>2, <4>5
    <3>5. Covers(c, b, spent, lastAbsSub', log[i].at, log[i].before)
      <4>1. \A v \in 0 .. lastAbsSub : v \in 0 .. lastAbsSub'
        BY <1>1, <1>4, <3>3
      <4> QED BY <3>3, <3>4, <4>1 DEF Covers
    <3>6. log[i].at < (s + 1) * subWindow + MaxDelay
      <4>1. (s + 1) * subWindow \in Nat
        <5>1. s + 1 \in Nat
          BY <1>1
        <5> QED BY <5>1, Times, LimiterFacts
      <4> QED BY <1>1, <1>4, <3>1, <4>1, LimiterFacts
    <3>7. /\ Sampled(c, s, admit) \in [Ring -> Nat]
          /\ Covers(Sampled(c, s, admit), Sampled(b, s, admit), spent + Gain(admit), lastAbsSub',
                    log[i].at, log[i].before)
      BY <1>1, <1>4, <3>1, <3>5, <3>6, CoversStep
    <3> QED BY <1>1, <3>1, <3>7 DEF g
  <2>2. CASE i = n
    <3>1. /\ Sampled(zero, s, admit) \in [Ring -> Nat]
          /\ Covers(Sampled(zero, s, admit), Sampled(b, s, admit), spent + Gain(admit),
                    lastAbsSub', now, spent)
      BY <1>1, <1>4, <1>6, <1>8, CoversStep
    <3> QED BY <1>1, <1>2, <2>2, <3>1 DEF g
  <2> QED BY <1>2, <2>1, <2>2
<1>11. Remembers'
  BY <1>2, <1>10 DEF Remembers
\* From any sub-window on, what the ring holds of it was admitted since a decision in it.
<1>12. ASSUME NEW m \in 0 .. lastAbsSub'
       PROVE  \E i \in DOMAIN log', d \in [Ring -> Nat] :
                Recent(d, m, buckets', spent', lastAbsSub', log'[i].at, log'[i].before)
  <2>0. m \in Nat /\ m <= lastAbsSub'
    BY <1>1
  <2>1. CASE present /\ m <= lastAbsSub
    <3>1. m \in 0 .. lastAbsSub
      BY <1>4, <2>0, <2>1
    <3>2. PICK i \in DOMAIN log, e \in [Ring -> Nat] :
            Recent(e, m, buckets, spent, lastAbsSub, log[i].at, log[i].before)
      BY <1>5, <2>1, <3>1 DEF Forgets
    <3>3. log'[i] = log[i] /\ log[i].at \in Nat /\ log[i].before \in Nat /\ i \in DOMAIN log'
      BY <1>2, <1>7
    <3> DEFINE d == [x \in Ring |-> IF b[x] = 0 THEN 0 ELSE e[x]]
    <3>4. d \in [Ring -> Nat] /\ \A x \in Ring : d[x] <= e[x] /\ (b[x] # 0 => d[x] = e[x])
      OBVIOUS
    <3> HIDE DEF d
    <3>5. Cost * RingTotal(d) <= Cost * RingTotal(e)
      BY <3>4, CostMonotone
    <3>6. Cost * RingTotal(d) <= spent - log[i].before
      <4>1. Cost * RingTotal(d) \in Nat /\ Cost * RingTotal(e) \in Nat
        BY <3>4, TotalType
      <4>2. Cost * RingTotal(e) <= spent - log[i].before
        BY <3>2 DEF Recent
      <4> QED BY <1>4, <3>3, <3>5, <4>1, <4>2
    <3>7. ASSUME NEW x \in Ring, d[x] < b[x], NEW u \in m .. lastAbsSub' PROVE u % slidingBuckets # x
      <4>1. d[x] \in Nat /\ b[x] \in Nat
        BY <1>1, <3>4
      <4>2. b[x] > 0 /\ d[x] = e[x]
        BY <3>4, <3>7, <4>1
      <4>3. /\ b[x] = buckets[x]
            /\ \A w \in (lastAbsSub + 1) .. s : w % slidingBuckets # x
        BY <1>1, <4>2
      <4>4. \A w \in m .. lastAbsSub : w % slidingBuckets # x
        BY <3>2, <3>7, <4>2, <4>3 DEF Recent
      <4>5. u \in m .. lastAbsSub \/ u \in (lastAbsSub + 1) .. s
        BY <1>1, <1>4, <2>0
      <4> QED BY <4>3, <4>4, <4>5
    <3>8. Recent(d, m, b, spent, lastAbsSub', log[i].at, log[i].before)
      BY <3>2, <3>6, <3>7 DEF Recent
    <3>9. /\ Sampled(d, s, admit) \in [Ring -> Nat]
          /\ Recent(Sampled(d, s, admit), m, Sampled(b, s, admit), spent + Gain(admit),
                    lastAbsSub', log[i].at, log[i].before)
      BY <1>1, <1>4, <2>0, <3>3, <3>4, <3>8, RecentStep
    <3> QED BY <1>1, <3>3, <3>9 DEF g
  <2>2. CASE ~(present /\ m <= lastAbsSub)
    <3>1. lastAbsSub' = s /\ m <= s
      BY <1>1, <1>4, <2>0, <2>2
    <3>2. m * subWindow <= now
      <4>1. m * subWindow \in Nat /\ s * subWindow \in Nat /\ m * subWindow <= s * subWindow
        BY <1>1, <2>0, <3>1, Times, LimiterFacts
      <4> QED BY <1>1, <1>4, <4>1
    <3>3. ASSUME NEW x \in Ring, zero[x] < b[x], NEW u \in m .. lastAbsSub'
          PROVE  u % slidingBuckets # x
      <4>1. b[x] > 0
        BY <1>6, <3>3
      <4>2. present /\ \A w \in (lastAbsSub + 1) .. s : w % slidingBuckets # x
        BY <1>1, <4>1
      <4>3. u \in (lastAbsSub + 1) .. s
        BY <1>4, <2>0, <2>2, <3>1, <4>2
      <4> QED BY <4>2, <4>3
    <3>4. Cost * RingTotal(zero) <= spent - spent
      BY <1>4, <1>6
    <3>5. Recent(zero, m, b, spent, lastAbsSub', now, spent)
      BY <3>2, <3>3, <3>4 DEF Recent
    <3>6. /\ Sampled(zero, s, admit) \in [Ring -> Nat]
          /\ Recent(Sampled(zero, s, admit), m, Sampled(b, s, admit), spent + Gain(admit),
                    lastAbsSub', now, spent)
      BY <1>1, <1>4, <1>6, <2>0, <3>5, RecentStep
    <3>7. n \in DOMAIN log'
      BY <1>2
    <3> QED BY <1>1, <1>2, <3>6, <3>7 DEF g
  <2> QED BY <2>1, <2>2
<1>13. Forgets'
  BY <1>12 DEF Forgets
<1>14. ASSUME NEW i \in DOMAIN log', NEW j \in DOMAIN log', i <= j,
              log'[j].at - log'[i].at + MaxDelay <= (slidingBuckets - 1) * subWindow
       PROVE  log'[j].after - log'[i].before <= Window
  <2>1. CASE j \in DOMAIN log
    <3>1. i \in DOMAIN log
      BY <1>2, <1>14, <2>1
    <3>2. log'[i] = log[i] /\ log'[j] = log[j]
      BY <1>2, <2>1, <3>1
    <3> QED BY <1>2, <1>5, <1>14, <2>1, <3>1, <3>2 DEF SlidingExact
  <2>2. CASE j = n
    <3>1. ~(now - log'[i].at + MaxDelay > (slidingBuckets - 1) * subWindow)
      <4>1. log'[i].at \in Nat
        BY <1>7a
      <4> QED BY <1>2, <1>4, <1>14, <2>2, <4>1, LimiterFacts
    <3>2. PICK c \in [Ring -> Nat] :
            Covers(c, buckets', spent', lastAbsSub', log'[i].at, log'[i].before)
      BY <1>2, <1>10, <3>1 DEF Expired
    <3>3. buckets' \in [Ring -> Nat]
      BY <1>1, SampledFacts
    <3>4. Cost * RingTotal(c) <= Cost * RingTotal(buckets')
      BY <3>2, <3>3, CostMonotone DEF Covers
    <3>5. /\ RingTotal(buckets') \in Nat /\ RingTotal(buckets') <= Limit
          /\ Cost * RingTotal(c) \in Nat /\ Cost * RingTotal(buckets') \in Nat
      BY <1>9, <3>3, TotalType DEF RingOK
    <3>6. Cost * RingTotal(buckets') <= Window
      <4>1. /\ RingTotal(buckets') * Cost <= Limit * Cost
            /\ Cost * RingTotal(buckets') = RingTotal(buckets') * Cost
        BY <3>5, Times, LimiterFacts
      <4> QED BY <4>1, LimiterFacts
    <3>7. spent' - log'[i].before <= Cost * RingTotal(c)
      BY <3>2 DEF Covers
    <3>8. log'[i].before \in Nat /\ spent' \in Nat
      BY <1>7a
    <3>9. spent' - log'[i].before <= Window
      BY <3>4, <3>5, <3>6, <3>7, <3>8, LimiterFacts
    <3> QED BY <1>2, <2>2, <3>9
  <2> QED BY <1>2, <2>1, <2>2
<1>15. ASSUME NEW k \in DOMAIN log', log'[k].after = log'[k].before
       PROVE  \E i \in 1 .. k :
                /\ log'[k].at < log'[i].at + Window + MaxDelay
                /\ log'[k].before - log'[i].before >= Window
  <2>1. CASE k \in DOMAIN log
    <3>1. log'[k] = log[k]
      BY <1>2, <2>1
    <3>2. PICK i \in 1 .. k :
            /\ log[k].at < log[i].at + Window + MaxDelay
            /\ log[k].before - log[i].before >= Window
      BY <1>2, <1>5, <1>15, <2>1, <3>1 DEF SlidingExact
    <3>3. i \in DOMAIN log
      <4>1. Len(log) \in Nat
        BY DEF RInv, TypeOK
      <4> QED BY <1>2, <2>1, <4>1
    <3> QED BY <1>2, <3>1, <3>2, <3>3
  <2>2. CASE k = n
    <3>1. spent' = spent
      BY <1>2, <1>15, <2>2
    <3>2. ~admit
      BY <1>1, <1>4, <3>1, LimiterFacts DEF g, Gain
    <3>3. buckets' = b /\ Limit <= RingTotal(b)
      BY <1>1, <1>3, <3>2 DEF Sampled
    <3>5. CASE q >= slidingBuckets - 1
      <4> DEFINE m == q - (slidingBuckets - 1)
      <4>1. m \in Nat /\ m \in 0 .. q /\ m + slidingBuckets - 1 = q
        BY <3>5, LimiterFacts
      <4> HIDE DEF m
      <4>2. PICK i \in DOMAIN log', d \in [Ring -> Nat] :
              Recent(d, m, buckets', spent', q, log'[i].at, log'[i].before)
        BY <1>0b, <1>12, <4>1
      <4>3. log'[i].at \in Nat /\ log'[i].before \in Nat /\ i \in 1 .. n
        BY <1>2, <1>7a
      <4>4. Recent(d, m, b, spent, q, log'[i].at, log'[i].before)
        BY <3>1, <3>3, <4>2
      <4>5. now < log'[i].at + Window + MaxDelay /\ spent - log'[i].before >= Window
        BY <1>1, <1>4, <3>3, <1>0c, <4>1, <4>3, <4>4, FullIsRecent
      <4> QED BY <1>2, <2>2, <4>3, <4>5
    <3>6. CASE ~(q >= slidingBuckets - 1)
      <4>1. 1 \in 1 .. n /\ 1 \in DOMAIN log' /\ log'[1].before = 0
        <5>1. 1 \in 1 .. n /\ 1 \in DOMAIN log'
          BY <1>2
        <5>2. log' # << >>
          BY <5>1
        <5> QED BY <1>9, <5>1, <5>2 DEF RingOK
      <4>2. log'[1].at \in Nat
        BY <1>7a, <4>1
      <4>3. now < log'[1].at + Window + MaxDelay
        <5>1. q + 1 \in Nat /\ q + 1 <= slidingBuckets
          BY <3>6, LimiterFacts
        <5>2. /\ (q + 1) * subWindow <= slidingBuckets * subWindow
              /\ (q + 1) * subWindow \in Nat
          BY <5>1, Times, LimiterFacts
        <5> QED BY <1>4, <1>0c, <4>2, <5>2, LimiterFacts
      <4>4. spent - log'[1].before >= Window
        <5>1. Cost * RingTotal(b) <= spent
          BY <1>9, <3>1, <3>3 DEF RingOK
        <5>2. RingTotal(b) \in Nat
          BY <1>1, TotalType
        <5>3. Limit * Cost <= RingTotal(b) * Cost /\ RingTotal(b) * Cost = Cost * RingTotal(b)
          BY <3>3, <5>2, Times, LimiterFacts
        <5>4. Cost * RingTotal(b) \in Nat
          BY <1>1, TotalType
        <5> QED BY <1>4, <4>1, <5>1, <5>3, <5>4, LimiterFacts
      <4> QED BY <1>2, <2>2, <4>1, <4>3, <4>4
    <3> QED BY <3>5, <3>6
  <2> QED BY <1>2, <2>1, <2>2
<1>16. SlidingExact'
  BY <1>14, <1>15 DEF SlidingExact
<1> QED BY <1>9, <1>11, <1>13, <1>16 DEF SInv

\* A step that leaves the ring and the history alone, while time passes or the entry is
\* dropped with nothing left to remember.
LEMMA RingKept ==
    ASSUME RInv, SInv, UNCHANGED <<limiter, touched, ring, history>>,
           now' = now \/ now' = now + 1,
           \/ present' = present
           \/ present' = FALSE /\ \A i \in DOMAIN log : Expired(i)
    PROVE  SInv'
<1> SUFFICES ASSUME limiter' = "sliding" PROVE (RingOK /\ Remembers /\ Forgets /\ SlidingExact)'
  BY DEF SInv
<1>1. /\ limiter = "sliding" /\ touched' = touched /\ lastAbsSub' = lastAbsSub
      /\ buckets' = buckets /\ spent' = spent /\ log' = log
  BY DEF ring, history
<1>2. RingOK /\ Remembers /\ Forgets /\ SlidingExact
  BY <1>1 DEF SInv
<1>3. now \in Nat /\ now' \in Int /\ now <= now'
  BY DEF RInv, TypeOK
<1>4. RingOK'
  <2>1. lastAbsSub * subWindow <= now /\ lastAbsSub * subWindow \in Nat
    <3>1. lastAbsSub \in Nat
      BY DEF RInv, TypeOK
    <3> QED BY <1>2, <3>1, Times, LimiterFacts DEF RingOK
  <2>2. lastAbsSub * subWindow <= now'
    BY <1>3, <2>1
  <2> QED BY <1>1, <1>2, <2>2 DEF RingOK
<1>5. \A i \in DOMAIN log : Expired(i) => Expired(i)'
  <2> SUFFICES ASSUME NEW i \in DOMAIN log, Expired(i) PROVE Expired(i)'
    OBVIOUS
  <2>1. log[i].at \in Nat
    BY LogType DEF RInv
  <2>2. now - log[i].at + MaxDelay > (slidingBuckets - 1) * subWindow
    BY DEF Expired
  <2>3. now' - log[i].at + MaxDelay > (slidingBuckets - 1) * subWindow
    BY <1>3, <2>1, <2>2, LimiterFacts
  <2> QED BY <1>1, <2>3 DEF Expired
<1>6. Remembers'
  <2> SUFFICES ASSUME NEW i \in DOMAIN log, ~Expired(i)'
               PROVE  present' /\ \E c \in [Ring -> Nat] :
                        Covers(c, buckets, spent, lastAbsSub, log[i].at, log[i].before)
    BY <1>1 DEF Remembers
  <2>1. ~Expired(i)
    BY <1>5
  <2>2. present' = present
    BY <2>1
  <2> QED BY <1>2, <2>1, <2>2 DEF Remembers
<1>7. Forgets'
  BY <1>1, <1>2 DEF Forgets
<1>8. SlidingExact'
  BY <1>1, <1>2 DEF SlidingExact
<1> QED BY <1>4, <1>6, <1>7, <1>8

\* The invariant holds before the first request.
LEMMA SlidingInit == Init => SInv
<1> SUFFICES ASSUME Init PROVE SInv
  OBVIOUS
<1>1. DOMAIN log = {} /\ log = << >> /\ spent = 0 /\ ~present
  BY DEF Init
<1>2. RingOK
  <2>1. RingTotal(buckets) = 0 /\ Cost * RingTotal(buckets) = 0
    BY NoSamples DEF Init
  <2>2. lastAbsSub * subWindow <= now
    BY LimiterFacts DEF Init
  <2> QED BY <1>1, <2>1, <2>2, LimiterFacts DEF RingOK
<1>3. Remembers /\ Forgets /\ SlidingExact
  BY <1>1 DEF Remembers, Forgets, SlidingExact
<1> QED BY <1>2, <1>3 DEF SInv

\* Every step keeps it, as long as the sweep leaves an entry alone for a window.
LEMMA SlidingNext ==
    ASSUME TTLCoversWindow, RInv, SInv, [Next]_vars PROVE SInv'
<1>1. ASSUME NEW r \in Request, ReadClock(r) PROVE SInv'
  BY <1>1, RingKept DEF ReadClock
<1>2. ASSUME NEW r \in Request, tokenBucketDecide(r) \/ tokenBucketLua(r) PROVE SInv'
  <2>1. limiter' # "sliding"
    BY <1>2 DEF tokenBucketDecide, tokenBucketLua, Decided
  <2> QED BY <2>1 DEF SInv
<1>3. ASSUME NEW r \in Request, slidingWindowDecide(r) PROVE SInv'
  BY <1>3, SlidingHolds
<1>4. ASSUME NEW r \in Request, RedisError(r) PROVE SInv'
  BY <1>4, RingKept DEF RedisError
<1>5. ASSUME Sweep PROVE SInv'
  <2>1. CASE limiter = "sliding"
    <3>1. touched \in Nat /\ now \in Nat /\ touched + EntryTTL < now /\ EntryTTL \in Nat
      BY <1>5, <2>1, LimiterAssumption DEF RInv, TypeOK, Sweep, Stale
    <3>2. \A i \in DOMAIN log : Expired(i)
      <4> SUFFICES ASSUME NEW i \in DOMAIN log
                   PROVE  now - log[i].at + MaxDelay > (slidingBuckets - 1) * subWindow
        BY DEF Expired
      <4>1. log[i].at \in Nat /\ log[i].at <= touched
        BY <2>1, LogType DEF RInv, SInv, RingOK
      <4>2. (slidingBuckets - 1) * subWindow <= EntryTTL
        BY <3>1, LimiterFacts DEF TTLCoversWindow
      <4> QED BY <3>1, <4>1, <4>2, LimiterFacts
    <3> QED BY <1>5, <3>2, RingKept DEF Sweep
  <2>2. CASE limiter # "sliding"
    BY <1>5, <2>2 DEF Sweep, SInv
  <2> QED BY <2>1, <2>2
<1>6. ASSUME Tick PROVE SInv'
  BY <1>6, RingKept DEF Tick
<1>7. ASSUME UNCHANGED vars PROVE SInv'
  BY <1>7, RingKept DEF vars
<1> QED BY <1>1, <1>2, <1>3, <1>4, <1>5, <1>6, <1>7 DEF Next

----------------------------------------------------------------------------
\* The sliding window never admits more than Limit requests in a span one sub-window short
\* of Window, and never denies one unless Limit were admitted within Window, for every
\* number of sub-windows, every order of the decisions and every sweep, if an entry is not
\* dropped within the window it counts.
THEOREM SlidingIsExact == TTLCoversWindow => (Spec => []SlidingExact)
<1> SUFFICES ASSUME TTLCoversWindow PROVE Spec => []SlidingExact
  OBVIOUS
<1>1. Init => RInv /\ SInv
  BY InitHolds, SlidingInit
<1>2. RInv /\ SInv /\ [Next]_vars => (RInv /\ SInv)'
  BY StepHolds, SlidingNext
<1>3. SInv => SlidingExact
  BY DEF SInv, SlidingExact
<1> QED BY <1>1, <1>2, <1>3, PTL DEF Spec
=============================================================================
