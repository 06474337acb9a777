------------------------------ MODULE HmacAuth ------------------------------
(***************************************************************************)
(* plugins/hmacauth: verification of a signed request and the nonce store  *)
(* that refuses its second use, in memory (bounded, swept by a janitor) or *)
(* on Redis (plugins/hmacauth-redis).  A message is a signed request as it *)
(* was sent once; the same message may be delivered any number of times.   *)
(* The skew check reads the clock, and the nonce is recorded later: the    *)
(* validator and the HMAC run in between.  A refused request and one that  *)
(* has been handed to the next handler are over, whatever their outcome    *)
(* label, and their goroutine may serve another delivery.                  *)
(***************************************************************************)
EXTENDS Integers, FiniteSets, Sequences

CONSTANTS
    Msg,          \* signed messages
    Key,          \* keys of the nonce store
    Delivery,     \* goroutines that serve a delivery each
    Class,        \* Class[m]: "genuine", "malformed", "unknown" or "forged"
    KeyOf,        \* KeyOf[m]: "nonce:" + client + ":" + nonce
    Ts,           \* Ts[m]: the signed timestamp
    SkewSeconds,  \* Config.SkewSeconds
    NonceTTL,     \* Config.NonceTTL, by default 2*SkewSeconds + 60
    MaxEntries,   \* capacity of MemoryNonceStore
    MaxDelay,     \* longest time from the skew check to SetNX
    MaxTime,      \* bound on the clock
    MaxInserts    \* bound on the history

ASSUME HmacAssumption ==
    /\ Msg # {}
    /\ Class \in [Msg -> {"genuine", "malformed", "unknown", "forged"}]
    /\ KeyOf \in [Msg -> Key]
    /\ Ts \in [Msg -> Nat \ {0}]
    /\ SkewSeconds \in Nat \ {0}
    /\ NonceTTL \in Nat
    /\ MaxEntries \in Nat \ {0}
    /\ MaxDelay \in Nat
    /\ MaxTime \in Nat
    /\ MaxInserts \in Nat

\* What New does not check and the default guarantees with a minute to spare.
ASSUME TTLCoversWindow == NonceTTL > 2 * SkewSeconds + MaxDelay

VARIABLES
    now,       \* the clock
    store,     \* which NonceStore is configured
    janitor,   \* the sweep goroutine of MemoryNonceStore runs
    pc,        \* where each delivery is; "idle" again once it has been decided
    msg,       \* the message it carries
    seen,      \* the clock its skew check read
    present,   \* keys of s.entries (of the keyspace of Redis)
    expires,   \* e.expires of each present key
    added,     \* e.added of each present key
    hist,      \* every insertion so far: message, key and time (history)
    lost       \* keys evicted before they expired (history)

delivery == <<pc, msg, seen>>
nonces == <<present, expires, added>>
vars == <<now, store, janitor, delivery, nonces, hist, lost>>

TypeOK ==
    /\ now \in Nat
    /\ store \in {"memory", "redis"}
    /\ janitor \in BOOLEAN
    /\ pc \in [Delivery -> {"idle", "verify", "timely"}]
    /\ msg \in [Delivery -> Msg]
    /\ seen \in [Delivery -> Nat]
    /\ present \in SUBSET Key
    /\ expires \in [Key -> Nat]
    /\ added \in [Key -> Nat]
    /\ hist \in Seq([msg : Msg, key : Key, at : Nat])
    /\ lost \in SUBSET Key

Init ==
    /\ now = 1
    /\ store \in {"memory", "redis"}
    /\ janitor \in (IF store = "memory" THEN BOOLEAN ELSE {FALSE})
    /\ pc = [d \in Delivery |-> "idle"]
    /\ msg = [d \in Delivery |-> CHOOSE m \in Msg : TRUE]
    /\ seen = [d \in Delivery |-> 0]
    /\ present = {}
    /\ expires = [k \in Key |-> 0]
    /\ added = [k \in Key |-> 0]
    /\ hist = << >>
    /\ lost = {}

Live(k) == k \in present /\ now < expires[k]
Expired == {k \in present : now >= expires[k]}
Oldest == {k \in present : \A j \in present : added[k] <= added[j]}

\* verify has decided: 401 or 413, or the next handler runs.
Decided(d) ==
    /\ pc' = [pc EXCEPT ![d] = "idle"]
    /\ seen' = [seen EXCEPT ![d] = 0]

----------------------------------------------------------------------------
\* A message whose body readBody could buffer; one that is too large or cannot be read
\* is refused at once.
Arrive(d) ==
    /\ pc[d] = "idle"
    /\ pc' = [pc EXCEPT ![d] = "verify"]
    /\ \E m \in Msg : msg' = [msg EXCEPT ![d] = m]
    /\ UNCHANGED <<now, store, janitor, seen, nonces, hist, lost>>

\* The checks of verify before the nonce: well-formed headers, abs64(now - ts) within
\* the skew, a known client with a secret, the signature.
Passes(m) ==
    /\ Class[m] = "genuine"
    /\ -SkewSeconds <= now - Ts[m] /\ now - Ts[m] <= SkewSeconds

Check(d) ==
    /\ pc[d] = "verify"
    /\ IF Passes(msg[d])
       THEN /\ pc' = [pc EXCEPT ![d] = "timely"]
            /\ seen' = [seen EXCEPT ![d] = now]
       ELSE Decided(d)
    /\ UNCHANGED <<now, store, janitor, msg, nonces, hist, lost>>

\* Mutant of evictLocked: the newest entry goes.
EvictNewest ==
    IF Expired # {} THEN {Expired}
    ELSE {{k} : k \in {k \in present : \A j \in present : added[k] >= added[j]}}

\* evictLocked: every expired entry, else the oldest one.  Among entries added at one
\* instant the iteration over the map decides.
evictLocked == IF Expired # {} THEN {Expired} ELSE {{k} : k \in Oldest}

Evictions ==
    IF store = "memory" /\ Cardinality(present) >= MaxEntries THEN evictLocked ELSE {{}}

\* Mutant: an entry that lives as long as the skew on one side.
ExpiryOneSided == now + SkewSeconds + MaxDelay + 1

Expiry == now + NonceTTL

\* The end of SetNX.
Insert(k, m, gone) ==
    /\ present' = (present \ gone) \cup {k}
    /\ expires' = [expires EXCEPT ![k] = Expiry]
    /\ added' = [added EXCEPT ![k] = now]
    /\ hist' = Append(hist, [msg |-> m, key |-> k, at |-> now])
    /\ lost' = lost \cup {g \in gone : now < expires[g]}

\* SetNX finds no live entry and records the nonce: the next handler runs, or, when the
\* reply of Redis is lost, the request is refused all the same.
Record(d) ==
    /\ pc[d] = "timely"
    /\ ~Live(KeyOf[msg[d]])
    /\ Len(hist) < MaxInserts
    /\ \E gone \in Evictions : Insert(KeyOf[msg[d]], msg[d], gone)
    /\ Decided(d)
    /\ UNCHANGED <<now, store, janitor, msg>>

\* SetNX finds the nonce (the message has been used), or it fails without an effect: the
\* context is cancelled, or Redis cannot be reached.
Refuse(d) ==
    /\ pc[d] = "timely"
    /\ Decided(d)
    /\ UNCHANGED <<now, store, janitor, msg, nonces, hist, lost>>

\* A tick of runJanitor, or the active expiry of Redis.
Sweep ==
    /\ janitor \/ store = "redis"
    /\ Expired # {}
    /\ present' = present \ Expired
    /\ UNCHANGED <<now, store, janitor, delivery, expires, added, hist, lost>>

\* The function NewMemoryNonceStoreWithJanitor returns; a second call returns early.
Stop ==
    /\ janitor
    /\ janitor' = FALSE
    /\ UNCHANGED <<now, store, delivery, nonces, hist, lost>>

\* Time passes, but no delivery waits longer than MaxDelay for SetNX.
Tick ==
    /\ now < MaxTime
    /\ \A d \in Delivery : pc[d] = "timely" => now < seen[d] + MaxDelay
    /\ now' = now + 1
    /\ UNCHANGED <<store, janitor, delivery, nonces, hist, lost>>

Next ==
    \/ \E d \in Delivery :
          Arrive(d) \/ Check(d) \/ Record(d) \/ Refuse(d)
    \/ Sweep \/ Stop \/ Tick

Spec == Init /\ [][Next]_vars

----------------------------------------------------------------------------
\* A message is recorded as fresh at most once, however often and however late it is
\* delivered, unless the full store evicted its nonce: the entry outlives the time in
\* which the skew check of verify still lets the message through.
NoReplay ==
    \A i, j \in DOMAIN hist :
        i < j /\ hist[i].msg = hist[j].msg => hist[i].key \in lost

\* The last-resort eviction of evictLocked needs a flood: a nonce is used again only
\* after more than MaxEntries nonces, its own included, were recorded no earlier.
ReplayNeedsFlood ==
    \A i, j \in DOMAIN hist :
        i < j /\ hist[i].msg = hist[j].msg =>
            /\ store = "memory"
            /\ Cardinality({n \in 1 .. (j - 1) : hist[n].at >= hist[i].at}) > MaxEntries

\* Only a message signed by a known client within the skew window of its timestamp
\* costs a nonce: whatever else arrives neither fills the store of a client nor makes
\* verify take the client's own message for a replay.
OnlyGenuineRecorded ==
    \A i \in DOMAIN hist :
        LET m == hist[i].msg IN
        /\ Class[m] = "genuine"
        /\ hist[i].at - Ts[m] <= SkewSeconds + MaxDelay
        /\ Ts[m] - hist[i].at <= SkewSeconds

\* The store never holds more than max entries (SetNX evicts before it inserts).
Capped == store = "memory" => Cardinality(present) <= MaxEntries
=============================================================================
