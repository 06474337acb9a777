----------------------------- MODULE RedisStore -----------------------------
(***************************************************************************)
(* idempotencyredis.Store (plugins/idempotency-redis/redis.go): a lock key *)
(* and a response key per idempotency key, both with a TTL, and a pub/sub  *)
(* channel.  Redis is external: a command is atomic, keys vanish when      *)
(* their TTL has passed, a message reaches those who are subscribed at     *)
(* that moment and is not kept.                                            *)
(***************************************************************************)
EXTENDS IdempotencyTypes

CONSTANTS
    LockTTL,       \* Config.LockTTL
    TTL,           \* the effective TTL passed to Save
    RedisMayFail   \* may commands fail and messages get lost?

ASSUME RedisAssumption ==
    /\ LockTTL \in Nat \ {0}
    /\ TTL \in Nat \ {0}
    /\ RedisMayFail \in BOOLEAN

VARIABLES
    lockUntil,   \* lock:<key>: when it expires, 0 when it is absent
    respUntil,   \* resp:<key>: when it expires, 0 when it is absent
    resp,        \* resp:<key>: the value
    subs,        \* the subscribers of saved:<key>, by request
    mail,        \* the subscribers with a message to receive
    now

storeVars == <<lockUntil, respUntil, resp, subs, mail, now>>

StoreTypeOK ==
    /\ lockUntil \in [Key -> Nat]
    /\ respUntil \in [Key -> Nat]
    /\ resp \in [Key -> Response \cup {NoResponse}]
    /\ subs \subseteq Request /\ mail \subseteq subs
    /\ now \in Nat

StoreInit ==
    /\ lockUntil = [k \in Key |-> 0] /\ respUntil = [k \in Key |-> 0]
    /\ resp = [k \in Key |-> NoResponse]
    /\ subs = {} /\ mail = {}
    /\ now = 1

Held(k) == lockUntil[k] > now
Live(k) == respUntil[k] > now

----------------------------------------------------------------------------
\* Mutant: SET without NX.
LockAcquiresAlways(k) == TRUE

\* SETNX succeeds when there is no lock.
LockAcquires(k) == ~Held(k)

Lock(k) ==
    /\ lockUntil' = IF LockAcquires(k) THEN [lockUntil EXCEPT ![k] = now + LockTTL]
                    ELSE lockUntil
    /\ UNCHANGED <<respUntil, resp, subs, mail, now>>

\* DEL of the lock key, whoever holds it.
Unlock(k) ==
    /\ lockUntil' = [lockUntil EXCEPT ![k] = 0]
    /\ UNCHANGED <<respUntil, resp, subs, mail, now>>

GetResult(k) == IF Live(k) THEN resp[k] ELSE NoResponse

\* Save is two commands: SET of the response and PUBLISH.
SaveSet(k, response) ==
    /\ resp' = [resp EXCEPT ![k] = response]
    /\ respUntil' = [respUntil EXCEPT ![k] = now + TTL]
    /\ UNCHANGED <<lockUntil, subs, mail, now>>

\* keys maps requests to their idempotency keys.
SavePublish(k, keys) ==
    /\ mail' = mail \cup {w \in subs : keys[w] = k}
    /\ UNCHANGED <<lockUntil, respUntil, resp, subs, now>>

\* Wait subscribes, and closes its subscription when it returns.
Subscribe(r) ==
    /\ subs' = subs \cup {r}
    /\ UNCHANGED <<lockUntil, respUntil, resp, mail, now>>

Unsubscribe(r) ==
    /\ subs' = subs \ {r} /\ mail' = mail \ {r}
    /\ UNCHANGED <<lockUntil, respUntil, resp, now>>
=============================================================================
