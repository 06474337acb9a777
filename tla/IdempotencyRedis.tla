-------------------------- MODULE IdempotencyRedis --------------------------
(***************************************************************************)
(* plugins/idempotency on the Redis store: the request flow of several     *)
(* processes joined with RedisStore.  Commands may fail, messages may get  *)
(* lost, and the process that serves a request may crash.                  *)
(***************************************************************************)
EXTENDS IdempotencyFlow, RedisStore

CONSTANTS
    MaxTime,       \* bound on the clock
    LockOutlives,  \* "comfortably exceed[s] the longest plausible handler runtime"?
    MayCrash       \* may a process crash?

ASSUME CompositionAssumption ==
    /\ MaxTime \in Nat
    /\ LockOutlives \in BOOLEAN
    /\ MayCrash \in BOOLEAN

VARIABLES
    probing,     \* subscribed, with the Get that follows still to be made
    publishing,  \* between the two commands of Save
    faulty       \* something has failed: a command, a message or a process

local == <<probing, publishing, faulty>>
vars == <<flowVars, storeVars, local>>

TypeOK ==
    /\ FlowTypeOK /\ StoreTypeOK
    /\ probing \subseteq subs
    /\ \A r \in Request : r \in subs <=> pc[r] = "waiting"
    /\ publishing \subseteq {r \in Request : pc[r] = "save"}
    /\ faulty \in BOOLEAN

Init == FlowInit /\ StoreInit /\ probing = {} /\ publishing = {} /\ faulty = FALSE

----------------------------------------------------------------------------
Arrive(r) ==
    /\ Enter(r) \/ PassBy(r)
    /\ UNCHANGED <<storeVars, local>>

GetStep(r) ==
    /\ pc[r] = "get"
    /\ AfterGet(r, GetResult(key[r]))
    /\ UNCHANGED <<storeVars, local>>

LockStep(r) ==
    /\ pc[r] = "lock"
    /\ Lock(key[r])
    /\ AfterLock(r, LockAcquires(key[r]))
    /\ UNCHANGED local

Fails == RedisMayFail /\ faulty' = TRUE

\* Get or Lock returns an error, which is answered 500; SETNX may have been
\* carried out all the same.
StoreFails(r) ==
    /\ Finish(r, "error", r)
    /\ \/ pc[r] \in {"get", "lock"} /\ UNCHANGED storeVars
       \/ pc[r] = "lock" /\ Lock(key[r])
    /\ Fails /\ UNCHANGED <<probing, publishing>>

RejectStep(r) == Reject(r) /\ UNCHANGED <<storeVars, local>>

----------------------------------------------------------------------------
(* Wait: subscribe, then Get, then listen.                                 *)

\* Mutant: Wait listens without the Get that follows the subscription.
SubscribeBlindly(r) ==
    /\ pc[r] = "conflict" /\ "wait" \in ConflictBehaviors
    /\ Subscribe(r)
    /\ Goto(r, "waiting")
    /\ UNCHANGED local

SubscribeStep(r) ==
    /\ pc[r] = "conflict" /\ "wait" \in ConflictBehaviors
    /\ Subscribe(r)
    /\ Goto(r, "waiting")
    /\ probing' = probing \cup {r}
    /\ UNCHANGED <<publishing, faulty>>

\* A Get that finds the response ends the wait.
AfterProbe(r) == GetResult(key[r]) # NoResponse /\ AfterWait(r, GetResult(key[r]))

\* The subscription fails, or its context has fired: a single Get decides.
SubscribeFails(r) ==
    /\ pc[r] = "conflict" /\ "wait" \in ConflictBehaviors
    /\ \/ Fails /\ (Finish(r, "error", r) \/ AfterProbe(r))
       \/ WaitMayTimeOut /\ AfterWait(r, GetResult(key[r])) /\ UNCHANGED faulty
    /\ UNCHANGED <<storeVars, probing, publishing>>

\* The Get after the subscription: a hit ends the wait.
ProbeStep(r) ==
    /\ r \in probing
    /\ probing' = probing \ {r}
    /\ IF GetResult(key[r]) # NoResponse
       THEN AfterWait(r, GetResult(key[r])) /\ Unsubscribe(r)
       ELSE UNCHANGED <<flowVars, storeVars>>
    /\ UNCHANGED <<publishing, faulty>>

Listening == subs \ probing

\* The message "saved" has arrived: what Get returns now ends the wait.
MessageStep(r) ==
    /\ r \in Listening /\ r \in mail
    /\ AfterWait(r, GetResult(key[r]))
    /\ Unsubscribe(r)
    /\ UNCHANGED local

\* The context of Wait fires.
CancelStep(r) ==
    /\ WaitMayTimeOut /\ r \in Listening
    /\ AfterWait(r, NoResponse)
    /\ Unsubscribe(r)
    /\ UNCHANGED local

\* The Get of the wait fails, or the channel is closed and a last Get decides.
WaitFails(r) ==
    /\ Fails /\ r \in subs
    /\ Finish(r, "error", r) \/ (r \in Listening /\ AfterProbe(r))
    /\ Unsubscribe(r)
    /\ probing' = probing \ {r}
    /\ UNCHANGED publishing

----------------------------------------------------------------------------
HandlerStep(r) ==
    /\ \E o \in Outcomes : RunHandler(r, o)
    /\ UNCHANGED <<storeVars, local>>

SaveStep(r) ==
    /\ pc[r] = "save" /\ r \notin publishing
    /\ SaveSet(key[r], Snapshot(r))
    /\ publishing' = publishing \cup {r}
    /\ UNCHANGED <<flowVars, probing, faulty>>

\* SET fails, or seems to: nothing is published, the response is flushed all the
\* same.
SaveFails(r) ==
    /\ Fails
    /\ pc[r] = "save" /\ r \notin publishing
    /\ Goto(r, "flush")
    /\ UNCHANGED storeVars \/ SaveSet(key[r], Snapshot(r))
    /\ UNCHANGED <<probing, publishing>>

\* PUBLISH; its failure is ignored.
PublishStep(r) ==
    /\ r \in publishing
    /\ publishing' = publishing \ {r}
    /\ Goto(r, "flush")
    /\ \/ SavePublish(key[r], key) /\ UNCHANGED faulty
       \/ Fails /\ UNCHANGED storeVars
    /\ UNCHANGED probing

FlushStep(r) == Flush(r) /\ UNCHANGED <<storeVars, local>>

\* Mutant: the lock is not released when the handler panics.
UnlockStepNoPanic(r) ==
    /\ pc[r] = "unlock"
    /\ Goto(r, "done")
    /\ IF result[r] = "panic" THEN UNCHANGED storeVars ELSE Unlock(key[r])
    /\ UNCHANGED local

\* The deferred Unlock; its error is ignored.
UnlockStep(r) ==
    /\ pc[r] = "unlock"
    /\ Goto(r, "done")
    /\ \/ Unlock(key[r]) /\ UNCHANGED faulty
       \/ Fails /\ UNCHANGED storeVars
    /\ UNCHANGED <<probing, publishing>>

\* The process of r dies: nothing is unlocked, its connection is gone.
Crash(r) ==
    /\ MayCrash /\ pc[r] \notin {"idle", "done"}
    /\ Goto(r, "done")
    /\ Unsubscribe(r)
    /\ probing' = probing \ {r} /\ publishing' = publishing \ {r}
    /\ faulty' = TRUE

Tick ==
    /\ now < MaxTime
    /\ LockOutlives => \A r \in Request : pc[r] \in Holding => lockUntil[key[r]] > now + 1
    /\ now' = now + 1
    /\ UNCHANGED <<flowVars, lockUntil, respUntil, resp, subs, mail, local>>

Wait(r) == SubscribeStep(r) \/ ProbeStep(r) \/ MessageStep(r)
Step(r) ==
    \/ GetStep(r) \/ LockStep(r) \/ RejectStep(r) \/ Wait(r)
    \/ HandlerStep(r) \/ SaveStep(r) \/ PublishStep(r) \/ FlushStep(r) \/ UnlockStep(r)
Fault(r) ==
    \/ StoreFails(r) \/ SubscribeFails(r) \/ WaitFails(r) \/ SaveFails(r) \/ Crash(r)

Next ==
    \/ \E r \in Request : Arrive(r) \/ Step(r) \/ CancelStep(r) \/ Fault(r)
    \/ Tick

Spec == Init /\ [][Next]_vars

----------------------------------------------------------------------------
\* Lock returns false "when another process is holding the lock": as long as the
\* lock outlives the handler, no two processes run the handler for one key.
MutualExclusion ==
    \A r, s \in Request :
        r # s /\ key[r] = key[s] /\ pc[r] = "run" => pc[s] # "run"

\* "Both paths are race-safe": until something fails, a waiter that listens with
\* nothing to receive has missed no response; one that is there has yet to be
\* announced.
NoMissedSave ==
    faulty \/ \A w \in Listening \ mail :
        Live(key[w]) => \E r \in publishing : key[r] = key[w]

\* "subsequent retries see the lock has been released and proceed normally": a
\* lock is held only on behalf of a request that will release it, whatever its
\* handler did, until a process or a command fails.
NoStrayLock ==
    faulty \/ \A k \in Key : Held(k) => \E r \in Request : key[r] = k /\ pc[r] \in Holding

\* "On a retry with the same key, the cached response is replayed": the handler is
\* not run for a key while a response is cached for it.
NoSecondRun == \A r \in Request : pc[r] = "run" => ~Live(key[r])
----------------------------------------------------------------------------
(* The parts of the inductive invariant behind the proofs.                  *)

\* While locks outlive their handlers a holder's lock has not expired, and a key
\* has one holder.
HeldOK ==
    LockOutlives =>
        \A r \in Request : pc[r] \in Holding =>
            /\ Held(key[r])
            /\ \A s \in Request : pc[s] \in Holding /\ key[s] = key[r] => s = r

\* Only a request whose handler returned has a result, and only a cacheable one is
\* on its way into the store.
ResultOK ==
    \A r \in Request :
        /\ pc[r] \in {"idle", "get", "lock", "conflict", "waiting", "run"} => result[r] = "none"
        /\ pc[r] = "save" => Cacheable(result[r])

\* A response in the store is of a cacheable run for its key, hashed when hashing is
\* on; its TTL runs only if there is one.
SavedOK ==
    \A k \in Key :
        /\ respUntil[k] # 0 => resp[k] # NoResponse
        /\ resp[k] # NoResponse =>
             /\ key[resp[k].by] = k
             /\ Cacheable(result[resp[k].by])
             /\ HashRequestBody => resp[k].hash = payload[resp[k].by]

IInv ==
    /\ TypeOK /\ HeldOK /\ ResultOK /\ SavedOK
    /\ NoMissedSave /\ NoStrayLock /\ ReplayFaithful
=============================================================================
