-------------------------- MODULE IdempotencyMemory --------------------------
(***************************************************************************)
(* plugins/idempotency on its default Store: the request flow joined with  *)
(* the MemoryStore.  Requests are goroutines that interleave between store *)
(* calls; the janitor sweeps; time passes.                                 *)
(***************************************************************************)
EXTENDS IdempotencyFlow, MemoryStore

CONSTANTS
    MaxTime,    \* bound on the clock (TLC only: any natural number)
    SlowFlush   \* may a response expire before the Unlock of its holder?

ASSUME MemoryAssumption ==
    /\ MaxTime \in Nat
    /\ SlowFlush \in BOOLEAN

VARIABLES
    waitsOn,   \* the entry each waiter holds a pointer to, NoEntry before Wait
    cancelled  \* the waiters whose context has fired

vars == <<flowVars, storeVars, waitsOn, cancelled>>

TypeOK ==
    /\ FlowTypeOK
    /\ StoreTypeOK
    /\ waitsOn \in [Request -> EntryId \cup {NoEntry}]
    /\ cancelled \in SUBSET Request

Init ==
    /\ FlowInit
    /\ StoreInit
    /\ waitsOn = [r \in Request |-> NoEntry]
    /\ cancelled = {}

----------------------------------------------------------------------------
Arrive(r) ==
    /\ Enter(r) \/ PassBy(r)
    /\ UNCHANGED <<storeVars, waitsOn, cancelled>>

GetStep(r) ==
    /\ pc[r] = "get"
    /\ Get(key[r])
    /\ AfterGet(r, GetResult(key[r]))
    /\ UNCHANGED <<waitsOn, cancelled>>

LockStep(r) ==
    /\ pc[r] = "lock"
    /\ Lock(r, key[r])
    /\ AfterLock(r, LockAcquires(key[r]))
    /\ UNCHANGED <<waitsOn, cancelled>>

RejectStep(r) ==
    /\ Reject(r)
    /\ UNCHANGED <<storeVars, waitsOn, cancelled>>

\* The loop of MemoryStore.Wait on entry e, from a point where r is awake.
WaitLoop(r, e) ==
    /\ CASE WaitReturnsResponse(e) ->
              AfterWait(r, heap[e].resp) /\ asleep' = asleep
         [] WaitReturnsNil(e, r \in cancelled) ->
              AfterWait(r, NoResponse) /\ asleep' = asleep
         [] OTHER ->
              Goto(r, "waiting") /\ asleep' = asleep \cup {r}
    /\ UNCHANGED <<entries, heap, now, cancelled>>

\* Wait is called: the entry may be gone already.
WaitStep(r) ==
    /\ pc[r] = "conflict"
    /\ "wait" \in ConflictBehaviors
    /\ IF entries[key[r]] = NoEntry
       THEN AfterWait(r, NoResponse) /\ UNCHANGED <<storeVars, waitsOn, cancelled>>
       ELSE /\ waitsOn' = [waitsOn EXCEPT ![r] = entries[key[r]]]
            /\ WaitLoop(r, entries[key[r]])

\* A broadcast woke the waiter.
WakeStep(r) ==
    /\ pc[r] = "waiting"
    /\ r \notin asleep
    /\ WaitLoop(r, waitsOn[r])
    /\ UNCHANGED waitsOn

\* The context of a waiter fires: its helper goroutine marks it cancelled and
\* broadcasts, which wakes every waiter of the entry.  The context fires on a
\* timeout or a lost client, and always after Wait has returned, by the deferred
\* cancel of the caller.
CancelStep(r) ==
    /\ waitsOn[r] # NoEntry
    /\ pc[r] = "done" \/ WaitMayTimeOut
    /\ r \notin cancelled
    /\ cancelled' = cancelled \cup {r}
    /\ asleep' = {w \in asleep : waitsOn[w] # waitsOn[r]}
    /\ UNCHANGED <<flowVars, entries, heap, now, waitsOn>>

HandlerStep(r) ==
    /\ \E outcome \in Outcomes : RunHandler(r, outcome)
    /\ UNCHANGED <<storeVars, waitsOn, cancelled>>

SaveStep(r) ==
    /\ pc[r] = "save"
    /\ Save(r, key[r], Snapshot(r))
    /\ Goto(r, "flush")
    /\ UNCHANGED <<waitsOn, cancelled>>

FlushStep(r) ==
    /\ Flush(r)
    /\ UNCHANGED <<storeVars, waitsOn, cancelled>>

UnlockStep(r) ==
    /\ pc[r] = "unlock"
    /\ Unlock(key[r], waitsOn)
    /\ Goto(r, "done")
    /\ UNCHANGED <<waitsOn, cancelled>>

Sweep ==
    /\ SweepExpired
    /\ UNCHANGED <<flowVars, waitsOn, cancelled>>

\* Without SlowFlush the TTL is long enough for the holder to flush and unlock.
Tick ==
    /\ now < MaxTime
    /\ \/ SlowFlush
       \/ \A r \in Request : pc[r] \in {"flush", "unlock"} =>
             heap[Locked(r)].expiry = 0 \/ now < heap[Locked(r)].expiry
    /\ now' = now + 1
    /\ UNCHANGED <<flowVars, entries, heap, asleep, waitsOn, cancelled>>

Step(r) ==
    \/ Arrive(r) \/ GetStep(r) \/ LockStep(r) \/ RejectStep(r)
    \/ WaitStep(r) \/ WakeStep(r) \/ CancelStep(r)
    \/ HandlerStep(r) \/ SaveStep(r) \/ FlushStep(r) \/ UnlockStep(r)

Next ==
    \/ \E r \in Request : Step(r)
    \/ Sweep
    \/ Tick

Spec == Init /\ [][Next]_vars

\* Every goroutine that can run does run: handlers return, flushes end, and the
\* mutex is fair.  The clock, the janitor and client timeouts are not needed.
Fairness ==
    \A r \in Request :
        /\ WF_vars(GetStep(r)) /\ WF_vars(LockStep(r)) /\ WF_vars(RejectStep(r))
        /\ WF_vars(WaitStep(r)) /\ WF_vars(WakeStep(r)) /\ WF_vars(HandlerStep(r))
        /\ WF_vars(SaveStep(r)) /\ WF_vars(FlushStep(r)) /\ WF_vars(UnlockStep(r))

FairSpec == Spec /\ Fairness

----------------------------------------------------------------------------
\* Store.Lock: no two requests with one key are inside the handler together.
MutualExclusion ==
    \A r, s \in Request :
        r # s /\ key[r] = key[s] /\ pc[r] = "run" => pc[s] # "run"

\* The promise of the package: once a response has been saved under a key, the
\* handler does not run again for that key while the response is live.
NoSecondRun ==
    \A r, s \in Request :
        /\ r # s /\ key[r] = key[s]
        /\ pc[s] = "run"
        /\ heap[Locked(r)].resp # NoResponse
        => Expired(Locked(r))

\* A waiter is never left behind: as long as it sleeps, the entry it sleeps on
\* is in the map and its holder, who will broadcast, has yet to call Unlock.
NoLostWaiter ==
    \A w \in asleep : \E r \in Request :
        /\ pc[r] \in Holding
        /\ key[r] = key[w]
        /\ waitsOn[w] = entries[key[r]]

\* The middleware on the MemoryStore implements the abstract promise: a request
\* executes from Lock to Unlock, and the response of a key is live while the map
\* has an entry for it that is saved and has not expired.
None == NoResponse

LiveFor(k) ==
    IF entries[k] = NoEntry \/ Expired(entries[k]) \/ heap[entries[k]].resp = NoResponse
    THEN None ELSE heap[entries[k]].resp.by

executingBar == [k \in Key |-> {r \in Request : key[r] = k /\ pc[r] \in Holding}]
liveBar == [k \in Key |-> LiveFor(k)]
publishedBar == {r \in Request : heap[Locked(r)].resp # NoResponse}
replayedBar ==
    [r \in Request |-> IF reply[r].kind = "replay" THEN reply[r].from ELSE None]

Promise == INSTANCE IdempotentKey WITH
    executing <- executingBar, live <- liveBar,
    published <- publishedBar, replayed <- replayedBar

KeepsPromise == Promise!AbsSpec

----------------------------------------------------------------------------
(* The inductive invariant, for a TTL that outlasts the flush.             *)

\* A waiter has an entry to wait on.
WaitingOK == \A w \in Request : pc[w] = "waiting" => waitsOn[w] # NoEntry

\* The holder of a key owns the entry in the map, which cannot be evicted.
HeldOK ==
    \A r \in Request : pc[r] \in Holding =>
        /\ entries[key[r]] = Locked(r)
        /\ heap[Locked(r)].holder
        /\ ~heap[Locked(r)].released
        /\ ~Expired(Locked(r))

\* Every entry in the map was made by the Lock of a request for that key which
\* is still holding it or has left a response in it.
MapOK ==
    \A k \in Key : entries[k] # NoEntry =>
        \E r \in Request :
            /\ entries[k] = Locked(r)
            /\ key[r] = k
            /\ pc[r] \in Holding \/ heap[Locked(r)].resp # NoResponse

\* A response is saved by its owner, with its hash and an expiry, and stays in
\* the map as long as it is live.
SavedOK ==
    \A r \in Request : heap[Locked(r)].resp # NoResponse =>
        /\ heap[Locked(r)].resp = Snapshot(r)
        /\ heap[Locked(r)].expiry # 0
        /\ Cacheable(result[r])
        /\ pc[r] \in {"flush", "unlock", "done"}
        /\ pc[r] = "done" => heap[Locked(r)].released
        /\ ~Expired(Locked(r)) => entries[key[r]] = Locked(r)

UnsavedOK ==
    \A r \in Request :
        /\ pc[r] = "save" => Cacheable(result[r])
        /\ heap[Locked(r)].resp = NoResponse => heap[Locked(r)].expiry = 0
        /\ heap[Locked(r)].holder => pc[r] \in Holding

\* A waiter waits on an entry of its own key, and while it sleeps the owner of
\* that entry has not unlocked it.
WaitersOK ==
    /\ \A w \in Request : waitsOn[w] # NoEntry =>
          \E r \in Request : waitsOn[w] = Locked(r) /\ key[r] = key[w] /\ r # w
    /\ \A w \in asleep : pc[w] = "waiting"
    /\ \A w \in asleep : \A r \in Request :
          waitsOn[w] = Locked(r) => pc[r] \in Holding

RepliesOK ==
    \A r \in Request :
        /\ pc[r] # "done" => reply[r].kind # "replay"
        /\ reply[r].kind = "replay" =>
            LET s == reply[r].from IN
            /\ s # r
            /\ key[s] = key[r]
            /\ heap[Locked(s)].resp # NoResponse
            /\ HashRequestBody => payload[s] = payload[r]

IInv ==
    /\ TypeOK /\ WaitingOK /\ HeldOK /\ MapOK /\ SavedOK /\ UnsavedOK
    /\ WaitersOK /\ RepliesOK

\* Wait returns: every request that entered the middleware is answered.
EveryRequestAnswered == \A r \in Request : pc[r] = "get" ~> pc[r] = "done"
=============================================================================
