---------------------------- MODULE MemoryStore ----------------------------
(***************************************************************************)
(* idempotency.MemoryStore (plugins/idempotency/store.go): a map from keys *)
(* to entry pointers behind one mutex.  Every method runs under the mutex  *)
(* and is one step.  An entry that has been deleted from the map lives on  *)
(* for the waiters that hold a pointer to it, so the heap of entries is    *)
(* kept apart from the map.  Lock allocates the caller's first entry; a    *)
(* Save that finds no entry allocates a second one.                        *)
(***************************************************************************)
EXTENDS IdempotencyTypes

CONSTANTS
    NoEntry,  \* the key is not in the map
    TTL       \* the effective TTL passed to Save

ASSUME StoreAssumption ==
    /\ TTL \in Nat \ {0}
    /\ NoEntry \notin Request \X {"lock", "save"}

VARIABLES
    entries,  \* the map: Key -> entry pointer, or NoEntry
    heap,     \* what each entry pointer points to
    asleep,   \* the waiters blocked in cond.Wait
    now       \* the clock

storeVars == <<entries, heap, asleep, now>>

Locked(r) == <<r, "lock">>      \* the entry Lock creates for r
Recreated(r) == <<r, "save">>   \* the entry Save creates for r

EntryId == Request \X {"lock", "save"}

\* expiry 0 is the zero time.
Entry == [resp : Response \cup {NoResponse},
          expiry : Nat, holder : BOOLEAN, released : BOOLEAN]

EmptyEntry ==
    [resp |-> NoResponse, expiry |-> 0, holder |-> FALSE, released |-> FALSE]

StoreTypeOK ==
    /\ entries \in [Key -> EntryId \cup {NoEntry}]
    /\ heap \in [EntryId -> Entry]
    /\ asleep \in SUBSET Request
    /\ now \in Nat
    /\ \A e \in EntryId : heap[e].released => heap[e].resp # NoResponse

StoreInit ==
    /\ entries = [k \in Key |-> NoEntry]
    /\ heap = [e \in EntryId |-> EmptyEntry]
    /\ asleep = {}
    /\ now = 1

\* !e.expiry.IsZero() && e.expiry.Before(now)
Expired(e) == heap[e].expiry # 0 /\ heap[e].expiry < now

----------------------------------------------------------------------------
\* Mutants: an empty shell, or any entry without a holder, counts as free.
LockAcquiresShell(k) == entries[k] = NoEntry \/ heap[entries[k]].resp = NoResponse
LockAcquiresUnheld(k) ==
    entries[k] = NoEntry \/ Expired(entries[k]) \/ ~heap[entries[k]].holder

\* Lock succeeds when the key has no entry or an expired one.
LockAcquires(k) == entries[k] = NoEntry \/ Expired(entries[k])

Lock(r, k) ==
    /\ IF LockAcquires(k)
       THEN /\ entries' = [entries EXCEPT ![k] = Locked(r)]
            /\ heap' = [heap EXCEPT ![Locked(r)] = [EmptyEntry EXCEPT !.holder = TRUE]]
       ELSE UNCHANGED <<entries, heap>>
    /\ UNCHANGED <<asleep, now>>

\* What Get returns: nothing for an absent, expired or still empty entry.
GetResult(k) ==
    IF entries[k] = NoEntry \/ Expired(entries[k])
    THEN NoResponse ELSE heap[entries[k]].resp

\* Get evicts the expired entry it meets.
Get(k) ==
    /\ entries' = IF entries[k] # NoEntry /\ Expired(entries[k])
                  THEN [entries EXCEPT ![k] = NoEntry] ELSE entries
    /\ UNCHANGED <<heap, asleep, now>>

\* Save fills the entry it finds under the key, or a new one without holder.
Save(r, k, resp) ==
    LET e == IF entries[k] = NoEntry THEN Recreated(r) ELSE entries[k] IN
    /\ entries' = [entries EXCEPT ![k] = e]
    /\ heap' = [heap EXCEPT ![e] = [@ EXCEPT !.resp = resp, !.expiry = now + TTL]]
    /\ UNCHANGED <<asleep, now>>

\* Mutants of Unlock: no broadcast, the entry dropped even when a response was saved.
UnlockSilent(k, waitsOn) ==
    LET e == entries[k] IN
    /\ entries' = [entries EXCEPT ![k] =
                     IF e # NoEntry /\ heap[e].resp = NoResponse THEN NoEntry ELSE e]
    /\ heap' = IF e = NoEntry THEN heap
               ELSE [heap EXCEPT ![e].holder = FALSE,
                                 ![e].released = heap[e].resp # NoResponse]
    /\ UNCHANGED <<asleep, now>>

UnlockDrops(k, waitsOn) ==
    /\ entries' = [entries EXCEPT ![k] = NoEntry]
    /\ heap' = IF entries[k] = NoEntry THEN heap
               ELSE [heap EXCEPT ![entries[k]].holder = FALSE,
                        ![entries[k]].released = heap[entries[k]].resp # NoResponse]
    /\ asleep' = {w \in asleep : waitsOn[w] # entries[k]}
    /\ UNCHANGED now

\* Unlock acts on whatever entry is under the key, drops it when it is empty and
\* wakes every waiter of that entry; waitsOn maps waiters to their entries.
Unlock(k, waitsOn) ==
    LET e == entries[k] IN
    /\ IF e = NoEntry
       THEN UNCHANGED <<entries, heap, asleep>>
       ELSE /\ IF heap[e].resp = NoResponse
               THEN /\ entries' = [entries EXCEPT ![k] = NoEntry]
                    /\ heap' = [heap EXCEPT ![e] = [@ EXCEPT !.holder = FALSE]]
               ELSE /\ heap' = [heap EXCEPT ![e] = [@ EXCEPT !.holder = FALSE,
                                                              !.released = TRUE]]
                    /\ UNCHANGED entries
            /\ asleep' = {w \in asleep : waitsOn[w] # e}
    /\ UNCHANGED now

\* The loop of Wait for a caller that is not blocked: it leaves with a response,
\* leaves with nil, or (re)enters cond.Wait.
WaitReturnsResponse(e) == heap[e].released
WaitReturnsNil(e, isCancelled) ==
    ~heap[e].released /\ (isCancelled \/ (~heap[e].holder /\ heap[e].resp = NoResponse))

\* The janitor: expired entries go, except those that are still held.
SweepExpired ==
    /\ \E k \in Key : entries[k] # NoEntry /\ Expired(entries[k])
    /\ entries' = [k \in Key |->
                     IF /\ entries[k] # NoEntry
                        /\ ~heap[entries[k]].holder
                        /\ Expired(entries[k])
                     THEN NoEntry ELSE entries[k]]
    /\ UNCHANGED <<heap, asleep, now>>
=============================================================================
