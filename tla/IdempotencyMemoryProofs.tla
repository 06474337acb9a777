---------------------- MODULE IdempotencyMemoryProofs ----------------------
(***************************************************************************)
(* Proofs about plugins/idempotency on its MemoryStore, for any number of  *)
(* requests, keys and payloads and any configuration, as long as a saved   *)
(* response outlives the flush of the request that saved it.               *)
(***************************************************************************)
EXTENDS IdempotencyMemory, TLAPS

\* Entry pointers: distinct requests lock distinct entries, and an entry that
\* Lock made is neither nil nor one that Save made.
LEMMA LockedFacts ==
    /\ \A r \in Request : Locked(r) \in EntryId /\ Locked(r) # NoEntry
    /\ \A r, s \in Request : Locked(r) = Locked(s) => r = s
  BY StoreAssumption DEF Locked, EntryId

\* An empty store with no request in flight satisfies the inductive invariant.
LEMMA InitIInv == Init => IInv
  <1> SUFFICES ASSUME Init PROVE IInv
    OBVIOUS
  <1> USE DEF Init, FlowInit, StoreInit
  <1>1. TypeOK
    BY LockedFacts DEF TypeOK, FlowTypeOK, StoreTypeOK, EmptyEntry, Entry, AllOutcomes,
       Phases, ReplyKinds
  <1>2. HeldOK /\ MapOK
    BY DEF HeldOK, MapOK, Holding
  <1>3. SavedOK /\ UnsavedOK
    BY LockedFacts DEF SavedOK, UnsavedOK, EmptyEntry
  <1>4. WaitingOK /\ WaitersOK /\ RepliesOK
    BY DEF WaitingOK, WaitersOK, RepliesOK
  <1> QED
    BY <1>1, <1>2, <1>3, <1>4 DEF IInv

----------------------------------------------------------------------------
(* Type correctness, by component: every step of the flow is a Goto, a      *)
(* Finish, a RunHandler or a Flush, and every store method keeps the types. *)

\* Moving a request to another phase preserves the types of the flow.
LEMMA GotoType ==
  ASSUME FlowTypeOK, NEW r \in Request, NEW phase \in Phases, Goto(r, phase)
  PROVE  FlowTypeOK'
  BY DEF FlowTypeOK, Goto

\* Answering a request preserves the types of the flow.
LEMMA FinishType ==
  ASSUME FlowTypeOK, NEW r \in Request, NEW kind \in ReplyKinds, NEW from \in Request,
         Finish(r, kind, from)
  PROVE  FlowTypeOK'
  <1>1. [kind |-> kind, from |-> from] \in [kind : ReplyKinds, from : Request]
    OBVIOUS
  <1>2. pc' \in [Request -> Phases]
    BY DEF FlowTypeOK, Finish, Phases
  <1>3. reply' \in [Request -> [kind : ReplyKinds, from : Request]]
    BY <1>1 DEF FlowTypeOK, Finish
  <1> QED
    BY <1>2, <1>3 DEF FlowTypeOK, Finish

\* Replaying or refusing a stored response preserves the types of the flow.
LEMMA AnswerType ==
  ASSUME FlowTypeOK, NEW r \in Request, NEW resp \in Response, Answer(r, resp)
  PROVE  FlowTypeOK'
  <1>1. resp.by \in Request
    BY DEF Response
  <1>2. Finish(r, "mismatch", resp.by) \/ Finish(r, "replay", resp.by)
    BY DEF Answer
  <1> QED
    BY <1>1, <1>2, FinishType DEF ReplyKinds

\* So does what follows Store.Wait, with a response or with nil.
LEMMA WaitType ==
  ASSUME FlowTypeOK, NEW r \in Request, NEW resp \in Response \cup {NoResponse},
         AfterWait(r, resp)
  PROVE  FlowTypeOK'
  BY AnswerType, FinishType DEF AfterWait, ReplyKinds

\* The loop of MemoryStore.Wait preserves every type.
LEMMA WaitLoopType ==
  ASSUME TypeOK, NEW r \in Request, NEW e \in EntryId, WaitLoop(r, e)
  PROVE  FlowTypeOK' /\ StoreTypeOK' /\ cancelled' \in SUBSET Request
  <1>1. heap[e].resp \in Response \cup {NoResponse}
    BY DEF TypeOK, StoreTypeOK, Entry
  <1>2. \/ AfterWait(r, heap[e].resp) \/ AfterWait(r, NoResponse) \/ Goto(r, "waiting")
    BY DEF WaitLoop
  <1>3. FlowTypeOK'
    BY <1>1, <1>2, WaitType, GotoType DEF TypeOK, Phases
  <1>4. asleep' \in SUBSET Request
    BY DEF TypeOK, StoreTypeOK, WaitLoop
  <1> QED
    BY <1>3, <1>4 DEF TypeOK, StoreTypeOK, WaitLoop

\* Every step preserves the type invariant, for any TTL and flush time.
LEMMA NextType ==
  ASSUME TypeOK, WaitingOK, [Next]_vars PROVE TypeOK'
  <1> USE DEF TypeOK
  <1>1. ASSUME NEW r \in Request, Arrive(r) PROVE TypeOK'
    <2>1. FlowTypeOK'
      BY <1>1, GotoType, FinishType DEF Arrive, Enter, PassBy, Phases, ReplyKinds
    <2> QED
      BY <1>1, <2>1 DEF Arrive, StoreTypeOK, storeVars
  <1>2. ASSUME NEW r \in Request, GetStep(r) PROVE TypeOK'
    <2>1. key[r] \in Key /\ GetResult(key[r]) \in Response \cup {NoResponse}
      BY DEF FlowTypeOK, StoreTypeOK, GetResult, Entry
    <2>2. FlowTypeOK'
      BY <1>2, <2>1, AnswerType, GotoType DEF GetStep, AfterGet, Phases
    <2>3. StoreTypeOK'
      BY <1>2, <2>1 DEF GetStep, Get, StoreTypeOK
    <2> QED
      BY <1>2, <2>2, <2>3 DEF GetStep
  <1>3. ASSUME NEW r \in Request, LockStep(r) PROVE TypeOK'
    <2>1. FlowTypeOK'
      BY <1>3, GotoType DEF LockStep, AfterLock, Phases
    <2>2. [EmptyEntry EXCEPT !.holder = TRUE] \in Entry
      BY DEF EmptyEntry, Entry
    <2>3. heap' \in [EntryId -> Entry] /\ entries' \in [Key -> EntryId \cup {NoEntry}]
      BY <1>3, <2>2, LockedFacts DEF LockStep, Lock, StoreTypeOK, FlowTypeOK
    <2>4. \A e \in EntryId : heap'[e].released => heap'[e].resp # NoResponse
      BY <1>3, LockedFacts DEF LockStep, Lock, StoreTypeOK, EmptyEntry
    <2> QED
      BY <1>3, <2>1, <2>3, <2>4 DEF LockStep, Lock, StoreTypeOK
  <1>4. ASSUME NEW r \in Request, RejectStep(r) PROVE TypeOK'
    BY <1>4, FinishType DEF RejectStep, Reject, ReplyKinds, StoreTypeOK, storeVars
  <1>5. ASSUME NEW r \in Request, WaitStep(r) PROVE TypeOK'
    <2>1. CASE entries[key[r]] = NoEntry
      <3>1. FlowTypeOK'
        BY <1>5, <2>1, WaitType DEF WaitStep
      <3> QED
        BY <1>5, <2>1, <3>1 DEF WaitStep, StoreTypeOK, storeVars
    <2>2. CASE entries[key[r]] # NoEntry
      <3>1. entries[key[r]] \in EntryId
        BY <2>2 DEF FlowTypeOK, StoreTypeOK
      <3> QED
        BY <1>5, <2>2, <3>1, WaitLoopType DEF WaitStep
    <2> QED
      BY <2>1, <2>2
  <1>6. ASSUME NEW r \in Request, WakeStep(r) PROVE TypeOK'
    BY <1>6, WaitLoopType DEF WakeStep, WaitingOK
  <1>7. ASSUME NEW r \in Request, CancelStep(r) PROVE TypeOK'
    BY <1>7 DEF CancelStep, FlowTypeOK, StoreTypeOK, flowVars
  <1>8. ASSUME NEW r \in Request, HandlerStep(r) PROVE TypeOK'
    <2>1. PICK outcome \in Outcomes : RunHandler(r, outcome)
      BY <1>8 DEF HandlerStep
    <2>2. outcome \in AllOutcomes /\ AfterHandler(outcome) \in Phases
      BY FlowAssumption DEF AfterHandler, Phases
    <2>3. reply' \in [Request -> [kind : ReplyKinds, from : Request]]
      BY <2>1 DEF RunHandler, FlowTypeOK, ReplyKinds
    <2>4. FlowTypeOK'
      BY <2>1, <2>2, <2>3 DEF RunHandler, FlowTypeOK
    <2> QED
      BY <1>8, <2>4 DEF HandlerStep, StoreTypeOK, storeVars
  <1>9. ASSUME NEW r \in Request, SaveStep(r) PROVE TypeOK'
    <2>1. FlowTypeOK'
      BY <1>9, GotoType DEF SaveStep, Phases
    <2>2. Snapshot(r) \in Response
      BY DEF Snapshot, Response, FlowTypeOK
    <2> DEFINE e == IF entries[key[r]] = NoEntry THEN Recreated(r) ELSE entries[key[r]]
               saved == [heap[e] EXCEPT !.resp = Snapshot(r), !.expiry = now + TTL]
    <2>a. e \in EntryId
      <3>1. key[r] \in Key /\ entries[key[r]] \in EntryId \cup {NoEntry}
        BY DEF FlowTypeOK, StoreTypeOK
      <3>2. Recreated(r) \in EntryId
        BY DEF Recreated, EntryId
      <3> QED
        BY <3>1, <3>2
    <2>b. ASSUME NEW f \in EntryId
          PROVE  LET s == [heap[f] EXCEPT !.resp = Snapshot(r), !.expiry = now + TTL]
                 IN  s \in Entry /\ s.resp # NoResponse
      <3>1. heap[f] \in Entry /\ now + TTL \in Nat /\ Snapshot(r) # NoResponse
        BY <2>2, StoreAssumption, TypesAssumption DEF StoreTypeOK
      <3> QED
        BY <2>2, <3>1 DEF Entry
    <2>3. entries' = [entries EXCEPT ![key[r]] = e] /\ heap' = [heap EXCEPT ![e] = saved]
      BY <1>9 DEF SaveStep, Save
    <2>c. saved \in Entry /\ saved.resp # NoResponse
      BY <2>a, <2>b
    <2> HIDE DEF e, saved
    <2>4. entries' \in [Key -> EntryId \cup {NoEntry}]
      BY <2>a, <2>3 DEF StoreTypeOK
    <2>5. heap' \in [EntryId -> Entry]
      BY <2>a, <2>c, <2>3 DEF StoreTypeOK
    <2>6. \A f \in EntryId : heap'[f].released => heap'[f].resp # NoResponse
      BY <2>a, <2>c, <2>3 DEF StoreTypeOK
    <2> QED
      BY <1>9, <2>1, <2>4, <2>5, <2>6 DEF SaveStep, Save, StoreTypeOK
  <1>10. ASSUME NEW r \in Request, FlushStep(r) PROVE TypeOK'
    BY <1>10 DEF FlushStep, Flush, FlowTypeOK, StoreTypeOK, storeVars, Phases, ReplyKinds
  <1>11. ASSUME NEW r \in Request, UnlockStep(r) PROVE TypeOK'
    <2>1. FlowTypeOK'
      BY <1>11, GotoType DEF UnlockStep, Phases
    <2>2. CASE entries[key[r]] = NoEntry
      BY <1>11, <2>1, <2>2 DEF UnlockStep, Unlock, StoreTypeOK
    <2>3. CASE entries[key[r]] # NoEntry
      <3>1. entries[key[r]] \in EntryId
        BY <2>3 DEF FlowTypeOK, StoreTypeOK
      <3>2. entries' \in [Key -> EntryId \cup {NoEntry}] /\ asleep' \in SUBSET Request
        BY <1>11, <2>3 DEF UnlockStep, Unlock, StoreTypeOK
      <3>3. heap' \in [EntryId -> Entry]
        <4> DEFINE e == entries[key[r]]
        <4>1. /\ [heap[e] EXCEPT !.holder = FALSE] \in Entry
              /\ [heap[e] EXCEPT !.holder = FALSE, !.released = TRUE] \in Entry
          BY <3>1 DEF StoreTypeOK, Entry
        <4> QED
          BY <1>11, <2>3, <3>1, <4>1 DEF UnlockStep, Unlock, StoreTypeOK
      <3>4. \A f \in EntryId : heap'[f].released => heap'[f].resp # NoResponse
        BY <1>11, <2>3, <3>1, ZenonT(40) DEF UnlockStep, Unlock, StoreTypeOK, Entry
      <3> QED
        BY <1>11, <2>1, <3>2, <3>3, <3>4 DEF UnlockStep, Unlock, StoreTypeOK
    <2> QED
      BY <2>2, <2>3
  <1>12. ASSUME Sweep PROVE TypeOK'
    BY <1>12 DEF Sweep, SweepExpired, FlowTypeOK, StoreTypeOK, flowVars
  <1>13. ASSUME Tick PROVE TypeOK'
    BY <1>13 DEF Tick, FlowTypeOK, StoreTypeOK, flowVars
  <1>14. ASSUME UNCHANGED vars PROVE TypeOK'
    BY <1>14 DEF vars, FlowTypeOK, StoreTypeOK, flowVars, storeVars
  <1> QED
    BY <1>1, <1>2, <1>3, <1>4, <1>5, <1>6, <1>7, <1>8, <1>9, <1>10, <1>11, <1>12,
       <1>13, <1>14 DEF Next, Step

----------------------------------------------------------------------------
(* Replies: what each way of leaving the middleware does to RepliesOK.     *)

\* A request that moves on replays nothing, and no reply changes.
LEMMA GotoReplies ==
  ASSUME TypeOK, RepliesOK, NEW r \in Request, NEW phase, Goto(r, phase), pc[r] # "done",
         \A s \in Request : heap[Locked(s)].resp # NoResponse
                            => heap'[Locked(s)].resp # NoResponse
  PROVE  RepliesOK'
  BY DEF TypeOK, FlowTypeOK, RepliesOK, Goto

\* An answer other than a replay preserves what holds of replies.
LEMMA FinishReplies ==
  ASSUME TypeOK, RepliesOK, NEW r \in Request, NEW kind, NEW from, kind # "replay",
         Finish(r, kind, from), UNCHANGED heap
  PROVE  RepliesOK'
  BY DEF TypeOK, FlowTypeOK, RepliesOK, Finish

\* The response of another request for the same key is compared with the body
\* before it is replayed.
LEMMA AnswerReplies ==
  ASSUME TypeOK, RepliesOK, SavedOK, NEW r \in Request, NEW s \in Request, s # r,
         key[s] = key[r], heap[Locked(s)].resp # NoResponse,
         Answer(r, heap[Locked(s)].resp), UNCHANGED heap
  PROVE  RepliesOK'
  <1>1. heap[Locked(s)].resp = Snapshot(s)
    BY DEF SavedOK
  <1>2. CASE Finish(r, "mismatch", s)
    BY <1>2, FinishReplies
  <1>3. CASE Finish(r, "replay", s) /\ (HashRequestBody => payload[s] = payload[r])
    BY <1>3 DEF TypeOK, FlowTypeOK, RepliesOK, Finish
  <1> QED
    BY <1>1, <1>2, <1>3, TypesAssumption DEF Answer, Snapshot, TypeOK, FlowTypeOK

----------------------------------------------------------------------------
(* The loop of Wait, entered from a phase that holds nothing.              *)

\* The loop of MemoryStore.Wait preserves the inductive invariant.
LEMMA WaitLoopIInv ==
  ASSUME IInv, NEW r \in Request, NEW s \in Request, s # r, key[s] = key[r],
         pc[r] \in {"conflict", "waiting"}, r \notin asleep,
         waitsOn' = [waitsOn EXCEPT ![r] = Locked(s)],
         WaitLoop(r, Locked(s)), TypeOK'
  PROVE  IInv'
  <1> USE LockedFacts DEF IInv, WaitLoop, TypeOK, FlowTypeOK, StoreTypeOK
  <1>1. \/ /\ heap[Locked(s)].resp # NoResponse
           /\ Answer(r, heap[Locked(s)].resp)
           /\ asleep' = asleep
        \/ Finish(r, "conflict", r) /\ asleep' = asleep
        \/ /\ heap[Locked(s)].holder \/ heap[Locked(s)].resp # NoResponse
           /\ ~heap[Locked(s)].released
           /\ Goto(r, "waiting")
           /\ asleep' = asleep \cup {r}
    BY DEF WaitReturnsResponse, WaitReturnsNil, AfterWait
  <1>2. /\ pc'[r] \in {"done", "waiting"}
        /\ \A x \in Request : x # r => pc'[x] = pc[x]
        /\ UNCHANGED <<key, payload, result, heap, entries, now>>
    BY <1>1 DEF Answer, Finish, Goto
  <1>3. WaitingOK'
    BY <1>2 DEF WaitingOK
  <1>4. HeldOK' /\ MapOK'
    BY <1>2 DEF HeldOK, MapOK, Holding, Expired
  <1>5. SavedOK' /\ UnsavedOK'
    BY <1>2, SMTT(40) DEF SavedOK, UnsavedOK, Expired, Snapshot, Cacheable, Holding
  <1>6. RepliesOK'
    <2>1. pc[r] # "done" /\ UNCHANGED heap
      BY <1>2
    <2>2. CASE heap[Locked(s)].resp # NoResponse /\ Answer(r, heap[Locked(s)].resp)
      BY <2>1, <2>2, AnswerReplies
    <2>3. CASE Finish(r, "conflict", r)
      BY <2>1, <2>3, FinishReplies
    <2>4. CASE Goto(r, "waiting")
      BY <2>1, <2>4, GotoReplies
    <2> QED
      BY <1>1, <2>2, <2>3, <2>4
  <1>7. WaitersOK'
    <2>1. asleep' = asleep \/ (asleep' = asleep \cup {r} /\ pc'[r] = "waiting" /\ pc[s] \in Holding)
      BY <1>1 DEF Goto, SavedOK, UnsavedOK, Holding
    <2>2. \A w \in Request : waitsOn'[w] # NoEntry =>
            \E x \in Request : waitsOn'[w] = Locked(x) /\ key'[x] = key'[w] /\ x # w
      BY <1>2 DEF WaitersOK
    <2>3. \A w \in asleep' : pc'[w] = "waiting"
      BY <1>2, <2>1 DEF WaitersOK
    <2>4. ASSUME NEW w \in asleep', NEW x \in Request, waitsOn'[w] = Locked(x)
          PROVE  pc'[x] \in Holding
      <3>1. CASE w = r
        BY <1>2, <2>1, <2>4, <3>1
      <3>2. CASE w # r
        <4>1. w \in asleep /\ waitsOn[w] = Locked(x)
          BY <2>1, <2>4, <3>2
        <4>2. pc[x] \in Holding
          BY <4>1 DEF WaitersOK
        <4> QED
          BY <1>2, <4>2 DEF Holding
      <3> QED
        BY <3>1, <3>2
    <2> QED
      BY <2>2, <2>3, <2>4 DEF WaitersOK
  <1> QED
    BY <1>3, <1>4, <1>5, <1>6, <1>7

----------------------------------------------------------------------------
(* The invariant is inductive when the flush is not slower than the TTL.   *)

\* Every step preserves the inductive invariant when no response expires
\* before the Unlock of its holder.
LEMMA NextIInv ==
  ASSUME ~SlowFlush, IInv, [Next]_vars PROVE IInv'
  <1> USE LockedFacts DEF IInv
  <1>0. TypeOK'
    BY NextType
  <1>b. TypeOK /\ RepliesOK /\ SavedOK
    OBVIOUS
  <1> USE DEF TypeOK, FlowTypeOK, StoreTypeOK
  \* A request that holds nothing moves on and touches neither map nor heap.
  <1>a. ASSUME NEW r \in Request, pc[r] \notin Holding \cup {"done"},
               \A s \in Request : s # r => pc'[s] = pc[s],
               pc'[r] \in {"get", "conflict", "done"},
               r \notin asleep, RepliesOK',
               UNCHANGED <<key, payload, result, storeVars, waitsOn, cancelled>>
        PROVE  IInv'
    <2>1. WaitingOK' /\ HeldOK' /\ MapOK'
      BY <1>a DEF WaitingOK, HeldOK, MapOK, Holding, Expired, storeVars
    <2>2. SavedOK' /\ UnsavedOK'
      BY <1>a DEF SavedOK, UnsavedOK, Expired, Snapshot, Cacheable, Holding, storeVars
    <2>3. WaitersOK'
      BY <1>a DEF WaitersOK, Holding, storeVars
    <2> QED
      BY <1>0, <1>a, <2>1, <2>2, <2>3
  <1>1. ASSUME NEW r \in Request, Arrive(r) PROVE IInv'
    <2>1. pc[r] = "idle" /\ r \notin asleep
      BY <1>1 DEF Arrive, Enter, PassBy, WaitersOK
    <2>2. RepliesOK'
      BY <1>1, <2>1, GotoReplies, FinishReplies DEF Arrive, Enter, PassBy, storeVars
    <2> QED
      BY <1>a, <1>1, <2>1, <2>2 DEF Arrive, Enter, PassBy, Goto, Finish, Holding
  <1>2. ASSUME NEW r \in Request, GetStep(r) PROVE IInv'
    <2>1. pc[r] = "get" /\ r \notin asleep /\ UNCHANGED heap
      BY <1>2 DEF GetStep, Get, WaitersOK
    <2>2. \/ /\ AfterGet(r, GetResult(key[r])) /\ GetResult(key[r]) # NoResponse
             /\ pc' = [pc EXCEPT ![r] = "done"]
          \/ Goto(r, "lock") /\ pc' = [pc EXCEPT ![r] = "lock"]
      BY <1>2 DEF GetStep, AfterGet, Answer, Goto, Finish
    <2>3. \A k \in Key :
             \/ entries'[k] = entries[k]
             \/ entries[k] # NoEntry /\ Expired(entries[k]) /\ entries'[k] = NoEntry
      <3>1. CASE entries[key[r]] # NoEntry /\ Expired(entries[key[r]])
        <4>1. entries' = [entries EXCEPT ![key[r]] = NoEntry]
          BY <1>2, <3>1 DEF GetStep, Get
        <4> QED
          BY <3>1, <4>1 DEF Expired
      <3>2. CASE ~(entries[key[r]] # NoEntry /\ Expired(entries[key[r]]))
        <4>1. entries' = entries
          BY <1>2, <3>2 DEF GetStep, Get
        <4> QED
          BY <4>1
      <3> QED
        BY <3>1, <3>2
    <2>4. UNCHANGED <<key, payload, result, heap, asleep, now, waitsOn, cancelled>>
      BY <1>2, <2>2 DEF GetStep, Get, AfterGet, Answer, Goto, Finish
    <2>5. WaitingOK' /\ WaitersOK'
      BY <2>1, <2>2, <2>4 DEF WaitingOK, WaitersOK, Holding
    <2>6. HeldOK'
      BY <2>1, <2>2, <2>3, <2>4 DEF HeldOK, Holding, Expired
    <2>7. MapOK'
      BY <2>1, <2>2, <2>3, <2>4 DEF MapOK, Holding
    <2>8. SavedOK' /\ UnsavedOK'
      BY <2>1, <2>2, <2>3, <2>4
         DEF SavedOK, UnsavedOK, Expired, Snapshot, Cacheable, Holding
    <2>9. RepliesOK'
      <3>1. CASE GetResult(key[r]) # NoResponse
        <4>1. PICK s \in Request :
                 /\ entries[key[r]] = Locked(s)
                 /\ key[s] = key[r]
                 /\ pc[s] \in Holding \/ heap[Locked(s)].resp # NoResponse
           BY <3>1 DEF MapOK, GetResult
        <4>2. GetResult(key[r]) = heap[Locked(s)].resp
          BY <3>1, <4>1 DEF GetResult, Expired
        <4>3. s # r
          BY <2>1, <3>1, <4>2 DEF SavedOK
        <4>4. Answer(r, heap[Locked(s)].resp)
          BY <1>2, <3>1, <4>2 DEF GetStep, AfterGet
        <4> HIDE DEF IInv, TypeOK, FlowTypeOK, StoreTypeOK
        <4> QED
          BY <1>b, <2>1, <3>1, <4>1, <4>2, <4>3, <4>4, AnswerReplies
      <3>2. CASE GetResult(key[r]) = NoResponse
        BY <2>1, <2>2, <3>2, GotoReplies
      <3> QED
        BY <3>1, <3>2
    <2> QED
      BY <1>0, <2>5, <2>6, <2>7, <2>8, <2>9
  <1>3. ASSUME NEW r \in Request, LockStep(r) PROVE IInv'
    <2> DEFINE k == key[r]
    <2>1. CASE LockAcquires(k)
      <3>1. /\ entries' = [entries EXCEPT ![k] = Locked(r)]
            /\ heap' = [heap EXCEPT ![Locked(r)] = [EmptyEntry EXCEPT !.holder = TRUE]]
            /\ pc' = [pc EXCEPT ![r] = "run"]
            /\ pc[r] = "lock" /\ k \in Key
            /\ UNCHANGED <<key, payload, result, reply, asleep, now, waitsOn, cancelled>>
        BY <1>3, <2>1 DEF LockStep, Lock, AfterLock, Goto
      <3>2. /\ heap'[Locked(r)].resp = NoResponse /\ heap'[Locked(r)].expiry = 0
            /\ heap'[Locked(r)].holder /\ ~heap'[Locked(r)].released
            /\ \A s \in Request : s # r => heap'[Locked(s)] = heap[Locked(s)]
            /\ heap[Locked(r)].resp = NoResponse
        BY <3>1 DEF EmptyEntry, SavedOK
      \* The key was free: nobody holds it and no response under it is live.
      <3>3. \A s \in Request : key[s] = k => pc[s] \notin Holding
        BY <2>1 DEF LockAcquires, HeldOK
      <3>4. \A s \in Request : key[s] = k /\ heap[Locked(s)].resp # NoResponse
                               => Expired(Locked(s))
        BY <2>1 DEF LockAcquires, SavedOK
      <3>5. WaitingOK' /\ WaitersOK'
        BY <3>1, <3>2 DEF WaitingOK, WaitersOK, Holding
      <3>6. HeldOK'
        BY <3>1, <3>2, <3>3 DEF HeldOK, Holding, Expired
      <3>7. MapOK'
        <4>1. ASSUME NEW j \in Key, entries'[j] # NoEntry
              PROVE  \E s \in Request : /\ entries'[j] = Locked(s)
                                        /\ key'[s] = j
                                        /\ \/ pc'[s] \in Holding
                                           \/ heap'[Locked(s)].resp # NoResponse
          <5>1. CASE j = k
            BY <3>1, <5>1 DEF Holding
          <5>2. CASE j # k
            <6>1. PICK s \in Request : /\ entries[j] = Locked(s) /\ key[s] = j
                                       /\ \/ pc[s] \in Holding
                                          \/ heap[Locked(s)].resp # NoResponse
              BY <3>1, <4>1, <5>2 DEF MapOK
            <6> QED
              BY <3>1, <3>2, <5>2, <6>1
          <5> QED
            BY <5>1, <5>2
        <4> QED
          BY <4>1 DEF MapOK
      <3>8. SavedOK'
        BY <3>1, <3>2, <3>4 DEF SavedOK, Expired, Snapshot, Cacheable
      <3>9. UnsavedOK'
        BY <3>1, <3>2 DEF UnsavedOK, Cacheable, Holding
      <3>10. RepliesOK'
        BY <3>1, <3>2 DEF RepliesOK
      <3> QED
        BY <1>0, <3>5, <3>6, <3>7, <3>8, <3>9, <3>10
    <2>2. CASE ~LockAcquires(k)
      <3>1. Goto(r, "conflict") /\ pc[r] = "lock" /\ UNCHANGED <<storeVars, waitsOn, cancelled>>
        BY <1>3, <2>2 DEF LockStep, Lock, AfterLock, storeVars
      <3>2. RepliesOK' /\ r \notin asleep
        BY <3>1, GotoReplies DEF WaitersOK, storeVars
      <3> QED
        BY <1>a, <3>1, <3>2 DEF Goto, Holding
    <2> QED
      BY <2>1, <2>2
  <1>4. ASSUME NEW r \in Request, RejectStep(r) PROVE IInv'
    <2>1. pc[r] = "conflict" /\ Finish(r, "conflict", r) /\ r \notin asleep
      BY <1>4 DEF RejectStep, Reject, WaitersOK
    <2>2. RepliesOK'
      BY <1>4, <2>1, FinishReplies DEF RejectStep, storeVars
    <2> QED
      BY <1>a, <1>4, <2>1, <2>2 DEF RejectStep, Finish, Holding
  <1>5. ASSUME NEW r \in Request, WaitStep(r) PROVE IInv'
    <2>1. pc[r] = "conflict" /\ r \notin asleep
      BY <1>5 DEF WaitStep, WaitersOK
    <2>2. CASE entries[key[r]] = NoEntry
      <3>1. Finish(r, "conflict", r) /\ UNCHANGED <<storeVars, waitsOn, cancelled>>
        BY <1>5, <2>2 DEF WaitStep, AfterWait
      <3>2. RepliesOK'
        BY <3>1, FinishReplies DEF storeVars
      <3> QED
        BY <1>a, <2>1, <3>1, <3>2 DEF Finish, Holding
    <2>3. CASE entries[key[r]] # NoEntry
      <3>1. PICK s \in Request :
               /\ entries[key[r]] = Locked(s)
               /\ key[s] = key[r]
               /\ pc[s] \in Holding \/ heap[Locked(s)].resp # NoResponse
         BY <2>3 DEF MapOK
      <3>2. s # r
        BY <2>1, <3>1 DEF SavedOK, Holding
      <3>3. /\ waitsOn' = [waitsOn EXCEPT ![r] = Locked(s)]
            /\ WaitLoop(r, Locked(s))
        BY <1>5, <2>3, <3>1 DEF WaitStep, WaitLoop, WaitReturnsResponse, WaitReturnsNil,
           AfterWait, Answer, Finish, Goto
      <3> HIDE DEF IInv, TypeOK, FlowTypeOK, StoreTypeOK
      <3> QED
        BY <1>0, <2>1, <3>1, <3>2, <3>3, WaitLoopIInv
    <2> QED
      BY <2>2, <2>3
  <1>6. ASSUME NEW r \in Request, WakeStep(r) PROVE IInv'
    <2>1. PICK s \in Request : waitsOn[r] = Locked(s) /\ key[s] = key[r] /\ s # r
      BY <1>6 DEF WakeStep, WaitersOK, WaitingOK
    <2>2. /\ waitsOn' = [waitsOn EXCEPT ![r] = Locked(s)]
          /\ WaitLoop(r, Locked(s)) /\ pc[r] = "waiting" /\ r \notin asleep
      BY <1>6, <2>1 DEF WakeStep
    <2> HIDE DEF IInv, TypeOK, FlowTypeOK, StoreTypeOK
    <2> QED
      BY <1>0, <2>1, <2>2, WaitLoopIInv
  <1>7. ASSUME NEW r \in Request, CancelStep(r) PROVE IInv'
    <2> USE <1>7 DEF CancelStep, flowVars
    <2>1. WaitingOK' /\ HeldOK' /\ MapOK'
      BY DEF WaitingOK, HeldOK, MapOK, Expired
    <2>2. SavedOK' /\ UnsavedOK'
      BY DEF SavedOK, UnsavedOK, Expired, Snapshot, Cacheable
    <2>3. WaitersOK' /\ RepliesOK'
      BY DEF WaitersOK, RepliesOK
    <2> QED
      BY <1>0, <2>1, <2>2, <2>3
  <1>8. ASSUME NEW r \in Request, HandlerStep(r) PROVE IInv'
    <2>1. PICK outcome \in Outcomes : RunHandler(r, outcome)
      BY <1>8 DEF HandlerStep
    <2>2. /\ pc[r] = "run" /\ pc'[r] \in {"save", "flush", "unlock"}
          /\ pc'[r] = "save" => Cacheable(result'[r])
          /\ \A s \in Request : s # r => pc'[s] = pc[s] /\ result'[s] = result[s]
          /\ reply'[r].kind # "replay"
          /\ \A s \in Request : s # r => reply'[s] = reply[s]
          /\ UNCHANGED <<key, payload, entries, heap, asleep, now, waitsOn, cancelled>>
      BY <1>8, <2>1 DEF RunHandler, AfterHandler, RepliesOK, HandlerStep, storeVars
    <2>3. WaitingOK' /\ HeldOK' /\ MapOK'
      BY <2>2 DEF WaitingOK, HeldOK, MapOK, Holding, Expired
    <2>4. SavedOK' /\ UnsavedOK'
      BY <2>2 DEF SavedOK, UnsavedOK, Expired, Snapshot, Cacheable, Holding
    <2>5. WaitersOK'
      BY <2>2 DEF WaitersOK, Holding
    <2>6. RepliesOK'
      BY <2>2, SMTT(40) DEF RepliesOK
    <2> QED
      BY <1>0, <2>3, <2>4, <2>5, <2>6
  <1>9. ASSUME NEW r \in Request, SaveStep(r) PROVE IInv'
    <2> DEFINE saved == [heap[Locked(r)] EXCEPT !.resp = Snapshot(r), !.expiry = now + TTL]
    <2>1. entries[key[r]] = Locked(r) /\ pc[r] = "save"
      BY <1>9 DEF SaveStep, HeldOK, Holding
    <2>2. /\ entries' = [entries EXCEPT ![key[r]] = Locked(r)]
          /\ heap' = [heap EXCEPT ![Locked(r)] = saved]
          /\ pc' = [pc EXCEPT ![r] = "flush"]
          /\ UNCHANGED <<key, payload, result, reply, asleep, now, waitsOn, cancelled>>
      BY <1>9, <2>1 DEF SaveStep, Save, Goto
    <2>3. heap[Locked(r)] \in Entry /\ now \in Nat /\ TTL \in Nat \ {0}
      BY StoreAssumption
    <2>4. /\ saved.resp = Snapshot(r) /\ saved.expiry = now + TTL
          /\ saved.holder = heap[Locked(r)].holder
          /\ saved.released = heap[Locked(r)].released
      BY <2>3 DEF Entry
    <2>5. /\ entries' = entries
          /\ heap'[Locked(r)] = saved
          /\ \A s \in Request : s # r => heap'[Locked(s)] = heap[Locked(s)]
      BY <2>1, <2>2
    <2>6. Snapshot(r) # NoResponse
      BY TypesAssumption DEF Snapshot, Response
    <2>7. ~Expired(Locked(r))'
      BY <2>2, <2>3, <2>4, <2>5 DEF Expired
    <2> HIDE DEF saved
    <2>8. WaitingOK' /\ WaitersOK'
      BY <2>1, <2>2 DEF WaitingOK, WaitersOK, Holding
    <2>9. HeldOK'
      BY <2>1, <2>2, <2>4, <2>5, <2>7 DEF HeldOK, Holding, Expired
    <2>10. MapOK'
      BY <2>1, <2>2, <2>4, <2>5, <2>6 DEF MapOK, Holding
    <2>11. SavedOK'
      <3>1. ASSUME NEW s \in Request, heap'[Locked(s)].resp # NoResponse, s # r
            PROVE  /\ heap'[Locked(s)].resp = Snapshot(s)'
                   /\ heap'[Locked(s)].expiry # 0
                   /\ Cacheable(result'[s])
                   /\ pc'[s] \in {"flush", "unlock", "done"}
                   /\ pc'[s] = "done" => heap'[Locked(s)].released
                   /\ ~Expired(Locked(s))' => entries'[key'[s]] = Locked(s)
        BY <2>2, <2>5, <3>1 DEF SavedOK, Expired, Snapshot, Cacheable
      <3>2. /\ heap'[Locked(r)].resp = Snapshot(r)'
            /\ heap'[Locked(r)].expiry # 0
            /\ Cacheable(result'[r])
            /\ pc'[r] = "flush"
            /\ entries'[key'[r]] = Locked(r)
        BY <2>1, <2>2, <2>3, <2>4, <2>5 DEF UnsavedOK, Snapshot, Cacheable
      <3> QED
        BY <3>1, <3>2 DEF SavedOK, Cacheable
    <2>12. UnsavedOK'
      BY <2>1, <2>2, <2>4, <2>5, <2>6 DEF UnsavedOK, Cacheable, Holding
    <2>13. RepliesOK'
      BY <2>1, <2>2, <2>4, <2>5, <2>6 DEF RepliesOK
    <2> QED
      BY <1>0, <2>8, <2>9, <2>10, <2>11, <2>12, <2>13
  <1>10. ASSUME NEW r \in Request, FlushStep(r) PROVE IInv'
    <2> USE <1>10 DEF FlushStep, Flush, storeVars
    <2>1. WaitingOK' /\ HeldOK' /\ MapOK'
      BY DEF WaitingOK, HeldOK, MapOK, Holding, Expired
    <2>2. SavedOK' /\ UnsavedOK'
      BY DEF SavedOK, UnsavedOK, Expired, Snapshot, Cacheable, Holding
    <2>3. WaitersOK'
      BY DEF WaitersOK, Holding
    <2>4. RepliesOK'
      BY DEF RepliesOK
    <2> QED
      BY <1>0, <2>1, <2>2, <2>3, <2>4
  <1>11. ASSUME NEW r \in Request, UnlockStep(r) PROVE IInv'
    <2> DEFINE e == heap[Locked(r)]
    <2>1. /\ entries[key[r]] = Locked(r) /\ pc[r] = "unlock"
          /\ pc' = [pc EXCEPT ![r] = "done"] /\ e \in Entry
          /\ asleep' = {w \in asleep : waitsOn[w] # Locked(r)}
          /\ UNCHANGED <<key, payload, result, reply, now, waitsOn, cancelled>>
      BY <1>11 DEF UnlockStep, Unlock, Goto, HeldOK, Holding
    <2>2. CASE e.resp = NoResponse
      <3>1. /\ entries' = [entries EXCEPT ![key[r]] = NoEntry]
            /\ heap' = [heap EXCEPT ![Locked(r)] = [e EXCEPT !.holder = FALSE]]
        BY <1>11, <2>1, <2>2 DEF UnlockStep, Unlock
      <3>2. /\ \A s \in Request : heap'[Locked(s)].resp = heap[Locked(s)].resp
            /\ \A s \in Request : heap'[Locked(s)].expiry = heap[Locked(s)].expiry
            /\ \A s \in Request : heap'[Locked(s)].released = heap[Locked(s)].released
            /\ \A s \in Request : s # r => heap'[Locked(s)].holder = heap[Locked(s)].holder
            /\ ~heap'[Locked(r)].holder
        BY <2>1, <3>1 DEF Entry
      <3>3. HeldOK'
        BY <2>1, <3>1, <3>2 DEF HeldOK, Holding, Expired
      <3>4. MapOK'
        BY <2>1, <3>1, <3>2 DEF MapOK, Holding
      <3>5. SavedOK' /\ UnsavedOK'
        BY <2>1, <2>2, <3>1, <3>2
           DEF SavedOK, UnsavedOK, Expired, Snapshot, Cacheable, Holding
      <3>6. RepliesOK'
        BY <2>1, <3>2 DEF RepliesOK
      <3> QED
        BY <3>3, <3>4, <3>5, <3>6, <1>0, <2>1 DEF WaitingOK, WaitersOK, Holding
    <2>3. CASE e.resp # NoResponse
      <3>1. /\ entries' = entries
            /\ heap' = [heap EXCEPT ![Locked(r)] =
                           [e EXCEPT !.holder = FALSE, !.released = TRUE]]
        BY <1>11, <2>1, <2>3 DEF UnlockStep, Unlock
      <3>2. /\ \A s \in Request : heap'[Locked(s)].resp = heap[Locked(s)].resp
            /\ \A s \in Request : heap'[Locked(s)].expiry = heap[Locked(s)].expiry
            /\ \A s \in Request : s # r =>
                  /\ heap'[Locked(s)].released = heap[Locked(s)].released
                  /\ heap'[Locked(s)].holder = heap[Locked(s)].holder
            /\ ~heap'[Locked(r)].holder /\ heap'[Locked(r)].released
        BY <2>1, <3>1 DEF Entry
      <3>3. HeldOK'
        BY <2>1, <3>1, <3>2 DEF HeldOK, Holding, Expired
      <3>4. MapOK'
        BY <2>1, <2>3, <3>1, <3>2 DEF MapOK, Holding
      <3>5. SavedOK' /\ UnsavedOK'
        BY <2>1, <2>3, <3>1, <3>2
           DEF SavedOK, UnsavedOK, Expired, Snapshot, Cacheable, Holding
      <3>6. RepliesOK'
        BY <2>1, <3>2 DEF RepliesOK
      <3> QED
        BY <3>3, <3>4, <3>5, <3>6, <1>0, <2>1 DEF WaitingOK, WaitersOK, Holding
    <2> QED
      BY <2>2, <2>3
  <1>12. ASSUME Sweep PROVE IInv'
    <2> USE <1>12 DEF Sweep, SweepExpired, flowVars
    <2>1. WaitingOK' /\ WaitersOK' /\ RepliesOK'
      BY DEF WaitingOK, WaitersOK, RepliesOK
    <2>2. HeldOK' /\ MapOK'
      BY DEF HeldOK, MapOK, Expired
    <2>3. SavedOK' /\ UnsavedOK'
      BY DEF SavedOK, UnsavedOK, Expired, Snapshot, Cacheable
    <2> QED
      BY <1>0, <2>1, <2>2, <2>3
  <1>13. ASSUME Tick PROVE IInv'
    <2> USE <1>13 DEF Tick, flowVars
    <2>1. WaitingOK' /\ WaitersOK' /\ RepliesOK' /\ MapOK'
      BY DEF WaitingOK, WaitersOK, RepliesOK, MapOK
    <2>2. HeldOK'
      <3>1. ASSUME NEW r \in Request, pc[r] \in Holding PROVE ~Expired(Locked(r))'
        <4>1. heap[Locked(r)].expiry \in Nat /\ now \in Nat
          BY DEF Entry
        <4>2. heap[Locked(r)].expiry = 0 \/ now < heap[Locked(r)].expiry
          <5>1. CASE pc[r] \in {"flush", "unlock"}
            BY <5>1
          <5>2. CASE pc[r] \in {"run", "save"}
            BY <5>2 DEF SavedOK, UnsavedOK
          <5> QED
            BY <3>1, <5>1, <5>2 DEF Holding
        <4> QED
          BY <4>1, <4>2 DEF Expired
      <3> QED
        BY <3>1 DEF HeldOK
    <2>3. SavedOK' /\ UnsavedOK'
      <3>1. \A r \in Request : Expired(Locked(r)) => Expired(Locked(r))'
        BY DEF Expired, Entry
      <3> QED
        BY <3>1 DEF SavedOK, UnsavedOK, Snapshot, Cacheable
    <2> QED
      BY <1>0, <2>1, <2>2, <2>3
  <1>14. ASSUME UNCHANGED vars PROVE IInv'
    <2> USE <1>14 DEF vars, flowVars, storeVars
    <2>1. WaitingOK' /\ WaitersOK' /\ RepliesOK' /\ MapOK' /\ HeldOK'
      BY DEF WaitingOK, WaitersOK, RepliesOK, MapOK, HeldOK, Expired
    <2>2. SavedOK' /\ UnsavedOK'
      BY DEF SavedOK, UnsavedOK, Expired, Snapshot, Cacheable
    <2> QED
      BY <1>0, <2>1, <2>2
  <1> QED
    BY <1>1, <1>2, <1>3, <1>4, <1>5, <1>6, <1>7, <1>8, <1>9, <1>10, <1>11, <1>12,
       <1>13, <1>14 DEF Next, Step

----------------------------------------------------------------------------
\* A waiter always has an entry to wait on, for any TTL and flush time.
LEMMA NextWaiting ==
  ASSUME TypeOK, WaitingOK, [Next]_vars PROVE WaitingOK'
  <1> USE DEF TypeOK, FlowTypeOK, WaitingOK
  \* Only the loop of Wait makes a request wait, and then it has an entry.
  <1>1. ASSUME NEW r \in Request, WaitStep(r) \/ WakeStep(r) PROVE WaitingOK'
    <2>1. \A s \in Request : s # r => pc'[s] = pc[s] /\ waitsOn'[s] = waitsOn[s]
      BY <1>1 DEF WaitStep, WakeStep, WaitLoop, AfterWait, Answer, Finish, Goto
    <2>2. pc'[r] = "waiting" => waitsOn'[r] # NoEntry
      BY <1>1 DEF WaitStep, WakeStep, AfterWait, Finish
    <2> QED
      BY <2>1, <2>2
  <1>2. ASSUME NEW r \in Request,
               Arrive(r) \/ GetStep(r) \/ LockStep(r) \/ RejectStep(r) \/ CancelStep(r)
        PROVE  WaitingOK'
    BY <1>2 DEF Arrive, Enter, PassBy, GetStep, AfterGet, Answer, LockStep, AfterLock,
       RejectStep, Reject, CancelStep, Finish, Goto, flowVars
  <1>3. ASSUME NEW r \in Request,
               HandlerStep(r) \/ SaveStep(r) \/ FlushStep(r) \/ UnlockStep(r)
        PROVE  WaitingOK'
    BY <1>3 DEF HandlerStep, RunHandler, AfterHandler, SaveStep, FlushStep, Flush,
       UnlockStep, Goto
  <1>4. ASSUME Sweep \/ Tick \/ UNCHANGED vars PROVE WaitingOK'
    BY <1>4 DEF Sweep, Tick, vars, flowVars
  <1> QED
    BY <1>1, <1>2, <1>3, <1>4 DEF Next, Step

\* The types of the store and of the flow hold whatever the TTL; in particular an
\* entry is marked released only when it has a response, which is what Wait
\* returns to its caller.
THEOREM TypeCorrect == Spec => []TypeOK
  <1>1. Init => TypeOK /\ WaitingOK
    BY InitIInv DEF IInv
  <1>2. TypeOK /\ WaitingOK /\ [Next]_vars => (TypeOK /\ WaitingOK)'
    BY NextType, NextWaiting
  <1> QED
    BY <1>1, <1>2, PTL DEF Spec

\* The inductive invariant holds in every reachable state when no response
\* expires before the Unlock of its holder.
THEOREM Inductive == ASSUME ~SlowFlush PROVE Spec => []IInv
  <1>1. IInv /\ [Next]_vars => IInv'
    BY NextIInv
  <1> QED
    BY InitIInv, <1>1, PTL DEF Spec

\* The inductive invariant implies the safety properties of the middleware.
LEMMA IInvSafe ==
  ASSUME IInv PROVE MutualExclusion /\ NoSecondRun /\ NoLostWaiter /\ ReplayFaithful
  <1> USE LockedFacts DEF IInv
  <1>1. MutualExclusion
    BY DEF MutualExclusion, HeldOK, Holding
  <1>2. NoSecondRun
    BY DEF NoSecondRun, HeldOK, SavedOK, Holding
  <1>3. NoLostWaiter
    <2> SUFFICES ASSUME NEW w \in asleep
                 PROVE  \E r \in Request : /\ pc[r] \in Holding
                                           /\ key[r] = key[w]
                                           /\ waitsOn[w] = entries[key[r]]
      BY DEF NoLostWaiter
    <2>1. w \in Request /\ pc[w] = "waiting" /\ waitsOn[w] # NoEntry
      BY DEF TypeOK, StoreTypeOK, WaitersOK, WaitingOK
    <2>2. PICK r \in Request : waitsOn[w] = Locked(r) /\ key[r] = key[w]
      BY <2>1 DEF WaitersOK
    <2>3. pc[r] \in Holding
      BY <2>2 DEF WaitersOK
    <2> QED
      BY <2>2, <2>3 DEF HeldOK
  <1>4. ReplayFaithful
    BY DEF ReplayFaithful, RepliesOK, SavedOK, TypeOK, FlowTypeOK
  <1> QED
    BY <1>1, <1>2, <1>3, <1>4

\* Lock is a mutual exclusion: the handler never runs for two requests with one
\* key at a time.
THEOREM Exclusion == ASSUME ~SlowFlush PROVE Spec => []MutualExclusion
  BY Inductive, IInvSafe, PTL

\* The handler does not run again under a key whose saved response is live.
THEOREM OneRun == ASSUME ~SlowFlush PROVE Spec => []NoSecondRun
  BY Inductive, IInvSafe, PTL

\* No waiter sleeps on an entry whose holder has already called Unlock.
THEOREM NobodyForgotten == ASSUME ~SlowFlush PROVE Spec => []NoLostWaiter
  BY Inductive, IInvSafe, PTL

\* A replay hands out a response of the same key and, if hashed, the same body.
THEOREM FaithfulReplay == ASSUME ~SlowFlush PROVE Spec => []ReplayFaithful
  BY Inductive, IInvSafe, PTL
----------------------------------------------------------------------------
(* Refinement: the middleware on the MemoryStore implements IdempotentKey. *)

\* A step that keeps phases and keys keeps the set of executing requests.
LEMMA SameExecuting ==
  ASSUME UNCHANGED key,
         \A r \in Request : pc'[r] \in Holding <=> pc[r] \in Holding
  PROVE  executingBar' = executingBar
  BY DEF executingBar, Holding

\* A step that keeps map, heap and clock keeps the live responses.
LEMMA SameLive ==
  ASSUME UNCHANGED <<entries, heap, now>>
  PROVE  liveBar' = liveBar
  BY DEF liveBar, LiveFor, Expired

\* A step that keeps the heap keeps the published responses.
LEMMA SamePublished ==
  ASSUME \A r \in Request : heap'[Locked(r)].resp = heap[Locked(r)].resp
  PROVE  publishedBar' = publishedBar
  BY DEF publishedBar, Locked

\* A step that keeps the replies keeps what was replayed.
LEMMA SameReplayed ==
  ASSUME TypeOK, UNCHANGED reply
  PROVE  replayedBar' = replayedBar
  BY DEF replayedBar

\* An answer other than a replay is not visible as a replay.
LEMMA OtherFinish ==
  ASSUME TypeOK, RepliesOK, NEW r \in Request, NEW kind, NEW from, kind # "replay",
         pc[r] # "done", Finish(r, kind, from)
  PROVE  replayedBar' = replayedBar
  BY DEF replayedBar, RepliesOK, Finish, TypeOK, FlowTypeOK

\* Replaying a stored response is a Replay of the abstract specification.
LEMMA ReplayStep ==
  ASSUME TypeOK, RepliesOK, SavedOK, NEW r \in Request, NEW s \in Request, s # r,
         key[s] = key[r], heap[Locked(s)].resp # NoResponse, pc[r] # "done",
         pc[r] \notin Holding,
         Answer(r, heap[Locked(s)].resp), UNCHANGED heap, liveBar' = liveBar
  PROVE  Promise!AbsNext \/ UNCHANGED Promise!absVars
  <1>1. heap[Locked(s)].resp.by = s
    <2>1. heap[Locked(s)].resp = Snapshot(s)
      BY DEF SavedOK
    <2> QED
      BY <2>1 DEF Snapshot
  <1>2. executingBar' = executingBar /\ publishedBar' = publishedBar
    <2>1. \A x \in Request : pc'[x] \in Holding <=> pc[x] \in Holding
      BY DEF Answer, Finish, Holding, TypeOK, FlowTypeOK
    <2> QED
      BY <2>1, SameExecuting, SamePublished DEF Answer, Finish
  <1>3. CASE Finish(r, "mismatch", s)
    BY <1>2, <1>3, OtherFinish DEF Promise!absVars, Finish
  <1>4. CASE Finish(r, "replay", s)
    <2>1. replayedBar[r] = None /\ replayedBar' = [replayedBar EXCEPT ![r] = s]
      BY <1>4 DEF replayedBar, RepliesOK, Finish, TypeOK, FlowTypeOK
    <2>2. s \in publishedBar
      BY DEF publishedBar
    <2>3. Promise!Replay(r, s)
      BY <1>2, <1>4, <2>1, <2>2 DEF Promise!Replay, Finish
    <2> QED
      BY <2>3 DEF Promise!AbsNext
  <1>5. \/ Finish(r, "mismatch", heap[Locked(s)].resp.by)
        \/ Finish(r, "replay", heap[Locked(s)].resp.by)
    BY DEF Answer
  <1>6. Finish(r, "mismatch", s) \/ Finish(r, "replay", s)
    BY <1>1, <1>5 DEF Finish
  <1> QED
    BY <1>3, <1>4, <1>6

\* The loop of MemoryStore.Wait is a Replay or a stutter.
LEMMA WaitLoopStep ==
  ASSUME IInv, NEW r \in Request, NEW s \in Request, s # r, key[s] = key[r],
         pc[r] \in {"conflict", "waiting"}, WaitLoop(r, Locked(s))
  PROVE  Promise!AbsNext \/ UNCHANGED Promise!absVars
  <1>0. TypeOK /\ RepliesOK /\ SavedOK /\ pc[r] \notin Holding /\ pc[r] # "done"
    BY DEF IInv, Holding
  <1>1. UNCHANGED <<entries, heap, now>>
    BY DEF WaitLoop
  <1>2. liveBar' = liveBar /\ publishedBar' = publishedBar
    BY <1>1, SameLive, SamePublished
  <1>3. CASE heap[Locked(s)].resp # NoResponse /\ Answer(r, heap[Locked(s)].resp)
    BY <1>0, <1>1, <1>2, <1>3, ReplayStep
  <1>4. CASE Finish(r, "conflict", r) \/ Goto(r, "waiting")
    <2>1. \A x \in Request : pc'[x] \in Holding <=> pc[x] \in Holding
      BY <1>0, <1>4 DEF Goto, Finish, Holding, TypeOK, FlowTypeOK
    <2>2. UNCHANGED key /\ executingBar' = executingBar
      BY <1>4, <2>1, SameExecuting DEF Goto, Finish
    <2>3. replayedBar' = replayedBar
      BY <1>0, <1>4, OtherFinish, SameReplayed DEF Goto
    <2> QED
      BY <1>2, <2>2, <2>3 DEF Promise!absVars
  <1> QED
    BY LockedFacts, <1>0, <1>3, <1>4 DEF WaitLoop, WaitReturnsResponse, WaitReturnsNil,
       AfterWait, TypeOK, StoreTypeOK

\* Every step of the detailed specification is an abstract step or a stutter.
LEMMA RefinementStep ==
  ASSUME IInv, IInv', [Next]_vars PROVE Promise!AbsNext \/ UNCHANGED Promise!absVars
  <1>0. TypeOK /\ RepliesOK /\ SavedOK /\ MapOK /\ HeldOK /\ TypeOK'
    BY DEF IInv
  <1> USE LockedFacts
  \* Nothing that the promise speaks of changes.
  <1>a. ASSUME UNCHANGED <<key, entries, heap, now>>, replayedBar' = replayedBar,
               \A r \in Request : pc'[r] \in Holding <=> pc[r] \in Holding
        PROVE  UNCHANGED Promise!absVars
    BY <1>a, SameExecuting, SameLive, SamePublished DEF Promise!absVars
  <1>1. ASSUME NEW r \in Request, Arrive(r) \/ RejectStep(r)
        PROVE  UNCHANGED Promise!absVars
    <2>1. pc[r] \notin Holding /\ pc[r] # "done" /\ UNCHANGED <<key, entries, heap, now>>
      BY <1>1 DEF Arrive, Enter, PassBy, RejectStep, Reject, Goto, Finish, storeVars, Holding
    <2>2. \A s \in Request : pc'[s] \in Holding <=> pc[s] \in Holding
      BY <1>0, <1>1, <2>1 DEF Arrive, Enter, PassBy, RejectStep, Reject, Goto, Finish,
         Holding, TypeOK, FlowTypeOK
    <2>3. replayedBar' = replayedBar
      <3>1. \/ Goto(r, "get")
            \/ \E kind \in {"bypass", "error", "conflict"} : Finish(r, kind, r)
        BY <1>1 DEF Arrive, Enter, PassBy, RejectStep, Reject
      <3> QED
        BY <1>0, <2>1, <3>1, OtherFinish, SameReplayed DEF Goto
    <2> QED
      BY <1>a, <2>1, <2>2, <2>3
  <1>2. ASSUME NEW r \in Request, GetStep(r)
        PROVE  Promise!AbsNext \/ UNCHANGED Promise!absVars
    <2>1. /\ pc[r] = "get" /\ pc[r] \notin Holding /\ key[r] \in Key
          /\ UNCHANGED <<key, heap, now>>
      BY <1>0, <1>2 DEF GetStep, Get, AfterGet, Answer, Finish, Goto, Holding, TypeOK, FlowTypeOK
    <2>2. liveBar' = liveBar
      <3>1. CASE entries[key[r]] # NoEntry /\ Expired(entries[key[r]])
        <4>1. entries' = [entries EXCEPT ![key[r]] = NoEntry]
          BY <1>2, <3>1 DEF GetStep, Get
        <4> QED
          BY <1>0, <2>1, <3>1, <4>1 DEF liveBar, LiveFor, Expired, TypeOK, StoreTypeOK
      <3>2. CASE ~(entries[key[r]] # NoEntry /\ Expired(entries[key[r]]))
        <4>1. entries' = entries
          BY <1>2, <3>2 DEF GetStep, Get
        <4> QED
          BY <2>1, <4>1, SameLive
      <3> QED
        BY <3>1, <3>2
    <2>3. CASE GetResult(key[r]) # NoResponse
      <3>1. PICK s \in Request : entries[key[r]] = Locked(s) /\ key[s] = key[r]
        BY <1>0, <2>1, <2>3 DEF MapOK, GetResult
      <3>2. heap[Locked(s)].resp # NoResponse /\ Answer(r, heap[Locked(s)].resp)
        BY <1>2, <2>3, <3>1 DEF GetStep, AfterGet, GetResult, Expired, Answer, Finish
      <3>3. s # r
        BY <1>0, <2>1, <3>2 DEF SavedOK
      <3> QED
        BY <1>0, <2>1, <2>2, <3>1, <3>2, <3>3, ReplayStep
    <2>4. CASE GetResult(key[r]) = NoResponse
      <3>1. Goto(r, "lock")
        BY <1>2, <2>4 DEF GetStep, AfterGet
      <3>2. \A s \in Request : pc'[s] \in Holding <=> pc[s] \in Holding
        BY <1>0, <2>1, <3>1 DEF Goto, Holding, TypeOK, FlowTypeOK
      <3> QED
        BY <1>0, <2>1, <2>2, <3>1, <3>2, SameExecuting, SamePublished, SameReplayed
           DEF Promise!absVars, Goto
    <2> QED
      BY <2>3, <2>4
  <1>3. ASSUME NEW r \in Request, LockStep(r)
        PROVE  Promise!AbsNext \/ UNCHANGED Promise!absVars
    <2> DEFINE k == key[r]
    <2>1. pc[r] = "lock" /\ k \in Key /\ UNCHANGED <<key, reply, now>>
      BY <1>0, <1>3 DEF LockStep, Lock, AfterLock, Goto, TypeOK, FlowTypeOK
    <2>2. replayedBar' = replayedBar
      BY <1>0, <2>1, SameReplayed
    <2>3. CASE LockAcquires(k)
      <3>1. /\ entries' = [entries EXCEPT ![k] = Locked(r)]
            /\ heap' = [heap EXCEPT ![Locked(r)] = [EmptyEntry EXCEPT !.holder = TRUE]]
            /\ pc' = [pc EXCEPT ![r] = "run"]
        BY <1>3, <2>3 DEF LockStep, Lock, AfterLock, Goto
      <3>2. /\ heap'[Locked(r)].resp = NoResponse /\ heap[Locked(r)].resp = NoResponse
            /\ \A s \in Request : s # r => heap'[Locked(s)] = heap[Locked(s)]
        BY <1>0, <2>1, <3>1 DEF EmptyEntry, SavedOK, TypeOK, StoreTypeOK
      <3>3. publishedBar' = publishedBar
        BY <3>2, SamePublished
      <3>4. executingBar[k] = {}
        BY <1>0, <2>1, <2>3 DEF executingBar, LockAcquires, HeldOK, Expired
      <3>5. liveBar[k] = None
        BY <2>1, <2>3 DEF liveBar, LiveFor, LockAcquires, Expired
      <3>6. executingBar' = [executingBar EXCEPT ![k] = {r}]
        <4>1. \A j \in Key : executingBar'[j] = IF j = k THEN {r} ELSE executingBar[j]
          BY <1>0, <2>1, <3>1, <3>4 DEF executingBar, Holding, TypeOK, FlowTypeOK
        <4> QED
          BY <2>1, <4>1, ZenonT(40) DEF executingBar
      <3>7. liveBar' = liveBar
        <4>1. LiveFor(k)' = None
          BY <1>0, <2>1, <3>1, <3>2 DEF LiveFor, TypeOK, StoreTypeOK
        <4>2. ASSUME NEW j \in Key, j # k PROVE LiveFor(j)' = LiveFor(j)
          <5>1. entries'[j] = entries[j]
            BY <1>0, <3>1, <4>2 DEF TypeOK, StoreTypeOK
          <5>2. CASE entries[j] = NoEntry
            BY <5>1, <5>2 DEF LiveFor
          <5>3. CASE entries[j] # NoEntry
            <6>1. PICK s \in Request : entries[j] = Locked(s) /\ key[s] = j
              BY <1>0, <5>3 DEF MapOK
            <6>2. heap'[Locked(s)] = heap[Locked(s)]
              BY <3>2, <4>2, <6>1
            <6> QED
              BY <2>1, <5>1, <6>1, <6>2 DEF LiveFor, Expired
          <5> QED
            BY <5>2, <5>3
        <4>3. LiveFor(k) = None
          BY <2>1, <3>5 DEF liveBar
        <4>4. \A j \in Key : LiveFor(j)' = LiveFor(j)
          <5>1. ASSUME NEW j \in Key PROVE LiveFor(j)' = LiveFor(j)
            BY <2>1, <4>1, <4>2, <4>3 DEF LiveFor
          <5> QED
            BY <5>1
        <4> QED
          BY <4>4 DEF liveBar
      <3>8. Promise!Begin(r)
        BY <2>1, <2>2, <3>3, <3>4, <3>5, <3>6, <3>7 DEF Promise!Begin
      <3> QED
        BY <3>8 DEF Promise!AbsNext
    <2>4. CASE ~LockAcquires(k)
      <3>1. Goto(r, "conflict") /\ UNCHANGED <<entries, heap>>
        BY <1>3, <2>4 DEF LockStep, Lock, AfterLock
      <3>2. \A s \in Request : pc'[s] \in Holding <=> pc[s] \in Holding
        BY <1>0, <2>1, <3>1 DEF Goto, Holding, TypeOK, FlowTypeOK
      <3> QED
        BY <1>a, <2>1, <2>2, <3>1, <3>2
    <2> QED
      BY <2>3, <2>4
  <1>4. ASSUME NEW r \in Request, WaitStep(r)
        PROVE  Promise!AbsNext \/ UNCHANGED Promise!absVars
    <2>1. pc[r] = "conflict" /\ key[r] \in Key
      BY <1>0, <1>4 DEF WaitStep, TypeOK, FlowTypeOK
    <2>2. CASE entries[key[r]] = NoEntry
      <3>1. Finish(r, "conflict", r) /\ UNCHANGED <<key, entries, heap, now>>
        BY <1>4, <2>2 DEF WaitStep, AfterWait, Finish, storeVars
      <3>2. \A s \in Request : pc'[s] \in Holding <=> pc[s] \in Holding
        BY <1>0, <2>1, <3>1 DEF Finish, Holding, TypeOK, FlowTypeOK
      <3> QED
        BY <1>0, <1>a, <2>1, <3>1, <3>2, OtherFinish
    <2>3. CASE entries[key[r]] # NoEntry
      <3>1. PICK s \in Request :
               /\ entries[key[r]] = Locked(s)
               /\ key[s] = key[r]
               /\ pc[s] \in Holding \/ heap[Locked(s)].resp # NoResponse
        BY <1>0, <2>1, <2>3 DEF MapOK
      <3>2. s # r
        BY <1>0, <2>1, <3>1 DEF SavedOK, Holding
      <3>3. WaitLoop(r, entries[key[r]])
        BY <1>4, <2>3 DEF WaitStep
      <3>4. WaitLoop(r, Locked(s))
        BY <3>1, <3>3 DEF WaitLoop, WaitReturnsResponse, WaitReturnsNil, AfterWait, Answer
      <3> QED
        BY <2>1, <3>1, <3>2, <3>4, WaitLoopStep
    <2> QED
      BY <2>2, <2>3
  <1>5. ASSUME NEW r \in Request, WakeStep(r)
        PROVE  Promise!AbsNext \/ UNCHANGED Promise!absVars
    <2>1. PICK s \in Request : waitsOn[r] = Locked(s) /\ key[s] = key[r] /\ s # r
      BY <1>5 DEF IInv, WakeStep, WaitersOK, WaitingOK
    <2>2. WaitLoop(r, Locked(s)) /\ pc[r] = "waiting"
      BY <1>5, <2>1 DEF WakeStep, WaitLoop, WaitReturnsResponse, WaitReturnsNil, AfterWait,
         Answer
    <2> QED
      BY <2>1, <2>2, WaitLoopStep
  <1>6. ASSUME NEW r \in Request, CancelStep(r) \/ HandlerStep(r) \/ FlushStep(r)
        PROVE  UNCHANGED Promise!absVars
    <2>1. UNCHANGED <<key, entries, heap, now>>
      BY <1>6 DEF CancelStep, HandlerStep, RunHandler, FlushStep, Flush, flowVars, storeVars
    <2>2. \A s \in Request : pc'[s] \in Holding <=> pc[s] \in Holding
      BY <1>0, <1>6 DEF CancelStep, HandlerStep, RunHandler, AfterHandler, FlushStep, Flush,
         flowVars, Holding, TypeOK, FlowTypeOK
    <2>3. replayedBar' = replayedBar
      BY <1>0, <1>6 DEF CancelStep, HandlerStep, RunHandler, FlushStep, Flush, flowVars,
         RepliesOK, replayedBar, TypeOK, FlowTypeOK
    <2> QED
      BY <1>a, <2>1, <2>2, <2>3
  <1>7. ASSUME NEW r \in Request, SaveStep(r) PROVE Promise!Publish(r)
    <2> DEFINE saved == [heap[Locked(r)] EXCEPT !.resp = Snapshot(r), !.expiry = now + TTL]
    <2>1. /\ entries[key[r]] = Locked(r) /\ pc[r] = "save" /\ key[r] \in Key
          /\ heap[Locked(r)].resp = NoResponse
      BY <1>0, <1>7 DEF SaveStep, HeldOK, SavedOK, Holding, TypeOK, FlowTypeOK
    <2>2. /\ heap' = [heap EXCEPT ![Locked(r)] = saved]
          /\ entries' = [entries EXCEPT ![key[r]] = Locked(r)]
          /\ pc' = [pc EXCEPT ![r] = "flush"]
          /\ UNCHANGED <<key, reply, now, payload>>
      BY <1>7, <2>1 DEF SaveStep, Save, Goto
    <2>3. heap[Locked(r)] \in Entry /\ saved.resp = Snapshot(r)
      BY <1>0 DEF TypeOK, StoreTypeOK, Entry
    <2>4. Snapshot(r) # NoResponse /\ Snapshot(r).by = r
      BY <1>0, TypesAssumption DEF Snapshot, Response, TypeOK, FlowTypeOK
    <2>5. /\ entries' = entries
          /\ heap'[Locked(r)].resp = Snapshot(r)
          /\ \A s \in Request : s # r => heap'[Locked(s)] = heap[Locked(s)]
      BY <1>0, <2>1, <2>2, <2>3 DEF TypeOK, StoreTypeOK
    <2> HIDE DEF saved
    <2>6. executingBar' = executingBar /\ executingBar[key[r]] = {r}
      <3>1. \A s \in Request : pc'[s] \in Holding <=> pc[s] \in Holding
        BY <1>0, <2>1, <2>2 DEF Holding, TypeOK, FlowTypeOK
      <3>2. executingBar[key[r]] = {r}
        BY <1>0, <2>1 DEF executingBar, HeldOK, Holding
      <3> QED
        BY <2>2, <3>1, <3>2, SameExecuting
    <2>7. r \notin publishedBar /\ publishedBar' = publishedBar \cup {r}
      BY <2>1, <2>4, <2>5 DEF publishedBar
    <2>8. liveBar' = [liveBar EXCEPT ![key[r]] = r]
      <3>1. LiveFor(key[r])' = r
        <4>1. ~Expired(Locked(r))' /\ entries'[key'[r]] = Locked(r)
          BY <2>1, <2>2, <2>5 DEF IInv, HeldOK, Holding, TypeOK, FlowTypeOK
        <4> QED
          BY <2>2, <2>4, <2>5, <4>1 DEF LiveFor, Expired
      <3>2. ASSUME NEW j \in Key, j # key[r] PROVE LiveFor(j)' = LiveFor(j)
        <4>1. CASE entries[j] = NoEntry
          BY <2>5, <4>1 DEF LiveFor
        <4>2. CASE entries[j] # NoEntry
          <5>1. PICK s \in Request : entries[j] = Locked(s) /\ key[s] = j
            BY <1>0, <4>2 DEF MapOK
          <5>2. heap'[Locked(s)] = heap[Locked(s)]
            BY <2>5, <3>2, <5>1
          <5> QED
            BY <2>2, <2>5, <5>1, <5>2 DEF LiveFor, Expired
        <4> QED
          BY <4>1, <4>2
      <3>3. \A j \in Key : LiveFor(j)' = IF j = key[r] THEN r ELSE LiveFor(j)
        <4>1. ASSUME NEW j \in Key PROVE LiveFor(j)' = IF j = key[r] THEN r ELSE LiveFor(j)
          BY <2>2, <3>1, <3>2 DEF LiveFor
        <4> QED
          BY <4>1
      <3> QED
        BY <2>1, <3>3 DEF liveBar
    <2>9. replayedBar' = replayedBar
      BY <1>0, <2>2, SameReplayed
    <2> QED
      BY <2>2, <2>6, <2>7, <2>8, <2>9 DEF Promise!Publish
  <1>8. ASSUME NEW r \in Request, UnlockStep(r) PROVE Promise!End(r)
    <2> DEFINE e == heap[Locked(r)]
    <2>1. /\ entries[key[r]] = Locked(r) /\ pc[r] = "unlock" /\ key[r] \in Key
          /\ pc' = [pc EXCEPT ![r] = "done"] /\ e \in Entry
          /\ UNCHANGED <<key, reply, now>>
      BY <1>0, <1>8 DEF UnlockStep, Unlock, Goto, HeldOK, Holding, TypeOK, FlowTypeOK,
         StoreTypeOK
    <2>2. \/ /\ e.resp = NoResponse
             /\ entries' = [entries EXCEPT ![key[r]] = NoEntry]
             /\ heap' = [heap EXCEPT ![Locked(r)] = [e EXCEPT !.holder = FALSE]]
          \/ /\ e.resp # NoResponse
             /\ entries' = entries
             /\ heap' = [heap EXCEPT ![Locked(r)] =
                             [e EXCEPT !.holder = FALSE, !.released = TRUE]]
      BY <1>8, <2>1 DEF UnlockStep, Unlock
    <2>3. \A s \in Request : /\ heap'[Locked(s)].resp = heap[Locked(s)].resp
                             /\ heap'[Locked(s)].expiry = heap[Locked(s)].expiry
      <3>1. PICK f : /\ heap' = [heap EXCEPT ![Locked(r)] = f]
                     /\ f.resp = e.resp /\ f.expiry = e.expiry
        BY <2>1, <2>2, ZenonT(40) DEF Entry
      <3> QED
        BY <1>0, <2>1, <3>1 DEF TypeOK, StoreTypeOK
    <2>4. executingBar[key[r]] = {r}
      BY <1>0, <2>1 DEF executingBar, HeldOK, Holding
    <2>5. executingBar' = [executingBar EXCEPT ![key[r]] = {}]
      <3>1. \A j \in Key : executingBar'[j] = IF j = key[r] THEN {} ELSE executingBar[j]
        BY <1>0, <2>1, <2>4 DEF executingBar, Holding, TypeOK, FlowTypeOK
      <3> QED
        BY <2>1, <3>1, ZenonT(40) DEF executingBar
    <2>6. liveBar' = liveBar
      <3>1. ASSUME NEW j \in Key PROVE LiveFor(j)' = LiveFor(j)
        <4>1. CASE entries[j] = NoEntry
          BY <1>0, <2>1, <2>2, <4>1 DEF LiveFor, TypeOK, StoreTypeOK
        <4>2. CASE entries[j] # NoEntry
          <5>1. PICK s \in Request : entries[j] = Locked(s) /\ key[s] = j
            BY <1>0, <4>2 DEF MapOK
          <5>2. CASE entries'[j] = entries[j]
            BY <2>1, <2>3, <5>1, <5>2 DEF LiveFor, Expired
          <5>3. CASE j = key[r] /\ e.resp = NoResponse /\ entries'[j] = NoEntry
            BY <2>1, <5>3 DEF LiveFor
          <5> QED
            BY <1>0, <2>1, <2>2, <5>2, <5>3 DEF TypeOK, StoreTypeOK
        <4> QED
          BY <4>1, <4>2
      <3> QED
        BY <3>1 DEF liveBar
    <2> QED
      BY <1>0, <2>1, <2>3, <2>4, <2>5, <2>6, SamePublished, SameReplayed DEF Promise!End
  <1>9. ASSUME Sweep PROVE UNCHANGED Promise!absVars
    <2>1. UNCHANGED <<key, pc, reply, heap, now>>
      BY <1>9 DEF Sweep, SweepExpired, flowVars
    <2>2. ASSUME NEW j \in Key PROVE LiveFor(j)' = LiveFor(j)
      BY <1>9, <2>1 DEF Sweep, SweepExpired, LiveFor, Expired
    <2>3. liveBar' = liveBar
      BY <2>2 DEF liveBar
    <2> QED
      BY <1>0, <2>1, <2>3, SameExecuting, SamePublished, SameReplayed DEF Promise!absVars
  <1>10. ASSUME Tick PROVE Promise!AbsNext
    <2> DEFINE K == {k \in Key : LiveFor(k)' = None /\ LiveFor(k) # None}
    <2>1. UNCHANGED <<key, pc, reply, entries, heap>> /\ now' = now + 1 /\ now \in Nat
      BY <1>0, <1>10 DEF Tick, flowVars, TypeOK, StoreTypeOK
    <2>2. ASSUME NEW k \in Key PROVE LiveFor(k)' \in {LiveFor(k), None}
      <3>1. CASE entries[k] = NoEntry
        BY <2>1, <3>1 DEF LiveFor
      <3>2. CASE entries[k] # NoEntry
        <4>1. heap[entries[k]].expiry \in Nat
          BY <1>0, <3>2 DEF TypeOK, StoreTypeOK, Entry
        <4>2. Expired(entries[k]) => Expired(entries[k])'
          BY <2>1, <4>1 DEF Expired
        <4> QED
          BY <2>1, <4>2 DEF LiveFor, Expired
      <3> QED
        BY <3>1, <3>2
    <2>3. liveBar' = [k \in Key |-> IF k \in K THEN None ELSE liveBar[k]]
      BY <2>2 DEF liveBar
    <2>4. ASSUME NEW k \in K PROVE executingBar[k] = {}
      <3> SUFFICES ASSUME NEW r \in Request, key[r] = k, pc[r] \in Holding PROVE FALSE
        BY DEF executingBar
      <3>1. entries'[k] = Locked(r) /\ ~Expired(Locked(r))'
        BY <2>1 DEF IInv, HeldOK
      <3>2. LiveFor(k)' = LiveFor(k)
        BY <1>0, <2>1, <3>1 DEF LiveFor, Expired, HeldOK
      <3> QED
        BY <3>2
    <2>5. Promise!Expire(K)
      BY <1>0, <2>1, <2>3, <2>4, SameExecuting, SamePublished, SameReplayed
         DEF Promise!Expire
    <2> QED
      BY <2>5 DEF Promise!AbsNext
  <1>11. ASSUME UNCHANGED vars PROVE UNCHANGED Promise!absVars
    BY <1>0, <1>11, <1>a, SameReplayed DEF vars, flowVars, storeVars
  <1> QED
    BY <1>1, <1>2, <1>3, <1>4, <1>5, <1>6, <1>7, <1>8, <1>9, <1>10, <1>11
       DEF Next, Step, Promise!AbsNext

\* The middleware on the MemoryStore keeps the promise of IdempotentKey: Lock begins
\* an execution, Save publishes its response, Unlock ends it, Get and Wait replay
\* published responses, the clock expires them, and nothing else is visible.
THEOREM Implements == ASSUME ~SlowFlush PROVE Spec => KeepsPromise
  <1>1. Init => Promise!AbsInit
    <2> SUFFICES ASSUME Init PROVE Promise!AbsInit
      OBVIOUS
    <2> USE LockedFacts DEF Init, FlowInit, StoreInit
    <2>1. executingBar = [k \in Key |-> {}]
      BY DEF executingBar, Holding
    <2>2. liveBar = [k \in Key |-> None]
      BY DEF liveBar, LiveFor
    <2>3. publishedBar = {}
      BY DEF publishedBar, EmptyEntry
    <2>4. replayedBar = [r \in Request |-> None]
      BY DEF replayedBar
    <2> QED
      BY <2>1, <2>2, <2>3, <2>4 DEF Promise!AbsInit
  <1>2. IInv /\ IInv' /\ [Next]_vars => [Promise!AbsNext]_(Promise!absVars)
    BY RefinementStep
  <1> QED
    BY <1>1, <1>2, Inductive, PTL DEF Spec, KeepsPromise, Promise!AbsSpec
=============================================================================
