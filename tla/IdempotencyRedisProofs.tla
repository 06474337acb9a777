----------------------- MODULE IdempotencyRedisProofs -----------------------
(***************************************************************************)
(* Proofs about plugins/idempotency on the Redis store, for any number of  *)
(* processes, requests, keys and payloads, any TTLs, with failing commands *)
(* and crashing processes.                                                 *)
(***************************************************************************)
EXTENDS IdempotencyRedis, TLAPS

\* An empty Redis with no request in flight satisfies the inductive invariant.
LEMMA InitIInv == Init => IInv
  <1> SUFFICES ASSUME Init PROVE IInv
    OBVIOUS
  <1> USE DEF Init, FlowInit, StoreInit
  <1>1. TypeOK
    BY DEF TypeOK, FlowTypeOK, StoreTypeOK, Phases, ReplyKinds
  <1>2. HeldOK /\ ResultOK /\ SavedOK
    BY DEF HeldOK, ResultOK, SavedOK, Holding
  <1>3. NoMissedSave /\ NoStrayLock /\ ReplayFaithful
    BY DEF NoMissedSave, NoStrayLock, ReplayFaithful, Listening, Held
  <1> QED
    BY <1>1, <1>2, <1>3 DEF IInv

----------------------------------------------------------------------------
(* What a step does to the request that takes it.                           *)

\* What the parts of the invariant about the flow say of the next state.
FlowOK == FlowTypeOK /\ ResultOK /\ ReplayFaithful

Early == {"idle", "get", "lock", "conflict", "waiting", "run"}

\* Moving on keeps the flow in order: back before the handler only from there, and
\* never into Save, which only the handler leads to.
LEMMA GotoFlow ==
  ASSUME IInv, NEW r \in Request, NEW phase \in Phases, Goto(r, phase),
         phase # "save", phase \in Early => pc[r] \in Early
  PROVE  FlowOK'
  <1>1. FlowTypeOK'
    BY DEF IInv, TypeOK, FlowTypeOK, Goto
  <1>2. ResultOK'
    BY DEF IInv, TypeOK, FlowTypeOK, ResultOK, Goto, Early
  <1>3. ReplayFaithful'
    BY DEF IInv, ReplayFaithful, Goto
  <1> QED
    BY <1>1, <1>2, <1>3 DEF FlowOK

\* Answering with anything but a replay keeps the flow in order.
LEMMA FinishFlow ==
  ASSUME IInv, NEW r \in Request, NEW kind \in ReplyKinds \ {"replay"},
         NEW from \in Request, Finish(r, kind, from)
  PROVE  FlowOK'
  <1>1. [kind |-> kind, from |-> from] \in [kind : ReplyKinds, from : Request]
    OBVIOUS
  <1>2. FlowTypeOK'
    BY <1>1 DEF IInv, TypeOK, FlowTypeOK, Finish, Phases
  <1>3. ResultOK'
    BY DEF IInv, TypeOK, FlowTypeOK, ResultOK, Finish
  <1>4. ReplayFaithful'
    BY DEF IInv, TypeOK, FlowTypeOK, ReplayFaithful, Finish
  <1> QED
    BY <1>2, <1>3, <1>4 DEF FlowOK

\* What Get finds is a response, made for the key by a run that was cacheable.
LEMMA Found ==
  ASSUME IInv, NEW k \in Key, GetResult(k) # NoResponse
  PROVE  /\ GetResult(k) \in Response /\ GetResult(k).by \in Request
         /\ key[GetResult(k).by] = k /\ Cacheable(result[GetResult(k).by])
         /\ HashRequestBody => /\ GetResult(k).hash = payload[GetResult(k).by]
                               /\ GetResult(k).hash # NoHash
  <1>1. GetResult(k) = resp[k]
    BY DEF GetResult
  <1>2. resp[k] \in Response /\ resp[k].by \in Request
    BY <1>1 DEF IInv, TypeOK, StoreTypeOK, Response
  <1>3. payload[resp[k].by] \in Payload
    BY <1>2 DEF IInv, TypeOK, FlowTypeOK
  <1> QED
    BY <1>1, <1>2, <1>3, TypesAssumption DEF IInv, SavedOK

\* Answering with a response that Get found keeps the flow in order: the request has
\* no result yet, so the response is not its own.
LEMMA AnswerFlow ==
  ASSUME IInv, NEW r \in Request, pc[r] \in Early, GetResult(key[r]) # NoResponse,
         Answer(r, GetResult(key[r]))
  PROVE  FlowOK'
  <1> DEFINE g == GetResult(key[r])
  <1>1. key[r] \in Key
    BY DEF IInv, TypeOK, FlowTypeOK
  <1>2. /\ g.by \in Request /\ key[g.by] = key[r] /\ Cacheable(result[g.by])
        /\ HashRequestBody => g.hash = payload[g.by] /\ g.hash # NoHash
    BY <1>1, Found
  <1>3. g.by # r
    BY <1>2 DEF IInv, ResultOK, Early, Cacheable
  <1> HIDE DEF g
  <1>4. CASE Finish(r, "mismatch", g.by)
    BY <1>2, <1>4, FinishFlow DEF ReplyKinds
  <1>5. CASE Finish(r, "replay", g.by) /\ (HashRequestBody => g.hash = payload[r])
    <2>1. [kind |-> "replay", from |-> g.by] \in [kind : ReplyKinds, from : Request]
      BY <1>2 DEF ReplyKinds
    <2>2. FlowTypeOK'
      BY <2>1, <1>5 DEF IInv, TypeOK, FlowTypeOK, Finish, Phases
    <2>3. ResultOK'
      BY <1>5 DEF IInv, TypeOK, FlowTypeOK, ResultOK, Finish
    <2>4. ReplayFaithful'
      BY <1>2, <1>3, <1>5 DEF IInv, TypeOK, FlowTypeOK, ReplayFaithful, Finish
    <2> QED
      BY <2>2, <2>3, <2>4 DEF FlowOK
  <1> QED
    BY <1>2, <1>4, <1>5 DEF Answer, g

\* The ways out of the middleware before the handler: an error, a conflict, or a
\* response that was found.
Ends(r) ==
    \/ Finish(r, "error", r) \/ Finish(r, "conflict", r)
    \/ GetResult(key[r]) # NoResponse /\ Answer(r, GetResult(key[r]))

\* Each of them ends the request and keeps the flow in order.
LEMMA EndsFlow ==
  ASSUME IInv, NEW r \in Request, pc[r] \in Early, Ends(r)
  PROVE  /\ FlowOK' /\ pc' = [pc EXCEPT ![r] = "done"]
         /\ UNCHANGED <<key, payload, result>>
  <1>1. FlowOK'
    BY FinishFlow, AnswerFlow DEF Ends, ReplyKinds
  <1>2. pc' = [pc EXCEPT ![r] = "done"] /\ UNCHANGED <<key, payload, result>>
    BY DEF Ends, Answer, Finish
  <1> QED
    BY <1>1, <1>2

\* So does what follows a Get, when it finds something, and a wait.
LEMMA WaitEnds ==
  ASSUME NEW r \in Request,
         \/ AfterWait(r, GetResult(key[r])) \/ AfterWait(r, NoResponse) \/ AfterProbe(r)
  PROVE  Ends(r)
  BY DEF AfterWait, AfterProbe, Ends

----------------------------------------------------------------------------
(* What the store keeps when a request moves.                               *)

\* The parts of the invariant about the store.
StoreOK == HeldOK /\ SavedOK /\ NoStrayLock

\* A request that neither holds the lock nor takes it changes nothing that the parts
\* about the store are about, if it leaves lock and response alone.
LEMMA QuietStep ==
  ASSUME IInv, NEW r \in Request, NEW phase \in Phases \ Holding, pc[r] \notin Holding,
         pc' = [pc EXCEPT ![r] = phase], UNCHANGED <<key, payload, result>>,
         UNCHANGED <<lockUntil, respUntil, resp, now>>, faulty => faulty'
  PROVE  StoreOK'
  <1> USE DEF IInv, TypeOK, FlowTypeOK
  <1>1. \A s \in Request : pc'[s] \in Holding <=> pc[s] \in Holding
    OBVIOUS
  <1>2. HeldOK'
    BY <1>1 DEF HeldOK, Held
  <1>3. SavedOK'
    BY DEF SavedOK
  <1>4. NoStrayLock'
    BY <1>1 DEF NoStrayLock, Held
  <1> QED
    BY <1>2, <1>3, <1>4 DEF StoreOK

\* The same of a holder that goes on holding.
LEMMA HolderStep ==
  ASSUME IInv, NEW r \in Request, NEW phase \in Holding, pc[r] \in Holding,
         pc' = [pc EXCEPT ![r] = phase], UNCHANGED <<key, lockUntil, now>>, faulty => faulty'
  PROVE  HeldOK' /\ NoStrayLock'
  <1> USE DEF IInv, TypeOK, FlowTypeOK
  <1>1. \A s \in Request : pc'[s] \in Holding <=> pc[s] \in Holding
    OBVIOUS
  <1>2. HeldOK'
    BY <1>1 DEF HeldOK, Held
  <1>3. NoStrayLock'
    BY <1>1 DEF NoStrayLock, Held
  <1> QED
    BY <1>2, <1>3

\* SET of the response keeps the responses true to their keys.
LEMMA SetStep ==
  ASSUME IInv, NEW r \in Request, pc[r] = "save", SaveSet(key[r], Snapshot(r)),
         UNCHANGED <<key, payload, result>>
  PROVE  StoreTypeOK' /\ SavedOK'
  <1> USE DEF IInv, TypeOK, FlowTypeOK
  <1>1. /\ Snapshot(r) \in Response /\ Snapshot(r) # NoResponse
        /\ Snapshot(r).by = r /\ (HashRequestBody => Snapshot(r).hash = payload[r])
    BY TypesAssumption DEF Snapshot, Response
  <1>2. key[r] \in Key /\ now + TTL \in Nat
    BY RedisAssumption DEF StoreTypeOK
  <1>3. StoreTypeOK'
    BY <1>1, <1>2 DEF StoreTypeOK, SaveSet
  <1>4. SavedOK'
    BY <1>1, <1>2 DEF SavedOK, StoreTypeOK, SaveSet, ResultOK
  <1> QED
    BY <1>3, <1>4

----------------------------------------------------------------------------
(* The steps.                                                               *)

\* A request that is not subscribed moves on, and the store and the subscriptions
\* stay as they are.
LEMMA PlainStep ==
  ASSUME IInv, NEW r \in Request, NEW phase \in Phases \ (Holding \cup {"waiting"}),
         pc[r] \notin Holding \cup {"waiting"}, FlowOK',
         pc' = [pc EXCEPT ![r] = phase], UNCHANGED <<key, payload, result>>,
         UNCHANGED <<storeVars, probing, publishing>>, faulty' \in BOOLEAN, faulty => faulty'
  PROVE  IInv'
  <1> USE DEF storeVars
  <1>1. StoreOK'
    BY QuietStep
  <1>2. TypeOK'
    <2>1. FlowTypeOK' /\ StoreTypeOK'
      BY DEF FlowOK, IInv, TypeOK, StoreTypeOK
    <2>2. \A s \in Request : s \in subs' <=> pc'[s] = "waiting"
      BY DEF IInv, TypeOK, FlowTypeOK
    <2>3. publishing' \subseteq {s \in Request : pc'[s] = "save"}
      BY DEF IInv, TypeOK, FlowTypeOK, Holding
    <2> QED
      BY <2>1, <2>2, <2>3 DEF IInv, TypeOK
  <1>3. NoMissedSave'
    BY DEF IInv, NoMissedSave, Listening, Live
  <1> QED
    BY <1>1, <1>2, <1>3 DEF IInv, FlowOK, StoreOK

\* A waiter leaves and closes its subscription.
LEMMA LeaveStep ==
  ASSUME IInv, NEW r \in Request, pc[r] = "waiting", FlowOK',
         pc' = [pc EXCEPT ![r] = "done"], UNCHANGED <<key, payload, result>>,
         Unsubscribe(r), probing' \in {probing, probing \ {r}},
         probing' \subseteq subs', UNCHANGED publishing, faulty' \in BOOLEAN, faulty => faulty'
  PROVE  IInv'
  <1> USE DEF Unsubscribe
  <1>1. StoreOK'
    BY QuietStep DEF Holding, Phases
  <1>2. TypeOK'
    <2>1. FlowTypeOK' /\ StoreTypeOK'
      BY DEF FlowOK, IInv, TypeOK, StoreTypeOK
    <2>2. \A s \in Request : s \in subs' <=> pc'[s] = "waiting"
      BY DEF IInv, TypeOK, FlowTypeOK
    <2>3. publishing' \subseteq {s \in Request : pc'[s] = "save"}
      BY DEF IInv, TypeOK, FlowTypeOK
    <2> QED
      BY <2>1, <2>2, <2>3 DEF IInv, TypeOK
  <1>3. NoMissedSave'
    <2>1. (Listening \ mail)' \subseteq Listening \ mail
      BY DEF Listening
    <2> QED
      BY <2>1 DEF IInv, NoMissedSave, Live
  <1> QED
    BY <1>1, <1>2, <1>3 DEF IInv, FlowOK, StoreOK

\* Arrival, Get and the refusal of a conflict.
LEMMA EntryStep ==
  ASSUME IInv, NEW r \in Request, Arrive(r) \/ GetStep(r) \/ RejectStep(r)
  PROVE  IInv'
  <1> USE DEF local
  <1>1. CASE Arrive(r)
    <2>1. CASE Enter(r)
      <3>1. Goto(r, "get") /\ pc[r] = "idle"
        BY <2>1 DEF Enter
      <3> QED
        BY <1>1, <3>1, GotoFlow, PlainStep DEF Arrive, Goto, Phases, Holding, Early, IInv, TypeOK
    <2>2. CASE PassBy(r)
      <3>1. PICK kind \in {"bypass", "error"} : Finish(r, kind, r)
        BY <2>2 DEF PassBy
      <3>2. FlowOK' /\ pc[r] = "idle"
        BY <2>2, <3>1, FinishFlow DEF ReplyKinds, PassBy
      <3> QED
        BY <1>1, <3>1, <3>2, PlainStep DEF Arrive, Finish, Phases, Holding, IInv, TypeOK
    <2> QED
      BY <1>1, <2>1, <2>2 DEF Arrive
  <1>2. CASE GetStep(r)
    <2>1. CASE GetResult(key[r]) # NoResponse
      <3>1. Ends(r) /\ pc[r] \in Early
        BY <1>2, <2>1 DEF GetStep, AfterGet, Ends, Early
      <3> QED
        BY <1>2, <3>1, EndsFlow, PlainStep DEF GetStep, Phases, Holding, IInv, TypeOK
    <2>2. CASE GetResult(key[r]) = NoResponse
      <3>1. Goto(r, "lock") /\ pc[r] = "get"
        BY <1>2, <2>2 DEF GetStep, AfterGet
      <3> QED
        BY <1>2, <3>1, GotoFlow, PlainStep DEF GetStep, Goto, Phases, Holding, Early, IInv, TypeOK
    <2> QED
      BY <2>1, <2>2
  <1>3. CASE RejectStep(r)
    <2>1. Ends(r) /\ pc[r] = "conflict"
      BY <1>3 DEF RejectStep, Reject, Ends
    <2> QED
      BY <1>3, <2>1, EndsFlow, PlainStep DEF RejectStep, Phases, Holding, Early, IInv, TypeOK
  <1> QED
    BY <1>1, <1>2, <1>3

\* SETNX: the lock is taken when it is free, and then nobody holds it.
LEMMA LockStepOK ==
  ASSUME IInv, NEW r \in Request, LockStep(r) PROVE IInv'
  <1> USE DEF LockStep, local
  <1>1. CASE LockAcquires(key[r])
    <2>1. pc[r] = "lock" /\ Goto(r, "run") /\ FlowOK'
      BY <1>1, GotoFlow DEF AfterLock, Phases, Early
    <2>2. key[r] \in Key /\ now + LockTTL \in Nat /\ now + LockTTL > now
      BY RedisAssumption DEF IInv, TypeOK, FlowTypeOK, StoreTypeOK
    <2>3. lockUntil' = [lockUntil EXCEPT ![key[r]] = now + LockTTL]
      BY <1>1 DEF Lock
    <2>4. HeldOK'
      <3>1. LockOutlives => \A s \in Request : pc[s] \in Holding => key[s] # key[r]
        BY <1>1 DEF LockAcquires, IInv, HeldOK
      <3> QED
        BY <2>1, <2>2, <2>3, <3>1
           DEF HeldOK, Held, Goto, Lock, IInv, TypeOK, FlowTypeOK, StoreTypeOK, Holding
    <2>5. NoStrayLock'
      BY <2>1, <2>2, <2>3
         DEF NoStrayLock, Held, Goto, Lock, IInv, TypeOK, FlowTypeOK, StoreTypeOK, Holding
    <2>6. TypeOK'
      <3>1. FlowTypeOK' /\ StoreTypeOK'
        BY <2>1, <2>2, <2>3 DEF FlowOK, IInv, TypeOK, StoreTypeOK, Lock
      <3>2. \A s \in Request : s \in subs' <=> pc'[s] = "waiting"
        BY <2>1 DEF IInv, TypeOK, FlowTypeOK, Goto, Lock
      <3>3. publishing' \subseteq {s \in Request : pc'[s] = "save"}
        BY <2>1 DEF IInv, TypeOK, FlowTypeOK, Goto
      <3> QED
        BY <3>1, <3>2, <3>3 DEF IInv, TypeOK, Lock
    <2>7. NoMissedSave'
      BY <2>1 DEF IInv, NoMissedSave, Listening, Live, Goto, Lock
    <2>8. SavedOK'
      BY <2>1 DEF IInv, SavedOK, Goto, Lock
    <2> QED
      BY <2>1, <2>4, <2>5, <2>6, <2>7, <2>8 DEF IInv, FlowOK
  <1>2. CASE ~LockAcquires(key[r])
    <2>1. pc[r] = "lock" /\ Goto(r, "conflict") /\ FlowOK'
      BY <1>2, GotoFlow DEF AfterLock, Phases, Early
    <2>2. UNCHANGED storeVars
      BY <1>2 DEF Lock, storeVars
    <2> QED
      BY <2>1, <2>2, PlainStep DEF Goto, Phases, Holding, IInv, TypeOK
  <1> QED
    BY <1>1, <1>2

\* A failing Get or Lock is answered 500, and the lock may have been taken: nobody
\* held it, and from now on something has failed.
LEMMA StoreFailsOK ==
  ASSUME IInv, NEW r \in Request, StoreFails(r) PROVE IInv'
  <1> USE DEF StoreFails, Fails
  <1>1. /\ pc[r] \in {"get", "lock"} /\ FlowOK' /\ pc' = [pc EXCEPT ![r] = "done"]
        /\ UNCHANGED <<key, payload, result>>
    BY FinishFlow DEF ReplyKinds, Finish
  <1>2. CASE UNCHANGED storeVars
    BY <1>1, <1>2, PlainStep DEF Phases, Holding
  <1>3. CASE Lock(key[r])
    <2>1. CASE LockAcquires(key[r])
      <3>1. key[r] \in Key /\ now + LockTTL \in Nat /\ now + LockTTL > now
        BY RedisAssumption DEF IInv, TypeOK, FlowTypeOK, StoreTypeOK
      <3>2. lockUntil' = [lockUntil EXCEPT ![key[r]] = now + LockTTL]
        BY <1>3, <2>1 DEF Lock
      <3>3. LockOutlives => \A s \in Request : pc[s] \in Holding => key[s] # key[r]
        BY <2>1 DEF LockAcquires, IInv, HeldOK
      <3>4. HeldOK'
        BY <1>1, <1>3, <3>1, <3>2, <3>3
           DEF HeldOK, Held, Lock, IInv, TypeOK, FlowTypeOK, StoreTypeOK, Holding
      <3>5. NoStrayLock' /\ NoMissedSave'
        BY DEF NoStrayLock, NoMissedSave
      <3>6. TypeOK'
        <4>1. FlowTypeOK' /\ StoreTypeOK'
          BY <1>1, <1>3, <3>1, <3>2 DEF FlowOK, IInv, TypeOK, StoreTypeOK, Lock
        <4>2. \A s \in Request : s \in subs' <=> pc'[s] = "waiting"
          BY <1>1, <1>3 DEF IInv, TypeOK, FlowTypeOK, Lock
        <4>3. publishing' \subseteq {s \in Request : pc'[s] = "save"}
          BY <1>1 DEF IInv, TypeOK, FlowTypeOK
        <4> QED
          BY <1>3, <4>1, <4>2, <4>3 DEF IInv, TypeOK, Lock
      <3>7. SavedOK'
        BY <1>1, <1>3 DEF IInv, SavedOK, Lock
      <3> QED
        BY <1>1, <3>4, <3>5, <3>6, <3>7 DEF IInv, FlowOK
    <2>2. CASE ~LockAcquires(key[r])
      <3>1. UNCHANGED storeVars
        BY <1>3, <2>2 DEF Lock, storeVars
      <3> QED
        BY <1>2, <3>1
    <2> QED
      BY <2>1, <2>2
  <1> QED
    BY <1>2, <1>3

\* A waiter subscribes; it does not listen before its Get.
LEMMA SubscribeOK ==
  ASSUME IInv, NEW r \in Request, SubscribeStep(r) PROVE IInv'
  <1> USE DEF SubscribeStep, Subscribe
  <1>1. FlowOK'
    BY GotoFlow DEF Phases, Early
  <1>2. StoreOK'
    BY QuietStep DEF Goto, Phases, Holding
  <1>3. TypeOK'
    <2>1. FlowTypeOK' /\ StoreTypeOK'
      BY <1>1 DEF FlowOK, IInv, TypeOK, StoreTypeOK
    <2>2. \A s \in Request : s \in subs' <=> pc'[s] = "waiting"
      BY DEF IInv, TypeOK, FlowTypeOK, Goto
    <2>3. publishing' \subseteq {s \in Request : pc'[s] = "save"}
      BY DEF IInv, TypeOK, FlowTypeOK, Goto
    <2> QED
      BY <2>1, <2>2, <2>3 DEF IInv, TypeOK
  <1>4. NoMissedSave'
    <2>1. Listening' \subseteq Listening
      BY DEF Listening
    <2> QED
      BY <2>1 DEF IInv, NoMissedSave, Live, Goto
  <1> QED
    BY <1>1, <1>2, <1>3, <1>4 DEF IInv, FlowOK, StoreOK

\* A subscription that fails ends the wait.
LEMMA SubscribeFailsOK ==
  ASSUME IInv, NEW r \in Request, SubscribeFails(r) PROVE IInv'
  <1>1. pc[r] = "conflict"
    BY DEF SubscribeFails
  <1>2. Ends(r)
    <2>1. CASE Finish(r, "error", r)
      BY <2>1 DEF Ends
    <2>2. CASE AfterProbe(r) \/ AfterWait(r, GetResult(key[r]))
      BY <2>2, WaitEnds
    <2> QED
      BY <2>1, <2>2 DEF SubscribeFails
  <1>3. faulty' \in BOOLEAN /\ (faulty => faulty')
    <2>1. faulty' = TRUE \/ faulty' = faulty
      BY DEF SubscribeFails, Fails
    <2> QED
      BY <2>1 DEF IInv, TypeOK
  <1> QED
    BY <1>1, <1>2, <1>3, EndsFlow, PlainStep DEF SubscribeFails, Phases, Holding, Early

\* The Get after the subscription: when it misses, there is nothing to miss.
LEMMA ProbeOK ==
  ASSUME IInv, NEW r \in Request, ProbeStep(r) PROVE IInv'
  <1> USE DEF ProbeStep
  <1>1. pc[r] = "waiting" /\ pc[r] \in Early
    BY DEF IInv, TypeOK, Early
  <1>2. CASE GetResult(key[r]) # NoResponse
    <2>1. Ends(r) /\ Unsubscribe(r)
      BY <1>2, WaitEnds
    <2> QED
      BY <1>1, <2>1, EndsFlow, LeaveStep DEF Unsubscribe, IInv, TypeOK
  <1>3. CASE GetResult(key[r]) = NoResponse
    <2> USE <1>3 DEF flowVars, storeVars
    <2>1. ~Live(key[r])
      BY DEF GetResult, Live, IInv, SavedOK, TypeOK, FlowTypeOK, StoreTypeOK
    <2>2. NoMissedSave'
      BY <2>1 DEF IInv, NoMissedSave, Listening, Live
    <2>3. TypeOK'
      BY DEF IInv, TypeOK, FlowTypeOK, StoreTypeOK
    <2>4. HeldOK' /\ ResultOK' /\ SavedOK' /\ NoStrayLock' /\ ReplayFaithful'
      BY DEF IInv, HeldOK, ResultOK, SavedOK, NoStrayLock, ReplayFaithful, Held
    <2> QED
      BY <2>2, <2>3, <2>4 DEF IInv
  <1> QED
    BY <1>2, <1>3

\* A message, a timeout and a failure end the wait.
LEMMA WaitOver ==
  ASSUME IInv, NEW r \in Request, MessageStep(r) \/ CancelStep(r) \/ WaitFails(r)
  PROVE  IInv'
  <1>1. pc[r] = "waiting" /\ pc[r] \in Early
    BY DEF MessageStep, CancelStep, WaitFails, Listening, IInv, TypeOK, Early
  <1>2. Ends(r) /\ Unsubscribe(r) /\ UNCHANGED publishing
    BY WaitEnds DEF MessageStep, CancelStep, WaitFails, Ends, local
  <1>3. probing' \in {probing, probing \ {r}} /\ probing' \subseteq subs'
    BY <1>2 DEF MessageStep, CancelStep, WaitFails, Listening, Unsubscribe, local, IInv, TypeOK
  <1>4. faulty' \in BOOLEAN /\ (faulty => faulty')
    BY DEF MessageStep, CancelStep, WaitFails, Fails, local, IInv, TypeOK
  <1> QED
    BY <1>1, <1>2, <1>3, <1>4, EndsFlow, LeaveStep

\* The handler returns or panics: the request still holds the lock.
LEMMA HandlerOK ==
  ASSUME IInv, NEW r \in Request, HandlerStep(r) PROVE IInv'
  <1> USE DEF HandlerStep, storeVars, local
  <1>1. PICK o \in Outcomes : RunHandler(r, o)
    OBVIOUS
  <1>2. /\ pc[r] = "run" /\ pc' = [pc EXCEPT ![r] = AfterHandler(o)]
        /\ result' = [result EXCEPT ![r] = o] /\ UNCHANGED <<key, payload>>
    BY <1>1 DEF RunHandler
  <1>3. o \in AllOutcomes /\ AfterHandler(o) \in {"save", "flush", "unlock"}
    BY FlowAssumption DEF AfterHandler
  <1>4. AfterHandler(o) = "save" => Cacheable(o)
    BY DEF AfterHandler
  <1>5. HeldOK' /\ NoStrayLock'
    BY <1>2, <1>3, HolderStep DEF Holding
  <1>6. FlowTypeOK'
    <2>1. reply' \in [Request -> [kind : ReplyKinds, from : Request]]
      BY <1>1 DEF RunHandler, IInv, TypeOK, FlowTypeOK, ReplyKinds
    <2> QED
      BY <1>2, <1>3, <2>1 DEF IInv, TypeOK, FlowTypeOK, Phases
  <1>7. ResultOK'
    BY <1>2, <1>3, <1>4 DEF IInv, TypeOK, FlowTypeOK, ResultOK
  <1>8. result[r] = "none" /\ ~Cacheable("none")
    BY <1>2 DEF IInv, ResultOK, Cacheable
  <1>9. SavedOK'
    <2> SUFFICES ASSUME NEW k \in Key
                 PROVE  /\ respUntil[k] # 0 => resp[k] # NoResponse
                        /\ resp[k] # NoResponse =>
                             /\ key[resp[k].by] = k /\ Cacheable(result'[resp[k].by])
                             /\ HashRequestBody => resp[k].hash = payload[resp[k].by]
      BY <1>2 DEF SavedOK
    <2> QED
      BY <1>2, <1>8 DEF IInv, SavedOK, TypeOK, FlowTypeOK
  <1>10. ReplayFaithful'
    <2> SUFFICES ASSUME NEW q \in Request, reply'[q].kind = "replay"
                 PROVE  /\ reply'[q].from # q /\ key[reply'[q].from] = key[q]
                        /\ Cacheable(result'[reply'[q].from])
                        /\ HashRequestBody => payload[reply'[q].from] = payload[q]
      BY <1>2 DEF ReplayFaithful
    <2>1. reply'[q] = reply[q] \/ reply'[q].kind \in {"fresh", "panic"}
      BY <1>1 DEF RunHandler, IInv, TypeOK, FlowTypeOK
    <2> QED
      BY <1>2, <1>8, <2>1 DEF IInv, ReplayFaithful, TypeOK, FlowTypeOK
  <1>11. TypeOK'
    <2>1. \A s \in Request : s \in subs' <=> pc'[s] = "waiting"
      BY <1>2, <1>3 DEF IInv, TypeOK, FlowTypeOK
    <2>2. publishing' \subseteq {s \in Request : pc'[s] = "save"}
      BY <1>2 DEF IInv, TypeOK, FlowTypeOK
    <2> QED
      BY <1>6, <2>1, <2>2 DEF IInv, TypeOK, StoreTypeOK
  <1>12. NoMissedSave'
    BY <1>2 DEF IInv, NoMissedSave, Listening, Live
  <1> QED
    BY <1>5, <1>7, <1>9, <1>10, <1>11, <1>12 DEF IInv

\* The SET of Save: whoever listens has yet to be told, and will be by the PUBLISH.
LEMMA SaveOK ==
  ASSUME IInv, NEW r \in Request, SaveStep(r) PROVE IInv'
  <1> USE DEF SaveStep, flowVars
  <1>1. StoreTypeOK' /\ SavedOK'
    BY SetStep
  <1>2. TypeOK'
    BY <1>1 DEF IInv, TypeOK, FlowTypeOK, SaveSet
  <1>3. HeldOK' /\ NoStrayLock' /\ ResultOK' /\ ReplayFaithful'
    BY DEF IInv, HeldOK, NoStrayLock, ResultOK, ReplayFaithful, Held, SaveSet
  <1>4. NoMissedSave'
    <2> SUFFICES ASSUME ~faulty, NEW w \in Listening \ mail, Live(key[w])'
                 PROVE  \E s \in publishing \cup {r} : key[s] = key[w]
      BY DEF NoMissedSave, Listening, SaveSet
    <2>1. CASE key[w] = key[r]
      BY <2>1
    <2>2. CASE key[w] # key[r]
      <3>1. Live(key[w])
        BY <2>2 DEF Live, SaveSet, IInv, TypeOK, StoreTypeOK, FlowTypeOK, Listening
      <3> QED
        BY <3>1 DEF IInv, NoMissedSave
    <2> QED
      BY <2>1, <2>2
  <1> QED
    BY <1>1, <1>2, <1>3, <1>4 DEF IInv

\* A SET that fails, or seems to.
LEMMA SaveFailsOK ==
  ASSUME IInv, NEW r \in Request, SaveFails(r) PROVE IInv'
  <1> USE DEF SaveFails, Fails
  <1>1. FlowOK'
    BY GotoFlow DEF Phases, Early
  <1>2. StoreTypeOK' /\ SavedOK'
    <2>1. CASE UNCHANGED storeVars
      BY <2>1 DEF storeVars, Goto, IInv, TypeOK, StoreTypeOK, SavedOK
    <2>2. CASE SaveSet(key[r], Snapshot(r))
      BY <2>2, SetStep DEF Goto
    <2> QED
      BY <2>1, <2>2
  <1>3. UNCHANGED <<key, lockUntil, subs, mail, now>>
    BY DEF storeVars, SaveSet, Goto
  <1>4. HeldOK' /\ NoStrayLock'
    BY <1>3, HolderStep DEF Goto, Holding
  <1>5. TypeOK'
    <2>1. \A s \in Request : s \in subs' <=> pc'[s] = "waiting"
      BY <1>3 DEF IInv, TypeOK, FlowTypeOK, Goto
    <2>2. publishing' \subseteq {s \in Request : pc'[s] = "save"}
      BY <1>3 DEF IInv, TypeOK, FlowTypeOK, Goto
    <2> QED
      BY <1>1, <1>2, <1>3, <2>1, <2>2 DEF IInv, TypeOK, FlowOK
  <1>6. NoMissedSave'
    BY DEF NoMissedSave
  <1> QED
    BY <1>1, <1>2, <1>4, <1>5, <1>6 DEF IInv, FlowOK

\* PUBLISH reaches everyone who listens for the key.
LEMMA PublishOK ==
  ASSUME IInv, NEW r \in Request, PublishStep(r) PROVE IInv'
  <1> USE DEF PublishStep
  <1>1. pc[r] = "save"
    BY DEF IInv, TypeOK
  <1>2. FlowOK'
    BY <1>1, GotoFlow DEF Phases, Early
  <1>3. /\ UNCHANGED <<key, payload, result, lockUntil, respUntil, resp, subs, now>>
        /\ mail \subseteq mail' /\ mail' \subseteq subs
        /\ faulty' \in BOOLEAN /\ (faulty => faulty')
    <2>1. faulty' = TRUE \/ faulty' = faulty
      BY DEF Fails
    <2>2. faulty' \in BOOLEAN /\ (faulty => faulty')
      BY <2>1 DEF IInv, TypeOK
    <2>3. /\ UNCHANGED <<key, payload, result, lockUntil, respUntil, resp, subs, now>>
          /\ mail \subseteq mail' /\ mail' \subseteq subs
      BY DEF SavePublish, storeVars, Goto, IInv, TypeOK, StoreTypeOK
    <2> QED
      BY <2>2, <2>3
  <1>4. HeldOK' /\ NoStrayLock'
    BY <1>1, <1>3, HolderStep DEF Goto, Holding
  <1>5. SavedOK'
    BY <1>3 DEF IInv, SavedOK
  <1>6. TypeOK'
    <2>1. \A s \in Request : s \in subs' <=> pc'[s] = "waiting"
      BY <1>1, <1>3 DEF IInv, TypeOK, FlowTypeOK, Goto
    <2>2. publishing' \subseteq {s \in Request : pc'[s] = "save"}
      BY <1>1 DEF IInv, TypeOK, FlowTypeOK, Goto
    <2>3. StoreTypeOK'
      BY <1>3 DEF IInv, TypeOK, StoreTypeOK
    <2> QED
      BY <1>2, <1>3, <2>1, <2>2, <2>3 DEF IInv, TypeOK, FlowOK
  <1>7. NoMissedSave'
    <2> SUFFICES ASSUME ~faulty', NEW w \in Listening' \ mail', Live(key[w])
                 PROVE  \E s \in publishing' : key[s] = key[w]
      BY <1>3 DEF NoMissedSave, Live
    <2>1. SavePublish(key[r], key) /\ ~faulty
      BY DEF Fails
    <2>2. w \in Listening \ mail /\ key[w] # key[r]
      BY <1>3, <2>1 DEF Listening, SavePublish
    <2> QED
      BY <2>1, <2>2 DEF IInv, NoMissedSave
  <1> QED
    BY <1>2, <1>4, <1>5, <1>6, <1>7 DEF IInv, FlowOK

\* Flush, with the lock still held.
LEMMA FlushOK ==
  ASSUME IInv, NEW r \in Request, FlushStep(r) PROVE IInv'
  <1> USE DEF FlushStep, Flush, storeVars, local
  <1>1. HeldOK' /\ NoStrayLock'
    BY HolderStep DEF Holding
  <1>2. FlowTypeOK' /\ ResultOK'
    BY DEF IInv, TypeOK, FlowTypeOK, ResultOK, Phases, ReplyKinds
  <1>3. ReplayFaithful'
    BY DEF IInv, TypeOK, FlowTypeOK, ReplayFaithful
  <1>4. TypeOK'
    BY <1>2 DEF IInv, TypeOK, StoreTypeOK, FlowTypeOK
  <1>5. SavedOK' /\ NoMissedSave'
    BY DEF IInv, SavedOK, NoMissedSave, Listening, Live
  <1> QED
    BY <1>1, <1>2, <1>3, <1>4, <1>5 DEF IInv

\* The deferred Unlock deletes the lock key, which is nobody else's as long as locks
\* outlive handlers.
LEMMA UnlockOK ==
  ASSUME IInv, NEW r \in Request, UnlockStep(r) PROVE IInv'
  <1> USE DEF UnlockStep
  <1>1. FlowOK'
    BY GotoFlow DEF Phases, Early
  <1>2. /\ UNCHANGED <<key, payload, result, respUntil, resp, subs, mail, now>>
        /\ faulty' \in BOOLEAN /\ (faulty => faulty')
        /\ lockUntil' = lockUntil \/ lockUntil' = [lockUntil EXCEPT ![key[r]] = 0]
    BY DEF Unlock, storeVars, Fails, Goto, IInv, TypeOK
  <1>3. HeldOK'
    <2> SUFFICES ASSUME LockOutlives, NEW q \in Request, pc'[q] \in Holding
                 PROVE  /\ lockUntil'[key[q]] > now
                        /\ \A s \in Request : pc'[s] \in Holding /\ key[s] = key[q] => s = q
      BY <1>2 DEF HeldOK, Held
    <2>1. q # r /\ pc[q] \in Holding /\ pc[r] \in Holding
      BY DEF Goto, Holding, IInv, TypeOK, FlowTypeOK
    <2>2. key[q] # key[r]
      BY <2>1 DEF IInv, HeldOK
    <2>3. lockUntil'[key[q]] = lockUntil[key[q]]
      BY <1>2, <2>2 DEF IInv, TypeOK, StoreTypeOK, FlowTypeOK
    <2>4. \A s \in Request : pc'[s] \in Holding => pc[s] \in Holding
      BY DEF Goto, Holding, IInv, TypeOK, FlowTypeOK
    <2> QED
      BY <2>1, <2>3, <2>4 DEF IInv, HeldOK, Held
  <1>4. NoStrayLock'
    <2> SUFFICES ASSUME ~faulty', NEW k \in Key, Held(k)'
                 PROVE  \E s \in Request : key'[s] = k /\ pc'[s] \in Holding
      BY DEF NoStrayLock
    <2>1. Unlock(key[r]) /\ ~faulty
      BY DEF Fails
    <2>2. k # key[r] /\ Held(k)
      BY <2>1 DEF Unlock, Held, IInv, TypeOK, StoreTypeOK
    <2>3. PICK s \in Request : key[s] = k /\ pc[s] \in Holding
      BY <2>1, <2>2 DEF IInv, NoStrayLock
    <2> QED
      BY <1>2, <2>2, <2>3 DEF Goto, IInv, TypeOK, FlowTypeOK
  <1>5. TypeOK'
    <2>1. \A s \in Request : s \in subs' <=> pc'[s] = "waiting"
      BY <1>2 DEF IInv, TypeOK, FlowTypeOK, Goto
    <2>2. publishing' \subseteq {s \in Request : pc'[s] = "save"}
      BY DEF IInv, TypeOK, FlowTypeOK, Goto
    <2>3. StoreTypeOK'
      BY <1>2 DEF IInv, TypeOK, StoreTypeOK
    <2> QED
      BY <1>1, <1>2, <2>1, <2>2, <2>3 DEF IInv, TypeOK, FlowOK
  <1>6. SavedOK' /\ NoMissedSave'
    BY <1>2 DEF IInv, SavedOK, NoMissedSave, Listening, Live
  <1> QED
    BY <1>1, <1>3, <1>4, <1>5, <1>6 DEF IInv, FlowOK

\* A process dies: its lock stays behind, and from now on something has failed.
LEMMA CrashOK ==
  ASSUME IInv, NEW r \in Request, Crash(r) PROVE IInv'
  <1> USE DEF Crash, Unsubscribe
  <1>1. FlowOK'
    BY GotoFlow DEF Phases, Early
  <1>2. HeldOK'
    <2>1. \A s \in Request : pc'[s] \in Holding => pc[s] \in Holding
      BY DEF Goto, Holding, IInv, TypeOK, FlowTypeOK
    <2> QED
      BY <2>1 DEF IInv, HeldOK, Held, Goto
  <1>3. TypeOK'
    <2>1. \A s \in Request : s \in subs' <=> pc'[s] = "waiting"
      BY DEF IInv, TypeOK, FlowTypeOK, Goto
    <2>2. publishing' \subseteq {s \in Request : pc'[s] = "save"}
      BY DEF IInv, TypeOK, FlowTypeOK, Goto
    <2>3. StoreTypeOK'
      BY DEF IInv, TypeOK, StoreTypeOK
    <2> QED
      BY <1>1, <2>1, <2>2, <2>3 DEF IInv, TypeOK, FlowOK
  <1>4. SavedOK' /\ NoMissedSave' /\ NoStrayLock'
    BY DEF IInv, SavedOK, NoMissedSave, NoStrayLock, Goto
  <1> QED
    BY <1>1, <1>2, <1>3, <1>4 DEF IInv, FlowOK

\* Time passes: locks and responses expire.
LEMMA TickOK ==
  ASSUME IInv, Tick PROVE IInv'
  <1> USE DEF Tick, flowVars, local
  <1>1. TypeOK'
    BY DEF IInv, TypeOK, FlowTypeOK, StoreTypeOK
  <1>2. HeldOK'
    BY DEF IInv, HeldOK, Held
  <1>3. NoStrayLock' /\ NoMissedSave'
    <2>1. \A k \in Key : (Held(k)' => Held(k)) /\ (Live(k)' => Live(k))
      BY DEF Held, Live, IInv, TypeOK, StoreTypeOK
    <2>2. \A w \in Listening : key[w] \in Key
      BY DEF Listening, IInv, TypeOK, FlowTypeOK, StoreTypeOK
    <2> QED
      BY <2>1, <2>2 DEF IInv, NoStrayLock, NoMissedSave, Listening
  <1>4. SavedOK' /\ ResultOK' /\ ReplayFaithful'
    BY DEF IInv, SavedOK, ResultOK, ReplayFaithful
  <1> QED
    BY <1>1, <1>2, <1>3, <1>4 DEF IInv

----------------------------------------------------------------------------
\* Every step preserves the invariant.
LEMMA NextIInv ==
  ASSUME IInv, [Next]_vars PROVE IInv'
  <1>1. CASE UNCHANGED vars
    <2> USE <1>1 DEF vars, flowVars, storeVars, local
    <2>1. TypeOK' /\ HeldOK' /\ ResultOK' /\ SavedOK'
      BY DEF IInv, TypeOK, FlowTypeOK, StoreTypeOK, HeldOK, ResultOK, SavedOK, Held
    <2>2. NoMissedSave' /\ NoStrayLock' /\ ReplayFaithful'
      BY DEF IInv, NoMissedSave, NoStrayLock, ReplayFaithful, Listening, Held, Live
    <2> QED
      BY <2>1, <2>2 DEF IInv
  <1>2. CASE Tick
    BY <1>2, TickOK
  <1>3. ASSUME NEW r \in Request, Arrive(r) \/ Step(r) \/ CancelStep(r) \/ Fault(r)
        PROVE  IInv'
    <2>1. CASE Arrive(r) \/ CancelStep(r)
      BY <2>1, EntryStep, WaitOver
    <2>2. CASE Step(r)
      BY <2>2, EntryStep, LockStepOK, SubscribeOK, ProbeOK, WaitOver, HandlerOK, SaveOK,
         PublishOK, FlushOK, UnlockOK DEF Step, Wait
    <2>3. CASE Fault(r)
      BY <2>3, StoreFailsOK, SubscribeFailsOK, WaitOver, SaveFailsOK, CrashOK DEF Fault
    <2> QED
      BY <1>3, <2>1, <2>2, <2>3
  <1> QED
    BY <1>1, <1>2, <1>3 DEF Next

\* The invariant holds in every reachable state.
LEMMA Invariance == Spec => []IInv
  BY InitIInv, NextIInv, PTL DEF Spec

\* The middleware on Redis is type correct: in particular a request is subscribed
\* exactly while it waits, and only a request in Save publishes.
THEOREM TypeCorrect == Spec => []TypeOK
  <1>1. IInv => TypeOK
    BY DEF IInv
  <1> QED
    BY <1>1, Invariance, PTL

\* While locks outlive their handlers, no two processes run the handler for one key
\* at the same time, whatever commands fail and processes crash.
THEOREM Exclusion == LockOutlives => (Spec => []MutualExclusion)
  <1> SUFFICES ASSUME LockOutlives PROVE Spec => []MutualExclusion
    OBVIOUS
  <1>1. IInv => MutualExclusion
    BY DEF IInv, HeldOK, MutualExclusion, Holding
  <1> QED
    BY <1>1, Invariance, PTL

\* Subscribing before the Get loses no response: until something fails, what a
\* silent listener waits for is either not there or about to be announced.
THEOREM NothingMissed == Spec => []NoMissedSave
  <1>1. IInv => NoMissedSave
    BY DEF IInv
  <1> QED
    BY <1>1, Invariance, PTL

\* Until something fails, every lock in Redis has a request that will delete it.
THEOREM LocksReturned == Spec => []NoStrayLock
  <1>1. IInv => NoStrayLock
    BY DEF IInv
  <1> QED
    BY <1>1, Invariance, PTL

\* A replayed response was produced by a cacheable run for the same key and, when
\* bodies are hashed, for the same body, even when locks expire under their holders.
THEOREM FaithfulReplay == Spec => []ReplayFaithful
  <1>1. IInv => ReplayFaithful
    BY DEF IInv
  <1> QED
    BY <1>1, Invariance, PTL
=============================================================================
