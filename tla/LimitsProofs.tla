---------------------------- MODULE LimitsProofs ----------------------------
(***************************************************************************)
(* Proofs about the plugins that limit what a handler may take: the time   *)
(* of timeout.New, for any number of requests, pooled writers and pooled   *)
(* contexts, and the concurrency of throttle, for any finite number of     *)
(* goroutines and any capacities of its two channels.                      *)
(*                                                                         *)
(* timeout: the serving goroutine marks the writer while the handler       *)
(* goroutine still has it, and only that goroutine releases it, so the     *)
(* mark outlives every later write of the handler to its own client.       *)
(***************************************************************************)
EXTENDS TimeoutMiddleware, Throttle, FiniteSetTheorems, TLAPS

WriterType == [of : Request \cup {NoRequest}, timedOut : BOOLEAN, written : BOOLEAN]

\* Setting one flag of one writer leaves writers, and all their other fields as they were.
LEMMA FlagSet ==
  ASSUME tw \in [Writer -> WriterType], NEW t \in Writer
  PROVE  /\ [tw EXCEPT ![t].timedOut = TRUE] \in [Writer -> WriterType]
         /\ [tw EXCEPT ![t].written = TRUE] \in [Writer -> WriterType]
         /\ \A u \in Writer : [tw EXCEPT ![t].timedOut = TRUE][u].of = tw[u].of
         /\ \A u \in Writer : /\ [tw EXCEPT ![t].written = TRUE][u].of = tw[u].of
                              /\ [tw EXCEPT ![t].written = TRUE][u].timedOut = tw[u].timedOut
  <1>1. [tw[t] EXCEPT !.timedOut = TRUE] \in WriterType
    BY DEF WriterType
  <1>2. [tw[t] EXCEPT !.written = TRUE] \in WriterType
    BY DEF WriterType
  <1>3. \A w \in WriterType : /\ [w EXCEPT !.timedOut = TRUE].of = w.of
                              /\ [w EXCEPT !.written = TRUE].of = w.of
                              /\ [w EXCEPT !.written = TRUE].timedOut = w.timedOut
    BY DEF WriterType
  <1> QED
    BY <1>1, <1>2, <1>3

Unmoved == UNCHANGED vars

\* Before the first request all writers and contexts are in their pools.
LEMMA InitIInv == Init => IInv
  <1> SUFFICES ASSUME Init PROVE IInv
    OBVIOUS
  <1> USE TimeoutAssumption DEF Init
  <1>1. TypeOK
    BY DEF TypeOK
  <1>2. FlowOK /\ PanicOK
    BY DEF FlowOK, PanicOK
  <1>3. PoolOK /\ LateOK
    BY DEF PoolOK, LateOK, Using
  <1>4. NoWriteAfterReturn
    BY DEF NoWriteAfterReturn
  <1> QED
    BY <1>1, <1>2, <1>3, <1>4 DEF IInv

\* A *Context from the pool is reset to the client of the request that gets it.
LEMMA ArriveKeeps == ASSUME IInv, NEW r \in Request, Arrive(r) PROVE IInv'
  <1> USE TimeoutAssumption DEF IInv, Arrive, goroutines, writers, contexts
  <1>1. TypeOK'
    BY DEF TypeOK
  <1>2. FlowOK'
    BY DEF TypeOK, FlowOK
  <1>3. PanicOK'
    BY DEF TypeOK, FlowOK, PanicOK
  <1>4. PoolOK'
    BY DEF TypeOK, FlowOK, PoolOK, Using
  <1>5. LateOK'
    BY DEF TypeOK, FlowOK, PoolOK, LateOK, Using
  <1>6. NoWriteAfterReturn'
    BY DEF TypeOK, NoWriteAfterReturn
  <1> QED
    BY <1>1, <1>2, <1>3, <1>4, <1>5, <1>6

\* The writer that is taken was in the pool, so no other handler goroutine has it.
LEMMA LaunchKeeps == ASSUME IInv, NEW r \in Request, Launch(r) PROVE IInv'
  <1> USE TimeoutAssumption DEF IInv, Launch, goroutines, writers, contexts
  <1>1. TypeOK'
    BY DEF TypeOK
  <1>2. FlowOK'
    BY DEF TypeOK, FlowOK
  <1>3. PanicOK'
    BY DEF TypeOK, FlowOK, PanicOK
  <1>4. PoolOK'
    BY DEF TypeOK, FlowOK, PoolOK, Using
  <1>5. LateOK'
    BY DEF TypeOK, FlowOK, PoolOK, LateOK, Using
  <1>6. NoWriteAfterReturn'
    BY DEF TypeOK, NoWriteAfterReturn
  <1> QED
    BY <1>1, <1>2, <1>3, <1>4, <1>5, <1>6

\* The deadline only raises a flag.
LEMMA ExpireKeeps == ASSUME IInv, NEW r \in Request, Expire(r) PROVE IInv'
  <1> USE TimeoutAssumption DEF IInv, Expire, goroutines, writers, contexts
  <1>1. TypeOK'
    BY DEF TypeOK
  <1>2. FlowOK'
    BY DEF TypeOK, FlowOK
  <1>3. PanicOK'
    BY DEF TypeOK, FlowOK, PanicOK
  <1>4. PoolOK'
    BY DEF TypeOK, FlowOK, PoolOK, Using
  <1>5. LateOK'
    BY DEF TypeOK, FlowOK, PoolOK, LateOK, Using
  <1>6. NoWriteAfterReturn'
    BY DEF TypeOK, NoWriteAfterReturn
  <1> QED
    BY <1>1, <1>2, <1>3, <1>4, <1>5, <1>6

\* done is closed, so the handler goroutine is gone and a panic waits in panicCh.
LEMMA TakeDoneKeeps == ASSUME IInv, NEW r \in Request, TakeDone(r) PROVE IInv'
  <1> USE TimeoutAssumption DEF IInv, TakeDone, goroutines, writers, contexts
  <1>1. TypeOK'
    BY DEF TypeOK
  <1>2. FlowOK'
    BY DEF TypeOK, FlowOK
  <1>3. PanicOK'
    BY DEF TypeOK, FlowOK, PanicOK
  <1>4. PoolOK'
    BY DEF TypeOK, FlowOK, PoolOK, Using
  <1>5. LateOK'
    BY DEF TypeOK, FlowOK, PoolOK, LateOK, Using
  <1>6. NoWriteAfterReturn'
    BY DEF TypeOK, NoWriteAfterReturn
  <1> QED
    BY <1>1, <1>2, <1>3, <1>4, <1>5, <1>6

\* The writer is marked; if the handler goroutine still has it, it is its own.
LEMMA TakeDeadlineKeeps == ASSUME IInv, NEW r \in Request, TakeDeadline(r) PROVE IInv'
  <1> USE TimeoutAssumption DEF IInv, TakeDeadline, goroutines, writers, contexts
  <1>1. TypeOK'
    <2>0. tw \in [Writer -> WriterType] /\ twOf[r] \in Writer
      BY DEF TypeOK, WriterType
    <2>1. tw' \in [Writer -> WriterType] /\ \A t \in Writer : tw'[t].of = tw[t].of
      BY <2>0, FlagSet
    <2>3. {expired, crashed, panicCh, done}' \subseteq [Request -> BOOLEAN]
      BY DEF TypeOK
    <2>4. main' \in [Request -> {"out", "acquire", "select", "answer", "return", "gone"}]
      BY DEF TypeOK
    <2> QED
      BY <2>1, <2>3, <2>4 DEF TypeOK, WriterType
  <1>2. FlowOK'
    BY DEF TypeOK, FlowOK
  <1>3. PanicOK'
    BY DEF TypeOK, FlowOK, PanicOK
  <1>4. PoolOK'
    BY DEF TypeOK, FlowOK, PoolOK, Using
  <1>5. LateOK'
    BY DEF TypeOK, FlowOK, PoolOK, LateOK, Using
  <1>6. NoWriteAfterReturn'
    BY DEF TypeOK, NoWriteAfterReturn
  <1> QED
    BY <1>1, <1>2, <1>3, <1>4, <1>5, <1>6

\* The 504 is written by the serving goroutine, before it returns.
LEMMA Answer504Keeps == ASSUME IInv, NEW r \in Request, Answer504(r) PROVE IInv'
  <1> USE TimeoutAssumption DEF IInv, Answer504, goroutines, writers, contexts
  <1>1. TypeOK'
    BY DEF TypeOK
  <1>2. FlowOK'
    BY DEF TypeOK, FlowOK
  <1>3. PanicOK'
    BY DEF TypeOK, FlowOK, PanicOK
  <1>4. PoolOK'
    BY DEF TypeOK, FlowOK, PoolOK, Using
  <1>5. LateOK'
    BY DEF TypeOK, FlowOK, PoolOK, LateOK, Using
  <1>6. NoWriteAfterReturn'
    BY DEF TypeOK, NoWriteAfterReturn
  <1> QED
    BY <1>1, <1>2, <1>3, <1>4, <1>5, <1>6

\* The *Context goes back; the handler may still hold it.
LEMMA ReturnKeeps == ASSUME IInv, NEW r \in Request, Return(r) PROVE IInv'
  <1> USE TimeoutAssumption DEF IInv, Return, goroutines, writers, contexts
  <1>1. TypeOK'
    BY DEF TypeOK
  <1>2. FlowOK'
    BY DEF TypeOK, FlowOK
  <1>3. PanicOK'
    BY DEF TypeOK, FlowOK, PanicOK
  <1>4. PoolOK'
    BY DEF TypeOK, FlowOK, PoolOK, Using
  <1>5. LateOK'
    BY DEF TypeOK, FlowOK, PoolOK, LateOK, Using
  <1>6. NoWriteAfterReturn'
    BY DEF TypeOK, NoWriteAfterReturn
  <1> QED
    BY <1>1, <1>2, <1>3, <1>4, <1>5, <1>6

\* From here on the *Context of the request leads to a writer, not to the client.
LEMMA BindKeeps == ASSUME IInv, NEW r \in Request, Bind(r) PROVE IInv'
  <1> USE TimeoutAssumption DEF IInv, Bind, goroutines, writers, contexts
  <1>1. TypeOK'
    BY DEF TypeOK
  <1>2. FlowOK'
    BY DEF TypeOK, FlowOK
  <1>3. PanicOK'
    BY DEF TypeOK, FlowOK, PanicOK
  <1>4. PoolOK'
    BY DEF TypeOK, FlowOK, PoolOK, Using
  <1>5. LateOK'
    BY DEF TypeOK, FlowOK, PoolOK, LateOK, Using
  <1>6. NoWriteAfterReturn'
    BY DEF TypeOK, NoWriteAfterReturn
  <1> QED
    BY <1>1, <1>2, <1>3, <1>4, <1>5, <1>6

\* The handler returns or panics and keeps its writer.
LEMMA LeaveKeeps == ASSUME IInv, NEW r \in Request, Leave(r) PROVE IInv'
  <1> USE TimeoutAssumption DEF IInv, Leave, goroutines, writers, contexts
  <1>1. TypeOK'
    <2>1. crashed' \in [Request -> BOOLEAN]
      <3>1. crashed \in [Request -> BOOLEAN]
        BY DEF TypeOK
      <3> QED
        BY <3>1
    <2>2. handler' \in [Request -> {"none", "bind", "run", "recover", "release", "close",
                                    "gone"}]
      BY DEF TypeOK
    <2> QED
      BY <2>1, <2>2 DEF TypeOK
  <1>2. FlowOK'
    BY DEF TypeOK, FlowOK
  <1>3. PanicOK'
    BY DEF TypeOK, FlowOK, PanicOK
  <1>4. PoolOK'
    <2>1. \A q \in Request : Using(q)' <=> Using(q)
      BY DEF TypeOK, Using
    <2>2. \A t \in Writer : tw[t].of # NoRequest => tw[t].of \in Request
      BY DEF TypeOK
    <2> HIDE DEF Leave
    <2>3. UNCHANGED <<tw, twOf>>
      BY DEF Leave
    <2> QED
      BY <2>1, <2>2, <2>3 DEF PoolOK
  <1>5. LateOK'
    BY DEF TypeOK, FlowOK, PoolOK, LateOK, Using
  <1>6. NoWriteAfterReturn'
    BY DEF TypeOK, NoWriteAfterReturn
  <1> QED
    BY <1>1, <1>2, <1>3, <1>4, <1>5, <1>6

\* The panic is in panicCh before the writer is released.
LEMMA RecoverKeeps == ASSUME IInv, NEW r \in Request, Recover(r) PROVE IInv'
  <1> USE TimeoutAssumption DEF IInv, Recover, goroutines, writers, contexts
  <1>1. TypeOK'
    BY DEF TypeOK
  <1>2. FlowOK'
    BY DEF TypeOK, FlowOK
  <1>3. PanicOK'
    BY DEF TypeOK, FlowOK, PanicOK
  <1>4. PoolOK'
    BY DEF TypeOK, FlowOK, PoolOK, Using
  <1>5. LateOK'
    BY DEF TypeOK, FlowOK, PoolOK, LateOK, Using
  <1>6. NoWriteAfterReturn'
    BY DEF TypeOK, NoWriteAfterReturn
  <1> QED
    BY <1>1, <1>2, <1>3, <1>4, <1>5, <1>6

\* Only the goroutine that has the writer puts it back.
LEMMA ReleaseWriterKeeps == ASSUME IInv, NEW r \in Request, ReleaseWriter(r) PROVE IInv'
  <1> USE TimeoutAssumption DEF IInv, ReleaseWriter, goroutines, writers, contexts
  <1>1. TypeOK'
    BY DEF TypeOK
  <1>2. FlowOK'
    BY DEF TypeOK, FlowOK
  <1>3. PanicOK'
    BY DEF TypeOK, FlowOK, PanicOK
  <1>4. PoolOK'
    BY DEF TypeOK, FlowOK, PoolOK, Using
  <1>5. LateOK'
    BY DEF TypeOK, FlowOK, PoolOK, LateOK, Using
  <1>6. NoWriteAfterReturn'
    BY DEF TypeOK, NoWriteAfterReturn
  <1> QED
    BY <1>1, <1>2, <1>3, <1>4, <1>5, <1>6

\* done is closed last.
LEMMA CloseDoneKeeps == ASSUME IInv, NEW r \in Request, CloseDone(r) PROVE IInv'
  <1> USE TimeoutAssumption DEF IInv, CloseDone, goroutines, writers, contexts
  <1>1. TypeOK'
    BY DEF TypeOK
  <1>2. FlowOK'
    BY DEF TypeOK, FlowOK
  <1>3. PanicOK'
    BY DEF TypeOK, FlowOK, PanicOK
  <1>4. PoolOK'
    BY DEF TypeOK, FlowOK, PoolOK, Using
  <1>5. LateOK'
    BY DEF TypeOK, FlowOK, PoolOK, LateOK, Using
  <1>6. NoWriteAfterReturn'
    BY DEF TypeOK, NoWriteAfterReturn
  <1> QED
    BY <1>1, <1>2, <1>3, <1>4, <1>5, <1>6

\* A write reaches the client of the request that has the writer, or the one that c.res
\* leads to.  Once the deadline is taken it finds its own client only through a *Context
\* that no route handler has bound.
LEMMA WriteKeeps == ASSUME IInv, NEW r \in Request, Write(r) PROVE IInv'
  <1> USE TimeoutAssumption DEF IInv
  <1>0. UNCHANGED <<goroutines, freeTw, twOf, contexts>> /\ handler[r] \in {"bind", "run"}
    BY DEF Write
  <1>1. PICK target \in {twOf[r], res[ctxOf[r]]} :
          IF target \in Writer
          THEN tw[target].of # NoRequest /\ WriteTo(target, r)
          ELSE Deliver(r, target, TRUE) /\ UNCHANGED tw
    BY DEF Write
  <1>2. target \in Writer \/ (target \in Request /\ target = res[ctxOf[r]])
    <2>1. twOf[r] \in Writer /\ res[ctxOf[r]] \in Request \cup Writer
      BY DEF TypeOK
    <2> QED
      BY <1>1, <2>1
  <1>3. /\ tw' \in [Writer -> WriterType]
        /\ \A t \in Writer : tw'[t].of = tw[t].of /\ tw'[t].timedOut = tw[t].timedOut
    <2>1. tw \in [Writer -> WriterType]
      BY DEF TypeOK, WriterType
    <2>2. \/ UNCHANGED tw
          \/ target \in Writer /\ tw' = [tw EXCEPT ![target].written = TRUE]
      BY <1>1 DEF WriteTo
    <2>3. ASSUME NEW t \in Writer, tw' = [tw EXCEPT ![t].written = TRUE]
          PROVE  /\ tw' \in [Writer -> WriterType]
                 /\ \A u \in Writer : tw'[u].of = tw[u].of /\ tw'[u].timedOut = tw[u].timedOut
      BY <2>1, <2>3, FlagSet
    <2> QED
      BY <2>1, <2>2, <2>3
  <1>4. \/ UNCHANGED sent
        \/ \E q \in Request, direct \in BOOLEAN :
              /\ Deliver(r, q, direct)
              /\ q = r /\ outcome[r] # "none" => direct /\ handler[r] = "bind"
    <2>1. CASE target \in Writer
      <3>1. CASE tw[target].timedOut
        BY <1>1, <2>1, <3>1 DEF WriteTo
      <3>2. CASE ~tw[target].timedOut
        <4>1. tw[target].of \in Request /\ Deliver(r, tw[target].of, FALSE)
          BY <1>1, <2>1, <3>2 DEF WriteTo, TypeOK
        <4>2. ASSUME tw[target].of = r, outcome[r] # "none" PROVE FALSE
          <5>1. twOf[r] = target
            BY <2>1, <4>2 DEF PoolOK
          <5>2. Using(r) /\ outcome[r] # "normal" /\ outcome[r] # "panic"
            BY <1>0 DEF Using, FlowOK
          <5>3. outcome[r] = "timeout"
            BY <4>2, <5>2 DEF TypeOK
          <5> QED
            BY <3>2, <5>1, <5>2, <5>3 DEF LateOK
        <4> QED
          BY <4>1, <4>2
      <3> QED
        BY <3>1, <3>2
    <2>2. CASE target \notin Writer
      <3>1. Deliver(r, target, TRUE) /\ target \in Request /\ target = res[ctxOf[r]]
        BY <1>1, <1>2, <2>2
      <3>2. target = r => handler[r] = "bind"
        BY <1>0, <3>1 DEF LateOK
      <3> QED
        BY <3>1, <3>2
    <2> QED
      BY <2>1, <2>2
  <1>5. sent' \in [Request -> SUBSET {"own", "late", "unguarded", "foreign", "504"}]
    BY <1>4 DEF Deliver, TypeOK
  <1>6. NoWriteAfterReturn'
    <2>1. \A q \in Request : "late" \in sent'[q] => "late" \in sent[q]
      BY <1>4 DEF Deliver, TypeOK
    <2> QED
      BY <2>1 DEF NoWriteAfterReturn
  <1>7. TypeOK'
    BY <1>0, <1>3, <1>5 DEF TypeOK, WriterType, goroutines, contexts
  <1>8. FlowOK' /\ PanicOK'
    BY <1>0 DEF FlowOK, PanicOK, goroutines
  <1>9. PoolOK' /\ LateOK'
    BY <1>0, <1>3 DEF TypeOK, PoolOK, LateOK, Using, goroutines, contexts
  <1> QED
    BY <1>6, <1>7, <1>8, <1>9

LEMMA NextIInv == ASSUME IInv, [Next]_vars PROVE IInv'
  <1>1. CASE Unmoved
    BY <1>1 DEF Unmoved, vars, goroutines, writers, contexts, IInv, TypeOK, FlowOK, PanicOK,
                PoolOK, LateOK, NoWriteAfterReturn, Using
  <1> QED
    BY <1>1, ArriveKeeps, LaunchKeeps, ExpireKeeps, TakeDoneKeeps, TakeDeadlineKeeps,
       Answer504Keeps, ReturnKeeps, BindKeeps, WriteKeeps, LeaveKeeps, RecoverKeeps,
       ReleaseWriterKeeps, CloseDoneKeeps
       DEF Next, Serve, Handle, Unmoved

LEMMA Invariance == Spec => []IInv
  <1>1. IInv /\ [Next]_vars => IInv'
    BY NextIInv
  <1> QED
    BY InitIInv, <1>1, PTL DEF Spec

\* The middleware is type correct; a writer is in its pool exactly if nobody has it.
THEOREM TypeCorrect == Spec => []TypeOK
  <1>1. IInv => TypeOK
    BY DEF IInv
  <1> QED
    BY Invariance, <1>1, PTL

\* Once the deadline has been taken, nothing reaches the client of the request through
\* its timeoutWriter or through the *Context of its route handler, for any number of
\* requests that share the two pools.  (A 404 or 405 handler and a middleware below
\* timeout.New may answer through a *Context that is not bound: no such promise is
\* made of them, and LateAnswersBlocked fails.)
THEOREM NoLateWrite == Spec => []NoWriteAfterReturn
  <1>1. IInv => NoWriteAfterReturn
    BY DEF IInv
  <1> QED
    BY Invariance, <1>1, PTL

\* A panic of the handler is raised in the serving goroutine unless the deadline was taken.
THEOREM PanicIsRaised == Spec => []PanicSurfaces
  <1>1. IInv => PanicSurfaces
    BY DEF IInv, TypeOK, PanicOK, PanicSurfaces
  <1> QED
    BY Invariance, <1>1, PTL

\* A pooled writer is out of the pool, and bound to its request, while a handler
\* goroutine uses it.
THEOREM WritersExclusive == Spec => []WriterExclusive
  <1>1. IInv => WriterExclusive
    BY TimeoutAssumption DEF IInv, TypeOK, PoolOK, WriterExclusive, Using
  <1> QED
    BY Invariance, <1>1, PTL

----------------------------------------------------------------------------
\* The throttle.

\* The counters of the channels are those of the requests that hold tokens.
ThrottleIInv == ThrottleTypeOK /\ NoTokenLeak /\ NoIdleSlot

\* Holders and Queuing are finite, and an element more or less counts one.
LEMMA Counting ==
  ASSUME NEW S \in SUBSET Goroutine, NEW r \in Goroutine
  PROVE  /\ IsFiniteSet(S) /\ Cardinality(S) \in Nat
         /\ r \notin S => Cardinality(S \cup {r}) = Cardinality(S) + 1
         /\ r \in S => Cardinality(S \ {r}) = Cardinality(S) - 1
  <1>1. IsFiniteSet(S)
    BY FS_Subset, ThrottleAssumption
  <1> QED
    BY <1>1, FS_AddElement, FS_RemoveElement, FS_CardinalityType

\* New makes both channels empty, which satisfies the inductive invariant.
LEMMA ThrottleInitIInv == ThrottleInit => ThrottleIInv
  <1> SUFFICES ASSUME ThrottleInit PROVE ThrottleIInv
    OBVIOUS
  <1>1. ThrottleTypeOK
    BY ThrottleAssumption DEF ThrottleInit, ThrottleTypeOK, Phases
  <1>2. Holders = {} /\ Queuing = {} /\ Blocked = {}
    BY DEF ThrottleInit, Holders, Queuing, Blocked
  <1>3. NoTokenLeak /\ NoIdleSlot
    BY <1>2, FS_EmptySet DEF NoTokenLeak, NoIdleSlot, ThrottleInit
  <1> QED
    BY <1>1, <1>3 DEF ThrottleIInv

\* Every step of acquire and of the deferred release preserves it.
LEMMA ThrottleNextIInv ==
  ASSUME ThrottleIInv, [ThrottleNext]_throttleVars PROVE ThrottleIInv'
  <1> USE ThrottleAssumption
  <1>0. /\ Holders \in SUBSET Goroutine /\ Queuing \in SUBSET Goroutine
        /\ pc \in [Goroutine -> Phases] /\ slots \in Nat /\ queue \in Nat
        /\ slots = Cardinality(Holders) /\ queue = Cardinality(Queuing)
        /\ slots <= MaxConcurrent /\ queue <= QueueSize
    BY DEF Holders, Queuing, ThrottleIInv, ThrottleTypeOK, NoTokenLeak
  <1>1. CASE UNCHANGED throttleVars
    BY <1>1 DEF throttleVars, ThrottleIInv, ThrottleTypeOK, NoTokenLeak, NoIdleSlot, Holders, Queuing, Blocked
  <1>2. ASSUME NEW r \in Goroutine, Enter(r) PROVE ThrottleIInv'
    <2>1. Holders' = Holders /\ Queuing' = Queuing /\ Blocked' = Blocked
      BY <1>0, <1>2 DEF Enter, Goto, Holders, Queuing, Blocked
    <2>2. ThrottleTypeOK'
      BY <1>2 DEF Enter, Goto, ThrottleIInv, ThrottleTypeOK, Phases
    <2> QED
      BY <1>2, <2>1, <2>2 DEF Enter, ThrottleIInv, NoTokenLeak, NoIdleSlot
  <1>3. ASSUME NEW r \in Goroutine, TrySlot(r) PROVE ThrottleIInv'
    <2>1. CASE slots < MaxConcurrent
      <3>1. Holders' = Holders \cup {r} /\ r \notin Holders
        BY <1>0, <1>3, <2>1 DEF TrySlot, Goto, Holders
      <3>2. Queuing' = Queuing /\ Blocked = {} /\ Blocked' = {}
        BY <1>0, <1>3, <2>1 DEF TrySlot, Goto, Queuing, Blocked, ThrottleIInv, NoIdleSlot
      <3>3. ThrottleTypeOK'
        BY <1>0, <1>3, <2>1 DEF TrySlot, Goto, ThrottleIInv, ThrottleTypeOK, Phases
      <3>4. NoTokenLeak'
        BY <1>0, <1>3, <2>1, <3>1, <3>2, Counting DEF TrySlot, NoTokenLeak
      <3> QED
        BY <3>2, <3>3, <3>4 DEF ThrottleIInv, NoIdleSlot
    <2>2. CASE slots = MaxConcurrent
      <3>1. Holders' = Holders /\ Queuing' = Queuing /\ Blocked' = Blocked
        BY <1>0, <1>3, <2>2 DEF TrySlot, Goto, Holders, Queuing, Blocked
      <3>2. ThrottleTypeOK'
        BY <1>0, <1>3, <2>2 DEF TrySlot, Goto, ThrottleIInv, ThrottleTypeOK, Phases
      <3>3. slots' = slots /\ queue' = queue
        BY <1>0, <1>3, <2>2 DEF TrySlot
      <3>4. NoTokenLeak'
        BY <3>1, <3>3 DEF ThrottleIInv, NoTokenLeak
      <3>5. NoIdleSlot'
        BY <2>2, <3>3 DEF NoIdleSlot
      <3> QED
        BY <3>2, <3>4, <3>5 DEF ThrottleIInv
    <2> QED
      BY <1>3, <2>1, <2>2 DEF TrySlot
  <1>4. ASSUME NEW r \in Goroutine, TryQueue(r) PROVE ThrottleIInv'
    <2>1. Holders' = Holders /\ Blocked' = Blocked
      BY <1>0, <1>4 DEF TryQueue, Goto, Holders, Blocked
    <2>2. ThrottleTypeOK'
      BY <1>0, <1>4 DEF TryQueue, Goto, ThrottleIInv, ThrottleTypeOK, Phases
    <2>3. NoTokenLeak'
      <3>1. CASE queue < QueueSize
        <4>1. Queuing' = Queuing \cup {r} /\ r \notin Queuing
          BY <1>0, <1>4, <3>1 DEF TryQueue, Goto, Queuing
        <4> QED
          BY <1>0, <1>4, <2>1, <3>1, <4>1, Counting DEF TryQueue, NoTokenLeak
      <3>2. CASE ~(queue < QueueSize)
        <4>1. Queuing' = Queuing
          BY <1>0, <1>4, <3>2 DEF TryQueue, Goto, Queuing
        <4> QED
          BY <1>0, <1>4, <2>1, <3>2, <4>1 DEF TryQueue, NoTokenLeak
      <3> QED
        BY <3>1, <3>2
    <2> QED
      BY <1>4, <2>1, <2>2, <2>3 DEF TryQueue, ThrottleIInv, NoIdleSlot
  <1>5. ASSUME NEW r \in Goroutine, AwaitSlot(r) PROVE ThrottleIInv'
    <2>0. Queuing' = Queuing
      BY <1>0, <1>5 DEF AwaitSlot, Goto, Queuing
    <2>1. CASE slots < MaxConcurrent
      <3>1. Holders' = Holders \cup {r} /\ r \notin Holders
        BY <1>0, <1>5, <2>1 DEF AwaitSlot, Goto, Holders
      <3>2. Blocked = {} /\ Blocked' = {}
        BY <1>0, <1>5, <2>1 DEF AwaitSlot, Goto, Blocked, ThrottleIInv, NoIdleSlot
      <3>3. ThrottleTypeOK'
        BY <1>0, <1>5, <2>1 DEF AwaitSlot, Goto, ThrottleIInv, ThrottleTypeOK, Phases
      <3>4. NoTokenLeak'
        BY <1>0, <1>5, <2>0, <2>1, <3>1, Counting DEF AwaitSlot, NoTokenLeak
      <3> QED
        BY <3>2, <3>3, <3>4 DEF ThrottleIInv, NoIdleSlot
    <2>2. CASE slots = MaxConcurrent
      <3>1. Holders' = Holders
        BY <1>0, <1>5, <2>2 DEF AwaitSlot, Goto, Holders
      <3>2. ThrottleTypeOK'
        BY <1>0, <1>5, <2>2 DEF AwaitSlot, Goto, ThrottleIInv, ThrottleTypeOK, Phases
      <3>3. slots' = slots /\ queue' = queue
        BY <1>0, <1>5, <2>2 DEF AwaitSlot
      <3>4. NoTokenLeak'
        BY <2>0, <3>1, <3>3 DEF ThrottleIInv, NoTokenLeak
      <3>5. NoIdleSlot'
        BY <2>2, <3>3 DEF NoIdleSlot
      <3> QED
        BY <3>2, <3>4, <3>5 DEF ThrottleIInv
    <2> QED
      BY <1>5, <2>1, <2>2 DEF AwaitSlot
  <1>6. ASSUME NEW r \in Goroutine, TimeOut(r) PROVE ThrottleIInv'
    <2>1. Holders' = Holders /\ Queuing' = Queuing /\ Blocked' \subseteq Blocked
      BY <1>0, <1>6 DEF TimeOut, Goto, Holders, Queuing, Blocked
    <2>2. ThrottleTypeOK'
      BY <1>6 DEF TimeOut, Goto, ThrottleIInv, ThrottleTypeOK, Phases
    <2> QED
      BY <1>6, <2>1, <2>2 DEF TimeOut, ThrottleIInv, NoTokenLeak, NoIdleSlot
  <1>7. ASSUME NEW r \in Goroutine, LeaveQueue(r) PROVE ThrottleIInv'
    <2>1. /\ Holders' = Holders /\ Blocked' = Blocked
          /\ Queuing' = Queuing \ {r} /\ r \in Queuing
      BY <1>0, <1>7 DEF LeaveQueue, Goto, Holders, Queuing, Blocked
    <2>2. ThrottleTypeOK'
      BY <1>0, <1>7 DEF LeaveQueue, Goto, ThrottleIInv, ThrottleTypeOK, Phases
    <2>3. NoTokenLeak'
      BY <1>0, <1>7, <2>1, Counting DEF LeaveQueue, NoTokenLeak
    <2> QED
      BY <1>7, <2>1, <2>2, <2>3 DEF LeaveQueue, ThrottleIInv, NoIdleSlot
  <1>8. ASSUME NEW r \in Goroutine, Release(r) PROVE ThrottleIInv'
    <2>1. CASE Blocked = {}
      <3>1. slots' = slots - 1 /\ Goto(r, "out")
        BY <1>8, <2>1 DEF Release
      <3>2. /\ Holders' = Holders \ {r} /\ r \in Holders
            /\ Queuing' = Queuing /\ Blocked' = {}
        BY <1>0, <1>8, <2>1, <3>1 DEF Release, Goto, Holders, Queuing, Blocked
      <3>3. ThrottleTypeOK'
        BY <1>0, <1>8, <3>1 DEF Release, Goto, ThrottleIInv, ThrottleTypeOK, Phases
      <3>4. NoTokenLeak'
        BY <1>0, <1>8, <3>1, <3>2, Counting DEF Release, NoTokenLeak
      <3> QED
        BY <3>2, <3>3, <3>4 DEF ThrottleIInv, NoIdleSlot
    <2>2. ASSUME NEW s \in Blocked, pc' = [pc EXCEPT ![r] = "out", ![s] = "won"],
                 UNCHANGED slots
          PROVE  ThrottleIInv'
      <3>0. s \in Goroutine /\ s # r /\ pc[s] = "blocked" /\ pc[r] = "run"
        BY <1>8, <2>2 DEF Blocked, Release
      <3>1. /\ Holders' = (Holders \ {r}) \cup {s} /\ r \in Holders /\ s \notin Holders
            /\ Queuing' = Queuing /\ Blocked' \subseteq Blocked
        BY <1>0, <2>2, <3>0 DEF Holders, Queuing, Blocked
      <3>2. Cardinality(Holders') = Cardinality(Holders)
        <4>1. Cardinality(Holders \ {r}) = Cardinality(Holders) - 1
          BY <1>0, <3>1, Counting
        <4>2. Cardinality((Holders \ {r}) \cup {s}) = Cardinality(Holders \ {r}) + 1
          BY <1>0, <3>0, <3>1, Counting
        <4>3. Cardinality(Holders) \in Nat
          BY <1>0
        <4> QED
          BY <3>1, <4>1, <4>2, <4>3
      <3>3. ThrottleTypeOK'
        BY <1>0, <1>8, <2>2, <3>0 DEF Release, ThrottleIInv, ThrottleTypeOK, Phases
      <3>4. slots = MaxConcurrent
        BY <2>2 DEF ThrottleIInv, NoIdleSlot
      <3> QED
        BY <1>0, <1>8, <2>2, <3>1, <3>2, <3>3, <3>4
        DEF Release, ThrottleIInv, NoTokenLeak, NoIdleSlot
    <2> QED
      BY <1>8, <2>1, <2>2 DEF Release
  <1> QED
    BY <1>1, <1>2, <1>3, <1>4, <1>5, <1>6, <1>7, <1>8 DEF ThrottleNext, Acquire

\* The inductive invariant holds in every reachable state.
LEMMA ThrottleInductive == ThrottleSpec => []ThrottleIInv
  BY ThrottleInitIInv, ThrottleNextIInv, PTL DEF ThrottleSpec

\* The types hold; the counters never leave the capacities of the channels.
THEOREM ThrottleTypeCorrect == ThrottleSpec => []ThrottleTypeOK
  BY ThrottleInductive, PTL DEF ThrottleIInv

\* No exit path of acquire or of the handler leaks a token.
THEOREM TokensReturned == ThrottleSpec => []NoTokenLeak
  BY ThrottleInductive, PTL DEF ThrottleIInv

\* No request waits for a slot while one is free.
THEOREM WorkConserving == ThrottleSpec => []NoIdleSlot
  BY ThrottleInductive, PTL DEF ThrottleIInv

\* At most MaxConcurrent handlers run and at most QueueSize requests queue.
THEOREM Bounds == ThrottleSpec => []Bounded
  <1>1. ThrottleIInv => Bounded
    <2> SUFFICES ASSUME ThrottleIInv PROVE Bounded
      OBVIOUS
    <2> DEFINE Running == {r \in Goroutine : pc[r] = "run"}
    <2>1. IsFiniteSet(Holders)
      BY FS_Subset, ThrottleAssumption DEF Holders
    <2>2. Running \subseteq Holders
      BY DEF Holders
    <2>3. Cardinality(Running) <= Cardinality(Holders)
      BY <2>1, <2>2, FS_Subset
    <2>4. /\ Cardinality(Holders) <= MaxConcurrent /\ Cardinality(Holders) \in Nat
          /\ Cardinality(Queuing) <= QueueSize
      BY ThrottleAssumption DEF ThrottleIInv, ThrottleTypeOK, NoTokenLeak
    <2>5. Cardinality(Running) \in Nat
      BY <2>1, <2>2, FS_Subset, FS_CardinalityType
    <2> QED
      BY <2>3, <2>4, <2>5, ThrottleAssumption DEF Bounded
  <1> QED
    BY <1>1, ThrottleInductive, PTL
=============================================================================
