------------------------------ MODULE Throttle ------------------------------
(***************************************************************************)
(* plugins/throttle: the two token channels that bound the requests in     *)
(* flight and the requests that queue for a slot.  The Go channel is       *)
(* external: a send on a full channel blocks, and a receive hands the      *)
(* freed place to a blocked sender at once (the order among the blocked is *)
(* left open).  A goroutine that is "out" may come back as a new request.  *)
(***************************************************************************)
EXTENDS Naturals, FiniteSets

CONSTANTS
    Goroutine,      \* the goroutines that serve requests
    MaxConcurrent,  \* capacity of t.slots
    QueueSize       \* capacity of t.queue; 0 stands for the nil channel

ASSUME ThrottleAssumption ==
    /\ IsFiniteSet(Goroutine)
    /\ MaxConcurrent \in Nat \ {0}
    /\ QueueSize \in Nat

VARIABLES
    pc,      \* where each request is
    slots,   \* len(t.slots)
    queue    \* len(t.queue)

throttleVars == <<pc, slots, queue>>

\* "won" and "lost" still hold the queue token that the deferred function returns.
Phases == {"out", "acquire", "enqueue", "queued", "blocked", "won", "lost", "run"}

ThrottleTypeOK ==
    /\ pc \in [Goroutine -> Phases]
    /\ slots \in 0 .. MaxConcurrent
    /\ queue \in 0 .. QueueSize

ThrottleInit ==
    /\ pc = [r \in Goroutine |-> "out"]
    /\ slots = 0
    /\ queue = 0

Blocked == {r \in Goroutine : pc[r] = "blocked"}
Holders == {r \in Goroutine : pc[r] \in {"won", "run"}}
Queuing == {r \in Goroutine : pc[r] \in {"queued", "blocked", "won", "lost"}}

----------------------------------------------------------------------------
Goto(r, phase) == pc' = [pc EXCEPT ![r] = phase]

\* A request that no skipper exempts calls acquire; an exempt one runs its handler
\* without touching the throttle.
Enter(r) ==
    /\ pc[r] = "out"
    /\ Goto(r, "acquire")
    /\ UNCHANGED <<slots, queue>>

\* The first select of acquire: a free slot is taken without a queue token;
\* without a queue the request is turned away.
TrySlot(r) ==
    /\ pc[r] = "acquire"
    /\ \/ /\ slots < MaxConcurrent
          /\ slots' = slots + 1
          /\ Goto(r, "run")
       \/ /\ slots = MaxConcurrent
          /\ Goto(r, IF QueueSize = 0 THEN "out" ELSE "enqueue")
          /\ UNCHANGED slots
    /\ UNCHANGED queue

\* The second select: a queue token, or the queue is full and the request is
\* turned away.
TryQueue(r) ==
    /\ pc[r] = "enqueue"
    /\ IF queue < QueueSize
       THEN queue' = queue + 1 /\ Goto(r, "queued")
       ELSE Goto(r, "out") /\ UNCHANGED queue
    /\ UNCHANGED slots

\* Mutant: the request waits for a release without looking at the slots first.
AwaitSlotBlindly(r) ==
    /\ pc[r] = "queued"
    /\ Goto(r, "blocked")
    /\ UNCHANGED <<slots, queue>>

\* The last select is entered: a slot is free by now, or the request blocks.
AwaitSlot(r) ==
    /\ pc[r] = "queued"
    /\ \/ /\ slots < MaxConcurrent
          /\ slots' = slots + 1
          /\ Goto(r, "won")
       \/ /\ slots = MaxConcurrent
          /\ Goto(r, "blocked")
          /\ UNCHANGED slots
    /\ UNCHANGED queue

\* Mutant: the timer is looked at only when the select is entered.
TimeOutOnEntry(r) ==
    /\ pc[r] = "queued"
    /\ Goto(r, "lost")
    /\ UNCHANGED <<slots, queue>>

\* The timer of QueueTimeout wins the select, possibly as soon as it is entered.
TimeOut(r) ==
    /\ pc[r] \in {"queued", "blocked"}
    /\ Goto(r, "lost")
    /\ UNCHANGED <<slots, queue>>

\* Mutant: a request that timed out keeps its queue token.
LeaveQueueOnSuccess(r) ==
    /\ pc[r] \in {"won", "lost"}
    /\ queue' = IF pc[r] = "won" THEN queue - 1 ELSE queue
    /\ Goto(r, IF pc[r] = "won" THEN "run" ELSE "out")
    /\ UNCHANGED slots

\* The deferred receive gives the queue token back, and acquire returns.
LeaveQueue(r) ==
    /\ pc[r] \in {"won", "lost"}
    /\ queue > 0
    /\ queue' = queue - 1
    /\ Goto(r, IF pc[r] = "won" THEN "run" ELSE "out")
    /\ UNCHANGED slots

\* The handler returns, fails or panics: the deferred release receives from
\* t.slots, which lets a blocked sender in.
Release(r) ==
    /\ pc[r] = "run"
    /\ slots > 0
    /\ \/ /\ Blocked = {}
          /\ slots' = slots - 1
          /\ Goto(r, "out")
       \/ /\ \E s \in Blocked : pc' = [pc EXCEPT ![r] = "out", ![s] = "won"]
          /\ UNCHANGED slots
    /\ UNCHANGED queue

Acquire(r) == TrySlot(r) \/ TryQueue(r) \/ AwaitSlot(r) \/ LeaveQueue(r)
ThrottleNext == \E r \in Goroutine : Enter(r) \/ Acquire(r) \/ TimeOut(r) \/ Release(r)

ThrottleSpec == ThrottleInit /\ [][ThrottleNext]_throttleVars

\* Goroutines run and the timer of a waiting request fires.  Handlers need not
\* return, and nothing makes a release serve a given waiter.
FairThrottle ==
    /\ ThrottleSpec
    /\ \A r \in Goroutine : WF_throttleVars(Acquire(r)) /\ WF_throttleVars(TimeOut(r))

----------------------------------------------------------------------------
\* "A throttle bounds the number of in-flight requests" and "bounds queue depth at
\* exactly QueueSize regardless of handler latency", whatever the races of timers
\* with releases.
Bounded ==
    /\ Cardinality({r \in Goroutine : pc[r] = "run"}) <= MaxConcurrent
    /\ Cardinality(Queuing) <= QueueSize

\* "handler errors and panics do not leak slots", and no exit of acquire leaks a
\* queue token: the tokens in the channels are those of requests that will return
\* them, so the deferred receives never block.
NoTokenLeak == slots = Cardinality(Holders) /\ queue = Cardinality(Queuing)

\* No request waits while a slot is free: a release between the failed first
\* select and the last one is not missed.
NoIdleSlot == Blocked # {} => slots = MaxConcurrent

\* A request is admitted or turned away, even if no handler ever returns.
EveryoneDecided ==
    \A r \in Goroutine : pc[r] = "acquire" ~> pc[r] \in {"run", "out"}
=============================================================================
