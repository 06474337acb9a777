---------------------------- MODULE ServerProofs ----------------------------
(***************************************************************************)
(* Proofs about the server: listenServerWithCleanup, for any set of        *)
(* connections, any ShutdownTimeout and any serve function, and the        *)
(* CertReloader that its cleanup stops, for any key pairs, any number of   *)
(* rewrites of the files and any number of callers of Stop.                *)
(*                                                                         *)
(* The invariant of ListenServer follows main through its steps; the one   *)
(* fact that needs more than a step is that no connection is accepted once *)
(* srv.Shutdown has been called, so that what the drain found stays true   *)
(* until cleanup.  The one of the reloader is in CertReload.               *)
(***************************************************************************)
EXTENDS ServerLifecycle, CertReload, TLAPS

Unmoved == UNCHANGED vars

\* Nothing has happened before ListenServer is called.
LEMMA InitIInv == Init => IInv
  <1> SUFFICES ASSUME Init PROVE IInv
    OBVIOUS
  <1> USE LifecycleAssumption DEF Init, Early, Over
  <1>1. TypeOK
    <2>1. {inShutdown, quit, bySignal, serveErr} \subseteq BOOLEAN
      BY Zenon
    <2>2. {now, deadline, signalAt} \subseteq 0 .. (MaxTime + ShutdownTimeout)
      OBVIOUS
    <2> QED
      BY <2>1, <2>2 DEF TypeOK
  <1>2. ClockOK /\ CountOK
    BY DEF ClockOK, CountOK
  <1>3. ServeOK /\ DrainOK
    BY DEF ServeOK, DrainOK
  <1> QED
    BY <1>1, <1>2, <1>3 DEF IInv

\* The clocks are numbers within their bound.
LEMMA ClockTypes ==
  ASSUME TypeOK
  PROVE  /\ now \in Nat /\ deadline \in Nat /\ signalAt \in Nat
         /\ MaxTime \in Nat /\ ShutdownTimeout \in Nat \ {0}
         /\ now <= MaxTime + ShutdownTimeout
         /\ deadline <= MaxTime + ShutdownTimeout
         /\ signalAt <= MaxTime + ShutdownTimeout
  BY LifecycleAssumption DEF TypeOK

\* Every step of main, of the serve goroutine and of the world preserves the invariant.
LEMMA NextIInv == ASSUME IInv, [Next]_vars PROVE IInv'
  <1> USE ClockTypes DEF IInv, transport, stop, world, errors, done
  <1>1. CASE Call
    <2>1. TypeOK' /\ ClockOK'
      BY <1>1 DEF Call, ReturnEarly, TypeOK, ClockOK, CountOK
    <2>2. CountOK'
      BY <1>1 DEF Call, ReturnEarly, CountOK, Over
    <2>3. ServeOK' /\ DrainOK'
      BY <1>1 DEF Call, ReturnEarly, ServeOK, DrainOK, Early, Over, Active
    <2> QED
      BY <2>1, <2>2, <2>3
  <1>2. CASE Startup
    <2>1. TypeOK' /\ ClockOK'
      BY <1>2 DEF Startup, ReturnEarly, TypeOK, ClockOK, CountOK
    <2>2. CountOK'
      BY <1>2 DEF Startup, ReturnEarly, CountOK, Over
    <2>3. ServeOK' /\ DrainOK'
      BY <1>2 DEF Startup, ReturnEarly, ServeOK, DrainOK, Early, Over, Active
    <2> QED
      BY <2>1, <2>2, <2>3
  <1>3. CASE StopOnSignal \/ StopOnServe
    <2> USE DEF StopOnSignal, StopOnServe
    <2>1. TypeOK' /\ ClockOK'
      BY <1>3, ZenonT(40) DEF TypeOK, ClockOK
    <2>2. CountOK'
      BY <1>3 DEF CountOK, Over
    <2>3. ServeOK' /\ DrainOK'
      BY <1>3 DEF ServeOK, DrainOK, Early, Over, Active
    <2> QED
      BY <2>1, <2>2, <2>3
  <1>4. CASE Hooks \/ BeginShutdown
    <2> USE DEF Hooks, BeginShutdown
    <2>1. TypeOK' /\ ClockOK'
      <3>1. hookRuns' \in 0 .. 1 /\ cleanups' \in 0 .. 1
        BY <1>4 DEF TypeOK, CountOK, Over
      <3>2. {inShutdown, quit, bySignal, serveErr}' \subseteq BOOLEAN
        BY <1>4 DEF TypeOK
      <3> QED
        BY <1>4, <3>1, <3>2 DEF TypeOK, ClockOK
    <2>2. CountOK'
      BY <1>4 DEF CountOK, Over
    <2>3. ServeOK' /\ DrainOK'
      BY <1>4 DEF ServeOK, DrainOK, Early, Over, Active
    <2> QED
      BY <2>1, <2>2, <2>3
  <1>5. CASE Drain
    <2>1. TypeOK' /\ ClockOK'
      BY <1>5 DEF Drain, TypeOK, ClockOK
    <2>2. CountOK'
      BY <1>5 DEF Drain, CountOK, Over
    <2>3. ServeOK' /\ DrainOK'
      BY <1>5 DEF Drain, ServeOK, DrainOK, Early, Over, Active
    <2> QED
      BY <2>1, <2>2, <2>3
  <1>6. CASE Await
    <2>1. TypeOK' /\ ClockOK'
      BY <1>6 DEF Await, TypeOK, ClockOK
    <2>2. CountOK'
      BY <1>6 DEF Await, CountOK, Over
    <2>3. ServeOK' /\ DrainOK'
      BY <1>6 DEF Await, ServeOK, DrainOK, Early, Over, Active
    <2> QED
      BY <2>1, <2>2, <2>3
  <1>7. CASE Cleanup
    <2>0. result' \in {"nil", "serve", "deadline"}
      BY <1>7 DEF Cleanup, TypeOK
    <2>1. TypeOK' /\ ClockOK'
      BY <1>7, <2>0 DEF Cleanup, TypeOK, ClockOK, CountOK
    <2>2. CountOK'
      BY <1>7, <2>0 DEF Cleanup, CountOK, Over
    <2>3. ServeOK' /\ DrainOK'
      BY <1>7, <2>0 DEF Cleanup, ServeOK, DrainOK, Early, Over, Active
    <2> QED
      BY <2>1, <2>2, <2>3
  <1>8. CASE ServeStarts \/ ServeFails \/ ServeCloses
    <2> USE DEF ServeStarts, ServeFails, ServeCloses, ServeReturns
    <2>1. TypeOK' /\ ClockOK'
      BY <1>8 DEF TypeOK, ClockOK
    <2>2. CountOK'
      BY <1>8 DEF CountOK, Over
    <2>3. ServeOK' /\ DrainOK'
      BY <1>8 DEF ServeOK, DrainOK, Early, Over, Active
    <2> QED
      BY <2>1, <2>2, <2>3
  <1>9. CASE AppShutdown \/ Signal
    <2> USE DEF AppShutdown, Signal
    <2>1. TypeOK' /\ ClockOK'
      <3>1. {inShutdown, quit, bySignal, serveErr}' \subseteq BOOLEAN
        BY <1>9 DEF TypeOK
      <3> QED
        BY <1>9, <3>1 DEF TypeOK, ClockOK
    <2>2. CountOK'
      BY <1>9 DEF CountOK, Over
    <2>3. ServeOK' /\ DrainOK'
      BY <1>9 DEF ServeOK, DrainOK, Early, Over, Active
    <2> QED
      BY <2>1, <2>2, <2>3
  <1>10. CASE Tick
    <2>1. TypeOK' /\ ClockOK'
      BY <1>10 DEF Tick, TypeOK, ClockOK
    <2>2. CountOK'
      BY <1>10 DEF Tick, CountOK, Over
    <2>3. ServeOK' /\ DrainOK'
      BY <1>10 DEF Tick, ServeOK, DrainOK, Early, Over, Active
    <2> QED
      BY <2>1, <2>2, <2>3
  <1>11. ASSUME NEW c \in Conn, Accept(c) \/ FinishConn(c) PROVE IInv'
    <2> USE DEF Accept, FinishConn, SetConn
    <2>1. TypeOK' /\ ClockOK'
      BY <1>11 DEF TypeOK, ClockOK
    <2>2. CountOK'
      BY <1>11 DEF CountOK, Over
    <2>3. inShutdown => Active' \subseteq Active
      BY <1>11 DEF Active, TypeOK
    <2>4. ServeOK'
      BY <1>11 DEF ServeOK, Early, TypeOK
    <2>5. DrainOK'
      BY <1>11, <2>3 DEF DrainOK, Over
    <2> QED
      BY <2>1, <2>2, <2>4, <2>5
  <1>12. CASE Unmoved
    BY <1>12 DEF Unmoved, vars, TypeOK, ClockOK, CountOK, ServeOK, DrainOK, Early, Over, Active
  <1> QED
    BY <1>1, <1>2, <1>3, <1>4, <1>5, <1>6, <1>7, <1>8, <1>9, <1>10, <1>11, <1>12
       DEF Next, Main, Unmoved

LEMMA Invariance == Spec => []IInv
  <1>1. IInv /\ [Next]_vars => IInv'
    BY NextIInv
  <1> QED
    BY InitIInv, <1>1, PTL DEF Spec

\* listenServerWithCleanup is type correct: the clocks stay within the bound, and hooks
\* and cleanup run at most once.
THEOREM TypeCorrect == Spec => []TypeOK
  <1>1. IInv => TypeOK
    BY DEF IInv
  <1> QED
    BY Invariance, <1>1, PTL

\* Every way out of ListenServer runs cleanup exactly once, and the OnShutdown hooks
\* exactly if serving had started.
THEOREM ExitsCleanUp == Spec => []EveryExitCleansUp
  <1>1. IInv => EveryExitCleansUp
    <2> SUFFICES ASSUME IInv, main = "returned"
                 PROVE  /\ cleanups = 1
                        /\ hookRuns = IF result \in {"badArgument", "startup"} THEN 0 ELSE 1
      BY DEF EveryExitCleansUp
    <2>1. result \in {"nil", "badArgument", "startup", "serve", "deadline"}
      BY DEF IInv, TypeOK, CountOK
    <2> QED
      BY <2>1 DEF IInv, CountOK, Over
  <1> QED
    BY Invariance, <1>1, PTL

\* A nil result of ListenServer means that the server was drained and serve did not fail.
THEOREM NilIsDrained == Spec => []NilMeansDrained
  <1>1. IInv => NilMeansDrained
    <2> SUFFICES ASSUME IInv, result = "nil" 
                 PROVE  Active = {} /\ errCh # "error" /\ inShutdown /\ ~serveErr
      BY DEF NilMeansDrained
    <2>1. Over
      BY DEF IInv, CountOK, Over
    <2>2. ~serveErr /\ shutdownErr = "nil"
      BY <2>1 DEF IInv, DrainOK
    <2> QED
      BY <2>1, <2>2 DEF IInv, DrainOK
  <1> QED
    BY Invariance, <1>1, PTL

\* Cleanup finds a connection open only if the shutdown context had expired.
THEOREM CleanupWaits == Spec => []CleanupAfterDrain
  <1>1. IInv => CleanupAfterDrain
    <2> SUFFICES ASSUME IInv, cleanups = 1, Active # {}
                 PROVE  deadline <= now /\ shutdownErr = "deadline"
      BY DEF CleanupAfterDrain
    <2>1. main = "returned" /\ serve # "none"
      BY DEF IInv, CountOK, ServeOK, Active
    <2>2. Over
      BY <2>1 DEF IInv, TypeOK, CountOK, ServeOK, Early, Over
    <2> QED
      BY <2>2 DEF IInv, DrainOK
  <1> QED
    BY Invariance, <1>1, PTL

----------------------------------------------------------------------------
\* The certificate reloader.

\* NewCertReloader leaves a reloader that satisfies the inductive invariant.
LEMMA ReloadInitIInv == ReloadInit => ReloadIInv
  <1> SUFFICES ASSUME ReloadInit PROVE ReloadIInv
    OBVIOUS
  <1> USE DEF ReloadInit, Building, Polling
  <1>1. ReloadTypeOK
    <2>1. cert \in File /\ key \in File
      BY DEF File
    <2>2. readCert \in Body
      BY DEF Body
    <2> QED
      BY <2>1, <2>2 DEF ReloadTypeOK
  <1>2. SigsOK /\ ReadOK /\ FreshOK /\ ControlOK
    BY DEF SigsOK, ReadOK, FreshOK, ControlOK, Reloading
  <1> QED
    BY <1>1, <1>2 DEF ReloadIInv

\* The fields of the two files and of what is served.
LEMMA FieldTypes ==
  ASSUME ReloadTypeOK
  PROVE  /\ cert.sig \in Nat /\ key.sig \in Nat /\ cert.body \in Body /\ key.body \in Body
         /\ PairLoads => key.body \in Version /\ key.body # NoPair
         /\ lastCert \in Nat /\ lastKey \in Nat /\ statCert \in Nat /\ statKey \in Nat
  BY ReloadAssumption DEF ReloadTypeOK, File, Body, PairLoads

\* Every step of the writer, the poller, Start and Stop preserves it.
LEMMA ReloadNextIInv ==
  ASSUME ReloadIInv, [ReloadNext]_reloadVars PROVE ReloadIInv'
  <1> USE FieldTypes DEF ReloadIInv, files, local, control
  <1>1. CASE WriteCert
    <2>1. /\ cert'.sig = cert.sig + 1 /\ cert' \in File
          /\ UNCHANGED <<key, served, lastCert, lastKey, poller, local, control>>
      BY <1>1 DEF WriteCert, ReloadTypeOK, File
    <2>2. ReloadTypeOK' /\ ControlOK'
      BY <2>1 DEF ReloadTypeOK, ControlOK
    <2>3. SigsOK'
      BY <2>1 DEF SigsOK
    <2>4. ReadOK' /\ FreshOK'
      BY <2>1 DEF SigsOK, ReadOK, FreshOK
    <2> QED
      BY <2>2, <2>3, <2>4
  <1>2. CASE WriteKey
    <2>1. /\ key'.sig = key.sig + 1 /\ key' \in File
          /\ UNCHANGED <<cert, served, lastCert, lastKey, poller, local, control>>
      BY <1>2 DEF WriteKey, ReloadTypeOK, File
    <2>2. ReloadTypeOK' /\ ControlOK'
      BY <2>1 DEF ReloadTypeOK, ControlOK
    <2>3. SigsOK'
      BY <2>1 DEF SigsOK
    <2>4. ReadOK' /\ FreshOK'
      BY <2>1 DEF SigsOK, ReadOK, FreshOK
    <2> QED
      BY <2>2, <2>3, <2>4
  <1>3. CASE New
    <2> USE DEF NewStatCert, NewStatKey, NewReadCert, NewReadKey, NewFails, New
    <2>1. ReloadTypeOK'
      BY <1>3 DEF ReloadTypeOK, Building, Polling, ControlOK
    <2>2. SigsOK' /\ ReadOK'
      BY <1>3 DEF SigsOK, ReadOK, Reloading
    <2>3. FreshOK'
      BY <1>3 DEF FreshOK, ReadOK, ControlOK, Building, PairLoads
    <2>4. ControlOK'
      BY <1>3 DEF ControlOK, Building
    <2> QED
      BY <2>1, <2>2, <2>3, <2>4
  <1>4. CASE Start \/ Cancel
    <2>1. ReloadTypeOK'
      BY <1>4 DEF Start, Cancel, ReloadTypeOK, Polling
    <2>3. ControlOK'
      BY <1>4 DEF Start, Cancel, ControlOK, Building
    <2>2. SigsOK' /\ ReadOK' /\ FreshOK'
      BY <1>4 DEF Start, Cancel, SigsOK, ReadOK, FreshOK, Reloading
    <2> QED
      BY <2>1, <2>2, <2>3
  <1>5. CASE Reload
    <2> USE DEF Reload, PollStatCert, PollStatKey, PollCompare, PollReadCert, PollReadKey,
                PollRecord, Go
    <2>1. ReloadTypeOK'
      BY <1>5 DEF ReloadTypeOK, Polling
    <2>2. SigsOK'
      <3>1. CASE PollStatCert \/ PollStatKey
        BY <3>1 DEF SigsOK, Reloading
      <3>2. CASE PollCompare
        BY <3>2 DEF SigsOK, Reloading
      <3>3. CASE PollReadCert \/ PollReadKey
        BY <3>3 DEF SigsOK, Reloading
      <3>4. CASE PollRecord
        BY <3>4 DEF SigsOK, Reloading
      <3> QED
        BY <1>5, <3>1, <3>2, <3>3, <3>4
    <2>3. ReadOK' /\ FreshOK'
      <3>1. CASE PollStatCert \/ PollStatKey \/ PollCompare
        BY <3>1 DEF ReadOK, FreshOK
      <3>2. CASE PollReadCert
        BY <3>2 DEF ReadOK, FreshOK
      <3>3. CASE PollReadKey
        BY <3>3 DEF ReadOK, FreshOK, SigsOK, Reloading, PairLoads
      <3>4. CASE PollRecord
        BY <3>4 DEF ReadOK, FreshOK
      <3> QED
        BY <1>5, <3>1, <3>2, <3>3, <3>4
    <2>4. ControlOK'
      BY <1>5 DEF ControlOK, Building
    <2> QED
      BY <2>1, <2>2, <2>3, <2>4
  <1>6. CASE PollTick \/ PollLeaves \/ PollExits
    <2> USE DEF PollTick, PollLeaves, PollExits, Go
    <2>1. ReloadTypeOK'
      <3>1. CASE PollTick \/ PollLeaves
        BY <3>1 DEF ReloadTypeOK, Polling
      <3>2. CASE PollExits
        BY <3>2 DEF ReloadTypeOK, ControlOK, Polling, Building
      <3> QED
        BY <1>6, <3>1, <3>2
    <2>3. ControlOK'
      BY <1>6 DEF ReloadTypeOK, ControlOK, Building
    <2>2. SigsOK' /\ ReadOK' /\ FreshOK'
      BY <1>6 DEF SigsOK, ReadOK, FreshOK, Reloading
    <2> QED
      BY <2>1, <2>2, <2>3
  <1>7. ASSUME NEW s \in Stopper, Stop(s) PROVE ReloadIInv'
    <2> USE DEF Stop, StopCall, StopClose, StopReturn
    <2>1. ReloadTypeOK'
      BY <1>7 DEF ReloadTypeOK
    <2>2. ControlOK'
      BY <1>7 DEF ControlOK, ReloadTypeOK, Building
    <2>3. SigsOK' /\ ReadOK' /\ FreshOK'
      BY <1>7 DEF SigsOK, ReadOK, FreshOK, Reloading
    <2> QED
      BY <2>1, <2>2, <2>3
  <1>8. CASE UNCHANGED reloadVars
    BY <1>8 DEF reloadVars, ReloadTypeOK, SigsOK, ReadOK, FreshOK, ControlOK
  <1> QED
    BY <1>1, <1>2, <1>3, <1>4, <1>5, <1>6, <1>7, <1>8 DEF ReloadNext, Poll

\* The inductive invariant holds in every reachable state.
LEMMA ReloadInductive == ReloadSpec => []ReloadIInv
  BY ReloadInitIInv, ReloadNextIInv, PTL DEF ReloadSpec

\* The types hold; in particular a reloader that has been constructed always has a
\* pair to serve, whatever happens to the files.
THEOREM ReloadTypeCorrect == ReloadSpec => []ReloadTypeOK
  BY ReloadInductive, PTL DEF ReloadIInv

\* A replacement of the files is never missed: signatures are taken before the
\* bytes, so recorded signatures that are current mean that the pair is, too.
THEOREM ChangeSeen == ReloadSpec => []NoMissedChange
  <1>1. ReloadIInv => NoMissedChange
    BY DEF ReloadIInv, FreshOK, NoMissedChange
  <1> QED
    BY <1>1, ReloadInductive, PTL

\* Stop returns only after the poller has exited, for every caller.
THEOREM StopIsFinal == ReloadSpec => []StopWaits
  <1>1. ReloadIInv => StopWaits
    BY DEF ReloadIInv, ControlOK, StopWaits
  <1> QED
    BY <1>1, ReloadInductive, PTL
=============================================================================
