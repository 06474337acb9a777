----------------------------- MODULE CertReload -----------------------------
(***************************************************************************)
(* CertReloader (cert_reload.go): the constructor and the polling goroutine *)
(* stat and read the certificate and the key file while an operator         *)
(* replaces them, one file at a time; Start, Stop and the cancellation of   *)
(* the context race with the poller; handshakes take the current pair.      *)
(* os.Stat, the file reads of tls.LoadX509KeyPair and the file system are   *)
(* modelled by what the code sees of them.                                  *)
(***************************************************************************)
EXTENDS Naturals

CONSTANTS
    Version,    \* key pairs: a certificate and a key match if they are of one version
    NoPair,     \* what an unparsable file holds; also r.cert before the first load
    Absent,     \* the file does not exist
    Stopper,    \* the goroutines that may call Stop
    MaxWrites   \* bound on the number of times each file is replaced

ASSUME ReloadAssumption ==
    /\ MaxWrites \in Nat
    /\ NoPair \notin Version /\ Absent \notin Version /\ Absent # NoPair

\* What a file holds.  A half-written file holds NoPair.
Body == Version \cup {NoPair, Absent}

VARIABLES
    cert, key,      \* the two files: signature (mtime and size) and body
    served,         \* r.cert: the version of the pair that is served
    lastCert,       \* r.lastCertSig
    lastKey,        \* r.lastKeySig
    state,          \* r.state; "none" until the constructor has returned
    poller,         \* where the constructor or the polling goroutine is
    statCert, statKey, readCert,   \* its local variables
    stopClosed,     \* r.stopCh is closed
    cancelled,      \* the context passed to Start has been cancelled
    exited,         \* r.stoppedCh is closed
    stopper         \* where each caller of Stop is

files == <<cert, key>>
local == <<statCert, statKey, readCert>>
control == <<state, stopClosed, cancelled, exited, stopper>>
reloadVars == <<files, served, lastCert, lastKey, poller, local, control>>

File == [sig : Nat, body : Body]

Building == {"newStatCert", "newStatKey", "newReadCert", "newReadKey"}
Polling == {"idle", "statCert", "statKey", "compare", "readCert", "readKey", "record"}

ReloadTypeOK ==
    /\ cert \in File /\ key \in File
    /\ served \in Version \cup {NoPair}
    /\ state # "none" => served # NoPair   \* GetCertificate always has an answer
    /\ lastCert \in Nat /\ lastKey \in Nat /\ statCert \in Nat /\ statKey \in Nat
    /\ readCert \in Body
    /\ state \in {"none", "notStarted", "running", "stopped"}
    /\ poller \in Building \cup Polling \cup {"off", "leaving"}
    /\ stopClosed \in BOOLEAN /\ cancelled \in BOOLEAN /\ exited \in BOOLEAN
    /\ stopper \in [Stopper -> {"out", "ignored", "closing", "waiting", "returned"}]

ReloadInit ==
    /\ cert \in [sig : {1}, body : Body]
    /\ key \in [sig : {1}, body : Body]
    /\ served = NoPair
    /\ lastCert = 0 /\ lastKey = 0 /\ statCert = 0 /\ statKey = 0
    /\ readCert = NoPair
    /\ state = "none" /\ poller = "newStatCert"
    /\ stopClosed = FALSE /\ cancelled = FALSE /\ exited = FALSE
    /\ stopper = [s \in Stopper |-> "out"]

----------------------------------------------------------------------------
(* The operator: a file is replaced, truncated or removed; every change     *)
(* gives it a new signature.                                                *)

WriteCert ==
    /\ cert.sig <= MaxWrites
    /\ \E b \in Body : cert' = [sig |-> cert.sig + 1, body |-> b]
    /\ UNCHANGED <<key, served, lastCert, lastKey, poller, local, control>>

WriteKey ==
    /\ key.sig <= MaxWrites
    /\ \E b \in Body : key' = [sig |-> key.sig + 1, body |-> b]
    /\ UNCHANGED <<cert, served, lastCert, lastKey, poller, local, control>>

----------------------------------------------------------------------------
(* NewCertReloader: stat both files, then load.  Any error is returned.     *)

Go(from, to) == poller = from /\ poller' = to

NewFails == poller' = "off" /\ UNCHANGED <<files, served, lastCert, lastKey, local, control>>

NewStatCert ==
    /\ poller = "newStatCert"
    /\ IF cert.body # Absent
       THEN /\ poller' = "newStatKey" /\ lastCert' = cert.sig
            /\ UNCHANGED <<files, served, lastKey, local, control>>
       ELSE NewFails

NewStatKey ==
    /\ poller = "newStatKey"
    /\ IF key.body # Absent
       THEN /\ poller' = "newReadCert" /\ lastKey' = key.sig
            /\ UNCHANGED <<files, served, lastCert, local, control>>
       ELSE NewFails

NewReadCert ==
    /\ poller = "newReadCert"
    /\ IF cert.body # Absent
       THEN /\ poller' = "newReadKey" /\ readCert' = cert.body
            /\ UNCHANGED <<files, served, lastCert, lastKey, statCert, statKey, control>>
       ELSE NewFails

\* LoadX509KeyPair accepts a pair only if both parse and the key fits.
PairLoads == key.body \in Version /\ readCert = key.body

NewReadKey ==
    /\ poller = "newReadKey"
    /\ IF PairLoads
       THEN /\ served' = key.body
            /\ state' = "notStarted" /\ poller' = "off"
            /\ UNCHANGED <<files, lastCert, lastKey, local, stopClosed, cancelled, exited,
                           stopper>>
       ELSE NewFails

----------------------------------------------------------------------------
(* The polling goroutine: select, then reloadOnce.                          *)

Start ==
    /\ state = "notStarted"
    /\ state' = "running" /\ poller' = "idle"
    /\ UNCHANGED <<files, served, lastCert, lastKey, local, stopClosed, cancelled, exited,
                   stopper>>

Cancel ==
    /\ state # "none" /\ ~cancelled
    /\ cancelled' = TRUE
    /\ UNCHANGED <<files, served, lastCert, lastKey, poller, local, state, stopClosed,
                   exited, stopper>>

PollTick ==
    /\ Go("idle", "statCert")
    /\ UNCHANGED <<files, served, lastCert, lastKey, local, control>>

PollStatCert ==
    /\ poller = "statCert"
    /\ statCert' = cert.sig
    /\ poller' = IF cert.body # Absent THEN "statKey" ELSE "idle"
    /\ UNCHANGED <<files, served, lastCert, lastKey, statKey, readCert, control>>

PollStatKey ==
    /\ poller = "statKey"
    /\ statKey' = key.sig
    /\ poller' = IF key.body # Absent THEN "compare" ELSE "idle"
    /\ UNCHANGED <<files, served, lastCert, lastKey, statCert, readCert, control>>

PollCompare ==
    /\ poller = "compare"
    /\ poller' = IF statCert = lastCert /\ statKey = lastKey THEN "idle" ELSE "readCert"
    /\ UNCHANGED <<files, served, lastCert, lastKey, local, control>>

PollReadCert ==
    /\ poller = "readCert"
    /\ readCert' = cert.body
    /\ poller' = IF cert.body # Absent THEN "readKey" ELSE "idle"
    /\ UNCHANGED <<files, served, lastCert, lastKey, statCert, statKey, control>>

\* The pair is stored; a pair that does not load keeps the previous one.
PollReadKey ==
    /\ poller = "readKey"
    /\ IF PairLoads
       THEN poller' = "record" /\ served' = key.body
       ELSE poller' = "idle" /\ UNCHANGED served
    /\ UNCHANGED <<files, lastCert, lastKey, local, control>>

\* Mutant: the signatures are those of the files after the load.
PollRecordFresh ==
    /\ Go("record", "idle")
    /\ lastCert' = cert.sig /\ lastKey' = key.sig
    /\ UNCHANGED <<files, served, local, control>>

PollRecord ==
    /\ Go("record", "idle")
    /\ lastCert' = statCert /\ lastKey' = statKey
    /\ UNCHANGED <<files, served, local, control>>

\* The select of the loop may leave when stopCh is closed or ctx is done.
PollLeaves ==
    /\ poller = "idle" /\ (stopClosed \/ cancelled)
    /\ poller' = "leaving"
    /\ UNCHANGED <<files, served, lastCert, lastKey, local, control>>

\* Mutant: stoppedCh is left open when Stop has already marked the reloader.
PollExitsSilently ==
    /\ Go("leaving", "off")
    /\ exited' = (state = "running") /\ state' = "stopped"
    /\ UNCHANGED <<files, served, lastCert, lastKey, local, stopClosed, cancelled, stopper>>

\* Its deferred function marks the reloader stopped and closes stoppedCh.
PollExits ==
    /\ Go("leaving", "off")
    /\ state' = "stopped"
    /\ exited' = TRUE
    /\ UNCHANGED <<files, served, lastCert, lastKey, local, stopClosed, cancelled, stopper>>

----------------------------------------------------------------------------
(* Stop: under the mutex the state is changed; then stopCh is closed, once, *)
(* and the caller waits for the poller to exit.                             *)

StopCall(s) ==
    /\ stopper[s] = "out" /\ state # "none"
    /\ IF state = "notStarted"
       THEN stopper' = [stopper EXCEPT ![s] = "ignored"] /\ UNCHANGED state
       ELSE stopper' = [stopper EXCEPT ![s] = "closing"] /\ state' = "stopped"
    /\ UNCHANGED <<files, served, lastCert, lastKey, poller, local, stopClosed, cancelled,
                   exited>>

\* Mutant: only the first caller waits for the poller.
StopCloseImpatient(s) ==
    /\ stopper[s] = "closing"
    /\ stopper' = [stopper EXCEPT ![s] = IF stopClosed THEN "returned" ELSE "waiting"]
    /\ stopClosed' = TRUE
    /\ UNCHANGED <<files, served, lastCert, lastKey, poller, local, state, cancelled, exited>>

StopClose(s) ==
    /\ stopper[s] = "closing"
    /\ stopClosed' = TRUE
    /\ stopper' = [stopper EXCEPT ![s] = "waiting"]
    /\ UNCHANGED <<files, served, lastCert, lastKey, poller, local, state, cancelled, exited>>

StopReturn(s) ==
    /\ stopper[s] = "waiting" /\ exited
    /\ stopper' = [stopper EXCEPT ![s] = "returned"]
    /\ UNCHANGED <<files, served, lastCert, lastKey, poller, local, state, stopClosed,
                   cancelled, exited>>

New == NewStatCert \/ NewStatKey \/ NewReadCert \/ NewReadKey
Reload == PollStatCert \/ PollStatKey \/ PollCompare \/ PollReadCert \/ PollReadKey
          \/ PollRecord
Poll == PollTick \/ Reload \/ PollLeaves \/ PollExits
Stop(s) == StopCall(s) \/ StopClose(s) \/ StopReturn(s)

ReloadNext ==
    WriteCert \/ WriteKey \/ New \/ Start \/ Cancel \/ Poll \/ \E s \in Stopper : Stop(s)

ReloadSpec == ReloadInit /\ [][ReloadNext]_reloadVars

\* The poller runs, its ticker fires, and its select takes a closed channel at
\* some time although the ticker is ready again and again.
FairReload ==
    /\ ReloadSpec
    /\ WF_reloadVars(New) /\ WF_reloadVars(Reload) /\ WF_reloadVars(PollTick) /\ SF_reloadVars(PollLeaves)
    /\ WF_reloadVars(PollExits)
    /\ \A s \in Stopper : WF_reloadVars(StopClose(s)) /\ WF_reloadVars(StopReturn(s))

----------------------------------------------------------------------------
\* The comment in NewCertReloader: a replacement is never missed.  If the recorded
\* signatures are those of the files, the served pair is what the files hold; so
\* as long as it is not, the next poll sees a difference.
NoMissedChange ==
    served # NoPair /\ lastCert = cert.sig /\ lastKey = key.sig =>
        cert.body = served /\ key.body = served

\* After a Stop that found the poller started has returned, no reload is running
\* and none will start, since the reloader is one-shot: the cleanup of the server
\* may release what it uses.
StopWaits ==
    \A s \in Stopper : stopper[s] = "returned" => exited /\ poller = "off" /\ state = "stopped"

----------------------------------------------------------------------------
(* The inductive invariant behind NoMissedChange and StopWaits.            *)

Reloading == {"statKey", "compare", "readCert", "readKey", "record"}

\* Signatures only grow, and the ones at hand are never ahead of the files.
SigsOK ==
    /\ lastCert <= cert.sig /\ lastKey <= key.sig
    /\ statCert <= cert.sig /\ statKey <= key.sig
    /\ poller \in Reloading => lastCert <= statCert

\* Bytes that were read after a stat are those of the file as long as its
\* signature is the one of the stat.
ReadOK ==
    /\ poller = "readKey" /\ statCert = cert.sig => readCert = cert.body
    /\ poller = "newReadKey" /\ lastCert = cert.sig => readCert = cert.body
    /\ poller = "record" => /\ served # NoPair
                            /\ statCert = cert.sig => cert.body = served
                            /\ statKey = key.sig => key.body = served

FreshOK ==
    /\ served # NoPair /\ lastCert = cert.sig => cert.body = served
    /\ served # NoPair /\ lastKey = key.sig => key.body = served

ControlOK ==
    /\ poller \in Building => state = "none"
    /\ state \in {"none", "notStarted"} => poller \in Building \cup {"off"}
    /\ served # NoPair <=> state # "none"
    /\ exited => poller = "off" /\ state = "stopped"
    /\ \A s \in Stopper : stopper[s] \in {"closing", "waiting"} => state = "stopped"
    /\ \A s \in Stopper : stopper[s] = "returned" => exited

ReloadIInv == ReloadTypeOK /\ SigsOK /\ ReadOK /\ FreshOK /\ ControlOK

----------------------------------------------------------------------------
\* Once the files are left alone and hold a valid pair, that pair is served, for a
\* reloader that has been started and is not stopped.
Settled == cert.body \in Version /\ key.body = cert.body
EventuallyServed ==
    <>[](Settled /\ state = "running" /\ ~cancelled)
        => <>[](served = cert.body)

\* Stop never hangs, whether it races with other callers or with the context.
StopReturns == \A s \in Stopper : stopper[s] = "closing" ~> stopper[s] = "returned"
=============================================================================
