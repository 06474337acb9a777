------------------------------ MODULE Session ------------------------------
(***************************************************************************)
(* plugins/session over a server-side Store: concurrent requests of one    *)
(* browser, each with its own Session loaded from the store, changed by    *)
(* its handler and committed once, by the first write of the response or   *)
(* when the handler returns.  The store is the contract of store.go with   *)
(* errors; MemoryStore is the case that has none.  The cookie travels with *)
(* the request when it is sent, and responses arrive in any order.         *)
(*                                                                         *)
(* Every request runs once, so that a value, a flash message or a token is *)
(* known by the request that issued it: {} is none, {r} the one of r.      *)
(***************************************************************************)
EXTENDS Integers, FiniteSets

CONSTANTS
    Request,   \* requests of the browser
    MaxId,     \* bound on the ids that are minted
    MaxFlight, \* bound on the requests in flight
    MaxOps,    \* bound on the calls the handlers make on their sessions
    MaxFaults  \* bound on errors, panics and expiries

ASSUME SessionAssumption == 
    MaxId \in Nat /\ MaxFlight \in Nat /\ MaxOps \in Nat /\ MaxFaults \in Nat

\* What a cookie may carry: an id of generateID, or 0 for one that was never issued.
Planted == 0
Id == 1 .. MaxId
Cookie == Id \cup {Planted}

Value == {v \in SUBSET Request : \A p, q \in v : p = q}
Stored == [data : Value, flash : Value, csrf : Value]
Optional == {c \in SUBSET Cookie : \A i, j \in c : i = j}

VARIABLES
    present,   \* ids that have an entry in the store
    store,     \* the entries
    minted,    \* ids issued so far
    jar,       \* the cookie of the browser
    pc,        \* where each request is
    cookie,    \* the cookie it was sent with
    sess,      \* its Session
    committed, \* the commit of its sessionWriter has begun
    resume,    \* where the commit returns to
    sent,      \* the Set-Cookie of its response
    arrived,   \* the browser has seen that header
    failed,    \* an error was reported or the handler panicked
    ops,       \* calls the handlers may still make
    faults,    \* faults so far
    \* history
    got,       \* flash messages of other requests it consumed before its commit
    raised,    \* the first id it regenerated to before its commit, or 0
    fate,      \* what its commit set out to do
    saved,     \* ids that have ever been saved
    behind,    \* requests whose entry changed after they loaded it
    stale,     \* one of them has committed all the same
    dead,      \* ids of sessions that ended undisturbed: nobody else held or changed them
    want,      \* the session as if the handlers had run one after another
    serial     \* they have

backend == <<present, store, saved>>
history == <<got, raised, fate, dead, want, serial>>
fallout == <<behind, stale>>
request == <<cookie, sess, committed, resume, sent, failed>>
vars == <<backend, minted, jar, pc, request, arrived, ops, faults, history, fallout>>

Empty == [data |-> {}, flash |-> {}, csrf |-> {}]
NoSession ==
    [id |-> Planted, oldID |-> {}, content |-> Empty, dirty |-> FALSE,
     consumed |-> FALSE, regenerated |-> FALSE, destroyed |-> FALSE]
SessionType ==
    [id : Cookie, oldID : Optional, content : Stored, dirty : BOOLEAN,
     consumed : BOOLEAN, regenerated : BOOLEAN, destroyed : BOOLEAN]
NoHeader == [set |-> FALSE, jar |-> {}]

Steps == {"saveOld", "save", "destroyOld", "destroyID"}

TypeOK ==
    /\ present \subseteq Cookie /\ saved \subseteq Cookie
    /\ store \in [Cookie -> Stored]
    /\ minted \in 0 .. MaxId
    /\ jar \in Optional
    /\ pc \in [Request -> {"idle", "sent", "handler", "done"} \cup Steps]
    /\ cookie \in [Request -> Optional]
    /\ sess \in [Request -> SessionType]
    /\ ops \in 0 .. MaxOps /\ faults \in 0 .. MaxFaults
    /\ committed \in [Request -> BOOLEAN]
    /\ resume \in [Request -> {"handler", "done"}]
    /\ sent \in [Request -> [set : BOOLEAN, jar : Optional]]
    /\ arrived \in [Request -> BOOLEAN]
    /\ failed \in [Request -> BOOLEAN]
    /\ got \in [Request -> SUBSET Request]
    /\ raised \in [Request -> Cookie]
    /\ fate \in [Request -> {"none", "save", "destroy"}]
    /\ behind \subseteq Request /\ stale \in BOOLEAN
    /\ dead \subseteq Cookie
    /\ want \in Stored /\ serial \in BOOLEAN

Init ==
    /\ present = {} /\ saved = {} /\ store = [i \in Cookie |-> Empty]
    /\ minted = 0
    /\ jar \in {{}, {Planted}}
    /\ pc = [r \in Request |-> "idle"]
    /\ cookie = [r \in Request |-> {}]
    /\ sess = [r \in Request |-> NoSession]
    /\ ops = MaxOps /\ faults = 0
    /\ committed = [r \in Request |-> FALSE]
    /\ resume = [r \in Request |-> "done"]
    /\ sent = [r \in Request |-> NoHeader]
    /\ arrived = [r \in Request |-> FALSE]
    /\ failed = [r \in Request |-> FALSE]
    /\ got = [r \in Request |-> {}]
    /\ raised = [r \in Request |-> Planted]
    /\ fate = [r \in Request |-> "none"]
    /\ behind = {} /\ stale = FALSE
    /\ dead = {} /\ want = Empty /\ serial = TRUE

----------------------------------------------------------------------------
\* The browser (external).

\* A request is sent with the cookie of the jar; what overlaps is no longer serial.
Send(r) ==
    /\ pc[r] = "idle"
    /\ Cardinality({q \in Request : pc[q] \notin {"idle", "done"}}) < MaxFlight
    /\ pc' = [pc EXCEPT ![r] = "sent"]
    /\ cookie' = [cookie EXCEPT ![r] = jar]
    /\ serial' = (serial /\ \A q \in Request \ {r} :
                    pc[q] = "idle" \/ (pc[q] = "done" /\ (sent[q].set => arrived[q])))
    /\ UNCHANGED <<backend, minted, jar, sess, committed, resume, sent, arrived, failed,
                   ops, faults, got, raised, fate, dead, want, fallout>>

\* The header of the response arrives, perhaps while the handler still writes the body.
Receive(r) ==
    /\ sent[r].set /\ ~arrived[r]
    /\ pc[r] \in {"handler", "done"}
    /\ arrived' = [arrived EXCEPT ![r] = TRUE]
    /\ jar' = sent[r].jar
    /\ UNCHANGED <<backend, minted, pc, request, ops, faults, history, fallout>>

----------------------------------------------------------------------------
\* What happens to r goes well, or it is one of the faults.
Outcome(r, ok) ==
    /\ ok \/ faults < MaxFaults
    /\ failed' = [failed EXCEPT ![r] = failed[r] \/ ~ok]
    /\ faults' = IF ok THEN faults ELSE faults + 1

\* The commit of r is over, or r is: the Session of a request goes with it.
Leave(r, next) ==
    /\ sess' = IF next = "done" THEN [sess EXCEPT ![r] = NoSession] ELSE sess
    /\ cookie' = IF next = "done" THEN [cookie EXCEPT ![r] = {}] ELSE cookie

\* Loading.

\* Mutant: the token is not restored.
FromStoredNoToken(id) == [NoSession EXCEPT !.id = id, !.content = [store[id] EXCEPT !.csrf = {}]]

freshSession(id) == [NoSession EXCEPT !.id = id]
sessionFromStored(id) == [NoSession EXCEPT !.id = id, !.content = store[id]]

\* Mutant: a cookie without an entry keeps its id.
ReusedId(r) == IF cookie[r] \ present # {} THEN cookie[r] \ present ELSE {minted + 1}

\* The id of a new session: never the one the client sent.
FreshId(r) == {minted + 1}

\* Store.Get finds the entry.
LoadFound(r) ==
    /\ pc[r] = "sent"
    /\ \E i \in cookie[r] \cap present :
          sess' = [sess EXCEPT ![r] = sessionFromStored(i)]
    /\ pc' = [pc EXCEPT ![r] = "handler"]
    /\ UNCHANGED <<backend, minted, jar, cookie, committed, resume, sent, arrived, failed,
                   ops, faults, history, fallout>>

\* No cookie, or none with an entry (err = FALSE); or Store.Get failed and the error
\* handler lets the request go on.
LoadFresh(r, err) ==
    /\ pc[r] = "sent"
    /\ err \/ cookie[r] \cap present = {}
    /\ err => cookie[r] # {}
    /\ minted < MaxId
    /\ minted' = minted + 1
    /\ \E i \in FreshId(r) : sess' = [sess EXCEPT ![r] = freshSession(i)]
    /\ pc' = [pc EXCEPT ![r] = "handler"]
    /\ Outcome(r, ~err)
    /\ UNCHANGED <<backend, jar, cookie, committed, resume, sent, arrived, ops, history,
                   fallout>>

\* Store.Get failed and the error handler stops the request, or no id can be generated.
LoadStop(r) ==
    /\ pc[r] = "sent"
    /\ pc' = [pc EXCEPT ![r] = "done"]
    /\ Outcome(r, FALSE)
    /\ Leave(r, "done")
    /\ UNCHANGED <<backend, minted, jar, committed, resume, sent, arrived,
                   ops, history, fallout>>

----------------------------------------------------------------------------
\* The handler.  Every call works on the Session; one that comes after the commit is
\* not seen by it.
Calls(r) ==
    /\ pc[r] = "handler" /\ ops > 0
    /\ ops' = ops - 1
    /\ UNCHANGED <<backend, pc, jar, cookie, committed, resume, sent, arrived, failed,
                   faults, fate, dead, serial, fallout>>

Counts(r) == ~committed[r]

\* A call that changes one part of the content to v and marks the session.
Change(r, part, v, mark) ==
    /\ ~sess[r].destroyed
    /\ sess' = [sess EXCEPT ![r].content[part] = v, ![r][mark] = TRUE]
    /\ want' = IF Counts(r) THEN [want EXCEPT ![part] = v] ELSE want

Set(r) ==
    /\ Calls(r)
    /\ Change(r, "data", {r}, "dirty")
    /\ UNCHANGED <<minted, got, raised>>

\* Delete of a key that is not there does nothing.
Delete(r) ==
    /\ Calls(r)
    /\ sess[r].content.data # {}
    /\ Change(r, "data", {}, "dirty")
    /\ UNCHANGED <<minted, got, raised>>

Flash(r) ==
    /\ Calls(r)
    /\ Change(r, "flash", {r}, "dirty")
    /\ UNCHANGED <<minted, got, raised>>

ConsumeFlash(r) ==
    /\ Calls(r)
    /\ sess[r].content.flash # {}
    /\ Change(r, "flash", {}, "consumed")
    /\ got' = IF Counts(r) THEN [got EXCEPT ![r] = @ \cup (sess[r].content.flash \ {r})]
              ELSE got
    /\ UNCHANGED <<minted, raised>>

\* The first call issues the token.
CSRFToken(r) ==
    /\ Calls(r)
    /\ sess[r].content.csrf = {}
    /\ Change(r, "csrf", {r}, "dirty")
    /\ UNCHANGED <<minted, got, raised>>

\* Mutant: the session is written back under the id it came with.
KeptId(s) == [s EXCEPT !.regenerated = TRUE, !.dirty = TRUE]

Regenerated(s) ==
    [s EXCEPT !.oldID = IF @ = {} THEN {s.id} ELSE @, !.id = minted + 1,
              !.regenerated = TRUE, !.dirty = TRUE]

\* A new id; the one the request came with is kept to be deleted.
Regenerate(r) ==
    /\ Calls(r)
    /\ ~sess[r].destroyed /\ minted < MaxId
    /\ minted' = minted + 1
    /\ sess' = [sess EXCEPT ![r] = Regenerated(@)]
    /\ raised' = IF Counts(r) /\ raised[r] = Planted
                 THEN [raised EXCEPT ![r] = minted + 1] ELSE raised
    /\ UNCHANGED <<got, want>>

Destroy(r) ==
    /\ Calls(r)
    /\ sess' = [sess EXCEPT ![r].destroyed = TRUE]
    /\ want' = IF Counts(r) THEN Empty ELSE want
    /\ UNCHANGED <<minted, got, raised>>

----------------------------------------------------------------------------
\* The commit.

\* Mutant: a consumed flash message does not force a save.
ShouldSaveDirty(s) == s.dirty \/ s.regenerated
shouldSave(s) == s.dirty \/ s.consumed \/ s.regenerated

\* Mutant: destroy forgets the id that Regenerate put aside.
PlanCurrentOnly(s, next) ==
    CASE s.destroyed -> "destroyID"
      [] ~s.destroyed /\ shouldSave(s) -> IF s.oldID # {} THEN "saveOld" ELSE "save"
      [] OTHER -> next

\* makeCommit: destroy or save, in either case the old id first; or nothing.
Plan(s, next) ==
    CASE s.destroyed -> IF s.oldID # {} THEN "destroyOld" ELSE "destroyID"
      [] ~s.destroyed /\ shouldSave(s) -> IF s.oldID # {} THEN "saveOld" ELSE "save"
      [] OTHER -> next

Commit(r, next) ==
    /\ ~committed[r]
    /\ committed' = [committed EXCEPT ![r] = TRUE]
    /\ pc' = [pc EXCEPT ![r] = Plan(sess[r], next)]
    /\ resume' = [resume EXCEPT ![r] = IF pc'[r] \in Steps THEN next ELSE @]
    /\ fate' = [fate EXCEPT ![r] = IF sess[r].destroyed THEN "destroy"
                                   ELSE IF shouldSave(sess[r]) THEN "save" ELSE "none"]
    /\ Leave(r, pc'[r])

\* The first WriteHeader, Write, Flush or Hijack of the handler.
Write(r) ==
    /\ pc[r] = "handler"
    /\ Commit(r, "handler")
    /\ UNCHANGED <<backend, minted, jar, sent, arrived, failed, ops, faults, got,
                   raised, dead, want, serial, fallout>>

\* The handler returns, with or without an error; sync.Once makes a second commit a no-op.
Return(r) ==
    /\ pc[r] = "handler"
    /\ \/ Commit(r, "done")
       \/ /\ committed[r]
          /\ pc' = [pc EXCEPT ![r] = "done"]
          /\ Leave(r, "done")
          /\ UNCHANGED <<committed, resume, fate>>
    /\ UNCHANGED <<backend, minted, jar, sent, arrived, failed, ops, faults, got,
                   raised, dead, want, serial, fallout>>

\* The handler panics: the fallback of the middleware is not reached.
Panic(r) ==
    /\ pc[r] = "handler"
    /\ pc' = [pc EXCEPT ![r] = "done"]
    /\ Outcome(r, committed[r])
    /\ Leave(r, "done")
    /\ UNCHANGED <<backend, minted, jar, committed, resume, sent, arrived,
                   ops, history, fallout>>

\* Requests that still hold a session under one of ids and may write it.
Holders(ids) ==
    {q \in Request : /\ pc[q] \in Steps \cup {"handler"}
                     /\ pc[q] = "handler" => ~committed[q]
                     /\ ({sess[q].id} \cup sess[q].oldID) \cap ids # {}}

\* The entries of ids change under those that loaded them, and r, if it is one of them,
\* has acted on what it loaded.
Disturb(r, ids) ==
    /\ behind' = (behind \cup Holders(ids)) \ {r}
    /\ stale' = (stale \/ r \in behind)

\* Each call of the store takes effect or not, and an error is reported to
\* SaveErrorHandler; the reply of a remote store may be lost after the effect.

\* The delete of the old id; whatever it returns the commit goes on.
DeleteOld(r, ok, effect) ==
    /\ pc[r] \in {"saveOld", "destroyOld"}
    /\ ok => effect
    /\ present' = IF effect THEN present \ sess[r].oldID ELSE present
    /\ pc' = [pc EXCEPT ![r] = IF @ = "saveOld" THEN "save" ELSE "destroyID"]
    /\ Disturb(r, sess[r].oldID)
    /\ Outcome(r, ok)
    /\ UNCHANGED <<store, saved, minted, jar, cookie, sess, committed, resume, sent,
                   arrived, ops, history>>

\* Mutant: an error of the delete returns before the cookie is expired.
ExpiredOnSuccess(ok) == [set |-> ok, jar |-> {}]
ExpireCookie(ok) == [set |-> TRUE, jar |-> {}]

\* The end of destroy: the current id goes, and the cookie is expired in any case.
DeleteID(r, ok, effect) ==
    LET ids == {sess[r].id} \cup sess[r].oldID IN
    /\ pc[r] = "destroyID"
    /\ ok => effect
    /\ present' = IF effect THEN present \ {sess[r].id} ELSE present
    /\ sent' = [sent EXCEPT ![r] = ExpireCookie(ok)]
    /\ pc' = [pc EXCEPT ![r] = resume[r]]
    /\ Disturb(r, {sess[r].id})
    /\ Outcome(r, ok)
    /\ dead' = IF ok /\ ~failed[r] /\ Holders(ids) = {r} /\ r \notin behind
               THEN dead \cup ids ELSE dead
    /\ Leave(r, resume[r])
    /\ resume' = [resume EXCEPT ![r] = "done"]
    /\ UNCHANGED <<store, saved, minted, jar, committed, arrived, ops,
                   got, raised, fate, want, serial>>

SessionCookie(r, ok) == IF ok THEN [set |-> TRUE, jar |-> {sess[r].id}] ELSE NoHeader

\* The end of save: toStored under the current id, and on success the cookie.
Save(r, ok, effect) ==
    LET id == sess[r].id IN
    /\ pc[r] = "save"
    /\ ok => effect
    /\ IF effect
       THEN /\ present' = present \cup {id}
            /\ store' = [store EXCEPT ![id] = sess[r].content]
            /\ saved' = saved \cup {id}
       ELSE UNCHANGED backend
    /\ sent' = [sent EXCEPT ![r] = SessionCookie(r, ok)]
    /\ pc' = [pc EXCEPT ![r] = resume[r]]
    /\ Disturb(r, {id})
    /\ Outcome(r, ok)
    /\ Leave(r, resume[r])
    /\ resume' = [resume EXCEPT ![r] = "done"]
    /\ UNCHANGED <<minted, jar, committed, arrived, ops, history>>

\* The TTL of an entry passes: Get no longer returns it, the janitor removes it.
Expire(i) ==
    /\ i \in present /\ faults < MaxFaults
    /\ faults' = faults + 1
    /\ present' = present \ {i}
    /\ behind' = behind \cup Holders({i})
    /\ UNCHANGED <<store, saved, minted, jar, pc, request, arrived, ops, history, stale>>

Handler(r) ==
    Set(r) \/ Delete(r) \/ Flash(r) \/ ConsumeFlash(r) \/ CSRFToken(r) \/ Regenerate(r)
    \/ Destroy(r) \/ Write(r) \/ Return(r) \/ Panic(r)

Store(r) ==
    \E ok, effect \in BOOLEAN :
        DeleteOld(r, ok, effect) \/ DeleteID(r, ok, effect) \/ Save(r, ok, effect)

Next ==
    \/ \E r \in Request :
          \/ Send(r) \/ Receive(r)
          \/ LoadFound(r) \/ LoadStop(r) \/ \E err \in BOOLEAN : LoadFresh(r, err)
          \/ Handler(r) \/ Store(r)
    \/ \E i \in Cookie : Expire(i)

Spec == Init /\ [][Next]_vars

----------------------------------------------------------------------------
\* No entry exists under an id the server did not mint: a cookie that was planted in
\* the browser is never adopted, whatever is stored, deleted or expires meanwhile.
NoFixation == \A i \in present : i # Planted /\ i <= minted

\* What a handler stores together with Regenerate is readable only under ids minted
\* from then on, also when other requests still save under the old id.
ElevationFresh ==
    \A i \in present : \A r \in store[i].data : raised[r] # Planted => i >= raised[r]

\* A session that ended while no other request held it or saved it in between stays
\* ended: requests already sent with its cookie, and late responses that put the cookie
\* back, do not revive it.
LogoutSticks == dead \cap present = {}

\* The response keeps the promise of the commit: destroy always expires the cookie; an
\* id reaches the browser only once its entry was saved; a commit that should have
\* saved and sent no cookie reported an error.
ResponseTells ==
    \A r \in Request : committed[r] /\ pc[r] \in {"handler", "done"} =>
        /\ fate[r] = "destroy" => sent[r].set /\ sent[r].jar = {}
        /\ fate[r] = "save" => (sent[r].set /\ sent[r].jar # {}) \/ failed[r]
        /\ sent[r].jar \subseteq saved

\* While nothing fails, a flash message is consumed by two requests only if one of them
\* or another request committed over an entry that had changed since it was loaded.
FlashOnce ==
    \A r, q \in Request :
        /\ r # q /\ got[r] \cap got[q] # {}
        /\ \A p \in {r, q} : committed[p] /\ pc[p] \in {"handler", "done"}
        /\ \A p \in Request : ~failed[p]
        => stale

\* Requests that come one after another, without errors or expiry, see one session: the
\* cookie of the browser leads to exactly what their handlers stored before their
\* responses began.
SerialSession ==
    LET quiet == \A r \in Request :
            pc[r] \in {"idle", "done"} /\ (sent[r].set => arrived[r])
    IN  serial /\ faults = 0 /\ quiet =>
            \/ \E i \in jar : i \in present /\ store[i] = want
            \/ jar \cap present = {} /\ want = Empty
=============================================================================
