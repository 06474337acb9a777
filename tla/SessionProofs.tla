--------------------------- MODULE SessionProofs ---------------------------
(***************************************************************************)
(* Proofs about Session, for any set of requests and any bounds.  IInv is  *)
(* the common invariant: types, minted ids, privileges under fresh ids,    *)
(* ended sessions and the promise of the response.  Two more are inductive *)
(* relative to it: SerialOK for requests that come one after another, and  *)
(* IssuedOK with FlashOK for flash messages.  The steps of a request are   *)
(* summarised first (Edited, Committing, Loading, Ending), so that each    *)
(* invariant looks at a kind of step once.                                 *)
(***************************************************************************)
EXTENDS Session, TLAPS

----------------------------------------------------------------------------
\* Members of the types.
LEMMA NoSessionType == NoSession \in SessionType
<1>1. {} \in Value BY DEF Value
<1>2. Empty \in Stored BY <1>1 DEF Empty, Stored
<1>3. {} \in Optional BY DEF Optional
<1>4. Planted \in Cookie BY DEF Cookie, Planted
<1> QED BY <1>2, <1>3, <1>4 DEF NoSession, SessionType

LEMMA ValueMembers == {} \in Value /\ \A r \in Request : {r} \in Value
BY DEF Value

LEMMA OptionalMembers == {} \in Optional /\ \A i \in Cookie : {i} \in Optional
BY DEF Optional

----------------------------------------------------------------------------
\* What a Session leaves behind when it is committed as it is.
Shown(s) == IF s.destroyed THEN Empty ELSE s.content

\* What the calls of a handler may do to a Session, apart from Regenerate.
Edited(r) ==
    /\ pc[r] = "handler"
    /\ UNCHANGED <<present, store, saved, minted, jar, pc, cookie, committed, resume, sent,
                   arrived, failed, faults, raised, fate, dead, serial, behind, stale>>
    /\ ops' \in 0 .. MaxOps
    /\ got' \in [Request -> SUBSET Request] /\ want' \in Stored
    /\ sess' \in [Request -> SessionType]
    /\ \A q \in Request \ {r} : sess'[q] = sess[q]
    /\ sess'[r].id = sess[r].id /\ sess'[r].oldID = sess[r].oldID
    /\ sess'[r].content.data \subseteq sess[r].content.data \cup {r}
    /\ sess'[r].destroyed \/ shouldSave(sess'[r])
    /\ committed[r] => want' = want
    /\ ~committed[r] /\ want = Shown(sess[r]) => want' = Shown(sess'[r])
    /\ \A q \in Request \ {r} : got'[q] = got[q]
    /\ committed[r] => got' = got
    /\ (sess'[r].content.flash \cup got'[r]) \ {r} \subseteq sess[r].content.flash \cup got[r]
    /\ r \notin got[r] => r \notin got'[r]
    /\ r \notin got[r] /\ sess[r].content.flash \cap got[r] = {} =>
          committed[r] \/ sess'[r].content.flash \cap got'[r] = {}
    /\ got'[r] # got[r] \/ sess[r].consumed => sess'[r].consumed

LEMMA ChangeEdits ==
    ASSUME TypeOK, NEW r \in Request, NEW v \in Value, r \in v \/ v = {},
           NEW part \in {"data", "flash", "csrf"}, NEW mark \in {"dirty", "consumed"},
           Calls(r), Change(r, part, v, mark), UNCHANGED <<minted, raised>>,
           \/ got' = got
           \/ /\ part = "flash" /\ v = {} /\ mark = "consumed"
              /\ got' = IF Counts(r)
                        THEN [got EXCEPT ![r] = @ \cup (sess[r].content.flash \ {r})]
                        ELSE got
    PROVE  Edited(r)
<1> DEFINE t == [sess[r] EXCEPT !.content[part] = v, ![mark] = TRUE]
<1>1. sess[r] \in SessionType /\ sess \in [Request -> SessionType] BY DEF TypeOK
<1>2. sess' = [sess EXCEPT ![r] = t] BY DEF Change
<1>3. /\ t \in SessionType /\ t.id = sess[r].id /\ t.oldID = sess[r].oldID
      /\ t.content.data = IF part = "data" THEN v ELSE sess[r].content.data
      /\ t.destroyed = sess[r].destroyed /\ (t.dirty \/ t.consumed)
      /\ t.content = [sess[r].content EXCEPT ![part] = v]
      /\ t.content.flash = IF part = "flash" THEN v ELSE sess[r].content.flash
      /\ mark = "consumed" \/ sess[r].consumed => t.consumed
  <2>1. CASE part = "data" /\ mark = "dirty" BY <1>1, <2>1 DEF SessionType, Stored
  <2>2. CASE part = "data" /\ mark = "consumed" BY <1>1, <2>2 DEF SessionType, Stored
  <2>3. CASE part = "flash" /\ mark = "dirty" BY <1>1, <2>3 DEF SessionType, Stored
  <2>4. CASE part = "flash" /\ mark = "consumed" BY <1>1, <2>4 DEF SessionType, Stored
  <2>5. CASE part = "csrf" /\ mark = "dirty" BY <1>1, <2>5 DEF SessionType, Stored
  <2>6. CASE part = "csrf" /\ mark = "consumed" BY <1>1, <2>6 DEF SessionType, Stored
  <2> QED BY <2>1, <2>2, <2>3, <2>4, <2>5, <2>6
<1> HIDE DEF t
<1>4. sess'[r] = t /\ sess' \in [Request -> SessionType]
      /\ \A q \in Request \ {r} : sess'[q] = sess[q]
  BY <1>1, <1>2, <1>3
<1>5. v \subseteq {r} BY DEF Value
<1>6. want' \in Stored BY DEF Change, TypeOK, Stored
<1>7. ops' \in 0 .. MaxOps BY SessionAssumption DEF Calls, TypeOK
<1>8. sess'[r].destroyed \/ shouldSave(sess'[r]) BY <1>3, <1>4 DEF shouldSave
<1>9. /\ committed[r] => want' = want
      /\ ~committed[r] /\ want = Shown(sess[r]) => want' = Shown(sess'[r])
  BY <1>3, <1>4 DEF Change, Counts, Shown
<1>10. sess[r].content.flash \subseteq Request
  BY <1>1 DEF SessionType, Stored, Value
<1>11. /\ got' \in [Request -> SUBSET Request]
       /\ \A q \in Request \ {r} : got'[q] = got[q]
       /\ committed[r] => got' = got
       /\ got'[r] = got[r] \/ (part = "flash" /\ v = {} /\ mark = "consumed"
                               /\ got'[r] = got[r] \cup (sess[r].content.flash \ {r}))
  BY <1>10 DEF TypeOK, Counts
<1>12. /\ (sess'[r].content.flash \cup got'[r]) \ {r} \subseteq sess[r].content.flash \cup got[r]
       /\ r \notin got[r] => r \notin got'[r]
       /\ r \notin got[r] /\ sess[r].content.flash \cap got[r] = {} =>
             committed[r] \/ sess'[r].content.flash \cap got'[r] = {}
       /\ got'[r] # got[r] \/ sess[r].consumed => sess'[r].consumed
  <2>1. sess'[r].content.flash = IF part = "flash" THEN v ELSE sess[r].content.flash
    BY <1>3, <1>4
  <2>2. mark = "consumed" \/ sess[r].consumed => sess'[r].consumed BY <1>3, <1>4
  <2>3. CASE got'[r] = got[r] BY <1>5, <2>1, <2>2, <2>3
  <2>4. CASE got'[r] # got[r]
    <3>1. /\ sess'[r].content.flash = {} /\ sess'[r].consumed
          /\ got'[r] = got[r] \cup (sess[r].content.flash \ {r})
      BY <1>11, <2>1, <2>2, <2>4
    <3> QED BY <3>1
  <2> QED BY <2>3, <2>4
<1> QED
  BY <1>3, <1>4, <1>5, <1>6, <1>7, <1>8, <1>9, <1>11, <1>12
  DEF Edited, Calls, backend, fallout

LEMMA HandlerEdits ==
    ASSUME TypeOK, NEW r \in Request,
           \/ Set(r) \/ Delete(r) \/ Flash(r) \/ ConsumeFlash(r) \/ CSRFToken(r)
           \/ Destroy(r)
    PROVE  Edited(r)
<1>1. CASE Set(r) BY <1>1, ChangeEdits, ValueMembers DEF Set, TypeOK
<1>2. CASE Delete(r) BY <1>2, ChangeEdits, ValueMembers DEF Delete, TypeOK
<1>3. CASE Flash(r) BY <1>3, ChangeEdits, ValueMembers DEF Flash, TypeOK
<1>4. CASE ConsumeFlash(r)
  BY <1>4, ChangeEdits, ValueMembers DEF ConsumeFlash
<1>5. CASE CSRFToken(r) BY <1>5, ChangeEdits, ValueMembers DEF CSRFToken, TypeOK
<1>6. CASE Destroy(r)
  <2> DEFINE t == [sess[r] EXCEPT !.destroyed = TRUE]
  <2>1. sess[r] \in SessionType /\ t \in SessionType
    <3>1. sess[r] \in SessionType BY DEF TypeOK
    <3> QED BY <3>1 DEF SessionType
  <2>2. sess' = [sess EXCEPT ![r] = t] BY <1>6 DEF Destroy
  <2>3. sess' \in [Request -> SessionType] BY <2>1, <2>2 DEF TypeOK
  <2>4. /\ sess'[r].id = sess[r].id /\ sess'[r].oldID = sess[r].oldID
        /\ sess'[r].content = sess[r].content /\ sess'[r].consumed = sess[r].consumed
        /\ \A q \in Request \ {r} : sess'[q] = sess[q]
    BY <1>6 DEF Destroy, TypeOK, SessionType
  <2>5. Empty \in Stored BY ValueMembers DEF Empty, Stored
  <2>6. want' \in Stored BY <1>6, <2>5 DEF Destroy, TypeOK
  <2>7. ops' \in 0 .. MaxOps BY <1>6, SessionAssumption DEF Destroy, Calls, TypeOK
  <2>8. sess'[r].destroyed BY <2>1, <2>2 DEF TypeOK, SessionType
  <2>9. want' = IF committed[r] THEN want ELSE Empty BY <1>6 DEF Destroy, Counts
  <2> QED
    BY <1>6, <2>3, <2>4, <2>6, <2>7, <2>8, <2>9
    DEF Shown, Edited, Destroy, Calls, backend, fallout, TypeOK
<1> QED BY <1>1, <1>2, <1>3, <1>4, <1>5, <1>6

\* Regenerate only changes ids.
LEMMA RegenerateEdits ==
    ASSUME TypeOK, NEW r \in Request, Regenerate(r)
    PROVE  /\ sess' \in [Request -> SessionType]
           /\ \A q \in Request \ {r} : sess'[q] = sess[q]
           /\ sess'[r].id = minted + 1 /\ minted + 1 \in Id
           /\ sess'[r].oldID = IF sess[r].oldID = {} THEN {sess[r].id} ELSE sess[r].oldID
           /\ sess'[r].content = sess[r].content
<1>1. minted + 1 \in Id /\ minted + 1 \in Cookie
  BY SessionAssumption DEF Regenerate, TypeOK, Id, Cookie
<1>2. sess[r] \in SessionType /\ sess[r].id \in Cookie BY DEF TypeOK, SessionType
<1>3. Regenerated(sess[r]) \in SessionType
      /\ Regenerated(sess[r]).id = minted + 1
      /\ Regenerated(sess[r]).content = sess[r].content
      /\ Regenerated(sess[r]).oldID =
            IF sess[r].oldID = {} THEN {sess[r].id} ELSE sess[r].oldID
  BY <1>1, <1>2, OptionalMembers DEF Regenerated, SessionType
<1> QED BY <1>1, <1>3 DEF Regenerate, TypeOK

\* The session of r goes with it when the request is over.
LEMMA LeaveFrame ==
    ASSUME TypeOK, NEW r \in Request, NEW next, Leave(r, next)
    PROVE  /\ sess' \in [Request -> SessionType] /\ cookie' \in [Request -> Optional]
           /\ \A q \in Request \ {r} : sess'[q] = sess[q]
           /\ sess'[r] = IF next = "done" THEN NoSession ELSE sess[r]
BY NoSessionType, OptionalMembers DEF Leave, TypeOK

\* The commit that a write or the return of the handler begins.
Committing(r) ==
    /\ pc[r] = "handler"
    /\ pc'[r] \in Steps \cup {"handler", "done"}
    /\ pc' = [pc EXCEPT ![r] = pc'[r]]
    /\ committed' = [committed EXCEPT ![r] = TRUE]
    /\ committed[r] => pc'[r] = "done" /\ fate' = fate
    /\ resume' \in [Request -> {"handler", "done"}]
    /\ fate' \in [Request -> {"none", "save", "destroy"}]
    /\ \A q \in Request \ {r} : fate'[q] = fate[q]
    /\ pc'[r] \in {"saveOld", "save"} => fate'[r] = "save"
    /\ pc'[r] \in {"destroyOld", "destroyID"} => fate'[r] = "destroy"
    /\ pc'[r] \in {"handler", "done"} /\ ~committed[r] => fate'[r] = "none"
    /\ pc'[r] \in {"save", "destroyID"} => sess[r].oldID = {}
    /\ pc'[r] \in {"saveOld", "destroyOld"} => sess[r].oldID # {}
    /\ pc'[r] \in {"saveOld", "save"} => ~sess[r].destroyed
    /\ pc'[r] \in {"destroyOld", "destroyID"} => sess[r].destroyed
    /\ pc'[r] \in {"handler", "done"} /\ ~committed[r] =>
          ~sess[r].destroyed /\ ~shouldSave(sess[r])
    /\ sess' \in [Request -> SessionType] /\ cookie' \in [Request -> Optional]
    /\ \A q \in Request \ {r} : sess'[q] = sess[q]
    /\ sess'[r] = IF pc'[r] = "done" THEN NoSession ELSE sess[r]
    /\ UNCHANGED <<present, store, saved, minted, jar, sent, arrived, failed, ops, faults,
                   got, raised, dead, want, serial, behind, stale>>

LEMMA CommitFrame ==
    ASSUME TypeOK, NEW r \in Request, pc[r] = "handler",
           NEW next \in {"handler", "done"}, Commit(r, next),
           UNCHANGED <<backend, minted, jar, sent, arrived, failed, ops, faults, got,
                       raised, dead, want, serial, fallout>>
    PROVE  Committing(r)
<1>1. pc'[r] = Plan(sess[r], next) /\ pc' = [pc EXCEPT ![r] = pc'[r]]
  BY DEF Commit, TypeOK
<1>2. sess[r].destroyed \in BOOLEAN BY DEF TypeOK, SessionType
<1>3. /\ Plan(sess[r], next) \in Steps \cup {"handler", "done"}
      /\ Plan(sess[r], next) \in {"saveOld", "save"} =>
            ~sess[r].destroyed /\ shouldSave(sess[r])
      /\ Plan(sess[r], next) \in {"destroyOld", "destroyID"} => sess[r].destroyed
      /\ Plan(sess[r], next) \in {"save", "destroyID"} => sess[r].oldID = {}
      /\ Plan(sess[r], next) \in {"saveOld", "destroyOld"} => sess[r].oldID # {}
      /\ Plan(sess[r], next) \in {"handler", "done"} =>
            ~sess[r].destroyed /\ ~shouldSave(sess[r])
  BY <1>2 DEF Plan, Steps
<1>4. /\ fate' \in [Request -> {"none", "save", "destroy"}]
      /\ \A q \in Request \ {r} : fate'[q] = fate[q]
      /\ fate'[r] = IF sess[r].destroyed THEN "destroy"
                    ELSE IF shouldSave(sess[r]) THEN "save" ELSE "none"
  BY DEF Commit, TypeOK
<1>5. resume' \in [Request -> {"handler", "done"}] BY DEF Commit, TypeOK
<1>6. /\ sess' \in [Request -> SessionType] /\ cookie' \in [Request -> Optional]
      /\ \A q \in Request \ {r} : sess'[q] = sess[q]
      /\ sess'[r] = IF pc'[r] = "done" THEN NoSession ELSE sess[r]
  BY LeaveFrame DEF Commit
<1> QED
  BY <1>1, <1>3, <1>4, <1>5, <1>6 DEF Committing, Commit, backend, fallout

LEMMA HandlerCommits ==
    ASSUME TypeOK, NEW r \in Request, Write(r) \/ Return(r)
    PROVE  Committing(r)
<1>1. CASE Write(r) BY <1>1, CommitFrame DEF Write
<1>2. CASE Return(r) /\ Commit(r, "done") BY <1>2, CommitFrame DEF Return
<1>3. CASE Return(r) /\ ~Commit(r, "done")
  <2>1. /\ pc[r] = "handler" /\ committed[r] /\ pc' = [pc EXCEPT ![r] = "done"]
        /\ Leave(r, "done") /\ UNCHANGED <<committed, resume, fate>>
        /\ UNCHANGED <<backend, minted, jar, sent, arrived, failed, ops, faults, got,
                       raised, dead, want, serial, fallout>>
    BY <1>3 DEF Return
  <2>2. pc'[r] = "done" /\ pc' = [pc EXCEPT ![r] = pc'[r]] BY <2>1 DEF TypeOK
  <2>3. committed' = [committed EXCEPT ![r] = TRUE] BY <2>1 DEF TypeOK
  <2>4. /\ sess' \in [Request -> SessionType] /\ cookie' \in [Request -> Optional]
        /\ \A q \in Request \ {r} : sess'[q] = sess[q]
        /\ sess'[r] = NoSession
    BY <2>1, LeaveFrame
  <2> QED BY <2>1, <2>2, <2>3, <2>4 DEF Committing, backend, fallout, TypeOK, Steps
<1> QED BY <1>1, <1>2, <1>3

----------------------------------------------------------------------------
\* The inductive invariant.

\* The request has a Session; it may still write it; its commit is over.
Holding(q) == pc[q] \in Steps \cup {"handler"}
MayWrite(q) == pc[q] \in Steps \/ (pc[q] = "handler" /\ ~committed[q])
Finished(q) == committed[q] /\ pc[q] \in {"handler", "done"}

FlowOK ==
    \A q \in Request :
        /\ pc[q] \in Steps => committed[q]
        /\ pc[q] \in {"idle", "sent"} => ~committed[q] /\ raised[q] = Planted
        /\ ~Holding(q) => sess[q] = NoSession

\* Every id in use has been minted.
IdsOK ==
    /\ \A i \in present \cup saved \cup dead : 1 <= i /\ i <= minted
    /\ \A q \in Request :
        /\ Holding(q) => 1 <= sess[q].id
        /\ sess[q].id <= minted
        /\ \A i \in sess[q].oldID : 1 <= i /\ i <= minted
        /\ raised[q] <= minted

\* What a request stored is where its own ids are, or in the hands of a request that
\* loaded it from there.
RaiseOK ==
    /\ \A i \in Cookie : \A p \in store[i].data :
          committed[p] /\ (raised[p] # Planted => raised[p] <= i)
    /\ \A q \in Request :
        /\ Holding(q) /\ raised[q] # Planted => raised[q] <= sess[q].id
        /\ \A p \in sess[q].content.data :
              p # q => committed[p] /\ (raised[p] # Planted => raised[p] <= sess[q].id)

LogoutOK ==
    /\ dead \cap present = {}
    /\ \A q \in Request : MayWrite(q) => ({sess[q].id} \cup sess[q].oldID) \cap dead = {}
    /\ \A q \in Request : pc[q] = "destroyID" /\ ~failed[q] /\ q \notin behind =>
            sess[q].oldID \cap present = {}

ResponseOK ==
    \A q \in Request :
        /\ pc[q] \in {"saveOld", "save"} => fate[q] = "save"
        /\ pc[q] \in {"destroyOld", "destroyID"} => fate[q] = "destroy"
        /\ sent[q].jar \subseteq saved
        /\ Finished(q) /\ fate[q] = "destroy" => sent[q].set /\ sent[q].jar = {}
        /\ Finished(q) /\ fate[q] = "save" => (sent[q].set /\ sent[q].jar # {}) \/ failed[q]

IInv == TypeOK /\ FlowOK /\ IdsOK /\ RaiseOK /\ LogoutOK /\ ResponseOK

LEMMA Initially == Init => IInv
<1> SUFFICES ASSUME Init PROVE IInv OBVIOUS
<1>1. Empty \in Stored BY ValueMembers DEF Empty, Stored
<1>2. Planted \in Cookie BY DEF Cookie
<1>3. jar \in Optional BY <1>2, OptionalMembers DEF Init
<1>4. NoHeader \in [set : BOOLEAN, jar : Optional] BY OptionalMembers DEF NoHeader
<1>5. TypeOK
  <2>1. /\ store \in [Cookie -> Stored] /\ want \in Stored
        /\ sess \in [Request -> SessionType]
        /\ cookie \in [Request -> Optional]
        /\ sent \in [Request -> [set : BOOLEAN, jar : Optional]]
        /\ raised \in [Request -> Cookie]
    BY <1>1, <1>2, <1>4, NoSessionType, OptionalMembers DEF Init
  <2>2. minted \in 0 .. MaxId /\ ops \in 0 .. MaxOps /\ faults \in 0 .. MaxFaults
    BY SessionAssumption DEF Init
  <2>3. /\ present \subseteq Cookie /\ saved \subseteq Cookie /\ dead \subseteq Cookie
        /\ behind \subseteq Request /\ stale \in BOOLEAN /\ serial \in BOOLEAN
    BY DEF Init
  <2>4. /\ pc \in [Request -> {"idle", "sent", "handler", "done"} \cup Steps]
        /\ committed \in [Request -> BOOLEAN] /\ arrived \in [Request -> BOOLEAN]
        /\ failed \in [Request -> BOOLEAN] /\ resume \in [Request -> {"handler", "done"}]
        /\ got \in [Request -> SUBSET Request]
        /\ fate \in [Request -> {"none", "save", "destroy"}]
    BY DEF Init
  <2> QED BY <1>3, <2>1, <2>2, <2>3, <2>4 DEF TypeOK
<1>6. \A q \in Request : pc[q] = "idle" /\ sess[q] = NoSession /\ ~committed[q]
      /\ raised[q] = 0 /\ fate[q] = "none" /\ sent[q] = NoHeader
  BY DEF Init, Planted
<1>7. FlowOK BY <1>6 DEF FlowOK, Holding, Steps, Planted
<1>8. IdsOK BY <1>6 DEF IdsOK, Init, Holding, Steps, NoSession, Planted
<1>9. RaiseOK BY <1>6 DEF RaiseOK, Init, Holding, Steps, NoSession, Empty
<1>10. LogoutOK BY <1>6 DEF LogoutOK, Init, MayWrite, Steps
<1>11. ResponseOK BY <1>6 DEF ResponseOK, Finished, NoHeader, Steps
<1> QED BY <1>5, <1>7, <1>8, <1>9, <1>10, <1>11 DEF IInv

LEMMA EditKeeps ==
    ASSUME IInv, NEW r \in Request, Edited(r) PROVE IInv'
<1> USE DEF IInv
<1>1. TypeOK' BY DEF TypeOK, Edited
<1>2. FlowOK' BY DEF FlowOK, Edited, Holding
<1>3. IdsOK' BY DEF IdsOK, Edited, Holding
<1>4. RaiseOK' BY DEF RaiseOK, Edited, Holding
<1>5. LogoutOK' BY DEF LogoutOK, Edited, MayWrite
<1>6. ResponseOK' BY DEF ResponseOK, Edited, Finished
<1> QED BY <1>1, <1>2, <1>3, <1>4, <1>5, <1>6

LEMMA CommitKeeps ==
    ASSUME IInv, NEW r \in Request, Committing(r) PROVE IInv'
<1> USE DEF IInv
<1>1. TypeOK' BY DEF TypeOK, Committing
<1>2. \A q \in Request \ {r} : pc'[q] = pc[q] /\ committed'[q] = committed[q]
  BY DEF Committing, TypeOK
<1>3. committed'[r] BY DEF Committing, TypeOK
<1>4. NoSession.id = 0 /\ NoSession.oldID = {} /\ NoSession.content.data = {}
  BY DEF NoSession, Empty, Planted
<1>5. FlowOK' BY <1>2, <1>3 DEF FlowOK, Committing, Holding, Steps
<1>6. IdsOK'
  <2>1. minted \in Nat BY DEF TypeOK
  <2> QED BY <1>2, <1>4, <2>1 DEF IdsOK, Committing, Holding, Steps
<1>7. RaiseOK' BY <1>2, <1>3, <1>4 DEF RaiseOK, Committing, Holding, Steps
<1>8. LogoutOK' BY <1>2, <1>3, <1>4 DEF LogoutOK, Committing, MayWrite, Steps
<1>9. ResponseOK' BY <1>2, <1>3, <1>4 DEF ResponseOK, Committing, Finished, Steps
<1> QED BY <1>1, <1>5, <1>6, <1>7, <1>8, <1>9

LEMMA RegenerateKeeps ==
    ASSUME IInv, NEW r \in Request, Regenerate(r) PROVE IInv'
<1> USE DEF IInv
<1>1. /\ sess' \in [Request -> SessionType]
      /\ \A q \in Request \ {r} : sess'[q] = sess[q]
      /\ sess'[r].id = minted + 1 /\ minted + 1 \in Id
      /\ sess'[r].oldID = IF sess[r].oldID = {} THEN {sess[r].id} ELSE sess[r].oldID
      /\ sess'[r].content = sess[r].content
  BY RegenerateEdits
<1>2. /\ pc[r] = "handler" /\ minted' = minted + 1
      /\ UNCHANGED <<present, store, saved, jar, pc, cookie, committed, resume, sent,
                     arrived, failed, faults, got, fate, dead, want, serial, behind, stale>>
  BY DEF Regenerate, Calls, backend, fallout
<1>3. minted \in Nat /\ minted + 1 \in Cookie /\ minted + 1 \in 0 .. MaxId
  BY <1>1, SessionAssumption DEF TypeOK, Id, Cookie
<1>4. /\ raised' \in [Request -> Cookie]
      /\ \A q \in Request \ {r} : raised'[q] = raised[q]
      /\ raised'[r] # raised[r] => ~committed[r] /\ raised'[r] = minted + 1
  BY <1>3 DEF Regenerate, Counts, TypeOK
<1>5. TypeOK'
  <2>1. ops' \in 0 .. MaxOps BY SessionAssumption DEF Regenerate, Calls, TypeOK
  <2> QED BY <1>1, <1>2, <1>3, <1>4, <2>1 DEF TypeOK
<1>6. FlowOK' BY <1>1, <1>2, <1>4 DEF FlowOK, Holding, Steps
<1>7. \A q \in Request : raised[q] \in Int /\ sess[q].id \in Int
  BY DEF TypeOK, SessionType, Cookie, Id, Planted
<1>8. IdsOK'
  <2>1. \A i \in present \cup saved \cup dead : 1 <= i /\ i <= minted + 1
    BY <1>3 DEF IdsOK, TypeOK, Cookie, Id, Planted
  <2>2. \A q \in Request : sess'[q].id <= minted + 1 /\ raised'[q] <= minted + 1
    BY <1>1, <1>3, <1>4, <1>7 DEF IdsOK
  <2>3. \A q \in Request : \A i \in sess[q].oldID : i \in Int
    BY DEF TypeOK, SessionType, Optional, Cookie, Id, Planted
  <2>4. \A q \in Request : \A i \in sess'[q].oldID : 1 <= i /\ i <= minted + 1
    BY <1>1, <1>2, <1>3, <1>7, <2>3 DEF IdsOK, Holding
  <2>5. \A q \in Request : Holding(q)' => 1 <= sess'[q].id
    BY <1>1, <1>2, <1>3 DEF IdsOK, Holding
  <2> QED BY <1>2, <2>1, <2>2, <2>4, <2>5 DEF IdsOK
<1>9. RaiseOK'
  <2>1. \A i \in Cookie : \A p \in store[i].data : p \in Request
    BY DEF TypeOK, Stored, Value
  <2>2. \A q \in Request : \A p \in sess[q].content.data : p \in Request
    BY DEF TypeOK, SessionType, Stored, Value
  <2>3. \A q \in Request : committed[q] => raised'[q] = raised[q] BY <1>4
  <2>4. \A i \in Cookie : \A p \in store'[i].data :
            committed'[p] /\ (raised'[p] # Planted => raised'[p] <= i)
    BY <1>2, <2>1, <2>3 DEF RaiseOK
  <2>5. \A q \in Request : Holding(q)' /\ raised'[q] # Planted => raised'[q] <= sess'[q].id
    BY <1>1, <1>2, <1>3, <1>4, <1>7 DEF RaiseOK, Holding, IdsOK
  <2>6. \A q \in Request : \A p \in sess'[q].content.data :
            p # q => committed'[p] /\ (raised'[p] # Planted => raised'[p] <= sess'[q].id)
    BY <1>1, <1>2, <1>3, <1>7, <2>2, <2>3 DEF RaiseOK, IdsOK
  <2> QED BY <2>4, <2>5, <2>6 DEF RaiseOK
<1>10. LogoutOK'
  <2>1. minted + 1 \notin dead BY <1>3 DEF IdsOK
  <2> QED BY <1>1, <1>2, <2>1 DEF LogoutOK, MayWrite, Steps
<1>11. ResponseOK' BY <1>2 DEF ResponseOK, Finished
<1> QED BY <1>5, <1>6, <1>8, <1>9, <1>10, <1>11

LEMMA OutcomeFrame ==
    ASSUME TypeOK, NEW r \in Request, NEW ok \in BOOLEAN, Outcome(r, ok)
    PROVE  /\ failed' \in [Request -> BOOLEAN] /\ faults' \in 0 .. MaxFaults
           /\ \A q \in Request : failed[q] => failed'[q]
           /\ \A q \in Request \ {r} : failed'[q] = failed[q]
           /\ failed'[r] = (failed[r] \/ ~ok)
<1>1. failed' \in [Request -> BOOLEAN] BY Zenon DEF Outcome, TypeOK
<1>2. faults' \in 0 .. MaxFaults BY SessionAssumption DEF Outcome, TypeOK
<1>3. /\ \A q \in Request : failed[q] => failed'[q]
      /\ \A q \in Request \ {r} : failed'[q] = failed[q]
      /\ failed'[r] = (failed[r] \/ ~ok)
  BY DEF Outcome, TypeOK
<1> QED BY <1>1, <1>2, <1>3

\* A request that stops early gives up its Session and does nothing else.
LEMMA StopKeeps ==
    ASSUME IInv, NEW r \in Request, LoadStop(r) \/ Panic(r) PROVE IInv'
<1> USE DEF IInv
<1>1. PICK ok \in BOOLEAN : Outcome(r, ok) BY DEF LoadStop, Panic, TypeOK
<1>2. /\ failed' \in [Request -> BOOLEAN] /\ faults' \in 0 .. MaxFaults
      /\ \A q \in Request : failed[q] => failed'[q]
  BY <1>1, OutcomeFrame
<1>3. /\ sess' \in [Request -> SessionType] /\ cookie' \in [Request -> Optional]
      /\ \A q \in Request \ {r} : sess'[q] = sess[q]
      /\ sess'[r] = NoSession
  BY LeaveFrame DEF LoadStop, Panic
<1>4. /\ pc[r] \in {"sent", "handler"}
      /\ pc' \in [Request -> {"idle", "sent", "handler", "done"} \cup Steps]
      /\ pc'[r] = "done" /\ \A q \in Request \ {r} : pc'[q] = pc[q]
  BY DEF LoadStop, Panic, TypeOK
<1>5. UNCHANGED <<present, store, saved, minted, jar, committed, resume, sent, arrived, ops,
                  got, raised, fate, dead, want, serial, behind, stale>>
  BY DEF LoadStop, Panic, backend, history, fallout
<1>6. NoSession.id = 0 /\ NoSession.oldID = {} /\ NoSession.content.data = {}
  BY DEF NoSession, Empty, Planted
<1>7. TypeOK' BY <1>2, <1>3, <1>4, <1>5 DEF TypeOK
<1>8. FlowOK' BY <1>3, <1>4, <1>5 DEF FlowOK, Holding, Steps
<1>9. IdsOK'
  <2>1. minted \in Nat BY DEF TypeOK
  <2> QED BY <1>3, <1>4, <1>5, <1>6, <2>1 DEF IdsOK, Holding, Steps
<1>10. RaiseOK' BY <1>3, <1>4, <1>5, <1>6 DEF RaiseOK, Holding, Steps
<1>11. LogoutOK' BY <1>2, <1>3, <1>4, <1>5, <1>6 DEF LogoutOK, MayWrite, Steps
<1>12. ResponseOK'
  BY <1>2, <1>4, <1>5 DEF ResponseOK, FlowOK, Finished, Steps
<1> QED BY <1>7, <1>8, <1>9, <1>10, <1>11, <1>12

LEMMA BrowserKeeps ==
    ASSUME IInv, NEW r \in Request, Send(r) \/ Receive(r) PROVE IInv'
<1> USE DEF IInv
<1>1. /\ UNCHANGED <<present, store, saved, minted, sess, committed, resume, sent, failed,
                     ops, faults, got, raised, fate, dead, want, behind, stale>>
      /\ \A q \in Request : pc'[q] = pc[q] \/ (pc[q] = "idle" /\ pc'[q] = "sent")
  BY DEF Send, Receive, TypeOK, backend, request, history, fallout
<1>2. TypeOK'
  <2>1. pc' \in [Request -> {"idle", "sent", "handler", "done"} \cup Steps]
    BY DEF Send, Receive, TypeOK
  <2>2. cookie' \in [Request -> Optional] BY DEF Send, Receive, TypeOK, request
  <2>3. jar' \in Optional BY DEF Send, Receive, TypeOK
  <2>4. arrived' \in [Request -> BOOLEAN] BY DEF Send, Receive, TypeOK
  <2>5. serial' \in BOOLEAN BY DEF Send, Receive, TypeOK, history
  <2> QED BY <1>1, <2>1, <2>2, <2>3, <2>4, <2>5 DEF TypeOK
<1>3. FlowOK' BY <1>1 DEF FlowOK, Holding, Steps
<1>4. IdsOK' BY <1>1 DEF IdsOK, Holding, Steps
<1>5. RaiseOK' BY <1>1 DEF RaiseOK, Holding, Steps
<1>6. LogoutOK' BY <1>1 DEF LogoutOK, MayWrite, Steps
<1>7. ResponseOK' BY <1>1 DEF ResponseOK, Finished, Steps
<1> QED BY <1>2, <1>3, <1>4, <1>5, <1>6, <1>7

\* A Session comes from the entry of a live id or is new under a fresh one.
Loading(r) ==
    /\ pc[r] = "sent" /\ pc' = [pc EXCEPT ![r] = "handler"]
    /\ minted' \in 0 .. MaxId /\ minted <= minted'
    /\ failed' \in [Request -> BOOLEAN] /\ faults' \in 0 .. MaxFaults
    /\ \A q \in Request : failed[q] => failed'[q]
    /\ sess' \in [Request -> SessionType]
    /\ \A q \in Request \ {r} : sess'[q] = sess[q]
    /\ sess'[r].oldID = {}
    /\ 1 <= sess'[r].id /\ sess'[r].id <= minted' /\ sess'[r].id \notin dead
    /\ \/ sess'[r].content = Empty
       \/ sess'[r].id \in present /\ sess'[r].content = store[sess'[r].id]
    /\ UNCHANGED <<present, store, saved, jar, cookie, committed, resume, sent, arrived,
                   ops, got, raised, fate, dead, want, serial, behind, stale>>

LEMMA FoundLoads ==
    ASSUME IInv, NEW r \in Request, LoadFound(r) PROVE Loading(r)
<1> USE DEF IInv
<1>1. PICK i \in cookie[r] \cap present : sess' = [sess EXCEPT ![r] = sessionFromStored(i)]
  BY DEF LoadFound
<1>2. i \in Cookie /\ store[i] \in Stored /\ minted \in 0 .. MaxId /\ minted \in Int
  BY <1>1 DEF TypeOK
<1>3. /\ sessionFromStored(i) \in SessionType /\ sessionFromStored(i).id = i
      /\ sessionFromStored(i).oldID = {} /\ sessionFromStored(i).content = store[i]
  <2>1. NoSession \in SessionType BY NoSessionType
  <2>2. sessionFromStored(i) \in SessionType
    BY <1>2, <2>1 DEF sessionFromStored, SessionType
  <2> QED BY <2>2 DEF sessionFromStored, NoSession
<1>4. sess' \in [Request -> SessionType] /\ sess'[r] = sessionFromStored(i)
      /\ \A q \in Request \ {r} : sess'[q] = sess[q]
  BY <1>1, <1>3 DEF TypeOK
<1>5. 1 <= i /\ i <= minted /\ i \notin dead BY <1>1 DEF IdsOK, LogoutOK
<1>6. failed' \in [Request -> BOOLEAN] /\ faults' \in 0 .. MaxFaults /\ failed' = failed
      /\ minted' = minted
  BY DEF LoadFound, TypeOK
<1> QED
  BY <1>2, <1>3, <1>4, <1>5, <1>6 DEF Loading, LoadFound, backend, history, fallout

LEMMA FreshLoads ==
    ASSUME IInv, NEW r \in Request, NEW err \in BOOLEAN, LoadFresh(r, err)
    PROVE  Loading(r)
<1> USE DEF IInv
<1>1. minted \in Nat /\ minted + 1 \in Cookie /\ minted' = minted + 1 /\ minted' \in 0 .. MaxId
  BY SessionAssumption DEF LoadFresh, TypeOK, Cookie, Id
<1>2. sess' = [sess EXCEPT ![r] = freshSession(minted + 1)] BY DEF LoadFresh, FreshId
<1>3. /\ freshSession(minted + 1) \in SessionType
      /\ freshSession(minted + 1).id = minted + 1
      /\ freshSession(minted + 1).oldID = {} /\ freshSession(minted + 1).content = Empty
  <2>1. NoSession \in SessionType BY NoSessionType
  <2>2. freshSession(minted + 1) \in SessionType
    BY <1>1, <2>1 DEF freshSession, SessionType
  <2> QED BY <2>2 DEF freshSession, NoSession
<1>4. sess' \in [Request -> SessionType] /\ sess'[r] = freshSession(minted + 1)
      /\ \A q \in Request \ {r} : sess'[q] = sess[q]
  BY <1>2, <1>3 DEF TypeOK
<1>5. minted + 1 \notin dead BY <1>1 DEF IdsOK
<1>6. /\ failed' \in [Request -> BOOLEAN] /\ faults' \in 0 .. MaxFaults
      /\ \A q \in Request : failed[q] => failed'[q]
  <2>1. Outcome(r, ~err) /\ (~err) \in BOOLEAN BY DEF LoadFresh
  <2> QED BY <2>1, OutcomeFrame
<1>7. minted <= minted' /\ 1 <= minted + 1 /\ minted + 1 <= minted' BY <1>1
<1> QED
  BY <1>1, <1>3, <1>4, <1>5, <1>6, <1>7 DEF Loading, LoadFresh, backend, history, fallout

LEMMA LoadKeeps ==
    ASSUME IInv, NEW r \in Request, Loading(r) PROVE IInv'
<1> USE DEF IInv
<1>1. TypeOK' BY DEF TypeOK, Loading
<1>2. pc'[r] = "handler" /\ \A q \in Request \ {r} : pc'[q] = pc[q]
  BY DEF Loading, TypeOK
<1>3. FlowOK' BY <1>2 DEF FlowOK, Loading, Holding, Steps
<1>4. /\ minted \in Int /\ minted' \in Int
      /\ \A i \in present \cup saved \cup dead : i \in Int
      /\ \A q \in Request : raised[q] \in Int /\ sess[q].id \in Int
      /\ \A q \in Request : \A i \in sess[q].oldID : i \in Int
  BY DEF Loading, TypeOK, SessionType, Optional, Cookie, Id, Planted
<1>5. IdsOK' BY <1>2, <1>4 DEF IdsOK, Loading, Holding, Steps
<1>6. raised[r] = Planted /\ ~committed[r] BY DEF FlowOK, Loading
<1>7. RaiseOK'
  <2>1. Empty.data = {} /\ present \subseteq Cookie BY DEF Empty, TypeOK
  <2> QED BY <1>2, <1>6, <2>1 DEF RaiseOK, Loading, Holding, Steps
<1>8. LogoutOK' BY <1>2 DEF LogoutOK, Loading, MayWrite, Steps
<1>9. ResponseOK' BY <1>2, <1>6 DEF ResponseOK, Loading, Finished, Steps
<1> QED BY <1>1, <1>3, <1>5, <1>7, <1>8, <1>9

LEMMA ExpireKeeps ==
    ASSUME IInv, NEW i \in Cookie, Expire(i) PROVE IInv'
<1> USE DEF IInv
<1>1. /\ UNCHANGED <<store, saved, minted, jar, pc, cookie, sess, committed, resume, sent,
                     failed, arrived, ops, got, raised, fate, dead, want, serial, stale>>
      /\ present' \subseteq present /\ behind \subseteq behind'
  BY DEF Expire, request, history
<1>2. TypeOK'
  <2>1. faults' \in 0 .. MaxFaults BY SessionAssumption DEF Expire, TypeOK
  <2>2. behind' \subseteq Request BY DEF Expire, Holders, TypeOK
  <2> QED BY <1>1, <2>1, <2>2 DEF TypeOK
<1>3. FlowOK' BY <1>1 DEF FlowOK, Holding
<1>4. IdsOK' BY <1>1 DEF IdsOK, Holding
<1>5. RaiseOK' BY <1>1 DEF RaiseOK, Holding
<1>6. LogoutOK' BY <1>1 DEF LogoutOK, MayWrite
<1>7. ResponseOK' BY <1>1 DEF ResponseOK, Finished
<1> QED BY <1>2, <1>3, <1>4, <1>5, <1>6, <1>7

\* A request that may write is a holder of its ids.
LEMMA WritersHold ==
    ASSUME NEW q \in Request, NEW ids, MayWrite(q),
           ({sess[q].id} \cup sess[q].oldID) \cap ids # {}
    PROVE  q \in Holders(ids)
BY DEF Holders, MayWrite, Steps

LEMMA DisturbFrame ==
    ASSUME TypeOK, NEW r \in Request, NEW ids, Disturb(r, ids)
    PROVE  /\ behind' \subseteq Request /\ stale' \in BOOLEAN
           /\ \A q \in Request \ {r} : q \in behind \/ q \in Holders(ids) => q \in behind'
BY DEF Disturb, Holders, TypeOK

LEMMA DeleteOldKeeps ==
    ASSUME IInv, NEW r \in Request, NEW ok \in BOOLEAN, NEW effect \in BOOLEAN,
           DeleteOld(r, ok, effect)
    PROVE  IInv'
<1> USE DEF IInv
<1>1. /\ failed' \in [Request -> BOOLEAN] /\ faults' \in 0 .. MaxFaults
      /\ \A q \in Request : failed[q] => failed'[q]
      /\ failed'[r] = (failed[r] \/ ~ok)
  BY OutcomeFrame DEF DeleteOld
<1>2. /\ behind' \subseteq Request /\ stale' \in BOOLEAN
      /\ \A q \in Request \ {r} : q \in behind => q \in behind'
  BY DisturbFrame DEF DeleteOld
<1>3. /\ UNCHANGED <<store, saved, minted, jar, cookie, sess, committed, resume, sent,
                     arrived, ops, got, raised, fate, dead, want, serial>>
      /\ present' \subseteq present /\ (ok => present' = present \ sess[r].oldID)
  BY DEF DeleteOld, history
<1>4. /\ pc' \in [Request -> {"idle", "sent", "handler", "done"} \cup Steps]
      /\ \A q \in Request \ {r} : pc'[q] = pc[q]
      /\ \/ pc[r] = "saveOld" /\ pc'[r] = "save"
         \/ pc[r] = "destroyOld" /\ pc'[r] = "destroyID"
  BY DEF DeleteOld, TypeOK, Steps
<1>5. TypeOK' BY <1>1, <1>2, <1>3, <1>4 DEF TypeOK
<1>6. FlowOK' BY <1>3, <1>4 DEF FlowOK, Holding, Steps
<1>7. IdsOK' BY <1>3, <1>4 DEF IdsOK, Holding, Steps
<1>8. RaiseOK' BY <1>3, <1>4 DEF RaiseOK, Holding, Steps
<1>9. LogoutOK'
  <2>1. \A q \in Request : MayWrite(q)' => MayWrite(q) BY <1>3, <1>4 DEF MayWrite, Steps
  <2>2. \A q \in Request \ {r} : pc'[q] = "destroyID" /\ ~failed'[q] /\ q \notin behind' =>
            sess'[q].oldID \cap present' = {}
    BY <1>1, <1>2, <1>3, <1>4 DEF LogoutOK
  <2>3. ~failed'[r] => sess'[r].oldID \cap present' = {} BY <1>1, <1>3
  <2> QED BY <1>3, <2>1, <2>2, <2>3 DEF LogoutOK
<1>10. ResponseOK' BY <1>1, <1>3, <1>4 DEF ResponseOK, Finished, Steps
<1> QED BY <1>5, <1>6, <1>7, <1>8, <1>9, <1>10

\* What the last step of a commit has in common, for a save and for a destroy.
Ending(r, ok) ==
    /\ pc[r] \in Steps /\ pc'[r] \in {"handler", "done"}
    /\ pc' \in [Request -> {"idle", "sent", "handler", "done"} \cup Steps]
    /\ \A q \in Request \ {r} : pc'[q] = pc[q]
    /\ failed' \in [Request -> BOOLEAN] /\ faults' \in 0 .. MaxFaults
    /\ \A q \in Request : failed[q] => failed'[q]
    /\ failed'[r] = (failed[r] \/ ~ok)
    /\ behind' \subseteq Request /\ stale' \in BOOLEAN
    /\ \A q \in Request \ {r} :
          q \in behind \/ q \in Holders({sess[r].id}) => q \in behind'
    /\ sess' \in [Request -> SessionType] /\ cookie' \in [Request -> Optional]
    /\ \A q \in Request \ {r} : sess'[q] = sess[q]
    /\ sess'[r] = IF pc'[r] = "done" THEN NoSession ELSE sess[r]
    /\ resume' \in [Request -> {"handler", "done"}]
    /\ UNCHANGED <<minted, jar, committed, arrived, ops, got, raised, fate, want, serial>>

LEMMA StoreEnds ==
    ASSUME TypeOK, NEW r \in Request, NEW ok \in BOOLEAN, NEW effect \in BOOLEAN,
           DeleteID(r, ok, effect) \/ Save(r, ok, effect)
    PROVE  Ending(r, ok)
<1>1. /\ failed' \in [Request -> BOOLEAN] /\ faults' \in 0 .. MaxFaults
      /\ \A q \in Request : failed[q] => failed'[q]
      /\ failed'[r] = (failed[r] \/ ~ok)
  BY OutcomeFrame DEF DeleteID, Save
<1>2. /\ behind' \subseteq Request /\ stale' \in BOOLEAN
      /\ \A q \in Request \ {r} :
            q \in behind \/ q \in Holders({sess[r].id}) => q \in behind'
  <2>1. Disturb(r, {sess[r].id}) BY DEF DeleteID, Save
  <2> QED BY <2>1, DisturbFrame
<1>3. /\ pc[r] \in Steps /\ pc' = [pc EXCEPT ![r] = resume[r]] /\ Leave(r, resume[r])
      /\ resume' = [resume EXCEPT ![r] = "done"]
      /\ UNCHANGED <<minted, jar, committed, arrived, ops, got, raised, fate, want, serial>>
  BY DEF DeleteID, Save, Steps, history
<1>4. /\ pc' \in [Request -> {"idle", "sent", "handler", "done"} \cup Steps]
      /\ pc'[r] = resume[r] /\ resume[r] \in {"handler", "done"}
      /\ \A q \in Request \ {r} : pc'[q] = pc[q]
      /\ resume' \in [Request -> {"handler", "done"}]
  BY <1>3 DEF TypeOK
<1>5. /\ sess' \in [Request -> SessionType] /\ cookie' \in [Request -> Optional]
      /\ \A q \in Request \ {r} : sess'[q] = sess[q]
      /\ sess'[r] = IF pc'[r] = "done" THEN NoSession ELSE sess[r]
  BY <1>3, <1>4, LeaveFrame
<1> QED BY <1>1, <1>2, <1>3, <1>4, <1>5 DEF Ending

LEMMA EndKeepsFlow ==
    ASSUME IInv, NEW r \in Request, NEW ok \in BOOLEAN, Ending(r, ok) PROVE FlowOK'
BY DEF IInv, FlowOK, Ending, Holding, Steps

LEMMA DeleteIDKeeps ==
    ASSUME IInv, NEW r \in Request, NEW ok \in BOOLEAN, NEW effect \in BOOLEAN,
           DeleteID(r, ok, effect)
    PROVE  IInv'
<1> USE DEF IInv
<1> DEFINE ids == {sess[r].id} \cup sess[r].oldID
<1>1. Ending(r, ok) BY StoreEnds
<1>2. /\ pc[r] = "destroyID" /\ UNCHANGED <<store, saved>>
      /\ present' \subseteq present /\ (ok => present' = present \ {sess[r].id})
      /\ sent' = [sent EXCEPT ![r] = [set |-> TRUE, jar |-> {}]]
      /\ \/ dead' = dead
         \/ ok /\ ~failed[r] /\ Holders(ids) = {r} /\ r \notin behind /\ dead' = dead \cup ids
  BY DEF DeleteID, ExpireCookie
<1>3. /\ sess[r].id \in Cookie /\ sess[r].oldID \subseteq Cookie
      /\ dead \subseteq Cookie /\ present \subseteq Cookie /\ minted \in Nat
  BY DEF TypeOK, SessionType, Optional
<1>4. /\ sent' \in [Request -> [set : BOOLEAN, jar : Optional]]
      /\ sent'[r].set /\ sent'[r].jar = {} /\ \A q \in Request \ {r} : sent'[q] = sent[q]
  <2>1. [set |-> TRUE, jar |-> {}] \in [set : BOOLEAN, jar : Optional] BY OptionalMembers
  <2> QED BY <1>2, <2>1 DEF TypeOK
<1>5. TypeOK'
  <2>1. dead' \subseteq Cookie /\ present' \subseteq Cookie BY <1>2, <1>3
  <2> QED BY <1>1, <1>2, <1>4, <2>1 DEF TypeOK, Ending
<1>6. NoSession.id = 0 /\ NoSession.oldID = {} /\ NoSession.content.data = {}
  BY DEF NoSession, Empty, Planted
<1>7. IdsOK'
  <2>1. \A i \in ids : 1 <= i /\ i <= minted BY <1>2 DEF IdsOK, Holding, Steps
  <2>2. \A i \in present' \cup saved' \cup dead' : 1 <= i /\ i <= minted
    BY <1>2, <2>1 DEF IdsOK
  <2>3. \A q \in Request :
            /\ Holding(q)' => 1 <= sess'[q].id
            /\ sess'[q].id <= minted
            /\ \A i \in sess'[q].oldID : 1 <= i /\ i <= minted
    BY <1>1, <1>3, <1>6 DEF IdsOK, Holding, Ending, Steps
  <2> QED BY <1>1, <2>2, <2>3 DEF IdsOK, Ending
<1>8. RaiseOK' BY <1>1, <1>2, <1>6 DEF RaiseOK, Holding, Ending, Steps
<1>9. LogoutOK'
  <2>1. dead' \cap present' = {}
    <3>1. CASE dead' = dead BY <1>2, <3>1 DEF LogoutOK
    <3>2. CASE dead' # dead
      <4>1. sess[r].oldID \cap present = {} BY <1>2, <3>2 DEF LogoutOK
      <4> QED BY <1>2, <3>2, <4>1 DEF LogoutOK
    <3> QED BY <3>1, <3>2
  <2>2. ~MayWrite(r)' BY <1>1 DEF Ending, MayWrite, FlowOK, Steps
  <2>3. ASSUME NEW q \in Request \ {r}, MayWrite(q)'
        PROVE  ({sess'[q].id} \cup sess'[q].oldID) \cap dead' = {}
    <3>1. MayWrite(q) /\ sess'[q] = sess[q] BY <1>1, <2>3 DEF MayWrite, Ending
    <3>2. CASE dead' = dead BY <3>1, <3>2 DEF LogoutOK
    <3>3. CASE dead' # dead
      <4>1. q \notin Holders(ids) BY <1>2, <3>3
      <4>2. ({sess[q].id} \cup sess[q].oldID) \cap ids = {} BY <3>1, <4>1, WritersHold
      <4> QED BY <1>2, <3>1, <3>3, <4>2 DEF LogoutOK
    <3> QED BY <3>2, <3>3
  <2>4. \A q \in Request : pc'[q] = "destroyID" /\ ~failed'[q] /\ q \notin behind' =>
            sess'[q].oldID \cap present' = {}
    BY <1>1, <1>2 DEF LogoutOK, Ending
  <2> QED BY <2>1, <2>2, <2>3, <2>4 DEF LogoutOK
<1>10. ResponseOK' BY <1>1, <1>2, <1>4 DEF ResponseOK, Ending, Finished, Steps
<1> QED BY <1>1, <1>5, <1>7, <1>8, <1>9, <1>10, EndKeepsFlow

LEMMA SaveKeeps ==
    ASSUME IInv, NEW r \in Request, NEW ok \in BOOLEAN, NEW effect \in BOOLEAN,
           Save(r, ok, effect)
    PROVE  IInv'
<1> USE DEF IInv
<1> DEFINE id == sess[r].id
<1>1. Ending(r, ok) BY StoreEnds
<1>2. /\ pc[r] = "save" /\ dead' = dead /\ (ok => effect)
      /\ effect => /\ present' = present \cup {id}
                   /\ store' = [store EXCEPT ![id] = sess[r].content]
                   /\ saved' = saved \cup {id}
      /\ ~effect => UNCHANGED <<present, store, saved>>
      /\ sent' = [sent EXCEPT ![r] = SessionCookie(r, ok)]
  BY DEF Save, backend, history
<1>3. /\ id \in Cookie /\ sess[r].content \in Stored /\ minted \in Nat
      /\ dead \subseteq Cookie /\ present \subseteq Cookie /\ saved \subseteq Cookie
  BY DEF TypeOK, SessionType
<1>4. /\ sent' \in [Request -> [set : BOOLEAN, jar : Optional]]
      /\ ok => sent'[r].set /\ sent'[r].jar = {id}
      /\ ~ok => sent'[r].jar = {}
      /\ \A q \in Request \ {r} : sent'[q] = sent[q]
  <2>1. SessionCookie(r, ok) \in [set : BOOLEAN, jar : Optional]
    BY <1>3, OptionalMembers DEF SessionCookie, NoHeader
  <2> QED BY <1>2, <2>1 DEF TypeOK, SessionCookie, NoHeader
<1>5. store' \in [Cookie -> Stored] /\ present' \subseteq Cookie /\ saved' \subseteq Cookie
  BY <1>2, <1>3 DEF TypeOK
<1>6. TypeOK' BY <1>1, <1>2, <1>4, <1>5 DEF TypeOK, Ending
<1>7. NoSession.id = 0 /\ NoSession.oldID = {} /\ NoSession.content.data = {}
  BY DEF NoSession, Empty, Planted
<1>8. IdsOK'
  <2>1. 1 <= id /\ id <= minted BY <1>2 DEF IdsOK, Holding, Steps
  <2>2. \A i \in present' \cup saved' \cup dead' : 1 <= i /\ i <= minted
    BY <1>2, <2>1 DEF IdsOK
  <2>3. \A q \in Request :
            /\ Holding(q)' => 1 <= sess'[q].id
            /\ sess'[q].id <= minted
            /\ \A i \in sess'[q].oldID : 1 <= i /\ i <= minted
    BY <1>1, <1>3, <1>7 DEF IdsOK, Holding, Ending, Steps
  <2> QED BY <1>1, <2>2, <2>3 DEF IdsOK, Ending
<1>9. RaiseOK'
  <2>1. committed[r] BY <1>2 DEF FlowOK, Steps
  <2>2. \A p \in sess[r].content.data :
            committed[p] /\ (raised[p] # Planted => raised[p] <= id)
    BY <1>2, <2>1 DEF RaiseOK, Holding, Steps
  <2>3. \A i \in Cookie : store'[i] = store[i] \/ (i = id /\ store'[i] = sess[r].content)
    BY <1>2 DEF TypeOK
  <2>4. \A i \in Cookie : \A p \in store'[i].data :
            committed[p] /\ (raised[p] # Planted => raised[p] <= i)
    BY <2>2, <2>3 DEF RaiseOK
  <2>5. \A q \in Request :
        /\ Holding(q)' /\ raised[q] # Planted => raised[q] <= sess'[q].id
        /\ \A p \in sess'[q].content.data :
              p # q => committed[p] /\ (raised[p] # Planted => raised[p] <= sess'[q].id)
    BY <1>1, <1>7 DEF RaiseOK, Holding, Ending, Steps
  <2> QED BY <1>1, <2>4, <2>5 DEF RaiseOK, Ending
<1>10. LogoutOK'
  <2>1. MayWrite(r) BY <1>2 DEF MayWrite, Steps
  <2>2. id \notin dead BY <2>1 DEF LogoutOK
  <2>3. dead' \cap present' = {} BY <1>2, <2>2 DEF LogoutOK
  <2>4. \A q \in Request : MayWrite(q)' => MayWrite(q) /\ sess'[q] = sess[q]
    BY <1>1, <2>1 DEF MayWrite, Ending, FlowOK, Steps
  <2>5. ASSUME NEW q \in Request, pc'[q] = "destroyID", ~failed'[q], q \notin behind'
        PROVE  sess'[q].oldID \cap present' = {}
    <3>1. q # r /\ pc[q] = "destroyID" /\ sess'[q] = sess[q] BY <1>1, <2>5 DEF Ending
    <3>2. ~failed[q] /\ q \notin behind /\ q \notin Holders({id})
      BY <1>1, <2>5, <3>1 DEF Ending
    <3>3. MayWrite(q) BY <3>1 DEF MayWrite, Steps
    <3>4. id \notin sess[q].oldID BY <3>2, <3>3, WritersHold
    <3>5. sess[q].oldID \cap present = {} BY <3>1, <3>2 DEF LogoutOK
    <3> QED BY <1>2, <3>1, <3>4, <3>5
  <2> QED BY <1>2, <2>3, <2>4, <2>5 DEF LogoutOK
<1>11. ResponseOK'
  <2>1. saved \subseteq saved' /\ (ok => id \in saved') BY <1>2
  <2>2. \A q \in Request : sent'[q].jar \subseteq saved' BY <1>4, <2>1 DEF ResponseOK
  <2>3. fate[r] = "save" BY <1>2 DEF ResponseOK
  <2>4. \A q \in Request \ {r} : Finished(q)' = Finished(q) BY <1>1 DEF Ending, Finished
  <2>5. ok \/ failed'[r] BY <1>1 DEF Ending
  <2>6. fate' = fate /\ pc'[r] \in {"handler", "done"} BY <1>1 DEF Ending
  <2>7. \A q \in Request \ {r} :
            pc'[q] = pc[q] /\ sent'[q] = sent[q] /\ (failed[q] => failed'[q])
    BY <1>1, <1>4 DEF Ending
  <2>8. ok => sent'[r].set /\ sent'[r].jar # {} BY <1>4
  <2>9. \A q \in Request \ {r} :
            /\ pc'[q] \in {"saveOld", "save"} => fate'[q] = "save"
            /\ pc'[q] \in {"destroyOld", "destroyID"} => fate'[q] = "destroy"
            /\ Finished(q)' /\ fate'[q] = "destroy" => sent'[q].set /\ sent'[q].jar = {}
            /\ Finished(q)' /\ fate'[q] = "save" =>
                  (sent'[q].set /\ sent'[q].jar # {}) \/ failed'[q]
    BY <2>4, <2>6, <2>7 DEF ResponseOK
  <2> QED BY <2>2, <2>3, <2>5, <2>6, <2>8, <2>9 DEF ResponseOK
<1> QED BY <1>1, <1>6, <1>8, <1>9, <1>10, <1>11, EndKeepsFlow

LEMMA StutterKeeps ==
    ASSUME IInv, UNCHANGED vars PROVE IInv'
<1> USE DEF vars, backend, request, history, fallout
<1>1. TypeOK' BY DEF IInv, TypeOK
<1>2. FlowOK' /\ IdsOK' BY DEF IInv, FlowOK, IdsOK, Holding
<1>3. RaiseOK' BY DEF IInv, RaiseOK, Holding
<1>4. LogoutOK' /\ ResponseOK' BY DEF IInv, LogoutOK, ResponseOK, MayWrite, Finished
<1> QED BY <1>1, <1>2, <1>3, <1>4 DEF IInv

LEMMA StepKeeps ==
    ASSUME IInv, [Next]_vars PROVE IInv'
<1>0. TypeOK BY DEF IInv
<1>1. ASSUME NEW r \in Request, Send(r) \/ Receive(r) PROVE IInv' BY <1>1, BrowserKeeps
<1>2. ASSUME NEW r \in Request, LoadFound(r) PROVE IInv' BY <1>2, FoundLoads, LoadKeeps
<1>3. ASSUME NEW r \in Request, NEW err \in BOOLEAN, LoadFresh(r, err) PROVE IInv'
  BY <1>3, FreshLoads, LoadKeeps
<1>4. ASSUME NEW r \in Request, LoadStop(r) \/ Panic(r) PROVE IInv' BY <1>4, StopKeeps
<1>5. ASSUME NEW r \in Request,
             \/ Set(r) \/ Delete(r) \/ Flash(r) \/ ConsumeFlash(r) \/ CSRFToken(r)
             \/ Destroy(r)
      PROVE  IInv'
  BY <1>0, <1>5, HandlerEdits, EditKeeps
<1>6. ASSUME NEW r \in Request, Regenerate(r) PROVE IInv' BY <1>6, RegenerateKeeps
<1>7. ASSUME NEW r \in Request, Write(r) \/ Return(r) PROVE IInv'
  BY <1>0, <1>7, HandlerCommits, CommitKeeps
<1>8. ASSUME NEW r \in Request, Store(r) PROVE IInv'
  BY <1>8, DeleteOldKeeps, DeleteIDKeeps, SaveKeeps DEF Store
<1>9. ASSUME NEW i \in Cookie, Expire(i) PROVE IInv' BY <1>9, ExpireKeeps
<1>10. CASE UNCHANGED vars BY <1>10, StutterKeeps
<1>11. CASE Next
  BY <1>1, <1>2, <1>3, <1>4, <1>5, <1>6, <1>7, <1>8, <1>9, <1>11, Zenon DEF Next, Handler
<1> QED BY <1>10, <1>11

----------------------------------------------------------------------------
\* Serial requests: at most one has not been answered, and the session that the jar or
\* its response leads to is the one the handlers made.
Quiet(q) == pc[q] = "idle" \/ (pc[q] = "done" /\ (sent[q].set => arrived[q]))
Leads(c) == \/ \E i \in c : i \in present /\ store[i] = want
            \/ c \cap present = {} /\ want = Empty

\* What the one request that is not quiet is about to leave behind.
Serving(q) ==
    /\ pc[q] = "sent" => cookie[q] = jar /\ Leads(jar)
    /\ MayWrite(q) => want = Shown(sess[q])
    /\ pc[q] = "handler" /\ ~committed[q] /\ ~sess[q].destroyed /\ ~shouldSave(sess[q])
          => Leads(jar)
    /\ pc[q] \in {"save", "saveOld"} => ~sess[q].destroyed
    /\ pc[q] \in {"destroyID", "destroyOld"} => sess[q].destroyed
    /\ pc[q] \in Steps => ~sent[q].set /\ ~arrived[q]
    /\ Finished(q) /\ ~Quiet(q) =>
          Leads(IF sent[q].set /\ ~arrived[q] THEN sent[q].jar ELSE jar)

SerialOK ==
    serial /\ faults = 0 =>
        /\ \A p, q \in Request : ~Quiet(p) /\ ~Quiet(q) => p = q
        /\ (\A q \in Request : Quiet(q)) => Leads(jar)
        /\ \A q \in Request : ~committed[q] => ~sent[q].set /\ ~arrived[q]
        /\ \A q \in Request : ~Quiet(q) => Serving(q)

\* It is enough to look at the request that acts.
LEMMA ServingAlone ==
    ASSUME SerialOK, NEW r \in Request, ~Quiet(r), serial, faults = 0,
           \A q \in Request \ {r} : Quiet(q)' = Quiet(q),
           \A q \in Request : ~committed'[q] => ~sent'[q].set /\ ~arrived'[q],
           ~Quiet(r)' => Serving(r)',
           Quiet(r)' => Leads(jar)'
    PROVE  SerialOK'
<1>1. \A q \in Request \ {r} : Quiet(q) BY DEF SerialOK
<1> QED BY <1>1 DEF SerialOK

LEMMA SerialEdit ==
    ASSUME IInv, SerialOK, NEW r \in Request, Edited(r), serial', faults' = 0
    PROVE  SerialOK'
<1>1. serial /\ faults = 0 /\ ~Quiet(r) /\ ~Quiet(r)' /\ pc[r] = "handler"
  BY DEF Edited, Quiet
<1>2. \A q \in Request \ {r} : Quiet(q)' = Quiet(q) BY DEF Edited, Quiet
<1>3. \A q \in Request : ~committed'[q] => ~sent'[q].set /\ ~arrived'[q]
  BY <1>1 DEF Edited, SerialOK
<1>4. Serving(r) BY <1>1 DEF SerialOK
<1>5. Serving(r)'
  BY <1>1, <1>4 DEF Serving, Edited, MayWrite, Finished, Quiet, Leads, Steps
<1> QED BY <1>1, <1>2, <1>3, <1>5, ServingAlone

LEMMA SerialRegenerate ==
    ASSUME IInv, SerialOK, NEW r \in Request, Regenerate(r), serial', faults' = 0
    PROVE  SerialOK'
<1>1. /\ pc[r] = "handler"
      /\ UNCHANGED <<present, store, jar, pc, cookie, committed, sent, arrived, faults, want,
                     serial>>
  BY DEF Regenerate, Calls, backend
<1>2. /\ sess'[r].content = sess[r].content /\ sess'[r].destroyed = sess[r].destroyed
      /\ shouldSave(sess'[r])
  <2>1. sess[r] \in SessionType /\ sess'[r] = Regenerated(sess[r])
    BY DEF IInv, TypeOK, Regenerate
  <2> QED BY <2>1 DEF Regenerated, SessionType, shouldSave
<1>3. serial /\ faults = 0 /\ ~Quiet(r) /\ ~Quiet(r)' BY <1>1 DEF Quiet
<1>4. \A q \in Request \ {r} : Quiet(q)' = Quiet(q) BY <1>1 DEF Quiet
<1>5. \A q \in Request : ~committed'[q] => ~sent'[q].set /\ ~arrived'[q]
  BY <1>1, <1>3 DEF SerialOK
<1>6. Serving(r) BY <1>3 DEF SerialOK
<1>7. Serving(r)'
  BY <1>1, <1>2, <1>6 DEF Serving, Shown, MayWrite, Finished, Quiet, Leads, Steps
<1> QED BY <1>3, <1>4, <1>5, <1>7, ServingAlone

LEMMA SerialCommit ==
    ASSUME IInv, SerialOK, NEW r \in Request, Committing(r), serial', faults' = 0
    PROVE  SerialOK'
<1>1. serial /\ faults = 0 /\ ~Quiet(r) /\ pc[r] = "handler" BY DEF Committing, Quiet
<1>2. committed'[r] /\ \A q \in Request \ {r} : pc'[q] = pc[q] /\ committed'[q] = committed[q]
  BY DEF Committing, IInv, TypeOK
<1>3. \A q \in Request \ {r} : Quiet(q)' = Quiet(q) BY <1>2 DEF Committing, Quiet
<1>4. \A q \in Request : ~committed'[q] => ~sent'[q].set /\ ~arrived'[q]
  BY <1>1, <1>2 DEF Committing, SerialOK
<1>5. Serving(r) /\ (~committed[r] => ~sent[r].set /\ ~arrived[r])
  BY <1>1 DEF SerialOK
<1>6. \A c : Leads(c)' = Leads(c) BY DEF Committing, Leads
<1>7. UNCHANGED <<sent, arrived, jar, want>> /\ (pc'[r] # "done" => sess'[r] = sess[r])
  BY DEF Committing
<1>8. CASE committed[r]
  <2>1. pc'[r] = "done" BY <1>8 DEF Committing
  <2>2. Leads(IF sent[r].set /\ ~arrived[r] THEN sent[r].jar ELSE jar)
    BY <1>1, <1>5, <1>8 DEF Serving, Finished
  <2>3. Leads(IF sent[r].set /\ ~arrived[r] THEN sent[r].jar ELSE jar)'
    BY <1>7, <2>2 DEF Committing, Leads
  <2>4. ~Quiet(r)' => Serving(r)' BY <1>7, <2>1, <2>3 DEF Serving, MayWrite, Steps
  <2>5. Quiet(r)' => Leads(jar)' BY <2>1, <2>3 DEF Quiet
  <2> QED BY <1>1, <1>3, <1>4, <2>4, <2>5, ServingAlone
<1>9. CASE ~committed[r] /\ pc'[r] \in {"handler", "done"}
  <2>1. ~sess[r].destroyed /\ ~shouldSave(sess[r]) BY <1>9 DEF Committing
  <2>2. Leads(jar)' BY <1>1, <1>5, <1>6, <1>7, <1>9, <2>1 DEF Serving
  <2>3. ~Quiet(r)' => Serving(r)'
    BY <1>2, <1>5, <1>7, <1>9, <2>2 DEF Serving, MayWrite, Steps
  <2> QED BY <1>1, <1>3, <1>4, <2>2, <2>3, ServingAlone
<1>10. CASE pc'[r] \in Steps
  <2>1. ~committed[r] BY <1>10 DEF Committing, Steps
  <2>2. /\ pc'[r] \in {"saveOld", "save"} => ~sess[r].destroyed
        /\ pc'[r] \in {"destroyOld", "destroyID"} => sess[r].destroyed
    BY DEF Committing
  <2>3. want = Shown(sess[r]) BY <1>1, <1>5, <2>1 DEF Serving, MayWrite
  <2>4. pc'[r] \notin {"sent", "handler", "done"} BY <1>10 DEF Steps
  <2>5. Serving(r)'
    BY <1>5, <1>7, <2>1, <2>2, <2>3, <2>4 DEF Serving, Finished
  <2>6. ~Quiet(r)' BY <1>10 DEF Quiet, Steps
  <2> QED BY <1>1, <1>3, <1>4, <2>5, <2>6, ServingAlone
<1>11. pc'[r] \in Steps \cup {"handler", "done"} BY DEF Committing
<1> QED BY <1>8, <1>9, <1>10, <1>11

LEMMA SerialSend ==
    ASSUME IInv, SerialOK, NEW r \in Request, Send(r), serial', faults' = 0
    PROVE  SerialOK'
<1>1. /\ serial /\ faults = 0 /\ pc[r] = "idle" /\ pc'[r] = "sent" /\ cookie'[r] = jar
      /\ UNCHANGED <<present, store, jar, sess, committed, sent, arrived, want>>
      /\ \A q \in Request \ {r} : Quiet(q)
      /\ \A q \in Request \ {r} : pc'[q] = pc[q]
  BY DEF Send, Quiet, IInv, TypeOK, backend
<1>2. \A q \in Request : Quiet(q) BY <1>1 DEF Quiet
<1>3. Leads(jar) BY <1>1, <1>2 DEF SerialOK
<1>4. \A q \in Request \ {r} : Quiet(q)' BY <1>1 DEF Quiet
<1>5. Serving(r)' BY <1>1, <1>3 DEF Serving, MayWrite, Finished, Leads, Steps
<1>6. ~Quiet(r)' BY <1>1 DEF Quiet
<1>7. \A q \in Request : ~committed'[q] => ~sent'[q].set /\ ~arrived'[q]
  BY <1>1 DEF SerialOK
<1> QED BY <1>4, <1>5, <1>6, <1>7 DEF SerialOK

LEMMA SerialReceive ==
    ASSUME IInv, SerialOK, NEW r \in Request, Receive(r), serial', faults' = 0
    PROVE  SerialOK'
<1>1. /\ serial /\ faults = 0 /\ pc[r] \in {"handler", "done"} /\ sent[r].set /\ ~arrived[r]
      /\ UNCHANGED <<present, store, pc, cookie, sess, committed, sent, want>>
      /\ arrived'[r] /\ jar' = sent[r].jar
      /\ \A q \in Request \ {r} : arrived'[q] = arrived[q]
  BY DEF Receive, IInv, TypeOK, backend, request, history
<1>2. ~Quiet(r) /\ committed[r] BY <1>1 DEF Quiet, SerialOK
<1>3. Leads(sent[r].jar) BY <1>1, <1>2 DEF SerialOK, Serving, Finished
<1>4. Leads(jar)' BY <1>1, <1>3 DEF Leads
<1>5. \A q \in Request \ {r} : Quiet(q)' = Quiet(q) BY <1>1 DEF Quiet
<1>6. \A q \in Request : ~committed'[q] => ~sent'[q].set /\ ~arrived'[q]
  BY <1>1, <1>2 DEF SerialOK
<1>7. Serving(r)' BY <1>1, <1>2, <1>4 DEF Serving, MayWrite, Steps
<1> QED BY <1>1, <1>2, <1>4, <1>5, <1>6, <1>7, ServingAlone

LEMMA SerialLoad ==
    ASSUME IInv, SerialOK, NEW r \in Request, serial', faults' = 0,
           LoadFound(r) \/ \E err \in BOOLEAN : LoadFresh(r, err)
    PROVE  SerialOK'
<1>1. /\ serial /\ pc[r] = "sent" /\ pc' = [pc EXCEPT ![r] = "handler"]
      /\ UNCHANGED <<present, store, jar, committed, sent, arrived, want>>
  BY DEF LoadFound, LoadFresh, backend, history
<1>2. faults = 0
  <2>1. faults \in Nat /\ (faults' = faults \/ faults' = faults + 1)
    BY DEF LoadFound, LoadFresh, Outcome, IInv, TypeOK
  <2> QED BY <2>1
<1>3. pc'[r] = "handler" /\ \A q \in Request \ {r} : pc'[q] = pc[q]
  BY <1>1 DEF IInv, TypeOK
<1>4. ~committed[r] BY <1>1 DEF IInv, FlowOK
<1>5. ~Quiet(r) /\ ~Quiet(r)' BY <1>1, <1>3 DEF Quiet
<1>6. cookie[r] = jar /\ Leads(jar) BY <1>1, <1>2, <1>5 DEF SerialOK, Serving
<1>7. ~sess'[r].destroyed /\ sess'[r].content = want
  <2>1. CASE LoadFound(r)
    <3>1. PICK i \in cookie[r] \cap present : sess' = [sess EXCEPT ![r] = sessionFromStored(i)]
      BY <2>1 DEF LoadFound
    <3>2. sess'[r] = sessionFromStored(i) BY <3>1 DEF IInv, TypeOK
    <3>3. store[i] = want
      <4>1. \A j \in jar : j = i BY <1>6, <3>1 DEF IInv, TypeOK, Optional
      <4> QED BY <1>6, <3>1, <4>1 DEF Leads
    <3> QED BY <3>2, <3>3 DEF sessionFromStored, NoSession
  <2>2. ASSUME NEW err \in BOOLEAN, LoadFresh(r, err)
        PROVE  ~sess'[r].destroyed /\ sess'[r].content = want
    <3>1. ~err
      <4>1. faults \in Nat BY DEF IInv, TypeOK
      <4> QED BY <2>2, <4>1 DEF LoadFresh, Outcome
    <3>2. want = Empty BY <1>6, <2>2, <3>1 DEF LoadFresh, Leads
    <3>3. sess'[r] = freshSession(minted + 1) BY <2>2 DEF LoadFresh, FreshId, IInv, TypeOK
    <3> QED BY <3>2, <3>3 DEF freshSession, NoSession
  <2> QED BY <2>1, <2>2
<1>8. Leads(jar)' BY <1>1, <1>6 DEF Leads
<1>9. Serving(r)'
  BY <1>1, <1>3, <1>4, <1>7, <1>8 DEF Serving, Shown, MayWrite, Finished, Steps
<1>10. \A q \in Request \ {r} : Quiet(q)' = Quiet(q) BY <1>1, <1>3 DEF Quiet
<1>11. \A q \in Request : ~committed'[q] => ~sent'[q].set /\ ~arrived'[q]
  BY <1>1, <1>2 DEF SerialOK
<1> QED BY <1>1, <1>2, <1>5, <1>9, <1>10, <1>11, ServingAlone

\* A request that stops early has failed, unless its commit is over.
LEMMA SerialStop ==
    ASSUME IInv, SerialOK, NEW r \in Request, serial', faults' = 0, LoadStop(r) \/ Panic(r)
    PROVE  SerialOK'
<1>1. faults \in Nat BY DEF IInv, TypeOK
<1>2. /\ Panic(r) /\ committed[r] /\ faults = 0
  BY <1>1 DEF LoadStop, Panic, Outcome
<1>3. /\ serial /\ pc[r] = "handler" /\ pc' = [pc EXCEPT ![r] = "done"]
      /\ UNCHANGED <<present, store, jar, committed, sent, arrived, want>>
  BY <1>2 DEF Panic, backend, history
<1>4. pc'[r] = "done" /\ \A q \in Request \ {r} : pc'[q] = pc[q]
  BY <1>3 DEF IInv, TypeOK
<1>5. ~Quiet(r) BY <1>3 DEF Quiet
<1>6. Leads(IF sent[r].set /\ ~arrived[r] THEN sent[r].jar ELSE jar)
  BY <1>2, <1>3, <1>5 DEF SerialOK, Serving, Finished
<1>7. Leads(IF sent[r].set /\ ~arrived[r] THEN sent[r].jar ELSE jar)'
  BY <1>3, <1>6 DEF Leads
<1>8. ~Quiet(r)' => Serving(r)' BY <1>4, <1>7 DEF Serving, MayWrite, Steps
<1>9. Quiet(r)' => Leads(jar)' BY <1>4, <1>7 DEF Quiet
<1>10. \A q \in Request \ {r} : Quiet(q)' = Quiet(q) BY <1>3, <1>4 DEF Quiet
<1>11. \A q \in Request : ~committed'[q] => ~sent'[q].set /\ ~arrived'[q]
  BY <1>2, <1>3 DEF SerialOK
<1> QED BY <1>2, <1>3, <1>5, <1>8, <1>9, <1>10, <1>11, ServingAlone

LEMMA SerialStore ==
    ASSUME IInv, SerialOK, NEW r \in Request, serial', faults' = 0, Store(r)
    PROVE  SerialOK'
<1>1. PICK ok \in BOOLEAN, effect \in BOOLEAN :
          DeleteOld(r, ok, effect) \/ DeleteID(r, ok, effect) \/ Save(r, ok, effect)
  BY DEF Store
<1>2. ok /\ effect /\ faults = 0
  <2>1. faults \in Nat BY DEF IInv, TypeOK
  <2>2. Outcome(r, ok) /\ (ok => effect) BY <1>1 DEF DeleteOld, DeleteID, Save
  <2> QED BY <2>1, <2>2 DEF Outcome
<1>3. /\ serial /\ pc[r] \in Steps
      /\ UNCHANGED <<jar, committed, arrived, want>>
  BY <1>1 DEF DeleteOld, DeleteID, Save, history, Steps
<1>4. committed[r] BY <1>3 DEF IInv, FlowOK
<1>5. ~Quiet(r) BY <1>3 DEF Quiet, Steps
<1>6. Serving(r) BY <1>2, <1>3, <1>5 DEF SerialOK
<1>7. want = Shown(sess[r]) /\ ~sent[r].set /\ ~arrived[r]
  BY <1>3, <1>6 DEF Serving, MayWrite
<1>8. CASE DeleteOld(r, ok, effect)
  <2>1. /\ UNCHANGED <<sess, sent>> /\ \A q \in Request \ {r} : pc'[q] = pc[q]
        /\ \/ pc[r] = "saveOld" /\ pc'[r] = "save"
           \/ pc[r] = "destroyOld" /\ pc'[r] = "destroyID"
    BY <1>8 DEF DeleteOld, IInv, TypeOK
  <2>2. Serving(r)'
    BY <1>3, <1>6, <1>7, <2>1 DEF Serving, MayWrite, Finished, Steps
  <2>3. ~Quiet(r)' BY <2>1 DEF Quiet
  <2>4. \A q \in Request \ {r} : Quiet(q)' = Quiet(q) BY <1>3, <2>1 DEF Quiet
  <2>5. \A q \in Request : ~committed'[q] => ~sent'[q].set /\ ~arrived'[q]
    BY <1>2, <1>3, <2>1 DEF SerialOK
  <2> QED BY <1>2, <1>3, <1>5, <2>2, <2>3, <2>4, <2>5, ServingAlone
<1>9. CASE DeleteID(r, ok, effect) \/ Save(r, ok, effect)
  <2>1. Ending(r, ok) BY <1>9, StoreEnds DEF IInv
  <2>2. \A q \in Request \ {r} : sent'[q] = sent[q]
    BY <1>9 DEF DeleteID, Save, IInv, TypeOK
  <2>3. sent'[r].set /\ Leads(sent[r].jar)'
    <3>1. CASE DeleteID(r, ok, effect)
      <4>1. want = Empty
        BY <1>6, <1>7, <3>1 DEF DeleteID, Serving, Shown
      <4>2. sent'[r].set /\ sent'[r].jar = {}
        BY <3>1 DEF DeleteID, ExpireCookie, IInv, TypeOK
      <4> QED BY <1>3, <4>1, <4>2 DEF Leads
    <3>2. CASE Save(r, ok, effect)
      <4>1. want = sess[r].content BY <1>6, <1>7, <3>2 DEF Save, Serving, Shown
      <4>2. sess[r].id \in Cookie BY DEF IInv, TypeOK, SessionType
      <4>3. sess[r].id \in present' /\ store'[sess[r].id] = sess[r].content
        BY <1>2, <3>2, <4>2 DEF Save, IInv, TypeOK
      <4>4. sent'[r].set /\ sent'[r].jar = {sess[r].id}
        BY <1>2, <3>2 DEF Save, SessionCookie, IInv, TypeOK
      <4> QED BY <1>3, <4>1, <4>3, <4>4 DEF Leads
    <3> QED BY <1>9, <3>1, <3>2
  <2>4. ~Quiet(r)' BY <1>3, <1>7, <2>1, <2>3 DEF Ending, Quiet
  <2>5. Serving(r)'
    BY <1>3, <1>4, <1>7, <2>1, <2>3 DEF Ending, Serving, MayWrite, Steps
  <2>6. \A q \in Request \ {r} : Quiet(q)' = Quiet(q) BY <2>1, <2>2 DEF Ending, Quiet
  <2>7. \A q \in Request : ~committed'[q] => ~sent'[q].set /\ ~arrived'[q]
    BY <1>2, <1>3, <1>4, <2>2 DEF SerialOK
  <2> QED BY <1>2, <1>3, <1>5, <2>4, <2>5, <2>6, <2>7, ServingAlone
<1> QED BY <1>1, <1>8, <1>9

LEMMA SerialStep ==
    ASSUME IInv, SerialOK, [Next]_vars PROVE SerialOK'
<1> SUFFICES ASSUME serial', faults' = 0 PROVE SerialOK' BY DEF SerialOK
<1>0. TypeOK BY DEF IInv
<1>1. ASSUME NEW r \in Request, Send(r) \/ Receive(r) PROVE SerialOK'
  BY <1>1, SerialSend, SerialReceive
<1>2. ASSUME NEW r \in Request, LoadFound(r) \/ \E err \in BOOLEAN : LoadFresh(r, err)
      PROVE  SerialOK'
  BY <1>2, SerialLoad
<1>3. ASSUME NEW r \in Request, LoadStop(r) \/ Panic(r) PROVE SerialOK' BY <1>3, SerialStop
<1>4. ASSUME NEW r \in Request,
             \/ Set(r) \/ Delete(r) \/ Flash(r) \/ ConsumeFlash(r) \/ CSRFToken(r)
             \/ Destroy(r)
      PROVE  SerialOK'
  BY <1>0, <1>4, HandlerEdits, SerialEdit
<1>5. ASSUME NEW r \in Request, Regenerate(r) PROVE SerialOK' BY <1>5, SerialRegenerate
<1>6. ASSUME NEW r \in Request, Write(r) \/ Return(r) PROVE SerialOK'
  BY <1>0, <1>6, HandlerCommits, SerialCommit
<1>7. ASSUME NEW r \in Request, Store(r) PROVE SerialOK' BY <1>7, SerialStore
<1>8. ASSUME NEW i \in Cookie, Expire(i) PROVE SerialOK'
  <2>1. faults \in Nat BY DEF IInv, TypeOK
  <2> QED BY <1>8, <2>1 DEF Expire
<1>9. CASE UNCHANGED vars
  BY <1>9
  DEF vars, backend, request, history, fallout, SerialOK, Serving, MayWrite, Finished,
      Quiet, Leads
<1>10. CASE Next
  BY <1>1, <1>2, <1>3, <1>4, <1>5, <1>6, <1>7, <1>8, <1>10, Zenon DEF Next, Handler
<1> QED BY <1>9, <1>10

----------------------------------------------------------------------------
\* Flash messages.  As long as nothing fails and nobody commits over an entry that has
\* changed, a message is in one place: an entry, with those who loaded it from there, or
\* a request that has deleted that entry, or the request that took it.
Src(q) == IF sess[q].oldID = {} THEN {sess[q].id} ELSE sess[q].oldID
Detached(q) == pc[q] \in {"save", "destroyID"} /\ sess[q].oldID # {}
InStore(i, m) == i \in present /\ m \in store[i].flash
Held(q, m) == MayWrite(q) /\ m # q /\ m \in sess[q].content.flash \cup got[q]
Took(q, m) == Finished(q) /\ m \in got[q]

IssuedOK ==
    /\ \A i \in Cookie : \A m \in store[i].flash : Finished(m)
    /\ \A q \in Request : \A m \in sess[q].content.flash \cup got[q] : m # q => Finished(m)
    /\ \A q \in Request :
        /\ q \notin got[q]
        /\ MayWrite(q) => sess[q].content.flash \cap got[q] = {}
        /\ pc[q] \in {"idle", "sent"} => got[q] = {}
        /\ pc[q] = "handler" /\ ~committed[q] /\ got[q] # {} => sess[q].consumed
        /\ pc[q] \in {"saveOld", "destroyOld"} => sess[q].oldID # {}

NoFailure == \A p \in Request : ~failed[p]

OnePlace(m) ==
    /\ \A i, j \in Cookie : InStore(i, m) /\ InStore(j, m) => i = j
    /\ \A q \in Request : Held(q, m) /\ q \notin behind /\ ~Detached(q) =>
          \A i \in Src(q) : InStore(i, m)
    /\ \A q \in Request : Held(q, m) /\ q \notin behind /\ Detached(q) =>
          /\ \A i \in Cookie : ~InStore(i, m)
          /\ \A p \in Request : ~Took(p, m)
          /\ \A p \in Request \ {q} : Held(p, m) => p \in behind
    /\ \A q \in Request : Took(q, m) =>
          /\ \A i \in Cookie : ~InStore(i, m)
          /\ \A p \in Request \ {q} : ~Took(p, m)
          /\ \A p \in Request : Held(p, m) => p \in behind

FlashOK == ~stale /\ NoFailure => \A m \in Request : OnePlace(m)

\* Fewer holders and the same entries: the messages stay where they are.
LEMMA PlaceKept ==
    ASSUME NEW m \in Request, OnePlace(m), UNCHANGED <<present, store, behind>>,
           \A q \in Request : Held(q, m)' => Held(q, m) /\ Src(q)' = Src(q)
                                             /\ Detached(q)' = Detached(q),
           \A q \in Request : Took(q, m)' => Took(q, m)
    PROVE  OnePlace(m)'
BY DEF OnePlace, InStore

\* The same for a step that neither touches the store nor reports an error.
LEMMA FlashKept ==
    ASSUME FlashOK, UNCHANGED <<present, store, behind, stale>>,
           \A q \in Request : failed[q] => failed'[q],
           NoFailure' => \A m, q \in Request :
               /\ Held(q, m)' => Held(q, m) /\ Src(q)' = Src(q) /\ Detached(q)' = Detached(q)
               /\ Took(q, m)' => Took(q, m)
    PROVE  FlashOK'
<1> SUFFICES ASSUME ~stale', NoFailure', NEW m \in Request PROVE OnePlace(m)'
  BY DEF FlashOK
<1>1. OnePlace(m) BY DEF FlashOK, NoFailure
<1> QED BY <1>1, PlaceKept

LEMMA FlashEdit ==
    ASSUME IInv, IssuedOK, FlashOK, NEW r \in Request, Edited(r)
    PROVE  IssuedOK' /\ FlashOK'
<1>1. \A q \in Request : Finished(q)' = Finished(q) BY DEF Edited, Finished
<1>2. \A q \in Request : MayWrite(q)' = MayWrite(q) BY DEF Edited, MayWrite
<1>3. /\ pc[r] = "handler" /\ UNCHANGED <<present, store, pc, committed, failed, behind, stale>>
      /\ \A q \in Request \ {r} : sess'[q] = sess[q] /\ got'[q] = got[q]
  BY DEF Edited
<1>4. IssuedOK'
  <2>1. \A i \in Cookie : \A m \in store[i].flash : m \in Request
    BY DEF IInv, TypeOK, Stored, Value
  <2>2. \A q \in Request : sess[q].content.flash \subseteq Request /\ got[q] \subseteq Request
    BY DEF IInv, TypeOK, SessionType, Stored, Value
  <2>3. \A i \in Cookie : \A m \in store'[i].flash : Finished(m)'
    BY <1>1, <1>3, <2>1 DEF IssuedOK
  <2>4. \A q \in Request : \A m \in sess'[q].content.flash \cup got'[q] : m # q => Finished(m)'
    BY <1>1, <1>3, <2>2 DEF IssuedOK, Edited
  <2>5. \A q \in Request \ {r} :
        /\ q \notin got'[q]
        /\ MayWrite(q)' => sess'[q].content.flash \cap got'[q] = {}
        /\ pc'[q] \in {"idle", "sent"} => got'[q] = {}
        /\ pc'[q] = "handler" /\ ~committed'[q] /\ got'[q] # {} => sess'[q].consumed
        /\ pc'[q] \in {"saveOld", "destroyOld"} => sess'[q].oldID # {}
    BY <1>2, <1>3 DEF IssuedOK
  <2>6. r \notin got'[r] BY DEF Edited, IssuedOK
  <2>7. MayWrite(r)' => sess'[r].content.flash \cap got'[r] = {}
    BY <1>2, <1>3 DEF Edited, IssuedOK, MayWrite, Steps
  <2>8. ~committed'[r] /\ got'[r] # {} => sess'[r].consumed BY <1>3 DEF Edited, IssuedOK
  <2> QED BY <1>3, <2>3, <2>4, <2>5, <2>6, <2>7, <2>8 DEF IssuedOK
<1>5. \A m, q \in Request :
        /\ Held(q, m)' => Held(q, m) /\ Src(q)' = Src(q) /\ Detached(q)' = Detached(q)
        /\ Took(q, m)' => Took(q, m)
  BY <1>1, <1>2, <1>3, ZenonT(40) DEF Edited, Held, Took, Src, Detached, Finished
<1>6. FlashOK' BY <1>3, <1>5, FlashKept
<1> QED BY <1>4, <1>6

\* The messages in entries and sessions come from requests.
LEMMA MessagesTyped ==
    ASSUME TypeOK
    PROVE  /\ \A i \in Cookie : store[i].flash \subseteq Request
           /\ \A q \in Request : sess[q].content.flash \subseteq Request
           /\ \A q \in Request : got[q] \subseteq Request
BY DEF TypeOK, SessionType, Stored, Value

LEMMA FlashRegenerate ==
    ASSUME IInv, IssuedOK, FlashOK, NEW r \in Request, Regenerate(r)
    PROVE  IssuedOK' /\ FlashOK'
<1>1. /\ pc[r] = "handler"
      /\ UNCHANGED <<present, store, pc, committed, failed, got, behind, stale>>
      /\ \A q \in Request \ {r} : sess'[q] = sess[q]
      /\ sess'[r].oldID = IF sess[r].oldID = {} THEN {sess[r].id} ELSE sess[r].oldID
      /\ sess'[r].content = sess[r].content
  BY RegenerateEdits DEF IInv, Regenerate, Calls, backend, fallout
<1>2. sess'[r].consumed = sess[r].consumed
  <2>1. sess[r] \in SessionType /\ sess'[r] = Regenerated(sess[r])
    BY DEF IInv, TypeOK, Regenerate
  <2> QED BY <2>1 DEF Regenerated, SessionType
<1>3. \A q \in Request : sess'[q].content = sess[q].content /\ sess'[q].consumed = sess[q].consumed
  BY <1>1, <1>2
<1>4. IssuedOK' BY <1>1, <1>3 DEF IssuedOK, Finished, MayWrite
<1>5. \A m, q \in Request :
        /\ Held(q, m)' => Held(q, m) /\ Src(q)' = Src(q) /\ Detached(q)' = Detached(q)
        /\ Took(q, m)' => Took(q, m)
  BY <1>1, <1>3 DEF Held, Took, Src, Detached, Finished, MayWrite
<1>6. FlashOK' BY <1>1, <1>5, FlashKept
<1> QED BY <1>4, <1>6

\* A commit that has nothing to do has consumed nothing.
LEMMA FlashCommit ==
    ASSUME IInv, IssuedOK, FlashOK, NEW r \in Request, Committing(r)
    PROVE  IssuedOK' /\ FlashOK'
<1>1. /\ pc[r] = "handler" /\ committed'[r]
      /\ UNCHANGED <<present, store, failed, got, behind, stale>>
      /\ \A q \in Request \ {r} : pc'[q] = pc[q] /\ committed'[q] = committed[q]
                                  /\ sess'[q] = sess[q]
      /\ sess'[r] = IF pc'[r] = "done" THEN NoSession ELSE sess[r]
      /\ pc'[r] \in Steps \cup {"handler", "done"}
      /\ committed[r] => pc'[r] = "done"
  BY DEF Committing, IInv, TypeOK
<1>2. \A q \in Request : Finished(q) => Finished(q)' BY <1>1 DEF Finished
<1>3. NoSession.content.flash = {} BY DEF NoSession, Empty
<1>4. Finished(r)' /\ ~committed[r] => got[r] = {}
  BY <1>1 DEF Committing, Finished, shouldSave, IssuedOK
<1>5. /\ pc'[r] \in {"saveOld", "destroyOld"} => sess'[r].oldID # {}
      /\ ~Detached(r)'
  <2>1. pc'[r] \in {"saveOld", "destroyOld"} => sess[r].oldID # {} BY DEF Committing
  <2>2. pc'[r] \in {"save", "destroyID"} => sess[r].oldID = {} BY DEF Committing
  <2> QED BY <1>1, <2>1, <2>2 DEF Detached
<1>6. IssuedOK'
  <2>1. \A i \in Cookie : \A m \in store'[i].flash : Finished(m)'
    BY <1>1, <1>2, MessagesTyped DEF IssuedOK, IInv
  <2>2. \A q \in Request : \A m \in sess'[q].content.flash \cup got'[q] : m # q => Finished(m)'
    BY <1>1, <1>2, <1>3, MessagesTyped DEF IssuedOK, IInv
  <2>3. \A q \in Request : q \notin got'[q] /\ (pc'[q] \in {"idle", "sent"} => got'[q] = {})
    BY <1>1 DEF IssuedOK, Steps
  <2>4. \A q \in Request : MayWrite(q)' => sess'[q].content.flash \cap got'[q] = {}
    BY <1>1, <1>3 DEF IssuedOK, MayWrite, Steps
  <2>5. \A q \in Request :
        /\ pc'[q] = "handler" /\ ~committed'[q] /\ got'[q] # {} => sess'[q].consumed
        /\ pc'[q] \in {"saveOld", "destroyOld"} => sess'[q].oldID # {}
    BY <1>1, <1>5 DEF IssuedOK
  <2> QED BY <2>1, <2>2, <2>3, <2>4, <2>5 DEF IssuedOK
<1>7. \A m \in Request : Held(r, m)' => Held(r, m) /\ Src(r)' = Src(r)
                                        /\ Detached(r)' = Detached(r)
  BY <1>1, <1>3, <1>5 DEF Held, MayWrite, Src, Detached, Steps
<1>8. \A m \in Request : Took(r, m)' => Took(r, m)
  BY <1>1, <1>4 DEF Took, Finished
<1>9. \A m \in Request, q \in Request \ {r} :
        /\ Held(q, m)' => Held(q, m) /\ Src(q)' = Src(q) /\ Detached(q)' = Detached(q)
        /\ Took(q, m)' => Took(q, m)
  BY <1>1 DEF Held, Took, Src, Detached, Finished, MayWrite
<1>10. FlashOK' BY <1>1, <1>7, <1>8, <1>9, FlashKept
<1> QED BY <1>6, <1>10

LEMMA FlashStop ==
    ASSUME IInv, IssuedOK, FlashOK, NEW r \in Request, LoadStop(r) \/ Panic(r)
    PROVE  IssuedOK' /\ FlashOK'
<1>1. /\ pc[r] \in {"sent", "handler"} /\ pc'[r] = "done" /\ sess'[r] = NoSession
      /\ UNCHANGED <<present, store, committed, got, behind, stale>>
      /\ \A q \in Request \ {r} : pc'[q] = pc[q] /\ sess'[q] = sess[q]
  BY LeaveFrame DEF LoadStop, Panic, IInv, TypeOK, backend, history, fallout
<1>2. PICK ok \in BOOLEAN : Outcome(r, ok) BY DEF LoadStop, Panic, IInv, TypeOK
<1>3. \A q \in Request : failed[q] => failed'[q] BY <1>2, OutcomeFrame DEF IInv
<1>4. \A q \in Request : Finished(q) => Finished(q)' BY <1>1 DEF Finished
<1>5. NoSession.content.flash = {} BY DEF NoSession, Empty
<1>6. IssuedOK'
  <2>1. \A i \in Cookie : \A m \in store'[i].flash : Finished(m)'
    BY <1>1, <1>4, MessagesTyped DEF IssuedOK, IInv
  <2>2. \A q \in Request : \A m \in sess'[q].content.flash \cup got'[q] : m # q => Finished(m)'
    BY <1>1, <1>4, <1>5, MessagesTyped DEF IssuedOK, IInv
  <2>3. \A q \in Request :
        /\ q \notin got'[q]
        /\ MayWrite(q)' => sess'[q].content.flash \cap got'[q] = {}
        /\ pc'[q] \in {"idle", "sent"} => got'[q] = {}
        /\ pc'[q] = "handler" /\ ~committed'[q] /\ got'[q] # {} => sess'[q].consumed
        /\ pc'[q] \in {"saveOld", "destroyOld"} => sess'[q].oldID # {}
    BY <1>1, <1>5 DEF IssuedOK, MayWrite, Steps
  <2> QED BY <2>1, <2>2, <2>3 DEF IssuedOK
<1>7. \A m \in Request : ~Held(r, m)' BY <1>1 DEF Held, MayWrite, Steps
<1>8. \A m \in Request : NoFailure' /\ Took(r, m)' => Took(r, m)
  <2>1. Outcome(r, FALSE) => failed'[r] BY OutcomeFrame DEF IInv
  <2>2. ~failed'[r] => Panic(r) /\ committed[r]
    <3>1. LoadStop(r) => Outcome(r, FALSE) BY DEF LoadStop
    <3>2. Panic(r) => Outcome(r, committed[r]) BY DEF Panic
    <3>3. committed[r] \in BOOLEAN BY DEF IInv, TypeOK
    <3> QED BY <2>1, <3>1, <3>2, <3>3
  <2> QED BY <1>1, <2>2 DEF Took, Finished, NoFailure, Panic
<1>9. \A m \in Request, q \in Request \ {r} :
        /\ Held(q, m)' => Held(q, m) /\ Src(q)' = Src(q) /\ Detached(q)' = Detached(q)
        /\ Took(q, m)' => Took(q, m)
  BY <1>1 DEF Held, Took, Src, Detached, Finished, MayWrite
<1>10. FlashOK' BY <1>1, <1>3, <1>7, <1>8, <1>9, FlashKept
<1> QED BY <1>6, <1>10

LEMMA FlashBrowser ==
    ASSUME IInv, IssuedOK, FlashOK, NEW r \in Request, Send(r) \/ Receive(r)
    PROVE  IssuedOK' /\ FlashOK'
<1>1. /\ UNCHANGED <<present, store, sess, committed, failed, got, behind, stale>>
      /\ \A q \in Request : pc'[q] = pc[q] \/ (pc[q] = "idle" /\ pc'[q] = "sent")
  BY DEF Send, Receive, IInv, TypeOK, backend, request, history, fallout
<1>2. \A q \in Request : Finished(q)' = Finished(q) /\ MayWrite(q)' = MayWrite(q)
  BY <1>1 DEF Finished, MayWrite, Steps
<1>3. IssuedOK' BY <1>1, <1>2, MessagesTyped DEF IssuedOK, IInv
<1>4. \A m, q \in Request :
        /\ Held(q, m)' => Held(q, m) /\ Src(q)' = Src(q) /\ Detached(q)' = Detached(q)
        /\ Took(q, m)' => Took(q, m)
  BY <1>1, <1>2 DEF Held, Took, Src, Detached, MayWrite, Steps
<1>5. FlashOK' BY <1>1, <1>4, FlashKept
<1> QED BY <1>3, <1>5

LEMMA FlashLoad ==
    ASSUME IInv, IssuedOK, FlashOK, NEW r \in Request, Loading(r)
    PROVE  IssuedOK' /\ FlashOK'
<1>1. /\ pc[r] = "sent" /\ pc'[r] = "handler"
      /\ UNCHANGED <<present, store, committed, got, behind, stale>>
      /\ \A q \in Request \ {r} : pc'[q] = pc[q] /\ sess'[q] = sess[q]
      /\ \A q \in Request : failed[q] => failed'[q]
      /\ sess'[r].oldID = {}
      /\ present \subseteq Cookie
  BY DEF Loading, IInv, TypeOK
<1>2. \A q \in Request : Finished(q) => Finished(q)' BY <1>1 DEF Finished
<1>3. ~committed[r] /\ got[r] = {} BY <1>1 DEF IInv, FlowOK, IssuedOK
<1>4. \A m \in sess'[r].content.flash :
          sess'[r].id \in present /\ m \in store[sess'[r].id].flash
  BY DEF Loading, Empty
<1>5. IssuedOK'
  <2>1. \A i \in Cookie : \A m \in store'[i].flash : Finished(m)'
    BY <1>1, <1>2, MessagesTyped DEF IssuedOK, IInv
  <2>2. \A m \in sess'[r].content.flash : Finished(m)' BY <1>1, <1>4, <2>1
  <2>3. \A q \in Request : \A m \in sess'[q].content.flash \cup got'[q] : m # q => Finished(m)'
    BY <1>1, <1>2, <1>3, <2>2, MessagesTyped DEF IssuedOK, IInv
  <2>4. \A q \in Request :
        /\ q \notin got'[q]
        /\ MayWrite(q)' => sess'[q].content.flash \cap got'[q] = {}
        /\ pc'[q] \in {"idle", "sent"} => got'[q] = {}
        /\ pc'[q] = "handler" /\ ~committed'[q] /\ got'[q] # {} => sess'[q].consumed
        /\ pc'[q] \in {"saveOld", "destroyOld"} => sess'[q].oldID # {}
    BY <1>1, <1>3 DEF IssuedOK, MayWrite
  <2> QED BY <2>1, <2>3, <2>4 DEF IssuedOK
<1>6. FlashOK'
  <2> SUFFICES ASSUME ~stale', NoFailure', NEW m \in Request PROVE OnePlace(m)'
    BY DEF FlashOK
  <2>1. OnePlace(m) BY <1>1 DEF FlashOK, NoFailure
  <2>2. \A q \in Request \ {r} : /\ Held(q, m)' = Held(q, m) /\ Took(q, m)' = Took(q, m)
                                 /\ Src(q)' = Src(q) /\ Detached(q)' = Detached(q)
    BY <1>1 DEF Held, Took, Src, Detached, Finished, MayWrite
  <2>3. \A i \in Cookie : InStore(i, m)' = InStore(i, m) BY <1>1 DEF InStore
  <2>4. ~Took(r, m) /\ ~Took(r, m)' /\ ~Held(r, m) /\ ~Detached(r)'
    BY <1>1, <1>3 DEF Took, Held, MayWrite, Detached, Steps
  <2>5. Held(r, m)' => /\ Src(r)' \subseteq Cookie
                       /\ \A i \in Src(r)' : InStore(i, m)
                       /\ \E i \in Cookie : InStore(i, m)
    BY <1>1, <1>3, <1>4 DEF Held, Src, InStore
  <2>6. \A i, j \in Cookie : InStore(i, m)' /\ InStore(j, m)' => i = j
    BY <2>1, <2>3 DEF OnePlace
  <2>7. \A q \in Request : Held(q, m)' /\ q \notin behind' /\ ~Detached(q)' =>
            \A i \in Src(q)' : InStore(i, m)'
    <3>1. \A i \in Src(r)' : Held(r, m)' => InStore(i, m)' BY <2>3, <2>5
    <3>2. \A q \in Request \ {r} : Src(q) \subseteq Cookie
      BY DEF Src, IInv, TypeOK, SessionType, Optional
    <3> QED BY <1>1, <2>1, <2>2, <2>3, <3>1, <3>2 DEF OnePlace
  <2>8. \A q \in Request : Held(q, m)' /\ q \notin behind' /\ Detached(q)' =>
          /\ \A i \in Cookie : ~InStore(i, m)'
          /\ \A p \in Request : ~Took(p, m)'
          /\ \A p \in Request \ {q} : Held(p, m)' => p \in behind'
    <3> SUFFICES ASSUME NEW q \in Request, Held(q, m)', q \notin behind', Detached(q)'
                 PROVE  /\ \A i \in Cookie : ~InStore(i, m)'
                        /\ \A p \in Request : ~Took(p, m)'
                        /\ \A p \in Request \ {q} : Held(p, m)' => p \in behind'
      OBVIOUS
    <3>1. q # r /\ Held(q, m) /\ q \notin behind /\ Detached(q) BY <1>1, <2>2, <2>4
    <3>2. ~Held(r, m)' BY <2>1, <2>5, <3>1 DEF OnePlace
    <3> QED BY <1>1, <2>1, <2>2, <2>3, <2>4, <3>1, <3>2 DEF OnePlace
  <2>9. \A q \in Request : Took(q, m)' =>
          /\ \A i \in Cookie : ~InStore(i, m)'
          /\ \A p \in Request \ {q} : ~Took(p, m)'
          /\ \A p \in Request : Held(p, m)' => p \in behind'
    <3> SUFFICES ASSUME NEW q \in Request, Took(q, m)'
                 PROVE  /\ \A i \in Cookie : ~InStore(i, m)'
                        /\ \A p \in Request \ {q} : ~Took(p, m)'
                        /\ \A p \in Request : Held(p, m)' => p \in behind'
      OBVIOUS
    <3>1. q # r /\ Took(q, m) BY <2>2, <2>4
    <3>2. ~Held(r, m)' BY <2>1, <2>5, <3>1 DEF OnePlace
    <3> QED BY <1>1, <2>1, <2>2, <2>3, <2>4, <3>1, <3>2 DEF OnePlace
  <2> QED BY <2>6, <2>7, <2>8, <2>9 DEF OnePlace
<1> QED BY <1>5, <1>6

\* The ids a request works on are among those it holds.
LEMMA SrcHeld ==
    ASSUME TypeOK, NEW q \in Request
    PROVE  /\ Src(q) \subseteq Cookie /\ Src(q) # {}
           /\ Src(q) \subseteq {sess[q].id} \cup sess[q].oldID
BY DEF TypeOK, SessionType, Optional, Src

LEMMA FlashExpire ==
    ASSUME IInv, IssuedOK, FlashOK, NEW i \in Cookie, Expire(i)
    PROVE  IssuedOK' /\ FlashOK'
<1>1. /\ UNCHANGED <<store, pc, sess, committed, failed, got, stale>>
      /\ present' = present \ {i} /\ behind' = behind \cup Holders({i})
  BY DEF Expire, request, history
<1>2. IssuedOK' BY <1>1 DEF IssuedOK, Finished, MayWrite
<1>3. FlashOK'
  <2> SUFFICES ASSUME ~stale', NoFailure', NEW m \in Request PROVE OnePlace(m)'
    BY DEF FlashOK
  <2>1. OnePlace(m) BY <1>1 DEF FlashOK, NoFailure
  <2>2. \A q \in Request : /\ Held(q, m)' = Held(q, m) /\ Took(q, m)' = Took(q, m)
                           /\ Src(q)' = Src(q) /\ Detached(q)' = Detached(q)
    BY <1>1 DEF Held, Took, Src, Detached, Finished, MayWrite
  <2>3. /\ \A j \in Cookie : InStore(j, m)' => InStore(j, m)
        /\ \A j \in Cookie \ {i} : InStore(j, m) => InStore(j, m)'
    BY <1>1 DEF InStore
  <2>4. \A q \in Request : Held(q, m) /\ q \notin behind' =>
            q \notin behind /\ i \notin Src(q) /\ Src(q) \subseteq Cookie
    BY <1>1, SrcHeld, WritersHold DEF Held, IInv
  <2>5. \A q \in Request : Held(q, m)' /\ q \notin behind' /\ ~Detached(q)' =>
            \A j \in Src(q)' : InStore(j, m)'
    BY <2>1, <2>2, <2>3, <2>4 DEF OnePlace
  <2> QED BY <1>1, <2>1, <2>2, <2>3, <2>5 DEF OnePlace
<1> QED BY <1>2, <1>3

\* A store call of r on the ids that r works on: nobody else that is up to date has what
\* r holds.
LEMMA HolderAlone ==
    ASSUME IInv, NEW r \in Request, NEW m \in Request, OnePlace(m), Held(r, m),
           r \notin behind, NEW ids, ~Detached(r) => ids = Src(r),
           \A q \in Request \ {r} : q \in behind \/ q \in Holders(ids) => q \in behind'
    PROVE  /\ \A i \in Cookie \ ids : ~InStore(i, m)
           /\ \A p \in Request : ~Took(p, m)
           /\ \A p \in Request \ {r} : Held(p, m) => p \in behind'
<1>1. CASE Detached(r) BY <1>1 DEF OnePlace
<1>2. CASE ~Detached(r)
  <2>1. PICK j \in Cookie : j \in ids BY <1>2, SrcHeld DEF IInv
  <2>2. InStore(j, m) BY <1>2, <2>1 DEF OnePlace
  <2>3. \A i \in Cookie \ ids : ~InStore(i, m) BY <2>1, <2>2 DEF OnePlace
  <2>4. \A p \in Request : ~Took(p, m) BY <2>1, <2>2 DEF OnePlace
  <2>5. ASSUME NEW p \in Request \ {r}, Held(p, m), p \notin behind PROVE p \in behind'
    <3>1. ~Detached(p) BY <2>1, <2>2, <2>5 DEF OnePlace
    <3>2. \A i \in Src(p) : InStore(i, m) BY <2>5, <3>1 DEF OnePlace
    <3>3. PICK i \in Src(p) : i \in Cookie BY SrcHeld DEF IInv
    <3>4. i \in ids BY <2>3, <3>2, <3>3
    <3>5. p \in Holders(ids) BY <2>5, <3>3, <3>4, SrcHeld, WritersHold DEF Held, IInv
    <3> QED BY <3>5
  <2> QED BY <2>3, <2>4, <2>5
<1> QED BY <1>1, <1>2

\* What a store call leaves of the others.
LEMMA OthersAside ==
    ASSUME IInv, NEW r \in Request, NEW m \in Request, OnePlace(m), r \notin behind, NEW ids,
           \A q \in Request \ {r} : q \in behind \/ q \in Holders(ids) => q \in behind',
           NEW q \in Request \ {r}, Held(q, m), q \notin behind'
    PROVE  /\ q \notin behind /\ Src(q) \cap ids = {} /\ Src(q) \subseteq Cookie
           /\ ~Detached(q) => \A i \in Src(q) : i \notin ids /\ InStore(i, m)
<1>1. q \notin behind /\ q \notin Holders(ids) OBVIOUS
<1>2. Src(q) \cap ids = {} /\ Src(q) \subseteq Cookie
  BY <1>1, SrcHeld, WritersHold DEF Held, IInv
<1> QED BY <1>1, <1>2 DEF OnePlace

LEMMA PlaceMoved ==
    ASSUME IInv, NEW r \in Request, NEW m \in Request, OnePlace(m), r \notin behind, NEW ids,
           ~Detached(r) => ids = Src(r),
           \A q \in Request \ {r} : q \in behind \/ q \in Holders(ids) => q \in behind',
           \A q \in Request \ {r} : /\ Held(q, m)' = Held(q, m) /\ Took(q, m)' = Took(q, m)
                                    /\ Src(q)' = Src(q) /\ Detached(q)' = Detached(q),
           \A i \in Cookie \ ids : InStore(i, m)' = InStore(i, m),
           Held(r, m)' => Held(r, m) /\ Detached(r)' /\ ~Took(r, m)',
           Took(r, m)' => Held(r, m),
           \A i \in Cookie \cap ids :
               InStore(i, m)' => Held(r, m) /\ ~Held(r, m)' /\ ~Took(r, m)',
           \A i, j \in ids : i = j
    PROVE  OnePlace(m)'
<1>1. CASE Held(r, m)
  <2>1. /\ \A i \in Cookie \ ids : ~InStore(i, m)
        /\ \A p \in Request : ~Took(p, m)
        /\ \A p \in Request \ {r} : Held(p, m) => p \in behind'
    BY <1>1, HolderAlone
  <2>2. \A i \in Cookie : InStore(i, m)' => i \in ids /\ ~Held(r, m)' /\ ~Took(r, m)'
    BY <2>1
  <2>3. \A p \in Request \ {r} : ~Took(p, m)' /\ (Held(p, m)' => p \in behind') BY <2>1
  <2> QED BY <2>2, <2>3 DEF OnePlace
<1>2. CASE ~Held(r, m)
  <2>1. ~Held(r, m)' /\ ~Took(r, m)' /\ \A i \in Cookie : InStore(i, m)' => InStore(i, m)
    BY <1>2
  <2>2. \A q \in Request : Held(q, m)' /\ q \notin behind' /\ ~Detached(q)' =>
            \A i \in Src(q)' : InStore(i, m)'
    <3> SUFFICES ASSUME NEW q \in Request, Held(q, m)', q \notin behind', ~Detached(q)',
                        NEW i \in Src(q)'
                 PROVE  InStore(i, m)'
      OBVIOUS
    <3>1. q \in Request \ {r} /\ Held(q, m) /\ ~Detached(q) /\ i \in Src(q) BY <2>1
    <3>2. i \in Cookie /\ i \notin ids /\ InStore(i, m) BY <3>1, OthersAside
    <3> QED BY <3>2
  <2>3. \A q \in Request : Held(q, m)' => Held(q, m) /\ Detached(q)' = Detached(q) BY <2>1
  <2>4. \A q \in Request : Took(q, m)' => Took(q, m) BY <2>1
  <2>5. \A q \in Request : Held(q, m) => q # r /\ (q \in behind => q \in behind') BY <1>2
  <2> QED BY <2>1, <2>2, <2>3, <2>4, <2>5 DEF OnePlace
<1> QED BY <1>1, <1>2

\* Other requests do not notice a store call of r.
LEMMA OthersSame ==
    ASSUME NEW r \in Request, NEW m \in Request,
           UNCHANGED <<committed, got>>,
           \A q \in Request \ {r} : pc'[q] = pc[q] /\ sess'[q] = sess[q]
    PROVE  \A q \in Request \ {r} :
              /\ Held(q, m)' = Held(q, m) /\ Took(q, m)' = Took(q, m)
              /\ Src(q)' = Src(q) /\ Detached(q)' = Detached(q)
BY DEF Held, Took, Src, Detached, Finished, MayWrite

LEMMA FlashDeleteOld ==
    ASSUME IInv, IssuedOK, FlashOK, NEW r \in Request, NEW ok \in BOOLEAN,
           NEW effect \in BOOLEAN, DeleteOld(r, ok, effect)
    PROVE  IssuedOK' /\ FlashOK'
<1>1. /\ UNCHANGED <<store, sess, committed, got>>
      /\ \A q \in Request \ {r} : pc'[q] = pc[q]
      /\ \/ pc[r] = "saveOld" /\ pc'[r] = "save"
         \/ pc[r] = "destroyOld" /\ pc'[r] = "destroyID"
      /\ ok => present' = present \ sess[r].oldID
  BY DEF DeleteOld, history, IInv, TypeOK
<1>2. \A q \in Request : Finished(q)' = Finished(q) /\ MayWrite(q)' = MayWrite(q)
  BY <1>1 DEF Finished, MayWrite, Steps
<1>3. IssuedOK' BY <1>1, <1>2, MessagesTyped DEF IssuedOK, IInv
<1>4. FlashOK'
  <2> SUFFICES ASSUME ~stale', NoFailure', NEW m \in Request PROVE OnePlace(m)'
    BY DEF FlashOK
  <2>1. /\ \A q \in Request : failed[q] => failed'[q]
        /\ failed'[r] = (failed[r] \/ ~ok)
    BY OutcomeFrame DEF DeleteOld, IInv
  <2>2. ok /\ NoFailure BY <2>1 DEF NoFailure
  <2>3. ~stale /\ r \notin behind BY DEF DeleteOld, Disturb
  <2>4. OnePlace(m) BY <2>2, <2>3 DEF FlashOK
  <2> DEFINE ids == sess[r].oldID
  <2>5. ids = Src(r) BY <1>1 DEF IssuedOK, Src
  <2>6. \A q \in Request \ {r} : q \in behind \/ q \in Holders(ids) => q \in behind'
    BY DisturbFrame DEF DeleteOld, IInv
  <2>7. \A q \in Request \ {r} : /\ Held(q, m)' = Held(q, m) /\ Took(q, m)' = Took(q, m)
                                 /\ Src(q)' = Src(q) /\ Detached(q)' = Detached(q)
    BY <1>1, OthersSame
  <2>8. /\ \A i \in Cookie \ ids : InStore(i, m)' = InStore(i, m)
        /\ \A i \in Cookie \cap ids : ~InStore(i, m)'
    BY <1>1, <2>2 DEF InStore
  <2>9. Held(r, m)' => Held(r, m) /\ Detached(r)'
    BY <1>1, <1>2 DEF Held, Detached, IssuedOK
  <2>10. ~Took(r, m)' BY <1>1 DEF Took, Finished
  <2>11. \A i, j \in ids : i = j BY DEF IInv, TypeOK, SessionType, Optional
  <2> HIDE DEF ids
  <2> QED BY <2>3, <2>4, <2>5, <2>6, <2>7, <2>8, <2>9, <2>10, <2>11, PlaceMoved
<1> QED BY <1>3, <1>4

\* What a request leaves when its commit is over, apart from the entries.
LEMMA EndingIssued ==
    ASSUME IInv, IssuedOK, NEW r \in Request, NEW ok \in BOOLEAN, Ending(r, ok),
           \A i \in Cookie : \A m \in store'[i].flash :
               m \in store[i].flash \/ m \in sess[r].content.flash
    PROVE  IssuedOK'
<1>1. /\ pc[r] \in Steps /\ pc'[r] \in {"handler", "done"} /\ UNCHANGED <<committed, got>>
      /\ \A q \in Request \ {r} : pc'[q] = pc[q] /\ sess'[q] = sess[q]
      /\ sess'[r] = IF pc'[r] = "done" THEN NoSession ELSE sess[r]
  BY DEF Ending
<1>2. Finished(r)' BY <1>1 DEF Finished, IInv, FlowOK
<1>3. \A q \in Request : Finished(q) => Finished(q)' BY <1>1, <1>2 DEF Finished
<1>4. NoSession.content.flash = {} BY DEF NoSession, Empty
<1>5. \A i \in Cookie : \A m \in store'[i].flash : Finished(m)'
  BY <1>2, <1>3, MessagesTyped DEF IssuedOK, IInv
<1>6. \A q \in Request : \A m \in sess'[q].content.flash \cup got'[q] : m # q => Finished(m)'
  BY <1>1, <1>3, <1>4, MessagesTyped DEF IssuedOK, IInv
<1>7. \A q \in Request :
        /\ q \notin got'[q]
        /\ MayWrite(q)' => sess'[q].content.flash \cap got'[q] = {}
        /\ pc'[q] \in {"idle", "sent"} => got'[q] = {}
        /\ pc'[q] = "handler" /\ ~committed'[q] /\ got'[q] # {} => sess'[q].consumed
        /\ pc'[q] \in {"saveOld", "destroyOld"} => sess'[q].oldID # {}
  BY <1>1, <1>2 DEF IssuedOK, MayWrite, Finished, Steps
<1> QED BY <1>5, <1>6, <1>7 DEF IssuedOK

\* The last store call of r concerns the id of r.
LEMMA EndingPlace ==
    ASSUME IInv, IssuedOK, FlashOK, NEW r \in Request, NEW ok \in BOOLEAN, Ending(r, ok),
           pc[r] \in {"save", "destroyID"}, Disturb(r, {sess[r].id}), ~stale', NoFailure',
           NEW m \in Request,
           \A i \in Cookie \ {sess[r].id} : InStore(i, m)' = InStore(i, m),
           \A i \in Cookie \cap {sess[r].id} : InStore(i, m)' => Held(r, m) /\ m \notin got[r]
    PROVE  OnePlace(m)'
<1> DEFINE ids == {sess[r].id}
<1>1. /\ pc'[r] \in {"handler", "done"} /\ UNCHANGED <<committed, got>>
      /\ \A q \in Request \ {r} : pc'[q] = pc[q] /\ sess'[q] = sess[q]
      /\ \A q \in Request : failed[q] => failed'[q]
      /\ \A q \in Request \ {r} : q \in behind \/ q \in Holders(ids) => q \in behind'
  BY DEF Ending
<1>2. committed[r] BY DEF IInv, FlowOK, Steps
<1>3. NoFailure /\ ~stale /\ r \notin behind BY <1>1 DEF NoFailure, Disturb
<1>4. OnePlace(m) BY <1>3 DEF FlashOK
<1>5. ~Detached(r) => ids = Src(r) BY DEF Detached, Src
<1>6. ~Held(r, m)' BY <1>1, <1>2 DEF Held, MayWrite, Steps
<1>7. Took(r, m)' => Held(r, m) /\ m \in got[r]
  BY <1>1 DEF Took, Held, MayWrite, IssuedOK, Steps
<1>8. \A q \in Request \ {r} : /\ Held(q, m)' = Held(q, m) /\ Took(q, m)' = Took(q, m)
                               /\ Src(q)' = Src(q) /\ Detached(q)' = Detached(q)
  BY <1>1, OthersSame
<1>9. \A i \in Cookie \cap ids : InStore(i, m)' => Held(r, m) /\ ~Held(r, m)' /\ ~Took(r, m)'
  BY <1>6, <1>7
<1>10. \A i, j \in ids : i = j OBVIOUS
<1>11. \A i \in Cookie \ ids : InStore(i, m)' = InStore(i, m) OBVIOUS
<1> HIDE DEF ids
<1> QED BY <1>1, <1>3, <1>4, <1>5, <1>6, <1>7, <1>8, <1>9, <1>10, <1>11, PlaceMoved

LEMMA FlashDeleteID ==
    ASSUME IInv, IssuedOK, FlashOK, NEW r \in Request, NEW ok \in BOOLEAN,
           NEW effect \in BOOLEAN, DeleteID(r, ok, effect)
    PROVE  IssuedOK' /\ FlashOK'
<1>1. Ending(r, ok) BY StoreEnds DEF IInv
<1>2. /\ pc[r] = "destroyID" /\ store' = store /\ Disturb(r, {sess[r].id})
      /\ ok => present' = present \ {sess[r].id}
  BY DEF DeleteID
<1>3. IssuedOK' BY <1>1, <1>2, EndingIssued
<1>4. FlashOK'
  <2> SUFFICES ASSUME ~stale', NoFailure', NEW m \in Request PROVE OnePlace(m)'
    BY DEF FlashOK
  <2>1. ok BY <1>1 DEF Ending, NoFailure
  <2>2. /\ \A i \in Cookie \ {sess[r].id} : InStore(i, m)' = InStore(i, m)
        /\ \A i \in Cookie \cap {sess[r].id} : ~InStore(i, m)'
    BY <1>2, <2>1 DEF InStore
  <2> QED BY <1>1, <1>2, <2>2, EndingPlace
<1> QED BY <1>3, <1>4

LEMMA FlashSave ==
    ASSUME IInv, IssuedOK, FlashOK, NEW r \in Request, NEW ok \in BOOLEAN,
           NEW effect \in BOOLEAN, Save(r, ok, effect)
    PROVE  IssuedOK' /\ FlashOK'
<1>1. Ending(r, ok) BY StoreEnds DEF IInv
<1>2. /\ pc[r] = "save" /\ Disturb(r, {sess[r].id}) /\ (ok => effect)
      /\ effect => /\ present' = present \cup {sess[r].id}
                   /\ store' = [store EXCEPT ![sess[r].id] = sess[r].content]
      /\ ~effect => UNCHANGED <<present, store>>
  BY DEF Save, backend
<1>3. sess[r].id \in Cookie BY DEF IInv, TypeOK, SessionType
<1>4. \A i \in Cookie : store'[i] = IF effect /\ i = sess[r].id THEN sess[r].content
                                     ELSE store[i]
  BY <1>2 DEF IInv, TypeOK
<1>5. IssuedOK' BY <1>1, <1>4, EndingIssued
<1>6. FlashOK'
  <2> SUFFICES ASSUME ~stale', NoFailure', NEW m \in Request PROVE OnePlace(m)'
    BY DEF FlashOK
  <2>1. effect BY <1>1, <1>2 DEF Ending, NoFailure
  <2>2. /\ \A i \in Cookie \ {sess[r].id} : InStore(i, m)' = InStore(i, m)
        /\ \A i \in Cookie \cap {sess[r].id} : InStore(i, m)' => m \in sess[r].content.flash
    BY <1>2, <1>4, <2>1 DEF InStore
  <2>3. MayWrite(r) /\ ~Finished(r) BY <1>2 DEF MayWrite, Finished, Steps
  <2>4. CASE m # r
    <3>1. m \in sess[r].content.flash => Held(r, m) /\ m \notin got[r]
      BY <2>3, <2>4 DEF Held, IssuedOK
    <3> QED BY <1>1, <1>2, <2>2, <3>1, EndingPlace
  <2>5. CASE m = r
    <3>1. /\ \A i \in Cookie : ~InStore(i, m)
          /\ \A q \in Request : ~Held(q, m) /\ ~Took(q, m)
      BY <2>3, <2>5 DEF InStore, Held, Took, IssuedOK
    <3>2. \A q \in Request \ {r} : ~Held(q, m)' /\ ~Took(q, m)'
      BY <1>1, <3>1, OthersSame DEF Ending
    <3>3. ~Held(r, m)' /\ ~Took(r, m)'
      BY <1>1, <2>5 DEF Held, Took, Ending, IssuedOK
    <3>4. \A i \in Cookie : InStore(i, m)' => i = sess[r].id BY <2>2, <3>1
    <3> QED BY <3>2, <3>3, <3>4 DEF OnePlace
  <2> QED BY <2>4, <2>5
<1> QED BY <1>5, <1>6

LEMMA FlashStep ==
    ASSUME IInv, IssuedOK, FlashOK, [Next]_vars PROVE IssuedOK' /\ FlashOK'
<1>0. TypeOK BY DEF IInv
<1>1. ASSUME NEW r \in Request, Send(r) \/ Receive(r) PROVE IssuedOK' /\ FlashOK'
  BY <1>1, FlashBrowser
<1>2. ASSUME NEW r \in Request, LoadFound(r) \/ \E err \in BOOLEAN : LoadFresh(r, err)
      PROVE  IssuedOK' /\ FlashOK'
  BY <1>2, FoundLoads, FreshLoads, FlashLoad
<1>3. ASSUME NEW r \in Request, LoadStop(r) \/ Panic(r) PROVE IssuedOK' /\ FlashOK'
  BY <1>3, FlashStop
<1>4. ASSUME NEW r \in Request,
             \/ Set(r) \/ Delete(r) \/ Flash(r) \/ ConsumeFlash(r) \/ CSRFToken(r)
             \/ Destroy(r)
      PROVE  IssuedOK' /\ FlashOK'
  BY <1>0, <1>4, HandlerEdits, FlashEdit
<1>5. ASSUME NEW r \in Request, Regenerate(r) PROVE IssuedOK' /\ FlashOK'
  BY <1>5, FlashRegenerate
<1>6. ASSUME NEW r \in Request, Write(r) \/ Return(r) PROVE IssuedOK' /\ FlashOK'
  BY <1>0, <1>6, HandlerCommits, FlashCommit
<1>7. ASSUME NEW r \in Request, Store(r) PROVE IssuedOK' /\ FlashOK'
  BY <1>7, FlashDeleteOld, FlashDeleteID, FlashSave DEF Store
<1>8. ASSUME NEW i \in Cookie, Expire(i) PROVE IssuedOK' /\ FlashOK' BY <1>8, FlashExpire
<1>9. CASE UNCHANGED vars
  <2>1. IssuedOK'
    BY <1>9 DEF vars, backend, request, history, fallout, IssuedOK, Finished, MayWrite
  <2>2. \A m, q \in Request :
        /\ Held(q, m)' => Held(q, m) /\ Src(q)' = Src(q) /\ Detached(q)' = Detached(q)
        /\ Took(q, m)' => Took(q, m)
    BY <1>9 DEF vars, request, history, Held, Took, Src, Detached, Finished, MayWrite
  <2>3. FlashOK' BY <1>9, <2>2, FlashKept DEF vars, backend, request, fallout
  <2> QED BY <2>1, <2>3
<1>10. CASE Next
  BY <1>1, <1>2, <1>3, <1>4, <1>5, <1>6, <1>7, <1>8, <1>10, Zenon DEF Next, Handler
<1> QED BY <1>9, <1>10

\* The reachable states of Session satisfy the inductive invariant.
THEOREM Invariance == Spec => []IInv
<1>1. IInv /\ [Next]_vars => IInv' BY StepKeeps
<1> QED BY <1>1, Initially, PTL DEF Spec

\* Requests, sessions, entries and responses keep their types.
THEOREM TypeCorrect == Spec => []TypeOK
<1>1. IInv => TypeOK BY DEF IInv
<1> QED BY <1>1, Invariance, PTL

\* An entry only ever exists under an id the server minted.
THEOREM NothingPlanted == Spec => []NoFixation
<1>1. IInv => NoFixation BY DEF IInv, IdsOK, NoFixation, Planted
<1> QED BY <1>1, Invariance, PTL

\* What is stored together with Regenerate is only found under ids minted from then on.
THEOREM PrivilegesMove == Spec => []ElevationFresh
<1>1. IInv => ElevationFresh
  <2> SUFFICES ASSUME IInv, NEW i \in present, NEW r \in store[i].data, raised[r] # Planted
               PROVE  i >= raised[r]
    BY DEF ElevationFresh
  <2>1. i \in Cookie /\ r \in Request BY DEF IInv, TypeOK, Stored, Value
  <2>2. raised[r] <= i BY <2>1 DEF IInv, RaiseOK
  <2>3. i \in Int /\ raised[r] \in Int
    BY <2>1 DEF IInv, TypeOK, Cookie, Id, Planted
  <2> QED BY <2>2, <2>3
<1> QED BY <1>1, Invariance, PTL

\* A session that ended undisturbed stays ended.
THEOREM EndIsFinal == Spec => []LogoutSticks
<1>1. IInv => LogoutSticks BY DEF IInv, LogoutOK, LogoutSticks
<1> QED BY <1>1, Invariance, PTL

\* The response says what the commit did.
THEOREM ResponseIsTrue == Spec => []ResponseTells
<1>1. IInv => ResponseTells BY DEF IInv, ResponseOK, ResponseTells, Finished
<1> QED BY <1>1, Invariance, PTL

\* Requests that come one after another, without faults, see one session.
THEOREM OneSession == Spec => []SerialSession
<1>1. Init => SerialOK
  <2> SUFFICES ASSUME Init PROVE SerialOK OBVIOUS
  <2>1. \A q \in Request : Quiet(q) /\ ~sent[q].set /\ ~arrived[q]
    BY DEF Init, Quiet, NoHeader
  <2>2. Leads(jar) BY DEF Init, Leads
  <2> QED BY <2>1, <2>2 DEF SerialOK
<1>2. IInv /\ SerialOK /\ [Next]_vars => SerialOK' BY SerialStep
<1>3. SerialOK => SerialSession BY DEF SerialOK, SerialSession, Quiet, Leads
<1> QED BY <1>1, <1>2, <1>3, Invariance, PTL DEF Spec

\* A flash message is consumed once, unless a commit overwrote a change or failed.
THEOREM FlashOncePerMessage == Spec => []FlashOnce
<1>1. Init => IssuedOK /\ FlashOK
  <2> SUFFICES ASSUME Init PROVE IssuedOK /\ FlashOK OBVIOUS
  <2>1. /\ \A i \in Cookie : store[i].flash = {}
        /\ \A q \in Request : /\ pc[q] = "idle" /\ ~committed[q] /\ got[q] = {}
                              /\ sess[q].content.flash = {}
    BY DEF Init, NoSession, Empty
  <2>2. IssuedOK BY <2>1 DEF IssuedOK
  <2>3. \A m, q \in Request : ~Held(q, m) /\ ~Took(q, m) BY <2>1 DEF Held, Took
  <2>4. \A m \in Request : \A i \in Cookie : ~InStore(i, m) BY <2>1 DEF InStore
  <2>5. FlashOK BY <2>3, <2>4 DEF FlashOK, OnePlace
  <2> QED BY <2>2, <2>5
<1>2. IInv /\ IssuedOK /\ FlashOK /\ [Next]_vars => IssuedOK' /\ FlashOK' BY FlashStep
<1>3. FlashOK /\ TypeOK => FlashOnce
  <2> SUFFICES ASSUME FlashOK, TypeOK, ~stale, NEW r \in Request, NEW q \in Request, r # q,
                      NEW m \in got[r] \cap got[q], Finished(r), Finished(q), NoFailure
               PROVE  FALSE
    BY DEF FlashOnce, Finished, NoFailure
  <2>1. m \in Request BY MessagesTyped
  <2>2. Took(r, m) /\ Took(q, m) BY DEF Took
  <2> QED BY <2>1, <2>2 DEF FlashOK, OnePlace
<1> QED BY <1>1, <1>2, <1>3, Invariance, TypeCorrect, PTL DEF Spec
=============================================================================
