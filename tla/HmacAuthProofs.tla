--------------------------- MODULE HmacAuthProofs ---------------------------
(***************************************************************************)
(* The replay protection of plugins/hmacauth for any number of messages,   *)
(* deliveries and nonces, any skew, and every NonceTTL that covers the     *)
(* skew window on both sides and the time from the skew check to SetNX.    *)
(***************************************************************************)
EXTENDS HmacAuth, FiniteSetTheorems, TLAPS

\* What verify established before SetNX, still true when SetNX runs.
TimelyOK ==
    \A d \in Delivery : pc[d] = "timely" =>
        /\ Class[msg[d]] = "genuine"
        /\ seen[d] <= now /\ now <= seen[d] + MaxDelay
        /\ seen[d] - Ts[msg[d]] <= SkewSeconds
        /\ Ts[msg[d]] - seen[d] <= SkewSeconds

\* The insertions are in the past, under the key of their message.
HistOK ==
    \A i \in DOMAIN hist : hist[i].key = KeyOf[hist[i].msg] /\ hist[i].at <= now

\* A nonce is in the store until NonceTTL after each of its insertions, unless the full
\* store evicted it.
Remembered ==
    \A i \in DOMAIN hist :
        \/ hist[i].key \in lost
        \/ hist[i].at + NonceTTL <= now
        \/ hist[i].key \in present /\ hist[i].at + NonceTTL <= expires[hist[i].key]

HInv == TypeOK /\ TimelyOK /\ HistOK /\ Remembered /\ OnlyGenuineRecorded /\ NoReplay

\* What one more insertion does to the history.
LEMMA AppendFacts ==
    ASSUME NEW S, NEW s \in Seq(S), NEW e \in S
    PROVE  /\ Append(s, e) \in Seq(S)
           /\ DOMAIN Append(s, e) = DOMAIN s \cup {Len(s) + 1}
           /\ \A i \in DOMAIN s : Append(s, e)[i] = s[i] /\ i <= Len(s)
           /\ Append(s, e)[Len(s) + 1] = e
<1>1. Append(s, e) \in Seq(S) /\ Len(Append(s, e)) = Len(s) + 1 /\ Len(s) \in Nat
  OBVIOUS
<1>2. DOMAIN s = 1 .. Len(s) /\ DOMAIN Append(s, e) = 1 .. (Len(s) + 1)
  BY <1>1
<1>3. DOMAIN Append(s, e) = DOMAIN s \cup {Len(s) + 1}
  BY <1>1, <1>2
<1>4. \A i \in DOMAIN s : Append(s, e)[i] = s[i] /\ i <= Len(s)
  BY <1>1, <1>2
<1>5. Append(s, e)[Len(s) + 1] = e
  BY <1>1
<1> QED BY <1>1, <1>3, <1>4, <1>5

LEMMA ElementType ==
    ASSUME NEW S, NEW s \in Seq(S), NEW i \in DOMAIN s PROVE s[i] \in S
OBVIOUS

\* The records of the history.
LEMMA HistType ==
    ASSUME TypeOK, NEW i \in DOMAIN hist
    PROVE  hist[i].msg \in Msg /\ hist[i].key \in Key /\ hist[i].at \in Nat
<1>1. hist[i] \in [msg : Msg, key : Key, at : Nat]
  BY ElementType DEF TypeOK
<1> QED BY <1>1

\* What Insert leaves of every entry that it does not evict, and of what it evicts.
LEMMA InsertKeeps ==
    ASSUME TypeOK, NEW k \in Key, NEW m \in Msg, NEW gone \in SUBSET present,
           Insert(k, m, gone)
    PROVE  /\ present' \in SUBSET Key /\ lost' \in SUBSET Key
           /\ expires' \in [Key -> Nat] /\ added' \in [Key -> Nat]
           /\ hist' \in Seq([msg : Msg, key : Key, at : Nat])
           /\ DOMAIN hist' = DOMAIN hist \cup {Len(hist) + 1}
           /\ \A i \in DOMAIN hist : hist'[i] = hist[i] /\ i <= Len(hist)
           /\ hist'[Len(hist) + 1] = [msg |-> m, key |-> k, at |-> now]
           /\ expires'[k] = now + NonceTTL /\ k \in present'
           /\ \A j \in Key \ {k} : expires'[j] = expires[j]
           /\ \A j \in present : j \in present' \/ (j \in lost') \/ expires[j] <= now
           /\ lost \subseteq lost'
<1> USE HmacAssumption
<1>1. now + NonceTTL \in Nat /\ now \in Nat
  BY DEF TypeOK
<1>2. [msg |-> m, key |-> k, at |-> now] \in [msg : Msg, key : Key, at : Nat]
  BY <1>1
<1>3. /\ hist' \in Seq([msg : Msg, key : Key, at : Nat])
      /\ DOMAIN hist' = DOMAIN hist \cup {Len(hist) + 1}
      /\ \A i \in DOMAIN hist : hist'[i] = hist[i] /\ i <= Len(hist)
      /\ hist'[Len(hist) + 1] = [msg |-> m, key |-> k, at |-> now]
  BY <1>2, AppendFacts DEF TypeOK, Insert
<1>4. /\ present' \in SUBSET Key /\ lost' \in SUBSET Key /\ k \in present'
      /\ expires' \in [Key -> Nat] /\ added' \in [Key -> Nat]
      /\ expires'[k] = now + NonceTTL
      /\ \A j \in Key \ {k} : expires'[j] = expires[j]
      /\ lost \subseteq lost'
  BY <1>1 DEF TypeOK, Insert, Expiry
<1>5. \A j \in present : j \in present' \/ (j \in lost') \/ expires[j] <= now
  BY <1>1 DEF TypeOK, Insert
<1> QED BY <1>3, <1>4, <1>5

\* evictLocked removes entries of the store only.
LEMMA EvictsPresent == \A gone \in Evictions : gone \subseteq present
BY DEF Evictions, evictLocked, Expired, Oldest

LEMMA InitHolds == Init => HInv
<1> USE HmacAssumption
<1> SUFFICES ASSUME Init PROVE HInv
  OBVIOUS
<1>1. (CHOOSE m \in Msg : TRUE) \in Msg
  OBVIOUS
<1>2. TypeOK
  <2>0. janitor \in BOOLEAN
    BY DEF Init
  <2>1. /\ now \in Nat /\ store \in {"memory", "redis"}
        /\ present \in SUBSET Key /\ lost \in SUBSET Key
        /\ hist \in Seq([msg : Msg, key : Key, at : Nat])
    BY DEF Init
  <2>2. /\ pc \in [Delivery -> {"idle", "verify", "timely"}]
        /\ seen \in [Delivery -> Nat]
        /\ expires \in [Key -> Nat] /\ added \in [Key -> Nat]
    BY DEF Init
  <2>3. msg \in [Delivery -> Msg]
    BY <1>1 DEF Init
  <2> QED BY <2>0, <2>1, <2>2, <2>3 DEF TypeOK
<1>3. DOMAIN hist = {}
  BY DEF Init
<1>4. TimelyOK
  BY DEF Init, TimelyOK
<1> QED BY <1>2, <1>3, <1>4 DEF HInv, HistOK, Remembered, OnlyGenuineRecorded, NoReplay

\* A recorded message that could be recorded again was first recorded less than NonceTTL
\* ago: verify would refuse it as stale otherwise.
LEMMA StillYoung ==
    ASSUME HInv, NEW d \in Delivery, pc[d] = "timely",
           NEW i \in DOMAIN hist, hist[i].msg = msg[d]
    PROVE  now < hist[i].at + NonceTTL
<1> USE HmacAssumption, TTLCoversWindow
<1>1. /\ now \in Nat /\ seen[d] \in Nat /\ msg[d] \in Msg /\ Ts[msg[d]] \in Nat
      /\ hist[i].at \in Nat
  BY HistType DEF HInv, TypeOK
<1>2. Ts[msg[d]] - hist[i].at <= SkewSeconds
  BY DEF HInv, OnlyGenuineRecorded
<1>3. now <= Ts[msg[d]] + SkewSeconds + MaxDelay
  BY <1>1 DEF HInv, TimelyOK
<1> QED BY <1>1, <1>2, <1>3

\* So its nonce is still in the store, unless it was evicted.
LEMMA StillRemembered ==
    ASSUME HInv, NEW d \in Delivery, pc[d] = "timely",
           NEW i \in DOMAIN hist, hist[i].msg = msg[d]
    PROVE  hist[i].key \in lost \/ Live(KeyOf[msg[d]])
<1> USE HmacAssumption
<1>1. /\ now \in Nat /\ KeyOf[msg[d]] \in Key /\ expires[KeyOf[msg[d]]] \in Nat
      /\ hist[i].at \in Nat
  BY HistType DEF HInv, TypeOK
<1>2. hist[i].key = KeyOf[msg[d]]
  BY DEF HInv, HistOK
<1>3. now < hist[i].at + NonceTTL
  BY StillYoung
<1>4. \/ hist[i].key \in lost
      \/ hist[i].key \in present /\ hist[i].at + NonceTTL <= expires[hist[i].key]
  BY <1>1, <1>3 DEF HInv, Remembered
<1> QED BY <1>1, <1>2, <1>3, <1>4 DEF Live

\* A recording step.
LEMMA RecordHolds ==
    ASSUME HInv, NEW d \in Delivery, Record(d)
    PROVE  HInv'
<1> USE HmacAssumption
<1>1. PICK gone \in Evictions : Insert(KeyOf[msg[d]], msg[d], gone)
  BY DEF Record
<1> DEFINE k == KeyOf[msg[d]]
           n == Len(hist) + 1
<1>2. /\ TypeOK /\ now \in Nat /\ msg[d] \in Msg /\ k \in Key
      /\ gone \in SUBSET present /\ Len(hist) \in Nat
  BY EvictsPresent DEF HInv, TypeOK
<1>3. /\ present' \in SUBSET Key /\ lost' \in SUBSET Key
      /\ expires' \in [Key -> Nat] /\ added' \in [Key -> Nat]
      /\ hist' \in Seq([msg : Msg, key : Key, at : Nat])
      /\ DOMAIN hist' = DOMAIN hist \cup {n}
      /\ \A i \in DOMAIN hist : hist'[i] = hist[i] /\ i <= Len(hist)
      /\ hist'[n] = [msg |-> msg[d], key |-> k, at |-> now]
      /\ expires'[k] = now + NonceTTL /\ k \in present'
      /\ \A j \in Key \ {k} : expires'[j] = expires[j]
      /\ \A j \in present : j \in present' \/ (j \in lost') \/ expires[j] <= now
      /\ lost \subseteq lost'
  BY <1>1, <1>2, InsertKeeps
<1>4. /\ now' = now /\ msg' = msg /\ store' = store /\ janitor' = janitor
      /\ pc' = [pc EXCEPT ![d] = "idle"] /\ seen' = [seen EXCEPT ![d] = 0]
      /\ pc[d] = "timely" /\ ~Live(k)
  BY DEF Record, Decided
<1>5. TypeOK'
  BY <1>2, <1>3, <1>4 DEF TypeOK
<1>6. TimelyOK'
  BY <1>2, <1>4 DEF HInv, TypeOK, TimelyOK
<1>7. HistOK'
  BY <1>2, <1>3, <1>4 DEF HInv, HistOK
<1>8. ASSUME NEW i \in DOMAIN hist
      PROVE  \/ hist[i].key \in lost'
             \/ hist[i].at + NonceTTL <= now
             \/ hist[i].key \in present' /\ hist[i].at + NonceTTL <= expires'[hist[i].key]
  <2>1. hist[i].key \in Key /\ hist[i].at \in Nat /\ hist[i].at <= now
    BY <1>2, HistType DEF HInv, HistOK
  <2>2. CASE hist[i].key = k
    BY <1>2, <1>3, <2>1, <2>2
  <2>3. CASE hist[i].key # k
    <3>1. expires'[hist[i].key] = expires[hist[i].key] /\ expires[hist[i].key] \in Nat
      BY <1>2, <1>3, <2>1, <2>3 DEF TypeOK
    <3> QED BY <1>2, <1>3, <2>1, <3>1, SMTT(40) DEF HInv, Remembered
  <2> QED BY <2>2, <2>3
<1>9. Remembered'
  BY <1>2, <1>3, <1>4, <1>8, SMTT(40) DEF Remembered
<1>10. OnlyGenuineRecorded'
  <2>1. Class[msg[d]] = "genuine" /\ now - Ts[msg[d]] <= SkewSeconds + MaxDelay
        /\ Ts[msg[d]] - now <= SkewSeconds
    BY <1>2, <1>4 DEF HInv, TimelyOK, TypeOK
  <2> QED BY <1>2, <1>3, <1>4, <2>1, SMTT(40) DEF HInv, OnlyGenuineRecorded
<1>11. ASSUME NEW i \in DOMAIN hist, hist[i].msg = msg[d]
       PROVE  hist[i].key \in lost'
  BY <1>3, <1>4, <1>11, StillRemembered
<1>12. NoReplay'
  <2> SUFFICES ASSUME NEW i \in DOMAIN hist', NEW j \in DOMAIN hist', i < j,
                      hist'[i].msg = hist'[j].msg
               PROVE  hist'[i].key \in lost'
    BY DEF NoReplay
  <2>1. i \in DOMAIN hist
    BY <1>2, <1>3
  <2>2. CASE j \in DOMAIN hist
    BY <1>3, <2>1, <2>2 DEF HInv, NoReplay
  <2>3. CASE j = n
    BY <1>3, <1>11, <2>1, <2>3
  <2> QED BY <1>3, <2>2, <2>3
<1> QED BY <1>5, <1>6, <1>7, <1>9, <1>10, <1>12 DEF HInv

\* The steps that record nothing.
LEMMA OthersHold ==
    ASSUME HInv,
           \/ \E d \in Delivery : Arrive(d) \/ Check(d) \/ Refuse(d)
           \/ Sweep \/ Stop \/ Tick \/ UNCHANGED vars
    PROVE  HInv'
<1> USE HmacAssumption
<1>1. /\ hist' = hist /\ lost' = lost /\ expires' = expires
      /\ now' \in Nat /\ now <= now' /\ now \in Nat
  BY DEF HInv, TypeOK, Arrive, Check, Refuse, Decided, Sweep, Stop, Tick, vars, delivery, nonces
<1>2. present' \in SUBSET Key /\ \A k \in present : k \in present' \/ expires[k] <= now
  BY DEF HInv, TypeOK, Arrive, Check, Refuse, Sweep, Expired, Stop, Tick, vars, nonces
<1>3. /\ store' \in {"memory", "redis"} /\ janitor' \in BOOLEAN /\ added' = added
  BY DEF HInv, TypeOK, Arrive, Check, Refuse, Sweep, Stop, Tick, vars, nonces
<1>4. ASSUME NEW d \in Delivery, Arrive(d)
      PROVE  /\ pc' \in [Delivery -> {"idle", "verify", "timely"}]
             /\ msg' \in [Delivery -> Msg] /\ seen' \in [Delivery -> Nat]
             /\ TimelyOK'
  BY <1>4 DEF HInv, TypeOK, TimelyOK, Arrive
<1>5. ASSUME NEW d \in Delivery, Check(d)
      PROVE  /\ pc' \in [Delivery -> {"idle", "verify", "timely"}]
             /\ msg' \in [Delivery -> Msg] /\ seen' \in [Delivery -> Nat]
             /\ TimelyOK'
  <2>0. /\ now' = now /\ msg' = msg /\ msg[d] \in Msg /\ Ts[msg[d]] \in Nat
        /\ \/ /\ Passes(msg[d])
              /\ pc' = [pc EXCEPT ![d] = "timely"] /\ seen' = [seen EXCEPT ![d] = now]
           \/ pc' = [pc EXCEPT ![d] = "idle"] /\ seen' = [seen EXCEPT ![d] = 0]
    BY <1>5 DEF HInv, TypeOK, Check, Decided
  <2>1. /\ pc' \in [Delivery -> {"idle", "verify", "timely"}]
        /\ msg' \in [Delivery -> Msg] /\ seen' \in [Delivery -> Nat]
    <3>1. /\ pc \in [Delivery -> {"idle", "verify", "timely"}]
          /\ msg \in [Delivery -> Msg] /\ seen \in [Delivery -> Nat]
      BY DEF HInv, TypeOK
    <3>2. pc' \in [Delivery -> {"idle", "verify", "timely"}]
      BY <2>0, <3>1
    <3>3. seen' \in [Delivery -> Nat]
      BY <1>1, <2>0, <3>1
    <3> QED BY <2>0, <3>1, <3>2, <3>3
  <2>2. TimelyOK'
    <3> SUFFICES ASSUME NEW c \in Delivery, pc'[c] = "timely"
                 PROVE  /\ Class[msg[c]] = "genuine"
                        /\ seen'[c] <= now /\ now <= seen'[c] + MaxDelay
                        /\ seen'[c] - Ts[msg[c]] <= SkewSeconds
                        /\ Ts[msg[c]] - seen'[c] <= SkewSeconds
      BY <2>0 DEF TimelyOK
    <3>1. CASE c = d
      <4>1. Passes(msg[d]) /\ seen'[c] = now
        BY <2>0, <3>1 DEF HInv, TypeOK
      <4> QED BY <1>1, <2>0, <3>1, <4>1 DEF Passes
    <3>2. CASE c # d
      BY <2>0, <3>2 DEF HInv, TypeOK, TimelyOK
    <3> QED BY <3>1, <3>2
  <2> QED BY <2>1, <2>2
<1>6. ASSUME NEW d \in Delivery, Refuse(d)
      PROVE  /\ pc' \in [Delivery -> {"idle", "verify", "timely"}]
             /\ msg' \in [Delivery -> Msg] /\ seen' \in [Delivery -> Nat]
             /\ TimelyOK'
  BY <1>1, <1>6 DEF HInv, TypeOK, TimelyOK, Refuse, Decided
<1>7. ASSUME Sweep \/ Stop \/ Tick \/ UNCHANGED vars
      PROVE  /\ pc' \in [Delivery -> {"idle", "verify", "timely"}]
             /\ msg' \in [Delivery -> Msg] /\ seen' \in [Delivery -> Nat]
             /\ TimelyOK'
  <2>1. pc' = pc /\ msg' = msg /\ seen' = seen
    BY <1>7 DEF Sweep, Stop, Tick, vars, delivery
  <2>2. \/ now' = now
        \/ now' = now + 1 /\ \A d \in Delivery : pc[d] = "timely" => now < seen[d] + MaxDelay
    BY <1>7 DEF Sweep, Stop, Tick, vars
  <2> QED BY <1>1, <2>1, <2>2 DEF HInv, TypeOK, TimelyOK
<1>8. /\ pc' \in [Delivery -> {"idle", "verify", "timely"}]
      /\ msg' \in [Delivery -> Msg] /\ seen' \in [Delivery -> Nat]
      /\ TimelyOK'
  BY <1>4, <1>5, <1>6, <1>7
<1>10. TypeOK' /\ TimelyOK'
  BY <1>1, <1>2, <1>3, <1>8 DEF HInv, TypeOK
<1>11. HistOK'
  BY <1>1, HistType DEF HInv, HistOK
<1>12. Remembered'
  <2> SUFFICES ASSUME NEW i \in DOMAIN hist
               PROVE  \/ hist[i].key \in lost
                      \/ hist[i].at + NonceTTL <= now'
                      \/ /\ hist[i].key \in present'
                         /\ hist[i].at + NonceTTL <= expires[hist[i].key]
    BY <1>1 DEF Remembered
  <2>1. hist[i].at \in Nat /\ hist[i].key \in Key /\ expires[hist[i].key] \in Nat
    BY HistType DEF HInv, TypeOK
  <2> QED BY <1>1, <1>2, <2>1 DEF HInv, Remembered
<1>13. OnlyGenuineRecorded' /\ NoReplay'
  BY <1>1 DEF HInv, OnlyGenuineRecorded, NoReplay
<1> QED BY <1>10, <1>11, <1>12, <1>13 DEF HInv

LEMMA StepHolds == HInv /\ [Next]_vars => HInv'
<1> SUFFICES ASSUME HInv, [Next]_vars PROVE HInv'
  OBVIOUS
<1>1. CASE \E d \in Delivery : Record(d)
  BY <1>1, RecordHolds
<1>2. CASE ~ \E d \in Delivery : Record(d)
  BY <1>2, OthersHold DEF Next
<1> QED BY <1>1, <1>2

\* Every variable of the model keeps its type (verify and SetNX never leave the domain
\* the other steps rely on).
THEOREM TypeCorrect == Spec => []TypeOK
<1>1. HInv => TypeOK
  BY DEF HInv
<1> QED BY <1>1, InitHolds, StepHolds, PTL DEF Spec

\* A signed message is recorded as fresh at most once, unless the full store evicted its
\* nonce, for every skew and every NonceTTL above twice the skew plus the delay between
\* the skew check of verify and SetNX.
THEOREM ReplayRefused == Spec => []NoReplay
<1>1. HInv => NoReplay
  BY DEF HInv
<1> QED BY <1>1, InitHolds, StepHolds, PTL DEF Spec

\* Whatever fails a check of verify leaves the nonce store alone.
THEOREM NoncesAreEarned == Spec => []OnlyGenuineRecorded
<1>1. HInv => OnlyGenuineRecorded
  BY DEF HInv
<1> QED BY <1>1, InitHolds, StepHolds, PTL DEF Spec

----------------------------------------------------------------------------
\* The capacity, with the finiteness that makes len(s.entries) a number.
CapInv == IsFiniteSet(present) /\ Capped

\* SetNX makes room before it inserts.
LEMMA CapStep == TypeOK /\ CapInv /\ [Next]_vars => CapInv'
<1> USE HmacAssumption
<1> SUFFICES ASSUME TypeOK, CapInv, [Next]_vars PROVE CapInv'
  OBVIOUS
<1>1. store' = store
  BY DEF Next, vars, Arrive, Check, Record, Refuse, Sweep, Stop, Tick
<1>2. CASE present' \subseteq present
  <2>1. IsFiniteSet(present') /\ Cardinality(present') <= Cardinality(present)
    BY <1>2, FS_Subset DEF CapInv
  <2>2. Cardinality(present') \in Nat /\ Cardinality(present) \in Nat
    BY <2>1, FS_CardinalityType DEF CapInv
  <2> QED BY <1>1, <2>1, <2>2 DEF CapInv, Capped
<1>3. ASSUME NEW d \in Delivery, Record(d) PROVE CapInv'
  <2>1. PICK gone \in Evictions : present' = (present \ gone) \cup {KeyOf[msg[d]]}
    BY <1>3 DEF Record, Insert
  <2> DEFINE rest == present \ gone
  <2>2. IsFiniteSet(rest) /\ Cardinality(rest) \in Nat /\ Cardinality(present) \in Nat
    BY FS_Subset, FS_CardinalityType DEF CapInv
  <2>3. Cardinality(rest) <= Cardinality(present)
    BY FS_Subset DEF CapInv
  <2>4. IsFiniteSet(present') /\ Cardinality(present') <= Cardinality(rest) + 1
    <3>1. /\ IsFiniteSet(rest \cup {KeyOf[msg[d]]})
          /\ \/ Cardinality(rest \cup {KeyOf[msg[d]]}) = Cardinality(rest)
             \/ Cardinality(rest \cup {KeyOf[msg[d]]}) = Cardinality(rest) + 1
      BY <2>2, FS_AddElement
    <3>2. present' = rest \cup {KeyOf[msg[d]]}
      BY <2>1
    <3> HIDE DEF rest
    <3> QED BY <2>2, <3>1, <3>2
  <2>5. CASE store = "memory" /\ Cardinality(present) >= MaxEntries
    <3>1. gone # {} /\ gone \subseteq present
      BY <2>5, EvictsPresent DEF Evictions, evictLocked
    <3>2. rest # present
      BY <3>1
    <3>3. Cardinality(rest) < Cardinality(present)
      BY <2>2, <2>3, <3>2, FS_Subset DEF CapInv
    <3>4. Cardinality(present) <= MaxEntries
      BY <2>5 DEF CapInv, Capped
    <3>5. Cardinality(present') \in Nat
      BY <2>4, FS_CardinalityType
    <3>6. Cardinality(present') <= MaxEntries
      BY <2>2, <2>4, <3>3, <3>4, <3>5
    <3> QED BY <1>1, <2>4, <3>6 DEF CapInv, Capped
  <2>6. CASE ~(store = "memory" /\ Cardinality(present) >= MaxEntries)
    <3>1. Cardinality(present') \in Nat
      BY <2>4, FS_CardinalityType
    <3>2. store = "memory" => Cardinality(present') <= MaxEntries
      BY <2>2, <2>3, <2>4, <2>6, <3>1
    <3> QED BY <1>1, <2>4, <3>2 DEF CapInv, Capped
  <2> QED BY <2>5, <2>6
<1>4. CASE ~ \E d \in Delivery : Record(d)
  <2>1. present' \subseteq present
    BY <1>4 DEF Next, vars, nonces, Arrive, Check, Refuse, Sweep, Stop, Tick
  <2> QED BY <1>2, <2>1
<1> QED BY <1>3, <1>4

\* MemoryNonceStore never holds more than max entries, whatever is thrown at it.
THEOREM CapacityKept == Spec => []Capped
<1>1. Init => CapInv
  BY FS_EmptySet, HmacAssumption DEF Init, CapInv, Capped
<1>2. CapInv => Capped
  BY DEF CapInv
<1> QED BY <1>1, <1>2, CapStep, TypeCorrect, PTL DEF Spec

----------------------------------------------------------------------------
(* What it takes to make the store forget.                                  *)

\* The insertions no earlier than insertion i.
Since(i) == {n \in DOMAIN hist : hist[n].at >= hist[i].at}

\* More of them than the store has room for.
Flooded(i) == store = "memory" /\ Cardinality(Since(i)) > MaxEntries

\* An entry of the store is its latest insertion.
EntriesOK ==
    \A k \in present :
        /\ expires[k] = added[k] + NonceTTL
        /\ \E n \in DOMAIN hist : hist[n].key = k /\ hist[n].at = added[k]
        /\ \A n \in DOMAIN hist : hist[n].key = k => hist[n].at <= added[k]

\* Within NonceTTL a nonce is forgotten only by a flood.
Unforgotten ==
    \A i \in DOMAIN hist :
        hist[i].key \in present \/ hist[i].at + NonceTTL <= now \/ Flooded(i)

FloodInv == EntriesOK /\ Unforgotten /\ ReplayNeedsFlood

\* Sets of insertions are finite.
LEMMA HistFinite ==
    ASSUME TypeOK, NEW S \in SUBSET (DOMAIN hist)
    PROVE  IsFiniteSet(S) /\ Cardinality(S) \in Nat
<1>1. DOMAIN hist = 1 .. Len(hist) /\ Len(hist) \in Nat
  BY DEF TypeOK
<1>2. IsFiniteSet(DOMAIN hist)
  BY <1>1, FS_Interval
<1> QED BY <1>2, FS_Subset, FS_CardinalityType

\* One more insertion keeps a flood a flood.
LEMMA FloodStays ==
    ASSUME TypeOK, TypeOK', NEW i \in DOMAIN hist, Flooded(i), store' = store,
           DOMAIN hist \subseteq DOMAIN hist', \A n \in DOMAIN hist : hist'[n] = hist[n]
    PROVE  Flooded(i)'
<1>1. Since(i) \subseteq Since(i)' /\ Since(i)' \in SUBSET DOMAIN hist'
  BY DEF Since
<1>2. IsFiniteSet(Since(i)') /\ Cardinality(Since(i)') \in Nat
  <2>1. DOMAIN hist' = 1 .. Len(hist') /\ Len(hist') \in Nat
    BY DEF TypeOK
  <2>2. IsFiniteSet(DOMAIN hist')
    BY <2>1, FS_Interval
  <2> QED BY <1>1, <2>2, FS_Subset, FS_CardinalityType
<1>3. Cardinality(Since(i)) \in Nat
  BY HistFinite DEF Since
<1>4. Cardinality(Since(i)) <= Cardinality(Since(i)')
  BY <1>1, <1>2, FS_Subset
<1> QED BY <1>2, <1>3, <1>4, HmacAssumption DEF Flooded

\* When evictLocked gives up a live nonce, as many insertions as the store has entries
\* are no older: every entry is an insertion, and the evicted one is the oldest.
LEMMA EvictionCounts ==
    ASSUME TypeOK, EntriesOK, IsFiniteSet(present), NEW i \in DOMAIN hist,
           hist[i].key \in Oldest
    PROVE  Cardinality(present) <= Cardinality(Since(i))
<1> DEFINE f == [k \in present |-> CHOOSE n \in DOMAIN hist :
                                       hist[n].key = k /\ hist[n].at = added[k]]
<1>1. \A k \in present : f[k] \in DOMAIN hist /\ hist[f[k]].key = k /\ hist[f[k]].at = added[k]
  BY DEF EntriesOK
<1>2. ASSUME NEW k \in present PROVE f[k] \in Since(i)
  <2>1. hist[i].at <= added[hist[i].key] /\ added[hist[i].key] <= added[k]
    BY DEF EntriesOK, Oldest
  <2>2. hist[i].at \in Nat /\ added[hist[i].key] \in Nat /\ added[k] \in Nat
    BY HistType DEF TypeOK, Oldest
  <2>3. hist[f[k]].at >= hist[i].at
    BY <1>1, <2>1, <2>2
  <2> QED BY <1>1, <2>3 DEF Since
<1>3. f \in [present -> Since(i)]
  BY <1>2
<1>4. \A j, k \in present : f[j] = f[k] => j = k
  BY <1>1
<1> HIDE DEF f
<1>5. f \in Injection(present, Since(i))
  BY <1>3, <1>4 DEF Injection, IsInjective
<1>6. IsFiniteSet(Since(i))
  BY HistFinite DEF Since
<1> QED BY <1>5, <1>6, FS_Injection

\* A nonce that SetNX evicts although it is live leaves a flood behind.
LEMMA EvictionFloods ==
    ASSUME HInv, HInv', CapInv, EntriesOK, NEW k \in Key, NEW m \in Msg,
           NEW gone \in Evictions, Insert(k, m, gone), store' = store, now' = now,
           NEW i \in DOMAIN hist, hist[i].key \in gone, hist[i].at + NonceTTL > now
    PROVE  Flooded(i)'
<1> USE HmacAssumption
<1> DEFINE n == Len(hist) + 1
<1>0. TypeOK /\ TypeOK'
  BY DEF HInv
<1>1. gone \in SUBSET present /\ Len(hist) \in Nat /\ now \in Nat
  <2>1. gone \in SUBSET present
    BY EvictsPresent
  <2>2. Len(hist) \in Nat /\ now \in Nat
    BY <1>0 DEF TypeOK
  <2> QED BY <2>1, <2>2
<1>2. /\ DOMAIN hist' = DOMAIN hist \cup {n}
      /\ \A j \in DOMAIN hist : hist'[j] = hist[j] /\ j <= Len(hist)
      /\ hist'[n] = [msg |-> m, key |-> k, at |-> now]
  BY <1>0, <1>1, InsertKeeps
<1>3. hist[i].at \in Nat /\ hist[i].at <= now
  BY <1>0, HistType DEF HInv, HistOK
<1>4. now < expires[hist[i].key]
  <2>1. hist[i].key \in present
    BY <1>1
  <2>2. hist[i].at <= added[hist[i].key] /\ expires[hist[i].key] = added[hist[i].key] + NonceTTL
    BY <2>1 DEF EntriesOK
  <2>3. added[hist[i].key] \in Nat
    BY <1>0, <1>1, <2>1 DEF TypeOK
  <2> QED BY <1>1, <1>3, <2>2, <2>3
<1>5. /\ store = "memory" /\ Cardinality(present) >= MaxEntries
      /\ hist[i].key \in Oldest
  <2>1. hist[i].key \notin Expired
    <3>1. expires[hist[i].key] \in Nat
      BY <1>0, <1>1 DEF TypeOK
    <3> QED BY <1>1, <1>4, <3>1 DEF Expired
  <2>2. gone # {} /\ gone # Expired
    BY <2>1
  <2>3. store = "memory" /\ Cardinality(present) >= MaxEntries
    BY <2>2 DEF Evictions
  <2>4. gone \in {{j} : j \in Oldest}
    BY <2>2, <2>3 DEF Evictions, evictLocked
  <2> QED BY <2>3, <2>4
<1>6. Cardinality(present) <= Cardinality(Since(i))
  BY <1>0, <1>5, EvictionCounts DEF CapInv
<1>7. Since(i)' = Since(i) \cup {n} /\ n \notin Since(i)
  <2>1. hist'[i] = hist[i] /\ hist'[n].at = now /\ n \notin DOMAIN hist
    BY <1>1, <1>2
  <2> QED BY <1>1, <1>2, <1>3, <2>1 DEF Since
<1>8. Cardinality(Since(i)') = Cardinality(Since(i)) + 1
  <2>1. IsFiniteSet(Since(i))
    BY <1>0, HistFinite DEF Since
  <2> QED BY <1>7, <2>1, FS_AddElement
<1>9. Cardinality(Since(i)) \in Nat /\ Cardinality(present) \in Nat
  BY <1>0, HistFinite, FS_CardinalityType DEF Since, CapInv
<1> QED BY <1>5, <1>6, <1>8, <1>9 DEF Flooded

\* SetNX records a nonce: the new entry is its latest insertion, whatever was evicted
\* while live has been flooded out, and a message that is recorded again had been.
LEMMA FloodRecord ==
    ASSUME HInv, HInv', CapInv, FloodInv, NEW d \in Delivery, Record(d)
    PROVE  FloodInv'
<1> USE HmacAssumption
<1> DEFINE k == KeyOf[msg[d]]
           n == Len(hist) + 1
<1>1. PICK gone \in Evictions : Insert(k, msg[d], gone)
  BY DEF Record
<1>2. TypeOK /\ TypeOK'
  BY DEF HInv
<1>3. /\ now \in Nat /\ msg[d] \in Msg /\ k \in Key /\ gone \in SUBSET present
      /\ Len(hist) \in Nat /\ DOMAIN hist = 1 .. Len(hist)
  BY <1>2, EvictsPresent, SMTT(40) DEF TypeOK
<1>4. /\ DOMAIN hist' = DOMAIN hist \cup {n}
      /\ \A i \in DOMAIN hist : hist'[i] = hist[i] /\ i <= Len(hist)
      /\ hist'[n] = [msg |-> msg[d], key |-> k, at |-> now]
      /\ expires'[k] = now + NonceTTL
      /\ \A j \in Key \ {k} : expires'[j] = expires[j]
  BY <1>1, <1>2, <1>3, InsertKeeps
<1>5. /\ present' = (present \ gone) \cup {k}
      /\ added'[k] = now /\ \A j \in Key \ {k} : added'[j] = added[j]
  BY <1>1, <1>2, <1>3 DEF Insert, TypeOK
<1>6. store' = store /\ now' = now /\ ~Live(k)
  BY DEF Record
<1>7. \A i \in DOMAIN hist : hist[i].at \in Nat /\ hist[i].at <= now /\ hist[i].key \in Key
  BY <1>2, HistType DEF HInv, HistOK
<1> HIDE DEF n
<1>8. EntriesOK'
  <2> SUFFICES ASSUME NEW j \in present'
               PROVE  /\ expires'[j] = added'[j] + NonceTTL
                      /\ \E i \in DOMAIN hist' : hist'[i].key = j /\ hist'[i].at = added'[j]
                      /\ \A i \in DOMAIN hist' : hist'[i].key = j => hist'[i].at <= added'[j]
    BY DEF EntriesOK
  <2>1. CASE j = k
    <3>1. hist'[n].key = j /\ hist'[n].at = added'[j] /\ n \in DOMAIN hist'
      BY <1>4, <1>5, <2>1
    <3>2. \A i \in DOMAIN hist' : hist'[i].at <= now
      BY <1>3, <1>4, <1>7
    <3> QED BY <1>4, <1>5, <2>1, <3>1, <3>2
  <2>2. CASE j # k
    <3>1. /\ j \in present /\ j \in Key /\ expires'[j] = expires[j] /\ added'[j] = added[j]
      BY <1>2, <1>4, <1>5, <2>2 DEF TypeOK
    <3>2. /\ expires[j] = added[j] + NonceTTL
          /\ \A i \in DOMAIN hist : hist[i].key = j => hist[i].at <= added[j]
      BY <3>1 DEF FloodInv, EntriesOK
    <3>3. PICK i \in DOMAIN hist : hist[i].key = j /\ hist[i].at = added[j]
      BY <3>1 DEF FloodInv, EntriesOK
    <3>4. hist'[n].key # j
      BY <1>4, <2>2
    <3> QED BY <1>4, <3>1, <3>2, <3>3, <3>4
  <2> QED BY <2>1, <2>2
<1>9. ASSUME NEW i \in DOMAIN hist, Flooded(i) PROVE Flooded(i)'
  BY <1>2, <1>4, <1>6, <1>9, FloodStays
<1>10. Unforgotten'
  <2> SUFFICES ASSUME NEW i \in DOMAIN hist', hist'[i].key \notin present',
                      ~(hist'[i].at + NonceTTL <= now)
               PROVE  Flooded(i)'
    BY <1>6 DEF Unforgotten
  <2>1. i \in DOMAIN hist /\ hist'[i] = hist[i]
    BY <1>4, <1>5
  <2>2. hist[i].at + NonceTTL > now
    BY <1>3, <1>7, <2>1
  <2>3. CASE hist[i].key \in gone
    BY <1>1, <1>3, <1>6, <2>1, <2>2, <2>3, EvictionFloods DEF FloodInv
  <2>4. CASE hist[i].key \notin gone
    <3>1. hist[i].key \notin present
      BY <1>5, <2>1, <2>4
    <3> QED BY <1>9, <2>1, <3>1 DEF FloodInv, Unforgotten
  <2> QED BY <2>3, <2>4
<1>11. ASSUME NEW i \in DOMAIN hist, hist[i].msg = msg[d] PROVE Flooded(i)
  <2>1. hist[i].key = k /\ now < hist[i].at + NonceTTL
    BY <1>11, StillYoung DEF HInv, HistOK, Record
  <2>2. k \notin present
    <3>1. CASE k \in present
      <4>1. hist[i].at <= added[k] /\ expires[k] = added[k] + NonceTTL
        BY <2>1, <3>1 DEF FloodInv, EntriesOK
      <4>2. added[k] \in Nat
        BY <1>2, <1>3 DEF TypeOK
      <4>3. now < expires[k]
        BY <1>3, <1>7, <2>1, <4>1, <4>2
      <4> QED BY <1>6, <3>1, <4>3 DEF Live
    <3> QED BY <3>1
  <2> QED BY <1>3, <1>7, <2>1, <2>2 DEF FloodInv, Unforgotten
<1>12. ReplayNeedsFlood'
  <2> SUFFICES ASSUME NEW i \in DOMAIN hist', NEW j \in DOMAIN hist', i < j,
                      hist'[i].msg = hist'[j].msg
               PROVE  /\ store = "memory"
                      /\ Cardinality({h \in 1 .. (j - 1) : hist'[h].at >= hist'[i].at})
                            > MaxEntries
    BY <1>6 DEF ReplayNeedsFlood
  <2>1. i \in DOMAIN hist /\ hist'[i] = hist[i]
    BY <1>3, <1>4 DEF n
  <2>2. j \in Nat /\ j - 1 <= Len(hist)
    BY <1>3, <1>4 DEF n
  <2>3. {h \in 1 .. (j - 1) : hist'[h].at >= hist'[i].at}
          = {h \in 1 .. (j - 1) : hist[h].at >= hist[i].at}
    BY <1>3, <1>4, <2>1, <2>2
  <2>4. CASE j \in DOMAIN hist
    <3>1. hist'[j] = hist[j]
      BY <1>4, <2>4
    <3> QED BY <2>1, <2>3, <2>4, <3>1 DEF FloodInv, ReplayNeedsFlood
  <2>5. CASE j = n
    <3>1. Flooded(i)
      BY <1>4, <1>11, <2>1, <2>5
    <3>2. 1 .. (j - 1) = DOMAIN hist
      BY <1>3, <2>5 DEF n
    <3> QED BY <2>3, <3>1, <3>2 DEF Flooded, Since
  <2> QED BY <1>4, <2>4, <2>5
<1> QED BY <1>8, <1>10, <1>12 DEF FloodInv

\* A sweep only takes what has expired, and time only lets nonces expire.
LEMMA FloodOthers ==
    ASSUME HInv, FloodInv,
           \/ \E d \in Delivery : Arrive(d) \/ Check(d) \/ Refuse(d)
           \/ Sweep \/ Stop \/ Tick \/ UNCHANGED vars
    PROVE  FloodInv'
<1> USE HmacAssumption
<1>1. /\ hist' = hist /\ expires' = expires /\ added' = added /\ store' = store
      /\ now' \in Nat /\ now <= now' /\ now \in Nat
  BY DEF HInv, TypeOK, Arrive, Check, Refuse, Decided, Sweep, Stop, Tick, vars, delivery, nonces
<1>2. present' \subseteq present /\ \A k \in present : k \in present' \/ expires[k] <= now
  BY DEF HInv, TypeOK, Arrive, Check, Refuse, Sweep, Expired, Stop, Tick, vars, nonces
<1>3. EntriesOK'
  BY <1>1, <1>2 DEF FloodInv, EntriesOK
<1>4. Unforgotten'
  <2> SUFFICES ASSUME NEW i \in DOMAIN hist, hist[i].key \notin present', ~Flooded(i)
               PROVE  hist[i].at + NonceTTL <= now'
    BY <1>1 DEF Unforgotten, Flooded, Since
  <2>1. hist[i].at \in Nat /\ hist[i].key \in Key /\ added[hist[i].key] \in Nat
    BY HistType DEF HInv, TypeOK
  <2>2. CASE hist[i].key \in present
    <3>1. /\ expires[hist[i].key] <= now /\ hist[i].at <= added[hist[i].key]
          /\ expires[hist[i].key] = added[hist[i].key] + NonceTTL
      BY <1>2, <2>2 DEF FloodInv, EntriesOK
    <3> QED BY <1>1, <2>1, <3>1
  <2>3. CASE hist[i].key \notin present
    <3>1. hist[i].at + NonceTTL <= now
      BY <2>3 DEF FloodInv, Unforgotten
    <3> QED BY <1>1, <2>1, <3>1
  <2> QED BY <2>2, <2>3
<1>5. ReplayNeedsFlood'
  BY <1>1 DEF FloodInv, ReplayNeedsFlood
<1> QED BY <1>3, <1>4, <1>5 DEF FloodInv

\* A signed message gets through twice only with the store in memory, and only after
\* more than MaxEntries nonces, its own included, were recorded no earlier than it was:
\* what evictLocked gives up is never the nonce of a quiet client.
THEOREM FloodNeeded == Spec => []ReplayNeedsFlood
<1>1. Init => CapInv /\ FloodInv
  <2>1. Init => CapInv
    BY FS_EmptySet, HmacAssumption DEF Init, CapInv, Capped
  <2>2. Init => FloodInv
    BY DEF Init, FloodInv, EntriesOK, Unforgotten, ReplayNeedsFlood
  <2> QED BY <2>1, <2>2
<1>2. HInv /\ HInv' /\ CapInv /\ FloodInv /\ [Next]_vars => CapInv' /\ FloodInv'
  <2> SUFFICES ASSUME HInv, HInv', CapInv, FloodInv, [Next]_vars PROVE CapInv' /\ FloodInv'
    OBVIOUS
  <2>1. CapInv'
    BY CapStep DEF HInv
  <2>2. CASE \E d \in Delivery : Record(d)
    BY <2>1, <2>2, FloodRecord
  <2>3. CASE ~ \E d \in Delivery : Record(d)
    BY <2>1, <2>3, FloodOthers DEF Next
  <2> QED BY <2>2, <2>3
<1>3. FloodInv => ReplayNeedsFlood
  BY DEF FloodInv
<1> QED BY <1>1, <1>2, <1>3, InitHolds, StepHolds, PTL DEF Spec
=============================================================================
