--------------------------- MODULE IdempotentKey ---------------------------
(***************************************************************************)
(* What plugins/idempotency promises, apart from how: for each key at most *)
(* one request executes, an execution may publish one response, nothing    *)
(* executes while a published response is live, and a replay only ever     *)
(* hands out a response that was published under the key of the request.   *)
(***************************************************************************)
CONSTANTS
    Request, Key,
    None         \* no request

VARIABLES
    key,         \* the key of each request
    executing,   \* for each key the requests that execute under it
    live,        \* for each key the request whose response is live, or None
    published,   \* the requests that have published their response
    replayed     \* for each request the one whose response it was sent, or None

absVars == <<key, executing, live, published, replayed>>

AbsInit ==
    /\ key \in [Request -> Key]
    /\ executing = [k \in Key |-> {}]
    /\ live = [k \in Key |-> None]
    /\ published = {}
    /\ replayed = [r \in Request |-> None]

Begin(r) ==
    /\ executing[key[r]] = {}
    /\ live[key[r]] = None
    /\ executing' = [executing EXCEPT ![key[r]] = {r}]
    /\ UNCHANGED <<key, live, published, replayed>>

Publish(r) ==
    /\ executing[key[r]] = {r}
    /\ r \notin published
    /\ live' = [live EXCEPT ![key[r]] = r]
    /\ published' = published \cup {r}
    /\ UNCHANGED <<key, executing, replayed>>

End(r) ==
    /\ executing[key[r]] = {r}
    /\ executing' = [executing EXCEPT ![key[r]] = {}]
    /\ UNCHANGED <<key, live, published, replayed>>

Replay(r, s) ==
    /\ r # s
    /\ s \in published
    /\ key[s] = key[r]
    /\ replayed[r] = None
    /\ replayed' = [replayed EXCEPT ![r] = s]
    /\ UNCHANGED <<key, executing, live, published>>

\* Responses expire under keys that nobody executes.
Expire(K) ==
    /\ \A k \in K : executing[k] = {}
    /\ live' = [k \in Key |-> IF k \in K THEN None ELSE live[k]]
    /\ UNCHANGED <<key, executing, published, replayed>>

AbsNext ==
    \/ \E r \in Request : Begin(r) \/ Publish(r) \/ End(r)
    \/ \E r, s \in Request : Replay(r, s)
    \/ \E K \in SUBSET Key : Expire(K)

AbsSpec == AbsInit /\ [][AbsNext]_absVars
=============================================================================
