-------------------------- MODULE IdempotencyTypes --------------------------
(***************************************************************************)
(* What the idempotency middleware and its stores have in common.          *)
(***************************************************************************)
EXTENDS Naturals

CONSTANTS
    Request,     \* the requests that may arrive, each one goroutine
    Key,         \* the values of the Idempotency-Key header
    Payload,     \* the request bodies, up to equality of their sha256
    NoHash,      \* the zero PayloadHash
    NoResponse   \* a nil *Response

\* A saved response: the request whose handler produced it stands for status,
\* headers and body.
Response == [by : Request, hash : Payload \cup {NoHash}]

ASSUME TypesAssumption ==
    /\ NoHash \notin Payload
    /\ NoResponse \notin Response
=============================================================================
