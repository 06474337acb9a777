----------------------------- MODULE MCHmacAuth -----------------------------
(* A small instance of HmacAuth: three genuine messages, the third signed later, and *)
(* one message of each refused class that carries the nonce of the first.            *)
EXTENDS HmacAuth, TLC

CONSTANTS m1, m2, m3, m4, m5, m6

MCClass == (m1 :> "genuine" @@ m2 :> "genuine" @@ m3 :> "genuine"
            @@ m4 :> "malformed" @@ m5 :> "unknown" @@ m6 :> "forged")
MCKeyOf == (m1 :> "n1" @@ m2 :> "n2" @@ m3 :> "n3"
            @@ m4 :> "n1" @@ m5 :> "n1" @@ m6 :> "n1")
MCTs == (m1 :> 2 @@ m2 :> 2 @@ m3 :> 3 @@ m4 :> 2 @@ m5 :> 2 @@ m6 :> 2)
Symmetry == Permutations(Delivery)
=============================================================================
