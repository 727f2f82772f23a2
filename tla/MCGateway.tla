----------------------------- MODULE MCGateway -----------------------------
(* Gateway with a pool of two and a pool of one.                             *)
EXTENDS Gateway, TLC

MCNameOf == (1 :> "a") @@ (2 :> "a") @@ (3 :> "b")

MCDeclared == (1 :> "text") @@ (2 :> "absent") @@ (3 :> "image")

RequestSymmetry == Permutations(Requests)
=============================================================================
