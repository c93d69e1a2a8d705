------------------------------ MODULE MCRunner ------------------------------
(***************************************************************************)
(* Two workers share two items of two providers, one of which may refuse   *)
(* to be cancelled; the bridge holds one URL, so that a Fetch of three     *)
(* blocks on it.                                                           *)
(***************************************************************************)
EXTENDS Runner, TLC

CONSTANTS w1, w2, i1, i2, p1, p2

MCWorkers == {w1, w2}
MCItems == {i1, i2}
MCProviders == {p1, p2}
MCProviderOf == (i1 :> p1) @@ (i2 :> p2)
MCStubborn == {i1}
=============================================================================
