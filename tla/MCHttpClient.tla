---------------------------- MODULE MCHttpClient ----------------------------
(***************************************************************************)
(* Two calls of two attempts share a pool of four objects, which any of    *)
(* them may get again after its release; or one call of three attempts has *)
(* three objects.                                                          *)
(***************************************************************************)
EXTENDS HttpClient, TLC

CONSTANTS c1, c2, b1, b2, b3, b4

MCCallers == {c1, c2}
MCBuffers == {b1, b2, b3, b4}
MCStatuses == {0, 200, 401, 429}
OneCaller == {c1}
ThreeBuffers == {b1, b2, b3}

ObjectSymmetry == Permutations(MCCallers) \cup Permutations(MCBuffers)
=============================================================================
