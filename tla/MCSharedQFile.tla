----------------------------- MODULE MCSharedQFile -----------------------------
(* Two controllers with their own child sets, managing two caches.         *)
EXTENDS SharedQFile

CONSTANTS c1, c2, s1, s2, r1, r2

MCCtrls == {c1, c2}
MCRows == {r1, r2}
MCSigOf == (c1 :> s1) @@ (c2 :> s2)
MCObjName == (c1 :> <<"p","f","1">>) @@ (c2 :> <<"p","f","2">>)
\* cache_name "l2.c" and "l2_c"
MCCollidingCaches == (c1 :> <<"l","2",".","c">>) @@ (c2 :> <<"l","2","_","c">>)
MCRowSymmetry == Permutations(MCRows)
=============================================================================
