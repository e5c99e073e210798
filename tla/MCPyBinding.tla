---------------------------- MODULE MCPyBinding ----------------------------
(***************************************************************************)
(* PyBinding with two threads, a guarded and an unguarded object.        *)
(***************************************************************************)
EXTENDS PyBinding, TLC

CONSTANTS t1, t2, o1, o2, h1, h2, h3, p1, p2

MCThreads == {t1, t2}
MCObjects == {o1, o2}
MCHandles == {h1, h2, h3}
MCPaths == {p1, p2}
MCGuarded == {o1}

Symmetry == Permutations(MCThreads) \cup Permutations(MCHandles) \cup Permutations(MCPaths)
=============================================================================
