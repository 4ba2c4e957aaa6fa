---------------------------- MODULE MC_RpcEngine ----------------------------
(* Model-checking instance of RpcEngine: a few callers as model values.    *)
EXTENDS RpcEngine

\* Callers are interchangeable goroutines: every call chooses its own
\* options, and seqs are handed out in call order, not by caller name.
CallerSymmetry == Permutations(Callers)

=============================================================================
