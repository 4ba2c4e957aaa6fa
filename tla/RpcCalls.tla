------------------------------ MODULE RpcCalls ------------------------------
(***************************************************************************)
(* What ServiceRpc promises each caller, without sequence numbers, frames, *)
(* signals or timers. A call once issued is pending until it is resolved, *)
(* exactly once and eventually; one step may resolve several calls (the   *)
(* periodic sweep). The resolving step reports at most one outcome, a     *)
(* callback or an exception. A sync caller waits until it returns; its    *)
(* return either is the resolving step or comes after it, and in the     *)
(* latter case it may report one exception more (the caller's own timer  *)
(* firing after the sweep already resolved the call, rpc.go:148-155).     *)
(* Nothing else is reported for a call after it is resolved.              *)
(* reported[c] counts the callbacks and the exceptions of the call.       *)
(***************************************************************************)
EXTENDS Naturals

CONSTANTS Callers

VARIABLES state, reported, waiting

avars == <<state, reported, waiting>>

\* No report, one callback, or one exception.
Outcomes == {<<0, 0>>, <<1, 0>>, <<0, 1>>}

Init ==
  /\ state = [c \in Callers |-> "idle"]
  /\ reported = [c \in Callers |-> <<0, 0>>]
  /\ waiting = [c \in Callers |-> FALSE]

\* The call is issued; a sync call whose request went out starts waiting.
Issue(c) ==
  /\ state[c] = "idle"
  /\ state' = [state EXCEPT ![c] = "pending"]
  /\ waiting' \in {[waiting EXCEPT ![c] = w] : w \in BOOLEAN}
  /\ UNCHANGED reported

\* The calls of S are resolved with one outcome each; the waiting callers
\* of W, if any, return in the same step.
Resolve(S, W) ==
  /\ S # {} /\ \A c \in S : state[c] = "pending"
  /\ W \subseteq {c \in S : waiting[c]}
  /\ state' = [c \in Callers |-> IF c \in S THEN "resolved" ELSE state[c]]
  /\ \E out \in [S -> Outcomes] :
       reported' = [c \in Callers |-> IF c \in S THEN out[c] ELSE reported[c]]
  /\ waiting' = [c \in Callers |-> IF c \in W THEN FALSE ELSE waiting[c]]

\* A sync caller returns after its call was resolved without it, reporting
\* nothing or one exception more.
Return(c) ==
  /\ waiting[c] /\ state[c] = "resolved"
  /\ waiting' = [waiting EXCEPT ![c] = FALSE]
  /\ reported' \in {reported, [reported EXCEPT ![c][2] = @ + 1]}
  /\ UNCHANGED state

Next ==
  \/ \E c \in Callers : Issue(c) \/ Return(c)
  \/ \E S, W \in SUBSET Callers : Resolve(S, W)

\* Every pending call is eventually resolved, and every waiting caller
\* eventually returns. Stated as leads-to rather than as fairness of the
\* actions, so that it means the same under a refinement mapping, where
\* an abstract step may take several concrete steps to become possible.
Resolution ==
  \A c \in Callers :
    /\ state[c] = "pending" ~> state[c] = "resolved"
    /\ waiting[c] ~> ~waiting[c]

Spec == Init /\ [][Next]_avars /\ Resolution

=============================================================================
