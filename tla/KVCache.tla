------------------------------ MODULE KVCache ------------------------------
(***************************************************************************)
(* What src/stkvbuffer promises, without chunks: a map from keys to       *)
(* values with a recency order (oldest first). Set stores a value and may *)
(* first evict a prefix of the oldest other keys to make room; Get moves  *)
(* its key to the newest place; Del removes a key; a restart over the     *)
(* same data keeps every key and value and may reorder them. call is the *)
(* operation the step performs, so a Set is matched with its own key and  *)
(* value.                                                                  *)
(***************************************************************************)
EXTENDS Sequences, SequencesExt, Functions, FiniteSets

CONSTANTS Keys, Vals

VARIABLES store, order, call

Calls == [op : {"set", "reject", "get", "del", "open", "crash"}, k : Keys \cup {<<>>}, v : Vals \cup {<<>>}]

TypeOK ==
  /\ DOMAIN store \subseteq Keys /\ \A k \in DOMAIN store : store[k] \in Vals
  /\ order \in Seq(Keys) /\ ToSet(order) = DOMAIN store
  /\ call \in Calls

Init == store = [k \in {} |-> <<>>] /\ order = <<>> /\ call \in Calls

\* Set(k, v) that evicts the n oldest other keys first.
Put(k, v) ==
  /\ call' = [op |-> "set", k |-> k, v |-> v]
  /\ \E n \in 0..Len(Remove(order, k)) :
       LET rest == Remove(order, k)
           gone == ToSet(SubSeq(rest, 1, n))
       IN /\ store' = (k :> v) @@ Restrict(store, DOMAIN store \ (gone \cup {k}))
          /\ order' = SubSeq(rest, n + 1, Len(rest)) \o <<k>>

\* Set refused ("key+val is too long"): nothing changes.
Reject(k, v) ==
  /\ call' = [op |-> "reject", k |-> k, v |-> v] /\ UNCHANGED <<store, order>>

Read(k) ==
  /\ call' = [op |-> "get", k |-> k, v |-> <<>>] /\ UNCHANGED store
  /\ order' = IF k \in DOMAIN store THEN Remove(order, k) \o <<k>> ELSE order

Delete(k) ==
  /\ call' = [op |-> "del", k |-> k, v |-> <<>>]
  /\ store' = Restrict(store, DOMAIN store \ {k}) /\ order' = Remove(order, k)

Crash == call' = [op |-> "crash", k |-> <<>>, v |-> <<>>] /\ UNCHANGED <<store, order>>

Restart ==
  /\ call' = [op |-> "open", k |-> <<>>, v |-> <<>>] /\ UNCHANGED store
  /\ order' \in {s \in [1..Len(order) -> ToSet(order)] : ToSet(s) = ToSet(order)}

Next ==
  \/ \E k \in Keys, v \in Vals : Put(k, v) \/ Reject(k, v)
  \/ \E k \in Keys : Read(k) \/ Delete(k)
  \/ Crash \/ Restart

Spec == Init /\ [][Next]_<<store, order, call>>

=============================================================================
