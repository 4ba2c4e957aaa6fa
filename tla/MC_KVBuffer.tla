----------------------------- MODULE MC_KVBuffer -----------------------------
(* Model-checking instance of KVBuffer: 32-byte chunks (the least NewKVBuffer *)
(* accepts), so a chunk holds 28 bytes and a node's first chunk 20 after    *)
(* the sizes. The keys are one byte (inside the first chunk) and 22 bytes   *)
(* (spilling into the second); the values take none, part of a chunk, or   *)
(* a chunk and more. Bytes are numbers from 100 up.                        *)
EXTENDS KVBuffer

MC_Keys == {<<101>>, [i \in 1..22 |-> 150 + i]}
MC_Vals == {<<>>, <<111, 112>>, [i \in 1..60 |-> 200 + i]}

=============================================================================
