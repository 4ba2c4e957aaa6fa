---------------------------- MODULE MC_Framing ----------------------------
(***************************************************************************)
(* Schemas and records for Framing. The receiver has version 1 of a        *)
(* record; the peer sends version 2, which adds a nested record with tag   *)
(* 4. Field 1 has no `tag` (index 0), field 2 has tag 15 (an escaped       *)
(* header), field 3 is a required []uint8, field 4 a map[uint8]string.     *)
(* Ids 0 and 1 are registered for the record; 300 (a two-byte varint) is  *)
(* not, so the service gets its bytes.                                     *)
(***************************************************************************)
EXTENDS Framing, TLC

Scalar(kind, width) == [k |-> kind, w |-> width, el |-> "none", fl |-> <<>>]
Field(tg, rq, typ) == [tag |-> tg, req |-> rq, t |-> typ]

Int8 == Scalar("int", 8)
Uint8 == Scalar("uint", 8)
Str == Scalar("string", 0)
Bytes8 == [k |-> "slice", w |-> 0, el |-> Uint8, fl |-> <<>>]
Inner == [k |-> "struct", w |-> 0, el |-> "none", fl |-> <<Field(0, FALSE, Int8)>>]

U8Strings == [k |-> "map", w |-> 0, el |-> Str, fl |-> <<>>, kt |-> Uint8]

V1Fields == <<Field(-1, FALSE, Int8), Field(15, FALSE, Str), Field(3, TRUE, Bytes8),
              Field(5, FALSE, U8Strings)>>
MC_RecvT == [k |-> "struct", w |-> 0, el |-> "none", fl |-> V1Fields]
MC_SendT == [k |-> "struct", w |-> 0, el |-> "none",
             fl |-> Append(V1Fields, Field(4, FALSE, Inner))]

MC_MsgReg == {0, 1}

\* Zeros (id 0 is itself omitted on the wire), the int8 extremes, a
\* non-empty string and byte 255.
MC_Payloads ==
  << [id |-> 0, msg |-> <<0, <<>>, <<>>, <<>>, <<0>>>>],
     [id |-> 1, msg |-> <<-128, <<97>>, <<255>>, (0 :> <<>>) @@ (200 :> <<98>>), <<-1>>>>],
     [id |-> 300, msg |-> <<127, <<>>, <<0, 200>>, <<>>, <<-128>>>>] >>

\* A ServiceRpc peer sends an rpc request (flag 0x2) and an rpc response
\* (flag 0x3): a two-byte sequence number, a negative RspCode, a
\* non-empty and an empty []byte, a bool and a function name.
MC_RpcPayloads ==
  << [flag |-> 2, msg |-> <<7, 300, <<1, 255>>, TRUE, <<69>>>>],
     [flag |-> 3, msg |-> <<7, 300, 0, -1, <<>>, <<69>>>>] >>

=============================================================================
