------------------------------ MODULE Framing ------------------------------
(***************************************************************************)
(* One TCP connection of a ServiceSpb, end to end: the peer frames Spb     *)
(* records with EncodeProtocol (encode.go), the session's dorecv reads the *)
(* byte stream in chunks of any size and pushes them into hander, and      *)
(* dohand joins them to the carried partial frame (tempBuf) and calls      *)
(* Service.ParseMsg -> ServiceSpb.Unmarshal -> MsgLen, SpbDecode until no   *)
(* whole frame is left (session.go, service.go, simpleimp.go).             *)
(*                                                                         *)
(* Bytes are positions in the stream the peer wrote: a chunk and the data  *)
(* dohand parses are ranges <<from, to>> of it (from exclusive).           *)
(* The peer sends with SendSpbCmd: the record is Spb-encoded into the      *)
(* CmdData of a JsonProto envelope, which is framed. What ParseMsg queues  *)
(* is "delivered" as the service's Handle sees it after handleMsg and      *)
(* ServiceSpb.HandleMessage or HandleError (the queue itself, its threads  *)
(* and its drops when full are ServiceDispatch's part).                    *)
(* The connection may instead belong to a ServiceRpc (rpc.go): its peer    *)
(* sends ReqProto and RspProto frames with sendRpcReq and sendRpcRsp, whose *)
(* flag bits share the first length byte, and ServiceRpc.Unmarshal reads  *)
(* them back by msgLen and the flag.                                       *)
(***************************************************************************)
EXTENDS SpbCodec, FiniteSets
LOCAL INSTANCE Bitwise

CONSTANTS
  SendT,        \* the Spb type the peer encodes
  RecvT,        \* the Spb type the service registered for the ids in MsgReg
  MsgReg,       \* service.msgReg: the registered message ids
  Payloads,     \* the [id, msg] the peer may send, msg a record of SendT, by name
  Services,     \* the services the connection may belong to: "spb", "rpc"
  RpcPayloads,  \* the [flag, msg] a ServiceRpc peer may send, by name
  NumFrames,    \* bound: frames the peer sends
  ReadSizes,    \* the byte counts one socket Read may return
  RecvListLen,  \* capacity of hander
  MaxMsgSize    \* session.go: 2 MiB

VARIABLES
  svc,        \* the service of the connection: ServiceSpb or ServiceRpc
  msgs,       \* the names of the records the peer sends, in order
  stream,     \* the bytes it writes for them
  recvd,      \* bytes of the stream dorecv has read
  peerClosed, \* the peer closed its end after the last frame
  rpc,        \* dorecv: "read", then "closed" once its defer closed closer
  hander,     \* chunks read and not yet taken by dohand
  hpc,        \* dohand: "take", "parse", "exit"
  temp,       \* tempBuf: <<>> or <<from>>, a partial frame up to the data
  data,       \* buf.data being parsed: <<from, to>>
  sockClosed, \* dohand closed the socket (oversized or invalid frame)
  delivered   \* what the service's Handle got: [id, msg, err] records

vars == <<svc, msgs, stream, recvd, peerClosed, rpc, hander, hpc, temp, data, sockClosed,
          delivered>>

(***************************************************************************)
(* The wire frame                                                          *)
(***************************************************************************)

\* EncodeProtocol: a 4-byte length of the whole frame, then the Spb payload.
\* Byte 1 of the length is written as byte(msglen >> 18).
EncodeProtocol(payload) ==
  LET msglen == Len(payload) + 4
  IN << (msglen \div 2^24) % 256, (msglen \div 2^18) % 256,
        (msglen \div 2^8) % 256, msglen % 256 >> \o payload

\* MsgLen: the big-endian uint32 of the first four bytes. A top byte of 128
\* or more gives a length of 2^31 or more, which every caller rejects as
\* MaxMsgSize or more; it is represented by 2^31 - 1.
MsgLen(b) ==
  IF b[1] >= 128 THEN 2147483647
  ELSE b[4] + b[3] * 2^8 + b[2] * 2^16 + b[1] * 2^24

(***************************************************************************)
(* The ServiceSpb envelope                                                 *)
(***************************************************************************)

\* JsonProto{CmdId uint64; CmdData []byte}: neither field has a tag.
JsonProto ==
  [k |-> "struct", w |-> 0, el |-> "none",
   fl |-> << [tag |-> -1, req |-> FALSE, t |-> [k |-> "uint", w |-> Word, el |-> "none", fl |-> <<>>]],
             [tag |-> -1, req |-> FALSE,
              t |-> [k |-> "slice", w |-> 0, el |-> [k |-> "uint", w |-> 8, el |-> "none", fl |-> <<>>],
                     fl |-> <<>>]] >>]

\* Marshal and Unmarshal with EncodeTyepSpb.
Marshal(t, x) == SpbEncode(t, x)
UnmarshalSpb(d, t) == SpbDecode(d, t)

\* SendSpbCmd(sess, msgID, msg): the frame of JsonProto{msgID, Marshal(msg)}.
SendSpbCmd(p) == EncodeProtocol(Marshal(JsonProto, <<p.id, Marshal(SendT, p.msg)>>))

(***************************************************************************)
(* The ServiceRpc frame (rpc.go)                                           *)
(***************************************************************************)

\* A struct type none of whose fields has a tag.
Untagged(ts) == [k |-> "struct", w |-> 0, el |-> "none",
                 fl |-> [i \in 1..Len(ts) |-> [tag |-> -1, req |-> FALSE, t |-> ts[i]]]]
ScalarT(kind, width) == [k |-> kind, w |-> width, el |-> "none", fl |-> <<>>]
BytesT == [k |-> "slice", w |-> 0, el |-> ScalarT("uint", 8), fl |-> <<>>]

\* ReqProto{ReqCmdId, ReqCmdSeq uint32; ReqData []byte; IsOneWay bool;
\* FuncName string} and RspProto{RspCmdId, RspCmdSeq, PushSeqId uint32;
\* RspCode int32; RspData []byte; FuncName string}. As uint64 is Word bits,
\* the 32-bit fields are Word - 4 bits: narrower than the accumulator, so
\* a negative RspCode is sign-extended on the wire and truncated back.
W32 == Word - 4
ReqProto == Untagged(<<ScalarT("uint", W32), ScalarT("uint", W32), BytesT, ScalarT("bool", 0),
                       ScalarT("string", 0)>>)
RspProto == Untagged(<<ScalarT("uint", W32), ScalarT("uint", W32), ScalarT("uint", W32),
                       ScalarT("int", W32), BytesT, ScalarT("string", 0)>>)

\* Bit 0 of the flag byte: a response.
ProtoOf(flag) == IF (flag & 1) = 0 THEN ReqProto ELSE RspProto

\* encodeProtocol(msg, EncodeTyepSpb): the big-endian length of the whole
\* frame, then the payload; a frame whose first byte would not be 0 (16 MiB
\* or more) is refused, and nothing is sent.
encodeProtocol(payload) ==
  LET msglen == Len(payload) + 4
  IN IF (msglen \div 2^24) % 256 > 0 THEN <<>>
     ELSE << 0, (msglen \div 2^16) % 256, (msglen \div 2^8) % 256, msglen % 256 >> \o payload

\* msgLen: bytes 1..3 of the frame; byte 0 carries the flag.
msgLen(b) == b[4] + b[3] * 2^8 + b[2] * 2^16

\* sendRpcReq (flag 0x2) and sendRpcRsp (flag 0x3): buf[0] |= flag.
SendRpc(p) ==
  LET buf == encodeProtocol(Marshal(ProtoOf(p.flag), p.msg))
  IN IF buf = <<>> THEN <<>> ELSE [buf EXCEPT ![1] = @ | p.flag]

\* The peer's frame for payload p on a connection of service s.
Frame(s, p) == IF s = "spb" THEN SendSpbCmd(p) ELSE SendRpc(p)

PayloadsOf(s) == IF s = "spb" THEN Payloads ELSE RpcPayloads

\* The byte stream the peer writes: its frames back to back.
StreamOf(s, m) == FlattenSeq([i \in 1..Len(m) |-> Frame(s, PayloadsOf(s)[m[i]])])

\* ServiceRpc.Unmarshal's message id for a decoded frame: a request is 0,
\* or 2 with bit 1 (rpc) set; a response 1, or 3. A response to a pending
\* sync call is handed to its caller instead (id -1); RpcEngine models that.
RpcMsgID(flag) == (flag & 1) + (IF (flag & 2) = 0 THEN 0 ELSE 2)

\* ServiceRpc.Unmarshal on data, as Unmarshal below for ServiceSpb.
RpcUnmarshal(r) ==
  LET len  == r[2] - r[1]
      ml   == msgLen(SubSeq(stream, r[1] + 1, r[1] + 4))
      flag == stream[r[1] + 1]
  IN CASE len < 4 -> [n |-> 0]
       [] ml < 4 \/ ml >= MaxMsgSize -> [n |-> len, id |-> 0, msg |-> <<>>, err |-> "length"]
       [] len < ml -> [n |-> 0]
       [] OTHER ->
            Bind(UnmarshalSpb(SubSeq(stream, r[1] + 5, r[1] + ml), ProtoOf(flag)), LAMBDA d :
              IF d.err # "none" THEN [n |-> ml, id |-> 0, msg |-> <<>>, err |-> d.err]
              ELSE [n |-> ml, id |-> RpcMsgID(flag), msg |-> d.v, err |-> "none"])

\* ServiceSpb.Unmarshal on data: the length parsed (0: wait for more), and
\* the message id, the CmdData (<<>> for nil) or the error ParseMsg passes on.
Unmarshal(r) ==
  LET len == r[2] - r[1]
      ml  == MsgLen(SubSeq(stream, r[1] + 1, r[1] + 4))
  IN CASE len < 4 -> [n |-> 0]
       [] ml < 4 \/ ml >= MaxMsgSize -> [n |-> len, id |-> 0, msg |-> <<>>, err |-> "length"]
       [] len < ml -> [n |-> 0]
       [] OTHER ->
            Bind(UnmarshalSpb(SubSeq(stream, r[1] + 5, r[1] + ml), JsonProto), LAMBDA d :
              IF d.err # "none" THEN [n |-> ml, id |-> 0, msg |-> <<>>, err |-> d.err]
              ELSE [n |-> ml, id |-> ToSigned(d.v[1], Word), msg |-> d.v[2], err |-> "none"])

\* ServiceSpb.HandleMessage(msgID, d): an unregistered id is handled with the
\* raw bytes; a registered one with d decoded into a new RecvT, or with nil
\* and the decode error.
HandleMessage(id, d) ==
  IF id \notin MsgReg THEN [id |-> id, msg |-> d, err |-> "none"]
  ELSE Bind(UnmarshalSpb(d, RecvT), LAMBDA m :
         IF m.err # "none" THEN [id |-> id, msg |-> <<>>, err |-> m.err]
         ELSE [id |-> id, msg |-> m.v, err |-> "none"])

\* Service.handleMsg on a Data message: an error goes to HandleError, which
\* calls Handle(current, 0, nil, err); otherwise HandleMessage with
\* uint64(msg.MsgID).
\* ServiceRpc.HandleMessage passes the decoded proto on by its id.
handleMsg(u) ==
  CASE u.err # "none" -> [id |-> 0, msg |-> <<>>, err |-> u.err]
    [] svc = "spb" -> HandleMessage(ToUnsigned(u.id, Word), u.msg)
    [] OTHER -> [id |-> u.id, msg |-> u.msg, err |-> "none"]

\* Service.ParseMsg: Unmarshal; a parsed message with a non-negative id (or
\* its error) is queued for the service, one with a negative id dropped.
ParseMsg(r) ==
  Bind(IF svc = "spb" THEN Unmarshal(r) ELSE RpcUnmarshal(r), LAMBDA u :
    [n |-> u.n,
     out |-> IF u.n > 0 /\ u.id >= 0 THEN <<handleMsg(u)>> ELSE <<>>])

TypeOK ==
  /\ svc \in Services
  /\ msgs \in [1..NumFrames -> DOMAIN PayloadsOf(svc)]
  /\ stream = StreamOf(svc, msgs)
  /\ recvd \in 0..Len(stream)
  /\ peerClosed \in BOOLEAN /\ sockClosed \in BOOLEAN
  /\ rpc \in {"read", "closed"}
  /\ hpc \in {"take", "parse", "exit"}
  /\ Len(hander) <= RecvListLen
  /\ temp \in {<<>>} \cup {<<f>> : f \in 0..recvd}
  /\ data \in (0..recvd) \X (0..recvd)
  /\ Len(delivered) <= NumFrames + Len(stream)

Init ==
  /\ svc \in Services
  /\ msgs \in [1..NumFrames -> DOMAIN PayloadsOf(svc)]
  /\ stream = StreamOf(svc, msgs)
  /\ recvd = 0 /\ peerClosed = FALSE /\ rpc = "read"
  /\ hander = <<>> /\ hpc = "take" /\ temp = <<>> /\ data = <<0, 0>>
  /\ sockClosed = FALSE /\ delivered = <<>>

Min2(a, b) == IF a <= b THEN a ELSE b

(***************************************************************************)
(* The peer and dorecv                                                     *)
(***************************************************************************)

\* The peer closes its end once it has written every frame.
PeerClose ==
  /\ ~peerClosed
  /\ peerClosed' = TRUE
  /\ UNCHANGED <<svc, msgs, stream, recvd, rpc, hander, hpc, temp, data, sockClosed, delivered>>

ReadNoBlock ==
  /\ rpc = "read" /\ ~sockClosed
  /\ recvd < Len(stream)
  /\ \E n \in ReadSizes :
       LET e == Min2(recvd + n, Len(stream))
       IN /\ recvd' = e
          /\ hander' = Append(hander, <<recvd, e>>)
  /\ UNCHANGED <<svc, msgs, stream, peerClosed, rpc, hpc, temp, data, sockClosed, delivered>>

\* s.socket.Read returns n bytes, then `s.hander <- rsData{msgbuf[0:n]}`
\* (blocking while hander is full).
Read ==
  /\ rpc = "read" /\ ~sockClosed
  /\ recvd < Len(stream) /\ Len(hander) < RecvListLen
  /\ \E n \in ReadSizes :
       LET e == Min2(recvd + n, Len(stream))
       IN /\ recvd' = e
          /\ hander' = Append(hander, <<recvd, e>>)
  /\ UNCHANGED <<svc, msgs, stream, peerClosed, rpc, hpc, temp, data, sockClosed, delivered>>

\* Read fails (end of stream after the peer closed, or the socket closed by
\* dohand): dorecv returns and its defer closes closer.
ReadEOF ==
  /\ rpc = "read"
  /\ \/ peerClosed /\ recvd = Len(stream)
     \/ sockClosed
  /\ rpc' = "closed"
  /\ UNCHANGED <<svc, msgs, stream, recvd, peerClosed, hander, hpc, temp, data, sockClosed, delivered>>

(***************************************************************************)
(* dohand                                                                  *)
(***************************************************************************)

\* case buf := <-s.hander: buf.data = append(tempBuf, buf.data...)
HandTake ==
  /\ hpc = "take" /\ hander # <<>>
  /\ data' = <<IF temp = <<>> THEN Head(hander)[1] ELSE temp[1], Head(hander)[2]>>
  /\ hander' = Tail(hander)
  /\ hpc' = "parse"
  /\ UNCHANGED <<svc, msgs, stream, recvd, peerClosed, rpc, temp, sockClosed, delivered>>

HandParseNoLoop ==
  /\ hpc = "parse"
  /\ \E p \in {ParseMsg(data)} :
     LET len == data[2] - data[1]
     IN /\ delivered' = delivered \o p.out
        /\ CASE p.n >= len ->
                  /\ temp' = <<>> /\ hpc' = "take"
                  /\ UNCHANGED <<data, sockClosed>>
             [] p.n > 0 ->
                  /\ temp' = <<data[1] + p.n>> /\ hpc' = "take"
                  /\ UNCHANGED <<data, sockClosed>>
             [] OTHER ->
                  /\ temp' = <<data[1]>> /\ hpc' = "take"
                  /\ sockClosed' = (sockClosed \/ len > MaxMsgSize)
                  /\ UNCHANGED data
  /\ UNCHANGED <<svc, msgs, stream, recvd, peerClosed, rpc, hander>>

\* anthorMsg: one ParseMsg call and the branch on its result.
HandParse ==
  /\ hpc = "parse"
  /\ \E p \in {ParseMsg(data)} :
     LET len == data[2] - data[1]
     IN /\ delivered' = delivered \o p.out
        /\ CASE p.n >= len ->
                  /\ temp' = <<>> /\ hpc' = "take"
                  /\ UNCHANGED <<data, sockClosed>>
             [] p.n > 0 ->
                  /\ data' = <<data[1] + p.n, data[2]>>
                  /\ UNCHANGED <<temp, hpc, sockClosed>>
             [] OTHER ->
                  /\ temp' = <<data[1]>> /\ hpc' = "take"
                  /\ sockClosed' = (sockClosed \/ len > MaxMsgSize)
                  /\ UNCHANGED data
  /\ UNCHANGED <<svc, msgs, stream, recvd, peerClosed, rpc, hander>>

\* case <-s.closer: take at most one more chunk, join it to tempBuf, call
\* ParseMsg once on the result, and return.
HandClose ==
  /\ hpc = "take" /\ rpc = "closed"
  /\ LET last == IF hander = <<>> THEN <<>> ELSE <<Head(hander)>>
         from == IF temp # <<>> THEN temp[1] ELSE IF last # <<>> THEN last[1][1] ELSE recvd
         to   == IF last # <<>> THEN last[1][2] ELSE recvd
     IN /\ hander' = IF last = <<>> THEN hander ELSE Tail(hander)
        /\ delivered' = IF from < to THEN delivered \o ParseMsg(<<from, to>>).out
                        ELSE delivered
  /\ hpc' = "exit"
  /\ UNCHANGED <<svc, msgs, stream, recvd, peerClosed, rpc, temp, data, sockClosed>>

DoRecv == Read \/ ReadEOF
DoHand == HandTake \/ HandParse \/ HandClose

Next == PeerClose \/ DoRecv \/ DoHand

\* dorecv and dohand are goroutines and run when they can; when the peer
\* closes is up to the peer.
Spec == Init /\ [][Next]_vars /\ WF_vars(DoRecv) /\ WF_vars(DoHand)

(***************************************************************************)
(* Properties                                                              *)
(***************************************************************************)

\* What the service should get for a record the peer sent: by the spec
\* (4.7), every RecvT field takes the value of the SendT field with the
\* same tag, and a field the sender does not have is zero.
Project(x) ==
  [j \in 1..Len(RecvT.fl) |->
     LET src == {i \in 1..Len(SendT.fl) : FieldTag(SendT, i) = FieldTag(RecvT, j)}
     IN IF src = {} THEN Zero(RecvT.fl[j].t) ELSE x[CHOOSE i \in src : TRUE]]

\* A registered id gets the projected record, another one the bytes sent.
\* A ServiceRpc peer's frame arrives as the proto it encoded, under the id
\* its flag names; a frame encodeProtocol refused was never sent.
ExpectedOf(p) ==
  IF svc = "spb"
  THEN [id |-> p.id, err |-> "none",
        msg |-> IF p.id \in MsgReg THEN Project(p.msg) ELSE Marshal(SendT, p.msg)]
  ELSE [id |-> RpcMsgID(p.flag), err |-> "none", msg |-> p.msg]

Expected ==
  LET ps   == [i \in 1..NumFrames |-> PayloadsOf(svc)[msgs[i]]]
      sent == IF svc = "spb" THEN ps ELSE SelectSeq(ps, LAMBDA p : SendRpc(p) # <<>>)
  IN [i \in 1..Len(sent) |-> ExpectedOf(sent[i])]

\* The service's Handle receives exactly the ids and records the peer sent
\* with SendSpbCmd, in order and without errors, however dorecv's reads
\* split the stream: the length prefix written by EncodeProtocol is the one
\* MsgLen reads, the tempBuf carry and the anthorMsg loop cut the stream at
\* frame boundaries, and SpbDecode returns what SpbEncode wrote, for the
\* envelope and for the record in it (fields of another schema version
\* skipped or left zero). On a ServiceRpc connection the flag OR-ed into
\* byte 0 must not disturb the length msgLen reads, and the flag must map
\* to the id HandleMessage dispatches on (2: request, 3: response).
FramesDeliveredInOrder == IsPrefix(delivered, Expected)

\* Unless the peer closes, every frame it wrote is eventually delivered:
\* dohand never leaves a whole frame in tempBuf waiting for more input.
AllDeliveredWhileOpen == <>(delivered = Expected) \/ <>peerClosed

=============================================================================
