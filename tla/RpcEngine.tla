----------------------------- MODULE RpcEngine -----------------------------
(***************************************************************************)
(* The call/response correlation engine of ServiceRpc (src/stnet/rpc.go). *)
(*                                                                         *)
(* Actors:                                                                 *)
(*   - Callers: goroutines calling RpcCall / RpcCall_Sync once each.  A    *)
(*     sync caller then blocks in a select on its one-slot signal channel  *)
(*     and a TimeOut-second timer;                                         *)
(*   - the session's framing goroutine running ServiceRpc.Unmarshal on an  *)
(*     arriving response (Receive);                                        *)
(*   - the logic thread running HandleMessage(msgID 3) on an async         *)
(*     response (HandleAsyncRsp) and the periodic Loop sweep (Loop);       *)
(*   - the remote service answering requests (RemoteHandleReq);            *)
(*   - the transport, which may lose a frame when the session drops.       *)
(*                                                                         *)
(* Time is a clock of TicksPerSec ticks per second.  A pending record      *)
(* stores v.timeout - time.Now().Unix() (secsLeft) instead of the absolute *)
(* second, and a sync caller's timer the ticks it has left, so the state   *)
(* space is finite while time advances forever.                            *)
(***************************************************************************)
EXTENDS Integers, Sequences, FiniteSets, Functions, TLC

CONSTANTS
  Callers,      \* goroutines issuing one RPC call each
  TimeOut,      \* rpc.go: TimeOut, in seconds
  TicksPerSec   \* resolution of the clock below one second

ASSUME TimeOut \in Nat \ {0} /\ TicksPerSec \in Nat \ {0}

\* rpc.go: RspCode 0 and the RpcErr* codes.
RspOk              == 0
RpcErrNoRemoteFunc == -1
RpcErrCallTimeout  == -2
RpcErrFuncParamErr == -3
Codes == {RspOk, RpcErrNoRemoteFunc, RpcErrCallTimeout, RpcErrFuncParamErr}

MaxSeq == Cardinality(Callers)

VARIABLES
  phase,          \* ticks since the last whole second of time.Now()
  rpcReqSequence, \* ServiceRpc.rpcReqSequence
  rpcRequests,    \* ServiceRpc.rpcRequests: seq -> pending record
  pc,             \* caller: "idle", "waiting" (sync select), "done"
  callSeq,        \* ReqCmdSeq the caller's call was given (0: none yet)
  callExc,        \* the caller passed an exception function
  timer,          \* ticks left on a sync caller's time.NewTimer(TimeOut)
  signal,         \* rpcReq.signal, a channel of capacity 1
  reqNet,         \* request frames on the wire or at the remote
  rspNet,         \* response frames on the wire
  rspQ,           \* responses queued to the logic thread as msgID 3
  ret,            \* what rpc_call returned: "none", "ok", "err"
  cbCalls,        \* history: invocations of the caller's callback
  excCalls,       \* history: codes the caller's exception received
  delivered       \* history: callers whose requests' responses reached c

vars == <<phase, rpcReqSequence, rpcRequests, pc, callSeq, callExc, timer, signal,
          reqNet, rspNet, rspQ, ret, cbCalls, excCalls, delivered>>

Record == [caller : Callers, sync : BOOLEAN, cb : BOOLEAN, exc : BOOLEAN,
           oneway : BOOLEAN, secsLeft : -1..TimeOut]
\* Frames carry the ReqCmdSeq; `from' is a history field naming the caller
\* that sent the request, used only by ResponsesCorrelated.
Rsp == [seq : 1..MaxSeq, code : Codes, from : Callers]
Req == [seq : 1..MaxSeq, oneway : BOOLEAN, from : Callers]

TypeOK ==
  /\ phase \in 0..(TicksPerSec - 1)
  /\ rpcReqSequence \in 0..MaxSeq
  /\ DOMAIN rpcRequests \subseteq 1..MaxSeq
  /\ \A s \in DOMAIN rpcRequests : rpcRequests[s] \in Record
  /\ pc \in [Callers -> {"idle", "waiting", "done"}]
  /\ callSeq \in [Callers -> 0..MaxSeq]
  /\ callExc \in [Callers -> BOOLEAN]
  /\ timer \in [Callers -> 0..(TimeOut * TicksPerSec)]
  /\ \A c \in Callers : signal[c] \in Seq(Rsp) /\ Len(signal[c]) <= 1
  /\ reqNet \subseteq Req /\ rspNet \subseteq Rsp /\ rspQ \subseteq Rsp
  /\ ret \in [Callers -> {"none", "ok", "err"}]
  /\ cbCalls \in [Callers -> Nat]
  /\ \A c \in Callers : excCalls[c] \in Seq(Codes)
  /\ delivered \in [Callers -> SUBSET Callers]

Init ==
  /\ phase = 0
  /\ rpcReqSequence = 0
  /\ rpcRequests = <<>>
  /\ pc = [c \in Callers |-> "idle"]
  /\ callSeq = [c \in Callers |-> 0]
  /\ callExc = [c \in Callers |-> FALSE]
  /\ timer = [c \in Callers |-> 0]
  /\ signal = [c \in Callers |-> <<>>]
  /\ reqNet = {} /\ rspNet = {} /\ rspQ = {}
  /\ ret = [c \in Callers |-> "none"]
  /\ cbCalls = [c \in Callers |-> 0]
  /\ excCalls = [c \in Callers |-> <<>>]
  /\ delivered = [c \in Callers |-> {}]

\* delete(service.rpcRequests, seq)
Delete(reqs, S) == Restrict(reqs, DOMAIN reqs \ S)

\* v.exception(code), a no-op when the caller passed no exception function.
Raise(exc, c, code) ==
  IF exc THEN [excCalls EXCEPT ![c] = Append(@, code)] ELSE excCalls

(***************************************************************************)
(* rpc_call: the record is stored under rpcMutex with the next sequence    *)
(* number before the request is sent, for every call, one-way included.   *)
(* Session.Send may refuse the frame (queue full, or the closer channel    *)
(* chosen on a closed session); rpc_call then returns the error and the    *)
(* record stays.  An async call returns at once; a sync call starts its    *)
(* timer and waits.                                                        *)
(***************************************************************************)
\* Mutant: the counter incremented twice per call.
StoreSeqTwice(seq) == rpcReqSequence' = seq + 1

\* Mutant: ReqCmdSeq computed as rpcReqSequence + 1 without the ++.
StoreSeqDropped(seq) == rpcReqSequence' = rpcReqSequence

\* service.rpcReqSequence++ under rpcMutex
StoreSeq(seq) == rpcReqSequence' = seq

RpcCall(c) ==
  /\ pc[c] = "idle"
  /\ \E sync, cb, exc, sent \in BOOLEAN :
       LET seq == rpcReqSequence + 1
           rec == [caller |-> c, sync |-> sync, cb |-> cb, exc |-> exc,
                   oneway |-> ~cb /\ ~exc, secsLeft |-> TimeOut]
       IN /\ StoreSeq(seq)
          /\ rpcRequests' = (seq :> rec) @@ rpcRequests
          /\ callSeq' = [callSeq EXCEPT ![c] = seq]
          /\ callExc' = [callExc EXCEPT ![c] = exc]
          /\ reqNet' = IF sent THEN reqNet \cup {[seq |-> seq, oneway |-> rec.oneway, from |-> c]}
                               ELSE reqNet
          /\ pc' = [pc EXCEPT ![c] = IF sent /\ sync THEN "waiting" ELSE "done"]
          /\ ret' = [ret EXCEPT ![c] = IF ~sent THEN "err"
                                       ELSE IF sync THEN "none" ELSE "ok"]
          /\ timer' = [timer EXCEPT ![c] = TimeOut * TicksPerSec]
  /\ UNCHANGED <<phase, signal, rspNet, rspQ, cbCalls, excCalls, delivered>>

(***************************************************************************)
(* handleRpcRsp: look the record up and delete it under rpcMutex (a        *)
(* response without a record is only logged); then an error code goes to  *)
(* the exception, RspOk to the callback, whose argument unpacking may fail *)
(* and raise RpcErrFuncParamErr instead.                                   *)
(***************************************************************************)
\* Mutant: the record is looked up but not deleted.
TakeRecordKept(seq) == UNCHANGED rpcRequests

\* The lookup-and-delete of handleRpcRsp under rpcMutex.
TakeRecord(seq) == rpcRequests' = Delete(rpcRequests, {seq})

HandleRpcRsp(rsp) ==
  \/ /\ rsp.seq \notin DOMAIN rpcRequests
     /\ UNCHANGED <<rpcRequests, cbCalls, excCalls, delivered>>
  \/ /\ rsp.seq \in DOMAIN rpcRequests
     /\ LET v == rpcRequests[rsp.seq]
            c == v.caller
        IN /\ TakeRecord(rsp.seq)
           /\ delivered' = [delivered EXCEPT ![c] = @ \cup {rsp.from}]
           /\ \/ /\ rsp.code # RspOk
                 /\ excCalls' = Raise(v.exc, c, rsp.code)
                 /\ UNCHANGED cbCalls
              \/ /\ rsp.code = RspOk /\ v.cb
                 /\ \/ /\ cbCalls' = [cbCalls EXCEPT ![c] = @ + 1]
                       /\ UNCHANGED excCalls
                    \/ /\ excCalls' = Raise(v.exc, c, RpcErrFuncParamErr)
                       /\ UNCHANGED cbCalls
              \/ /\ rsp.code = RspOk /\ ~v.cb
                 /\ UNCHANGED <<cbCalls, excCalls>>

\* The remote handleRpcReq: an unknown function or unpackable arguments is
\* answered with an error code even for a one-way request; a one-way
\* request that ran is not answered.
RemoteHandleReq ==
  \E req \in reqNet, code \in {RspOk, RpcErrNoRemoteFunc, RpcErrFuncParamErr} :
    /\ reqNet' = reqNet \ {req}
    /\ rspNet' = IF code = RspOk /\ req.oneway THEN rspNet
                 ELSE rspNet \cup {[seq |-> req.seq, code |-> code, from |-> req.from]}
    /\ UNCHANGED <<phase, rpcReqSequence, rpcRequests, pc, callSeq, callExc, timer,
                   signal, rspQ, ret, cbCalls, excCalls, delivered>>

(***************************************************************************)
(* Unmarshal of an rpc response, on the session's framing goroutine: with  *)
(* rpcMutex held, a response to a pending sync call is pushed into its     *)
(* signal channel (blocking while the slot is full); any other response is *)
(* returned as msgID 3 and queued to the logic thread.                     *)
(***************************************************************************)
Receive ==
  \E rsp \in rspNet :
    /\ rspNet' = rspNet \ {rsp}
    /\ \/ /\ rsp.seq \in DOMAIN rpcRequests
          /\ rpcRequests[rsp.seq].sync
          /\ LET c == rpcRequests[rsp.seq].caller
             IN /\ signal[c] = <<>>
                /\ signal' = [signal EXCEPT ![c] = <<rsp>>]
          /\ UNCHANGED rspQ
       \/ /\ ~(rsp.seq \in DOMAIN rpcRequests /\ rpcRequests[rsp.seq].sync)
          /\ rspQ' = rspQ \cup {rsp}
          /\ UNCHANGED signal
    /\ UNCHANGED <<phase, rpcReqSequence, rpcRequests, pc, callSeq, callExc, timer,
                   reqNet, ret, cbCalls, excCalls, delivered>>

\* HandleMessage with msgID 3 on the logic thread.
HandleAsyncRsp ==
  \E rsp \in rspQ :
    /\ rspQ' = rspQ \ {rsp}
    /\ HandleRpcRsp(rsp)
    /\ UNCHANGED <<phase, rpcReqSequence, pc, callSeq, callExc, timer, signal,
                   reqNet, rspNet, ret>>

\* The sync caller's select takes the signal: handleRpcRsp, return nil.
SyncRecv(c) ==
  /\ pc[c] = "waiting"
  /\ signal[c] # <<>>
  /\ signal' = [signal EXCEPT ![c] = <<>>]
  /\ HandleRpcRsp(Head(signal[c]))
  /\ pc' = [pc EXCEPT ![c] = "done"]
  /\ ret' = [ret EXCEPT ![c] = "ok"]
  /\ UNCHANGED <<phase, rpcReqSequence, callSeq, callExc, timer, reqNet, rspNet, rspQ>>

\* The sync caller's select takes the timer: delete the record under
\* rpcMutex, raise RpcErrCallTimeout, return nil.
\* Mutant: the timeout path does not delete the record.
SyncTimeoutNoDelete(c) ==
  /\ pc[c] = "waiting"
  /\ timer[c] = 0
  /\ excCalls' = Raise(callExc[c], c, RpcErrCallTimeout)
  /\ pc' = [pc EXCEPT ![c] = "done"]
  /\ ret' = [ret EXCEPT ![c] = "ok"]
  /\ UNCHANGED <<phase, rpcReqSequence, rpcRequests, callSeq, callExc, timer,
                 signal, reqNet, rspNet, rspQ, cbCalls, delivered>>

SyncTimeout(c) ==
  /\ pc[c] = "waiting"
  /\ timer[c] = 0
  /\ rpcRequests' = Delete(rpcRequests, {callSeq[c]})
  /\ excCalls' = Raise(callExc[c], c, RpcErrCallTimeout)
  /\ pc' = [pc EXCEPT ![c] = "done"]
  /\ ret' = [ret EXCEPT ![c] = "ok"]
  /\ UNCHANGED <<phase, rpcReqSequence, callSeq, callExc, timer, signal, reqNet,
                 rspNet, rspQ, cbCalls, delivered>>

(***************************************************************************)
(* ServiceRpc.Loop on the service's home thread: every record whose        *)
(* timeout second has passed is deleted; the exception is raised only for  *)
(* records that have both an exception and a signal (sync calls).          *)
(***************************************************************************)
Expired == {s \in DOMAIN rpcRequests : rpcRequests[s].secsLeft < 0}

SweepRaises(c) ==
  \E s \in Expired : rpcRequests[s].caller = c
                     /\ rpcRequests[s].exc /\ rpcRequests[s].sync

\* Mutant: the delete moved inside `if v.exception != nil && v.signal != nil'.
LoopDeleteRaisedOnly ==
  /\ Expired # {}
  /\ rpcRequests' = Delete(rpcRequests, {s \in Expired : rpcRequests[s].exc
                                                       /\ rpcRequests[s].sync})
  /\ excCalls' = [c \in Callers |->
                    IF SweepRaises(c) THEN Append(excCalls[c], RpcErrCallTimeout)
                    ELSE excCalls[c]]
  /\ UNCHANGED <<phase, rpcReqSequence, pc, callSeq, callExc, timer, signal,
                 reqNet, rspNet, rspQ, ret, cbCalls, delivered>>

Loop ==
  /\ Expired # {}
  /\ rpcRequests' = Delete(rpcRequests, Expired)
  /\ excCalls' = [c \in Callers |->
                    IF SweepRaises(c) THEN Append(excCalls[c], RpcErrCallTimeout)
                    ELSE excCalls[c]]
  /\ UNCHANGED <<phase, rpcReqSequence, pc, callSeq, callExc, timer, signal, reqNet,
                 rspNet, rspQ, ret, cbCalls, delivered>>

\* A frame is lost when its session drops (read or write error, close).
Lose ==
  /\ \/ \E m \in reqNet : reqNet' = reqNet \ {m} /\ UNCHANGED rspNet
     \/ \E m \in rspNet : rspNet' = rspNet \ {m} /\ UNCHANGED reqNet
  /\ UNCHANGED <<phase, rpcReqSequence, rpcRequests, pc, callSeq, callExc, timer,
                 signal, rspQ, ret, cbCalls, excCalls, delivered>>

\* One tick of the clock; each whole second brings every record one second
\* closer to its timeout.
Tick ==
  /\ phase' = (phase + 1) % TicksPerSec
  /\ rpcRequests' =
       IF phase' # 0 THEN rpcRequests
       ELSE [s \in DOMAIN rpcRequests |->
               [rpcRequests[s] EXCEPT !.secsLeft = IF @ < 0 THEN @ ELSE @ - 1]]
  /\ timer' = [c \in Callers |-> IF timer[c] > 0 THEN timer[c] - 1 ELSE 0]
  /\ UNCHANGED <<rpcReqSequence, pc, callSeq, callExc, signal, reqNet, rspNet, rspQ,
                 ret, cbCalls, excCalls, delivered>>

Next ==
  \/ \E c \in Callers : RpcCall(c) \/ SyncRecv(c) \/ SyncTimeout(c)
  \/ RemoteHandleReq
  \/ Receive
  \/ HandleAsyncRsp
  \/ Loop
  \/ Lose
  \/ Tick

\* Time passes, the home thread runs Loop every loopmsec and drains its
\* queue, the framing goroutine reads what arrives, a woken select runs.
Fairness ==
  /\ WF_vars(Tick)
  /\ WF_vars(Loop)
  /\ WF_vars(HandleAsyncRsp)
  /\ WF_vars(Receive)
  /\ WF_vars(RemoteHandleReq)
  /\ \A c \in Callers : WF_vars(SyncRecv(c) \/ SyncTimeout(c))

Spec == Init /\ [][Next]_vars /\ Fairness


(***************************************************************************)
(* Properties                                                              *)
(***************************************************************************)

\* A call's callback runs at most once, and never for a call whose
\* exception has also been raised: the timer path of a sync call, the Loop
\* sweep and handleRpcRsp race for the same record and only the one that
\* deletes it may report the outcome.
NoCallbackWithException ==
  \A c \in Callers :
    /\ cbCalls[c] <= 1
    /\ cbCalls[c] = 1 => excCalls[c] = <<>>

\* The response to a request reaches only the call that sent it: the
\* sequence counter taken under rpcMutex and the pending table keyed by it
\* correlate every response with its call.
ResponsesCorrelated ==
  \A c \in Callers : delivered[c] \subseteq {c}

\* When RpcCall_Sync returns, by response or by its own timeout, no record
\* of the call is left in rpcRequests.
SyncReturnLeavesNoRecord ==
  \A c \in Callers :
    (pc[c] = "done" /\ ret[c] = "ok" /\ callSeq[c] \in DOMAIN rpcRequests)
      => ~rpcRequests[callSeq[c]].sync

\* ServiceRpc implements RpcCalls: a call is issued when rpc_call stores
\* its record and resolved when the record is deleted, by handleRpcRsp,
\* by the sync caller's timer or by the Loop sweep, and eventually; the
\* callbacks and exceptions it reports all happen in that one step, at most
\* one of them. A late response, a second response, or a record deleted
\* twice, breaks it. The one report RpcCalls allows after the delete is a
\* sync caller's own timeout exception when the sweep came first.
Abs == INSTANCE RpcCalls WITH
  state <- [c \in Callers |->
              IF pc[c] = "idle" THEN "idle"
              ELSE IF callSeq[c] \in DOMAIN rpcRequests THEN "pending"
              ELSE "resolved"],
  reported <- [c \in Callers |-> <<cbCalls[c], Len(excCalls[c])>>],
  waiting <- [c \in Callers |-> pc[c] = "waiting"]

ImplementsRpcCalls == Abs!Spec

\* spec 4.6 / 8: a call with an exception function whose record is removed
\* without a response reaching it has the exception raised with
\* RpcErrCallTimeout (the sweep "removes and fails expired pending records").
TimeoutRaisesException ==
  \A c \in Callers :
    (callExc[c] /\ ret[c] = "ok" /\ pc[c] = "done"
       /\ callSeq[c] \notin DOMAIN rpcRequests /\ delivered[c] = {})
      => \E i \in DOMAIN excCalls[c] : excCalls[c][i] = RpcErrCallTimeout

=============================================================================
