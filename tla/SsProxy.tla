------------------------------ MODULE SsProxy ------------------------------
(***************************************************************************)
(* The connect-connect ("cc") tunnel of src/ssproxy/imp.go with its peer,  *)
(* the listen-listen ("ll") side, as one system.                           *)
(*                                                                         *)
(* LL process: a client's raw session (ServiceProxyLLRaw) forwards what it *)
(* reads, tagged with its session id, on the first tunnel session of the   *)
(* gpb listener (ServiceProxyLLGpb); its SessionClose sends an empty       *)
(* message for the id.  The gpb side hands tunnel messages to the raw      *)
(* session of that id, closes it on an empty one, and answers an empty     *)
(* message for an id it no longer has.                                     *)
(*                                                                         *)
(* CC process: a Connector dials the LL tunnel listener (AddCCProxy's      *)
(* gpb.NewConnect).  ServiceProxyCCGpb.Unmarshal, in the tunnel session's  *)
(* dohand, looks the id up in SessId: data for an unknown id opens a new   *)
(* Connect (a Connector) to the upstream server, data for a known id is    *)
(* sent on it, an empty message deletes the entry and calls Connect.Close, *)
(* which starts `go destroy()` (Connector.Close).  Upstream data goes back *)
(* through the tunnel (ServiceProxyCCRaw.Unmarshal).  Every Close event of *)
(* an upstream connector's session (each drop, each failed dial) reaches   *)
(* ServiceProxyCCRaw.SessionClose on the raw service's home thread, which  *)
(* deletes SessId[id], sends an empty message for the id and calls         *)
(* Connector().Close() itself.  A Close event of the tunnel reaches        *)
(* ServiceProxyCCGpb.SessionClose on the gpb service's home thread, which  *)
(* closes every Connect of the raw service.                                *)
(*                                                                         *)
(* Payloads are abstracted to their kind: "data" (CmdData non-empty) or    *)
(* "close" (empty).  Each upstream Connector is reduced to what its Close  *)
(* races with: the loop (dial, restart under closeLock, wait for onclose), *)
(* the session lifecycle, and Connector.Close's unlocked IsClose test      *)
(* followed by close(c.closer) under closeLock.                            *)
(***************************************************************************)
EXTENDS Integers, Sequences

CONSTANTS
  Ids,          \* session ids of the clients of the LL raw listener
  MaxConnects,  \* bound: upstream Connects the CC side opens
  MaxData,      \* bound: data messages each client sends
  MaxReplies,   \* bound: data messages the upstream servers send back
  MaxFaults     \* bound: upstream drops, failed dials and tunnel drops

ASSUME Ids \subseteq Nat \ {0}

Slots == 1..MaxConnects
NoSlot == 0

Msg == [kind : {"data", "close"}, id : Ids]
M(kind, i) == [kind |-> kind, id |-> i]

VARIABLES
  client,     \* LL raw session of each id: "open", "closing", "gone"
  llEvt,      \* a Close event of the id waits for the LL raw home thread
  sentData,   \* data messages each client has sent
  tunnel,     \* the tunnel connection: "up" or "down"
  down,       \* tunnel messages LL -> CC, in order
  up,         \* tunnel messages CC -> LL (the CC session's writer and the wire)
  gpbEvts,    \* tunnel Close events waiting for the CC gpb home thread
  sessId,     \* ServiceProxyCCGpb.SessId: id -> Connect (NoSlot: no entry)
  cid,        \* the id a Connect was opened for (its session's UserData)
  inConnects, \* the Connects in raw.connects
  cloop,      \* each Connector's loop: "none" (not created), "dial", "wait", "exited"
  closer,     \* close(c.closer) has happened
  csess,      \* its session: "closed", "open", "closing"
  sig,        \* its one-slot sessCloseSignal is full
  spawned,    \* `go destroy()` goroutines that have not tested IsClose yet
  pend,       \* Close calls that passed the IsClose test and wait for closeLock
  rawQ,       \* Close events queued for the CC raw home thread, by Connect
  rawpc,      \* CC raw home thread: "idle", "test", "lock", "wait"
  rawk,       \* the Connect whose SessionClose it is running
  panicked,   \* close of a closed channel: the CC process died
  faults,     \* faults injected
  replies     \* upstream data messages sent back

vars == <<client, llEvt, sentData, tunnel, down, up, gpbEvts, sessId, cid, inConnects,
          cloop, closer, csess, sig, spawned, pend, rawQ, rawpc, rawk, panicked, faults,
          replies>>
llVars == <<client, llEvt, sentData>>
connVars == <<cid, inConnects, cloop, closer, csess, sig, spawned, pend>>

TypeOK ==
  /\ client \in [Ids -> {"open", "closing", "gone"}]
  /\ llEvt \in [Ids -> BOOLEAN]
  /\ sentData \in [Ids -> 0..MaxData]
  /\ tunnel \in {"up", "down"}
  /\ down \in Seq(Msg) /\ up \in Seq(Msg)
  /\ gpbEvts \in Nat
  /\ sessId \in [Ids -> Slots \cup {NoSlot}]
  /\ cid \in [Slots -> Ids \cup {0}]
  /\ inConnects \subseteq Slots
  /\ cloop \in [Slots -> {"none", "dial", "wait", "exited"}]
  /\ closer \in [Slots -> BOOLEAN]
  /\ csess \in [Slots -> {"closed", "open", "closing"}]
  /\ sig \in [Slots -> BOOLEAN]
  /\ spawned \in [Slots -> Nat] /\ pend \in [Slots -> Nat]
  /\ rawQ \in Seq(Slots)
  /\ rawpc \in {"idle", "test", "lock", "wait"} /\ rawk \in Slots \cup {NoSlot}
  /\ panicked \in BOOLEAN
  /\ faults \in 0..MaxFaults /\ replies \in 0..MaxReplies

\* Both processes started, the tunnel connected, each client connected to
\* the LL raw listener; no upstream Connect yet.
Init ==
  /\ client = [i \in Ids |-> "open"]
  /\ llEvt = [i \in Ids |-> FALSE]
  /\ sentData = [i \in Ids |-> 0]
  /\ tunnel = "up" /\ down = <<>> /\ up = <<>> /\ gpbEvts = 0
  /\ sessId = [i \in Ids |-> NoSlot]
  /\ cid = [k \in Slots |-> 0]
  /\ inConnects = {}
  /\ cloop = [k \in Slots |-> "none"]
  /\ closer = [k \in Slots |-> FALSE]
  /\ csess = [k \in Slots |-> "closed"]
  /\ sig = [k \in Slots |-> FALSE]
  /\ spawned = [k \in Slots |-> 0] /\ pend = [k \in Slots |-> 0]
  /\ rawQ = <<>> /\ rawpc = "idle" /\ rawk = NoSlot
  /\ panicked = FALSE
  /\ faults = 0 /\ replies = 0

-----------------------------------------------------------------------------
(* LL process                                                              *)

\* SendRawGpb on the first session of the gpb listener (IterateSession
\* stops after one): nothing is sent while the tunnel has no session.
LLSend(m) == down' = IF tunnel = "up" THEN Append(down, m) ELSE down

\* ServiceProxyLLRaw.Unmarshal: a client's bytes are forwarded whole.
LLRawUnmarshal(i) ==
  /\ client[i] = "open" /\ sentData[i] < MaxData
  /\ sentData' = [sentData EXCEPT ![i] = @ + 1]
  /\ LLSend(M("data", i))
  /\ UNCHANGED <<client, llEvt, tunnel, up, gpbEvts, sessId, connVars, rawQ, rawpc, rawk,
                 panicked, faults, replies>>

\* The client closes its connection.
ClientClose(i) ==
  /\ client[i] = "open"
  /\ client' = [client EXCEPT ![i] = "closing"]
  /\ UNCHANGED <<llEvt, sentData, tunnel, down, up, gpbEvts, sessId, connVars, rawQ, rawpc,
                 rawk, panicked, faults, replies>>

\* dorecv's deferred code: sessionEvent(Close) to the raw service's home
\* thread, then the listener's onclose removes the session from sessMap.
ClientUnwind(i) ==
  /\ client[i] = "closing"
  /\ client' = [client EXCEPT ![i] = "gone"]
  /\ llEvt' = [llEvt EXCEPT ![i] = TRUE]
  /\ UNCHANGED <<sentData, tunnel, down, up, gpbEvts, sessId, connVars, rawQ, rawpc, rawk,
                 panicked, faults, replies>>

\* ServiceProxyLLRaw.SessionClose: an empty message for the id.
LLRawSessionClose(i) ==
  /\ llEvt[i]
  /\ llEvt' = [llEvt EXCEPT ![i] = FALSE]
  /\ LLSend(M("close", i))
  /\ UNCHANGED <<client, sentData, tunnel, up, gpbEvts, sessId, connVars, rawQ, rawpc, rawk,
                 panicked, faults, replies>>

\* ServiceProxyLLGpb.Unmarshal: GetSession(CmdId) finds the client until
\* its onclose removed it; an empty message closes it, data is sent to it;
\* for an id it no longer has, an empty message goes back.
LLGpbUnmarshal ==
  /\ tunnel = "up" /\ up # <<>>
  /\ LET m == Head(up) IN
       /\ up' = Tail(up)
       /\ IF client[m.id] = "gone"
          THEN down' = Append(down, M("close", m.id)) /\ UNCHANGED client
          ELSE /\ client' = IF m.kind = "close" /\ client[m.id] = "open"
                            THEN [client EXCEPT ![m.id] = "closing"] ELSE client
               /\ UNCHANGED down
  /\ UNCHANGED <<llEvt, sentData, tunnel, gpbEvts, sessId, connVars, rawQ, rawpc, rawk,
                 panicked, faults, replies>>

-----------------------------------------------------------------------------
(* CC process: the tunnel                                                  *)

\* SendRawGpb on the tunnel Connect's session.  While it is closed, Send
\* selects at random between the closed closer (the message is refused)
\* and room in the writer, whose contents the next connection sends.
CCSend(m) ==
  IF tunnel = "up" THEN up' = Append(up, m) ELSE up' \in {up, Append(up, m)}

\* Connect.Close: `go ct.destroy()`, then the Connect leaves raw.connects.
ConnectClose(S) ==
  /\ spawned' = [k \in Slots |-> IF k \in S THEN spawned[k] + 1 ELSE spawned[k]]
  /\ inConnects' = inConnects \ S

\* The tunnel connection drops: the LL side's session and what it had
\* queued are gone, the CC writer keeps what was not yet written, and the
\* tunnel session's Close event goes to the CC gpb home thread.
TunnelDrop ==
  /\ tunnel = "up" /\ faults < MaxFaults
  /\ faults' = faults + 1
  /\ tunnel' = "down"
  /\ down' = <<>>
  /\ up' \in {SubSeq(up, j, Len(up)) : j \in 1..(Len(up) + 1)}
  /\ gpbEvts' = gpbEvts + 1
  /\ UNCHANGED <<llVars, sessId, connVars, rawQ, rawpc, rawk, panicked, replies>>

\* The tunnel Connector redials: a failed dial reports a Close event too.
TunnelDial ==
  /\ tunnel = "down"
  /\ \/ tunnel' = "up" /\ UNCHANGED <<gpbEvts, faults>>
     \/ /\ faults < MaxFaults /\ faults' = faults + 1
        /\ gpbEvts' = gpbEvts + 1 /\ UNCHANGED tunnel
  /\ UNCHANGED <<llVars, down, up, sessId, connVars, rawQ, rawpc, rawk, panicked, replies>>

\* ServiceProxyCCGpb.SessionClose: for every Connect of the raw service,
\* delete its id from SessId and Connect.Close it.
CCGpbSessionClose ==
  /\ gpbEvts > 0
  /\ gpbEvts' = gpbEvts - 1
  /\ sessId' = [i \in Ids |-> IF \E k \in inConnects : cid[k] = i THEN NoSlot ELSE sessId[i]]
  /\ ConnectClose(inConnects)
  /\ UNCHANGED <<llVars, tunnel, down, up, cid, cloop, closer, csess, sig, pend, rawQ, rawpc,
                 rawk, panicked, faults, replies>>

\* raw.NewConnect(rip, CmdId) in a free slot: its loop starts dialling.
NewConnect(k, i) ==
  /\ cid' = [cid EXCEPT ![k] = i]
  /\ cloop' = [cloop EXCEPT ![k] = "dial"]
  /\ inConnects' = inConnects \cup {k}
  /\ sessId' = [sessId EXCEPT ![i] = k]

\* ServiceProxyCCGpb.Unmarshal on the next tunnel message.  Data for a
\* known id is sent on its Connect (queued in its writer whatever state the
\* connection is in); an empty one deletes the entry and closes the
\* Connect; data for an unknown id opens a Connect and queues the data on
\* it; an empty message for an unknown id is dropped.
CCGpbUnmarshal ==
  /\ tunnel = "up" /\ down # <<>>
  /\ LET m == Head(down)
         k == sessId[m.id]
     IN /\ down' = Tail(down)
        /\ \/ /\ k # NoSlot /\ m.kind = "data"
              /\ UNCHANGED <<sessId, connVars>>
           \/ /\ k # NoSlot /\ m.kind = "close"
              /\ sessId' = [sessId EXCEPT ![m.id] = NoSlot]
              /\ ConnectClose({k})
              /\ UNCHANGED <<cid, cloop, closer, csess, sig, pend>>
           \/ /\ k = NoSlot /\ m.kind = "data"
              /\ \E n \in Slots :
                   /\ cloop[n] = "none"
                   /\ NewConnect(n, m.id)
              /\ UNCHANGED <<closer, csess, sig, spawned, pend>>
           \/ /\ k = NoSlot /\ m.kind = "close"
              /\ UNCHANGED <<sessId, connVars>>
  /\ UNCHANGED <<llVars, tunnel, up, gpbEvts, rawQ, rawpc, rawk, panicked, faults, replies>>

-----------------------------------------------------------------------------
(* CC process: the upstream Connectors                                     *)

\* A dial of the connect loop.  Success adopts the connection unless the
\* Connector was closed meanwhile (the IsClose checks around closeLock);
\* failure reports sessionEvent(Close) for the session and retries after
\* the backoff unless closed.
ConnDial(k) ==
  /\ cloop[k] = "dial"
  /\ \/ /\ cloop' = [cloop EXCEPT ![k] = IF closer[k] THEN "exited" ELSE "wait"]
        /\ csess' = IF closer[k] THEN csess ELSE [csess EXCEPT ![k] = "open"]
        /\ UNCHANGED <<rawQ, faults>>
     \/ /\ faults < MaxFaults /\ faults' = faults + 1
        /\ rawQ' = Append(rawQ, k)
        /\ cloop' = [cloop EXCEPT ![k] = IF closer[k] THEN "exited" ELSE "dial"]
        /\ UNCHANGED csess
  /\ UNCHANGED <<llVars, tunnel, down, up, gpbEvts, sessId, cid, inConnects, closer, sig,
                 spawned, pend, rawpc, rawk, panicked, replies>>

\* <-c.sessCloseSignal, then break if closed or dial again at once.
ConnWaitSig(k) ==
  /\ cloop[k] = "wait" /\ sig[k]
  /\ sig' = [sig EXCEPT ![k] = FALSE]
  /\ cloop' = [cloop EXCEPT ![k] = IF closer[k] THEN "exited" ELSE "dial"]
  /\ UNCHANGED <<llVars, tunnel, down, up, gpbEvts, sessId, cid, inConnects, closer, csess,
                 spawned, pend, rawQ, rawpc, rawk, panicked, faults, replies>>

\* The upstream server closes the connection.
UpstreamDrop(k) ==
  /\ csess[k] = "open" /\ faults < MaxFaults
  /\ faults' = faults + 1
  /\ csess' = [csess EXCEPT ![k] = "closing"]
  /\ UNCHANGED <<llVars, tunnel, down, up, gpbEvts, sessId, cid, inConnects, cloop, closer,
                 sig, spawned, pend, rawQ, rawpc, rawk, panicked, replies>>

\* dorecv's deferred code: sessionEvent(Close) to the raw home thread, then
\* onclose fills sessCloseSignal.
SessUnwind(k) ==
  /\ csess[k] = "closing" /\ ~sig[k]
  /\ csess' = [csess EXCEPT ![k] = "closed"]
  /\ sig' = [sig EXCEPT ![k] = TRUE]
  /\ rawQ' = Append(rawQ, k)
  /\ UNCHANGED <<llVars, tunnel, down, up, gpbEvts, sessId, cid, inConnects, cloop, closer,
                 spawned, pend, rawpc, rawk, panicked, faults, replies>>

\* ServiceProxyCCRaw.Unmarshal: upstream bytes go back through the tunnel,
\* tagged with the session's UserData.
CCRawUnmarshal(k) ==
  /\ csess[k] = "open" /\ replies < MaxReplies
  /\ replies' = replies + 1
  /\ CCSend(M("data", cid[k]))
  /\ UNCHANGED <<llVars, tunnel, down, gpbEvts, sessId, connVars, rawQ, rawpc, rawk,
                 panicked, faults>>

-----------------------------------------------------------------------------
(* Connector.Close, from three callers                                     *)

\* Under closeLock: close(c.closer), which panics if it is already closed,
\* and c.sess.Close().
CloseLocked(k) ==
  IF closer[k]
  THEN panicked' = TRUE /\ UNCHANGED <<closer, csess>>
  ELSE /\ closer' = [closer EXCEPT ![k] = TRUE]
       /\ csess' = IF csess[k] = "open" THEN [csess EXCEPT ![k] = "closing"] ELSE csess
       /\ UNCHANGED panicked

\* ServiceProxyCCRaw.SessionClose on the raw home thread: delete SessId of
\* the session's id (whichever Connect it names now), send an empty
\* message for it, then call Connector().Close() directly.
CCRawSessionClose ==
  /\ rawpc = "idle" /\ rawQ # <<>>
  /\ LET k == Head(rawQ) IN
       /\ rawQ' = Tail(rawQ)
       /\ sessId' = [sessId EXCEPT ![cid[k]] = NoSlot]
       /\ CCSend(M("close", cid[k]))
       /\ rawpc' = "test" /\ rawk' = k
  /\ UNCHANGED <<llVars, tunnel, down, gpbEvts, connVars, panicked, faults, replies>>

\* Connector.Close: if c.IsClose() return -- tested without closeLock.
RawCloseTest ==
  /\ rawpc = "test"
  /\ rawpc' = IF closer[rawk] THEN "idle" ELSE "lock"
  /\ UNCHANGED <<llVars, tunnel, down, up, gpbEvts, sessId, connVars, rawQ, rawk, panicked,
                 faults, replies>>

RawCloseLocked ==
  /\ rawpc = "lock"
  /\ CloseLocked(rawk)
  /\ rawpc' = "wait"
  /\ UNCHANGED <<llVars, tunnel, down, up, gpbEvts, sessId, cid, inConnects, cloop, sig,
                 spawned, pend, rawQ, rawk, faults, replies>>

\* c.wg.Wait(): the home thread blocks until the connect loop has exited.
RawCloseWait ==
  /\ rawpc = "wait" /\ cloop[rawk] = "exited"
  /\ rawpc' = "idle"
  /\ UNCHANGED <<llVars, tunnel, down, up, gpbEvts, sessId, connVars, rawQ, rawk, panicked,
                 faults, replies>>

\* A destroy goroutine's Connector.Close: the unlocked IsClose test.
DestroyTest(k) ==
  /\ spawned[k] > 0
  /\ spawned' = [spawned EXCEPT ![k] = @ - 1]
  /\ pend' = IF closer[k] THEN pend ELSE [pend EXCEPT ![k] = @ + 1]
  /\ UNCHANGED <<llVars, tunnel, down, up, gpbEvts, sessId, cid, inConnects, cloop, closer,
                 csess, sig, rawQ, rawpc, rawk, panicked, faults, replies>>

\* ... and its critical section; the goroutine then waits for the loop
\* and ends, which changes nothing else.
DestroyLocked(k) ==
  /\ pend[k] > 0
  /\ pend' = [pend EXCEPT ![k] = @ - 1]
  /\ CloseLocked(k)
  /\ UNCHANGED <<llVars, tunnel, down, up, gpbEvts, sessId, cid, inConnects, cloop, sig,
                 spawned, rawQ, rawpc, rawk, faults, replies>>

-----------------------------------------------------------------------------
LLNext ==
  \/ \E i \in Ids : LLRawUnmarshal(i) \/ ClientClose(i) \/ ClientUnwind(i) \/ LLRawSessionClose(i)
  \/ LLGpbUnmarshal

CCNext ==
  \/ TunnelDrop \/ TunnelDial \/ CCGpbSessionClose \/ CCGpbUnmarshal
  \/ CCRawSessionClose \/ RawCloseTest \/ RawCloseLocked \/ RawCloseWait
  \/ \E k \in Slots : \/ ConnDial(k) \/ ConnWaitSig(k) \/ UpstreamDrop(k) \/ SessUnwind(k)
                      \/ CCRawUnmarshal(k) \/ DestroyTest(k) \/ DestroyLocked(k)

\* A panic in a goroutine without recover ends the CC process.
Next == ~panicked /\ (LLNext \/ CCNext)

Spec == Init /\ [][Next]_vars

-----------------------------------------------------------------------------
(* Properties.                                                             *)

\* One Connector may be closed by the CC raw home thread (its session's
\* Close event), by the tunnel's dohand (an empty message for its id) and
\* by the gpb home thread (the tunnel dropped).  Connector.Close must be
\* safe against that: every call either finds c.closer closed at its
\* IsClose test or closes it itself ("Closed is terminal and can be
\* entered from any state"; "nothing in this core is fatal to the whole
\* process").  close of an already closed channel panics in a goroutine
\* without recover.
CloserClosedOnce == ~panicked

=============================================================================
