------------------------------ MODULE Listener ------------------------------
(***************************************************************************)
(* The TCP Listener of src/stnet/listener.go: the accept goroutine, the    *)
(* session registry sessMap under sessMapMutex, the waitExit WaitGroup,    *)
(* each session's onclose, and Close. Sessions are reduced to their        *)
(* lifecycle (Session.tla has their loops):                                *)
(*   "none"     not accepted yet;                                          *)
(*   "open"     NewSession started its loops;                              *)
(*   "closing"  its socket was closed and its loops are unwinding;         *)
(*   "notify"   isclose set and sessionEvent(Close) done, onclose due;     *)
(*   "closed"   onclose has removed it from sessMap;                       *)
(*   "leaked"   accepted while the listener was closing and dropped.       *)
(* Every critical section of sessMapMutex is one step: none of them        *)
(* blocks inside.                                                          *)
(***************************************************************************)
EXTENDS Integers, FiniteSets

CONSTANTS
  MaxConns   \* bound: connections the peers open

Conns == 1..MaxConns

VARIABLES
  apc,       \* accept goroutine: "top", "accept", "accepted", "exited"
  lstClosed, \* ls.lst.Close() has run
  isclose,   \* ls.isclose
  sess,      \* connection -> lifecycle of its session
  sessMap,   \* ids registered in ls.sessMap
  waitExit,  \* counter of ls.waitExit
  cpc,       \* Close: "idle", "lstclose", "iterate", "wait", "returned"
  next       \* the next connection a peer opens

vars == <<apc, lstClosed, isclose, sess, sessMap, waitExit, cpc, next>>

TypeOK ==
  /\ apc \in {"top", "accept", "accepted", "exited"}
  /\ lstClosed \in BOOLEAN /\ isclose \in BOOLEAN
  /\ sess \in [Conns -> {"none", "open", "closing", "notify", "closed", "leaked"}]
  /\ sessMap \subseteq Conns
  /\ waitExit \in 0..(MaxConns + 1)
  /\ cpc \in {"idle", "lstclose", "iterate", "wait", "returned"}
  /\ next \in 1..(MaxConns + 1)

\* NewListener: listening, waitExit.Add(1) for the accept goroutine.
Init ==
  /\ apc = "top" /\ lstClosed = FALSE /\ isclose = FALSE
  /\ sess = [c \in Conns |-> "none"] /\ sessMap = {}
  /\ waitExit = 1 /\ cpc = "idle" /\ next = 1

Live == {"open", "closing", "notify"}
LiveConns == {c \in Conns : sess[c] \in Live}

(***************************************************************************)
(* The accept goroutine of NewListener.                                    *)
(***************************************************************************)

\* for !lis.isclose.IsClose(): the loop test; on exit, waitExit.Done().
AcceptTop ==
  /\ apc = "top"
  /\ IF isclose
       THEN apc' = "exited" /\ waitExit' = waitExit - 1
       ELSE apc' = "accept" /\ UNCHANGED waitExit
  /\ UNCHANGED <<lstClosed, isclose, sess, sessMap, cpc, next>>

\* lst.Accept() returns a connection a peer opened.
Accept ==
  /\ apc = "accept" /\ ~lstClosed /\ next <= MaxConns
  /\ apc' = "accepted"
  /\ UNCHANGED <<lstClosed, isclose, sess, sessMap, waitExit, cpc, next>>

\* lst.Accept() fails once lst is closed: break, then waitExit.Done().
AcceptFail ==
  /\ apc = "accept" /\ lstClosed
  /\ apc' = "exited" /\ waitExit' = waitExit - 1
  /\ UNCHANGED <<lstClosed, isclose, sess, sessMap, cpc, next>>

\* Under sessMapMutex.Lock: if the listener is still open, waitExit.Add(1),
\* NewSession and sessMap[sess.id] = sess; otherwise conn is dropped
\* without being closed.
RegisterNoRecheck ==
  /\ apc = "accepted"
  /\ apc' = "top" /\ next' = next + 1
  /\ waitExit' = waitExit + 1
  /\ sess' = [sess EXCEPT ![next] = "open"]
  /\ sessMap' = sessMap \cup {next}
  /\ UNCHANGED <<lstClosed, isclose, cpc>>

RegisterNoAdd ==
  /\ apc = "accepted"
  /\ apc' = "top" /\ next' = next + 1
  /\ IF ~isclose
       THEN /\ sess' = [sess EXCEPT ![next] = "open"]
            /\ sessMap' = sessMap \cup {next}
       ELSE /\ sess' = [sess EXCEPT ![next] = "leaked"]
            /\ UNCHANGED sessMap
  /\ UNCHANGED <<lstClosed, isclose, cpc, waitExit>>

Register ==
  /\ apc = "accepted"
  /\ apc' = "top" /\ next' = next + 1
  /\ IF ~isclose
       THEN /\ waitExit' = waitExit + 1
            /\ sess' = [sess EXCEPT ![next] = "open"]
            /\ sessMap' = sessMap \cup {next}
       ELSE /\ sess' = [sess EXCEPT ![next] = "leaked"]
            /\ UNCHANGED <<waitExit, sessMap>>
  /\ UNCHANGED <<lstClosed, isclose, cpc>>

(***************************************************************************)
(* A session's life (Session.tla): its socket fails or is closed, its      *)
(* loops unwind, then dorecv's defer calls onclose.                        *)
(***************************************************************************)

\* The peer or the network breaks an open session.
SessFail(c) ==
  /\ sess[c] = "open"
  /\ sess' = [sess EXCEPT ![c] = "closing"]
  /\ UNCHANGED <<apc, lstClosed, isclose, sessMap, waitExit, cpc, next>>

\* dorecv's defer: closer closed, loops joined, isclose set, sessionEvent.
SessUnwound(c) ==
  /\ sess[c] = "closing"
  /\ sess' = [sess EXCEPT ![c] = "notify"]
  /\ UNCHANGED <<apc, lstClosed, isclose, sessMap, waitExit, cpc, next>>

\* onclose: under sessMapMutex.Lock, delete(sessMap, id) and waitExit.Done().
OnCloseTwice(c) ==
  /\ sess[c] \in {"notify", "closed"}
  /\ sess' = [sess EXCEPT ![c] = "closed"]
  /\ sessMap' = sessMap \ {c}
  /\ waitExit' = waitExit - 1
  /\ UNCHANGED <<apc, lstClosed, isclose, cpc, next>>

OnClose(c) ==
  /\ sess[c] = "notify"
  /\ sess' = [sess EXCEPT ![c] = "closed"]
  /\ sessMap' = sessMap \ {c}
  /\ waitExit' = waitExit - 1
  /\ UNCHANGED <<apc, lstClosed, isclose, cpc, next>>

(***************************************************************************)
(* Listener.Close, called once by the application.                         *)
(***************************************************************************)

\* ls.isclose.Close()
CloseBegin ==
  /\ cpc = "idle" /\ ~isclose
  /\ isclose' = TRUE /\ cpc' = "lstclose"
  /\ UNCHANGED <<apc, lstClosed, sess, sessMap, waitExit, next>>

\* ls.lst.Close(): a blocked Accept now fails.
CloseLst ==
  /\ cpc = "lstclose"
  /\ lstClosed' = TRUE /\ cpc' = "iterate"
  /\ UNCHANGED <<apc, isclose, sess, sessMap, waitExit, next>>

\* IterateSession under sessMapMutex.RLock: sess.Close() on every
\* registered session (a no-op on one already closing); the callback
\* returns true so the iteration visits them all.
CloseSessions(S) ==
  [c \in Conns |-> IF c \in S /\ sess[c] = "open" THEN "closing" ELSE sess[c]]

Iterate ==
  /\ cpc = "iterate"
  /\ sess' = CloseSessions(sessMap)
  /\ cpc' = "wait"
  /\ UNCHANGED <<apc, lstClosed, isclose, sessMap, waitExit, next>>

\* ls.waitExit.Wait() returns.
CloseWait ==
  /\ cpc = "wait" /\ waitExit = 0
  /\ cpc' = "returned"
  /\ UNCHANGED <<apc, lstClosed, isclose, sess, sessMap, waitExit, next>>

AcceptLoop == AcceptTop \/ AcceptFail \/ Register
Peers == Accept \/ \E c \in Conns : SessFail(c)
SessionLoops(c) == SessUnwound(c) \/ OnClose(c)
CloseCall == CloseBegin \/ CloseLst \/ Iterate \/ CloseWait

Next ==
  \/ AcceptLoop \/ Peers \/ CloseCall
  \/ \E c \in Conns : SessionLoops(c)

\* The accept goroutine, the session loops and a started Close each run;
\* peers connect and sessions fail only when they do.
Fairness ==
  /\ WF_vars(AcceptLoop)
  /\ \A c \in Conns : WF_vars(SessionLoops(c))
  /\ WF_vars(CloseLst \/ Iterate \/ CloseWait)

Spec == Init /\ [][Next]_vars /\ Fairness

(***************************************************************************)
(* Properties                                                              *)
(***************************************************************************)

\* The registry and the WaitGroup agree: sessMap holds exactly the sessions
\* whose onclose has not run, and waitExit counts them plus the accept
\* goroutine. A session registered without waitExit.Add, or a onclose that
\* does not Done, lets Close return under a live session.
RegistryMatchesWaitGroup ==
  /\ sessMap = LiveConns
  /\ waitExit = Cardinality(LiveConns) + (IF apc = "exited" THEN 0 ELSE 1)

\* Once Close has iterated the registry, no registered session is left
\* open: the accept goroutine re-checks isclose under sessMapMutex, so a
\* connection accepted during Close is never registered after the
\* iteration has passed it by.
NoOpenSessionAfterIterate ==
  cpc \in {"wait", "returned"} => \A c \in sessMap : sess[c] # "open"

\* Close returns, and when it does the accept goroutine has exited and every
\* session has run onclose.
CloseReturns ==
  cpc # "idle" ~> (cpc = "returned" /\ apc = "exited" /\ LiveConns = {})

=============================================================================
