----------------------------- MODULE Connector -----------------------------
(***************************************************************************)
(* The reconnecting client of src/stnet/connector.go: the connect loop,   *)
(* Close, ChangeAddr and Send/NotifyReconn, with the Connector's Session   *)
(* reduced to its lifecycle (modelled in detail in Session.tla):           *)
(*                                                                         *)
(*   "closed"   isclose is set and onclose has run (newConnSession starts  *)
(*              here);                                                     *)
(*   "open"     restart gave it a connection and started its loops;        *)
(*   "closing"  its socket was closed and its loops are unwinding;         *)
(*   "notify"   isclose is set and onclose is blocked sending on           *)
(*              sessCloseSignal.                                           *)
(***************************************************************************)
EXTENDS Integers

CONSTANTS
  ReconnCap,     \* reconnCount above this is reset (30)
  ReconnReset,   \* the value it is reset to (10)
  MaxCalls       \* bound: ChangeAddr and Send calls by the application

ASSUME /\ ReconnReset \in Nat /\ ReconnCap \in Nat /\ ReconnReset <= ReconnCap

VARIABLES
  lpc,          \* connect loop: "start", "top", "backoff", "dial", "adopt", "acquire",
                \* "locked", "waitsig", "exited"
  reconnCount,  \* c.reconnCount
  closer,       \* close(c.closer) has happened
  closeLock,    \* holder of c.closeLock: "none", "loop", "close"
  wg,           \* counter of c.wg
  reconnSignal, \* the one-slot reconnSignal channel is full
  sessCloseSignal, \* the one-slot sessCloseSignal channel is full
  sess,         \* session lifecycle: "closed", "open", "closing", "notify"
  cpc,          \* the application's Close: "idle", "lock", "wait", "returned"
  calls         \* ChangeAddr and Send calls made

vars == <<lpc, reconnCount, closer, closeLock, wg, reconnSignal, sessCloseSignal,
          sess, cpc, calls>>

TypeOK ==
  /\ lpc \in {"start", "top", "backoff", "dial", "adopt", "acquire", "locked", "waitsig", "exited"}
  /\ reconnCount \in 0..ReconnCap
  /\ closer \in BOOLEAN
  /\ closeLock \in {"none", "loop", "close"}
  /\ wg \in 0..1
  /\ reconnSignal \in BOOLEAN /\ sessCloseSignal \in BOOLEAN
  /\ sess \in {"closed", "open", "closing", "notify"}
  /\ cpc \in {"idle", "lock", "wait", "returned"}
  /\ calls \in 0..MaxCalls

\* NewConnector: the session from newConnSession is closed; `go connect()`
\* has been issued but the goroutine has not run yet.
Init ==
  /\ lpc = "start" /\ reconnCount = 0
  /\ closer = FALSE /\ closeLock = "none" /\ wg = 0
  /\ reconnSignal = FALSE /\ sessCloseSignal = FALSE
  /\ sess = "closed" /\ cpc = "idle" /\ calls = 0

\* Mutant: the reset of reconnCount is lost.
BumpNoReset(n) == n + 1

\* reconnCount++; if reconnCount > 30 { reconnCount = 10 }
Bump(n) == IF n + 1 > ReconnCap THEN ReconnReset ELSE n + 1

\* defer c.wg.Done() as the loop returns or breaks.
Exit ==
  /\ lpc' = "exited"
  /\ wg' = wg - 1

-----------------------------------------------------------------------------
(* The connect goroutine                                                   *)

\* c.wg.Add(1), the first statement of the goroutine.
WgAdd ==
  /\ lpc = "start"
  /\ wg' = wg + 1
  /\ lpc' = "top"
  /\ UNCHANGED <<reconnCount, closer, closeLock, reconnSignal, sessCloseSignal, sess, cpc, calls>>

\* for !c.IsClose(): back off after a failure, otherwise dial at once.
Top ==
  /\ lpc = "top"
  /\ IF closer
     THEN Exit /\ UNCHANGED reconnCount
     ELSE IF reconnCount > 0
          THEN lpc' = "backoff" /\ UNCHANGED <<reconnCount, wg>>
          ELSE /\ reconnCount' = Bump(reconnCount)
               /\ lpc' = "dial"
               /\ UNCHANGED wg
  /\ UNCHANGED <<closer, closeLock, reconnSignal, sessCloseSignal, sess, cpc, calls>>

\* The select of the backoff wait (reconnCount² · reconnectMSec): closer,
\* a NotifyReconn, or the timer.
Backoff ==
  /\ lpc = "backoff"
  /\ \/ /\ closer
        /\ Exit
        /\ UNCHANGED <<reconnCount, reconnSignal>>
     \/ /\ reconnSignal
        /\ reconnSignal' = FALSE
        /\ reconnCount' = Bump(reconnCount)
        /\ lpc' = "dial"
        /\ UNCHANGED wg
     \/ /\ reconnCount' = Bump(reconnCount)
        /\ lpc' = "dial"
        /\ UNCHANGED <<wg, reconnSignal>>
  /\ UNCHANGED <<closer, closeLock, sessCloseSignal, sess, cpc, calls>>

\* Mutant: a failed dial ends the loop whether or not it was closed.
DialFailBreaks ==
  /\ lpc = "dial"
  /\ Exit
  /\ UNCHANGED <<reconnCount, closer, closeLock, reconnSignal, sessCloseSignal, sess, cpc, calls>>

\* net.Dial fails: sessionEvent(Close) is reported for the session, and the
\* loop breaks if the connector was closed meanwhile.
DialFail ==
  /\ lpc = "dial"
  /\ IF closer THEN Exit ELSE lpc' = "top" /\ UNCHANGED wg
  /\ UNCHANGED <<reconnCount, closer, closeLock, reconnSignal, sessCloseSignal, sess, cpc, calls>>

DialOk ==
  /\ lpc = "dial"
  /\ lpc' = "adopt"
  /\ UNCHANGED <<reconnCount, wg, closer, closeLock, reconnSignal, sessCloseSignal, sess, cpc, calls>>

\* "maybe already be closed": cn.Close() and break.
Adopt ==
  /\ lpc = "adopt"
  /\ IF closer THEN Exit ELSE lpc' = "acquire" /\ UNCHANGED wg
  /\ UNCHANGED <<reconnCount, closer, closeLock, reconnSignal, sessCloseSignal, sess, cpc, calls>>

\* c.closeLock.Lock(): blocks while Close holds it.
Acquire ==
  /\ lpc = "acquire"
  /\ closeLock = "none"
  /\ closeLock' = "loop"
  /\ lpc' = "locked"
  /\ UNCHANGED <<reconnCount, wg, closer, reconnSignal, sessCloseSignal, sess, cpc, calls>>

\* Session.restart: refused (ErrSocketIsOpen, ignored here) unless isclose.
Restart == sess' = IF sess = "closed" THEN "open" ELSE sess

\* Mutant: no second IsClose check under closeLock.
LockedNoRecheck ==
  /\ lpc = "locked"
  /\ closeLock' = "none"
  /\ Restart
  /\ reconnCount' = 0
  /\ lpc' = "waitsig"
  /\ UNCHANGED <<wg, closer, reconnSignal, sessCloseSignal, cpc, calls>>

\* Under closeLock: closed meanwhile -> cn.Close() and break; otherwise
\* restart the session, unlock, reconnCount = 0, wait for its onclose.
Locked ==
  /\ lpc = "locked"
  /\ closeLock' = "none"
  /\ IF closer
     THEN Exit /\ UNCHANGED <<sess, reconnCount>>
     ELSE /\ Restart
          /\ reconnCount' = 0
          /\ lpc' = "waitsig"
          /\ UNCHANGED wg
  /\ UNCHANGED <<closer, reconnSignal, sessCloseSignal, cpc, calls>>

\* Mutant: the loop goes on without waiting for the session's onclose.
WaitSigNoWait ==
  /\ lpc = "waitsig"
  /\ sessCloseSignal' = FALSE
  /\ IF closer THEN Exit ELSE lpc' = "top" /\ UNCHANGED wg
  /\ UNCHANGED <<reconnCount, closer, closeLock, reconnSignal, sess, cpc, calls>>

\* <-c.sessCloseSignal, then break if closed.
WaitSig ==
  /\ lpc = "waitsig"
  /\ sessCloseSignal
  /\ sessCloseSignal' = FALSE
  /\ IF closer THEN Exit ELSE lpc' = "top" /\ UNCHANGED wg
  /\ UNCHANGED <<reconnCount, closer, closeLock, reconnSignal, sess, cpc, calls>>

-----------------------------------------------------------------------------
(* The Connector's session (Session.tla has its loops in detail)           *)

\* The peer closes or an I/O error closes the socket.
SessFail ==
  /\ sess = "open"
  /\ sess' = "closing"
  /\ UNCHANGED <<lpc, reconnCount, closer, closeLock, wg, reconnSignal, sessCloseSignal, cpc, calls>>

\* dorecv's deferred code: loops ended, isclose set, sessionEvent(Close).
SessUnwound ==
  /\ sess = "closing"
  /\ sess' = "notify"
  /\ UNCHANGED <<lpc, reconnCount, closer, closeLock, wg, reconnSignal, sessCloseSignal, cpc, calls>>

\* onclose: conn.sessCloseSignal <- 1 (blocking send).
SessOnClose ==
  /\ sess = "notify"
  /\ ~sessCloseSignal
  /\ sessCloseSignal' = TRUE
  /\ sess' = "closed"
  /\ UNCHANGED <<lpc, reconnCount, closer, closeLock, wg, reconnSignal, cpc, calls>>

-----------------------------------------------------------------------------
(* The application                                                         *)

\* Session.Close: closes the socket unless isclose is set.
SessClose == sess' = IF sess = "open" THEN "closing" ELSE sess

\* NotifyReconn: non-blocking send on reconnSignal.
NotifyReconn == reconnSignal' = TRUE

\* Close: return at once if closed; otherwise take closeLock.
CloseBegin ==
  /\ cpc = "idle"
  /\ ~closer
  /\ closeLock = "none"
  /\ closeLock' = "close"
  /\ cpc' = "lock"
  /\ UNCHANGED <<lpc, reconnCount, closer, wg, reconnSignal, sessCloseSignal, sess, calls>>

CloseLocked ==
  /\ cpc = "lock"
  /\ closer' = TRUE
  /\ SessClose
  /\ closeLock' = "none"
  /\ cpc' = "wait"
  /\ UNCHANGED <<lpc, reconnCount, wg, reconnSignal, sessCloseSignal, calls>>

\* c.wg.Wait()
CloseWait ==
  /\ cpc = "wait"
  /\ wg = 0
  /\ cpc' = "returned"
  /\ UNCHANGED <<lpc, reconnCount, closer, closeLock, wg, reconnSignal, sessCloseSignal, sess, calls>>

\* ChangeAddr: close the session's socket, then NotifyReconn.
ChangeAddr ==
  /\ calls < MaxCalls
  /\ calls' = calls + 1
  /\ SessClose
  /\ NotifyReconn
  /\ UNCHANGED <<lpc, reconnCount, closer, closeLock, wg, sessCloseSignal, cpc>>

\* Send: NotifyReconn, then Session.Send (no lifecycle change).
Send ==
  /\ calls < MaxCalls
  /\ calls' = calls + 1
  /\ NotifyReconn
  /\ UNCHANGED <<lpc, reconnCount, closer, closeLock, wg, sessCloseSignal, sess, cpc>>

-----------------------------------------------------------------------------
Loop == WgAdd \/ Top \/ Backoff \/ DialFail \/ DialOk \/ Adopt \/ Acquire \/ Locked \/ WaitSig
SessionLoops == SessUnwound \/ SessOnClose
CloseCall == CloseBegin \/ CloseLocked \/ CloseWait

Next == Loop \/ SessFail \/ SessionLoops \/ CloseCall \/ ChangeAddr \/ Send

\* The connect goroutine and the session's goroutines run when they can
\* (a dial returns, a timer fires); once Close is called it proceeds.
\* Whether a dial succeeds, a peer fails, and what the application calls
\* are not assumed fair.
Fairness ==
  /\ WF_vars(Loop)
  /\ WF_vars(SessionLoops)
  /\ WF_vars(CloseLocked) /\ WF_vars(CloseWait)

Spec == Init /\ [][Next]_vars /\ Fairness

-----------------------------------------------------------------------------
(* Properties.                                                             *)

\* Once Close has closed c.closer, the loop never restarts the session: a
\* connection dialled across the Close is closed, not adopted (the second
\* IsClose check under closeLock).
NoAdoptAfterClose == [][closer => ~(sess = "closed" /\ sess' = "open")]_vars

\* The loop dials and restarts only once the previous incarnation of the
\* session has finished closing and signalled it, so restart is never
\* refused with ErrSocketIsOpen.
RestartOnClosedSession ==
  lpc \in {"dial", "adopt", "acquire", "locked"} => sess = "closed"

RedialsWhileOpen ==
  (lpc # "start" /\ sess = "closed" /\ ~closer) ~> (lpc = "dial" \/ sess = "open" \/ closer)

\* Close returns only after the connect loop has exited ("blocks until the
\* loop has exited").
CloseWaitsForLoop == cpc = "returned" => lpc = "exited"

=============================================================================
