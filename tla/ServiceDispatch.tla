--------------------------- MODULE ServiceDispatch ---------------------------
(***************************************************************************)
(* Message routing of a Service (src/stnet/service.go) and the worker      *)
(* threads of the Server that drain it (src/stnet/server.go).              *)
(*                                                                         *)
(* One service, homed to thread Home, with one bounded queue per thread    *)
(* (messageQ) and one one-slot wake channel per thread (netSignal).        *)
(* Producers:                                                              *)
(*   - each session's goroutines: SessionOpen handled in place, up to      *)
(*     MsgsPerSession decoded messages through ParseMsg, then the Close    *)
(*     event through sessionEvent;                                         *)
(*   - the application calling PushRequest without a session (AppPushes). *)
(* Enqueueing and the wake-up are separate steps, as in the code.          *)
(* Consumers: the loop of Server.Start, one per thread; the homed thread   *)
(* waits on its wake signal or the loop timer, a thread with no homed      *)
(* service on its wake signal only.                                        *)
(* Server.Stop: network first (all sessions closed), System messages,      *)
(* isClose and wake-ups, wait for every thread, then Destroy.              *)
(***************************************************************************)
EXTENDS Integers, Sequences, FiniteSets

CONSTANTS
  ProcessorThreadsNum, \* Server.ProcessorThreadsNum
  Home,                \* Service.threadId
  Sessions,            \* session ids (GlobalSessionID values, >= 1)
  HashOf,              \* HashProcessor's result per session id, 0 = no session
  MsgsPerSession,      \* bound: messages decoded per session
  AppPushes,           \* bound: PushRequest calls without a session
  QueueCap,            \* capacity of each messageQ channel (10240 in code)
  MaxPanics            \* bound: handler calls that panic

Threads == 0..(ProcessorThreadsNum - 1)
NoSession == 0         \* sess == nil

ASSUME /\ ProcessorThreadsNum \in Nat \ {0}
       /\ Home \in Threads
       /\ Sessions \subseteq Nat \ {0}
       /\ HashOf \in [Sessions \cup {NoSession} -> Int]
       /\ QueueCap \in Nat \ {0}

Kinds == {"data", "error", "heartbeat", "close", "system"}
Msg == [sess : Sessions \cup {NoSession}, kind : Kinds, n : Nat]
Event == [kind : Kinds \cup {"open"}, n : Nat, th : Threads \cup {-1}]

VARIABLES
  messageQ,   \* thread -> queue of this service's messages
  netSignal,  \* thread -> the one-slot wake channel is full
  tpc,        \* thread loop: "top", "drain", "wait", "exit"
  nmsg,       \* a message was handled in this pass of the thread loop
  spc,        \* session goroutine: "open", "data", "wake", "close", "closewake", "done"
  sent,       \* messages ParseMsg has decoded for the session
  wakeTo,     \* thread the producer's pending wake-up goes to
  apc,        \* application: "push", "wake", "done"
  pushed,     \* PushRequest calls made
  isClose,    \* Server.isClose
  phase,      \* Stop: "running", "netstop", "logicstop", "destroyed"
  handled,    \* history: events handled per session (NoSession: app)
  panics      \* handler calls that panicked so far

vars == <<messageQ, netSignal, tpc, nmsg, spc, sent, wakeTo, apc, pushed,
          isClose, phase, handled, panics>>

Producers == Sessions \cup {NoSession}

TypeOK ==
  /\ messageQ \in [Threads -> Seq(Msg)]
  /\ \A t \in Threads : Len(messageQ[t]) <= QueueCap
  /\ netSignal \in [Threads -> BOOLEAN]
  /\ tpc \in [Threads -> {"top", "drain", "wait", "exit"}]
  /\ nmsg \in [Threads -> BOOLEAN]
  /\ spc \in [Sessions -> {"open", "data", "wake", "close", "closewake", "done"}]
  /\ sent \in [Sessions -> 0..MsgsPerSession]
  /\ wakeTo \in [Producers -> Threads]
  /\ apc \in {"push", "wake", "done"}
  /\ pushed \in 0..AppPushes
  /\ isClose \in BOOLEAN
  /\ phase \in {"running", "netstop", "logicstop", "destroyed"}
  /\ handled \in [Producers -> Seq(Event)]
  /\ panics \in 0..MaxPanics

Init ==
  /\ messageQ = [t \in Threads |-> <<>>]
  /\ netSignal = [t \in Threads |-> FALSE]
  /\ tpc = [t \in Threads |-> "top"]
  /\ nmsg = [t \in Threads |-> FALSE]
  /\ spc = [s \in Sessions |-> "open"]
  /\ sent = [s \in Sessions |-> 0]
  /\ wakeTo = [p \in Producers |-> Home]
  /\ apc = IF AppPushes > 0 THEN "push" ELSE "done"
  /\ pushed = 0
  /\ isClose = FALSE
  /\ phase = "running"
  /\ handled = [p \in Producers |-> <<>>]
  /\ panics = 0

(***************************************************************************)
(* getProcessor: a positive HashProcessor result picks that thread modulo  *)
(* the thread count, zero the home thread, a negative one the session id   *)
(* modulo the thread count, or the home thread without a session.          *)
(***************************************************************************)
GetProcessor(sess) ==
  LET th == HashOf[sess] IN
  CASE th > 0                    -> th % ProcessorThreadsNum
    [] th = 0                    -> Home
    [] th < 0 /\ sess # NoSession -> sess % ProcessorThreadsNum
    [] OTHER                     -> Home

\* Mutant: the capacity check of the select is lost.
OfferUnbounded(th, m) == messageQ' = [messageQ EXCEPT ![th] = Append(@, m)]

Offer(th, m) ==
  messageQ' = IF Len(messageQ[th]) < QueueCap
              THEN [messageQ EXCEPT ![th] = Append(@, m)]
              ELSE messageQ

\* Mutant: the wake-up after the enqueue is left out.
WakeupDropped(th) == UNCHANGED netSignal

\* select { case (*service.netSignal)[th] <- 1: default: }
Wakeup(th) == netSignal' = [netSignal EXCEPT ![th] = TRUE]

\* Record that a handler ran for message m on thread th.
Handle(m, th) ==
  handled' = IF m.kind = "system" THEN handled
             ELSE [handled EXCEPT ![m.sess] =
                     Append(@, [kind |-> m.kind, n |-> m.n, th |-> th])]

\* The thread index Start gives the home thread's loop (it has a service).
Homed(t) == t = Home

-----------------------------------------------------------------------------
(* Session goroutines (session.go dorecv/dohand) calling into the service. *)

\* dorecv: onopen, then sessionEvent(Open) runs SessionOpen in place.
SessionOpen(s) ==
  /\ spc[s] = "open"
  /\ spc' = [spc EXCEPT ![s] = "data"]
  /\ handled' = [handled EXCEPT ![s] = Append(@, [kind |-> "open", n |-> 0, th |-> -1])]
  /\ UNCHANGED <<messageQ, netSignal, tpc, nmsg, sent, wakeTo, apc, pushed, isClose, phase, panics>>

\* ParseMsg: a decoded message, with or without an error, is offered to the
\* routed thread's queue; the wake-up follows as a step of its own.
ParseMsg(s) ==
  /\ spc[s] = "data"
  /\ sent[s] < MsgsPerSession
  /\ \E err \in BOOLEAN :
       LET th == GetProcessor(s) IN
       /\ Offer(th, [sess |-> s, kind |-> IF err THEN "error" ELSE "data", n |-> sent[s] + 1])
       /\ wakeTo' = [wakeTo EXCEPT ![s] = th]
  /\ sent' = [sent EXCEPT ![s] = @ + 1]
  /\ spc' = [spc EXCEPT ![s] = "wake"]
  /\ UNCHANGED <<netSignal, tpc, nmsg, apc, pushed, isClose, phase, handled, panics>>

\* sessionEvent(Close/HeartBeat): to the home thread; blocks on a full queue
\* until its 100 ms timer drops the event. The wake-up follows a successful
\* send only.
EventEnqueue(s, kind, n, next, wakeNext) ==
  \/ /\ Len(messageQ[Home]) < QueueCap
     /\ messageQ' = [messageQ EXCEPT ![Home] = Append(@, [sess |-> s, kind |-> kind, n |-> n])]
     /\ wakeTo' = [wakeTo EXCEPT ![s] = Home]
     /\ spc' = [spc EXCEPT ![s] = wakeNext]
  \/ /\ Len(messageQ[Home]) = QueueCap
     /\ spc' = [spc EXCEPT ![s] = next]
     /\ UNCHANGED <<messageQ, wakeTo>>

\* dohand: the heartbeat timer fires and sessionEvent(HeartBeat) is called.
HeartBeat(s) ==
  /\ spc[s] = "data"
  /\ sent[s] < MsgsPerSession
  /\ sent' = [sent EXCEPT ![s] = @ + 1]
  /\ EventEnqueue(s, "heartbeat", sent[s] + 1, "data", "wake")
  /\ UNCHANGED <<netSignal, tpc, nmsg, apc, pushed, isClose, phase, handled, panics>>

\* The non-blocking wake-up that ends ParseMsg and sessionEvent.
SessionWake(s) ==
  /\ spc[s] \in {"wake", "closewake"}
  /\ Wakeup(wakeTo[s])
  /\ spc' = [spc EXCEPT ![s] = IF @ = "wake" THEN "data" ELSE "done"]
  /\ UNCHANGED <<messageQ, tpc, nmsg, sent, wakeTo, apc, pushed, isClose, phase, handled, panics>>

\* dorecv's deferred close: the socket failed or was closed, the loops have
\* ended, and sessionEvent(Close) reports it to the home thread.
SessionClosed(s) ==
  /\ spc[s] = "data"
  /\ EventEnqueue(s, "close", MsgsPerSession + 1, "done", "closewake")
  /\ UNCHANGED <<netSignal, tpc, nmsg, sent, apc, pushed, isClose, phase, handled, panics>>

\* Service.PushRequest without a session: an error is returned on a full
\* queue and no wake-up is sent.
PushRequest ==
  /\ apc = "push"
  /\ LET th == GetProcessor(NoSession)
         m  == [sess |-> NoSession, kind |-> "data", n |-> pushed + 1] IN
     /\ Offer(th, m)
     /\ wakeTo' = [wakeTo EXCEPT ![NoSession] = th]
     /\ apc' = IF Len(messageQ[th]) < QueueCap THEN "wake"
               ELSE IF pushed + 1 < AppPushes THEN "push" ELSE "done"
  /\ pushed' = pushed + 1
  /\ UNCHANGED <<netSignal, tpc, nmsg, spc, sent, isClose, phase, handled, panics>>

PushWake ==
  /\ apc = "wake"
  /\ Wakeup(wakeTo[NoSession])
  /\ apc' = IF pushed < AppPushes THEN "push" ELSE "done"
  /\ UNCHANGED <<messageQ, tpc, nmsg, spc, sent, wakeTo, pushed, isClose, phase, handled, panics>>

-----------------------------------------------------------------------------
(* The worker thread loops started by Server.Start.                        *)

\* Loop head: exit once isClose is set; otherwise run the homed services'
\* Loop (no state of this model) and start a drain pass.
ThreadTop(t) ==
  /\ tpc[t] = "top"
  /\ tpc' = [tpc EXCEPT ![t] = IF isClose THEN "exit" ELSE "drain"]
  /\ nmsg' = [nmsg EXCEPT ![t] = FALSE]
  /\ UNCHANGED <<messageQ, netSignal, spc, sent, wakeTo, apc, pushed, isClose, phase, handled, panics>>

\* messageThread: one message taken from the thread's queue and handled.
\* handleMsg runs HandleError for an error, SessionClose, HeartBeatTimeOut,
\* HandleMessage, or nothing for System. A handler that panics ends the
\* call: the deferred handlePanic recovers and messageThread returns 0, so
\* the pass counts nothing and the loop goes on to its wait, whatever is
\* left in the queue.
MessageThread(t) ==
  /\ tpc[t] = "drain"
  /\ messageQ[t] # <<>>
  /\ Handle(Head(messageQ[t]), t)
  /\ messageQ' = [messageQ EXCEPT ![t] = Tail(@)]
  /\ \/ /\ nmsg' = [nmsg EXCEPT ![t] = TRUE]
        /\ UNCHANGED <<tpc, panics>>
     \/ /\ Head(messageQ[t]).kind # "system" /\ panics < MaxPanics
        /\ panics' = panics + 1
        /\ tpc' = [tpc EXCEPT ![t] = "wait"]
        /\ UNCHANGED nmsg
  /\ UNCHANGED <<netSignal, spc, sent, wakeTo, apc, pushed, isClose, phase>>

\* messageThread finds the queue empty (its default case). The homed thread
\* always goes on to its timed wait; another thread waits only when the pass
\* handled nothing.
DrainDone(t) ==
  /\ tpc[t] = "drain"
  /\ messageQ[t] = <<>>
  /\ tpc' = [tpc EXCEPT ![t] = IF Homed(t) \/ ~nmsg[t] THEN "wait" ELSE "top"]
  /\ UNCHANGED <<messageQ, netSignal, nmsg, spc, sent, wakeTo, apc, pushed, isClose, phase, handled, panics>>

\* <-svr.netSignal[t]: consumes the wake-up.
SignalWake(t) ==
  /\ tpc[t] = "wait"
  /\ netSignal[t]
  /\ netSignal' = [netSignal EXCEPT ![t] = FALSE]
  /\ tpc' = [tpc EXCEPT ![t] = "top"]
  /\ UNCHANGED <<messageQ, nmsg, spc, sent, wakeTo, apc, pushed, isClose, phase, handled, panics>>

\* <-to.C: only the homed thread's wait has the loop timer.
TimerWake(t) ==
  /\ tpc[t] = "wait"
  /\ Homed(t)
  /\ tpc' = [tpc EXCEPT ![t] = "top"]
  /\ UNCHANGED <<messageQ, netSignal, nmsg, spc, sent, wakeTo, apc, pushed, isClose, phase, handled, panics>>

-----------------------------------------------------------------------------
(* Server.Stop, called once by the application.                           *)

StopBegin ==
  /\ phase = "running"
  /\ phase' = "netstop"
  /\ UNCHANGED <<messageQ, netSignal, tpc, nmsg, spc, sent, wakeTo, apc, pushed, isClose, handled, panics>>

\* service.destroy: Listener.Close returns once every session has reported
\* Close; then a System message is offered to every thread's queue.
Destroy ==
  /\ phase = "netstop"
  /\ \A s \in Sessions : spc[s] = "done"
  /\ messageQ' = [t \in Threads |->
                    IF Len(messageQ[t]) < QueueCap
                    THEN Append(messageQ[t], [sess |-> NoSession, kind |-> "system", n |-> 0])
                    ELSE messageQ[t]]
  /\ phase' = "logicstop"
  /\ UNCHANGED <<netSignal, tpc, nmsg, spc, sent, wakeTo, apc, pushed, isClose, handled, panics>>

WakeAll == netSignal' = [t \in Threads |-> TRUE]

StopLogic ==
  /\ phase = "logicstop"
  /\ ~isClose
  /\ isClose' = TRUE
  /\ WakeAll
  /\ UNCHANGED <<messageQ, tpc, nmsg, spc, sent, wakeTo, apc, pushed, phase, handled, panics>>

\* svr.wg.Wait(), then every service's Destroy.
ThreadsExited == \A t \in Threads : tpc[t] = "exit"

StopWait ==
  /\ phase = "logicstop"
  /\ isClose
  /\ ThreadsExited
  /\ phase' = "destroyed"
  /\ UNCHANGED <<messageQ, netSignal, tpc, nmsg, spc, sent, wakeTo, apc, pushed, isClose, handled, panics>>

-----------------------------------------------------------------------------
Thread(t) ==
  ThreadTop(t) \/ MessageThread(t) \/ DrainDone(t) \/ SignalWake(t) \/ TimerWake(t)

Session(s) ==
  SessionOpen(s) \/ ParseMsg(s) \/ HeartBeat(s) \/ SessionWake(s) \/ SessionClosed(s)

Next ==
  \/ \E t \in Threads : Thread(t)
  \/ \E s \in Sessions : Session(s)
  \/ PushRequest \/ PushWake
  \/ StopBegin \/ Destroy \/ StopLogic \/ StopWait

\* Goroutines that can run are scheduled: worker threads, session
\* goroutines, the application's wake-up and the Stop sequence once called.
\* Starting Stop and making a new PushRequest are the application's choice.
Fairness ==
  /\ \A t \in Threads : WF_vars(Thread(t))
  /\ \A s \in Sessions : WF_vars(Session(s))
  /\ WF_vars(PushWake)
  /\ WF_vars(Destroy) /\ WF_vars(StopLogic) /\ WF_vars(StopWait)

Spec == Init /\ [][Next]_vars /\ Fairness

-----------------------------------------------------------------------------
(* Properties.                                                             *)

Queued(p, n) ==
  \E t \in Threads : \E i \in 1..Len(messageQ[t]) :
     /\ messageQ[t][i].sess = p
     /\ messageQ[t][i].n = n
     /\ messageQ[t][i].kind # "system"

WasHandled(p, n) == \E i \in 1..Len(handled[p]) : handled[p][i].n = n

\* No lost wake-up: a message that ParseMsg, sessionEvent or PushRequest put
\* into a queue is eventually handled by the thread it was routed to, unless
\* Stop has closed the server. A thread with no homed service sleeps on its
\* wake signal alone, so this rests on every enqueue being followed by a
\* wake-up the sleeping thread consumes after its last empty drain.
QueuedEventuallyHandled ==
  \A p \in Producers, n \in 1..(MsgsPerSession + 1) :
     Queued(p, n) ~> (WasHandled(p, n) \/ isClose)

=============================================================================
