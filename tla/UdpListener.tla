----------------------------- MODULE UdpListener -----------------------------
(***************************************************************************)
(* The UDP Listener of src/stnet/listener.go: NewUdpListener's rebind     *)
(* loop, the UDP part of Listener.Close, and the life of the UDP session  *)
(* the loop starts on each socket it binds. The loop runs one session at  *)
(* a time: it waits on udpCh (capacity 1), which the session's onclose    *)
(* and Close both send on, then binds the address again unless the        *)
(* listener is closing.                                                    *)
(*                                                                         *)
(* Sockets are numbered in the order the loop binds them (1 is the one    *)
(* NewUdpListener binds); udpConn is the number of the newest. A UDP      *)
(* session ends when a read fails (its socket closed, by Close or by the  *)
(* handler's handlePanic); its dorecv defer then closes the socket, joins *)
(* its loops and calls onclose. A datagram of 0 bytes also ends dorecv's  *)
(* loop, but with err nil, so err.Error() panics in a goroutine without a *)
(* recover and the process dies: that is no step of this model, and       *)
(* WakeFindsNoReader says Close's own 0-byte wake-up never meets a reader.*)
(***************************************************************************)
EXTENDS Integers, FiniteSets

CONSTANTS
  MaxSocks,       \* bound: sockets bound, the first included
  MaxListenFails  \* bound: failed net.ListenUDP calls of the loop

Socks == 1..MaxSocks

\* make(chan int, 1)
UdpChCap == 1

VARIABLES
  upc,      \* the loop: "top", "start", "recv", "check", "listen", "exited"
  uisclose, \* ls.isclose
  uconn,    \* ls.udpConn: the socket the loop bound last
  uerr,     \* the loop's err: the last net.ListenUDP failed
  usock,    \* socket -> "unbound", "bound", "closed"
  usess,    \* socket -> its session: "none", "open", "closing", "notify", "closed"
  udpCh,    \* tokens in ls.udpCh
  ufails,   \* failed net.ListenUDP calls so far
  ucpc,     \* Close: "idle", "sock", "send", "wake", "wait", "returned"
  uwait     \* counter of ls.waitExit

uvars == <<upc, uisclose, uconn, uerr, usock, usess, udpCh, ufails, ucpc, uwait>>

UdpTypeOK ==
  /\ upc \in {"top", "start", "recv", "check", "listen", "exited"}
  /\ uisclose \in BOOLEAN /\ uerr \in BOOLEAN
  /\ uconn \in Socks
  /\ usock \in [Socks -> {"unbound", "bound", "closed"}]
  /\ usess \in [Socks -> {"none", "open", "closing", "notify", "closed"}]
  /\ udpCh \in 0..UdpChCap
  /\ ufails \in 0..MaxListenFails
  /\ ucpc \in {"idle", "sock", "send", "wake", "wait", "returned"}
  /\ uwait \in 0..1

\* NewUdpListener: socket 1 bound, err nil, waitExit.Add(1) for the loop.
UdpInit ==
  /\ upc = "top" /\ uisclose = FALSE /\ uconn = 1 /\ uerr = FALSE
  /\ usock = [s \in Socks |-> IF s = 1 THEN "bound" ELSE "unbound"]
  /\ usess = [s \in Socks |-> "none"]
  /\ udpCh = 0 /\ ufails = 0 /\ ucpc = "idle" /\ uwait = 1

ULive == {"open", "closing", "notify"}

(***************************************************************************)
(* The loop goroutine of NewUdpListener.                                   *)
(***************************************************************************)

\* for !lis.isclose.IsClose(): when err == nil, on to NewSession; on exit,
\* waitExit.Done().
UTopNoDone ==
  /\ upc = "top"
  /\ upc' = IF uisclose THEN "exited" ELSE IF ~uerr THEN "start" ELSE "check"
  /\ UNCHANGED <<uisclose, uconn, uerr, usock, usess, udpCh, ufails, ucpc, uwait>>

UTop ==
  /\ upc = "top"
  /\ upc' = IF uisclose THEN "exited" ELSE IF ~uerr THEN "start" ELSE "check"
  /\ uwait' = IF uisclose THEN uwait - 1 ELSE uwait
  /\ UNCHANGED <<uisclose, uconn, uerr, usock, usess, udpCh, ufails, ucpc>>

\* NewSession(lis.udpConn, ...): the session's loops start on the socket
\* udpConn holds; on a socket Close has closed, its first read fails.
UStart ==
  /\ upc = "start" /\ upc' = "recv"
  /\ usess' = [usess EXCEPT ![uconn] = IF usock[uconn] = "bound" THEN "open" ELSE "closing"]
  /\ UNCHANGED <<uisclose, uconn, uerr, usock, udpCh, ufails, ucpc, uwait>>

\* The loop going on without <-lis.udpCh.
URecvSkip ==
  /\ upc = "recv" /\ upc' = "check"
  /\ UNCHANGED <<uisclose, uconn, uerr, usock, usess, udpCh, ufails, ucpc, uwait>>

\* The wait that also gives up once the listener is closing.
URecvOrClosed ==
  /\ upc = "recv"
  /\ \/ udpCh > 0 /\ udpCh' = udpCh - 1 /\ upc' = "check" /\ UNCHANGED uwait
     \/ uisclose /\ upc' = "exited" /\ uwait' = uwait - 1 /\ UNCHANGED udpCh
  /\ UNCHANGED <<uisclose, uconn, uerr, usock, usess, ufails, ucpc>>

\* <-lis.udpCh
URecv ==
  /\ upc = "recv" /\ udpCh > 0
  /\ udpCh' = udpCh - 1 /\ upc' = "check"
  /\ UNCHANGED <<uisclose, uconn, uerr, usock, usess, ufails, ucpc, uwait>>

\* if !lis.isclose.IsClose(): bind again, else back to the loop test.
UCheck ==
  /\ upc = "check"
  /\ upc' = IF uisclose THEN "top" ELSE "listen"
  /\ UNCHANGED <<uisclose, uconn, uerr, usock, usess, udpCh, ufails, ucpc, uwait>>

\* net.ListenUDP succeeds (no socket holds the address) and lis.udpConn is
\* the new socket.
UListenOk ==
  /\ upc = "listen" /\ uconn < MaxSocks
  /\ \A s \in Socks : usock[s] # "bound"
  /\ uconn' = uconn + 1 /\ usock' = [usock EXCEPT ![uconn + 1] = "bound"]
  /\ uerr' = FALSE /\ upc' = "top"
  /\ UNCHANGED <<uisclose, usess, udpCh, ufails, ucpc, uwait>>

\* net.ListenUDP fails: the error is logged, the loop sleeps 3 s and
\* starts no session on its next pass.
UListenFail ==
  /\ upc = "listen" /\ ufails < MaxListenFails
  /\ ufails' = ufails + 1 /\ uerr' = TRUE /\ upc' = "top"
  /\ UNCHANGED <<uisclose, uconn, usock, usess, udpCh, ucpc, uwait>>

(***************************************************************************)
(* A UDP session: the end of its read loop, dorecv's defer, onclose.      *)
(***************************************************************************)

\* A read error, or a handler panic (handlePanic closes the socket), ends
\* the session. Bounded so that the loop can always bind again.
USessEnd(s) ==
  /\ usess[s] = "open" /\ uconn < MaxSocks
  /\ usess' = [usess EXCEPT ![s] = "closing"]
  /\ UNCHANGED <<upc, uisclose, uconn, uerr, usock, udpCh, ufails, ucpc, uwait>>

\* dorecv's defer: socket.Close(), closer closed, wg.Wait(), isclose,
\* sessionEvent(Close).
USessUnwind(s) ==
  /\ usess[s] = "closing"
  /\ usess' = [usess EXCEPT ![s] = "notify"] /\ usock' = [usock EXCEPT ![s] = "closed"]
  /\ UNCHANGED <<upc, uisclose, uconn, uerr, udpCh, ufails, ucpc, uwait>>

\* onclose: lis.udpCh <- 1, blocking while the channel is full.
USessOnClose(s) ==
  /\ usess[s] = "notify" /\ udpCh < UdpChCap
  /\ udpCh' = udpCh + 1 /\ usess' = [usess EXCEPT ![s] = "closed"]
  /\ UNCHANGED <<upc, uisclose, uconn, uerr, usock, ufails, ucpc, uwait>>

(***************************************************************************)
(* Listener.Close on a UDP listener, called once.                          *)
(***************************************************************************)

\* if ls.isclose.IsClose() return; ls.isclose.Close() (ls.lst is nil).
UCloseBegin ==
  /\ ucpc = "idle" /\ ~uisclose
  /\ uisclose' = TRUE /\ ucpc' = "sock"
  /\ UNCHANGED <<upc, uconn, uerr, usock, usess, udpCh, ufails, uwait>>

\* Close without ls.udpConn.Close().
UCloseSockSkipped ==
  /\ ucpc = "sock" /\ ucpc' = "send"
  /\ UNCHANGED <<upc, uisclose, uconn, uerr, usock, usess, udpCh, ufails, uwait>>

\* ls.udpConn.Close(): the socket udpConn holds now is closed, which ends
\* the read of a session on it.
UCloseSock ==
  /\ ucpc = "sock"
  /\ usock' = [usock EXCEPT ![uconn] = IF @ = "bound" THEN "closed" ELSE @]
  /\ usess' = [usess EXCEPT ![uconn] = IF @ = "open" THEN "closing" ELSE @]
  /\ ucpc' = "send"
  /\ UNCHANGED <<upc, uisclose, uconn, uerr, udpCh, ufails, uwait>>

\* ls.udpCh <- 1 that does not wait for room.
UCloseSendNoWait ==
  /\ ucpc = "send"
  /\ udpCh' = udpCh + 1 /\ ucpc' = "wake"
  /\ UNCHANGED <<upc, uisclose, uconn, uerr, usock, usess, ufails, uwait>>

\* ls.udpCh <- 1, blocking while the channel is full.
UCloseSend ==
  /\ ucpc = "send" /\ udpCh < UdpChCap
  /\ udpCh' = udpCh + 1 /\ ucpc' = "wake"
  /\ UNCHANGED <<upc, uisclose, uconn, uerr, usock, usess, ufails, uwait>>

\* The 0-byte datagram to the local address of what udpConn holds now;
\* a session reading that address would take it as n == 0 (see
\* WakeFindsNoReader). IterateSession then visits nothing, since UDP
\* sessions are not in sessMap.
UCloseWake ==
  /\ ucpc = "wake" /\ ucpc' = "wait"
  /\ UNCHANGED <<upc, uisclose, uconn, uerr, usock, usess, udpCh, ufails, uwait>>

\* ls.waitExit.Wait() returns once the loop is done.
UCloseWait ==
  /\ ucpc = "wait" /\ uwait = 0
  /\ ucpc' = "returned"
  /\ UNCHANGED <<upc, uisclose, uconn, uerr, usock, usess, udpCh, ufails, uwait>>

ULoop == UTop \/ UStart \/ URecv \/ UCheck \/ UListenOk \/ UListenFail
USessionLoops(s) == USessUnwind(s) \/ USessOnClose(s)
UCloseCall == UCloseBegin \/ UCloseSock \/ UCloseSend \/ UCloseWake \/ UCloseWait

UdpNext ==
  \/ ULoop \/ UCloseCall
  \/ \E s \in Socks : USessEnd(s) \/ USessionLoops(s)

\* The loop, the session goroutines and a started Close all run; sessions
\* end on their own, and Close is called, only when they do.
UdpFairness ==
  /\ WF_uvars(ULoop)
  /\ \A s \in Socks : WF_uvars(USessionLoops(s))
  /\ WF_uvars(UCloseSock \/ UCloseSend \/ UCloseWake \/ UCloseWait)

UdpSpec == UdpInit /\ [][UdpNext]_uvars /\ UdpFairness

(***************************************************************************)
(* Properties                                                              *)
(***************************************************************************)

\* Close's 0-byte wake-up datagram never reaches a session that is still
\* reading: by the time it is sent, every socket a session reads from has
\* been closed, by Close itself or by the session's end, whichever socket
\* udpConn held when Close read it. A reader would see n == 0 with a nil
\* err and crash the process at dorecv's err.Error().
WakeFindsNoReader ==
  ucpc = "wake" => \A s \in Socks : ~(usess[s] = "open" /\ usock[s] = "bound")

\* Every UDP session still running is on the socket udpConn holds: the
\* loop waits for the session's onclose token before it binds and starts
\* another, so two sessions never read the address at once.
LiveSessionOnUdpConn ==
  \A s \in Socks : usess[s] \in ULive => s = uconn

\* Close returns, and by then the loop has exited: whichever of Close and
\* the session's onclose sends on udpCh first, the one-token channel lets
\* the loop wake and see isclose.
UdpCloseReturns ==
  ucpc # "idle" ~> (ucpc = "returned" /\ upc = "exited")

\* Every onclose of a UDP session returns: its send on udpCh finds room
\* even after the loop has taken Close's token and exited.
UdpOnCloseReturns ==
  \A s \in Socks : usess[s] = "notify" ~> usess[s] = "closed"

=============================================================================
