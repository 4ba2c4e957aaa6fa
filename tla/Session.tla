------------------------------ MODULE Session ------------------------------
(***************************************************************************)
(* A Session of src/stnet/session.go accepted by a Listener (NewSession):  *)
(* its three goroutines and its close protocol.                            *)
(*                                                                         *)
(*   dorecv: onopen and the Open event, then Read into chunks pushed into  *)
(*           the hander channel (blocking send); on a read error its       *)
(*           deferred code closes the socket and closer, waits for dosend  *)
(*           and dohand (wg), sets isclose and reports Close.              *)
(*   dosend: writes what Send queued in writer; stops on closer or on a    *)
(*           write error, which closes the socket.                         *)
(*   dohand: hands every chunk to ParseMsg; on closer it parses at most    *)
(*           one last chunk, once, and returns; a recovered panic closes   *)
(*           the socket and ends it.                                       *)
(*                                                                         *)
(* A chunk is the number of whole frames one Read returned (1 or 2);       *)
(* partial frames and the carried tempBuf are the Framing module's.        *)
(* ParseMsg's outcome is "ok" (every frame dispatched), "bad" (parseLen <  *)
(* 0: socket closed, rest of the chunk dropped) or "panic".                *)
(***************************************************************************)
EXTENDS Integers, Sequences

CONSTANTS
  RecvListLen,    \* capacity of hander (256)
  WriterListLen,  \* capacity of writer (256)
  MaxReads,       \* bound: chunks the peer sends
  MaxSends,       \* bound: Send calls by the application
  Faults          \* ParseMsg outcomes other than "ok" the run admits

ASSUME /\ RecvListLen \in Nat \ {0}
       /\ WriterListLen \in Nat \ {0}
       /\ Faults \subseteq {"bad", "panic"}

Chunk == 1..2

VARIABLES
  sock,       \* the net.Conn: "open" or "closed"
  closer,     \* the closer channel has been closed
  isclose,    \* s.isclose
  rpc,        \* dorecv: "open", "read", "push", "defer", "wait", "report", "done"
  chunk,      \* frames of the chunk dorecv holds while pushing it
  hander,     \* queue of chunks read and not yet taken by dohand
  writer,     \* number of buffers queued for dosend
  spc,        \* dosend: "run", "exit"
  hpc,        \* dohand: "run", "parse", "exit"
  parsing,    \* frames of the chunk dohand is parsing
  reads,      \* chunks read
  readMsgs,   \* frames read from the socket
  parsedMsgs, \* frames handed to ParseMsg
  written,    \* buffers dosend wrote
  sends,      \* Send calls made
  fault,      \* first ParseMsg fault: "none", "bad", "panic"
  events      \* events reported to the service: "open", "close"

vars == <<sock, closer, isclose, rpc, chunk, hander, writer, spc, hpc, parsing, reads,
          readMsgs, parsedMsgs, written, sends, fault, events>>

TypeOK ==
  /\ sock \in {"open", "closed"}
  /\ closer \in BOOLEAN /\ isclose \in BOOLEAN
  /\ rpc \in {"open", "read", "push", "defer", "wait", "report", "done"}
  /\ chunk \in 0..2
  /\ hander \in Seq(Chunk) /\ Len(hander) <= RecvListLen
  /\ writer \in 0..WriterListLen
  /\ spc \in {"run", "exit"} /\ hpc \in {"run", "parse", "exit"}
  /\ parsing \in 0..2
  /\ reads \in 0..MaxReads /\ sends \in 0..MaxSends
  /\ readMsgs \in Nat /\ parsedMsgs \in Nat /\ written \in Nat
  /\ fault \in {"none", "bad", "panic"}
  /\ events \in Seq({"open", "close"})

\* NewSession: a connected socket, dosend and dohand started, dorecv started.
Init ==
  /\ sock = "open"
  /\ closer = FALSE /\ isclose = FALSE
  /\ rpc = "open" /\ chunk = 0 /\ hander = <<>>
  /\ writer = 0 /\ spc = "run" /\ hpc = "run" /\ parsing = 0
  /\ reads = 0 /\ readMsgs = 0 /\ parsedMsgs = 0 /\ written = 0 /\ sends = 0
  /\ fault = "none"
  /\ events = <<>>

Note(f) == fault' = IF fault = "none" THEN f ELSE fault

-----------------------------------------------------------------------------
(* dorecv                                                                  *)

\* onopen, then sessionEvent(Open).
RecvOpen ==
  /\ rpc = "open"
  /\ rpc' = "read"
  /\ events' = Append(events, "open")
  /\ UNCHANGED <<sock, closer, isclose, chunk, hander, writer, spc, hpc, parsing, reads,
                 readMsgs, parsedMsgs, written, sends, fault>>

\* s.socket.Read returns n > 0 bytes holding k whole frames.
Read ==
  /\ rpc = "read"
  /\ sock = "open"
  /\ reads < MaxReads
  /\ \E k \in Chunk :
       /\ chunk' = k
       /\ readMsgs' = readMsgs + k
  /\ reads' = reads + 1
  /\ rpc' = "push"
  /\ UNCHANGED <<sock, closer, isclose, hander, writer, spc, hpc, parsing, parsedMsgs,
                 written, sends, fault, events>>

\* err != nil || n == 0: the peer closed or reset the connection, or the
\* socket was closed here; dorecv returns into its deferred code.
ReadFail ==
  /\ rpc = "read"
  /\ rpc' = "defer"
  /\ UNCHANGED <<sock, closer, isclose, chunk, hander, writer, spc, hpc, parsing, reads,
                 readMsgs, parsedMsgs, written, sends, fault, events>>

\* Mutant: the send on hander does not wait for room.
PushChunkNoBlock ==
  /\ rpc = "push"
  /\ hander' = Append(hander, chunk)
  /\ chunk' = 0
  /\ rpc' = "read"
  /\ UNCHANGED <<sock, closer, isclose, writer, spc, hpc, parsing, reads, readMsgs,
                 parsedMsgs, written, sends, fault, events>>

\* s.hander <- rsData{...}: blocks while hander is full.
PushChunk ==
  /\ rpc = "push"
  /\ Len(hander) < RecvListLen
  /\ hander' = Append(hander, chunk)
  /\ chunk' = 0
  /\ rpc' = "read"
  /\ UNCHANGED <<sock, closer, isclose, writer, spc, hpc, parsing, reads, readMsgs,
                 parsedMsgs, written, sends, fault, events>>

\* Deferred: s.socket.Close(), then close(s.closer) unless already closed.
RecvDefer ==
  /\ rpc = "defer"
  /\ sock' = "closed"
  /\ closer' = TRUE
  /\ rpc' = "wait"
  /\ UNCHANGED <<isclose, chunk, hander, writer, spc, hpc, parsing, reads, readMsgs,
                 parsedMsgs, written, sends, fault, events>>

\* s.wg.Wait() for dosend and dohand, then s.isclose.Close().
LoopsEnded == spc = "exit" /\ hpc = "exit"

RecvJoin ==
  /\ rpc = "wait"
  /\ LoopsEnded
  /\ isclose' = TRUE
  /\ rpc' = "report"
  /\ UNCHANGED <<sock, closer, chunk, hander, writer, spc, hpc, parsing, reads, readMsgs,
                 parsedMsgs, written, sends, fault, events>>

\* sessionEvent(Close), then onclose.
RecvReport ==
  /\ rpc = "report"
  /\ events' = Append(events, "close")
  /\ rpc' = "done"
  /\ UNCHANGED <<sock, closer, isclose, chunk, hander, writer, spc, hpc, parsing, reads,
                 readMsgs, parsedMsgs, written, sends, fault>>

-----------------------------------------------------------------------------
(* dosend                                                                  *)

\* A buffer taken from writer is written in full, or a write error closes
\* the socket and ends dosend.
SendWrite ==
  /\ spc = "run"
  /\ writer > 0
  /\ writer' = writer - 1
  /\ \/ /\ sock = "open"
        /\ written' = written + 1
        /\ UNCHANGED <<sock, spc>>
     \/ /\ sock' = "closed"
        /\ spc' = "exit"
        /\ UNCHANGED written
  /\ UNCHANGED <<closer, isclose, rpc, chunk, hander, hpc, parsing, reads, readMsgs,
                 parsedMsgs, sends, fault, events>>

\* Mutant: dosend's select has no closer case.
SendStopNever == FALSE

\* case <-s.closer: return
SendStop ==
  /\ spc = "run"
  /\ closer
  /\ spc' = "exit"
  /\ UNCHANGED <<sock, closer, isclose, rpc, chunk, hander, writer, hpc, parsing, reads,
                 readMsgs, parsedMsgs, written, sends, fault, events>>

-----------------------------------------------------------------------------
(* dohand                                                                  *)

\* case buf := <-s.hander: dohand takes the next chunk.
HandTake ==
  /\ hpc = "run"
  /\ hander # <<>>
  /\ hander' = Tail(hander)
  /\ parsing' = Head(hander)
  /\ hpc' = "parse"
  /\ UNCHANGED <<sock, closer, isclose, rpc, chunk, writer, spc, reads, readMsgs,
                 parsedMsgs, written, sends, fault, events>>

\* ParseMsg is called for frame after frame of the chunk (goto anthorMsg).
\* Frame j may instead return parseLen < 0, which closes the socket and
\* drops the rest of the chunk, or panic, which handlePanic turns into a
\* socket close and the end of dohand.
HandParse ==
  /\ hpc = "parse"
  /\ parsing' = 0
  /\ \/ /\ parsedMsgs' = parsedMsgs + parsing
        /\ hpc' = "run"
        /\ UNCHANGED <<sock, fault>>
     \/ \E j \in 1..parsing :
          /\ parsedMsgs' = parsedMsgs + j
          /\ sock' = "closed"
          /\ \/ /\ "bad" \in Faults
                /\ Note("bad")
                /\ hpc' = "run"
             \/ /\ "panic" \in Faults
                /\ Note("panic")
                /\ hpc' = "exit"
  /\ UNCHANGED <<closer, isclose, rpc, chunk, hander, writer, spc, reads, readMsgs,
                 written, sends, events>>

\* case <-s.closer: at most one chunk left in hander is taken and ParseMsg
\* is called on it once, which consumes its first frame; dohand returns.
HandClose ==
  /\ hpc = "run"
  /\ closer
  /\ IF hander # <<>>
     THEN /\ hander' = Tail(hander)
          /\ parsedMsgs' = parsedMsgs + 1
     ELSE UNCHANGED <<hander, parsedMsgs>>
  /\ hpc' = "exit"
  /\ UNCHANGED <<parsing, sock, closer, isclose, rpc, chunk, writer, spc, reads, readMsgs,
                 written, sends, fault, events>>

-----------------------------------------------------------------------------
(* The application (or the service) using the session                      *)

\* Session.Send: the select picks at random among its ready cases; the
\* default case runs only when neither is ready.
Send ==
  /\ sends < MaxSends
  /\ sends' = sends + 1
  /\ \/ /\ closer
        /\ UNCHANGED writer
     \/ /\ writer < WriterListLen
        /\ writer' = writer + 1
     \/ /\ ~closer
        /\ writer = WriterListLen
        /\ UNCHANGED writer
  /\ UNCHANGED <<sock, closer, isclose, rpc, chunk, hander, spc, hpc, parsing, reads,
                 readMsgs, parsedMsgs, written, fault, events>>

\* Session.Close: closes the socket unless isclose is already set.
Close ==
  /\ ~isclose
  /\ sock = "open"
  /\ sock' = "closed"
  /\ UNCHANGED <<closer, isclose, rpc, chunk, hander, writer, spc, hpc, parsing, reads,
                 readMsgs, parsedMsgs, written, sends, fault, events>>

-----------------------------------------------------------------------------
DoRecv == RecvOpen \/ Read \/ ReadFail \/ PushChunk \/ RecvDefer \/ RecvJoin \/ RecvReport
DoSend == SendWrite \/ SendStop
DoHand == HandTake \/ HandParse \/ HandClose

Next == DoRecv \/ DoSend \/ DoHand \/ Send \/ Close

\* Each goroutine that can run is eventually scheduled. The peer's behaviour
\* (reads, a failing read) is part of dorecv: a connection that sends
\* nothing more is eventually closed by the peer or by Close. Send and Close
\* are the application's choice.
Fairness == WF_vars(DoRecv) /\ WF_vars(DoSend) /\ WF_vars(DoHand)

Spec == Init /\ [][Next]_vars /\ Fairness

-----------------------------------------------------------------------------
(* Properties.                                                             *)

Reported(e) == \E i \in 1..Len(events) : events[i] = e

\* Once the socket is closed (by Close, the peer, a write error or a parse
\* error), the session eventually reports Close to its service and owner:
\* Listener.Close and a Connector's redial both wait for that report.
CloseEventuallyReported == (sock = "closed") ~> Reported("close")

\* The same, for a session whose handler may panic: the socket close still
\* leads to the Close report, or a recovered panic ended dohand first.
ClosedSessionReports ==
  (sock = "closed") ~> (Reported("close") \/ fault = "panic")

=============================================================================
