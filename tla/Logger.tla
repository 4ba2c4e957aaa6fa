------------------------------- MODULE Logger -------------------------------
(***************************************************************************)
(* The logger of src/stnet: Logger (stlog.go), its FileLogWriter           *)
(* (filelog.go) and the sysLog reference count of log.go.                  *)
(*                                                                         *)
(* Producers call System..Critical, which end in intLogf's select on clos, *)
(* the recv channel and default. One goroutine (the loop of NewLogger)     *)
(* drains recv into buff and hands buff to FileLogWriter.write every       *)
(* FlushEvery iterations or at a tick of its ticker; a CLOSE record makes  *)
(* it flush and exit. Close, called by logClose when the last Server       *)
(* stops, sends that record, closes clos, waits for the loop and closes    *)
(* the file.                                                               *)
(*                                                                         *)
(* A record is its sequence number; its size in the file is one unit, so   *)
(* MaxSize counts records. Files are named <<date, k>>: date is the day of *)
(* the name's ".20060102" suffix (-1 when the writer is not daily) and k   *)
(* the ".%03d" backup suffix (0 for none). Stdout (the term level) is left *)
(* out: nothing stnet reads depends on it.                                 *)
(***************************************************************************)
EXTENDS Integers, Sequences, SequencesExt, FiniteSets

CONSTANTS
  Srv,          \* the Servers of the process (each Start and Stop once)
  NumRecords,   \* bound: log calls the producers make
  LogLvls,      \* levels the producers log at
  SetLvls,      \* levels Server.SetLogLvl may be given
  InitLvl,      \* the file level SetFileLevel gave at construction
  MaxSize,      \* newFileLogger's maxsize, in records
  MaxBackup,    \* newFileLogger's maxbackup
  Dailies,      \* newFileLogger's daily flags the construction may pass
  RecvCap,      \* capacity of recv (1024*1024 in NewLogger)
  FlushEvery,   \* iterations between flushes (1024 in NewLogger)
  MaxDay,       \* bound: days the clock advances
  MonthLen      \* days in a month: time.Day() is day % MonthLen

SYSTEM == 0
DEBUG == 1
CLOSE == 6
Levels == SYSTEM..CLOSE

VARIABLES
  recv,      \* the records queued in log.recv
  clos,      \* log.clos has been closed
  lpc,       \* the loop goroutine: "run" or "exited" (log.wait closed)
  count,     \* the loop's iteration counter
  buff,      \* the loop's buff: records formatted, not yet written
  fw,        \* log.fileWrite: [file, daily, date, opendate, cursize]
  files,     \* the files on disk: name -> records, in write order
  day,       \* the day time.Now() falls on
  nextRec,   \* the sequence number of the next log call
  fileLvl,   \* log.file
  user,      \* log.go's user counter
  spc,       \* server -> "new", "started", "stopped"
  cpc,       \* server -> its Close: "idle", "send", "select", "closechan",
             \*   "wait", "returned", "panic"
  written,   \* history: every record FileLogWriter.write put in a file
  writtenTo, \* history: date -> the records written under that date
  accepted   \* history: every record the loop appended to buff

vars == <<recv, clos, lpc, count, buff, fw, files, day, nextRec, fileLvl,
          user, spc, cpc, written, writtenTo, accepted>>

Records == 1..NumRecords
Dates == {-1} \cup (0..MaxDay)
Names == Dates \X (0..MaxBackup)
CloseRec == [id |-> 0, lvl |-> CLOSE]
Rec == [id : Records, lvl : Levels] \cup {CloseRec}
FileWriter == [file : {"nil", "open", "closed"}, daily : BOOLEAN,
               date : Dates, opendate : 0..(MonthLen - 1), cursize : Nat]

TypeOK ==
  /\ recv \in Seq(Rec) /\ Len(recv) <= RecvCap
  /\ clos \in BOOLEAN /\ lpc \in {"run", "exited"}
  /\ count \in 0..(FlushEvery - 1)
  /\ buff \in Seq(Records)
  /\ fw \in FileWriter
  /\ DOMAIN files \subseteq Names /\ \A n \in DOMAIN files : files[n] \in Seq(Records)
  /\ day \in 0..MaxDay /\ nextRec \in 1..(NumRecords + 1)
  /\ fileLvl \in Levels /\ user \in -Cardinality(Srv)..Cardinality(Srv)
  /\ spc \in [Srv -> {"new", "started", "stopped"}]
  /\ cpc \in [Srv -> {"idle", "send", "select", "closechan", "wait", "returned", "panic"}]
  /\ written \in Seq(Records) /\ accepted \in Seq(Records)
  /\ writtenTo \in [Dates -> Seq(Records)]

(***************************************************************************)
(* FileLogWriter (filelog.go): pure operators on [fw, files].              *)
(***************************************************************************)

\* newFileLogger: no file open yet, the undated base name.
newFileLogger(daily) ==
  [file |-> "nil", daily |-> daily, date |-> -1, opendate |-> day % MonthLen, cursize |-> 0]

\* newFileWriter: the dated name when daily, opened O_APPEND|O_CREATE,
\* cursize from Seek(0, SEEK_END).
newFileWriter(d) ==
  LET date == IF d.fw.daily THEN day ELSE d.fw.date
      n == <<date, 0>>
      fs == IF n \in DOMAIN d.files THEN d.files ELSE (n :> <<>>) @@ d.files
  IN [fw |-> [d.fw EXCEPT !.file = "open", !.date = date,
                          !.opendate = day % MonthLen, !.cursize = Len(fs[n])],
      files |-> fs]

\* os.Rename(from, to): replaces to; a missing from is IsNotExist, ignored.
Rename(fs, from, to) ==
  IF from \notin DOMAIN fs THEN fs
  ELSE [n \in (DOMAIN fs \ {from}) \cup {to} |-> IF n = to THEN fs[from] ELSE fs[n]]

RECURSIVE RenameDown(_, _, _)
RenameDown(fs, date, i) ==
  IF i <= 1 THEN fs
  ELSE RenameDown(Rename(fs, <<date, i - 1>>, <<date, i>>), date, i - 1)

RenameFilesCurrentFirst(fs, date, maxFiles) ==
  IF maxFiles < 2 THEN fs
  ELSE RenameDown(Rename(fs, <<date, 0>>, <<date, 1>>), date, maxFiles - 1)

\* renameFiles: .(i-1) to .i for i from maxFiles-1 down to 2, then the
\* current name to .001; nothing when maxFiles < 2.
renameFiles(fs, date, maxFiles) ==
  IF maxFiles < 2 THEN fs
  ELSE Rename(RenameDown(fs, date, maxFiles - 1), <<date, 0>>, <<date, 1>>)

\* rotate: close, rename the backups if oversize, reopen.
rotate(d, oversize) ==
  newFileWriter([fw |-> [d.fw EXCEPT !.file = "nil"],
                 files |-> IF oversize THEN renameFiles(d.files, d.fw.date, MaxBackup)
                           ELSE d.files])

writeOverAtMax(d, chunk) ==
  LET d1 == IF d.fw.file = "nil" THEN newFileWriter(d) ELSE d
      dayc == d1.fw.daily /\ day % MonthLen # d1.fw.opendate
      over == MaxSize > 0 /\ d1.fw.cursize > MaxSize
      d2 == IF dayc \/ over THEN rotate(d1, over) ELSE d1
      n == <<d2.fw.date, 0>>
  IN IF d2.fw.file = "closed" THEN [fw |-> d2.fw, files |-> d2.files, chunk |-> <<>>]
     ELSE [fw |-> [d2.fw EXCEPT !.cursize = @ + Len(chunk)],
           files |-> [d2.files EXCEPT ![n] = @ \o chunk], chunk |-> chunk]

\* write: open the file if there is none, rotate on a new day or once
\* cursize has reached maxsize, then Fprint the chunk (which fails on a
\* closed file) and add its size to cursize. Also returns what it wrote.
write(d, chunk) ==
  LET d1 == IF d.fw.file = "nil" THEN newFileWriter(d) ELSE d
      dayc == d1.fw.daily /\ day % MonthLen # d1.fw.opendate
      over == MaxSize > 0 /\ d1.fw.cursize >= MaxSize
      d2 == IF dayc \/ over THEN rotate(d1, over) ELSE d1
      n == <<d2.fw.date, 0>>
  IN IF d2.fw.file = "closed" THEN [fw |-> d2.fw, files |-> d2.files, chunk |-> <<>>]
     ELSE [fw |-> [d2.fw EXCEPT !.cursize = @ + Len(chunk)],
           files |-> [d2.files EXCEPT ![n] = @ \o chunk], chunk |-> chunk]

(***************************************************************************)
(* The loop goroutine of NewLogger. Each iteration is one step: count++,  *)
(* the select, the flush check.                                            *)
(***************************************************************************)

\* if msg != "": log.fileWrite.write(msg); the histories record what it
\* put in which file.
FlushChunk(b) ==
  IF b = <<>> THEN UNCHANGED <<fw, files, written, writtenTo>>
  ELSE \E w \in {write([fw |-> fw, files |-> files], b)} :
         /\ fw' = w.fw /\ files' = w.files
         /\ written' = written \o w.chunk
         /\ writtenTo' = [writtenTo EXCEPT ![w.fw.date] = @ \o w.chunk]

LoopTickReset ==
  /\ lpc = "run"
  /\ count' = 0
  /\ UNCHANGED <<recv, clos, lpc, buff, fw, files, day, nextRec, fileLvl,
                 user, spc, cpc, written, writtenTo, accepted>>

\* The tick case sets count = 1024, so the flush check runs: count = 0,
\* write buff, buff.Reset().
LoopTick ==
  /\ lpc = "run"
  /\ count' = 0 /\ FlushChunk(buff) /\ buff' = <<>>
  /\ UNCHANGED <<recv, clos, lpc, day, nextRec, fileLvl, user, spc, cpc, accepted>>

LoopRecordNoReset(rec) ==
  LET keep == fileLvl <= rec.lvl
      b == IF keep THEN Append(buff, rec.id) ELSE buff
  IN /\ accepted' = IF keep THEN Append(accepted, rec.id) ELSE accepted
     /\ count' = count + 1
     /\ IF count + 1 >= FlushEvery
          THEN FlushChunk(b) /\ buff' = <<>>
          ELSE buff' = b /\ UNCHANGED <<fw, files, written, writtenTo>>
     /\ UNCHANGED lpc

\* A record: FormatLogRecord, buff.WriteString if log.file <= its level;
\* then the flush check on count.
LoopRecord(rec) ==
  LET keep == fileLvl <= rec.lvl
      b == IF keep THEN Append(buff, rec.id) ELSE buff
  IN /\ accepted' = IF keep THEN Append(accepted, rec.id) ELSE accepted
     /\ IF count + 1 >= FlushEvery
          THEN count' = 0 /\ FlushChunk(b) /\ buff' = <<>>
          ELSE count' = count + 1 /\ buff' = b /\ UNCHANGED <<fw, files, written, writtenTo>>
     /\ UNCHANGED lpc

LoopRecvNoFlush ==
  /\ lpc = "run" /\ recv # <<>> /\ recv' = Tail(recv)
  /\ IF Head(recv).lvl = CLOSE
       THEN lpc' = "exited" /\ UNCHANGED <<count, buff, accepted, fw, files, written, writtenTo>>
       ELSE LoopRecord(Head(recv))
  /\ UNCHANGED <<clos, day, nextRec, fileLvl, user, spc, cpc>>

LoopRecvIgnoreClose ==
  /\ lpc = "run" /\ recv # <<>> /\ recv' = Tail(recv)
  /\ IF Head(recv).lvl = CLOSE
       THEN UNCHANGED <<lpc, count, buff, accepted, fw, files, written, writtenTo>>
       ELSE LoopRecord(Head(recv))
  /\ UNCHANGED <<clos, day, nextRec, fileLvl, user, spc, cpc>>

\* The recv case. The CLOSE record: write buff if not empty, tk.Stop,
\* return; the defer closes log.wait.
LoopRecv ==
  /\ lpc = "run" /\ recv # <<>> /\ recv' = Tail(recv)
  /\ IF Head(recv).lvl = CLOSE
       THEN lpc' = "exited" /\ FlushChunk(buff) /\ UNCHANGED <<count, buff, accepted>>
       ELSE LoopRecord(Head(recv))
  /\ UNCHANGED <<clos, day, nextRec, fileLvl, user, spc, cpc>>

(***************************************************************************)
(* Producers: System..Critical -> print -> intLogf, whose select is one   *)
(* step: it drops the record when clos is closed, queues it when recv has *)
(* room (Go picks at random when both are ready), and drops it with "log  *)
(* buffer is full" when neither is.                                        *)
(***************************************************************************)

Log(lvl) ==
  /\ nextRec <= NumRecords /\ nextRec' = nextRec + 1
  /\ \/ clos /\ UNCHANGED recv
     \/ Len(recv) < RecvCap /\ recv' = Append(recv, [id |-> nextRec, lvl |-> lvl])
     \/ ~clos /\ Len(recv) = RecvCap /\ UNCHANGED recv
  /\ UNCHANGED <<clos, lpc, count, buff, fw, files, day, fileLvl, user, spc, cpc,
                 written, writtenTo, accepted>>

\* Server.SetLogLvl: SetLevel sets log.file (and log.term), then
\* SetTermLevel(CLOSE). The loop reads log.file unsynchronised; either
\* value is what it may see, and each interleaving gives one.
SetLogLvl(lvl) ==
  /\ fileLvl' = lvl
  /\ UNCHANGED <<recv, clos, lpc, count, buff, fw, files, day, nextRec, user,
                 spc, cpc, written, writtenTo, accepted>>

\* time.Now() moves to the next day.
NextDay ==
  /\ day < MaxDay /\ day' = day + 1
  /\ UNCHANGED <<recv, clos, lpc, count, buff, fw, files, nextRec, fileLvl,
                 user, spc, cpc, written, writtenTo, accepted>>

(***************************************************************************)
(* log.go and Server: Start calls logOpen, Stop ends with logClose, which *)
(* calls sysLog.Close once the counter is back to 0.                       *)
(***************************************************************************)

Start(s) ==
  /\ spc[s] = "new" /\ spc' = [spc EXCEPT ![s] = "started"]
  /\ user' = user + 1
  /\ UNCHANGED <<recv, clos, lpc, count, buff, fw, files, day, nextRec, fileLvl,
                 cpc, written, writtenTo, accepted>>

Stop(s) ==
  /\ spc[s] = "started" /\ spc' = [spc EXCEPT ![s] = "stopped"]
  /\ user' = user - 1
  /\ cpc' = IF user - 1 <= 0 THEN [cpc EXCEPT ![s] = "send"] ELSE cpc
  /\ UNCHANGED <<recv, clos, lpc, count, buff, fw, files, day, nextRec, fileLvl,
                 written, writtenTo, accepted>>

(***************************************************************************)
(* Logger.Close, run by the Stop that brought the counter to 0.           *)
(***************************************************************************)

\* log.recv <- CLOSE record: blocks while recv is full.
CloseSend(s) ==
  /\ cpc[s] = "send" /\ Len(recv) < RecvCap
  /\ recv' = Append(recv, CloseRec) /\ cpc' = [cpc EXCEPT ![s] = "select"]
  /\ UNCHANGED <<clos, lpc, count, buff, fw, files, day, nextRec, fileLvl, user,
                 spc, written, writtenTo, accepted>>

\* select: return if clos is closed, otherwise go on to close(log.clos).
CloseSelect(s) ==
  /\ cpc[s] = "select"
  /\ cpc' = [cpc EXCEPT ![s] = IF clos THEN "returned" ELSE "closechan"]
  /\ UNCHANGED <<recv, clos, lpc, count, buff, fw, files, day, nextRec, fileLvl,
                 user, spc, written, writtenTo, accepted>>

\* close(log.clos): a second close of it panics.
CloseChan(s) ==
  /\ cpc[s] = "closechan"
  /\ cpc' = [cpc EXCEPT ![s] = IF clos THEN "panic" ELSE "wait"]
  /\ clos' = TRUE
  /\ UNCHANGED <<recv, lpc, count, buff, fw, files, day, nextRec, fileLvl, user,
                 spc, written, writtenTo, accepted>>

\* <-log.wait, then fileWrite.close(): the file is closed, w.file kept.
CloseWait(s) ==
  /\ cpc[s] = "wait" /\ lpc = "exited"
  /\ fw' = [fw EXCEPT !.file = IF @ = "nil" THEN "nil" ELSE "closed"]
  /\ cpc' = [cpc EXCEPT ![s] = "returned"]
  /\ UNCHANGED <<recv, clos, lpc, count, buff, files, day, nextRec, fileLvl,
                 user, spc, written, writtenTo, accepted>>

(***************************************************************************)
(* The specification                                                       *)
(***************************************************************************)

\* NewLogger then SetFileLevel(InitLvl, fname, MaxSize, daily, MaxBackup),
\* in a directory without log files; no Server started yet.
Init ==
  /\ day = 0
  /\ recv = <<>> /\ clos = FALSE /\ lpc = "run" /\ count = 0 /\ buff = <<>>
  /\ fw \in {newFileLogger(d) : d \in Dailies}
  /\ files = [n \in {} |-> <<>>]
  /\ nextRec = 1 /\ fileLvl = InitLvl /\ user = 0
  /\ spc = [s \in Srv |-> "new"] /\ cpc = [s \in Srv |-> "idle"]
  /\ written = <<>> /\ accepted = <<>> /\ writtenTo = [g \in Dates |-> <<>>]

Loop == LoopTick \/ LoopRecv
CloseCall(s) == CloseSend(s) \/ CloseSelect(s) \/ CloseChan(s) \/ CloseWait(s)

Next ==
  \/ Loop
  \/ \E l \in LogLvls : Log(l)
  \/ \E l \in SetLvls : SetLogLvl(l)
  \/ NextDay
  \/ \E s \in Srv : Start(s) \/ Stop(s) \/ CloseCall(s)

\* The loop's select picks at random among ready cases, and the ticker
\* fires every 300ms, so neither a queued record nor a tick is passed over
\* for ever; a started Close keeps running.
Fairness ==
  /\ WF_vars(LoopRecv) /\ WF_vars(LoopTick)
  /\ \A s \in Srv : WF_vars(CloseCall(s))

Spec == Init /\ [][Next]_vars /\ Fairness

(***************************************************************************)
(* Properties                                                              *)
(***************************************************************************)

\* Rotation keeps the most recent history: for each date, the backups
\* .001.. are numbered without a gap, each was rotated out full (at least
\* MaxSize), and reading them from the highest number down, then the
\* current file, gives a suffix of what write put under that date, in
\* order. renameFiles must shift from the top down and move the current
\* file last for this to hold.
LogFilesAreRecentHistory ==
  \A g \in Dates :
    LET bs == {k \in 1..MaxBackup : <<g, k>> \in DOMAIN files}
        m == Cardinality(bs)
        cur == IF <<g, 0>> \in DOMAIN files THEN files[<<g, 0>>] ELSE <<>>
        kept == FlattenSeq([i \in 1..m |-> files[<<g, m + 1 - i>>]]) \o cur
    IN /\ bs = 1..m
       /\ \A k \in bs : Len(files[<<g, k>>]) >= MaxSize
       /\ IsSuffix(kept, writtenTo[g])

\* No file grows past its rotation size by more than one flush: write
\* rotates as soon as cursize has reached maxsize, and a flush carries at
\* most FlushEvery records.
RotationBoundsFile ==
  \A n \in DOMAIN files : Len(files[n]) <= MaxSize - 1 + FlushEvery

\* When Close returns, every record the loop took into buff has been
\* written: the CLOSE record is behind every record queued before it, and
\* the loop writes buff before it exits.
CloseFlushesAll ==
  \A s \in Srv : cpc[s] = "returned" => written = accepted

\* A Close that has started returns.
CloseReturns ==
  \A s \in Srv : cpc[s] # "idle" ~> cpc[s] = "returned"

\* A record taken into buff reaches the file without Close: the ticker
\* forces a flush.
BufferedRecordFlushed ==
  \A r \in Records : (\E i \in DOMAIN buff : buff[i] = r) ~> (\E i \in DOMAIN written : written[i] = r)

=============================================================================
