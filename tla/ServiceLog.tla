----------------------------- MODULE ServiceLog -----------------------------
(***************************************************************************)
(* The bounded log file of the background service (internal/servicelog).   *)
(* A write that does not fit keeps the newest whole lines of the file by   *)
(* reading them, truncating the file and writing them back before the new  *)
(* record.  Every call is a step of its own: the daemon may be killed, a   *)
(* write may fail half way, and the name may be given to another file      *)
(* between any two of them.  One daemon writes at a time.                  *)
(*                                                                         *)
(* A byte is its position in the stream of all bytes ever logged, 0 for a  *)
(* byte the log did not write; lineEnds are the positions that hold a      *)
(* newline.                                                                *)
(***************************************************************************)
EXTENDS Naturals, Sequences, SequencesExt, FiniteSets, FiniteSetsExt

CONSTANTS LogLimit,     \* the bound in bytes (MaxBytes)
          RecordSizes,  \* sizes of the records logged, each one line
          OldSizes,     \* sizes of the file an earlier build may have left
          MaxStream,    \* bound on the bytes logged
          MaxLogFaults  \* bound on failed writes, kills, renames and links

ASSUME ServiceLogAssumption ==
    /\ LogLimit \in Nat \ {0} /\ RecordSizes \subseteq Nat \ {0} /\ OldSizes \subseteq Nat
    /\ MaxStream \in Nat /\ MaxLogFaults \in Nat

VARIABLES files,      \* every file ever made: its bytes, and whether it is a regular file of the
                      \* user with one link that nobody else may write
          outName,    \* the file the log's name leads to, 0 when it leads nowhere
          errName,    \* the same for the superseded error log
          outFd, errFd, \* the files the descriptors were opened on, errFd 0 when there was none
          writer,     \* the daemon's Writer: what it is doing, what is left to write
          stream,     \* bytes logged so far
          lineEnds,   \* those of them that are newlines
          logFaults,
          disturbed,  \* history: a record was lost to a kill, an error, a refusal or another file
          trusted     \* history: the file the operation in progress found under its name, if safe

logVars == <<files, outName, errName, outFd, errFd, writer, stream, lineEnds, logFaults, disturbed, trusted>>
names == <<outName, errName>>
logged == <<stream, lineEnds>>

\* The bytes of the file the output descriptor is open on.
outFile == files[outFd].bytes

Bytes(a, b) == [k \in 1..(b + 1 - a) |-> a + k - 1]
Closed == [at |-> "closed", todo |-> <<>>, opening |-> FALSE]

LogInit ==
    /\ \E n \in OldSizes : /\ files = <<[bytes |-> Bytes(1, n), safe |-> TRUE], [bytes |-> <<0>>, safe |-> TRUE]>>
                           /\ stream = n /\ lineEnds = {x \in 1..n : x % 2 = 0}
    /\ outName = 1 /\ outFd = 1 /\ errName = 2 /\ errFd = 2
    /\ writer = Closed /\ logFaults = 0 /\ disturbed = FALSE /\ trusted = {}

At(from, to) == writer.at = from /\ writer' = [writer EXCEPT !.at = to]

\* Faulty variant: the first bytes are kept.
ReadHead(keep) == SubSeq(outFile, 1, IF keep > Len(outFile) THEN Len(outFile) ELSE keep)

\* readTail, cut to the first line that is whole.
ReadTail(keep) ==
    LET kept == SubSeq(outFile, Len(outFile) + 1 - (IF keep > Len(outFile) THEN Len(outFile) ELSE keep), Len(outFile))
        ends == {k \in 1..Len(kept) : kept[k] \in lineEnds}
    IN  IF ends = {} THEN kept ELSE SubSeq(kept, Min(ends) + 1, Len(kept))

\* How much of the old content a record of size n leaves room for.
Keep(n) == Min({(LogLimit * 3) \div 4, LogLimit - n})

\* Faulty variant: nothing is dropped for the new record.
PlanKeepAll(p) == [truncate |-> TRUE, todo |-> ReadTail((LogLimit * 3) \div 4) \o p]

\* enforceBound: what has to be written, and whether the file is emptied first.
Plan(p) ==
    IF Len(outFile) + Len(p) <= LogLimit THEN [truncate |-> FALSE, todo |-> p]
    ELSE IF Len(p) >= LogLimit
         THEN [truncate |-> TRUE, todo |-> SubSeq(p, Len(p) + 1 - LogLimit, Len(p))]
         ELSE [truncate |-> TRUE, todo |-> ReadTail(Keep(Len(p))) \o p]

Apply(p, opening) ==
    \E plan \in {Plan(p)} :
    writer' = [at |-> IF plan.truncate THEN "truncate" ELSE "write", todo |-> plan.todo, opening |-> opening]

\* The file under a name, when there is one and it is safe.
Found(name) == {f \in {name} : f # 0 /\ files[f].safe}

\* openWithLimit inspects both names and opens the superseded error log, if there
\* is one, and then the output, which it creates when the name leads nowhere.
\* Any safe file will do, the one the last daemon logged to or another.
LogOpenError ==
    /\ writer.at = "closed"
    /\ \A name \in {outName, errName} : name = 0 \/ name \in Found(name)
    /\ writer' = [Closed EXCEPT !.at = "opening"] /\ errFd' = errName
    /\ UNCHANGED <<files, names, outFd, logged, logFaults, disturbed, trusted>>
LogOpen ==
    /\ IF outName = 0
       THEN /\ files' = Append(files, [bytes |-> <<>>, safe |-> TRUE])
            /\ outName' = Len(files') /\ outFd' = Len(files') /\ At("opening", "bound")
       ELSE /\ At("opening", IF outName \in Found(outName) THEN "bound" ELSE "closed")
            /\ outFd' = (IF outName \in Found(outName) THEN outName ELSE outFd)
            /\ UNCHANGED <<files, outName>>
    /\ disturbed' = (disturbed \/ outFd' # outFd)
    /\ UNCHANGED <<errName, errFd, logged, logFaults, trusted>>

\* enforceBound(nil): the name must still lead to the file that was opened, which
\* is bounded before anything is logged.
LogBound ==
    /\ writer.at = "bound" /\ trusted' = Found(outName)
    /\ IF outFd \in Found(outName) THEN Apply(<<>>, TRUE) ELSE writer' = Closed
    /\ UNCHANGED <<files, names, outFd, errFd, logged, logFaults, disturbed>>

\* Faulty variant: the name is not checked again.
LogWriteUnchecked ==
    /\ writer.at = "open" /\ trusted' = Found(outName)
    /\ \E n \in RecordSizes :
          /\ stream + n <= MaxStream
          /\ stream' = stream + n /\ lineEnds' = lineEnds \cup {stream + n}
          /\ Apply(Bytes(stream + 1, stream + n), FALSE)
    /\ UNCHANGED <<files, names, outFd, errFd, logFaults, disturbed>>

\* Write: validateCurrentPath, then enforceBound.  A replaced file is refused.
LogWrite ==
    /\ writer.at = "open" /\ trusted' = Found(outName)
    /\ \E n \in RecordSizes :
          /\ stream + n <= MaxStream
          /\ stream' = stream + n /\ lineEnds' = lineEnds \cup {stream + n}
          /\ IF outFd \in Found(outName)
             THEN /\ Apply(Bytes(stream + 1, stream + n), FALSE)
                  /\ UNCHANGED disturbed
             ELSE disturbed' = TRUE /\ UNCHANGED writer
    /\ UNCHANGED <<files, names, outFd, errFd, logFaults>>

Fill(f, bytes) == files' = [files EXCEPT ![f].bytes = bytes]

LogTruncate ==
    /\ At("truncate", "write") /\ Fill(outFd, <<>>)
    /\ UNCHANGED <<names, outFd, errFd, logged, logFaults, disturbed, trusted>>

\* One write(2) of writeAll: it may be short, and the loop goes on.
LogPut ==
    /\ writer.at = "write" /\ writer.todo # <<>>
    /\ \E k \in 1..Len(writer.todo) :
          /\ Fill(outFd, outFile \o SubSeq(writer.todo, 1, k))
          /\ writer' = [writer EXCEPT !.todo = SubSeq(@, k + 1, Len(@))]
    /\ UNCHANGED <<names, outFd, errFd, logged, logFaults, disturbed, trusted>>

\* The record is in the file; after the first bounding, the superseded error
\* log is checked and emptied.
LogDone ==
    /\ writer.todo = <<>>
    /\ At("write", IF writer.opening /\ errFd # 0 THEN "error log" ELSE "open")
    /\ UNCHANGED <<files, names, outFd, errFd, logged, logFaults, disturbed, trusted>>
LogErrorCheck ==
    /\ At("error log", IF errFd \in Found(errName) THEN "empty" ELSE "closed")
    /\ trusted' = Found(errName)
    /\ UNCHANGED <<files, names, outFd, errFd, logged, logFaults, disturbed>>

\* Faulty variant: the file of that name is truncated, whatever it is by now.
LogErrorTruncateByName ==
    /\ At("empty", "open") /\ (IF errName = 0 THEN UNCHANGED files ELSE Fill(errName, <<>>))
    /\ disturbed' = (disturbed \/ errFd = outFd)
    /\ UNCHANGED <<names, outFd, errFd, logged, logFaults, trusted>>

\* The truncation goes through the descriptor that was checked, whatever the
\* name leads to by now.
LogErrorTruncate ==
    /\ At("empty", "open") /\ Fill(errFd, <<>>)
    /\ disturbed' = (disturbed \/ errFd = outFd)
    /\ UNCHANGED <<names, outFd, errFd, logged, logFaults, trusted>>

LogFault == logFaults < MaxLogFaults /\ logFaults' = logFaults + 1

\* A write that fails: the error is returned and the rest is dropped.  An
\* opening that fails ends the daemon.
LogPutFails ==
    /\ LogFault /\ (writer.at = "truncate" \/ (writer.at = "write" /\ writer.todo # <<>>))
    /\ writer' = IF writer.opening THEN Closed ELSE [writer EXCEPT !.at = "open", !.todo = <<>>]
    /\ disturbed' = TRUE
    /\ UNCHANGED <<files, names, outFd, errFd, logged, trusted>>

\* The daemon is killed (external).
LogKill ==
    /\ LogFault /\ writer.at # "closed"
    /\ writer' = Closed /\ disturbed' = (disturbed \/ writer.todo # <<>>)
    /\ UNCHANGED <<files, names, outFd, errFd, logged, trusted>>

\* A name is taken away, given to a new file or to one that had another name
\* (external).
LogRename ==
    /\ LogFault
    /\ \E f \in 0..(Len(files) + 1), safe \in BOOLEAN :
          /\ files' = IF f > Len(files) THEN Append(files, [bytes |-> <<0>>, safe |-> safe]) ELSE files
          /\ \/ outName' = f /\ errName' = (IF errName = f THEN 0 ELSE errName)
             \/ errName' = f /\ outName' = (IF outName = f THEN 0 ELSE outName)
    /\ UNCHANGED <<outFd, errFd, writer, logged, disturbed, trusted>>
\* A file gets a second link or another mode, or loses it again (external).
LogLink ==
    /\ LogFault
    /\ \E f \in 1..Len(files) : files' = [files EXCEPT ![f].safe = ~@]
    /\ UNCHANGED <<names, outFd, errFd, writer, logged, disturbed, trusted>>

LogNext ==
    \/ LogOpenError \/ LogOpen \/ LogBound \/ LogWrite \/ LogTruncate \/ LogPut \/ LogDone
    \/ LogErrorCheck \/ LogErrorTruncate \/ LogPutFails \/ LogKill \/ LogRename \/ LogLink

LogSpec == LogInit /\ [][LogNext]_logVars

(***************************************************************************)
(* Properties.                                                             *)
(***************************************************************************)

\* The file never exceeds the bound once the writer has opened it, at any step
\* of a compaction and after any failure inside one.
LogBounded ==
    writer.at \in {"error log", "empty", "open", "write"} => Len(outFile) + Len(writer.todo) <= LogLimit

\* Nothing is logged twice or out of order, killed and failed compactions
\* included; and without a kill, an error, a refusal or a change of file it holds
\* the newest bytes with no gap, cut only at a line end or, for a record larger than the
\* bound, to exactly the bound.
NewestKept ==
    /\ \A j, k \in 1..Len(outFile) : j < k => outFile[j] < outFile[k]
    /\ (~disturbed /\ writer.at = "open") =>
          \E k \in 0..stream :
              /\ outFile = Bytes(k + 1, stream)
              /\ k = 0 \/ k \in lineEnds \/ Len(outFile) = LogLimit \/ outFile = <<>>

\* A file is written or emptied only by an operation that found that very file
\* under its managed name, regular, of the user and with one link, when it began
\* (the bounding at open, a record, the emptying of the error log): a file moved
\* away, newly linked or put in its place afterwards is not touched by the next
\* one, and a file put under a name between the check and the truncation not at
\* all (writer_unix.go: enforceBound, openWithLimit; path_unix.go:
\* validateOpenPath).
OnlyCheckedFilesChange ==
    [][\A f \in 1..Len(files) : files'[f].bytes # files[f].bytes => f \in trusted]_logVars
=============================================================================
