------------------------------ MODULE Logger ------------------------------
(***************************************************************************)
(* The logger (logMsg.cpp): two rings of files, frs.1.log .. frs.6.log for  *)
(* every line and frs.1.err .. frs.6.err for errors.  Every start of the    *)
(* process, and every line that finds the log file full, opens the next     *)
(* file of both rings; when a ring is full its files move down by one and   *)
(* the oldest is removed.                                                   *)
(*                                                                         *)
(* log_string runs under a mutex and log_init before there are threads, so  *)
(* nothing runs between the steps of a rotation - but the process may die   *)
(* between any two of its system calls, and fopen may fail.                 *)
(*                                                                         *)
(* log_set_level and log_close are called by nothing, so every level is     *)
(* logged and the files are never closed at the end.                        *)
(***************************************************************************)
EXTENDS Naturals, Sequences

CONSTANTS
    MAX_LOOP_FILE,   \* files in a ring
    LOG_FILE_SIZE,   \* the size of a full log file; a line has length one
    Texts,           \* what callers log
    Started,         \* "FRS Server starting ....", logged before log_init
    LogStart,        \* "LOG START", logged by log_init
    NoText,          \* an empty last_log_str
    NoLog,           \* content of a file that does not exist
    MaxLines,        \* bound on the calls of log_string after log_init
    MaxStarts        \* bound on the starts of the process

Rings == {"log", "err"}
Files == 1 .. MAX_LOOP_FILE
(* LOG_WARN is written as LOG_INFO is, and LOG_FATAL as LOG_ERROR. *)
Levels == {"info", "error"}
(* A line in a file; n numbers the lines written since the first start. *)
Line == [text : Texts \cup {LogStart}, level : Levels \cup {"sys"}, n : Nat]

ASSUME LoggerAssumption ==
    /\ MAX_LOOP_FILE \in Nat \ {0, 1}
    /\ LOG_FILE_SIZE \in Nat \ {0}
    /\ MaxLines \in Nat /\ MaxStarts \in Nat
    /\ Started # LogStart
    /\ NoText \notin Texts \cup {Started, LogStart}
    /\ NoLog \notin Seq(Line)

VARIABLES
    files,      \* files[r][i]: content of file i of ring r, or NoLog
    open,       \* open[r]: the file pf_log or pf_log_err writes, 0 for NULL
    size,       \* currFileSize
    last,       \* last_log_str
    lpc,        \* where in log_init or log_string the logger is
    ring,       \* the ring being rotated
    slot,       \* the loop counter of the rotation, or the file to open
    text, level,\* the arguments of log_string
    written,    \* lines written so far
    calls, starts,  \* counters for the bounds
    gapped,     \* history: rings a crash left with files half moved
    split       \* history: a crash or a failed open came between the rings

logVars == <<files, open, size, last, lpc, ring, slot, text, level,
             written, calls, starts, gapped, split>>

LoggerTypeOK ==
    /\ files \in [Rings -> [Files -> Seq(Line) \cup {NoLog}]]
    /\ open \in [Rings -> Files \cup {0}]
    /\ size \in Nat
    /\ last \in Texts \cup {Started, LogStart, NoText}
    /\ lpc \in {"down", "idle", "find", "remove", "rename", "open", "emit", "emitlog"}
    /\ ring \in Rings
    /\ slot \in Files
    /\ text \in Texts \cup {LogStart}
    /\ level \in Levels \cup {"sys"}
    /\ written \in Nat /\ calls \in Nat /\ starts \in Nat
    /\ gapped \in SUBSET Rings
    /\ split \in BOOLEAN

LoggerInit ==
    /\ files = [r \in Rings |-> [i \in Files |-> NoLog]]
    /\ open = [r \in Rings |-> 0]
    /\ size = 0 /\ last = NoText
    /\ lpc = "down" /\ ring = "log" /\ slot = 1
    /\ text = LogStart /\ level = "sys"
    /\ written = 0 /\ calls = 0 /\ starts = 0
    /\ gapped = {} /\ split = FALSE

Exists(i) == files[ring][i] # NoLog

(* The call is over and its locals are gone. *)
Return(pc) ==
    /\ lpc' = pc
    /\ ring' = "log" /\ slot' = 1
    /\ text' = LogStart /\ level' = "sys"

---------------------------------------------------------------------------
(* main logs one line, which reaches no file, and calls log_init. *)
log_init ==
    /\ lpc = "down" /\ starts < MaxStarts
    /\ starts' = starts + 1
    /\ size' = 1 /\ last' = Started
    /\ text' = LogStart /\ level' = "sys"
    /\ lpc' = "find" /\ ring' = "log"
    /\ UNCHANGED <<files, open, slot, written, calls, gapped, split>>

(* A call of log_string: a full log file is closed and both rings rotate. *)
log_string ==
    /\ lpc = "idle" /\ calls < MaxLines
    /\ calls' = calls + 1
    /\ text' \in Texts /\ level' \in Levels
    /\ \/ /\ size >= LOG_FILE_SIZE
          /\ open' = [open EXCEPT !["log"] = 0]
          /\ lpc' = "find" /\ ring' = "log"
       \/ /\ size < LOG_FILE_SIZE
          /\ lpc' = "emit"
          /\ UNCHANGED <<open, ring>>
    /\ UNCHANGED <<files, size, last, slot, written, starts, gapped, split>>

(* Mutant: a full ring is not moved, its last file is opened again. *)
FindFile_NoMove ==
    /\ lpc = "find"
    /\ \/ \E i \in Files :
             /\ ~Exists(i) /\ \A j \in 1 .. i - 1 : Exists(j)
             /\ slot' = i /\ lpc' = "open"
       \/ (\A i \in Files : Exists(i)) /\ slot' = MAX_LOOP_FILE /\ lpc' = "open"
    /\ UNCHANGED <<files, open, size, last, ring, text, level, written, calls, starts, gapped, split>>

(* The search of move_log_file and move_err_file: the first free file, or   *)
(* the last one after moving all of them. *)
FindFile ==
    /\ lpc = "find"
    /\ \/ \E i \in Files :
             /\ ~Exists(i) /\ \A j \in 1 .. i - 1 : Exists(j)
             /\ slot' = i /\ lpc' = "open"
       \/ (\A i \in Files : Exists(i)) /\ slot' = 2 /\ lpc' = "remove"
    /\ UNCHANGED <<files, open, size, last, ring, text, level, written, calls, starts, gapped, split>>

(* Mutant: the next file is removed instead of the previous one. *)
RemovePrev_Next ==
    /\ lpc = "remove"
    /\ files' = [files EXCEPT ![ring][slot] = NoLog]
    /\ lpc' = "rename"
    /\ UNCHANGED <<open, size, last, ring, slot, text, level, written, calls, starts, gapped, split>>

(* remove() of the previous file, if it exists. *)
RemovePrev ==
    /\ lpc = "remove"
    /\ files' = [files EXCEPT ![ring][slot - 1] = NoLog]
    /\ lpc' = "rename"
    /\ UNCHANGED <<open, size, last, ring, slot, text, level, written, calls, starts, gapped, split>>

(* Mutant: the loop stops one file early. *)
RenameNext_Short ==
    /\ lpc = "rename"
    /\ files' = [files EXCEPT ![ring][slot - 1] = files[ring][slot], ![ring][slot] = NoLog]
    /\ IF slot + 1 < MAX_LOOP_FILE THEN slot' = slot + 1 /\ lpc' = "remove"
                                   ELSE UNCHANGED slot /\ lpc' = "open"
    /\ UNCHANGED <<open, size, last, ring, text, level, written, calls, starts, gapped, split>>

(* Mutant: the loop runs past the last file. *)
RenameNext_Past ==
    /\ lpc = "rename"
    /\ files' = [files EXCEPT ![ring][slot - 1] = files[ring][slot], ![ring][slot] = NoLog]
    /\ IF slot <= MAX_LOOP_FILE THEN slot' = slot + 1 /\ lpc' = "remove"
                                ELSE UNCHANGED slot /\ lpc' = "open"
    /\ UNCHANGED <<open, size, last, ring, text, level, written, calls, starts, gapped, split>>

(* rename() of a file to the one before it. *)
RenameNext ==
    /\ lpc = "rename"
    /\ files' = [files EXCEPT ![ring][slot - 1] = files[ring][slot], ![ring][slot] = NoLog]
    /\ IF slot < MAX_LOOP_FILE THEN slot' = slot + 1 /\ lpc' = "remove"
                               ELSE UNCHANGED slot /\ lpc' = "open"
    /\ UNCHANGED <<open, size, last, ring, text, level, written, calls, starts, gapped, split>>

(* Mutant: only the log is rotated, the error file stays open. *)
OpenFile_LogOnly ==
    /\ lpc = "open"
    /\ files' = [files EXCEPT ![ring][slot] = IF @ = NoLog THEN <<>> ELSE @]
    /\ open' = [open EXCEPT ![ring] = slot]
    /\ IF ring = "log" THEN size' = 0 /\ last' = NoText ELSE UNCHANGED <<size, last>>
    /\ IF ring = "log" /\ open["err"] = 0 THEN ring' = "err" /\ lpc' = "find"
                                          ELSE UNCHANGED ring /\ lpc' = "emit"
    /\ UNCHANGED <<slot, text, level, written, calls, starts, gapped, split>>

(* fopen(.., "a+"); after the log the error file is closed and rotated. *)
OpenFile ==
    /\ lpc = "open"
    /\ files' = [files EXCEPT ![ring][slot] = IF @ = NoLog THEN <<>> ELSE @]
    /\ \/ /\ ring = "log"
          /\ open' = [open EXCEPT !["log"] = slot, !["err"] = 0]
          /\ size' = 0 /\ last' = NoText
          /\ ring' = "err" /\ lpc' = "find"
       \/ /\ ring = "err"
          /\ open' = [open EXCEPT !["err"] = slot]
          /\ lpc' = "emit"
          /\ UNCHANGED <<size, last, ring>>
    /\ UNCHANGED <<slot, text, level, written, calls, starts, gapped, split>>

(* Without a log file log_init and log_string give up, the line is lost and *)
(* the size stays as it was; without an error file they go on.              *)
OpenFails ==
    /\ lpc = "open"
    /\ \/ ring = "log" /\ Return("idle") /\ UNCHANGED split
       \/ /\ ring = "err" /\ lpc' = "emit" /\ split' = TRUE
          /\ UNCHANGED <<ring, slot, text, level>>
    /\ UNCHANGED <<files, open, size, last, written, calls, starts, gapped>>

NewLine == [text |-> text, level |-> level, n |-> written + 1]

WithLine(r) ==
    IF open[r] = 0 THEN files
    ELSE [files EXCEPT ![r][open[r]] = Append(@, NewLine)]

(* A line equal to the last one is passed over; an error goes to the error  *)
(* file first. *)
Emit ==
    /\ lpc = "emit"
    /\ \/ text = last /\ Return("idle") /\ UNCHANGED files
       \/ /\ text # last /\ lpc' = "emitlog"
          /\ files' = IF level = "error" THEN WithLine("err") ELSE files
          /\ UNCHANGED <<ring, slot, text, level>>
    /\ UNCHANGED <<open, size, last, written, calls, starts, gapped, split>>

(* Mutant: last_log_str is not updated. *)
EmitLog_KeepLast ==
    /\ lpc = "emitlog"
    /\ files' = WithLine("log")
    /\ size' = size + 1
    /\ written' = IF open["log"] = 0 THEN written ELSE written + 1
    /\ Return("idle")
    /\ UNCHANGED <<open, last, calls, starts, gapped, split>>

(* Then to the log, and it is remembered and counted, written or not. *)
EmitLog ==
    /\ lpc = "emitlog"
    /\ files' = WithLine("log")
    /\ last' = text
    /\ size' = size + 1
    /\ written' = IF open["log"] = 0 THEN written ELSE written + 1
    /\ Return("idle")
    /\ UNCHANGED <<open, calls, starts, gapped, split>>

(* The process dies; the files stay as they are. *)
Die ==
    /\ lpc # "down"
    /\ Return("down")
    /\ size' = 0 /\ last' = NoText
    /\ open' = [r \in Rings |-> 0]
    /\ gapped' = IF lpc \in {"remove", "rename"} THEN gapped \cup {ring} ELSE gapped
    /\ split' = (split \/ lpc \in {"remove", "rename", "emitlog"}
                       \/ (ring = "err" /\ lpc \in {"find", "open"}))
    /\ UNCHANGED <<files, written, calls, starts>>

LoggerNext ==
    \/ log_init \/ log_string \/ FindFile \/ RemovePrev \/ RenameNext
    \/ OpenFile \/ OpenFails \/ Emit \/ EmitLog \/ Die

LoggerSpec == LoggerInit /\ [][LoggerNext]_logVars
---------------------------------------------------------------------------
(* Properties *)

Kept(r) == {i \in Files : files[r][i] # NoLog}

(* Read file by file, frs.1 first, a ring tells what happened in the order  *)
(* it happened - while and after files move down, and across restarts,      *)
(* unless a crash fell into the moving (move_log_file leaves a gap that is  *)
(* the first free file at the next start).  Two errors have the same number *)
(* when a crash kept the first out of the log.                              *)
RingsInOrder ==
    \A r \in Rings \ gapped : \A i, j \in Kept(r) :
        \A a \in DOMAIN files[r][i], b \in DOMAIN files[r][j] :
            /\ i < j => files[r][i][a].n <= files[r][j][b].n
            /\ i = j /\ a < b => files[r][i][a].n < files[r][i][b].n

(* The log keeps the latest lines: only the oldest file is ever given up.   *)
LogKeepsLatest ==
    "log" \notin gapped =>
        LET kept == UNION {{files["log"][i][a].n : a \in DOMAIN files["log"][i]} : i \in Kept("log")}
        IN  \A n \in kept : n = written \/ n + 1 \in kept

(* No log file outgrows the limit: log_init and log_string start counting   *)
(* at zero because the file they append to is always a new one, also after  *)
(* a crash in the middle of a rotation.  (In bytes: by less than a line,    *)
(* since the size is compared before the line is added.)                    *)
LogFileBounded ==
    \A i \in Kept("log") : Len(files["log"][i]) <= LOG_FILE_SIZE

(* Why: the inductive invariant behind the bound. *)

(* An open file is there, and what the open log file holds was counted. *)
OpenFilesExist ==
    \A r \in Rings : open[r] # 0 => files[r][open[r]] # NoLog

OpenLogCounted ==
    open["log"] # 0 => Len(files["log"][open["log"]]) <= size

(* No file of a ring is open while its files move. *)
ClosedInRotation ==
    \A r \in Rings :
        lpc = "down" \/ (ring = r /\ lpc \in {"find", "remove", "rename", "open"})
            => open[r] = 0

(* A line is written only after the size was compared with the limit, or    *)
(* set to zero by a rotation.                                               *)
RoomForLine ==
    lpc \in {"emit", "emitlog"} \/ (ring = "err" /\ lpc # "down") => size < LOG_FILE_SIZE

(* The file about to be opened is a new one. *)
OpenedIsNew ==
    /\ lpc = "open" => ~Exists(slot)
    /\ lpc \in {"remove", "rename"} => slot > 1

LoggerInv ==
    /\ LoggerTypeOK
    /\ OpenFilesExist
    /\ OpenLogCounted
    /\ ClosedInRotation
    /\ RoomForLine
    /\ OpenedIsNew
    /\ LogFileBounded

Lines(r, i) == {files[r][i][a] : a \in DOMAIN files[r][i]}

(* Error file j has the errors of log file i. *)
HasErrorsOf(j, i) == Lines("err", j) = {l \in Lines("log", i) : l.level = "error"}

(* The two rings move in step: whenever the logger can write, error file i  *)
(* has the errors of log file i, each once and in their order, unless a     *)
(* crash or a failed open came between the two rotations of log_string or   *)
(* log_init.                                                                *)
ErrorsMatchLog ==
    lpc = "idle" /\ open["log"] # 0 /\ ~split =>
        /\ Kept("err") = Kept("log")
        /\ \A i \in Kept("log") :
              /\ HasErrorsOf(i, i)
              /\ \A r \in Rings : \A a, b \in DOMAIN files[r][i] :
                    a < b => files[r][i][a].n < files[r][i][b].n

(* No log file repeats a line at once (the comparison with last_log_str).   *)
NoRepeatedLine ==
    \A i \in Kept("log") : \A a \in 1 .. Len(files["log"][i]) - 1 :
        files["log"][i][a].text # files["log"][i][a + 1].text
===========================================================================
