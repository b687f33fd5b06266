--------------------------- MODULE LoggerProofs ---------------------------
(***************************************************************************)
(* Proofs about Logger, for rings of any length, any limit, any texts and   *)
(* any number of lines, crashes and failed opens.                           *)
(***************************************************************************)
EXTENDS Logger, TLAPS

(* Writing one file of one ring leaves the rings well typed. *)
LEMMA SetFileType ==
    ASSUME LoggerTypeOK, NEW r \in Rings, NEW i \in Files,
           NEW c \in Seq(Line) \cup {NoLog}
    PROVE  [files EXCEPT ![r][i] = c] \in [Rings -> [Files -> Seq(Line) \cup {NoLog}]]
BY DEF LoggerTypeOK

(* A line appended to an existing file: what log_string writes is a line,   *)
(* and the file grows by one.                                               *)
LEMMA WithLineFacts ==
    ASSUME LoggerTypeOK, NEW r \in Rings,
           open[r] # 0 => files[r][open[r]] # NoLog
    PROVE  /\ WithLine(r) \in [Rings -> [Files -> Seq(Line) \cup {NoLog}]]
           /\ \A q \in Rings, i \in Files :
                 q # r \/ i # open[r] => WithLine(r)[q][i] = files[q][i]
           /\ open[r] # 0 =>
                 /\ WithLine(r)[r][open[r]] # NoLog
                 /\ Len(WithLine(r)[r][open[r]]) = Len(files[r][open[r]]) + 1
<1>1. CASE open[r] = 0
  BY <1>1 DEF WithLine, LoggerTypeOK
<1>2. CASE open[r] # 0
  <2> DEFINE c == Append(files[r][open[r]], NewLine)
  <2>1. open[r] \in Files
    BY <1>2 DEF LoggerTypeOK
  <2>2. files[r][open[r]] \in Seq(Line)
    BY <1>2, <2>1 DEF LoggerTypeOK
  <2>3. NewLine \in Line
    BY DEF NewLine, Line, LoggerTypeOK
  <2>4. c \in Seq(Line) /\ Len(c) = Len(files[r][open[r]]) + 1
    BY <2>2, <2>3
  <2>5. c # NoLog
    BY <2>4, LoggerAssumption
  <2>6. WithLine(r) = [files EXCEPT ![r][open[r]] = c]
    BY <1>2 DEF WithLine
  <2> HIDE DEF c
  <2>7. WithLine(r) \in [Rings -> [Files -> Seq(Line) \cup {NoLog}]]
    BY <2>1, <2>4, <2>6, SetFileType
  <2>8. \A q \in Rings, i \in Files :
          WithLine(r)[q][i] = IF q = r /\ i = open[r] THEN c ELSE files[q][i]
    BY <2>6 DEF LoggerTypeOK
  <2> QED BY <1>2, <2>1, <2>4, <2>5, <2>7, <2>8
<1> QED BY <1>1, <1>2

(* An error line touches no log file, whatever pf_log_err is. *)
LEMMA ErrLineFacts ==
    ASSUME LoggerTypeOK, OpenFilesExist
    PROVE  /\ WithLine("err") \in [Rings -> [Files -> Seq(Line) \cup {NoLog}]]
           /\ WithLine("err")["log"] = files["log"]
           /\ open["err"] # 0 => WithLine("err")["err"][open["err"]] # NoLog
<1>1. "err" \in Rings /\ "log" \in Rings
  BY DEF Rings
<1>2. open["err"] # 0 => files["err"][open["err"]] # NoLog
  BY <1>1 DEF OpenFilesExist
<1>3. /\ WithLine("err") \in [Rings -> [Files -> Seq(Line) \cup {NoLog}]]
      /\ open["err"] # 0 => WithLine("err")["err"][open["err"]] # NoLog
  BY <1>1, <1>2, WithLineFacts
<1>4. WithLine("err")["log"] = files["log"]
  BY <1>1 DEF WithLine, LoggerTypeOK
<1> QED BY <1>3, <1>4

---------------------------------------------------------------------------
LEMMA LoggerInitInv == LoggerInit => LoggerInv
<1> SUFFICES ASSUME LoggerInit PROVE LoggerInv
  OBVIOUS
<1>1. LoggerTypeOK
  <2>1. 1 \in Files
    BY LoggerAssumption DEF Files
  <2> QED
    BY <2>1, LoggerAssumption DEF LoggerInit, LoggerTypeOK, Rings, Levels
<1>2. Kept("log") = {}
  BY DEF LoggerInit, Kept, Rings
<1> QED
  BY <1>1, <1>2 DEF LoggerInit, LoggerInv, OpenFilesExist, OpenLogCounted, ClosedInRotation,
     RoomForLine, OpenedIsNew, LogFileBounded, Rings

(* Every step keeps the invariant. *)
LEMMA LoggerStepInv == LoggerInv /\ [LoggerNext]_logVars => LoggerInv'
<1> SUFFICES ASSUME LoggerInv, [LoggerNext]_logVars PROVE LoggerInv'
  OBVIOUS
<1> USE LoggerAssumption
<1>0. "log" \in Rings /\ "err" \in Rings /\ \A r \in Rings : r = "log" \/ r = "err"
  BY DEF Rings
<1>01. LoggerTypeOK
  BY DEF LoggerInv
<1>02. \A i \in Files : files["log"][i] \in Seq(Line) \cup {NoLog}
  BY <1>0, <1>01 DEF LoggerTypeOK
<1>1. CASE log_init
  BY <1>0, <1>1, <1>02 DEF log_init, LoggerInv, LoggerTypeOK, OpenFilesExist, OpenLogCounted,
     ClosedInRotation, RoomForLine, OpenedIsNew, LogFileBounded, Kept, Exists, Levels
<1>2. CASE log_string
  <2>1. /\ UNCHANGED <<files, size, last, slot, written, starts, gapped, split>>
        /\ text' \in Texts /\ level' \in Levels /\ calls' = calls + 1
        /\ \/ open' = [open EXCEPT !["log"] = 0] /\ lpc' = "find" /\ ring' = "log"
           \/ size < LOG_FILE_SIZE /\ lpc' = "emit" /\ UNCHANGED <<open, ring>>
    BY <1>2 DEF log_string
  <2>2. LoggerTypeOK'
    <3>1. open' \in [Rings -> Files \cup {0}] /\ ring' \in Rings /\ lpc' \in {"find", "emit"}
      BY <1>0, <1>01, <2>1 DEF LoggerTypeOK
    <3>2. text' \in Texts \cup {LogStart} /\ level' \in Levels \cup {"sys"} /\ calls' \in Nat
      BY <1>01, <2>1 DEF LoggerTypeOK
    <3> QED BY <1>01, <2>1, <3>1, <3>2 DEF LoggerTypeOK
  <2>3. open'["err"] = open["err"] /\ open'["log"] \in {0, open["log"]}
        /\ (lpc' = "find" => open'["log"] = 0)
    BY <1>0, <1>01, <2>1 DEF LoggerTypeOK
  <2>4. OpenFilesExist' /\ OpenLogCounted' /\ ClosedInRotation'
    BY <1>0, <2>1, <2>3 DEF LoggerInv, OpenFilesExist, OpenLogCounted, ClosedInRotation
  <2>5. RoomForLine' /\ OpenedIsNew'
    BY <1>0, <1>2, <2>1 DEF log_string, LoggerInv, RoomForLine, OpenedIsNew
  <2>6. LogFileBounded'
    BY <2>1 DEF LoggerInv, LogFileBounded, Kept
  <2> QED BY <2>2, <2>4, <2>5, <2>6 DEF LoggerInv
<1>3. CASE FindFile
  BY <1>0, <1>3, <1>02 DEF FindFile, LoggerInv, LoggerTypeOK, OpenFilesExist, OpenLogCounted, Files,
     ClosedInRotation, RoomForLine, OpenedIsNew, LogFileBounded, Kept, Exists
<1>4. CASE RemovePrev
  <2>1. slot - 1 \in Files /\ slot \in Files
    BY <1>4 DEF RemovePrev, LoggerInv, OpenedIsNew, LoggerTypeOK, Files
  <2>2. LoggerTypeOK'
    BY <1>4, <1>01, <2>1, SetFileType DEF RemovePrev, LoggerTypeOK
  <2>3. \A q \in Rings, i \in Files :
          files'[q][i] = IF q = ring /\ i = slot - 1 THEN NoLog ELSE files[q][i]
    BY <1>4, <1>01, <2>1 DEF RemovePrev, LoggerTypeOK
  <2> QED
    BY <1>0, <1>4, <1>02, <2>1, <2>2, <2>3 DEF RemovePrev, LoggerInv, LoggerTypeOK,
       OpenFilesExist, OpenLogCounted, ClosedInRotation, RoomForLine, OpenedIsNew, LogFileBounded,
       Kept, Exists
<1>5. CASE RenameNext
  <2>1. slot - 1 \in Files /\ slot \in Files /\ ring \in Rings
    BY <1>5 DEF RenameNext, LoggerInv, OpenedIsNew, LoggerTypeOK, Files
  <2>2. files[ring][slot] \in Seq(Line) \cup {NoLog}
    BY <1>01, <2>1 DEF LoggerTypeOK
  <2>3. \A q \in Rings, i \in Files :
          files'[q][i] = IF q = ring /\ i = slot THEN NoLog
                         ELSE IF q = ring /\ i = slot - 1 THEN files[ring][slot]
                         ELSE files[q][i]
    BY <1>5, <1>01, <2>1 DEF RenameNext, LoggerTypeOK, Files
  <2>4. files' \in [Rings -> [Files -> Seq(Line) \cup {NoLog}]]
    BY <1>5, <1>01, <2>1, <2>2 DEF RenameNext, LoggerTypeOK
  <2>5. slot' \in Files /\ lpc' \in {"remove", "open"}
        /\ (lpc' = "remove" => slot' = slot + 1) /\ (lpc' = "open" => slot' = slot)
    BY <1>5, <2>1 DEF RenameNext, Files
  <2>6. LoggerTypeOK'
    BY <1>5, <1>01, <2>4, <2>5 DEF RenameNext, LoggerTypeOK
  <2>7. lpc = "rename" /\ UNCHANGED <<open, ring, size>> /\ open[ring] = 0
    BY <1>5, <2>1 DEF RenameNext, LoggerInv, ClosedInRotation
  <2>8. OpenFilesExist'
    <3> SUFFICES ASSUME NEW r \in Rings, open[r] # 0 PROVE files'[r][open[r]] # NoLog
      BY <2>7 DEF OpenFilesExist
    <3>1. r # ring /\ open[r] \in Files
      BY <1>01, <2>7 DEF LoggerTypeOK
    <3> QED BY <3>1, <2>3 DEF LoggerInv, OpenFilesExist
  <2>9. OpenLogCounted'
    <3>1. CASE open["log"] = 0
      BY <3>1, <2>7 DEF OpenLogCounted
    <3>2. CASE open["log"] # 0
      BY <1>0, <1>01, <2>3, <2>7, <3>2 DEF LoggerInv, OpenLogCounted, LoggerTypeOK
    <3> QED BY <3>1, <3>2
  <2>10. ClosedInRotation' /\ RoomForLine'
    BY <2>5, <2>7 DEF LoggerInv, ClosedInRotation, RoomForLine
  <2>11. OpenedIsNew'
    BY <2>1, <2>3, <2>5, <2>7 DEF LoggerInv, OpenedIsNew, Exists, Files
  <2>12. LogFileBounded'
    BY <1>0, <2>1, <2>3 DEF LoggerInv, LogFileBounded, Kept
  <2> QED BY <2>6, <2>8, <2>9, <2>10, <2>11, <2>12 DEF LoggerInv
<1>6. CASE OpenFile
  <2>1. files[ring][slot] = NoLog /\ ring \in Rings /\ slot \in Files
    BY <1>6 DEF OpenFile, LoggerInv, OpenedIsNew, Exists, LoggerTypeOK
  <2>2. <<>> \in Seq(Line) /\ <<>> # NoLog /\ Len(<<>>) = 0
    <3>1. <<>> \in Seq(Line) /\ Len(<<>>) = 0
      OBVIOUS
    <3> QED BY <3>1
  <2>3. files' = [files EXCEPT ![ring][slot] = <<>>]
    BY <1>6, <1>01, <2>1 DEF OpenFile, LoggerTypeOK
  <2>4. \A q \in Rings, i \in Files :
          files'[q][i] = IF q = ring /\ i = slot THEN <<>> ELSE files[q][i]
    BY <1>01, <2>1, <2>3 DEF LoggerTypeOK
  <2>5. LoggerTypeOK'
    <3>1. files' \in [Rings -> [Files -> Seq(Line) \cup {NoLog}]]
      BY <1>01, <2>1, <2>2, <2>3, SetFileType
    <3>2. CASE ring = "log"
      <4>1. open' \in [Rings -> Files \cup {0}]
        BY <1>0, <1>01, <1>6, <2>1, <3>2 DEF OpenFile, LoggerTypeOK
      <4>2. size' = 0 /\ last' = NoText /\ ring' = "err" /\ lpc' = "find"
            /\ UNCHANGED <<slot, text, level, written, calls, starts, gapped, split>>
        BY <1>6, <3>2 DEF OpenFile
      <4> QED BY <1>0, <1>01, <3>1, <4>1, <4>2 DEF LoggerTypeOK
    <3>3. CASE ring = "err"
      <4>1. open' \in [Rings -> Files \cup {0}]
        BY <1>0, <1>01, <1>6, <2>1, <3>3 DEF OpenFile, LoggerTypeOK
      <4>2. UNCHANGED <<size, last, ring, slot, text, level, written, calls, starts, gapped, split>>
            /\ lpc' = "emit"
        BY <1>6, <3>3 DEF OpenFile
      <4> QED BY <1>01, <3>1, <4>1, <4>2 DEF LoggerTypeOK
    <3> QED BY <1>0, <2>1, <3>2, <3>3
  <2>6. lpc = "open" /\ open[ring] = 0
    BY <1>6, <2>1 DEF OpenFile, LoggerInv, ClosedInRotation
  <2>7. CASE ring = "log"
    <3>1. /\ open' = [open EXCEPT !["log"] = slot, !["err"] = 0]
          /\ size' = 0 /\ ring' = "err" /\ lpc' = "find"
      BY <1>6, <2>7 DEF OpenFile
    <3>2. open'["log"] = slot /\ open'["err"] = 0
      BY <1>0, <1>01, <3>1 DEF LoggerTypeOK
    <3>3. OpenFilesExist' /\ OpenLogCounted' /\ ClosedInRotation'
      <4>1. files'["log"][slot] = <<>>
        BY <1>0, <2>1, <2>4, <2>7
      <4>2. OpenFilesExist'
        BY <1>0, <2>2, <3>2, <4>1 DEF OpenFilesExist
      <4>3. OpenLogCounted'
        BY <2>2, <3>1, <3>2, <4>1 DEF OpenLogCounted
      <4>4. ClosedInRotation'
        BY <1>0, <3>1, <3>2 DEF ClosedInRotation
      <4> QED BY <4>2, <4>3, <4>4
    <3>4. RoomForLine' /\ OpenedIsNew'
      BY <3>1 DEF RoomForLine, OpenedIsNew
    <3>5. LogFileBounded'
      BY <1>0, <2>1, <2>2, <2>4, <2>7 DEF LoggerInv, LogFileBounded, Kept
    <3> QED BY <2>5, <3>3, <3>4, <3>5 DEF LoggerInv
  <2>8. CASE ring = "err"
    <3>1. open' = [open EXCEPT !["err"] = slot] /\ UNCHANGED <<size, ring>> /\ lpc' = "emit"
      BY <1>6, <2>8 DEF OpenFile
    <3>2. open'["log"] = open["log"] /\ open'["err"] = slot
      BY <1>0, <1>01, <3>1 DEF LoggerTypeOK
    <3>3. \A i \in Files : files'["log"][i] = files["log"][i]
      BY <1>0, <2>4, <2>8
    <3>4. open["log"] # 0 => open["log"] \in Files
      BY <1>0, <1>01 DEF LoggerTypeOK
    <3>5. OpenFilesExist' /\ OpenLogCounted'
      BY <1>0, <2>1, <2>2, <2>4, <2>8, <3>1, <3>2, <3>3, <3>4
         DEF LoggerInv, OpenFilesExist, OpenLogCounted
    <3>6. ClosedInRotation' /\ OpenedIsNew'
      BY <3>1 DEF ClosedInRotation, OpenedIsNew
    <3>7. RoomForLine'
      BY <2>6, <2>8, <3>1 DEF LoggerInv, RoomForLine
    <3>8. LogFileBounded'
      BY <3>3 DEF LoggerInv, LogFileBounded, Kept
    <3> QED BY <2>5, <3>5, <3>6, <3>7, <3>8 DEF LoggerInv
  <2> QED BY <1>0, <2>1, <2>7, <2>8
<1>7. CASE OpenFails
  <2>1. LoggerTypeOK'
    <3>1. CASE ring = "log"
      BY <1>0, <1>01, <1>7, <3>1 DEF OpenFails, Return, LoggerTypeOK, Files
    <3>2. CASE ring = "err"
      BY <1>0, <1>01, <1>7, <3>2 DEF OpenFails, LoggerTypeOK
    <3> QED BY <1>7, <3>1, <3>2 DEF OpenFails
  <2>2. UNCHANGED <<files, open, size>>
    BY <1>7 DEF OpenFails
  <2>3. OpenFilesExist' /\ OpenLogCounted' /\ LogFileBounded'
    BY <2>2 DEF LoggerInv, OpenFilesExist, OpenLogCounted, LogFileBounded, Kept
  <2> QED
    BY <1>0, <1>7, <2>1, <2>2, <2>3 DEF OpenFails, Return, LoggerInv,
       ClosedInRotation, RoomForLine, OpenedIsNew, Exists
<1>8. CASE Emit
  <2>1. UNCHANGED <<open, size, last, written, calls, starts, gapped, split>> /\ lpc = "emit"
    BY <1>8 DEF Emit
  <2>2. CASE text = last
    <3>1. UNCHANGED files /\ Return("idle")
      BY <1>8, <2>2 DEF Emit
    <3>2. LoggerTypeOK'
      BY <1>0, <1>01, <2>1, <3>1 DEF Return, LoggerTypeOK, Files
    <3>3. OpenFilesExist' /\ OpenLogCounted' /\ LogFileBounded'
      BY <2>1, <3>1 DEF LoggerInv, OpenFilesExist, OpenLogCounted, LogFileBounded, Kept
    <3> QED
      BY <2>1, <3>1, <3>2, <3>3 DEF Return, LoggerInv, ClosedInRotation, RoomForLine, OpenedIsNew
  <2>3. CASE text # last
    <3>1. UNCHANGED <<ring, slot, text, level>> /\ lpc' = "emitlog"
          /\ files' = (IF level = "error" THEN WithLine("err") ELSE files)
      BY <1>8, <2>3 DEF Emit
    <3>2. /\ WithLine("err") \in [Rings -> [Files -> Seq(Line) \cup {NoLog}]]
          /\ WithLine("err")["log"] = files["log"]
          /\ open["err"] # 0 => WithLine("err")["err"][open["err"]] # NoLog
      BY <1>01, ErrLineFacts DEF LoggerInv
    <3>3. files' \in [Rings -> [Files -> Seq(Line) \cup {NoLog}]] /\ files'["log"] = files["log"]
      <4>1. files \in [Rings -> [Files -> Seq(Line) \cup {NoLog}]]
        BY <1>01 DEF LoggerTypeOK
      <4>2. CASE level = "error"
        BY <3>1, <3>2, <4>2
      <4>3. CASE level # "error"
        BY <3>1, <4>1, <4>3
      <4> QED BY <4>2, <4>3
    <3>4. LoggerTypeOK'
      BY <1>01, <2>1, <3>1, <3>3 DEF LoggerTypeOK
    <3>5. OpenLogCounted' /\ LogFileBounded'
      BY <2>1, <3>3 DEF LoggerInv, OpenLogCounted, LogFileBounded, Kept
    <3>6. OpenFilesExist'
      BY <1>0, <2>1, <3>1, <3>2, <3>3 DEF LoggerInv, OpenFilesExist
    <3> QED
      BY <2>1, <3>1, <3>4, <3>5, <3>6 DEF LoggerInv, ClosedInRotation, RoomForLine, OpenedIsNew
  <2> QED BY <2>2, <2>3
<1>9. CASE EmitLog
  <2>1. /\ UNCHANGED <<open, calls, starts, gapped, split>> /\ Return("idle")
        /\ files' = WithLine("log") /\ size' = size + 1 /\ last' = text
        /\ written' \in {written, written + 1}
    BY <1>9 DEF EmitLog
  <2>2. open["log"] # 0 => files["log"][open["log"]] # NoLog
    BY <1>0 DEF LoggerInv, OpenFilesExist
  <2>3. /\ files' \in [Rings -> [Files -> Seq(Line) \cup {NoLog}]]
        /\ \A i \in Files : i # open["log"] => files'["log"][i] = files["log"][i]
        /\ open["log"] # 0 =>
              /\ files'["log"][open["log"]] # NoLog
              /\ Len(files'["log"][open["log"]]) = Len(files["log"][open["log"]]) + 1
    BY <1>0, <1>01, <2>1, <2>2, WithLineFacts
  <2>4. LoggerTypeOK'
    BY <1>0, <1>01, <2>1, <2>3 DEF Return, LoggerTypeOK, Files
  <2>5. size < LOG_FILE_SIZE /\ size \in Nat
    BY <1>9 DEF EmitLog, LoggerInv, RoomForLine, LoggerTypeOK
  <2>6. open["log"] # 0 =>
          /\ open["log"] \in Files /\ files["log"][open["log"]] \in Seq(Line)
          /\ Len(files["log"][open["log"]]) <= size
    BY <1>0, <1>01, <2>2 DEF LoggerInv, OpenFilesExist, OpenLogCounted, LoggerTypeOK
  <2>7. OpenLogCounted' /\ OpenFilesExist'
    <3>1. OpenLogCounted'
      BY <2>1, <2>3, <2>5, <2>6 DEF OpenLogCounted
    <3>2. files'["err"] = files["err"]
      BY <1>0, <1>01, <2>1 DEF WithLine, LoggerTypeOK
    <3> QED
      BY <1>0, <2>1, <2>3, <3>1, <3>2 DEF LoggerInv, OpenFilesExist
  <2>8. ASSUME NEW i \in Kept("log")' PROVE Len(files'["log"][i]) <= LOG_FILE_SIZE
    <3>1. CASE i = open["log"]
      <4>1. open["log"] # 0
        BY <3>1 DEF Kept, Files
      <4> QED BY <3>1, <4>1, <2>3, <2>5, <2>6
    <3>2. CASE i # open["log"]
      BY <3>2, <2>3 DEF Kept, LoggerInv, LogFileBounded
    <3> QED BY <3>1, <3>2
  <2>9. LogFileBounded'
    BY <2>8 DEF LogFileBounded
  <2> QED
    BY <2>1, <2>4, <2>7, <2>9 DEF Return, LoggerInv, ClosedInRotation, RoomForLine, OpenedIsNew
<1>10. CASE Die
  BY <1>0, <1>10, <1>02 DEF Die, Return, LoggerInv, LoggerTypeOK, OpenFilesExist, OpenLogCounted, Files,
     ClosedInRotation, RoomForLine, OpenedIsNew, LogFileBounded, Kept, Exists
<1>11. CASE UNCHANGED logVars
  BY <1>0, <1>11, <1>02 DEF logVars, LoggerInv, LoggerTypeOK, OpenFilesExist, OpenLogCounted,
     ClosedInRotation, RoomForLine, OpenedIsNew, LogFileBounded, Kept, Exists
<1> QED
  BY <1>1, <1>2, <1>3, <1>4, <1>5, <1>6, <1>7, <1>8, <1>9, <1>10, <1>11 DEF LoggerNext

---------------------------------------------------------------------------
(* The invariant that explains the bound holds throughout. *)
THEOREM LoggerInvariant == LoggerSpec => []LoggerInv
<1>1. LoggerInit => LoggerInv
  BY LoggerInitInv
<1>2. LoggerInv /\ [LoggerNext]_logVars => LoggerInv'
  BY LoggerStepInv
<1> QED BY <1>1, <1>2, PTL DEF LoggerSpec

(* The variables of the logger keep their types. *)
THEOREM LoggerTypeCorrect == LoggerSpec => []LoggerTypeOK
<1>1. LoggerInv => LoggerTypeOK
  BY DEF LoggerInv
<1> QED BY <1>1, LoggerInvariant, PTL

(* No log file outgrows LOG_FILE_SIZE, however often log_init and           *)
(* log_string are interrupted by a crash or find that fopen fails.          *)
THEOREM LoggerBounded == LoggerSpec => []LogFileBounded
<1>1. LoggerInv => LogFileBounded
  BY DEF LoggerInv
<1> QED BY <1>1, LoggerInvariant, PTL
===========================================================================
