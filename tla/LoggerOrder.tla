---------------------------- MODULE LoggerOrder ----------------------------
(***************************************************************************)
(* Proofs about Logger: what the rings of files tell, and in which order,   *)
(* for rings of any length and any number of lines, crashes and failed      *)
(* opens.                                                                   *)
(***************************************************************************)
EXTENDS LoggerProofs

(* Lines are numbered as they are written.  An error has the number its     *)
(* line gets in the log, which follows unless the process dies.             *)
LinesNumbered ==
    /\ \A i \in Kept("log") : \A a \in DOMAIN files["log"][i] : files["log"][i][a].n <= written
    /\ \A i \in Kept("err") : \A a \in DOMAIN files["err"][i] :
          /\ files["err"][i][a].n <= written + 1
          /\ i = open["err"] /\ lpc # "emitlog" => files["err"][i][a].n <= written

(* An error file is open without a log file only while the log is full, so  *)
(* no error is written without its line in the log.                         *)
ErrNeedsLog ==
    /\ open["err"] # 0 /\ open["log"] = 0 => size >= LOG_FILE_SIZE
    /\ ring = "err" => open["log"] # 0

(* A ring is filled from the front, and the open file is its last one; when *)
(* its files move there is one gap, which moves up to the file to open.     *)
RingShape(r) ==
    /\ open[r] # 0 => \A i \in Kept(r) : i <= open[r]
    /\ ring = r /\ lpc = "remove" => \A i \in Files : i \in Kept(r) <=> slot = 2 \/ i # slot - 1
    /\ ring = r /\ lpc = "rename" => \A i \in Files : i \in Kept(r) <=> i # slot - 1
    /\ ring = r /\ lpc = "open" => \A i \in Files : i \in Kept(r) <=> i < slot
    /\ \/ ring = r /\ lpc \in {"remove", "rename"}
       \/ \A i \in Kept(r), j \in Files : j < i => j \in Kept(r)

RingsShaped == \A r \in Rings \ gapped : RingShape(r)

(* last_log_str is the last line of the open log file, and the line about   *)
(* to be written differs from it.                                           *)
LastIsKnown ==
    /\ open["log"] # 0 /\ files["log"][open["log"]] # <<>> =>
          files["log"][open["log"]][Len(files["log"][open["log"]])].text = last
    /\ lpc = "emitlog" => text # last

OrderInv ==
    /\ LoggerInv
    /\ LinesNumbered /\ ErrNeedsLog /\ RingsShaped /\ LastIsKnown
    /\ RingsInOrder /\ LogKeepsLatest /\ NoRepeatedLine

---------------------------------------------------------------------------
(* The log has a line with number k. *)
Logged(k) ==
    \E i \in Kept("log") : \E a \in DOMAIN files["log"][i] : files["log"][i][a].n = k

(* LogKeepsLatest in these words, now and after a step. *)
LEMMA KeepsLatestMeans ==
    LogKeepsLatest <=> ("log" \notin gapped => \A k : Logged(k) => k = written \/ Logged(k + 1))
<1> DEFINE kept == UNION {{files["log"][i][a].n : a \in DOMAIN files["log"][i]} : i \in Kept("log")}
<1>1. \A k : k \in kept <=> Logged(k)
  BY DEF Logged
<1>2. LogKeepsLatest <=> ("log" \notin gapped => \A k \in kept : k = written \/ k + 1 \in kept)
  BY DEF LogKeepsLatest
<1> HIDE DEF kept
<1> QED BY <1>1, <1>2

LEMMA KeepsLatestNext ==
    LogKeepsLatest' <=> ("log" \notin gapped' => \A k : Logged(k)' => k = written' \/ Logged(k + 1)')
<1> DEFINE kept == UNION {{files'["log"][i][a].n : a \in DOMAIN files'["log"][i]} : i \in Kept("log")'}
<1>1. \A k : k \in kept <=> Logged(k)'
  BY DEF Logged
<1>2. LogKeepsLatest' <=> ("log" \notin gapped' => \A k \in kept : k = written' \/ k + 1 \in kept)
  BY DEF LogKeepsLatest
<1> HIDE DEF kept
<1> QED BY <1>1, <1>2

LEMMA RingFacts ==
    /\ "log" \in Rings /\ "err" \in Rings /\ "log" # "err"
    /\ \A r \in Rings : r = "log" \/ r = "err"
    /\ 1 \in Files /\ 2 \in Files /\ Files \subseteq Nat /\ 0 \notin Files
BY LoggerAssumption DEF Rings, Files

(* What a kept file holds. *)
LEMMA KeptFacts ==
    ASSUME LoggerTypeOK, NEW r \in Rings, NEW i \in Kept(r)
    PROVE  /\ i \in Files /\ files[r][i] # NoLog /\ files[r][i] \in Seq(Line)
           /\ Len(files[r][i]) \in Nat /\ DOMAIN files[r][i] = 1 .. Len(files[r][i])
           /\ \A a \in DOMAIN files[r][i] : files[r][i][a] \in Line /\ files[r][i][a].n \in Nat
<1>1. i \in Files /\ files[r][i] # NoLog /\ files[r][i] \in Seq(Line)
  BY DEF Kept, LoggerTypeOK
<1>2. \A l \in Line : l.n \in Nat
  BY DEF Line
<1> QED BY <1>1, <1>2

(* What only looks at the files. *)
LEMMA SameFiles ==
    ASSUME RingsInOrder, LogKeepsLatest, NoRepeatedLine,
           files' = files, written' = written, gapped \subseteq gapped'
    PROVE  RingsInOrder' /\ LogKeepsLatest' /\ NoRepeatedLine'
<1>1. \A r : Kept(r)' = Kept(r)
  BY DEF Kept
<1> QED BY <1>1 DEF RingsInOrder, LogKeepsLatest, NoRepeatedLine, Kept

(* The files of a ring that is not the one being rotated, or of both when   *)
(* nothing is rotated, keep their shape while nothing is opened.            *)
LEMMA SameShape ==
    ASSUME NEW r \in Rings, RingShape(r),
           \A i \in Files : i \in Kept(r)' <=> i \in Kept(r),
           open'[r] \in {0, open[r]},
           ~(ring' = r /\ lpc' \in {"remove", "rename", "open"}),
           ~(ring = r /\ lpc \in {"remove", "rename"})
    PROVE  RingShape(r)'
<1>1. Kept(r)' \subseteq Files /\ Kept(r) \subseteq Files
  BY DEF Kept
<1> QED BY <1>1 DEF RingShape

LEMMA OrderInitInv == LoggerInit => OrderInv
<1> SUFFICES ASSUME LoggerInit PROVE OrderInv
  OBVIOUS
<1>1. LoggerInv
  BY LoggerInitInv
<1>2. \A r \in Rings : Kept(r) = {}
  BY DEF LoggerInit, Kept
<1>3. LinesNumbered /\ RingsInOrder /\ NoRepeatedLine
  BY <1>2, RingFacts DEF LinesNumbered, RingsInOrder, NoRepeatedLine
<1>4. LogKeepsLatest
  BY <1>2, RingFacts, KeepsLatestMeans DEF Logged
<1>5. RingsShaped
  BY <1>2 DEF RingsShaped, RingShape, LoggerInit
<1>6. ErrNeedsLog /\ LastIsKnown
  BY RingFacts DEF ErrNeedsLog, LastIsKnown, LoggerInit
<1> QED BY <1>1, <1>3, <1>4, <1>5, <1>6 DEF OrderInv

---------------------------------------------------------------------------
(* Steps that touch no file. *)
LEMMA OrderQuiet ==
    ASSUME OrderInv, LoggerInv',
           log_init \/ log_string \/ FindFile \/ OpenFails \/ Die
    PROVE  OrderInv'
<1> USE LoggerAssumption
<1>1. LoggerTypeOK /\ files' = files /\ written' = written /\ gapped \subseteq gapped'
  BY DEF OrderInv, LoggerInv, log_init, log_string, FindFile, OpenFails, Die
<1>2. RingsInOrder' /\ LogKeepsLatest' /\ NoRepeatedLine'
  BY <1>1, SameFiles DEF OrderInv
<1>3. \A r : Kept(r)' = Kept(r)
  BY <1>1 DEF Kept
<1>4. /\ open'["log"] \in {0, open["log"]} /\ open'["err"] \in {0, open["err"]}
      /\ lpc' # "emitlog"
  BY <1>1, RingFacts DEF LoggerTypeOK, log_init, log_string, FindFile, OpenFails, Die, Return
<1>5. LinesNumbered'
  <2>1. \A i \in Kept("err") : \A a \in DOMAIN files["err"][i] :
          i = open'["err"] => i = open["err"] /\ lpc # "emitlog"
    <3>1. lpc = "emitlog" => open'["err"] = 0
      BY RingFacts DEF log_init, log_string, FindFile, OpenFails, Die
    <3>2. \A i \in Kept("err") : i # 0
      BY RingFacts DEF Kept
    <3> QED BY <1>4, <3>1, <3>2
  <2> QED BY <1>1, <1>3, <2>1 DEF OrderInv, LinesNumbered
<1>6. CASE log_init
  <2>1. /\ lpc = "down" /\ size' = 1 /\ last' = Started /\ lpc' = "find" /\ ring' = "log"
        /\ UNCHANGED <<files, open, gapped>>
    BY <1>6 DEF log_init
  <2>2. open["log"] = 0 /\ open["err"] = 0
    BY <2>1, RingFacts DEF OrderInv, LoggerInv, ClosedInRotation
  <2>3. ErrNeedsLog' /\ LastIsKnown'
    BY <2>1, <2>2 DEF ErrNeedsLog, LastIsKnown
  <2>4. RingsShaped'
    BY <1>3, <2>1, SameShape DEF OrderInv, RingsShaped
  <2> QED BY <1>2, <1>5, <2>3, <2>4 DEF OrderInv
<1>7. CASE log_string
  <2>1. /\ lpc = "idle" /\ UNCHANGED <<files, size, last, gapped>>
        /\ \/ size >= LOG_FILE_SIZE /\ open' = [open EXCEPT !["log"] = 0] /\ lpc' = "find" /\ ring' = "log"
           \/ size < LOG_FILE_SIZE /\ lpc' = "emit" /\ UNCHANGED <<open, ring>>
    BY <1>7 DEF log_string
  <2>2. \/ open'["log"] = 0 /\ open'["err"] = open["err"] /\ size >= LOG_FILE_SIZE /\ ring' = "log"
        \/ UNCHANGED <<open, ring>>
    BY <1>1, <2>1, RingFacts DEF LoggerTypeOK
  <2>3. ErrNeedsLog'
    BY <2>1, <2>2 DEF OrderInv, ErrNeedsLog
  <2>4. LastIsKnown'
    BY <1>4, <2>1 DEF OrderInv, LastIsKnown
  <2>5. RingsShaped'
    BY <1>3, <1>4, <2>1, SameShape, RingFacts DEF OrderInv, RingsShaped
  <2> QED BY <1>2, <1>5, <2>3, <2>4, <2>5 DEF OrderInv
<1>8. CASE FindFile
  <2>1. /\ lpc = "find" /\ UNCHANGED <<files, open, size, last, ring, gapped>>
        /\ slot' \in Files /\ lpc' \in {"open", "remove"}
        /\ lpc' = "open" => ~Exists(slot') /\ \A j \in 1 .. slot' - 1 : Exists(j)
        /\ lpc' = "remove" => slot' = 2 /\ \A i \in Files : Exists(i)
    BY <1>8, RingFacts DEF FindFile
  <2>2. ErrNeedsLog' /\ LastIsKnown'
    BY <2>1 DEF OrderInv, ErrNeedsLog, LastIsKnown
  <2>3. ASSUME NEW r \in Rings, r \notin gapped' PROVE RingShape(r)'
    <3>0. RingShape(r)
      BY <2>1, <2>3 DEF OrderInv, RingsShaped
    <3>1. CASE ring # r
      BY <1>3, <1>4, <2>1, <3>0, <3>1, SameShape, RingFacts
    <3>2. CASE ring = r
      <4>1. \A i \in Files : Exists(i) <=> i \in Kept(r)
        BY <3>2 DEF Exists, Kept
      <4>2. open[r] # 0 => \A i \in Kept(r) : i <= open[r]
        BY <3>0 DEF RingShape
      <4>3. \A i \in Kept(r), j \in Files : j < i => j \in Kept(r)
        BY <2>1, <3>0 DEF RingShape
      <4>4. Kept(r) \subseteq Files
        BY DEF Kept
      <4>5. lpc' = "open" => \A i \in Files : i \in Kept(r) <=> i < slot'
        <5> SUFFICES ASSUME lpc' = "open", NEW i \in Files PROVE i \in Kept(r) <=> i < slot'
          OBVIOUS
        <5> DEFINE k == slot'
        <5>1. k \in Files /\ k \notin Kept(r) /\ \A j \in 1 .. k - 1 : Exists(j)
          BY <2>1, <4>1
        <5> HIDE DEF k
        <5>2. i \in Nat /\ k \in Nat /\ i >= 1 /\ (i < k => i \in 1 .. k - 1)
          BY <5>1 DEF Files
        <5>3. i < k => i \in Kept(r)
          BY <4>1, <5>1, <5>2
        <5>4. i \in Kept(r) => ~(k < i) /\ i # k
          BY <4>3, <5>1
        <5>5. i \in Kept(r) <=> i < k
          BY <5>2, <5>3, <5>4
        <5> QED BY <5>5 DEF k
      <4> QED BY <1>3, <2>1, <4>1, <4>2, <4>3, <4>5 DEF RingShape
    <3> QED BY <3>1, <3>2
  <2>4. RingsShaped'
    BY <2>3 DEF RingsShaped
  <2> QED BY <1>2, <1>5, <2>2, <2>4 DEF OrderInv
<1>9. CASE OpenFails
  <2>1. /\ lpc = "open" /\ UNCHANGED <<open, size, last, gapped>>
        /\ lpc' \in {"idle", "emit"} /\ ring' \in {"log", ring}
    BY <1>9 DEF OpenFails, Return
  <2>2. ErrNeedsLog' /\ LastIsKnown'
    BY <1>1, <2>1 DEF OrderInv, ErrNeedsLog, LastIsKnown
  <2>3. RingsShaped'
    BY <1>3, <2>1, SameShape DEF OrderInv, RingsShaped
  <2> QED BY <1>2, <1>5, <2>2, <2>3 DEF OrderInv
<1>10. CASE Die
  <2>1. /\ lpc' = "down" /\ ring' = "log" /\ open' = [r \in Rings |-> 0]
        /\ gapped' = (IF lpc \in {"remove", "rename"} THEN gapped \cup {ring} ELSE gapped)
    BY <1>10 DEF Die, Return
  <2>2. ErrNeedsLog' /\ LastIsKnown'
    BY <2>1, RingFacts DEF ErrNeedsLog, LastIsKnown
  <2>3. RingsShaped'
    BY <1>3, <2>1, SameShape DEF OrderInv, RingsShaped
  <2> QED BY <1>2, <1>5, <2>2, <2>3 DEF OrderInv
<1> QED BY <1>6, <1>7, <1>8, <1>9, <1>10

---------------------------------------------------------------------------
(* Rotation *)

(* Kept files that move, if at all, without overtaking each other.          *)
LEMMA FilesMove ==
    ASSUME OrderInv, NEW from,
           written' = written, gapped' = gapped, open' = open, lpc # "emitlog",
           \A r \in Rings : \A i \in Kept(r)' :
              /\ from[r][i] \in Kept(r) /\ files'[r][i] = files[r][from[r][i]]
              /\ i = open[r] => from[r][i] = i,
           \A r \in Rings : \A i, j \in Kept(r)' :
              /\ i < j => from[r][i] < from[r][j]
    PROVE  LinesNumbered' /\ RingsInOrder' /\ NoRepeatedLine'
<1>1. LinesNumbered'
  BY RingFacts DEF OrderInv, LinesNumbered
<1>2. NoRepeatedLine'
  BY SMTT(30), RingFacts DEF OrderInv, NoRepeatedLine
<1>3. RingsInOrder'
  <2> SUFFICES ASSUME NEW r \in Rings, r \notin gapped, NEW i \in Kept(r)', NEW j \in Kept(r)',
                      NEW a \in DOMAIN files'[r][i], NEW b \in DOMAIN files'[r][j]
               PROVE  /\ i < j => files'[r][i][a].n <= files'[r][j][b].n
                      /\ i = j /\ a < b => files'[r][i][a].n < files'[r][i][b].n
    BY DEF RingsInOrder
  <2>1. /\ files'[r][i] = files[r][from[r][i]] /\ from[r][i] \in Kept(r)
        /\ files'[r][j] = files[r][from[r][j]] /\ from[r][j] \in Kept(r)
        /\ i < j => from[r][i] < from[r][j]
    OBVIOUS
  <2> QED BY <2>1 DEF OrderInv, RingsInOrder
<1> QED BY <1>1, <1>2, <1>3

(* The files of the ring being rotated while the other one stays. *)
LEMMA RotationFrame ==
    ASSUME OrderInv, lpc \in {"remove", "rename", "open"},
           \A q \in Rings : q # ring => files'[q] = files[q],
           UNCHANGED <<open, size, last, ring, text, gapped>>, lpc' # "emitlog",
           ring \notin gapped => RingShape(ring)'
    PROVE  ErrNeedsLog' /\ LastIsKnown' /\ RingsShaped'
<1>1. LoggerTypeOK /\ ring \in Rings /\ open[ring] = 0
  BY DEF OrderInv, LoggerInv, LoggerTypeOK, ClosedInRotation
<1>2. ErrNeedsLog'
  BY DEF OrderInv, ErrNeedsLog
<1>3. LastIsKnown'
  <2>1. open["log"] # 0 => files'["log"] = files["log"]
    BY <1>1, RingFacts
  <2> QED BY <2>1 DEF OrderInv, LastIsKnown
<1>4. ASSUME NEW r \in Rings, r \notin gapped, r # ring PROVE RingShape(r)'
  <2>1. RingShape(r) /\ Kept(r)' = Kept(r)
    BY <1>4 DEF OrderInv, RingsShaped, Kept
  <2> QED BY <1>4, <2>1, SameShape
<1> QED BY <1>1, <1>2, <1>3, <1>4 DEF RingsShaped

LEMMA OrderRemovePrev ==
    ASSUME OrderInv, LoggerInv', RemovePrev
    PROVE  OrderInv'
<1>1. LoggerTypeOK /\ ring \in Rings /\ slot \in Files /\ slot > 1
  BY DEF OrderInv, LoggerInv, LoggerTypeOK, RemovePrev, OpenedIsNew
<1>2. slot - 1 \in Files /\ slot \in Nat
  BY <1>1, LoggerAssumption DEF Files
<1>3. /\ lpc = "remove" /\ lpc' = "rename" /\ files' = [files EXCEPT ![ring][slot - 1] = NoLog]
      /\ UNCHANGED <<open, size, last, ring, slot, text, written, gapped>>
  BY DEF RemovePrev
<1>4. \A q \in Rings, i \in Files :
        files'[q][i] = IF q = ring /\ i = slot - 1 THEN NoLog ELSE files[q][i]
  BY <1>1, <1>2, <1>3 DEF LoggerTypeOK
<1>5. \A r \in Rings, i \in Files :
        /\ i \in Kept(r)' <=> i \in Kept(r) /\ ~(r = ring /\ i = slot - 1)
        /\ i \in Kept(r)' => files'[r][i] = files[r][i]
  BY <1>4 DEF Kept
<1>6. LinesNumbered' /\ RingsInOrder' /\ NoRepeatedLine'
  <2> DEFINE from == [r \in Rings |-> [i \in Files |-> i]]
  <2>1. \A r \in Rings, i \in Files : from[r][i] = i
    OBVIOUS
  <2>2. \A r \in Rings : Kept(r)' \subseteq Files
    BY DEF Kept
  <2> HIDE DEF from
  <2>3. \A r \in Rings : \A i \in Kept(r)' :
           /\ from[r][i] \in Kept(r) /\ files'[r][i] = files[r][from[r][i]]
           /\ i = open[r] => from[r][i] = i
    BY <1>5, <2>1, <2>2
  <2>4. \A r \in Rings : \A i, j \in Kept(r)' : i < j => from[r][i] < from[r][j]
    BY <2>1, <2>2
  <2> QED BY <1>3, <2>3, <2>4, FilesMove
<1>7. ASSUME ring \notin gapped PROVE RingShape(ring)'
  <2>1. \A i \in Files : i \in Kept(ring) <=> slot = 2 \/ i # slot - 1
    BY <1>1, <1>3, <1>7 DEF OrderInv, RingsShaped, RingShape
  <2>2. \A i \in Files : i \in Kept(ring)' <=> i # slot - 1
    BY <1>1, <1>3, <1>5, <2>1
  <2>3. open'[ring'] = 0
    BY <1>1, <1>3 DEF OrderInv, LoggerInv, ClosedInRotation
  <2> QED BY <1>3, <2>2, <2>3 DEF RingShape, Kept
<1>8. ErrNeedsLog' /\ LastIsKnown' /\ RingsShaped'
  <2>1. \A q \in Rings : q # ring => files'[q] = files[q]
    BY <1>1, <1>3 DEF LoggerTypeOK
  <2> QED BY <1>3, <1>7, <2>1, RotationFrame
<1>9. LogKeepsLatest'
  <2> SUFFICES ASSUME "log" \notin gapped, NEW k, Logged(k)', k # written
               PROVE  Logged(k + 1)'
    BY <1>3, KeepsLatestNext
  <2>0. PICK i \in Kept("log")' : \E a \in DOMAIN files'["log"][i] : files'["log"][i][a].n = k
    BY DEF Logged
  <2>1. PICK a \in DOMAIN files'["log"][i] : files'["log"][i][a].n = k
    BY <2>0
  <2>2. i \in Kept("log") /\ i \in Files /\ files'["log"][i] = files["log"][i]
        /\ ~("log" = ring /\ i = slot - 1)
    BY <1>5, RingFacts DEF Kept
  <2>3. Logged(k)
    BY <2>1, <2>2 DEF Logged
  <2>4. Logged(k + 1)
    BY <2>3, KeepsLatestMeans DEF OrderInv
  <2>41. PICK j \in Kept("log") : \E b \in DOMAIN files["log"][j] : files["log"][j][b].n = k + 1
    BY <2>4 DEF Logged
  <2>5. PICK b \in DOMAIN files["log"][j] : files["log"][j][b].n = k + 1
    BY <2>41
  <2>6. j \in Files
    BY DEF Kept
  <2>7. CASE "log" = ring /\ j = slot - 1
    <3>1. slot = 2
      BY <1>1, <1>3, <2>6, <2>7 DEF OrderInv, RingsShaped, RingShape
    <3>2. j < i
      BY <1>2, <2>2, <2>7, <3>1 DEF Files
    <3>3. files["log"][j][b].n <= files["log"][i][a].n
      BY <2>1, <2>2, <2>5, <3>2, RingFacts DEF OrderInv, RingsInOrder
    <3>4. k \in Nat
      BY <1>1, <2>1, <2>2, KeptFacts, RingFacts
    <3>5. k + 1 <= k
      BY <2>1, <2>2, <2>5, <3>3
    <3> QED BY <3>4, <3>5
  <2>8. CASE ~("log" = ring /\ j = slot - 1)
    <3>1. j \in Kept("log")' /\ files'["log"][j] = files["log"][j]
      BY <1>5, <2>6, <2>8, RingFacts
    <3> QED BY <2>5, <3>1 DEF Logged
  <2> QED BY <2>7, <2>8
<1> QED BY <1>6, <1>8, <1>9 DEF OrderInv

LEMMA OrderRenameNext ==
    ASSUME OrderInv, LoggerInv', RenameNext
    PROVE  OrderInv'
<1>1. LoggerTypeOK /\ ring \in Rings /\ slot \in Files /\ slot > 1
  BY DEF OrderInv, LoggerInv, LoggerTypeOK, RenameNext, OpenedIsNew
<1>2. slot - 1 \in Files /\ slot \in Nat /\ slot - 1 < slot
  BY <1>1, LoggerAssumption DEF Files
<1>3. /\ lpc = "rename"
      /\ files' = [files EXCEPT ![ring][slot - 1] = files[ring][slot], ![ring][slot] = NoLog]
      /\ \/ slot < MAX_LOOP_FILE /\ slot' = slot + 1 /\ lpc' = "remove"
         \/ ~(slot < MAX_LOOP_FILE) /\ slot' = slot /\ lpc' = "open"
      /\ UNCHANGED <<open, size, last, ring, text, written, gapped>>
  BY DEF RenameNext
<1>4. \A q \in Rings, i \in Files :
        /\ q # ring \/ (i # slot /\ i # slot - 1) => files'[q][i] = files[q][i]
        /\ q = ring /\ i = slot => files'[q][i] = NoLog
        /\ q = ring /\ i = slot - 1 => files'[q][i] = files[ring][slot]
  BY <1>1, <1>2, <1>3 DEF LoggerTypeOK
<1>5. open[ring] = 0 /\ open'[ring'] = 0
  BY <1>1, <1>3 DEF OrderInv, LoggerInv, ClosedInRotation
<1>51. \A r \in Rings : Kept(r)' \subseteq Files /\ Kept(r) \subseteq Files
  BY DEF Kept
<1>6. LinesNumbered' /\ RingsInOrder' /\ NoRepeatedLine'
  <2> DEFINE from == [r \in Rings |-> [i \in Files |-> IF r = ring /\ i = slot - 1 THEN slot ELSE i]]
  <2>1. \A r \in Rings, i \in Files :
          /\ r = ring /\ i = slot - 1 => from[r][i] = slot
          /\ ~(r = ring /\ i = slot - 1) => from[r][i] = i
    OBVIOUS
  <2> HIDE DEF from
  <2>3. ASSUME NEW r \in Rings, NEW i \in Kept(r)'
        PROVE  /\ i \in Files /\ ~(r = ring /\ i = slot)
               /\ from[r][i] \in Kept(r) /\ files'[r][i] = files[r][from[r][i]]
               /\ i = open[r] => from[r][i] = i
    <3>1. i \in Files /\ files'[r][i] # NoLog
      BY DEF Kept
    <3>2. CASE r = ring /\ i = slot - 1
      <4>1. from[r][i] = slot /\ files'[r][i] = files[r][slot]
        BY <1>4, <2>1, <3>1, <3>2
      <4>2. i # open[r] /\ i # slot
        BY <1>2, <1>5, <3>1, <3>2, RingFacts
      <4> QED BY <1>1, <3>1, <4>1, <4>2 DEF Kept
    <3>3. CASE ~(r = ring /\ i = slot - 1)
      <4>1. from[r][i] = i
        BY <2>1, <3>1, <3>3
      <4>2. ~(r = ring /\ i = slot)
        BY <1>4, <3>1
      <4>3. files'[r][i] = files[r][i]
        BY <1>4, <3>1, <3>3, <4>2
      <4> QED BY <3>1, <4>1, <4>2, <4>3 DEF Kept
    <3> QED BY <3>2, <3>3
  <2>4. ASSUME NEW r \in Rings, NEW i \in Kept(r)', NEW j \in Kept(r)', i < j
        PROVE  from[r][i] < from[r][j]
    <3>1. i \in Files /\ j \in Files /\ ~(r = ring /\ i = slot) /\ ~(r = ring /\ j = slot)
      BY <2>3
    <3>2. i \in Nat /\ j \in Nat
      BY <3>1, RingFacts
    <3> QED BY <1>2, <2>1, <2>4, <3>1, <3>2
  <2>5. \A r \in Rings : \A i \in Kept(r)' :
           /\ from[r][i] \in Kept(r) /\ files'[r][i] = files[r][from[r][i]]
           /\ i = open[r] => from[r][i] = i
    BY <2>3
  <2>6. \A r \in Rings : \A i, j \in Kept(r)' : i < j => from[r][i] < from[r][j]
    BY <2>4
  <2> QED BY <1>3, <2>5, <2>6, FilesMove
<1>7. ASSUME NEW r, r = ring, r \notin gapped
      PROVE  \A i \in Files : /\ i \in Kept(r) <=> i # slot - 1
                              /\ i \in Kept(r)' <=> i # slot
  <2>1. r \in Rings /\ \A i \in Files : i \in Kept(r) <=> i # slot - 1
    BY <1>1, <1>3, <1>7 DEF OrderInv, RingsShaped, RingShape
  <2>2. files[r][slot] # NoLog
    BY <1>1, <1>2, <2>1 DEF Kept
  <2>3. ASSUME NEW i \in Files PROVE i \in Kept(r)' <=> i # slot
    <3>1. CASE i = slot
      BY <1>4, <1>7, <2>1, <3>1 DEF Kept
    <3>2. CASE i = slot - 1
      BY <1>2, <1>4, <1>7, <2>1, <2>2, <3>2 DEF Kept
    <3>3. CASE i # slot /\ i # slot - 1
      BY <1>4, <2>1, <3>3 DEF Kept
    <3> QED BY <3>1, <3>2, <3>3
  <2> QED BY <2>1, <2>3
<1>8. ASSUME ring \notin gapped PROVE RingShape(ring)'
  <2>1. PICK r : r = ring
    OBVIOUS
  <2>2. \A i \in Files : i \in Kept(r)' <=> i # slot
    BY <1>7, <1>8, <2>1
  <2>3. \A i \in Files : i \in Nat /\ i <= MAX_LOOP_FILE
    BY LoggerAssumption DEF Files
  <2>4. Kept(r)' \subseteq Files /\ open'[r] = 0 /\ ring' = r
    BY <1>3, <1>5, <2>1 DEF Kept
  <2>5. CASE lpc' = "remove"
    <3>1. slot' = slot + 1 /\ slot' # 2 /\ slot' - 1 = slot
      BY <1>1, <1>2, <1>3, <2>5
    <3> QED BY <2>1, <2>2, <2>4, <2>5, <3>1 DEF RingShape
  <2>6. CASE lpc' = "open"
    <3>1. slot' = slot /\ ~(slot < MAX_LOOP_FILE)
      BY <1>3, <2>6
    <3>2. \A i \in Files : i \in Kept(r)' <=> i < slot
      BY <1>1, <1>2, <2>2, <2>3, <3>1, LoggerAssumption
    <3>3. \A i \in Kept(r)', j \in Files : j < i => j \in Kept(r)'
      BY <1>2, <2>3, <2>4, <3>2
    <3> QED BY <2>1, <2>4, <2>6, <3>1, <3>2, <3>3 DEF RingShape
  <2> QED BY <1>3, <2>5, <2>6
<1>9. ErrNeedsLog' /\ LastIsKnown' /\ RingsShaped'
  <2>1. \A q \in Rings : q # ring => files'[q] = files[q]
    BY <1>1, <1>3 DEF LoggerTypeOK
  <2> QED BY <1>3, <1>8, <2>1, RotationFrame
<1>10. LogKeepsLatest'
  <2> SUFFICES ASSUME "log" \notin gapped PROVE \A k : Logged(k)' <=> Logged(k)
    <3>1. "log" \notin gapped => \A k : Logged(k) => k = written \/ Logged(k + 1)
      BY KeepsLatestMeans DEF OrderInv
    <3> QED BY <1>3, <3>1, KeepsLatestNext
  <2>1. CASE ring # "log"
    <3>1. \A i \in Files : files'["log"][i] = files["log"][i]
      BY <1>4, <2>1, RingFacts
    <3> QED BY <3>1 DEF Logged, Kept
  <2>2. CASE ring = "log"
    <3>1. \A i \in Files : /\ i \in Kept("log") <=> i # slot - 1
                           /\ i \in Kept("log")' <=> i # slot
      BY <1>7, <2>2
    <3>2. \A i \in Kept("log")' : \E j \in Kept("log") : files'["log"][i] = files["log"][j]
      BY ZenonT(40), <1>1, <1>2, <1>4, <1>51, <2>2, <3>1, RingFacts
    <3>3. ASSUME NEW j \in Kept("log") PROVE \E i \in Kept("log")' : files'["log"][i] = files["log"][j]
      <4>0. j \in Files /\ j # slot - 1
        BY <1>51, <3>1, RingFacts
      <4>1. CASE j = slot
        <5>1. slot - 1 \in Kept("log")' /\ files'["log"][slot - 1] = files["log"][slot]
          BY <1>2, <1>4, <2>2, <3>1, RingFacts
        <5> QED BY <4>1, <5>1
      <4>2. CASE j # slot
        BY <1>4, <3>1, <4>0, <4>2, RingFacts
      <4> QED BY <4>1, <4>2
    <3> QED BY <3>2, <3>3 DEF Logged
  <2> QED BY <2>1, <2>2
<1> QED BY <1>6, <1>9, <1>10 DEF OrderInv

(* fopen of a file that is not there: the new file is the last of its ring. *)
LEMMA OrderOpenFile ==
    ASSUME OrderInv, LoggerInv', OpenFile
    PROVE  OrderInv'
<1>1. LoggerTypeOK /\ ring \in Rings /\ slot \in Files /\ lpc = "open"
  BY DEF OrderInv, LoggerInv, LoggerTypeOK, OpenFile
<1>2. files[ring][slot] = NoLog /\ slot # 0 /\ slot \in Nat
  BY <1>1, RingFacts DEF OrderInv, LoggerInv, OpenedIsNew, Exists
<1>3. /\ files' = [files EXCEPT ![ring][slot] = <<>>]
      /\ UNCHANGED <<written, gapped>>
      /\ \/ /\ ring = "log" /\ open' = [open EXCEPT !["log"] = slot, !["err"] = 0]
            /\ ring' = "err" /\ lpc' = "find"
         \/ /\ ring = "err" /\ open' = [open EXCEPT !["err"] = slot]
            /\ lpc' = "emit" /\ UNCHANGED <<size, last, ring>>
  BY <1>2 DEF OpenFile
<1>4. \A q \in Rings, i \in Files :
        /\ ~(q = ring /\ i = slot) => files'[q][i] = files[q][i]
        /\ q = ring /\ i = slot => files'[q][i] = <<>>
  BY <1>1, <1>3 DEF LoggerTypeOK
<1>5. \/ /\ ring = "log" /\ open'["log"] = slot /\ open'["err"] = 0 /\ ring' = "err" /\ lpc' = "find"
      \/ /\ ring = "err" /\ open'["err"] = slot /\ open'["log"] = open["log"]
         /\ lpc' = "emit" /\ ring' = "err" /\ UNCHANGED <<size, last>>
  BY <1>1, <1>3, RingFacts DEF LoggerTypeOK
<1>6. <<>> # NoLog
  <2>1. <<>> \in Seq(Line)
    OBVIOUS
  <2> QED BY <2>1, LoggerAssumption
(* What the files hold is what they held. *)
<1>7. ASSUME NEW r \in Rings, NEW i \in Kept(r)'
      PROVE  /\ i \in Files
             /\ \/ r = ring /\ i = slot /\ files'[r][i] = <<>>
                \/ i \in Kept(r) /\ files'[r][i] = files[r][i] /\ ~(r = ring /\ i = slot)
  BY <1>4, <1>2 DEF Kept
<1>8. ASSUME NEW r \in Rings, NEW i \in Kept(r)
      PROVE  i \in Kept(r)' /\ files'[r][i] = files[r][i] /\ i \in Files
  BY <1>2, <1>4 DEF Kept
<1>81. ASSUME NEW r \in Rings, NEW i \in Kept(r)', NEW a \in DOMAIN files'[r][i]
       PROVE  i \in Kept(r) /\ files'[r][i] = files[r][i] /\ ~(r = ring /\ i = slot)
  BY <1>7
<1>9. LinesNumbered'
  <2>1. ASSUME NEW i \in Kept("log")', NEW a \in DOMAIN files'["log"][i]
        PROVE  files'["log"][i][a].n <= written'
    BY <1>3, <1>81, RingFacts DEF OrderInv, LinesNumbered
  <2>2. ASSUME NEW i \in Kept("err")', NEW a \in DOMAIN files'["err"][i]
        PROVE  files'["err"][i][a].n <= written' + 1 /\ i # open'["err"]
    <3>1. i \in Kept("err") /\ files'["err"][i] = files["err"][i] /\ ~("err" = ring /\ i = slot) /\ i \in Files
      BY <1>7, <1>81, RingFacts
    <3>2. i # open'["err"]
      BY <1>5, <3>1, RingFacts
    <3> QED BY <1>3, <3>1, <3>2 DEF OrderInv, LinesNumbered
  <2> QED BY <2>1, <2>2 DEF LinesNumbered
<1>10. RingsInOrder'
  <2> SUFFICES ASSUME NEW r \in Rings, r \notin gapped, NEW i \in Kept(r)', NEW j \in Kept(r)',
                      NEW a \in DOMAIN files'[r][i], NEW b \in DOMAIN files'[r][j]
               PROVE  /\ i < j => files'[r][i][a].n <= files'[r][j][b].n
                      /\ i = j /\ a < b => files'[r][i][a].n < files'[r][i][b].n
    BY <1>3 DEF RingsInOrder
  <2>1. /\ i \in Kept(r) /\ files'[r][i] = files[r][i]
        /\ j \in Kept(r) /\ files'[r][j] = files[r][j]
    BY <1>81
  <2> QED BY <2>1 DEF OrderInv, RingsInOrder
<1>11. NoRepeatedLine'
  <2> SUFFICES ASSUME NEW i \in Kept("log")', NEW a \in 1 .. Len(files'["log"][i]) - 1
               PROVE  files'["log"][i][a].text # files'["log"][i][a + 1].text
    BY DEF NoRepeatedLine
  <2>1. files'["log"][i] # <<>>
    OBVIOUS
  <2>2. i \in Kept("log") /\ files'["log"][i] = files["log"][i]
    BY <1>7, <2>1, RingFacts
  <2> QED BY <2>2 DEF OrderInv, NoRepeatedLine
<1>12. LogKeepsLatest'
  <2>1. \A k : Logged(k)' <=> Logged(k)
    <3>1. ASSUME NEW k, Logged(k)' PROVE Logged(k)
      BY <1>81, <3>1, RingFacts DEF Logged
    <3>2. ASSUME NEW k, Logged(k) PROVE Logged(k)'
      BY <1>8, <3>2, RingFacts DEF Logged
    <3> QED BY <3>1, <3>2
  <2>2. "log" \notin gapped => \A k : Logged(k) => k = written \/ Logged(k + 1)
    BY KeepsLatestMeans DEF OrderInv
  <2> QED BY <1>3, <2>1, <2>2, KeepsLatestNext
<1>13. ErrNeedsLog'
  BY <1>2, <1>5 DEF OrderInv, ErrNeedsLog
<1>14. LastIsKnown'
  <2>1. CASE ring = "log"
    BY <1>1, <1>4, <1>5, <2>1, RingFacts DEF LastIsKnown
  <2>2. CASE ring = "err"
    <3>1. files'["log"] = files["log"]
      BY <1>1, <1>3, <2>2, RingFacts DEF LoggerTypeOK
    <3> QED BY <1>5, <2>2, <3>1, RingFacts DEF OrderInv, LastIsKnown
  <2> QED BY <1>1, <2>1, <2>2, RingFacts
<1>15. RingsShaped'
  <2> SUFFICES ASSUME NEW r \in Rings, r \notin gapped PROVE RingShape(r)'
    BY <1>3 DEF RingsShaped
  <2>1. RingShape(r)
    BY DEF OrderInv, RingsShaped
  <2>2. CASE r # ring
    <3>1. \A i \in Files : i \in Kept(r)' <=> i \in Kept(r)
      BY <1>7, <1>8, <2>2
    <3>2. open'[r] \in {0, open[r]}
      BY <1>5, <2>2, RingFacts
    <3> QED BY <1>5, <2>1, <2>2, <3>1, <3>2, SameShape
  <2>3. CASE r = ring
    <3>1. \A i \in Files : i \in Kept(r) <=> i < slot
      BY <1>1, <2>1, <2>3 DEF RingShape
    <3>2. ASSUME NEW i \in Files PROVE i \in Kept(r)' <=> i <= slot
      <4>1. CASE i = slot
        BY <1>2, <1>4, <1>6, <2>3, <4>1 DEF Kept
      <4>2. CASE i # slot
        <5>1. i \in Kept(r)' <=> i \in Kept(r)
          BY <1>4, <4>2 DEF Kept
        <5> QED BY <1>2, <3>1, <4>2, <5>1, RingFacts
      <4> QED BY <4>1, <4>2
    <3>3. Kept(r)' \subseteq Files /\ open'[r] = slot
      BY <1>5, <2>3, RingFacts DEF Kept
    <3>4. ASSUME NEW i \in Kept(r)', NEW j \in Files, j < i PROVE j \in Kept(r)'
      <4>1. i \in Files /\ i <= slot /\ i \in Nat /\ j \in Nat
        BY <3>2, <3>3, RingFacts
      <4>2. j <= slot
        BY <1>2, <3>4, <4>1
      <4> QED BY <3>2, <4>2
    <3>5. lpc' \notin {"remove", "rename", "open"}
      BY <1>5
    <3> QED BY <3>2, <3>3, <3>4, <3>5 DEF RingShape
  <2> QED BY <2>2, <2>3
<1> QED BY <1>9, <1>10, <1>11, <1>12, <1>13, <1>14, <1>15 DEF OrderInv

---------------------------------------------------------------------------
(* Writing a line *)

(* A file with one more line. *)
LEMMA AppendFacts ==
    ASSUME LoggerTypeOK, NEW r \in Rings, open[r] # 0, open[r] \in Kept(r),
           files' = WithLine(r)
    PROVE  /\ open[r] \in Files
           /\ \A q \in Rings : Kept(q)' = Kept(q)
           /\ \A q \in Rings, i \in Files : ~(q = r /\ i = open[r]) => files'[q][i] = files[q][i]
           /\ Len(files'[r][open[r]]) = Len(files[r][open[r]]) + 1
           /\ DOMAIN files'[r][open[r]] = 1 .. Len(files[r][open[r]]) + 1
           /\ \A a \in 1 .. Len(files[r][open[r]]) :
                 files'[r][open[r]][a] = files[r][open[r]][a]
           /\ files'[r][open[r]][Len(files[r][open[r]]) + 1].n = written + 1
           /\ files'[r][open[r]][Len(files[r][open[r]]) + 1].text = text
<1> DEFINE s == files[r][open[r]]
           c == Append(s, NewLine)
<1>1. open[r] \in Files /\ s \in Seq(Line) /\ files[r][open[r]] # NoLog
  BY KeptFacts
<1>2. NewLine \in Line /\ NewLine.n = written + 1 /\ NewLine.text = text
  BY DEF NewLine, Line, LoggerTypeOK
<1>3. files' = [files EXCEPT ![r][open[r]] = c]
  BY DEF WithLine
<1> HIDE DEF s
<1>4. /\ c \in Seq(Line) /\ Len(c) = Len(s) + 1 /\ DOMAIN c = 1 .. Len(s) + 1
      /\ \A a \in 1 .. Len(s) : c[a] = s[a]
      /\ c[Len(s) + 1] = NewLine
  BY <1>1, <1>2
<1>5. c # NoLog
  BY <1>4, LoggerAssumption
<1> HIDE DEF c
<1>6. \A q \in Rings, i \in Files :
        /\ ~(q = r /\ i = open[r]) => files'[q][i] = files[q][i]
        /\ q = r /\ i = open[r] => files'[q][i] = c
  BY <1>1, <1>3 DEF LoggerTypeOK
<1>7. \A q \in Rings : Kept(q)' = Kept(q)
  BY <1>1, <1>5, <1>6 DEF Kept
<1>8. files'[r][open[r]] = c
  BY <1>1, <1>6
<1> QED BY <1>1, <1>2, <1>4, <1>6, <1>7, <1>8 DEF s

(* A line with a number above all others of the open file, and not below    *)
(* any of its ring, goes at the end of the ring.                            *)
LEMMA AppendInOrder ==
    ASSUME OrderInv, NEW r \in Rings, open[r] # 0, open[r] \in Kept(r),
           files' = WithLine(r), gapped' = gapped,
           \A i \in Kept(r) : \A a \in DOMAIN files[r][i] :
              /\ files[r][i][a].n <= written + 1
              /\ i = open[r] => files[r][i][a].n <= written
    PROVE  RingsInOrder'
<1>0. LoggerTypeOK /\ written \in Nat
  BY DEF OrderInv, LoggerInv, LoggerTypeOK
<1> SUFFICES ASSUME NEW q \in Rings, q \notin gapped, NEW i \in Kept(q)', NEW j \in Kept(q)',
                    NEW a \in DOMAIN files'[q][i], NEW b \in DOMAIN files'[q][j]
             PROVE  /\ i < j => files'[q][i][a].n <= files'[q][j][b].n
                    /\ i = j /\ a < b => files'[q][i][a].n < files'[q][i][b].n
  BY DEF RingsInOrder
<1> DEFINE o == open[r]
           L == Len(files[r][open[r]])
<1>1. /\ o \in Files /\ i \in Kept(q) /\ j \in Kept(q)
      /\ \A p \in Rings, m \in Files : ~(p = r /\ m = o) => files'[p][m] = files[p][m]
      /\ DOMAIN files'[r][o] = 1 .. L + 1
      /\ \A m \in 1 .. L : files'[r][o][m] = files[r][o][m]
      /\ files'[r][o][L + 1].n = written + 1
  BY <1>0, AppendFacts
<1>2. i \in Files /\ j \in Files /\ i \in Nat /\ j \in Nat /\ o \in Nat
  BY <1>1, RingFacts DEF Kept
<1>3. /\ L \in Nat /\ DOMAIN files[r][o] = 1 .. L
      /\ \A m \in DOMAIN files[r][o] : files[r][o][m].n \in Nat
  BY <1>0, KeptFacts
<1>4. \A x, y \in Kept(q) : \A m \in DOMAIN files[q][x], n \in DOMAIN files[q][y] :
        /\ x < y => files[q][x][m].n <= files[q][y][n].n
        /\ x = y /\ m < n => files[q][x][m].n < files[q][x][n].n
  BY SMTT(30) DEF OrderInv, RingsInOrder
<1>5. CASE q # r
  <2>1. files'[q][i] = files[q][i] /\ files'[q][j] = files[q][j]
    BY <1>1, <1>2, <1>5
  <2> QED BY <1>1, <1>4, <2>1
<1>6. CASE q = r
  <2>0. i <= o /\ j <= o
    BY <1>1, <1>6 DEF OrderInv, RingsShaped, RingShape
  <2> HIDE DEF o, L
  <2>1. CASE i # o
    <3>1. files'[q][i] = files[q][i]
      BY <1>1, <1>2, <2>1
    <3>2. CASE j # o
      <4>1. files'[q][j] = files[q][j]
        BY <1>1, <1>2, <3>2
      <4> QED BY <1>1, <1>4, <3>1, <4>1
    <3>3. CASE j = o
      <4>1. files[r][i][a].n <= written + 1
        BY <1>1, <1>6, <3>1
      <4>2. CASE b = L + 1
        BY <1>1, <1>6, <2>1, <3>1, <3>3, <4>1, <4>2
      <4>3. CASE b # L + 1
        <5>1. b \in 1 .. L
          BY <1>1, <1>3, <1>6, <3>3, <4>3
        <5>2. files'[r][o][b] = files[r][o][b] /\ b \in DOMAIN files[r][o]
          BY <1>1, <1>3, <5>1
        <5> QED BY <1>1, <1>4, <1>6, <2>1, <3>1, <3>3, <5>2
      <4> QED BY <4>2, <4>3
    <3> QED BY <3>2, <3>3
  <2>2. CASE i = o
    <3>1. ~(i < j)
      BY <1>2, <2>0, <2>2
    <3>2. ASSUME i = j, a < b PROVE files'[q][i][a].n < files'[q][i][b].n
      <4>1. a \in 1 .. L + 1 /\ b \in 1 .. L + 1
        BY <1>1, <1>6, <2>2, <3>2
      <4>2. a \in 1 .. L /\ a \in DOMAIN files[r][o]
        BY <1>3, <3>2, <4>1
      <4>3. files'[r][o][a] = files[r][o][a] /\ files[r][o][a].n \in Nat
        BY <1>1, <1>3, <4>2
      <4>4. CASE b = L + 1
        <5>1. files[r][o][a].n <= written
          BY <1>1, <1>6, <2>2, <4>2 DEF o
        <5> QED BY <1>0, <1>1, <1>6, <2>2, <4>3, <4>4, <5>1
      <4>5. CASE b # L + 1
        <5>1. b \in 1 .. L /\ b \in DOMAIN files[r][o]
          BY <1>3, <4>1, <4>5
        <5>2. files'[r][o][b] = files[r][o][b]
          BY <1>1, <5>1
        <5> QED BY <1>1, <1>4, <1>6, <2>2, <3>2, <4>2, <4>3, <5>1, <5>2
      <4> QED BY <4>4, <4>5
    <3> QED BY <3>1, <3>2
  <2> QED BY <2>1, <2>2
<1> QED BY <1>5, <1>6

(* An open file is kept. *)
LEMMA OpenIsKept ==
    ASSUME LoggerInv, NEW r \in Rings, open[r] # 0
    PROVE  open[r] \in Kept(r)
<1>1. open[r] \in Files
  BY DEF LoggerInv, LoggerTypeOK
<1> QED BY <1>1 DEF LoggerInv, OpenFilesExist, Kept

(* Writing moves no file. *)
LEMMA WriteShape ==
    ASSUME OrderInv, \A r \in Rings : Kept(r)' = Kept(r), UNCHANGED <<open, gapped>>,
           lpc \in {"emit", "emitlog"}, lpc' \in {"idle", "emitlog"}
    PROVE  RingsShaped'
<1> SUFFICES ASSUME NEW r \in Rings, r \notin gapped PROVE RingShape(r)'
  BY DEF RingsShaped
<1>1. RingShape(r)
  BY DEF OrderInv, RingsShaped
<1> QED BY <1>1, SameShape

(* The first half of the write: the comparison with last_log_str and the    *)
(* error file.                                                              *)
LEMMA OrderEmit ==
    ASSUME OrderInv, LoggerInv', Emit
    PROVE  OrderInv'
<1>1. LoggerInv /\ LoggerTypeOK /\ written \in Nat
  BY DEF OrderInv, LoggerInv, LoggerTypeOK
<1>2. /\ lpc = "emit" /\ UNCHANGED <<open, size, last, written, gapped>>
      /\ \/ text = last /\ lpc' = "idle" /\ ring' = "log" /\ UNCHANGED files
         \/ /\ text # last /\ lpc' = "emitlog" /\ UNCHANGED <<ring, text>>
            /\ files' = IF level = "error" THEN WithLine("err") ELSE files
  BY DEF Emit, Return
<1>3. ErrNeedsLog'
  BY <1>2 DEF OrderInv, ErrNeedsLog
<1>4. CASE UNCHANGED files
  <2>1. \A r \in Rings : Kept(r)' = Kept(r)
    BY <1>4 DEF Kept
  <2>2. RingsInOrder' /\ LogKeepsLatest' /\ NoRepeatedLine'
    BY <1>2, <1>4, SameFiles DEF OrderInv
  <2>3. LinesNumbered'
    BY <1>2, <1>4, <2>1, RingFacts DEF OrderInv, LinesNumbered
  <2>4. LastIsKnown'
    BY <1>2, <1>4 DEF OrderInv, LastIsKnown
  <2>5. RingsShaped'
    BY <1>2, <2>1, WriteShape
  <2> QED BY <1>3, <2>2, <2>3, <2>4, <2>5 DEF OrderInv
<1>5. CASE /\ text # last /\ lpc' = "emitlog" /\ UNCHANGED <<ring, text>>
           /\ open["err"] # 0 /\ files' = WithLine("err")
  <2> DEFINE o == open["err"]
             L == Len(files["err"][open["err"]])
  <2>0. o \in Kept("err")
    BY <1>1, <1>5, OpenIsKept, RingFacts
  <2>1. /\ o \in Files
        /\ \A q \in Rings : Kept(q)' = Kept(q)
        /\ \A q \in Rings, i \in Files : ~(q = "err" /\ i = o) => files'[q][i] = files[q][i]
        /\ DOMAIN files'["err"][o] = 1 .. L + 1
        /\ \A a \in 1 .. L : files'["err"][o][a] = files["err"][o][a]
        /\ files'["err"][o][L + 1].n = written + 1
    BY <1>1, <1>5, <2>0, AppendFacts, RingFacts
  <2>2. L \in Nat /\ DOMAIN files["err"][o] = 1 .. L
    BY <1>1, <2>0, KeptFacts, RingFacts
  <2>3. files'["log"] = files["log"]
    BY <1>1, <1>5, ErrLineFacts DEF LoggerInv
  <2>4. RingsInOrder'
    <3>1. \A i \in Kept("err") : \A a \in DOMAIN files["err"][i] :
            /\ files["err"][i][a].n <= written + 1
            /\ i = open["err"] => files["err"][i][a].n <= written
      BY <1>2 DEF OrderInv, LinesNumbered
    <3> QED BY <1>2, <1>5, <2>0, <3>1, AppendInOrder, RingFacts
  <2>5. NoRepeatedLine' /\ LogKeepsLatest'
    <3>1. Kept("log")' = Kept("log")
      BY <2>1, RingFacts
    <3> QED BY <1>2, <2>3, <3>1 DEF OrderInv, NoRepeatedLine, LogKeepsLatest
  <2>6. LinesNumbered'
    <3>1. ASSUME NEW i \in Kept("err"), NEW a \in DOMAIN files'["err"][i]
          PROVE  files'["err"][i][a].n <= written + 1
      <4>0. i \in Files
        BY DEF Kept
      <4> HIDE DEF o, L
      <4>1. CASE i # o
        <5>1. files'["err"][i] = files["err"][i]
          BY <2>1, <4>0, <4>1, RingFacts
        <5> QED BY <3>1, <5>1 DEF OrderInv, LinesNumbered
      <4>2. CASE i = o /\ a = L + 1
        BY <1>1, <2>1, <4>2
      <4>3. CASE i = o /\ a # L + 1
        <5>1. a \in 1 .. L
          BY <2>1, <2>2, <4>3
        <5>2. files'["err"][i][a] = files["err"][i][a] /\ a \in DOMAIN files["err"][i]
          BY <2>1, <2>2, <4>3, <5>1
        <5> QED BY <5>2 DEF OrderInv, LinesNumbered
      <4> QED BY <4>1, <4>2, <4>3
    <3>2. Kept("log")' = Kept("log") /\ Kept("err")' = Kept("err")
      BY <2>1, RingFacts
    <3> QED BY <1>2, <1>5, <2>3, <3>1, <3>2 DEF OrderInv, LinesNumbered
  <2>7. LastIsKnown'
    BY <1>2, <1>5, <2>3 DEF OrderInv, LastIsKnown
  <2>8. RingsShaped'
    BY <1>2, <1>5, <2>1, WriteShape
  <2> QED BY <1>3, <2>4, <2>5, <2>6, <2>7, <2>8 DEF OrderInv
<1>6. open["err"] = 0 => WithLine("err") = files
  BY DEF WithLine
<1> QED BY <1>2, <1>4, <1>5, <1>6

(* The second half: the log file, and the line is remembered. *)
LEMMA OrderEmitLog ==
    ASSUME OrderInv, LoggerInv', EmitLog
    PROVE  OrderInv'
<1>1. LoggerInv /\ LoggerTypeOK /\ written \in Nat /\ size \in Nat
  BY DEF OrderInv, LoggerInv, LoggerTypeOK
<1>2. /\ lpc = "emitlog" /\ lpc' = "idle" /\ ring' = "log" /\ last' = text /\ size' = size + 1
      /\ files' = WithLine("log") /\ UNCHANGED <<open, gapped>>
      /\ written' = IF open["log"] = 0 THEN written ELSE written + 1
  BY DEF EmitLog, Return
<1>3. ErrNeedsLog'
  BY <1>1, <1>2, LoggerAssumption DEF OrderInv, ErrNeedsLog
<1>4. CASE open["log"] = 0
  <2>0. files' = files /\ written' = written
    BY <1>2, <1>4 DEF WithLine
  <2>1. \A r \in Rings : Kept(r)' = Kept(r)
    BY <2>0 DEF Kept
  <2>2. RingsInOrder' /\ LogKeepsLatest' /\ NoRepeatedLine'
    BY <1>2, <2>0, SameFiles DEF OrderInv
  <2>3. open["err"] = 0
    BY <1>1, <1>2, <1>4, LoggerAssumption DEF OrderInv, ErrNeedsLog, LoggerInv, RoomForLine
  <2>4. LinesNumbered'
    <3>1. \A i \in Kept("err") : i # 0
      BY RingFacts DEF Kept
    <3> QED BY <1>2, <2>0, <2>1, <2>3, <3>1, RingFacts DEF OrderInv, LinesNumbered
  <2>5. LastIsKnown'
    BY <1>2, <1>4 DEF LastIsKnown
  <2>6. RingsShaped'
    BY <1>2, <2>1, WriteShape
  <2> QED BY <1>3, <2>2, <2>4, <2>5, <2>6 DEF OrderInv
<1>5. CASE open["log"] # 0
  <2> DEFINE o == open["log"]
             L == Len(files["log"][open["log"]])
  <2>0. o \in Kept("log") /\ written' = written + 1
    BY <1>1, <1>2, <1>5, OpenIsKept, RingFacts
  <2>1. /\ o \in Files
        /\ \A q \in Rings : Kept(q)' = Kept(q)
        /\ \A q \in Rings, i \in Files : ~(q = "log" /\ i = o) => files'[q][i] = files[q][i]
        /\ Len(files'["log"][o]) = L + 1
        /\ DOMAIN files'["log"][o] = 1 .. L + 1
        /\ \A a \in 1 .. L : files'["log"][o][a] = files["log"][o][a]
        /\ files'["log"][o][L + 1].n = written + 1
        /\ files'["log"][o][L + 1].text = text
    BY <1>1, <1>2, <1>5, <2>0, AppendFacts, RingFacts
  <2>2. L \in Nat /\ DOMAIN files["log"][o] = 1 .. L
    BY <1>1, <2>0, KeptFacts, RingFacts
  <2>3. Kept("log")' = Kept("log") /\ Kept("err")' = Kept("err")
    BY <2>1, RingFacts
  <2>4. \A i \in Kept("log") : \A a \in DOMAIN files["log"][i] :
          files["log"][i][a].n <= written /\ files["log"][i][a].n \in Nat
    BY <1>1, KeptFacts, RingFacts DEF OrderInv, LinesNumbered
  <2>5. RingsInOrder'
    <3>1. \A i \in Kept("log") : \A a \in DOMAIN files["log"][i] :
            /\ files["log"][i][a].n <= written + 1
            /\ i = open["log"] => files["log"][i][a].n <= written
      BY <1>1, <2>4
    <3> QED BY <1>2, <1>5, <2>0, <3>1, AppendInOrder, RingFacts
  (* The lines of the log are the old ones and the new one. *)
  <2>6. ASSUME NEW i \in Kept("log"), NEW a \in DOMAIN files'["log"][i]
        PROVE  \/ a \in DOMAIN files["log"][i] /\ files'["log"][i][a] = files["log"][i][a]
               \/ i = o /\ a = L + 1 /\ files'["log"][i][a].n = written + 1
    <3>0. i \in Files
      BY DEF Kept
    <3> HIDE DEF o, L
    <3>1. CASE i # o
      BY <2>1, <3>0, <3>1, RingFacts
    <3>2. CASE i = o
      BY <2>1, <2>2, <3>2
    <3> QED BY <3>1, <3>2
  <2>7. ASSUME NEW i \in Kept("log"), NEW a \in DOMAIN files["log"][i]
        PROVE  a \in DOMAIN files'["log"][i] /\ files'["log"][i][a] = files["log"][i][a]
    <3>0. i \in Files
      BY DEF Kept
    <3> HIDE DEF o, L
    <3>1. CASE i # o
      BY <2>1, <3>0, <3>1, RingFacts
    <3>2. CASE i = o
      <4>1. a \in 1 .. L
        BY <2>2, <2>7, <3>2
      <4>2. a \in 1 .. L + 1
        BY <2>2, <4>1
      <4> QED BY <2>1, <3>2, <4>1, <4>2
    <3> QED BY <3>1, <3>2
  <2>8. LinesNumbered'
    <3>1. ASSUME NEW i \in Kept("log"), NEW a \in DOMAIN files'["log"][i]
          PROVE  files'["log"][i][a].n <= written'
      BY <1>1, <2>0, <2>4, <2>6
    <3>2. ASSUME NEW i \in Kept("err"), NEW a \in DOMAIN files'["err"][i]
          PROVE  files'["err"][i][a].n <= written' /\ files'["err"][i][a].n \in Nat
      <4>1. i \in Files /\ files'["err"][i] = files["err"][i]
        BY <2>1, RingFacts DEF Kept
      <4>2. files["err"][i][a].n \in Nat
        BY <1>1, <4>1, KeptFacts, RingFacts
      <4> QED BY <1>1, <2>0, <4>1, <4>2 DEF OrderInv, LinesNumbered
    <3>3. ASSUME NEW i \in Kept("err"), NEW a \in DOMAIN files'["err"][i]
          PROVE  files'["err"][i][a].n <= written' + 1
      BY <1>1, <2>0, <3>2
    <3> QED BY <2>3, <3>1, <3>2, <3>3 DEF LinesNumbered
  <2>9. LogKeepsLatest'
    <3>1. ASSUME NEW k, Logged(k)' PROVE Logged(k) \/ k = written + 1
      BY <2>3, <2>6, <3>1 DEF Logged
    <3>2. ASSUME NEW k, Logged(k) PROVE Logged(k)'
      BY <2>3, <2>7, <3>2 DEF Logged
    <3>3. ASSUME NEW k, k = written + 1 PROVE Logged(k)'
      <4>1. L + 1 \in DOMAIN files'["log"][o]
        BY <2>1, <2>2
      <4> QED BY <2>0, <2>1, <2>3, <3>3, <4>1 DEF Logged
    <3>4. "log" \notin gapped => \A k : Logged(k) => k = written \/ Logged(k + 1)
      BY KeepsLatestMeans DEF OrderInv
    <3> QED BY <1>2, <2>0, <3>1, <3>2, <3>3, <3>4, KeepsLatestNext
  <2>10. NoRepeatedLine'
    <3> SUFFICES ASSUME NEW i \in Kept("log"), NEW a \in 1 .. Len(files'["log"][i]) - 1
                 PROVE  files'["log"][i][a].text # files'["log"][i][a + 1].text
      BY <2>3 DEF NoRepeatedLine
    <3>0. i \in Files
      BY DEF Kept
    <3>1. CASE i # o
      <4>1. files'["log"][i] = files["log"][i]
        BY <2>1, <3>0, <3>1, RingFacts
      <4> QED BY <4>1 DEF OrderInv, NoRepeatedLine
    <3>2. CASE i = o /\ a = L
      <4>1. a \in 1 .. L /\ L # 0
        BY <2>1, <2>2, <3>2
      <4>2. files["log"][o] # <<>>
        BY <4>1
      <4>3. files["log"][o][L].text = last /\ text # last
        BY <1>2, <1>5, <4>2 DEF OrderInv, LastIsKnown
      <4>4. files'["log"][o][L] = files["log"][o][L]
        BY <2>1, <3>2, <4>1
      <4> QED BY <2>1, <3>2, <4>3, <4>4
    <3>3. CASE i = o /\ a # L
      <4>1. a \in 1 .. L - 1 /\ a \in 1 .. L /\ a + 1 \in 1 .. L
        <5> HIDE DEF o, L
        <5>1. a \in 1 .. (L + 1) - 1
          BY <2>1, <3>3
        <5> QED BY <2>2, <3>3, <5>1
      <4>2. files["log"][i][a].text # files["log"][i][a + 1].text
        BY <3>3, <4>1 DEF OrderInv, NoRepeatedLine
      <4> QED BY <2>1, <3>3, <4>1, <4>2
    <3> QED BY <3>1, <3>2, <3>3
  <2>11. LastIsKnown'
    BY <1>2, <2>1 DEF LastIsKnown
  <2>12. RingsShaped'
    BY <1>2, <2>1, WriteShape
  <2> QED BY <1>3, <2>5, <2>8, <2>9, <2>10, <2>11, <2>12 DEF OrderInv
<1> QED BY <1>4, <1>5

---------------------------------------------------------------------------
LEMMA OrderStepInv == OrderInv /\ [LoggerNext]_logVars => OrderInv'
<1> SUFFICES ASSUME OrderInv, [LoggerNext]_logVars PROVE OrderInv'
  OBVIOUS
<1>1. LoggerInv'
  BY LoggerStepInv DEF OrderInv
<1>2. CASE log_init \/ log_string \/ FindFile \/ OpenFails \/ Die
  BY <1>1, <1>2, OrderQuiet
<1>3. CASE RemovePrev
  BY <1>1, <1>3, OrderRemovePrev
<1>4. CASE RenameNext
  BY <1>1, <1>4, OrderRenameNext
<1>5. CASE OpenFile
  BY <1>1, <1>5, OrderOpenFile
<1>6. CASE Emit
  BY <1>1, <1>6, OrderEmit
<1>7. CASE EmitLog
  BY <1>1, <1>7, OrderEmitLog
<1>8. CASE UNCHANGED logVars
  <2>1. UNCHANGED <<files, open, size, last, lpc, ring, slot, text, written, gapped>>
    BY <1>8 DEF logVars
  <2>2. \A r : Kept(r)' = Kept(r)
    BY <2>1 DEF Kept
  <2>3. RingsInOrder' /\ LogKeepsLatest' /\ NoRepeatedLine'
    BY <2>1, SameFiles DEF OrderInv
  <2>4. LinesNumbered' /\ ErrNeedsLog' /\ LastIsKnown'
    BY <2>1, <2>2 DEF OrderInv, LinesNumbered, ErrNeedsLog, LastIsKnown
  <2>5. RingsShaped'
    BY <2>1, <2>2 DEF OrderInv, RingsShaped, RingShape
  <2> QED BY <1>1, <2>3, <2>4, <2>5 DEF OrderInv
<1> QED BY <1>2, <1>3, <1>4, <1>5, <1>6, <1>7, <1>8 DEF LoggerNext

(* The shape of the rings, the numbering of the lines and what is known of  *)
(* last_log_str hold throughout log_init, log_string and the rotations of   *)
(* move_log_file and move_err_file, wherever the process dies.              *)
THEOREM LoggerOrderInvariant == LoggerSpec => []OrderInv
<1>1. LoggerInit => OrderInv
  BY OrderInitInv
<1>2. OrderInv /\ [LoggerNext]_logVars => OrderInv'
  BY OrderStepInv
<1> QED BY <1>1, <1>2, PTL DEF LoggerSpec

(* Read from frs.1 on, the files of a ring tell what happened in the order  *)
(* it happened, also while move_log_file and move_err_file move them, for   *)
(* every ring that no crash caught half moved.                              *)
THEOREM LoggerRingsInOrder == LoggerSpec => []RingsInOrder
<1>1. OrderInv => RingsInOrder
  BY DEF OrderInv
<1> QED BY <1>1, LoggerOrderInvariant, PTL

(* The log never loses a line from its middle: move_log_file gives up the   *)
(* oldest file only, and everything written after it is still there.        *)
THEOREM LoggerKeepsLatest == LoggerSpec => []LogKeepsLatest
<1>1. OrderInv => LogKeepsLatest
  BY DEF OrderInv
<1> QED BY <1>1, LoggerOrderInvariant, PTL

(* The comparison with last_log_str in log_string keeps a line from being   *)
(* repeated at once in any log file, across rotations, failed opens and     *)
(* restarts.                                                                *)
THEOREM LoggerNoRepeat == LoggerSpec => []NoRepeatedLine
<1>1. OrderInv => NoRepeatedLine
  BY DEF OrderInv
<1> QED BY <1>1, LoggerOrderInvariant, PTL

---------------------------------------------------------------------------
(* The two rings *)

(* The files of both rings go together, *)
InStep == Kept("err") = Kept("log") /\ \A i \in Kept("log") : HasErrorsOf(i, i)

(* or the log has moved down and the errors have not, *)
LogAhead ==
    /\ \A i \in Files : i \in Kept("err") /\ (i \in Kept("log") <=> i # MAX_LOOP_FILE)
    /\ \A i \in Files : i < MAX_LOOP_FILE => HasErrorsOf(i + 1, i)

(* or the log has a new file more. *)
LogLonger ==
    /\ \A i \in Files : i \in Kept("err") <=> i \in Kept("log") /\ i # open["log"]
    /\ \A i \in Kept("err") : HasErrorsOf(i, i)

Together == InStep \/ (LogAhead /\ open["log"] = 0)

(* An error is in its file before it is in the log. *)
ErrorFirst ==
    /\ Kept("err") = Kept("log")
    /\ \A i \in Kept("log") : i # open["log"] => HasErrorsOf(i, i)
    /\ Lines("err", open["log"]) =
          {l \in Lines("log", open["log"]) : l.level = "error"}
             \cup {l \in {NewLine} : l.level = "error"}

(* How far each ring has moved, step by step of the two rotations. *)
LogMoving ==
    /\ \A i \in Files : i \in Kept("err")
    /\ \A i \in Files : i < slot - 1 => HasErrorsOf(i + 1, i)
    /\ \A i \in Files : i >= slot => HasErrorsOf(i, i)

LogReplaced ==
    /\ open["log"] = MAX_LOOP_FILE
    /\ \A i \in Files : i \in Kept("log")

ErrMoving ==
    /\ LogReplaced
    /\ \A i \in Files : i < slot - 1 => HasErrorsOf(i, i)
    /\ \A i \in Files : i >= slot => HasErrorsOf(i, i - 1)

RingsMatch ==
    /\ lpc \in {"down", "idle", "emit"} \/ (ring = "log" /\ lpc \in {"find", "open"}) => Together
    /\ lpc \in {"idle", "emit", "emitlog"} /\ open["log"] # 0 => open["err"] = open["log"]
    /\ lpc = "emitlog" => IF open["log"] = 0 THEN Together ELSE ErrorFirst
    /\ ring = "log" /\ lpc \in {"remove", "rename"} => LogMoving
    /\ ring = "err" /\ lpc \in {"find", "remove", "rename", "open"} =>
          files["log"][open["log"]] = <<>>
    /\ ring = "err" /\ lpc = "find" =>
          \/ LogLonger
          \/ /\ LogReplaced /\ \A i \in Files : i \in Kept("err")
             /\ \A i \in Files : i < MAX_LOOP_FILE => HasErrorsOf(i + 1, i)
    /\ ring = "err" /\ lpc \in {"remove", "rename"} => ErrMoving
    /\ ring = "err" /\ lpc = "open" => LogLonger

MatchInv ==
    /\ OrderInv
    /\ gapped # {} => split
    /\ ~split => RingsMatch

(* What is known while the rings go together. *)
LEMMA MatchFacts ==
    ASSUME MatchInv, ~split
    PROVE  /\ LoggerTypeOK /\ RingsMatch /\ RingShape("log") /\ RingShape("err")
           /\ ErrNeedsLog /\ ClosedInRotation /\ RoomForLine /\ OpenedIsNew /\ OpenFilesExist
<1>1. gapped = {}
  BY DEF MatchInv
<1> QED BY <1>1, RingFacts DEF MatchInv, OrderInv, LoggerInv, RingsShaped

LEMMA SameRings ==
    ASSUME files' = files
    PROVE  /\ Kept("log")' = Kept("log") /\ Kept("err")' = Kept("err")
           /\ InStep' <=> InStep
           /\ LogAhead' <=> LogAhead
           /\ open'["log"] = open["log"] => (LogLonger' <=> LogLonger)
           /\ \A i, j : HasErrorsOf(j, i)' <=> HasErrorsOf(j, i)
<1>1. \A r, i : Lines(r, i)' = Lines(r, i)
  BY DEF Lines
<1>2. \A i, j : HasErrorsOf(j, i)' <=> HasErrorsOf(j, i)
  BY <1>1 DEF HasErrorsOf
<1>3. Kept("log")' = Kept("log") /\ Kept("err")' = Kept("err")
  BY DEF Kept
<1> QED BY <1>2, <1>3 DEF InStep, LogAhead, LogLonger

(* A file and its error file, each where it is after a step. *)
LEMMA StillErrorsOf ==
    ASSUME NEW i, NEW j, NEW k, NEW m, HasErrorsOf(j, i),
           files'["err"][m] = files["err"][j], files'["log"][k] = files["log"][i]
    PROVE  HasErrorsOf(m, k)'
BY DEF HasErrorsOf, Lines

LEMMA MatchInitInv == LoggerInit => MatchInv
<1> SUFFICES ASSUME LoggerInit PROVE MatchInv
  OBVIOUS
<1>1. OrderInv
  BY OrderInitInv
<1>2. \A r \in Rings : Kept(r) = {}
  BY DEF LoggerInit, Kept
<1>3. InStep
  BY <1>2, RingFacts DEF InStep
<1> QED BY <1>1, <1>3, RingFacts DEF LoggerInit, MatchInv, RingsMatch, Together

(* What came between the rings is not forgotten. *)
LEMMA SplitStays ==
    ASSUME LoggerNext, ~split'
    PROVE  ~split
<1>1. ASSUME Die PROVE ~split
  <2>1. split' = (split \/ lpc \in {"remove", "rename", "emitlog"}
                       \/ (ring = "err" /\ lpc \in {"find", "open"}))
    BY <1>1 DEF Die
  <2> QED BY <2>1, Zenon
<1>2. ASSUME OpenFails PROVE ~split
  BY <1>2 DEF OpenFails
<1>3. ASSUME log_init \/ log_string \/ FindFile \/ RemovePrev \/ RenameNext PROVE ~split
  BY <1>3 DEF log_init, log_string, FindFile, RemovePrev, RenameNext
<1>4. ASSUME OpenFile \/ Emit \/ EmitLog PROVE ~split
  BY <1>4 DEF OpenFile, Emit, EmitLog
<1> QED BY <1>1, <1>2, <1>3, <1>4 DEF LoggerNext

(* Steps that touch no file and move no loop. *)
LEMMA MatchQuiet ==
    ASSUME MatchInv, OrderInv', ~split', log_init \/ log_string \/ OpenFails \/ Die
    PROVE  RingsMatch'
<1>0. ~split
  BY SplitStays DEF LoggerNext
<1>01. files' = files
  BY DEF log_init, log_string, OpenFails, Die
<1>1. ~split /\ files' = files
  BY <1>0, <1>01
<1>2. LoggerTypeOK /\ RingsMatch /\ ClosedInRotation
  BY <1>1, MatchFacts
<1>3. (InStep' <=> InStep) /\ (LogAhead' <=> LogAhead)
  BY <1>1, SameRings
<1>4. CASE log_init
  <2>1. lpc = "down" /\ lpc' = "find" /\ ring' = "log" /\ open' = open
    BY <1>4 DEF log_init
  <2> QED BY <1>2, <1>3, <2>1 DEF RingsMatch, Together
<1>5. CASE log_string
  <2>1. lpc = "idle" /\ lpc' \in {"find", "emit"} /\ (lpc' = "find" => ring' = "log")
        /\ (lpc' = "emit" => open' = open)
        /\ (lpc' = "find" => open' = [open EXCEPT !["log"] = 0])
    BY <1>5 DEF log_string
  <2>2. lpc' = "find" => open'["log"] = 0
    BY <1>2, <2>1, RingFacts DEF LoggerTypeOK
  <2> QED BY <1>2, <1>3, <2>1, <2>2 DEF RingsMatch, Together
<1>6. CASE OpenFails
  <2>1. /\ lpc = "open" /\ ring = "log" /\ lpc' = "idle" /\ ring' = "log" /\ open' = open
    BY <1>1, <1>6, <1>2 DEF OpenFails, Return, LoggerTypeOK, Rings
  <2>2. open["log"] = 0
    BY <1>2, <2>1, RingFacts DEF ClosedInRotation
  <2> QED BY <1>2, <1>3, <2>1, <2>2 DEF RingsMatch, Together
<1>7. CASE Die
  <2>1. /\ lpc' = "down" /\ open'["log"] = 0
        /\ lpc \notin {"remove", "rename", "emitlog"}
        /\ ~(ring = "err" /\ lpc \in {"find", "open"})
    BY <1>7, RingFacts DEF Die, Return
  <2>2. ring = "log" \/ ring = "err"
    BY <1>2 DEF LoggerTypeOK, Rings
  <2>3. Together
    BY <1>2, <1>7, <2>1, <2>2 DEF RingsMatch, LoggerTypeOK, Die
  <2> QED BY <1>3, <2>1, <2>3 DEF RingsMatch, Together
<1> QED BY <1>4, <1>5, <1>6, <1>7

(* The first free file, or the first move. *)
LEMMA MatchFind ==
    ASSUME MatchInv, OrderInv', ~split', FindFile
    PROVE  RingsMatch'
<1>1. ~split /\ files' = files /\ open' = open /\ ring' = ring /\ lpc = "find"
      /\ lpc' \in {"open", "remove"}
  BY DEF FindFile
<1>2. LoggerTypeOK /\ RingsMatch /\ ErrNeedsLog /\ OpenFilesExist
  BY <1>1, MatchFacts
<1>3. /\ (InStep' <=> InStep) /\ (LogAhead' <=> LogAhead) /\ (LogLonger' <=> LogLonger)
      /\ \A i, j : HasErrorsOf(j, i)' <=> HasErrorsOf(j, i)
      /\ Kept("log")' = Kept("log") /\ Kept("err")' = Kept("err")
  BY <1>1, SameRings
<1>4. lpc' = "remove" => slot' = 2 /\ \A i \in Files : i \in Kept(ring)
  BY DEF FindFile, Exists, Kept
<1>5. lpc' = "open" => \E i \in Files : i \notin Kept(ring)
  BY DEF FindFile, Exists, Kept
<1>6. Kept("log") \subseteq Files /\ Kept("err") \subseteq Files
  BY DEF Kept
<1>7. CASE ring = "log"
  <2>1. Together
    BY <1>1, <1>2, <1>7 DEF RingsMatch
  <2>2. CASE lpc' = "open"
    BY <1>1, <1>3, <1>7, <2>1, <2>2 DEF RingsMatch, Together
  <2>3. CASE lpc' = "remove"
    <3>1. slot' = 2 /\ MAX_LOOP_FILE \in Files /\ \A i \in Files : i \in Nat /\ i >= 1
      BY <1>4, <2>3, LoggerAssumption DEF Files
    <3>2. ~LogAhead
      BY <1>4, <1>7, <2>3, <3>1 DEF LogAhead
    <3>3. InStep
      BY <2>1, <3>2 DEF Together
    <3>4. LogMoving'
      BY <1>3, <1>4, <1>7, <2>3, <3>1, <3>3 DEF InStep, LogMoving
    <3> QED BY <1>1, <1>7, <2>3, <3>4 DEF RingsMatch
  <2> QED BY <1>1, <2>2, <2>3
<1>8. CASE ring = "err"
  <2>0. files'["log"][open'["log"]] = <<>>
    BY <1>1, <1>2, <1>8 DEF RingsMatch
  <2>1. \/ LogLonger
        \/ /\ LogReplaced /\ \A i \in Files : i \in Kept("err")
           /\ \A i \in Files : i < MAX_LOOP_FILE => HasErrorsOf(i + 1, i)
    BY <1>1, <1>2, <1>8 DEF RingsMatch
  <2>2. CASE lpc' = "open"
    <3>1. LogLonger
      BY <1>5, <1>8, <2>1, <2>2
    <3> QED BY <1>1, <1>3, <1>8, <2>0, <2>2, <3>1 DEF RingsMatch
  <2>3. CASE lpc' = "remove"
    <3>1. open["log"] \in Kept("log") /\ open["log"] \in Files
      BY <1>2, <1>8, RingFacts DEF ErrNeedsLog, OpenFilesExist, Kept, LoggerTypeOK
    <3>2. ~LogLonger
      BY <1>4, <1>8, <2>3, <3>1 DEF LogLonger
    <3>3. LogReplaced' /\ slot' = 2
      BY <1>1, <1>3, <1>4, <2>1, <2>3, <3>2 DEF LogReplaced
    <3>4. ASSUME NEW i \in Files, i >= 2 PROVE HasErrorsOf(i, i - 1)
      <4>1. i - 1 \in Files /\ i - 1 < MAX_LOOP_FILE /\ (i - 1) + 1 = i
        BY <3>4, LoggerAssumption DEF Files
      <4> QED BY <2>1, <3>2, <4>1
    <3>5. \A i \in Files : ~(i < 2 - 1)
      BY LoggerAssumption DEF Files
    <3>6. ErrMoving'
      BY <1>3, <3>3, <3>4, <3>5 DEF ErrMoving
    <3> QED BY <1>1, <1>8, <2>0, <2>3, <3>6 DEF RingsMatch
  <2> QED BY <1>1, <2>2, <2>3
<1> QED BY <1>2, <1>7, <1>8 DEF LoggerTypeOK, Rings

(* One file of the rotated ring is gone, *)
LEMMA MatchRemove ==
    ASSUME MatchInv, OrderInv', ~split', RemovePrev
    PROVE  RingsMatch'
<1>1. /\ ~split /\ open' = open /\ ring' = ring /\ slot' = slot
      /\ lpc = "remove" /\ lpc' = "rename"
      /\ files' = [files EXCEPT ![ring][slot - 1] = NoLog]
  BY DEF RemovePrev
<1>2. LoggerTypeOK /\ RingsMatch /\ OpenedIsNew
  BY <1>1, MatchFacts
<1>3. slot \in Files /\ slot - 1 \in Files /\ slot - 1 < slot /\ slot - 1 # MAX_LOOP_FILE
  BY <1>1, <1>2, LoggerAssumption DEF OpenedIsNew, LoggerTypeOK, Files
<1>31. \A i \in Files : i \in Nat
  BY LoggerAssumption DEF Files
<1>4. /\ \A r \in Rings, i \in Files : ~(r = ring /\ i = slot - 1) => files'[r][i] = files[r][i]
      /\ ring \in Rings
  BY <1>1, <1>2, <1>3 DEF LoggerTypeOK
<1>5. CASE ring = "log"
  <2>1. LogMoving
    BY <1>1, <1>2, <1>5 DEF RingsMatch
  <2>2. \A i \in Files : files'["err"][i] = files["err"][i]
    BY <1>4, <1>5, RingFacts
  <2>3. \A i \in Files : i \in Kept("err")'
    BY <2>1, <2>2 DEF LogMoving, Kept
  <2>4. ASSUME NEW i \in Files, i < slot - 1 PROVE HasErrorsOf(i + 1, i)'
    <3>1. files'["log"][i] = files["log"][i] /\ i + 1 \in Files
      BY <1>3, <1>4, <1>31, <2>4, RingFacts, LoggerAssumption DEF Files
    <3> QED BY <2>1, <2>2, <2>4, <3>1, StillErrorsOf DEF LogMoving
  <2>5. ASSUME NEW i \in Files, i >= slot PROVE HasErrorsOf(i, i)'
    <3>1. files'["log"][i] = files["log"][i]
      BY <1>3, <1>4, <1>31, <2>5, RingFacts
    <3> QED BY <2>1, <2>2, <2>5, <3>1, StillErrorsOf DEF LogMoving
  <2>6. LogMoving'
    BY <1>1, <2>3, <2>4, <2>5 DEF LogMoving
  <2> QED BY <1>1, <1>5, <2>6 DEF RingsMatch
<1>6. CASE ring = "err"
  <2>1. ErrMoving /\ files["log"][open["log"]] = <<>>
    BY <1>1, <1>2, <1>6 DEF RingsMatch
  <2>2. \A i \in Files : files'["log"][i] = files["log"][i]
    BY <1>4, <1>6, RingFacts
  <2>3. LogReplaced'
    BY <1>1, <2>1, <2>2 DEF ErrMoving, LogReplaced, Kept
  <2>4. ASSUME NEW i \in Files, i < slot - 1 PROVE HasErrorsOf(i, i)'
    <3>1. files'["err"][i] = files["err"][i]
      BY <1>3, <1>4, <1>31, <2>4, RingFacts
    <3> QED BY <2>1, <2>2, <2>4, <3>1, StillErrorsOf DEF ErrMoving
  <2>5. ASSUME NEW i \in Files, i >= slot PROVE HasErrorsOf(i, i - 1)'
    <3>1. files'["err"][i] = files["err"][i] /\ i - 1 \in Files
      BY <1>1, <1>2, <1>3, <1>4, <1>31, <2>5, RingFacts, LoggerAssumption DEF Files, OpenedIsNew
    <3> QED BY <2>1, <2>2, <2>5, <3>1, StillErrorsOf DEF ErrMoving
  <2>6. ErrMoving'
    BY <1>1, <2>3, <2>4, <2>5 DEF ErrMoving
  <2>7. open["log"] \in Files
    BY <2>1, LoggerAssumption DEF ErrMoving, LogReplaced, Files
  <2>8. files'["log"][open'["log"]] = <<>>
    BY <1>1, <2>1, <2>2, <2>7
  <2> QED BY <1>1, <1>6, <2>6, <2>8 DEF RingsMatch
<1> QED BY <1>4, <1>5, <1>6 DEF Rings

(* and the next one takes its place. *)
LEMMA MatchRename ==
    ASSUME MatchInv, OrderInv', ~split', RenameNext
    PROVE  RingsMatch'
<1>1. /\ ~split /\ open' = open /\ ring' = ring /\ lpc = "rename"
      /\ files' = [files EXCEPT ![ring][slot - 1] = files[ring][slot], ![ring][slot] = NoLog]
      /\ \/ slot < MAX_LOOP_FILE /\ slot' = slot + 1 /\ lpc' = "remove"
         \/ ~(slot < MAX_LOOP_FILE) /\ slot' = slot /\ lpc' = "open"
  BY DEF RenameNext
<1>2. LoggerTypeOK /\ RingsMatch /\ OpenedIsNew /\ ClosedInRotation
  BY <1>1, MatchFacts
<1>3. /\ slot \in Files /\ slot - 1 \in Files /\ slot - 1 # slot /\ slot \in Nat /\ slot >= 2
      /\ MAX_LOOP_FILE \in Files /\ (~(slot < MAX_LOOP_FILE) => slot = MAX_LOOP_FILE)
      /\ \A i \in Files : i \in Nat /\ i <= MAX_LOOP_FILE
  BY <1>1, <1>2, LoggerAssumption DEF OpenedIsNew, LoggerTypeOK, Files
<1>4. /\ \A r \in Rings, i \in Files :
            ~(r = ring /\ i \in {slot - 1, slot}) => files'[r][i] = files[r][i]
      /\ files'[ring][slot - 1] = files[ring][slot] /\ files'[ring][slot] = NoLog
      /\ ring \in Rings
  BY <1>1, <1>2, <1>3 DEF LoggerTypeOK
<1>5. \A i \in Files : i < MAX_LOOP_FILE => i + 1 \in Files
  BY LoggerAssumption DEF Files
<1>6. CASE ring = "log"
  <2>1. LogMoving /\ open["log"] = 0
    BY <1>1, <1>2, <1>6, RingFacts DEF RingsMatch, ClosedInRotation
  <2>2. \A i \in Files : files'["err"][i] = files["err"][i]
    BY <1>4, <1>6, RingFacts
  <2>3. \A i \in Files : i \in Kept("err")'
    BY <2>1, <2>2 DEF LogMoving, Kept
  <2>4. ASSUME NEW i \in Files, i < slot PROVE HasErrorsOf(i + 1, i)'
    <3>0. i + 1 \in Files
      BY <1>3, <1>5, <2>4
    <3>1. CASE i = slot - 1
      <4>1. files'["log"][i] = files["log"][slot] /\ i + 1 = slot /\ HasErrorsOf(slot, slot)
        BY <1>3, <1>4, <1>6, <2>1, <3>1 DEF LogMoving
      <4> QED BY <2>2, <3>0, <4>1, StillErrorsOf
    <3>2. CASE i # slot - 1
      <4>1. i < slot - 1 /\ files'["log"][i] = files["log"][i]
        BY <1>3, <1>4, <2>4, <3>2, RingFacts
      <4> QED BY <2>1, <2>2, <3>0, <4>1, StillErrorsOf DEF LogMoving
    <3> QED BY <3>1, <3>2
  <2>5. CASE lpc' = "remove"
    <3>1. slot' = slot + 1
      BY <1>1, <2>5
    <3>2. ASSUME NEW i \in Files, i >= slot + 1 PROVE HasErrorsOf(i, i)'
      <4>1. files'["log"][i] = files["log"][i] /\ i >= slot
        BY <1>3, <1>4, <3>2, RingFacts
      <4> QED BY <2>1, <2>2, <4>1, StillErrorsOf DEF LogMoving
    <3>3. \A i \in Files : i < (slot + 1) - 1 <=> i < slot
      BY <1>3
    <3>4. LogMoving'
      BY <2>3, <2>4, <3>1, <3>2, <3>3 DEF LogMoving
    <3> QED BY <1>1, <1>6, <2>5, <3>4 DEF RingsMatch
  <2>6. CASE lpc' = "open"
    <3>1. slot = MAX_LOOP_FILE /\ slot' = MAX_LOOP_FILE
      BY <1>1, <1>3, <2>6
    <3>2. RingShape("log")'
      BY <1>1, RingFacts DEF MatchInv, OrderInv, RingsShaped, RenameNext
    <3>3. \A i \in Files : i \in Kept("log")' <=> i < MAX_LOOP_FILE
      BY <1>1, <1>6, <2>6, <3>1, <3>2 DEF RingShape
    <3>4. \A i \in Files : i \in Kept("log")' <=> i # MAX_LOOP_FILE
      BY <1>3, <3>3
    <3>5. LogAhead'
      BY <2>3, <2>4, <3>1, <3>4 DEF LogAhead
    <3> QED BY <1>1, <1>6, <2>1, <2>6, <3>5 DEF RingsMatch, Together
  <2> QED BY <1>1, <2>5, <2>6
<1>7. CASE ring = "err"
  <2>1. ErrMoving /\ files["log"][open["log"]] = <<>> /\ LogReplaced
    BY <1>1, <1>2, <1>7 DEF RingsMatch, ErrMoving
  <2>2. \A i \in Files : files'["log"][i] = files["log"][i]
    BY <1>4, <1>7, RingFacts
  <2>3. LogReplaced' /\ \A i \in Files : i \in Kept("log")'
    BY <1>1, <2>1, <2>2 DEF LogReplaced, Kept
  <2>4. ASSUME NEW i \in Files, i < slot PROVE HasErrorsOf(i, i)'
    <3>1. CASE i = slot - 1
      <4>1. files'["err"][i] = files["err"][slot] /\ HasErrorsOf(slot, i)
        BY <1>3, <1>4, <1>7, <2>1, <3>1 DEF ErrMoving
      <4> QED BY <2>2, <4>1, StillErrorsOf
    <3>2. CASE i # slot - 1
      <4>1. i < slot - 1 /\ files'["err"][i] = files["err"][i]
        BY <1>3, <1>4, <2>4, <3>2, RingFacts
      <4> QED BY <2>1, <2>2, <4>1, StillErrorsOf DEF ErrMoving
    <3> QED BY <3>1, <3>2
  <2>5. open["log"] = MAX_LOOP_FILE /\ files'["log"][open'["log"]] = <<>>
    BY <1>1, <1>3, <2>1, <2>2 DEF LogReplaced
  <2>6. CASE lpc' = "remove"
    <3>1. slot' = slot + 1
      BY <1>1, <2>6
    <3>2. ASSUME NEW i \in Files, i >= slot + 1 PROVE HasErrorsOf(i, i - 1)'
      <4>1. files'["err"][i] = files["err"][i] /\ i >= slot /\ i - 1 \in Files
        BY <1>3, <1>4, <3>2, RingFacts, LoggerAssumption DEF Files
      <4> QED BY <2>1, <2>2, <4>1, StillErrorsOf DEF ErrMoving
    <3>3. \A i \in Files : i < (slot + 1) - 1 <=> i < slot
      BY <1>3
    <3>4. ErrMoving'
      BY <2>3, <2>4, <3>1, <3>2, <3>3 DEF ErrMoving
    <3> QED BY <1>1, <1>7, <2>5, <2>6, <3>4 DEF RingsMatch
  <2>7. CASE lpc' = "open"
    <3>1. slot = MAX_LOOP_FILE /\ slot' = MAX_LOOP_FILE
      BY <1>1, <1>3, <2>7
    <3>2. RingShape("err")'
      BY <1>1, RingFacts DEF MatchInv, OrderInv, RingsShaped, RenameNext
    <3>3. \A i \in Files : i \in Kept("err")' <=> i < MAX_LOOP_FILE
      BY <1>1, <1>7, <2>7, <3>1, <3>2 DEF RingShape
    <3>4. \A i \in Files : i \in Kept("err")' <=> i \in Kept("log")' /\ i # open'["log"]
      BY <1>1, <1>3, <2>3, <2>5, <3>3
    <3>5. \A i \in Kept("err")' : HasErrorsOf(i, i)'
      <4>1. Kept("err")' \subseteq Files
        BY DEF Kept
      <4> QED BY <2>4, <3>1, <3>3, <4>1
    <3>6. LogLonger'
      BY <3>4, <3>5 DEF LogLonger
    <3> QED BY <1>1, <1>7, <2>5, <2>7, <3>6 DEF RingsMatch
  <2> QED BY <1>1, <2>6, <2>7
<1> QED BY <1>4, <1>6, <1>7 DEF Rings

(* A new file in the log, then one in the ring of errors. *)
LEMMA MatchOpen ==
    ASSUME MatchInv, OrderInv', ~split', OpenFile
    PROVE  RingsMatch'
<1>0. ~split
  BY SplitStays DEF LoggerNext
<1>1. /\ LoggerTypeOK /\ RingsMatch /\ RingShape("log") /\ RingShape("err")
      /\ ErrNeedsLog /\ OpenedIsNew /\ OpenFilesExist
  BY <1>0, MatchFacts
<1>2. /\ ring \in Rings /\ slot \in Files /\ slot # 0 /\ lpc = "open"
      /\ files[ring][slot] = NoLog /\ slot \notin Kept(ring)
  BY <1>1, RingFacts DEF LoggerTypeOK, OpenFile, OpenedIsNew, Exists, Kept
<1>3. /\ files' = [files EXCEPT ![ring][slot] = <<>>]
      /\ \/ /\ ring = "log" /\ open' = [open EXCEPT !["log"] = slot, !["err"] = 0]
            /\ ring' = "err" /\ lpc' = "find"
         \/ /\ ring = "err" /\ open' = [open EXCEPT !["err"] = slot]
            /\ lpc' = "emit" /\ ring' = "err"
  BY <1>2 DEF OpenFile
<1>4. \A q \in Rings, i \in Files :
        /\ ~(q = ring /\ i = slot) => files'[q][i] = files[q][i]
        /\ q = ring /\ i = slot => files'[q][i] = <<>>
  BY <1>1, <1>2, <1>3 DEF LoggerTypeOK
<1>5. \/ /\ ring = "log" /\ open'["log"] = slot /\ ring' = "err" /\ lpc' = "find"
      \/ /\ ring = "err" /\ open'["err"] = slot /\ open'["log"] = open["log"]
         /\ lpc' = "emit" /\ ring' = "err"
  BY <1>1, <1>3, RingFacts DEF LoggerTypeOK
<1>6. <<>> # NoLog
  <2>1. <<>> \in Seq(Line)
    OBVIOUS
  <2> QED BY <2>1, LoggerAssumption
<1>7. \A q \in Rings, i \in Files : i \in Kept(q)' <=> i \in Kept(q) \/ (q = ring /\ i = slot)
  BY <1>4, <1>6 DEF Kept
<1>8. /\ Kept("log") \subseteq Files /\ Kept("err") \subseteq Files
      /\ Kept("log")' \subseteq Files /\ Kept("err")' \subseteq Files
  BY DEF Kept
<1>9. CASE ring = "log"
  <2>1. Together
    BY <1>1, <1>2, <1>9 DEF RingsMatch
  <2>2. files'["log"][open'["log"]] = <<>>
    BY <1>2, <1>4, <1>5, <1>9, RingFacts
  <2>3. \A i \in Files : files'["err"][i] = files["err"][i] /\ (i \in Kept("err")' <=> i \in Kept("err"))
    BY <1>4, <1>7, <1>9, RingFacts
  <2>4. \A i \in Files : /\ i # slot => files'["log"][i] = files["log"][i]
                         /\ i \in Kept("log")' <=> i \in Kept("log") \/ i = slot
    BY <1>4, <1>7, <1>9, RingFacts
  <2>5. CASE InStep
    <3>1. \A i \in Files : i \in Kept("err")' <=> i \in Kept("log")' /\ i # open'["log"]
      <4>1. Kept("err") = Kept("log")
        BY <2>5 DEF InStep
      <4>2. open'["log"] = slot /\ slot \notin Kept("log")
        BY <1>2, <1>5, <1>9, RingFacts
      <4> QED BY <2>3, <2>4, <4>1, <4>2
    <3>2. ASSUME NEW i \in Kept("err")' PROVE HasErrorsOf(i, i)'
      <4>1. i \in Files /\ i \in Kept("log") /\ i # slot
        BY <1>2, <1>8, <1>9, <2>3, <2>5 DEF InStep
      <4> QED BY <2>3, <2>4, <2>5, <4>1, StillErrorsOf DEF InStep
    <3>3. LogLonger'
      BY <3>1, <3>2 DEF LogLonger
    <3> QED BY <1>5, <1>9, <2>2, <3>3, RingFacts DEF RingsMatch
  <2>6. CASE LogAhead
    <3>1. MAX_LOOP_FILE \in Files
      BY LoggerAssumption DEF Files
    <3>2. slot = MAX_LOOP_FILE
      BY <1>2, <1>9, <2>6, <3>1 DEF LogAhead
    <3>3. LogReplaced' /\ \A i \in Files : i \in Kept("err")'
      BY <1>5, <1>9, <2>3, <2>4, <2>6, <3>2, RingFacts DEF LogAhead, LogReplaced
    <3>4. ASSUME NEW i \in Files, i < MAX_LOOP_FILE PROVE HasErrorsOf(i + 1, i)'
      <4>1. i + 1 \in Files /\ i # MAX_LOOP_FILE
        BY <3>4, LoggerAssumption DEF Files
      <4> QED BY <2>3, <2>4, <2>6, <3>2, <3>4, <4>1, StillErrorsOf DEF LogAhead
    <3> QED BY <1>5, <1>9, <2>2, <3>3, <3>4, RingFacts DEF RingsMatch
  <2> QED BY <2>1, <2>5, <2>6 DEF Together
<1>10. CASE ring = "err"
  <2>1. LogLonger /\ files["log"][open["log"]] = <<>> /\ open["log"] # 0
    BY <1>1, <1>2, <1>10 DEF RingsMatch, ErrNeedsLog
  <2>2. open["log"] \in Files /\ open["log"] \in Kept("log")
    BY <1>1, <2>1, RingFacts DEF LoggerTypeOK, OpenFilesExist, Kept
  <2>3. \A i \in Kept("log") : i <= open["log"]
    BY <1>1, <2>1 DEF RingShape
  <2>4. \A i \in Kept("log"), j \in Files : j < i => j \in Kept("log")
    BY <1>1, <1>10, RingFacts DEF RingShape
  <2>5. \A i \in Files : i \in Kept("err") <=> i < slot
    BY <1>1, <1>2, <1>10 DEF RingShape
  <2>6. \A i \in Files : i \in Kept("err") <=> i \in Kept("log") /\ i # open["log"]
    BY <2>1 DEF LogLonger
  <2>7. \A i \in Files : i \in Nat
    BY RingFacts
  <2>8. slot = open["log"]
    <3> DEFINE o == open["log"]
    <3>1. \A i \in Files : i < slot <=> i < o
      BY <2>2, <2>3, <2>4, <2>5, <2>6, <2>7
    <3> HIDE DEF o
    <3>2. slot \in Files /\ o \in Files
      BY <1>2, <2>2 DEF o
    <3>3. slot = o
      BY <2>7, <3>1, <3>2
    <3> QED BY <3>3 DEF o
  <2>9. \A i \in Files : files'["log"][i] = files["log"][i] /\ (i \in Kept("log")' <=> i \in Kept("log"))
    BY <1>4, <1>7, <1>10, RingFacts
  <2>10. \A i \in Files : /\ i # slot => files'["err"][i] = files["err"][i]
                          /\ i \in Kept("err")' <=> i \in Kept("err") \/ i = slot
    BY <1>4, <1>7, <1>10, RingFacts
  <2>11. files'["err"][slot] = <<>> /\ files'["log"][slot] = <<>>
    BY <1>2, <1>4, <1>10, <2>1, <2>8, <2>9, RingFacts
  <2>12. Kept("err")' = Kept("log")'
    BY <1>8, <2>2, <2>6, <2>8, <2>9, <2>10
  <2>13. ASSUME NEW i \in Kept("log")' PROVE HasErrorsOf(i, i)'
    <3>1. CASE i = slot
      <4>1. DOMAIN <<>> = {}
        OBVIOUS
      <4>2. files'["err"][i] = <<>> /\ files'["log"][i] = <<>>
        BY <2>11, <3>1
      <4>3. Lines("err", i)' = {} /\ Lines("log", i)' = {}
        BY <4>1, <4>2 DEF Lines
      <4> QED BY <4>3 DEF HasErrorsOf
    <3>2. CASE i # slot
      <4>1. i \in Files /\ i \in Kept("err")
        BY <1>8, <2>6, <2>8, <2>9, <3>2
      <4> QED BY <2>1, <2>9, <2>10, <3>2, <4>1, StillErrorsOf DEF LogLonger
    <3> QED BY <3>1, <3>2
  <2>14. InStep'
    BY <2>12, <2>13 DEF InStep
  <2>15. lpc' = "emit" /\ ring' = "err" /\ open'["err"] = open'["log"]
    BY <1>5, <1>10, <2>8, RingFacts
  <2> QED BY <2>14, <2>15 DEF RingsMatch, Together
<1> QED BY <1>2, <1>9, <1>10 DEF Rings

(* A line appended is one line more. *)
LEMMA AppendLines ==
    ASSUME LoggerTypeOK, NEW r \in Rings, open[r] # 0, open[r] \in Kept(r),
           files' = WithLine(r), open' = open
    PROVE  /\ Lines(r, open[r])' = Lines(r, open[r]) \cup {NewLine}
           /\ \A q \in Rings, i \in Files : ~(q = r /\ i = open[r]) => Lines(q, i)' = Lines(q, i)
           /\ \A q \in Rings : Kept(q)' = Kept(q)
<1> DEFINE s == files[r][open[r]]
           c == Append(s, NewLine)
<1>1. open[r] \in Files /\ s \in Seq(Line)
  BY KeptFacts
<1>2. NewLine \in Line
  BY DEF NewLine, Line, LoggerTypeOK
<1>3. files' = [files EXCEPT ![r][open[r]] = c]
  BY DEF WithLine
<1>4. files'[r][open[r]] = c
  BY <1>1, <1>3 DEF LoggerTypeOK
<1> HIDE DEF s
<1>5. /\ Len(s) \in Nat /\ DOMAIN s = 1 .. Len(s) /\ DOMAIN c = 1 .. Len(s) + 1
      /\ \A a \in 1 .. Len(s) : c[a] = s[a]
      /\ c[Len(s) + 1] = NewLine
  BY <1>1, <1>2
<1> HIDE DEF c
<1>6. {c[a] : a \in DOMAIN c} = {s[a] : a \in DOMAIN s} \cup {NewLine}
  <2>1. \A a : a \in DOMAIN c <=> a \in DOMAIN s \/ a = Len(s) + 1
    BY <1>5
  <2>2. \A a \in DOMAIN s : c[a] = s[a]
    BY <1>5
  <2> QED BY <1>5, <2>1, <2>2
<1>7. Lines(r, open[r])' = {c[a] : a \in DOMAIN c}
  BY <1>4 DEF Lines
<1>8. Lines(r, open[r]) = {s[a] : a \in DOMAIN s}
  BY DEF Lines, s
<1>9. /\ \A q \in Rings, i \in Files : ~(q = r /\ i = open[r]) => files'[q][i] = files[q][i]
      /\ \A q \in Rings : Kept(q)' = Kept(q)
  BY AppendFacts
<1>10. \A q \in Rings, i \in Files : ~(q = r /\ i = open[r]) => Lines(q, i)' = Lines(q, i)
  BY <1>9 DEF Lines
<1> QED BY <1>6, <1>7, <1>8, <1>9, <1>10

(* An error is written to its file, *)
LEMMA MatchEmit ==
    ASSUME MatchInv, OrderInv', ~split', Emit
    PROVE  RingsMatch'
<1>0. ~split
  BY SplitStays DEF LoggerNext
<1>1. /\ LoggerTypeOK /\ RingsMatch /\ ErrNeedsLog /\ RoomForLine /\ OpenFilesExist
  BY <1>0, MatchFacts
<1>2. /\ lpc = "emit" /\ open' = open /\ written' = written
      /\ \/ lpc' = "idle" /\ ring' = "log" /\ files' = files
         \/ /\ lpc' = "emitlog" /\ text' = text /\ level' = level
            /\ files' = IF level = "error" THEN WithLine("err") ELSE files
  BY DEF Emit, Return
<1>3. Together /\ (open["log"] # 0 => open["err"] = open["log"])
  BY <1>1, <1>2 DEF RingsMatch
<1>4. open["log"] = 0 => open["err"] = 0
  BY <1>1, <1>2, LoggerAssumption DEF ErrNeedsLog, RoomForLine, LoggerTypeOK
<1>5. CASE lpc' = "idle" /\ ring' = "log" /\ files' = files
  <2>1. (InStep' <=> InStep) /\ (LogAhead' <=> LogAhead)
    BY <1>5, SameRings
  <2>2. Together'
    BY <1>2, <1>3, <2>1 DEF Together
  <2> QED BY <1>2, <1>3, <1>5, <2>2 DEF RingsMatch
<1>6. CASE /\ lpc' = "emitlog" /\ text' = text /\ level' = level
           /\ files' = IF level = "error" THEN WithLine("err") ELSE files
  <2>1. NewLine' = NewLine /\ NewLine.level = level
    BY <1>2, <1>6 DEF NewLine
  <2>2. CASE open["log"] = 0
    <3>1. files' = files
      BY <1>4, <1>6, <2>2 DEF WithLine
    <3>2. (InStep' <=> InStep) /\ (LogAhead' <=> LogAhead)
      BY <3>1, SameRings
    <3>3. Together'
      BY <1>2, <1>3, <3>2 DEF Together
    <3> QED BY <1>2, <1>6, <2>2, <3>3 DEF RingsMatch
  <2>3. CASE open["log"] # 0
    <3>1. InStep /\ open["err"] = open["log"]
      BY <1>3, <2>3 DEF Together
    <3>2. /\ open["log"] \in Files /\ open["log"] \in Kept("log") /\ open["err"] \in Kept("err")
          /\ Kept("log") \subseteq Files
      BY <1>1, <2>3, <3>1, RingFacts DEF LoggerTypeOK, OpenFilesExist, Kept, InStep
    <3>3. HasErrorsOf(open["log"], open["log"])
      BY <3>1, <3>2 DEF InStep
    <3>4. ErrorFirst'
      <4>1. CASE level = "error"
        <5>1. files' = WithLine("err")
          BY <1>6, <4>1
        <5>2. /\ Lines("err", open["err"])' = Lines("err", open["err"]) \cup {NewLine}
              /\ \A q \in Rings, i \in Files :
                    ~(q = "err" /\ i = open["err"]) => Lines(q, i)' = Lines(q, i)
              /\ \A q \in Rings : Kept(q)' = Kept(q)
          BY <1>1, <1>2, <2>3, <3>1, <3>2, <5>1, AppendLines, RingFacts
        <5>3. Kept("err")' = Kept("log")' /\ Kept("log")' = Kept("log")
          BY <3>1, <5>2, RingFacts DEF InStep
        <5>4. ASSUME NEW i \in Kept("log"), i # open["log"] PROVE HasErrorsOf(i, i)'
          <6>1. Lines("err", i)' = Lines("err", i) /\ Lines("log", i)' = Lines("log", i)
            BY <3>1, <3>2, <5>2, <5>4, RingFacts
          <6>2. HasErrorsOf(i, i)
            BY <3>1 DEF InStep
          <6> QED BY <6>1, <6>2 DEF HasErrorsOf
        <5>5. Lines("log", open["log"])' = Lines("log", open["log"])
          <6>1. \A i \in Files : Lines("log", i)' = Lines("log", i)
            BY <5>2, RingFacts
          <6>2. ASSUME NEW i \in Files, i = open["log"]
                PROVE  Lines("log", open["log"])' = Lines("log", i)'
            BY <1>2, <6>2 DEF Lines
          <6> QED BY <3>2, <6>1, <6>2
        <5>6. Lines("err", open["log"])' = Lines("err", open["log"]) \cup {NewLine}
          <6>1. Lines("err", open["log"])' = Lines("err", open["err"])'
            BY <1>2, <3>1 DEF Lines
          <6> QED BY <3>1, <5>2, <6>1
        <5>7. {l \in {NewLine'} : l.level = "error"} = {NewLine}
          BY <2>1, <4>1
        <5>8. Lines("err", open["log"]) = {l \in Lines("log", open["log"]) : l.level = "error"}
          BY <3>3 DEF HasErrorsOf
        <5> QED BY <1>2, <5>3, <5>4, <5>5, <5>6, <5>7, <5>8 DEF ErrorFirst
      <4>2. CASE level # "error"
        <5>1. files' = files
          BY <1>6, <4>2
        <5>2. /\ Kept("log")' = Kept("log") /\ Kept("err")' = Kept("err")
              /\ \A i, j : HasErrorsOf(j, i)' <=> HasErrorsOf(j, i)
          BY <5>1, SameRings
        <5>3. /\ Lines("err", open["log"])' = Lines("err", open["log"])
              /\ Lines("log", open["log"])' = Lines("log", open["log"])
          BY <1>2, <5>1 DEF Lines
        <5>4. {l \in {NewLine'} : l.level = "error"} = {}
          BY <2>1, <4>2
        <5>5. Lines("err", open["log"]) = {l \in Lines("log", open["log"]) : l.level = "error"}
          BY <3>3 DEF HasErrorsOf
        <5>6. \A i \in Kept("log")' : HasErrorsOf(i, i)'
          BY <3>1, <5>2 DEF InStep
        <5> QED BY <1>2, <3>1, <5>2, <5>3, <5>4, <5>5, <5>6 DEF ErrorFirst, InStep
      <4> QED BY <4>1, <4>2
    <3> QED BY <1>2, <1>6, <2>3, <3>1, <3>4 DEF RingsMatch
  <2> QED BY <2>2, <2>3
<1> QED BY <1>2, <1>5, <1>6

(* and then to the log. *)
LEMMA MatchEmitLog ==
    ASSUME MatchInv, OrderInv', ~split', EmitLog
    PROVE  RingsMatch'
<1>0. ~split
  BY SplitStays DEF LoggerNext
<1>1. /\ LoggerTypeOK /\ RingsMatch /\ OpenFilesExist
  BY <1>0, MatchFacts
<1>2. /\ lpc = "emitlog" /\ open' = open /\ lpc' = "idle" /\ ring' = "log"
      /\ files' = WithLine("log")
  BY DEF EmitLog, Return
<1>3. open["log"] # 0 => open["err"] = open["log"]
  BY <1>1, <1>2 DEF RingsMatch
<1>4. CASE open["log"] = 0
  <2>1. files' = files /\ Together
    BY <1>1, <1>2, <1>4 DEF WithLine, RingsMatch
  <2>2. (InStep' <=> InStep) /\ (LogAhead' <=> LogAhead)
    BY <2>1, SameRings
  <2>3. Together'
    BY <1>2, <2>1, <2>2 DEF Together
  <2> QED BY <1>2, <1>3, <2>3 DEF RingsMatch
<1>5. CASE open["log"] # 0
  <2>1. ErrorFirst
    BY <1>1, <1>2, <1>5 DEF RingsMatch
  <2>2. open["log"] \in Files /\ open["log"] \in Kept("log") /\ Kept("log") \subseteq Files
    BY <1>1, <1>5, RingFacts DEF LoggerTypeOK, OpenFilesExist, Kept
  <2>3. /\ Lines("log", open["log"])' = Lines("log", open["log"]) \cup {NewLine}
        /\ \A q \in Rings, i \in Files :
              ~(q = "log" /\ i = open["log"]) => Lines(q, i)' = Lines(q, i)
        /\ \A q \in Rings : Kept(q)' = Kept(q)
    BY <1>1, <1>2, <1>5, <2>2, AppendLines, RingFacts
  <2>4. Kept("err")' = Kept("log")' /\ Kept("log")' = Kept("log")
    BY <2>1, <2>3, RingFacts DEF ErrorFirst
  <2>5. ASSUME NEW i \in Kept("log") PROVE HasErrorsOf(i, i)'
    <3>1. Lines("err", i)' = Lines("err", i) /\ i \in Files
      BY <2>2, <2>3, RingFacts
    <3>2. CASE i # open["log"]
      <4>1. Lines("log", i)' = Lines("log", i) /\ HasErrorsOf(i, i)
        BY <2>1, <2>3, <3>1, <3>2, RingFacts DEF ErrorFirst
      <4> QED BY <3>1, <4>1 DEF HasErrorsOf
    <3>3. CASE i = open["log"]
      <4>1. Lines("log", i)' = Lines("log", i) \cup {NewLine}
        <5>1. Lines("log", i)' = Lines("log", open["log"])'
          BY <1>2, <3>3 DEF Lines
        <5> QED BY <2>3, <3>3, <5>1
      <4>2. Lines("err", i) = {l \in Lines("log", i) : l.level = "error"}
                                 \cup {l \in {NewLine} : l.level = "error"}
        BY <2>1, <3>3 DEF ErrorFirst
      <4> QED BY <3>1, <4>1, <4>2 DEF HasErrorsOf
    <3> QED BY <3>2, <3>3
  <2>6. InStep'
    BY <2>4, <2>5 DEF InStep
  <2> QED BY <1>2, <1>3, <2>6 DEF RingsMatch, Together
<1> QED BY <1>4, <1>5

LEMMA MatchStepInv == MatchInv /\ [LoggerNext]_logVars => MatchInv'
<1> SUFFICES ASSUME MatchInv, [LoggerNext]_logVars PROVE MatchInv'
  OBVIOUS
<1>1. OrderInv'
  BY OrderStepInv DEF MatchInv
<1>2. CASE LoggerNext
  <2>1. ASSUME ~split' PROVE gapped' = {} /\ RingsMatch'
    <3>0. ~split
      BY <1>2, <2>1, SplitStays
    <3>1. gapped = {}
      BY <3>0 DEF MatchInv
    <3>2. gapped' = {}
      <4>1. CASE Die
        <5>1. split' = (split \/ lpc \in {"remove", "rename", "emitlog"}
                              \/ (ring = "err" /\ lpc \in {"find", "open"}))
          BY <4>1 DEF Die
        <5>2. lpc \notin {"remove", "rename"}
          BY <2>1, <5>1, Zenon
        <5> QED BY <3>1, <4>1, <5>2 DEF Die
      <4>2. CASE ~Die
        BY <1>2, <3>1, <4>2 DEF LoggerNext, log_init, log_string, FindFile, RemovePrev,
           RenameNext, OpenFile, OpenFails, Emit, EmitLog
      <4> QED BY <4>1, <4>2
    <3>3. RingsMatch'
      <4>1. CASE log_init \/ log_string \/ OpenFails \/ Die
        BY <1>1, <2>1, <4>1, MatchQuiet
      <4>2. CASE FindFile
        BY <1>1, <2>1, <4>2, MatchFind
      <4>3. CASE RemovePrev
        BY <1>1, <2>1, <4>3, MatchRemove
      <4>4. CASE RenameNext
        BY <1>1, <2>1, <4>4, MatchRename
      <4>5. CASE OpenFile
        BY <1>1, <2>1, <4>5, MatchOpen
      <4>6. CASE Emit
        BY <1>1, <2>1, <4>6, MatchEmit
      <4>7. CASE EmitLog
        BY <1>1, <2>1, <4>7, MatchEmitLog
      <4> QED BY <1>2, <4>1, <4>2, <4>3, <4>4, <4>5, <4>6, <4>7 DEF LoggerNext
    <3> QED BY <3>2, <3>3
  <2> QED BY <1>1, <2>1 DEF MatchInv
<1>3. CASE UNCHANGED logVars
  <2>1. UNCHANGED <<files, open, lpc, ring, slot, text, level, written, gapped, split>>
    BY <1>3 DEF logVars
  <2>2. /\ Kept("log")' = Kept("log") /\ Kept("err")' = Kept("err")
        /\ (InStep' <=> InStep) /\ (LogAhead' <=> LogAhead) /\ (LogLonger' <=> LogLonger)
        /\ \A i, j : HasErrorsOf(j, i)' <=> HasErrorsOf(j, i)
    BY <2>1, SameRings
  <2>3. NewLine' = NewLine
    BY <2>1 DEF NewLine
  <2>4. /\ Lines("err", open["log"])' = Lines("err", open["log"])
        /\ Lines("log", open["log"])' = Lines("log", open["log"])
    BY <2>1 DEF Lines
  <2>5. (Together' <=> Together) /\ (ErrorFirst' <=> ErrorFirst) /\ (LogReplaced' <=> LogReplaced)
    BY <2>1, <2>2, <2>3, <2>4 DEF Together, ErrorFirst, LogReplaced
  <2>6. (LogMoving' <=> LogMoving) /\ (ErrMoving' <=> ErrMoving)
    BY <2>1, <2>2, <2>5 DEF LogMoving, ErrMoving
  <2>7. RingsMatch' <=> RingsMatch
    BY <2>1, <2>2, <2>5, <2>6 DEF RingsMatch
  <2> QED BY <1>1, <2>1, <2>7 DEF MatchInv
<1> QED BY <1>2, <1>3

(* How far the two rings have moved against each other holds through every  *)
(* step of the two rotations of log_string and log_init, until a crash or a *)
(* failed open comes between them.                                          *)
THEOREM LoggerMatchInvariant == LoggerSpec => []MatchInv
<1>1. LoggerInit => MatchInv
  BY MatchInitInv
<1>2. MatchInv /\ [LoggerNext]_logVars => MatchInv'
  BY MatchStepInv
<1> QED BY <1>1, <1>2, PTL DEF LoggerSpec

(* Error file i has the errors of log file i, each once and in their order, *)
(* although move_log_file and move_err_file search their rings separately   *)
(* and log_string writes an error to one file and then to the other.        *)
THEOREM LoggerErrorsMatch == LoggerSpec => []ErrorsMatchLog
<1>1. MatchInv => ErrorsMatchLog
  <2> SUFFICES ASSUME MatchInv, lpc = "idle", open["log"] # 0, ~split PROVE
          /\ Kept("err") = Kept("log")
          /\ \A i \in Kept("log") :
                /\ HasErrorsOf(i, i)
                /\ \A r \in Rings : \A a, b \in DOMAIN files[r][i] :
                      a < b => files[r][i][a].n < files[r][i][b].n
    BY DEF ErrorsMatchLog
  <2>1. InStep
    BY DEF MatchInv, RingsMatch, Together
  <2>2. gapped = {} /\ RingsInOrder
    BY DEF MatchInv, OrderInv
  <2>3. \A r \in Rings : Kept(r) = Kept("log")
    BY <2>1, RingFacts DEF InStep
  <2>4. \A r \in Rings : \A i \in Kept(r) : \A a, b \in DOMAIN files[r][i] :
          a < b => files[r][i][a].n < files[r][i][b].n
    BY <2>2 DEF RingsInOrder
  <2> QED BY <2>1, <2>3, <2>4 DEF InStep
<1> QED BY <1>1, LoggerMatchInvariant, PTL
===========================================================================
