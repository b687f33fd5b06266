-------------------------- MODULE UploadAccepts --------------------------
(***************************************************************************)
(* Proofs about Upload: a body that reached the server whole, and whose     *)
(* first boundary the parser recognised, is accepted wherever its parts     *)
(* were cut and whatever other handlers do, for any set of names, workers   *)
(* and requests and any contents.                                           *)
(***************************************************************************)
EXTENDS UploadProofs, SequenceTheorems

(* Whether an octet-stream part is among parts, and the only one. *)
NoOctet(ps) == \A i \in DOMAIN ps : ps[i].kind # "octet"

OneOctet(ps, d) ==
    \E i \in DOMAIN ps :
        /\ ps[i].kind = "octet" /\ ps[i].data = d
        /\ \A j \in DOMAIN ps \ {i} : ps[j].kind # "octet"

(* What handler u has taken of its octet-stream part: what .tmp holds, and  *)
(* the piece append_to_file2 is about to write there.                       *)
Got(u) ==
    IF upc[u] = "append" THEN fs[Tmp(NameOf(u))] \o upiece[u]
    ELSE IF fs[Tmp(NameOf(u))] = NoFile THEN <<>>
    ELSE fs[Tmp(NameOf(u))]

(* Together with what is still to come it is the content of the name. *)
Accounted(u) ==
    \/ /\ NoOctet(uparts[u])
       /\ Got(u) = Body[NameOf(u)] /\ fs[Tmp(NameOf(u))] # NoFile
    \/ \E d \in Contents : OneOctet(uparts[u], d) /\ Got(u) \o d = Body[NameOf(u)]

(* The uploads WellFormedAccepted speaks of, while the body is received. *)
Sound(u) ==
    /\ upc[u] \in {"body", "append", "overwrite", "md5"}
    /\ ufresh[u] /\ ~ulost[u] /\ WellFormed(ureq[u]) /\ NameOf(u) \notin raced

Progress(u) ==
    Sound(u) =>
        /\ upc[u] = "append" => fd[u] = Tmp(NameOf(u))
        /\ upc[u] = "overwrite" => fd[u] = Meta(NameOf(u))
        /\ Accounted(u)

AcceptInv == UploadInv /\ \A u \in Uploaders : Progress(u)

---------------------------------------------------------------------------
(* Parts and pieces *)

LEMMA PieceJoins ==
    ASSUME NEW d \in Contents, NEW k \in 0 .. Len(d)
    PROVE  /\ SubSeq(d, 1, k) \in Contents /\ SubSeq(d, k + 1, Len(d)) \in Contents
           /\ SubSeq(d, 1, k) \o SubSeq(d, k + 1, Len(d)) = d
<1> USE DEF Contents
<1> DEFINE p == SubSeq(d, 1, k)
           q == SubSeq(d, k + 1, Len(d))
<1>0. Len(d) \in Nat /\ k \in Nat /\ k <= Len(d)
  OBVIOUS
<1>1. p \in Seq(Units) /\ Len(p) = k /\ \A i \in 1 .. k : p[i] = d[i]
  BY <1>0
<1>2. q \in Seq(Units) /\ Len(q) = Len(d) - k /\ \A i \in 1 .. Len(d) - k : q[i] = d[k + i]
  BY <1>0
<1> HIDE DEF p, q
<1>3. /\ p \o q \in Seq(Units) /\ Len(p \o q) = Len(d)
      /\ \A i \in 1 .. Len(d) : (p \o q)[i] = IF i <= k THEN p[i] ELSE q[i - k]
  BY <1>0, <1>1, <1>2, ConcatProperties
<1>4. \A i \in 1 .. Len(d) : (p \o q)[i] = d[i]
  <2> SUFFICES ASSUME NEW i \in 1 .. Len(d) PROVE (p \o q)[i] = d[i]
    OBVIOUS
  <2>1. CASE i <= k
    BY <1>0, <1>1, <1>3, <2>1
  <2>2. CASE ~(i <= k)
    <3>1. i - k \in 1 .. Len(d) - k /\ k + (i - k) = i
      BY <1>0, <2>2
    <3> QED BY <1>2, <1>3, <2>2, <3>1
  <2> QED BY <2>1, <2>2
<1>5. p \o q = d
  BY <1>3, <1>4, SeqEqual
<1> QED BY <1>1, <1>2, <1>5 DEF p, q

(* What follows the first part. *)
LEMMA TailOctet ==
    ASSUME NEW ps \in Seq(Part), ps # <<>>
    PROVE  /\ NoOctet(ps) => Head(ps).kind # "octet" /\ NoOctet(Tail(ps))
           /\ \A d : OneOctet(ps, d) /\ Head(ps).kind = "octet" =>
                        d = Head(ps).data /\ NoOctet(Tail(ps))
           /\ \A d : OneOctet(ps, d) /\ Head(ps).kind # "octet" => OneOctet(Tail(ps), d)
<1> DEFINE t == Tail(ps)
           L == Len(ps)
<1>1. L \in Nat /\ L # 0 /\ DOMAIN ps = 1 .. L /\ Head(ps) = ps[1]
  OBVIOUS
<1>2. t \in Seq(Part) /\ DOMAIN t = 1 .. L - 1 /\ \A i \in 1 .. L - 1 : t[i] = ps[i + 1]
  BY HeadTailProperties
<1> HIDE DEF t, L
<1>3. \A i \in DOMAIN t : i + 1 \in DOMAIN ps /\ i + 1 # 1 /\ t[i] = ps[i + 1]
  BY <1>1, <1>2
<1>4. 1 \in DOMAIN ps
  BY <1>1
<1>5. NoOctet(ps) => Head(ps).kind # "octet" /\ NoOctet(t)
  BY <1>1, <1>3, <1>4 DEF NoOctet
<1>6. ASSUME NEW d, OneOctet(ps, d), Head(ps).kind = "octet"
      PROVE  d = Head(ps).data /\ NoOctet(t)
  BY <1>1, <1>3, <1>4, <1>6 DEF NoOctet, OneOctet
<1>7. ASSUME NEW d, OneOctet(ps, d), Head(ps).kind # "octet"
      PROVE  OneOctet(t, d)
  <2>1. PICK i \in DOMAIN ps :
          /\ ps[i].kind = "octet" /\ ps[i].data = d
          /\ \A j \in DOMAIN ps \ {i} : ps[j].kind # "octet"
    BY <1>7 DEF OneOctet
  <2>2. i # 1
    BY <1>1, <1>7, <2>1
  <2>3. i - 1 \in DOMAIN t /\ (i - 1) + 1 = i
    BY <1>1, <1>2, <2>2
  <2>4. t[i - 1].kind = "octet" /\ t[i - 1].data = d
    BY <1>2, <2>1, <2>3
  <2>5. \A j \in DOMAIN t \ {i - 1} : t[j].kind # "octet"
    <3> SUFFICES ASSUME NEW j \in DOMAIN t, j # i - 1 PROVE t[j].kind # "octet"
      OBVIOUS
    <3>1. j + 1 \in DOMAIN ps /\ j + 1 # i /\ t[j] = ps[j + 1]
      BY <1>1, <1>2, <1>3
    <3> QED BY <2>1, <3>1
  <2> QED BY <2>3, <2>4, <2>5 DEF OneOctet
<1> QED BY <1>5, <1>6, <1>7 DEF t

(* ... and a part put before it. *)
LEMMA ConsOctet ==
    ASSUME NEW t \in Seq(Part), NEW h \in Part
    PROVE  /\ h.kind = "octet" /\ NoOctet(t) => OneOctet(<<h>> \o t, h.data)
           /\ h.kind # "octet" /\ NoOctet(t) => NoOctet(<<h>> \o t)
           /\ \A d : h.kind # "octet" /\ OneOctet(t, d) => OneOctet(<<h>> \o t, d)
<1> DEFINE s == <<h>> \o t
           L == Len(t)
<1>1. L \in Nat /\ DOMAIN t = 1 .. L
  OBVIOUS
<1>2. <<h>> \in Seq(Part) /\ Len(<<h>>) = 1 /\ <<h>>[1] = h
  OBVIOUS
<1>3. /\ s \in Seq(Part) /\ Len(s) = L + 1
      /\ \A i \in 1 .. L + 1 : s[i] = IF i <= 1 THEN <<h>>[i] ELSE t[i - 1]
  BY <1>1, <1>2, ConcatProperties
<1>4. DOMAIN s = 1 .. L + 1
  BY <1>3
<1> HIDE DEF s, L
<1>5. 1 \in DOMAIN s /\ s[1] = h
  BY <1>1, <1>2, <1>3, <1>4
<1>6. \A i \in DOMAIN s : i # 1 => i - 1 \in DOMAIN t /\ s[i] = t[i - 1] /\ i \in Nat
  BY <1>1, <1>3, <1>4
<1>7. \A i \in DOMAIN t : i + 1 \in DOMAIN s /\ i + 1 # 1 /\ s[i + 1] = t[i] /\ i \in Nat
  BY <1>1, <1>3, <1>4
<1>8. h.kind = "octet" /\ NoOctet(t) => OneOctet(s, h.data)
  BY <1>5, <1>6 DEF NoOctet, OneOctet
<1>9. h.kind # "octet" /\ NoOctet(t) => NoOctet(s)
  BY <1>5, <1>6 DEF NoOctet
<1>10. ASSUME NEW d, h.kind # "octet", OneOctet(t, d) PROVE OneOctet(s, d)
  <2>1. PICK i \in DOMAIN t :
          /\ t[i].kind = "octet" /\ t[i].data = d
          /\ \A j \in DOMAIN t \ {i} : t[j].kind # "octet"
    BY <1>10 DEF OneOctet
  <2>2. i + 1 \in DOMAIN s /\ s[i + 1].kind = "octet" /\ s[i + 1].data = d /\ i \in Nat
    BY <1>7, <2>1
  <2>3. \A j \in DOMAIN s \ {i + 1} : s[j].kind # "octet"
    <3> SUFFICES ASSUME NEW j \in DOMAIN s, j # i + 1 PROVE s[j].kind # "octet"
      OBVIOUS
    <3>1. CASE j = 1
      BY <1>5, <1>10, <3>1
    <3>2. CASE j # 1
      <4>1. j - 1 \in DOMAIN t /\ s[j] = t[j - 1] /\ j - 1 # i
        BY <1>6, <2>2, <3>2
      <4> QED BY <2>1, <4>1
    <3> QED BY <3>1, <3>2
  <2> QED BY <2>2, <2>3 DEF OneOctet
<1> QED BY <1>8, <1>9, <1>10 DEF s

---------------------------------------------------------------------------
(* Steps *)

LEMMA AcceptFrame ==
    ASSUME NEW v \in Uploaders, Progress(v), raced \subseteq raced',
           Sound(v)' =>
              /\ UNCHANGED <<upc[v], ureq[v], uparts[v], upiece[v], ufresh[v], ulost[v], fd[v]>>
              /\ fs'[Tmp(NameOf(v))] = fs[Tmp(NameOf(v))]
    PROVE  Progress(v)'
<1> SUFFICES ASSUME Sound(v)'
             PROVE  /\ upc'[v] = "append" => fd'[v] = Tmp(NameOf(v))'
                    /\ upc'[v] = "overwrite" => fd'[v] = Meta(NameOf(v))'
                    /\ Accounted(v)'
  BY DEF Progress
<1>1. /\ upc'[v] = upc[v] /\ ureq'[v] = ureq[v] /\ uparts'[v] = uparts[v] /\ upiece'[v] = upiece[v]
      /\ ufresh'[v] = ufresh[v] /\ ulost'[v] = ulost[v] /\ fd'[v] = fd[v]
      /\ fs'[Tmp(NameOf(v))] = fs[Tmp(NameOf(v))]
  OBVIOUS
<1>2. Tmp(NameOf(v))' = Tmp(NameOf(v)) /\ Meta(NameOf(v))' = Meta(NameOf(v)) /\ NameOf(v)' = NameOf(v)
  BY <1>1 DEF NameOf, Tmp, Meta
<1>3. Sound(v)
  BY <1>1, <1>2 DEF Sound, WellFormed
<1>4. Got(v)' = Got(v)
  BY <1>1, <1>2 DEF Got
<1>5. Accounted(v)' <=> Accounted(v)
  BY <1>1, <1>2, <1>4 DEF Accounted
<1> QED BY <1>1, <1>2, <1>3, <1>5 DEF Progress

LEMMA AcceptBegin ==
    ASSUME AcceptInv, NEW u \in Uploaders, NEW r \in Requests, UploadBegin(u, r),
           NEW v \in Uploaders
    PROVE  Progress(v)'
<1>1. UploadTypeOK /\ Progress(v) /\ r.name \in Names /\ UNCHANGED <<fs, fd>>
  BY UploadAssumption DEF AcceptInv, UploadInv, UploadRequest, UploadBegin
<1>2. CASE RefuseExisting(u, r)
  BY <1>1, <1>2, AcceptFrame DEF RefuseExisting, NameOf, Tmp
<1>3. CASE AcceptBody(u, r) /\ v # u
  <2>1. /\ UNCHANGED <<upc[v], ureq[v], uparts[v], upiece[v], ufresh[v], ulost[v]>>
        /\ raced \subseteq raced'
    BY <1>1, <1>3 DEF AcceptBody, UploadTypeOK
  <2> QED BY <1>1, <2>1, AcceptFrame
<1>4. CASE AcceptBody(u, r) /\ v = u
  <2>1. /\ upc'[u] = "body" /\ ureq'[u] = r /\ uparts'[u] = r.parts
        /\ ufresh'[u] = (fs[Tmp(r.name)] = NoFile)
    BY <1>1, <1>4 DEF AcceptBody, UploadTypeOK, file_exists
  <2> SUFFICES ASSUME Sound(u)' PROVE Accounted(u)'
    BY <1>4, <2>1 DEF Progress
  <2>2. fs'[Tmp(r.name)] = NoFile /\ WellFormed(r)
    BY <1>1, <2>1 DEF Sound
  <2>3. NameOf(u)' = r.name
    BY <2>1 DEF NameOf
  <2>4. Got(u)' = <<>>
    BY <2>1, <2>2, <2>3 DEF Got
  <2>5. Body[r.name] \in Contents
    BY <1>1, StorageAssumption
  <2>6. OneOctet(r.parts, Body[r.name])
    BY <2>2 DEF WellFormed, OneOctet
  <2>7. <<>> \o Body[r.name] = Body[r.name]
    BY <2>5, ConcatEmptySeq DEF Contents
  <2> QED BY <2>1, <2>3, <2>4, <2>5, <2>6, <2>7 DEF Accounted
<1> QED BY <1>2, <1>3, <1>4 DEF UploadBegin

(* A handler leaves the .tmp and the open file of another one alone, unless *)
(* they serve the same name.                                                *)
LEMMA AcceptOthers ==
    ASSUME AcceptInv, NEW u \in Uploaders, Handle(u), NEW v \in Uploaders, v # u
    PROVE  Progress(v)'
<1>1. UploadTypeOK /\ Progress(v) /\ OpenFileOfOwnName /\ OverlapIsRaced
  BY DEF AcceptInv, UploadInv
<1>2. /\ UNCHANGED <<upc[v], ureq[v], uparts[v], upiece[v], ufresh[v], ulost[v]>>
      /\ raced' = raced /\ Active(u) /\ ureq' = ureq
  BY <1>1 DEF Handle, MissBoundary, OpenPiece, AppendPiece, OverwritePiece, ClosePiece, SkipPart,
     EndBody, CheckMd5, RenameAndReply, Receiving, UploadTypeOK, Active
<1> SUFFICES ASSUME Sound(v)'
             PROVE  fd'[v] = fd[v] /\ fs'[Tmp(NameOf(v))] = fs[Tmp(NameOf(v))]
  BY <1>1, <1>2, AcceptFrame
<1> DEFINE n == NameOf(v)
           m == NameOf(u)
<1>3. n \in Names /\ m \in Names /\ u \in Slots /\ v \in Slots
  BY <1>1, NameFacts
<1>4. n # m /\ Active(v)
  BY <1>1, <1>2 DEF Sound, OverlapIsRaced, Active, NameOf
<1>5. /\ fd[v] # NoFd => fd[v] \in {Tmp(n), Meta(n), File(n)}
      /\ fd[u] # NoFd => fd[u] \in {Tmp(m), Meta(m), File(m)}
  BY <1>1, <1>3 DEF OpenFileOfOwnName
<1>6. /\ Tmp(n) \in Paths /\ Tmp(n) \notin {Tmp(m), Meta(m), File(m)}
      /\ Tmp(m) \in Paths /\ Meta(m) \in Paths /\ File(m) \in Paths
      /\ fd[v] \notin {Tmp(m), File(m)}
  BY <1>3, <1>4, <1>5, PathFacts, StorageAssumption
<1> HIDE DEF n, m
<1> USE <1>1, <1>3 DEF UploadTypeOK, StorageTypeOK
<1>7. CASE OpenPiece(u)
  <2>1. PICK p \in {Tmp(m), Meta(m)} : OpenTrunc(u, p) \/ OpenAppend(u, p)
    BY <1>7 DEF OpenPiece, OpenTarget, m
  <2>2. fs'[Tmp(n)] = fs[Tmp(n)] /\ fd'[v] = fd[v]
    BY <1>6, <2>1 DEF OpenTrunc, OpenAppend
  <2> QED BY <2>2 DEF n
<1>8. CASE AppendPiece(u) \/ OverwritePiece(u)
  <2>1. fd'[v] = fd[v]
    BY <1>8 DEF AppendPiece, OverwritePiece, ClosePiece, CloseFd
  <2>2. fs'[Tmp(n)] = fs[Tmp(n)]
    BY <1>5, <1>6, <1>8 DEF AppendPiece, OverwritePiece, WriteFd
  <2> QED BY <2>1, <2>2 DEF n
<1>9. CASE SkipPart(u) \/ MissBoundary(u) \/ EndBody(u) \/ CheckMd5(u)
  BY <1>9 DEF SkipPart, MissBoundary, EndBody, CheckMd5
<1>10. CASE RenameAndReply(u)
  <2>1. file_rename(Tmp(m), File(m))
    BY <1>10 DEF RenameAndReply, m
  <2>2. fs'[Tmp(n)] = fs[Tmp(n)] /\ fd'[v] = fd[v]
    BY <1>6, <2>1 DEF file_rename, Moved
  <2> QED BY <2>2 DEF n
<1> QED BY <1>7, <1>8, <1>9, <1>10 DEF Handle

(* A piece of the octet-stream part is on its way to .tmp, or one of        *)
(* another part to .metadata.                                               *)
LEMMA AcceptOpen ==
    ASSUME AcceptInv, NEW u \in Uploaders, OpenPiece(u)
    PROVE  Progress(u)'
<1>1. UploadTypeOK /\ Progress(u)
  BY DEF AcceptInv, UploadInv
<1> DEFINE n == NameOf(u)
           B == Body[n]
           h == Head(uparts[u])
           t == Tail(uparts[u])
           c == Got(u)
<1>2. n \in Names /\ u \in Slots /\ Tmp(n) \in Paths /\ Meta(n) \in Paths /\ Tmp(n) # Meta(n)
      /\ B \in Contents
  BY <1>1, NameFacts, PathFacts, StorageAssumption
<1> SUFFICES ASSUME Sound(u)'
             PROVE  /\ upc'[u] = "append" => fd'[u] = Tmp(NameOf(u))'
                    /\ upc'[u] = "overwrite" => fd'[u] = Meta(NameOf(u))'
                    /\ Accounted(u)'
  BY DEF Progress
<1>3. /\ upc[u] = "body" /\ uparts[u] # <<>> /\ uparts[u] \in Seq(Part) /\ h.kind # "other"
      /\ ureq' = ureq /\ raced' = raced /\ ufresh' = ufresh /\ ulost' = ulost /\ OpenTarget(u)
      /\ upc'[u] = IF Appends(u) THEN "append" ELSE "overwrite"
  BY <1>1 DEF OpenPiece, Receiving, UploadTypeOK, Current
<1>4. /\ NameOf(u)' = n /\ Tmp(NameOf(u))' = Tmp(n) /\ Meta(NameOf(u))' = Meta(n)
      /\ ureq'[u] = ureq[u]
  BY <1>3 DEF NameOf, Tmp, Meta
<1>5. Sound(u) /\ ureq[u].multipart
  BY <1>3, <1>4 DEF Sound, WellFormed, NameOf
<1>6. Accounted(u) /\ (Appends(u) <=> h.kind = "octet")
  BY <1>1, <1>5 DEF Progress, Appends, Current
<1>7. h \in Part /\ h.data \in Contents /\ h.kind \in {"octet", "json"} /\ t \in Seq(Part)
  <2>1. h \in Part /\ t \in Seq(Part)
    BY <1>3, HeadTailProperties
  <2> HIDE DEF h, t
  <2> QED BY <1>3, <2>1 DEF Part, PartKinds
<1>8. /\ c = IF fs[Tmp(n)] = NoFile THEN <<>> ELSE fs[Tmp(n)]
      /\ c \in Contents
  BY <1>1, <1>2, <1>3, EmptyContent DEF Got, UploadTypeOK, StorageTypeOK
<1>9. PICK k \in PieceLengths(u) :
        /\ \E d \in Written(u, SubSeq(h.data, 1, k)) : upiece' = [upiece EXCEPT ![u] = d]
        /\ uparts' = [uparts EXCEPT ![u] = AfterPiece(u, k)]
  BY DEF OpenPiece, Current
<1> DEFINE p == SubSeq(h.data, 1, k)
           q == SubSeq(h.data, k + 1, Len(h.data))
<1>10. k \in 0 .. Len(h.data)
  BY <1>7 DEF PieceLengths, Current, Contents
<1>11. /\ upiece'[u] = p
       /\ uparts'[u] = IF k = Len(h.data) THEN t ELSE <<[h EXCEPT !.data = q]>> \o t
  BY <1>1, <1>5, <1>9 DEF Written, AfterPiece, Current, UploadTypeOK
<1>12. p \in Contents /\ q \in Contents /\ p \o q = h.data
  BY <1>7, <1>10, PieceJoins
<1>13. k = Len(h.data) => p = h.data
  BY <1>7, SubSeqFull DEF Contents
<1>14. /\ [h EXCEPT !.data = q] \in Part /\ [h EXCEPT !.data = q].kind = h.kind
       /\ [h EXCEPT !.data = q].data = q
  BY <1>7, <1>12 DEF Part
<1>15. CASE h.kind = "octet"
  <2>1. OpenAppend(u, Tmp(n)) /\ upc'[u] = "append"
    BY <1>3, <1>6, <1>15 DEF OpenTarget, Current
  <2>2. fs'[Tmp(n)] = c /\ fd'[u] = Tmp(n) /\ c # NoFile
    BY <1>1, <1>2, <1>8, <2>1, EmptyContent DEF OpenAppend, UploadTypeOK, StorageTypeOK
  <2>3. Got(u)' = c \o p
    BY <1>4, <1>11, <2>1, <2>2 DEF Got
  <2>4. NoOctet(t) /\ c \o h.data = B
    <3> HIDE DEF h, t, c, B, n
    <3>1. ~NoOctet(uparts[u])
      BY <1>3, <1>15, TailOctet DEF h
    <3>2. PICK d \in Contents : OneOctet(uparts[u], d) /\ c \o d = B
      BY <1>6, <3>1 DEF Accounted, c, B, n
    <3> QED BY <1>3, <1>15, <3>2, TailOctet DEF h, t
  <2> HIDE DEF h, t, c, p, q, B, n
  <2>5. CASE k = Len(h.data)
    <3>1. NoOctet(uparts'[u]) /\ Got(u)' = B /\ fs'[Tmp(n)] # NoFile
      BY <1>11, <1>13, <2>2, <2>3, <2>4, <2>5
    <3> QED BY <1>4, <2>1, <2>2, <3>1 DEF Accounted, B
  <2>6. CASE k # Len(h.data)
    <3>1. OneOctet(uparts'[u], q)
      BY <1>7, <1>11, <1>14, <1>15, <2>4, <2>6, ConsOctet
    <3>2. (c \o p) \o q = c \o (p \o q)
      <4>1. c \in Seq(Units) /\ p \in Seq(Units) /\ q \in Seq(Units)
        BY <1>8, <1>12 DEF Contents
      <4> QED BY SMTT(30), <4>1, ConcatAssociative
    <3>3. Got(u)' \o q = B
      BY <1>12, <2>3, <2>4, <3>2
    <3> QED BY <1>4, <1>12, <2>1, <2>2, <3>1, <3>3 DEF Accounted, B
  <2> QED BY <2>5, <2>6
<1>16. CASE h.kind = "json"
  <2>1. OpenTrunc(u, Meta(n)) /\ upc'[u] = "overwrite"
    BY <1>3, <1>6, <1>16 DEF OpenTarget, Current
  <2>2. fs'[Tmp(n)] = fs[Tmp(n)] /\ fd'[u] = Meta(n)
    BY <1>1, <1>2, <2>1 DEF OpenTrunc, UploadTypeOK, StorageTypeOK
  <2>3. Got(u)' = c
    BY <1>4, <1>8, <2>1, <2>2 DEF Got
  <2> HIDE DEF h, t, c, p, q, B, n
  <2>4. ASSUME NoOctet(uparts[u]) PROVE NoOctet(uparts'[u])
    BY <1>3, <1>7, <1>11, <1>14, <1>16, <2>4, TailOctet, ConsOctet DEF h, t
  <2>5. ASSUME NEW d, OneOctet(uparts[u], d) PROVE OneOctet(uparts'[u], d)
    <3>1. OneOctet(t, d)
      BY <1>3, <1>16, <2>5, TailOctet DEF h, t
    <3> QED BY <1>7, <1>11, <1>14, <1>16, <3>1, ConsOctet
  <2>6. Accounted(u)'
    BY <1>4, <1>6, <2>2, <2>3, <2>4, <2>5 DEF Accounted, c, n
  <2> QED BY <1>4, <2>1, <2>2, <2>6
<1> QED BY <1>7, <1>15, <1>16

LEMMA AcceptWrite ==
    ASSUME AcceptInv, NEW u \in Uploaders, AppendPiece(u) \/ OverwritePiece(u)
    PROVE  Progress(u)'
<1>1. UploadTypeOK /\ Progress(u) /\ OpenFileOfOwnName
  BY DEF AcceptInv, UploadInv
<1> DEFINE n == NameOf(u)
<1>2. n \in Names /\ u \in Slots /\ Tmp(n) \in Paths /\ Meta(n) \in Paths /\ Tmp(n) # Meta(n)
      /\ Tmp(n) # NoFd /\ Meta(n) # NoFd
  BY <1>1, NameFacts, PathFacts, StorageAssumption
<1> SUFFICES ASSUME Sound(u)' PROVE Accounted(u)'
  BY <1>1 DEF Progress, AppendPiece, OverwritePiece, ClosePiece, UploadTypeOK
<1>3. /\ upc'[u] = "body" /\ uparts' = uparts /\ ureq' = ureq /\ raced' = raced
      /\ ufresh' = ufresh /\ ulost' = ulost
      /\ \/ upc[u] = "append" /\ WriteFd(u, LAMBDA x : x \o upiece[u])
         \/ upc[u] = "overwrite" /\ WriteFd(u, LAMBDA x : WriteAt(x, 0, upiece[u]))
  BY <1>1 DEF AppendPiece, OverwritePiece, ClosePiece, UploadTypeOK
<1>4. NameOf(u)' = n /\ Tmp(NameOf(u))' = Tmp(n) /\ ureq'[u] = ureq[u]
  BY <1>3 DEF NameOf, Tmp
<1>5. Sound(u) /\ Accounted(u)
  BY <1>1, <1>3, <1>4 DEF Sound, WellFormed, Progress, NameOf
<1>6. CASE upc[u] = "append"
  <2>1. fd[u] = Tmp(n)
    BY <1>1, <1>5, <1>6 DEF Progress
  <2>2. fs[Tmp(n)] \in Contents /\ upiece[u] \in Contents
    BY <1>1, <1>2, <2>1 DEF OpenFileOfOwnName, UploadTypeOK, StorageTypeOK
  <2>3. fs[Tmp(n)] \o upiece[u] \in Contents
    BY <2>2, ConcatProperties DEF Contents
  <2>4. fs'[Tmp(n)] = fs[Tmp(n)] \o upiece[u]
    BY <1>1, <1>2, <1>3, <1>6, <2>1 DEF WriteFd, UploadTypeOK, StorageTypeOK
  <2>5. fs'[Tmp(n)] # NoFile
    BY <2>3, <2>4, StorageAssumption
  <2>6. Got(u)' = Got(u)
    BY <1>3, <1>4, <1>6, <2>4, <2>5 DEF Got
  <2> QED BY <1>3, <1>4, <1>5, <2>5, <2>6 DEF Accounted
<1>7. CASE upc[u] = "overwrite"
  <2>1. fd[u] = Meta(n)
    BY <1>1, <1>5, <1>7 DEF Progress
  <2>2. fs'[Tmp(n)] = fs[Tmp(n)]
    BY <1>1, <1>2, <1>3, <1>7, <2>1 DEF WriteFd, UploadTypeOK, StorageTypeOK
  <2>3. Got(u)' = Got(u)
    BY <1>3, <1>4, <1>7, <2>2 DEF Got
  <2> QED BY <1>3, <1>4, <1>5, <2>2, <2>3 DEF Accounted
<1> QED BY <1>3, <1>6, <1>7

LEMMA AcceptRest ==
    ASSUME AcceptInv, NEW u \in Uploaders,
           \/ SkipPart(u) \/ MissBoundary(u) \/ EndBody(u) \/ CheckMd5(u)
           \/ RenameAndReply(u)
    PROVE  Progress(u)'
<1>1. UploadTypeOK /\ Progress(u)
  BY DEF AcceptInv, UploadInv
<1> SUFFICES ASSUME Sound(u)'
             PROVE  upc'[u] \notin {"append", "overwrite"} /\ Accounted(u)'
  BY DEF Progress
<1>2. CASE CheckMd5(u) \/ RenameAndReply(u)
  BY <1>1, <1>2 DEF CheckMd5, RenameAndReply, Sound, UploadTypeOK
<1>3. CASE SkipPart(u) \/ EndBody(u)
  <2>1. /\ upc[u] = "body" /\ upc'[u] \in {"body", "md5"}
        /\ UNCHANGED <<fs, ureq, upiece, ufresh, ulost, raced>>
    BY <1>1, <1>3 DEF SkipPart, EndBody, Receiving, UploadTypeOK
  <2>2. NameOf(u)' = NameOf(u) /\ Got(u)' = Got(u)
    BY <2>1 DEF NameOf, Got, Tmp
  <2>3. Sound(u) /\ Accounted(u) /\ ureq[u].multipart
    BY <1>1, <2>1, <2>2 DEF Sound, WellFormed, Progress
  <2>4. CASE EndBody(u)
    BY <2>1, <2>2, <2>3, <2>4 DEF EndBody, Accounted
  <2>5. CASE SkipPart(u)
    <3>1. /\ uparts[u] # <<>> /\ uparts[u] \in Seq(Part) /\ uparts'[u] = Tail(uparts[u])
          /\ Current(u).kind = "other" \/ PieceLengths(u) = {}
      BY <1>1, <2>5 DEF SkipPart, Receiving, UploadTypeOK
    <3>2. PieceLengths(u) # {}
      <4>1. Current(u).data \in Contents
        <5>1. Current(u) \in Part
          BY <3>1, HeadTailProperties DEF Current
        <5> QED BY <5>1 DEF Part
      <4>2. Current(u).data # <<>> => 1 \in 1 .. Len(Current(u).data)
        BY <4>1 DEF Contents
      <4> QED BY <2>3, <4>2 DEF PieceLengths
    <3>3. Head(uparts[u]).kind # "octet"
      BY <3>1, <3>2 DEF Current
    <3>4. /\ NoOctet(uparts[u]) => NoOctet(uparts'[u])
          /\ \A d : OneOctet(uparts[u], d) => OneOctet(uparts'[u], d)
      BY <3>1, <3>3, TailOctet
    <3> QED BY <2>1, <2>2, <2>3, <3>4 DEF Accounted
  <2> QED BY <1>3, <2>1, <2>4, <2>5
<1>4. CASE MissBoundary(u)
  BY <1>1, <1>4 DEF MissBoundary, Sound, UploadTypeOK
<1> QED BY <1>2, <1>3, <1>4

---------------------------------------------------------------------------
LEMMA AcceptStep == AcceptInv /\ [UploadNext]_uvars => AcceptInv'
<1> SUFFICES ASSUME AcceptInv, [UploadNext]_uvars PROVE AcceptInv'
  OBVIOUS
<1>1. UploadInv'
  BY InvNext DEF AcceptInv
<1> SUFFICES ASSUME NEW v \in Uploaders PROVE Progress(v)'
  BY <1>1 DEF AcceptInv
<1>2. ASSUME NEW u \in Uploaders, FileUploadCallback(u) \/ TempFileUploadCallback(u)
      PROVE  Progress(v)'
  BY <1>2, AcceptBegin DEF FileUploadCallback, TempFileUploadCallback
<1>3. ASSUME NEW u \in Uploaders, Handle(u)
      PROVE  Progress(v)'
  <2>1. CASE v # u
    BY <1>3, <2>1, AcceptOthers
  <2>2. CASE v = u
    BY <1>3, <2>2, AcceptOpen, AcceptWrite, AcceptRest DEF Handle
  <2> QED BY <2>1, <2>2
<1>4. CASE Restart
  BY <1>4 DEF Restart, UploadReset, Progress, Sound
<1>5. CASE UNCHANGED uvars
  <2>1. Progress(v)
    BY DEF AcceptInv
  <2> QED BY <1>5, <2>1, AcceptFrame DEF uvars
<1> QED BY <1>2, <1>3, <1>4, <1>5 DEF UploadNext

(* What a handler has received of a well-formed body and what is still to   *)
(* come make up the content of its name, at every step of the receivers     *)
(* given to content_reader.                                                 *)
THEOREM UploadAcceptInvariant == UploadSpec => []AcceptInv
<1>1. UploadInit => AcceptInv
  BY TypeInit, SafeInit DEF AcceptInv, UploadInv, UploadSafe, UploadInit, Progress, Sound
<1>2. AcceptInv /\ [UploadNext]_uvars => AcceptInv'
  BY AcceptStep
<1> QED BY <1>1, <1>2, PTL DEF UploadSpec

(* A complete multipart upload of the right content passes the md5 check of *)
(* FileUploadCallback and TempFileUploadCallback, wherever reads cut its    *)
(* parts and whatever uploads of other names do meanwhile, if no upload of  *)
(* its own name runs or left a .tmp behind and the boundary before its      *)
(* first part came in one read.  The last condition is needed: parser case  *)
(* 0 loses the part otherwise, as MissBoundary says.                        *)
THEOREM UploadAcceptsWellFormed == UploadSpec => []WellFormedAccepted
<1>1. AcceptInv => WellFormedAccepted
  <2> SUFFICES ASSUME AcceptInv, NEW u \in Uploaders,
                      Received(u), ufresh[u], ~ulost[u], WellFormed(ureq[u])
               PROVE  md5_is(Tmp(NameOf(u)), NameOf(u))
    BY DEF WellFormedAccepted
  <2>1. upc[u] = "md5" /\ uparts[u] = <<>> /\ Accounted(u)
    BY DEF AcceptInv, Progress, Sound, Received
  <2>2. \A d : ~OneOctet(uparts[u], d)
    BY <2>1 DEF OneOctet
  <2> QED BY <2>1, <2>2 DEF Accounted, Got, md5_is
<1> QED BY <1>1, UploadAcceptInvariant, PTL
===========================================================================
