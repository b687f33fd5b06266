-------------------------- MODULE MetadataProofs --------------------------
(***************************************************************************)
(* Proofs about FrsServer: the metadata of a name is one version a client   *)
(* sent, for any number of threads, names, requests, patches and restarts.  *)
(* HEAD is excepted: FileHeadCallback fetches the data object into the      *)
(* metadata file.                                                           *)
(***************************************************************************)
EXTENDS ServerProofs, SequenceTheorems

(* c is a piece of what some client sent as metadata. *)
OneVersion(c) == \E v \in MetaVersions : PieceOf(c, v)

(* d is the rest of it from some unit on. *)
RestOf(d, v) == \E k \in 1 .. Len(v) + 1 : d = SubSeq(v, k, Len(v))

(* p is metadata only if it is the rest of what a client sent. *)
RestPart(p) == p.kind = "json" => \E v \in MetaVersions : RestOf(p.data, v)

(* An upload receives pieces of what its client sent, and what it is about  *)
(* to write into a metadata file is one of them.                            *)
UploadMeta(u) ==
    /\ \A i \in DOMAIN uparts[u] : RestPart(uparts[u][i])
    /\ fd[u] = Meta(NameOf(u)) => upc[u] = "overwrite" /\ OneVersion(upiece[u])

(* An editor writes what its client sent. *)
EditMeta(s) == epc[s] \in {"open", "write"} => ebody[s] \in Patches

(* A reader writes what it fetched from Ceph. *)
FetchMeta(s) ==
    /\ rpc[s] # "idle" => rkind[s] # "head"
    /\ rpc[s] \in {"open", "fill"} /\ rkind[s] = "getmeta" /\ rname[s] \notin mixed =>
          OneVersion(rbody[s])

(* A metadata file has one writer, who found it empty or wrote what is in   *)
(* it so far.                                                               *)
MetaFile(n) ==
    /\ fs[Meta(n)] = NoFile \/ OneVersion(fs[Meta(n)])
    /\ ceph[Meta(n)] = NoFile \/ OneVersion(ceph[Meta(n)])
    /\ \A s, o \in Slots : fd[s] = Meta(n) /\ fd[o] = Meta(n) => s = o
    /\ \A s \in Slots \ Readers : fd[s] = Meta(n) => fs[Meta(n)] = <<>>
    /\ \A s \in Readers : fd[s] = Meta(n) => fs[Meta(n)] = SubSeq(rbody[s], 1, rpos[s])

MetaInv ==
    /\ ServerInv
    /\ \A u \in Uploaders : UploadMeta(u)
    /\ \A s \in Editors : EditMeta(s)
    /\ \A s \in Readers : FetchMeta(s)
    /\ \A n \in Names \ mixed : MetaFile(n)

---------------------------------------------------------------------------
(* Versions and their pieces *)

LEMMA VersionType == MetaVersions \subseteq Contents
<1>1. ASSUME NEW r \in Requests, NEW i \in JsonParts(r) PROVE r.parts[i].data \in Contents
  <2>1. r.parts \in Seq(Part) /\ i \in DOMAIN r.parts
    BY UploadAssumption DEF UploadRequest, JsonParts
  <2>2. r.parts[i] \in Part
    BY <2>1
  <2> QED BY <2>2 DEF Part
<1> QED BY <1>1, EditAssumption DEF MetaVersions

(* What a run of units is, unit by unit. *)
LEMMA RunFacts ==
    ASSUME NEW v \in Contents, NEW i \in 1 .. Len(v) + 1, NEW j \in 0 .. Len(v)
    PROVE  /\ SubSeq(v, i, j) \in Contents
           /\ Len(SubSeq(v, i, j)) = IF i <= j THEN j - i + 1 ELSE 0
           /\ \A k \in 1 .. j - i + 1 : SubSeq(v, i, j)[k] = v[i + k - 1]
<1>1. Len(v) \in Nat /\ DOMAIN v = 1 .. Len(v) /\ \A k \in 1 .. Len(v) : v[k] \in Units
  BY DEF Contents
<1>2. i \in Int /\ j \in Int /\ \A k \in i .. j : v[k] \in Units
  BY <1>1
<1> QED BY SMTT(30), <1>2, SubSeqProperties DEF Contents

(* A prefix of a run, and what follows it in a run to the end. *)
LEMMA RunPrefix ==
    ASSUME NEW v \in Contents, NEW i \in 1 .. Len(v) + 1, NEW j \in 0 .. Len(v),
           NEW m \in 0 .. Len(SubSeq(v, i, j))
    PROVE  /\ i + m - 1 \in 0 .. Len(v)
           /\ SubSeq(SubSeq(v, i, j), 1, m) = SubSeq(v, i, i + m - 1)
<1> DEFINE r == SubSeq(v, i, j)
           p == SubSeq(r, 1, m)
           w == SubSeq(v, i, i + m - 1)
<1>1. Len(v) \in Nat
  BY DEF Contents
<1>2. /\ r \in Contents /\ Len(r) = (IF i <= j THEN j - i + 1 ELSE 0)
      /\ \A k \in 1 .. j - i + 1 : r[k] = v[i + k - 1]
  BY RunFacts
<1>3. m \in Nat /\ i \in Nat /\ j \in Nat /\ (m = 0 \/ m <= j - i + 1)
  BY <1>1, <1>2
<1>31. i + m - 1 \in 0 .. Len(v) /\ m \in 0 .. Len(r) /\ 1 \in 1 .. Len(r) + 1
  BY <1>1, <1>2, <1>3
<1>4. p \in Contents /\ Len(p) = m /\ \A k \in 1 .. m : p[k] = r[k]
  <2> HIDE DEF r
  <2>1. /\ p \in Contents /\ Len(p) = (IF 1 <= m THEN m - 1 + 1 ELSE 0)
        /\ \A k \in 1 .. m - 1 + 1 : p[k] = r[1 + k - 1]
    BY <1>2, <1>31, RunFacts
  <2> QED BY <1>31, <2>1
<1>5. w \in Contents /\ Len(w) = m /\ \A k \in 1 .. m : w[k] = v[i + k - 1]
  <2>1. /\ w \in Contents
        /\ Len(w) = (IF i <= i + m - 1 THEN (i + m - 1) - i + 1 ELSE 0)
        /\ \A k \in 1 .. (i + m - 1) - i + 1 : w[k] = v[i + k - 1]
    BY <1>31, RunFacts
  <2>2. (i + m - 1) - i + 1 = m /\ (i <= i + m - 1 <=> m # 0)
    BY <1>31
  <2> QED BY <1>31, <2>1, <2>2
<1> HIDE DEF r, p, w
<1>6. ASSUME NEW k \in 1 .. m PROVE p[k] = w[k]
  <2>1. k \in 1 .. j - i + 1
    BY <1>3
  <2> QED BY <1>2, <1>4, <1>5, <2>1
<1>7. p = w
  BY <1>4, <1>5, <1>6, SeqEqual DEF Contents
<1> QED BY <1>31, <1>7 DEF p, w, r

LEMMA RunRest ==
    ASSUME NEW v \in Contents, NEW d, RestOf(d, v), NEW m \in 0 .. Len(d)
    PROVE  RestOf(SubSeq(d, m + 1, Len(d)), v)
<1>1. PICK i \in 1 .. Len(v) + 1 : d = SubSeq(v, i, Len(v))
  BY DEF RestOf
<1>2. Len(v) \in Nat /\ Len(v) \in 0 .. Len(v)
  BY DEF Contents
<1>3. /\ d \in Contents /\ Len(d) = Len(v) - i + 1
      /\ \A k \in 1 .. Len(v) - i + 1 : d[k] = v[i + k - 1]
  <2>1. /\ d \in Contents /\ Len(d) = (IF i <= Len(v) THEN Len(v) - i + 1 ELSE 0)
        /\ \A k \in 1 .. Len(v) - i + 1 : d[k] = v[i + k - 1]
    BY <1>1, <1>2, RunFacts
  <2> QED BY <1>2, <2>1
<1> DEFINE e == SubSeq(d, m + 1, Len(d))
           w == SubSeq(v, i + m, Len(v))
<1>4. m \in Nat /\ m + 1 \in 1 .. Len(d) + 1 /\ i + m \in 1 .. Len(v) + 1 /\ Len(d) \in 0 .. Len(d)
      /\ i \in Nat
  BY <1>2, <1>3
<1>5. e \in Contents /\ Len(e) = Len(d) - m /\ \A k \in 1 .. Len(d) - m : e[k] = d[m + k]
  <2>1. /\ e \in Contents /\ Len(e) = (IF m + 1 <= Len(d) THEN Len(d) - (m + 1) + 1 ELSE 0)
        /\ \A k \in 1 .. Len(d) - (m + 1) + 1 : e[k] = d[(m + 1) + k - 1]
    BY <1>3, <1>4, RunFacts
  <2>2. Len(d) \in Nat
    BY <1>2, <1>3
  <2>3. Len(d) - (m + 1) + 1 = Len(d) - m /\ \A k \in Nat : (m + 1) + k - 1 = m + k
    BY <1>4, <2>2
  <2>4. Len(e) = Len(d) - m
    BY <1>4, <2>1, <2>2
  <2>5. ASSUME NEW k \in 1 .. Len(d) - m PROVE e[k] = d[m + k]
    <3> HIDE DEF e
    <3>1. k \in 1 .. Len(d) - (m + 1) + 1 /\ (m + 1) + k - 1 = m + k
      BY <2>3
    <3>2. e[k] = d[(m + 1) + k - 1]
      BY <2>1, <3>1
    <3> QED BY <3>1, <3>2
  <2> QED BY <2>1, <2>4, <2>5
<1>6. w \in Contents /\ Len(w) = Len(d) - m /\ \A k \in 1 .. Len(d) - m : w[k] = v[i + m + k - 1]
  <2>1. /\ w \in Contents /\ Len(w) = (IF i + m <= Len(v) THEN Len(v) - (i + m) + 1 ELSE 0)
        /\ \A k \in 1 .. Len(v) - (i + m) + 1 : w[k] = v[(i + m) + k - 1]
    BY <1>2, <1>4, RunFacts
  <2>2. Len(v) - (i + m) + 1 = Len(d) - m
    BY <1>2, <1>3, <1>4
  <2> QED BY <1>2, <1>4, <2>1, <2>2
<1> HIDE DEF e, w
<1>7. \A k \in 1 .. Len(d) - m : e[k] = w[k]
  <2> SUFFICES ASSUME NEW k \in 1 .. Len(d) - m PROVE e[k] = w[k]
    OBVIOUS
  <2>1. m + k \in 1 .. Len(v) - i + 1 /\ i + (m + k) - 1 = i + m + k - 1
    BY <1>2, <1>3, <1>4
  <2>2. d[m + k] = v[i + (m + k) - 1]
    BY <1>3, <2>1
  <2> QED BY <1>5, <1>6, <2>1, <2>2
<1>8. e = w
  BY <1>5, <1>6, <1>7, SeqEqual DEF Contents
<1> QED BY <1>4, <1>8 DEF RestOf, e, w

(* A prefix of a piece is a piece, of the same version. *)
LEMMA PiecePrefix ==
    ASSUME NEW c, OneVersion(c)
    PROVE  /\ c \in Contents
           /\ \A k \in 0 .. Len(c) : OneVersion(SubSeq(c, 1, k))
           /\ OneVersion(<<>>)
<1>1. PICK v \in MetaVersions : PieceOf(c, v)
  BY DEF OneVersion
<1>2. v \in Contents
  BY VersionType
<1>3. PICK i \in 1 .. Len(v) + 1 : \E j \in 0 .. Len(v) :
        c \in {SubSeq(v, i, j), Append(SubSeq(v, i, j), Junk)}
  BY <1>1 DEF PieceOf
<1>4. PICK j \in 0 .. Len(v) : c \in {SubSeq(v, i, j), Append(SubSeq(v, i, j), Junk)}
  BY <1>3
<1> DEFINE r == SubSeq(v, i, j)
<1>5. r \in Contents /\ Len(r) \in Nat
  BY <1>2, RunFacts DEF Contents
<1>6. ASSUME NEW k \in 0 .. Len(r) PROVE OneVersion(SubSeq(r, 1, k))
  <2>1. i + k - 1 \in 0 .. Len(v) /\ SubSeq(r, 1, k) = SubSeq(v, i, i + k - 1)
    BY <1>2, RunPrefix
  <2> QED BY <2>1 DEF OneVersion, PieceOf
<1>7. OneVersion(<<>>)
  <2>1. SubSeq(r, 1, 0) = <<>>
    BY SubSeqEmpty
  <2>2. 0 \in 0 .. Len(r)
    BY <1>5
  <2> QED BY <1>6, <2>1, <2>2
<1>8. CASE c = r
  BY <1>5, <1>6, <1>7, <1>8
<1>9. CASE c = Append(r, Junk)
  <2> HIDE DEF r
  <2>1. /\ c \in Contents /\ Len(c) = Len(r) + 1
        /\ \A k \in 1 .. Len(r) : c[k] = r[k]
    BY <1>5, <1>9, StorageAssumption DEF Contents
  <2>2. ASSUME NEW k \in 0 .. Len(c) PROVE OneVersion(SubSeq(c, 1, k))
    <3>1. CASE k = Len(c)
      <4>1. SubSeq(c, 1, k) = c
        BY <2>1, <3>1, SubSeqFull DEF Contents
      <4> QED BY <4>1
    <3>2. CASE k # Len(c)
      <4>1. k \in 0 .. Len(r) /\ k \in Nat
        BY <1>5, <2>1, <3>2
      <4>2. /\ SubSeq(c, 1, k) \in Contents /\ Len(SubSeq(c, 1, k)) = k
            /\ \A m \in 1 .. k : SubSeq(c, 1, k)[m] = c[m]
        BY <2>1, <4>1 DEF Contents
      <4>3. /\ SubSeq(r, 1, k) \in Contents /\ Len(SubSeq(r, 1, k)) = k
            /\ \A m \in 1 .. k : SubSeq(r, 1, k)[m] = r[m]
        BY <1>5, <4>1 DEF Contents
      <4>4. \A m \in 1 .. k : SubSeq(c, 1, k)[m] = SubSeq(r, 1, k)[m]
        BY <1>5, <2>1, <4>1, <4>2, <4>3
      <4>5. SubSeq(c, 1, k) = SubSeq(r, 1, k)
        BY <4>2, <4>3, <4>4, SeqEqual DEF Contents
      <4> QED BY <1>6, <4>1, <4>5
    <3> QED BY <3>1, <3>2
  <2> QED BY <1>7, <2>1, <2>2
<1> QED BY <1>4, <1>8, <1>9

(* What a client sent, and pieces of what is left of it. *)
LEMMA VersionPieces ==
    ASSUME NEW v \in MetaVersions
    PROVE  /\ RestOf(v, v) /\ OneVersion(v) /\ OneVersion(<<>>)
           /\ \A d : RestOf(d, v) => \A m \in 0 .. Len(d) :
                        /\ OneVersion(SubSeq(d, 1, m))
                        /\ OneVersion(Append(SubSeq(d, 1, m), Junk))
<1>1. v \in Contents /\ Len(v) \in Nat
  BY VersionType DEF Contents
<1>2. 1 \in 1 .. Len(v) + 1 /\ Len(v) \in 0 .. Len(v)
  BY <1>1
<1>3. SubSeq(v, 1, Len(v)) = v
  BY <1>1, SubSeqFull DEF Contents
<1>4. RestOf(v, v)
  BY <1>2, <1>3 DEF RestOf
<1>5. PieceOf(v, v)
  BY <1>2, <1>3 DEF PieceOf
<1>6. OneVersion(v)
  BY <1>5 DEF OneVersion
<1>7. OneVersion(<<>>)
  BY <1>6, PiecePrefix
<1>8. ASSUME NEW d, RestOf(d, v), NEW m \in 0 .. Len(d)
      PROVE  OneVersion(SubSeq(d, 1, m)) /\ OneVersion(Append(SubSeq(d, 1, m), Junk))
  <2>1. PICK k \in 1 .. Len(v) + 1 : d = SubSeq(v, k, Len(v))
    BY <1>8 DEF RestOf
  <2>2. k + m - 1 \in 0 .. Len(v) /\ SubSeq(d, 1, m) = SubSeq(v, k, k + m - 1)
    BY <1>1, <1>2, <2>1, RunPrefix
  <2>3. PieceOf(SubSeq(d, 1, m), v) /\ PieceOf(Append(SubSeq(d, 1, m), Junk), v)
    BY <2>2 DEF PieceOf
  <2> QED BY <2>3 DEF OneVersion
<1> QED BY <1>4, <1>6, <1>7, <1>8

(* Written into an empty file, a content is the file. *)
LEMMA WriteEmpty ==
    ASSUME NEW d \in Contents
    PROVE  WriteAt(<<>>, 0, d) = d
<1> DEFINE w == WriteAt(<<>>, 0, d)
           e == <<>>
<1>1. e \in Contents /\ Len(e) = 0 /\ Len(d) \in Nat /\ d \in Seq(Units)
  BY DEF Contents
<1>2. Larger(0, 0 + Len(d)) = Len(d)
  BY <1>1 DEF Larger
<1> HIDE DEF e
<1>3. w = [i \in 1 .. Larger(Len(e), 0 + Len(d)) |->
             IF i > 0 /\ i <= 0 + Len(d) THEN d[i - 0]
             ELSE IF i <= Len(e) THEN e[i] ELSE Junk]
  BY DEF WriteAt, e
<1>4. w \in Contents /\ Len(w) = Len(d)
  <2>1. w \in Contents
    BY <1>1, WriteAtType DEF e
  <2>2. DOMAIN w = 1 .. Len(d)
    BY <1>1, <1>2, <1>3
  <2> HIDE DEF w
  <2> QED BY <1>1, <2>1, <2>2 DEF Contents
<1>5. \A i \in 1 .. Len(d) : w[i] = d[i]
  <2> SUFFICES ASSUME NEW i \in 1 .. Len(d) PROVE w[i] = d[i]
    OBVIOUS
  <2>1. i > 0 /\ i <= 0 + Len(d) /\ i - 0 = i
    BY <1>1
  <2>2. w[i] = IF i > 0 /\ i <= 0 + Len(d) THEN d[i - 0]
               ELSE IF i <= Len(e) THEN e[i] ELSE Junk
    BY <1>1, <1>2, <1>3
  <2> QED BY <2>1, <2>2
<1> HIDE DEF w
<1>6. w = d
  BY <1>1, <1>4, <1>5, SeqEqual DEF Contents
<1> QED BY <1>6 DEF w

(* The next unit of a fetched object, after the ones before it. *)
LEMMA FillPrefix ==
    ASSUME NEW b \in Contents, NEW p \in Nat, p < Len(b)
    PROVE  WriteAt(SubSeq(b, 1, p), p, <<b[p + 1]>>) = SubSeq(b, 1, p + 1)
<1> DEFINE c == SubSeq(b, 1, p)
           w == WriteAt(c, p, <<b[p + 1]>>)
           e == SubSeq(b, 1, p + 1)
<1>1. Len(b) \in Nat /\ b[p + 1] \in Units
  BY DEF Contents
<1>2. c \in Contents /\ Len(c) = p /\ \A i \in 1 .. p : c[i] = b[i]
  BY <1>1 DEF Contents
<1>3. e \in Contents /\ Len(e) = p + 1 /\ \A i \in 1 .. p + 1 : e[i] = b[i]
  BY <1>1 DEF Contents
<1> HIDE DEF c, e
<1>4. /\ w \in Contents /\ Len(w) = Larger(Len(c), p + 1)
      /\ w[p + 1] = b[p + 1]
      /\ \A i \in 1 .. Len(w) : i # p + 1 /\ i <= Len(c) => w[i] = c[i]
  <2> DEFINE x == b[p + 1]
  <2>1. x \in Units
    BY <1>1
  <2> HIDE DEF x
  <2>2. UnitPut(WriteAt(c, p, <<x>>), c, p, x)
    BY <1>2, <2>1, UnitWritten
  <2>3. UnitPut(w, c, p, x)
    BY <2>2 DEF x
  <2> HIDE DEF w
  <2> QED BY <2>3 DEF UnitPut, x
<1> HIDE DEF w
<1>5. Len(w) = p + 1
  BY <1>2, <1>4 DEF Larger
<1>6. \A i \in 1 .. p + 1 : w[i] = e[i]
  BY <1>2, <1>3, <1>4, <1>5
<1>7. w = e
  BY <1>3, <1>4, <1>5, <1>6, SeqEqual DEF Contents
<1> QED BY <1>7 DEF w, e, c

---------------------------------------------------------------------------
(* Frames: what a step leaves alone when it touches other variables. *)

LEMMA UploadMetaFrame ==
    ASSUME NEW u \in Uploaders, UploadMeta(u), ureq'[u] = ureq[u], uparts'[u] = uparts[u],
           fd'[u] = Meta(NameOf(u)) => /\ fd[u] = Meta(NameOf(u)) /\ upc'[u] = upc[u]
                                       /\ upiece'[u] = upiece[u]
    PROVE  UploadMeta(u)'
BY DEF UploadMeta, NameOf, RestPart, RestOf, OneVersion, PieceOf, Meta

LEMMA EditMetaFrame ==
    ASSUME NEW s \in Editors, EditMeta(s), epc'[s] = epc[s], ebody'[s] = ebody[s]
    PROVE  EditMeta(s)'
BY DEF EditMeta

LEMMA FetchMetaFrame ==
    ASSUME NEW s \in Readers, FetchMeta(s), mixed \subseteq mixed',
           rpc'[s] = rpc[s], rkind'[s] = rkind[s], rname'[s] = rname[s], rbody'[s] = rbody[s]
    PROVE  FetchMeta(s)'
BY DEF FetchMeta, OneVersion, PieceOf

(* A metadata file nobody touches or opens. *)
LEMMA MetaFileFrame ==
    ASSUME NEW n \in Names, MetaFile(n), fs'[Meta(n)] = fs[Meta(n)],
           ceph'[Meta(n)] \in {ceph[Meta(n)], fs[Meta(n)]},
           \A s \in Slots : fd'[s] = Meta(n) => fd[s] = Meta(n),
           \A s \in Readers : fd'[s] = Meta(n) => rbody'[s] = rbody[s] /\ rpos'[s] = rpos[s]
    PROVE  MetaFile(n)'
<1>1. fs'[Meta(n)] = NoFile \/ OneVersion(fs'[Meta(n)])
  BY DEF MetaFile
<1>2. ceph'[Meta(n)] = NoFile \/ OneVersion(ceph'[Meta(n)])
  BY DEF MetaFile
<1>3. \A s \in Readers : s \in Slots
  BY SlotKinds
<1>4. \A s, o \in Slots : fd'[s] = Meta(n) /\ fd'[o] = Meta(n) => s = o
  BY DEF MetaFile
<1>5. \A s \in Slots \ Readers : fd'[s] = Meta(n) => fs'[Meta(n)] = <<>>
  BY DEF MetaFile
<1>6. \A s \in Readers : fd'[s] = Meta(n) => fs'[Meta(n)] = SubSeq(rbody'[s], 1, rpos'[s])
  BY SMTT(30), <1>3 DEF MetaFile
<1> QED BY <1>1, <1>2, <1>4, <1>5, <1>6 DEF MetaFile, OneVersion, PieceOf, Meta

(* A metadata file its one writer s has opened or written. *)
LEMMA MetaFileBy ==
    ASSUME NEW n \in Names, MetaFile(n), NEW s \in Slots, ceph' = ceph,
           fs'[Meta(n)] = NoFile \/ OneVersion(fs'[Meta(n)]),
           \A o \in Slots : fd'[o] = Meta(n) => o = s,
           s \notin Readers /\ fd'[s] = Meta(n) => fs'[Meta(n)] = <<>>,
           s \in Readers /\ fd'[s] = Meta(n) => fs'[Meta(n)] = SubSeq(rbody'[s], 1, rpos'[s])
    PROVE  MetaFile(n)'
<1>1. ceph'[Meta(n)] = NoFile \/ OneVersion(ceph'[Meta(n)])
  BY DEF MetaFile
<1>2. \A o \in Readers : o \in Slots
  BY SlotKinds
<1>3. \A t, o \in Slots : fd'[t] = Meta(n) /\ fd'[o] = Meta(n) => t = o
  OBVIOUS
<1>4. \A o \in Slots \ Readers : fd'[o] = Meta(n) => fs'[Meta(n)] = <<>>
  OBVIOUS
<1>5. \A o \in Readers : fd'[o] = Meta(n) => fs'[Meta(n)] = SubSeq(rbody'[o], 1, rpos'[o])
  BY <1>2
<1> QED BY <1>1, <1>3, <1>4, <1>5 DEF MetaFile, OneVersion, PieceOf, Meta

(* The only thread that has the metadata of a name open. *)
LEMMA NotedAlone ==
    ASSUME NoteMixed, NEW n \in Names \ mixed'
    PROVE  /\ n \in Names \ mixed
           /\ \A s, o \in Slots : fd'[s] = Meta(n) /\ fd'[o] = Meta(n) => s = o
<1>1. ~SharedMeta(n)' /\ n \notin mixed
  BY DEF NoteMixed
<1> QED BY <1>1 DEF SharedMeta, Meta

---------------------------------------------------------------------------
LEMMA MetaInitInv == ServerInit => MetaInv
<1> SUFFICES ASSUME ServerInit PROVE MetaInv
  OBVIOUS
<1>1. ServerInv
  BY ServerInitInv
<1>2. \A s \in Slots : fd[s] = NoFd
  BY DEF ServerInit, UploadInit, StorageInit
<1>3. \A n \in Names : Meta(n) \in Paths /\ Meta(n) # NoFd
  BY PathFacts, StorageAssumption
<1>4. ASSUME NEW u \in Uploaders PROVE UploadMeta(u)
  <2>1. uparts[u] = <<>> /\ NameOf(u) \in Names /\ u \in Slots
    BY <1>1, NameFacts DEF ServerInit, UploadInit, ServerInv, ServerTypeOK
  <2> QED BY <1>2, <1>3, <2>1 DEF UploadMeta
<1>5. \A s \in Editors : EditMeta(s)
  BY DEF EditMeta, ServerInit, EditInit
<1>6. \A s \in Readers : FetchMeta(s)
  BY DEF FetchMeta, ServerInit, FetchInit, FetchIdle
<1>7. ASSUME NEW n \in Names PROVE MetaFile(n)
  <2>1. fs[Meta(n)] = NoFile /\ ceph[Meta(n)] = NoFile
    BY <1>3 DEF ServerInit, UploadInit, StorageInit, CephInit
  <2>2. \A s \in Slots : fd[s] # Meta(n)
    BY <1>2, <1>3
  <2> QED BY <2>1, <2>2, SlotKinds DEF MetaFile
<1> QED BY <1>1, <1>4, <1>5, <1>6, <1>7 DEF MetaInv

---------------------------------------------------------------------------
(* Uploads *)

(* What is left of a body when its first part has been delivered, or some   *)
(* of it.                                                                   *)
LEMMA TailRests ==
    ASSUME NEW ps \in Seq(Part), ps # <<>>, \A i \in DOMAIN ps : RestPart(ps[i])
    PROVE  /\ RestPart(Head(ps)) /\ Head(ps) \in Part
           /\ \A i \in DOMAIN Tail(ps) : RestPart(Tail(ps)[i])
<1>1. /\ Tail(ps) \in Seq(Part) /\ Len(Tail(ps)) = Len(ps) - 1 /\ Len(ps) \in Nat \ {0}
      /\ Head(ps) = ps[1]
      /\ \A i \in 1 .. Len(Tail(ps)) : Tail(ps)[i] = ps[i + 1]
  BY HeadTailProperties, EmptySeq
<1>2. DOMAIN ps = 1 .. Len(ps) /\ 1 \in DOMAIN ps /\ Head(ps) \in Part
  BY <1>1
<1>3. ASSUME NEW i \in DOMAIN Tail(ps) PROVE RestPart(Tail(ps)[i])
  <2>1. i \in 1 .. Len(Tail(ps)) /\ i + 1 \in DOMAIN ps
    BY <1>1, <1>2
  <2> QED BY <1>1, <2>1
<1> QED BY <1>1, <1>2, <1>3

LEMMA ConsRests ==
    ASSUME NEW p \in Part, RestPart(p), NEW ps \in Seq(Part), \A i \in DOMAIN ps : RestPart(ps[i])
    PROVE  \A i \in DOMAIN (<<p>> \o ps) : RestPart((<<p>> \o ps)[i])
<1>1. /\ <<p>> \in Seq(Part) /\ Len(<<p>>) = 1 /\ <<p>>[1] = p
  OBVIOUS
<1> DEFINE q == <<p>>
           all == q \o ps
<1>2. q \in Seq(Part) /\ Len(q) = 1 /\ q[1] = p
  BY <1>1
<1> HIDE DEF q
<1>3. /\ all \in Seq(Part) /\ Len(all) = Len(q) + Len(ps)
      /\ \A i \in 1 .. Len(q) + Len(ps) : all[i] = IF i <= Len(q) THEN q[i] ELSE ps[i - Len(q)]
  BY <1>2, ConcatProperties
<1> SUFFICES ASSUME NEW i \in DOMAIN all PROVE RestPart(all[i])
  BY DEF q
<1>4. Len(ps) \in Nat /\ DOMAIN ps = 1 .. Len(ps) /\ i \in 1 .. 1 + Len(ps)
  BY <1>2, <1>3
<1>5. CASE i = 1
  <2>1. all[i] = q[1]
    BY <1>2, <1>3, <1>4, <1>5
  <2> QED BY <1>2, <2>1
<1>6. CASE i # 1
  <2>1. all[i] = ps[i - 1] /\ i - 1 \in DOMAIN ps
    BY <1>2, <1>3, <1>4, <1>6
  <2> QED BY <2>1
<1> QED BY <1>5, <1>6

(* The body after k units of its current part. *)
LEMMA PieceRests ==
    ASSUME UploadTypeOK, NEW u \in Uploaders, UploadMeta(u), uparts[u] # <<>>,
           NEW k \in PieceLengths(u)
    PROVE  /\ \A i \in DOMAIN AfterPiece(u, k) : RestPart(AfterPiece(u, k)[i])
           /\ Current(u).kind = "json" =>
                 \A d \in Written(u, SubSeq(Current(u).data, 1, k)) : OneVersion(d)
<1> DEFINE ps == uparts[u]
           c == Current(u)
<1>1. ps \in Seq(Part) /\ ps # <<>> /\ \A i \in DOMAIN ps : RestPart(ps[i])
  BY DEF UploadTypeOK, UploadMeta
<1>2. RestPart(c) /\ c \in Part /\ \A i \in DOMAIN Tail(ps) : RestPart(Tail(ps)[i])
  BY <1>1, TailRests DEF Current
<1>3. Tail(ps) \in Seq(Part)
  BY <1>1, HeadTailProperties
<1>4. c.data \in Contents /\ c.kind \in PartKinds /\ c = [kind |-> c.kind, data |-> c.data]
  BY <1>2 DEF Part
<1>5. Len(c.data) \in Nat /\ k \in 0 .. Len(c.data)
  <2>1. Len(c.data) \in Nat /\ (c.data = <<>> => Len(c.data) = 0)
    BY <1>4 DEF Contents
  <2> QED BY <2>1 DEF PieceLengths
<1> DEFINE e == SubSeq(c.data, k + 1, Len(c.data))
           r == [c EXCEPT !.data = e]
<1>6. e \in Contents
  <2>1. k + 1 \in 1 .. Len(c.data) + 1 /\ Len(c.data) \in 0 .. Len(c.data)
    BY <1>5
  <2> QED BY <1>4, <2>1, RunFacts
<1>7. r \in Part /\ r.kind = c.kind /\ r.data = e
  <2> HIDE DEF c, e
  <2> QED BY <1>4, <1>6 DEF Part
<1>8. c.kind = "json" => \E v \in MetaVersions : RestOf(c.data, v)
  BY <1>2 DEF RestPart
<1>9. RestPart(r)
  <2> SUFFICES ASSUME c.kind = "json" PROVE \E v \in MetaVersions : RestOf(e, v)
    BY <1>7 DEF RestPart
  <2>1. PICK v \in MetaVersions : RestOf(c.data, v)
    BY <1>8
  <2>2. RestOf(e, v)
    <3>1. v \in Contents
      BY VersionType
    <3> QED BY <1>5, <2>1, <3>1, RunRest
  <2> QED BY <2>2
<1>10. \A i \in DOMAIN (<<r>> \o Tail(ps)) : RestPart((<<r>> \o Tail(ps))[i])
  <2> HIDE DEF r, ps
  <2> QED BY <1>2, <1>3, <1>7, <1>9, ConsRests
<1>11. AfterPiece(u, k) = IF k = Len(c.data) THEN Tail(ps) ELSE <<r>> \o Tail(ps)
  BY DEF AfterPiece
<1>12. \A i \in DOMAIN AfterPiece(u, k) : RestPart(AfterPiece(u, k)[i])
  <2> HIDE DEF r, ps, c
  <2> QED BY <1>2, <1>10, <1>11
<1>13. ASSUME c.kind = "json", NEW d \in Written(u, SubSeq(c.data, 1, k)) PROVE OneVersion(d)
  <2>1. PICK v \in MetaVersions : RestOf(c.data, v)
    BY <1>8, <1>13
  <2>2. OneVersion(SubSeq(c.data, 1, k)) /\ OneVersion(Append(SubSeq(c.data, 1, k), Junk))
    BY <1>5, <2>1, VersionPieces
  <2>3. d \in {SubSeq(c.data, 1, k), Append(SubSeq(c.data, 1, k), Junk)}
    BY <1>13 DEF Written
  <2> QED BY <2>2, <2>3
<1> QED BY <1>12, <1>13

(* An upload that has metadata open has its own open, to overwrite it. *)
LEMMA UploadHolds ==
    ASSUME MetaInv, NEW u \in Uploaders, NEW n \in Names, fd[u] = Meta(n)
    PROVE  n = NameOf(u) /\ upc[u] = "overwrite" /\ OneVersion(upiece[u])
<1>1. UploadTypeOK /\ u \in Slots /\ NameOf(u) \in Names /\ UploadMeta(u)
  BY NameFacts DEF MetaInv, ServerInv, ServerTypeOK
<1>2. fd[u] # NoFd
  BY PathFacts, StorageAssumption
<1>3. FdOfUpload(u)
  BY <1>1, <1>2, SlotKinds DEF MetaInv, ServerInv, FdsOwned, FdOfFetch, FdOfEdit
<1>4. n = NameOf(u)
  BY <1>1, <1>3, PathFacts DEF FdOfUpload
<1> QED BY <1>1, <1>4 DEF UploadMeta

(* What an upload's turn leaves to show. *)
LEMMA UploadMetaStep ==
    ASSUME MetaInv, NEW u \in Uploaders, UploadTurn(u), UploadMeta(u)',
           \A v \in Uploaders : v # u =>
              /\ upc'[v] = upc[v] /\ ureq'[v] = ureq[v] /\ uparts'[v] = uparts[v]
              /\ upiece'[v] = upiece[v]
              /\ \A n \in Names : fd'[v] = Meta(n) => fd[v] = Meta(n),
           \A n \in Names \ mixed' : MetaFile(n)'
    PROVE  MetaInv'
<1>1. ServerInv'
  BY UploadTurnInv DEF MetaInv
<1>2. UNCHANGED <<ceph, fetchVars, editVars>> /\ mixed \subseteq mixed'
  BY DEF UploadTurn, NoteMixed
<1>3. UNCHANGED <<rpc, rkind, rname, rbody>> /\ UNCHANGED <<epc, ebody>>
  BY <1>2 DEF fetchVars, editVars
<1>4. ASSUME NEW v \in Uploaders PROVE UploadMeta(v)'
  <2>1. CASE v = u
    BY <2>1
  <2>2. CASE v # u
    <3>1. UploadMeta(v) /\ NameOf(v) \in Names
      BY NameFacts DEF MetaInv, ServerInv, ServerTypeOK
    <3> QED BY <2>2, <3>1, UploadMetaFrame
  <2> QED BY <2>1, <2>2
<1>5. \A s \in Editors : EditMeta(s)'
  BY <1>3, EditMetaFrame DEF MetaInv
<1>6. \A s \in Readers : FetchMeta(s)'
  BY <1>2, <1>3, FetchMetaFrame DEF MetaInv
<1> QED BY <1>1, <1>4, <1>5, <1>6 DEF MetaInv

(* Steps that open, write and rename nothing. *)
LEMMA UploadQuietMeta ==
    ASSUME MetaInv, NEW u \in Uploaders, UploadTurn(u),
           \/ \E r \in Requests : UploadBegin(u, r)
           \/ SkipPart(u) \/ MissBoundary(u) \/ EndBody(u) \/ CheckMd5(u)
    PROVE  MetaInv'
<1>1. UploadTypeOK /\ UploadMeta(u) /\ NameOf(u) \in Names /\ u \in Slots
  BY NameFacts DEF MetaInv, ServerInv, ServerTypeOK
<1>2. UNCHANGED <<fs, fd, upiece>> /\ upc[u] \notin {"append", "overwrite"}
  BY DEF UploadBegin, RefuseExisting, AcceptBody, SkipPart, MissBoundary, EndBody, CheckMd5, Receiving
<1>3. \A v \in Uploaders : v # u =>
         upc'[v] = upc[v] /\ ureq'[v] = ureq[v] /\ uparts'[v] = uparts[v]
  BY <1>1 DEF UploadBegin, RefuseExisting, AcceptBody, SkipPart, MissBoundary, EndBody, CheckMd5, UploadTypeOK
<1>4. \A n \in Names : fd[u] # Meta(n)
  BY <1>2, UploadHolds
<1>5. \A i \in DOMAIN uparts'[u] : RestPart(uparts'[u][i])
  <2>1. CASE \E r \in Requests : UploadBegin(u, r)
    <3>1. PICK r \in Requests : UploadBegin(u, r)
      BY <2>1
    <3>2. CASE RefuseExisting(u, r)
      BY <1>1, <3>2 DEF RefuseExisting, UploadMeta
    <3>3. CASE AcceptBody(u, r)
      <4>1. uparts'[u] = r.parts
        BY <1>1, <3>3 DEF AcceptBody, UploadTypeOK
      <4>2. ASSUME NEW i \in DOMAIN r.parts, r.parts[i].kind = "json"
            PROVE  \E v \in MetaVersions : RestOf(r.parts[i].data, v)
        <5>1. r.parts[i].data \in MetaVersions
          BY <4>2 DEF MetaVersions, JsonParts
        <5> QED BY <5>1, VersionPieces
      <4> QED BY <4>1, <4>2 DEF RestPart
    <3> QED BY <3>1, <3>2, <3>3 DEF UploadBegin
  <2>2. CASE SkipPart(u)
    <3>1. uparts'[u] = Tail(uparts[u]) /\ uparts[u] # <<>> /\ uparts[u] \in Seq(Part)
      BY <1>1, <2>2 DEF SkipPart, Receiving, UploadTypeOK
    <3> QED BY <1>1, <3>1, TailRests DEF UploadMeta
  <2>3. CASE EndBody(u) \/ CheckMd5(u)
    <3>1. uparts' = uparts
      BY <2>3 DEF EndBody, CheckMd5
    <3> QED BY <1>1, <3>1 DEF UploadMeta
  <2>4. CASE MissBoundary(u)
    <3>1. PICK k \in 1 .. Len(uparts[u]) :
            uparts' = [uparts EXCEPT ![u] = SubSeq(@, k + 1, Len(@))]
      BY <2>4 DEF MissBoundary
    <3>2. /\ uparts[u] \in Seq(Part)
          /\ uparts'[u] = SubSeq(uparts[u], k + 1, Len(uparts[u]))
      BY <1>1, <3>1 DEF UploadTypeOK
    <3>3. \A i \in DOMAIN uparts'[u] :
            k + i \in DOMAIN uparts[u] /\ uparts'[u][i] = uparts[u][k + i]
      BY <3>2
    <3> QED BY <1>1, <3>3 DEF UploadMeta
  <2> QED BY <2>1, <2>2, <2>3, <2>4
<1>6. UploadMeta(u)'
  <2>1. NameOf(u)' \in Names
    <3>1. UploadTypeOK'
      BY UploadTurnInv DEF MetaInv, ServerInv, ServerTypeOK
    <3> QED BY <3>1, UploadAssumption DEF UploadTypeOK, NameOf, UploadRequest
  <2>2. fd'[u] # Meta(NameOf(u)')
    BY <1>2, <1>4, <2>1
  <2> QED BY <1>5, <2>2 DEF UploadMeta, Meta, RestPart, RestOf, NameOf
<1>7. ASSUME NEW n \in Names \ mixed' PROVE MetaFile(n)'
  <2>1. n \in Names \ mixed /\ MetaFile(n)
    BY NotedAlone DEF UploadTurn, MetaInv
  <2>2. UNCHANGED <<ceph, rbody, rpos>>
    BY DEF UploadTurn, fetchVars
  <2> QED BY <1>2, <2>1, <2>2, MetaFileFrame
<1> QED BY <1>2, <1>3, <1>6, <1>7, UploadMetaStep

(* A piece of metadata is opened for: the file is empty. *)
LEMMA UploadOpenMeta ==
    ASSUME MetaInv, NEW u \in Uploaders, UploadTurn(u), OpenPiece(u)
    PROVE  MetaInv'
<1>1. UploadTypeOK /\ UploadMeta(u) /\ NameOf(u) \in Names /\ u \in Slots /\ u \notin Readers
  BY NameFacts, SlotKinds DEF MetaInv, ServerInv, ServerTypeOK
<1>11. uparts[u] # <<>> /\ UNCHANGED ureq
  BY DEF OpenPiece, Receiving
<1>2. PICK k \in PieceLengths(u) :
         /\ \E d \in Written(u, SubSeq(Current(u).data, 1, k)) : upiece' = [upiece EXCEPT ![u] = d]
         /\ uparts' = [uparts EXCEPT ![u] = AfterPiece(u, k)]
  BY DEF OpenPiece
<1>3. PICK d \in Written(u, SubSeq(Current(u).data, 1, k)) : upiece' = [upiece EXCEPT ![u] = d]
  BY <1>2
<1>4. /\ \A i \in DOMAIN AfterPiece(u, k) : RestPart(AfterPiece(u, k)[i])
      /\ Current(u).kind = "json" => OneVersion(d)
  BY <1>1, <1>11, <1>3, PieceRests
<1>5. uparts'[u] = AfterPiece(u, k) /\ upiece'[u] = d
  BY <1>1, <1>2, <1>3 DEF UploadTypeOK
<1>6. PICK q \in {Tmp(NameOf(u)), Meta(NameOf(u))} :
         /\ OpenTrunc(u, q) \/ OpenAppend(u, q)
         /\ q = Meta(NameOf(u)) => /\ OpenTrunc(u, q) /\ Current(u).kind = "json"
                                   /\ upc'[u] = "overwrite"
  <2>1. Appends(u) => Current(u).kind = "octet"
    BY DEF Appends
  <2>2. ~Appends(u) => upc'[u] = "overwrite"
    BY <1>1 DEF OpenPiece, UploadTypeOK
  <2>3. Tmp(NameOf(u)) # Meta(NameOf(u))
    BY <1>1, PathFacts
  <2> QED BY <2>1, <2>2, <2>3 DEF OpenPiece, OpenTarget
<1>7. q \in Paths
  BY <1>1, PathFacts
<1>8. /\ fd'[u] = q /\ \A s \in Slots : s # u => fd'[s] = fd[s]
      /\ \A p \in Paths : p # q => fs'[p] = fs[p]
      /\ q = Meta(NameOf(u)) => fs'[q] = <<>>
  BY <1>1, <1>6, <1>7 DEF OpenTrunc, OpenAppend, UploadTypeOK, StorageTypeOK
<1>9. UploadMeta(u)'
  <2>1. \A i \in DOMAIN uparts'[u] : RestPart(uparts'[u][i])
    BY <1>4, <1>5
  <2>2. fd'[u] = Meta(NameOf(u)) => upc'[u] = "overwrite" /\ OneVersion(upiece'[u])
    BY <1>4, <1>5, <1>6, <1>8
  <2> QED BY <1>11, <2>1, <2>2 DEF UploadMeta, Meta, NameOf, RestPart, RestOf, OneVersion, PieceOf
<1>10. ASSUME NEW n \in Names \ mixed' PROVE MetaFile(n)'
  <2>1. /\ n \in Names \ mixed /\ MetaFile(n)
        /\ \A s, o \in Slots : fd'[s] = Meta(n) /\ fd'[o] = Meta(n) => s = o
    BY NotedAlone DEF UploadTurn, MetaInv
  <2>2. UNCHANGED <<ceph, rbody, rpos>>
    BY DEF UploadTurn, fetchVars
  <2>3. CASE q = Meta(n)
    <3>1. n = NameOf(u) /\ fs'[Meta(n)] = <<>> /\ OneVersion(d)
      BY <1>1, <1>4, <1>6, <1>8, <2>3, PathFacts
    <3>2. OneVersion(<<>>)
      BY <3>1, PiecePrefix
    <3>3. \A o \in Slots : fd'[o] = Meta(n) => o = u
      BY <1>1, <1>8, <2>1, <2>3
    <3> QED BY <1>1, <2>1, <2>2, <3>1, <3>2, <3>3, MetaFileBy
  <2>4. CASE q # Meta(n)
    <3>1. fs'[Meta(n)] = fs[Meta(n)] /\ \A s \in Slots : fd'[s] = Meta(n) => fd[s] = Meta(n)
      BY <1>8, <2>1, <2>4, PathFacts
    <3> QED BY <2>1, <2>2, <3>1, MetaFileFrame
  <2> QED BY <2>3, <2>4
<1>12. \A v \in Uploaders : v # u =>
          /\ upc'[v] = upc[v] /\ ureq'[v] = ureq[v] /\ uparts'[v] = uparts[v]
          /\ upiece'[v] = upiece[v] /\ fd'[v] = fd[v]
  <2>1. \A v \in Uploaders : v # u =>
          upc'[v] = upc[v] /\ uparts'[v] = uparts[v] /\ upiece'[v] = upiece[v]
    BY <1>1, <1>2, <1>3 DEF OpenPiece, UploadTypeOK
  <2> QED BY <1>11, <1>8, <2>1, SlotKinds
<1> QED BY <1>9, <1>10, <1>12, UploadMetaStep

(* The piece is written and the file closed. *)
LEMMA UploadWriteMeta ==
    ASSUME MetaInv, NEW u \in Uploaders, UploadTurn(u), AppendPiece(u) \/ OverwritePiece(u)
    PROVE  MetaInv'
<1>1. /\ UploadTypeOK /\ StorageTypeOK /\ UploadMeta(u) /\ NameOf(u) \in Names
      /\ u \in Slots /\ u \notin Readers
  BY NameFacts, SlotKinds DEF MetaInv, ServerInv, ServerTypeOK, UploadTypeOK
<1>2. ClosePiece(u)
  BY DEF AppendPiece, OverwritePiece
<1>3. /\ fd'[u] = NoFd /\ \A s \in Slots : s # u => fd'[s] = fd[s]
      /\ UNCHANGED <<ureq, uparts>>
      /\ \A v \in Uploaders : v # u => upc'[v] = upc[v] /\ upiece'[v] = upiece[v]
  BY <1>1, <1>2 DEF ClosePiece, CloseFd, UploadTypeOK, StorageTypeOK
<1>4. \A n \in Names : Meta(n) \in Paths /\ Meta(n) # NoFd
  BY PathFacts, StorageAssumption
<1>5. UploadMeta(u)'
  BY <1>1, <1>3, <1>4, UploadMetaFrame
<1>6. \A p \in Paths : p # fd[u] => fs'[p] = fs[p]
  <2>1. CASE fd[u] = NoFd
    BY <2>1 DEF AppendPiece, OverwritePiece, WriteFd
  <2>2. CASE fd[u] # NoFd
    BY <1>1, <2>2 DEF AppendPiece, OverwritePiece, WriteFd, StorageTypeOK
  <2> QED BY <2>1, <2>2
<1>7. ASSUME NEW n \in Names \ mixed' PROVE MetaFile(n)'
  <2>1. n \in Names \ mixed /\ MetaFile(n)
    BY NotedAlone DEF UploadTurn, MetaInv
  <2>2. UNCHANGED <<ceph, rbody, rpos>>
    BY DEF UploadTurn, fetchVars
  <2>3. CASE fd[u] = Meta(n)
    <3>1. n = NameOf(u) /\ upc[u] = "overwrite" /\ OneVersion(upiece[u]) /\ upiece[u] \in Contents
      BY <1>1, <2>1, <2>3, UploadHolds DEF UploadTypeOK
    <3>2. fs[Meta(n)] = <<>>
      BY <1>1, <2>1, <2>3 DEF MetaFile
    <3>3. fs'[Meta(n)] = WriteAt(fs[Meta(n)], 0, upiece[u])
      <4>1. OverwritePiece(u)
        BY <3>1 DEF AppendPiece
      <4> QED BY <1>1, <1>4, <2>3, <4>1 DEF OverwritePiece, WriteFd, StorageTypeOK
    <3>4. OneVersion(fs'[Meta(n)])
      BY <3>1, <3>2, <3>3, WriteEmpty
    <3>5. \A o \in Slots : fd'[o] = Meta(n) => o = u
      BY <1>1, <1>3, <2>1, <2>3 DEF MetaFile
    <3>6. fd'[u] # Meta(n)
      BY <1>3, <1>4
    <3> QED BY <1>1, <2>1, <2>2, <3>4, <3>5, <3>6, MetaFileBy
  <2>4. CASE fd[u] # Meta(n)
    <3>1. fs'[Meta(n)] = fs[Meta(n)] /\ \A s \in Slots : fd'[s] = Meta(n) => fd[s] = Meta(n)
      BY <1>3, <1>4, <1>6, <2>4
    <3> QED BY <2>1, <2>2, <3>1, MetaFileFrame
  <2> QED BY <2>3, <2>4
<1> QED BY <1>3, <1>5, <1>7, SlotKinds, UploadMetaStep

(* The rename is between two other files of the name. *)
LEMMA UploadRenameMeta ==
    ASSUME MetaInv, NEW u \in Uploaders, UploadTurn(u), RenameAndReply(u)
    PROVE  MetaInv'
<1>1. /\ UploadTypeOK /\ StorageTypeOK /\ UploadMeta(u) /\ NameOf(u) \in Names /\ u \in Slots
  BY NameFacts DEF MetaInv, ServerInv, ServerTypeOK, UploadTypeOK
<1>2. /\ UNCHANGED <<ureq, uparts, upiece>> /\ upc[u] = "rename"
      /\ file_rename(Tmp(NameOf(u)), File(NameOf(u)))
      /\ \A v \in Uploaders : v # u => upc'[v] = upc[v]
  BY <1>1 DEF RenameAndReply, UploadTypeOK
<1>3. ASSUME NEW n \in Names
      PROVE  fs'[Meta(n)] = fs[Meta(n)] /\ \A s \in Slots : fd'[s] = Meta(n) => fd[s] = Meta(n)
  <2>1. /\ Meta(n) \in Paths /\ Meta(n) # NoFd
        /\ Meta(n) # Tmp(NameOf(u)) /\ Meta(n) # File(NameOf(u))
    BY <1>1, PathFacts, StorageAssumption
  <2>2. CASE file_exists(Tmp(NameOf(u)))
    <3>1. /\ fs' = [fs EXCEPT ![File(NameOf(u))] = fs[Tmp(NameOf(u))], ![Tmp(NameOf(u))] = NoFile]
          /\ fd' = Moved(Tmp(NameOf(u)), File(NameOf(u)))
      BY <1>2, <2>2 DEF file_rename
    <3>2. fs'[Meta(n)] = fs[Meta(n)]
      BY <1>1, <2>1, <3>1 DEF StorageTypeOK
    <3> QED BY <2>1, <3>1, <3>2 DEF Moved
  <2>3. CASE ~file_exists(Tmp(NameOf(u)))
    BY <1>2, <2>3 DEF file_rename
  <2> QED BY <2>2, <2>3
<1>4. \A n \in Names : fd[u] # Meta(n)
  BY <1>2, UploadHolds
<1>5. UploadMeta(u)'
  BY <1>1, <1>2, <1>3, <1>4, UploadMetaFrame
<1>6. ASSUME NEW n \in Names \ mixed' PROVE MetaFile(n)'
  <2>1. n \in Names \ mixed /\ MetaFile(n)
    BY NotedAlone DEF UploadTurn, MetaInv
  <2>2. UNCHANGED <<ceph, rbody, rpos>>
    BY DEF UploadTurn, fetchVars
  <2> QED BY <1>3, <2>1, <2>2, MetaFileFrame
<1>7. \A v \in Uploaders, n \in Names : fd'[v] = Meta(n) => fd[v] = Meta(n)
  BY <1>3, SlotKinds
<1> QED BY <1>2, <1>5, <1>6, <1>7, UploadMetaStep

LEMMA UploadTurnMeta ==
    ASSUME MetaInv, NEW u \in Uploaders, UploadTurn(u)
    PROVE  MetaInv'
<1>1. \/ \E r \in Requests : UploadBegin(u, r)
      \/ SkipPart(u) \/ MissBoundary(u) \/ EndBody(u) \/ CheckMd5(u)
      \/ OpenPiece(u) \/ AppendPiece(u) \/ OverwritePiece(u) \/ RenameAndReply(u)
  BY DEF UploadTurn, FileUploadCallback, TempFileUploadCallback, Handle
<1> QED BY <1>1, UploadQuietMeta, UploadOpenMeta, UploadWriteMeta, UploadRenameMeta

---------------------------------------------------------------------------
(* Edits *)

(* A patch replaces the metadata of a name, a delete removes a file of it. *)
LEMMA EditTurnMeta ==
    ASSUME MetaInv, NEW s \in Editors, EditTurn(s)
    PROVE  MetaInv'
<1>1. /\ EditTypeOK /\ StorageTypeOK /\ EditMeta(s) /\ EditPaths /\ FdsOwned
      /\ s \in Slots /\ s \notin Readers /\ s \notin Uploaders
  BY SlotKinds DEF MetaInv, ServerInv, ServerTypeOK, UploadTypeOK
<1>2. UNCHANGED <<ceph, uploadVars, fetchVars>> /\ mixed \subseteq mixed' /\ NoteMixed
  BY DEF EditTurn, NoteMixed
<1>3. /\ UNCHANGED <<rpc, rkind, rname, rbody, rpos>>
      /\ UNCHANGED <<upc, ureq, uparts, upiece>>
  BY <1>2 DEF fetchVars, uploadVars
<1>4. \A n \in Names : Meta(n) \in Paths /\ Meta(n) # NoFd
  BY PathFacts, StorageAssumption
<1>5. EditNew(s) \/ PatchOpen(s) \/ PatchWrite(s) \/ DeleteRemove(s)
  BY DEF EditTurn, EditStep
<1>6. \A t \in Editors : t # s => epc'[t] = epc[t] /\ ebody'[t] = ebody[t]
  BY <1>1, <1>5 DEF EditNew, MetadataPatchCallback, FileDeleteCallback, EditBegin, PatchOpen,
     PatchWrite, DeleteRemove, Answer, EditTypeOK
<1>7. EditMeta(s)'
  <2>1. CASE EditNew(s)
    <3>1. epc'[s] # "write" /\ (epc'[s] = "open" => ebody'[s] \in Patches)
      BY <1>1, <2>1 DEF EditNew, MetadataPatchCallback, FileDeleteCallback, EditBegin, Answer,
         EditTypeOK
    <3> QED BY <3>1 DEF EditMeta
  <2>2. CASE PatchOpen(s)
    BY <1>1, <2>2 DEF PatchOpen, EditMeta, EditTypeOK
  <2>3. CASE PatchWrite(s) \/ DeleteRemove(s)
    <3>1. epc'[s] = "idle"
      BY <1>1, <2>3 DEF PatchWrite, DeleteRemove, Answer, EditTypeOK
    <3> QED BY <3>1 DEF EditMeta
  <2> QED BY <1>5, <2>1, <2>2, <2>3
<1>8. \A t \in Slots : t # s => fd'[t] \in {fd[t], NoFd}
  BY <1>1, <1>5 DEF EditNew, MetadataPatchCallback, FileDeleteCallback, EditBegin, PatchOpen,
     OpenTrunc, PatchWrite, CloseFd, DeleteRemove, Remove, Detached, StorageTypeOK
<1>9. ASSUME NEW n \in Names \ mixed' PROVE MetaFile(n)'
  <2>1. /\ n \in Names \ mixed /\ MetaFile(n) /\ Meta(n) \in Paths /\ Meta(n) # NoFd
        /\ \A t, o \in Slots : fd'[t] = Meta(n) /\ fd'[o] = Meta(n) => t = o
    BY <1>2, <1>4, NotedAlone DEF MetaInv
  <2>2. CASE EditNew(s)
    <3>1. UNCHANGED <<fs, fd>>
      BY <2>2 DEF EditNew, MetadataPatchCallback, FileDeleteCallback, EditBegin
    <3> QED BY <1>2, <1>3, <2>1, <3>1, MetaFileFrame
  <2>3. CASE PatchOpen(s)
    <3>1. /\ fs' = [fs EXCEPT ![epath[s]] = <<>>] /\ fd' = [fd EXCEPT ![s] = epath[s]]
          /\ ebody[s] \in Patches
      BY <1>1, <2>3 DEF PatchOpen, OpenTrunc, EditMeta
    <3>2. CASE epath[s] = Meta(n)
      <4>1. fs'[Meta(n)] = <<>> /\ fd'[s] = Meta(n)
        BY <1>1, <2>1, <3>1, <3>2 DEF StorageTypeOK
      <4>2. OneVersion(<<>>)
        BY <3>1, VersionPieces DEF MetaVersions
      <4> QED BY <1>1, <1>2, <2>1, <4>1, <4>2, MetaFileBy
    <3>3. CASE epath[s] # Meta(n)
      <4>1. fs'[Meta(n)] = fs[Meta(n)] /\ \A t \in Slots : fd'[t] = Meta(n) => fd[t] = Meta(n)
        BY <1>1, <2>1, <3>1, <3>3 DEF StorageTypeOK
      <4> QED BY <1>2, <1>3, <2>1, <4>1, MetaFileFrame
    <3> QED BY <3>2, <3>3
  <2>4. CASE PatchWrite(s)
    <3>1. fd'[s] = NoFd /\ \A t \in Slots : t # s => fd'[t] = fd[t]
      BY <1>1, <2>4 DEF PatchWrite, CloseFd, StorageTypeOK
    <3>2. CASE fd[s] = Meta(n)
      <4>1. fs'[Meta(n)] = WriteAt(fs[Meta(n)], 0, ebody[s])
        BY <1>1, <2>1, <2>4, <3>2 DEF PatchWrite, WriteFd, StorageTypeOK
      <4>2. fs[Meta(n)] = <<>> /\ ebody[s] \in Contents /\ ebody[s] \in MetaVersions
        BY <1>1, <2>1, <2>4, <3>2 DEF MetaFile, PatchWrite, EditMeta, EditTypeOK, MetaVersions
      <4>3. OneVersion(fs'[Meta(n)])
        BY <4>1, <4>2, WriteEmpty, VersionPieces
      <4>4. \A o \in Slots : fd'[o] = Meta(n) => o = s
        BY <1>1, <2>1, <3>1, <3>2 DEF MetaFile
      <4> QED BY <1>1, <1>2, <2>1, <3>1, <4>3, <4>4, MetaFileBy
    <3>3. CASE fd[s] # Meta(n)
      <4>1. fs'[Meta(n)] = fs[Meta(n)]
        <5>1. CASE fd[s] = NoFd
          BY <2>4, <5>1 DEF PatchWrite, WriteFd
        <5>2. CASE fd[s] # NoFd
          BY <1>1, <2>1, <2>4, <3>3, <5>2 DEF PatchWrite, WriteFd, StorageTypeOK
        <5> QED BY <5>1, <5>2
      <4>2. \A t \in Slots : fd'[t] = Meta(n) => fd[t] = Meta(n)
        BY <2>1, <3>1
      <4> QED BY <1>2, <1>3, <2>1, <4>1, <4>2, MetaFileFrame
    <3> QED BY <3>2, <3>3
  <2>5. CASE DeleteRemove(s)
    <3>1. CASE file_exists(epath[s])
      <4>1. fs' = [fs EXCEPT ![epath[s]] = NoFile] /\ fd' = Detached(epath[s])
        BY <2>5, <3>1 DEF DeleteRemove, Remove
      <4>2. CASE epath[s] = Meta(n)
        <5>1. fs'[Meta(n)] = NoFile /\ \A o \in Slots : fd'[o] # Meta(n)
          BY <1>1, <2>1, <4>1, <4>2 DEF StorageTypeOK, Detached
        <5> QED BY <1>1, <1>2, <2>1, <5>1, MetaFileBy
      <4>3. CASE epath[s] # Meta(n)
        <5>1. fs'[Meta(n)] = fs[Meta(n)] /\ \A t \in Slots : fd'[t] = Meta(n) => fd[t] = Meta(n)
          BY <1>1, <2>1, <4>1, <4>3 DEF StorageTypeOK, Detached
        <5> QED BY <1>2, <1>3, <2>1, <5>1, MetaFileFrame
      <4> QED BY <4>2, <4>3
    <3>2. CASE ~file_exists(epath[s])
      <4>1. UNCHANGED <<fs, fd>>
        BY <2>5, <3>2 DEF DeleteRemove
      <4> QED BY <1>2, <1>3, <2>1, <4>1, MetaFileFrame
    <3> QED BY <3>1, <3>2
  <2> QED BY <1>5, <2>2, <2>3, <2>4, <2>5
<1>10. ASSUME NEW u \in Uploaders PROVE UploadMeta(u)'
  <2>1. UploadMeta(u) /\ NameOf(u) \in Names /\ u \in Slots /\ u # s
    BY <1>1, NameFacts DEF MetaInv, ServerInv, ServerTypeOK
  <2>2. fd'[u] = Meta(NameOf(u)) => fd[u] = Meta(NameOf(u))
    BY <1>4, <1>8, <2>1
  <2> QED BY <1>3, <2>1, <2>2, UploadMetaFrame
<1>11. \A t \in Editors : EditMeta(t)'
  BY <1>6, <1>7, EditMetaFrame DEF MetaInv
<1>12. \A r \in Readers : FetchMeta(r)'
  BY <1>2, <1>3, FetchMetaFrame DEF MetaInv
<1>13. ServerInv'
  BY EditTurnInv DEF MetaInv
<1> QED BY <1>9, <1>10, <1>11, <1>12, <1>13 DEF MetaInv

---------------------------------------------------------------------------
(* Downloads *)

(* A reader that has metadata open fills it with what it fetched. *)
LEMMA FetchHolds ==
    ASSUME MetaInv, NEW s \in Readers, NEW n \in Names, fd[s] = Meta(n)
    PROVE  /\ rpc[s] = "fill" /\ rkind[s] = "getmeta" /\ rname[s] = n
           /\ n \notin mixed => OneVersion(rbody[s])
<1>1. FetchTypeOK /\ s \in Slots /\ FetchMeta(s)
  BY SlotKinds DEF MetaInv, ServerInv, ServerTypeOK
<1>2. fd[s] # NoFd
  BY PathFacts, StorageAssumption
<1>3. FdOfFetch(s)
  BY <1>1, <1>2, SlotKinds DEF MetaInv, ServerInv, FdsOwned, FdOfUpload, FdOfEdit
<1>4. rpc[s] = "fill" /\ Meta(n) = LocalPath(rkind[s], rname[s])
  BY <1>3 DEF FdOfFetch, Local
<1>5. rname[s] \in Names /\ rkind[s] \in AllReadKinds /\ rkind[s] # "head"
  BY <1>1, <1>4 DEF FetchTypeOK, FetchMeta
<1>6. rkind[s] = "getmeta" /\ rname[s] = n
  BY <1>4, <1>5, PathFacts DEF LocalPath, AllReadKinds
<1> QED BY <1>1, <1>4, <1>6 DEF FetchMeta

(* What a reader's turn leaves to show. *)
LEMMA FetchMetaStep ==
    ASSUME MetaInv, NEW s \in Readers, ReadTurn(s), FetchMeta(s)',
           \A t \in Readers : t # s => /\ rpc'[t] = rpc[t] /\ rkind'[t] = rkind[t]
                                       /\ rname'[t] = rname[t] /\ rbody'[t] = rbody[t],
           \A t \in Slots : t # s => fd'[t] = fd[t],
           \A n \in Names \ mixed' : MetaFile(n)'
    PROVE  MetaInv'
<1>1. ServerInv'
  BY ReadTurnInv DEF MetaInv
<1>2. UNCHANGED <<uploadVars, editVars>> /\ mixed \subseteq mixed'
  BY DEF ReadTurn, NoteMixed
<1>3. UNCHANGED <<upc, ureq, uparts, upiece>> /\ UNCHANGED <<epc, ebody>>
  BY <1>2 DEF uploadVars, editVars
<1>4. ASSUME NEW u \in Uploaders PROVE UploadMeta(u)'
  <2>1. UploadMeta(u) /\ fd'[u] = fd[u]
    BY SlotKinds DEF MetaInv
  <2> QED BY <1>3, <2>1, UploadMetaFrame
<1>5. \A e \in Editors : EditMeta(e)'
  BY <1>3, EditMetaFrame DEF MetaInv
<1>6. \A t \in Readers : FetchMeta(t)'
  BY <1>2, FetchMetaFrame DEF MetaInv
<1> QED BY <1>1, <1>4, <1>5, <1>6 DEF MetaInv

(* Steps that touch no file. *)
LEMMA ReadQuietMeta ==
    ASSUME MetaInv, NEW s \in Readers, ReadTurn(s), FetchMeta(s)',
           UNCHANGED <<fs, fd, ceph>>, rpc[s] # "fill",
           \A t \in Readers : t # s => /\ rpc'[t] = rpc[t] /\ rkind'[t] = rkind[t]
                                       /\ rname'[t] = rname[t] /\ rbody'[t] = rbody[t]
                                       /\ rpos'[t] = rpos[t]
    PROVE  MetaInv'
<1>1. ASSUME NEW n \in Names \ mixed' PROVE MetaFile(n)'
  <2>1. n \in Names \ mixed /\ MetaFile(n)
    BY NotedAlone DEF ReadTurn, MetaInv
  <2>2. fd[s] # Meta(n)
    BY <2>1, FetchHolds
  <2> QED BY <2>1, <2>2, MetaFileFrame
<1> QED BY <1>1, FetchMetaStep

(* A request begins, asks Ceph, looks at the cache, or is answered. *)
LEMMA ReadRestMeta ==
    ASSUME "head" \notin ReadKinds, MetaInv, NEW s \in Readers, ReadTurn(s),
           \/ ReadBegin(s) \/ AskCeph(s) \/ CheckLocal(s) \/ StreamChunk(s) \/ SendMetadata(s)
    PROVE  MetaInv'
<1>1. FetchTypeOK /\ FetchMeta(s)
  BY DEF MetaInv, ServerInv, ServerTypeOK
<1>2. CASE ReadBegin(s)
  <2>1. PICK k \in AllReadKinds \ {"head"} : \E n \in Names : Lookup(s, k, n)
    BY <1>2 DEF ReadBegin, FileChunkedDownloadCallback, FileGetMetadataCallback,
       FileHeadCallback, TempFileDownloadCallback, AllReadKinds
  <2>2. PICK n \in Names : Lookup(s, k, n)
    BY <2>1
  <2>3. /\ UNCHANGED <<fs, fd, ceph, rbody, rpos>> /\ rpc[s] = "idle"
        /\ rkind' = [rkind EXCEPT ![s] = k] /\ rname' = [rname EXCEPT ![s] = n]
        /\ \/ rpc' = [rpc EXCEPT ![s] = Serve(k)] \/ rpc' = [rpc EXCEPT ![s] = "head"]
           \/ rpc' = rpc
    BY <2>2 DEF Lookup, Goto
  <2>4. /\ rkind'[s] = k /\ rpc'[s] \notin {"open", "fill"}
        /\ \A t \in Readers : t # s => /\ rpc'[t] = rpc[t] /\ rkind'[t] = rkind[t]
                                       /\ rname'[t] = rname[t]
    BY <1>1, <2>3 DEF FetchTypeOK, Serve
  <2>5. FetchMeta(s)'
    BY <2>1, <2>4 DEF FetchMeta
  <2> QED BY <2>3, <2>4, <2>5, ReadQuietMeta
<1>3. CASE AskCeph(s) \/ CheckLocal(s) \/ StreamChunk(s) \/ SendMetadata(s)
  <2>1. /\ UNCHANGED <<fs, fd, ceph, rkind, rname>>
        /\ rpc[s] \in {"head", "exists", "stream", "metadata"}
    BY <1>3 DEF AskCeph, CheckLocal, StreamChunk, SendMetadata, FetchReply
  <2>2. \/ \E l \in {"idle", "get", "stream", "metadata"} : rpc' = [rpc EXCEPT ![s] = l]
        \/ rpc' = rpc
    BY <1>3 DEF AskCeph, CheckLocal, StreamChunk, SendMetadata, FetchReply, Goto, Serve
  <2>3. /\ rbody' = rbody \/ rbody' = [rbody EXCEPT ![s] = NoFile]
        /\ rpos' = rpos \/ rpos' = [rpos EXCEPT ![s] = 0]
    BY <1>3 DEF AskCeph, CheckLocal, StreamChunk, SendMetadata, FetchReply
  <2>4. /\ rpc'[s] \notin {"open", "fill"}
        /\ \A t \in Readers : t # s => /\ rpc'[t] = rpc[t] /\ rbody'[t] = rbody[t]
                                       /\ rpos'[t] = rpos[t]
    BY <1>1, <2>1, <2>2, <2>3 DEF FetchTypeOK
  <2>5. FetchMeta(s)'
    BY <1>1, <2>1, <2>4 DEF FetchMeta
  <2> QED BY SMTT(30), <2>1, <2>4, <2>5, ReadQuietMeta
<1> QED BY <1>2, <1>3

(* The object Ceph returns for a name's metadata is one version. *)
LEMMA DownloadMeta ==
    ASSUME MetaInv, NEW s \in Readers, ReadTurn(s), Download(s)
    PROVE  MetaInv'
<1>1. FetchTypeOK /\ FetchMeta(s) /\ rname[s] \in Names
  BY DEF MetaInv, ServerInv, ServerTypeOK, FetchTypeOK
<1>2. PICK c \in GetObject(Key(s)) : /\ rbody' = [rbody EXCEPT ![s] = c]
                                     /\ Goto(s, IF c = NoFile THEN "exists" ELSE "open")
  BY DEF Download
<1>3. /\ UNCHANGED <<fs, fd, ceph, rkind, rname, rpos>> /\ rpc[s] = "get"
      /\ mixed \subseteq mixed'
  BY DEF Download, ReadTurn, NoteMixed
<1>4. /\ rbody'[s] = c /\ rpc'[s] = (IF c = NoFile THEN "exists" ELSE "open")
      /\ \A t \in Readers : t # s => rpc'[t] = rpc[t] /\ rbody'[t] = rbody[t]
  BY <1>1, <1>2 DEF Goto, FetchTypeOK
<1>5. ASSUME rpc'[s] \in {"open", "fill"}, rkind[s] = "getmeta", rname[s] \notin mixed'
      PROVE  OneVersion(rbody'[s])
  <2>1. c # NoFile
    BY <1>4, <1>5
  <2>2. c = ceph[Meta(rname[s])]
    BY <1>2, <1>5, <2>1 DEF GetObject, Key
  <2>3. MetaFile(rname[s])
    BY <1>1, <1>3, <1>5 DEF MetaInv
  <2> QED BY <1>4, <2>1, <2>2, <2>3 DEF MetaFile
<1>6. FetchMeta(s)'
  <2>1. rkind[s] # "head"
    BY <1>1, <1>3 DEF FetchMeta
  <2> QED BY <1>3, <1>5, <2>1 DEF FetchMeta, OneVersion, PieceOf
<1> QED BY <1>3, <1>4, <1>6, ReadQuietMeta

(* The metadata file is created empty for what was fetched. *)
LEMMA OpenLocalMeta ==
    ASSUME MetaInv, NEW s \in Readers, ReadTurn(s), OpenLocal(s)
    PROVE  MetaInv'
<1>1. /\ FetchTypeOK /\ StorageTypeOK /\ FetchMeta(s) /\ ReaderInOrder(s) /\ s \in Slots
      /\ rname[s] \in Names
  BY SlotKinds DEF MetaInv, ServerInv, ServerTypeOK, FetchTypeOK, UploadTypeOK, ReadersRight
<1>2. /\ UNCHANGED <<ceph, rkind, rname, rbody, rpos>> /\ rpc[s] = "open"
      /\ NoteMixed /\ mixed \subseteq mixed'
  BY DEF OpenLocal, ReadTurn, NoteMixed
<1>3. /\ rpc'[s] \in {"fill", "exists"} /\ \A t \in Readers : t # s => rpc'[t] = rpc[t]
  BY <1>1 DEF OpenLocal, Goto, FetchTypeOK
<1>4. FetchMeta(s)'
  BY <1>1, <1>2, <1>3 DEF FetchMeta, OneVersion, PieceOf
<1>5. CASE OpenTrunc(s, Local(s))
  <2>1. fs' = [fs EXCEPT ![Local(s)] = <<>>] /\ fd' = [fd EXCEPT ![s] = Local(s)]
    BY <1>5 DEF OpenTrunc
  <2>2. fd'[s] = Local(s) /\ \A t \in Slots : t # s => fd'[t] = fd[t]
    BY <1>1, <2>1 DEF StorageTypeOK
  <2>3. ASSUME NEW n \in Names \ mixed' PROVE MetaFile(n)'
    <3>1. /\ n \in Names \ mixed /\ MetaFile(n) /\ Meta(n) \in Paths
          /\ \A t, o \in Slots : fd'[t] = Meta(n) /\ fd'[o] = Meta(n) => t = o
      BY <1>2, PathFacts, NotedAlone DEF MetaInv
    <3>2. CASE Local(s) = Meta(n)
      <4>1. fs'[Meta(n)] = <<>> /\ fd'[s] = Meta(n)
        BY <1>1, <2>1, <2>2, <3>1, <3>2 DEF StorageTypeOK
      <4>2. rkind[s] = "getmeta" /\ rname[s] = n
        <5>1. rkind[s] # "head" /\ rkind[s] \in AllReadKinds
          BY <1>1, <1>2 DEF FetchMeta, FetchTypeOK
        <5> QED BY <1>1, <3>2, <5>1, PathFacts DEF Local, LocalPath, AllReadKinds
      <4>3. OneVersion(rbody[s])
        BY <1>1, <1>2, <3>1, <4>2 DEF FetchMeta
      <4>4. OneVersion(<<>>)
        BY <4>3, PiecePrefix
      <4>5. rpos[s] = 0 /\ SubSeq(rbody[s], 1, 0) = <<>>
        BY <1>1, <1>2, SubSeqEmpty DEF ReaderInOrder
      <4> QED BY <1>1, <1>2, <3>1, <4>1, <4>4, <4>5, MetaFileBy
    <3>3. CASE Local(s) # Meta(n)
      <4>1. fs'[Meta(n)] = fs[Meta(n)] /\ \A t \in Slots : fd'[t] = Meta(n) => fd[t] = Meta(n)
        BY <1>1, <2>1, <2>2, <3>1, <3>3 DEF StorageTypeOK
      <4> QED BY <1>2, <3>1, <4>1, MetaFileFrame
    <3> QED BY <3>2, <3>3
  <2> QED BY <1>2, <1>3, <1>4, <2>2, <2>3, FetchMetaStep
<1>6. CASE OpenFailed(s, Local(s))
  <2>1. UNCHANGED <<fs, fd>>
    BY <1>6 DEF OpenFailed
  <2> QED BY <1>2, <1>3, <1>4, <2>1, ReadQuietMeta
<1> QED BY <1>5, <1>6 DEF OpenLocal

(* The next unit of the version that was fetched is written. *)
LEMMA FillUnitMeta ==
    ASSUME MetaInv, NEW s \in Readers, ReadTurn(s), FillUnit(s)
    PROVE  MetaInv'
<1>1. /\ FetchTypeOK /\ StorageTypeOK /\ FetchMeta(s) /\ ReaderInOrder(s) /\ s \in Slots
  BY SlotKinds DEF MetaInv, ServerInv, ServerTypeOK, UploadTypeOK, ReadersRight
<1>2. /\ UNCHANGED <<fd, ceph, rpc, rkind, rname, rbody>> /\ rpc[s] = "fill"
      /\ NoteMixed /\ mixed \subseteq mixed' /\ rpos[s] < Len(rbody[s])
      /\ rpos' = [rpos EXCEPT ![s] = @ + 1]
  BY DEF FillUnit, ReadTurn, NoteMixed
<1>3. /\ rpos[s] \in Nat /\ rpos'[s] = rpos[s] + 1 /\ rbody[s] \in Contents
      /\ \A t \in Readers : t # s => rpos'[t] = rpos[t]
  BY <1>1, <1>2 DEF FetchTypeOK, ReaderInOrder
<1>4. FetchMeta(s)'
  BY <1>1, <1>2 DEF FetchMeta, OneVersion, PieceOf
<1> DEFINE w == WriteAt(fs[fd[s]], rpos[s], <<rbody[s][rpos[s] + 1]>>)
<1>5. fs' = IF fd[s] = NoFd THEN fs ELSE [fs EXCEPT ![fd[s]] = w]
  BY DEF FillUnit, WriteFd
<1> HIDE DEF w
<1>6. ASSUME NEW n \in Names \ mixed' PROVE MetaFile(n)'
  <2>1. n \in Names \ mixed /\ MetaFile(n) /\ Meta(n) \in Paths /\ Meta(n) # NoFd
    BY <1>2, PathFacts, StorageAssumption, NotedAlone DEF MetaInv
  <2>2. CASE fd[s] = Meta(n)
    <3>1. fs'[Meta(n)] = w
      BY <1>1, <1>5, <2>1, <2>2 DEF StorageTypeOK
    <3>2. fs[Meta(n)] = SubSeq(rbody[s], 1, rpos[s]) /\ OneVersion(rbody[s])
      BY <2>1, <2>2, FetchHolds DEF MetaFile
    <3>3. w = WriteAt(SubSeq(rbody[s], 1, rpos[s]), rpos[s], <<rbody[s][rpos[s] + 1]>>)
      BY <2>2, <3>2 DEF w
    <3>4. w = SubSeq(rbody[s], 1, rpos[s] + 1)
      BY <1>2, <1>3, <3>3, FillPrefix
    <3>5. rpos[s] + 1 \in 0 .. Len(rbody[s])
      <4>1. Len(rbody[s]) \in Nat
        BY <1>3 DEF Contents
      <4> QED BY <1>2, <1>3, <4>1
    <3>6. OneVersion(w)
      BY <3>2, <3>4, <3>5, PiecePrefix
    <3>7. \A o \in Slots : fd'[o] = Meta(n) => o = s
      BY <1>1, <1>2, <2>1, <2>2 DEF MetaFile
    <3> QED BY <1>1, <1>2, <1>3, <2>1, <3>1, <3>4, <3>6, <3>7, MetaFileBy
  <2>3. CASE fd[s] # Meta(n)
    <3>1. fs'[Meta(n)] = fs[Meta(n)]
      BY <1>1, <1>5, <2>1, <2>3 DEF StorageTypeOK
    <3> QED BY <1>2, <1>3, <2>1, <2>3, <3>1, MetaFileFrame
  <2> QED BY <2>2, <2>3
<1> QED BY <1>2, <1>4, <1>6, FetchMetaStep

(* The whole version is written: the file is closed. *)
LEMMA FillDoneMeta ==
    ASSUME MetaInv, NEW s \in Readers, ReadTurn(s), FillDone(s)
    PROVE  MetaInv'
<1>1. FetchTypeOK /\ StorageTypeOK /\ FetchMeta(s) /\ s \in Slots
  BY SlotKinds DEF MetaInv, ServerInv, ServerTypeOK, UploadTypeOK
<1>2. /\ UNCHANGED <<fs, ceph, rkind, rname, rbody, rpos>> /\ NoteMixed /\ rpc[s] = "fill"
      /\ rpc'[s] = "exists" /\ \A t \in Readers : t # s => rpc'[t] = rpc[t]
      /\ fd'[s] = NoFd /\ \A t \in Slots : t # s => fd'[t] = fd[t]
  BY <1>1 DEF FillDone, ReadTurn, CloseFd, Goto, FetchTypeOK, StorageTypeOK
<1>3. FetchMeta(s)'
  BY <1>1, <1>2 DEF FetchMeta
<1>4. ASSUME NEW n \in Names \ mixed' PROVE MetaFile(n)'
  <2>1. n \in Names \ mixed /\ MetaFile(n) /\ Meta(n) # NoFd
    BY <1>2, PathFacts, StorageAssumption, NotedAlone DEF MetaInv
  <2>2. \A t \in Slots : fd'[t] = Meta(n) => fd[t] = Meta(n)
    BY <1>2, <2>1
  <2> QED BY <1>2, <2>1, <2>2, MetaFileFrame
<1> QED BY <1>2, <1>3, <1>4, FetchMetaStep

LEMMA ReadTurnMeta ==
    ASSUME "head" \notin ReadKinds, MetaInv, NEW s \in Readers, ReadTurn(s)
    PROVE  MetaInv'
<1>1. ReadBegin(s) \/ ReadStep(s)
  BY DEF ReadTurn
<1> QED BY <1>1, ReadRestMeta, DownloadMeta, OpenLocalMeta, FillUnitMeta, FillDoneMeta DEF ReadStep

---------------------------------------------------------------------------
(* The Ceph thread, restarts, and the whole server *)

(* The metadata the thread sends is one version, in whatever state it is. *)
LEMMA SyncTurnMeta ==
    ASSUME MetaInv, SyncTurn
    PROVE  MetaInv'
<1>1. /\ UNCHANGED <<upc, ureq, uparts, upiece>> /\ UNCHANGED <<epc, ebody>>
      /\ UNCHANGED <<rpc, rkind, rname, rbody, rpos, mixed>>
  BY DEF SyncTurn, uploadVars, editVars
<1>2. UNCHANGED <<fs, fd>> /\ (ceph' = ceph \/ ceph' = [ceph EXCEPT ![scur] = fs[scur]])
  BY DEF SyncTurn, SyncStep, SyncList, SyncKeep, SyncMissing, SyncPut, SyncPutFails, SyncPassDone,
     PutObject
<1>3. CephTypeOK
  BY DEF MetaInv, ServerInv, ServerTypeOK
<1>4. ASSUME NEW n \in Names \ mixed' PROVE MetaFile(n)'
  <2>1. MetaFile(n) /\ Meta(n) \in Paths
    BY <1>1, PathFacts DEF MetaInv
  <2>2. ceph'[Meta(n)] \in {ceph[Meta(n)], fs[Meta(n)]}
    BY <1>2, <1>3, <2>1 DEF CephTypeOK
  <2> QED BY <1>1, <1>2, <2>1, <2>2, MetaFileFrame
<1>5. \A u \in Uploaders : UploadMeta(u)'
  BY <1>1, <1>2, UploadMetaFrame DEF MetaInv
<1>6. (\A s \in Editors : EditMeta(s)') /\ (\A s \in Readers : FetchMeta(s)')
  BY <1>1, EditMetaFrame, FetchMetaFrame DEF MetaInv
<1>7. ServerInv'
  BY SyncTurnInv DEF MetaInv
<1> QED BY <1>4, <1>5, <1>6, <1>7 DEF MetaInv

(* What half-written metadata a dead process leaves is a piece of one       *)
(* version.                                                                 *)
LEMMA DiedMeta ==
    ASSUME MetaInv, ServerInv', Died, fs' \in {fs, [p \in Paths |-> NoFile]}
    PROVE  MetaInv'
<1>1. /\ uparts' = [u \in Uploaders |-> <<>>] /\ epc' = [s \in Editors |-> "idle"]
      /\ rpc' = [s \in Readers |-> "idle"] /\ fd' = [s \in Slots |-> NoFd]
      /\ UNCHANGED <<ceph, mixed, ureq>>
  BY DEF Died, UploadReset, EditReset, FetchReset, CloseAll
<1>2. ASSUME NEW u \in Uploaders PROVE UploadMeta(u)'
  <2>1. uparts'[u] = <<>> /\ fd'[u] = NoFd /\ Meta(NameOf(u)) # NoFd
    BY <1>1, SlotKinds, NameFacts, PathFacts, StorageAssumption DEF MetaInv, ServerInv, ServerTypeOK
  <2>2. \A i \in DOMAIN uparts'[u] : RestPart(uparts'[u][i])
    BY <2>1
  <2>3. fd'[u] # Meta(NameOf(u)')
    BY <1>1, <2>1 DEF NameOf
  <2> QED BY <2>2, <2>3 DEF UploadMeta, Meta, RestPart, RestOf
<1>3. (\A s \in Editors : EditMeta(s)') /\ (\A s \in Readers : FetchMeta(s)')
  BY <1>1 DEF EditMeta, FetchMeta
<1>4. ASSUME NEW n \in Names \ mixed' PROVE MetaFile(n)'
  <2>1. MetaFile(n) /\ Meta(n) \in Paths /\ Meta(n) # NoFd
    BY <1>1, PathFacts, StorageAssumption DEF MetaInv
  <2>2. \A s \in Slots : fd'[s] # Meta(n)
    BY <1>1, <2>1
  <2>3. fs'[Meta(n)] = NoFile \/ OneVersion(fs'[Meta(n)])
    BY <2>1 DEF MetaFile
  <2>4. ceph'[Meta(n)] = NoFile \/ OneVersion(ceph'[Meta(n)])
    BY <1>1, <2>1 DEF MetaFile
  <2> QED BY <2>2, <2>3, <2>4, SlotKinds DEF MetaFile, OneVersion, PieceOf, Meta
<1> QED BY <1>2, <1>3, <1>4 DEF MetaInv

LEMMA MetaStepInv ==
    ASSUME "head" \notin ReadKinds
    PROVE  MetaInv /\ [ServerNext]_vars => MetaInv'
<1> SUFFICES ASSUME MetaInv, [ServerNext]_vars PROVE MetaInv'
  OBVIOUS
<1>0. ServerInv'
  BY ServerStepInv DEF MetaInv
<1>1. CASE \E u \in Uploaders : UploadTurn(u)
  BY <1>1, UploadTurnMeta
<1>2. CASE \E s \in Readers : ReadTurn(s)
  BY <1>2, ReadTurnMeta
<1>3. CASE \E s \in Editors : EditTurn(s)
  BY <1>3, EditTurnMeta
<1>4. CASE SyncTurn
  BY <1>4, SyncTurnMeta
<1>5. CASE ServerRestart \/ Redeploy
  <2>1. Died /\ fs' \in {fs, [p \in Paths |-> NoFile]}
    BY <1>5 DEF ServerRestart, Redeploy
  <2> QED BY <1>0, <2>1, DiedMeta
<1>6. CASE UNCHANGED vars
  <2>1. /\ UNCHANGED <<fs, fd, ceph, mixed>> /\ UNCHANGED <<rpc, rkind, rname, rbody, rpos>>
        /\ UNCHANGED <<upc, ureq, uparts, upiece>> /\ UNCHANGED <<epc, ebody>>
    BY <1>6 DEF vars, storageVars, fetchVars, uploadVars, editVars
  <2>2. \A n \in Names \ mixed' : MetaFile(n)'
    BY <2>1, MetaFileFrame DEF MetaInv
  <2>3. \A u \in Uploaders : UploadMeta(u)'
    BY <2>1, UploadMetaFrame DEF MetaInv
  <2>4. (\A s \in Editors : EditMeta(s)') /\ (\A s \in Readers : FetchMeta(s)')
    BY <2>1, EditMetaFrame, FetchMetaFrame DEF MetaInv
  <2> QED BY <1>0, <2>2, <2>3, <2>4 DEF MetaInv
<1> QED BY <1>1, <1>2, <1>3, <1>4, <1>5, <1>6 DEF ServerNext

(* As long as clients send no HEAD (whose handler, FileHeadCallback, puts   *)
(* data into the metadata file), MetaInv is an invariant of the server.     *)
THEOREM MetadataInvariant ==
    ASSUME "head" \notin ReadKinds
    PROVE  ServerSpec => []MetaInv
<1>1. ServerInit => MetaInv
  BY MetaInitInv
<1>2. MetaInv /\ [ServerNext]_vars => MetaInv'
  BY MetaStepInv
<1> QED BY <1>1, <1>2, PTL DEF ServerSpec

(* Without HEAD, and unless two threads had the metadata of a name open at  *)
(* once, what is cached or in Ceph as its metadata is (a piece of) one      *)
(* version a client sent, although uploads write it piece by piece          *)
(* (FileUploadCallback), PATCHes replace it (MetadataPatchCallback), GETs   *)
(* fill it unit by unit (downloadFile) and s3_upload_files copies it at any *)
(* moment, and whenever the process dies.                                   *)
THEOREM MetadataStaysOneVersion ==
    ASSUME "head" \notin ReadKinds
    PROVE  ServerSpec => []MetadataOneVersion
<1>1. MetaInv => MetadataOneVersion
  BY DEF MetaInv, MetaFile, MetadataOneVersion, OneVersion
<1>2. ServerSpec => []MetaInv
  BY MetadataInvariant
<1> QED BY <1>1, <1>2, PTL
===========================================================================
