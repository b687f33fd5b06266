-------------------------- MODULE MultipartProofs --------------------------
(***************************************************************************)
(* Proofs about Multipart: a body that is written as clients write it       *)
(* reaches the receivers as it was sent, for every boundary, every number   *)
(* of parts with any content, and every way the body can be cut.            *)
(*                                                                         *)
(* The argument follows the position of the parser in the text.  What is in *)
(* the buffer is a stretch of the text, so a delimiter found in the buffer  *)
(* is one of the text, and the first one from where the parser is.          *)
(***************************************************************************)
EXTENDS Multipart, WellFoundedInduction, TLAPS

Length == Len(sent.text)

(* How much of the text is read, and how much is parsed. *)
Came == Length - Len(rest)
Pos == Length - Len(rest) - Len(buf)

(* t is in the text after its first i symbols. *)
Here(t, i) ==
    i + Len(t) <= Length /\ \A k \in 1 .. Len(t) : sent.text[i + k] = t[k]

D == Len(dash_boundary_crlf)
L == Len(crlf_dash_boundary)

Count == Len(sent.parts)
HeadOf(i) == sent.at[i].head
LinesOf(i) == sent.at[i].lines
BodyOf(i) == sent.at[i].body
TailOf(i) == sent.at[i].tail

(* The buffer and what is not yet read are what follows in the text. *)
Window ==
    /\ Pos \in Nat
    /\ \A k \in 1 .. Len(buf) : buf[k] = sent.text[Pos + k]
    /\ \A k \in 1 .. Len(rest) : rest[k] = sent.text[Came + k]

(* The first m parts were passed on as they were sent. *)
Told(m) == \A i \in 1 .. m : parts[i] = sent.parts[i]

Resting == mpc \in {"read", "done"}

(* Where the parser is in each of its states. *)
BeforeParts ==
    /\ state = 0 /\ parts = <<>>
    /\ Pos + D <= HeadOf(1)
    /\ Resting => buf = <<>>

BeforeHeaders ==
    /\ state = 1 /\ Len(parts) < Count /\ Told(Len(parts))
    /\ Pos = HeadOf(Len(parts) + 1)
    /\ Resting => buf = <<>>

(* After k header lines of part i the type is known if one of them has it. *)
TypeSoFar(i, k) ==
    /\ file \in {NoType, sent.parts[i].type}
    /\ \A j \in 0 .. k - 1 : sent.text[HeadOf(i) + 3 * j + 1] \in Types => file # NoType

InHeaders ==
    /\ state = 2 /\ Len(parts) < Count /\ Told(Len(parts))
    /\ \E k \in 0 .. LinesOf(Len(parts) + 1) :
          Pos = HeadOf(Len(parts) + 1) + 3 * k /\ TypeSoFar(Len(parts) + 1, k)
    /\ Resting => Len(buf) <= 2

InContent ==
    /\ state = 3 /\ Len(parts) \in 1 .. Count /\ Told(Len(parts) - 1)
    /\ parts[Len(parts)].type = sent.parts[Len(parts)].type
    /\ Pos \in BodyOf(Len(parts)) .. TailOf(Len(parts))
    /\ parts[Len(parts)].data = SubSeq(sent.text, BodyOf(Len(parts)) + 1, Pos)
    /\ Resting => Len(buf) <= L

AfterContent ==
    /\ state = 4 /\ Len(parts) \in 1 .. Count /\ Told(Len(parts))
    /\ Pos = TailOf(Len(parts)) + L
    /\ Resting => Len(buf) < 2

(* A line end after the last boundary may be taken for another part. *)
Ended ==
    /\ parts = sent.parts /\ valid
    /\ \/ state = 4 /\ Pos >= TailOf(Count) + L + 2
       \/ state = 1 /\ buf = <<>> /\ rest = <<>>

OnTrack ==
    /\ mpc # "failed"
    /\ BeforeParts \/ BeforeHeaders \/ InHeaders \/ InContent \/ AfterContent \/ Ended

(* The inductive invariant. *)
MultipartInv ==
    /\ MultipartTypeOK
    /\ Window
    /\ mpc = "headers" => state = 2
    /\ state = 0 => parts = <<>>
    /\ state = 3 => parts # <<>>
    /\ sent.plain /\ ~lost => OnTrack

---------------------------------------------------------------------------
(* Searching *)

(* A set of numbers has a least one. *)
LEMMA LeastExists ==
    ASSUME NEW S \in SUBSET Nat, S # {}
    PROVE  \E m \in S : \A k \in S : m <= k
<1> DEFINE Less == {ss \in Nat \X Nat : ss[1] < ss[2]}
<1>1. OpToRel(<, Nat) = Less
  BY DEF OpToRel
<1>2. IsWellFoundedOn(Less, Nat)
  BY <1>1, NatLessThanWellFounded
<1>3. PICK m \in S : \A y \in S : ~(<<y, m>> \in Less)
  <2> HIDE DEF Less
  <2> QED BY <1>2, WFMin
<1>4. \A y \in S : ~(y < m)
  BY <1>3
<1> QED BY <1>4

LEMMA MinFacts ==
    ASSUME NEW S \in SUBSET Nat, S # {}
    PROVE  Min(S) \in S /\ \A k \in S : Min(S) <= k
BY LeastExists DEF Min

(* Symbol by symbol. *)
LEMMA OccursMeans ==
    ASSUME NEW A, NEW s \in Seq(A), NEW B, NEW t \in Seq(B), NEW i \in 0 .. Len(s)
    PROVE  Occurs(t, s, i) <=>
             i + Len(t) <= Len(s) /\ \A k \in 1 .. Len(t) : s[i + k] = t[k]
<1> DEFINE d == Drop(s, i)
<1>1. /\ d \in Seq(A) /\ Len(d) = Len(s) - i /\ \A k \in 1 .. Len(d) : d[k] = s[i + k]
      /\ Len(s) \in Nat /\ Len(t) \in Nat /\ i \in Nat
  BY DEF Drop
<1> HIDE DEF d
<1>2. Occurs(t, s, i) <=> Len(t) <= Len(d) /\ SubSeq(t, 1, Len(t)) = SubSeq(d, 1, Len(t))
  BY DEF Occurs, IsPrefix, d
<1>3. ASSUME Len(t) <= Len(d)
      PROVE  SubSeq(t, 1, Len(t)) = SubSeq(d, 1, Len(t)) <=> \A k \in 1 .. Len(t) : d[k] = t[k]
  <2> DEFINE u == SubSeq(t, 1, Len(t))
             v == SubSeq(d, 1, Len(t))
  <2>1. u \in Seq(B) /\ Len(u) = Len(t) /\ \A k \in 1 .. Len(t) : u[k] = t[k]
    BY <1>1
  <2>2. v \in Seq(A) /\ Len(v) = Len(t) /\ \A k \in 1 .. Len(t) : v[k] = d[k]
    BY <1>1, <1>3
  <2> HIDE DEF u, v
  <2>3. u = v => \A k \in 1 .. Len(t) : d[k] = t[k]
    BY <2>1, <2>2
  <2>4. (\A k \in 1 .. Len(t) : d[k] = t[k]) => u = v
    BY <2>1, <2>2
  <2> QED BY <2>3, <2>4 DEF u, v
<1> QED BY <1>1, <1>2, <1>3

(* The first place, or the length when there is none. *)
LEMMA FindFacts ==
    ASSUME NEW A, NEW s \in Seq(A), NEW B, NEW t \in Seq(B), Len(t) >= 1
    PROVE  /\ buf_find(s, t) \in 0 .. Len(s)
           /\ buf_find(s, t) < Len(s) => Occurs(t, s, buf_find(s, t))
           /\ \A i \in 0 .. Len(s) : Occurs(t, s, i) => buf_find(s, t) <= i /\ buf_find(s, t) < Len(s)
<1> DEFINE at == {i \in 0 .. Len(s) : Occurs(t, s, i)}
<1>1. buf_find(s, t) = IF at = {} THEN Len(s) ELSE Min(at)
  BY DEF buf_find
<1>2. \A i \in at : i \in Nat /\ i + Len(t) <= Len(s) /\ i \in 0 .. Len(s) /\ Occurs(t, s, i)
  BY OccursMeans
<1>3. \A i \in 0 .. Len(s) : Occurs(t, s, i) => i \in at
  OBVIOUS
<1>4. Len(s) \in Nat /\ Len(t) \in Nat
  OBVIOUS
<1> HIDE DEF at
<1>5. at \in SUBSET Nat
  BY <1>2
<1>6. at # {} => Min(at) \in at /\ \A k \in at : Min(at) <= k
  BY <1>5, MinFacts
<1>7. CASE at = {}
  BY <1>1, <1>3, <1>4, <1>7
<1>8. CASE at # {}
  <2>1. buf_find(s, t) \in at /\ \A k \in at : buf_find(s, t) <= k
    BY <1>1, <1>6, <1>8
  <2>2. buf_find(s, t) < Len(s) /\ buf_find(s, t) \in 0 .. Len(s)
    BY <1>2, <1>4, <2>1
  <2> QED BY <1>2, <1>3, <2>1, <2>2
<1> QED BY <1>7, <1>8

---------------------------------------------------------------------------
(* The delimiters and the body *)

LEMMA ConcatFacts ==
    ASSUME NEW A, NEW s \in Seq(A), NEW t \in Seq(A)
    PROVE  s \o t \in Seq(A) /\ Len(s \o t) = Len(s) + Len(t)
OBVIOUS

LEMMA ConcatAt ==
    ASSUME NEW A, NEW s \in Seq(A), NEW t \in Seq(A), NEW k \in 1 .. Len(s) + Len(t)
    PROVE  (s \o t)[k] = IF k <= Len(s) THEN s[k] ELSE t[k - Len(s)]
OBVIOUS

LEMMA PartEqual ==
    ASSUME NEW p \in Part, NEW q \in Part, p.type = q.type, p.data = q.data
    PROVE  p = q
BY DEF Part

LEMMA SeqsEqual ==
    ASSUME NEW A, NEW s \in Seq(A), NEW t \in Seq(A),
           Len(s) = Len(t), \A i \in 1 .. Len(s) : s[i] = t[i]
    PROVE  s = t
OBVIOUS

LEMMA Delimiters ==
    /\ crlf \in Seq({CR, LF}) /\ Len(crlf) = 2 /\ crlf[1] = CR /\ crlf[2] = LF
    /\ dash \in Seq({Dash}) /\ Len(dash) = 2 /\ dash[1] = Dash /\ dash[2] = Dash
    /\ \E A : dash_boundary_crlf \in Seq(A) /\ crlf_dash_boundary \in Seq(A)
    /\ D \in Nat /\ L \in Nat /\ D >= 5 /\ L >= 5
<1>1. /\ crlf \in Seq({CR, LF}) /\ Len(crlf) = 2 /\ crlf[1] = CR /\ crlf[2] = LF
      /\ dash \in Seq({Dash}) /\ Len(dash) = 2 /\ dash[1] = Dash /\ dash[2] = Dash
  BY DEF crlf, dash
<1> DEFINE A == Range(Boundary) \cup {CR, LF, Dash}
<1>2. Boundary \in Seq(A) /\ Boundary # <<>>
  <2>1. Boundary \in Seq(Range(Boundary)) /\ Boundary # <<>>
    BY MultipartAssumption
  <2> QED BY <2>1
<1>3. crlf \in Seq(A) /\ dash \in Seq(A)
  BY DEF crlf, dash
<1> HIDE DEF A
<1>4. Len(Boundary) \in Nat /\ Len(Boundary) >= 1
  BY <1>2
<1>5. dash_boundary_crlf \in Seq(A) /\ D = Len(Boundary) + 4
  <2> DEFINE x == dash \o Boundary
             y == x \o crlf
  <2>1. x \in Seq(A) /\ Len(x) = Len(dash) + Len(Boundary)
    BY <1>2, <1>3, ConcatFacts
  <2>2. y \in Seq(A) /\ Len(y) = Len(x) + Len(crlf)
    <3> HIDE DEF x
    <3> QED BY <1>3, <2>1, ConcatFacts
  <2>3. dash_boundary_crlf = y
    BY DEF dash_boundary_crlf
  <2> HIDE DEF x, y
  <2> QED BY <1>1, <1>4, <2>1, <2>2, <2>3 DEF D
<1>6. crlf_dash_boundary \in Seq(A) /\ L = Len(Boundary) + 4
  <2> DEFINE x == crlf \o dash
             y == x \o Boundary
  <2>1. x \in Seq(A) /\ Len(x) = Len(crlf) + Len(dash)
    BY <1>3, ConcatFacts
  <2>2. y \in Seq(A) /\ Len(y) = Len(x) + Len(Boundary)
    <3> HIDE DEF x
    <3> QED BY <1>2, <2>1, ConcatFacts
  <2>3. crlf_dash_boundary = y
    BY DEF crlf_dash_boundary
  <2> HIDE DEF x, y
  <2> QED BY <1>1, <1>4, <2>1, <2>2, <2>3 DEF L
<1> QED BY <1>1, <1>4, <1>5, <1>6

(* What PartWritten says of a part, symbol by symbol. *)
PartAt(i) ==
    /\ HeadOf(i) \in Nat /\ LinesOf(i) \in Nat /\ BodyOf(i) \in Nat /\ TailOf(i) \in Nat
    /\ \A k \in 0 .. LinesOf(i) - 1 :
          /\ sent.text[HeadOf(i) + 3 * k + 1] \in Known
          /\ sent.text[HeadOf(i) + 3 * k + 1] \in Types =>
                sent.text[HeadOf(i) + 3 * k + 1] = sent.parts[i].type
          /\ Here(crlf, HeadOf(i) + 3 * k + 1)
    /\ sent.parts[i].type # NoType =>
          \E k \in 0 .. LinesOf(i) - 1 : sent.text[HeadOf(i) + 3 * k + 1] = sent.parts[i].type
    /\ Here(crlf, HeadOf(i) + 3 * LinesOf(i))
    /\ BodyOf(i) = HeadOf(i) + 3 * LinesOf(i) + 2 /\ BodyOf(i) <= TailOf(i)
    /\ sent.parts[i].data = SubSeq(sent.text, BodyOf(i) + 1, TailOf(i))
    /\ Here(crlf_dash_boundary, TailOf(i))
    /\ \A j \in BodyOf(i) .. TailOf(i) - 1 : ~Here(crlf_dash_boundary, j)
    /\ i < Count => Here(crlf, TailOf(i) + L) /\ HeadOf(i + 1) = TailOf(i) + L + 2
    /\ i = Count => Here(dash, TailOf(i) + L) /\ Length <= TailOf(i) + L + 4

LEMMA BodyTypes ==
    ASSUME sent \in Bodies
    PROVE  /\ sent.text \in Seq(Symbol) /\ Length \in Nat
           /\ sent.parts \in Seq(Part) /\ Count \in Nat
           /\ \A i \in 1 .. Count : sent.parts[i] \in Part
<1>1. sent.text \in Seq(Symbol) /\ sent.parts \in Seq(Part)
  BY MultipartAssumption
<1> QED BY <1>1 DEF Length, Count

(* An occurrence in the text, in the words of the proofs. *)
LEMMA OccursHere ==
    ASSUME sent \in Bodies, NEW B, NEW t \in Seq(B), NEW i \in Nat
    PROVE  /\ Occurs(t, sent.text, i) /\ Len(t) >= 1 => Here(t, i)
           /\ ~Occurs(t, sent.text, i) => ~Here(t, i)
<1>1. sent.text \in Seq(Symbol) /\ Length \in Nat /\ Len(t) \in Nat
  BY BodyTypes
<1>2. CASE i <= Length
  <2>1. i \in 0 .. Len(sent.text)
    BY <1>1, <1>2 DEF Length
  <2>2. Occurs(t, sent.text, i) <=>
          i + Len(t) <= Len(sent.text) /\ \A k \in 1 .. Len(t) : sent.text[i + k] = t[k]
    BY <1>1, <2>1, OccursMeans
  <2> QED BY <2>2 DEF Here, Length
<1>3. CASE i > Length
  <2>1. Drop(sent.text, i) = <<>>
    BY <1>1, <1>3 DEF Drop, Length
  <2>2. Occurs(t, sent.text, i) => Len(t) <= 0
    BY <2>1 DEF Occurs, IsPrefix
  <2>3. ~Here(t, i)
    BY <1>1, <1>3 DEF Here
  <2> QED BY <1>1, <2>2, <2>3
<1> QED BY <1>1, <1>2, <1>3

LEMMA LineEndHere ==
    ASSUME sent \in Bodies, NEW j \in Nat
    PROVE  /\ Occurs(crlf, sent.text, j) => Here(crlf, j)
           /\ Occurs(dash, sent.text, j) => Here(dash, j)
<1>1. /\ crlf \in Seq({CR, LF}) /\ Len(crlf) >= 1
      /\ dash \in Seq({Dash}) /\ Len(dash) >= 1
  BY Delimiters
<1>2. Occurs(crlf, sent.text, j) => Here(crlf, j)
  BY <1>1, OccursHere
<1>3. Occurs(dash, sent.text, j) => Here(dash, j)
  BY <1>1, OccursHere
<1> QED BY <1>2, <1>3

LEMMA BodyFacts ==
    ASSUME sent \in Bodies, sent.plain
    PROVE  /\ Count \in Nat \ {0}
           /\ HeadOf(1) - D \in Nat /\ Here(dash_boundary_crlf, HeadOf(1) - D)
           /\ \A j \in 0 .. (HeadOf(1) - D) - 1 : ~Here(dash_boundary_crlf, j)
           /\ \A i \in 1 .. Count : PartAt(i)
<1>1. /\ sent.text \in Seq(Symbol) /\ Length \in Nat
      /\ sent.parts \in Seq(Part) /\ Count \in Nat
  BY BodyTypes
<1>2. WellWritten(sent)
  BY MultipartAssumption
<1>3. PICK A : dash_boundary_crlf \in Seq(A) /\ crlf_dash_boundary \in Seq(A)
  BY Delimiters
<1>4. /\ sent.parts # <<>> /\ Len(sent.at) = Len(sent.parts)
      /\ sent.at \in Seq([head : Nat, lines : Nat, body : Nat, tail : Nat])
      /\ HeadOf(1) - D \in Nat /\ Occurs(dash_boundary_crlf, sent.text, HeadOf(1) - D)
      /\ \A j \in 0 .. (HeadOf(1) - D) - 1 : ~Occurs(dash_boundary_crlf, sent.text, j)
      /\ \A i \in DOMAIN sent.parts : PartWritten(sent, i)
  BY <1>2 DEF WellWritten, HeadOf, D
<1>5. Count \in Nat \ {0}
  BY <1>1, <1>4 DEF Count
<1>6. Here(dash_boundary_crlf, HeadOf(1) - D)
  BY <1>3, <1>4, OccursHere, Delimiters DEF D
<1>7. \A j \in 0 .. (HeadOf(1) - D) - 1 : ~Here(dash_boundary_crlf, j)
  <2> DEFINE first == HeadOf(1) - D
  <2>1. first \in Nat /\ \A j \in 0 .. first - 1 : ~Occurs(dash_boundary_crlf, sent.text, j)
    BY <1>4
  <2> HIDE DEF first
  <2>2. \A j \in 0 .. first - 1 : ~Here(dash_boundary_crlf, j)
    BY <1>3, <2>1, OccursHere
  <2> QED BY <2>2 DEF first
<1>8. ASSUME NEW i \in 1 .. Count PROVE PartAt(i)
  <2>1. /\ HeadOf(i) \in Nat /\ LinesOf(i) \in Nat /\ BodyOf(i) \in Nat /\ TailOf(i) \in Nat
        /\ i \in DOMAIN sent.parts /\ i <= Count
    <3>1. sent.at[i] \in [head : Nat, lines : Nat, body : Nat, tail : Nat]
      <4> DEFINE R == [head : Nat, lines : Nat, body : Nat, tail : Nat]
      <4>1. sent.at \in Seq(R) /\ Len(sent.at) = Count
        BY <1>4 DEF Count
      <4> HIDE DEF R
      <4>2. sent.at[i] \in R
        BY <1>1, <4>1
      <4> QED BY <4>2 DEF R
    <3> QED BY <1>1, <3>1 DEF HeadOf, LinesOf, BodyOf, TailOf, Count
  <2>2. PartWritten(sent, i)
    BY <1>4, <2>1
  <2>3. ASSUME NEW k \in 0 .. LinesOf(i) - 1
        PROVE  /\ sent.text[HeadOf(i) + 3 * k + 1] \in Known
               /\ sent.text[HeadOf(i) + 3 * k + 1] \in Types =>
                     sent.text[HeadOf(i) + 3 * k + 1] = sent.parts[i].type
               /\ Here(crlf, HeadOf(i) + 3 * k + 1)
    <3>1. /\ sent.text[HeadOf(i) + 3 * k + 1] \in Known
          /\ sent.text[HeadOf(i) + 3 * k + 1] \in Types =>
                sent.text[HeadOf(i) + 3 * k + 1] = sent.parts[i].type
          /\ Occurs(crlf, sent.text, HeadOf(i) + 3 * k + 1)
      BY <2>2 DEF PartWritten, HeadOf, LinesOf
    <3>2. HeadOf(i) + 3 * k + 1 \in Nat
      BY <2>1
    <3> DEFINE j == HeadOf(i) + 3 * k + 1
    <3>10. j \in Nat /\ Occurs(crlf, sent.text, j)
      BY <3>1, <3>2
    <3> HIDE DEF j
    <3>11. Here(crlf, j)
      BY SMTT(30), <3>10, LineEndHere
    <3> QED BY SMTT(30), <3>1, <3>11 DEF j
  <2>4. sent.parts[i].type # NoType =>
          \E k \in 0 .. LinesOf(i) - 1 : sent.text[HeadOf(i) + 3 * k + 1] = sent.parts[i].type
    BY <2>2 DEF PartWritten, HeadOf, LinesOf
  <2>5. Here(crlf, HeadOf(i) + 3 * LinesOf(i))
    <3>1. Occurs(crlf, sent.text, HeadOf(i) + 3 * LinesOf(i))
      BY <2>2 DEF PartWritten, HeadOf, LinesOf
    <3>2. HeadOf(i) + 3 * LinesOf(i) \in Nat
      BY <2>1
    <3> DEFINE j == HeadOf(i) + 3 * LinesOf(i)
    <3>10. j \in Nat /\ Occurs(crlf, sent.text, j)
      BY <3>1, <3>2
    <3> HIDE DEF j
    <3>11. Here(crlf, j)
      BY SMTT(30), <3>10, LineEndHere
    <3> QED BY SMTT(30), <3>11 DEF j
  <2>6. /\ BodyOf(i) = HeadOf(i) + 3 * LinesOf(i) + 2 /\ BodyOf(i) <= TailOf(i)
        /\ sent.parts[i].data = SubSeq(sent.text, BodyOf(i) + 1, TailOf(i))
        /\ Occurs(crlf_dash_boundary, sent.text, TailOf(i))
        /\ \A j \in BodyOf(i) .. TailOf(i) - 1 : ~Occurs(crlf_dash_boundary, sent.text, j)
    BY <2>2 DEF PartWritten, HeadOf, LinesOf, BodyOf, TailOf
  <2>7. Here(crlf_dash_boundary, TailOf(i))
    BY <1>3, <2>1, <2>6, OccursHere, Delimiters DEF L
  <2>8. \A j \in BodyOf(i) .. TailOf(i) - 1 : ~Here(crlf_dash_boundary, j)
    <3>1. \A j \in BodyOf(i) .. TailOf(i) - 1 : j \in Nat
      BY <2>1
    <3> QED BY <1>3, <2>6, <3>1, OccursHere
  <2>9. TailOf(i) + L \in Nat
    BY SMTT(30), <2>1, Delimiters
  <2>10. ASSUME i < Count PROVE Here(crlf, TailOf(i) + L) /\ HeadOf(i + 1) = TailOf(i) + L + 2
    <3>1. Occurs(crlf, sent.text, TailOf(i) + L) /\ HeadOf(i + 1) = TailOf(i) + L + 2
      BY <2>2, <2>10 DEF PartWritten, HeadOf, TailOf, L, Count
    <3> DEFINE j == TailOf(i) + L
    <3>10. j \in Nat /\ Occurs(crlf, sent.text, j)
      BY <2>9, <3>1
    <3> HIDE DEF j
    <3>11. Here(crlf, j)
      BY <3>10, LineEndHere
    <3> QED BY <3>1, <3>11 DEF j
  <2>11. ASSUME i = Count PROVE Here(dash, TailOf(i) + L) /\ Length <= TailOf(i) + L + 4
    <3>1. ~(i < Count)
      BY SMTT(30), <1>1, <2>11
    <3>2. Occurs(dash, sent.text, TailOf(i) + L) /\ Drop(sent.text, TailOf(i) + L + 2) \in {<<>>, crlf}
      BY <2>2, <3>1 DEF PartWritten, TailOf, L, Count
    <3>3. Len(Drop(sent.text, TailOf(i) + L + 2)) <= 2
      <4>1. Len(<<>>) = 0 /\ Len(crlf) = 2
        BY Delimiters
      <4> QED BY <3>2, <4>1
    <3>4. Len(sent.text) <= TailOf(i) + L + 2 + 2
      <4> DEFINE e == TailOf(i) + L + 2
      <4>1. e \in Nat /\ Len(SubSeq(sent.text, e + 1, Len(sent.text))) <= 2
        BY <2>9, <3>3 DEF Drop
      <4> HIDE DEF e
      <4>2. Len(sent.text) <= e + 2
        BY <1>1, <4>1 DEF Length
      <4> QED BY <4>2 DEF e
    <3> DEFINE j == TailOf(i) + L
    <3>10. j \in Nat /\ Occurs(dash, sent.text, j)
      BY <2>9, <3>2
    <3> HIDE DEF j
    <3>11. Here(dash, j)
      BY <3>10, LineEndHere
    <3>5. Here(dash, TailOf(i) + L)
      BY <3>11 DEF j
    <3> QED BY <1>1, <2>9, <3>4, <3>5 DEF Length
  <2> QED BY <2>1, <2>3, <2>4, <2>5, <2>6, <2>7, <2>8, <2>10, <2>11 DEF PartAt
<1> QED BY <1>4, <1>5, <1>6, <1>7, <1>8

---------------------------------------------------------------------------
(* The buffer *)

LEMMA Positions ==
    ASSUME MultipartTypeOK, Window
    PROVE  /\ Length \in Nat /\ Len(rest) \in Nat /\ Len(buf) \in Nat /\ Pos \in Nat /\ Came \in Nat
           /\ Came = Pos + Len(buf) /\ Length = Came + Len(rest)
           /\ buf # <<>> => Len(buf) >= 1
           /\ rest = <<>> => Came = Length
<1>1. Length \in Nat /\ rest \in Seq(Symbol) /\ buf \in Seq(Symbol)
  BY BodyTypes DEF MultipartTypeOK
<1>2. /\ Len(rest) \in Nat /\ Len(buf) \in Nat /\ (buf # <<>> => Len(buf) >= 1)
      /\ (rest = <<>> => Len(rest) = 0)
  BY <1>1
<1>3. Pos = Length - Len(rest) - Len(buf) /\ Came = Length - Len(rest) /\ Pos \in Nat
  BY DEF Window, Pos, Came
<1> QED BY <1>1, <1>2, <1>3

(* What is found in the buffer is in the text. *)
LEMMA OccursInBuf ==
    ASSUME MultipartTypeOK, Window, NEW B, NEW t \in Seq(B), NEW i \in 0 .. Len(buf)
    PROVE  Occurs(t, buf, i) <=> i + Len(t) <= Len(buf) /\ Here(t, Pos + i)
<1>1. /\ Length \in Nat /\ Len(rest) \in Nat /\ Len(buf) \in Nat /\ Pos \in Nat
      /\ Length = Pos + Len(buf) + Len(rest) /\ i \in Nat /\ Len(t) \in Nat
  BY Positions
<1>2. Occurs(t, buf, i) <=> i + Len(t) <= Len(buf) /\ \A k \in 1 .. Len(t) : buf[i + k] = t[k]
  <2>1. buf \in Seq(Symbol)
    BY DEF MultipartTypeOK
  <2> QED BY <2>1, OccursMeans
<1>3. ASSUME i + Len(t) <= Len(buf)
      PROVE  /\ Pos + i + Len(t) <= Length
             /\ \A k \in 1 .. Len(t) : buf[i + k] = sent.text[Pos + i + k]
  <2>1. Pos + i + Len(t) <= Length
    BY <1>1, <1>3
  <2>2. ASSUME NEW k \in 1 .. Len(t) PROVE buf[i + k] = sent.text[Pos + i + k]
    <3>1. i + k \in 1 .. Len(buf) /\ Pos + (i + k) = Pos + i + k
      BY <1>1, <1>3
    <3> QED BY <3>1 DEF Window
  <2> QED BY <2>1, <2>2
<1> QED BY <1>2, <1>3 DEF Here

(* The search of the buffer finds the next one in the text, if all of it    *)
(* has come.                                                                *)
LEMMA FindNext ==
    ASSUME MultipartTypeOK, Window, NEW B, NEW t \in Seq(B), Len(t) >= 1,
           NEW e \in Nat, Pos <= e, Here(t, e), \A j \in Pos .. e - 1 : ~Here(t, j)
    PROVE  /\ buf_find(buf, t) \in 0 .. Len(buf)
           /\ buf_find(buf, t) < Len(buf) => Pos + buf_find(buf, t) = e /\ e + Len(t) <= Came
           /\ buf_find(buf, t) = Len(buf) => Came < e + Len(t)
<1> DEFINE f == buf_find(buf, t)
<1>1. /\ Len(buf) \in Nat /\ Pos \in Nat /\ Came = Pos + Len(buf) /\ Len(t) \in Nat
  BY Positions
<1>2. /\ f \in 0 .. Len(buf)
      /\ f < Len(buf) => Occurs(t, buf, f)
      /\ \A i \in 0 .. Len(buf) : Occurs(t, buf, i) => f <= i /\ f < Len(buf)
  BY FindFacts DEF MultipartTypeOK
<1> HIDE DEF f
<1>3. ASSUME e + Len(t) <= Came PROVE f <= e - Pos /\ f < Len(buf)
  <2>1. e - Pos \in 0 .. Len(buf) /\ (e - Pos) + Len(t) <= Len(buf) /\ Pos + (e - Pos) = e
    BY <1>1, <1>3
  <2>2. Occurs(t, buf, e - Pos)
    BY <2>1, OccursInBuf
  <2> QED BY <1>2, <2>1, <2>2
<1>4. ASSUME f < Len(buf) PROVE Pos + f = e /\ e + Len(t) <= Came
  <2>1. f + Len(t) <= Len(buf) /\ Here(t, Pos + f)
    BY <1>2, <1>4, OccursInBuf
  <2>2. Pos + f >= e
    BY <1>1, <1>2, <2>1
  <2>3. e + Len(t) <= Came
    BY <1>1, <1>2, <2>1, <2>2
  <2>4. f <= e - Pos
    BY <1>3, <2>3
  <2> QED BY <1>1, <1>2, <2>2, <2>3, <2>4
<1>5. ASSUME f = Len(buf) PROVE Came < e + Len(t)
  BY <1>1, <1>3, <1>5
<1> QED BY <1>2, <1>4, <1>5 DEF f

(* Parsing moves the window along the text, *)
LEMMA DropWindow ==
    ASSUME MultipartTypeOK, Window, NEW n \in 0 .. Len(buf),
           buf' = Drop(buf, n), rest' = rest, sent' = sent
    PROVE  /\ buf' \in Seq(Symbol) /\ Window'
           /\ Pos' = Pos + n /\ Len(buf') = Len(buf) - n /\ Came' = Came /\ Length' = Length
<1>1. /\ Length \in Nat /\ Len(rest) \in Nat /\ Len(buf) \in Nat /\ Pos \in Nat
      /\ buf \in Seq(Symbol)
  BY Positions DEF MultipartTypeOK
<1>2. /\ buf' \in Seq(Symbol) /\ Len(buf') = Len(buf) - n
      /\ \A k \in 1 .. Len(buf) - n : buf'[k] = buf[n + k]
  BY <1>1 DEF Drop
<1>3. Length' = Length /\ Came' = Came
  BY DEF Length, Came
<1>4. Pos' = Pos + n
  BY <1>1, <1>2, <1>3 DEF Pos
<1>5. ASSUME NEW k \in 1 .. Len(buf') PROVE buf'[k] = sent'.text[Pos' + k]
  <2>1. n + k \in 1 .. Len(buf) /\ Pos + (n + k) = (Pos + n) + k
    BY <1>1, <1>2
  <2>2. buf'[k] = buf[n + k]
    BY <1>2
  <2> QED BY <1>4, <2>1, <2>2 DEF Window
<1>6. Window'
  BY <1>1, <1>3, <1>4, <1>5 DEF Window
<1> QED BY <1>2, <1>3, <1>4, <1>6

(* as does giving up all of the buffer, *)
LEMMA EmptyWindow ==
    ASSUME MultipartTypeOK, Window, buf' = <<>>, rest' = rest, sent' = sent
    PROVE  /\ buf' \in Seq(Symbol) /\ Window' /\ Len(buf') = 0
           /\ Pos' = Came /\ Came' = Came /\ Length' = Length
<1>1. /\ Length \in Nat /\ Len(rest) \in Nat /\ Came \in Nat
  BY Positions
<1>2. buf' \in Seq(Symbol) /\ Len(buf') = 0
  OBVIOUS
<1>3. Length' = Length /\ Came' = Came
  BY DEF Length, Came
<1>4. Pos' = Came
  BY <1>1, <1>2, <1>3 DEF Pos, Came
<1> QED BY <1>1, <1>2, <1>3, <1>4 DEF Window

(* and what is read makes it wider. *)
LEMMA ReadWindow ==
    ASSUME MultipartTypeOK, Window, NEW n \in 1 .. Len(rest),
           buf' = buf \o SubSeq(rest, 1, n), rest' = Drop(rest, n), sent' = sent
    PROVE  /\ buf' \in Seq(Symbol) /\ rest' \in Seq(Symbol) /\ Window'
           /\ Pos' = Pos /\ Length' = Length
<1>1. /\ Length \in Nat /\ Len(rest) \in Nat /\ Len(buf) \in Nat /\ Pos \in Nat
      /\ Came = Pos + Len(buf) /\ buf \in Seq(Symbol) /\ rest \in Seq(Symbol)
  BY Positions DEF MultipartTypeOK
<1>2. /\ rest' \in Seq(Symbol) /\ Len(rest') = Len(rest) - n
      /\ \A k \in 1 .. Len(rest) - n : rest'[k] = rest[n + k]
  BY SMTT(30), <1>1 DEF Drop
<1> DEFINE s == SubSeq(rest, 1, n)
<1>3. s \in Seq(Symbol) /\ Len(s) = n /\ \A k \in 1 .. n : s[k] = rest[k]
  BY <1>1
<1>4. buf' = buf \o s
  OBVIOUS
<1> HIDE DEF s
<1>5. /\ buf' \in Seq(Symbol) /\ Len(buf') = Len(buf) + n
      /\ \A k \in 1 .. Len(buf) + n : buf'[k] = IF k <= Len(buf) THEN buf[k] ELSE s[k - Len(buf)]
  BY <1>1, <1>3, <1>4
<1>6. Length' = Length
  BY DEF Length
<1>7. Pos' = Pos /\ Came' = Came + n
  BY <1>1, <1>2, <1>5, <1>6 DEF Pos, Came
<1>8. ASSUME NEW k \in 1 .. Len(buf') PROVE buf'[k] = sent'.text[Pos' + k]
  <2>1. CASE k <= Len(buf)
    BY <1>1, <1>5, <1>7, <2>1 DEF Window
  <2>2. CASE k > Len(buf)
    <3> DEFINE j == k - Len(buf)
    <3>1. j \in 1 .. n /\ j \in 1 .. Len(rest) /\ Came + j = Pos + k /\ buf'[k] = s[j]
      BY <1>1, <1>5, <2>2
    <3> HIDE DEF j
    <3> QED BY <1>3, <1>7, <3>1 DEF Window
  <2> QED BY <1>1, <1>5, <2>1, <2>2
<1>9. ASSUME NEW k \in 1 .. Len(rest') PROVE rest'[k] = sent'.text[Came' + k]
  <2>1. n + k \in 1 .. Len(rest) /\ Came + (n + k) = (Came + n) + k
    BY <1>1, <1>2
  <2> QED BY <1>2, <1>7, <2>1 DEF Window
<1> QED BY <1>1, <1>2, <1>5, <1>6, <1>7, <1>8, <1>9 DEF Window

---------------------------------------------------------------------------
(* The steps *)

LEMMA SameBody ==
    ASSUME sent' = sent
    PROVE  /\ Length' = Length /\ Count' = Count
           /\ \A i : HeadOf(i)' = HeadOf(i) /\ LinesOf(i)' = LinesOf(i)
                     /\ BodyOf(i)' = BodyOf(i) /\ TailOf(i)' = TailOf(i)
BY DEF Length, Count, HeadOf, LinesOf, BodyOf, TailOf

LEMMA MultipartInitInv == MultipartInit => MultipartInv
<1> SUFFICES ASSUME MultipartInit PROVE MultipartInv
  OBVIOUS
<1>1. /\ sent \in Bodies /\ rest = sent.text /\ buf = <<>> /\ state = 0 /\ mpc = "read"
      /\ file = NoType /\ parts = <<>> /\ valid = FALSE /\ lost = FALSE
  BY DEF MultipartInit
<1>2. sent.text \in Seq(Symbol) /\ Length \in Nat
  BY <1>1, BodyTypes
<1>3. MultipartTypeOK
  <2>1. buf \in Seq(Symbol) /\ parts \in Seq(Part)
    BY <1>1
  <2>2. valid \in BOOLEAN /\ lost \in BOOLEAN
    BY <1>1
  <2>3. rest \in Seq(Symbol) /\ state \in 0 .. 4
    BY <1>1, <1>2
  <2> QED BY <1>1, <2>1, <2>2, <2>3 DEF MultipartTypeOK
<1>4. Len(buf) = 0 /\ Len(rest) = Length
  BY <1>1 DEF Length
<1>5. Came = 0 /\ Pos = 0
  BY <1>2, <1>4 DEF Came, Pos
<1>6. Window
  BY <1>1, <1>4, <1>5 DEF Window
<1>7. ASSUME sent.plain PROVE OnTrack
  <2>1. HeadOf(1) - D \in Nat /\ \A i \in 1 .. Count : PartAt(i)
    BY <1>1, <1>7, BodyFacts
  <2>2. HeadOf(1) \in Nat /\ D \in Nat
    BY <1>1, <1>7, <2>1, BodyFacts, Delimiters DEF PartAt
  <2>3. Pos + D <= HeadOf(1)
    BY <1>5, <2>1, <2>2
  <2> QED BY <1>1, <2>3 DEF OnTrack, BeforeParts
<1> QED BY <1>1, <1>3, <1>6, <1>7 DEF MultipartInv

(* Steps that only move the loop: *)
LEMMA OnTrackSame ==
    ASSUME OnTrack, UNCHANGED <<sent, rest, buf, state, file, parts, valid>>,
           mpc' # "failed", Resting' => Resting \/ (Len(buf) = 0 /\ buf = <<>>)
    PROVE  OnTrack'
<1>1. /\ Length' = Length /\ Count' = Count
      /\ \A i : HeadOf(i)' = HeadOf(i) /\ LinesOf(i)' = LinesOf(i)
                /\ BodyOf(i)' = BodyOf(i) /\ TailOf(i)' = TailOf(i)
  BY SameBody
<1>2. Pos' = Pos /\ D \in Nat /\ L \in Nat /\ L >= 5
  BY <1>1, Delimiters DEF Pos
<1>3. \A m : Told(m)' <=> Told(m)
  BY DEF Told
<1>4. \A i, k : TypeSoFar(i, k)' <=> TypeSoFar(i, k)
  BY <1>1 DEF TypeSoFar
<1>5. CASE BeforeParts
  <2>1. BeforeParts'
    BY <1>1, <1>2, <1>5 DEF BeforeParts
  <2> QED BY <2>1 DEF OnTrack
<1>6. CASE BeforeHeaders
  <2>1. BeforeHeaders'
    BY <1>1, <1>2, <1>3, <1>6 DEF BeforeHeaders
  <2> QED BY <2>1 DEF OnTrack
<1>7. CASE InHeaders
  <2>1. InHeaders'
    BY <1>1, <1>2, <1>3, <1>4, <1>7 DEF InHeaders
  <2> QED BY <2>1 DEF OnTrack
<1>8. CASE InContent
  <2>1. Resting' => Len(buf') <= L
    BY <1>2, <1>8 DEF InContent
  <2>2. InContent'
    BY <1>1, <1>2, <1>3, <1>8, <2>1 DEF InContent
  <2> QED BY <2>2 DEF OnTrack
<1>9. CASE AfterContent
  <2>1. AfterContent'
    BY <1>1, <1>2, <1>3, <1>9 DEF AfterContent
  <2> QED BY <2>1 DEF OnTrack
<1>10. CASE Ended
  <2>1. Ended'
    BY <1>1, <1>2, <1>10 DEF Ended
  <2> QED BY <2>1 DEF OnTrack
<1> QED BY <1>5, <1>6, <1>7, <1>8, <1>9, <1>10 DEF OnTrack

LEMMA SameWindow ==
    ASSUME Window, UNCHANGED <<sent, rest, buf>>
    PROVE  Window'
<1>1. Length' = Length /\ Pos' = Pos /\ Came' = Came
  BY DEF Length, Pos, Came
<1> QED BY <1>1 DEF Window

(* reading ends or fails, parse returns, *)
LEMMA LoopSteps ==
    ASSUME MultipartInv, ReadFails \/ ReadDone \/ ParseReturn
    PROVE  MultipartInv'
<1>1. /\ UNCHANGED <<sent, rest, buf, state, file, parts, valid, lost>>
      /\ mpc' \in {"cut", "done", "read"}
      /\ mpc' \in {"done", "read"} => mpc = "read" \/ buf = <<>>
  BY DEF ReadFails, ReadDone, ParseReturn
<1>2. MultipartTypeOK'
  BY <1>1 DEF MultipartInv, MultipartTypeOK, Running, Stopped
<1>3. Window'
  BY <1>1, SameWindow DEF MultipartInv
<1>4. ASSUME sent.plain, ~lost PROVE OnTrack'
  <2>1. OnTrack
    BY <1>4 DEF MultipartInv
  <2>2. Resting' => Resting \/ (Len(buf) = 0 /\ buf = <<>>)
    <3>1. Resting' => mpc = "read" \/ buf = <<>>
      BY <1>1 DEF Resting
    <3>2. buf = <<>> => Len(buf) = 0
      OBVIOUS
    <3> QED BY <3>1, <3>2 DEF Resting
  <2> QED BY <1>1, <2>1, <2>2, OnTrackSame
<1> QED BY <1>1, <1>2, <1>3, <1>4 DEF MultipartInv

(* and a piece of the body comes. *)
LEMMA ReadStep ==
    ASSUME MultipartInv, ReadPiece
    PROVE  MultipartInv'
<1>1. PICK n \in 1 .. Len(rest) : buf' = buf \o SubSeq(rest, 1, n) /\ rest' = Drop(rest, n)
  BY DEF ReadPiece
<1>2. /\ UNCHANGED <<sent, state, file, parts, valid, lost>>
      /\ mpc = "read" /\ mpc' = "parse"
  BY DEF ReadPiece
<1>3. MultipartTypeOK /\ Window
  BY DEF MultipartInv
<1>4. /\ buf' \in Seq(Symbol) /\ rest' \in Seq(Symbol) /\ Window'
      /\ Pos' = Pos /\ Length' = Length
  BY <1>1, <1>2, <1>3, ReadWindow
<1>5. MultipartTypeOK'
  BY <1>2, <1>3, <1>4 DEF MultipartTypeOK, Running, Stopped
<1>6. rest # <<>> /\ ~Resting'
  BY <1>1, <1>2 DEF Resting
<1>7. ASSUME sent.plain, ~lost PROVE OnTrack'
  <2>0. OnTrack
    BY <1>7 DEF MultipartInv
  <2>1. /\ Count' = Count
        /\ \A i : HeadOf(i)' = HeadOf(i) /\ LinesOf(i)' = LinesOf(i)
                  /\ BodyOf(i)' = BodyOf(i) /\ TailOf(i)' = TailOf(i)
    BY <1>2, SameBody
  <2>2. \A m : Told(m)' <=> Told(m)
    BY <1>2 DEF Told
  <2>3. \A i, k : TypeSoFar(i, k)' <=> TypeSoFar(i, k)
    BY <1>2, <2>1 DEF TypeSoFar
  <2>4. BeforeParts => BeforeParts'
    BY <1>2, <1>4, <1>6, <2>1 DEF BeforeParts
  <2>5. BeforeHeaders => BeforeHeaders'
    BY <1>2, <1>4, <1>6, <2>1, <2>2 DEF BeforeHeaders
  <2>6. InHeaders => InHeaders'
    BY <1>2, <1>4, <1>6, <2>1, <2>2, <2>3 DEF InHeaders
  <2>7. InContent => InContent'
    BY <1>2, <1>4, <1>6, <2>1, <2>2 DEF InContent
  <2>8. AfterContent => AfterContent'
    BY <1>2, <1>4, <1>6, <2>1, <2>2 DEF AfterContent
  <2>9. Ended => Ended'
    BY <1>2, <1>4, <1>6, <2>1 DEF Ended
  <2> QED BY <1>2, <2>0, <2>4, <2>5, <2>6, <2>7, <2>8, <2>9 DEF OnTrack
<1> QED BY <1>2, <1>4, <1>5, <1>7 DEF MultipartInv

(* The first boundary is found whole, or what came before it is dropped. *)
LEMMA InitialStep ==
    ASSUME MultipartInv, InitialBoundary
    PROVE  MultipartInv'
<1> DEFINE pos == buf_find(buf, dash_boundary_crlf)
<1>0. MultipartTypeOK /\ Window /\ parts = <<>>
  BY DEF MultipartInv, InitialBoundary, Case
<1>1. /\ mpc = "parse" /\ state = 0 /\ UNCHANGED <<sent, rest, file, parts, valid>>
      /\ \/ /\ buf' = <<>> /\ mpc' = "read" /\ state' = state
            /\ lost' = (buf_find(sent.text, dash_boundary_crlf) < Len(sent.text) - Len(rest))
         \/ /\ pos < Len(buf) /\ buf' = Drop(buf, pos + D)
            /\ state' = 1 /\ mpc' = mpc /\ lost' = lost
  BY DEF InitialBoundary, Case, D
<1>2. PICK A : dash_boundary_crlf \in Seq(A) /\ crlf_dash_boundary \in Seq(A)
  BY Delimiters
<1>3. D \in Nat /\ D >= 5 /\ Len(dash_boundary_crlf) = D
  BY Delimiters DEF D
<1>4. buf \in Seq(Symbol) /\ sent \in Bodies /\ Len(buf) \in Nat /\ sent.text \in Seq(Symbol)
  BY <1>0, BodyTypes DEF MultipartTypeOK
<1>5. CASE buf' = <<>> /\ mpc' = "read" /\ state' = state
           /\ lost' = (buf_find(sent.text, dash_boundary_crlf) < Len(sent.text) - Len(rest))
  <2>1. buf' \in Seq(Symbol) /\ Window' /\ Pos' = Came
    BY <1>0, <1>1, <1>5, EmptyWindow
  <2>2. lost' \in BOOLEAN
    BY <1>5
  <2>3. MultipartTypeOK'
    BY <1>0, <1>1, <1>5, <2>1, <2>2 DEF MultipartTypeOK, Running, Stopped
  <2>4. ASSUME sent.plain, ~lost' PROVE OnTrack'
    <3> DEFINE first == HeadOf(1) - D
               f == buf_find(sent.text, dash_boundary_crlf)
    <3>1. /\ first \in Nat /\ Here(dash_boundary_crlf, first) /\ HeadOf(1) \in Nat
      BY <1>4, <2>4, BodyFacts DEF PartAt
    <3>2. ~(f < Came)
      BY <1>5, <2>4 DEF Came, Length
    <3>3. /\ f \in 0 .. Length
          /\ \A i \in 0 .. Length : Occurs(dash_boundary_crlf, sent.text, i) => f <= i
      BY <1>2, <1>3, <1>4, FindFacts DEF Length
    <3>4. first + D = HeadOf(1)
      BY <1>3, <3>1
    <3> HIDE DEF first, f
    <3>5. Length \in Nat /\ Came \in Nat
      BY <1>0, Positions
    <3>6. first \in 0 .. Length /\ Occurs(dash_boundary_crlf, sent.text, first)
      <4>1. first \in 0 .. Len(sent.text)
        BY <1>3, <3>1, <3>5 DEF Here, Length
      <4> QED BY <1>2, <1>4, <3>1, <4>1, OccursMeans DEF Here, Length
    <3>7. Came <= first
      BY <3>2, <3>3, <3>5, <3>6
    <3>8. Pos' + D <= HeadOf(1) /\ HeadOf(1)' = HeadOf(1)
      BY <1>1, <1>3, <2>1, <3>1, <3>4, <3>5, <3>7, SameBody
    <3>9. BeforeParts'
      BY <1>0, <1>1, <1>5, <3>8 DEF BeforeParts
    <3> QED BY <1>5, <3>9 DEF OnTrack
  <2> QED BY <1>0, <1>1, <1>5, <2>1, <2>3, <2>4 DEF MultipartInv
<1>6. CASE pos < Len(buf) /\ buf' = Drop(buf, pos + D) /\ state' = 1 /\ mpc' = mpc /\ lost' = lost
  <2>1. pos \in 0 .. Len(buf) /\ Occurs(dash_boundary_crlf, buf, pos)
    BY <1>2, <1>3, <1>4, <1>6, FindFacts
  <2>2. pos + D <= Len(buf) /\ pos \in Nat
    BY <1>2, <1>3, <1>4, <2>1, OccursMeans
  <2> HIDE DEF pos
  <2>3. pos + D \in 0 .. Len(buf)
    BY <1>3, <1>4, <2>2
  <2>4. buf' \in Seq(Symbol) /\ Window' /\ Pos' = Pos + (pos + D)
    BY <1>0, <1>1, <1>6, <2>3, DropWindow
  <2>5. MultipartTypeOK'
    BY <1>0, <1>1, <1>6, <2>4 DEF MultipartTypeOK, Running, Stopped
  <2>6. ASSUME sent.plain, ~lost PROVE OnTrack'
    <3> DEFINE first == HeadOf(1) - D
    <3>1. /\ first \in Nat /\ Here(dash_boundary_crlf, first) /\ HeadOf(1) \in Nat
          /\ \A j \in 0 .. first - 1 : ~Here(dash_boundary_crlf, j)
          /\ Count \in Nat \ {0}
      BY <1>4, <2>6, BodyFacts DEF PartAt
    <3>2. first + D = HeadOf(1)
      BY <1>3, <3>1
    <3>3. Pos + D <= HeadOf(1)
      BY <1>1, <2>6 DEF MultipartInv, OnTrack, BeforeParts, BeforeHeaders, InHeaders, InContent,
         AfterContent, Ended
    <3> HIDE DEF first
    <3>4. Pos <= first /\ Pos \in Nat
      BY <1>0, <1>3, <3>1, <3>2, <3>3, Positions
    <3>5. \A j \in Pos .. first - 1 : ~Here(dash_boundary_crlf, j)
      BY <3>1, <3>4
    <3>6. Pos + pos = first
      BY <1>0, <1>2, <1>3, <1>6, <3>1, <3>4, <3>5, FindNext DEF pos
    <3>7. Pos' = HeadOf(1)
      BY <1>3, <2>2, <2>4, <3>2, <3>4, <3>6
    <3>8. Count' = Count /\ HeadOf(1)' = HeadOf(1) /\ Len(parts') = 0
      BY <1>0, <1>1, SameBody
    <3>9. Told(0)' /\ 0 + 1 = 1
      BY DEF Told
    <3>10. BeforeHeaders'
      BY <1>1, <1>6, <3>1, <3>7, <3>8, <3>9 DEF BeforeHeaders, Resting
    <3> QED BY <1>1, <1>6, <3>10 DEF OnTrack
  <2> QED BY <1>0, <1>1, <1>6, <2>4, <2>5, <2>6 DEF MultipartInv
<1> QED BY <1>1, <1>5, <1>6

LEMMA NewEntryStep ==
    ASSUME MultipartInv, NewEntry
    PROVE  MultipartInv'
<1>1. /\ mpc = "parse" /\ buf # <<>> /\ state = 1 /\ state' = 2 /\ file' = NoType
      /\ UNCHANGED <<sent, rest, buf, mpc, parts, valid, lost>>
  BY DEF NewEntry, Case
<1>2. MultipartTypeOK /\ Window /\ MultipartTypeOK'
  BY <1>1 DEF MultipartInv, MultipartTypeOK
<1>3. Window'
  BY <1>1, <1>2, SameWindow
<1>4. ASSUME sent.plain, ~lost PROVE OnTrack'
  <2>1. BeforeHeaders
    BY <1>1, <1>4 DEF MultipartInv, OnTrack, BeforeParts, InHeaders, InContent, AfterContent, Ended
  <2> DEFINE m == Len(parts) + 1
  <2>2. m \in 1 .. Count /\ Pos = HeadOf(m) /\ Told(Len(parts)) /\ Len(parts) < Count
    <3>1. Len(parts) \in Nat /\ Count \in Nat
      BY <1>2, BodyTypes DEF MultipartTypeOK
    <3> QED BY <2>1, <3>1 DEF BeforeHeaders
  <2> HIDE DEF m
  <2>3. HeadOf(m) \in Nat /\ LinesOf(m) \in Nat
    BY <1>2, <1>4, <2>2, BodyFacts DEF PartAt, MultipartTypeOK
  <2>4. /\ Count' = Count /\ HeadOf(m)' = HeadOf(m) /\ LinesOf(m)' = LinesOf(m)
        /\ Pos' = Pos /\ Len(parts') = Len(parts) /\ m' = m
    BY <1>1, SameBody DEF Pos, Length, m
  <2>5. Told(Len(parts))'
    BY <1>1, <2>2 DEF Told
  <2>6. TypeSoFar(m, 0)'
    BY <1>1 DEF TypeSoFar
  <2>7. 0 \in 0 .. LinesOf(m) /\ HeadOf(m) + 3 * 0 = HeadOf(m)
    BY <2>3
  <2>8. \E k \in 0 .. LinesOf(m)' : Pos' = HeadOf(m)' + 3 * k /\ TypeSoFar(m, k)'
    BY <2>2, <2>4, <2>6, <2>7
  <2>9. InHeaders'
    BY <1>1, <2>2, <2>4, <2>5, <2>8 DEF InHeaders, Resting, m
  <2> QED BY <1>1, <2>9 DEF OnTrack
<1> QED BY <1>1, <1>2, <1>3, <1>4 DEF MultipartInv

(* A line end in the buffer is the one after the header line, or the empty  *)
(* line after the last of them.                                             *)
LEMMA LineFound ==
    ASSUME MultipartTypeOK, Window, sent.plain, NEW i \in 1 .. Count, NEW k \in 0 .. LinesOf(i),
           Pos = HeadOf(i) + 3 * k
    PROVE  /\ k < LinesOf(i) =>
                \/ buf_find(buf, crlf) = Len(buf) /\ Len(buf) <= 2
                \/ /\ buf_find(buf, crlf) = 1 /\ Len(buf) >= 3
                   /\ buf[1] = sent.text[HeadOf(i) + 3 * k + 1] /\ buf[1] \in Known
                   /\ buf[1] \in Types => buf[1] = sent.parts[i].type
           /\ k = LinesOf(i) =>
                \/ buf_find(buf, crlf) = Len(buf) /\ Len(buf) <= 1
                \/ buf_find(buf, crlf) = 0 /\ Len(buf) >= 2
<1>1. /\ Len(buf) \in Nat /\ Pos \in Nat /\ Came = Pos + Len(buf)
      /\ crlf \in Seq({CR, LF}) /\ Len(crlf) = 2 /\ Len(crlf) >= 1 /\ crlf[1] = CR
  BY Positions, Delimiters
<1>2. PartAt(i) /\ HeadOf(i) \in Nat /\ LinesOf(i) \in Nat
  BY BodyFacts DEF PartAt, MultipartTypeOK
<1> DEFINE f == buf_find(buf, crlf)
<1>3. ASSUME k < LinesOf(i)
      PROVE  \/ f = Len(buf) /\ Len(buf) <= 2
             \/ /\ f = 1 /\ Len(buf) >= 3
                /\ buf[1] = sent.text[HeadOf(i) + 3 * k + 1] /\ buf[1] \in Known
                /\ buf[1] \in Types => buf[1] = sent.parts[i].type
  <2>1. k \in 0 .. LinesOf(i) - 1
    BY <1>2, <1>3
  <2>2. /\ sent.text[Pos + 1] \in Known
        /\ sent.text[Pos + 1] \in Types => sent.text[Pos + 1] = sent.parts[i].type
        /\ Here(crlf, Pos + 1)
    BY <1>2, <2>1 DEF PartAt
  <2>3. ~Here(crlf, Pos)
    <3>1. 1 \in 1 .. Len(crlf) /\ CR # sent.text[Pos + 1]
      BY <1>1, <2>2, MultipartAssumption
    <3> QED BY <1>1, <3>1 DEF Here
  <2> DEFINE e == Pos + 1
  <2>4. e \in Nat /\ Pos <= e /\ Here(crlf, e) /\ \A j \in Pos .. e - 1 : ~Here(crlf, j)
    <3>1. \A j \in Pos .. e - 1 : j = Pos
      BY SMTT(30), <1>1
    <3> QED BY SMTT(30), <1>1, <2>2, <2>3, <3>1
  <2> HIDE DEF e, f
  <2>5. /\ f \in 0 .. Len(buf)
        /\ f < Len(buf) => Pos + f = e /\ e + Len(crlf) <= Came
        /\ f = Len(buf) => Came < e + Len(crlf)
    BY <1>1, <2>4, FindNext DEF f
  <2>6. CASE f = Len(buf)
    BY <1>1, <2>5, <2>6 DEF e
  <2>7. CASE f < Len(buf)
    <3>1. f = 1 /\ Len(buf) >= 3
      BY SMTT(30), <1>1, <2>5, <2>7 DEF e
    <3>2. buf[1] = sent.text[Pos + 1]
      BY <1>1, <3>1 DEF Window
    <3> QED BY <2>2, <3>1, <3>2
  <2> QED BY <1>1, <2>5, <2>6, <2>7
<1>4. ASSUME k = LinesOf(i)
      PROVE  \/ f = Len(buf) /\ Len(buf) <= 1
             \/ f = 0 /\ Len(buf) >= 2
  <2>1. Here(crlf, Pos)
    BY <1>2, <1>4 DEF PartAt
  <2>2. Pos <= Pos /\ \A j \in Pos .. Pos - 1 : ~Here(crlf, j)
    BY <1>1
  <2> HIDE DEF f
  <2>3. /\ f \in 0 .. Len(buf)
        /\ f < Len(buf) => Pos + f = Pos /\ Pos + Len(crlf) <= Came
        /\ f = Len(buf) => Came < Pos + Len(crlf)
    BY <1>1, <2>1, <2>2, FindNext DEF f
  <2> DEFINE b == Len(buf)
             p == Pos
             e == Came
  <2>4. /\ b \in Nat /\ p \in Nat /\ e = p + b /\ f \in 0 .. b
        /\ f < b => p + f = p /\ p + 2 <= e
        /\ f = b => e < p + 2
    BY <1>1, <2>3
  <2> HIDE DEF b, p, e
  <2>5. (f = b /\ b <= 1) \/ (f = 0 /\ b >= 2)
    BY <2>4
  <2> QED BY <2>5 DEF b
<1> QED BY <1>3, <1>4

(* The part whose headers are parsed, and how many of them are. *)
LEMMA HeadersAt ==
    ASSUME MultipartInv, state = 2, sent.plain, ~lost
    PROVE  /\ InHeaders /\ Len(parts) \in Nat /\ Len(parts) + 1 \in 1 .. Count /\ Count \in Nat
           /\ PartAt(Len(parts) + 1)
<1>1. InHeaders
  BY DEF MultipartInv, OnTrack, BeforeParts, BeforeHeaders, InContent, AfterContent, Ended
<1>2. Len(parts) \in Nat /\ Count \in Nat /\ sent \in Bodies
  BY BodyTypes DEF MultipartInv, MultipartTypeOK
<1>3. Len(parts) + 1 \in 1 .. Count
  BY <1>1, <1>2 DEF InHeaders
<1> DEFINE m == Len(parts) + 1
<1>4. m \in 1 .. Count
  BY <1>3
<1> HIDE DEF m
<1>5. PartAt(m)
  BY <1>2, <1>4, BodyFacts
<1> QED BY <1>1, <1>2, <1>3, <1>5 DEF m

LEMMA HeadersStep ==
    ASSUME MultipartInv, Headers
    PROVE  MultipartInv'
<1>1. /\ mpc = "parse" /\ buf # <<>> /\ state = 2
      /\ mpc' = IF buf_find(buf, crlf) > HEADER_MAX_LENGTH THEN "failed" ELSE "headers"
      /\ UNCHANGED <<sent, rest, buf, state, file, parts, valid, lost>>
  BY DEF Headers, Case
<1>2. MultipartTypeOK /\ Window /\ MultipartTypeOK'
  BY <1>1 DEF MultipartInv, MultipartTypeOK, Running, Stopped
<1>3. Window'
  BY <1>1, <1>2, SameWindow
<1>4. ASSUME sent.plain, ~lost PROVE OnTrack'
  <2> DEFINE m == Len(parts) + 1
  <2>1. InHeaders /\ m \in 1 .. Count /\ PartAt(m)
    BY <1>1, <1>4, HeadersAt
  <2>2. PICK k \in 0 .. LinesOf(m) : Pos = HeadOf(m) + 3 * k
    BY <2>1 DEF InHeaders
  <2> HIDE DEF m
  <2>3. LinesOf(m) \in Nat
    BY <2>1 DEF PartAt
  <2>4. buf_find(buf, crlf) <= 2
    <3>1. k < LinesOf(m) \/ k = LinesOf(m)
      BY <2>2, <2>3
    <3>2. Len(buf) \in Nat
      BY <1>2, Positions
    <3> QED BY <1>2, <1>4, <2>1, <2>2, <3>1, <3>2, LineFound
  <2>5. mpc' = "headers"
    <3>1. buf_find(buf, crlf) \in 0 .. Len(buf) /\ Len(buf) \in Nat
      <4>1. crlf \in Seq({CR, LF}) /\ Len(crlf) >= 1 /\ buf \in Seq(Symbol)
        BY <1>2, Delimiters DEF MultipartTypeOK
      <4> QED BY <4>1, FindFacts
    <3>2. ~(buf_find(buf, crlf) > HEADER_MAX_LENGTH)
      BY <2>4, <3>1, MultipartAssumption
    <3> QED BY <1>1, <3>2
  <2>6. OnTrack /\ ~Resting'
    BY <1>4, <2>5 DEF MultipartInv, Resting
  <2> QED BY <1>1, <2>5, <2>6, OnTrackSame
<1> QED BY <1>1, <1>2, <1>3, <1>4 DEF MultipartInv

(* A header line is taken up, or the headers are at their end. *)
LEMMA HeaderLineStep ==
    ASSUME MultipartInv, HeaderLine
    PROVE  MultipartInv'
<1> DEFINE pos == buf_find(buf, crlf)
           line == SubSeq(buf, 1, pos)
           m == Len(parts) + 1
<1>0. MultipartTypeOK /\ Window /\ mpc = "headers" /\ state = 2
  BY DEF MultipartInv, HeaderLine
<1>1. /\ buf \in Seq(Symbol) /\ Len(buf) \in Nat /\ sent \in Bodies /\ Len(parts) \in Nat
      /\ crlf \in Seq({CR, LF}) /\ Len(crlf) = 2 /\ Len(crlf) >= 1
  BY <1>0, Delimiters DEF MultipartTypeOK
<1>2. /\ pos \in 0 .. Len(buf)
      /\ pos < Len(buf) => Occurs(crlf, buf, pos)
  BY <1>1, FindFacts
<1>3. pos \in Nat /\ (pos < Len(buf) => pos + 2 <= Len(buf))
  <2>1. pos < Len(buf) => pos + Len(crlf) <= Len(buf)
    BY <1>1, <1>2, OccursMeans
  <2> QED BY <1>1, <1>2, <2>1
<1>4. UNCHANGED <<sent, rest, lost>>
  BY DEF HeaderLine
<1>5. \/ /\ pos = Len(buf) /\ mpc' = "read"
         /\ UNCHANGED <<buf, state, file, parts, valid>>
      \/ /\ pos < Len(buf) /\ line = <<>>
         /\ parts' = Append(parts, [type |-> file, data |-> <<>>])
         /\ buf' = Drop(buf, 2) /\ state' = 3 /\ mpc' = "parse"
         /\ UNCHANGED <<file, valid>>
      \/ /\ pos < Len(buf) /\ \E l \in Known : line = <<l>>
         /\ file' = IF line[1] \in Types THEN line[1] ELSE file
         /\ buf' = Drop(buf, pos + 2)
         /\ UNCHANGED <<state, mpc, parts, valid>>
      \/ /\ pos < Len(buf) /\ line # <<>> /\ ~\E l \in Known : line = <<l>>
         /\ mpc' = "failed" /\ valid' = FALSE
         /\ UNCHANGED <<buf, state, file, parts>>
  BY <1>1 DEF HeaderLine
<1>6. /\ line \in Seq(Symbol) /\ Len(line) = pos /\ \A k \in 1 .. pos : line[k] = buf[k]
  BY <1>1, <1>2
<1> HIDE DEF pos, line
(* Where a well written body has brought the parser. *)
<1>7. ASSUME sent.plain, ~lost
      PROVE  /\ OnTrack /\ m \in 1 .. Count /\ PartAt(m) /\ Len(parts) < Count /\ Told(Len(parts))
             /\ \E k \in 0 .. LinesOf(m) :
                   /\ Pos = HeadOf(m) + 3 * k /\ TypeSoFar(m, k)
                   /\ \/ pos = Len(buf) /\ Len(buf) <= 2
                      \/ /\ k < LinesOf(m) /\ pos = 1 /\ Len(buf) >= 3
                         /\ buf[1] = sent.text[HeadOf(m) + 3 * k + 1] /\ buf[1] \in Known
                         /\ buf[1] \in Types => buf[1] = sent.parts[m].type
                      \/ k = LinesOf(m) /\ pos = 0 /\ Len(buf) >= 2
  <2>1. InHeaders /\ m \in 1 .. Count /\ PartAt(m)
    BY <1>0, <1>7, HeadersAt
  <2>2. PICK k \in 0 .. LinesOf(m) : Pos = HeadOf(m) + 3 * k /\ TypeSoFar(m, k)
    BY <2>1 DEF InHeaders
  <2>3. Len(parts) < Count /\ Told(Len(parts)) /\ OnTrack
    BY <1>7, <2>1 DEF InHeaders, MultipartInv
  <2> HIDE DEF m
  <2>4. k < LinesOf(m) \/ k = LinesOf(m)
    BY <2>1, <2>2 DEF PartAt
  <2>5. \/ pos = Len(buf) /\ Len(buf) <= 2
        \/ /\ k < LinesOf(m) /\ pos = 1 /\ Len(buf) >= 3
           /\ buf[1] = sent.text[HeadOf(m) + 3 * k + 1] /\ buf[1] \in Known
           /\ buf[1] \in Types => buf[1] = sent.parts[m].type
        \/ k = LinesOf(m) /\ pos = 0 /\ Len(buf) >= 2
    BY <1>0, <1>1, <1>7, <2>1, <2>2, <2>4, LineFound DEF pos
  <2> QED BY <2>1, <2>2, <2>3, <2>5
<1>8. CASE /\ pos = Len(buf) /\ mpc' = "read"
           /\ UNCHANGED <<buf, state, file, parts, valid>>
  <2>1. MultipartTypeOK' /\ Window'
    BY <1>0, <1>4, <1>8, SameWindow DEF MultipartTypeOK, Running, Stopped
  <2>2. ASSUME sent.plain, ~lost PROVE OnTrack'
    <3>1. Len(buf) <= 2
      BY <1>7, <1>8, <2>2
    <3>2. InHeaders
      BY <1>0, <2>2, HeadersAt
    <3>3. Pos' = Pos
      BY <1>4, <1>8 DEF Pos, Length
    <3>4. Told(Len(parts))' <=> Told(Len(parts))
      BY <1>4, <1>8 DEF Told
    <3>5. /\ Count' = Count
          /\ \A i : HeadOf(i)' = HeadOf(i) /\ LinesOf(i)' = LinesOf(i)
      BY <1>4, SameBody
    <3>6. \A i, k : TypeSoFar(i, k)' <=> TypeSoFar(i, k)
      BY <1>4, <1>8, <3>5 DEF TypeSoFar
    <3>7. InHeaders'
      BY <1>8, <3>1, <3>2, <3>3, <3>4, <3>5, <3>6 DEF InHeaders
    <3> QED BY <1>8, <3>7 DEF OnTrack
  <2> QED BY <1>0, <1>4, <1>8, <2>1, <2>2 DEF MultipartInv
<1>9. CASE /\ pos < Len(buf) /\ line = <<>>
           /\ parts' = Append(parts, [type |-> file, data |-> <<>>])
           /\ buf' = Drop(buf, 2) /\ state' = 3 /\ mpc' = "parse"
           /\ UNCHANGED <<file, valid>>
  <2>1. pos = 0 /\ 2 \in 0 .. Len(buf)
    BY <1>1, <1>3, <1>6, <1>9
  <2>2. buf' \in Seq(Symbol) /\ Window' /\ Pos' = Pos + 2
    BY <1>0, <1>4, <1>9, <2>1, DropWindow
  <2> DEFINE p == [type |-> file, data |-> <<>>]
  <2>3. p \in Part /\ p.type = file /\ p.data = <<>>
    BY <1>0 DEF Part, MultipartTypeOK
  <2>4. parts \in Seq(Part) /\ parts' = Append(parts, p)
    BY <1>0, <1>9 DEF MultipartTypeOK
  <2> HIDE DEF p
  <2>5. /\ parts' \in Seq(Part) /\ Len(parts') = Len(parts) + 1 /\ parts' # <<>>
        /\ parts'[Len(parts) + 1] = p
        /\ \A i \in 1 .. Len(parts) : parts'[i] = parts[i]
    BY SMTT(30), <1>1, <2>3, <2>4
  <2>6. MultipartTypeOK'
    BY <1>0, <1>4, <1>9, <2>2, <2>5 DEF MultipartTypeOK, Running, Stopped
  <2>7. ASSUME sent.plain, ~lost PROVE OnTrack'
    <3>1. /\ m \in 1 .. Count /\ PartAt(m) /\ Told(Len(parts))
          /\ Pos = HeadOf(m) + 3 * LinesOf(m) /\ TypeSoFar(m, LinesOf(m))
      BY <1>1, <1>7, <1>9, <2>1, <2>7
    <3>2. /\ Len(parts') = m /\ parts'[m] = p /\ m - 1 = Len(parts) /\ m \in Nat
      BY <1>1, <2>5
    <3> HIDE DEF m
    <3>3. file = sent.parts[m].type
      <4>1. CASE sent.parts[m].type = NoType
        BY <3>1, <4>1 DEF TypeSoFar
      <4>2. CASE sent.parts[m].type # NoType
        <5>1. PICK k \in 0 .. LinesOf(m) - 1 : sent.text[HeadOf(m) + 3 * k + 1] = sent.parts[m].type
          BY <3>1, <4>2 DEF PartAt
        <5>2. sent.parts[m] \in Part
          BY <1>1, <3>1, BodyTypes
        <5>3. sent.parts[m].type \in Types
          BY <4>2, <5>2 DEF Part
        <5> QED BY <3>1, <5>1, <5>3 DEF TypeSoFar
      <4> QED BY <4>1, <4>2
    <3>4. /\ BodyOf(m) \in Nat /\ TailOf(m) \in Nat /\ BodyOf(m) <= TailOf(m)
          /\ Pos' = BodyOf(m)
      BY <2>2, <3>1 DEF PartAt
    <3>5. /\ Count' = Count
          /\ \A i : BodyOf(i)' = BodyOf(i) /\ TailOf(i)' = TailOf(i)
      BY <1>4, SameBody
    <3>6. \A i \in 1 .. m - 1 : parts'[i] = sent'.parts[i]
      BY <1>4, <2>5, <3>1, <3>2 DEF Told
    <3>7. SubSeq(sent.text, BodyOf(m) + 1, BodyOf(m)) = <<>>
      BY <3>4
    <3>8. Told(Len(parts) - 1)'
      BY <3>2, <3>6 DEF Told
    <3>9. Pos' \in BodyOf(Len(parts))' .. TailOf(Len(parts))'
      BY <3>2, <3>4, <3>5
    <3>91. parts'[Len(parts')].data = SubSeq(sent'.text, BodyOf(Len(parts))' + 1, Pos')
      BY <1>4, <2>3, <3>2, <3>4, <3>5, <3>7
    <3>92. InContent'
      BY <1>4, <1>9, <2>3, <3>1, <3>2, <3>3, <3>5, <3>8, <3>9, <3>91 DEF InContent, Resting
    <3> QED BY <1>9, <3>92 DEF OnTrack
  <2> QED BY <1>4, <1>9, <2>2, <2>5, <2>6, <2>7 DEF MultipartInv
<1>10. CASE /\ pos < Len(buf) /\ \E l \in Known : line = <<l>>
            /\ file' = IF line[1] \in Types THEN line[1] ELSE file
            /\ buf' = Drop(buf, pos + 2)
            /\ UNCHANGED <<state, mpc, parts, valid>>
  <2>1. Len(line) = 1
    BY <1>10
  <2>2. pos = 1 /\ 3 \in 0 .. Len(buf) /\ buf' = Drop(buf, 3) /\ line[1] = buf[1]
    BY <1>1, <1>3, <1>6, <1>10, <2>1
  <2>3. buf' \in Seq(Symbol) /\ Window' /\ Pos' = Pos + 3
    BY <1>0, <1>4, <2>2, DropWindow
  <2>4. file' \in Types \cup {NoType}
    BY <1>0, <1>10 DEF MultipartTypeOK
  <2>5. MultipartTypeOK'
    BY <1>0, <1>4, <1>10, <2>3, <2>4 DEF MultipartTypeOK
  <2>6. ASSUME sent.plain, ~lost PROVE OnTrack'
    <3>0. /\ m \in 1 .. Count /\ PartAt(m) /\ Len(parts) < Count /\ Told(Len(parts))
          /\ LinesOf(m) \in Nat /\ HeadOf(m) \in Nat
      BY <1>7, <2>6 DEF PartAt
    <3>1. PICK k \in 0 .. LinesOf(m) :
             /\ Pos = HeadOf(m) + 3 * k /\ TypeSoFar(m, k) /\ k < LinesOf(m)
             /\ buf[1] = sent.text[HeadOf(m) + 3 * k + 1]
             /\ buf[1] \in Types => buf[1] = sent.parts[m].type
      BY <1>7, <1>10, <2>2, <2>6
    <3> HIDE DEF m
    <3>2. k + 1 \in 0 .. LinesOf(m) /\ Pos' = HeadOf(m) + 3 * (k + 1)
      <4>1. k \in Nat /\ k < LinesOf(m) /\ Pos' = (HeadOf(m) + 3 * k) + 3
        BY <2>3, <3>0, <3>1
      <4> QED BY <3>0, <4>1
    <3>3. file' \in {NoType, sent.parts[m].type}
      BY <1>10, <2>2, <3>1 DEF TypeSoFar
    <3>4. ASSUME NEW j \in 0 .. (k + 1) - 1, sent.text[HeadOf(m) + 3 * j + 1] \in Types
          PROVE  file' # NoType
      <4>1. CASE j = k
        BY <1>10, <2>2, <3>1, <3>4, <4>1, MultipartAssumption
      <4>2. CASE j # k
        <5>1. j \in 0 .. k - 1
          BY <3>1, <4>2
        <5>2. file # NoType
          BY <3>1, <3>4, <5>1 DEF TypeSoFar
        <5> QED BY <1>10, <5>2, MultipartAssumption
      <4> QED BY <4>1, <4>2
    <3>5. /\ Count' = Count
          /\ \A i : HeadOf(i)' = HeadOf(i) /\ LinesOf(i)' = LinesOf(i)
      BY <1>4, SameBody
    <3>6. Told(Len(parts))'
      BY <1>4, <1>10, <3>0 DEF Told
    <3>7. m' = m /\ Len(parts') = Len(parts)
      BY <1>10 DEF m
    <3> DEFINE n == k + 1
    <3>8. n \in 0 .. LinesOf(m)' /\ Pos' = HeadOf(m)' + 3 * n
      BY <3>2, <3>5, <3>7
    <3>9. TypeSoFar(m, n)'
      BY <1>4, <3>3, <3>4, <3>5, <3>7 DEF TypeSoFar
    <3> HIDE DEF n
    <3>91. \E j \in 0 .. LinesOf(m)' : Pos' = HeadOf(m)' + 3 * j /\ TypeSoFar(m, j)'
      BY <3>8, <3>9
    <3>92. InHeaders'
      BY <1>0, <1>10, <3>0, <3>5, <3>6, <3>7, <3>91 DEF InHeaders, Resting, m
    <3> QED BY <1>0, <1>10, <3>92 DEF OnTrack
  <2> QED BY <1>0, <1>4, <1>10, <2>3, <2>5, <2>6 DEF MultipartInv
<1>11. CASE /\ pos < Len(buf) /\ line # <<>> /\ ~\E l \in Known : line = <<l>>
            /\ mpc' = "failed" /\ valid' = FALSE
            /\ UNCHANGED <<buf, state, file, parts>>
  <2>1. MultipartTypeOK' /\ Window'
    BY <1>0, <1>4, <1>11, SameWindow DEF MultipartTypeOK, Running, Stopped
  <2>2. ~(sent.plain /\ ~lost)
    <3> SUFFICES ASSUME sent.plain, ~lost PROVE FALSE
      OBVIOUS
    <3>1. pos = 0 \/ (pos = 1 /\ buf[1] \in Known)
      BY <1>1, <1>7, <1>11
    <3>2. pos # 0
      BY <1>6, <1>11
    <3>3. line = <<buf[1]>>
      BY <1>6, <3>1, <3>2
    <3> QED BY <1>11, <3>1, <3>2, <3>3
  <2> QED BY <1>0, <1>4, <1>11, <2>1, <2>2 DEF MultipartInv
<1> QED BY <1>5, <1>8, <1>9, <1>10, <1>11

(* The receiver of contents adds to the last part. *)
LEMMA ReceiveFacts ==
    ASSUME MultipartTypeOK, parts # <<>>, NEW n \in 0 .. Len(buf), Receive(n)
    PROVE  /\ parts' \in Seq(Part) /\ Len(parts') = Len(parts) /\ Len(parts) \in Nat \ {0}
           /\ \A i \in 1 .. Len(parts) - 1 : parts'[i] = parts[i]
           /\ parts'[Len(parts)].type = parts[Len(parts)].type
           /\ parts'[Len(parts)].data = parts[Len(parts)].data \o SubSeq(buf, 1, n)
           /\ parts[Len(parts)].data \in Seq(Symbol)
           /\ parts'[Len(parts)] \in Part
<1> DEFINE m == Len(parts)
           p == parts[m]
           q == [p EXCEPT !.data = @ \o SubSeq(buf, 1, n)]
<1>1. parts \in Seq(Part) /\ buf \in Seq(Symbol)
  BY DEF MultipartTypeOK
<1>2. m \in Nat \ {0} /\ m \in 1 .. Len(parts) /\ p \in Part
  BY <1>1
<1>3. SubSeq(buf, 1, n) \in Seq(Symbol)
  BY <1>1
<1>4. p.data \in Seq(Symbol) /\ p.type \in Types \cup {NoType} /\ p = [type |-> p.type, data |-> p.data]
  <2> HIDE DEF p
  <2> QED BY <1>2 DEF Part
<1>5. p.data \o SubSeq(buf, 1, n) \in Seq(Symbol)
  BY <1>3, <1>4, ConcatFacts
<1>6. q \in Part /\ q.type = p.type /\ q.data = p.data \o SubSeq(buf, 1, n)
  <2> HIDE DEF p
  <2> QED BY <1>4, <1>5 DEF Part
<1>7. parts' = [parts EXCEPT ![m] = q]
  BY DEF Receive
<1> HIDE DEF q
<1>8. /\ parts' \in Seq(Part) /\ Len(parts') = Len(parts) /\ parts'[m] = q
      /\ \A i \in 1 .. Len(parts) - 1 : parts'[i] = parts[i]
  BY <1>1, <1>2, <1>6, <1>7
<1> QED BY <1>2, <1>4, <1>6, <1>8

(* A stretch of the text and what follows it in the buffer. *)
LEMMA StretchGrows ==
    ASSUME MultipartTypeOK, Window, NEW b \in Nat, b <= Pos, NEW n \in 0 .. Len(buf)
    PROVE  SubSeq(sent.text, b + 1, Pos) \o SubSeq(buf, 1, n) = SubSeq(sent.text, b + 1, Pos + n)
<1>1. /\ Len(buf) \in Nat /\ Pos \in Nat /\ Length \in Nat /\ Pos + Len(buf) <= Length
      /\ buf \in Seq(Symbol) /\ sent.text \in Seq(Symbol) /\ n \in Nat /\ n <= Len(buf)
      /\ Length = Len(sent.text)
  BY Positions, BodyTypes DEF MultipartTypeOK, Length
<1> DEFINE u == SubSeq(sent.text, b + 1, Pos)
           v == SubSeq(buf, 1, n)
           w == SubSeq(sent.text, b + 1, Pos + n)
<1> HIDE DEF Pos
<1>2. /\ u \in Seq(Symbol) /\ Len(u) = Pos - b
      /\ \A k \in 1 .. Pos - b : u[k] = sent.text[b + k]
  BY <1>1
<1>3. v \in Seq(Symbol) /\ Len(v) = n /\ \A k \in 1 .. n : v[k] = buf[k]
  BY <1>1
<1>4. /\ w \in Seq(Symbol) /\ Len(w) = (Pos + n) - b
      /\ \A k \in 1 .. (Pos + n) - b : w[k] = sent.text[b + k]
  BY <1>1
<1>5. \A k \in 1 .. n : buf[k] = sent.text[Pos + k]
  BY <1>1 DEF Window
<1> HIDE DEF u, v, w
<1> DEFINE x == u \o v
<1>6. /\ x \in Seq(Symbol) /\ Len(x) = Len(u) + Len(v)
      /\ \A k \in 1 .. Len(u) + Len(v) : x[k] = IF k <= Len(u) THEN u[k] ELSE v[k - Len(u)]
  BY <1>2, <1>3, ConcatFacts, ConcatAt
<1> HIDE DEF x
<1>7. Len(x) = Len(w)
  BY <1>1, <1>2, <1>3, <1>4, <1>6
<1>8. ASSUME NEW k \in 1 .. Len(x) PROVE x[k] = w[k]
  <2>1. k \in 1 .. (Pos + n) - b /\ w[k] = sent.text[b + k]
    BY <1>4, <1>7
  <2>2. CASE k <= Len(u)
    <3>1. k \in 1 .. Len(u) + Len(v) /\ k \in 1 .. Pos - b
      BY <1>1, <1>2, <1>3, <1>6, <2>2
    <3> QED BY <1>2, <1>6, <2>1, <2>2, <3>1
  <2>3. CASE ~(k <= Len(u))
    <3> DEFINE j == k - Len(u)
    <3>1. j \in 1 .. n /\ Pos + j = b + k /\ x[k] = v[j]
      BY <1>1, <1>2, <1>3, <1>6, <2>1, <2>3
    <3> HIDE DEF j
    <3> QED BY <1>3, <1>5, <2>1, <3>1
  <2> QED BY <2>2, <2>3
<1>9. x = w
  BY <1>4, <1>6, <1>7, <1>8
<1> QED BY <1>9 DEF u, v, w, x

(* The content is passed on up to the next boundary, or up to where one may *)
(* have begun.                                                              *)
LEMMA ContentStep ==
    ASSUME MultipartInv, PartBody
    PROVE  MultipartInv'
<1> DEFINE pos == buf_find(buf, crlf_dash_boundary)
           m == Len(parts)
<1>0. MultipartTypeOK /\ Window /\ parts # <<>> /\ mpc = "parse" /\ state = 3
  BY DEF MultipartInv, PartBody, Case
<1>1. PICK A : dash_boundary_crlf \in Seq(A) /\ crlf_dash_boundary \in Seq(A)
  BY Delimiters
<1>2. /\ L \in Nat /\ L >= 5 /\ Len(crlf_dash_boundary) = L /\ Len(crlf_dash_boundary) >= 1
      /\ buf \in Seq(Symbol) /\ Len(buf) \in Nat /\ sent \in Bodies
  BY <1>0, Delimiters DEF L, MultipartTypeOK
<1>3. /\ pos \in 0 .. Len(buf)
      /\ pos < Len(buf) => Occurs(crlf_dash_boundary, buf, pos)
  BY <1>1, <1>2, FindFacts
<1>4. pos \in Nat /\ (pos < Len(buf) => pos + L <= Len(buf))
  <2>1. pos < Len(buf) => pos + Len(crlf_dash_boundary) <= Len(buf)
    BY <1>1, <1>2, <1>3, OccursMeans
  <2> QED BY <1>2, <1>3, <2>1
<1>5. UNCHANGED <<sent, rest, file, valid, lost>>
  BY DEF PartBody
<1>6. \/ /\ Len(buf) < L /\ mpc' = "read" /\ UNCHANGED <<buf, state, parts>>
      \/ /\ Len(buf) >= L /\ pos < Len(buf) /\ Receive(pos)
         /\ buf' = Drop(buf, pos + L) /\ state' = 4 /\ mpc' = mpc
      \/ /\ Len(buf) >= L /\ pos = Len(buf) /\ Receive(Len(buf) - L)
         /\ buf' = Drop(buf, Len(buf) - L) /\ mpc' = "read" /\ state' = state
  BY DEF PartBody, L
<1> HIDE DEF pos
(* Where a well written body has brought the parser. *)
<1>7. ASSUME sent.plain, ~lost
      PROVE  /\ OnTrack /\ InContent /\ m \in 1 .. Count /\ PartAt(m) /\ Told(m - 1)
             /\ BodyOf(m) \in Nat /\ TailOf(m) \in Nat /\ Pos \in Nat
             /\ BodyOf(m) <= Pos /\ Pos <= TailOf(m)
             /\ pos < Len(buf) => Pos + pos = TailOf(m)
             /\ pos = Len(buf) => Pos + Len(buf) < TailOf(m) + L
  <2>1. OnTrack /\ InContent
    BY <1>0, <1>7 DEF MultipartInv, OnTrack, BeforeParts, BeforeHeaders, InHeaders, AfterContent, Ended
  <2>2. m \in 1 .. Count /\ Told(m - 1) /\ Pos \in BodyOf(m) .. TailOf(m)
    BY <2>1 DEF InContent
  <2> HIDE DEF m
  <2>3. PartAt(m)
    BY <1>2, <1>7, <2>2, BodyFacts
  <2>4. /\ BodyOf(m) \in Nat /\ TailOf(m) \in Nat /\ Here(crlf_dash_boundary, TailOf(m))
        /\ \A j \in BodyOf(m) .. TailOf(m) - 1 : ~Here(crlf_dash_boundary, j)
    BY <2>3 DEF PartAt
  <2>5. Pos \in Nat /\ BodyOf(m) <= Pos /\ Pos <= TailOf(m) /\ Came = Pos + Len(buf)
    BY <1>0, <2>2, <2>4, Positions
  <2>6. \A j \in Pos .. TailOf(m) - 1 : ~Here(crlf_dash_boundary, j)
    BY <2>4, <2>5
  <2>7. /\ pos < Len(buf) => Pos + pos = TailOf(m)
        /\ pos = Len(buf) => Came < TailOf(m) + Len(crlf_dash_boundary)
    BY <1>0, <1>1, <1>2, <2>4, <2>5, <2>6, FindNext DEF pos
  <2> QED BY <1>2, <2>1, <2>2, <2>3, <2>4, <2>5, <2>7
<1>8. CASE Len(buf) < L /\ mpc' = "read" /\ UNCHANGED <<buf, state, parts>>
  <2>1. MultipartTypeOK' /\ Window'
    BY <1>0, <1>5, <1>8, SameWindow DEF MultipartTypeOK, Running, Stopped
  <2>2. ASSUME sent.plain, ~lost PROVE OnTrack'
    <3>1. InContent
      BY <1>7, <2>2
    <3>2. Pos' = Pos
      BY <1>5, <1>8 DEF Pos, Length
    <3>3. Told(Len(parts) - 1)' <=> Told(Len(parts) - 1)
      BY <1>5, <1>8 DEF Told
    <3>4. /\ Count' = Count
          /\ \A i : BodyOf(i)' = BodyOf(i) /\ TailOf(i)' = TailOf(i)
      BY <1>5, SameBody
    <3>5. Len(buf') <= L
      BY <1>2, <1>8
    <3>6. InContent'
      BY <1>5, <1>8, <3>1, <3>2, <3>3, <3>4, <3>5 DEF InContent
    <3> QED BY <1>8, <3>6 DEF OnTrack
  <2> QED BY <1>0, <1>5, <1>8, <2>1, <2>2 DEF MultipartInv
<1>9. CASE /\ Len(buf) >= L /\ pos < Len(buf) /\ Receive(pos)
           /\ buf' = Drop(buf, pos + L) /\ state' = 4 /\ mpc' = mpc
  <2>1. pos + L \in 0 .. Len(buf)
    BY <1>2, <1>4, <1>9
  <2>2. buf' \in Seq(Symbol) /\ Window' /\ Pos' = Pos + (pos + L)
    BY <1>0, <1>5, <1>9, <2>1, DropWindow
  <2>3. /\ parts' \in Seq(Part) /\ Len(parts') = m /\ m \in Nat \ {0}
        /\ \A i \in 1 .. m - 1 : parts'[i] = parts[i]
        /\ parts'[m].type = parts[m].type
        /\ parts'[m].data = parts[m].data \o SubSeq(buf, 1, pos)
        /\ parts'[m] \in Part
    BY <1>0, <1>3, <1>9, ReceiveFacts
  <2>4. MultipartTypeOK'
    BY <1>0, <1>5, <1>9, <2>2, <2>3 DEF MultipartTypeOK
  <2>5. ASSUME sent.plain, ~lost PROVE OnTrack'
    <3>1. /\ m \in 1 .. Count /\ PartAt(m) /\ Told(m - 1)
          /\ BodyOf(m) \in Nat /\ TailOf(m) \in Nat /\ Pos \in Nat
          /\ BodyOf(m) <= Pos /\ Pos + pos = TailOf(m)
          /\ parts[m].type = sent.parts[m].type
          /\ parts[m].data = SubSeq(sent.text, BodyOf(m) + 1, Pos)
      BY <1>7, <1>9, <2>5 DEF InContent
    <3> HIDE DEF m
    <3>2. parts'[m].data = SubSeq(sent.text, BodyOf(m) + 1, TailOf(m))
      BY <1>0, <1>3, <2>3, <3>1, StretchGrows
    <3>3. parts'[m].data = sent.parts[m].data
      BY <3>1, <3>2 DEF PartAt
    <3>4. parts'[m] = sent.parts[m]
      <4>1. sent.parts[m] \in Part
        BY <1>2, <3>1, BodyTypes
      <4> QED BY <2>3, <3>1, <3>3, <4>1, PartEqual
    <3>5. \A i \in 1 .. m : parts'[i] = sent'.parts[i]
      <4>1. \A i \in 1 .. m - 1 : parts'[i] = sent.parts[i]
        BY <2>3, <3>1 DEF Told
      <4>2. \A i \in 1 .. m : i = m \/ i \in 1 .. m - 1
        BY <2>3
      <4> QED BY <1>5, <3>4, <4>1, <4>2
    <3>6. Told(Len(parts))'
      BY <2>3, <3>5 DEF Told
    <3>7. Pos' = TailOf(m) + L
      BY <1>2, <1>4, <2>2, <3>1
    <3>8. /\ Count' = Count
          /\ \A i : TailOf(i)' = TailOf(i)
      BY <1>5, SameBody
    <3>9. AfterContent'
      BY <1>0, <1>9, <2>3, <3>1, <3>6, <3>7, <3>8 DEF AfterContent, Resting
    <3> QED BY <1>0, <1>9, <3>9 DEF OnTrack
  <2> QED BY <1>0, <1>5, <1>9, <2>2, <2>4, <2>5 DEF MultipartInv
<1>10. CASE /\ Len(buf) >= L /\ pos = Len(buf) /\ Receive(Len(buf) - L)
            /\ buf' = Drop(buf, Len(buf) - L) /\ mpc' = "read" /\ state' = state
  <2> DEFINE n == Len(buf) - L
  <2>1. n \in 0 .. Len(buf) /\ n + L = Len(buf) /\ Len(buf) - n = L /\ n \in Nat
    BY <1>2, <1>10
  <2>2. Receive(n) /\ buf' = Drop(buf, n)
    BY <1>10
  <2> HIDE DEF n
  <2>3. buf' \in Seq(Symbol) /\ Window' /\ Pos' = Pos + n /\ Len(buf') = L
    BY <1>0, <1>5, <2>1, <2>2, DropWindow
  <2>4. /\ parts' \in Seq(Part) /\ Len(parts') = m /\ m \in Nat \ {0} /\ parts' # <<>>
        /\ \A i \in 1 .. m - 1 : parts'[i] = parts[i]
        /\ parts'[m].type = parts[m].type
        /\ parts'[m].data = parts[m].data \o SubSeq(buf, 1, n)
    BY <1>0, <2>1, <2>2, ReceiveFacts
  <2>5. MultipartTypeOK'
    BY <1>0, <1>5, <1>10, <2>3, <2>4 DEF MultipartTypeOK, Running, Stopped
  <2>6. ASSUME sent.plain, ~lost PROVE OnTrack'
    <3>1. /\ m \in 1 .. Count /\ Told(m - 1)
          /\ BodyOf(m) \in Nat /\ TailOf(m) \in Nat /\ Pos \in Nat
          /\ BodyOf(m) <= Pos /\ Pos + Len(buf) < TailOf(m) + L
          /\ parts[m].type = sent.parts[m].type
          /\ parts[m].data = SubSeq(sent.text, BodyOf(m) + 1, Pos)
      BY <1>7, <1>10, <2>6 DEF InContent
    <3> HIDE DEF m
    <3>2. parts'[m].data = SubSeq(sent.text, BodyOf(m) + 1, Pos')
      BY <1>0, <2>1, <2>3, <2>4, <3>1, StretchGrows
    <3>3. Pos' \in BodyOf(m) .. TailOf(m)
      <4>1. Pos + (n + L) < TailOf(m) + L
        BY <2>1, <3>1
      <4>2. Pos + n <= TailOf(m) /\ BodyOf(m) <= Pos + n /\ Pos + n \in Int
        BY SMTT(30), <1>2, <2>1, <3>1, <4>1
      <4> QED BY <2>3, <3>1, <4>2
    <3>4. \A i \in 1 .. m - 1 : parts'[i] = sent'.parts[i]
      BY <1>5, <2>4, <3>1 DEF Told
    <3>5. Told(Len(parts) - 1)'
      BY <2>4, <3>4 DEF Told
    <3>6. /\ Count' = Count
          /\ \A i : BodyOf(i)' = BodyOf(i) /\ TailOf(i)' = TailOf(i)
      BY <1>5, SameBody
    <3>7. Len(buf') <= L
      BY <1>2, <2>3
    <3>8. InContent'
      BY <1>0, <1>5, <1>10, <2>4, <3>1, <3>2, <3>3, <3>5, <3>6, <3>7 DEF InContent
    <3> QED BY <1>10, <3>8 DEF OnTrack
  <2> QED BY <1>0, <1>5, <1>10, <2>3, <2>4, <2>5, <2>6 DEF MultipartInv
<1> QED BY <1>6, <1>8, <1>9, <1>10

(* What the buffer begins with. *)
LEMMA PrefixHere ==
    ASSUME MultipartTypeOK, Window, NEW B, NEW t \in Seq(B)
    PROVE  IsPrefix(t, buf) <=> Len(t) <= Len(buf) /\ Here(t, Pos)
<1>1. buf \in Seq(Symbol) /\ Len(buf) \in Nat /\ Pos \in Nat /\ Len(t) \in Nat
  BY Positions DEF MultipartTypeOK
<1>2. Drop(buf, 0) = buf
  BY <1>1 DEF Drop
<1>3. Occurs(t, buf, 0) <=> 0 + Len(t) <= Len(buf) /\ Here(t, Pos + 0)
  BY <1>1, OccursInBuf
<1>4. 0 + Len(t) = Len(t) /\ Pos + 0 = Pos
  BY <1>1
<1> QED BY <1>2, <1>3, <1>4 DEF Occurs

(* No place has both a line end and two dashes. *)
LEMMA OneOrOther ==
    ASSUME NEW i \in Nat
    PROVE  ~(Here(crlf, i) /\ Here(dash, i))
<1>1. 1 \in 1 .. Len(crlf) /\ 1 \in 1 .. Len(dash) /\ crlf[1] # dash[1]
  BY Delimiters, MultipartAssumption
<1> QED BY <1>1 DEF Here

LEMMA BoundaryStep ==
    ASSUME MultipartInv, BoundaryEnd
    PROVE  MultipartInv'
<1> DEFINE m == Len(parts)
<1>0. MultipartTypeOK /\ Window /\ mpc = "parse" /\ state = 4 /\ buf # <<>>
  BY DEF MultipartInv, BoundaryEnd, Case
<1>1. /\ buf \in Seq(Symbol) /\ sent \in Bodies /\ parts \in Seq(Part)
      /\ L \in Nat /\ L >= 5
      /\ Len(crlf) = 2 /\ Len(dash) = 2 /\ crlf \in Seq({CR, LF}) /\ dash \in Seq({Dash})
  BY <1>0, Delimiters DEF MultipartTypeOK
<1>2. /\ Length \in Nat /\ Len(rest) \in Nat /\ Len(buf) \in Nat /\ Pos \in Nat /\ Came \in Nat
      /\ Came = Pos + Len(buf) /\ Length = Came + Len(rest)
  BY <1>0, Positions
<1>3. /\ IsPrefix(crlf, buf) <=> 2 <= Len(buf) /\ Here(crlf, Pos)
      /\ IsPrefix(dash, buf) <=> 2 <= Len(buf) /\ Here(dash, Pos)
  <2>1. IsPrefix(crlf, buf) <=> Len(crlf) <= Len(buf) /\ Here(crlf, Pos)
    BY <1>0, <1>1, PrefixHere
  <2>2. IsPrefix(dash, buf) <=> Len(dash) <= Len(buf) /\ Here(dash, Pos)
    BY <1>0, <1>1, PrefixHere
  <2> QED BY <1>1, <2>1, <2>2
<1>4. UNCHANGED <<sent, rest, file, parts, lost>>
  BY DEF BoundaryEnd
<1>5. \/ /\ IsPrefix(crlf, buf) /\ buf' = Drop(buf, 2) /\ state' = 1
         /\ UNCHANGED <<mpc, valid>>
      \/ /\ IsPrefix(dash, buf) /\ buf' = <<>> /\ valid' = TRUE
         /\ UNCHANGED <<state, mpc>>
      \/ /\ ~IsPrefix(crlf, buf) /\ ~IsPrefix(dash, buf) /\ mpc' = "read"
         /\ UNCHANGED <<buf, state, valid>>
  BY <1>1 DEF BoundaryEnd
(* Where a well written body has brought the parser. *)
<1>6. ASSUME sent.plain, ~lost
      PROVE  /\ OnTrack /\ Count \in Nat \ {0} /\ TailOf(Count) \in Nat
             /\ Length <= TailOf(Count) + L + 4
             /\ \/ /\ AfterContent /\ m \in 1 .. Count /\ Told(m) /\ Pos = TailOf(m) + L
                   /\ \/ m < Count /\ Here(crlf, Pos) /\ HeadOf(m + 1) = Pos + 2
                      \/ m = Count /\ Here(dash, Pos)
                \/ Ended /\ parts = sent.parts /\ valid /\ Pos >= TailOf(Count) + L + 2
  <2>1. OnTrack /\ (AfterContent \/ Ended)
    BY <1>0, <1>6 DEF MultipartInv, OnTrack, BeforeParts, BeforeHeaders, InHeaders, InContent
  <2>2. Count \in Nat \ {0} /\ \A i \in 1 .. Count : PartAt(i)
    BY <1>1, <1>6, BodyFacts
  <2>3. Count \in 1 .. Count
    BY <2>2
  <2>4. TailOf(Count) \in Nat /\ Length <= TailOf(Count) + L + 4
    BY <2>2, <2>3 DEF PartAt
  <2>5. CASE AfterContent
    <3>1. m \in 1 .. Count /\ Told(m) /\ Pos = TailOf(m) + L
      BY <2>5 DEF AfterContent
    <3> HIDE DEF m
    <3>2. m < Count \/ m = Count
      BY <2>2, <3>1
    <3>3. PartAt(m)
      BY <2>2, <3>1
    <3>4. \/ m < Count /\ Here(crlf, Pos) /\ HeadOf(m + 1) = Pos + 2
          \/ m = Count /\ Here(dash, Pos)
      BY <3>1, <3>2, <3>3 DEF PartAt
    <3> QED BY <2>1, <2>2, <2>4, <2>5, <3>1, <3>4
  <2>6. CASE Ended
    <3>1. parts = sent.parts /\ valid /\ Pos >= TailOf(Count) + L + 2
      BY <1>0, <2>6 DEF Ended
    <3> QED BY <2>1, <2>2, <2>4, <2>6, <3>1
  <2> QED BY <2>1, <2>5, <2>6
<1>7. Count' = Count /\ (\A i : HeadOf(i)' = HeadOf(i) /\ TailOf(i)' = TailOf(i))
      /\ \A i : Told(i)' <=> Told(i)
  BY <1>4, SameBody DEF Told
<1>8. CASE /\ IsPrefix(crlf, buf) /\ buf' = Drop(buf, 2) /\ state' = 1
           /\ UNCHANGED <<mpc, valid>>
  <2>1. 2 \in 0 .. Len(buf) /\ Here(crlf, Pos)
    BY <1>2, <1>3, <1>8
  <2>2. buf' \in Seq(Symbol) /\ Window' /\ Pos' = Pos + 2 /\ Len(buf') = Len(buf) - 2
    BY <1>0, <1>4, <1>8, <2>1, DropWindow
  <2>3. MultipartTypeOK'
    BY <1>0, <1>4, <1>8, <2>2 DEF MultipartTypeOK
  <2>4. ASSUME sent.plain, ~lost PROVE OnTrack'
    <3>0. ~Here(dash, Pos)
      BY <1>2, <2>1, OneOrOther
    <3>1. CASE AfterContent /\ Told(m) /\ m < Count /\ HeadOf(m + 1) = Pos + 2
      <4>1. Told(Len(parts))' /\ Len(parts') = Len(parts)
        BY <1>4, <1>7, <3>1
      <4>2. Pos' = HeadOf(Len(parts) + 1)'
        BY <1>4, <1>7, <2>2, <3>1
      <4>3. BeforeHeaders'
        BY <1>0, <1>7, <1>8, <3>1, <4>1, <4>2 DEF BeforeHeaders, Resting
      <4> QED BY <1>0, <1>8, <4>3 DEF OnTrack
    <3>2. CASE /\ parts = sent.parts /\ valid /\ Pos >= TailOf(Count) + L + 2
               /\ TailOf(Count) \in Nat /\ Length <= TailOf(Count) + L + 4
      <4>1. Len(rest) = 0 /\ Len(buf') = 0
        <5> DEFINE e == TailOf(Count) + L
                   p == Pos
                   n == Length
                   b == Len(buf)
                   r == Len(rest)
        <5>1. /\ e \in Int /\ p \in Int /\ n \in Int /\ p >= e + 2 /\ n <= e + 4
              /\ b \in Nat /\ r \in Nat /\ 2 <= b /\ n = p + b + r
          <6>1. Len(buf) \in Nat /\ Len(rest) \in Nat /\ L \in Nat /\ Length \in Nat
            BY <1>1, <1>2
          <6>2. 2 <= Len(buf)
            BY <2>1, <6>1
          <6>3. Pos \in Int /\ Length = Pos + Len(buf) + Len(rest)
            BY <6>1 DEF Pos
          <6> QED BY <3>2, <6>1, <6>2, <6>3
        <5> HIDE DEF e, p, n, b, r
        <5>2. r = 0 /\ b = 2
          BY <5>1
        <5> QED BY <2>2, <5>2 DEF b, r
      <4>2. rest \in Seq(Symbol)
        BY <1>0 DEF MultipartTypeOK
      <4>3. rest = <<>> /\ buf' = <<>>
        BY <2>2, <4>1, <4>2
      <4>4. Ended'
        BY <1>4, <1>8, <3>2, <4>3 DEF Ended
      <4> QED BY <1>0, <1>8, <4>4 DEF OnTrack
    <3> QED BY <1>6, <2>4, <3>0, <3>1, <3>2
  <2> QED BY <1>0, <1>4, <1>8, <2>2, <2>3, <2>4 DEF MultipartInv
<1>9. CASE /\ IsPrefix(dash, buf) /\ buf' = <<>> /\ valid' = TRUE
           /\ UNCHANGED <<state, mpc>>
  <2>1. 2 <= Len(buf) /\ Here(dash, Pos)
    BY <1>3, <1>9
  <2>2. buf' \in Seq(Symbol) /\ Window' /\ Pos' = Came
    BY <1>0, <1>4, <1>9, EmptyWindow
  <2>3. MultipartTypeOK'
    BY <1>0, <1>4, <1>9, <2>2 DEF MultipartTypeOK
  <2>4. ASSUME sent.plain, ~lost PROVE OnTrack'
    <3>0. ~Here(crlf, Pos)
      BY <1>2, <2>1, OneOrOther
    <3>1. parts = sent.parts /\ Pos' >= TailOf(Count) + L + 2
      <4>1. CASE m = Count /\ Told(m) /\ Pos = TailOf(m) + L /\ TailOf(Count) \in Nat
        <5>1. Len(parts) = Len(sent.parts) /\ \A i \in 1 .. Len(parts) : parts[i] = sent.parts[i]
          BY <4>1 DEF Told, Count
        <5>2. sent.parts \in Seq(Part)
          BY <1>1, BodyTypes
        <5>3. parts = sent.parts
          <6>1. parts \in Seq(Part)
            BY <1>0 DEF MultipartTypeOK
          <6> QED BY <5>1, <5>2, <6>1, SeqsEqual
        <5>4. Pos' >= TailOf(Count) + L + 2
          <6>1. Pos' = (TailOf(Count) + L) + Len(buf)
            BY <1>2, <2>2, <4>1
          <6> QED BY <1>1, <1>2, <2>1, <4>1, <6>1
        <5> QED BY <5>3, <5>4
      <4>2. CASE parts = sent.parts /\ Pos >= TailOf(Count) + L + 2 /\ TailOf(Count) \in Nat
        BY <1>1, <1>2, <2>2, <4>2
      <4> QED BY <1>6, <2>4, <3>0, <4>1, <4>2
    <3>2. TailOf(Count)' = TailOf(Count)
      BY <1>7
    <3>3. valid'
      BY <1>9
    <3>4. Ended'
      BY <1>0, <1>4, <1>9, <3>1, <3>2, <3>3 DEF Ended
    <3> QED BY <1>0, <1>9, <3>4 DEF OnTrack
  <2> QED BY <1>0, <1>4, <1>9, <2>2, <2>3, <2>4 DEF MultipartInv
<1>10. CASE /\ ~IsPrefix(crlf, buf) /\ ~IsPrefix(dash, buf) /\ mpc' = "read"
            /\ UNCHANGED <<buf, state, valid>>
  <2>1. MultipartTypeOK' /\ Window'
    BY <1>0, <1>4, <1>10, SameWindow DEF MultipartTypeOK, Running, Stopped
  <2>2. Pos' = Pos
    BY <1>4, <1>10 DEF Pos, Length
  <2>3. ASSUME sent.plain, ~lost PROVE OnTrack'
    <3>1. CASE AfterContent /\ (Here(crlf, Pos) \/ Here(dash, Pos))
      <4>1. Len(buf') < 2
        BY <1>2, <1>3, <1>10, <3>1
      <4>2. AfterContent'
        BY <1>4, <1>7, <1>10, <2>2, <3>1, <4>1 DEF AfterContent
      <4> QED BY <1>10, <4>2 DEF OnTrack
    <3>2. CASE Ended
      <4>1. TailOf(Count)' = TailOf(Count)
        BY <1>7
      <4>2. Ended'
        BY <1>4, <1>10, <2>2, <3>2, <4>1 DEF Ended
      <4> QED BY <1>10, <4>2 DEF OnTrack
    <3> QED BY <1>6, <2>3, <3>1, <3>2
  <2> QED BY <1>0, <1>4, <1>10, <2>1, <2>3 DEF MultipartInv
<1> QED BY <1>5, <1>8, <1>9, <1>10

---------------------------------------------------------------------------
LEMMA MultipartStepInv == MultipartInv /\ [MultipartNext]_multipartVars => MultipartInv'
<1> SUFFICES ASSUME MultipartInv, [MultipartNext]_multipartVars PROVE MultipartInv'
  OBVIOUS
<1>1. CASE ReadPiece
  BY <1>1, ReadStep
<1>2. CASE ReadFails \/ ReadDone \/ ParseReturn
  BY <1>2, LoopSteps
<1>3. CASE InitialBoundary
  BY <1>3, InitialStep
<1>4. CASE NewEntry
  BY <1>4, NewEntryStep
<1>5. CASE Headers
  BY <1>5, HeadersStep
<1>6. CASE HeaderLine
  BY <1>6, HeaderLineStep
<1>7. CASE PartBody
  BY <1>7, ContentStep
<1>8. CASE BoundaryEnd
  BY <1>8, BoundaryStep
<1>9. CASE UNCHANGED multipartVars
  <2>1. UNCHANGED <<sent, rest, buf, state, mpc, file, parts, valid, lost>>
    BY <1>9 DEF multipartVars
  <2>2. MultipartTypeOK' /\ Window'
    BY <2>1, SameWindow DEF MultipartInv, MultipartTypeOK
  <2>3. ASSUME sent.plain, ~lost PROVE OnTrack'
    <3>1. OnTrack /\ mpc # "failed" /\ (Resting' => Resting)
      BY <2>1, <2>3 DEF MultipartInv, OnTrack, Resting
    <3> QED BY <2>1, <3>1, OnTrackSame
  <2> QED BY <2>1, <2>2, <2>3 DEF MultipartInv
<1> QED BY <1>1, <1>2, <1>3, <1>4, <1>5, <1>6, <1>7, <1>8, <1>9 DEF MultipartNext, Parse

(* MultipartFormDataParser::parse is where OnTrack says in the text of a    *)
(* well written body, wherever read_content_with_length cuts it, unless a   *)
(* cut in the first boundary has made it miss one.                          *)
THEOREM MultipartInvariant == MultipartSpec => []MultipartInv
<1>1. MultipartInit => MultipartInv
  BY MultipartInitInv
<1>2. MultipartInv /\ [MultipartNext]_multipartVars => MultipartInv'
  BY MultipartStepInv
<1> QED BY <1>1, <1>2, PTL DEF MultipartSpec

(* The variables of the parser keep their types, whatever the client sends: *)
(* state_ never leaves the five cases of parse.                             *)
THEOREM MultipartTypeCorrect == MultipartSpec => []MultipartTypeOK
<1>1. MultipartInv => MultipartTypeOK
  BY DEF MultipartInv
<1> QED BY <1>1, MultipartInvariant, PTL

---------------------------------------------------------------------------
(* What the invariant says of the receivers *)

LEMMA PrefixMeans ==
    ASSUME NEW A, NEW s \in Seq(A), NEW t \in Seq(A), Len(s) <= Len(t),
           \A k \in 1 .. Len(s) : s[k] = t[k]
    PROVE  IsPrefix(s, t)
<1> DEFINE u == SubSeq(s, 1, Len(s))
           v == SubSeq(t, 1, Len(s))
<1>1. /\ u \in Seq(A) /\ Len(u) = Len(s) /\ \A k \in 1 .. Len(s) : u[k] = s[k]
      /\ v \in Seq(A) /\ Len(v) = Len(s) /\ \A k \in 1 .. Len(s) : v[k] = t[k]
  OBVIOUS
<1> HIDE DEF u, v
<1>2. u = v
  BY <1>1, SeqsEqual
<1> QED BY <1>2 DEF IsPrefix, u, v

LEMMA PrefixOfStretch ==
    ASSUME NEW A, NEW s \in Seq(A), NEW b \in Nat, NEW t \in Nat, NEW p \in b .. t, t <= Len(s)
    PROVE  IsPrefix(SubSeq(s, b + 1, p), SubSeq(s, b + 1, t))
<1> DEFINE u == SubSeq(s, b + 1, p)
           v == SubSeq(s, b + 1, t)
<1>0. b \in Nat /\ p \in Nat /\ t \in Nat /\ b <= p /\ p <= t /\ Len(s) \in Nat
  OBVIOUS
<1>1. u \in Seq(A) /\ Len(u) = p - b /\ \A k \in 1 .. p - b : u[k] = s[b + k]
  BY <1>0
<1>2. v \in Seq(A) /\ Len(v) = t - b /\ \A k \in 1 .. t - b : v[k] = s[b + k]
  BY <1>0
<1> HIDE DEF u, v
<1>3. Len(u) \in Nat /\ Len(v) \in Nat /\ Len(u) <= Len(v) /\ \A k \in 1 .. Len(u) : u[k] = v[k]
  BY <1>0, <1>1, <1>2
<1> QED BY <1>1, <1>2, <1>3, PrefixMeans DEF u, v

LEMMA PrefixOfItself ==
    ASSUME NEW A, NEW s \in Seq(A)
    PROVE  IsPrefix(s, s)
BY PrefixMeans

(* A part is told as it was sent, but for the end of the last one. *)
LEMMA PartsTold ==
    ASSUME MultipartInv, sent.plain, ~lost
    PROVE  /\ Len(parts) <= Count
           /\ \A i \in 1 .. Len(parts) :
                 \/ parts[i] = sent.parts[i]
                 \/ /\ i = Len(parts) /\ parts[i].type = sent.parts[i].type
                    /\ IsPrefix(parts[i].data, sent.parts[i].data)
<1>1. MultipartTypeOK /\ Window /\ OnTrack /\ sent \in Bodies /\ parts \in Seq(Part)
  BY DEF MultipartInv, MultipartTypeOK
<1>2. Count \in Nat \ {0} /\ \A i \in 1 .. Count : PartAt(i)
  BY <1>1, BodyFacts
<1>3. Len(parts) \in Nat
  BY <1>1
<1>4. CASE BeforeParts
  BY <1>2, <1>4 DEF BeforeParts
<1>5. CASE BeforeHeaders \/ InHeaders \/ AfterContent
  BY <1>2, <1>3, <1>5 DEF BeforeHeaders, InHeaders, AfterContent, Told
<1>6. CASE Ended
  BY <1>2, <1>3, <1>6 DEF Ended, Count
<1>7. CASE InContent
  <2> DEFINE m == Len(parts)
  <2>1. /\ m \in 1 .. Count /\ Told(m - 1) /\ parts[m].type = sent.parts[m].type
        /\ Pos \in BodyOf(m) .. TailOf(m)
        /\ parts[m].data = SubSeq(sent.text, BodyOf(m) + 1, Pos)
    BY <1>7 DEF InContent
  <2> HIDE DEF m
  <2>2. /\ BodyOf(m) \in Nat /\ TailOf(m) \in Nat /\ Here(crlf_dash_boundary, TailOf(m))
        /\ sent.parts[m].data = SubSeq(sent.text, BodyOf(m) + 1, TailOf(m))
    BY <1>2, <2>1 DEF PartAt
  <2>3. sent.text \in Seq(Symbol) /\ Length \in Nat /\ L \in Nat
    BY <1>1, BodyTypes, Delimiters
  <2>4. TailOf(m) <= Len(sent.text)
    BY <2>2, <2>3 DEF Here, L, Length
  <2>5. IsPrefix(parts[m].data, sent.parts[m].data)
    BY <2>1, <2>2, <2>3, <2>4, PrefixOfStretch
  <2>6. \A i \in 1 .. m : i = m \/ i \in 1 .. m - 1
    BY <1>2, <2>1
  <2>7. m <= Count /\ \A i \in 1 .. m : parts[i] = sent.parts[i] \/ i = m
    BY <1>2, <2>1, <2>6 DEF Told
  <2> QED BY <2>1, <2>5, <2>7 DEF m
<1> QED BY <1>1, <1>4, <1>5, <1>6, <1>7 DEF OnTrack

(* Wherever read_content_with_length cuts a well written body, for every    *)
(* boundary and any number of parts, unless it cuts the first boundary in   *)
(* two (parse then loses what follows): header_callback is called once for  *)
(* each part and in order, and receiver gets its content and nothing else.  *)
THEOREM MultipartPartsFaithful == MultipartSpec => []PartsFaithful
<1>1. MultipartInv => PartsFaithful
  <2> SUFFICES ASSUME MultipartInv, sent.plain, ~lost
               PROVE  /\ Len(parts) <= Len(sent.parts)
                      /\ \A i \in DOMAIN parts :
                            /\ parts[i].type = sent.parts[i].type
                            /\ IsPrefix(parts[i].data, sent.parts[i].data)
                            /\ i < Len(parts) => parts[i].data = sent.parts[i].data
    BY DEF PartsFaithful
  <2>1. parts \in Seq(Part) /\ Len(parts) \in Nat /\ DOMAIN parts = 1 .. Len(parts)
    BY DEF MultipartInv, MultipartTypeOK
  <2>2. Len(parts) <= Len(sent.parts)
    BY PartsTold DEF Count
  <2>3. ASSUME NEW i \in 1 .. Len(parts)
        PROVE  /\ parts[i].type = sent.parts[i].type
               /\ IsPrefix(parts[i].data, sent.parts[i].data)
               /\ i < Len(parts) => parts[i].data = sent.parts[i].data
    <3>1. CASE parts[i] = sent.parts[i]
      <4>1. parts[i].data \in Seq(Symbol)
        <5>1. parts[i] \in Part
          BY <2>1
        <5> QED BY <5>1 DEF Part
      <4>2. IsPrefix(parts[i].data, parts[i].data)
        BY <4>1, PrefixOfItself
      <4> QED BY <3>1, <4>2
    <3>2. CASE /\ i = Len(parts) /\ parts[i].type = sent.parts[i].type
               /\ IsPrefix(parts[i].data, sent.parts[i].data)
      BY <2>1, <3>2
    <3> QED BY <3>1, <3>2, PartsTold
  <2> QED BY <2>1, <2>2, <2>3
<1> QED BY <1>1, MultipartInvariant, PTL

---------------------------------------------------------------------------
(* What it says when the body was read to its end *)

DoneRead == mpc = "done" => rest = <<>>

LEMMA DoneReadInvariant == MultipartSpec => []DoneRead
<1>1. MultipartInit => DoneRead
  BY DEF MultipartInit, DoneRead
<1>2. DoneRead /\ [MultipartNext]_multipartVars => DoneRead'
  <2> SUFFICES ASSUME DoneRead, [MultipartNext]_multipartVars PROVE DoneRead'
    OBVIOUS
  <2>1. CASE ReadPiece \/ ReadFails \/ ReadDone \/ ParseReturn
    BY <2>1 DEF ReadPiece, ReadFails, ReadDone, ParseReturn, DoneRead
  <2>2. CASE InitialBoundary \/ NewEntry \/ Headers
    BY <2>2 DEF InitialBoundary, NewEntry, Headers, Case, DoneRead
  <2>3. CASE HeaderLine
    BY <2>3 DEF HeaderLine, DoneRead
  <2>4. CASE PartBody \/ BoundaryEnd
    BY <2>4 DEF PartBody, BoundaryEnd, Case, DoneRead
  <2>5. CASE UNCHANGED multipartVars
    BY <2>5 DEF multipartVars, DoneRead
  <2> QED BY <2>1, <2>2, <2>3, <2>4, <2>5 DEF MultipartNext, Parse
<1> QED BY <1>1, <1>2, PTL DEF MultipartSpec

(* Part i and the delimiter after it are in the text. *)
LEMMA PartInside ==
    ASSUME sent \in Bodies, sent.plain, NEW i \in 1 .. Count
    PROVE  /\ HeadOf(i) \in Nat /\ LinesOf(i) \in Nat /\ TailOf(i) \in Nat
           /\ HeadOf(i) + 3 * LinesOf(i) + 2 <= TailOf(i)
           /\ TailOf(i) + L + 2 <= Length
<1>1. Count \in Nat /\ PartAt(i)
  BY BodyFacts
<1>2. i < Count \/ i = Count
  BY <1>1
<1>3. Here(crlf, TailOf(i) + L) \/ Here(dash, TailOf(i) + L)
  BY <1>1, <1>2 DEF PartAt
<1>4. TailOf(i) + L + 2 <= Length
  BY <1>3, Delimiters DEF Here
<1> QED BY <1>1, <1>4 DEF PartAt

(* Where the parser waits for more, there is more to come - unless it has   *)
(* seen the last boundary.                                                  *)
LEMMA EndReached ==
    ASSUME MultipartInv, sent.plain, ~lost, mpc = "done", rest = <<>>
    PROVE  Ended
<1>1. MultipartTypeOK /\ Window /\ OnTrack /\ sent \in Bodies /\ parts \in Seq(Part) /\ Resting
  BY DEF MultipartInv, MultipartTypeOK, Resting
<1>2. /\ Length \in Nat /\ Pos \in Nat /\ Len(buf) \in Nat /\ Length = Pos + Len(buf)
      /\ (buf = <<>> => Len(buf) = 0)
  BY <1>1, Positions
<1>3. Count \in Nat \ {0} /\ Len(parts) \in Nat /\ L \in Nat /\ L >= 5 /\ D \in Nat /\ D >= 5
  BY <1>1, BodyFacts, Delimiters
<1> DEFINE n == Length
           p == Pos
           b == Len(buf)
<1>4. ASSUME BeforeParts PROVE FALSE
  <2>1. 1 \in 1 .. Count
    BY <1>3
  <2> DEFINE h == HeadOf(1)
             l == LinesOf(1)
             t == TailOf(1)
  <2>2. h \in Nat /\ l \in Nat /\ t \in Nat /\ h + 3 * l + 2 <= t /\ t + L + 2 <= n
    BY <1>1, <2>1, PartInside
  <2>3. p + D <= h /\ n = p /\ p \in Nat
    BY <1>1, <1>2, <1>4 DEF BeforeParts
  <2> HIDE DEF n, p, h, l, t
  <2> QED BY <1>3, <2>2, <2>3
<1>5. ASSUME BeforeHeaders \/ InHeaders PROVE FALSE
  <2> DEFINE i == Len(parts) + 1
             h == HeadOf(i)
             l == LinesOf(i)
             t == TailOf(i)
  <2>1. i \in 1 .. Count
    BY <1>3, <1>5 DEF BeforeHeaders, InHeaders
  <2>2. h \in Nat /\ l \in Nat /\ t \in Nat /\ h + 3 * l + 2 <= t /\ t + L + 2 <= n
    <3> HIDE DEF i
    <3> QED BY <1>1, <2>1, PartInside
  <2>3. \E k \in 0 .. l : p = h + 3 * k /\ b <= 2
    <3>1. CASE BeforeHeaders
      <4>1. p = h + 3 * 0 /\ b <= 2 /\ 0 \in 0 .. l
        BY <1>1, <1>2, <2>2, <3>1 DEF BeforeHeaders
      <4> QED BY <4>1
    <3>2. CASE InHeaders
      BY <1>1, <3>2 DEF InHeaders
    <3> QED BY <1>5, <3>1, <3>2
  <2>4. n = p + b /\ b \in Nat
    BY <1>2
  <2> HIDE DEF n, p, b, h, l, t
  <2> QED BY <1>3, <2>2, <2>3, <2>4
<1>6. ASSUME InContent \/ AfterContent PROVE FALSE
  <2> DEFINE t == TailOf(Len(parts))
  <2>1. Len(parts) \in 1 .. Count
    BY <1>6 DEF InContent, AfterContent
  <2>2. t \in Nat /\ t + L + 2 <= n
    BY <1>1, <2>1, PartInside
  <2>3. (p <= t /\ b <= L) \/ (p = t + L /\ b < 2)
    BY <1>1, <1>6 DEF InContent, AfterContent
  <2>4. n = p + b /\ p \in Nat /\ b \in Nat
    BY <1>2
  <2> HIDE DEF n, p, b, t
  <2> QED BY <1>3, <2>2, <2>3, <2>4
<1> QED BY <1>1, <1>4, <1>5, <1>6 DEF OnTrack

(* parse never refuses a well written body, and when the last of it was     *)
(* read, is_valid_ is set and every part has reached the receivers whole,   *)
(* wherever read_content_with_length cut it but in the first boundary.      *)
THEOREM MultipartWholeBody == MultipartSpec => []WholeBodyParsed
<1>1. MultipartInv /\ DoneRead => WholeBodyParsed
  <2> SUFFICES ASSUME MultipartInv, DoneRead, sent.plain, ~lost
               PROVE  mpc # "failed" /\ (mpc = "done" => valid /\ parts = sent.parts)
    BY DEF WholeBodyParsed
  <2>1. mpc # "failed"
    BY DEF MultipartInv, OnTrack
  <2>2. ASSUME mpc = "done" PROVE valid /\ parts = sent.parts
    BY <2>2, EndReached DEF DoneRead, Ended
  <2> QED BY <2>1, <2>2
<1> QED BY <1>1, MultipartInvariant, DoneReadInvariant, PTL
===========================================================================
