----------------------------- MODULE Multipart -----------------------------
(***************************************************************************)
(* MultipartFormDataParser of httplib.h and the loop that feeds it.  The    *)
(* body of a multipart upload is read from the socket in pieces of any      *)
(* length; each piece is appended to a buffer and parsed as far as the      *)
(* buffer goes.  The parser calls the handler's two receivers: one for the  *)
(* headers of a part, one for each stretch of its content.                  *)
(*                                                                         *)
(* A text is a sequence of symbols.  A header line is a single symbol, the  *)
(* delimiters are spelled out, since they can be cut in two.                *)
(***************************************************************************)
EXTENDS Naturals, Sequences, SequencesExt, FiniteSetsExt

CONSTANTS
    CR, LF, Dash,            \* the symbols delimiters are made of
    Boundary,                \* boundary_
    Types,                   \* Content-Type lines
    Disposition,             \* a Content-Disposition line with a name
    ContentLength,           \* a Content-Length line
    NoType,                  \* no Content-Type
    Bodies,                  \* bodies clients send; plain: as WellWritten says
    HEADER_MAX_LENGTH        \* CPPHTTPLIB_HEADER_MAX_LENGTH

Symbol == UNION {Range(b.text) : b \in Bodies}
Part == [type : Types \cup {NoType}, data : Seq(Symbol)]
Known == Types \cup {Disposition, ContentLength}

crlf == <<CR, LF>>
dash == <<Dash, Dash>>
dash_boundary_crlf == dash \o Boundary \o crlf
crlf_dash_boundary == crlf \o dash \o Boundary

Drop(s, n) == SubSeq(s, n + 1, Len(s))

(* t is in s after its first i symbols. *)
Occurs(t, s, i) == IsPrefix(t, Drop(s, i))

(* Part i of a body: header lines, an empty line, a content that does not   *)
(* contain the delimiter, and the delimiter; then the next part, or two     *)
(* dashes and perhaps a line end.                                           *)
PartWritten(b, i) ==
    LET at == b.at[i]
        HeaderAt(k) == at.head + 3 * k
        next == at.tail + Len(crlf_dash_boundary)
    IN
    /\ \A k \in 0 .. at.lines - 1 :
          /\ b.text[HeaderAt(k) + 1] \in Known
          /\ b.text[HeaderAt(k) + 1] \in Types => b.text[HeaderAt(k) + 1] = b.parts[i].type
          /\ Occurs(crlf, b.text, HeaderAt(k) + 1)
    /\ b.parts[i].type # NoType =>
          \E k \in 0 .. at.lines - 1 : b.text[HeaderAt(k) + 1] = b.parts[i].type
    /\ Occurs(crlf, b.text, HeaderAt(at.lines))
    /\ at.body = HeaderAt(at.lines) + 2 /\ at.body <= at.tail
    /\ b.parts[i].data = SubSeq(b.text, at.body + 1, at.tail)
    /\ Occurs(crlf_dash_boundary, b.text, at.tail)
    /\ \A j \in at.body .. at.tail - 1 : ~Occurs(crlf_dash_boundary, b.text, j)
    /\ IF i < Len(b.parts)
       THEN Occurs(crlf, b.text, next) /\ b.at[i + 1].head = next + 2
       ELSE /\ Occurs(dash, b.text, next)
            /\ Drop(b.text, next + 2) \in {<<>>, crlf}

(* A body as clients write it: text is what is sent, parts what it says,    *)
(* and at where in the text each part is.                                   *)
WellWritten(b) ==
    LET first == b.at[1].head - Len(dash_boundary_crlf) IN
    /\ b.parts # <<>> /\ Len(b.at) = Len(b.parts)
    /\ b.at \in Seq([head : Nat, lines : Nat, body : Nat, tail : Nat])
    /\ first \in Nat /\ Occurs(dash_boundary_crlf, b.text, first)
    /\ \A j \in 0 .. first - 1 : ~Occurs(dash_boundary_crlf, b.text, j)
    /\ \A i \in DOMAIN b.parts : PartWritten(b, i)

ASSUME MultipartAssumption ==
    /\ HEADER_MAX_LENGTH \in Nat \ {0, 1}
    /\ Boundary \in Seq(Range(Boundary)) \ {<<>>}
    /\ CR # LF /\ CR # Dash /\ LF # Dash
    /\ CR \notin Known /\ NoType \notin Types
    /\ \A b \in Bodies :
          /\ b.text \in Seq(Symbol) /\ b.parts \in Seq(Part)
          /\ b.plain \in BOOLEAN /\ (b.plain => WellWritten(b))

VARIABLES
    sent,       \* the body of this request
    rest,       \* the part of it that is not yet read
    buf,        \* buf_ from buf_spos_ to buf_epos_
    state,      \* state_
    mpc,        \* where the loop is
    file,       \* file_.content_type
    parts,      \* what the receivers were given
    valid,      \* is_valid_
    lost        \* history: the first boundary was cut in two

multipartVars == <<sent, rest, buf, state, mpc, file, parts, valid, lost>>

Running == {"parse", "headers"}
Stopped == {"done", "failed", "cut"}

MultipartTypeOK ==
    /\ sent \in Bodies
    /\ rest \in Seq(Symbol) /\ buf \in Seq(Symbol)
    /\ state \in 0 .. 4
    /\ mpc \in {"read"} \cup Running \cup Stopped
    /\ file \in Types \cup {NoType}
    /\ parts \in Seq(Part)
    /\ valid \in BOOLEAN /\ lost \in BOOLEAN

MultipartInit ==
    /\ sent \in Bodies
    /\ rest = sent.text
    /\ buf = <<>> /\ state = 0 /\ mpc = "read"
    /\ file = NoType /\ parts = <<>>
    /\ valid = FALSE /\ lost = FALSE

---------------------------------------------------------------------------
(* The buffer *)

(* Where t begins in s, counted from 0; the length of s if it is not there. *)
buf_find(s, t) ==
    LET at == {i \in 0 .. Len(s) : Occurs(t, s, i)}
    IN  IF at = {} THEN Len(s) ELSE Min(at)

---------------------------------------------------------------------------
(* Reading *)

(* read_content_with_length: a piece of any length. *)
ReadPiece ==
    /\ mpc = "read"
    /\ \E n \in 1 .. Len(rest) :
          /\ buf' = buf \o SubSeq(rest, 1, n)
          /\ rest' = Drop(rest, n)
    /\ mpc' = "parse"
    /\ UNCHANGED <<sent, state, file, parts, valid, lost>>

(* The connection is lost or times out. *)
ReadFails ==
    /\ mpc = "read" /\ rest # <<>>
    /\ mpc' = "cut"
    /\ UNCHANGED <<sent, rest, buf, state, file, parts, valid, lost>>

(* All is read; whether the body was valid is asked now. *)
ReadDone ==
    /\ mpc = "read" /\ rest = <<>>
    /\ mpc' = "done"
    /\ UNCHANGED <<sent, rest, buf, state, file, parts, valid, lost>>

(* parse returns true when the buffer is used up. *)
ParseReturn ==
    /\ mpc = "parse" /\ buf = <<>>
    /\ mpc' = "read"
    /\ UNCHANGED <<sent, rest, buf, state, file, parts, valid, lost>>

Case(n) == mpc = "parse" /\ buf # <<>> /\ state = n

---------------------------------------------------------------------------
(* Parsing *)

(* case 0.  What precedes the first boundary is dropped - and all of the    *)
(* buffer when the boundary is not wholly there.                            *)
InitialBoundary ==
    /\ Case(0)
    /\ LET pos == buf_find(buf, dash_boundary_crlf) IN
       \/ /\ pos = Len(buf)
          /\ buf' = <<>> /\ mpc' = "read"
          /\ lost' = (buf_find(sent.text, dash_boundary_crlf) < Len(sent.text) - Len(rest))
          /\ UNCHANGED state
       \/ /\ pos < Len(buf)
          /\ buf' = Drop(buf, pos + Len(dash_boundary_crlf))
          /\ state' = 1
          /\ UNCHANGED <<mpc, lost>>
    /\ UNCHANGED <<sent, rest, file, parts, valid>>

(* case 1. *)
NewEntry ==
    /\ Case(1)
    /\ file' = NoType /\ state' = 2
    /\ UNCHANGED <<sent, rest, buf, mpc, parts, valid, lost>>

(* case 2: the length of the first line is checked, of no other one. *)
Headers ==
    /\ Case(2)
    /\ mpc' = IF buf_find(buf, crlf) > HEADER_MAX_LENGTH THEN "failed" ELSE "headers"
    /\ UNCHANGED <<sent, rest, buf, state, file, parts, valid, lost>>

(* The loop of case 2: an empty line ends the headers, a header that is not *)
(* known ends the parsing.                                                  *)
HeaderLine ==
    /\ mpc = "headers"
    /\ LET pos == buf_find(buf, crlf)
           line == SubSeq(buf, 1, pos)
       IN
       \/ /\ pos = Len(buf) /\ mpc' = "read"
          /\ UNCHANGED <<buf, state, file, parts, valid>>
       \/ /\ pos < Len(buf) /\ line = <<>>
          /\ parts' = Append(parts, [type |-> file, data |-> <<>>])
          /\ buf' = Drop(buf, Len(crlf))
          /\ state' = 3 /\ mpc' = "parse"
          /\ UNCHANGED <<file, valid>>
       \/ /\ pos < Len(buf) /\ \E l \in Known : line = <<l>>
          /\ file' = IF line[1] \in Types THEN line[1] ELSE file
          /\ buf' = Drop(buf, pos + Len(crlf))
          /\ UNCHANGED <<state, mpc, parts, valid>>
       \/ /\ pos < Len(buf) /\ line # <<>>
          /\ ~\E l \in Known : line = <<l>>
          /\ mpc' = "failed" /\ valid' = FALSE
          /\ UNCHANGED <<buf, state, file, parts>>
    /\ UNCHANGED <<sent, rest, lost>>

(* The receiver of contents gets the first n symbols of the buffer. *)
Receive(n) == parts' = [parts EXCEPT ![Len(parts)].data = @ \o SubSeq(buf, 1, n)]

(* Mutant: two symbols less are held back. *)
PartBody_HoldLess ==
    /\ Case(3)
    /\ LET pos == buf_find(buf, crlf_dash_boundary)
           len == Len(buf) - (Len(crlf_dash_boundary) - 2)
       IN
       \/ /\ Len(buf) < Len(crlf_dash_boundary) - 2
          /\ mpc' = "read"
          /\ UNCHANGED <<buf, state, parts>>
       \/ /\ Len(buf) >= Len(crlf_dash_boundary) - 2 /\ pos < Len(buf)
          /\ Receive(pos)
          /\ buf' = Drop(buf, pos + Len(crlf_dash_boundary))
          /\ state' = 4
          /\ UNCHANGED mpc
       \/ /\ Len(buf) >= Len(crlf_dash_boundary) - 2 /\ pos = Len(buf)
          /\ Receive(len)
          /\ buf' = Drop(buf, len)
          /\ mpc' = "read"
          /\ UNCHANGED state
    /\ UNCHANGED <<sent, rest, file, valid, lost>>

(* case 3.  Without the next boundary in the buffer, all of it is passed on *)
(* but what could be the beginning of one.                                  *)
PartBody ==
    /\ Case(3)
    /\ LET pos == buf_find(buf, crlf_dash_boundary)
           len == Len(buf) - Len(crlf_dash_boundary)
       IN
       \/ /\ Len(buf) < Len(crlf_dash_boundary)
          /\ mpc' = "read"
          /\ UNCHANGED <<buf, state, parts>>
       \/ /\ Len(buf) >= Len(crlf_dash_boundary) /\ pos < Len(buf)
          /\ Receive(pos)
          /\ buf' = Drop(buf, pos + Len(crlf_dash_boundary))
          /\ state' = 4
          /\ UNCHANGED mpc
       \/ /\ Len(buf) >= Len(crlf_dash_boundary) /\ pos = Len(buf)
          /\ Receive(len)
          /\ buf' = Drop(buf, len)
          /\ mpc' = "read"
          /\ UNCHANGED state
    /\ UNCHANGED <<sent, rest, file, valid, lost>>

(* Mutant: what follows a boundary and is neither is parsed again. *)
BoundaryEnd_Again ==
    /\ Case(4)
    /\ \/ IsPrefix(crlf, buf) /\ buf' = Drop(buf, Len(crlf)) /\ state' = 1 /\ UNCHANGED <<mpc, valid>>
       \/ IsPrefix(dash, buf) /\ buf' = <<>> /\ valid' = TRUE /\ UNCHANGED <<state, mpc>>
       \/ Len(buf) < 2 /\ mpc' = "read" /\ UNCHANGED <<buf, state, valid>>
       \/ /\ Len(buf) >= 2 /\ ~IsPrefix(crlf, buf) /\ ~IsPrefix(dash, buf)
          /\ UNCHANGED <<buf, state, mpc, valid>>
    /\ UNCHANGED <<sent, rest, file, parts, lost>>

(* Mutant: the last boundary counts only at the end of a piece. *)
BoundaryEnd_AtEnd ==
    /\ Case(4)
    /\ \/ IsPrefix(crlf, buf) /\ buf' = Drop(buf, Len(crlf)) /\ state' = 1 /\ UNCHANGED <<mpc, valid>>
       \/ IsPrefix(dash, buf) /\ buf' = <<>> /\ valid' = (Len(buf) = 2) /\ UNCHANGED <<state, mpc>>
       \/ ~IsPrefix(crlf, buf) /\ ~IsPrefix(dash, buf) /\ mpc' = "read" /\ UNCHANGED <<buf, state, valid>>
    /\ UNCHANGED <<sent, rest, file, parts, lost>>

(* Mutant: the state is counted on past the last case. *)
BoundaryEnd_Next ==
    /\ Case(4)
    /\ \/ IsPrefix(crlf, buf) /\ buf' = Drop(buf, Len(crlf)) /\ state' = 1 /\ UNCHANGED <<mpc, valid>>
       \/ IsPrefix(dash, buf) /\ buf' = <<>> /\ valid' = TRUE /\ state' = state + 1 /\ UNCHANGED mpc
       \/ ~IsPrefix(crlf, buf) /\ ~IsPrefix(dash, buf) /\ mpc' = "read" /\ UNCHANGED <<buf, state, valid>>
    /\ UNCHANGED <<sent, rest, file, parts, lost>>

(* case 4: another part, the end, or - if it is neither, or not yet to be   *)
(* told - more of the body is waited for.                                   *)
BoundaryEnd ==
    /\ Case(4)
    /\ \/ /\ IsPrefix(crlf, buf)
          /\ buf' = Drop(buf, Len(crlf)) /\ state' = 1
          /\ UNCHANGED <<mpc, valid>>
       \/ /\ IsPrefix(dash, buf)
          /\ buf' = <<>> /\ valid' = TRUE
          /\ UNCHANGED <<state, mpc>>
       \/ /\ ~IsPrefix(crlf, buf) /\ ~IsPrefix(dash, buf)
          /\ mpc' = "read"
          /\ UNCHANGED <<buf, state, valid>>
    /\ UNCHANGED <<sent, rest, file, parts, lost>>

Parse ==
    \/ InitialBoundary \/ NewEntry \/ Headers \/ HeaderLine \/ PartBody \/ BoundaryEnd
    \/ ParseReturn

MultipartNext == ReadPiece \/ ReadFails \/ ReadDone \/ Parse

MultipartSpec == MultipartInit /\ [][MultipartNext]_multipartVars /\ WF_multipartVars(Parse)

---------------------------------------------------------------------------
(* Properties *)

(* However the body is cut, the receivers are told of the parts the client  *)
(* sent, in order, and of their content exactly, as far as it has come -    *)
(* never of a delimiter, or of a piece of one, as content.  Unless the      *)
(* first boundary came in two pieces, which InitialBoundary throws away.    *)
PartsFaithful ==
    sent.plain /\ ~lost =>
        /\ Len(parts) <= Len(sent.parts)
        /\ \A i \in DOMAIN parts :
              /\ parts[i].type = sent.parts[i].type
              /\ IsPrefix(parts[i].data, sent.parts[i].data)
              /\ i < Len(parts) => parts[i].data = sent.parts[i].data

(* No such body is refused, and one that was read to its end is found valid *)
(* and has reached the receivers: nothing stays behind in the buffer.       *)
WholeBodyParsed ==
    sent.plain /\ ~lost =>
        /\ mpc # "failed"
        /\ mpc = "done" => valid /\ parts = sent.parts

(* Each call of parse returns, whatever the client sent: no case of its     *)
(* loop waits for input without returning.                                  *)
ParseEnds == mpc \in Running ~> mpc \notin Running
===========================================================================
