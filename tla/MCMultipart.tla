---------------------------- MODULE MCMultipart ----------------------------
(* Bodies whose contents look like delimiters, and bodies that are wrong in *)
(* each of the ways the parser knows.                                       *)
EXTENDS Multipart

Line(s) == s \o crlf
Entry(t, d) == [type |-> t, data |-> d]

(* How a client writes a part; Content-Length is optional, so is a type.    *)
Written(p) ==
    dash_boundary_crlf \o Line(<<Disposition>>)
    \o (IF p.type = NoType THEN Line(<<ContentLength>>) ELSE Line(<<p.type>>))
    \o crlf \o Line(p.data)
End == dash \o Boundary \o dash

(* Two header lines and the empty one take eight symbols. *)
Layout(preamble, ps, i) ==
    LET before == FlattenSeq([j \in 1 .. i - 1 |-> Written(ps[j])])
        head == Len(preamble) + Len(before) + Len(dash_boundary_crlf)
    IN  [head |-> head, lines |-> 2, body |-> head + 8, tail |-> head + 8 + Len(ps[i].data)]

Plain(preamble, ps, end) ==
    [text |-> preamble \o FlattenSeq([i \in DOMAIN ps |-> Written(ps[i])]) \o End \o end,
     parts |-> ps, at |-> [i \in DOMAIN ps |-> Layout(preamble, ps, i)], plain |-> TRUE]
Wrong(text) == [text |-> text, parts |-> <<>>, at |-> <<>>, plain |-> FALSE]

MCBoundary == <<"b", "c">>

MCBodies ==
    { \* a content with all of a delimiter but its last symbol, and metadata
      Plain(<<>>, <<Entry("octet", <<"x", CR, LF, Dash, Dash, "b", "x">>), Entry("json", <<"m">>)>>, crlf),
      \* contents that end like a delimiter begins, are empty, or are only dashes
      Plain(<<>>, <<Entry("octet", <<"x", CR>>), Entry(NoType, <<>>), Entry("json", <<Dash, Dash>>)>>, <<>>),
      \* a preamble that looks like the first boundary
      Plain(<<Dash, Dash, "b", CR, LF>>, <<Entry("octet", <<CR, LF, CR, LF>>)>>, crlf),
      \* a header nobody knows; a header that is too long
      Wrong(dash_boundary_crlf \o Line(<<"x">>) \o crlf \o Line(<<"x">>) \o End),
      Wrong(dash_boundary_crlf \o Line(<<"x", "x", "x", "x", "x">>) \o crlf),
      \* neither a line end nor the end follows a boundary
      Wrong(dash_boundary_crlf \o Line(<<"octet">>) \o crlf \o Line(<<"x">>)
            \o dash \o MCBoundary \o <<"x", "x">> \o crlf),
      \* an epilogue, and no part at all
      Wrong(dash_boundary_crlf \o crlf \o Line(<<"x">>) \o End \o crlf \o crlf \o <<"x">>),
      Wrong(<<"x", CR, LF>> \o End) }
===========================================================================
