----------------------------- MODULE MCUpload -----------------------------
(* Two resources, one of them temporary, and uploads of every content type, *)
(* right and wrong, for two or three concurrent workers.                    *)
EXTENDS Upload

CONSTANTS a, t, x, y, u1, u2

MCNames == {a, t}
MCDirOf == [n \in MCNames |-> IF n = t THEN "temp" ELSE "im"]
MCUploaders == {u1, u2}
MCUnits == {x, y, Junk}
MCBody  == [n \in MCNames |-> IF n = t THEN <<x>> ELSE <<x, y>>]

Octet(d) == [kind |-> "octet", data |-> d]
Json(d)  == [kind |-> "json", data |-> d]
Other(d) == [kind |-> "other", data |-> d]
Multi(n, ps) == [name |-> n, multipart |-> TRUE, parts |-> ps]
Plain(n, p)  == [name |-> n, multipart |-> FALSE, parts |-> <<p>>]

MCRequests ==
    { Multi(a, <<Other(<<x>>), Octet(<<x, y>>), Json(<<x>>)>>),
      Multi(a, <<Octet(<<>>), Octet(<<x>>)>>),
      Plain(a, Octet(<<x, y>>)),
      Plain(a, Json(<<y>>)),
      Plain(t, Octet(<<x>>)),
      Plain(t, Octet(<<>>)) }
===========================================================================
