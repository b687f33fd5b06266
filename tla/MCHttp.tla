------------------------------- MODULE MCHttp -------------------------------
(* A download whose client asks for the end of the connection, and an       *)
(* upload that goes on.                                                     *)
EXTENDS HttpServer

MCBodyUnits == [k \in Kinds |-> IF k = "get" THEN 0 ELSE 1]
===========================================================================
