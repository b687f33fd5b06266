----------------------------- MODULE MCLogger -----------------------------
(* Rings of three files with up to two lines each: five opens fill a ring   *)
(* and move it twice.                                                       *)
EXTENDS Logger
===========================================================================
