----------------------------- MODULE MCServer -----------------------------
(* One persistent and, in some runs, one temporary resource; metadata is    *)
(* made of units of its own.                                                *)
EXTENDS FrsServer, TLC

CONSTANTS a, t, x, y, m, m2, u1, r1, r2, e1, e2

MCDirOf == [n \in Names |-> IF n = t THEN "temp" ELSE "im/img"]
MCBucketOf == [n \in Names |-> IF n = t THEN "" ELSE "frs-im"]
MCUnits == {x, y, m, m2, Junk}
MCBody  == [n \in Names |-> IF n = t THEN <<x>> ELSE <<x, y>>]

Octet(d) == [kind |-> "octet", data |-> d]
Json(d)  == [kind |-> "json", data |-> d]
Multi(n, ps) == [name |-> n, multipart |-> TRUE, parts |-> ps]
Plain(n, p)  == [name |-> n, multipart |-> FALSE, parts |-> <<p>>]

MCData == {Multi(a, <<Octet(<<x, y>>)>>)}
MCDataAndMeta == {Multi(a, <<Octet(<<x, y>>), Json(<<m>>)>>)}
MCDataAndTemp == MCData \cup {Plain(t, Octet(<<x>>))}
(* Sound for invariants: the readers are alike and so are the editors, and  *)
(* nothing is claimed about a disturbed name.                               *)
MCSymmetry == Permutations(Readers) \cup Permutations(Editors)
MCUndisturbed == \E n \in Names : Undisturbed(n)
MCUnmixed == Names \ mixed # {}

(* Sound for the invariants of the data files: no guard looks at an answer  *)
(* that was given, and of the answers to readers, which are replaced before *)
(* they count again, only whether they are right matters.                   *)
MCDataView ==
    <<fs, fd, dirs, upc, ureq, uparts, upiece, begun, raced, ceph,
      rpc, rkind, rname, rbody, rpos, rout, torn, DownloadIntegrity,
      epc, epath, ebody, syncVars, restarts>>

(* Sound for MetadataOneVersion: no guard looks at an answer that was given *)
(* or at the history of the data file.                                      *)
MCMetadataView ==
    <<fs, fd, dirs, upc, uparts, upiece, begun, ceph, rpc, rkind, rbody, rpos,
      epc, epath, ebody, syncVars, restarts, mixed>>

MCPatches == {<<m2>>}
MCTwoPatches == {<<m>>, <<m2, m2>>}
MCShortBody == [n \in Names |-> <<x>>]
MCDataAndLongMeta == {Multi(a, <<Json(<<m2, m>>), Octet(<<x>>)>>)}
===========================================================================
