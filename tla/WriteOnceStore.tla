-------------------------- MODULE WriteOnceStore --------------------------
(***************************************************************************)
(* What the upload interface promises a client, without files: a name is    *)
(* stored at most once, in one step, with exactly the content the name is   *)
(* the md5 of, and is never changed again.  The promise for a name is void  *)
(* once clients have uploaded it concurrently.                              *)
(***************************************************************************)
CONSTANTS Names, Body, NoFile

VARIABLES
    store,      \* what each name holds
    void        \* names nothing is promised about any more

Put(n) ==
    /\ n \notin void /\ store[n] = NoFile
    /\ store' = [store EXCEPT ![n] = Body[n]]
    /\ UNCHANGED void

Void(n) ==
    /\ n \notin void
    /\ void' = void \cup {n}
    /\ store' = [store EXCEPT ![n] = NoFile]

Init == store = [n \in Names |-> NoFile] /\ void = {}
Next == \E n \in Names : Put(n) \/ Void(n)
Spec == Init /\ [][Next]_<<store, void>>
===========================================================================
