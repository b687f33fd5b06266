----------------------------- MODULE CephSync -----------------------------
(***************************************************************************)
(* ceph_storage_thread and s3_upload_files (main.cpp): once a minute, list  *)
(* the cached files of im and then of conf, and upload every one, .tmp and  *)
(* .metadata files included, that Ceph does not say it has.                 *)
(***************************************************************************)
EXTENDS S3Client

VARIABLES
    spc,        \* "list", "check" or "put"
    sbucket,    \* the bucket of this pass
    slist,      \* listed files still to be looked at
    scur        \* the file being uploaded

syncVars == <<spc, sbucket, slist, scur>>

SyncTypeOK ==
    /\ spc \in {"list", "check", "put"}
    /\ sbucket \in Buckets
    /\ slist \in SUBSET Paths
    /\ scur \in Paths

SyncInit ==
    /\ spc = "list"
    /\ sbucket = "frs-im"
    /\ slist = {}
    /\ scur = AnyPath

(* Mutant: a listed file may be passed over without asking Ceph. *)
SyncKeep_Unasked ==
    /\ spc = "check"
    /\ \E p \in slist : slist' = slist \ {p}
    /\ UNCHANGED <<fs, fd, dirs, ceph, spc, sbucket, scur>>

(* get_all_files *)
SyncList ==
    /\ spc = "list"
    /\ slist' = {p \in Paths : file_exists(p) /\ BucketOf[p[1]] = sbucket}
    /\ spc' = "check"
    /\ UNCHANGED <<fs, fd, dirs, ceph, sbucket, scur>>

SyncKeep ==
    /\ spc = "check"
    /\ \E p \in slist : TRUE \in isFileExist(p) /\ slist' = slist \ {p}
    /\ UNCHANGED <<fs, fd, dirs, ceph, spc, sbucket, scur>>

SyncMissing ==
    /\ spc = "check"
    /\ \E p \in slist : /\ FALSE \in isFileExist(p)
                        /\ slist' = slist \ {p}
                        /\ scur' = p
    /\ spc' = "put"
    /\ UNCHANGED <<fs, fd, dirs, ceph, sbucket>>

(* uploadFile, as it succeeds; *)
SyncPut ==
    /\ spc = "put"
    /\ PutObject(scur)
    /\ spc' = "check"
    /\ scur' = AnyPath
    /\ UNCHANGED <<fs, fd, dirs, sbucket, slist>>

(* and as it fails, the file being gone or Ceph unreachable: no retry       *)
(* before the next pass.                                                    *)
SyncPutFails ==
    /\ spc = "put"
    /\ spc' = "check"
    /\ scur' = AnyPath
    /\ UNCHANGED <<fs, fd, dirs, ceph, sbucket, slist>>

(* frs-im, then frs-conf, then sleep and again. *)
SyncPassDone ==
    /\ spc = "check" /\ slist = {}
    /\ sbucket' = IF sbucket = "frs-im" THEN "frs-conf" ELSE "frs-im"
    /\ spc' = "list"
    /\ UNCHANGED <<fs, fd, dirs, ceph, slist, scur>>

SyncStep ==
    \/ SyncList \/ SyncKeep \/ SyncMissing \/ SyncPut \/ SyncPutFails \/ SyncPassDone

SyncReset ==
    /\ spc' = "list"
    /\ sbucket' = "frs-im"
    /\ slist' = {}
    /\ scur' = AnyPath
===========================================================================
