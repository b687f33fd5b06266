----------------------------- MODULE S3Client -----------------------------
(***************************************************************************)
(* GhtS3Client (ghts3client.cpp): what the other parts see of the Ceph      *)
(* object store.  The key of an object is the path of the cached file below *)
(* its apptype, so keys are the paths of the cache; the buckets are frs-im  *)
(* and frs-conf, and every other apptype, as temp/, has none.               *)
(*                                                                         *)
(* A call may fail at any time (connection, timeout).  isFileExist reports  *)
(* a failure as "does not exist"; the callers of downloadFile and           *)
(* uploadFile ignore what these return.                                     *)
(***************************************************************************)
EXTENDS FrsStorage

CONSTANTS BucketOf      \* bucket of each name, "" when its apptype has none

Buckets == {"frs-im", "frs-conf"}

ASSUME BucketAssumption ==
    /\ BucketOf \in [Names -> Buckets \cup {""}]
    /\ \A n \in TempNames : BucketOf[n] = ""

VARIABLES ceph          \* ceph[p]: the object with key p, or NoFile

CephTypeOK == ceph \in [Paths -> Contents \cup {NoFile}]

CephInit == ceph = [p \in Paths |-> NoFile]

(* GetBucketName: requests to bucket "" fail. *)
Reachable(p) == BucketOf[p[1]] # ""

ObjectExists(p) == Reachable(p) /\ ceph[p] # NoFile

(* HeadObject succeeded, or it did not. *)
isFileExist(p) == IF ObjectExists(p) THEN BOOLEAN ELSE {FALSE}

(* What GetObject returns: the object, or nothing. *)
GetObject(p) == IF ObjectExists(p) THEN {ceph[p], NoFile} ELSE {NoFile}

(* Mutant: every file of a name is uploaded under the key of its data. *)
PutObject_OneKey(p) ==
    /\ Reachable(p) /\ file_exists(p)
    /\ ceph' = [ceph EXCEPT ![File(p[1])] = fs[p]]

(* PutObject of the local file p, sent as it is at that moment. *)
PutObject(p) ==
    /\ Reachable(p) /\ file_exists(p)
    /\ ceph' = [ceph EXCEPT ![p] = fs[p]]
===========================================================================
