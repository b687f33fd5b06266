----------------------------- MODULE FrsServer -----------------------------
(***************************************************************************)
(* The whole server: the handlers of Upload, Fetch and Edit and the thread  *)
(* of CephSync run at the same time over one cache and one object store,    *)
(* and the process may be restarted, on the cache directory it left or on   *)
(* an empty one.                                                            *)
(***************************************************************************)
EXTENDS Upload, Fetch, Edit, CephSync

CONSTANTS
    MaxRestarts,     \* bound on the number of restarts
    EmptyVolume      \* whether a restart may find the cache directory empty

ASSUME ServerAssumption ==
    /\ MaxRestarts \in Nat
    /\ EmptyVolume \in BOOLEAN
    /\ Uploaders \cap Readers = {} /\ Uploaders \cap Editors = {}
    /\ Readers \cap Editors = {}

VARIABLES
    restarts,
    mixed       \* history: names whose metadata two threads had open at once

vars == <<storageVars, uploadVars, ceph, fetchVars, editVars, syncVars, restarts, mixed>>

ServerInit ==
    /\ UploadInit /\ CephInit /\ FetchInit /\ EditInit /\ SyncInit
    /\ restarts = 0 /\ mixed = {}

(* Two threads have the metadata of n open for writing. *)
SharedMeta(n) == \E s, o \in Slots : s # o /\ fd[s] = Meta(n) /\ fd[o] = Meta(n)
NoteMixed == mixed' = mixed \cup {n \in Names : SharedMeta(n)'}

UploadTurn(u) ==
    /\ FileUploadCallback(u) \/ TempFileUploadCallback(u) \/ Handle(u)
    /\ NoteMixed
    /\ UNCHANGED <<ceph, fetchVars, editVars, syncVars, restarts>>

ReadTurn(s) ==
    /\ ReadBegin(s) \/ ReadStep(s)
    /\ NoteMixed
    /\ UNCHANGED <<uploadVars, editVars, syncVars, restarts>>

EditTurn(s) ==
    /\ EditNew(s) \/ EditStep(s)
    /\ NoteMixed
    /\ UNCHANGED <<ceph, uploadVars, fetchVars, syncVars, restarts>>

(* The thread reads the file it uploads, in whatever state it is. *)
SyncTurn ==
    /\ SyncStep
    /\ torn' = IF ceph' # ceph THEN TornBy(scur) ELSE torn
    /\ UNCHANGED <<uploadVars, editVars, restarts, mixed>>
    /\ UNCHANGED <<rpc, rkind, rname, rbody, rpos, rout, rresp>>

Died ==
    /\ restarts < MaxRestarts
    /\ restarts' = restarts + 1
    /\ UploadReset /\ FetchReset /\ EditReset /\ SyncReset
    /\ CloseAll
    /\ UNCHANGED <<ceph, mixed>>

ServerRestart == Died /\ UNCHANGED <<fs, dirs>>

(* The pod is scheduled with a new cache volume. *)
Redeploy ==
    /\ EmptyVolume
    /\ Died
    /\ fs' = [p \in Paths |-> NoFile]
    /\ dirs' = StartupDirs

ServerNext ==
    \/ \E u \in Uploaders : UploadTurn(u)
    \/ \E s \in Readers : ReadTurn(s)
    \/ \E s \in Editors : EditTurn(s)
    \/ SyncTurn
    \/ ServerRestart
    \/ Redeploy

ServerSpec == ServerInit /\ [][ServerNext]_vars

(* Threads inside a handler keep running, so does the Ceph thread, and Ceph *)
(* is not unreachable for ever for any one file.                            *)
ServerFairness ==
    /\ \A u \in Uploaders : WF_vars(UploadTurn(u) /\ Active(u))
    /\ \A s \in Readers : WF_vars(ReadTurn(s) /\ rpc[s] # "idle")
    /\ \A s \in Editors : WF_vars(EditTurn(s) /\ epc[s] # "idle")
    /\ WF_vars(SyncTurn)
    /\ \A p \in {p \in Paths : Reachable(p)} : SF_vars(SyncTurn /\ SyncPut /\ scur = p)

ServerFairSpec == ServerSpec /\ ServerFairness

---------------------------------------------------------------------------
(* Properties *)

ServerTypeOK ==
    /\ UploadTypeOK /\ CephTypeOK /\ FetchTypeOK /\ EditTypeOK /\ SyncTypeOK
    /\ restarts \in 0 .. MaxRestarts /\ mixed \subseteq Names

(* Nobody uploaded n concurrently, or read its data file, or died, while it *)
(* was being written from Ceph.                                             *)
Undisturbed(n) == n \notin raced \cup torn

(* The data file of an undisturbed name is complete and right whenever it   *)
(* is not being written from Ceph, although GET fills the cache in place,   *)
(* two GETs may fill it at once, and uploads, DELETE and restarts run       *)
(* beside them.                                                             *)
CacheIntegrity ==
    \A n \in Names :
        Undisturbed(n) /\ ~Filling(File(n)) => fs[File(n)] \in {NoFile, Body[n]}

(* What the Ceph thread has copied of an undisturbed name is complete and   *)
(* right, although it lists, asks and reads at different times.             *)
CephIntegrity ==
    \A n \in Names : Undisturbed(n) => ceph[File(n)] \in {NoFile, Body[n]}

(* A download that reached its end delivered the named content, although    *)
(* the provider opens the file again for each chunk and the file may have   *)
(* been deleted, fetched or uploaded again between two of them.             *)
DownloadIntegrity ==
    \A s \in Readers :
        rpc[s] = "idle" /\ Serve(rkind[s]) = "stream" /\ rresp[s].data # NoFile /\ Undisturbed(rname[s])
            => rresp[s].data = Body[rname[s]]

(* Every file that stays in the cache reaches Ceph, although a failed       *)
(* upload is not retried within its pass.                                   *)
StoredIsBackedUp ==
    \A n \in {n \in Names : Reachable(File(n))} :
        file_exists(File(n)) ~> ceph[File(n)] # NoFile \/ ~file_exists(File(n))

(* Each call of the content provider brings a download closer to its end:  *)
(* unless the call ends it, it has sent more than before and still less     *)
(* than the named content - although the file the provider opens anew for   *)
(* each call may have been deleted, and fetched or uploaded again, and may  *)
(* be shorter than the offset while another GET writes it.  So httplib,     *)
(* which calls the provider until it is done or cancels, comes to an end.   *)
DownloadAdvances ==
    [][\A s \in Readers :
          rpc[s] = "stream" /\ rpc'[s] = "stream" /\ rout'[s] # rout[s] /\ Undisturbed(rname[s])
              => /\ Len(rout[s]) < Len(rout'[s])
                 /\ Len(rout'[s]) < Len(Body[rname[s]])]_vars

(* Metadata clients send: JSON parts and bodies of uploads, and patches.    *)
JsonParts(r) == {i \in DOMAIN r.parts : r.parts[i].kind = "json"}
MetaVersions == Patches \cup UNION {{r.parts[i].data : i \in JsonParts(r)} : r \in Requests}

(* c is a run of consecutive units of v; Junk may follow a plain JSON body. *)
PieceOf(c, v) ==
    \E i \in 1 .. Len(v) + 1, j \in 0 .. Len(v) :
        c \in {SubSeq(v, i, j), Append(SubSeq(v, i, j), Junk)}

(* The metadata of a name, cached or in Ceph, is (a piece of) one version   *)
(* some client sent, never a mixture of two or file content - although      *)
(* uploads write it piece by piece, PATCHes of different lengths and        *)
(* fetches from Ceph follow each other or a crash, and the Ceph thread      *)
(* copies it at any moment - unless two threads had it open at once.        *)
MetadataOneVersion ==
    \A n \in Names \ mixed : \A c \in {fs[Meta(n)], ceph[Meta(n)]} :
        c = NoFile \/ \E v \in MetaVersions : PieceOf(c, v)

---------------------------------------------------------------------------
(* What documents, comments and answers say and the code does not do. *)

(* Interface document: a file that exists is fetched from Ceph, cached and  *)
(* returned to the client - whole, also when another GET is fetching it.    *)
DownloadWhole ==
    \A s \in Readers :
        rpc[s] = "idle" /\ rkind[s] = "get" /\ rresp[s].data # NoFile
        /\ rname[s] \notin raced
            => rresp[s].data = Body[rname[s]]

(* Interface document: the metadata is written to Ceph.  s3_upload_files    *)
(* passes over a key that exists, so changed metadata never follows.        *)
MetadataReachesCeph ==
    \A n \in Names, c \in Patches :
        fs[Meta(n)] = c ~> ceph[Meta(n)] = c \/ fs[Meta(n)] # c
===========================================================================
