------------------------------- MODULE Fetch -------------------------------
(***************************************************************************)
(* GET and HEAD: FileGetHeadCallback and the handlers it calls, and         *)
(* TempFileDownloadCallback (transfer.cpp).                                 *)
(*                                                                         *)
(* A resource that is not in the cache is fetched from Ceph first: HEAD     *)
(* object, GET object into memory, then write it, unit by unit, to its      *)
(* final path in the cache.  A data file is then streamed in chunks; the    *)
(* provider opens the file anew for every chunk and takes the file's size   *)
(* at that moment as the end.                                               *)
(***************************************************************************)
EXTENDS S3Client, Integers

CONSTANTS
    Readers,     \* worker threads that serve GET and HEAD
    ReadKinds,   \* which of the requests below clients send
    ChunkSize    \* units per chunk of a download

(* GET of a data file, GET of <name>.metadata, HEAD, GET of a temp file. *)
AllReadKinds == {"get", "getmeta", "head", "temp"}

ASSUME FetchAssumption ==
    /\ Readers \subseteq Slots
    /\ ReadKinds \subseteq AllReadKinds
    /\ ChunkSize \in Nat \ {0}

VARIABLES
    rpc,        \* where in the handler each reader is
    rkind,      \* the kind of request it serves
    rname,      \* the name asked for
    rbody,      \* the object fetched from Ceph, NoFile if none
    rpos,       \* how many of its units are written to the cache
    rout,       \* what was streamed to the client so far
    rresp,      \* the last response
    torn        \* history: names whose data file was read, or left behind by a
                \* crash, while it was being written from Ceph

fetchVars == <<rpc, rkind, rname, rbody, rpos, rout, rresp, torn>>

FetchPc == {"idle", "head", "get", "open", "fill", "exists", "stream", "metadata"}

(* Streamed to the end, or the JSON answer with the metadata as its data. *)
Delivered(d) == [status |-> 200, code |-> 0, data |-> d]
(* The headers promised 200 but the provider cancelled the connection. *)
Aborted == [status |-> 200, code |-> 0, data |-> NoFile]
NotFound == [status |-> 400, code |-> -4, data |-> NoFile]
Responses == [status : {200}, code : {0}, data : Contents \cup {NoFile}] \cup {NotFound}

FetchTypeOK ==
    /\ rpc \in [Readers -> FetchPc]
    /\ rkind \in [Readers -> AllReadKinds]
    /\ rname \in [Readers -> Names]
    /\ rbody \in [Readers -> Contents \cup {NoFile}]
    /\ rpos \in [Readers -> Nat]
    /\ rout \in [Readers -> Contents]
    /\ rresp \in [Readers -> Responses]
    /\ torn \in SUBSET Names

FetchIdle ==
    /\ rpc = [s \in Readers |-> "idle"]
    /\ rkind = [s \in Readers |-> "get"]
    /\ rname = [s \in Readers |-> CHOOSE n \in Names : TRUE]
    /\ rbody = [s \in Readers |-> NoFile]
    /\ rpos = [s \in Readers |-> 0]
    /\ rout = [s \in Readers |-> <<>>]
    /\ rresp = [s \in Readers |-> NotFound]

FetchInit == FetchIdle /\ torn = {}

(* The cached file the handler serves. *)
LocalPath(k, n) == IF k \in {"get", "temp"} THEN File(n) ELSE Meta(n)
Local(s) == LocalPath(rkind[s], rname[s])

(* The object it asks Ceph for: FileHeadCallback asks for the data object.  *)
Key(s) == IF rkind[s] = "getmeta" THEN Meta(rname[s]) ELSE File(rname[s])

(* The next step once the local file is there. *)
Serve(k) == IF k \in {"get", "temp"} THEN "stream" ELSE "metadata"

(* The file at path p is being written from Ceph. *)
Filling(p) == \E s \in Readers : rpc[s] = "fill" /\ fd[s] = p

TornBy(p) == IF Filling(p) /\ p[2] = "data" THEN torn \cup {p[1]} ELSE torn

FetchReply(s, r) ==
    /\ rpc' = [rpc EXCEPT ![s] = "idle"]
    /\ rresp' = [rresp EXCEPT ![s] = r]
    /\ rbody' = [rbody EXCEPT ![s] = NoFile]
    /\ rpos' = [rpos EXCEPT ![s] = 0]
    /\ rout' = [rout EXCEPT ![s] = <<>>]
    /\ UNCHANGED <<rkind, rname>>

Goto(s, l) == rpc' = [rpc EXCEPT ![s] = l]

---------------------------------------------------------------------------
(* A cached file is served at once; a temp file is never looked for in      *)
(* Ceph.                                                                    *)
Lookup(s, k, n) ==
    /\ rpc[s] = "idle"
    /\ (k = "temp") <=> (n \in TempNames)
    /\ rkind' = [rkind EXCEPT ![s] = k]
    /\ rname' = [rname EXCEPT ![s] = n]
    /\ \/ /\ file_exists(LocalPath(k, n))
          /\ Goto(s, Serve(k))
          /\ UNCHANGED rresp
       \/ /\ ~file_exists(LocalPath(k, n)) /\ k # "temp"
          /\ Goto(s, "head")
          /\ UNCHANGED rresp
       \/ /\ ~file_exists(LocalPath(k, n)) /\ k = "temp"
          /\ rresp' = [rresp EXCEPT ![s] = NotFound]
          /\ UNCHANGED rpc
    /\ UNCHANGED <<fs, fd, dirs, ceph, rbody, rpos, rout, torn>>

FileChunkedDownloadCallback(s) == "get" \in ReadKinds /\ \E n \in Names : Lookup(s, "get", n)
FileGetMetadataCallback(s) == "getmeta" \in ReadKinds /\ \E n \in Names : Lookup(s, "getmeta", n)
FileHeadCallback(s) == "head" \in ReadKinds /\ \E n \in Names : Lookup(s, "head", n)
TempFileDownloadCallback(s) == "temp" \in ReadKinds /\ \E n \in Names : Lookup(s, "temp", n)

(* s3.isFileExist *)
AskCeph(s) ==
    /\ rpc[s] = "head"
    /\ \/ TRUE \in isFileExist(Key(s)) /\ Goto(s, "get")
          /\ UNCHANGED <<rkind, rname, rbody, rpos, rout, rresp>>
       \/ FALSE \in isFileExist(Key(s)) /\ FetchReply(s, NotFound)
    /\ UNCHANGED <<fs, fd, dirs, ceph, torn>>

(* s3.downloadFile: GetObject.  On failure the cache is left alone. *)
Download(s) ==
    /\ rpc[s] = "get"
    /\ \E c \in GetObject(Key(s)) :
          /\ rbody' = [rbody EXCEPT ![s] = c]
          /\ Goto(s, IF c = NoFile THEN "exists" ELSE "open")
    /\ UNCHANGED <<fs, fd, dirs, ceph, rkind, rname, rpos, rout, rresp, torn>>

(* downloadFile opens the final path; it creates no directory. *)
OpenLocal(s) ==
    /\ rpc[s] = "open"
    /\ \/ OpenTrunc(s, Local(s)) /\ Goto(s, "fill")
       \/ OpenFailed(s, Local(s)) /\ Goto(s, "exists")
    /\ UNCHANGED <<dirs, ceph, rkind, rname, rbody, rpos, rout, rresp, torn>>

(* Mutant: the last unit is not written. *)
FillDone_Early(s) ==
    /\ rpc[s] = "fill" /\ rpos[s] + 1 >= Len(rbody[s])
    /\ CloseFd(s)
    /\ Goto(s, "exists")
    /\ UNCHANGED <<fs, dirs, ceph, rkind, rname, rbody, rpos, rout, rresp, torn>>

FillUnit(s) ==
    /\ rpc[s] = "fill" /\ rpos[s] < Len(rbody[s])
    /\ WriteFd(s, LAMBDA c : WriteAt(c, rpos[s], <<rbody[s][rpos[s] + 1]>>))
    /\ rpos' = [rpos EXCEPT ![s] = @ + 1]
    /\ UNCHANGED <<fd, dirs, ceph, rpc, rkind, rname, rbody, rout, rresp, torn>>

FillDone(s) ==
    /\ rpc[s] = "fill" /\ rpos[s] = Len(rbody[s])
    /\ CloseFd(s)
    /\ Goto(s, "exists")
    /\ UNCHANGED <<fs, dirs, ceph, rkind, rname, rbody, rpos, rout, rresp, torn>>

(* Whatever downloadFile did, the local file decides. *)
CheckLocal(s) ==
    /\ rpc[s] = "exists"
    /\ \/ /\ file_exists(Local(s)) /\ Goto(s, Serve(rkind[s]))
          /\ rbody' = [rbody EXCEPT ![s] = NoFile]
          /\ rpos' = [rpos EXCEPT ![s] = 0]
          /\ UNCHANGED <<rkind, rname, rout, rresp>>
       \/ ~file_exists(Local(s)) /\ FetchReply(s, NotFound)
    /\ UNCHANGED <<fs, fd, dirs, ceph, torn>>

(* Mutant: a file that is gone ends the stream instead of cancelling it. *)
StreamChunk_GoneIsDone(s) ==
    LET c    == fs[Local(s)]
        from == Len(rout[s])
        upto == IF Len(c) - from > ChunkSize THEN from + ChunkSize ELSE Len(c)
        sent == rout[s] \o SubSeq(c, from + 1, upto)
    IN
    /\ rpc[s] = "stream"
    /\ torn' = TornBy(Local(s))
    /\ \/ c = NoFile /\ FetchReply(s, Delivered(rout[s]))
       \/ c # NoFile /\ from >= Len(c) /\ FetchReply(s, Aborted)
       \/ c # NoFile /\ from < Len(c) /\ upto = Len(c) /\ FetchReply(s, Delivered(sent))
       \/ /\ c # NoFile /\ from < Len(c) /\ upto < Len(c)
          /\ rout' = [rout EXCEPT ![s] = sent]
          /\ UNCHANGED <<rpc, rkind, rname, rbody, rpos, rresp>>
    /\ UNCHANGED <<fs, fd, dirs, ceph>>

(* Mutant: the offset is not compared with the size.  Past the end their    *)
(* unsigned difference is larger than any chunk, so chunks of whatever the  *)
(* buffer holds follow each other for ever (the model stops counting them   *)
(* once they are longer than any content of the file).                      *)
StreamChunk_NoOffsetCheck(s) ==
    LET c    == fs[Local(s)]
        from == Len(rout[s])
        upto == IF Len(c) - from > ChunkSize THEN from + ChunkSize ELSE Len(c)
        sent == rout[s] \o SubSeq(c, from + 1, upto)
    IN
    /\ rpc[s] = "stream"
    /\ torn' = TornBy(Local(s))
    /\ \/ c = NoFile /\ FetchReply(s, Aborted)
       \/ /\ c # NoFile /\ from > Len(c)
          /\ rout' = [rout EXCEPT ![s] = IF from > Len(Body[rname[s]]) THEN @ ELSE Append(@, Junk)]
          /\ UNCHANGED <<rpc, rkind, rname, rbody, rpos, rresp>>
       \/ c # NoFile /\ from <= Len(c) /\ upto = Len(c) /\ FetchReply(s, Delivered(sent))
       \/ /\ c # NoFile /\ from < Len(c) /\ upto < Len(c)
          /\ rout' = [rout EXCEPT ![s] = sent]
          /\ UNCHANGED <<rpc, rkind, rname, rbody, rpos, rresp>>
    /\ UNCHANGED <<fs, fd, dirs, ceph>>

(* One call of the content provider, offset Len(rout[s]): it cancels the    *)
(* transfer at an offset past the end, sends a chunk otherwise, and is done *)
(* after the one that reaches the end of the file as it is now.             *)
StreamChunk(s) ==
    LET c    == fs[Local(s)]
        from == Len(rout[s])
        upto == IF Len(c) - from > ChunkSize THEN from + ChunkSize ELSE Len(c)
        sent == rout[s] \o SubSeq(c, from + 1, upto)
    IN
    /\ rpc[s] = "stream"
    /\ torn' = TornBy(Local(s))
    /\ \/ c = NoFile /\ FetchReply(s, Aborted)
       \/ c # NoFile /\ from >= Len(c) /\ FetchReply(s, Aborted)
       \/ c # NoFile /\ from < Len(c) /\ upto = Len(c) /\ FetchReply(s, Delivered(sent))
       \/ /\ c # NoFile /\ from < Len(c) /\ upto < Len(c)
          /\ rout' = [rout EXCEPT ![s] = sent]
          /\ UNCHANGED <<rpc, rkind, rname, rbody, rpos, rresp>>
    /\ UNCHANGED <<fs, fd, dirs, ceph>>

(* read_from_file and the JSON answer; a file gone by now reads as empty. *)
SendMetadata(s) ==
    /\ rpc[s] = "metadata"
    /\ FetchReply(s, Delivered(IF file_exists(Local(s)) THEN fs[Local(s)] ELSE <<>>))
    /\ UNCHANGED <<fs, fd, dirs, ceph, torn>>

---------------------------------------------------------------------------
ReadStep(s) ==
    \/ AskCeph(s) \/ Download(s) \/ OpenLocal(s) \/ FillUnit(s) \/ FillDone(s)
    \/ CheckLocal(s) \/ StreamChunk(s) \/ SendMetadata(s)

ReadBegin(s) ==
    \/ FileChunkedDownloadCallback(s) \/ FileGetMetadataCallback(s)
    \/ FileHeadCallback(s) \/ TempFileDownloadCallback(s)

(* The process dies: a data file half written from Ceph stays so. *)
FetchReset ==
    /\ rpc' = [s \in Readers |-> "idle"]
    /\ rbody' = [s \in Readers |-> NoFile]
    /\ rpos' = [s \in Readers |-> 0]
    /\ rout' = [s \in Readers |-> <<>>]
    /\ rresp' = [s \in Readers |-> NotFound]
    /\ torn' = torn \cup {n \in Names : Filling(File(n))}
    /\ UNCHANGED <<rkind, rname>>
===========================================================================
