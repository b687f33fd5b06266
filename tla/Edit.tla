------------------------------- MODULE Edit -------------------------------
(***************************************************************************)
(* PUT/PATCH of a resource's metadata (MetadataPatchCallback) and DELETE    *)
(* (FileDeleteCallback) of transfer.cpp.  Both check first and act on the   *)
(* file system later, without holding anything in between.                  *)
(***************************************************************************)
EXTENDS FrsStorage, Integers

CONSTANTS
    Editors,     \* worker threads that serve PUT, PATCH and DELETE
    EditKinds,   \* which of "patch", "delete", "deletemeta" clients send
    Patches      \* metadata clients send

ASSUME EditAssumption ==
    /\ Editors \subseteq Slots
    /\ EditKinds \subseteq {"patch", "delete", "deletemeta"}
    /\ Patches \subseteq Contents

VARIABLES
    epc,        \* where in the handler each editor is
    epath,      \* the path it writes or removes
    ebody,      \* the metadata it writes
    eresp       \* the last status and code

editVars == <<epc, epath, ebody, eresp>>

EditReply(status, code) == [status |-> status, code |-> code]
(* No SetResponseMsg: httplib turns the unset status into 200, empty body. *)
Silent == [status |-> 200, code |-> 1]
Pending == [status |-> 0, code |-> 0]

EditTypeOK ==
    /\ epc \in [Editors -> {"idle", "open", "write", "remove"}]
    /\ epath \in [Editors -> Paths]
    /\ ebody \in [Editors -> Contents]
    /\ eresp \in [Editors ->
          {Pending, Silent, EditReply(200, 0), EditReply(400, -4)}]

EditInit ==
    /\ epc = [s \in Editors |-> "idle"]
    /\ epath = [s \in Editors |-> AnyPath]
    /\ ebody = [s \in Editors |-> <<>>]
    /\ eresp = [s \in Editors |-> Pending]

Answer(s, r) ==
    /\ epc' = [epc EXCEPT ![s] = "idle"]
    /\ epath' = [epath EXCEPT ![s] = AnyPath]
    /\ eresp' = [eresp EXCEPT ![s] = r]

(* Mutant: a missing file is answered 404. *)
EditBegin_Status404(s, checked, p, next) ==
    /\ epc[s] = "idle"
    /\ \/ /\ file_exists(checked)
          /\ epc' = [epc EXCEPT ![s] = next]
          /\ epath' = [epath EXCEPT ![s] = p]
          /\ eresp' = [eresp EXCEPT ![s] = Pending]
       \/ ~file_exists(checked) /\ Answer(s, EditReply(404, -4))
    /\ UNCHANGED <<fs, fd, dirs>>

(* Both handlers refuse a missing file before they start. *)
EditBegin(s, checked, p, next) ==
    /\ epc[s] = "idle"
    /\ \/ /\ file_exists(checked)
          /\ epc' = [epc EXCEPT ![s] = next]
          /\ epath' = [epath EXCEPT ![s] = p]
          /\ eresp' = [eresp EXCEPT ![s] = Pending]
       \/ ~file_exists(checked) /\ Answer(s, EditReply(400, -4))
    /\ UNCHANGED <<fs, fd, dirs>>

(* The metadata of a name is replaced when its data file is in the cache. *)
MetadataPatchCallback(s) ==
    /\ "patch" \in EditKinds
    /\ \E n \in Names \ TempNames, c \in Patches :
          /\ EditBegin(s, File(n), Meta(n), "open")
          /\ ebody' = [ebody EXCEPT ![s] = IF file_exists(File(n)) THEN c ELSE @]

(* Mutant: the old metadata is not truncated. *)
PatchOpen_NoTrunc(s) ==
    /\ epc[s] = "open"
    /\ OpenAppend(s, epath[s])
    /\ epc' = [epc EXCEPT ![s] = "write"]
    /\ UNCHANGED <<dirs, epath, ebody, eresp>>

(* write_to_file: truncate, then write and close. *)
PatchOpen(s) ==
    /\ epc[s] = "open"
    /\ OpenTrunc(s, epath[s])
    /\ epc' = [epc EXCEPT ![s] = "write"]
    /\ UNCHANGED <<dirs, epath, ebody, eresp>>

PatchWrite(s) ==
    /\ epc[s] = "write"
    /\ WriteFd(s, LAMBDA c : WriteAt(c, 0, ebody[s]))
    /\ CloseFd(s)
    /\ Answer(s, EditReply(200, 0))
    /\ ebody' = [ebody EXCEPT ![s] = <<>>]
    /\ UNCHANGED dirs

(* DELETE of <filename> or of <filename>.metadata. *)
FileDeleteCallback(s) ==
    /\ \E n \in Names \ TempNames :
          \/ "delete" \in EditKinds /\ EditBegin(s, File(n), File(n), "remove")
          \/ "deletemeta" \in EditKinds /\ EditBegin(s, Meta(n), Meta(n), "remove")
    /\ UNCHANGED ebody

(* remove() of the cached file.  Ceph is not asked; a remove() that fails   *)
(* is not answered.                                                         *)
DeleteRemove(s) ==
    /\ epc[s] = "remove"
    /\ \/ file_exists(epath[s]) /\ Remove(epath[s]) /\ Answer(s, EditReply(200, 0))
       \/ ~file_exists(epath[s]) /\ UNCHANGED <<fs, fd>> /\ Answer(s, Silent)
    /\ UNCHANGED <<dirs, ebody>>

EditStep(s) == PatchOpen(s) \/ PatchWrite(s) \/ DeleteRemove(s)
EditNew(s) == MetadataPatchCallback(s) \/ FileDeleteCallback(s)

EditReset ==
    /\ epc' = [s \in Editors |-> "idle"]
    /\ ebody' = [s \in Editors |-> <<>>]
    /\ eresp' = [s \in Editors |-> Pending]
    /\ epath' = [s \in Editors |-> AnyPath]
===========================================================================
