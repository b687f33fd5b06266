# A verification project for FRS, the file resource server

FRS (`src/src/`, C++) is an HTTP service in front of a Ceph object store.
Clients POST files named by their md5, optionally with JSON metadata, and GET,
HEAD, PATCH and DELETE them.  The server keeps a local cache directory; a
background thread copies the cache to Ceph, and a GET of a file that is not in
the cache fetches it from Ceph.  Nothing in the program is locked, apart from
its logger: HTTP worker threads, the Ceph thread and whatever a crashed process
left behind meet in the file system only.  That is what this project models.

## Inventory

| Part | Code | State | Operations | Interacts with |
|---|---|---|---|---|
| Upload | `transfer.cpp` 36-330 | `<name>.tmp`, `<name>.metadata`, `<name>` in the cache | `FileUploadCallback`, `TempFileUploadCallback` and the receivers given to httplib | other uploads of the name, the Ceph thread (which lists `.tmp` files too), reads |
| Read | `transfer.cpp` 336-657 | the cached file | `FileGetHeadCallback` and the three handlers it calls, `TempFileDownloadCallback`, the chunk provider | Ceph, other reads that fetch the same file, delete |
| Edit | `transfer.cpp` 814-900 | metadata file, data file | `MetadataPatchCallback`, `FileDeleteCallback` | reads, uploads |
| Ceph thread | `main.cpp` 154-204 | list of files of a pass | `s3_upload_files` for `im`, then `conf`, then sleep 60 s | the cache, Ceph |
| S3 client | `ghts3client.cpp` | none of its own; Ceph's objects | `isFileExist`, `downloadFile`, `uploadFile` (others unused by the server) | Ceph, the cache |
| File helpers | `fileUtils.cpp`, `stringUtils.cpp` | open descriptors | open/write/close, rename, exists, list, `md5sum`, `mkdir -p` | the file system |
| Server process | `main.cpp` | threads | start, routes, restart | everything |
| Logger | `logMsg.cpp` | six log and six error files, last line, size | `log_string`, rotation | its own mutex |
| HTTP server | `httplib.h` 591-660, 2880-2916, 5337-5381, 5862-6624 | listening socket, job queue, one connection and read buffer per pool thread | accept, enqueue, worker loop, keep-alive, read, answer, shutdown | clients, handlers |
| Multipart parser | `httplib.h` 4288-4530 | buffer, state of the parser | `parse`, called for each piece read | the upload handlers' receivers |
| Vendored, not modelled | the rest of `httplib.h`, AWS SDK, JsonCpp, `md5.cpp` (unused) | - | - | - |

What is hard about it: check-then-act on a shared directory without a lock
(existence check / body / md5 check / rename of an upload; lookup / fetch /
write of a read; lookup / remove of a delete); files written in place, so a
concurrent reader, the Ceph thread or a crash sees half of one; bodies that
arrive in any number of pieces or end early; Ceph calls that fail, the failure
being taken for "does not exist" or ignored; a background pass that works from
an old list; below the handlers, a queue with a condition variable, connections
that carry one request after the other and may keep the rest of a body nobody
read, and delimiters that are cut in two by the network.  `PROJECT.json` lists
these as hazards at their lines.

What makes the parts correct: a data file holds the content its name promises,
and appears at once; an acknowledged upload is stored; a right upload is
accepted; a finished download is the named content; Ceph's copy is right and
every stored file gets one; metadata is one version some client sent; every
request and every connection ends; no accepted connection is lost or served
twice; a client gets the answer to its own request; the receivers of a multipart
upload get the parts the client sent, wherever the body was cut (except in its
first boundary, where the library fails).

## Modules

| Module | Models |
|---|---|
| `FrsStorage` | The cache and the helpers of `fileUtils.cpp`: `fs` (path to content), `fd` (what each thread has open), `dirs`. |
| `WriteOnceStore` | Abstract: what an upload service promises. |
| `Upload` | Both POST handlers, over `FrsStorage`. Refines `WriteOnceStore`. |
| `UploadProofs`, `UploadAccepts` | Theorems about `Upload`: integrity, acknowledgement and refinement; acceptance. |
| `S3Client` | `ceph`, and the three calls used, with failures. |
| `Fetch` | GET, HEAD, GET of metadata, GET of a temporary file. |
| `Edit` | PUT/PATCH and DELETE. |
| `CephSync` | The Ceph thread. |
| `FrsServer` | All of them together, restart and redeployment; the end-to-end properties. |
| `ServerProofs`, `MetadataProofs` | Theorems about `FrsServer`: data files, downloads and Ceph; metadata. |
| `Logger` | `log_init`, `log_string` and the rotation of both rings of files, independent of the rest. |
| `LoggerProofs`, `LoggerOrder` | Theorems about `Logger`: types and sizes; what the rings of files tell. |
| `Multipart` | httplib's multipart parser and the loop that feeds it: the source of the pieces `Upload` receives. |
| `MultipartProofs` | Theorems about `Multipart`. |
| `HttpServer` | httplib's listener, thread pool, keep-alive connections and socket stream, with clients; a handler is one step from request to answer. |
| `HttpProofs` | Theorems about `HttpServer`. |
| `MCUpload`, `MCServer`, `MCLogger`, `MCMultipart`, `MCHttp` | Instances for TLC. |

### Correspondence

*Names and paths.*  A name is one `<apptype>/<restype>/<filename>` or
`temp/<filename>`; `File(n)`, `Tmp(n)`, `Meta(n)` are its paths
(`transfer.cpp` 51-54).  A content is a sequence of units.  `Body[n]` is the
content whose md5 is the file name: md5 is taken as collision free.  Requests
that name a `.tmp` file directly are not modelled.

*Files.*  Each helper opens, writes and closes; the open (with its truncation)
and the write are separate steps, everything else in a helper is one.  `fd[s]`
follows the inode: a rename takes open descriptors along, an unlink detaches
them.  So an upload that opened `.tmp` before another renamed it writes into the
other's data file, as on Linux.  One `fwrite` of a piece is one write.

*Upload.*  `UploadBegin` is the handler up to the body (`mkdir -p`, existence
check, 400/-2).  `OpenPiece` with `AppendPiece`/`OverwritePiece` is one call of
a receiver: multipart octet parts append to `.tmp`, plain octet bodies truncate
it, JSON truncates `.metadata`; the length of the piece is arbitrary.  A plain
JSON body is passed as a C string that nothing terminates, so a unit `Junk` may
follow it.  `MissBoundary` is the first case of httplib's parser: reads that cut
the boundary in front of one or more leading parts lose these parts before a
receiver is called (`httplib.h` 4308).  `EndBody` may come before the body's end (the handler ignores what
`content_reader` returns).  `CheckMd5` and `RenameAndReply` are the two last
steps; `md5sum` reads the file in one step.

*Read.*  `Lookup`, `AskCeph` (HEAD object), `Download` (GET object),
`OpenLocal`, `FillUnit`, `FillDone` (the stream written to the final path),
`CheckLocal`, then `StreamChunk` per call of the provider or `SendMetadata`.
A client that closes the connection during a download is not modelled: it ends
the handler and touches no state.

*Ceph thread.*  `SyncList` lists a bucket's directory in one step, the order of
the files is arbitrary, `SyncKeep`/`SyncMissing` is `isFileExist`,
`SyncPut`/`SyncPutFails` is `uploadFile`, which sends the file as it is at that
moment.  `SyncPassDone` goes to the other bucket; the sleep takes no time.

*Server.*  Restart closes all descriptors, forgets all threads and keeps the
files; `Redeploy` also empties the cache (a new volume), Ceph stays.

*Logger.*  `log_string` holds a mutex and `log_init` runs before any thread, so
one call at a time is modelled, but with one step per `remove`, `rename` and
`fopen` of a rotation (`FindFile`, `RemovePrev`, `RenameNext`, `OpenFile` or
`OpenFails`, first for the log, then for the errors), because the process may
die between any two of them (`Die`).  A line has length one.  `main` logs one
line before `log_init`; it reaches no file.  All levels are logged, since
nothing calls `log_set_level`.  `move_err_file` is the code of `move_log_file`
over the other ring: the same actions model both, with `ring` as their argument.

*Multipart.*  A body is a sequence of symbols: carriage return, line feed and
dash, the symbols of the boundary and of contents, and one symbol for a whole
header line.  `ReadPiece` is one read of any length followed by a call of
`parse`; one action per case of its `switch` (`InitialBoundary`, `NewEntry`,
`Headers`, `HeaderLine`, `PartBody`, `BoundaryEnd`), one step per turn of the
loop.  `parts` is what the two receivers were given.  A body in `Bodies` has its text,
the parts it stands for and, if it is `plain`, the offsets `at` of each part in
the text: `WellWritten` says what clients write (a first boundary nothing before
it looks like, header lines httplib knows and an empty line, a content in which
the delimiter does not occur, the delimiter, and at the end two dashes and
perhaps a line end); `MultipartAssumption` asks it of plain bodies, and TLC
evaluates it for those of the run.  Other bodies may be anything.  The receivers of FRS never
return false.  `Upload` takes from this that a part comes in pieces of any
length, in order, that an empty part is delivered once, and that the parts in
front of which a boundary was missed are not delivered.

*HTTP server.*  `Accept`, `Enqueue` (under the mutex) and `NotifyOne` (after
it) are `listen_internal` and `enqueue`; an error of `accept` other than
`EMFILE`, `EINTR` or `EAGAIN` ends the loop (`AcceptFails`), and `Shutdown`,
`NotifyAll` and `Join` follow.  A thread checks the queue and goes to sleep
(`Sleep`) in one step, since `wait` gives up the mutex atomically; it may wake
for no reason.  A request is a head and a body of units; a head comes whole, and
a unit that is read where a head is expected is a line that is no request
(400).  `Buffers`/`TakeFirst` is `SocketStream::read`: the buffer is filled with
what has come, belongs to one request and is thrown away with its rest.  A body
is read for the methods that expect one (`Expecting`: POST, PUT, PATCH, DELETE),
not for a GET or HEAD that carries one, nor for a head that is answered with an
error at once (`Refused`: a URI too long, a Range that cannot be read).  Of
these the upload handlers (`Uploads`) may also refuse without reading.  A body
is read to its end, until the receiver stops at something it cannot parse
(`ReadPiece`), or until nothing comes any more; in each case the request is
answered and the connection stays open.
Clients ask again only after an answer.  `svr_sock_` is never `INVALID_SOCKET`,
as nothing calls `Server::stop` and an error of `accept` does not reset it.

*History variables*, read by no action: `raced` (names of which two uploads
were ever open at once), `torn` (names whose data file was read, uploaded to
Ceph or left by a crash while half written from Ceph), `ufresh` (no `.tmp` when
the upload began), `ulost` (a boundary of the upload was missed), `mixed` (names whose metadata two threads had open for
writing at once), in the parser `lost` (the first boundary came in two pieces),
in the HTTP server `left` (connections on which some of a body was never read)
and `wrong` (connections that got an answer to something they had not asked),
and in the logger `gapped`
(rings a crash left half moved) and `split` (a crash or a failed open came
between the two rings).  They say exactly when the guarantees below hold; without
them the properties fail, and the violation runs show how.

## Runs

Passing:

* `upload`: two workers, three uploads, two names (one temporary), six requests:
  a multipart body with a part that is skipped, the right content and metadata;
  a multipart body with an empty part and a wrong content; plain octet, plain
  JSON and empty bodies.  Any cut into pieces, any early end, any crash.
  Checks the type invariant, `FileIntegrity`, `AckedUploadIsStored`,
  `WellFormedAccepted`, the action property `AckCommits` (each 200 is given in
  the step that makes the data file appear, so no upload is acknowledged for
  what another one stored) and the refinement `ImplementsStore`.  Three uploads
  are enough for an overlap of two after a first one left its `.tmp`.  The bound on
  uploads ends the behaviours, so deadlock is not checked here.
* `server`: two uploads, two GETs, a DELETE, the Ceph thread and a restart that
  may lose the cache, over one name: `CacheIntegrity`, `CephIntegrity`,
  `DownloadIntegrity`, as long as the name is undisturbed, and the action
  property `DownloadAdvances`: a call of the content provider ends the download
  or brings it closer to its end, also when a DELETE and another GET have made
  the file shorter than the offset it has reached.  The second upload
  matters on the new volume: only then does the directory exist into which a GET
  fetches.  Readers are interchangeable and reduced by symmetry; answers already
  given are left out of the states that are compared (`MCDataView`), as no guard
  looks at them; states in which the name is disturbed are not followed.
* `metadata`: upload with metadata in pieces, two threads that PATCH it (with one
  unit or two) and DELETE it, GET of the metadata and the Ceph thread:
  `MetadataOneVersion`, with the same reductions.  HEAD is left out: it breaks
  the property (`head_data`).
* `backup`: a persistent and a temporary name, an upload, a GET, a DELETE, a
  restart: `ServerTypeOK`, and `StoredIsBackedUp` under fairness, without any
  reduction.
* `multipart`: eight bodies, in every cut into pieces and cut off anywhere: with
  contents that hold all of a delimiter but its last symbol, end like one
  begins or are empty, a preamble that looks like a boundary; unknown and overlong headers,
  garbage after a boundary, an epilogue, no part at all.  `PartsFaithful`,
  `WholeBodyParsed` (both unless the first boundary was cut in two) and
  `ParseEnds`.  A request ends, so deadlock is not checked.
* `http`: two threads, two connections, a download that closes its connection
  and an upload that does not, two requests to a connection, a buffer of two
  units: `ServedOnce`, `JobsHaveThreads`, `AnswersMatch`, and `ConnectionsEnd` and
  `ListenReturns` under fairness.  Two jobs for two threads are enough for a
  wake-up to get lost, two requests for an answer to go astray and for the count
  to run out; a buffer of two units holds a head with all, or none, of its body.
  A body has one unit and no head is refused for itself here; longer bodies,
  which a receiver may stop half way, and such heads are covered by the proof.
  After `listen` has returned nothing happens, so deadlock is not checked.
* `logger`: rings of three files, two lines to a file, three starts, four lines
  of two texts and two levels: `RingsInOrder` and `LogKeepsLatest` (unless a
  crash fell into the moving of files, after which both fail), `LogFileBounded`
  (always), `ErrorsMatchLog` (unless the rings were rotated differently) and
  `NoRepeatedLine`.  The bounds let a ring fill and move more than once.

Violations, each a finding in `PROJECT.json`:

* `upload_race`: two uploads of a name share `.tmp`; a wrong content is stored.
* `upload_retry`: a left `.tmp` makes every later right upload fail.
* `torn_read`: a GET delivers the half another GET has written.
* `head_data`: HEAD stores file content as metadata.
* `patch_sync`: changed metadata never reaches Ceph, under full fairness.

Known from the model and not kept as runs: a plain octet-stream body that
arrives in two pieces is truncated between them and refused, although
`transfer.cpp` 68 allows such bodies; a multipart body whose first boundary is
cut by a read loses its first part (`httplib.h` 4308, `MissBoundary`), so a right
upload may be refused; after a refused upload the rest of its body is taken for the next request; two PATCHes that have the
metadata open at once leave a mixture; DELETE leaves the object in Ceph
(`transfer.cpp` 893 says "delete file on cache and ceph"), from where a GET
brings the file back; a second concurrent DELETE is
answered with an empty 200; an empty file cannot be downloaded; on a new volume
an object of Ceph cannot be cached because its directory is missing; a JSON
part in two pieces keeps only its last one; a GET of the metadata can replace
metadata saved since it looked; a failed HEAD request lets the Ceph thread
replace a good object by a half fetched file.

### Bounds and fairness

Contents have up to two units and chunks one, so that a file has a proper
prefix and a download has two chunks.  `MaxUploads` and `MaxRestarts` are the
only bounds on behaviours.  Weak fairness of a worker inside a handler: threads
are scheduled and every read of a socket or of Ceph has a timeout (httplib's
read timeout, `connectTimeoutMs`/`requestTimeoutMs`).  Nothing forces a client
to send a request, or to go on with one: in `HttpServer` a thread of the pool is
weakly fair since each wait for a client ends by itself (`keep_alive` after 20
s, a read or a write after 5 s), the listener is so once it has accepted, but no
connection need ever come, and the spurious wake-ups are not fair.  `parse` is
plain code (weak fairness).  The Ceph thread loops for ever (weak fairness), and
`SyncPut` is strongly fair for each file of a bucket: Ceph is not unreachable each time the
file's turn comes.

Every property has a mutant: an operator next to the one it replaces
(`X_Something`), a plausible slip in that code, under which TLC finds the
property violated.

## Proofs

Every safety property the passing runs check is proved for every value of the
constants: any number of names, threads, requests, contents, restarts, lines,
connections, parts and boundaries.  The assumptions are the named ones of the
modules (`StorageAssumption`, `UploadAssumption`, `FetchAssumption`,
`EditAssumption`, `ServerAssumption`, `LoggerAssumption`, `MultipartAssumption`,
`HttpAssumption`), which TLC evaluates in the runs.  Each proof has one inductive
invariant, which TLC checked before it was proved, one lemma per action and
frame lemmas for what an action leaves alone.

**`UploadProofs`**: `UploadTypeCorrect` (`UploadTypeOK`), `UploadKeepsIntegrity`
(`FileIntegrity`), `UploadAckIsStored` (`AckedUploadIsStored`),
`UploadImplementsStore` (`ImplementsStore`) and `UploadAckCommits`
(`AckCommits`), from `UploadInv`.
`FileIntegrity` alone is not inductive.  The rename commits `.tmp`, so one must
know that its content is still what the md5 check saw (`CheckedStaysTrue`); that
needs that nobody else writes it, which is so because a second upload of the
name makes the name `raced` (`OverlapIsRaced`) and because only a handler in the
middle of a piece of its own name holds a file open (`OpenFileOfOwnName`) - the
descriptor may even have become the data file's, but only of a raced name.  An
acknowledged upload is stored since, at its rename, either `.tmp` is there or a
faster upload has put the data file there (`RenameIsBacked`), and nothing in the
upload path removes a data file.  For the refinement, a step either leaves all
data files alone, or is a rename that makes one appear with the right content
(`Put`), or makes a name raced, about which the abstract store then says
nothing (`Void`).

**`UploadAccepts`**: `UploadAcceptsWellFormed` (`WellFormedAccepted`), from
`AcceptInv`.  What `.tmp` holds, the piece about to be appended and what is
still to come of the only octet part make up the content of the name
(`Accounted`), at every step of the receivers; so `.tmp` is that content when
the body has ended.  It holds for uploads that found no `.tmp`, whose name is
not raced and whose first boundary came in one read (otherwise `ulost`).

**`ServerProofs`**: `ServerTypeCorrect` (`ServerTypeOK`), `ServerCacheIntegrity`,
`ServerCephIntegrity`, `ServerDownloadIntegrity` and `ServerDownloadAdvances`
(`DownloadAdvances`), from `ServerInv`.  A GET that
misses the cache fills the file at its final path, and several may do so at
once, each truncating what another has written; one that goes on after the
truncation leaves a hole.  While a data file is filled it holds right units and
holes only, and one of those filling it has right units all the way up to its
position: the one that opened it last (`DataRight`, `FilledBy`).  When it is
done the file is whole, and what the others still write are units that are there
already.  The rest of `ServerInv` says who may have which file open
(`FdsOwned`), that edits never touch `.tmp` (`EditPaths`), what has passed the
md5 check (`CheckedIsRight`) and what a reader has fetched and streamed
(`ReaderRight`).  A download advances since a file, whole or being filled, is
never longer than the named content (`DataNotLonger`).  All of it is about undisturbed names.

**`MetadataProofs`**: `MetadataStaysOneVersion` (`MetadataOneVersion`), from
`MetaInv`, under the hypothesis `"head" \notin ReadKinds`: with HEAD the property
is false, as the run `head_data` shows.  A metadata file of a name that is not
`mixed` has one writer, and is empty or holds what this writer wrote so far
(`MetaFile`); what is about to be written is a piece of one version, be it the
piece of an upload, the body of a PATCH or what a GET fetched from Ceph.

**`LoggerProofs`**: `LoggerTypeCorrect` (`LoggerTypeOK`) and `LoggerBounded`
(`LogFileBounded`), for rings of at least two files, from `LoggerInv`.
The bound needs
that the count covers what the open file holds (`OpenLogCounted`), which a
rotation establishes only because the file it opens for appending is new
(`OpenedIsNew`): it is the first free one, or the last one just after it was
renamed away.  It also needs that a line is written only below the limit
(`RoomForLine`) and that the files that move are not open (`ClosedInRotation`).

**`LoggerOrder`**: `LoggerRingsInOrder` (`RingsInOrder`), `LoggerKeepsLatest`
(`LogKeepsLatest`) and `LoggerNoRepeat` (`NoRepeatedLine`), from `OrderInv`;
`LoggerErrorsMatch` (`ErrorsMatchLog`), from `MatchInv`.  The order of lines
across files needs the shape of a ring: it is filled from the front, the open
file is its last, and while files move there is one gap, which moves up to the
file that is opened next (`RingShape`); a new line goes to the end of the last
file and has the highest number (`LinesNumbered`).  That the two rings match
needs how far each of them has moved at every step of the two rotations
(`LogMoving`, `ErrMoving`, `LogAhead`, `LogLonger`), that an error is in its file
before it is in the log (`ErrorFirst`), and that errors are only written when
there is a log file (`ErrNeedsLog`).

**`MultipartProofs`**: `MultipartTypeCorrect` (`MultipartTypeOK`, for all
bodies), `MultipartPartsFaithful` (`PartsFaithful`) and `MultipartWholeBody`
(`WholeBodyParsed`), from `MultipartInv`.  The buffer and what is still to be
read are the text from the parser's position on (`Window`), so a delimiter found
in the buffer is one of the text, and the first from this position.  `OnTrack`
says for each state where in the text that position is: before the first
boundary, at the head of the next part, after some of its header lines, inside
its content - of which exactly what lies behind has been passed on -, after the
delimiter, or past the end.  A delimiter that is cut in two stays in the buffer
because as many symbols are held back as it is long.  When all is read, each of
these places but the last contradicts how little the parser may leave in the
buffer (`EndReached`).  The minimum in `buf_find` is handled through
the well-foundedness of the naturals (`LeastExists`).

**`HttpProofs`**: `HttpTypeCorrect` (`HttpTypeOK`), `HttpServedOnce`
(`ServedOnce`), `HttpAnswersMatch` (`AnswersMatch`), from `HttpInv`, and
`HttpJobsHaveThreads` (`JobsHaveThreads`).  A connection is in one place at most
(`OnePlace`) and in some place just while it is accepted (`SomePlace`).  Until
some of a body was left unread, client and server agree on where a request
begins: between requests all of it or nothing is on its way (`Whole`), inside
one the unread rest of its body is in the buffer, on its way or not yet sent
(`Inside`).  `JobsHaveThreads` compares the number of queued jobs with that of
threads awake, by cases over the steps that change either; it is inductive
together with `HttpInv`, and needs `IsFiniteSet(Workers)`: the pool has
`CPPHTTPLIB_THREAD_POOL_COUNT` threads.

Only model-checked: liveness (`StoredIsBackedUp`, `ParseEnds`, `ConnectionsEnd`,
`ListenReturns`), which is out of this prover's reach.  What each theorem excludes - raced, torn and mixed names, a first
boundary cut in two, bodies left unread, crashes in the middle of a rotation -
is excluded by the property it states, for the reason the violation runs and the
list above give.

## Not modelled

Formatting, JSON and string helpers and the address lookup of `netUtils.cpp`
(pure conversions and I/O); `ErrorHandler`, `/version`; of httplib the parsing
of request lines and headers, the route matcher, ranges, chunked and compressed
bodies, its client and SSL; a full disk (every write succeeds); expiry of
temporary files, which the interface document announces and the code does not
have; the functions of `fileUtils.cpp`, `ghts3client.cpp` and `logMsg.cpp` nothing
calls.  `include/` holds the headers of the AWS SDK and of s2n and
`lib64/` their build files: more than nine tenths of the lines of the
repository, declarations of code that is linked as a library and not part of
it.  What the program uses of it is in `S3Client`.

HEAD appears in the violation run `head_data` only: with it, the metadata file
takes any content a data file has, and the state spaces of the other runs grow
past what can be checked.

## Plan

1. (done) `FrsStorage`, `Upload`, `WriteOnceStore` and its proofs; `S3Client`,
   `Fetch`, `Edit`, `CephSync`, `FrsServer`, `Logger` with their runs.
2. (done) The httplib side: `HttpServer`, `Multipart`; concurrent PATCHes
   (`MetadataOneVersion`); the larger `server` run.
3. (done) Proofs of all safety properties: the whole server, the metadata, the
   acceptance of uploads, the order of the logs, the parser, the HTTP server.
4. Action properties of the whole server: the object of an undisturbed name in
   Ceph never changes once it is there, and its data file goes only by a DELETE
   or with the volume (a file that is being filled counts as not there).
