------------------------------ MODULE Service ------------------------------
(***************************************************************************)
(* Commands of the lilio CLI and the HTTP server that answers them: the    *)
(* path of a request chooses its handler (Handler, handleRoot,             *)
(* handleBucketsOrObjects), the handler calls the storage once or several  *)
(* times while others change it, the outcome becomes a status and a body   *)
(* (writeObjectError, deferredWriter), and the command concludes from them *)
(* what it tells its user (files.go, bucket.go, scrub.go).                 *)
(*                                                                         *)
(* The storage is the local metadata store of LilioReads and Buckets with  *)
(* each of its calls one step, and the listing of etcd too, where a        *)
(* failure is answered differently.  The chunks of an object are all there *)
(* or all gone, and the length of a body is its number of chunks.          *)
(***************************************************************************)
EXTENDS Naturals, FiniteSets

CONSTANTS
    Clients,        \* commands; a put is also the version it uploads
    CommandLines,   \* what each may be called with, [op, bucket, key]
    BucketNames, ObjectKeys,
    Size,           \* chunks of what a put uploads
    MaxTroubles,    \* bound on failing calls, broken connections and restarts
    Nobody          \* no version

ASSUME ServiceAssumption ==
    /\ Size \in [Clients -> Nat]
    /\ Nobody \notin Clients
    /\ MaxTroubles \in Nat

VARIABLES
    buckets,    \* "absent", "plain", or an encrypted one, "locked" or "unlocked"
    bare,       \* buckets with a record and no directory for their objects
    object,     \* per bucket and key, the version stored and its revision
    kept,       \* versions whose chunks are on the nodes
    line,       \* the command line of each client
    cpc,        \* where its request is
    seen,       \* the version its handler read first
    seenRev,    \* the revision it read with it
    view,       \* the version a GET delivers
    sent,       \* chunks of it written to the client
    answer,     \* the status it got, and whether its body looks complete
    committed,  \* history: versions that became the object they were put to
    absent,     \* history: clients whose object or bucket was absent at some moment
    raced,      \* history: puts whose object somebody else changed meanwhile
    blind,      \* history: puts that could not read the previous version
    troubles

bucketVars == <<buckets, bare>>
storeVars == <<bucketVars, object, kept>>
progress == <<seen, seenRev, view, sent>>
history == <<committed, absent, raced, blind>>
serviceVars == <<storeVars, line, cpc, progress, answer, history, troubles>>

Objects == BucketNames \X ObjectKeys
NoVersion == [by |-> Nobody, rev |-> 0]

Trouble == troubles < MaxTroubles /\ troubles' = troubles + 1

----------------------------------------------------------------------------
(* Requests and their handlers.                                            *)

\* The request a command makes.  "info" asks for the object of that name.
Method(l) ==
    CASE l.op \in {"put", "create", "encrypt"}        -> "PUT"
      [] l.op \in {"rm", "delete"}                    -> "DELETE"
      [] l.op \in {"unlock", "scrub"}                 -> "POST"
      [] OTHER                                        -> "GET"

\* The user interface and the metrics answer 200 to whatever method and path is
\* theirs, and so do the statistics and the health report.
IsPage(b, k) ==
    \/ b = "ui"
    \/ b = "metrics" /\ k = ""
    \/ b = "admin" /\ k \in {"stats", "health"}

\* The handlers behind a path, as parsePath cuts it.
KindOf(l) ==
    IF IsPage(l.bucket, l.key) THEN "page"
    ELSE IF l.bucket = "admin" /\ l.key = "scrub" THEN "scrub"
    ELSE IF l.key = "unlock" /\ Method(l) = "POST" THEN "unlock"
    ELSE IF l.key # "" THEN "object"
    ELSE IF l.bucket = "" THEN "root" ELSE "bucket"

Served ==
    {<<"scrub", "POST">>, <<"root", "GET">>, <<"unlock", "POST">>}
        \union ({"bucket", "object"} \X {"GET", "PUT", "DELETE"})

At(c, kind, method) ==
    cpc[c] = "sent" /\ KindOf(line[c]) = kind /\ Method(line[c]) = method

Target(c) == <<line[c].bucket, line[c].key>>
StateOf(b) == IF b \in BucketNames THEN buckets[b] ELSE "absent"
VersionOf(o) == IF o \in Objects THEN object[o] ELSE NoVersion

\* What a request is about is not there: its object, or else its bucket.
Missing(l) ==
    IF l.key = "" THEN StateOf(l.bucket) = "absent"
                  ELSE VersionOf(<<l.bucket, l.key>>).by = Nobody

GoTo(c, label) == cpc' = [cpc EXCEPT ![c] = label]

Respond(c, status, whole) ==
    /\ GoTo(c, "answered")
    /\ answer' = [answer EXCEPT ![c] = [status |-> status, whole |-> whole]]

\* jsonResponse and errorResponse.
Reply(c, status) == Respond(c, status, TRUE)

\* The connection breaks; the command sees no answer, or only a part of one.
Abort(c) == Respond(c, 0, FALSE)

\* Seeded fault: every failure is reported as absence, as an earlier version did.
StatusOfEverything(err) == 404

\* writeObjectError.
StatusOf(err) ==
    CASE err = "ErrObjectNotFound"   -> 404
      [] err = "ErrBucketNotFound"   -> 404
      [] err = "ErrRevisionMismatch" -> 409
      [] OTHER                       -> 500

Fail(c, err) == Reply(c, StatusOf(err))

\* Every command can be called, and what can be uploaded has a key of the model.
ASSUME CommandAssumption ==
    \A c \in Clients :
        /\ CommandLines[c] # {}
        /\ \A l \in CommandLines[c] :
            KindOf(l) = "object" /\ Method(l) = "PUT" => l.key \in ObjectKeys

----------------------------------------------------------------------------
(* Commands.                                                               *)

\* The request leaves.
Send(c) ==
    /\ cpc[c] = "idle"
    /\ \E l \in CommandLines[c] : line' = [line EXCEPT ![c] = l]
    /\ GoTo(c, "sent")
    /\ UNCHANGED <<storeVars, progress, answer, committed, blind, troubles>>

\* No connection, or none that lasts until the answer.
Disconnect(c) ==
    /\ cpc[c] \in {"sent", "answered"} /\ Trouble
    /\ GoTo(c, "error")
    /\ UNCHANGED <<storeVars, line, progress, answer, committed, blind>>

\* Seeded fault: whatever was answered is a success.
AcceptsAnyStatus(op) == {0, 200, 201, 204, 400, 401, 404, 405, 409, 500}

\* The statuses a command takes for success.  "health" looks at none.
Accepts(op) ==
    CASE op \in {"put", "create", "encrypt"} -> {200, 201}
      [] op = "rm"                           -> {200, 204}
      [] op = "health"                       -> {200, 404, 405, 500}
      [] OTHER                               -> {200}

\* A command ends; a broken transfer fails it too.
Conclude(c) ==
    /\ cpc[c] = "answered"
    /\ GoTo(c, IF answer[c].whole /\ answer[c].status \in Accepts(line[c].op)
               THEN "ok" ELSE "error")
    /\ UNCHANGED <<storeVars, line, progress, answer, committed, blind, troubles>>

----------------------------------------------------------------------------
(* Handlers of one step.                                                   *)

\* ServeUI, the metrics, admin/stats, admin/health.
ServePage(c) ==
    /\ cpc[c] = "sent" /\ KindOf(line[c]) = "page"
    /\ Reply(c, 200)
    /\ UNCHANGED <<storeVars, line, progress, committed, blind, troubles>>

MethodNotAllowed(c) ==
    /\ cpc[c] = "sent" /\ KindOf(line[c]) # "page"
    /\ <<KindOf(line[c]), Method(line[c])>> \notin Served
    /\ Reply(c, 405)
    /\ UNCHANGED <<storeVars, line, progress, committed, blind, troubles>>

\* ListBuckets, a scrub: the storage is not changed as far as is seen here.
ListOrScrub(c) ==
    /\ At(c, "root", "GET") \/ At(c, "scrub", "POST")
    /\ \/ Reply(c, 200) /\ UNCHANGED troubles
       \/ Reply(c, 500) /\ Trouble
    /\ UNCHANGED <<storeVars, line, progress, committed, blind>>

NewBucket(l) == IF l.op = "encrypt" THEN "unlocked" ELSE "plain"

\* Any error of the creation is a conflict, one between the record and the directory
\* included, which leaves a bucket without directory.  With a password the key is
\* installed before the store is asked.
CreateBucket(c) ==
    LET b == line[c].bucket
        Record == buckets[b] = "absent" /\ buckets' = [buckets EXCEPT ![b] = NewBucket(line[c])]
    IN  /\ At(c, "bucket", "PUT") /\ b \in BucketNames
        /\ \/ Record /\ Reply(c, 201) /\ UNCHANGED <<bare, troubles>>
           \/ Record /\ Reply(c, 409) /\ Trouble /\ bare' = bare \union {b}
           \/ /\ \/ buckets[b] # "absent" /\ UNCHANGED troubles
                 \/ Trouble
              /\ buckets' = [buckets EXCEPT ![b] =
                                IF line[c].op = "encrypt" /\ @ = "locked" THEN "unlocked" ELSE @]
              /\ Reply(c, 409) /\ UNCHANGED bare
        /\ UNCHANGED <<object, kept, line, progress, committed, blind>>

IsEmpty(b) == \A k \in ObjectKeys : VersionOf(<<b, k>>).by = Nobody

\* DeleteBucket ignores a directory it cannot list and removes it with all in it;
\* the record goes next, unless that fails or was what failed.
DeleteBlindly(c, b) ==
    /\ Trouble
    /\ object' = [o \in Objects |-> IF o[1] = b THEN NoVersion ELSE object[o]]
    /\ \/ /\ buckets' = [buckets EXCEPT ![b] = "absent"]
          /\ bare' = bare \ {b}
          /\ Reply(c, 200)
       \/ /\ bare' = bare \union {b}
          /\ Reply(c, 400) /\ UNCHANGED buckets

\* Any error of the removal is the client's fault.
DeleteBucket(c) ==
    LET b == line[c].bucket
    IN  /\ At(c, "bucket", "DELETE")
        /\ \/ /\ StateOf(b) # "absent" /\ IsEmpty(b)
              /\ buckets' = [buckets EXCEPT ![b] = "absent"]
              /\ bare' = bare \ {b}
              /\ Reply(c, 200) /\ UNCHANGED <<object, troubles>>
           \/ /\ \/ (StateOf(b) = "absent" \/ ~IsEmpty(b)) /\ UNCHANGED troubles
                 \/ Trouble
              /\ Reply(c, 400) /\ UNCHANGED <<bucketVars, object>>
           \/ StateOf(b) # "absent" /\ DeleteBlindly(c, b)
        /\ UNCHANGED <<kept, line, progress, committed, blind>>

\* One page of keys.  A directory that is not there is a bucket that is not there;
\* another failure is told apart from it in the local store, but with etcd a bucket
\* that cannot be looked up does not exist (BucketExists).
ListObjects(c) ==
    LET b == line[c].bucket
    IN  /\ At(c, "bucket", "GET")
        /\ \/ /\ StateOf(b) # "absent" /\ b \notin bare
              /\ Reply(c, 200) /\ UNCHANGED troubles
           \/ /\ StateOf(b) = "absent" \/ b \in bare
              /\ Fail(c, "ErrBucketNotFound") /\ UNCHANGED troubles
           \/ Trouble /\ (Fail(c, "error") \/ Fail(c, "ErrBucketNotFound"))
        /\ UNCHANGED <<storeVars, line, progress, committed, blind>>

\* No password: 400; any other error, a wrong password among them: 401.
Unlock(c) ==
    LET b == line[c].bucket
    IN  /\ At(c, "unlock", "POST")
        /\ \/ /\ StateOf(b) \in {"locked", "unlocked"} /\ UNCHANGED troubles
              /\ buckets' = [buckets EXCEPT ![b] = "unlocked"]
              /\ Reply(c, 200)
           \/ /\ UNCHANGED troubles
              /\ Reply(c, 400) \/ Reply(c, 401)
              /\ UNCHANGED buckets
        /\ UNCHANGED <<bare, object, kept, line, progress, committed, blind>>

----------------------------------------------------------------------------
(* PutObject.                                                              *)

\* Seeded fault: only the chunks of the previous version are taken.
ExpectedNone(o) == 0

\* The revision the commit is to replace.
Expected(o) == VersionOf(o).rev

\* The bucket is looked up, the previous version is read, and the key too.  A
\* bucket that is not there is an error like any other.
PutBegin(c) ==
    LET o == Target(c)
    IN  /\ At(c, "object", "PUT")
        /\ \/ /\ StateOf(o[1]) \in {"plain", "unlocked"}
              /\ \/ UNCHANGED <<troubles, blind>>
                    /\ seen' = [seen EXCEPT ![c] = VersionOf(o).by]
                    /\ seenRev' = [seenRev EXCEPT ![c] = Expected(o)]
                 \/ Trouble /\ blind' = blind \union {c} /\ UNCHANGED <<seen, seenRev>>
              /\ GoTo(c, "uploading")
              /\ UNCHANGED answer
           \/ /\ \/ StateOf(o[1]) \in {"absent", "locked"} /\ UNCHANGED troubles
                 \/ Trouble
              /\ Fail(c, "error")
              /\ UNCHANGED <<seen, seenRev, blind>>
        /\ UNCHANGED <<storeVars, line, view, sent, committed>>

\* The body breaks off, or a chunk misses its quorum.
PutFails(c) ==
    /\ cpc[c] = "uploading" /\ Trouble
    /\ Fail(c, "error")
    /\ UNCHANGED <<storeVars, line, progress, committed, blind>>

\* CompareAndSaveObjectMetadata; a failure may come after the fact.
PutCommit(c) ==
    LET o == Target(c)
    IN  /\ cpc[c] = "uploading"
        /\ \/ /\ object[o].rev # seenRev[c]
              /\ Fail(c, "ErrRevisionMismatch")
              /\ UNCHANGED <<object, kept, committed, troubles>>
           \/ /\ object[o].rev = seenRev[c]
              /\ \/ buckets[o[1]] = "absent" /\ UNCHANGED troubles
                 \/ o[1] \in bare /\ UNCHANGED troubles
                 \/ Trouble
              /\ Fail(c, "error")
              /\ UNCHANGED <<object, kept, committed>>
           \/ /\ object[o].rev = seenRev[c]
              /\ buckets[o[1]] # "absent" /\ o[1] \notin bare
              /\ object' = [object EXCEPT ![o] = [by |-> c, rev |-> @.rev + 1]]
              /\ kept' = kept \union {c}
              /\ committed' = committed \union {c}
              /\ \/ GoTo(c, "reclaiming") /\ UNCHANGED <<answer, troubles>>
                 \/ Trouble /\ Fail(c, "error")
        /\ UNCHANGED <<bucketVars, line, progress, blind>>

\* deleteChunks of what was replaced or removed, then the answer.
Reclaim(c) ==
    /\ cpc[c] = "reclaiming"
    /\ kept' = kept \ {seen[c]}
    /\ Reply(c, IF Method(line[c]) = "PUT" THEN 201 ELSE 204)
    /\ UNCHANGED <<bucketVars, object, line, progress, committed, blind, troubles>>

----------------------------------------------------------------------------
(* DeleteObject.                                                           *)

\* An object that is not there is deleted.
DeleteBegin(c) ==
    LET o == Target(c)
    IN  /\ At(c, "object", "DELETE")
        /\ \/ /\ VersionOf(o).by # Nobody /\ UNCHANGED troubles
              /\ seen' = [seen EXCEPT ![c] = VersionOf(o).by]
              /\ GoTo(c, "deleting")
              /\ UNCHANGED answer
           \/ /\ VersionOf(o).by = Nobody /\ UNCHANGED troubles
              /\ Reply(c, 204)
              /\ UNCHANGED seen
           \/ Trouble /\ Fail(c, "error") /\ UNCHANGED seen
        /\ UNCHANGED <<storeVars, line, seenRev, view, sent, committed, blind>>

\* Whatever version is there by now goes, the chunks of the one read are reclaimed.
DeleteCommit(c) ==
    LET o == Target(c)
    IN  /\ cpc[c] = "deleting"
        /\ \/ /\ object[o].by # Nobody /\ UNCHANGED troubles
              /\ object' = [object EXCEPT ![o] = NoVersion]
              /\ GoTo(c, "reclaiming")
              /\ UNCHANGED answer
           \/ /\ object[o].by = Nobody /\ UNCHANGED troubles
              /\ Reply(c, 204)
              /\ UNCHANGED object
           \/ Trouble /\ Fail(c, "error") /\ UNCHANGED object
        /\ UNCHANGED <<bucketVars, kept, line, progress, committed, blind>>

----------------------------------------------------------------------------
(* GET of an object.                                                       *)

\* HeadObject: its headers, Content-Length among them, are staged.
GetHead(c) ==
    LET o == Target(c)
    IN  /\ At(c, "object", "GET")
        /\ \/ /\ VersionOf(o).by # Nobody /\ UNCHANGED troubles
              /\ seen' = [seen EXCEPT ![c] = VersionOf(o).by]
              /\ GoTo(c, "head")
              /\ UNCHANGED answer
           \/ /\ VersionOf(o).by = Nobody /\ UNCHANGED troubles
              /\ Fail(c, "ErrObjectNotFound")
              /\ UNCHANGED seen
           \/ Trouble /\ Fail(c, "error") /\ UNCHANGED seen
        /\ UNCHANGED <<storeVars, line, seenRev, view, sent, committed, blind>>

\* GetObject reads the metadata again, and the key if the object is encrypted, as
\* all in its bucket are but those of a put that overlapped its creation.
GetBegin(c) ==
    LET o == Target(c)
    IN  /\ cpc[c] = "head"
        /\ \/ /\ object[o].by # Nobody /\ UNCHANGED troubles
              /\ view' = [view EXCEPT ![c] = object[o].by]
              /\ GoTo(c, "streaming")
              /\ UNCHANGED answer
           \/ /\ object[o].by = Nobody /\ UNCHANGED troubles
              /\ Fail(c, "ErrObjectNotFound")
              /\ UNCHANGED view
           \/ /\ \/ object[o].by # Nobody /\ buckets[o[1]] = "locked" /\ UNCHANGED troubles
                 \/ Trouble
              /\ Fail(c, "error")
              /\ UNCHANGED view
        /\ UNCHANGED <<storeVars, line, seen, seenRev, sent, committed, blind>>

\* The announced length of the body; what is written beyond it is an error.
Announced(c) == Size[seen[c]]

\* One chunk reaches the client, the status with the first.
GetChunk(c) ==
    /\ cpc[c] = "streaming"
    /\ sent[c] < Size[view[c]] /\ view[c] \in kept
    /\ sent[c] < Announced(c)
    /\ sent' = [sent EXCEPT ![c] = @ + 1]
    /\ UNCHANGED <<storeVars, line, cpc, seen, seenRev, view, answer, committed, blind, troubles>>

\* The next chunk is gone, or more than was announced.
Cut(c) == (view[c] \notin kept \/ sent[c] = Announced(c)) /\ UNCHANGED troubles

\* Seeded fault: the status goes out before the body and a failure just ends it.
GetStopEager(c) ==
    /\ cpc[c] = "streaming" /\ sent[c] < Size[view[c]]
    /\ Cut(c) \/ Trouble
    /\ Respond(c, 200, TRUE)
    /\ UNCHANGED <<storeVars, line, progress, committed, blind>>

\* A chunk cannot be had (no replica, no key, the client hung up) or exceeds the
\* length.  Before the first byte a status can say so.  After it the connection
\* is broken, and the client notices unless it has all the bytes it waits for.
GetStop(c) ==
    /\ cpc[c] = "streaming" /\ sent[c] < Size[view[c]]
    /\ Cut(c) \/ Trouble
    /\ IF sent[c] = 0
       THEN IF Announced(c) = 0 /\ view[c] \in kept THEN Abort(c) ELSE Fail(c, "error")
       ELSE Respond(c, 200, sent[c] = Announced(c))
    /\ UNCHANGED <<storeVars, line, progress, committed, blind>>

\* The handler returns; a body shorter than announced breaks the connection.
GetEnd(c) ==
    /\ cpc[c] = "streaming" /\ sent[c] = Size[view[c]]
    /\ Respond(c, 200, sent[c] = Announced(c))
    /\ UNCHANGED <<storeVars, line, progress, committed, blind, troubles>>

----------------------------------------------------------------------------
\* A creation or a removal that may have got as far as a bucket without directory.
HalfDone(c) ==
    LET b == line[c].bucket
    IN  \/ At(c, "bucket", "PUT") /\ b \in BucketNames /\ StateOf(b) = "absent"
        \/ At(c, "bucket", "DELETE") /\ StateOf(b) # "absent" /\ IsEmpty(b)

Forget(states) == [b \in BucketNames |-> IF states[b] = "unlocked" THEN "locked" ELSE states[b]]

\* The server dies with its handlers and forgets its keys.
Restart ==
    /\ Trouble
    /\ cpc' = [c \in Clients |-> IF cpc[c] \in {"idle", "ok", "error"} THEN cpc[c] ELSE "error"]
    /\ \/ buckets' = Forget(buckets) /\ UNCHANGED bare
       \/ \E c \in Clients :
             /\ HalfDone(c)
             /\ buckets' = Forget([buckets EXCEPT ![line[c].bucket] =
                                      IF @ = "absent" THEN NewBucket(line[c]) ELSE @])
             /\ bare' = bare \union {line[c].bucket}
    /\ UNCHANGED <<object, kept, line, progress, answer, committed, blind>>

\* An empty storage, with plain buckets that may be there already.
ServiceInit ==
    /\ buckets \in [BucketNames -> {"absent", "plain"}] /\ bare = {}
    /\ object = [o \in Objects |-> NoVersion]
    /\ kept = {}
    /\ line = [c \in Clients |-> CHOOSE l \in CommandLines[c] : TRUE]
    /\ cpc = [c \in Clients |-> "idle"]
    /\ seen = [c \in Clients |-> Nobody]
    /\ seenRev = [c \in Clients |-> 0]
    /\ view = [c \in Clients |-> Nobody]
    /\ sent = [c \in Clients |-> 0]
    /\ answer = [c \in Clients |-> [status |-> 0, whole |-> FALSE]]
    /\ committed = {} /\ absent = {} /\ raced = {} /\ blind = {}
    /\ troubles = 0

\* What happens to one command.
Serve(c) ==
    \/ Disconnect(c) \/ Conclude(c)
    \/ ServePage(c) \/ MethodNotAllowed(c) \/ ListOrScrub(c)
    \/ CreateBucket(c) \/ DeleteBucket(c) \/ ListObjects(c) \/ Unlock(c)
    \/ PutBegin(c) \/ PutFails(c) \/ PutCommit(c) \/ Reclaim(c)
    \/ DeleteBegin(c) \/ DeleteCommit(c)
    \/ GetHead(c) \/ GetBegin(c) \/ GetChunk(c) \/ GetStop(c) \/ GetEnd(c)

\* The histories look at the storage before and after every step.
Active(c) == cpc[c] \notin {"idle", "ok", "error"}

Remember ==
    /\ absent' = absent \union {c \in Clients : Active(c)' /\ (Missing(line[c]) \/ Missing(line[c])')}
    /\ raced' = raced \union {c \in Clients : /\ Active(c) /\ line[c].op = "put"
                                              /\ VersionOf(Target(c))' # VersionOf(Target(c))
                                              /\ c \notin committed' \ committed}

ServiceNext ==
    /\ (\E c \in Clients : Send(c) \/ Serve(c)) \/ Restart
    /\ Remember

ServiceSpec == ServiceInit /\ [][ServiceNext]_serviceVars

----------------------------------------------------------------------------
\* Paths that name an object and not a page of the server or a bucket.
Ordinary(l) == KindOf(l) = "object"

\* "Uploaded" is said of a body that became the object, "Deleted" of an object or a
\* bucket that was gone at some moment of the request (handlePut, handleDelete,
\* bucketDelete), whatever else happened to it.
OkIsDone ==
    \A c \in Clients :
        cpc[c] = "ok" =>
            /\ line[c].op = "put" /\ Ordinary(line[c]) => c \in committed
            /\ line[c].op = "rm" /\ Ordinary(line[c]) => c \in absent
            /\ line[c].op = "delete" /\ KindOf(line[c]) = "bucket" => c \in absent

\* "A 404 means the object is not there" (writeObjectError): whoever asks for an
\* object is told so only if it was absent at some moment of the request, and not
\* because something failed.  The listing of a bucket keeps no such promise.
NotFoundIsAbsent ==
    \A c \in Clients :
        cpc[c] = "answered" /\ Ordinary(line[c]) /\ answer[c].status = 404 => c \in absent

\* "Someone else wrote this key while this request was uploading"
\* (writeObjectError): a put is refused with 409 only then, or after it could not
\* read the version it was to replace.
ConflictIsRace ==
    \A c \in Clients :
        cpc[c] = "answered" /\ line[c].op = "put" /\ Ordinary(line[c])
            /\ answer[c].status = 409 => c \in raced \union blind

\* What "lilio get" writes to its file is a whole version, unless the object was
\* overwritten between the two reads of its metadata (handleObject, GetObject,
\* deferredWriter).
WholeUnlessReplaced ==
    \A c \in Clients :
        cpc[c] = "ok" /\ line[c].op = "get" /\ Ordinary(line[c]) =>
            /\ view[c] \in committed
            /\ sent[c] = Size[view[c]] \/ seen[c] # view[c]

\* "The client then sees a failed transfer rather than a truncated body that looks
\* like a complete one" (handleObject).
NeverTruncated ==
    \A c \in Clients :
        cpc[c] = "ok" /\ line[c].op = "get" /\ Ordinary(line[c]) => sent[c] = Size[view[c]]

=============================================================================
