---------------------------- MODULE FrontProofs ----------------------------
(***************************************************************************)
(* Proofs about what surrounds the storage: what a command tells its user  *)
(* (Service), and what the configuration file holds and a server makes of  *)
(* it (Startup).                                                           *)
(***************************************************************************)
EXTENDS Service, Startup, FiniteSetTheorems, SequenceTheorems, TLAPS

USE ServiceAssumption

----------------------------------------------------------------------------
(* The service: what is known of a request at each place of its handler.   *)

Labels == {"idle", "sent", "uploading", "reclaiming", "deleting", "head", "streaming",
           "answered", "ok", "error"}

ServiceTypeOK ==
    /\ buckets \in [BucketNames -> {"absent", "plain", "locked", "unlocked"}]
    /\ object \in [Objects -> [by : Clients \union {Nobody}, rev : Nat]]
    /\ kept \subseteq Clients
    /\ DOMAIN line = Clients
    /\ \A c \in Clients : line[c] \in CommandLines[c]
    /\ cpc \in [Clients -> Labels]
    /\ seen \in [Clients -> Clients \union {Nobody}]
    /\ view \in [Clients -> Clients \union {Nobody}]
    /\ seenRev \in [Clients -> Nat]
    /\ sent \in [Clients -> Nat]
    /\ answer \in [Clients -> [status : Nat, whole : BOOLEAN]]
    /\ committed \subseteq Clients /\ absent \subseteq Clients
    /\ raced \subseteq Clients /\ blind \subseteq Clients

\* What is stored under a name was committed.
StoredOK == \A o \in Objects : object[o].by # Nobody => object[o].by \in committed

\* A handler of several steps is that of an object.
HandlerOK(c) ==
    /\ cpc[c] \in {"uploading", "reclaiming", "deleting", "head", "streaming"} =>
            KindOf(line[c]) = "object" /\ Target(c) \in Objects
    /\ cpc[c] = "uploading" => Method(line[c]) = "PUT"
    /\ cpc[c] = "reclaiming" => Method(line[c]) \in {"PUT", "DELETE"}
    /\ cpc[c] = "deleting" => Method(line[c]) = "DELETE"
    /\ cpc[c] \in {"head", "streaming"} => Method(line[c]) = "GET"

\* A put that works with an old revision was overtaken, or did not see the version.
RevisionKnown(c) ==
    cpc[c] = "uploading" /\ line[c].op = "put" =>
        c \in raced \union blind \/ seenRev[c] = object[Target(c)].rev

\* Before its chunks are reclaimed and its success answered, the commit has happened.
CommitDone(c) ==
    cpc[c] = "reclaiming" =>
        /\ Method(line[c]) = "PUT" => c \in committed
        /\ Method(line[c]) = "DELETE" => c \in absent

ViewOK(c) == cpc[c] = "streaming" => view[c] \in committed

\* What a status, and a body that looks complete, say to the command.
PutTold(c, status) ==
    line[c].op = "put" /\ Ordinary(line[c]) =>
        /\ status \in {200, 201} => c \in committed
        /\ status = 409 => c \in raced \union blind
RemovalTold(c, status) ==
    /\ line[c].op = "rm" /\ Ordinary(line[c]) /\ status \in {200, 204} => c \in absent
    /\ line[c].op = "delete" /\ KindOf(line[c]) = "bucket" /\ status = 200 => c \in absent
BodyTold(c, status, whole) ==
    line[c].op = "get" /\ Ordinary(line[c]) /\ status = 200 /\ whole =>
        view[c] \in committed /\ (sent[c] = Size[view[c]] \/ seen[c] # view[c])
Told404(c, status) == Ordinary(line[c]) /\ status = 404 => c \in absent

AnswerTrue(c) ==
    /\ PutTold(c, answer[c].status)
    /\ RemovalTold(c, answer[c].status)
    /\ BodyTold(c, answer[c].status, answer[c].whole)
    /\ Told404(c, answer[c].status)

\* What a command that succeeded has told.
SuccessTrue(c) ==
    /\ line[c].op = "put" /\ Ordinary(line[c]) => c \in committed
    /\ line[c].op = "rm" /\ Ordinary(line[c]) => c \in absent
    /\ line[c].op = "delete" /\ KindOf(line[c]) = "bucket" => c \in absent
    /\ line[c].op = "get" /\ Ordinary(line[c]) =>
            view[c] \in committed /\ (sent[c] = Size[view[c]] \/ seen[c] # view[c])

ClientOK(c) ==
    /\ HandlerOK(c) /\ RevisionKnown(c) /\ CommitDone(c) /\ ViewOK(c)
    /\ cpc[c] = "answered" => AnswerTrue(c)
    /\ cpc[c] = "ok" => SuccessTrue(c)

ServiceInv == ServiceTypeOK /\ StoredOK /\ \A c \in Clients : ClientOK(c)

\* What a step of one client leaves to the others.
OthersFrame(c) ==
    /\ \A d \in Clients \ {c} :
        /\ cpc'[d] = cpc[d] /\ line'[d] = line[d] /\ answer'[d] = answer[d]
        /\ seen'[d] = seen[d] /\ seenRev'[d] = seenRev[d]
        /\ view'[d] = view[d] /\ sent'[d] = sent[d]
    /\ committed \subseteq committed' /\ committed' \subseteq committed \union {c}
    /\ blind \subseteq blind'

\* Which handler a command's request reaches.
LEMMA KindFacts ==
    ASSUME NEW l
    PROVE  /\ KindOf(l) = "bucket" => l.key = ""
           /\ KindOf(l) = "object" => l.key # ""
           /\ l.op = "put" => Method(l) = "PUT"
           /\ l.op \in {"rm", "delete"} => Method(l) = "DELETE"
           /\ l.op = "get" => Method(l) = "GET"
<1>1. /\ l.op = "put" => Method(l) = "PUT"
      /\ l.op \in {"rm", "delete"} => Method(l) = "DELETE"
      /\ l.op = "get" => Method(l) = "GET"
  BY DEF Method
<1>2. CASE IsPage(l.bucket, l.key)
  <2>1. KindOf(l) = "page"
    BY <1>2 DEF KindOf
  <2> QED BY <2>1, <1>1
<1>3. CASE ~IsPage(l.bucket, l.key) /\ l.key = ""
  <2>1. KindOf(l) # "object"
    BY <1>3 DEF KindOf
  <2> QED BY <2>1, <1>1, <1>3
<1>4. CASE ~IsPage(l.bucket, l.key) /\ l.key # ""
  <2>1. KindOf(l) # "bucket"
    BY <1>4 DEF KindOf
  <2> QED BY <2>1, <1>1, <1>4
<1> QED BY <1>2, <1>3, <1>4

LEMMA HistoryGrows ==
    ASSUME Remember
    PROVE  absent \subseteq absent' /\ raced \subseteq raced'
BY DEF Remember

\* A request is remembered as about something absent, before a step or after it.
LEMMA AbsenceNoticed ==
    ASSUME Remember, NEW c \in Clients, cpc'[c] \in {"answered", "reclaiming"},
           Missing(line[c]) \/ Missing(line[c])'
    PROVE  c \in absent'
BY DEF Remember, Active

\* A put is overtaken, or the object it is to replace is still the same.
LEMMA ChangeNoticed ==
    ASSUME Remember, NEW d \in Clients, cpc[d] = "uploading", line[d].op = "put",
           line'[d] = line[d], Target(d) \in Objects, d \notin committed' \ committed
    PROVE  d \in raced' \/ object'[Target(d)] = object[Target(d)]
<1>1. Active(d)
  BY DEF Active
<1>2. CASE VersionOf(Target(d))' = VersionOf(Target(d))
  BY <1>2 DEF VersionOf, Target
<1>3. CASE VersionOf(Target(d))' # VersionOf(Target(d))
  BY <1>1, <1>3 DEF Remember
<1> QED BY <1>2, <1>3

\* A client that does not move keeps what is known of it.
LEMMA ClientKept ==
    ASSUME ServiceTypeOK, Remember, NEW d \in Clients, ClientOK(d),
           cpc'[d] = cpc[d], line'[d] = line[d], answer'[d] = answer[d],
           seen'[d] = seen[d], seenRev'[d] = seenRev[d],
           view'[d] = view[d], sent'[d] = sent[d],
           committed \subseteq committed', blind \subseteq blind',
           d \notin committed' \ committed
    PROVE  ClientOK(d)'
<1>0. absent \subseteq absent' /\ raced \subseteq raced'
  BY HistoryGrows
<1>1. HandlerOK(d)'
  BY DEF ClientOK, HandlerOK, Target
<1>2. RevisionKnown(d)'
  <2> SUFFICES ASSUME cpc[d] = "uploading", line[d].op = "put"
               PROVE  d \in raced' \union blind' \/ seenRev[d] = object'[Target(d)].rev
    BY DEF RevisionKnown, Target
  <2>1. Target(d) \in Objects /\ (d \in raced \union blind \/ seenRev[d] = object[Target(d)].rev)
    BY DEF ClientOK, HandlerOK, RevisionKnown
  <2>2. d \in raced' \/ object'[Target(d)] = object[Target(d)]
    BY <2>1, ChangeNoticed
  <2> QED BY <2>1, <2>2, <1>0
<1>3. CommitDone(d)' /\ ViewOK(d)'
  BY <1>0 DEF ClientOK, CommitDone, ViewOK
<1>4. cpc[d] = "answered" => AnswerTrue(d)'
  <2> SUFFICES ASSUME AnswerTrue(d) PROVE AnswerTrue(d)'
    BY DEF ClientOK
  <2>1. PutTold(d, answer[d].status)' /\ RemovalTold(d, answer[d].status)'
    BY <1>0 DEF AnswerTrue, PutTold, RemovalTold, Ordinary
  <2>2. BodyTold(d, answer[d].status, answer[d].whole)' /\ Told404(d, answer[d].status)'
    BY <1>0 DEF AnswerTrue, BodyTold, Told404, Ordinary
  <2> QED BY <2>1, <2>2 DEF AnswerTrue
<1>5. cpc[d] = "ok" => SuccessTrue(d)'
  BY <1>0 DEF ClientOK, SuccessTrue, Ordinary
<1> QED BY <1>1, <1>2, <1>3, <1>4, <1>5 DEF ClientOK

\* What a response leaves, and what is to be known then.
LEMMA Responded ==
    ASSUME ServiceTypeOK, NEW c \in Clients
    PROVE  /\ \A status, whole : Respond(c, status, whole) =>
                cpc'[c] = "answered" /\ answer'[c].status = status /\ answer'[c].whole = whole
           /\ \A status : Reply(c, status) => cpc'[c] = "answered" /\ answer'[c].status = status
           /\ Fail(c, "error") => cpc'[c] = "answered" /\ answer'[c].status = 500
           /\ Fail(c, "ErrRevisionMismatch") => cpc'[c] = "answered" /\ answer'[c].status = 409
           /\ Fail(c, "ErrObjectNotFound") => cpc'[c] = "answered" /\ answer'[c].status = 404
           /\ Fail(c, "ErrBucketNotFound") => cpc'[c] = "answered" /\ answer'[c].status = 404
           /\ Abort(c) => cpc'[c] = "answered" /\ answer'[c].status = 0
<1>1. \A status, whole : Respond(c, status, whole) =>
          cpc'[c] = "answered" /\ answer'[c].status = status /\ answer'[c].whole = whole
  BY DEF Respond, GoTo, ServiceTypeOK
<1>2. \A status : Reply(c, status) => cpc'[c] = "answered" /\ answer'[c].status = status
  BY <1>1 DEF Reply
<1>3. Abort(c) => cpc'[c] = "answered" /\ answer'[c].status = 0
  BY <1>1 DEF Abort
<1>4. /\ StatusOf("error") = 500 /\ StatusOf("ErrRevisionMismatch") = 409
      /\ StatusOf("ErrObjectNotFound") = 404 /\ StatusOf("ErrBucketNotFound") = 404
  BY DEF StatusOf
<1> QED BY <1>1, <1>2, <1>3, <1>4 DEF Fail

LEMMA Answering ==
    ASSUME NEW c \in Clients, cpc'[c] = "answered", AnswerTrue(c)'
    PROVE  ClientOK(c)'
BY DEF ClientOK, HandlerOK, RevisionKnown, CommitDone, ViewOK

----------------------------------------------------------------------------
(* The steps of the service.                                               *)

\* What the steps that only answer have in common.
LEMMA FrameOfStep ==
    ASSUME ServiceTypeOK, NEW c \in Clients, Send(c) \/ Serve(c)
    PROVE  OthersFrame(c)
<1>1. CASE Send(c)
  BY <1>1 DEF Send, OthersFrame, ServiceTypeOK, GoTo, progress
<1>2. CASE Disconnect(c) \/ Conclude(c)
  BY <1>2 DEF Disconnect, Conclude, OthersFrame, ServiceTypeOK, GoTo, progress
<1>3. CASE ServePage(c) \/ MethodNotAllowed(c) \/ ListOrScrub(c)
  BY <1>3 DEF ServePage, MethodNotAllowed, ListOrScrub, OthersFrame, ServiceTypeOK, GoTo,
              progress, Reply, Respond
<1>4. CASE CreateBucket(c) \/ DeleteBucket(c)
  BY <1>4 DEF CreateBucket, DeleteBucket, DeleteBlindly, OthersFrame, ServiceTypeOK, GoTo, progress, Reply, Respond
<1>5. CASE ListObjects(c) \/ Unlock(c)
  BY <1>5 DEF ListObjects, Unlock, OthersFrame, ServiceTypeOK, GoTo, progress, Reply, Respond, Fail
<1>6. CASE PutBegin(c) \/ PutFails(c)
  BY <1>6 DEF PutBegin, PutFails, OthersFrame, ServiceTypeOK, GoTo, progress, Reply, Respond, Fail
<1>7. CASE PutCommit(c)
  BY <1>7 DEF PutCommit, OthersFrame, ServiceTypeOK, GoTo, progress, Reply, Respond, Fail
<1>8. CASE Reclaim(c)
  BY <1>8 DEF Reclaim, OthersFrame, ServiceTypeOK, GoTo, progress, Reply, Respond
<1>9. CASE DeleteBegin(c) \/ DeleteCommit(c)
  BY <1>9 DEF DeleteBegin, DeleteCommit, OthersFrame, ServiceTypeOK, GoTo, progress, Reply,
              Respond, Fail
<1>10. CASE GetHead(c) \/ GetBegin(c)
  BY <1>10 DEF GetHead, GetBegin, OthersFrame, ServiceTypeOK, GoTo, progress, Reply, Respond, Fail
<1>11. CASE GetChunk(c) \/ GetStop(c) \/ GetEnd(c)
  BY <1>11 DEF GetChunk, GetStop, GetEnd, OthersFrame, ServiceTypeOK, GoTo, progress, Reply,
               Respond, Fail, Abort
<1> QED
  BY <1>1, <1>2, <1>3, <1>4, <1>5, <1>6, <1>7, <1>8, <1>9, <1>10, <1>11 DEF Serve

\* The label and the answer of a client keep their types.
LEMMA LabelTyped ==
    ASSUME ServiceTypeOK, NEW c \in Clients, NEW label \in Labels, GoTo(c, label)
    PROVE  cpc' \in [Clients -> Labels]
BY DEF ServiceTypeOK, GoTo

LEMMA RespondTyped ==
    ASSUME ServiceTypeOK, NEW c \in Clients, NEW status \in Nat, NEW whole \in BOOLEAN,
           Respond(c, status, whole)
    PROVE  /\ cpc' \in [Clients -> Labels]
           /\ answer' \in [Clients -> [status : Nat, whole : BOOLEAN]]
<1>1. cpc' \in [Clients -> Labels]
  BY LabelTyped DEF Respond, Labels
<1>2. answer' \in [Clients -> [status : Nat, whole : BOOLEAN]]
  BY DEF ServiceTypeOK, Respond
<1> QED BY <1>1, <1>2

LEMMA ReplyTyped ==
    ASSUME ServiceTypeOK, NEW c \in Clients
    PROVE  /\ \A status \in Nat : Reply(c, status) =>
                /\ cpc' \in [Clients -> Labels]
                /\ answer' \in [Clients -> [status : Nat, whole : BOOLEAN]]
           /\ \A err : Fail(c, err) =>
                /\ cpc' \in [Clients -> Labels]
                /\ answer' \in [Clients -> [status : Nat, whole : BOOLEAN]]
<1>1. \A err : StatusOf(err) \in Nat
  BY DEF StatusOf
<1>2. \A status \in Nat : Reply(c, status) =>
          /\ cpc' \in [Clients -> Labels]
          /\ answer' \in [Clients -> [status : Nat, whole : BOOLEAN]]
  BY RespondTyped DEF Reply
<1> QED BY <1>1, <1>2 DEF Fail

\* Each variable keeps its type.
LEMMA ServiceTypeStep ==
    ASSUME ServiceTypeOK, Remember, NEW c \in Clients, Send(c) \/ Serve(c), HandlerOK(c)
    PROVE  ServiceTypeOK'
<1>0. absent' \subseteq Clients /\ raced' \subseteq Clients
  BY DEF Remember, ServiceTypeOK
<1>a. VersionOf(Target(c)).by \in Clients \union {Nobody} /\ Expected(Target(c)) \in Nat
  <2>1. VersionOf(Target(c)) \in [by : Clients \union {Nobody}, rev : Nat]
    BY DEF VersionOf, NoVersion, ServiceTypeOK
  <2> QED BY <2>1 DEF Expected
<1>1. CASE Send(c)
  BY <1>0, <1>1 DEF Send, ServiceTypeOK, storeVars, bucketVars, progress, GoTo, Labels
<1>2. CASE Disconnect(c) \/ Conclude(c)
  BY <1>0, <1>2 DEF Disconnect, Conclude, ServiceTypeOK, storeVars, bucketVars, progress, GoTo, Labels
<1>3. CASE ServePage(c) \/ MethodNotAllowed(c) \/ ListOrScrub(c)
  <2>1. Reply(c, 200) \/ Reply(c, 405) \/ Reply(c, 500)
    BY <1>3 DEF ServePage, MethodNotAllowed, ListOrScrub
  <2>2. UNCHANGED <<storeVars, line, progress, committed, blind>>
    BY <1>3 DEF ServePage, MethodNotAllowed, ListOrScrub
  <2> QED BY <1>0, <2>1, <2>2, ReplyTyped DEF ServiceTypeOK, storeVars, bucketVars, progress
<1>4. CASE CreateBucket(c)
  <2>1. Reply(c, 201) \/ Reply(c, 409)
    BY <1>4 DEF CreateBucket
  <2>2. buckets' \in [BucketNames -> {"absent", "plain", "locked", "unlocked"}]
    BY <1>4 DEF CreateBucket, NewBucket, ServiceTypeOK
  <2>3. UNCHANGED <<object, kept, line, progress, committed, blind>>
    BY <1>4 DEF CreateBucket
  <2> QED BY <1>0, <2>1, <2>2, <2>3, ReplyTyped DEF ServiceTypeOK, progress
<1>5. CASE DeleteBucket(c) \/ Unlock(c)
  <2>1. Reply(c, 200) \/ Reply(c, 400) \/ Reply(c, 401)
    BY <1>5 DEF DeleteBucket, DeleteBlindly, Unlock
  <2>2. /\ buckets' \in [BucketNames -> {"absent", "plain", "locked", "unlocked"}]
        /\ object' \in [Objects -> [by : Clients \union {Nobody}, rev : Nat]]
    BY <1>5 DEF DeleteBucket, DeleteBlindly, Unlock, NoVersion, bucketVars, ServiceTypeOK
  <2>3. UNCHANGED <<kept, line, progress, committed, blind>>
    BY <1>5 DEF DeleteBucket, Unlock
  <2> QED BY <1>0, <2>1, <2>2, <2>3, ReplyTyped DEF ServiceTypeOK, progress
<1>6. CASE ListObjects(c)
  <2>1. Reply(c, 200) \/ Fail(c, "ErrBucketNotFound") \/ Fail(c, "error")
    BY <1>6 DEF ListObjects
  <2>2. UNCHANGED <<storeVars, line, progress, committed, blind>>
    BY <1>6 DEF ListObjects
  <2> QED BY <1>0, <2>1, <2>2, ReplyTyped DEF ServiceTypeOK, storeVars, bucketVars, progress
<1>7. CASE PutBegin(c)
  <2>1. (GoTo(c, "uploading") /\ UNCHANGED answer) \/ Fail(c, "error")
    BY <1>7 DEF PutBegin
  <2>2. cpc' \in [Clients -> Labels] /\ answer' \in [Clients -> [status : Nat, whole : BOOLEAN]]
    BY <2>1, ReplyTyped, LabelTyped DEF ServiceTypeOK, Labels
  <2>3. /\ seen' \in [Clients -> Clients \union {Nobody}] /\ seenRev' \in [Clients -> Nat]
        /\ blind' \subseteq Clients
    <3>1. CASE UNCHANGED <<seen, seenRev>>
      BY <1>7, <3>1 DEF PutBegin, ServiceTypeOK
    <3>2. CASE /\ seen' = [seen EXCEPT ![c] = VersionOf(Target(c)).by]
               /\ seenRev' = [seenRev EXCEPT ![c] = Expected(Target(c))]
               /\ UNCHANGED blind
      BY <3>2, <1>a DEF ServiceTypeOK
    <3> QED BY <1>7, <3>1, <3>2 DEF PutBegin
  <2>4. UNCHANGED <<storeVars, line, view, sent, committed>>
    BY <1>7 DEF PutBegin
  <2> QED BY <1>0, <2>2, <2>3, <2>4 DEF ServiceTypeOK, storeVars, bucketVars
<1>8. CASE PutFails(c)
  BY <1>0, <1>8, ReplyTyped DEF PutFails, ServiceTypeOK, storeVars, bucketVars, progress
<1>9. CASE PutCommit(c)
  <2>1. /\ object' \in [Objects -> [by : Clients \union {Nobody}, rev : Nat]]
        /\ kept' \subseteq Clients /\ committed' \subseteq Clients
    BY <1>9 DEF PutCommit, ServiceTypeOK
  <2>2. \/ GoTo(c, "reclaiming") /\ UNCHANGED answer
        \/ Fail(c, "ErrRevisionMismatch") \/ Fail(c, "error")
    BY <1>9 DEF PutCommit
  <2>3. cpc' \in [Clients -> Labels] /\ answer' \in [Clients -> [status : Nat, whole : BOOLEAN]]
    BY <2>2, ReplyTyped, LabelTyped DEF ServiceTypeOK, Labels
  <2>4. UNCHANGED <<bucketVars, line, progress, blind>>
    BY <1>9 DEF PutCommit
  <2> QED BY <1>0, <2>1, <2>3, <2>4 DEF ServiceTypeOK, progress, bucketVars
<1>10. CASE Reclaim(c)
  <2>1. Reply(c, 201) \/ Reply(c, 204)
    BY <1>10 DEF Reclaim
  <2>2. kept' \subseteq Clients /\ UNCHANGED <<bucketVars, object, line, progress, committed, blind>>
    BY <1>10 DEF Reclaim, ServiceTypeOK
  <2> QED BY <1>0, <2>1, <2>2, ReplyTyped DEF ServiceTypeOK, progress, bucketVars
<1>11. CASE DeleteBegin(c) \/ GetHead(c)
  <2>1. \/ (GoTo(c, "deleting") \/ GoTo(c, "head")) /\ UNCHANGED answer
        \/ Fail(c, "ErrObjectNotFound") \/ Fail(c, "error") \/ Reply(c, 204)
    BY <1>11 DEF DeleteBegin, GetHead
  <2>2. cpc' \in [Clients -> Labels] /\ answer' \in [Clients -> [status : Nat, whole : BOOLEAN]]
    BY <2>1, ReplyTyped, LabelTyped DEF ServiceTypeOK, Labels
  <2>3. seen' \in [Clients -> Clients \union {Nobody}]
    BY <1>11, <1>a DEF DeleteBegin, GetHead, ServiceTypeOK
  <2>4. UNCHANGED <<storeVars, line, seenRev, view, sent, committed, blind>>
    BY <1>11 DEF DeleteBegin, GetHead
  <2> QED BY <1>0, <2>2, <2>3, <2>4 DEF ServiceTypeOK, storeVars, bucketVars
<1>12. CASE DeleteCommit(c)
  <2>1. object' \in [Objects -> [by : Clients \union {Nobody}, rev : Nat]]
    BY <1>12 DEF DeleteCommit, NoVersion, ServiceTypeOK
  <2>2. (GoTo(c, "reclaiming") /\ UNCHANGED answer) \/ Reply(c, 204) \/ Fail(c, "error")
    BY <1>12 DEF DeleteCommit
  <2>3. cpc' \in [Clients -> Labels] /\ answer' \in [Clients -> [status : Nat, whole : BOOLEAN]]
    BY <2>2, ReplyTyped, LabelTyped DEF ServiceTypeOK, Labels
  <2>4. UNCHANGED <<bucketVars, kept, line, progress, committed, blind>>
    BY <1>12 DEF DeleteCommit
  <2> QED BY <1>0, <2>1, <2>3, <2>4 DEF ServiceTypeOK, progress, bucketVars
<1>13. CASE GetBegin(c)
  <2>1. \/ GoTo(c, "streaming") /\ UNCHANGED answer
        \/ Fail(c, "ErrObjectNotFound") \/ Fail(c, "error")
    BY <1>13 DEF GetBegin
  <2>2. cpc' \in [Clients -> Labels] /\ answer' \in [Clients -> [status : Nat, whole : BOOLEAN]]
    BY <2>1, ReplyTyped, LabelTyped DEF ServiceTypeOK, Labels
  <2>3. view' \in [Clients -> Clients \union {Nobody}]
    BY <1>13 DEF GetBegin, ServiceTypeOK, HandlerOK
  <2>4. UNCHANGED <<storeVars, line, seen, seenRev, sent, committed, blind>>
    BY <1>13 DEF GetBegin
  <2> QED BY <1>0, <2>2, <2>3, <2>4 DEF ServiceTypeOK, storeVars, bucketVars
<1>14. CASE GetChunk(c)
  BY <1>0, <1>14 DEF GetChunk, ServiceTypeOK, storeVars, bucketVars
<1>15. CASE GetStop(c) \/ GetEnd(c)
  <2>1. \/ \E whole \in BOOLEAN : Respond(c, 200, whole)
        \/ Respond(c, 0, FALSE) \/ Fail(c, "error")
    BY <1>15 DEF GetStop, GetEnd, Abort
  <2>2. UNCHANGED <<storeVars, line, progress, committed, blind>>
    BY <1>15 DEF GetStop, GetEnd
  <2>3. cpc' \in [Clients -> Labels] /\ answer' \in [Clients -> [status : Nat, whole : BOOLEAN]]
    BY <2>1, ReplyTyped, RespondTyped
  <2> QED BY <1>0, <2>2, <2>3 DEF ServiceTypeOK, storeVars, bucketVars, progress
<1> QED
  BY <1>1, <1>2, <1>3, <1>4, <1>5, <1>6, <1>7, <1>8, <1>9, <1>10, <1>11, <1>12, <1>13,
     <1>14, <1>15 DEF Serve

LEMMA RestartTyped ==
    ASSUME ServiceTypeOK, Remember, Restart
    PROVE  ServiceTypeOK'
<1>0. absent' \subseteq Clients /\ raced' \subseteq Clients
  BY DEF Remember, ServiceTypeOK
<1>1. buckets' \in [BucketNames -> {"absent", "plain", "locked", "unlocked"}]
  <2> DEFINE States == [BucketNames -> {"absent", "plain", "locked", "unlocked"}]
  <2>1. \A states \in States : Forget(states) \in States
    BY DEF Forget
  <2>2. buckets \in States
    BY DEF ServiceTypeOK
  <2> DEFINE Half(c) == [buckets EXCEPT ![line[c].bucket] =
                            IF @ = "absent" THEN NewBucket(line[c]) ELSE @]
  <2>3. \A c : Half(c) \in States
    BY <2>2 DEF NewBucket
  <2>4. buckets' = Forget(buckets) \/ \E c \in Clients : buckets' = Forget(Half(c))
    BY DEF Restart
  <2> HIDE DEF States, Half
  <2>5. buckets' \in States
    BY <2>1, <2>2, <2>3, <2>4
  <2> QED BY <2>5 DEF States
<1> QED BY <1>0, <1>1 DEF Restart, ServiceTypeOK, progress, Labels

\* A step of a client keeps what is known of it.
LEMMA OwnStep ==
    ASSUME ServiceInv, Remember, NEW c \in Clients, Send(c) \/ Serve(c)
    PROVE  ClientOK(c)'
<1> USE DEF ServiceInv
<1>0. /\ ServiceTypeOK /\ ClientOK(c) /\ HandlerOK(c)
      /\ absent \subseteq absent' /\ raced \subseteq raced'
  BY HistoryGrows DEF ClientOK
<1>k. \A l : /\ KindOf(l) = "bucket" => l.key = ""
             /\ KindOf(l) = "object" => l.key # ""
             /\ l.op = "put" => Method(l) = "PUT"
             /\ l.op \in {"rm", "delete"} => Method(l) = "DELETE"
             /\ l.op = "get" => Method(l) = "GET"
  BY KindFacts
\* A status that says nothing.
<1>e. ASSUME cpc'[c] = "answered", answer'[c].status \notin {200, 201, 204, 404, 409}
      PROVE  ClientOK(c)'
  BY <1>e, Answering DEF AnswerTrue, PutTold, RemovalTold, BodyTold, Told404
<1>f. Reply(c, 405) \/ Reply(c, 500) \/ Reply(c, 400) \/ Reply(c, 401) \/ Fail(c, "error")
        \/ Abort(c) => ClientOK(c)'
  BY <1>0, <1>e, Responded
<1>1. CASE Send(c)
  <2>1. cpc'[c] = "sent"
    BY <1>0, <1>1 DEF Send, GoTo, ServiceTypeOK
  <2> QED BY <2>1 DEF ClientOK, HandlerOK, RevisionKnown, CommitDone, ViewOK
<1>2. CASE Disconnect(c)
  <2>1. cpc'[c] = "error"
    BY <1>0, <1>2 DEF Disconnect, GoTo, ServiceTypeOK
  <2> QED BY <2>1 DEF ClientOK, HandlerOK, RevisionKnown, CommitDone, ViewOK
<1>3. CASE Conclude(c)
  <2>1. cpc[c] = "answered" /\ AnswerTrue(c)
    BY <1>0, <1>3 DEF Conclude, ClientOK
  <2>2. /\ cpc'[c] \in {"ok", "error"}
        /\ cpc'[c] = "ok" => answer[c].whole /\ answer[c].status \in Accepts(line[c].op)
    BY <1>0, <1>3 DEF Conclude, GoTo, ServiceTypeOK
  <2>3. cpc'[c] = "ok" => SuccessTrue(c)
    BY <2>1, <2>2 DEF SuccessTrue, AnswerTrue, PutTold, RemovalTold, BodyTold, Accepts
  <2>4. cpc'[c] = "ok" => SuccessTrue(c)'
    BY <1>0, <1>3, <2>3 DEF SuccessTrue, Conclude, progress, Ordinary
  <2> QED BY <2>2, <2>4 DEF ClientOK, HandlerOK, RevisionKnown, CommitDone, ViewOK
<1>4. CASE ServePage(c) \/ ListOrScrub(c) \/ Unlock(c)
  <2>1. line' = line /\ KindOf(line[c]) \in {"page", "root", "scrub", "unlock"}
    BY <1>4 DEF ServePage, ListOrScrub, Unlock, At
  <2>2. Reply(c, 200) \/ Reply(c, 500) \/ Reply(c, 400) \/ Reply(c, 401)
    BY <1>4 DEF ServePage, ListOrScrub, Unlock
  <2>3. CASE Reply(c, 200)
    <3>1. cpc'[c] = "answered" /\ answer'[c].status = 200
      BY <1>0, <2>3, Responded
    <3>2. AnswerTrue(c)'
      BY <2>1, <3>1 DEF AnswerTrue, PutTold, RemovalTold, BodyTold, Told404, Ordinary
    <3> QED BY <3>1, <3>2, Answering
  <2> QED BY <1>f, <2>2, <2>3
<1>5. CASE MethodNotAllowed(c)
  BY <1>5, <1>f DEF MethodNotAllowed
<1>6. CASE CreateBucket(c)
  <2>1. line' = line /\ KindOf(line[c]) = "bucket" /\ (Reply(c, 201) \/ Reply(c, 409))
    BY <1>6 DEF CreateBucket, At
  <2>2. cpc'[c] = "answered" /\ answer'[c].status \in {201, 409}
    BY <1>0, <2>1, Responded
  <2>3. AnswerTrue(c)'
    BY <2>1, <2>2 DEF AnswerTrue, PutTold, RemovalTold, BodyTold, Told404, Ordinary
  <2> QED BY <2>2, <2>3, Answering
<1>7. CASE DeleteBucket(c)
  <2>1. line' = line /\ KindOf(line[c]) = "bucket"
    BY <1>7 DEF DeleteBucket, At
  <2>2. CASE Reply(c, 400)
    BY <2>2, <1>f
  <2>3. CASE ~Reply(c, 400)
    <3>1. /\ StateOf(line[c].bucket) # "absent" /\ Reply(c, 200)
          /\ buckets' = [buckets EXCEPT ![line[c].bucket] = "absent"]
      BY <1>7, <2>3 DEF DeleteBucket, DeleteBlindly
    <3>2. cpc'[c] = "answered" /\ answer'[c].status = 200
      BY <1>0, <3>1, Responded
    <3>3. StateOf(line[c].bucket)' = "absent"
      BY <1>0, <2>1, <3>1 DEF StateOf, ServiceTypeOK
    <3>4. Missing(line[c])'
      BY <2>1, <3>3, <1>k DEF Missing, StateOf
    <3>5. c \in absent'
      BY <3>2, <3>4, AbsenceNoticed
    <3>6. AnswerTrue(c)'
      BY <2>1, <3>2, <3>5 DEF AnswerTrue, PutTold, RemovalTold, BodyTold, Told404, Ordinary
    <3> QED BY <3>2, <3>6, Answering
  <2> QED BY <2>2, <2>3
<1>8. CASE ListObjects(c)
  <2>1. line' = line /\ KindOf(line[c]) = "bucket" /\ line[c].op # "delete"
    BY <1>8, <1>k DEF ListObjects, At
  <2>2. CASE Fail(c, "error")
    BY <2>2, <1>f
  <2>3. CASE Reply(c, 200)
    <3>1. cpc'[c] = "answered" /\ answer'[c].status = 200
      BY <1>0, <2>3, Responded
    <3>2. AnswerTrue(c)'
      BY <2>1, <3>1 DEF AnswerTrue, PutTold, RemovalTold, BodyTold, Told404, Ordinary
    <3> QED BY <3>1, <3>2, Answering
  <2>4. CASE Fail(c, "ErrBucketNotFound")
    <3>1. cpc'[c] = "answered" /\ answer'[c].status = 404
      BY <1>0, <2>4, Responded
    <3>2. AnswerTrue(c)'
      BY <2>1, <3>1 DEF AnswerTrue, PutTold, RemovalTold, BodyTold, Told404, Ordinary
    <3> QED BY <3>1, <3>2, Answering
  <2> QED BY <1>8, <2>2, <2>3, <2>4 DEF ListObjects
<1>9. CASE PutBegin(c)
  <2>1. line' = line /\ KindOf(line[c]) = "object" /\ Method(line[c]) = "PUT"
    BY <1>9 DEF PutBegin, At
  <2>2. CASE Fail(c, "error")
    BY <2>2, <1>f
  <2>3. CASE ~Fail(c, "error")
    <3>1. /\ StateOf(line[c].bucket) \in {"plain", "unlocked"} /\ GoTo(c, "uploading")
          /\ \/ seenRev' = [seenRev EXCEPT ![c] = Expected(Target(c))]
             \/ blind' = blind \union {c}
          /\ object' = object
      BY <1>9, <2>3 DEF PutBegin, Target, storeVars, bucketVars
    <3>2. cpc'[c] = "uploading"
      BY <1>0, <3>1 DEF GoTo, ServiceTypeOK
    <3>3. Target(c) \in Objects
      <4>1. line[c].bucket \in BucketNames
        BY <3>1 DEF StateOf
      <4>2. line[c].key \in ObjectKeys
        BY <1>0, <2>1, CommandAssumption DEF ServiceTypeOK
      <4> QED BY <4>1, <4>2 DEF Target, Objects
    <3>4. HandlerOK(c)'
      BY <2>1, <3>2, <3>3 DEF HandlerOK, Target
    <3>5. RevisionKnown(c)'
      BY <1>0, <2>1, <3>1, <3>3 DEF RevisionKnown, Target, Expected, VersionOf, ServiceTypeOK
    <3> QED BY <3>2, <3>4, <3>5 DEF ClientOK, CommitDone, ViewOK
  <2> QED BY <2>2, <2>3
<1>10. CASE PutFails(c)
  BY <1>10, <1>f DEF PutFails
\* The answer to a put of an object.
<1>p. ASSUME line' = line, KindOf(line[c]) = "object", Method(line[c]) = "PUT",
             cpc'[c] = "answered", answer'[c].status \in {201, 409, 500},
             answer'[c].status = 201 => c \in committed',
             answer'[c].status = 409 /\ line[c].op = "put" => c \in raced' \union blind'
      PROVE  ClientOK(c)'
  <2>1. line[c].op # "rm" /\ line[c].op # "delete" /\ line[c].op # "get"
    <3>1. Method(line[c]) # "DELETE" /\ Method(line[c]) # "GET"
      BY <1>p
    <3> QED BY <3>1, <1>k
  <2>2. AnswerTrue(c)'
    BY <1>p, <2>1 DEF AnswerTrue, PutTold, RemovalTold, BodyTold, Told404, Ordinary
  <2> QED BY <1>p, <2>2, Answering
<1>11. CASE PutCommit(c)
  <2>1. /\ line' = line /\ KindOf(line[c]) = "object" /\ Method(line[c]) = "PUT"
        /\ cpc[c] = "uploading" /\ Target(c) \in Objects /\ RevisionKnown(c)
        /\ blind' = blind
    BY <1>0, <1>11 DEF PutCommit, ClientOK, HandlerOK
  <2>2. CASE Fail(c, "error")
    BY <2>2, <1>f
  <2>3. CASE object[Target(c)].rev # seenRev[c] /\ Fail(c, "ErrRevisionMismatch")
    <3>1. cpc'[c] = "answered" /\ answer'[c].status = 409
      BY <1>0, <2>3, Responded
    <3>2. line[c].op = "put" => c \in raced \union blind
      BY <2>1, <2>3 DEF RevisionKnown
    <3> QED BY <1>0, <1>p, <2>1, <3>1, <3>2
  <2>4. CASE committed' = committed \union {c} /\ GoTo(c, "reclaiming")
    <3>1. cpc'[c] = "reclaiming"
      BY <1>0, <2>4 DEF GoTo, ServiceTypeOK
    <3>2. HandlerOK(c)' /\ CommitDone(c)'
      BY <2>1, <2>4, <3>1 DEF HandlerOK, CommitDone, Target
    <3> QED BY <3>1, <3>2 DEF ClientOK, RevisionKnown, ViewOK
  <2> QED BY <1>11, <2>2, <2>3, <2>4 DEF PutCommit
\* The answer to the removal of an object.
<1>d. ASSUME line' = line, KindOf(line[c]) = "object", Method(line[c]) = "DELETE",
             cpc'[c] = "answered", answer'[c].status \in {204, 500},
             answer'[c].status = 204 => c \in absent'
      PROVE  ClientOK(c)'
  <2>1. line[c].op \notin {"put", "get"}
    BY <1>d, <1>k
  <2>2. AnswerTrue(c)'
    BY <1>d, <2>1 DEF AnswerTrue, PutTold, RemovalTold, BodyTold, Told404, Ordinary
  <2> QED BY <1>d, <2>2, Answering
<1>12. CASE Reclaim(c)
  <2>1. /\ line' = line /\ KindOf(line[c]) = "object" /\ Method(line[c]) \in {"PUT", "DELETE"}
        /\ CommitDone(c) /\ cpc[c] = "reclaiming" /\ committed' = committed
        /\ Reply(c, IF Method(line[c]) = "PUT" THEN 201 ELSE 204)
    BY <1>0, <1>12 DEF Reclaim, ClientOK, HandlerOK
  <2>2. CASE Method(line[c]) = "PUT"
    <3>1. cpc'[c] = "answered" /\ answer'[c].status = 201
      BY <1>0, <2>1, <2>2, Responded
    <3> QED BY <1>p, <2>1, <2>2, <3>1 DEF CommitDone
  <2>3. CASE Method(line[c]) = "DELETE"
    <3>1. cpc'[c] = "answered" /\ answer'[c].status = 204
      BY <1>0, <2>1, <2>3, Responded
    <3> QED BY <1>0, <1>d, <2>1, <2>3, <3>1 DEF CommitDone
  <2> QED BY <2>1, <2>2, <2>3
<1>13. CASE DeleteBegin(c)
  <2>1. line' = line /\ KindOf(line[c]) = "object" /\ Method(line[c]) = "DELETE"
    BY <1>13 DEF DeleteBegin, At
  <2>2. CASE Fail(c, "error")
    BY <2>2, <1>f
  <2>3. CASE VersionOf(Target(c)).by # Nobody /\ GoTo(c, "deleting")
    <3>1. cpc'[c] = "deleting"
      BY <1>0, <2>3 DEF GoTo, ServiceTypeOK
    <3>2. Target(c) \in Objects
      BY <2>3 DEF VersionOf, NoVersion
    <3>3. HandlerOK(c)'
      BY <2>1, <3>1, <3>2 DEF HandlerOK, Target
    <3> QED BY <3>1, <3>3 DEF ClientOK, RevisionKnown, CommitDone, ViewOK
  <2>4. CASE VersionOf(Target(c)).by = Nobody /\ Reply(c, 204)
    <3>1. cpc'[c] = "answered" /\ answer'[c].status = 204
      BY <1>0, <2>4, Responded
    <3>2. Missing(line[c])
      BY <2>1, <2>4, <1>k DEF Missing, Target
    <3> QED BY <1>d, <2>1, <3>1, <3>2, AbsenceNoticed
  <2> QED BY <1>13, <2>2, <2>3, <2>4 DEF DeleteBegin
<1>14. CASE DeleteCommit(c)
  <2>1. /\ line' = line /\ KindOf(line[c]) = "object" /\ Method(line[c]) = "DELETE"
        /\ Target(c) \in Objects
    BY <1>0, <1>14 DEF DeleteCommit, HandlerOK
  <2>2. CASE Fail(c, "error")
    BY <2>2, <1>f
  <2>3. CASE object' = [object EXCEPT ![Target(c)] = NoVersion] /\ GoTo(c, "reclaiming")
    <3>1. cpc'[c] = "reclaiming"
      BY <1>0, <2>3 DEF GoTo, ServiceTypeOK
    <3>2. object'[Target(c)].by = Nobody
      BY <1>0, <2>1, <2>3 DEF NoVersion, ServiceTypeOK
    <3>3. Missing(line[c])'
      BY <2>1, <3>2, <1>k DEF Missing, VersionOf, Target
    <3>4. c \in absent'
      BY <3>1, <3>3, AbsenceNoticed
    <3>5. HandlerOK(c)' /\ CommitDone(c)'
      BY <2>1, <3>1, <3>4 DEF HandlerOK, CommitDone, Target
    <3> QED BY <3>1, <3>5 DEF ClientOK, RevisionKnown, ViewOK
  <2>4. CASE object[Target(c)].by = Nobody /\ Reply(c, 204)
    <3>1. cpc'[c] = "answered" /\ answer'[c].status = 204
      BY <1>0, <2>4, Responded
    <3>2. Missing(line[c])
      BY <2>1, <2>4, <1>k DEF Missing, Target, VersionOf
    <3> QED BY <1>d, <2>1, <3>1, <3>2, AbsenceNoticed
  <2> QED BY <1>14, <2>2, <2>3, <2>4 DEF DeleteCommit
\* The answer to the request of an object.
<1>g. ASSUME line' = line, KindOf(line[c]) = "object", Method(line[c]) = "GET",
             cpc'[c] = "answered", answer'[c].status \in {0, 200, 404, 500},
             answer'[c].status = 404 => c \in absent',
             answer'[c].status = 200 /\ answer'[c].whole =>
                view'[c] \in committed' /\ (sent'[c] = Size[view'[c]] \/ seen'[c] # view'[c])
      PROVE  ClientOK(c)'
  <2>1. line[c].op \notin {"put", "rm", "delete"}
    BY <1>g, <1>k
  <2>2. AnswerTrue(c)'
    BY <1>g, <2>1 DEF AnswerTrue, PutTold, RemovalTold, BodyTold, Told404, Ordinary
  <2> QED BY <1>g, <2>2, Answering
<1>15. CASE GetHead(c)
  <2>1. line' = line /\ KindOf(line[c]) = "object" /\ Method(line[c]) = "GET"
    BY <1>15 DEF GetHead, At
  <2>2. CASE Fail(c, "error")
    BY <2>2, <1>f
  <2>3. CASE VersionOf(Target(c)).by # Nobody /\ GoTo(c, "head")
    <3>1. cpc'[c] = "head"
      BY <1>0, <2>3 DEF GoTo, ServiceTypeOK
    <3>2. Target(c) \in Objects
      BY <2>3 DEF VersionOf, NoVersion
    <3>3. HandlerOK(c)'
      BY <2>1, <3>1, <3>2 DEF HandlerOK, Target
    <3> QED BY <3>1, <3>3 DEF ClientOK, RevisionKnown, CommitDone, ViewOK
  <2>4. CASE VersionOf(Target(c)).by = Nobody /\ Fail(c, "ErrObjectNotFound")
    <3>1. cpc'[c] = "answered" /\ answer'[c].status = 404
      BY <1>0, <2>4, Responded
    <3>2. Missing(line[c])
      BY <2>1, <2>4, <1>k DEF Missing, Target
    <3>3. c \in absent'
      BY <3>1, <3>2, AbsenceNoticed
    <3> QED BY <1>g, <2>1, <3>1, <3>3
  <2> QED BY <1>15, <2>2, <2>3, <2>4 DEF GetHead
<1>16. CASE GetBegin(c)
  <2>1. /\ line' = line /\ KindOf(line[c]) = "object" /\ Method(line[c]) = "GET"
        /\ Target(c) \in Objects /\ committed' = committed
    BY <1>0, <1>16 DEF GetBegin, HandlerOK
  <2>2. CASE Fail(c, "error")
    BY <2>2, <1>f
  <2>3. CASE /\ object[Target(c)].by # Nobody /\ GoTo(c, "streaming")
             /\ view' = [view EXCEPT ![c] = object[Target(c)].by]
    <3>1. cpc'[c] = "streaming" /\ view'[c] = object[Target(c)].by
      BY <1>0, <2>3 DEF GoTo, ServiceTypeOK
    <3>2. HandlerOK(c)' /\ ViewOK(c)'
      BY <2>1, <2>3, <3>1 DEF HandlerOK, ViewOK, StoredOK, Target
    <3> QED BY <3>1, <3>2 DEF ClientOK, RevisionKnown, CommitDone
  <2>4. CASE object[Target(c)].by = Nobody /\ Fail(c, "ErrObjectNotFound")
    <3>1. cpc'[c] = "answered" /\ answer'[c].status = 404
      BY <1>0, <2>4, Responded
    <3>2. Missing(line[c])
      BY <2>1, <2>4, <1>k DEF Missing, Target, VersionOf
    <3>3. c \in absent'
      BY <3>1, <3>2, AbsenceNoticed
    <3> QED BY <1>g, <2>1, <3>1, <3>3
  <2> QED BY <1>16, <2>2, <2>3, <2>4 DEF GetBegin
<1>17. CASE GetChunk(c)
  <2>1. /\ cpc'[c] = "streaming" /\ HandlerOK(c)' /\ ViewOK(c)'
    BY <1>0, <1>17 DEF GetChunk, HandlerOK, ViewOK, ClientOK, Target
  <2> QED BY <2>1 DEF ClientOK, RevisionKnown, CommitDone
<1>18. CASE GetStop(c) \/ GetEnd(c)
  <2>1. /\ line' = line /\ KindOf(line[c]) = "object" /\ Method(line[c]) = "GET"
        /\ view[c] \in committed /\ UNCHANGED <<committed, view, sent, seen>>
        /\ sent[c] \in Nat /\ Size[view[c]] \in Nat
    BY <1>0, <1>18 DEF GetStop, GetEnd, HandlerOK, ClientOK, ViewOK, progress, ServiceTypeOK
  <2>2. \/ Fail(c, "error") \/ Abort(c)
        \/ Respond(c, 200, sent[c] = Announced(c))
    BY <1>18 DEF GetStop, GetEnd
  <2>3. CASE Respond(c, 200, sent[c] = Announced(c))
    <3>1. /\ cpc'[c] = "answered" /\ answer'[c].status = 200
          /\ answer'[c].whole = (sent[c] = Announced(c))
      BY <1>0, <2>3, Responded
    <3>2. sent[c] = Size[view[c]] \/ (sent[c] = Announced(c) => seen[c] # view[c])
      BY <1>18, <2>1 DEF GetStop, GetEnd, Announced
    <3>3. answer'[c].whole => sent[c] = Size[view[c]] \/ seen[c] # view[c]
      BY <3>1, <3>2
    <3>4. answer'[c].status = 200 /\ answer'[c].whole =>
            view'[c] \in committed' /\ (sent'[c] = Size[view'[c]] \/ seen'[c] # view'[c])
      BY <2>1, <3>3
    <3>5. answer'[c].status \in {0, 200, 404, 500} /\ answer'[c].status # 404
      BY <3>1
    <3> QED BY <1>g, <2>1, <3>1, <3>4, <3>5
  <2> QED BY <1>f, <2>2, <2>3
<1> QED
  BY <1>1, <1>2, <1>3, <1>4, <1>5, <1>6, <1>7, <1>8, <1>9, <1>10, <1>11, <1>12, <1>13,
     <1>14, <1>15, <1>16, <1>17, <1>18 DEF Serve

LEMMA ServiceInvInit == ServiceInit => ServiceInv
<1> SUFFICES ASSUME ServiceInit PROVE ServiceInv
  OBVIOUS
<1>1. ServiceTypeOK
  <2>1. \A c \in Clients : line[c] \in CommandLines[c]
    BY CommandAssumption DEF ServiceInit
  <2> QED BY <2>1 DEF ServiceInit, ServiceTypeOK, NoVersion, Labels
<1>2. StoredOK
  BY DEF ServiceInit, StoredOK, NoVersion
<1>3. ASSUME NEW c \in Clients PROVE ClientOK(c)
  BY DEF ServiceInit, ClientOK, HandlerOK, RevisionKnown, CommitDone, ViewOK
<1> QED BY <1>1, <1>2, <1>3 DEF ServiceInv

LEMMA StoredKept ==
    ASSUME ServiceInv, NEW c \in Clients, Send(c) \/ Serve(c)
    PROVE  StoredOK'
<1> USE DEF ServiceInv
<1>1. CASE PutCommit(c)
  <2>1. ServiceTypeOK /\ Target(c) \in Objects
    BY <1>1 DEF PutCommit, ClientOK, HandlerOK
  <2>2. \/ UNCHANGED <<object, committed>>
        \/ /\ object' = [object EXCEPT ![Target(c)] = [by |-> c, rev |-> @.rev + 1]]
           /\ committed' = committed \union {c}
    BY <1>1 DEF PutCommit
  <2> QED BY <2>1, <2>2 DEF StoredOK, ServiceTypeOK
<1>2. CASE DeleteCommit(c)
  <2>1. ServiceTypeOK /\ Target(c) \in Objects
    BY <1>2 DEF DeleteCommit, ClientOK, HandlerOK
  <2>2. /\ committed' = committed
        /\ object' = object \/ object' = [object EXCEPT ![Target(c)] = NoVersion]
    BY <1>2 DEF DeleteCommit
  <2> QED BY <2>1, <2>2 DEF StoredOK, ServiceTypeOK, NoVersion
<1>3. CASE ~PutCommit(c) /\ ~DeleteCommit(c)
  <2>1. CASE Send(c) \/ Disconnect(c) \/ Conclude(c) \/ ServePage(c) \/ MethodNotAllowed(c)
              \/ ListOrScrub(c)
    BY <2>1 DEF Send, Disconnect, Conclude, ServePage, MethodNotAllowed, ListOrScrub, storeVars, bucketVars,
                StoredOK
  <2>2. CASE CreateBucket(c) \/ DeleteBucket(c) \/ ListObjects(c) \/ Unlock(c)
    BY <2>2 DEF CreateBucket, DeleteBucket, DeleteBlindly, NoVersion, ListObjects, Unlock, storeVars, bucketVars, StoredOK
  <2>3. CASE PutBegin(c) \/ PutFails(c) \/ Reclaim(c) \/ DeleteBegin(c)
    BY <2>3 DEF PutBegin, PutFails, Reclaim, DeleteBegin, storeVars, bucketVars, StoredOK
  <2>4. CASE GetHead(c) \/ GetBegin(c) \/ GetChunk(c) \/ GetStop(c) \/ GetEnd(c)
    BY <2>4 DEF GetHead, GetBegin, GetChunk, GetStop, GetEnd, storeVars, bucketVars, StoredOK
  <2> QED BY <1>3, <2>1, <2>2, <2>3, <2>4 DEF Serve
<1> QED BY <1>1, <1>2, <1>3

LEMMA ServiceInvStep == ServiceInv /\ [ServiceNext]_serviceVars => ServiceInv'
<1> SUFFICES ASSUME ServiceInv, [ServiceNext]_serviceVars PROVE ServiceInv'
  OBVIOUS
<1>0. ServiceTypeOK /\ StoredOK /\ \A c \in Clients : ClientOK(c)
  BY DEF ServiceInv
<1>1. ASSUME NEW c \in Clients, Send(c) \/ Serve(c), Remember PROVE ServiceInv'
  <2>1. OthersFrame(c)
    BY <1>0, <1>1, FrameOfStep
  <2>2. ASSUME NEW d \in Clients PROVE ClientOK(d)'
    <3>1. CASE d = c
      BY <1>1, <3>1, OwnStep
    <3>2. CASE d # c
      BY <1>0, <1>1, <2>1, <3>2, ClientKept DEF OthersFrame
    <3> QED BY <3>1, <3>2
  <2>3. ServiceTypeOK'
    BY <1>0, <1>1, ServiceTypeStep DEF ClientOK
  <2>4. StoredOK'
    BY <1>1, StoredKept
  <2> QED BY <2>2, <2>3, <2>4 DEF ServiceInv
<1>2. ASSUME Restart, Remember PROVE ServiceInv'
  <2>1. ServiceTypeOK'
    BY <1>0, <1>2, RestartTyped
  <2>2. StoredOK'
    BY <1>0, <1>2 DEF Restart, StoredOK
  <2>3. ASSUME NEW d \in Clients PROVE ClientOK(d)'
    <3>1. cpc'[d] = IF cpc[d] \in {"idle", "ok", "error"} THEN cpc[d] ELSE "error"
      BY <1>2 DEF Restart
    <3>2. CASE cpc'[d] = cpc[d]
      BY <1>0, <1>2, <3>2, ClientKept DEF Restart, progress
    <3>3. CASE cpc'[d] = "error"
      BY <3>3 DEF ClientOK, HandlerOK, RevisionKnown, CommitDone, ViewOK
    <3> QED BY <3>1, <3>2, <3>3
  <2> QED BY <2>1, <2>2, <2>3 DEF ServiceInv
<1>3. ASSUME UNCHANGED serviceVars PROVE ServiceInv'
  <2>1. ServiceTypeOK' /\ StoredOK'
    BY <1>0, <1>3 DEF serviceVars, storeVars, bucketVars, progress, history, ServiceTypeOK, StoredOK
  <2>2. ASSUME NEW d \in Clients PROVE ClientOK(d)'
    <3>1. HandlerOK(d)' /\ RevisionKnown(d)' /\ CommitDone(d)' /\ ViewOK(d)'
      BY <1>0, <1>3 DEF serviceVars, storeVars, bucketVars, progress, history, ClientOK, HandlerOK,
                        RevisionKnown, CommitDone, ViewOK, Target
    <3>2. (cpc'[d] = "answered" => AnswerTrue(d)') /\ (cpc'[d] = "ok" => SuccessTrue(d)')
      BY <1>0, <1>3 DEF serviceVars, progress, history, ClientOK, AnswerTrue, SuccessTrue,
                        PutTold, RemovalTold, BodyTold, Told404, Ordinary
    <3> QED BY <3>1, <3>2 DEF ClientOK
  <2> QED BY <2>1, <2>2 DEF ServiceInv
<1> QED BY <1>1, <1>2, <1>3 DEF ServiceNext

\* What a command that succeeded tells its user has happened (OkIsDone): a body
\* uploaded became the object, a deleted object or bucket was gone at some moment of
\* the request, whatever the other commands, failures and restarts did.
THEOREM SuccessIsDone == ServiceSpec => []OkIsDone
<1>1. ServiceInv => OkIsDone
  BY DEF ServiceInv, ClientOK, SuccessTrue, OkIsDone
<1> QED BY <1>1, ServiceInvInit, ServiceInvStep, PTL DEF ServiceSpec

\* Nobody who asks for an object is told 404 because something failed
\* (NotFoundIsAbsent): the object was absent while the request was served
\* (writeObjectError).  The listing of a bucket keeps no such promise.
THEOREM AbsenceIsReal == ServiceSpec => []NotFoundIsAbsent
<1>1. ServiceInv => NotFoundIsAbsent
  BY DEF ServiceInv, ClientOK, AnswerTrue, Told404, NotFoundIsAbsent
<1> QED BY <1>1, ServiceInvInit, ServiceInvStep, PTL DEF ServiceSpec

\* A put refused with 409 was overtaken, or had not been able to read the version it
\* was to replace (ConflictIsRace, writeObjectError, PutObject).
THEOREM RefusalIsRace == ServiceSpec => []ConflictIsRace
<1>1. ServiceInv => ConflictIsRace
  BY DEF ServiceInv, ClientOK, AnswerTrue, PutTold, ConflictIsRace
<1> QED BY <1>1, ServiceInvInit, ServiceInvStep, PTL DEF ServiceSpec

\* A get that succeeded wrote a whole committed version, or the object was replaced
\* between the two reads of its metadata (WholeUnlessReplaced, handleObject).
THEOREM DownloadIsWhole == ServiceSpec => []WholeUnlessReplaced
<1>1. ServiceInv => WholeUnlessReplaced
  BY DEF ServiceInv, ClientOK, SuccessTrue, WholeUnlessReplaced
<1> QED BY <1>1, ServiceInvInit, ServiceInvStep, PTL DEF ServiceSpec

----------------------------------------------------------------------------
(* The configuration: what the file and the memory of a command hold.      *)

Stages == {"idle", "start", "create", "creating", "change", "save", "saving"}

\* A text of the file, those of the program's own among them.
Texts == STRING \union {"local", "local-1", "local-2", "local-3"}
Entry == [name : Texts, type : Texts]
Typed == [rf : Int, w : Int, n : Int, wrong : SUBSET STRING, storages : Seq(Entry)]

StartupTypeOK ==
    /\ file = Absent \/ file = Garbled \/ \E cfg \in Typed : file = Whole(cfg)
    /\ step \in [Admins -> Stages]
    /\ DOMAIN command = Admins
    /\ \A a \in Admins : step[a] # "idle" => command[a] \in AdminCommands
    /\ memory \in [Admins -> Typed]
    /\ disturbed \in BOOLEAN
    /\ said.told \in BOOLEAN

\* Three copies and at least three storages, as init leaves them and add keeps them.
FromInit(cfg) == cfg.rf = 3 /\ cfg.w = 0 /\ cfg.n = 0 /\ Len(cfg.storages) >= 3

\* A configuration that is as the users were told.
AsTold(cfg) ==
    /\ NamesOf(cfg) = said.names
    /\ basis = "init" => FromInit(cfg)

FileAsTold ==
    IF said.told THEN file.state = "whole" /\ AsTold(file.cfg) ELSE file = Absent

\* What a command is about to save, and then to say.
Intended(a) ==
    \/ /\ command[a].op = "add"
       /\ NamesOf(memory[a]) = said.names \union {command[a].name}
       /\ basis = "init" => FromInit(memory[a])
    \/ /\ command[a].op = "remove"
       /\ NamesOf(memory[a]) = said.names \ {command[a].name}
    \/ /\ command[a].op \in {"init", "init --force"}
       /\ memory[a] = InitialConfig

CommandOK(a) ==
    /\ step[a] = "start" => FileAsTold
    /\ step[a] \in {"create", "creating"} =>
        ~said.told /\ memory[a] = DefaultConfig /\ command[a].op = "add"
    /\ step[a] = "change" =>
        /\ command[a].op = "add" /\ file = Whole(memory[a])
        /\ IF said.told THEN AsTold(memory[a]) ELSE memory[a] = DefaultConfig
    /\ step[a] \in {"save", "saving"} => Intended(a)

\* As long as no command overlapped another or an edit, and none was killed, the file
\* is what the commands made of it one after the other.
SerialOK ==
    ~disturbed =>
        /\ \A a, b \in Busy : a = b
        /\ dirty = {}
        /\ ~said.told => said = None /\ basis # "init"
        /\ Busy = {} => FileAsTold
        /\ \A a \in Admins : CommandOK(a)
        /\ basis = "init" /\ file.state = "whole" => FromInit(file.cfg)

ServingOK == EveryBackendOnce /\ ToleratesOneLoss

StartupInv == StartupTypeOK /\ SerialOK /\ ServingOK

\* The configurations the program makes itself.
LEMMA OwnConfigs ==
    /\ DefaultConfig \in Typed /\ NamesOf(DefaultConfig) = {}
    /\ InitialConfig \in Typed /\ FromInit(InitialConfig)
<1>1. DefaultConfig \in Typed /\ NamesOf(DefaultConfig) = {}
  BY DEF DefaultConfig, Typed, NamesOf
<1>2. InitialConfig \in Typed /\ FromInit(InitialConfig)
  <2> DEFINE s == <<Storage("local-1", "local"), Storage("local-2", "local"),
                    Storage("local-3", "local")>>
  <2>1. \A name \in Texts : Storage(name, "local") \in Entry
    BY DEF Storage, Entry, Texts
  <2>a. {"local-1", "local-2", "local-3"} \subseteq Texts
    BY DEF Texts
  <2>2. s \in Seq(Entry) /\ Len(s) = 3
    BY <2>1, <2>a
  <2>3. InitialConfig = [rf |-> 3, w |-> 0, n |-> 0, wrong |-> {}, storages |-> s]
    <3>1. InitialConfig = [DefaultConfig EXCEPT !.storages = s]
      BY DEF InitialConfig
    <3> HIDE DEF s
    <3> QED BY <3>1 DEF DefaultConfig
  <2> HIDE DEF s
  <2>4. InitialConfig \in Typed
    BY <2>2, <2>3 DEF Typed
  <2>5. /\ InitialConfig.rf = 3 /\ InitialConfig.w = 0 /\ InitialConfig.n = 0
        /\ InitialConfig.storages = s
    BY <2>3
  <2>6. Len(InitialConfig.storages) = 3
    BY <2>2, <2>5, Zenon
  <2>7. Len(InitialConfig.storages) >= 3
    BY <2>6
  <2>8. FromInit(InitialConfig)
    BY <2>5, <2>7, Zenon DEF FromInit
  <2> QED BY <2>4, <2>8
<1> QED BY <1>1, <1>2

\* AddStorage adds one name and keeps what init made.
LEMMA AddedStorage ==
    ASSUME NEW cfg \in Typed, NEW name \in STRING, NEW type \in STRING,
           NEW more, more = [cfg EXCEPT !.storages = Append(@, Storage(name, type))]
    PROVE  /\ more \in Typed /\ NamesOf(more) = NamesOf(cfg) \union {name}
           /\ FromInit(cfg) => FromInit(more)
<1> DEFINE s == cfg.storages
           t == more.storages
<1>1. /\ s \in Seq(Entry)
      /\ Storage(name, type) \in Entry
      /\ t = Append(s, Storage(name, type))
      /\ more.rf = cfg.rf /\ more.w = cfg.w /\ more.n = cfg.n
  BY DEF Typed, Storage, Entry, Texts
<1>2. /\ t \in Seq(Entry) /\ Len(t) = Len(s) + 1
      /\ \A i \in 1 .. Len(s) : t[i] = s[i]
      /\ t[Len(s) + 1] = Storage(name, type)
  BY <1>1
<1>3. more \in Typed
  BY <1>2 DEF Typed
<1>4. DOMAIN s = 1 .. Len(s) /\ DOMAIN t = 1 .. Len(s) + 1 /\ Len(s) \in Nat
  BY <1>1, <1>2
<1>5. NamesOf(more) \subseteq NamesOf(cfg) \union {name}
  BY <1>2, <1>4 DEF NamesOf, Storage
<1>6. NamesOf(cfg) \subseteq NamesOf(more)
  BY <1>2, <1>4 DEF NamesOf
<1>7. name \in NamesOf(more)
  BY <1>2, <1>4 DEF NamesOf, Storage
<1>8. FromInit(cfg) => FromInit(more)
  BY <1>1, <1>2, <1>4 DEF FromInit
<1> QED BY <1>3, <1>5, <1>6, <1>7, <1>8

\* RemoveStorage takes one name away, the names of a valid configuration being
\* different.
LEMMA RemovedStorage ==
    ASSUME NEW cfg \in Typed, Validate(cfg), NEW name \in NamesOf(cfg)
    PROVE  /\ RemoveStorage(cfg, name) \in Typed
           /\ NamesOf(RemoveStorage(cfg, name)) = NamesOf(cfg) \ {name}
<1> DEFINE s == cfg.storages
           Here(i) == s[i].name = name /\ \A j \in 1 .. i - 1 : s[j].name # name
           i == CHOOSE k \in DOMAIN s : Here(k)
           t == SubSeq(s, 1, i - 1) \o SubSeq(s, i + 1, Len(s))
<1>1. /\ s \in Seq(Entry) /\ DOMAIN s = 1 .. Len(s) /\ Len(s) \in Nat
  BY DEF Typed
<1>2. \A j, k \in DOMAIN s : j # k => s[j].name # s[k].name
  BY <1>1 DEF Validate, StoragesDiffer
<1>3. i \in DOMAIN s /\ s[i].name = name
  <2>1. PICK k \in DOMAIN s : s[k].name = name
    BY DEF NamesOf
  <2>2. Here(k)
    BY <1>1, <1>2, <2>1
  <2> QED BY <2>2
<1> HIDE DEF i
<1>4. /\ t \in Seq(Entry) /\ Len(t) = Len(s) - 1
      /\ \A j \in 1 .. Len(t) : t[j] = IF j < i THEN s[j] ELSE s[j + 1]
  <2> DEFINE u == SubSeq(s, 1, i - 1)
             v == SubSeq(s, i + 1, Len(s))
  <2>1. i \in 1 .. Len(s)
    BY <1>1, <1>3
  <2>2. /\ u \in Seq(Entry) /\ Len(u) = i - 1
        /\ \A j \in 1 .. i - 1 : u[j] = s[j]
    BY <1>1, <2>1, SubSeqProperties
  <2>3. /\ v \in Seq(Entry) /\ Len(v) = Len(s) - i
        /\ \A j \in 1 .. Len(s) - i : v[j] = s[i + j]
    BY <1>1, <2>1, SubSeqProperties
  <2> HIDE DEF u, v
  <2>4. /\ u \o v \in Seq(Entry) /\ Len(u \o v) = Len(u) + Len(v)
        /\ \A j \in 1 .. Len(u) + Len(v) :
            (u \o v)[j] = IF j <= Len(u) THEN u[j] ELSE v[j - Len(u)]
    BY <2>2, <2>3, ConcatProperties
  <2>5. Len(u) + Len(v) = Len(s) - 1
    BY <1>1, <2>1, <2>2, <2>3
  <2>6. ASSUME NEW j \in 1 .. Len(s) - 1
        PROVE  (u \o v)[j] = IF j < i THEN s[j] ELSE s[j + 1]
    <3>1. CASE j < i
      <4>1. j \in 1 .. i - 1 /\ j <= Len(u)
        BY <1>1, <2>1, <2>2, <3>1
      <4> QED BY <2>2, <2>4, <2>5, <3>1, <4>1
    <3>2. CASE ~(j < i)
      <4>1. ~(j <= Len(u)) /\ j - Len(u) \in 1 .. Len(s) - i /\ i + (j - Len(u)) = j + 1
        BY <1>1, <2>1, <2>2, <3>2
      <4> QED BY <2>3, <2>4, <2>5, <3>2, <4>1
    <3> QED BY <3>1, <3>2
  <2>7. t = u \o v
    BY DEF u, v
  <2> QED BY <2>4, <2>5, <2>6, <2>7
<1>5. RemoveStorage(cfg, name) = [cfg EXCEPT !.storages = t]
  BY DEF RemoveStorage, i
<1> HIDE DEF t
<1>6. RemoveStorage(cfg, name) \in Typed /\ RemoveStorage(cfg, name).storages = t
  BY <1>4, <1>5 DEF Typed
<1>7. DOMAIN t = 1 .. Len(s) - 1
  BY <1>4
<1>8. ASSUME NEW j \in DOMAIN t PROVE t[j].name \in NamesOf(cfg) \ {name}
  <2>1. CASE j < i
    <3>1. t[j] = s[j] /\ j \in DOMAIN s /\ j # i
      BY <1>1, <1>3, <1>4, <1>7, <2>1
    <3> QED BY <3>1, <1>2, <1>3 DEF NamesOf
  <2>2. CASE ~(j < i)
    <3>1. t[j] = s[j + 1] /\ j + 1 \in DOMAIN s /\ j + 1 # i
      BY <1>1, <1>3, <1>4, <1>7, <2>2
    <3> QED BY <3>1, <1>2, <1>3 DEF NamesOf
  <2> QED BY <2>1, <2>2
<1>9. ASSUME NEW k \in DOMAIN s, k # i PROVE \E j \in DOMAIN t : t[j] = s[k]
  <2>1. CASE k < i
    <3>1. k \in DOMAIN t /\ t[k] = s[k]
      BY <1>1, <1>3, <1>4, <1>7, <2>1
    <3> QED BY <3>1
  <2>2. CASE k > i
    <3>1. k - 1 \in DOMAIN t /\ t[k - 1] = s[k]
      BY <1>1, <1>3, <1>4, <1>7, <2>2
    <3> QED BY <3>1
  <2> QED BY <1>1, <1>3, <1>9, <2>1, <2>2
<1>10. NamesOf(cfg) \ {name} \subseteq {t[j].name : j \in DOMAIN t}
  BY <1>3, <1>9 DEF NamesOf
<1> QED BY <1>6, <1>8, <1>10 DEF NamesOf

\* A server that starts has each storage of a valid file once.
LEMMA StartedBackends ==
    ASSUME NEW cfg \in Typed, Validate(cfg), NEW joined, NEW origin,
           NEW server, server = Up(cfg, joined, origin)
    PROVE  /\ server.registry \intersect server.failed = {}
           /\ server.registry \union server.failed = NamesOf(cfg)
<1> DEFINE s == cfg.storages
           Joins(i) == i \in joined /\ \A j \in joined : j < i => s[j].name # s[i].name
<1>1. server.registry = {s[i].name : i \in {i \in DOMAIN s : Joins(i)}}
      /\ server.failed = {s[i].name : i \in {i \in DOMAIN s : ~Joins(i)}}
  BY DEF Up
<1>2. /\ DOMAIN s = 1 .. Len(s) /\ Len(s) \in Nat
  BY DEF Typed
<1>4. StoragesDiffer(cfg)
  BY DEF Validate
<1>3. \A j, k \in DOMAIN s : j # k => s[j].name # s[k].name
  BY <1>2, <1>4 DEF StoragesDiffer
<1> HIDE DEF Joins
<1> QED BY <1>1, <1>3 DEF NamesOf

\* Its write quorum is one that N copies can reach.
LEMMA QuorumInBounds ==
    ASSUME NEW cfg \in Typed, Validate(cfg)
    PROVE  QuorumOf(cfg) \in 1 .. EffectiveN(cfg)
<1>1. cfg.rf \in Int /\ cfg.w \in Int /\ cfg.n \in Int
  BY DEF Typed
<1> QED BY <1>1 DEF QuorumOf, EffectiveN, Validate, QuorumReachable

LEMMA ThreeElements ==
    ASSUME NEW a, NEW b, NEW c, a # b, a # c, b # c
    PROVE  Cardinality({a, b, c}) = 3
<1>1. IsFiniteSet({a}) /\ Cardinality({a}) = 1
  BY FS_Singleton
<1> DEFINE two == {a} \union {b}
<1>2. b \notin {a}
  OBVIOUS
<1>3. IsFiniteSet(two) /\ Cardinality(two) = 2
  <2>1. /\ IsFiniteSet({a} \union {b})
        /\ Cardinality({a} \union {b}) = IF b \in {a} THEN Cardinality({a}) ELSE Cardinality({a}) + 1
    BY <1>1, FS_AddElement, Zenon
  <2> QED BY <2>1, <1>1, <1>2
<1>4. c \notin two /\ {a, b, c} = two \union {c}
  OBVIOUS
<1> HIDE DEF two
<1>5. Cardinality(two \union {c}) = IF c \in two THEN Cardinality(two) ELSE Cardinality(two) + 1
  BY <1>3, FS_AddElement, Zenon
<1> QED BY <1>3, <1>4, <1>5

\* Of three storages or more, all but one of which joined, two are left for the
\* majority of three copies after the loss of one.
LEMMA ThreeTolerateOne ==
    ASSUME NEW cfg \in Typed, Validate(cfg), FromInit(cfg), NEW running, NEW failed,
           running \intersect failed = {}, running \union failed = NamesOf(cfg),
           Cardinality(failed) <= 1
    PROVE  \E copies \in {cfg.rf, Cardinality(running)} :
             /\ copies <= cfg.rf /\ copies <= Cardinality(running)
             /\ copies - (1 - Cardinality(failed)) >= QuorumOf(cfg)
<1> DEFINE s == cfg.storages
<1>1. /\ DOMAIN s = 1 .. Len(s) /\ Len(s) \in Nat /\ Len(s) >= 3
      /\ cfg.rf = 3 /\ QuorumOf(cfg) = 2
  BY DEF Typed, FromInit, QuorumOf
<1>2. IsFiniteSet(NamesOf(cfg))
  <2>1. IsFiniteSet(DOMAIN s)
    BY <1>1, FS_Interval
  <2> DEFINE name == [i \in DOMAIN s |-> s[i].name]
  <2>2. name \in Surjection(DOMAIN s, NamesOf(cfg))
    BY DEF Surjection, NamesOf
  <2> QED BY <2>1, <2>2, FS_Surjection
<1>3. /\ IsFiniteSet(running) /\ IsFiniteSet(failed)
      /\ Cardinality(running) \in Nat /\ Cardinality(failed) \in Nat
  <2>1. running \subseteq NamesOf(cfg) /\ failed \subseteq NamesOf(cfg)
    OBVIOUS
  <2> QED BY <1>2, <2>1, FS_Subset, FS_CardinalityType
<1>4. Cardinality(running) + Cardinality(failed) = Cardinality(NamesOf(cfg))
  <2>1. Cardinality(running \union failed) =
            Cardinality(running) + Cardinality(failed) - Cardinality(running \intersect failed)
    BY <1>3, FS_Union
  <2>2. Cardinality(running \intersect failed) = 0
    BY FS_EmptySet
  <2>3. Cardinality(running \union failed) = Cardinality(NamesOf(cfg))
    OBVIOUS
  <2> HIDE DEF s
  <2> QED BY <1>3, <2>1, <2>2, <2>3
<1>5. Cardinality(NamesOf(cfg)) >= 3
  <2> DEFINE three == {s[1].name, s[2].name, s[3].name}
  <2>0. StoragesDiffer(cfg)
    BY DEF Validate
  <2>1. s[1].name # s[2].name /\ s[1].name # s[3].name /\ s[2].name # s[3].name
    BY <1>1, <2>0 DEF StoragesDiffer
  <2>2. Cardinality(three) = 3
    BY <2>1, ThreeElements
  <2>3. three \subseteq NamesOf(cfg)
    BY <1>1 DEF NamesOf
  <2> QED BY <1>2, <2>2, <2>3, FS_Subset, FS_CardinalityType
<1>6. CASE Cardinality(running) >= 3
  BY <1>1, <1>3, <1>6
<1>7. CASE Cardinality(running) < 3
  <2>1. Cardinality(running) = 2 /\ Cardinality(failed) = 1
    BY <1>3, <1>4, <1>5, <1>7, FS_CardinalityType, <1>2
  <2> QED BY <1>1, <2>1
<1> QED BY <1>3, <1>6, <1>7

----------------------------------------------------------------------------
(* The steps of the commands and of the server.                            *)

LEMMA EditsTyped == Edits \subseteq Typed
<1>1. [name : STRING, type : STRING] \subseteq Entry
  BY DEF Entry, Texts
<1>2. Seq([name : STRING, type : STRING]) \subseteq Seq(Entry)
  BY <1>1, SeqMonotonic
<1> QED BY <1>2, StartupAssumption DEF Parsed, Typed

LEMMA WholeTyped ==
    ASSUME StartupTypeOK, file.state = "whole"
    PROVE  file.cfg \in Typed /\ file = Whole(file.cfg)
BY DEF StartupTypeOK, Absent, Garbled, Whole

LEMMA HistoryTyped ==
    ASSUME StartupTypeOK
    PROVE  /\ \A overlap : Disturb(overlap) => disturbed' \in BOOLEAN /\ said'.told \in BOOLEAN
           /\ \A k : Acknowledge(k) => said'.told \in BOOLEAN
<1>1. ASSUME NEW overlap, Disturb(overlap) PROVE disturbed' \in BOOLEAN /\ said'.told \in BOOLEAN
  <2>1. disturbed' = (disturbed \/ overlap)
    BY <1>1 DEF Disturb
  <2>2. disturbed' = TRUE \/ disturbed' = FALSE
    BY <2>1
  <2>3. said' = None \/ said' = said
    BY <1>1 DEF Disturb
  <2>4. said'.told \in BOOLEAN
    <3>1. said' = None => said'.told = FALSE
      BY DEF None
    <3>2. said.told \in BOOLEAN
      BY DEF StartupTypeOK
    <3> QED BY <2>3, <3>1, <3>2
  <2> QED BY <2>2, <2>4
<1>2. ASSUME NEW k, Acknowledge(k) PROVE said'.told \in BOOLEAN
  <2>1. said' = said \/ \E names : said' = Told(names)
    <3>1. CASE disturbed
      BY <1>2, <3>1 DEF Acknowledge
    <3>2. CASE ~disturbed
      <4>1. said' = CASE k.op = "add"    -> Told(said.names \union {k.name})
                      [] k.op = "remove" -> Told(said.names \ {k.name})
                      [] OTHER           -> Told(NamesOf(InitialConfig))
        BY <1>2, <3>2 DEF Acknowledge
      <4> QED BY <4>1
    <3> QED BY <3>1, <3>2
  <2>2. \A names : said' = Told(names) => said'.told = TRUE
    BY DEF Told
  <2>3. said.told \in BOOLEAN
    BY DEF StartupTypeOK
  <2> QED BY <2>1, <2>2, <2>3
<1> QED BY <1>1, <1>2

LEMMA StartupTypeStep ==
    ASSUME StartupTypeOK, [StartupNext]_startupVars
    PROVE  StartupTypeOK'
<1>1. ASSUME NEW a \in Admins, Invoke(a) PROVE StartupTypeOK'
  <2>1. step' \in [Admins -> Stages] /\ DOMAIN command' = Admins
        /\ \A b \in Admins : step'[b] # "idle" => command'[b] \in AdminCommands
    BY <1>1 DEF Invoke, StartupTypeOK, GoOn, Stages
  <2>2. disturbed' \in BOOLEAN /\ said'.told \in BOOLEAN
    BY <1>1, HistoryTyped DEF Invoke
  <2> QED BY <1>1, <2>1, <2>2 DEF Invoke, StartupTypeOK
<1>2. ASSUME NEW a \in Admins, Exit(a), UNCHANGED told PROVE StartupTypeOK'
  <2>1. DefaultConfig \in Typed
    BY OwnConfigs
  <2> QED BY <1>2, <2>1 DEF Exit, End, GoOn, InMemory, StartupTypeOK, Stages, told
<1>3. ASSUME NEW a \in Admins, NEW label \in Stages, NEW cfg \in Typed, step[a] # "idle",
             Proceed(a, label, cfg), UNCHANGED told
      PROVE  StartupTypeOK'
  BY <1>3 DEF Proceed, GoOn, InMemory, StartupTypeOK, Stages, told
<1>4. ASSUME NEW a \in Admins, HandleInit(a) PROVE StartupTypeOK'
  <2>1. step[a] # "idle" /\ (Exit(a) \/ Proceed(a, "save", InitialConfig)) /\ UNCHANGED told
    BY <1>4 DEF HandleInit
  <2> QED BY <1>2, <1>3, <2>1, OwnConfigs DEF Stages
<1>5. ASSUME NEW a \in Admins, LoadOrCreate(a) PROVE StartupTypeOK'
  <2>1. /\ step[a] # "idle" /\ UNCHANGED told
        /\ \/ Exit(a) \/ Proceed(a, "create", DefaultConfig)
           \/ file.state = "whole" /\ Proceed(a, "change", file.cfg)
    BY <1>5 DEF LoadOrCreate, Loadable
  <2> QED BY <1>2, <1>3, <2>1, OwnConfigs, WholeTyped DEF Stages
<1>6. ASSUME NEW a \in Admins, StorageAdd(a) PROVE StartupTypeOK'
  <2> DEFINE more == [memory[a] EXCEPT
                        !.storages = Append(@, Storage(command[a].name, command[a].type))]
  <2>1. step[a] # "idle" /\ UNCHANGED told /\ (Exit(a) \/ Proceed(a, "save", more))
    BY <1>6 DEF StorageAdd
  <2>2. more \in Typed
    <3>1. /\ memory[a] \in Typed
          /\ command[a].name \in STRING /\ command[a].type \in STRING
      BY <2>1, StartupAssumption DEF StartupTypeOK
    <3> QED BY <3>1, AddedStorage
  <2> QED BY <1>2, <1>3, <2>1, <2>2 DEF Stages
<1>7. ASSUME NEW a \in Admins, StorageRemove(a) PROVE StartupTypeOK'
  <2>1. /\ step[a] # "idle" /\ UNCHANGED told
        /\ \/ Exit(a)
           \/ /\ Loadable /\ command[a].name \in NamesOf(file.cfg)
              /\ Proceed(a, "save", RemoveStorage(file.cfg, command[a].name))
    BY <1>7 DEF StorageRemove
  <2>2. Loadable /\ command[a].name \in NamesOf(file.cfg) =>
            RemoveStorage(file.cfg, command[a].name) \in Typed
    BY WholeTyped, RemovedStorage DEF Loadable
  <2> QED BY <1>2, <1>3, <2>1, <2>2 DEF Stages
<1>8. ASSUME NEW a \in Admins, Empty(a) PROVE StartupTypeOK'
  BY <1>8 DEF Empty, GoOn, StartupTypeOK, Stages, told
<1>9. ASSUME NEW a \in Admins, Write(a) PROVE StartupTypeOK'
  <2>1. memory[a] \in Typed /\ step[a] # "idle" /\ DefaultConfig \in Typed
    BY <1>9, OwnConfigs DEF Write, Writers, StartupTypeOK
  <2>2. file' = Garbled \/ file' = Whole(memory[a])
    BY <1>9 DEF Write
  <2>3. CASE GoOn(a, "change") /\ UNCHANGED <<memory, command, said, basis>>
    BY <1>9, <2>1, <2>2, <2>3 DEF Write, GoOn, StartupTypeOK, Stages
  <2>4. CASE End(a) /\ Acknowledge(command[a])
    <3>1. said'.told \in BOOLEAN
      BY <2>4, HistoryTyped
    <3>2. /\ step' \in [Admins -> Stages] /\ memory' \in [Admins -> Typed]
          /\ DOMAIN command' = Admins
          /\ \A b \in Admins : step'[b] # "idle" => command'[b] \in AdminCommands
      BY <2>1, <2>4 DEF End, GoOn, InMemory, StartupTypeOK, Stages
    <3> QED BY <1>9, <2>1, <2>2, <3>1, <3>2 DEF Write, StartupTypeOK
  <2> QED BY <1>9, <2>3, <2>4 DEF Write
<1>10. ASSUME NEW a \in Admins, Kill(a) PROVE StartupTypeOK'
  <2>1. DefaultConfig \in Typed
    BY OwnConfigs
  <2>2. /\ step' \in [Admins -> Stages] /\ memory' \in [Admins -> Typed]
        /\ DOMAIN command' = Admins
        /\ \A b \in Admins : step'[b] # "idle" => command'[b] \in AdminCommands
    BY <1>10, <2>1 DEF Kill, End, GoOn, InMemory, StartupTypeOK, Stages
  <2>3. disturbed' \in BOOLEAN /\ said'.told \in BOOLEAN
    BY <1>10, HistoryTyped DEF Kill
  <2> QED BY <1>10, <2>2, <2>3 DEF Kill, StartupTypeOK
<1>11. CASE Edit
  <2>1. \E cfg \in Typed : file' = Whole(cfg)
    BY <1>11, EditsTyped DEF Edit
  <2>2. disturbed' \in BOOLEAN /\ said'.told \in BOOLEAN
    BY <1>11 DEF Edit, StartupTypeOK, None, Told
  <2> QED BY <1>11, <2>1, <2>2 DEF Edit, StartupTypeOK
<1>12. CASE StartServer \/ InitFromConfig \/ StopServer
  BY <1>12 DEF StartServer, InitFromConfig, StopServer, adminVars, told, StartupTypeOK
<1>13. CASE UNCHANGED startupVars
  BY <1>13 DEF startupVars, adminVars, told, StartupTypeOK
<1> QED
  BY <1>1, <1>4, <1>5, <1>6, <1>7, <1>8, <1>9, <1>10, <1>11, <1>12, <1>13
  DEF StartupNext, Administer

\* A command that is alone, before its step and after it.
LEMMA SerialStep ==
    ASSUME StartupTypeOK, SerialOK, ~disturbed, NEW a \in Admins, NEW label,
           \A b \in Admins \ {a} : step[b] = "idle",
           step' = [step EXCEPT ![a] = label],
           dirty' = {},
           ~said'.told => said' = None /\ basis' # "init",
           label = "idle" => FileAsTold',
           CommandOK(a)',
           basis' = "init" /\ file'.state = "whole" => FromInit(file'.cfg)
    PROVE  SerialOK'
<1>1. step'[a] = label /\ \A b \in Admins \ {a} : step'[b] = "idle"
  BY DEF StartupTypeOK
<1>2. \A b, c \in Busy' : b = c
  BY <1>1 DEF Busy
<1>3. Busy' = {} => FileAsTold'
  BY <1>1 DEF Busy
<1>4. \A b \in Admins : CommandOK(b)'
  BY <1>1 DEF CommandOK
<1>5. basis' = "init" /\ file'.state = "whole" => FromInit(file'.cfg)
  OBVIOUS
<1> QED BY <1>2, <1>3, <1>4, <1>5 DEF SerialOK

\* The steps of a command that read the file or change the configuration in memory.
LEMMA SerialInMemory ==
    ASSUME StartupTypeOK, SerialOK, ~disturbed, NEW a \in Admins,
           HandleInit(a) \/ LoadOrCreate(a) \/ StorageAdd(a) \/ StorageRemove(a)
    PROVE  SerialOK'
<1>0. /\ step[a] # "idle" /\ UNCHANGED told /\ CommandOK(a)
      /\ \A b \in Admins \ {a} : step[b] = "idle"
      /\ ~said.told => said = None /\ basis # "init"
      /\ dirty = {}
      /\ basis = "init" /\ file.state = "whole" => FromInit(file.cfg)
  <2>1. step[a] # "idle" /\ UNCHANGED told
    BY DEF HandleInit, LoadOrCreate, StorageAdd, StorageRemove
  <2> QED BY <2>1 DEF SerialOK, Busy
<1>1. ASSUME Exit(a), FileAsTold PROVE SerialOK'
  <2>1. /\ step' = [step EXCEPT ![a] = "idle"] /\ UNCHANGED <<file, dirty, said, basis>>
    BY <1>0, <1>1 DEF Exit, End, GoOn, told
  <2>2. FileAsTold'
    BY <1>1, <2>1 DEF FileAsTold, AsTold
  <2>3. CommandOK(a)'
    BY <2>1 DEF CommandOK, StartupTypeOK
  <2> QED BY <1>0, <2>1, <2>2, <2>3, SerialStep
<1>2. ASSUME NEW label, NEW cfg, Proceed(a, label, cfg), label # "idle",
             CommandOK(a)'
      PROVE  SerialOK'
  <2>1. /\ step' = [step EXCEPT ![a] = label] /\ UNCHANGED <<file, dirty, said, basis>>
    BY <1>0, <1>2 DEF Proceed, GoOn, told
  <2> QED BY <1>0, <1>2, <2>1, SerialStep
<1>3. ASSUME NEW label, NEW cfg, Proceed(a, label, cfg)
      PROVE  /\ step'[a] = label /\ memory'[a] = cfg
             /\ UNCHANGED <<file, command, said, basis>>
  BY <1>0, <1>3 DEF Proceed, GoOn, InMemory, told, StartupTypeOK
<1>4. CASE HandleInit(a)
  <2>1. step[a] = "start" /\ command[a].op \in {"init", "init --force"} /\ FileAsTold
    BY <1>0, <1>4 DEF HandleInit, CommandOK
  <2>2. ASSUME Proceed(a, "save", InitialConfig) PROVE CommandOK(a)'
    <3>1. /\ step'[a] = "save" /\ memory'[a] = InitialConfig
          /\ UNCHANGED <<file, command, said, basis>>
      BY <1>3, <2>2
    <3>2. Intended(a)'
      BY <2>1, <3>1 DEF Intended
    <3> QED BY <3>1, <3>2 DEF CommandOK
  <2> QED BY <1>1, <1>2, <1>4, <2>1, <2>2 DEF HandleInit
<1>5. CASE LoadOrCreate(a)
  <2>1. step[a] = "start" /\ command[a].op = "add" /\ FileAsTold
    BY <1>0, <1>5 DEF LoadOrCreate, CommandOK
  <2>2. ASSUME file = Absent, Proceed(a, "create", DefaultConfig) PROVE CommandOK(a)'
    <3>1. /\ step'[a] = "create" /\ memory'[a] = DefaultConfig
          /\ UNCHANGED <<file, command, said, basis>>
      BY <1>3, <2>2
    <3>2. ~said.told
      BY <2>1, <2>2 DEF FileAsTold, Absent
    <3> QED BY <2>1, <3>1, <3>2 DEF CommandOK
  <2>3. ASSUME Loadable, Proceed(a, "change", file.cfg) PROVE CommandOK(a)'
    <3>1. /\ step'[a] = "change" /\ memory'[a] = file.cfg
          /\ UNCHANGED <<file, command, said, basis>>
      BY <1>3, <2>3
    <3>2. file = Whole(file.cfg)
      BY <2>3, WholeTyped DEF Loadable
    <3>3. said.told /\ AsTold(file.cfg)
      BY <2>1, <2>3 DEF FileAsTold, Loadable, Absent
    <3>4. AsTold(memory[a])'
      BY <3>1, <3>3 DEF AsTold
    <3> QED BY <2>1, <3>1, <3>2, <3>3, <3>4 DEF CommandOK
  <2>4. \/ Exit(a)
        \/ file = Absent /\ Proceed(a, "create", DefaultConfig)
        \/ Loadable /\ Proceed(a, "change", file.cfg)
    BY <1>5 DEF LoadOrCreate
  <2> QED BY <1>1, <1>2, <2>1, <2>2, <2>3, <2>4
<1>6. CASE StorageAdd(a)
  <2> DEFINE more == [memory[a] EXCEPT
                        !.storages = Append(@, Storage(command[a].name, command[a].type))]
  <2>1. /\ step[a] = "change" /\ command[a].op = "add" /\ file = Whole(memory[a])
        /\ IF said.told THEN AsTold(memory[a]) ELSE memory[a] = DefaultConfig
    BY <1>0, <1>6 DEF StorageAdd, CommandOK
  <2>2. ASSUME Exit(a), command[a].name \in NamesOf(memory[a]) PROVE FileAsTold
    <3>1. said.told
      BY <2>1, <2>2, OwnConfigs
    <3>2. AsTold(file.cfg) /\ file.state = "whole"
      BY <2>1, <3>1 DEF Whole
    <3> QED BY <3>1, <3>2 DEF FileAsTold
  <2>3. ASSUME Proceed(a, "save", more) PROVE CommandOK(a)'
    <3>1. /\ step'[a] = "save" /\ memory'[a] = more
          /\ UNCHANGED <<file, command, said, basis>>
      BY <1>3, <2>3
    <3>2. NamesOf(more) = NamesOf(memory[a]) \union {command[a].name}
          /\ (FromInit(memory[a]) => FromInit(more))
      <4>1. /\ memory[a] \in Typed
            /\ command[a].name \in STRING /\ command[a].type \in STRING
        BY <2>1, StartupAssumption DEF StartupTypeOK
      <4> QED BY <4>1, AddedStorage
    <3>3. NamesOf(memory[a]) = said.names
      BY <1>0, <2>1, OwnConfigs DEF AsTold, None
    <3>4. basis = "init" => FromInit(memory[a])
      BY <1>0, <2>1 DEF AsTold
    <3> HIDE DEF more
    <3>5. Intended(a)'
      BY <2>1, <3>1, <3>2, <3>3, <3>4 DEF Intended
    <3> QED BY <3>1, <3>5 DEF CommandOK
  <2>4. \/ Exit(a) /\ command[a].name \in NamesOf(memory[a])
        \/ Proceed(a, "save", more)
    BY <1>6 DEF StorageAdd
  <2> QED BY <1>1, <1>2, <2>2, <2>3, <2>4
<1>7. CASE StorageRemove(a)
  <2> DEFINE less == RemoveStorage(file.cfg, command[a].name)
  <2>1. step[a] = "start" /\ command[a].op = "remove" /\ FileAsTold
    BY <1>0, <1>7 DEF StorageRemove, CommandOK
  <2>2. ASSUME Loadable, command[a].name \in NamesOf(file.cfg), Proceed(a, "save", less)
        PROVE  CommandOK(a)'
    <3>1. /\ step'[a] = "save" /\ memory'[a] = less
          /\ UNCHANGED <<file, command, said, basis>>
      BY <1>3, <2>2
    <3>2. NamesOf(less) = NamesOf(file.cfg) \ {command[a].name}
      BY <2>2, WholeTyped, RemovedStorage DEF Loadable
    <3>3. NamesOf(file.cfg) = said.names
      BY <2>1, <2>2 DEF FileAsTold, AsTold, Loadable, Absent
    <3> HIDE DEF less
    <3>4. Intended(a)'
      BY <2>1, <3>1, <3>2, <3>3 DEF Intended
    <3> QED BY <3>1, <3>4 DEF CommandOK
  <2>3. \/ Exit(a)
        \/ Loadable /\ command[a].name \in NamesOf(file.cfg) /\ Proceed(a, "save", less)
    BY <1>7 DEF StorageRemove
  <2> QED BY <1>1, <1>2, <2>1, <2>2, <2>3
<1> QED BY <1>4, <1>5, <1>6, <1>7

\* The steps that write the file.
LEMMA SerialOnDisk ==
    ASSUME StartupTypeOK, SerialOK, ~disturbed, NEW a \in Admins, Empty(a) \/ Write(a)
    PROVE  SerialOK'
<1>0. /\ step[a] # "idle" /\ CommandOK(a)
      /\ \A b \in Admins \ {a} : step[b] = "idle"
      /\ ~said.told => said = None /\ basis # "init"
      /\ dirty = {}
  <2>1. step[a] # "idle"
    BY DEF Empty, Write, Writers
  <2> QED BY <2>1 DEF SerialOK, Busy
<1>1. CASE Empty(a)
  <2>1. /\ step' = [step EXCEPT ![a] = IF step[a] = "create" THEN "creating" ELSE "saving"]
        /\ file' = Garbled /\ dirty' = {}
        /\ UNCHANGED <<command, memory, said, basis>> /\ step[a] \in {"create", "save"}
    BY <1>1 DEF Empty, GoOn, told
  <2>2. CommandOK(a)'
    BY <1>0, <2>1 DEF CommandOK, Intended, StartupTypeOK
  <2>3. file'.state # "whole"
    BY <2>1 DEF Garbled
  <2> DEFINE label == IF step[a] = "create" THEN "creating" ELSE "saving"
  <2>4. label # "idle" /\ step' = [step EXCEPT ![a] = label]
    BY <2>1
  <2> HIDE DEF label
  <2> QED BY <1>0, <2>1, <2>2, <2>3, <2>4, SerialStep
<1>2. CASE Write(a)
  <2>1. file' = Whole(memory[a]) /\ dirty' = {}
    <3>1. Writers \subseteq {a}
      BY <1>0 DEF Writers
    <3> QED BY <1>0, <1>2, <3>1 DEF Write
  <2>2. file'.state = "whole" /\ file'.cfg = memory[a]
    BY <2>1 DEF Whole
  <2>3. CASE step[a] = "creating" /\ GoOn(a, "change") /\ UNCHANGED <<memory, command, said, basis>>
    <3>1. ~said.told /\ memory[a] = DefaultConfig /\ command[a].op = "add"
      BY <1>0, <2>3 DEF CommandOK
    <3>2. step'[a] = "change" /\ step' = [step EXCEPT ![a] = "change"]
      BY <2>3 DEF GoOn, StartupTypeOK
    <3>3. CommandOK(a)'
      BY <2>1, <2>3, <3>1, <3>2 DEF CommandOK
    <3> QED BY <1>0, <2>1, <2>3, <3>1, <3>2, <3>3, SerialStep
  <2>4. CASE step[a] = "saving" /\ End(a) /\ Acknowledge(command[a])
    <3>1. Intended(a)
      BY <1>0, <2>4 DEF CommandOK
    <3>2. step'[a] = "idle" /\ step' = [step EXCEPT ![a] = "idle"]
      BY <2>4 DEF End, GoOn, StartupTypeOK
    <3>3. CommandOK(a)'
      BY <3>2 DEF CommandOK
    <3>4. said'.told /\ NamesOf(memory[a]) = said'.names
          /\ (basis' = "init" => FromInit(memory[a]))
      <4>1. CASE command[a].op = "add" /\ NamesOf(memory[a]) = said.names \union {command[a].name}
                    /\ (basis = "init" => FromInit(memory[a]))
        <5>1. said' = Told(said.names \union {command[a].name}) /\ basis' = basis
          BY <2>4, <4>1 DEF Acknowledge
        <5> QED BY <4>1, <5>1 DEF Told
      <4>2. CASE command[a].op = "remove" /\ NamesOf(memory[a]) = said.names \ {command[a].name}
        <5>1. said' = Told(said.names \ {command[a].name}) /\ basis' = "other"
          BY <2>4, <4>2 DEF Acknowledge
        <5> QED BY <4>2, <5>1 DEF Told
      <4>3. CASE command[a].op \in {"init", "init --force"} /\ memory[a] = InitialConfig
        <5>1. said' = Told(NamesOf(InitialConfig)) /\ basis' = "init"
          BY <2>4, <4>3 DEF Acknowledge
        <5> QED BY <4>3, <5>1, OwnConfigs DEF Told
      <4> QED BY <3>1, <4>1, <4>2, <4>3 DEF Intended
    <3>5. FileAsTold'
      BY <2>2, <3>4 DEF FileAsTold, AsTold
    <3> QED BY <1>0, <2>1, <2>2, <3>2, <3>3, <3>4, <3>5, SerialStep
  <2> QED BY <1>2, <2>3, <2>4 DEF Write
<1> QED BY <1>1, <1>2

LEMMA SerialKept ==
    ASSUME StartupTypeOK, SerialOK, [StartupNext]_startupVars
    PROVE  SerialOK'
<1> SUFFICES ASSUME ~disturbed' PROVE SerialOK'
  BY DEF SerialOK
<1>1. ASSUME NEW a \in Admins, Invoke(a) PROVE SerialOK'
  <2>1. ~disturbed /\ Busy = {} /\ UNCHANGED <<said, basis, file, dirty>>
    BY <1>1 DEF Invoke, Disturb
  <2>2. /\ FileAsTold /\ dirty = {} /\ (~said.told => said = None /\ basis # "init")
        /\ (basis = "init" /\ file.state = "whole" => FromInit(file.cfg))
        /\ \A b \in Admins : step[b] = "idle"
    BY <2>1 DEF SerialOK, Busy
  <2>3. step' = [step EXCEPT ![a] = "start"] /\ step'[a] = "start"
    BY <1>1 DEF Invoke, GoOn, StartupTypeOK
  <2>4. FileAsTold'
    BY <2>1, <2>2 DEF FileAsTold, AsTold
  <2>5. CommandOK(a)'
    BY <2>3, <2>4 DEF CommandOK
  <2> QED BY <2>1, <2>2, <2>3, <2>5, SerialStep
<1>2. ASSUME NEW a \in Admins, HandleInit(a) \/ LoadOrCreate(a) \/ StorageAdd(a) \/ StorageRemove(a)
      PROVE  SerialOK'
  <2>1. ~disturbed
    BY <1>2 DEF HandleInit, LoadOrCreate, StorageAdd, StorageRemove, told
  <2> QED BY <1>2, <2>1, SerialInMemory
<1>3. ASSUME NEW a \in Admins, Empty(a) \/ Write(a) PROVE SerialOK'
  <2>1. ~disturbed
    BY <1>3 DEF Empty, Write, told
  <2> QED BY <1>3, <2>1, SerialOnDisk
<1>4. ASSUME NEW a \in Admins, Kill(a) PROVE SerialOK'
  BY <1>4 DEF Kill, Disturb
<1>5. CASE Edit
  <2>1. PICK cfg \in Edits : file' = Whole(cfg) /\ said' = Told(NamesOf(cfg))
    BY <1>5 DEF Edit
  <2>2. /\ ~disturbed /\ Busy = {} /\ basis' = "other" /\ step' = step
        /\ dirty' = Writers
    BY <1>5 DEF Edit
  <2>3. \A b \in Admins : step[b] = "idle"
    BY <2>2 DEF Busy
  <2>4. Busy' = {} /\ dirty' = {}
    BY <2>2, <2>3 DEF Busy, Writers
  <2>5. FileAsTold' /\ said'.told
    BY <2>1, <2>2 DEF FileAsTold, AsTold, Whole, Told
  <2>6. \A b \in Admins : CommandOK(b)'
    BY <2>2, <2>3 DEF CommandOK
  <2> QED BY <2>2, <2>4, <2>5, <2>6 DEF SerialOK
<1>6. CASE UNCHANGED <<adminVars, told>>
  <2>1. FileAsTold' = FileAsTold /\ Busy' = Busy
    BY <1>6 DEF FileAsTold, AsTold, Busy, adminVars, told
  <2>2. \A b \in Admins : CommandOK(b) => CommandOK(b)'
    BY <1>6, <2>1 DEF CommandOK, Intended, AsTold, adminVars, told
  <2> QED BY <1>6, <2>1, <2>2 DEF SerialOK, adminVars, told
<1>7. StartServer \/ InitFromConfig \/ StopServer \/ UNCHANGED startupVars
        => UNCHANGED <<adminVars, told>>
  BY DEF StartServer, InitFromConfig, StopServer, startupVars
<1> QED BY <1>1, <1>2, <1>3, <1>4, <1>5, <1>6, <1>7 DEF StartupNext, Administer

LEMMA ServingKept ==
    ASSUME StartupTypeOK, SerialOK, ServingOK, [StartupNext]_startupVars
    PROVE  ServingOK'
<1>1. CASE UNCHANGED serving
  BY <1>1 DEF ServingOK, EveryBackendOnce, ToleratesOneLoss
<1>2. CASE StartServer
  <2>1. serving'.state # "up" \/ serving'.origin = "builtin"
    BY <1>2 DEF StartServer, BuiltIn, Loading
  <2> QED BY <2>1 DEF ServingOK, EveryBackendOnce, ToleratesOneLoss
<1>3. CASE serving' = Down
  BY <1>3 DEF Down, ServingOK, EveryBackendOnce, ToleratesOneLoss
<1>4. ASSUME Loadable, NEW joined,
             serving' = Up(file.cfg, joined, IF disturbed THEN "other" ELSE basis)
      PROVE  ServingOK'
  <2> DEFINE cfg == file.cfg
             server == serving'
  <2>1. cfg \in Typed /\ Validate(cfg) /\ file.state = "whole"
    BY <1>4, WholeTyped DEF Loadable
  <2>2. server.cfg = cfg /\ server.origin = (IF disturbed THEN "other" ELSE basis)
    BY <1>4 DEF Up
  <2>3. server.registry \intersect server.failed = {} /\ server.registry \union server.failed = NamesOf(cfg)
    BY <1>4, <2>1, StartedBackends
  <2>4. QuorumOf(cfg) \in 1 .. EffectiveN(cfg)
    BY <2>1, QuorumInBounds
  <2>5. EveryBackendOnce'
    BY <2>2, <2>3, <2>4 DEF EveryBackendOnce
  <2>6. server.origin = "init" => FromInit(cfg)
    BY <2>1, <2>2 DEF SerialOK
  <2>7. ToleratesOneLoss'
    <3> SUFFICES ASSUME server.origin = "init", Cardinality(server.failed) <= 1
                 PROVE  \E copies \in {server.cfg.rf, Cardinality(server.registry)} :
                            /\ copies <= server.cfg.rf /\ copies <= Cardinality(server.registry)
                            /\ copies - (1 - Cardinality(server.failed)) >= QuorumOf(server.cfg)
      BY DEF ToleratesOneLoss
    <3>1. \E copies \in {cfg.rf, Cardinality(server.registry)} :
              /\ copies <= cfg.rf /\ copies <= Cardinality(server.registry)
              /\ copies - (1 - Cardinality(server.failed)) >= QuorumOf(cfg)
      BY <2>1, <2>3, <2>6, ThreeTolerateOne
    <3> QED BY <2>2, <3>1
  <2> QED BY <2>5, <2>7 DEF ServingOK
<1>5. CASE InitFromConfig
  BY <1>3, <1>4, <1>5 DEF InitFromConfig
<1>6. CASE StopServer
  BY <1>3, <1>6 DEF StopServer
<1>7. ASSUME NEW a \in Admins, Administer(a) PROVE UNCHANGED serving
  BY <1>7 DEF Administer, Invoke, HandleInit, LoadOrCreate, StorageAdd, StorageRemove, Empty,
              Write, Kill
<1>8. Edit \/ UNCHANGED startupVars => UNCHANGED serving
  BY DEF Edit, startupVars
<1> QED BY <1>1, <1>2, <1>5, <1>6, <1>7, <1>8 DEF StartupNext

LEMMA StartupInvInit == StartupInit => StartupInv
<1> SUFFICES ASSUME StartupInit PROVE StartupInv
  OBVIOUS
<1>1. StartupTypeOK
  <2>1. DefaultConfig \in Typed
    BY OwnConfigs
  <2> QED BY <2>1 DEF StartupInit, StartupTypeOK, Stages, None
<1>2. SerialOK
  <2>1. FileAsTold /\ Busy = {} /\ dirty = {} /\ said = None /\ basis = "other"
    BY DEF StartupInit, FileAsTold, Busy, None
  <2>2. \A a \in Admins : CommandOK(a)
    BY DEF StartupInit, CommandOK
  <2> QED BY <2>1, <2>2 DEF SerialOK
<1>3. ServingOK
  BY DEF StartupInit, ServingOK, EveryBackendOnce, ToleratesOneLoss, Down
<1> QED BY <1>1, <1>2, <1>3 DEF StartupInv

LEMMA StartupInvStep == StartupInv /\ [StartupNext]_startupVars => StartupInv'
BY StartupTypeStep, SerialKept, ServingKept DEF StartupInv

\* "Config saved to ..." is true (AckedChangesStand): after commands that neither
\* overlapped nor were killed the file is there, whole, with just the storages the
\* users were told of (LoadOrCreate, AddStorage, RemoveStorage, Save), for any
\* commands, edits and number of them.
THEOREM SavedChangesStand == StartupSpec => []AckedChangesStand
<1>1. StartupInv => AckedChangesStand
  BY DEF StartupInv, SerialOK, FileAsTold, AsTold, AckedChangesStand
<1> QED BY <1>1, StartupInvInit, StartupInvStep, PTL DEF StartupSpec

\* However the file was edited, a server that runs has each of its storages once,
\* joined or failed, and a write quorum within its N (EveryBackendOnce, Validate,
\* initFromConfig).
THEOREM BackendsOnce == StartupSpec => []EveryBackendOnce
<1>1. StartupInv => EveryBackendOnce
  BY DEF StartupInv, ServingOK
<1> QED BY <1>1, StartupInvInit, StartupInvStep, PTL DEF StartupSpec

\* A server on the file of lilio init, with any storages added, can still write after
\* the loss of a backend, at its start or later (ToleratesOneLoss, DefaultConfig).
THEOREM OneLossTolerated == StartupSpec => []ToleratesOneLoss
<1>1. StartupInv => ToleratesOneLoss
  BY DEF StartupInv, ServingOK
<1> QED BY <1>1, StartupInvInit, StartupInvStep, PTL DEF StartupSpec

=============================================================================
