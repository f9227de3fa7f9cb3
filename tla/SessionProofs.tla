---------------------------- MODULE SessionProofs ---------------------------
(***************************************************************************)
(* What becomes of an exchange, for any number of flows, instances,        *)
(* sessions and crashes: ExchangeInv and SessionInv of FlowInvariants are  *)
(* inductive, together with the invariant of FlowProofs, and from them     *)
(* follow the promises to a client that uploads.                           *)
(***************************************************************************)
EXTENDS ExchangeProofs

(***************************************************************************)
(* Sessions.                                                               *)
(***************************************************************************)
Answering == {"answered", "keyed", "created"}

(* What an exchange knows after a step it knew before, with an answer on   *)
(* its way to the client.                                                  *)
LearnsNothing(f) ==
  \A id \in UploadIds : Knows(f, id)' =>
    /\ Knows(f, id) /\ pc[f] \in Answering
    /\ req'[f] = req[f] /\ at'[f] = at[f]
    /\ pc'[f] \in Answering \cup {"done"}

(* But for the answer to a POST that opens a session, no step tells anyone *)
(* of an upload id it did not know.                                        *)
LEMMA StepKnows ==
  ASSUME TypeOK, UploadInv, NEW f \in Flows, ExchangeOK(f), Step(f),
         ~GcsOpenSession(f)
  PROVE  LearnsNothing(f)
<1>1. NoAnswer.uploadId \notin UploadIds
  BY SentinelAssumption DEF NoAnswer
<1>2. ASSUME ans'[f] = NoAnswer
      PROVE  LearnsNothing(f)
  BY <1>1, <1>2 DEF Knows, LearnsNothing
<1>3. ASSUME pc[f] \notin Answering, pc[f] # "done", ans'[f] = ans[f]
      PROVE  LearnsNothing(f)
  BY <1>2, <1>3 DEF ExchangeOK, AnswerOK, Answering
<1>4. CASE Send(f)
  BY <1>3, <1>4 DEF Send, Answering
<1>5. CASE ServiceStep(f)
  <2>1. ASSUME NEW a, Reply(f, a), Live(f), a.uploadId \notin UploadIds
        PROVE  LearnsNothing(f)
    <3>1. \/ pc[f] = "orphaned" /\ ans'[f] = ans[f]
          \/ ans'[f] = a
      BY <2>1 DEF TypeOK, Reply
    <3> QED
      BY <1>3, <2>1, <3>1 DEF Knows, Answering, LearnsNothing
  <2>2. CASE GcsWrite(f)
    <3>1. PICK form \in JsonForms :
            Reply(f, [Resource(VersionOf(req[f])) EXCEPT !.form = form])
      BY <2>2 DEF GcsWrite
    <3> DEFINE a == [Resource(VersionOf(req[f])) EXCEPT !.form = form]
    <3>2. a.uploadId = NoId
      BY DEF Resource, NoAnswer
    <3> HIDE DEF a
    <3>3. a.uploadId \notin UploadIds
      BY <3>2, SentinelAssumption
    <3> QED
      BY <2>1, <2>2, <3>1, <3>3 DEF GcsWrite, a
  <2>3. CASE GcsRead(f)
    <3> DEFINE v == store[<<UrlBucket(req[f]), UrlName(req[f])>>]
    <3>1. PICK a : /\ Reply(f, a)
                   /\ \/ a = [Resource(v) EXCEPT !.form = "media",
                                                 !.media = v.media]
                      \/ \E form \in JsonForms :
                           a = [Resource(v) EXCEPT !.form = form]
      BY <2>3 DEF GcsRead
    <3>2. a.uploadId = NoId
      BY <3>1 DEF Resource, NoAnswer
    <3> QED
      BY <2>1, <2>3, <3>1, <3>2, SentinelAssumption DEF GcsRead
  <2>4. CASE GcsDelete(f) \/ GcsList(f) \/ GcsRefuse(f) \/ GcsUnavailable(f)
    <3>1. PICK a : Reply(f, a) /\ a.uploadId = NoId
      <4>1. /\ [NoAnswer EXCEPT !.status = "ok"].uploadId = NoId
            /\ [NoAnswer EXCEPT !.status = "ok",
                                !.form = "resource"].uploadId = NoId
            /\ \A form : [NoAnswer EXCEPT !.status = "refused",
                                          !.form = form].uploadId = NoId
            /\ NoAnswer.uploadId = NoId
        BY DEF NoAnswer
      <4>2. CASE GcsDelete(f)
        BY <4>1, <4>2 DEF GcsDelete
      <4>3. CASE GcsList(f)
        BY <4>1, <4>3 DEF GcsList
      <4>4. CASE GcsRefuse(f)
        BY <4>1, <4>4 DEF GcsRefuse
      <4>5. CASE GcsUnavailable(f)
        BY <4>1, <4>5 DEF GcsUnavailable
      <4> QED
        BY <2>4, <4>2, <4>3, <4>4, <4>5
    <3> QED
      BY <2>1, <2>4, <3>1, SentinelAssumption
         DEF GcsDelete, GcsList, GcsRefuse, GcsUnavailable
  <2>5. CASE UpstreamLost(f)
    <3>1. ans'[f] = NoAnswer
      BY <2>5 DEF TypeOK, UpstreamLost
    <3> QED
      BY <1>2, <3>1
  <2>6. CASE OrphanDropped(f)
    BY <1>3, <2>6 DEF OrphanDropped, Answering
  <2> QED
    BY <1>5, <2>2, <2>3, <2>4, <2>5, <2>6 DEF ServiceStep
<1>6. CASE \/ ForwardRequest(f) \/ HandleMetadataRequest(f)
           \/ HandleMultipartRequest(f) \/ ConvertSinglePartUpload(f)
           \/ ReadSession(f) \/ ConvertPut(f)
  <2>1. ans' = ans /\ pc[f] \in {"request", "loaded"}
    BY <1>6 DEF ForwardRequest, HandleMetadataRequest, HandleMultipartRequest,
       ConvertSinglePartUpload, ReadSession, ConvertPut, Forward
  <2> QED
    BY <1>3, <2>1 DEF Answering
<1>7. ASSUME NEW a, Finish(f, a), pc[f] \in Answering,
             a.uploadId = ans[f].uploadId
      PROVE  LearnsNothing(f)
  BY <1>7 DEF TypeOK, Finish, Knows, client, LearnsNothing
<1>8. CASE \/ ForwardResponse(f) \/ HandleUploadResponse(f)
           \/ HandleMetadataResponse(f) \/ HandleSimpleDownloadResponse(f)
           \/ WriteSession(f) \/ (CreateSession(f) /\ pc'[f] = "done")
  <2>1. /\ pc[f] \in Answering
        /\ \E a : /\ Finish(f, a)
                  /\ \/ a = ans[f] \/ a = Failed(ans[f])
                     \/ \E d : a = [ans[f] EXCEPT !.digest = d]
                     \/ \E d : a = [ans[f] EXCEPT !.media = Plain(d),
                                                  !.digest = d]
    <3>1. CASE ForwardResponse(f)
      BY <3>1 DEF ForwardResponse, Answering
    <3>2. CASE HandleUploadResponse(f)
      BY <3>2 DEF HandleUploadResponse, Answering
    <3>3. CASE HandleMetadataResponse(f)
      BY <3>3 DEF HandleMetadataResponse, Answering
    <3>4. CASE HandleSimpleDownloadResponse(f)
      BY <3>4 DEF HandleSimpleDownloadResponse, Answering
    <3>5. CASE WriteSession(f)
      BY <3>5 DEF WriteSession, Answering
    <3>6. CASE CreateSession(f) /\ pc'[f] = "done"
      <4>1. pc' # [pc EXCEPT ![f] = "created"]
        BY <3>6 DEF TypeOK
      <4> QED
        BY <3>6, <4>1 DEF CreateSession, Answering
    <3> QED
      BY <1>8, <3>1, <3>2, <3>3, <3>4, <3>5, <3>6
  <2>2. \A a : \/ a = ans[f] \/ a = Failed(ans[f])
               \/ \E d : a = [ans[f] EXCEPT !.digest = d]
               \/ \E d : a = [ans[f] EXCEPT !.media = Plain(d), !.digest = d]
               => a.uploadId = ans[f].uploadId
    BY DEF TypeOK, Answers, Failed, NoAnswer
  <2> QED
    BY <1>7, <2>1, <2>2
<1>9. CASE LookupKey(f) \/ (CreateSession(f) /\ pc'[f] # "done")
  <2>1. /\ pc[f] = "answered" /\ ans' = ans /\ req' = req /\ at' = at
        /\ pc'[f] \in {"keyed", "created"}
    <3>1. CASE LookupKey(f)
      BY <3>1 DEF TypeOK, LookupKey, client
    <3>2. CASE CreateSession(f) /\ pc'[f] # "done"
      <4>1. \A a : ~Finish(f, a)
        BY <3>2 DEF TypeOK, Finish
      <4> QED
        BY <3>2, <4>1 DEF TypeOK, CreateSession, client
    <3> QED
      BY <1>9, <3>1, <3>2
  <2> QED
    BY <2>1 DEF Knows, Answering, LearnsNothing
<1> QED
  BY <1>4, <1>5, <1>6, <1>8, <1>9 DEF Step, ProxyStep

(* What every step and every crash leaves to the rest: exchanges that are  *)
(* over stay as they are, nobody learns an upload id that was handed out   *)
(* before, and a session file is written by the exchange that was given    *)
(* its id.                                                                 *)
OverStays ==
  \A g \in Flows : pc[g] = "done" =>
    /\ pc'[g] = "done" /\ ans'[g] = ans[g] /\ req'[g] = req[g]
    /\ call'[g] = call[g] /\ at'[g] = at[g]

KnownStays ==
  \A id \in UploadIds, g \in Flows : bound[id] \in Objects /\ Knows(g, id)' =>
    /\ Knows(g, id) /\ at'[g] = at[g] /\ req'[g] = req[g]
    /\ pc'[g] \in Answering => pc[g] \in Answering

Files(i, id, h) ==
  /\ Knows(h, id) /\ at[h] = i
  /\ \/ pc[h] = "answered" /\ files'[i][id] = BadFile
     \/ pc[h] = "created" /\ files'[i][id] = SessionOf(req[h])

FilesWritten ==
  \A i \in Instances, id \in UploadIds :
    \/ files'[i][id] \in {files[i][id], NoFile}
    \/ \E h \in Flows : Files(i, id, h)

Orderly == BoundKept /\ OverStays /\ KnownStays /\ FilesWritten

LEMMA MovesOn ==
  ASSUME TypeOK, NEW f \in Flows, Step(f)
  PROVE  pc[f] \notin {"done", "lost"}
BY DEF Step, Send, ProxyStep, ForwardRequest, HandleMetadataRequest,
       HandleMultipartRequest, ConvertSinglePartUpload, ReadSession,
       ConvertPut, ForwardResponse, HandleUploadResponse,
       HandleMetadataResponse, LookupKey, HandleSimpleDownloadResponse,
       CreateSession, WriteSession, ServiceStep, GcsWrite, GcsOpenSession,
       GcsRead, GcsDelete, GcsList, GcsRefuse, GcsUnavailable, UpstreamLost,
       OrphanDropped, Live

LEMMA StepFiles ==
  ASSUME TypeOK, NEW f \in Flows, Step(f)
  PROVE  FilesWritten
<1>1. CASE files' = files
  BY <1>1 DEF FilesWritten
<1>2. CASE ConvertPut(f)
  <2>1. files' = [files EXCEPT ![at[f]][req[f].query.uploadId] = NoFile]
    BY <1>2 DEF ConvertPut, RemoveFile
  <2> QED
    BY <2>1 DEF TypeOK, FilesWritten
<1>3. ASSUME NEW s, files' = [files EXCEPT ![at[f]][ans[f].uploadId] = s],
             \/ pc[f] = "answered" /\ s = BadFile
             \/ pc[f] = "created" /\ s = SessionOf(req[f])
      PROVE  FilesWritten
  <2> SUFFICES ASSUME NEW i \in Instances, NEW id \in UploadIds,
                      files'[i][id] # files[i][id]
               PROVE  Files(i, id, f)
    BY DEF FilesWritten
  <2>1. i = at[f] /\ id = ans[f].uploadId /\ files'[i][id] = s
    BY <1>3 DEF TypeOK
  <2> QED
    BY <1>3, <2>1 DEF Files, Knows
<1>4. CASE CreateSession(f)
  BY <1>1, <1>3, <1>4 DEF CreateSession, local
<1>5. CASE WriteSession(f)
  BY <1>1, <1>3, <1>5 DEF WriteSession
<1>6. CASE Send(f)
  BY <1>1, <1>6 DEF Send, local
<1>7. CASE ServiceStep(f)
  BY <1>1, <1>7, ServiceStepFrame
<1>8. CASE \/ ForwardRequest(f) \/ HandleMetadataRequest(f)
           \/ HandleMultipartRequest(f) \/ ConvertSinglePartUpload(f)
           \/ ReadSession(f)
           \/ ForwardResponse(f) \/ HandleUploadResponse(f)
           \/ HandleMetadataResponse(f)
           \/ LookupKey(f) \/ HandleSimpleDownloadResponse(f)
  BY <1>1, <1>8 DEF ForwardRequest, HandleMetadataRequest,
     HandleMultipartRequest, ConvertSinglePartUpload, ReadSession,
     ForwardResponse, HandleUploadResponse, HandleMetadataResponse,
     LookupKey, HandleSimpleDownloadResponse, local
<1> QED
  BY <1>2, <1>4, <1>5, <1>6, <1>7, <1>8 DEF Step, ProxyStep

LEMMA StepOrderly ==
  ASSUME TypeOK, UploadInv, SessionInv, NEW f \in Flows, ExchangeOK(f), Step(f)
  PROVE  Orderly
<1>1. BoundKept
  BY StepKeepsBound
<1>2. OverStays
  BY MovesOn, StepFrame, OthersFrame DEF OverStays, Step
<1>3. KnownStays
  <2> SUFFICES ASSUME NEW id \in UploadIds, NEW g \in Flows,
                      bound[id] \in Objects, Knows(g, id)'
               PROVE  /\ Knows(g, id) /\ at'[g] = at[g] /\ req'[g] = req[g]
                      /\ pc'[g] \in Answering => pc[g] \in Answering
    BY DEF KnownStays
  <2>1. CASE g # f
    <3>1. /\ ans'[g] = ans[g] /\ at'[g] = at[g] /\ req'[g] = req[g]
          /\ pc'[g] = pc[g]
      BY <2>1, StepFrame, OthersFrame DEF Step
    <3> QED
      BY <3>1 DEF Knows
  <2>2. CASE g = f /\ ~GcsOpenSession(f)
    BY <2>2, StepKnows DEF LearnsNothing
  <2>3. CASE g = f /\ GcsOpenSession(f)
    <3>1. PICK i \in FreeIds :
            Reply(f, [NoAnswer EXCEPT !.status = "ok", !.form = "session",
                                      !.uploadId = i])
      BY <2>3 DEF GcsOpenSession
    <3>2. i # id
      BY <3>1, AbsenceAssumption DEF FreeIds
    <3>3. [NoAnswer EXCEPT !.status = "ok", !.form = "session",
                           !.uploadId = i].uploadId = i
      BY DEF NoAnswer
    <3>4. CASE pc[f] = "orphaned"
      <4>1. ans'[f] = NoAnswer
        BY <3>1, <3>4 DEF Reply, ExchangeOK, AnswerOK
      <4> QED
        BY <2>3, <4>1, SentinelAssumption DEF Knows, NoAnswer
    <3>5. CASE pc[f] # "orphaned"
      <4>1. ans'[f].uploadId = i
        BY <3>1, <3>3, <3>5 DEF TypeOK, Reply
      <4> QED
        BY <2>3, <3>2, <4>1 DEF Knows
    <3> QED
      BY <3>4, <3>5
  <2> QED
    BY <2>1, <2>2, <2>3
<1>4. FilesWritten
  BY StepFiles
<1> QED
  BY <1>1, <1>2, <1>3, <1>4 DEF Orderly

LEMMA CrashOrderly ==
  ASSUME TypeOK, NEW i \in Instances, Crash(i)
  PROVE  Orderly
<1>1. /\ bound' = bound /\ call' = call /\ at' = at /\ req' = req
      /\ \A g \in Flows : pc'[g] = pc[g] => ans'[g] = ans[g]
      /\ \A g \in Flows : pc'[g] # pc[g] => ans'[g] = NoAnswer
  BY DEF Crash, service
<1>2. BoundKept
  BY <1>1 DEF BoundKept
<1>3. OverStays
  <2>1. \A g \in Flows : pc[g] = "done" => pc'[g] = "done"
    BY DEF Crash
  <2> QED
    BY <1>1, <2>1 DEF OverStays
<1>4. KnownStays
  BY <1>1, SentinelAssumption DEF KnownStays, Knows, NoAnswer
<1>5. FilesWritten
  <2>1. CASE files' = files
    BY <2>1 DEF FilesWritten
  <2>2. CASE files' = [files EXCEPT ![i] = [id \in UploadIds |-> NoFile]]
    BY <2>2 DEF TypeOK, FilesWritten
  <2> QED
    BY <2>1, <2>2 DEF Crash
<1> QED
  BY <1>2, <1>3, <1>4, <1>5 DEF Orderly

(***************************************************************************)
(* GivenOnce: an id is handed out while nobody knows it.                   *)
(***************************************************************************)
LEMMA GivenStays ==
  ASSUME SessionInv, Orderly, NEW id \in UploadIds, bound[id] \in Objects
  PROVE  GivenOnce(id)'
<1>1. bound'[id] = bound[id] /\ GivenOnce(id)
  BY DEF Orderly, BoundKept, SessionInv
<1> SUFFICES ASSUME NEW f \in Flows, Knows(f, id)'
             PROVE  /\ \A g \in Flows : Knows(g, id)' => g = f
                    /\ pc'[f] \in {"answered", "keyed", "created"} =>
                         /\ OpensSession(req[f])'
                         /\ bound[id] = <<UrlBucket(req'[f]), UploadName(req'[f])>>
  BY <1>1 DEF GivenOnce
<1>2. \A g \in Flows : Knows(g, id)' => Knows(g, id)
  BY DEF Orderly, KnownStays
<1>3. \A g \in Flows : Knows(g, id)' => g = f
  BY <1>1, <1>2 DEF GivenOnce
<1>4. ASSUME pc'[f] \in Answering
      PROVE  /\ OpensSession(req[f])'
             /\ bound[id] = <<UrlBucket(req'[f]), UploadName(req'[f])>>
  <2>1. Knows(f, id) /\ req'[f] = req[f] /\ pc[f] \in Answering
    BY <1>4 DEF Orderly, KnownStays
  <2> QED
    BY <1>1, <2>1 DEF GivenOnce, Answering
<1> QED
  BY <1>3, <1>4 DEF Answering

LEMMA GivenAnew ==
  ASSUME TypeOK, UploadInv, SessionInv, NEW f \in Flows, ExchangeOK(f), Step(f),
         NEW id \in UploadIds, bound[id] \notin Objects
  PROVE  GivenOnce(id)'
<1>1. \A g \in Flows : ~Knows(g, id)
  BY DEF SessionInv, GivenOnce
<1>2. \A g \in Flows : g # f => ~Knows(g, id)'
  BY <1>1, OthersFrame DEF Knows
<1>3. CASE ~GcsOpenSession(f)
  <2>1. ~Knows(f, id)'
    BY <1>1, <1>3, StepKnows DEF LearnsNothing
  <2> QED
    BY <1>2, <2>1 DEF GivenOnce
<1>4. CASE GcsOpenSession(f)
  <2> DEFINE o == <<UrlBucket(req[f]), UploadName(req[f])>>
  <2>1. PICK i \in FreeIds :
          /\ bound' = [bound EXCEPT ![i] = o]
          /\ Reply(f, [NoAnswer EXCEPT !.status = "ok", !.form = "session",
                                       !.uploadId = i])
    BY <1>4 DEF GcsOpenSession
  <2>2. req'[f] = req[f] /\ OpensSession(req[f])
    BY <1>4, <2>1 DEF GcsOpenSession, Reply
  <2>3. o \in Objects
    <3>1. PICK b \in Buckets : req[f].path = UploadPath(b)
      BY <2>2 DEF OpensSession, IsUpload
    <3>2. UrlBucket(req[f]) = b
      BY <2>2, <3>1, UploadUrl, BucketsAssumption DEF OpensSession
    <3> QED
      BY <2>2, <3>2 DEF OpensSession, Objects
  <2>4. CASE ~Knows(f, id)'
    BY <1>2, <2>4 DEF GivenOnce
  <2>5. CASE Knows(f, id)'
    <3>1. pc[f] # "orphaned"
      <4>1. ASSUME pc[f] = "orphaned" PROVE ans'[f] = ans[f]
        BY <2>1, <4>1 DEF Reply
      <4> QED
        BY <1>1, <2>5, <4>1 DEF Knows
    <3>2. [NoAnswer EXCEPT !.status = "ok", !.form = "session",
                           !.uploadId = i].uploadId = i
      BY DEF NoAnswer
    <3>3. i = id
      BY <2>1, <2>5, <3>1, <3>2 DEF TypeOK, Reply, Knows
    <3>4. bound'[id] = o
      BY <2>1, <3>3 DEF TypeOK
    <3> HIDE DEF o
    <3>5. GivenOnce(id)' <=>
            \A g \in Flows : Knows(g, id)' =>
              /\ bound'[id] \in Objects
              /\ \A h \in Flows : Knows(h, id)' => h = g
              /\ pc'[g] \in {"answered", "keyed", "created"} =>
                   /\ OpensSession(req'[g])
                   /\ bound'[id] = <<UrlBucket(req'[g]), UploadName(req'[g])>>
      BY DEF GivenOnce
    <3> QED
      BY <1>2, <2>2, <2>3, <3>4, <3>5 DEF o
  <2> QED
    BY <2>4, <2>5
<1> QED
  BY <1>3, <1>4

(***************************************************************************)
(* FileMatches: what the instance writes down of a POST that was answered  *)
(* with an upload id is the object the id was opened for.                  *)
(***************************************************************************)
LEMMA SessionDescribed ==
  ASSUME TypeOK, UploadInv, NEW f \in Flows, ExchangeOK(f), pc[f] = "created",
         OpensSession(req[f])
  PROVE  <<SessionOf(req[f]).bucket, SessionOf(req[f]).name>>
           = <<UrlBucket(req[f]), UploadName(req[f])>>
<1> DEFINE c == call[f]
           r == req[f]
<1>1. c \in Calls /\ r \in Requests /\ RequestOf(c) \in Requests
  BY RequestIsRequest DEF TypeOK, UploadInv, UploadOK, Sent
<1>2. /\ IsUpload(r) /\ r.method = "POST" /\ r.query.uploadType = "resumable"
      /\ r.body.form \in {"none", "json", "nested"}
      /\ HomeAgrees(r) /\ UploadName(r) \in Names
  BY DEF OpensSession
<1>3. IF Touched(f) THEN Rewritten(f, r) ELSE AsSent(f, r)
  BY DEF ExchangeOK, RequestOK, Out
<1>4. RequestOf(c).method = MethodOf(c) /\ RequestOf(c).query = QueryOf(c)
      /\ RequestOf(c).body = BodyOf(c) /\ RequestOf(c).path = PathOf(c)
  BY DEF RequestOf
<1>5. ~Rewritten(f, r)
  <2>1. ASSUME c.op = "put", r = Bodiless(RequestOf(c))
        PROVE  FALSE
    <3>1. r.method = "PUT"
      BY <1>1, <1>4, <2>1 DEF Bodiless, Requests, MethodOf
    <3> QED
      BY <1>2, <3>1
  <2> QED
    BY <1>2, <2>1 DEF Rewritten
<1>6. r = RequestOf(c)
  <2>1. ASSUME r = [RequestOf(c) EXCEPT !.query = [NoQuery EXCEPT !.alt = "json"]]
        PROVE  FALSE
    <3>1. r.query = [NoQuery EXCEPT !.alt = "json"]
      BY <1>1, <2>1 DEF Requests
    <3>2. [NoQuery EXCEPT !.alt = "json"].uploadType = ""
      BY DEF NoQuery
    <3> QED
      BY <1>2, <3>1, <3>2
  <2> QED
    BY <1>3, <1>5, <2>1 DEF AsSent
<1>7. c.op = "start"
  <2>1. MethodOf(c) = "POST" /\ QueryOf(c).uploadType = "resumable"
    BY <1>2, <1>4, <1>6
  <2>2. c.op \in {"multipart", "media", "start"}
    BY <2>1 DEF MethodOf
  <2>3. c.op \in {"start", "put"}
    BY <2>1 DEF QueryOf
  <2> QED
    BY <2>2, <2>3
<1>8. r.path = UploadPath(c.bucket) /\ c.bucket \in Segments
  BY <1>1, <1>4, <1>6, <1>7, BucketsAssumption DEF PathOf, Calls
<1>9. /\ UrlBucket(r) = c.bucket
      /\ GetBucketNameFromRequestUri(r.path) = c.bucket
  BY <1>2, <1>8, UploadUrl, UploadBucket
<1>10. SessionOf(r).bucket = UrlBucket(r)
  BY <1>2, <1>9 DEF SessionOf, HomeAgrees
<1>11. SessionOf(r).name = UploadName(r)
  <2>1. r.body = BodyOf(c)
    BY <1>4, <1>6
  <2>2. CASE c.shape = "none"
    <3>1. r.body = NoBody
      BY <1>7, <2>1, <2>2 DEF BodyOf
    <3> QED
      BY <3>1 DEF SessionOf, UploadName, NoBody, NoMeta
  <2>3. CASE c.shape # "none"
    <3>1. r.body = [form |-> c.shape, meta |-> MetaOf(c), media |-> NoMedia]
      BY <1>7, <2>1, <2>3 DEF BodyOf
    <3>2. r.body.meta.name = c.name /\ r.body.form # "none"
      BY <2>3, <3>1 DEF MetaOf
    <3>3. c.name # NoName
      BY <1>1, CallParts
    <3> QED
      BY <3>2, <3>3 DEF SessionOf, UploadName
  <2> QED
    BY <2>2, <2>3
<1> QED
  BY <1>10, <1>11

LEMMA FilesMatch ==
  ASSUME TypeOK, UploadInv, ExchangeInv, SessionInv, Orderly,
         NEW i \in Instances, NEW id \in UploadIds
  PROVE  FileMatches(i, id)'
<1> SUFFICES ASSUME files'[i][id] # NoFile
             PROVE  /\ bound'[id] \in Objects
                    /\ \A f \in Flows : Knows(f, id)' => at'[f] = i
                    /\ Describes(files[i][id], id)'
  BY DEF FileMatches
<1>1. CASE files'[i][id] = files[i][id]
  <2>1. /\ bound[id] \in Objects /\ Describes(files[i][id], id)
        /\ \A f \in Flows : Knows(f, id) => at[f] = i
    BY <1>1 DEF SessionInv, FileMatches
  <2>2. bound'[id] = bound[id]
    BY <2>1 DEF Orderly, BoundKept
  <2>3. \A f \in Flows : Knows(f, id)' => Knows(f, id) /\ at'[f] = at[f]
    BY <2>1 DEF Orderly, KnownStays
  <2> QED
    BY <1>1, <2>1, <2>2, <2>3 DEF Describes
<1>2. ASSUME NEW h \in Flows, Files(i, id, h)
      PROVE  /\ bound'[id] \in Objects
             /\ \A f \in Flows : Knows(f, id)' => at'[f] = i
             /\ Describes(files[i][id], id)'
  <2>1. Knows(h, id) /\ at[h] = i /\ GivenOnce(id)
    BY <1>2 DEF Files, SessionInv
  <2>2. bound[id] \in Objects /\ bound'[id] = bound[id]
    BY <2>1 DEF GivenOnce, Orderly, BoundKept
  <2>3. \A f \in Flows : Knows(f, id)' => f = h /\ at'[f] = at[f]
    BY <2>1, <2>2 DEF GivenOnce, Orderly, KnownStays
  <2>4. CASE files'[i][id] = BadFile
    BY <2>1, <2>2, <2>3, <2>4 DEF Describes
  <2>5. CASE pc[h] = "created" /\ files'[i][id] = SessionOf(req[h])
    <3>1. /\ OpensSession(req[h])
          /\ bound[id] = <<UrlBucket(req[h]), UploadName(req[h])>>
      BY <2>1, <2>5 DEF GivenOnce
    <3>2. bound[id] = <<SessionOf(req[h]).bucket, SessionOf(req[h]).name>>
      BY <2>5, <3>1, SessionDescribed DEF ExchangeInv, ExchangeOK
    <3> QED
      BY <2>1, <2>2, <2>3, <2>5, <3>2 DEF Describes
  <2> QED
    BY <1>2, <2>4, <2>5 DEF Files
<1> QED
  BY <1>1, <1>2 DEF Orderly, FilesWritten

(***************************************************************************)
(* PutOK.                                                                  *)
(***************************************************************************)
LEMMA AckedStays ==
  ASSUME Orderly, NEW g \in Flows, Acked(g)
  PROVE  Acked(g)' /\ call'[g] = call[g] /\ at'[g] = at[g]
BY DEF Orderly, OverStays, Acked, Sent

(* The exchange that opened the session f names is over, and the only one  *)
(* that knows of it.                                                       *)
LEMMA PosterStays ==
  ASSUME TypeOK, SessionInv, Orderly, NEW f \in Flows, NamesSession(f),
         call'[f] = call[f]
  PROVE  /\ \E g \in Flows : pc[g] = "done" /\ Knows(g, call[f].id)
         /\ \E g \in Flows : pc'[g] = "done" /\ Knows(g, call[f].id)'
         /\ \A g \in Flows : Knows(g, call[f].id)' =>
              Knows(g, call[f].id) /\ at'[g] = at[g]
         /\ \A g \in Flows : Knows(g, call[f].id) => pc[g] = "done"
         /\ bound'[call[f].id] = bound[call[f].id]
         /\ call[f].id \in UploadIds
<1>1. PICK g \in Flows : pc[g] = "done" /\ Knows(g, call[f].id)
  BY DEF SessionInv, PutOK
<1>2. pc'[g] = "done" /\ Knows(g, call[f].id)'
  <2>1. pc'[g] = "done" /\ ans'[g] = ans[g]
    BY <1>1 DEF Orderly, OverStays
  <2>2. ans[g].uploadId = call[f].id
    BY <1>1 DEF Knows
  <2> QED
    BY <2>1, <2>2 DEF Knows
<1>3. call[f].id \in UploadIds /\ bound[call[f].id] \in Objects
  BY SessionBound
<1>4. \A h \in Flows : Knows(h, call[f].id)' =>
        Knows(h, call[f].id) /\ at'[h] = at[h]
  BY <1>3 DEF Orderly, KnownStays
<1>5. \A h \in Flows : Knows(h, call[f].id) => h = g
  BY <1>1, <1>3 DEF SessionInv, GivenOnce
<1>6. bound'[call[f].id] = bound[call[f].id]
  BY <1>3 DEF Orderly, BoundKept
<1> QED
  BY <1>1, <1>2, <1>3, <1>4, <1>5, <1>6

(* A session file that is gone does not come back.                         *)
LEMMA GoneStaysGone ==
  ASSUME TypeOK, SessionInv, Orderly, NEW f \in Flows, NamesSession(f),
         call'[f] = call[f], NEW i \in Instances, files[i][call[f].id] = NoFile
  PROVE  files'[i][call[f].id] = NoFile
<1>1. call[f].id \in UploadIds
  BY SessionBound
<1>2. ASSUME NEW h \in Flows, Files(i, call[f].id, h) PROVE FALSE
  BY <1>2, PosterStays DEF Files
<1> QED
  BY <1>1, <1>2 DEF Orderly, FilesWritten

LEMMA PutStays ==
  ASSUME TypeOK, SessionInv, Orderly, NEW f \in Flows,
         call'[f] = call[f], at'[f] = at[f], before'[f] = before[f],
         pc'[f] = "loaded" => pc[f] = "loaded" /\ sess'[f] = sess[f],
         Converting(f)' => Converting(f)
  PROVE  PutOK(f)'
<1>1. PutOK(f) /\ (NamesSession(f)' <=> NamesSession(f))
  BY DEF SessionInv, NamesSession, Sent
<1>2. NamesSession(f) =>
        \E g \in Flows : pc'[g] = "done" /\ Knows(g, call[f].id)'
  BY PosterStays
<1>3. ASSUME pc'[f] = "loaded"
      PROVE  /\ NamesSession(f) /\ Describes(sess[f], call[f].id)'
             /\ \A g \in Flows : Knows(g, call[f].id)' => at'[g] = at'[f]
  <2>1. /\ NamesSession(f) /\ Describes(sess[f], call[f].id)
        /\ \A g \in Flows : Knows(g, call[f].id) => at[g] = at[f]
    BY <1>1, <1>3 DEF PutOK
  <2>2. bound'[call[f].id] = bound[call[f].id]
    BY <2>1, PosterStays
  <2>3. Describes(sess[f], call[f].id)'
    BY <1>3, <2>1, <2>2 DEF Describes
  <2> QED
    BY <2>1, <2>3, PosterStays
<1>4. Converting(f)' => \A i \in Instances : files'[i][call[f].id] = NoFile
  BY <1>1, GoneStaysGone DEF PutOK, Converting
<1>5. \A g \in before[f] :
        g \in Flows /\ Acked(g) /\ Acked(g)' /\ call'[g] = call[g]
        /\ at'[g] = at[g]
  <2>1. before[f] \subseteq Flows
    BY DEF TypeOK
  <2> QED
    BY <1>1, <2>1, AckedStays DEF PutOK
<1>6. ASSUME NEW g \in before'[f], SamePut(f, g)', Intercepted(f)',
             Intercepted(g)'
      PROVE  pc'[f] # "loaded" /\ ~Converting(f)'
  <2>1. SamePut(f, g) /\ Intercepted(f) /\ Intercepted(g)
    BY <1>5, <1>6 DEF SamePut, Sent, Intercepted, KeyOf
  <2> QED
    BY <1>1, <2>1 DEF PutOK
<1> QED
  BY <1>1, <1>2, <1>3, <1>4, <1>5, <1>6 DEF PutOK, Knows, Describes

LEMMA PutRequest ==
  ASSUME NEW c
  PROVE  /\ RequestOf(c).query.uploadId = c.id
         /\ c.op = "put" => RequestOf(c).method = "PUT"
<1>1. RequestOf(c).query = QueryOf(c) /\ RequestOf(c).method = MethodOf(c)
  BY DEF RequestOf
<1>2. QueryOf(c).uploadId = c.id
  BY DEF QueryOf
<1>3. c.op = "put" => MethodOf(c) = "PUT"
  BY DEF MethodOf
<1> QED
  BY <1>1, <1>2, <1>3

LEMMA PutSent ==
  ASSUME TypeOK, SessionInv, Orderly, NEW f \in Flows, Send(f)
  PROVE  PutOK(f)'
<1>1. PICK c \in ClientCalls[f] :
        /\ c.op = "put" =>
             \E g \in Flows : /\ pc[g] = "done" /\ ans[g].status = "ok"
                              /\ ans[g].uploadId = c.id
        /\ call' = [call EXCEPT ![f] = c]
  BY DEF Send
<1>2. /\ pc'[f] = "request" /\ call'[f] = c /\ ans' = ans
      /\ before'[f] = {g \in Flows : Acked(g)}
  BY <1>1 DEF TypeOK, Send
<1>3. NamesSession(f)' =>
        \E g \in Flows : pc'[g] = "done" /\ Knows(g, call[f].id)'
  <2> SUFFICES ASSUME NamesSession(f)'
               PROVE  \E g \in Flows : pc'[g] = "done" /\ Knows(g, call[f].id)'
    OBVIOUS
  <2>1. PICK g \in Flows : pc[g] = "done" /\ ans[g].uploadId = c.id
    BY <1>1, <1>2 DEF NamesSession
  <2>2. pc'[g] = "done"
    BY <2>1 DEF Orderly, OverStays
  <2>3. ans'[g].uploadId = call'[f].id
    BY <1>2, <2>1
  <2> QED
    BY <2>2, <2>3 DEF Knows
<1>4. ~Converting(f)'
  BY <1>2 DEF Converting
<1>5. \A g \in before'[f] : Acked(g)'
  BY <1>2, AckedStays
<1> QED
  BY <1>2, <1>3, <1>4, <1>5 DEF PutOK

(* The session file of a PUT is still there only if none before it was     *)
(* acknowledged: that one would have used it up.                           *)
LEMMA PutLoaded ==
  ASSUME TypeOK, UploadInv, ExchangeInv, SessionInv, Orderly, NEW f \in Flows,
         ReadSession(f), pc'[f] = "loaded"
  PROVE  PutOK(f)'
<1> DEFINE id == call[f].id
<1>1. /\ pc[f] = "request" /\ req[f] = RequestOf(call[f]) /\ Sent(f)
      /\ Route(f) = "resumableUploadPut" /\ at[f] \in Instances
  BY DEF ReadSession, UploadInv, UploadOK
<1>2. call[f].op = "put"
  BY <1>1, RouteOfUpload
<1>3. req[f].query.uploadId = id
  BY <1>1, PutRequest
<1>4. pc' # [pc EXCEPT ![f] = "forwarded"]
  BY DEF TypeOK
<1>5. /\ id # NoId /\ files[at[f]][id] # NoFile
      /\ sess' = [sess EXCEPT ![f] = files[at[f]][id]]
      /\ UNCHANGED <<service, client, req, ans, files>>
  BY <1>3, <1>4 DEF ReadSession, Forward
<1>6. /\ call' = call /\ at' = at /\ before' = before /\ bound' = bound
      /\ ans' = ans /\ sess'[f] = files[at[f]][id]
  BY <1>5 DEF TypeOK, service, client
<1>7. NamesSession(f) /\ PutOK(f)
  BY <1>1, <1>2, <1>5 DEF NamesSession, SessionInv
<1>8. id \in UploadIds /\ FileMatches(at[f], id)
  BY <1>1, <1>7, SessionBound DEF SessionInv
<1>9. /\ Describes(files[at[f]][id], id)
      /\ \A g \in Flows : Knows(g, id) => at[g] = at[f]
  BY <1>5, <1>8 DEF FileMatches
<1>10. Describes(sess[f], call[f].id)'
  BY <1>6, <1>9 DEF Describes
<1>11. \A g \in Flows : Knows(g, call[f].id)' => at'[g] = at'[f]
  BY <1>6, <1>9 DEF Knows
<1>12. \E g \in Flows : pc'[g] = "done" /\ Knows(g, call[f].id)'
  BY <1>6, <1>7, PosterStays
<1>13. ~Converting(f)'
  BY DEF Converting
<1>14. before[f] \subseteq Flows
  BY DEF TypeOK
<1>15. \A g \in before[f] : Acked(g) /\ Acked(g)'
  BY <1>7, <1>14, AckedStays DEF PutOK
<1>16. ASSUME NEW g \in before'[f], SamePut(f, g)', Intercepted(g)'
       PROVE  FALSE
  <2>1. g \in Flows /\ Acked(g) /\ Sent(g) /\ call[g].op = "put"
        /\ call[g].id = id /\ Intercepted(g)
    BY <1>6, <1>14, <1>15, <1>16 DEF SamePut, Sent, Intercepted, KeyOf
  <2>2. AnswerOK(g) /\ Touched(g)
    BY <2>1 DEF ExchangeInv, Touched, UploadOps
  <2>3. req[g].method = "POST"
    BY <2>1, <2>2 DEF AnswerOK, Acked, WriteOps
  <2>4. Converting(g)
    BY <1>5, <2>1, <2>3 DEF Converting, NamesSession, Acked
  <2>5. files[at[f]][id] = NoFile
    BY <1>1, <2>1, <2>4 DEF SessionInv, PutOK
  <2> QED
    BY <1>5, <2>5
<1>17. NamesSession(f)'
  BY <1>6, <1>7 DEF NamesSession, Sent
<1> QED
  BY <1>6, <1>10, <1>11, <1>12, <1>13, <1>15, <1>16, <1>17 DEF PutOK

(* The file that is used up was the session's only one.                    *)
LEMMA PutConverted ==
  ASSUME TypeOK, UploadInv, SessionInv, Orderly, NEW f \in Flows, ConvertPut(f)
  PROVE  PutOK(f)'
<1> DEFINE id == call[f].id
<1>1. /\ pc[f] = "loaded" /\ req[f] = RequestOf(call[f]) /\ at[f] \in Instances
      /\ pc' = [pc EXCEPT ![f] = "forwarded"]
      /\ UNCHANGED <<service, client, ans>>
      /\ files' = [files EXCEPT ![at[f]][req[f].query.uploadId] = NoFile]
  BY DEF ConvertPut, Forward, RemoveFile, UploadInv, UploadOK
<1>2. req[f].query.uploadId = id
  BY <1>1, PutRequest
<1>3. /\ call' = call /\ at' = at /\ before' = before /\ ans' = ans
      /\ pc'[f] = "forwarded"
  BY <1>1 DEF TypeOK, client
<1>4. /\ PutOK(f) /\ NamesSession(f)
      /\ \A g \in Flows : Knows(g, id) => at[g] = at[f]
  BY <1>1 DEF SessionInv, PutOK
<1>5. id \in UploadIds
  BY <1>4, SessionBound
<1>6. PICK g \in Flows : pc[g] = "done" /\ Knows(g, id)
  BY <1>4 DEF PutOK
<1>7. ASSUME NEW i \in Instances PROVE files'[i][id] = NoFile
  <2>1. CASE i = at[f]
    BY <1>1, <1>2, <1>5, <2>1 DEF TypeOK
  <2>2. CASE i # at[f]
    <3>1. at[g] # i
      BY <1>4, <1>6, <2>2
    <3>2. files[i][id] = NoFile
      BY <1>5, <1>6, <3>1 DEF SessionInv, FileMatches
    <3> QED
      BY <1>1, <2>2, <3>2 DEF TypeOK
  <2> QED
    BY <2>1, <2>2
<1>8. \E h \in Flows : pc'[h] = "done" /\ Knows(h, call[f].id)'
  BY <1>3, <1>4, PosterStays
<1>9. before[f] \subseteq Flows
  BY DEF TypeOK
<1>10. \A h \in before[f] : Acked(h) /\ Acked(h)'
  BY <1>4, <1>9, AckedStays DEF PutOK
<1>11. ASSUME NEW h \in before'[f], SamePut(f, h)', Intercepted(f)',
              Intercepted(h)'
       PROVE  FALSE
  <2>1. SamePut(f, h) /\ Intercepted(f) /\ Intercepted(h) /\ h \in before[f]
    BY <1>3, <1>11 DEF SamePut, Sent, Intercepted, KeyOf
  <2> QED
    BY <1>1, <1>4, <2>1 DEF PutOK
<1> QED
  BY <1>3, <1>7, <1>8, <1>10, <1>11 DEF PutOK

(* Only ConvertPut makes a POST of a PUT.                                  *)
LEMMA StepConverts ==
  ASSUME TypeOK, UploadInv, NEW f \in Flows, Step(f), ~Send(f), ~ConvertPut(f),
         Converting(f)'
  PROVE  Converting(f)
<1>1. call' = call /\ at' = at
  BY ProxyStepFrame, ServiceStepFrame DEF Step
<1>2. NamesSession(f) /\ Intercepted(f)
  BY <1>1 DEF Converting, NamesSession, Sent, Intercepted, KeyOf
<1>3. call[f].op = "put" /\ req[f] \in Requests
  BY <1>2 DEF NamesSession, TypeOK
<1>4. CASE pc[f] = "request"
  <2>1. req[f] = RequestOf(call[f]) /\ call[f] \in Calls /\ at[f] \in Instances
    BY <1>4 DEF TypeOK, UploadInv, UploadOK, Sent
  <2>2. Route(f) = "resumableUploadPut"
    BY <1>2, <1>3, <2>1, UploadRoute
  <2>3. ReadSession(f)
    BY <1>4, <2>2 DEF Step, ProxyStep, ForwardRequest, HandleMetadataRequest,
       HandleMultipartRequest, ConvertSinglePartUpload, ForwardResponse,
       HandleUploadResponse, HandleMetadataResponse, LookupKey,
       HandleSimpleDownloadResponse, CreateSession, WriteSession, ServiceStep,
       GcsWrite, GcsOpenSession, GcsRead, GcsDelete, GcsList, GcsRefuse,
       GcsUnavailable, UpstreamLost, OrphanDropped, Live
  <2>4. req[f].method = "PUT"
    BY <1>3, <2>1, PutRequest
  <2>5. CASE Forward(f, Bodiless(req[f]))
    <3>1. req'[f].method = "PUT"
      BY <1>3, <2>4, <2>5 DEF TypeOK, Forward, Bodiless, Requests
    <3> QED
      BY <3>1 DEF Converting
  <2>6. CASE pc' = [pc EXCEPT ![f] = "loaded"]
    BY <2>6 DEF TypeOK, Converting
  <2> QED
    BY <2>3, <2>5, <2>6 DEF ReadSession
<1>5. CASE pc[f] # "request"
  <2>1. pc[f] \notin {"idle", "request", "loaded"} /\ req' = req
    <3>1. CASE ServiceStep(f)
      <4>1. pc[f] \in {"forwarded", "orphaned", "answered"}
        BY <3>1 DEF ServiceStep, GcsWrite, GcsOpenSession, GcsRead, GcsDelete,
           GcsList, GcsRefuse, GcsUnavailable, UpstreamLost, OrphanDropped, Live
      <4> QED
        BY <3>1, <4>1, ServiceStepFrame
    <3>2. CASE ProxyStep(f)
      BY <1>5, <3>2 DEF ProxyStep, ForwardRequest, HandleMetadataRequest,
         HandleMultipartRequest, ConvertSinglePartUpload, ReadSession,
         ForwardResponse, HandleUploadResponse, HandleMetadataResponse,
         LookupKey, HandleSimpleDownloadResponse, CreateSession, WriteSession,
         Finish
    <3> QED
      BY <3>1, <3>2 DEF Step
  <2> QED
    BY <1>2, <2>1 DEF Converting
<1> QED
  BY <1>4, <1>5

LEMMA StepPut ==
  ASSUME TypeOK, UploadInv, ExchangeInv, SessionInv, NEW f \in Flows, Step(f),
         NEW g \in Flows
  PROVE  PutOK(g)'
<1>1. Orderly
  BY StepOrderly DEF ExchangeInv, ExchangeOK
<1>2. CASE g # f
  <2>1. /\ pc'[g] = pc[g] /\ at'[g] = at[g] /\ req'[g] = req[g]
        /\ call'[g] = call[g] /\ sess'[g] = sess[g] /\ before'[g] = before[g]
    BY <1>2, StepFrame, OthersFrame DEF Step
  <2>2. Converting(g)' => Converting(g)
    BY <2>1 DEF Converting, NamesSession, Sent, Intercepted, KeyOf
  <2> QED
    BY <1>1, <2>1, <2>2, PutStays
<1>3. CASE Send(f)
  BY <1>1, <1>2, <1>3, PutSent
<1>4. CASE ConvertPut(f)
  BY <1>1, <1>2, <1>4, PutConverted
<1>5. CASE ReadSession(f) /\ pc'[f] = "loaded"
  BY <1>1, <1>2, <1>5, PutLoaded
<1>6. CASE /\ g = f /\ ~Send(f) /\ ~ConvertPut(f)
           /\ ~(ReadSession(f) /\ pc'[f] = "loaded")
  <2>1. UNCHANGED <<call, at, before>>
    BY <1>6, ProxyStepFrame, ServiceStepFrame DEF Step
  <2>2. Converting(f)' => Converting(f)
    BY <1>6, StepConverts
  <2>3. pc'[f] # "loaded"
    <3>1. ASSUME NEW r, Forward(f, r) PROVE pc'[f] # "loaded"
      BY <3>1 DEF TypeOK, Forward
    <3>2. ASSUME NEW a, Finish(f, a) PROVE pc'[f] # "loaded"
      BY <3>2 DEF TypeOK, Finish
    <3>3. ASSUME NEW a, Reply(f, a) PROVE pc'[f] # "loaded"
      BY <3>3 DEF TypeOK, Reply
    <3>4. CASE ServiceStep(f)
      <4>1. CASE UpstreamLost(f) \/ OrphanDropped(f)
        BY <4>1 DEF TypeOK, UpstreamLost, OrphanDropped
      <4> QED
        BY <3>3, <3>4, <4>1 DEF ServiceStep, GcsWrite, GcsOpenSession, GcsRead,
           GcsDelete, GcsList, GcsRefuse, GcsUnavailable
    <3>5. CASE LookupKey(f) \/ CreateSession(f)
      BY <3>2, <3>5 DEF TypeOK, LookupKey, CreateSession
    <3>6. CASE \/ ForwardRequest(f) \/ HandleMetadataRequest(f)
               \/ HandleMultipartRequest(f) \/ ConvertSinglePartUpload(f)
               \/ ReadSession(f)
      <4>1. \/ \E r : Forward(f, r)
            \/ ReadSession(f) /\ pc' = [pc EXCEPT ![f] = "loaded"]
        BY <3>6 DEF ForwardRequest, HandleMetadataRequest, ReadSession,
           HandleMultipartRequest, ConvertSinglePartUpload
      <4> QED
        BY <1>6, <3>1, <4>1 DEF TypeOK
    <3>7. CASE \/ ForwardResponse(f) \/ HandleUploadResponse(f)
               \/ HandleMetadataResponse(f) \/ HandleSimpleDownloadResponse(f)
               \/ WriteSession(f)
      BY <3>2, <3>7 DEF ForwardResponse, HandleUploadResponse,
         HandleMetadataResponse, HandleSimpleDownloadResponse, WriteSession
    <3> QED
      BY <1>6, <3>4, <3>5, <3>6, <3>7 DEF Step, ProxyStep
  <2> QED
    BY <1>1, <1>6, <2>1, <2>2, <2>3, PutStays
<1> QED
  BY <1>2, <1>3, <1>4, <1>5, <1>6

LEMMA CrashPut ==
  ASSUME TypeOK, UploadInv, SessionInv, NEW i \in Instances, Crash(i),
         NEW f \in Flows
  PROVE  PutOK(f)'
<1>1. Orderly
  BY CrashOrderly
<1>2. /\ call' = call /\ at' = at /\ req' = req /\ sess' = sess
      /\ before' = before
  BY DEF Crash
<1>3. pc'[f] = "loaded" => pc[f] = "loaded"
  BY DEF Crash
<1>4. ASSUME Converting(f)' PROVE Converting(f)
  <2>1. NamesSession(f) /\ Intercepted(f) /\ req[f].method = "POST"
    BY <1>2, <1>4 DEF Converting, NamesSession, Sent, Intercepted, KeyOf
  <2>2. pc[f] # "idle"
    <3>1. pc[f] = "idle" => pc'[f] = "idle"
      BY AbsenceAssumption DEF Crash, UploadInv, UploadOK
    <3> QED
      BY <1>4, <3>1 DEF Converting
  <2>3. pc[f] \notin {"request", "loaded"}
    BY <2>1, PutRequest DEF NamesSession, UploadInv, UploadOK
  <2> QED
    BY <2>1, <2>2, <2>3 DEF Converting
<1> QED
  BY <1>1, <1>2, <1>3, <1>4, PutStays

(***************************************************************************)
(* The inductive invariant: each of the three needs the other two.  A      *)
(* request is for the object its client meant only if the session file it  *)
(* was read from is its session's; and the file is that only if the POST   *)
(* it was made from had gone out as the client sent it.                    *)
(***************************************************************************)
ProxyInv == IInv /\ ExchangeInv /\ SessionInv

LEMMA ProxyInit == Init => ProxyInv
<1> SUFFICES ASSUME Init PROVE ProxyInv
  OBVIOUS
<1>1. IInv
  BY InvInit
<1>2. ExchangeInv
  BY DEF Init, ExchangeInv, RequestOK, WroteOK, AnswerOK, Out
<1>3. SessionInv
  <2>1. \A f \in Flows, id \in UploadIds : ~Knows(f, id)
    BY SentinelAssumption DEF Init, Knows, NoAnswer
  <2>2. \A id \in UploadIds : GivenOnce(id)
    BY <2>1 DEF GivenOnce
  <2>3. \A i \in Instances, id \in UploadIds : FileMatches(i, id)
    BY DEF Init, FileMatches
  <2>4. \A f \in Flows : PutOK(f)
    BY DEF Init, PutOK, NamesSession, Converting, Sent
  <2> QED
    BY <2>2, <2>3, <2>4 DEF SessionInv
<1> QED
  BY <1>1, <1>2, <1>3 DEF ProxyInv

LEMMA StepKeepsInv ==
  ASSUME TypeOK, UploadInv, ExchangeInv, SessionInv, NEW f \in Flows, Step(f)
  PROVE  ExchangeInv' /\ SessionInv'
<1>1. ExchangeOK(f) /\ Orderly /\ BoundKept
  BY StepOrderly DEF ExchangeInv, ExchangeOK, Orderly
<1>2. ASSUME NEW g \in Flows PROVE ExchangeOK(g)'
  <2>1. CASE g = f
    BY <1>1, <2>1, StepExchange
  <2>2. CASE g # f
    <3>1. /\ pc'[g] = pc[g] /\ at'[g] = at[g] /\ req'[g] = req[g]
          /\ call'[g] = call[g] /\ wrote'[g] = wrote[g] /\ ans'[g] = ans[g]
      BY <2>2, StepFrame, OthersFrame DEF Step
    <3>2. ExchangeOK(g)
      BY DEF ExchangeInv, ExchangeOK
    <3> QED
      BY <1>1, <3>1, <3>2, OtherExchange
  <2> QED
    BY <2>1, <2>2
<1>3. ASSUME NEW id \in UploadIds PROVE GivenOnce(id)'
  BY <1>1, GivenStays, GivenAnew
<1>4. ASSUME NEW i \in Instances, NEW id \in UploadIds
      PROVE  FileMatches(i, id)'
  BY <1>1, FilesMatch
<1>5. ASSUME NEW g \in Flows PROVE PutOK(g)'
  BY StepPut
<1> QED
  BY <1>2, <1>3, <1>4, <1>5 DEF ExchangeInv, ExchangeOK, SessionInv

LEMMA CrashKeepsInv ==
  ASSUME TypeOK, UploadInv, ExchangeInv, SessionInv,
         NEW i \in Instances, Crash(i)
  PROVE  ExchangeInv' /\ SessionInv'
<1>1. /\ Orderly /\ BoundKept
      /\ call' = call /\ at' = at /\ req' = req /\ wrote' = wrote
      /\ bound' = bound
  BY CrashOrderly DEF Crash, service, Orderly
<1>2. ASSUME NEW g \in Flows PROVE ExchangeOK(g)'
  <2>1. ExchangeOK(g)
    BY DEF ExchangeInv, ExchangeOK
  <2>2. CASE pc'[g] = pc[g]
    <3>1. ans'[g] = ans[g]
      BY <2>2 DEF Crash
    <3> QED
      BY <1>1, <2>1, <2>2, <3>1, OtherExchange
  <2>3. CASE pc'[g] # pc[g]
    <3>1. /\ at[g] = i /\ pc[g] \notin {"done", "lost", "orphaned"}
          /\ pc'[g] = IF pc[g] = "forwarded" THEN "orphaned" ELSE "lost"
          /\ ans'[g] = NoAnswer
      BY <2>3 DEF Crash
    <3>2. pc[g] # "idle"
      BY <3>1, AbsenceAssumption DEF UploadInv, UploadOK
    <3> QED
      BY <1>1, <2>1, <3>1, <3>2, OtherExchange
  <2> QED
    BY <2>2, <2>3
<1>3. ASSUME NEW id \in UploadIds PROVE GivenOnce(id)'
  <2>1. CASE bound[id] \in Objects
    BY <1>1, <2>1, GivenStays
  <2>2. CASE bound[id] \notin Objects
    <3>1. \A g \in Flows : ~Knows(g, id)
      BY <2>2 DEF SessionInv, GivenOnce
    <3>2. \A g \in Flows : ans'[g] \in {ans[g], NoAnswer}
      BY DEF Crash
    <3>3. \A g \in Flows : ~Knows(g, id)'
      BY <3>1, <3>2, SentinelAssumption DEF Knows, NoAnswer
    <3> QED
      BY <3>3 DEF GivenOnce
  <2> QED
    BY <2>1, <2>2
<1>4. ASSUME NEW j \in Instances, NEW id \in UploadIds
      PROVE  FileMatches(j, id)'
  BY <1>1, FilesMatch
<1>5. ASSUME NEW g \in Flows PROVE PutOK(g)'
  BY CrashPut
<1> QED
  BY <1>2, <1>3, <1>4, <1>5 DEF ExchangeInv, ExchangeOK, SessionInv

LEMMA StutterKeepsInv ==
  ASSUME ExchangeInv, SessionInv, UNCHANGED vars
  PROVE  ExchangeInv' /\ SessionInv'
<1>1. /\ store' = store /\ bound' = bound /\ wrote' = wrote /\ files' = files
      /\ sess' = sess /\ keyid' = keyid /\ call' = call /\ at' = at
      /\ before' = before /\ crashes' = crashes /\ pc' = pc /\ req' = req
      /\ ans' = ans
  BY DEF vars, service, local, client
<1> USE <1>1 DEF Touched, Intercepted, Sent, KeyOf, Route, Landing, Content
<1>2. ASSUME NEW f \in Flows PROVE RequestOK(f)' /\ WroteOK(f)' /\ AnswerOK(f)'
  <2>1. \A r : Rewritten(f, r)' = Rewritten(f, r) /\ AsSent(f, r)' = AsSent(f, r)
    BY DEF Rewritten, AsSent
  <2>2. RequestOK(f)'
    BY <2>1 DEF ExchangeInv, RequestOK
  <2>3. WroteOK(f)'
    BY DEF ExchangeInv, WroteOK, WriteTarget
  <2>4. AnswerOK(f)'
    BY DEF ExchangeInv, AnswerOK
  <2> QED
    BY <2>2, <2>3, <2>4
<1>3. ASSUME NEW id \in UploadIds PROVE GivenOnce(id)'
  BY DEF SessionInv, GivenOnce, Knows
<1>4. ASSUME NEW i \in Instances, NEW id \in UploadIds
      PROVE  FileMatches(i, id)'
  BY DEF SessionInv, FileMatches, Knows, Describes
<1>5. ASSUME NEW f \in Flows PROVE PutOK(f)'
  BY DEF SessionInv, PutOK, NamesSession, Converting, Knows, Describes, Acked,
         SamePut
<1> QED
  BY <1>2, <1>3, <1>4, <1>5 DEF ExchangeInv, SessionInv

LEMMA ProxyNext == ProxyInv /\ [Next]_vars => ProxyInv'
<1> SUFFICES ASSUME ProxyInv, [Next]_vars PROVE ProxyInv'
  OBVIOUS
<1>1. IInv /\ TypeOK /\ UploadInv /\ ExchangeInv /\ SessionInv
  BY DEF ProxyInv, IInv
<1>2. IInv'
  BY <1>1, InvNext
<1>3. CASE UNCHANGED vars
  BY <1>1, <1>2, <1>3, StutterKeepsInv DEF ProxyInv
<1>4. ASSUME NEW f \in Flows, Step(f) PROVE ProxyInv'
  BY <1>1, <1>2, <1>4, StepKeepsInv DEF ProxyInv
<1>5. ASSUME NEW i \in Instances, Crash(i) PROVE ProxyInv'
  BY <1>1, <1>2, <1>5, CrashKeepsInv DEF ProxyInv
<1> QED
  BY <1>3, <1>4, <1>5 DEF Next, Rest, Step

LEMMA ProxyInductive == Spec => []ProxyInv
BY ProxyInit, ProxyNext, PTL DEF Spec

(***************************************************************************)
(* The theorems.                                                           *)
(***************************************************************************)

(* Whatever handler rewrote it, a request the service acts on is for the   *)
(* object its client meant, with its content and its digest; what the      *)
(* service stored for it is what it says; and a success the client is      *)
(* shown, with the plaintext's digest, is one the service stored.          *)
THEOREM ExchangesKept == Spec => []ExchangeInv
<1>1. ProxyInv => ExchangeInv
  BY DEF ProxyInv
<1> QED
  BY <1>1, ProxyInductive, PTL

(* An upload id is known to the one exchange it was given to, its session  *)
(* file lies with the instance that served that exchange and describes the *)
(* object it was opened for, and a PUT that is turned into an upload has   *)
(* used the file up before anyone else could.                              *)
THEOREM SessionsKept == Spec => []SessionInv
<1>1. ProxyInv => SessionInv
  BY DEF ProxyInv
<1> QED
  BY <1>1, ProxyInductive, PTL

(* After an acknowledged PUT on an upload id no PUT sent later on it is    *)
(* acknowledged, through whichever instances they go and whatever crashed  *)
(* between.                                                                *)
THEOREM SessionsServeOnce == Spec => []OneShotSession
<1>1. ProxyInv => OneShotSession
  <2> SUFFICES ASSUME ProxyInv, NEW f \in Flows, NEW g \in Flows,
                      SamePut(f, g), Intercepted(f), Intercepted(g),
                      g \in before[f], Acked(f)
               PROVE  FALSE
    BY DEF OneShotSession
  <2>1. Touched(f) /\ call[f].op = "put" /\ pc[f] = "done"
    BY DEF Touched, SamePut, UploadOps, Acked
  <2>2. RequestOK(f) /\ AnswerOK(f) /\ PutOK(f)
    BY DEF ProxyInv, ExchangeInv, SessionInv
  <2>3. req[f].method = "POST"
    BY <2>1, <2>2 DEF AnswerOK, Acked, WriteOps, UploadOps
  <2>4. Rewritten(f, req[f])
    BY <2>1, <2>2 DEF RequestOK, Out
  <2>5. call[f].id # NoId
    <3>1. RequestOf(call[f]) \in Requests /\ RequestOf(call[f]).method = "PUT"
      <4>1. call[f] \in Calls
        BY DEF ProxyInv, IInv, TypeOK, SamePut, Sent
      <4> QED
        BY <2>1, <4>1, RequestIsRequest, PutRequest
    <3>2. Bodiless(RequestOf(call[f])).method = "PUT"
      BY <3>1 DEF Bodiless, Requests
    <3> QED
      BY <2>1, <2>3, <2>4, <3>2 DEF Rewritten
  <2>6. Converting(f)
    BY <2>1, <2>3, <2>5 DEF Converting, NamesSession, Acked
  <2> QED
    BY <2>2, <2>6 DEF PutOK
<1> QED
  BY <1>1, ProxyInductive, PTL

(* An upload on condition that the object does not exist replaces nothing, *)
(* unless the handler that encrypts it writes its query anew.              *)
THEOREM NothingClobbered == Spec => []NoClobber
<1>1. ProxyInv => NoClobber
  <2> SUFFICES ASSUME ProxyInv, NEW f \in Flows, Sent(f), call[f].ifAbsent,
                      wrote[f] # NoWrite,
                      Intercepted(f) => call[f].op \notin {"media", "put"}
               PROVE  wrote[f].over = Absent
    BY DEF NoClobber
  <2>1. RequestOK(f) /\ WroteOK(f) /\ call[f] \in Calls
    BY DEF ProxyInv, IInv, ExchangeInv, TypeOK, Sent
  <2>2. /\ IF Touched(f) THEN Rewritten(f, req[f]) ELSE AsSent(f, req[f])
        /\ Accepted(req[f])
        /\ req[f].query.ifAbsent => wrote[f].over = Absent
    BY <2>1 DEF RequestOK, WroteOK
  <2>3. CASE Touched(f)
    <3>1. call[f].op = "multipart"
      BY <2>3 DEF Touched, UploadOps
    <3> QED
      BY <2>2, <2>3, <3>1 DEF Rewritten
  <2>4. CASE req[f] = RequestOf(call[f])
    <3>1. req[f].query.ifAbsent = QueryOf(call[f]).ifAbsent
      BY <2>4 DEF RequestOf
    <3>2. QueryOf(call[f]).ifAbsent = call[f].ifAbsent
      BY DEF QueryOf
    <3> QED
      BY <2>2, <3>1, <3>2
  <2>5. CASE /\ call[f].op = "fields"
             /\ req[f] = [RequestOf(call[f]) EXCEPT
                            !.query = [NoQuery EXCEPT !.alt = "json"]]
    <3>1. RequestOf(call[f]) \in Requests
      BY <2>1, RequestIsRequest
    <3>2. RequestOf(call[f]).method = MethodOf(call[f])
      BY DEF RequestOf
    <3>3. MethodOf(call[f]) = "GET"
      BY <2>5 DEF MethodOf
    <3>4. req[f].method = "GET"
      BY <2>5, <3>1, <3>2, <3>3 DEF Requests
    <3> QED
      BY <2>2, <3>4 DEF Accepted, StoresMultipart, StoresMedia, StoresXml,
                        CompletesSession
  <2> QED
    BY <2>2, <2>3, <2>4, <2>5 DEF AsSent
<1> QED
  BY <1>1, ProxyInductive, PTL

(* A client that was told its upload succeeded finds it stored under the   *)
(* name it asked for, and was shown the digest of what it sent; given that *)
(* names survive the query they go through on a resumable upload.          *)
THEOREM AckedIsStored ==
  ASSUME NamesSurvive
  PROVE  Spec => []AckedUploadStored
<1>1. ProxyInv => AckedUploadStored
  <2> SUFFICES ASSUME ProxyInv, NEW f \in Flows, Acked(f), Intercepted(f)
               PROVE  /\ wrote[f] # NoWrite
                      /\ wrote[f].obj = Intended(f)
                      /\ ans[f].digest = Content(f)
    BY DEF AckedUploadStored
  <2>1. /\ RequestOK(f) /\ WroteOK(f) /\ AnswerOK(f) /\ Touched(f)
        /\ TypeOK /\ SessionInv
    BY DEF ProxyInv, IInv, ExchangeInv, Touched, Acked
  <2>2. /\ wrote[f] # NoWrite /\ req[f].method = "POST"
        /\ ans[f].digest = wrote[f].version.media.data
    BY <2>1 DEF AnswerOK, Acked, WriteOps
  <2>3. /\ Accepted(req[f]) /\ wrote[f].obj = WriteTarget(req[f])
        /\ wrote[f].version = VersionOf(req[f])
    BY <2>1, <2>2 DEF WroteOK
  <2>4. call[f] \in Calls /\ RequestOf(call[f]) \in Requests
    BY <2>1, RequestIsRequest DEF TypeOK, Acked, Sent
  <2>5. Rewritten(f, req[f]) /\ ~(/\ call[f].op = "put"
                                  /\ req[f] = Bodiless(RequestOf(call[f])))
    <3>1. ASSUME call[f].op = "put", req[f] = Bodiless(RequestOf(call[f]))
          PROVE  FALSE
      BY <2>2, <2>4, <3>1, PutRequest DEF Bodiless, Requests
    <3> QED
      BY <2>1, <2>2, <3>1 DEF RequestOK
  <2>6. StoresMultipart(req[f])
    BY <2>2, <2>3, <2>5 DEF Rewritten, Accepted, StoresMedia, StoresXml,
                            CompletesSession
  <2>7. /\ wrote[f].obj = Landing(f)
        /\ wrote[f].version.media.data = Content(f)
        /\ call[f].op = "put" => call[f].id # NoId
    BY <2>3, <2>5, <2>6 DEF Rewritten, WriteTarget
  <2>8. Landing(f) = Intended(f)
    <3>1. CASE call[f].op = "put"
      <4>1. NamesSession(f)
        BY <2>7, <3>1 DEF NamesSession, Acked
      <4>2. bound[call[f].id] \in Objects
        BY <2>1, <4>1, SessionBound
      <4>3. /\ bound[call[f].id] = <<bound[call[f].id][1], bound[call[f].id][2]>>
            /\ bound[call[f].id][2] \in Names
        BY <4>2 DEF Objects
      <4> QED
        BY <3>1, <4>3 DEF Landing, Intended, NamesSurvive
    <3>2. CASE call[f].op # "put"
      BY <3>2 DEF Landing, Intended
    <3> QED
      BY <3>1, <3>2
  <2> QED
    BY <2>2, <2>7, <2>8
<1> QED
  BY <1>1, ProxyInductive, PTL
=============================================================================
