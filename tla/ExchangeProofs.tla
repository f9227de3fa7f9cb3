--------------------------- MODULE ExchangeProofs ---------------------------
(***************************************************************************)
(* Lemmas for SessionProofs: every step of ProxyFlow keeps ExchangeInv of  *)
(* FlowInvariants, one lemma per handler and service action.               *)
(***************************************************************************)
EXTENDS FlowProofs, FlowInvariants

(***************************************************************************)
(* Requests as clients send them.                                          *)
(***************************************************************************)

(* The handlers' tests do not look at the body.                            *)
LEMMA BodilessRoute ==
  ASSUME NEW m, NEW r \in Requests
  PROVE  InterceptGcsMethod(m, Bodiless(r)) = InterceptGcsMethod(m, r)
<1> DEFINE s == Bodiless(r)
<1>1. s.method = r.method /\ s.path = r.path /\ s.query = r.query
  BY DEF Bodiless, Requests
<1> HIDE DEF s
<1>2. IsResumablePath(s) = IsResumablePath(r)
  BY <1>1 DEF IsResumablePath
<1>3. InterceptGcsMethod(m, s) = InterceptGcsMethod(m, r)
  BY <1>1, <1>2 DEF InterceptGcsMethod
<1> QED
  BY <1>3 DEF s

(* Of the calls clients make, these change an object, where they say, and  *)
(* in plaintext.                                                           *)
LEMMA AcceptedCall ==
  ASSUME NEW c \in Calls, Accepted(RequestOf(c))
  PROVE  LET r == RequestOf(c)
         IN  /\ c.op \in WriteOps
             /\ VersionOf(r).media.key = NoKey
             /\ VersionOf(r).stamp = NoStamp
             /\ ~StoresMultipart(r) \/ c.op = "multipart"
<1> DEFINE r == RequestOf(c)
<1>1. /\ r.method = MethodOf(c) /\ r.query = QueryOf(c) /\ r.body = BodyOf(c)
  BY DEF RequestOf
<1>2. IsUpload(r) <=> c.op \in UploadPathOps
  BY CallRoots
<1>3. r.body.media.key = NoKey /\ r.body.meta.stamp = NoStamp
  <2>1. /\ Plain(c.data).key = NoKey /\ NoMedia.key = NoKey
        /\ MetaOf(c).stamp = NoStamp /\ NoMeta.stamp = NoStamp
    BY DEF Plain, NoMedia, MetaOf, NoMeta
  <2>2. BodyOf(c).media.key = NoKey /\ BodyOf(c).meta.stamp = NoStamp
    BY <2>1 DEF BodyOf, NoBody
  <2> QED
    BY <1>1, <2>2
<1>4. Plain(Empty).key = NoKey
  BY DEF Plain
<1> HIDE DEF r
<1>5. VersionOf(r).media.key = NoKey /\ VersionOf(r).stamp = NoStamp
  BY <1>3, <1>4 DEF VersionOf
<1>6. r.method = CASE c.op \in {"multipart", "media", "start"} -> "POST"
                   [] c.op \in {"put", "xmlPut"}               -> "PUT"
                   [] c.op = "delete"                          -> "DELETE"
                   [] OTHER                                    -> "GET"
  BY <1>1 DEF MethodOf
<1>11. r.query.uploadType =
         IF c.op \in {"start", "put"} THEN "resumable"
         ELSE IF c.op \in {"multipart", "media"} THEN c.op ELSE ""
  <2>1. QueryOf(c).uploadType =
          IF c.op \in {"start", "put"} THEN "resumable"
          ELSE IF c.op \in {"multipart", "media"} THEN c.op ELSE ""
    BY DEF QueryOf
  <2> QED
    BY <1>1, <2>1
<1>7. StoresMultipart(r) => c.op = "multipart"
  <2> SUFFICES ASSUME StoresMultipart(r) PROVE c.op = "multipart"
    OBVIOUS
  <2>1. c.op \in UploadPathOps /\ r.query.uploadType = "multipart"
    BY <1>2 DEF StoresMultipart
  <2> QED
    BY <1>11, <2>1 DEF UploadPathOps
<1>8. StoresMedia(r) => c.op = "media"
  <2> SUFFICES ASSUME StoresMedia(r) PROVE c.op = "media"
    OBVIOUS
  <2>1. c.op \in UploadPathOps /\ r.query.uploadType = "media"
    BY <1>2 DEF StoresMedia
  <2> QED
    BY <1>11, <2>1 DEF UploadPathOps
<1>9. StoresXml(r) \/ CompletesSession(r) => c.op \in {"put", "xmlPut"}
  BY <1>6 DEF StoresXml, CompletesSession
<1>10. c.op \in WriteOps
  BY <1>7, <1>8, <1>9 DEF Accepted, WriteOps, UploadOps, r
<1> QED
  BY <1>5, <1>7, <1>10 DEF r

(* The methods of a call tell what it may do.                              *)
LEMMA WriteCall ==
  ASSUME NEW c, c.op \in WriteOps
  PROVE  /\ RequestOf(c).method \in {"POST", "PUT"}
         /\ ~OpensSession(RequestOf(c))
<1>1. RequestOf(c).method = MethodOf(c) /\ RequestOf(c).query = QueryOf(c)
  BY DEF RequestOf
<1>2. MethodOf(c) = IF c.op \in {"multipart", "media"} THEN "POST" ELSE "PUT"
  BY DEF MethodOf, WriteOps, UploadOps
<1>3. c.op \in {"multipart", "media"} => QueryOf(c).uploadType = c.op
  BY DEF QueryOf
<1> QED
  BY <1>1, <1>2, <1>3 DEF OpensSession

(***************************************************************************)
(* What steps leave alone.                                                 *)
(***************************************************************************)
Step(f) == Send(f) \/ ProxyStep(f) \/ ServiceStep(f)

(* The object of a session, once handed out, is never changed.             *)
BoundKept == \A id \in UploadIds : bound[id] \in Objects => bound'[id] = bound[id]

ExchangeOK(f) == RequestOK(f) /\ WroteOK(f) /\ AnswerOK(f)

LEMMA OthersFrame ==
  ASSUME TypeOK, NEW f \in Flows, Step(f), NEW g \in Flows, g # f
  PROVE  ans'[g] = ans[g] /\ before'[g] = before[g]
<1> USE DEF TypeOK, service, local, client
<1>1. CASE Send(f)
  BY <1>1 DEF Send
<1>2. ASSUME NEW r, Forward(f, r)
      PROVE  ans'[g] = ans[g] /\ before'[g] = before[g]
  BY <1>2 DEF Forward
<1>3. ASSUME NEW a, Reply(f, a)
      PROVE  ans'[g] = ans[g] /\ before'[g] = before[g]
  BY <1>3 DEF Reply
<1>4. ASSUME NEW a, Finish(f, a)
      PROVE  ans'[g] = ans[g] /\ before'[g] = before[g]
  BY <1>4 DEF Finish
<1>5. CASE ProxyStep(f)
  <2>1. CASE \/ ForwardRequest(f) \/ HandleMetadataRequest(f)
             \/ HandleMultipartRequest(f) \/ ConvertSinglePartUpload(f)
             \/ ConvertPut(f)
    BY <1>2, <2>1 DEF ForwardRequest, HandleMetadataRequest,
       HandleMultipartRequest, ConvertSinglePartUpload, ConvertPut
  <2>2. CASE ReadSession(f) \/ LookupKey(f)
    BY <1>2, <2>2 DEF ReadSession, LookupKey
  <2>3. CASE \/ ForwardResponse(f) \/ HandleUploadResponse(f)
             \/ HandleMetadataResponse(f) \/ HandleSimpleDownloadResponse(f)
             \/ WriteSession(f)
    BY <1>4, <2>3 DEF ForwardResponse, HandleUploadResponse,
       HandleMetadataResponse, HandleSimpleDownloadResponse, WriteSession
  <2>4. CASE CreateSession(f)
    BY <1>4, <2>4 DEF CreateSession
  <2> QED
    BY <1>5, <2>1, <2>2, <2>3, <2>4 DEF ProxyStep
<1>6. CASE ServiceStep(f)
  <2>1. CASE \/ GcsWrite(f) \/ GcsOpenSession(f) \/ GcsDelete(f)
             \/ GcsList(f) \/ GcsRefuse(f) \/ GcsUnavailable(f)
    BY <1>3, <2>1 DEF GcsWrite, GcsOpenSession, GcsDelete, GcsList,
       GcsRefuse, GcsUnavailable
  <2>2. CASE GcsRead(f)
    BY <1>3, <2>2 DEF GcsRead
  <2>3. CASE UpstreamLost(f) \/ OrphanDropped(f)
    BY <2>3 DEF UpstreamLost, OrphanDropped
  <2> QED
    BY <1>6, <2>1, <2>2, <2>3 DEF ServiceStep
<1> QED
  BY <1>1, <1>5, <1>6 DEF Step

(* The proxy itself touches neither the service nor the history.           *)
LEMMA ProxyStepFrame ==
  ASSUME NEW f \in Flows, ProxyStep(f)
  PROVE  UNCHANGED <<store, bound, wrote, call, at, before, crashes>>
BY DEF ProxyStep, ForwardRequest, HandleMetadataRequest,
       HandleMultipartRequest, ConvertSinglePartUpload, ReadSession,
       ConvertPut, ForwardResponse, HandleUploadResponse,
       HandleMetadataResponse, LookupKey, HandleSimpleDownloadResponse,
       CreateSession, WriteSession, Forward, Finish, service, client

(* The service touches nothing of the instances' state.                     *)
LEMMA ServiceStepFrame ==
  ASSUME NEW f \in Flows, ServiceStep(f)
  PROVE  /\ UNCHANGED <<files, sess, keyid, call, at, before, crashes, req>>
         /\ ~GcsWrite(f) => wrote' = wrote
         /\ ~GcsOpenSession(f) => bound' = bound
<1> USE DEF local, service, client
<1>1. ASSUME NEW a, Reply(f, a)
      PROVE  UNCHANGED <<files, sess, keyid, call, at, before, crashes, req>>
  BY <1>1 DEF Reply
<1>2. CASE GcsWrite(f)
  BY <1>1, <1>2 DEF GcsWrite
<1>3. CASE GcsOpenSession(f)
  BY <1>1, <1>3 DEF GcsOpenSession
<1>4. CASE GcsRead(f)
  BY <1>1, <1>4 DEF GcsRead
<1>5. CASE GcsDelete(f) \/ GcsList(f) \/ GcsRefuse(f) \/ GcsUnavailable(f)
  BY <1>1, <1>5 DEF GcsDelete, GcsList, GcsRefuse, GcsUnavailable
<1>6. CASE UpstreamLost(f) \/ OrphanDropped(f)
  BY <1>6 DEF UpstreamLost, OrphanDropped
<1> QED
  BY <1>2, <1>3, <1>4, <1>5, <1>6 DEF ServiceStep

LEMMA StepKeepsBound ==
  ASSUME TypeOK, NEW f \in Flows, Step(f)
  PROVE  BoundKept
<1>1. CASE GcsOpenSession(f)
  <2>1. PICK id \in FreeIds : \E o : bound' = [bound EXCEPT ![id] = o]
    BY <1>1 DEF GcsOpenSession
  <2>2. id \in UploadIds /\ bound[id] \notin Objects
    BY <2>1, AbsenceAssumption DEF FreeIds
  <2>3. \A i \in UploadIds : i # id => bound'[i] = bound[i]
    BY <2>1 DEF TypeOK
  <2> QED
    BY <2>2, <2>3 DEF BoundKept
<1>2. CASE ~GcsOpenSession(f)
  <2>1. bound' = bound
    <3>1. CASE Send(f)
      BY <3>1 DEF Send, service
    <3>2. CASE ProxyStep(f)
      BY <3>2, ProxyStepFrame
    <3>3. CASE ServiceStep(f)
      BY <1>2, <3>3, ServiceStepFrame
    <3> QED
      BY <3>1, <3>2, <3>3 DEF Step
  <2> QED
    BY <2>1 DEF BoundKept
<1> QED
  BY <1>1, <1>2

(***************************************************************************)
(* Requests on their way: RequestOK and WroteOK.                           *)
(***************************************************************************)
LEMMA SessionBound ==
  ASSUME TypeOK, SessionInv, NEW f \in Flows, NamesSession(f)
  PROVE  call[f].id \in UploadIds /\ bound[call[f].id] \in Objects
<1>1. call[f] \in Calls
  BY DEF TypeOK, NamesSession, Sent
<1>2. call[f].id \in UploadIds
  BY <1>1, CallParts DEF NamesSession
<1>3. PICK g \in Flows : Knows(g, call[f].id)
  BY DEF SessionInv, PutOK
<1> QED
  BY <1>2, <1>3 DEF SessionInv, GivenOnce

LEMMA RewrittenFrame ==
  ASSUME TypeOK, SessionInv, BoundKept, NEW f \in Flows, Sent(f),
         call'[f] = call[f], at'[f] = at[f], NEW r, req'[f] = r,
         Rewritten(f, r)
  PROVE  Rewritten(f, req[f])'
<1>1. CASE call[f].op = "put" /\ r = Bodiless(RequestOf(call[f]))
  BY <1>1 DEF Rewritten
<1>2. CASE ~(call[f].op = "put" /\ r = Bodiless(RequestOf(call[f])))
  <2>1. call[f].op = "put" => call[f].id # NoId
    BY <1>2 DEF Rewritten
  <2>2. call[f].op = "put" => bound'[call[f].id] = bound[call[f].id]
    BY <2>1, SessionBound DEF NamesSession, BoundKept
  <2>3. Landing(f)' = Landing(f)
    BY <2>2 DEF Landing
  <2>4. Content(f)' = Content(f)
    BY DEF Content
  <2> QED
    BY <1>2, <2>3, <2>4 DEF Rewritten
<1> QED
  BY <1>1, <1>2

LEMMA AsSentFrame ==
  ASSUME NEW f \in Flows, call'[f] = call[f], NEW r, req'[f] = r, AsSent(f, r)
  PROVE  AsSent(f, req[f])'
BY DEF AsSent

LEMMA TouchedFrame ==
  ASSUME NEW f \in Flows, call'[f] = call[f], at'[f] = at[f]
  PROVE  Touched(f)' = Touched(f) /\ Intercepted(f)' = Intercepted(f)
BY DEF Touched, Intercepted, Sent, KeyOf

(* A request stays what it is when its flow moves on.                      *)
LEMMA RequestFrame ==
  ASSUME TypeOK, SessionInv, BoundKept, NEW f \in Flows, RequestOK(f), Sent(f),
         call'[f] = call[f], at'[f] = at[f], req'[f] = req[f],
         pc'[f] = "loaded" => pc[f] = "loaded",
         pc'[f] \in Out \/ wrote'[f] # NoWrite
           => pc[f] \in Out \/ wrote[f] # NoWrite
  PROVE  RequestOK(f)'
<1>1. Touched(f)' = Touched(f)
  BY TouchedFrame
<1>2. Rewritten(f, req[f]) => Rewritten(f, req[f])'
  BY RewrittenFrame
<1>3. AsSent(f, req[f]) => AsSent(f, req[f])'
  BY AsSentFrame
<1> QED
  BY <1>1, <1>2, <1>3 DEF RequestOK

LEMMA WroteFrame ==
  ASSUME TypeOK, BoundKept, NEW f \in Flows, WroteOK(f),
         wrote'[f] = wrote[f],
         wrote[f] # NoWrite =>
           /\ req'[f] = req[f]
           /\ pc'[f] \in {"answered", "keyed", "created", "done", "lost"}
  PROVE  WroteOK(f)'
<1> SUFFICES ASSUME wrote[f] # NoWrite PROVE WroteOK(f)'
  BY DEF WroteOK
<1>1. wrote[f].obj \in Objects /\ wrote[f].obj = WriteTarget(req[f])
  BY DEF TypeOK, Writes, WroteOK
<1>2. /\ req[f] \in Requests
      /\ CompletesSession(req[f]) => req[f].query.uploadId \in UploadIds
  BY DEF TypeOK, CompletesSession, Requests, Queries
<1>3. WriteTarget(req[f])' = WriteTarget(req[f])
  BY <1>1, <1>2 DEF WriteTarget, BoundKept
<1> QED
  BY <1>3 DEF WroteOK

(* The request handlers' common end.                                       *)
LEMMA ForwardExchange ==
  ASSUME TypeOK, UploadInv, SessionInv, NEW f \in Flows, ExchangeOK(f),
         pc[f] \in {"request", "loaded"}, NEW r, Forward(f, r),
         IF Touched(f) THEN Rewritten(f, r) ELSE AsSent(f, r)
  PROVE  ExchangeOK(f)'
<1>1. /\ pc'[f] = "forwarded" /\ req'[f] = r /\ ans'[f] = ans[f]
      /\ wrote'[f] = wrote[f] /\ call'[f] = call[f] /\ at'[f] = at[f]
      /\ bound' = bound
  BY DEF TypeOK, Forward, service, client
<1>2. wrote[f] = NoWrite /\ ans[f] = NoAnswer
  BY DEF ExchangeOK, WroteOK, AnswerOK
<1>3. Sent(f) /\ BoundKept
  BY <1>1 DEF UploadInv, UploadOK, BoundKept
<1>4. RequestOK(f)'
  <2>1. Touched(f)' = Touched(f)
    BY <1>1, TouchedFrame
  <2>2. Rewritten(f, r) => Rewritten(f, req[f])'
    BY <1>1, <1>3, RewrittenFrame
  <2>3. AsSent(f, r) => AsSent(f, req[f])'
    BY <1>1, AsSentFrame
  <2> QED
    BY <1>1, <2>1, <2>2, <2>3 DEF RequestOK
<1>5. WroteOK(f)'
  BY <1>1, <1>2 DEF WroteOK
<1>6. AnswerOK(f)'
  BY <1>1, <1>2 DEF AnswerOK
<1> QED
  BY <1>4, <1>5, <1>6 DEF ExchangeOK

LEMMA NoFields ==
  ASSUME NEW r \in Requests, r.query.fields = FALSE
  PROVE  [r EXCEPT !.query.fields = FALSE] = r
BY DEF Requests, Queries

(* What is not intercepted, or no upload, is forwarded as it came.         *)
LEMMA ForwardedExchange ==
  ASSUME TypeOK, UploadInv, SessionInv, NEW f \in Flows, ExchangeOK(f),
         ForwardRequest(f) \/ HandleMetadataRequest(f)
  PROVE  ExchangeOK(f)'
<1> DEFINE c == call[f]
           r == RequestOf(c)
           t == [WithRewrittenQuery(r) EXCEPT !.query.fields = FALSE]
<1>1. /\ pc[f] = "request" /\ at[f] \in Instances /\ c \in Calls
      /\ req[f] = r /\ r \in Requests
      /\ Route(f) \in {"passThru", "resumableUploadPost", "simpleDownload",
                       "metadataRequest"}
  BY DEF TypeOK, UploadInv, UploadOK, Sent, ForwardRequest,
         HandleMetadataRequest
<1>2. ~Touched(f)
  BY <1>1, UploadRoute DEF Touched, UploadOps
<1>3. CASE ForwardRequest(f)
  <2>1. Forward(f, r) /\ AsSent(f, r)
    BY <1>1, <1>3 DEF ForwardRequest, AsSent
  <2> QED
    BY <1>1, <1>2, <2>1, ForwardExchange
<1>4. CASE HandleMetadataRequest(f)
  <2>1. Forward(f, t)
    BY <1>1, <1>4 DEF HandleMetadataRequest
  <2>2. /\ r.query = QueryOf(c) /\ r.query \in Queries
        /\ r.query.fields = (c.op = "fields")
        /\ c.op = "fields" => r.query.alt = ""
    BY <1>1 DEF RequestOf, QueryOf, Requests
  <2>3. AsSent(f, t)
    <3>1. CASE c.op = "fields"
      <4> DEFINE q == [NoQuery EXCEPT !.alt = "json"]
                 x == [r EXCEPT !.query = q]
      <4>1. WithRewrittenQuery(r) = x
        BY <2>2, <3>1 DEF WithRewrittenQuery
      <4>2. q \in Queries /\ q.fields = FALSE
        BY AbsentTyped DEF NoQuery, Queries
      <4>3. x \in Requests /\ x.query.fields = FALSE
        <5> HIDE DEF q, r
        <5> QED
          BY <1>1, <4>2 DEF Requests
      <4> QED
        BY <3>1, <4>1, <4>3, NoFields DEF AsSent
    <3>2. CASE c.op # "fields"
      <4>1. r.query.fields = FALSE /\ WithRewrittenQuery(r) = r
        BY <2>2, <3>2 DEF WithRewrittenQuery
      <4> QED
        BY <1>1, <4>1, NoFields DEF AsSent
    <3> QED
      BY <3>1, <3>2
  <2> HIDE DEF t
  <2> QED
    BY <1>1, <1>2, <2>1, <2>3, ForwardExchange
<1> QED
  BY <1>3, <1>4

(* Only the uploads an instance rewrites are routed to the handlers that   *)
(* do.                                                                     *)
LEMMA RouteOfUpload ==
  ASSUME TypeOK, UploadInv, NEW f \in Flows, pc[f] = "request",
         Route(f) \in {"multiPartUpload", "singlePartUpload",
                       "resumableUploadPut"}
  PROVE  /\ Touched(f)
         /\ Route(f) = "multiPartUpload" => call[f].op = "multipart"
         /\ Route(f) = "singlePartUpload" => call[f].op = "media"
         /\ Route(f) = "resumableUploadPut" => call[f].op = "put"
<1>1. /\ Sent(f) /\ call[f] \in Calls /\ req[f] = RequestOf(call[f])
      /\ at[f] \notin EncryptDisabled
      /\ Route(f) = InterceptGcsMethod(Mapping[at[f]], RequestOf(call[f]))
  BY DEF TypeOK, UploadInv, UploadOK, Sent, Route
<1>2. /\ GetKMSKeyName(Mapping[at[f]], call[f].bucket) # NoKey
      /\ Route(f) = "multiPartUpload" => call[f].op = "multipart"
      /\ Route(f) = "singlePartUpload" => call[f].op = "media"
      /\ Route(f) = "resumableUploadPut" => call[f].op = "put"
  BY <1>1, CallRoute
<1> QED
  BY <1>1, <1>2 DEF Touched, Intercepted, KeyOf, UploadOps

(* What is to be shown of a request the handlers have made multipart.      *)
LEMMA MultipartRewritten ==
  ASSUME NEW f \in Flows, NEW b \in Segments, NEW x, NEW k,
         x.method = "POST", x.query.uploadType = "multipart",
         x.path = UploadPath(b),
         call[f].op = "multipart" => x.query.ifAbsent = call[f].ifAbsent,
         call[f].op = "put" => call[f].id # NoId,
         StoresMultipart(x) =>
           /\ KeyOf(f, b) # NoKey
           /\ <<b, UploadName(x)>> = Landing(f)
           /\ x.body.media.data = Content(f) /\ x.digest = Content(f)
           /\ x.body.meta.stamp = Stamp(k, Content(f))
  PROVE  Rewritten(f, x)
<1>1. ASSUME StoresMultipart(x)
      PROVE  /\ <<UrlBucket(x), UploadName(x)>> = Landing(f)
             /\ InterceptGcsMethod(Mapping[at[f]], x) = "multiPartUpload"
             /\ x.digest = Content(f)
             /\ VersionOf(x).media.data = Content(f) /\ Truthful(VersionOf(x))
  <2>1. UrlBucket(x) = b
    BY <1>1, UploadUrl DEF StoresMultipart
  <2>2. /\ IsUploadPath(x.path) /\ GetBucketNameFromRequestUri(x.path) = b
        /\ GetKMSKeyName(Mapping[at[f]], b) # NoKey
    BY <1>1, UploadPathTests, UploadBucket DEF KeyOf
  <2>3. InterceptGcsMethod(Mapping[at[f]], x) = "multiPartUpload"
    BY <2>2 DEF InterceptGcsMethod
  <2>4. x.body # NoBody
    BY <1>1 DEF StoresMultipart, NoBody
  <2>5. /\ VersionOf(x).media.data = Content(f)
        /\ VersionOf(x).stamp = Stamp(k, Content(f))
    BY <1>1, <2>4 DEF VersionOf
  <2>6. Truthful(VersionOf(x))
    BY <2>5 DEF Truthful, ShownDigest, Stamp
  <2> QED
    BY <1>1, <2>1, <2>3, <2>5, <2>6
<1> QED
  BY <1>1 DEF Rewritten

LEMMA HandleMultipartExchange ==
  ASSUME TypeOK, UploadInv, SessionInv, NEW f \in Flows, ExchangeOK(f),
         HandleMultipartRequest(f)
  PROVE  ExchangeOK(f)'
<1> DEFINE c == call[f]
           r == RequestOf(c)
           b == c.bucket
<1>1. /\ pc[f] = "request" /\ at[f] \in Instances /\ c \in Calls
      /\ req[f] = r /\ r \in Requests /\ Route(f) = "multiPartUpload"
  BY DEF TypeOK, UploadInv, UploadOK, Sent, HandleMultipartRequest
<1>2. Touched(f) /\ c.op = "multipart" /\ KeyOf(f, b) # NoKey
  BY <1>1, RouteOfUpload DEF Touched, Intercepted
<1>3. /\ b \in Segments /\ c.name # NoName /\ r.path = UploadPath(b)
      /\ r.method = "POST" /\ r.query.uploadType = "multipart"
      /\ r.query.ifAbsent = c.ifAbsent
      /\ r.body = [form |-> IF c.shape = "none" THEN "multipart" ELSE c.shape,
                   meta |-> MetaOf(c), media |-> Plain(c.data)]
      /\ c.shape \in {"none", "json", "nested", "file", "garbled"}
  <2>1. QueryOf(c).uploadType = "multipart" /\ QueryOf(c).ifAbsent = c.ifAbsent
    BY <1>2 DEF QueryOf
  <2>2. MethodOf(c) = "POST" /\ PathOf(c) = UploadPath(b)
    BY <1>2 DEF MethodOf, PathOf
  <2>3. BodyOf(c) = [form |-> IF c.shape = "none" THEN "multipart" ELSE c.shape,
                     meta |-> MetaOf(c), media |-> Plain(c.data)]
    BY <1>2 DEF BodyOf
  <2> QED
    BY <1>1, <2>1, <2>2, <2>3, CallParts DEF RequestOf
<1>4. Landing(f) = <<b, c.name>> /\ r.body.meta.name = c.name
  BY <1>2, <1>3 DEF Landing, MetaOf
<1>5. PICK key :
        \/ Forward(f, Bodiless(r))
        \/ r.body.form = "file" /\ Forward(f, Emptied(r, key))
        \/ /\ r.body.form = "multipart"
           /\ \E m \in EncryptBytes(key, r.body.media.data) :
                Forward(f, IF m = NoMedia THEN Bodiless(r)
                           ELSE SealedMultipart(r, key, m))
  BY <1>1 DEF HandleMultipartRequest
<1>6. Rewritten(f, Bodiless(r))
  <2> DEFINE y == Bodiless(r)
  <2>1. /\ y.method = "POST" /\ y.query = r.query /\ y.path = UploadPath(b)
        /\ y.body = NoBody
    BY <1>1, <1>3 DEF Bodiless, Requests
  <2> HIDE DEF y
  <2>2. ~StoresMultipart(y)
    BY <2>1 DEF StoresMultipart, NoBody
  <2>3. Rewritten(f, y)
    BY <1>2, <1>3, <2>1, <2>2, MultipartRewritten
  <2> QED
    BY <2>3 DEF y
<1>7. r.body.form = "file" => Rewritten(f, Emptied(r, key))
  <2> SUFFICES ASSUME r.body.form = "file"
               PROVE  Rewritten(f, Emptied(r, key))
    OBVIOUS
  <2> DEFINE y == Emptied(r, key)
  <2>1. /\ y.method = "POST" /\ y.query = r.query /\ y.path = UploadPath(b)
        /\ y.body.meta.name = c.name /\ y.digest = Empty
        /\ y.body.media = Plain(Empty)
        /\ y.body.meta.stamp = Stamp(key, Empty)
    BY <1>1, <1>3, <1>4 DEF Emptied, Requests, Bodies, Metas
  <2>2. Content(f) = Empty
    BY <1>2, <1>3 DEF Content
  <2> HIDE DEF y
  <2>3. UploadName(y) = c.name /\ y.body.media.data = Empty
    BY <1>3, <2>1 DEF UploadName, Plain
  <2>4. Rewritten(f, y)
    BY <1>2, <1>3, <1>4, <2>1, <2>2, <2>3, MultipartRewritten
  <2> QED
    BY <2>4 DEF y
<1>8. ASSUME r.body.form = "multipart",
             NEW m \in EncryptBytes(key, r.body.media.data), m # NoMedia
      PROVE  Rewritten(f, SealedMultipart(r, key, m))
  <2> DEFINE y == SealedMultipart(r, key, m)
  <2>1. /\ y.method = "POST" /\ y.query = r.query /\ y.path = UploadPath(b)
        /\ y.body.meta.name = c.name /\ y.digest = r.body.media.data
        /\ y.body.media = m
        /\ y.body.meta.stamp = Stamp(key, r.body.media.data)
    BY <1>1, <1>3, <1>4 DEF SealedMultipart, Requests, Bodies, Metas
  <2>2. r.body.media.data = c.data /\ m.data = c.data
    BY <1>3, <1>8 DEF Plain, EncryptBytes
  <2>3. Content(f) = c.data
    BY <1>3, <1>8 DEF Content
  <2> HIDE DEF y
  <2>4. UploadName(y) = c.name
    BY <1>3, <2>1 DEF UploadName
  <2>5. Rewritten(f, y)
    BY <1>2, <1>3, <1>4, <2>1, <2>2, <2>3, <2>4, MultipartRewritten
  <2> QED
    BY <2>5 DEF y
<1>9. \E y : Forward(f, y) /\ Rewritten(f, y)
  BY <1>5, <1>6, <1>7, <1>8
<1> QED
  BY <1>1, <1>2, <1>9, ForwardExchange

LEMMA ConvertedRewritten ==
  ASSUME NEW f \in Flows, NEW b \in Segments, NEW r \in Requests,
         r.path = UploadPath(b), r.body.form = "raw",
         r.body.media.data = call[f].data, call[f].op # "multipart",
         call[f].op = "put" => call[f].id # NoId,
         <<b, r.query.name>> = Landing(f),
         NEW m \in EncryptBytes(KeyOf(f, GetBucketNameFromRequestUri(r.path)),
                                r.body.media.data)
  PROVE  /\ Rewritten(f, Converted(r, m))
         /\ m = NoMedia => Rewritten(f, Bodiless(Converted(r, m)))
<1> DEFINE q == Relabelled(r)
           x == Converted(r, m)
           d == call[f].data
<1>1. /\ q \in Requests /\ q.method = "POST" /\ q.query = NewQuery
      /\ q.path = UploadPath(b) /\ q.body = r.body /\ q.digest = d
  BY RewritesTyped DEF Relabelled, Requests
<1>2. NewQuery.uploadType = "multipart" /\ NewQuery.name = NoName
  BY DEF NewQuery, NoQuery
<1>3. GetBucketNameFromRequestUri(r.path) = b /\ Content(f) = d
  BY UploadBucket DEF Content
<1>4. ASSUME m = NoMedia
      PROVE  Rewritten(f, x) /\ Rewritten(f, Bodiless(x))
  <2>1. x = q
    BY <1>4 DEF Converted
  <2>2. ~StoresMultipart(q)
    BY <1>1 DEF StoresMultipart
  <2> DEFINE y == Bodiless(q)
  <2>3. /\ y.method = "POST" /\ y.query = NewQuery /\ y.path = UploadPath(b)
        /\ y.body = NoBody
    BY <1>1 DEF Bodiless, Requests
  <2> HIDE DEF y, q, x
  <2>4. ~StoresMultipart(y)
    BY <2>3 DEF StoresMultipart, NoBody
  <2>5. Rewritten(f, q)
    BY <1>1, <1>2, <2>2, MultipartRewritten
  <2>6. Rewritten(f, y)
    BY <1>2, <2>3, <2>4, MultipartRewritten
  <2> QED
    BY <2>1, <2>5, <2>6 DEF y
<1>5. ASSUME m # NoMedia
      PROVE  Rewritten(f, x)
  <2> DEFINE meta == [bucket |-> b, name |-> r.query.name,
                      stamp |-> Stamp(m.key, d)]
             body == [form |-> "multipart", media |-> m, meta |-> meta]
  <2>1. x = [q EXCEPT !.body = body]
    BY <1>3, <1>5 DEF Converted
  <2>2. /\ x.method = "POST" /\ x.query = NewQuery /\ x.path = UploadPath(b)
        /\ x.body = body /\ x.digest = d
    <3> HIDE DEF body, q
    <3> QED
      BY <1>1, <2>1 DEF Requests
  <2>3. m.data = d /\ KeyOf(f, b) # NoKey
    BY <1>3, <1>5 DEF EncryptBytes
  <2>4. /\ x.body.meta.name = r.query.name /\ x.body.media = m
        /\ x.body.meta.stamp = Stamp(m.key, d)
    BY <2>2
  <2> HIDE DEF x
  <2>5. UploadName(x) = r.query.name
    BY <1>2, <2>2, <2>4 DEF UploadName
  <2> QED
    BY <1>2, <1>3, <2>2, <2>3, <2>4, <2>5, MultipartRewritten
<1> QED
  BY <1>4, <1>5

LEMMA ConvertSinglePartExchange ==
  ASSUME TypeOK, UploadInv, SessionInv, NEW f \in Flows, ExchangeOK(f),
         ConvertSinglePartUpload(f)
  PROVE  ExchangeOK(f)'
<1> DEFINE c == call[f]
           r == RequestOf(c)
           b == c.bucket
<1>1. /\ pc[f] = "request" /\ at[f] \in Instances /\ c \in Calls
      /\ req[f] = r /\ r \in Requests /\ Route(f) = "singlePartUpload"
  BY DEF TypeOK, UploadInv, UploadOK, Sent, ConvertSinglePartUpload
<1>2. Touched(f) /\ c.op = "media"
  BY <1>1, RouteOfUpload
<1>3. /\ b \in Segments /\ r.path = UploadPath(b) /\ r.body.form = "raw"
      /\ r.body.media.data = c.data /\ r.query.name = c.name
  <2>1. PathOf(c) = UploadPath(b) /\ QueryOf(c).name = c.name
    BY <1>2 DEF PathOf, QueryOf
  <2>2. BodyOf(c) = [form |-> "raw", meta |-> NoMeta, media |-> Plain(c.data)]
    BY <1>2 DEF BodyOf
  <2> QED
    BY <1>1, <2>1, <2>2, CallParts DEF RequestOf, Plain
<1>4. <<b, r.query.name>> = Landing(f)
  BY <1>2, <1>3 DEF Landing
<1>5. PICK m \in EncryptBytes(KeyOf(f, GetBucketNameFromRequestUri(r.path)),
                              r.body.media.data) :
        Forward(f, IF m = NoMedia THEN Bodiless(Converted(r, m))
                   ELSE Converted(r, m))
  BY <1>1 DEF ConvertSinglePartUpload
<1> HIDE DEF r, c
<1>6. /\ Rewritten(f, Converted(r, m))
      /\ m = NoMedia => Rewritten(f, Bodiless(Converted(r, m)))
  BY <1>1, <1>2, <1>3, <1>4, ConvertedRewritten DEF c
<1> QED
  BY <1>1, <1>2, <1>5, <1>6, ForwardExchange

LEMMA ReadSessionExchange ==
  ASSUME TypeOK, UploadInv, SessionInv, NEW f \in Flows, ExchangeOK(f),
         ReadSession(f)
  PROVE  ExchangeOK(f)'
<1> DEFINE r == RequestOf(call[f])
<1>1. /\ pc[f] = "request" /\ at[f] \in Instances /\ call[f] \in Calls
      /\ req[f] = r /\ Route(f) = "resumableUploadPut"
  BY DEF TypeOK, UploadInv, UploadOK, Sent, ReadSession
<1>2. Touched(f) /\ call[f].op = "put"
  BY <1>1, RouteOfUpload
<1>3. CASE Forward(f, Bodiless(r))
  <2>1. Rewritten(f, Bodiless(r))
    BY <1>2 DEF Rewritten
  <2> QED
    BY <1>1, <1>2, <1>3, <2>1, ForwardExchange
<1>4. CASE /\ pc' = [pc EXCEPT ![f] = "loaded"]
           /\ UNCHANGED <<service, client, req, ans, files, keyid>>
  <2>1. /\ pc'[f] = "loaded" /\ ans'[f] = ans[f] /\ wrote'[f] = wrote[f]
        /\ call'[f] = call[f] /\ at'[f] = at[f]
    BY <1>4 DEF TypeOK, service, client
  <2>2. wrote[f] = NoWrite /\ ans[f] = NoAnswer
    BY <1>1 DEF ExchangeOK, WroteOK, AnswerOK
  <2>3. Touched(f)'
    BY <1>2, <2>1, TouchedFrame
  <2> QED
    BY <2>1, <2>2, <2>3 DEF ExchangeOK, RequestOK, WroteOK, AnswerOK, Out
<1> QED
  BY <1>1, <1>3, <1>4 DEF ReadSession

LEMMA ConvertPutExchange ==
  ASSUME TypeOK, UploadInv, SessionInv, NEW f \in Flows, ExchangeOK(f),
         ConvertPut(f)
  PROVE  ExchangeOK(f)'
<1> DEFINE c == call[f]
           r == RequestOf(c)
           s == sess[f]
           x == AtSession(r, s)
<1>1. /\ pc[f] = "loaded" /\ at[f] \in Instances /\ c \in Calls
      /\ req[f] = r /\ r \in Requests /\ c.op = "put"
      /\ s \in Sessions \cup {BadFile}
  BY DEF TypeOK, UploadInv, UploadOK, Sent, ConvertPut
<1>2. Touched(f) /\ NamesSession(f) /\ Describes(s, c.id)
  BY <1>1 DEF ExchangeOK, RequestOK, SessionInv, PutOK
<1>3. CASE s = BadFile
  <2>1. Forward(f, Bodiless(r)) /\ Rewritten(f, Bodiless(r))
    BY <1>1, <1>3 DEF ConvertPut, Rewritten
  <2> QED
    BY <1>1, <1>2, <2>1, ForwardExchange
<1>4. CASE s # BadFile
  <2>1. PICK m \in EncryptBytes(
                     KeyOf(f, GetBucketNameFromRequestUri(x.path)),
                     x.body.media.data) : Forward(f, Converted(x, m))
    BY <1>1, <1>4 DEF ConvertPut
  <2>2. /\ bound[c.id] \in Objects /\ <<s.bucket, s.name>> = bound[c.id]
        /\ s \in Sessions
    BY <1>1, <1>2, <1>4, SessionBound DEF Describes
  <2>3. s.bucket = bound[c.id][1] /\ s.name = bound[c.id][2] /\ s.name \in Names
    BY <2>2 DEF Objects
  <2>4. /\ x \in Requests /\ x.path = UploadPath(s.bucket)
        /\ x.query.name = QueryRoundTrip[s.name] /\ x.body = r.body
    <3>1. x \in Requests
      BY <1>1, <2>2, RewritesTyped
    <3> DEFINE q == [NoQuery EXCEPT !.name = QueryRoundTrip[s.name]]
    <3>2. x = [r EXCEPT !.path = UploadPath(s.bucket), !.query = q]
      BY <2>3 DEF AtSession
    <3>3. q.name = QueryRoundTrip[s.name]
      BY DEF NoQuery
    <3> HIDE DEF q, x, r
    <3> QED
      BY <1>1, <3>1, <3>2, <3>3 DEF Requests
  <2>5. r.body.form = "raw" /\ r.body.media.data = c.data
    <3>1. BodyOf(c) = [form |-> "raw", meta |-> NoMeta,
                       media |-> Plain(c.data)]
      BY <1>1 DEF BodyOf
    <3> QED
      BY <3>1 DEF RequestOf, Plain
  <2>6. <<s.bucket, x.query.name>> = Landing(f)
    BY <1>1, <2>3, <2>4 DEF Landing
  <2>7. s.bucket \in Segments /\ c.id # NoId
    BY <1>2, <2>2 DEF Sessions, NamesSession
  <2> HIDE DEF x, c, s
  <2>8. Rewritten(f, Converted(x, m))
    BY <1>1, <2>4, <2>5, <2>6, <2>7, ConvertedRewritten DEF c
  <2> QED
    BY <1>1, <1>2, <2>1, <2>8, ForwardExchange
<1> QED
  BY <1>3, <1>4

(***************************************************************************)
(* Answers.                                                                *)
(***************************************************************************)

(* A write is never routed to a handler of reads, and goes back through    *)
(* ForwardResponse only if no instance touched it.                         *)
LEMMA WriteRoute ==
  ASSUME TypeOK, UploadInv, NEW f \in Flows, RequestOK(f), WroteOK(f),
         pc[f] \in Out, call[f].op \in WriteOps
  PROVE  /\ req[f].method \in {"POST", "PUT"} /\ ~OpensSession(req[f])
         /\ Route(f) \notin {"simpleDownload", "metadataRequest",
                             "resumableUploadPost"}
         /\ wrote[f] # NoWrite /\ Route(f) = "passThru" =>
              ~Touched(f) /\ wrote[f].version.media.key = NoKey
         /\ wrote[f] # NoWrite /\ Touched(f) /\ req[f].method = "POST" =>
              req[f].digest = wrote[f].version.media.data
         /\ req[f].method = "PUT" \/ ~Touched(f) => req[f].digest = NoContent
<1> DEFINE c == call[f]
           r == req[f]
           m == Mapping[at[f]]
<1>1. /\ Sent(f) /\ c \in Calls /\ r \in Requests /\ RequestOf(c) \in Requests
      /\ Route(f) = IF at[f] \in EncryptDisabled THEN "passThru"
                    ELSE InterceptGcsMethod(m, r)
  BY RequestIsRequest DEF TypeOK, UploadInv, UploadOK, Sent, Out, Route
<1>2. /\ RequestOf(c).method \in {"POST", "PUT"} /\ ~OpensSession(RequestOf(c))
      /\ RequestOf(c).digest = NoContent
      /\ RequestOf(c).method = MethodOf(c)
      /\ MethodOf(c) # "GET" /\ c.op # "start" /\ c.op # "fields"
  <2>1. c.op # "start" /\ c.op # "fields"
    BY DEF WriteOps, UploadOps
  <2> QED
    BY <2>1, WriteCall DEF RequestOf
<1>3. InterceptGcsMethod(m, RequestOf(c))
        \notin {"simpleDownload", "metadataRequest", "resumableUploadPost"}
  BY <1>1, <1>2, CallRoute
<1>4. wrote[f] # NoWrite =>
        Accepted(r) /\ wrote[f].version = VersionOf(r)
  BY DEF WroteOK
<1>5. CASE ~Touched(f)
  <2>1. r = RequestOf(c)
    BY <1>2, <1>5 DEF RequestOK, AsSent
  <2>2. wrote[f] # NoWrite => wrote[f].version.media.key = NoKey
    BY <1>1, <1>4, <2>1, AcceptedCall
  <2> QED
    BY <1>1, <1>2, <1>3, <1>5, <2>1, <2>2
<1>6. CASE Touched(f) /\ r = Bodiless(RequestOf(c)) /\ c.op = "put"
  <2>1. /\ r.method = RequestOf(c).method /\ r.digest = NoContent
        /\ InterceptGcsMethod(m, r) = InterceptGcsMethod(m, RequestOf(c))
    BY <1>1, <1>2, <1>6, BodilessRoute DEF Bodiless, Requests
  <2>2. InterceptGcsMethod(m, r) = "resumableUploadPut" /\ Route(f) # "passThru"
    BY <1>1, <1>6, <2>1, CallRoute DEF Touched, Intercepted, KeyOf
  <2>3. r.method = "PUT"
    BY <1>2, <1>6, <2>1 DEF MethodOf
  <2> QED
    BY <1>1, <1>2, <1>3, <2>1, <2>2, <2>3 DEF OpensSession
<1>7. CASE Touched(f) /\ ~(r = Bodiless(RequestOf(c)) /\ c.op = "put")
  <2>1. PICK b \in Segments :
          /\ r.method = "POST" /\ r.query.uploadType = "multipart"
          /\ r.path = UploadPath(b)
    BY <1>7 DEF RequestOK, Rewritten
  <2>2. IsUploadPath(r.path)
    BY <2>1, UploadPathTests
  <2>3. InterceptGcsMethod(m, r) \in {"passThru", "multiPartUpload"}
    BY <2>1, <2>2 DEF InterceptGcsMethod
  <2>4. ~OpensSession(r)
    BY <2>1 DEF OpensSession
  <2>5. ASSUME wrote[f] # NoWrite
        PROVE  /\ Route(f) = "multiPartUpload"
               /\ r.digest = wrote[f].version.media.data
    <3>1. StoresMultipart(r)
      BY <1>4, <2>1, <2>5
         DEF Accepted, StoresMedia, StoresXml, CompletesSession
    <3>2. /\ InterceptGcsMethod(m, r) = "multiPartUpload"
          /\ r.digest = VersionOf(r).media.data
      BY <1>7, <3>1 DEF RequestOK, Rewritten
    <3> QED
      BY <1>1, <1>4, <1>7, <2>5, <3>2 DEF Touched, Intercepted
  <2> QED
    BY <1>1, <1>7, <2>1, <2>3, <2>4, <2>5
<1> QED
  BY <1>5, <1>6, <1>7 DEF RequestOK, Rewritten

(* The shared end of the service's actions.                                *)
LEMMA ReplyExchange ==
  ASSUME TypeOK, UploadInv, SessionInv, BoundKept, NEW f \in Flows,
         ExchangeOK(f), Live(f), NEW a, Reply(f, a), WroteOK(f)',
         a.status = "ok" /\ call[f].op \in WriteOps =>
           /\ wrote'[f] # NoWrite
           /\ a.digest = MediaDigest(wrote'[f].version.media)
  PROVE  ExchangeOK(f)'
<1>1. /\ pc[f] \in {"forwarded", "orphaned"} /\ pc[f] \in Out
      /\ call'[f] = call[f] /\ at'[f] = at[f] /\ req'[f] = req[f]
      /\ pc'[f] = IF pc[f] = "orphaned" THEN "lost" ELSE "answered"
      /\ ans'[f] = IF pc[f] = "orphaned" THEN NoAnswer ELSE a
  BY DEF TypeOK, Live, Reply, client, Out, ExchangeOK, AnswerOK
<1>2. Sent(f)
  BY <1>1 DEF UploadInv, UploadOK
<1>3. RequestOK(f)'
  BY <1>1, <1>2, RequestFrame DEF ExchangeOK
<1>4. AnswerOK(f)'
  BY <1>1 DEF AnswerOK
<1> QED
  BY <1>3, <1>4 DEF ExchangeOK

LEMMA GcsWriteExchange ==
  ASSUME TypeOK, UploadInv, SessionInv, NEW f \in Flows, ExchangeOK(f),
         GcsWrite(f)
  PROVE  ExchangeOK(f)'
<1> DEFINE r   == req[f]
           obj == WriteTarget(r)
           v   == VersionOf(r)
           w   == [obj |-> obj, version |-> v, over |-> store[obj]]
<1>1. PICK form \in JsonForms :
        /\ Live(f) /\ Writable(r) /\ bound' = bound
        /\ wrote' = [wrote EXCEPT ![f] = w]
        /\ Reply(f, [Resource(v) EXCEPT !.form = form])
  BY DEF GcsWrite
<1>2. /\ wrote'[f] = w /\ req'[f] = r
      /\ pc'[f] \in {"answered", "lost"}
  BY <1>1 DEF TypeOK, Reply, Live
<1>3. /\ Accepted(r) /\ obj \in Objects
      /\ r.query.ifAbsent => store[obj] = Absent
  BY <1>1 DEF Writable, Accepted
<1>4. w \in Writes
  <2>1. v \in Versions
    <3>1. Plain(Empty) \in Media
      BY EmptyAssumption DEF Plain, Media
    <3> QED
      BY <3>1 DEF TypeOK, VersionOf, Versions, Requests, Bodies, Metas
  <2> QED
    BY <1>3, <2>1 DEF TypeOK, Writes
<1>5. WriteTarget(r)' = obj
  BY <1>1, <1>2 DEF WriteTarget
<1>6. /\ [Resource(v) EXCEPT !.form = form].digest = MediaDigest(v.media)
      /\ w.version = v /\ w.obj = obj /\ w.over = store[obj]
  BY DEF Resource, NoAnswer
<1>7. WroteOK(f)'
  <2> HIDE DEF w, obj, v
  <2> QED
    BY <1>2, <1>3, <1>5, <1>6 DEF WroteOK, v, obj
<1>8. BoundKept /\ wrote'[f] # NoWrite
  BY <1>1, <1>2, <1>4, AbsenceAssumption DEF BoundKept
<1> HIDE DEF w, v
<1> QED
  BY <1>1, <1>2, <1>6, <1>7, <1>8, ReplyExchange

LEMMA ServiceStepExchange ==
  ASSUME TypeOK, UploadInv, SessionInv, NEW f \in Flows, ExchangeOK(f),
         ServiceStep(f)
  PROVE  ExchangeOK(f)'
<1> DEFINE r == req[f]
<1>1. BoundKept
  BY StepKeepsBound DEF Step
<1>2. CASE GcsWrite(f)
  BY <1>2, GcsWriteExchange
<1>3. ASSUME NEW a, Reply(f, a), Live(f), wrote' = wrote,
             a.status = "ok" => call[f].op \notin WriteOps
      PROVE  ExchangeOK(f)'
  <2>1. wrote[f] = NoWrite
    BY <1>3 DEF Live, ExchangeOK, WroteOK
  <2>2. WroteOK(f)'
    BY <1>3, <2>1 DEF WroteOK
  <2> QED
    BY <1>1, <1>3, <2>2, ReplyExchange
<1>4. Live(f) /\ call[f].op \in WriteOps =>
        r.method \in {"POST", "PUT"} /\ ~OpensSession(r)
  BY WriteRoute DEF ExchangeOK, Live, Out
<1>5. CASE GcsOpenSession(f)
  <2>1. PICK a : Reply(f, a)
    BY <1>5 DEF GcsOpenSession
  <2> QED
    BY <1>3, <1>4, <1>5, <2>1 DEF GcsOpenSession
<1>6. CASE GcsRead(f)
  <2>1. PICK a : Reply(f, a)
    BY <1>6 DEF GcsRead
  <2> QED
    BY <1>3, <1>4, <1>6, <2>1 DEF GcsRead, service
<1>7. CASE GcsDelete(f)
  BY <1>3, <1>4, <1>7 DEF GcsDelete
<1>8. CASE GcsList(f)
  BY <1>3, <1>4, <1>8 DEF GcsList, service
<1>9. CASE GcsRefuse(f)
  <2>1. PICK form \in {"error", "text"} :
          Reply(f, [NoAnswer EXCEPT !.status = "refused", !.form = form])
    BY <1>9 DEF GcsRefuse
  <2> DEFINE a == [NoAnswer EXCEPT !.status = "refused", !.form = form]
  <2>2. a.status = "refused"
    BY DEF NoAnswer
  <2> HIDE DEF a
  <2> QED
    BY <1>3, <1>9, <2>1, <2>2 DEF GcsRefuse, service, a
<1>10. CASE GcsUnavailable(f)
  <2>1. NoAnswer.status = "failed"
    BY DEF NoAnswer
  <2> QED
    BY <1>3, <1>10, <2>1 DEF GcsUnavailable, service
<1>11. CASE UpstreamLost(f) \/ OrphanDropped(f)
  <2>1. /\ req'[f] = r /\ call'[f] = call[f] /\ at'[f] = at[f]
        /\ wrote'[f] = wrote[f] /\ ans'[f] = NoAnswer
        /\ pc[f] \in {"forwarded", "answered", "orphaned"}
        /\ pc'[f] = IF pc[f] = "forwarded" THEN "orphaned" ELSE "lost"
    BY <1>11 DEF TypeOK, UpstreamLost, OrphanDropped, client, service,
                 ExchangeOK, AnswerOK
  <2>2. Sent(f)
    BY <2>1 DEF UploadInv, UploadOK
  <2>3. RequestOK(f)'
    BY <1>1, <2>1, <2>2, RequestFrame DEF ExchangeOK, Out
  <2>4. wrote[f] # NoWrite => pc'[f] = "lost"
    BY <2>1 DEF ExchangeOK, WroteOK
  <2>5. WroteOK(f)'
    BY <1>1, <2>1, <2>4, WroteFrame DEF ExchangeOK
  <2>6. AnswerOK(f)'
    BY <2>1 DEF AnswerOK
  <2> QED
    BY <2>3, <2>5, <2>6 DEF ExchangeOK
<1> QED
  BY <1>2, <1>5, <1>6, <1>7, <1>8, <1>9, <1>10, <1>11 DEF ServiceStep

(* The shared end of the answer handlers.                                  *)
LEMMA FinishExchange ==
  ASSUME TypeOK, UploadInv, SessionInv, NEW f \in Flows, ExchangeOK(f),
         pc[f] \in {"answered", "keyed", "created"}, NEW a, Finish(f, a),
         a.status = "ok" /\ call[f].op \in WriteOps =>
           /\ wrote[f] # NoWrite
           /\ a.digest = wrote[f].version.media.data
           /\ Touched(f) => req[f].method = "POST"
  PROVE  ExchangeOK(f)'
<1>1. /\ req'[f] = req[f] /\ call'[f] = call[f] /\ at'[f] = at[f]
      /\ wrote'[f] = wrote[f] /\ ans'[f] = a /\ pc'[f] = "done"
      /\ bound' = bound /\ Touched(f)' = Touched(f)
  BY TouchedFrame DEF TypeOK, Finish, client, service
<1>2. Sent(f) /\ BoundKept
  BY <1>1 DEF UploadInv, UploadOK, BoundKept
<1>3. RequestOK(f)'
  BY <1>1, <1>2, RequestFrame DEF ExchangeOK, Out
<1>4. WroteOK(f)'
  BY <1>1, <1>2, WroteFrame DEF ExchangeOK
<1>5. AnswerOK(f)'
  BY <1>1 DEF AnswerOK
<1> QED
  BY <1>3, <1>4, <1>5 DEF ExchangeOK

(* The same for the steps of the answer handlers that do not end there.    *)
LEMMA AnswerPassed ==
  ASSUME TypeOK, UploadInv, SessionInv, NEW f \in Flows, ExchangeOK(f),
         pc[f] = "answered", UNCHANGED <<service, client, req, ans>>,
         \/ pc'[f] = "keyed" /\ Route(f) = "simpleDownload"
         \/ pc'[f] = "created" /\ Route(f) = "resumableUploadPost"
  PROVE  ExchangeOK(f)'
<1>1. /\ req' = req /\ call' = call /\ at' = at /\ wrote' = wrote
      /\ ans' = ans /\ bound' = bound
  BY DEF client, service
<1>2. Sent(f) /\ BoundKept
  BY <1>1 DEF UploadInv, UploadOK, BoundKept
<1>3. RequestOK(f)'
  BY <1>1, <1>2, RequestFrame DEF ExchangeOK, Out
<1>4. WroteOK(f)'
  BY <1>1, <1>2, WroteFrame DEF ExchangeOK
<1>5. Route(f)' = Route(f)
  BY <1>1 DEF Route
<1>6. AnswerOK(f)'
  BY <1>1, <1>5 DEF ExchangeOK, AnswerOK
<1> QED
  BY <1>3, <1>4, <1>6 DEF ExchangeOK

LEMMA AnswerStepsExchange ==
  ASSUME TypeOK, UploadInv, SessionInv, NEW f \in Flows, ExchangeOK(f),
         \/ ForwardResponse(f) \/ HandleUploadResponse(f)
         \/ HandleMetadataResponse(f) \/ LookupKey(f)
         \/ HandleSimpleDownloadResponse(f)
         \/ CreateSession(f) \/ WriteSession(f)
  PROVE  ExchangeOK(f)'
<1> DEFINE a == ans[f]
           write == call[f].op \in WriteOps
<1>1. /\ pc[f] \in {"answered", "keyed", "created"} /\ pc[f] \in Out
      /\ pc[f] = "keyed" => Route(f) = "simpleDownload"
      /\ pc[f] = "created" => Route(f) = "resumableUploadPost"
  BY DEF ForwardResponse, HandleUploadResponse, HandleMetadataResponse,
         LookupKey, HandleSimpleDownloadResponse, CreateSession, WriteSession,
         Out, ExchangeOK, AnswerOK
<1>2. Failed(a).status = "failed"
  BY DEF Failed, NoAnswer
<1>3. ASSUME write
      PROVE  /\ Route(f) \notin {"simpleDownload", "metadataRequest",
                                 "resumableUploadPost"}
             /\ a.status = "ok" =>
                  /\ wrote[f] # NoWrite
                  /\ a.digest = MediaDigest(wrote[f].version.media)
             /\ wrote[f] # NoWrite /\ Route(f) = "passThru" =>
                  ~Touched(f) /\ wrote[f].version.media.key = NoKey
             /\ wrote[f] # NoWrite /\ Touched(f) /\ req[f].method = "POST" =>
                  req[f].digest = wrote[f].version.media.data
             /\ req[f].method = "PUT" \/ ~Touched(f) => req[f].digest = NoContent
             /\ req[f].method \in {"POST", "PUT"}
  <2>1. a.status = "ok" =>
          /\ wrote[f] # NoWrite
          /\ a.digest = MediaDigest(wrote[f].version.media)
    BY <1>1, <1>3, WriteRoute DEF ExchangeOK, AnswerOK
  <2> QED
    BY <1>1, <1>3, <2>1, WriteRoute DEF ExchangeOK
<1>4. CASE ForwardResponse(f)
  <2>1. Finish(f, a) /\ Route(f) = "passThru"
    BY <1>4 DEF ForwardResponse
  <2>2. a.status = "ok" /\ write =>
          /\ wrote[f] # NoWrite
          /\ a.digest = wrote[f].version.media.data
          /\ Touched(f) => req[f].method = "POST"
    BY <1>3, <2>1 DEF MediaDigest
  <2> QED
    BY <1>1, <2>1, <2>2, FinishExchange
<1>5. CASE HandleUploadResponse(f)
  <2> DEFINE x == IF IsJson(a) /\ req[f].digest # NoContent
                  THEN [a EXCEPT !.digest = req[f].digest] ELSE Failed(a)
  <2>1. Finish(f, x)
    BY <1>5 DEF HandleUploadResponse
  <2>2. ASSUME x.status = "ok", write
        PROVE  /\ wrote[f] # NoWrite
               /\ x.digest = wrote[f].version.media.data
               /\ Touched(f) => req[f].method = "POST"
    <3>1. req[f].digest # NoContent /\ x = [a EXCEPT !.digest = req[f].digest]
      BY <1>2, <2>2
    <3>2. x.status = a.status /\ x.digest = req[f].digest
      BY <3>1 DEF TypeOK, Answers
    <3> HIDE DEF x
    <3> QED
      BY <1>3, <2>2, <3>1, <3>2
  <2> HIDE DEF x
  <2> QED
    BY <1>1, <2>1, <2>2, FinishExchange
<1>6. CASE HandleMetadataResponse(f)
  <2>1. PICK x : Finish(f, x)
    BY <1>6 DEF HandleMetadataResponse
  <2>2. ~write
    BY <1>3, <1>6 DEF HandleMetadataResponse
  <2> QED
    BY <1>1, <2>1, <2>2, FinishExchange
<1>7. CASE HandleSimpleDownloadResponse(f)
  <2>1. PICK x : Finish(f, x)
    BY <1>7 DEF HandleSimpleDownloadResponse
  <2>2. ~write
    BY <1>1, <1>3, <1>7 DEF HandleSimpleDownloadResponse
  <2> QED
    BY <1>1, <2>1, <2>2, FinishExchange
<1>8. CASE LookupKey(f)
  <2>1. /\ pc[f] = "answered" /\ Route(f) = "simpleDownload"
        /\ pc'[f] = "keyed" /\ UNCHANGED <<service, client, req, ans>>
    BY <1>8 DEF TypeOK, LookupKey
  <2> QED
    BY <2>1, AnswerPassed
<1>9. CASE CreateSession(f) \/ WriteSession(f)
  <2>1. Route(f) = "resumableUploadPost" /\ ~write
    BY <1>1, <1>3, <1>9 DEF CreateSession, WriteSession
  <2>2. CASE \E x : Finish(f, x)
    BY <1>1, <2>1, <2>2, FinishExchange
  <2>3. CASE /\ pc[f] = "answered" /\ pc' = [pc EXCEPT ![f] = "created"]
             /\ UNCHANGED <<service, client, req, ans>>
    <3>1. pc'[f] = "created"
      BY <2>3 DEF TypeOK
    <3> QED
      BY <2>1, <2>3, <3>1, AnswerPassed
  <2> QED
    BY <1>9, <2>2, <2>3 DEF CreateSession, WriteSession
<1> QED
  BY <1>4, <1>5, <1>6, <1>7, <1>8, <1>9

LEMMA SendExchange ==
  ASSUME TypeOK, UploadInv, NEW f \in Flows, ExchangeOK(f), Send(f)
  PROVE  ExchangeOK(f)'
<1>1. pc'[f] = "request" /\ wrote'[f] = wrote[f] /\ ans'[f] = ans[f]
  BY DEF TypeOK, Send, service
<1>2. wrote[f] = NoWrite /\ ans[f] = NoAnswer
  BY DEF Send, UploadInv, UploadOK, ExchangeOK, AnswerOK
<1> QED
  BY <1>1, <1>2 DEF ExchangeOK, RequestOK, WroteOK, AnswerOK, Out

LEMMA StepExchange ==
  ASSUME TypeOK, UploadInv, SessionInv, NEW f \in Flows, ExchangeOK(f), Step(f)
  PROVE  ExchangeOK(f)'
<1>1. CASE Send(f)
  BY <1>1, SendExchange
<1>2. CASE ServiceStep(f)
  BY <1>2, ServiceStepExchange
<1>3. CASE ForwardRequest(f) \/ HandleMetadataRequest(f)
  BY <1>3, ForwardedExchange
<1>4. CASE HandleMultipartRequest(f)
  BY <1>4, HandleMultipartExchange
<1>5. CASE ConvertSinglePartUpload(f)
  BY <1>5, ConvertSinglePartExchange
<1>6. CASE ReadSession(f)
  BY <1>6, ReadSessionExchange
<1>7. CASE ConvertPut(f)
  BY <1>7, ConvertPutExchange
<1>8. CASE \/ ForwardResponse(f) \/ HandleUploadResponse(f)
           \/ HandleMetadataResponse(f) \/ LookupKey(f)
           \/ HandleSimpleDownloadResponse(f)
           \/ CreateSession(f) \/ WriteSession(f)
  BY <1>8, AnswerStepsExchange
<1> QED
  BY <1>1, <1>2, <1>3, <1>4, <1>5, <1>6, <1>7, <1>8 DEF Step, ProxyStep

(* What other flows and crashes do to an exchange.                         *)
LEMMA OtherExchange ==
  ASSUME TypeOK, UploadInv, SessionInv, BoundKept, NEW g \in Flows,
         ExchangeOK(g),
         call'[g] = call[g], at'[g] = at[g], req'[g] = req[g],
         wrote'[g] = wrote[g],
         \/ pc'[g] = pc[g] /\ ans'[g] = ans[g]
         \/ /\ pc[g] \notin {"idle", "done", "lost", "orphaned"}
            /\ pc'[g] = IF pc[g] = "forwarded" THEN "orphaned" ELSE "lost"
            /\ ans'[g] = NoAnswer
  PROVE  ExchangeOK(g)'
<1>1. CASE pc[g] = "idle"
  <2>1. /\ pc'[g] = "idle" /\ ans'[g] = ans[g] /\ wrote[g] = NoWrite
    BY <1>1 DEF UploadInv, UploadOK
  <2> QED
    BY <1>1, <2>1 DEF ExchangeOK, RequestOK, WroteOK, AnswerOK, Out
<1>2. CASE pc[g] # "idle"
  <2>1. Sent(g)
    BY <1>2 DEF UploadInv, UploadOK
  <2>2. wrote[g] # NoWrite =>
          pc'[g] \in {"answered", "keyed", "created", "done", "lost"}
    BY DEF ExchangeOK, WroteOK
  <2>3. RequestOK(g)'
    BY <2>1, RequestFrame DEF ExchangeOK, Out
  <2>4. WroteOK(g)'
    BY <2>2, WroteFrame DEF ExchangeOK
  <2>5. Route(g)' = Route(g) /\ Touched(g)' = Touched(g)
    BY TouchedFrame DEF Route
  <2>6. AnswerOK(g)'
    BY <2>5 DEF ExchangeOK, AnswerOK
  <2> QED
    BY <2>3, <2>4, <2>6 DEF ExchangeOK
<1> QED
  BY <1>1, <1>2
=============================================================================
