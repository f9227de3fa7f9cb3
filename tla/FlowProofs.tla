----------------------------- MODULE FlowProofs -----------------------------
(***************************************************************************)
(* What ProxyFlow promises for any number of flows, instances, buckets,    *)
(* keys and crashes: its types, and that an upload leaves an intercepting  *)
(* proxy sealed or not at all and is stored so that it can be read back.   *)
(***************************************************************************)
EXTENDS FlowProperties, RoutingProofs

(***************************************************************************)
(* Requests.  Every call is one on the wire, and what the handlers make of *)
(* a request is one again.                                                 *)
(***************************************************************************)
LEMMA AbsentTyped ==
  /\ NoName \in Seq(Segments) /\ NoMedia \in Media /\ NoStamp \in Stamps
  /\ NoMeta \in Metas /\ NoBody \in Bodies /\ NoQuery \in Queries
  /\ NoAnswer \in Answers
<1>1. NoName \in Seq(Segments)
  BY DEF NoName
<1>2. NoMedia \in Media
  BY DEF NoMedia, Media
<1>3. NoStamp \in Stamps
  BY DEF NoStamp, Stamps
<1>4. NoMeta \in Metas
  BY <1>1, <1>3 DEF NoMeta, Metas
<1>5. NoBody \in Bodies
  BY <1>2, <1>4 DEF NoBody, Bodies
<1>6. NoQuery \in Queries
  BY <1>1 DEF NoQuery, Queries
<1>7. NoAnswer \in Answers
  BY <1>2, <1>3 DEF NoAnswer, Answers, Digests
<1> QED
  BY <1>1, <1>2, <1>3, <1>4, <1>5, <1>6, <1>7

LEMMA RequestIsRequest ==
  ASSUME NEW c \in Calls
  PROVE  RequestOf(c) \in Requests
<1>1. /\ c.op \in Ops /\ c.bucket \in Buckets /\ c.name \in Names
      /\ c.data \in Contents \cup {NoContent}
      /\ c.home \in Buckets \cup {NoBucket}
      /\ c.shape \in {"none", "json", "nested", "file", "garbled"}
      /\ c.id \in UploadIds \cup {NoId} /\ c.range \in Ranges
      /\ c.ifAbsent \in BOOLEAN
  BY DEF Calls
<1>2. c.name \in Seq(Segments) /\ c.home \in Segments \cup {NoBucket}
  BY <1>1, BucketsAssumption, NamesAssumption
<1>3. MethodOf(c) \in {"GET", "POST", "PUT", "DELETE"}
  BY <1>1 DEF MethodOf
<1>4. QueryOf(c) \in Queries
  BY <1>1, <1>2, AbsentTyped DEF QueryOf, Queries
<1>5. BodyOf(c) \in Bodies
  <2>1. MetaOf(c) \in Metas
    BY <1>2, AbsentTyped DEF MetaOf, Metas
  <2>2. Plain(c.data) \in Media
    BY <1>1 DEF Plain, Media
  <2> QED
    BY <1>1, <2>1, <2>2, AbsentTyped DEF BodyOf, Bodies
<1>6. NoContent \in Digests
  BY DEF Digests
<1> QED
  BY <1>1, <1>3, <1>4, <1>5, <1>6, PathIsPath DEF RequestOf, Requests

LEMMA RewritesTyped ==
  ASSUME NEW r \in Requests
  PROVE  /\ Bodiless(r) \in Requests
         /\ [WithRewrittenQuery(r) EXCEPT !.query.fields = FALSE] \in Requests
         /\ \A k \in Keys : \A m \in Media :
              SealedMultipart(r, k, m) \in Requests
         /\ \A k \in Keys \cup {NoKey} : Emptied(r, k) \in Requests
         /\ Relabelled(r) \in Requests
         /\ \A m \in Media : Converted(r, m) \in Requests
         /\ \A s \in Sessions : AtSession(r, s) \in Requests
<1> USE AbsentTyped
<1>1. /\ r.query \in Queries /\ r.body \in Bodies /\ r.path \in Paths
      /\ r.range \in Ranges /\ r.digest \in Digests
      /\ r.method \in {"GET", "POST", "PUT", "DELETE"}
      /\ r.body.media \in Media /\ r.body.meta \in Metas
      /\ r.body.media.data \in Contents \cup {NoContent}
      /\ r.query.name \in Seq(Segments)
  BY DEF Requests, Bodies, Media, Queries
<1>2. /\ Bodiless(r) = [r EXCEPT !.body = NoBody]
      /\ Bodiless(r) \in Requests
  BY DEF Bodiless, Requests
<1>3. [WithRewrittenQuery(r) EXCEPT !.query.fields = FALSE] \in Requests
  <2>1. \A q \in Queries : [r EXCEPT !.query = q] \in Requests
    BY DEF Requests
  <2>2. [NoQuery EXCEPT !.alt = "json"] \in Queries
    BY DEF Queries
  <2>3. WithRewrittenQuery(r) \in Requests
    BY <2>1, <2>2 DEF WithRewrittenQuery
  <2>4. \A s \in Requests : [s EXCEPT !.query.fields = FALSE] \in Requests
    BY DEF Requests, Queries
  <2> QED
    BY <2>3, <2>4
<1>4. ASSUME NEW k \in Keys \cup {NoKey}
      PROVE  Stamp(k, r.body.media.data) \in Stamps
  BY <1>1 DEF Stamp, Stamps
<1>5. ASSUME NEW k \in Keys, NEW m \in Media
      PROVE  SealedMultipart(r, k, m) \in Requests
  <2>1. [r.body.meta EXCEPT !.stamp = Stamp(k, r.body.media.data)] \in Metas
    BY <1>1, <1>4 DEF Metas
  <2>2. \A x \in Metas : [r.body EXCEPT !.media = m, !.meta = x] \in Bodies
    BY <1>1 DEF Bodies
  <2>3. r.body.media.data \in Digests
    BY <1>1 DEF Digests
  <2>4. \A x \in Bodies : \A d \in Digests :
          [r EXCEPT !.body = x, !.digest = d] \in Requests
    BY DEF Requests
  <2>5. SealedMultipart(r, k, m) =
          [r EXCEPT !.body =
             [r.body EXCEPT !.media = m,
                !.meta = [r.body.meta EXCEPT
                            !.stamp = Stamp(k, r.body.media.data)]],
                    !.digest = r.body.media.data]
    BY <1>1, Zenon DEF SealedMultipart, Requests, Bodies
  <2>6. [r.body EXCEPT !.media = m,
           !.meta = [r.body.meta EXCEPT
                       !.stamp = Stamp(k, r.body.media.data)]] \in Bodies
    BY <2>1, <2>2
  <2> QED
    BY <2>3, <2>4, <2>5, <2>6
<1>9. ASSUME NEW k \in Keys \cup {NoKey}
      PROVE  Emptied(r, k) \in Requests
  <2>1. Stamp(k, Empty) \in Stamps /\ Plain(Empty) \in Media
    BY EmptyAssumption DEF Stamp, Stamps, Plain, Media
  <2>2. [r.body.meta EXCEPT !.stamp = Stamp(k, Empty)] \in Metas
    BY <1>1, <2>1 DEF Metas
  <2>3. \A x \in Metas : \A m \in Media :
          [r.body EXCEPT !.media = m, !.meta = x] \in Bodies
    BY <1>1 DEF Bodies
  <2>4. \A x \in Bodies : \A d \in Digests :
          [r EXCEPT !.body = x, !.digest = d] \in Requests
    BY DEF Requests
  <2>5. Empty \in Digests
    BY EmptyAssumption DEF Digests
  <2>6. Emptied(r, k) =
          [r EXCEPT !.body =
             [r.body EXCEPT !.media = Plain(Empty),
                !.meta = [r.body.meta EXCEPT !.stamp = Stamp(k, Empty)]],
                    !.digest = Empty]
    BY <1>1 DEF Emptied, Requests, Bodies
  <2>7. [r.body EXCEPT !.media = Plain(Empty),
           !.meta = [r.body.meta EXCEPT !.stamp = Stamp(k, Empty)]] \in Bodies
    BY <2>1, <2>2, <2>3
  <2> QED
    BY <2>4, <2>5, <2>6, <2>7
<1>6. Relabelled(r) \in Requests
  <2>1. NewQuery \in Queries
    BY DEF NewQuery, Queries
  <2>2. r.body.media.data \in Digests
    BY <1>1 DEF Digests
  <2> QED
    BY <2>1, <2>2 DEF Relabelled, Requests
<1>7. ASSUME NEW m \in Media
      PROVE  Converted(r, m) \in Requests
  <2>1. m.key \in Keys \cup {NoKey}
    BY DEF Media
  <2>2. [bucket |-> GetBucketNameFromRequestUri(r.path),
         name |-> r.query.name,
         stamp |-> Stamp(m.key, r.body.media.data)] \in Metas
    BY <1>1, <1>4, <2>1, BucketIsSegment DEF Metas
  <2>3. \A x \in Metas :
          [form |-> "multipart", media |-> m, meta |-> x] \in Bodies
    BY DEF Bodies
  <2>4. \A s \in Requests : \A b \in Bodies : [s EXCEPT !.body = b] \in Requests
    BY DEF Requests
  <2> QED
    BY <1>6, <2>1, <2>2, <2>3, <2>4 DEF Converted
<1>8. ASSUME NEW s \in Sessions
      PROVE  AtSession(r, s) \in Requests
  <2>1. s.bucket \in Segments /\ s.name \in Seq(Segments)
    BY DEF Sessions
  <2>2. \A n \in Names : QueryRoundTrip[n] \in Seq(Segments)
    BY FlowAssumption
  <2>3. \A n \in Seq(Segments) : [NoQuery EXCEPT !.name = n] \in Queries
    BY DEF Queries
  <2>4. \A p \in Paths : \A q \in Queries :
          [r EXCEPT !.path = p, !.query = q] \in Requests
    BY DEF Requests
  <2>5. UploadPath(s.bucket) \in Paths
    BY <2>1, RootsArePaths
  <2> QED
    BY <2>1, <2>2, <2>3, <2>4, <2>5 DEF AtSession
<1> QED
  BY <1>2, <1>3, <1>5, <1>6, <1>7, <1>8, <1>9

(***************************************************************************)
(* Steps keep the types.  Forward, Reply and Finish are the shared ends of *)
(* the handlers, of the service's actions and of the answer handlers.      *)
(***************************************************************************)
LEMMA ForwardTyped ==
  ASSUME TypeOK, NEW f \in Flows, NEW r \in Requests, Forward(f, r),
         files' \in [Instances ->
                       [UploadIds -> Sessions \cup {NoFile, BadFile}]],
         UNCHANGED <<sess, keyid>>
  PROVE  TypeOK'
<1>1. req' \in [Flows -> Requests]
  BY DEF TypeOK, Forward
<1>2. pc' \in [Flows -> Progress]
  BY DEF TypeOK, Forward, Progress
<1> QED
  BY <1>1, <1>2 DEF TypeOK, Forward, service, client

LEMMA ReplyTyped ==
  ASSUME TypeOK, NEW f \in Flows, NEW a \in Answers, Reply(f, a),
         store' \in [Objects -> Versions \cup {Absent}],
         bound' \in [UploadIds -> Objects \cup {NoObject}],
         wrote' \in [Flows -> Writes \cup {NoWrite}]
  PROVE  TypeOK'
<1>1. pc' \in [Flows -> Progress]
  BY DEF TypeOK, Reply, Progress
<1>2. ans' \in [Flows -> Answers]
  BY DEF TypeOK, Reply
<1> QED
  BY <1>1, <1>2 DEF TypeOK, Reply, local, client

LEMMA FinishTyped ==
  ASSUME TypeOK, NEW f \in Flows, NEW a \in Answers, Finish(f, a),
         files' \in [Instances ->
                       [UploadIds -> Sessions \cup {NoFile, BadFile}]],
         UNCHANGED <<sess, keyid>>
  PROVE  TypeOK'
<1>1. pc' \in [Flows -> Progress]
  BY DEF TypeOK, Finish, Progress
<1>2. ans' \in [Flows -> Answers]
  BY DEF TypeOK, Finish
<1> QED
  BY <1>1, <1>2 DEF TypeOK, Finish, service, client

LEMMA SendTyped ==
  ASSUME TypeOK, NEW f \in Flows, Send(f)
  PROVE  TypeOK'
<1>1. PICK c \in ClientCalls[f], i \in Instances :
        /\ call' = [call EXCEPT ![f] = c]
        /\ at' = [at EXCEPT ![f] = i]
        /\ req' = [req EXCEPT ![f] = RequestOf(c)]
  BY DEF Send
<1>2. c \in Calls
  BY FlowAssumption
<1>3. RequestOf(c) \in Requests
  BY <1>2, RequestIsRequest
<1>4. req' \in [Flows -> Requests]
  BY <1>1, <1>3 DEF TypeOK
<1>5. call' \in [Flows -> Calls \cup {NoCall}]
  BY <1>1, <1>2 DEF TypeOK
<1>6. at' \in [Flows -> Instances \cup {NoInstance}]
  BY <1>1 DEF TypeOK
<1>7. pc' \in [Flows -> Progress]
  BY DEF TypeOK, Send, Progress
<1>8. before' \in [Flows -> SUBSET Flows]
  BY DEF TypeOK, Send
<1> QED
  BY <1>4, <1>5, <1>6, <1>7, <1>8 DEF TypeOK, Send, service, local

(***************************************************************************)
(* What the mapping and the cipher return.                                 *)
(***************************************************************************)
LEMMA KeyIsKey ==
  ASSUME NEW f \in Flows, at[f] \in Instances, NEW b
  PROVE  KeyOf(f, b) \in Keys \cup {NoKey}
<1>1. IsMapping(Mapping[at[f]])
  BY FlowAssumption
<1> QED
  BY <1>1 DEF KeyOf, GetKMSKeyName, IsMapping

LEMMA EncryptTyped ==
  ASSUME NEW k \in Keys \cup {NoKey}, NEW d \in Contents \cup {NoContent},
         NEW m \in EncryptBytes(k, d)
  PROVE  /\ m \in Media
         /\ m # NoMedia => k # NoKey /\ m = [key |-> k, data |-> d]
<1>1. m = NoMedia \/ (k # NoKey /\ m = [key |-> k, data |-> d])
  BY DEF EncryptBytes
<1> QED
  BY <1>1, AbsentTyped DEF Media

LEMMA DecryptTyped ==
  ASSUME NEW k \in Keys \cup {NoKey}, NEW x \in Media,
         NEW d \in DecryptBytes(k, x)
  PROVE  d \in Contents \cup {NoContent}
<1>1. d = x.data \/ d = NoContent
  BY DEF DecryptBytes
<1> QED
  BY <1>1 DEF Media

(***************************************************************************)
(* The types of the proxy's steps.  Served says where a flow under way is. *)
(***************************************************************************)
Served == \A f \in Flows : pc[f] # "idle" => at[f] \in Instances

LEMMA RequestStepsTyped ==
  ASSUME TypeOK, Served, NEW f \in Flows,
         \/ ForwardRequest(f) \/ HandleMetadataRequest(f)
         \/ HandleMultipartRequest(f) \/ ConvertSinglePartUpload(f)
         \/ ReadSession(f)
  PROVE  TypeOK'
<1> DEFINE r == req[f]
<1>1. /\ r \in Requests /\ at[f] \in Instances
      /\ r.body.media.data \in Contents \cup {NoContent}
      /\ files \in [Instances -> [UploadIds -> Sessions \cup {NoFile, BadFile}]]
  BY DEF TypeOK, Served, ForwardRequest, HandleMetadataRequest,
         HandleMultipartRequest, ConvertSinglePartUpload, ReadSession,
         Requests, Bodies, Media
<1>2. CASE ForwardRequest(f)
  BY <1>1, <1>2, ForwardTyped DEF ForwardRequest, local
<1>3. CASE HandleMetadataRequest(f)
  BY <1>1, <1>3, ForwardTyped, RewritesTyped DEF HandleMetadataRequest, local
<1>4. CASE HandleMultipartRequest(f)
  <2>1. PICK key \in Keys \cup {NoKey} :
          \/ Forward(f, Bodiless(r)) \/ Forward(f, Emptied(r, key))
          \/ \E m \in EncryptBytes(key, r.body.media.data) :
               Forward(f, IF m = NoMedia THEN Bodiless(r)
                          ELSE SealedMultipart(r, key, m))
    BY <1>1, <1>4, KeyIsKey DEF HandleMultipartRequest
  <2>2. UNCHANGED local
    BY <1>4 DEF HandleMultipartRequest
  <2>3. ASSUME NEW x \in Requests, Forward(f, x)
        PROVE  TypeOK'
    BY <1>1, <2>2, <2>3, ForwardTyped DEF local
  <2>4. ASSUME NEW m \in EncryptBytes(key, r.body.media.data)
        PROVE  (IF m = NoMedia THEN Bodiless(r) ELSE SealedMultipart(r, key, m))
                 \in Requests
    <3>1. m \in Media /\ (m # NoMedia => key \in Keys)
      BY <1>1, EncryptTyped
    <3> QED
      BY <1>1, <3>1, RewritesTyped
  <2>5. Bodiless(r) \in Requests /\ Emptied(r, key) \in Requests
    BY <1>1, RewritesTyped
  <2> HIDE DEF r
  <2> QED
    BY <2>1, <2>3, <2>4, <2>5
<1>5. CASE ConvertSinglePartUpload(f)
  <2>1. PICK m \in EncryptBytes(
                     KeyOf(f, GetBucketNameFromRequestUri(r.path)),
                     r.body.media.data) :
          Forward(f, IF m = NoMedia THEN Bodiless(Converted(r, m))
                     ELSE Converted(r, m))
    BY <1>5 DEF ConvertSinglePartUpload
  <2>2. m \in Media
    BY <1>1, KeyIsKey, EncryptTyped
  <2>3. Converted(r, m) \in Requests /\ Bodiless(Converted(r, m)) \in Requests
    BY <1>1, <2>2, RewritesTyped
  <2> HIDE DEF r
  <2> QED
    BY <1>1, <1>5, <2>1, <2>3, ForwardTyped DEF ConvertSinglePartUpload, local
<1>6. CASE ReadSession(f)
  <2>1. CASE Forward(f, Bodiless(r)) /\ UNCHANGED local
    BY <1>1, <2>1, ForwardTyped, RewritesTyped DEF local
  <2>2. CASE /\ r.query.uploadId # NoId
             /\ sess' = [sess EXCEPT ![f] = files[at[f]][r.query.uploadId]]
             /\ pc' = [pc EXCEPT ![f] = "loaded"]
             /\ UNCHANGED <<service, client, req, ans, files, keyid>>
    <3>1. r.query.uploadId \in UploadIds
      BY <1>1, <2>2 DEF Requests, Queries
    <3>2. sess' \in [Flows -> Sessions \cup {NoFile, BadFile}]
      BY <1>1, <2>2, <3>1 DEF TypeOK
    <3>3. pc' \in [Flows -> Progress]
      BY <2>2 DEF TypeOK, Progress
    <3> QED
      BY <2>2, <3>2, <3>3 DEF TypeOK, service, client
  <2> QED
    BY <1>6, <2>1, <2>2 DEF ReadSession
<1> QED
  BY <1>2, <1>3, <1>4, <1>5, <1>6

LEMMA ConvertPutTyped ==
  ASSUME TypeOK, Served, NEW f \in Flows, sess[f] # NoFile, ConvertPut(f)
  PROVE  TypeOK'
<1> DEFINE r == req[f]
           s == sess[f]
           x == AtSession(r, s)
<1>1. /\ r \in Requests /\ at[f] \in Instances
      /\ s \in Sessions \cup {BadFile}
  BY DEF TypeOK, Served, ConvertPut
<1>2. files' \in [Instances -> [UploadIds -> Sessions \cup {NoFile, BadFile}]]
  BY DEF TypeOK, ConvertPut, RemoveFile
<1>3. CASE s = BadFile
  BY <1>1, <1>2, <1>3, ForwardTyped, RewritesTyped DEF ConvertPut
<1>4. CASE s # BadFile
  <2>1. PICK m \in EncryptBytes(
                     KeyOf(f, GetBucketNameFromRequestUri(x.path)),
                     x.body.media.data) : Forward(f, Converted(x, m))
    BY <1>4 DEF ConvertPut
  <2>2. x \in Requests
    BY <1>1, <1>4, RewritesTyped
  <2>3. x.body.media.data \in Contents \cup {NoContent}
    BY <2>2 DEF Requests, Bodies, Media
  <2> HIDE DEF x
  <2>4. m \in Media
    BY <1>1, <2>3, KeyIsKey, EncryptTyped
  <2>5. Converted(x, m) \in Requests
    BY <2>2, <2>4, RewritesTyped
  <2> QED
    BY <1>2, <2>1, <2>5, ForwardTyped DEF ConvertPut
<1> QED
  BY <1>3, <1>4

(***************************************************************************)
(* The types of the service's steps and of the answer handlers.            *)
(***************************************************************************)
LEMMA ResourceTyped ==
  ASSUME NEW v \in Versions
  PROVE  Resource(v) \in Answers
<1>1. v.stamp \in Stamps /\ v.media \in Media
  BY DEF Versions
<1>2. MediaDigest(v.media) \in Digests
  BY <1>1 DEF MediaDigest, Digests, Media
<1>3. Resource(v) = [NoAnswer EXCEPT !.status = "ok", !.form = "resource",
                       !.stamp = v.stamp, !.digest = MediaDigest(v.media)]
  BY DEF Resource
<1> QED
  BY <1>1, <1>2, <1>3, AbsentTyped DEF Answers

LEMMA FormsTyped ==
  ASSUME NEW a \in Answers, NEW form \in JsonForms
  PROVE  [a EXCEPT !.form = form] \in Answers
BY DEF JsonForms, Answers

LEMMA ServiceAnswersTyped ==
  /\ [NoAnswer EXCEPT !.status = "ok"] \in Answers
  /\ [NoAnswer EXCEPT !.status = "ok", !.form = "resource"] \in Answers
  /\ \A form \in {"error", "text"} :
       [NoAnswer EXCEPT !.status = "refused", !.form = form] \in Answers
  /\ \A id \in UploadIds :
       [NoAnswer EXCEPT !.status = "ok", !.form = "session",
                        !.uploadId = id] \in Answers
  /\ \A a \in Answers : Failed(a) \in Answers
BY AbsentTyped DEF Answers, Failed

LEMMA GcsWriteTyped ==
  ASSUME TypeOK, NEW f \in Flows, GcsWrite(f)
  PROVE  TypeOK'
<1> DEFINE r   == req[f]
           obj == WriteTarget(r)
           v   == VersionOf(r)
           w   == [obj |-> obj, version |-> v, over |-> store[obj]]
<1>1. r \in Requests /\ obj \in Objects
  BY DEF TypeOK, GcsWrite, Writable
<1>2. v \in Versions
  <2>1. Plain(Empty) \in Media
    BY EmptyAssumption DEF Plain, Media
  <2> QED
    BY <1>1, <2>1 DEF VersionOf, Versions, Requests, Bodies, Metas
<1>3. w \in Writes
  BY <1>1, <1>2 DEF TypeOK, Writes
<1>4. /\ store' = [store EXCEPT ![obj] = v]
      /\ wrote' = [wrote EXCEPT ![f] = w]
      /\ \E form \in JsonForms : Reply(f, [Resource(v) EXCEPT !.form = form])
      /\ UNCHANGED bound
  BY DEF GcsWrite
<1> HIDE DEF obj, v, w
<1>5. store' \in [Objects -> Versions \cup {Absent}]
  BY <1>1, <1>2, <1>4 DEF TypeOK
<1>6. wrote' \in [Flows -> Writes \cup {NoWrite}]
  BY <1>3, <1>4 DEF TypeOK
<1>7. bound' \in [UploadIds -> Objects \cup {NoObject}]
  BY <1>4 DEF TypeOK
<1>8. \A form \in JsonForms : [Resource(v) EXCEPT !.form = form] \in Answers
  BY <1>2, ResourceTyped, FormsTyped
<1> QED
  BY <1>4, <1>5, <1>6, <1>7, <1>8, ReplyTyped

LEMMA ServiceStepTyped ==
  ASSUME TypeOK, NEW f \in Flows, ServiceStep(f)
  PROVE  TypeOK'
<1> DEFINE r == req[f]
           obj == <<UrlBucket(r), UrlName(r)>>
<1>1. /\ store \in [Objects -> Versions \cup {Absent}]
      /\ bound \in [UploadIds -> Objects \cup {NoObject}]
      /\ wrote \in [Flows -> Writes \cup {NoWrite}]
  BY DEF TypeOK
<1>2. CASE GcsWrite(f)
  BY <1>2, GcsWriteTyped
<1>3. CASE GcsOpenSession(f)
  <2>1. PICK id \in FreeIds :
          /\ bound' = [bound EXCEPT ![id] = <<UrlBucket(r), UploadName(r)>>]
          /\ Reply(f, [NoAnswer EXCEPT !.status = "ok", !.form = "session",
                                       !.uploadId = id])
    BY <1>3 DEF GcsOpenSession
  <2>2. id \in UploadIds
    BY <2>1 DEF FreeIds
  <2>3. OpensSession(r) /\ r \in Requests
    BY <1>3 DEF GcsOpenSession, TypeOK
  <2>4. PICK b \in Buckets : r.path = UploadPath(b)
    BY <2>3 DEF OpensSession, IsUpload
  <2>5. UrlBucket(r) = b
    BY <2>4 DEF UrlBucket, IsUpload, UploadPath
  <2>6. <<UrlBucket(r), UploadName(r)>> \in Objects
    BY <2>3, <2>5 DEF OpensSession, Objects
  <2>7. bound' \in [UploadIds -> Objects \cup {NoObject}]
    BY <1>1, <2>1, <2>2, <2>6
  <2> QED
    BY <1>1, <1>3, <2>1, <2>2, <2>7, ReplyTyped, ServiceAnswersTyped
       DEF GcsOpenSession
<1>4. CASE GcsRead(f)
  <2>5. PICK form \in JsonForms :
          Reply(f, IF r.query.alt = "media" \/ r.path[1] # "storage"
                   THEN [Resource(store[obj]) EXCEPT !.form = "media",
                           !.media = store[obj].media]
                   ELSE [Resource(store[obj]) EXCEPT !.form = form])
    BY <1>4 DEF GcsRead
  <2> DEFINE a == IF r.query.alt = "media" \/ r.path[1] # "storage"
                  THEN [Resource(store[obj]) EXCEPT !.form = "media",
                          !.media = store[obj].media]
                  ELSE [Resource(store[obj]) EXCEPT !.form = form]
  <2>1. obj \in Objects /\ store[obj] # Absent
    BY <1>4 DEF GcsRead, Readable
  <2>2. store[obj] \in Versions
    BY <1>1, <2>1
  <2>3. store[obj].media \in Media /\ Resource(store[obj]) \in Answers
    BY <2>2, ResourceTyped DEF Versions
  <2>4. a \in Answers
    <3>1. [Resource(store[obj]) EXCEPT !.form = form] \in Answers
      BY <2>3, FormsTyped
    <3>2. [Resource(store[obj]) EXCEPT !.form = "media",
             !.media = store[obj].media] \in Answers
      BY <2>3 DEF Answers
    <3> QED
      BY <3>1, <3>2
  <2>6. Reply(f, a) /\ UNCHANGED service
    BY <1>4, <2>5 DEF GcsRead
  <2> HIDE DEF a
  <2> QED
    BY <1>1, <2>4, <2>6, ReplyTyped DEF service
<1>5. CASE GcsDelete(f)
  <2>1. obj \in Objects
    BY <1>5 DEF GcsDelete, Readable
  <2>2. store' \in [Objects -> Versions \cup {Absent}]
    BY <1>1, <1>5, <2>1 DEF GcsDelete
  <2> QED
    BY <1>1, <1>5, <2>2, ReplyTyped, ServiceAnswersTyped DEF GcsDelete
<1>6. CASE GcsList(f)
  BY <1>1, <1>6, ReplyTyped, ServiceAnswersTyped DEF GcsList, service
<1>7. CASE GcsRefuse(f)
  BY <1>1, <1>7, ReplyTyped, ServiceAnswersTyped DEF GcsRefuse, service
<1>8. CASE GcsUnavailable(f)
  BY <1>1, <1>8, ReplyTyped, AbsentTyped DEF GcsUnavailable, service
<1>9. CASE UpstreamLost(f)
  <2>1. pc' \in [Flows -> Progress] /\ ans' \in [Flows -> Answers]
    BY <1>9, AbsentTyped DEF UpstreamLost, TypeOK, Progress
  <2> QED
    BY <1>9, <2>1 DEF UpstreamLost, TypeOK, service, local, client
<1>10. CASE OrphanDropped(f)
  <2>1. pc' \in [Flows -> Progress]
    BY <1>10 DEF OrphanDropped, TypeOK, Progress
  <2> QED
    BY <1>10, <2>1 DEF OrphanDropped, TypeOK, service, local, client
<1> QED
  BY <1>2, <1>3, <1>4, <1>5, <1>6, <1>7, <1>8, <1>9, <1>10 DEF ServiceStep

LEMMA AnswerStepsTyped ==
  ASSUME TypeOK, Served, NEW f \in Flows,
         \/ ForwardResponse(f) \/ HandleUploadResponse(f)
         \/ HandleMetadataResponse(f) \/ LookupKey(f)
         \/ HandleSimpleDownloadResponse(f)
  PROVE  TypeOK'
<1> DEFINE r == req[f]
           a == ans[f]
<1>1. /\ a \in Answers /\ r \in Requests
      /\ files \in [Instances -> [UploadIds -> Sessions \cup {NoFile, BadFile}]]
  BY DEF TypeOK
<1>2. Failed(a) \in Answers
  BY <1>1, ServiceAnswersTyped
<1>3. \A d \in Digests : [a EXCEPT !.digest = d] \in Answers
  BY <1>1 DEF Answers
<1>4. CASE ForwardResponse(f)
  BY <1>1, <1>4, FinishTyped DEF ForwardResponse, local
<1>5. CASE HandleUploadResponse(f)
  <2> DEFINE b == IF IsJson(a) /\ r.digest # NoContent
                  THEN [a EXCEPT !.digest = r.digest] ELSE Failed(a)
  <2>1. b \in Answers
    BY <1>1, <1>2, <1>3 DEF Requests
  <2>2. Finish(f, b) /\ UNCHANGED local
    BY <1>5 DEF HandleUploadResponse
  <2> HIDE DEF b
  <2> QED
    BY <1>1, <2>1, <2>2, FinishTyped DEF local
<1>6. CASE HandleMetadataResponse(f)
  <2> DEFINE b == IF ~IsJson(a) THEN Failed(a)
                  ELSE IF a.stamp.custom
                  THEN [a EXCEPT !.digest = a.stamp.digest]
                  ELSE a
  <2>1. a.stamp.digest \in Digests
    BY <1>1 DEF Answers, Stamps, Digests
  <2>2. b \in Answers
    BY <1>1, <1>2, <1>3, <2>1
  <2>3. Finish(f, b) /\ UNCHANGED local
    BY <1>6 DEF HandleMetadataResponse
  <2> HIDE DEF b
  <2> QED
    BY <1>1, <2>2, <2>3, FinishTyped DEF local
<1>7. CASE LookupKey(f)
  <2>1. PICK k \in GetObjectEncryptionKeyId(f) :
          keyid' = [keyid EXCEPT ![f] = k]
    BY <1>7 DEF LookupKey
  <2>2. ASSUME NEW b, NEW n
        PROVE  StoredKey(b, n) \in Keys \cup {NoKey}
    BY DEF StoredKey, TypeOK, Versions, Stamps
  <2>3. k \in Keys \cup {NoKey}
    BY <2>1, <2>2 DEF GetObjectEncryptionKeyId, KeyInStore
  <2>4. keyid' \in [Flows -> Keys \cup {NoKey}]
    BY <2>1, <2>3 DEF TypeOK
  <2>5. pc' \in [Flows -> Progress]
    BY <1>7 DEF LookupKey, TypeOK, Progress
  <2> QED
    BY <1>7, <2>4, <2>5 DEF LookupKey, TypeOK, service, client
<1>8. CASE HandleSimpleDownloadResponse(f)
  <2>1. PICK d \in DecryptBytes(keyid[f], a.media) :
          Finish(f, IF d = NoContent THEN Failed(a)
                    ELSE [a EXCEPT !.media = Plain(d), !.digest = d])
    BY <1>8 DEF HandleSimpleDownloadResponse
  <2>2. keyid[f] \in Keys \cup {NoKey} /\ a.media \in Media
    BY <1>1 DEF TypeOK, Answers
  <2>3. d \in Contents \cup {NoContent}
    BY <2>1, <2>2, DecryptTyped
  <2>4. Plain(d) \in Media /\ d \in Digests
    BY <2>3 DEF Plain, Media, Digests
  <2>5. [a EXCEPT !.media = Plain(d), !.digest = d] \in Answers
    BY <1>1, <2>4 DEF Answers
  <2> HIDE DEF a
  <2> QED
    BY <1>1, <1>2, <1>8, <2>1, <2>5, FinishTyped
       DEF HandleSimpleDownloadResponse, local
<1> QED
  BY <1>4, <1>5, <1>6, <1>7, <1>8

LEMMA SessionStepsTyped ==
  ASSUME TypeOK, Served, NEW f \in Flows, CreateSession(f) \/ WriteSession(f)
  PROVE  TypeOK'
<1> DEFINE r == req[f]
           a == ans[f]
           typed == files' \in [Instances ->
                                  [UploadIds -> Sessions \cup {NoFile, BadFile}]]
<1>1. /\ a \in Answers /\ r \in Requests
      /\ files \in [Instances -> [UploadIds -> Sessions \cup {NoFile, BadFile}]]
  BY DEF TypeOK
<1>2. SessionOf(r) \in Sessions
  <2>1. r.path \in Paths /\ r.query.name \in Seq(Segments)
    BY <1>1 DEF Requests, Queries
  <2>2. /\ r.body.meta.bucket \in Segments \cup {NoBucket}
        /\ r.body.meta.name \in Seq(Segments)
    BY <1>1 DEF Requests, Bodies, Metas
  <2> QED
    BY <2>1, <2>2, BucketIsSegment DEF SessionOf, Sessions
<1>3. ASSUME NEW x \in Sessions \cup {NoFile, BadFile},
             files' = [files EXCEPT ![at[f]][a.uploadId] = x]
      PROVE  typed
  BY <1>1, <1>3
<1>4. CASE CreateSession(f)
  <2>1. CASE /\ Finish(f, Failed(a)) \/ Finish(f, a)
             /\ UNCHANGED local
    BY <1>1, <2>1, FinishTyped, ServiceAnswersTyped DEF local
  <2>2. CASE /\ files' = [files EXCEPT ![at[f]][a.uploadId] = BadFile]
             /\ pc' = [pc EXCEPT ![f] = "created"]
             /\ UNCHANGED <<service, client, req, ans, sess, keyid>>
    <3>1. pc' \in [Flows -> Progress]
      BY <2>2 DEF TypeOK, Progress
    <3> QED
      BY <1>3, <2>2, <3>1 DEF TypeOK, service, client
  <2> QED
    BY <1>4, <2>1, <2>2 DEF CreateSession
<1>5. CASE WriteSession(f)
  <2>1. typed
    BY <1>1, <1>2, <1>3, <1>5 DEF WriteSession
  <2> QED
    BY <1>1, <1>5, <2>1, FinishTyped DEF WriteSession
<1> QED
  BY <1>4, <1>5

LEMMA CrashTyped ==
  ASSUME TypeOK, NEW i \in Instances, Crash(i)
  PROVE  TypeOK'
<1>1. pc' \in [Flows -> Progress]
  BY DEF TypeOK, Crash, Progress
<1>2. ans' \in [Flows -> Answers]
  BY AbsentTyped DEF TypeOK, Crash
<1>3. files' \in [Instances -> [UploadIds -> Sessions \cup {NoFile, BadFile}]]
  BY DEF TypeOK, Crash
<1>4. crashes' \in 0 .. MaxCrashes
  BY FlowAssumption DEF TypeOK, Crash
<1> QED
  BY <1>1, <1>2, <1>3, <1>4 DEF TypeOK, Crash, service

LEMMA InitTyped == Init => TypeOK
<1> SUFFICES ASSUME Init PROVE TypeOK
  OBVIOUS
<1>1. NoRequest \in Requests
  <2>1. <<"">> \in Paths
    <3>1. "" \in Segments
      BY SegmentsAssumption
    <3>2. \A s \in Segments : <<s>> \in Seq(Segments) /\ <<s>> # << >>
      OBVIOUS
    <3> QED
      BY <3>1, <3>2 DEF Paths
  <2> QED
    BY <2>1, AbsentTyped DEF NoRequest, Requests, Ranges, Digests
<1>2. pc \in [Flows -> Progress]
  BY DEF Init, Progress
<1>3. store \in [Objects -> Versions \cup {Absent}] /\ crashes \in 0 .. MaxCrashes
  BY FlowAssumption DEF Init
<1> QED
  BY <1>1, <1>2, <1>3, AbsentTyped DEF Init, TypeOK

(***************************************************************************)
(* What an intercepted upload is routed to: InterceptGcsMethod evaluated   *)
(* on the request as the client sent it.                                   *)
(***************************************************************************)
LEMMA UploadRoute ==
  ASSUME NEW f \in Flows, call[f] \in Calls, at[f] \in Instances,
         Intercepted(f), req[f] = RequestOf(call[f])
  PROVE  /\ call[f].op = "multipart" => Route(f) = "multiPartUpload"
         /\ call[f].op = "media" => Route(f) = "singlePartUpload"
         /\ call[f].op = "put" => Route(f) = "resumableUploadPut"
<1> SUFFICES ASSUME call[f].op \in UploadOps
             PROVE  /\ call[f].op = "multipart" => Route(f) = "multiPartUpload"
                    /\ call[f].op = "media" => Route(f) = "singlePartUpload"
                    /\ call[f].op = "put" => Route(f) = "resumableUploadPut"
  BY DEF UploadOps
<1> DEFINE c == call[f]
           r == req[f]
<1>1. c.bucket \in Segments
  BY BucketsAssumption DEF Calls
<1>2. r.path = UploadPath(c.bucket)
  BY DEF RequestOf, PathOf, UploadOps
<1>3. /\ IsUploadPath(r.path)
      /\ GetBucketNameFromRequestUri(r.path) = c.bucket
  BY <1>1, <1>2, UploadPathTests, UploadBucket
<1>4. /\ r.method = IF c.op = "put" THEN "PUT" ELSE "POST"
      /\ r.query.uploadType = IF c.op = "put" THEN "resumable" ELSE c.op
  <2>1. r.method = MethodOf(c) /\ r.query.uploadType = QueryOf(c).uploadType
    BY DEF RequestOf
  <2>2. MethodOf(c) = IF c.op = "put" THEN "PUT" ELSE "POST"
    BY DEF MethodOf, UploadOps
  <2>3. QueryOf(c).uploadType = IF c.op = "put" THEN "resumable" ELSE c.op
    BY DEF QueryOf, UploadOps
  <2> QED
    BY <2>1, <2>2, <2>3
<1>5. /\ Route(f) = InterceptGcsMethod(Mapping[at[f]], r)
      /\ GetKMSKeyName(Mapping[at[f]], c.bucket) # NoKey
  BY DEF Route, Intercepted, KeyOf
<1> HIDE DEF c, r
<1>6. CASE c.op = "multipart"
  BY <1>3, <1>4, <1>5, <1>6 DEF InterceptGcsMethod, c
<1>7. CASE c.op = "media"
  BY <1>3, <1>4, <1>5, <1>7 DEF InterceptGcsMethod, c
<1>8. CASE c.op = "put"
  <2>1. IsResumablePath(r)
    BY <1>3, <1>4, <1>8 DEF IsResumablePath
  <2> QED
    BY <1>3, <1>4, <1>5, <1>8, <2>1 DEF InterceptGcsMethod, c
<1> QED
  BY <1>6, <1>7, <1>8 DEF UploadOps, c

(***************************************************************************)
(* The request handlers.  What they forward for an intercepted upload is   *)
(* Upstream: bodiless, sealed, or plaintext the service refuses.           *)
(***************************************************************************)
LEMMA ForwardUpload ==
  ASSUME TypeOK, NEW f \in Flows, NEW r, UploadOK(f), Forward(f, r),
         pc[f] \in {"request", "loaded"},
         Intercepted(f) /\ call[f].op \in UploadOps => Upstream(f, r)
  PROVE  UploadOK(f)'
<1>1. /\ pc'[f] = "forwarded" /\ req'[f] = r
      /\ call' = call /\ at' = at
  BY DEF TypeOK, Forward, client
<1>2. Sent(f) /\ at[f] \in Instances
  BY DEF UploadOK
<1>3. Upstream(f, r) => Upstream(f, req[f])'
  BY <1>1 DEF Upstream, SealedBody, EmptyPart, StrayPlaintext, KeyOf
<1>4. Intercepted(f)' => Intercepted(f)
  BY <1>1 DEF Intercepted, Sent, KeyOf
<1> QED
  BY <1>1, <1>2, <1>3, <1>4 DEF UploadOK, Sent

LEMMA SealedIsUpstream ==
  ASSUME NEW f \in Flows, NEW r, NEW m, NEW k, NEW b,
         r.method = "POST", r.body.form = "multipart", r.body.media = m,
         r.body.meta.stamp = Stamp(k, call[f].data), KeyBucket(r) = b,
         k = KeyOf(f, b), k # NoKey, m = [key |-> k, data |-> call[f].data]
  PROVE  Upstream(f, r)
BY DEF Upstream, SealedBody

LEMMA HandleMultipartUpload ==
  ASSUME TypeOK, NEW f \in Flows, UploadOK(f), HandleMultipartRequest(f)
  PROVE  UploadOK(f)'
<1> DEFINE r == req[f]
           c == call[f]
<1>1. /\ r \in Requests /\ pc[f] = "request" /\ at[f] \in Instances
      /\ r = RequestOf(c) /\ c \in Calls
  BY DEF TypeOK, UploadOK, Sent, HandleMultipartRequest
<1>2. r.body.media.data \in Contents \cup {NoContent}
  BY <1>1 DEF Requests, Bodies, Media
<1>3. PICK key \in Keys \cup {NoKey} :
        /\ key = KeyOf(f, KeyBucket(r))
        /\ \/ Forward(f, Bodiless(r))
           \/ r.body.form = "file" /\ Forward(f, Emptied(r, key))
           \/ /\ r.body.form = "multipart"
              /\ \E m \in EncryptBytes(key, r.body.media.data) :
                   Forward(f, IF m = NoMedia THEN Bodiless(r)
                              ELSE SealedMultipart(r, key, m))
  BY <1>1, KeyIsKey DEF HandleMultipartRequest, KeyBucket
<1>5. ASSUME Intercepted(f), c.op \in UploadOps
      PROVE  c.op = "multipart"
  BY <1>1, <1>5, UploadRoute DEF HandleMultipartRequest, UploadOps
<1>4. ASSUME Intercepted(f), c.op \in UploadOps
      PROVE  /\ r.method = "POST"
             /\ r.body = [form |-> IF c.shape = "none" THEN "multipart"
                                  ELSE c.shape,
                         meta |-> MetaOf(c), media |-> Plain(c.data)]
  BY <1>1, <1>4, <1>5 DEF RequestOf, MethodOf, BodyOf
<1>6. CASE Forward(f, Bodiless(r))
  <2>1. ASSUME Intercepted(f), c.op \in UploadOps
        PROVE  Upstream(f, Bodiless(r))
    <3>1. Bodiless(r).method = "POST" /\ Bodiless(r).body = NoBody
      BY <1>1, <1>4, <2>1 DEF Bodiless, Requests
    <3> QED
      BY <3>1 DEF Upstream
  <2> QED
    BY <1>1, <1>6, <2>1, ForwardUpload
<1>8. CASE r.body.form = "file" /\ Forward(f, Emptied(r, key))
  <2> DEFINE x == Emptied(r, key)
  <2>1. ASSUME Intercepted(f), c.op \in UploadOps
        PROVE  Upstream(f, x)
    <3>1. c.op = "multipart" /\ c.shape = "file"
      BY <1>4, <1>5, <1>8, <2>1
    <3>2. x.method = "POST" /\ x.body.media = Plain(Empty)
      BY <1>1, <1>4, <2>1 DEF Emptied, Requests, Bodies
    <3> HIDE DEF x
    <3> QED
      BY <3>1, <3>2 DEF Upstream, EmptyPart
  <2>2. Forward(f, x)
    BY <1>8
  <2> HIDE DEF x
  <2> QED
    BY <1>1, <2>1, <2>2, ForwardUpload
<1>7. ASSUME r.body.form = "multipart",
             NEW m \in EncryptBytes(key, r.body.media.data), m # NoMedia,
             Forward(f, SealedMultipart(r, key, m))
      PROVE  UploadOK(f)'
  <2> DEFINE x == SealedMultipart(r, key, m)
  <2>1. key # NoKey /\ m = [key |-> key, data |-> r.body.media.data]
    BY <1>2, <1>7, EncryptTyped
  <2>2. ASSUME Intercepted(f), c.op \in UploadOps
        PROVE  Upstream(f, x)
    <3>1. /\ r.method = "POST" /\ r.body.form = "multipart"
          /\ r.body.media.data = c.data
      BY <1>4, <1>7, <2>2 DEF Plain
    <3>2. /\ x.method = r.method /\ x.body.form = r.body.form
          /\ x.path = r.path
          /\ x.body.meta.bucket = r.body.meta.bucket
          /\ x.body.media = m
          /\ x.body.meta.stamp = Stamp(key, r.body.media.data)
      BY <1>1 DEF SealedMultipart, Requests, Bodies, Metas
    <3>3. KeyBucket(x) = KeyBucket(r)
      BY <3>2 DEF KeyBucket
    <3> HIDE DEF x
    <3> QED
      BY <1>3, <2>1, <3>1, <3>2, <3>3, SealedIsUpstream
  <2>3. Forward(f, x)
    BY <1>7
  <2> HIDE DEF x
  <2> QED
    BY <1>1, <2>2, <2>3, ForwardUpload
<1> QED
  BY <1>3, <1>6, <1>7, <1>8

(* ConvertSinglePartUploadtoMultiPartUpload, whoever calls it.             *)
LEMMA ConvertedUpstream ==
  ASSUME NEW f \in Flows, NEW r \in Requests, at[f] \in Instances,
         r.body.media.data = call[f].data,
         NEW m \in EncryptBytes(KeyOf(f, GetBucketNameFromRequestUri(r.path)),
                                r.body.media.data)
  PROVE  /\ m # NoMedia => Upstream(f, Converted(r, m))
         /\ m = NoMedia => /\ Converted(r, m).method = "POST"
                           /\ Converted(r, m).query.uploadType = "multipart"
                           /\ Converted(r, m).body = r.body
<1> DEFINE b == GetBucketNameFromRequestUri(r.path)
           k == KeyOf(f, b)
           x == Converted(r, m)
<1>1. /\ k \in Keys \cup {NoKey}
      /\ r.body.media.data \in Contents \cup {NoContent}
  BY KeyIsKey DEF Requests, Bodies, Media
<1>2. m # NoMedia => k # NoKey /\ m = [key |-> k, data |-> call[f].data]
  BY <1>1, EncryptTyped
<1>3. /\ Relabelled(r).method = "POST" /\ Relabelled(r).body = r.body
      /\ Relabelled(r).query = NewQuery /\ Relabelled(r).path = r.path
      /\ Relabelled(r) \in Requests
  BY RewritesTyped DEF Relabelled, Requests
<1>4. NewQuery.uploadType = "multipart"
  BY DEF NewQuery, NoQuery
<1>5. CASE m = NoMedia
  BY <1>3, <1>4, <1>5 DEF Converted
<1>6. CASE m # NoMedia
  <2> DEFINE body == [form |-> "multipart", media |-> m,
                      meta |-> [bucket |-> b, name |-> r.query.name,
                                stamp |-> Stamp(m.key, r.body.media.data)]]
  <2>1. x = [Relabelled(r) EXCEPT !.body = body]
    BY <1>6 DEF Converted
  <2>2. x.method = "POST" /\ x.body = body /\ x.path = r.path
    <3> HIDE DEF body
    <3> QED
      BY <1>3, <2>1 DEF Requests
  <2>3. KeyBucket(x) = b
    BY <2>2 DEF KeyBucket
  <2>4. /\ x.body.form = "multipart" /\ x.body.media = m
        /\ x.body.meta.stamp = Stamp(k, call[f].data)
    BY <1>2, <1>6, <2>2
  <2> HIDE DEF x, b
  <2>5. Upstream(f, x)
    BY <1>2, <1>6, <2>2, <2>3, <2>4, SealedIsUpstream
  <2> QED
    BY <1>6, <2>5 DEF x
<1> QED
  BY <1>5, <1>6

LEMMA ConvertSinglePartUploadUpload ==
  ASSUME TypeOK, NEW f \in Flows, UploadOK(f), ConvertSinglePartUpload(f)
  PROVE  UploadOK(f)'
<1> DEFINE r == req[f]
           c == call[f]
<1>1. /\ r \in Requests /\ pc[f] = "request" /\ at[f] \in Instances
      /\ r = RequestOf(c) /\ c \in Calls
  BY DEF TypeOK, UploadOK, Sent, ConvertSinglePartUpload
<1>2. PICK m \in EncryptBytes(
                   KeyOf(f, GetBucketNameFromRequestUri(r.path)),
                   r.body.media.data) :
        Forward(f, IF m = NoMedia THEN Bodiless(Converted(r, m))
                   ELSE Converted(r, m))
  BY DEF ConvertSinglePartUpload
<1>3. ASSUME Intercepted(f), c.op \in UploadOps
      PROVE  Upstream(f, IF m = NoMedia THEN Bodiless(Converted(r, m))
                         ELSE Converted(r, m))
  <2>1. c.op = "media"
    BY <1>1, <1>3, UploadRoute DEF ConvertSinglePartUpload, UploadOps
  <2>2. BodyOf(c) = [form |-> "raw", meta |-> NoMeta, media |-> Plain(c.data)]
    BY <2>1 DEF BodyOf
  <2>3. r.body.media.data = c.data
    BY <1>1, <2>2 DEF RequestOf, Plain
  <2>4. CASE m = NoMedia
    <3>1. Converted(r, m).method = "POST" /\ Converted(r, m) \in Requests
      BY <1>1, <2>3, <2>4, ConvertedUpstream, RewritesTyped, AbsentTyped
    <3>2. /\ Bodiless(Converted(r, m)).method = "POST"
          /\ Bodiless(Converted(r, m)).body = NoBody
      BY <3>1 DEF Bodiless, Requests
    <3> QED
      BY <2>4, <3>2 DEF Upstream
  <2>5. CASE m # NoMedia
    <3> HIDE DEF r, c
    <3>1. Upstream(f, Converted(r, m))
      BY <1>1, <2>3, <2>5, ConvertedUpstream DEF c
    <3> QED
      BY <2>5, <3>1
  <2> QED
    BY <2>4, <2>5
<1> QED
  BY <1>1, <1>2, <1>3, ForwardUpload

LEMMA ReadSessionUpload ==
  ASSUME TypeOK, NEW f \in Flows, UploadOK(f), ReadSession(f)
  PROVE  UploadOK(f)'
<1> DEFINE r == req[f]
           c == call[f]
<1>1. /\ r \in Requests /\ pc[f] = "request" /\ at[f] \in Instances
      /\ r = RequestOf(c) /\ c \in Calls
      /\ Route(f) = "resumableUploadPut"
  BY DEF TypeOK, UploadOK, Sent, ReadSession
<1>2. c.op = "put"
  <2>1. r.method = "PUT"
    BY <1>1 DEF Route, InterceptGcsMethod
  <2>2. r.method = MethodOf(c) /\ r.path = PathOf(c)
    BY <1>1 DEF RequestOf
  <2>3. c.op \in {"put", "xmlPut"}
    BY <2>1, <2>2 DEF MethodOf
  <2>4. CASE c.op = "xmlPut"
    <3>1. r.path = XmlPath(c.bucket, c.name)
      BY <2>2, <2>4 DEF PathOf
    <3>2. IsResumablePath(r)
      BY <1>1 DEF Route, InterceptGcsMethod
    <3>3. /\ r.path[1] = c.bucket /\ r.path \in Seq(Segments)
          /\ c.bucket \notin {"upload", "resumable"}
      <4>1. c.bucket \in Segments /\ c.name \in Seq(Segments)
        BY <1>1, BucketsAssumption, NamesAssumption DEF Calls
      <4>2. c.bucket \notin {"upload", "resumable"}
        BY <1>1, BucketsAssumption DEF Calls
      <4>3. XmlPath(c.bucket, c.name)[1] = c.bucket
        BY <4>1 DEF XmlPath
      <4>4. r.path \in Seq(Segments)
        BY <1>1 DEF Requests, Paths
      <4> QED
        BY <3>1, <4>2, <4>3, <4>4
    <3> QED
      BY <3>2, <3>3, RootsDiffer DEF IsResumablePath, IsUploadPath
  <2> QED
    BY <2>3, <2>4
<1>3. CASE Forward(f, Bodiless(r)) /\ UNCHANGED local
  <2>1. /\ Bodiless(r).body = NoBody /\ Bodiless(r).range = r.range
        /\ r.range = c.range
    BY <1>1 DEF Bodiless, Requests, RequestOf
  <2>2. Upstream(f, Bodiless(r))
    BY <1>2, <2>1 DEF Upstream
  <2> QED
    BY <1>1, <1>3, <2>2, ForwardUpload
<1>4. CASE /\ files[at[f]][r.query.uploadId] # NoFile
           /\ sess' = [sess EXCEPT ![f] = files[at[f]][r.query.uploadId]]
           /\ pc' = [pc EXCEPT ![f] = "loaded"]
           /\ UNCHANGED <<service, client, req, ans, files, keyid>>
  <2>1. /\ pc'[f] = "loaded" /\ sess'[f] # NoFile
        /\ req'[f] = req[f] /\ call'[f] = call[f] /\ at'[f] = at[f]
    BY <1>4 DEF TypeOK, client
  <2> QED
    BY <1>1, <1>2, <2>1 DEF UploadOK, Sent
<1> QED
  BY <1>3, <1>4 DEF ReadSession

LEMMA ConvertPutUpload ==
  ASSUME TypeOK, NEW f \in Flows, UploadOK(f), ConvertPut(f)
  PROVE  UploadOK(f)'
<1> DEFINE r == req[f]
           c == call[f]
           s == sess[f]
           x == AtSession(r, s)
<1>1. /\ r \in Requests /\ pc[f] = "loaded" /\ at[f] \in Instances
      /\ r = RequestOf(c) /\ c \in Calls /\ c.op = "put"
      /\ s \in Sessions \cup {BadFile}
  BY DEF TypeOK, UploadOK, Sent, ConvertPut
<1>2. /\ r.range = c.range
      /\ r.body = [form |-> "raw", meta |-> NoMeta, media |-> Plain(c.data)]
  <2>1. BodyOf(c) = [form |-> "raw", meta |-> NoMeta, media |-> Plain(c.data)]
    BY <1>1 DEF BodyOf
  <2> QED
    BY <1>1, <2>1 DEF RequestOf
<1>3. CASE s = BadFile
  <2>1. Bodiless(r).body = NoBody /\ Bodiless(r).range = c.range
    BY <1>1, <1>2 DEF Bodiless, Requests
  <2>2. Upstream(f, Bodiless(r))
    BY <1>1, <2>1 DEF Upstream
  <2> QED
    BY <1>1, <1>3, <2>2, ForwardUpload DEF ConvertPut
<1>4. CASE s # BadFile
  <2>1. PICK m \in EncryptBytes(
                     KeyOf(f, GetBucketNameFromRequestUri(x.path)),
                     x.body.media.data) : Forward(f, Converted(x, m))
    BY <1>4 DEF ConvertPut
  <2>2. x \in Requests
    BY <1>1, <1>4, RewritesTyped
  <2>3. x.body = r.body
    BY <1>1 DEF AtSession, Requests
  <2>4. x.body.media.data = c.data /\ x.body.form = "raw"
    BY <1>2, <2>3 DEF Plain
  <2> HIDE DEF x, c
  <2>5. Upstream(f, Converted(x, m))
    <3>1. CASE m # NoMedia
      BY <1>1, <2>2, <2>4, <3>1, ConvertedUpstream DEF c
    <3>2. CASE m = NoMedia
      <4>1. /\ Converted(x, m).method = "POST"
            /\ Converted(x, m).query.uploadType = "multipart"
            /\ Converted(x, m).body = x.body
        BY <1>1, <2>2, <2>4, <3>2, ConvertedUpstream DEF c
      <4> QED
        BY <1>1, <2>4, <4>1 DEF Upstream, StrayPlaintext, c
    <3> QED
      BY <3>1, <3>2
  <2> QED
    BY <1>1, <2>1, <2>5, ForwardUpload
<1> QED
  BY <1>3, <1>4

(* No upload the proxy intercepts takes the handlers that forward bodies.  *)
LEMMA ForwardedUntouchedUpload ==
  ASSUME TypeOK, NEW f \in Flows, UploadOK(f),
         ForwardRequest(f) \/ HandleMetadataRequest(f)
  PROVE  UploadOK(f)'
<1> DEFINE c == call[f]
<1>1. /\ pc[f] = "request" /\ at[f] \in Instances
      /\ req[f] = RequestOf(c) /\ c \in Calls
      /\ Route(f) \in {"passThru", "resumableUploadPost", "simpleDownload",
                       "metadataRequest"}
  BY DEF TypeOK, UploadOK, Sent, ForwardRequest, HandleMetadataRequest
<1>2. ~(Intercepted(f) /\ c.op \in UploadOps)
  BY <1>1, UploadRoute DEF UploadOps
<1>3. PICK r : Forward(f, r)
  BY DEF ForwardRequest, HandleMetadataRequest
<1> QED
  BY <1>1, <1>2, <1>3, ForwardUpload

LEMMA SendUpload ==
  ASSUME TypeOK, NEW f \in Flows, UploadOK(f), Send(f)
  PROVE  UploadOK(f)'
<1>1. PICK c \in ClientCalls[f], i \in Instances :
        /\ call' = [call EXCEPT ![f] = c]
        /\ at' = [at EXCEPT ![f] = i]
        /\ req' = [req EXCEPT ![f] = RequestOf(c)]
  BY DEF Send
<1>2. c # NoCall
  BY FlowAssumption, AbsenceAssumption
<1>3. /\ pc'[f] = "request" /\ call'[f] = c /\ at'[f] = i
      /\ req'[f] = RequestOf(c)
  BY <1>1 DEF TypeOK, Send
<1> QED
  BY <1>2, <1>3 DEF UploadOK, Sent

(* Once the service has answered nothing more is asked of the request.     *)
LEMMA AnsweredUpload ==
  ASSUME NEW f \in Flows, UploadOK(f), pc[f] # "idle",
         call'[f] = call[f], at'[f] = at[f],
         pc'[f] \notin {"idle", "request", "loaded", "forwarded", "orphaned"}
  PROVE  UploadOK(f)'
BY DEF UploadOK, Sent

LEMMA ServiceStepUpload ==
  ASSUME TypeOK, NEW f \in Flows, UploadOK(f), ServiceStep(f)
  PROVE  UploadOK(f)'
<1>1. /\ pc[f] # "idle" /\ call' = call /\ at' = at
      /\ \/ pc'[f] \in {"answered", "lost", "done"}
         \/ pc[f] = "forwarded" /\ pc'[f] = "orphaned" /\ req' = req
  <2>1. ASSUME Live(f), NEW a, Reply(f, a)
        PROVE  /\ pc[f] # "idle" /\ call' = call /\ at' = at
               /\ pc'[f] \in {"answered", "lost"}
    BY <2>1 DEF TypeOK, Live, Reply, client
  <2>2. CASE \/ GcsWrite(f) \/ GcsOpenSession(f) \/ GcsRead(f) \/ GcsDelete(f)
             \/ GcsList(f) \/ GcsRefuse(f) \/ GcsUnavailable(f)
    <3>1. Live(f) /\ \E a : Reply(f, a)
      <4>1. CASE GcsWrite(f)
        BY <4>1 DEF GcsWrite
      <4>2. CASE GcsOpenSession(f)
        BY <4>2 DEF GcsOpenSession
      <4>3. CASE GcsRead(f)
        BY <4>3 DEF GcsRead
      <4>4. CASE \/ GcsDelete(f) \/ GcsList(f) \/ GcsRefuse(f)
                 \/ GcsUnavailable(f)
        BY <4>4 DEF GcsDelete, GcsList, GcsRefuse, GcsUnavailable
      <4> QED
        BY <2>2, <4>1, <4>2, <4>3, <4>4
    <3> QED
      BY <2>1, <3>1
  <2>3. CASE UpstreamLost(f)
    BY <2>3 DEF TypeOK, UpstreamLost, client
  <2>4. CASE OrphanDropped(f)
    BY <2>4 DEF TypeOK, OrphanDropped, client
  <2> QED
    BY <2>2, <2>3, <2>4 DEF ServiceStep
<1>2. CASE pc[f] = "forwarded" /\ pc'[f] = "orphaned" /\ req' = req
  <2>1. Upstream(f, req[f]) => Upstream(f, req[f])'
    BY <1>1, <1>2 DEF Upstream, SealedBody, EmptyPart, StrayPlaintext, KeyOf
  <2>2. Intercepted(f)' => Intercepted(f)
    BY <1>1 DEF Intercepted, Sent, KeyOf
  <2> QED
    BY <1>1, <1>2, <2>1, <2>2 DEF UploadOK, Sent
<1> QED
  BY <1>1, <1>2, AnsweredUpload

LEMMA AnswerStepsUpload ==
  ASSUME TypeOK, NEW f \in Flows, UploadOK(f),
         \/ ForwardResponse(f) \/ HandleUploadResponse(f)
         \/ HandleMetadataResponse(f) \/ LookupKey(f)
         \/ HandleSimpleDownloadResponse(f)
         \/ CreateSession(f) \/ WriteSession(f)
  PROVE  UploadOK(f)'
<1>1. pc[f] \in {"answered", "keyed", "created"}
  BY DEF ForwardResponse, HandleUploadResponse, HandleMetadataResponse,
         LookupKey, HandleSimpleDownloadResponse, CreateSession, WriteSession
<1>2. ASSUME NEW a, Finish(f, a)
      PROVE  pc'[f] = "done" /\ call' = call /\ at' = at
  BY <1>2 DEF TypeOK, Finish, client
<1>3. CASE \/ ForwardResponse(f) \/ HandleUploadResponse(f)
           \/ HandleMetadataResponse(f) \/ HandleSimpleDownloadResponse(f)
           \/ WriteSession(f)
  <2>1. \E a : Finish(f, a)
    BY <1>3 DEF ForwardResponse, HandleUploadResponse, HandleMetadataResponse,
                HandleSimpleDownloadResponse, WriteSession
  <2> QED
    BY <1>1, <1>2, <2>1, AnsweredUpload
<1>4. CASE LookupKey(f)
  <2>1. pc'[f] = "keyed" /\ call' = call /\ at' = at
    BY <1>4 DEF TypeOK, LookupKey, client
  <2> QED
    BY <1>1, <2>1, AnsweredUpload
<1>5. CASE CreateSession(f)
  <2>1. CASE \E a : Finish(f, a)
    BY <1>1, <1>2, <2>1, AnsweredUpload
  <2>2. CASE pc' = [pc EXCEPT ![f] = "created"] /\ UNCHANGED client
    <3>1. pc'[f] = "created" /\ call' = call /\ at' = at
      BY <2>2 DEF TypeOK, client
    <3> QED
      BY <1>1, <3>1, AnsweredUpload
  <2> QED
    BY <1>5, <2>1, <2>2 DEF CreateSession
<1> QED
  BY <1>3, <1>4, <1>5

(***************************************************************************)
(* What the service stores of a request that is Upstream.                  *)
(***************************************************************************)
StoredOK(f) == Intercepted(f) /\ call[f].op \in UploadOps /\ wrote[f] # NoWrite
                 => Retrievable(f)

LEMMA SealedTarget ==
  ASSUME NEW r, StoresMultipart(r)
  PROVE  WriteTarget(r)[1] = KeyBucket(r)
<1>1. PICK b \in Buckets : r.path = UploadPath(b)
  BY DEF StoresMultipart, IsUpload
<1>2. b \in Segments
  BY BucketsAssumption
<1>3. UrlBucket(r) = b
  BY <1>1 DEF UrlBucket, IsUpload, UploadPath
<1>4. GetBucketNameFromRequestUri(r.path) = b
  BY <1>1, <1>2, UploadBucket
<1>5. KeyBucket(r) = b
  BY <1>3, <1>4 DEF StoresMultipart, HomeAgrees, KeyBucket
<1>6. WriteTarget(r) = <<UrlBucket(r), UploadName(r)>>
  BY DEF WriteTarget
<1> QED
  BY <1>3, <1>5, <1>6

LEMMA GcsWriteReadable ==
  ASSUME TypeOK, NEW f \in Flows, UploadOK(f), GcsWrite(f)
  PROVE  StoredOK(f)'
<1> DEFINE r   == req[f]
           c   == call[f]
           obj == WriteTarget(r)
           v   == VersionOf(r)
           w   == [obj |-> obj, version |-> v, over |-> store[obj]]
<1>1. /\ r \in Requests /\ Writable(r) /\ Live(f)
      /\ wrote' = [wrote EXCEPT ![f] = w]
      /\ call' = call /\ at' = at
  BY DEF TypeOK, GcsWrite, Reply, client
<1>2. wrote'[f] = w
  BY <1>1 DEF TypeOK
<1>3. /\ w.obj[1] = obj[1]
      /\ w.version.media = IF r.body = NoBody THEN Plain(Empty)
                           ELSE r.body.media
      /\ w.version.stamp = r.body.meta.stamp
  BY DEF VersionOf
<1>4. SUFFICES ASSUME Intercepted(f), c.op \in UploadOps
               PROVE  Retrievable(f)'
  BY <1>1 DEF StoredOK, Intercepted, Sent, KeyOf
<1>5. Upstream(f, r)
  BY <1>1, <1>4 DEF UploadOK, Live
<1>6. CASE r.body = NoBody
  <2>1. r.body.form = "none"
    BY <1>6 DEF NoBody
  <2>2. CompletesSession(r)
    BY <1>1, <2>1 DEF Writable, StoresMultipart, StoresMedia, StoresXml
  <2>3. r.range = "none" /\ r.method = "PUT"
    BY <2>1, <2>2 DEF CompletesSession
  <2>4. c.op = "put" /\ c.range = "none"
    BY <1>5, <2>3 DEF Upstream
  <2>5. w.version.media = Plain(Empty)
    BY <1>3, <1>6
  <2> HIDE DEF w
  <2> QED
    BY <1>1, <1>2, <2>4, <2>5 DEF Retrievable, Spoilt
<1>7. CASE SealedBody(f, r)
  <2>1. r.body.form = "multipart"
    BY <1>7 DEF SealedBody
  <2>2. StoresMultipart(r)
    BY <1>1, <2>1 DEF Writable, StoresMedia, StoresXml, CompletesSession
  <2>3. w.obj[1] = KeyBucket(r)
    BY <1>3, <2>2, SealedTarget
  <2> DEFINE k == KeyOf(f, w.obj[1])
  <2>4. /\ k # NoKey /\ w.version.media = [key |-> k, data |-> c.data]
        /\ w.version.stamp = Stamp(k, c.data)
    BY <1>3, <1>7, <2>1, <2>3 DEF SealedBody, NoBody
  <2> HIDE DEF w
  <2> QED
    BY <1>1, <1>2, <2>4 DEF Retrievable, KeyOf
<1>8. CASE StrayPlaintext(f, r)
  <2>1. ~Writable(r)
    <3>1. /\ r.body.form = "raw" /\ r.method = "POST"
          /\ r.query.uploadType = "multipart"
      BY <1>8 DEF StrayPlaintext
    <3> QED
      BY <3>1 DEF Writable, StoresMultipart, StoresMedia, StoresXml,
                  CompletesSession
  <2> QED
    BY <1>1, <2>1
<1>9. CASE EmptyPart(f, r)
  <2>1. w.version.media = Plain(Empty)
    BY <1>3, <1>9 DEF EmptyPart
  <2> HIDE DEF w
  <2> QED
    BY <1>1, <1>2, <1>9, <2>1 DEF Retrievable, Spoilt, EmptyPart
<1> QED
  BY <1>5, <1>6, <1>7, <1>8, <1>9 DEF Upstream

(***************************************************************************)
(* The inductive invariant.                                                *)
(***************************************************************************)
IInv == TypeOK /\ UploadInv /\ StoredReadable

(* A step of one flow leaves the others where they are.                    *)
LEMMA StepFrame ==
  ASSUME TypeOK, NEW f \in Flows, Send(f) \/ ProxyStep(f) \/ ServiceStep(f),
         NEW g \in Flows, g # f
  PROVE  /\ pc'[g] = pc[g] /\ at'[g] = at[g] /\ req'[g] = req[g]
         /\ call'[g] = call[g] /\ sess'[g] = sess[g] /\ wrote'[g] = wrote[g]
<1> USE DEF TypeOK, service, local, client
<1>1. CASE Send(f)
  BY <1>1 DEF Send
<1>2. ASSUME NEW r, Forward(f, r)
      PROVE  /\ pc'[g] = pc[g] /\ at'[g] = at[g] /\ req'[g] = req[g]
             /\ call'[g] = call[g] /\ wrote'[g] = wrote[g]
  BY <1>2 DEF Forward
<1>3. ASSUME NEW a, Reply(f, a)
      PROVE  /\ pc'[g] = pc[g] /\ at'[g] = at[g] /\ req'[g] = req[g]
             /\ call'[g] = call[g] /\ sess'[g] = sess[g]
  BY <1>3 DEF Reply
<1>4. ASSUME NEW a, Finish(f, a)
      PROVE  /\ pc'[g] = pc[g] /\ at'[g] = at[g] /\ req'[g] = req[g]
             /\ call'[g] = call[g] /\ wrote'[g] = wrote[g]
  BY <1>4 DEF Finish
<1>5. CASE \/ ForwardRequest(f) \/ HandleMetadataRequest(f)
           \/ HandleMultipartRequest(f) \/ ConvertSinglePartUpload(f)
           \/ ConvertPut(f)
  <2>1. (\E r : Forward(f, r)) /\ sess' = sess
    BY <1>5 DEF ForwardRequest, HandleMetadataRequest, HandleMultipartRequest,
                ConvertSinglePartUpload, ConvertPut
  <2> QED
    BY <1>2, <2>1
<1>6. CASE ReadSession(f)
  <2>1. CASE (\E r : Forward(f, r)) /\ sess' = sess
    BY <1>2, <2>1
  <2>2. CASE /\ sess' = [sess EXCEPT ![f] = files[at[f]][req[f].query.uploadId]]
             /\ pc' = [pc EXCEPT ![f] = "loaded"]
             /\ UNCHANGED <<service, client, req>>
    BY <2>2
  <2> QED
    BY <1>6, <2>1, <2>2 DEF ReadSession
<1>7. CASE \/ ForwardResponse(f) \/ HandleUploadResponse(f)
           \/ HandleMetadataResponse(f) \/ HandleSimpleDownloadResponse(f)
           \/ WriteSession(f)
  <2>1. (\E a : Finish(f, a)) /\ sess' = sess
    BY <1>7 DEF ForwardResponse, HandleUploadResponse, HandleMetadataResponse,
                HandleSimpleDownloadResponse, WriteSession
  <2> QED
    BY <1>4, <2>1
<1>8. CASE LookupKey(f)
  BY <1>8 DEF LookupKey
<1>9. CASE CreateSession(f)
  <2>1. CASE (\E a : Finish(f, a)) /\ sess' = sess
    BY <1>4, <2>1
  <2>2. CASE /\ pc' = [pc EXCEPT ![f] = "created"]
             /\ UNCHANGED <<service, client, req, sess>>
    BY <2>2
  <2> QED
    BY <1>9, <2>1, <2>2 DEF CreateSession
<1>10. CASE GcsWrite(f)
  <2>1. (\E a : Reply(f, a)) /\ wrote'[g] = wrote[g]
    BY <1>10 DEF GcsWrite
  <2> QED
    BY <1>3, <2>1
<1>11. CASE \/ GcsOpenSession(f) \/ GcsRead(f) \/ GcsDelete(f) \/ GcsList(f)
            \/ GcsRefuse(f) \/ GcsUnavailable(f)
  <2>1. (\E a : Reply(f, a)) /\ wrote' = wrote
    BY <1>11 DEF GcsOpenSession, GcsRead, GcsDelete, GcsList, GcsRefuse,
                 GcsUnavailable
  <2> QED
    BY <1>3, <2>1
<1>12. CASE UpstreamLost(f) \/ OrphanDropped(f)
  BY <1>12 DEF UpstreamLost, OrphanDropped
<1> QED
  BY <1>1, <1>5, <1>6, <1>7, <1>8, <1>9, <1>10, <1>11, <1>12
     DEF ProxyStep, ServiceStep

LEMMA UploadFrame ==
  ASSUME NEW g \in Flows, UploadOK(g), StoredOK(g),
         pc'[g] = pc[g], at'[g] = at[g], req'[g] = req[g],
         call'[g] = call[g], sess'[g] = sess[g], wrote'[g] = wrote[g]
  PROVE  UploadOK(g)' /\ StoredOK(g)'
<1>1. Intercepted(g)' = Intercepted(g)
  BY DEF Intercepted, Sent, KeyOf
<1>2. Upstream(g, req[g])' = Upstream(g, req[g])
  BY DEF Upstream, SealedBody, EmptyPart, StrayPlaintext, KeyOf
<1>3. Retrievable(g)' = Retrievable(g)
  BY DEF Retrievable, Spoilt, KeyOf
<1> QED
  BY <1>1, <1>2, <1>3 DEF UploadOK, StoredOK, Sent

(* Nothing but a write by the service changes what was stored for a flow.  *)
LEMMA StoredFrame ==
  ASSUME TypeOK, NEW f \in Flows, UploadOK(f), StoredOK(f),
         Send(f) \/ ProxyStep(f) \/ ServiceStep(f)
  PROVE  StoredOK(f)'
<1>1. CASE Send(f)
  <2>1. wrote'[f] = NoWrite
    BY <1>1 DEF Send, UploadOK, service
  <2> QED
    BY <2>1 DEF StoredOK
<1>2. CASE GcsWrite(f)
  BY <1>2, GcsWriteReadable
<1>3. CASE wrote' = wrote /\ call' = call /\ at' = at
  BY <1>3 DEF StoredOK, Intercepted, Sent, Retrievable, Spoilt, KeyOf
<1>4. CASE ProxyStep(f)
  <2>1. wrote' = wrote /\ call' = call /\ at' = at
    BY <1>4 DEF ProxyStep, ForwardRequest, HandleMetadataRequest,
           HandleMultipartRequest, ConvertSinglePartUpload, ReadSession,
           ConvertPut, ForwardResponse, HandleUploadResponse,
           HandleMetadataResponse, LookupKey, HandleSimpleDownloadResponse,
           CreateSession, WriteSession, Forward, Finish, service, client
  <2> QED
    BY <1>3, <2>1
<1>5. CASE ServiceStep(f) /\ ~GcsWrite(f)
  <2>1. wrote' = wrote /\ call' = call /\ at' = at
    BY <1>5 DEF ServiceStep, GcsOpenSession, GcsRead, GcsDelete, GcsList,
           GcsRefuse, GcsUnavailable, UpstreamLost, OrphanDropped, Reply,
           service, client
  <2> QED
    BY <1>3, <2>1
<1> QED
  BY <1>1, <1>2, <1>4, <1>5

LEMMA StepUpload ==
  ASSUME TypeOK, NEW f \in Flows, UploadOK(f),
         Send(f) \/ ProxyStep(f) \/ ServiceStep(f)
  PROVE  UploadOK(f)'
<1>1. CASE Send(f)
  BY <1>1, SendUpload
<1>2. CASE ServiceStep(f)
  BY <1>2, ServiceStepUpload
<1>3. CASE ForwardRequest(f) \/ HandleMetadataRequest(f)
  BY <1>3, ForwardedUntouchedUpload
<1>4. CASE HandleMultipartRequest(f)
  BY <1>4, HandleMultipartUpload
<1>5. CASE ConvertSinglePartUpload(f)
  BY <1>5, ConvertSinglePartUploadUpload
<1>6. CASE ReadSession(f)
  BY <1>6, ReadSessionUpload
<1>7. CASE ConvertPut(f)
  BY <1>7, ConvertPutUpload
<1>8. CASE \/ ForwardResponse(f) \/ HandleUploadResponse(f)
           \/ HandleMetadataResponse(f) \/ LookupKey(f)
           \/ HandleSimpleDownloadResponse(f)
           \/ CreateSession(f) \/ WriteSession(f)
  BY <1>8, AnswerStepsUpload
<1> QED
  BY <1>1, <1>2, <1>3, <1>4, <1>5, <1>6, <1>7, <1>8 DEF ProxyStep

(* A crash loses flows; a request that was out of the proxy stays so.      *)
LEMMA CrashUpload ==
  ASSUME TypeOK, NEW i \in Instances, Crash(i), NEW g \in Flows,
         UploadOK(g), StoredOK(g)
  PROVE  UploadOK(g)' /\ StoredOK(g)'
<1>1. /\ at' = at /\ req' = req /\ call' = call /\ sess' = sess
      /\ wrote' = wrote
  BY DEF Crash, service
<1>2. StoredOK(g)'
  BY <1>1 DEF StoredOK, Intercepted, Sent, Retrievable, Spoilt, KeyOf
<1>3. CASE pc'[g] = pc[g]
  BY <1>1, <1>2, <1>3, UploadFrame
<1>4. CASE pc'[g] # pc[g]
  <2>1. at[g] = i /\ pc'[g] = IF pc[g] = "forwarded" THEN "orphaned" ELSE "lost"
    BY <1>4 DEF Crash
  <2>2. pc[g] # "idle"
    BY <2>1, AbsenceAssumption DEF UploadOK
  <2>3. Intercepted(g)' = Intercepted(g)
    BY <1>1 DEF Intercepted, Sent, KeyOf
  <2>4. Upstream(g, req[g])' = Upstream(g, req[g])
    BY <1>1 DEF Upstream, SealedBody, EmptyPart, StrayPlaintext, KeyOf
  <2> QED
    BY <1>1, <1>2, <2>1, <2>2, <2>3, <2>4 DEF UploadOK, Sent
<1> QED
  BY <1>3, <1>4

LEMMA InvInit == Init => IInv
<1> SUFFICES ASSUME Init PROVE IInv
  OBVIOUS
<1>1. TypeOK
  BY InitTyped
<1>2. UploadInv
  BY DEF Init, UploadInv, UploadOK
<1>3. StoredReadable
  BY DEF Init, StoredReadable, Intercepted, Sent
<1> QED
  BY <1>1, <1>2, <1>3 DEF IInv

LEMMA InvNext == IInv /\ [Next]_vars => IInv'
<1> SUFFICES ASSUME IInv, [Next]_vars PROVE IInv'
  OBVIOUS
<1>1. /\ TypeOK /\ Served
      /\ \A g \in Flows : UploadOK(g) /\ StoredOK(g)
  BY DEF IInv, Served, UploadInv, UploadOK, StoredReadable, StoredOK
<1>2. SUFFICES TypeOK' /\ \A g \in Flows : UploadOK(g)' /\ StoredOK(g)'
  BY DEF IInv, UploadInv, StoredReadable, StoredOK
<1>3. ASSUME NEW f \in Flows, Send(f) \/ ProxyStep(f) \/ ServiceStep(f)
      PROVE  TypeOK' /\ \A g \in Flows : UploadOK(g)' /\ StoredOK(g)'
  <2>1. TypeOK'
    <3>1. CASE Send(f)
      BY <1>1, <3>1, SendTyped
    <3>2. CASE \/ ForwardRequest(f) \/ HandleMetadataRequest(f)
               \/ HandleMultipartRequest(f) \/ ConvertSinglePartUpload(f)
               \/ ReadSession(f)
      BY <1>1, <3>2, RequestStepsTyped
    <3>3. CASE ConvertPut(f)
      <4>1. sess[f] # NoFile
        BY <1>1, <3>3 DEF UploadOK, ConvertPut
      <4> QED
        BY <1>1, <3>3, <4>1, ConvertPutTyped
    <3>4. CASE \/ ForwardResponse(f) \/ HandleUploadResponse(f)
               \/ HandleMetadataResponse(f) \/ LookupKey(f)
               \/ HandleSimpleDownloadResponse(f)
      BY <1>1, <3>4, AnswerStepsTyped
    <3>5. CASE CreateSession(f) \/ WriteSession(f)
      BY <1>1, <3>5, SessionStepsTyped
    <3>6. CASE ServiceStep(f)
      BY <1>1, <3>6, ServiceStepTyped
    <3> QED
      BY <1>3, <3>1, <3>2, <3>3, <3>4, <3>5, <3>6 DEF ProxyStep
  <2>2. UploadOK(f)' /\ StoredOK(f)'
    BY <1>1, <1>3, StepUpload, StoredFrame
  <2>3. ASSUME NEW g \in Flows, g # f
        PROVE  UploadOK(g)' /\ StoredOK(g)'
    BY <1>1, <1>3, <2>3, StepFrame, UploadFrame
  <2> QED
    BY <2>1, <2>2, <2>3
<1>4. ASSUME NEW i \in Instances, Crash(i)
      PROVE  TypeOK' /\ \A g \in Flows : UploadOK(g)' /\ StoredOK(g)'
  BY <1>1, <1>4, CrashTyped, CrashUpload
<1>5. CASE UNCHANGED vars
  <2>1. TypeOK'
    BY <1>1, <1>5 DEF TypeOK, vars, service, local, client
  <2>2. ASSUME NEW g \in Flows
        PROVE  UploadOK(g)' /\ StoredOK(g)'
    BY <1>1, <1>5, UploadFrame DEF vars, service, local, client
  <2> QED
    BY <2>1, <2>2
<1>6. CASE Next
  BY <1>3, <1>4, <1>5, <1>6 DEF Next, Rest
<1> QED
  BY <1>5, <1>6

LEMMA Inductive == Spec => []IInv
BY InvInit, InvNext, PTL DEF Spec

(***************************************************************************)
(* The theorems.                                                           *)
(***************************************************************************)

(* Whatever clients send, in whatever order the proxies' and the service's *)
(* steps fall, all state keeps its type: in particular no digest shown for *)
(* an object is that of its ciphertext once the proxy has stamped it.      *)
THEOREM TypesKept == Spec => []TypeOK
<1>1. IInv => TypeOK
  BY DEF IInv
<1> QED
  BY <1>1, Inductive, PTL

(* Every request body an intercepted upload becomes, by any of the three   *)
(* handlers, is absent, sealed under the key of the bucket it is bound for *)
(* or, after a failed conversion of a PUT, in a request that stores        *)
(* nothing.                                                                *)
THEOREM UploadsHandled == Spec => []UploadInv
<1>1. IInv => UploadInv
  BY DEF IInv
<1> QED
  BY <1>1, Inductive, PTL

(* What an intercepted upload left in the store can be read back: sealed   *)
(* under its bucket's key, with that key's id and the plaintext's digest   *)
(* in its metadata.                                                        *)
THEOREM StoredIsReadable == Spec => []StoredReadable
<1>1. IInv => StoredReadable
  BY DEF IInv
<1> QED
  BY <1>1, Inductive, PTL

(* No upload in one request leaves an intercepting proxy in plaintext,     *)
(* whether or not the KMS fails.                                           *)
THEOREM SealedOnTheWire == Spec => []SealedBeforeSend
<1>1. UploadInv => SealedBeforeSend
  <2> SUFFICES ASSUME UploadInv, NEW f \in Flows,
                      pc[f] \in {"forwarded", "orphaned"}, Intercepted(f),
                      call[f].op \in {"multipart", "media"}
               PROVE  \/ req[f].body.media \in {NoMedia, Plain(Empty)}
                      \/ req[f].body.media.key # NoKey
    BY DEF SealedBeforeSend
  <2>1. Upstream(f, req[f])
    BY DEF UploadInv, UploadOK, UploadOps
  <2>2. ~StrayPlaintext(f, req[f])
    BY DEF StrayPlaintext
  <2> QED
    BY <2>1, <2>2 DEF Upstream, SealedBody, EmptyPart, NoBody
<1> QED
  BY <1>1, UploadsHandled, PTL
=============================================================================
