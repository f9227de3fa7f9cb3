------------------------------ MODULE ProxyFlow -----------------------------
(***************************************************************************)
(* Requests on their way through instances of the proxy to Cloud Storage   *)
(* and back.  A flow is one HTTP exchange: the client sends a call to some *)
(* instance, EncryptGcsPayload.Request rewrites it, the service acts on    *)
(* it, DecryptGcsPayload.Response rewrites the answer.  Flows interleave   *)
(* at every call that leaves the process: the service, the key lookup, the *)
(* session file.                                                           *)
(*                                                                         *)
(* The states of a flow (pc):                                              *)
(*   idle -> request -> (loaded ->) forwarded -> answered                  *)
(*        -> (keyed -> | created ->) done                                  *)
(* and, when the instance serving it dies or its connection upstream       *)
(* breaks, lost: the client got no answer; orphaned: the same, but the     *)
(* request had left the proxy and may still take effect.                   *)
(***************************************************************************)
EXTENDS Routing

CONSTANTS
  Instances,       (* proxy processes, each with its own /tmp             *)
  Flows,           (* HTTP exchanges                                      *)
  ClientCalls,     (* the calls each flow may be for                      *)
  Mapping,         (* the key mapping each instance was started with      *)
  EncryptDisabled, (* instances run with GCS_PROXY_DISABLE_ENCRYPTION     *)
  QueryRoundTrip,  (* what a name becomes, put unescaped in a query       *)
  InitialStores,   (* what may be stored before the first flow            *)
  KmsFailures, GcsFailures, DiskFailures, (* may these fail?              *)
  Compression,     (* may the service send its JSON answers compressed?   *)
  MaxCrashes,      (* bound on crashes of instances                       *)
  Absent, NoObject, NoFile, BadFile, NoWrite, NoCall, NoInstance

ASSUME FlowAssumption ==
  /\ ClientCalls \in [Flows -> SUBSET Calls]
  /\ DOMAIN Mapping = Instances
  /\ \A i \in Instances : IsMapping(Mapping[i])
  /\ EncryptDisabled \subseteq Instances
  /\ QueryRoundTrip \in [Names -> Seq(Segments)]
  /\ InitialStores \subseteq [Objects -> Versions \cup {Absent}]
  /\ {KmsFailures, GcsFailures, DiskFailures, Compression} \subseteq BOOLEAN
  /\ MaxCrashes \in Nat

Sessions == [bucket : Segments, name : Seq(Segments)]
Writes   == [obj : Objects, version : Versions,
             over : Versions \cup {Absent}]

ASSUME AbsenceAssumption ==
  /\ Absent \notin Versions
  /\ NoObject \notin Objects
  /\ NoFile \notin Sessions /\ BadFile \notin Sessions /\ NoFile # BadFile
  /\ NoWrite \notin Writes
  /\ NoCall \notin Calls
  /\ NoInstance \notin Instances

VARIABLES
  store,    (* the service: the live version of every object              *)
  bound,    (* the service: the object an upload id was opened for        *)
  files,    (* per instance: /tmp/go-gcsproxy-<id>.json                   *)
  crashes,  (* how often an instance has died                             *)
  pc, at,   (* per flow: progress, and the instance that serves it        *)
  req, ans, (* f.Request and f.Response, as rewritten so far              *)
  sess,     (* the session file a resumable PUT has read                  *)
  keyid,    (* the key id a download has looked up                        *)
  call,     (* history: what the client asked for                         *)
  before,   (* history: the uploads acknowledged before this was sent     *)
  wrote     (* history: what the service stored for the flow              *)

service == <<store, bound, wrote>>
local   == <<files, sess, keyid>>
client  == <<call, at, before, crashes>>
vars    == <<service, local, client, pc, req, ans>>

NoRequest == [method |-> "GET", path |-> <<"">>, query |-> NoQuery,
              range |-> "none", body |-> NoBody, digest |-> NoContent]

Init ==
  /\ store \in InitialStores
  /\ bound = [id \in UploadIds |-> NoObject]
  /\ files = [i \in Instances |-> [id \in UploadIds |-> NoFile]]
  /\ crashes = 0
  /\ pc = [f \in Flows |-> "idle"]
  /\ at = [f \in Flows |-> NoInstance]
  /\ req = [f \in Flows |-> NoRequest]
  /\ ans = [f \in Flows |-> NoAnswer]
  /\ sess = [f \in Flows |-> NoFile]
  /\ keyid = [f \in Flows |-> NoKey]
  /\ call = [f \in Flows |-> NoCall]
  /\ before = [f \in Flows |-> {}]
  /\ wrote = [f \in Flows |-> NoWrite]

UploadOps == {"multipart", "media", "put"}
Sent(f) == call[f] # NoCall

(* The client of f was told that its upload succeeded.                     *)
Acked(f) == /\ Sent(f) /\ call[f].op \in UploadOps
            /\ pc[f] = "done" /\ ans[f].status = "ok"

(***************************************************************************)
(* Clients.  A PUT names an upload id that some client was given.          *)
(***************************************************************************)
Send(f) ==
  /\ pc[f] = "idle"
  /\ \E c \in ClientCalls[f], i \in Instances :
       /\ c.op = "put" =>
            \E g \in Flows : /\ pc[g] = "done" /\ ans[g].status = "ok"
                             /\ ans[g].uploadId = c.id
       /\ call' = [call EXCEPT ![f] = c]
       /\ at' = [at EXCEPT ![f] = i]
       /\ req' = [req EXCEPT ![f] = RequestOf(c)]
  /\ before' = [before EXCEPT ![f] = {g \in Flows : Acked(g)}]
  /\ pc' = [pc EXCEPT ![f] = "request"]
  /\ UNCHANGED <<service, local, ans, crashes>>

(***************************************************************************)
(* EncryptGcsPayload.Request.                                              *)
(***************************************************************************)
KeyOf(f, bucket) == GetKMSKeyName(Mapping[at[f]], bucket)

Route(f) == IF at[f] \in EncryptDisabled THEN "passThru"
            ELSE InterceptGcsMethod(Mapping[at[f]], req[f])

Forward(f, r) ==
  /\ req' = [req EXCEPT ![f] = r]
  /\ pc' = [pc EXCEPT ![f] = "forwarded"]
  /\ UNCHANGED <<service, client, ans>>

(* A bug StoredReadable catches: the error branch leaves the body alone.   *)
BodyKept(r) == r

(* On error: f.Request.Body = nil.                                         *)
Bodiless(r) == [r EXCEPT !.body = NoBody]

(* What EncryptBytes may return; NoMedia is an error.  An empty key is an  *)
(* error, any other key was tried at startup and fails only with the KMS.  *)
EncryptBytes(key, data) ==
  (IF key = NoKey THEN {} ELSE {[key |-> key, data |-> data]})
    \cup (IF key = NoKey \/ KmsFailures THEN {NoMedia} ELSE {})

(* What DecryptBytes may return; NoContent is an error.                    *)
DecryptBytes(key, media) ==
  (IF key # NoKey /\ media.key = key THEN {media.data} ELSE {NoContent})
    \cup (IF KmsFailures THEN {NoContent} ELSE {})

(* A bug TypeOK catches: the metadata carries the hash of the ciphertext.  *)
SealedStamp(key, data) ==
  [custom |-> TRUE, key |-> key, digest |-> CipherDigest]

Stamp(key, data) == [custom |-> TRUE, key |-> key, digest |-> data]

(* Nothing the model keeps is rewritten for these three: a resumable POST  *)
(* and a download only lose a header (the Range header is in ByteRange).   *)
ForwardRequest(f) ==
  /\ pc[f] = "request"
  /\ Route(f) \in {"passThru", "resumableUploadPost", "simpleDownload"}
  /\ Forward(f, req[f])
  /\ UNCHANGED local

HandleMetadataRequest(f) ==
  /\ pc[f] = "request" /\ Route(f) = "metadataRequest"
  /\ Forward(f, [WithRewrittenQuery(req[f]) EXCEPT !.query.fields = FALSE])
  /\ UNCHANGED local

(* A bug NoClobber catches: the query is rebuilt, as it is for "media".    *)
SealedAnew(r, key, m) ==
  [r EXCEPT !.body.media = m, !.digest = r.body.media.data,
            !.body.meta.stamp = Stamp(key, r.body.media.data),
            !.query = [NoQuery EXCEPT !.uploadType = "multipart"]]

SealedMultipart(r, key, m) ==
  [r EXCEPT !.body.media = m, !.digest = r.body.media.data,
            !.body.meta.stamp = Stamp(key, r.body.media.data)]

(* A second part with a file name is not read: what goes out is an empty   *)
(* part, under the metadata of an empty object.                            *)
Emptied(r, key) ==
  [r EXCEPT !.body.media = Plain(Empty), !.digest = Empty,
            !.body.meta.stamp = Stamp(key, Empty)]

(* The key is that of the bucket the JSON part names, if it names one.     *)
HandleMultipartRequest(f) ==
  /\ pc[f] = "request" /\ Route(f) = "multiPartUpload"
  /\ LET r      == req[f]
         bucket == IF r.body.meta.bucket # NoBucket THEN r.body.meta.bucket
                   ELSE GetBucketNameFromRequestUri(r.path)
         key    == KeyOf(f, bucket)
     IN \/ /\ r.body.form \notin {"multipart", "file"}
           /\ Forward(f, Bodiless(r))
        \/ r.body.form = "file" /\ Forward(f, Emptied(r, key))
        \/ /\ r.body.form = "multipart"
           /\ \E m \in EncryptBytes(key, r.body.media.data) :
                Forward(f, IF m = NoMedia THEN Bodiless(r)
                           ELSE SealedMultipart(r, key, m))
  /\ UNCHANGED local

(* ConvertSinglePartUploadtoMultiPartUpload.  The URL, the verb and the    *)
(* headers are rewritten before the encryption that may fail.              *)
NewQuery == [NoQuery EXCEPT !.alt = "json", !.uploadType = "multipart"]

(* A bug AckedUploadStored catches: the hash is taken of what is sent.     *)
RelabelledLate(r) ==
  [r EXCEPT !.method = "POST", !.query = NewQuery, !.digest = CipherDigest]

Relabelled(r) ==
  [r EXCEPT !.method = "POST", !.query = NewQuery,
            !.digest = r.body.media.data]
Converted(r, m) ==
  IF m = NoMedia THEN Relabelled(r)
  ELSE [Relabelled(r) EXCEPT !.body =
          [form |-> "multipart", media |-> m,
           meta |-> [bucket |-> GetBucketNameFromRequestUri(r.path),
                     name |-> r.query.name,
                     stamp |-> Stamp(m.key, r.body.media.data)]]]

(* A bug SealedBeforeSend catches: the error is ignored, as it is for PUT. *)
ConvertSinglePartUnchecked(f) ==
  /\ pc[f] = "request" /\ Route(f) = "singlePartUpload"
  /\ LET r == req[f]
     IN \E m \in EncryptBytes(KeyOf(f, GetBucketNameFromRequestUri(r.path)),
                              r.body.media.data) : Forward(f, Converted(r, m))
  /\ UNCHANGED local

ConvertSinglePartUpload(f) ==
  /\ pc[f] = "request" /\ Route(f) = "singlePartUpload"
  /\ LET r == req[f]
     IN \E m \in EncryptBytes(KeyOf(f, GetBucketNameFromRequestUri(r.path)),
                              r.body.media.data) :
          Forward(f, IF m = NoMedia THEN Bodiless(Converted(r, m))
                     ELSE Converted(r, m))
  /\ UNCHANGED local

(* HandleResumablePutRequest up to the read of the session file.           *)
ReadSession(f) ==
  /\ pc[f] = "request" /\ Route(f) = "resumableUploadPut"
  /\ LET r == req[f]
         usable == /\ r.range = "whole" /\ r.query.uploadId # NoId
                   /\ files[at[f]][r.query.uploadId] # NoFile
     IN \/ /\ ~usable
           /\ Forward(f, Bodiless(r))
           /\ UNCHANGED local
        \/ /\ usable
           /\ sess' = [sess EXCEPT ![f] = files[at[f]][r.query.uploadId]]
           /\ pc' = [pc EXCEPT ![f] = "loaded"]
           /\ UNCHANGED <<service, client, req, ans, files, keyid>>

(* The deferred os.Remove, then the conversion; the error the conversion   *)
(* may return is not looked at, so the body it left goes out.              *)
AtSession(r, s) ==
  [r EXCEPT !.path = UploadPath(s.bucket),
            !.query = [NoQuery EXCEPT
                         !.name = IF s.name \in Names
                                  THEN QueryRoundTrip[s.name] ELSE s.name]]

(* A bug OneShotSession catches: the file is left for a retry.             *)
KeepFile(f) == UNCHANGED files

RemoveFile(f) ==
  files' = [files EXCEPT ![at[f]][req[f].query.uploadId] = NoFile]

ConvertPut(f) ==
  /\ pc[f] = "loaded"
  /\ RemoveFile(f)
  /\ \/ /\ sess[f] = BadFile
        /\ Forward(f, Bodiless(req[f]))
     \/ /\ sess[f] # BadFile
        /\ LET r == AtSession(req[f], sess[f])
           IN \E m \in
                EncryptBytes(KeyOf(f, GetBucketNameFromRequestUri(r.path)),
                             r.body.media.data) :
                Forward(f, Converted(r, m))
  /\ UNCHANGED <<sess, keyid>>

(***************************************************************************)
(* The storage service.  It acts on every request it has received, whether *)
(* or not the proxy that sent it is still there to hear the answer.        *)
(***************************************************************************)
Live(f) == pc[f] \in {"forwarded", "orphaned"}

Reply(f, a) ==
  /\ pc' = [pc EXCEPT ![f] = IF @ = "orphaned" THEN "lost" ELSE "answered"]
  /\ ans' = IF pc[f] = "orphaned" THEN ans ELSE [ans EXCEPT ![f] = a]
  /\ UNCHANGED <<local, client, req>>

Resource(v) == [NoAnswer EXCEPT !.status = "ok", !.form = "resource",
                                !.stamp = v.stamp,
                                !.digest = MediaDigest(v.media)]
JsonForms == {"resource"} \cup (IF Compression THEN {"packed"} ELSE {})

SessionDone(id) ==
  \E g \in Flows : /\ wrote[g] # NoWrite
                   /\ req[g].method = "PUT" /\ req[g].query.uploadId = id

WriteTarget(r) ==
  IF StoresMultipart(r) \/ StoresMedia(r) THEN <<UrlBucket(r), UploadName(r)>>
  ELSE IF CompletesSession(r) THEN bound[r.query.uploadId]
  ELSE <<UrlBucket(r), UrlName(r)>>

Writable(r) ==
  /\ \/ StoresMultipart(r) \/ StoresMedia(r) \/ StoresXml(r)
     \/ CompletesSession(r) /\ ~SessionDone(r.query.uploadId)
  /\ WriteTarget(r) \in Objects
  /\ r.query.ifAbsent => store[WriteTarget(r)] = Absent

Readable(r) == /\ r.method \in {"GET", "DELETE"} /\ ~IsList(r)
               /\ <<UrlBucket(r), UrlName(r)>> \in Objects
               /\ store[<<UrlBucket(r), UrlName(r)>>] # Absent

FreeIds == {id \in UploadIds : bound[id] = NoObject}

GcsWrite(f) ==
  /\ Live(f) /\ Writable(req[f])
  /\ LET obj == WriteTarget(req[f])
         v   == VersionOf(req[f])
     IN /\ store' = [store EXCEPT ![obj] = v]
        /\ wrote' = [wrote EXCEPT ![f] = [obj |-> obj, version |-> v,
                                          over |-> store[obj]]]
        /\ \E form \in JsonForms :
             Reply(f, [Resource(v) EXCEPT !.form = form])
  /\ UNCHANGED bound

GcsOpenSession(f) ==
  /\ Live(f) /\ OpensSession(req[f])
  /\ \E id \in FreeIds :
       /\ bound' = [bound EXCEPT ![id] =
                      <<UrlBucket(req[f]), UploadName(req[f])>>]
       /\ Reply(f, [NoAnswer EXCEPT !.status = "ok", !.form = "session",
                                    !.uploadId = id])
  /\ UNCHANGED <<store, wrote>>

GcsRead(f) ==
  /\ Live(f) /\ Readable(req[f]) /\ req[f].method = "GET"
  /\ LET r == req[f]
         v == store[<<UrlBucket(r), UrlName(r)>>]
         wantsMedia == r.query.alt = "media" \/ r.path[1] # "storage"
     IN \E form \in JsonForms :
          Reply(f, IF wantsMedia
                   THEN [Resource(v) EXCEPT !.form = "media",
                                            !.media = v.media]
                   ELSE [Resource(v) EXCEPT !.form = form])
  /\ UNCHANGED service

GcsDelete(f) ==
  /\ Live(f) /\ Readable(req[f]) /\ req[f].method = "DELETE"
  /\ store' = [store EXCEPT ![<<UrlBucket(req[f]), UrlName(req[f])>>] = Absent]
  /\ Reply(f, [NoAnswer EXCEPT !.status = "ok"])
  /\ UNCHANGED <<bound, wrote>>

GcsList(f) ==
  /\ Live(f) /\ IsList(req[f]) /\ req[f].method = "GET"
  /\ Reply(f, [NoAnswer EXCEPT !.status = "ok", !.form = "resource"])
  /\ UNCHANGED service

(* 4xx, with a JSON or a plain text body.                                  *)
GcsRefuse(f) ==
  /\ Live(f)
  /\ LET r == req[f]
     IN /\ ~Writable(r) /\ ~Readable(r)
        /\ ~(OpensSession(r) /\ FreeIds # {})
        /\ ~(IsList(r) /\ r.method = "GET")
  /\ \E form \in {"error", "text"} :
       Reply(f, [NoAnswer EXCEPT !.status = "refused", !.form = form])
  /\ UNCHANGED service

(* 5xx without effect; a connection that breaks while the request is on    *)
(* its way, and may yet arrive, or before its answer is read, on which the *)
(* Response addon is not run.                                              *)
GcsUnavailable(f) ==
  /\ GcsFailures /\ Live(f)
  /\ Reply(f, NoAnswer)
  /\ UNCHANGED service

UpstreamLost(f) ==
  /\ GcsFailures /\ pc[f] \in {"forwarded", "answered"}
  /\ pc' = [pc EXCEPT ![f] = IF @ = "forwarded" THEN "orphaned" ELSE "lost"]
  /\ ans' = [ans EXCEPT ![f] = NoAnswer]
  /\ UNCHANGED <<service, local, client, req>>

OrphanDropped(f) ==
  /\ pc[f] = "orphaned"
  /\ pc' = [pc EXCEPT ![f] = "lost"]
  /\ UNCHANGED <<service, local, client, req, ans>>

(***************************************************************************)
(* DecryptGcsPayload.Response.  Route is asked again, of the request as it *)
(* was rewritten.  Failed is the 500 that replaces the answer.             *)
(***************************************************************************)
(* A bug AckedUploadStored and ExchangeInv catch: the 500 is only written  *)
(* to the body.                                                            *)
FailedInBody(a) == [a EXCEPT !.form = "text"]

Failed(a) == [NoAnswer EXCEPT !.uploadId = a.uploadId]

Finish(f, a) ==
  /\ ans' = [ans EXCEPT ![f] = a]
  /\ pc' = [pc EXCEPT ![f] = "done"]
  /\ UNCHANGED <<service, client, req>>

IsJson(a) == a.form \in {"resource", "error"}

ForwardResponse(f) ==
  /\ pc[f] = "answered" /\ Route(f) = "passThru"
  /\ Finish(f, ans[f])
  /\ UNCHANGED local

(* A bug StoreImplemented catches: the service's digest is left standing.  *)
ServiceDigestKept(f) ==
  /\ pc[f] = "answered"
  /\ Route(f) \in {"multiPartUpload", "resumableUploadPut"}
  /\ Finish(f, IF IsJson(ans[f]) THEN ans[f] ELSE Failed(ans[f]))
  /\ UNCHANGED local

(* HandleMultipartResponse and HandleResumablePutResponse: the digest kept *)
(* in the request headers replaces the service's.                          *)
HandleUploadResponse(f) ==
  /\ pc[f] = "answered"
  /\ Route(f) \in {"multiPartUpload", "resumableUploadPut"}
  /\ Finish(f, IF IsJson(ans[f]) /\ req[f].digest # NoContent
               THEN [ans[f] EXCEPT !.digest = req[f].digest]
               ELSE Failed(ans[f]))
  /\ UNCHANGED local

(* A bug StoreImplemented and ReadInv catch: only answers without metadata *)
(* are shown the digest in it.                                             *)
MetadataTestInverted(f) ==
  /\ pc[f] = "answered" /\ Route(f) = "metadataRequest"
  /\ Finish(f, IF ~IsJson(ans[f]) THEN Failed(ans[f])
               ELSE IF ans[f].stamp.custom THEN ans[f]
               ELSE [ans[f] EXCEPT !.digest = ans[f].stamp.digest])
  /\ UNCHANGED local

(* "metadata" in the resource makes its two entries win, even if missing.  *)
HandleMetadataResponse(f) ==
  /\ pc[f] = "answered" /\ Route(f) = "metadataRequest"
  /\ Finish(f, IF ~IsJson(ans[f]) THEN Failed(ans[f])
               ELSE IF ans[f].stamp.custom
               THEN [ans[f] EXCEPT !.digest = ans[f].stamp.digest]
               ELSE ans[f])
  /\ UNCHANGED local

(* GetObjectEncryptionKeyId asks the service for the object as it is now;  *)
(* its error is not looked at and leaves an empty key.                     *)
StoredKey(b, n) ==
  IF <<b, n>> \in Objects /\ store[<<b, n>>] # Absent
  THEN store[<<b, n>>].stamp.key ELSE NoKey

KeyInStore(f) == StoredKey(GetBucketNameFromRequestUri(req[f].path),
                           GetObjectNameFromRequestUri(req[f].path))

(* A bug EveryExchangeEnds catches: asking again until there is a key.     *)
KeyAskedAgain(f) == {KeyInStore(f)} \ {NoKey}

GetObjectEncryptionKeyId(f) ==
  {KeyInStore(f)} \cup (IF GcsFailures THEN {NoKey} ELSE {})

LookupKey(f) ==
  /\ pc[f] = "answered" /\ Route(f) = "simpleDownload"
  /\ \E k \in GetObjectEncryptionKeyId(f) : keyid' = [keyid EXCEPT ![f] = k]
  /\ pc' = [pc EXCEPT ![f] = "keyed"]
  /\ UNCHANGED <<service, client, req, ans, files, sess>>

(* An error body, JSON or text, does not decrypt either.                   *)
HandleSimpleDownloadResponse(f) ==
  /\ pc[f] = "keyed"
  /\ \E d \in DecryptBytes(keyid[f], ans[f].media) :
       Finish(f, IF d = NoContent THEN Failed(ans[f])
                 ELSE [ans[f] EXCEPT !.media = Plain(d), !.digest = d])
  /\ UNCHANGED local

(* HandleResumablePostResponse: the session as the client described it.    *)
SessionOf(r) ==
  [bucket |-> IF r.body.meta.bucket # NoBucket THEN r.body.meta.bucket
              ELSE GetBucketNameFromRequestUri(r.path),
   name   |-> IF r.body.form = "none" THEN r.query.name
              ELSE r.body.meta.name]

(* os.Create in StoreResumableData.  An error of StoreResumableData is not *)
(* looked at.                                                              *)
CreateSession(f) ==
  /\ pc[f] = "answered" /\ Route(f) = "resumableUploadPost"
  /\ LET refused == req[f].body.form = "nested" \/ ans[f].uploadId = NoId
     IN \/ /\ refused
           /\ Finish(f, Failed(ans[f]))
           /\ UNCHANGED local
        \/ /\ ~refused /\ DiskFailures
           /\ Finish(f, ans[f])
           /\ UNCHANGED local
        \/ /\ ~refused
           /\ files' = [files EXCEPT ![at[f]][ans[f].uploadId] = BadFile]
           /\ pc' = [pc EXCEPT ![f] = "created"]
           /\ UNCHANGED <<service, client, req, ans, sess, keyid>>

(* A bug StoreImplemented and SessionInv catch: the id is not in the       *)
(* file's name.                                                            *)
WriteSharedSession(f) ==
  /\ pc[f] = "created"
  /\ files' = [files EXCEPT ![at[f]] =
                 [id \in UploadIds |-> SessionOf(req[f])]]
  /\ Finish(f, ans[f])
  /\ UNCHANGED <<sess, keyid>>

(* file.Write in StoreResumableData.                                       *)
WriteSession(f) ==
  /\ pc[f] = "created"
  /\ \/ files' = [files EXCEPT ![at[f]][ans[f].uploadId] = SessionOf(req[f])]
     \/ DiskFailures /\ UNCHANGED files
  /\ Finish(f, ans[f])
  /\ UNCHANGED <<sess, keyid>>

(***************************************************************************)
(* The process dies (a crash, or os.Exit on SIGTERM) and is started again, *)
(* with its /tmp kept or, in a new container, empty.                       *)
(***************************************************************************)
Crash(i) ==
  /\ crashes < MaxCrashes
  /\ crashes' = crashes + 1
  /\ pc' = [f \in Flows |->
              IF at[f] # i \/ pc[f] \in {"done", "lost", "orphaned"} THEN pc[f]
              ELSE IF pc[f] = "forwarded" THEN "orphaned" ELSE "lost"]
  /\ ans' = [f \in Flows |-> IF pc'[f] = pc[f] THEN ans[f] ELSE NoAnswer]
  /\ \/ UNCHANGED files
     \/ files' = [files EXCEPT ![i] = [id \in UploadIds |-> NoFile]]
  /\ UNCHANGED <<service, sess, keyid, call, at, before, req>>

(* All exchanges over, or waiting for an upload id nobody was given.       *)
Rest == /\ \A f \in Flows : pc[f] \in {"idle", "done", "lost"}
        /\ UNCHANGED vars

ProxyStep(f) ==
  \/ ForwardRequest(f) \/ HandleMetadataRequest(f)
  \/ HandleMultipartRequest(f) \/ ConvertSinglePartUpload(f)
  \/ ReadSession(f) \/ ConvertPut(f)
  \/ ForwardResponse(f) \/ HandleUploadResponse(f)
  \/ HandleMetadataResponse(f)
  \/ LookupKey(f) \/ HandleSimpleDownloadResponse(f)
  \/ CreateSession(f) \/ WriteSession(f)

ServiceStep(f) ==
  \/ GcsWrite(f) \/ GcsOpenSession(f) \/ GcsRead(f) \/ GcsDelete(f)
  \/ GcsList(f) \/ GcsRefuse(f) \/ GcsUnavailable(f) \/ UpstreamLost(f)
  \/ OrphanDropped(f)

Next ==
  \/ \E f \in Flows : Send(f) \/ ProxyStep(f) \/ ServiceStep(f)
  \/ \E i \in Instances : Crash(i)
  \/ Rest

Spec == Init /\ [][Next]_vars

(* A handler runs to its end, and the service answers or the connection    *)
(* breaks; clients need not send, and nothing need fail.                   *)
Fairness == \A f \in Flows : WF_vars(ProxyStep(f)) /\ WF_vars(ServiceStep(f))
FairSpec == Spec /\ Fairness
=============================================================================
