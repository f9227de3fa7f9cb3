---------------------------- MODULE FlowInvariants --------------------------
(***************************************************************************)
(* The inductive invariants behind the properties of FlowProperties: what  *)
(* a request has become by the time the service sees it (ExchangeInv), and *)
(* who knows of a resumable session (SessionInv).  They speak of all       *)
(* instances, flows and failures; nothing is assumed of object names.      *)
(***************************************************************************)
EXTENDS FlowProperties

(* The uploads an instance rewrites.                                       *)
Touched(f) == Intercepted(f) /\ call[f].op \in UploadOps

(* Where f's upload is stored: the name of a resumable upload has been     *)
(* through a query by then.                                                *)
Landing(f) ==
  IF call[f].op = "put"
  THEN <<bound[call[f].id][1], QueryRoundTrip[bound[call[f].id][2]]>>
  ELSE <<call[f].bucket, call[f].name>>

(* The object names that are the same after a query: those without the     *)
(* characters a query gives a meaning to (+, &, #, %).                     *)
NamesSurvive == \A n \in Names : QueryRoundTrip[n] = n

(* The reads whose URL passes the tests of InterceptGcsMethod: JSON reads  *)
(* of a name whose last segment is not "o", which would look like a list,  *)
(* and XML reads of one in which no "b" marks a bucket that is not there.  *)
ReadsRouted ==
  \A f \in Flows : \A c \in ClientCalls[f] :
    /\ c.op \in ReadOps => c.name[Len(c.name)] # "o"
    /\ c.op = "xmlGet" => \A i \in 1 .. Len(c.name) - 1 : c.name[i] # "b"

(* The digest a metadata request shows is that of the plaintext.           *)
ShownDigest(stamp, digest) == IF stamp.custom THEN stamp.digest ELSE digest
Truthful(v) == ShownDigest(v.stamp, MediaDigest(v.media)) = v.media.data

(***************************************************************************)
(* Exchanges.  Accepted: the service may store something of r.             *)
(***************************************************************************)
Accepted(r) == \/ StoresMultipart(r) \/ StoresMedia(r) \/ StoresXml(r)
               \/ CompletesSession(r)

(* An upload that is not touched, and anything but an upload, goes out as  *)
(* the client sent it, except for the query of a partial metadata request. *)
AsSent(f, r) ==
  \/ r = RequestOf(call[f])
  \/ /\ call[f].op = "fields"
     /\ r = [RequestOf(call[f]) EXCEPT !.query = [NoQuery EXCEPT !.alt = "json"]]

(* One that is touched goes out as a PUT without its body or as multipart  *)
(* upload; if it is one the service accepts, then for the object the       *)
(* client meant, with the digest of what it holds, and its answer will     *)
(* come by HandleMultipartResponse.                                        *)
Rewritten(f, r) ==
  \/ call[f].op = "put" /\ r = Bodiless(RequestOf(call[f]))
  \/ /\ r.method = "POST" /\ r.query.uploadType = "multipart"
     /\ \E b \in Segments : r.path = UploadPath(b)
     /\ call[f].op = "multipart" => r.query.ifAbsent = call[f].ifAbsent
     /\ call[f].op = "put" => call[f].id # NoId
     /\ StoresMultipart(r) =>
          /\ <<UrlBucket(r), UploadName(r)>> = Landing(f)
          /\ InterceptGcsMethod(Mapping[at[f]], r) = "multiPartUpload"
          /\ r.digest = Content(f)
          /\ VersionOf(r).media.data = Content(f) /\ Truthful(VersionOf(r))

Out == {"forwarded", "orphaned", "answered", "keyed", "created", "done"}

RequestOK(f) ==
  /\ pc[f] = "loaded" => Touched(f)
  /\ pc[f] \in Out \/ wrote[f] # NoWrite =>
       IF Touched(f) THEN Rewritten(f, req[f]) ELSE AsSent(f, req[f])

(* What the service stored for f is what f's request says.                 *)
WroteOK(f) ==
  wrote[f] # NoWrite =>
    /\ pc[f] \in {"answered", "keyed", "created", "done", "lost"}
    /\ Accepted(req[f])
    /\ wrote[f].obj = WriteTarget(req[f])
    /\ wrote[f].version = VersionOf(req[f])
    /\ req[f].query.ifAbsent => wrote[f].over = Absent

(* A write that was answered with a success was stored; on its way back    *)
(* the answer shows the service's digest, in the end the plaintext's.      *)
WriteOps == UploadOps \cup {"xmlPut"}

AnswerOK(f) ==
  /\ pc[f] \notin {"answered", "keyed", "created", "done"}
       => ans[f] = NoAnswer
  /\ pc[f] = "keyed" => Route(f) = "simpleDownload"
  /\ pc[f] = "created" => Route(f) = "resumableUploadPost"
  /\ pc[f] \in {"answered", "keyed", "created", "done"}
     /\ ans[f].status = "ok" /\ call[f].op \in WriteOps =>
       /\ wrote[f] # NoWrite
       /\ ans[f].digest = IF pc[f] = "done" THEN wrote[f].version.media.data
                          ELSE MediaDigest(wrote[f].version.media)
       /\ pc[f] = "done" /\ Touched(f) => req[f].method = "POST"

(* Every request the service acts on is for the object its client meant,   *)
(* whatever handler rewrote it, and every success the client is shown is   *)
(* one the service stored.                                                 *)
ExchangeInv == \A f \in Flows : RequestOK(f) /\ WroteOK(f) /\ AnswerOK(f)

(***************************************************************************)
(* Sessions.                                                               *)
(***************************************************************************)
Knows(f, id) == ans[f].uploadId = id

(* An upload id is given to one exchange only, for the object it names.    *)
GivenOnce(id) ==
  \A f \in Flows : Knows(f, id) =>
    /\ bound[id] \in Objects
    /\ \A g \in Flows : Knows(g, id) => g = f
    /\ pc[f] \in {"answered", "keyed", "created"} =>
         /\ OpensSession(req[f])
         /\ bound[id] = <<UrlBucket(req[f]), UploadName(req[f])>>

(* A session file is complete, or empty and useless, and lies with the     *)
(* instance that served the POST.                                          *)
Describes(s, id) == s # BadFile => <<s.bucket, s.name>> = bound[id]

FileMatches(i, id) ==
  files[i][id] # NoFile =>
    /\ bound[id] \in Objects
    /\ \A f \in Flows : Knows(f, id) => at[f] = i
    /\ Describes(files[i][id], id)

(* A PUT names a session whose POST is over; one that was turned into an   *)
(* upload has used the session's file up, and none after it did.           *)
NamesSession(f) ==
  Sent(f) /\ call[f].op = "put" /\ call[f].id # NoId

Converting(f) == /\ NamesSession(f) /\ Intercepted(f)
                 /\ pc[f] \notin {"idle", "request", "loaded"}
                 /\ req[f].method = "POST"

PutOK(f) ==
  /\ NamesSession(f) => \E g \in Flows : pc[g] = "done" /\ Knows(g, call[f].id)
  /\ pc[f] = "loaded" =>
       /\ NamesSession(f) /\ Describes(sess[f], call[f].id)
       /\ \A g \in Flows : Knows(g, call[f].id) => at[g] = at[f]
  /\ Converting(f) => \A i \in Instances : files[i][call[f].id] = NoFile
  /\ \A g \in before[f] : Acked(g)
  /\ \A g \in before[f] : SamePut(f, g) /\ Intercepted(f) /\ Intercepted(g)
       => pc[f] # "loaded" /\ ~Converting(f)

(* Whatever crashes, whichever instances serve the PUTs and however they   *)
(* interleave, a session file belongs to one session, and whoever uses it  *)
(* is the only one to.                                                     *)
SessionInv ==
  /\ \A id \in UploadIds : GivenOnce(id)
  /\ \A i \in Instances, id \in UploadIds : FileMatches(i, id)
  /\ \A f \in Flows : PutOK(f)

(***************************************************************************)
(* Reads.  ReadYourWrites is a promise for calm runs: the KMS and the      *)
(* service work, answers come uncompressed, every instance encrypts.       *)
(* Crashes and disk errors may happen.                                     *)
(***************************************************************************)
Calm == ~KmsFailures /\ ~GcsFailures /\ ~Compression /\ EncryptDisabled = {}

(* What writes is an ordinary upload: nothing is deleted or written past   *)
(* the proxy, and no upload is without content or loses it (see Spoilt).   *)
OrdinaryUploads ==
  \A f \in Flows : \A c \in ClientCalls[f] :
    /\ c.op \notin {"delete", "xmlPut"}
    /\ c.op \in UploadOps => c.data \in Contents
    /\ c.op = "put" => c.range # "none"
    /\ c.op = "multipart" => c.shape # "file"

(* The names whose key a download finds: those not cut at an inner "/o/".  *)
NamesUncut ==
  \A f \in Flows : \A c \in ClientCalls[f] :
    c.op = "download" => \A i \in 2 .. Len(c.name) - 1 : c.name[i] # "o"

(* A PUT goes to the URL its session was opened with, which names the      *)
(* bucket.                                                                 *)
PutsAtHome ==
  \A f \in Flows : NamesSession(f) => call[f].bucket = bound[call[f].id][1]

(* The object holds what one of its uploads stored, once there is one.     *)
LastWritten(obj) ==
  Writers(obj) # {} => \E h \in Writers(obj) : store[obj] = wrote[h].version

(* The reads ReadYourWrites speaks of.                                     *)
Follows(f) ==
  /\ Sent(f) /\ call[f].op \in ReadOps /\ Intercepted(f)
  /\ OneKey(call[f].bucket) \/ call[f].op # "download"
  /\ \E g \in before[f] :
       Acked(g) /\ Intended(g) = <<call[f].bucket, call[f].name>>

(* An answer a of the service to a read that shows version v.              *)
Shows(op, a, v) ==
  /\ a.status = "ok" /\ a.stamp = v.stamp /\ a.digest = MediaDigest(v.media)
  /\ IF op = "download" THEN a.media = v.media ELSE a.form = "resource"

(* On its way back such a read shows what some upload stored, though the   *)
(* object may hold another by then; the key looked up is the bucket's.     *)
ReadOK(f) ==
  LET obj == <<call[f].bucket, call[f].name>>
  IN  Follows(f) =>
        /\ pc[f] \in {"answered", "keyed"} =>
             \E h \in Writers(obj) : Shows(call[f].op, ans[f], wrote[h].version)
        /\ pc[f] = "keyed" /\ call[f].op = "download" =>
             keyid[f] = KeyOf(f, call[f].bucket)
        /\ pc[f] = "done" =>
             /\ ans[f].status = "ok"
             /\ Shown(f) \in {call[h].data : h \in Writers(obj)}

(* However reads interleave with uploads that replace the object between   *)
(* the fetch of the ciphertext and the look-up of its key, an object that  *)
(* was uploaded holds one upload whole, and a read that follows one is on  *)
(* its way with one upload whole, and will find its key.                   *)
ReadInv == /\ \A obj \in Objects : LastWritten(obj)
           /\ \A f \in Flows : ReadOK(f)
=============================================================================
