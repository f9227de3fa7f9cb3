---------------------------- MODULE FlowProperties --------------------------
(***************************************************************************)
(* What the flows of ProxyFlow promise.  Properties about an upload are    *)
(* stated over the history variables call (what the client asked for) and  *)
(* wrote (what the service stored for it), not over the proxy's own state. *)
(***************************************************************************)
EXTENDS ProxyFlow

Progress == {"idle", "request", "loaded", "forwarded", "answered", "keyed",
             "created", "done", "lost", "orphaned"}

(* Types of the service's, the instances' and the flows' state.            *)
TypeOK ==
  /\ store \in [Objects -> Versions \cup {Absent}]
  /\ bound \in [UploadIds -> Objects \cup {NoObject}]
  /\ files \in [Instances -> [UploadIds -> Sessions \cup {NoFile, BadFile}]]
  /\ crashes \in 0 .. MaxCrashes
  /\ pc \in [Flows -> Progress]
  /\ at \in [Flows -> Instances \cup {NoInstance}]
  /\ req \in [Flows -> Requests]
  /\ ans \in [Flows -> Answers]
  /\ sess \in [Flows -> Sessions \cup {NoFile, BadFile}]
  /\ keyid \in [Flows -> Keys \cup {NoKey}]
  /\ call \in [Flows -> Calls \cup {NoCall}]
  /\ before \in [Flows -> SUBSET Flows]
  /\ wrote \in [Flows -> Writes \cup {NoWrite}]

(***************************************************************************)
(* Uploads.                                                                *)
(***************************************************************************)
ReadOps   == {"download", "stat", "fields"}

(* The instance that serves f encrypts the bucket of f's URL.              *)
Intercepted(f) == /\ Sent(f) /\ at[f] \notin EncryptDisabled
                  /\ KeyOf(f, call[f].bucket) # NoKey

(* Whatever an intercepted upload left in the store can be read back: it   *)
(* is sealed, under the key the mapping gives the bucket it was stored in, *)
(* the key id the download will look up is that key, the digest that       *)
(* metadata requests will show is the plaintext's, and the plaintext is    *)
(* what the client sent.  The exceptions store an empty object: a PUT      *)
(* without Content-Range, whose body is dropped, and a multipart upload    *)
(* whose media part has a file name, which is not read.                    *)
Spoilt(f) == \/ call[f].op = "put" /\ call[f].range = "none"
             \/ call[f].op = "multipart" /\ call[f].shape = "file"

Retrievable(f) ==
  LET v == wrote[f].version
      k == KeyOf(f, wrote[f].obj[1])
  IN \/ /\ k # NoKey
        /\ v.media = [key |-> k, data |-> call[f].data]
        /\ v.stamp = Stamp(k, call[f].data)
     \/ Spoilt(f) /\ v.media = Plain(Empty)

StoredReadable ==
  \A f \in Flows :
    Intercepted(f) /\ call[f].op \in UploadOps /\ wrote[f] # NoWrite
      => Retrievable(f)

(* What a request body may be while the service can still act on it: gone, *)
(* sealed under the key of the bucket it is meant for, the empty part left *)
(* of one with a file name, or, after a PUT whose encryption failed,       *)
(* plaintext in a request the service refuses.                             *)
KeyBucket(r) == IF r.body.meta.bucket # NoBucket THEN r.body.meta.bucket
                ELSE GetBucketNameFromRequestUri(r.path)

SealedBody(f, r) ==
  LET b == r.body
      k == KeyOf(f, KeyBucket(r))
  IN  /\ b.form = "multipart" /\ k # NoKey
      /\ b.media = [key |-> k, data |-> call[f].data]
      /\ b.meta.stamp = Stamp(k, call[f].data)

EmptyPart(f, r) ==
  /\ call[f].op = "multipart" /\ call[f].shape = "file"
  /\ r.body.media = Plain(Empty)

StrayPlaintext(f, r) ==
  /\ call[f].op = "put"
  /\ r.body.form = "raw" /\ r.method = "POST"
  /\ r.query.uploadType = "multipart"

Upstream(f, r) ==
  /\ \/ r.body = NoBody \/ SealedBody(f, r)
     \/ EmptyPart(f, r) \/ StrayPlaintext(f, r)
  /\ r.method = "PUT" => call[f].op = "put" /\ r.range = call[f].range

(* The inductive strengthening of StoredReadable and SealedBeforeSend:     *)
(* until it is handled an upload is as the client sent it, then its body   *)
(* is one of the four; it stays a PUT only if it was one.                  *)
UploadOK(f) ==
  /\ pc[f] = "idle" => wrote[f] = NoWrite /\ at[f] = NoInstance
  /\ pc[f] # "idle" => Sent(f) /\ at[f] \in Instances
  /\ pc[f] \in {"request", "loaded"} => req[f] = RequestOf(call[f])
  /\ pc[f] = "loaded" => call[f].op = "put" /\ sess[f] # NoFile
  /\ /\ pc[f] \in {"forwarded", "orphaned"}
     /\ Intercepted(f) /\ call[f].op \in UploadOps
     => Upstream(f, req[f])

UploadInv == \A f \in Flows : UploadOK(f)

(* A request body that leaves an intercepting proxy for an upload in one   *)
(* request is sealed, empty or absent, even when the KMS fails.            *)
SealedBeforeSend ==
  \A f \in Flows :
    /\ pc[f] \in {"forwarded", "orphaned"} /\ Intercepted(f)
    /\ call[f].op \in {"multipart", "media"}
    => \/ req[f].body.media \in {NoMedia, Plain(Empty)}
       \/ req[f].body.media.key # NoKey

(* The same for every upload ("on error don't upload anything").           *)
NoPlaintextUpstream ==
  \A f \in Flows :
    /\ pc[f] \in {"forwarded", "orphaned"} /\ Intercepted(f)
    /\ call[f].op \in UploadOps
    => req[f].body.media = NoMedia \/ req[f].body.media.key # NoKey

(* The object an upload is for: for a PUT, the one its session was opened  *)
(* for, by another flow and perhaps through another instance.              *)
Intended(f) == IF call[f].op = "put" THEN bound[call[f].id]
               ELSE <<call[f].bucket, call[f].name>>

(* A client told that its upload succeeded finds it stored, where it asked *)
(* for it, and was shown the digest of what it sent: a PUT whose body was  *)
(* dropped is not acknowledged, a multipart upload whose part has a file   *)
(* name is, with the digest of nothing.                                    *)
Content(f) == IF call[f].op = "multipart" /\ call[f].shape = "file" THEN Empty
              ELSE call[f].data

AckedUploadStored ==
  \A f \in Flows :
    Acked(f) /\ Intercepted(f) =>
      /\ wrote[f] # NoWrite
      /\ wrote[f].obj = Intended(f)
      /\ ans[f].digest = Content(f)

(* An upload made on condition that the object does not exist replaces     *)
(* nothing (the precondition is a query parameter the handlers must keep), *)
(* unless it is one whose query is written anew: a single-part upload or a *)
(* PUT that is intercepted loses its precondition (NewQuery).              *)
NoClobber ==
  \A f \in Flows :
    /\ Sent(f) /\ call[f].ifAbsent /\ wrote[f] # NoWrite
    /\ Intercepted(f) => call[f].op \notin {"media", "put"}
    => wrote[f].over = Absent

(***************************************************************************)
(* Resumable sessions.                                                     *)
(***************************************************************************)
SamePut(f, g) == /\ Sent(f) /\ Sent(g)
                 /\ call[f].op = "put" /\ call[g].op = "put"
                 /\ call[f].id = call[g].id

(* A session file serves one upload: no PUT sent after an acknowledged PUT *)
(* on the same upload id is acknowledged too, whichever instances encrypt  *)
(* them and whatever crashed between.                                      *)
OneShotSession ==
  \A f, g \in Flows :
    SamePut(f, g) /\ Intercepted(f) /\ Intercepted(g) /\ g \in before[f]
      => ~(Acked(f) /\ Acked(g))

(* The first whole PUT on a session that was handed out succeeds, through  *)
(* whichever instance it comes ("can work behind a load balancer").  Only  *)
(* for runs without failures.                                              *)
FirstPutSucceeds ==
  \A f \in Flows :
    /\ Sent(f) /\ call[f].op = "put" /\ call[f].range = "whole"
    /\ pc[f] = "done" /\ \A g \in Flows \ {f} : ~SamePut(f, g)
    => Acked(f)

(***************************************************************************)
(* Downloads and metadata.                                                 *)
(***************************************************************************)

(* A client of an intercepting instance is never served ciphertext.        *)
NeverServesCiphertext ==
  \A f \in Flows :
    /\ pc[f] = "done" /\ Intercepted(f)
    /\ call[f].op \in {"download", "xmlGet"} /\ ans[f].status = "ok"
    => ans[f].media.key = NoKey

(* A download over the XML API, GET /bucket/object, of an object a client  *)
(* has uploaded is served ("simpleDownload: ... or                         *)
(* path=/bucket-name/object-name").  For runs without failures.            *)
XmlDownloadServed ==
  \A f, g \in Flows :
    /\ Sent(f) /\ call[f].op = "xmlGet" /\ Intercepted(f)
    /\ pc[f] = "done" /\ g \in before[f] /\ Acked(g)
    /\ Intended(g) = <<call[f].bucket, call[f].name>>
    => ans[f].status = "ok"

Writers(obj) ==
  {g \in Flows : wrote[g] # NoWrite /\ wrote[g].obj = obj}

(* The content or, for metadata, the digest the answer shows.              *)
Shown(f) == IF call[f].op = "download" THEN ans[f].media.data
            ELSE ans[f].digest

(* A read sent after an acknowledged upload of the same object succeeds    *)
(* and shows the plaintext of some upload, never what was there before,    *)
(* although the upload may have been overwritten between the answer of the *)
(* service and the look-up of the key; unless it was under another key,    *)
(* when the instances were started with different ones.  For runs without  *)
(* failures in which nothing is deleted.                                   *)
OneKey(b) == \A f, g \in Flows : Sent(f) /\ Sent(g) => KeyOf(f, b) = KeyOf(g, b)

ReadYourWrites ==
  \A f, g \in Flows :
    /\ Sent(f) /\ call[f].op \in ReadOps /\ Intercepted(f)
    /\ OneKey(call[f].bucket) \/ call[f].op # "download"
    /\ pc[f] = "done" /\ g \in before[f] /\ Acked(g)
    /\ Intended(g) = <<call[f].bucket, call[f].name>>
    => /\ ans[f].status = "ok"
       /\ Shown(f) \in {call[h].data : h \in Writers(Intended(g))}

(***************************************************************************)
(* Progress.                                                               *)
(***************************************************************************)

(* Every exchange that starts ends, for its client, in an answer or in a   *)
(* broken connection.                                                      *)
EveryExchangeEnds ==
  \A f \in Flows : pc[f] = "request" ~> pc[f] \in {"done", "lost"}
=============================================================================
