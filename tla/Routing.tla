------------------------------- MODULE Routing ------------------------------
(***************************************************************************)
(* How a proxy instance decides what to do with a request: the bucket and  *)
(* object it reads out of the URL path (util/helpers.go), the KMS key its  *)
(* mapping gives the bucket, and InterceptGcsMethod (proxy/gcs-proxy.go),  *)
(* which is evaluated twice per flow: on the client's request, and on the  *)
(* request as the handlers left it when the answer comes back.             *)
(*                                                                         *)
(* A key mapping is a function from bucket names, and perhaps "*", to      *)
(* keys; Go's nil map is the function with an empty domain.                *)
(***************************************************************************)
EXTENDS GcsApi, SequencesExt

IsMapping(m) == \A b \in DOMAIN m : m[b] \in Keys

(* A bug MappingObeyed catches: the bucket's own entry wins.               *)
BucketKeyFirst(m, bucket) ==
  IF bucket \in DOMAIN m THEN m[bucket]
  ELSE IF "*" \in DOMAIN m THEN m["*"]
  ELSE NoKey

(* The global entry "*" wins over the bucket's own.                        *)
GetKMSKeyName(m, bucket) ==
  IF "*" \in DOMAIN m THEN m["*"]
  ELSE IF bucket \in DOMAIN m THEN m[bucket]
  ELSE NoKey

(***************************************************************************)
(* strings.Contains(path, "/seg/") and strings.Split(path, "/seg/"): the   *)
(* positions at which seg stands between two slashes, at or after "from".  *)
(***************************************************************************)
Marks(path, seg, from) == {i \in from .. Len(path) - 1 : path[i] = seg}

GetBucketNameFromRequestUri(path) ==
  LET marks == Marks(path, "b", 1)
  IN  IF marks = {} THEN path[1] ELSE path[Min(marks) + 1]

(* A bug ReadYourWrites catches: only the first segment of the name.       *)
FirstSegmentOfObject(path) ==
  LET marks == Marks(path, "o", 1)
  IN  IF marks = {} THEN NoName ELSE <<path[Min(marks) + 1]>>

(* Split(path, "/o/")[1] stops at the next "/o/", if there is one.         *)
GetObjectNameFromRequestUri(path) ==
  LET marks == Marks(path, "o", 1)
      first == Min(marks)
      next  == Marks(path, "o", first + 2)
  IN  IF marks = {} THEN NoName
      ELSE SubSeq(path, first + 1,
                  IF next = {} THEN Len(path) ELSE Min(next) - 1)

(* strings.HasPrefix at whole segments: no segment of the model starts    *)
(* with "download" or "v1" and goes on, as a bucket "downloads" would.    *)
HasPrefix(path, prefix) == IsPrefix(prefix, path)
(* A bug NeverServesCiphertext catches: Contains instead of HasSuffix.     *)
ContainsO(path) == "o" \in Range(path)

HasSuffixO(path) == path[Len(path)] = "o"

IsUploadPath(path) == HasPrefix(path, <<"upload", "storage", "v1">>)
IsResumablePath(r) ==
  \/ HasPrefix(r.path, <<"resumable", "upload", "storage", "v1">>)
  \/ IsUploadPath(r.path) /\ r.query.uploadType = "resumable"
IsMetadataPath(path) ==
  HasPrefix(path, <<"storage", "v1", "b">>) /\ Len(path) > 3

(***************************************************************************)
(* The chain of tests in InterceptGcsMethod, in its order, for a request   *)
(* to one of the two GCS hosts.                                            *)
(***************************************************************************)
InterceptGcsMethod(m, r) ==
  LET q == r.query
      mapped == GetKMSKeyName(m, GetBucketNameFromRequestUri(r.path)) # NoKey
      uploadPost == IsUploadPath(r.path) /\ r.method = "POST"
      get  == r.method = "GET"
      meta == get /\ IsMetadataPath(r.path)
  IN  IF ~mapped THEN "passThru"
      ELSE IF uploadPost /\ q.uploadType = "multipart" THEN "multiPartUpload"
      ELSE IF uploadPost /\ q.uploadType = "media" THEN "singlePartUpload"
      ELSE IF IsResumablePath(r) /\ r.method = "POST"
        THEN "resumableUploadPost"
      ELSE IF IsResumablePath(r) /\ r.method = "PUT" THEN "resumableUploadPut"
      ELSE IF meta /\ HasSuffixO(r.path) THEN "passThru"
      ELSE IF meta /\ q.alt = "json" THEN "metadataRequest"
      ELSE IF meta /\ q.alt = "media" THEN "simpleDownload"
      ELSE IF meta /\ q.fields THEN "metadataRequest"
      ELSE IF HasPrefix(r.path, <<"download">>) THEN "simpleDownload"
      ELSE IF get /\ (q.alt = "" \/ ~q.fields) THEN "simpleDownload"
      ELSE "passThru"

(* Line 90 of gcs-proxy.go: a partial response (fields=...) that names no  *)
(* alt is asked for as alt=json, and nothing else of the query survives.   *)
WithRewrittenQuery(r) ==
  IF r.query.alt = "" /\ r.query.fields
  THEN [r EXCEPT !.query = [NoQuery EXCEPT !.alt = "json"]]
  ELSE r
=============================================================================
