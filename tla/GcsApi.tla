------------------------------- MODULE GcsApi -------------------------------
(***************************************************************************)
(* The part of the Cloud Storage JSON and XML APIs that go-gcsproxy reads  *)
(* and rewrites: the shape of requests and answers, the calls clients      *)
(* make, and what the storage service does with a request.  None of it is  *)
(* implemented in this repository; it is what the handlers rely on.        *)
(*                                                                         *)
(* A URL path is the sequence of its decoded segments, so the object name  *)
(* "a/o/b" is <<"a", "o", "b">>.  Payloads are abstract: a piece of media  *)
(* is a content together with the key it is sealed under (NoKey for        *)
(* plaintext), and a content stands for its own MD5 hash and length.       *)
(***************************************************************************)
EXTENDS Naturals, Sequences

CONSTANTS
  Segments,    (* what may stand between two slashes of a URL path        *)
  Buckets,     (* bucket names                                           *)
  Names,       (* object names, each a sequence of path segments         *)
  Contents,    (* plaintext payloads                                     *)
  Keys,        (* KMS keys                                               *)
  UploadIds,   (* resumable session ids the service may hand out         *)
  NoKey, NoContent, NoId, NoBucket,  (* "absent" values                  *)
  CipherDigest,(* the digest of any sealed payload                       *)
  Empty        (* the content of an empty object                         *)

ASSUME SegmentsAssumption ==
  {"", "b", "o", "v1", "storage", "upload", "download", "resumable"}
    \subseteq Segments
(* Bucket names have at least three characters; the other exclusions only  *)
(* keep an XML path /bucket/object from looking like an API root.          *)
ASSUME BucketsAssumption ==
  Buckets \subseteq Segments \
    {"", "b", "o", "v1", "storage", "upload", "download", "resumable"}
ASSUME NamesAssumption == Names \subseteq Seq(Segments) \ {<< >>}
ASSUME SentinelAssumption ==
  /\ NoKey \notin Keys
  /\ NoContent \notin Contents
  /\ CipherDigest \notin Contents \cup {NoContent}
  /\ NoId \notin UploadIds
  /\ NoBucket \notin Buckets
ASSUME EmptyAssumption == Empty \in Contents

NoName == << >>

(***************************************************************************)
(* Data.  Stamp is the custom metadata x-encryption-key and x-md5Hash the  *)
(* proxy attaches to an object (custom is FALSE when the object carries    *)
(* no custom metadata at all).                                             *)
(***************************************************************************)
Digests == Contents \cup {NoContent, CipherDigest}
Media   == [key : Keys \cup {NoKey}, data : Contents \cup {NoContent}]
Stamps  == [custom : BOOLEAN, key : Keys \cup {NoKey},
            digest : Contents \cup {NoContent}]
Metas   == [bucket : Segments \cup {NoBucket}, name : Seq(Segments),
            stamp : Stamps]
Bodies  == [form : {"none", "raw", "multipart", "file", "garbled",
                    "json", "nested"},
            meta : Metas, media : Media]
Queries == [uploadType : {"", "multipart", "media", "resumable"},
            alt : {"", "json", "media"}, fields : BOOLEAN,
            name : Seq(Segments), uploadId : UploadIds \cup {NoId},
            ifAbsent : BOOLEAN]
Paths   == Seq(Segments) \ {<< >>}
Ranges  == {"none", "whole", "part"}
Requests == [method : {"GET", "POST", "PUT", "DELETE"}, path : Paths,
             query : Queries, range : Ranges, body : Bodies,
             digest : Digests]
Answers == [status : {"ok", "refused", "failed"},
            form : {"resource", "packed", "media", "session", "error",
                    "text"},
            media : Media, stamp : Stamps, digest : Digests,
            uploadId : UploadIds \cup {NoId}]
Versions == [media : Media, stamp : Stamps]
Objects  == Buckets \X Names

NoMedia == [key |-> NoKey, data |-> NoContent]
NoStamp == [custom |-> FALSE, key |-> NoKey, digest |-> NoContent]
NoMeta  == [bucket |-> NoBucket, name |-> NoName, stamp |-> NoStamp]
NoBody  == [form |-> "none", meta |-> NoMeta, media |-> NoMedia]
NoQuery == [uploadType |-> "", alt |-> "", fields |-> FALSE,
            name |-> NoName, uploadId |-> NoId, ifAbsent |-> FALSE]
NoAnswer == [status |-> "failed", form |-> "text", media |-> NoMedia,
             stamp |-> NoStamp, digest |-> NoContent, uploadId |-> NoId]

Plain(c) == [key |-> NoKey, data |-> c]

(***************************************************************************)
(* The hash the service computes for a stored payload.                     *)
(***************************************************************************)
MediaDigest(m) == IF m.key = NoKey THEN m.data ELSE CipherDigest

(***************************************************************************)
(* Client calls and the request each one is on the wire.                   *)
(*   multipart, media    uploads in one request                            *)
(*   start, put          the two requests of a resumable upload            *)
(*   download, stat, fields, list   JSON API reads                         *)
(*   xmlGet, xmlPut      XML API, path /bucket/object                      *)
(*   delete              JSON API delete                                   *)
(* shape: where a "start" puts the object name (query, or a JSON body that *)
(* is flat or has nested fields), or what is odd about a multipart body:   *)
(* its media part has a file name, or it does not parse.  home: the bucket *)
(* a JSON body names.                                                      *)
(***************************************************************************)
Ops == {"multipart", "media", "start", "put", "download", "stat", "fields",
        "list", "xmlGet", "xmlPut", "delete"}
Calls == [op : Ops, bucket : Buckets, name : Names,
          data : Contents \cup {NoContent}, home : Buckets \cup {NoBucket},
          shape : {"none", "json", "nested", "file", "garbled"},
          id : UploadIds \cup {NoId},
          range : Ranges, ifAbsent : BOOLEAN]

UploadPath(b)    == <<"upload", "storage", "v1", "b", b, "o">>
ListPath(b)      == <<"storage", "v1", "b", b, "o">>
ObjectPath(b, n) == ListPath(b) \o n
XmlPath(b, n)    == <<b>> \o n

MethodOf(c) ==
  CASE c.op \in {"multipart", "media", "start"} -> "POST"
    [] c.op \in {"put", "xmlPut"}               -> "PUT"
    [] c.op = "delete"                          -> "DELETE"
    [] OTHER                                    -> "GET"

PathOf(c) ==
  CASE c.op \in {"multipart", "media", "start", "put"} -> UploadPath(c.bucket)
    [] c.op = "list"                  -> ListPath(c.bucket)
    [] c.op \in {"xmlGet", "xmlPut"}  -> XmlPath(c.bucket, c.name)
    [] OTHER                          -> ObjectPath(c.bucket, c.name)

QueryOf(c) ==
  [uploadType |-> CASE c.op = "multipart"         -> "multipart"
                    [] c.op = "media"             -> "media"
                    [] c.op \in {"start", "put"}  -> "resumable"
                    [] OTHER                      -> "",
   alt      |-> CASE c.op = "download" -> "media"
                  [] c.op = "stat"     -> "json"
                  [] OTHER             -> "",
   fields   |-> c.op = "fields",
   name     |-> IF c.op = "media" \/ (c.op = "start" /\ c.shape = "none")
                THEN c.name ELSE NoName,
   uploadId |-> c.id,
   ifAbsent |-> c.ifAbsent]

MetaOf(c) == [bucket |-> c.home, name |-> c.name, stamp |-> NoStamp]

BodyOf(c) ==
  CASE c.op = "multipart" ->
         [form |-> IF c.shape = "none" THEN "multipart" ELSE c.shape,
          meta |-> MetaOf(c), media |-> Plain(c.data)]
    [] c.op \in {"media", "put", "xmlPut"} ->
         [form |-> "raw", meta |-> NoMeta, media |-> Plain(c.data)]
    [] c.op = "start" /\ c.shape # "none" ->
         [form |-> c.shape, meta |-> MetaOf(c), media |-> NoMedia]
    [] OTHER -> NoBody

RequestOf(c) ==
  [method |-> MethodOf(c), path |-> PathOf(c), query |-> QueryOf(c),
   range |-> c.range, body |-> BodyOf(c), digest |-> NoContent]

(***************************************************************************)
(* What the service makes of a request.                                    *)
(***************************************************************************)
IsUpload(r) == r.path \in {UploadPath(b) : b \in Buckets}
IsList(r)   == r.path \in {ListPath(b) : b \in Buckets}

(* The bucket in the URL; the service never takes it from anywhere else.   *)
UrlBucket(r) ==
  IF IsUpload(r) THEN r.path[5]
  ELSE IF Len(r.path) > 4 /\ r.path[1] = "storage" THEN r.path[4]
  ELSE r.path[1]

UrlName(r) ==
  IF r.path[1] = "storage" THEN SubSeq(r.path, 6, Len(r.path))
  ELSE SubSeq(r.path, 2, Len(r.path))

(* A JSON body may repeat the bucket, but not name another one.            *)
UploadName(r) == IF r.body.meta.name # NoName THEN r.body.meta.name
                 ELSE r.query.name
HomeAgrees(r) == r.body.meta.bucket \in {NoBucket, UrlBucket(r)}

OpensSession(r) ==
  /\ IsUpload(r) /\ r.method = "POST" /\ r.query.uploadType = "resumable"
  /\ r.body.form \in {"none", "json", "nested"}
  /\ HomeAgrees(r) /\ UploadName(r) \in Names

(* The object an upload in one request is stored under, if acceptable.     *)
StoresMultipart(r) ==
  /\ IsUpload(r) /\ r.method = "POST" /\ r.query.uploadType = "multipart"
  /\ r.body.form \in {"multipart", "file"}
  /\ HomeAgrees(r) /\ UploadName(r) \in Names
StoresMedia(r) ==
  /\ IsUpload(r) /\ r.method = "POST" /\ r.query.uploadType = "media"
  /\ r.body.form = "raw" /\ UploadName(r) \in Names
(* A PUT with neither Content-Range nor body completes its session with an *)
(* empty object.                                                           *)
CompletesSession(r) ==
  /\ IsUpload(r) /\ r.method = "PUT" /\ r.query.uploadId # NoId
  /\ \/ r.body.form = "raw" /\ r.range # "part"
     \/ r.body.form = "none" /\ r.range = "none"
StoresXml(r) ==
  /\ ~IsUpload(r) /\ r.method = "PUT" /\ r.body.form = "raw"

(* An object written from r: the payload, empty if r has no body, and the  *)
(* metadata r carries.                                                     *)
VersionOf(r) == [media |-> IF r.body = NoBody THEN Plain(Empty)
                           ELSE r.body.media,
                 stamp |-> r.body.meta.stamp]
=============================================================================
