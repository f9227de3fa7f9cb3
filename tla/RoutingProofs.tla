---------------------------- MODULE RoutingProofs ---------------------------
(***************************************************************************)
(* What the tests of Routing find in the paths clients send: the bucket    *)
(* the proxy reads out of them, and which of the roots they start with.    *)
(***************************************************************************)
EXTENDS Routing, WellFoundedInduction, SequenceTheorems, TLAPS

(***************************************************************************)
(* A non-empty set of naturals has a least element, the one Min chooses.   *)
(***************************************************************************)
LEMMA MinExists ==
  ASSUME NEW S, S \subseteq Nat, S # {}
  PROVE  Min(S) \in S /\ \A y \in S : Min(S) <= y
<1> DEFINE R == OpToRel(<, Nat)
<1>1. IsWellFoundedOn(R, Nat)
  BY NatLessThanWellFounded
<1>2. \E x \in S : \A y \in S : ~(<<y, x>> \in R)
  <2> HIDE DEF R
  <2> QED
    BY <1>1, WFMin
<1>3. \A x, y \in Nat : ~(<<y, x>> \in R) => x <= y
  BY DEF OpToRel
<1>4. \E x \in S : \A y \in S : x <= y
  BY <1>2, <1>3
<1> QED
  BY <1>4 DEF Min

(***************************************************************************)
(* The bucket the proxy reads out of an upload path is the one in the URL, *)
(* because no segment before it is "b".                                    *)
(***************************************************************************)
LEMMA UploadBucket ==
  ASSUME NEW b \in Segments
  PROVE  GetBucketNameFromRequestUri(UploadPath(b)) = b
<1> DEFINE p == UploadPath(b)
           marks == Marks(p, "b", 1)
<1>1. /\ Len(p) = 6
      /\ p[1] = "upload" /\ p[2] = "storage" /\ p[3] = "v1" /\ p[4] = "b"
      /\ p[5] = b
  BY DEF UploadPath
<1>2. 4 \in marks
  BY <1>1 DEF Marks
<1>3. \A i \in marks : 4 <= i
  BY <1>1 DEF Marks
<1>4. marks \subseteq Int
  BY <1>1 DEF Marks
<1>5. Min(marks) = 4
  BY <1>2, <1>3, <1>4 DEF Min
<1> QED
  BY <1>1, <1>2, <1>5 DEF GetBucketNameFromRequestUri

(* Any path has some bucket.                                               *)
LEMMA BucketIsSegment ==
  ASSUME NEW p \in Paths
  PROVE  GetBucketNameFromRequestUri(p) \in Segments
<1> DEFINE marks == Marks(p, "b", 1)
<1>1. p \in Seq(Segments) /\ Len(p) \in Nat /\ Len(p) >= 1
  BY DEF Paths
<1>2. CASE marks = {}
  BY <1>1, <1>2 DEF GetBucketNameFromRequestUri
<1>3. CASE marks # {}
  <2>1. marks \subseteq 1 .. Len(p) - 1
    BY <1>1 DEF Marks
  <2>2. Min(marks) \in marks
    BY <1>1, <1>3, <2>1, MinExists
  <2>3. Min(marks) + 1 \in 1 .. Len(p)
    BY <1>1, <2>1, <2>2
  <2> QED
    BY <1>1, <1>3, <2>3 DEF GetBucketNameFromRequestUri
<1> QED
  BY <1>2, <1>3

LEMMA RootsArePaths ==
  ASSUME NEW b \in Segments
  PROVE  UploadPath(b) \in Paths /\ ListPath(b) \in Paths
<1>1. /\ "upload" \in Segments /\ "storage" \in Segments /\ "v1" \in Segments
      /\ "b" \in Segments /\ "o" \in Segments
  BY SegmentsAssumption
<1>2. UploadPath(b) \in Seq(Segments) /\ ListPath(b) \in Seq(Segments)
  BY <1>1 DEF UploadPath, ListPath
<1>3. UploadPath(b) # << >> /\ ListPath(b) # << >>
  BY DEF UploadPath, ListPath
<1> QED
  BY <1>2, <1>3 DEF Paths

LEMMA PathIsPath ==
  ASSUME NEW c \in Calls
  PROVE  PathOf(c) \in Paths
<1>1. c.bucket \in Segments /\ c.name \in Seq(Segments)
  BY BucketsAssumption, NamesAssumption DEF Calls
<1>2. ASSUME NEW b \in Segments
      PROVE  UploadPath(b) \in Paths /\ ListPath(b) \in Paths
  BY RootsArePaths
<1>3. ASSUME NEW b \in Segments, NEW n \in Seq(Segments)
      PROVE  ObjectPath(b, n) \in Paths /\ XmlPath(b, n) \in Paths
  <2>1. /\ ObjectPath(b, n) \in Seq(Segments)
        /\ Len(ObjectPath(b, n)) = Len(ListPath(b)) + Len(n)
    BY <1>2 DEF ObjectPath, Paths
  <2>2. Len(ListPath(b)) = 5
    BY DEF ListPath
  <2>3. <<b>> \in Seq(Segments) /\ Len(<<b>>) = 1
    OBVIOUS
  <2>4. /\ XmlPath(b, n) \in Seq(Segments)
        /\ Len(XmlPath(b, n)) = 1 + Len(n)
    BY <2>3 DEF XmlPath
  <2>5. Len(n) \in Nat
    OBVIOUS
  <2> QED
    BY <2>1, <2>2, <2>4, <2>5 DEF Paths
<1> QED
  BY <1>1, <1>2, <1>3 DEF PathOf

(***************************************************************************)
(* strings.HasPrefix at whole segments compares segment by segment.        *)
(***************************************************************************)
LEMMA PrefixByIndex ==
  ASSUME NEW S, NEW s \in Seq(S), NEW t \in Seq(S)
  PROVE  IsPrefix(s, t) <=> /\ Len(s) <= Len(t)
                            /\ \A i \in 1 .. Len(s) : s[i] = t[i]
<1> SUFFICES ASSUME Len(s) <= Len(t)
             PROVE  SubSeq(s, 1, Len(s)) = SubSeq(t, 1, Len(s))
                      <=> \A i \in 1 .. Len(s) : s[i] = t[i]
  BY DEF IsPrefix
<1> DEFINE n == Len(s)
           u == SubSeq(t, 1, n)
<1>1. n \in Nat /\ \A i \in 1 .. n : t[i] \in S
  OBVIOUS
<1>2. /\ u \in Seq(S)
      /\ Len(u) = IF 1 <= n THEN n - 1 + 1 ELSE 0
      /\ \A i \in 1 .. n - 1 + 1 : u[i] = t[1 + i - 1]
  <2> HIDE DEF n
  <2> QED
    BY <1>1, SubSeqProperties
<1>3. Len(u) = n /\ \A i \in 1 .. n : u[i] = t[i]
  BY <1>1, <1>2
<1>4. SubSeq(s, 1, n) = s
  BY SubSeqFull
<1>5. (\A i \in 1 .. n : s[i] = t[i]) => s = u
  <2> HIDE DEF u
  <2> QED
    BY <1>2, <1>3, SeqEqual
<1> QED
  BY <1>3, <1>4, <1>5

LEMMA PathPrefix ==
  ASSUME NEW s \in Seq(Segments), NEW t \in Seq(Segments)
  PROVE  IsPrefix(s, t) <=> /\ Len(s) <= Len(t)
                            /\ \A i \in 1 .. Len(s) : s[i] = t[i]
BY PrefixByIndex, ZenonT(40)

LEMMA UploadPathTests ==
  ASSUME NEW b \in Segments
  PROVE  /\ IsUploadPath(UploadPath(b))
         /\ ~HasPrefix(UploadPath(b), <<"resumable", "upload", "storage", "v1">>)
<1> DEFINE p      == UploadPath(b)
           root   == <<"upload", "storage", "v1">>
           resume == <<"resumable", "upload", "storage", "v1">>
<1>1. /\ p \in Seq(Segments) /\ Len(p) = 6
      /\ p[1] = "upload" /\ p[2] = "storage" /\ p[3] = "v1"
  BY RootsArePaths DEF UploadPath, Paths
<1>2. /\ "upload" \in Segments /\ "storage" \in Segments
      /\ "v1" \in Segments /\ "resumable" \in Segments
  BY SegmentsAssumption
<1>3. /\ root \in Seq(Segments) /\ Len(root) = 3
      /\ root[1] = "upload" /\ root[2] = "storage" /\ root[3] = "v1"
  BY <1>2
<1>4. /\ resume \in Seq(Segments) /\ Len(resume) = 4
      /\ resume[1] = "resumable"
  BY <1>2
<1> HIDE DEF p, root, resume
<1>5. IsPrefix(root, p)
  BY <1>1, <1>3, PrefixByIndex
<1>6. ~IsPrefix(resume, p)
  BY <1>1, <1>4, PrefixByIndex
<1> QED
  BY <1>5, <1>6 DEF IsUploadPath, HasPrefix, p, root, resume

(* A path that starts with neither root is no upload.                      *)
LEMMA RootsDiffer ==
  ASSUME NEW p \in Seq(Segments)
  PROVE  /\ HasPrefix(p, <<"upload", "storage", "v1">>) => p[1] = "upload"
         /\ HasPrefix(p, <<"resumable", "upload", "storage", "v1">>)
              => p[1] = "resumable"
<1> DEFINE root   == <<"upload", "storage", "v1">>
           resume == <<"resumable", "upload", "storage", "v1">>
<1>1. /\ "upload" \in Segments /\ "storage" \in Segments
      /\ "v1" \in Segments /\ "resumable" \in Segments
  BY SegmentsAssumption
<1>2. /\ root \in Seq(Segments) /\ Len(root) = 3 /\ root[1] = "upload"
      /\ resume \in Seq(Segments) /\ Len(resume) = 4
      /\ resume[1] = "resumable"
  BY <1>1
<1> HIDE DEF root, resume
<1>3. IsPrefix(root, p) => p[1] = "upload"
  <2>1. 1 \in 1 .. Len(root)
    BY <1>2
  <2>2. root \in Seq(Segments)
    BY <1>2
  <2>3. IsPrefix(root, p) => \A i \in 1 .. Len(root) : root[i] = p[i]
    BY <2>2, PathPrefix
  <2> QED
    BY <1>2, <2>1, <2>3
<1>4. IsPrefix(resume, p) => p[1] = "resumable"
  BY <1>2, PrefixByIndex
<1> QED
  BY <1>3, <1>4 DEF HasPrefix, root, resume

(* An upload to a bucket is intercepted if and only if the mapping has a   *)
(* key for the bucket.                                                     *)
LEMMA UploadIntercepted ==
  ASSUME NEW m, NEW b \in Buckets, NEW r, r.path = UploadPath(b),
         r.method = "POST",
         r.query.uploadType \in {"multipart", "media", "resumable"}
  PROVE  InterceptGcsMethod(m, r) = "passThru" <=> GetKMSKeyName(m, b) = NoKey
<1>1. b \in Segments
  BY BucketsAssumption
<1>2. IsUploadPath(r.path) /\ GetBucketNameFromRequestUri(r.path) = b
  BY <1>1, UploadPathTests, UploadBucket
<1>3. r.query.uploadType = "resumable" => IsResumablePath(r)
  BY <1>2 DEF IsResumablePath
<1> QED
  BY <1>2, <1>3 DEF InterceptGcsMethod

(***************************************************************************)
(* The paths clients use, as the service reads them.                       *)
(***************************************************************************)
LEMMA ObjectPathParts ==
  ASSUME NEW b \in Segments, NEW n \in Seq(Segments)
  PROVE  LET p == ObjectPath(b, n)
         IN  /\ p \in Seq(Segments) /\ Len(p) = 5 + Len(n)
             /\ p[1] = "storage" /\ p[2] = "v1" /\ p[3] = "b" /\ p[4] = b
             /\ p[5] = "o"
             /\ \A i \in 1 .. Len(n) : p[5 + i] = n[i]
             /\ SubSeq(p, 6, Len(p)) = n
<1> DEFINE l == ListPath(b)
           p == ObjectPath(b, n)
<1>1. /\ l \in Seq(Segments) /\ Len(l) = 5
      /\ l[1] = "storage" /\ l[2] = "v1" /\ l[3] = "b" /\ l[4] = b /\ l[5] = "o"
  BY RootsArePaths DEF ListPath, Paths
<1>2. p = l \o n
  BY DEF ObjectPath
<1> HIDE DEF l, p
<1>3. /\ p \in Seq(Segments) /\ Len(p) = 5 + Len(n)
      /\ \A i \in 1 .. 5 : p[i] = l[i]
      /\ \A i \in 1 .. Len(n) : p[5 + i] = n[i]
  <2>1. Len(n) \in Nat
    OBVIOUS
  <2>2. /\ p \in Seq(Segments) /\ Len(p) = Len(l) + Len(n)
        /\ \A i \in 1 .. Len(l) + Len(n) :
             p[i] = IF i <= Len(l) THEN l[i] ELSE n[i - Len(l)]
    BY <1>1, <1>2, ConcatProperties
  <2> QED
    BY <1>1, <2>1, <2>2
<1>4. SubSeq(p, 6, Len(p)) = n
  <2> DEFINE u == SubSeq(p, 6, Len(p))
  <2>1. Len(n) \in Nat
    OBVIOUS
  <2>2. \A i \in 6 .. Len(p) : p[i] \in Segments
    BY <1>3
  <2>3. /\ u \in Seq(Segments)
        /\ Len(u) = IF 6 <= Len(p) THEN Len(p) - 6 + 1 ELSE 0
        /\ \A i \in 1 .. Len(p) - 6 + 1 : u[i] = p[6 + i - 1]
    BY <1>3, <2>1, <2>2, SubSeqProperties
  <2>4. Len(u) = Len(n) /\ \A i \in 1 .. Len(n) : u[i] = n[i]
    BY <1>3, <2>1, <2>3
  <2> HIDE DEF u
  <2> QED
    BY <2>3, <2>4, SeqEqual DEF u
<1> QED
  BY <1>1, <1>3, <1>4 DEF p

LEMMA ObjectUrl ==
  ASSUME NEW b \in Segments, NEW n \in Seq(Segments)
  PROVE  /\ ObjectPath(b, n)[1] = "storage" /\ ObjectPath(b, n)[4] = b
         /\ Len(ObjectPath(b, n)) = 5 + Len(n)
         /\ SubSeq(ObjectPath(b, n), 6, Len(ObjectPath(b, n))) = n
<1> DEFINE p == ObjectPath(b, n)
<1> HIDE DEF p
<1>1. p[1] = "storage" /\ p[4] = b
  BY ObjectPathParts DEF p
<1>2. Len(p) = 5 + Len(n)
  BY ObjectPathParts DEF p
<1>3. SubSeq(p, 6, Len(p)) = n
  BY ObjectPathParts DEF p
<1> QED
  BY <1>1, <1>2, <1>3 DEF p

LEMMA XmlPathParts ==
  ASSUME NEW b \in Segments, NEW n \in Seq(Segments)
  PROVE  LET p == XmlPath(b, n)
         IN  /\ p \in Seq(Segments) /\ Len(p) = 1 + Len(n) /\ p[1] = b
             /\ \A i \in 1 .. Len(n) : p[1 + i] = n[i]
             /\ SubSeq(p, 2, Len(p)) = n
<1> DEFINE p == XmlPath(b, n)
<1>1. p = <<b>> \o n
  BY DEF XmlPath
<1> HIDE DEF p
<1>2. /\ p \in Seq(Segments) /\ Len(p) = 1 + Len(n) /\ p[1] = b
      /\ \A i \in 1 .. Len(n) : p[1 + i] = n[i]
  BY <1>1
<1>3. SubSeq(p, 2, Len(p)) = n
  <2> DEFINE u == SubSeq(p, 2, Len(p))
  <2>1. Len(n) \in Nat
    OBVIOUS
  <2>2. \A i \in 2 .. Len(p) : p[i] \in Segments
    BY <1>2
  <2>3. /\ u \in Seq(Segments)
        /\ Len(u) = IF 2 <= Len(p) THEN Len(p) - 2 + 1 ELSE 0
        /\ \A i \in 1 .. Len(p) - 2 + 1 : u[i] = p[2 + i - 1]
    BY <1>2, <2>1, <2>2, SubSeqProperties
  <2>4. Len(u) = Len(n) /\ \A i \in 1 .. Len(n) : u[i] = n[i]
    BY <1>2, <2>1, <2>3
  <2> HIDE DEF u
  <2> QED
    BY <2>3, <2>4, SeqEqual DEF u
<1> QED
  BY <1>2, <1>3 DEF p

(***************************************************************************)
(* The requests clients send.                                              *)
(***************************************************************************)
UploadPathOps == {"multipart", "media", "start", "put"}
Roots == {"", "b", "o", "v1", "storage", "upload", "download", "resumable"}

LEMMA CallParts ==
  ASSUME NEW c \in Calls
  PROVE  /\ c.op \in Ops /\ c.bucket \in Buckets /\ c.bucket \in Segments \ Roots
         /\ c.name \in Names /\ c.name \in Seq(Segments) /\ c.name # NoName
         /\ c.data \in Contents \cup {NoContent}
         /\ c.home \in Buckets \cup {NoBucket}
         /\ c.shape \in {"none", "json", "nested", "file", "garbled"}
         /\ c.id \in UploadIds \cup {NoId} /\ c.range \in Ranges
         /\ c.ifAbsent \in BOOLEAN
BY BucketsAssumption, NamesAssumption DEF Calls, Roots, NoName

LEMMA UploadUrl ==
  ASSUME NEW r, NEW b \in Segments, r.path = UploadPath(b)
  PROVE  /\ IsUpload(r) <=> b \in Buckets
         /\ IsUpload(r) => UrlBucket(r) = b
<1>1. UploadPath(b)[5] = b /\ \A x \in Buckets : UploadPath(x)[5] = x
  BY DEF UploadPath
<1>2. IsUpload(r) <=> b \in Buckets
  BY <1>1 DEF IsUpload
<1> QED
  BY <1>1, <1>2 DEF UrlBucket

(* Which root a path starts with tells uploads from the rest.              *)
LEMMA PathRoot ==
  ASSUME NEW c \in Calls
  PROVE  /\ PathOf(c) \in Seq(Segments) /\ Len(PathOf(c)) >= 1
         /\ PathOf(c)[1] = IF c.op \in UploadPathOps THEN "upload"
                           ELSE IF c.op \in {"xmlGet", "xmlPut"} THEN c.bucket
                           ELSE "storage"
<1>1. /\ c.bucket \in Segments /\ c.name \in Seq(Segments) /\ c.op \in Ops
  BY CallParts
<1>2. PathOf(c) \in Seq(Segments) /\ Len(PathOf(c)) >= 1
  BY PathIsPath DEF Paths
<1>3. /\ UploadPath(c.bucket)[1] = "upload" /\ ListPath(c.bucket)[1] = "storage"
  BY DEF UploadPath, ListPath
<1>4. ObjectPath(c.bucket, c.name)[1] = "storage"
  BY <1>1, ObjectPathParts
<1>6. XmlPath(c.bucket, c.name)[1] = c.bucket
  BY <1>1, XmlPathParts
<1>5. PathOf(c)[1] = IF c.op \in UploadPathOps THEN "upload"
                     ELSE IF c.op \in {"xmlGet", "xmlPut"} THEN c.bucket
                     ELSE "storage"
  BY <1>1, <1>3, <1>4, <1>6 DEF PathOf, UploadPathOps, Ops
<1> QED
  BY <1>2, <1>5

LEMMA CallRoots ==
  ASSUME NEW c \in Calls
  PROVE  LET p == PathOf(c)
         IN  /\ IsUploadPath(p) <=> c.op \in UploadPathOps
             /\ IsUpload(RequestOf(c)) <=> c.op \in UploadPathOps
             /\ ~HasPrefix(p, <<"resumable", "upload", "storage", "v1">>)
             /\ ~HasPrefix(p, <<"download">>)
<1> DEFINE p == PathOf(c)
<1>1. /\ p \in Seq(Segments) /\ Len(p) >= 1
      /\ p[1] \notin {"download", "resumable"}
      /\ c.op \notin UploadPathOps => p[1] # "upload"
  BY PathRoot, CallParts DEF Roots
<1>2. c.op \in UploadPathOps => p = UploadPath(c.bucket)
  BY DEF PathOf, UploadPathOps
<1>3. \A b \in Buckets : UploadPath(b)[1] = "upload"
  BY DEF UploadPath
<1>4. RequestOf(c).path = p
  BY DEF RequestOf
<1> HIDE DEF p
<1>5. IsUploadPath(p) <=> c.op \in UploadPathOps
  BY <1>1, <1>2, RootsDiffer, UploadPathTests, CallParts DEF IsUploadPath
<1>6. IsUpload(RequestOf(c)) <=> c.op \in UploadPathOps
  BY <1>1, <1>2, <1>3, <1>4, CallParts DEF IsUpload
<1>7. ~HasPrefix(p, <<"resumable", "upload", "storage", "v1">>)
  BY <1>1, RootsDiffer
<1>8. ~HasPrefix(p, <<"download">>)
  <2> DEFINE d == <<"download">>
  <2>3. "download" \in Segments
    BY SegmentsAssumption
  <2>1. d \in Seq(Segments) /\ Len(d) = 1 /\ d[1] = "download"
    BY <2>3
  <2> HIDE DEF d
  <2>4. d \in Seq(Segments)
    BY <2>1
  <2>5. p \in Seq(Segments)
    BY <1>1
  <2>6. IsPrefix(d, p) => \A j \in 1 .. Len(d) : d[j] = p[j]
    BY <2>4, <2>5, PathPrefix
  <2>2. ~IsPrefix(d, p)
    BY <1>1, <2>1, <2>6
  <2> QED
    BY <2>2 DEF HasPrefix, d
<1> QED
  BY <1>5, <1>6, <1>7, <1>8 DEF p

(***************************************************************************)
(* What an instance with mapping m makes of a call.                        *)
(***************************************************************************)
LEMMA CallRoute ==
  ASSUME NEW m, NEW c \in Calls
  PROVE  LET i      == InterceptGcsMethod(m, RequestOf(c))
             mapped == GetKMSKeyName(m, c.bucket) # NoKey
         IN  /\ i = "multiPartUpload" <=> c.op = "multipart" /\ mapped
             /\ i = "singlePartUpload" <=> c.op = "media" /\ mapped
             /\ i = "resumableUploadPost" <=> c.op = "start" /\ mapped
             /\ i = "resumableUploadPut" <=> c.op = "put" /\ mapped
             /\ c.op \in UploadPathOps /\ ~mapped => i = "passThru"
             /\ c.op = "xmlPut" => i = "passThru"
             /\ i = "metadataRequest" => MethodOf(c) = "GET"
             /\ i = "simpleDownload" => MethodOf(c) = "GET"
<1> DEFINE r == RequestOf(c)
           i == InterceptGcsMethod(m, r)
           mapped == GetKMSKeyName(m, c.bucket) # NoKey
<1>1. r.method = MethodOf(c) /\ r.path = PathOf(c) /\ r.query = QueryOf(c)
  BY DEF RequestOf
<1>2. /\ IsUploadPath(r.path) <=> c.op \in UploadPathOps
      /\ ~HasPrefix(r.path, <<"resumable", "upload", "storage", "v1">>)
      /\ ~HasPrefix(r.path, <<"download">>)
  BY <1>1, CallRoots
<1>3. /\ c.op \in Ops
      /\ r.query.uploadType = IF c.op \in {"start", "put"} THEN "resumable"
                               ELSE IF c.op \in {"multipart", "media"} THEN c.op
                               ELSE ""
  <2>1. QueryOf(c).uploadType =
          IF c.op \in {"start", "put"} THEN "resumable"
          ELSE IF c.op \in {"multipart", "media"} THEN c.op ELSE ""
    BY DEF QueryOf
  <2>2. r.query = QueryOf(c)
    BY <1>1
  <2> HIDE DEF r
  <2> QED
    BY <2>1, <2>2, CallParts
<1>4. r.method = CASE c.op \in {"multipart", "media", "start"} -> "POST"
                   [] c.op \in {"put", "xmlPut"}               -> "PUT"
                   [] c.op = "delete"                          -> "DELETE"
                   [] OTHER                                    -> "GET"
  BY <1>1 DEF MethodOf
<1>5. c.op \in UploadPathOps => GetBucketNameFromRequestUri(r.path) = c.bucket
  BY <1>1, UploadBucket, CallParts DEF PathOf, UploadPathOps
<1>6. IsResumablePath(r) <=> c.op \in {"start", "put"}
  BY <1>2, <1>3 DEF IsResumablePath, UploadPathOps
<1> HIDE DEF r
<1>7. ASSUME c.op \in UploadPathOps
      PROVE  i = IF ~mapped THEN "passThru"
                 ELSE CASE c.op = "multipart" -> "multiPartUpload"
                        [] c.op = "media"     -> "singlePartUpload"
                        [] c.op = "start"     -> "resumableUploadPost"
                        [] c.op = "put"       -> "resumableUploadPut"
  <2>1. IsUploadPath(r.path) /\ GetBucketNameFromRequestUri(r.path) = c.bucket
    BY <1>2, <1>5, <1>7
  <2>2. CASE c.op = "multipart"
    <3>1. r.query.uploadType = "multipart" /\ r.method = "POST"
      BY <1>3, <1>4, <2>2
    <3> QED
      BY <2>1, <2>2, <3>1 DEF InterceptGcsMethod
  <2>3. CASE c.op = "media"
    <3>1. r.query.uploadType = "media" /\ r.method = "POST"
      BY <1>3, <1>4, <2>3
    <3> QED
      BY <2>1, <2>3, <3>1 DEF InterceptGcsMethod
  <2>4. CASE c.op = "start"
    <3>1. /\ r.query.uploadType = "resumable" /\ r.method = "POST"
          /\ IsResumablePath(r)
      BY <1>3, <1>4, <1>6, <2>4
    <3> QED
      BY <2>1, <2>4, <3>1 DEF InterceptGcsMethod
  <2>5. CASE c.op = "put"
    <3>1. r.method = "PUT" /\ IsResumablePath(r)
      BY <1>4, <1>6, <2>5
    <3> QED
      BY <2>1, <2>5, <3>1 DEF InterceptGcsMethod
  <2> QED
    BY <1>7, <2>2, <2>3, <2>4, <2>5 DEF UploadPathOps
<1>8. ASSUME c.op \notin UploadPathOps
      PROVE  /\ i \in {"passThru", "metadataRequest", "simpleDownload"}
             /\ i # "passThru" => r.method = "GET"
  <2>1. /\ ~IsUploadPath(r.path) /\ ~IsResumablePath(r)
        /\ ~HasPrefix(r.path, <<"download">>)
    BY <1>2, <1>6, <1>8 DEF UploadPathOps
  <2> QED
    BY <2>1 DEF InterceptGcsMethod
<1>9. c.op \in UploadPathOps \cup {"xmlPut"} => r.method # "GET"
  BY <1>4 DEF UploadPathOps
<1> HIDE DEF i, mapped
<1>10. /\ i = "multiPartUpload" <=> c.op = "multipart" /\ mapped
       /\ i = "singlePartUpload" <=> c.op = "media" /\ mapped
       /\ i = "resumableUploadPost" <=> c.op = "start" /\ mapped
       /\ i = "resumableUploadPut" <=> c.op = "put" /\ mapped
  <2>1. CASE c.op \in UploadPathOps
    BY <1>7, <2>1 DEF UploadPathOps
  <2>2. CASE c.op \notin UploadPathOps
    BY <1>8, <2>2 DEF UploadPathOps
  <2> QED
    BY <2>1, <2>2
<1>11. /\ c.op \in UploadPathOps /\ ~mapped => i = "passThru"
       /\ c.op = "xmlPut" => i = "passThru"
       /\ i = "metadataRequest" => r.method = "GET"
       /\ i = "simpleDownload" => r.method = "GET"
  <2>1. CASE c.op \in UploadPathOps
    BY <1>7, <2>1 DEF UploadPathOps
  <2>2. CASE c.op \notin UploadPathOps
    BY <1>8, <1>9, <2>2 DEF UploadPathOps
  <2> QED
    BY <2>1, <2>2
<1> QED
  BY <1>1, <1>10, <1>11 DEF i, mapped, r

(***************************************************************************)
(* Reads.  The bucket the proxy finds in their URL is the service's, unless *)
(* an XML path has a segment "b" in the object's name.                     *)
(***************************************************************************)
LEMMA ObjectBucket ==
  ASSUME NEW b \in Segments, NEW n \in Seq(Segments)
  PROVE  GetBucketNameFromRequestUri(ObjectPath(b, n)) = b
<1> DEFINE p == ObjectPath(b, n)
           marks == Marks(p, "b", 1)
<1>1. /\ Len(p) = 5 + Len(n) /\ Len(n) \in Nat
      /\ p[1] = "storage" /\ p[2] = "v1" /\ p[3] = "b" /\ p[4] = b
  BY ObjectPathParts
<1> HIDE DEF p
<1>2. 3 \in marks
  BY <1>1 DEF Marks
<1>3. \A i \in marks : 3 <= i
  BY <1>1 DEF Marks
<1>4. marks \subseteq Int
  BY <1>1 DEF Marks
<1>5. Min(marks) = 3
  BY <1>2, <1>3, <1>4 DEF Min
<1> QED
  BY <1>1, <1>2, <1>5 DEF GetBucketNameFromRequestUri, p

(* GetObjectEncryptionKeyId asks for the object the client read, unless    *)
(* its name is cut at an inner "/o/".                                      *)
LEMMA ObjectName ==
  ASSUME NEW b \in Segments, b # "o", NEW n \in Seq(Segments),
         \A i \in 2 .. Len(n) - 1 : n[i] # "o"
  PROVE  n # << >> => GetObjectNameFromRequestUri(ObjectPath(b, n)) = n
<1> DEFINE p == ObjectPath(b, n)
           marks == Marks(p, "o", 1)
<1> SUFFICES ASSUME n # << >>
             PROVE  GetObjectNameFromRequestUri(p) = n
  OBVIOUS
<1>0. Len(n) \in Nat /\ Len(n) >= 1
  OBVIOUS
<1>1. /\ Len(p) = 5 + Len(n)
      /\ p[1] = "storage" /\ p[2] = "v1" /\ p[3] = "b" /\ p[4] = b
      /\ p[5] = "o" /\ SubSeq(p, 6, Len(p)) = n
  BY ObjectPathParts
<1>2. \A j \in 1 .. Len(n) : p[5 + j] = n[j]
  BY ObjectPathParts, ZenonT(40)
<1> HIDE DEF p
<1>3. 5 \in marks
  BY <1>0, <1>1 DEF Marks
<1>4. \A i \in marks : 5 <= i
  BY <1>0, <1>1 DEF Marks
<1>5. marks \subseteq Int
  BY <1>0, <1>1 DEF Marks
<1>6. Min(marks) = 5
  BY <1>3, <1>4, <1>5 DEF Min
<1>7. Marks(p, "o", 7) = {}
  <2>1. ASSUME NEW i \in 7 .. Len(p) - 1
        PROVE  p[i] # "o"
    <3> DEFINE j == i - 5
    <3>1. j \in 2 .. Len(n) - 1 /\ j \in 1 .. Len(n) /\ 5 + j = i
      BY <1>0, <1>1, <2>1
    <3> HIDE DEF j
    <3>2. n[j] # "o" /\ p[5 + j] = n[j]
      BY <1>2, <3>1
    <3> QED
      BY <3>1, <3>2
  <2> QED
    BY <2>1 DEF Marks
<1>8. /\ marks # {} /\ Min(marks) + 1 = 6 /\ Min(marks) + 2 = 7
  BY <1>3, <1>6
<1> HIDE DEF marks
<1> QED
  BY <1>1, <1>7, <1>8 DEF GetObjectNameFromRequestUri, marks

LEMMA XmlBucket ==
  ASSUME NEW b \in Segments, b # "b", NEW n \in Seq(Segments),
         \A i \in 1 .. Len(n) - 1 : n[i] # "b"
  PROVE  GetBucketNameFromRequestUri(XmlPath(b, n)) = b
<1> DEFINE p == XmlPath(b, n)
<1>0. Len(n) \in Nat
  OBVIOUS
<1>1. /\ Len(p) = 1 + Len(n) /\ p[1] = b
      /\ \A j \in 1 .. Len(n) : p[1 + j] = n[j]
  BY XmlPathParts, Zenon
<1> HIDE DEF p
<1>2. ASSUME NEW i \in 1 .. Len(p) - 1, i # 1
      PROVE  p[i] # "b"
  <2> DEFINE j == i - 1
  <2>1. j \in 1 .. Len(n) - 1 /\ j \in 1 .. Len(n) /\ 1 + j = i
    BY <1>0, <1>1, <1>2
  <2> HIDE DEF j
  <2>2. n[j] # "b" /\ p[1 + j] = n[j]
    BY <1>1, <2>1
  <2> QED
    BY <2>1, <2>2
<1>3. Marks(p, "b", 1) = {}
  BY <1>0, <1>1, <1>2 DEF Marks
<1> QED
  BY <1>1, <1>3 DEF GetBucketNameFromRequestUri, p

LEMMA ReadPathTests ==
  ASSUME NEW b \in Segments, NEW n \in Seq(Segments), n # << >>
  PROVE  /\ IsMetadataPath(ObjectPath(b, n))
         /\ HasSuffixO(ObjectPath(b, n)) <=> n[Len(n)] = "o"
         /\ b # "storage" => ~IsMetadataPath(XmlPath(b, n))
<1> DEFINE root == <<"storage", "v1", "b">>
           p == ObjectPath(b, n)
           x == XmlPath(b, n)
<1>1. /\ p \in Seq(Segments) /\ Len(p) = 5 + Len(n)
      /\ p[1] = "storage" /\ p[2] = "v1" /\ p[3] = "b"
      /\ \A i \in 1 .. Len(n) : p[5 + i] = n[i]
  BY ObjectPathParts
<1>2. x \in Seq(Segments) /\ x[1] = b
  BY XmlPathParts
<1>3. Len(n) \in Nat /\ Len(n) >= 1
  OBVIOUS
<1>4. "storage" \in Segments /\ "v1" \in Segments /\ "b" \in Segments
  BY SegmentsAssumption
<1>5. /\ root \in Seq(Segments) /\ Len(root) = 3
      /\ root[1] = "storage" /\ root[2] = "v1" /\ root[3] = "b"
  BY <1>4
<1> HIDE DEF root, p, x
<1>6. IsPrefix(root, p) /\ Len(p) > 3
  <2>1. root \in Seq(Segments) /\ p \in Seq(Segments)
    BY <1>1, <1>5
  <2>2. /\ Len(root) <= Len(p) /\ Len(p) > 3
        /\ \A j \in 1 .. Len(root) : root[j] = p[j]
    BY <1>1, <1>3, <1>5
  <2>3. IsPrefix(root, p)
    BY <2>1, <2>2, PathPrefix
  <2> QED
    BY <2>2, <2>3
<1>7. b # "storage" => ~IsPrefix(root, x)
  <2>1. root \in Seq(Segments)
    BY <1>5
  <2>2. x \in Seq(Segments)
    BY <1>2
  <2>3. IsPrefix(root, x) => \A j \in 1 .. Len(root) : root[j] = x[j]
    BY <2>1, <2>2, PathPrefix
  <2> QED
    BY <1>2, <1>5, <2>3
<1>8. p[Len(p)] = n[Len(n)]
  BY <1>1, <1>3
<1> QED
  BY <1>6, <1>7, <1>8 DEF IsMetadataPath, HasPrefix, HasSuffixO, root, p, x

(* What an instance makes of a read, which it may have asked for again as  *)
(* alt=json.                                                               *)
LEMMA ReadRoute ==
  ASSUME NEW m, NEW c \in Calls,
         GetKMSKeyName(m, c.bucket) # NoKey,
         c.op \in {"download", "stat", "fields"} => c.name[Len(c.name)] # "o",
         c.op = "xmlGet" => \A i \in 1 .. Len(c.name) - 1 : c.name[i] # "b",
         NEW r, r.method = "GET", r.path = PathOf(c),
         \/ r.query = QueryOf(c)
         \/ c.op = "fields" /\ r.query = [NoQuery EXCEPT !.alt = "json"]
  PROVE  /\ c.op \in {"download", "xmlGet"} =>
              InterceptGcsMethod(m, r) = "simpleDownload"
         /\ c.op \in {"stat", "fields"} =>
              InterceptGcsMethod(m, r) = "metadataRequest"
<1> DEFINE b == c.bucket
           n == c.name
<1>1. /\ b \in Segments /\ b # "b" /\ b # "storage"
      /\ n \in Seq(Segments) /\ n # << >>
  BY CallParts DEF Roots, NoName
<1>2. /\ c.op \in {"download", "stat", "fields"} => r.path = ObjectPath(b, n)
      /\ c.op = "xmlGet" => r.path = XmlPath(b, n)
  BY DEF PathOf
<1>3. /\ c.op = "download" => r.query.alt = "media"
      /\ c.op = "stat" => r.query.alt = "json"
      /\ c.op = "fields" => \/ r.query.alt = "json"
                            \/ r.query.alt = "" /\ r.query.fields
      /\ c.op = "xmlGet" => r.query.alt = ""
  <2>1. /\ c.op = "download" => QueryOf(c).alt = "media"
        /\ c.op = "stat" => QueryOf(c).alt = "json"
        /\ c.op = "fields" => QueryOf(c).alt = "" /\ QueryOf(c).fields
        /\ c.op = "xmlGet" => QueryOf(c).alt = ""
    BY DEF QueryOf
  <2>2. [NoQuery EXCEPT !.alt = "json"].alt = "json"
    BY DEF NoQuery
  <2> QED
    BY <2>1, <2>2
<1>4. r.method # "POST" /\ r.method # "PUT"
  OBVIOUS
<1>5. ASSUME c.op \in {"download", "stat", "fields"}
      PROVE  /\ GetKMSKeyName(m, GetBucketNameFromRequestUri(r.path)) # NoKey
             /\ IsMetadataPath(r.path) /\ ~HasSuffixO(r.path)
  BY <1>1, <1>2, <1>5, ObjectBucket, ReadPathTests
<1>6. ASSUME c.op = "xmlGet"
      PROVE  /\ GetKMSKeyName(m, GetBucketNameFromRequestUri(r.path)) # NoKey
             /\ ~IsMetadataPath(r.path)
  BY <1>1, <1>2, <1>6, XmlBucket, ReadPathTests
<1>7. CASE c.op = "download"
  BY <1>3, <1>4, <1>5, <1>7 DEF InterceptGcsMethod
<1>8. CASE c.op \in {"stat", "fields"}
  BY <1>3, <1>4, <1>5, <1>8 DEF InterceptGcsMethod
<1>9. CASE c.op = "xmlGet"
  BY <1>3, <1>4, <1>6, <1>9 DEF InterceptGcsMethod
<1> QED
  BY <1>7, <1>8, <1>9
=============================================================================
