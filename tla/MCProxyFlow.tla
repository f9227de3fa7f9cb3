----------------------------- MODULE MCProxyFlow ----------------------------
(***************************************************************************)
(* Small instances of ProxyFlow for TLC.  Two buckets are in the mapping,  *)
(* under different keys, and one is not; an object name is ordinary, has a *)
(* segment "o" inside or at its end, or has a character that ends a query  *)
(* parameter.  Each cfg picks the calls its flows make.                    *)
(***************************************************************************)
EXTENDS StoreRefinement

CONSTANTS i1, i2, f1, f2, f3, f4, k1, k2, c0, c1, c2, c3, u1, u2

MCBuckets == {"photos", "logs", "open"}
File    == <<"file">>
Nested  == <<"a", "o", "b">>
EndsInO == <<"a", "o">>
Amp     == <<"a&b">>
CutAmp  == <<"a">>
Deep    == <<"a", "b", "c">>
MCNames == {File, Deep, Nested, EndsInO, Amp, CutAmp}
TwoNames  == {File, Nested}
ReadNames == {File, Deep}
MCSegments ==
  {"", "b", "o", "v1", "storage", "upload", "download", "resumable"}
    \cup MCBuckets \cup UNION {Range(n) : n \in MCNames}

(* name=a&b parses as name=a: the unescaped "&" ends the parameter.        *)
MCQueryRoundTrip == [n \in Names |-> IF n = Amp THEN CutAmp ELSE n]

Keyed == [b \in {"photos", "logs"} |-> IF b = "photos" THEN k1 ELSE k2]
SameMapping    == [i \in {i1, i2} |-> Keyed]
SingleMapping  == [i \in {i1} |-> Keyed]
(* The second instance was started with a global key.                      *)
MixedMapping   == [i \in {i1, i2} |->
                     IF i = i1 THEN Keyed ELSE [b \in {"*"} |-> k2]]

(* An object may have been written before the proxy was introduced, with *)
(* metadata of its own or without any.                                     *)
NothingStored == [obj \in Objects |-> Absent]
Foreign == {[media |-> Plain(c3), stamp |-> NoStamp],
            [media |-> Plain(c3), stamp |-> [NoStamp EXCEPT !.custom = TRUE]]}
EmptyStore    == {NothingStored}
Holding(n, v) == [NothingStored EXCEPT ![<<"photos", n>>] = v]
ForeignDeep == EmptyStore \cup {Holding(Deep, v) : v \in Foreign}
CustomFile  == EmptyStore \cup
  {Holding(File, v) : v \in {w \in Foreign : w.stamp.custom}}

To(op, b, n, d) ==
  [op |-> op, bucket |-> b, name |-> n, data |-> d, home |-> NoBucket,
   shape |-> "none", id |-> NoId, range |-> "none", ifAbsent |-> FALSE]

Put(b, id, range, d) ==
  [To("put", b, File, d) EXCEPT !.id = id, !.range = range]
Start(b, n, shape, home) ==
  [To("start", b, n, NoContent) EXCEPT !.shape = shape, !.home = home]
Read(op, b, n) == To(op, b, n, NoContent)

(* Uploads of every kind, to mapped and unmapped buckets, next to calls    *)
(* the proxy lets through.                                                 *)
UploadCalls ==
  (f1 :> {To("multipart", "photos", File, c1),
          [To("multipart", "photos", File, c1) EXCEPT !.home = "logs"],
          [To("multipart", "photos", File, c1) EXCEPT !.shape = "file"],
          [To("multipart", "photos", File, c1) EXCEPT !.shape = "garbled"],
          To("media", "logs", Nested, c1), To("media", "open", File, c1)})
  @@ (f2 :> {To("multipart", "photos", File, c2),
             [To("multipart", "photos", File, c2) EXCEPT !.ifAbsent = TRUE],
             To("media", "photos", File, c2), To("xmlPut", "photos", File, c2),
             Read("delete", "photos", File)})
  @@ (f3 :> {Read("download", "photos", File), Read("xmlGet", "photos", File),
             Start("photos", File, "nested", NoBucket)})

(* Two resumable sessions and two PUTs that may name the same one.         *)
SessionCalls ==
  (f1 :> {Start("photos", File, "none", NoBucket)})
  @@ (f2 :> {Put("photos", u1, "whole", c1)})
  @@ (f3 :> {Put("photos", u1, range, c2) : range \in {"whole", "part", "none"}})
  @@ (f4 :> {Start("photos", Nested, "json", "photos")})

(* Two uploads of one object and a reader, or a listing of the bucket.     *)
ReadCalls ==
  (f1 :> {To("multipart", "photos", Deep, c1)})
  @@ (f2 :> {To("media", "photos", Deep, c2)})
  @@ (f3 :> {Read(op, "photos", Deep) : op \in ReadOps \cup {"list"}})

(* One resumable upload, of an object whose name is n.                     *)
ResumableCalls(n) ==
  (f1 :> {Start("photos", n, "none", NoBucket)})
  @@ (f2 :> {Put("photos", u1, "whole", c1)})
OneResumable     == ResumableCalls(File)
AmpersandUpload  == ResumableCalls(Amp)

(* An upload and a download, with op, of an object whose name is n.        *)
RoundTripCalls(op, n) ==
  (f1 :> {To("multipart", "photos", n, c1)}) @@ (f2 :> {Read(op, "photos", n)})
XmlRoundTrip     == RoundTripCalls("xmlGet", File)
EndsInORoundTrip == RoundTripCalls("download", EndsInO)
=============================================================================
