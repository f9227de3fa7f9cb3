------------------------------ MODULE ByteRange -----------------------------
(***************************************************************************)
(* A ranged download through the proxy (handle-simple-download.go).  A     *)
(* slice of the ciphertext cannot be decrypted, so the request handler     *)
(* puts the Range header aside, the service sends the whole object, and    *)
(* the response handler decrypts it and cuts the range out itself.         *)
(*                                                                         *)
(* Bodies are lengths and half-open intervals [from, to) of the plaintext. *)
(* A client may ask for a closed range "bytes=start-end", an open-ended    *)
(* one "bytes=start-" or a suffix "bytes=-last", the forms of RFC 9110;    *)
(* the proxy understands the first only.                                   *)
(***************************************************************************)
EXTENDS Integers

CONSTANTS
  Lengths,   (* lengths an object may have                               *)
  Offsets,   (* numbers a Range header may hold                          *)
  NoRange,   (* no Range header                                          *)
  Unparsed   (* any other: several ranges, a number that fits no int     *)

ByteRanges == [start : Offsets, end : Offsets]
OpenRanges == [start : Offsets]
Suffixes   == [last : Offsets]
Headers == ByteRanges \cup OpenRanges \cup Suffixes \cup {NoRange, Unparsed}

ASSUME ByteRangeAssumption ==
  /\ Lengths \subseteq Nat /\ Offsets \subseteq Nat
  /\ NoRange # Unparsed
  /\ NoRange \notin ByteRanges \cup OpenRanges \cup Suffixes
  /\ Unparsed \notin ByteRanges \cup OpenRanges \cup Suffixes

(* "bytes=5-" and "bytes=-5" leave Atoi an empty string; a negative number *)
(* or a second range gives the split at "-" a third part.                  *)
Parses(header) == header \in ByteRanges

Answers == [status : {"ok", "failed"}, from : Int, to : Int]

VARIABLES
  phase,   (* "request", "forwarded", "answered", "done"                 *)
  length,  (* of the object's plaintext                                  *)
  asked,   (* history: the Range header of the client                    *)
  range,   (* the Range header of f.Request                              *)
  saved,   (* x-original-byte-range                                      *)
  body,    (* the ciphertext in f.Response: "none", "whole" or a "slice"  *)
  answer   (* what the client gets                                       *)

vars == <<phase, length, asked, range, saved, body, answer>>

Failed == [status |-> "failed", from |-> 0, to |-> 0]
Body(from, to) == [status |-> "ok", from |-> from, to |-> to]

Init ==
  /\ phase = "request"
  /\ length \in Lengths
  /\ asked \in Headers
  /\ range = asked
  /\ saved = NoRange
  /\ body = "none"
  /\ answer = Failed

(* A bug IndInv catches: the header is copied and still sent on.           *)
HandleRequestCopyingRange ==
  /\ phase = "request"
  /\ phase' = "forwarded"
  /\ saved' = range
  /\ UNCHANGED <<length, asked, range, body, answer>>

HandleSimpleDownloadRequest ==
  /\ phase = "request"
  /\ phase' = "forwarded"
  /\ saved' = IF range # NoRange THEN range ELSE saved
  /\ range' = NoRange
  /\ UNCHANGED <<length, asked, body, answer>>

(* The service honours a Range header that reaches it.                     *)
ServeObject ==
  /\ phase = "forwarded"
  /\ phase' = "answered"
  /\ body' = IF range = NoRange THEN "whole" ELSE "slice"
  /\ UNCHANGED <<length, asked, range, saved, answer>>

(* The bounds checks of the response handler on a plaintext of n bytes,    *)
(* and the slice [start, SliceEnd) they let through.                       *)
(* Bugs SliceInBounds and ClosedRangesServed catch: no check of the start, *)
(* and checks that are off by one.  A bug WithinRequest catches: the slice *)
(* runs to the end of the object.                                          *)
RejectedByEnd(r, n)  == r.end < 1 \/ r.end < r.start
RejectedTooMuch(r, n) == r.start > n \/ r.end < 1 \/ r.end <= r.start
SliceToTheEnd(r, n)  == n

Rejected(r, n) == r.start > n \/ r.end < 1 \/ r.end < r.start
SliceEnd(r, n) == IF r.end >= n - 1 THEN n ELSE r.end

HandleSimpleDownloadResponse ==
  /\ phase = "answered"
  /\ phase' = "done"
  /\ \/ /\ body = "slice" \/ ~(saved = NoRange \/ Parses(saved))
        /\ answer' = Failed
     \/ /\ body = "whole" /\ saved = NoRange
        /\ answer' = Body(0, length)
     \/ /\ body = "whole" /\ Parses(saved) /\ Rejected(saved, length)
        /\ answer' = Failed
     \/ /\ body = "whole" /\ Parses(saved) /\ ~Rejected(saved, length)
        /\ answer' = Body(saved.start, SliceEnd(saved, length))
  /\ UNCHANGED <<length, asked, range, saved, body>>

Next ==
  \/ HandleSimpleDownloadRequest
  \/ ServeObject
  \/ HandleSimpleDownloadResponse

Spec == Init /\ [][Next]_vars

-----------------------------------------------------------------------------
TypeOK ==
  /\ phase \in {"request", "forwarded", "answered", "done"}
  /\ length \in Lengths
  /\ asked \in Headers /\ range \in Headers /\ saved \in Headers
  /\ body \in {"none", "whole", "slice"}
  /\ answer \in Answers

(* No ranged request reaches the service, and the range is not lost: what  *)
(* the response handler decrypts is the whole object.                      *)
RangeSetAside ==
  /\ phase = "request" => range = asked /\ saved = NoRange
  /\ phase # "request" => range = NoRange /\ saved = asked
  /\ phase \in {"answered", "done"} => body = "whole"

IndInv == TypeOK /\ RangeSetAside

Delivered == phase = "done" /\ answer.status = "ok"

(* The slice expression never panics: whatever numbers the client puts in  *)
(* the header, 0 <= start <= end <= len holds where it is evaluated.       *)
SliceInBounds ==
  Delivered => /\ 0 <= answer.from /\ answer.from <= answer.to
               /\ answer.to <= length

(* What RFC 9110 makes of "bytes=start-end": both ends are included, and   *)
(* the end is cut to the object.                                           *)
InclusiveEnd(r) == IF r.end + 1 < length THEN r.end + 1 ELSE length

(* A client without a Range header gets the whole object; one with a range *)
(* gets bytes of that range only, from its start on, and misses at most    *)
(* the last of them.                                                       *)
WithinRequest ==
  /\ Delivered /\ asked = NoRange => answer.from = 0 /\ answer.to = length
  /\ Delivered /\ asked # NoRange =>
       /\ asked \in ByteRanges
       /\ answer.from = asked.start
       /\ answer.to \in {InclusiveEnd(asked) - 1, InclusiveEnd(asked)}

(* What RFC 9110 has a server answer with bytes.                           *)
Satisfiable(header) ==
  \/ header = NoRange
  \/ /\ header \in ByteRanges
     /\ header.start <= header.end /\ header.start < length
  \/ header \in OpenRanges /\ header.start < length
  \/ header \in Suffixes /\ header.last > 0 /\ length > 0

(* Of the downloads that could be answered with bytes, the proxy serves    *)
(* those without a range and those of a closed range that ends past byte   *)
(* 0, and no other: the bounds checks refuse none of these, and once the   *)
(* header was moved aside every "bytes=5-", "bytes=-5" and "bytes=0-0" is  *)
(* an error, although the service would have honoured it.                  *)
ClosedRangesServed ==
  phase = "done" /\ Satisfiable(asked) =>
    (answer.status = "ok" <=>
       asked = NoRange \/ (asked \in ByteRanges /\ asked.end > 0))

(* A ranged download returns exactly the bytes asked for, ends included.   *)
InclusiveRange ==
  Delivered /\ asked \in ByteRanges =>
    answer.from = asked.start /\ answer.to = InclusiveEnd(asked)
=============================================================================
