-------------------------- MODULE ByteRangeProofs ---------------------------
(***************************************************************************)
(* What ByteRange promises, for every object length and every number in a  *)
(* Range header.                                                           *)
(***************************************************************************)
EXTENDS ByteRange, TLAPS

(* The interval a range that passes the bounds checks is cut to.           *)
LEMMA SliceBounds ==
  ASSUME NEW n \in Nat, NEW r \in [start : Nat, end : Nat], ~Rejected(r, n)
  PROVE  /\ SliceEnd(r, n) \in Nat
         /\ r.start <= SliceEnd(r, n) /\ SliceEnd(r, n) <= n
         /\ SliceEnd(r, n) \in
              {r.end, IF r.end + 1 < n THEN r.end + 1 ELSE n}
BY DEF Rejected, SliceEnd

(* The forms of a Range header are told apart.                             *)
LEMMA FormsDiffer ==
  \A r \in ByteRanges : r \notin OpenRanges /\ r \notin Suffixes
<1> TAKE r \in ByteRanges
<1>1. DOMAIN r = {"start", "end"}
  BY DEF ByteRanges
<1>2. r \in OpenRanges => DOMAIN r = {"start"}
  BY DEF OpenRanges
<1>3. r \in Suffixes => DOMAIN r = {"last"}
  BY DEF Suffixes
<1> QED
  BY <1>1, <1>2, <1>3

(* The header is set aside before the request leaves and never comes back, *)
(* so the body the response handler decrypts is a whole object.            *)
THEOREM HeaderSetAside == Spec => []IndInv
<1>1. Init => IndInv
  BY ByteRangeAssumption
  DEF Init, IndInv, TypeOK, RangeSetAside, Headers, Failed, Answers
<1>2. IndInv /\ [Next]_vars => IndInv'
  <2> SUFFICES ASSUME IndInv, [Next]_vars PROVE IndInv'
    OBVIOUS
  <2> USE DEF IndInv, TypeOK, RangeSetAside
  <2>1. CASE HandleSimpleDownloadRequest
    BY <2>1 DEF HandleSimpleDownloadRequest, Headers
  <2>2. CASE ServeObject
    BY <2>2 DEF ServeObject
  <2>3. CASE HandleSimpleDownloadResponse
    <3>1. phase = "answered" /\ phase' = "done" /\ body = "whole"
          /\ UNCHANGED <<length, asked, range, saved, body>>
      BY <2>3 DEF HandleSimpleDownloadResponse
    <3>2. answer' \in Answers
      <4>1. Failed \in Answers
        BY DEF Failed, Answers
      <4>2. ASSUME NEW from \in Int, NEW to \in Int
            PROVE  Body(from, to) \in Answers
        BY DEF Body, Answers
      <4>3. length \in Int
        BY ByteRangeAssumption
      <4>4. CASE Parses(saved) /\ ~Rejected(saved, length)
        <5>1. saved \in [start : Nat, end : Nat] /\ length \in Nat
          BY <4>4, ByteRangeAssumption DEF Parses, ByteRanges
        <5>2. saved.start \in Int /\ SliceEnd(saved, length) \in Int
          BY <4>4, <5>1, SliceBounds
        <5> QED
          BY <2>3, <4>1, <4>2, <4>3, <5>2 DEF HandleSimpleDownloadResponse
      <4>5. CASE ~(Parses(saved) /\ ~Rejected(saved, length))
        BY <2>3, <4>1, <4>2, <4>3, <4>5 DEF HandleSimpleDownloadResponse
      <4> QED
        BY <4>4, <4>5
    <3> QED
      BY <3>1, <3>2
  <2>4. CASE UNCHANGED vars
    BY <2>4 DEF vars
  <2> QED
    BY <2>1, <2>2, <2>3, <2>4 DEF Next
<1> QED
  BY <1>1, <1>2, PTL DEF Spec

(* What is delivered, at the step that delivers it and ever after.         *)
Promise == SliceInBounds /\ WithinRequest /\ ClosedRangesServed

LEMMA PromiseStep == IndInv /\ Promise /\ [Next]_vars => Promise'
<1> SUFFICES ASSUME IndInv, Promise, [Next]_vars PROVE Promise'
  OBVIOUS
<1> USE DEF Promise, SliceInBounds, WithinRequest, ClosedRangesServed,
            Delivered, InclusiveEnd, Parses
<1>1. CASE HandleSimpleDownloadRequest
  BY <1>1 DEF HandleSimpleDownloadRequest
<1>2. CASE ServeObject
  BY <1>2 DEF ServeObject
<1>3. CASE HandleSimpleDownloadResponse
  <2>1. body = "whole" /\ saved = asked /\ UNCHANGED <<length, asked>>
    BY <1>3 DEF HandleSimpleDownloadResponse, IndInv, RangeSetAside
  <2>2. length \in Nat /\ asked \in Headers
    BY ByteRangeAssumption DEF IndInv, TypeOK
  <2>3. CASE ~(saved = NoRange \/ Parses(saved))
    BY <1>3, <2>1, <2>3 DEF HandleSimpleDownloadResponse, Failed
  <2>4. CASE saved = NoRange
    <3>1. ~Parses(saved)
      BY <2>4, ByteRangeAssumption
    <3>2. answer' = Body(0, length) /\ phase' = "done"
      BY <1>3, <2>1, <2>4, <3>1 DEF HandleSimpleDownloadResponse
    <3> QED
      BY <2>1, <2>2, <2>4, <3>1, <3>2, ByteRangeAssumption DEF Body
  <2>5. CASE Parses(saved) /\ Rejected(saved, length)
    <3>1. answer' = Failed /\ asked # NoRange
      BY <1>3, <2>1, <2>5, ByteRangeAssumption DEF HandleSimpleDownloadResponse
    <3>2. asked \in ByteRanges /\ asked.end \in Nat /\ asked.start \in Nat
      BY <2>1, <2>5, ByteRangeAssumption DEF ByteRanges
    <3>3. Satisfiable(asked)' => asked.end = 0
      <4> SUFFICES ASSUME Satisfiable(asked)', asked.end # 0 PROVE FALSE
        OBVIOUS
      <4>1. asked' = asked /\ length' = length
        BY <2>1
      <4>2. asked \notin OpenRanges /\ asked \notin Suffixes
        BY <3>2, FormsDiffer
      <4>3. asked.start <= asked.end /\ asked.start < length
        BY <3>1, <4>1, <4>2 DEF Satisfiable
      <4> QED
        BY <2>1, <2>2, <2>5, <3>2, <4>3 DEF Rejected
    <3> QED
      BY <2>1, <3>1, <3>2, <3>3 DEF Failed
  <2>6. CASE Parses(saved) /\ ~Rejected(saved, length)
    <3>1. saved \in [start : Nat, end : Nat] /\ asked # NoRange
      BY <2>1, <2>6, ByteRangeAssumption DEF ByteRanges
    <3>2. answer' = Body(saved.start, SliceEnd(saved, length))
      BY <1>3, <2>1, <2>6, ByteRangeAssumption DEF HandleSimpleDownloadResponse
    <3>3. /\ answer'.status = "ok" /\ answer'.from = saved.start
          /\ answer'.to = SliceEnd(saved, length)
      BY <3>2 DEF Body
    <3>4. SliceEnd(saved, length) \in
            {InclusiveEnd(saved) - 1, InclusiveEnd(saved)}
      BY <2>2, <2>6, <3>1 DEF SliceEnd, Rejected
    <3>5. /\ asked' = saved /\ length' = length /\ asked = saved
          /\ asked \in ByteRanges /\ asked.end > 0
      BY <2>1, <2>6, <3>1 DEF Rejected
    <3>6. SliceInBounds' /\ WithinRequest'
      BY <2>2, <2>6, <3>1, <3>3, <3>4, <3>5, SliceBounds
    <3>7. ClosedRangesServed'
      BY <3>3, <3>5
    <3> QED
      BY <3>6, <3>7
  <2> QED
    BY <2>1, <2>2, <2>3, <2>4, <2>5, <2>6 DEF Headers
<1>4. CASE UNCHANGED vars
  BY <1>4 DEF vars, Satisfiable
<1> QED
  BY <1>1, <1>2, <1>3, <1>4 DEF Next

LEMMA PromiseAlways == Spec => []Promise
<1>1. Init => Promise
  BY DEF Init, Promise, SliceInBounds, WithinRequest, ClosedRangesServed,
         Delivered
<1>2. IndInv /\ Promise /\ [Next]_vars => Promise'
  BY PromiseStep
<1> QED
  BY <1>1, <1>2, HeaderSetAside, PTL DEF Spec

(* No Range header makes the slice expression panic.                       *)
THEOREM NoSlicePanic == Spec => []SliceInBounds
<1>1. Promise => SliceInBounds
  BY DEF Promise
<1> QED
  BY <1>1, PromiseAlways, PTL

(* What a client is given lies in the range it asked for, starts where it  *)
(* asked, and misses at most the last byte.                                *)
THEOREM RangeRespected == Spec => []WithinRequest
<1>1. Promise => WithinRequest
  BY DEF Promise
<1> QED
  BY <1>1, PromiseAlways, PTL

(* Of the satisfiable downloads, those without a range or with a closed    *)
(* one that ends past byte 0 are served, and no other is.                  *)
THEOREM RangesServed == Spec => []ClosedRangesServed
<1>1. Promise => ClosedRangesServed
  BY DEF Promise
<1> QED
  BY <1>1, PromiseAlways, PTL
=============================================================================
