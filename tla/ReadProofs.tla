------------------------------ MODULE ReadProofs ----------------------------
(***************************************************************************)
(* Reads see acknowledged uploads, whoever wrote and whichever instance    *)
(* serves the read, though an object may be replaced between the fetch of  *)
(* its ciphertext and the look-up of its key.                              *)
(*                                                                         *)
(* Beyond what RefinementProofs assumes of clients' calls, the run is calm *)
(* (Calm), uploads are the only writes (OrdinaryUploads), no name is cut   *)
(* on its way to the key (NamesUncut), and a PUT goes to the URL its       *)
(* client was given (PutsAtHome, of every state).                          *)
(***************************************************************************)
EXTENDS RefinementProofs

(***************************************************************************)
(* What no step takes back: whom a call is for, what was stored, and what  *)
(* a session was opened for.                                               *)
(***************************************************************************)
Begun(f) == Sent(f) => pc[f] # "idle"

Base == StoreInv /\ \A f \in Flows : Begun(f)

Kept ==
  /\ BoundKept
  /\ \A h \in Flows : Sent(h) => call'[h] = call[h] /\ at'[h] = at[h]
  /\ \A h \in Flows : wrote[h] # NoWrite => wrote'[h] = wrote[h]

LEMMA BaseParts ==
  ASSUME Base
  PROVE  /\ TypeOK /\ UploadInv /\ StoredReadable /\ SessionInv
         /\ \A f \in Flows :
              /\ Begun(f) /\ Called(f) /\ UploadOK(f) /\ PutOK(f)
              /\ ExchangeOK(f) /\ RequestOK(f) /\ WroteOK(f) /\ AnswerOK(f)
BY DEF Base, StoreInv, ProxyInv, IInv, ExchangeInv, ExchangeOK, CallsMade,
       UploadInv, SessionInv

LEMMA StepKept ==
  ASSUME Base, NEW f \in Flows, Step(f)
  PROVE  Kept
<1>1. TypeOK /\ UploadOK(f) /\ WroteOK(f) /\ Begun(f)
  BY BaseParts
<1>2. BoundKept
  BY <1>1, StepKeepsBound
<1>3. ASSUME NEW h \in Flows, h # f
      PROVE  call'[h] = call[h] /\ at'[h] = at[h] /\ wrote'[h] = wrote[h]
  BY <1>1, <1>3, StepFrame DEF Step
<1>4. /\ Sent(f) => call'[f] = call[f] /\ at'[f] = at[f]
      /\ wrote[f] # NoWrite => wrote'[f] = wrote[f]
  <2>1. CASE Send(f)
    BY <1>1, <2>1 DEF Send, Begun, service
  <2>2. CASE ProxyStep(f)
    BY <2>2, ProxyStepFrame
  <2>3. CASE ServiceStep(f)
    <3>1. GcsWrite(f) => wrote[f] = NoWrite
      BY <1>1 DEF GcsWrite, Live, WroteOK
    <3> QED
      BY <2>3, <3>1, ServiceStepFrame
  <2> QED
    BY <2>1, <2>2, <2>3 DEF Step
<1> QED
  BY <1>2, <1>3, <1>4 DEF Kept

LEMMA BegunKept ==
  ASSUME Base, StoreInv', [Next]_vars
  PROVE  \A f \in Flows : Begun(f)'
<1> SUFFICES ASSUME NEW f \in Flows PROVE Begun(f)'
  OBVIOUS
<1>1. TypeOK /\ Begun(f) /\ UploadOK(f)
  BY BaseParts
<1>2. CASE pc'[f] = pc[f] /\ call'[f] = call[f]
  BY <1>1, <1>2 DEF Begun, Sent
<1>3. ASSUME NEW g \in Flows, Step(g), g # f
      PROVE  Begun(f)'
  BY <1>1, <1>2, <1>3, StepFrame DEF Step
<1>4. CASE Step(f)
  <2>1. CASE Send(f)
    BY <1>1, <2>1 DEF Send, TypeOK, Begun
  <2>2. CASE ProxyStep(f) \/ ServiceStep(f)
    <3>1. pc[f] # "idle"
      BY <2>2 DEF ProxyStep, ForwardRequest, HandleMetadataRequest,
         HandleMultipartRequest, ConvertSinglePartUpload, ReadSession,
         ConvertPut, ForwardResponse, HandleUploadResponse,
         HandleMetadataResponse, LookupKey, HandleSimpleDownloadResponse,
         CreateSession, WriteSession, ServiceStep, GcsWrite, GcsOpenSession,
         GcsRead, GcsDelete, GcsList, GcsRefuse, GcsUnavailable, UpstreamLost,
         OrphanDropped, Live
    <3>2. at[f] \in Instances /\ at' = at
      BY <1>1, <2>2, <3>1, ProxyStepFrame, ServiceStepFrame DEF UploadOK
    <3>3. pc'[f] = "idle" => at'[f] = NoInstance
      BY DEF StoreInv, ProxyInv, IInv, UploadInv, UploadOK
    <3>4. NoInstance \notin Instances
      BY AbsenceAssumption
    <3> QED
      BY <3>2, <3>3, <3>4 DEF Begun
  <2> QED
    BY <1>4, <2>1, <2>2 DEF Step
<1>5. ASSUME NEW i \in Instances, Crash(i)
      PROVE  Begun(f)'
  <2>1. call' = call /\ (pc'[f] = pc[f] \/ pc'[f] \in {"lost", "orphaned"})
    BY <1>5 DEF Crash
  <2> QED
    BY <1>2, <2>1 DEF Begun
<1>6. CASE UNCHANGED vars
  BY <1>2, <1>6 DEF vars, client
<1> QED
  BY <1>3, <1>4, <1>5, <1>6 DEF Next, Rest, Step

(***************************************************************************)
(* What was stored, and by whom: an ordinary upload, of the content it was *)
(* sent with and for the object it was meant for.                          *)
(***************************************************************************)
LEMMA PutNamesId ==
  ASSUME NEW f \in Flows, call[f] \in Calls, Accepted(req[f]),
         IF Touched(f) THEN Rewritten(f, req[f]) ELSE AsSent(f, req[f])
  PROVE  call[f].op = "put" => call[f].id # NoId
<1> DEFINE c == call[f]
           s == RequestOf(c)
<1> SUFFICES ASSUME c.op = "put" PROVE c.id # NoId
  OBVIOUS
<1>1. /\ s \in Requests /\ s.method = MethodOf(c) /\ s.query = QueryOf(c)
      /\ QueryOf(c).uploadId = c.id
  BY RequestIsRequest DEF RequestOf, QueryOf
<1>2. MethodOf(c) = "PUT" /\ IsUpload(s)
  BY CallRoots DEF MethodOf, UploadPathOps
<1>3. CASE ~Touched(f)
  <2>1. Accepted(s)
    BY <1>3, AcceptedAsSent
  <2> QED
    BY <2>1, WriteAsSent
<1>4. CASE Touched(f) /\ req[f] = Bodiless(s)
  <2> HIDE DEF s, c
  <2>1. /\ Bodiless(s).method = "PUT" /\ Bodiless(s).path = s.path
        /\ Bodiless(s).query = s.query
    BY <1>1, <1>2 DEF Bodiless, Requests
  <2>2. IsUpload(req[f]) /\ req[f].method = "PUT" /\ req[f].query = QueryOf(c)
    BY <1>1, <1>2, <1>4, <2>1 DEF IsUpload
  <2>3. CompletesSession(req[f])
    BY <2>2 DEF Accepted, StoresMultipart, StoresMedia, StoresXml
  <2> QED
    BY <1>1, <2>2, <2>3 DEF CompletesSession
<1>5. CASE Touched(f) /\ req[f] # Bodiless(s)
  BY <1>5 DEF Rewritten
<1> QED
  BY <1>3, <1>4, <1>5

LEMMA WriterParts ==
  ASSUME NamesSurvive, OrdinaryUploads, Base, NEW h \in Flows,
         wrote[h] # NoWrite
  PROVE  /\ Sent(h) /\ call[h] \in Calls /\ call[h].op \in UploadOps
         /\ ~Spoilt(h) /\ call[h].data \in Contents
         /\ wrote[h].obj = Intended(h)
         /\ wrote[h].version.media.data = call[h].data
         /\ Truthful(wrote[h].version)
         /\ call[h].op = "put" => NamesSession(h)
<1> DEFINE c == call[h]
           a == AskFor(h)
<1>1. /\ TypeOK /\ SessionInv /\ UploadOK(h) /\ WroteOK(h) /\ RequestOK(h)
      /\ Called(h)
  BY BaseParts
<1>2. pc[h] # "idle" /\ Sent(h) /\ c \in Calls /\ c \in ClientCalls[h]
  BY <1>1 DEF UploadOK, Called, TypeOK, Sent
<1>3. /\ Accepted(req[h]) /\ wrote[h].obj = WriteTarget(req[h])
      /\ wrote[h].version = VersionOf(req[h])
      /\ IF Touched(h) THEN Rewritten(h, req[h]) ELSE AsSent(h, req[h])
  BY <1>1 DEF WroteOK, RequestOK
<1>4. WriteFits(h)
  BY <1>1, <1>2, <1>3, WriteFitsAsk
<1>5. c.op \in WriteOps
  BY <1>2, <1>4, Kinds DEF WriteFits
<1>6. /\ c.op \in UploadOps /\ ~Spoilt(h) /\ c.data \in Contents
  BY <1>2, <1>5 DEF OrdinaryUploads, WriteOps, Spoilt, UploadOps
<1>7. /\ a.obj = <<c.bucket, c.name>> /\ a.data = c.data /\ a.frail = Spoilt(h)
      /\ a.id = IF c.op = "put" THEN c.id ELSE NoId
  BY <1>2, AskParts
<1>8. c.op = "put" => c.id # NoId
  BY <1>2, <1>3, PutNamesId
<1>9. WriteTarget(req[h]) = Intended(h)
  BY <1>4, <1>7, <1>8 DEF WriteFits, Intended
<1>10. wrote[h].version.media.data = c.data /\ Truthful(wrote[h].version)
  BY <1>3, <1>4, <1>6, <1>7 DEF WriteFits
<1> QED
  BY <1>2, <1>3, <1>6, <1>8, <1>9, <1>10 DEF NamesSession

LEMMA AckedWrote ==
  ASSUME Base, NEW g \in Flows, Acked(g)
  PROVE  wrote[g] # NoWrite
<1>1. AnswerOK(g)
  BY BaseParts
<1> QED
  BY <1>1 DEF AnswerOK, Acked, WriteOps

LEMMA IntendedKept ==
  ASSUME NamesSurvive, OrdinaryUploads, Base, Kept, NEW h \in Flows,
         wrote[h] # NoWrite
  PROVE  Intended(h)' = Intended(h)
<1>1. Sent(h) /\ (call[h].op = "put" => NamesSession(h))
  BY WriterParts
<1>2. call'[h] = call[h]
  BY <1>1 DEF Kept
<1>3. call[h].op = "put" => bound'[call[h].id] = bound[call[h].id]
  <2>1. call[h].op = "put" => /\ call[h].id \in UploadIds
                              /\ bound[call[h].id] \in Objects
    BY <1>1, BaseParts, SessionBound
  <2> QED
    BY <2>1 DEF Kept, BoundKept
<1> QED
  BY <1>2, <1>3 DEF Intended

(***************************************************************************)
(* A read that follows an upload has followed it all the way.              *)
(***************************************************************************)
LEMMA FollowsBefore ==
  ASSUME NamesSurvive, OrdinaryUploads, Base, Kept, NEW f \in Flows, Sent(f),
         before'[f] = before[f], Follows(f)'
  PROVE  Follows(f) /\ call'[f] = call[f]
<1>1. call'[f] = call[f] /\ at'[f] = at[f]
  BY DEF Kept
<1>2. /\ call[f].op \in ReadOps /\ Intercepted(f)
      /\ OneKey(call[f].bucket)' \/ call[f].op # "download"
  BY <1>1, SameAsk DEF Follows
<1>3. OneKey(call[f].bucket)' => OneKey(call[f].bucket)
  <2> SUFFICES ASSUME OneKey(call[f].bucket)', NEW g \in Flows, NEW h \in Flows,
                      Sent(g), Sent(h)
               PROVE  KeyOf(g, call[f].bucket) = KeyOf(h, call[f].bucket)
    BY DEF OneKey
  <2>1. /\ call'[g] = call[g] /\ at'[g] = at[g]
        /\ call'[h] = call[h] /\ at'[h] = at[h]
    BY DEF Kept
  <2>2. Sent(g)' /\ Sent(h)'
    BY <2>1 DEF Sent
  <2>3. KeyOf(g, call[f].bucket)' = KeyOf(h, call[f].bucket)'
    BY <2>2 DEF OneKey
  <2> QED
    BY <1>1, <2>1, <2>3 DEF KeyOf
<1>4. PICK g \in before[f] : Intended(g)' = <<call[f].bucket, call[f].name>>
  BY <1>1 DEF Follows
<1>5. g \in Flows /\ Acked(g)
  <2>1. TypeOK /\ PutOK(f)
    BY BaseParts
  <2> QED
    BY <2>1 DEF TypeOK, PutOK
<1>6. Intended(g) = <<call[f].bucket, call[f].name>>
  BY <1>4, <1>5, AckedWrote, IntendedKept
<1> QED
  BY <1>1, <1>2, <1>3, <1>4, <1>5, <1>6 DEF Follows

LEMMA WritersGrow ==
  ASSUME NamesSurvive, OrdinaryUploads, Base, Kept, NEW obj,
         NEW h \in Writers(obj)
  PROVE  /\ h \in Flows /\ h \in Writers(obj)'
         /\ wrote'[h] = wrote[h] /\ call'[h] = call[h]
<1>1. h \in Flows /\ wrote[h] # NoWrite
  BY DEF Writers
<1>2. Sent(h)
  BY <1>1, WriterParts
<1> QED
  BY <1>1, <1>2 DEF Kept, Writers

(***************************************************************************)
(* What the object holds.                                                  *)
(***************************************************************************)
LEMMA NothingDeleted ==
  ASSUME OrdinaryUploads, Base, NEW f \in Flows
  PROVE  ~GcsDelete(f)
<1> SUFFICES ASSUME GcsDelete(f) PROVE FALSE
  OBVIOUS
<1>1. Live(f) /\ ServiceStep(f) /\ req[f].method = "DELETE"
  BY DEF GcsDelete, ServiceStep
<1>2. TypeOK /\ UploadInv /\ RequestOK(f) /\ Called(f)
  BY BaseParts
<1>3. /\ Sent(f) /\ call[f] \in Calls
      /\ IF Touched(f) THEN Rewritten(f, req[f]) ELSE AsSent(f, req[f])
  BY <1>1, <1>2, Acts
<1>4. call[f].op = "delete"
  BY <1>1, <1>3, PlainAsSent
<1> QED
  BY <1>2, <1>3, <1>4 DEF OrdinaryUploads, Called

LEMMA LastWrittenKept ==
  ASSUME NamesSurvive, OrdinaryUploads, Base, NEW f \in Flows, Step(f),
         NEW obj \in Objects, LastWritten(obj)
  PROVE  LastWritten(obj)'
<1>1. TypeOK /\ WroteOK(f) /\ Kept
  BY BaseParts, StepKept
<1>2. CASE GcsWrite(f)
  <2> DEFINE target == WriteTarget(req[f])
             v == VersionOf(req[f])
             w == [obj |-> target, version |-> v, over |-> store[target]]
  <2>1. /\ store' = [store EXCEPT ![target] = v]
        /\ wrote' = [wrote EXCEPT ![f] = w]
        /\ target \in Objects
    BY <1>2 DEF GcsWrite, Writable
  <2>2. wrote[f] = NoWrite
    BY <1>1, <1>2 DEF GcsWrite, Live, WroteOK
  <2>3. wrote'[f] = w /\ wrote'[f] # NoWrite
    <3>1. wrote'[f] = w
      BY <1>1, <2>1 DEF TypeOK
    <3>2. req[f] \in Requests /\ store[target] \in Versions \cup {Absent}
      BY <1>1, <2>1 DEF TypeOK
    <3>3. v \in Versions
      BY <3>2, VersionTyped
    <3>4. w \in Writes
      BY <2>1, <3>2, <3>3 DEF Writes
    <3> QED
      BY <3>1, <3>4, AbsenceAssumption
  <2>4. CASE obj = target
    <3>1. f \in Writers(obj)' /\ store'[obj] = wrote'[f].version
      BY <1>1, <2>1, <2>3, <2>4 DEF Writers, TypeOK
    <3> QED
      BY <3>1 DEF LastWritten
  <2>5. CASE obj # target
    <3>1. store'[obj] = store[obj]
      BY <1>1, <2>1, <2>5 DEF TypeOK
    <3>2. \A h \in Flows : h # f => wrote'[h] = wrote[h]
      BY <1>1, <2>1 DEF TypeOK
    <3>3. Writers(obj)' = Writers(obj) /\ f \notin Writers(obj)
      BY <2>2, <2>3, <2>5, <3>2 DEF Writers
    <3>4. \A h \in Writers(obj) : wrote'[h] = wrote[h]
      BY <3>2, <3>3 DEF Writers
    <3> QED
      BY <3>1, <3>3, <3>4 DEF LastWritten
  <2> QED
    BY <2>4, <2>5
<1>3. CASE ~GcsWrite(f)
  <2>1. store' = store /\ wrote' = wrote
    <3>1. CASE Send(f)
      BY <3>1 DEF Send, service
    <3>2. CASE ProxyStep(f)
      BY <3>2, ProxyStepFrame
    <3>3. CASE ServiceStep(f)
      BY <1>3, <3>3, NothingDeleted
         DEF ServiceStep, GcsOpenSession, GcsRead, GcsList, GcsRefuse,
             GcsUnavailable, UpstreamLost, OrphanDropped, service
    <3> QED
      BY <3>1, <3>2, <3>3 DEF Step
  <2> QED
    BY <2>1 DEF LastWritten, Writers
<1> QED
  BY <1>2, <1>3

(***************************************************************************)
(* Serving a read.                                                         *)
(***************************************************************************)
LEMMA FollowedWritten ==
  ASSUME NamesSurvive, OrdinaryUploads, Base, NEW f \in Flows, Follows(f)
  PROVE  Writers(<<call[f].bucket, call[f].name>>) # {}
<1>1. PICK g \in before[f] :
        Acked(g) /\ Intended(g) = <<call[f].bucket, call[f].name>>
  BY DEF Follows
<1>2. TypeOK
  BY BaseParts
<1>3. g \in Flows
  BY <1>2 DEF TypeOK
<1>4. wrote[g] # NoWrite /\ wrote[g].obj = Intended(g)
  BY <1>1, <1>3, AckedWrote, WriterParts
<1> QED
  BY <1>1, <1>3, <1>4 DEF Writers

LEMMA ReadAsSent ==
  ASSUME Base, NEW f \in Flows, Sent(f), call[f].op \in ReadOps, pc[f] \in Out
  PROVE  LET r == req[f]
         IN  /\ r.method = "GET" /\ r.path = PathOf(call[f])
             /\ r.query.alt = "media" <=> call[f].op = "download"
             /\ r.path[1] = "storage" /\ ~IsList(r)
             /\ UrlBucket(r) = call[f].bucket /\ UrlName(r) = call[f].name
<1> DEFINE c == call[f]
           r == req[f]
<1>1. RequestOK(f) /\ TypeOK /\ c \in Calls
  BY BaseParts DEF TypeOK, Sent
<1>2. ~Touched(f) /\ AsSent(f, r)
  BY <1>1 DEF RequestOK, Touched, ReadOps, UploadOps
<1>3. /\ RequestOf(c).method = "GET" /\ RequestOf(c).path = PathOf(c)
      /\ RequestOf(c).query = QueryOf(c)
  BY DEF RequestOf, MethodOf, ReadOps
<1>4. /\ r.method = "GET" /\ r.path = PathOf(c)
      /\ \/ r.query = QueryOf(c)
         \/ c.op = "fields" /\ r.query = [NoQuery EXCEPT !.alt = "json"]
  <2>1. CASE r = RequestOf(c)
    BY <1>3, <2>1
  <2>2. CASE /\ c.op = "fields"
             /\ r = [RequestOf(c) EXCEPT !.query =
                       [NoQuery EXCEPT !.alt = "json"]]
    BY <1>3, <2>2 DEF RequestOf
  <2> QED
    BY <1>2, <2>1, <2>2 DEF AsSent
<1>5. r.query.alt = "media" <=> c.op = "download"
  <2>1. QueryOf(c).alt = CASE c.op = "download" -> "media"
                           [] c.op = "stat"     -> "json"
                           [] OTHER             -> ""
    BY DEF QueryOf
  <2>2. QueryOf(c).alt = "media" <=> c.op = "download"
    BY <2>1 DEF ReadOps
  <2>3. [NoQuery EXCEPT !.alt = "json"].alt = "json"
    BY DEF NoQuery
  <2> QED
    BY <1>4, <2>2, <2>3
<1>6. r.path[1] = "storage"
  BY <1>1, <1>4, PathRoot DEF ReadOps, UploadPathOps
<1>7. ~IsList(r)
  BY <1>1, <1>4, ListsOnly DEF ReadOps
<1>8. UrlBucket(r) = c.bucket /\ UrlName(r) = c.name
  BY <1>1, <1>4, UrlParts DEF ReadOps, UploadPathOps
<1> QED
  BY <1>4, <1>5, <1>6, <1>7, <1>8

LEMMA ReadServed ==
  ASSUME Calm, NamesSurvive, OrdinaryUploads, Base, NEW f \in Flows,
         Follows(f), ServiceStep(f), pc'[f] \in {"answered", "keyed", "done"},
         LastWritten(<<call[f].bucket, call[f].name>>)
  PROVE  /\ pc'[f] = "answered" /\ UNCHANGED service
         /\ \E h \in Writers(<<call[f].bucket, call[f].name>>) :
              Shows(call[f].op, ans'[f], wrote[h].version)
<1> DEFINE c == call[f]
           r == req[f]
           obj == <<c.bucket, c.name>>
<1>1. TypeOK /\ Sent(f) /\ c \in Calls /\ c.op \in ReadOps /\ ~GcsFailures
  BY BaseParts DEF Follows, TypeOK, Sent, Calm
<1>2. ~UpstreamLost(f) /\ ~OrphanDropped(f) /\ ~GcsUnavailable(f)
  BY <1>1 DEF UpstreamLost, OrphanDropped, GcsUnavailable, TypeOK
<1>3. Live(f) /\ \E a : Reply(f, a)
  BY <1>2 DEF ServiceStep, GcsWrite, GcsOpenSession, GcsRead, GcsDelete,
              GcsList, GcsRefuse
<1>4. pc[f] = "forwarded" /\ pc'[f] = "answered"
  BY <1>1, <1>3 DEF Reply, Live, TypeOK
<1>5. /\ r.method = "GET"
      /\ r.query.alt = "media" <=> c.op = "download"
      /\ r.path[1] = "storage" /\ ~IsList(r)
      /\ UrlBucket(r) = c.bucket /\ UrlName(r) = c.name
  BY <1>1, <1>4, ReadAsSent DEF Out
<1>6. PICK h \in Writers(obj) : store[obj] = wrote[h].version
  BY FollowedWritten DEF LastWritten
<1>7. obj \in Objects /\ store[obj] \in Versions /\ store[obj] # Absent
  <2>1. obj \in Objects
    BY <1>1, CallParts DEF Objects
  <2>2. wrote[h] \in Writes
    BY <1>1 DEF Writers, TypeOK
  <2>3. wrote[h].version \in Versions
    BY <2>2 DEF Writes
  <2> QED
    BY <1>6, <2>1, <2>3, AbsenceAssumption
<1>8. Readable(r)
  BY <1>5, <1>7 DEF Readable
<1>9. GcsRead(f)
  <2>1. ~GcsWrite(f) /\ ~GcsOpenSession(f)
    BY <1>5 DEF GcsWrite, Writable, GcsOpenSession, OpensSession,
       StoresMultipart, StoresMedia, StoresXml, CompletesSession
  <2>2. ~GcsDelete(f) /\ ~GcsList(f) /\ ~GcsRefuse(f)
    BY <1>5, <1>8 DEF GcsDelete, GcsList, GcsRefuse
  <2> QED
    BY <1>2, <2>1, <2>2 DEF ServiceStep
<1>10. JsonForms = {"resource"}
  BY DEF JsonForms, Calm
<1> DEFINE v == store[obj]
           a == IF c.op = "download"
                THEN [Resource(v) EXCEPT !.form = "media", !.media = v.media]
                ELSE [Resource(v) EXCEPT !.form = "resource"]
<1>11. Reply(f, a)
  BY <1>5, <1>9, <1>10 DEF GcsRead
<1>12. ans'[f] = a
  BY <1>1, <1>4, <1>11 DEF Reply, TypeOK
<1>13. Shows(c.op, a, v)
  BY <1>7 DEF Shows, Resource, NoAnswer
<1> QED
  BY <1>4, <1>6, <1>9, <1>12, <1>13 DEF GcsRead

(***************************************************************************)
(* A download finds the key of whatever an upload stored: all uploads of   *)
(* the bucket were encrypted, under one key.                               *)
(***************************************************************************)
LEMMA KeyFound ==
  ASSUME Calm, NamesSurvive, OrdinaryUploads, Base, PutsAtHome,
         NEW f \in Flows, Follows(f), call[f].op = "download",
         NEW h \in Writers(<<call[f].bucket, call[f].name>>)
  PROVE  LET k == KeyOf(f, call[f].bucket)
             v == wrote[h].version
         IN  /\ k # NoKey /\ call[h].data \in Contents
             /\ v.media = [key |-> k, data |-> call[h].data]
             /\ v.stamp.key = k
<1> DEFINE b == call[f].bucket
           k == KeyOf(f, b)
           v == wrote[h].version
<1>1. h \in Flows /\ wrote[h] # NoWrite /\ wrote[h].obj = <<b, call[f].name>>
  BY DEF Writers
<1>2. /\ Sent(h) /\ call[h].op \in UploadOps /\ ~Spoilt(h)
      /\ call[h].data \in Contents /\ wrote[h].obj = Intended(h)
      /\ call[h].op = "put" => NamesSession(h)
  BY <1>1, WriterParts
<1>3. Sent(f) /\ k # NoKey /\ OneKey(b)
  BY DEF Follows, Intercepted
<1>4. call[h].bucket = b
  BY <1>1, <1>2 DEF Intended, PutsAtHome
<1>5. KeyOf(h, b) = k
  BY <1>1, <1>2, <1>3 DEF OneKey
<1>6. Intercepted(h)
  BY <1>2, <1>3, <1>4, <1>5 DEF Intercepted, Calm
<1>7. Retrievable(h)
  <2>1. StoredReadable
    BY BaseParts
  <2> QED
    BY <1>1, <1>2, <1>6, <2>1 DEF StoredReadable
<1>8. wrote[h].obj[1] = b
  BY <1>1
<1>9. /\ v.media = [key |-> k, data |-> call[h].data]
      /\ v.stamp = Stamp(k, call[h].data)
  BY <1>2, <1>5, <1>7, <1>8 DEF Retrievable
<1> QED
  BY <1>2, <1>3, <1>9 DEF Stamp

LEMMA KeyLookedUp ==
  ASSUME Calm, NamesSurvive, NamesUncut, OrdinaryUploads, Base, PutsAtHome,
         NEW f \in Flows, Follows(f), call[f].op = "download",
         LookupKey(f), LastWritten(<<call[f].bucket, call[f].name>>)
  PROVE  keyid'[f] = KeyOf(f, call[f].bucket)
<1> DEFINE c == call[f]
           obj == <<c.bucket, c.name>>
<1>1. TypeOK /\ Called(f) /\ Sent(f)
  BY BaseParts DEF Follows
<1>2. c \in Calls /\ c \in ClientCalls[f]
  BY <1>1 DEF TypeOK, Called, Sent
<1>3. req[f].path = ObjectPath(c.bucket, c.name)
  <2>1. pc[f] \in Out /\ c.op \in ReadOps
    BY DEF LookupKey, Out, ReadOps
  <2> QED
    BY <1>1, <2>1, ReadAsSent DEF PathOf
<1>4. /\ GetBucketNameFromRequestUri(req[f].path) = c.bucket
      /\ GetObjectNameFromRequestUri(req[f].path) = c.name
  <2>1. /\ c.bucket \in Segments /\ c.bucket # "o"
        /\ c.name \in Seq(Segments) /\ c.name # << >>
    BY <1>2, CallParts DEF Roots, NoName
  <2>2. \A i \in 2 .. Len(c.name) - 1 : c.name[i] # "o"
    BY <1>2 DEF NamesUncut
  <2> QED
    BY <1>3, <2>1, <2>2, ObjectBucket, ObjectName
<1>5. PICK h \in Writers(obj) : store[obj] = wrote[h].version
  BY FollowedWritten DEF LastWritten
<1>6. obj \in Objects /\ store[obj] # Absent
  <2>1. wrote[h] \in Writes
    BY <1>1 DEF Writers, TypeOK
  <2>2. wrote[h].version \in Versions
    BY <2>1 DEF Writes
  <2> QED
    BY <1>2, <1>5, <2>2, CallParts, AbsenceAssumption DEF Objects
<1>7. KeyInStore(f) = KeyOf(f, c.bucket)
  <2>1. wrote[h].version.stamp.key = KeyOf(f, c.bucket)
    BY KeyFound
  <2>2. KeyInStore(f) = StoredKey(c.bucket, c.name)
    BY <1>4 DEF KeyInStore
  <2>3. StoredKey(c.bucket, c.name) = store[obj].stamp.key
    BY <1>6 DEF StoredKey
  <2> QED
    BY <1>5, <2>1, <2>2, <2>3
<1>8. keyid' = [keyid EXCEPT ![f] = KeyInStore(f)]
  BY DEF LookupKey, GetObjectEncryptionKeyId, Calm
<1> QED
  BY <1>1, <1>7, <1>8 DEF TypeOK

(***************************************************************************)
(* Every step keeps what a read is to show.                                *)
(***************************************************************************)
LEMMA ShownStays ==
  ASSUME NamesSurvive, OrdinaryUploads, Base, Kept, NEW f \in Flows,
         call'[f] = call[f], NEW a,
         \E h \in Writers(<<call[f].bucket, call[f].name>>) :
           Shows(call[f].op, a, wrote[h].version)
  PROVE  \E h \in Writers(<<call[f].bucket, call[f].name>>)' :
           Shows(call[f].op, a, wrote'[h].version)
<1>1. PICK h \in Writers(<<call[f].bucket, call[f].name>>) :
        Shows(call[f].op, a, wrote[h].version)
  OBVIOUS
<1>2. /\ h \in Writers(<<call[f].bucket, call[f].name>>)'
      /\ wrote'[h] = wrote[h]
  BY WritersGrow
<1> QED
  BY <1>1, <1>2

LEMMA ContentStays ==
  ASSUME NamesSurvive, OrdinaryUploads, Base, Kept, NEW obj, NEW d,
         d \in {call[h].data : h \in Writers(obj)}
  PROVE  d \in {call'[h].data : h \in Writers(obj)'}
<1>1. PICK h \in Writers(obj) : d = call[h].data
  OBVIOUS
<1>2. h \in Writers(obj)' /\ call'[h] = call[h]
  BY WritersGrow
<1> QED
  BY <1>1, <1>2

LEMMA ReadFrame ==
  ASSUME NamesSurvive, OrdinaryUploads, Base, Kept, NEW f \in Flows, ReadOK(f),
         call'[f] = call[f], at'[f] = at[f], before'[f] = before[f],
         \/ pc'[f] \notin {"answered", "keyed", "done"}
         \/ pc'[f] = pc[f] /\ ans'[f] = ans[f] /\ keyid'[f] = keyid[f]
  PROVE  ReadOK(f)'
<1> DEFINE c == call[f]
           obj == <<c.bucket, c.name>>
<1> SUFFICES ASSUME Follows(f)', pc'[f] = pc[f], ans'[f] = ans[f],
                    keyid'[f] = keyid[f]
             PROVE  ReadOK(f)'
  BY DEF ReadOK
<1>1. Follows(f)
  <2>1. Sent(f)
    BY DEF Follows, Sent
  <2> QED
    BY <2>1, FollowsBefore
<1>2. pc[f] \in {"answered", "keyed"} =>
        \E h \in Writers(obj)' : Shows(c.op, ans[f], wrote'[h].version)
  BY <1>1, ShownStays DEF ReadOK
<1>3. KeyOf(f, c.bucket)' = KeyOf(f, c.bucket)
  BY DEF KeyOf
<1>4. /\ pc[f] = "keyed" /\ c.op = "download" =>
           keyid[f] = KeyOf(f, c.bucket)
      /\ pc[f] = "done" => /\ ans[f].status = "ok"
                           /\ Shown(f) \in {call[h].data : h \in Writers(obj)}
  BY <1>1 DEF ReadOK
<1>5. Shown(f)' = Shown(f)
  BY DEF Shown
<1>6. pc[f] = "done" => Shown(f) \in {call'[h].data : h \in Writers(obj)'}
  BY <1>4, ContentStays
<1>7. (pc[f] \in {"answered", "keyed"} =>
         \E h \in Writers(obj) : Shows(c.op, ans[f], wrote[h].version))'
  BY <1>2
<1>8. (pc[f] = "keyed" /\ c.op = "download" => keyid[f] = KeyOf(f, c.bucket))'
  BY <1>3, <1>4
<1>9. (pc[f] = "done" =>
         /\ ans[f].status = "ok"
         /\ Shown(f) \in {call[h].data : h \in Writers(obj)})'
  BY <1>4, <1>5, <1>6
<1> QED
  BY <1>7, <1>8, <1>9 DEF ReadOK

LEMMA OthersKey ==
  ASSUME TypeOK, NEW f \in Flows, Step(f), NEW g \in Flows, g # f
  PROVE  keyid'[g] = keyid[g]
<1>1. CASE Send(f)
  BY <1>1 DEF Send, local
<1>2. CASE ServiceStep(f)
  BY <1>2, ServiceStepFrame
<1>3. CASE ProxyStep(f)
  <2>1. CASE LookupKey(f)
    BY <2>1 DEF LookupKey, TypeOK
  <2>2. CASE ~LookupKey(f)
    BY <1>3, <2>2
       DEF ProxyStep, ForwardRequest, HandleMetadataRequest,
           HandleMultipartRequest, ConvertSinglePartUpload, ReadSession,
           ConvertPut, ForwardResponse, HandleUploadResponse,
           HandleMetadataResponse, HandleSimpleDownloadResponse,
           CreateSession, WriteSession, local
  <2> QED
    BY <2>1, <2>2
<1> QED
  BY <1>1, <1>2, <1>3 DEF Step

(* What the read that is over shows.                                       *)
LEMMA DownloadShown ==
  ASSUME Calm, NamesSurvive, OrdinaryUploads, Base, PutsAtHome,
         NEW f \in Flows, Follows(f), ReadOK(f), call[f].op = "download",
         HandleSimpleDownloadResponse(f)
  PROVE  /\ ans'[f].status = "ok"
         /\ ans'[f].media.data \in
              {call[h].data : h \in Writers(<<call[f].bucket, call[f].name>>)}
<1> DEFINE obj == <<call[f].bucket, call[f].name>>
           k == KeyOf(f, call[f].bucket)
<1>1. TypeOK /\ pc[f] = "keyed"
  BY BaseParts DEF HandleSimpleDownloadResponse
<1>2. /\ keyid[f] = k
      /\ \E h \in Writers(obj) : Shows("download", ans[f], wrote[h].version)
  BY <1>1 DEF ReadOK
<1>3. PICK h \in Writers(obj) : Shows("download", ans[f], wrote[h].version)
  BY <1>2
<1>4. /\ k # NoKey /\ call[h].data \in Contents
      /\ ans[f].media = [key |-> k, data |-> call[h].data]
      /\ ans[f].status = "ok"
  BY <1>3, KeyFound DEF Shows
<1>5. DecryptBytes(keyid[f], ans[f].media) = {call[h].data}
  BY <1>2, <1>4 DEF DecryptBytes, Calm
<1>6. call[h].data # NoContent
  BY <1>4, SentinelAssumption
<1>7. ans'[f] = [ans[f] EXCEPT !.media = Plain(call[h].data),
                               !.digest = call[h].data]
  <2>1. PICK d \in DecryptBytes(keyid[f], ans[f].media) :
          Finish(f, IF d = NoContent THEN Failed(ans[f])
                    ELSE [ans[f] EXCEPT !.media = Plain(d), !.digest = d])
    BY DEF HandleSimpleDownloadResponse
  <2>2. d = call[h].data
    BY <1>5, <2>1
  <2>3. Finish(f, [ans[f] EXCEPT !.media = Plain(d), !.digest = d])
    BY <1>6, <2>1, <2>2
  <2> QED
    BY <1>1, <2>2, <2>3 DEF Finish, TypeOK
<1>8. /\ ans'[f].status = ans[f].status
      /\ ans'[f].media.data = call[h].data
  <2>1. ans[f] \in Answers
    BY <1>1 DEF TypeOK
  <2> QED
    BY <1>7, <2>1 DEF Answers, Plain
<1> QED
  BY <1>4, <1>8

LEMMA DigestShown ==
  ASSUME Calm, NamesSurvive, OrdinaryUploads, Base,
         NEW f \in Flows, Follows(f), ReadOK(f), call[f].op # "download",
         HandleMetadataResponse(f)
  PROVE  /\ ans'[f].status = "ok"
         /\ ans'[f].digest \in
              {call[h].data : h \in Writers(<<call[f].bucket, call[f].name>>)}
<1> DEFINE obj == <<call[f].bucket, call[f].name>>
<1>1. TypeOK /\ pc[f] = "answered"
  BY BaseParts DEF HandleMetadataResponse
<1>2. PICK h \in Writers(obj) : Shows(call[f].op, ans[f], wrote[h].version)
  BY <1>1 DEF ReadOK
<1> DEFINE v == wrote[h].version
<1>3. /\ ans[f].status = "ok" /\ ans[f].form = "resource"
      /\ ans[f].stamp = v.stamp /\ ans[f].digest = MediaDigest(v.media)
  BY <1>2 DEF Shows
<1>4. ShownDigest(v.stamp, MediaDigest(v.media)) = call[h].data
  <2>1. h \in Flows /\ wrote[h] # NoWrite
    BY DEF Writers
  <2> QED
    BY <2>1, WriterParts DEF Truthful
<1>5. ans'[f] = IF ans[f].stamp.custom
                THEN [ans[f] EXCEPT !.digest = ans[f].stamp.digest]
                ELSE ans[f]
  BY <1>1, <1>3 DEF HandleMetadataResponse, Finish, IsJson, TypeOK
<1>6. /\ ans'[f].status = ans[f].status
      /\ ans'[f].digest = ShownDigest(ans[f].stamp, ans[f].digest)
  <2>1. ans[f] \in Answers
    BY <1>1 DEF TypeOK
  <2> QED
    BY <1>5, <2>1 DEF Answers, ShownDigest
<1> QED
  BY <1>3, <1>4, <1>6

LEMMA StepRead ==
  ASSUME Calm, NamesSurvive, NamesUncut, ReadsRouted, OrdinaryUploads,
         Base, PutsAtHome, NEW f \in Flows, Step(f), ReadOK(f),
         \A obj \in Objects : LastWritten(obj)
  PROVE  ReadOK(f)'
<1> DEFINE c == call[f]
           obj == <<c.bucket, c.name>>
<1>1. TypeOK /\ UploadInv /\ RequestOK(f) /\ AnswerOK(f) /\ Called(f) /\ Kept
  BY BaseParts, StepKept
<1>2. CASE Send(f)
  BY <1>1, <1>2 DEF Send, TypeOK, ReadOK
<1>3. CASE ~Send(f) /\ ~(Sent(f) /\ Follows(f))
  <2>1. call' = call /\ at' = at /\ before' = before
    BY <1>3, ProxyStepFrame, ServiceStepFrame DEF Step
  <2>2. Follows(f)' => Sent(f)
    BY <2>1 DEF Follows, Sent
  <2> QED
    BY <1>1, <1>3, <2>1, <2>2, FollowsBefore DEF ReadOK
<1>4. CASE /\ ~Send(f) /\ Sent(f) /\ Follows(f)
           /\ pc'[f] \notin {"answered", "keyed", "done"}
  BY <1>4 DEF ReadOK
<1>5. ASSUME ~Send(f), Sent(f), Follows(f),
             pc'[f] \in {"answered", "keyed", "done"}
      PROVE  ReadOK(f)'
  <2>1. /\ call' = call /\ at' = at /\ before' = before
        /\ c \in Calls /\ obj \in Objects /\ c.op \in ReadOps
    BY <1>1, <1>5, ProxyStepFrame, ServiceStepFrame, CallParts
       DEF Step, TypeOK, Sent, Objects, Follows
  <2>2. CASE ServiceStep(f)
    <3>1. /\ pc'[f] = "answered"
          /\ \E h \in Writers(obj) : Shows(c.op, ans'[f], wrote[h].version)
      BY <1>5, <2>1, <2>2, ReadServed
    <3>2. \E h \in Writers(obj)' : Shows(c.op, ans'[f], wrote'[h].version)
      BY <1>1, <2>1, <3>1, ShownStays
    <3> QED
      BY <2>1, <3>1, <3>2 DEF ReadOK
  <2>3. CASE ProxyStep(f)
    <3>1. CASE pc[f] \notin Answering
      <4>1. pc'[f] \in {"forwarded", "loaded"}
        BY <1>1, <2>3, <3>1
           DEF ProxyStep, Answering, ForwardRequest, HandleMetadataRequest,
               HandleMultipartRequest, ConvertSinglePartUpload, ReadSession,
               ConvertPut, Forward, TypeOK, ForwardResponse, LookupKey,
               HandleUploadResponse, HandleMetadataResponse, CreateSession,
               HandleSimpleDownloadResponse, WriteSession
      <4> QED
        BY <1>5, <4>1
    <3>2. ASSUME pc[f] \in Answering
          PROVE  Route(f) = IF c.op = "download" THEN "simpleDownload"
                            ELSE "metadataRequest"
      <4>1. Kind(f) = IF c.op = "download" THEN "read" ELSE "stat"
        BY <1>5, <2>1, Kinds DEF Follows, ReadOps
      <4>2. pc[f] \in Out
        BY <3>2 DEF Answering, Out
      <4> QED
        BY <1>1, <4>1, <4>2, RouteOfRead
    <3>3. CASE LookupKey(f)
      <4>1. /\ c.op = "download" /\ pc[f] = "answered" /\ pc'[f] = "keyed"
            /\ ans' = ans
        BY <1>1, <3>2, <3>3 DEF LookupKey, Answering, TypeOK
      <4>2. \E h \in Writers(obj) : Shows(c.op, ans[f], wrote[h].version)
        BY <1>5, <4>1 DEF ReadOK
      <4>3. \E h \in Writers(obj)' : Shows(c.op, ans[f], wrote'[h].version)
        BY <1>1, <2>1, <4>2, ShownStays
      <4>4. keyid'[f] = KeyOf(f, c.bucket)
        BY <1>5, <2>1, <3>3, <4>1, KeyLookedUp
      <4>5. KeyOf(f, c.bucket)' = KeyOf(f, c.bucket)
        BY <2>1 DEF KeyOf
      <4> QED
        BY <2>1, <4>1, <4>3, <4>4, <4>5 DEF ReadOK
    <3>4. ASSUME pc'[f] = "done", ans'[f].status = "ok",
                 Shown(f)' \in {call[h].data : h \in Writers(obj)}
          PROVE  ReadOK(f)'
      <4>1. Shown(f)' \in {call'[h].data : h \in Writers(obj)'}
        BY <1>1, <2>1, <3>4, ContentStays
      <4> QED
        BY <2>1, <3>4, <4>1 DEF ReadOK
    <3>5. CASE HandleSimpleDownloadResponse(f)
      <4>1. c.op = "download"
        BY <1>1, <3>2, <3>5
           DEF HandleSimpleDownloadResponse, AnswerOK, Answering
      <4>2. pc'[f] = "done"
        BY <1>1, <3>5 DEF HandleSimpleDownloadResponse, Finish, TypeOK
      <4>3. Shown(f)' = ans'[f].media.data
        BY <2>1, <4>1 DEF Shown
      <4> QED
        BY <1>5, <3>4, <3>5, <4>1, <4>2, <4>3, DownloadShown
    <3>6. CASE HandleMetadataResponse(f)
      <4>1. c.op # "download"
        BY <3>2, <3>6 DEF HandleMetadataResponse, Answering
      <4>2. pc'[f] = "done"
        BY <1>1, <3>6 DEF HandleMetadataResponse, Finish, TypeOK
      <4>3. Shown(f)' = ans'[f].digest
        BY <2>1, <4>1 DEF Shown
      <4> QED
        BY <1>5, <3>4, <3>6, <4>1, <4>2, <4>3, DigestShown
    <3>7. ASSUME pc[f] \in Answering
          PROVE  \/ LookupKey(f) \/ HandleSimpleDownloadResponse(f)
                 \/ HandleMetadataResponse(f)
      <4>1. /\ ~ForwardRequest(f) /\ ~HandleMetadataRequest(f)
            /\ ~HandleMultipartRequest(f) /\ ~ConvertSinglePartUpload(f)
            /\ ~ReadSession(f) /\ ~ConvertPut(f)
        BY <3>7 DEF Answering, ForwardRequest, HandleMetadataRequest,
           HandleMultipartRequest, ConvertSinglePartUpload, ReadSession,
           ConvertPut
      <4>2. /\ ~ForwardResponse(f) /\ ~HandleUploadResponse(f)
            /\ ~CreateSession(f)
        BY <3>2, <3>7 DEF ForwardResponse, HandleUploadResponse, CreateSession
      <4>3. ~WriteSession(f)
        BY <1>1, <3>2, <3>7 DEF WriteSession, AnswerOK
      <4> QED
        BY <2>3, <4>1, <4>2, <4>3 DEF ProxyStep
    <3> QED
      BY <3>1, <3>3, <3>5, <3>6, <3>7
  <2> QED
    BY <1>5, <2>2, <2>3 DEF Step
<1> QED
  BY <1>2, <1>3, <1>4, <1>5

LEMMA ReadNext ==
  ASSUME Calm, NamesSurvive, NamesUncut, ReadsRouted, OrdinaryUploads,
         Base, PutsAtHome, ReadInv, [Next]_vars
  PROVE  ReadInv'
<1>1. ASSUME NEW g \in Flows, Step(g)
      PROVE  ReadInv'
  <2>1. TypeOK /\ Kept
    BY <1>1, BaseParts, StepKept
  <2>2. ASSUME NEW obj \in Objects
        PROVE  LastWritten(obj)'
    BY <1>1, <2>2, LastWrittenKept DEF ReadInv
  <2>3. ASSUME NEW f \in Flows, f # g
        PROVE  ReadOK(f)'
    <3>1. /\ pc'[f] = pc[f] /\ ans'[f] = ans[f] /\ call'[f] = call[f]
          /\ at'[f] = at[f] /\ before'[f] = before[f]
      BY <1>1, <2>1, <2>3, StepFrame, OthersFrame DEF Step
    <3>2. keyid'[f] = keyid[f]
      BY <1>1, <2>1, <2>3, OthersKey
    <3> QED
      BY <2>1, <2>3, <3>1, <3>2, ReadFrame DEF ReadInv
  <2>4. ReadOK(g)'
    BY <1>1, StepRead DEF ReadInv
  <2> QED
    BY <2>2, <2>3, <2>4 DEF ReadInv
<1>2. ASSUME Kept, store' = store, wrote' = wrote,
             \A f \in Flows :
               /\ call'[f] = call[f] /\ at'[f] = at[f] /\ before'[f] = before[f]
               /\ \/ pc'[f] \notin {"answered", "keyed", "done"}
                  \/ /\ pc'[f] = pc[f] /\ ans'[f] = ans[f]
                     /\ keyid'[f] = keyid[f]
      PROVE  ReadInv'
  <2>1. ASSUME NEW obj \in Objects
        PROVE  LastWritten(obj)'
    BY <1>2 DEF ReadInv, LastWritten, Writers
  <2>2. ASSUME NEW f \in Flows
        PROVE  ReadOK(f)'
    BY <1>2, ReadFrame DEF ReadInv
  <2> QED
    BY <2>1, <2>2 DEF ReadInv
<1>3. ASSUME NEW i \in Instances, Crash(i)
      PROVE  ReadInv'
  <2>1. UNCHANGED <<store, bound, wrote, keyid, call, at, before>>
    BY <1>3 DEF Crash, service
  <2>2. Kept
    BY <2>1 DEF Kept, BoundKept
  <2>3. \A f \in Flows : \/ pc'[f] \notin {"answered", "keyed", "done"}
                         \/ pc'[f] = pc[f] /\ ans'[f] = ans[f]
    BY <1>3 DEF Crash
  <2> QED
    BY <1>2, <2>1, <2>2, <2>3
<1>4. CASE UNCHANGED vars
  <2>1. UNCHANGED <<store, bound, wrote, keyid, call, at, before, pc, ans>>
    BY <1>4 DEF vars, service, local, client
  <2>2. Kept
    BY <2>1 DEF Kept, BoundKept
  <2> QED
    BY <1>2, <2>1, <2>2
<1> QED
  BY <1>1, <1>3, <1>4 DEF Next, Rest, Step

(* In a calm run an object holds one upload whole, and every read that     *)
(* follows an acknowledged upload of its object is on its way with one     *)
(* upload whole and finds its key.  PutsAtHome is asked of every state,    *)
(* since it speaks of the URLs clients have put to.                        *)
THEOREM ReadsKept ==
  ASSUME Calm, NamesSurvive, NamesUncut, ReadsRouted, OrdinaryUploads
  PROVE  Spec /\ []PutsAtHome => []ReadInv
<1>1. Init => ReadInv /\ \A f \in Flows : Begun(f)
  BY DEF Init, ReadInv, LastWritten, Writers, ReadOK, Follows, Begun, Sent
<1>2. /\ StoreInv /\ StoreInv' /\ [Next]_vars /\ (\A f \in Flows : Begun(f))
      => (\A f \in Flows : Begun(f))'
  BY BegunKept DEF Base
<1>3. /\ StoreInv /\ (\A f \in Flows : Begun(f)) /\ PutsAtHome /\ ReadInv
      /\ [Next]_vars
      => ReadInv'
  BY ReadNext DEF Base
<1> QED
  BY <1>1, <1>2, <1>3, StoreInductive, PTL DEF Spec

(* A read sent after an acknowledged upload of the same object succeeds    *)
(* and shows the plaintext of some upload of it, in a calm run and however *)
(* it interleaves with uploads that replace the object.                    *)
THEOREM ReadsSeeWrites ==
  ASSUME Calm, NamesSurvive, NamesUncut, ReadsRouted, OrdinaryUploads
  PROVE  Spec /\ []PutsAtHome => []ReadYourWrites
<1>1. ReadInv => ReadYourWrites
  <2> SUFFICES ASSUME ReadInv, NEW f \in Flows, NEW g \in Flows,
                      Sent(f), call[f].op \in ReadOps, Intercepted(f),
                      OneKey(call[f].bucket) \/ call[f].op # "download",
                      pc[f] = "done", g \in before[f], Acked(g),
                      Intended(g) = <<call[f].bucket, call[f].name>>
               PROVE  /\ ans[f].status = "ok"
                      /\ Shown(f) \in
                           {call[h].data : h \in Writers(Intended(g))}
    BY DEF ReadYourWrites
  <2>1. Follows(f)
    BY DEF Follows
  <2> QED
    BY <2>1 DEF ReadInv, ReadOK
<1> QED
  BY <1>1, ReadsKept, PTL
=============================================================================
