--------------------------- MODULE RefinementProofs --------------------------
(***************************************************************************)
(* The proxy and the service implement EncryptedStore, step by step, for   *)
(* any number of instances, flows, objects and crashes: no behaviour of    *)
(* theirs shows a client anything that a store of plaintext objects would  *)
(* not.  The invariant it rests on is ProxyInv, of SessionProofs.          *)
(*                                                                         *)
(* Two things are assumed of the calls clients make, because the code does *)
(* not keep the promise without them: that object names survive a query    *)
(* (NamesSurvive) and that reads are recognised as reads (ReadsRouted).    *)
(***************************************************************************)
EXTENDS SessionProofs, StoreRefinement

(***************************************************************************)
(* The view of one flow, and the views of all.                             *)
(***************************************************************************)
SameView(f) == /\ PhaseOf(f)' = PhaseOf(f) /\ OutcomeOf(f)' = OutcomeOf(f)
               /\ ReplyOf(f)' = ReplyOf(f) /\ AskFor(f)' = AskFor(f)

LEMMA ViewFrame ==
  ASSUME NEW f \in Flows, pc'[f] = pc[f], at'[f] = at[f], call'[f] = call[f],
         wrote'[f] = wrote[f], ans'[f] = ans[f]
  PROVE  SameView(f)
<1>1. Intercepted(f)' = Intercepted(f) /\ Sent(f)' = Sent(f)
  BY DEF Intercepted, Sent, KeyOf
<1>2. Kind(f)' = Kind(f)
  BY <1>1 DEF Kind
<1>3. Succeeded(f)' = Succeeded(f)
  BY DEF Succeeded
<1>4. PhaseOf(f)' = PhaseOf(f)
  BY <1>3 DEF PhaseOf
<1>5. OutcomeOf(f)' = OutcomeOf(f)
  BY <1>2, <1>4 DEF OutcomeOf
<1>6. ReplyOf(f)' = ReplyOf(f)
  BY <1>2, <1>3 DEF ReplyOf
<1>7. AskFor(f)' = AskFor(f)
  BY <1>1 DEF AskFor
<1> QED
  BY <1>4, <1>5, <1>6, <1>7 DEF SameView

(* A step of one flow changes the views at that flow only.                 *)
LEMMA OthersView ==
  ASSUME TypeOK, NEW f \in Flows, Step(f), NEW g \in Flows, g # f
  PROVE  SameView(g)
<1>1. /\ pc'[g] = pc[g] /\ at'[g] = at[g] /\ call'[g] = call[g]
      /\ wrote'[g] = wrote[g] /\ ans'[g] = ans[g]
  BY StepFrame, OthersFrame DEF Step
<1> QED
  BY <1>1, ViewFrame

LEMMA Moved ==
  ASSUME TypeOK, NEW f \in Flows, Step(f)
  PROVE  /\ PhaseView' = [PhaseView EXCEPT ![f] = PhaseOf(f)']
         /\ OutcomeView' = [OutcomeView EXCEPT ![f] = OutcomeOf(f)']
         /\ ReplyView' = [ReplyView EXCEPT ![f] = ReplyOf(f)']
         /\ AskView' = [AskView EXCEPT ![f] = AskFor(f)']
<1>1. ASSUME NEW g \in Flows, g # f
      PROVE  SameView(g)
  BY <1>1, OthersView
<1> QED
  BY <1>1 DEF SameView, PhaseView, OutcomeView, ReplyView, AskView

(* What does not change at f does not change at all.                       *)
LEMMA Unmoved ==
  ASSUME TypeOK, NEW f \in Flows, Step(f)
  PROVE  /\ PhaseOf(f)' = PhaseOf(f) => PhaseView' = PhaseView
         /\ OutcomeOf(f)' = OutcomeOf(f) => OutcomeView' = OutcomeView
         /\ ReplyOf(f)' = ReplyOf(f) => ReplyView' = ReplyView
         /\ AskFor(f)' = AskFor(f) => AskView' = AskView
BY Moved DEF PhaseView, OutcomeView, ReplyView, AskView

LEMMA ObjectsFrame ==
  store' = store => ObjectsView' = ObjectsView
BY DEF ObjectsView, ViewOf

LEMMA ObjectReplaced ==
  ASSUME TypeOK, NEW obj \in Objects, NEW v, store' = [store EXCEPT ![obj] = v]
  PROVE  ObjectsView' = [ObjectsView EXCEPT ![obj] = ViewOf(v)]
BY DEF TypeOK, ObjectsView, ViewOf

(***************************************************************************)
(* How the views move with the shapes a step may have.                     *)
(***************************************************************************)
LEMMA SameAsk ==
  ASSUME NEW f \in Flows, call'[f] = call[f], at'[f] = at[f]
  PROVE  /\ AskFor(f)' = AskFor(f) /\ Kind(f)' = Kind(f)
         /\ Intercepted(f)' = Intercepted(f)
BY DEF AskFor, Kind, Intercepted, Sent, KeyOf

(* An answer of the service that is a success is the one step in which the *)
(* exchange acts; the client of an orphan does not hear of it.             *)
LEMMA ReplyActs ==
  ASSUME TypeOK, NEW f \in Flows, ServiceStep(f), Live(f), NEW a, Reply(f, a),
         a.status = "ok", NEW v, pc[f] = "forwarded" => OutcomeOf(f)' = v
  PROVE  PhaseView[f] \in {"open", "adrift"} /\ Store!Act(f, v)
<1>1. Step(f)
  BY DEF Step
<1>2. /\ pc'[f] = IF pc[f] = "orphaned" THEN "lost" ELSE "answered"
      /\ pc[f] = "forwarded" => ans'[f] = a
      /\ call' = call /\ at' = at
  BY DEF Reply, Live, TypeOK, client
<1>3. /\ pc[f] = "forwarded" => PhaseOf(f) = "open" /\ PhaseOf(f)' = "acted"
      /\ pc[f] = "orphaned" => PhaseOf(f) = "adrift" /\ PhaseOf(f)' = "gone"
      /\ PhaseView[f] = PhaseOf(f)
  BY <1>2 DEF PhaseOf, Succeeded, PhaseView
<1>4. pc[f] \in {"forwarded", "orphaned"}
  BY DEF Live
<1>5. AskFor(f)' = AskFor(f)
  BY <1>2, SameAsk
<1>6. ReplyOf(f)' = ReplyOf(f)
  BY <1>2, <1>4 DEF ReplyOf
<1>7. pc[f] = "orphaned" => OutcomeOf(f)' = OutcomeOf(f)
  BY <1>3 DEF OutcomeOf
<1> QED
  BY <1>1, <1>3, <1>4, <1>5, <1>6, <1>7, Moved, Unmoved DEF Store!Act

(* Exchanges that break off, one or several at once.                       *)
BreaksOff(f) ==
  \/ PhaseOf(f)' = PhaseOf(f) /\ OutcomeOf(f)' = OutcomeOf(f)
  \/ /\ \/ PhaseOf(f) = "open" /\ PhaseOf(f)' = "adrift"
        \/ PhaseOf(f) \in {"open", "acted", "adrift"} /\ PhaseOf(f)' = "gone"
     /\ OutcomeOf(f)' = Nothing

LEMMA PhaseTyped ==
  ASSUME TypeOK', NEW f \in Flows
  PROVE  PhaseOf(f)' \in Store!Phases
<1>1. pc'[f] \in Progress
  BY DEF TypeOK
<1> QED
  BY <1>1 DEF PhaseOf, Progress, Store!Phases

LEMMA Breaks ==
  ASSUME TypeOK, TypeOK', UNCHANGED <<store, bound>>,
         \A f \in Flows : /\ BreaksOff(f) /\ ReplyOf(f)' = ReplyOf(f)
                          /\ AskFor(f)' = AskFor(f)
  PROVE  Store!Break
<1>1. PhaseView' \in [Flows -> Store!Phases]
  <2>1. \A f \in Flows : PhaseOf(f)' \in Store!Phases
    BY PhaseTyped
  <2> QED
    BY <2>1 DEF PhaseView
<1>2. \A f \in Flows :
         /\ PhaseView[f] = PhaseOf(f) /\ PhaseView'[f] = PhaseOf(f)'
         /\ OutcomeView[f] = OutcomeOf(f)
  BY DEF PhaseView, OutcomeView
<1>3. OutcomeView' = [f \in Flows |-> IF PhaseView'[f] = PhaseView[f]
                                      THEN OutcomeView[f] ELSE Nothing]
  BY <1>2 DEF BreaksOff, OutcomeView
<1>4. /\ ObjectsView' = ObjectsView /\ bound' = bound
      /\ AskView' = AskView /\ ReplyView' = ReplyView
  BY ObjectsFrame DEF AskView, ReplyView
<1> QED
  BY <1>1, <1>2, <1>3, <1>4 DEF Store!Break, BreaksOff

(***************************************************************************)
(* Reads are recognised as reads, before and after they are rewritten.     *)
(***************************************************************************)
Called(f) == Sent(f) => call[f] \in ClientCalls[f]

LEMMA Kinds ==
  ASSUME NEW f \in Flows, Sent(f), call[f] \in Calls
  PROVE  /\ Kind(f) = "write" <=> call[f].op \in WriteOps
         /\ Kind(f) = "read" <=> /\ call[f].op \in {"download", "xmlGet"}
                                 /\ Intercepted(f)
         /\ Kind(f) = "stat" <=> /\ call[f].op \in {"stat", "fields"}
                                 /\ Intercepted(f)
         /\ Kind(f) = "erase" <=> call[f].op = "delete"
         /\ Kind(f) = "open" <=> call[f].op = "start"
         /\ Kind(f) \in {"write", "read", "stat", "erase", "open", "other"}
BY DEF Kind, KindOf, WriteOps, UploadOps

LEMMA RouteOfRead ==
  ASSUME ReadsRouted, TypeOK, UploadInv, NEW f \in Flows, Called(f),
         RequestOK(f), pc[f] \in Out
  PROVE  /\ Kind(f) = "read" => Route(f) = "simpleDownload"
         /\ Kind(f) = "stat" => Route(f) = "metadataRequest"
<1> DEFINE c == call[f]
           r == req[f]
<1>1. Sent(f) /\ c \in Calls /\ c \in ClientCalls[f]
  BY DEF UploadInv, UploadOK, TypeOK, Called, Sent, Out
<1> SUFFICES ASSUME Kind(f) \in {"read", "stat"}
             PROVE  /\ Kind(f) = "read" => Route(f) = "simpleDownload"
                    /\ Kind(f) = "stat" => Route(f) = "metadataRequest"
  OBVIOUS
<1>2. /\ Intercepted(f) /\ c.op \in {"download", "xmlGet", "stat", "fields"}
      /\ Kind(f) = "read" <=> c.op \in {"download", "xmlGet"}
      /\ Kind(f) = "stat" <=> c.op \in {"stat", "fields"}
  BY <1>1, Kinds
<1>3. AsSent(f, r)
  <2>1. ~Touched(f)
    BY <1>2 DEF Touched, UploadOps
  <2> QED
    BY <2>1 DEF RequestOK
<1>4. /\ RequestOf(c) \in Requests
      /\ RequestOf(c).method = MethodOf(c) /\ RequestOf(c).path = PathOf(c)
      /\ RequestOf(c).query = QueryOf(c)
  BY <1>1, RequestIsRequest DEF RequestOf
<1>5. MethodOf(c) = "GET"
  BY <1>2 DEF MethodOf
<1>6. /\ r.method = "GET" /\ r.path = PathOf(c)
      /\ \/ r.query = QueryOf(c)
         \/ c.op = "fields" /\ r.query = [NoQuery EXCEPT !.alt = "json"]
  <2> DEFINE q == [NoQuery EXCEPT !.alt = "json"]
  <2> HIDE DEF q
  <2>1. CASE r = RequestOf(c)
    BY <1>4, <1>5, <2>1
  <2>2. CASE c.op = "fields" /\ r = [RequestOf(c) EXCEPT !.query = q]
    <3> DEFINE s == RequestOf(c)
    <3>1. s \in Requests /\ r = [s EXCEPT !.query = q]
      BY <1>4, <2>2
    <3> HIDE DEF s, r
    <3>2. r.query = q /\ r.method = s.method /\ r.path = s.path
      BY <3>1 DEF Requests
    <3> QED
      BY <1>4, <1>5, <2>2, <3>2 DEF s, q
  <2> QED
    BY <1>3, <2>1, <2>2 DEF AsSent, q
<1>7. /\ c.op \in {"download", "stat", "fields"} => c.name[Len(c.name)] # "o"
      /\ c.op = "xmlGet" => \A i \in 1 .. Len(c.name) - 1 : c.name[i] # "b"
  BY <1>1 DEF ReadsRouted, ReadOps
<1>8. /\ Route(f) = InterceptGcsMethod(Mapping[at[f]], r)
      /\ GetKMSKeyName(Mapping[at[f]], c.bucket) # NoKey
  BY <1>2 DEF Route, Intercepted, KeyOf
<1> HIDE DEF c, r
<1> QED
  BY <1>1, <1>2, <1>6, <1>7, <1>8, ReadRoute DEF c

(***************************************************************************)
(* The answer: a success shows what the exchange did.                      *)
(***************************************************************************)
LEMMA FinishAnswers ==
  ASSUME TypeOK, UploadInv, NEW f \in Flows, ProxyStep(f), AnswerOK(f)',
         pc[f] \in Answering, NEW a, Finish(f, a),
         a.status = "ok" =>
           /\ ans[f].status = "ok" /\ a.uploadId = ans[f].uploadId
           /\ Kind(f) = "read" => a.media = Plain(ans[f].media.data)
           /\ Kind(f) = "stat" =>
                a.digest = ShownDigest(ans[f].stamp, ans[f].digest)
  PROVE  Store!Answer(f) \/ Store!Fail(f)
<1>1. Step(f)
  BY DEF Step
<1>2. /\ pc'[f] = "done" /\ ans'[f] = a /\ call' = call /\ at' = at
      /\ store' = store /\ bound' = bound /\ wrote' = wrote
  BY DEF Finish, TypeOK, client, service
<1>3. /\ PhaseOf(f) = IF ans[f].status = "ok" THEN "acted" ELSE "open"
      /\ PhaseOf(f)' = "done" /\ PhaseView[f] = PhaseOf(f)
      /\ OutcomeView[f] = OutcomeOf(f)
  BY <1>2 DEF PhaseOf, Succeeded, PhaseView, OutcomeView, Answering
<1>4. OutcomeOf(f)' = Nothing
  BY <1>3 DEF OutcomeOf
<1>5. /\ AskFor(f)' = AskFor(f) /\ Kind(f)' = Kind(f)
      /\ ObjectsView' = ObjectsView
  BY <1>2, SameAsk, ObjectsFrame
<1>6. CASE a.status # "ok"
  <2>1. ReplyOf(f)' = Refused
    BY <1>2, <1>6 DEF ReplyOf, Succeeded
  <2>2. Store!Fail(f)
    BY <1>1, <1>2, <1>3, <1>4, <1>5, <2>1, Moved, Unmoved DEF Store!Fail
  <2> QED
    BY <2>2
<1>7. CASE a.status = "ok"
  <2>1. PhaseOf(f) = "acted" /\ Succeeded(f)'
    BY <1>2, <1>3, <1>7 DEF Succeeded
  <2>2. Sent(f) /\ call[f] \in Calls
    BY DEF UploadInv, UploadOK, TypeOK, Sent, Answering
  <2>3. Kind(f) = "write" => a.digest = wrote[f].version.media.data
    <3>1. Kind(f) = "write" => call'[f].op \in WriteOps
      BY <1>2, <2>2, Kinds
    <3> QED
      BY <1>2, <1>7, <3>1 DEF AnswerOK
  <2>4. ReplyOf(f)' = OutcomeOf(f)
    <3>1. CASE Kind(f) = "write"
      BY <1>2, <1>5, <2>1, <2>3, <3>1 DEF ReplyOf, OutcomeOf
    <3>2. CASE Kind(f) = "read"
      <4>1. a.media.key = NoKey /\ a.media.data = ans[f].media.data
        BY <1>7, <3>2 DEF Plain
      <4> QED
        BY <1>2, <1>5, <2>1, <3>2, <4>1 DEF ReplyOf, OutcomeOf
    <3>3. CASE Kind(f) = "stat"
      BY <1>2, <1>5, <1>7, <2>1, <3>3 DEF ReplyOf, OutcomeOf
    <3>4. CASE Kind(f) = "open"
      BY <1>2, <1>5, <1>7, <2>1, <3>4 DEF ReplyOf, OutcomeOf
    <3>5. CASE Kind(f) \notin {"write", "read", "stat", "open"}
      BY <1>2, <1>5, <2>1, <3>5 DEF ReplyOf, OutcomeOf
    <3> QED
      BY <3>1, <3>2, <3>3, <3>4, <3>5
  <2>5. Store!Answer(f)
    BY <1>1, <1>2, <1>3, <1>4, <1>5, <2>1, <2>4, Moved, Unmoved
       DEF Store!Answer
  <2> QED
    BY <2>5
<1> QED
  BY <1>6, <1>7

LEMMA ProxyStepImplements ==
  ASSUME ReadsRouted, TypeOK, UploadInv, NEW f \in Flows, ExchangeOK(f),
         AnswerOK(f)', Called(f), ProxyStep(f)
  PROVE  \/ Store!Answer(f) \/ Store!Fail(f)
         \/ UNCHANGED Store!vars
<1>1. Step(f)
  BY DEF Step
<1>2. RequestOK(f) /\ AnswerOK(f) /\ (pc[f] = "idle" => ans[f] = NoAnswer)
  BY DEF ExchangeOK, AnswerOK
<1>3. UNCHANGED <<store, bound, wrote, call, at>>
  BY ProxyStepFrame
<1>4. AskFor(f)' = AskFor(f) /\ ObjectsView' = ObjectsView /\ bound' = bound
  BY <1>3, SameAsk, ObjectsFrame
<1>5. ASSUME PhaseOf(f)' = PhaseOf(f), OutcomeOf(f)' = OutcomeOf(f),
             ReplyOf(f)' = ReplyOf(f)
      PROVE  UNCHANGED Store!vars
  BY <1>1, <1>4, <1>5, Unmoved DEF Store!vars
<1>6. ASSUME pc[f] \in {"request", "loaded"},
             pc'[f] \in {"request", "loaded", "forwarded"}
      PROVE  UNCHANGED Store!vars
  <2>1. PhaseOf(f) = "open" /\ PhaseOf(f)' = "open"
    BY <1>6 DEF PhaseOf
  <2>2. OutcomeOf(f) = Nothing /\ OutcomeOf(f)' = Nothing
    BY <2>1 DEF OutcomeOf
  <2>3. ReplyOf(f) = Nothing /\ ReplyOf(f)' = Nothing
    BY <1>6 DEF ReplyOf
  <2> QED
    BY <1>5, <2>1, <2>2, <2>3
<1>7. ASSUME pc[f] \in Answering, pc'[f] \in Answering, ans' = ans
      PROVE  UNCHANGED Store!vars
  <2>1. Kind(f)' = Kind(f) /\ Succeeded(f)' = Succeeded(f)
    BY <1>3, <1>7, SameAsk DEF Succeeded
  <2>2. PhaseOf(f)' = PhaseOf(f)
    BY <1>7, <2>1 DEF PhaseOf, Answering
  <2>3. OutcomeOf(f)' = OutcomeOf(f)
    BY <1>3, <1>7, <2>1, <2>2 DEF OutcomeOf
  <2>4. ReplyOf(f)' = ReplyOf(f)
    BY <1>7 DEF ReplyOf, Answering
  <2> QED
    BY <1>5, <2>2, <2>3, <2>4
<1>8. CASE \/ ForwardRequest(f) \/ HandleMetadataRequest(f)
           \/ HandleMultipartRequest(f) \/ ConvertSinglePartUpload(f)
           \/ ReadSession(f) \/ ConvertPut(f)
  <2>1. pc[f] \in {"request", "loaded"} /\ pc'[f] \in {"loaded", "forwarded"}
    <3>1. ASSUME NEW r, Forward(f, r) PROVE pc'[f] = "forwarded"
      BY <3>1 DEF Forward, TypeOK
    <3>2. CASE \/ ForwardRequest(f) \/ HandleMetadataRequest(f)
               \/ HandleMultipartRequest(f) \/ ConvertSinglePartUpload(f)
               \/ ConvertPut(f)
      <4>1. (\E r : Forward(f, r)) /\ pc[f] \in {"request", "loaded"}
        BY <3>2 DEF ForwardRequest, HandleMetadataRequest,
             HandleMultipartRequest, ConvertSinglePartUpload, ConvertPut
      <4> QED
        BY <3>1, <4>1
    <3>3. CASE ReadSession(f)
      <4>1. /\ pc[f] = "request"
            /\ \/ \E r : Forward(f, r)
               \/ pc' = [pc EXCEPT ![f] = "loaded"]
        BY <3>3 DEF ReadSession
      <4> QED
        BY <3>1, <4>1 DEF TypeOK
    <3> QED
      BY <1>8, <3>2, <3>3
  <2> QED
    BY <1>6, <2>1
<1>9. CASE LookupKey(f)
  <2>1. pc[f] = "answered" /\ pc'[f] = "keyed" /\ ans' = ans
    BY <1>9 DEF LookupKey, TypeOK
  <2> QED
    BY <1>7, <2>1 DEF Answering
<1>10. pc[f] \in Answering =>
         /\ Kind(f) = "read" => Route(f) = "simpleDownload"
         /\ Kind(f) = "stat" => Route(f) = "metadataRequest"
  BY <1>2, RouteOfRead DEF Answering, Out
<1>11. ans[f] \in Answers /\ Failed(ans[f]).status # "ok"
  BY DEF TypeOK, Failed, NoAnswer
<1>12. CASE ForwardResponse(f) \/ HandleUploadResponse(f)
  <2>1. /\ pc[f] \in Answering
        /\ Route(f) \notin {"simpleDownload", "metadataRequest"}
    BY <1>12 DEF ForwardResponse, HandleUploadResponse, Answering
  <2>2. PICK a : /\ Finish(f, a)
                 /\ \/ a = ans[f] \/ a = Failed(ans[f])
                    \/ a = [ans[f] EXCEPT !.digest = req[f].digest]
    BY <1>12 DEF ForwardResponse, HandleUploadResponse
  <2>3. a.status = "ok" => /\ ans[f].status = "ok"
                           /\ a.uploadId = ans[f].uploadId
    BY <1>11, <2>2 DEF Answers
  <2> QED
    BY <1>10, <2>1, <2>2, <2>3, FinishAnswers
<1>13. CASE HandleMetadataResponse(f)
  <2>1. pc[f] \in Answering /\ Route(f) = "metadataRequest"
    BY <1>13 DEF HandleMetadataResponse, Answering
  <2>2. PICK a :
          /\ Finish(f, a)
          /\ \/ a = Failed(ans[f])
             \/ a = IF ans[f].stamp.custom
                    THEN [ans[f] EXCEPT !.digest = ans[f].stamp.digest]
                    ELSE ans[f]
    BY <1>13 DEF HandleMetadataResponse
  <2>3. a.status = "ok" =>
          /\ ans[f].status = "ok" /\ a.uploadId = ans[f].uploadId
          /\ a.digest = ShownDigest(ans[f].stamp, ans[f].digest)
    BY <1>11, <2>2 DEF Answers, ShownDigest
  <2> QED
    BY <1>10, <2>1, <2>2, <2>3, FinishAnswers
<1>14. CASE HandleSimpleDownloadResponse(f)
  <2>1. pc[f] \in Answering /\ Route(f) = "simpleDownload"
    BY <1>2, <1>14 DEF HandleSimpleDownloadResponse, Answering, AnswerOK
  <2>2. PICK d \in DecryptBytes(keyid[f], ans[f].media) :
          Finish(f, IF d = NoContent THEN Failed(ans[f])
                    ELSE [ans[f] EXCEPT !.media = Plain(d), !.digest = d])
    BY <1>14 DEF HandleSimpleDownloadResponse
  <2> DEFINE a == IF d = NoContent THEN Failed(ans[f])
                  ELSE [ans[f] EXCEPT !.media = Plain(d), !.digest = d]
  <2>3. d # NoContent => d = ans[f].media.data
    BY <2>2 DEF DecryptBytes
  <2>4. a.status = "ok" =>
          /\ ans[f].status = "ok" /\ a.uploadId = ans[f].uploadId
          /\ a.media = Plain(ans[f].media.data)
    BY <1>11, <2>3 DEF Answers
  <2>5. Finish(f, a)
    BY <2>2
  <2> HIDE DEF a
  <2> QED
    BY <1>10, <2>1, <2>4, <2>5, FinishAnswers
<1>15. CASE CreateSession(f) \/ WriteSession(f)
  <2>1. pc[f] \in Answering /\ Route(f) = "resumableUploadPost"
    BY <1>2, <1>15 DEF CreateSession, WriteSession, Answering, AnswerOK
  <2>2. CASE \E a \in {ans[f], Failed(ans[f])} : Finish(f, a)
    <3>1. PICK a \in {ans[f], Failed(ans[f])} : Finish(f, a)
      BY <2>2
    <3>2. a.status = "ok" => a = ans[f]
      BY <1>11, <3>1
    <3> QED
      BY <1>10, <2>1, <3>1, <3>2, FinishAnswers
  <2>3. CASE pc' = [pc EXCEPT ![f] = "created"] /\ ans' = ans
    <3>1. pc'[f] = "created"
      BY <2>3 DEF TypeOK
    <3> QED
      BY <1>7, <2>1, <2>3, <3>1 DEF Answering
  <2> QED
    BY <1>15, <2>2, <2>3 DEF CreateSession, WriteSession
<1> QED
  BY <1>8, <1>9, <1>12, <1>13, <1>14, <1>15 DEF ProxyStep

(***************************************************************************)
(* Writes: what the service stores is what the client asked for, where it  *)
(* asked for it.                                                           *)
(***************************************************************************)
LEMMA UrlParts ==
  ASSUME NEW c \in Calls, c.op \notin UploadPathOps \cup {"list"},
         NEW r, r.path = PathOf(c)
  PROVE  UrlBucket(r) = c.bucket /\ UrlName(r) = c.name
<1> DEFINE b == c.bucket
           n == c.name
           p == r.path
<1>1. b \in Segments \ Roots /\ n \in Seq(Segments) /\ n # << >>
  BY CallParts DEF NoName
<1>2. /\ c.op \in {"xmlGet", "xmlPut"} => p = XmlPath(b, n)
      /\ c.op \notin {"xmlGet", "xmlPut"} => p = ObjectPath(b, n)
  BY DEF PathOf, UploadPathOps
<1>3. p[1] # "upload"
  BY <1>1, PathRoot DEF Roots
<1>4. ~IsUpload(r)
  BY <1>3 DEF IsUpload, UploadPath
<1>5. CASE c.op \in {"xmlGet", "xmlPut"}
  <2>1. /\ XmlPath(b, n)[1] = b
        /\ SubSeq(XmlPath(b, n), 2, Len(XmlPath(b, n))) = n
    BY <1>1, XmlPathParts
  <2>2. p[1] = b /\ SubSeq(p, 2, Len(p)) = n /\ b # "storage"
    BY <1>1, <1>2, <1>5, <2>1 DEF Roots
  <2> HIDE DEF b, n
  <2> QED
    BY <1>4, <2>2 DEF UrlBucket, UrlName, b, n
<1>6. CASE c.op \notin {"xmlGet", "xmlPut"}
  <2> DEFINE o == ObjectPath(b, n)
  <2>1. /\ o[1] = "storage" /\ o[4] = b /\ Len(o) = 5 + Len(n)
        /\ SubSeq(o, 6, Len(o)) = n
    <3>1. b \in Segments /\ n \in Seq(Segments)
      BY <1>1
    <3> QED
      BY <3>1, ObjectUrl
  <2>3. Len(n) \in Nat
    BY <1>1
  <2> HIDE DEF o
  <2>4. p = o
    BY <1>2, <1>6 DEF o
  <2>2. /\ p[1] = "storage" /\ p[4] = b /\ Len(p) > 4
        /\ SubSeq(p, 6, Len(p)) = n
    BY <2>1, <2>3, <2>4
  <2> HIDE DEF b, n
  <2> QED
    BY <1>4, <2>2 DEF UrlBucket, UrlName, b, n
<1> QED
  BY <1>5, <1>6

LEMMA WriteAsSent ==
  ASSUME NEW c \in Calls, Accepted(RequestOf(c))
  PROVE  LET r == RequestOf(c)
         IN  /\ VersionOf(r).media = Plain(c.data)
             /\ VersionOf(r).stamp = NoStamp
             /\ c.op # "put" => WriteTarget(r) = <<c.bucket, c.name>>
             /\ c.op = "put" => c.id # NoId /\ WriteTarget(r) = bound[c.id]
             /\ r.query.ifAbsent = c.ifAbsent
<1> DEFINE r == RequestOf(c)
<1>1. /\ r.method = MethodOf(c) /\ r.query = QueryOf(c) /\ r.body = BodyOf(c)
      /\ r.path = PathOf(c)
  BY DEF RequestOf
<1>2. /\ c.op \in WriteOps /\ VersionOf(r).stamp = NoStamp
      /\ IsUpload(r) <=> c.op \in UploadPathOps
      /\ c.bucket \in Buckets /\ c.bucket \in Segments \ Roots
      /\ c.name \in Seq(Segments) /\ c.name # NoName
  BY AcceptedCall, CallRoots, CallParts
<1>3. /\ c.op = "multipart" =>
           /\ BodyOf(c).meta = MetaOf(c) /\ BodyOf(c).form # "none"
      /\ c.op # "multipart" => BodyOf(c).meta = NoMeta /\ BodyOf(c).form = "raw"
      /\ BodyOf(c).media = Plain(c.data)
  BY <1>2 DEF BodyOf, WriteOps, UploadOps
<1>4. MetaOf(c).name = c.name /\ NoMeta.name = NoName
  BY DEF MetaOf, NoMeta
<1>5. /\ c.op = "media" => QueryOf(c).name = c.name
      /\ QueryOf(c).uploadId = c.id /\ QueryOf(c).ifAbsent = c.ifAbsent
  BY DEF QueryOf
<1>6. /\ c.op \in {"multipart", "media"} => MethodOf(c) = "POST"
      /\ c.op \in {"put", "xmlPut"} => MethodOf(c) = "PUT"
  BY DEF MethodOf
<1>7. VersionOf(r).media = Plain(c.data)
  <2>1. r.body.form # "none" /\ r.body.media = Plain(c.data)
    BY <1>1, <1>3
  <2>2. r.body # NoBody
    BY <2>1 DEF NoBody
  <2> HIDE DEF r
  <2> QED
    BY <2>1, <2>2 DEF VersionOf
<1>8. CASE c.op \in {"multipart", "media"}
  <2>1. r.path = UploadPath(c.bucket) /\ IsUpload(r) /\ UrlBucket(r) = c.bucket
    BY <1>1, <1>2, <1>8, UploadUrl DEF PathOf, UploadPathOps
  <2>2. UploadName(r) = c.name
    BY <1>1, <1>2, <1>3, <1>4, <1>5, <1>8 DEF UploadName
  <2>3. StoresMultipart(r) \/ StoresMedia(r)
    <3>1. r.method = "POST"
      BY <1>1, <1>6, <1>8
    <3> HIDE DEF r
    <3> QED
      BY <2>1, <3>1 DEF Accepted, StoresXml, CompletesSession, r
  <2>4. WriteTarget(r) = <<c.bucket, c.name>>
    BY <2>1, <2>2, <2>3 DEF WriteTarget
  <2> QED
    BY <1>1, <1>2, <1>5, <1>7, <1>8, <2>4
<1>9. CASE c.op = "put"
  <2>1. IsUpload(r) /\ r.method = "PUT"
    BY <1>1, <1>2, <1>6, <1>9 DEF UploadPathOps
  <2> HIDE DEF r
  <2>2. /\ ~StoresMultipart(r) /\ ~StoresMedia(r) /\ ~StoresXml(r)
    BY <2>1 DEF StoresMultipart, StoresMedia, StoresXml
  <2>3. CompletesSession(r)
    BY <2>2 DEF Accepted, r
  <2>4. WriteTarget(r) = bound[c.id] /\ c.id # NoId
    BY <1>1, <1>5, <2>2, <2>3 DEF WriteTarget, CompletesSession
  <2> QED
    BY <1>1, <1>2, <1>5, <1>7, <1>9, <2>4 DEF r
<1>10. CASE c.op = "xmlPut"
  <2>1. UrlBucket(r) = c.bucket /\ UrlName(r) = c.name
    BY <1>1, <1>10, UrlParts DEF UploadPathOps
  <2>2. ~IsUpload(r)
    BY <1>2, <1>10 DEF UploadPathOps
  <2> HIDE DEF r
  <2>5. WriteTarget(r) = <<c.bucket, c.name>>
    BY <2>1, <2>2 DEF WriteTarget, StoresMultipart, StoresMedia,
                      CompletesSession
  <2> QED
    BY <1>1, <1>2, <1>5, <1>7, <1>10, <2>5 DEF r
<1> QED
  BY <1>2, <1>8, <1>9, <1>10 DEF WriteOps, UploadOps

(* A request that is not rewritten and stores something is the client's.   *)
LEMMA AcceptedAsSent ==
  ASSUME NEW f \in Flows, call[f] \in Calls, AsSent(f, req[f]), Accepted(req[f])
  PROVE  req[f] = RequestOf(call[f])
<1> DEFINE s == RequestOf(call[f])
           q == [NoQuery EXCEPT !.alt = "json"]
<1>1. s \in Requests /\ s.method = MethodOf(call[f])
  BY RequestIsRequest DEF RequestOf
<1>2. ASSUME call[f].op = "fields", req[f] = [s EXCEPT !.query = q]
      PROVE  FALSE
  <2>1. s.method = "GET"
    BY <1>1, <1>2 DEF MethodOf
  <2> HIDE DEF s, q
  <2>2. req[f].method = "GET"
    BY <1>1, <1>2, <2>1 DEF Requests
  <2> QED
    BY <2>2 DEF Accepted, StoresMultipart, StoresMedia, StoresXml,
                CompletesSession
<1> QED
  BY <1>2 DEF AsSent

WriteFits(f) ==
  LET a == AskFor(f)
      v == VersionOf(req[f])
  IN  /\ Kind(f) = "write"
      /\ WriteTarget(req[f]) = IF a.id = NoId THEN a.obj ELSE bound[a.id]
      /\ a.fresh => req[f].query.ifAbsent
      /\ v.media.data \in {a.data} \cup (IF a.frail THEN {Empty} ELSE {})
      /\ Truthful(v)

LEMMA AskParts ==
  ASSUME NEW f \in Flows, Sent(f)
  PROVE  LET c == call[f]
             a == AskFor(f)
         IN  /\ a.kind = Kind(f) /\ a.obj = <<c.bucket, c.name>>
             /\ a.id = (IF c.op = "put" THEN c.id ELSE NoId) /\ a.data = c.data
             /\ a.fresh = (/\ c.ifAbsent
                           /\ c.op = "multipart" \/ ~Intercepted(f))
             /\ a.frail = Spoilt(f)
BY DEF AskFor, AskOf, Kind, Spoilt

LEMMA WriteFitsAsk ==
  ASSUME NamesSurvive, TypeOK, SessionInv, NEW f \in Flows, Sent(f),
         call[f] \in Calls, Accepted(req[f]),
         IF Touched(f) THEN Rewritten(f, req[f]) ELSE AsSent(f, req[f])
  PROVE  WriteFits(f)
<1> DEFINE c == call[f]
           r == req[f]
           a == AskFor(f)
           v == VersionOf(r)
<1>1. /\ a.obj = <<c.bucket, c.name>> /\ a.data = c.data
      /\ a.id = IF c.op = "put" THEN c.id ELSE NoId
      /\ a.fresh => c.ifAbsent /\ (c.op = "multipart" \/ ~Intercepted(f))
      /\ a.frail = Spoilt(f)
  BY AskParts
<1>2. CASE ~Touched(f)
  <2>1. r = RequestOf(c)
    BY <1>2, AcceptedAsSent
  <2>2. /\ c.op \in WriteOps
        /\ v.media = Plain(c.data) /\ v.stamp = NoStamp
        /\ c.op # "put" => WriteTarget(r) = <<c.bucket, c.name>>
        /\ c.op = "put" => c.id # NoId /\ WriteTarget(r) = bound[c.id]
        /\ r.query.ifAbsent = c.ifAbsent
    BY <2>1, AcceptedCall, WriteAsSent
  <2>3. Kind(f) = "write"
    BY <2>2, Kinds
  <2>4. v.media.data = c.data /\ Truthful(v)
    BY <2>2 DEF Truthful, ShownDigest, MediaDigest, Plain, NoStamp
  <2>5. WriteTarget(r) = IF a.id = NoId THEN a.obj ELSE bound[a.id]
    BY <1>1, <2>2
  <2> HIDE DEF r, v, a, c
  <2> QED
    BY <1>1, <2>2, <2>3, <2>4, <2>5 DEF WriteFits, r, v, a, c
<1>3. CASE Touched(f)
  <2>1. /\ Intercepted(f) /\ c.op \in UploadOps /\ Rewritten(f, r)
        /\ Kind(f) = "write"
    BY <1>3, Kinds DEF Touched, WriteOps
  <2>2. CASE c.op = "put" /\ r = Bodiless(RequestOf(c))
    <3> DEFINE s == RequestOf(c)
    <3>1. /\ s \in Requests /\ s.method = "PUT" /\ s.query.uploadId = c.id
          /\ s.range = c.range
      BY <2>2, PutRequest, RequestIsRequest DEF RequestOf
    <3>2. r = [s EXCEPT !.body = NoBody]
      BY <2>2 DEF Bodiless
    <3> HIDE DEF s, r
    <3>3. /\ r.method = "PUT" /\ r.query.uploadId = c.id /\ r.range = c.range
          /\ r.body = NoBody
      BY <3>1, <3>2 DEF Requests
    <3>4. r.body.form = "none"
      BY <3>3 DEF NoBody
    <3>5. /\ ~StoresMultipart(r) /\ ~StoresMedia(r) /\ ~StoresXml(r)
      BY <3>3, <3>4 DEF StoresMultipart, StoresMedia, StoresXml
    <3>6. CompletesSession(r) /\ c.id # NoId /\ c.range = "none"
      BY <3>3, <3>4, <3>5 DEF Accepted, CompletesSession, r
    <3>7. WriteTarget(r) = bound[c.id]
      BY <3>3, <3>5, <3>6 DEF WriteTarget
    <3>8. v.media = Plain(Empty) /\ v.stamp = NoStamp
      BY <3>3 DEF VersionOf, NoBody, NoMeta
    <3>9. v.media.data = Empty /\ Truthful(v)
      BY <3>8 DEF Truthful, ShownDigest, MediaDigest, Plain, NoStamp
    <3>10. Spoilt(f)
      BY <2>2, <3>6 DEF Spoilt
    <3>11. ~a.fresh
      BY <1>1, <2>1, <2>2
    <3>12. WriteTarget(r) = IF a.id = NoId THEN a.obj ELSE bound[a.id]
      BY <1>1, <2>2, <3>6, <3>7
    <3> HIDE DEF v, a, c
    <3> QED
      BY <1>1, <2>1, <3>9, <3>10, <3>11, <3>12 DEF WriteFits, r, v, a, c
  <2>3. CASE ~(c.op = "put" /\ r = Bodiless(RequestOf(c)))
    <3>1. /\ r.method = "POST" /\ r.query.uploadType = "multipart"
          /\ c.op = "multipart" => r.query.ifAbsent = c.ifAbsent
          /\ c.op = "put" => c.id # NoId
          /\ StoresMultipart(r) =>
               /\ <<UrlBucket(r), UploadName(r)>> = Landing(f)
               /\ v.media.data = Content(f) /\ Truthful(v)
      BY <2>1, <2>3 DEF Rewritten
    <3>2. StoresMultipart(r)
      BY <3>1 DEF Accepted, StoresMedia, StoresXml, CompletesSession
    <3>3. WriteTarget(r) = IF a.id = NoId THEN a.obj ELSE bound[a.id]
      <4>1. WriteTarget(r) = Landing(f)
        BY <3>1, <3>2 DEF WriteTarget
      <4>2. CASE c.op = "put"
        <5>1. bound[c.id] \in Objects
          BY <3>1, <4>2, SessionBound DEF NamesSession
        <5>2. /\ bound[c.id] = <<bound[c.id][1], bound[c.id][2]>>
              /\ bound[c.id][2] \in Names
          BY <5>1 DEF Objects
        <5>3. Landing(f) = bound[c.id]
          BY <4>2, <5>2 DEF Landing, NamesSurvive
        <5> QED
          BY <1>1, <3>1, <4>1, <4>2, <5>3
      <4>3. CASE c.op # "put"
        BY <1>1, <4>1, <4>3 DEF Landing
      <4> QED
        BY <4>2, <4>3
    <3>4. v.media.data \in {a.data} \cup (IF a.frail THEN {Empty} ELSE {})
      BY <1>1, <3>1, <3>2 DEF Content, Spoilt
    <3>5. a.fresh => r.query.ifAbsent
      BY <1>1, <2>1, <3>1
    <3> HIDE DEF r, v, a, c
    <3> QED
      BY <2>1, <3>1, <3>2, <3>3, <3>4, <3>5 DEF WriteFits, r, v, a
  <2> QED
    BY <2>2, <2>3
<1> QED
  BY <1>2, <1>3

LEMMA ViewTyped ==
  ASSUME NEW v \in Versions
  PROVE  /\ ViewOf(v) \in [data : Digests, digest : Digests]
         /\ ViewOf(v) # Absent /\ ViewOf(v).data = v.media.data
         /\ ViewOf(v).digest = ShownDigest(v.stamp, MediaDigest(v.media))
<1>1. v # Absent
  BY AbsenceAssumption
<1>2. v.media \in Media /\ v.stamp \in Stamps
  BY DEF Versions
<1>3. /\ v.media.data \in Digests
      /\ ShownDigest(v.stamp, MediaDigest(v.media)) \in Digests
  BY <1>2 DEF Media, Stamps, Digests, ShownDigest, MediaDigest
<1>4. ViewOf(v) = [data |-> v.media.data,
                   digest |-> ShownDigest(v.stamp, MediaDigest(v.media))]
  BY <1>1 DEF ViewOf
<1> QED
  BY <1>3, <1>4, OutcomeAssumption

LEMMA VersionTyped ==
  ASSUME NEW r \in Requests
  PROVE  VersionOf(r) \in Versions
<1>1. r.body.media \in Media /\ r.body.meta.stamp \in Stamps
  BY DEF Requests, Bodies, Metas
<1>2. Plain(Empty) \in Media
  BY EmptyAssumption DEF Plain, Media
<1> QED
  BY <1>1, <1>2 DEF VersionOf, Versions

LEMMA AskTyped ==
  ASSUME NEW f \in Flows, Sent(f), call[f] \in Calls
  PROVE  AskFor(f) \in Store!AskType /\ AskFor(f) # NoAsk
<1> DEFINE c == call[f]
           a == AskFor(f)
           k == KindOf(c, Intercepted(f))
           o == <<c.bucket, c.name>>
           id == IF c.op = "put" THEN c.id ELSE NoId
           fresh == c.ifAbsent /\ (c.op = "multipart" \/ ~Intercepted(f))
           frail == \/ c.op = "put" /\ c.range = "none"
                    \/ c.op = "multipart" /\ c.shape = "file"
<1>1. /\ c.bucket \in Buckets /\ c.name \in Names
      /\ c.data \in Contents \cup {NoContent}
      /\ c.id \in UploadIds \cup {NoId} /\ c.ifAbsent \in BOOLEAN
  BY CallParts
<1>2. k \in Store!Kinds
  BY DEF KindOf, Store!Kinds
<1>3. /\ o \in Objects /\ c.data \in Digests /\ id \in UploadIds \cup {NoId}
  BY <1>1 DEF Objects, Digests
<1>4. frail \in BOOLEAN /\ fresh \in BOOLEAN
  OBVIOUS
<1>5. a = [kind |-> k, obj |-> o, id |-> id, data |-> c.data,
           fresh |-> fresh, frail |-> frail]
  BY DEF AskFor, AskOf
<1> HIDE DEF a, k, o, id, fresh, frail
<1>6. a \in Store!AskType
  BY <1>2, <1>3, <1>4, <1>5 DEF Store!AskType
<1> QED
  BY <1>6, OutcomeAssumption DEF a

LEMMA Acts ==
  ASSUME TypeOK, UploadInv, NEW f \in Flows, Live(f), ServiceStep(f)
  PROVE  /\ Sent(f) /\ call[f] \in Calls /\ req[f] \in Requests
         /\ AskView[f] = AskFor(f) /\ AskFor(f) # NoAsk
         /\ AskFor(f).kind = Kind(f) /\ Kind(f)' = Kind(f)
         /\ AskFor(f).obj = <<call[f].bucket, call[f].name>>
         /\ <<call[f].bucket, call[f].name>> \in Objects
         /\ RequestOK(f) =>
              IF Touched(f) THEN Rewritten(f, req[f]) ELSE AsSent(f, req[f])
<1>1. Sent(f) /\ call[f] \in Calls /\ req[f] \in Requests
  BY DEF UploadInv, UploadOK, TypeOK, Live, Sent
<1>2. AskFor(f) # NoAsk /\ AskView[f] = AskFor(f)
  BY <1>1, AskTyped DEF AskView
<1>3. AskFor(f).kind = Kind(f)
  BY <1>1, AskParts
<1>4. AskFor(f).obj = <<call[f].bucket, call[f].name>>
  BY <1>1, AskParts
<1>5. Kind(f)' = Kind(f)
  BY ServiceStepFrame, SameAsk
<1>6. <<call[f].bucket, call[f].name>> \in Objects
  BY <1>1, CallParts DEF Objects
<1> QED
  BY <1>1, <1>2, <1>3, <1>4, <1>5, <1>6 DEF RequestOK, Out, Live

(* What the exchange of a step that replied did, in the terms of its kind. *)
LEMMA OutcomeShown ==
  ASSUME TypeOK, NEW f \in Flows, pc[f] = "forwarded", NEW a, Reply(f, a),
         a.status = "ok", Kind(f)' = Kind(f)
  PROVE  /\ Kind(f) = "write" => OutcomeOf(f)' = wrote'[f].version.media.data
         /\ Kind(f) = "read" => OutcomeOf(f)' = a.media.data
         /\ Kind(f) = "stat" => OutcomeOf(f)' = ShownDigest(a.stamp, a.digest)
         /\ Kind(f) = "open" => OutcomeOf(f)' = a.uploadId
         /\ Kind(f) \notin {"write", "read", "stat", "open"}
              => OutcomeOf(f)' = Nothing
<1>1. pc'[f] = "answered" /\ ans'[f] = a
  BY DEF Reply, TypeOK
<1>2. PhaseOf(f)' = "acted"
  BY <1>1 DEF PhaseOf, Succeeded
<1> QED
  BY <1>1, <1>2 DEF OutcomeOf

LEMMA WriteImplements ==
  ASSUME NamesSurvive, TypeOK, UploadInv, SessionInv, NEW f \in Flows,
         RequestOK(f), GcsWrite(f)
  PROVE  Store!Write(f)
<1> DEFINE a   == AskFor(f)
           r   == req[f]
           obj == WriteTarget(r)
           v   == VersionOf(r)
           d   == v.media.data
<1>1. ServiceStep(f) /\ Live(f) /\ Writable(r)
  BY DEF ServiceStep, GcsWrite
<1>2. Accepted(r) /\ obj \in Objects /\ (r.query.ifAbsent => store[obj] = Absent)
  BY <1>1 DEF Writable, Accepted
<1>3. WriteFits(f)
  BY <1>1, <1>2, Acts, WriteFitsAsk
<1>4. v \in Versions /\ v # Absent
  BY <1>1, Acts, VersionTyped, AbsenceAssumption
<1>5. PICK form \in JsonForms : Reply(f, [Resource(v) EXCEPT !.form = form])
  BY DEF GcsWrite
<1>6. [Resource(v) EXCEPT !.form = form].status = "ok"
  BY DEF Resource, NoAnswer
<1>7. wrote'[f].version = v /\ store' = [store EXCEPT ![obj] = v] /\ bound' = bound
  BY DEF GcsWrite, TypeOK
<1>8. pc[f] = "forwarded" => OutcomeOf(f)' = d
  BY <1>1, <1>3, <1>5, <1>6, <1>7, Acts, OutcomeShown DEF WriteFits
<1>9. PhaseView[f] \in {"open", "adrift"} /\ Store!Act(f, d)
  BY <1>1, <1>5, <1>6, <1>8, ReplyActs
<1>10. ObjectsView' = [ObjectsView EXCEPT ![obj] = [data |-> d, digest |-> d]]
  <2>1. ViewOf(v) = [data |-> d, digest |-> d]
    BY <1>3, <1>4 DEF ViewOf, WriteFits, Truthful
  <2> QED
    BY <1>2, <1>7, <2>1, ObjectReplaced
<1>11. Store!Acting(f, {"write"}) /\ AskView[f] = a
  BY <1>1, <1>3, <1>9, Acts DEF Store!Acting, WriteFits
<1>12. /\ Store!Target(a) = obj
       /\ a.fresh => ObjectsView[obj] = Absent
       /\ d \in {a.data} \cup (IF a.frail THEN {Empty} ELSE {})
  BY <1>2, <1>3 DEF Store!Target, WriteFits, ObjectsView, ViewOf
<1> HIDE DEF a, r, obj, v, d
<1> QED
  BY <1>2, <1>7, <1>9, <1>10, <1>11, <1>12 DEF Store!Write

(***************************************************************************)
(* The other steps of the service.                                         *)
(***************************************************************************)
LEMMA PlainAsSent ==
  ASSUME NEW f \in Flows, call[f] \in Calls,
         IF Touched(f) THEN Rewritten(f, req[f]) ELSE AsSent(f, req[f]),
         req[f].method \in {"GET", "DELETE"}
  PROVE  /\ req[f].method = MethodOf(call[f]) /\ req[f].path = PathOf(call[f])
         /\ call[f].op = "download" => req[f].query.alt = "media"
         /\ req[f].method = "DELETE" => call[f].op = "delete"
         /\ req[f].method = "GET" =>
              call[f].op \in {"download", "stat", "fields", "list", "xmlGet"}
<1> DEFINE c == call[f]
           s == RequestOf(c)
           q == [NoQuery EXCEPT !.alt = "json"]
<1>1. /\ s \in Requests /\ s.method = MethodOf(c) /\ s.path = PathOf(c)
      /\ s.query = QueryOf(c) /\ c.op \in Ops
  BY RequestIsRequest, CallParts DEF RequestOf
<1>2. c.op = "put" => s.method = "PUT"
  BY PutRequest
<1>3. c.op = "download" => s.query.alt = "media"
  <2>1. c.op = "download" => QueryOf(c).alt = "media"
    BY DEF QueryOf
  <2> QED
    BY <1>1, <2>1
<1>4. AsSent(f, req[f])
  <2>1. ASSUME c.op = "put", req[f] = Bodiless(s)
        PROVE  FALSE
    <3> HIDE DEF s
    <3>1. req[f].method = "PUT"
      BY <1>1, <1>2, <2>1 DEF Bodiless, Requests
    <3> QED
      BY <3>1
  <2>2. ~Rewritten(f, req[f])
    BY <2>1 DEF Rewritten
  <2> QED
    BY <2>2
<1>5. /\ req[f].method = s.method /\ req[f].path = s.path
      /\ c.op = "download" => req[f].query.alt = "media"
  <2> HIDE DEF s, q
  <2>1. CASE req[f] = s
    BY <1>3, <2>1
  <2>2. CASE c.op = "fields" /\ req[f] = [s EXCEPT !.query = q]
    <3>1. req[f].method = s.method /\ req[f].path = s.path
      BY <1>1, <2>2 DEF Requests
    <3> QED
      BY <2>2, <3>1
  <2> QED
    BY <1>4, <2>1, <2>2 DEF AsSent, s, q
<1>6. /\ MethodOf(c) = "DELETE" => c.op = "delete"
      /\ MethodOf(c) = "GET" =>
           c.op \in {"download", "stat", "fields", "list", "xmlGet"}
  BY <1>1 DEF MethodOf, Ops
<1> QED
  BY <1>1, <1>5, <1>6

LEMMA ListsOnly ==
  ASSUME NEW c \in Calls, NEW r, r.path = PathOf(c),
         c.op \in {"download", "stat", "fields", "list", "xmlGet"}
  PROVE  IsList(r) <=> c.op = "list"
<1>1. /\ c.bucket \in Buckets /\ c.bucket \in Segments \ Roots
      /\ c.name \in Seq(Segments) /\ c.name # << >>
  BY CallParts DEF NoName
<1>2. c.op = "list" => r.path = ListPath(c.bucket)
  BY DEF PathOf
<1>3. \A b \in Buckets : Len(ListPath(b)) = 5 /\ ListPath(b)[1] = "storage"
  BY DEF ListPath
<1>4. c.op \in {"download", "stat", "fields"} => Len(r.path) # 5
  <2> DEFINE k == Len(c.name)
             p == ObjectPath(c.bucket, c.name)
  <2>1. c.op \in {"download", "stat", "fields"} => r.path = p
    BY DEF PathOf
  <2>2. Len(p) = 5 + k
    <3>1. c.bucket \in Segments
      BY <1>1
    <3> QED
      BY <1>1, <3>1, ObjectPathParts
  <2>3. k \in Nat /\ k # 0
    BY <1>1
  <2> HIDE DEF k, p
  <2>4. Len(p) # 5
    BY <2>2, <2>3
  <2> QED
    BY <2>1, <2>4
<1>5. c.op = "xmlGet" => r.path[1] # "storage"
  BY <1>1, PathRoot DEF UploadPathOps, Roots
<1> QED
  BY <1>1, <1>2, <1>3, <1>4, <1>5 DEF IsList

LEMMA ReadImplements ==
  ASSUME TypeOK, UploadInv, NEW f \in Flows, RequestOK(f), GcsRead(f)
  PROVE  Store!Read(f) \/ Store!Other(f)
<1> DEFINE c   == call[f]
           r   == req[f]
           obj == <<c.bucket, c.name>>
           v   == store[obj]
           wantsMedia == r.query.alt = "media" \/ r.path[1] # "storage"
           answer(form) == IF wantsMedia
                           THEN [Resource(v) EXCEPT !.form = "media",
                                                    !.media = v.media]
                           ELSE [Resource(v) EXCEPT !.form = form]
<1>1. ServiceStep(f) /\ Live(f) /\ Readable(r) /\ r.method = "GET"
  BY DEF ServiceStep, GcsRead
<1>2. /\ c \in Calls /\ r.path = PathOf(c)
      /\ c.op \in {"download", "stat", "fields", "list", "xmlGet"}
      /\ c.op = "download" => r.query.alt = "media"
  BY <1>1, Acts, PlainAsSent
<1>3. c.op # "list"
  BY <1>1, <1>2, ListsOnly DEF Readable
<1>4. UrlBucket(r) = c.bucket /\ UrlName(r) = c.name
  BY <1>2, <1>3, UrlParts DEF UploadPathOps
<1>5. obj \in Objects /\ v # Absent /\ v \in Versions
  BY <1>1, <1>4 DEF Readable, TypeOK
<1>6. PICK form \in JsonForms : Reply(f, answer(form))
  BY <1>4 DEF GcsRead
<1> DEFINE a == answer(form)
<1>7. /\ a.status = "ok" /\ a.stamp = v.stamp
      /\ a.digest = MediaDigest(v.media)
      /\ wantsMedia => a.media = v.media
  BY DEF Resource, NoAnswer
<1>8. c.op \in {"download", "xmlGet"} => wantsMedia
  <2>1. c.op = "xmlGet" => r.path[1] = c.bucket /\ c.bucket # "storage"
    BY <1>2, PathRoot, CallParts DEF UploadPathOps, Roots
  <2> QED
    BY <1>2, <2>1
<1>9. /\ AskView[f] = AskFor(f) /\ AskFor(f) # NoAsk
      /\ AskFor(f).kind = Kind(f) /\ Kind(f)' = Kind(f)
      /\ AskFor(f).obj = obj /\ Sent(f)
  BY <1>1, Acts
<1>10. /\ Kind(f) \in {"read", "stat", "other"}
       /\ Kind(f) = "read" => c.op \in {"download", "xmlGet"}
  BY <1>2, <1>3, <1>9, Kinds DEF WriteOps, UploadOps
<1>11. /\ ObjectsView[obj] # Absent /\ ObjectsView[obj].data = v.media.data
       /\ ObjectsView[obj].digest = ShownDigest(v.stamp, MediaDigest(v.media))
  BY <1>5, ViewTyped DEF ObjectsView
<1>12. ObjectsView' = ObjectsView /\ bound' = bound
  BY ObjectsFrame DEF GcsRead, service
<1> HIDE DEF a
<1> DEFINE w == CASE Kind(f) = "read" -> v.media.data
                  [] Kind(f) = "stat" ->
                       ShownDigest(v.stamp, MediaDigest(v.media))
                  [] OTHER -> Nothing
<1>13. pc[f] = "forwarded" => OutcomeOf(f)' = w
  <2> SUFFICES ASSUME pc[f] = "forwarded" PROVE OutcomeOf(f)' = w
    OBVIOUS
  <2>1. Reply(f, a)
    BY <1>6 DEF a
  <2>2. CASE Kind(f) = "read"
    <3>1. OutcomeOf(f)' = a.media.data
      BY <1>7, <1>9, <2>1, <2>2, OutcomeShown
    <3> QED
      BY <1>7, <1>8, <1>10, <2>2, <3>1
  <2>3. CASE Kind(f) = "stat"
    <3>1. OutcomeOf(f)' = ShownDigest(a.stamp, a.digest)
      BY <1>7, <1>9, <2>1, <2>3, OutcomeShown
    <3> QED
      BY <1>7, <2>3, <3>1
  <2>4. CASE Kind(f) = "other"
    <3>1. OutcomeOf(f)' = Nothing
      BY <1>7, <1>9, <2>1, <2>4, OutcomeShown
    <3> QED
      BY <2>4, <3>1
  <2> QED
    BY <1>10, <2>2, <2>3, <2>4
<1>14. PhaseView[f] \in {"open", "adrift"} /\ Store!Act(f, w)
  <2>1. Reply(f, a)
    BY <1>6 DEF a
  <2> HIDE DEF w
  <2> QED
    BY <1>1, <1>7, <1>13, <2>1, ReplyActs
<1>15. CASE Kind(f) = "other"
  <2>1. w = Nothing
    BY <1>15
  <2>2. Store!Acting(f, {"other"})
    BY <1>9, <1>14, <1>15 DEF Store!Acting
  <2> HIDE DEF w
  <2> QED
    BY <1>12, <1>14, <2>1, <2>2 DEF Store!Other
<1>16. CASE Kind(f) \in {"read", "stat"}
  <2>1. w = IF AskView[f].kind = "read" THEN ObjectsView[AskView[f].obj].data
            ELSE ObjectsView[AskView[f].obj].digest
    BY <1>9, <1>11, <1>16
  <2>2. Store!Acting(f, {"read", "stat"})
    BY <1>9, <1>14, <1>16 DEF Store!Acting
  <2> HIDE DEF w
  <2> QED
    BY <1>9, <1>11, <1>12, <1>14, <2>1, <2>2 DEF Store!Read
<1> QED
  BY <1>10, <1>15, <1>16

LEMMA DeleteImplements ==
  ASSUME TypeOK, UploadInv, NEW f \in Flows, RequestOK(f), GcsDelete(f)
  PROVE  Store!Erase(f)
<1> DEFINE c   == call[f]
           r   == req[f]
           obj == <<c.bucket, c.name>>
           a   == [NoAnswer EXCEPT !.status = "ok"]
<1>1. /\ ServiceStep(f) /\ Live(f) /\ Readable(r) /\ r.method = "DELETE"
      /\ Reply(f, a)
  BY DEF ServiceStep, GcsDelete
<1>2. c \in Calls /\ r.path = PathOf(c) /\ c.op = "delete"
  BY <1>1, Acts, PlainAsSent
<1>3. UrlBucket(r) = c.bucket /\ UrlName(r) = c.name
  BY <1>2, UrlParts DEF UploadPathOps
<1>4. obj \in Objects /\ store[obj] # Absent /\ store[obj] \in Versions
  BY <1>1, <1>3 DEF Readable, TypeOK
<1>5. /\ AskView[f] = AskFor(f) /\ AskFor(f) # NoAsk
      /\ AskFor(f).kind = Kind(f) /\ Kind(f)' = Kind(f)
      /\ AskFor(f).obj = obj /\ Kind(f) = "erase"
  BY <1>1, <1>2, Acts, Kinds
<1>6. a.status = "ok"
  BY DEF NoAnswer
<1>7. store' = [store EXCEPT ![obj] = Absent] /\ bound' = bound
  BY <1>3 DEF GcsDelete
<1>8. /\ ObjectsView' = [ObjectsView EXCEPT ![obj] = Absent]
      /\ ObjectsView[obj] # Absent
  <2>1. ViewOf(Absent) = Absent
    BY DEF ViewOf
  <2>2. ObjectsView' = [ObjectsView EXCEPT ![obj] = ViewOf(Absent)]
    BY <1>4, <1>7, ObjectReplaced
  <2> QED
    BY <1>4, <2>1, <2>2, ViewTyped DEF ObjectsView
<1> HIDE DEF a, r, c
<1>9. pc[f] = "forwarded" => OutcomeOf(f)' = Nothing
  BY <1>1, <1>5, <1>6, OutcomeShown
<1>10. PhaseView[f] \in {"open", "adrift"} /\ Store!Act(f, Nothing)
  BY <1>1, <1>6, <1>9, ReplyActs
<1> HIDE DEF obj
<1> QED
  BY <1>5, <1>7, <1>8, <1>10 DEF Store!Erase, Store!Acting

LEMMA ListImplements ==
  ASSUME TypeOK, UploadInv, NEW f \in Flows, RequestOK(f), GcsList(f)
  PROVE  Store!Other(f)
<1> DEFINE c == call[f]
           r == req[f]
           a == [NoAnswer EXCEPT !.status = "ok", !.form = "resource"]
<1>1. /\ ServiceStep(f) /\ Live(f) /\ IsList(r) /\ r.method = "GET"
      /\ Reply(f, a)
  BY DEF ServiceStep, GcsList
<1>2. /\ c \in Calls /\ r.path = PathOf(c)
      /\ c.op \in {"download", "stat", "fields", "list", "xmlGet"}
  BY <1>1, Acts, PlainAsSent
<1>3. c.op = "list"
  BY <1>1, <1>2, ListsOnly
<1>4. /\ AskView[f] = AskFor(f) /\ AskFor(f) # NoAsk
      /\ AskFor(f).kind = Kind(f) /\ Kind(f)' = Kind(f) /\ Kind(f) = "other"
  BY <1>1, <1>2, <1>3, Acts, Kinds DEF WriteOps, UploadOps
<1>5. a.status = "ok"
  BY DEF NoAnswer
<1>6. ObjectsView' = ObjectsView /\ bound' = bound
  BY ObjectsFrame DEF GcsList, service
<1> HIDE DEF a, r, c
<1>7. pc[f] = "forwarded" => OutcomeOf(f)' = Nothing
  BY <1>1, <1>4, <1>5, OutcomeShown
<1>8. PhaseView[f] \in {"open", "adrift"} /\ Store!Act(f, Nothing)
  BY <1>1, <1>5, <1>7, ReplyActs
<1> QED
  BY <1>4, <1>6, <1>8 DEF Store!Other, Store!Acting

(* Only a resumable POST opens a session, for the object it names.         *)
LEMMA OpensAsSent ==
  ASSUME NEW f \in Flows, call[f] \in Calls,
         IF Touched(f) THEN Rewritten(f, req[f]) ELSE AsSent(f, req[f]),
         OpensSession(req[f])
  PROVE  /\ call[f].op = "start"
         /\ <<UrlBucket(req[f]), UploadName(req[f])>>
              = <<call[f].bucket, call[f].name>>
<1> DEFINE c == call[f]
           r == req[f]
           s == RequestOf(c)
           q == [NoQuery EXCEPT !.alt = "json"]
<1>1. /\ s \in Requests /\ s.method = MethodOf(c) /\ s.path = PathOf(c)
      /\ s.query = QueryOf(c) /\ s.body = BodyOf(c) /\ c.op \in Ops
      /\ c.bucket \in Buckets /\ c.bucket \in Segments /\ c.name # NoName
  BY RequestIsRequest, CallParts DEF RequestOf
<1>2. /\ IsUpload(r) /\ r.method = "POST" /\ r.query.uploadType = "resumable"
      /\ r.body.form \in {"none", "json", "nested"}
  BY DEF OpensSession
<1>3. r = s
  <2>1. ASSUME c.op = "put", r = Bodiless(s)
        PROVE  FALSE
    <3>1. s.method = "PUT"
      BY <2>1, PutRequest
    <3> HIDE DEF s
    <3>2. r.method = "PUT"
      BY <1>1, <2>1, <3>1 DEF Bodiless, Requests
    <3> QED
      BY <1>2, <3>2
  <2>2. ~Rewritten(f, r)
    BY <1>2, <2>1 DEF Rewritten
  <2>3. ASSUME r = [s EXCEPT !.query = q]
        PROVE  FALSE
    <3>1. q.uploadType = ""
      BY DEF NoQuery
    <3> HIDE DEF s, q
    <3>2. r.query = q
      BY <1>1, <2>3 DEF Requests
    <3> QED
      BY <1>2, <3>1, <3>2
  <2> QED
    BY <2>2, <2>3 DEF AsSent
<1>4. c.op = "start"
  <2>1. MethodOf(c) = "POST" /\ QueryOf(c).uploadType = "resumable"
    BY <1>1, <1>2, <1>3
  <2>2. c.op \in {"multipart", "media", "start"}
    BY <1>1, <2>1 DEF MethodOf
  <2>3. c.op \in {"multipart", "media"} => QueryOf(c).uploadType = c.op
    BY DEF QueryOf
  <2> QED
    BY <2>1, <2>2, <2>3
<1>5. UrlBucket(r) = c.bucket
  <2>1. r.path = UploadPath(c.bucket)
    BY <1>1, <1>3, <1>4 DEF PathOf
  <2> QED
    BY <1>1, <1>2, <2>1, UploadUrl
<1>6. UploadName(r) = c.name
  <2>1. MetaOf(c).name = c.name /\ NoMeta.name = NoName
    BY DEF MetaOf, NoMeta
  <2>2. c.shape # "none" => BodyOf(c).meta = MetaOf(c)
    BY <1>4 DEF BodyOf
  <2>3. c.shape = "none" => BodyOf(c).meta = NoMeta
    BY <1>4 DEF BodyOf, NoBody
  <2>4. c.shape = "none" => QueryOf(c).name = c.name
    BY <1>4 DEF QueryOf
  <2>5. r.body = BodyOf(c) /\ r.query = QueryOf(c)
    BY <1>1, <1>3
  <2> HIDE DEF r, s
  <2> QED
    BY <1>1, <2>1, <2>2, <2>3, <2>4, <2>5 DEF UploadName
<1> QED
  BY <1>4, <1>5, <1>6

LEMMA OpenImplements ==
  ASSUME TypeOK, UploadInv, NEW f \in Flows, RequestOK(f), GcsOpenSession(f)
  PROVE  Store!Open(f)
<1> DEFINE obj == <<call[f].bucket, call[f].name>>
<1>1. ServiceStep(f) /\ Live(f) /\ OpensSession(req[f])
  BY DEF ServiceStep, GcsOpenSession
<1>2. call[f].op = "start" /\ <<UrlBucket(req[f]), UploadName(req[f])>> = obj
  BY <1>1, Acts, OpensAsSent
<1>3. /\ AskView[f] = AskFor(f) /\ AskFor(f) # NoAsk
      /\ AskFor(f).kind = Kind(f) /\ Kind(f)' = Kind(f)
      /\ AskFor(f).obj = obj /\ Kind(f) = "open"
  BY <1>1, <1>2, Acts, Kinds
<1>4. PICK id \in FreeIds :
        /\ bound' = [bound EXCEPT ![id] =
                       <<UrlBucket(req[f]), UploadName(req[f])>>]
        /\ Reply(f, [NoAnswer EXCEPT !.status = "ok", !.form = "session",
                                     !.uploadId = id])
  BY DEF GcsOpenSession
<1> DEFINE a == [NoAnswer EXCEPT !.status = "ok", !.form = "session",
                                 !.uploadId = id]
<1>5. a.status = "ok" /\ a.uploadId = id /\ Reply(f, a)
  BY <1>4 DEF NoAnswer
<1>6. id \in UploadIds /\ bound[id] = NoObject
  BY <1>4 DEF FreeIds
<1>7. ObjectsView' = ObjectsView
  BY ObjectsFrame DEF GcsOpenSession
<1>8. bound' = [bound EXCEPT ![id] = obj]
  BY <1>2, <1>4
<1> HIDE DEF a, obj
<1>9. pc[f] = "forwarded" => OutcomeOf(f)' = id
  BY <1>3, <1>5, OutcomeShown
<1>10. PhaseView[f] \in {"open", "adrift"} /\ Store!Act(f, id)
  BY <1>1, <1>5, <1>9, ReplyActs
<1> QED
  BY <1>3, <1>6, <1>7, <1>8, <1>10 DEF Store!Open, Store!Acting

(* Answers that are not a success, and connections that break.             *)
LEMMA BreakImplements ==
  ASSUME TypeOK, TypeOK', NEW f \in Flows, ServiceStep(f),
         UNCHANGED <<store, bound>>, BreaksOff(f), ReplyOf(f)' = ReplyOf(f)
  PROVE  Store!Break
<1>1. Step(f)
  BY DEF Step
<1>2. AskFor(f)' = AskFor(f)
  BY ServiceStepFrame, SameAsk
<1>3. ASSUME NEW g \in Flows, g # f
      PROVE  /\ BreaksOff(g) /\ ReplyOf(g)' = ReplyOf(g)
             /\ AskFor(g)' = AskFor(g)
  BY <1>1, <1>3, OthersView DEF SameView, BreaksOff
<1> QED
  BY <1>2, <1>3, Breaks

LEMMA FailureImplements ==
  ASSUME TypeOK, TypeOK', NEW f \in Flows,
         \/ GcsRefuse(f) \/ GcsUnavailable(f)
         \/ UpstreamLost(f) \/ OrphanDropped(f)
  PROVE  Store!Break
<1>1. ServiceStep(f)
  BY DEF ServiceStep
<1>2. UNCHANGED <<store, bound>>
  BY DEF GcsRefuse, GcsUnavailable, UpstreamLost, OrphanDropped, service
<1>3. CASE GcsRefuse(f) \/ GcsUnavailable(f)
  <2>1. Live(f) /\ \E a : Reply(f, a) /\ a.status # "ok"
    <3>1. CASE GcsUnavailable(f)
      <4>1. NoAnswer.status # "ok"
        BY DEF NoAnswer
      <4> QED
        BY <3>1, <4>1 DEF GcsUnavailable
    <3>2. CASE GcsRefuse(f)
      <4>1. PICK form : Reply(f, [NoAnswer EXCEPT !.status = "refused",
                                                  !.form = form])
        BY <3>2 DEF GcsRefuse
      <4>2. [NoAnswer EXCEPT !.status = "refused", !.form = form].status # "ok"
        BY DEF NoAnswer
      <4> QED
        BY <3>2, <4>1, <4>2 DEF GcsRefuse
    <3> QED
      BY <1>3, <3>1, <3>2
  <2>2. /\ pc[f] = "forwarded" => pc'[f] = "answered" /\ ans'[f].status # "ok"
        /\ pc[f] = "orphaned" => pc'[f] = "lost"
        /\ pc[f] \in {"forwarded", "orphaned"}
    BY <2>1 DEF Reply, Live, TypeOK
  <2>3. /\ pc[f] = "forwarded" => PhaseOf(f) = "open" /\ PhaseOf(f)' = "open"
        /\ pc[f] = "orphaned" => PhaseOf(f) = "adrift" /\ PhaseOf(f)' = "gone"
    BY <2>2 DEF PhaseOf, Succeeded
  <2>4. OutcomeOf(f) = Nothing /\ OutcomeOf(f)' = Nothing
    BY <2>2, <2>3 DEF OutcomeOf
  <2>5. BreaksOff(f) /\ ReplyOf(f)' = ReplyOf(f)
    BY <2>2, <2>3, <2>4 DEF BreaksOff, ReplyOf
  <2> QED
    BY <1>1, <1>2, <2>5, BreakImplements
<1>4. CASE UpstreamLost(f) \/ OrphanDropped(f)
  <2>1. \/ pc[f] = "forwarded" /\ pc'[f] = "orphaned"
        \/ pc[f] \in {"answered", "orphaned"} /\ pc'[f] = "lost"
    BY <1>4 DEF UpstreamLost, OrphanDropped, TypeOK
  <2>2. \/ PhaseOf(f) = "open" /\ PhaseOf(f)' = "adrift"
        \/ /\ PhaseOf(f) \in {"open", "acted", "adrift"}
           /\ PhaseOf(f)' = "gone"
    BY <2>1 DEF PhaseOf
  <2>3. OutcomeOf(f)' = Nothing
    BY <2>2 DEF OutcomeOf
  <2>4. ReplyOf(f)' = ReplyOf(f)
    BY <2>1 DEF ReplyOf
  <2>5. BreaksOff(f)
    BY <2>2, <2>3 DEF BreaksOff
  <2> QED
    BY <1>1, <1>2, <2>4, <2>5, BreakImplements
<1> QED
  BY <1>3, <1>4

LEMMA CrashImplements ==
  ASSUME TypeOK, TypeOK', UploadInv, NEW i \in Instances, Crash(i)
  PROVE  Store!Break
<1>1. UNCHANGED <<store, bound>>
  BY DEF Crash, service
<1>2. ASSUME NEW f \in Flows
      PROVE  /\ BreaksOff(f) /\ ReplyOf(f)' = ReplyOf(f)
             /\ AskFor(f)' = AskFor(f)
  <2>1. call'[f] = call[f] /\ at'[f] = at[f] /\ wrote'[f] = wrote[f]
    BY DEF Crash, service
  <2>2. CASE pc'[f] = pc[f] /\ ans'[f] = ans[f]
    BY <2>1, <2>2, ViewFrame DEF SameView, BreaksOff
  <2>3. CASE pc'[f] # pc[f]
    <3>1. /\ pc[f] \in Progress \ {"idle", "done", "lost", "orphaned"}
          /\ pc'[f] = IF pc[f] = "forwarded" THEN "orphaned" ELSE "lost"
      <4>1. pc[f] = "idle" => at[f] # i
        BY AbsenceAssumption DEF UploadInv, UploadOK
      <4>2. pc[f] \in Progress
        BY DEF TypeOK
      <4> QED
        BY <2>3, <4>1, <4>2 DEF Crash
    <3>2. \/ PhaseOf(f) = "open" /\ PhaseOf(f)' = "adrift"
          \/ /\ PhaseOf(f) \in {"open", "acted", "adrift"}
             /\ PhaseOf(f)' = "gone"
      BY <3>1 DEF PhaseOf, Progress
    <3>3. OutcomeOf(f)' = Nothing
      BY <3>2 DEF OutcomeOf
    <3>4. ReplyOf(f)' = ReplyOf(f)
      BY <3>1 DEF ReplyOf
    <3> QED
      BY <2>1, <3>2, <3>3, <3>4, SameAsk DEF BreaksOff
  <2>4. pc'[f] = pc[f] => ans'[f] = ans[f]
    BY DEF Crash
  <2> QED
    BY <2>2, <2>3, <2>4
<1> QED
  BY <1>1, <1>2, Breaks

LEMMA SendImplements ==
  ASSUME TypeOK, NEW f \in Flows, Send(f)
  PROVE  Store!Submit(f)
<1>1. Step(f)
  BY DEF Step
<1>2. PICK c \in ClientCalls[f] : call' = [call EXCEPT ![f] = c]
  BY DEF Send
<1>3. /\ pc[f] = "idle" /\ pc'[f] = "request"
      /\ call'[f] = c /\ c # NoCall
      /\ UNCHANGED <<store, bound>>
  <2>1. c \in Calls
    BY FlowAssumption
  <2>2. c # NoCall
    BY <2>1, AbsenceAssumption
  <2> QED
    BY <1>2, <2>2 DEF Send, TypeOK, service
<1>4. PhaseOf(f) = "idle" /\ PhaseOf(f)' = "open" /\ PhaseView[f] = "idle"
  BY <1>3 DEF PhaseOf, PhaseView
<1>5. OutcomeOf(f)' = OutcomeOf(f) /\ ReplyOf(f)' = ReplyOf(f)
  BY <1>3, <1>4 DEF OutcomeOf, ReplyOf
<1>6. AskFor(f)' \in ClientAsks
  <2>1. Intercepted(f)' \in BOOLEAN
    BY DEF Intercepted
  <2>2. AskFor(f)' = AskOf(c, Intercepted(f)')
    BY <1>3 DEF AskFor, Sent
  <2> QED
    BY <2>1, <2>2 DEF ClientAsks
<1>7. ObjectsView' = ObjectsView
  BY <1>3, ObjectsFrame
<1> QED
  BY <1>1, <1>3, <1>4, <1>5, <1>6, <1>7, Moved, Unmoved DEF Store!Submit

(***************************************************************************)
(* The theorems.  A call a flow is for is one its client may make.         *)
(***************************************************************************)
CallsMade == \A f \in Flows : Called(f)
StoreInv  == ProxyInv /\ CallsMade

LEMMA CallsKept ==
  ASSUME TypeOK, CallsMade, [Next]_vars
  PROVE  CallsMade'
<1>1. ASSUME NEW f \in Flows, Step(f) \/ call' = call
      PROVE  CallsMade'
  <2>1. CASE call' = call
    BY <2>1 DEF CallsMade, Called, Sent
  <2>2. CASE Send(f)
    BY <2>2 DEF Send, CallsMade, Called, Sent, TypeOK
  <2>3. CASE ProxyStep(f) \/ ServiceStep(f)
    <3>1. call' = call
      BY <2>3, ProxyStepFrame, ServiceStepFrame
    <3> QED
      BY <2>1, <3>1
  <2> QED
    BY <1>1, <2>1, <2>2, <2>3 DEF Step
<1>2. CASE call' = call
  BY <1>2 DEF CallsMade, Called, Sent
<1>3. CASE \E i \in Instances : Crash(i)
  BY <1>2, <1>3 DEF Crash
<1>4. CASE UNCHANGED vars
  BY <1>2, <1>4 DEF vars, client
<1> QED
  BY <1>1, <1>3, <1>4 DEF Next, Rest, Step

LEMMA StoreInductive == Spec => []StoreInv
<1>1. Init => StoreInv
  BY ProxyInit DEF Init, StoreInv, CallsMade, Called, Sent
<1>2. StoreInv /\ [Next]_vars => StoreInv'
  <2>1. ProxyInv => TypeOK
    BY DEF ProxyInv, IInv
  <2> QED
    BY <2>1, ProxyNext, CallsKept DEF StoreInv
<1> QED
  BY <1>1, <1>2, PTL DEF Spec

LEMMA StepImplements ==
  ASSUME NamesSurvive, ReadsRouted, StoreInv, StoreInv', [Next]_vars
  PROVE  [Store!Next]_Store!vars
<1>1. /\ TypeOK /\ TypeOK' /\ UploadInv /\ SessionInv
      /\ \A f \in Flows :
           RequestOK(f) /\ ExchangeOK(f) /\ AnswerOK(f)' /\ Called(f)
  BY DEF StoreInv, ProxyInv, IInv, ExchangeInv, ExchangeOK, CallsMade
<1>2. ASSUME NEW f \in Flows, Send(f)
      PROVE  Store!Next
  BY <1>1, <1>2, SendImplements DEF Store!Next
<1>3. ASSUME NEW f \in Flows, ProxyStep(f)
      PROVE  Store!Next \/ UNCHANGED Store!vars
  BY <1>1, <1>3, ProxyStepImplements DEF Store!Next
<1>4. ASSUME NEW f \in Flows, ServiceStep(f)
      PROVE  Store!Next
  <2>1. CASE GcsWrite(f)
    BY <1>1, <2>1, WriteImplements DEF Store!Next
  <2>2. CASE GcsOpenSession(f)
    BY <1>1, <2>2, OpenImplements DEF Store!Next
  <2>3. CASE GcsRead(f)
    BY <1>1, <2>3, ReadImplements DEF Store!Next
  <2>4. CASE GcsDelete(f)
    BY <1>1, <2>4, DeleteImplements DEF Store!Next
  <2>5. CASE GcsList(f)
    BY <1>1, <2>5, ListImplements DEF Store!Next
  <2>6. CASE \/ GcsRefuse(f) \/ GcsUnavailable(f)
             \/ UpstreamLost(f) \/ OrphanDropped(f)
    BY <1>1, <2>6, FailureImplements DEF Store!Next
  <2> QED
    BY <1>4, <2>1, <2>2, <2>3, <2>4, <2>5, <2>6 DEF ServiceStep
<1>5. ASSUME NEW i \in Instances, Crash(i)
      PROVE  Store!Next
  BY <1>1, <1>5, CrashImplements DEF Store!Next
<1>6. CASE UNCHANGED vars
  <2>1. \A f \in Flows : SameView(f)
    BY <1>6, ViewFrame DEF vars, service, client
  <2>2. ObjectsView' = ObjectsView /\ bound' = bound
    BY <1>6, ObjectsFrame DEF vars, service
  <2>3. UNCHANGED Store!vars
    BY <2>1, <2>2 DEF Store!vars, SameView, PhaseView, AskView, OutcomeView,
                      ReplyView
  <2> QED
    BY <2>3
<1> QED
  BY <1>2, <1>3, <1>4, <1>5, <1>6 DEF Next, Rest

LEMMA InitImplements == Init => Store!Init
<1> SUFFICES ASSUME Init PROVE Store!Init
  OBVIOUS
<1>1. TypeOK
  BY InitTyped
<1>2. ObjectsView \in [Objects -> [data : Digests, digest : Digests]
                                    \cup {Absent}]
  <2>1. ASSUME NEW obj \in Objects
        PROVE  ViewOf(store[obj]) \in [data : Digests, digest : Digests]
                                        \cup {Absent}
    <3>1. CASE store[obj] = Absent
      BY <3>1 DEF ViewOf
    <3>2. CASE store[obj] \in Versions
      BY <3>2, ViewTyped
    <3> QED
      BY <1>1, <3>1, <3>2 DEF TypeOK
  <2> QED
    BY <2>1 DEF ObjectsView
<1>3. ASSUME NEW f \in Flows
      PROVE  /\ PhaseOf(f) = "idle" /\ OutcomeOf(f) = Nothing
             /\ ReplyOf(f) = Nothing /\ AskFor(f) = NoAsk
  <2>1. pc[f] = "idle" /\ ~Sent(f)
    BY DEF Init, Sent
  <2>2. PhaseOf(f) = "idle"
    BY <2>1 DEF PhaseOf
  <2> QED
    BY <2>1, <2>2 DEF OutcomeOf, ReplyOf, AskFor
<1>4. bound = [id \in UploadIds |-> NoObject]
  BY DEF Init
<1> QED
  BY <1>2, <1>3, <1>4 DEF Store!Init, PhaseView, OutcomeView, ReplyView, AskView

(* The proxy implements the store of plaintext objects: each exchange      *)
(* takes effect at most once, on the object its client meant, with the     *)
(* plaintext it sent; and a success tells the client what it did, whatever *)
(* instances die, connections break, disks, KMS or service fail, and       *)
(* however exchanges interleave.                                           *)
THEOREM Implemented ==
  ASSUME NamesSurvive, ReadsRouted
  PROVE  Spec => StoreImplemented
<1>1. StoreInv /\ StoreInv' /\ [Next]_vars => [Store!Next]_Store!vars
  BY StepImplements
<1> QED
  BY <1>1, InitImplements, StoreInductive, PTL
     DEF Spec, StoreImplemented, Store!Spec

(* A read ends in the handler that decrypts, or in an error.               *)
LEMMA ReadsDecrypted ==
  ASSUME ReadsRouted, TypeOK, UploadInv, NEW f \in Flows, ExchangeOK(f),
         Called(f), Step(f), Kind(f) = "read", pc'[f] = "done",
         ans'[f].status = "ok"
  PROVE  ans'[f].media.key = NoKey
<1>1. RequestOK(f) /\ AnswerOK(f)
  BY DEF ExchangeOK
<1>2. ~Send(f) /\ ~ServiceStep(f)
  <2>1. ASSUME Send(f) PROVE FALSE
    BY <2>1 DEF Send, TypeOK
  <2>2. ASSUME NEW a, Reply(f, a), Live(f) PROVE FALSE
    BY <2>2 DEF Reply, TypeOK
  <2>3. ASSUME ServiceStep(f) PROVE FALSE
    <3>1. CASE UpstreamLost(f) \/ OrphanDropped(f)
      BY <3>1 DEF UpstreamLost, OrphanDropped, TypeOK
    <3>2. CASE \/ GcsWrite(f) \/ GcsOpenSession(f) \/ GcsRead(f)
               \/ GcsDelete(f) \/ GcsList(f) \/ GcsRefuse(f)
               \/ GcsUnavailable(f)
      <4>1. Live(f) /\ \E a : Reply(f, a)
        BY <3>2 DEF GcsWrite, GcsOpenSession, GcsRead, GcsDelete, GcsList,
                    GcsRefuse, GcsUnavailable
      <4> QED
        BY <2>2, <4>1
    <3> QED
      BY <2>3, <3>1, <3>2 DEF ServiceStep
  <2> QED
    BY <2>1, <2>3
<1>3. ASSUME NEW r, Forward(f, r) PROVE FALSE
  BY <1>3 DEF Forward, TypeOK
<1>4. pc[f] \in Answering => Route(f) = "simpleDownload"
  BY <1>1, RouteOfRead DEF Answering, Out
<1>5. HandleSimpleDownloadResponse(f)
  <2>1. ~LookupKey(f) /\ ~ReadSession(f)
    BY <1>3 DEF LookupKey, ReadSession, TypeOK
  <2>2. /\ ~ForwardRequest(f) /\ ~HandleMetadataRequest(f)
        /\ ~HandleMultipartRequest(f) /\ ~ConvertSinglePartUpload(f)
        /\ ~ConvertPut(f)
    BY <1>3 DEF ForwardRequest, HandleMetadataRequest, HandleMultipartRequest,
                ConvertSinglePartUpload, ConvertPut
  <2>3. /\ ~ForwardResponse(f) /\ ~HandleUploadResponse(f)
        /\ ~HandleMetadataResponse(f) /\ ~CreateSession(f)
    BY <1>4 DEF ForwardResponse, HandleUploadResponse, HandleMetadataResponse,
                CreateSession, Answering
  <2>4. ~WriteSession(f)
    BY <1>1, <1>4 DEF WriteSession, Answering, AnswerOK
  <2> QED
    BY <1>2, <2>1, <2>2, <2>3, <2>4 DEF Step, ProxyStep
<1>6. PICK d \in DecryptBytes(keyid[f], ans[f].media) :
        Finish(f, IF d = NoContent THEN Failed(ans[f])
                  ELSE [ans[f] EXCEPT !.media = Plain(d), !.digest = d])
  BY <1>5 DEF HandleSimpleDownloadResponse
<1>7. ans'[f] = IF d = NoContent THEN Failed(ans[f])
                ELSE [ans[f] EXCEPT !.media = Plain(d), !.digest = d]
  BY <1>6 DEF Finish, TypeOK
<1>8. Failed(ans[f]).status # "ok"
  BY DEF Failed, NoAnswer
<1>9. ans[f] \in Answers /\ Plain(d).key = NoKey
  BY DEF TypeOK, Plain
<1> QED
  BY <1>7, <1>8, <1>9 DEF Answers

(* No client of an instance that encrypts is served ciphertext, over       *)
(* either API, whatever was stored and whatever fails; given that its      *)
(* reads are recognised as reads.                                          *)
THEOREM PlaintextServed ==
  ASSUME ReadsRouted
  PROVE  Spec => []NeverServesCiphertext
<1> DEFINE Reads(f) == /\ pc[f] = "done" /\ Intercepted(f)
                       /\ call[f].op \in {"download", "xmlGet"}
                       /\ ans[f].status = "ok"
<1>1. Init => NeverServesCiphertext
  BY DEF Init, NeverServesCiphertext
<1>2. StoreInv /\ NeverServesCiphertext /\ [Next]_vars => NeverServesCiphertext'
  <2> SUFFICES ASSUME StoreInv, NeverServesCiphertext, [Next]_vars,
                      NEW g \in Flows, Reads(g)'
               PROVE  ans'[g].media.key = NoKey
    BY DEF NeverServesCiphertext
  <2>1. /\ TypeOK /\ UploadInv /\ ExchangeOK(g) /\ Called(g)
    BY DEF StoreInv, ProxyInv, IInv, ExchangeInv, ExchangeOK, CallsMade
  <2>2. ASSUME pc'[g] = pc[g], ans'[g] = ans[g], call'[g] = call[g],
               at'[g] = at[g]
        PROVE  ans'[g].media.key = NoKey
    BY <2>2, SameAsk DEF NeverServesCiphertext
  <2>3. ASSUME NEW f \in Flows, Step(f), g # f
        PROVE  ans'[g].media.key = NoKey
    BY <2>1, <2>2, <2>3, StepFrame, OthersFrame DEF Step
  <2>4. ASSUME Step(g)
        PROVE  ans'[g].media.key = NoKey
    <3>1. ~Send(g)
      BY <2>1 DEF Send, TypeOK
    <3>2. call' = call /\ at' = at
      BY <2>4, <3>1, ProxyStepFrame, ServiceStepFrame DEF Step
    <3>3. Intercepted(g) /\ call[g].op \in {"download", "xmlGet"}
      BY <3>2, SameAsk
    <3>4. Kind(g) = "read"
      BY <2>1, <3>3, Kinds DEF Intercepted, Sent, TypeOK
    <3> QED
      BY <2>1, <2>4, <3>4, ReadsDecrypted
  <2>5. ASSUME NEW i \in Instances, Crash(i)
        PROVE  ans'[g].media.key = NoKey
    <3>1. pc'[g] = pc[g] /\ ans'[g] = ans[g]
      BY <2>5 DEF Crash
    <3> QED
      BY <2>2, <2>5, <3>1 DEF Crash
  <2>6. CASE UNCHANGED vars
    BY <2>2, <2>6 DEF vars, client
  <2> QED
    BY <2>3, <2>4, <2>5, <2>6 DEF Next, Rest, Step
<1> QED
  BY <1>1, <1>2, StoreInductive, PTL DEF Spec
=============================================================================
