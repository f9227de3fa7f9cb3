---------------------------- MODULE StoreRefinement --------------------------
(***************************************************************************)
(* The proxy and the service together implement EncryptedStore: to its     *)
(* clients, a service that holds ciphertexts behind any number of          *)
(* instances is a store of plaintext objects.                              *)
(***************************************************************************)
EXTENDS FlowInvariants

CONSTANTS NoAsk, Nothing, Refused

(* What is asked for by call c of an instance that encrypts its bucket, or *)
(* (inside = FALSE) one that does not: then a read promises nothing.       *)
KindOf(c, inside) ==
  CASE c.op \in UploadOps \cup {"xmlPut"}            -> "write"
    [] c.op \in {"download", "xmlGet"} /\ inside     -> "read"
    [] c.op \in {"stat", "fields"} /\ inside         -> "stat"
    [] c.op = "delete"                               -> "erase"
    [] c.op = "start"                                -> "open"
    [] OTHER                                         -> "other"

(* Preconditions survive a multipart upload only, see HandleMultipart and  *)
(* NewQuery.                                                               *)
AskOf(c, inside) ==
  [kind  |-> KindOf(c, inside),
   obj   |-> <<c.bucket, c.name>>,
   id    |-> IF c.op = "put" THEN c.id ELSE NoId,
   data  |-> c.data,
   fresh |-> c.ifAbsent /\ (c.op = "multipart" \/ ~inside),
   frail |-> \/ c.op = "put" /\ c.range = "none"
             \/ c.op = "multipart" /\ c.shape = "file"]

ClientAsks == {AskOf(c, inside) : c \in UNION {ClientCalls[f] : f \in Flows},
                                  inside \in BOOLEAN}

Kind(f) == KindOf(call[f], Intercepted(f))
AskFor(f) == IF Sent(f) THEN AskOf(call[f], Intercepted(f)) ELSE NoAsk

(* The plaintext of a stored version, and the digest its metadata shows.   *)
ViewOf(v) ==
  IF v = Absent THEN Absent
  ELSE [data   |-> v.media.data,
        digest |-> ShownDigest(v.stamp, MediaDigest(v.media))]

Succeeded(f) == ans[f].status = "ok"

PhaseOf(f) ==
  CASE pc[f] \in {"request", "loaded", "forwarded"} -> "open"
    [] pc[f] \in {"answered", "keyed", "created"} ->
         IF Succeeded(f) THEN "acted" ELSE "open"
    [] pc[f] = "orphaned" -> "adrift"
    [] pc[f] = "lost"     -> "gone"
    [] OTHER              -> pc[f]

(* What an exchange that acted did, whatever its answer looks like so far. *)
OutcomeOf(f) ==
  IF PhaseOf(f) # "acted" THEN Nothing
  ELSE CASE Kind(f) = "write" -> wrote[f].version.media.data
         [] Kind(f) = "read"  -> ans[f].media.data
         [] Kind(f) = "stat"  -> ShownDigest(ans[f].stamp, ans[f].digest)
         [] Kind(f) = "open"  -> ans[f].uploadId
         [] OTHER             -> Nothing

(* What the client is shown in the end: for a read, the bytes it was sent. *)
ReplyOf(f) ==
  IF pc[f] # "done" THEN Nothing
  ELSE IF ~Succeeded(f) THEN Refused
  ELSE CASE Kind(f) = "read" -> IF ans[f].media.key = NoKey
                                THEN ans[f].media.data ELSE CipherDigest
         [] Kind(f) \in {"write", "stat"} -> ans[f].digest
         [] Kind(f) = "open" -> ans[f].uploadId
         [] OTHER            -> Nothing

(* The state of EncryptedStore that a state of the proxy stands for.       *)
ObjectsView == [obj \in Objects |-> ViewOf(store[obj])]
PhaseView   == [f \in Flows |-> PhaseOf(f)]
AskView     == [f \in Flows |-> AskFor(f)]
OutcomeView == [f \in Flows |-> OutcomeOf(f)]
ReplyView   == [f \in Flows |-> ReplyOf(f)]

Store == INSTANCE EncryptedStore WITH
  Exchanges <- Flows, Ids <- UploadIds, Data <- Digests,
  Asks <- ClientAsks,
  objects  <- ObjectsView,
  sessions <- bound,
  phase    <- PhaseView,
  ask      <- AskView,
  outcome  <- OutcomeView,
  reply    <- ReplyView

ASSUME OutcomeAssumption ==
  /\ {Nothing, Refused} \cap (Digests \cup UploadIds) = {}
  /\ Nothing # Refused
  /\ Absent \notin [data : Digests, digest : Digests]
  /\ NoAsk \notin Store!AskType

(* Every exchange with the proxy takes effect at most once, between its    *)
(* request and its answer, on the plaintext of one object; an answer that  *)
(* is a success shows what it wrote or read, whatever failed on the way.   *)
StoreImplemented == Store!Spec
=============================================================================
