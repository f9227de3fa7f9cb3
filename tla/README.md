# TLA+ models of go-gcsproxy

go-gcsproxy is a man-in-the-middle proxy in front of Google Cloud Storage. It
encrypts what is uploaded to the buckets of its key mapping and decrypts what is
downloaded from them, so that a client, the service and the key management
service (KMS) need not know of it. This directory holds models of the proxy,
TLC runs that check them on small instances, and theorems about them that TLAPS
proves for every instance. Line numbers below are those of `src/`.

## 1. The system

### Components

| component | state | operations | modelled in |
|---|---|---|---|
| addons, `proxy/gcs-proxy.go` | none of its own; the method of a request is computed twice, on the request and on the answer | `EncryptGcsPayload.Request`, `DecryptGcsPayload.Response`, `InterceptGcsMethod` | `Routing`, `ProxyFlow` |
| multipart upload, `handlers/handle-multipart-upload.go` | the flow's request | parse, encrypt, stamp, restore; replace the digest in the answer | `ProxyFlow` |
| single-part upload, `handlers/handle-singlepart-upload.go` | the flow's request | conversion to a multipart upload | `ProxyFlow` |
| resumable upload, `handlers/handle-resumable-upload.go` | `/tmp/go-gcsproxy-<id>.json` of the instance | POST request and answer, `StoreResumableData`, PUT request and answer, `GetResumableData` | `ProxyFlow` |
| download, `handlers/handle-simple-download.go` | header `x-original-byte-range` | move the Range header aside; look up the key, decrypt, slice | `ProxyFlow`, `ByteRange` |
| metadata, `handlers/handle-metadata-request.go` | the flow | widen the query; show the plaintext's hash and size | `ProxyFlow` |
| helpers, `util/helpers.go` | none | bucket, object and key name of a request; `GenerateMetadata` | `Routing`, `ProxyFlow` |
| key look-up, `util/google-cloud.go` | none | `GetObjectEncryptionKeyId`, a call of the storage API of its own | `ProxyFlow` |
| crypto, `crypto/encrypt-decrypt.go` | Tink's registry | `EncryptBytes`, `DecryptBytes`, `Base64MD5Hash` | `ProxyFlow` |
| configuration, `config/config.go` | the mapping from buckets to keys and the encryption switch, fixed at start-up | `LoadConfig`, `getBucketKeyMappings`, `isEncryptDisabled` | `Startup`; a constant of `ProxyFlow` |
| `main.go` | the stage start-up has reached | `initConfig`, `checkKmsBucketKeyMapping`, the signal goroutine, the exits | `Startup`; `Crash` of `ProxyFlow` |
| runner, `proxy/proxy-runner.go` | none | `Start`: create the proxy, serve | `Startup` |
| telemetry, `otel.go` | the exporters that run | `setupOpenTelemetry`, `shutdown` | `Startup` |
| patched `transfer.go`, sidecar example | | | not modelled |
| Cloud Storage, KMS, go-mitmproxy | objects, sessions | external | `GcsApi`, the service's actions in `ProxyFlow` |

### Interactions

go-mitmproxy reads a request completely, calls every addon's `Request`, sends
the flow's request upstream, reads the answer, and calls every addon's
`Response`. When the connection upstream breaks, `Response` is not called. Flows
run in goroutines of their own. They share no memory; what they share is outside
the process and is reached by calls another flow can come between: the objects
and the upload sessions of the service, the metadata a download asks for after
it has the data, and the session files under `/tmp`.

### What is hard

* The answer is handled by what the request has *become*. A single-part upload
  and a resumable PUT have become multipart uploads by then.
* An upload is stored or refused by the service, not by the proxy. That a
  failed encryption stores nothing rests on what the rewritten request looks
  like to the service.
* A resumable upload is two exchanges that share only a file of one instance.
  The file is written in two steps, read in one, removed in another, and a crash,
  a full disk or another PUT may come between any two.
* A download fetches the object, then asks for its key: the object may have been
  replaced in between.
* Instances may have been started with different mappings.
* The bucket, the object and the kind of a request are read out of a URL with
  substring tests that were written for ordinary names.
* An answer may come compressed, and the handlers read it before it is decoded; a
  connection that breaks says nothing about what the service did or will do.
* A key mapping is a string an operator writes; every entry, in any order and with
  repetitions, becomes part of what every request is judged by.
* A range is cut out of the decrypted object with bounds checked by hand.

### What makes each component correct

* Uploads: an acknowledged upload is stored where the client asked
  (`AckedUploadStored`), and what an upload left behind can be read back, except for a
  PUT without `Content-Range` and a part with a file name, which store an empty
  object (`StoredReadable`); nothing leaves in plaintext in an upload made in one
  request (`SealedBeforeSend`); the precondition of an upload whose query is kept, a
  multipart one, survives (`NoClobber`), while single-part and resumable uploads lose
  theirs.
* Sessions: at most one acknowledged upload (`OneShotSession`).
* Reads, of ordinary names: an acknowledged upload is seen by every later read, in plaintext
  (`ReadYourWrites`, `NeverServesCiphertext`).
* Ranges: no panic, nothing outside the range (`SliceInBounds`, `WithinRequest`);
  of the satisfiable ranges, the closed ones that end past byte 0 are served, while
  open-ended and suffix ranges and `bytes=0-0` are refused (`ClosedRangesServed`).
* All of it together: to its clients, the proxy and the service are a store of
  plaintext objects on which every exchange takes effect at most once, between its
  request and its answer (`EncryptedStore`, `StoreImplemented`).
* Start-up: a serving instance has tried every key it may use, gives each bucket the
  key that was written for it, and main stops what it started (`ServesChecked`,
  `MappingObeyed`, `ExportersShutDown`).
* Every exchange ends (`EveryExchangeEnds`), and so does every start
  (`StartsOrStops`).

`PROJECT.json` lists the hazards, each with the properties that would catch it, or
with a note that says why none does: mostly because the code always behaves so, and a
property has to except it.

## 2. The modules

    GcsApi            what a request, an answer and an object are; client calls
      Routing         InterceptGcsMethod, the URL helpers, GetKMSKeyName
        RoutingProofs      lemmas on paths and the tests of Routing
        ProxyFlow     flows through instances of the proxy, and the service
          FlowProperties   what flows promise
            FlowInvariants   the inductive invariants behind it
              StoreRefinement   ProxyFlow as an EncryptedStore
                MCProxyFlow       instances for TLC
            FlowProofs     proofs: types, and what becomes of an upload
              ExchangeProofs   proofs: what one exchange has become
                SessionProofs    proofs: sessions, and both invariants together
                  RefinementProofs   proofs: ProxyFlow implements EncryptedStore
                    ReadProofs         proofs: reads see uploads
        Startup       one process from main to its end, and what it promises
          MCStartup   instance for TLC
          StartupProofs    proofs
    EncryptedStore    the abstract store clients are promised
    ByteRange         one ranged download
      MCByteRange     instance for TLC
      ByteRangeProofs proofs

**GcsApi** is external: it holds of the storage API what the handlers rely on.
A URL path is the sequence of its decoded segments, so that `/o/` and `/b/`
inside a name are segments `"o"` and `"b"` of it. A payload is a content and the
key it is sealed under; the digest of a sealed payload is `CipherDigest`, which
no plaintext has. `StoresMultipart`, `CompletesSession` and so on say which
requests the service acts on; every other one is refused.

**Routing** is translated test by test from `InterceptGcsMethod`
(`gcs-proxy.go:49`), with its order kept, and from the three name helpers of
`helpers.go`. A key mapping is a function; Go's nil map is the empty one.

**ProxyFlow** has one action for every stretch of code between two calls that
leave the process. For a flow `f`:

| action | code |
|---|---|
| `Send` | a client and go-mitmproxy: any call of `ClientCalls[f]`, to any instance; a PUT names an upload id some client was given |
| `ForwardRequest` | the cases of `Request` that change nothing kept here |
| `HandleMetadataRequest` | `HandleMetadataRequest` and the query rewriting at `gcs-proxy.go:90` |
| `HandleMultipartRequest` | `HandleMultipartRequest`: a body that does not parse, a part with a file name (`Emptied`), or one that is encrypted; on an error `f.Request.Body = nil` |
| `ConvertSinglePartUpload` | `ConvertSinglePartUploadtoMultiPartUpload` and the same error branch |
| `ReadSession`, `ConvertPut` | `HandleResumablePutRequest`, in two steps: another PUT may read the session file before this one removes it |
| `GcsWrite` ... `GcsRefuse` | the service acts on what it received |
| `GcsUnavailable`, `UpstreamLost` | an error without effect; a connection that breaks before or after the service acted, when no `Response` runs |
| `ForwardResponse`, `HandleUploadResponse`, `HandleMetadataResponse` | the cases of `Response`; `Failed` is the 500 of `gcs-proxy.go:199` |
| `LookupKey`, `HandleSimpleDownloadResponse` | the download's answer, in two steps |
| `CreateSession`, `WriteSession` | `HandleResumablePostResponse` and `StoreResumableData`, in two steps |
| `Crash` | a crash or `os.Exit` with requests in flight, and a restart with `/tmp` kept or empty |

A request that had left when its instance died or its connection broke goes on as
`orphaned`: the service may act on it, at any later time, though nobody hears the
answer. With `Compression` the service may send its JSON answers compressed
(`packed`), which the handlers cannot unmarshal, since `ReplaceToDecodedBody`
(`gcs-proxy.go:207`) comes after them. `call`, `before` and `wrote` are
history: what the client asked for, which uploads had been acknowledged when it did, and
what the service stored for it. The proxy's actions do not read them; the service
uses `wrote` to know which sessions are completed. Properties are stated over them
and the answer, so that they speak of what clients and the store see.

**FlowInvariants** says what the properties rest on. `ExchangeInv` follows one
exchange: what its request is once its handler has run (`RequestOK`), that the
service stored what the request said (`WroteOK`), and that a success on its way back
is one of those (`AnswerOK`). `SessionInv` follows an upload id from the answer that
gave it to the file that describes it and the PUT that uses it up. `ReadInv` follows
an object and the reads of it. The module also names the conditions on clients'
calls under which some theorems hold (section 4).

**EncryptedStore** knows no keys, ciphertexts, instances or files. Its objects are
contents with the digest they show. An exchange is submitted, acts in one step
(`Write`, `Read`, `Erase`, `Open`, `Other`) and is answered with what it did; it may
fail at any time, before or after it acted, and its connection may break, after
which it may still act once. So an answer that is a failure says nothing, and one
that is a success tells the truth. A conditional write needs its object absent; a
PUT without `Content-Range` and a part with a file name are *frail*: they may write
the empty object instead.

**StoreRefinement** maps `ProxyFlow` to it. An object is the plaintext of what the
store holds and the digest a metadata request would show; an exchange has acted
once the service answered it with a success; its outcome is what the service
stored, or the plaintext behind the answer; its reply is what the client ends up
with, the bytes of a download or the digest it is shown, so that ciphertext or the
service's digest in an answer is a reply the abstract store never gives. A read
through an instance that does not encrypt its bucket maps to `other`, which
promises nothing. What the abstract store does not know of shows in two places:
preconditions of single-part and resumable uploads are dropped by the rebuilt query
(`handle-singlepart-upload.go:33`), so they are not asked for; and an acknowledged
PUT is one on the object its *session* was opened for.

**Startup** is one process. Its stages are the calls of `main`, and every step ends
where another could follow or the process can die:

| action | code |
|---|---|
| `LoadConfig`, `ParseEntry`, `MappingParsed` | `LoadConfig`, and one round each of the loop in `getBucketKeyMappings`; an entry without a colon panics |
| `CheckMapping` | `-version`; a nil mapping is fatal |
| `TryKey`, `KeysChecked` | the loop of `checkKmsBucketKeyMapping`, over a Go map and so in any order |
| `StartTracing`, `StartMetering` | the two halves of `setupOpenTelemetry`, with the clean-up of the second's error |
| `NewProxy`, `ServerReturns` | `ProxyRunner.Start`, and the exits of `main` after it |
| `Signal` | the goroutine that waits for SIGINT and SIGTERM, at any stage |

A mapping string is the sequence of its entries, an entry the sequence of its
fields; `settings` holds the environment variable, the flag, which wins even when it
is empty, and the other inputs. `tried` is how far the loop over the map has come.
`MappingObeyed`
composes it with `Routing`: it is stated over `InterceptGcsMethod` and upload
requests, so that what an operator wrote is followed to what happens to a request.

**ByteRange** is apart because numbers matter there and nothing else does: one
download, its Range header, and the interval of the plaintext it returns. The header is
a closed range, an open-ended one, a suffix, one of any other kind (`Unparsed`), or
absent; `Parses` is `parseRangeHeader`, which accepts closed ranges only, and
`Satisfiable` is what RFC 9110 has a server answer with bytes.

The definitions marked as bugs (`BodyKept`, `SealedAnew`, `KeepFile`, ...) are
not used by the models. Each is a mistake somebody could make in the definition
below it, and each is known to be caught by the property its comment names.

### Abstractions

A payload stands for its own hash and length, a sealed one for a sealed one. MIME
layout, header framing (`X-Goog-Stored-Content-Length`, which
`handle-simple-download.go:105` sets to one more than the number of UTF-8 sequences,
among it), random boundaries, logging and gauges are left out.
`EncryptBytes` and `DecryptBytes` return a result or an error: an error always
with an empty or a wrong key, sometimes when the KMS may fail. Object names are
ordinary sequences of segments, with examples for the ones the code's string
operations treat specially; `QueryRoundTrip` says what a name becomes when it is
put into a query unescaped (`handle-resumable-upload.go:48`).

## 3. The runs

Sizes are distinct states; each passing run takes a minute or two at most. Besides
the properties the question names, each flow run checks the inductive invariant its
theorems use: `ExchangeInv` and `TypeOK` in `flow_uploads`, `SessionInv` and
`UploadInv` in `flow_sessions`, `ReadInv` in `flow_reads`; and `StartupInv` and
`IndInv` are those of `startup` and `byte_range`.

| run | question | size |
|---|---|---|
| `flow_uploads` | three exchanges on one instance; KMS and service may fail, connections break, answers be compressed: is every upload sealed, stored where it was meant to be, acknowledged only then, conditional if it was, is no ciphertext served, and do clients see an `EncryptedStore`? | 560 thousand |
| `flow_sessions` | two instances with *different* mappings, two sessions, two PUTs that may name the same one, KMS and disk errors and a crash: is an acknowledged PUT stored, in its session's object, and one at most? | 380 thousand |
| `flow_reads` | two uploads of an object and a reader on two instances with different keys, no failures: does a read see the plaintext of an acknowledged upload, and does every exchange end? | 35 thousand |
| `byte_range` | every closed, open-ended and suffix range over every short object: what is returned, and which satisfiable ranges are served at all? | 2.8 thousand |
| `startup` | every mapping string of up to three entries, every failure, a signal at any step: what does an instance that serves work with, and does every start end? | 25 thousand |

Bounds, and why they are enough. Every hazard in the list needs at most two
writers and a reader of one object, or two PUTs and the POSTs of the sessions
they name; the runs have exactly these, and pick the calls so that flows collide
on one object. Two mapped buckets with different keys and one unmapped bucket
tell apart every answer of `GetKMSKeyName` but the global entry, which
`flow_sessions` and `flow_reads` have on their second instance. One crash suffices because an
instance keeps nothing but its session files, which a crash either keeps or
clears. `flow_reads` starts with a bucket that is empty, that holds an object from
before the proxy, or one with custom metadata that is not the proxy's, and
`flow_uploads` with the first or the last of these. Three entries let `startup`
write a name twice around another, put "*" before, between and after the others, and
break at any position; its entries are those of a bucket, of all buckets, with a
colon in the key, without one, and of a key that does not work.
`byte_range` has offsets on both sides of each length from 0 to 6.
`MaxCrashes` bounds `crashes`, `Flows` bounds the number of exchanges, and the
strings in `Texts` bound `next`; no other counter exists. `byte_range` does not check deadlock since a download is over at
`done`; the flow runs do check it, `Rest` being the state in which every exchange
is over.

`KmsFailures`, `GcsFailures` and `DiskFailures` switch failures on where a
property holds with them. `ReadYourWrites` and `FirstPutSucceeds` are about runs
without failures, since a download whose key look-up fails is allowed to fail. For
the same reason `ReadYourWrites` asks of a *download* that all instances use one key
for the bucket (`OneKey`): with two, the object may be replaced under the other key
between the fetch and the look-up, and the download fails. Metadata requests have no
such condition.

Fairness, for `EveryExchangeEnds` and `StartsOrStops` only. For the former, weak
fairness of `ProxyStep(f)` and of `ServiceStep(f)` for every flow. A goroutine that has work is scheduled, no
handler waits for another flow, and the service answers or the connection
breaks. Clients need not send anything, and nothing need fail. That a call of the
KMS or of the metadata API returns is assumed: the code passes contexts without
a deadline, so one that hangs hangs its exchange. For the latter, weak fairness of
`Step`, what main does by itself until it serves, under the same assumption about
the KMS and the exporters. Nothing makes a server return or a signal arrive.

### Where the code disagrees with its own text

Seven runs look for a violation of something the repository says, and find it.

* `plaintext_upstream`: the conversion's error is dropped at
  `handle-resumable-upload.go:54`. The request has been made a multipart POST by
  then and still holds the plaintext. The service refuses it as malformed, which is
  why `StoredReadable` holds nevertheless; "on error don't upload anything"
  (`gcs-proxy.go:151`) does not.
* `load_balancer`: the PUT of a resumable upload fails on any instance but the one
  that served its POST.
* `misplaced_name`: a resumable upload of `a&b` is acknowledged and stored as `a`.
* `cipher_served`: an object named `a/o` is uploaded sealed and downloaded as it
  is, since `gcs-proxy.go:80` takes its path for a listing.
* `xml_download`: `GET /bucket/object` of a sealed object is a 500, since
  `GetObjectNameFromRequestUri` finds no `/o/` in it.
* `byte_range_inclusive`: a range that ends inside the object comes back one byte
  short. RFC 9110 and two skipped tests (`test_byte_range_requests.bats:39-42` and 67)
  include the end. A test that is not skipped (lines 28-33) expects bytes 0-10 to be ten
  bytes, as the code has it: the tests disagree among themselves.
* `path_mapping`: a mapping entry for a path, as README.md:112 has it, matches no
  request, since `GetKMSKeyName` is asked for the bare bucket name. The start-up check
  tries its key all the same, so nothing tells the operator.

An eighth disagreement needs no counterexample, since a passing run and a theorem state
it: by `ClosedRangesServed` every open-ended or suffix range is refused, and so is
`bytes=0-0`. `parseRangeHeader` wants a number on both sides of the `-`
(`handle-simple-download.go:33-41`), and the bounds checks want an end past byte 0 (line
92). The service would have honoured all of these, and a skipped test (lines 79-84)
expects `bytes=5-` to be served.

## 4. The proofs

Every safety property of the passing runs is a theorem, and so is the refinement.
Theorems about `ProxyFlow` hold for any sets of instances, flows, keys, buckets,
names and calls, any mappings, and, but for the last row, any combination of
failures and crashes.

| theorem | states | assumes |
|---|---|---|
| `TypesKept`, `UploadsHandled`, `StoredIsReadable`, `SealedOnTheWire` (`FlowProofs`) | `[]TypeOK`, `[]UploadInv`, `[]StoredReadable`, `[]SealedBeforeSend` | |
| `ExchangesKept`, `SessionsKept` (`SessionProofs`) | `[]ExchangeInv`, `[]SessionInv` | |
| `SessionsServeOnce`, `NothingClobbered` (`SessionProofs`) | `[]OneShotSession`, `[]NoClobber` | |
| `AckedIsStored` (`SessionProofs`) | `[]AckedUploadStored` | `NamesSurvive` |
| `Implemented` (`RefinementProofs`) | `StoreImplemented` | `NamesSurvive`, `ReadsRouted` |
| `PlaintextServed` (`RefinementProofs`) | `[]NeverServesCiphertext` | `ReadsRouted` |
| `ReadsKept`, `ReadsSeeWrites` (`ReadProofs`) | `[]ReadInv`, `[]ReadYourWrites` | the two, `NamesUncut`, `OrdinaryUploads`, `Calm`, `[]PutsAtHome` |

All rest on the assumptions of `GcsApi`, `ProxyFlow` and `StoreRefinement` on their
constants (the reserved words of the API are segments and no bucket names, "absent"
values are not values, mappings map to keys). TLC evaluates all of them in every flow
run.

### The hypotheses

They are conditions on what clients ask for, and each is there because the code fails
without it:

* `NamesSurvive`, no object name changes when it is put into a query unescaped: with
  `a&b` an acknowledged upload is stored elsewhere (`misplaced_name`,
  `handle-resumable-upload.go:48`).
* `ReadsRouted`, the URLs of reads pass the substring tests of `InterceptGcsMethod`:
  no name a JSON read asks for ends in the segment `o`, no inner segment `b` in one an
  XML read asks for. Without it ciphertext is served (`cipher_served`,
  `gcs-proxy.go:80`).
* `NamesUncut`, no inner segment `o` in a name that is downloaded:
  `GetObjectNameFromRequestUri` cuts there, and the key of another object is looked up
  (`helpers.go:106`).
* `OrdinaryUploads`, nothing is deleted or written past the proxy over the XML API,
  and no upload loses its content (`Spoilt`). A read that follows an upload and a
  delete rightly fails.
* `Calm`, the KMS and the service do not fail, answers are not compressed and no
  instance has encryption switched off. Crashes and disk errors may happen. A read
  whose key look-up fails is allowed to fail.
* `PutsAtHome`, a PUT goes to the bucket in the URL its session's client was given.
  It speaks of `bound`, and so is asked of every state and not of the constants.

The three passing flow runs have constants that satisfy `NamesSurvive` and
`ReadsRouted`, and `flow_reads` satisfies all six, so no theorem is about nothing;
the runs check the conclusions on the same instances.

### What an upload becomes (`FlowProofs`)

`StoredReadable` is not inductive. It speaks of what is in the store, and a write
stores whatever the request in flight holds; so one needs to know what requests
in flight may hold, and for that what a handler starts from. `UploadInv` says
both: until its handler has run, a flow's request is what the client sent
(`req[f] = RequestOf(call[f])`), and once forwarded, an intercepted upload
satisfies `Upstream`: its body is gone, or sealed under the key of the bucket the
service will store it in with a matching stamp, or it is the empty part left of one
with a file name, or the stray plaintext of a PUT whose encryption failed. The
inductive invariant is

    IInv == TypeOK /\ UploadInv /\ StoredReadable

and the argument has three parts. `UploadRoute`: an intercepted upload, as the
client sent it, is routed to its own handler and never passed through; this is
where the tests of `InterceptGcsMethod` and the bucket's position in the path are
needed (`RoutingProofs`). For each handler: what it forwards satisfies `Upstream`,
whether or not the encryption succeeded. For `GcsWrite`: what the service stores of
a request that satisfies `Upstream` is `Retrievable`; the stray plaintext is in a
POST of type multipart with a raw body, which no write rule accepts. Every other
action leaves a flow's request and what it wrote alone.

The two hidden points the proof brought out: the key used in a multipart upload is
that of the bucket named in the JSON part and not of the URL, which is harmless
only because the service refuses an upload in which they differ; and a PUT without
`Content-Range` or a part with a file name may store an empty object, hence the
second disjunct of `Retrievable` (`Spoilt`).

### Exchanges and sessions (`ExchangeProofs`, `SessionProofs`)

    ProxyInv == IInv /\ ExchangeInv /\ SessionInv

is inductive, and none of its parts is without the others. What a converted PUT is an
upload *of* is what the session file it read says, so `RequestOK` needs `FileMatches`
and `Describes` of `SessionInv`. A session file describes the right object because the
answer that gave the id was to the request that opened the session, which is
`RequestOK` and `GivenOnce` together. An acknowledged PUT was stored because `AnswerOK`
says so of any success.

* `AckedIsStored` and `NothingClobbered` follow from `ExchangeInv`: the acknowledged
  upload has written, what it wrote is what its request says, and the request is, after
  whichever handler, for the object its client meant (`Landing`) with the digest of
  what was sent and, where the query is kept, its precondition.
* `SessionsServeOnce` needs the longest argument over time. A PUT is acknowledged only
  if it was turned into a POST (`AnswerOK`), and then its file is gone for good
  (`Converting` in `PutOK`): the file lies with the instance of the POST of its session
  and nowhere else, only that POST writes it, and it is over before any PUT is sent. So
  a PUT sent after the acknowledgement finds no file (`SamePut` in `PutOK`). The
  converse order, two PUTs on their way at once, may both succeed, which is why the
  property speaks of `before`.
* `Orderly` collects what a step of one flow leaves of all others (finished exchanges
  stay finished, ids stay known and bound, no file returns), so that `PutOK` of every
  other flow needs one lemma and not one per action.

### The refinement (`RefinementProofs`)

The inductive invariant is `StoreInv == ProxyInv /\ CallsMade`, where `CallsMade`
says that calls are among those the clients may make. `InitImplements` maps initial
states to initial states. `StepImplements` maps every step:

| step of `ProxyFlow` | step of `EncryptedStore` |
|---|---|
| `Send` | `Submit` |
| `GcsWrite` | `Write`: by `WriteFitsAsk` what the request says is what was asked for, or empty where the upload is frail; `NamesSurvive` is needed here |
| `GcsRead`, `GcsDelete`, `GcsOpenSession`, `GcsList` | `Read` or `Other`, `Erase`, `Open`, `Other` |
| `GcsRefuse`, `GcsUnavailable`, `UpstreamLost`, `OrphanDropped`, `Crash` | `Break`, of one exchange or of all those a dead instance served |
| a handler of a request, `LookupKey`, `CreateSession` unless it ends the exchange | a stutter |
| a handler that ends an exchange | `Answer`, with the outcome of the act, or `Fail` |

The last is where `ReadsRouted` is needed: `RouteOfRead` shows that the answer of a
read comes by the handler that decrypts it or shows the plaintext's digest, although
the route is asked of the request as it was rewritten. For a write the answer shows
the digest set aside in the request, which by `AnswerOK` is that of what was stored.
`PlaintextServed` follows from the same lemma.

### Reads (`ReadProofs`)

`ReadInv` is inductive relative to `StoreInv`. An object for which some upload is
`wrote` holds what one of them stored (`LastWritten`), since in these runs nothing
else writes. A read sent after an acknowledgement finds the object there; the answer
of the service shows one upload whole (`ReadServed`). While it waits, others may
replace the object; the key then looked up is that of another upload. But all uploads
of the bucket were encrypted by instances with one key (`OneKey`, `KeyFound`), so it
is the same key, and the download decrypts what was fetched. A stat needs no key: the
digest in the answer's own metadata is that of its own plaintext (`Truthful`), whatever
the object holds now. `OneKey` can only become false as more flows are sent, so
what it says when a read is over it has said all along (`FollowsBefore`).

### Start-up and ranges

`StartupProofs` proves the four safety properties of `startup` for any fields,
mapping strings, keys that work, and failures:

* `MappingParsedAndChecked`: `Spec => []StartupInv`, which is inductive. Its part
  `MappingSaysWritten` is the loop invariant of `getBucketKeyMappings`: the key of a
  name is that of its last entry so far (`EntryWritten`). `StageReached` says what
  each stage may rely on, for one that no key was tried before the mapping was
  complete; without that, an entry could replace a key that had been tried.
* `ServesOnlyChecked`, the first of them at stage `serving`. This is what discharges,
  for a real process, the assumption of `ProxyFlow` that mappings map to keys.
* `KeysAsWritten`, from the loop invariant at the end of the string and
  `UploadIntercepted` of `RoutingProofs`: an upload to a bucket passes through if and
  only if the mapping has no key for the bucket.
* `TelemetryFlushed`, inductive relative to `StartupInv`.

They rest on `StartupAssumption` (mapping strings are sequences of entries of at
least one field, which is what `strings.Split` returns) and on those of `GcsApi`.

`ByteRangeProofs` proves the four invariants of `byte_range` for any set of
lengths and offsets; `HeaderSetAside` (`IndInv`) is inductive and gives the other
three together with arithmetic on the bounds. `RangesServed` is the one that says
which satisfiable ranges are served, and that all others are refused.

### Only model-checked

`EveryExchangeEnds` and `StartsOrStops` are liveness properties under fairness, which is
out of the prover's reach. The seven violations are counterexamples, and stay with TLC
too.

## 5. Not modelled, and why

* Custom metadata that is no map: the service refuses such a resource.
* Buckets whose names start with `download`: the prefix test at `gcs-proxy.go:98`
  would match their XML paths; the model compares whole segments.
* Requests to hosts other than the two storage hosts, which pass through.
* Encryption switched off: `EncryptDisabled` is a constant the proofs allow any
  value of, and empty in the runs.
* Error answers of the service that carry an upload id; chunked resumable uploads,
  which the proxy does not support (its handler fails, in the model too).
* Options without an effect on requests: addresses, certificates, debug and dump
  levels, the upstream proxy. What is exported to telemetry, and the panic of
  `initMetrics` when a gauge cannot be created.
* The refinement leaves out reads through instances that do not encrypt the bucket
  (they may show ciphertext, as documented), listings, and names with `&` or ending in
  `o`, for which the violations above show that it fails.
* `updateGcsMetadata`, `HandleSinglePartUploadRequest` and
  `HandleSinglePartUploadResponse` are never called.
* The gauges have no effect on requests; `test/go-net-http-patch` is third-party code, `docs/examples` a client.

## 6. Plan

Done, in this order: `GcsApi`, `Routing`, `ProxyFlow` with its properties and
runs, `ByteRange`, `FlowProofs`, `ByteRangeProofs`; then the multipart parser's
branches, compressed answers and broken connections in `ProxyFlow`, `EncryptedStore`
with `StoreRefinement`, `Startup` with its proofs; then `FlowInvariants`, and the
theorems on exchanges, sessions, the refinement and reads.

Next:

1. `ReadsSeeWrites` with failures: a read that follows an acknowledged upload fails or
   shows an upload, whatever the KMS and the service do.
2. Reads of objects that are deleted in between, for which the key look-up finds
   nothing: they fail, or show what was there.
3. Error answers of the service that carry an upload id, and buckets whose names
   start with `download`.
