-------------------------------- MODULE Startup ------------------------------
(***************************************************************************)
(* One process of the proxy from main() to its end: where the key mapping  *)
(* of Routing and ProxyFlow comes from, and what is checked before the     *)
(* first request is served.                                                *)
(*                                                                         *)
(* The stages:                                                             *)
(*   main -> parsing -> loaded -> checking (-> tracing -> metering)        *)
(*        -> starting -> serving -> stopped                                *)
(*                                                                         *)
(* A mapping string is the sequence of its entries (split at ","), each    *)
(* the sequence of its fields (split at ":"); << >> is the empty string.   *)
(***************************************************************************)
EXTENDS Routing

CONSTANTS
  Fields,        (* what may stand between two colons                     *)
  Texts,         (* mapping strings an operator may write                 *)
  Unset,         (* the flag -kms_bucket_key_mappings is not given        *)
  DisableValues, (* what GCS_PROXY_DISABLE_ENCRYPTION may be set to       *)
  StartedWith,   (* environments and command lines to start with          *)
  Failures       (* may the KMS, an exporter or the listener fail?        *)

(* How an instance is started: the environment and the command line.       *)
Settings == [env : Texts, flag : Texts \cup {Unset}, version : BOOLEAN,
             telemetry : BOOLEAN, disable : DisableValues]

ASSUME StartupAssumption ==
  /\ Texts \subseteq Seq(Seq(Fields) \ {<< >>})
  /\ Unset \notin Texts
  /\ StartedWith \subseteq Settings
  /\ Failures \in BOOLEAN

VARIABLES
  settings,   (* what it was started with                                 *)
  stage,
  next,       (* the entry of the mapping string to be parsed             *)
  mapping,    (* GlobalConfig.KmsBucketKeyMapping; nil is empty           *)
  disabled,   (* GlobalConfig.EncryptDisabled                             *)
  tried,      (* names whose key has encrypted something                  *)
  exporters,  (* telemetry exporters that run                             *)
  exit        (* how the process ended                                    *)

config == <<settings, next, mapping, disabled, tried>>
vars   == <<config, stage, exporters, exit>>

NoMapping == [b \in {} |-> ""]

Init ==
  /\ settings \in StartedWith
  /\ stage = "main" /\ next = 1 /\ mapping = NoMapping /\ disabled = FALSE
  /\ tried = {} /\ exporters = {} /\ exit = "none"

Goto(s) == stage' = s /\ UNCHANGED exit
Exit(how) == stage' = "stopped" /\ exit' = how
MayFail(how) == Failures /\ Exit(how)

(***************************************************************************)
(* LoadConfig.                                                             *)
(***************************************************************************)
MappingString ==
  IF settings.flag = Unset THEN settings.env ELSE settings.flag

(* Set to anything, "false" included, the variable disables encryption.    *)
isEncryptDisabled == settings.disable # ""

LoadConfig ==
  /\ stage = "main"
  /\ disabled' = isEncryptDisabled
  /\ Goto("parsing")
  /\ UNCHANGED <<settings, next, mapping, tried, exporters>>

(* A bug StartupInv catches: the first entry of a name stays.              *)
FirstEntryWins(m, entry) ==
  [b \in DOMAIN m \cup {entry[1]} |-> IF b \in DOMAIN m THEN m[b] ELSE entry[2]]

WithEntry(m, entry) ==
  [b \in DOMAIN m \cup {entry[1]} |-> IF b = entry[1] THEN entry[2] ELSE m[b]]

(* One round of the loop in getBucketKeyMappings.  An entry without a      *)
(* colon indexes past the split; what follows a second colon is dropped.   *)
ParseEntry ==
  /\ stage = "parsing" /\ next <= Len(MappingString)
  /\ LET entry == MappingString[next]
     IN  \/ /\ Len(entry) = 1
            /\ Exit("panic")
            /\ UNCHANGED <<next, mapping>>
         \/ /\ Len(entry) > 1
            /\ mapping' = WithEntry(mapping, entry)
            /\ next' = next + 1
            /\ Goto("parsing")
  /\ UNCHANGED <<settings, disabled, tried, exporters>>

MappingParsed ==
  /\ stage = "parsing" /\ next > Len(MappingString)
  /\ Goto("loaded")
  /\ UNCHANGED <<config, exporters>>

(***************************************************************************)
(* initConfig, after LoadConfig: -version, then checkKmsBucketKeyMapping,  *)
(* which encrypts something with every key, in any order.                  *)
(***************************************************************************)
CheckMapping ==
  /\ stage = "loaded"
  /\ \/ settings.version /\ Exit("ok")
     \/ ~settings.version /\ DOMAIN mapping = {} /\ Exit("fatal")
     \/ ~settings.version /\ DOMAIN mapping # {} /\ Goto("checking")
  /\ UNCHANGED <<config, exporters>>

(* A bug ServesChecked catches: the error is only logged.                  *)
TryAnyKey(b) ==
  /\ stage = "checking" /\ b \in DOMAIN mapping \ tried
  /\ tried' = tried \cup {b}
  /\ Goto("checking")
  /\ UNCHANGED <<settings, next, mapping, disabled, exporters>>

(* A bug StartsOrStops catches: the check starts over at every key.        *)
TryKeyAgain(b) ==
  /\ stage = "checking" /\ b \in DOMAIN mapping /\ mapping[b] \in Keys
  /\ tried' = {b}
  /\ Goto("checking")
  /\ UNCHANGED <<settings, next, mapping, disabled, exporters>>

TryKey(b) ==
  /\ stage = "checking" /\ b \in DOMAIN mapping \ tried
  /\ \/ mapping[b] \in Keys /\ tried' = tried \cup {b} /\ Goto("checking")
     \/ mapping[b] \notin Keys /\ Exit("fatal") /\ UNCHANGED tried
     \/ MayFail("fatal") /\ UNCHANGED tried
  /\ UNCHANGED <<settings, next, mapping, disabled, exporters>>

KeysChecked ==
  /\ stage = "checking" /\ tried = DOMAIN mapping
  /\ Goto(IF settings.telemetry THEN "tracing" ELSE "starting")
  /\ UNCHANGED <<config, exporters>>

(***************************************************************************)
(* setupOpenTelemetry: a span exporter, then a metric reader; an error     *)
(* shuts down what runs already.                                           *)
(***************************************************************************)
StartTracing ==
  /\ stage = "tracing"
  /\ \/ exporters' = {"trace"} /\ Goto("metering")
     \/ MayFail("fatal") /\ UNCHANGED exporters
  /\ UNCHANGED config

(* A bug ExportersShutDown catches: a metric error leaves tracing running. *)
StartMeteringUnclean ==
  /\ stage = "metering"
  /\ \/ exporters' = exporters \cup {"metric"} /\ Goto("starting")
     \/ MayFail("fatal") /\ UNCHANGED exporters
  /\ UNCHANGED config

StartMetering ==
  /\ stage = "metering"
  /\ \/ exporters' = exporters \cup {"metric"} /\ Goto("starting")
     \/ MayFail("fatal") /\ exporters' = {}
  /\ UNCHANGED config

(***************************************************************************)
(* ProxyRunner.Start.  An error of NewProxy is fatal at once; one of the   *)
(* listener, then or later, comes back to main, which shuts the exporters  *)
(* down first.                                                             *)
(***************************************************************************)
NewProxy ==
  /\ stage = "starting"
  /\ Goto("serving") \/ MayFail("aborted")
  /\ UNCHANGED <<config, exporters>>

ServerReturns ==
  /\ stage = "serving"
  /\ Failures /\ exporters' = {}
  /\ \E how \in {"ok", "fatal"} : Exit(how)
  /\ UNCHANGED config

(* The goroutine that waits for SIGINT or SIGTERM: os.Exit(0).             *)
Signal ==
  /\ stage # "stopped"
  /\ Exit("signal")
  /\ UNCHANGED <<config, exporters>>

Rest == stage = "stopped" /\ UNCHANGED vars

Step ==
  \/ LoadConfig \/ ParseEntry \/ MappingParsed
  \/ CheckMapping \/ (\E b \in DOMAIN mapping : TryKey(b)) \/ KeysChecked
  \/ StartTracing \/ StartMetering \/ NewProxy

Next == Step \/ ServerReturns \/ Signal \/ Rest

(* main runs on until it serves; nothing makes a server return or a signal *)
(* arrive.                                                                 *)
Spec == Init /\ [][Next]_vars /\ WF_vars(Step)

(***************************************************************************)
(* Properties.                                                             *)
(***************************************************************************)
Stages == {"main", "parsing", "loaded", "checking", "tracing", "metering",
           "starting", "serving", "stopped"}
Checked == {"tracing", "metering", "starting", "serving"}

TypeOK ==
  /\ settings \in Settings /\ stage \in Stages /\ disabled \in BOOLEAN
  /\ next \in 1 .. Len(MappingString) + 1
  /\ tried \subseteq DOMAIN mapping
  /\ exporters \subseteq {"trace", "metric"}
  /\ exit \in {"none", "ok", "fatal", "panic", "aborted", "signal"}
  /\ exit = "none" <=> stage # "stopped"

(* The last of the entries before n that name b.                           *)
LastEntry(n, b, i) ==
  /\ i \in 1 .. n - 1 /\ MappingString[i][1] = b
  /\ \A j \in i + 1 .. n - 1 : MappingString[j][1] # b

(* What has been parsed says what was written, the last entry of a name    *)
(* winning.                                                                *)
MappingSaysWritten ==
  /\ \A i \in 1 .. next - 1 : MappingString[i][1] \in DOMAIN mapping
  /\ \A b \in DOMAIN mapping :
       \E i \in 1 .. next - 1 : /\ LastEntry(next, b, i)
                                /\ Len(MappingString[i]) > 1
                                /\ mapping[b] = MappingString[i][2]

(* How far a stage is: parsing comes first, then the keys, which all have  *)
(* worked when the check is over, then the exporters.                      *)
StageReached ==
  /\ stage = "main" => next = 1
  /\ stage \in {"main", "parsing", "loaded"} => tried = {}
  /\ stage \in Checked \cup {"loaded", "checking"} =>
       next = Len(MappingString) + 1
  /\ \A b \in tried : mapping[b] \in Keys
  /\ stage \in Checked => tried = DOMAIN mapping
  /\ stage \in Checked \cup {"checking"} => DOMAIN mapping # {}
  /\ stage \notin {"metering", "starting", "serving", "stopped"} =>
       exporters = {}

(* The inductive invariant.                                                *)
StartupInv == TypeOK /\ MappingSaysWritten /\ StageReached

(* What ProxyFlow assumes of an instance that serves: a mapping, not an    *)
(* empty one, every key of which has encrypted something.                  *)
ServesChecked ==
  stage = "serving" => IsMapping(mapping) /\ DOMAIN mapping # {}

(* A serving instance gives every bucket the key that the last "*" of its  *)
(* mapping string names or, without one, the last entry of the bucket, and *)
(* no key to the others; unless encryption is disabled, that decides       *)
(* whether an upload is intercepted.                                       *)
Written(b, k) ==
  \E i \in 1 .. Len(MappingString) :
    LastEntry(Len(MappingString) + 1, b, i) /\ MappingString[i][2] = k

Uploads(b) ==
  {[method |-> "POST", path |-> UploadPath(b), range |-> "none",
    query |-> [NoQuery EXCEPT !.uploadType = type],
    body |-> NoBody, digest |-> NoContent] :
      type \in {"multipart", "media", "resumable"}}

MappingObeyed ==
  stage = "serving" => \A b \in Buckets :
    LET k == GetKMSKeyName(mapping, b)
    IN  /\ \/ Written("*", k)
           \/ (\A x \in Keys : ~Written("*", x)) /\ Written(b, k)
           \/ k = NoKey /\ \A x \in Keys : ~Written("*", x) /\ ~Written(b, x)
        /\ \A r \in Uploads(b) :
             InterceptGcsMethod(mapping, r) = "passThru" <=> k = NoKey

(* The exporters are shut down when main ends by itself ("shutdown and     *)
(* flush telemetry after it exits"); a signal and an error of NewProxy     *)
(* end the process past it.                                                *)
ExportersShutDown == exit \in {"ok", "fatal", "panic"} => exporters = {}

(* A start ends: the instance serves, or the process stops.                *)
StartsOrStops == <>(stage \in {"serving", "stopped"})
=============================================================================
