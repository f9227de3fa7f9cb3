------------------------------- MODULE MCStartup -----------------------------
(***************************************************************************)
(* A small instance of Startup for TLC: mapping strings of at most three   *)
(* entries over a global, a mapped and an unmapped bucket, a path below a  *)
(* bucket, two keys that work and one that does not.                       *)
(***************************************************************************)
EXTENDS Startup

MCBuckets == {"photos", "open"}
Below == <<"raw", "cat">>
MCNames == {Below}
MCSegments ==
  {"", "b", "o", "v1", "storage", "upload", "download", "resumable"}
    \cup MCBuckets \cup Range(Below)

(* An entry that maps a path: some of a bucket, Below among it.            *)
MappedPath == "photos/raw"

MCKeys == {"key1", "key2"}
MCFields == MCBuckets \cup MCKeys \cup {"", "*", "badkey", MappedPath}

(* Entries: of a bucket, of all, of none after a trailing comma, with a    *)
(* colon in the key, of a key that does not work.                          *)
Entries == {<<"photos", "key1">>, <<"photos", "key2">>, <<"*", "key2">>,
            <<"">>, <<"photos", "key1", "key2">>, <<"open", "badkey">>}
PathText == << <<MappedPath, "key1">> >>
MCTexts  == BoundedSeq(Entries, 3) \cup {PathText}

(* A mapping string comes from the environment, or from the flag, next to  *)
(* another in the environment.                                             *)
Started(envs, flags) ==
  [env : envs, flag : flags, version : BOOLEAN, telemetry : BOOLEAN,
   disable : DisableValues]
MCSettings == Started({<< >>, << <<"*", "key2">> >>}, {Unset})
                \cup Started({<< <<"*", "key2">> >>}, MCTexts)
PathSettings == Started({PathText}, {Unset})

(* An upload of an object below a mapped path is intercepted ("enabling    *)
(* the specification of different KMS keys for different GCS paths         *)
(* (buckets or sub-paths within buckets)").                                *)
PathsEncrypted ==
  stage = "serving" /\ ~disabled /\ MappedPath \in DOMAIN mapping =>
    \A r \in Uploads("photos") :
      InterceptGcsMethod(mapping, [r EXCEPT !.query.name = Below])
        # "passThru"
=============================================================================
