---------------------------- MODULE StartupProofs ---------------------------
(***************************************************************************)
(* What Startup promises, for every mapping string, every set of keys that *)
(* work, and any failures of the KMS, the exporters and the listener.      *)
(***************************************************************************)
EXTENDS Startup, RoutingProofs

(* The mapping string is a sequence of entries of at least one field each. *)
LEMMA StringOfEntries ==
  ASSUME settings \in Settings
  PROVE  /\ MappingString \in Seq(Seq(Fields) \ {<< >>})
         /\ Len(MappingString) \in Nat
         /\ \A i \in 1 .. Len(MappingString) :
              Len(MappingString[i]) \in Nat \ {0}
<1>1. settings.env \in Texts /\ settings.flag \in Texts \cup {Unset}
  BY DEF Settings
<1>2. MappingString \in Texts
  BY <1>1 DEF MappingString
<1>3. MappingString \in Seq(Seq(Fields) \ {<< >>})
  BY <1>2, StartupAssumption
<1>4. ASSUME NEW e \in Seq(Fields) \ {<< >>}
      PROVE  Len(e) \in Nat \ {0}
  BY <1>4
<1>5. ASSUME NEW i \in 1 .. Len(MappingString)
      PROVE  MappingString[i] \in Seq(Fields) \ {<< >>}
  BY <1>3
<1> QED
  BY <1>3, <1>4, <1>5

(* What says what was written still does when nothing more is parsed.      *)
LEMMA WrittenKept ==
  ASSUME MappingSaysWritten, UNCHANGED <<settings, next, mapping>>
  PROVE  MappingSaysWritten'
BY DEF MappingSaysWritten, LastEntry, MappingString

LEMMA StartupInit == Init => StartupInv
<1> SUFFICES ASSUME Init PROVE StartupInv
  OBVIOUS
<1>1. settings \in Settings
  BY StartupAssumption DEF Init
<1>2. next = 1 /\ DOMAIN mapping = {} /\ tried = {} /\ stage = "main"
  BY DEF Init, NoMapping
<1>3. TypeOK
  <2>1. Len(MappingString) \in Nat
    BY <1>1, StringOfEntries
  <2>2. /\ next \in 1 .. Len(MappingString) + 1
        /\ tried \subseteq DOMAIN mapping
    BY <1>2, <2>1
  <2>3. /\ stage \in Stages /\ exporters \subseteq {"trace", "metric"}
        /\ exit = "none" /\ stage # "stopped" /\ disabled \in BOOLEAN
    BY DEF Init, Stages
  <2> QED
    BY <1>1, <2>2, <2>3 DEF TypeOK
<1>4. MappingSaysWritten
  BY <1>2 DEF MappingSaysWritten
<1>5. StageReached
  BY <1>2 DEF Init, StageReached, Checked
<1> QED
  BY <1>3, <1>4, <1>5 DEF StartupInv

(***************************************************************************)
(* An entry that is parsed becomes the last one of its name, and stays the *)
(* one that counts for no other name.                                      *)
(***************************************************************************)
LEMMA EntryWritten ==
  ASSUME TypeOK, MappingSaysWritten, UNCHANGED settings,
         next <= Len(MappingString), Len(MappingString[next]) > 1,
         mapping' = WithEntry(mapping, MappingString[next]), next' = next + 1
  PROVE  MappingSaysWritten'
<1> DEFINE entry == MappingString[next]
           Of(b, i) == /\ LastEntry(next, b, i)
                       /\ Len(MappingString[i]) > 1
                       /\ mapping[b] = MappingString[i][2]
<1>1. MappingString' = MappingString
  BY DEF MappingString
<1>2. next \in Nat /\ next >= 1 /\ Len(MappingString) \in Nat
  BY StringOfEntries DEF TypeOK
<1>3. /\ DOMAIN mapping' = DOMAIN mapping \cup {entry[1]}
      /\ mapping'[entry[1]] = entry[2]
      /\ \A b \in DOMAIN mapping \ {entry[1]} : mapping'[b] = mapping[b]
  BY DEF WithEntry
<1>4. \A i \in 1 .. next : MappingString[i][1] \in DOMAIN mapping'
  <2>1. \A i \in 1 .. next - 1 : MappingString[i][1] \in DOMAIN mapping'
    BY <1>3 DEF MappingSaysWritten
  <2>2. \A i \in 1 .. next : i \in 1 .. next - 1 \/ i = next
    BY <1>2
  <2> QED
    BY <1>3, <2>1, <2>2
<1>5. ASSUME NEW b \in DOMAIN mapping'
      PROVE  \E i \in 1 .. next : /\ LastEntry(next + 1, b, i)
                                  /\ Len(MappingString[i]) > 1
                                  /\ mapping'[b] = MappingString[i][2]
  <2>1. CASE b = entry[1]
    <3>1. LastEntry(next + 1, b, next)
      BY <1>2, <2>1 DEF LastEntry
    <3>2. next \in 1 .. next
      BY <1>2
    <3> QED
      BY <1>3, <2>1, <3>1, <3>2
  <2>2. CASE b # entry[1]
    <3>1. b \in DOMAIN mapping /\ mapping'[b] = mapping[b]
      BY <1>3, <1>5, <2>2
    <3>2. PICK i \in 1 .. next - 1 : Of(b, i)
      BY <3>1 DEF MappingSaysWritten
    <3>3. LastEntry(next + 1, b, i)
      BY <1>2, <2>2, <3>2 DEF LastEntry
    <3>4. i \in 1 .. next
      BY <1>2, <3>2
    <3> QED
      BY <3>1, <3>2, <3>3, <3>4
  <2> QED
    BY <2>1, <2>2
<1>6. 1 .. next' - 1 = 1 .. next
  BY <1>2
<1>7. ASSUME NEW b, NEW i
      PROVE  LastEntry(next, b, i)' <=> LastEntry(next + 1, b, i)
  BY <1>1 DEF LastEntry
<1> QED
  BY <1>1, <1>4, <1>5, <1>6, <1>7 DEF MappingSaysWritten

LEMMA ParseEntryStep ==
  ASSUME StartupInv, ParseEntry
  PROVE  StartupInv'
<1> USE DEF StartupInv
<1>1. /\ stage = "parsing" /\ next <= Len(MappingString)
      /\ UNCHANGED <<settings, disabled, tried, exporters>>
      /\ MappingString' = MappingString
  BY DEF ParseEntry, MappingString
<1>2. next \in Nat /\ next >= 1 /\ Len(MappingString) \in Nat
  BY StringOfEntries DEF TypeOK
<1>3. CASE Len(MappingString[next]) = 1 /\ Exit("panic")
           /\ UNCHANGED <<next, mapping>>
  <2>1. TypeOK'
    BY <1>1, <1>3 DEF TypeOK, Exit, Stages
  <2>2. MappingSaysWritten'
    BY <1>1, <1>3, WrittenKept
  <2>3. StageReached'
    BY <1>1, <1>3 DEF StageReached, Exit, Checked
  <2> QED
    BY <2>1, <2>2, <2>3
<1>4. CASE /\ Len(MappingString[next]) > 1
           /\ mapping' = WithEntry(mapping, MappingString[next])
           /\ next' = next + 1
           /\ Goto("parsing")
  <2>1. DOMAIN mapping \subseteq DOMAIN mapping'
    BY <1>4 DEF WithEntry
  <2>2. TypeOK'
    BY <1>1, <1>2, <1>4, <2>1 DEF TypeOK, Goto, Stages
  <2>3. MappingSaysWritten'
    BY <1>1, <1>4, EntryWritten
  <2>4. tried = {}
    BY <1>1 DEF StageReached
  <2>5. StageReached'
    BY <1>1, <1>4, <2>4 DEF StageReached, Goto, Checked
  <2> QED
    BY <2>2, <2>3, <2>5
<1> QED
  BY <1>3, <1>4 DEF ParseEntry

(***************************************************************************)
(* The other actions leave what was parsed alone: those that keep the      *)
(* configuration, then the check of a key.                                 *)
(***************************************************************************)
LEMMA TypesOfStages ==
  ASSUME TypeOK, UNCHANGED <<settings, next, mapping>>,
         disabled' \in BOOLEAN, tried' \subseteq DOMAIN mapping,
         exporters' \subseteq {"trace", "metric"}, stage' \in Stages,
         exit' \in {"none", "ok", "fatal", "panic", "aborted", "signal"},
         exit' = "none" <=> stage' # "stopped"
  PROVE  TypeOK'
<1>1. MappingString' = MappingString
  BY DEF MappingString
<1>2. next' \in 1 .. Len(MappingString') + 1
  BY <1>1 DEF TypeOK
<1> QED
  BY <1>2 DEF TypeOK

LEMMA ConfigKept ==
  ASSUME StartupInv, UNCHANGED config, exporters' \subseteq {"trace", "metric"},
         stage # "stopped", stage' \in Stages,
         \/ stage' # "stopped" /\ UNCHANGED exit
         \/ /\ stage' = "stopped"
            /\ exit' \in {"ok", "fatal", "panic", "aborted", "signal"}
  PROVE  TypeOK' /\ MappingSaysWritten'
<1>1. UNCHANGED <<settings, next, mapping, disabled, tried>>
  BY DEF config
<1>2. TypeOK'
  <2>1. exit' \in {"none", "ok", "fatal", "panic", "aborted", "signal"}
    BY DEF StartupInv, TypeOK
  <2>2. exit' = "none" <=> stage' # "stopped"
    BY DEF StartupInv, TypeOK
  <2>3. disabled' \in BOOLEAN /\ tried' \subseteq DOMAIN mapping
    BY <1>1 DEF StartupInv, TypeOK
  <2> QED
    BY <1>1, <2>1, <2>2, <2>3, TypesOfStages DEF StartupInv
<1>3. MappingSaysWritten'
  BY <1>1, WrittenKept DEF StartupInv
<1> QED
  BY <1>2, <1>3

LEMMA LoadConfigStep ==
  ASSUME StartupInv, LoadConfig
  PROVE  StartupInv'
<1>1. /\ UNCHANGED <<settings, next, mapping, tried, exporters, exit>>
      /\ stage = "main" /\ stage' = "parsing"
      /\ disabled' \in BOOLEAN
  BY DEF LoadConfig, Goto, isEncryptDisabled
<1>2. TypeOK'
  BY <1>1, TypesOfStages DEF StartupInv, TypeOK, Stages
<1>3. MappingSaysWritten'
  BY <1>1, WrittenKept DEF StartupInv
<1>4. StageReached'
  BY <1>1 DEF StartupInv, StageReached, Checked
<1> QED
  BY <1>2, <1>3, <1>4 DEF StartupInv

LEMMA MappingParsedStep ==
  ASSUME StartupInv, MappingParsed
  PROVE  StartupInv'
<1>1. /\ stage = "parsing" /\ next > Len(MappingString)
      /\ stage' = "loaded" /\ UNCHANGED <<config, exporters, exit>>
  BY DEF MappingParsed, Goto
<1>2. TypeOK' /\ MappingSaysWritten'
  BY <1>1, ConfigKept DEF StartupInv, TypeOK, Stages
<1>3. next = Len(MappingString) + 1 /\ MappingString' = MappingString
  <2>1. Len(MappingString) \in Nat
    BY StringOfEntries DEF StartupInv, TypeOK
  <2> QED
    BY <1>1, <2>1 DEF StartupInv, TypeOK, config, MappingString
<1>4. StageReached'
  BY <1>1, <1>3 DEF StartupInv, StageReached, Checked, config
<1> QED
  BY <1>2, <1>4 DEF StartupInv

LEMMA CheckMappingStep ==
  ASSUME StartupInv, CheckMapping
  PROVE  StartupInv'
<1>1. /\ stage = "loaded" /\ UNCHANGED <<config, exporters>>
      /\ \/ stage' = "stopped" /\ exit' \in {"ok", "fatal"}
         \/ stage' = "checking" /\ UNCHANGED exit /\ DOMAIN mapping # {}
  BY DEF CheckMapping, Goto, Exit
<1>2. TypeOK' /\ MappingSaysWritten'
  BY <1>1, ConfigKept DEF StartupInv, TypeOK, Stages
<1>3. MappingString' = MappingString
  BY <1>1 DEF config, MappingString
<1>4. StageReached'
  BY <1>1, <1>3 DEF StartupInv, StageReached, Checked, config
<1> QED
  BY <1>2, <1>4 DEF StartupInv

LEMMA TryKeyStep ==
  ASSUME StartupInv, NEW b \in DOMAIN mapping, TryKey(b)
  PROVE  StartupInv'
<1>1. /\ stage = "checking" /\ b \notin tried
      /\ UNCHANGED <<settings, next, mapping, disabled, exporters>>
      /\ MappingString' = MappingString
  BY DEF TryKey, MappingString
<1>2. MappingSaysWritten'
  BY <1>1, WrittenKept DEF StartupInv
<1>3. CASE mapping[b] \in Keys /\ tried' = tried \cup {b} /\ Goto("checking")
  <2>1. TypeOK'
    BY <1>1, <1>3, TypesOfStages DEF StartupInv, TypeOK, Stages, Goto
  <2>2. StageReached'
    BY <1>1, <1>3 DEF StartupInv, StageReached, Checked, Goto
  <2> QED
    BY <1>2, <2>1, <2>2 DEF StartupInv
<1>4. CASE Exit("fatal") /\ UNCHANGED tried
  <2>1. TypeOK'
    BY <1>1, <1>4, TypesOfStages DEF StartupInv, TypeOK, Stages, Exit
  <2>2. StageReached'
    BY <1>1, <1>4 DEF StartupInv, StageReached, Checked, Exit
  <2> QED
    BY <1>2, <2>1, <2>2 DEF StartupInv
<1> QED
  BY <1>3, <1>4 DEF TryKey, MayFail

LEMMA KeysCheckedStep ==
  ASSUME StartupInv, KeysChecked
  PROVE  StartupInv'
<1>1. /\ stage = "checking" /\ UNCHANGED <<config, exporters, exit>>
      /\ tried = DOMAIN mapping /\ stage' \in {"tracing", "starting"}
  BY DEF KeysChecked, Goto
<1>2. TypeOK' /\ MappingSaysWritten'
  BY <1>1, ConfigKept DEF StartupInv, TypeOK, Stages
<1>3. MappingString' = MappingString
  BY <1>1 DEF config, MappingString
<1>4. StageReached'
  BY <1>1, <1>3 DEF StartupInv, StageReached, Checked, config
<1> QED
  BY <1>2, <1>4 DEF StartupInv

(* From one stage after the check to another, or to the end.               *)
LEMMA ServerStages ==
  ASSUME StartupInv, UNCHANGED config, exporters' \subseteq {"trace", "metric"},
         \/ stage \in Checked /\ stage' \in {"metering", "starting", "serving"}
              /\ UNCHANGED exit
         \/ stage # "stopped" /\ stage' = "stopped"
              /\ exit' \in {"ok", "fatal", "aborted", "signal"}
  PROVE  StartupInv'
<1>1. TypeOK' /\ MappingSaysWritten'
  BY ConfigKept DEF StartupInv, TypeOK, Stages, Checked
<1>2. MappingString' = MappingString
  BY DEF config, MappingString
<1>3. StageReached'
  BY <1>2 DEF StartupInv, StageReached, Checked, config
<1> QED
  BY <1>1, <1>3 DEF StartupInv

LEMMA StartupStep == StartupInv /\ [Next]_vars => StartupInv'
<1> SUFFICES ASSUME StartupInv, [Next]_vars PROVE StartupInv'
  OBVIOUS
<1>1. CASE LoadConfig
  BY <1>1, LoadConfigStep
<1>2. CASE ParseEntry
  BY <1>2, ParseEntryStep
<1>3. CASE MappingParsed
  BY <1>3, MappingParsedStep
<1>4. CASE CheckMapping
  BY <1>4, CheckMappingStep
<1>5. CASE \E b \in DOMAIN mapping : TryKey(b)
  BY <1>5, TryKeyStep
<1>6. CASE KeysChecked
  BY <1>6, KeysCheckedStep
<1>7. CASE StartTracing
  BY <1>7, ServerStages
  DEF StartTracing, Goto, MayFail, Exit, Checked, StartupInv, TypeOK
<1>8. CASE StartMetering
  BY <1>8, ServerStages
  DEF StartMetering, Goto, MayFail, Exit, Checked, StartupInv, TypeOK
<1>9. CASE NewProxy
  BY <1>9, ServerStages
  DEF NewProxy, Goto, MayFail, Exit, Checked, StartupInv, TypeOK
<1>10. CASE ServerReturns
  BY <1>10, ServerStages DEF ServerReturns, Exit
<1>11. CASE Signal
  BY <1>11, ServerStages DEF Signal, Exit, StartupInv, TypeOK
<1>12. CASE UNCHANGED vars
  <2>1. UNCHANGED <<config, exporters, stage, exit, settings, next, mapping,
                    disabled, tried>>
    BY <1>12 DEF vars, config
  <2>2. TypeOK' /\ StageReached'
    BY <2>1 DEF StartupInv, TypeOK, StageReached, MappingString
  <2>3. MappingSaysWritten'
    BY <2>1, WrittenKept DEF StartupInv
  <2> QED
    BY <2>2, <2>3 DEF StartupInv
<1> QED
  BY <1>1, <1>2, <1>3, <1>4, <1>5, <1>6, <1>7, <1>8, <1>9, <1>10, <1>11,
     <1>12
  DEF Next, Step, Rest

(* Whatever an operator writes, the mapping an instance works with says    *)
(* what was written, and an instance past the check has tried every key.   *)
THEOREM MappingParsedAndChecked == Spec => []StartupInv
BY StartupInit, StartupStep, PTL DEF Spec

(* An instance that serves has a mapping, every key of which worked.       *)
THEOREM ServesOnlyChecked == Spec => []ServesChecked
<1>1. StartupInv => ServesChecked
  BY DEF StartupInv, StageReached, ServesChecked, Checked, IsMapping
<1> QED
  BY <1>1, MappingParsedAndChecked, PTL

(***************************************************************************)
(* The key of a bucket, read off the mapping string.                       *)
(***************************************************************************)
LEMMA KeyWritten ==
  ASSUME StartupInv, next = Len(MappingString) + 1, NEW b
  PROVE  /\ b \in DOMAIN mapping => Written(b, mapping[b])
         /\ b \notin DOMAIN mapping => \A x : ~Written(b, x)
<1>1. Len(MappingString) \in Nat
  BY StringOfEntries DEF StartupInv, TypeOK
<1>2. 1 .. next - 1 = 1 .. Len(MappingString)
  BY <1>1
<1>3. ASSUME b \in DOMAIN mapping
      PROVE  Written(b, mapping[b])
  <2>1. PICK i \in 1 .. next - 1 : /\ LastEntry(next, b, i)
                                   /\ Len(MappingString[i]) > 1
                                   /\ mapping[b] = MappingString[i][2]
    BY <1>3 DEF StartupInv, MappingSaysWritten
  <2> QED
    BY <1>2, <2>1 DEF Written
<1>4. ASSUME b \notin DOMAIN mapping, NEW x
      PROVE  ~Written(b, x)
  <2>1. \A i \in 1 .. Len(MappingString) : MappingString[i][1] # b
    BY <1>2, <1>4 DEF StartupInv, MappingSaysWritten
  <2> QED
    BY <2>1 DEF Written, LastEntry
<1> QED
  BY <1>3, <1>4

(* A serving instance gives every bucket the key of the mapping string,    *)
(* and that alone decides whether its uploads are intercepted.             *)
THEOREM KeysAsWritten == Spec => []MappingObeyed
<1>1. StartupInv => MappingObeyed
  <2> SUFFICES ASSUME StartupInv, stage = "serving", NEW b \in Buckets
               PROVE  LET k == GetKMSKeyName(mapping, b)
                      IN  /\ \/ Written("*", k)
                             \/ (\A x \in Keys : ~Written("*", x))
                                  /\ Written(b, k)
                             \/ k = NoKey /\ \A x \in Keys :
                                  ~Written("*", x) /\ ~Written(b, x)
                          /\ \A r \in Uploads(b) :
                               InterceptGcsMethod(mapping, r) = "passThru"
                                 <=> k = NoKey
    BY DEF MappingObeyed
  <2>1. next = Len(MappingString) + 1
    BY DEF StartupInv, StageReached, Checked
  <2>2. ASSUME NEW c
        PROVE  /\ c \in DOMAIN mapping => Written(c, mapping[c])
               /\ c \notin DOMAIN mapping => \A x : ~Written(c, x)
    BY <2>1, KeyWritten
  <2>3. PICK k : k = GetKMSKeyName(mapping, b)
    OBVIOUS
  <2>4. \/ Written("*", k)
        \/ (\A x \in Keys : ~Written("*", x)) /\ Written(b, k)
        \/ k = NoKey /\ \A x \in Keys : ~Written("*", x) /\ ~Written(b, x)
    <3>1. CASE "*" \in DOMAIN mapping
      <4>1. k = mapping["*"]
        BY <2>3, <3>1 DEF GetKMSKeyName
      <4> QED
        BY <2>2, <3>1, <4>1
    <3>2. CASE "*" \notin DOMAIN mapping
      <4>1. \A x : ~Written("*", x)
        BY <2>2, <3>2
      <4>2. CASE b \in DOMAIN mapping
        <5>1. k = mapping[b]
          BY <2>3, <3>2, <4>2 DEF GetKMSKeyName
        <5> QED
          BY <2>2, <4>1, <4>2, <5>1
      <4>3. CASE b \notin DOMAIN mapping
        <5>1. k = NoKey
          BY <2>3, <3>2, <4>3 DEF GetKMSKeyName
        <5>2. \A x : ~Written(b, x)
          BY <2>2, <4>3
        <5> QED
          BY <4>1, <5>1, <5>2
      <4> QED
        BY <4>2, <4>3
    <3> QED
      BY <3>1, <3>2
  <2>5. ASSUME NEW r \in Uploads(b)
        PROVE  InterceptGcsMethod(mapping, r) = "passThru" <=> k = NoKey
    <3>1. /\ r.path = UploadPath(b) /\ r.method = "POST"
          /\ r.query.uploadType \in {"multipart", "media", "resumable"}
      <4>1. PICK type \in {"multipart", "media", "resumable"} :
              r = [method |-> "POST", path |-> UploadPath(b), range |-> "none",
                   query |-> [NoQuery EXCEPT !.uploadType = type],
                   body |-> NoBody, digest |-> NoContent]
        BY DEF Uploads
      <4>2. r.query.uploadType = type
        BY <4>1 DEF NoQuery
      <4> QED
        BY <4>1, <4>2
    <3> QED
      BY <2>3, <3>1, UploadIntercepted
  <2> QED
    BY <2>3, <2>4, <2>5
<1> QED
  BY <1>1, MappingParsedAndChecked, PTL

(* A main that ends by itself leaves no exporter running.                  *)
THEOREM TelemetryFlushed == Spec => []ExportersShutDown
<1>1. Init => ExportersShutDown
  BY DEF Init, ExportersShutDown
<1>2. StartupInv /\ ExportersShutDown /\ [Next]_vars => ExportersShutDown'
  <2> SUFFICES ASSUME StartupInv, ExportersShutDown, [Next]_vars,
                      exit' \in {"ok", "fatal", "panic"}
               PROVE  exporters' = {}
    BY DEF ExportersShutDown
  <2> USE DEF ExportersShutDown, Goto, Exit, MayFail
  <2>1. stage # "stopped" => exit = "none"
    BY DEF StartupInv, TypeOK
  <2>2. stage \in {"main", "parsing", "loaded", "checking", "tracing"}
          => exporters = {}
    BY DEF StartupInv, StageReached
  <2>3. CASE LoadConfig
    BY <2>1, <2>3 DEF LoadConfig
  <2>4. CASE ParseEntry
    BY <2>1, <2>2, <2>4 DEF ParseEntry
  <2>5. CASE MappingParsed
    BY <2>1, <2>5 DEF MappingParsed
  <2>6. CASE CheckMapping
    BY <2>2, <2>6 DEF CheckMapping
  <2>7. CASE \E b \in DOMAIN mapping : TryKey(b)
    BY <2>2, <2>7 DEF TryKey
  <2>8. CASE KeysChecked
    BY <2>1, <2>8 DEF KeysChecked
  <2>9. CASE StartTracing
    BY <2>1, <2>2, <2>9 DEF StartTracing
  <2>10. CASE StartMetering
    BY <2>1, <2>10 DEF StartMetering
  <2>11. CASE NewProxy
    BY <2>1, <2>11 DEF NewProxy
  <2>12. CASE ServerReturns
    BY <2>12 DEF ServerReturns
  <2>13. CASE Signal
    BY <2>13 DEF Signal
  <2>14. CASE UNCHANGED vars
    BY <2>14 DEF vars
  <2> QED
    BY <2>3, <2>4, <2>5, <2>6, <2>7, <2>8, <2>9, <2>10, <2>11, <2>12, <2>13,
       <2>14
    DEF Next, Step, Rest
<1> QED
  BY <1>1, <1>2, MappingParsedAndChecked, PTL DEF Spec
=============================================================================
