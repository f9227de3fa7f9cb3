---------------------------- MODULE EncryptedStore ---------------------------
(***************************************************************************)
(* What a client of the proxy is promised, without the proxy: a store of   *)
(* plaintext objects, on which every exchange takes effect in one step, at *)
(* most once, between its request and its answer.  There are no keys here, *)
(* no ciphertexts, no instances and no session files.                      *)
(*                                                                         *)
(* An exchange may always fail, before or after it took effect, and its    *)
(* connection may break, after which it may still take effect; but an      *)
(* answer that is a success tells the truth.                               *)
(***************************************************************************)
CONSTANTS
  Exchanges, Objects, Ids, Data,
  Asks,     (* what clients may ask for                                   *)
  Empty,    (* the content of an empty object                             *)
  Absent, NoObject, NoId, NoAsk, Nothing, Refused

Kinds == {"write", "read", "stat", "erase", "open", "other"}

(* A write names its object, or the upload id of a session for it.  fresh: *)
(* only if the object does not exist.  frail: a write the proxy is known   *)
(* to turn into that of an empty object.                                   *)
AskType == [kind : Kinds, obj : Objects, id : Ids \cup {NoId}, data : Data,
            fresh : BOOLEAN, frail : BOOLEAN]

VARIABLES
  objects,   (* the plaintext of every object, and the digest it shows    *)
  sessions,  (* the object each upload id was handed out for              *)
  phase,     (* of an exchange: idle, open, acted (it took effect), done; *)
             (* or, its connection broken, adrift (it may yet) and gone   *)
  ask,       (* what its client asked for                                 *)
  outcome,   (* what it did or saw, once it acted                         *)
  reply      (* what its client was told                                  *)

Phases == {"idle", "open", "acted", "done", "adrift", "gone"}
vars == <<objects, sessions, phase, ask, outcome, reply>>

Init ==
  /\ objects \in [Objects -> [data : Data, digest : Data] \cup {Absent}]
  /\ sessions = [id \in Ids |-> NoObject]
  /\ phase = [x \in Exchanges |-> "idle"]
  /\ ask = [x \in Exchanges |-> NoAsk]
  /\ outcome = [x \in Exchanges |-> Nothing]
  /\ reply = [x \in Exchanges |-> Nothing]

Submit(x) ==
  /\ phase[x] = "idle"
  /\ phase' = [phase EXCEPT ![x] = "open"]
  /\ \E a \in Asks : ask' = [ask EXCEPT ![x] = a]
  /\ UNCHANGED <<objects, sessions, outcome, reply>>

Acting(x, kinds) == /\ phase[x] \in {"open", "adrift"}
                    /\ ask[x] # NoAsk /\ ask[x].kind \in kinds

(* The one step in which x takes effect, with outcome v.                   *)
Act(x, v) ==
  /\ phase' = [phase EXCEPT ![x] = IF @ = "open" THEN "acted" ELSE "gone"]
  /\ outcome' = IF phase[x] = "open" THEN [outcome EXCEPT ![x] = v]
                ELSE outcome
  /\ UNCHANGED <<ask, reply>>

Target(a) == IF a.id = NoId THEN a.obj ELSE sessions[a.id]

Write(x) ==
  /\ Acting(x, {"write"})
  /\ LET a   == ask[x]
         obj == Target(a)
     IN  /\ obj \in Objects
         /\ a.fresh => objects[obj] = Absent
         /\ \E d \in {a.data} \cup (IF a.frail THEN {Empty} ELSE {}) :
              /\ Act(x, d)
              /\ objects' = [objects EXCEPT ![obj] = [data |-> d, digest |-> d]]
  /\ UNCHANGED sessions

Read(x) ==
  /\ Acting(x, {"read", "stat"})
  /\ LET seen == objects[ask[x].obj]
     IN  /\ seen # Absent
         /\ Act(x, IF ask[x].kind = "read" THEN seen.data ELSE seen.digest)
  /\ UNCHANGED <<objects, sessions>>

Erase(x) ==
  /\ Acting(x, {"erase"})
  /\ objects[ask[x].obj] # Absent
  /\ Act(x, Nothing)
  /\ objects' = [objects EXCEPT ![ask[x].obj] = Absent]
  /\ UNCHANGED sessions

Open(x) ==
  /\ Acting(x, {"open"})
  /\ \E id \in Ids :
       /\ sessions[id] = NoObject
       /\ sessions' = [sessions EXCEPT ![id] = ask[x].obj]
       /\ Act(x, id)
  /\ UNCHANGED objects

(* What the proxy lets pass and does not interpret.                        *)
Other(x) ==
  /\ Acting(x, {"other"})
  /\ Act(x, Nothing)
  /\ UNCHANGED <<objects, sessions>>

Answer(x) ==
  /\ phase[x] = "acted"
  /\ phase' = [phase EXCEPT ![x] = "done"]
  /\ reply' = [reply EXCEPT ![x] = outcome[x]]
  /\ outcome' = [outcome EXCEPT ![x] = Nothing]
  /\ UNCHANGED <<objects, sessions, ask>>

Fail(x) ==
  /\ phase[x] \in {"open", "acted"}
  /\ phase' = [phase EXCEPT ![x] = "done"]
  /\ reply' = [reply EXCEPT ![x] = Refused]
  /\ outcome' = [outcome EXCEPT ![x] = Nothing]
  /\ UNCHANGED <<objects, sessions, ask>>

(* Connections break one by one, or those of a dying instance together.    *)
Break ==
  /\ phase' \in [Exchanges -> Phases]
  /\ \A x \in Exchanges :
       \/ phase'[x] = phase[x]
       \/ phase[x] = "open" /\ phase'[x] = "adrift"
       \/ phase[x] \in {"open", "acted", "adrift"} /\ phase'[x] = "gone"
  /\ outcome' = [x \in Exchanges |->
                   IF phase'[x] = phase[x] THEN outcome[x] ELSE Nothing]
  /\ UNCHANGED <<objects, sessions, ask, reply>>

Next ==
  \/ Break
  \/ \E x \in Exchanges :
       \/ Submit(x) \/ Write(x) \/ Read(x) \/ Erase(x) \/ Open(x) \/ Other(x)
       \/ Answer(x) \/ Fail(x)

Spec == Init /\ [][Next]_vars
=============================================================================
