------------------------- MODULE ProvisioningProofs -------------------------
(***************************************************************************)
(* Provisioning keeps its types and implements Onboarding, for credentials *)
(* of any length and any number of attempts.                               *)
(***************************************************************************)
EXTENDS Provisioning, TLAPS

USE DEF command

Identified == {"cert", "key"}
Saves      == {"saveCert", "saveKey", "saveProfile"}

(* A slot holds all of what an attempt writes to it. *)
Filled(settings, s, id) == settings[s].by = id /\ settings[s].size = Factory[s].size

(* Whole, slot by slot. *)
LEMMA WholeSlots ==
  ASSUME NEW settings \in Settings
  PROVE  Whole(settings) <=> /\ \A s \in Slots \ Identified : Filled(settings, s, settings["host"].by)
                             /\ Filled(settings, "key", settings["cert"].by)
                             /\ settings["cert"].size = Factory["cert"].size
<1>1. Factory \in Settings
  BY ProvisioningAssumption DEF Factory, Settings, Ids, Slots, Certs
<1>2. ASSUME NEW s \in Slots, NEW id \in Ids
      PROVE  settings[s] = [Factory[s] EXCEPT !.by = id] <=> Filled(settings, s, id)
  <2>1. settings[s] \in [by : Ids, size : Nat] /\ Factory[s] \in [by : Ids, size : Nat]
    BY <1>1 DEF Settings
  <2>2. [Factory[s] EXCEPT !.by = id] = [by |-> id, size |-> Factory[s].size]
    BY <2>1
  <2>3. settings[s] = [by |-> settings[s].by, size |-> settings[s].size]
    BY <2>1
  <2> QED BY <2>2, <2>3 DEF Filled
<1>3. settings["host"].by \in Ids /\ settings["cert"].by \in Ids
  BY DEF Settings, Slots, Certs, Endpoints
<1> QED BY <1>2, <1>3 DEF Whole, Identified, Slots, Certs, Endpoints

(* The slots that are filled when the command has come to stage p. *)
Done(p) ==
  CASE p = "cloud"  -> {"host"}
    [] p = "device" -> {"host", "cloud"}
    [] p = "ca"     -> Endpoints
    [] p = "cert"   -> Endpoints \cup {"ca"}
    [] p = "key"    -> Endpoints \cup {"ca", "cert"}
    [] p \in {"apply", "reboot"} \cup Saves -> Written
    [] OTHER -> {}

(* Each slot is filled by its own request, behind the ones before it. *)
LEMMA DoneBefore ==
  ASSUME NEW s \in Requests
  PROVE  Done(After(s)) \subseteq Done(s) \cup ({s} \cap Slots) /\ s \notin Done(s)
<1>1. CASE s \in {"deviceId", "wifiSet", "wifiApply"}
  BY <1>1 DEF Done, After, Saves
<1>2. CASE s \in Endpoints
  BY <1>2 DEF Done, After, Saves, Slots, Certs, Endpoints
<1>3. CASE s \in Certs
  BY <1>3 DEF Done, After, Saves, Written, Slots, Certs, Endpoints
<1>4. CASE s \in {"apply", "reboot"}
  BY <1>4 DEF Done, After, Saves, Written, Slots, Certs, Endpoints
<1> QED BY <1>1, <1>2, <1>3, <1>4 DEF Requests, Slots

LEMMA DoneStages ==
  /\ \A p \in Stages : Done(p) \subseteq Slots
  /\ \A p \in {"apply", "reboot"} \cup Saves : Done(p) = Written
  /\ \A p \in {"idle", "linking", "confirm", "deviceId", "wifiSet", "wifiApply", "verify", "host"} : Done(p) = {}
<1>1. \A p \in {"apply", "reboot"} \cup Saves : Done(p) = Written
  BY DEF Done, Saves
<1>2. \A p \in {"idle", "linking", "confirm", "deviceId", "wifiSet", "wifiApply", "verify", "host"} : Done(p) = {}
  BY DEF Done, Saves
<1>3. \A p \in {"cloud", "device", "ca", "cert", "key"} : Done(p) \subseteq Slots
  BY DEF Done, Slots, Certs, Endpoints, Saves
<1>4. \A p \in Stages : \/ p \in {"apply", "reboot"} \cup Saves
                        \/ p \in {"idle", "linking", "confirm", "deviceId", "wifiSet", "wifiApply", "verify", "host"}
                        \/ p \in {"cloud", "device", "ca", "cert", "key"}
  BY DEF Stages, Requests, Saves, Slots, Certs, Endpoints
<1> QED BY <1>1, <1>2, <1>3, <1>4 DEF Written

(* The stages in which the robot's broker settings are still untouched. *)
Early == {"linking", "confirm", "deviceId", "wifiSet", "wifiApply", "verify"}

(* The order of the requests. *)
LEMMA Order ==
  ASSUME NEW s \in Requests
  PROVE  /\ After(s) \in Stages \ {"idle", "linking", "confirm"}
         /\ After(s) \in Identified => WithIdentity \/ s = "cert"
         /\ After(s) \in Saves <=> s = "reboot"
         /\ After(s) = "reboot" <=> s = "apply"
         /\ After(s) \in Early => s \in {"deviceId", "wifiSet", "wifiApply"}
<1>1. s \in {"deviceId", "wifiSet", "wifiApply", "host", "cloud", "device", "ca", "cert", "key", "apply", "reboot"}
  BY DEF Requests, Slots, Certs, Endpoints
<1>2. CASE s \in {"deviceId", "wifiSet", "wifiApply", "host", "cloud", "device"}
  BY <1>2 DEF After, Stages, Requests, Slots, Certs, Endpoints, Identified, Saves, Early
<1>3. CASE s \in {"ca", "cert", "key", "apply", "reboot"}
  BY <1>3 DEF After, Stages, Requests, Slots, Certs, Endpoints, Identified, Saves, Early
<1> QED BY <1>1, <1>2, <1>3

-----------------------------------------------------------------------------
(* Types, and the piece that is never longer than what is left. *)
Fits == pc \in Certs => offset <= Chars[pc]
Typed == TypeOK /\ Fits

LEMMA Constants ==
  /\ Factory \in Settings /\ \A c \in Certs : Factory[c].size = Chars[c] /\ Chars[c] \in Nat
  /\ Factory["host"].by = 0
BY ProvisioningAssumption DEF Factory, Settings, Ids, Slots, Certs, Endpoints

LEMMA PieceFits ==
  ASSUME Typed, pc \in Requests
  PROVE  /\ Piece(pc) \in Nat
         /\ pc \in Certs => offset + Piece(pc) <= Chars[pc]
BY ProvisioningAssumption, Constants DEF Typed, TypeOK, Fits, Piece

LEMMA ValueType ==
  ASSUME TypeOK, NEW s \in Slots
  PROVE  Value(s) \in Ids
BY DEF TypeOK, Value

(* What a request stages is a slot of its own, and the rest stays. *)
LEMMA StagedByRequest ==
  ASSUME Typed, pc \in Requests, CarryOut(pc, Piece(pc))
  PROVE  /\ staged' \in Settings /\ nvs' \in Settings /\ clientId' \in ClientIds /\ station' \in Stations
         /\ \A c \in Certs : staged'[c].size <= Chars[c] /\ nvs'[c].size <= Chars[c]
         /\ \A t \in Slots \ {pc} : staged'[t] = staged[t]
         /\ pc \notin Slots => staged' = staged
         /\ pc \in Endpoints => staged'[pc] = [by |-> Value(pc), size |-> 1]
         /\ pc \in Certs => staged'[pc] = [by |-> Value(pc), size |-> offset + Piece(pc)]
<1>1. staged \in [Slots -> [by : Ids, size : Nat]] /\ offset \in Nat
  BY DEF Typed, TypeOK, Settings
<1>2. Slots = Certs \cup Endpoints /\ Certs \cap Endpoints = {}
  BY DEF Slots, Certs, Endpoints
<1>3. CASE pc \in Endpoints
  <2>1. staged' = [staged EXCEPT ![pc] = [by |-> Value(pc), size |-> 1]]
    BY <1>3, <1>2 DEF CarryOut
  <2>2. [by |-> Value(pc), size |-> 1] \in [by : Ids, size : Nat]
    BY ValueType, <1>3, <1>2 DEF Typed
  <2>3. staged' \in Settings /\ \A c \in Certs : staged'[c] = staged[c]
    BY <2>1, <2>2, <1>1, <1>2, <1>3 DEF Settings
  <2>4. pc # "apply" /\ pc # "deviceId" /\ pc # "wifiApply"
    BY <1>3 DEF Endpoints
  <2> QED BY <2>1, <2>2, <2>3, <2>4, <1>1, <1>2, <1>3 DEF CarryOut, Typed, TypeOK
<1>4. CASE pc \in Certs
  <2>1. staged' = [staged EXCEPT ![pc] = [by |-> Value(pc), size |-> offset + Piece(pc)]]
    BY <1>4, <1>2 DEF CarryOut
  <2>2. Piece(pc) \in Nat /\ offset + Piece(pc) <= Chars[pc]
    BY PieceFits, <1>4
  <2>3. [by |-> Value(pc), size |-> offset + Piece(pc)] \in [by : Ids, size : Nat]
    BY ValueType, <2>2, <1>1, <1>2, <1>4 DEF Typed
  <2>4. staged' \in Settings
    BY <2>1, <2>3, <1>1 DEF Settings
  <2>5. /\ \A t \in Slots \ {pc} : staged'[t] = staged[t]
        /\ staged'[pc] = [by |-> Value(pc), size |-> offset + Piece(pc)]
    BY <2>1, <1>1, <1>2, <1>4
  <2>6. \A c \in Certs : staged'[c].size <= Chars[c]
    <3> TAKE c \in Certs
    <3>1. CASE c = pc
      BY <3>1, <2>5, <2>2
    <3>2. CASE c # pc
      BY <3>2, <2>5, <1>2 DEF Typed, TypeOK
    <3> QED BY <3>1, <3>2
  <2>7. pc # "apply" /\ pc # "deviceId" /\ pc # "wifiApply"
    BY <1>4 DEF Certs
  <2> QED BY <2>4, <2>5, <2>6, <2>7, <1>2, <1>4 DEF CarryOut, Typed, TypeOK
<1>5. CASE pc \notin Slots
  BY <1>5, <1>2 DEF CarryOut, Typed, TypeOK, ClientIds, Stations
<1> QED BY <1>2, <1>3, <1>4, <1>5

(* Where an answered request leads. *)
LEMMA ProceedTyped ==
  ASSUME Typed, pc \in Requests, Proceed(pc)
  PROVE  pc' \in Stages /\ offset' \in Nat /\ (pc' \in Certs => offset' <= Chars[pc']) /\ outcome' \in Ends
<1>1. CASE pc \in Certs /\ offset + Piece(pc) < Bytes[pc]
  BY <1>1, PieceFits DEF Proceed, Go, Typed, TypeOK
<1>2. CASE ~(pc \in Certs /\ offset + Piece(pc) < Bytes[pc])
  BY <1>2, Order, Constants DEF Proceed, Typed, TypeOK, Ends
<1> QED BY <1>1, <1>2

(* The parts of Typed, and the steps that leave the robot or the files alone. *)
RobotTyped == /\ staged \in Settings /\ nvs \in Settings /\ clientId \in ClientIds /\ station \in Stations
              /\ \A c \in Certs : staged[c].size <= Chars[c] /\ nvs[c].size <= Chars[c]
FilesTyped == certFile \in Ids /\ keyFile \in Ids /\ profile \in Ids
TypedRest  == /\ pc \in Stages /\ attempt \in Ids /\ dry \in BOOLEAN /\ identity \in Ids
              /\ secret \in Ids /\ offset \in Nat
              /\ poll \in [elapsed : Nat, associated : Nat \cup {-1}, last : Statuses]
              /\ outcome \in Ends /\ awaiting \in BOOLEAN
              /\ before \in [nvs : Settings, staged : Settings, clientId : ClientIds] /\ accepted \in SUBSET Ids

LEMMA TypedParts == Typed <=> RobotTyped /\ FilesTyped /\ TypedRest /\ Fits
BY DEF Typed, TypeOK, RobotTyped, FilesTyped, TypedRest

LEMMA TypedPartsNext == Typed' <=> RobotTyped' /\ FilesTyped' /\ TypedRest' /\ Fits'
BY DEF Typed, TypeOK, RobotTyped, FilesTyped, TypedRest

LEMMA TypedInit == Init => Typed
<1> SUFFICES ASSUME Init PROVE Typed
  OBVIOUS
<1>1. attempt \in Ids /\ accepted \in SUBSET Ids /\ identity \in Ids /\ secret \in Ids
  BY ProvisioningAssumption DEF Init, Ids
<1>2. RobotTyped
  BY Constants DEF Init, RobotTyped, ClientIds, Stations
<1>3. TypedRest
  <2>1. before \in [nvs : Settings, staged : Settings, clientId : ClientIds]
    <3>1. before = [nvs |-> Factory, staged |-> Factory, clientId |-> "factory"]
      BY DEF Init
    <3>2. Factory \in Settings /\ "factory" \in ClientIds
      BY Constants DEF ClientIds
    <3> QED BY <3>1, <3>2
  <2>2. poll \in [elapsed : Nat, associated : Nat \cup {-1}, last : Statuses]
    BY DEF Init, Statuses
  <2>3. pc \in Stages /\ offset \in Nat /\ outcome \in Ends /\ awaiting \in BOOLEAN /\ dry = FALSE
    BY DEF Init, Stages, Ends
  <2> QED BY <1>1, <2>1, <2>2, <2>3 DEF TypedRest
<1>4. FilesTyped /\ Fits
  BY ProvisioningAssumption DEF Init, FilesTyped, Fits, Ids, Certs
<1> QED BY <1>2, <1>3, <1>4, TypedParts

LEMMA RobotKept == RobotTyped /\ UNCHANGED robot => RobotTyped'
BY DEF RobotTyped, robot

LEMMA FilesKept == FilesTyped /\ UNCHANGED files => FilesTyped'
BY DEF FilesTyped, files

LEMMA TypedBegin ==
  ASSUME Typed, NEW reissue \in BOOLEAN, NEW supplied \in BOOLEAN, NEW rehearse \in BOOLEAN,
         Begin(reissue, supplied, rehearse)
  PROVE  Typed'
<1> USE TypedParts
<1>1. attempt' \in Ids /\ dry' \in BOOLEAN /\ offset' = 0 /\ UNCHANGED <<awaiting, files, accepted>>
  BY ProvisioningAssumption DEF Begin, TypedRest, Ids
<1>2. poll' \in [elapsed : Nat, associated : Nat \cup {-1}, last : Statuses]
  BY DEF Begin, Statuses
<1>3. pc' \in {"idle", "linking"} /\ outcome' \in Ends /\ identity' \in Ids /\ secret' \in Ids /\ RobotTyped'
  <2>1. CASE Unmatched /\ ~supplied
    BY <2>1, RobotKept DEF Begin, TypedRest, Ends
  <2>2. CASE ~(Unmatched /\ ~supplied)
    <3>1. pc' = "linking" /\ outcome' \in Ends
      BY <2>2 DEF Begin, Ends
    <3>2. identity' \in {0, certFile, attempt'} /\ secret' \in {0, keyFile, attempt'}
      BY <2>2 DEF Begin
    <3>3. identity' \in Ids /\ secret' \in Ids
      BY <3>2, <1>1, ProvisioningAssumption DEF FilesTyped, Ids
    <3>4. staged' \in {staged, nvs} /\ nvs' = nvs /\ clientId' = clientId /\ station' \in Stations
      BY <2>2 DEF Begin, Stations
    <3> QED BY <3>1, <3>3, <3>4 DEF RobotTyped
  <2> QED BY <2>1, <2>2
<1>4. before' \in [nvs : Settings, staged : Settings, clientId : ClientIds]
  <2>1. before' = [nvs |-> nvs, staged |-> staged', clientId |-> clientId]
    BY DEF Begin
  <2> QED BY <2>1, <1>3 DEF RobotTyped
<1>5. TypedRest'
  BY <1>1, <1>2, <1>3, <1>4 DEF TypedRest, Stages
<1> QED BY <1>1, <1>3, <1>5, FilesKept, TypedPartsNext DEF Fits, Certs

LEMMA TypedRequest ==
  ASSUME Typed, pc \in Requests, Request(pc)
  PROVE  Typed'
<1> USE TypedParts
<1>1. RobotTyped'
  <2>1. CASE CarryOut(pc, Piece(pc))
    BY <2>1, StagedByRequest DEF RobotTyped
  <2>2. CASE UNCHANGED robot
    BY <2>2, RobotKept
  <2> QED BY <2>1, <2>2 DEF Request
<1>2. pc' \in Stages /\ offset' \in Nat /\ (pc' \in Certs => offset' <= Chars[pc']) /\ outcome' \in Ends
  <2>1. CASE Proceed(pc)
    BY <2>1, ProceedTyped
  <2>2. CASE End("failed") /\ UNCHANGED offset
    BY <2>2 DEF End, Ends, Stages, Certs, TypedRest
  <2> QED BY <2>1, <2>2 DEF Request
<1>3. awaiting' \in BOOLEAN /\ accepted' \in SUBSET Ids /\ UNCHANGED <<attempt, dry, identity, secret, poll, files, before>>
  BY DEF Request, TypedRest
<1>4. TypedRest'
  BY <1>2, <1>3 DEF TypedRest
<1> QED BY <1>1, <1>2, <1>3, <1>4, FilesKept, TypedPartsNext DEF Fits

LEMMA TypedRehearse ==
  ASSUME Typed, pc \in Requests, Rehearse(pc)
  PROVE  Typed'
<1> USE TypedParts
<1>1. pc' \in Stages /\ offset' \in Nat /\ (pc' \in Certs => offset' <= Chars[pc']) /\ outcome' \in Ends
  <2>1. CASE pc = "apply"
    BY <2>1 DEF Rehearse, End, Ends, Stages, Certs
  <2>2. CASE pc = "wifiApply"
    BY <2>2 DEF Rehearse, Go, TypedRest, Stages, Requests, Slots, Endpoints, Certs
  <2>3. CASE pc # "apply" /\ pc # "wifiApply"
    BY <2>3, ProceedTyped DEF Rehearse
  <2> QED BY <2>1, <2>2, <2>3
<1>2. UNCHANGED <<attempt, dry, identity, secret, poll, robot, awaiting, files, before, accepted>>
  BY DEF Rehearse
<1>3. TypedRest'
  BY <1>1, <1>2 DEF TypedRest
<1> QED BY <1>1, <1>2, <1>3, FilesKept, RobotKept, TypedPartsNext DEF Fits

LEMMA TypedPoll ==
  ASSUME Typed, Poll
  PROVE  Typed'
<1> USE TypedParts
<1>1. awaiting' = FALSE /\ UNCHANGED <<attempt, dry, identity, secret, offset, robot, files, before, accepted>>
  BY DEF Poll
<1>2. pc' \in {"verify", "host", "idle"} /\ outcome' \in Ends
  BY DEF Poll, Settled, End, TypedRest, Ends
<1>3. poll' \in [elapsed : Nat, associated : Nat \cup {-1}, last : Statuses]
  <2>1. poll.elapsed \in Nat /\ poll.associated \in Nat \cup {-1} /\ poll.last \in Statuses
    BY DEF TypedRest
  <2>2. PICK now \in poll.elapsed + 1 .. Wait :
          \E a \in {poll.associated, now}, l \in {poll.last, "pending", "connected"} : Learns(now, a, l)
    BY DEF Poll
  <2>3. now \in Nat
    BY <2>1, <2>2, ProvisioningAssumption
  <2>4. \A l \in {poll.last, "pending", "connected"} : l \in Statuses
    BY <2>1 DEF Statuses
  <2> QED BY <2>1, <2>2, <2>3, <2>4 DEF Learns
<1>4. TypedRest'
  BY <1>1, <1>2, <1>3 DEF TypedRest, Stages, Requests, Slots, Endpoints
<1> QED BY <1>1, <1>2, <1>4, FilesKept, RobotKept, TypedPartsNext DEF Fits, Certs

LEMMA TypedOther ==
  ASSUME Typed, Ask \/ PollOver \/ Linked \/ Confirm \/ Radio \/ SaveCert \/ SaveKey \/ SaveProfile \/ Kill
  PROVE  Typed'
<1> USE TypedParts
<1>1. CASE Linked \/ Confirm
  <2>1. /\ UNCHANGED <<attempt, dry, identity, secret, offset, poll, robot, awaiting, files, before, accepted>>
        /\ pc' \in {"confirm", "deviceId", "idle"} /\ outcome' \in Ends
    BY <1>1 DEF Linked, Confirm, Go, End, Ends, TypedRest
  <2>2. TypedRest'
    BY <2>1 DEF TypedRest, Stages, Requests
  <2> QED BY <2>1, <2>2, FilesKept, RobotKept, TypedPartsNext DEF Fits, Certs
<1>2. CASE Radio
  <2>1. /\ UNCHANGED <<pc, attempt, dry, identity, secret, offset, poll, outcome, staged, nvs, clientId, awaiting,
                    files, before, accepted>>
        /\ station' \in Stations
    BY <1>2 DEF Radio, Stations
  <2>2. TypedRest' /\ RobotTyped'
    BY <2>1 DEF TypedRest, RobotTyped
  <2> QED BY <2>1, <2>2, FilesKept, TypedPartsNext DEF Fits
<1>3. CASE SaveCert \/ SaveKey \/ SaveProfile
  <2>1. /\ UNCHANGED <<attempt, dry, identity, secret, offset, poll, outcome, robot, awaiting, before, accepted>>
        /\ pc' \in {"saveKey", "saveProfile", "idle"}
    BY <1>3 DEF SaveCert, SaveKey, SaveProfile, Go
  <2>2. FilesTyped'
    BY <1>3 DEF SaveCert, SaveKey, SaveProfile, FilesTyped, TypedRest
  <2>3. TypedRest'
    BY <2>1 DEF TypedRest, Stages
  <2> QED BY <2>1, <2>2, <2>3, RobotKept, TypedPartsNext DEF Fits, Certs
<1>4. CASE Kill
  <2>1. /\ UNCHANGED <<attempt, dry, identity, secret, offset, poll, files, before, accepted>>
        /\ awaiting' = FALSE /\ pc' = "idle" /\ outcome' \in Ends
    BY <1>4 DEF Kill, Ends, TypedRest
  <2>2. TypedRest'
    BY <2>1 DEF TypedRest, Stages
  <2>3. RobotTyped'
    <3>1. CASE UNCHANGED robot
      BY <3>1, RobotKept
    <3>2. CASE pc \in Requests /\ CarryOut(pc, Piece(pc))
      BY <3>2, StagedByRequest DEF RobotTyped
    <3> QED BY <1>4, <3>1, <3>2 DEF Kill
  <2> QED BY <2>1, <2>2, <2>3, FilesKept, TypedPartsNext DEF Fits, Certs
<1>5. CASE Ask
  <2>1. /\ UNCHANGED <<pc, attempt, dry, identity, secret, offset, poll, outcome, robot, files, before, accepted>>
        /\ awaiting' = TRUE
    BY <1>5 DEF Ask
  <2>2. TypedRest'
    BY <2>1 DEF TypedRest
  <2> QED BY <2>1, <2>2, FilesKept, RobotKept, TypedPartsNext DEF Fits
<1>6. CASE PollOver
  <2>1. /\ UNCHANGED <<attempt, dry, identity, secret, offset, poll, outcome, robot, awaiting, files, before, accepted>>
        /\ pc' = "host"
    BY <1>6 DEF PollOver, Settled
  <2>2. TypedRest'
    BY <2>1 DEF TypedRest, Stages, Requests, Slots, Endpoints
  <2> QED BY <2>1, <2>2, FilesKept, RobotKept, TypedPartsNext DEF Fits, Certs
<1> QED BY <1>1, <1>2, <1>3, <1>4, <1>5, <1>6

LEMMA TypedStep == Typed /\ [Next]_vars => Typed'
<1> SUFFICES ASSUME Typed, [Next]_vars PROVE Typed'
  OBVIOUS
<1>1. ASSUME NEW reissue \in BOOLEAN, NEW supplied \in BOOLEAN, NEW rehearse \in BOOLEAN,
             Begin(reissue, supplied, rehearse)
      PROVE  Typed'
  BY <1>1, TypedBegin
<1>2. ASSUME NEW s \in Requests, Request(s) PROVE Typed'
  BY <1>2, TypedRequest DEF Request
<1>3. ASSUME NEW s \in Requests, Rehearse(s) PROVE Typed'
  BY <1>3, TypedRehearse DEF Rehearse
<1>4. CASE UNCHANGED vars
  BY <1>4 DEF vars, files, Typed, TypeOK, Fits
<1> QED BY <1>1, <1>2, <1>3, <1>4, TypedPoll, TypedOther DEF Next, Session, Returns

(***************************************************************************)
(* Every variable keeps its type: no upload takes more of a credential     *)
(* than there is, whatever its length and the size of a piece.             *)
(***************************************************************************)
THEOREM TypeCorrect == Spec => []TypeOK
<1>1. Typed => TypeOK
  BY DEF Typed
<1> QED BY TypedInit, TypedStep, <1>1, PTL DEF Spec

-----------------------------------------------------------------------------
(***************************************************************************)
(* The inductive invariant: what the stage of the command says of the      *)
(* robot's staged settings, of the committed ones and of the store.        *)
(***************************************************************************)
Committing == {"reboot"} \cup Saves

Waits == awaiting => ~dry /\ pc \in Requests \cup {"verify"}

(* The certificate and the key in hand belong together. *)
Paired == secret = identity

Ordered ==
  /\ pc \in Identified => WithIdentity
  /\ pc \notin Saves \cup {"idle"} => outcome = "none"
  /\ pc \in Saves => outcome = "succeeded"
  /\ dry => pc \notin Committing
  /\ Waits /\ Paired

Built == pc # "idle" /\ ~dry => \A s \in Done(pc) : Filled(staged, s, Value(s))

Anonymous == ~WithIdentity => \A s \in Identified : Filled(staged, s, 0) /\ Filled(nvs, s, 0)

Committed == /\ Whole(nvs)
             /\ pc \in Committing \/ outcome = "succeeded" => nvs["host"].by = attempt

Minted == /\ pc # "idle" => identity \in accepted \cup {0, attempt}
          /\ pc \in Committing => attempt \in accepted
          /\ StoredWasAccepted

Untouched ==
  /\ pc \in Early \/ dry \/ outcome \in {"joinFailed", "declined"} => nvs = before.nvs /\ staged = before.staged
  /\ pc \in {"linking", "confirm"} \/ dry \/ outcome = "declined" => clientId = before.clientId

IInv == Typed /\ Ordered /\ Built /\ Anonymous /\ Committed /\ Minted /\ Untouched

(* A request comes back, or dies with the command and is carried out. *)
Sending == Request(pc) \/ (Kill /\ awaiting /\ CarryOut(pc, Piece(pc)))

(* The steps that change neither the robot's settings nor the store. *)
Aside == UNCHANGED <<attempt, dry, identity, secret, staged, nvs, clientId, certFile, keyFile, profile,
                     before, accepted>>

Moves ==
  \/ pc' = "idle" /\ outcome' \in {"failed", "rehearsed", "killed"} /\ outcome # "succeeded"
  \/ pc' = "idle" /\ outcome' = "declined" /\ pc = "confirm"
  \/ pc' = "idle" /\ outcome' = "joinFailed" /\ pc = "verify"
  \/ pc' = "idle" /\ outcome' = outcome /\ outcome = "succeeded"
  \/ pc' = pc /\ outcome' = outcome
  \/ <<pc, pc'>> \in {<<"linking", "confirm">>, <<"confirm", "deviceId">>, <<"verify", "host">>} /\ outcome' = outcome
  \/ /\ dry /\ pc \in Requests /\ outcome' = outcome
     /\ pc' \in Stages \ ({"idle", "linking", "confirm"} \cup Committing)
     /\ pc' \in Identified => WithIdentity

LEMMA AsideSteps ==
  ASSUME Typed, Ordered,
         \/ Ask \/ PollOver \/ Linked \/ Confirm \/ Poll \/ Radio \/ (Kill /\ UNCHANGED robot)
         \/ (pc \in Requests /\ Rehearse(pc)) \/ UNCHANGED vars
  PROVE  Aside /\ Moves
<1>1. CASE Linked
  BY <1>1 DEF Linked, Go, End, Aside, Moves, robot, files, Ordered, Saves
<1>2. CASE Confirm
  <2>1. outcome # "succeeded"
    BY <1>2 DEF Confirm, Ordered, Saves
  <2> QED BY <1>2, <2>1 DEF Confirm, Go, End, Aside, Moves, robot, files
<1>3. CASE Poll
  <2>1. Aside
    BY <1>3 DEF Poll, Aside, robot, files
  <2>2. \/ pc' = "host" /\ outcome' = outcome
        \/ pc' = pc /\ outcome' = outcome
        \/ pc' = "idle" /\ outcome' \in {"joinFailed", "failed"}
    BY <1>3 DEF Poll, Settled, End
  <2>3. pc = "verify" /\ outcome # "succeeded"
    BY <1>3 DEF Poll, Ordered, Saves
  <2> QED BY <2>1, <2>2, <2>3 DEF Moves
<1>4. CASE Kill /\ UNCHANGED robot
  BY <1>4 DEF Kill, Aside, Moves, robot, files
<1>8. CASE Ask
  BY <1>8 DEF Ask, Aside, Moves, robot, files
<1>9. CASE PollOver
  BY <1>9 DEF PollOver, Settled, Aside, Moves, robot, files
<1>5. CASE Radio
  BY <1>5 DEF Radio, Aside, Moves, files
<1>6. CASE pc \in Requests /\ Rehearse(pc)
  <2>1. Aside
    BY <1>6 DEF Rehearse, Aside, robot, files
  <2>2. CASE pc = "apply"
    BY <2>1, <2>2, <1>6 DEF Rehearse, End, Moves, Ordered, Saves
  <2>3. CASE pc = "wifiApply"
    BY <2>1, <2>3, <1>6
       DEF Rehearse, Go, Moves, Stages, Requests, Slots, Endpoints, Committing, Saves, Identified
  <2>4. CASE pc # "apply" /\ pc # "wifiApply"
    <3>1. Proceed(pc) /\ pc # "reboot"
      BY <2>4, <1>6 DEF Rehearse, Ordered, Committing
    <3>2. CASE pc' = pc /\ outcome' = outcome
      BY <2>1, <3>2 DEF Moves
    <3>3. CASE pc' = After(pc) /\ outcome' = outcome
      <4>1. After(pc) \in Stages \ ({"idle", "linking", "confirm"} \cup Committing)
        BY <1>6, <2>4, <3>1, Order DEF Committing
      <4>2. After(pc) \in Identified => WithIdentity
        BY <1>6, Order DEF Ordered, Identified
      <4> QED BY <4>1, <4>2, <3>3, <2>1, <1>6 DEF Moves, Rehearse
    <3> QED BY <3>1, <3>2, <3>3 DEF Proceed, Go
  <2> QED BY <2>2, <2>3, <2>4
<1>7. CASE UNCHANGED vars
  BY <1>7 DEF vars, files, Aside, Moves
<1> QED BY <1>1, <1>2, <1>3, <1>4, <1>5, <1>6, <1>7, <1>8, <1>9

(* A request either ends the attempt or was answered, and then carried out *)
(* unless nothing depends on it.                                           *)
Answered ==
  /\ \/ pc \in Certs /\ pc' = pc /\ outcome' = outcome
     \/ /\ pc' = After(pc) /\ (pc \in Certs => offset + Piece(pc) >= Bytes[pc])
        /\ outcome' = IF pc = "reboot" THEN "succeeded" ELSE outcome
  /\ \/ CarryOut(pc, Piece(pc))
     \/ UNCHANGED robot /\ pc \notin Slots \cup {"apply"}

LEMMA RequestSteps ==
  ASSUME Typed, Ordered, pc \in Requests, Sending
  PROVE  /\ UNCHANGED <<attempt, dry, identity, secret, files, before>> /\ ~dry
         /\ accepted' = IF pc = "apply" /\ pc' = "reboot" THEN accepted \cup {attempt} ELSE accepted
         /\ CarryOut(pc, Piece(pc)) \/ UNCHANGED robot
         /\ Answered \/ (pc' = "idle" /\ outcome' \in {"failed", "killed"})
<1>1. Proceed(pc) => \/ pc \in Certs /\ pc' = pc /\ outcome' = outcome
                     \/ /\ pc' = After(pc) /\ (pc \in Certs => offset + Piece(pc) >= Bytes[pc])
                        /\ outcome' = IF pc = "reboot" THEN "succeeded" ELSE outcome
  BY PieceFits, ProvisioningAssumption DEF Proceed, Go, Typed, TypeOK
<1>2. "reboot" \notin Slots \cup {"apply"} /\ outcome # "succeeded"
  BY DEF Slots, Certs, Endpoints, Ordered, Requests, Saves
<1>3. awaiting /\ ~dry
  BY DEF Sending, Request, Kill, Ordered, Waits
<1>4. CASE Request(pc)
  <2>1. /\ UNCHANGED <<attempt, dry, identity, secret, files, before>>
        /\ accepted' = IF pc = "apply" /\ pc' = "reboot" THEN accepted \cup {attempt} ELSE accepted
    BY <1>4 DEF Request
  <2>2. CASE CarryOut(pc, Piece(pc)) /\ Proceed(pc)
    BY <1>1, <1>3, <2>1, <2>2 DEF Answered
  <2>3. CASE UNCHANGED robot /\ pc \notin Slots \cup {"apply"} /\ Proceed(pc)
    BY <1>1, <1>3, <2>1, <2>3 DEF Answered
  <2>4. CASE (CarryOut(pc, Piece(pc)) \/ UNCHANGED robot) /\ End("failed")
    BY <1>3, <2>1, <2>4 DEF End
  <2> QED BY <1>2, <1>4, <2>2, <2>3, <2>4 DEF Request, Stops
<1>5. CASE Kill /\ awaiting /\ CarryOut(pc, Piece(pc))
  <2>1. UNCHANGED <<attempt, dry, identity, secret, files, before, accepted>> /\ pc' = "idle" /\ outcome' = "killed"
    BY <1>2, <1>5 DEF Kill
  <2> QED BY <1>3, <1>5, <2>1
<1> QED BY <1>4, <1>5 DEF Sending

(* The steps, as the invariant tells them apart. *)
Saving == SaveCert \/ SaveKey \/ SaveProfile

LEMMA StepKinds ==
  ASSUME Typed, Ordered, [Next]_vars
  PROVE  \/ \E reissue, supplied, rehearse \in BOOLEAN : Begin(reissue, supplied, rehearse)
         \/ pc \in Requests /\ Sending
         \/ Saving
         \/ Aside /\ Moves
<1>1. ASSUME NEW s \in Requests, Request(s) PROVE pc \in Requests /\ Sending
  BY <1>1 DEF Request, Sending
<1>2. ASSUME NEW s \in Requests, Rehearse(s) PROVE Aside /\ Moves
  BY <1>2, AsideSteps DEF Rehearse
<1>3. CASE Kill
  <2>1. CASE UNCHANGED robot
    BY <1>3, <2>1, AsideSteps
  <2>2. CASE awaiting /\ pc \in Requests /\ CarryOut(pc, Piece(pc))
    BY <1>3, <2>2 DEF Sending
  <2> QED BY <1>3, <2>1, <2>2 DEF Kill
<1> QED BY <1>1, <1>2, <1>3, AsideSteps DEF Next, Session, Returns, Saving

(* Only a request, or the join check, waits for the robot. *)
LEMMA WaitsStep ==
  ASSUME Typed, Waits, [Next]_vars
  PROVE  Waits'
<1>1. CASE awaiting' = FALSE
  BY <1>1 DEF Waits
<1>2. CASE UNCHANGED <<awaiting, pc, dry>>
  BY <1>2 DEF Waits
<1>3. CASE Ask
  BY <1>3 DEF Ask, Waits
<1>4. CASE pc \in {"idle", "linking", "confirm", "saveCert", "saveKey", "saveProfile"} /\ UNCHANGED awaiting
  BY <1>1, <1>4 DEF Waits, Requests, Slots, Certs, Endpoints, Typed, TypeOK
<1>5. ASSUME NEW s \in Requests, Rehearse(s) PROVE Waits'
  BY <1>5, <1>1 DEF Rehearse, Waits, Typed, TypeOK
<1>6. (\E reissue, supplied, rehearse \in BOOLEAN : Begin(reissue, supplied, rehearse)) => pc = "idle" /\ UNCHANGED awaiting
  BY DEF Begin
<1>7. Linked \/ Confirm \/ SaveCert \/ SaveKey \/ SaveProfile =>
        pc \in {"linking", "confirm", "saveCert", "saveKey", "saveProfile"} /\ UNCHANGED awaiting
  BY DEF Linked, Confirm, SaveCert, SaveKey, SaveProfile
<1>8. PollOver => awaiting' = FALSE
  BY DEF PollOver, Typed, TypeOK
<1>9. Kill \/ Poll \/ (\E s \in Requests : Request(s)) => awaiting' = FALSE
  BY DEF Kill, Poll, Request
<1>10. Radio \/ UNCHANGED vars => UNCHANGED <<awaiting, pc, dry>>
  BY DEF Radio, vars
<1> QED BY <1>1, <1>2, <1>3, <1>4, <1>5, <1>6, <1>7, <1>8, <1>9, <1>10 DEF Next, Session, Returns

LEMMA SavingSteps ==
  ASSUME Saving
  PROVE  /\ pc \in Saves /\ pc' \in Saves \cup {"idle"}
         /\ UNCHANGED <<attempt, dry, identity, secret, outcome, staged, nvs, clientId, before, accepted>>
         /\ certFile' \in {certFile, identity} /\ keyFile' \in {keyFile, secret} /\ profile' \in {profile, attempt}
BY DEF Saving, SaveCert, SaveKey, SaveProfile, Go, robot, Saves

LEMMA BeginSteps ==
  ASSUME NEW reissue \in BOOLEAN, NEW supplied \in BOOLEAN, NEW rehearse \in BOOLEAN,
         Begin(reissue, supplied, rehearse)
  PROVE  /\ UNCHANGED <<nvs, clientId, files, accepted>>
         /\ staged' \in {staged, nvs}
         /\ before' = [nvs |-> nvs, staged |-> staged', clientId |-> clientId]
         /\ \/ pc' = "idle" /\ outcome' = "refused"
            \/ /\ pc' = "linking" /\ outcome' = "none"
               /\ identity' \in {0, certFile, attempt'}
BY DEF Begin, robot

LEMMA PairedStep ==
  ASSUME Typed, Ordered, [Next]_vars
  PROVE  Paired'
<1>1. ASSUME NEW reissue \in BOOLEAN, NEW supplied \in BOOLEAN, NEW rehearse \in BOOLEAN,
             Begin(reissue, supplied, rehearse)
      PROVE  Paired'
  <2>1. CASE Unmatched /\ ~supplied
    BY <1>1, <2>1 DEF Begin, Paired, Ordered
  <2>2. CASE ~(Unmatched /\ ~supplied)
    BY <1>1, <2>2 DEF Begin, Paired, Ordered, Unmatched
  <2> QED BY <2>1, <2>2
<1>2. CASE pc \in Requests /\ Sending
  BY <1>2, RequestSteps DEF Paired, Ordered
<1>3. CASE Saving
  BY <1>3, SavingSteps DEF Paired, Ordered
<1>4. CASE Aside /\ Moves
  BY <1>4 DEF Aside, Paired, Ordered
<1> QED BY <1>1, <1>2, <1>3, <1>4, StepKinds

LEMMA OrderedStep ==
  ASSUME Typed, Ordered, [Next]_vars
  PROVE  Ordered'
<1>5. Waits' /\ Paired'
  BY WaitsStep, PairedStep DEF Ordered
<1>1. CASE \E reissue, supplied, rehearse \in BOOLEAN : Begin(reissue, supplied, rehearse)
  BY <1>1, <1>5, BeginSteps DEF Ordered, Identified, Saves, Committing
<1>2. CASE pc \in Requests /\ Sending
  <2>1. pc \notin Saves \cup {"idle"}
    BY <1>2 DEF Requests, Saves, Slots, Certs, Endpoints
  <2>2. CASE pc' = "idle" /\ outcome' \in {"failed", "killed"}
    BY <2>2, <1>5 DEF Ordered, Identified, Saves, Committing
  <2>3. CASE pc' = pc /\ outcome' = outcome
    BY <1>2, <1>5, <2>1, <2>3, RequestSteps DEF Ordered
  <2>4. CASE pc' = After(pc) /\ outcome' = IF pc = "reboot" THEN "succeeded" ELSE outcome
    BY <1>2, <1>5, <2>1, <2>4, RequestSteps, Order DEF Ordered, Identified
  <2> QED BY <1>2, <2>2, <2>3, <2>4, RequestSteps DEF Answered
<1>3. CASE Saving
  BY <1>3, <1>5, SavingSteps DEF Ordered, Identified, Saves, Committing
<1>4. CASE Aside /\ Moves
  BY <1>4, <1>5 DEF Aside, Moves, Ordered, Identified, Saves, Committing, Requests, Slots, Certs, Endpoints
<1> QED BY <1>1, <1>2, <1>3, <1>4, StepKinds

LEMMA BuiltStep ==
  ASSUME Typed, Ordered, Built, [Next]_vars
  PROVE  Built'
<1>1. CASE \E reissue, supplied, rehearse \in BOOLEAN : Begin(reissue, supplied, rehearse)
  BY <1>1, BeginSteps, DoneStages DEF Built
<1>2. CASE pc \in Requests /\ Sending
  <2>1. CASE pc' = "idle"
    BY <2>1 DEF Built
  <2> SUFFICES ASSUME Answered, NEW s \in Done(pc') PROVE Filled(staged', s, Value(s)')
    BY <1>2, <2>1, RequestSteps DEF Built
  <2>2. Value(s)' = Value(s)
    BY <1>2, RequestSteps DEF Value
  <2>3. CASE pc' = pc /\ pc \in Certs
    <3>1. s # pc /\ s \in Slots /\ pc \in Slots
      BY <2>3, <1>2, DoneBefore, DoneStages DEF Typed, TypeOK, Slots
    <3>2. Filled(staged, s, Value(s))
      BY <2>3, <1>2, RequestSteps DEF Built, Requests, Slots, Certs, Endpoints
    <3>3. staged'[s] = staged[s]
      BY <3>1, <1>2, StagedByRequest DEF Answered, Slots, robot
    <3> QED BY <2>2, <3>2, <3>3 DEF Filled
  <2>4. CASE pc' = After(pc) /\ (pc \in Certs => offset + Piece(pc) >= Bytes[pc])
    <3>1. s \in Done(pc) \/ (s = pc /\ pc \in Slots)
      BY <2>4, <1>2, DoneBefore
    <3>2. CASE s \in Done(pc)
      <4>1. s # pc /\ s \in Slots
        BY <3>2, <1>2, DoneBefore, DoneStages DEF Typed, TypeOK
      <4>2. Filled(staged, s, Value(s))
        BY <3>2, <1>2, RequestSteps DEF Built, Requests, Slots, Certs, Endpoints
      <4>3. staged'[s] = staged[s]
        BY <4>1, <1>2, StagedByRequest DEF Answered, robot
      <4> QED BY <2>2, <4>2, <4>3 DEF Filled
    <3>3. CASE s = pc /\ pc \in Endpoints
      <4>1. staged'[s] = [by |-> Value(s), size |-> 1]
        BY <3>3, <1>2, StagedByRequest DEF Answered, Slots
      <4>2. Factory[s].size = 1
        BY <3>3 DEF Factory, Slots, Certs, Endpoints
      <4> QED BY <2>2, <4>1, <4>2 DEF Filled
    <3>4. CASE s = pc /\ pc \in Certs
      <4>1. staged'[s] = [by |-> Value(s), size |-> offset + Piece(pc)]
        BY <3>4, <1>2, StagedByRequest DEF Answered, Slots
      <4>2. offset + Piece(pc) = Chars[pc]
        <5>1. offset \in Nat /\ Piece(pc) \in Nat /\ offset + Piece(pc) <= Chars[pc]
          BY <3>4, <1>2, PieceFits DEF Typed, TypeOK
        <5>2. Chars[pc] \in Nat /\ Bytes[pc] \in Nat /\ Chars[pc] <= Bytes[pc]
          BY <3>4, ProvisioningAssumption
        <5>3. offset + Piece(pc) >= Bytes[pc]
          BY <3>4, <2>4
        <5> QED BY <5>1, <5>2, <5>3
      <4> QED BY <2>2, <3>4, <4>1, <4>2, Constants DEF Filled
    <3> QED BY <3>1, <3>2, <3>3, <3>4 DEF Slots
  <2> QED BY <2>3, <2>4 DEF Answered
<1>3. CASE Saving
  BY <1>3, SavingSteps, DoneStages DEF Built, Value, Saves
<1>4. CASE Aside /\ Moves
  BY <1>4, DoneStages DEF Aside, Moves, Built, Value
<1> QED BY <1>1, <1>2, <1>3, <1>4, StepKinds

(* What APPLY_CONFIG commits is whole, and the attempt's. *)
LEMMA StagedWhole ==
  ASSUME Typed, Ordered, Built, Anonymous, pc = "apply", ~dry
  PROVE  Whole(staged) /\ staged["host"].by = attempt
<1>1. \A s \in Written : Filled(staged, s, Value(s))
  BY DoneStages DEF Built
<1>2. \A s \in Slots \ Identified : s \in Written /\ Value(s) = attempt
  BY DEF Written, Value, Identified
<1>3. staged["host"].by = attempt
  BY <1>1, <1>2 DEF Filled, Slots, Endpoints, Identified
<1>4. Filled(staged, "key", staged["cert"].by) /\ staged["cert"].size = Factory["cert"].size
  <2>1. CASE WithIdentity
    <3>1. \A s \in Identified : s \in Written /\ Value(s) = identity
      BY <2>1 DEF Written, Value, Identified, Slots, Certs, Ordered, Paired
    <3> QED BY <3>1, <1>1 DEF Filled, Identified
  <2>2. CASE ~WithIdentity
    BY <2>2 DEF Anonymous, Filled, Identified
  <2> QED BY <2>1, <2>2
<1> QED BY <1>1, <1>2, <1>3, <1>4, WholeSlots DEF Typed, TypeOK

LEMMA AnonymousStep ==
  ASSUME Typed, Ordered, Anonymous, [Next]_vars
  PROVE  Anonymous'
<1> SUFFICES ASSUME ~WithIdentity, NEW s \in Identified
             PROVE  Filled(staged', s, 0) /\ Filled(nvs', s, 0)
  BY DEF Anonymous
<1>1. Filled(staged, s, 0) /\ Filled(nvs, s, 0)
  BY DEF Anonymous
<1>2. CASE \E reissue, supplied, rehearse \in BOOLEAN : Begin(reissue, supplied, rehearse)
  BY <1>1, <1>2, BeginSteps DEF Filled
<1>3. CASE pc \in Requests /\ Sending
  <2>1. CASE CarryOut(pc, Piece(pc))
    <3>1. s # pc /\ s \in Slots
      BY DEF Ordered, Identified, Slots, Certs
    <3>2. staged'[s] = staged[s]
      BY <3>1, <2>1, <1>3, StagedByRequest
    <3>3. nvs' \in {staged, nvs}
      BY <2>1 DEF CarryOut
    <3> QED BY <1>1, <3>2, <3>3 DEF Filled
  <2>2. CASE UNCHANGED robot
    BY <1>1, <2>2 DEF Filled, robot
  <2> QED BY <1>3, <2>1, <2>2, RequestSteps
<1>4. CASE Saving
  BY <1>1, <1>4, SavingSteps DEF Filled
<1>5. CASE Aside /\ Moves
  BY <1>1, <1>5 DEF Aside, Filled
<1> QED BY <1>2, <1>3, <1>4, <1>5, StepKinds

LEMMA CommittedStep ==
  ASSUME Typed, Ordered, Built, Anonymous, Committed, [Next]_vars
  PROVE  Committed'
<1>1. CASE \E reissue, supplied, rehearse \in BOOLEAN : Begin(reissue, supplied, rehearse)
  <2>1. nvs' = nvs /\ outcome' # "succeeded" /\ pc' \notin Committing
    BY <1>1, BeginSteps DEF Committing, Saves
  <2> QED BY <2>1 DEF Committed, Whole
<1>2. CASE pc \in Requests /\ Sending
  <2>1. CASE pc = "apply" /\ CarryOut(pc, Piece(pc))
    <3>1. nvs' = staged /\ attempt' = attempt
      BY <1>2, <2>1, RequestSteps DEF CarryOut
    <3>2. Whole(staged) /\ staged["host"].by = attempt
      BY <1>2, <2>1, StagedWhole, RequestSteps
    <3> QED BY <3>1, <3>2 DEF Committed, Whole
  <2>2. CASE ~(pc = "apply" /\ CarryOut(pc, Piece(pc)))
    <3>1. nvs' = nvs /\ attempt' = attempt
      BY <1>2, <2>2, RequestSteps DEF CarryOut, robot
    <3>2. pc' \in Committing \/ outcome' = "succeeded" => pc \in Committing
      <4>1. CASE pc' = "idle" /\ outcome' \in {"failed", "killed"}
        BY <4>1 DEF Committing, Saves
      <4>2. CASE pc' = pc /\ outcome' = outcome
        BY <1>2, <4>2 DEF Ordered, Committing, Saves, Requests, Slots, Certs, Endpoints
      <4>3. CASE Answered /\ pc' = After(pc)
        <5>1. pc # "apply"
          BY <2>2, <4>3 DEF Answered
        <5>2. outcome = "none"
          BY <1>2 DEF Ordered, Requests, Slots, Certs, Endpoints, Saves
        <5> QED BY <1>2, <4>3, <5>1, <5>2, Order DEF Answered, Committing
      <4> QED BY <1>2, <4>1, <4>2, <4>3, RequestSteps DEF Answered
    <3> QED BY <3>1, <3>2 DEF Committed, Whole
  <2> QED BY <2>1, <2>2
<1>3. CASE Saving
  <2>1. nvs' = nvs /\ attempt' = attempt /\ pc \in Committing
    BY <1>3, SavingSteps DEF Committing
  <2> QED BY <2>1 DEF Committed, Whole
<1>4. CASE Aside /\ Moves
  <2>1. nvs' = nvs /\ attempt' = attempt
    BY <1>4 DEF Aside
  <2>2. pc' \in Committing \/ outcome' = "succeeded" => pc \in Committing \/ outcome = "succeeded"
    BY <1>4 DEF Moves, Committing, Saves
  <2> QED BY <2>1, <2>2 DEF Committed, Whole
<1> QED BY <1>1, <1>2, <1>3, <1>4, StepKinds

LEMMA MintedStep ==
  ASSUME Typed, Ordered, Minted, [Next]_vars
  PROVE  Minted'
<1>1. CASE \E reissue, supplied, rehearse \in BOOLEAN : Begin(reissue, supplied, rehearse)
  BY <1>1, BeginSteps DEF Minted, StoredWasAccepted, files, Committing, Saves
<1>2. CASE pc \in Requests /\ Sending
  <2>1. UNCHANGED <<attempt, identity, secret, files>> /\ accepted \subseteq accepted'
    BY <1>2, RequestSteps
  <2>2. pc # "idle"
    BY <1>2 DEF Requests, Slots, Certs, Endpoints
  <2>3. pc' \in Committing => attempt \in accepted'
    <3>1. CASE pc' = pc
      BY <3>1, <2>1 DEF Minted
    <3>2. CASE pc' = After(pc)
      BY <1>2, <2>1, <3>2, Order, RequestSteps DEF Minted, Committing
    <3>3. CASE pc' = "idle"
      BY <3>3 DEF Committing, Saves
    <3> QED BY <1>2, <3>1, <3>2, <3>3, RequestSteps DEF Answered
  <2> QED BY <2>1, <2>2, <2>3 DEF Minted, StoredWasAccepted, files
<1>3. CASE Saving
  <2>1. pc # "idle" /\ pc \in Committing
    BY <1>3, SavingSteps DEF Committing, Saves
  <2> QED BY <1>3, <2>1, SavingSteps DEF Minted, StoredWasAccepted, Ordered, Paired
<1>4. CASE Aside /\ Moves
  <2>1. UNCHANGED <<attempt, identity, secret, certFile, keyFile, profile, accepted>>
    BY <1>4 DEF Aside
  <2>2. (pc' # "idle" => pc # "idle") /\ (pc' \in Committing => pc \in Committing)
    BY <1>4 DEF Moves, Committing, Saves, Requests, Slots, Certs, Endpoints
  <2> QED BY <2>1, <2>2 DEF Minted, StoredWasAccepted
<1> QED BY <1>1, <1>2, <1>3, <1>4, StepKinds

LEMMA UntouchedStep ==
  ASSUME Typed, Ordered, Untouched, [Next]_vars
  PROVE  Untouched'
<1>1. CASE \E reissue, supplied, rehearse \in BOOLEAN : Begin(reissue, supplied, rehearse)
  BY <1>1, BeginSteps DEF Untouched
<1>2. CASE pc \in Requests /\ Sending
  <2>1. UNCHANGED <<dry, before>> /\ ~dry
    BY <1>2, RequestSteps
  <2>2. outcome' \notin {"joinFailed", "declined"} /\ pc' \notin {"linking", "confirm"}
    <3>1. outcome = "none" /\ pc \notin {"linking", "confirm"}
      BY <1>2 DEF Ordered, Requests, Slots, Certs, Endpoints, Saves
    <3> QED BY <1>2, <3>1, RequestSteps, Order DEF Answered
  <2>3. ASSUME pc' \in Early PROVE nvs' = before.nvs /\ staged' = before.staged
    <3>1. pc \in {"deviceId", "wifiSet", "wifiApply"}
      <4>1. pc' # "idle"
        BY <2>3 DEF Early
      <4>2. pc' # pc \/ pc \notin Certs
        BY <2>3 DEF Early, Certs
      <4> QED BY <1>2, <2>3, <4>1, <4>2, RequestSteps, Order DEF Answered
    <3>2. pc \notin Slots \cup {"apply"}
      BY <3>1 DEF Slots, Certs, Endpoints
    <3>3. staged' = staged /\ nvs' = nvs
      BY <1>2, <3>2, RequestSteps, StagedByRequest DEF CarryOut, robot
    <3> QED BY <3>1, <3>3 DEF Untouched, Early
  <2> QED BY <2>1, <2>2, <2>3 DEF Untouched
<1>3. CASE Saving
  BY <1>3, SavingSteps DEF Untouched, Ordered, Early, Saves
<1>4. CASE Aside /\ Moves
  BY <1>4 DEF Aside, Moves, Untouched, Early, Ordered, Saves, Requests, Slots, Certs, Endpoints
<1> QED BY <1>1, <1>2, <1>3, <1>4, StepKinds

LEMMA FactoryWhole == Whole(Factory)
<1>1. Factory["host"].by = 0 /\ Factory["cert"].by = 0 /\ \A s \in Slots : Filled(Factory, s, 0)
  BY DEF Factory, Slots, Certs, Endpoints, Filled
<1> QED BY <1>1, WholeSlots, Constants DEF Filled, Slots, Certs, Endpoints, Identified

LEMMA IInvInit == Init => IInv
<1> SUFFICES ASSUME Init PROVE IInv
  OBVIOUS
<1>1. Typed
  BY TypedInit
<1>2. Ordered
  BY DEF Init, Ordered, Waits, Paired, Identified, Saves
<1>3. Built /\ Minted
  BY DEF Init, Built, Minted, StoredWasAccepted, Committing, Saves
<1>4. Anonymous
  BY DEF Init, Anonymous, Filled, Factory, Identified, Slots, Certs
<1>5. Committed
  <2>1. nvs = Factory /\ pc = "idle" /\ outcome = "none"
    BY DEF Init
  <2> QED BY <2>1, FactoryWhole DEF Committed, Committing, Saves
<1>6. Untouched
  <2>1. /\ pc = "idle" /\ outcome = "none" /\ dry = FALSE
        /\ nvs = Factory /\ staged = Factory /\ clientId = "factory"
        /\ before = [nvs |-> Factory, staged |-> Factory, clientId |-> "factory"]
    BY DEF Init
  <2> QED BY <2>1 DEF Untouched
<1> QED BY <1>1, <1>2, <1>3, <1>4, <1>5, <1>6 DEF IInv

LEMMA IInvStep == IInv /\ [Next]_vars => IInv'
<1> SUFFICES ASSUME IInv, [Next]_vars PROVE IInv'
  OBVIOUS
<1>1. Typed'
  BY TypedStep DEF IInv
<1>2. Ordered' /\ Built' /\ Anonymous'
  BY OrderedStep, BuiltStep, AnonymousStep DEF IInv
<1>3. Committed' /\ Minted' /\ Untouched'
  BY CommittedStep, MintedStep, UntouchedStep DEF IInv
<1> QED BY <1>1, <1>2, <1>3 DEF IInv

LEMMA IInvHolds == Spec => []IInv
BY IInvInit, IInvStep, PTL DEF Spec

-----------------------------------------------------------------------------
(***************************************************************************)
(* A refused join leaves the broker's settings as the attempt found them,  *)
(* committed and staged.                                                   *)
(***************************************************************************)
THEOREM JoinFailureHarmless == Spec => []JoinFailureLeavesBroker
<1>1. IInv => JoinFailureLeavesBroker
  BY DEF IInv, Untouched, JoinFailureLeavesBroker
<1> QED BY IInvHolds, <1>1, PTL

(***************************************************************************)
(* Nothing is written before the operator has confirmed, nor by a          *)
(* rehearsal.                                                              *)
(***************************************************************************)
THEOREM ConfirmedBeforeWritten == Spec => []UntouchedUnlessConfirmed
<1>1. IInv => UntouchedUnlessConfirmed
  BY DEF IInv, Untouched, UntouchedUnlessConfirmed, Early
<1> QED BY IInvHolds, <1>1, PTL

(***************************************************************************)
(* The store names no identity and no profile the robot has not accepted.  *)
(***************************************************************************)
THEOREM StoreTellsTheTruth == Spec => []StoredWasAccepted
<1>1. IInv => StoredWasAccepted
  BY DEF IInv, Minted
<1> QED BY IInvHolds, <1>1, PTL

(***************************************************************************)
(* Provisioning implements Onboarding: the robot moves from one whole      *)
(* configuration to another, and success is reported for the one it holds. *)
(***************************************************************************)
LEMMA OnboardsInit == Init => Onboards!Init
<1> SUFFICES ASSUME Init PROVE Onboards!Init
  OBVIOUS
<1>1. attempt = 0 /\ nvs = Factory /\ outcome # "succeeded"
  BY DEF Init
<1> QED BY <1>1, FactoryWhole, Constants DEF Onboards!Init

LEMMA OnboardsStep ==
  ASSUME IInv, IInv', [Next]_vars
  PROVE  [Onboards!Next]_(Onboards!vars)
<1>1. Typed /\ Ordered /\ Built /\ Anonymous /\ Committed /\ Committed'
  BY DEF IInv
<1>2. Whole(nvs) /\ Whole(nvs)'
  BY <1>1 DEF Committed
<1>3. CASE \E reissue, supplied, rehearse \in BOOLEAN : Begin(reissue, supplied, rehearse)
  <2>1. attempt' = attempt + 1 /\ outcome' # "succeeded" /\ nvs' = nvs
    BY <1>3, BeginSteps DEF Begin
  <2> QED BY <1>2, <2>1 DEF Onboards!Next, Onboards!Begin
<1>4. CASE pc \in Requests /\ Sending
  <2>1. attempt' = attempt /\ outcome # "succeeded"
    BY <1>1, <1>4, RequestSteps DEF Ordered, Requests, Slots, Certs, Endpoints, Saves
  <2>2. CASE pc = "apply" /\ CarryOut(pc, Piece(pc))
    <3>1. nvs'["host"].by = attempt
      BY <1>1, <1>4, <2>2, StagedWhole, RequestSteps DEF CarryOut
    <3>2. outcome' # "succeeded"
      BY <1>1, <1>4, <2>1, <2>2, RequestSteps DEF Answered
    <3> QED BY <1>2, <2>1, <3>1, <3>2 DEF Onboards!Next, Onboards!Commit
  <2>3. CASE ~(pc = "apply" /\ CarryOut(pc, Piece(pc)))
    <3>1. nvs' = nvs
      BY <1>1, <1>4, <2>3, RequestSteps DEF CarryOut, robot
    <3>2. CASE outcome' = "succeeded"
      <4>1. nvs["host"].by = attempt
        BY <1>1, <2>1, <3>1, <3>2 DEF Committed
      <4> QED BY <1>2, <2>1, <3>1, <3>2, <4>1 DEF Onboards!Next, Onboards!Succeed
    <3>3. CASE outcome' # "succeeded"
      BY <1>2, <2>1, <3>1, <3>3 DEF Onboards!vars
    <3> QED BY <3>2, <3>3
  <2> QED BY <2>2, <2>3
<1>5. CASE Saving
  <2>1. UNCHANGED <<attempt, outcome, nvs>>
    BY <1>5, SavingSteps
  <2> QED BY <1>2, <2>1 DEF Onboards!vars
<1>6. CASE Aside /\ Moves
  <2>1. UNCHANGED <<attempt, nvs>> /\ (outcome' = "succeeded" <=> outcome = "succeeded")
    <3>1. UNCHANGED <<attempt, nvs>>
      BY <1>6 DEF Aside
    <3>2. outcome' = "succeeded" <=> outcome = "succeeded"
      BY <1>1, <1>6 DEF Moves, Ordered, Saves
    <3> QED BY <3>1, <3>2
  <2> QED BY <1>2, <2>1 DEF Onboards!vars
<1> QED BY <1>3, <1>4, <1>5, <1>6, <1>1, StepKinds

THEOREM ProvisioningOnboards == Spec => OnboardsWhole
<1>1. IInv /\ IInv' /\ [Next]_vars => [Onboards!Next]_(Onboards!vars)
  BY OnboardsStep
<1> QED BY OnboardsInit, IInvHolds, <1>1, PTL DEF Spec, OnboardsWhole, Onboards!Spec
=============================================================================
