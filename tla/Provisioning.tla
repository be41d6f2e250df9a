---------------------------- MODULE Provisioning ----------------------------
(***************************************************************************)
(* Provisioning one robot: the Bluetooth session                           *)
(* (ble/provision.py: provision_robot, _verify_wifi, _write_cert) and the  *)
(* command around it (cli.py: _robot_identity before, the store's files    *)
(* after), over attempts that fail, are declined or are killed anywhere.   *)
(*                                                                         *)
(* A request is one write and its read-back, and nothing bounds the wait   *)
(* for them (ProtocommBLE.request): the robot may carry it out and answer, *)
(* refuse it, the link may drop before or after it did, or nothing ever    *)
(* comes back.  What it is sent is staged, and committed on APPLY_CONFIG.  *)
(***************************************************************************)
EXTENDS Integers

CONSTANTS
  WithIdentity, \* the store gives its robots an identity (auth is not anonymous)
  Chars, Bytes, \* of each credential: its characters, and its length in UTF-8
  Chunk,        \* CERT_CHUNK
  Wait, Lease,  \* wifi_wait and WIFI_LEASE_WAIT, in polls
  MaxAttempts   \* bound: the attempts

Certs     == {"ca", "cert", "key"}
Endpoints == {"host", "cloud", "device"}
Slots     == Certs \cup Endpoints

ASSUME ProvisioningAssumption ==
  /\ WithIdentity \in BOOLEAN
  /\ Chars \in [Certs -> Nat \ {0}] /\ Bytes \in [Certs -> Nat]
  /\ \A c \in Certs : Chars[c] <= Bytes[c]
  /\ Chunk \in Nat \ {0} /\ Wait \in Nat /\ Lease \in Nat /\ MaxAttempts \in Nat

(* The requests of a session, in order. *)
Written  == IF WithIdentity THEN Slots ELSE Slots \ {"cert", "key"}
Requests == {"deviceId", "wifiSet", "wifiApply", "apply", "reboot"} \cup Slots
After_VerifyLast(s) == \* mutant: the join is verified behind the broker's settings
  CASE s = "deviceId"  -> "wifiSet"
    [] s = "wifiSet"   -> "wifiApply"
    [] s = "wifiApply" -> "host"
    [] s = "host"      -> "cloud"
    [] s = "cloud"     -> "verify"
    [] OTHER -> "apply"
After(s) ==
  CASE s = "deviceId"  -> "wifiSet"
    [] s = "wifiSet"   -> "wifiApply"
    [] s = "wifiApply" -> "verify"
    [] s = "verify"    -> "host"
    [] s = "host"      -> "cloud"
    [] s = "cloud"     -> "device"
    [] s = "device"    -> "ca"
    [] s = "ca"        -> IF WithIdentity THEN "cert" ELSE "apply"
    [] s = "cert"      -> "key"
    [] s = "key"       -> "apply"
    [] s = "apply"     -> "reboot"
    [] s = "reboot"    -> IF WithIdentity THEN "saveCert" ELSE "saveProfile"
    [] s = "saveCert"  -> "saveKey"
    [] s = "saveKey"   -> "saveProfile"

VARIABLES
  pc,       \* where the command is
  attempt,  \* the attempts begun
  dry,      \* --dry-run
  identity, secret, \* the certificate to be given and its key, by the attempt that minted each
  offset,   \* _write_cert: offset
  poll,     \* _verify_wifi: time since the join, association, the newest status
  outcome,  \* how the newest attempt ended
  staged, nvs, \* the robot's settings, staged and committed: whose, and how much
  clientId, station, \* the robot's client id, and its WiFi
  awaiting, \* a request is out, and has not come back
  certFile, keyFile, profile, \* the store's files: whose, 0 absent
  (* history *)
  before,   \* the robot when the attempt began
  accepted  \* the attempts whose APPLY_CONFIG the robot acknowledged

robot == <<staged, nvs, clientId, station>>
ClientIds == {"factory", "serial"}
files == <<certFile, keyFile, profile>>
command == <<attempt, dry, identity, secret>>
vars  == <<pc, attempt, dry, identity, secret, offset, poll, outcome, staged, nvs, clientId, station,
           awaiting, certFile, keyFile, profile, before, accepted>>

Ids      == 0 .. MaxAttempts
Settings == [Slots -> [by : Ids, size : Nat]]
Stations == {"off", "joining", "associated", "leased", "failed"}
Statuses == {"none", "connected", "pending"}
Stages   == {"idle", "linking", "confirm", "verify", "saveCert", "saveKey", "saveProfile"} \cup Requests
Factory  == [s \in Slots |-> [by |-> 0, size |-> IF s \in Certs THEN Chars[s] ELSE 1]]
Ends     == {"none", "refused", "declined", "rehearsed", "failed", "joinFailed", "killed", "succeeded"}

TypeOK ==
  /\ pc \in Stages /\ attempt \in Ids /\ dry \in BOOLEAN
  /\ identity \in Ids /\ secret \in Ids
  /\ offset \in Nat
  /\ poll \in [elapsed : Nat, associated : Nat \cup {-1}, last : Statuses]
  /\ outcome \in Ends
  /\ staged \in Settings /\ nvs \in Settings
  /\ \A c \in Certs : staged[c].size <= Chars[c] /\ nvs[c].size <= Chars[c]
  /\ clientId \in ClientIds /\ awaiting \in BOOLEAN /\ station \in Stations
  /\ certFile \in Ids /\ keyFile \in Ids /\ profile \in Ids
  /\ before \in [nvs : Settings, staged : Settings, clientId : ClientIds]
  /\ accepted \in SUBSET Ids

(* The attempt whose value each slot gets. *)
Value(s) == IF s = "cert" THEN identity ELSE IF s = "key" THEN secret ELSE attempt

-----------------------------------------------------------------------------
(***************************************************************************)
(* _robot_identity: the pair the operator supplies, the one on file, or a  *)
(* new one when there is none or it is to be replaced (--reissue, expired).*)
(* Reading a pair on file whose halves do not match raises.                *)
(***************************************************************************)
OnFile  == certFile # 0 /\ keyFile # 0
Unmatched == WithIdentity /\ OnFile /\ certFile # keyFile

Begin_Persists(reissue, supplied, rehearse) == \* mutant: the new identity is filed at once
  /\ pc = "idle" /\ attempt < MaxAttempts /\ attempt' = attempt + 1 /\ dry' = rehearse
  /\ outcome' = "none" /\ pc' = "linking"
  /\ identity' = attempt' /\ secret' = attempt' /\ certFile' = attempt' /\ keyFile' = attempt'
  /\ before' = [nvs |-> nvs, staged |-> staged, clientId |-> clientId]
  /\ UNCHANGED <<robot, profile, offset, poll, awaiting, accepted>>
Begin(reissue, supplied, rehearse) ==
  /\ pc = "idle" /\ attempt < MaxAttempts
  /\ attempt' = attempt + 1 /\ dry' = rehearse
  /\ IF Unmatched /\ ~supplied
     THEN outcome' = "refused" /\ UNCHANGED <<pc, identity, secret, robot>>
     ELSE /\ outcome' = "none" /\ pc' = "linking"
          /\ LET kept == OnFile /\ ~reissue /\ ~supplied
             IN /\ identity' = IF ~WithIdentity THEN 0 ELSE IF kept THEN certFile ELSE attempt'
                /\ secret' = IF ~WithIdentity THEN 0 ELSE IF kept THEN keyFile ELSE attempt'
          /\ station' = "off" \* holding Connect makes the robot forget its network
          /\ staged' \in {staged, nvs} \* what was staged may not outlive the link
          /\ UNCHANGED <<nvs, clientId>>
  /\ before' = [nvs |-> nvs, staged |-> staged', clientId |-> clientId]
  /\ offset' = 0 /\ poll' = [elapsed |-> 0, associated |-> -1, last |-> "none"]
  /\ UNCHANGED <<awaiting, files, accepted>>

(* Leaving the link may fail, and is then how the attempt ended.           *)
End(how) == pc' = "idle" /\ outcome' \in {how, "failed"}
Go(s)    == pc' = s /\ UNCHANGED outcome

(* The scan, the link, the endpoints, the MAC, the networks the robot sees. *)
Linked_NamesFirst == \* mutant: the client id is set before the confirmation
  /\ pc = "linking" /\ Go("confirm") /\ clientId' = "serial"
  /\ UNCHANGED <<command, offset, poll, staged, nvs, station, awaiting, files, before, accepted>>
Linked ==
  /\ pc = "linking"
  /\ Go("confirm") \/ End("failed")
  /\ UNCHANGED <<command, offset, poll, robot, awaiting, files, before, accepted>>

Confirm ==
  /\ pc = "confirm"
  /\ Go("deviceId") \/ End("declined")
  /\ UNCHANGED <<command, offset, poll, robot, awaiting, files, before, accepted>>

-----------------------------------------------------------------------------
(* What the robot makes of a request, with n characters of a credential. *)
CarryOut(s, n) ==
  /\ clientId' = IF s = "deviceId" THEN "serial" ELSE clientId
  /\ station' = IF s = "wifiApply" THEN "joining" ELSE station
  /\ staged' = CASE s \in Endpoints -> [staged EXCEPT ![s] = [by |-> Value(s), size |-> 1]]
                 [] s \in Certs -> [staged EXCEPT ![s] = [by |-> Value(s), size |-> offset + n]]
                 [] OTHER -> staged
  /\ nvs' = IF s = "apply" THEN staged ELSE nvs

(* _write_cert: the next piece of a credential, in characters. *)
Piece(s) == IF s \notin Certs THEN 0
            ELSE IF Chars[s] - offset < Chunk THEN Chars[s] - offset ELSE Chunk

(* The request was answered: on to the next piece, or the next request. *)
Proceed(s) ==
  IF s \in Certs /\ offset + Piece(s) < Bytes[s]
  THEN offset' = offset + Piece(s) /\ Go(s)
  ELSE /\ offset' = 0
       /\ pc' = After(s)
       /\ outcome' = IF s = "reboot" THEN "succeeded" ELSE outcome

(* _mqtt stops at a status that is not zero; _whisker logs it, the WiFi    *)
(* requests do not read it.                                                *)
Stops_Never(s) == FALSE \* mutant: a refused write is not noticed
Stops(s) == s \in Slots \cup {"apply"}

(* The request goes out; a join is asked about until the wait is over.     *)
Ask ==
  /\ ~awaiting /\ ~dry
  /\ pc \in Requests \/ (pc = "verify" /\ poll.elapsed < Wait)
  /\ awaiting' = TRUE
  /\ UNCHANGED <<pc, command, offset, poll, outcome, robot, files, before, accepted>>

(* It comes back: answered, refused, or failed with the link.  A lost      *)
(* answer to the reboot is expected.                                       *)
Request(s) ==
  /\ pc = s /\ awaiting
  /\ \/ CarryOut(s, Piece(s)) /\ Proceed(s)
     \/ UNCHANGED robot /\ IF Stops(s) THEN End("failed") /\ UNCHANGED offset ELSE Proceed(s)
     \/ /\ CarryOut(s, Piece(s)) \/ UNCHANGED robot
        /\ \/ End("failed") /\ UNCHANGED offset
           \/ s = "reboot" /\ Proceed(s)
  /\ awaiting' = FALSE
  /\ accepted' = IF s = "apply" /\ pc' = "reboot" THEN accepted \cup {attempt} ELSE accepted
  /\ UNCHANGED <<command, poll, files, before>>

(* A dry run writes nothing, and ends behind the commit. *)
Rehearse(s) ==
  /\ pc = s /\ dry
  /\ IF s = "apply" THEN End("rehearsed") /\ offset' = 0
     ELSE IF s = "wifiApply" THEN Go("host") /\ UNCHANGED offset
     ELSE Proceed(s)
  /\ UNCHANGED <<command, poll, robot, awaiting, files, before, accepted>>

(***************************************************************************)
(* _verify_wifi: a status is asked for until the join is confirmed, with   *)
(* an address if one comes soon, or refused, or the wait is over.  The     *)
(* deadline is looked at between the requests only, so that a late answer  *)
(* uses up the wait and one that never comes is waited for.                *)
(***************************************************************************)
Settled == pc' = "host" /\ UNCHANGED outcome
Learns(now, first, last) == poll' = [elapsed |-> now, associated |-> first, last |-> last]

PollOver ==
  /\ pc = "verify" /\ ~awaiting /\ poll.elapsed >= Wait
  /\ Settled
  /\ UNCHANGED <<command, offset, poll, robot, awaiting, files, before, accepted>>

Poll_Patient == \* mutant: a poll without an answer does not count
  /\ pc = "verify" /\ awaiting /\ awaiting' = FALSE
  /\ UNCHANGED <<pc, command, offset, poll, outcome, robot, files, before, accepted>>
Poll ==
  /\ pc = "verify" /\ awaiting
  /\ \E now \in poll.elapsed + 1 .. Wait :
       LET first == IF poll.associated = -1 THEN now ELSE poll.associated
       IN  \/ \* a failed request, or an answer that is no verdict
              Learns(now, poll.associated, poll.last) /\ UNCHANGED <<pc, outcome>>
           \/ /\ station \in {"off", "joining"}
              /\ Learns(now, poll.associated, "pending") /\ UNCHANGED <<pc, outcome>>
           \/ station = "leased" /\ Learns(now, poll.associated, "connected") /\ Settled
           \/ /\ station = "associated" /\ Learns(now, first, "connected")
              /\ IF now - first < Lease THEN UNCHANGED <<pc, outcome>> ELSE Settled
           \/ station = "failed" /\ Learns(now, poll.associated, poll.last) /\ End("joinFailed")
  /\ awaiting' = FALSE
  /\ UNCHANGED <<command, offset, robot, files, before, accepted>>

(* The robot's radio: external. *)
Radio ==
  /\ \/ station = "joining" /\ station' \in {"associated", "failed"}
     \/ station = "associated" /\ station' \in {"leased", "joining"}
     \/ station = "leased" /\ station' = "joining"
  /\ UNCHANGED <<pc, command, offset, poll, outcome, staged, nvs, clientId, awaiting, files,
                 before, accepted>>

-----------------------------------------------------------------------------
(***************************************************************************)
(* _cmd_provision, behind a success: the identity's two files, then the    *)
(* profile.  Each is replaced atomically, one after the other.             *)
(***************************************************************************)
SaveCert ==
  /\ pc = "saveCert"
  /\ IF Unmatched \* the pair on file is read first, which raises
     THEN Go("idle") /\ UNCHANGED certFile
     ELSE certFile' = identity /\ Go("saveKey")
  /\ UNCHANGED <<command, offset, poll, robot, awaiting, keyFile, profile, before, accepted>>
SaveKey ==
  /\ pc = "saveKey" /\ keyFile' = secret /\ Go("saveProfile")
  /\ UNCHANGED <<command, offset, poll, robot, awaiting, certFile, profile, before, accepted>>
SaveProfile ==
  /\ pc = "saveProfile" /\ profile' = attempt /\ Go("idle")
  /\ UNCHANGED <<command, offset, poll, robot, awaiting, certFile, keyFile, before, accepted>>

(* The command is killed: the laptop sleeps, somebody closes the terminal. *)
(* A request that is out may still be carried out.                         *)
Kill ==
  /\ pc # "idle" /\ pc' = "idle" /\ awaiting' = FALSE
  /\ outcome' = IF outcome = "succeeded" THEN outcome ELSE "killed"
  /\ UNCHANGED robot \/ (awaiting /\ pc \in Requests /\ CarryOut(pc, Piece(pc)))
  /\ UNCHANGED <<command, offset, poll, files, before, accepted>>

Init ==
  /\ pc = "idle" /\ attempt = 0 /\ dry = FALSE /\ identity = 0 /\ secret = 0 /\ offset = 0
  /\ poll = [elapsed |-> 0, associated |-> -1, last |-> "none"] /\ outcome = "none"
  /\ staged = Factory /\ nvs = Factory /\ clientId = "factory" /\ station = "leased" /\ awaiting = FALSE
  /\ certFile = 0 /\ keyFile = 0 /\ profile = 0
  /\ before = [nvs |-> Factory, staged |-> Factory, clientId |-> "factory"] /\ accepted = {}

(* What the command does of itself, and what it waits for. *)
Session == Ask \/ (\E s \in Requests : Rehearse(s)) \/ PollOver \/ SaveCert \/ SaveKey
Returns == (\E s \in Requests : Request(s)) \/ Poll

Next == \/ \E reissue, supplied, rehearse \in BOOLEAN : Begin(reissue, supplied, rehearse)
        \/ Linked \/ Confirm \/ Session \/ Returns \/ SaveProfile \/ Radio \/ Kill

Spec == Init /\ [][Next]_vars

(* The command's own steps are taken.  Nothing is asked of the robot, of   *)
(* the link, of its radio, or of the operator, who also names a new robot  *)
(* before its profile is saved.                                            *)
FairSpec == Spec /\ WF_vars(Session)

-----------------------------------------------------------------------------
(* A configuration is whole when one attempt wrote all of it, and its      *)
(* certificate and its key belong together.                                *)
Whole(settings) ==
  /\ \A s \in Slots \ {"cert", "key"} : settings[s] = [Factory[s] EXCEPT !.by = settings["host"].by]
  /\ settings["key"] = [Factory["key"] EXCEPT !.by = settings["cert"].by]
  /\ settings["cert"].size = Factory["cert"].size

(***************************************************************************)
(* However attempts fail, drop the link or are killed, the robot runs on   *)
(* the whole configuration of one of them or its factory's, and success is *)
(* reported only for the one it runs on.                                   *)
(***************************************************************************)
Onboards == INSTANCE Onboarding WITH
  committed <- IF Whole(nvs) THEN nvs["host"].by ELSE -1, reported <- outcome = "succeeded"
OnboardsWhole == Onboards!Spec

(***************************************************************************)
(* A join the robot refused ends the attempt with its broker configuration *)
(* untouched, committed and staged ("The broker config has NOT been        *)
(* written", _verify_wifi).                                                *)
(***************************************************************************)
JoinFailureLeavesBroker ==
  outcome = "joinFailed" => nvs = before.nvs /\ staged = before.staged

(***************************************************************************)
(* Until the operator has confirmed, after a decline and in a dry run the  *)
(* robot is as it was when the attempt began.                              *)
(***************************************************************************)
UntouchedUnlessConfirmed ==
  pc \in {"linking", "confirm"} \/ outcome = "declined" \/ dry =>
    nvs = before.nvs /\ staged = before.staged /\ clientId = before.clientId

(***************************************************************************)
(* What the store records of a robot is something the robot has accepted:  *)
(* a failed, declined or killed attempt leaves no identity and no profile  *)
(* behind (_cmd_provision).                                                *)
(***************************************************************************)
StoredWasAccepted == {certFile, keyFile, profile} \subseteq accepted \cup {0}

(***************************************************************************)
(* An attempt past its confirmation ends, or comes to the saving of the    *)
(* profile, whatever the robot says of its radio and whichever requests    *)
(* fail, unless a request never comes back: neither the requests nor the   *)
(* join check have a timeout around them, and one unanswered is waited for *)
(* until the command is killed (_verify_wifi, ProtocommBLE.request).       *)
(***************************************************************************)
Running == Requests \cup {"verify", "saveCert", "saveKey"}
AttemptsEnd == [](pc \in Running => <>(pc \in {"idle", "saveProfile"} \/ []awaiting))

(***************************************************************************)
(* What the comment on CERT_CHUNK says: pieces are counted in bytes, as    *)
(* the length of the credential is.  Then every upload ends whose requests *)
(* come back.                                                              *)
(***************************************************************************)
UploadsEnd == [](pc \in Certs /\ ~dry => <>(pc \notin Certs \/ []awaiting))
=============================================================================
