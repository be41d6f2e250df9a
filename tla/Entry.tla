-------------------------------- MODULE Entry --------------------------------
(***************************************************************************)
(* One config entry of Home Assistant (__init__.py) and the derived state  *)
(* its coordinator keeps (coordinator.py): setup, retries, the reload that *)
(* a sighting asks for and those Home Assistant asks for itself, restarts  *)
(* and crashes, with the robot's messages folded in meanwhile.  Home       *)
(* Assistant's registry, restore cache and reload queue are external.      *)
(***************************************************************************)
EXTENDS Derived

CONSTANTS
  Documents,    \* the state documents the robot may send
  Activities,   \* the activity messages it may send, as sequences of readings
  Tracked,      \* the capabilities these may prove
  Stored,       \* the options an entry may start with
  Gauges,       \* the fill gauges the restore cache may start with
  MaxTime,      \* bound: the clock
  MaxMessages,  \* bound: messages, apart from the answer to a setup's first request
  MaxEvents     \* bound: failed setups, stops, crashes and a user's hand

ASSUME EntryAssumption ==
  /\ Tracked \subseteq Capabilities
  /\ None \notin BOOLEAN /\ None # "dispense" /\ None \notin Documents
  /\ \A o \in Stored :
       /\ DOMAIN o = {"seen", "snapshot", "learned", "fill", "stale", "swept", "pref"}
       /\ o.snapshot = None
       /\ o.seen = [c \in Capabilities |-> o.seen[c]] /\ o.seen["hopper"] # "dispense"
       /\ o.stale \in BOOLEAN \cup {None}
  /\ \A a \in Activities :
       /\ Len(a) \in Nat
       /\ \A i \in 1 .. Len(a) : a[i].register = "dispense" => a[i].value \in Nat

VARIABLES
  now,
  stage,     \* of the entry
  d, robot,  \* the coordinator's _derived and _robot; None when there is no coordinator
  options,   \* the entry's
  registry,  \* of each capability's entities
  cache,     \* Home Assistant's restore cache
  shown,     \* what the two latching binary sensors show
  reload,    \* a reload the coordinator scheduled is to run
  flipped,   \* a reload Home Assistant queued for an enabled entity is to run
  counts,
  heard,     \* history: when each phase of a dispense was last heard
  burst,     \* history: two of them were heard within one burst's time
  told,      \* history: the newest fill gauge, and whether it was stale
  cleared,   \* history: when a document last said that the pan is clear
  blurred    \* history: the verdict that is carried may be older than that

coordinator == <<d, robot>>
ha == <<registry, cache, shown, reload, flipped>>
history == <<heard, burst, told, cleared, blurred>>
vars == <<now, stage, coordinator, options, ha, counts, history>>

Stages == {"off", "due", "refreshing", "forwarding", "loaded", "unloading", "retry"}
EntityStates == {"absent", "integration", "user", "enabled"}
Listening == stage \in {"refreshing", "forwarding", "loaded"}

-----------------------------------------------------------------------------
(* What a setup does before it builds the coordinator *)

LastSweep == 3
Unvalidated(o) == (IF o.swept < 3 THEN {"hopper"} ELSE {})
                  \cup (IF o.swept < 1 THEN {"visit_duration"} ELSE {})

(* A bare flag is a build's that recorded no evidence. *)
SightingStands(c, evidence) == evidence \in AcceptedEvidence[c]

Reproved(c, o) ==
  IF c = "hopper" THEN o.fill # None \/ cache.gauge \in HopperGauge.plausible
  ELSE c \in cache.reports

(* What _recheck_sightings makes of a recorded sighting. *)
Rechecked(c, o) ==
  LET stored == o.seen[c] IN
  CASE stored \notin {"flag", None} /\ SightingStands(c, stored) -> stored
    [] stored = "flag" /\ c \notin Unvalidated(o) -> "legacy"
    [] OTHER -> IF SightingStands(c, "restored") /\ Reproved(c, o) THEN "restored" ELSE None

Carried == IF cache.gauge \in HopperGauge.plausible THEN cache.gauge ELSE None

(* _recheck_sightings, then _seed_missing_gauge. *)
Swept(o) ==
  LET seen == [c \in Capabilities |-> Rechecked(c, o)]
  IN [o EXCEPT !.seen = seen, !.swept = IF @ < LastSweep THEN LastSweep ELSE @,
               !.fill = IF @ = None /\ seen["hopper"] # None THEN Carried ELSE @]

Withdrawn(o, p) == {c \in Capabilities : o.seen[c] # None /\ p.seen[c] = None}

-----------------------------------------------------------------------------
(* Messages *)

(* _apply_effects *)
ApplyEffects_NoReload(u) == options' = StoreEffects(options, u) /\ UNCHANGED reload
ApplyEffects(u) ==
  /\ options' = StoreEffects(options, u)
  /\ reload' = (reload \/ Proved(u) # {})

Verdicts(s, doc) == [excess |-> ExcessWeight(s, doc, now), fault |-> GlobeMotorFaulted(s, doc)]
Unshown == [excess |-> None, fault |-> None]

Told(s) == told' = [fill |-> IF s.fill = None THEN told.fill ELSE s.fill, stale |-> s.stale]

(* _handle_message: a message that comes while the entry unloads is dropped, which is to *)
(* say that it is not heard.                                                              *)
HearDocument(doc) ==
  /\ Listening
  /\ \/ counts.messages < MaxMessages /\ counts' = [counts EXCEPT !.messages = @ + 1]
     \/ stage = "refreshing" /\ robot = None /\ UNCHANGED counts
  /\ LET u == ApplyState(d, doc, now)
     IN /\ d' = u.state /\ robot' = doc /\ ApplyEffects(u) /\ Told(u.state)
        /\ shown' = IF stage = "loaded" THEN Verdicts(u.state, doc) ELSE shown
  /\ cleared' = IF doc.loaded = FALSE THEN now ELSE cleared
  /\ blurred' = (blurred \/ (doc.loaded = FALSE /\ options.snapshot # None))
  /\ UNCHANGED <<now, stage, registry, cache, flipped, heard, burst>>

HearActivity(readings) ==
  /\ Listening /\ counts.messages < MaxMessages
  /\ counts' = [counts EXCEPT !.messages = @ + 1]
  /\ LET u == ApplyActivity(d, readings, now)
     IN /\ d' = u.state /\ ApplyEffects(u) /\ Told(u.state)
        /\ shown' = IF stage = "loaded" /\ <<"changed">> \in u.effects
                    THEN Verdicts(u.state, robot) ELSE shown
  /\ LET phases == {Phase(readings[i].value) :
                       i \in {j \in 1 .. Len(readings) : readings[j].register = "dispense"}}
     IN /\ heard' = [p \in DOMAIN heard \cup phases |-> IF p \in phases THEN now ELSE heard[p]]
        /\ burst' = (burst \/ \E p, q \in DOMAIN heard' :
                                p # q /\ Magnitude(heard'[p] - heard'[q]) <= BurstWindow)
  /\ UNCHANGED <<now, stage, robot, registry, cache, flipped, cleared, blurred>>

-----------------------------------------------------------------------------
(* Setup and unload *)

BeginSetup ==
  /\ stage = "due" /\ stage' = "refreshing"
  /\ LET o == Swept(options)
     IN /\ options' = o
        /\ registry' = [c \in Capabilities |->
                          IF c \in Withdrawn(options, o) /\ registry[c] = "enabled"
                          THEN "integration" ELSE registry[c]]
        /\ d' = RestoreDerived(o, cache)
        /\ told' = IF told.fill = None THEN [told EXCEPT !.fill = o.fill] ELSE told
  /\ robot' = None
  /\ UNCHANGED <<now, cache, shown, reload, flipped, counts, heard, burst, cleared, blurred>>

(* _enable_detected_entities: Home Assistant queues a reload for what it turns on. *)
Detected(r) == IF options.pref THEN {}
               ELSE {c \in Capabilities : options.seen[c] # None /\ r[c] = "integration"}
Enable(r, on) == registry' = [c \in Capabilities |-> IF c \in on THEN "enabled" ELSE r[c]]

FirstRefresh ==
  /\ stage = "refreshing" /\ robot # None /\ stage' = "forwarding"
  /\ Enable(registry, Detected(registry))
  /\ flipped' = (flipped \/ Detected(registry) # {})
  /\ UNCHANGED <<now, coordinator, options, cache, shown, reload, counts, history>>

(* The platforms register what an earlier setup did not; then the entities that are proven *)
(* are enabled again, and the snapshot goes unless that queued a reload.                     *)
Forwarded ==
  /\ stage = "forwarding" /\ stage' = "loaded"
  /\ LET r == [c \in Capabilities |-> IF registry[c] = "absent" THEN "integration" ELSE registry[c]]
         on == Detected(r)
     IN /\ Enable(r, on)
        /\ flipped' = (flipped \/ on # {})
        /\ options' = IF on = {} THEN [options EXCEPT !.snapshot = None] ELSE options
  /\ shown' = Verdicts(d, robot)
  /\ UNCHANGED <<now, coordinator, cache, reload, counts, history>>

Gone == d' = None /\ robot' = None /\ shown' = Unshown

Event == counts.events < MaxEvents /\ counts' = [counts EXCEPT !.events = @ + 1]

(* A document cleared the verdict that the cache still has, and its coordinator ends. *)
Forgotten == /\ stage \in {"refreshing", "forwarding"}
             /\ cache.excess = TRUE /\ d.excessRestored # TRUE

(* The request is not answered in time, or cannot be sent; a document that came before the *)
(* wait began does not count as its answer.                                                 *)
SetupFails ==
  /\ stage = "refreshing" /\ Event
  /\ stage' = "retry" /\ Gone /\ blurred' = (blurred \/ Forgotten)
  /\ UNCHANGED <<now, options, registry, cache, reload, flipped, heard, burst, told, cleared>>

Retry == /\ stage = "retry" /\ stage' = "due"
         /\ UNCHANGED <<now, coordinator, options, ha, counts, history>>

StartReload ==
  /\ stage \in {"loaded", "retry"}
  /\ \/ reload /\ reload' = FALSE /\ UNCHANGED flipped
     \/ flipped /\ flipped' = FALSE /\ UNCHANGED reload
  /\ stage' = IF stage = "loaded" THEN "unloading" ELSE "due"
  /\ UNCHANGED <<now, coordinator, options, registry, cache, shown, counts, history>>

(* What the restore cache keeps of the entities there are. *)
Displayed ==
  [excess |-> shown.excess, fault |-> shown.fault,
   gauge |-> IF registry["hopper"] = "enabled" /\ d.fill # None THEN d.fill ELSE cache.gauge,
   reports |-> cache.reports \cup {c \in d.reported : registry[c] = "enabled"}]
HasEntities == stage \in {"loaded", "unloading"}
Kept == IF HasEntities THEN Displayed ELSE cache

Unloaded ==
  /\ stage = "unloading" /\ stage' = "due" /\ cache' = Displayed /\ Gone
  /\ UNCHANGED <<now, options, registry, reload, flipped, counts, history>>

Stop ==
  /\ stage # "off" /\ Event
  /\ stage' = "off" /\ cache' = Kept /\ Gone /\ reload' = FALSE /\ flipped' = FALSE
  /\ blurred' = (blurred \/ Forgotten)
  /\ UNCHANGED <<now, options, registry, heard, burst, told, cleared>>

(* A crash leaves the cache as it was last written to disk. *)
Crash ==
  /\ stage # "off" /\ Event
  /\ stage' = "off" /\ cache' \in {cache, Kept} /\ Gone /\ reload' = FALSE /\ flipped' = FALSE
  /\ blurred' = (blurred \/ cache'.excess = TRUE)
  /\ UNCHANGED <<now, options, registry, heard, burst, told, cleared>>

Start == /\ stage = "off" /\ stage' = "due"
         /\ UNCHANGED <<now, coordinator, options, ha, counts, history>>

(* A person turns a capability's entities off, or on; what is turned on queues a reload. *)
UserDisables(c) ==
  /\ registry[c] = "enabled" /\ Event /\ registry' = [registry EXCEPT ![c] = "user"]
  /\ UNCHANGED <<now, stage, coordinator, options, cache, shown, reload, flipped, history>>
UserEnables(c) ==
  /\ stage \in {"loaded", "retry"} /\ registry[c] \in {"integration", "user"} /\ Event
  /\ registry' = [registry EXCEPT ![c] = "enabled"] /\ flipped' = TRUE
  /\ UNCHANGED <<now, stage, coordinator, options, cache, shown, reload, history>>

(* Time passes while something waits; the steps of a setup take none. *)
Tick == /\ now < MaxTime /\ now' = now + 1
        /\ stage \in {"refreshing", "loaded", "retry", "off"}
        /\ UNCHANGED <<stage, coordinator, options, ha, counts, history>>

-----------------------------------------------------------------------------

Init ==
  /\ now = 0 /\ stage = "due" /\ d = None /\ robot = None
  /\ options \in Stored
  /\ registry \in [Capabilities -> {"absent", "integration", "enabled"}]
  /\ \A c \in Capabilities \ Tracked : registry[c] = "integration"
  /\ \A c \in Tracked : registry[c] = "enabled" => options.seen[c] # None
  /\ \E g \in Gauges : cache = [excess |-> None, fault |-> None, gauge |-> g, reports |-> {}]
  /\ cache.gauge # None => registry["hopper"] = "enabled"
  /\ shown = Unshown /\ reload = FALSE /\ flipped = FALSE
  /\ counts = [messages |-> 0, events |-> 0]
  /\ heard = <<>> /\ burst = FALSE /\ told = [fill |-> options.fill, stale |-> options.stale = TRUE]
  /\ cleared = 0 /\ blurred = FALSE

Messages == \/ \E doc \in Documents : HearDocument(doc)
            \/ \E a \in Activities : HearActivity(a)

Lifecycle == BeginSetup \/ FirstRefresh \/ Forwarded \/ SetupFails \/ Retry \/ StartReload
             \/ Unloaded \/ Stop \/ Crash \/ Start

Hand == \E c \in Tracked : UserDisables(c) \/ UserEnables(c)

Next == Messages \/ Lifecycle \/ Hand \/ Tick
Spec == Init /\ [][Next]_vars

-----------------------------------------------------------------------------
(* A hopper is recorded as seen dispensing only if two different phases of the register were *)
(* heard within one burst's time, whatever reloads and restarts came between: a register      *)
(* somebody reads, however often, grows no hopper entities (derive.py _apply_activity).       *)
SightingNeedsItsBurst ==
  options.seen["hopper"] = "dispense" => burst

(* An entry that is loaded, with no reload to come, has used up the snapshot, which would   *)
(* overwrite newer values at every later start, and shows every capability the robot proved, *)
(* unless a person decided otherwise (__init__.py async_setup_entry).                         *)
SettledIsComplete ==
  stage = "loaded" /\ ~reload /\ ~flipped =>
    /\ options.snapshot = None
    /\ \A c \in Capabilities :
         options.seen[c] # None /\ ~options.pref => registry[c] \in {"enabled", "user"}

(* A coordinator has the newest fill gauge there was, and knows whether it is stale, whatever *)
(* snapshot, reload or restart it was built from (coordinator.py _restore_derived).            *)
GaugeSurvives == d # None => d.fill = told.fill /\ d.stale = told.stale

(* Excess weight is reported only when no document has said for ExcessAfter that the pan is   *)
(* clear, over restarts too (derive.py _apply_state, excess_weight).                           *)
ExcessNeedsARun ==
  stage = "loaded" /\ ~blurred /\ ExcessWeight(d, robot, now) = TRUE =>
    now - cleared >= ExcessAfter
=============================================================================
