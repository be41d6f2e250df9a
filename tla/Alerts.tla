------------------------------- MODULE Alerts -------------------------------
(***************************************************************************)
(* The condition alerts of one robot: the rules of the library             *)
(* (devices/litter_robot_4/alerts.py: conditions, AlertTracker, Reminders) *)
(* and the Home Assistant publisher around them                            *)
(* (custom_components/whiskerless/alerts.py) over setups, failed setups,   *)
(* reloads and restarts.                                                   *)
(*                                                                         *)
(* Every step is one callback of the event loop.  The minute tick is the   *)
(* step of time: no time passes without it while a publisher runs.         *)
(***************************************************************************)
EXTENDS Integers

CONSTANTS
  Faults,   \* conditions a document shows as they are (bonnet, lockout, cat sensor, ...)
  Gauges,   \* conditions on a level (drawer level; low litter, read downwards)
  Urgent,   \* the alerts of URGENT
  Hold,     \* HOLD, zero where the table has no entry
  Levels,   \* the levels a gauge can show
  Threshold, Margin, \* the user's threshold and LEVEL_MARGIN
  DayLength, SetTimes, \* the day and the two hours of set-time reminders
  MinAge, Grace, Interval, \* REMINDER_MIN_AGE, REMINDER_GRACE, urgent_reminder_hours
  Phones,   \* the phones that may ask for silence
  Never,    \* no time
  LastTime  \* bound: when the clock stops

Offline == "offline"
Alerts  == {Offline} \cup Faults \cup Gauges

ASSUME AlertsAssumption ==
  /\ Offline \notin Faults \cup Gauges /\ Faults \cap Gauges = {}
  /\ Urgent \subseteq Alerts /\ Hold \in [Alerts -> Nat] /\ Hold[Offline] > 0
  /\ Levels \subseteq Nat /\ Threshold \in Nat /\ Margin \in 1 .. Threshold
  /\ DayLength \in Nat \ {0} /\ SetTimes \in SUBSET (0 .. DayLength - 1) /\ SetTimes # {}
  /\ MinAge \in Nat /\ Grace \in Nat /\ Interval \in Nat
  /\ Never \notin Nat /\ LastTime \in Nat

Time   == Nat
Moment == Time \cup {Never}
Truths == {"yes", "no", "unknown"}

VARIABLES
  now,     \* utcnow
  started, \* Home Assistant has started
  entry,   \* off, setup (refreshed, platforms forwarding), waiting (for the start), running
  failing, \* hass.data[_SETUP_FAILURES]: when setup first failed
  doc,     \* coordinator.data
  online,  \* coordinator.last_update_success
  options, \* the entry's options: active alerts and reminder clocks
  memory,  \* the publisher's AlertTracker and Reminders
  fired,   \* the events of the newest step
  (* history *)
  told,    \* the alerts listeners take to be active
  noticed, \* when each alert was raised and last announced
  heard,   \* when a document was last heard, and since when each fault has been shown
  lowest,  \* the lowest level of each gauge since it was last raised
  asked    \* the phones that asked for silence in this episode and were heard

vars == <<now, started, entry, failing, doc, online, options, memory, fired,
          told, noticed, heard, lowest, asked>>

Doc     == [fault : [Faults -> Truths], level : [Gauges -> Levels \cup {Never}]]
Clock   == [since : Moment, reminded : Moment, silenced : SUBSET Phones]
NoClock == [since |-> Never, reminded |-> Never, silenced |-> {}]
Memory  == [active : SUBSET Alerts, since : [Alerts -> Moment], clocks : [Alerts -> Clock]]
Options == [active : SUBSET Alerts, clocks : [Alerts -> Clock]]
NoSince == [a \in Alerts |-> Never]
NoClocks == [a \in Alerts |-> NoClock]
Blank   == [active |-> {}, since |-> NoSince, clocks |-> NoClocks]

Fired == [raised : SUBSET Alerts, cleared : SUBSET Alerts, reminded : SUBSET Alerts,
          silenced : [Alerts -> SUBSET Phones]]
Quiet == [raised |-> {}, cleared |-> {}, reminded |-> {}, silenced |-> [a \in Alerts |-> {}]]

TypeOK ==
  /\ now \in Time /\ started \in BOOLEAN /\ online \in BOOLEAN
  /\ entry \in {"off", "setup", "waiting", "running"}
  /\ failing \in Moment
  /\ doc \in Doc
  /\ options \in Options /\ memory \in Memory /\ fired \in Fired
  /\ told \in SUBSET Alerts
  /\ noticed \in [Alerts -> [raised : Moment, last : Moment]]
  /\ heard \in [any : Time, shown : [Faults -> Moment]]
  /\ lowest \in [Gauges -> Nat \cup {Never}]
  /\ asked \in [Alerts -> SUBSET Phones]

-----------------------------------------------------------------------------
(***************************************************************************)
(* conditions: the raw truth of every condition.  A robot that cannot be   *)
(* heard says nothing of its faults and levels.                            *)
(***************************************************************************)
Truth_NoMargin(a, d, on, active) == \* mutant: a level alert clears where it was raised
  CASE a = Offline -> IF on THEN "no" ELSE "yes"
    [] a # Offline /\ ~on -> "unknown"
    [] a \in Faults /\ on -> d.fault[a]
    [] a \in Gauges /\ on -> IF d.level[a] = Never THEN "unknown"
                             ELSE IF d.level[a] >= Threshold THEN "yes" ELSE "no"
Truth(a, d, on, active) ==
  CASE a = Offline -> IF on THEN "no" ELSE "yes"
    [] a # Offline /\ ~on -> "unknown"
    [] a \in Faults /\ on -> d.fault[a]
    [] a \in Gauges /\ on ->
         IF d.level[a] = Never THEN "unknown"
         ELSE IF \/ a \in active /\ d.level[a] > Threshold - Margin
                 \/ a \notin active /\ d.level[a] >= Threshold THEN "yes" ELSE "no"

(* AlertTracker.update, on what is active and since when each has been true. *)
Cleared(raw, active) == {a \in active : raw[a] = "no"}
Begun(raw, active, since, t) ==
  [a \in Alerts |-> IF raw[a] = "no" THEN Never
                    ELSE IF raw[a] = "yes" /\ a \notin active /\ since[a] = Never THEN t
                    ELSE since[a]]
Raised(raw, active, begun, t) ==
  {a \in Alerts \ active : raw[a] = "yes" /\ t - begun[a] >= Hold[a]}

(* Reminders.track: a clock for every active alert, none for the others. *)
Track(clocks, active, t) ==
  [a \in Alerts |-> IF a \notin active THEN NoClock
                    ELSE IF clocks[a].since = Never THEN [NoClock EXCEPT !.since = t]
                    ELSE clocks[a]]

(* _last_slot: yesterday's and today's set times, the latest that has come. *)
Slots(t) == {d * DayLength + h : d \in {t \div DayLength, (t \div DayLength) - 1}, h \in SetTimes}
LastSlot(s, t) == s <= t /\ \A other \in Slots(t) : other <= t => other <= s

(* Reminders.due *)
Due_Late(a, clock, truth, t) == \* mutant: a set time missed is made up for, however late
  LET last == IF clock.reminded = Never THEN clock.since ELSE clock.reminded
  IN  /\ clock.since # Never /\ truth = "yes"
      /\ IF a \in Urgent THEN Interval # 0 /\ t - last >= Interval
         ELSE \E slot \in Slots(t) : LastSlot(slot, t) /\ slot > last /\ slot - clock.since >= MinAge
Due(a, clock, truth, t) ==
  LET last == IF clock.reminded = Never THEN clock.since ELSE clock.reminded
  IN  /\ clock.since # Never /\ truth = "yes"
      /\ IF a \in Urgent
         THEN Interval # 0 /\ t - last >= Interval
         ELSE \E slot \in Slots(t) : /\ LastSlot(slot, t)
                                     /\ slot > last /\ slot - clock.since >= MinAge
                                     /\ t - slot < Grace

-----------------------------------------------------------------------------
(***************************************************************************)
(* AlertPublisher._evaluate, with memory m: update, track, due, save when  *)
(* anything changed, and then fire.                                        *)
(***************************************************************************)
Evaluate(m, d, on, t) ==
  LET raw     == [a \in Alerts |-> Truth(a, d, on, m.active)]
      begun   == Begun(raw, m.active, m.since, t)
      raised  == Raised(raw, m.active, begun, t)
      cleared == Cleared(raw, m.active)
      active  == (m.active \ cleared) \cup raised
      tracked == Track(m.clocks, active, t)
      due     == {a \in Alerts : Due(a, tracked[a], raw[a], t)}
      clocks  == [a \in Alerts |-> IF a \in due THEN [tracked[a] EXCEPT !.reminded = t]
                                   ELSE tracked[a]]
  IN  /\ memory' = [active |-> active, since |-> begun, clocks |-> clocks]
      /\ options' = IF raised \cup cleared # {} \/ clocks # options.clocks
                    THEN [active |-> active, clocks |-> clocks] ELSE options
      /\ fired' = [raised |-> raised, cleared |-> cleared, reminded |-> due,
                   silenced |-> [a \in Alerts |-> IF a \in due THEN clocks[a].silenced ELSE {}]]

(* _restore_reminders: an active alert without a stored clock starts one now. *)
RestoredClock_Unsilenced(a, t) == \* mutant: the silences are not restored
  IF a \notin options.active THEN NoClock
  ELSE [options.clocks[a] EXCEPT !.silenced = {}, !.since = IF @ = Never THEN t ELSE @]
RestoredClock(a, t) == IF a \notin options.active THEN NoClock
                       ELSE IF options.clocks[a].since = Never THEN [options.clocks[a] EXCEPT !.since = t]
                       ELSE options.clocks[a]

(* The publisher as it is built from the options. *)
Restored(t) ==
  [active |-> options.active, since |-> NoSince,
   clocks |-> [a \in Alerts |-> RestoredClock(a, t)]]

(* History: what the step told its listeners. *)
Listened ==
  /\ told' = (told \ fired'.cleared) \cup fired'.raised
  /\ noticed' = [a \in Alerts |->
       IF a \in fired'.raised THEN [raised |-> now', last |-> now']
       ELSE IF a \in fired'.reminded THEN [noticed[a] EXCEPT !.last = now']
       ELSE noticed[a]]
  /\ lowest' = [a \in Gauges |->
       IF \/ a \in fired'.raised
          \/ doc'.level[a] # Never /\ (lowest[a] = Never \/ doc'.level[a] < lowest[a])
       THEN doc'.level[a] ELSE lowest[a]]
  /\ asked' = [a \in Alerts |-> IF a \in fired'.cleared THEN {} ELSE asked[a]]

(* History: what a document showed. *)
Shown(d) ==
  heard' = [any |-> now,
            shown |-> [a \in Faults |-> CASE d.fault[a] = "no" -> Never
                                          [] d.fault[a] = "yes" /\ heard.shown[a] = Never -> now
                                          [] OTHER -> heard.shown[a]]]
NotShown == UNCHANGED heard

(* A running publisher evaluates; nothing else hears the coordinator. *)
IfRunning(d, on, t) ==
  /\ \/ entry = "running" /\ Evaluate(memory, d, on, t)
     \/ entry # "running" /\ fired' = Quiet /\ UNCHANGED <<options, memory>>
  /\ Listened

Coordinated == entry \in {"setup", "waiting", "running"}

(* The coordinator decodes a state document, and its heartbeat fails. *)
Hear(d) ==
  /\ Coordinated
  /\ doc' = d /\ online' = TRUE
  /\ UNCHANGED <<now, started, entry, failing>>
  /\ IfRunning(d, TRUE, now) /\ Shown(d)

HeartbeatFails ==
  /\ Coordinated /\ online
  /\ online' = FALSE
  /\ UNCHANGED <<now, started, entry, failing, doc>>
  /\ IfRunning(doc, FALSE, now) /\ NotShown

(* A unit of time passes, and the minute tick evaluates.  Home Assistant   *)
(* starts, and an entry sets its platforms up, in less than a unit.        *)
Tick_Idle == \* mutant: evaluated on messages only
  /\ started /\ entry # "setup" /\ now < LastTime /\ now' = now + 1
  /\ fired' = Quiet
  /\ UNCHANGED <<started, entry, failing, doc, online, options, memory>> /\ Listened /\ NotShown
Tick ==
  /\ started /\ entry # "setup" /\ now < LastTime
  /\ now' = now + 1
  /\ UNCHANGED <<started, entry, failing, doc, online>>
  /\ IfRunning(doc, online, now + 1) /\ NotShown

(***************************************************************************)
(* async_setup_entry: the first refresh fails, and the offline hold is     *)
(* kept for it, or it succeeds; the publisher starts after the platforms,  *)
(* and evaluates once Home Assistant has started.                          *)
(***************************************************************************)
SetupFails_Again == \* mutant: every failed setup past the hold raises
  /\ entry = "off"
  /\ failing' = IF failing = Never THEN now ELSE failing
  /\ IF now - failing' < Hold[Offline]
     THEN fired' = Quiet /\ UNCHANGED options
     ELSE /\ options' = [options EXCEPT !.active = @ \cup {Offline}]
          /\ fired' = [Quiet EXCEPT !.raised = {Offline}]
  /\ UNCHANGED <<now, started, entry, doc, online, memory>> /\ Listened /\ NotShown
SetupFails ==
  /\ entry = "off"
  /\ failing' = IF failing = Never THEN now ELSE failing
  /\ IF Offline \in options.active \/ now - failing' < Hold[Offline]
     THEN fired' = Quiet /\ UNCHANGED options
     ELSE /\ options' = [options EXCEPT !.active = @ \cup {Offline}]
          /\ fired' = [Quiet EXCEPT !.raised = {Offline}]
  /\ UNCHANGED <<now, started, entry, doc, online, memory>>
  /\ Listened /\ NotShown

SetupRefreshed_KeepsClock(d) == \* mutant: async_clear_setup_failure left out
  /\ entry = "off" /\ entry' = "setup" /\ doc' = d /\ online' = TRUE /\ fired' = Quiet
  /\ UNCHANGED <<now, started, failing, options, memory>> /\ Listened /\ Shown(d)
SetupRefreshed(d) ==
  /\ entry = "off" /\ entry' = "setup"
  /\ doc' = d /\ online' = TRUE
  /\ failing' = Never
  /\ fired' = Quiet
  /\ UNCHANGED <<now, started, options, memory>>
  /\ Listened /\ Shown(d)

StartPublisher_AtOnce == \* mutant: evaluated before the automations are armed
  /\ entry = "setup" /\ entry' = "running" /\ Evaluate(Restored(now), doc, online, now)
  /\ UNCHANGED <<now, started, failing, doc, online>> /\ Listened /\ NotShown
StartPublisher ==
  /\ entry = "setup"
  /\ \/ started /\ entry' = "running" /\ Evaluate(Restored(now), doc, online, now)
     \/ ~started /\ entry' = "waiting" /\ memory' = Restored(now) /\ fired' = Quiet
        /\ UNCHANGED options
  /\ UNCHANGED <<now, started, failing, doc, online>>
  /\ Listened /\ NotShown

Started ==
  /\ ~started /\ started' = TRUE
  /\ \/ entry = "waiting" /\ entry' = "running" /\ Evaluate(memory, doc, online, now)
     \/ entry # "waiting" /\ fired' = Quiet /\ UNCHANGED <<entry, options, memory>>
  /\ UNCHANGED <<now, failing, doc, online>>
  /\ Listened /\ NotShown

(* The entry is unloaded, to be set up again or not; Home Assistant restarts. *)
Unload ==
  /\ Coordinated /\ entry' = "off" /\ memory' = Blank /\ fired' = Quiet
  /\ UNCHANGED <<now, started, failing, doc, online, options>>
  /\ Listened /\ NotShown

Restart ==
  /\ started /\ started' = FALSE
  /\ entry' = "off" /\ memory' = Blank /\ failing' = Never /\ fired' = Quiet
  /\ UNCHANGED <<now, doc, online, options>>
  /\ Listened /\ NotShown

(***************************************************************************)
(* A phone that was told of an alert taps Silence.  Only a publisher that  *)
(* has started listens.                                                    *)
(***************************************************************************)
Silence_NotSaved(a, phone) == \* mutant: silenced in memory only
  /\ a \in told /\ entry = "running" /\ memory.clocks[a].since # Never
  /\ memory' = [memory EXCEPT !.clocks[a].silenced = @ \cup {phone}]
  /\ asked' = [asked EXCEPT ![a] = @ \cup {phone}]
  /\ fired' = Quiet
  /\ UNCHANGED <<options, now, started, entry, failing, doc, online, told, noticed, heard, lowest>>
Silence(a, phone) ==
  /\ a \in told
  /\ IF entry = "running" /\ memory.clocks[a].since # Never
     THEN LET silent == [memory.clocks EXCEPT ![a].silenced = @ \cup {phone}]
          IN  /\ memory' = [memory EXCEPT !.clocks = silent]
              /\ options' = [options EXCEPT !.clocks = silent]
     ELSE UNCHANGED <<memory, options>>
  /\ asked' = IF entry = "running" THEN [asked EXCEPT ![a] = @ \cup {phone}] ELSE asked
  /\ fired' = Quiet
  /\ UNCHANGED <<now, started, entry, failing, doc, online, told, noticed, heard, lowest>>

Init ==
  /\ now = DayLength /\ started = FALSE /\ entry = "off" /\ failing = Never
  /\ doc = [fault |-> [a \in Faults |-> "unknown"], level |-> [a \in Gauges |-> Never]]
  /\ online = FALSE
  /\ options = [active |-> {}, clocks |-> NoClocks] /\ memory = Blank /\ fired = Quiet
  /\ told = {} /\ noticed = [a \in Alerts |-> [raised |-> Never, last |-> Never]]
  /\ heard = [any |-> 0, shown |-> [a \in Faults |-> Never]]
  /\ lowest = [a \in Gauges |-> Never]
  /\ asked = [a \in Alerts |-> {}]

Next ==
  \/ \E d \in Doc : Hear(d) \/ SetupRefreshed(d)
  \/ HeartbeatFails \/ Tick \/ SetupFails \/ StartPublisher \/ Started
  \/ Unload \/ Restart
  \/ \E a \in Alerts, phone \in Phones : Silence(a, phone)

Spec == Init /\ [][Next]_vars

-----------------------------------------------------------------------------
(***************************************************************************)
(* A condition is raised once and cleared once, with reminders between,    *)
(* whatever setups, failed setups, reloads and restarts come between: the  *)
(* publisher built anew neither repeats a raise nor forgets a clear.       *)
(***************************************************************************)
Told == INSTANCE Episodes WITH announced <- told,
          notices <- [raised |-> fired.raised, cleared |-> fired.cleared, reminded |-> fired.reminded]
TellsEpisodes == Told!Spec

(***************************************************************************)
(* What is stored is what was announced, whoever announced it, and what a  *)
(* running publisher remembers is what is stored (_save on every change):  *)
(* a restart at any point loses nothing but the hold clocks.               *)
(***************************************************************************)
StoredIsAnnounced ==
  /\ options.active = told
  /\ entry = "waiting" => memory.active = options.active
  /\ entry = "running" => memory.active = options.active /\ memory.clocks = options.clocks

(***************************************************************************)
(* An alert is raised only after its hold: no document heard within it     *)
(* showed the fault gone, and no document at all was heard within the      *)
(* offline hold, also when the clock is that of the failed setups.         *)
(***************************************************************************)
HoldsAreRespected ==
  [][/\ \A a \in Faults \cap fired'.raised :
          heard'.shown[a] # Never /\ now' - heard'.shown[a] >= Hold[a]
     /\ Offline \in fired'.raised => now' - heard'.any >= Hold[Offline]]_vars

(***************************************************************************)
(* While a publisher runs nothing is overdue: what has been true for its   *)
(* hold is raised, and an urgent alert still true has been reminded of     *)
(* within the interval, though no message arrives to prompt it (_tick).    *)
(***************************************************************************)
NothingOverdue ==
  entry = "running" => \A a \in Alerts :
    Truth(a, doc, online, memory.active) = "yes" =>
      /\ a \notin memory.active => memory.since[a] # Never /\ now - memory.since[a] < Hold[a]
      /\ a \in memory.active \cap Urgent /\ Interval # 0 =>
           LET clock == memory.clocks[a]
           IN  now - (IF clock.reminded = Never THEN clock.since ELSE clock.reminded) < Interval

(***************************************************************************)
(* Nothing is announced before Home Assistant has started, when the        *)
(* automations that would hear it are not armed (async_start).             *)
(***************************************************************************)
NothingUnheard == fired.raised \cup fired.cleared \cup fired.reminded # {} => started

(***************************************************************************)
(* Reminders keep their pace over reloads and restarts: an urgent alert is *)
(* reminded of an interval after its last notice, any other within the     *)
(* grace of a set time, once for each, and never of a fresh alert.         *)
(***************************************************************************)
RemindersKeepTheirPace ==
  [][\A a \in fired'.reminded :
       IF a \in Urgent THEN now' - noticed[a].last >= Interval
       ELSE \E slot \in Slots(now') : /\ LastSlot(slot, now') /\ now' - slot < Grace
                                      /\ noticed[a].last < slot
                                      /\ slot - noticed[a].raised >= MinAge]_vars

(***************************************************************************)
(* A gauge is raised again only after the level has been heard a margin    *)
(* past its threshold: a level that wanders across the line, also across a *)
(* restart, is one alert (the comment on LEVEL_MARGIN).                    *)
(***************************************************************************)
GaugesDoNotFlap ==
  [][\A a \in Gauges \cap fired'.raised :
       noticed[a].raised # Never => lowest[a] # Never /\ lowest[a] <= Threshold - Margin]_vars

(***************************************************************************)
(* A phone whose tap on Silence the publisher heard is named on every      *)
(* reminder until the alert clears, over reloads and restarts.             *)
(***************************************************************************)
SilencedStaySilent == [][\A a \in fired'.reminded : asked[a] \subseteq fired'.silenced[a]]_vars
=============================================================================
