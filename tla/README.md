# Whiskerless: a verification of what it decides

Whiskerless runs a Litter-Robot 4 without the vendor's cloud. A Python library
(`src/src/whiskerless`) speaks to the robot over MQTT and, once, over Bluetooth;
a command line tool drives the library and keeps the keys; a Home Assistant
integration (`src/custom_components/whiskerless`) keeps one coordinator per robot.
This directory models the parts of it that decide things, checks them with TLC
and proves about them with TLAPS.

## Inventory

| Component | State it keeps | Operations | Hard behaviour | What makes it correct |
|---|---|---|---|---|
| Coordinator (`coordinator.py`) | `_io_lock`, `_state_event`, `_press_echo`, `_awaited_press`, `_robot`, refresh tasks, throttle | register writes, panel presses, heartbeat, calibration, message handler, shutdown | callers interleave at every await; messages are lost, late, repeated; timeouts race answers; tasks are cancelled | exclusive transactions, no doubled press, success only on fresh evidence, every call returns |
| Entry lifecycle (`__init__.py`) | config entry data and options, entity registry | setup, unload, the sweep of sightings, the reload behind one, migrations | reloads from three sides, setups that fail, snapshots, crashes | nothing learned is lost, nothing older is believed, what is proven is shown |
| Alerts (`devices/.../alerts.py`, `custom_components/.../alerts.py`) | tracker of conditions, reminders, stored alert state | evaluate, tick, action, visit, cycle | flapping inputs, hold times, restarts, duplicated notifications | one notification per episode, none lost over a restart |
| Derived state (`derive.py`, `events.py`) | visits, cycles, hopper gauge, sightings, latched verdicts | reducer over documents and activity messages | order, repetition and redelivery of messages | a sighting has its evidence, a verdict its run |
| Learned scales (`calibration.py`) | the ends of a scale, candidates, window, run | observe, persist | outliers, boundaries, readings over restarts | an end is corroborated, a span is possible |
| BLE provisioning (`ble/provision.py`) | step of the sequence, offset of an upload; the robot's staged and committed settings | connect, WiFi, endpoints, certificates, commit, reboot | failure before or after the robot acted, attempts on top of abandoned ones, kills, dry run | the robot runs on one attempt's configuration, whole; the store records only what the robot accepted; nothing on a dry run |
| Profile store (`robot_profiles.py`) | profile files, certificate pairs, default, lock | rename, calibrate, use, forget, save, rotate | several processes, a person between read and write, deaths in the lock | no lost update, a calibration is a scale, the default exists, nobody waits for ever |
| Setup and PKI (`cli.py`) | the authority, this machine's identity, the broker's certificate, the mode | setup in three modes, provision | runs refused or killed half-way, in every order of modes | the authority robots trust stays; what is stored was signed by it; setup is idempotent |
| Link (`link.py`, `cli.py`) | the write under way, its tries | set, press, read, send | answers late, lost or somebody else's | "verified" means it; a press runs once; a locked robot is not pressed |
| Safety (`safety.py`, `codec.py`, `commands.py`) | none | classify, assert_sendable, build | boundaries of the code space | nothing dangerous passes unmarked |
| Update check, backup, installs, config flow, packaging | files, prompts | | I/O | |

Platforms call the coordinator, one call at a time each (`PARALLEL_UPDATES`); the
MQTT integration calls `_handle_message`; Home Assistant's update timer calls
`_async_update_data`; the alerts listen to the coordinator's data; a capability the
reducer proves makes the coordinator ask for a reload of its entry. The command
line's commands share nothing but the files of the store and the robot.

## Modules

| Module | What it is |
|---|---|
| `Lease.tla` | The abstract specification: processes ask for a turn, have it alone in the order they asked, give it up; a waiting one may give its place up. |
| `Coordinator.tla` | The coordinator, the refresh tasks, the message handler and the unload, with the robot and the broker as external actions. Implements `Lease`. |
| `CoordinatorProofs.tla` | What `Lease` promises; types, discipline of the lock, refinement of `Lease`; the safety properties that follow from them; what is in the channels. |
| `Episodes.tla` | The abstract specification of the alerts: a condition is raised, reminded of and cleared. |
| `Alerts.tla`, `AlertsProofs.tla` | The library's rules (conditions, `AlertTracker`, `Reminders`) and the publisher around them, over setups, failed setups, reloads and restarts. Implements `Episodes`. |
| `Onboarding.tla` | The abstract specification of provisioning: an attempt leaves the robot's configuration or commits its own, and succeeds only behind that. |
| `Provisioning.tla`, `ProvisioningProofs.tla` | The Bluetooth session, the command around it and the robot's settings, over several attempts. Implements `Onboarding`. |
| `Scale.tla` | The learned scale as operators: what one reading leaves of it. |
| `Derived.tla` | The reducer as operators, on top of `Scale`: what one document or activity message leaves of the derived state, and the verdicts read from it. |
| `Telemetry.tla`, `TelemetryProofs.tla` | `Derived` over many messages of one robot, with rebuilds of the coordinator between them. The proofs are about `Scale` and `Derived` too. |
| `Entry.tla`, `EntryProofs.tla` | `Derived` inside one config entry: setups, reloads, stops and crashes around the messages. The proofs are about `Derived` too. |
| `Commands.tla` | The catalogue of commands, the codec and the guard every send passes, as operators. |
| `Link.tla`, `LinkProofs.tla` | The commands of the command line against a robot others use too, on top of `Commands`. The proofs are about both. |
| `ProfileStore.tla`, `ProfileStoreProofs.tla` | The profiles of one machine under several commands at once. |
| `Setup.tla`, `SetupProofs.tla` | The files `setup` leaves on a machine over many runs, beside a provision. |
| `MC*.tla` and `MC*_*.cfg` | The instances for TLC. |

### Coordinator: how it corresponds to the code

A *process* is a platform's call (Home Assistant runs one at a time per platform,
`PARALLEL_UPDATES = 1`), the update timer, or a refresh task. asyncio runs the
code between two awaits without interruption, so that is one step. `pc[p]` names
the await process `p` is suspended at:

| `pc` | Where the code is suspended |
|---|---|
| `created` | the refresh task exists and has not run |
| `queued` | `async with self._io_lock` |
| `send` | `asyncio.sleep(_WRITE_GAP)` between two publishes of a batch |
| `verify` | `_write_and_verify` waiting for `_state_event` |
| `reply` | `_async_update_data` waiting for `_state_event` |
| `echo` | `_press_and_confirm` waiting for `_press_echo` |
| `courtesy` | the pause before the refresh behind a confirmed press |
| `confirm` | waiting for `_state_event` when the echo did not come |
| `sent` | the last publish of a press, a WiFi toggle or a refresh |

`holder` and `waiters` are `_io_lock` (asyncio's lock is fair: a newcomer queues
behind the waiters), `stateEvent`, `pressEcho` and `awaited` are `_state_event`,
`_press_echo` and `_awaited_press`, `doc` is `_robot`, `throttled` says whether
`_ACTIVITY_THROTTLE` has passed since the last activity refresh, `reference` is
the level a calibration stores, `entry` is the state of the config entry, and
`frame` holds the locals of a call (attempt and next item of a write, the odometer
baseline of an empty cycle). Each action is the code from one await to the next:
`Begin...` from the lock to the first await, `...Timeout` what an expired
`asyncio.timeout` does, `Deliver` is `_handle_message` whole, with the echo watch
and the refresh it schedules. A publish either reaches the broker or raises
(`PublishRaises`), and each `finally` of the code is part of the action it ends.

Data is abstracted to what the decisions depend on. A document is the values of
the registers (the lockout and `Days` wake times; a time register is TRUE when it
holds the requested time), whether a cycle runs, the empty-cycle odometer and the
litter level. The 20 other settings use `_write_and_verify` with one register, as
`lockout_on`/`lockout_off` do, and are not repeated.

External to the repository are the robot and the broker. Commands and messages
travel in two FIFO channels that may lose and delay; QoS 1 commands may be
repeated and committed late. The robot carries commands out, and of its own accord
somebody presses its panel, it announces its state, starts a cycle, has litter
poured in. `acted` and `evidence` are history variables: what the robot did for a
call, and what was decoded in support of it.

### Alerts: how it corresponds to the code

Every step is one callback of the event loop; none of the modelled callbacks
awaits, so there is nothing between. `entry` says how far the config entry is:
`off`, `setup` (the first refresh succeeded, platforms are being set up), `waiting`
(the publisher is built and waits for Home Assistant to start) and `running`.
`options` are the entry's stored `active` alerts and reminder clocks, `memory` the
`AlertTracker` and the `Reminders` of the publisher, `fired` the events of the
newest step. `doc` and `online` are the coordinator's data and
`last_update_success`; they change here as the coordinator's callbacks report them.

`Evaluate` is `_evaluate` whole: raw truth, tracker, clocks, due reminders, the
save when anything changed, the events. It runs on every document (`Hear`), on a
failed heartbeat, on the minute tick, and when the publisher starts. `SetupFails`
is `async_report_setup_failure`, with the clock it keeps in `hass.data`;
`SetupRefreshed` clears that clock. `Silence` is the action handler, for a phone
that was told of the alert; a tap while no publisher listens changes nothing.

Time advances by `Tick`, the minute tick, one unit at a time. Home Assistant's
start and the set-up of the platforms take less than a unit. A unit need not be a
minute: what the rules compare are the lengths, and the instances keep their
order. The cause of a fault (bonnet, lockout, cat sensor and the rest) is one
element of `Faults`, the drawer an element of `Gauges`; the litter alert is the
same rule read downwards. `Never` stands for Python's `None`.

Left out: the conditions that compare two registers or a date (no visit,
maintenance, hopper), the moments (`MomentTracker`), the wording, the time zone.
The stored options are durable at once; Home Assistant writes them a moment later,
and a kill in between can lose them.

`told`, `noticed`, `heard`, `lowest` and `asked` are history: what a listener
takes to be active, when it was last told, what the documents have shown, and who
asked for silence.

### Provisioning: how it corresponds to the code

`pc` is the request the session is about to make, in the order `provision_robot`
makes them (`After`), or where the command is around it: `linking` (the scan, the
link, the endpoints, the MAC, the networks: everything that only reads),
`confirm`, `verify` (`_verify_wifi`), and the three writes to the store behind a
success. `idle` is between two runs of the command; `outcome` says how the newest
one ended. An attempt takes the store's identity for the robot or mints one
(`_robot_identity`, with `--reissue` or an expired one as its parameter), and what
it writes is told apart only by the attempt that wrote it: `identity` and `secret`
(the certificate and the key in hand) and the files of the store hold the number of the
attempt that minted each, a setting of the robot is `[by, size]`. A pair on file whose
halves do not match is refused where it is read (`Unmatched`).

A request goes out (`Ask`) and `awaiting` holds until it comes back (`Request`, or
`Poll` for the join check): answered, refused with a status, or with the link dropped,
before or after the robot carried it out. `ProtocommBLE.request` has no timeout
(`transport.py:219-220`), so it need not come back; a command killed with a request out
may have had it carried out. Which refusals are noticed is the
code's: `_mqtt` raises, `_whisker` logs, the WiFi requests do not look, and a lost
answer to the reboot is success. A credential goes in pieces of `Chunk` characters,
each a request; its slot takes what has arrived. `Poll` is one turn of the join
check: the unit of `Wait` and `Lease` is one poll, a late answer uses up several, and
the association's grace runs inside the wait. The deadline is looked at between the
requests only (`PollOver`). Leaving the link may raise behind anything that ends an
attempt (`End`), so that even a refusal the code reports can come out as a failure.

External are the robot and its radio. It stages what it is sent and commits
everything on `APPLY_CONFIG`, as `whisker_mqtt_config.proto` describes it
(`docs/devices/litter-robot-4/provisioning`); the backlog notes that no capture
proves that a piece is not committed on receipt, and the results about the
committed settings rest on it. What was staged may or may not outlive the link, and
whether it is carried over is a choice of `Begin`. Holding Connect makes the robot
forget its network, whence `station' = "off"`.

A store is anonymous or gives identities (`WithIdentity`), for good: changing the mode
is part of `setup` and in `Setup`. A store in `supplied` mode takes a pair from the
command line, without a look at the one on file (`Begin`'s `supplied`). The scan's
pages, the choice among networks and the prompts are inside `Linked` and `Confirm`.
`SaveProfile` writes the profile and nothing else of `_save_profile`; the rest of it is
in `ProfileStore`. `before` and `accepted` are history: the robot as the attempt found
it, and the attempts whose commit was acknowledged.

### Learned scales and derived state: how they correspond to the code

Both are pure functions in the code, a message in and a state with effects out, and
operators here. `Scale.Observe` is `Learned.observe` whole: the span, the gate in
front of a dense signal (`Gate`, `_passes_gate`, the Hampel identifier with its
warm-up and its change of regime), the low end (`ObserveLow`), the high end
(`ObserveHigh`) and the flatline runs that place the floor of a sparse signal
(`ObserveRun`). The numbers are the source's; 3.5 times 1.4826 is written in ten
thousandths.

`Derived.ApplyState` and `ApplyActivity` fold one message, an activity message
reading by reading. An update is a state and a set of effects, and `StoreEffects` is
what the coordinator writes of them to the entry's options. A document carries the
fields the reducer decides by, each of which it may lack (`None`); of a value that
only an entity shows, the state keeps that there is one (`reported`). `Snapshot` is
`as_dict`, with what does not outlive a coordinator reset, `RestoreDerived` what the
next one is built from: the snapshot if there is one, else the stored options, and
the verdicts of Home Assistant's restore cache.

`Telemetry` folds messages into one derived state, chosen once among a litter bed, a
dispensing hopper and a robot in use, and rebuilds the coordinator at any time. Its
history says which readings were sampled and when the beam was last seen broken.
`moments` tells the samples apart by when they were taken: one within a dedupe window
of `last`, the newest this coordinator has taken, is of the same moment. A rebuild
forgets `last`, as the code does (the divergences below).

`Entry.stage` follows `async_setup_entry` from await to await: `due`, `refreshing`
(the subscription listens, the first refresh has not been answered), `forwarding`
(the platforms are being set up), `loaded`, `unloading`, `retry` (Home Assistant
tries again later), `off`. `BeginSetup` is everything before the first await: the
sweep (`_recheck_sightings`, `_seed_missing_gauge`), the entities it withdraws, the
restored state. A message is folded in whenever the subscription listens. `reload`
is the reload the coordinator schedules behind a sighting, `flipped` the one Home
Assistant queues itself, seconds later, for an entity somebody enabled. A
setup fails when its own question goes unanswered, even with a document at hand that came
in before it was asked (`SetupFails`, `coordinator.py:468-486`). `options`
are durable at once, `cache` is Home Assistant's restore cache: it is written at an
unload and a stop, and after a crash may be the one before. `heard`, `burst`,
`told`, `cleared` and `blurred` are history.

### The command line: how it corresponds to the code

*Link.* `stage` is where the command waits: between a write and its read-back (`read`),
for the answer (`await`), for the lock state (`lockcheck`), for the person (`confirm`).
Each command has a connection of its own with a clean session, so what comes while it is
down is not heard. What the robot says enters `fromRobot` when it is said (`Says`) and
comes in order to the connection there is then, if any (`Arrive`), however long that
takes. `touched` keeps the registers an earlier command's writes may still change, or of
which a reading is still on its way when the command starts; `early` says that a
document from before the question, which says the panel was not locked, was on its way
when it was asked. A message that has arrived is taken before a wait ends. The robot
takes commands in order, commits a write later than it takes it, ignores a read of a
register it has not, acknowledges and discards writes of `0x1A`-`0x1C`, and says nothing
of a press while it is locked. `OtherCommands` is Home Assistant on the same robot,
`PanelLock` a finger, `Redelivery` and `LoseCommand` the broker. What Home Assistant
publishes may be a press, at most once (`coordinator.py:508`), or a write, which the
broker may repeat. `Commands` gives the codes, the classification and the delivery
class; a code is a record of type, register and value, and `send` takes one of any type.

*Profiles.* A process of `ProfileStore` is a command in a terminal. `asked` is where
it waits for its person or for the robot, and `naming` where it asks for the name of a
new robot, both outside the lock; `queued` waits for the
`flock` and may time out; the stages of `Inside` hold it. The steps are the single
reads, unlinks and atomic replacements of files (`_write_private` replaces a file
whole). `Dies` may come at any stage but those two and stands for a kill or a refused
write; the kernel drops the lock with the process. A `rotate` is the part of a
replaced authority that touches the profiles.

*Setup.* A run's writes are computed from the files it finds (`SetupOf`, stage after
stage with `Then`, which stops behind the first that raises) and then done one file
at a time (`WriteNext`; `left` is what is still to be written), with a kill between
any two (`KillSetup`). Authorities and identities carry the number of the run that
made them, a server certificate also its host. `visit` is a provision with what it
read at its start, saved after the robot has accepted it. `MoveKeyAway` and
`InstallServer` are a person's doing between runs. `released` (robots whose
authority a person has since had replaced) and `cut` are history; `cut` marks a
replacement that was itself interrupted or that came between a provision's reads and
its writes, and a kill between the two files of an identity or a certificate.
`StoredIdentitiesChain` does not hold behind those; the divergences below say what
is left there. `bare` is history too: a run refused or killed left an authority without
an identity for this machine, which no later run makes up for; in `mutual` mode the
machine then cannot connect to a broker that asks for one. A provision's broker and
identity are saved in two steps (`SaveBroker`, `SaveIdentity`), between the writes of a
setup or not.

## What the runs check

| Run | Instance | Properties | What it shows |
|---|---|---|---|
| `fault` | every kind of press and a calibration beside the locking write, one fault or outside event anywhere | `PressActsAtMostOnce`, `NoTaskOutlivesShutdown`, `TakesTurns`, `PressPromises` | no doubled press, none past the lockout, none reported failed that was heard, no task after the shutdown, `Lease` implemented |
| `write` | one register or a two-register schedule with a retry, the heartbeat, two refresh tasks | `ReportedScheduleIsTheRobots`, `ExclusivePublishing` | a schedule reported written is the robot's in every day, nothing is published in the pauses of the batch |
| `returns` | two presses or schedule writes in a row and a refresh task under `FairSpec`, one fault or event | `SuccessRestsOnNewEvidence`, `EveryCallReturns` | nothing left over from the first call confirms the second; nobody waits for ever, with a silent robot or during the unload |
| `episodes` | the offline alert and a fault, each with a hold; setups, failed setups, reloads, restarts | `NothingOverdue`, `NothingUnheard`, `TellsEpisodes`, `HoldsAreRespected` | a condition is raised once, after its hold and no later than the next tick, heard by somebody, and cleared once, whatever comes between |
| `gauge` | a level with set-time reminders, one phone, reloads and restarts | `StoredIsAnnounced`, `RemindersKeepTheirPace`, `GaugesDoNotFlap`, `SilencedStaySilent` | what is stored is what was announced; reminders neither double nor come late; a wandering level is one alert; a silence survives |
| `derived` | a hopper and a pan: four messages, one failed setup, stop, crash or hand, any stored options and cache | `SightingNeedsItsBurst`, `SettledIsComplete`, `GaugeSurvives`, `ExcessNeedsARun` | a capability has its evidence and is shown, the snapshot is used up, the newest gauge is the one believed, a verdict is never early |
| `telemetry` | a bed of litter (up to eight readings), a hopper (eight messages, some with two dispenses), a robot in use; one rebuild | `ScaleIsSound`, `FloorIsAFlatline`, `StaleRestsOnAPour`, `VisitsNeedABody` | no single bad reading moves a scale, nor does a message heard twice by the session that heard it first; a floor was held, a stale gauge rests on a pour, handling the robot proves no visits |
| `link` | two commands of eight kinds, two tries, messages in flight either way, one loss, repetition, foreign command or finger | `VerifiedIsTheRobots`, `RunsWhatWasPressed`, `LockedRobotIsSpared` | "verified" means the robot's registers, no press runs more often than asked, by the command line or Home Assistant; a locked robot is pressed only behind a silence or a document from before the question |
| `attempts` | three attempts at one robot of a store with identities, under `FairSpec`; every request may be refused, lost or never answered, leaving the link may fail, and a kill may come anywhere | `OnboardsWhole`, `JoinFailureLeavesBroker`, `UntouchedUnlessConfirmed`, `StoredWasAccepted`, `AttemptsEnd` | the robot runs on the whole configuration of one attempt or its factory's, whatever the others left staged, with a certificate and a key that belong together; the store records only what was accepted; only a request that never comes back keeps a confirmed attempt for ever |
| `wide` | a credential one byte longer than its characters | `UploadsEnd` | **violated**: the finding below |
| `setup` | four commands, setups in three modes with every sensible combination of flags and answers, or provisions | `KeyBelongsToAuthority`, `NoRobotIsStranded`, `StoredIdentitiesChain`, `SetupIsIdempotent` | no order of modes, refusals and kills changes the authority robots trust, splits it from its key or leaves foreign identities; the machine has the identity its mode presents, but for `mutual` behind a run cut short; a setup run again changes nothing |
| `store` | two terminals, three commands on one robot, under `FairSpec`; the profile whole, half, damaged or missing | `DefaultHasAProfile`, `NoLostUpdate`, `CalibrationLeavesAScale`, `EveryMutationEnds` | updates through `update` lose nothing, pairs stay scales, the default exists, deaths and people block nobody |

Deadlock is not checked: when the calls, messages and runs the bounds allow are over
the system rests.

### Bounds

*Coordinator.* `MaxCalls` (calls of each platform), `MaxEvents` (faults and outside
events), `MaxCmds` and `MaxMsgs` (messages in flight; a command beyond is lost, a
message beyond waits) bound the runs; `Days` stands for 7 and `Retries` for 3. Two
registers are enough to leave one of a batch unset, two attempts enough for the
writes of an earlier attempt to arrive in a later one, two calls of one platform
enough for one press to meet what the other left behind, two processes and a task
enough for every order at the lock. The theorems hold for every value of all of
them.

*Alerts.* `LastTime`, where the clock stops; nothing else. It is long enough for a
hold, a raise, a reminder and the next. `DayLength` and `SetTimes` give a short day
with set times on it, so that a slot is met, missed and made up for;
`MCAlerts_*.cfg` give the other lengths in the same units. One fault, one gauge and
one phone suffice because the rules treat alerts independently: they meet only in
the saved options, which the properties compare whole.

*Provisioning.* `MaxAttempts = 3`: one attempt to leave something behind, one that is
cut between the two files of its identity, and one to meet the pair that does not match.
Credentials of three, two and one characters in pieces of two give an upload with a full
and a short piece, one of a full piece and one of a short piece. `Wait = 3` and
`Lease = 2` let the grace end inside the wait and let the wait end first.

*Entry and Telemetry.* `MaxMessages = 4` is a sighting's two phases, a gauge and a
document behind them; `MaxTime = 3` lets the dedupe windows pass and the excess of
`ExcessAfter = 2` come; one event stands for one thing going wrong at any point, and
every initial content of the options and the cache stands for an earlier life. In
`Telemetry` eight litter readings fill the window's warm-up and change the regime, eight
messages from the hopper are two runs of three with a refill between, `MaxRebuilds = 1`
puts a restart anywhere. Durations are in units of a minute; `STATE_DEDUPE`, 30 seconds,
is rounded up to one.

*Link.* Two commands (the second meets what the first left), two tries, two of seven
days, one event, `MaxQueue = 2` messages on their way in each direction, so that an old
one can stand in front of the answer. *ProfileStore.* Two processes and three commands
are the least in which one's write can fall into another's read and write, and a third
meets the result. *Setup.* Four commands are the shortest way through a replaced
authority: make it, provision a robot, lose the key, replace it.

### Fairness

`Coordinator`'s `FairSpec` asks for weak fairness of every process's own steps
(asyncio runs a ready callback, and every wait under the lock has a timeout that
fires) and of the shutdown, which runs to its end once begun. It asks nothing of the
robot, the broker or the platforms: the robot may stay silent for ever.

`Provisioning`'s asks for weak fairness of the command's own steps only: it sends the
next request, sees that the wait for the join is over, writes the identity's files. It
asks nothing of the robot and the link, whose answers may never come (`AttemptsEnd` says
that this is all that can keep a confirmed attempt), nor of the robot's radio, nor of
the operator, who may leave the confirmation standing and the prompt for the name that
comes before the profile is saved. Connecting and leaving the link are bleak's, and
nothing is claimed of them.

`ProfileStore`'s asks for weak fairness of each command's steps between two answers (the
operating system runs a ready process, and the wait for the lock has a deadline). It
asks nothing of the person a command has asked, for a confirmation or for the name of a
new robot (`_ask_name`, `cli.py:1930`, `cli.py:1943`): `Answered`, `Declined` and
`Named` are outside `Step`.

## Findings

`wide`: `_write_cert` counts the credential in UTF-8 bytes and its offset in
characters (`ble/provision.py:542-553`), where `CERT_CHUNK` speaks of bytes
(`ble/provision.py:107`) and the protocol gives length and offset one unit
(`whisker_mqtt_config.proto:73`). A credential with a non-ASCII character, which
text around a supplied PEM block may hold, never finishes: the pieces behind its end
are empty and the offset stands still.

### Known divergences

Found while modelling, and visible in the actions; the properties are stated so as to
say what does hold.

Coordinator and alerts:

- A calibration may store a level from before its press: it takes the first document
  decoded after its request, which may answer an earlier one (comment at
  `coordinator.py:314`).
- `_schedule_activity_refresh` leaves a refresh out because "that transaction requests
  its own state anyway" (`coordinator.py:432`). The WiFi toggle never does, and a
  Reset or Power press does not when its echo fails to come.
- An echo confirms a press whoever's finger it was: no message tells them apart.
- An offline alert raised by failing setups is not repeated while they fail
  (`custom_components/.../alerts.py:100`, against `docs/setup/notifications.md:36`),
  and a tap on Silence while no publisher runs changes nothing (`notifications.md:39`).

Derived state and entry:

- A globe fault restored over a restart is retired when the odometer advances, which
  is when a cycle starts, where the comment says "by a cycle that completes"
  (`derive.py:312-313`).
- A document that says the pan is clear, folded in before a setup has made its
  entities or while a snapshot waits, is forgotten when that setup is stopped; the next
  coordinator carries the older verdict and calls excess weight early. `blurred`
  exempts this.
- The entities a first setup enables queue a reload behind the point where the
  snapshot is dropped.
- A scale with a wrong anchor refuses the readings beyond `LITTER_MAX_SPAN` for good.
- After a plain restart a redelivered reading corroborates itself, because the snapshot
  alone carries the times, where the comment says a redelivered message "must not"
  (`derive.py:339-342`). `ScaleIsSound` says what does hold: it does not in the session that
  heard it.

Profiles and setup:

- `forget_issued_certificates` lists the profiles and later saves each whole
  (`robot_profiles.py:912`): an update between the two is lost. `NoLostUpdate` is about
  the commands that go through `update`.
- A provision saves the broker it read at its start (`cli.py:1029`) and so takes back
  what a setup said meanwhile about host or mode (`AtRest`).
- A request that never comes back outlasts the wait for the join: the deadline is not
  around the request (`ble/provision.py:455-458`), where the docstring says "wait out
  ``wifi_wait``, warn, and continue" (`ble/provision.py:448-449`) and a stalled firmware
  is known to leave a read hanging (`ble/provision.py:131-133`).
- A kill between the two files of a certificate and key leaves a pair that does not
  match. For a robot, `--reissue` reads the old pair first (`cli.py:1241`,
  `robot_profiles.py:988`) and never gets past it; for the broker,
  `_refresh_server_cert` looks at the certificate only (`cli.py:1602`). A kill between a
  replaced authority and what it drops leaves the old identities.
- A store in `mutual` mode with an authority and no identity of its own gets none from
  `setup`: `_ensure_pki` returns as soon as there is an authority (`cli.py:1496`), where a
  comment says that "`setup` mints one" (`robot_profiles.py:870`) and another that without
  it a broker would refuse every command (`cli.py:1794-1795`). A run refused or killed
  behind the authority leaves such a store (`bare`).
- `setup --auth anonymous --ca` with the authority on file unlinks its key (comment at
  `cli.py:1129-1130`).
- A replacement with `--client-cert` drops this machine's identity and is then refused
  (`cli.py:1336-1338`).
- `provision` catches `OSError` behind a robot that accepted (`cli.py:1976`); a
  `RobotProfileError` from `update` ends it as a failure.

Link:

- The check for the control lock drains for a quarter of a second what was said before
  it asks (comment at `cli.py:446-449`), and takes the first document behind that: one
  that was on its way longer passes for the answer, and a press goes to a locked robot.
- A set takes the first reading of its register for its read-back; one of an earlier
  command, still on its way, can confirm a value the robot has not (`touched`).
- A set that failed may still land after a later set of the same register was
  verified (`touched`). Two sessions share a client id and disconnect each other
  (`ConnectionLost`). A value out of range is clamped and reported as typed.

## What is proved

The theorems about the coordinator hold for any set of platforms and tasks, any
operations and any bounds, from `CoordinatorAssumption` alone (the sets are disjoint,
the numbers are numbers); those about the alerts for any catalogue of conditions, any
holds, thresholds, set times and phones, from `AlertsAssumption` (the offline hold and
the margin are positive, as the constants of the code are); those about provisioning for
credentials of any length, any piece size, waits and number of attempts, from
`ProvisioningAssumption` (a credential has a character, and no more characters than
bytes); those about the link for any commands typed, tries, registers and events, from
`LinkAssumption` (what is typed is a number, and every kind of command has the settings
and buttons the parser offers); those about a scale for every reading, from
`NoneAssumption`, and those about the telemetry for any messages of any length, number
of rebuilds, grace and step, from `DerivedAssumption` and `TelemetryAssumption`
(readings are sequences of registers with numbers, a dedupe window is not empty, and
`None` is neither a stored scale nor an evidence); those about the catalogue for every
number; those about the entry for any messages of any length, durations, bounds and
stored options, from `EntryAssumption` and `DerivedAssumption` (the values have the
shapes the code writes, and the lengths of time are numbers); those about the profiles
for any robots, processes and pairs, from `ProfileStoreAssumption`; those about setup
for any robots, authorities, hosts and command lines, from `SetupAssumption`.

| Theorem | Property | Argument |
|---|---|---|
| `TurnsAgree` | | the owner is inside, the queue lists those who wait, each once; inductive as it stands |
| `TypeCorrect` (CoordinatorProofs) | `TypeOK` | inductive; one lemma per group of actions, one for what a group leaves alone |
| `CoordinatorTakesTurns` | `TakesTurns` | each action maps to a step of `Lease` or to none, under the mapping `owner <- holder, queue <- waiters, phase <- Phase` |
| `LockIsDisciplined` | `LockDiscipline` | `Lease`'s agreement seen through the mapping |
| `PublishingIsExclusive` | `ExclusivePublishing` | only transactions and refreshes publish, and only inside the turn that the discipline makes exclusive |
| `PressesRespectTheLock` | `PressRespectsLock` | the same, with the guard that runs in the step that publishes |
| `EchoedPressesSucceed` | `EchoedPressSucceeds` | no other process and no outside step moves a call |
| `PressesKeepTheirPromises` | `PressPromises` | the two before it, together |
| `AwaitedIsTheHolders` | `AwaitedBelongsToHolder` | inductive with the discipline and with tasks that run nothing but refreshes |
| `TasksEndWithShutdown` | `NoTaskOutlivesShutdown` | inductive with the types: after the shutdown nothing creates a task |
| `SuccessIsGrounded` | `SuccessRestsOnNewEvidence` | an event that is set, while its caller waits, was set by a message decoded since the caller cleared it (`Grounded`) |
| `PressesActOnce` | `PressActsAtMostOnce` | `OncePerCall`: of the presses in the channel at most one is the current call's, and none once the robot has acted on it |
| `SchedulesAreTheRobots` | `ReportedScheduleIsTheRobots` | `NoneAhead`: no document, decoded or in flight, shows a wake time the robot lacks, as the robot never loses one |
| `TypeCorrect` (AlertsProofs) | `TypeOK` | inductive; what an evaluation computes is typed in a lemma of its own |
| `StoredAnnounced` | `StoredIsAnnounced` | inductive with `ClocksOfActive` |
| `AlertsTellEpisodes` | `TellsEpisodes` | under `announced <- told`, every step is an `Announce` of what it fires, or changes nothing |
| `AnnouncedWhenArmed` | `NothingUnheard` | `Armed`: a publisher runs only once Home Assistant has started, and before that no time passes for the failing setups, so their hold, which is above zero, is not over |
| `PublisherIsPunctual` | `NothingOverdue` | `ClocksRun`, one evaluation at a time: raising or clearing an alert does not change what it was raised or cleared for (`TruthSettles`), as the margin lies below the threshold |
| `RaisesWaitForTheirHolds` | `HoldsAreRespected` | `HeardBefore` and `HoldsRest`: a hold clock starts no earlier than what was heard, in whichever publisher it runs |
| `RemindersArePaced` | `RemindersKeepTheirPace` | `Noticed`: the clock a reminder is due by is no older than what listeners were told, though setup's offline alert has none until a publisher knows of it |
| `GaugesRecedeFirst` | `GaugesDoNotFlap` | `Receded`: a gauge that is clear and was once told of has been heard a margin past its threshold |
| `SilencesAreKept` | `SilencedStaySilent` | `Asked`: the phones that asked are on the stored clock, and on the one a waiting publisher was built with |
| `TypeCorrect` (ProvisioningProofs) | `TypeOK` | inductive with `Fits`: an upload's offset stays inside the credential |
| `ProvisioningOnboards` | `OnboardsWhole` | under `committed <- nvs["host"].by`, the commit is `Commit`, the end of the reboot `Succeed` |
| `JoinFailureHarmless` | `JoinFailureLeavesBroker` | part of `IInv` (`Untouched`) |
| `ConfirmedBeforeWritten` | `UntouchedUnlessConfirmed` | part of `IInv` (`Untouched`) |
| `StoreTellsTheTruth` | `StoredWasAccepted` | part of `IInv` (`Minted`) |
| `PressFindsNoLock` | `LockedRobotIsSpared` | `LockInv`: while the check waits on a steadily locked robot, the panel is locked and every state document that has arrived or is on its way says so, unless one from before the question does not (`early`) |
| `PressesRunOnce` | `RunsWhatWasPressed` | `PressInv`, with a cardinality: presses carried out and presses in the channel are no more than those published |
| `VerifiedHolds` | `VerifiedIsTheRobots` | `SettingInv`: whatever is on its way to a register that nobody else touches, or not committed, writes the setting's own value, so a register that has shown the value keeps it |
| `ElementsDecode` | | division with remainder by the width of a value |
| `SettingsAreSendable` | | one case per builder: clamping keeps the value in the register's range, and no setting's register is guarded |
| `ButtonsAreGuarded` | | each button's code against the tables |
| `ReadingsKeepTheSpan` | | `LitterScale` is kept by each branch of `Observe`: a candidate lies beyond the end it may replace, and a reading that would stretch the span is refused |
| `DispensesKeepTheFloorLow` | | `HopperScale` is kept by each branch: a run places a floor only `HopperMinSpan` under the ceiling, and the ceiling only rises |
| `ScalesOutliveSessions` | | a new scale satisfies both, and what `Persisted` resets neither mentions |
| `ScalesAreSound` | `ScaleIsSound` | `LitterRests`, `HopperRests`: an end and its candidate are readings that were sampled, and an end takes the place of a candidate only with another reading near it; as a session samples nothing twice within a dedupe window, the two are of different moments |
| `FloorsAreFlatlines` | `FloorIsAFlatline` | `Runs`: the run the scale counts is the newest readings, since one that a fuller came before if it `fell` |
| `StalenessRestsOnAPour` | `StaleRestsOnAPour` | `BedRests`: behind the baseline there are as many readings as steps are counted, and those that count upwards are the newest, each a step fuller |
| `VisitsHaveABody` | `VisitsNeedABody` | `BeamKnown`: no copy of when the beam was seen, in a state or a snapshot, is newer than it was broken |
| `EntryHolds` | | `EntryInv`, below |
| `SightingsAreProven` | `SightingNeedsItsBurst` | a code that waits for its second phase was heard when the state says, and so is in the snapshot (`Waiting`) |
| `LoadedEntriesAreComplete` | `SettledIsComplete` | a sighting asks for a reload in the step that proves it, and only `Forwarded` brings an entry to rest |
| `GaugesOutliveTheirCoordinator` | `GaugeSurvives` | `GaugeOK`: options and coordinator both have the newest gauge, and a snapshot none that the options lack |
| `ExcessIsWaitedFor` | `ExcessNeedsARun` | `ExcessOK`: no copy of the verdict, in a state, a snapshot, an entity or the cache, is older than the readings behind it |
| `StoreTyped` | | part of `StoreInv` |
| `DefaultKeepsAProfile` | `DefaultHasAProfile` | `DefaultOK`: only who is inside the lock can be about to leave the default without a profile |
| `UpdatesLoseNothing` | `NoLostUpdate` | inside the lock, what was loaded is what is on file (`Sees`) |
| `CalibrationsLeaveAScale` | `CalibrationLeavesAScale` | the same: the pair that was judged is the pair that is written |
| `KeysBelong` | `KeyBelongsToAuthority` | whatever a run has left to write, any prefix of it keeps key and certificate together (`Safe`) |
| `RobotsStayReachable` | `NoRobotIsStranded` | the same `Safe`: another authority is written only behind a person's yes |
| `IdentitiesChain` | `StoredIdentitiesChain` | `ChainInv`: the files behind the rest of a run are sound, whatever is on file half-way; `BareOK`: with no run cut short behind the authority, an authority on file has this machine's identity beside it |
| `SetupRepeats` | `SetupIsIdempotent` | `Settled`: what the files say behind a setup that succeeded; on such files each stage writes what is there already |

`LockDiscipline` is not inductive by itself for the coordinator's forty actions in
any readable way; the refinement is what makes it short. Every action is mapped
once to one of `Lease`'s five, and the agreement of owner, queue and phases is
proved there, on five actions. `Sound == TypeOK /\ LockDiscipline` is the
invariant the safety theorems start from.

The invariant of the alerts is `Kept == StoredIsAnnounced /\ ClocksOfActive`. That
the tracker reports only what changed does not make listeners right: they heard
earlier publishers too. `StoredIsAnnounced` says the tracker starts from what they
were told; `ClocksOfActive` says that an alert that is not active has no clock, so
one raised in an evaluation gets a fresh one and is not due a reminder in the same
evaluation. What was heard and when is a history, and its invariant has seven more
parts, one beside each property in the table; `Base` holds those that the later ones
start from. Every step is of one of four kinds (`StepKinds`): it evaluates with the
publisher's memory or with one built from the options, rests, marks the robot offline
for failing setups, or hushes an alert; each part is kept kind by kind, over the
lemmas about one evaluation (`EvaluateSays`, `EvaluateReminds`, `EvaluateClocks`).

The invariant of provisioning, `IInv`, says what each stage implies. `Built`: the
slots whose requests are behind the session hold this attempt's values, whole, so
that leftovers of an earlier attempt are gone by the commit. `Committed`: what the
robot runs on is whole, and this attempt's from the reboot on. `Anonymous`: a store
without identities never touches the robot's own. `Minted`: the identity in hand is
this attempt's or one the robot has accepted. `Untouched`: the early stages leave
the settings as they were. `Ordered` ties the stage to the outcome, and to what is in
hand: a certificate and its key belong together (`Paired`), as a pair on file that does
not is never read, and a request is out only where one is made (`Waits`). Each has a
lemma for one step, over the four kinds of steps `StepKinds` tells apart.

The channels of the coordinator are sequences with three operations: a command or a
message is appended, one is taken, one is lost (or, acknowledged late, repeated at the
head). `OncePerCall` and `NoneAhead` are each proved kept by an append, by what the
robot does with the head, and by nothing else that touches the channel; the theorems
about them need the discipline of the lock only for who may append.

`PressInv` says that everything in the channel or still to be sent that presses a
button goes at most once (`AllOnce`, `JobOnce`), which is what keeps `Redelivery` from
it, and counts. That what is sent goes once is a case for each kind of command, and
rests on `SettingsAreSendable`: no setting is a press, whatever was typed.

`SettingInv` follows one setting: `Uniform` (its commands write one value, to registers
that only hold it, whatever was typed: `BatchUniform`), `Flying` (nothing in the channel
or waiting to be committed writes another value to a register that is not `touched`),
`Tells` (a reading that would confirm a write is true of the robot) and `Done` (what has
been confirmed holds). Each step `Continues` the command, leaving registers that hold as
they are, or is the `Run` of the next, which takes every write still on its way into
`touched`.

`EntryInv == TypesOK /\ BurstOK /\ GaugeOK /\ SettledIsComplete /\ ExcessOK`, each with
a lemma for every kind of step. A message is folded in reading by reading, so a step of
the entry hides a loop. `ActivityFolds` says what any number of readings leaves of a
state, by induction on how many have been applied. The library's induction rule takes a
predicate as a parameter and cannot be used here; `Induction` states it for a set of
numbers instead, from the well-foundedness of `<`, and `FoldExists` shows with it that
the recursive function of the definition exists. What one reading does (`Keeps`,
`Leaves`, `Folded`) has a lemma for each function of the reducer.

`StoreInv == FilesOK /\ CommandsOK /\ DefaultOK` says of each command what its locals
know at its stage (`Sees`, `Local`); `Moves` proves once, for all actions, that a
command that moves leaves what the others know alone, as it changes a profile only with
the lock.

`SetupInv` carries the rest of a run as a proof obligation on its own data:
`Safe(store, invocation, left)` says that the writes that are left open on the key only
behind its certificate, and on another authority only behind a person's yes. Each stage
of `SetupOf` produces safe writes, `Then` of two safe stages is safe, and `WriteNext`
and `KillSetup` only shorten them.

What is on file half-way through a run is neither sound nor settled, so `ChainInv` speaks
of the files as the rest of the run will leave them (`After(store, left)`, which
`WriteNext` does not change): that they are sound (`SoundOK`: whole pairs, identities of
the authority on file), and settled for the invocation if the run is to succeed
(`PlanOK`). A kill or a provision meets the files as they are, and there the identities
are still the authority's own unless a replacement is under way, which is when `cut` is
set; the two files of a pair differ only where `Halved` sets it. A provision that saves
in the middle of a run changes two files: the broker, which soundness does not mention,
and a robot's identity, which the rest of a run forgets or finds of its authority
(`RobotsFollow`), as a run writes another authority only together with the forgetting
(`Forgets`). `SetupSound` says of a setup as a whole, by a lemma for each stage, that it
keeps files sound and leaves them settled; `SettledStays` that it repeats itself on
settled files. Both rest on the last write to a file being what it holds (`LastStands`,
`AfterConcat`).

`TelemetryInv` says what a state rests on, given the histories of what was sampled
(`ScalesRest`, `BedIsWatched`, `PoursAreKnown`, `VisitsAreKnown`), and that the options
hold enough of it for a rebuild: `ScalesAreStored` says that the stored scales are the
state's but for what a restart drops anyway, as whatever moves one writes both
(`Written`). Without it the invariant would not be kept by `Rebuild`, which reads scales
back that some earlier message stored. A document samples the litter or leaves all of it
alone (`DocumentMoves`); an activity message is folded by the same induction as above,
with what a fold says for a number of readings in `Told`. The gauge is sampled once per
message at most, since two dispenses of one message come at one time and the dedupe
window is longer than that (`Sampling`): that is why `DerivedAssumption` asks for windows
above zero, as the source's are.

Only model-checked: liveness (`EveryCallReturns`, `AttemptsEnd`, `EveryMutationEnds`),
which is out of the prover's reach. Every invariant and every action property that a
passing run checks is proved.

## Not modelled

- Two coordinators on one robot: a reload builds a new one with a new lock while a
  write of the old one retries. Their channels together exceed what TLC explores.
  `ReportedScheduleIsTheRobots` knows one requested value per schedule register.
- The announcement of a visit: its 15 s pause, the weight it waits for, which close
  visits can lose or share, and that a sighting's reload drops it.
- The firmware's memory in the reducer, the percentages read from a scale, the moments
  of the alerts (a visit, a burst of visits, a cycle, a lock change).
- The entry's migrations that rename, pin, promote or retire entities; the second the
  options take to reach the disk; Home Assistant marking entities unavailable between
  heartbeats.
- The pages of the WiFi scan and the choice among networks.
- The profile store's layout migration; Windows, where the lock locks nothing.
- The commands that only print (`state`, `read` as shown, `status`, `monitor`,
  `robots`), backup, restore and uninstall, the update-check marker, which costs one
  question at worst.
- Byte-level framing of Bluetooth and protobuf, certificate generation, package-manager
  detection, the config flow, entity presentation, packaging and release scripts.

What would add most next: the announcement of a visit, as an extension of `Entry`; then
the migrations that enable and retire entities.
