# Verification of ha-switchbee in TLA+

`ha-switchbee` connects Home Assistant to a SwitchBee Central Unit (CU) over one
WebSocket, and carries a migration tool that moves the entities of an existing
homekit_controller bridge to the new integration. This directory holds TLA+
modules of its parts, the TLC configurations that check them, and theorems
checked by TLAPS. Paths below are relative to the repository's root;
`PROJECT.json` maps every definition to the lines it stands for.

    tlc -workers 2 -config WSClient_safety.cfg MCWSClient.tla
    tlapm WSClientProofs.tla

## 1. The system

| Part | State | Operations |
|---|---|---|
| WebSocket client, `custom_components/ha_switchbee/switchbee_ws.py` | socket, token, `_pending` futures, send and login lock, reader and supervisor task, backoff | `start`, `stop`, `_request` (LOGIN, `OPERATE`, `GET_*`), connect and log in, dispatch, teardown |
| Coordinator, `coordinator.py` | cache of item states, listener, poll task | build from `GET_CONFIGURATION`, push, reconciliation poll, shutdown |
| Entities, `entity.py`, `switch.py`, `light.py`, `cover.py`, `scene.py`, with the type table `mapping.py` | what was last written to Home Assistant | attach, render, services |
| Codecs, `models.py`, `light.py` | none | percent and byte conversions, clamps, words, sentinels |
| Entry lifecycle, `__init__.py`, `config_flow.py` | coordinator registered in `hass.data`, unload hooks, options | config flow, setup, reload on new options, unload |
| Migration, `tools/migrate.py`, `tools/_migrate/*` | two registry files, the backup tarball | gate, backup, map, apply, clean devices; restore areas |
| Login timeout watchdog, `coordinator.py:47` | times of LOGIN timeouts | record, reset; called by nothing |
| Probe, `tools/probe.py` | a client of its own | log in, fetch, observe, stop |
| Report, homebridge reader | output files, none | not modelled, section 7 |

How they interact. Home Assistant calls the entry lifecycle under a lock per
entry; setup makes one client, waits for its first LOGIN, and builds the
coordinator from one reply. From then on four kinds of task share one event
loop: the client's supervisor, its reader (which calls the coordinator's push
listener directly and hands replies to futures), the poll task, and the tasks of
service calls. They interleave at awaits only, so every action of the models is
the code between two awaits. The migration tools are processes of their own that
share files with Home Assistant, which holds them in memory while it runs.

What is hard, with the property that watches it (`PROJECT.json` lists all of it,
line by line, under "hazards"):

- commands, reconnects, timeouts and `stop()` in any order on the same futures,
  locks and socket (WSClient);
- replies that come after their command ended, retries of commands that may have
  been executed (AtMostOnceExecuted, ImplementsCalls);
- pushes between a poll's request, its reply and the resumption of its task
  (Coordinator);
- reloads, removals and failed unloads while clients are starting, the CU is
  down or the password is wrong, with a probe beside them (EntryLifecycle);
- commands, reports and lost pushes whose values pass through several codecs,
  with items that go offline (Platforms);
- a tool that dies between two files, is run again, or is rolled back, with Home
  Assistant writing its own copy of both and looking for the rows of the entities
  it makes (Migration).

## 2. The modules

    CommandCalls <--refines-- WSClient <-- WSClientInv <-- WSClientProofs
                                 |              ^               ^
                              refines        MCWSClient   WSConnectionProofs
                                 v                              ^
                             Connection                   WSTokenProofs

    Coordinator <-- CoordinatorProofs

    EntryLifecycle <-- EntryLifecycleProofs      MCMigration --> Migration <-- MigrationProofs

    Conversions <-- ConversionProofs
        ^                  ^
    Platforms <----- PlatformsProofs
        ^
    MCPlatforms

**CommandCalls** is what a caller of the client is promised: a call takes effect
at most once and ends at most once; `ok` means it took effect, a refusal means it
did not and never will, and only the outcomes called doubts leave it open.

**Connection** is the connection as the users of the client have it: down, open
but not logged in, or up; whether a token is cached; and who waits for a reply. A
connection is replaced only when nobody waits on the last one, and a LOGIN by the
supervisor comes only after a loss. WSClient implements it
(`ImplementsConnection`). It leaves open when a token is had and who waits; what
WSClient shows of these are `RefusalNeedsExpiry`, `WaiterResolvable` and
`WedgedByRelogin`.

**WSClient** is the client. `sup`, `reader`, `stopPc` and `pc[t]` name the await
each task is at; `frame[t]` and `fut[t]` are the command it sent and its future;
`pending` holds the keys of `_pending`. A teardown is three steps, as its two
awaits split it: reject and cancel; close, once the reader is gone; forget the
socket. Its four callers (LOGIN failed, connect failed, reader ended, `stop()`)
take different paths through them. `_send_lock` is the value "drain" of some
`pc`, `_login_lock` a request whose last frame is a LOGIN. The CU is external: it
keeps a token, may answer, refuse, reject, stay silent (executed or not), forget
the token or drop the connection. **WSClientInv** has the inductive invariant,
**WSClientProofs** the proofs, **WSConnectionProofs** those of the refinement of
Connection, **WSTokenProofs** those about tokens.

**Coordinator** is the cache between the CU and the entities. It sees the client
as a connection (`link`), a token, one ordered `stream` of pushes and replies,
and at most one outstanding request of its own, `pull`. A state is a version
number, so that "older" has a meaning; versions with the same remainder are the
same value, so that a poll can find no drift although something happened.
`dirty` is the write `_handle_push_value` schedules on the loop for later.
A refused token is followed by a re-LOGIN, of the poll's request or of a command
of an entity, one at a time; it clears the token first and may fail, and nobody
logs in again on that connection. The client of this module is an environment
that is assumed, after WSClient: an outstanding request ends, a lost connection
comes back, no reply resolves another's future. That WSClient is within this
environment is argued here and not checked.

**EntryLifecycle** has the config entry as Home Assistant sees it, and who owns
each client: the setup in progress, `hass.data`, an unload hook, or a config
flow. `start()` is one step that waits for the CU, as the code has no bound on
it; a client whose LOGIN is refused ("refused") waits too, and for ever, since it
repeats the same password. A password changed later refuses the LOGIN of a
setup in the same way. A probe is a flow that makes no entry: it logs in,
fetches, observes, may be interrupted, and stops its client on every way out.
`leaked` records the clients of the one path that gives a client up, so that
the other paths can be checked despite it.

**Migration** has the two registry files, each replaced atomically, the backups,
and what Home Assistant holds in memory. `Migrate`, `CreateBackup`, `Map`,
`ApplyEntities`, `CleanDevices` are the run of `migrate.py --apply`, with `Crash`
between any two; `RestoreEntityAreas`, `RestoreDeviceAreas` those of
`restore_areas.py`. Names, serial numbers and zones are the relations the mapper
computes with (`Named`, `Serial`, `Zone`). A rollback untars a backup as section
6 of `docs/cutover-runbook.md` says, and a reboot empties the backups under
`/tmp`. A unique id is a form of the CU's MAC and an item; when Home Assistant
sets the integration up (`SetUp`), an entity takes the row of its domain and
unique id if there is one (`Adopts`), and else gets a row of its own (`fresh`).

**Platforms** follows a service call from Home Assistant to the CU and back:
which payload each service of each platform sends for each kind of type, what the
CU does with it (a cover moves and arrives later, a scene sets its members, the
STOP of a cover with a position is taken or refused), the
pushes and polls that report it, and what the entity shows of each raw value. No
entity assumes the outcome of its command, so `meant` records what a caller may
expect to see. How a command travels is WSClient's and how the cache is kept
Coordinator's subject; here the connection is one bit and a queue each way.

**Conversions** holds brightness and position conversions as operators, which
Platforms uses and **ConversionProofs** has theorems about.

## 3. The runs

| Run | Bounds | What it shows |
|---|---|---|
| `ws_safety` | 2 commands, 2 faults, backoff 1 to 3, backpressure | the safety properties of the client below, the inductive invariant, and that it implements CommandCalls and Connection |
| `ws_liveness` | 2 commands, 2 faults, no backpressure | every command ends; the client comes back to serving with a token, is wedged as in `ws_wedge`, or stops |
| `ws_wedge` | 1 command, 2 faults | refutes LoginTimeoutRecovers |
| `coordinator` | 2 items, 2 values of which one is offline, 2 changes each, 2 faults, poll on | the cache and the entities agree, no outdated reply is applied, silence after shutdown, every state shown in the end unless the client is wedged |
| `coordinator_reconnect` | 1 item, 1 change, 1 fault, poll off | refutes ReconnectRefreshes |
| `coordinator_availability` | 1 item, 1 change, 1 fault, poll on | refutes AvailabilityCatchesUp |
| `entry` | 6 client objects, 1 flow, 1 probe, 2 troubles, 2 option changes | owners of clients, what a loaded entry has, options and setups end well |
| `entry_leak` | the same without the probe | refutes FailedSetupStopsClient |
| `entry_password` | 3 client objects, 1 flow, 1 trouble | refutes FormAnswered |
| `platforms` | 6 items, one of each kind of type, one of no platform and a scene; 2 brightnesses, 3 positions; 2 services, 1 change by others, 2 faults | what is sent is understood, offline is never shown as a state, what was meant is shown |
| `migration` | 3 runs, 3 devices, 5 rows, 4 items, 2 areas, all areas to start with, 3 directories and one under `/tmp` | backup kept, convergence after crashes, areas restored, rows adopted |
| `migration_adoption` | the same, the MAC as the runbook exports it | refutes RowsAdopted |

The properties, and where they could break:

- *WaiterResolvable*: whoever waits on an unresolved future is in `_pending`, so
  the next teardown finds it; three teardowns and five ways to leave `_pending`
  interleave.
- *NoLeakedSocket*, *StoppedMeansDown*, *StopIsFinal*: `stop()` cancels the
  supervisor wherever it is, also inside a teardown that swallows the
  cancellation, and still leaves nothing open, nothing running and nothing that
  could send later.
- *RefusalNeedsExpiry*: one expiry of the token fails no command that was sent,
  although commands that are refused together log in one after the other, beside
  the supervisor, and each overwrites the `_token` of the others.
- *AtMostOnceExecuted*, *ImplementsCalls*: the `INVALID_TOKEN` path repeats a
  command only when it was refused.
- *PendingBounded*: an entry of `_pending` that nobody waits for was left by a
  cancelled command, a re-LOGIN that timed out or a `stop()` in the middle of a
  LOGIN, and is gone after the next teardown.
- *CallsEnd*: no command waits for ever for a lock, a future or another task.
- *ServesOrStops*: from every failure of a connect, a LOGIN, the reader or a
  teardown the client comes back to an open connection with a token under the
  eyes of its supervisor, or ends up wedged: open, without a token, and nobody
  about to log in. Once `stop()` is called it returns.
- *WedgedByRelogin*: the one way into the wedge is a re-LOGIN that is given up by
  its timer, a cancellation or an error.
- *ImplementsConnection*: a new connection is made only when
  nobody waits on the last one; each of the two drains of a failed LOGIN is needed
  for it.
- *ShownIsCached*: no write to the cache is left without a notification, and a
  deferred write never brings back an older state.
- *NoOldReplyApplied*: a reply the poll applies is no older than its request.
- *QuietAfterStop*, *EntitiesCatchUp*: nothing moves after `async_shutdown`;
  with the poll on, what was missed is shown in the end, unless a failed re-LOGIN
  leaves the client wedged; then the poll skips its turns for good.
- *NoOrphanClient*, *OneClientPerEntry*, *LoadedIsServed*: every client has
  somebody who will stop it, an entry never has two beside those that failed
  setups gave up (`entry_leak`), and a loaded one has exactly
  its own poll and hook, although `async_shutdown` runs twice in each unload.
- *NoSavingMissed*: a loaded entry ends up with the setup that read the options
  saved last, also when they are saved during a reload or a failed unload. Which
  of the options have an effect is another question, see section 6.
- *SetupSucceeds*: a setup that found the CU down is repeated until the entry is
  loaded; excepted are a removed entry, a refused password and a configuration
  that cannot be used.
- *PayloadUnderstood*: no service sends a percentage to a cover that takes words,
  or a word to an item that takes percentages, but for the STOP of a cover with a
  position, for which the docstrings have no value.
- *OfflineNotShownAsState*: the sentinels, which the codecs read as off or as a
  position, are on no path shown as a state.
- *CuHoldsWhatWasMeant*: what a caller asked for is what the CU has, or moves to,
  as the entity would show it: the choice of a payload, the conversion to the
  wire and the one back belong together, also after a stop or a scene.
- *ShowsWhatWasMeant*: after the last command on an item its entity shows in the
  end what the caller asked for, up to one step of brightness (and a brightness
  of 1 is off, as `tests/test_light_platform.py` has it), whichever pushes
  were lost; this needs the poll, both directions of the codecs and the sense of
  a cover's position to agree.
- *BackupKept*: while a registry differs from what it was before the cutover,
  a backup has what it was, however many runs died, and whatever was lost under
  `/tmp`.
- *ConvergesToMapping*: an apply that ends leaves what the first report said, as
  if the runs that died before it had never been started. It compares the rows of
  entities, not those of devices.
- *AreasComeBack*: after `restore_areas` an entity is shown in its old area,
  through the device rows that were deleted and the ones Home Assistant made.
- *RowsAdopted*: when the integration is set up after the cutover, no entity gets
  a second row beside the migrated one, whatever runs that died, restores,
  rollbacks and restarts came between. The same property is refuted with the MAC
  in the runbook's form. It is about rows in the domain of the entity: a scene,
  which the bridge exposes as a switch, is adopted by nobody.

Why these bounds are enough to be of use. The interesting cases of the client
need two commands (one to hold a lock, one to wait for it) and two faults (a lost
token and something on the way back). `ws_liveness` has the same two commands, so
that one of them waits for the re-LOGIN of the other; without backpressure a send
is one step on an open socket, and the send lock is waited for only when it is
not. Two versions beyond the first let a value change and change back between two
polls. Two troubles and two option changes queue two reloads and let a repeated
setup fail again; six clients are more than ever exist at a time (one of the
entry, one each of the flow and the probe, and one for each trouble that leaks
one), and `IsNew` picks one of them because they are alike. Two service calls let
a second one overtake the effect of the first (a cover stopped on its way, a
scene over a light that was just dimmed), and two faults lose both the push and
the connection that would repair it; the brightnesses 1 and 2 are those around
the only value that turns a lamp off, and ConversionProofs covers the others.
Three runs of the tools are one that dies, one that ends, and one after it. The
theorems of section 5 have no bounds.

`CHECK_DEADLOCK FALSE` is set in each configuration because the systems may
stop: every command has ended and `stop()` was called, the bounds are used up.
That nothing hangs before is what the liveness properties say.

## 4. Fairness and external assumptions

*The event loop* runs every task that can go on: weak fairness of each task's
steps. Requests each have their own, so that one is not starved by another;
`asyncio.Lock` is first come, first served, and weak fairness of each waiter
asks no more of it.

*Timers*: `asyncio.wait_for` fires. A timer may fire early at the price of a
fault, and is fair only once no answer can come, so that no property rests on a
timer that wins a race.

*The CU* answers what reaches it, except for the faults the bound allows, and in
`RecoveringSpec` its outages end. Nothing in the code can make up for a CU that
stays away; the liveness properties say what happens when it returns. In
Platforms it executes commands in order, a cover that moves arrives, and what it
accepts and reports is what the docstrings of `models.py` and `entity.py` say.

*The poll* is on in `coordinator` and `platforms`, as by default.

*Tokens*: a LOGIN while a token is in force returns that token, as the constant
one of `tests/fake_cu.py`. A CU that made a LOGIN invalidate the token of another
would refuse commands that RefusalNeedsExpiry has succeed.

*Connect, LOGIN and re-LOGIN* in Coordinator: connects and the LOGINs of the
supervisor succeed in the end, as ServesOrStops has it; the timer, the rejection
and the cancellation of a re-LOGIN are faults the bound counts, and one of them
leaves the wedge of section 6, which EntitiesCatchUp excepts in its formula.

*Home Assistant*: one setup, unload or reload of an entry at a time
(`setup_lock`), `on_unload` callbacks run after a successful unload, retries of a
setup that was not ready. Adoption of registry rows by domain and unique id, the
device an entity gets, and that the registries are written at shutdown.

*The operator*, as the runbook and the docstring of `restore_areas.py` ask: a
new output directory for each run, nobody starts Home Assistant while a tool
runs, Home Assistant is stopped before `restore_areas.py` and before a rollback,
and both take a backup from before the cutover. The gate of `migrate.py` is in
the model and is not an assumption; `restore_areas.py` has none.

## 5. What is proved

Every safety property that a passing run checks is also a theorem, for every
value of the constants. Eight modules hold models, eight the proofs:

| Module | Theorems, and the properties they state |
|---|---|
| `WSClientProofs` | TypeCorrect (TypeOK), SocketNeverLeaked (NoLeakedSocket), StopTakesDown (StoppedMeansDown), StopStaysFinal (StopIsFinal), NoWaiterForgotten (WaiterResolvable), NeverTwice (AtMostOnceExecuted), PendingStaysBounded (PendingBounded), Invariant (InductiveInv), CallsImplemented (ImplementsCalls) |
| `WSConnectionProofs` | ConnectionImplemented (ImplementsConnection) |
| `WSTokenProofs` | OneExpiryFailsNoCommand (RefusalNeedsExpiry), OnlyReloginsWedge (WedgedByRelogin) |
| `CoordinatorProofs` | TypeCorrect (TypeOK), CacheShown (ShownIsCached), OwnReplyApplied (NoOldReplyApplied), Quiet (QuietAfterStop), Invariant |
| `EntryLifecycleProofs` | TypeCorrect (TypeOK), ClientsOwned (NoOrphanClient), EntryServed (LoadedIsServed), OneClient (OneClientPerEntry), Invariant |
| `PlatformsProofs` | TypeCorrect (TypeOK), PayloadsUnderstood (PayloadUnderstood), OfflineShownAsUnavailable (OfflineNotShownAsState), CommandsHaveTheirMeaning (CuHoldsWhatWasMeant), PayloadMeansWhatWasAsked, Invariant |
| `MigrationProofs` | TypeCorrect (TypeOK), BackupSurvives (BackupKept), Converges (ConvergesToMapping), AreasRestored (AreasComeBack), MigratedRowsAdopted (RowsAdopted), Invariant |
| `ConversionProofs` | WireInRange, BrightnessRoundTrip, BrightnessMonotone, OnlyLowestBrightnessTurnsOff, BrightnessComesBack |

No property is inductive as it stands. Below, for each module, the assumptions
and the invariant that carries them. In the proofs each lemma `...Next` has one
step for each action; the `...Kept` lemmas deal at once with actions that leave a
conjunct's variables alone.

**The client** (SupAssumption, FaultsAssumption, BackoffAssumption: any set of
commands, number of faults and backoff bounds). `SocketInv` says which sockets and
readers exist at each await of the supervisor and of `stop()`: that `stop()` leaves
nothing open needs to know that a supervisor that is connecting or sleeping has no
socket and that a teardown's last await has neither socket nor reader. `IdInv` says
that a command id is used once and that the frame with the id of a waiting task is
that task's: without it a late reply could resolve a later command. `EffectInv` says
of each command that it is either executed, or under way in exactly one frame, or
untouched, and that the reply under way, the future and the outcome each tell
which. From it follow NeverTwice and the step simulation behind CallsImplemented.
`ws_safety` checks the conjunction, `InductiveInv`, as well. PendingBounded needs
`SettledInv` (a resolved future has left `_pending`) and `SupIdle` (between LOGINs
the supervisor waits for nothing); each step then adds at most one entry that
nobody waits for, and at most one of those who leave such entries behind.

**The client as a connection** (the same assumptions). The connection is
down without an open socket, and up once the supervisor is past its LOGIN. `WaitersInv` says
that nobody waits once a teardown is over, so that the next connection starts
without waiters; `LoginInv` that the answer to a LOGIN has a token. Then each
action is a use, a winding down, a loss or an opening of Connection, or a stutter.

**The tokens** (the same assumptions). `TokenInv` follows tokens from the LOGIN
that brought them over the frames to the replies. A token is `Renewed` when it was
issued after the CU had forgotten one and is in force until the CU forgets
another; each retry, queued or on the wire, carries one, and so does each reply to
a re-LOGIN. For the wedge, each action is shown to keep the token, to have a LOGIN
under way, or to end a command that was about to log in.

**The coordinator** (ValueAssumption, BoundAssumption, PollingAssumption: any items,
any versions that count as offline, any number of changes and faults). `EntityInv`:
entities are attached between the first reply and the unload alone. `PhaseInv` and
`RequestInv`: at most one request, refused command or reply is awaited, and none
while the entities are being added, which is why the first rendering cannot be
overtaken by a reply. `BaseInv`: the CU only advances, so that an awaited reply is no
older than its request, also with pushes in front of it.

**The entry** (ClientAssumption, FlowAssumption, BoundAssumption: any clients, flows
and probes). `StepInv`, `TaskInv` and `ServeInv` say at each await of a setup, reload
or unload who holds the client, whose callbacks and polls exist, and what the
client does; `ShareInv` that a flow shares its client with nobody and a client
that was given up is nobody's. They tie together what the code keeps in local
variables, `hass.data`, the entry's hooks and the coordinator.

**The platforms** (ItemsAssumption: one finite configuration; SceneAssumption: a
scene gives items states those can have; BrightnessAssumption, PositionAssumption,
BoundAssumption). `NetInv` has the types of what is on its way in either direction.
For CuHoldsWhatWasMeant `SentInv` says that a command on its way still carries the
payload of its service; then PayloadMeansWhatWasAsked, which rests on the theorems
about conversions, says for each service what its execution shows.

**The migration** (EntityAssumption, DeviceAssumption, SerialAssumption,
ItemAssumption, AdoptionAssumption: any registries, any outcome of the mapper's
relations, any directories and number of runs; the configuration of the CU is
finite). `MigrationInv` compares three copies of the registries with the original:
the disk, the memory of Home Assistant and the backups. `CopyInv` says of a copy
that each row is as it was or migrated to what the first report said (`RowsOf`,
`AsMapped`), what an apply that ended has done (`Applied`), what `restore_areas.py`
has restored (`Restored`), that no second row stands beside a migrated one
(`NoSecondRow`), and that a copy that differs from the original has a backup that
no run overwrites and no reboot takes (`Kept`). `ToolInv` and `RowsInv` say what a run
that is under way has read, so that a crash between any two writes leaves a copy
of that kind. MigratedRowsAdopted has the hypothesis `CuMac = "normalized"`;
`migration_adoption` shows that it is needed.

**The conversions** (no assumptions; `round()` is modelled with ties to even, and
each quotient is close enough to exact for the float in between not to matter):

- WireInRange: what is sent is 0 to 100, whatever a service call brings;
- BrightnessRoundTrip: a percentage shown by Home Assistant and sent back is the
  same percentage;
- BrightnessMonotone: a higher brightness is never sent as a lower percentage;
- OnlyLowestBrightnessTurnsOff: of 1 to 255, exactly 1 is sent as 0, which turns
  the lamp off although `turn_on` was called;
- BrightnessComesBack: a brightness that was sent is reported back as itself or
  as one of its neighbours, which is the step CuHoldsWhatWasMeant and
  ShowsWhatWasMeant allow.

Model-checked only: the liveness properties ServesOrStops, CallsEnd,
EntitiesCatchUp, NoSavingMissed, SetupSucceeds and ShowsWhatWasMeant, which are
out of the prover's reach, and of course the six properties that the code refutes.

## 6. Where the code and its documentation differ

1. `ws_wedge`: a re-LOGIN inside `_request` that is never answered leaves the
   client without a token on an open socket. The README says that case closes
   the socket and reconnects; only the supervisor's own LOGIN does. The watchdog
   that could notice it is called by nothing.
2. `coordinator_reconnect`: no `GET_CONFIGURATION` follows a reconnect, although
   a comment in the poll relies on it. With the poll off a change made during an
   outage is never seen.
3. `coordinator_availability`: an entity rendered while the client was not
   connected stays unavailable after the reconnect until some state changes.
4. `entry_leak`: a configuration without a usable MAC, or with an item that
   cannot be read, fails the setup without stopping its client; each retry adds
   one.
5. `entry_password`: a refused LOGIN is retried like a lost one, and `start()`
   waits on. The config form with a wrong password is never answered, and its
   `invalid_auth` and `cannot_connect` branches are reached only in the tests,
   which make `start()` itself raise.
6. `migration_adoption`: the runbook exports the CU's MAC in upper case with
   colons, the tool uses it as it is, and Home Assistant then finds no migrated
   row and makes a second one for each entity.

Others, which no run refutes:

- *Options.* The form offers `connection_timeout` alone (`config_flow.py:227-233`),
  and nothing reads it: setup builds the client without it (`__init__.py:78-83`)
  and reads the poll interval only (line 120). `__init__.py:135-139` says that the
  form's option changes the timeouts of the client, `README.md:46-47` that both
  can be set there, and `tests/test_config_flow.py:202-239` ends when the value is
  saved. Saving the form replaces the options and loses a poll interval that was
  among them. NoSavingMissed is about the reload that follows and claims no effect.
- *The poll.* `README.md:11` and `const.py:22` have it run only while the WebSocket
  is down; `coordinator.py:323` skips it exactly then.
- *STOP of a cover with a position.* `models.py:14-16,29-31` and `cover.py:6-10`
  give SHUTTER and LOUVERED_SHUTTER a value from 0 to 100 and the verbs to SOMFY
  only; `cover.py:115` sends those types STOP, and
  `tests/test_cover_platform.py:134-139` wants it so. Platforms lets the CU take it or
  refuse it, and PayloadUnderstood excepts it.
- *A refused LOGIN at setup.* `__init__.py:61` promises ConfigEntryNotReady. As in
  item 5, `start()` does not end, and the entry stays in setup; SetupSucceeds has it
  as an exception.
- *Rollback.* The commands of `docs/cutover-runbook.md:406-408,436-440` extract
  `./core.entity_registry` and others and `./homebridge/config.json`;
  `tools/_migrate/backup.py:79-80` stores `core.entity_registry` and `config.json`, so
  that tar finds no such member and, under `set -e`, the script ends with Home
  Assistant stopped. `Rollback` stands for an operator who uses the names that
  are in the tarball.
- *A second `--apply`* is not a no-op: the first one deletes the device rows of
  entities that stay with homekit_controller, which section 7 of the runbook has
  unchanged, and the mapper then falls back to names.
- *restore_areas.py* says that it looks whether Home Assistant runs, and does not.
- *Commands during the re-LOGIN of another* are turned away with "No token available",
  since the token is cleared before LOGIN is sent (`switchbee_ws.py:469`); `connected` is true
  before the LOGIN of a new connection if a token is cached.
- A poll's reply overwrites a push that was dispatched between it and the resumption
  of the poll task, until the next poll. `PushEvent.known` is read by nobody.

## 7. Not modelled

- `LoginTimeoutWatchdog`: a counter over a window of time that nothing in the
  integration calls; there is no behaviour of the system it takes part in.
- `report.py`, `homebridge_reader.py`, what `probe.py` prints: input and output.
- `const.py`: names and defaults. Values of the wrong JSON type, which the codecs
  would refuse: the CU sends none.
- The content of options beyond which setup read them (section 6),
  `normalize_cu_mac`, the normalisation of names and the zone aliases: no property is about them. Two migrated rows with one unique id
  are out of the instance of Migration; `Adopts` takes one of them.
- A second `--output-dir` that was used before, and Home Assistant started while a
  tool runs: the runbook excludes both and the code neither.
- A reload started by hand in Home Assistant: it takes the same path as the one
  that new options start.
- An exception of `async_forward_entry_setups`.
- Time: no durations, only which timer may fire before what.

## 8. Plan

Done, in the order of importance: WSClient with its abstract specifications and
proofs; Coordinator; EntryLifecycle with the config flow and the
probe; Migration with the adoption of its rows; Platforms; Conversions.

Proved: every safety property that a passing run checks, and both
refinements of WSClient.

Next:

1. MigrationProofs: that a second apply changes no more than the first report
   and the fall-back to names account for, once the model states it.
2. Properties for the hazards that have none (`PROJECT.json`, "note"): `connected`
   between two connections, an output directory that is used twice.
3. From EntitiesCatchUp and ShowsWhatWasMeant, the safety core that can be proved:
   when nothing is on its way and the poll has found no drift, cache, entities and
   CU agree.
4. That WSClient is within the client that Coordinator assumes: an abstract client
   with token and waiters that is tighter than Connection, implemented by the one and
   used by the other.
