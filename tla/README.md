# devmon-agent: a TLA+ verification of the agent

devmon-agent is a small Go daemon that runs in a container on a VPS and gives
paired phones a mutually authenticated HTTPS API to the local Docker Engine:
inspect, logs, live events, and start/stop/restart/kill/delete under a policy.
This directory holds TLA+ models of its stateful parts, the TLC configurations
that check them on small instances, abstract specifications that two of them
implement, and TLAPS proofs, for every instance, of nearly all the safety
properties the runs check, both refinements included. `PROJECT.json` is the
index: each definition's source lines, each run, each seeded bug ("mutant") that shows a
property is able to fail, each hazard and each finding.

    tlc -workers 2 -config DeviceIdentity.cfg MCDeviceIdentity
    tlapm DeviceIdentityProofs.tla

## 1. Inventory

| Part | State it keeps | Operations | What is hard |
|---|---|---|---|
| Identity (`httpapi/pair.go`, `device.go`, `middleware.go`, `state/devices.go`, `pairing.go`, the `device` CLI) | SQLite tables `devices`, `pairing_codes`, `device_certs`, `audit` | pair, renew, unpair, `pair-code`, `revoke`, prune | several autocommitted statements per request, no transaction around them; any may fail, also after committing; the process may die between two; revocation races renewal |
| Events (`eventhub.go`, `eventregistry.go`, `events.go`) | one Engine subscription, its subscribers and their buffers, one slot per device | open a stream, evict the older one, fan out, heartbeat, close | five goroutines over one mutex, decisions made after unlocking, `select` over simultaneously ready channels |
| Log stream (`logs.go`, `sse.go`, `streambudget.go`, `dockerx/logs.go`) | slot counters, whether the response is committed | open, follow, keepalive with revocation check, end | two writers on one response, one slot that every exit must return |
| Log reads and framing (`dockerx/logs.go`, `framing.go`) | one line buffer per stream, the bounded list | inspect, open, demultiplex, push, flush | boundaries: limit, newline and frame edges coincide; a list full exactly at the end; reads cut off anywhere |
| Configuration (`config/config.go`, `pair_code_ttl.go`, `logging/logging.go`) | the parsed environment | load, report every problem, derive limits | defaults that stand in for wrong values in later checks, durations that wrap, a quotient of 0 that means unlimited |
| Audit retention (`state/audit.go`, `pruner.go`, `store.go`) | `audit` | append, prune at start and on a ticker | fairness between devices, frequent restarts |
| Start-up (`main.go`, `state/store.go`, `schema.go`, `certs/`) | `state.db`, `ca.*`, `server.*` | open, migrate, check, create or load CA and server certificate, re-issue | crashes between files, torn files, racing processes, lost directories |
| Shutdown (`main.go`, `server.go`) | connections still in `StateNew`, lifecycle context, the store | signal, cancel, sweep, drain, close | hooks that run late, a grace period, three components |
| Lifecycle operations (`dockerx/lifecycle.go`, `self.go`, `protected.go`, `selfid`, `policy`) | the agent's own container ID, the protected list | start, restart, stop, kill, delete; list and inspect, which mark what is protected | check-then-act across two Engine calls, self-identification that fails, two computations of "protected" |
| Rate limits (`ratelimit/registry.go`, `httpapi/ratelimit.go`) | token buckets behind a cap | allow, sweep | the registry at its cap |
| Log rotation (`logging/`) | `agent.log` and its backups | start-up pass, ticker | frequent restarts |

The parts meet in few places. The SQLite store is shared by identity, the two
stream handlers (revocation checks), the audit trail, the pruner and the CLI,
which is another process. The lifecycle context joins shutdown to both stream
handlers and the hub. The Engine is shared by events, logs and lifecycle
operations. Modules model a neighbour by what it may do: streams see `Revoke`
and `Shutdown` as steps that may happen at any time, lifecycle sees other users
of the Engine as steps of its own.

What makes each part correct is its row in the table of runs (section 3).

The other read routes (images, networks, volumes, status), TLS configuration, the
health probe, usage text, the installer and the e2e harness keep no state that
a later step reads; they are listed in `PROJECT.json` and not modelled.

## 2. Modules

| Module | Role |
|---|---|
| `IdentityStore` | the identity tables and one operator per SQL statement |
| `DeviceIdentity` | EXTENDS it: requests, CLI, pruner, clock and crashes over those statements |
| `DeviceRegistry` | abstract: offer, admit, enter, rekey, bar, each one atomic step; `DeviceIdentity` implements it |
| `DeviceIdentityProofs` | TLAPS proofs of its invariants, and of the refinement |
| `EventHub` | the shared Engine subscription: attach, detach, fan-out, the end of a run |
| `EventStream` | EXTENDS it: one handler and one heartbeat goroutine per stream, the registry |
| `EventFeed` | abstract: snapshot, consecutive events, at most one reason for the end and what each reason means; `EventStream` implements it |
| `EventStreamProofs` | proofs about hub, registry and handlers, and of the refinement |
| `StreamBudget`, `LogStream`, `LogStreamProofs` | slot counters; the log handler with its keepalive goroutine over them; proofs |
| `LineSplitter` | `push`/`flush`, and the definition of lines they are compared with |
| `LogRead` | EXTENDS it: `ContainerLogs` and `StreamContainerLogs` from inspect to return |
| `AuditRetention` | append and the three prune passes |
| `Configuration` | one operator per field loader, the problems found, what is derived; the documented table beside it |
| `Startup` | EXTENDS it: loading the configuration, and every file and database step from exec to serving |
| `StartupProofs` | proofs about both |
| `Shutdown`, `ShutdownProofs` | from the signal to the exit status; proofs |
| `Lifecycle`, `LifecycleProofs` | self-identification, policy, target resolution, the five operations; proofs, of `ContainerReads` too |
| `ContainerReads` | EXTENDS `Lifecycle`: list and inspect, and the row a device acts on |
| `RateLimit`, `RateLimitProofs` | registry and its two callers; proofs |
| `LogRotation` | rotator and lumberjack's part in it |
| `RetentionProofs` | proofs about what is kept and for how long: `LogRotation`, `AuditRetention`, `LogRead` |
| `MC*` | symmetry sets, the scenarios of a run and, for `DeviceIdentity`, start states after pairing |

### How state and actions correspond to the code

**IdentityStore / DeviceIdentity.** `codes`, `expires`, `usedBy`, `rows`,
`name`, `revoked`, `owner`, `superseded` are the tables; a device's name is
identified with the code that carried it. A request is a program counter with
its locals. Each store call is one action (`PairCreate`, `PairRedeem`,
`PairRename`, `Record`, `Supersede`, `Rollback`, ...). `Call` gives a call three
outcomes: done; failed without effect; failed although it committed, which is
what a cancelled context or a lost answer gives. `RevokeDevice` is two steps as
in the code. Deleting a device cascades to its certificates. The redeem compares
with a clock read at some moment since the previous call. `delivered` is an
upper bound of what clients hold: the answer was written, it may be lost.
History variables (`redeemed`, `issuedTo`, `withdrawn`, `excused`, `minted`,
`created`, `issued`) are read by properties and by freshness conditions only:
IDs, codes and serials are random and never drawn twice.

**EventHub / EventStream.** A critical section of `h.mu` is one action; what the
code does after unlocking (calling `cancel`, closing channels, sending to each
subscriber) is a later one. Each start of the subscription is a numbered run.
The handler's `select` is one action per ready case, so the choice is free. The
wire is the sequence of frames a client was sent. Opening the Engine's feed has no
timeout (`dockerx/events.go:174`): only its cancelled context ends it.
`ContainerStates` and the snapshot's frame are two steps; the heartbeat starts with
the second.

The stream's first frame clears the write deadline, and a frame is written with the
writer's mutex held (`sse.go:102`, `122`, `167`). A client that stays connected and
stops reading (`Stall`) therefore holds up whoever writes next, handler or
heartbeat, and then the other: such a write returns when the connection is lost
(`CanWrite`), and nothing else ends it, a cancelled context included. `LogStream`
models its two writers in the same way.

**StreamBudget / LogStream.** `spc` is the handler, `kpc` its keepalive
goroutine. The inspect call has a 15 s timeout and the first tick comes after
20 s, so no tick precedes its return. Keepalive comments commit the response
(`started`) and are not listed in `wire`. The revocation check comes after the
tick's comment, so a client that does not read puts it off, and its slot stays
taken.

**LineSplitter / LogRead.** One loop iteration of `push` is one step; a frame is
any sequence of bytes from {newline, carriage return, other}. The lines of a byte
sequence are defined without reference to frames, by the positions where lines
start (`Starts`): `Known` are those whose line is settled, by its newline or by
its first byte too many, `Written` those there are if nothing more comes, and
`LinesAt` is the lines at such positions, in order. `call` is where
`ContainerLogs` or (`follow`) `StreamContainerLogs` has got to; the Engine may
refuse the inspect or the open, name a TTY or not, and end the log in order
(`eof`), in the middle (`cut`, which the timeout of a bounded read also is), and
the SSE writer may fail (`gone`). `emit` is the bounded list's callback.

**AuditRetention.** A pass is one transaction. `history` holds every row ever
appended; `at` may lag the clock by one tick, as `time.Now` is read before the
insert.

**Configuration.** An environment is a record of texts, numbers and lists, each
abstracted to what its loader's check tells apart: a path is absolute or not, a
URL has its scheme, a number is unset, malformed or its value, a list is the set
of its parts. A loader returns a value and whether it found a problem. Durations
wrap at `Limit`, counted in `Day` units, as int64 nanoseconds do. `Documented` is
the table of `docs/CONFIGURATION.md`, written without reference to the loaders.

**Startup.** A file is absent, torn (created, not yet written) or whole with the
identity and the addresses it belongs to. A process is an agent or a CLI; both
load the configuration, then open and migrate the database. The operator edits
the environment (`EditEnv`) while nothing runs.

**Shutdown.** A connection is accepted, then its `StateNew` hook runs, then it is
active while a handler runs. Handlers may run for ever. What `http.Server` does
itself is external.

**Lifecycle.** Containers have IDs, names and a state; `Create`, `Rename` and
`Change` are other users of the Engine. The policy mode is read when the agent
boots and may differ from boot to boot. A request is policy gate, validation,
inspect and judge, operation, audit row. Requests share nothing but the Engine,
whose other users may do all that another request could, so one request is
enough for the runs; the proofs take any number. The agent is containerised
(`ContainerizedAssumption`). Its candidates are the operator's
`DEVMON_SELF_CONTAINER` and what it finds in mountinfo, cgroup and HOSTNAME, and
each may name the agent's container, another one or none: with
`network_mode: container:<other>` what it finds names the other one, and
`confirmSelf` only asks whether the container exists. The history field
`agent.honest` records whether no candidate of this boot could name another
container. A restart may stop the container and then not start it
(`HalfRestart`). Container ID prefixes are not told apart from IDs.

**ContainerReads.** A row is the container and its mark, computed by the
projection from one Engine snapshot. `shown` is a row a device has read; it is
forgotten when the container is renamed or gone, the agent restarts, or a request
has been judged.

**RateLimit.** One tick refills one token. `ideal` is the bucket a registry that
never forgets would hold.

**LogRotation.** Time is in units of the interval's fraction. A pass may fail: the
start-up pass because the file cannot be looked at, both because lumberjack cannot
rotate, which is logged to the file that stays. `misses` counts the passes in a row
that failed. lumberjack's clean-up of backups is a step of its own (`Mill`), due
after a rotation and forgotten in a crash.

## 3. Runs

Each run asks everything of one module that fits one instance. The `pass` runs
end without error; `PROJECT.json` names, for each property, the seeded bug that
breaks it.

| Run | Shows | Instance | Distinct states |
|---|---|---|---|
| `identity` | `SingleUse`, `CredentialIsPaired`, `OrphansExplained`, `NeverStranded`, `RevokedLockedOut`, `AuditTruthful`, `ImplementsRegistry` | 1 code and 2 requests racing for it from an empty store; a paired device and 2 more requests, with CLI revocation | 922,000 |
| `events_safety` | `NoSilentStream`, `OneSubscription`, `NewestWins`, `ImplementsFeed` | 2 streams, 2 devices, buffer 1, 2 events to two streams or 3 to one, 2 runs; a client that stops reading | 2,166,000 |
| `events_ends` | `HubStops`, `StreamsEnd`, `ShutdownDrains` | 2 streams of one device, as many runs as streams; one stream with every upset | 133,000 |
| `logs` | `SlotsAccounted` (both caps included), `OneTerminalFrame`, `NoWriterLeftBehind`, `StreamsEnd` | 2 streams, 2 devices, ceiling 1 or 2, device cap 1; one stream with every upset | 161,000 |
| `logread` | `FramingInvisible`, `AnswerIsExact`, `MemoryBounded` | 2 streams, line limit 2, list limit 2, frames of up to 3 bytes, 5 bytes in all; bounded and followed, TTY and not | 437,000 |
| `audit` | `RecentRowsKept`, `DiskBudget`, `ExpiredRowsGo` | 3 devices, 4 appends, 2 rows | 106,000 |
| `startup` | `StableIdentity`, `RowsSurvive`, `ServesWholeIdentity`, `ConfigExact`, `BudgetsHold`, `ComesUp` | one agent and a CLI with every upset; two agents; one agent with 2 addresses; every environment one or two variables away from a plain one | 161,000 |
| `lifecycle` | `AuditTruthful`, `NeverSelf`, `ProtectedHeld`, `MarkIsKept` | 3 containers, 3 names, list of a name and an ID, 3 policy modes, pages of 2; candidates that name the agent or another container | 3,339,000 |
| `shutdown` | `NoNewConnLeft`, `StoreOutlivesHandlers`, `Exits` (with a truthful status) | 3 connections, 2 other components | 45,000 |
| `ratelimit` | `NoExtraBurst`, `RefusalJustified` | 3 keys, 2 buckets, burst 3, both tiers | 25,000 |
| `rotation` | `CurrentIsYoung` | age 2, interval 2, 9 ticks, 2 failed passes in a row | 392,000 |

`startup_lostdb` is a violation run: `LostDatabaseIsRefused` says what
`docs/THREAT-MODEL.md` says, and TLC shows that the refused start has already
created an empty database, so the next restart is accepted.

### Refinement

`DeviceRegistry` says what pairing, renewal and revocation amount to when each is
one step: an admission spends an offered code of its own, a further key goes to a
request that got in, nobody gets in without a key or as a barred device. Its state
is a function of `DeviceIdentity`'s: an offer is a minted code, a key is a
certificate that was sent to a client, a device is barred once its revocation has
been reported. `pairDevice`'s five statements thus take effect with the answer,
and a pairing that fails half-way, or crashes, is no step at all.

`EventFeed` says what a client of `GET /v1/events` is promised: one snapshot, then
every event since, each once, in order and only after it happened, and at most
one reason for the end. Lagged, superseded and revoked are only told of a stream
they are true of. The Engine is blamed for a stream whose feed it broke off, but
also for one whose feed the agent gave up itself: between the moment the last
subscriber detaches and its `cancel()` (`eventhub.go:160-165`) a newcomer joins the
run that is being cancelled, the run ends cleanly, and the newcomer is told that
the Engine is unavailable. `Truthful` says exactly this, and `EngineReasonIsTrue`
below is the stronger claim. The feed also allows what the docs do not forbid: an
event the snapshot already includes may be repeated, and events may still follow
the last word (see `TerminalFrameIsLast` below). Both refinements are proved as
well (section 4).

### Other disagreements met while modelling

Each of these is a formula at the end of its module, under "Claims of the
repository that the code does not keep". TLC refutes it when the formula is
added to the run's configuration in place of its properties.

| Formula, run | The claim | What the code does |
|---|---|---|
| `PairSuccessNamesDevice`, `identity` | a pair row "carries the newly created device's ID on success" (`httpapi/audit.go:129`) | `pair.go:75` returns on a malformed body without setting an outcome: a success without a device is recorded |
| `CodeKeptWithoutCertificate`, `identity` | "The pairing code must never be spent by a request that could not actually issue a certificate" (`pair_test.go:567`) | a CSR that decodes but cannot be signed is found bad at `pair.go:175`, after the redeem |
| `SomeCertificateIsCurrent`, `identity` | a renewal supersedes "every certificate the device held before" (`device.go:127`) | two renewals supersede each other's new certificate; both keep authenticating (`NeverStranded`), only the registry is wrong |
| `NoWorkingStreamDestroyed`, `events_safety` | on a running hub "attach cannot fail - so no working stream is ever destroyed" (`events.go:85`) | the evicted stream is the last subscriber and cancels the run the new one attaches to |
| `EngineReasonIsTrue`, `events_safety` | `docker engine unavailable` is what clients are told "if the Engine feed dies" (`docs/API.md:237`) | a stream that joins a subscription its last client is giving up is told so, with the Engine at work |
| `EvictedStreamsAreTold`, `events_safety` | the older connection is closed "with `event stream superseded`" (`docs/API.md:245`) | its `select` may take `ctx.Done` first and send nothing |
| `TerminalFrameIsLast`, `events_safety` | a revoked stream ends "with a terminal `event: error` frame" (`docs/API.md:280`) | the handler may write an event after the heartbeat's frame |
| `RevokedStreamsEnd`, `events_ends` | a stream the device already had open "ends within one tick interval (at most ~25 seconds) of the revoke" (`docs/API.md:279`) | the check comes after the tick's comment, which a client that does not read blocks; and there is no heartbeat before the snapshot, so a handler that waits for the Engine to answer the subscription is not checked |
| `RevokedStreamsEnd`, `logs` | without the check on every tick "a device revoked mid-stream would keep receiving log lines forever" (`logs.go:121`) | the comment blocks before the check is reached: the stream of a client that does not read, and its slot, stay |
| `LastWordLast`, `logread` | lines come in the order the container wrote them (`docs/API.md:152`) | what `flush` finds is emitted stream by stream in Go's map order (`framing.go:192`) |
| `OneProtocol`, `logs` | `Started` decides between a JSON error and a terminal frame (`sse.go:190`) | a keepalive between the test and the write mixes both in one body |
| `DeletedCertsAreRecreated`, `startup` | "delete `certs/` on the host and restart. The agent then creates a new CA" (`docs/OPERATIONS.md:35`) | the start is refused as a partial restore |
| `IncompleteMeansLoss`, `startup` | the refusal is "not of a first install" (`certs/store.go:239`) | a first start killed between database and CA is refused for ever |
| `AuditOutlivesLogs`, `startup` | the audit age is ">= 1, and >= `DEVMON_LOG_MAX_AGE_DAYS`" (`docs/CONFIGURATION.md:23`) | `days` multiplies into int64 nanoseconds after the check: more than 106,751 days wrap, both ages can be negative, and every pass then empties the table |
| `AddressesAreAccepted`, `startup` | each address is "a DNS name or IP" (`docs/CONFIGURATION.md:15`) | an IPv6 address is refused for its colons (`config.go:464`) |
| `OwnNeverTouched`, `lifecycle` | "It never acts on its own container" (`README.md:14`) | an agent that shares another container's network takes that one for its own and acts on itself |
| `ListedNeverTouched`, `lifecycle` | "the agent can never act on [...] a container the operator protected" (`dockerx/lifecycle.go:30`) | a container renamed to a protected name after the inspect is acted on |
| `NeverRefusedForRoom`, `ratelimit` | "the caller must then fall back to its global bucket" (`ratelimit/registry.go:39`) | `withDeviceLimit` refuses a device the full registry had no room for |
| `StoreNeverClosedUnderRequest`, `shutdown` | the order avoids "closing the state store while a request is still in flight" (`main.go:286`) | a failed listener or an expired grace period closes it under requests |
| `OwnLinesStay`, `rotation` | "a freshly booted agent's own opening lines are left alone" (`logging/rotator.go:114`) | rotating stale carry-over takes them along |

### Bounds

Bounds are CONSTANTS or the fields of a scenario, and each is there for one
reason: two requests (streams, agents) for every race between two actors, three
where a cap or a share must be exceeded; buffers, caps and limits of one to three
so that full, empty and one-over all occur; one more event, tick or run than the
limit under test. `Limit` is small enough for TLC to count to and large enough for
every documented bound; 1048 days is the longest time it holds. `Awaited` bounds
the reads of `ContainerReads` to the time before a request is judged: later ones
are about nothing. `Unfinished` stops a behaviour of `Lifecycle` when its last
request has ended, and `MaxMisses` bounds how many rotations fail in a row.

The disturbances of `EventHub`, `LogStream` and `Startup` multiply each other, so
a behaviour picks one scenario of the constant `Scenarios` at its start and keeps
it in the variable `bound`: which upsets may happen, how many events, runs or
lines there are, and which streams open, in what order (they are interchangeable:
a run needs one order only, with every assignment of devices). No decision of the code reads it. Every upset is in some
scenario, and those that race with each other (a failing feed and a revocation;
all of start-up's) are in one together.

`CHECK_DEADLOCK FALSE` is set where a bounded instance ends (requests used up,
process exited, clock at its bound); `RateLimit` never stops and is checked for
deadlock. Symmetry is used in runs without liveness only, over sets whose members
no definition tells apart; `MCLogStream` fixes the device of one stream instead.
The modules' `TypeOK` were checked on the same instances.

### Fairness

* `EventStream`: weak fairness of handlers, heartbeats and runs. Opening the
  subscription is fair only once the run's context is cancelled, the Engine's
  events and its failures never: what ends, ends without its help. A frame is
  written only while the client reads or once it is gone, so fairness of a
  goroutine says nothing of a write to a client that does neither. The list of
  containers has a timeout. `HubStops` and `StreamsEnd` need as many runs as
  streams.
* `LogStream`: weak fairness of both goroutines, with writes as above; strong
  fairness of the `select`
  case that sees the cancelled context and of the revocation lookup (one that
  fails is tried again at the next tick). Opening the log is fair once its
  context is cancelled, never before: a quiet container may block it for ever.
* `AuditRetention`: the clock, and strong fairness of a pass: one that is tried
  again and again succeeds in the end. Staying up for a whole interval is not
  assumed: `Restart` may always come first, and then the start-up pass is the
  only one that runs.
* `Startup`: the process's own steps and its restart by the container runtime.
  `ComesUp` speaks of scenarios with one agent that nothing disturbs: a crash in
  the first start, or a CLI before it, can stop it for ever.
* `Shutdown`: the process's own steps and the grace timer. Not the handlers.

## 4. Proofs

`tlapm` checks the eight proof modules to the last leaf. Each follows one plan:
an inductive invariant, `Invariance` (`Spec => []Inv`) with one step per action,
and the properties as its consequences. Constants are arbitrary up to the named
assumptions of the modules: null values are not members of the sets, bounds,
ages, sizes and caps are natural numbers, and not 0 where the code refuses 0.
Bounds that exist for TLC only (`MaxClock`, `MaxEvents`, `MaxRuns`, ...) are
arbitrary numbers in the proofs. TLC evaluates every assumption on every run.

**DeviceIdentityProofs**, for any codes, devices, serials, requests and lifetimes.
The properties are not inductive by themselves, so `IInv` adds what each program
counter knows: drawn IDs and serials are recorded in the history (`Drawn`), a
code is marked used exactly when a device redeemed it, also after the code row is
pruned (`Spent`), a device and a serial in the hands of one request are in nobody
else's (`Private`), how far a request has got fixes what its device row and
certificate look like (`Progress`), and a reported revocation is a set
`revoked_at` (`Withdrawn`). From it: `TypeCorrect`, `CodesAreSingleUse`,
`CredentialsArePaired`, `ClientsAreNeverStranded`, `RevocationIsFinal`,
`OrphansAreExplained`, `AuditIsTruthful`, crashes and calls that fail after
committing included. `IdentityImplementsRegistry` needs two facts more
(`Unshared`): a certificate on its way to a client is on nobody else's way, and a
request has no device before `requireDevice` gave it one. With them every action
is a stutter or one step of the registry: `requireDevice` enters, the answer of
pair admits, the answer of renew rekeys, the update of a reported revocation bars.

**EventStreamProofs**, for any streams and devices, any buffer and any number of
events and runs. `Inv` is `TypeOK`, that only the current run has a subscription
and only while the hub counts as running (`RunInv`), that an attached handler is
a subscriber, closed, or on the list of a run that is ending (`AttachInv`), and
that a registered stream without its slot is being evicted (`SlotInv`). From it:
`EventTypes`, `SingleSubscription`, `StreamsNeverSilent`, `NewestStreamWins`.
`SubscriptionNeverLeaks`, the safety half of `HubStops`: a hub without subscribers
has had its run cancelled, or the handler or the fan-out that removed the last one
is on its way to (`LeaveInv`).
`EventsImplementFeed` (`Spec => ImplementsFeed`) rests on a second invariant,
`FeedInv`, proved from the first. Its heart is an account of every event on its
way: the channel holds consecutive events from the one after the last that was
sent (`QueueInv`); the last a subscriber has is the last its run has offered it,
and if it has none, all that was offered is in its snapshot (`SyncInv`, which is
where attaching before `ContainerStates` matters: a run is ready, hence
subscribed, before a snapshot is taken, `ReadyInv`); a lagging stream has left
the subscribers, lacks an event, and no fan-out that is under way has it on its
list (`LagInv`). `FreshInv`, `ReasonInv` and `EvictInv` say what a stream has at
each stage, that the Once lets one reason through, and that only a newer stream
of the same device evicts. Its part `SharedInv` follows a stream's subscription:
which run it belongs to (`OwnInv`), that the one subscriber that can be closed is
the one the fan-out is dropping (`DropInv`), and that a stream told of the Engine is
in `cut` or of a run that was cancelled (`EngineInv`). Then every action is a
stutter or one step of the feed.

**LogStreamProofs**, for any requests, devices and caps and any length of log.
`SlotInv`: the holders of slots are finitely many, the two counters count them,
and a stream that has used its release is over; `KeepaliveInv`: the goroutine
lives between the handler's start and its join; `FrameInv`: no terminal frame
before `terminalOnce`. From them: `StreamTypes`, `SlotsNeverLeak`,
`TerminalFrameOnce`, `KeepaliveJoined`.

**StartupProofs**, for any processes, devices and addresses, every environment of
the type `Environments` and any bound on keypairs. An agent that serves trusts
what it read many steps before out of files that others write, so `Inv` says what
a process may rely on where it is: the schema behind one that has migrated
(`RowsInv`), the environment it was configured by (`EnvInv`), that `O_EXCL` makes
one process the owner of the CA until its certificate is whole (`OwnerInv`), that
what a server certificate and a loaded CA name is the CA on disk (`IssuedInv`),
and that the CA a device pinned is on disk, or lost with no process on its way to
a new one (`PinInv`). From it: `StartupTypes`, `IdentityIsStable`, `RowsAreKept`,
`IdentityIsWhole`. `ConfigurationExact` and `BudgetsAreKept` go loader by loader:
for each variable the check of the code agrees with the documented range, with
the wrap of durations at `Limit` shown not to occur for ordinary ages.

**LifecycleProofs**, for any containers, names, protected entries, policy modes
number of requests and any candidates. `Inv` is `TypeOK`, that the ID an honest
agent knows is its own (`SelfInv`), that a resolved target was judged: it is not
the container the agent took for itself and no entry covered it throughout the
request (`TargetInv`), and what rows and acts each program counter allows
(`RowInv`). From it: `LifecycleTypes`, `LifecycleAudit`, and the action properties
`AgentSparesItself` and `ProtectionHolds`.
`MarksAreKept` is about `ContainerReads`: every step of it is one of `Lifecycle`
or leaves that alone, so `Inv` carries over; added are that a row in a device's
hand is marked as the lifecycle check would judge it now (`ShownInv`), and that a
request has refused nothing before it is judged (`UnjudgedInv`).

**RetentionProofs.** `LogStaysYoung`: the age of the file's first line is bounded
at the next tick of the ticker (`YoungAtTick`), not only now, and every crash and
restart keeps it so; a pass that fails adds one interval to what is allowed
(`Allowance`, `OneMoreMiss`). `AuditKeepsBudget` and `RecentRowsStay`, for any limit
and any finite set of devices: what a pass leaves is counted by an injection, rows
into ranks and rows into device and number among its rows, and a row within an
even share is out of reach of each pass. `ReadsAreBounded`: whatever the frames, a
read's buffers and list keep to their limits.

`FramesAreInvisible` and `AnswersAreExact`, for any line, list and frame limits and
logs of any length. `LinesInv` says of each stream which of its bytes have been
pushed, and where its unfinished line starts (`Open`): every line before it has
been given; the line itself is in the buffer as long as it fits, and once it does
not it has been given, truncated, and its rest is being dropped (`Holds`). So a
round of `push` adds one line to the known ones or none (`Lengthens`, `Finishes`)
and `flush` adds the last one (`FlushLines`). No induction over the bytes is
needed: the reference takes lines by the rank of the position where they start,
and a position after all others keeps their ranks (`NthExtends`, from the
library's facts on cardinality). A TTY is the case of one stream.

**ShutdownProofs**, for any connections and components. A connection without a
request is in the map or in the copy that is being swept (`HookInv`), a shutdown
that ended in time leaves nothing that could become a request (`DrainInv`), the
store closes after `Server.Run` has returned (`StoreInv`). From these:
`ShutdownTypes`, `NewConnsClosed`, `StoreClosesLast`. `StatusIsTrue`, the safety half
of `Exits`: until `Server.Run` returns only a signal ends the context, so whatever
the order of signal, listener error, grace timer and returns, the exit status says
what happened (`StatusInv`).

**RateLimitProofs**, for any finite set of keys (`KeysAssumption`) and any sizes.
A bucket that is not held is full (`DroppedFull`): that is why making it anew
gives nothing (`SweepsGiveNothing`). `RegistryBounded`: the cap holds.
`RefusalsJustified`, an action property.

**Only model-checked**: the liveness properties (`HubStops`, both `StreamsEnd`,
`ShutdownDrains`, `ExpiredRowsGo`, `ComesUp`, `Exits`), because the prover has no
fairness and no ENABLED. Every other property of a passing run is a theorem.

## 5. Left out, and why

* `last_seen_at` and certificate expiry: no modelled decision reads them.
* Refusals with 429 are folded into `requireDevice`'s refusals: both end the
  request without a row.
* `requireCA` / `requireDocker` nil branches: reachable in tests only.
* Corrupt databases and schemas newer than the build: refusals without a later
  step. `loadCA` does not compare key and certificate; the model does not either.
* Losing the database also loses the pairings in it, so `StableIdentity` says
  nothing of them; that is what `LostDatabaseIsRefused` is about.
* `Startup`: `dockerx.New` failing after the certificates (`main.go:253`: a start
  that ends there, like a crash at that point); a failing
  `os.Remove` in `reissueServerCert` (the state of a crash there). `LoadServer`
  compares the addresses once more after a re-issue, where the code returns the
  reloaded pair.
* `Shutdown`: the listener fails only while `Run` is in its `select`; a bind that
  fails later sends to a channel that nobody reads any more.
* `EventStream`: the heartbeat goroutine starts with the snapshot's frame.
* The fair share of `RecentRowsKept` is empty once more devices than rows have
  written; the configured minimum is 1000 rows.
* Reading the clock and the locked part of `Allow` are one step.
* Timestamps and the 8-byte frame header in `LineSplitter`; `tail` and `since`,
  which only reach the Engine's URL.
* The grammar of DNS names, URLs and container references in `Configuration`: a
  text is in the set its check accepts or not.
* All of a container's DTO but its ID and mark. The reads of images, networks and
  volumes and the status route project one Engine answer and keep nothing.
* TLS configuration (one constant `tls.Config`), the health probe (a one-shot
  request), usage text, the installer and the e2e harness.

## 6. Plan

Done: the inventory, every part above, the abstract registry and feed with their
refinements, and the proofs of section 4. Order was by what an error would cost:
identity, streams, start-up, lifecycle, then the bounded resources, then
configuration and reads.

Next, models: streams, audit and shutdown composed over the one store; liveness of
pairing (a half-made device goes away) under fair handlers.
