# Agentless Monitoring: specifications, model checks and proofs

This directory holds TLA+ specifications of the agentless monitoring service: a single Go process with an
SQLite database that runs TCP and HTTP checks of machines on a schedule, scans address ranges for machines,
lets an operator add what it found, and shows all of it on web pages behind a login.  The modules are
translated from the source under `src/`; `PROJECT.json` names, for every definition, the lines it stands for.

Contents: [the system](#1-the-system), [the modules](#2-the-modules-and-the-code),
[the runs](#3-the-runs), [fairness](#4-fairness), [the proofs](#5-the-proofs),
[disagreements found](#6-where-code-and-documentation-disagree),
[what is left out](#7-what-is-not-modelled), [the plan](#8-the-plan), [how to run it](#9-running-it).

## 1. The system

### Components

| component | source | state | operations |
|---|---|---|---|
| monitoring scheduler | `internal/monitoring/scheduler.go` | channel of queued checks (2 × workers), in-flight map, running flag, last error | `Run`, `dispatch`, `acquire`, `runWorker`, `release`, `Stats` |
| check runner | `internal/monitoring/runner.go` | none | `Run`: one TCP or HTTP probe with a timeout |
| machine store | `internal/machines/store.go` | tables `machines`, `checks`, `check_results`, and audit events | `Create`, `List`, `ListDue`, `RecordResult`, `RecordScheduledResult`, `History` |
| discovery scanner | `internal/discovery/scanner.go` | two unbuffered channels, identity slots, a context of its own | `Scan`, `probeAddress` |
| discovery service | `internal/discovery/service.go` | the running flag | `Start`, `run`, `recordFailure` |
| discovery store | `internal/discovery/store.go` | tables `discovery_jobs`, `discovered_devices`, `groups`, `machine_groups`, and audit events | `CreateJob`, `MarkRunning`, `RecordProbe`, `Complete`, `Fail`, `ImportDevices` |
| discovery targets | `scanner.go`, `service.go`, `internal/netpolicy` | none | `ParseTarget`, `LocalCIDRs`, the refusal of sensitive addresses |
| identity | `internal/discovery/identity.go` | table `discovered_device_fingerprints` | capture of fingerprints, grouping of devices that look like one machine |
| classification | `internal/discovery/classification.go` | none | a word for a device's open ports |
| login limiter | `internal/server/limiter.go` | two tables of recent attempts, time of the last sweep | `allow`, `reset`, `sweep` |
| accounts | `internal/auth/store.go`, `password.go` | tables `users`, `audit_events`; slots for password hashing | `CreateAdministrator`, `Authenticate` |
| sessions | `internal/auth/sessions.go` | table `sessions` | `CreateSession`, `SessionByToken`, `DeleteSession` |
| database, migrations | `internal/storage` | the file, its ledger `schema_migrations` | `Open`, `migrate` |
| web server | `internal/server` | form tokens and cookies of a request | handlers and pages |
| process | `cmd/agentless-monitoring/main.go` | the service's context | start, signal, shutdown, `-create-admin` |

### How they interact

* `main` opens the database, starts `scheduler.Run` in a goroutine and serves HTTP.  A signal cancels the
  service's context; `main` then waits for the HTTP server, but neither for the scheduler nor for a discovery job.
* The scheduler's dispatcher reads due checks from the machine store and sends them through a channel to
  workers, which call the runner and give the result to the store.  A "Run now" handler calls runner and store
  itself, without the scheduler.
* A handler calls the discovery service's `Start`; a goroutine of the service calls the scanner, whose
  callback is a transaction of the discovery store.  Importing devices writes the machine store's tables.
* A login passes the limiter, then the account store (which hashes outside any lock, in one of few slots),
  resets the limiter and creates a session; every other request begins with a session lookup.
* The database has one connection (`SetMaxOpenConns(1)`), so the transactions of a process are serialised;
  `-create-admin` is a second process on the same file, and an updater replaces the binary while one runs.  Every process
  migrates the database when it opens it.
* Targets and identity are functions that the discovery service and its page call; they meet the rest through the
  addresses of a job and the fingerprints of its devices.

### What is hard about it, and what has to hold

| component | hard behaviour | what makes it correct |
|---|---|---|
| scheduler | cancellation at any point of a blocked send, a full channel, a run, a transaction; a check polled while it is queued or run; failing queries | a check is in one place at a time; the in-flight map holds exactly those; every due check is run; `Run` returns and leaves nothing |
| results | operators and scheduler record results of one check at once; timestamps are taken before a transaction waits for the connection, and what it writes follows from what it has read; the list of due checks is stale when it is worked off; restarts | counters and status are functions of the history; scheduled results are in order; a check is not run early twice in a row |
| scanner | feeder, workers and caller block on one another; the callback fails; the context ends in mid-probe; identity slots | no address is lost, reported twice or reported from half a probe; success means all; `Scan` returns |
| jobs | two requests at once; any statement fails; the process ends | one scan at a time; exact counters; completed means complete; finished is final; the flag is reset |
| targets | inclusive bounds, networks that lose two addresses, forbidden addresses in the middle of a range | what is scanned is what was named, each address once; a suggested network is accepted |
| identity | partial captures, devices that come in one by one, groups that are renumbered | devices are shown as one machine just if their host keys are the same, as far as they were captured, and stay together |
| limiter | sliding windows, a sweep, bounded tables, a reset by one login while others verify passwords | no window is exceeded; nobody is refused beyond it; a full table recovers |
| inventory | the same machine comes in from an operator, from two jobs, from a form that names it twice | no twins; imported devices are monitored; each import is audited once |
| accounts | two processes create the first administrator, seconds of hashing between look and write; error paths with a slot held; audit rows are cut | one administrator; a waiting caller gets a slot; only old failed logins go |
| sessions | lookups, purges, logouts interleave; expiries compared as text | a valid session stays; a request that asks after its expiry is refused; a logout is final |
| migrations | a kill or a power loss between two statements; two processes at one migration; a snapshot that is not the last state any more | the ledger names exactly what was executed; who has opened the database finds its schema; the service comes up |

`PROJECT.json` lists the hazards one by one, each at its line and with the properties that would catch it.

## 2. The modules and the code

| module | models | extends |
|---|---|---|
| `CheckIds` | identities of checks; a check's number is its place in the order of `ListDue` | |
| `CheckRuns` | abstract: what the scheduler promises about executions of checks | |
| `Scheduler` | scheduler.go, every step | `CheckIds` |
| `CheckStore` | `recordResult`, whole results one after the other | `CheckIds` |
| `Monitoring` | both, with Run-now handlers, a clock and restarts | `Scheduler`, `CheckStore` |
| `Scanner` | one call of `Scan` at a time | |
| `DiscoveryJobs` | abstract: what the discovery service promises about the rows of its jobs | |
| `Discovery` | service and job store around the scanner | `Scanner` |
| `LoginLimiter` | limiter.go and the login handler around it | |
| `Inventory` | `Create`, `RecordProbe`'s device, `ImportDevices` | |
| `Accounts` | bootstrap, logins, password slots, audit log | |
| `Sessions` | creation, lookup, logout | |
| `Migrations` | `Open` and `migrate` of several processes on one file | |
| `Targets` | what a form names, what the page suggests | |
| `Identity` | the hints of `classifyIdentityGroups` | |
| `Survey` | a discovery as its operator sees it: suggestion, form, devices and hints as they come in | `Targets`, `Identity` |
| `...Proofs` (eight) | theorems | see section 5 |
| `MC...` | finite instances for TLC | |

Every operation of a component is an action (or an operator that actions use) with the code's name or one
close to it.  In each module the definitions whose comment begins with "Mutant:" are *not* part of the
specification: each is a plausible bug in the definition that follows it, kept to show that a property would
notice that bug.

**Scheduler.**  `loop` is the position of the goroutine of `Run`: `list` (calling `ListDue`), `next` (in
dispatch's loop), `send` (blocked in its select), `wait` (in `Run`'s select), `drain` (closed the channel, waits
for the workers), `returned`.  `batch` is the rest of the list that was read, `sending` the check that was
acquired and not sent yet, `jobs` the channel, `inFlight` the map.  A worker is `idle` (at the receive), `running`, `recording`,
`releasing` or `exited`.  The store is reduced to the set `due`, from which `ListDue` takes the first
`DueLimit`.  The select in dispatch is the choice of `Send` and `AbandonSend`, that of `Run` the choice of `Tick`
and `Close`: both cases may be ready, as in Go.  A result's commit and a cancellation race in the code; the model has the
transaction commit before the cancellation or fail after it.

**CheckRuns** forgets channel, pool and map: a check is idle, waiting, running or ending; a poll offers due
checks, each offer leads to at most one execution, an execution records at most one result and none after a
stop.  `RunsPromise` in `Scheduler` is this specification under the refinement mapping `PhaseOf`.

**CheckStore.**  `check` holds the rows of table `checks`, `history` those of `check_results`.  `NextRow` is
the arithmetic of counters and status, `Record` what the transaction writes, given the row it has read.  A machine has one check
(docs/poc.md:97), so that the aggregation over a machine's checks is the check's own status.  `Verdict` is the reference definition, read
off docs/poc.md: it computes the status from the history alone, without counters.

**Monitoring.**  The scheduler's steps, with `recordResult` in three: `TakeTime` takes the timestamp, `BeginScheduled` gets the
connection and reads the check's row, `ScheduledResult` writes what follows from that row and commits.  A handler does the same
in `RunNowEnds`, `BeginManual` and `ManualRecord`; it may run any check at any time.  Anything may come between these steps, the process's end too, but no second
transaction: `ConnectionFree` is the pool of one connection.  `Restart` gives
every variable but the tables and the clock its initial value.  The set `due` is no longer free: it is what the test of
`ListDue` says of rows and clock.

**Scanner.**  `scan` is the caller's position (`out`, `ranging` over the results, `consuming` one), `feeder` and `todo`
the feeding goroutine, `wpc` and `result` the workers.  A send on an unbuffered channel is one step of both
sides (`Feed`, `SendResult`).  `Done` is the derived context: cancelled by the caller's or by a failed callback.  Of
a probe the module keeps whether the address answered and whether the probe was cut short (`whole`).

**Discovery** adds `Start` statement by statement (claim, insert, read back, launch), the goroutine `run`, the
rows of jobs and devices, failure of each statement, cancellation and restarts.  The scanner's `ConsumeOk` and
`ConsumeFails` happen with `RecordProbe` and `RecordProbeFails`, the transaction that is its callback.

**DiscoveryJobs** forgets flag, handlers, goroutines and channels: a row is created while no job is worked on, goes from pending to running
to completed or failed, and while it says running each address of its target is recorded at most once; it says completed only when all were.
`Leave` may come at any time and leaves the row as it is, since a failing read of the new row, a failing status update and the process's end do: that is what
the run `orphan` is about.  `JobsPromise` in `Discovery` is this specification: `Working` is the row that the goroutine or the handler
holds, `Seen` what the scan has consumed while the row says running.

**LoginLimiter.**  `records` are the two maps, `checking` the logins that passed and verify their password;
the history variable `let` remembers which attempts were let through in each window, independently of the
records.  `Evictions` leaves open which of equally old keys go, as iteration over a Go map does.

**Inventory.**  A machine is its check and its target; a form of devices is a sequence that may repeat one and
may name another job's.  `ImportAll` applies `ImportOne` to one device of it after the other, as the loop in `ImportDevices` does.

**Accounts.**  A caller is a request or a command; it looks into the table, waits for a slot, hashes, gives
the slot back and writes in a transaction.  `past` remembers every audit event, `log` is the table.

**Sessions.**  `CreateSession`'s two statements are two actions; each operation takes the time before it
waits for the connection.  An instant has seconds and a two-digit fraction; `Text` drops trailing zeros as `time.RFC3339Nano`
does, and `Before` compares texts character by character, as SQLite compares the column.

**Migrations.**  The database is the sequence of its committed states; a state is whether the ledger exists, which scripts were executed, in which order, and what the
ledger names.  A transaction of `migrate` is four steps: `Look` reads (and takes the snapshot), `Apply` executes
the script, `Record` writes the ledger, `Commit` appends `pending` to the states.  `Apply` is the first that writes: it needs the
lock and a snapshot that is still the last state, and is `Busy` otherwise, which ends the process (SQLite does not wait for a
stale snapshot; it waits five seconds for a lock, which is left out).  `PowerLoss` takes any number of the last states away, as
`synchronous = NORMAL` in WAL mode allows.  `Update` installs
another binary, as scripts/update-ubuntu.sh does, which takes any commit of the main branch: a newer one at any time, an older one as one of the `MaxFaults`.
Processes that run stay at their version.

**Targets and Identity** are operators.  `ParseTarget` returns the addresses in the order in which they are scanned; `HintOf` is
what the page says beside a device.  **Survey** calls them: `Suggest` renders the page, `Start` submits any form, `RecordProbe`
records a device with the fingerprints that were taken, any of which may be missing because its handshake timed out.

## 3. The runs

| run | module | what it asks | bounds |
|---|---|---|---|
| `scheduler` | `MCScheduler` | one place per check, exact map, clean return, refinement of `CheckRuns`; every due check is run; `Run` returns | 1 worker, 4 checks, fair |
| `starvation` | `MCScheduler` | finding: a due check that is never run | 1 worker, 5 checks, fair, store never fails |
| `monitoring` | `MCMonitoring` | counters, status, order, no two early runs in a row | 2 workers, 1 handler, 1 check, 3 results, 1 restart, time 0–2 |
| `jobs` | `MCDiscovery` | no loss, no repetition, no half probe, success means all; one scan, counters, completion, finality, flag; refinement of `DiscoveryJobs` | 2 requests, 2 jobs, 3 addresses, 2 workers, 1 slot, 1 restart, fair |
| `orphan` | `MCDiscovery` | finding: a job shown as under way that nobody runs | as `jobs` |
| `limiter` | `MCLoginLimiter` | windows kept, refusals justified, recovery | 2 sources, 3 accounts, tables of 2 keys, time 0–5 |
| `inventory` | `MCInventory` | no twins, imports monitored and audited | 2 addresses, 2 jobs, 2 groups, forms of 2 devices |
| `sessions` | `MCSessions` | kept while valid, refused when asked too late, final logout | 2 requests, 3 tokens, time 0–9 |
| `expiry` | `MCSessions` | finding: an expired session that is resolved | as `sessions` |
| `accounts` | `MCAccounts` | one administrator, slots, audit log | 3 callers in 2 processes, 2 names, 3 events, fair |
| `migrations` | `MCMigrations` | exact ledger, schema of an open process, the service comes up | 3 processes, 2 versions, 5 commits, 2 faults, fair |
| `survey` | `MCSurvey` | scanned is named, suggestions accepted, devices merged just if their keys are the same, as far as captured, and for good | 64 addresses, networks of 8, 4 devices, 2 keys, 1 certificate |

### Why the bounds are enough

* `scheduler`: with one worker the channel has two slots and a poll lists four checks.  Four checks fill the
  worker, the channel and the blocked send at the same time, and are also as many as one poll lists; so every
  point at which `Run` can be cancelled occurs.  The store's query and transaction may fail at any time.  Operators record
  results of the same checks meanwhile.  Several workers are the business of `monitoring` and of the proofs, which are for any number.
* `starvation` has one check more.
* `monitoring`: one check, since rows of different checks are independent; three executions of it can meet (a
  worker's, an operator's, one of the process's last life).  Three results with thresholds of one and two, in any
  combination, include every change of status, a run that is broken before its threshold and one longer than it.
  Two ticks let an execution begin, wait for the connection and be stored at different times.  Three results are also what it
  takes to be early twice in a row, with the interval of one tick.  `MaxResults` keeps a fourth result from being taken (`HasRoom`).
* `jobs`: two requests race for the flag; the second job may follow the first, or the restart.  Three addresses for
  two workers make one worker come back while another is in any state, and with one slot a worker waits for another's; a target of one
  address starts one worker only, one of two leaves no rest.
* `limiter`: the accounts' window outlives two sweeps as five minutes outlive one; three accounts compete for a
  table of two; the limits are one and two, so that a key is below, at and past its limit.
* `inventory`: the devices have no known port or prefer 443, or fall back to 22 where a machine of an operator may be.
* `sessions`: a second has four instants, whose texts end in Z, .01Z, .1Z and .11Z; a session lasts five
  instants, so that it begins and expires at each of them; three tokens let one login purge another's row
  while a third is asked for.
* `accounts`: two requests compete for one slot while a command in another process creates an account too;
  of three events one is a failed login that a second one pushes out.
* `migrations`: the service and a command meet at one migration while a third process, of the older or the newer binary, holds
  the lock, has an older snapshot, or is open and writes.  Creating the ledger and two migrations take three of the five commits,
  two are left for open processes or for what a power loss took.  Two faults are one more than a retry needs, and enough to return to
  the older binary and be killed.
* `survey`: addresses of six bits have prefixes and ranges of all the lengths around the limit of eight (`/24` and 256
  in the code), at the start and end of the space, with multicast, local and sensitive parts.  Four devices are enough for
  two groups, of which a third device that comes in changes the numbers; keys that are subsets of one another show what a
  capture in part can confuse.

In `monitoring`, `limiter`, `inventory`, `sessions` and `expiry` the model values of one kind are interchangeable and the
properties are safety properties, so symmetry is used.  Where the system may stop for good, the module has an
explicit stuttering step for that state (`Finished`, `Idle`), so that every run checks for deadlock.

## 4. Fairness

Fairness is assumed for steps that the Go runtime or a timeout brings about, never for the environment (clock,
requests, cancellation, failures).

* Goroutines that can move are scheduled: weak fairness of `Dispatcher`, of each `Worker`, of the scanner's
  feeder and workers, of the discovery goroutine and of handlers inside `Start`.  A run of a check and a
  probe end because they have timeouts.
* `Close` (strong): Go's select picks at random among ready cases, so that the Done case of `Run` is not
  passed over for ever by a ticker that is always ready.
* `ListDue` (strong): a query that is tried again at every tick succeeds at some time.  Without it no check
  need ever be run, and that is the store's fault and not the scheduler's.
* Recording a result is *not* assumed to succeed: `DueIsRun` speaks of the run.
* `AcquireSlot` of a password (strong): the slots are a buffered channel, whose blocked senders are served
  in turn.  `HashEnds \/ HashFails` (weak): hashing is computation.
* A process that was started goes on opening the database (weak), and the service is started again after it has failed: its unit
  says `Restart=on-failure` (deploy/agentless-monitoring.service).  Commands need never be run.  `ServiceComesUp` is about
  the time when faults are over, which `MaxFaults` brings about; being `Busy` is no fault and may happen any number of times.

## 5. The proofs

The proof modules are about arbitrary constants: any finite set of checks, workers and addresses, any thresholds, any
number of handlers, requests, processes, restarts, faults and results.  They assume what the modules name and no more:
`ChecksAssumption`, `NoneAssumption`, `WorkersAssumption`, `ThresholdAssumption`, `BoundsAssumption`, `AddressesAssumption`,
`PoolAssumption`, `JobsAssumption`, `SessionsAssumption`, `AccountsAssumption`, `MigrationsAssumption`, `LimiterAssumption`,
`InventoryAssumption`, `TargetsAssumption`, `IdentityAssumption`, `NetworkAssumption`: sets that are finite, a pool that is
not empty, numbers that are natural, values that stand for "nothing" being no value of the data, and multicast and local
addresses being whole networks of the least prefix.

The prover has no induction over data.  Where a loop runs over a list (the limiter's over attempts, the import's over a form)
the model has it as a recursive function on the turns of the loop, and the proofs say what a turn does: if there were a list
for which the claim fails there would be a shortest one (`Least`, `EverySequence`), and that one less its last element refutes
itself (`GathersMore`, `RunsMore`).  Powers of two come the same way from the number of subsets (`PowerCounts`, `PowerDoubles`, `PowerSum`).

**MonitoringProofs, the scheduler.**  `OnePlace` and `InFlightExact` are not inductive alone.  A receive keeps a check in one place only
if the channel holds no check twice; acquiring a check that is not in the map puts it in one place only if the map is exact;
and the map stays exact when a send is given up only if the acquired check is in no other place.  That the channel is empty on return
needs to know that no worker leaves before it is closed and drained.  So the inductive invariant is

    IInv == TypeOK /\ ControlOK /\ OnePlace /\ InFlightExact

where `ControlOK` ties the dispatcher's position to the rest: a check is being sent exactly in `send`, the batch is
empty outside of dispatch, the channel is closed exactly in `drain` and `returned`, and a worker has exited only
with the channel closed and empty.  `Invariance` proves it; `TypeCorrect`, `NoDoubleRun`, `MapExact` and
`ReturnIsClean` follow.  `Refinement` proves that the scheduler implements `CheckRuns`: by `PhaseCases` the phase of a
check follows from the places it is in, every step moves at most one check from one place to the next
(`OnePhase`) or none (`SamePhases`), and `IInv` excludes that the check is seen in two.

**MonitoringProofs, the store.**  `StoreInvariance` shows that counters, status and the time of the last check agree with the history
after any sequence of results.  The heart of it is `VerdictAppend`: how the verdict on a history changes with one more result, in terms of
the run the history ends in (`RunGrows`, `RunBreaks`, `ReachedByRun`, `NotReachedByRun`).  Histories are unbounded here.

**MonitoringProofs, the whole.**  `MInv == IInv /\ StoreInv /\ OutcomesOK /\ OrderOK /\ TxOK /\ SpacedOK`.  The store's part carries over since every step
of the whole is one of the store's results or leaves it alone (`StepStore`, and with it `StoreRefinement`): by `TxOK` the row that
a transaction has read is still the check's row when it writes, since at most one has begun;
the scheduler's since it does not depend on what is due, nor on who records (`DueIsFree`, `RestartIInv`).  `ScheduledOrder`,
that scheduled results are stored in the order of their timestamps across overlaps and restarts, needs both:
`OrderOK` says that a timestamp a worker holds is not older than any scheduled result of its check, and
that is preserved because `OnePlace` gives the check to no second worker.

`EarlyOnlyOnce` needs it too.  `SpacedOK` says how much room a check's history has left: a check that is in the list or on its way to a
result may be stored once more (`Spaced`: its last but one scheduled result is an interval old), and one that is both may be twice (`Rested`: its last
one is).  A check that is due has `Rested` (`DueIsRested`, by the order of the results); it gets on its way only from the list and leaves that
with it (`NextMoves`, from the refinement of `CheckRuns`); a result uses up one of the two (`StoredSpaced`); time only makes room
(`SpacedLater`), and a restart leaves neither list nor anything on its way.

**DiscoveryProofs.**  The pipeline is right because an address is in one place at a time.  `Apart` says so pairwise
(two workers, worker and feeder, worker and hand, and so on), `NoneMissing` that before a cancellation every address of the target is
in one; `ControlOK` is what makes the end right: while the context is not done the feeder closes the channel only with nothing left and some worker is alive until then, so that
`Return` finds everything consumed, and a result that is not whole exists only under a done context, whose transaction
fails (`ConsumeOkKeeps`).  `ScanInv` is preserved by every step of the scanner; with the service and the store around it the invariant is

    IInv == ScanInv /\ TypeOK /\ Exclusive /\ RowsOK /\ HandlersOK /\ CurrentOK

`Exclusive` says holder by holder who has the flag.  `RowsOK` is `CountersExact` and `CompletedIsComplete` for the rows alone, which
survive a restart; `CurrentOK` ties the row of the running job to the scan (`ScannedOK`: it has counted what was consumed, its devices are among
that), so that with `OkMeansAll` the job that is completed has counted its total.  `HandlersOK` says that the row a
handler reads back is fresh, since `FinishedFinal` needs that no row is launched twice.

`Refinement` proves that service, scanner and store implement `DiscoveryJobs`.  Most steps are none of the abstract specification (`Unseen`); a row
is only inserted while no other is worked on, by `Exclusive` (`HandlerWorks`); a result recorded is of an address of the target that was
not recorded before, by `Apart` and `NoneMissing` (`HandIsNew`); and `Complete` comes with all of them, by `OkMeansAll`.

**SessionsProofs.**  The chain is from numbers to texts: an instant a second later is in a later second (`LaterSecond`), a text begins with its second
(`TextBegins`), so the comparison errs by less than a second (`BeforeErrs`), from which `ValidIsKept` and `LateRefused` follow.  They
need that nobody's time is ahead of the clock and that a token is created by one request only (`ClientsOK`).  `LogoutFinal` holds because the
row of a token that was logged out is gone and nobody inserts it again.

**AccountsProofs.**  Type correctness includes that the slots taken of a process are exactly its callers that hash, through error paths and ends of processes
(`SlotTaken`, `SlotGivenBack`).  `AdministratorUnique` holds because the table is looked at within the transaction that inserts.
`AuditKept` says what the log is by counting, and counts are no invariant one can prove step by step.  `LogOK` says it with places instead: some
function takes every event of the log to its place in the history of all events, in order, and whatever has no place in the log is a failed login older
than the `MaxFailures` of the log (`Places`).  A new event extends that function (`PlacesAppend`), a pruned one is taken out of it
(`PlacesPruned`), and the counts follow, as there is only one such function (`PlacesApart`, `NewestKept`, `KeptAudit`).

**MigrationsProofs.**  `PlaceOK` says of each process how far it has come, what its transaction has read, and what it would commit.  The
heart is that the one who writes is at the migration that follows the executed ones (`WriterIsNext`): it has
missed it in a snapshot that is still the last state.  So `LedgerExact` holds of what it commits, and of every prefix a power loss leaves.

**LoginLimiterProofs.**  `WindowLimit` is about what was let through (`let`, a history), the limiter only has its records.  `Remembered` ties
them: of every key the history in its window is what `Recent` would find now.  It survives the clock since to look twice is to look later (`AfterTwice`), the
sweep since a key that is removed was last seen before its window (`AfterAll`, `Sweeping`; `TableOK` says that no attempt is later than `lastSeen`), and
a full table since it turns a new key away without a record.  `SweptLately` bounds what a sweep leaves, whence `TablesRecover`.
Evicting has nothing to do (`NothingToEvict`), because `allowAttempt` never lets a table outgrow its bound.

**InventoryProofs.**  `TablesOK` is about the tables as they are within the import's transaction: no twins; every imported device has a
machine with its check, in a group; and of every machine there are as many audit events as devices (`AuditsOK`).
It holds after every turn of the loop (`ImportOneKeeps`, `TurnKeeps`), so after the form (`ImportAllKeeps`), whatever the form repeats.
The device's turn adds exactly one owner and one event to one machine (`AuditedOnce`, `OthersUnaudited`), since its row
named no machine before; a machine that is not there yet has neither (`NothingBeyond`).

**SurveyProofs.**  The state hardly matters here: `IInv` says that a job has the target of its form and a device some of its own keys.  What is proved is what the
operators compute, for addresses of any width.  A network is an interval between multiples of its size (`NetworkExtent`), sizes
nest (`SizesNest`, `Coarser`), so `ParseTarget` is always a walk from a first to a last address, which is what
the form names (`HostsAreWalked`, `NamedByPrefix`, `TargetsExact`).  No forbidden address is between two permitted ones because multicast
is made of networks as large as a target may be (`NoneBetween`), nor in a network whose first address is permitted (`Alike`).
Of identities: groups are classes of equal sets of captured keys (`GroupsAreKin`), and groups with equal numbers are the same
(`NumbersDiffer`, since the groups up to one in the order of first devices are properly contained in those up to a later one), so two
devices get the same hint just if they are of one class (`MergedIs`).  What was captured of two devices is what they have
only if all of it was: so `KeySetsTell` has an equivalence for whole captures, and a key in common for partial ones.

**Only model-checked**: liveness (`DueIsRun`, `ShutdownCompletes`, `FlagIsReset`, `SlotIsGiven`, `ServiceComesUp`), since
fairness and ENABLED are out of the prover's reach.  Every invariant and every action property of the passing runs is proved, and
so are the refinements of `CheckRuns` and `DiscoveryJobs`.

## 6. Where code and documentation disagree

* **Starvation** (`starvation`).  docs/poc.md says that the scheduler runs a check when it becomes due.  `ListDue` returns
  at most four checks per worker, always in the order of the machines' names, so that with enough checks due again by the
  time they have been run, a later one stays due and is never run.  It takes more checks than workers can run in
  their intervals; `DueIsRun` holds (`scheduler`) as long as all due checks fit in one poll.
* **Orphaned jobs** (`orphan`).  docs/poc.md says that a job runs in the background while its page refreshes.  A
  job whose row is committed but cannot be read back, or whose process ends, is run by nobody, and its page goes on
  showing it as pending or running.  Nothing at start-up looks for such rows.
* **Late sessions** (`expiry`).  A comment promises an unexpired session.  Times are compared as RFC3339Nano texts without
  trailing zeros, so that for part of a second an expired session is still resolved.  `LateIsRefused` shows that a request which asks
  a whole second late is refused, `KeptWhileValid` that a session is not lost earlier than a second before its expiry.  The comparison is not all: the
  time is taken before the query waits for the database's only connection, so that a request which asked in time is admitted
  however late it gets the connection.  Nothing in the code bounds that wait, and no property here does.

Three more that no run is spent on, as they are about a sentence each:

* docs/poc.md:73 says that comparing the full available set of keys avoids grouping distinct hosts that happen to share one cloned key.
  `KeySetsTellApart` shows that where all keys were captured.  But the handshakes for the three kinds of keys may fail one by
  one (identity.go:64), and the keys that are left count as the whole set: an address with a cloned and an own key, of which only the
  cloned one was captured, is shown as the "likely same VM" as another that has just the cloned key.  That is what `KeySetsTellApart` leaves
  open where captures are partial; it then says only that without a key in common no two are grouped.

* docs/poc.md:73 promises that differing SSH identities behind one certificate are reported.  They are not if any device of the group has no SSH
  fingerprint (`DifferentKeys`; identity.go:278), or is shown in an SSH group of its own.
* The page may suggest 169.254.169.0/24 to a server with such an address, and `Start` then refuses it, since the network contains a
  sensitive address: `SuggestionsAccepted` is stated for a server that allows those.

## 7. What is not modelled

* Network I/O of runner, scanner and identity probes: an outcome is chosen freely, after any time.
* SQL as such: a transaction is a single step, but for `recordResult`'s and those of `migrate`, which read in one step and write in a
  later one.  The database has one connection per process, and a transaction
  of another process that interferes makes one of them fail, which every model has as an action.  Constraints that the statements rely on are
  part of the steps.
* The figures that `Stats` shows of the scheduler (results recorded, last error): nothing reads them but a page.
* Text: addresses are values, although one IPv4 address may also be written as a mapped IPv6 one; names, messages, details of audit
  events, response times.
* Malformed texts: of a form's text `Targets` keeps what it parses to.  IPv6 is refused as a whole.
* Configuration, routing, form tokens, cookies and pages (`web_support.go`): functions of one request's or one start's data, without state.
* Password hashing itself: a verdict.  Handshakes of SSH and TLS: what they capture is chosen freely.
* `classification.go`: a table from ports to a word on a page.
* The wait of up to five seconds for SQLite's write lock, and the scripts of the migrations: a script is one step that either was executed or was not.
* Installation scripts and CI: not part of the running program; of the updater only that it replaces the binary, by a newer or an older one, and restarts the service.

## 8. The plan

The order was: scheduler with its abstract specification, store, both together, since they are what the system is for;
then scanner and jobs, the other concurrent part; then limiter, inventory, accounts and sessions, each by itself.

Then came what several processes do to one file (migrations), the pure parts with an operator around them
(targets, identity, survey), and the proofs about scanner, jobs, sessions, accounts and migrations.

The limiter, the inventory, the audit log and the survey were proved last; for that the loops over lists became functions of the turn instead of folds.
`DiscoveryJobs` came with them, as an abstract specification that also the interrupted jobs follow.

What is left:

1. Abstract specifications of the limiter (a window per key) and of the inventory (a set of monitored addresses), whose
   promises are now single properties of `LoginLimiter` and `Inventory`.

## 9. Running it

From this directory, with `tlc` and `tlapm` on the path:

    tlc -config MCScheduler_scheduler.cfg MCScheduler.tla
    tlapm MonitoringProofs.tla

`PROJECT.json` lists every run with its configuration and what TLC has to say about it (`pass` or `violation`), and every mutant
with the property it breaks.  Each run takes at most a few minutes on two cores.
