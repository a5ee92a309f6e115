# Wise Route Manager: TLA+ models and proofs

The Wise Unraid Route Manager changes three kinds of systems for one hostname:
a DNS server (Technitium, AdGuard Home or Pi-hole), the Caddy instance in its
own container, and a remote Pangolin edge. It promises to do so as one
compensating transaction, after an explicit approval, and to persist only what
took effect. This directory holds TLA+ models of that core, the TLC
configurations that check them, and TLAPS proofs about them.

## Inventory of the system

| Part | State it keeps | Operations | Works with |
|---|---|---|---|
| Plan approval (`app/planner.py`, `CertificatePlanStore` in `app/certificate_sync.py`) | plans in memory: id, token, expiry | `create`, `consume` | previews and applies of `app/server.py` |
| Transaction executor (`app/transaction.py`) | the completed steps of one run | `run` | the step callbacks of the managers |
| Apply endpoint (`app/server.py`, `app/route_apply.py`) | per request: loaded routes, plan, rollback states | `POST /api/v1/apply`, `apply_route` | all managers, the store, the plans |
| DNS record manager (`app/dns_manager.py`) | the snapshot inside a rollback state | `apply`, `rollback`, `_restore` | the DNS server, by HTTP |
| Caddy manager (`app/caddy_manager.py`, `app/providers/caddy.py`) | `caddy/config.json`, the running Caddy | `build_config`, `apply`, `rollback` | subprocesses `caddy validate`, `caddy reload` |
| Pangolin manager (`app/pangolin_manager.py`, `app/providers/pangolin.py`) | ids and snapshots inside a rollback state | `apply`, `rollback` | the Pangolin API, by HTTP |
| Route and audit store (`app/storage.py`) | `routes.json`, backups, `audit.jsonl` | load with recovery, save, audit | every endpoint |
| Route validation (`app/models.py`) | none | `RouteSpec.from_dict` | previews, `apply_route` |
| Secret store (`app/secrets_store.py`) | encrypted integrations | `put`, `get`, `delete` | settings, applies, renewal |
| Certificate synchronization (`app/certificate_sync.py`, `app/server.py`) | `tls.crt`, `tls.key`, settings, approvals | preview, apply, renewal loop, `install` | Caddy, the agent, the secret store |
| Certificate agent (`app/vps_cert_agent.py`) | request times per client | `do_GET`, `RateLimiter.allow`, `extract_bundle` | certificate synchronization |
| Auditor and inventory (`app/auditor.py`, `app/inventory.py`, `app/dns_discovery.py`) | none | `audit_route`, `correlate_routes` | `audits/all`, `inventory`; the routes and every provider |
| Bootstrap (`container/entrypoint.sh`) | none | start of Caddy and of the application | the files above |
| Discovery, health, user interface, Unraid plugin, packaging | none, or files of other systems | input and output | |

Requests run in threads of `ThreadingHTTPServer`, the renewal loop in one of
its own; the processes share files, locks protect single operations.

What is hard here, and what correctness means for each part:

- **executor**: steps and rollbacks fail independently, and a call that raises
  may have taken effect. Every completed step must be undone once, in reverse
  order, and the status must tell the truth.
- **apply endpoint**: requests interleave between loading the routes and saving
  them; each has a Caddy manager with a lock of its own; the container may stop
  anywhere. Only routes that were applied may be saved, none may be lost, and
  providers must agree with the saved routes.
- **managers**: snapshots grow stale while they are kept; calls time out after
  they took effect; self-compensation fails. A rollback must restore what the
  request found.
- **plan approval**: token and expiry are looked at outside the lock. An
  approval must be single-use and in time, and not be taken away for nothing.
- **store**: recovery from a corrupt file moves the file away without the lock.
- **certificates**: certificate and key are two files; approvals and settings
  are read and written in separate critical sections; one error can end the
  renewal loop.
- **agent**: the rate limiter samples the clock before it takes its lock, so its
  deques are not in the order of their time stamps. The budget must hold in the
  window that ends now, and nobody may be refused who did not use it up.
- **auditor and inventory**: they look at the providers one after another while
  applies change them. A route that nobody edits must not be blamed for what is
  going on at another hostname.

The hazards are listed in `PROJECT.json`, each at its line, with the properties
that watch it, or with a note that says why none does.

## Modules

| Module | What it is |
|---|---|
| `AtomicTransaction` | the promise to a caller of the executor: one step to applied, rolled back, or reported as not fully rolled back |
| `Transaction` | `TransactionExecutor.run`, step by step, for any number of steps |
| `TransactionProofs` | theorems about `Transaction`, and that it implements `AtomicTransaction` |
| `PlanStore` | `create` and `consume` of both plan stores, with concurrent requests, a clock and restarts |
| `PlanStoreProofs` | theorems about `PlanStore` |
| `RouteApply` | `POST /api/v1/apply` for any number of concurrent requests: handler, executor, DNS, Caddy, Pangolin, audit, save, crash |
| `RouteTransactions` | `RouteApply` composed with one instance of `Transaction` per request |
| `RouteApplyProofs` | theorems about `RouteApply`, for any number of requests at once, and that each of its threads implements `Transaction` |
| `RouteApplySoloProofs` | theorems about `RouteApply` and `RouteAudit` with one request in progress at a time, or one for each hostname |
| `RouteAudit` | the audits and the inventory as operators over the state of `RouteApply` |
| `PangolinManager` | `PangolinResourceManager`, call by call, with overlapping applies |
| `PangolinManagerProofs` | theorems about `PangolinManager` |
| `CertificateAgent` | `do_GET` and `RateLimiter` of the agent on the VPS, statement by statement |
| `CertificateAgentProofs` | theorems about `CertificateAgent` |
| `CertificateSync` | certificate settings, preview, approval, the two-file installation, the renewal loop, the start of the container |
| `CertificateSyncProofs` | theorems about `CertificateSync` |
| `JsonStore` | the route table on disk: load, recovery, save, audit, with damage, failing writes and restarts |
| `JsonStoreProofs` | theorems about `JsonStore` |
| `MCTransaction`, `MCPlanStore`, `MCRouteApply`, `MCPangolinManager`, `MCCertificateSync`, `MCCertificateAgent`, `MCJsonStore` | small instances for TLC; `MCRouteApply` joins `RouteTransactions` and `RouteAudit` |

### Transaction and AtomicTransaction

`status`, `done`, `todo` and `rollback` are the position of `run()`: which loop
it is in, how many steps it appended to `completed`, how many it still has to
undo, and the `rollback_status` of each. `effect` is ghost state: whether the
provider carries the change. A rollback that raises may have had its effect or
not; an apply that raises may have had it for the steps in `Unclean`. Under the
refinement mapping nothing is visible before `run()` returns.

### PlanStore

A request takes a plan out of the store in one step (`_plans.pop` under the
lock) and is approved or refused in a later one; the clock ticks in between.
Plan ids and tokens are never guessed: a request presents an issued id or one
that was never handed out, with the right token or a wrong one. Creation is one
step, because a plan's id is unknown before `create` has returned. A restart
empties the store and ends the requests in between. The certificate store has
the same behaviour with a fixed lifetime, so one module stands for both.

### RouteApply

`routes` and `audited` are `routes.json` and the results in `audit.jsonl`; `dns`,
`caddyFile`, `caddyRunning`, `resource` and `target` are the providers. A route
is named by the request whose plan holds it, a proxy configuration is the set of
routes it proxies, a Pangolin resource is named by the request that created it;
`resource` says whose settings it has, `target` whose upstream it leads to. `pc`,
`mem` and the executor variables are the thread of each request. Each plan is
consumed before its request starts (`PlanStore`'s `SingleUse` is why a request
has a plan of its own).

The atomic steps are single provider calls and file replacements, except that
`DnsUndo` (the deletes and adds of one `_restore`) and `PangolinPublish` (the
calls of one Pangolin apply) are one step each. A restore that fails leaves any
prefix of its deletes and adds made (`DnsUndoFails`). `PangolinManager` is the
Pangolin step call by call; here a publish that breaks leaves what its calls had
done so far (`PangolinBreaksNew`, `PangolinBreaksAdopted`, `PangolinBreaksGone`),
and `apply` then runs its own rollback (`PangolinRestore`). The deletes of a restore take away what the request added; its adds are
needed only when two routes with one hostname and one address are in progress,
and the one that added the answer takes it back before the other, which found it
there, is rolled back. No passing run contains that: only one route of `threads`
has a DNS step, and `sequential` has one request in progress. `Fault` is a call that raises;
with `HiddenFaults` it may have taken effect.

Two managers take back their own changes when their `apply` raises: Caddy's writes
the remembered file back, Pangolin's runs `rollback` inside its `except` clause.
Either may raise again, by a plain fault. To the executor that is the error of a
step that never completed; it does not undo it, and reports `rolled_back` when the
earlier steps can be undone, although the candidate is still in `config.json` or
the resource is still changed or switched off (`CaddyRestoreFails`,
`PangolinRestoreFails`). `unclean` is history and remembers these requests. The
properties promise nothing of what such a step left, and everything else: of its
own hostname for Pangolin, of the file for Caddy until the next apply rebuilds it.

`Crash` stops the container:
threads and their rollback states are gone, and Caddy starts again from its
file, as `container/entrypoint.sh` does. `replace_conflicts` is always false,
as no caller passes it. `ProviderMutations` is a switch of the container; it is
given per request, so that a run can have requests handled before and after a
restart with another setting. That restart changes nothing else that the runs
with it look at, because the file and the running Caddy agree between requests
in them. An executor step appears as an action only through the
provider calls it consists of; `RunsTransactions` says that each thread is
then an execution of `Transaction`.

### RouteAudit

An audit makes one look at each provider, and every finding rests on one look
and on the saved route; so the audit of a moment is an operator of the state,
and a property of all reachable states speaks of the looks of any moments, one
finding at a time. `Surroundings` are what lies outside the state: integrations
that are deleted or cannot be reached, the probe of the upstream, the container,
the health of the Pangolin target. `Settled` routes are saved, applied, enabled,
edited by nobody, neither now nor when the server stopped, without a step for
their hostname that could not take back what it had done, while no compensation
has failed. Such a route can still have a disabled Pangolin
resource beside it, which calls for attention in the inventory: no plan deletes
a resource, so the one of an earlier, disabled route stays when its hostname
moves to mode `lan`.

Reading the code for this module showed, and the model keeps: the audit does not
look at `enabled` of the saved route, it reads `config.json` and not the running
Caddy, and an `IntegrationError` of the DNS observation is not caught per finding
and costs the whole report. Worse, the login to Pi-hole raises a `URLError`
(`dns_discovery.py:75`), which `audits/all` does not catch either
(`server.py:272`): it answers 500 and reports on no route at all. `Findings` is
then empty, and the property names this as the only reason. `unmanaged_report` has no caller, although
`README.md:58-59` names the class "unmanaged", and `correlate_routes` never
reaches its class "partial", because every hostname has an entry of some role.

### PangolinManager

`settings` and `targets` are the edge: what each resource is set to and on which
resource each target is, for whose route. Resources and targets are named by the
request that created them, or belong to others from the start. `mem` is the
rollback state, `pc` the next call. A call raises without effect, with it
(`HiddenFaults`), or because what it names is gone; then `apply` runs `rollback`
on what it has recorded so far, and `rollback` stops at its own first error.
`UndoApplied` is the rollback that the executor asks for later. `alone`, `found`
and `clean` are history: they say for which applies the two action properties
promise anything.

### CertificateAgent

`events` holds the deque of each client, as the requests recorded in it, whose
time stamps are their `moment`s. `Sample` takes the time before `Acquire` takes
the lock; the loop that drops old entries is one `Pop` per turn. A request with a
wrong token uses budget, a path outside the API does not. What `extract_bundle`
finds is a choice, as Traefik owns its storage; a bundle that `validate_bundle`
refuses ends the connection without an answer. `Restart` empties the budgets.

### CertificateSync

`settings` is the integration `certificate-primary`; its `source` stands for
endpoint and expected name, `Dns01` for the strategy `independent_dns01`, `None`
for no settings yet. A bundle is a certificate with its key, named by source and by a
version that orders the expiration dates; `crt` and `key` say which bundle each
file was taken from, `caddy` which one the running Caddy serves, `config` whether
`caddy/config.json` is what it runs. A dialog is one
preview and the apply that consumes its plan (`PlanStore`). The two reads and
the two writes of the settings are separate steps, as the secret store is locked
for each alone. `install()` is one step per file and per Caddy call; its two
reads of the old files are one step, and so are the validation and the reload of
the restored files. Provider mutations are enabled; without them nothing is
installed.

Caddy is external: `Accepted` says that it takes a certificate only with its own
key. `caddy reload` is called without `--force` (`certificate_sync.py:96`), and
Caddy answers a configuration equal to the one it runs with success and without
loading it. An installation does not touch `config.json`. So `Reloaded` leaves
`caddy` as it was, unless a route apply has replaced `config.json` meanwhile
(`WriteConfig`, `LoadConfig`): an installation is reported, and Caddy goes on
serving the certificate it loaded before, until the configuration changes or the
container restarts. The same holds of the files that a failed installation
restores. `README.md:42-44` of the repository speaks of "Caddy validation and
reload"; no run claims that the installed certificate is served, since it is
not. What the runs do claim is about the files (`OnePairInstalled`): the next
load finds one pair that Caddy accepts.

`Crash` follows
`entrypoint.sh`: Caddy is started when both files are there, a pair that it
rejects ends the container, and a missing file, which only the Lite edition can
have, leaves Caddy out. Without a running Caddy no reload succeeds, so an
installation then removes its files again. `MaxInstalls` counts the installations
in progress: with 1 the run shows what `install()` promises, with 2 what the lock
of each installer does not exclude.

An approval is stored in the settings, not with the source it was given for:
settings that change between preview and apply are marked approved by the apply,
also those of `independent_dns01`, and settings saved between its read and its
write are lost (`MarkRead`, `MarkPut`). A mark on settings without an endpoint
outlives edits that stay without one, and ends with the first that names one.
`InactiveUntilApproved` therefore speaks of some approved synchronization.

### JsonStore

`file`, `backups` and `quarantined` are the files of the configuration
directory; backups are in the order of their names, which are the time stamps
taken under the lock. A table is named by the writers whose route is in it; each
writer loads, adds its route, and saves, which is what `POST /api/v1/apply` does
around the providers. `Damage` makes the file unreadable from outside. `saved` and
`damaged` are history. A temporary file that a restart leaves behind is never
read and is left out.

Definitions marked *Slip* are mutated forms of the operator or action that
follows them. Each property of a passing run is violated when the slip named in
`PROJECT.json` takes the place of its original.

## Runs

| Run | Instance | Shows |
|---|---|---|
| `transaction` | four steps, of which two may fail uncleanly | the executor returns, compensates in reverse, tells the truth, and implements `AtomicTransaction` |
| `plan_store` | two plans, three requests, lifetime 1, three ticks, one restart | approvals are single-use, in time, from this process, and refused only for a reason |
| `sequential` | five edits of two hostnames, one in progress at a time, the last with provider mutations off, two faults without effect or crashes | a rollback restores what the request found, what was rolled back does not come back later, a saved route is live, stays saved, audits healthy and is listed as what it is; a save touches one hostname |
| `threads` | three plans for one hostname, two in progress, two faults or crashes, hidden effects | only applied and audited routes are saved, every request is answered, every thread runs a transaction |
| `lost_route` | two hostnames, two in progress, no fault | **violated** `AppliedIsKept`: the later save drops the earlier route |
| `mode_change` | one at a time, no fault | **violated** `CaddyFollowsDesired`: an edit to mode `remote` leaves the proxy route |
| `one_installer` | two dialogs, one editor with two edits, the renewal loop, two versions of one certificate, two faults or restarts, changes of `config.json`, one installation at a time | certificate and key stay one pair, which Caddy has wherever it runs, renewal waits for an approval, only advances, and gets there |
| `mixed_pair` | the same, two installations at a time, no fault | **violated** `OnePairInstalled`: a certificate is left with another one's key |
| `json_store` | two writers, two readers, two damages, two failing writes or restarts | copies are made before a replacement, loads answer valid tables, every call ends |
| `recovery_erases` | two writers, one reader, one damage, no fault | **violated** `NothingIsErased`: a recovery overwrites a table saved meanwhile |
| `pangolin` | four applies for a published, an unpublished and an ambiguous hostname, two in progress, two faults or crashes, hidden effects | what others own survives, nothing is orphaned, an apply that is alone publishes its route or leaves the edge as it was |
| `agent` | four requests of two clients, budget two in a window of two ticks, three ticks, restarts | the budget holds in the window that ends at any moment, and nobody is refused who did not use it up |

The violated properties are statements of the repository's documents or tests;
`PROJECT.json` quotes them under `findings`.

**Bounds.** `MaxInFlight` and `MaxFaults` bound the requests in progress and the
calls that fail; `MaxClock` and `MaxLives` bound ticks and restarts. Two requests
in progress are enough for every race between a load, a remembered snapshot and
a save, since each involves one reader and one writer; the third plan of
`threads` lets a later request meet what two earlier ones left behind: the first
and the third are for mode `remote`, so that two requests that found no resource
can both have created one. Two faults reach a failed step whose compensation
fails, or that cannot take back what it did itself, and in `sequential` failures and crashes in successive transactions. The
edits of `sequential` take one hostname through all three modes, to another
address, and to a resource that is off, beside a second hostname, and save over
a live route what was never applied. One transaction has at most three steps;
`transaction` checks four.
In `one_installer` the second dialog meets the certificate and the settings that
the first one or the renewal left; two versions are what "later" needs, and two
faults reach a failed installation whose restoring fails. In `json_store` two
damages make a recovery meet a recovery. `mixed_pair` and `recovery_erases`
raise one bound of these runs and drop the faults. In `pangolin` the applies meet
a resource with targets for two sites, of which one is theirs, a hostname where
one of them adopts what another just created, for the same and for another site,
and two resources that claim one hostname; two faults reach a rollback that fails.
In `agent` two requests fill the budget, a third is refused or waits for the lock
until entries leave the window, and three ticks let a window pass and another
begin; the two requests that ask the same are symmetric.
Deadlock checking is off in every configuration because the models end: when
all requests are answered, nothing is left to do.

**Fairness.** `Transaction` assumes that `run()` goes on, `RouteApply` that each
thread does (`WF_vars(Thread(r))`). Threads are scheduled by the operating
system, and every call they wait for has a timeout: HTTP calls in
`app/providers/http.py`, and 15 seconds for both Caddy subprocesses. No fairness
is assumed of the arrival of requests, of faults, or of crashes. `CertificateSync`
assumes the same of the renewal loop, whose sleep ends, and of the handlers, but
not of operators or of the VPS; `JsonStore` of every thread, and weak fairness is
enough for its lock because the threads are finitely many. `PlanStore`,
`PangolinManager` and `CertificateAgent` state safety only and assume none.

## Theorems

TLC checks small instances; TLAPS proves the following for every value of the
constants that the modules' assumptions admit. These only say what types the
constants have, that `Nobody`, `None` and the names of threads are none of the
other values, that the requests of `CertificateAgent` and the dialogs and editors
of `CertificateSync` are finitely many; TLC evaluates them in every run.

- `TransactionProofs`: `TypeCorrect`, `AppliedCompleteness`, `RollbackCleanness`,
  `CompensationCompleteness`, `CompensationOrder`, `Refinement`. The inductive
  invariant `IInv` relates each step's `effect` and `rollback` to its place
  before, between, or after `todo` and `done`; the properties speak of returned
  transactions only and are not inductive without it.
- `PlanStoreProofs`: `TypeCorrect`, `ApprovedOnce`, `WrongTokenUsesUp`,
  `NoApprovalLost`, `ApprovalFreshness`. The invariant is the ownership of
  plans: an issued plan is in the store, or with exactly one request, or of an
  earlier process.
- `RouteApplyProofs`: `TypeCorrect`, `SaveCorrectness`, `ProxyCorrectness`,
  `TransactionRefinement`.
  `Control` says what a thread's executor and locals hold at each position
  (without it the rollback of a step could use a snapshot that was never
  taken). `SavedInv` extends `SavedOnlyAfterApplied` to the tables that threads
  hold in memory, `ProxyInv` extends `OneProxyRoutePerHost` to the files they
  remember, because saves and restores write these back. `OneProxyRoutePerHost`
  has no run: it is stated with its theorem, for any number of requests. For the refinement,
  `RecordInv` says which rollbacks can be on record; `ExecutorStep` sorts the
  steps of a thread by what they do to its executor, and each sort is an action
  of `Transaction` or a stutter. So what `TransactionProofs` shows of the
  executor holds of every request, next to any others.
- `RouteApplySoloProofs`: `KeptCorrectness`, `SaveScope`, `RollbackRestoration`,
  `LiveCorrectness`, `AuditCorrectness` and `InventoryCorrectness` assume
  `MaxInFlight = 1`, which the code does not enforce
  (`lost_route` shows what happens otherwise): they say that handler and managers
  do their part when requests do not overlap. `KeepInv` adds that the table in
  the memory of the one thread is the table on disk until it saves. For
  `RollbackRestoration` and the three after it, calls that raise must have had
  no effect (`~ HiddenFaults`), and what a failing step could not take back itself
  (`unclean`) is excepted; `SoloInv` says for each position which of the thread's steps
  still show in DNS, Caddy and Pangolin, relative to what the request found, and
  that file and running Caddy agree outside a Caddy step as long as no
  compensation failed. Crashes are included. So they are in
  `LiveCorrectness`, where a container that stops in the middle of an apply
  leaves its hostname half changed and nothing repairs it (`Undisturbed`), as does
  a step that cannot take back its change, but every other saved route in effect. Its invariant `LiveInv` speaks of
  every saved route while another request is at work: `Works` is what that
  request's applied steps left in the providers, `Spares` that each provider
  still has the saved route or that the request has, in its memory, what
  brings it back; at its end, an applied request has its own route in effect,
  and one that was rolled back has put back all others (`Released`). `Placed`
  is that a hostname has one resource, with settings and a target of that
  hostname's routes.
  `AuditCorrectness` follows from the same invariant at any moment: a settled
  route is in effect, so each provider shows its one entry (`Shown`), and
  `FindingsBlame` goes through the findings. `InventoryCorrectness` needs
  `SingleInv`, that no step gives a hostname a second DNS answer; it assumes that
  no hostname starts with two, which the program neither checks nor repairs for
  a route of mode `remote`.
- `RouteApplySoloProofs` again: `ResourceUniqueness` and `HostIsolation` allow
  any number of requests in progress, but no two for one hostname (`Apart`, a
  condition on the behavior, not on the constants). Then a hostname has one
  Pangolin resource at most, whatever is lost or crashes: `EdgeInv` says that the
  answer of the lookup still holds when the resource is created. And without
  hidden effects a rollback restores its hostname on DNS and Pangolin, again but
  for what its failing step could not take back (`OwnHostRestored`), by what `SoloInv` says of these two providers and
  because a step shows there at its own hostname only (`OwnHostOnly`). What
  overlapping requests for different hostnames do harm is what they share: the
  route table and Caddy's file. These two theorems have no run: the passing runs
  have one request in progress, or let applies for one hostname overlap.
- `PangolinManagerProofs`: `TypeCorrect`, `UntouchedCorrectness` and
  `OrphanCorrectness` for any number of overlapping applies, from `IInv`: a
  rollback state names what its apply changed and holds a previous value exactly
  if others created it (`Remembered`, `Owned`), so that no rollback deletes what
  is not its own. `RollbackCorrectness` and `ApplyCorrectness`
  speak of applies that nobody overlapped; `Solo` says for each call how the
  edge differs from what the apply found, and `Grounded` that targets are on
  resources that exist, which the deletion of a resource relies on.
- `CertificateAgentProofs`: `TypeCorrect`, `BudgetCorrectness`,
  `RefusalCorrectness`, for any limit, window and number of requests. A deque need
  not be in the order of its time stamps; it is in the order of entry, and no
  time stamp is later than the entry (`Recorded`, `Times`). So what a thread
  drops is out of every window that is still open, whatever is behind it
  (`Kept`), and what it leaves at the head vouches for a refusal.
- `JsonStoreProofs`: `TypeCorrect`, `CopyCorrectness`, `LoadCorrectness`. A load
  answers a saved table because all that is ever valid on disk was saved: the
  file, each backup, and what a thread that recovers has taken from a backup.
  `TypeCorrect` includes that the lock is held exactly by the thread whose
  position is in a critical section.
- `CertificateSyncProofs`: `TypeCorrect` and `ApprovalFirst` for any number of
  installations at once. `ApprovalInv` follows the approval through every place
  that can hold one: the stored settings, the settings a thread read and will
  put back, and an apply that is about to mark them. `PairCorrectness` and
  `RenewalCorrectness` assume `MaxInstalls = 1`, which the code does not enforce
  (`mixed_pair` shows what happens otherwise): they say that `install()` and
  `renewal_comparison` do their part when installations do not overlap.
  `PairInv` says for each call of `install()` what the locals and both files are
  then, that Caddy runs if and only if there was a pair to start with, and that
  the loop's comparison still holds when it writes.

Every invariant and action property of a passing run is a theorem, except
`RolledBackIsGone`, which is only model-checked: it relates transactions that are
long over to what later ones found, and its invariant would have to follow every
snapshot and every resource through all of them. Only
model-checked: `Returns`, `EveryRequestAnswered`, `EveryCallEnds` and
`RenewsAtLast`, which are liveness under fairness and out of the prover's reach.

## Plan

1. Done: executor, plan approval, concurrent applies, with proofs.
2. Done: `JsonStore`, load, recovery, backup, save and audit, with proofs.
3. Done: `CertificateSync`, settings, preview, apply, renewal loop and the
   two-file installation; liveness of the renewal loop, with proofs.
4. Done: `PangolinManager` call by call, `CertificateAgent`, `RouteAudit`; the
   promises of applies that do not overlap, with proofs.
5. Done: proofs that every thread of `RouteApply` implements `Transaction`, of
   saved routes, audits and the inventory for one request at a time, and of
   what stays true when requests for different hostnames overlap.
6. Next: what stays true of Caddy's configuration when such requests overlap,
   and what a later apply makes of a hostname that a crash left half changed.

## Not modelled

Parsing, formatting and transport (HTTP clients, the DNS adapters, PEM and JSON
handling, file modes) are abstracted to what they return or that they raise. The
rules of `RouteSpec.from_dict` look at one input at a time and keep no state.
Discovery, health checks, the browser interface, the Unraid plugin and the
packaging keep no state of their own that the models could relate. Of the
auditor, observations supplied by the client of `/api/v1/audits` are left out: the
report then says what the client said. So are the listing of ports and the
normalization of provider answers in the inventory. The audit log is the set of
requests with a result in it; other events are left out. A Caddy configuration
that does not exist yet (the Lite edition before its first certificate) and a
file that `caddy validate` rejects at start are not modelled. In `RouteApply` a
resource has one target; `PangolinManager` has targets of several sites. Clocks
only move forward.
