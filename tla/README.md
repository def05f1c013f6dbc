# Verification of npm-docker-sync

npm-docker-sync watches Docker and keeps the proxy hosts of an Nginx Proxy
Manager (NPM) in step with the labels of the running containers. This directory
holds TLA+ models of it, TLC configurations that check them on small instances,
and proofs about the writer, the retry loop, the service and its sweeps, single fields of
hosts, startup and tokens that TLAPS checks for every value of the constants.
Paths below are relative to the repository.

## The system

Three tokio tasks share one channel and two clients (`src/main.rs`):

```
 Docker --events--> watcher ----\
   |                             >-- mpsc(256) --> writer --HTTP--> NPM <-- people
   +--list,inspect--> reconciler-/                                   |
                          ^------------------ list ------------------+
```

| component | state | operations | hard behaviour |
|---|---|---|---|
| writer (`writer/mod.rs`) | cache container -> host id; the intent in hand | seed, upsert, remove | acts on lists that age; a handler is up to four calls and can stop after any; restarts lose the cache |
| retry loop (`writer/retry.rs`, `retry_npm.rs`, `npm/auth.rs`) | two failure counters per call, the token shared by two tasks | call, 401 and login, backoff | two tasks discover one expired token; lost answers make a POST run twice |
| watcher (`docker/watcher.rs`) | stream, backoff | reconnect, take event, inspect, send | events are lost while it is not subscribed; inspection happens later than the event |
| reconciler (`reconciler/`) | none between sweeps | list containers, inspect each, list hosts, send the plan | a plan is made of observations of different times |
| channel (`main.rs`) | 256 intents | send, receive | producers wait when it is full |
| NPM, people at its interface | table of hosts | POST, PUT, DELETE, edits | outside the program; edits fall between any two calls |
| Docker | containers, event stream | start, die, destroy, rename | outside the program; answers are snapshots |
| labels, spec, diff (`docker/labels.rs`, `docker/spec.rs`, `writer/diff.rs`) | | parse, select a port, compare | facts and configuration change between inspection and update; create and diff spell out the same host twice |
| config, Cloudflare tokens (`config/`, `cloudflare.rs`) | | validate, resolve secrets, match domains | five places for a secret, each with rules of its own; nested suffixes |
| `main` (`main.rs`) | the three handles, the cancellation token | start, signal, join | each task looks at the token at its own moments; a send to a receiver that is gone; ten seconds |
| metrics, telemetry | | start-up code | none |

What makes them correct, in a sentence each:

- the writer changes nothing but hosts marked with the container it works for,
  its cache never leads elsewhere, and knows what it must know to clean up;
- the retry loop ends, and executes a request no more often than its caller
  must reckon with;
- watcher, reconciler and writer together bring NPM in step with Docker, by
  events alone while nothing fails, by sweeps in any case, and stay there;
- a host, once settled, is in every field as labels and configuration want it, and
  is not written again;
- a secret comes from where the file says, a domain gets the nearest token, and the
  process ends after a signal, whatever hangs.

## Modules

| module | models |
|---|---|
| `Intents` | `intent.rs`; a spec is a url (`UrlOf`) and a *target*, one value for all else that `diff_spec` compares |
| `Npm` | the table of hosts; one operator for each client call and outcome; what people do |
| `Writer` | the writer task: `phase` is the call it is about to make, `intent` the argument of `handle`, `hostId` and `patch` the locals of the handler, `cache` the field of that name. Each action is one call with the decision taken on its answer. `WriterSpec` feeds it any intent at any time |
| `Specs` | pure: `parse`, `select_port`, `forward_host_for`, the body of a create, `diff_spec`, with all their fields |
| `Drift` | one container and its host in those fields: inspection, list, create and update of the writer, while the container is renamed or gets another address, people edit fields and restarts bring other configurations. An intent may also come of an inspection before the last move (`InspectEarlier`, `earlier`), as when a newer one has overtaken it |
| `Channel` | the bounded FIFO |
| `Docker` | containers and the event stream, as the two client calls and the stream show them |
| `Watcher` | the reconnect loop, `run_once` and `build_spec`: event, inspection and send are steps of their own |
| `Reconciler` | `sweep` and `plan`: each Docker call, the list of hosts and each send are steps of their own |
| `Sync` | the service: Writer, Watcher and Reconciler over one Channel, Docker and Npm, with restarts |
| `RemoteCall` | abstract: what a `with_retry` call promises its caller |
| `Retry` | `retry_call`, the classifier, the token of `NpmClient`, `login` |
| `Config` | pure: which files are refused, where each secret comes from (`resolve_secrets`), `for_domain`, what a certificate request carries. A secret is its origin, a domain the sequence of its labels |
| `Lifecycle` | `main`: loading, failures of startup, the loops of the three tasks as far as they decide when a task ends, signal, join and its limit. A handler, a sweep or an inspection is one stay outside |
| `MCWriter`, `MCDrift`, `MCSync`, `MCRetry`, `MCLifecycle` | instances for TLC |
| `WriterProofs`, `WriterCompleteProofs` | theorems about `Writer` |
| `RetryProofs` | theorems about `Retry` |
| `SyncProofs`, `SyncSweepProofs`, `SyncEventsProofs` | theorems about `Sync`; the second: what undisturbed sweeps achieve, the third: what events alone achieve |
| `DriftProofs` | theorems about `Drift`, its refinement of `Writer` among them |
| `LifecycleProofs` | theorems about `Lifecycle`, and about `Config` as it uses it |

`Sync` and `Lifecycle` have the same three tasks and share no action: `Sync` is about what the
tasks say to NPM and leaves cancellation out (a killed process is `Reboot`), `Lifecycle`
about when they end, and keeps of a message that it takes a place in the channel.

Three refinements are checked, and all three proved as well. `Sync` implements `WriterSpec` (property
`WriterSpec` of run `SyncTroubles`; the mapping is the identity, since `Sync`
extends `Writer`): what is proved of the writer alone, for any intents, therefore
holds in the service. `Retry` implements `RemoteCall` (`ImplementsRemoteCall`),
and `Npm`'s call operators assume no more than `RemoteCall` promises: a call that
fails may have been executed, and one that succeeds up to `MaxAttempts` times.
`Drift` implements `WriterSpec` too (`ImplementsWriter`), here with a mapping: the five
forwarding fields become the one target, a patch of fields becomes `Npm`'s `Patch`, whose
`seen` is the target of the listed host. A PUT that carries only the fields
that differed in the list can leave a mixture if a person has edited the host since;
`Outcomes` in `Npm` allows for any, and the refinement shows that it allows enough.

`Writer` has the history variable `seeded`, `Drift` has `seeded` and `since`, `Sync` has `calm`, `clean`,
`excuse` and `missed`, `Retry` has `applied` and `reply`. No guard of the program reads them.
Operators whose comment begins with *Broken* are variants of the code with one
mistake; no specification uses them. They show that each property can fail.

Abstractions worth knowing: a failed call is a *fault* at the end of its retries,
whatever the status was; the certificate fields are the one value `tls`;
`managed_at` and `container_name` of the marker are left out; the order in which
NPM lists hosts and Docker lists containers is arbitrary; the target of a
container that does not run is the one it last had.

## Runs

| run | question | instance |
|---|---|---|
| `WriterOpen` | Does the writer ever touch, remember or choose a host that is not the container's, whatever people do? | 2 containers, 2 domains, domains not unique, lost answers, 2 edits of any kind, 1 fault, 1 restart, 3 hosts |
| `WriterComplete` | Does it know every host it must be able to remove, and keep to one host per container? | as above without lost answers and changed domains; markers may vanish during a call |
| `DriftFields` | Is a settled host right in every field, and left alone, also when intents come late? Does a late PUT spare what people have changed since? Do real patches implement the writer's updates? | 9 sets of labels, 2 of exposed ports, 4 configurations, 1 move, 1 edit, 1 fault, 1 restart |
| `SyncReplace` | Do events alone keep NPM in step, in every order of the two producers' intents? Do two undisturbed sweeps repair everything, and is nothing undone meanwhile? What may a sweep cost a running container? | 2 containers for one domain, 3 Docker operations, 1 broken stream, 1 failed Docker call, channel of 1 |
| `SyncTroubles` | Are orphans swept, what do two undisturbed sweeps achieve after lost answers and failed seeds, is anything undone, does the service implement the open writer, and does it converge, when calls fail, answers are lost and the process restarts? | 1 container, 3 host ids, 2 Docker operations, 1 fault, 1 edit, 1 restart, channel of 1, fair tasks |
| `Lifecycle` | Does a secret come from where the file says? Does a domain get the nearest token? Does the process end, and what can hold it up? | every pair of a secret and its variable in five places, two nested domains with tokens, channel of 2, sweeps of up to 3 intents |
| `RetryCalls` | Do calls end, within their budgets, keeping `RemoteCall`'s promise? | 2 tasks, 3 attempts as in the code, 2 expiries, 1 failed login, both kinds of credential |
| `SyncRace`, `SyncSeedLost`, `SyncCertLost`, `SyncInspectFailed`, `RetryRateLimit` | disagreements with the design document, below | 1 container or task |

Why the bounds are enough for these questions: a conflict takes two containers
and one domain; the cache and the table can disagree in one entry, so that two
suffice for one to be confused with the other; three ids let one host be replaced
and a copy be left by a repeated POST; a channel of one place makes both producers wait
and lets either of them be first; a container's whole life is three operations, and
a replacement is three as well (start, die, start of the other). The labels of `DriftFields` are none, all, some, both ends of
u16, the number after it, and each label without meaning; its configurations are the three
strategies and both ways to get a host address. In `Lifecycle` a file may name one variable besides the two
that are defaults; keys `com` and `a.com` are asked for by a domain that is a key, domains below
one or both, and one below neither; two places let one producer wait while the other has just been served, and
a plan of three does not fit. It says CHECK_DEADLOCK FALSE because the process exits. Targets are interchangeable (symmetry set
in the runs of `Sync` that check safety alone, so not in `SyncTroubles`), and so are two containers with the same domain (`SyncReplace`).
All counters that bound a run stand in guards of the environment (`MaxFaults`,
`MaxEdits`, `MaxRestarts`, `MaxDockerOps`, `MaxBreaks`, `MaxDockerFaults`,
`MaxExpiries`, `MaxLoginFails`, `MaxMoves`), except `MaxHostId`: at the bound NPM refuses a
POST, which the writer meets as any other refusal, and which counts as a failed call.

The conditions of the convergence properties matter:

- `EventsSuffice` excuses a run in which an event was lost, a call failed, people
  edited NPM, a container changed during a sweep, or a container started while its domain
  was still another's. The one about sweeps is needed: `SyncRace` drops it and fails; so is the last: the
  Upsert of the second is refused, and no event repeats it once the first is gone.
- `SweepsRepair` needs two sweeps, each begun with nothing in flight and not
  disturbed. One is not enough: with a domain that changes hands the
  first sweep's Upsert is refused before its Remove frees the domain.
- `SweepsRepair` needs a process whose seed list did not fail: `SyncSeedLost` drops that and fails.
- `SweepsServe` needs no seed and allows lost answers, and says less: a container without its host finds its
  domain taken at that moment, perhaps by an orphan nobody remembers.
  The run has it for one container, `TwoSweepsServe` for any number of them competing for a domain.
- `NeverUndone` is about undisturbed times: from the start of a sweep with nothing in flight until
  a container changes, a call fails or NPM is edited. A step whose own call fails still counts.
- `OrphansSwept` and `Converges` speak of hosts the cache knows. Two kinds of orphan it
  need not know: those of a process whose seed failed, and the host of a POST that was executed behind a lost answer when
  the container was gone before its next Upsert.
- `Synced` excuses a running container whose domain another host has (`Blocked`): a person's, a running container's, or,
  without clean-up, anyone's.
- `RemovesUnlisted` speaks of each container by itself: a sweep plans the removal of a running container's
  host only if that container has started or died since the sweep listed containers, or if its own inspect
  failed (`missed`). What happens to another container is no excuse. `SyncRace` and
  `SyncInspectFailed` show that the two cases happen.
- `SettledAgrees` says nothing about the port under strategy `host_port`, where the documents promise another
  port than the code takes (below).

### Fairness

`SyncTroubles` (`SyncLive`) assumes weak fairness of the writer's steps and of its receive, and strong
fairness of watcher and reconciler. tokio polls every task that is woken, which
is weak fairness. A producer that waits for room in the channel is enabled only now
and then, whenever the writer has received; tokio's semaphore serves waiters in
order, which is strong fairness. Both assume that every HTTP and Docker call
returns. The client is built without a timeout (`npm/mod.rs:39`), so this is
an assumption about NPM and not a property of the code: a call that hangs stops
the only consumer; `Lifecycle`, which does not make the assumption, says what is left then. In `RetryLive` steps of a task are weakly fair and the
server may expire tokens when it likes, within the bound.

`LifecycleSpec` lets calls hang and the stream stay silent for ever. Weakly fair are
loading, the join, and the steps that wait for nothing outside (`Prompt`); a return from
outside is weakly fair in behaviours with `quick` only. The cancelled branches are strongly fair,
because tokio's `select!` picks at random among ready branches: a writer with intents before it does
not pass over the cancellation for ever. There is no clock: while main
joins, the ten seconds may be over at any time (`Join`), and they are certain to be over only once no prompt step is left
and, with `quick`, nobody is to return any more (`HeldUp`, under which `Join` is weakly fair).
`OnlyOutsideHoldsUp` is about those states: what main may find unfinished however long it waits.

### Disagreements with the documents

Unless said otherwise, lines are of `docs/superpowers/specs/2026-04-21-npm-docker-integration-design.md`.

- `SyncRace` (line 37, no races between event stream and reconciler): a container starts
  after the sweep listed containers, and its host is created before the sweep
  lists hosts. The sweep removes the new host; it stays away until the next sweep.
- `SyncInspectFailed` (line 83, Remove for missing containers): a failed inspect
  has the same effect for a container that was running all along.
- `SyncSeedLost` (line 117, wipe the cache and restart): if the seed list fails, hosts of
  containers that went away in the meantime are never removed by this process.
- `SyncCertLost` (line 182, nothing is permanently lost): a certificate that could not be
  had when the host was created is never asked for again.
- `RetryRateLimit` (line 180, 429 is transient): it is not.

Also seen, and without a run:

- With strategy `host_port` the README (line 74) promises the container's published port, while
  `select_port` knows the label and the exposed ports only (`docker/labels.rs:75-91`;
  `Specs` models it as it is).
- An `api_token_env` that names an unset variable is swallowed (`config/mod.rs:301`, `Global` in
  `Config`), where `2026-04-22`'s design (lines 146 and 211) wants an error. A variable that is set
  but empty passes (`config/secrets.rs:9`).
- Startup ends at the first failed login (`main.rs:50`, `ConnectFailed` in `Lifecycle`), where the
  design (lines 87 and 95) has the writer go on in a degraded state. Signal handlers are
  installed only once all is connected.
- An idle watcher looks at the cancellation only after an event, so that a shutdown of
  an idle service takes the full ten seconds and abandons it; the design (line 62) has main
  cancel and join.
- A label may switch ssl on where `defaults.ssl = false` has not asked for an address:
  the request then carries an empty one (`CertRequest` in `Config`).
- A marker that a person removes between the list and the update or delete of one handler does
  not stop that call. Under `AdoptRaces` the model has such edits; `CommitNeverForeign`
  is what is left of ownership, and `TouchesOnlyOwn` is stated without them.
- With two expiries of the token a stale one stored late by one task can replace the
  other's fresh one, and a call may use up its budget of 401s although every login succeeded.

## Proofs

Assumptions on constants are those the modules state by name (`IntentsAssumption`,
`NpmAssumption`, `WriterAssumption`, `ChannelAssumption`, `DockerAssumption`,
`RetryAssumption`, `DriftAssumption`, `ConfigAssumption`, `LifecycleAssumption`): any containers, domains, targets, tasks, labels, ports,
configurations and bounds. Some theorems have one more hypothesis, a switch of the environment, named in
their row.

| module | theorem | says |
|---|---|---|
| `WriterProofs` | `Invariance` | `WriterSpec => []WriterInv` |
| | `TypeCorrect` | `WriterSpec => []WriterTypeOK` |
| | `CacheCorrect` | the cache never leads to another container's host |
| | `CacheDistinct` | no two containers share a cached host |
| | `CommitCorrect` | what a handler has chosen is never another container's |
| | `CommitOwn` | and stays its own, if markers do not vanish during a call (`~AdoptRaces`) |
| | `OwnershipRespected` | without such edits, each step of the program changes or deletes only hosts marked with the container in hand |
| `WriterCompleteProofs` | `NeverTwoHosts` | a container has one marked host at most (`UniqueDomains` or `~LostResponses`; no `redomain`) |
| | `CacheKnowsAll` | a seeded cache knows every marked host (`~LostResponses`, no `redomain`) |
| `SyncProofs` | `ServiceTyped` | `SyncSpec => []SyncTypeOK` |
| | `ServiceIsWriter` | `SyncSpec => WriterSpec` |
| | `ServiceTouchesOnlyOwn`, `ServiceKnowsAll` | what follows for the service, under the writer's hypotheses |
| | `SweepsRemoveTheMissing` | `SyncSpec => RemovesUnlisted` |
| `SyncSweepProofs` | `OneSweepSuffices` | `SyncSpec => []OrphansSwept` |
| | `TwoSweepsServe` | `SyncSpec => []SweepsServe` (`UniqueDomains`, no `redomain`) |
| | `TwoSweepsRepair` | `SyncSpec => []SweepsRepair` (`UniqueDomains`, `~LostResponses`, no `redomain`) |
| | `SweepsUndoNothing` | `SyncSpec => NeverUndone` (`UniqueDomains`, no `redomain`) |
| `SyncEventsProofs` | `EventsAlone` | `SyncSpec => []EventsSuffice` (`UniqueDomains` or `~LostResponses`) |
| `RetryProofs` | `RetryTyped` | `RetrySpec => []RetryTypeOK` |
| | `BudgetsApart` | executions are bounded by failures plus one success |
| | `LoginsSuffice` | one expiry costs a call one login |
| | `LoopIsRemoteCall` | `Retry` implements `RemoteCall` |
| `DriftProofs` | `DriftTyped` | only proper values get into hosts and patches |
| | `SettledHostAgrees` | a settled host is as labels and configuration want it |
| | `SettledIsLeftAlone` | and is not written again |
| | `MalformedNeverServed` | a meaningless label never makes a host |
| | `EditsSurvivePuts` | a PUT takes back only edits of fields that were wrong when listed |
| | `FieldsImplementTargets` | `Drift` implements `WriterSpec` under the mapping above |
| `LifecycleProofs` | `NoCrossover` | a variable a file does not draw on changes nothing about what the file comes to |
| | `TokenIsNearest` | a domain gets the token of the nearest enclosing domain that has one |
| | `LifecycleTyped` | `LifecycleSpec => []LifecycleTypeOK` |

*The writer.* `CacheSound` is not inductive: a new host gets an id, and if some
cache entry named an id not yet issued, the new host could be another container's. So
`IdsIssued` joins it. A handler that has chosen a host writes it into the cache
only after the call, so the choice must be as good as an entry: `CommitNeverForeign`
and, for injectivity, `CommitUnshared`. With `CommitSound`, for the case without
`AdoptRaces`, these are `WriterInv`, which serves the proofs only (the runs check the parts that say something
about the program). The proof separates the table from the task.
`OwnersStay` (hosts keep their owners, new ones have new ids) is proved of every call and
every edit but one, and lemmas on the cache (`CacheKept`, `CacheRemembers`,
`CacheForgets`) carry soundness over any step with that property. Then each action
has a lemma, `StepInv` puts them together, and the theorem follows by temporal logic.
`OwnershipRespected` uses the invariant: the id a handler acts on is that of an own
host because of `CommitSound`.

*One host, all known.* `FullInv` adds to `WriterInv` that a marked host answers for its container's
domain (`MarkedAnswers`, which is what a rename of a marked host would break), that a container whose host is
about to be created has none (`CreatesFirst`), and that a chosen host is the only one of its container
(`CommitOnly`). A POST makes one host at most if NPM refuses the second copy or no answer is lost (`PostOnce`);
what a lost answer costs is the cache's knowledge, so `KnowsAll` promises that only without lost answers. `MarksStay` plays the part that `OwnersStay` has
above: no step but a create makes a marked host.

*The service.* `SyncInv` is `WriterInv` and `SyncTypeOK`. What `Sync` adds to the writer, it adds through `Take`: the head of
the channel must be one of the intents the open writer accepts, which is the type of the
channel. So each step is one of `WriterNext` or leaves the writer's variables alone
(`StepSimulates`), and the writer's theorems carry over. For `RemovesUnlisted` the invariant
`SweepCovers` says that, until the plan, every running labelled container is still to be inspected, among the
specs, or `missed`. `missed` grows by the containers that start, die or are destroyed and by the one whose inspect fails,
and each step that the sweep makes, or that changes containers, keeps account of that (`StepCovers`).

*Undisturbed sweeps.* Time is quiet from the start of a sweep with nothing in flight until
something is disturbed (`Quiet`; such times begin and go on in few ways, `QuietCases`). `FlowInv` says that in quiet times every
intent under way, planned, queued or in hand, is right for the containers as they are, and that a sweep has
not lost sight of a running one; so an Upsert in hand asks for what its container wants, and a
Remove is about one that is gone. For `OneSweepSuffices`, from the plan on every host the
writer remembers has its container, or its Remove is under way (`OrphansDue`): a Remove leaves the
writer's hand only when the entry or the host is gone, and no right Upsert makes a new orphan.

*Two sweeps.* After the first, every running container is either served or refused, and what
refuses it is no orphan that the writer remembers. `RepairInv` says so in two stages. From the start of quiet
times the hosts of a running container are exactly as wanted or its Upsert is still due (`Exact`, `Due`); from
the start of the second sweep on all are exact, no remembered host is an orphan, so nothing is deleted, and each
running container is served, kept out (`Shut`), or due (`Settled`). `UpsertStep` sorts the writer's steps:
nothing changes and the intent stays in hand, it is refused, or the container gets what it wants
(`Achieved`), which takes nothing from the others (`AchievedKeeps`). `TwoSweepsServe` is this invariant at
rest, with or without seed and lost answers. For `TwoSweepsRepair` a seeded cache knows every marked host
(`CacheComplete`), so there are no orphans at all and `Shut` means `Blocked`. The hypotheses are needed. Where NPM
accepts a domain twice (`~UniqueDomains`), the list's order decides which of two hosts `find` meets, so that
a container may be refused in one sweep and served in the next, when the account of the second has been made;
after a lost answer to a POST an unknown orphan is never removed and may hold a domain.

*Nothing is undone.* For the table it does not matter whether a call succeeds, fails or loses its answer:
`TableSteps` says what each may do, and that no other call of the writer touches the table. In quiet times an update or a create achieves what
the container in hand wants, or nothing (`UpdateAchieves`, `CreateAchieves`), attaching a certificate
changes nothing the properties see (`AttachLooks`), and what is deleted is the host of a container that does
not run. Once NPM agrees with Docker an update finds nothing to change (`UpdateNeedless`), a create is
refused, or its host would share a domain (`DomainsDisjoint`), and there is no orphan to delete.

*Events alone.* `Flight` lines up, in the order in which it will reach the writer, what is in the writer's hand, in the
channel, in the watcher's hand and on the stream; a die is the Remove it will become, a start stays a start until
it is inspected, which is when its target is read. `EventsInv` says of this line what comes after what. If a
container that does not run has a host, or something in flight will have one made for it, a Remove of it is in
flight and nothing behind that asks again (`GoneCleared`). A running one has what it wants and nothing
in flight is against that, or what comes last about it will give it that, after all others with its
domain have been cleared away (`RunningServed`). It cannot be said of the two ends alone: an old
Upsert may be in the channel behind a newer sweep's, and is harmless only because of the Remove behind it. The
producers' steps insert into the line or close it up (`FlightMoves`), a container's event takes the place
behind it (`FlightCloses`, `FlightOpens`), and the writer's steps end what is in its hand (`Ends`,
`FlightLands`) and keep one remembered host per domain (`Rows`). Sweeps may run all the while; what they send is
right where it is inserted (`SweepRight`). The hypothesis is needed: where NPM accepts a domain twice, a POST repeated
behind a lost answer leaves copies although the call succeeds, and nothing excuses that.

*The retry loop.* A task between two calls has spent nothing, and one that goes on has
an attempt of each kind left (`BudgetsLeft`). For `LoginsSuffice`, with one
expiry: before it nobody meets a 401 (`FreshToken`), and after it a call that has met one is logging in, holds the
new token, or works with a stored one that is good, whichever task stored it
(`RenewedToken`), so it does not meet a second.

*Fields.* A body and a diff are functions of the same spec, and a patch applied to the host it was
computed from gives the body (`PatchMakesBody`), a host equal to the body gives no patch
(`DiffEmpty`), and it carries the fields that differed, each as the body has it (`PutFields`): for `EditsSurvivePuts`
the only other step that changes a host is an edit, and those are counted (`EditsCounted`). `FreshOK`
ties the spec in hand to the container as it is, as long as nothing has happened since the
inspection, `EarlierOK` keeps the older ones proper, and `SettledOK` says the host is the body. `LowestPort` shows by well-founded induction that
`Lowest` picks the least of any non-empty set of ports.

*Fields and targets.* `PatchFields` says that the abstract fields of a patch are those `diff_spec` has found, and
`PatchEffect` what a patch made for the listed host does to the one there is by now; with
`DriftInv` (the patch pending is that of the listed host) each action maps to
the action of `Writer` of its name, both ways to get an intent to `Accept`, an edit to `UserDrift`, a rename to a stutter. It
needs `Url # Alias` and `Me # Nobody` of the constants.

*Secrets.* Every origin is the literal, a variable the file names, or the default of a secret the
file leaves open (`OriginsNamed`). So whether another variable is set changes neither an
origin nor whether it can be resolved, and the outcome is the same (`SameOutcome`).

*Tokens.* `for_domain` picks the longest key among those a domain lies within. Such keys are ends of the domain
(`Ends`), so the longest is the one reached by leaving out the fewest labels, the least `n` at
which a key begins (`FindsNearest`; `LeastOne` gives the least by well-founded induction).

*Startup and shutdown.* Types are inductive once it is known that a reconciler that sends has
something to send.

Only model-checked: liveness (`Converges`, `CallsEnd`, `ShutdownEnds`), which is beyond the prover, as is
`OnlyOutsideHoldsUp`: it speaks of ENABLED on purpose, since with the guards written out in its place it would
say of the model what the model says.

## Not modelled, and the plan

Not modelled: metrics and telemetry (no effect on the rest), the crate root (declarations), the JSON bodies
and HTTP paths, the decoding of answers, TLS certificates' contents, reading and parsing of the
configuration file with the defaults of its plain fields, the parts of the ownership marker that nothing
reads.

Next: *time*. The watcher's backoff, which an error does not reset (`docker/watcher.rs:49`), and how long a
reconnect takes.
