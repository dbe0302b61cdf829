# FFXBan: TLA+ models, model checks and proofs

FFXBan watches the access logs of VPN nodes, decides which users share their
subscription, and blocks their addresses on every node.  This directory holds
TLA+ specifications of its logic, TLC configurations that check them on small
instances, and proofs for TLAPS.

Paths below are relative to the repository.  `processor.go` is
`ffxban/internal/processor/processor.go`.

## 1. The system

### Components

**Observer** (`ffxban/`, one process)

| Component | State | Operations | What makes it correct |
|---|---|---|---|
| Log queue and workers (`processor.go`: `EnqueueEntries`, `StartWorkerPool`, `WaitDrained`; `main.go`) | `logChannel` (100), 20 workers; `sideEffectChannel` (50), 10 workers | enqueue, take, process a batch, drop, drain, close | an accepted batch is processed once or reported as refused; shutdown waits for what was accepted |
| Entry processing (`processSingleEntry`) | history, node tracking; Redis through the registry | the whole handling of one log entry; delayed clear | a block follows only from a confirmed excess; a cooldown is not used up for nothing |
| IP registry (`add_and_check_ip.lua`, `storage/redis.go`, `monitor.go`) | Redis keys `user_ips`, `ip_ttl`, `ip_node`, `alert_sent` | add and check, list active, clear, housekeeping | an address counts while and only while it was seen within the TTL |
| **Sharing detector** (`updateSharingStatus`, `GetSharingStatus`, `ListSharingStatuses`, `ResetSharingState`) | `sharingState` per user, `lastBlockedIPs`, Redis `ban_count` | observe an entry, expire on read, enlist, publish, settle, reset, load and store the ban counter | see section 3 |
| Source counting (`countEffectiveSharingSources`) | `recentEvents` | record and prune, count | the count is that of the distinct sources in the window |
| Publisher (`publisher.go`), blocker facade (`blocker.go`) | connection, mutex | publish with reconnection and retries | returns success only after a publish; bounded time |
| Ban tracking (`ApplyBlockerReport`, `GetActiveBans`, `status/consumer.go`) | `activeBans`, `nodeState` | apply reports, expire | shows what the nodes enforce |
| Administrator's handlers (`server.go`) | none of their own | manual block, unblock, clear, reset, overrides | an unblock undoes what was blocked |
| Runtime configuration (`applyRuntimeOverrides`) | shared `cfg`, Redis `config:overrides` | save, apply, reload | a reader sees one configuration |
| WebSocket hub (`ws_hub.go`) | clients, notification channel, debounce timer | notify, broadcast, register | a change reaches every live client in bounded time |
| Panel client (`client.go`) | users' limits, profiles, nodes, HWID devices | reload page by page, refresh on demand | the cache holds limits the panel really had, and catches up; a failed reload keeps the last good data |
| Network classifier (`netclass/detector.go`) | cache with TTL | look up | informs the source count and the heuristics |
| Login and sessions (`server.go`) | failures and locks per address, tokens | log in, check, log out | a lock ends when it was to end |
| Node commands (`handleNodeSSHExec`, `nodessh/executor.go`) | a semaphore, a result per node | run a command on several nodes | the administrator is answered whatever a node does |
| SSH terminal (`ssh_terminal.go`) | a WebSocket, a shell, two goroutines | open, type, print, close | nothing stays behind when one side leaves |

**Blocker node** (`ffxban_blocker/`, one per VPN node): the worker takes block
and unblock messages from an exclusive queue bound to the fanout exchange,
runs `nft`, reports the results and a heartbeat, and reconnects.

### Interaction

Vector on each node posts batches to the API, which puts them in `logChannel`.
A worker takes `now`, talks to Redis (registry), counts sources, and applies
the entry to the detector under `eventsMu`.  Detector and block decision call
the blocker, which publishes to RabbitMQ; the nodes apply the message and
report back; the status consumer updates `activeBans` under `eventsMu`.  Slow
side effects (alerts, the persistent ban counter, the delayed clear) go through
`sideEffectChannel`.  API handlers read, reset and block at any time.

### Hard behaviours

* `now` of an entry is old when it is applied, and entries of a user overtake
  one another between `time.Now()` and `eventsMu`.
* The publication of an escalated ban happens without the lock, between two
  critical sections, and may take minutes.
* The ban counter lives in memory and in Redis, and is moved by three kinds of
  goroutines without a common order.
* Status reads change state.
* A restart keeps Redis and forgets memory; queues and timers are lost.
* Nodes miss messages while disconnected; reports are not confirmed.
* The configuration is overwritten field by field while workers read it.

* Queues fill, are closed while handlers send, and are drained under a deadline.
* One WebSocket, one broker connection and one set of SSH slots are shared by
  many goroutines, each of which may be waiting on a network that is silent.

`PROJECT.json` lists each hazard at its line, with the properties that cover it
or the reason why none does.

## 2. Modules

| Module | What it is |
|---|---|
| `BanLifecycle` | abstract specification: where a user stands (clear, violator, banlisted, permanent), whether a ban is being published, which life of the process this is |
| `SharingDetector` | the detector with its goroutines, failures and restarts; properties; the refinement mapping to `BanLifecycle` |
| `MCSharingDetector` | constant values for its runs |
| `SharingAudit` | the detector with history variables of what it forgets; the documented meaning of two settings |
| `MCSharingAudit` | constant values for its runs |
| `SharingDetectorProofs` | the inductive invariant, the theorems and their proofs |
| `AddressWindow` | abstract specification: which addresses of a user count, the alert cooldown, the answers to callers |
| `IPRegistry` | the Redis keys of a user, the scripts, listing, housekeeping and expiry; properties; the refinement mapping to `AddressWindow` |
| `IPRegistryProofs` | its inductive invariant, the theorems and their proofs |
| `EntryProcessing` | a user's entries from the recorded event and the script's answer to the block: cooldown, count of sources, decision, publication, delayed clear; composed with `AddressWindow` |
| `MCEntryProcessing` | constant values for its run |
| `EntryProcessingProofs` | its inductive invariant, the theorems and their proofs |
| `BanPropagation` | blocks and unblocks through the exchange to the nodes' nft sets, and the reports back to `activeBans` |
| `BanPropagationProofs` | its inductive invariant, the theorems and their proofs |
| `BatchDelivery` | abstract specification: the fate of a log batch |
| `WorkQueues` | both channels, both worker pools, the intake and the shutdown of `main`; the refinement mapping to `BatchDelivery` |
| `WsHub` | the hub's loop and the three goroutines of each connection |
| `Publisher` | the mutex, the retries and the reconnections of `RabbitMQPublisher` |
| `RuntimeConfig` | the four copies of the overrides |
| `PanelLogin` | failures, lock and sessions of one address |
| `PanelCache` | the users' limits and their reloads by pages |
| `NodeHealth` | heartbeats and action reports of the blocker's sessions, traffic stamps and "online" of one node |
| `SourceCount` | `recentEvents` of one user: recording, pruning, counting |
| `NodeCommands` | a command on several nodes |
| `SshTerminal` | one interactive terminal |
| `Services` | the ten preceding components side by side, with their fairness |
| `MCServices` | constant values for its run |
| `WorkQueuesProofs` | theorems about `WorkQueues` and its refinement, in `Services` |
| `MessagingProofs` | theorems about `WsHub` and `Publisher`, in `Services` |
| `PanelProofs` | theorems about `RuntimeConfig`, `PanelLogin` and `PanelCache`, in `Services` |
| `NodeProofs` | theorems about `NodeHealth`, `SourceCount`, `NodeCommands` and `SshTerminal`, in `Services`; the type invariant of all ten |

`EntryProcessing` takes the registry in its abstract form, `AddressWindow`,
which `IPRegistry` is proved to implement, and the detector as the standing it
may give a user at any entry.  `BanPropagation` takes the publisher as one step
with every outcome `Publisher` can have.  The components in `Services` share no
state in the code that their models contain, so a behaviour of `Services` lets
one of them run and the others stay as they are: the states are the sum of
theirs, not the product.  No component is restricted by it.

### How `SharingDetector` corresponds to the code

* `sharing[u]` is `sharingState[normalizeUserID(u)]`; a time field that is 0 is
  Go's zero `time.Time`; `known` says that the record exists.  `ViolationNodes`
  changes in step with `ViolationIPs` and is represented by it;
  `LastSourceCount` is only displayed.
* `worker[w]` is a goroutine with its locals.  `"entry"` lies between
  `now := time.Now()` and `eventsMu.Lock()`; the whole Redis traffic of the
  entry happens there.  The first critical section of `updateSharingStatus` is
  one action: `UpdateSharingStatus`, or `UpdateAndBan` when the user enters the
  ban-list.  `"publish"`, `"record"`, `"settle"` are the unlocked part and the
  second critical section.
* The pure steps of the critical section are operators on one record (`Prune`,
  `Exceeding`, `Complying`, `Judge`, `AddToBanlist`, `SeeCountries`), composed
  in the order of the code by `Observe`.
* What an entry tells the detector is nondeterministic: whether the sources
  exceed the limit, which addresses are evidence, which country.  The registry
  and the source count decide this in the code.
* `loader`, `queued`, `replies`, `persisted` are `loadPersistentBanCount`, the
  `IncrUserBanCount` tasks in the queue, the answers of `INCR` not yet written
  back, and the Redis key `ban_count`.  `ResendIncr` is go-redis sending an
  `INCR` again whose answer did not come (`redis.go:94` leaves `MaxRetries` at
  its default, three): Redis may apply it each time.
* `published`, `bans` and `resent` are history variables: durations ever sent
  to the exchange, entries into the ban-list, and `INCR`s applied by a send
  that was repeated (`MaxResends` bounds them).
* `RecordBlockedIPs` is also called by the ordinary block of an entry and by a
  manual block; both are one action with any set of addresses that are not
  excluded.
* `Faults` chooses the failures of an instance; `PromptRedis` forbids the clock
  to tick while a Redis round trip is open.
* Operators named `Faulty...` are not the code's.  Each is a plausible slip in
  the operator that follows it, and is used to check that a property notices.

The configuration is constant.  `TriggerMinInterval`, `Sustain` and the other
thresholds are positive, as the getters guarantee by falling back to defaults.
Detection is switched on.

### How `IPRegistry` corresponds to the code

* `members` and `setLeft` are `user_ips:<user>` and its remaining time;
  `ttlLeft[i]`, `nodeLeft[i]`, `alertLeft` are the remaining times of `ip_ttl`,
  `ip_node` and `alert_sent`, 0 when there is no key.  Keys of different users
  are disjoint, so one user is modelled.  Addresses are IPv4: the agents' log
  pattern (`vector.toml`) matches nothing else, and `parseUserIPKey` would
  split an IPv6 address wrongly.
* One Redis command, script or pipeline is one step.  A pipeline is not a
  transaction, but Redis executes the buffered commands of a client together;
  that is an abstraction of this module.
* `client[c]` is a log worker (`BindIP`, then `CheckAndAddIP`) or the details
  page (`ReadMembers`, `ReadTTLs`, `RepairNode`).  Other listings only read and
  are left to the modules that use their result.
* `keeper` is a housekeeping pass: SCAN, SISMEMBER, DEL, TTL and EXPIRE are
  separate round trips, for `ip_node` and then for `ip_ttl`.
* `LossyReplies` lets a command fail, and lets the script run without its reply
  arriving; go-redis then repeats it or gives up.
* `ttl` is `cfg.UserIPTTL`, which the administrator may change at any time.
* `Tick` is Redis' expiry, external to the code; it is never urgent, so any
  round trip may be slow.

### How `EntryProcessing` corresponds to the code

* `stage[w]` is where worker `w` is in `processSingleEntry`: before the event,
  before the script, before the count of sources, before the detector, before
  the block decision, in `BlockIPs`.  `lag` bounds how long an entry takes
  (`MaxLag`).
* `recent` is `recentEvents`, the age of the latest event of each address:
  `RecordEvent` adds one and prunes by `HeuristicsWindow`, `CountSources` is
  `countEffectiveSharingSources`: of the addresses the script answered, those
  seen within `SourceWindow` of the entry's time and the entry's own, by their
  keys.  Which addresses are classified as mobile is a choice at each count.
* `CheckAndAddIP` is the abstract `Sight`, which answers by *all* live
  addresses of the registry.  `Decide` is the block decision with its filters
  (the count of sources, standing, exclusions); `Declines` are the cases in
  which the answer `block` leads to no block: a user over the limit in the
  registry whose addresses were not seen lately is ignored.
* `clears` are the delayed-clear tasks in `sideEffectChannel`, `timers` those
  whose `time.AfterFunc` runs.  `FailClear` and `Restart` lose them, and so may
  a full channel (`PublishBlock`).
* `charged`, `stale`, `unclear`, `sighted` and `overdue` are history variables.
* Cooldown and clear delay are not related: `ffxban_conf/.env.example:61,64`
  ships 30 s for both (as installed by `bootstrap.sh:182`), the code's own
  defaults differ, and the override of the delay has no upper bound
  (`server.go:3612`).

### How `BanPropagation` corresponds to the code

* `inbox[n]` holds the messages of a node's exclusive queue that are not yet
  delivered; the queue exists while `bound[n]`.  `handling[n]` is the message
  between delivery and ack, `rules[n]` the nft set with the time each element
  has left.  `HandleMessage` is the delivery (`Delivery`) and `processor.go` of
  the node: parse, one nft command per address (any subset may fail), the
  reports to send.  A message with a duration the pattern rejects is nacked at
  once, another one acked after its reports; `Settled` says what either leaves
  in the queue.
* `reports[n]` are the reports the worker has still to publish, `statusQueue`
  those the server has still to apply; `ApplyReport` is `ApplyBlockerReport`,
  `ReadActiveBans` the pruning in `GetActiveBans`.
* `BlockForEntry`, `ManualBlock` and `ManualUnblock` are the callers with what
  they record and forget; `Outcomes` says how often a message was routed, what
  the caller was told, and what failure that takes.
* `Disconnect`, `LoseReporter`, `StatusDisconnect` and `RestartService` are the
  failures; `Refreshes` says whether adding an element again renews its
  timeout, which the kernel's version decides.
* `ordered`, `missed` and `unreported` are history variables.

### How the components of `Services` correspond to the code

* `WorkQueues`: `request[b]` is the HTTP request of a batch, `worker[w]` a log
  worker with its batch and the entries left, `phase` the progress of `main`
  after the signal.  A send on the closed channel panics and is recovered into
  success, as in `EnqueueEntries`.  Timeouts may strike at any moment of the
  phase they bound.
* `WsHub`: `pending[c]` is a client's channel; `stale` are panels that show
  data from before a change.  `Greet` is the plain send of the handler.
* `Publisher`: `holder` is the owner of the mutex, `tries` and `dials` the two
  nested loops, `routed` the copies on the exchange.  Publishing is not
  confirmed, so an error and a routed copy go together.
* `RuntimeConfig`: `saved` is the Redis key, `live` `s.configOverrides`,
  `effective` the shared configuration, `own` the processor's copy, written
  after the lock was given back.  Settings have two ranges, because a load
  accepts what an update would refuse; values stand for any type.
* `PanelLogin`: check and count are separate critical sections with the
  verification between them; a password is right or wrong by choice.
* `PanelCache`: the panel is a list that changes between two pages; a page that
  fails is tried again up to `panelReqRetries` times, then the reload fails.
  `wrapped` is the form of the pages, which is the panel's: with
  `{"users": [...]}` an empty page is an error (`RejectPage`,
  `client.go:530-539`), so a panel whose number of users is a multiple of the
  page size is never loaded.  `EndEarly` is an answer of status 200 whose
  `response` is missing or null, which ends the list (`client.go:523`).
* `NodeHealth`: stamps are ages; `reports` is the status queue, which dies with
  the connection (`EndSession`), `backlog` the entries of the node that wait in
  the log queue.  `reporter` is the blocker's connection for reports, opened
  once per session (`NewSession`) or not at all, and not opened again when it
  dies (`LoseReporter`): heartbeats may be missing for any time.  `ReportAction`
  is the report of a block or unblock, which stamps the beat as a heartbeat
  does (`processor.go:1732`), with a time taken before it is published.
  `LastBlockerActionAt` is only shown.
* `SourceCount`: events are the age of each address's latest; `read[w]` is the
  time since the worker took `now`; mobile or not is a choice at each lookup.
* `NodeCommands`: `task[t]` is the goroutine of a node in
  `handleNodeSSHExec`/`executeWithAuth`, `linked` the open connections,
  `readers` the two goroutines of `readOutputStream`.  `Exit`, the end of the
  command or of the connection, need not happen.
* `SshTerminal`: `printer` and `typist` are the goroutines of `sshDone` and
  `wsDone`.  Three goroutines may write to the WebSocket at once, which the
  library forbids and answers with a panic when it notices: `Crash`.

## 3. Properties and runs

| Run | Instance | Checks |
|---|---|---|
| `detector` | 1 user, 2 goroutines, an ordinary and an excluded address, 2 triggers needed, clock to 6, publication may fail; about 1.0 million states | `TypeOK`, `TriggerDiscipline`, `ViolatorIffConfirmed`, `BanlistJustified`; action property `LeavesBanlistOnlyWhenCleared`; refinement `Lifecycle` |
| `detector_faults` | 1 user, 2 goroutines, a two-rung ladder, every failure, two `INCR`s applied twice, one restart, clock to 4, goroutines interchangeable; about 1.1 million states | `OnePublisher`, `PermanentBacked`, `OverstatedOnlyByResends` |
| `detector_rungs` | 2 users, one excluded, 2 goroutines, ladder, broker failures and an orderly restart, prompt Redis, clock to 6; about 0.6 million states | `RungMatchesHistory`; liveness `PendingSettles` |
| `audit_sustain` | 1 user, 1 goroutine, no failure | violates `TriggersAreSustained` |
| `audit_geo` | 1 user, 1 goroutine, two countries | violates `GeoMismatchIsSimultaneous` |
| `registry` | 2 addresses, limit 1, 2 callers, one TTL of 3 ticks, clears, lost replies, no housekeeping; about 0.2 million states | `SetOutlivesAddresses`, refinement `Window`, liveness `SilentUserForgotten` |
| `registry_changes` | 2 addresses, 1 caller, TTL 1 or 2, housekeeping with a budget of 2 keys, clears, lost replies; about 1.1 million states | `TypeOK`, refinement `Window` |
| `entries` | 2 interchangeable workers, 2 addresses in 2 subnets of which one is excluded, limit 1, TTL 3, cooldown, clear delay and longest entry of 1 tick, windows of 3 and 2, one fault; about 0.6 million states | `TypeOK`, `StaleEvidenceBounded`, `OffenderBlockedInTime` |
| `propagation` | 2 nodes, 1 address, bans of up to 2 ticks, permanent and malformed ones, 2 orders, one failure; about 0.8 million states | `TypeOK`, `EnforcedAsOrdered`, `PanelTellsTruth`; liveness `PropagationSettles` |
| `services` | ten components, see below; about 87,000 states | `TypeOK`, `CleanDrain`, `NoSendOnClosed`, `CopiesContiguous`, `CopiesAgree`, `AliveIsOnline`, `DeadIsOffline`; action properties `LockNotProlonged`, `LimitsFromPanel`, `CountsWindow`; refinement `ImplementsDelivery`; liveness `ShutdownEnds`, `PanelsHear`, `CallsReturn`, `LimitsCatchUp`, `CommandsReturn`, `TerminalEnds` |
| `registry_node` | 2 addresses, 1 caller, no failure | violates `RecordingKeepsNode` |
| `registry_housekeeping` | 2 addresses, 1 caller, housekeeping, no failure | violates `HousekeepingSparesMembers` |

* `TriggerDiscipline`: triggers are `TriggerMinInterval` apart and within
  `TriggerPeriod` of the newest one, although times are applied out of order.
  This also justifies representing the slice by a set.
* `ViolatorIffConfirmed`: whenever `eventsMu` is free, a user is a violator
  exactly when enough triggers are there; three different handlers (entry, read,
  reset) must agree on this.
* `BanlistJustified`: a ban-list entry not kept by a permanent ban belongs to a
  violator of at least `BanlistThreshold`.
* `LeavesBanlistOnlyWhenCleared`: nobody drops out of the ban-list while still
  confirmed, or after a permanent ban.
* `OnePublisher`: `PermanentPend` is a lock held by exactly one worker.
* `PermanentBacked`: a permanent mark implies a published permanent ban and
  recorded addresses, none of them excluded.
* `OverstatedOnlyByResends`: whatever is lost or reordered, a user is treated
  as having more bans than it had only by the `INCR`s that the Redis client
  sent again and Redis applied twice.
* `RungMatchesHistory`: the best case; the n-th ban takes the n-th rung, also
  after an orderly restart.  Slow Redis, lost increments and crashes do break
  it in the model: the loader's late answer overwrites a newer count.
* `PendingSettles`: a pending publication ends.
* `Lifecycle`: the detector implements `BanLifecycle`: a ban is published only
  on entry to the list, one at a time, only a publication makes it permanent,
  and only a restart undoes a permanent ban, which a reset does not.

Of the registry:

* `Window`: the registry implements `AddressWindow`.  With one TTL and no
  housekeeping it counts *exactly* the addresses recorded within their TTL
  since the last clear, and answers `block` at most once per cooldown, although
  membership is one key and each expiry another, stale members are purged
  lazily, and scripts are repeated after lost replies.  Housekeeping or a
  changed TTL may make it forget an address early; both together may also give
  an address another time left.  In no case does an answer count an address
  that was not recorded.
* `SetOutlivesAddresses`: `user_ips` always has an expiry and, under one TTL,
  holds and outlives every live `ip_ttl` key.
* `SilentUserForgotten`: when no entry or page touches the user any more, every
  key but the bounded cooldown disappears.

Of entries and bans:

* `StaleEvidenceBounded`: how often a user is blocked on the same evidence,
  addresses not seen since its last block.  The delayed clear empties the
  registry, but with a cooldown no longer than the delay the script may answer
  `block` again before: no more often than cooldowns fit into the delay and the
  time of an entry.  Not at all, then, when the cooldown is longer than both
  together; once with the shipped 30 s and 30 s, if entries take less than that.  Only a clear that was lost (a full
  channel, a Redis error, a restart) lets old evidence be used for more.
* `OffenderBlockedInTime`: the script spends the cooldown before the decision,
  on entries that are then ignored, pending or skipped.  That delays a block by
  at most one cooldown and the time of one entry: a user who offends for good,
  with too many sources *seen lately*, and is seen in every tick is blocked by
  then.  A user whose addresses are live in the registry but not seen within
  the windows is ignored, and nothing is promised.
* `EnforcedAsOrdered`: a node that is through with its queue and missed no
  order about an address enforces the last one, whatever was retried, routed
  twice or refused by nft.  Permanent and timed bans are exempt on kernels that
  keep the timeout of an element that is added again.
* `PanelTellsTruth`: a ban the panel shows is held by the node it names, for
  the same time, once that node's reports are in, if none was lost.  The time
  is reckoned from the node's stamp (`processor.go:1748-1756`): the model has
  one clock, which assumes that node and server agree.
* `PropagationSettles`: no message stays in a queue for good, not even one that
  the node refuses.

Of the services:

* `CleanDrain`: when the server went quiet and `WaitDrained` reported empty
  queues, no accepted batch waits unread.  `WaitDrained` does not look at the
  workers, so a batch one of them is inside of may still be cut short.
* `ImplementsDelivery`: a batch is answered once and worked through once; only
  a service that stops gives an accepted batch up.
* `ShutdownEnds`: `main` comes to its end, whatever was queued or closed.
* `NoSendOnClosed`: `unregister` takes a client out and closes its channel
  under the lock every sender holds, so that no one sends on a closed channel,
  and the handler's greeting, sent without the lock, comes before.
* `PanelsHear`: an open panel hears of every change in the end, although every
  notification postpones the refresh and a full channel is passed over: the
  heartbeat sees to it.
* `CopiesContiguous`: the copies a message leaves through its retries are not
  split by another message, so an unblock is not overtaken by its block.
* `CallsReturn`: a caller that waits behind a message being retried gets its
  answer although the broker never comes back.
* `CopiesAgree`: with no request under way, Redis, the server, the shared
  configuration and the processor agree on the overrides, unless requests
  overlapped, a reply was lost or the load at the start failed; one undisturbed
  request sets that right.
* `LockNotProlonged`: logins that were let in before the lock and fail during
  it do not prolong it.
* `LimitsFromPanel`, `LimitsCatchUp`: a limit that changes in the cache is one
  the user had during the reload; the cache comes to hold the panel's limits
  when the panel stops changing.  Reading by offset may miss a user when another is
  removed meanwhile, and an answer without `response` cuts a reload short:
  `LimitsFromPanel` has to allow both.  `LimitsCatchUp` says nothing of a panel
  whose pages come wrapped and whose number of users is a multiple of the page
  size, as its reloads fail for good.
* `AliveIsOnline`: a running node is not shown offline once its blocker's
  connection for reports and the status consumer have worked for the longest
  gap (a period and two delays), if the timeout exceeds it, which an override
  of 1 s and more need not (`server.go:3364`).  Nothing is claimed of a session
  without that connection: such a node is online by its traffic or its
  forwarder only.
* `DeadIsOffline`: a dead node is shown offline once the timeout has passed since
  its death and since its last entry was *processed*, which may be long after.
  Both take the stamps of blocker and forwarder as they are
  (`processor.go:1731`, `server.go:329-336`), and assume that the clocks of
  node and server agree.
* `CountsWindow`: a count leaves out no active address within the shorter of
  the two windows, and takes in none outside the source window, although
  other workers prune between a worker's record and its count.
* `CommandsReturn`: a command that hangs, or a child that holds its output
  open, gives slot and readers back when the timeout closes the connection.
* `TerminalEnds`: when one side leaves a terminal, both connections and both
  goroutines end, wherever each was waiting.

### Bounds

`MaxTime` and `MaxRestarts` stop the clock and the restarts; all other
quantities are bounded by them.  With `TriggerCount = 2`, `Sustain = 1`,
`TriggerMinInterval = 1` and `BanlistThreshold = 1` the earliest ban is at time
4, so a clock of 6 leaves room for a clear, expiry of a trigger
(`TriggerPeriod = 3`) and a late entry.  In `detector_faults`, with
one trigger needed, a clock of 4 allows a ban, a second one by entries whose time
is old, and a restart after a ban whose count the loader then reads; a ban on
either side of a restart is in `detector_rungs`, with a clock of 6.  Two goroutines are enough for one to
publish while the other applies entries, reads, or tries to publish as well.
Users of the detector do not share state except for `ListSharingStatuses`; the theorems cover
any number of them.  The runs end when the clock stops and every goroutine may
still be started, so deadlock is checked.

The registry has no clock, only remaining times, so its state space is finite
without a bound on time.  Two addresses and a limit of 1 give every answer; a
TTL of 3 lets one address expire while the other still holds the set; two TTLs
let the set expire before its addresses.  A budget of 2 keys is used up by one
rule exactly, by both rules, or not at all.  One caller is enough beside a
housekeeping pass for every race between two of its round trips and one entry.

In `entries`, cooldown, clear delay and the longest entry are as long as each
other, so that answers `block` overlap with the clears of earlier blocks, and
the TTL outlives the shorter window, so that addresses count in the registry
that no longer count as sources.  The two addresses have different keys in
either classification, since with fewer sources than the limit allows there is
no offence; the merging of keys is in `SourceCount` and in the proofs.  In
`propagation`, two orders are the block and the unblock, or two blocks, of the
address; two nodes make reports overtake each other.  In `services`:

| Component | Instance |
|---|---|
| queues | 2 batches of one entry, 2 log workers and 1 side worker, channels of capacity 1, 2 looks for stability instead of 6 |
| hub | 2 panels, channels of capacity 1 instead of 8, one progress event |
| publisher | 2 callers, a health check, 2 tries instead of 5, one outage |
| configuration | 2 administrators, 3 requests, one setting the processor copies and one it does not |
| login | 3 concurrent logins, 2 failures lock, 2 tokens |
| cache | 3 users of 4 at the start, pages of 2, bare or wrapped, the ticker and a handler, 1 change, 2 tries, one reload that fails or ends early |
| health | a heartbeat every 2 ticks, timeout 5 (the longest gap is 4), a report delayed by 1, sessions with and without a reporter, a backlog of 1 |
| counting | 2 workers, 2 addresses, windows of 3 and 2 |
| commands | 2 nodes, 1 slot |
| terminal | 1 |

A capacity of 1 makes every queue full and empty as soon as anything is in it;
two of each goroutine is what a race needs; three logins are enough for a
failure to arrive after the lock that two of them set.

### Fairness

`FairSpec` adds weak fairness of `FinishBan(w)` only: a goroutine that has
begun a publication goes on.  In the code it is running, not queued: `BlockIPs`
returns after a bounded number of retries, `GetUserActiveIPs` has a timeout,
and `eventsMu` is held for short sections.  Nothing is assumed about entries,
Redis, the clock or the administrator.  A restart empties `PermanentPend` with
the rest of memory.

`FairSpec` of `IPRegistry` assumes only that time passes (`WF_vars(Tick)`).

`BanPropagation` assumes that a node's worker goes on with the message it has,
that node and status consumer reconnect (both retry for ever), and that the
status consumer applies what it has.

`Services` states the fairness of its components.  All are weak but one:
goroutines that can go on do, timers fire, the ticker of the panel client
ticks, network deadlines pass.  One formula often joins what two components
promise, such as the step of a log worker and the step of a write pump; since
only one of them runs in a behaviour, this is the fairness of each.  A mutex is
acquired under strong fairness, because `sync.Mutex` hands itself over to a
goroutine that has waited for a millisecond.  Not assumed: that the broker comes
back, that a command ends, that a browser or a shell goes on, that the panel
stops changing (its changes are bounded), that a shutdown begins.  Assumed and not
guaranteed by the code: that an SSH handshake ends (`ssh.Dial`'s timeout bounds
the TCP connection only), and that the shell takes its input or the connection
breaks (`stdin.Write` has no deadline).

### Where code and documentation disagree

* `SHARING_SUSTAIN_SECONDS` is documented as the minimal duration of a
  *continuous* excess (`ffxban_conf/.env.example:200`).  `ExceedSince` is reset
  only by an entry that complies, so silence counts as excess
  (`audit_sustain`: two exceeding entries with a gap longer than the source
  window give a trigger).
* The geo analysis is documented for countries active *at the same time*
  (`.env.example:243`).  `CountrySeen` only grows, so countries seen one after
  the other are a mismatch (`audit_geo`).
* `SetIPNode` is documented to store the node of an address for the TTL
  (`redis.go:240`).  The script that runs next purges the node of an address
  that returns after its own TTL, the one just stored included
  (`registry_node`).  The node held in memory and the repair on the details
  page (`RepairNode`) hide this until a restart.
* `CleanupOrphanMappings` is documented to delete keys whose address is no
  longer in `user_ips` (`redis.go:447`).  It checks and deletes in different
  round trips, so an address recorded in between loses its node, or its
  `ip_ttl` and with it its place in the count (`registry_housekeeping`).

## 4. Proofs

`SharingDetectorProofs` proves, for any finite or infinite sets of users,
workers and addresses, any positive thresholds, any ladder and any set of
failures:

| Theorem | Statement |
|---|---|
| `TypeCorrect` | `Spec => []TypeOK` |
| `TriggersDisciplined` | `Spec => []TriggerDiscipline` |
| `ViolatorsConfirmed` | `Spec => []ViolatorIffConfirmed` |
| `BanlistsJustified` | `Spec => []BanlistJustified` |
| `PublicationExclusive` | `Spec => []OnePublisher` |
| `PermanentBansBacked` | `Spec => []PermanentBacked` |
| `EscalationSound` | `Spec => []OverstatedOnlyByResends` |
| `BanlistExits` | `Spec => LeavesBanlistOnlyWhenCleared` |
| `DetectorImplementsLifecycle` | `Spec => Lifecycle` |

Assumptions: `ThresholdAssumption` and `ConfigAssumption` of `SharingDetector`,
evaluated by TLC in every run.

None of the properties is inductive alone.  `Inv` (theorem `Invariance`)
strengthens them:

* `StatesInv`: each record has the shape all handlers rely on: triggers finite,
  spaced and no later than `lastTriggerAt`, violator exactly when confirmed,
  ban-list entries and evidence justified.  The lemmas about the pure
  operators carry a weaker *draft* through the first half of the critical
  section, where triggers have changed and the status has not, and `JudgeInv`
  restores the full shape.
* `WorkerInv`: what each stage of a publication has established about the
  worker's locals.
* `OnePublisher`: needed to show that `SettleBan` gives back a lock nobody else
  holds.
* `BackedInv`: a worker that is about to settle a permanent ban has published
  it and recorded its addresses.
* `CounterInv`: everything that may become a user's count (record, loader,
  answers, queue plus Redis) is bounded by its bans and the `INCR`s that were
  applied twice.

The induction step has one lemma per action.  The refinement proof classifies
each step by its effect on one user's standing and lock (`Effect`) and maps it
to `Accuse`, `Enlist`, `Publish`, `Clear`, `Restart` or a stutter.

`IPRegistryProofs` proves, for any finite set of addresses, any callers, any
set of TTLs, any limit, cooldown and housekeeping budget
(`RegistryAssumption`, evaluated by TLC in every run of the registry):

| Theorem | Statement |
|---|---|
| `RegistryTypeCorrect` | `Spec => []TypeOK` |
| `ExpiriesAgree` | `Spec => []SetOutlivesAddresses` |
| `RegistryImplementsWindow` | `Spec => Window` |

`SetOutlivesAddresses` is not inductive: a housekeeping pass could raise the
remaining time of an `ip_ttl` key above that of the set.  `Inv` (theorem
`RegistryInvariance`) adds that under one TTL no address has more time left
than the TTL (`KeysInv`), hence no pass ever finds anything to cut
(`KeeperInv`), and that a pass exists only if housekeeping is on, which is what
allows the abstract `Forget`.  In the refinement, `CheckAndAddIP` and
`LoseReply` are `Sight`, with the answer delivered or not; a `Tick` that ends
the set is an abstract `Tick` that loses what had more time left, which is
nothing under one TTL.

`EntryProcessingProofs` proves, for any finite sets of workers and addresses,
any keys, limits, windows, cooldowns, delays and faults under `EntryAssumption`
(finite sets, a positive TTL and cooldown; no relation between the times):

| Theorem | Statement |
|---|---|
| `EntriesTypeCorrect` | `Spec => []TypeOK` |
| `StaleEvidenceIsBounded` | `Spec => []StaleEvidenceBounded` |
| `OffendersAreBlocked` | `Spec => []OffenderBlockedInTime` |

Neither property is inductive.  `Inv` says that

* what a worker's stage implies for its answer and its entry (`StageInv`), and
  that clears come in the order of their blocks (`TimersInv`);
* every answer `block`, every queued clear and every timer is accompanied by
  what the cooldown it began has left, and while no clear was lost, the answers
  on old evidence, the cooldown that runs and the time to the next clear fit
  into the time from an answer to its clear (`ClearInv`): each such answer has
  cost a cooldown of that budget;
* an offender waits for no more than the cooldown that runs, or for a worker
  whose answer `block` will not be declined while the offence lasts, since what
  it counts contains every address seen lately (`WaitInv`).

`BanPropagationProofs` proves, for any nodes, finite sets of addresses, any
longest duration, any number of orders and failures, and both kernels
(`PropagationAssumption`):

| Theorem | Statement |
|---|---|
| `PropagationTypeCorrect` | `Spec => []TypeOK` |
| `OrdersAreEnforced` | `Spec => []EnforcedAsOrdered` |
| `PanelIsTruthful` | `Spec => []PanelTellsTruth` |

Neither property is inductive, for both speak of empty queues.  On the way out,
`MailInv` follows the *last* undelivered message that names an address: for a
node that missed nothing it is the last order the exchange took, and when there
is none the node's set conforms already.  On the way back, `ReportsInv` says
that every report of a success that waits at a node agrees with the node's set
(on a kernel that renews timeouts, as everything about reports), since a worker sends the reports of one message before it takes the next; and
`QueueInv` that of the reports in the status queue the last success of a node
about an address agrees with that node's set unless the node has newer ones to
send, and that the list of bans does when no such report waits.  Time keeps all
three, as a ban, its report and its entry run out together.  The proof led to a
correction of the module, which had taken the second copy of a duplicated order
off the queue together with the first.

Four modules prove theorems about `Services`, hence for the components as they
are composed and checked there, under `ServicesAssumption`, the conjunction of
the components' assumptions.  Each component has a lemma that a step of another
part leaves its variables alone (`QueuesAlone`, `HubAlone`, ...).

| Module | Theorem | Statement |
|---|---|---|
| `WorkQueuesProofs` | `QueuesTypeCorrect` | `Spec => []WQ!TypeOK` |
| | `ShutdownDrains` | `Spec => []CleanDrain` |
| | `QueuesImplementDelivery` | `Spec => ImplementsDelivery` |
| `MessagingProofs` | `HubTypeCorrect`, `PublisherTypeCorrect` | the components' `TypeOK` |
| | `NeverSendsOnClosed` | `Spec => []NoSendOnClosed` |
| | `CopiesStayTogether` | `Spec => []CopiesContiguous` |
| `PanelProofs` | `ConfigTypeCorrect`, `LoginTypeCorrect`, `CacheTypeCorrect` | the components' `TypeOK` |
| | `OverridesAgree` | `Spec => []CopiesAgree` |
| | `LocksEnd` | `Spec => LockNotProlonged` |
| | `LimitsAreThePanels` | `Spec => LimitsFromPanel` |
| `NodeProofs` | `RunningIsOnline` | `Spec => []AliveIsOnline` |
| | `DeadStaysOffline` | `Spec => []DeadIsOffline` |
| | `CountsTakeTheWindow` | `Spec => CountsWindow` |
| | `CommandsTypeCorrect`, `TerminalTypeCorrect`, `CountTypeCorrect` | the components' `TypeOK` |
| | `ServicesTypeCorrect` | `Spec => []TypeOK` |

The inductive invariants:

* `QueuesInv`: an accepted batch without outcome is in exactly one place, the
  channel or the hands of one worker (`PlacesInv`); a channel is closed only
  when `main` has left the server behind, and no handler is left after a clean
  shutdown (`MainInv`).  The refinement maps each step to the one batch whose
  fate it changes (`FateBecomes`), or to a stutter (`Unseen`).
* `HubInv`: the connection of a client whose channel is closed is over, and
  that of a member is not, so that no member's channel is closed; nobody
  panicked.
* `PubInv`: who tries holds the mutex; who has not tried yet has no copy on the
  exchange; nothing follows a trying caller's first copy but its own copies.
* `ConfigInv`: requests that overlap are disturbed, and an undisturbed one has
  brought along every copy it has passed (`AloneInv`); unless something tore
  them, the copies agree when nothing is under way (`AgreeInv`); what is saved
  passes the validation of a load (`PassInv`).
* `CacheInv`: what a reload has read of a user is a limit the panel had for it
  during the reload, or nothing while the user is still ahead of the offset
  (`ReadInv`), which is what a reload that is cut short then stores; a
  user appears once in the panel's list (`PanelInv`).  An entry removed below
  the offset moves others past it; those are the users whose absence
  `LimitsFromPanel` allows.
* `HealthInv`: while the blocker reports, the age of its beat, or of one of the
  two connections, is *covered*: by the next heartbeat, which is due within a
  period, or by a report that waits and will replace the beat in time (`Covers`,
  `BeatsInv`); no stamp of a dead node is newer than its death or its last entry
  (`StampsInv`).  `RunningIsOnline` follows as connections older than the
  longest gap cannot be covered, hence the beat is, and is no older than the
  gap.
* `CommandsInv`: connections belong to goroutines that hold a slot, of which
  there are at most `MaxParallel`.
* `CountInv`: an event that is missing from the record is older than the
  heuristics window, by which every worker prunes.

Only model-checked: the liveness properties (`PendingSettles`,
`SilentUserForgotten`, `PropagationSettles`, `ShutdownEnds`, `PanelsHear`,
`CallsReturn`, `LimitsCatchUp`, `CommandsReturn`, `TerminalEnds`), which need
fairness and `ENABLED` and are beyond this prover; and `RungMatchesHistory`,
which holds for the prompt instance of `detector_rungs` only.  Every other
property of a passing run is a theorem.

Run with `tlapm SharingDetectorProofs.tla` and so on for the eight proof
modules, `tlc -config detector.cfg MCSharingDetector`,
`tlc -config registry.cfg IPRegistry`, `tlc -config services.cfg MCServices`
and so on for the runs.

## 5. Plan

Done: all modules of section 2, model-checked; every safety property, action
property and refinement of the passing runs proved, save for
`RungMatchesHistory`.

Next:

1. `SharingDetector`: `RungMatchesHistory` under an assumption that states the
   prompt instance (no failure but the broker's, no tick during a round trip);
   the invariant has to relate the queue of increments to Redis.
2. `NodeCommands` and `SshTerminal`: safety facts behind `CommandsReturn` and
   `TerminalEnds` (a slot is always held by a goroutine that can go on or whose
   timer runs), as invariants in the runs and as theorems.
3. `BanPropagation`: refinement of an abstract specification of what a node
   enforces, now that its invariant is known.

## 6. Not modelled, and why

* Read-only API handlers, alert texts, panel JSON decoding, monitoring output,
  HTML and deployment scripts have no state that the enforcement depends on;
  `PROJECT.json` names each with its reason.
* The panel's password, the nodes' SSH credentials and the device reports are
  single Redis keys, written whole by one handler.  An error in reading the
  existing credentials of a node is ignored (`server.go:1654`), so that an
  update with empty fields, meant to keep them, erases them; the execution
  then falls back on the global ones (`server.go:1523`).  Neither has a run.
* Provisioning only looks up the caller's address among the panel's nodes, and
  system information only reads `/proc`.
* The network classifier's cache only decides whether an address is mobile,
  which `SourceCount` leaves open at each lookup.
* HWID devices, profiles and node names of the panel client follow the course
  of the limits in `PanelCache`; a failed HWID fetch leaves the devices out of
  that reload (`client.go:433`).
* The configurations in which the detector can never confirm anybody
  (`(TriggerCount-1) * TriggerMinInterval > TriggerPeriod`) are not excluded by
  the update handler; this is a property of values, not of steps.
* The SCAN of the housekeeping starts at cursor 0 in every pass
  (`redis.go:496`); keys beyond its budget are left to their own expiry.
* Code that nothing calls (`hwidGuardRejectsBlock`,
  `shouldBlockByNetworkPolicy`, `buildHeuristicMetrics`,
  `countConcurrentSourcesLocked`) has no behaviour to model.
