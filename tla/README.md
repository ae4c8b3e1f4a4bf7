# Zenstier in TLA+

A specification of the parts of Zenstier whose correctness depends on ordering,
concurrency and failure: the agent that runs commands on a host, the backend that
dispatches them, records them and decides when to give up on them, its background
jobs, the access of users and devices, and the pages that operators use.

## 1. The system

Zenstier runs shell commands on a fleet of hosts. Four kinds of process take part
and share three stores:

| process | code | talks to |
|---|---|---|
| agent, one per host | `agent/` (Go) | broker: command, group, status and result topics |
| web (Next.js actions, API, SSE) | `src/app`, `src/server/modules` | Postgres, Redis, broker |
| ingest worker | `src/server/worker` | broker, Postgres, Redis; runs the background jobs |
| browser | `src/components` | SSE stream of the web process, server actions |

Stores: Postgres (all rows), Redis (rate limits, pending enrollment secrets, event
channels), Mosquitto with dynamic security (sessions, retained status, ACLs).

### Inventory

For each component: state; operations; what is hard; what makes it correct.

* **Agent dispatcher and dedupe cache** (`dispatch`, `dedupe`). State: the bounded
  queue, the workers' jobs, the map of running commands, the cache with its order
  slice. Operations: HandleMessage on several goroutines, run, cancel, shutdown.
  Hard: duplicate deliveries that race, eviction by age and capacity, the gap between
  the cache and the send, messages lost with the process. Correct if a command runs
  once unless the cache lost it, is never dropped silently, and is never reported with
  two verdicts.
* **Executor** (`executor`). State: a process group, two capped writers, two chunk
  emitters. Hard: flush and close order, sequence numbers over both streams, a child
  that ignores its signal. Correct if it always returns and the chunks add up to the
  output.
* **Agent MQTT client** (`mqttc`). State: connection, session id, group list.
  Operations: connect, will, heartbeat, UpdateGroups, disconnect. Hard: the will of an
  old connection, subscribe failures.
* **Enrollment** (`tokens`, `enroll`, API route, agent `enroll`). State: device row,
  token row, secret in Redis, broker client. Hard: the four are written one after the
  other; redeem, revoke and expire race. Correct if a credential is issued at most once
  and a revoked device cannot connect.
* **Dynamic security client** (`dynsec`). State: one waiter, a timer. Hard: responses
  carry no correlation.
* **Command dispatch** (`command.service`). State: batch and history rows. Hard:
  insert, publish and the final update are three steps and the agent may answer between
  any two.
* **Worker: results and reaper** (`handlers`, `main`). State: history rows, the grace
  window. Hard: messages are handled concurrently, the reaper writes what it read
  earlier. Correct if the history never claims what did not happen and always settles.
* **Presence** (`handlers`, `main`, `mqttc`). State: status, last seen, session id.
  Hard: the late will of a superseded session, the reaper, broker restarts. Correct if
  a connected device ends ONLINE and a gone one OFFLINE.
* **Device groups** (`group.service`, `handlers.pushGroups`, `mqttc.UpdateGroups`).
  State: row, broker group and role, agent subscriptions. Hard: the broker kicks the
  client it modifies; every step may fail alone. Correct if the three converge.
* **Teams, roles, invites** (`teams`). State: memberships, roles, invites. Hard: checks
  and actions are separate statements. Correct if a team keeps an owner and nobody
  raises a rank above their own.
* **Schedules, alerts, retention** (worker jobs). State: next run, rule state, buckets.
  Hard: overlapping passes, a crash after the claim, partly pruned hours.
* **Rate limiter** (`ratelimit`). State: token buckets in Redis; atomic by Lua script.
* **Event stream** (`bus`, `api/events`, `event-stream.tsx`). State: subscriptions and
  reference counts, replay buffer, the reducer's state. Hard: snapshot versus
  subscription, replay versus live.
* **Authentication and two-factor** (`auth`). State: counters of failed sign-ins, TOTP
  secret, recovery codes. Hard: checks and charges, reads and writes of the account are
  separate calls. Correct if the budget of failures is kept up to the sign-ins under way,
  and nobody is locked out by a secret they never scanned.
* **Consoles** (`components/console`, `components/ai`, `api/ai/chat`). State: targets,
  scrollback, numbered proposals, calls under way. Hard: the page stays usable while
  calls and a stream are under way. Correct if a number always means the command shown.
* Without state worth modelling: host facts and metrics, logging, the rendering of the
  dashboard, seeding scripts and packaging.

How the modelled parts interact: dispatchCommand inserts rows and publishes; the broker
delivers each message to an agent late, repeatedly or never; the dispatcher publishes
queued, running and an outcome; the worker writes them into the same rows; the reaper
writes TIMEOUT into rows whose deadline has passed. Web process and worker share
nothing but the table.

## 2. Modules

| module | models | EXTENDS / INSTANCE |
|---|---|---|
| `AgentDispatcher` | one agent: cache, queue, workers, process | instance of `AgentContract` |
| `AgentContract` | what agents promise the backend, per command | |
| `CommandTracking` | dispatchCommand, handleResult, the reaper | |
| `CommandSystem` | backend and agents together | extends `CommandTracking`, instance of `AgentContract` |
| `Presence` | connections, wills, handleStatus, the reaper's device half | |
| `Teams` | `team.service.ts`, roles, invitations, registration, team context | |
| `Enrollment` | tokens, redemption, revocation, `reconcile-broker.ts` | |
| `GroupMembership` | groups in the database, at the broker and in the agent | |
| `Dynsec` | the control client of the broker | |
| `Schedules`, `Alerts`, `MetricRetention` | the worker's jobs | |
| `CommandBudget` | the token buckets of commands | |
| `EventStream` | bus, SSE route, live state of a dashboard | |
| `CommandOutput` | capture and live chunks of one command, up to the screen | |
| `ConfigFile` | `config.Save`, `config.Load` and their callers | |
| `SignIn` | sign-in, its limiter, two-factor settings | |
| `Consoles` | command console, AI console, `/api/ai/chat` | |
| `SafetyParts`, `ProgressParts` | parts that share no state, side by side | extend the parts |
| `AgentDispatcher_proofs`, `CommandSystem_proofs`, `Presence_proofs` | theorems | extend the module they are about |
| `Access_proofs` | theorems | extends `Teams`, `Enrollment`, `SignIn` |
| `Delivery_proofs` | theorems | extends `EventStream`, `GroupMembership`, `Dynsec`, `Schedules` |
| `Resources_proofs` | theorems | extends `MetricRetention`, `CommandBudget`, `CommandOutput`, `ConfigFile` |
| `SafetyParts_proofs` | theorems about `Consoles` and `SafetyParts` | extends `SafetyParts` and the three above |
| `ProgressParts_proofs` | theorems about `Alerts` and `ProgressParts` | extends `ProgressParts`, `Delivery_proofs` |
| `AgentParts` | the dispatcher and presence side by side, their fairness | extends both |
| `MCAgentParts`, `MCCommandSystem`, `MCSafetyParts`, `MCProgressParts`, `MCSchedules` | instances for TLC | |

### AgentDispatcher

| variable | code |
|---|---|
| `handler` | the program counter of each goroutine in `HandleMessage` |
| `entry`, `order`, `aged` | `Cache.entries`, `Cache.order`, entries older than the ttl |
| `queue` | the buffered channel `Dispatcher.queue` |
| `job`, `running`, `interrupted` | what `run` executes, `Dispatcher.running`, cancelled contexts |
| `stopping`, `restarts` | the daemon's context, the process |
| `results` | what was handed to `PublishResult`; only grows, since the receiver may see it late or twice |
| `deliveries`, `received`, `expired` | the broker and the clock |
| `executed`, `repeated`, `forgotten` | history, read by properties only |

An action is one critical section or one channel operation of the code, in the order
of `HandleMessage`: `RejectExpired` or `Receive`, `Add` (evict, look up and insert under
the cache's lock), then `Replay` for a duplicate or `Enqueue`, `Acknowledge` for a first
delivery, or `QueueFull`, `RejectBusy` when the send would block. The acknowledgement
is a step of its own because a worker can have started, and even answered, the command
before it. Workers `Take` and `Finish`; `TakeWhileStopping` is the select that picks the
queue although the context is done. A publish that follows a critical section is merged
into it where nothing in the agent reads `results` and a crash in between shows nothing
else (`Replay`, `RejectBusy`, `Finish`).

Abstracted: payloads, output and chunks; `expires_at` is the set of ids whose time has
passed; age is a set of entries that grows in the order of insertion, because the ttl is
the same for all. Left out: messages that do not parse (ignored) or do not validate
(rejected without touching state), and `update_groups`, which belongs to groups.

### AgentContract

The causality the backend relies on, and nothing else: only what was received is
executed or answered, and `completed`, `failed`, `timeout` and `canceled` are published
only for a command that was executed. It deliberately allows what the dispatcher
really does: a duplicate of a waiting command is told `running`, and a late copy of a
command that has completed is told `rejected`.

### CommandTracking and CommandSystem

A command is the pair of batch and device that `commandIdFor` hashes. `phase` is the
progress of one `dispatchCommand` call: rows inserted, published (one message per
target, in any order, or one broadcast), marked dispatched or failed. `HandleRunning`
and `HandleTerminal` are `handleResult`; its read and its write are one step because no
step here deletes a row, and the conditional `updateMany` is atomic in the database.
The reaper is split where the code awaits: `ReapRead` takes a page, `ReapWrite` writes
one command of it, `ReapAborts` is an error or a restart in between. `overdue` is time:
it depends on `dispatched_at` and is the same for all commands of a batch.

In `CommandSystem` the agents take the steps of `AgentContract` with `received` bound to
what was published, so whatever the dispatcher does between delivery and answer is
covered, crashes and restarts included. `queued` is left out there because the worker
writes nothing for it.

### Presence

| variable | code |
|---|---|
| `session`, `conn` | `Client.sessionID` of the running process; its broker connection, announced once OnConnect has published "online" |
| `wills`, `retained`, `young` | the broker: wills still to be published, the retained status, uptime below 120 s |
| `attached`, `wire` | the worker's connection and the messages on their way to it |
| `slot` | one invocation of `handleStatus` that is between its start, its read and its write |
| `grace`, `reaping` | `graceUntil`; what passes of `reap` have read and not written |
| `status`, `currentSessionId`, `fresh` | the device row; `fresh` is `lastSeenAt` younger than `STALE_AFTER_MS` |
| `troubled` | history: devices ever cut off or silent, read by properties only |

`main.ts` starts `onMessage` without waiting for the one before, so `OnMessage`,
`ReadDevice` and `WriteDevice` of several slots interleave, and `HandlerFails` is the
rejection that `onMessage` logs. `ReapRead` and `ReapWrite` are split where `reap`
awaits; passes may overlap since `setInterval` does not wait for them. The broker and
the network are external: a will is published some time after its connection broke,
possibly after the agent is back (the case the comment on `handleStatus` describes); a
restart drops connections and wills and keeps retained messages only with persistence.
An agent whose command subscription failed stays `connected` without announcing itself,
but its heartbeats go out all the same. Left out: redelivery of a status message
(handled like the next heartbeat), deletion of a device, metrics, `pushGroups`.

### The parts

Each of these modules keeps its state in variables named after the code's and has one
action per statement at which something else may run: a call to Postgres, Redis or the
broker, an unlock, an await. What a request has read is kept in its record until it
writes. A request that may fail has a step for it, which is a crash as well.

* `Teams`: one team. A request resolves its context (`GetTeamContext`), checks
  (`CheckHere`, `CheckAnywhere`) and writes, and the rank and permissions it acts on are
  those of its first step. Other teams are "elsewhere". Constraints and cascades of the
  schema are part of the writes (`Unused`, `WithoutInvites`, `DeleteTeam`).
* `Enrollment`: one device. `createEnrollmentToken` call by call, redemptions and
  removals (revoke, delete the device, delete the team) that overlap, expiry,
  `reconcile-broker --fix`. `Ask` is a command to the broker: accepted, refused, or carried
  out although the caller is told it failed.
* `GroupMembership`: one device. `pusher` is what `handleStatus` has read and not yet
  sent, `updater` is one execution of `UpdateGroups`. The broker disconnects a client whose
  groups it changes. `hastened` is history: groups whose deletion began before createGroup
  had provisioned them. createGroup writes the row first, so such a deletion finds nothing
  at the broker, and the group is made there afterwards.
* `Dynsec`: a batch is its number. Responses return in order and belong to whoever
  waits.
* `Schedules`: a pass reads a page of due rows, claims each with the conditional update and
  dispatches. `NextSlot` is the cron expression. A server action is two steps
  (`scheduleCall`): `createSchedule` and `setScheduleStatus` work out the next run and write
  it later, whatever passes have claimed meanwhile; only the write of `runDueSchedules` is
  conditional. Web process and workers read one clock. `ran` and `setBack` are history: the
  occurrences dispatched, and the schedules that a late write armed for a time that had
  been claimed.
* `Alerts`: one rule and one device; instants are ages.
* `MetricRetention`: an aggregate is the set of samples it was computed from, and a roll-up
  replaces it by the set of what is left.
* `CommandBudget`: the Lua script is one step, tokens are integers in units of 1/`Unit`,
  the time stamp is an age.
* `EventStream`: a status is the number of its version. `start()` of the route runs in one
  step because its replay needs an id that no browser ever has.
* `CommandOutput`: a unit of output is its position. The goroutines are the copiers, the
  ticker and `Run`; the reducer of the browser takes chunks in any order and more than once.
* `ConfigFile`: names lead to inodes; a crash of the host loses what was not synced.
* `SignIn`: a code is the secret it was computed from and its period. `page` is what a
  settings page shows, and the step of its request.
* `Consoles`: a reply is a sequence of blocks, prose or a fenced command. The scrollback
  holds prompts, replies and runs; notes are left out.

`SafetyParts`, `ProgressParts` and `AgentParts` put parts side by side that share no variable, so that
one run checks them all: `part` is chosen in the initial state and says whose steps are
taken. Nothing is lost by it: no action of a part reads a variable of another, so a
behaviour in which several of them move is, for each property, the behaviour of the one
part it is about with stuttering in between.

## 3. Runs

| run | question | instance |
|---|---|---|
| `agent_safety` | safety of one dispatcher and `KeepsContract`; nobody is shown offline without reason | 2 ids, 2 handlers, 1 worker, queue 1, cache 2, 3 deliveries, 1 restart; 1 device, 2 sessions, 2 slots, 1 message on the wire, 1 pass |
| `agent_liveness` | answers arrive; status converges | same with 2 deliveries; 1 device, 1 session, 1 slot, 2 messages on the wire, 2 passes |
| `command_system` | the history is truthful and settles | 1 batch, 2 devices, page of 1, two exit outcomes |
| `late_running` | README: a late running never overwrites a result | expected violation |
| `broadcast_history` | README: a broadcast keeps the per-device history | expected violation |
| `late_will` | README: a late will cannot mark a healthy device offline | expected violation |
| `safety_parts` | what the parts of `SafetyParts` never do | below |
| `progress_parts` | what the parts of `ProgressParts` come to do | below |
| `schedule_twice` | schedule.service.ts: an occurrence is never dispatched twice | expected violation |
| `retention_rerun` | retention.service.ts: a re-run is harmless | expected violation |
| `config_saved` | config.go: Save is atomic | expected violation |
| `broadcast_budget` | README: a broadcast spends one token per target | expected violation |

Why these bounds suffice for what they ask: two handlers and two ids give every race
between a duplicate, its original and a competitor for the queue; a queue of one with one
worker fills with two commands; a cache of two is full when both ids are in it, so a
third delivery evicts; three deliveries allow the original, its duplicate and the
eviction. Liveness needs only the race and the full queue, hence two deliveries. In the
system one batch suffices because batches share only the reaper's page, and a page
smaller than the number of commands is reached with two devices. For presence one device
is enough, since devices share only the reaper's pass, which treats them one by one; two
sessions and two slots give the will of an old process against the "online" of a new one
(`agent_safety`), and two passes a write from an older read than the last
(`agent_liveness`; `NoFalseAlarmHolds` covers any number). The sessions and the slots of
the safety run are symmetric. Deadlock is not
checked: in the command models, which stop when no messages are left, and in the parts,
whose requests and clocks run out; presence and the token buckets never stop.

In the two runs of parts everything that may overlap is there twice: requests on a team of
two users with the three system roles and a custom role (an edit takes the permissions
of a role away), one invitation per user;
redemptions of a token, next to one removal, the creation and a reconciliation; passes of
the scheduler with a page of one, over one schedule that is due every minute and two server
actions (`safety_parts`), and over two schedules that are due in turn and one server action
(`progress_parts`), with crashes as long as the clock runs; passes of retention over hours of two samples; streams of output that
fill the ring of one and go round it; dashboards on one device whose status changes twice
and a Redis connection that is lost once; calls of Save with one crash, over three inodes,
since two calls and the file of before hold at most three at once; sign-ins of two browsers
to one account, next to two settings pages that draw two secrets; passes of the alerts with
two changes and one failure; operators who create, move and delete groups at once, with two
edits (`safety_parts`), and executions of `UpdateGroups` with two edits of one operator and
one fault (`progress_parts`); four batches to the broker over two lost connections. The limiter's window is one tick, because
a counter only matters as present or expired. The consoles have one device, one group and
one command: what is at stake is which number stands beside which block, so two lines and
five entries, with replies of two blocks, reach a second reply after a cleared or failed
one. The limits of `/api/ai/chat` are small enough to be met. Clocks stop at a last minute,
slot or version, past the point where what they start has come up, expired and gone.

Properties, by the hazard they answer:

* `AtMostOnce`: a command runs twice only after the cache lost its id.
* `SingleVerdict`: a command executed once is never reported with two verdicts.
* `KeepsContract`: the refinement the composition rests on.
* `NothingDroppedSilently`, `QueuedIsAnswered`: every delivery is answered unless the
  process goes away, every queued command gets an outcome unless it is told to stop.
* `ExecutionIsRecorded`, `SuccessMeansExecuted`, `NoEarlyTimeout`: the history against
  what happened.
* `OnlyDispatchReopens`: no reordering takes a finished command back to an open status,
  except dispatchCommand's own last write.
* `NoFalseAlarm`: with reads that are stale when used, a device is shown offline only if
  its connection was ever cut or it was ever silent for `STALE_AFTER_MS`.
* `ConnectedEndsOnline`, `GoneEndsOffline`: whatever happened before, a device that stays
  connected ends online, and one that stays away does not stay online even if its will
  was lost.
* `DispatchedSettles`: every dispatched command ends in a terminal status.
* `ExactlyOneOwner`, `RolesAreOfTheTeam`: no overlap of stale checks adds or removes an
  Owner, or assigns a role that is gone.
* `RevokedIsDead`, `HandedIsLive`: a revoked credential never comes back, one that was
  handed out works until somebody removes it.
* `DeletedGroupIsGone`, `ListConverges`: a group that is deleted after it was created leaves
  no group and no member at the broker, and the agent's list comes to be the database's.
* `AnswersMatchUntilAFailure`, `EveryBatchSettles`: how far a response without an id can be
  trusted, and that the chain of batches never gets stuck.
* `DispatchedOnce`, `ActiveIffArmed`, `EveryOccurrenceIsTaken`: passes and workers dispatch
  an occurrence at most once, unless a late resumption has set its schedule back; none is
  left behind; and a paused schedule is not armed again by a pass.
* `AlertSettles`: stale and failed passes do not leave a rule firing or quiet for good.
* `PrunedIsRolled`: a raw sample is deleted only while the bucket of its hour aggregates it.
  It says nothing of what becomes of the bucket (`retention_rerun`).
* `AdmittedWithinBudget`: per key, what is admitted never exceeds capacity plus refill,
  across expiry of the bucket.
* `EveryUnitOnce`, `CaptureIsHeadAndTail`: chunks carry each unit of output once, and the
  capture is the beginning and the end in order.
* `SubscribedAsCounted`, `DashboardConverges`: the bus is subscribed to what is counted, and
  a dashboard comes to show the rows. The first is relative to the count: a stream that
  unsubscribes twice may take the reference of another, which it does not see.
* `WholeUnlessOverlapped`: a crash never leaves a torn config file unless two calls of
  Save overlapped.
* `OvershootIsBounded`, `EnabledSecretIsScanned`: failed sign-ins exceed the budget by those
  under way at most; two-factor authentication is on only with a secret that was scanned,
  while changes of the settings do not overlap.
* `NumbersMeanWhatIsShown`: the number beside a command, and the number of a run, always
  mean that command.

### Fairness

`DispatcherFairness` is weak fairness of every handler and worker step:
goroutines are scheduled, and `exec.Run` returns because its context has a deadline and
`WaitDelay` closes the pipes of a process that ignores SIGTERM. No fairness is assumed of
the broker, of cancellation, of the clock, of stop or of restart.
`BackendFairness` is weak fairness of time and of the end of a blind window, and strong
fairness of the two halves of a reaper pass: `setInterval` runs passes for ever, so a
pass that is possible again and again eventually happens and is not aborted every time.
No fairness is assumed of messages in `CommandSystem`: commands settle even if no agent ever answers.

`PresenceFairness`: the heartbeat ticker and the reaper's interval fire for ever, a message
that stays on the wire is handled, and time passes (weak fairness); the reads and writes of
handlers and passes do not fail for ever (strong fairness, since any of them may be
rejected). No fairness is assumed of connections, wills, restarts or the worker's
subscription; the liveness properties assume instead that these settle.

`PartsFairness` of `ProgressParts` is weak fairness of the steps that the code takes by
itself: passes that `setInterval` starts for ever, the clock, requests that are under way, agents that
reconnect and send heartbeats, the timer of a batch, `ioredis` and `EventSource` that
connect again. Nothing is assumed of operators, of the responses of the broker, or that
a call succeeds: what fails is bounded instead (`FailLimit`, `FaultLimit`, `DropLimit`,
`LossLimit`), or comes to an end with the clock (`CrashPass`), and the properties speak of what is left after that.

### What the expected violations show

* `late_running`: the result is handled while dispatchCommand still waits for its publish
  to be acknowledged; its final update puts the row back to DISPATCHED, and a late
  `running` then passes the guard of the worker. README.md:46-49 promises otherwise.
* `broadcast_history`: members of the group that were offline in the database or over
  their limit still receive a broadcast; they execute it and their results are dropped as
  unknown. README.md:76-79 promises a history row for each.
* `late_will`: the session id is drawn with the process, so a reconnect keeps it. The late
  will of the earlier connection carries the id the row holds, passes the fence, and the
  device is OFFLINE until its next heartbeat. (With two processes the same happens only if
  the will's read precedes the write of the new "online".) README.md:529-531 and
  `src/lib/protocol.ts:157` promise otherwise. `ConnectedEndsOnline` shows the heartbeat
  repairs it.
* `schedule_twice`: `setScheduleStatus` works out the next run, a pass claims that very slot
  and moves the schedule on, and then the resumption is written and arms the slot again, for
  another worker to dispatch a second time. schedule.service.ts:188-190 promises that two
  workers can never both dispatch an occurrence. `DispatchedOnce` shows that nothing but such
  a write brings it about.
* `retention_rerun`: the cutoff of raw samples is not aligned to the hour, so each pass prunes
  part of one. The next pass rolls that hour up from the rest, and `ON CONFLICT DO UPDATE`
  replaces the bucket: what was pruned is then in no table. retention.service.ts:34-36 calls
  a re-run harmless, and 63-64 says a failed roll-up can never silently destroy data; the
  latter holds as far as `PrunedIsRolled` goes.
* `config_saved`: two messages about groups at once run `Save` twice; the second removes the
  temporary file of the first and creates its own under the name that the first renames
  onto config.yaml. A crash before the second has written leaves an empty file.
  config.go:146 promises otherwise.
* `broadcast_budget`: the script takes one token of the user per request, whatever the
  number of devices. README.md:223 and ratelimit.ts:9-10 promise otherwise.

## 4. Proofs

Proved with TLAPS for every value of the constants that satisfies the named assumptions,
which TLC evaluates in the runs:

| assumption | says | because |
|---|---|---|
| `AgentAssumption` | sizes are positive | `config.Load` and `dedupe.New` see to it |
| `TrackingAssumption` | the reaper's page is not empty | `take` is a constant |
| `PresenceAssumption`, `EnrollmentAssumption`, `DynsecAssumption`, `GroupsAssumption` | the bounds are numbers | bounds of the model |
| `SchedulesAssumption` | the next slot lies after the minute it is counted from | `nextRun` of schedule.service.ts |
| `TeamsAssumption` | custom roles rank from 1 to 99 and are not named like system roles | the role schema of _actions/teams.ts |
| `SignInAssumption` | limits and window are positive, browsers are finitely many | the constants of auth.ts |
| `EventStreamAssumption` | the queue of a stream is not empty, tabs are finitely many | reference counts are numbers |
| `RetentionAssumption` | raw samples are kept for an hour or more | env.ts takes whole, positive hours; half an hour would delete what cannot be rolled up yet |
| `BudgetAssumption` | `Unit` and `TickSeconds` make refills whole, the device targets are finitely many | the choice of the integer scale |
| `CommandOutputAssumption` | `MaxOutput` is two or more | a limit of one makes the ring empty, and `Write` takes its index modulo zero |
| `ConsolesAssumption` | limits are positive, members of groups are hosts, prose is no command | constants of the route and of ai.service.ts, bounds of the model |
| `AlertsAssumption` | durations and bounds are numbers | the rule schema of _actions/alerts.ts |
| `ConfigAssumption` | there are more inodes than calls of Save | a call always finds a fresh one |

* `TypeCorrect`: the type invariant of the dispatcher, including the queue's bound.
* `AtMostOnceHolds`: `OneOwner` and `AtMostOnce`. `AtMostOnce` is not inductive, since
  nothing in it says why a queued command was not executed before. `OneOwner` does: an
  id the cache has not lost has one owner at most, is in the cache while it is owned, and
  is not owned once executed. `Add` makes an owner only of an id that is not in the cache,
  and every step that takes an id out of the cache either records it as forgotten or
  (`RejectBusy`) is taken by the sole owner of an id that never ran.
* `ImplementsContract`: the refinement, from `Causality`: what a handler or the queue has
  was received, what a worker has was executed, and the cache holds a verdict only for an
  executed command, which is why replaying it is harmless.
* `NothingUnearned`: an invariant of `AgentContract`, `Justified`, carried over to every
  dispatcher by the refinement: whatever is published is about a command that was received,
  and a verdict about one that was executed.
* `OneVerdictEver`: `SingleVerdict`, from `VerdictInv` on top of the types and `Causality`.
  The property only looks at what was said. `VerdictsAgree` adds that the cache repeats
  nothing but what was said, and that a command not yet executed was given no verdict;
  `OneRun` that a command executed once has one worker, and none of its verdicts is out
  while that worker has it. So the only step that says something new says it first.
* `SystemTypeCorrect`, `SuccessIsEarned`, `RecordsFirst`, `TimeoutsAreDue`: the safety of
  the history, from one inductive invariant: rows exist before anything is published
  (`RowsFirst`), a verdict in a message was earned (`VerdictsAreEarned`), and the reaper
  holds only overdue commands (`ReapsOverdue`).
* `ReopenedByDispatchOnly`: the action property `OnlyDispatchReopens`, from the same
  invariant and `IdleHasNoRows`: a batch that was not inserted has no row and is not
  overdue. Without it an insert could meet a finished row, and the reaper's late write could
  make one.
* `PresenceTypeCorrect`: the types of `Presence`, from `TypeInv`, which adds that a
  connection belongs to a running agent (otherwise a message would carry no session).
* `NoFalseAlarmHolds`: `NoFalseAlarm` from `Alarmed`: for a device that is not troubled
  nothing says "offline", neither a will, the retained message, the wire, a handler, a
  reaper pass nor the row, and if it is online its row is fresh. The last part is what
  keeps `ReapRead` from picking it up; the property alone says nothing of messages.

* `ArmedWhileActive`, `OccurrencesRunOnce`: a schedule has a next run exactly while it is
  active, and passes that overlap or crash dispatch no occurrence twice, unless a late
  resumption set its schedule back. The strengthening is `OccurrencesTaken`: an occurrence that was
  claimed or dispatched lies in the past, and before the next run of its schedule unless
  that was set back, so the claim of a pass that read it earlier matches no row; and no two
  passes are dispatching the same one. `CallsAwaitRows` says of the server actions that one
  that creates a schedule is the only one about it and meets no row.
* `OneOwnerEver`, `OnlyRolesOfTheTeam`: a team has one Owner, its founder, and gives and
  offers no role it does not have. Every write acts on a check of the past, so the
  invariant says why the delay is harmless (`RequestsAreHarmless`): a request that has
  passed its checks neither makes an Owner nor touches the founder, since nobody outranks
  an Owner and the only Owner may not leave. `InvitesAreHarmless` says the same of the
  invitations, and `NothingBeforeTheTeam` that none of this is under way when the team is
  created. That the invariant needs no count shows that the race of
  `ensureNotLastOwner` has no effect as long as nothing makes a second Owner.

* `RevocationsHold`, `HandedOutWorks` (`EnrollmentInv`): neither property says what a
  request that is under way will do to the client. `RemovalsAreFinal` does for revocations:
  one that began once the token was complete deletes a client nobody can create anew, so
  when it comes to record, the client is absent. For credentials that were handed out,
  `RecordedIsLive` says it of a redemption that is about to be recorded already, and
  `AliveUntilRemoved` that no reconciliation finds a reason to remove its client.
  `RedemptionsAreCounted` bounds how often the credential is handed out.
* `OvershootBounded` (`SignInInv`): the counter alone is not bounded by the steps that are
  possible, because each sign-in that passed its check is still to be charged.
  `ChargesAreFewer` adds them up: failures counted plus sign-ins under way stay below the
  limit plus the number of browsers. A sign-in that passes the check adds one where the
  counter is below its limit, and a charge turns one of the second into one of the first.
* `NobodyLockedOut`: from `ChecksHoldUntilOvertaken`: what a request of the settings read
  still holds when it writes, unless another change of the account has come between, which
  is what the property excuses. It is the proof that this is all that can go wrong.
* `AnswersMatch` (`DynsecInv`): up to the first failure at most one batch is between its
  publication and its response, and it is the one that waits (`OneUnderWay`); that is what
  makes matching by position right. `DynsecTypeCorrect` adds that batches settle in the
  order of their calls (`SettledInOrder`).
* `SubscriptionsMatch` (`EventsInv`): the property speaks of an empty command queue only.
  `QueueEndsAsCounted` is its generalisation: for each channel the last command in the queue
  that is about it agrees with the reference count, and where there is none the
  subscription does. `EventStreamTypeCorrect` adds that no channel is counted for more
  streams than are live (`NoMoreThanLive`), although cancel and cleanup may both leave it.
* `DeletionIsFinal` (`GroupsInv`): the broker's group is dropped before the row, so the
  property must hold from the drop on (`DroppedIsGone`), and no request may be creating the
  group by then (`DoomedIsCreated`). The proof attempt is what brought to light the order
  of createGroup described at `hastened`.
* `OnlyRolledIsPruned` (`RetentionInv`): what a pass is about to delete is in its bucket
  (`RolledBeforePruned`): the pass computes its cutoff before the roll-up reads the clock, and
  what has arrived in between is younger than an hour (`ArrivingIsRecent`).
* `BudgetsAreKept` (`BudgetInv`): what a key was admitted plus what its bucket still holds is
  within its capacity and refill (`BudgetsHold`). That the expiry of a bucket does not break
  it is the lemma `ExpiryRefills`: a bucket that has expired would have been full.
* `UnitsAreShownOnce`, `CaptureIsFaithful` (`OutputInv`): pieces of output, published or in
  the hands of a goroutine, lie behind what is buffered, are apart from each other and
  leave nothing out (`PiecesAreBehind`, `PiecesAreApart`, `NothingIsLost`); that each unit
  is in exactly one piece follows. `RingOK` says where in the ring the last units are while
  it fills and after it wrapped.
* `ConfigIsWhole` (`ConfigInv`): as long as no two calls overlapped, only one is under way,
  it knows which inode its temporary name leads to, and what it renames is synced
  (`CallKnowsItsFile`); the file that bears the name is never the one that is written
  (`NameIsWhole`).

* `NumbersKeepTheirMeaning` (`ConsolesInv`): `NumbersMeanWhatIsShown` speaks of replies
  that have numbers. What keeps the next reply right is `Scrollback`: ids are handed out
  once, so an update by id changes one entry; the reply under way has no numbers yet
  (`Unanswered`), although its text changes with every delta; and the entry a call will
  answer is a run, never a reply. It is stated of constants, with one lemma per change of
  the screen (cleared, appended, updated, numbered), so that each action is a few of
  these lemmas. `NumbersAreFinal` is the other half, an action property: a number keeps its
  command in every step. Together: "run n" runs what was read beside n, however late.
* `LinesRunInOrder`: the command console never has two calls under way, which is why
  answers may be appended as they come. It follows from `PageState`.
* `NoEarlyAlert` (`AlertsInv`): a rule is recorded as firing only after a breach of its
  minutes. Of the row alone that is not inductive, since an evaluation writes the state of
  the row it has read: `LastingRow` must hold of every row a pass has in hand as well.
* `SafetyPartsBehaveAsAlone`, `ProgressPartsBehaveAsAlone`: a step of the whole is a step of
  one part and a stutter of the others, so that `PartsSpec` implies the specification of
  each part. `RecordsAreKept`, `DataAreKept` and `ProgressIsSafe` carry what is proved of the
  parts over to the modules that the runs check, and so do `SafetyPartsTypeCorrect` and
  `ProgressPartsTypeCorrect` the type invariants.

For each part there is also its type correctness (`EnrollmentTypeCorrect` and so on).

`CommandBlocks` is a recursive function. What it returns for every text is proved without
an induction theorem: `LeastNumber` takes the least number of a set from the
well-foundedness of the finite sets, and `UpToExists` and `UpToTyped` apply it to the least
length at which the function would not exist, or would not be a sequence of blocks.

Only model-checked: the liveness properties, since the prover has no fairness or ENABLED
(`NothingDroppedSilently`, `QueuedIsAnswered`, `DispatchedSettles`, `ConnectedEndsOnline`,
`GoneEndsOffline`, `EveryOccurrenceIsTaken`, `AlertSettles`, `ListConverges`,
`EveryBatchSettles`, `DashboardConverges`), and the expected violations. Every invariant and action property of a passing run has a theorem.
`NothingUnearned`, `NoEarlyAlert`, `NumbersAreFinal` and `LinesRunInOrder` have no run of their
own.

## 5. Plan

1. Done: all modules of section 2.
2. Done: a theorem for every safety invariant, type invariant and action property of the
   passing runs, and the transfer of those about parts to the modules that put parts together.
3. Left: the liveness properties, which stay with TLC.

## 6. Not modelled

Parsing, formatting, logging and rendering, the content of outputs, metrics and e-mails,
TLS and passwords, topic strings, the audit log. They keep no state that a modelled part
reads. Of the dashboard, the pages that show a table and pass its buttons on to an action
that is modelled; of the scripts, those that run once before the system does. Host facts
and metrics are read from /proc. `PROJECT.json` says of each component what is left out.

Known and not covered by a property: a group that is deleted while createGroup provisions it
stays at the broker, without a row; a device whose Subscribe to a new group failed stays
on the list without hearing the group; a command whose publish failed stays PENDING for ever;
a late rejection turns a SUCCEEDED row into FAILED; a second unsubscribe of one stream takes
the reference of another; overlapping passes may announce an alert twice; a call that
rejects leaves the input of the command console disabled. The models have these steps (all
but the failed Subscribe), the properties do not forbid them.

Besides the statements with an expected violation, the code does not keep these, and the
properties about them say what it does keep: enrollment tokens are single-use
(README.md:217), but two redemptions that overlap may both be handed the secret
(`HandedIsLive`); recovery codes are single-use (README.md:192), but two used at once may
leave one valid (`EnabledSecretIsScanned` leaves overlapping changes out); sign-in allows 8
attempts per account (README.md:411), but attempts that overlap all pass the check
(`OvershootIsBounded` bounds them).
