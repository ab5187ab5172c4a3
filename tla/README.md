# RotatoPilot: a verification project in TLA+

RotatoPilot is a controller that watches machines rented from Lightsail-like
panels, decides from probes when a machine's public address is no longer
reachable, asks the panel for a new address, and updates DNS. The controller is
one Go process on one SQLite database (`backend/`), with an agent that runs on
the machines (`agent/`) and a dashboard (`frontend/`).

This directory holds TLA+ models of it, TLC configurations that check them on
small instances, and TLAPS proofs that hold for every instance.

## Inventory

Source paths are relative to the repository; `api/` is `backend/internal/api/`.

| Component | State | Operations | Correct when |
|---|---|---|---|
| Health checks (`api/probes.go`) | `health_status`, `failure_count`, `success_count` of a machine's row; locals of each `checkMachineNow` | run the probes, SELECT the counters, UPDATE them, start an automatic rotation | the three columns agree; no failure is invented; a machine that stays down is detected, one that stays up recovers |
| IP rotation (`api/rotation.go`) | `a.rotations` (a `sync.Map` used as a lock), locals of each `rotate`, the `rotations` table, address and cooldown of the row | `rotate`, `failRotation`, `changeIP`, `retryRotationDNS` | one rotation per machine; the lock never leaks; cooldown and daily limit hold; every change asked for has a row |
| Probe scheduler (`api/scheduler.go`) | latest `probe_results.checked_at` of each probe; goroutines in flight | `schedulerTick` every 15 s | a probe runs when its interval is over, not before, and is never forgotten |
| Probe rules (`api/probes.go`) | `probe_configs` | create, update, delete, run | stored rules are valid; a result belongs to the rule it names |
| Machine registry (`api/machines.go`, `api/api.go`) | `machines` | create, PATCH (read, modify, write), delete, provider sync (upsert) | rows never point nowhere; an opt-out stays; the address shown becomes the real one |
| Provider client (`provider/client.go`) | none | `ListMachines`, `ChangeIP`, `findList`, `str` | every answer shape that is documented is understood |
| Agent tasks (`api/agents.go`, `agent/`) | `agent_tasks` | queue, poll (select, then mark each), execute, result | a task is executed once, and its result is the one that stays |
| Agent lifecycle (`api/agents.go`, `api/machines.go`) | `agents` | token, register, heartbeat, revoke, mark offline on listing | a revoked agent is shut out, whatever status a late heartbeat leaves; online means a recent heartbeat |
| DNS (`api/dns.go`, `dns/dns.go`, the end of `rotate`) | `dns_records`, `dns_providers`, `dns_sync_status` of rotations, the entries at the DNS service | sync one record, a machine's records, after a rotation, retry; edit records and providers | an entry holds only addresses of a machine it was linked with, of its family; "completed" is true; in the end the entry holds the machine's address |
| Realtime hub (`realtime/hub.go`, `ws` in `api/api.go`) | set of connections | add, remove, broadcast outside the mutex | an open connection misses no event; a dead client is removed and delays nobody for ever |
| Sessions and password (`api/api.go`) | `app_settings`, JWT cookie | login, logout, change password | |
| Store, configuration, process (`store/`, `config/`, `cmd/controller`) | the database file; settings; everything in memory | open, load, start, stop | |

How they interact: the scheduler starts checks in goroutines it does not wait
for; a check that finds a machine suspect starts `go a.rotate(...)`; a rotation
runs up to two checks of its own, which may start further rotations of the same
machine; a rotation calls the panel, writes the machine's row, and calls DNS.
HTTP handlers do the same things under the context of their request, so a
client that disconnects makes the later statements of its handler fail, and most
of those statements ignore their error. All components share the database;
`SetMaxOpenConns(1)` makes each statement atomic, but there is no transaction
over several of them (except in `syncProvider`), so every handler that reads and
later writes can be interleaved with every other.

What is hard: overlapping checks and rotations, stale reads, requests that
end early, answers that are lost, changes carried out late by the panel, a crash
between two statements, limits that are checked long before they matter, and a
due query that compares timestamps as texts. `PROJECT.json` lists these hazards
with their lines and the properties that cover them.

## Modules

| Module | Models | Extends |
|---|---|---|
| `HealthCheck` | `checkMachineNow` and the other writers of a machine's row | |
| `HealthHistory` | the same with history variables: what the checks really found | `HealthCheck` |
| `HealthStreak` | the same with what the documents promise: failures in a row | `HealthCheck` |
| `Reachability` | the same, driven by the state of the network, with fairness; why the counts follow it | `HealthHistory` |
| `Rotation` | `rotate`, its lock, history and limits, composed with the checks that start it, confirm it and follow it, and with the panel | `HealthCheck` |
| `RotationLedger` | what rotations promise: an abstract ledger of rotations begun, changes asked for and entries closed, with its theorem | |
| `RotationImplements` | `Rotation` as an implementation of the ledger | `Rotation`, and an instance of `RotationLedger` |
| `RotationEvidence` | the same with history variables: on what grounds an address is changed, and which rotations knew the old one | `RotationImplements`, `HealthHistory` |
| `Scheduler` | `schedulerTick`, the due query, the results it goes by | |
| `AgentTasks` | agents, their tasks, and the calls between agent and controller | |
| `TaskQueue` | what is promised of a task, without calls: an abstract queue | |
| `AgentImplements` | `AgentTasks` as an implementation of the queue | `AgentTasks`, and an instance of `TaskQueue` |
| `DnsSync` | DNS records, the four ways to synchronise them, the DNS service, the end of `rotate` and its retry | |
| `Hub` | connections of dashboards, `Hub.Add`, `Remove`, `Broadcast` and the `ws` handler | |
| `Registry` | the handlers of panels, machines, agents and tokens, each of which ends with a broadcast | `Hub` |
| `HealthProofs`, `RotationProofs`, `SchedulerProofs`, `AgentProofs`, `DnsProofs`, `RegistryProofs` | theorems | the modules they name; `HealthProofs` is about `HealthHistory` and `Reachability`, too, `RotationProofs` about `RotationEvidence`, `AgentProofs` about `AgentImplements` |
| `LedgerProofs` | theorems about the history, the refinement and the daily limit | `RotationProofs`, `RotationImplements` |
| `MC...` | symmetry and constants for TLC | |

### HealthCheck

`machine` is the `machines` table, one record per id with the columns that
matter (`exists` says whether there is a row). `check[c]` is the local state of
the `checkMachineNow` that goroutine `c` is in. The three steps of a check
are its three places of interaction: `CheckProbe` (the probes have run and the
score is known), `CheckLoad` (SELECT of the counters), `CheckStore` (UPDATE,
and `go a.rotate` counted in `spawned`). Any other step may come between them.
`CheckCancel` is the end of the request a manual check runs under: the SELECT
leaves the counters at zero, the UPDATE writes nothing, and the code after it
still runs. `CheckAbandon` is a client that leaves while the probes run: the rest of
them fail, so the score may be high over a network that is well, but nothing is
written. The score is abstracted to its class: `low` below 5, `high`
from 5 on, the only distinction the code makes. Counters are kept at their
threshold once they reach it (`UpTo`): the code only compares them with `>=`,
so larger values behave alike. A threshold configured below 1 behaves as 1.

`ResetCounters`, `DeleteMachine` and `CreateMachine` are the other writers;
`RunSpawned` is a rotation goroutine that begins to run.

### HealthHistory and Reachability

`failed[m]` counts the checks of `m` that ever failed, up to the threshold.
`grounds[m]` counts those its stored count may rest on: it begins anew at zero
when a rotation records a new address, and when the row comes or goes
(`NoteRenewal`), and a check whose client left adds nothing to it. `late` are the
checks that read the count before that and store it afterwards, the one way in
which a new address can inherit failures of the old one, and then no more than the
check had read (`Brought`). `EvidenceBeforeSuspect` asks for `grounds` of a row
that is suspect, and for `failed` of a rotation that was started: it may be started
by a check that wrote nothing. An address learned by the sync of a panel
or by a heartbeat keeps the counters, as in the code: only a rotation resets them.

`HealthStreak` has `streak[m]`, the failures in a row, instead. In
`Reachability` the score of a check is what the machine's `link` allows:
`up`, `down`, or `flaky`, which allows both; a client that leaves during the probes
may make it high over any of them (`AbandonLink`). `CountsFollowLink` is the reason why the health
shown follows a link in the end although checks overwrite one another: the
smallest of the counts, in the row and in the checks under way, never falls while
the link stays and no rotation resets it; a check that lags behind it never comes
anew; and each check that stores passes it, until the threshold is reached.

### Rotation

`job[j]` is the local state of a `rotate`, whose `pc` names the next statement
or call; `lock` is `a.rotations`; `rotations` the table; `panel[m]` the
provider: the address it shows, and how many changes it was asked for and has
carried out. There is one action per statement or call, in the order of the
code, and each contains its failure paths: `LoadMachine`, `CountLimit`,
`Confirm`, `ListOld`, `InsertRow`, `AskChange`, `Poll`, `RecordAddress`,
`PostCheck`, `FinishRotation`. `Return` is every `return` with the deferred
`Delete`. The confirmation and the check of the new address are checks of
`HealthCheck` run by the job itself (`JobCheckLoad`, `JobCheckStore`), so they
too may start rotations. A manual rotation can be cancelled at any step
(`CancelRequest`); which later statements then fail, and which ignore it, is as
in the code: `failRotation` uses no context, the last two UPDATEs do. `Crash`
forgets what is in memory and keeps the tables.

Left out: the DNS records (`DnsSync`), and the text of errors and log entries. The
answers of the panel are abstracted to what the code tells apart; the list's
limit of 100 machines is an answer that does not show the machine.

### RotationLedger and RotationImplements

`RotationLedger` says what remains of a rotation when its checks, limits, polls
and addresses are left out: it begins (`Begin`), gives up without a trace
(`GiveUp`) or enters the history (`EnterHistory`), asks for one change at most
(`Ask`), and ends failed, completed, or left open by a request that is gone
(`Fail`, `Complete`, `LeaveOpen`); `Stop` is a crash. `Balanced` is its promise:
for every machine, completed entries <= changes asked for <= entries.
`RotationImplements` maps `Rotation` to it: `rotating` is the lock, `history` the
table with the columns machine and status, `open` the rows of jobs past their
INSERT, `unasked` those whose job has still to call `changeIp`, `asked` the
provider's count. The mapping needs no history variables.

### RotationEvidence

`Rotation` with the history of its checks (`failed`, `grounds`, `late`; an address
that is recorded starts the count anew, `Renews`) and of addresses:
`sighted` are the rotations whose list request showed them the address the
provider had at that moment, `trusted` the rows of those that asked for a change.
`CompletedWereCarriedOut` counts: the completed rotations of a machine among them
are no more than the changes the provider carried out. For a rotation that had to
rely on the stored address this is false: it may take the unchanged address for a
new one. `EvidenceBeforeRotation` carries `EvidenceBeforeSuspect` through the
rotations and restarts.

### Scheduler

Time is in seconds, `DayLength` of them to a day. A timestamp as text is the
triple date, separator, time of day, compared from left to right, which is how
SQLite compares `2006-01-02T15:04:05Z` with `2006-01-02 15:04:05`. `rule[p]` is the
probe's row (enabled, machine, interval); `UpdateProbe` may change all of it between
a tick and the goroutine the tick has started. `NeverEarly` judges the tick; the
goroutine selects its probes anew and runs all that are enabled, due or not, as in
the code. `last[p]`
is the newest result of probe `p`; `started[m]` and `inFlight[p]` count the
goroutines of a tick that have not yet selected their probes, and the runs of a
probe that have not stored their result.

### AgentTasks

`agent` and `tasks` are the tables `agents` and `agent_tasks`; the id of a task
is its place in the order of creation, the order a poll goes by. `call[c]` is an
HTTP call of an agent: `pc` says how far the controller is with it, `client`
whether the agent still waits, is gone, or is known to be gone. `Open` takes a
free place for a new call, so the places bound the calls at once, nothing else.

On the agent's side, `SendRegister`, `SendHeartbeat` and `SendPoll` are the
loops of `agent/cmd/agent/main.go`, each of which waits for its own call before
it makes the next one, and `SendResult` is the end of a task's goroutine, which
posts once and does not try again. On the controller's side, `Authenticate` is
the SELECT of `agentAuth`, and every statement of a handler is an action:
`GoOnline`, `SelectTasks`, `MarkTask` (one UPDATE for one task), `AnswerPoll`,
`StoreResult`. Any other call may be handled between two of them. `GiveUp` is
the client's timeout of 20 seconds or a broken connection, `Notice` the
cancellation of the request's context, after which the remaining statements
fail: `MarkTask` then marks nothing and goes on, since the code ignores the
error. A controller that crashes is to the tables and the agents what the
cancellation of all calls is, so it has no action of its own.

Assumed: statements of a poll fail only when its client has gone. That the
database refuses the UPDATE of `MarkTask` while the agent waits (a full disk) is
outside the model; the task would be handed out twice. Also assumed: one
process for each agent row, since `install-agent.sh` (line 75)
removes the container it replaces. Left out: what is probed; the creation and
deletion of agents with their tokens and the address a heartbeat reports, which
are in `Registry`.

### TaskQueue and AgentImplements

`TaskQueue` has no calls: a task is queued for an agent (`Enqueue`), executed by
it once (`Execute`), reported (`Report`), and recorded (`Record`); the report may
be lost (`LoseReport`), and a restart ends executions without one (`Restart`).
`AgentImplements` maps `AgentTasks` to it: `begun` and `running` are those of the
agent's process, `reported` the results in calls that may still be stored,
`completed` and `failed` the tasks with that status. What is pending or marked
running is hidden: it is how the protocol keeps the promise.

### DnsSync

`record` is `dns_records` (machine, entry, whether it is synchronised by hand or
also after a rotation, `last_ip`, `last_status`), `provider` the one row of
`dns_providers` all records name, `served` what the DNS service holds, `late`
requests the controller has given up that the service may still carry out.
`call[c]` is a synchronisation: of one record (`BeginRecord`, `ReadAddress`), of
a machine (`BeginMachine`), of a rotation that has found its address
(`BeginRotation`), or a retry from the history (`BeginRetry`). All but the first
share the loop of `syncDNSForMachine`: `SelectRecords` copies the rows,
`NextRecord` takes one of them in any order and reads the IPv6 address if it
needs one, `LookupProvider`, `Send` and `Store` are the three steps of
`syncOneDNS`. An error ends the loop; a rotation then stores `failed`, otherwise
it counts the records again (`CountRecords`) and stores `completed` or
`disabled` (`FinishRotation`); a retry stores `completed` (`MarkRetried`).
Records are created, moved, edited and deleted, addresses reported, machines
deleted, the provider disabled and deleted between any two steps. `Cancel` is
the end of a request's context, `Crash` that of the process.

A zone, a name and a type together are an entry. Two records may name the same
entry; `V6Entries` are those of type AAAA, and `Owner` says which machine an
address belongs to, which the program does not know but the properties need.
There are two kinds of service. Cloudflare is asked for the record and then told to
replace it, which fails when it does not exist: none is ever created. A webhook
gets one request. Either way an entry ends with the address, or with the old one.

Of `rotate` the module has the part from `RecordAddress` on, under what
`Rotation` guarantees: one rotation of a machine at a time, a history row that
nobody else writes, statements that fail once the context has ended. No run
composes the two modules: together they are far beyond TLC, and they share
nothing else.

### Hub and Registry

In `Hub`, a place in `Sockets` is a connection (`conn`: open, closed, or broken
without notice) with its `ws` handler (`handler`) and perhaps an entry in
`clients`. `Snapshot` is the copy a broadcast makes under the mutex; each write
then ends `Delivered`, `Swallowed` by a connection that is broken, or
`WriteFailed` at the deadline. A failed write leaves the client in `removing`,
until `RemoveFailed` deletes it under the mutex (`Delete`) and closes the connection
(`Close`); meanwhile the client may go, its handler may remove it too, and another
broadcast may still copy it. The handler's own removal has the same two steps. `owed`
is history: how many events an open connection has still to get; of one that is
being removed `NothingMissed` says nothing, since it has just missed one.

`Registry` has the handlers as reads and later writes: PATCH (`BeginPatch`,
`WritePatch`), the sync of a panel (`ListMachines`, `CommitSync`, one
transaction), a heartbeat or a registration (`Heartbeat`, `StoreHeartbeat`), a
rotation's address (`SeeAddress`, `RecordAddress`), deletion of a panel
(`CountMachines`, `DeletePanel`), a token for an agent (`CountMachine`,
`InsertAgent`), and creations and deletions, which are one statement. `actual` is
the address a machine really has. Handlers that tell the dashboards go on with
the broadcast of `Hub` before they answer, so a dashboard that hangs is part of
every request. `Drop` is the end of the request's context, or of the process.

## Runs

| Run | Shows | Bounds |
|---|---|---|
| `health` | `HealthMatchesCounters`, `EvidenceBeforeSuspect`, `DownIsDetected`, `RecoveryIsSeen`, `CountsFollowLink` | one machine (rows do not interact), a scheduled check and one of a request that may be given up, default thresholds 3 and 2 |
| `rotation` | `OneRotationPerMachine`, `LockIsOwned`, `RowsAreOwned`, `CooldownHonoured`, `DailyLimit`, `CompletedWereCarriedOut`, `EvidenceBeforeRotation`, and `Rotation` implements `RotationLedger` (`ImplementsLedger`) | two jobs on one machine, two addresses, crashes, two rows, two ticks of one day, a cooldown of one, one rotation per day, thresholds 1 |
| `rotation_ends` | `LockReleased` | one job and scheduled checks that start it, two addresses, crashes, two ticks on two days, a cooldown of one, one row |
| `scheduler` | `NeverEarly`, `NeverStarved` | two probes with intervals 1 or 3, which edits change, move between two machines and switch off and on; days of 3 seconds, two midnights |
| `agent_tasks` | `AtMostOnce`, `ResultIsFinal`, and `AgentTasks` implements `TaskQueue` (`ImplementsQueue`) | one agent, two tasks of which a poll hands out one, two calls at once, two failures |
| `agent_live` | `PendingIsTaken`, `TaskFinishes`, `RevokedIsShutOut`, `OnlineAgain` | one agent with heartbeats, two probe tasks of which a poll hands out one, a call and a heartbeat at once, one failure |
| `dns` | `NoForeignAddress`, `FamilyRespected`, `CompletedMeansWritten`, `CompletedWasAccepted`, `DnsConverges` | two machines, one with both families and two IPv4 addresses; three entries; one record that may be moved between them; a rotation and a request at once; one edit, one failure, one rotation |
| `registry` | `NoOrphans`, `OptOutStays`, `NothingMissed`, `ClientsAreHandled`, `RequestsAreAnswered`, `AddressConverges` | one machine, panel and agent, two handlers at once, one dashboard, one change of address, one client that goes |
| `health_consecutive`, `rotation_history`, `rotation_repeat`, `scheduler_on_time` | what the documents say and the code does not do | one actor each |

One machine is enough for the properties of a row, its lock and its history:
every statement names one machine by id, and machines share only the
scheduler, whose run has two, and DNS records that are moved, whose run has two.
Two jobs are enough for contention: a third finds the lock as the second does
(the theorems below need no bound). `rotation` has no scheduled check: the
confirmation of one job and the check of its new address start the automatic
rotations that contend with it. `DailyLimit` needs two completed rotations on a
day that allows one, of which the second is automatic: two rows and two ticks are
enough. A midnight between a count and a row is left to `LimitCorrect`, which
has no bound. For `LockReleased` one row is enough: what holds the
lock is the rotation in progress. Tasks of different agents never meet, so one agent is enough; two failures
are what it takes for a poll that is being handled without a client, its
successor, and a result to be in progress one after the other (`AtMostOnce` and
`ResultIsFinal` are proved for any number). In `dns` one record is enough for
every order of copying, sending, storing and moving, since synchronisations of
different records meet only in an error that ends the loop, which the rotation
must not call completed; the invariants are proved for any number of records,
calls, edits and failures. Two handlers are enough for a stale write, and one
dashboard for a broadcast that meets its end, because a broadcast treats each
client alike; the invariants are proved for any number of both.

`MaxSpawned` bounds rotation goroutines that have not begun, `MaxRows` and
`MaxRotations` the table, `MaxTime` the clock, `MaxStarted` and `MaxInFlight` the
scheduler's goroutines, `MaxEdits`, `MaxChanges`, `MaxFailures` and `MaxDrops`
what others do; each is a guard of the action that would exceed it and nothing
else. The rotation runs do not check for deadlock: with the table full and the
clock at its end, the model may stop where the program would go on. Neither do
`dns` and `registry`, in which everything may be deleted for good.

Each property of a passing run has a mutant: a definition changed as a plausible
mistake would change it (`...Unlocked`, `...Stale`, and so on, next to the
definition), under which TLC finds the property violated.

### What the documents say and the code does not do

- *Consecutive* failures (README line 84): `failure_count` survives a
  good check, and is cleared only after `SUCCESS_RECOVERY_THRESHOLD` of them.
  Fail, good, fail, fail makes a machine suspect (`health_consecutive`). What
  does hold, and is proved, is `EvidenceBeforeSuspect`: the threshold's number
  of checks has failed.
- *Rotation history records the new IP* (DESIGN line 1901): not when the
  client of a manual rotation goes away late (`rotation_history`).
- *Cooldown prevents repeated IP changes* (DESIGN line 1905): not after
  a failed rotation whose change was accepted (`rotation_repeat`).
- *Check interval 300 seconds* (DESIGN line 640): the text comparison
  makes a probe due again only once the day of the cutoff is past that of its
  last result (`scheduler_on_time`).

## Fairness

`Reachability` assumes that a check in progress goes on (probes have timeouts,
the database answers), that started goroutines run, and that the scheduler comes
back to each machine. The last is what `NeverStarved` proves of the due query: a
probe is due at the latest a day after its interval. Fairness of the check is
asked of callers that are not requests, of nothing a client does.

`Rotation` (`FairSpec`, only for `rotation_ends`) assumes that a rotation in
progress takes its next step: calls time out after 20 s, the poll has a
deadline. Nothing is assumed of the panel, of clients, of the clock, or of
crashes.

`DnsSync` assumes that a synchronisation takes its next step (requests to the
service time out after 20 s, the database answers), and that a request on its
way arrives some time; nobody has to edit, rotate or synchronise anything, and
`DnsConverges` has as its premise that somebody synchronises the machine again
and again. It also needs retries to come to an end: they send the address their
rotation had, which may be an older one.

`Registry` assumes that a handler takes its next step, for which each write to a
dashboard has its deadline of two seconds, and that the handler of a closed
connection goes on; a peer that is slow, or vanishes, is under no fairness. That
the agent goes on reporting, that the machine is not deleted and that the panel
comes to show its address are premises of `AddressConverges`.

`AgentTasks` assumes that the agent's loops keep calling, that a task's
goroutine ends (its probe has a timeout), and that the controller handles a call
it has received and the answer arrives; failures are finitely many. Where strong
fairness is used it makes up for a bound in a guard.

## Proofs

The theorems hold for all values of the constants that satisfy the assumptions
named in the modules (thresholds are positive, jobs are not requests'
goroutines, day lengths are positive).

- `HealthProofs`: `HealthTypeCorrect`, `MatchCorrect`. `HealthMatchesCounters`
  is inductive with the type invariant, because every writer stores the three
  columns together; the lemma `VerdictType` and case lists on the two verdicts
  carry it.
  `EvidenceCorrect` and `HistoryTypeCorrect` are about `HealthHistory`. The
  invariant on rows is not inductive: a check in flight may hold a count that
  the row has lost. The strengthening `CountersHaveEvidence` says that no count,
  stored or held, exceeds the failures seen, `CountersHaveGrounds` that none, stored
  or held by a check that is not late, exceeds the grounds; from them a verdict of
  suspect has the evidence. `ReachabilityCorrect` carries these invariants over to the
  specification the run checks (`LinkIsHistory`: a step over the links is a step
  of the history, or a change of a link). `CountsCorrect` proves
  `CountsFollowLink`, the safety half of `DownIsDetected` and `RecoveryIsSeen`, in
  two lemmas: `EvolvesStep` says, action by action, that the row of a steady
  machine changes only by what one of its checks stores, and that a check under
  way holds what it held or what was stored; `CountsStep` does the arithmetic.
- `RotationProofs`: `RotationTypeCorrect`; `OneRotationCorrect` and
  `LockCorrect` from their conjunction `LockInv`, which is inductive. The lemma
  `NextClass` reduces Next to four cases: a rotation enters, moves, returns, or
  all stop. `CooldownCorrect` rests on `LockInv`: the only writer that moves a
  cooldown ahead is `RecordAddress` of a job on the machine (`CooldownWrite`),
  and there is no other job on it. `RotationMatchCorrect` and `GroundsCorrect` show
  that what is proved of the checks alone survives the rotations: the invariants
  of `HealthProofs` are kept by each step of a job, whose checks are checks like
  any other, a spawned rotation takes its evidence along when it enters, and the
  address a job records is a new beginning of the row (`RenewedRow`); all else a
  job does leaves the history of checks alone (`QuietHealth`).
- `LedgerProofs`: `RowsCorrect`. Its lemma `HistoryBefore` says that a job in the
  history after a step was there before with the same row, or has just inserted
  it; `RowsAreOwned` is then inductive. `RotationImplementsLedger` shows the
  refinement, one lemma for each step that the ledger sees (`EnterRefines`,
  `GiveUpRefines`, `InsertRefines`, `AskRefines`, `FailRefines`, `FinishRefines`,
  `CrashRefines`) and one for all the others (`StaysRefines`); it rests on
  `LockInv` (who gives up has no entry on its machine) and `RowsAreOwned` (a row
  closed or asked for belongs to no other job). `LedgerBalancedCorrect` is
  `BalancedCorrect` of `RotationLedger` carried over by it. `LimitCorrect`
  strengthens `DailyLimit` to `LimitInv`: an automatic rotation that has passed
  the count still has room on the day it will count for, today's or its row's,
  because the lock keeps every other rotation of the machine from completing in
  between; and no row of the machine is behind that of a rotation in progress, so
  a row completed later takes no room from one completed before.
  `ChangesCorrect` is about `RotationEvidence`. Its property is not inductive: a
  rotation that has seen its new address is about to complete. The strengthening
  (`ChangesInv`) says that while it waits the address it knew is still the
  provider's, or a change has been carried out that no completed rotation stands
  for; and that one has been when the address has arrived. By `LockInv` there is
  one such rotation of a machine at a time, so the change is left to it.
- `RotationLedger`: `BalancedCorrect`. `Balanced` is not inductive, since an entry
  asked for may be completed later; in `Books` open entries that were asked for
  count as completed, and those not asked for are set apart.
- `SchedulerProofs`: `NeverEarlyCorrect` and `NeverStarvedCorrect`, from
  lemmas on division by the day length: text order refines the order of days,
  and a lapsed probe's cutoff is a day further on.

- `AgentProofs`: `AgentTypeCorrect`; `BegunAtMostOnce` and `ResultsStay` from one
  invariant on calls and tasks: at most one poll of an agent has a client that
  waits (`OnePoll`), a task in an answer that will be received is running and in
  no other such answer (`HandedOnce`), and what is executed or has its result on
  the way was begun once and is in no answer (`BegunOnce`, `OneExecution`). The
  reason is in the order of the steps: a poll that lost its client cannot hand
  anything out any more, so reading before marking does no harm.
  `QueueImplemented` is the refinement: each statement is a step of the queue or
  unseen by it (`Unseen`), one lemma for each kind; that a result is recorded once,
  and not after it was lost, is `OneExecution` again.

- `DnsProofs`: `DnsTypeCorrect`, `NoForeignAddressCorrect`, `FamilyCorrect`,
  `CompletedCorrect`, `AcceptedCorrect`, from one invariant, `DnsInv`. None of the
  four is inductive: what goes wrong was copied long before it is written. So
  `CallFits` says of each synchronisation what it carries: its address belongs to
  its machine, each entry it holds was linked with that machine, an address that
  is about to be sent is of the right family or of a deleted machine
  (`Good`), and, for a rotation or a retry that has selected its records and not
  given up, every record the row is for has been accepted or is still to be
  written (`RowFits`, `Pending`). `RotationOK` says that such a record is
  one that any later selection contains. What synchronisations rely on only
  grows (`Grows`): the lemma `StaysFit` carries all the calls that do not move
  over any step, and `OnlyCallMoves` reduces the steps of one call to a fact
  about its next value.
- `RegistryProofs`: `NothingMissedCorrect` and `ClientsHandledCorrect` from
  `HubInv`, which is inductive for the operations of `Hub` as long as a broadcast
  begins with nothing left of the one before (`SilentUntilSend`): `OwedCovers` says that an open
  client is owed no less than
  the broadcasts under way have still to write to it, even one that is being removed. `UnsentKeeps` and
  `RemovalKeeps` are the steps of a failed write and of the removal after it. It is
  assumed that the goroutines are finitely many at any time. `NoOrphansCorrect` is
  inductive with the types. `OptOutCorrect` needs `OptInv`: no edit that is about
  to opt in has read its row before the opt-out that counts. Together they give
  `RegistryTypeCorrect`.

Model-checked only: the liveness properties (`DownIsDetected`,
`RecoveryIsSeen`, `LockReleased`, `PendingIsTaken`, `TaskFinishes`,
`RevokedIsShutOut`, `OnlineAgain`, `DnsConverges`, `RequestsAreAnswered`,
`AddressConverges`), which are beyond the prover. Every other
property of the passing runs is proved.

## Plan

The modules were written in this order: checks; rotation and its ledger;
scheduler; agents and their tasks; DNS; registry and hub; the proofs of each
beside it. What could still be added:

1. Pure functions against reference definitions: `findList` and `str` (answers of
   panels), the ranges of expected HTTP statuses, `validateProbe`, the parsing of
   settings.
2. `Rotation` and `DnsSync` in one module, with the facts they share (see
   `DnsSync`) as a proof that the composition implements both; TLC would need an
   instance too small to show anything.
3. An abstract specification of `DnsSync`, a register written by whoever
   synchronises, as `RotationLedger` is of `Rotation` and `TaskQueue` of
   `AgentTasks`.
4. The safety half of the other liveness properties, as `CountsFollowLink` is of
   those of the checks.

## Not modelled

- How a probe's HTTP status is matched, the validation of probe rules and of
  configuration, the parsing of a panel's answers: pure functions on text, whose
  outcomes the models take.
- Sessions and the password: a session is a signed cookie without a row, a login
  one read of the stored hash.
- The audit log and Telegram: output nothing depends on.
- Cryptography (`security/`): library calls.
- The rendering of the dashboard and its timer that connects again, which to the
  hub is another connection.
- Migrations, HTTP serving and shutdown; the installers, which run once.
