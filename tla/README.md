# a5e: specifications, model checking and proofs

a5e runs Ansible on Kubernetes. Users describe hosts, inventories, playbooks,
SSH keys, runs and scheduled jobs as custom resources; an operator turns runs
into batch Jobs; an API server with a web UI stands in front of the Kubernetes
API, with its own users, sessions, permissions and change requests.

This directory holds TLA+ models of the parts whose correctness depends on the
order in which things happen, the TLC configurations that check them on small
instances, and theorems about them that TLAPS proves for all instances.
`PROJECT.json` lists the components, the runs, what each definition models (with
source lines), the hazards and the theorems.

    tlc -workers 2 -config MCRunController_serial.cfg MCRunController   # a run
    tlapm RunProofs.tla                                                 # a proof

## 1. Inventory

Paths are relative to `src/packages/`. "Module" says where a component is
modelled; `PROJECT.json` says of each what is left out.

| Component | State | Operations | Hard because | Module |
|---|---|---|---|---|
| Run controller (`operator/src/controllers/run-controller.ts`, `resolvers/job-builder.ts`, `k8s/core.ts`) | the AnsibleRun's status, its Jobs, ConfigMaps and copied Secrets, the log object in S3 | cancel, resolve, start one Job or the first shards, poll, capture and archive logs, shorten the TTL, report | every call may fail or take effect unanswered; works on a cached snapshot and patches the status without a version; crashes between any two calls; the TTL controller, the garbage collector and users act meanwhile | `RunController`, `ParallelRun` |
| Host sharding (`operator/src/resolvers/host-sharding.ts`) | none | split an inventory into shards, rebuild the `--limit` of a stored shard | the inventory may have changed since | `HostSharding` |
| Watch (`k8s-client/src/watch.ts`) | a resource version | connect, reconnect, expire, stop | versions expire, also inside a stream | `WatchStream` |
| Work queue (`operator/src/k8s/informer.ts`) | cache, timers and retries per key, the watch | list, watch, debounce, back off, periodic resync, resync after 410 | a key's reconciles are not serialised; resyncs overlap; the cache lags the API server | `Workqueue` |
| Leader election (`operator/src/k8s/leader-election.ts`) | the Lease, the process's belief that it leads | create, renew, take over, step down by exiting | no fencing: clocks, slow calls and pauses let two replicas act | `LeaderElection` |
| AnsibleJob scheduler (`ansiblejob-controller.ts`, `k8s/cron-ticker.ts`) | `status.lastScheduleTime`, active runs, run history | fire a schedule, apply the concurrency policy, prune history, manual trigger (API) | spawn and record are two calls; ticks may overlap; triggers come from elsewhere | `CronJob` |
| Reference controllers (host, inventory, playbook, SSH key; `base-reconciler.ts`) | Ready conditions, derived public keys, counts | look references up, patch the verdict | reconciles of one object overlap and patch in any order; each patch wakes the next | `ReferenceControllers` |
| Reference resolution (`k8s-client/src/ref-namespace.ts`, `inventory-resolve.ts`, `label-selector.ts`) | none | resolve a namespace, a jump chain, an inventory's groups; match selectors | chains may be circular | `References`, `LabelSelector` |
| Change requests (`api/src/modules/change-requests.ts`) | a ChangeRequest's phase, the target objects | create, withdraw, approve (apply the operations), decline | check, apply and record are separate calls; a second review, a withdrawal or a crash comes in between | `ChangeRequest` |
| Draft of a change request (`ui/src/stores/changeRequestDraft.ts`) | the draft and its copy in localStorage | intercept mutations, stage, submit, discard, restore | reloads and lost answers over a submit | `ChangeDraft` |
| Users (`api/src/auth/user-store.ts`, `user-passwords.ts`, `migrate-legacy-users.ts`, `bootstrap.ts`) | User objects, one Secret of password hashes, the legacy Secret | create, link, log in, change password, delete, migrate at start-up | read-modify-write of one shared Secret; several objects per operation; the migration runs again after a crash | `UserAccounts` |
| Sessions and login (`api/src/auth/routes.ts`, `session-store.ts`; `ui/src/router`, `stores/auth.ts`) | pending logins, session tokens; the browser's cookie and stored token | OIDC login and callback, local login, logout, the router's guard | several tabs share a cookie and a token; everything is forgotten by a restart | `LoginFlow` |
| Permissions (`permission-engine.ts`, `groups.ts`) | grants | check one action, plan and run a filtered list, filter events | the list plan must agree with the single check | `PermissionEngine` |
| Watch hub, SSE, list stores (`api/src/lib/watch-hub.ts`, `sse.ts`; `ui/src/stores/createResourceStore.ts`) | one shared watch per key, its subscribers; the items of a page | subscribe, publish, unsubscribe; list, replace the stream | subscribe awaits a list before it registers; closing races opening | `LiveViews` |
| Page of a run (`ui/src/views/runs/RunDetailView.vue`, log routes of `ansibleruns.ts`, `pod-log.ts`, `s3/uploader.ts`) | the run and the log shown, the streams open | navigate, select a shard, download, retry | answers arrive after the page went on; the log moves from pod to S3 and may be gone | `RunPage` |
| Other routes and views, settings, schemas, chart, image | none of their own | one or two calls | - | - |

How they interact: the API server and the UI only write custom resources; the
operator reacts to them through its watches (`WatchStream` under `Workqueue`).
The scheduler creates AnsibleRuns, which the run controller executes; the SSH key
controller derives the public key a run waits for; leader election decides which
replica runs controllers at all. Change requests end in the same writes as the
resource routes, on behalf of a user who may not make them. Pages read lists and
events through the hub (`WatchStream` under `LiveViews`), each filtered by the
permissions of its user.

What makes each part correct:

- a run reports only what happened, keeps its terminal phase, runs its playbook
  once, stops when cancelled, ends when its playbook ends, and has its full log
  in S3 when it reports a result; its page shows that log;
- a parallel run keeps at most `maxConcurrentRuns` shard Jobs alive, runs every
  host once, in its own shard and nowhere else, and fails if a shard fails;
- no change of an object is left unreconciled; Ready tells the truth in the end;
- one replica acts at a time, and some replica acts eventually;
- a schedule is caught up with, without bursts and under its concurrency policy;
- what a user changed takes effect once, by one decision that stands;
- a password change is not lost, one subject has one account, the migration is
  idempotent;
- a login ends in the browser it began in, signed in or with a message;
- a filtered list shows exactly the objects the single check would allow;
- every subscriber sees every event after its subscription, on one watch per key,
  which is closed when nobody listens.

## 2. Structure

| Module | Uses | Implements | Checked in; proved in |
|---|---|---|---|
| `RunController` | | `RunLifecycle` | `MCRunController`; `RunProofs` |
| `ParallelRun` | `HostSharding` | | `MCParallelRun`; `ParallelRunProofs` on `HostShardingProofs` |
| `LeaderElection` | | `Leadership` | `MCLeaderElection`; `SchedulerProofs` |
| `CronJob` | `Leadership` | | `MCCronJob`; `SchedulerProofs` |
| `UserAccounts` | | | `MCUserAccounts`; `UserAccountsProofs` |
| `ChangeDraft` | `ChangeRequest` | | `MCChangeDraft`; `BrowserProofs` |
| `Workqueue` | `WatchStream` | | `MCWorkqueue`; `WatchProofs` |
| `LiveViews` | `WatchStream` | | `MCLiveViews`; `WatchProofs` |
| `Resolvers` | `ReferenceControllers` on `References`, `LabelSelector`; `HostSharding`, `PermissionEngine` | | `MCReferences`; `ReferenceProofs` on `HostShardingProofs` |
| `RunPage` | | | `MCRunPage`; `RunProofs` |
| `LoginFlow` | | | `MCLoginFlow`; `BrowserProofs` |

Twelve runs, each over one instance that reaches the disturbances its properties
are about. Where the code does not do what one would wish, the property states
what does hold and its section says what does not.

## 3. The run controller

`RunController` models one AnsibleRun without `spec.parallel`. Its state is what
the code's state is: the stored object (`cr`: does it exist, `spec.cancel`,
`status.phase`, `status.jobRef`), the Job of the run and its TTL, the archived
log, the operator's cache entry, its pending watch events and its timer for the
key, and per reconcile in flight the next API call (`pc`), the snapshot it works
on (`obj`), the Job result it read (`found`) and the log text it holds (`chunk`).
Each API call is one action with three answers: `ok`, `refused` (nothing
happened) and `lost` (it happened, the caller gets an error). `jobsCreated` and
`outcomes` are history variables; `jobsCreated` stops at 2, "two or more".

The constant `Env` names the disturbances a run allows: `overlap` (a timer fires
although a reconcile is in flight or events are pending, which `informer.ts`
permits), `fault`, `outage` (the operator is away for longer than the Job's 24h
backstop TTL), `tamper` (someone deletes the Job). Crashes are bounded by
`MaxCrashes`, failing calls by `MaxFaults`, undelivered events by `MaxLag`.

Overlap is not exotic: the patch to Resolving produces a watch event that arms
the key's 200 ms timer while `prepareRunResources` is still awaiting its many
calls. What the code guarantees anyway, and what it does not:

| Run | Disturbances | Shows |
|---|---|---|
| `overlap` | overlap, outage, tamper; 2 workers, lag 1; fair | `OutcomeIsReal`: nothing is reported that did not happen; `CancelStopsRun`: a cancelled run stops all the same |
| `serial` | 2 faults, 2 crashes, lag 3, S3; 1 worker; fair | `OneJobPerRun`, `LifecycleSpec` (RunController implements RunLifecycle), `ReadyRunFinishes`; with no call failed and no crash `NoOrphanJob`, `ReportedRunIsArchived` |

What the code does not guarantee shows in the same model, without runs of its
own. With `Env = {"overlap"}` and two workers `OneJobPerRun` is violated (a
stale reconcile that is still in `startRun` creates the Job anew when the first
is gone: the playbook runs twice) and so is `TerminalIsFinal` (a stale reconcile overwrites the result); a
late upload with no pod left replaces the full log by nothing.
With `Env = {"fault"}` and one fault `ErrorMeansNoJob` is violated (the patch to
Running fails after the Job was created: the run is reported Error, which
`docs/guide/crds.md` reserves for runs without a Job) and so is
`NotFoundMeansGone`: `pollJobToCompletion` takes every failure of `getJob` for
"the Job is gone".

The bounds suffice for what they are for: two reconciles are the least that
overlap, the stale one needs no third; a call that fails or a crash matters once
per reconcile, and the second shows that recovery recovers; a lag of one or two
events already gives a cache behind the store.

Fairness (`FairSpec`): timers that are armed fire, awaited calls return, events
are delivered, and a crashed operator is restarted (a Deployment). A user, a
playbook and the TTL controller owe nothing.

### Proofs

`RunProofs` proves of it, for all values of the constants: `TypeCorrect`;
`OutcomeReal`, from the inductive `ResultInv` (a result that is stored, or held by
a reconcile between `getJob` and its final patch, is in `outcomes`) and
`CancelInv` (a stored or pending Cancelled was requested). `OutcomeIsReal` alone is not inductive: the patch
writes what the reconcile holds.

If `overlap` is not in `Env`, `SerialInvariant` holds: at most one reconcile is in
flight and only while the operator is up; the operator's view (cache, then pending
events) ends in the stored object; and the step a reconcile is at determines the
phases its run can be stored with. From it follow `ImplementsLifecycle` (each
action is a step or a stutter of RunLifecycle) and `TerminalFinal`.

If `outage` and `tamper` are left out as well (`NoAccident`), `JobInvariant` holds on
top of it, for any number of failing calls, crashes and undelivered events:
`JobKept` (until the run is stored as Running its Job has no TTL, so once created it
is there, and `jobsCreated` is at most one: a reconcile that finds it missing may
create it), `JobKnown` (what each step may take for granted about the Job when no
call failed), `LogKept` (where the log is at each step between the Job's end and
the report) and `NothingLeft`. It gives `OneJob`, `JobsEnd` and `ReportsArchived`.

The liveness properties are model-checked only; TLAPS proves no liveness under
fairness.

Left out: foreground deletion of a Job is one step; a new run under a deleted
run's name; requests in flight when the operator dies either took effect before
or never do; a resync lists and caches in one step; wording, pod names, exit
codes and timestamps of the status.

## 4. Parallel runs

`HostSharding` translates `shardHosts` and `limitForHostNames`. A host is a record
of its key (kind, namespace, name), its name and the name Ansible knows it by; a
`--limit` joins names into a union pattern and is a set. `AnsibleTargets` is what
the runner makes of a limit: none means the whole inventory.

`ParallelRun` models a run with `spec.parallel.enabled`: the stored run with its
shards, the inventory as it resolves now, the run's ConfigMap, the Job of each
shard, and per reconcile in flight the next call, the snapshot, the shard statuses
it is assembling (`updated`), the shards its loop has still to visit (`todo`) and
the groups it resolved. `acted` counts the Jobs that ever acted on a host. The
calls, their answers and the work queue are as in `RunController`; a reconcile
starts from the stored run, as the cache's lag is that module's subject.

| Run | Instance | Shows |
|---|---|---|
| `parallel_stable` | three shards, two at a time, an inventory edited twice, one fault, one crash, cancellation; fair | `ConcurrencyLimit`, `EachHostOnce`, `ShardRunsItsHosts`, `ResultOfAllShards`; `ParallelRunFinishes` |

`HostSharding` is also checked by itself, in `references` (section 8), over the
shards of all its inventories. Three shards, two at a time, are the least for which a shard is pending
while others run, finish and are replaced; the groups overlap so that a host is
met twice. The run may start before its inventory lists a host, the
successful run without shards, and one host leaves a group while shards run.

What does not hold, without runs of its own. With an inventory that shrinks
`ShardStaysSmall` is violated: a pending shard whose hosts have all left gets the
empty limit (`limitForHostNames` returns `''`), `ansibleExtraArgs` passes no
`--limit`, and the shard acts on every host that is left, although
`schemas/src/runs.ts:26-27` says that it "is scoped to at most
`maxAmountOfHosts`" hosts. With a fault, a shard whose `getJob` fails is taken
for lost and its slot filled beside its running Job (drop the guard of
`ConcurrencyLimit`). With inventories that grow or shrink `SnapshotImmutable` is
violated, as the one ConfigMap is rendered anew whenever a pending shard is
started. With a crash and an inventory whose order changes `ShardRunsItsHosts`
is, as the shards are cut anew over Jobs that exist. Two hosts of one name in
different namespaces share their limits.

Fairness is that of section 3. Left out: the cache's lag, SSH keys other than
that prepare may ask to be requeued, log capture, deletion of the run, a changed
`ansibleHost`, garbage collection. A throw inside the preparation of resources
costs a fault; the read after a 409 is part of the create.

### Proofs

`HostShardingProofs` is about the operators, for every inventory: `shardHosts` puts
each host in exactly one shard, none of them empty or too large (`ShardHostsCover`),
and `limitForHostNames` finds a shard's hosts again (`ShardFoundAgain`), those that
are left when the inventory has changed (`ShardIsLeft`). These are inductions over
the inventory, made with the well-foundedness of finite sets: a set of numbers that
is not empty has a least member.

`ParallelRunProofs` proves, with these, the four safety properties of the run and
three results more, for any inventories, shard sizes, limits, failing calls and
crashes.

`TypeCorrect` needs no hypothesis. The others do, each a part of what the last
paragraphs say goes wrong:

- `OneAtATime`, `"overlap" \notin Env`: reconciles of the run do not overlap;
- `HostsNamed`: a host is known by its key, its name and its inventory name alike;
- `HostsStay`: an inventory that lists hosts may be regrouped, and one that lists
  none may be filled, but no host comes to or leaves the hosts listed.

| Theorem | Assumes | Inductive invariant |
|---|---|---|
| `ConcurrencyLimitHolds` | `OneAtATime` | `TypeInv`, `ControlInv`, `JobInv`, `SlotInv` |
| `ResultOfAllShardsHolds` | `OneAtATime` | the same and `RecordInv` |
| `EachHostOnceHolds`, `ShardRunsItsHostsHolds`, `ShardStaysSmallHolds` | all three | `TypeInv`, `ControlInv`, `HostInv` |
| `SnapshotKeepsHosts` | all three | the same and `SnapshotInv` |

None of the properties is inductive: what is stored says nothing of what a
reconcile is about to store. `ControlInv` says that of each step: one reconcile at
a time, a run that is being started has no shards yet, and the statuses being
assembled follow from the stored ones. `JobInv` is that a terminal shard has the outcome
it tells of. `SlotInv` counts: the shards with a running Job, recorded or started and not
yet recorded, never exceed the limit, and the unrecorded ones are the first of the
Pending ones, so that a reconcile after a crash starts the same ones again instead of
others (why `FirstOf` and the fixed order of both loops matter). `RecordInv` is that a running
Job is on record or about to be. `HostInv` is about the hosts: the inventory
rendered and resolved lists all of them or none; a shard recorded or with a Job is
that of the plan; and a shard's hosts were acted on once if it has begun and not at all
if it has not.

`SnapshotKeepsHosts` is what remains of `SnapshotImmutable`: the ConfigMap is
rewritten while shards run, and what it lists stays the same. TLC checks that the run's instance
satisfies the three hypotheses and all of these invariants.
`ParallelRunFinishes` needs fairness and is model-checked.

## 5. Who acts, and the schedule

`LeaderElection` models the loop of each replica: sleep, read the Lease, decide,
write it, look at the answer. `Elapse` lets a unit of time pass; it may not pass
while some replica has waited its limit, which is how delays are bounded by
`MaxDelay`. Times are kept as ages of what was stamped, since the code only ever
computes `Date.now() - renewTime`; clocks differ by `Skew`. A resourceVersion is
the set of replicas whose copy is still the stored Lease. A leader's failed
attempt, whatever failed, ends its process (`down`) and with it its controllers.

`Leadership` is what the rest relies on: the controllers run in one replica at a
time. Leader election has no fencing, so this needs time to be on its side.
`Timely` says how much: from the stamp of one renewal to the moment a leader that
fails to renew has stopped pass at most a retry period and six delays, and that
plus the skew must fit in the lease. With the defaults (15 s, 2 s) calls, answers
and timers may each be late by about two seconds. The code sets no timeout on its
calls, so `Timely` is an assumption about the cluster; when it fails (give
`MaxDelay` the value of `LeaseDuration`) TLC finds two leaders at once.

`CronJob` models one AnsibleJob: a tick of the leader is one action per API call
of `reconcileAnsibleJobs`; a call may throw before or after it took effect,
which ends the tick, and the next one starts afresh. The clock shows only through
the schedule, so a moment is the number of scheduled times that have passed. Runs
are kept in the order of creation with what became of them (`stored`),
who created them and for which time. Beside it users trigger, delete and edit, and
runs end.

| Run | Instance | Shows |
|---|---|---|
| `lease` | two replicas, skewed clocks, two faults, two crashes, `Timely`; fair | `LeadershipSpec` (LeaderElection implements Leadership), `LeaderHoldsLease`, `OnlyFailureDeposes`, `LeaderEmerges` |
| `cron` | two scheduled times, all policies, one failure, one user action; fair | `NoBurst`, `ConcurrencyPolicy`, `ScheduleCatchesUp` |

`cron` has one replica: a handover clears the local state just as the restart of
a single leader does. Two times
give a second occurrence that meets the run of the first, and one that was missed.
Limits of one and zero are the boundary cases of pruning. In `lease` two crashes
let both replicas die once, also one after the other while holding the Lease.

The run of a tick is created, with a generated name, before `lastScheduleTime` is
patched: a leader that stops in between leaves its successor to spawn for the
same tick again (`OneReplicaPerTick`, which states what
`ansiblejob-controller.ts:111-112` says, is violated with two replicas).
`NoBurst` bounds the harm: one extra run for each such failure.

Fairness: time passes, calls are answered, timers fire and containers are
restarted; a leader is elected eventually, which `LeaderEmerges` of `lease` shows. Users and playbooks owe nothing.

Left out: a write that reaches the API server after its sender died, deletion of
the Lease or the AnsibleJob by hand, Ready conditions, equal creation timestamps,
the other AnsibleJobs of a tick.

### Proofs

`SchedulerProofs` proves of `LeaderElection` for any replicas, clocks, delays, faults and crashes
`ElectionTypeCorrect`, and under `Timely` `LeaseKept`, `ImplementsLeadership` and
`LeaderStays`. The inductive invariant `IInv` adds to the types: waits are within
their limits; a copy with the stored version is the stored Lease; a write under
way was decided on its copy; and a replica that leads, or has a write accepted and
not yet heard of, is the holder of a Lease no older than the waits since it was
stamped (`Fresh`). The last part is what is needed and what `Timely` makes
inductive: another replica's take-over needs a copy older than the lease, which
an owner's Lease never gets. `LeaderEmerges` is model-checked only.

Of `CronJob` it proves `PolicyKept` and `Paced` for any number of replicas, times,
failures and user actions; the run has one replica. `CronInv` says that only the
leader ticks (`OneTicks`), that what a tick decided on still holds when it acts
although users and playbooks go on meanwhile (`DueTrue`, `MaySpawn`: before it
spawns, the runs that go on are cancelled, or on its list to be), that runs
are created in the order of their times (`InOrder`), and that the runs since a time
`t` are paid for by the times recorded since `t`, the tick in flight and the
failures (`BurstInv`). `NoBurst` alone does not say who pays while a tick is between
its spawn and its record.

## 6. Accounts

`UserAccounts` models the objects that decide who can log in: per username its
User object (`accounts`: the linked subject and the email), the subjects with a
tracking object (`trackers`), the one Secret of hashes (`hashes`) and what is left
of the store before the User CRD (`legacy`). A process, a request handler or the
start-up sequence `Boot`, has its next call (`step`), the request it works on with
what it read for it (`req`), the hashes it read (`copy`) and, for start-up, what its
loop has still to visit (`todo`). `wanted` is a history variable: the password last
set on request. Requests come as the routes let them through, also for accounts
that are gone.

Each action is one call. `CutOff` is a call that throws, an answer that does not
come or the death of the process: the request is over, what was done stays done,
and start-up begins anew. Calls whose failure the code swallows have that outcome
of their own: the list of `bootstrapAdminAccount`, pruning and, with
`Env = {"undeleted"}`, the deletes of the legacy objects.

| Run | Instance | Shows |
|---|---|---|
| `accounts` | two usernames, one subject, two passwords; a fresh install, one with a linked administrator and a tracker, one with the legacy store; two cut-offs, two restarts; fair | `OneAccountPerSub`, `PasswordStands`, `LegacyOutlived`, `BootFinishes` |

Two usernames are the least for one Secret to hold somebody else's hash and for
two accounts to want one subject; a second subject would be a copy of the first.
The legacy store has both accounts, one with the subject's email, and the
subject's entry. Two cut-offs interrupt an operation and its repetition.

There is one handler, so requests do not overlap. That is an assumption: nothing
in the code serialises them. With two handlers, no failure and no restart TLC
finds `PasswordStands` violated (both read the Secret, the second write undoes the
first) and `OneAccountPerSub` violated (two promotions of one subject each see it
free).

With `Env = {"undeleted"}` `PasswordStands` is violated: the delete of the legacy
Secret fails silently, the server serves, and the next start merges the legacy
hashes over a password changed since; an account deleted since is created again.
Three more weaknesses show in the model, and no document promises the contrary:
start-up cut off
between the bootstrapped account and its hash leaves an administrator nobody can
log in as, because from then on an account exists; cut off between its two deletes
it leaves the legacy ConfigMap for good; and a reset of a deleted account's
password, or a delete cut off before the hash, leaves a hash that an account
created later under that name inherits.

Fairness (`WF_vars(StartUp)`): a process that was started runs and its calls are
answered. Cut-offs are bounded, so start-up succeeds eventually; requests owe
nothing.

Left out: roles, permissions, groups and names shown; edits of an email, so that
it stays the subject's it was; logins with a password, which read only; different
subjects whose tracker has the same name; an old server beside a new one during an
update.

`UserAccountsProofs` proves the three safety properties for any users, subjects,
passwords, legacy store, cut-offs and restarts. `FlowInv`, which needs no hypothesis,
says at which steps a request can be and that start-up and requests take turns. The
rest assumes `Undisturbed`: one request at a time and no swallowed failure to delete
the old store, without which the properties are false as said above.
`MigrationInv` carries the migration: as long as the legacy Secret is there nobody is
served, each account that exists is one of the store with its link, and each of the
store exists or is still waiting (`AllHere`), so that cutting the migration off
anywhere loses nothing and its end is `Migrated`. `PasswordInv` says that the hashes
read are still those stored when they are written back (`HashesKnown`); it needs
`MigrationInv`, since the migration overwrites hashes and must meet no password set on
request. `LinkInv` says that a subject about to be linked has no account (`Unlinked`);
`OneAccount` needs besides that the legacy store links a subject once (`LinkedOnce`),
as the migration links without looking. `BootFinishes` needs fairness and is
model-checked.

## 7. Watches, the work queue and live views

`WatchStream` models the API server's history of one kind as a sequence of
changes; a resourceVersion is a position in it, and versions before `oldest` are
forgotten (`Compact`). A watch connects from its version or, after a 410, from
none; it hands on each change after it, bookmarks, and errors. `watch.ts` looks
for 410 in what ends a stream; an expired version that is reported as an ERROR
event inside it is handed on like an object, and the watch goes on to connect
with the version it has. Its two users take its steps in actions of their own.

`Workqueue` is `informer.ts` over two objects: lists that are answered late and
overlap, the watch each of them replaces, the cache, timers, reconciles that
fail. Bookmarks and errors have no name; `keyOf` gives them the key `undefined`,
which is cached, scheduled and reconciled like any other, to no effect.

`LiveViews` puts together the pages' stores, their streams, the routes that serve
them and the hub that feeds them from one watch per key. A request is an entry of
`conns` that moves from `requested` over `listing` to `subscribed`; the hub awaits
a list before it registers under its key, so two may be made at once.

| Run | Instance | Shows |
|---|---|---|
| `workqueue` | two objects, one there from the start, two changes, one fault, two resyncs at a time; fair | `NoLostWakeup`, `QueueSettles` |
| `live_views` | two pages, one object, two changes, three connections, two hubs | `WatchWhileRead`, `NothingMissed` |

Two changes are a change and one that is missed or forgotten; two resyncs are
what overlaps, and a second object shows that one key's trouble is its own. In
`live_views` the third connection is one that replaces another, and two hubs are
a hub and its double or successor.

`QueueSettles` rests on the resync: a watch stuck at an expired version gets
nothing more, and only the list ten minutes later brings the cache up to date.
Fairness assumes that timers, the resync's among them, fire and calls are
answered; without `WF_vars(Resync)` TLC finds a queue that never settles.

`NothingMissed` says what holds: from its subscription on. Two gaps remain in the
code, and the property names them: between a page's list and its subscription
(`createResourceStore.ts` does not pass the list's version on), and after a 410
("acceptable for a first cut", `watch-hub.ts:80-81`). An object that leaves a
page's filter stays shown, since its event is filtered away.

`WatchProofs` extends both. It proves `WakeupsKept`: `NoLostWakeup` is inductive but for the shape
of the state, and the proof uses nothing of the API server: the queue schedules what
it caches, whatever it is told. And it proves `WatchesStop` and
`EventsArrive` for any pages, connections, hubs and objects, from `ViewsInv`: a hub's
watch is never ahead of the server, and continues where it is until it had a gap
(`WatchesInv`); the subscribers of a hub are the connections that say so, and its
watch runs exactly while there are some (`SubscribersInv`). The step that matters is
the delivery of a change: what the watch hands on next is the oldest change the
page lacks.

Left out: restarts of the API; a reconcile's result (sections 3 and 8); back-off
times; one kind and namespace stand for all, as hub keys do not interact.

## 8. References and permissions

`References` has what `k8s-client` computes from objects as operators:
`resolveRefNamespace`, `resolveRef`, `resolveJumpChain` (a recursive function over
the hosts not yet visited) and `resolveInventoryGroups`. `LabelSelector` matches
selectors, writes them and reads them back. `PermissionEngine` is
`permission-engine.ts`: what a set of grants allows for one object, which lists
are made for them, and the filters of watches and of patches.

`ReferenceControllers` models one object of each of four kinds. A reconcile reads
the cached copy, looks its references up one call at a time (`found`) and patches
what it found, where the code does: an inventory and an SSH key write their
result first and their condition after it. People edit the object and what it
refers to; reconciles overlap, hold old copies, and patch in any order.

`Resolvers` puts the operators together with the objects a controller meets
(`hosts`) and with those they are asked for: sets of hosts that refer to each other
(`Chains`), sizes of shards, users with their grants, lists and selectors.

| Run | Instance | Shows |
|---|---|---|
| `references` | a host, a playbook, an SSH key, an inventory; two reconciles, one edit, one failing call for hosts and playbooks; fair | `ReadySettles`, `ChecksGoQuiet` |
| the same, in the first states | every chain over four hosts in two namespaces and none; every inventory and later inventory, shards of one to three; two grants out of 48, three kinds of list, three selectors | `JumpChainConnects`, `ShardsStayApart`, `ListShowsAllowed` |

The pure parts are evaluated in the first states because they depend on hosts
and specs only. `JumpChainConnects` compares the code's walk with a declarative
definition of the ways from a host; `ListShowsAllowed` compares the fan-out over
grants with the filter a watch applies to single objects, of the same grants
(`ToWatch`: as if they were to watch), which is computed in another place of the
code and must agree; `ShardsStayApart` is that the limits of shards computed at
different times, of inventories that differ, do not meet.

What does not hold: inventories and SSH keys patch their result unconditionally,
their own event wakes them, and they go on for ever (`GoesQuiet` is violated; so
`ChecksGoQuiet` leaves these kinds out, although `base-reconciler.ts:38` skips a
patch where "nothing changed"). A selector with several values is written as
`k in (a,b)` and read back wrongly, since the reader splits at each comma; none is
asked for in `ListShowsAllowed`. The counts of a group that is removed stay in
`groupCounts`, since statuses are merged. A lookup that fails for a moment is
reported like a missing object until the resync.

Fairness: timers and the resync fire, calls are answered. Left out: the owner in
no namespace; deletion of the object; the cache's order of events.

### Proofs

`ReferenceProofs` proves the three properties of `Resolvers`, and the types of the
controllers, for any objects, specs, grants, selectors, sizes, edits and workers.

- `ChainsConnect`. The recursive function in `resolveJumpChain` is defined because
  each call has one key more among the visited ones (`ChainSolved`, by
  well-foundedness). If it returns hops there is a way they are of (`ChainIsWay`);
  if there is a way, no host is on it twice (`NoCircle`), it is the only one
  (`OneWay`), and the function follows it to its end (`WayIsChain`).
- `ShardsApart`. What `resolveInventoryGroups` returns is a sequence of sequences of
  hosts there are (`GroupsListed`), and of those `HostShardingProofs` speaks.
- `ListsAgree`. Each object a grant allows is in what one of the planned lists
  returns, and none other is, also after the lists for the same namespace are
  collapsed (`CollapsedReaches`, `EverywhereReaches`, `PlanReaches`).
- `TypeCorrect` comes with the order of generations: what a reconcile holds is not
  newer than the object, and no status is of a generation the object has not had.

They rest on `ControllersAssumption` (what a spec lists is a sequence) and
`ResolversAssumption`. Of the latter Kubernetes ensures that a set of objects is finite
and names each by kind, namespace and name. The rest delimits what is shown: hosts
of an inventory differ in name and in the name Ansible knows them by (`Named`; with two
hosts of one name in two namespaces `limitForHostNames` takes the first for both), and
keep the latter; no grant names the namespace that stands for none; no
selector with several values is asked for, which would be read back wrongly.

## 9. Change requests

`ChangeRequest` models the routes: a review reads the request, checks phase and
grants, applies one change per action and records the outcome, and nothing locks
the request meanwhile. `ChangeDraft` puts the browser before it: the interceptor
that stages what the author does, the copy in localStorage, submit, a reload over
an unanswered submit, and the switch that turns the flow off. `effects` counts
how often each thing the author did took effect through each request, and
`Outright`, when no draft is open and the author may make the change.

| Run | Instance | Shows |
|---|---|---|
| `change_requests` | two changes, one or two requests, an author who may approve one of them and a reviewer of both, two reviews at a time; one slip, one race, one toggle | `RecordIsTrue`, `EffectOnce`, `DecisionStands`, `DraftSurvives` |

A slip is a call that fails or loses its answer, a reload or a restart; a race a
review that starts beside another. Both are counted, and the properties say what
each of them may cost: without slips and races everything takes effect at most
once and a decision stands. With one race a request may be declined and
applied; with one slip it may be applied twice, the process having ended before
the phase was patched, or submitted twice, the answer to the first having been
lost. No document promises otherwise, so these are no findings. What is staged
while a submit is in flight is dropped by `cancel()` with the draft.

`EffectOnce` says what bounds the harm: a change is made outright or is in one
request, and in one more for each slip; through each of them it takes effect once,
and once more for each slip and for each race of that request. The two
multiply: after a submit whose answer is lost the change is in two requests, and one
restart puts both of them back, so that two slips may apply it four times. Any
bound by their sum is false, and holds with one slip only.

`BrowserProofs` proves `RecordsTrue`, `DecisionsStand`, `DraftKept` and
`EffectsOnce` for any users, handlers, requests, changes, slips and races.
`ApiInv` and `PageInv` hold the types, what a handler has done when it is at a step
(`HandlerTrue`: while it applies, all its results so far are Applied and each of
those changes took effect through its request), and that a review which met no
other is alone and its request Pending (`Undisputed`). For `EffectsOnce`, `Once(c)`
counts the draft or submit under way as one request more, and `Times(r, c)` counts
the reviews that have yet to come to the change, and one for a Pending
request that nobody reviews, as effects to come: a crash turns the former into the
latter and pays for it with its slip.

Left out: bodies of changes and edits of a target between staging and approval; a
generic PUT that edits a request between viewing and approving.

## 10. Login

`LoginFlow` models two tabs, which may share a browser's cookie and stored token,
and the API: `/login` puts a state down in memory and in the cookie, the provider
sends the tab back with a code (`link`), `/callback` compares, redeems the state
once, exchanges the code, and loads the app with the token in the fragment; the
router's guard, `AuthCallbackView`, `LoginView`, local login and logout are the
browser's side. Beside them states expire, an administrator exchanges the provider
or changes a role, the API restarts and forgets, and links are opened again, in
their tab or in the other.

| Run | Instance | Shows |
|---|---|---|
| `login` | two tabs in one or two browsers, two users of whom one is new, two providers, at most one session from before; three states or tokens to begin with, one other action, one fault; fair | `LoginStaysInBrowser`, `LoginSettles` |

Two tabs are the least that share a cookie, two browsers the least between which
a link can go astray. One other action (`MaxMoves`) at any moment of two
overlapping logins is what the hazards need; two of them do not meet.

`LoginSettles` also names the ways a login ends that nobody would wish for. Of
two tabs that sign in at the same time in one browser the first to start fails,
as its cookie is overwritten, and then the second, as the first callback removed
it. A session without a role that was stored from before makes the guard turn
from `/auth/callback` to `/no-access` before the new token is taken. An error is
shown nowhere when such a session is there. If the provider's discovery
fails in `/login`, outside the try block, the browser is left with an error page
of its own, which `routes.ts:38-40` means to avoid. And a page keeps the session
it saw (`checked`): after a restart of the API it shows a user whose calls fail,
until it is reloaded.

`BrowserProofs` proves `LoginStays` for any tabs, browsers, users, providers, faults
and restarts. `LoginInv` follows the login through the places it is in: a stored
token was minted for the browser that stores it, the state in a cookie was begun
there, and the state of a tab whose callback passed the comparison with the cookie
was begun in the tab's browser, also while the exchange is under way.

Fairness: answers arrive and pages run (`Proceed`); users owe nothing. Left out:
PKCE and the signature of tokens; passwords (section 6); that logout also returns
the provider's logout address, which the UI ignores.

## 11. The page of a run

`RunPage` models the page of a run while its series goes on: the operator reports,
archives, cancels; runs are deleted and retried; pods are collected. On the page
the route and the shard change under answers that are on their way: the `get` of
the run (`gets`), its watch (`streams`, of which the page knows the last,
`stopWatch`), and one stream of lines for the log and one for a download
(`request`, `got`, `notice`).

| Run | Instance | Shows |
|---|---|---|
| `run_page` | a run, with or without two shards, and its retry; three actions of users, one fault; fair | `LogIsOfRequest`, `PageShowsLog` |

Two runs are a route and another one; three actions are to leave, to come back
and to ask again.

`PageShowsLog` has a premise, `Following`: the page holds the run of its route.
It need not: `RunDetailView` awaits `store.get` and does not look whether its route
has changed since, so the late answer shows the other run and leaks a watch, and
a change between the answer and the subscription is not seen. Live streaming,
which `docs/guide/architecture.md:73-74` describes, never happens in the code: the
log routes read `status.logs`, which is there only once the Job has ended.

`RunProofs` proves `LogsRight` for any shards, runs, moves and faults. `PageInv`
says that the log on display was asked for with the route and the shard selected now
(`ViewCurrent`: each move asks anew), and that what a request has received and what
it is still to read are together the logs it wanted, by the status the run had when
it was read (`LogsInv`). `PageShowsLog` needs fairness and is model-checked.

Left out: line order, bodies, broken streams and refusals; Succeeded and Failed are
one phase here (`Reported`), Cancelled and Error another (`Abandoned`); a run whose
pod is gone before it is archived has no log.

## 12. What is proved, what is checked

| Proofs | Theorems that state what a run checks | Others | Assume |
|---|---|---|---|
| `RunProofs` | `OutcomeReal`; `ImplementsLifecycle`; `OneJob`, `JobsEnd`, `ReportsArchived`; `LogsRight` | `TypeCorrect`, `ResultsAndRequests`; `SerialInvariant`, `TerminalFinal`; `JobInvariant`; `PageInvariant`, `PageTypeCorrect` | nothing; `"overlap" \notin Env`; `NoAccident`; nothing for the page |
| `ParallelRunProofs` | `ConcurrencyLimitHolds`, `ResultOfAllShardsHolds`; `EachHostOnceHolds`, `ShardRunsItsHostsHolds` | `TypeCorrect`; `ShardStaysSmallHolds`, `SnapshotKeepsHosts` | nothing for the types; `OneAtATime`; for the hosts also `HostsNamed` and `HostsStay` |
| `SchedulerProofs` | `LeaseKept`, `ImplementsLeadership`, `LeaderStays`; `PolicyKept`, `Paced` | `ElectionTypeCorrect`; `CronInvariant` | `Timely` for the first three |
| `WatchProofs` | `WakeupsKept`; `WatchesStop`, `EventsArrive` | `ViewsInvariant`, `TypeCorrect` | |
| `BrowserProofs` | `RecordsTrue`, `DecisionsStand`, `DraftKept`, `EffectsOnce`; `LoginStays` | `DraftInvariant`, `TypeCorrect`; `LoginInvariant`, `LoginTypeCorrect` | |
| `HostShardingProofs` | | `ShardHostsCover`, `ShardIsLeft` | `Named` |
| `ReferenceProofs` | `ChainsConnect`, `ShardsApart`, `ListsAgree` | `TypeInvariant`, `TypeCorrect` | `ControllersAssumption`, `ResolversAssumption` |
| `UserAccountsProofs` | `PasswordKept`, `LegacyKept`; `OneAccount` | `FlowInvariant`, `TypeCorrect`; `UserInvariant` | `Undisturbed`, but for the flow and the types; `LinkedOnce` for the last |

TLAPS proves each for all values of the constants. Beside what the last column
names they assume what the modules do, in named assumptions that TLC
evaluates: bounds are numbers, placeholders are none of the values they stand beside,
the handlers of change requests and the inventories a run may meet are finitely many,
the legacy store is a store.
`"overlap" \notin Env`, `NoAccident`, `HostsNamed`, `HostsStay`, `Timely`, `Undisturbed`,
`LinkedOnce` and the second half of `ResolversAssumption` are assumptions about the
environment that the code does not enforce; sections 3 to 6 and 8 say what happens
without them.

Every invariant and every action property that a run checks is stated by a theorem.
Model-checked only, on the instances above, are the liveness properties, since TLAPS
proves none under fairness: `CancelStopsRun`, `ReadyRunFinishes`,
`ParallelRunFinishes`, `LeaderEmerges`, `ScheduleCatchesUp`, `BootFinishes`,
`QueueSettles`, `ReadySettles`, `ChecksGoQuiet`, `LoginSettles`, `PageShowsLog`.

## 13. Not modelled

Forms and tables of the UI, the schemas and the generated CRDs, the chart, the
runner image, SSH key import and inventory download: they keep no state, and
their calls are made one at a time. Of modelled components: the pod spec
(`job-builder.ts`) and the INI text of an inventory, which are values handed to
Kubernetes; the Secrets copied for a run; S3 and the identity provider, which
appear through their answers; several API replicas, which `session-store.ts`
excludes.
