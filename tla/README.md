# 7TV backend in TLA+

This directory is a verification development of the services in `src/apps` - the
API, the CDN, the event API, the image processor and the search pipeline. The
modules model their control, that is every state change, guard, early return and
error path of the parts listed below, in the order the code has them; names,
payloads, wording and logging are abstracted away.

- `<Component>.tla` - a component: its state, one action per step of the code, the
  specification, the properties.
- `MC*.tla` and `*.cfg` - the instances TLC checks.
- `<X>Proofs.tla` - the theorems TLAPS proves, for every value of the constants, about the
  component `X` or about the parts of the composed run `MCX`.
- `PROJECT.json` - the list of components, runs, hazards and theorems, and for every
  definition the lines of source it translates.

Operators called "Wrong variant" sit before the definition they would replace: each
is a plausible mistake in that code, and the property it is there for fails with it.

## 1. Inventory

### The services

| part | state it keeps | operations | module |
|---|---|---|---|
| distributed mutex (`apps/api/src/mutex`) | a Redis key with the id of its owner and a life of 5 s | acquire with 350 attempts, refresh every 2 s, free | `DistributedMutex` |
| transactions (`apps/api/src/transactions`) | a MongoDB session, the events registered by the closure | run the closure, store the events, commit, retry the commit or the closure, publish | `Transaction` |
| cron (`apps/api/src/cron`) | two job documents with a holder and a lease of a minute | fetch, lease again, run, complete, free, rerun | `CronLease` |
| CDN response cache (`apps/cdn/src/cache`) | cached responses, a map of requests in flight | look up, join, create, fetch, store, wake, remove | `CdnCache` |
| CDN purge worker (`apps/cdn/src/cdn_purge.rs`) | a JetStream consumer | invalidate, acknowledge | `CdnCache` (without the branch for a payload that cannot be read) |
| image processor (`apps/image-processor`) | a collection of jobs with holds, permits of the blocking pool | submit, claim, refresh, process, time out, tell, complete, cancel and tell it, expire | `ImageJobs` |
| event subscriptions (`apps/event-api/src/subscription`) | map from topic to broadcast channel, a channel of requests | subscribe, drop, unsubscribe, publish, stop | `EventSubscriptions` |
| event connections (`apps/event-api/src/http/v3`) | topics, four caches of what the client was told | subscribe, unsubscribe, presences, close | `EventConnection` |
| profile pictures (API: upload, callbacks, removal) | the picture, the user's pending and active picture | check, submit, insert, set pending; success, fail, cancel; remove | `ProfilePicture` |
| emotes (API: upload, callbacks, mutations) | the emote, its flags, two moderation requests | count, submit, insert; success, fail; flags, delete, merge | `Emotes` |
| emote sets (v4 and v3 mutations) | the entries, the capacity, the name | add, remove, rename, flags, update, delete | `EmoteSets` |
| accounts (logins, links, merge of users) | users, their connections, sessions | log in, link, unlink, log out, merge, delete | `Accounts` |
| search pipeline (`apps/mongo-change-stream`, `apps/mongo-typesense`) | a change stream, a work queue, the index, `search_updated_at` | publish, load, upsert, mark, delete, acknowledge, give back | `SearchIndex` |
| payment webhooks (Stripe, PayPal) and `egvault/cancel.rs` | the periods of a subscription, the events handled | paid, gift, changed, ended; cancel, reactivate | `SubscriptionPeriods` |
| subscription refresh (`sub_refresh_job.rs`) | the state of the subscription, its edges, the personal emote set | read, save, delete, insert, find, create, style | `SubscriptionRefresh` |
| entitlement graph, cached entitlements (`entitlement_edge.rs`, `mongo-typesense`) | edges, the cache and the rank in a user | change an edge or a rank, tell users, walk, write | `Entitlements` |
| redeem codes (`egvault/redeem.rs`, check-outs) | remaining uses, granted entitlements | take, check out, grant, lapse, deactivate | `RedeemCodes` |
| permissions, roles and bans | roles with their ranks and permissions, edges, bans | make, delete, give and take a role; ban; load a user | `Permissions`, `Roles` |
| editors of a user (v4 and v3 mutations, merge of users) | an entry per editor: state and permissions | invite, answer, change, remove, merge | `Editors` |
| badges, paints (image callbacks) | the object and its image set | upload; success, fail | not modelled: the pattern of pictures without a user |
| CDN purge through the API | a JetStream consumer | ask Cloudflare, acknowledge or give back | not modelled |
| rate limits (`apps/api/src/ratelimit`) | counters in Redis | one Lua script | not modelled |
| queries, loaders, tokens | - | reads | not modelled |
| website, injector, tools, infrastructure, macros, codecs | - | - | not modelled: no part of the services' logic |

### How the parts interact

A mutation runs `transaction_with_mutex`: the mutex guards a closure, the closure
writes and registers events, the transaction stores and commits them and then hands
them to NATS. The event API turns those messages into dispatches to its subscribers, and
each connection works out what its client has not been told yet. An upload submits a
job to the image processor; that tells its outcome through a JetStream stream that the
API consumes, where each callback is one transaction; a success asks for a purge of the
files it replaced, which the CDN consumes. The change stream of MongoDB feeds the search
index, whose handlers write back to the users. Payments arrive as webhooks, each one a
transaction that makes or ends periods; after it, and once a day by cron, the refresh
turns the periods into entitlements and, if these earn it, a personal emote set.

### What is hard, and what makes each part correct

| part | hard | correct when |
|---|---|---|
| mutex | commands that arrive late, answers that are lost, a caller that is dropped, a key that expires under a closure | closures overlap only after a key expired; a late free spares the next owner; with timely messages the closures exclude one another |
| transactions | a commit whose result is unknown; steps that fail between the commit and the publish | a change applies at most once; Ok means durable, stored and published; events go out in commit order |
| cron | a runner paused past its lease; `free_job`, whose filter matches nothing | one runner, unless its lease ran out; a due job is run in the end |
| CDN cache | coalesced requests, dropped handlers, panicking tasks, a purge that races a fetch | one fetch at a time; every waiter is woken; stale data only after a race |
| image jobs | claims that lapse, clocks that disagree, crashes between telling and deleting, blocking tasks that outlive their attempt | one attempt at a time when nothing is late; no job vanishes untold, but one whose cancellation was cut off; permits bound the blocking tasks; every job ends |
| subscriptions | receivers that come and go while their requests wait in a queue | no message passes a live receiver; no entry outlives its receivers |
| connections | what is sent is a difference to what was sent, and the memory of it is bounded | the client shows what the last presence says |
| profile pictures | callbacks that are lost, early, repeated or contradictory | the active picture has its images; a removed one stays away; a lock-out has a cause |
| emotes | the same; flags and requests under permissions of their own; flags written from an old copy; a deletion between two steps of another call | no request is open for a deleted emote, nor for a decided one unless whoever decided may not answer requests; a stuck upload has a cause |
| emote sets | v4 mutations that decide on a copy loaded before the mutex; emotes deleted and merged under other mutexes | aliases are unique, the capacity holds, listeners have the entries |
| accounts | logins, links and merges that meet; a search that found nobody protects nothing | an account has one owner; a user has a connection; a merged user has nothing |
| search | events of one document handled at once, redelivery, a bulk write that is torn, two documents that depend on one another | a quiet queue leaves the index, the cache and the counts as the documents say |
| payments | events repeated, late, reordered; a provider that has moved on; gifts that meet | one period per invoice; gifts add up; the age counts a cycle once |
| refresh | seven writes without a transaction, any of which fails, for several products at once | the user has what is paid for and nothing else, and one personal set |
| redeem codes | a use taken before the grant, events told twice, a grant that is a delete and inserts | uses add up; what was granted stays |
| cached entitlements | a graph that changes while it is walked level by level; users told by what is cached of them | a quiet queue leaves what can be reached, and the highest rank |
| roles and bans | checks against the permissions a session had when it was loaded; two ways to write permissions, old bits and new | a role means what it was made with; the highest role decides; a ban bites |
| editors | checks before the mutex and writes under it; two mutations that do the same differently; a merge that rewrites what it finds and tells nobody | but for merges, nobody is an editor who did not agree and the log agrees; answers stand |

The hazards in `PROJECT.json` give the line where each of these bites and the
property that would show it. Not all of them are prevented by the code. Where one happens, a
variable marked as history in the module names its cause at the step that causes it, and the
property allows the damage for that cause alone: the check is that there is no other way to it.
These are the stored events after a commit in doubt (`unsure`), the entry left in the map of the CDN
(`leaked`), the lock-out of uploads (`cause`), the upload whose callback was lost (`lost` in
`Emotes`), flags written from an old copy (`undone`) and requests left open (`bypassed`), the cancellation cut off
before its callback (`cancelled`), the merged user given something (`revived`), the emote set
decided on a copy (`misled`), the index (`overlapped`, `torn`, `uncounted`, `lost`), the connection that lags or
forgets (`lost`, `forgotten`), the periods after events out of order (`crossed`) or gifts that meet
(`hurried`), the refresh that ends early (`cut`), the grant that ends between its two writes (`torn`), the walk
that something changed behind (`missed`), and the editors of merged users (`unlogged`, `inherited`).

## 2. Plan

Most important behaviour first; each step is a module, an MC module, a configuration and,
where it is feasible, proofs.

1. `DistributedMutex` with `ExclusiveSection`, and `Transaction` - what every mutation rests on. *Done, proved.*
2. `CdnCache`, `ImageJobs`, `EventSubscriptions` - the three services with hand-written concurrency. *Done, proved.*
3. `ProfilePicture` - the first part that spans two services. *Done, proved.*
4. `CronLease`, `EventConnection`, `SearchIndex` - leases, bounded memory, eventual agreement. *Done, proved.*
5. `Emotes`, `EmoteSets`, `Accounts` - the mutations on the documents users care about. *Done, proved.*
6. `SubscriptionPeriods`, `SubscriptionRefresh`, `RedeemCodes` - money. *Done, proved.*
7. `Permissions`, `Roles`, `Editors`, `Entitlements` - who may do what. *Done, proved.*

Which module composes which: `DistributedMutex` implements `ExclusiveSection`, and
`Transaction` uses that abstraction as its variable `section` (a locked call enters only
when the section is free). The upload modules use of `ImageJobs` only what its callbacks can
be: a verdict that comes once, several times or never, early or late.
`SubscriptionRefresh` abstracts `SubscriptionPeriods` to what the periods of a product are worth.

What theorems there are is in section 5: every invariant and every action property a run checks is
one. What is left to do is breadth, not depth: the parts of section 6.

## 3. Modules

### DistributedMutex and ExclusiveSection

One key. Every `acquire()` draws a fresh id, so a call is its id. `pc[c]` is the await
the call is at, `net[c]` its command or the answer under way, `owner` and `ttl` the key in
Redis. `ServeLock` and `ServeFree` are the branches of `mutex.lua`, each atomic as a
script is; `Start`, `Refused`, `Retry`, `GiveUp`, `Enter`, `Renew`, `Renewed`, `Lost`,
`Complete` and `Freed` are the steps of `acquire`, `Drop` the future that is dropped,
`RedisError` an error that may or may not follow the script. `Tick` ages key and timers.
`lapsed` and `contended` are history. `ExclusiveSection` is what a caller wants: at most
one closure at a time.

### Transaction

Several calls that change one document, with and without the mutex. `srv[c]` is the
transaction on the server ("doubt" once a commit was sent), `driver[c]` what the session
remembers, `snap[c]` how much of `commits` its snapshot holds, `stored` and `staged`
the event documents in the database and in the transaction. The events are written with
the session in the first round and without an open transaction when the commit is
retried, which is how the driver treats a session that has committed. `Land` and
`ServerAborts` decide a commit that was sent; `CommitOk`, `CommitUnknown` and
`CommitAborted` are the three answers; `Drop` is a client that goes away, at any step.

### CronLease

`next` and `held` are what is left until `next_run` and `held_until` have passed, `holder`
is `currently_running_by`. `Fetch` claims a due job, `Lease` holds it for another minute,
`LosesLock` is the lease that finds another holder, `Complete` sets the next run.
`FreeJob` changes nothing, as its filter matches no document. A command carries a clock
reading up to `Latency` old; a runner that is paused just does not take a step.

### CdnCache

One key, `MaxVersion` changes of its object. A request is also the name of the entry it
creates. `Lookup`, `Join`, `Woken`, `Rebound`, `Removed` and `TaskAwaited` are the awaits of
`handle_request`; `Permit` to `Finish` those of the spawned task; `DropHandler` and `Panic`
run the drop guard. `Change` writes the object and publishes its purge, `Purge`
invalidates the key, any number of times until `AckPurge`. `leaked` marks the entry that
stays in the map when a handler is dropped inside `disarm()`.

### ImageJobs

Documents, claims, holds and attempts. Time is a tick; `hold[j]` is what is left of `hold_until`,
`Skew[w]` how far a worker's clock is ahead, and a command acts on a clock reading up to `Latency`
old. `Fetch` claims the job of the highest priority whose hold has passed.
`ThreadStart`/`ThreadEnd` are the blocking task, which keeps its permit after the attempt is gone.
`Tell` hands the verdict to the event queue, `Complete` deletes the job: a crash in between makes
the job run again. A cancellation is two awaits: `Cancel` deletes the document, `TellCancel` hands
its callback to the queue, and `CancelCut` is the handler that ends in between or never gets the
answer of the deletion. Then the job is gone and nobody tells it. `cancelled` says how far it
came, and what is promised of a job that ends is promised of all others.

### EventSubscriptions

A subscriber is one receiver of one connection. `Subscribe`, `Take` and `Abandon` are the
two halves of `subscribe()` and the connection that goes away in between;
`DropReceiver` and `DropGuard` are the two fields of `SubscriberReceiver`, dropped in order.
`Serve` is the request branch of the `select!`, `Publish` the message branch, and
`Malformed`, `Finished`, `NatsCloses`, `ShutDown` are the ways `run` ends.

### EventConnection

One connection and its client. `Publish` puts a presence into the receiver, whose lag
drops the oldest; `HandlePresence` reads one: for a user in the cache of presences it
sends the difference to what was told (`SendDifference`), for others everything, and for
both the objects the client does not have as new as they are (`SendObjects`). `view`
and `knows` are the client's side. The property excuses two things: of a user whose last presence
the lag dropped (`lost`) it says nothing; of a user whom the cache forgot (`forgotten`) it says that the client shows
what the last presence has, and not that it shows no other badge or paint. Personal emote
sets are never taken back, by the code as by the model: nobody enters them in the cache of presences, so
all that is claimed of them is that the client has those of the last presence.

### ProfilePicture

A picture is the upload that creates it. `Check`, `Submit`, `Insert`, `SetPending` are the
awaits of the upload handler, `Abort` its end at any of them with the step executed or
not. `Success`, `Fail`, `Cancel` are the callback transactions, atomic as `Transaction`
shows; `Acknowledge` leaves the message in the stream or takes it out; `HandlerFails` is the
error that is logged and acknowledged. `Report` is the event queue of the image processor, which only
logs that it failed to publish. `cause`
remembers which callbacks were lost, came early or cancelled.

### Emotes

`Count`, `Submit`, `Insert`, `Abort` are the upload, `HandleSuccess`, `HandleFail` and
`CallbackFails` the callbacks. A mutation is `Load`, the copy it decides on, and then one
of `Update`, `SetFlags`, `Delete`, `Merge` under the mutex. `AskReads` and `AskWrites` are the
addition to a personal set, which asks for a request of its own. The statuses of the two
requests of an emote are `listing` and `personal`. `Report` publishes the verdict or loses it
(`lost`), as for pictures. Three permissions matter and are granted separately: `ManageRequests`, that of the
requests, `ManageAny`, that of the emotes of others, and `MayMerge`, that of merging.
Whoever has the second without the first changes the flags and leaves the request open
(`bypassed`). `late` and `undone` remember the emotes
whose deletion was overtaken and whose flags were written from an outdated copy.

### EmoteSets

`entries` is the array in the document. A v4 call is `Load` and one operation (`SetName`,
`SetCapacity`, `RemoveEmote`, `UpdateEmoteAlias`, `UpdateEmoteFlags`, `Delete`), decided on
`copy[c]` and written to the set; a v3 call decides on the set as it is (`EmoteRemove`,
`EmoteUpdate`, `Update`). Adding is the same code for both and two steps: the emotes are
loaded outside the transaction (`AddReads`, `AddWrites`). `heard` is what a listener that
applies the events has. `misled` and `grown` remember decisions on outdated copies.

### Accounts

A login is `LoginFinds`, or `LoginMisses` and `LoginCreates`, then `LoginEnters`, which makes
the session; `Callback` is the v3 login, which is one transaction. A link is `LinkStarts`
and `LinkFinish`. `Merge` moves the connections and closes the sessions of the source.
`revived` are merged users given something by a call that knew them from before.

### SearchIndex

A set and a user who has it active. `Change` and `Delete` are the rest of the system;
`Sent` is the change stream. A handler takes a message, loads the document, for a user
also its set, writes the index, and marks the document; each is an await at which it may
fail. The marks are the filters of `handle_any` on `updated_at`. `lost`, `overlapped`, `torn`
and `uncounted` remember the accidents the properties excuse.

### SubscriptionPeriods, SubscriptionRefresh, RedeemCodes

`SubscriptionPeriods`: the provider's subscription `sub`, the events it has `sent`, and the
periods. A handler of a payment is `LookPaid` or `LookGift` - it has read, and asked the provider
- and `Commit`, which fails if another has written what it read. `SubAge` is the age: `Spans`
joins the periods in the order they start, cut off now, and `SubAge` sums them up.
`SubscriptionRefresh` abstracts the periods to what they are `worth` and follows `refresh` write
by write for several products of one user. `RedeemCodes` has one code; a redemption takes a use,
and then grants by itself or leads to a check-out that is paid or lapses, told by an event that
repeats.

### Permissions, Roles, Editors

`Permissions` holds operators only: the bits as pairs of a group and a name, `Merge`, `MergeAll`,
a recursive function that lets one after another speak, `Has`, `Superset`, the conversion of the
old bits (`ToNew`) and back (`Shown`). In `Roles` a request is `Begin`, which loads its session,
and then one mutation: `CreateReads` and `CreateInserts`, `DeleteRole`, `RolesRead` and `RolesAdd`
or `RolesRemove`, `BanReads` and `BanWrites`, `EditBan`. `Full(u)` is what the loader makes of the
roles in the order of their ranks (`ByRank`) and of the bans in the order they end in (`ByEnd`).
`late` remembers the edges made to a role that was deleted in between. In `Editors` a call is a
read (`CreateReads`, `DeleteReads`, `AnswerReads`, `PermissionsRead`, `EditorsReads`), which
checks, and a write. `logged` is whom the stored events name, `consent` who agreed to the present
invitation, `crossed` whose answer met another document than it was for. `Merge` is the merge of
two users. It has no event and asks nobody: what the merged user was an editor of, the one he is
merged into becomes an editor of, pending or accepted as it was, if he is none yet
(`MergeEditor`), and the editors of the merged user go to the other unless he has them
(`MergeAway` and `MergeInto` are the two sides of it). `unlogged` and `inherited` remember the
entries that changed or were accepted so; of all others the log agrees and the editor did. That a
merge can make a user his own editor is not represented: an entry has one editor.

### Entitlements

`edges` is the graph, `rank` the roles' ranks, `cached` and `top` what a user's document says of
both. A message names a document; that it may be lost is in `SearchIndex`. `HandleEdge`
tells the users who have the source of the edge cached, `Load`, `Walk` (one level of
`traversal`), `LoadRoles` and `Write` are the handler of a user, `Apply` that of a role. `marked`
is `search_updated_at > updated_at`, `fresh` that `updated_at` is still as it was read. `missed`
remembers a user written from a walk that something changed behind, without a way to tell
him: the edge came from a node not cached yet. `unranked` remembers a role marked
without its users, or put back to the rank it had. `Reached(u)`, what the loader of a user finds,
is the least set that no edge leads out of: that the walk level by level finds just that is part
of what is checked and proved. `Links` are the edges that may be made.

### Modules that check several parts

`MCLibrary`, `MCUploads`, `MCFeeds`, `MCLeases`, `MCPayments` and `MCAnswers` each check two to
four modules that share no variables. The variable `part` is chosen at the start and
says whose behaviour runs; the other modules stay in their initial state, so the state
spaces add up and do not multiply. Each property of such a run is the module's own, or the
conjunction of those of the parts. The constraints `InTime` (`MCUploads`), `Unmisled` (`MCLibrary`),
`FewRights` and `FewInvitations` (`MCLibrary`), `Kept` and `Followed` (`MCFeeds`), `Few` and `OneChanges`
(`MCPayments`) cut off behaviours that have used up their bound, or that the properties already
excuse; `InTime` also those of a call that holds outdated flags, as what it may write is excused
and what else it may do does not depend on them.

## 4. Runs

| run | instance | shows |
|---|---|---|
| `Mutex_fair` | 2 calls, TTL 2, period 1, 2 attempts 2 ticks apart; messages as late as they like | overlap only after a lapse, a late free spares the next owner, an `Acquire` error comes from contention, attempt loops end |
| `Leases` | mutex: 3 calls, TTL 5, period 1, latency 1; cron: 1 job, 3 runners, hold 4, lease every 2, interval 3 | timely calls exclude one another and refine `ExclusiveSection`; one runner unless its lease ran out; a due job runs |
| `Transaction_calls` | 2 calls inside the mutex, one of which may run its closure twice, 1 beside it | applied once, Ok means done, published is committed, events follow the commits, every call returns |
| `CdnCache_three` | 3 requests, 2 changes | one fetch and none of what is cached, wakers, joined requests agree and entries have owners, staleness only after a race |
| `ImageJobs_fair` | 1 job, 2 processes with skewed clocks, 3 attempts, hold 7 = 1 + 5 + 1, 2 disturbances | one attempt at a time; permits hold; the job ends |
| `ImageJobs_ttl` | 2 jobs, one with a TTL | *violation*: a started job is removed |
| `Answers` | events: 2 subscribers of a topic, 1 of the topic of its kind, 4 requests in the channel; CDN: 2 requests, 2 changes | nobody misses a message, empty entries leave, subscribe returns; every request is answered |
| `Events_done` | the same subscribers | *violation*: one malformed message ends the manager |
| `Uploads` | 2 pictures of a user; 1 emote with 2 callers, who may both change any emote and one of whom may answer requests and merge; 1 job, 3 attempts, 2 processes | the active picture is ready, lock-outs and stuck uploads have a cause, removals are final, requests match the emote, verdicts are told unless a cancellation was cut off |
| `Library` | 3 users, 2 accounts, 2 sessions; a set with 2 emotes, 2 aliases, capacity 2, 1 v4 call; 4 roles, 1 ban, 2 users, 2 calls; 2 editors, 2 calls | accounts have one owner and users an account; the set is within its rules and as its listeners were told; roles mean what they were made with, bans bite; editors consented, or a merge brought them |
| `Feeds` | search: 2 handlers, 2 deliveries, 3 changes; connection: 2 users, 2 badges, a set, lag 2, caches of 1 | a quiet queue leaves the index right; the client has what the last presence said |
| `Payments` | periods: 2 products, 2 ticks, 2 changes; refresh: 2 products; a code of 3 uses, 3 redemptions; a user, a role and a badge over 4 edges, 2 changes, 2 handlers | periods follow the invoices, benefits the periods, grants the code, the cached entitlements the graph |

The passing runs explore their instances completely. Why the bounds are enough:

- mutex: two calls meet in every pair of states, and a third is only needed for the
  exclusion (a second and a third that both wait for the first). `Delay` * (`Attempts` - 1)
  against `TTL` keeps the code's relation that the attempts outlast a key, 350 x 30 ms against 5 s.
- cron: a third runner takes over from a second that took over from a first; hold and lease
  period keep the ratio of the code, a lease that is renewed well before it ends.
- transactions: a conflict needs two calls; the third is the one that does not take the
  mutex, and the one that another call overtakes. Two tries repeat the closure once;
  eleven repeat the same step.
- CDN: with two requests a joined entry is always answered by its own fetch; the
  third is needed for an entry that the second look at the cache answers.
  Two changes let the first purge arrive after the second change.
- image jobs: two attempts of one process and one of another are the three ways two
  attempts can share a job. `MaxDisturb` bounds crashes, failures and lapses.
- subscriptions: two receivers share a channel, the third makes a message go to two topics;
  `MaxQueue` bounds an unbounded channel: a send that would overflow it waits for the manager.
- pictures and emotes: one pending and one active picture meet; what a third upload can do
  to either is what the second does. Two callers are the one that decides on an old copy and
  the one that makes it old.
- accounts: two that meet and a third that one of them is merged into; an account more than
  a user needs, so that one can be lost and one kept.
- emote sets: two emotes are enough to fill the set and to want one another's name; one v4
  call is enough because it meets every v3 call.
- search: two handlers are the two that can hold one document; three changes make one newer
  than both.
- connections: caches of one entry forget on the second; two users and two badges make the
  second.
- payments: two products of one user, periods of two ticks and gifts of one; a third use of a code
  is the one that is left when two meet.
- entitlements: three levels are a start, one that is known and one below it that is not; two
  changes are one that a walk sees and one it does not. The graph starts empty or without the
  edge from the group, which then may come.
- roles and editors: two calls are the one that has checked and the one that changes what it
  checked; a third role has a rank between or above the first two.

Deadlock is checked for `ImageJobs`, where time never stops. Elsewhere every call
comes to its end and the configurations say `CHECK_DEADLOCK FALSE`.

### Fairness

Liveness is stated under weak fairness of what the runtime and the servers keep
doing, and never of the environment's failures:

- mutex: Redis executes what it receives, timers fire, the call is polled. Nothing is
  assumed of the closure, of errors, or of callers that go away.
- transactions: calls are polled, MongoDB decides a commit it received. `CallReturns` also
  needs strong fairness of a definite commit answer, since the loop on an unknown
  result has no bound in the code (`mod.rs:374`): with a server that stays unreachable
  it does not return.
- cron: time passes, some runner looks for jobs, a runner whose job failed frees it.
- CDN: handlers and tasks are polled; a fetch ends by its timeout.
- image jobs: processes run, time passes, a claimable job is claimed, a blocking task
  ends. `JobsEnd` holds for bounded disturbances.
- events: the manager and the connections are polled; `select!` picks a ready branch at
  random, so requests are served; a drop that has begun goes through.

### Disagreements found

- `service.proto:26` promises that the TTL only removes tasks that have not started. The
  code sets `expires_at` once and never clears it (`ImageJobs_ttl`).
- `subscription/mod.rs:116` says `run` ends with the context or the connection. A message that
  cannot be decoded ends it too, and every later `subscribe` waits for ever, as the
  request channel stays open (`Events_done`).
- Without a run, as read in the code: the two days of grace in `sub_refresh_job.rs:218-221` have no
  effect, as a period that ends after the grace period ends after now. `Ban::from_db` (v3
  `bans.rs`) shows NoAuth for a ban that has Login, where a ban denies it. The check of v4
  `user_editor` against giving permissions one does not have refuses what covers all of
  the giver's own, and v3 `editors` has no such check.

## 5. Proofs

All theorems hold for every value of the constants that the named assumption
`ConstAssumption` of the module admits. Each `Spec => []Inv` is proved from an inductive
strengthening.

- `LeasesProofs`, the mutex. `OverlapSafe`: a granted or running call that has not lapsed is
  the owner of the key (`GrantInv`), and a free under way belongs to a call that has
  ended (`NetInv`), so it cannot hit a running closure; `OnlyOwnerFrees` says the same of a
  step. `TimelyExclusion` assumes `Slack`, Period + 3 * Latency < TTL: `FreshInv` bounds the life
  of the key from below by what the call's timer has used, so it cannot lapse. The 3 is the
  way of the answer, the late timer and the way of the refresh. `MutexImplementsSection` follows.
  `FailuresAreContention` assumes `Patient`, (Attempts - 1) * Delay >= TTL, 10.5 s against 5 s in
  the code: `ContentionInv` bounds the life of a key from above, so that whoever slept through
  all attempts has met a second key.
- `LeasesProofs`, cron. `OneRunnerAtATime` assumes `ClockInTime`, a clock reading is no older than
  the minute of a lease. `LeaseInv`: whoever leased less than a minute ago is entered in the job,
  which is held for the rest of that minute.
- `TransactionProofs`. `CommitInv`: a call's writes are durable exactly when its
  transaction is committed, and the closure only runs while no commit is outstanding -
  hence that a change applies at most once through any number of retries, inside the mutex
  or not. `StoreInv` follows an event document through the first write, the
  retry outside the transaction, and the abort - hence that Ok means done. `LogInv` adds the
  reverse, that what is stored was committed, for calls without a commit in doubt, and
  `SectionInv` and `OrderInv` the order: what a locked call has published is older than the
  change of the one that runs now, even while that has not landed. Hence `EventsInOrder`.
- `CdnCacheProofs`. `OwnerInv`: a creator that has not finished owns the only entry - hence one
  fetch, and nobody else who could fill the cache while it runs. With `EntryInv` on what a joined
  entry still has to run, every waiter has its waker. `AgreeInv` freezes the response of an entry
  once its token is cancelled, so all who joined answer the same. `FreshInv` follows the version a
  fetch has read against the versions purged - hence staleness only after a race.
- `EventSubscriptionsProofs`. `Registered`: a live receiver is in the channel of the map,
  and a request with a sender is that sender's - hence nobody misses a message. `MapIsTidy`
  follows the unsubscribe request of the last receiver through the queue.
- `UploadsProofs`, the jobs. `TimelyOneAttempt` assumes `Roomy`, Hold >= RefreshEvery + 5 *
  Latency + Skew for every worker; the theorem has no weaker form, as with one tick less TLC finds
  two attempts. `HoldInv` bounds what is left of the hold in each phase of an attempt. That
  permits bound the blocking tasks (`PermitInv`, with the theorems on finite sets) and that no job
  vanishes untold, but by its TTL or a cancellation that was cut off between the deletion and the
  callback, holds without timing assumptions. `JobsHearTheirVerdict` counts: each disturbance
  allows one verdict more, and `VerdictInv` says that the verdicts told and those still to come of
  attempts at work stay within that.
- `UploadsProofs`, the pictures. `PendingInv`, `ActiveInv` and `RemovedInv` say that a picture moves
  from its upload to pending, to active, to removed, and never back; `UnknownInv` and
  `StuckInv` carry the cause of a lock-out from the moment the callback was missed to the
  moment the user is left waiting.
- `UploadsProofs`, the emotes. `CopyInv`: a copy is of an emote that was inserted; `AwaitedInv`: an
  emote that waits for its images has a callback to come, or lost one, even before it was inserted;
  `DecidedInv`: what a mutation writes from its copy leaves no request open that is decided, unless its
  caller may not answer requests (`WriteDecides`).
- `FeedsProofs`, the search. `StampInv`: a message is never ahead of its document; `PendingInv`: a
  document that is not marked has a message, or a handler, that will come to it; `AloneInv`: outside
  `overlapped` a document has one handler; with `IndexInv`, `CacheInv` and `CountInv` on what that
  handler has done so far, `SearchHolds`, for any number of handlers, deliveries and changes.
- `FeedsProofs`, the connection. `DatesInv`: the messages in the receiver carry dates between what
  was told last and what is, in their order; `ViewInv`: what the server remembers of a user is
  what the client shows, of badges and paints, and the sets of the last presence it told;
  `LatestInv`: the last message, or else the view, is what was said last.
- `PaymentsProofs`, the benefits. `ReadInv`: what a refresh has read is what the documents said,
  or something it marked as changed since; `EventInv`: an edge to a special event is there
  once a refresh has inserted it; `WrittenInv`: the writes a refresh has behind it agree with
  what it read. Together, for any number of products, `BenefitsHold`.
- `PaymentsProofs`, the codes. `PhaseInv`: events are of check-outs that ended, grants of calls and of
  paid check-outs; `UseInv`: the uses of the code and the redemptions that hold one are its count,
  counted with the theorems on finite sets; `ChainInv`: whatever a user misses of what he was
  promised, a grant of his has still to come to.
- `PaymentsProofs`, the periods. `SubInv`, `SentInv`, `ChangesInv` and `LooksInv`: what the provider's
  subscription is, what it has told, and what a handler holds of it; `InvoiceInv`: one period for
  an invoice; `GiftInv`: gifts that were not hurried lie one after another; `PlaceInv`, `RenewInv` and
  `DeadInv`: where the last period ends, or which event is still to say so.
- `PaymentsProofs`, the age. `Tidy`: spans come one after another and do not touch; `JoinKeepsTidy`: joining
  the periods that start next keeps them so, and covers what they cover (`JoinAllStarting`), hence `SpansCover`,
  by the first start at which it would fail; `SumCounts`: of tidy spans the sum of the lengths is the
  number of cycles they cover. `Forward`: periods end no sooner than they start.
- `PaymentsProofs`, the entitlements. `WalkInv`: a handler that finds its user as he was read has read, of
  the nodes it has visited, the edges the graph has, or a message waits for the difference, and what it has read
  hangs together (`Grounded`); `CachedInv`: so has whoever wrote a user last, and the rank is that of the roles
  or stale; `MarkInv`: who is not up to date has a message, or a handler that will write him; `RankInv`:
  a role that is up to date was applied. The crux is `SameOrWaits`: two readings of one user find the
  same, or a message waits for an edge both have in sight - so a handler that finds nothing new and
  leaves a user as he is does so rightly, or he will be told.
- `LibraryProofs`, the accounts. `OneOwner`, `NobodyLockedOut` and `MergesAreFinal` are inductive with
  `CallInv`, a call holds what its step needs, and `BornInv`, a merged user had been inserted. That a
  link or a merge leaves an account one owner needs lemmas on lists: `PulledDraws`, a list without one
  element draws the others, each as often as it was there.
- `LibraryProofs`, the emote set. `SetInv`: outside `misled` the copy a v4 call decides on lists the
  entries there are (`SameListing`), so that what it finds in the copy is in the set; `PathEndsSooner`
  and `DeletedCountsLess`, through nine merges, that a deletion never makes more entries count.
- `LibraryProofs`, the roles. `RanksInv`: ranks are unique, by the index alone, whatever a request has
  read; `MadeInv`: a role allows what it was made with; `RequestInv`: what a request holds for its write.
  `LastDecides` says of a merge of any length that a bit is as the last one said that spoke of
  it; with `HighestRankOf` the highest of a user's roles that speaks decides (`HighestDecides`).
  `FreeRankIsFree`, that a new role finds a rank, is by pigeonhole; `ShownAsMade` says of every set
  of old bits that a role made from them shows them.
- `LibraryProofs`, the bans. `BanInv`: a ban is of a user marked as banned, and says what its effects say.
  No ban allows what another denies (`BansSay`), and together they have the last word over all
  roles (`BansAreLast`), so what an active ban denies its user does not have.
- `LibraryProofs`, the editors. `ChangeInv`: an answer is to what was pending when it was read, or the
  calls crossed; with it `Consented` and `LogAgrees` are inductive, and each step is `Answered`. Of the merges,
  one lemma (`MovedStep`) covers all three: an entry moved is an unlogged one, and if it is accepted an inherited one.
- `UploadsRunIsEachPart`, `FeedsRunIsEachPart`, `PaymentsRunIsEachPart`, `LibraryRunIsEachPart` and
  `LeasesRunIsCron` tie these to the composed runs: a behaviour of the run is one of each part.

The assumptions on constants say no more than the code does: `UploadsAssumption`,
`EditorsAssumption`: what is no document is not one; `ConnectionAssumption`: a receiver and a
cache hold at least one; `CodesAssumption`: a code has finitely many redemptions;
`RolesAssumption`: there are finitely many roles, among them those there are at first;
`PeriodsAssumption`: the invoices of gifts are others than those of cycles;
`EntitlementsAssumption`: no edge leads to a user or the group, and messages of edges are told
from those of users and roles; the first is what `has_inbound` says (`types/entitlement.rs:198`;
nothing else in the code refuses such an edge, so an administrator's mutation `entitlement_edge`
could make one); `CapAssumption`: the capacity is a number. TLC evaluates each on the run of its
module.

What the attempts at proofs corrected in the models. The excuse `misled` of the emote set used
to compare the entries of the copy with those of the set and not their order: with three aliases
a v4 rename decided on a copy in another order takes an alias that is in use, without the excuse.
`MergeAll` was a fold over a sorted sequence; as a recursive function, with the order stated by what
it is (`ByRank`, `ByEnd`), a last speaker can be shown to decide by the least place that is a counterexample.
The age folded sorted periods; now the joins go over the times at which periods start.
What a user reaches was counted up to a fixed point; as the least closed set it is said without a count.
And a lookup in merged emotes (`MergedResult::get`) follows nine merges, not ten.

Only model-checked is every liveness property, which is out of the prover's reach, and the two
violations, which are found and not proved.

## 6. What is not modelled

The map covers a part of the sources, chosen by what can go wrong in it. Not modelled:

- Queries, loaders and GraphQL types, document types and the macros that generate filters and
  updates, configuration, metrics, the codecs, drives and front ends of the image processor, the website.
  They hold no state of their own, or only what a library keeps for them.
- What else the merge of users writes: the owner of emote sets, periods, bans and emotes. Modelled are its
  connections and sessions (`Accounts`) and its editors (`Editors`).
- The v4 mutation `entitlement_edge`, which inserts or deletes any edge an administrator names. `Entitlements` has its
  edges among `Links`; the property of `Roles` on edges to deleted roles is about `user.roles` alone.
- What a mutation writes beside the parts listed: descriptions, tags, texts, audit entries.
  Their closures are data to `Transaction`.
- Several documents under one transaction, and several mutexes held by one call (the code
  takes one key per call).
- The Redis server failing over, MongoDB rolling back a majority commit, JetStream losing an
  acknowledged message: the code does not handle these.
- The limits of the CDN cache (capacity is `Evict`, at any time), HTTP details.
- Stripe, PayPal, Cloudflare, the platforms and Typesense: only what the code expects of their answers.
- Cosmetics, style and reports; the image frames and sizes the image processor makes.

