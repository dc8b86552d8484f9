# A TLA+ model of the Almena mediator

The mediator (`crates/mediator`, with the DIDComm library `crates/didcomm`) lets
wallets receive DIDComm messages while they are offline. This directory models its
concurrent core in TLA+, checks it with TLC and proves most of its safety properties
with TLAPS.

## 1. The system

| Part | State it keeps | Operations | Talks to |
|---|---|---|---|
| Registration (`dispatch/mediation.rs`, `dispatch/devices.rs`) | mediations, last-seen times, owner of each recipient DID, recipients of each mediation, devices | mediate-request, recipient-update (with possession proofs), recipient-query, set/get-device-info | store, resolver |
| Cleanup (`remove_idle`, `start_cleanup` in `dispatch/mod.rs`) | the round in progress | scan, remove one mediation with all it owns | store; races registration |
| Queue (`store/redis.rs`, `store/memory.rs`) | stream entries, bodies, byte counter, expiry times | enqueue, summary, peek, remove | forward, pickup |
| Forward and live delivery (`dispatch/mediation.rs`, `dispatch/live.rs`, `routes.rs`) | LiveHub's lists, each session's channel | forward, queue, notify, enable, disable, live_delivery | queue, push |
| Pickup (`dispatch/pickup.rs`) | none | status, delivery-request, messages-received, live-delivery-change | queue, LiveHub, push marker |
| Push (`push/`) | devices, push marker | wake, claim_push, release_push, remove_device | FCM and APNs |
| Federation (`dispatch/relay.rs`) | stored relays with due time, retries, lease | deliver, retry_due, schedule/due/finish_relay | other mediators |
| Dispatch (`Mediator::handle`, `route_back`) | none | which handler, where the reply goes | all of the above |
| Envelopes (`didcomm/unpack.rs`, `pack.rs`, `from_prior.rs`, `possession.rs`, `crypto/`) | none | unpack, pack, route | resolver, secrets |
| Resolvers (`transport.rs`, `did/`) | cached did:web documents, remembered did:peer:4 long forms | resolve | HTTP |
| HTTP and WebSocket front (`routes.rs`, `metrics.rs`) | open sessions, counters | receive, websocket, over_limit | dispatch, rate limit |
| Rate limit (`over_limit`, `Store::hit`) | a counter per address and window | hit | store |
| Identity (`identity.rs`) | the key file | load_or_create, rotate | file system |
| Start-up (`main.rs`, `config.rs`) | settings | from_lookup, serve, rotate-keys | identity, store, sockets |

How they run: every HTTP request and every WebSocket is a tokio task; each await on
the store or on HTTP lets others run. In Redis a Lua script, or a MULTI block, is
atomic, and nothing longer is; several instances may share one Redis. The in-process
store takes a mutex per call. LiveHub is per process.

What is hard about it, and what makes each part correct:

* a handler checks that the mediation exists and uses it several awaits later, while
  the cleanup removes idle ones from a scan that is already old: no registration may
  be left without its mediation, and no wallet that came back may be removed;
* one queue is kept in three Redis keys with expiries of their own, by two clocks of
  different grain, and a peek is four calls: nothing leaves but what is acknowledged,
  expired or removed with its mediation, and the byte counter stays exact;
* going live races with forwards: no message may fall between the status and the
  first push; a session that died must not hold back the wake-up;
* wake-ups of concurrent forwards are coalesced by one marker that pickups release:
  not too many pushes, not too close, and none lost;
* relays are leased to one of several workers, over crashes and slow requests: never
  lost, given up only after every retry, and sent by one at a time as long as the
  leases last;
* a forward is wrapped by one party and unwrapped by others, each of which may route
  it anew: it must arrive, be readable where it arrives, and not go round; and replies
  must not go to a DID that an unproved `from` names;
* pack and unpack run at two ends with documents of different age and keys on several
  curves: what one makes the other must take, and nothing that was changed on the way;
* the rate limit reads the clock in one place and counts in another, and a message has
  many ways out of its handler: budgets and counters must stay right on all of them;
* processes start, rotate keys and stop on one key file: it must stay whole, and the
  identity the same.

`PROJECT.json` lists each of these as a hazard at its line, with the properties that
would catch it going wrong.

## 2. Modules

| Module | Models | State and actions |
|---|---|---|
| `Registry` | registration and cleanup, on the Redis store | `granted`, `seen`, `owner`, `recipients`, `devices` are the Redis keys. A handler is one authenticated message: `Receive`, `Touch`, then `Grant`, or `BeginUpdates` with `StartAdd`/`Add`/`Remove`, or `BeginDevice`/`UpdateDevice`. A cleaner is an instance's task: `StartRound`, `Scan`, `RemoveIdle`, `EndBatch`. `Abort` and `AbortRound` are store failures and restarts. |
| `Mailbox` | the contract of the `Store` trait for one queue | `Put`, `Acknowledge`, `Age`, `Close` |
| `RedisQueue` | one queue in Redis | `entries`, `bodies`, `bytes`, `expires`; `Enqueue`; a pickup is `StartPeek` (trim), `XRange`, `MGet`, `RemoveOrphans`, `Acknowledge`, `Status`; `Tick` expires keys |
| `MemoryQueue` | one queue in process | `Enqueue`, `Use`, `Remove`, `RemoveMediation` |
| `Delivery` | forward to a local recipient, LiveHub, WebSocket sessions | a forward of several payloads is `StartForward`, then `Enqueue`, `Notify` per payload, then `Wake`; it ends early with `QueueFull`, `EnqueueFails`, or `EnqueueUnanswered` (queued, but the answer was lost or the request dropped); a session is `BeginLive`, `Insert`, `Status`, `EndLive`, `Deliver`, `Break`, `CloseSession`, `Die` |
| `Push` | push wake-ups of one mediation | a task is `Spawn`, `ReadDevices`, `Claim` or `Refused`, then `Send`, `InvalidToken` (of any token), `RemoveDevice` per device; `RemoveMediation` takes devices and marker; a pickup is `StartPickup`, `Release`, `Look`; `WakeFails`, `PickupFails` and `Restart` are the failures |
| `Relay` | relays and their retries | `Deliver`, `FirstOk`/`FirstFails`, `Schedule`; a worker is `Round`, `Retry`, `RetryOk`/`RetryFails`, `Finish` or `Reschedule`; `DeliveryLost` and `RoundLost` are the failures |
| `Routing` | envelopes, routing and replies between mediators | `wire` holds the requests under way, each a core in its forwards. `Send` and `Ask` make them; a mediator handles one with `QueueForward`, `Relay`, `Refuse` or `Reject` (forwards, and what it cannot unpack), or `Answer`, `QueueReply`, `PostReply` or `NoReply` (messages to itself) |
| `Did` | curves, multikeys, DID documents and the four DID methods, as operators | no state: `EncodeKey`, `DecodeKey`, `FromJson`, `ResolveKey`, `ResolvePeer2`, `ResolvePeer4`, `ResolveWeb`, ... A key is a curve and a number; a varint is its bytes |
| `Envelope` | pack and unpack between two parties, on top of `Did` | `Encrypts` or `Signs` puts an envelope on the wire, `Alter` changes one of its fields, `Arrive` and then `UnpackJwe`, `UnpackJws`, `UnpackMessage` open it layer by layer; `Rotate`, `Refetch` and `Forget` change documents and caches meanwhile |
| `Startup` | configuration, start-up and the key file | a process is `Launch`, `Check`, then `Read`, or `Open`, `Write`, `Rename`, then `OpenStore`, `Start` (which reads the push credentials), `Bind`; `Stop` at any point; `RedisToggles` |
| `Server` | the HTTP and WebSocket front, the rate limit of both stores, and the metrics | `Request` or `Frame` reads the clock, `Hit`, `Unlimited` or `StoreFails` is over_limit, then `NotAMessage`, `Receive` or `OpenSession`; `EndSession`; `Vanish` drops a handler, or a session's task, where it awaits |

Eight modules of proofs stand beside them and add no behaviour (section 4):
`Registry_proofs`, `RedisQueue_proofs` (which is about `MemoryQueue` and `Mailbox`
too), `Delivery_proofs`, `Push_proofs`, `Relay_proofs`, `Routing_proofs`,
`Envelope_proofs` (`Envelope` and `Did`) and `Server_proofs` (`Server` and `Startup`,
whose specification is `StartupSpec` so that one module may extend both).

`MC*` modules hold the definitions the `.cfg` files need (proof sets, the users of a
connection, documents and requests, symmetry sets). Two of them put several instances
into one run: `MCQueues` the queue of either store, chosen when it starts, and
`MCProgress` the three modules with liveness properties. This is for brevity; the parts
have no variable in common, and a behaviour is one of one part, whose fairness alone is
assumed, while the others stand still.

`RedisQueue` and `MemoryQueue` compose with `Mailbox` by a refinement mapping: both are
shown to implement it, with `mail` the entries that still have a body, or the list. Each module also defines mutants, marked as such, just
before the definition they change; they are what `PROJECT.json` lists under `mutants`
and are used by nothing else.

Abstractions common to all: wallets and payloads are model values; replies are left
out unless a property is about them; metrics are in `Server` only; logging is left out.
DIDs are model values but in `Did` and `Envelope`, where they are their method and keys.

Cryptography is symbolic. In `Registry` and `Routing` a proof or a layer is the record
of its claims. `Envelope` looks one level deeper: a shared secret is the pair of keys
it was made from, a derived key the secret with `alg`, `apu`, `apv` and (for 1PU) the
tag, a ciphertext names the key, the nonce and the header it was sealed with, a
signature the key and the bytes it is over. Opening is equality of these terms, so the
model shows what each header field is bound by; it says nothing of the algorithms
themselves, which are assumed to be as strong as the terms.

## 3. Runs

| Run | Question | Bounds |
|---|---|---|
| `registry` | is ownership consistent, within its limit, proved, never orphaned or taken over, and are only idle mediations removed? | 2 wallets, which are also the DIDs to register, 2 handlers, 1 cleaner, batch 1, TTL 3, handling up to 1 s, store failures |
| `queues` | does the queue of each store keep the contract, and the Redis one its limits, its counter and its order? | Redis: 2 pickups at once, sizes 1 and 2, a clock of half seconds that lags by one, 3 messages, one removal of the mediation; in process: 2 recipients, 4 messages |
| `progress` | does every stored relay end, and none early; does an idle mediation go away; is everything picked up? | relays: 2, with 2 workers, batch 2, timeout 2, lease 3, 2 retries, 2 forwards (of different payloads or the same), 1 crash or store failure; cleanup: 1 handler, 2 cleaners, TTL 2; pickup: 1 at a time, 2 recipients, with and without a filter, 3 messages |
| `relay_lease` | expects a violation: two instances send the same relay at once | 5 relays, 2 workers, in units of 15 s: lease 4, batch 16, timeout 1, waits of 1, 2, 8 and 40; no request is answered |
| `delivery` | does going live leave a gap; does a dead session silence the wake-up? | 2 wallets that share one connection, one of them with another, 2 recipients of the latter, 2 forwards of up to 2 payloads, buffer and queue of 1 |
| `delivery_partial` | expects a violation: a message is queued for an offline wallet, and no push sent | 1 forward of up to 2 payloads, queue of 1 |
| `push` | are pushes coalesced, spaced and never lost, and fresh tokens kept? | 2 services (one with 2 tokens), 2 tasks, 1 pickup, interval 2, hold 3, lag 1, failures, restarts and removals of the mediation |
| `routing` | does routing lose nothing, queue only what its owner can read, and reply only to proved senders? | 2 mediators, 2 wallets, every set of registrations and federation settings, 8 services of the recipient with up to 2 hops, 11 layerings with agreeing and disagreeing senders, 1 message |
| `routing_loop` | expects a violation: a mediator relays a payload twice to the same next | as `routing` |
| `envelope` | does unpack take all that pack makes, and only that; is a rotation proved; does pack find keys whenever there are some? | 5 pairs of identities over the four DID methods and six curves, any layers and addresses, one lost key, one changed field, 2 versions of a did:web document |
| `startup` | is the key file whole, and the identity kept? | 3 processes, 11 environments of good and bad settings, stops at any point |
| `server` | are budgets kept and only overusers refused, and do the metrics account for every request and session that is not cut off? | 2 clients, 2 connections, limit 1, 2 windows of 2 s, delay 1 s, 3 requests, either store, with and without a proxy |

The bounds are chosen so that every limit is met and passed within them: batches of
one and a lifetime of three seconds make a cleanup round stop early, a wallet come
back while it is in a batch, and a touch arrive late; a buffer of one fills with the
second message; two tasks suffice for every race between a check and the call that
relies on it; two relays of two-second requests make a round outlast its lease of three;
three processes are a first start, a rotation and a restart. Two windows and a delay of one second let a hit be late in the first and reset the second;
the limit is passed with the second of three requests, and all three may be of one
connection's session. Symmetry is used only for handlers, pickups, tasks, forwards,
recipients, connections, relays and workers that are interchangeable, in runs without
liveness properties.

Three runs expect a violation. Each states what a document of the repository says, and
TLC shows how the code comes to do otherwise:

* `relay_lease`: `LEASE_SECS` is 60, but a round takes up to `BATCH` = 16 relays and then
  tries them one after the other for up to 15 s each (`relay.rs:135`,
  `transport.rs:53`), so the later ones are tried when their lease is over.
  `docs/didcomm.md:245` says that "several instances never send the same one at once"
  (`NoConcurrentSend`). With the program's own values and destinations that do not answer,
  five relays are enough. What does hold for any values is `SentInTurn`, about the relays
  that no worker took while another still had them;
* `delivery_partial`: a forward of several payloads that fails half way returns before
  `wake` (`mediation.rs:215`), so that the ones it has queued wait without a push.
  `docs/didcomm.md:201` says that a push is sent "when a message is queued for a DID that
  is not online" (`PushedWhenOffline`);
* `routing_loop`: `relay` looks for itself only as the first hop of a route and in its URI
  (`relay.rs:63`). A `next` whose service names this mediator and then another, with
  neither of which it is registered, is passed by each to the other, each request nested
  in the one before. `docs/didcomm.md:246` says that a route back is "`404`, not a loop"
  (`NoLoop`).

Other limits, where the code does less than a reader of its comments may expect or the
properties say less than their names:

* a message whose enqueue script ran although the call failed, or whose forward was
  dropped while it waited for the answer (`mediation.rs:232`), is queued and neither
  offered to live sessions nor woken for. `NoGap` and `PushedWhenOffline` leave out these
  messages (`unanswered`), and `NoGap` the recipients that the status, which may be asked
  for one recipient, did not speak of;
* a handler that is dropped when its client disconnects (`routes.rs:190`) counts nothing,
  and a session whose task dies without `close_session` stays on the gauge
  (`dispatch/mod.rs:250`). `MetricsTruthful` says how far the metrics are off: by exactly
  those (`lost`, `dead`);
* `live_delivery` packs a push for the mediation its session is live for when the push
  is taken from the channel, and `enable` for another mediation leaves the channel as
  it is (`dispatch/mod.rs:258`). On a connection that two wallets use in turn the second
  may be handed a message of the first, where `routes.rs:268` speaks of "new messages
  for the sender's mediation". `Delivery` has such connections, and its properties speak
  of a message being delivered at all;
* two processes that create keys at once, at a first start or in a rotation, share the
  temporary file (`identity.rs:71`): one may rename what the other has just cut to
  nothing. `KeyFileWhole` and `SameIdentity` leave these out (`overlapped`);
* a hit that reaches the store after its window has ended grants up to another budget:
  in Redis its counter may have expired, in process it resets the counter of the newer
  window. `WithinBudget` allows one budget per such hit, and what passes while the
  store fails; it refuses nobody wrongly (`OnlyOverusersRefused`);
* after a rotation, what was encrypted to the old keys cannot be read, and signatures
  are checked against whichever version the cache holds: `WhatIsPackedOpens` lists the
  versions' disagreement among the reasons for which an envelope may be refused;
* a live session whose buffer is full misses a push until it picks up (`NoGap` allows
  it);
* `IntervalKept` rests on a queue TTL of at least the push interval, which the
  configuration does not enforce;
* `send_reply` drops a reply whose route begins at this mediator, even if the sender is
  registered with a later one;
* a process that stops between claiming the push marker and the push leaves no push until
  the wallet picks up or the marker expires; a push is a hint by design;
* `iat + PROOF_MAX_AGE_SECS` overflows for an `iat` near 2^64 (`mediation.rs:151`): the
  proof is refused in a release build, and a debug build panics. `iat` has no width in
  `Registry`;
* a payload forwarded again while it waits replaces its own lease and retry count, and one
  that two workers have is rescheduled or finished by both: `SentInTurn` (no request after
  the last retry, none after it was accepted) is about payloads forwarded once, not taken
  from another worker, in the absence of failures. No property says that a retry comes in
  time, only `NothingWaitsForever` that it comes;
* `OnlyIdleRemoved` reads the stored last-seen time, which a slower message may have set
  back; what a wallet loses by that is bounded by `NothingOrphaned` only;
* a mediation may be removed between a task's reading of the devices and its claim
  (`Push`): the task then leaves a marker that outlives the mediation until it expires;
* a mediator queues any attachment that `Jwe::parse` takes (`mediation.rs:203`). `Routing`
  sends honestly wrapped forwards, so `OnlyItsMail` is about these;
* `Registry` keeps one device for a mediation, where the store has one for each push
  service; `Push` has them apart. `Envelope` changes one field of the outermost layer of
  an envelope on its way;
* the in-process queues have a limit in bytes like those in Redis; no property is about
  it, since `Mailbox` has no limits and the list is measured anew at every enqueue;
* in `progress` the store has room for all its relays: that a full one refuses new relays is
  in the model (`Room`) but not reached, since a third relay makes the run too long;
* in the cleanup part of `progress` no time passes within a message's handling; how slow
  messages interfere with the cleanup is the question of `registry`.

In `routing` one message suffices: mediators share nothing between requests but the
queues, which are sets here, so messages do not influence each other.

Deadlock is checked in every run but `delivery` and `delivery_partial`, where a state
without a successor is one in which all connections are closed and the ids are used up,
`routing` and `routing_loop`, where the network is silent once its message has been
handled, and `server`, where the clock stops and the requests are used up.

### Fairness

* `Registry`: weak fairness of each handler and cleaner step. tokio polls every ready
  task, store calls return or fail, and `tokio::time::interval` keeps firing.
* `RedisQueue`: the wallet keeps picking up (weak fairness of its steps), and again
  and again without a filter (strong fairness of that request). That is an assumption
  about the wallet, and the property speaks of such a wallet only.
* `Relay`: time passes, a request ends (the HTTP client has a timeout), and workers
  keep running. Which way a request ends is left open. Store failures and crashes are
  finitely many (`MaxFailures`), since a store that fails for ever keeps relays for
  ever.

## 4. Proofs

TLC checks the instances of section 3; the modules `*_proofs` prove, with TLAPS, what
holds for every value of the constants: any number of wallets, handlers, sessions,
tasks, workers, connections, mediators and processes, any limits, lifetimes and routes.
The bounds that only keep TLC's state space finite (`MaxTime`, `MaxIds`, `MaxForwards`,
`MaxFailures`, ...) are constants like the others, so the theorems hold however large
they are.

| Module | Theorem | Property | Under |
|---|---|---|---|
| `Registry_proofs` | `TypeCorrect` | `TypeOK` | `HandlingAssumption` |
| | `OwnersAlwaysMatch` | `OwnersMatch` | |
| | `LimitHolds` | `WithinLimit` | |
| | `NothingEverOrphaned` | `NothingOrphaned` | `HandlingAssumption` |
| | `NeverTakenOver` | `NoTakeover` | |
| | `RemovedOnlyIfIdle` | `OnlyIdleRemoved` | |
| | `AlwaysProved` | `RegisteredWithProof` | |
| `RedisQueue_proofs` | `RedisKeepsPromise` | `KeepsPromise`: it implements `Mailbox` | |
| | `BodiesHaveEntries` | `NoBodyLost` | |
| | `DeliveredInOrder` | `OldestFirst` | |
| | `CounterInStep` | `BytesInStep` | |
| | `LimitsHold` | `WithinLimits` | |
| | `MemoryKeepsPromise` | `KeepsPromise` of `MemoryQueue`: it implements `Mailbox` | |
| `Delivery_proofs` | `LiveComplete` | `NoGap` | |
| | `GoneSessionsWake` | `GoneSessionsDontSilence` | |
| `Push_proofs` | `DevicesSafe` | `DeviceKept` | |
| | `WakesSafe` | `NeverLeftWaiting` | |
| | `OnePushPerPickup` | `OnePerPickup` | |
| | `PushesSpaced` | `IntervalKept` | `Hold >= MinInterval` |
| `Relay_proofs` | `StoredRelaysTried` | `GivenUpOnlyAtTheEnd` | |
| | `RelayedInTurn` | `SentInTurn` | |
| `Routing_proofs` | `QueuesAreReadable` | `OnlyItsMail` | |
| | `RepliesGoToAskers` | `OnlyAskersGetReplies` | |
| | `RoutingLosesNothing` | `NothingLost` | |
| `Envelope_proofs` | `AcceptedAsPacked` | `NothingAlteredOpens` | |
| | `PriorStatesRotation` | `RotationProved` | |
| | `DidKeyResolves` | what a did:key resolves to, with `MultikeyRoundTrip` and `JwkRoundTrip` | |
| `Server_proofs` | `KeyFileSafe` | `KeyFileWhole` | |
| | `IdentitySafe` | `SameIdentity` | |
| | `BudgetHolds` | `WithinBudget` | |
| | `OverusersOnly` | `OnlyOverusersRefused` | |
| | `MetricsHold` | `MetricsTruthful` | finitely many connections |

Every module also rests on the named assumption in the module it is about, which types
the constants (`RegistryAssumption`, `PushAssumption`, ...); TLC evaluates these on the
instances of the runs. What they say beyond types: `RateAssumption` that a request
reaches the store within less than a window; `RoutingAssumption` that requests name a
mediator and documents' services an endpoint; `EnvelopeAssumption` that the DID alice
had before is a did:key. The identities of `Envelope` are not restricted at all:
its two invariants hold for DIDs and documents of any shape.

### Hypotheses

Two hypotheses are where the code itself relies on something it does not enforce:

* `HandlingAssumption`: twice the longest handling of a message is below the mediation
  TTL. The scripts that register do not look whether the mediation still exists, so that
  it does rests on the touch at the start of every message, and a second, slower message
  of the wallet may overwrite that touch with a time up to one handling older.
* `Hold >= MinInterval`: the queue TTL is at least the push interval.

The third, finitely many connections, is what makes counting them in `MetricsTruthful`
mean anything; it holds of any machine.

### Arguments

Each proof is one inductive invariant, `IInv` (that it holds is `Invariance`, in
`Registry_proofs` the lemma `Inductive`, for `Startup` `StartupInv` and
`StartupInvariance`), with a lemma per action that says what the
action writes, and one per group of conjuncts that says it is kept.

* `Registry`. `Busy` and `SeenInv` bound the times handlers and touches carry;
  `HandlerInv` and `CleanerInv` say what each program point knows; `Spared` is the core:
  the mediation of a handler past its check was seen so recently that no cleanup round,
  whose cutoff is a TTL ago, can remove it before the handler ends. From it, `InUse`
  keeps the mediation granted, and `NothingOrphaned` follows. `Proved` carries the
  verified proof from the check to the registration. `WithinLimit` needs
  `FiniteRecipients`, since cardinalities grow by one only for finite sets.
* `RedisQueue`. `BodyInv` ties a body's expiry to the arrival of its entry, and the
  stream's expiry to the latest of them; `MinIdBound` says that the trim, in whole
  seconds of a clock that may lag, never reaches an entry whose body lives.
  `GoodPickup` is what a peek knows between its calls: what it chose has no gap from the
  oldest on, and an orphan's id never gets a body again, so removing orphans removes no
  mail. The refinement maps each action to `Put`, `Acknowledge`, `Age`, `Close` or a
  stutter, with the entries that have a body as the mail. `BytesInv` adds that `bytes`
  is the sum of the sizes of the entries. Sums over a set of any size would call
  for induction; here a claim about finite sets is proved by a smallest counterexample
  instead (the well-foundedness of the naturals gives one of least cardinality, and
  taking one entry from it contradicts that it is least), which gives the one lemma needed:
  the size of a set is that of any part of it and that of the rest. What a script takes
  off the counter is then exactly what it removes, and an enqueue adds what it checked
  against the limit.
* `MemoryQueue`. `MemoryInv` only types the queue. The core is `StaleIsExpired`: what a
  use of the queue drops, comparing whole seconds, has outlived its lifetime to the tick,
  so that the drop is an `Age` of the mailbox, or part of the `Put` it comes with.
* `Delivery`. `SessionInv` says that LiveHub's list and the session's own record agree
  for sessions that are not gone, and that a session is told only after it is listed;
  with `ForwardInv`, which says that what a forward is about to offer is already queued,
  this closes the gap from both sides.
* `Push`. `RemovedRejected` says that a task about to remove a device holds a token that
  the device's service rejected; since removal compares, that is the only one it takes.
  `MarkerInv` reads the marker as the trace of the last claim, `ReleasedSoon` and
  `MarkerLasts` bound its life from above and below: above for `NeverLeftWaiting`,
  below for `IntervalKept`.
* `Relay`. `Counts` says that a retry count, stored or in a worker's hands, never exceeds
  the requests made, so that nobody gives up early, whatever the lease. For `SentInTurn`
  the invariant adds `HeldOnce`, that a worker has a relay once, and `Turn`: of a relay
  forwarded once that nobody took from another, without failures, at most one worker has
  it, with the retry count it is stored with, which is the number of requests made but
  for the first and the one under way; and only that worker can have been told that it
  was accepted.
* `Routing`. `WireInv`: a forward under way carries a rest of the route of its
  recipient's document, never anything else; `Underway`: a message to a reachable wallet
  is at a mediator of its route, wrapped for the rest of it, or in the queue at the end.
* `Envelope`. The tag of a JWE determines its iv, header and text, and `apv` in the
  header determines the recipients; the signature of a JWS determines its protected
  header and payload. `WireInv` says that the wire holds an envelope of the request with one
  field changed at most (`OnTheWay`); if such an envelope opens, the text inside and the
  recipients are those that were sent. `UnpackInv` follows
  bob layer by layer: what is open is the envelope as it came, the authcrypt inside an
  anoncrypt, the signed message, or the message, and the metadata so far agree with the
  request. The rotations and fetches of documents leave all this alone, since no step of
  it says which document a key was found in. Because a tag is claimed to come from *some*
  content key, the invariant has quantifiers over all values and only the prover can
  check it; TLC checks the two properties.
* `Did`. A varint of the values in use has at most three bytes, so the recursive
  function has a closed form, unfolded three times; with it `EncodeVarint` equals its
  recursion equation, the codec prefixes of the six curves are two bytes each and
  differ, and decoding is the inverse of encoding.
* `Startup`. `FilesInv` and `Alone` say that who creates keys is alone with the
  temporary file, unless two overlapped; `KeysOfFile` carries the keys from the file to
  the one that serves; `ProcInv` says what
  a process has at each of its program points.
* `Server`. `HitsInv` says that a Redis counter outlives its window. `BudgetAt` tells
  where a budget stands: counted, not yet counted, or no longer counted, which is only
  after its window; a hit that starts a counter anew for a window that had one is late,
  and pays with one budget. `CountsTruly` (no counter is ahead of the hits of its
  address in its window) gives `OnlyOverusersRefused`. `HitMade` and `HitPaid` say what
  a hit does whether or not its answer arrives. `MetricsInv` adds that only sessions are
  open; `Moves` is the balance each step keeps, and `VanishMetrics` that of a handler or
  session that is cut off.

### Only model-checked

* Liveness (`IdleGoesAway`, `EverythingPickedUp`, `NothingWaitsForever`): the prover
  has no fairness and no ENABLED.
* `WhatIsPackedOpens` and `CompatibleKeysSuffice` of `Envelope`: that packing and
  unpacking succeed when they should. Unlike the two that are proved, they depend on
  what the documents hold. For arbitrary did:web versions or did:peer:4 documents they
  need not be true (a version may drop the key an envelope was sealed to, a document may
  list a key its curve cannot use), so a theorem would have to assume of the identities
  what the instance gives them, entry by entry. The run enumerates every identity,
  encryption, address and alteration of its instance.
* What `ResolvePeer2`, `ResolvePeer4` and `ResolveWeb` come to: they are filters and
  folds over lists of any length, which need induction over data.

## 5. Not modelled

* The numeric algorithms of `crypto/`, base64 and JSON texts, URLs, and the parsing of
  single settings: out of TLC's reach and without state; the repository has test
  vectors for them.
* `home.rs`, `oob.rs`, `testing.rs`, the healthcheck command, status codes and texts of
  problem reports: no state.
* `pack_plaintext`, attachments, the pages of recipient-query, and discover-features,
  which answer from what other modules hold.
* The time a did:web document stays cached and the capacities of both resolver caches:
  an entry may end at any moment in `Envelope`, which allows more.
* The loss of power while the key file is written: `Startup` stops processes, not the
  machine, and the file is not synced before its rename.
* The counters of relays, pushes, queues and mediations.
* The cached access token of FCM and the provider token of APNs: a token dropped too
  early is fetched again, and a push is a hint.

Two extensions would be next: a composition of `Registry` and `Delivery`, for a
mediation removed or a DID registered anew between `mediation_of` and `enqueue`, and the
cached credentials of the push services.
