# Verification of the bookstore backend

TLA+ models of the Go backend under `src/`, model-checked with TLC on small
instances and proved with TLAPS for every value of the constants. `PROJECT.json` lists the components, runs, mutants,
findings, hazards and theorems, and maps each definition to the lines it models.

## 1. The system

A modular monolith: an HTTP API (gin) over PostgreSQL (pgx, READ COMMITTED),
Redis and Kafka. What is implemented is the identity module and the platform
packages; the order, payment, inventory and audit modules hold package clauses
only, and the mains of the worker and the scheduler are commented out.

| Part | Code | Module |
|---|---|---|
| Sessions, refresh tokens, devices, passwords | `identity/app/service/auth_service.go`, `profile_service.go`, session/device/credential repositories, Redis session adapter | `AuthSessions`, abstract `RefreshTokens` |
| Access tokens, middlewares, routes | `platform/auth/jwt_auth.go`, `identity/http/middleware`, `router.go` | `AccessTokens` |
| Registration, email verification | `auth_service.go` (Register, VerifyEmail), user/credential repositories | `Registration` |
| Addresses | `address_service.go`, `address_repo.go`, `address_handler.go` | `Addresses`, abstract `AddressBook` |
| Idempotency of HTTP calls | `platform/idempotency` | `Idempotency` |
| Transactional outbox and its publisher | `platform/outbox`, `kafka/producer.go` | `Outbox` |
| Kafka consumer group, dead letter queue | `platform/kafka/consumer.go`, `handler.go`, `dlq.go` | `KafkaConsumer`, abstract `Delivery` |
| Processed events; outbox, topic and consumer together | `idempotency/processed_event_store.go`, `service.go`, and the two above | `EventDelivery` (extends `Outbox`, uses `Delivery`) |
| Rate limit, quota | `httpx/ratelimit.go`, `redis/ratelimit.go`, `redis/quota.go` | `RateLimit` |
| Distributed lock | `redis/lock.go` | `RedisLock` |

How they interact: a request passes `RateLimitMiddleware`, then on most routes an
authentication middleware and the idempotency middleware, then a handler of the
identity module. Handlers read and write PostgreSQL, partly inside
`WithinTransaction`; sessions are copied to Redis; Register and the password
methods insert outbox events in their transactions. A dispatcher claims these
rows and publishes them to Kafka, from where a consumer group reads them; its
handlers are to ask `processed_events` whether an event is new.

## 2. Conventions

* A step is one statement or transaction against PostgreSQL, one command to
  Redis, one delivery to Kafka or one run of a handler. Anything else may run
  between two steps. The local variables of a method that is part way through
  are part of the state (`req`, `disp`, `pc`).
* A method that fails before it has changed anything is no step. Failures of
  later statements, lost answers, crashes and expiry are actions.
* Texts, hashes and random values are members of small sets. A fresh token is
  the next number; a password is its version.
* History variables (marked `history`) are read by properties only.
* `MCx` extends module `x` with symmetry sets and constant values where these do
  not fit in a `.cfg`; `x.cfg` or `x_run.cfg` is a run. Operators named after a
  plausible slip (`SetAlways`, `ExceedsOffByOne`, ...) stand before the definition
  they alter and are used by the mutants only: every property of every passing
  run is violated by one.
* The type invariant of each module (`TypeOK`, `AccessTypeOK`, `LockTypeOK`) is a
  conjunct of one of the invariants its run checks.
* The modules that only Redis and the clock bring together, `RateLimit`, `RedisLock`
  and `AccessTokens`, have names of their own for the specification (`LockSpec`,
  `AccessSpec`), so that one proof module extends all three.

## 3. The modules, their runs and what these show

States are distinct states found. All runs pass but the two of section 5.

### AuthSessions, RefreshTokens

State: `sessions` (`user_sessions`, one row per device since
`UNIQUE(user_id, device_id)`), `devices`, `cred`, the Redis `cache`,
`resetTokens`, the requests `req`, and `stores`, the goroutines in which
RefreshToken writes the new copy to Redis after it has answered. Actions follow
Login (device, old session, evict, upsert, store), RefreshToken (cache, row,
rotation, evict, background store), Logout, RevokeAllSessions, RevokeDevice,
ChangePassword, ForgotPassword and ResetPassword. Redis may lose keys and fail
commands; a request may abort anywhere.
ForgotPassword and ResetPassword are methods of the service without a route;
DELETE `/me/devices/:deviceId` reaches RevokeDevice only once the handler reads
the parameter the router declares (it reads `device_id`). The methods are
modelled as they stand.

`RefreshTokens` is the promise: a device has at most one current token, a token
is generated once, only the current token is exchanged, and a session that has been
ended (`ended`) has its token exchanged at most once (`reprieved`) before the next login.

| Run | Checks | States |
|---|---|---|
| AuthSessions_rotation | a token is exchanged once (`SingleRotation`); a revoked session is rotated at most once more (`RevocationBitesWithinOneRotation`); the cache refuses no live session (`CacheNeverCondemns`); no rotation extends a session that had expired when its request began (`RotationWithinLifetime`); refinement of `RefreshTokens` (`ImplementsSingleUse`) | 3.0 M |
| AuthSessions_revocation | the inductive `SessionInv`; only a login brings a revoked row back (`RevocationSticks`); a password change cuts off all other sessions but those of logins that verified the old password before it, and of rows skipped as expired (`PasswordChangeCutsOff`) | 1.5 M |

Bounds: two concurrent requests are what every race of the code needs (one
validates, another changes). rotation has one device, three tokens (a login and
two rotations, or two logins and a rotation) and two ticks with `TTL` 1, so that
a session is alive, at its expiry and past it; revocation has two devices, two
tokens and one password change, without time. The second exception of
`PasswordChangeCutsOff` therefore does not arise in its run; it is stated
because the property would be false with a clock that runs. The proofs lift these
bounds and cover that case.

### AccessTokens

A step is a whole HTTP request, the clock counts minutes. Sessions are kept to what
`AuthSessions` establishes: at most one refresh gets through after a revocation,
from a copy in Redis that may be as old as the session. The route of the refresh
asks for a good access token and the handler for a cookie; nothing compares the
two, so `RefreshToken(e, d)` takes the token of any device `e`, of the same user or
another, next to the cookie of `d`. Of the tokens given out for a session the last
is good for the longest and stands for all.

Run AccessTokens (184 k states): how long access outlasts the revocation of its
session (`RevokedAccessEnds`), and that a client with a good token never loses its
session to expiry (`SessionOutlivesAccess`). As long as a cookie travels with the
tokens of its own session, access ends within two token lifetimes of the
revocation. With another token the late refresh can come until the session expires,
and the bound is the lifetime of a session and one of a token; the run attains it.
`late` notes the one late refresh and tells the two cases apart. Both properties say what a step may
rely on, so that they are inductive together: `EndsInTime` bounds the access that
is left before the revocation, after it and after the late refresh.

Bounds: two devices of one user, of which one revokes the other, and one of another
user. `loadJWTConfig` multiplies minutes by `time.Hour`, and so does
`AccessTokenTTL`; the hour of the run has two minutes and a session lasts three, as
the properties only compare sums of these times, and the clock runs beyond the
largest of them.

### Registration

Register by statements (ExistsByEmail, insert user, credential, token in Redis,
outbox event, commit) and VerifyEmail (GETDEL, then the update). An insert waits
at the unique index for an open registration of the same email. Run Registration
(543 k states): `OneUserPerEmail`, `AllOrNothing`, `AnswersAreTrue`,
`RegistrationInv` (what a call has written at each point, tokens are spent before they activate, and a pending account
has its token unless that expired or a verification took it and failed) and
`RegisterReturns`.
Four requests on two emails allow a winner, a waiter, a late one and another
email; two verifiers race for a token.

### Addresses, AddressBook

Add, update and delete under READ COMMITTED. `UnsetDefaultByUserID` takes its
snapshot and then locks and updates the rows of the user one by one, in any order;
inserts and updates of a default wait at the partial unique index. The module starts
at the service: the handlers of update and delete read another path parameter
than the router declares and answer 400 at present. `ListAddresses` reads the
committed rows in one statement; the properties speak of what it shows. A new
address takes an id that no row, request or snapshot refers to: the column is a
BIGSERIAL, and a deleted id comes back only to keep `Ids` finite.

As the unset has no order, two requests that set the default can wait for each
other's rows. `Waits` says who waits for whom, and `DeadlockDetected` is what
Postgres does about a circle: the statement of one of its members fails.

`AddressBook` is the promise: a request is one operation on the book between its call
and its answer, or has no effect; the default moves in one step.

Run Addresses (96 k states):
`AtMostOneDefault`, refinement of `AddressBook` (`ImplementsAddressBook`),
`CirclesNeedUnset` (in every circle of waits somebody is in the middle of an unset: no
circle is made of inserts, updates and deletes alone), `NotFoundIsExplained` and
`RequestsReturn`, with deadlock checking. Two processes that issue any number of
requests on three addresses: one default, one that replaces it, one that appears
after the snapshot. Circles of two requests form, of two unsets or of an unset and
a statement behind it; that an update unsets its own row as well is what keeps two
updates from forming one. Longer circles need more requests than the run has: the
proof covers them.

### Idempotency

`Reserve` (SETNX), the answers for a key that is taken, the handler, and
`Complete` as its two commands; replies of Redis may be lost and retried, the
process may die anywhere, records expire. Run Idempotency (54 k states):
`AtMostOnce`, `AnswersAgree` and `ResponseIsFinal` for a key whose record has not
expired, the inductive `IdempotencyInv` (every record has a TTL, among others), and `NoKeyHangs`. Three deliveries of a
key, one with another body, cover first, retry and misuse; the proofs cover any
number of keys. The condition on expiry is needed: a handler that outlives its
reservation runs beside a retry, and may complete the other request's record.

### Outbox

`Record` in an open transaction, commit or rollback, the claim, the producer's
repeated writes, the marks, and crashes. ClaimPending is two steps: `Select`
locks the first pending rows that nobody else has locked (SKIP LOCKED), `Claim`
marks and commits them. Between the two another dispatcher selects rows behind
them. `DispatchOnce` has no caller in the build; a dispatcher calls it at any time.

`StrandedByFailureOnly` says what becomes of claimed rows: a dispatcher keeps each
of them until it has tried to record its outcome, whatever became of the others,
unless it dies; and a row that a crash or a failed UPDATE left in `publishing`
(`Stranded`) is never taken up again.

`OvertakesOnlyMissed` says how far the order of `created_at` reaches: an event
is written while an older one waits only if that one was committed after the
claim (Record takes the time before its transaction commits) or was locked by
another dispatcher whose claim then failed. The history `missed` records these
pairs while the younger event is in hand.

* Outbox_dispatch: the run of `EventDelivery`, below.
* Outbox_check: on the table of migration 000007, whose CHECK refuses
  `publishing`, `PendingIsClaimed` is violated. **Outbox_dispatch uses a table
  that accepts the states the dispatcher writes** and checks safety only: what
  the code does once the migration agrees with it. That events get published in
  the end is not claimed.

### KafkaConsumer, Delivery

One partition and the members of a group: start position, fetch, parse, retries,
RecoveryMiddleware, dead letter publication, commit, Close, crash and restart. The
broker assigns the partition to a member (`Assign`) at any time; a session is one
assignment. A member that lost the partition reads on until it notices
(`Revoke`), finishes what it has in hand, and its commit may still be accepted.
kafka-go and the broker are modelled by these two actions only, which allow at
least what the protocol between them does.

`Delivery` is what a group promises: a message is taken when all before it are
finished or were written before the group had an offset, and only finished
messages are committed. It allows repetition and late commits.

* KafkaConsumer_loop (518 k states): refinement of `Delivery`
  (`ImplementsDelivery`), a falling offset comes from a change of session only
  (`OffsetFallsOnlyAcrossSessions`), the inductive `ConsumerInv`, which says the same
  of repetitions (`RepeatedOnlyByReassignment`), and `NoMessageBlocks` and `CloseReturns`. Two members,
  two sessions, two messages and two attempts let a former owner commit after
  its successor; the proofs cover any number of each.
* KafkaConsumer_dlq: with the empty dead letter topic the process is built with,
  `CommittedIsSafe` is violated.

### EventDelivery

The whole way of an event: `Outbox`, the partition `log` into which the messages
of some of its keys are stored as they are written (`Stored`), a group that behaves as `Delivery`
says, and a handler that calls `TryProcessEvent` first and applies its effect,
in a transaction of its own, when the answer is TRUE. The mark is stored through
the pool (`ProvideIdempotencyDBTX`), so it stays when the effect is rolled back.
The handler is external: the repository has none yet. Members
die, statements fail before or after they took effect, producers repeat writes.

Run Outbox_dispatch (491 k states). The dispatchers: `OutboxInv` (exclusive
claims, and the loop, the table and the topic in step), `TopicMatchesTable`, `OutcomeIsFinal`, `OvertakesOnlyMissed`,
`StrandedByFailureOnly`. The whole: `EffectsAreOwed` (at most one effect, however many
copies, members and redeliveries there are, and none without a committed
transaction) and `NothingSlipsThrough` (a published event behind the committed
offset has had its effect, unless one of the known ways to lose it was taken: the
mark without the effect, a message given up, or one written before the group had
an offset).

Bounds: two dispatchers with a limit of two and three events leave one outside
a batch; two writes of the producer make one of them a repetition; two members
hold copies or the same message at once. The two halves are run in turn
(`NoneOrOne`): behaviours with three events of which none is in the partition,
and behaviours with one event, its copies (at most `MaxTopic`) and the group. What
several events in the same partition add is left to the proofs, which cover any
number of them.

### RateLimit

One key, INCR and EXPIRE (and TTL in `RateLimiter.Allow`) as separate commands
that may fail or lose their answer. `via`, chosen initially, selects the
middleware, `Allow` or `QuotaStore.Increment`. Run RateLimit (241 k states):
`AtMostLimitPerWindow`, and `WindowEnds` unless a command of the request that
opened the window failed. One request more than the limit is in flight. `Increment`,
which has no caller yet, sets no TTL when it is called with none; the module is about
windows that end, so `Window` is positive.

### RedisLock

Run RedisLock (917 states): three clients, `ExclusiveWithinLease`: the compare in
the release script keeps a late holder from freeing the lock of its successor.

## 4. Fairness

Every fairness assumption is about something that runs without being asked:
time (`Tick` of RateLimit) and Redis's expiry (Idempotency); the consumer's
goroutine (`Consume` of each member); in Outbox_check, a dispatcher that polls
(`Dispatch`), which makes the violation one of the table and not of a missing
caller (`Claim` is strongly fair, and never enabled); a request in flight
whose next statement can run (`Register`, `Proceed`, `Serve`). `Proceed` is
strongly fair because PostgreSQL queues lock requests in order, so a waiter is not
overtaken for ever. `DeadlockDetected` is weakly fair: PostgreSQL looks for a circle
when a wait has lasted `deadlock_timeout`. Without it `RequestsReturn` fails, as two
unsets may wait for each other. Other failures, crashes and new requests are never fair, except that
a rate limited request goes on or fails. Deadlock is not checked in the runs of
Outbox, Registration, Idempotency and KafkaConsumer, where a finite number of
events, requests or messages is used up. Nothing is assumed of the broker or of
the consumer's handler in EventDelivery.

## 5. Where the code and its documentation disagree

Two runs state a documented rule that the model, as the code is, breaks;
`PROJECT.json` quotes the statements.

* Outbox_check: the CHECK constraint refuses every claim, so no event is
  published.
* KafkaConsumer_dlq: a message whose retries are exhausted is committed although
  its publication to the dead letter topic failed.

The models follow the code at these further points, where the documentation says
otherwise or more. They are no runs; the definition in brackets shows the
behaviour.

| Code | What it does |
|---|---|
| `auth_service.go:282` | a revoked session is refreshed once more from its copy in Redis (`RevocationBitesWithinOneRotation`); `identity.md:1203` gives 401 |
| `auth_service.go:241` | Login writes its session without looking again at the credential and device it checked (`PasswordChangeCutsOff`); `identity.md:1092`, `device.go:28` |
| `session_repo.go:54` | a reset skips expired rows, which a refresh in flight revives (`PasswordChangeCutsOff`); `auth_service.go:554` |
| `device_repo.go:81` | an unknown fingerprint is an empty device, so the device limit is never consulted (`GetByFingerprint`); `auth_service.go:180` |
| `router.go:23` | refreshing needs an access token that has not expired, though not one of the session that is refreshed (`RefreshRoute`); `identity.md:961` |
| `auth_service.go:464` | a password change blacklists no token (`IsTokenBlacklisted`); `identity.md:1093` |
| `jwt_config.go:16` | minutes are multiplied by an hour (`AccessTokenTTL`); `1.srd_specs.md:1066` |
| `address_repo.go:137`, `:146` | RowsAffected is looked at before the error, so that a unique violation, a deadlock or any other failure of the UPDATE or DELETE becomes "address not found" (`Failures`, `NotFoundIsExplained`); `identity.md:1212` |
| `address_handler.go:105`, `profile_handler.go` | the handlers read `address_id`, `device_id`; `router.go` declares `addressId`, `deviceId` |
| `idempotency/service.go:58`, `redis_store.go:83` | a reservation is neither renewed nor rechecked (`AtMostOnce`, `ResponseIsFinal` hold until expiry); `idempotency.md:50` |
| `postgres_repository.go:49` | parallel dispatchers may reorder the events of an aggregate (`NextEvent`, `OvertakesOnlyMissed`); `kafka.md:438` |
| `dispatcher.go:47` | failed and abandoned rows are never retried (`StrandedByFailureOnly`); `kafka.md:308` |
| `idempotency/service.go:141` | `TryProcessEvent` checks and marks in one statement, before the effect, so a handler that fails in between loses the event (`excused` in `NothingSlipsThrough`); `kafka_spec.md:1373` records the event after the business step |
| `auth_service.go:410` | a verification that fails after GETDEL leaves the account pending without a token (`wasted` in `RegistrationInv`) |
| `kafka/dlq.go:62` | a value that is not JSON cannot be wrapped for the dead letter topic (`Wrappable`) |
| `kafka/consumer.go:56` | without a committed offset every start begins at the end of the partition (`FirstPosition`); `config.go:60`, `kafka.md:679` |
| `httpx/ratelimit.go:41` | a lost EXPIRE or INCR leaves a counter that never ends (`WindowEnds`); `1.srd_specs.md:1121` |

## 6. Proofs

All for arbitrary constants that satisfy the ASSUME of the module: any sets of
users, devices, requests, events, members, dispatchers and clients, and any
natural numbers as bounds (lifetimes, limits and attempts are positive). Every
safety property of every passing run is proved.
Where a property of a run is not inductive as it stands, the strengthening is
part of it or of another invariant of the run, so that TLC checks it too; the two
exceptions, `VerifiedInv` and `ExpiryIsComing`, are stated in the proof modules
only. The proof that a step preserves an invariant goes by lemmas for an action or
for a few actions that do alike.

* `AuthSessionsProofs`: `SessionInv` is inductive. `SingleRotation` and the rest
  are not: they depend on what stale copies may say. The
  strengthening is `Backed`: a copy of a session, whether in Redis, in a
  goroutine or in a request, has the device and expiry of the row with its token,
  is no more revoked than the row, and is revoked if the row has been rotated
  since its revocation. Hence a second rotation of a revoked row fails its
  validation, which is what `Exchange` of `RefreshTokens` asks for. From it follow `TypeCorrect`,
  `AtMostOneLateRotation`, `CacheIsLenient`, `NoRotationAfterExpiry`,
  `RevocationIsFinal`, and the step simulation `SessionsImplementTokens`. The
  abstract tokens are exchanged once (`SingleUseInvariant`); `RotatedOnce` and
  `TokensStayApart` carry this over through the refinement.
* `RevocationProofs`: `PasswordChangesCutOff` needs one more
  invariant of `AuthSessions`, `VerifiedInv`: the password a login has verified is no
  newer than the stored one, and ChangePassword works on the owner of its session.
* `IdempotencyProofs`: `IdempotencyInv` ties the record of a key that has not
  expired to the one request that acquired it; `EffectAtMostOnce`, `SameAnswer`
  and `CompletedIsFinal` follow. That every record has a TTL is the safety half of
  `NoKeyHangs`.
* `KafkaConsumerProofs`: neither "commits cover finished messages" nor "once in a
  session" is inductive. `ConsumerInv` adds that sessions are not shared
  (`SessionsApart`), that all before a reader's position is behind the group but the
  message in hand, that nothing ahead of it was handled in its session
  (`ReaderInv`), and that a message in hand has only finished ones before it and
  is finished itself when it is committed (`HandInv`). `CommitsOnlyFinished`,
  `RepeatsOnlyAfterReassignment` and `OffsetMonotoneInSession` follow, and the
  step simulation `GroupDelivers`: the specification implements `Delivery`, with
  the messages handled or given up as `finished`.
* `EventDeliveryProofs`, the dispatchers: `OutboxInvariant`, from which
  `TopicAlwaysMatches`, `OutcomesAreFinal`, `OvertakingIsExplained` and
  `StrandingIsExplained` follow. That
  two dispatchers never hold the same event is not inductive without the state of
  the rows each of them holds; overtaking also needs `StampsInOrder` and
  `MissedIsKnown`: whenever an event in hand is younger than a pending one, that
  pair is in `missed`, or the pending one is in the same batch, about to be claimed.
  This rests on `FirstOfIsClosed`: with a row, `ORDER BY created_at LIMIT n` selects
  the older ones among those it looks at (counting, with the theorems on finite
  sets).
* `EventDeliveryProofs`, the pipeline: `PipelineSpec` implements the outbox
  (`PipelineIsOutbox`), so that what is proved of it holds here.
  `EffectsAlwaysOwed` goes by `ApplyIsExclusive`: a handler on its way to the
  effect has stored the mark, alone, and the effect is not there yet; and by
  `LogMatchesTopic`, which leads from an effect to a mark, a message, the topic and
  a committed transaction. `NothingEverSlipsThrough` goes the other way: from a
  published row to the topic, the partition, the offset, the messages behind the
  group (`InOrder`) and their events, each of which is `Accounted` for.
  `PipelineDelivers`: the pipeline implements `Delivery` too. Its group takes the
  steps of `Delivery` by definition; to be shown is that every other step, the writes
  of the producers and the steps of the handlers, is one of them or leaves the
  partition and the group alone. With `GroupDelivers` the
  two halves meet in the same abstract specification.
* `RegistrationProofs`: `RegistrationInv` says what a call has written at each of
  its points (`Written`) and that its email belongs to it from the insertion on
  (`OwnsEmail`); with `AllOrNothing` it is inductive, and `EmailsAreUnique`,
  `RegistrationIsAtomic` and `AnswersAlwaysTrue` follow.
* `AddressesProofs`: `AtMostOneDefault` holds of the committed rows and of each
  transaction's view of them, a row has one writer, and `Written` says what a request
  has written at each point (`DefaultIsUnique`). `RequestsAreAtomic` is the step
  simulation of `AddressBook`: the commit, or the statement of a deletion, is the
  operation. A commit needs that the rows that were unset are still there (their locks),
  and that no default is left among the others (the unique index). `NotFoundHasAReason`
  follows from the invariant. `WritesDoNotDeadlock`: a request at its
  INSERT, UPDATE or DELETE that others wait for has unset rows and so asks for a
  default; a row has one writer, so that it can wait at the index only, for the one
  transaction that has unset or set the default, and that one goes on
  (`WaitsAreShort`). A circle without an unset would hold such a chain of any length.
* `ExpiryProofs`, what runs out with time. `LimitIsKept`: the requests that have
  passed and those `Admitted` by the value their INCR returned are no more than what
  was counted. `CounterExpires` is the safety half of `WindowEnds` (a counter without a
  TTL has a creator about to set it, or a failed command: `ExpiryIsComing`).
  `LeaseIsExclusive`: a token has one owner, and the key of a client
  within its lease is still there, as its TTL and the lease run out together.
  `RevocationEndsAccess` and `SessionCoversAccess` follow from the bounds of
  `EndsInTime`, under `AccessConstants`, which says of the configuration that an
  access token does not outlive a session. A late refresh needs an unexpired
  session, and one with the session's own token needs that token to be good: these
  are the two bounds.

Only model-checked: all liveness (`NoKeyHangs`, `NoMessageBlocks`,
`CloseReturns`, `RegisterReturns`, `RequestsReturn`, `WindowEnds`), as temporal
reasoning under fairness and ENABLED is out of the prover's reach, and the two
violations of section 5.

## 7. Not modelled

Read endpoints other than the list of addresses, and mappers; validation of
texts, hashing and signatures; configuration, logging, health, CORS, request ids;
wiring and server shutdown; running the migrations; the connection pool; the
`Cache` of Redis (single commands, no caller); `ReleaseHTTP`, `GetHTTP`,
`QuotaStore.Get`, `PublishBatch`, `UpdateStatus` (no caller); the protocol between
kafka-go and the broker; TracingMiddleware (adds values to a context); modules
without code.

## 8. Plan

1. When the first handlers of the consumer exist, `Apply` becomes their code.
2. When `DispatchOnce` gets a caller, its schedule replaces the polling of `Dispatch`.
