# A verification project for Estafeta

Estafeta is a notification server: producers send notifications over gRPC, a
JetStream work queue carries them to processors, processors resolve the
recipient's preferences and store them in PostgreSQL, and users, producers,
administrators and a background scheduler move them through their lifecycle.
Any number of identical instances run side by side and share nothing but
PostgreSQL and NATS.

This directory holds TLA+ modules that model the server's core, TLC
configurations that check them on small instances, and TLAPS proofs of their
most important properties for every value of the constants.
`PROJECT.json` lists runs, mutants, the source lines each definition stands for,
findings, hazards and theorems.

    tlc -config MCInboxPair.cfg MCInbox      # one run
    tlapm InboxProofs.tla                    # one proof module

## 1. The system

Paths are relative to `src/crates/estafeta-server/src/`.

| Component | State | Operations | Talks to |
|---|---|---|---|
| State machine (`lifecycle/state_machine.rs`) | none: states, transitions, targets | `valid_transitions`, `can_transition_to`, `apply` | nothing calls `apply`; the SQL conditions repeat it |
| Notification store (`db/notifications.rs`, `grpc/notifications.rs`) | table `notifications`: state, snoozed_until, expires_at, next_escalation_at, escalation_count, seen_at, read_at | insert, mark seen/read/unread, snooze, archive, archive group, unarchive, producer mark read, resurface, bump; reads | PostgreSQL; one statement per call |
| Scheduler (`lifecycle/scheduler.rs`) | none of its own; a batch of rows during an escalation pass | wake snoozed, expire, escalate, every 30/60/60 s on every instance | the store, the type table, realtime events |
| Ingestion (`grpc/notifications.rs` send, `nats/publisher.rs`, `nats/setup.rs`, `processing/processor.rs`) | stream NOTIFICATIONS and its consumer; the message in a processor's hand | send, deliver, process, ack, nak | JetStream, the caches, the store, realtime events |
| Type and level caches (`cache/mod.rs`, `processing/processor.rs`, `grpc/schema_registry.rs`) | per instance: entries with a 300 s life | load on a miss; register/update a type, which drops the entry on one instance; register/update a level, which drops nothing | tables `notification_types`, `notification_levels` |
| Preferences (`grpc/user_config.rs`, `db/preferences.rs`, `db/mute_rules.rs`, `processing/preference_resolver.rs`) | tables for the switch, services, types and mute rules; per instance a copy with a 60 s life | user calls; four-statement load; `resolve` | the processor |
| Realtime (`nats/publisher.rs`, `lifecycle/scheduler.rs`, `grpc/streaming.rs`) | per publishing task: the events of its last statement not yet published; per Subscribe call: two NATS subscriptions, the event in the relay's hand, a 128-entry channel | publish, subscribe, relay, filter, send | NATS Core, the client |
| Listing and counts (`grpc/notifications.rs`, `grpc/admin.rs`, `grpc/schema_registry.rs`) | none on the server: the token is the offset | pages of notifications, types, services; counts | the store and the registry's tables |
| Authentication (`auth/jwks.rs`, `auth/interceptor.rs`, `main.rs`) | key map per instance, fetches under way | refresh (start-up, every 1800 s, on an unknown key), look up, look up again | the JWKS endpoint |
| Authorisation (`auth/keto.rs`) | none | one question per call, before anything else | Keto |
| Services, levels, global policy (`grpc/admin.rs`, `db/services.rs`) | their tables | register, update, enable, disable; resurface a notification | PostgreSQL |
| Schema validation, proto conversion, configuration, start-up, migrations | none | pure, or run once | |

What is hard here: three scheduler loops per instance that race users and each
other over the same rows; an escalation pass that is four statements on a
snapshot whose locks are already gone; at-least-once delivery with lost
acknowledgements, late processors and producers that retry; a cache filled in one
step and invalidated in another; a preference copy read in four statements and
never invalidated; a relay with two subscriptions and a bounded channel over a
transport that keeps nothing; key refreshes that overlap and each replace the
whole set; pages cut by offset from a table that changes; checks read one after
the other while what they check changes. `PROJECT.json` lists each as a hazard at
its line, with the properties that cover it.

What makes each part correct, in a sentence: the store moves a row only along
the lifecycle's edges and never loses a snooze, an expiry or an escalation; the
scheduler counts no more escalations of a row than its type allows and, alone,
gives no reminder twice; the pipeline stores every accepted notification once and announces it at
most once; a cache serves nothing older than its bound and ends up fresh; what a
user silenced is silent and what the user did not is shown; a stream shows what
happened and is for its client, once and in order, and misses only what was lost; the
key set follows the provider's within its refreshes; a client that pages gets to
the end and misses or repeats a row only because rows in front of it changed; a
message was allowed when it was sent and can be processed when it arrives.

## 2. The modules

    Lifecycle <- Inbox, InboxSpec
                 Inbox      implements InboxSpec     MCInbox        InboxProofs
                 Ingest     implements Mailbox       MCIngest       IngestProofs
                 Realtime   implements Feed          MCRealtime     RealtimeProofs
                 TypeCache                           (run as it is) TypeCacheProofs
                 Registry                            (run as it is) RegistryProofs
                 Preferences                         MCPreferences  PreferencesProofs
                 Jwks                                MCJwks         JwksProofs
                 Listing                             MCListing      ListingProofs

Each component is a module with its constants and their assumptions, one action
per call, statement or step, its properties at the end, and its mutants (marked
`Mutant:`) next to the definitions they vary. `MC*` modules hold values for
constants only. `*Proofs` modules hold the inductive invariants and theorems.

The modules meet at narrow joints, each an over-approximation of its neighbour:

* `Inbox!Insert` accepts any settings a type ever had (`past`). That is what
  the processor may hold given `TypeCache`, without its bound on staleness, so
  what holds of `Inbox` needs no assumption about the cache. That a cache holds
  nothing but versions the type has had is proved (`OnlyWrittenIsUsed`).
* `Inbox!Insert` and `Ingest!Load` take the preference decision as either value;
  `Preferences` says when it can be which.
* `Ingest!stored` is the state at insertion; what happens to the row afterwards
  is `Inbox`. No statement deletes a row, so the two agree on its presence: each
  side of this is proved, `StoredForGood` of the pipeline and `RowsStay` of the table.
* `Ingest!SendFails` is any refusal of SendNotification; `Registry` has its checks
  one by one. `Registry!LookUpType` finds the type if there is one, in the table or,
  as `TypeCache` has it, in the cache.
* `Realtime!Insert`, `Wake` and `Expire` let a statement change any set of rows;
  which rows it may be is `Inbox`. What a processor announces, and that it does so
  at most once, is `Ingest`; what a client gets of it is `Realtime`.
* `Listing` lets rows come and go freely: the states, inserts and registrations
  behind that are `Inbox` and `Registry`.

### Lifecycle (`lifecycle/state_machine.rs`)

The state machine as constants. `InboxSpec` takes its edges from here and names the
two the statements add (`Beyond`) and the two no statement takes (`Untaken`).

### Inbox (`db/notifications.rs`, `lifecycle/scheduler.rs`, RPCs in `grpc/`)

`rows` is the table with the columns the lifecycle reads or writes; of seen_at only
whether it is set, and without read_at, which nothing reads. Each action is the SQL statement of its
name with its WHERE condition:

* A multi-row UPDATE is one action. PostgreSQL locks row by row, but what a user
  can see of two such updates interleaved is also seen when each is split into
  calls on subsets, which the actions allow (`ids` is any set).
* `Wake`, `Expire` and `SelectDue` take `locked`, any set of rows that SKIP
  LOCKED passes over, and a batch that is one of the possible results of ORDER
  BY ... LIMIT (`Batches`), ties broken either way.
* An escalation pass is `SelectDue`, then for each row `LookupType`,
  `UpdateEscalation`, `EscalationAction`, and `AbandonPass` anywhere in between.
  `esc[i]` holds what the Rust loop holds: the snapshots left, the one in hand,
  the next time and the action computed for it.
* One clock `now` serves PostgreSQL's `now()` and the instances' `Utc::now()`.
* A bump sets only updated_at, which the model leaves out.
* `reminders` counts the times an escalation acted on a row, whether it resurfaced
  or bumped it. It is history and no action reads it.

`InboxSpec` is the abstract lifecycle: a row is delivered once as unseen or
archived, moves along a fixed set of edges, and comes back to unseen only by a
resurface. The edges are those of `Lifecycle` but for the differences named there.
`Inbox` implements it with `state[id] <- rows[id].state`.

### Ingest (`grpc/notifications.rs`, `nats/`, `processing/processor.rs`)

A message is one call of SendNotification; a producer's retry is another message
with the same key, as the server gives each call a new id. The queue is JetStream
as `nats/setup.rs` configures it and the processor uses it (work-queue retention,
explicit acknowledgement, 30 s ack_wait, 5 deliveries). It is not under `src/`:
`Deliver` and `AckWaitExpires` are external. A processor handles one message at a
time; its `hand` goes through load, insert, publish, and ack or nak. Failures are:
an answer or acknowledgement lost, an error in a statement, a copy whose ack_wait
ran out, a crash. `MaxFailures` bounds them in total.

`Mailbox` is the promise: stored at most once, one row per key, announced at most
once and only after being stored unseen.

### TypeCache (`cache/mod.rs`, `processor.rs`, `grpc/schema_registry.rs`)

One type on every instance. A version number stands for the type's contents.
`Read` and `Fill` are the two steps of a miss, `Write` and `Invalidate` those of
RegisterType and UpdateType, `Cancel` a caller that goes away in between (tonic
drops the future). Instead of a clock there are ages: entries have an age up to
TTL, loads up to `MaxLoad`, and `replaced` counts how long ago a version was
replaced, up to `Window = TTL + MaxLoad`. So the model is finite with no bound on
time. `MaxLoad` is a timing assumption and named as one: nothing in the code bounds
the time between reading the row and caching it, and without a bound nothing
bounds staleness either.

Levels are cached in the same way, but no call drops their entries: see `Registry`.

### Registry (`grpc/admin.rs`, `grpc/schema_registry.rs`, `grpc/notifications.rs`, `processor.rs`, `auth/keto.rs`)

One service, one type and one level of it, one SendNotification call at a time and
one processor with its level cache. The administrators' calls are single
statements (`RegisterService`, `EnableService`, `DisableService`, `RegisterType`,
`UpdateType`, `RegisterLevel`, `UpdateLevel`), and Keto's answer changes by
`Permit`. A call goes through `CheckPermission`, `CheckService`, `CheckType` and
`Publish`, each reading what is true at its moment; `FailCall` is every other way
it can end. The processor takes a message, looks up the type, then the level twice:
once for the severity the preferences compare, once for the id the row gets. Each of
the two lookups is a `Hit`, or a `Read` and a `Fill`, so that the entry may expire, or
the level be registered or updated, between and inside them. Time is kept in ages as
in `TypeCache`. `call.services`, `call.types`, `call.permits` (what each was since the
call began), `work.known` and `replaced` are history.

### Preferences (`grpc/user_config.rs`, `processor.rs`, `preference_resolver.rs`)

One user and one instance: instances share nothing but the tables. The four tables
are one record `prefs`. `ReadGlobal`, `ReadServices`, `ReadTypes` and `ReadRules` are
the four statements of a load; the user may change anything between them. `Fill`
caches the copy, which lives for TTL. Reading the switch inserts its default row,
which is indistinguishable from no row. A mute rule holds the time left until
muted_until; `Tick` counts it down in the table and in the copies, since they hold
the same point in time. `list_active_mute_rules` leaves out ended rules and
`resolve` checks again, so both are modelled.

What a call sets is taken as the table gets it: a min_severity of 0 or less is none
(`user_config.rs:132`), and a muted_until that is no valid time makes a rule without
end (`user_config.rs:275-277`).

`ShouldDeliver` is `resolve` without the order of its checks: whichever comes first
only decides which reason is logged. (`docs/configuration.md:64` calls the type
preference "most specific wins"; in the code it cannot override the others.)

`steady` is history: for how long each silencer (the switch, the service's
preference, the type's, each mute rule) has been silencing a notification or not
silencing it.

### Realtime (`nats/publisher.rs`, `lifecycle/scheduler.rs`, `processor.rs`, `grpc/streaming.rs`)

One user. A task is a processor or a scheduler loop of an instance; `Statement` is
what its INSERT or UPDATE ... RETURNING brings about, and `pass` the events it has
yet to publish, one `Publish` each. A publish that fails is logged and the loop goes
on. NATS Core (external, from how the code uses it) is `Deliver`: a message reaches
whoever listens at that moment and has room in its subscription, and nobody else.

`relay[s]` is the task behind a Subscribe call: `Subscribe` makes the first
subscription, `SubscribeStates` the second one if it was asked for and spawns the
relay, `Take` is a branch of the `select!` (either, when both are ready), with the
service filter on new notifications only, and `Send` is `tx.send`, which waits while
the channel is full and fails once the client is gone. `Receive` and `Leave` are
the client. `Crash` drops what an instance's tasks had not published and ends
the calls it served. `happened`, `got` and `lost` are history: `lost` holds what
missed a call while it listened.

`Feed` is the promise: a client is shown only what happened and is for it (`Wanted`),
each event once, and the events of one task in the order of its statements. `Wanted` is
read off the request, not off the relay's filter: new notifications of the services in
service_slugs, of all if there are none, and state changes of any service if
include_state_changes is set. That is less than the documents say of the filter (see
the end of section 3).

### Jwks (`auth/jwks.rs`, `auth/interceptor.rs`, `main.rs`)

One instance. The provider offers keys and withdraws them (`Publish`, `Withdraw`). A
fetch is asked (`Refresh` by the background task, `LookUp` by a request with an unknown
key, and the start-up), `Answer`ed with what the provider offers at that moment, and
`Install`ed, replacing the whole set; between the last two another fetch may be asked,
answered and installed. A request then `LookAgain`s in whatever set is there. `Fail`
ends a fetch: the request fails with it, the background task waits for its next
tick, the start-up is tried again (in `main.rs` it ends the process, which its
supervisor starts again). `Tick` is one unit of time; fetches take at most
`MaxFetch`. `since` is history: for how long the provider has offered a key, or not.
Signature, issuer and claims are checks of one token that read nothing shared.

### Listing (`grpc/notifications.rs`, `grpc/admin.rs`, `grpc/schema_registry.rs`)

One client that pages through one of the three lists. `Begin` caps the page size,
`Read` takes a page with LIMIT and OFFSET from the rows there are at that moment (ties
in any order, anew in every statement), `Count` is the second statement of
ListServices, and `Follow` is the token. Rows come, and go in ListNotifications
only, since types and services are never deleted.

## 3. The runs

Each passing run takes about two minutes at most with two workers.

| Run | Instance | Shows |
|---|---|---|
| inbox_pair | 1 row, 2 instances, snoozes into past and future, settings edited, clock to 2, 1 failure | `TypeOK`, `ColumnsFitState`, `CountWithinSettings`, `EscalationNotCutShort`, `RemindersKeepUp`, `ImplementsInboxSpec` |
| inbox_live | 2 rows, batches of 1, 1 instance, snoozes into past and future, a pass abandoned, under fairness | `RemindersWithinCount`, `EscalationCountMonotone`, `DueSnoozeEnds`, `DueRowExpires`, `DueEscalationAdvances` |
| ingest_retry | 2 messages under one key, 2 processors, 3 deliveries, 2 failures, under fairness | `TypeOK`, `AcceptedIsKept`, `ImplementsMailbox`, `AcceptedIsStored` |
| type_cache | 2 instances, 2 calls at a time, 3 versions, TTL 2, under fairness | `TypeOK`, `StalenessBounded`, `StaleOnlyIfRaced`, `EventuallyFresh` |
| preferences | the switch, 1 service (off, or on from a severity), 1 type, 1 mute rule (timed or not), TTL 1 | `TypeOK`, `SilenceTakesEffect`, `SilenceEnds` |
| realtime | 2 notifications of 2 services, 1 instance, 2 statements, a prompt client with a filter and a slow one, channel of 1, 1 failure, under fairness | `TypeOK`, `ImplementsFeed`, `MissedOnlyIfLost`, `HeardUnlessLost`, `RelayEnds` |
| jwks | 2 keys, 2 requests and the background task, interval 2, fetches of 1, 1 failure | `TypeOK`, `LagBounded`, `OfferedKeyKept`, `OfferedKeyAccepted` |
| listing | 5 rows with a tie, page sizes 0 to 3 capped at 2, 3 changes, under fairness | `TypeOK`, `SkippedOnlyIfWent`, `RepeatedOnlyIfCame`, `TokenPromise`, `PagingEnds` |
| registry | TTL 2, 3 versions of a level, 2 messages, 2 failures | `TypeOK`, `FoundByProcessor`, `SentOnlyIfAllowed`, `SeverityBounded` |

The bounds, and why they are enough.

* Inbox: rows do not interact except in batches, so one row is enough for the
  properties of a row, and two with batches of one for the competition between
  them. Several rows in one batch, and several passes over them, are covered for
  every number by `InboxProofs`. Two instances are enough for two passes over one
  row. Clock bounds let a row wait, become due and become due again. A snooze is set one
  unit before or after the present, which with two rows is enough for one to stand in
  front of the other for ever (see section 4).
* Ingest: two messages under one key are a request and its retry, which meet only
  through the key's unique index; messages under other keys share nothing with
  them. Two failures are enough to lose an acknowledgement and then to cut off the
  copy delivered instead, and with three deliveries some delivery is always left.
* Caches and preferences: a load that straddles every kind of change needs MaxLoad 1
  and a TTL of one or two. One mute rule is made, ended by time, deleted and made
  again under the other form; that rules overlap without disturbing each
  other is covered by `PreferencesProofs` for any set of rules.
* Realtime: two statements of any two tasks, the second one while the first is
  published or relayed; with a channel of one the second event a slow client does
  not read makes its relay wait.
* Jwks: three fetches at once are one more than it takes for an older answer to
  overwrite a newer one before the request looks again.
* Listing: five rows in pages of one or two leave a row in front of, inside and
  behind every page, and three changes can move a row across two page limits.
* Registry: three versions let a level be registered and updated twice, before,
  between and after the lookups of two messages.

Symmetry is used in safety runs only: over instances in inbox_pair, over keys and
requests in jwks. `CHECK_DEADLOCK FALSE` is set where the work really ends: in the
Ingest runs when every message has come to rest, in realtime when the statements
are used up and relayed, in listing when the client has its last page.

Every property has a mutant: a plausible bug in a mapped definition under which
its run finds it violated.

### What the documents say and the code does not do

Three runs end in a counterexample to something a document, comment or test says.
Each is a finding in `PROJECT.json`.

| Run | What TLC shows |
|---|---|
| inbox_twice | Two instances select the same due row, because the locks of the SELECT end with it, and both remind the user for one count ("Safe to run on every instance"). |
| inbox_wake | A row snoozed unseen wakes to unread. `docs/lifecycle.md` (33, 57, 61-63, 101-102, 159) says that Wake returns it to unseen and triggers the bell badge again. |
| ingest_stuck | A message whose insert succeeded and whose answer was lost is refused by its own row at each further delivery, until they are used up, and stays in the stream (`docs/architecture.md:318`: "then removed"). |

The code does more that a reader of its documents may not expect. No run is spent
on these: each is a step that the passing runs explore, or something the code
never does at all.

* with two instances, the slower escalation pass sets the count back and can put an
  ended escalation back on the schedule (what `RemindersWithinCount` and
  `EscalationCountMonotone` are confined to one instance for);
* a row read between the SELECT of a pass and its action is resurfaced all the same
  (the `resurface` edge of `InboxSpec`);
* a read row may be snoozed and a snoozed one archived, which the state machine forbids
  (`InboxSpec!Beyond`; `state_machine.rs:191` asserts the former). `docs/lifecycle.md:12`
  says it is enforced "at the database level" too, and 48 that any other transition
  "returns an `InvalidTransition` error"; no statement calls `apply`;
* a lost acknowledgement ends like the lost answer of ingest_stuck;
* a row archived before it was read is read, without read_at, after unarchive;
* after UpdateType is answered an instance can cache the old type, from a load that
  was under way (the one exception `StaleOnlyIfRaced` makes);
* a valid token with a key that was just offered may be refused with "unknown signing
  key" although the request has just refreshed the set (the exception
  `OfferedKeyAccepted` makes);
* a page size of 0 gets a token with every page, and a last page that is exactly full
  a token for an empty one (`docs/api.md:221`: the token is "empty when no more
  pages"); a negative size is an error of the database;
* the service filter of Subscribe does not apply to state changes, whose events
  carry no service: a client that names one service and includes state changes is
  shown those of all others. `docs/architecture.md:225` has the call filter "by service
  slug if requested" before it relays, `docs/api.md:188` "Filter by service slugs" of
  the stream of events, and 194 "Filter to specific services";
* an escalation publishes no event, no UnseenCountUpdate is ever published
  (`docs/api.md:203`), and a StateChange has no timestamp (`docs/api.md:202`);
* the relay's `else => break` is never taken while a subscription lasts, so a relay
  whose client left stays until there is an event for it (`RelayEnds`);
* ttl_seconds of a request (`docs/api.md:73`, "Optional TTL override") is carried to
  the processor and read by nothing;
* a bump ("top of the list", `docs/lifecycle.md:244`) sets updated_at, while lists are
  ordered by created_at.

## 4. Fairness

* `Inbox`: each loop is a task on an interval that logs an error and goes on
  (`scheduler.rs` 25-71), so a pass that meets no lock keeps coming:
  `WF(Wake({}))`, `WF(Expire({}))`, `WF(SelectDue(i, {}))`, `WF(Escalate(i))`. Time
  passes. Nothing makes users call. Weak fairness suffices because each statement
  stays enabled until it runs.
* `DueRowExpires` assumes that administrators stop resurfacing expired rows: those
  keep their old expires_at and are the oldest of every batch. The assumption is in
  the property.
* `DueSnoozeEnds` assumes that users stop snoozing into the past. The `Snooze` call
  takes any time, the wake-up pass takes the rows with the oldest times, and TLC shows
  without the assumption that a row snoozed again and again keeps one behind it asleep
  for ever. Snoozes into the future may go on. This assumption too is in the property.
* `Ingest`: JetStream delivers what is ready and runs its timer; a processor works
  on what it has. `AcceptedIsStored` holds with fewer failures than deliveries.
* `TypeCache`: time passes and a processor caches what it read. Calls need not
  finish, and calls need not stop being cancelled.
* `Realtime`: a task goes through the events of its batch, a call that was begun makes
  its second subscription, a relay takes or sends what it can (`select!` polls
  its branches in random order, so neither subscription starves), and clients in
  `Prompt` keep reading. Nothing is assumed of the other clients.
* `Listing`: a client comes back with the token it was given.

Timing assumptions stand beside these and are constants: `MaxLoad` in the caches, and
`MaxFetch` in `Jwks`, as the HTTP client is built without a timeout. `MaxFetch` is at
most the background task's interval; a fetch that takes longer bounds nothing.

## 5. The proofs

All theorems are about the specifications the runs check, with constants left
arbitrary; the assumptions are the named ASSUMEs of each component, which TLC
evaluates in the runs. Every proof module has `TypeCorrect`, which the other
invariants rest on.

**InboxProofs.** `ColumnsFit` is inductive with the types: only `Snooze` enters
snoozed, and it writes a time; only `Resurfaced` and the insert enter unseen, and both
clear seen_at.
`CountIsBounded` needs more: a count is written from a snapshot and from
settings looked up earlier, so the invariant says of every snapshot still in a
pass, and of every row still on the schedule, that one more escalation stays
within some settings the type has had; `past` only grows. It bounds the column, and with two
instances the reminders given may be more. `OneInstanceReminders` and
`OneInstanceMonotone` assume exactly one instance, and are false without it (run
inbox_twice). Their invariant says that a snapshot's count is the row's
count until the pass writes it, because nothing but the pass writes counts. With
`CountIsBounded` they give `OneInstanceRemindersBounded`: with one instance the
reminders themselves stay within some settings of the type.

The next two hold for any number of instances. `EscalationIsNotCutShort`: a row off the
schedule has used up some settings of its type. A pass takes the row off by a time it
computed earlier, so the invariant (`SpentInv`) says it of the count that a pass holding
no next time is about to write, and that whatever a pass holds is in the table.
`RemindersAreGiven`: the count is ahead of the reminders only by failures and by passes
about to give one. A slower pass may set the count back, so the count itself is no
measure; `KeepUpInv` compares each count, and each a pass has yet to write, with
a sum no step makes smaller: reminders given, failures, and the passes about to
act (`Owed`). A count rises when its pass joins those, and a pass leaves
them by giving the reminder or by a failure.

`Refinement` shows `Spec => InboxSpec!Spec`: each action is a move, a delivery, a resurface or a stutter.
That the edges taken are among those of `InboxSpec` is `EdgesOfStatements`.
`RowsStay` is a consequence of `InboxSpec`, carried over.

**IngestProofs.** The invariant `Inv`: what is to be
acknowledged is stored; what is to be published is stored unseen and not yet
announced; one processor at most is about to publish a key; what is announced is
stored; one row per key. `Refinement` follows, and with it what `Mailbox` promises of
announcements (`AnnouncedAtMostOnce`, theorem `NothingTwice`) and of rows
(`StoredOnce`, theorem `StoredForGood`).
`NothingGivenUp` accounts for deliveries (`KeptInv`): as long as no row under a
message's id or key is in the table, each of its deliveries has cost a failure, but for
the one being worked on, and each error still to be answered by a nak has
been paid for already. A message that has had all its deliveries thus stands for as
many failures, and what left the queue is stored by `Inv`.

**TypeCacheProofs.** The invariant relates three ages: an entry's version was
replaced no longer ago than the entry's age plus a load; the current version is
not replaced; versions answered have been written. It gives `StalenessIsBounded`. For
`OnlyARaceIsStale`, an old entry or load on an instance that answered a newer version is
marked as raced. `OnlyWrittenIsUsed` needs only the types.

**PreferencesProofs.** The invariant says, for every silencer and notification, that
a copy and the tables agree on it, or it became what it is since the copy was begun.
To agree on a mute rule is also to agree on when it ends: without that conjunct the
invariant is not inductive, since a rule in the copy could end earlier. What has
been settled for `Window` therefore agrees: `SilenceIsHeard` and `SilenceIsOver`.

**RegistryProofs.** The invariant says that a call holds the history of what it has
passed (`CallChecked`), that a message in work has the shape of its stage
(`WorkShape`), that a level copied or cached is stale no longer than it is old, plus a
load (`CopiesFresh`), and that a level once registered or found stays so (`LevelStays`).
It gives `SendingIsAllowed`, `NothingInVain` and, as every severity
comes from a copy, `SeverityIsBounded`.

**RealtimeProofs.** The invariant puts everything a task's events can be in into one
line: what the client got, its channel, the relay's hand, the subscription, what is
yet to be published (`Line`). A task's event is in one place of the line, and its
statement numbers never fall along it. It needs that a pass holds the events of one
statement, the task's latest (`PassOfOneStatement`), and that statements are numbered
without gaps (`Numbered`). `Refinement` to `Feed` follows, as a client is shown the
head of its channel and everything it has is in front of it. `NothingElseMissed`
is an action property: it follows a step at a time where the event in each place
goes (`GoesOn`): what the relay's filter drops was not wanted (`FilterIsRequest`: filter
and second subscription together let through what the request named), and a client that has
not left keeps what is in its channel.

**JwksProofs.** The invariant says that the keys known were offered once, that an
answer, or the set, is wrong about a key only if the key changed after the fetch was
asked (`AnswersAreRecent`), and that the background task's fetch and its timer add up
to the interval (`FetchesInTime`), so that without a failure the set is replaced
by a younger answer each interval; every failure buys one interval more (`ErrorsEnd`).
`LagIsBounded`, `OfferedIsKept` and, with what a request's own answer held
(`OwnAnswerHasKey`), `OfferedIsAccepted` follow.

**ListingProofs.** A row without a tie is on a page exactly if the number of rows in
front of it lies in the page's range. While no row in front of it goes out, a row
that stayed and was not given has at least `offset` rows in front of it (`NotPassed`);
while none comes in, a row given has fewer (`NotAgain`). `SkipsAreExplained` and
`RepeatsAreExplained` follow. `TokensKeepPromise` rests on `FullPage`: a full page of
at least one row ends inside the list there was when it was read, and the lists of types
and services only grow. The cardinalities are those of `FiniteSetTheorems`.

Only model-checked: the three refutations, and the eight liveness properties, which are
out of the prover's reach. For most of these the part that a step can break is
proved by itself, so that only fairness is left to TLC's instance:

| Liveness (TLC) | What never goes wrong on the way (proved) |
|---|---|
| `AcceptedIsStored` | `AcceptedIsKept`: what is not stored yet will be delivered again |
| `HeardUnlessLost` | `MissedOnlyIfLost`: what is on its way stays on its way |
| `PagingEnds` | `TokenPromise`: no token stands further than there can be rows |
| `DueEscalationAdvances` | `CountWithinSettings`, `EscalationNotCutShort`, `RemindersKeepUp` |
| `DueSnoozeEnds` | `ColumnsFitState`: no row is snoozed without an end |
| `EventuallyFresh` | `StalenessBounded`, `StaleOnlyIfRaced` |

`DueRowExpires` and `RelayEnds` have no such part.

## 6. What is not modelled

Whole parts: payload validation, proto conversion and the checks of one token
(signature, issuer, claims) are pure functions of their input. Migrations run once
by a separate program; the constraints they create are in the models that rely on
them. Of configuration and start-up only the first fetch of the keys is modelled
(`Jwks`): nothing is served before it.

Parts of parts: the counts and ListLevels are one read with no state between calls.
UpdateService changes a name and a description, which nothing here reads. The global
policy is stored and shown and read by nothing that processes a notification. The
administrators' calls ask Keto too, which only decides whether they run at all;
`Registry` lets them run at any time. Preferences that are stored and read by nothing
(digests, quiet hours) are left out of `Preferences`.

Left out of the models that exist: clock skew between an instance and PostgreSQL;
eviction from a full cache (10 000 entries), which is a restart of one entry; rows
deleted from the database by hand; messages that cannot be parsed, which only this
server could have written.

## 7. The plan

Done: every component above with its run, its proofs and, where it has an abstract
counterpart (`InboxSpec`, `Mailbox`, `Feed`), its refinement.

Left:

1. `Delivery`, composing `Ingest`, `TypeCache`, `Preferences` and the insert of `Inbox`
   in one state, and its refinement of each. The joints of section 2 say why each part
   already allows whatever its neighbours do; the composition would say it in TLA+.
2. A task of `Realtime` driven by the statements of `Inbox` itself instead of any
   batch, for properties of a row's events and its state together.
3. Larger instances of realtime and inbox_pair, for which the proofs stand in now.
