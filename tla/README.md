# A TLA+ model of instalized_backend

This directory models the core of the Rust backend in `src/`: a social network's coordination
server that keeps metadata in SQLite, fans events out over WebSockets and hands retention and push
to outside services. TLC checks each module on small instances; TLAPS proves the theorems for
every value of the constants.

    tlc -config counters.cfg MCCounterWriter      # and so on, one cfg for each run below
    tlapm Sessions_proofs.tla                     # and so on, one *_proofs module for each system below

## 1. Inventory

| Component | Source | State | Operations | What makes it correct |
|---|---|---|---|---|
| Writer actor | `db/writer.rs` | mailbox, map of counter deltas, the write connection | `call`, `add_delta`, `flush_now`, timer | counters follow rows; no delta stays for ever |
| Likes and comments | `api/posts.rs`, `api/discover.rs` | `likes`, `comments`, `posts` | like, unlike, comment, delete comment, delete post | a row changed exactly once owes exactly one delta |
| Sessions | `api/auth.rs` | `refresh_tokens` | sign-ins, refresh, logout | one usable token for each session; a session ends for a reason |
| Second factor | `api/totp.rs` | `users.totp_*`, `user_backup_codes` | enable, confirm, disable, verify | a code passes once; on means proven |
| Hub | `ws/hub.rs` | `clients`, `rooms` under two locks | register, unregister, join, leave, broadcast | rooms and connections agree |
| WebSocket sessions | `ws/session.rs` | one task for each socket | auth, `dm.*`, `live.*` frames, close | frames of a socket are handled in order |
| Live streams | `api/live.rs` | `live_streams`, `live_chunks` | create, announce, end | each chunk once and in order; the first chunk pinned |
| Pinning | `pinning/*`, `api/media.rs` | `pin_jobs` | enqueue, worker pass | every job pinned or given up; the table tells the truth |
| Push | `push/*`, `api/notifications.rs` | `notifications`, `push_tokens`, `user_notif_prefs` | notify, register, unregister, worker pass | nothing lost silently, repeats bounded, preferences respected |
| Direct messages | `api/dm.rs` | `dm_threads`, `dm_messages`, reactions | send, read, react | one thread for a pair, one reaction for a user and message |
| Social graph | `api/social.rs`, `api/users.rs` | `follows`, `blocks`, `users.is_private`, `user_privacy`, `mutes` | follow, block, privacy, mute | blocking supersedes following; the privacy told is the one enforced |
| Posts and saves | `api/posts.rs`, `api/social.rs`, `api/discover.rs` | `posts`, `post_tags`, `saved_posts` | create, delete, restore, archive, save | what is published has its pins and tags |
| Lists | `api/feed.rs`, `api/mod.rs`, `api/discover.rs`, `api/users.rs` | none; the cursor is the client's | keyset pagination | no item twice or left out |
| Stories | `api/stories.rs` | `stories` | create, feed, sweeper | shown from its job to its last second, then gone |
| Rate limiter | `api/ratelimit.rs` | buckets by address | check, eviction | no more than the limit, and no less |
| Database | `db/mod.rs`, `db/pool.rs` | `user_version`, schema | migrate, open, read pool | the version never runs ahead of the schema |
| Others | `auth/*`, `seo/*`, `config.rs`, `error.rs`, `state.rs` | key cache | | |

How they interact. Every handler runs in a tokio task of its own. All writes are closures sent to
the single **writer actor**, which runs them one after the other, so that no two interleave; but two
writes of one handler are two jobs, and everything may happen in between. The statements of a job
are committed one by one unless it opens a transaction: the read pool, and a process that dies, may
be between two of them. Reads use a pool of read-only connections and see what is committed. axum drops a handler's future
when its client hangs up, at whatever await it has reached: a job that is already in the mailbox
still runs, the code after the await does not. Two **workers** (pin, push) and the story sweeper
poll the tables on timers. The **hub** is in memory only, behind two read-write locks.

What is hard to test here, and listed line by line as `hazards` in `PROJECT.json`: the gap between
a job and what its handler does next (counter deltas, the second half of a token rotation, the pin
job of a first chunk); a row read before an await and written after it (2FA confirm, worker
passes, token deactivation); the gap between the hub's two locks; hang-ups and retries; a crash or
a graceful shutdown with work in memory; workers that must not starve a row; two statements of one
job; a list that changes between two pages; a migration cut in the middle.

## 2. Modules

| Module | Models | State and actions against the code |
|---|---|---|
| `CounterWriter` | writer actor and the handlers whose counters it batches; `ImplementsLedger` maps it to `Ledger` | `mailbox`, `deltas` are the actor's channel and map; `Begin` sends a job, `LikeJob`... run it, `PostDelta` is the handler resuming; `HangUp`, `Crash`, `Interrupt`/`Exit` are what may come in between |
| `Ledger` | nothing: what counters written behind promise | a row that comes or goes leaves one debt on its column, which is paid once, with others and never below zero, or written off once |
| `RetryQueue` | nothing: what the two background queues promise | a job is tried no more than allowed and settled once, done only if its effect was reached, spent only when no try is left |
| `Rotation` | nothing: what rotation promises | the right to a session's next token, held by one request at a time and by each request once |
| `Sessions` | issue_pair, refresh, logout; `ImplementsRotation` maps it to `Rotation` | a token is named by the request that issues it, a session by its sign-in; `RefreshJob`, `Resume`, `Issue` are the steps of one refresh |
| `TwoFactor` | enable, confirm, disable, login, verify_2fa of one user | reads (`Confirm`, `Disable`, ...) and writes (`ConfirmJob`, ...) are separate steps; a code is the secret it was derived from |
| `Hub` | the registry | one operator for each lock acquisition, no behaviour of its own |
| `Pinning` | `pin_jobs`, enqueue, the pin worker; `PinsImplementRetryQueue` maps it to `RetryQueue` | `Poll`, `PinByCid`, `WriteBack`; operators to compose |
| `SocialGraph` | follow, block, patch_me, patch_privacy | one action for each statement of a job; `running` is the statement the writer is at. `over` and `drifted` record why tables may disagree |
| `Posts` | the posts table, saves, and the eight lists of posts | `SoftDelete`, `Archive`, ... are authors' requests; a `walk` is one client's pages, each a SELECT (`ReadPage`), a grid's after its check of privacy (`CheckGrid`) |
| `Content` | create_post, create_story, the sweeper; composes `Posts`, `SocialGraph` and `Pinning` | a request is a task with a program counter; `TagStatement` goes on in the writer when its request has been dropped |
| `RateLimiter` | `check` and the buckets | ticks for seconds, fractions of a token for f64; `window` observes one client |
| `Migrations` | `migrate` | `Execute` is one statement, `MarkVersion` the pragma |
| `Server` | the life of the process; composes `Migrations` and `RateLimiter` | `Death` keeps the database and loses the buckets |
| `LiveStreams` | live streams, WebSocket sessions; composes `Hub` and `Pinning`'s queue | a request is a task with a program counter, one step for each await; a socket is busy while its frame is handled |
| `PushWorker` | notifications' push columns, token registry, push worker, FCM as environment; `ImplementsRetryQueue` maps it to `RetryQueue` | `Poll`, `Look`, `SendToToken`, `DeactivateToken`, `Mark` are a pass, one await each |
| `DirectMessages` | threads, messages, read marks, reactions; composes `Hub` | a request is a record with a program counter; `OpenThread`, `Store`, `Mark`, `Toggle` are its jobs, `Aggregate` its read, `Push`, `Acknowledge`, `Receipt`, `Show` its sends |
| `MC*` | constants for TLC | |
| `CounterWriter_proofs`, `Sessions_proofs`, `TwoFactor_proofs`, `Server_proofs`, `Content_proofs`, `LiveStreams_proofs`, `PushWorker_proofs`, `DirectMessages_proofs` | theorems about the module of that name and those it composes | |

Definitions marked "a plausible slip" are not part of any specification. Each is a variant of the
definition after it, and shows that a property listed below would notice that slip.

Data is abstracted to what the properties tell apart: ids are small numbers or model values,
texts and headlines are left out, timestamps too except for the order they induce (posts, saves and
stories have theirs, in seconds, because cursors and expiries compare them), a token's expiry is an
event that may happen at any time.

## 3. Runs

| Run | Shows | Bounds |
|---|---|---|
| `counters` | `CountExplained`: counter = rows + clamping - deltas outstanding or lost, at every moment. `ClampNeedsOvertaking`: clamping bites only when a -1 overtook a +1 or a +1 was lost. `FlushNowCovers`: flush_now leaves nothing behind that was sent before. `ImplementsLedger`: every step is a step of `Ledger` or stutters. `EveryDeltaSettles` | 3 calls of an owner and a fan on one post, 1 failing flush, 1 restart; `MaxPending` 2, so that both counters of the post force a flush |
| `counters_drift` | **violated** `QuietCountsMatch` (finding) | 3 calls, likes only |
| `sessions` | `OneBearer`, `LogoutEndsSession`, `EndsForAReason`, `ImplementsRotation`: every step of the service is a step of `Rotation` or stutters; `RotationCompletes` | 4 requests of any kind on any known token |
| `twofactor` | `BackupSingleUse`, `CodesOfCurrentSecret`, `LockoutNeedsRace` | 5 requests of any kind, 2 codes in a batch |
| `twofactor_race` | **violated** `EnabledMeansProven` (finding) | as above |
| `live` | `ChunkOnce`, `WsInOrder`, `AudienceKept`, `RoomsHoldListeners`, `FirstChunkPinnedOrCut` | one stream, its host with one socket, a viewer with two, create and two more requests, 2 chunks, 1 crash; the worker is off, as without `PINNING_API_URL` |
| `live_retry` | **violated** `AnsweredChunksArePinned` (finding) | as above, no crash |
| `pins` | `GraphConsistent`: nobody follows across a block and privacy is as told, but for three named reasons. `PagesComplete`: who pages to the end sees nothing twice and everything that was there throughout, but for the bin. `PublishedWhole`: pins, tags and stories follow what was published. `JobsConsistent`. `PinsImplementRetryQueue`: every step on the queue is a step of `RetryQueue` or stutters. `BackgroundSettles`: every pin job is settled, every story swept | 2 users, 3 cids, 2 attempts, batches of 2, pages of one post; two things published, or three requests on what exists, by one author; 1 crash. `Mixes` says which kinds of request one behaviour mixes |
| `server` | `LimitHolds`: a client gets no more through than its burst, its refill and a burst for each restart, and is refused only when it has had its rate. `StartsSound`: version and schema agree after deaths anywhere; a start is refused only after a death inside a script | the seven scripts, 2 clients, a rate of 2 in a minute of 2 ticks, one bucket before eviction, 7 ticks, 2 deaths |
| `push` | `NoSilentLoss`, `DuplicatesBounded`, `DeactivatedForAReason`, `ImplementsRetryQueue`: every step is a step of `RetryQueue` or stutters, `EveryNotificationSettles` | 2 users, a notification each, 2 devices that both may register, 3 client actions, 2 attempts, batches of 2, 1 aborted pass |
| `push_pause` | **violated** `PauseAllRespected` (finding) | as above |
| `dm` | `OneThreadPerPair`; `MembersOnly`: nothing comes from or goes to somebody outside the thread; `AnsweredIsDelivered`: stored, and pushed once to each connection the peer kept; `ReadForAReason`: asked for by the recipient, and reported to the sender unless cut; `PeerSeesReaction`: taps made one after the other end up on the peer's screen | 3 requests, 2 messages, 2 emojis, two users with a connection each, a third who tries to take part by REST. `Contacts` is who opens a thread with whom, oneself included |

`sessions`, `twofactor`, `pins` and `dm` also check one type invariant; the types of the other modules are in
their proofs. Runs set `CHECK_DEADLOCK FALSE` because their
bounded number of requests comes to an end.

Why the bounds are enough: the races are between two or three requests. An overtaken delta needs a
like and an unlike and a flush; a broken rotation needs a refresh, a hang-up and a retry; the lock
gap of the hub needs two connections of one user; a receipt lost to a hang-up needs a message, a
read and its repetition. `dm` uses symmetry between the emojis (no property tells them apart) and
a view that leaves out what closed connections were given and the arguments of refused requests,
on which no step and no other property depends. Attempts, batches and thresholds are 2 or 3 where
the code has 5, 8, 10, 50 and 500: enough for a limit to be reached and for a queue to be longer
than a batch. In `pins` requests of unrelated kinds commute, so that a behaviour mixes the kinds that
meet: readers with each kind of writer, publishers with the worker, with hang-ups and with a crash,
the graph with a crash. Pages hold one post, so that three posts are three pages with writes between
them, two of them created in the same second.

**Fairness.** `CounterWriter`: weak fairness of the actor's receive loop, of its timer, and of each
handler that has its reply. The actor's `select!` chooses among ready branches at random and the
timer has `MissedTickBehavior::Delay`, so neither starves the other; a reply wakes its handler.
`Sessions`: weak fairness of each request's own steps, for the same reasons. Hanging up, expiry and
crashes are never fair: they may happen or not. `Pinning` and `PushWorker`: weak fairness of the
worker's next step, since it is a loop on an interval and every remote call ends in an answer, an
error or the client's timeout. Crashes and aborted passes are bounded, or nothing could settle.
`Content`: weak fairness of the writer's running job, of the pin worker, of the sweeper (both are
loops on a timer that `spawn_workers` starts and nothing stops) and of time; requests are not fair.

## 4. Findings

Each `violation` run is a disagreement between the code and what the repository says of it; the
quotations and lines are in `PROJECT.json`.

* A like overtaken by its unlike leaves the counter at 1 (`counters_drift`).
* enable between the two halves of confirm turns on an unproven secret (`twofactor_race`).
* A first chunk announced again after a broken connection is never pinned (`live_retry`).
* Notification preferences are never read, because the query names a column that does not exist
  (`push_pause`).

Met while modelling, and stated as the exception of a passing property or left to the reader:

* `my_deleted` is sorted by `deleted_at` and makes its cursor from `created_at`: it skips posts
  (`PagesComplete` holds for it only where no listed post was created before the skipped one was
  deleted). Its comment speaks of a sweeper in `002_social.sql` that deletes for good; there is none.
* `block` "supersedes following", but `follow` does not look at blocks, and `block` may be cut between
  its statements (`over` in `GraphConsistent`). `blocks` and `mutes` filter no list, although
  `003_social_v2.sql` 4 and 13 say they do: `filter_ids` of `social.rs` has no caller.
* `patch_me` writes the privacy that is enforced and not the one that `patch_privacy` answers
  (`drifted`).
* Archived posts stay in the profile grid and the feeds; `003_social_v2.sql` 43 says archive "just
  hides from the profile grid".
* A story's thumb is not pinned, a post's is. A hard deletion is refused while the post is saved,
  liked or commented on. Every report but the first loses its reason (`ReportUser`).
* Highlights are "persistent groups of stories": no route puts a story into one, and the sweeper
  would cascade.
* A graceful shutdown flushes the counters before it drains the requests in flight (`main.rs` 39);
  what they add later is lost, which `CountExplained` counts.
* A death between an ALTER TABLE and the mark of its script's version makes every later start fail
  (`RefusedForAReason`).

What `dm` does not claim: taps that overlap may reach the peer in another order than they were
written, and the `mine` of a `dm.reaction` is that of the user who tapped, not of its receiver.

The passing properties `ClampNeedsOvertaking`, `LockoutNeedsRace`, `AudienceKept`,
`FirstChunkPinnedOrCut`, `GraphConsistent` and `DeactivatedForAReason` say that these, and the two races of the hub
and of token deactivation, are the only ways in which things go wrong: history variables
(`overtaken`, `confirmer`, `sweptLate`, `raced`, `over`, ...) record that the race has happened.

## 5. Proofs

`Sessions_proofs.tla` proves, for any number of requests (`SessionsAssumption`: it is a natural
number), `TypeCorrect`, `OneBearerAlways`, `RedeemedOnceAlways`, `LogoutEndsSessionAlways` and
`EndsForAReasonAlways`, each a `Spec => []...`.

`OneBearer` is not inductive: nothing in it says that a request which is about to present a token
has not been counted already. The invariant of the proof adds how `stage`, `uses`, `session` and
`tokens` belong together: a token has a row once its request has issued it, a request belongs to a
session from its sign-in or from redeeming a token of it, a revoked or valid token's request is past
issuing, and a redeeming request's presented token is revoked. `Invariance` shows that each action
preserves it, one step for each action; the other theorems follow from it.

`SessionsImplementRotation` proves `Spec => ImplementsRotation` from the same invariant: `RotationStep`
maps each action to `Open`, `PassOn`, `End` or a stutter. A request holds the right of its session
when it has a usable token or is about to issue one; a refresh takes it over in the job that revokes.

`TwoFactor_proofs.tla` proves, for any number of requests (`TwoFactorAssumption`) and any set of
backup codes, `TypeCorrect`, `BackupSingleUseAlways`, `CodesOfCurrentSecretAlways` and
`LockoutNeedsRaceAlways`. Single use is not inductive: an enable puts a new batch on file, and
nothing in the property says that it holds no code that has passed already. `GivenInv` (a secret is
handed out once, by a request that is done) and `SpentInv` (a code that has passed is of a batch
handed out, and not unused) say so; the lemma `Batches` says that batches of different secrets share
no code. For the lockout, `ConfirmInv` carries what confirm checked from its read to its write: the
request that turned the factor on is done, and keeps the secret it had seen, which was proven.

`Server_proofs.tla` proves, for any rate, minute, clients, bound on buckets and list of scripts,
`LimitAlways` and `StartsAlways`. `WindowBound` is not inductive, since it does not see the bucket: the
invariant adds that what has passed, plus what the bucket holds by now, is bounded; dropping an idle
bucket changes nothing because it has been idle for longer than it takes to fill
(`LimiterAssumption`: `Idle >= Minute`, 600 s against 60 s). `DeniedForAReason` needs the bound from
below (`Refills`): what has passed and what the bucket holds make up at least what has been refilled
since the window was opened. For the migrations: statements before `at` are done, and done statements at or
behind it belong to a script in which a process has died.

`Content_proofs.tla` proves all invariants of the `pins` run, for any users, cids, uploads, attempts,
batch, page and number of deaths. `GraphConsistentAlways`: `GraphIInv` adds what the writer can be at
(`RunningOK`), and that `users` has been written when the second half of `patch_privacy` is to
follow; one lemma for each request on the graph, and `ElsewhereKeeps` for every other action of the
server. `JobsConsistentAlways`: `PinsOK` adds that the rows of the queue are distinct, that the batch
holds each job once, and what an answer in the worker's hands says of the service. `ContentTypeCorrect`:
`RowsOK` says that ids are drawn upwards, so that a save refers to a post that was there when it was
made; a hard deletion is refused while such a save exists. `PublishedWholeAlways`: `PublishOK` says, for each
stage a request can be at, which of row, tags and pins are done (`StagesOK`), and that a request
which was dropped leaves its job to the writer.

`PagesCompleteAlways` is the one about data. A page is the rows of rank 0 to n-1 below the cursor in
the order of the list. `Ranks` shows, by the pigeonhole principle (`FS_Injection`), that ranks are a
bijection, so that `PageOf` is well defined and takes the greatest rows (`PageIs`), and `NextCursorIs` that the
next cursor is the last key of the page, or, in the bin, that row's creation. `WalkOK` then carries from page to
page that what was seen was seen once and can no longer come below the cursor (`Passed`), and that what has to be
seen is seen, owed to the bin's flaw (`Told`), or still below the cursor. `KeysStay` is what every writer
respects: a row keeps its key or gets one of the present second. `PostsAssumption` gives `Users # {}`: a walk has
somebody who walks.

`CounterWriter_proofs.tla` proves all invariants of `counters`, for any calls, users, posts, `MaxPending`,
failing flushes and restarts. `BaseIInv` says what each stage of a call means to the actor: a message is in the
mailbox once and for a call that waits for it (`Fits`), and what a flush covers is ahead of it (`Covers`).
`CountIInv` adds that each entry of the map is the sum of the deltas that are buffered (`SumsOK`) and
that each comment is the row of a call whose job has run (`RowsOK`); sums are differences of cardinalities, so that a call which moves from
one stage to the next moves one element. `ClampIInv` adds `NeverBelow`: without an overtaking or a lost
insertion, a counter plus what is buffered plus the deltas in any front part of the mailbox is not negative, so that
MAX has nothing to do wherever the next flush falls.

`CountersImplementLedger` proves `Spec => ImplementsLedger` from `BaseIInv` and `CountIInv`: `LedgerStep` maps
each action to a step of `Ledger` or a stutter. A call owes its delta from the moment its job has changed a row
(`owed`, `posted` and `buffered` are one open debt); a flush pays the debts of all buffered calls at once, since the
map holds their sums (`FlushPays`), or writes them off when its transaction fails; a hang-up or a stop writes off.
`GoneEmpty` is the invariant it adds: a row of a post that is gone is referred to by nothing, so that no
debt can arise on a column that is no longer written.

`LiveStreams_proofs.tla` proves all invariants of `live`, for any streams, hosts, callers, connections,
sequence numbers and crashes. `HistoryIInv` says who may still tell whom: a chunk is sent only by
the task that stored it (`StorersOK`), that task no longer has to send to whom it has told (`ToldOK`), and a socket
has finished each frame before its next one (`OneAtATime`). `RoomsIInv` adds that whoever counts as
audience is connected, so that a sweep between the hub's two locks is the only way out of a room unasked.
`FirstChunkPinnedOrCutAlways` follows from `StorersOK`. `LiveAssumption` gives each stream one host and keeps the name of the REST route apart from the
connections.

`PushWorker_proofs.tla` proves all invariants of `push`, for any notifications, recipients, devices, attempts,
batch and aborted passes. `IInv` adds `BatchTrue` (what was read with the batch is still what the rows hold:
the worker is their only writer), `SendsCounted` (each device was sent no more than the counted attempts, the
aborted passes, and one more if this pass is past it) and `HopeIsFounded` (an accepted send has been delivered).

Both queues implement `RetryQueue`. What makes it hold is that a row read before an await is still true after it:
`JobsConsistent` says so of the pins, `BatchTrue` of notifications, each because its worker is the only one who
writes a pending row. `PinsImplementQueue` (`Content_proofs`) rests on `PinStep`, by which a step of the whole
server is to the queue an enqueue, a call, a write-back or nothing; an enqueue submits or stutters, a call reaches, a write-back
tries. `PushImplementsRetryQueue` adds that what is in the batch or marked sent has a row (`OnlyQueued`);
`Fate` reads off a notification's columns what has become of it, and `MarkTries` takes the marks one by one.

`DirectMessages_proofs.tla` proves all invariants of `dm`, for any users, strangers, contacts, emojis,
messages, requests and connections. `BaseIInv` ties each request's thread and message to the tables;
`SendIInv` says that before its push nobody has been given a message, and that after it whoever has
stayed has it once; `MarksOK` follows a read mark to its receipt. For reactions, `TapsOK` says that
taps made one at a time carry the reaction on file and leave it on each screen; that there is a last event
on a screen rests on the well-foundedness of the naturals (`LastOf`).

Three action properties are proved that no run checks. They say what the worker's or a request's stale reads
may not undo: `SettledJobsStay` (`Content_proofs`: a pinned or failed job is not taken up again),
`SentStaysClosed` (`PushWorker_proofs`: a notification marked sent is not sent or counted again) and
`RecordsAreKept` (`DirectMessages_proofs`: threads, senders and read marks stay). Each follows from the inductive
invariant of its module, one case for each action.

The composed modules have no `Spec` of their own, so what holds of `Hub`, `Pinning`, `Posts` and
`SocialGraph` is proved of the systems that compose them.

Only model-checked: liveness (`RotationCompletes`, `EveryDeltaSettles`, `BackgroundSettles`,
`EveryNotificationSettles`). Its proof needs ENABLED of the fair actions, which is out of the proof
system's reach; so is the library's induction, whose theorems take an operator as a parameter. Where a proof
needs induction over data it takes a least member of a set (`LastOf`) or counts (`Ranks`, sums as
cardinalities). Every invariant that a passing run checks is proved, and so are all refinements.

## 6. Not modelled, and why

* Cryptography and formats: JWTs, password hashes, HOTP arithmetic, the wire format of frames,
  share pages, configuration. Sign-in is a step that succeeds or does not begin.
* Clocks of tokens and timers: they are events that may come at any time. The clocks of posts,
  stories and the limiter are modelled.
* Failing SQLite statements, except a failing flush (`FlushFails`), a refused hard deletion, a
  failing mark of the push worker (`Abort`), and the preference query that always fails.
* `live.start`, `live.joined` and error replies: they change no state that is modelled.
* The OAuth token cached by `push/fcm.rs` and Google's keys cached by `auth/google.rs`.
* Mutes, highlights, likes of comments, reports, edits of a profile: each is a write of one row
  that no other operation reads. blocked_list, follow lists, notifications, comments, search:
  single reads, or the paging that `Posts` models.
* Mentions of a post (`post_mentions`): written like its tags, read by nothing.
* The likes and comments that refuse a hard deletion are in `CounterWriter`, the saves in `Posts`.

## 7. Plan

1. Action properties of the other modules from the invariants at hand: a redeemed token stays redeemed,
   a used backup code is not on file again, an ended stream stays ended.
2. What a thread promises as an abstract specification (a message is stored once, then told to whom is there,
   then read), implemented by `DirectMessages`.
