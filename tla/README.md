# A TLA+ verification of the hotel voice agent

This directory models the parts of the hotel voice agent where concurrency,
failure and ordering decide whether the program is right: TLA+ modules written
from the source, instances that TLC checks, and theorems that TLAPS proves for
every value of the constants. `PROJECT.json` maps each definition to the lines
it stands for (relative to the repository, `src/...`) and lists the runs, the
hazards, the findings and the theorems. Paths below are relative to
`src/hotel_agent/` unless they start with another name.

    tlasany VoiceSessions.tla                               parse a module
    tlc -workers 2 -config vs_serial.cfg MCVoiceSessions    run an instance
    tlapm VoiceSessionsProofs.tla                           check the proofs

## 1. Inventory

The program is a Django REST application behind gunicorn sync workers, with an
ASGI consumer for voice over WebSocket, Celery workers and a beat for
background tasks, a consumer process for Kafka, PostgreSQL with a streaming
replica, and Redis for the cache and the rate limits.

| Component | State it keeps | Operations | Speaks to |
|---|---|---|---|
| Voice sessions (`api/views/main.py` 104-273, `core/admin.py` 95-104) | `VoiceSession` rows: status, `ended_at`, transcript, token count; the join table to service requests | create, turn, end, PUT/PATCH, DELETE; an admin adds, edits and deletes rows; list, retrieve, transcript only read | voice agent (call), signals (synchronous callback), Kafka producer, gauge |
| Clean-up task (`core/tasks.py` 65-74) | none | one UPDATE over sessions older than two hours | the same rows, from a Celery worker |
| Router (`core/routers.py`) | none | where a read and a write of a model go | primary and replica |
| Signals (`core/signals.py`) | none of their own | announce a new request, invalidate the room cache, set a room's status | Kafka producer, cache |
| Kafka producer (`kafka/producer_consumer.py` 104-162) | librdkafka's queue in the process | publish, flush | broker; views, signals and consumer call it |
| Kafka consumer (`kafka/producer_consumer.py` 165-284, its command) | `_running`, fetch position, the message in hand | start, stop, process a message with retries, dead letters, commit | group coordinator, handlers |
| Handlers (`kafka/handlers.py`) | the registry of event types | notify staff, email, analytics | Celery, channel layer |
| Rate limits (`core/middleware.py` 62-128) | counter and block key in Redis | count, block | every worker |
| Login and registration (`api/views/main.py` 52-99, `core/models.py` 84-99) | user rows, `locked_until`, audit rows | log in, register; an admin locks, moves to another address, adds and deletes | SimpleJWT, rate limits in front |
| Service requests (`api/views/main.py` 303-357) | status, `assigned_to`, `completed_at`, notes | assign, complete, PUT/PATCH, DELETE; the admin page | producer, and through Kafka the guest's sockets |
| Bookings and rooms (`api/views/main.py` 362-391, `api/serializers.py` 78-105, `core/signals.py` 41-75, `core/tasks.py` 77-83, `core/admin.py`) | booking status, room status, cached room list | book, PUT/PATCH, DELETE; check in and out in the admin; edit rooms; refresh the cache | router, signals, cache |
| Voice WebSocket (`api/consumers.py`) | group membership, conversation history, gauge | connect, receive, disconnect, push a notification | channel layer, voice agent |
| Background tasks (`core/tasks.py`) | retries | notify staff, analytics, email | nothing starts them (finding 4) |
| Voice agent (`services/voice_agent.py`) | none between calls | a turn; parses the request tag in the reply; speech | the language model; views and sockets call it |

What is hard about it:

* **Interleaving and stale state.** A view reads a row, works for seconds (the
  agent call) and saves. Only the service request of a turn is inside a
  transaction. Two gunicorn workers, or a worker and the clean-up, meet on a
  row. Reads go to a replica that may lag.
* **Partial failure.** Events are published before, inside and after the
  database statements they are about. A worker may die between any two steps,
  and `publish` may refuse, or raise `BufferError`; what it accepts may still fail to be
  delivered, which is only logged.
* **Delivery.** The consumer commits by hand, asynchronously, while the group
  may give its partition away. Dead letters go through a producer nobody
  flushes.
* **Timeouts and retries.** Handler attempts, Celery retries, block keys that
  expire, a clean-up after two hours.

What would make each part right:

* *Sessions*: a session opens once, closes for good and gets a correct final
  record; no turn answered with 200 is lost; a request is announced before it
  exists and is linked to its session. (That an abandoned session is closed in the end
  cannot be claimed, see section 4.)
* *Consumer*: at-least-once, in order; one process at a time; a SIGTERM ends it;
  what is given up on is kept as a dead letter; an event reaches the handler
  written for it.
* *Rate limits*: nobody is blocked without cause; the limit and a block are
  overrun by a bounded number of requests, although the three cache calls of
  concurrent requests interleave.
* *Accounts*: a login under way does not undo what an admin locks; a
  registration that was answered owns its address and is audited, until an admin
  changes that.
* *Service requests*: assigning and completing do not undo each other; no completion
  is forgotten on its way to the guest, who is told only the truth.
* *Rooms*: an occupied room is not offered; only an admin releases a room; the
  cached list ends up right or gone.
* *WebSocket*: frames come in order; the model is shown a conversation; a
  notification reaches a connected guest unless his channel was full or let it
  expire; how far the gauge is off is known.

Every line where these go wrong is a hazard in `PROJECT.json`, also those no
property covers yet.

## 2. Modules

    SessionLifecycle  <-- refines -- VoiceSessions      AtLeastOnce  <-- refines -- KafkaConsumer
    GuestNotices      <-- refines -- ServiceDesk

Each of `VoiceSessions`, `KafkaConsumer`, `LoginGuards`, `HotelRooms`, `ServiceDesk` and
`VoiceSocket` is extended by a module `MC...`, which TLC runs, and a module
`...Proofs`. `VoiceSessionsRefinement` and `VoiceSessionsSerialProofs` extend
`VoiceSessionsProofs`.

The parts meet in their environments: `ServiceDesk` uses the consumer group as
`KafkaConsumer` shows it to be (at least once), `VoiceSocket` takes what
`ServiceDesk` pushes to a guest, the gauge of `VoiceSessions` and of
`VoiceSocket` is the same metric in two servers, and the router is modelled
alike in the three modules whose rows are read from the replica.

### VoiceSessions

The REST resource, composed with the rows it reads and writes, the router, the
replica, the signal its turns trigger, the producer as its callers see it, and
the clean-up task. A gunicorn sync worker serves one request at a time;
outside `transaction.atomic` Django autocommits, so every handler is cut at its
database statements:

| Code | Actions |
|---|---|
| `create` (124-158) | `CreateRow`, `CreateAnnounce` |
| `process_turn` (160-252) | `TurnRead`, then `AgentFails` or `AgentReplies`, then `FileRequest` or `FileAborts`, `CommitRequest` |
| `end_session` (254-273) | `EndRead`, `EndSave`, `EndAnnounce` |
| PUT and PATCH of `ModelViewSet` | `UpdateRead`, `UpdateSave` |
| DELETE | `DestroyRead`, `DestroyDelete` |
| add, change and delete page of `VoiceSessionAdmin` | `AdminAdds`; `EditRead`, `EditSave`; `DestroyRead`, `DestroyDelete` |
| `cleanup_expired_sessions` | `Cleanup` |
| outside the code | `Age` (two hours pass), `Replay` (replication), `Crash` (gunicorn kills a worker) |

* `db`, `wal`, `replica`: the row on the primary, the versions the replica has
  not replayed, the row there. `Read` is `db_for_read`, `Write` is `db_for_write`.
  `SaveFields` is `save(update_fields=...)`, an UPDATE of some columns of the row
  as it is now; PUT and PATCH save every column of the snapshot, as an INSERT if
  the row is gone.
* `req[w]`: what worker `w` is doing: the next step, the session, the snapshot
  it read (its model instance), the number of the turn.
* `requests`, `links`: the `ServiceRequest` rows and the join table. Both
  change only when the transaction commits; the events published inside it are
  out at once, and stay if it rolls back.
* `published`: events accepted by a producer's queue. `Enqueued` leaves the
  event out if `produce` raises `KafkaException`, which `publish` turns into a
  `False` no caller reads; `QueueFull` is the `BufferError` it does not catch.
  The signal's own producer goes out of scope unflushed, so its event may be lost.
* `gauge`: `ACTIVE_VOICE_SESSIONS`, one value per worker process.
* An admin edits the status and the booking of a row whose transcript, counter and
  `ended_at` are read-only, and chooses its requests; the page saves every column
  (`EditSave`). `edited` marks, as history, a row whose status was changed that way:
  it may be completed without `ended_at`, or active with it.
* `Routes` says which of this is in use. `Cleanup` may run at any time, and need not ever.
* `served` numbers the requests and so the turns; `acked` remembers the turns
  that were answered with 200.

A transcript is a sequence of turn numbers and a turn costs one token: the
properties tell turns apart and count them, and nothing else of the text
matters. `AgentReplies` also covers the branch in which the agent detected a
request (only for a session with a booking, 221).

### SessionLifecycle

What the rest of the hotel may rely on: `Open`, `Close`, `Announce`, `Create`
over a phase per session and two sets of requests. No workers, rows, replicas
or crashes. `Lifecycle` in `VoiceSessions` maps `active` to open, every other
status of a row that was inserted (a deleted row included) to closed, and the
created events to announcements.

### KafkaConsumer

Several processes of one consumer group on one partition.

| Code | Actions |
|---|---|
| `start` (202-221) | `Subscribe`, `Poll`, `LoopExit` |
| `stop`, the command's `handle_shutdown` (223) | `Stop` |
| `_process_message` (226-262) | `Poll` (parse, look the handlers up), `HandlerReturns`, `HandlerRetries`, `HandlerGivesUp`, `CommitCall` |
| `_send_to_dlq` (264-276) | in `HandlerGivesUp`: queued, refused, or `BufferError` |
| `_delivery_callback` with an error (151-155) | `DeliveryFails` |
| outside the code | `Assign`, `BrokerCommits`, `BrokerStores`, `Crash`, `Restart` |

The group gives the partition away inside librdkafka, whose callbacks the code
does not use; so a process in `_process_message` goes on with its message and
commits it. `Assign` may or may not refuse commits in flight, both of which a
broker does. A commit in flight, dead letters in the producer's queue and the
place in the group go with the process (`Leave`). A message that is not JSON
is committed unhandled; one that is JSON but not an object raises out of
`start` and ends the process.

`settled` and `lost` are history variables: handlers of a message that have
returned or been given up on, and dead letters the producer
refused, could not deliver, or took with it when the process went.

### AtLeastOnce

The guarantee the class documents (169): messages are settled in log order,
and an offset is committed only past settled messages. Settling twice is
allowed, skipping is not, and the committed offset may go back.

### LoginGuards

One client address at the token and the registration route, behind
`RateLimitMiddleware`, and next to them the user pages of the admin, which is
where a lock comes from.

| Code | Actions |
|---|---|
| `process_request` (`core/middleware.py` 75-112), cut at its cache calls | `Admit`, `TurnAway`; `ReadCount`; `SetBlock`, `StartWindow`, `Increment`, `IncrementFails` |
| `CustomTokenObtainPairView.post` (52-83) | `LoginCheck`, `LoginFails`, `LoginSucceeds`, `RereadUser`, `SaveIp` |
| `RegisterView` with `UserSerializer` | `RegisterCheck`, `RegisterInsert`, `RegisterAudit` |
| `UserAdmin` add, change and delete page | `AdminAdd`; `AdminRead`, then `AdminSave`, `AdminRefused` or `AdminDelete` |
| outside the code | `Tick`, `Crash` |

* `counter`, `block`: the two keys of a path with their expiry; an expired key
  is gone (`Get`, `Blocked`). `incr` on a key that expired since it was read
  raises, which is a 500.
* The voice rule is the same algorithm on keys of its own, in front of
  the views of `VoiceSessions`.
* Users are not in the router's `READ_MODELS`, so there is no replica here.
* SimpleJWT's `post` answers 200 or raises. The branch that records a failed
  login is therefore never reached, `failed_login_attempts` stays 0 and
  `reset_failed_login` saves nothing: the model has neither.
* An account is its primary key, so that it can move to another address: `SaveIp`
  updates the row wherever it is now, and the change page inserts a row again that was
  deleted meanwhile. An address in use is refused.
* `passes`, `late`, `run`, `ordered`, `answered`, `administered` are history: who was
  let through and when, since the last block, and since the counter was set anew; what
  an admin saved, what was answered with 201, which accounts an admin moved or deleted.

### HotelRooms

| Code | Actions |
|---|---|
| `BookingViewSet.create`, `BookingSerializer` | `CreateCheck`, `Insert` |
| PUT and PATCH | `UpdateRead`, `UpdateSave`, then the signal: `UpdateRoom`, `Forget` |
| DELETE | `DestroyRead`, `Destroy` |
| `BookingAdmin` (check-in, check-out, another room) | `OpenBooking`, `SubmitBooking`, `Commit` |
| `RoomAdmin` list page | `OpenRooms`, `SubmitRooms`, `Commit` |
| `sync_room_availability` | `SyncRead`, `SyncSet` |
| outside the code | `Expire` (Redis), `Replay`, `Crash` |

* A view of the API autocommits, so the signal's room update and cache delete
  are steps of their own, and a worker may die between them (`torn`). An admin
  page runs inside `transaction.atomic`: `Commit` lays the rows it wrote over
  the others (`Merged`), and a row it wrote is locked until then (`Locked`). The
  signals delete the cache key before that commit.
* Every read of a room or booking goes to the replica, the admin's included; a
  page shows what the replica held when it was opened and saves whole rows. The
  list page saves the rows that differ from what the replica says on submit
  (`Changed`), also rows nobody edited.
* `save()` of a booking whose row is gone inserts it again (`UpdateSave`).
* `released` remembers whose room an admin made available.
* `Rooms \cap Bookings = {}` because `writes` holds keys of both tables.

### ServiceDesk

| Code | Actions |
|---|---|
| `assign` (320-336) | `AssignRead`, `AssignSave` |
| `complete` (338-357) | `CompleteRead`, `CompleteSave`, `Tell` |
| PUT, PATCH and the admin page | `OverwriteRead`, `OverwriteSave` |
| DELETE | `DestroyRead`, `Destroy` |
| producer, consumer, `handle_notification` | `Deliver` or `DeliveryFails` (`Drain`), `Poll`, `Handle`, `GiveUp`, `CommitOffset` |
| outside the code | `Replay`, `Crash`, `ConsumerCrash` |

* Who finds a request (`Visible`): a guest his own, a manager all; for the
  `staff` role `get_queryset` raises `NameError`, since `models` is not imported.
* `assign` and `complete` save some columns of the row as it is now, PUT and
  PATCH all columns of the row that was read. `whole` marks the requests such a
  save or a DELETE touched; the properties on columns except them.
* A notification is in the worker's producer queue, on the broker, in the
  consumer's hand and then with the guest's group. `lost` holds those that went one of
  four ways: a crash before delivery, a refusal by `produce`, a delivery that failed and was
  only logged, three refusals by the channel layer.
* `Guest` is a constant: the guest a request is filed for. The admin page leaves that
  column editable (`core/admin.py` 66); an admin who hands a request to another guest
  is not modelled, nor who is told then.

### GuestNotices

What the desk, its producers, Kafka and the handler together promise a guest, without any
of them: a completion that is saved (`Save`) is owed until he was told (`Tell`,
perhaps more than once, since the consumer group redelivers) or it was given up
(`Lose`), and only then settled (`Settle`). `ServiceDesk` implements it with `Underway` as
what is owed: the calls about to notify, the producer queues and the broker.

### VoiceSocket

| Code | Actions |
|---|---|
| `connect` (32-62) | `Open`, `Refuse`, `Authenticate`, `Join`, `Accept`, `Announce` |
| `disconnect` (64-68) | `Discard`, `CountOut` |
| `receive` (70-147) | `Reply`, `AudioInput`, `TextInput`, `GuestContext`, `ContextFails`, `AgentFails`, `Answered`, `ToSpeech`, `Spoken`, `SendFrame` |
| `notification_message` (149-155) | `Notify` |
| outside the code | `Push`, `Expire`, `Cancelled`, `ClientSends`, `ClientLeaves` |

* A consumer gives way at every await, and Channels hands it the next message
  only when it has returned: `Notify` and the next input need `ready`, while
  the other consumers, the group and the client go on in between.
* `disconnect` runs after what the client sent has been handled, also for a
  connection that was refused; it does not run when an exception leaves the
  consumer (`Die`: an audio turn, a bad session id) or when Daphne cancels
  a consumer that is still busy after its client has gone (`Cancelled`).
* An answer of the model is whether it says anything and what its tag is
  (`Tags`); `Window` stands for the ten messages of `conversation_history[-10:]`.
* What begins no turn is one input, `other`, and its answer (the pong, or an error for
  what cannot be read) one frame, `reply`: what they say makes no difference here.
* `owed` is history: the notifications pushed to a client that had been told
  "connected" and has not gone since (`Gone`), but for those its channel had no room
  for (`Push`) or let expire while a turn went on (`Expire`).

### Definitions called faulty variants

A definition under a comment "Faulty variant" is a plausible slip in the code
line its neighbour models (a save without `update_fields`, one attempt too many,
an event swallowed on a full queue). No action uses it. Replacing the
neighbour's body by it violates the property it is listed with under `mutants`
in `PROJECT.json`, which shows that the property depends on the code.

## 3. Runs

| Run | Instance | Checks | Shows |
|---|---|---|---|
| `vs_concurrent` | 1 session, 2 workers, 4 requests, lagging replica, documented routes | `TypeOK`, `TokensMatchTranscript`, `RequestAnnounced`, `RequestLinked`, `NoResurrection`, `ImplementsLifecycle` | what survives any interleaving |
| `vs_serial` | 1 session, 1 worker, 5 requests, all routes and the admin page, reads from the primary, producer may refuse | `EndedStamp`, `AckedTurnsKept`, `CompletedOnce`, `CompletedEventAccurate` | what survives whole rows saved from snapshots older than the clean-up, and what holds only one request at a time |
| `vs_end_twice` | 2 workers | `CompletedOnce` | **violated**: finding 1 |
| `vs_lost_turn` | 2 workers | `AckedTurnsKept` | **violated**: finding 2 |
| `kafka_delivery` | 2 processes, 2 messages with 2 and 1 handlers, 2 attempts, 2 disruptions, failing producer | `TypeOK`, `ExclusiveUnlessRebalanced`, `NoRewindUnlessRebalanced`, `ImplementsAtLeastOnce` | delivery through crashes, rebalances, stops, lost commits |
| `kafka_progress` | 2 processes, 1 disruption, a notification, a malformed message, a second notification, one that is not an object, fair | `AllSettled`, `StopHonoured` | the log moves past a dead letter to the next handled message, whoever owns the partition; a SIGTERM ends the loop |
| `kafka_dead_letter` | 1 disruption | `DeadLettersKept` | **violated**: finding 3 |
| `kafka_routing` | two service-request events, the real registry | `ServiceRequestsHandled` | **violated**: finding 4 |
| `guards` | 2 workers, 4 requests, 2 addresses, limits 2 and 1, windows and block of one tick | `TypeOK`, `BlockJustified`, `OverrunBounded`, `BlockHolds`, `AdminLockKept`, `RegistrationRecorded` | how far concurrent requests overrun limit and block; logins, registrations and the admin do not undo each other |
| `rooms` | 2 rooms, 2 bookings, 2 workers, lagging replica, any 2 operations, fair expiry and replication | `TypeOK`, `StayNotOffered`, `OnlyAdminReleases`, `CacheCatchesUp` | an occupied room is not offered; the cached list ends up right or gone |
| `desk` | 1 request, a guest, staff, a manager, 2 workers, 3 calls, 1 crash, lagging replica, fair | `TypeOK`, `AssigneeKept`, `CompletionKept`, `NotifiedTruly`, `CompletionTracked`, `ImplementsGuestNotices`, `HandedOver` | assign and complete commute; no completion is forgotten or stays behind in a worker; the guest is told only the truth |
| `socket` | 2 sockets, 3 messages on one, 1 notification, window of one exchange | `TypeOK`, `FramesInOrder`, `PromptAlternates`, `NotificationsReach`, `GaugeAccounted` | what the client and the model see, which notifications arrive, what the gauge counts |

**Bounds.** `MaxRequests` bounds the requests of a behaviour. Four are enough
for one create and three overlapping others on the same session, which covers
every pair of handlers in a race with a third in between; with five on a single worker,
a create, an end, a PATCH, DELETE or admin page and two turns fit. There a whole row that is saved
is older than the clean-up only; two such saves that overlap are left to the
theorems about `EndedStamp` and `TokensMatchTranscript`, which have no bound. Sessions share no row,
so one session is enough for the invariants that speak of one row;
the theorems are for any number. `MaxDisruptions` bounds crashes, rebalances
and SIGTERMs together; with two, a rebalance follows a crash, or a second
rebalance takes the partition back. `kafka_progress` has one, which already hands the
partition over between any two steps on its four messages. Two messages with several handlers show the order within a
message and across messages. `kafka_delivery` uses a registry with two
handlers for one type, which `register_handler` allows and the shipped
registry does not do; the other Kafka runs use the shipped one
(`handlers.py` 78-83). `MaxRetries` is 3 in the code; 2 already has a first, a
further and a last attempt path, and the proofs cover every value. In `guards`
four requests reach the limit of either path, go over it, and still have one
caught between its cache calls; one tick ends a window and a block, and a request
that ticks between its count and its block leaves a block that outlives the counter, as
the real numbers (60 and 300 seconds) do. They are also an admin page that moves, deletes or adds
an account under a login or a registration, and what follows on it. In `rooms` two
operations are every pair of routes and admin pages, cut at every statement, on
top of initial states with bookings that exist and guests who are checked in.
In `desk` three calls are a race of two and a third on what they left; in
`socket` three messages exceed the window of one exchange, so that the prompt
is really cut, and the second socket shows what the group and the gauge do to a
neighbour. A bound stops new disruptions and requests, never a step in
progress, so no other behaviour is cut, except that the clock of `guards`
stops after one tick: what happens after that is left to the theorems, which cover all its properties without a bound.

Symmetry over workers or processes is used in `vs_concurrent`,
`kafka_delivery` and `guards` (there also over the addresses), which check no
liveness and name no worker, process or address.
Deadlock is not checked: a system with no request left to serve, or whose
processes have all been stopped, is done.

**Fairness.** `KafkaConsumer`: a started process runs on, a handler returns or
raises in the end, an orphaned partition is assigned to a live member, and a
dead container is restarted (`restart: unless-stopped`). Nothing is asked of the
broker, which may never store a commit or a dead letter. That a process is started
at all is an assumption: `hotel_agent.kafka`, which holds its command, is not an
installed app. A stop, a crash and a rebalance are never fair and are bounded. The
fairness of `Proceed` is weak: a process that is not interrupted for ever.
`HotelRooms`: Redis expires keys and the replica replays; nothing is asked of
workers, admins or Celery, so `CacheCatchesUp` rests on the key's timeout and holds
where no worker takes the task. `ServiceDesk`: a worker finishes its call, and
librdkafka delivers what is queued or gives it up when its timeout is over;
nothing is asked of the consumer, which is why `HandedOver` ends at Kafka.
`VoiceSessions`, `LoginGuards` and `VoiceSocket` state safety only and need none.

## 4. Findings

1. **A session can be completed twice** (`vs_end_twice`). `end_session` tests
   the status of a row read before, and saves without a condition. Two
   concurrent ends both pass; there are two `completed` events.
   `views/main.py` 259 and `tests/unit/test_voice_agent.py` 236-243 say the second
   is answered with 400.
2. **A turn answered with 200 can vanish** (`vs_lost_turn`). `process_turn`
   extends the transcript it read before the agent call; of two overlapping
   turns the first to save is overwritten. `views/main.py` 110 calls the
   transcript full. `TokensMatchTranscript` shows that the loss at least leaves
   no trace of its own: the token count loses the turn as well.
3. **A dead letter can be lost** (`kafka_dead_letter`). It is queued in a
   producer nobody flushes, and the offset is committed at once; a crash, an
   orderly stop or a failed delivery loses it. Line 170 of the consumer promises the queue.
4. **Service-request events reach no handler** (`kafka_routing`). Handlers are
   registered under `service.request.created`, events carry `service.request`.

Met while reading. In the models, as the code has it:

* a stop before `start` is forgotten, and a message that is not an object stops
  its partition for good (`KafkaConsumer`);
* `README.md` 261 of the repository says that accounts are locked after five
  failed attempts: no login records one (`LoginGuards`); `core/middleware.py`
  64 says sliding window, and it is a fixed one;
* `VoiceSessionAdmin` lets the status be edited and shows `ended_at` read-only
  (`core/admin.py` 95-100), so a page can leave a completed session without an end or an
  active one with it; `EndedStamp` excepts the rows it edited (`VoiceSessions`);
* an admin may move a registered account to another address or delete it while the
  registration is still to be audited, which is then a 500 (`LoginGuards`);
* a failed delivery is only logged (`kafka/producer_consumer.py` 151-155), so a completion
  that was announced may never be told (`ServiceDesk`);
* PATCH of a booking takes a room without looking at its availability, and a
  DELETE of a checked-in booking leaves its room occupied (`HotelRooms`);
* assigning a request after its completion sets the status back, completing it
  twice notifies twice, and the `status_changed` event always names `pending`
  as the old status (`ServiceDesk`);
* an audio turn ends the connection (`api/consumers.py` 142), and the gauge
  `ACTIVE_VOICE_SESSIONS`, documented as the active sessions
  (`monitoring/metrics.py` 46), loses one for every refused connection and
  keeps one for every consumer that died (`VoiceSocket`).

Outside the models: nobody takes the clean-up from its queue. No setting routes the task, so it
goes to Celery's default queue `celery`, the workers of `docker-compose.yml` (66)
consume `default,notifications,voice`, and beat's scheduler there (78) is from a package that is
not a dependency; `README.md` 133 starts a worker on the default queue, but no beat.
So sessions that `core/tasks.py` 67 marks as timed out stay active. POST of a service request always fails, because the
serializer leaves the guest out; the rooms list gives all active rooms, not the
available ones `README.md` 223 speaks of; the frame names of `README.md` 207 and
`api/consumers.py` 28 differ; nothing reads the caches `available_rooms` and
`session_analytics`; seeding on two days checks two guests in to
room 201; the channel group `staff_notifications` has no member; the task `kafka.tasks.health_check` beat schedules does not exist; the
throttle classes the settings name do not exist; topics ask for two replicas
on a single broker that creates none by itself; `asgi.py` 3 and 6 import from `django_asgi_app`, which is neither
a dependency nor a package here, so daphne cannot load the consumer `VoiceSocket` models; `hotel_agent.kafka`, which holds the consumer command, is not an
installed app.

## 5. Proofs

The theorems have no bound: any number of sessions, workers, requests, processes
and messages, any registry, any lag.

**VoiceSessionsProofs.** An invariant on `db` alone is not inductive, since
a handler writes back what it read from the replica seconds ago. `Good` asks
of *every copy* of a row (primary, log, replica, the snapshots of the workers)
that its counter is the length of its transcript and that `ended_at` fits its status, unless the copy comes from a row
whose status an admin edited.
One lemma per action shows that `Good` is kept; `AlwaysGood` then gives
`TypeCorrect`, `TokensAlwaysMatch`, `EndedAlwaysStamped`. `Announced` adds what a
worker about to commit has published, and gives `RequestsAlwaysAnnounced`, under
`~BrokerRefuses`. `NoRewriter` (no PUT, PATCH, DELETE or admin page under way) and `StatusStep`
(how a step moves a status) give `ClosedStaysClosed` and
`RequestsStayLinked`, under `Documented`. Both assumptions are necessary: a stale PATCH does
reopen a session, and a refused event is not announced.

**VoiceSessionsRefinement.** `Opened` (a request in progress is about a session that was
opened, and no copy of an unopened one says otherwise) with the invariants above gives
`Refinement`: under both assumptions `VoiceSessions` implements `SessionLifecycle`.
A property of the abstract specification is then one of the code:
`LifecycleOrdersRequests` is a short induction over the abstract actions, and
`RequestsFollowSessions` carries it over.

**VoiceSessionsSerialProofs.** What a client gets when its requests on a session are served
in turn: `AckedTurnsKept`, `CompletedOnce`, `CompletedEventAccurate`. There are two hypotheses, and
TLC refutes the first two properties without the first (findings 2 and 1): `[]OneAtATime`, no two
workers serve one session at the same time, and `~SeparateReplica`, a request reads what the
one before wrote. The properties themselves except what an admin reopened (`edited`). Different sessions still overlap, the clean-up comes between any two
steps, workers die, events are refused, and every route and the admin page are used. `Serial` is
the invariant: the snapshot in hand is true of the row in what the rest of the
handler relies on, but for a status the clean-up changed, and the events and answers given out
agree with the row. `OneWorkerServesInTurn` shows that a single worker meets the first
hypothesis, which is what `vs_serial` runs.

**KafkaConsumerProofs.** `Inv` has three parts. `TypeOK` includes the bound on
attempts. `Ordered`: whatever is behind a fetch position, a commit in flight or the committed
offset is settled, but for the message in hand; its handlers are settled one
after the other. The fetch position has to be part of it because a commit names the message
in hand only and claims everything behind it. `Grouped`: as long as nothing was rebalanced, only the owner
holds a message or has a commit in flight, which lies between the committed offset and its
position. `Ordered` gives `Refinement` (at least once, in order), `Grouped`
gives `Exclusive` and `NoRewind`; both also give `TypeCorrect` and `Invariance`.
`NothingSkipped` comes from `AtLeastOnce` through the refinement: no message behind the
committed offset, or behind one that a handler has settled, is left unsettled.

**LoginGuardsProofs.** Every step is one worker's move (`Moves`), and the
numbers of the requests in hand are distinct (`Numbered`). `AccountsOwned` says
that no two addresses have one owner, that a primary key that is still to be inserted is
nowhere yet, and that a registration about to be audited owns its address unless an
admin moved or deleted it: from it `AdminLockStays` and `RegistrationsRecorded`
follow though the admin's page saves rows read before. Four invariants count workers and
requests. `Measured`: the counter in force and the workers found under
the limit are together below limit plus workers; the counter alone is not inductive,
since those workers will still increment it. `RunsGood`: a worker that read no count can put the
counter back to 1 once, after which it is no longer among those that can
(`Setting`), so what went through since the key was set is at most the counter and
one full round for each worker that is not among them any more. It gives `OverrunsBounded`, a
quadratic bound in the workers. `BlockGood`: what went through since a block was set and what is
between the cache calls are together below the number of workers, which gives
`BlocksHold`. `Counts`: a counter never exceeds the requests let through since
its window began, which gives `BlocksAreJustified` when it is read.

**HotelRoomsProofs.** `Honest` says of an open transaction that the rooms it makes
available are those in `freed`, and that one that checks a guest in takes the room
too; `Plain` says that every worker at its commit is honest, and that a PATCH about to
touch a room has a reason to. They give `RoomsFreedByAdmin`. `Sheltered` adds that
the PATCH between its two writes marks the very room of its booking, and gives
`GuestsKeepTheirRooms`. `FreshStays` proves the safety half of `CacheCatchesUp`: once the replica, what it has
yet to replay and the cached list (or its absence) agree with the rooms, they go on doing so for as
long as the rooms do not change.

**ServiceDeskProofs.** `AssigneeAt` and `CompletionAt` hold request by request, because a
save touches columns of one row. For the notifications, `HandTracked` says that the
consumer holds only what is on the broker, and is about to commit only what it pushed or gave up
on; without it `CommitOffset` could drop an event. It gives `Refinement`: every step
saves, tells, loses, settles or stutters in `GuestNotices`. There `BooksBalance` is one
line per action: what was saved is exactly what is owed, told or lost. Carried
back, its two inclusions are `NotificationsTrue` (nobody is told of a completion that
was not saved, or that is not his) and `CompletionsTracked` (none is forgotten: what the
code loses, failed deliveries included, is in `lost`).

**VoiceSocketProofs.** `Staged` orders the life of a consumer (joined before
accepted before announced), so that
a client that was told so is in the group (`Settled`). `Reached` adds that what was owed to it is
in its channel or in its frames, which are only added to: it gives `NotificationsAlwaysReach`.
With `Staged` the gauge is counted in `GaugeIsAccounted`. `Talk` gives `ModelSeesDialogue`: the history is whole exchanges in
order, its turns are older than the one in hand, which is older than those in
the inbox. The window must be even, as the code's ten is.
`FramesAlwaysInOrder` needs `Shown`: turns not answered yet are newer than every answer
sent, and where a text or an audio frame must be the last one, it is.

The proofs rest on the `ASSUME`s of the modules (ranges and finiteness of the constants,
`None` and `Nobody` are no process and no user, keys of rooms and bookings
differ, the window is even), which TLC evaluates in every run.

**Only model-checked.** Liveness: `AllSettled`, `StopHonoured`,
`HandedOver`, `CacheCatchesUp`. The provers have no reasoning about `ENABLED` and fairness.
The safety half of three of them is proved: `NothingSkipped`, `CompletionsTracked`,
`FreshStays`. Every invariant, action property and refinement of a passing run has a theorem.

## 6. Not modelled

* Code nothing reaches: the handlers of `service.request.created`,
  `voice.session.completed` and `audit.log`, the tasks `notify_staff`,
  `process_session_analytics` and `send_notification_email`, and the branch of the
  token view that records a failed login (`api/views/main.py` 75-81).
* What the language model answers beyond its tag, prices and latencies;
  `transcribe_audio`, whose failure `AgentFails` of `VoiceSessions` covers.
* `consumer.commit` raising `KafkaException`, several partitions (each is
  independent; a process may own several), and compaction or retention of a topic.
* Events that have no handler (`booking.created`, those on `SERVICE_REQUESTS`)
  change nothing and are left out of `HotelRooms` and `ServiceDesk`; the keys
  `on_user_save` deletes are never set.
* The guest of a request changed on its admin page (see `ServiceDesk`), and requests of
  another session chosen on the admin page of a session.
* Adding and deleting rooms in the admin; dates and prices of bookings, which
  nothing compares.
* Lists, retrievals and exports: they only read. Migrations, seed data,
  settings, serializers without a rule, exceptions, pagination, throttling and
  deployment scripts declare or run once; what they fix gives the models their constants and fairness.
* Wording, formatting, metrics that nothing reads.

## 7. Plan

1. Done: the models, their runs, a theorem for every safety property of a passing run,
   and three refinements.
2. An abstract specification of what a room goes through (offered, taken, freed), and
   `HotelRooms` as its refinement.
3. The safety half of `StopHonoured` (what a process may still do after a SIGTERM).
