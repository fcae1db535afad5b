------------------------------ MODULE ServiceDesk ------------------------------
(***************************************************************************)
(* Service requests after a voice turn has filed them:                     *)
(* ServiceRequestViewSet (hotel_agent/api/views/main.py), the admin page of *)
(* a request, the post_save signal, and the way of the "completed"         *)
(* notification through Kafka and handle_notification (kafka/handlers.py)  *)
(* to the WebSocket group of the guest.                                    *)
(*                                                                         *)
(* The views autocommit every statement, and read a request, which is in   *)
(* READ_MODELS, from "replica".  The consumer group is taken by what       *)
(* KafkaConsumer shows of it: a message is handled at least once.  No      *)
(* handler is registered for the events assign and the signal publish on   *)
(* SERVICE_REQUESTS (run kafka_routing): they change nothing here.         *)
(***************************************************************************)
EXTENDS Integers, Sequences

CONSTANTS
    Requests,         \* primary keys of service requests
    Users,
    Role,             \* [Users -> {"guest", "staff", "manager"}]
    Guest,            \* [Requests -> the user the request is filed for]: the page
                      \* of the admin can change it, which is not modelled
    Workers,          \* gunicorn sync workers
    Nobody,           \* assigned_to = null
    SeparateReplica,  \* does the "replica" alias name a server of its own?
    MaxCalls,         \* bound: HTTP requests begun in a behaviour
    MaxCrashes        \* bound: workers and consumers killed

ASSUME UsersAssumption == /\ Role \in [Users -> {"guest", "staff", "manager"}]
                          /\ Guest \in [Requests -> Users]
                          /\ Nobody \notin Users
ASSUME DeploymentAssumption == SeparateReplica \in BOOLEAN
ASSUME BoundAssumption == MaxCalls \in Nat /\ MaxCrashes \in Nat

VARIABLES
    db,         \* the row of each request on the primary
    wal,        \* row versions committed on the primary, not yet replayed
    replica,    \* the row of each request on the replica
    call,       \* what each worker is doing
    begun,      \* calls begun so far; numbers them
    buffer,     \* events in the producer queue of each worker
    broker,     \* events on Kafka whose offset is not committed
    hand,       \* the event the consumer is processing
    pushed,     \* notifications handed to the group of their guest
    crashes,
    assigned,   \* history: the call whose assignment was saved last
    completed,  \* history: the calls whose completion was saved, in that order
    whole,      \* history: requests whose row was saved whole, or deleted
    lost        \* history: notifications that went down with a worker, were
                \* refused by the producer or never delivered by it, or that
                \* the handler gave up into the dead letters

rows == <<db, wal, replica>>
events == <<buffer, broker, hand, pushed>>
saves == <<assigned, completed, whole>>
vars == <<rows, call, begun, events, crashes, saves, lost>>

-----------------------------------------------------------------------------
Status == {"pending", "assigned", "in_progress", "completed", "cancelled"}

\* completed_at and notes are told apart by the call they come from (0: null).
Row == [exists : BOOLEAN, status : Status, assignee : Users \cup {Nobody},
        assignedBy : Nat, completedAt : Nat, notes : Nat]
Filed == [exists |-> TRUE, status |-> "pending", assignee |-> Nobody,
          assignedBy |-> 0, completedAt |-> 0, notes |-> 0]

\* NotificationEvent.guest_notification
Event == [request : Requests, call : 1..MaxCalls, to : Users]

\* PrimaryReplicaRouter
Read(q) == IF SeparateReplica THEN replica[q] ELSE db[q]
Write(q, row) ==
    /\ db' = [db EXCEPT ![q] = row]
    /\ wal' = IF SeparateReplica THEN [wal EXCEPT ![q] = Append(@, row)] ELSE wal
    /\ UNCHANGED replica

\* IsOwnerOrStaff
Permitted(u, q) == Role[u] # "guest" \/ Guest[q] = u

\* get_object: a guest finds the requests filed for him, a manager all of them; for
\* the staff role get_queryset raises NameError (models is not imported).
Visible(u, q) == /\ Read(q).exists
                 /\ Permitted(u, q)
                 /\ \/ Role[u] = "manager"
                    \/ Role[u] = "guest" /\ Guest[q] = u

-----------------------------------------------------------------------------
Idle == [pc |-> "idle"]
Handling == [pc : {"assign", "complete", "tell", "overwrite", "destroy"},
             request : Requests, user : Users, id : 1..MaxCalls, row : Row]

At(w, pc) == call[w].pc = pc
Respond(w) == call' = [call EXCEPT ![w] = Idle]

\* A view looks the object up; 403, 404 and 500 end it here.
Begin(w, pc, u, q, allowed, row) ==
    /\ call[w] = Idle
    /\ begun < MaxCalls
    /\ begun' = begun + 1
    /\ IF allowed
       THEN call' = [call EXCEPT ![w] = [pc |-> pc, request |-> q, user |-> u,
                                         id |-> begun + 1, row |-> row]]
       ELSE UNCHANGED call
    /\ UNCHANGED <<rows, events, crashes, saves, lost>>

(* assign *)
AssignRead(w, u, q) ==
    Begin(w, "assign", u, q, Visible(u, q) /\ Role[u] # "guest", Read(q))

\* Faulty variants: a status the model does not name; save() without update_fields.
AssignedMisspelt(row, c) ==
    [row EXCEPT !.assignee = c.user, !.assignedBy = c.id, !.status = "assigned_to"]
AssignedWhole(row, c) ==
    [c.row EXCEPT !.assignee = c.user, !.assignedBy = c.id, !.status = "assigned"]
CompletedWhole(row, c) ==
    [c.row EXCEPT !.completedAt = c.id, !.notes = c.id, !.status = "completed"]

\* save(update_fields=["assigned_to", "status"]), whatever the status was.
Assigned(row, c) ==
    [row EXCEPT !.assignee = c.user, !.assignedBy = c.id, !.status = "assigned"]

\* save(update_fields=["status", "completed_at", "notes"])
Completed(row, c) ==
    [row EXCEPT !.completedAt = c.id, !.notes = c.id, !.status = "completed"]

\* An UPDATE of a row that is gone raises: 500.
AssignSave(w) ==
    LET c == call[w]  q == c.request IN
    /\ At(w, "assign")
    /\ IF db[q].exists
       THEN /\ Write(q, Assigned(db[q], c))
            /\ assigned' = [assigned EXCEPT ![q] = c.id]
       ELSE UNCHANGED <<rows, assigned>>
    /\ Respond(w)
    /\ UNCHANGED <<begun, events, crashes, completed, whole, lost>>

(* complete *)

\* Faulty variant: the person who completed the request is told.
NotificationToCaller(c) == [request |-> c.request, call |-> c.id, to |-> c.user]

Notification(c) == [request |-> c.request, call |-> c.id, to |-> Guest[c.request]]

\* Faulty variant: the guest is told before the request is saved.
CompleteTold(w, u, q) ==
    /\ call[w] = Idle /\ begun < MaxCalls /\ begun' = begun + 1
    /\ IF Visible(u, q)
       THEN LET c == [pc |-> "complete", request |-> q, user |-> u,
                      id |-> begun + 1, row |-> Read(q)] IN
            /\ call' = [call EXCEPT ![w] = c]
            /\ buffer' = [buffer EXCEPT ![w] = @ \cup {Notification(c)}]
       ELSE UNCHANGED <<call, buffer>>
    /\ UNCHANGED <<rows, broker, hand, pushed, crashes, saves, lost>>

CompleteRead(w, u, q) ==
    Begin(w, "complete", u, q, Visible(u, q), Read(q))

CompleteSave(w) ==
    LET c == call[w]  q == c.request IN
    /\ At(w, "complete")
    /\ IF db[q].exists
       THEN /\ Write(q, Completed(db[q], c))
            /\ completed' = [completed EXCEPT ![q] = Append(@, c.id)]
            /\ call' = [call EXCEPT ![w].pc = "tell"]
       ELSE Respond(w) /\ UNCHANGED <<rows, completed>>
    /\ UNCHANGED <<begun, events, crashes, assigned, whole, lost>>

\* KafkaProducerService.publish: the event is queued, or produce refuses it; publish
\* swallows KafkaException, BufferError ends the view.  The row is saved either way.
Tell(w) ==
    /\ At(w, "tell")
    /\ \/ /\ buffer' = [buffer EXCEPT ![w] = @ \cup {Notification(call[w])}]
          /\ UNCHANGED lost
       \/ /\ lost' = lost \cup {Notification(call[w])}
          /\ UNCHANGED buffer
    /\ Respond(w)
    /\ UNCHANGED <<rows, begun, broker, hand, pushed, crashes, saves>>

(* update and the admin page: a column of the row that was read is edited,  *)
(* the status here, and the row is saved whole.                             *)
OverwriteRead(w, u, q) ==
    Begin(w, "overwrite", u, q, Visible(u, q), Read(q))

\* save() of an instance whose row is gone inserts it again.
OverwriteSave(w) ==
    LET c == call[w]  q == c.request IN
    /\ At(w, "overwrite")
    /\ \E s \in {c.row.status, "in_progress"} :
          Write(q, [c.row EXCEPT !.status = s])
    /\ whole' = whole \cup {q}
    /\ Respond(w)
    /\ UNCHANGED <<begun, events, crashes, assigned, completed, lost>>

(* destroy: of the instance, only the key is used. *)
DestroyRead(w, u, q) ==
    Begin(w, "destroy", u, q, Visible(u, q), Filed)

Destroy(w) ==
    LET q == call[w].request IN
    /\ At(w, "destroy")
    /\ IF db[q].exists THEN Write(q, [db[q] EXCEPT !.exists = FALSE])
                       ELSE UNCHANGED rows
    /\ whole' = whole \cup {q}
    /\ Respond(w)
    /\ UNCHANGED <<begun, events, crashes, assigned, completed, lost>>

\* The worker's producer queue dies with it.
Crash(w) ==
    /\ call[w] # Idle \/ buffer[w] # {}
    /\ crashes < MaxCrashes
    /\ crashes' = crashes + 1
    /\ lost' = lost \cup buffer[w]
                  \cup (IF At(w, "tell") THEN {Notification(call[w])} ELSE {})
    /\ buffer' = [buffer EXCEPT ![w] = {}]
    /\ Respond(w)
    /\ UNCHANGED <<rows, begun, broker, hand, pushed, saves>>

-----------------------------------------------------------------------------
(* Kafka and the consumer. *)
Deliver(w) ==
    /\ \E e \in buffer[w] :
          /\ buffer' = [buffer EXCEPT ![w] = @ \ {e}]
          /\ broker' = broker \cup {e}
    /\ UNCHANGED <<rows, call, begun, hand, pushed, crashes, saves, lost>>

\* Out of retries or of time the producer drops the event, and _delivery_callback logs
\* it.  What it reports as failed may be on Kafka all the same: that is Deliver.
DeliveryFails(w) ==
    /\ \E e \in buffer[w] :
          /\ buffer' = [buffer EXCEPT ![w] = @ \ {e}]
          /\ lost' = lost \cup {e}
    /\ UNCHANGED <<rows, call, begun, broker, hand, pushed, crashes, saves>>

Nothing == [phase |-> "none"]
Processing == [phase : {"handle", "commit"}, event : Event]

Poll ==
    /\ hand = Nothing
    /\ \E e \in broker : hand' = [phase |-> "handle", event |-> e]
    /\ UNCHANGED <<rows, call, begun, buffer, broker, pushed, crashes, saves, lost>>

\* handle_notification: group_send to the group of the guest.
Handle ==
    /\ hand.phase = "handle"
    /\ pushed' = pushed \cup {hand.event}
    /\ hand' = [hand EXCEPT !.phase = "commit"]
    /\ UNCHANGED <<rows, call, begun, buffer, broker, crashes, saves, lost>>

\* The channel layer refused it three times.
GiveUp ==
    /\ hand.phase = "handle"
    /\ lost' = lost \cup {hand.event}
    /\ hand' = [hand EXCEPT !.phase = "commit"]
    /\ UNCHANGED <<rows, call, begun, buffer, broker, pushed, crashes, saves>>

\* Faulty variant: the offset is committed as soon as the message is polled.
CommitEarly ==
    /\ hand # Nothing
    /\ broker' = broker \ {hand.event}
    /\ hand' = IF hand.phase = "commit" THEN Nothing ELSE hand
    /\ UNCHANGED <<rows, call, begun, buffer, pushed, crashes, saves, lost>>

CommitOffset ==
    /\ hand.phase = "commit"
    /\ broker' = broker \ {hand.event}
    /\ hand' = Nothing
    /\ UNCHANGED <<rows, call, begun, buffer, pushed, crashes, saves, lost>>

\* Killed before the commit, the consumer is given the message again.
ConsumerCrash ==
    /\ crashes < MaxCrashes
    /\ hand # Nothing
    /\ crashes' = crashes + 1
    /\ hand' = Nothing
    /\ UNCHANGED <<rows, call, begun, buffer, broker, pushed, saves, lost>>

Replay(q) ==
    /\ wal[q] # <<>>
    /\ replica' = [replica EXCEPT ![q] = Head(wal[q])]
    /\ wal' = [wal EXCEPT ![q] = Tail(@)]
    /\ UNCHANGED <<db, call, begun, events, crashes, saves, lost>>

-----------------------------------------------------------------------------
Init ==
    /\ db = [q \in Requests |-> Filed]
    /\ wal = [q \in Requests |-> <<>>]
    /\ replica = db
    /\ call = [w \in Workers |-> Idle]
    /\ begun = 0
    /\ buffer = [w \in Workers |-> {}]
    /\ broker = {} /\ hand = Nothing /\ pushed = {}
    /\ crashes = 0
    /\ assigned = [q \in Requests |-> 0]
    /\ completed = [q \in Requests |-> <<>>]
    /\ whole = {} /\ lost = {}

Route(w) == \E u \in Users, q \in Requests :
               \/ AssignRead(w, u, q) \/ CompleteRead(w, u, q)
               \/ OverwriteRead(w, u, q) \/ DestroyRead(w, u, q)

Continue(w) == \/ AssignSave(w) \/ CompleteSave(w) \/ Tell(w)
               \/ OverwriteSave(w) \/ Destroy(w)

Consume == Poll \/ Handle \/ GiveUp \/ CommitOffset

\* A queued event leaves the producer one way or the other.
Drain(w) == Deliver(w) \/ DeliveryFails(w)

Next == \/ \E w \in Workers : Route(w) \/ Continue(w) \/ Crash(w) \/ Drain(w)
        \/ Consume \/ ConsumerCrash
        \/ \E q \in Requests : Replay(q)

\* A worker finishes what it began, and its producer delivers an event or drops it when
\* its timeout is over.  Nobody has to call, and nothing is asked of the consumer: its
\* command is in an app that is not installed.
Fairness == \A w \in Workers : WF_vars(Continue(w)) /\ WF_vars(Drain(w))

Spec == Init /\ [][Next]_vars /\ Fairness

-----------------------------------------------------------------------------
(* Properties *)

TypeOK ==
    /\ db \in [Requests -> Row]
    /\ wal \in [Requests -> Seq(Row)]
    /\ replica \in [Requests -> Row]
    /\ call \in [Workers -> {Idle} \cup Handling]
    /\ begun \in 0..MaxCalls
    /\ buffer \in [Workers -> SUBSET Event]
    /\ broker \subseteq Event
    /\ hand \in {Nothing} \cup Processing
    /\ pushed \subseteq Event
    /\ crashes \in Nat
    /\ assigned \in [Requests -> Nat]
    /\ completed \in [Requests -> Seq(Nat)]
    /\ whole \subseteq Requests
    /\ lost \subseteq Event

\* assign and complete do not undo each other: however old the rows they read, the
\* assignee is the one saved last, and completed_at and notes are those of the
\* completion saved last (views/main.py:328-330, 342-345).  PATCH, DELETE and the
\* admin page, which save or drop the row whole, can undo both.
AssigneeKept ==
    \A q \in Requests \ whole : db[q].assignedBy = assigned[q]
LastCompletion(q) == IF completed[q] = <<>> THEN 0 ELSE completed[q][Len(completed[q])]
CompletionKept ==
    \A q \in Requests \ whole :
        db[q].completedAt = LastCompletion(q) /\ db[q].notes = LastCompletion(q)

\* What the guest of a request is owed for each of its completions.
Notice(q, n) == [request |-> q, call |-> n, to |-> Guest[q]]
Saved(q) == {completed[q][i] : i \in DOMAIN completed[q]}
Completions == UNION {{Notice(q, n) : n \in Saved(q)} : q \in Requests}

\* A notification says the truth to the right person: wherever it is on its way, the
\* request was saved as completed before, and it goes to the guest the request was
\* filed for, whoever completed it (views/main.py:341-356).
Queued == UNION {buffer[w] : w \in Workers}
NotifiedTruly == Queued \cup broker \cup pushed \cup lost \subseteq Completions

\* No completion is forgotten on the way: until the group of the guest was sent it, or
\* one of the four losses was taken (the worker died, the producer refused the event or
\* did not deliver it, the handler gave up), it is still with the worker that saved it,
\* in its producer, or on Kafka, whatever died in between (views/main.py:345-356,
\* producer_consumer.py:127-155, 238-258).
Telling == {w \in Workers : At(w, "tell")}
Underway == {Notice(call[w].request, call[w].id) : w \in Telling} \cup Queued \cup broker
CompletionTracked == Completions \subseteq Underway \cup pushed \cup lost

\* No completion stays behind in a worker or its producer: in the end each one is on
\* Kafka, was sent to the group of the guest, or was lost, and what was committed on
\* Kafka was sent or lost (views/main.py:345-356, handlers.py:44-56,
\* producer_consumer.py:151-155, 238-258).
HandedOver == <>[](Completions \subseteq broker \cup pushed \cup lost)

Notices == INSTANCE GuestNotices WITH
    Owable <- Event, saved <- Completions, owed <- Underway, told <- pushed

\* The desk, its producers, Kafka and the handler together implement GuestNotices: a
\* guest is told of nothing but what is owed to him, and nothing stops being owed
\* before he was told or it was lost (views/main.py:333-356, handlers.py:24-56,
\* producer_consumer.py:238-258).
ImplementsGuestNotices == Notices!Spec
=============================================================================
