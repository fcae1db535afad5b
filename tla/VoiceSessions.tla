----------------------------- MODULE VoiceSessions -----------------------------
(***************************************************************************)
(* The voice-session resource of the REST API: VoiceSessionViewSet         *)
(* (hotel_agent/api/views/main.py), the rows it reads and writes, the      *)
(* ServiceRequest post_save signal its turns trigger, the admin page of a  *)
(* session (core/admin.py), and the Celery task that times stale sessions  *)
(* out.                                                                    *)
(*                                                                         *)
(* A gunicorn sync worker serves one request at a time.  Outside           *)
(* transaction.atomic Django autocommits, so a handler is a sequence of    *)
(* steps cut at its database statements, and between two steps any other   *)
(* worker, the Celery task, the replica or a crash may move.  What the     *)
(* handler read before a step it keeps in req[w].row, its in-memory model  *)
(* instance.                                                               *)
(***************************************************************************)
EXTENDS Integers, Sequences, FiniteSets

CONSTANTS
    Sessions,         \* primary keys of voice sessions
    Workers,          \* gunicorn sync workers
    MaxRequests,      \* bound: HTTP requests served in a behaviour
    SeparateReplica,  \* does the "replica" alias name a server of its own?
    BrokerRefuses,    \* may Producer.produce raise KafkaException?
    Routes            \* which detail routes clients call, and is the admin used?

DocumentedRoutes == {"turn", "end"}
ApiRoutes == DocumentedRoutes \cup {"update", "destroy"}
AllRoutes == ApiRoutes \cup {"admin"}

ASSUME RoutesAssumption == Routes \subseteq AllRoutes
ASSUME BoundAssumption == MaxRequests \in Nat
ASSUME DeploymentAssumption == /\ SeparateReplica \in BOOLEAN
                               /\ BrokerRefuses \in BOOLEAN

VARIABLES
    db,         \* the row of each session on the primary
    wal,        \* row versions committed on the primary, not yet replayed
    replica,    \* the row of each session on the replica
    requests,   \* committed ServiceRequest rows, [sid, turn]
    links,      \* rows of the service_requests_created join table
    expired,    \* sessions whose started_at is more than two hours ago
    published,  \* events accepted by a Kafka producer's queue
    gauge,      \* ACTIVE_VOICE_SESSIONS in each worker process
    req,        \* what each worker is doing
    served,     \* requests begun so far; numbers the turns
    acked       \* history: turns whose client got a 200, [sid, turn]

rows == <<db, wal, replica>>
filed == <<requests, links>>
vars == <<rows, filed, expired, published, gauge, req, served, acked>>

-----------------------------------------------------------------------------
Terminal == {"completed", "failed", "timeout"}
Status == {"active"} \cup Terminal
\* "absent": not yet inserted; "deleted": the row is gone.
Missing == {"absent", "deleted"}

\* "edited" is history: the row comes from one whose status an admin changed.
Row == [status : Status \cup Missing, ended : BOOLEAN, booking : BOOLEAN,
        transcript : Seq(Nat), tokens : Nat, edited : BOOLEAN]

NoRow == [status |-> "absent", ended |-> FALSE, booking |-> FALSE,
          transcript |-> <<>>, tokens |-> 0, edited |-> FALSE]

ServiceRequest == [sid : Sessions, turn : Nat]
Kinds == {"started", "completed", "created", "created_by_signal"}
Event == [kind : Kinds, sid : Sessions, turn : Nat, tokens : Nat]

Phases == {"announce_start", "agent", "file", "commit",
           "end", "announce_end", "update", "destroy", "edit"}
Idle == [pc |-> "idle"]
Busy == [pc : Phases, sid : Sessions, row : Row, turn : Nat]

Exists(row) == row.status \notin Missing

\* PrimaryReplicaRouter.db_for_read sends every read of a session to "replica".
Read(s) == IF SeparateReplica THEN replica[s] ELSE db[s]

\* PrimaryReplicaRouter.db_for_write: a committed write, shipped to the replica.
Write(s, row) ==
    /\ db' = [db EXCEPT ![s] = row]
    /\ wal' = IF SeparateReplica THEN [wal EXCEPT ![s] = Append(@, row)] ELSE wal
    /\ UNCHANGED replica

\* save(update_fields=...): an UPDATE; on a row that is gone it raises.
SaveFields(s, row) == IF Exists(db[s]) THEN Write(s, row) ELSE UNCHANGED rows

\* KafkaProducerService.publish.  The event reaches the producer's queue unless
\* produce raises KafkaException, which publish turns into a False nobody reads.
\* Faulty variant: BufferError swallowed, so a full queue loses the event silently.
EnqueuedOrDropped(e) == {published \cup {e}, published}

Enqueued(e) == {published \cup {e}}
               \cup (IF BrokerRefuses THEN {published} ELSE {})
Publish(e) == published' \in Enqueued(e)

\* BufferError (local queue full) is not caught by publish: the view answers 500.
QueueFull == UNCHANGED published

SignalEvent(w) == [kind |-> "created_by_signal", sid |-> req[w].sid,
                   turn |-> req[w].turn, tokens |-> 0]
CreatedEvent(w) == [SignalEvent(w) EXCEPT !.kind = "created"]

-----------------------------------------------------------------------------
(* The rows the handlers save. *)

\* Faulty variants of the four rows: save() without update_fields, a counter
\* incremented in the database, a transcript cut to the prompt's window, a
\* status no choice of the model names, a clean-up that forgets ended_at.
SavedWholeSnapshot(row, snapshot, n) ==
    [snapshot EXCEPT !.transcript = Append(@, n), !.tokens = @ + 1]
SavedIncrement(row, snapshot, n) ==
    [row EXCEPT !.transcript = Append(snapshot.transcript, n), !.tokens = @ + 1]
SavedWindow(row, snapshot, n) ==
    [row EXCEPT !.transcript = Append(SubSeq(@, 2, Len(@)), n), !.tokens = @ + 1]
SavedError(row) == [row EXCEPT !.status = "error"]
TimedOutWithoutStamp(row) == [row EXCEPT !.status = "timeout"]

\* process_turn writes back three fields of its snapshot, extended by the turn.
SavedTurn(row, snapshot, n) ==
    [row EXCEPT !.transcript = Append(snapshot.transcript, n),
                !.tokens = snapshot.tokens + 1]

SavedFailure(row) == [row EXCEPT !.status = "failed"]
SavedEnd(row) == [row EXCEPT !.status = "completed", !.ended = TRUE]
TimedOut(row) == [row EXCEPT !.status = "timeout", !.ended = TRUE]

\* What an admin makes of a row: transcript, counter and ended_at are read-only.
Edited(row, status, booking) ==
    [row EXCEPT !.status = status, !.booking = booking,
                !.edited = @ \/ status # row.status]

-----------------------------------------------------------------------------
Start(w, pc, s, row) ==
    /\ req[w] = Idle
    /\ served < MaxRequests
    /\ served' = served + 1
    /\ req' = [req EXCEPT ![w] = [pc |-> pc, sid |-> s, row |-> row,
                                  turn |-> served']]

At(w, pc) == req[w].pc = pc
GoTo(w, pc) == req' = [req EXCEPT ![w].pc = pc]
Respond(w) == req' = [req EXCEPT ![w] = Idle]
Turn(w) == [sid |-> req[w].sid, turn |-> req[w].turn]
Answer200(w) == /\ Respond(w)
                /\ acked' = acked \cup {Turn(w)}

(* create *)
CreateRow(w, s) ==
    \E booking \in BOOLEAN :
        LET row == [NoRow EXCEPT !.status = "active", !.booking = booking] IN
        /\ db[s].status = "absent"
        /\ Start(w, "announce_start", s, row)
        /\ Write(s, row)
        /\ UNCHANGED <<filed, expired, published, gauge, acked>>

CreateAnnounce(w) ==
    /\ At(w, "announce_start")
    /\ gauge' = [gauge EXCEPT ![w] = @ + 1]
    /\ \/ Publish([kind |-> "started", sid |-> req[w].sid, turn |-> 0, tokens |-> 0])
       \/ QueueFull
    /\ Respond(w)
    /\ UNCHANGED <<rows, filed, expired, served, acked>>

(* process_turn *)
\* Faulty variant: only a failed session is turned away.
AdmitsUnlessFailed(row) == row.status \in {"active", "completed", "timeout"}

Admits(row) == row.status = "active"

TurnRead(w, s) ==
    /\ "turn" \in Routes
    /\ Admits(Read(s))
    /\ Start(w, "agent", s, Read(s))
    /\ UNCHANGED <<rows, filed, expired, published, gauge, acked>>

AgentFails(w) ==
    /\ At(w, "agent")
    /\ SaveFields(req[w].sid, SavedFailure(db[req[w].sid]))
    /\ Respond(w)
    /\ UNCHANGED <<filed, expired, published, gauge, served, acked>>

AgentReplies(w) ==
    LET s == req[w].sid IN
    /\ At(w, "agent")
    /\ SaveFields(s, SavedTurn(db[s], req[w].row, req[w].turn))
    /\ IF ~Exists(db[s]) THEN Respond(w) /\ UNCHANGED acked
       ELSE \/ Answer200(w)                             \* no request detected
            \/ /\ req[w].row.booking
               /\ GoTo(w, "file")
               /\ UNCHANGED acked
    /\ UNCHANGED <<filed, expired, published, gauge, served>>

\* Faulty variant: no transaction.atomic, so the request is there at once.
FileRequestAutocommit(w) ==
    /\ At(w, "file")
    /\ published' \in Enqueued(CreatedEvent(w))
    /\ requests' = requests \cup {Turn(w)}
    /\ GoTo(w, "commit")
    /\ UNCHANGED <<rows, links, expired, gauge, served, acked>>

\* Inside transaction.atomic: insert, post_save signal, link, publish.  The
\* rows are invisible until CommitRequest; the two events are not.  The
\* signal's producer is dropped unflushed, so its event may be lost.
FileRequest(w) ==
    /\ At(w, "file")
    /\ \E signalled \in SUBSET {SignalEvent(w)} :
          published' \in {queue \cup signalled : queue \in Enqueued(CreatedEvent(w))}
    /\ GoTo(w, "commit")
    /\ UNCHANGED <<rows, filed, expired, gauge, served, acked>>

\* The database refuses the row, the cache is unreachable, or the queue is full.
FileAborts(w) ==
    /\ At(w, "file")
    /\ published' \in {published, published \cup {SignalEvent(w)}}
    /\ Respond(w)
    /\ UNCHANGED <<rows, filed, expired, gauge, served, acked>>

\* The join row's foreign key is checked here: a deleted session rolls back.
CommitRequest(w) ==
    /\ At(w, "commit")
    /\ IF Exists(db[req[w].sid])
       THEN /\ requests' = requests \cup {Turn(w)}
            /\ links' = links \cup {Turn(w)}
            /\ Answer200(w)
       ELSE Respond(w) /\ UNCHANGED <<filed, acked>>
    /\ UNCHANGED <<rows, expired, published, gauge, served>>

(* end_session *)
EndRead(w, s) ==
    /\ "end" \in Routes
    /\ Admits(Read(s))
    /\ Start(w, "end", s, Read(s))
    /\ UNCHANGED <<rows, filed, expired, published, gauge, acked>>

EndSave(w) ==
    LET s == req[w].sid IN
    /\ At(w, "end")
    /\ SaveFields(s, SavedEnd(db[s]))
    /\ IF Exists(db[s]) THEN GoTo(w, "announce_end") ELSE Respond(w)
    /\ UNCHANGED <<filed, expired, published, gauge, served, acked>>

EndAnnounce(w) ==
    /\ At(w, "announce_end")
    /\ gauge' = [gauge EXCEPT ![w] = @ - 1]
    /\ \/ Publish([kind |-> "completed", sid |-> req[w].sid,
                   turn |-> req[w].turn, tokens |-> req[w].row.tokens])
       \/ QueueFull
    /\ Respond(w)
    /\ UNCHANGED <<rows, filed, expired, served, acked>>

(* PUT and PATCH: every serializer field is read-only, and save() still     *)
(* writes the whole snapshot back, as an INSERT when the row is gone.       *)
UpdateRead(w, s) ==
    /\ "update" \in Routes
    /\ Exists(Read(s))
    /\ Start(w, "update", s, Read(s))
    /\ UNCHANGED <<rows, filed, expired, published, gauge, acked>>

UpdateSave(w) ==
    LET s == req[w].sid IN
    /\ At(w, "update")
    /\ Write(s, req[w].row)
    /\ expired' = IF Exists(db[s]) THEN expired ELSE expired \ {s}
    /\ Respond(w)
    /\ UNCHANGED <<filed, published, gauge, served, acked>>

(* DELETE, here or in the admin: the row goes and its join rows with it;    *)
(* requests stay.                                                          *)
DestroyRead(w, s) ==
    /\ Routes \cap {"destroy", "admin"} # {}
    /\ Exists(Read(s))
    /\ Start(w, "destroy", s, Read(s))
    /\ UNCHANGED <<rows, filed, expired, published, gauge, acked>>

DestroyDelete(w) ==
    LET s == req[w].sid IN
    /\ At(w, "destroy")
    /\ SaveFields(s, [NoRow EXCEPT !.status = "deleted", !.edited = db[s].edited])
    /\ links' = {l \in links : l.sid # s}
    /\ Respond(w)
    /\ UNCHANGED <<requests, expired, published, gauge, served, acked>>

(* VoiceSessionAdmin: no event, no gauge.  The page saves the whole row and  *)
(* the list of requests in one transaction.                                *)
AdminAdds(w, s) ==
    /\ "admin" \in Routes
    /\ db[s].status = "absent"
    /\ req[w] = Idle
    /\ served < MaxRequests
    /\ served' = served + 1
    /\ \E status \in Status, booking \in BOOLEAN :
          Write(s, Edited([NoRow EXCEPT !.status = "active"], status, booking))
    /\ UNCHANGED <<filed, expired, published, gauge, req, acked>>

EditRead(w, s) ==
    /\ "admin" \in Routes
    /\ Exists(Read(s))
    /\ Start(w, "edit", s, Read(s))
    /\ UNCHANGED <<rows, filed, expired, published, gauge, acked>>

EditSave(w) ==
    LET s == req[w].sid IN
    /\ At(w, "edit")
    /\ \E status \in Status, booking \in BOOLEAN :
          Write(s, Edited(req[w].row, status, booking))
    /\ \E chosen \in SUBSET {r \in requests : r.sid = s} :
          links' = {l \in links : l.sid # s} \cup chosen
    /\ expired' = IF Exists(db[s]) THEN expired ELSE expired \ {s}
    /\ Respond(w)
    /\ UNCHANGED <<requests, published, gauge, served, acked>>

-----------------------------------------------------------------------------
(* The rest of the system. *)

\* started_at__lt=cutoff and status=ACTIVE
Stale(s) == s \in expired /\ db[s].status = "active"

\* cleanup_expired_sessions: one UPDATE over every stale row, whenever a Celery
\* worker is given the task.
Cleanup ==
    /\ \E s \in Sessions : Stale(s)
    /\ db' = [s \in Sessions |-> IF Stale(s) THEN TimedOut(db[s]) ELSE db[s]]
    /\ wal' = [s \in Sessions |-> IF SeparateReplica /\ Stale(s)
                                  THEN Append(wal[s], TimedOut(db[s]))
                                  ELSE wal[s]]
    /\ UNCHANGED <<replica, filed, expired, published, gauge, req, served, acked>>

\* Two hours pass since the session started.
Age(s) ==
    /\ db[s].status = "active"
    /\ s \notin expired
    /\ expired' = expired \cup {s}
    /\ UNCHANGED <<rows, filed, published, gauge, req, served, acked>>

\* Streaming replication replays the next committed version of a row.
Replay(s) ==
    /\ wal[s] # <<>>
    /\ replica' = [replica EXCEPT ![s] = Head(wal[s])]
    /\ wal' = [wal EXCEPT ![s] = Tail(@)]
    /\ UNCHANGED <<db, filed, expired, published, gauge, req, served, acked>>

\* A worker dies (gunicorn kills it after --timeout) and is replaced: its
\* request and its process's metrics are gone, an open transaction rolls back.
Crash(w) ==
    /\ req[w] # Idle
    /\ Respond(w)
    /\ gauge' = [gauge EXCEPT ![w] = 0]
    /\ UNCHANGED <<rows, filed, expired, published, served, acked>>

-----------------------------------------------------------------------------
Init ==
    /\ db = [s \in Sessions |-> NoRow]
    /\ wal = [s \in Sessions |-> <<>>]
    /\ replica = [s \in Sessions |-> NoRow]
    /\ requests = {} /\ links = {}
    /\ expired = {}
    /\ published = {}
    /\ gauge = [w \in Workers |-> 0]
    /\ req = [w \in Workers |-> Idle]
    /\ served = 0
    /\ acked = {}

Accept(w, s) == \/ CreateRow(w, s) \/ TurnRead(w, s) \/ EndRead(w, s)
                \/ UpdateRead(w, s) \/ DestroyRead(w, s)
                \/ AdminAdds(w, s) \/ EditRead(w, s)

Proceed(w) == \/ CreateAnnounce(w)
              \/ AgentFails(w) \/ AgentReplies(w)
              \/ FileRequest(w) \/ FileAborts(w) \/ CommitRequest(w)
              \/ EndSave(w) \/ EndAnnounce(w)
              \/ UpdateSave(w) \/ DestroyDelete(w) \/ EditSave(w)

Next == \/ \E w \in Workers : \/ \E s \in Sessions : Accept(w, s)
                              \/ Proceed(w)
                              \/ Crash(w)
        \/ Cleanup
        \/ \E s \in Sessions : Age(s) \/ Replay(s)

Spec == Init /\ [][Next]_vars

-----------------------------------------------------------------------------
(* Properties *)

TypeOK ==
    /\ db \in [Sessions -> Row]
    /\ wal \in [Sessions -> Seq(Row)]
    /\ replica \in [Sessions -> Row]
    /\ requests \subseteq ServiceRequest
    /\ links \subseteq ServiceRequest
    /\ expired \subseteq Sessions
    /\ published \subseteq Event
    /\ gauge \in [Workers -> Int]
    /\ req \in [Workers -> {Idle} \cup Busy]
    /\ served \in Nat
    /\ acked \subseteq ServiceRequest

\* The token counter of a row is the total of the turns its transcript holds.
\* process_turn computes both from a snapshot that may be stale, so turns get
\* lost, but never one of the two without the other (views/main.py:211-217).
TokensMatchTranscript ==
    \A s \in Sessions : db[s].tokens = Len(db[s].transcript)

\* A completed or timed-out row carries ended_at and an active row does not,
\* whoever wrote it last: end_session, the clean-up, or a PATCH with a snapshot
\* from before either of them (views/main.py:104, 261-265, tasks.py:70-73).  Only
\* a row whose status an admin changed, whose page shows ended_at read-only, and
\* what handlers made of that row later, are excepted (admin.py:95-100).
EndedStamp ==
    \A s \in Sessions :
        \/ db[s].edited
        \/ /\ db[s].status \in {"completed", "timeout"} => db[s].ended
           /\ db[s].status = "active" => ~db[s].ended

\* A service request that exists was announced by the view's own producer
\* before its transaction committed (views/main.py:222-238), whatever crashed.
\* Holds as long as produce never raises KafkaException (~BrokerRefuses).
RequestAnnounced ==
    \A r \in requests :
        [kind |-> "created", sid |-> r.sid, turn |-> r.turn, tokens |-> 0] \in published

\* The request row and its join row are committed together, so no crash leaves
\* a voice request its session does not list (views/main.py:222-231).
\* DELETE removes join rows: documented routes only.
RequestLinked == requests \subseteq links

\* Once closed a session never accepts turns again: no stale snapshot a handler
\* holds puts "active" back.  Documented routes only.
NoResurrection ==
    [][\A s \in Sessions : db[s].status \in Terminal => db'[s].status \in Terminal]_vars

\* A turn answered with 200 is in the transcript for as long as the row exists.
\* Needs the requests on a session to be served one after the other.
AckedTurnsKept ==
    \A a \in acked : Exists(db[a.sid]) =>
        \E i \in DOMAIN db[a.sid].transcript : db[a.sid].transcript[i] = a.turn

CompletedEvents(s) == {e \in published : e.kind = "completed" /\ e.sid = s}

\* A session is completed at most once: the second end gets a 400
\* (views/main.py:258-259, test_end_already_ended_session).
\* Needs the requests on a session to be served one after the other; an admin may
\* reopen a session and have it completed again.
CompletedOnce ==
    \A s \in Sessions : db[s].edited \/ Cardinality(CompletedEvents(s)) <= 1

\* What the analytics event said of a completed session stays true of its row
\* (views/main.py:268-271), unless an admin reopens it.  Needs one request at a
\* time, too.
CompletedEventAccurate ==
    \A s \in Sessions : \A e \in CompletedEvents(s) :
        Exists(db[s]) /\ ~db[s].edited => e.tokens = db[s].tokens

\* How a row and the published events look to the rest of the hotel.
SessionPhase(row) == CASE row.status = "absent" -> "unopened"
                       [] row.status = "active" -> "open"
                       [] OTHER -> "closed"
AnnouncedRequests == {[sid |-> e.sid, turn |-> e.turn] :
                          e \in {e \in published : e.kind = "created"}}

Lifecycle == INSTANCE SessionLifecycle WITH
    Turns <- 1..MaxRequests,
    phase <- [s \in Sessions |-> SessionPhase(db[s])],
    announced <- AnnouncedRequests,
    created <- requests

\* VoiceSessions implements SessionLifecycle: sessions open once and close for
\* good, and requests appear once, after their announcement (views/main.py:
\* 124-273).  Documented routes, and a producer that does not refuse.
ImplementsLifecycle == Lifecycle!Spec
=============================================================================
