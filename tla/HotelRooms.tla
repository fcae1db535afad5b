------------------------------ MODULE HotelRooms ------------------------------
(***************************************************************************)
(* Rooms, their bookings and the cached list of rooms: BookingViewSet with *)
(* BookingSerializer, the BookingAdmin and RoomAdmin pages, the post_save  *)
(* signals of both models and the Celery task sync_room_availability.      *)
(*                                                                         *)
(* A view of the API autocommits every statement; an admin page is saved   *)
(* inside transaction.atomic.  Rooms and bookings are in the router's      *)
(* READ_MODELS: every read of them, the admin's included, goes to          *)
(* "replica".  No handler is registered for the booking.created event the  *)
(* signal publishes (run kafka_routing): it changes nothing here.          *)
(***************************************************************************)
EXTENDS Integers, Sequences

CONSTANTS
    Rooms,
    Bookings,         \* primary keys of bookings
    Workers,          \* gunicorn sync workers
    SeparateReplica,  \* does the "replica" alias name a server of its own?
    AdminSets,        \* bound: the booking statuses an admin chooses from
    MaxRequests       \* bound: requests and admin pages begun in a behaviour

\* Rows of two tables; "writes" and "Locked" below speak of both.
ASSUME KeysAssumption == Rooms \cap Bookings = {}
ASSUME DeploymentAssumption == SeparateReplica \in BOOLEAN

VARIABLES
    db,         \* rows on the primary: [room, booking]
    wal,        \* states of the primary the replica has yet to go through
    replica,    \* rows on the replica
    cache,      \* the key "available_rooms"
    syncing,    \* the list sync_room_availability has read and not yet cached
    proc,       \* what each worker is doing
    page,       \* the admin page open in a browser, with the values it shows
    begun,      \* requests and pages so far
    released,   \* history: who was checked in when an admin last freed the room
    torn        \* history: bookings whose handler died between its two writes

rows == <<db, wal, replica>>
history == <<released, torn>>
vars == <<rows, cache, syncing, proc, page, begun, history>>

-----------------------------------------------------------------------------
RoomStatus == {"available", "occupied", "maintenance", "cleaning"}
BookingStatus == {"pending", "confirmed", "checked_in", "checked_out", "cancelled"}
ASSUME BoundAssumption == AdminSets \subseteq BookingStatus /\ MaxRequests \in Nat

Room == [status : RoomStatus, active : BOOLEAN]
Booking == [status : BookingStatus \cup {"absent", "deleted"}, room : Rooms]
Database == [room : [Rooms -> Room], booking : [Bookings -> Booking]]
RoomList == SUBSET [room : Rooms, status : RoomStatus]

Exists(d, b) == d.booking[b].status \notin {"absent", "deleted"}
CheckedIn(d, b) == d.booking[b].status = "checked_in"
GuestsOf(d, r) == {b \in Bookings : CheckedIn(d, b) /\ d.booking[b].room = r}

\* PrimaryReplicaRouter
Read == IF SeparateReplica THEN replica ELSE db
Write(d) == /\ db' = d
            /\ wal' = IF SeparateReplica THEN Append(wal, d) ELSE wal
            /\ UNCHANGED replica

\* Room.objects.filter(is_active=True).values(...)
ActiveRooms(d) == {[room |-> r, status |-> d.room[r].status] :
                      r \in {x \in Rooms : d.room[x].active}}

Miss == [hit |-> FALSE]
Cached(list) == [hit |-> TRUE, list |-> list, expires |-> TRUE]

(* on_booking_save *)

Moves(row) == row.status \in {"checked_in", "checked_out", "cancelled"}

\* Faulty variants: the room takes over the status of the booking; a room that
\* needs no cleaning; a check-in that trusts the
\* room to have been marked when the booking was made.
StatusAfterBooking(row) == row.status
StatusAfterNoCleaning(row) == IF row.status = "checked_in" THEN "occupied" ELSE "available"
SyncedOnLeaving(d, row) ==
    IF row.status \in {"checked_out", "cancelled"}
    THEN [d EXCEPT !.room[row.room].status = "cleaning"]
    ELSE d

StatusAfter(row) == IF row.status = "checked_in" THEN "occupied" ELSE "cleaning"
Synced(d, row) == IF Moves(row) THEN [d EXCEPT !.room[row.room].status = StatusAfter(row)]
                  ELSE d
Invalidated(row) == IF Moves(row) THEN Miss ELSE cache

-----------------------------------------------------------------------------
Idle == [pc |-> "idle"]
Autocommit == [pc : {"insert", "save", "room", "forget", "destroy"},
               booking : Bookings, row : Booking]
InTransaction == [pc : {"commit"}, db : Database, writes : SUBSET (Rooms \cup Bookings),
                  booking : SUBSET Bookings, freed : SUBSET Rooms]

At(w, pc) == proc[w].pc = pc
Become(w, p) == proc' = [proc EXCEPT ![w] = p]
Goto(w, pc) == proc' = [proc EXCEPT ![w].pc = pc]
Begin == begun < MaxRequests /\ begun' = begun + 1

\* A row that an open transaction has written waits for it to end.
Locked(x) == \E w \in Workers : At(w, "commit") /\ x \in proc[w].writes

(* BookingViewSet.create, BookingSerializer.create *)

\* Neither the dates nor other bookings are looked at, and the room stays as it is.
CreateCheck(w, b, r) ==
    /\ proc[w] = Idle /\ Begin
    /\ db.booking[b].status = "absent"
    /\ \A v \in Workers : At(v, "insert") => proc[v].booking # b
    /\ IF Read.room[r].status = "available" /\ Read.room[r].active
       THEN Become(w, [pc |-> "insert", booking |-> b,
                       row |-> [status |-> "pending", room |-> r]])
       ELSE UNCHANGED proc                                     \* 400
    /\ UNCHANGED <<rows, cache, syncing, page, history>>

Insert(w) ==
    /\ At(w, "insert")
    /\ Write([db EXCEPT !.booking[proc[w].booking] = proc[w].row])
    /\ Become(w, Idle)
    /\ UNCHANGED <<cache, syncing, page, begun, history>>

(* BookingViewSet.update: the row read from the replica, with another room  *)
(* or other details, is saved whole; status is read-only, so the status     *)
(* saved is the one that was read.                                          *)
UpdateRead(w, b, r) ==
    /\ proc[w] = Idle /\ Begin
    /\ IF Exists(Read, b)
       THEN Become(w, [pc |-> "save", booking |-> b,
                       row |-> [Read.booking[b] EXCEPT !.room = r]])
       ELSE UNCHANGED proc                                     \* 404
    /\ UNCHANGED <<rows, cache, syncing, page, history>>

\* save() of an instance whose row is gone inserts it again.
UpdateSave(w) ==
    LET b == proc[w].booking
        row == proc[w].row
    IN
    /\ At(w, "save")
    /\ ~Locked(b)
    /\ Write([db EXCEPT !.booking[b] = row])
    /\ released' = [r \in Rooms |-> IF row.status = "checked_in"
                                    THEN released[r] \ {b} ELSE released[r]]
    /\ IF Moves(row) THEN Goto(w, "room") ELSE Become(w, Idle)
    /\ UNCHANGED <<cache, syncing, page, begun, torn>>

UpdateRoom(w) ==
    /\ At(w, "room")
    /\ ~Locked(proc[w].row.room)
    /\ Write(Synced(db, proc[w].row))
    /\ Goto(w, "forget")
    /\ UNCHANGED <<cache, syncing, page, begun, history>>

Forget(w) ==
    /\ At(w, "forget")
    /\ cache' = Miss
    /\ Become(w, Idle)
    /\ UNCHANGED <<rows, syncing, page, begun, history>>

(* BookingViewSet.destroy: no signal looks after the room. *)
DestroyRead(w, b) ==
    /\ proc[w] = Idle /\ Begin
    /\ IF Exists(Read, b)
       THEN Become(w, [pc |-> "destroy", booking |-> b, row |-> Read.booking[b]])
       ELSE UNCHANGED proc                                     \* 404
    /\ UNCHANGED <<rows, cache, syncing, page, history>>

Destroy(w) ==
    LET b == proc[w].booking IN
    /\ At(w, "destroy")
    /\ ~Locked(b)
    /\ IF Exists(db, b) THEN Write([db EXCEPT !.booking[b].status = "deleted"])
                        ELSE UNCHANGED rows
    /\ Become(w, Idle)
    /\ UNCHANGED <<cache, syncing, page, begun, history>>

-----------------------------------------------------------------------------
(* The admin.  A page shows what the replica held when it was opened; what  *)
(* it shows, plus the edit, is what it saves.                               *)
NoPage == [of |-> "nothing"]

OpenBooking(b) ==
    /\ page = NoPage /\ Begin
    /\ Exists(Read, b)
    /\ page' = [of |-> "booking", booking |-> b, row |-> Read.booking[b]]
    /\ UNCHANGED <<rows, cache, syncing, proc, history>>

\* BookingAdmin: the signals run, and the key is deleted, before the commit.
SubmitBooking(w) ==
    LET b == page.booking IN
    /\ proc[w] = Idle
    /\ page.of = "booking"
    /\ Exists(Read, b)                                         \* 404 otherwise
    /\ \E row \in {[page.row EXCEPT !.status = s] : s \in AdminSets}
                  \cup {[page.row EXCEPT !.room = r] : r \in Rooms} :
          LET r == row.room IN
          /\ ~Locked(b) /\ ~Locked(r)
          /\ Become(w, [pc |-> "commit", booking |-> {b}, freed |-> {},
                        db |-> Synced([db EXCEPT !.booking[b] = row], row),
                        writes |-> {b} \cup (IF Moves(row) THEN {r} ELSE {})])
          /\ cache' = Invalidated(row)
    /\ page' = NoPage
    /\ UNCHANGED <<rows, syncing, begun, history>>

OpenRooms ==
    /\ page = NoPage /\ Begin
    /\ page' = [of |-> "rooms", room |-> Read.room]
    /\ UNCHANGED <<rows, cache, syncing, proc, history>>

\* The rows RoomAdmin's list_editable page saves: those whose submitted values
\* differ from what the replica says now, edited or not.
Changed(form) == {r \in Rooms : form[r] # Read.room[r]}

SubmitRooms(w) ==
    /\ proc[w] = Idle
    /\ page.of = "rooms"
    /\ \E r \in Rooms, cell \in {"available", "maintenance", "is_active"} :
          LET form == IF cell = "is_active" THEN [page.room EXCEPT ![r].active = ~@]
                      ELSE [page.room EXCEPT ![r].status = cell]
              saved == Changed(form)
          IN
          /\ \A x \in saved : ~Locked(x)
          /\ Become(w, [pc |-> "commit", booking |-> {}, writes |-> saved,
                        db |-> [db EXCEPT !.room =
                                  [x \in Rooms |-> IF x \in saved THEN form[x] ELSE @[x]]],
                        freed |-> {x \in saved : form[x].status = "available"}])
          /\ cache' = IF saved = {} THEN cache ELSE Miss
    /\ page' = NoPage
    /\ UNCHANGED <<rows, syncing, begun, history>>

\* What a transaction wrote, laid over what others committed meanwhile.
Merged(p) ==
    [room |-> [r \in Rooms |-> IF r \in p.writes THEN p.db.room[r] ELSE db.room[r]],
     booking |-> [b \in Bookings |-> IF b \in p.writes THEN p.db.booking[b]
                                     ELSE db.booking[b]]]

Commit(w) ==
    LET d == Merged(proc[w]) IN
    /\ At(w, "commit")
    /\ Write(d)
    /\ released' = [r \in Rooms |->
                      IF r \in proc[w].freed THEN GuestsOf(db, r)
                      ELSE released[r] \ {b \in proc[w].booking : CheckedIn(d, b)}]
    /\ Become(w, Idle)
    /\ UNCHANGED <<cache, syncing, page, begun, torn>>

\* A worker dies: autocommitted statements stay, an open transaction is undone.
Crash(w) ==
    /\ proc[w] # Idle
    /\ Become(w, Idle)
    /\ torn' = IF At(w, "room") THEN torn \cup {proc[w].booking} ELSE torn
    /\ UNCHANGED <<rows, cache, syncing, page, begun, released>>

-----------------------------------------------------------------------------
(* sync_room_availability, every 300 s *)
SyncRead ==
    /\ ~syncing.hit
    /\ syncing' = Cached(ActiveRooms(Read))
    /\ UNCHANGED <<rows, cache, proc, page, begun, history>>

\* Faulty variant: cache.add(..., timeout=None).
SyncAdd ==
    /\ syncing.hit
    /\ cache' = IF cache.hit THEN cache ELSE [syncing EXCEPT !.expires = FALSE]
    /\ syncing' = Miss
    /\ UNCHANGED <<rows, proc, page, begun, history>>

\* cache.set(..., timeout=300)
SyncSet ==
    /\ syncing.hit
    /\ cache' = syncing
    /\ syncing' = Miss
    /\ UNCHANGED <<rows, proc, page, begun, history>>

Expire ==
    /\ cache.hit /\ cache.expires
    /\ cache' = Miss
    /\ UNCHANGED <<rows, syncing, proc, page, begun, history>>

Replay ==
    /\ wal # <<>>
    /\ replica' = Head(wal)
    /\ wal' = Tail(wal)
    /\ UNCHANGED <<db, cache, syncing, proc, page, begun, history>>

-----------------------------------------------------------------------------
\* Some bookings are already there, of one room, at most one of them checked in.
Init ==
    /\ \E r \in Rooms, early \in SUBSET Bookings : \E guest \in SUBSET early :
          /\ \A b, c \in guest : b = c
          /\ db = [room |-> [x \in Rooms |->
                              [status |-> IF x = r /\ guest # {} THEN "occupied" ELSE "available",
                               active |-> TRUE]],
                   booking |-> [b \in Bookings |->
                                  [status |-> IF b \in guest THEN "checked_in"
                                              ELSE IF b \in early THEN "confirmed" ELSE "absent",
                                   room |-> r]]]
    /\ wal = <<>> /\ replica = db
    /\ cache = Miss /\ syncing = Miss
    /\ proc = [w \in Workers |-> Idle]
    /\ page = NoPage
    /\ begun = 0
    /\ released = [r \in Rooms |-> {}]
    /\ torn = {}

Api(w) == \/ \E b \in Bookings, r \in Rooms : CreateCheck(w, b, r) \/ UpdateRead(w, b, r)
          \/ \E b \in Bookings : DestroyRead(w, b)
          \/ Insert(w) \/ UpdateSave(w) \/ UpdateRoom(w) \/ Forget(w)
          \/ Destroy(w)

Admin == \/ \E b \in Bookings : OpenBooking(b)
         \/ OpenRooms
         \/ \E w \in Workers : SubmitBooking(w) \/ SubmitRooms(w) \/ Commit(w)

Sync == SyncRead \/ SyncSet

Next == \/ \E w \in Workers : Api(w) \/ Crash(w)
        \/ Admin \/ Sync \/ Expire \/ Replay

\* Redis expires keys and the replica catches up.  Nothing is asked of the workers,
\* of the admin, or of the task: a deployment need not run it at all.
Fairness == WF_vars(Expire) /\ WF_vars(Replay)

Spec == Init /\ [][Next]_vars /\ Fairness

-----------------------------------------------------------------------------
(* Properties *)

TypeOK ==
    /\ db \in Database /\ replica \in Database
    /\ wal \in Seq(Database)
    /\ cache \in {Miss} \cup [hit : {TRUE}, list : RoomList, expires : BOOLEAN]
    /\ syncing \in {Miss} \cup [hit : {TRUE}, list : RoomList, expires : {TRUE}]
    /\ proc \in [Workers -> {Idle} \cup Autocommit \cup InTransaction]
    /\ page \in {NoPage} \cup [of : {"booking"}, booking : Bookings, row : Booking]
                         \cup [of : {"rooms"}, room : [Rooms -> Room]]
    /\ begun \in Nat
    /\ released \in [Rooms -> SUBSET Bookings]
    /\ torn \subseteq Bookings

\* A room with a guest in it is not offered: while a booking is checked in its room
\* is AVAILABLE only if an admin saved it so after the check-in.  A PATCH, which
\* autocommits, has a gap between the booking and the room, and leaves it open
\* when the worker dies there (signals.py:48-74).
Between(b) == \E w \in Workers : At(w, "room") /\ proc[w].booking = b

StayNotOffered ==
    \A b \in Bookings : CheckedIn(db, b) =>
        LET r == db.booking[b].room IN
        \/ db.room[r].status # "available"
        \/ b \in released[r]
        \/ Between(b)
        \/ b \in torn

\* A room that has stopped being AVAILABLE is offered again only by an admin: no
\* check-out, cancellation, stale PATCH or deletion frees it (signals.py:69-74).
OnlyAdminReleases ==
    [][\A r \in Rooms : db.room[r].status # "available" /\ db'.room[r].status = "available"
          => \E w \in Workers : At(w, "commit") /\ r \in proc[w].freed]_vars

\* Once rooms and bookings stop changing, the cached list is gone or right for good:
\* a list read from a lagging replica, or read before and cached after a change
\* was invalidated, is replaced or expires (tasks.py:77-83, signals.py:44).
CacheCatchesUp == <>[](cache.hit => cache.list = ActiveRooms(db))
=============================================================================
