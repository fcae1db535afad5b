---------------------------- MODULE HotelRoomsProofs ---------------------------
(***************************************************************************)
(* Proofs about HotelRooms, for any number of rooms, bookings, workers and *)
(* requests, with or without a replica.                                    *)
(***************************************************************************)
EXTENDS HotelRooms, SequenceTheorems, TLAPS

(***************************************************************************)
(* Part 1.  Every variable keeps its type.                                 *)
(***************************************************************************)
Snapshot == [hit : {TRUE}, list : RoomList, expires : {TRUE}]
Procs == [Workers -> {Idle} \cup Autocommit \cup InTransaction]
Pages == {NoPage} \cup [of : {"booking"}, booking : Bookings, row : Booking]
                  \cup [of : {"rooms"}, room : [Rooms -> Room]]

RowsTyped == db \in Database /\ replica \in Database /\ wal \in Seq(Database)

\* What a database holds, and what it becomes when one row of it is written.
LEMMA Databases ==
    ASSUME NEW d \in Database
    PROVE  /\ d.room \in [Rooms -> Room] /\ d.booking \in [Bookings -> Booking]
           /\ \A b \in Bookings, row \in Booking :
                 [d EXCEPT !.booking[b] = row] \in Database
           /\ \A b \in Bookings : [d EXCEPT !.booking[b].status = "deleted"] \in Database
           /\ \A r \in Rooms, s \in RoomStatus :
                 [d EXCEPT !.room[r].status = s] \in Database
  <1>1. d.room \in [Rooms -> Room] /\ d.booking \in [Bookings -> Booking]
    BY DEF Database
  <1>2. /\ \A t \in [Rooms -> Room] : [d EXCEPT !.room = t] \in Database
        /\ \A u \in [Bookings -> Booking] : [d EXCEPT !.booking = u] \in Database
    BY DEF Database
  <1>3. ASSUME NEW b \in Bookings, NEW row \in Booking
        PROVE  [d EXCEPT !.booking[b] = row] \in Database
    <2> DEFINE u == [d.booking EXCEPT ![b] = row]
    <2>1. u \in [Bookings -> Booking]
      BY <1>1
    <2>2. [d EXCEPT !.booking[b] = row] = [d EXCEPT !.booking = u]
      BY DEF Database
    <2>3. [d EXCEPT !.booking = u] \in Database
      <3> HIDE DEF u
      <3> QED BY <1>1, <1>2, <2>1
    <2> QED BY <2>2, <2>3
  <1>4. ASSUME NEW b \in Bookings
        PROVE  [d EXCEPT !.booking[b].status = "deleted"] \in Database
    <2>1. [d.booking[b] EXCEPT !.status = "deleted"] \in Booking
      BY <1>1 DEF Booking
    <2>2. [d EXCEPT !.booking[b].status = "deleted"]
            = [d EXCEPT !.booking[b] = [d.booking[b] EXCEPT !.status = "deleted"]]
      BY <1>1 DEF Database
    <2> QED BY <1>3, <2>1, <2>2
  <1>5. ASSUME NEW r \in Rooms, NEW s \in RoomStatus
        PROVE  [d EXCEPT !.room[r].status = s] \in Database
    <2> DEFINE t == [d.room EXCEPT ![r] = [d.room[r] EXCEPT !.status = s]]
    <2>1. [d.room[r] EXCEPT !.status = s] \in Room
      BY <1>1 DEF Room
    <2>2. t \in [Rooms -> Room]
      BY <1>1, <2>1
    <2>3. [d EXCEPT !.room[r].status = s] = [d EXCEPT !.room = t]
      BY <1>1 DEF Database
    <2>4. [d EXCEPT !.room = t] \in Database
      <3> HIDE DEF t
      <3> QED BY <1>1, <1>2, <2>2
    <2> QED BY <2>3, <2>4
  <1> QED BY <1>1, <1>3, <1>4, <1>5

\* A write keeps the types of the primary, the log and the replica.
LEMMA WriteTyped ==
    ASSUME RowsTyped, NEW d \in Database, Write(d)
    PROVE  RowsTyped'
  <1>1. Append(wal, d) \in Seq(Database)
    BY DEF RowsTyped
  <1> QED BY <1>1 DEF RowsTyped, Write

LEMMA ReadTyped ==
    ASSUME TypeOK
    PROVE  /\ Read \in Database
           /\ Read.room \in [Rooms -> Room] /\ Read.booking \in [Bookings -> Booking]
  BY Databases DEF Read, TypeOK

\* The room a booking moves is moved to a status of a room.
LEMMA SyncedTyped ==
    ASSUME NEW d \in Database, NEW row \in Booking
    PROVE  Synced(d, row) \in Database
  <1>1. StatusAfter(row) \in RoomStatus /\ row.room \in Rooms
    BY DEF StatusAfter, RoomStatus, Booking
  <1> QED BY <1>1, Databases DEF Synced

\* What a transaction commits.
LEMMA MergedTyped ==
    ASSUME TypeOK, NEW p \in InTransaction
    PROVE  Merged(p) \in Database
  <1>1. p.db \in Database
    BY DEF InTransaction
  <1>2. /\ p.db.room \in [Rooms -> Room] /\ p.db.booking \in [Bookings -> Booking]
        /\ db.room \in [Rooms -> Room] /\ db.booking \in [Bookings -> Booking]
    BY <1>1, Databases DEF TypeOK
  <1>3. [r \in Rooms |-> IF r \in p.writes THEN p.db.room[r] ELSE db.room[r]]
          \in [Rooms -> Room]
    BY <1>2
  <1>4. [b \in Bookings |-> IF b \in p.writes THEN p.db.booking[b] ELSE db.booking[b]]
          \in [Bookings -> Booking]
    BY <1>2
  <1> QED BY <1>3, <1>4 DEF Merged, Database

\* What a worker is doing, by where it is.
LEMMA Doing ==
    ASSUME TypeOK, NEW w \in Workers
    PROVE  /\ proc[w].pc \in {"insert", "save", "room", "forget", "destroy"} =>
                /\ proc[w] \in Autocommit
                /\ proc[w].booking \in Bookings /\ proc[w].row \in Booking
                /\ proc[w].row.room \in Rooms
           /\ At(w, "commit") => proc[w] \in InTransaction
  BY DEF TypeOK, Idle, Autocommit, InTransaction, At, Booking

LEMMA ProcTyped ==
    ASSUME TypeOK, NEW w \in Workers
    PROVE  /\ \A p \in {Idle} \cup Autocommit \cup InTransaction :
                 Become(w, p) => proc' \in Procs
           /\ \A pc \in {"room", "forget"} :
                 proc[w].pc \in {"save", "room"} /\ Goto(w, pc) => proc' \in Procs
  <1>1. ASSUME NEW p \in {Idle} \cup Autocommit \cup InTransaction, Become(w, p)
        PROVE  proc' \in Procs
    BY <1>1 DEF Become, Procs, TypeOK
  <1>2. ASSUME NEW pc \in {"room", "forget"}, proc[w].pc \in {"save", "room"}, Goto(w, pc)
        PROVE  proc' \in Procs
    <2>1. proc[w] \in Autocommit
      BY <1>2, Doing
    <2>2. [proc[w] EXCEPT !.pc = pc] \in Autocommit
      BY <2>1 DEF Autocommit
    <2>3. proc' = [proc EXCEPT ![w] = [proc[w] EXCEPT !.pc = pc]]
      BY <1>2 DEF Goto
    <2> QED BY <2>2, <2>3 DEF Procs, TypeOK
  <1> QED BY <1>1, <1>2

\* The type invariant, with the names above.
Typed == /\ RowsTyped /\ proc \in Procs /\ page \in Pages
         /\ cache \in {Miss} \cup [hit : {TRUE}, list : RoomList, expires : BOOLEAN]
         /\ syncing \in {Miss} \cup Snapshot
         /\ begun \in Nat
         /\ released \in [Rooms -> SUBSET Bookings] /\ torn \subseteq Bookings
LEMMA Types == (TypeOK <=> Typed) /\ (TypeOK' <=> Typed')
  BY DEF TypeOK, Typed, RowsTyped, Procs, Pages, Snapshot

LEMMA InitTyped == Init => TypeOK
  <1> SUFFICES ASSUME Init PROVE TypeOK
    OBVIOUS
  <1>1. PICK r \in Rooms, early \in SUBSET Bookings : \E guest \in SUBSET early :
          db = [room |-> [x \in Rooms |->
                              [status |-> IF x = r /\ guest # {} THEN "occupied" ELSE "available",
                               active |-> TRUE]],
                booking |-> [b \in Bookings |->
                                  [status |-> IF b \in guest THEN "checked_in"
                                              ELSE IF b \in early THEN "confirmed" ELSE "absent",
                                   room |-> r]]]
    BY DEF Init
  <1>2. db \in Database
    BY <1>1 DEF Database, Room, Booking, RoomStatus, BookingStatus
  <1>3. <<>> \in Seq(Database)
    OBVIOUS
  <1> QED BY <1>2, <1>3 DEF Init, TypeOK

LEMMA BeginTyped ==
    ASSUME TypeOK, Begin
    PROVE  begun' \in Nat
  BY DEF TypeOK, Begin

LEMMA ApiTyped ==
    ASSUME TypeOK, NEW w \in Workers, Api(w)
    PROVE  TypeOK'
  <1>1. ASSUME NEW b \in Bookings, NEW r \in Rooms, CreateCheck(w, b, r)
        PROVE  TypeOK'
    <2> DEFINE p == [pc |-> "insert", booking |-> b, row |-> [status |-> "pending", room |-> r]]
    <2>1. [status |-> "pending", room |-> r] \in Booking
      BY DEF Booking, BookingStatus
    <2>2. p \in Autocommit
      BY <2>1 DEF Autocommit
    <2>3. proc' \in Procs
      BY <1>1, <2>2, ProcTyped, Types DEF Typed, CreateCheck
    <2>4. begun' \in Nat
      BY <1>1, BeginTyped DEF CreateCheck
    <2> QED BY <1>1, <2>3, <2>4, Types DEF Typed, CreateCheck, rows, history, RowsTyped
  <1>2. CASE Insert(w)
    <2>1. [db EXCEPT !.booking[proc[w].booking] = proc[w].row] \in Database
      BY <1>2, Doing, Databases, Types DEF Typed, Insert, At, RowsTyped
    <2>2. RowsTyped'
      BY <1>2, <2>1, WriteTyped, Types DEF Typed, Insert
    <2>3. proc' \in Procs
      BY <1>2, ProcTyped DEF Insert
    <2> QED BY <1>2, <2>2, <2>3, Types DEF Typed, Insert, history
  <1>3. ASSUME NEW b \in Bookings, NEW r \in Rooms, UpdateRead(w, b, r)
        PROVE  TypeOK'
    <2> DEFINE row == [Read.booking[b] EXCEPT !.room = r]
               p == [pc |-> "save", booking |-> b, row |-> row]
    <2>1. row \in Booking
      BY ReadTyped DEF Booking
    <2>2. p \in Autocommit
      <3> HIDE DEF row
      <3> QED BY <2>1 DEF Autocommit
    <2>3. Become(w, p) \/ UNCHANGED proc
      BY <1>3 DEF UpdateRead
    <2>4. proc' \in Procs
      <3> HIDE DEF p
      <3> QED BY <2>2, <2>3, ProcTyped, Types DEF Typed
    <2>5. begun' \in Nat
      BY <1>3, BeginTyped DEF UpdateRead
    <2> QED BY <1>3, <2>4, <2>5, Types DEF Typed, UpdateRead, rows, history, RowsTyped
  <1>4. CASE UpdateSave(w)
    <2>1. proc[w].booking \in Bookings /\ proc[w].row \in Booking
      BY <1>4, Doing DEF UpdateSave, At
    <2>2. [db EXCEPT !.booking[proc[w].booking] = proc[w].row] \in Database
      BY <2>1, Databases, Types DEF Typed, RowsTyped
    <2>3. RowsTyped'
      BY <1>4, <2>2, WriteTyped, Types DEF Typed, UpdateSave
    <2>4. proc' \in Procs
      BY <1>4, ProcTyped DEF UpdateSave, At
    <2>5. released' \in [Rooms -> SUBSET Bookings]
      BY <1>4, <2>1, Types DEF Typed, UpdateSave
    <2> QED BY <1>4, <2>3, <2>4, <2>5, Types DEF Typed, UpdateSave
  <1>5. CASE UpdateRoom(w)
    <2>1. Synced(db, proc[w].row) \in Database
      BY <1>5, Doing, SyncedTyped, Types DEF Typed, UpdateRoom, At, RowsTyped
    <2>2. RowsTyped'
      BY <1>5, <2>1, WriteTyped, Types DEF Typed, UpdateRoom
    <2>3. proc' \in Procs
      BY <1>5, ProcTyped DEF UpdateRoom, At
    <2> QED BY <1>5, <2>2, <2>3, Types DEF Typed, UpdateRoom, history
  <1>6. CASE Forget(w)
    <2>1. proc' \in Procs
      BY <1>6, ProcTyped DEF Forget
    <2> QED BY <1>6, <2>1, Types DEF Typed, Forget, rows, history, RowsTyped
  <1>7. ASSUME NEW b \in Bookings, DestroyRead(w, b)
        PROVE  TypeOK'
    <2> DEFINE row == Read.booking[b]
               p == [pc |-> "destroy", booking |-> b, row |-> row]
    <2>1. row \in Booking
      BY ReadTyped
    <2>2. p \in Autocommit
      <3> HIDE DEF row
      <3> QED BY <2>1 DEF Autocommit
    <2>3. Become(w, p) \/ UNCHANGED proc
      BY <1>7 DEF DestroyRead
    <2>4. proc' \in Procs
      <3> HIDE DEF p
      <3> QED BY <2>2, <2>3, ProcTyped, Types DEF Typed
    <2>5. begun' \in Nat
      BY <1>7, BeginTyped DEF DestroyRead
    <2> QED BY <1>7, <2>4, <2>5, Types DEF Typed, DestroyRead, rows, history, RowsTyped
  <1>8. CASE Destroy(w)
    <2>1. [db EXCEPT !.booking[proc[w].booking].status = "deleted"] \in Database
      BY <1>8, Doing, Databases, Types DEF Typed, Destroy, At, RowsTyped
    <2>2. RowsTyped'
      <3>1. CASE Write([db EXCEPT !.booking[proc[w].booking].status = "deleted"])
        BY <2>1, <3>1, WriteTyped, Types DEF Typed
      <3>2. CASE UNCHANGED rows
        BY <3>2, Types DEF Typed, rows, RowsTyped
      <3> QED BY <1>8, <3>1, <3>2 DEF Destroy
    <2>3. proc' \in Procs
      BY <1>8, ProcTyped DEF Destroy
    <2> QED BY <1>8, <2>2, <2>3, Types DEF Typed, Destroy, history
  <1> QED BY <1>1, <1>2, <1>3, <1>4, <1>5, <1>6, <1>7, <1>8 DEF Api

LEMMA PageTyped ==
    ASSUME TypeOK
    PROVE  /\ page.of = "booking" => page.booking \in Bookings /\ page.row \in Booking
           /\ page.of = "rooms" => page.room \in [Rooms -> Room]
           /\ NoPage \in Pages
  BY DEF TypeOK, NoPage, Pages

\* The rows an admin submits: the row the page shows, with a status or a room edited.
LEMMA EditedTyped ==
    ASSUME TypeOK, NEW row \in Booking
    PROVE  /\ \A s \in AdminSets : [row EXCEPT !.status = s] \in Booking
           /\ \A r \in Rooms : [row EXCEPT !.room = r] \in Booking
  BY BoundAssumption DEF Booking

\* The transaction of a booking page, and of a page of rooms.
BookingTransaction(b, row) ==
    [pc |-> "commit", booking |-> {b}, freed |-> {},
     db |-> Synced([db EXCEPT !.booking[b] = row], row),
     writes |-> {b} \cup (IF Moves(row) THEN {row.room} ELSE {})]
RoomsTransaction(form) ==
    LET saved == Changed(form) IN
    [pc |-> "commit", booking |-> {}, writes |-> saved,
     db |-> [db EXCEPT !.room = [x \in Rooms |-> IF x \in saved THEN form[x] ELSE @[x]]],
     freed |-> {x \in saved : form[x].status = "available"}]

LEMMA BookingTransactionTyped ==
    ASSUME TypeOK, NEW b \in Bookings, NEW row \in Booking
    PROVE  BookingTransaction(b, row) \in InTransaction
  <1> DEFINE d == Synced([db EXCEPT !.booking[b] = row], row)
             x == {b} \cup (IF Moves(row) THEN {row.room} ELSE {})
  <1>1. d \in Database
    BY Databases, SyncedTyped DEF TypeOK
  <1>2. x \in SUBSET (Rooms \cup Bookings)
    BY DEF Booking
  <1>3. {b} \in SUBSET Bookings /\ {} \in SUBSET Rooms
    OBVIOUS
  <1>4. BookingTransaction(b, row)
          = [pc |-> "commit", booking |-> {b}, freed |-> {}, db |-> d, writes |-> x]
    BY DEF BookingTransaction
  <1> HIDE DEF d, x
  <1> QED BY <1>1, <1>2, <1>3, <1>4 DEF InTransaction

LEMMA RoomsTransactionTyped ==
    ASSUME TypeOK, NEW form \in [Rooms -> Room]
    PROVE  RoomsTransaction(form) \in InTransaction
  <1> DEFINE saved == Changed(form)
             t == [x \in Rooms |-> IF x \in saved THEN form[x] ELSE db.room[x]]
             d == [db EXCEPT !.room = t]
             f == {x \in saved : form[x].status = "available"}
  <1>1. saved \in SUBSET Rooms /\ f \in SUBSET Rooms
    BY DEF Changed
  <1>2. t \in [Rooms -> Room]
    BY Databases DEF TypeOK
  <1>3. d \in Database
    <2> HIDE DEF t
    <2> QED BY <1>2 DEF TypeOK, Database
  <1>4. RoomsTransaction(form)
          = [pc |-> "commit", booking |-> {}, writes |-> saved, db |-> d, freed |-> f]
    BY DEF RoomsTransaction
  <1> HIDE DEF saved, d, f
  <1> QED BY <1>1, <1>3, <1>4 DEF InTransaction

\* What the two pages start, in these words.
LEMMA SubmitStarts ==
    ASSUME TypeOK, NEW w \in Workers
    PROVE  /\ SubmitBooking(w) =>
                \E b \in Bookings, row \in Booking : Become(w, BookingTransaction(b, row))
           /\ SubmitRooms(w) =>
                \E form \in [Rooms -> Room] : Become(w, RoomsTransaction(form))
  <1>1. ASSUME SubmitBooking(w)
        PROVE  \E b \in Bookings, row \in Booking : Become(w, BookingTransaction(b, row))
    <2> DEFINE Edited == {[page.row EXCEPT !.status = s] : s \in AdminSets}
                         \cup {[page.row EXCEPT !.room = r] : r \in Rooms}
    <2>1. page.booking \in Bookings /\ page.row \in Booking
      BY <1>1, PageTyped DEF SubmitBooking
    <2>2. PICK row \in Edited : Become(w, BookingTransaction(page.booking, row))
      BY <1>1 DEF SubmitBooking, BookingTransaction
    <2>3. row \in Booking
      BY <2>1, EditedTyped
    <2> QED BY <2>1, <2>2, <2>3
  <1>2. ASSUME SubmitRooms(w)
        PROVE  \E form \in [Rooms -> Room] : Become(w, RoomsTransaction(form))
    <2>1. page.room \in [Rooms -> Room]
      BY <1>2, PageTyped DEF SubmitRooms
    <2>2. PICK r \in Rooms, cell \in {"available", "maintenance", "is_active"} :
             Become(w, RoomsTransaction(IF cell = "is_active"
                                        THEN [page.room EXCEPT ![r].active = ~@]
                                        ELSE [page.room EXCEPT ![r].status = cell]))
      BY <1>2, ZenonT(40) DEF SubmitRooms, RoomsTransaction
    <2>3. [page.room EXCEPT ![r].active = ~@] \in [Rooms -> Room]
      <3>0. page.room[r] \in Room
        BY <2>1
      <3>1. [page.room[r] EXCEPT !.active = ~@] \in Room
        BY <3>0 DEF Room
      <3> QED BY <2>1, <3>1
    <2>4. cell # "is_active" => [page.room EXCEPT ![r].status = cell] \in [Rooms -> Room]
      <3>1. cell # "is_active" => [page.room[r] EXCEPT !.status = cell] \in Room
        BY <2>1 DEF Room, RoomStatus
      <3> QED BY <2>1, <3>1
    <2> QED BY <2>2, <2>3, <2>4
  <1> QED BY <1>1, <1>2

LEMMA AdminTyped ==
    ASSUME TypeOK, Admin
    PROVE  TypeOK'
  <1>1. ASSUME NEW b \in Bookings, OpenBooking(b)
        PROVE  TypeOK'
    <2> DEFINE row == Read.booking[b]
               p == [of |-> "booking", booking |-> b, row |-> row]
    <2>1. row \in Booking
      BY ReadTyped
    <2>2. p \in Pages
      <3> HIDE DEF row
      <3> QED BY <2>1 DEF Pages
    <2>3. page' \in Pages /\ begun' \in Nat
      BY <1>1, <2>2, BeginTyped DEF OpenBooking
    <2> QED BY <1>1, <2>3, Types DEF Typed, OpenBooking, rows, history, RowsTyped
  <1>2. CASE OpenRooms
    <2> DEFINE t == Read.room  p == [of |-> "rooms", room |-> t]
    <2>1. t \in [Rooms -> Room]
      BY ReadTyped
    <2>2. p \in Pages
      <3> HIDE DEF t
      <3> QED BY <2>1 DEF Pages
    <2>3. page' \in Pages /\ begun' \in Nat
      BY <1>2, <2>2, BeginTyped DEF OpenRooms
    <2> QED BY <1>2, <2>3, Types DEF Typed, OpenRooms, rows, history, RowsTyped
  <1>3. ASSUME NEW w \in Workers, SubmitBooking(w) \/ SubmitRooms(w)
        PROVE  TypeOK'
    <2>1. proc' \in Procs
      BY <1>3, SubmitStarts, BookingTransactionTyped, RoomsTransactionTyped, ProcTyped
    <2>2. cache' = cache \/ cache' = Miss
      BY <1>3 DEF SubmitBooking, SubmitRooms, Invalidated
    <2>3. page' \in Pages
      BY <1>3, PageTyped DEF SubmitBooking, SubmitRooms
    <2>4. UNCHANGED <<rows, syncing, begun, history>>
      BY <1>3 DEF SubmitBooking, SubmitRooms
    <2> QED BY <2>1, <2>2, <2>3, <2>4, Types DEF Typed, rows, history, RowsTyped
  <1>4. ASSUME NEW w \in Workers, Commit(w)
        PROVE  TypeOK'
    <2>1. Merged(proc[w]) \in Database
      BY <1>4, Doing, MergedTyped DEF Commit
    <2>2. RowsTyped'
      BY <1>4, <2>1, WriteTyped, Types DEF Typed, Commit
    <2>3. proc' \in Procs
      BY <1>4, ProcTyped DEF Commit
    <2>4. \A r \in Rooms : GuestsOf(db, r) \in SUBSET Bookings
      BY DEF GuestsOf
    <2>5. released' \in [Rooms -> SUBSET Bookings]
      BY <1>4, <2>4, Types DEF Typed, Commit
    <2> QED BY <1>4, <2>2, <2>3, <2>5, Types DEF Typed, Commit
  <1> QED BY <1>1, <1>2, <1>3, <1>4 DEF Admin

LEMMA ListTyped ==
    ASSUME TypeOK
    PROVE  Cached(ActiveRooms(Read)) \in Snapshot
  <1>1. \A r \in Rooms : Read.room[r] \in Room
    BY ReadTyped
  <1>2. ActiveRooms(Read) \in RoomList
    BY <1>1 DEF ActiveRooms, RoomList, Room
  <1> QED BY <1>2 DEF Cached, Snapshot

\* The task, Redis, the replica, and a worker that dies.
Background == \/ Sync \/ Expire \/ Replay
              \/ \E w \in Workers : Crash(w)

LEMMA BackgroundTyped ==
    ASSUME TypeOK, Background
    PROVE  TypeOK'
  <1>1. CASE SyncRead
    BY <1>1, ListTyped, Types DEF Typed, SyncRead, rows, history, RowsTyped
  <1>2. CASE SyncSet
    <2>1. syncing \in Snapshot
      BY <1>2, Types DEF Typed, SyncSet, Miss
    <2>2. syncing \in [hit : {TRUE}, list : RoomList, expires : BOOLEAN]
      BY <2>1 DEF Snapshot
    <2> QED BY <1>2, <2>2, Types DEF Typed, SyncSet, rows, history, RowsTyped
  <1>3. CASE Expire
    BY <1>3, Types DEF Typed, Expire, rows, history, RowsTyped
  <1>4. CASE Replay
    <2>1. wal \in Seq(Database) /\ wal # <<>>
      BY <1>4, Types DEF Typed, RowsTyped, Replay
    <2>2. Head(wal) \in Database /\ Tail(wal) \in Seq(Database)
      BY <2>1, HeadTailProperties
    <2> QED BY <1>4, <2>2, Types DEF Typed, Replay, history, RowsTyped
  <1>5. ASSUME NEW w \in Workers, Crash(w)
        PROVE  TypeOK'
    <2>1. proc' \in Procs
      BY <1>5, ProcTyped DEF Crash
    <2>2. torn' \subseteq Bookings
      BY <1>5, Doing, Types DEF Typed, Crash, At
    <2> QED BY <1>5, <2>1, <2>2, Types DEF Typed, Crash, rows, RowsTyped
  <1> QED BY <1>1, <1>2, <1>3, <1>4, <1>5 DEF Background, Sync

\* The cases of Next, for every proof that follows.
LEMMA Steps ==
    ASSUME Next
    PROVE  (\E w \in Workers : Api(w)) \/ Admin \/ Background
  BY DEF Next, Background

\* Every variable keeps its type: a room and a booking have one of their statuses, and
\* the cached list names rooms (core/models.py:104-153).
THEOREM TypeCorrect == Spec => []TypeOK
  <1>1. TypeOK /\ [Next]_vars => TypeOK'
    <2> SUFFICES ASSUME TypeOK, [Next]_vars PROVE TypeOK'
      OBVIOUS
    <2>1. CASE Next
      BY <2>1, Steps, ApiTyped, AdminTyped, BackgroundTyped
    <2>2. CASE UNCHANGED vars
      BY <2>2, Types DEF vars, rows, history, Typed, RowsTyped
    <2> QED BY <2>1, <2>2
  <1> QED BY <1>1, InitTyped, PTL DEF Spec

(***************************************************************************)
(* Part 2.  A room that was taken is offered again only by an admin.       *)
(***************************************************************************)

\* What a transaction will commit: a room it makes available is one the admin freed,
\* and a booking it checks in has its room with it, taken.
Honest(p) ==
    /\ p.writes \cap Bookings = p.booking
    /\ p.freed \subseteq p.writes
    /\ p.freed # {} => p.booking = {}
    /\ \A r \in Rooms : r \in p.writes /\ p.db.room[r].status = "available" => r \in p.freed
    /\ \A b \in p.booking : CheckedIn(p.db, b) =>
          /\ p.db.booking[b].room \in p.writes
          /\ p.db.room[p.db.booking[b].room].status # "available"

\* What a view has in hand: a new booking is pending, and a room is only moved for a
\* booking that moves it.
Plain(p) ==
    /\ p.pc = "insert" => p.row.status = "pending"
    /\ p.pc = "room" => Moves(p.row)
    /\ p.pc = "commit" => Honest(p)

\* A room that is moved is taken or has to be cleaned.
LEMMA NeverFreed ==
    ASSUME NEW d \in Database, NEW row \in Booking
    PROVE  /\ StatusAfter(row) # "available"
           /\ \A r \in Rooms : \/ Synced(d, row).room[r].status = d.room[r].status
                               \/ Synced(d, row).room[r].status # "available"
           /\ Moves(row) => Synced(d, row).room[row.room].status # "available"
           /\ Synced(d, row).booking = d.booking
  <1>1. StatusAfter(row) # "available"
    BY DEF StatusAfter
  <1>2. d.room \in [Rooms -> Room] /\ row.room \in Rooms
    BY Databases DEF Booking
  <1>3. CASE Moves(row)
    <2>1. Synced(d, row) = [d EXCEPT !.room[row.room].status = StatusAfter(row)]
      BY <1>3 DEF Synced
    <2>2. Synced(d, row).booking = d.booking
      BY <2>1 DEF Database
    <2>3. Synced(d, row).room = [d.room EXCEPT ![row.room].status = StatusAfter(row)]
      BY <2>1 DEF Database
    <2>4. \A r \in Rooms : r # row.room => Synced(d, row).room[r] = d.room[r]
      BY <1>2, <2>3
    <2>5. Synced(d, row).room[row.room].status = StatusAfter(row)
      BY <1>2, <2>3 DEF Room
    <2> QED BY <1>1, <2>2, <2>4, <2>5
  <1>4. CASE ~Moves(row)
    BY <1>1, <1>4 DEF Synced
  <1> QED BY <1>3, <1>4

LEMMA BookingHonest ==
    ASSUME TypeOK, NEW b \in Bookings, NEW row \in Booking
    PROVE  Honest(BookingTransaction(b, row))
  <1> DEFINE p == BookingTransaction(b, row)
             e == [db EXCEPT !.booking[b] = row]
             x == {b} \cup (IF Moves(row) THEN {row.room} ELSE {})
  <1>1. p.writes = x /\ p.booking = {b} /\ p.freed = {} /\ p.db = Synced(e, row)
    BY DEF BookingTransaction
  <1>2. row.room \in Rooms
    BY DEF Booking
  <1>3. e \in Database /\ e.booking[b] = row
    <2>1. e \in Database
      BY Databases DEF TypeOK
    <2>2. db.booking \in [Bookings -> Booking]
      BY Databases DEF TypeOK
    <2>3. e.booking = [db.booking EXCEPT ![b] = row]
      BY DEF TypeOK, Database
    <2> QED BY <2>1, <2>2, <2>3
  <1>4. x \cap Bookings = {b}
    BY <1>2, KeysAssumption
  <1>5. p.db.booking[b] = row
    BY <1>1, <1>3, NeverFreed
  <1>6. Moves(row) => p.db.room[row.room].status # "available"
    BY <1>1, <1>3, NeverFreed
  <1>7. \A r \in Rooms : r \in x => Moves(row) /\ r = row.room
    BY KeysAssumption
  <1>8. CheckedIn(p.db, b) => Moves(row) /\ row.room \in x
    BY <1>5 DEF CheckedIn, Moves
  <1> HIDE DEF p, e, x
  <1> QED BY <1>1, <1>4, <1>5, <1>6, <1>7, <1>8 DEF Honest, p

LEMMA RoomsHonest ==
    ASSUME TypeOK, NEW form \in [Rooms -> Room]
    PROVE  Honest(RoomsTransaction(form))
  <1> DEFINE p == RoomsTransaction(form)
             saved == Changed(form)
             t == [x \in Rooms |-> IF x \in saved THEN form[x] ELSE db.room[x]]
  <1>1. p.writes = saved /\ p.booking = {}
        /\ p.freed = {x \in saved : form[x].status = "available"}
    BY DEF RoomsTransaction
  <1>2. p.db.room = t
    <2>1. p.db = [db EXCEPT !.room = t]
      BY DEF RoomsTransaction
    <2> QED BY <2>1 DEF TypeOK, Database
  <1>3. saved \subseteq Rooms
    BY DEF Changed
  <1>4. \A r \in saved : p.db.room[r] = form[r]
    BY <1>2, <1>3
  <1>5. saved \cap Bookings = {}
    BY <1>3, KeysAssumption
  <1> HIDE DEF p, saved, t
  <1> QED BY <1>1, <1>4, <1>5 DEF Honest, p

\* A worker goes on in one of these ways, and the others stay where they are.
LEMMA Moving ==
    ASSUME TypeOK, Next
    PROVE  \/ proc' = proc
           \/ \E w \in Workers :
                 \/ Become(w, Idle)
                 \/ \E p \in Autocommit :
                       /\ Become(w, p)
                       /\ p.pc \in {"insert", "save", "destroy"}
                       /\ p.pc = "insert" => p.row.status = "pending"
                 \/ At(w, "save") /\ Moves(proc[w].row) /\ Goto(w, "room")
                 \/ At(w, "room") /\ Goto(w, "forget")
                 \/ \E p \in InTransaction : Become(w, p) /\ Honest(p) /\ p.pc = "commit"
  <1>1. ASSUME NEW w \in Workers, NEW b \in Bookings, NEW r \in Rooms, CreateCheck(w, b, r)
        PROVE  \/ proc' = proc
               \/ \E p \in Autocommit : Become(w, p) /\ p.pc = "insert"
                                        /\ p.row.status = "pending"
    <2> DEFINE row == [status |-> "pending", room |-> r]
               p == [pc |-> "insert", booking |-> b, row |-> row]
    <2>1. row \in Booking /\ row.status = "pending"
      BY DEF Booking, BookingStatus
    <2>2. Become(w, p) \/ proc' = proc
      BY <1>1 DEF CreateCheck
    <2> HIDE DEF row
    <2>3. p \in Autocommit /\ p.pc = "insert" /\ p.row = row
      BY <2>1 DEF Autocommit
    <2> QED BY <2>1, <2>2, <2>3
  <1>2. ASSUME NEW w \in Workers, NEW b \in Bookings, NEW r \in Rooms, UpdateRead(w, b, r)
        PROVE  proc' = proc \/ \E p \in Autocommit : Become(w, p) /\ p.pc = "save"
    <2> DEFINE row == [Read.booking[b] EXCEPT !.room = r]
               p == [pc |-> "save", booking |-> b, row |-> row]
    <2>1. row \in Booking
      BY ReadTyped DEF Booking
    <2>2. Become(w, p) \/ proc' = proc
      BY <1>2 DEF UpdateRead
    <2> HIDE DEF row
    <2>3. p \in Autocommit /\ p.pc = "save"
      BY <2>1 DEF Autocommit
    <2> QED BY <2>2, <2>3
  <1>3. ASSUME NEW w \in Workers, NEW b \in Bookings, DestroyRead(w, b)
        PROVE  proc' = proc \/ \E p \in Autocommit : Become(w, p) /\ p.pc = "destroy"
    <2> DEFINE row == Read.booking[b]
               p == [pc |-> "destroy", booking |-> b, row |-> row]
    <2>1. row \in Booking
      BY ReadTyped
    <2>2. Become(w, p) \/ proc' = proc
      BY <1>3 DEF DestroyRead
    <2> HIDE DEF row
    <2>3. p \in Autocommit /\ p.pc = "destroy"
      BY <2>1 DEF Autocommit
    <2> QED BY <2>2, <2>3
  <1>4. ASSUME NEW w \in Workers, UpdateSave(w)
        PROVE  \/ Become(w, Idle)
               \/ At(w, "save") /\ Moves(proc[w].row) /\ Goto(w, "room")
    BY <1>4 DEF UpdateSave
  <1>5. ASSUME NEW w \in Workers, UpdateRoom(w)
        PROVE  At(w, "room") /\ Goto(w, "forget")
    BY <1>5 DEF UpdateRoom
  <1>6. ASSUME NEW w \in Workers,
               Insert(w) \/ Forget(w) \/ Destroy(w) \/ Commit(w) \/ Crash(w)
        PROVE  Become(w, Idle)
    BY <1>6 DEF Insert, Forget, Destroy, Commit, Crash
  <1>7. ASSUME NEW w \in Workers, SubmitBooking(w) \/ SubmitRooms(w)
        PROVE  \E p \in InTransaction : Become(w, p) /\ Honest(p) /\ p.pc = "commit"
    <2>1. \A p \in InTransaction : p.pc = "commit"
      BY DEF InTransaction
    <2> QED BY <1>7, <2>1, SubmitStarts, BookingTransactionTyped, RoomsTransactionTyped,
               BookingHonest, RoomsHonest
  <1>8. (\E b \in Bookings : OpenBooking(b)) \/ OpenRooms \/ Sync \/ Expire \/ Replay
          => proc' = proc
    BY DEF OpenBooking, OpenRooms, Sync, SyncRead, SyncSet, Expire, Replay
  <1>9. CASE \E w \in Workers : Api(w)
    <2> PICK w \in Workers : Api(w)
      BY <1>9
    <2>1. CASE \E b \in Bookings, r \in Rooms : CreateCheck(w, b, r)
      BY <1>1, <2>1
    <2>2. CASE \E b \in Bookings, r \in Rooms : UpdateRead(w, b, r)
      BY <1>2, <2>2
    <2>3. CASE \E b \in Bookings : DestroyRead(w, b)
      BY <1>3, <2>3
    <2>4. CASE UpdateSave(w)
      BY <1>4, <2>4
    <2>5. CASE UpdateRoom(w)
      BY <1>5, <2>5
    <2>6. CASE Insert(w) \/ Forget(w) \/ Destroy(w)
      BY <1>6, <2>6
    <2> QED BY <2>1, <2>2, <2>3, <2>4, <2>5, <2>6 DEF Api
  <1>10. CASE Admin
    <2>1. ASSUME NEW w \in Workers, Commit(w) PROVE Become(w, Idle)
      BY <1>6, <2>1
    <2> QED BY <1>7, <1>8, <1>10, <2>1 DEF Admin
  <1>11. CASE Background
    BY <1>6, <1>8, <1>11 DEF Background
  <1> QED BY <1>9, <1>10, <1>11, Steps

LEMMA PlainInvariant == Spec => [](\A w \in Workers : Plain(proc[w]))
  <1> DEFINE Good == \A w \in Workers : Plain(proc[w])
  <1>1. Plain(Idle)
    BY DEF Plain, Idle
  <1>2. Init => Good
    BY <1>1 DEF Init
  <1>3. Good /\ TypeOK /\ [Next]_vars => Good'
    <2> SUFFICES ASSUME Good, TypeOK, [Next]_vars, NEW v \in Workers
                 PROVE  Plain(proc'[v])
      OBVIOUS
    <2>1. CASE proc'[v] = proc[v]
      BY <2>1
    <2>2. ASSUME NEW w \in Workers, Become(w, Idle)
          PROVE  Plain(proc'[v])
      BY <1>1, <2>2 DEF Become, TypeOK
    <2>3. ASSUME NEW w \in Workers, NEW p \in Autocommit, Become(w, p),
                 p.pc \in {"insert", "save", "destroy"},
                 p.pc = "insert" => p.row.status = "pending"
          PROVE  Plain(proc'[v])
      <3>1. Plain(p)
        BY <2>3 DEF Plain
      <3> QED BY <2>3, <3>1 DEF Become, TypeOK
    <2>4. ASSUME NEW w \in Workers, proc[w].pc \in {"save", "room"},
                 NEW pc \in {"room", "forget"}, Goto(w, pc),
                 pc = "room" => Moves(proc[w].row)
          PROVE  Plain(proc'[v])
      <3> DEFINE p == [proc[w] EXCEPT !.pc = pc]
      <3>1. proc[w] \in Autocommit
        BY <2>4, Doing
      <3>2. p.pc = pc /\ p.row = proc[w].row
        BY <3>1 DEF Autocommit
      <3>3. Plain(p)
        BY <2>4, <3>2 DEF Plain
      <3>4. proc'[v] = proc[v] \/ proc'[v] = p
        BY <2>4 DEF Goto, TypeOK
      <3> HIDE DEF p
      <3> QED BY <3>3, <3>4
    <2>5. ASSUME NEW w \in Workers, NEW p \in InTransaction, Become(w, p), Honest(p),
                 p.pc = "commit"
          PROVE  Plain(proc'[v])
      <3>1. Plain(p)
        BY <2>5 DEF Plain
      <3> QED BY <2>5, <3>1 DEF Become, TypeOK
    <2>6. CASE UNCHANGED vars
      BY <2>6 DEF vars
    <2>7. CASE Next
      BY <2>1, <2>2, <2>3, <2>4, <2>5, <2>7, Moving DEF At
    <2> QED BY <2>6, <2>7
  <1> HIDE DEF Good
  <1>4. Good => \A w \in Workers : Plain(proc[w])
    BY DEF Good
  <1> QED BY <1>2, <1>3, <1>4, TypeCorrect, PTL DEF Spec

\* The ways the primary changes.
Writes(w) == \/ Insert(w) \/ UpdateSave(w) \/ UpdateRoom(w) \/ Destroy(w) \/ Commit(w)

LEMMA OnlyWrites ==
    ASSUME Next
    PROVE  (\E w \in Workers : Writes(w)) \/ db' = db
  <1>1. ASSUME NEW w \in Workers, Api(w) PROVE Writes(w) \/ db' = db
    BY <1>1 DEF Api, CreateCheck, UpdateRead, DestroyRead, Forget, Writes, rows
  <1>2. ASSUME Admin PROVE (\E w \in Workers : Writes(w)) \/ db' = db
    BY <1>2 DEF Admin, OpenBooking, OpenRooms, SubmitBooking, SubmitRooms, Writes, rows
  <1>3. ASSUME Background PROVE db' = db
    BY <1>3 DEF Background, Sync, SyncRead, SyncSet, Expire, Replay, Crash, rows
  <1> QED BY <1>1, <1>2, <1>3, Steps

\* What the writes of a booking alone leave as it was.
LEMMA BookingWrites ==
    ASSUME TypeOK, NEW w \in Workers, Insert(w) \/ UpdateSave(w) \/ Destroy(w)
    PROVE  /\ db'.room = db.room
           /\ \A b \in Bookings : b # proc[w].booking => db'.booking[b] = db.booking[b]
           /\ Insert(w) \/ UpdateSave(w) => db'.booking[proc[w].booking] = proc[w].row
           /\ Destroy(w) => ~CheckedIn(db', proc[w].booking)
  <1> DEFINE k == proc[w].booking
  <1>1. k \in Bookings /\ proc[w].row \in Booking
    BY Doing DEF Insert, UpdateSave, Destroy, At
  <1>2. db.booking \in [Bookings -> Booking] /\ db \in Database
    BY Databases DEF TypeOK
  <1>3. CASE Insert(w) \/ UpdateSave(w)
    <2>1. db' = [db EXCEPT !.booking[k] = proc[w].row]
      BY <1>3 DEF Insert, UpdateSave, Write
    <2>2. db'.room = db.room /\ db'.booking = [db.booking EXCEPT ![k] = proc[w].row]
      BY <1>2, <2>1 DEF Database
    <2>3. ~Destroy(w)
      BY <1>3 DEF Insert, UpdateSave, Destroy, At
    <2> QED BY <1>1, <1>2, <2>2, <2>3
  <1>4. CASE Destroy(w)
    <2>1. ~Insert(w) /\ ~UpdateSave(w)
      BY <1>4 DEF Insert, UpdateSave, Destroy, At
    <2>2. CASE Exists(db, k)
      <3>1. db' = [db EXCEPT !.booking[k].status = "deleted"]
        BY <1>4, <2>2 DEF Destroy, Write
      <3>2. db'.room = db.room /\ db'.booking = [db.booking EXCEPT ![k].status = "deleted"]
        BY <1>2, <3>1 DEF Database
      <3>3. db'.booking[k] = [db.booking[k] EXCEPT !.status = "deleted"]
        BY <1>1, <1>2, <3>2
      <3>4. ~CheckedIn(db', k)
        BY <1>1, <1>2, <3>3 DEF CheckedIn, Booking
      <3> QED BY <1>1, <1>2, <2>1, <3>2, <3>4
    <2>3. CASE ~Exists(db, k)
      <3>1. db' = db
        BY <1>4, <2>3 DEF Destroy, rows
      <3>2. ~CheckedIn(db, k)
        BY <2>3 DEF Exists, CheckedIn
      <3> QED BY <2>1, <3>1, <3>2
    <2> QED BY <2>2, <2>3
  <1> QED BY <1>3, <1>4

\* The write of a room by a view, and of a transaction.
LEMMA RoomWrites ==
    ASSUME TypeOK, NEW w \in Workers, Plain(proc[w])
    PROVE  /\ UpdateRoom(w) =>
                /\ db'.booking = db.booking
                /\ \A r \in Rooms : \/ db'.room[r].status = db.room[r].status
                                    \/ db'.room[r].status # "available"
                /\ db'.room[proc[w].row.room].status # "available"
           /\ Commit(w) =>
                /\ \A r \in Rooms : db'.room[r] = IF r \in proc[w].writes
                                                  THEN proc[w].db.room[r] ELSE db.room[r]
                /\ \A b \in Bookings : db'.booking[b] = IF b \in proc[w].writes
                                                  THEN proc[w].db.booking[b] ELSE db.booking[b]
  <1>1. ASSUME UpdateRoom(w)
        PROVE  /\ db'.booking = db.booking
               /\ \A r \in Rooms : \/ db'.room[r].status = db.room[r].status
                                   \/ db'.room[r].status # "available"
               /\ db'.room[proc[w].row.room].status # "available"
    <2>1. proc[w].row \in Booking /\ db \in Database /\ Moves(proc[w].row)
      BY <1>1, Doing DEF UpdateRoom, At, TypeOK, Plain
    <2>2. db' = Synced(db, proc[w].row)
      BY <1>1 DEF UpdateRoom, Write
    <2> QED BY <2>1, <2>2, NeverFreed
  <1>2. ASSUME Commit(w)
        PROVE  /\ \A r \in Rooms : db'.room[r] = IF r \in proc[w].writes
                                                 THEN proc[w].db.room[r] ELSE db.room[r]
               /\ \A b \in Bookings : db'.booking[b] = IF b \in proc[w].writes
                                                 THEN proc[w].db.booking[b] ELSE db.booking[b]
    <2>1. db' = Merged(proc[w])
      BY <1>2 DEF Commit, Write
    <2> QED BY <2>1 DEF Merged
  <1> QED BY <1>1, <1>2

\* A room that has stopped being available is made so again only by the transaction of
\* an admin who said so: no check-out, cancellation, stale save or deletion of a booking
\* frees it (signals.py:69-74).
THEOREM RoomsFreedByAdmin == Spec => OnlyAdminReleases
  <1> DEFINE Good == \A w \in Workers : Plain(proc[w])
             Freed == \A r \in Rooms :
                         db.room[r].status # "available" /\ db'.room[r].status = "available"
                         => \E w \in Workers : At(w, "commit") /\ r \in proc[w].freed
  <1>1. Good /\ TypeOK /\ [Next]_vars => [Freed]_vars
    <2> SUFFICES ASSUME Good, TypeOK, Next, NEW r \in Rooms,
                        db.room[r].status # "available", db'.room[r].status = "available"
                 PROVE  \E w \in Workers : At(w, "commit") /\ r \in proc[w].freed
      OBVIOUS
    <2>1. PICK w \in Workers : Writes(w)
      BY OnlyWrites
    <2>2. ~(Insert(w) \/ UpdateSave(w) \/ Destroy(w))
      BY BookingWrites
    <2>3. ~UpdateRoom(w)
      BY RoomWrites
    <2>4. Commit(w)
      BY <2>1, <2>2, <2>3 DEF Writes
    <2>5. At(w, "commit") /\ Honest(proc[w])
      BY <2>4 DEF Commit, At, Plain
    <2>6. r \in proc[w].writes /\ proc[w].db.room[r].status = "available"
      BY <2>4, RoomWrites
    <2> QED BY <2>5, <2>6 DEF Honest
  <1> HIDE DEF Good, Freed
  <1>2. (\A w \in Workers : Plain(proc[w])) => Good
    BY DEF Good
  <1>3. [Freed]_vars => [\A r \in Rooms :
                            db.room[r].status # "available" /\ db'.room[r].status = "available"
                            => \E w \in Workers : At(w, "commit") /\ r \in proc[w].freed]_vars
    BY DEF Freed
  <1> QED BY <1>1, <1>2, <1>3, PlainInvariant, TypeCorrect, PTL DEF Spec, OnlyAdminReleases

(***************************************************************************)
(* Part 3.  A room with a guest in it is not offered.                      *)
(***************************************************************************)

\* A PATCH that saved the check-in is about to mark the room.
Marking(b, r) == \E w \in Workers : /\ At(w, "room")
                                    /\ proc[w].booking = b /\ proc[w].row.room = r

\* Stronger than the property: the PATCH that is under way marks this very room.
Sheltered(b) ==
    CheckedIn(db, b) =>
        \/ db.room[db.booking[b].room].status # "available"
        \/ b \in released[db.booking[b].room]
        \/ b \in torn
        \/ Marking(b, db.booking[b].room)

\* A worker that was not about to mark a room hides no marking of the others.
LEMMA MarkingKept ==
    ASSUME TypeOK, NEW b, NEW r, Marking(b, r),
           NEW w \in Workers, ~At(w, "room"), \A v \in Workers : v # w => proc'[v] = proc[v]
    PROVE  Marking(b, r)'
  BY DEF Marking, At

\* Steps that write nothing.
LEMMA ShelteredQuiet ==
    ASSUME TypeOK, NEW b \in Bookings, Sheltered(b),
           db' = db, released' = released, torn' = torn,
           proc' = proc \/ \E w \in Workers : /\ ~At(w, "room")
                                              /\ \A v \in Workers : v # w => proc'[v] = proc[v]
    PROVE  Sheltered(b)'
  <1>1. \A r : Marking(b, r) => Marking(b, r)'
    BY MarkingKept DEF Marking, At
  <1> QED BY <1>1 DEF Sheltered

LEMMA ShelteredApi ==
    ASSUME TypeOK, NEW w \in Workers, Plain(proc[w]), Api(w),
           NEW b \in Bookings, Sheltered(b)
    PROVE  Sheltered(b)'
  <1>0. db.booking \in [Bookings -> Booking]
    BY Databases DEF TypeOK
  <1>1. CASE \E k \in Bookings, r \in Rooms : CreateCheck(w, k, r) \/ UpdateRead(w, k, r)
    <2>1. UNCHANGED <<db, released, torn>> /\ ~At(w, "room")
          /\ \A v \in Workers : v # w => proc'[v] = proc[v]
      BY <1>1 DEF CreateCheck, UpdateRead, rows, history, At, Idle, Become, TypeOK
    <2> QED BY <2>1, ShelteredQuiet
  <1>2. CASE \E k \in Bookings : DestroyRead(w, k)
    <2>1. UNCHANGED <<db, released, torn>> /\ ~At(w, "room")
          /\ \A v \in Workers : v # w => proc'[v] = proc[v]
      BY <1>2 DEF DestroyRead, rows, history, At, Idle, Become, TypeOK
    <2> QED BY <2>1, ShelteredQuiet
  <1>3. CASE Forget(w)
    <2>1. UNCHANGED <<db, released, torn>> /\ ~At(w, "room")
          /\ \A v \in Workers : v # w => proc'[v] = proc[v]
      BY <1>3 DEF Forget, rows, history, At, Become, TypeOK
    <2> QED BY <2>1, ShelteredQuiet
  <1>4. CASE Insert(w) \/ UpdateSave(w) \/ Destroy(w)
    <2> DEFINE k == proc[w].booking  row == proc[w].row
    <2>1. /\ db'.room = db.room /\ torn' = torn /\ ~At(w, "room")
          /\ \A v \in Workers : v # w => proc'[v] = proc[v]
      BY <1>4, BookingWrites DEF Insert, UpdateSave, Destroy, history, At, Become, Goto, TypeOK
    <2>2. \A c \in Bookings : c # k => db'.booking[c] = db.booking[c]
      BY <1>4, BookingWrites
    <2>3. \A r \in Rooms : released[r] \subseteq released'[r] \cup {k}
      BY <1>4 DEF Insert, UpdateSave, Destroy, history, TypeOK
    <2>4. CASE b # k
      <3>1. db'.booking[b] = db.booking[b] /\ db.booking[b].room \in Rooms
        BY <1>0, <2>2, <2>4 DEF Booking
      <3>2. \A r : Marking(b, r) => Marking(b, r)'
        BY <2>1, MarkingKept
      <3> QED BY <2>1, <2>3, <2>4, <3>1, <3>2 DEF Sheltered, CheckedIn
    <2>5. CASE b = k /\ ~UpdateSave(w)
      <3>1. ~CheckedIn(db', b)
        BY <1>4, <2>5, BookingWrites DEF CheckedIn, Plain, Insert, At
      <3> QED BY <3>1 DEF Sheltered
    <2>6. CASE b = k /\ UpdateSave(w)
      <3>1. db'.booking[b] = row
        BY <2>6, BookingWrites
      <3>2. CASE Moves(row)
        <4>1. Goto(w, "room")
          BY <2>6, <3>2 DEF UpdateSave
        <4>2. proc[w] \in Autocommit
          BY <2>6, Doing DEF UpdateSave, At
        <4>3. proc'[w] = [proc[w] EXCEPT !.pc = "room"]
          BY <4>1 DEF Goto, TypeOK
        <4>4. proc'[w].pc = "room" /\ proc'[w].booking = k /\ proc'[w].row = row
          BY <4>2, <4>3 DEF Autocommit
        <4>5. Marking(b, row.room)'
          BY <2>6, <4>4 DEF Marking, At
        <4> QED BY <3>1, <4>4, <2>6 DEF Sheltered, Marking, At
      <3>3. CASE ~Moves(row)
        BY <3>1, <3>3 DEF Sheltered, CheckedIn, Moves
      <3> QED BY <3>2, <3>3
    <2> QED BY <1>4, <2>4, <2>5, <2>6
  <1>5. CASE UpdateRoom(w)
    <2> DEFINE q == db.booking[b].room
    <2>1. /\ db'.booking = db.booking
          /\ \A r \in Rooms : \/ db'.room[r].status = db.room[r].status
                              \/ db'.room[r].status # "available"
          /\ db'.room[proc[w].row.room].status # "available"
      BY <1>5, RoomWrites
    <2>2. released' = released /\ torn' = torn /\ q \in Rooms
          /\ \A v \in Workers : v # w => proc'[v] = proc[v]
      BY <1>0, <1>5 DEF UpdateRoom, history, Goto, TypeOK, Booking
    <2>3. Marking(b, q) => db'.room[q].status # "available" \/ Marking(b, q)'
      BY <1>0, <2>1, <2>2 DEF Marking, At
    <2> QED BY <2>1, <2>2, <2>3 DEF Sheltered, CheckedIn
  <1> QED BY <1>1, <1>2, <1>3, <1>4, <1>5 DEF Api

LEMMA ShelteredCommit ==
    ASSUME TypeOK, NEW w \in Workers, Plain(proc[w]), Commit(w),
           NEW b \in Bookings, Sheltered(b)
    PROVE  Sheltered(b)'
  <1> DEFINE p == proc[w]
  <1>1. p \in InTransaction /\ Honest(p)
    BY Doing DEF Commit, At, Plain
  <1>2. /\ \A r \in Rooms : db'.room[r] = IF r \in p.writes THEN p.db.room[r] ELSE db.room[r]
        /\ \A c \in Bookings : db'.booking[c] = IF c \in p.writes THEN p.db.booking[c]
                                                ELSE db.booking[c]
    BY RoomWrites
  <1>3. /\ db.booking \in [Bookings -> Booking]
        /\ p.db.booking \in [Bookings -> Booking] /\ p.booking \subseteq Bookings
    BY <1>1, Databases DEF TypeOK, InTransaction
  <1>4. torn' = torn /\ ~At(w, "room") /\ \A v \in Workers : v # w => proc'[v] = proc[v]
    BY DEF Commit, At, Become, TypeOK
  <1>5. db' = Merged(p)
    BY DEF Commit, Write
  <1>6. \A r \in Rooms : released'[r] =
            IF r \in p.freed THEN GuestsOf(db, r)
            ELSE released[r] \ {c \in p.booking : CheckedIn(Merged(p), c)}
    BY DEF Commit
  <1> HIDE DEF p
  <1>7. CASE b \in p.booking
    <2>1. b \in p.writes /\ db'.booking[b] = p.db.booking[b]
      BY <1>1, <1>2, <1>7 DEF Honest
    <2>2. CASE CheckedIn(db', b)
      <3> DEFINE r == p.db.booking[b].room
      <3>1. CheckedIn(p.db, b) /\ r \in Rooms
        BY <1>3, <2>1, <2>2 DEF CheckedIn, Booking
      <3>2. r \in p.writes /\ p.db.room[r].status # "available"
        BY <1>1, <1>7, <3>1 DEF Honest
      <3>3. db'.room[r].status # "available"
        BY <1>2, <3>1, <3>2
      <3> QED BY <2>1, <3>3 DEF Sheltered
    <2>3. CASE ~CheckedIn(db', b)
      BY <2>3 DEF Sheltered
    <2> QED BY <2>2, <2>3
  <1>8. CASE b \notin p.booking
    <2> DEFINE r == db.booking[b].room
    <2>1. b \notin p.writes
      BY <1>1, <1>8 DEF Honest
    <2>2. db'.booking[b] = db.booking[b] /\ r \in Rooms
      BY <1>2, <1>3, <2>1 DEF Booking
    <2>3. SUFFICES ASSUME CheckedIn(db, b), db'.room[r].status = "available"
                   PROVE  \/ b \in released'[r] \/ b \in torn' \/ Marking(b, r)'
      BY <2>2 DEF Sheltered, CheckedIn, Marking, At
    <2>4. CASE r \in p.freed
      BY <1>6, <2>2, <2>3, <2>4 DEF GuestsOf
    <2>5. CASE r \notin p.freed
      <3>1. r \notin p.writes
        <4>1. r \in p.writes => db'.room[r] = p.db.room[r]
          BY <1>2, <2>2
        <4> QED BY <1>1, <2>2, <2>3, <2>5, <4>1 DEF Honest
      <3>2. db.room[r].status = "available"
        BY <1>2, <2>2, <2>3, <3>1
      <3>3. b \in released[r] \/ b \in torn \/ Marking(b, r)
        BY <2>3, <3>2 DEF Sheltered
      <3>4. b \in released[r] => b \in released'[r]
        BY <1>6, <1>8, <2>2, <2>5
      <3>5. Marking(b, r) => Marking(b, r)'
        BY <1>4, <2>2 DEF Marking, At
      <3> QED BY <1>4, <3>3, <3>4, <3>5
    <2> QED BY <2>4, <2>5
  <1> QED BY <1>7, <1>8

LEMMA ShelteredRest ==
    ASSUME TypeOK, \A w \in Workers : Plain(proc[w]), Admin \/ Background,
           NEW b \in Bookings, Sheltered(b)
    PROVE  Sheltered(b)'
  <1>1. CASE \E w \in Workers : Commit(w)
    BY <1>1, ShelteredCommit
  <1>2. CASE (\E k \in Bookings : OpenBooking(k)) \/ OpenRooms \/ Sync \/ Expire \/ Replay
    <2>1. UNCHANGED <<db, released, torn, proc>>
      BY <1>2 DEF OpenBooking, OpenRooms, Sync, SyncRead, SyncSet, Expire, Replay, rows, history
    <2> QED BY <2>1, ShelteredQuiet
  <1>3. CASE \E w \in Workers : SubmitBooking(w) \/ SubmitRooms(w)
    <2> PICK w \in Workers : SubmitBooking(w) \/ SubmitRooms(w)
      BY <1>3
    <2>1. UNCHANGED <<db, released, torn>> /\ proc[w] = Idle
      BY DEF SubmitBooking, SubmitRooms, rows, history
    <2>2. ~At(w, "room")
      BY <2>1 DEF At, Idle
    <2>3. \A v \in Workers : v # w => proc'[v] = proc[v]
      <3>1. \E p : Become(w, p)
        BY SubmitStarts
      <3> QED BY <3>1 DEF Become, TypeOK
    <2> QED BY <2>1, <2>2, <2>3, ShelteredQuiet
  <1>4. CASE \E w \in Workers : Crash(w)
    <2> PICK w \in Workers : Crash(w)
      BY <1>4
    <2>1. UNCHANGED <<db, released>>
          /\ torn' = (IF At(w, "room") THEN torn \cup {proc[w].booking} ELSE torn)
          /\ \A v \in Workers : v # w => proc'[v] = proc[v]
      BY DEF Crash, rows, Become, TypeOK
    <2>2. \A r : Marking(b, r) => Marking(b, r)' \/ b \in torn'
      BY <2>1 DEF Marking, At
    <2> QED BY <2>1, <2>2 DEF Sheltered
  <1> QED BY <1>1, <1>2, <1>3, <1>4 DEF Admin, Background

LEMMA ShelteredInvariant == Spec => [](\A b \in Bookings : Sheltered(b))
  <1> DEFINE All == \A b \in Bookings : Sheltered(b)
             Good == \A w \in Workers : Plain(proc[w])
  <1>1. Init => All
    <2> SUFFICES ASSUME Init, NEW b \in Bookings, CheckedIn(db, b)
                 PROVE  db.room[db.booking[b].room].status # "available"
      BY DEF Sheltered
    <2>1. PICK r \in Rooms, early \in SUBSET Bookings : \E guest \in SUBSET early :
            db = [room |-> [x \in Rooms |->
                              [status |-> IF x = r /\ guest # {} THEN "occupied" ELSE "available",
                               active |-> TRUE]],
                  booking |-> [k \in Bookings |->
                                  [status |-> IF k \in guest THEN "checked_in"
                                              ELSE IF k \in early THEN "confirmed" ELSE "absent",
                                   room |-> r]]]
      BY DEF Init
    <2> QED BY <2>1 DEF CheckedIn
  <1>2. All /\ Good /\ TypeOK /\ [Next]_vars => All'
    <2> SUFFICES ASSUME All, Good, TypeOK, [Next]_vars, NEW b \in Bookings
                 PROVE  Sheltered(b)'
      OBVIOUS
    <2>1. CASE Next
      BY <2>1, Steps, ShelteredApi, ShelteredRest
    <2>2. CASE UNCHANGED vars
      BY <2>2 DEF vars, rows, history, Sheltered, Marking, At
    <2> QED BY <2>1, <2>2
  <1> HIDE DEF All, Good
  <1>3. (\A w \in Workers : Plain(proc[w])) => Good
    BY DEF Good
  <1>4. All => \A b \in Bookings : Sheltered(b)
    BY DEF All
  <1> QED BY <1>1, <1>2, <1>3, <1>4, PlainInvariant, TypeCorrect, PTL DEF Spec

\* While a booking is checked in its room is available only if an admin saved it so
\* after the check-in, if the PATCH that checked it in has not come to the room, or if
\* that one's worker died in between (signals.py:48-74).
THEOREM GuestsKeepTheirRooms == Spec => []StayNotOffered
  <1>1. (\A b \in Bookings : Sheltered(b)) => StayNotOffered
    BY DEF Sheltered, Marking, StayNotOffered, Between
  <1> QED BY <1>1, ShelteredInvariant, PTL

(***************************************************************************)
(* Part 4.  The safety that CacheCatchesUp rests on: a list that has caught *)
(* up does not fall back.                                                  *)
(***************************************************************************)

\* The rows change by a write to the primary, which the log is told of, or by a replay.
LEMMA RowsMove ==
    ASSUME [Next]_vars
    PROVE  (\E d : Write(d)) \/ Replay \/ UNCHANGED rows
  <1>1. ASSUME NEW w \in Workers, Api(w) PROVE (\E d : Write(d)) \/ UNCHANGED rows
    <2>1. CASE Insert(w) \/ UpdateSave(w) \/ UpdateRoom(w)
      BY <2>1 DEF Insert, UpdateSave, UpdateRoom
    <2>2. CASE Destroy(w)
      BY <2>2 DEF Destroy
    <2> QED BY <1>1, <2>1, <2>2 DEF Api, CreateCheck, UpdateRead, DestroyRead, Forget
  <1>2. ASSUME Admin PROVE (\E d : Write(d)) \/ UNCHANGED rows
    <2>1. ASSUME NEW w \in Workers, Commit(w) PROVE \E d : Write(d)
      BY <2>1 DEF Commit
    <2> QED BY <1>2, <2>1 DEF Admin, OpenBooking, OpenRooms, SubmitBooking, SubmitRooms
  <1>3. ASSUME Background PROVE Replay \/ UNCHANGED rows
    BY <1>3 DEF Background, Sync, SyncRead, SyncSet, Expire, Crash
  <1> QED BY <1>1, <1>2, <1>3, Steps DEF vars

\* Every list of rooms there is, cached or about to be, and every one the task may
\* still read, is the list of the rooms as they are.
Copies == {Read} \cup {wal[i] : i \in DOMAIN wal}
Lists == {c.list : c \in {x \in {cache, syncing} : x.hit}}
Fresh == {ActiveRooms(d) : d \in Copies} \cup Lists \subseteq {ActiveRooms(db)}

\* The key holds what it held, nothing, or what the task has read; the task, what it
\* had read, nothing, or the rooms of the replica.
LEMMA ListsMove ==
    ASSUME TypeOK, [Next]_vars
    PROVE  /\ cache' \in {cache, Miss, syncing}
           /\ syncing' \in {syncing, Miss, Cached(ActiveRooms(Read))}
  <1>1. ASSUME NEW w \in Workers, Api(w) PROVE cache' \in {cache, Miss} /\ syncing' = syncing
    BY <1>1 DEF Api, CreateCheck, UpdateRead, DestroyRead, Forget, Insert, UpdateSave,
                UpdateRoom, Destroy
  <1>2. ASSUME Admin PROVE cache' \in {cache, Miss} /\ syncing' = syncing
    <2>1. CASE (\E b \in Bookings : OpenBooking(b)) \/ OpenRooms
      BY <2>1 DEF OpenBooking, OpenRooms
    <2>2. ASSUME NEW w \in Workers, SubmitBooking(w)
          PROVE  cache' \in {cache, Miss} /\ syncing' = syncing
      BY <2>2 DEF SubmitBooking, Invalidated
    <2>3. ASSUME NEW w \in Workers, SubmitRooms(w)
          PROVE  cache' \in {cache, Miss} /\ syncing' = syncing
      BY <2>3 DEF SubmitRooms
    <2>4. ASSUME NEW w \in Workers, Commit(w)
          PROVE  cache' \in {cache, Miss} /\ syncing' = syncing
      BY <2>4 DEF Commit
    <2> QED BY <1>2, <2>1, <2>2, <2>3, <2>4 DEF Admin
  <1>3. ASSUME Background
        PROVE  /\ cache' \in {cache, Miss, syncing}
               /\ syncing' \in {syncing, Miss, Cached(ActiveRooms(Read))}
    BY <1>3 DEF Background, Sync, SyncRead, SyncSet, Expire, Replay, Crash
  <1> QED BY <1>1, <1>2, <1>3, Steps DEF vars

LEMMA ListsFresh ==
    ASSUME TypeOK, Fresh, [Next]_vars
    PROVE  Lists' \subseteq {ActiveRooms(db)}
  <1>1. \A x \in {cache, syncing} : x.hit => x.list = ActiveRooms(db)
    BY DEF Fresh, Lists
  <1>2. ActiveRooms(Read) = ActiveRooms(db)
    BY DEF Fresh, Copies
  <1>3. /\ ~Miss.hit
        /\ Cached(ActiveRooms(Read)).list = ActiveRooms(db)
    BY <1>2 DEF Miss, Cached
  <1>4. \A x \in {cache', syncing'} : x.hit => x.list = ActiveRooms(db)
    BY <1>1, <1>3, ListsMove
  <1> QED BY <1>4 DEF Lists

LEMMA CopiesMove ==
    ASSUME TypeOK, TypeOK', [Next]_vars
    PROVE  Copies' \subseteq Copies \cup {db'}
  <1>0. wal \in Seq(Database) /\ db' \in Database
    BY Types DEF Typed, RowsTyped
  <1>1. ASSUME NEW d, Write(d) PROVE Copies' \subseteq Copies \cup {db'}
    <2>1. Read' \in {Read, db'}
      BY <1>1 DEF Write, Read
    <2>2. wal' = wal \/ wal' = Append(wal, db')
      BY <1>1 DEF Write
    <2>3. \A i \in DOMAIN wal' : wal'[i] = db' \/ (i \in DOMAIN wal /\ wal'[i] = wal[i])
      BY <1>0, <2>2
    <2> QED BY <2>1, <2>3 DEF Copies
  <1>2. CASE Replay
    <2>1. wal # <<>> /\ wal' = Tail(wal) /\ replica' = Head(wal) /\ db' = db
      BY <1>2 DEF Replay
    <2>2. Read' \in {Read, wal[1]} /\ 1 \in DOMAIN wal
      BY <1>0, <2>1 DEF Read
    <2>3. \A i \in DOMAIN wal' : i + 1 \in DOMAIN wal /\ wal'[i] = wal[i + 1]
      BY <1>0, <2>1
    <2> QED BY <2>2, <2>3 DEF Copies
  <1>3. CASE UNCHANGED rows
    BY <1>3 DEF rows, Copies, Read
  <1> QED BY <1>1, <1>2, <1>3, RowsMove

\* Once every list is fresh it stays so while no room changes, whatever happens to the
\* bookings, whoever reads or dies, and whenever the task runs: what CacheCatchesUp
\* reaches is not lost again (tasks.py:77-83, signals.py:44).
THEOREM FreshStays ==
    Spec => [][Fresh /\ ActiveRooms(db)' = ActiveRooms(db) => Fresh']_vars
  <1>1. ASSUME TypeOK, TypeOK', [Next]_vars, Fresh, ActiveRooms(db)' = ActiveRooms(db)
        PROVE  Fresh'
    <2>1. Lists' \subseteq {ActiveRooms(db)}
      BY <1>1, ListsFresh
    <2>2. \A d \in Copies : ActiveRooms(d) = ActiveRooms(db)
      BY <1>1 DEF Fresh
    <2>3. Copies' \subseteq Copies \cup {db'}
      BY <1>1, CopiesMove
    <2> QED BY <1>1, <2>1, <2>2, <2>3 DEF Fresh, ActiveRooms
  <1> DEFINE Keeps == Fresh /\ ActiveRooms(db)' = ActiveRooms(db) => Fresh'
  <1>2. TypeOK /\ TypeOK' /\ [Next]_vars => [Keeps]_vars
    BY <1>1
  <1> HIDE DEF Keeps
  <1>3. Spec => [][Keeps]_vars
    BY <1>2, TypeCorrect, PTL DEF Spec
  <1> QED BY <1>3 DEF Keeps
================================================================================
