--------------------------- MODULE ServiceDeskProofs ---------------------------
(***************************************************************************)
(* Proofs about ServiceDesk, for any number of requests, users, workers,   *)
(* calls and crashes, with or without a replica.                           *)
(***************************************************************************)
EXTENDS ServiceDesk, SequenceTheorems, TLAPS

(***************************************************************************)
(* Part 1.  Every variable keeps its type.                                 *)
(***************************************************************************)

\* A call that is not idle is a record of a call.
LEMMA Handled ==
    ASSUME NEW c \in {Idle} \cup Handling, c.pc # "idle"
    PROVE  /\ c \in Handling
           /\ c.request \in Requests /\ c.user \in Users
           /\ c.id \in 1..MaxCalls /\ c.id \in Nat /\ c.row \in Row
  BY BoundAssumption DEF Idle, Handling

\* A row stays a row under each of the edits the views make.
LEMMA Edits ==
    ASSUME NEW row \in Row, NEW c \in Handling
    PROVE  /\ Assigned(row, c) \in Row
           /\ Completed(row, c) \in Row
           /\ [row EXCEPT !.exists = FALSE] \in Row
           /\ \A s \in {c.row.status, "in_progress"} : [c.row EXCEPT !.status = s] \in Row
  <1>1. c.user \in Users /\ c.id \in Nat /\ c.row \in Row
    BY DEF Handling
  <1>2. Assigned(row, c) \in Row
    BY <1>1 DEF Assigned, Row, Status
  <1>3. Completed(row, c) \in Row
    BY <1>1 DEF Completed, Row, Status
  <1>4. [row EXCEPT !.exists = FALSE] \in Row
    BY DEF Row
  <1>5. \A s \in {c.row.status, "in_progress"} : [c.row EXCEPT !.status = s] \in Row
    BY <1>1 DEF Row, Status
  <1> QED BY <1>2, <1>3, <1>4, <1>5

\* A write keeps the types of the primary, the log and the replica.
LEMMA WriteTyped ==
    ASSUME TypeOK, NEW q \in Requests, NEW row \in Row, Write(q, row)
    PROVE  /\ db' \in [Requests -> Row]
           /\ wal' \in [Requests -> Seq(Row)]
           /\ replica' \in [Requests -> Row]
  <1>1. db' \in [Requests -> Row] /\ replica' \in [Requests -> Row]
    BY DEF TypeOK, Write
  <1>2. Append(wal[q], row) \in Seq(Row)
    BY DEF TypeOK
  <1>3. wal' \in [Requests -> Seq(Row)]
    BY <1>2 DEF TypeOK, Write
  <1> QED BY <1>1, <1>3

\* A call that begins keeps its type, and touches nothing else.
LEMMA BeginTyped ==
    ASSUME TypeOK, NEW w \in Workers, NEW u \in Users, NEW q \in Requests,
           NEW pc \in {"assign", "complete", "overwrite", "destroy"},
           NEW allowed, NEW row \in Row, Begin(w, pc, u, q, allowed, row)
    PROVE  TypeOK'
  <1> DEFINE c == [pc |-> pc, request |-> q, user |-> u, id |-> begun + 1, row |-> row]
  <1>1. begun' \in 0..MaxCalls /\ begun + 1 \in 1..MaxCalls
    BY BoundAssumption DEF Begin, TypeOK
  <1>2. c \in Handling
    BY <1>1 DEF Handling
  <1>3. call' = [call EXCEPT ![w] = c] \/ call' = call
    BY DEF Begin
  <1>4. call' \in [Workers -> {Idle} \cup Handling]
    BY <1>2, <1>3 DEF TypeOK
  <1> QED BY <1>1, <1>4 DEF Begin, TypeOK, rows, events, saves

LEMMA InitTyped == Init => TypeOK
  <1> SUFFICES ASSUME Init PROVE TypeOK
    OBVIOUS
  <1>1. Filed \in Row
    BY DEF Filed, Row, Status
  <1>2. <<>> \in Seq(Row) /\ <<>> \in Seq(Nat)
    OBVIOUS
  <1> QED BY <1>1, <1>2, BoundAssumption DEF Init, TypeOK

LEMMA RouteTyped ==
    ASSUME TypeOK, NEW w \in Workers, Route(w)
    PROVE  TypeOK'
  <1> PICK u \in Users, q \in Requests :
         \/ AssignRead(w, u, q) \/ CompleteRead(w, u, q)
         \/ OverwriteRead(w, u, q) \/ DestroyRead(w, u, q)
    BY DEF Route
  <1>1. Read(q) \in Row /\ Filed \in Row
    BY DEF Read, TypeOK, Filed, Row, Status
  <1>2. CASE AssignRead(w, u, q)
    BY <1>1, <1>2, BeginTyped DEF AssignRead
  <1>3. CASE CompleteRead(w, u, q)
    BY <1>1, <1>3, BeginTyped DEF CompleteRead
  <1>4. CASE OverwriteRead(w, u, q)
    BY <1>1, <1>4, BeginTyped DEF OverwriteRead
  <1>5. CASE DestroyRead(w, u, q)
    BY <1>1, <1>5, BeginTyped DEF DestroyRead
  <1> QED BY <1>2, <1>3, <1>4, <1>5

\* Ending a call, and completing one, keep the type of the calls.
LEMMA CallTyped ==
    ASSUME TypeOK, NEW w \in Workers
    PROVE  /\ Respond(w) => call' \in [Workers -> {Idle} \cup Handling]
           /\ At(w, "complete") /\ call' = [call EXCEPT ![w].pc = "tell"]
                => call' \in [Workers -> {Idle} \cup Handling]
  <1>1. Respond(w) => call' \in [Workers -> {Idle} \cup Handling]
    BY DEF Respond, TypeOK
  <1>2. ASSUME At(w, "complete"), call' = [call EXCEPT ![w].pc = "tell"]
        PROVE  call' \in [Workers -> {Idle} \cup Handling]
    <2>1. call[w] \in Handling
      BY <1>2, Handled DEF At, TypeOK
    <2>2. [call[w] EXCEPT !.pc = "tell"] \in Handling
      BY <2>1 DEF Handling
    <2> QED BY <1>2, <2>2 DEF TypeOK
  <1> QED BY <1>1, <1>2

\* The notification of a completion is an event.
LEMMA NotificationTyped ==
    ASSUME NEW c \in Handling
    PROVE  Notification(c) \in Event
  BY UsersAssumption DEF Notification, Event, Handling

LEMMA ContinueTyped ==
    ASSUME TypeOK, NEW w \in Workers, Continue(w)
    PROVE  TypeOK'
  <1> DEFINE c == call[w]  q == c.request
  <1>1. CASE AssignSave(w)
    <2>1. c \in Handling /\ q \in Requests /\ c.id \in Nat
      BY <1>1, Handled DEF AssignSave, At, TypeOK
    <2>2. Assigned(db[q], c) \in Row
      BY <2>1, Edits DEF TypeOK
    <2>3. /\ db' \in [Requests -> Row] /\ wal' \in [Requests -> Seq(Row)]
          /\ replica' \in [Requests -> Row]
      BY <1>1, <2>1, <2>2, WriteTyped DEF AssignSave, rows, TypeOK
    <2>4. assigned' \in [Requests -> Nat]
      BY <1>1, <2>1 DEF AssignSave, TypeOK
    <2>5. call' \in [Workers -> {Idle} \cup Handling]
      BY <1>1, CallTyped DEF AssignSave
    <2> QED BY <1>1, <2>3, <2>4, <2>5 DEF AssignSave, TypeOK, events
  <1>2. CASE CompleteSave(w)
    <2>1. c \in Handling /\ q \in Requests /\ c.id \in Nat
      BY <1>2, Handled DEF CompleteSave, At, TypeOK
    <2>2. Completed(db[q], c) \in Row
      BY <2>1, Edits DEF TypeOK
    <2>3. /\ db' \in [Requests -> Row] /\ wal' \in [Requests -> Seq(Row)]
          /\ replica' \in [Requests -> Row]
      BY <1>2, <2>1, <2>2, WriteTyped DEF CompleteSave, rows, TypeOK
    <2>4. Append(completed[q], c.id) \in Seq(Nat)
      BY <2>1 DEF TypeOK
    <2>5. completed' \in [Requests -> Seq(Nat)]
      BY <1>2, <2>4 DEF CompleteSave, TypeOK
    <2>6. call' \in [Workers -> {Idle} \cup Handling]
      BY <1>2, CallTyped DEF CompleteSave
    <2> QED BY <1>2, <2>3, <2>5, <2>6 DEF CompleteSave, TypeOK, events
  <1>3. CASE Tell(w)
    <2>1. c \in Handling /\ c.id \in Nat
      BY <1>3, Handled DEF Tell, At, TypeOK
    <2>2. Notification(c) \in Event
      BY <2>1, NotificationTyped
    <2>3. buffer' \in [Workers -> SUBSET Event]
      BY <1>3, <2>2 DEF Tell, TypeOK
    <2>4. lost' \subseteq Event
      BY <1>3, <2>2 DEF Tell, TypeOK
    <2>5. call' \in [Workers -> {Idle} \cup Handling]
      BY <1>3, CallTyped DEF Tell
    <2> QED BY <1>3, <2>3, <2>4, <2>5 DEF Tell, TypeOK, rows, saves
  <1>4. CASE OverwriteSave(w)
    <2>1. c \in Handling /\ q \in Requests
      BY <1>4, Handled DEF OverwriteSave, At, TypeOK
    <2>2. PICK s \in {c.row.status, "in_progress"} : Write(q, [c.row EXCEPT !.status = s])
      BY <1>4 DEF OverwriteSave
    <2>3. [c.row EXCEPT !.status = s] \in Row
      BY <2>1, Edits DEF TypeOK
    <2>4. /\ db' \in [Requests -> Row] /\ wal' \in [Requests -> Seq(Row)]
          /\ replica' \in [Requests -> Row]
      BY <2>1, <2>2, <2>3, WriteTyped
    <2>5. call' \in [Workers -> {Idle} \cup Handling]
      BY <1>4, CallTyped DEF OverwriteSave
    <2>6. whole' \subseteq Requests
      BY <1>4, <2>1 DEF OverwriteSave, TypeOK
    <2> QED BY <1>4, <2>4, <2>5, <2>6 DEF OverwriteSave, TypeOK, events
  <1>5. CASE Destroy(w)
    <2>1. c \in Handling /\ q \in Requests
      BY <1>5, Handled DEF Destroy, At, TypeOK
    <2>2. [db[q] EXCEPT !.exists = FALSE] \in Row
      BY <2>1, Edits DEF TypeOK
    <2>3. /\ db' \in [Requests -> Row] /\ wal' \in [Requests -> Seq(Row)]
          /\ replica' \in [Requests -> Row]
      BY <1>5, <2>1, <2>2, WriteTyped DEF Destroy, rows, TypeOK
    <2>4. call' \in [Workers -> {Idle} \cup Handling]
      BY <1>5, CallTyped DEF Destroy
    <2>5. whole' \subseteq Requests
      BY <1>5, <2>1 DEF Destroy, TypeOK
    <2> QED BY <1>5, <2>3, <2>4, <2>5 DEF Destroy, TypeOK, events
  <1> QED BY <1>1, <1>2, <1>3, <1>4, <1>5 DEF Continue

LEMMA CrashTyped ==
    ASSUME TypeOK, NEW w \in Workers, Crash(w)
    PROVE  TypeOK'
  <1>1. At(w, "tell") => Notification(call[w]) \in Event
    BY Handled, NotificationTyped DEF At, TypeOK
  <1>2. lost' \subseteq Event
    BY <1>1 DEF Crash, TypeOK
  <1>3. call' \in [Workers -> {Idle} \cup Handling]
    BY CallTyped DEF Crash
  <1>4. buffer' \in [Workers -> SUBSET Event] /\ crashes' \in Nat
    BY DEF Crash, TypeOK
  <1> QED BY <1>2, <1>3, <1>4 DEF Crash, TypeOK, rows, saves

\* The producers, Kafka, the consumer and the replica keep every type as well.
Delivery == \/ \E w \in Workers : Drain(w)
            \/ Consume \/ ConsumerCrash
            \/ \E q \in Requests : Replay(q)

\* What the consumer has in hand is a record of it.
LEMMA InHand ==
    ASSUME TypeOK, hand # Nothing
    PROVE  hand \in Processing /\ hand.event \in Event
  BY DEF TypeOK, Processing

LEMMA DeliveryTyped ==
    ASSUME TypeOK, Delivery
    PROVE  TypeOK'
  <1>1. ASSUME NEW w \in Workers, Deliver(w) PROVE TypeOK'
    BY <1>1 DEF Deliver, TypeOK, rows, saves
  <1>7. ASSUME NEW w \in Workers, DeliveryFails(w) PROVE TypeOK'
    BY <1>7 DEF DeliveryFails, TypeOK, rows, saves
  <1>2. CASE Poll
    <2>1. PICK e \in broker : hand' = [phase |-> "handle", event |-> e]
      BY <1>2 DEF Poll
    <2>2. [phase |-> "handle", event |-> e] \in Processing
      BY DEF Processing, TypeOK
    <2> QED BY <1>2, <2>1, <2>2 DEF Poll, TypeOK, rows, saves
  <1>3. CASE Handle \/ GiveUp
    <2>1. hand \in Processing /\ hand.event \in Event
      BY <1>3, InHand DEF Handle, GiveUp, Nothing
    <2>2. [hand EXCEPT !.phase = "commit"] \in Processing
      BY <2>1 DEF Processing
    <2> QED BY <1>3, <2>1, <2>2 DEF Handle, GiveUp, TypeOK, rows, saves
  <1>4. CASE CommitOffset
    BY <1>4 DEF CommitOffset, TypeOK, rows, saves
  <1>6. CASE ConsumerCrash
    BY <1>6 DEF ConsumerCrash, TypeOK, rows, saves
  <1>5. ASSUME NEW q \in Requests, Replay(q) PROVE TypeOK'
    <2>1. wal[q] \in Seq(Row) /\ wal[q] # <<>>
      BY <1>5 DEF Replay, TypeOK
    <2>2. Head(wal[q]) \in Row /\ Tail(wal[q]) \in Seq(Row)
      BY <2>1, HeadTailProperties
    <2> QED BY <1>5, <2>2 DEF Replay, TypeOK, events, saves
  <1> QED BY <1>1, <1>2, <1>3, <1>4, <1>5, <1>6, <1>7 DEF Delivery, Drain, Consume

\* The cases of Next, for every proof that follows.
LEMMA Steps ==
    ASSUME Next
    PROVE  \/ \E w \in Workers : Route(w) \/ Continue(w) \/ Crash(w)
           \/ Delivery
  BY DEF Next, Delivery

\* Every variable keeps its type: whatever a view, the admin, a crash, the consumer or
\* the replica does, a row has one of the five statuses, and what is in hand is a call
\* or an event of the code (core/models.py:197-224).
THEOREM TypeCorrect == Spec => []TypeOK
  <1>1. TypeOK /\ [Next]_vars => TypeOK'
    <2> SUFFICES ASSUME TypeOK, [Next]_vars PROVE TypeOK'
      OBVIOUS
    <2>1. CASE Next
      BY <2>1, Steps, RouteTyped, ContinueTyped, CrashTyped, DeliveryTyped
    <2>2. CASE UNCHANGED vars
      BY <2>2 DEF vars, rows, events, saves, TypeOK
    <2> QED BY <2>1, <2>2
  <1> QED BY <1>1, InitTyped, PTL DEF Spec

(***************************************************************************)
(* Part 2.  assign and complete do not undo each other.                    *)
(***************************************************************************)

\* The only steps that touch the rows of the primary, or what is remembered of the
\* saves, are the five writes of the views and the admin.
LEMMA OnlySavesWrite ==
    ASSUME Next
    PROVE  \/ \E w \in Workers : \/ AssignSave(w) \/ CompleteSave(w)
                                 \/ OverwriteSave(w) \/ Destroy(w)
           \/ UNCHANGED <<db, assigned, completed, whole>>
  <1>1. ASSUME NEW w \in Workers, Route(w)
        PROVE  UNCHANGED <<db, assigned, completed, whole>>
    BY <1>1 DEF Route, AssignRead, CompleteRead, OverwriteRead, DestroyRead, Begin, rows, saves
  <1>2. ASSUME NEW w \in Workers, Tell(w) \/ Crash(w) \/ Drain(w)
        PROVE  UNCHANGED <<db, assigned, completed, whole>>
    BY <1>2 DEF Tell, Crash, Drain, Deliver, DeliveryFails, rows, saves
  <1>3. ASSUME Consume \/ ConsumerCrash
        PROVE  UNCHANGED <<db, assigned, completed, whole>>
    BY <1>3 DEF Consume, Poll, Handle, GiveUp, CommitOffset, ConsumerCrash, rows, saves
  <1>4. ASSUME NEW q \in Requests, Replay(q)
        PROVE  UNCHANGED <<db, assigned, completed, whole>>
    BY <1>4 DEF Replay, saves
  <1> QED BY <1>1, <1>2, <1>3, <1>4 DEF Next, Continue

\* The completion saved last is the one appended last.
LEMMA LastAppended ==
    ASSUME NEW s \in Seq(Nat), NEW n \in Nat
    PROVE  /\ Append(s, n) # <<>>
           /\ Append(s, n)[Len(Append(s, n))] = n
  OBVIOUS

AssigneeAt(q) == q \notin whole => db[q].assignedBy = assigned[q]
CompletionAt(q) ==
    q \notin whole => db[q].completedAt = LastCompletion(q) /\ db[q].notes = LastCompletion(q)

\* What a save does to the request it is about, and that it leaves the others alone.
LEMMA AssignKeeps ==
    ASSUME TypeOK, NEW w \in Workers, AssignSave(w), NEW q \in Requests,
           AssigneeAt(q), CompletionAt(q)
    PROVE  AssigneeAt(q)' /\ CompletionAt(q)'
  <1> DEFINE c == call[w]  r == c.request
  <1>1. c \in Handling /\ r \in Requests
    BY Handled DEF AssignSave, At, TypeOK
  <1>2. db[r] \in Row
    BY <1>1 DEF TypeOK
  <1>3. whole' = whole /\ completed' = completed
    BY DEF AssignSave
  <1>4. CASE db[r].exists /\ q = r
    <2>1. db'[q] = Assigned(db[q], c) /\ assigned'[q] = c.id
      BY <1>1, <1>4 DEF AssignSave, Write, TypeOK
    <2>2. /\ db'[q].assignedBy = c.id
          /\ db'[q].completedAt = db[q].completedAt /\ db'[q].notes = db[q].notes
      BY <1>2, <1>4, <2>1 DEF Assigned, Row
    <2> QED BY <1>3, <2>1, <2>2 DEF AssigneeAt, CompletionAt, LastCompletion
  <1>5. CASE ~(db[r].exists /\ q = r)
    <2>1. db'[q] = db[q] /\ assigned'[q] = assigned[q]
      BY <1>1, <1>5 DEF AssignSave, Write, TypeOK, rows
    <2> QED BY <1>3, <2>1 DEF AssigneeAt, CompletionAt, LastCompletion
  <1> QED BY <1>4, <1>5

LEMMA CompleteKeeps ==
    ASSUME TypeOK, NEW w \in Workers, CompleteSave(w), NEW q \in Requests,
           AssigneeAt(q), CompletionAt(q)
    PROVE  AssigneeAt(q)' /\ CompletionAt(q)'
  <1> DEFINE c == call[w]  r == c.request
  <1>1. c \in Handling /\ r \in Requests /\ c.id \in Nat
    BY Handled DEF CompleteSave, At, TypeOK
  <1>2. db[r] \in Row /\ completed[r] \in Seq(Nat)
    BY <1>1 DEF TypeOK
  <1>3. whole' = whole /\ assigned' = assigned
    BY DEF CompleteSave
  <1>4. CASE db[r].exists /\ q = r
    <2>1. db'[q] = Completed(db[q], c) /\ completed'[q] = Append(completed[q], c.id)
      BY <1>1, <1>4 DEF CompleteSave, Write, TypeOK
    <2>2. /\ db'[q].completedAt = c.id /\ db'[q].notes = c.id
          /\ db'[q].assignedBy = db[q].assignedBy
      BY <1>2, <1>4, <2>1 DEF Completed, Row
    <2>3. completed[q] \in Seq(Nat) /\ c.id \in Nat
      BY <1>1, <1>2, <1>4
    <2>4. LastCompletion(q)' = c.id
      BY <2>1, <2>3, LastAppended DEF LastCompletion
    <2> QED BY <1>3, <2>2, <2>4 DEF AssigneeAt, CompletionAt
  <1>5. CASE ~(db[r].exists /\ q = r)
    <2>1. db'[q] = db[q] /\ completed'[q] = completed[q]
      BY <1>1, <1>5 DEF CompleteSave, Write, TypeOK, rows
    <2> QED BY <1>3, <2>1 DEF AssigneeAt, CompletionAt, LastCompletion
  <1> QED BY <1>4, <1>5

LEMMA WholeKeeps ==
    ASSUME TypeOK, NEW w \in Workers, OverwriteSave(w) \/ Destroy(w), NEW q \in Requests,
           AssigneeAt(q), CompletionAt(q)
    PROVE  AssigneeAt(q)' /\ CompletionAt(q)'
  <1> DEFINE r == call[w].request
  <1>1. r \in Requests
    BY Handled DEF OverwriteSave, Destroy, At, TypeOK
  <1>2. whole' = whole \cup {r} /\ assigned' = assigned /\ completed' = completed
    BY DEF OverwriteSave, Destroy
  <1>3. q # r => db'[q] = db[q]
    BY <1>1 DEF OverwriteSave, Destroy, Write, TypeOK, rows
  <1> QED BY <1>2, <1>3 DEF AssigneeAt, CompletionAt, LastCompletion

LEMMA KeptStep ==
    ASSUME TypeOK, [Next]_vars, NEW q \in Requests, AssigneeAt(q), CompletionAt(q)
    PROVE  AssigneeAt(q)' /\ CompletionAt(q)'
  <1>1. CASE UNCHANGED <<db, assigned, completed, whole>>
    BY <1>1 DEF AssigneeAt, CompletionAt, LastCompletion
  <1>2. CASE UNCHANGED vars
    BY <1>1, <1>2 DEF vars, rows, saves
  <1>3. CASE Next
    <2>1. ASSUME NEW w \in Workers, AssignSave(w) PROVE AssigneeAt(q)' /\ CompletionAt(q)'
      BY <2>1, AssignKeeps
    <2>2. ASSUME NEW w \in Workers, CompleteSave(w) PROVE AssigneeAt(q)' /\ CompletionAt(q)'
      BY <2>2, CompleteKeeps
    <2>3. ASSUME NEW w \in Workers, OverwriteSave(w) \/ Destroy(w)
          PROVE  AssigneeAt(q)' /\ CompletionAt(q)'
      BY <2>3, WholeKeeps
    <2> QED BY <1>1, <1>3, <2>1, <2>2, <2>3, OnlySavesWrite
  <1> QED BY <1>2, <1>3

LEMMA KeptInvariant == Spec => []((AssigneeKept /\ CompletionKept) /\ TypeOK)
  <1> DEFINE Kept == \A q \in Requests : AssigneeAt(q) /\ CompletionAt(q)
  <1>1. Init => Kept
    <2> SUFFICES ASSUME Init, NEW q \in Requests PROVE AssigneeAt(q) /\ CompletionAt(q)
      OBVIOUS
    <2>1. db[q] = Filed /\ assigned[q] = 0 /\ completed[q] = <<>>
      BY DEF Init
    <2>2. Filed.assignedBy = 0 /\ Filed.completedAt = 0 /\ Filed.notes = 0
      BY DEF Filed
    <2>3. LastCompletion(q) = 0
      BY <2>1 DEF LastCompletion
    <2> QED BY <2>1, <2>2, <2>3 DEF AssigneeAt, CompletionAt
  <1>2. Kept /\ TypeOK /\ [Next]_vars => Kept'
    BY KeptStep
  <1>3. Kept => AssigneeKept /\ CompletionKept
    BY DEF AssigneeAt, CompletionAt, AssigneeKept, CompletionKept
  <1> HIDE DEF Kept
  <1> QED BY <1>1, <1>2, <1>3, TypeCorrect, PTL DEF Spec

\* However old the row an assign or a complete has read, the assignee of a request is
\* the one saved last, unless the row was saved whole (views/main.py:328-330).
THEOREM AssigneeStays == Spec => []AssigneeKept
  BY KeptInvariant, PTL

\* And completed_at and notes are those of the completion saved last
\* (views/main.py:342-345).
THEOREM CompletionStays == Spec => []CompletionKept
  BY KeptInvariant, PTL

(***************************************************************************)
(* Part 3.  What the desk owes its guests.  GuestNotices keeps the books:   *)
(* what was saved is what is owed, told or lost, and nothing else.  The     *)
(* desk implements it, so its notifications are true, go to the right      *)
(* guest and are not forgotten.                                            *)
(***************************************************************************)

Accounted == Completions = Underway \cup pushed \cup lost

\* Whoever implements GuestNotices owes, has told or has lost exactly what was saved.
THEOREM BooksBalance == Notices!Spec => []Accounted
  <1> USE DEF Accounted
  <1>1. Notices!Init => Accounted
    BY DEF Notices!Init
  <1>2. Accounted /\ [Notices!Next]_Notices!vars => Accounted'
    <2> SUFFICES ASSUME Accounted, [Notices!Next]_Notices!vars PROVE Accounted'
      OBVIOUS
    <2>1. ASSUME NEW n, Notices!Save(n) PROVE Accounted'
      BY <2>1 DEF Notices!Save
    <2>2. ASSUME NEW n, Notices!Tell(n) PROVE Accounted'
      BY <2>2 DEF Notices!Tell
    <2>3. ASSUME NEW n, Notices!Settle(n) PROVE Accounted'
      BY <2>3 DEF Notices!Settle
    <2>4. ASSUME NEW S \in SUBSET Underway, Notices!Lose(S) PROVE Accounted'
      <3>1. PICK gone \in SUBSET S : Underway' = Underway \ gone
        BY <2>4 DEF Notices!Lose
      <3> QED BY <2>4, <3>1 DEF Notices!Lose
    <2>5. CASE UNCHANGED Notices!vars
      BY <2>5 DEF Notices!vars
    <2> QED BY <2>1, <2>2, <2>3, <2>4, <2>5 DEF Notices!Next
  <1> HIDE DEF Accounted
  <1> QED BY <1>1, <1>2, PTL DEF Notices!Spec

\* The consumer holds nothing that did not come from the broker, and is about to
\* commit nothing it has not handled or given up on.
HandTracked ==
    /\ hand # Nothing => hand.event \in broker
    /\ hand.phase = "commit" => hand.event \in pushed \cup lost

LEMMA HandTrackedStep ==
    ASSUME TypeOK, HandTracked, [Next]_vars
    PROVE  HandTracked'
  <1>1. CASE broker \subseteq broker' /\ pushed \subseteq pushed' /\ lost \subseteq lost' /\ hand' = hand
    BY <1>1 DEF HandTracked, Nothing
  <1>2. ASSUME NEW w \in Workers, Route(w) \/ Continue(w) \/ Crash(w) \/ Drain(w)
        PROVE  HandTracked'
    <2>1. CASE Route(w)
      BY <1>1, <2>1 DEF Route, AssignRead, CompleteRead, OverwriteRead, DestroyRead, Begin, events
    <2>2. CASE Continue(w)
      BY <1>1, <2>2 DEF Continue, AssignSave, CompleteSave, Tell, OverwriteSave, Destroy, events
    <2>3. CASE Crash(w) \/ Drain(w)
      BY <1>1, <2>3 DEF Crash, Drain, Deliver, DeliveryFails
    <2> QED BY <1>2, <2>1, <2>2, <2>3
  <1>3. CASE Poll
    BY <1>3 DEF Poll, HandTracked, Nothing
  <1>4. CASE Handle \/ GiveUp
    <2>1. hand \in Processing /\ hand # Nothing
      BY <1>4, InHand DEF Handle, GiveUp, Nothing
    <2>2. hand'.event = hand.event
      BY <1>4, <2>1 DEF Handle, GiveUp, Processing
    <2> QED BY <1>4, <2>1, <2>2 DEF Handle, GiveUp, HandTracked
  <1>5. CASE CommitOffset \/ ConsumerCrash
    BY <1>5 DEF CommitOffset, ConsumerCrash, HandTracked, Nothing
  <1>6. ASSUME NEW q \in Requests, Replay(q) PROVE HandTracked'
    BY <1>1, <1>6 DEF Replay, events
  <1>7. CASE UNCHANGED vars
    BY <1>1, <1>7 DEF vars, events
  <1> QED BY <1>2, <1>3, <1>4, <1>5, <1>6, <1>7 DEF Next, Consume

\* What a worker that is about to tell has under way.
Announced == {Notice(call[w].request, call[w].id) : w \in Telling}

LEMMA NoticeOf ==
    ASSUME NEW c
    PROVE  Notification(c) = Notice(c.request, c.id)
  BY DEF Notification, Notice

\* A step that moves no event, saves no completion, and neither begins nor ends the
\* telling of a worker is none of GuestNotices'.
LEMMA Still ==
    ASSUME UNCHANGED <<completed, pushed, lost>>,
           Queued' \cup broker' = Queued \cup broker,
           \A w \in Workers : /\ At(w, "tell")' <=> At(w, "tell")
                              /\ At(w, "tell") => call'[w] = call[w]
    PROVE  UNCHANGED Notices!vars
  <1>1. Completions' = Completions
    BY DEF Completions, Saved
  <1>2. Telling' = Telling /\ \A w \in Telling : call'[w] = call[w]
    BY DEF Telling
  <1>3. Announced' = Announced
    BY <1>2 DEF Announced
  <1>4. Underway' = Underway
    BY <1>3 DEF Underway, Announced
  <1> QED BY <1>1, <1>4 DEF Notices!vars

\* A view that looks its request up, or saves no completion, changes no account.
LEMMA QuietStill ==
    ASSUME TypeOK, NEW w \in Workers,
           Route(w) \/ AssignSave(w) \/ OverwriteSave(w) \/ Destroy(w)
    PROVE  UNCHANGED Notices!vars
  <1>1. UNCHANGED <<completed, buffer, broker, pushed, lost>>
    BY DEF Route, AssignRead, CompleteRead, OverwriteRead, DestroyRead, Begin,
           AssignSave, OverwriteSave, Destroy, events, saves
  <1>2. ~At(w, "tell") /\ ~At(w, "tell")' /\ \A v \in Workers \ {w} : call'[v] = call[v]
    <2>1. CASE Route(w)
      BY <2>1 DEF Route, AssignRead, CompleteRead, OverwriteRead, DestroyRead, Begin, At,
                  Idle, TypeOK
    <2>2. CASE AssignSave(w) \/ OverwriteSave(w) \/ Destroy(w)
      BY <2>2 DEF AssignSave, OverwriteSave, Destroy, Respond, At, Idle, TypeOK
    <2> QED BY <2>1, <2>2
  <1>3. \A v \in Workers : /\ At(v, "tell")' <=> At(v, "tell")
                           /\ At(v, "tell") => call'[v] = call[v]
    BY <1>2 DEF At
  <1>4. Queued' = Queued
    BY <1>1 DEF Queued
  <1> QED BY <1>1, <1>3, <1>4, Still

\* What was saved as completed stays saved, and nothing is added but the completion a
\* call saves.
LEMMA SavedGrows ==
    ASSUME NEW s \in Seq(Nat), NEW n \in Nat
    PROVE  {Append(s, n)[i] : i \in DOMAIN Append(s, n)} = {s[i] : i \in DOMAIN s} \cup {n}
  <1> DEFINE t == Append(s, n)
  <1>1. DOMAIN t = DOMAIN s \cup {Len(s) + 1} /\ t[Len(s) + 1] = n
    OBVIOUS
  <1>2. \A i \in DOMAIN s : t[i] = s[i]
    OBVIOUS
  <1> HIDE DEF t
  <1>3. {t[i] : i \in DOMAIN t} = {s[i] : i \in DOMAIN s} \cup {n}
    BY <1>1, <1>2
  <1> QED BY <1>3 DEF t

\* A completion that is saved is owed from then on: the worker has it.
LEMMA CompleteSaves ==
    ASSUME TypeOK, NEW w \in Workers, CompleteSave(w)
    PROVE  [Notices!Next]_Notices!vars
  <1>1. call[w] \in Handling /\ call[w].request \in Requests /\ call[w].id \in Nat
    BY Handled DEF CompleteSave, At, TypeOK
  <1> PICK r \in Requests, k \in Nat : call[w].request = r /\ call[w].id = k
    BY <1>1
  <1> DEFINE n == Notice(r, k)
  <1>2. UNCHANGED <<buffer, broker, pushed, lost>>
    BY DEF CompleteSave, events
  <1>3. Queued' = Queued
    BY <1>2 DEF Queued
  <1>4. CASE db[r].exists
    <2>1. completed' = [completed EXCEPT ![r] = Append(@, k)]
      BY <1>4 DEF CompleteSave
    <2>2. completed \in [Requests -> Seq(Nat)]
      BY DEF TypeOK
    <2>3. Saved(r)' = Saved(r) \cup {k}
      <3>1. PICK s : s = completed[r]
        OBVIOUS
      <3>2. s \in Seq(Nat) /\ completed'[r] = Append(s, k)
        BY <2>1, <2>2, <3>1
      <3>3. {Append(s, k)[i] : i \in DOMAIN Append(s, k)}
              = {s[i] : i \in DOMAIN s} \cup {k}
        BY <3>2, SavedGrows
      <3>4. Saved(r) = {s[i] : i \in DOMAIN s}
        BY <3>1 DEF Saved
      <3>5. Saved(r)' = {Append(s, k)[i] : i \in DOMAIN Append(s, k)}
        BY <3>2 DEF Saved
      <3> QED BY <3>3, <3>4, <3>5
    <2>4. \A q \in Requests \ {r} : Saved(q)' = Saved(q)
      BY <2>1, <2>2 DEF Saved
    <2>5. Completions' = Completions \cup {n}
      <3>1. \A e : e \in Completions <=> \E q \in Requests : \E m \in Saved(q) : e = Notice(q, m)
        BY DEF Completions
      <3>2. \A e : e \in Completions' <=> \E q \in Requests : \E m \in Saved(q)' : e = Notice(q, m)
        BY DEF Completions
      <3>3. \A e : e \in Completions' <=> e \in Completions \/ e = n
        BY <2>3, <2>4, <3>1, <3>2
      <3> QED BY <3>3
    <2>6. call' = [call EXCEPT ![w].pc = "tell"]
      BY <1>4 DEF CompleteSave
    <2>7. /\ call'[w].pc = "tell" /\ call'[w].request = r /\ call'[w].id = k
          /\ \A v \in Workers \ {w} : call'[v] = call[v]
      BY <1>1, <2>6 DEF TypeOK, Handling
    <2>8. Telling' = Telling \cup {w} /\ w \notin Telling
      BY <2>7 DEF Telling, At, CompleteSave
    <2>9. Announced' = Announced \cup {n}
      BY <2>7, <2>8 DEF Announced, Telling
    <2>10. Underway' = Underway \cup {n}
      BY <1>2, <1>3, <2>9 DEF Underway, Announced
    <2>11. Notices!Save(n)
      BY <1>2, <2>5, <2>10 DEF Notices!Save
    <2>12. n \in Event
      BY <1>1, NotificationTyped, NoticeOf
    <2> QED BY <2>11, <2>12 DEF Notices!Next
  <1>5. CASE ~db[r].exists
    <2>1. Respond(w) /\ completed' = completed
      BY <1>5 DEF CompleteSave
    <2>2. \A v \in Workers : /\ At(v, "tell")' <=> At(v, "tell")
                             /\ At(v, "tell") => call'[v] = call[v]
      BY <2>1 DEF CompleteSave, Respond, At, Idle, TypeOK
    <2> QED BY <1>2, <1>3, <2>1, <2>2, Still
  <1> QED BY <1>4, <1>5

\* The worker hands the completion to its producer, or the producer refuses it.
LEMMA Tells ==
    ASSUME TypeOK, NEW w \in Workers, Tell(w)
    PROVE  [Notices!Next]_Notices!vars
  <1> PICK n : n = Notice(call[w].request, call[w].id)
    OBVIOUS
  <1>1. At(w, "tell") /\ n = Notification(call[w])
    BY NoticeOf DEF Tell
  <1>2. UNCHANGED <<completed, broker, pushed>> /\ Respond(w)
    BY DEF Tell, saves
  <1>3. Completions' = Completions
    BY <1>2 DEF Completions, Saved
  <1>4. Telling' = Telling \ {w} /\ w \in Telling /\ \A v \in Telling \ {w} : call'[v] = call[v]
    BY <1>1, <1>2 DEF Telling, Respond, At, Idle, TypeOK
  <1>5. n \in Announced /\ Announced' \subseteq Announced /\ Announced \subseteq Announced' \cup {n}
    BY <1>4 DEF Announced
  <1>6. CASE buffer' = [buffer EXCEPT ![w] = @ \cup {n}] /\ lost' = lost
    <2>1. Queued' = Queued \cup {n}
      BY <1>6 DEF Queued, TypeOK
    <2>2. Underway' = Underway
      BY <1>2, <1>5, <2>1 DEF Underway, Announced
    <2> QED BY <1>2, <1>3, <1>6, <2>2 DEF Notices!vars
  <1>7. CASE lost' = lost \cup {n} /\ buffer' = buffer
    <2>1. Queued' = Queued
      BY <1>7 DEF Queued
    <2>2. n \in Underway /\ Underway' \subseteq Underway /\ Underway \subseteq Underway' \cup {n}
      BY <1>2, <1>5, <2>1 DEF Underway, Announced
    <2>3. Underway \ Underway' \in SUBSET {n} /\ Underway' = Underway \ (Underway \ Underway')
      BY <2>2
    <2>4. Notices!Lose({n})
      BY <1>2, <1>3, <1>7, <2>3 DEF Notices!Lose
    <2> QED BY <2>2, <2>4 DEF Notices!Next
  <1> QED BY <1>1, <1>6, <1>7 DEF Tell

\* What a worker takes down with it was owed, and is lost.
LEMMA CrashLoses ==
    ASSUME TypeOK, NEW w \in Workers, Crash(w)
    PROVE  [Notices!Next]_Notices!vars
  <1> PICK n : n = Notice(call[w].request, call[w].id)
    OBVIOUS
  <1> PICK S : S = buffer[w] \cup (IF At(w, "tell") THEN {n} ELSE {})
    OBVIOUS
  <1>1. lost' = lost \cup S
    BY NoticeOf DEF Crash
  <1>2. UNCHANGED <<completed, broker, pushed>> /\ Respond(w)
    BY DEF Crash, saves
  <1>3. Completions' = Completions
    BY <1>2 DEF Completions, Saved
  <1>4. Telling' = Telling \ {w} /\ \A v \in Telling \ {w} : call'[v] = call[v]
    BY <1>2 DEF Telling, Respond, At, Idle, TypeOK
  <1>5. /\ At(w, "tell") => n \in Announced
        /\ Announced' \subseteq Announced
        /\ Announced \subseteq Announced' \cup S
    BY <1>4 DEF Announced, Telling
  <1>6. buffer[w] \subseteq Queued /\ Queued' \subseteq Queued /\ Queued \subseteq Queued' \cup S
    BY DEF Queued, Crash, TypeOK
  <1>7. S \subseteq Underway /\ Underway' \subseteq Underway /\ Underway \subseteq Underway' \cup S
    BY <1>2, <1>5, <1>6 DEF Underway, Announced
  <1>8. Underway \ Underway' \in SUBSET S /\ Underway' = Underway \ (Underway \ Underway')
    BY <1>7
  <1>9. Notices!Lose(S)
    BY <1>1, <1>2, <1>3, <1>8 DEF Notices!Lose
  <1> QED BY <1>7, <1>9 DEF Notices!Next

\* On its way an event only moves, until the handler pushed it or gave up, and it
\* leaves Kafka only after that.
LEMMA DeliveryAccounts ==
    ASSUME TypeOK, HandTracked, Delivery
    PROVE  [Notices!Next]_Notices!vars
  <1>1. UNCHANGED <<call, completed>>
    BY DEF Delivery, Consume, Drain, Deliver, DeliveryFails, Poll, Handle, GiveUp, CommitOffset, ConsumerCrash,
           Replay, saves
  <1>2. Completions' = Completions /\ Announced' = Announced
    BY <1>1 DEF Completions, Saved, Announced, Telling, At
  <1>3. buffer' = buffer => Queued' = Queued
    BY DEF Queued
  <1>4. ASSUME UNCHANGED <<buffer, broker>> PROVE Underway' = Underway
    BY <1>2, <1>3, <1>4 DEF Underway, Announced
  <1>5. ASSUME NEW w \in Workers, Deliver(w) PROVE [Notices!Next]_Notices!vars
    <2>1. PICK e \in buffer[w] : /\ buffer' = [buffer EXCEPT ![w] = @ \ {e}]
                                 /\ broker' = broker \cup {e}
      BY <1>5 DEF Deliver
    <2>2. e \in Queued /\ Queued' \subseteq Queued /\ Queued \subseteq Queued' \cup {e}
      BY <2>1 DEF Queued, TypeOK
    <2>3. Queued' \cup broker' = Queued \cup broker
      BY <2>1, <2>2
    <2>4. Underway' = Underway
      BY <1>2, <2>3 DEF Underway, Announced
    <2> QED BY <1>2, <1>5, <2>4 DEF Deliver, Notices!vars
  <1>10. ASSUME NEW w \in Workers, DeliveryFails(w) PROVE [Notices!Next]_Notices!vars
    <2>1. PICK e \in buffer[w] : /\ buffer' = [buffer EXCEPT ![w] = @ \ {e}]
                                 /\ lost' = lost \cup {e}
      BY <1>10 DEF DeliveryFails
    <2>2. e \in Queued /\ Queued' \subseteq Queued /\ Queued \subseteq Queued' \cup {e}
      BY <2>1 DEF Queued, TypeOK
    <2>3. /\ e \in Underway /\ Underway' \subseteq Underway
          /\ Underway \subseteq Underway' \cup {e} /\ UNCHANGED <<broker, pushed>>
      BY <1>2, <1>10, <2>2 DEF DeliveryFails, Underway, Announced
    <2>4. Underway \ Underway' \in SUBSET {e} /\ Underway' = Underway \ (Underway \ Underway')
      BY <2>3
    <2>5. Notices!Lose({e})
      BY <1>2, <2>1, <2>3, <2>4 DEF Notices!Lose
    <2> QED BY <2>3, <2>5 DEF Notices!Next
  <1>6. CASE Handle
    <2>1. hand.event \in Event /\ hand.event \in broker
      BY <1>6, InHand DEF Handle, HandTracked, Nothing
    <2>2. hand.event \in Underway /\ Underway' = Underway
      BY <1>4, <1>6, <2>1 DEF Underway, Handle
    <2>3. Notices!Tell(hand.event)
      BY <1>2, <1>6, <2>2 DEF Handle, Notices!Tell
    <2> QED BY <2>1, <2>3 DEF Notices!Next
  <1>7. CASE GiveUp
    <2>1. hand.event \in broker
      BY <1>7 DEF GiveUp, HandTracked, Nothing
    <2>2. {hand.event} \in SUBSET Underway /\ Underway' = Underway \ {}
      BY <1>4, <1>7, <2>1 DEF Underway, GiveUp
    <2>3. Notices!Lose({hand.event})
      BY <1>2, <1>7, <2>2 DEF GiveUp, Notices!Lose
    <2> QED BY <2>2, <2>3 DEF Notices!Next
  <1>8. CASE CommitOffset
    <2>1. PICK e : e = hand.event
      OBVIOUS
    <2>2. e \in Event /\ e \in broker /\ e \in pushed \cup lost
      BY <1>8, <2>1, InHand DEF CommitOffset, HandTracked, Nothing
    <2>3. broker' = broker \ {e} /\ buffer' = buffer /\ UNCHANGED <<pushed, lost>>
      BY <1>8, <2>1 DEF CommitOffset
    <2>4. e \in Underway /\ (Underway' = Underway \/ Underway' = Underway \ {e})
      BY <1>2, <1>3, <2>2, <2>3 DEF Underway, Announced
    <2>5. CASE Underway' = Underway
      BY <1>2, <2>3, <2>5 DEF Notices!vars
    <2>6. CASE Underway' = Underway \ {e}
      <3>1. Notices!Settle(e)
        BY <1>2, <2>2, <2>3, <2>4, <2>6 DEF Notices!Settle
      <3> QED BY <2>2, <3>1 DEF Notices!Next
    <2> QED BY <2>4, <2>5, <2>6
  <1>9. CASE Poll \/ ConsumerCrash \/ \E q \in Requests : Replay(q)
    <2>1. UNCHANGED <<buffer, broker, pushed, lost>>
      BY <1>9 DEF Poll, ConsumerCrash, Replay, events
    <2> QED BY <1>2, <1>4, <2>1 DEF Notices!vars
  <1> QED BY <1>5, <1>6, <1>7, <1>8, <1>9, <1>10 DEF Delivery, Drain, Consume

LEMMA StepSimulation ==
    ASSUME TypeOK, HandTracked, [Next]_vars
    PROVE  [Notices!Next]_Notices!vars
  <1>1. CASE UNCHANGED vars
    BY <1>1, Still DEF vars, events, saves, Queued, At
  <1>2. CASE Next
    BY <1>2, Steps, QuietStill, CompleteSaves, Tells, CrashLoses, DeliveryAccounts
       DEF Continue
  <1> QED BY <1>1, <1>2

\* The desk implements GuestNotices, for any number of requests, users, workers and
\* crashes: the guest is told of nothing but what is owed to him, though the save and
\* the publish are two steps of a view that may die in between, and nothing stops being
\* owed before he was told or it was lost, though an event is handled again after a
\* crash of the consumer (views/main.py:333-356, handlers.py:24-56,
\* producer_consumer.py:238-258).
THEOREM Refinement == Spec => ImplementsGuestNotices
  <1>1. Init => Notices!Init
    <2> SUFFICES ASSUME Init PROVE Notices!Init
      OBVIOUS
    <2>1. Completions = {}
      BY DEF Init, Completions, Saved
    <2>2. Underway = {}
      BY DEF Init, Underway, Telling, Queued, At, Idle
    <2> QED BY <2>1, <2>2 DEF Init, Notices!Init
  <1>2. Init => HandTracked
    BY DEF Init, HandTracked, Nothing
  <1>3. TypeOK /\ HandTracked /\ [Next]_vars => HandTracked'
    BY HandTrackedStep
  <1>4. TypeOK /\ HandTracked /\ [Next]_vars => [Notices!Next]_Notices!vars
    BY StepSimulation
  <1> QED BY <1>1, <1>2, <1>3, <1>4, TypeCorrect, PTL DEF Spec, ImplementsGuestNotices, Notices!Spec

LEMMA DeskAccounts == Spec => []Accounted
  BY Refinement, BooksBalance, PTL DEF ImplementsGuestNotices

\* No notification lies: wherever an event is, its completion was saved before, and it
\* is addressed to the guest of the request, whoever completed it
\* (views/main.py:341-356).
THEOREM NotificationsTrue == Spec => []NotifiedTruly
  <1>1. Accounted => NotifiedTruly
    BY DEF Accounted, NotifiedTruly, Underway
  <1> QED BY <1>1, DeskAccounts, PTL

\* And no completion is forgotten: it is with its worker, in its producer or on Kafka
\* until the guest was told or it was lost in one of the four ways the code can lose it,
\* a failed delivery that is only logged among them (views/main.py:345-356,
\* producer_consumer.py:127-155, 238-258).
THEOREM CompletionsTracked == Spec => []CompletionTracked
  <1>1. Accounted => CompletionTracked
    BY DEF Accounted, CompletionTracked
  <1> QED BY <1>1, DeskAccounts, PTL
================================================================================
