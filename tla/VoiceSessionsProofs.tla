-------------------------- MODULE VoiceSessionsProofs --------------------------
(***************************************************************************)
(* Theorems about VoiceSessions, for any number of sessions, workers and   *)
(* requests.                                                               *)
(***************************************************************************)
EXTENDS VoiceSessions, TLAPS

-----------------------------------------------------------------------------
(* Part 1: every copy of a row is well formed.                             *)
(*                                                                         *)
(* A handler writes what it read earlier, so it is not enough to look at   *)
(* the primary: the replica, the log between them and the snapshots in the *)
(* workers' memory have to be good for the next write to be good.          *)

GoodRow == {row \in Row :
              /\ row.tokens = Len(row.transcript)
              /\ \/ row.edited
                 \/ /\ row.status \in {"completed", "timeout"} => row.ended
                    /\ row.status = "active" => ~row.ended}

GoodBusy == [pc : Phases, sid : Sessions, row : GoodRow, turn : Nat]

RowsGood == /\ db \in [Sessions -> GoodRow]
            /\ wal \in [Sessions -> Seq(GoodRow)]
            /\ replica \in [Sessions -> GoodRow]

WorkersGood == req \in [Workers -> {Idle} \cup GoodBusy]

HistoryGood == /\ requests \subseteq ServiceRequest
               /\ links \subseteq ServiceRequest
               /\ expired \subseteq Sessions
               /\ published \subseteq Event
               /\ gauge \in [Workers -> Int]
               /\ served \in Nat
               /\ acked \subseteq ServiceRequest

Good == RowsGood /\ WorkersGood /\ HistoryGood

(* The rows the handlers save are good. *)

\* The rows that are there before, at and after a session's life are good.
LEMMA NoRowGood ==
    /\ NoRow \in GoodRow
    /\ \A e \in BOOLEAN : [NoRow EXCEPT !.status = "deleted", !.edited = e] \in GoodRow
    /\ \A b \in BOOLEAN : [NoRow EXCEPT !.status = "active", !.booking = b] \in GoodRow
<1>1. NoRow \in GoodRow
  BY DEF NoRow, GoodRow, Row, Missing
<1>2. \A st \in {"deleted", "active"}, b \in BOOLEAN :
        [NoRow EXCEPT !.status = st, !.booking = b] \in GoodRow
  BY <1>1 DEF NoRow, GoodRow, Row, Status, Missing
<1>3. \A e \in BOOLEAN : [NoRow EXCEPT !.status = "deleted", !.edited = e] \in GoodRow
  BY <1>1 DEF NoRow, GoodRow, Row, Missing
<1> QED
  BY <1>1, <1>2, <1>3

\* Transcript and counter come from one snapshot, so they agree in the row
\* process_turn saves whatever the row on the primary holds by then.
LEMMA SavedTurnGood ==
    ASSUME NEW row \in GoodRow, NEW snapshot \in GoodRow, NEW n \in Nat
    PROVE  SavedTurn(row, snapshot, n) \in GoodRow
<1> DEFINE t == Append(snapshot.transcript, n)
<1>1. t \in Seq(Nat) /\ Len(t) = snapshot.tokens + 1
  BY DEF GoodRow, Row
<1>2. row \in Row /\ snapshot.tokens + 1 \in Nat
  BY DEF GoodRow, Row
<1>3. SavedTurn(row, snapshot, n) =
        [row EXCEPT !.transcript = t, !.tokens = snapshot.tokens + 1]
  BY DEF SavedTurn
<1> HIDE DEF t
<1>4. /\ SavedTurn(row, snapshot, n) \in Row
      /\ SavedTurn(row, snapshot, n).transcript = t
      /\ SavedTurn(row, snapshot, n).tokens = snapshot.tokens + 1
      /\ SavedTurn(row, snapshot, n).status = row.status
      /\ SavedTurn(row, snapshot, n).ended <=> row.ended
      /\ SavedTurn(row, snapshot, n).edited <=> row.edited
  BY <1>1, <1>2, <1>3 DEF Row
<1> QED
  BY <1>1, <1>4 DEF GoodRow

\* The statuses process_turn, end_session and the clean-up save.
LEMMA SavedStatusGood ==
    ASSUME NEW row \in GoodRow
    PROVE  /\ SavedFailure(row) \in GoodRow
           /\ SavedEnd(row) \in GoodRow
           /\ TimedOut(row) \in GoodRow
BY DEF GoodRow, Row, Status, Terminal, SavedFailure, SavedEnd, TimedOut

\* What an admin saves: a status nobody stamped makes it an edited row.
LEMMA EditedGood ==
    ASSUME NEW row \in GoodRow, NEW status \in Status, NEW booking \in BOOLEAN
    PROVE  Edited(row, status, booking) \in GoodRow
<1> DEFINE e == row.edited \/ status # row.status
<1>1. row \in Row /\ e \in BOOLEAN
  BY DEF GoodRow
<1>2. Edited(row, status, booking) =
        [row EXCEPT !.status = status, !.booking = booking, !.edited = e]
  BY DEF Edited
<1>3. e => row.edited \/ status # row.status
  OBVIOUS
<1>4. status # row.status => e
  OBVIOUS
<1>5. row.edited => e
  OBVIOUS
<1> HIDE DEF e
<1>6. /\ Edited(row, status, booking) \in Row
      /\ Edited(row, status, booking).transcript = row.transcript
      /\ Edited(row, status, booking).tokens = row.tokens
      /\ Edited(row, status, booking).status = status
      /\ Edited(row, status, booking).ended <=> row.ended
      /\ Edited(row, status, booking).edited <=> e
  BY <1>1, <1>2 DEF Row, Status, Terminal
<1> QED
  BY <1>4, <1>5, <1>6 DEF GoodRow

(* Writing a good row keeps every copy good. *)

\* A write reaches the primary and the log to the replica.
LEMMA WriteGood ==
    ASSUME RowsGood, NEW s \in Sessions, NEW row \in GoodRow, Write(s, row)
    PROVE  RowsGood'
<1>1. db' \in [Sessions -> GoodRow]
  BY DEF RowsGood, Write
<1>2. wal' \in [Sessions -> Seq(GoodRow)]
  <2>1. Append(wal[s], row) \in Seq(GoodRow)
    BY DEF RowsGood
  <2> QED
    BY <2>1 DEF RowsGood, Write
<1> QED
  BY <1>1, <1>2 DEF RowsGood, Write

\* The same for an UPDATE, which does nothing to a row that is gone.
LEMMA SaveFieldsGood ==
    ASSUME RowsGood, NEW s \in Sessions, NEW row \in GoodRow, SaveFields(s, row)
    PROVE  RowsGood'
<1>1. CASE Exists(db[s])
  BY <1>1, WriteGood DEF SaveFields
<1>2. CASE ~Exists(db[s])
  BY <1>2 DEF SaveFields, RowsGood, rows
<1> QED
  BY <1>1, <1>2

\* What a handler reads is good, on whichever server it reads it.
LEMMA ReadGood ==
    ASSUME RowsGood, NEW s \in Sessions
    PROVE  db[s] \in GoodRow /\ Read(s) \in GoodRow
BY DEF RowsGood, Read

(* Steps of a worker through its request. *)

\* A worker that begins a request holds a good snapshot.
LEMMA StartGood ==
    ASSUME Good, NEW w \in Workers, NEW pc \in Phases, NEW s \in Sessions,
           NEW row \in GoodRow, Start(w, pc, s, row)
    PROVE  WorkersGood' /\ served' \in Nat
<1>1. served' \in Nat
  BY DEF Good, HistoryGood, Start
<1>2. [pc |-> pc, sid |-> s, row |-> row, turn |-> served'] \in GoodBusy
  BY <1>1 DEF GoodBusy
<1> QED
  BY <1>1, <1>2 DEF Good, WorkersGood, Start

\* What is known of a worker at a step of its request.
LEMMA BusyWorker ==
    ASSUME WorkersGood, NEW w \in Workers, NEW pc \in Phases, At(w, pc)
    PROVE  /\ req[w] \in GoodBusy
           /\ req[w].sid \in Sessions
           /\ req[w].row \in GoodRow
           /\ req[w].turn \in Nat
           /\ Turn(w) \in ServiceRequest
BY DEF WorkersGood, At, Idle, Phases, GoodBusy, Turn, ServiceRequest

\* Moving on keeps the snapshot.
LEMMA GoToGood ==
    ASSUME WorkersGood, NEW w \in Workers, req[w] \in GoodBusy,
           NEW pc \in Phases, GoTo(w, pc)
    PROVE  WorkersGood'
<1>1. [req[w] EXCEPT !.pc = pc] \in GoodBusy
  BY DEF GoodBusy
<1> QED
  BY <1>1 DEF WorkersGood, GoTo

\* Answering drops it.
LEMMA RespondGood ==
    ASSUME WorkersGood, NEW w \in Workers, Respond(w)
    PROVE  WorkersGood'
BY DEF WorkersGood, Respond

\* The events published are of the kinds listed.
LEMMA PublishGood ==
    ASSUME published \subseteq Event, NEW e \in Event,
           Publish(e) \/ QueueFull
    PROVE  published' \subseteq Event
BY DEF Publish, Enqueued, QueueFull

\* Nothing is there at first.
LEMMA InitGood == Init => Good
<1> SUFFICES ASSUME Init PROVE Good
  OBVIOUS
<1>1. RowsGood
  <2>1. \A s \in Sessions : wal[s] \in Seq(GoodRow)
    BY DEF Init
  <2> QED
    BY <2>1, NoRowGood DEF Init, RowsGood
<1>2. WorkersGood
  BY DEF Init, WorkersGood
<1>3. HistoryGood
  BY DEF Init, HistoryGood
<1> QED
  BY <1>1, <1>2, <1>3 DEF Good

(* Every action keeps every row good. *)

\* The first step of a request: it inserts a new row, or reads one.
LEMMA AcceptGood ==
    ASSUME Good, NEW w \in Workers, NEW s \in Sessions, Accept(w, s)
    PROVE  Good'
<1> USE DEF Good
<1>1. CASE CreateRow(w, s)
  <2>1. PICK b \in BOOLEAN :
          /\ Start(w, "announce_start", s, [NoRow EXCEPT !.status = "active", !.booking = b])
          /\ Write(s, [NoRow EXCEPT !.status = "active", !.booking = b])
    BY <1>1 DEF CreateRow
  <2>2. [NoRow EXCEPT !.status = "active", !.booking = b] \in GoodRow
    BY NoRowGood
  <2>3. RowsGood'
    BY <2>1, <2>2, WriteGood
  <2>4. WorkersGood' /\ served' \in Nat
    BY <2>1, <2>2, StartGood DEF Phases
  <2> QED
    BY <1>1, <2>3, <2>4 DEF CreateRow, HistoryGood, filed
<1>2. ASSUME NEW pc \in Phases, Start(w, pc, s, Read(s)),
             UNCHANGED <<rows, filed, expired, published, gauge, acked>>
      PROVE  Good'
  <2>1. Read(s) \in GoodRow
    BY ReadGood
  <2>2. WorkersGood' /\ served' \in Nat
    BY <1>2, <2>1, StartGood
  <2> QED
    BY <1>2, <2>2 DEF RowsGood, HistoryGood, rows, filed
<1>3. CASE TurnRead(w, s)
  BY <1>2, <1>3 DEF TurnRead, Phases
<1>4. CASE EndRead(w, s)
  BY <1>2, <1>4 DEF EndRead, Phases
<1>5. CASE UpdateRead(w, s)
  BY <1>2, <1>5 DEF UpdateRead, Phases
<1>6. CASE DestroyRead(w, s)
  BY <1>2, <1>6 DEF DestroyRead, Phases
<1>7. CASE EditRead(w, s)
  BY <1>2, <1>7 DEF EditRead, Phases
<1>8. CASE AdminAdds(w, s)
  <2>1. [NoRow EXCEPT !.status = "active"] \in GoodRow
    BY NoRowGood DEF NoRow, GoodRow, Row, Status
  <2>2. RowsGood'
    <3>1. PICK status \in Status, booking \in BOOLEAN :
            Write(s, Edited([NoRow EXCEPT !.status = "active"], status, booking))
      BY <1>8 DEF AdminAdds
    <3> QED
      BY <2>1, <3>1, EditedGood, WriteGood
  <2> QED
    BY <1>8, <2>2 DEF AdminAdds, WorkersGood, HistoryGood, filed
<1> QED
  BY <1>1, <1>3, <1>4, <1>5, <1>6, <1>7, <1>8 DEF Accept

\* The rest of create.
LEMMA CreateAnnounceGood ==
    ASSUME Good, NEW w \in Workers, CreateAnnounce(w)
    PROVE  Good'
<1>1. req[w].sid \in Sessions
  BY BusyWorker DEF Good, CreateAnnounce, Phases
<1>2. published' \subseteq Event
  BY <1>1, PublishGood DEF Good, HistoryGood, CreateAnnounce, Event, Kinds
<1>3. WorkersGood'
  BY RespondGood DEF Good, CreateAnnounce
<1> QED
  BY <1>2, <1>3 DEF Good, RowsGood, HistoryGood, CreateAnnounce, rows, filed

\* The rest of end_session, after its save.
LEMMA EndAnnounceGood ==
    ASSUME Good, NEW w \in Workers, EndAnnounce(w)
    PROVE  Good'
<1>1. /\ req[w].sid \in Sessions
      /\ req[w].turn \in Nat
      /\ req[w].row.tokens \in Nat
  BY BusyWorker DEF Good, EndAnnounce, Phases, GoodRow, Row
<1>2. published' \subseteq Event
  BY <1>1, PublishGood DEF Good, HistoryGood, EndAnnounce, Event, Kinds
<1>3. WorkersGood'
  BY RespondGood DEF Good, EndAnnounce
<1> QED
  BY <1>2, <1>3 DEF Good, RowsGood, HistoryGood, EndAnnounce, rows, filed

\* The agent raised: the row is saved as failed.
LEMMA AgentFailsGood ==
    ASSUME Good, NEW w \in Workers, AgentFails(w)
    PROVE  Good'
<1> DEFINE s == req[w].sid
<1>1. s \in Sessions
  BY BusyWorker DEF Good, AgentFails, Phases
<1>2. SavedFailure(db[s]) \in GoodRow
  BY <1>1, ReadGood, SavedStatusGood DEF Good
<1>3. RowsGood'
  BY <1>1, <1>2, SaveFieldsGood DEF Good, AgentFails
<1>4. WorkersGood'
  BY RespondGood DEF Good, AgentFails
<1> QED
  BY <1>3, <1>4 DEF Good, HistoryGood, AgentFails, filed

\* The agent replied: the turn is saved.
LEMMA AgentRepliesGood ==
    ASSUME Good, NEW w \in Workers, AgentReplies(w)
    PROVE  Good'
<1> DEFINE s == req[w].sid
<1>1. /\ s \in Sessions
      /\ req[w] \in GoodBusy
      /\ req[w].row \in GoodRow
      /\ req[w].turn \in Nat
      /\ Turn(w) \in ServiceRequest
  BY BusyWorker DEF Good, AgentReplies, Phases
<1>2. SavedTurn(db[s], req[w].row, req[w].turn) \in GoodRow
  BY <1>1, ReadGood, SavedTurnGood DEF Good
<1>3. RowsGood'
  BY <1>1, <1>2, SaveFieldsGood DEF Good, AgentReplies
<1>4. Respond(w) \/ GoTo(w, "file")
  BY DEF AgentReplies, Answer200
<1>5. WorkersGood'
  BY <1>1, <1>4, RespondGood, GoToGood DEF Good, Phases
<1>6. acked' \subseteq ServiceRequest
  BY <1>1 DEF Good, HistoryGood, AgentReplies, Answer200
<1> QED
  BY <1>3, <1>5, <1>6 DEF Good, HistoryGood, AgentReplies, filed

\* The transaction of a service request, before its commit.
LEMMA FileGood ==
    ASSUME Good, NEW w \in Workers, FileRequest(w) \/ FileAborts(w)
    PROVE  Good'
<1>1. req[w] \in GoodBusy /\ Turn(w) \in ServiceRequest
  BY BusyWorker DEF Good, FileRequest, FileAborts, Phases
<1>2. SignalEvent(w) \in Event /\ CreatedEvent(w) \in Event
  BY <1>1 DEF SignalEvent, CreatedEvent, Event, Kinds, GoodBusy
<1>3. published' \subseteq Event
  BY <1>2 DEF Good, HistoryGood, FileRequest, FileAborts, Enqueued
<1>4. WorkersGood'
  BY <1>1, RespondGood, GoToGood DEF Good, FileRequest, FileAborts, Phases
<1> QED
  BY <1>3, <1>4 DEF Good, RowsGood, HistoryGood, FileRequest, FileAborts, rows, filed

\* The commit of a service request and its link.
LEMMA CommitRequestGood ==
    ASSUME Good, NEW w \in Workers, CommitRequest(w)
    PROVE  Good'
<1>1. Turn(w) \in ServiceRequest
  BY BusyWorker DEF Good, CommitRequest, Phases
<1>2. WorkersGood'
  BY RespondGood DEF Good, CommitRequest, Answer200
<1>3. /\ requests' \subseteq ServiceRequest
      /\ links' \subseteq ServiceRequest
      /\ acked' \subseteq ServiceRequest
  BY <1>1 DEF Good, HistoryGood, CommitRequest, Answer200, filed
<1> QED
  BY <1>2, <1>3 DEF Good, RowsGood, HistoryGood, CommitRequest, rows

\* The save of end_session.
LEMMA EndSaveGood ==
    ASSUME Good, NEW w \in Workers, EndSave(w)
    PROVE  Good'
<1> DEFINE s == req[w].sid
<1>1. s \in Sessions /\ req[w] \in GoodBusy
  BY BusyWorker DEF Good, EndSave, Phases
<1>2. SavedEnd(db[s]) \in GoodRow
  BY <1>1, ReadGood, SavedStatusGood DEF Good
<1>3. RowsGood'
  BY <1>1, <1>2, SaveFieldsGood DEF Good, EndSave
<1>4. WorkersGood'
  BY <1>1, RespondGood, GoToGood DEF Good, EndSave, Phases
<1> QED
  BY <1>3, <1>4 DEF Good, HistoryGood, EndSave, filed

\* PUT and PATCH put the snapshot back.
LEMMA UpdateSaveGood ==
    ASSUME Good, NEW w \in Workers, UpdateSave(w)
    PROVE  Good'
<1>1. req[w].sid \in Sessions /\ req[w].row \in GoodRow
  BY BusyWorker DEF Good, UpdateSave, Phases
<1>2. RowsGood'
  BY <1>1, WriteGood DEF Good, UpdateSave
<1>3. WorkersGood'
  BY RespondGood DEF Good, UpdateSave
<1> QED
  BY <1>2, <1>3 DEF Good, HistoryGood, UpdateSave, filed

\* The admin's page puts the snapshot back with its edits.
LEMMA EditSaveGood ==
    ASSUME Good, NEW w \in Workers, EditSave(w)
    PROVE  Good'
<1>1. req[w].sid \in Sessions /\ req[w].row \in GoodRow
  BY BusyWorker DEF Good, EditSave, Phases
<1>2. RowsGood'
  BY <1>1, EditedGood, WriteGood DEF Good, EditSave
<1>3. WorkersGood'
  BY RespondGood DEF Good, EditSave
<1>4. links' \subseteq ServiceRequest
  BY DEF Good, HistoryGood, EditSave
<1> QED
  BY <1>2, <1>3, <1>4 DEF Good, HistoryGood, EditSave

\* DELETE leaves no row.
LEMMA DestroyDeleteGood ==
    ASSUME Good, NEW w \in Workers, DestroyDelete(w)
    PROVE  Good'
<1>1. req[w].sid \in Sessions
  BY BusyWorker DEF Good, DestroyDelete, Phases
<1> DEFINE row == [NoRow EXCEPT !.status = "deleted", !.edited = db[req[w].sid].edited]
<1>2. SaveFields(req[w].sid, row)
  BY DEF DestroyDelete
<1>3. db[req[w].sid].edited \in BOOLEAN
  BY <1>1 DEF Good, RowsGood, GoodRow, Row
<1>4. row \in GoodRow
  BY <1>3, NoRowGood
<1> HIDE DEF row
<1>5. RowsGood'
  BY <1>1, <1>2, <1>4, SaveFieldsGood DEF Good
<1>6. WorkersGood'
  BY RespondGood DEF Good, DestroyDelete
<1> QED
  BY <1>5, <1>6 DEF Good, HistoryGood, DestroyDelete

\* The clean-up times several rows out at once.
LEMMA CleanupGood ==
    ASSUME Good, Cleanup
    PROVE  Good'
<1>1. \A s \in Sessions : TimedOut(db[s]) \in GoodRow
  BY SavedStatusGood DEF Good, RowsGood
<1>2. db' \in [Sessions -> GoodRow]
  BY <1>1 DEF Good, RowsGood, Cleanup
<1>3. wal' \in [Sessions -> Seq(GoodRow)]
  <2>1. \A s \in Sessions : Append(wal[s], TimedOut(db[s])) \in Seq(GoodRow)
    BY <1>1 DEF Good, RowsGood
  <2> QED
    BY <2>1 DEF Good, RowsGood, Cleanup
<1> QED
  BY <1>2, <1>3 DEF Good, RowsGood, WorkersGood, HistoryGood, Cleanup, filed

\* The replica gets a row the log holds.
LEMMA ReplayGood ==
    ASSUME Good, NEW s \in Sessions, Replay(s)
    PROVE  Good'
<1>1. Head(wal[s]) \in GoodRow /\ Tail(wal[s]) \in Seq(GoodRow)
  BY DEF Good, RowsGood, Replay
<1> QED
  BY <1>1 DEF Good, RowsGood, WorkersGood, HistoryGood, Replay, filed

\* Time passes.
LEMMA AgeGood ==
    ASSUME Good, NEW s \in Sessions, Age(s)
    PROVE  Good'
BY DEF Good, RowsGood, WorkersGood, HistoryGood, Age, rows, filed

\* A worker that dies drops its snapshot.
LEMMA CrashGood ==
    ASSUME Good, NEW w \in Workers, Crash(w)
    PROVE  Good'
<1>1. WorkersGood'
  BY RespondGood DEF Good, Crash
<1> QED
  BY <1>1 DEF Good, RowsGood, HistoryGood, Crash, rows, filed

\* Every step keeps every row good.
LEMMA NextGood == Good /\ [Next]_vars => Good'
<1> SUFFICES ASSUME Good, [Next]_vars PROVE Good'
  OBVIOUS
<1>1. ASSUME NEW w \in Workers, Proceed(w) PROVE Good'
  BY <1>1, CreateAnnounceGood, AgentFailsGood, AgentRepliesGood, FileGood,
     CommitRequestGood, EndSaveGood, EndAnnounceGood, UpdateSaveGood,
     DestroyDeleteGood, EditSaveGood DEF Proceed
<1>2. CASE UNCHANGED vars
  BY <1>2 DEF Good, RowsGood, WorkersGood, HistoryGood, vars, rows, filed
<1> QED
  BY <1>1, <1>2, AcceptGood, CrashGood, CleanupGood, AgeGood, ReplayGood DEF Next

\* Every reachable state is good: whatever the interleaving, the lag of the
\* replica and the crashes, no handler ever holds or writes a malformed row.
THEOREM AlwaysGood == Spec => []Good
BY InitGood, NextGood, PTL DEF Spec

\* Type correctness.
THEOREM TypeCorrect == Spec => []TypeOK
<1>1. Good => TypeOK
  <2>1. GoodRow \subseteq Row
    BY DEF GoodRow
  <2>2. GoodBusy \subseteq Busy
    BY <2>1 DEF GoodBusy, Busy
  <2>3. Seq(GoodRow) \subseteq Seq(Row)
    BY <2>1
  <2> QED
    BY <2>1, <2>2, <2>3 DEF Good, RowsGood, WorkersGood, HistoryGood, TypeOK
<1> QED
  BY <1>1, AlwaysGood, PTL

\* The token counter and the transcript of a row never part, although turns
\* served concurrently overwrite one another.
THEOREM TokensAlwaysMatch == Spec => []TokensMatchTranscript
<1>1. Good => TokensMatchTranscript
  BY DEF Good, RowsGood, GoodRow, TokensMatchTranscript
<1> QED
  BY <1>1, AlwaysGood, PTL

\* Unless an admin edited the status, ended_at is there exactly when it has to be:
\* whole-row saves of a stale PATCH or of a stale admin page included.
THEOREM EndedAlwaysStamped == Spec => []EndedStamp
<1>1. Good => EndedStamp
  BY DEF Good, RowsGood, GoodRow, EndedStamp
<1> QED
  BY <1>1, AlwaysGood, PTL

-----------------------------------------------------------------------------
(* Part 2: no service request without its event.                           *)
(*                                                                         *)
(* A request exists only once CommitRequest ran, so the inductive form     *)
(* adds what a worker about to commit has already published.               *)

AnnouncedEvent(r) ==
    [kind |-> "created", sid |-> r.sid, turn |-> r.turn, tokens |-> 0]

Announced ==
    /\ \A w \in Workers : At(w, "commit") => AnnouncedEvent(Turn(w)) \in published
    /\ \A r \in requests : AnnouncedEvent(r) \in published

\* What every action but CommitRequest does to the events and the requests.
LEMMA PublishedGrows ==
    ASSUME [Next]_vars
    PROVE  published \subseteq published'
<1>1. ASSUME NEW w \in Workers, Proceed(w) PROVE published \subseteq published'
  BY <1>1 DEF Proceed, CreateAnnounce, AgentFails, AgentReplies, FileRequest,
     FileAborts, CommitRequest, EndSave, EndAnnounce, UpdateSave, DestroyDelete,
     EditSave, Publish, Enqueued, QueueFull
<1>2. ASSUME NEW w \in Workers, NEW s \in Sessions, Accept(w, s)
      PROVE  published \subseteq published'
  BY <1>2 DEF Accept, CreateRow, TurnRead, EndRead, UpdateRead, DestroyRead,
     AdminAdds, EditRead
<1> QED
  BY <1>1, <1>2 DEF Next, Crash, Cleanup, Age, Replay, vars

\* A worker gets to the commit only through FileRequest, which published.
LEMMA AnnouncedNext ==
    ASSUME Good, Announced, ~BrokerRefuses, [Next]_vars
    PROVE  Announced'
<1>1. ASSUME UNCHANGED requests,
             \A w \in Workers : At(w, "commit")' => req'[w] = req[w]
      PROVE  Announced'
  BY <1>1, PublishedGrows DEF Announced, AnnouncedEvent, At, Turn
<1>2. ASSUME NEW w \in Workers, NEW s \in Sessions, Accept(w, s), ~AdminAdds(w, s)
      PROVE  Announced'
  <2>1. /\ UNCHANGED requests
        /\ \E pc \in Phases \ {"commit"}, row \in {Read(s)} \cup GoodRow :
              req' = [req EXCEPT ![w] = [pc |-> pc, sid |-> s, row |-> row,
                                         turn |-> served']]
    BY <1>2, NoRowGood DEF Accept, CreateRow, TurnRead, EndRead, UpdateRead,
       DestroyRead, EditRead, Start, Phases, filed
  <2> QED
    BY <1>1, <2>1 DEF Good, WorkersGood, At
<1>3. ASSUME NEW w \in Workers, Proceed(w), ~FileRequest(w), ~CommitRequest(w)
      PROVE  Announced'
  <2>1. /\ UNCHANGED requests
        /\ Respond(w) \/ GoTo(w, "file") \/ GoTo(w, "announce_end")
    BY <1>3 DEF Proceed, CreateAnnounce, AgentFails, AgentReplies, FileAborts,
       EndSave, EndAnnounce, UpdateSave, DestroyDelete, EditSave, Answer200, filed
  <2> QED
    BY <1>1, <2>1 DEF Good, WorkersGood, At, Respond, GoTo, Idle, GoodBusy
<1>4. ASSUME NEW w \in Workers, FileRequest(w) PROVE Announced'
  <2>1. AnnouncedEvent(Turn(w)) = CreatedEvent(w)
    BY DEF AnnouncedEvent, Turn, CreatedEvent, SignalEvent
  <2>2. CreatedEvent(w) \in published'
    BY <1>4 DEF FileRequest, Enqueued
  <2>3. /\ UNCHANGED requests
        /\ req' = [req EXCEPT ![w].pc = "commit"]
        /\ req[w] \in GoodBusy
    BY <1>4, BusyWorker DEF FileRequest, GoTo, filed, Good, Phases
  <2>4. Turn(w)' = Turn(w)
    BY <2>3 DEF Turn, Good, WorkersGood, GoodBusy
  <2>5. \A v \in Workers : At(v, "commit")' => AnnouncedEvent(Turn(v))' \in published'
    BY <2>1, <2>2, <2>3, <2>4, PublishedGrows
       DEF Announced, At, Turn, AnnouncedEvent, Good, WorkersGood
  <2> QED
    BY <2>3, <2>5, PublishedGrows DEF Announced, AnnouncedEvent
<1>5. ASSUME NEW w \in Workers, CommitRequest(w) PROVE Announced'
  <2>1. /\ requests' \subseteq requests \cup {Turn(w)}
        /\ req' = [req EXCEPT ![w] = Idle]
        /\ At(w, "commit")
    BY <1>5 DEF CommitRequest, Answer200, Respond, filed
  <2> QED
    BY <2>1, PublishedGrows
       DEF Announced, AnnouncedEvent, At, Turn, Idle, Good, WorkersGood
<1>6. ASSUME NEW w \in Workers, Crash(w) PROVE Announced'
  BY <1>1, <1>6 DEF Crash, Respond, At, Idle, Good, WorkersGood, filed
<1>7. CASE UNCHANGED req /\ UNCHANGED requests
  BY <1>1, <1>7
<1> QED
  BY <1>2, <1>3, <1>4, <1>5, <1>6, <1>7
     DEF Next, AdminAdds, Cleanup, Age, Replay, vars, filed

\* A service request that exists was announced, unless produce can refuse.
THEOREM RequestsAlwaysAnnounced ==
    ASSUME ~BrokerRefuses
    PROVE  Spec => []RequestAnnounced
<1>1. Init => Announced
  BY DEF Init, Announced, At, Idle
<1>2. Announced => RequestAnnounced
  BY DEF Announced, RequestAnnounced, AnnouncedEvent
<1>3. Good /\ Announced /\ [Next]_vars => Announced'
  BY AnnouncedNext
<1> QED
  BY <1>1, <1>2, <1>3, AlwaysGood, PTL DEF Spec

-----------------------------------------------------------------------------
(* Part 3: the documented routes.                                          *)
(*                                                                         *)
(* PUT, PATCH, DELETE and the admin's pages are the only handlers that     *)
(* save a status they read or were given, or drop join rows.  Without them *)
(* every write changes the status forward, and the join table only grows.  *)

Documented == Routes \subseteq DocumentedRoutes

NoRewriter ==
    \A w \in Workers : ~At(w, "update") /\ ~At(w, "destroy") /\ ~At(w, "edit")

\* No documented route starts a PUT, a PATCH, a DELETE or an admin's page.
LEMMA NoRewriterNext ==
    ASSUME Documented, Good, NoRewriter, [Next]_vars
    PROVE  NoRewriter'
<1>1. ASSUME NEW w \in Workers, NEW s \in Sessions, Accept(w, s) PROVE NoRewriter'
  <2>1. /\ ~UpdateRead(w, s) /\ ~DestroyRead(w, s)
        /\ ~AdminAdds(w, s) /\ ~EditRead(w, s)
    BY DEF Documented, DocumentedRoutes, UpdateRead, DestroyRead, AdminAdds, EditRead
  <2>2. \E pc \in {"announce_start", "agent", "end"}, row \in {Read(s)} \cup GoodRow :
           req' = [req EXCEPT ![w] = [pc |-> pc, sid |-> s, row |-> row,
                                      turn |-> served']]
    BY <1>1, <2>1, NoRowGood DEF Accept, CreateRow, TurnRead, EndRead, Start
  <2> QED
    BY <2>2 DEF Good, WorkersGood, NoRewriter, At
<1>2. ASSUME NEW w \in Workers, Proceed(w) \/ Crash(w) PROVE NoRewriter'
  <2>1. \/ Respond(w)
        \/ \E pc \in {"file", "commit", "announce_end"} : GoTo(w, pc)
    BY <1>2 DEF Proceed, CreateAnnounce, AgentFails, AgentReplies, FileAborts,
       FileRequest, CommitRequest, EndSave, EndAnnounce, UpdateSave,
       DestroyDelete, EditSave, Answer200, Crash
  <2> QED
    BY <2>1 DEF Good, WorkersGood, NoRewriter, At, Respond, GoTo, Idle, GoodBusy
<1>3. CASE UNCHANGED req
  BY <1>3 DEF NoRewriter, At
<1> QED
  BY <1>1, <1>2, <1>3 DEF Next, Cleanup, Age, Replay, vars

\* No request is being served at first.
LEMMA InitNoRewriter == Init => NoRewriter
BY DEF Init, NoRewriter, At, Idle

(* What one step can do to the status of a session. *)

\* An UPDATE changes one row, and only if it exists.
LEMMA SaveFieldsStatus ==
    ASSUME RowsGood, NEW s \in Sessions, NEW row, SaveFields(s, row),
           NEW t \in Sessions
    PROVE  db'[t] = db[t] \/ (t = s /\ Exists(db[s]) /\ db'[t] = row)
BY DEF SaveFields, Write, RowsGood, rows

StatusMoves(t) ==
    \/ db'[t].status = db[t].status
    \/ db[t].status = "absent" /\ db'[t].status = "active"
    \/ Exists(db[t]) /\ db'[t].status \in {"failed", "completed"}
    \/ db[t].status = "active" /\ db'[t].status = "timeout"

\* How one step moves the status of a session.
LEMMA StatusStep ==
    ASSUME Documented, Good, NoRewriter, [Next]_vars, NEW t \in Sessions
    PROVE  StatusMoves(t)
<1>1. \A s \in Sessions :
        /\ SavedFailure(db[s]).status = "failed"
        /\ SavedEnd(db[s]).status = "completed"
        /\ TimedOut(db[s]).status = "timeout"
  BY DEF Good, RowsGood, GoodRow, Row, SavedFailure, SavedEnd, TimedOut
<1>2. ASSUME NEW w \in Workers, NEW s \in Sessions, CreateRow(w, s)
      PROVE  StatusMoves(t)
  <2>1. PICK b \in BOOLEAN :
          db' = [db EXCEPT ![s] = [NoRow EXCEPT !.status = "active", !.booking = b]]
    BY <1>2 DEF CreateRow, Write
  <2>2. [NoRow EXCEPT !.status = "active", !.booking = b].status = "active"
    BY DEF NoRow
  <2> QED
    BY <1>2, <2>1, <2>2 DEF Good, RowsGood, CreateRow, StatusMoves
<1>3. ASSUME NEW w \in Workers, AgentFails(w) PROVE StatusMoves(t)
  <2>1. req[w].sid \in Sessions
    BY <1>3, BusyWorker DEF Good, AgentFails, Phases
  <2> QED
    BY <1>1, <1>3, <2>1, SaveFieldsStatus DEF Good, AgentFails, StatusMoves
<1>4. ASSUME NEW w \in Workers, AgentReplies(w) PROVE StatusMoves(t)
  <2>1. req[w].sid \in Sessions
    BY <1>4, BusyWorker DEF Good, AgentReplies, Phases
  <2>2. SavedTurn(db[req[w].sid], req[w].row, req[w].turn).status = db[req[w].sid].status
    BY <2>1 DEF Good, RowsGood, GoodRow, Row, SavedTurn
  <2> QED
    BY <1>4, <2>1, <2>2, SaveFieldsStatus DEF Good, AgentReplies, StatusMoves
<1>5. ASSUME NEW w \in Workers, EndSave(w) PROVE StatusMoves(t)
  <2>1. req[w].sid \in Sessions
    BY <1>5, BusyWorker DEF Good, EndSave, Phases
  <2> QED
    BY <1>1, <1>5, <2>1, SaveFieldsStatus DEF Good, EndSave, StatusMoves
<1>6. CASE Cleanup
  BY <1>1, <1>6 DEF Cleanup, Stale, StatusMoves
<1>7. CASE UNCHANGED db
  BY <1>7 DEF StatusMoves
<1>8. ASSUME NEW w \in Workers, NEW s \in Sessions PROVE ~AdminAdds(w, s)
  BY DEF Documented, DocumentedRoutes, AdminAdds
<1> QED
  BY <1>2, <1>3, <1>4, <1>5, <1>6, <1>7, <1>8
     DEF Next, Accept, Proceed, TurnRead, EndRead, UpdateRead, DestroyRead,
         EditRead, CreateAnnounce, FileRequest, FileAborts, CommitRequest,
         EndAnnounce, UpdateSave, DestroyDelete, EditSave, NoRewriter, Crash, Age, Replay, rows, vars

\* A closed session never becomes active again.
THEOREM ClosedStaysClosed ==
    ASSUME Documented
    PROVE  Spec => NoResurrection
<1>1. Good /\ NoRewriter /\ [Next]_vars =>
        [\A s \in Sessions : db[s].status \in Terminal => db'[s].status \in Terminal]_vars
  BY StatusStep DEF StatusMoves, Terminal
<1>2. Good /\ NoRewriter /\ [Next]_vars => NoRewriter'
  BY NoRewriterNext
<1> QED
  BY <1>1, <1>2, InitNoRewriter, AlwaysGood, PTL DEF Spec, NoResurrection

\* A committed voice request is listed by its session.
THEOREM RequestsStayLinked ==
    ASSUME Documented
    PROVE  Spec => []RequestLinked
<1>1. Init => RequestLinked
  BY DEF Init, RequestLinked
<1>2. NoRewriter /\ RequestLinked /\ [Next]_vars => RequestLinked'
  <2> SUFFICES ASSUME NoRewriter, RequestLinked, [Next]_vars PROVE RequestLinked'
    OBVIOUS
  <2>1. ASSUME NEW w \in Workers, CommitRequest(w) PROVE RequestLinked'
    BY <2>1 DEF CommitRequest, RequestLinked, filed
  <2>2. CASE UNCHANGED filed
    BY <2>2 DEF RequestLinked, filed
  <2> QED
    BY <2>1, <2>2
       DEF Next, Accept, Proceed, CreateRow, TurnRead, EndRead, UpdateRead,
           DestroyRead, CreateAnnounce, AgentFails, AgentReplies, FileRequest,
           FileAborts, EndSave, EndAnnounce, UpdateSave, DestroyDelete,
           AdminAdds, EditRead, EditSave, NoRewriter, Cleanup, Crash, Age, Replay, vars
<1>3. Good /\ NoRewriter /\ [Next]_vars => NoRewriter'
  BY NoRewriterNext
<1> QED
  BY <1>1, <1>2, <1>3, InitNoRewriter, AlwaysGood, PTL DEF Spec
=============================================================================
