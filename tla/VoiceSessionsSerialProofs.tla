----------------------- MODULE VoiceSessionsSerialProofs -----------------------
(***************************************************************************)
(* What VoiceSessions promises a client whose requests on a session are    *)
(* served one after the other: its turns stay in the transcript, and the   *)
(* session is completed once, with the right total.                        *)
(*                                                                         *)
(* The handlers write rows back from snapshots, so none of this holds when *)
(* two requests on one session overlap (run vs_lost_turn), or when a       *)
(* snapshot comes from a lagging replica.  Both are hypotheses here, of    *)
(* the theorems only.  Sessions may still be served concurrently with one  *)
(* another, the clean-up may run between any two steps, workers may die,   *)
(* the broker may refuse, and every route and the admin may be used.       *)
(***************************************************************************)
EXTENDS VoiceSessionsProofs, FiniteSetTheorems

\* No two workers serve requests on one session at the same time.
OneAtATime ==
    \A v, w \in Workers :
        v # w /\ req[v] # Idle /\ req[w] # Idle => req[v].sid # req[w].sid

-----------------------------------------------------------------------------
(* The inductive invariant.                                                *)

Holds(row, n) == \E i \in DOMAIN row.transcript : row.transcript[i] = n

\* A worker in the middle of a request holds a snapshot that is still true of
\* the row in everything the rest of its handler relies on.  Only the clean-up
\* may have come in between.
InStep(h, row, events) ==
    /\ Exists(row)
    /\ h.pc \in {"agent", "end", "announce_end", "update", "edit"} =>
          h.row.transcript = row.transcript /\ h.row.tokens = row.tokens
    /\ h.pc \in {"agent", "end", "announce_end"} => row.edited \/ events = {}
    /\ h.pc \in {"file", "commit"} => Holds(row, h.turn)
    /\ h.pc = "announce_end" => row.status = "completed"
    /\ h.pc \in {"update", "edit"} =>
          /\ h.row.edited <=> row.edited
          /\ \/ row.status = h.row.status
             \/ row.status = "timeout" /\ h.row.status = "active"

\* The events and the answers given out about a session agree with its row, the
\* events as long as no admin gives it another status.
Settled(row, events, answered) ==
    /\ \A e \in events : row.status # "absent"
    /\ \/ row.edited
       \/ /\ \A e \in events : row.status \in {"completed", "deleted"}
          /\ \A e \in events : Exists(row) => e.tokens = row.tokens
          /\ \A e, f \in events : e = f
    /\ \A n \in answered : row.status # "absent"
    /\ \A n \in answered : Exists(row) => Holds(row, n)

Completions(events, s) == {e \in events : e.kind = "completed" /\ e.sid = s}
Answered(turns, s) == {n \in Nat : [sid |-> s, turn |-> n] \in turns}

Serial ==
    /\ \A w \in Workers :
          req[w] # Idle =>
             InStep(req[w], db[req[w].sid], Completions(published, req[w].sid))
    /\ \A s \in Sessions : Settled(db[s], Completions(published, s), Answered(acked, s))

-----------------------------------------------------------------------------
(* What a step on one session leaves alone.                                *)

\* Nothing has been said of any session at first.
LEMMA InitSerial == Init => Serial
<1> SUFFICES ASSUME Init PROVE Serial
  OBVIOUS
<1>1. \A w \in Workers : req[w] = Idle
  BY DEF Init
<1>2. \A s \in Sessions : Completions(published, s) = {} /\ Answered(acked, s) = {}
  BY DEF Init, Completions, Answered
<1> QED
  BY <1>1, <1>2 DEF Serial, Settled

\* A worker in the middle of a request has its session to itself.
LEMMA OwnSession ==
    ASSUME Good, OneAtATime, Serial, NEW w \in Workers, NEW pc \in Phases, At(w, pc)
    PROVE  /\ req[w] # Idle
           /\ req[w].sid \in Sessions
           /\ InStep(req[w], db[req[w].sid], Completions(published, req[w].sid))
           /\ Settled(db[req[w].sid], Completions(published, req[w].sid),
                      Answered(acked, req[w].sid))
           /\ \A v \in Workers \ {w} : req[v] # Idle => req[v].sid # req[w].sid
<1>1. req[w] # Idle
  BY DEF At, Idle, Phases
<1>2. req[w].sid \in Sessions
  BY BusyWorker DEF Good
<1> QED
  BY <1>1, <1>2 DEF OneAtATime, Serial

\* A step about one session: the others' rows, events and answers stay, and
\* nobody else is serving a request on it.
LEMMA OneSession ==
    ASSUME Good, Serial, NEW s \in Sessions, NEW w \in Workers, NEW h,
           \A v \in Workers \ {w} : req[v] # Idle => req[v].sid # s,
           req' = [req EXCEPT ![w] = h],
           \A t \in Sessions \ {s} :
              /\ db'[t] = db[t]
              /\ Completions(published', t) = Completions(published, t)
              /\ Answered(acked', t) = Answered(acked, t),
           h # Idle => h.sid = s /\ InStep(h, db'[s], Completions(published', s)),
           Settled(db'[s], Completions(published', s), Answered(acked', s))
    PROVE  Serial'
<1>1. ASSUME NEW v \in Workers, req'[v] # Idle
      PROVE  InStep(req'[v], db'[req'[v].sid], Completions(published', req'[v].sid))
  <2>1. CASE v = w
    BY <1>1, <2>1 DEF Good, WorkersGood
  <2>2. CASE v # w
    <3>1. req'[v] = req[v] /\ req[v].sid \in Sessions \ {s}
      BY <1>1, <2>2 DEF Good, WorkersGood, GoodBusy
    <3>2. InStep(req[v], db[req[v].sid], Completions(published, req[v].sid))
      BY <1>1, <3>1 DEF Serial
    <3> QED
      BY <3>1, <3>2
  <2> QED
    BY <2>1, <2>2
<1>2. ASSUME NEW t \in Sessions
      PROVE  Settled(db'[t], Completions(published', t), Answered(acked', t))
  <2>1. Settled(db[t], Completions(published, t), Answered(acked, t))
    BY DEF Serial
  <2> QED
    BY <2>1
<1> QED
  BY <1>1, <1>2 DEF Serial

\* A step that says and answers nothing.
LEMMA Quiet ==
    ASSUME UNCHANGED <<published, acked>>
    PROVE  \A t \in Sessions : /\ Completions(published', t) = Completions(published, t)
                               /\ Answered(acked', t) = Answered(acked, t)
OBVIOUS

\* An answer to one turn is about one session.
LEMMA AnswerOne ==
    ASSUME Good, NEW w \in Workers, req[w] \in GoodBusy,
           acked' = acked \cup {Turn(w)}
    PROVE  /\ Answered(acked', req[w].sid) = Answered(acked, req[w].sid) \cup {req[w].turn}
           /\ \A t \in Sessions \ {req[w].sid} : Answered(acked', t) = Answered(acked, t)
<1>1. req[w].turn \in Nat
  BY DEF GoodBusy
<1> QED
  BY <1>1 DEF Answered, Turn

\* Events of the other kinds complete nothing.
LEMMA OtherKinds ==
    ASSUME published \subseteq published',
           \A e \in published' \ published : e.kind # "completed"
    PROVE  \A t : Completions(published', t) = Completions(published, t)
BY DEF Completions

\* What a save changes in a row.
LEMMA SavedFields ==
    ASSUME NEW row \in GoodRow
    PROVE  /\ \A r \in {SavedFailure(row), SavedEnd(row), TimedOut(row)} :
                 /\ r.transcript = row.transcript /\ r.tokens = row.tokens
                 /\ r.edited <=> row.edited
           /\ SavedFailure(row).status = "failed"
           /\ SavedEnd(row).status = "completed"
           /\ TimedOut(row).status = "timeout"
BY DEF GoodRow, Row, SavedFailure, SavedEnd, TimedOut

\* process_turn loses no turn of a transcript it read up to date.
LEMMA SavedTurnHolds ==
    ASSUME NEW row \in GoodRow, NEW snapshot \in GoodRow, NEW n \in Nat,
           snapshot.transcript = row.transcript
    PROVE  /\ SavedTurn(row, snapshot, n).status = row.status
           /\ SavedTurn(row, snapshot, n).edited <=> row.edited
           /\ Holds(SavedTurn(row, snapshot, n), n)
           /\ \A k : Holds(row, k) => Holds(SavedTurn(row, snapshot, n), k)
<1> DEFINE t == Append(row.transcript, n)
<1>1. row.transcript \in Seq(Nat) /\ row \in Row
  BY DEF GoodRow, Row
<1>2. /\ SavedTurn(row, snapshot, n).transcript = t
      /\ SavedTurn(row, snapshot, n).status = row.status
      /\ SavedTurn(row, snapshot, n).edited <=> row.edited
  BY <1>1 DEF SavedTurn, Row
<1>3. /\ Len(row.transcript) + 1 \in DOMAIN t
      /\ t[Len(row.transcript) + 1] = n
      /\ \A i \in DOMAIN row.transcript : i \in DOMAIN t /\ t[i] = row.transcript[i]
  BY <1>1
<1> HIDE DEF t
<1> QED
  BY <1>2, <1>3 DEF Holds

\* What an admin leaves of a row.
LEMMA EditedFields ==
    ASSUME NEW row \in GoodRow, NEW status \in Status, NEW booking \in BOOLEAN
    PROVE  /\ Edited(row, status, booking).transcript = row.transcript
           /\ Edited(row, status, booking).tokens = row.tokens
           /\ Edited(row, status, booking).status = status
           /\ Edited(row, status, booking).edited <=> (row.edited \/ status # row.status)
BY DEF Edited, GoodRow, Row

\* The same transcript holds the same turns.
LEMMA SameTranscript ==
    ASSUME NEW r, NEW q, r.transcript = q.transcript
    PROVE  \A n : Holds(r, n) <=> Holds(q, n)
BY DEF Holds

\* An UPDATE or INSERT of the row of one session.
LEMMA WriteOne ==
    ASSUME Good, NEW s \in Sessions, NEW row, Exists(db[s]),
           Write(s, row) \/ SaveFields(s, row)
    PROVE  db'[s] = row /\ \A t \in Sessions \ {s} : db'[t] = db[t]
BY DEF Good, RowsGood, Write, SaveFields

-----------------------------------------------------------------------------
(* Every action keeps the invariant.                                       *)

\* A request that begins with a row it reads: only one that is active may be
\* worked on, so nothing has been said of its end.
LEMMA ReadSerial ==
    ASSUME Good, Serial, ~SeparateReplica, NEW w \in Workers, NEW s \in Sessions,
           \/ TurnRead(w, s) \/ EndRead(w, s) \/ UpdateRead(w, s)
           \/ DestroyRead(w, s) \/ EditRead(w, s)
    PROVE  Serial'
<1>1. PICK pc \in {"agent", "end", "update", "destroy", "edit"} :
        /\ Start(w, pc, s, db[s])
        /\ Exists(db[s])
        /\ pc \in {"agent", "end"} => db[s].status = "active"
        /\ UNCHANGED <<rows, published, acked>>
  BY DEF TurnRead, EndRead, UpdateRead, DestroyRead, EditRead, Read, Admits, Exists, Missing
<1> DEFINE h == [pc |-> pc, sid |-> s, row |-> db[s], turn |-> served']
<1>2. req' = [req EXCEPT ![w] = h] /\ UNCHANGED <<db, published, acked>>
  BY <1>1 DEF Start, rows
<1>3. Settled(db[s], Completions(published, s), Answered(acked, s))
  BY DEF Serial
<1>4. pc \in {"agent", "end"} => db[s].edited \/ Completions(published, s) = {}
  BY <1>1, <1>3 DEF Settled
<1>5. InStep(h, db[s], Completions(published, s))
  BY <1>1, <1>4 DEF InStep
<1>6. h.sid = s
  OBVIOUS
<1>7. ASSUME NEW v \in Workers, req'[v] # Idle
      PROVE  InStep(req'[v], db'[req'[v].sid], Completions(published', req'[v].sid))
  <2> HIDE DEF h
  <2>1. CASE v = w
    BY <1>2, <1>5, <1>6, <2>1 DEF Good, WorkersGood
  <2>2. CASE v # w
    BY <1>2, <1>7, <2>2 DEF Serial, Good, WorkersGood
  <2> QED
    BY <2>1, <2>2
<1> QED
  BY <1>2, <1>7 DEF Serial

\* A new row: no event and no answer is about a session that was not there.
LEMMA CreateSerial ==
    ASSUME Good, Serial, NEW w \in Workers, NEW s \in Sessions, CreateRow(w, s)
    PROVE  Serial'
<1>1. PICK b \in BOOLEAN :
        /\ Start(w, "announce_start", s, [NoRow EXCEPT !.status = "active", !.booking = b])
        /\ Write(s, [NoRow EXCEPT !.status = "active", !.booking = b])
        /\ db[s].status = "absent"
        /\ UNCHANGED <<published, acked>>
  BY DEF CreateRow
<1> DEFINE row == [NoRow EXCEPT !.status = "active", !.booking = b]
           h == [pc |-> "announce_start", sid |-> s, row |-> row, turn |-> served']
<1>2. /\ req' = [req EXCEPT ![w] = h]
      /\ db' = [db EXCEPT ![s] = row]
      /\ UNCHANGED <<published, acked>>
  BY <1>1 DEF Start, Write
<1>3. row.status = "active" /\ Exists(row)
  BY DEF NoRow, Exists, Missing
<1>4. h.sid = s /\ h.pc = "announce_start"
  OBVIOUS
<1> HIDE DEF row, h
<1>5. ~Exists(db[s])
  BY <1>1 DEF Exists, Missing
<1>6. \A v \in Workers \ {w} : req[v] # Idle => req[v].sid # s
  BY <1>5 DEF Serial, InStep
<1>7. Completions(published, s) = {} /\ Answered(acked, s) = {}
  BY <1>1 DEF Serial, Settled
<1>8. InStep(h, row, Completions(published, s))
  BY <1>3, <1>4 DEF InStep
<1>9. Settled(row, Completions(published, s), Answered(acked, s))
  BY <1>7 DEF Settled
<1> QED
  BY <1>2, <1>4, <1>6, <1>8, <1>9, OneSession, Quiet DEF Good, RowsGood

\* An admin's new row is no different, but that it may begin in any status.
LEMMA AddSerial ==
    ASSUME Good, Serial, NEW w \in Workers, NEW s \in Sessions, AdminAdds(w, s)
    PROVE  Serial'
<1>1. PICK status \in Status, b \in BOOLEAN :
        Write(s, Edited([NoRow EXCEPT !.status = "active"], status, b))
  BY DEF AdminAdds
<1> DEFINE row == Edited([NoRow EXCEPT !.status = "active"], status, b)
<1>2. db' = [db EXCEPT ![s] = row] /\ UNCHANGED <<req, published, acked>>
  BY <1>1 DEF AdminAdds, Write
<1>3. db[s].status = "absent"
  BY DEF AdminAdds
<1>4. \A v \in Workers : req[v] # Idle => req[v].sid \in Sessions \ {s}
  BY <1>3 DEF Serial, InStep, Exists, Missing, Good, WorkersGood, GoodBusy
<1>5. Completions(published, s) = {} /\ Answered(acked, s) = {}
  BY <1>3 DEF Serial, Settled
<1> HIDE DEF row
<1>6. Settled(row, Completions(published, s), Answered(acked, s))
  BY <1>5 DEF Settled
<1>7. /\ \A t \in Sessions \ {s} : db'[t] = db[t]
      /\ db'[s] = row
  BY <1>2 DEF Good, RowsGood
<1> QED
  BY <1>2, <1>4, <1>6, <1>7 DEF Serial

\* The agent raised: a failed row, of which no end was announced.
LEMMA AgentFailsSerial ==
    ASSUME Good, OneAtATime, Serial, NEW w \in Workers, AgentFails(w)
    PROVE  Serial'
<1> DEFINE s == req[w].sid
           row == SavedFailure(db[s])
<1>1. /\ s \in Sessions
      /\ InStep(req[w], db[s], Completions(published, s))
      /\ Settled(db[s], Completions(published, s), Answered(acked, s))
      /\ \A v \in Workers \ {w} : req[v] # Idle => req[v].sid # s
      /\ req[w].pc = "agent"
  BY OwnSession DEF AgentFails, At, Phases
<1>2. Exists(db[s]) /\ (db[s].edited \/ Completions(published, s) = {})
  BY <1>1 DEF InStep
<1>3. /\ row.transcript = db[s].transcript /\ row.status = "failed"
      /\ row.edited <=> db[s].edited
  BY <1>1, SavedFields DEF Good, RowsGood
<1>4. SaveFields(s, row) /\ Respond(w) /\ UNCHANGED <<published, acked>>
  BY DEF AgentFails
<1> HIDE DEF s, row
<1>5. db'[s] = row /\ \A t \in Sessions \ {s} : db'[t] = db[t]
  BY <1>1, <1>2, <1>4, WriteOne
<1>6. Settled(row, Completions(published, s), Answered(acked, s))
  BY <1>1, <1>2, <1>3, SameTranscript DEF Settled, Exists, Missing
<1> QED
  BY <1>1, <1>4, <1>5, <1>6, OneSession, Quiet DEF Respond

\* The agent replied: the turn is in the row before its client hears of it.
LEMMA AgentRepliesSerial ==
    ASSUME Good, OneAtATime, Serial, NEW w \in Workers, AgentReplies(w)
    PROVE  Serial'
<1> DEFINE s == req[w].sid
           n == req[w].turn
           row == SavedTurn(db[s], req[w].row, n)
<1>1. /\ s \in Sessions
      /\ InStep(req[w], db[s], Completions(published, s))
      /\ Settled(db[s], Completions(published, s), Answered(acked, s))
      /\ \A v \in Workers \ {w} : req[v] # Idle => req[v].sid # s
      /\ req[w].pc = "agent"
  BY OwnSession DEF AgentReplies, At, Phases
<1>2. /\ Exists(db[s])
      /\ db[s].edited \/ Completions(published, s) = {}
      /\ req[w].row.transcript = db[s].transcript
  BY <1>1 DEF InStep
<1>3. req[w] \in GoodBusy /\ req[w].row \in GoodRow /\ n \in Nat /\ db[s] \in GoodRow
  BY <1>1, BusyWorker DEF AgentReplies, Good, RowsGood, Phases
<1>4. /\ row.status = db[s].status
      /\ row.edited <=> db[s].edited
      /\ Holds(row, n)
      /\ \A k : Holds(db[s], k) => Holds(row, k)
  BY <1>2, <1>3, SavedTurnHolds
<1>5. /\ SaveFields(s, row)
      /\ UNCHANGED published
      /\ \/ Respond(w) /\ acked' = acked \cup {Turn(w)}
         \/ GoTo(w, "file") /\ UNCHANGED acked
  BY <1>2 DEF AgentReplies, Answer200
<1> HIDE DEF row
<1>6. db'[s] = row /\ \A t \in Sessions \ {s} : db'[t] = db[t]
  BY <1>1, <1>2, <1>5, WriteOne
<1>7. Exists(row)
  BY <1>2, <1>4 DEF Exists
<1>8. CASE Respond(w) /\ acked' = acked \cup {Turn(w)}
  <2>1. /\ Answered(acked', s) = Answered(acked, s) \cup {n}
        /\ \A t \in Sessions \ {s} : Answered(acked', t) = Answered(acked, t)
    BY <1>3, <1>8, AnswerOne
  <2>2. Settled(row, Completions(published, s), Answered(acked', s))
    BY <1>1, <1>2, <1>4, <1>7, <2>1 DEF Settled, Exists, Missing
  <2> HIDE DEF s, n
  <2> QED
    BY <1>1, <1>5, <1>6, <1>8, <2>1, <2>2, OneSession DEF Respond
<1>9. CASE GoTo(w, "file") /\ UNCHANGED acked
  <2> DEFINE h == [req[w] EXCEPT !.pc = "file"]
  <2>1. h.pc = "file" /\ h.sid = s /\ h.turn = n
    BY <1>3 DEF GoodBusy
  <2>2. req' = [req EXCEPT ![w] = h]
    BY <1>9 DEF GoTo
  <2> HIDE DEF h
  <2>3. InStep(h, row, Completions(published, s))
    BY <1>4, <1>7, <2>1 DEF InStep
  <2>4. Settled(row, Completions(published, s), Answered(acked, s))
    BY <1>1, <1>2, <1>4, <1>7 DEF Settled
  <2> HIDE DEF s, n
  <2> QED
    BY <1>1, <1>5, <1>6, <1>9, <2>1, <2>2, <2>3, <2>4, OneSession, Quiet
<1> QED
  BY <1>5, <1>8, <1>9

\* The events of a service request are not about the end of its session.
LEMMA FileSerial ==
    ASSUME Good, OneAtATime, Serial, NEW w \in Workers, FileRequest(w) \/ FileAborts(w)
    PROVE  Serial'
<1> DEFINE s == req[w].sid
           h == [req[w] EXCEPT !.pc = "commit"]
<1>1. /\ s \in Sessions
      /\ InStep(req[w], db[s], Completions(published, s))
      /\ Settled(db[s], Completions(published, s), Answered(acked, s))
      /\ \A v \in Workers \ {w} : req[v] # Idle => req[v].sid # s
      /\ req[w].pc = "file"
      /\ req[w] \in GoodBusy
  BY OwnSession, BusyWorker DEF FileRequest, FileAborts, At, Phases, Good
<1>2. h.pc = "commit" /\ h.sid = s /\ h.turn = req[w].turn
  BY <1>1 DEF GoodBusy
<1>3. /\ published \subseteq published'
      /\ published' \subseteq published \cup {SignalEvent(w), CreatedEvent(w)}
  BY DEF FileRequest, FileAborts, Enqueued
<1>4. \A e \in published' \ published : e.kind # "completed"
  BY <1>3 DEF SignalEvent, CreatedEvent
<1>5. \A t \in Sessions : Completions(published', t) = Completions(published, t)
  BY <1>3, <1>4, OtherKinds
<1>6. /\ req' = [req EXCEPT ![w] = h] \/ req' = [req EXCEPT ![w] = Idle]
      /\ UNCHANGED <<db, acked>>
  BY DEF FileRequest, FileAborts, GoTo, Respond, rows
<1> HIDE DEF h
<1>7. InStep(h, db[s], Completions(published, s))
  BY <1>1, <1>2 DEF InStep
<1>8. Settled(db[s], Completions(published, s), Answered(acked, s))
  BY <1>1
<1>9. /\ db'[s] = db[s]
      /\ Completions(published', s) = Completions(published, s)
      /\ Answered(acked', s) = Answered(acked, s)
      /\ \A t \in Sessions \ {s} :
            /\ db'[t] = db[t]
            /\ Completions(published', t) = Completions(published, t)
            /\ Answered(acked', t) = Answered(acked, t)
  BY <1>1, <1>5, <1>6
<1> HIDE DEF s
<1>10. CASE req' = [req EXCEPT ![w] = h]
  BY <1>1, <1>2, <1>7, <1>8, <1>9, <1>10, OneSession
<1>11. CASE req' = [req EXCEPT ![w] = Idle]
  BY <1>1, <1>8, <1>9, <1>11, OneSession
<1> QED
  BY <1>6, <1>10, <1>11

\* The client hears of its turn once its request is committed.
LEMMA CommitSerial ==
    ASSUME Good, OneAtATime, Serial, NEW w \in Workers, CommitRequest(w)
    PROVE  Serial'
<1> DEFINE s == req[w].sid
           n == req[w].turn
<1>1. /\ s \in Sessions
      /\ InStep(req[w], db[s], Completions(published, s))
      /\ Settled(db[s], Completions(published, s), Answered(acked, s))
      /\ \A v \in Workers \ {w} : req[v] # Idle => req[v].sid # s
      /\ req[w].pc = "commit"
      /\ req[w] \in GoodBusy
  BY OwnSession, BusyWorker DEF CommitRequest, At, Phases, Good
<1>2. Exists(db[s]) /\ Holds(db[s], n)
  BY <1>1 DEF InStep
<1>3. /\ Respond(w) /\ acked' = acked \cup {Turn(w)}
      /\ UNCHANGED <<db, published>>
  BY <1>2 DEF CommitRequest, Answer200, rows
<1>4. /\ Answered(acked', s) = Answered(acked, s) \cup {n}
      /\ \A t \in Sessions \ {s} : Answered(acked', t) = Answered(acked, t)
  BY <1>1, <1>3, AnswerOne
<1>5. Settled(db[s], Completions(published, s), Answered(acked', s))
  BY <1>1, <1>2, <1>4 DEF Settled, Exists, Missing
<1> HIDE DEF s, n
<1> QED
  BY <1>1, <1>3, <1>4, <1>5, OneSession DEF Respond

\* The row is closed, but nothing is said of it yet.
LEMMA EndSaveSerial ==
    ASSUME Good, OneAtATime, Serial, NEW w \in Workers, EndSave(w)
    PROVE  Serial'
<1> DEFINE s == req[w].sid
           row == SavedEnd(db[s])
           h == [req[w] EXCEPT !.pc = "announce_end"]
<1>1. /\ s \in Sessions
      /\ InStep(req[w], db[s], Completions(published, s))
      /\ Settled(db[s], Completions(published, s), Answered(acked, s))
      /\ \A v \in Workers \ {w} : req[v] # Idle => req[v].sid # s
      /\ req[w].pc = "end"
      /\ req[w] \in GoodBusy
  BY OwnSession, BusyWorker DEF EndSave, At, Phases, Good
<1>2. /\ Exists(db[s])
      /\ db[s].edited \/ Completions(published, s) = {}
      /\ req[w].row.transcript = db[s].transcript /\ req[w].row.tokens = db[s].tokens
  BY <1>1 DEF InStep
<1>3. /\ row.transcript = db[s].transcript /\ row.tokens = db[s].tokens
      /\ row.status = "completed"
      /\ row.edited <=> db[s].edited
  BY <1>1, SavedFields DEF Good, RowsGood
<1>4. h.pc = "announce_end" /\ h.sid = s /\ h.row = req[w].row
  BY <1>1 DEF GoodBusy
<1>5. /\ SaveFields(s, row)
      /\ req' = [req EXCEPT ![w] = h]
      /\ UNCHANGED <<published, acked>>
  BY <1>2 DEF EndSave, GoTo
<1> HIDE DEF row, h
<1>6. db'[s] = row /\ \A t \in Sessions \ {s} : db'[t] = db[t]
  BY <1>1, <1>2, <1>5, WriteOne
<1>7. InStep(h, row, Completions(published, s))
  BY <1>2, <1>3, <1>4 DEF InStep, Exists, Missing
<1>8. Settled(row, Completions(published, s), Answered(acked, s))
  BY <1>1, <1>2, <1>3, SameTranscript DEF Settled, Exists, Missing
<1> HIDE DEF s
<1> QED
  BY <1>1, <1>4, <1>5, <1>6, <1>7, <1>8, OneSession, Quiet

\* The one event about the end of the session, with the tokens of its row.
LEMMA EndAnnounceSerial ==
    ASSUME Good, OneAtATime, Serial, NEW w \in Workers, EndAnnounce(w)
    PROVE  Serial'
<1> DEFINE s == req[w].sid
           e == [kind |-> "completed", sid |-> s, turn |-> req[w].turn,
                 tokens |-> req[w].row.tokens]
<1>1. /\ s \in Sessions
      /\ InStep(req[w], db[s], Completions(published, s))
      /\ Settled(db[s], Completions(published, s), Answered(acked, s))
      /\ \A v \in Workers \ {w} : req[v] # Idle => req[v].sid # s
      /\ req[w].pc = "announce_end"
  BY OwnSession DEF EndAnnounce, At, Phases
<1>2. /\ db[s].edited \/ Completions(published, s) = {}
      /\ db[s].status = "completed"
      /\ req[w].row.tokens = db[s].tokens
  BY <1>1 DEF InStep
<1>3. /\ Respond(w) /\ UNCHANGED <<db, acked>>
      /\ published' = published \/ published' = published \cup {e}
  BY DEF EndAnnounce, Publish, Enqueued, QueueFull, rows
<1>4. \A t \in Sessions \ {s} : Completions(published', t) = Completions(published, t)
  BY <1>3 DEF Completions
<1>5. db[s].edited \/ Completions(published', s) \subseteq {e}
  BY <1>2, <1>3 DEF Completions
<1>6. Settled(db[s], Completions(published', s), Answered(acked, s))
  <2>1. e.tokens = db[s].tokens
    BY <1>2
  <2> HIDE DEF e
  <2> QED
    BY <1>1, <1>2, <1>5, <2>1 DEF Settled
<1> HIDE DEF s, e
<1>7. req' = [req EXCEPT ![w] = Idle]
  BY <1>3 DEF Respond
<1> QED
  BY <1>1, <1>3, <1>4, <1>6, <1>7, OneSession

\* The events about the beginning of a session say nothing of its end.
LEMMA CreateAnnounceSerial ==
    ASSUME Good, OneAtATime, Serial, NEW w \in Workers, CreateAnnounce(w)
    PROVE  Serial'
<1> DEFINE s == req[w].sid
           e == [kind |-> "started", sid |-> s, turn |-> 0, tokens |-> 0]
<1>1. /\ s \in Sessions
      /\ Settled(db[s], Completions(published, s), Answered(acked, s))
      /\ \A v \in Workers \ {w} : req[v] # Idle => req[v].sid # s
  BY OwnSession DEF CreateAnnounce, At, Phases
<1>2. /\ Respond(w) /\ UNCHANGED <<db, acked>>
      /\ published \subseteq published' /\ published' \subseteq published \cup {e}
      /\ e.kind # "completed"
  BY DEF CreateAnnounce, Publish, Enqueued, QueueFull, rows
<1>3. \A t \in Sessions : Completions(published', t) = Completions(published, t)
  BY <1>2, OtherKinds
<1> HIDE DEF e, s
<1>4. Settled(db[s], Completions(published', s), Answered(acked, s))
  BY <1>1, <1>3
<1>5. req' = [req EXCEPT ![w] = Idle] /\ UNCHANGED <<db, acked>>
  BY <1>2 DEF Respond
<1> QED
  BY <1>1, <1>3, <1>4, <1>5, OneSession

\* A whole-row save puts back the transcript that is there, and a status that
\* is there or that only the clean-up has replaced.
LEMMA UpdateSaveSerial ==
    ASSUME Good, OneAtATime, Serial, NEW w \in Workers, UpdateSave(w)
    PROVE  Serial'
<1> DEFINE s == req[w].sid
           row == req[w].row
<1>1. /\ s \in Sessions
      /\ InStep(req[w], db[s], Completions(published, s))
      /\ Settled(db[s], Completions(published, s), Answered(acked, s))
      /\ \A v \in Workers \ {w} : req[v] # Idle => req[v].sid # s
      /\ req[w].pc = "update"
  BY OwnSession DEF UpdateSave, At, Phases
<1>2. /\ Exists(db[s])
      /\ row.transcript = db[s].transcript /\ row.tokens = db[s].tokens
      /\ row.edited <=> db[s].edited
      /\ \/ row.status = db[s].status
         \/ db[s].status = "timeout" /\ row.status = "active"
  BY <1>1 DEF InStep
<1>3. Write(s, row) /\ Respond(w) /\ UNCHANGED <<published, acked>>
  BY DEF UpdateSave
<1> HIDE DEF s, row
<1>4. db'[s] = row /\ \A t \in Sessions \ {s} : db'[t] = db[t]
  BY <1>1, <1>2, <1>3, WriteOne
<1>5. Settled(row, Completions(published, s), Answered(acked, s))
  BY <1>1, <1>2, SameTranscript DEF Settled, Exists, Missing
<1> QED
  BY <1>1, <1>3, <1>4, <1>5, OneSession, Quiet DEF Respond

\* The admin's page saves what it read, too, or a status that marks the row.
LEMMA EditSaveSerial ==
    ASSUME Good, OneAtATime, Serial, NEW w \in Workers, EditSave(w)
    PROVE  Serial'
<1> DEFINE s == req[w].sid
           old == req[w].row
<1>1. /\ s \in Sessions
      /\ InStep(req[w], db[s], Completions(published, s))
      /\ Settled(db[s], Completions(published, s), Answered(acked, s))
      /\ \A v \in Workers \ {w} : req[v] # Idle => req[v].sid # s
      /\ req[w].pc = "edit"
      /\ old \in GoodRow
  BY OwnSession, BusyWorker DEF EditSave, At, Phases, Good
<1>2. /\ Exists(db[s])
      /\ old.transcript = db[s].transcript /\ old.tokens = db[s].tokens
      /\ old.edited <=> db[s].edited
      /\ \/ old.status = db[s].status
         \/ db[s].status = "timeout" /\ old.status = "active"
  BY <1>1 DEF InStep
<1>3. /\ Respond(w) /\ UNCHANGED <<published, acked>>
      /\ \E status \in Status, booking \in BOOLEAN : Write(s, Edited(old, status, booking))
  BY DEF EditSave
<1>4. PICK status \in Status, booking \in BOOLEAN : Write(s, Edited(old, status, booking))
  BY <1>3
<1> DEFINE row == Edited(old, status, booking)
<1>5. /\ row.transcript = old.transcript /\ row.tokens = old.tokens
      /\ row.status = status
      /\ row.edited <=> (old.edited \/ status # old.status)
  BY <1>1, EditedFields
<1>6. Write(s, row)
  BY <1>4
<1> HIDE DEF s, old, row
<1>7. db'[s] = row /\ \A t \in Sessions \ {s} : db'[t] = db[t]
  BY <1>1, <1>2, <1>6, WriteOne
<1>8. row.status # "absent" /\ Exists(row)
  BY <1>5 DEF Status, Terminal, Exists, Missing
<1>9. Settled(row, Completions(published, s), Answered(acked, s))
  BY <1>1, <1>2, <1>5, <1>8, SameTranscript DEF Settled, Exists, Missing
<1> QED
  BY <1>1, <1>3, <1>7, <1>9, OneSession, Quiet DEF Respond

\* Nothing is promised of a row that is deleted.
LEMMA DestroySerial ==
    ASSUME Good, OneAtATime, Serial, NEW w \in Workers, DestroyDelete(w)
    PROVE  Serial'
<1> DEFINE s == req[w].sid
           row == [NoRow EXCEPT !.status = "deleted", !.edited = db[s].edited]
<1>1. /\ s \in Sessions
      /\ InStep(req[w], db[s], Completions(published, s))
      /\ Settled(db[s], Completions(published, s), Answered(acked, s))
      /\ \A v \in Workers \ {w} : req[v] # Idle => req[v].sid # s
  BY OwnSession DEF DestroyDelete, At, Phases
<1>2. Exists(db[s])
  BY <1>1 DEF InStep
<1>3. SaveFields(s, row) /\ Respond(w) /\ UNCHANGED <<published, acked>>
  BY DEF DestroyDelete
<1>4. row.status = "deleted" /\ row.edited = db[s].edited
  BY DEF NoRow
<1> HIDE DEF s, row
<1>5. db'[s] = row /\ \A t \in Sessions \ {s} : db'[t] = db[t]
  BY <1>1, <1>2, <1>3, WriteOne
<1>6. Settled(row, Completions(published, s), Answered(acked, s))
  BY <1>1, <1>4 DEF Settled, Exists, Missing
<1> QED
  BY <1>1, <1>3, <1>5, <1>6, OneSession, Quiet DEF Respond

\* A worker that dies owes nothing any more.
LEMMA CrashSerial ==
    ASSUME Good, Serial, NEW w \in Workers, Crash(w)
    PROVE  Serial'
BY DEF Crash, Respond, Serial, Good, WorkersGood, rows

\* The clean-up changes the status of active rows only, whose end nobody has
\* announced, and no transcript.
LEMMA CleanupSerial ==
    ASSUME Good, Serial, Cleanup
    PROVE  Serial'
<1>1. ASSUME NEW s \in Sessions
      PROVE  /\ db'[s] = db[s] \/ (db[s].status = "active" /\ db'[s].status = "timeout")
             /\ db'[s].transcript = db[s].transcript /\ db'[s].tokens = db[s].tokens
             /\ db'[s].edited <=> db[s].edited
  BY SavedFields DEF Cleanup, Stale, Good, RowsGood
<1>2. UNCHANGED <<req, published, acked>>
  BY DEF Cleanup
<1>3. ASSUME NEW w \in Workers, req[w] # Idle
      PROVE  InStep(req[w], db'[req[w].sid], Completions(published, req[w].sid))
  <2> DEFINE s == req[w].sid
  <2>1. s \in Sessions
    BY <1>3 DEF Good, WorkersGood, GoodBusy
  <2>2. InStep(req[w], db[s], Completions(published, s))
    BY <1>3 DEF Serial
  <2> QED
    BY <1>1, <2>1, <2>2, SameTranscript DEF InStep, Exists, Missing
<1>4. ASSUME NEW s \in Sessions
      PROVE  Settled(db'[s], Completions(published, s), Answered(acked, s))
  <2>1. Settled(db[s], Completions(published, s), Answered(acked, s))
    BY DEF Serial
  <2> QED
    BY <1>1, <2>1, SameTranscript DEF Settled, Exists, Missing
<1> QED
  BY <1>2, <1>3, <1>4 DEF Serial

\* Every step, as long as requests on one session are served in turn.
LEMMA NextSerial ==
    ASSUME ~SeparateReplica, Good, OneAtATime, Serial, [Next]_vars
    PROVE  Serial'
<1>1. ASSUME NEW w \in Workers, NEW s \in Sessions, Accept(w, s) PROVE Serial'
  BY <1>1, ReadSerial, CreateSerial, AddSerial DEF Accept
<1>2. ASSUME NEW w \in Workers, Proceed(w) PROVE Serial'
  BY <1>2, CreateAnnounceSerial, AgentFailsSerial, AgentRepliesSerial, FileSerial,
     CommitSerial, EndSaveSerial, EndAnnounceSerial, UpdateSaveSerial,
     DestroySerial, EditSaveSerial DEF Proceed
<1>3. CASE UNCHANGED <<db, published, acked, req>>
  BY <1>3 DEF Serial
<1> QED
  BY <1>1, <1>2, <1>3, CrashSerial, CleanupSerial
     DEF Next, Age, Replay, vars, rows

-----------------------------------------------------------------------------
(* The properties.                                                         *)

\* With its requests served one after the other, a session's rows, answers and
\* events agree at every moment.
THEOREM AlwaysSerial ==
    ASSUME ~SeparateReplica
    PROVE  Spec /\ []OneAtATime => []Serial
<1>1. Good /\ OneAtATime /\ Serial /\ [Next]_vars => Serial'
  BY NextSerial
<1> QED
  BY <1>1, InitSerial, AlwaysGood, PTL DEF Spec

\* A turn that was answered with 200 stays in the transcript of its session: no later
\* turn, end or PATCH saves a snapshot without it (views/main.py:211-217).
THEOREM AckedTurnsAlwaysKept ==
    ASSUME ~SeparateReplica
    PROVE  Spec /\ []OneAtATime => []AckedTurnsKept
<1>1. Good /\ Serial => AckedTurnsKept
  <2> SUFFICES ASSUME Good, Serial, NEW a \in acked, Exists(db[a.sid])
               PROVE  \E i \in DOMAIN db[a.sid].transcript :
                         db[a.sid].transcript[i] = a.turn
    BY DEF AckedTurnsKept
  <2>1. /\ a.sid \in Sessions /\ a.turn \in Nat
        /\ a = [sid |-> a.sid, turn |-> a.turn]
    BY DEF Good, HistoryGood, ServiceRequest
  <2>2. a.turn \in Answered(acked, a.sid)
    BY <2>1 DEF Answered
  <2>3. Holds(db[a.sid], a.turn)
    BY <2>1, <2>2 DEF Serial, Settled
  <2> QED
    BY <2>3 DEF Holds
<1> QED
  BY <1>1, AlwaysSerial, AlwaysGood, PTL

\* A session no admin gave another status is announced as completed at most once:
\* the second end gets a 400 (views/main.py:258-259).
THEOREM CompletedAtMostOnce ==
    ASSUME ~SeparateReplica
    PROVE  Spec /\ []OneAtATime => []CompletedOnce
<1>1. Serial => CompletedOnce
  <2> SUFFICES ASSUME Serial, NEW s \in Sessions, ~db[s].edited
               PROVE  Cardinality(CompletedEvents(s)) <= 1
    BY DEF CompletedOnce
  <2>1. \A e, f \in CompletedEvents(s) : e = f
    BY DEF Serial, Settled, Completions, CompletedEvents
  <2>2. CASE CompletedEvents(s) = {}
    BY <2>2, FS_EmptySet
  <2>3. CASE CompletedEvents(s) # {}
    <3>1. PICK e : CompletedEvents(s) = {e}
      BY <2>1, <2>3
    <3>2. Cardinality({e}) = 1
      BY FS_Singleton, Zenon
    <3> QED
      BY <3>1, <3>2
  <2> QED
    BY <2>2, <2>3
<1> QED
  BY <1>1, AlwaysSerial, PTL

\* The total an event announced is the total of the completed row
\* (views/main.py:268-271), unless an admin reopened it.
THEOREM CompletedEventsAlwaysAccurate ==
    ASSUME ~SeparateReplica
    PROVE  Spec /\ []OneAtATime => []CompletedEventAccurate
<1>1. Serial => CompletedEventAccurate
  BY DEF Serial, Settled, Completions, CompletedEvents, CompletedEventAccurate
<1> QED
  BY <1>1, AlwaysSerial, PTL

\* A hotel with one sync worker needs no hypothesis on its clients: its requests
\* are served one after the other.
THEOREM OneWorkerServesInTurn ==
    ASSUME ~SeparateReplica, \A v, w \in Workers : v = w
    PROVE  Spec => [](AckedTurnsKept /\ CompletedOnce /\ CompletedEventAccurate)
<1>1. OneAtATime
  BY DEF OneAtATime
<1> QED
  BY <1>1, AckedTurnsAlwaysKept, CompletedAtMostOnce, CompletedEventsAlwaysAccurate, PTL
=============================================================================
