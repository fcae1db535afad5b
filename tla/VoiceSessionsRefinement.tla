------------------------- MODULE VoiceSessionsRefinement -------------------------
(***************************************************************************)
(* VoiceSessions under its documented routes implements SessionLifecycle.  *)
(***************************************************************************)
EXTENDS VoiceSessionsProofs

\* What relates a request in progress to the lifecycle: its turn number is in
\* range, its session was opened, and no copy of an unopened session says
\* otherwise.
Opened ==
    /\ served \in 0..MaxRequests
    /\ \A w \in Workers : req[w] # Idle =>
          /\ req[w].turn \in 1..MaxRequests
          /\ db[req[w].sid].status # "absent"
    /\ \A s \in Sessions : db[s].status = "absent" =>
          /\ wal[s] = <<>>
          /\ replica[s].status = "absent"

\* Nothing is opened at first.
LEMMA OpenedInit == Init => Opened
BY BoundAssumption DEF Init, Opened, NoRow

\* The requests a client of the documented routes begins.
LEMMA DocumentedAccepts ==
    ASSUME Documented, NEW w \in Workers, NEW s \in Sessions, Accept(w, s)
    PROVE  CreateRow(w, s) \/ TurnRead(w, s) \/ EndRead(w, s)
BY DEF Documented, DocumentedRoutes, Accept, UpdateRead, DestroyRead, AdminAdds, EditRead

\* A session that was opened stays so, and an unopened one that stays so is
\* untouched in the log and on the replica.
LEMMA UnopenedUntouched ==
    ASSUME Documented, Good, NoRewriter, Opened, [Next]_vars, NEW t \in Sessions,
           db'[t].status = "absent"
    PROVE  /\ db[t].status = "absent"
           /\ wal'[t] = <<>>
           /\ replica'[t].status = "absent"
<1>1. db[t].status = "absent"
  BY StatusStep DEF StatusMoves
<1>2. /\ wal[t] = <<>>
      /\ replica[t].status = "absent"
  BY <1>1 DEF Opened
<1>3. ASSUME NEW s \in Sessions, NEW row, SaveFields(s, row)
      PROVE  wal'[t] = wal[t] /\ replica' = replica
  BY <1>1, <1>3 DEF SaveFields, Write, Exists, Missing, Good, RowsGood, rows
<1>4. ASSUME NEW w \in Workers, NEW s \in Sessions, CreateRow(w, s)
      PROVE  wal'[t] = wal[t] /\ replica' = replica
  <2>1. PICK b \in BOOLEAN :
          Write(s, [NoRow EXCEPT !.status = "active", !.booking = b])
    BY <1>4 DEF CreateRow
  <2>2. [NoRow EXCEPT !.status = "active", !.booking = b].status = "active"
    BY DEF NoRow
  <2>3. t # s
    BY <2>1, <2>2 DEF Write, Good, RowsGood
  <2> QED
    BY <2>1, <2>3 DEF Write, Good, RowsGood
<1>5. ASSUME NEW w \in Workers, AgentFails(w) \/ AgentReplies(w) \/ EndSave(w)
      PROVE  wal'[t] = wal[t] /\ replica' = replica
  <2>1. req[w].sid \in Sessions
    BY <1>5, BusyWorker DEF Good, AgentFails, AgentReplies, EndSave, Phases
  <2> QED
    BY <1>3, <1>5, <2>1 DEF AgentFails, AgentReplies, EndSave
<1>6. ASSUME Cleanup
      PROVE  wal'[t] = wal[t] /\ replica' = replica
  BY <1>1, <1>6 DEF Cleanup, Stale, Good, RowsGood
<1>7. ASSUME NEW s \in Sessions, Replay(s)
      PROVE  wal'[t] = wal[t] /\ replica'[t] = replica[t]
  BY <1>2, <1>7 DEF Replay, Good, RowsGood
<1>8. ASSUME NEW w \in Workers, NEW s \in Sessions, Accept(w, s), ~CreateRow(w, s)
      PROVE  UNCHANGED rows
  BY <1>8, DocumentedAccepts DEF TurnRead, EndRead
<1>9. ASSUME NEW w \in Workers, Proceed(w),
             ~AgentFails(w), ~AgentReplies(w), ~EndSave(w)
      PROVE  UNCHANGED rows
  BY <1>9 DEF Proceed, CreateAnnounce, FileRequest, FileAborts, CommitRequest,
     EndAnnounce, UpdateSave, DestroyDelete, EditSave, NoRewriter
<1>10. wal'[t] = wal[t] /\ replica'[t] = replica[t]
  BY <1>4, <1>5, <1>6, <1>7, <1>8, <1>9 DEF Next, Crash, Age, rows, vars
<1> QED
  BY <1>1, <1>2, <1>10

\* Every step keeps Opened.
LEMMA OpenedNext ==
    ASSUME Documented, Good, NoRewriter, Opened, [Next]_vars
    PROVE  Opened'
<1>1. \A s \in Sessions : db[s].status # "absent" => db'[s].status # "absent"
  BY UnopenedUntouched
<1>2. \A s \in Sessions : db'[s].status = "absent" =>
         wal'[s] = <<>> /\ replica'[s].status = "absent"
  BY UnopenedUntouched
<1>3. ASSUME UNCHANGED served,
             NEW w \in Workers, req[w] # Idle,
             \/ Respond(w)
             \/ \E pc \in Phases : GoTo(w, pc)
      PROVE  Opened'
  <2>1. req[w] \in GoodBusy
    BY <1>3 DEF Good, WorkersGood
  <2>2. \A v \in Workers : req'[v] # Idle =>
           /\ req[v] # Idle
           /\ req'[v].turn = req[v].turn
           /\ req'[v].sid = req[v].sid
           /\ req[v].sid \in Sessions
    BY <1>3, <2>1 DEF Good, WorkersGood, Respond, GoTo, GoodBusy
  <2> QED
    BY <1>1, <1>2, <1>3, <2>2 DEF Opened
<1>4. CASE UNCHANGED <<req, served>>
  <2>1. \A v \in Workers : req[v] # Idle => req[v].sid \in Sessions
    BY DEF Good, WorkersGood, GoodBusy
  <2> QED
    BY <1>1, <1>2, <1>4, <2>1 DEF Opened
<1>5. ASSUME NEW w \in Workers, NEW s \in Sessions, NEW pc \in Phases, NEW row,
             Start(w, pc, s, row), db'[s].status # "absent"
      PROVE  Opened'
  <2>1. served' \in 0..MaxRequests /\ served' \in 1..MaxRequests
    BY <1>5, BoundAssumption DEF Start, Opened
  <2>2. \A v \in Workers : req'[v] # Idle =>
           \/ req'[v].turn = served' /\ req'[v].sid = s
           \/ req'[v] = req[v] /\ req[v].sid \in Sessions
    BY <1>5 DEF Start, Good, WorkersGood, GoodBusy
  <2> QED
    BY <1>1, <1>2, <1>5, <2>1, <2>2 DEF Opened
<1>6. ASSUME NEW w \in Workers, NEW s \in Sessions, Accept(w, s)
      PROVE  Opened'
  <2>1. CASE CreateRow(w, s)
    <3>1. PICK b \in BOOLEAN :
            /\ Start(w, "announce_start", s, [NoRow EXCEPT !.status = "active", !.booking = b])
            /\ Write(s, [NoRow EXCEPT !.status = "active", !.booking = b])
      BY <2>1 DEF CreateRow
    <3>2. [NoRow EXCEPT !.status = "active", !.booking = b].status = "active"
      BY DEF NoRow
    <3>3. db'[s].status # "absent"
      BY <3>1, <3>2 DEF Write, Good, RowsGood
    <3> QED
      BY <1>5, <3>1, <3>3 DEF Phases
  <2>2. CASE ~CreateRow(w, s)
    <3>1. /\ UNCHANGED db
          /\ Read(s).status # "absent"
          /\ \E pc \in Phases : Start(w, pc, s, Read(s))
      BY <1>6, <2>2, DocumentedAccepts DEF TurnRead, EndRead, Admits, Phases, rows
    <3>2. db[s].status # "absent"
      BY <3>1 DEF Read, Opened
    <3> QED
      BY <1>5, <3>1, <3>2
  <2> QED
    BY <2>1, <2>2
<1>7. ASSUME NEW w \in Workers, Proceed(w) PROVE Opened'
  <2>1. req[w] # Idle /\ UNCHANGED served
    BY <1>7 DEF Proceed, CreateAnnounce, AgentFails, AgentReplies, FileAborts,
       FileRequest, CommitRequest, EndSave, EndAnnounce, UpdateSave,
       DestroyDelete, EditSave, At, Idle
  <2>2. Respond(w) \/ \E pc \in Phases : GoTo(w, pc)
    BY <1>7 DEF Proceed, CreateAnnounce, AgentFails, AgentReplies, FileAborts,
       FileRequest, CommitRequest, EndSave, EndAnnounce, UpdateSave,
       DestroyDelete, EditSave, Answer200, Phases
  <2> QED
    BY <1>3, <2>1, <2>2
<1>8. ASSUME NEW w \in Workers, Crash(w) PROVE Opened'
  BY <1>3, <1>8 DEF Crash
<1> QED
  BY <1>4, <1>6, <1>7, <1>8 DEF Next, Cleanup, Age, Replay, vars

-----------------------------------------------------------------------------
(* The steps, seen through the refinement mapping. *)

\* No session, no event and no request at first.
LEMMA InitRefines == Init => Lifecycle!Init
BY DEF Init, Lifecycle!Init, AnnouncedRequests, SessionPhase, NoRow

\* A step that leaves events and requests alone, and opens or closes at most
\* the sessions its writes name, is Open, Close or a stutter.
LEMMA PhaseStep ==
    ASSUME Good, Opened, UNCHANGED <<published, requests>>,
           \A t \in Sessions : StatusMoves(t),
           \/ \E s \in Sessions :
                 /\ db[s].status = "absent"
                 /\ db'[s].status = "active"
                 /\ \A t \in Sessions \ {s} : db'[t] = db[t]
           \/ \A t \in Sessions : db[t].status = "absent" => db'[t].status = "absent"
    PROVE  [Lifecycle!Next]_(Lifecycle!vars)
<1> DEFINE phase == [s \in Sessions |-> SessionPhase(db[s])]
<1>1. UNCHANGED <<AnnouncedRequests, requests>>
  BY DEF AnnouncedRequests
<1>2. ASSUME NEW s \in Sessions,
             db[s].status = "absent",
             db'[s].status = "active",
             \A t \in Sessions \ {s} : db'[t] = db[t]
      PROVE  Lifecycle!Open(s)
  <2>1. phase[s] = "unopened" /\ phase' = [phase EXCEPT ![s] = "open"]
    BY <1>2 DEF SessionPhase
  <2> QED
    BY <1>1, <2>1 DEF Lifecycle!Open
<1>3. ASSUME \A t \in Sessions : db[t].status = "absent" => db'[t].status = "absent"
      PROVE  Lifecycle!Close \/ UNCHANGED phase
  <2> DEFINE closing == {t \in Sessions : phase[t] = "open" /\ phase'[t] # "open"}
  <2>1. \A t \in Sessions : phase'[t] = IF t \in closing THEN "closed" ELSE phase[t]
    BY <1>3 DEF StatusMoves, SessionPhase, Exists, Missing
  <2>2. phase' = [t \in Sessions |-> IF t \in closing THEN "closed" ELSE phase[t]]
    BY <2>1
  <2>3. CASE closing = {}
    BY <2>2, <2>3
  <2>4. CASE closing # {}
    <3>1. closing \in (SUBSET {t \in Sessions : phase[t] = "open"}) \ {{}}
      BY <2>4
    <3> HIDE DEF closing
    <3> QED
      BY <1>1, <2>2, <3>1 DEF Lifecycle!Close
  <2> QED
    BY <2>3, <2>4
<1> QED
  BY <1>1, <1>2, <1>3 DEF Lifecycle!Next, Lifecycle!vars

\* The created event is published for a session that was opened.
LEMMA FileRequestRefines ==
    ASSUME Good, Opened, ~BrokerRefuses, NEW w \in Workers, FileRequest(w)
    PROVE  Lifecycle!Announce
<1>1. /\ req[w] # Idle
      /\ Turn(w).sid \in Sessions
      /\ Turn(w) = [sid |-> req[w].sid, turn |-> req[w].turn]
  BY BusyWorker DEF Good, FileRequest, Phases, At, Idle, ServiceRequest, Turn
<1>2. Turn(w) \in Lifecycle!Request /\ db[Turn(w).sid].status # "absent"
  BY <1>1 DEF Opened, Lifecycle!Request
<1>3. \/ published' = published \cup {CreatedEvent(w)}
      \/ published' = published \cup {CreatedEvent(w), SignalEvent(w)}
  <2>1. PICK signalled \in SUBSET {SignalEvent(w)} :
          published' = (published \cup {CreatedEvent(w)}) \cup signalled
    BY DEF FileRequest, Enqueued
  <2> QED
    BY <2>1
<1>4. /\ CreatedEvent(w) = [kind |-> "created", sid |-> req[w].sid,
                            turn |-> req[w].turn, tokens |-> 0]
      /\ SignalEvent(w).kind = "created_by_signal"
  BY DEF CreatedEvent, SignalEvent
<1>5. AnnouncedRequests' = AnnouncedRequests \cup {Turn(w)}
  BY <1>1, <1>3, <1>4 DEF AnnouncedRequests
<1>6. UNCHANGED <<db, requests>>
  BY DEF FileRequest, rows, filed
<1>7. [s \in Sessions |-> SessionPhase(db[s])][Turn(w).sid] # "unopened"
  BY <1>1, <1>2 DEF SessionPhase
<1> QED
  BY <1>2, <1>5, <1>6, <1>7 DEF Lifecycle!Announce

\* The request committed is one that was announced.
LEMMA CommitRequestRefines ==
    ASSUME Good, Opened, Announced, NEW w \in Workers, CommitRequest(w)
    PROVE  Lifecycle!Create \/ UNCHANGED Lifecycle!vars
<1>1. Turn(w) \in AnnouncedRequests
  <2> DEFINE e == AnnouncedEvent(Turn(w))
  <2>1. e \in published
    BY DEF Announced, CommitRequest
  <2>2. e.kind = "created" /\ Turn(w) = [sid |-> e.sid, turn |-> e.turn]
    BY DEF AnnouncedEvent, Turn
  <2> QED
    BY <2>1, <2>2 DEF AnnouncedRequests
<1>2. /\ UNCHANGED <<db, published>>
      /\ requests' \in {requests, requests \cup {Turn(w)}}
  BY DEF CommitRequest, rows, filed
<1>3. AnnouncedRequests' = AnnouncedRequests
  BY <1>2 DEF AnnouncedRequests
<1> QED
  BY <1>1, <1>2, <1>3 DEF Lifecycle!Create, Lifecycle!vars

\* The other events are not visible in the lifecycle.
LEMMA OtherEventsStutter ==
    ASSUME NEW w \in Workers,
           CreateAnnounce(w) \/ EndAnnounce(w) \/ FileAborts(w)
    PROVE  UNCHANGED Lifecycle!vars
<1>1. PICK e : /\ e.kind # "created"
               /\ published' \in {published, published \cup {e}}
  <2>1. CASE CreateAnnounce(w)
    <3> DEFINE e == [kind |-> "started", sid |-> req[w].sid, turn |-> 0, tokens |-> 0]
    <3>1. published' \in {published, published \cup {e}}
      BY <2>1 DEF CreateAnnounce, Publish, Enqueued, QueueFull
    <3> QED
      BY <3>1
  <2>2. CASE EndAnnounce(w)
    <3> DEFINE e == [kind |-> "completed", sid |-> req[w].sid,
                     turn |-> req[w].turn, tokens |-> req[w].row.tokens]
    <3>1. published' \in {published, published \cup {e}}
      BY <2>2 DEF EndAnnounce, Publish, Enqueued, QueueFull
    <3> QED
      BY <3>1
  <2>3. CASE FileAborts(w)
    <3>1. SignalEvent(w).kind = "created_by_signal"
      BY DEF SignalEvent
    <3> QED
      BY <2>3, <3>1 DEF FileAborts
  <2> QED
    BY <2>1, <2>2, <2>3
<1>2. AnnouncedRequests' = AnnouncedRequests
  BY <1>1 DEF AnnouncedRequests
<1>3. UNCHANGED <<db, requests>>
  BY DEF CreateAnnounce, EndAnnounce, FileAborts, rows, filed
<1> QED
  BY <1>2, <1>3 DEF Lifecycle!vars

\* Every step is a step of the lifecycle or a stutter.
LEMMA NextRefines ==
    ASSUME Documented, Good, NoRewriter, Opened, Announced, ~BrokerRefuses, [Next]_vars
    PROVE  [Lifecycle!Next]_(Lifecycle!vars)
<1>1. \A t \in Sessions : StatusMoves(t)
  BY StatusStep
<1>2. ASSUME NEW w \in Workers, NEW s \in Sessions, CreateRow(w, s)
      PROVE  [Lifecycle!Next]_(Lifecycle!vars)
  <2>1. PICK b \in BOOLEAN :
          db' = [db EXCEPT ![s] = [NoRow EXCEPT !.status = "active", !.booking = b]]
    BY <1>2 DEF CreateRow, Write
  <2>2. [NoRow EXCEPT !.status = "active", !.booking = b].status = "active"
    BY DEF NoRow
  <2>3. /\ db[s].status = "absent"
        /\ db'[s].status = "active"
        /\ \A t \in Sessions \ {s} : db'[t] = db[t]
    BY <1>2, <2>1, <2>2 DEF CreateRow, Good, RowsGood
  <2> QED
    BY <1>1, <1>2, <2>3, PhaseStep DEF CreateRow, filed
<1>3. ASSUME UNCHANGED <<published, requests>>,
             \A t \in Sessions : db[t].status = "absent" => db'[t].status = "absent"
      PROVE  [Lifecycle!Next]_(Lifecycle!vars)
  BY <1>1, <1>3, PhaseStep
<1>4. ASSUME NEW w \in Workers, AgentFails(w) \/ AgentReplies(w) \/ EndSave(w)
      PROVE  [Lifecycle!Next]_(Lifecycle!vars)
  <2>1. req[w].sid \in Sessions
    BY <1>4, BusyWorker DEF Good, AgentFails, AgentReplies, EndSave, Phases
  <2>2. \A t \in Sessions : db[t].status = "absent" => db'[t] = db[t]
    BY <1>4, <2>1, SaveFieldsStatus
       DEF AgentFails, AgentReplies, EndSave, Good, Exists, Missing
  <2> QED
    BY <1>3, <1>4, <2>2 DEF AgentFails, AgentReplies, EndSave, filed
<1>5. CASE Cleanup
  BY <1>3, <1>5 DEF Cleanup, Stale, filed
<1>6. CASE UNCHANGED <<db, published, requests>>
  BY <1>3, <1>6
<1>7. ASSUME NEW w \in Workers, Proceed(w)
      PROVE  [Lifecycle!Next]_(Lifecycle!vars)
  BY <1>4, <1>7, FileRequestRefines, CommitRequestRefines, OtherEventsStutter
     DEF Proceed, UpdateSave, DestroyDelete, EditSave, NoRewriter, Lifecycle!Next
<1>8. ASSUME NEW w \in Workers, NEW s \in Sessions, Accept(w, s)
      PROVE  [Lifecycle!Next]_(Lifecycle!vars)
  BY <1>2, <1>6, <1>8, DocumentedAccepts DEF TurnRead, EndRead, rows, filed
<1> QED
  BY <1>5, <1>6, <1>7, <1>8 DEF Next, Crash, Age, Replay, rows, filed, vars

\* Whatever workers, replica and clean-up do to one another, a client of the
\* documented routes sees a session open, close for good, and request only
\* what was announced.
THEOREM Refinement ==
    ASSUME Documented, ~BrokerRefuses
    PROVE  Spec => ImplementsLifecycle
<1>1. Init => Opened /\ Announced /\ NoRewriter /\ Lifecycle!Init
  BY OpenedInit, InitNoRewriter, InitRefines DEF Init, Announced, At, Idle
<1>2. Good /\ NoRewriter /\ Opened /\ Announced /\ [Next]_vars =>
        NoRewriter' /\ Opened' /\ Announced' /\ [Lifecycle!Next]_(Lifecycle!vars)
  BY NoRewriterNext, OpenedNext, AnnouncedNext, NextRefines
<1> QED
  BY <1>1, <1>2, AlwaysGood, PTL DEF Spec, ImplementsLifecycle, Lifecycle!Spec

\* What the life cycle means for the requests: each was announced, and each that was
\* announced is about a session that was opened.
RequestsFollow ==
    /\ requests \subseteq AnnouncedRequests
    /\ \A r \in AnnouncedRequests : r.sid \in Sessions /\ db[r.sid].status # "absent"

\* Whoever implements SessionLifecycle creates no request that was not announced, and
\* announces none for a session that was not opened.
THEOREM LifecycleOrdersRequests == Lifecycle!Spec => []RequestsFollow
<1> DEFINE phase == [s \in Sessions |-> SessionPhase(db[s])]
           Follow == /\ requests \subseteq AnnouncedRequests
                     /\ \A r \in AnnouncedRequests : r.sid \in Sessions /\ phase[r.sid] # "unopened"
<1>1. Follow => RequestsFollow
  BY DEF RequestsFollow, SessionPhase
<1> HIDE DEF phase
<1>2. Lifecycle!Init => Follow
  BY DEF Lifecycle!Init, phase
<1>3. Follow /\ [Lifecycle!Next]_(Lifecycle!vars) => Follow'
  <2> SUFFICES ASSUME Follow, [Lifecycle!Next]_(Lifecycle!vars) PROVE Follow'
    OBVIOUS
  <2>1. ASSUME NEW s \in Sessions, Lifecycle!Open(s) PROVE Follow'
    <3>1. phase' = [phase EXCEPT ![s] = "open"] /\ DOMAIN phase = Sessions
      BY <2>1 DEF Lifecycle!Open, phase
    <3>2. UNCHANGED <<AnnouncedRequests, requests>>
      BY <2>1 DEF Lifecycle!Open
    <3> QED BY <3>1, <3>2
  <2>2. CASE Lifecycle!Close
    <3>1. PICK closing \in SUBSET Sessions :
             phase' = [s \in Sessions |-> IF s \in closing THEN "closed" ELSE phase[s]]
      BY <2>2 DEF Lifecycle!Close, phase
    <3>2. UNCHANGED <<AnnouncedRequests, requests>>
      BY <2>2 DEF Lifecycle!Close
    <3> QED BY <3>1, <3>2
  <2>3. CASE Lifecycle!Announce
    <3>1. PICK r \in Lifecycle!Request : /\ phase[r.sid] # "unopened"
                                         /\ AnnouncedRequests' = AnnouncedRequests \cup {r}
      BY <2>3 DEF Lifecycle!Announce, phase
    <3>2. r.sid \in Sessions
      BY DEF Lifecycle!Request
    <3>3. phase' = phase /\ requests' = requests
      BY <2>3 DEF Lifecycle!Announce, phase
    <3> QED BY <3>1, <3>2, <3>3
  <2>4. CASE Lifecycle!Create
    <3>1. phase' = phase
      BY <2>4 DEF Lifecycle!Create, phase
    <3> QED BY <2>4, <3>1 DEF Lifecycle!Create
  <2>5. CASE UNCHANGED Lifecycle!vars
    BY <2>5 DEF Lifecycle!vars, phase
  <2> QED BY <2>1, <2>2, <2>3, <2>4, <2>5 DEF Lifecycle!Next
<1> HIDE DEF Follow
<1> QED BY <1>1, <1>2, <1>3, PTL DEF Lifecycle!Spec

\* So no consumer of the events is told of a request for a session it could not know,
\* and no request exists that nobody was told of (views/main.py:202-241).
THEOREM RequestsFollowSessions ==
    ASSUME Documented, ~BrokerRefuses
    PROVE  Spec => []RequestsFollow
BY Refinement, LifecycleOrdersRequests, PTL DEF ImplementsLifecycle
=============================================================================
