--------------------------- MODULE LoginGuardsProofs ---------------------------
(***************************************************************************)
(* Theorems about LoginGuards, for any number of workers and addresses,    *)
(* any limits, windows and block duration, and any number of requests.     *)
(***************************************************************************)
EXTENDS LoginGuards, FiniteSetTheorems, TLAPS

-----------------------------------------------------------------------------
(* Part 1: type correctness.                                               *)

\* What a worker's pc tells of its record.
LEMMA Records ==
    ASSUME TypeOK, NEW w \in Workers
    PROVE  /\ At(w, "count") => req[w] \in Limiting
           /\ At(w, "over") \/ At(w, "under") => req[w] \in Counted
           /\ At(w, "token") \/ At(w, "register") => req[w] \in Passed
           /\ At(w, "authenticate") \/ At(w, "reread") \/ At(w, "insert") \/ At(w, "audit")
                => req[w] \in InView
           /\ At(w, "save_ip") \/ At(w, "admin") => req[w] \in Holding
BY DEF TypeOK, At, Idle, Limiting, Counted, Passed, InView, Holding, Paths

\* The records a worker may hold.
Record == {Idle} \cup Limiting \cup Counted \cup Passed \cup InView \cup Holding

\* A worker that goes on to a record of these kinds stays well typed.
LEMMA MoveTyped ==
    ASSUME TypeOK, NEW w \in Workers, NEW r \in Record, req' = [req EXCEPT ![w] = r]
    PROVE  req' \in [Workers -> Record]
BY DEF TypeOK, Record

\* The counter is never negative, whether the key is there or not.
LEMMA GetTyped ==
    ASSUME TypeOK, NEW p \in Paths
    PROVE  Get(p) \in Nat
BY DEF TypeOK, Get

LEMMA InitTyped == Init => TypeOK
<1> SUFFICES ASSUME Init PROVE TypeOK
  OBVIOUS
<1>1. PICK id \in [Emails -> (-Cardinality(Emails))..0] : users = [e \in Emails |-> Owned(id[e])]
  BY DEF Init
<1>2. users \in [Emails -> Account]
  <2>1. Cardinality(Emails) \in Nat
    BY EmailsAssumption, FS_CardinalityType
  <2>2. \A e \in Emails : id[e] \in Int
    BY <2>1
  <2> QED
    BY <1>1, <2>2 DEF Owned, NoAccount, Account
<1> QED
  BY <1>2 DEF Init, TypeOK

\* The middleware.
LEMMA LimiterTyped ==
    ASSUME TypeOK, NEW w \in Workers, Limiter(w)
    PROVE  TypeOK'
<1> USE DEF limiter, accounts
<1>1. ASSUME NEW p \in Paths, Admit(w, p) PROVE TypeOK'
  <2>1. begun' \in Nat /\ [pc |-> "count", path |-> p, id |-> begun + 1] \in Record
    BY <1>1 DEF TypeOK, Admit, Begin, Record, Limiting
  <2> QED
    BY <1>1, <2>1, MoveTyped DEF TypeOK, Admit, Begin, Record
<1>2. ASSUME NEW p \in Paths, TurnAway(w, p) PROVE TypeOK'
  <2>1. begun' \in Nat /\ Idle \in Record
    BY <1>2 DEF TypeOK, TurnAway, Begin, Record
  <2> QED
    BY <1>2, <2>1, MoveTyped DEF TypeOK, TurnAway, Begin, Record
<1>3. CASE ReadCount(w)
  <2> DEFINE p == req[w].path
             r == [pc |-> IF OverLimit(p, Get(p)) THEN "over" ELSE "under",
                   path |-> p, id |-> req[w].id, seen |-> Get(p), readAt |-> now]
  <2>1. req[w] \in Limiting
    BY <1>3, Records DEF ReadCount
  <2>2. p \in Paths /\ Get(p) \in Nat
    BY <2>1, GetTyped DEF Limiting
  <2>3. r \in Counted
    BY <2>1, <2>2 DEF Limiting, Counted, TypeOK
  <2>4. req' = [req EXCEPT ![w] = r]
    BY <1>3 DEF ReadCount, TypeOK
  <2>5. req' \in [Workers -> Record]
    BY <2>3, <2>4, MoveTyped DEF Record
  <2> QED
    BY <1>3, <2>5 DEF TypeOK, ReadCount, Record
<1>4. CASE SetBlock(w)
  <2>1. req[w].path \in Paths
    BY <1>4, Records DEF SetBlock, Counted
  <2>2. req' \in [Workers -> Record]
    BY <1>4, MoveTyped DEF SetBlock, Respond, Record
  <2> QED
    BY <1>4, <2>1, <2>2, RulesAssumption DEF TypeOK, SetBlock, Record
<1>5. ASSUME At(w, "under"), LetThrough(w)
      PROVE  /\ req[w].path \in Paths
             /\ req' \in [Workers -> Record]
             /\ passes' \subseteq [path : Paths, id : Nat, at : Nat]
             /\ late' \in [Paths -> Nat]
             /\ run' \in [Paths -> Nat]
  <2>1. req[w].path \in Paths /\ req[w].id \in Nat
    BY <1>5, Records DEF Counted
  <2>2. [pc |-> req[w].path, id |-> req[w].id] \in Record
    BY <2>1 DEF Record, Passed
  <2>3. req' = [req EXCEPT ![w] = [pc |-> req[w].path, id |-> req[w].id]]
    BY <1>5 DEF LetThrough, TypeOK
  <2>4. req' \in [Workers -> Record]
    BY <2>2, <2>3, MoveTyped
  <2> QED
    BY <1>5, <2>1, <2>4 DEF LetThrough, TypeOK
<1>6. CASE StartWindow(w)
  <2>1. req[w].path \in Paths
    BY <1>5, <1>6 DEF StartWindow
  <2>2. [value |-> 1, expires |-> now + Window[req[w].path]] \in [value : Nat, expires : Nat]
    BY <2>1, RulesAssumption DEF TypeOK
  <2>3. counter' \in [Paths -> [value : Nat, expires : Nat]]
    BY <1>6, <2>2 DEF TypeOK, StartWindow
  <2> QED
    BY <1>5, <1>6, <2>3 DEF TypeOK, StartWindow, Record
<1>7. CASE Increment(w)
  BY <1>5, <1>7 DEF TypeOK, Increment, Record
<1>8. CASE IncrementFails(w)
  <2>1. req' \in [Workers -> Record]
    BY <1>8, MoveTyped DEF IncrementFails, Respond, Record
  <2> QED
    BY <1>8, <2>1 DEF TypeOK, IncrementFails, Record
<1> QED
  BY <1>1, <1>2, <1>3, <1>4, <1>6, <1>7, <1>8 DEF Limiter

\* The views.
LEMMA ViewsTyped ==
    ASSUME TypeOK, NEW w \in Workers, Views(w)
    PROVE  TypeOK'
<1> USE DEF limiter, accounts
<1>1. ASSUME req' \in [Workers -> Record], begun' \in Nat,
             UNCHANGED <<now, limiter, accounts>>
      PROVE  TypeOK'
  BY <1>1 DEF TypeOK, Record
<1>2. ASSUME NEW pc \in {"authenticate", "reread", "insert", "audit"}, NEW e \in Emails,
             req[w].id \in Nat, Continue(w, pc, e)
      PROVE  req' \in [Workers -> Record]
  <2>1. [pc |-> pc, id |-> req[w].id, email |-> e] \in Record
    BY <1>2 DEF Record, InView
  <2> QED
    BY <1>2, <2>1, MoveTyped DEF Continue
<1>3. ASSUME Respond(w) PROVE req' \in [Workers -> Record]
  BY <1>3, MoveTyped DEF Respond, Record
<1>4. ASSUME NEW e \in Emails, LoginCheck(w, e) \/ RegisterCheck(w, e) PROVE TypeOK'
  <2>1. req[w].id \in Nat
    BY <1>4, Records DEF LoginCheck, RegisterCheck, Passed
  <2>2. req' \in [Workers -> Record]
    BY <1>2, <1>3, <1>4, <2>1 DEF LoginCheck, RegisterCheck
  <2> QED
    BY <1>1, <1>4, <2>2 DEF LoginCheck, RegisterCheck, TypeOK
<1>5. CASE LoginFails(w)
  BY <1>1, <1>3, <1>5 DEF LoginFails, TypeOK
<1>6. CASE LoginSucceeds(w)
  <2>1. req[w].id \in Nat /\ req[w].email \in Emails
    BY <1>6, Records DEF LoginSucceeds, InView
  <2>2. req' \in [Workers -> Record]
    BY <1>2, <1>6, <2>1 DEF LoginSucceeds
  <2> QED
    BY <1>1, <1>6, <2>2 DEF LoginSucceeds, TypeOK
<1>7. CASE RereadUser(w)
  <2> DEFINE r == [pc |-> "save_ip", id |-> req[w].id, row |-> users[req[w].email]]
  <2>1. req[w].id \in Nat /\ req[w].email \in Emails
    BY <1>7, Records DEF RereadUser, InView
  <2>2. r \in Record
    BY <2>1 DEF Record, Holding, TypeOK
  <2>3. Respond(w) \/ req' = [req EXCEPT ![w] = r]
    BY <1>7 DEF RereadUser, TypeOK
  <2>4. req' \in [Workers -> Record]
    BY <1>3, <2>2, <2>3, MoveTyped
  <2> QED
    BY <1>1, <1>7, <2>4 DEF RereadUser, TypeOK
<1>8. CASE SaveIp(w)
  <2>1. req[w].id \in Nat
    BY <1>8, Records DEF SaveIp, Holding
  <2>2. users' \in [Emails -> Account]
    BY <1>8, <2>1 DEF SaveIp, SavedUser, TypeOK, Account
  <2> QED
    BY <1>3, <1>8, <2>2 DEF SaveIp, TypeOK, Record
<1>9. CASE RegisterInsert(w)
  <2>1. req[w].id \in Nat /\ req[w].email \in Emails
    BY <1>9, Records DEF RegisterInsert, InView
  <2>2. Owned(req[w].id) \in Account
    BY <2>1 DEF Owned, NoAccount, Account
  <2>3. users' \in [Emails -> Account]
    BY <1>9, <2>1, <2>2 DEF RegisterInsert, TypeOK
  <2>4. req' \in [Workers -> Record]
    BY <1>2, <1>3, <1>9, <2>1 DEF RegisterInsert
  <2> QED
    BY <1>9, <2>3, <2>4 DEF RegisterInsert, TypeOK, Record
<1>10. CASE RegisterAudit(w)
  <2>1. req[w].id \in Nat /\ req[w].email \in Emails
    BY <1>10, Records DEF RegisterAudit, InView
  <2>2. [id |-> req[w].id, email |-> req[w].email] \in [id : Nat, email : Emails]
    BY <2>1
  <2>3. audit' \subseteq Nat /\ answered' \subseteq [id : Nat, email : Emails]
    BY <1>10, <2>1, <2>2 DEF RegisterAudit, TypeOK
  <2> QED
    BY <1>3, <1>10, <2>3 DEF RegisterAudit, TypeOK, Record
<1> QED
  BY <1>4, <1>5, <1>6, <1>7, <1>8, <1>9, <1>10 DEF Views

LEMMA WithoutTyped ==
    ASSUME TypeOK, NEW id
    PROVE  Without(id) \in [Emails -> Account]
BY DEF Without, NoAccount, Account, TypeOK

\* The pages of the admin.
LEMMA AdminTyped ==
    ASSUME TypeOK, NEW w \in Workers, Admin(w)
    PROVE  TypeOK'
<1> USE DEF limiter, accounts
<1>1. ASSUME Respond(w) PROVE req' \in [Workers -> Record]
  BY <1>1, MoveTyped DEF Respond, Record
<1>2. ASSUME NEW e \in Emails, AdminAdd(w, e) PROVE TypeOK'
  <2>1. begun + 1 \in Nat /\ Idle \in Record
    BY DEF TypeOK, Record
  <2>2. begun' \in Nat /\ req' \in [Workers -> Record]
    BY <1>2, <2>1, MoveTyped DEF AdminAdd, Begin
  <2>3. Owned(begun + 1) \in Account
    BY <2>1 DEF Owned, NoAccount, Account
  <2>4. users' \in [Emails -> Account]
    BY <1>2, <2>3 DEF AdminAdd, TypeOK
  <2> QED
    BY <1>2, <2>2, <2>4 DEF AdminAdd, TypeOK, Record
<1>3. ASSUME NEW e \in Emails, AdminRead(w, e) PROVE TypeOK'
  <2>1. begun' \in Nat /\ [pc |-> "admin", id |-> begun + 1, row |-> users[e]] \in Record
    BY <1>3 DEF TypeOK, AdminRead, Begin, Record, Holding
  <2>2. req' \in [Workers -> Record]
    BY <1>3, <2>1, MoveTyped DEF AdminRead, Begin
  <2> QED
    BY <1>3, <2>1, <2>2 DEF AdminRead, TypeOK, Record
<1>4. CASE AdminSave(w)
  <2>1. req[w].row \in Account /\ req[w].row.owner \in Int
    BY <1>4, Records DEF AdminSave, Holding, Account
  <2>2. PICK e \in Emails, until \in {0, now + LockTime} :
          /\ users' = [Without(req[w].row.owner) EXCEPT ![e] =
                                      [req[w].row EXCEPT !.lockedUntil = until]]
          /\ ordered' = [f \in Emails |-> IF f = e THEN until
                                         ELSE IF users[f].owner = req[w].row.owner THEN 0
                                         ELSE ordered[f]]
          /\ administered' = IF users[e].owner = req[w].row.owner THEN administered
                             ELSE administered \cup {req[w].row.owner}
    BY <1>4 DEF AdminSave
  <2>3. until \in Nat
    BY BoundsAssumption DEF TypeOK
  <2>4. [req[w].row EXCEPT !.lockedUntil = until] \in Account
    BY <2>1, <2>3 DEF Account
  <2>5. users' \in [Emails -> Account]
    BY <2>2, <2>4, WithoutTyped
  <2>6. ordered' \in [Emails -> Nat] /\ administered' \subseteq Int
    BY <2>1, <2>2, <2>3 DEF TypeOK
  <2> QED
    BY <1>1, <1>4, <2>5, <2>6 DEF AdminSave, TypeOK, Record
<1>5. CASE AdminRefused(w)
  BY <1>1, <1>5 DEF AdminRefused, TypeOK, Record
<1>6. CASE AdminDelete(w)
  <2>1. req[w].row.owner \in Int
    BY <1>6, Records DEF AdminDelete, Holding, Account
  <2>2. users' \in [Emails -> Account]
    BY <1>6, WithoutTyped DEF AdminDelete
  <2>3. ordered' \in [Emails -> Nat] /\ administered' \subseteq Int
    BY <1>6, <2>1 DEF AdminDelete, TypeOK
  <2> QED
    BY <1>1, <1>6, <2>2, <2>3 DEF AdminDelete, TypeOK, Record
<1> QED
  BY <1>2, <1>3, <1>4, <1>5, <1>6 DEF Admin

LEMMA NextTyped == TypeOK /\ [Next]_vars => TypeOK'
<1> SUFFICES ASSUME TypeOK, [Next]_vars PROVE TypeOK'
  OBVIOUS
<1> USE DEF limiter, accounts
<1>1. ASSUME NEW w \in Workers, Crash(w) PROVE TypeOK'
  BY <1>1, MoveTyped DEF TypeOK, Crash, Respond, Record
<1>2. CASE Tick
  BY <1>2 DEF TypeOK, Tick
<1>3. CASE UNCHANGED vars
  BY <1>3 DEF TypeOK, vars
<1> QED
  BY <1>1, <1>2, <1>3, LimiterTyped, ViewsTyped, AdminTyped DEF Next

\* Counters, rows and the workers' records are of the types the code gives them
\* (middleware.py:75-112, views/main.py:52-99).
THEOREM TypeCorrect == Spec => []TypeOK
BY InitTyped, NextTyped, PTL DEF Spec

-----------------------------------------------------------------------------
(* Part 2: what a step does to the workers.                                 *)

\* A request that begins takes the next number; one that goes on keeps its number.
Begins(w, r) == /\ req[w] = Idle
                /\ begun' = begun + 1
                /\ r = Idle \/ r.id = begun'
                /\ req' = [req EXCEPT ![w] = r]
GoesOn(w, r) == /\ req[w] # Idle
                /\ begun' = begun
                /\ r = Idle \/ r.id = req[w].id
                /\ req' = [req EXCEPT ![w] = r]

LEMMA LimiterMoves ==
    ASSUME TypeOK, NEW w \in Workers, Limiter(w)
    PROVE  \E r \in Record : Begins(w, r) \/ GoesOn(w, r)
<1>1. ASSUME NEW p \in Paths, Admit(w, p) \/ TurnAway(w, p)
      PROVE  \E r \in Record : Begins(w, r)
  <2> DEFINE r == [pc |-> "count", path |-> p, id |-> begun + 1]
  <2>1. r \in Record /\ Idle \in Record
    BY DEF Record, Limiting, TypeOK
  <2>2. CASE Admit(w, p)
    BY <2>1, <2>2 DEF Admit, Begin, Begins
  <2>3. CASE TurnAway(w, p)
    BY <2>1, <2>3 DEF TurnAway, Begin, Begins
  <2> QED
    BY <1>1, <2>2, <2>3
<1>2. CASE ReadCount(w)
  <2> DEFINE p == req[w].path
             r == [pc |-> IF OverLimit(p, Get(p)) THEN "over" ELSE "under",
                   path |-> p, id |-> req[w].id, seen |-> Get(p), readAt |-> now]
  <2>1. req[w] \in Limiting
    BY <1>2, Records DEF ReadCount
  <2>2. p \in Paths /\ Get(p) \in Nat
    BY <2>1, GetTyped DEF Limiting
  <2>3. r \in Record
    BY <2>1, <2>2 DEF Limiting, Counted, TypeOK, Record
  <2>4. req' = [req EXCEPT ![w] = r] /\ begun' = begun
    BY <1>2 DEF ReadCount, TypeOK
  <2>5. GoesOn(w, r)
    BY <1>2, <2>4 DEF GoesOn, ReadCount, At, Idle
  <2> QED
    BY <2>3, <2>5
<1>3. CASE SetBlock(w) \/ IncrementFails(w)
  <2>1. GoesOn(w, Idle)
    BY <1>3 DEF SetBlock, IncrementFails, Respond, At, Idle, GoesOn
  <2> QED
    BY <2>1 DEF Record
<1>4. CASE StartWindow(w) \/ Increment(w)
  <2> DEFINE r == [pc |-> req[w].path, id |-> req[w].id]
  <2>1. req[w].path \in Paths /\ req[w].id \in Nat /\ req[w] # Idle
    BY <1>4, Records DEF StartWindow, Increment, Counted, At, Idle
  <2>2. r \in Record
    BY <2>1 DEF Record, Passed
  <2>3. req' = [req EXCEPT ![w] = r] /\ begun' = begun
    BY <1>4 DEF StartWindow, Increment, LetThrough, TypeOK
  <2>4. GoesOn(w, r)
    BY <2>1, <2>3 DEF GoesOn
  <2> QED
    BY <2>2, <2>4
<1> QED
  BY <1>1, <1>2, <1>3, <1>4 DEF Limiter

LEMMA ViewsMove ==
    ASSUME TypeOK, NEW w \in Workers, Views(w)
    PROVE  \E r \in Record : Begins(w, r) \/ GoesOn(w, r)
<1>1. Idle \in Record
  BY DEF Record
<1>2. ASSUME Respond(w), req[w] # Idle, begun' = begun
      PROVE  \E r \in Record : GoesOn(w, r)
  BY <1>1, <1>2 DEF Respond, GoesOn
<1>3. ASSUME NEW pc \in {"authenticate", "reread", "insert", "audit"}, NEW e \in Emails,
             req[w].id \in Nat, Continue(w, pc, e), req[w] # Idle, begun' = begun
      PROVE  \E r \in Record : GoesOn(w, r)
  <2> DEFINE r == [pc |-> pc, id |-> req[w].id, email |-> e]
  <2>1. r \in Record
    BY <1>3 DEF Record, InView
  <2>2. GoesOn(w, r)
    BY <1>3 DEF Continue, GoesOn
  <2> QED
    BY <2>1, <2>2
<1>4. ASSUME NEW e \in Emails, LoginCheck(w, e) \/ RegisterCheck(w, e)
      PROVE  \E r \in Record : GoesOn(w, r)
  <2>1. req[w].id \in Nat /\ req[w] # Idle /\ begun' = begun
    BY <1>4, Records DEF LoginCheck, RegisterCheck, Passed, At, Idle
  <2>2. Respond(w) \/ Continue(w, "authenticate", e) \/ Continue(w, "insert", e)
    BY <1>4 DEF LoginCheck, RegisterCheck
  <2> QED
    BY <1>2, <1>3, <2>1, <2>2
<1>5. CASE LoginFails(w) \/ SaveIp(w) \/ RegisterAudit(w)
  BY <1>2, <1>5 DEF LoginFails, SaveIp, RegisterAudit, At, Idle
<1>6. CASE LoginSucceeds(w) \/ RegisterInsert(w)
  <2>1. /\ req[w].id \in Nat /\ req[w].email \in Emails
        /\ req[w] # Idle /\ begun' = begun
    BY <1>6, Records DEF LoginSucceeds, RegisterInsert, InView, At, Idle
  <2>2. \/ Respond(w)
        \/ Continue(w, "reread", req[w].email) \/ Continue(w, "audit", req[w].email)
    BY <1>6 DEF LoginSucceeds, RegisterInsert
  <2> QED
    BY <1>2, <1>3, <2>1, <2>2
<1>7. CASE RereadUser(w)
  <2> DEFINE r == [pc |-> "save_ip", id |-> req[w].id, row |-> users[req[w].email]]
  <2>1. req[w].id \in Nat /\ req[w].email \in Emails /\ req[w] # Idle
    BY <1>7, Records DEF RereadUser, InView, At, Idle
  <2>2. r \in Record
    BY <2>1 DEF Record, Holding, TypeOK
  <2>3. (Respond(w) \/ req' = [req EXCEPT ![w] = r]) /\ begun' = begun
    BY <1>7 DEF RereadUser, TypeOK
  <2>4. CASE req' = [req EXCEPT ![w] = r]
    <3>1. GoesOn(w, r)
      BY <2>1, <2>3, <2>4 DEF GoesOn
    <3> QED
      BY <2>2, <3>1
  <2> QED
    BY <1>2, <2>1, <2>3, <2>4
<1> QED
  BY <1>4, <1>5, <1>6, <1>7 DEF Views

LEMMA AdminMoves ==
    ASSUME TypeOK, NEW w \in Workers, Admin(w)
    PROVE  \E r \in Record : Begins(w, r) \/ GoesOn(w, r)
<1>1. Idle \in Record
  BY DEF Record
<1>2. ASSUME NEW e \in Emails, AdminAdd(w, e) PROVE Begins(w, Idle)
  BY <1>2 DEF AdminAdd, Begin, Begins
<1>3. ASSUME NEW e \in Emails, AdminRead(w, e) PROVE \E r \in Record : Begins(w, r)
  <2> DEFINE r == [pc |-> "admin", id |-> begun + 1, row |-> users[e]]
  <2>1. r \in Record
    BY DEF Record, Holding, TypeOK
  <2>2. Begins(w, r)
    BY <1>3 DEF AdminRead, Begin, Begins
  <2> QED
    BY <2>1, <2>2
<1>4. ASSUME AdminSave(w) \/ AdminRefused(w) \/ AdminDelete(w) PROVE GoesOn(w, Idle)
  BY <1>4 DEF AdminSave, AdminRefused, AdminDelete, Respond, GoesOn, At, Idle
<1> QED
  BY <1>1, <1>2, <1>3, <1>4 DEF Admin

\* Every step is one worker's, or leaves the workers alone.
LEMMA Moves ==
    ASSUME TypeOK, [Next]_vars
    PROVE  \/ UNCHANGED <<req, begun>>
           \/ \E w \in Workers, r \in Record : Begins(w, r) \/ GoesOn(w, r)
<1>1. ASSUME NEW w \in Workers, Crash(w) PROVE \E r \in Record : GoesOn(w, r)
  BY <1>1 DEF Crash, Respond, GoesOn, Record
<1> QED
  BY <1>1, LimiterMoves, ViewsMove, AdminMoves DEF Next, Tick, vars

\* The numbers of the requests in hand are distinct and at most begun.
Numbered ==
    /\ \A w \in Workers : req[w] # Idle => req[w].id \in 1..begun
    /\ \A v, w \in Workers : v # w /\ req[v] # Idle /\ req[w] # Idle
                               => req[v].id # req[w].id

LEMMA NumberedInvariant == Spec => []Numbered
<1>1. Init => Numbered
  BY DEF Init, Numbered
<1>2. TypeOK /\ Numbered /\ [Next]_vars => Numbered'
  <2> SUFFICES ASSUME TypeOK, Numbered, [Next]_vars PROVE Numbered'
    OBVIOUS
  <2>1. begun \in Nat
    BY DEF TypeOK
  <2>2. CASE UNCHANGED <<req, begun>>
    BY <2>2 DEF Numbered
  <2>3. ASSUME NEW w \in Workers, NEW r \in Record, Begins(w, r) PROVE Numbered'
    BY <2>1, <2>3 DEF Numbered, Begins, TypeOK
  <2>4. ASSUME NEW w \in Workers, NEW r \in Record, GoesOn(w, r) PROVE Numbered'
    BY <2>1, <2>4 DEF Numbered, GoesOn, TypeOK
  <2> QED
    BY <2>2, <2>3, <2>4, Moves
<1> QED
  BY <1>1, <1>2, TypeCorrect, PTL DEF Spec

-----------------------------------------------------------------------------
(* Part 3: the accounts.                                                    *)
(*                                                                          *)
(* A primary key is used once: it is the number of the request that inserts *)
(* the row, so no row and no page of the admin has the number of a request  *)
(* that has inserted nothing yet.  A registration between its INSERT and    *)
(* its audit row owns the address, until an admin interferes.               *)

Inserted(w) == req[w] = Idle \/ At(w, "audit")

AccountsOwned ==
    /\ \A e \in Emails : users[e].owner = 0 => users[e].lockedUntil = 0
    /\ \A e, f \in Emails : users[e].owner = users[f].owner => e = f \/ users[e].owner = 0
    /\ \A e \in Emails : users[e].owner <= begun
    /\ \A w \in Workers : At(w, "admin") => /\ req[w].row.owner # 0
                                            /\ req[w].row.owner <= begun
    /\ \A w \in Workers : ~Inserted(w) =>
          /\ \A e \in Emails : users[e].owner # req[w].id
          /\ \A v \in Workers : At(v, "admin") => req[v].row.owner # req[w].id
    /\ \A w \in Workers : At(w, "audit") =>
          req[w].id \in administered \/ users[req[w].email].owner = req[w].id
    /\ 0 \notin audit

AccountsGood == AccountsOwned /\ AdminLockKept /\ RegistrationRecorded

\* A step that leaves the accounts alone, and takes no worker to the admin's page or
\* to the audit row.
LEMMA ElsewhereGood ==
    ASSUME TypeOK, Numbered, AccountsGood, NEW w \in Workers, NEW r \in Record,
           Begins(w, r) \/ GoesOn(w, r), r = Idle \/ ~At(w, "audit"),
           r.pc \notin {"admin", "audit"}, UNCHANGED accounts
    PROVE  AccountsGood'
<1>1. UNCHANGED <<users, audit, ordered, answered, administered>>
  BY DEF accounts
<1>2. /\ \A v \in Workers : v # w => req'[v] = req[v]
      /\ req'[w] = r
      /\ begun \in Nat /\ begun' \in {begun, begun + 1}
      /\ \A e \in Emails : users[e].owner \in Int
  BY DEF Begins, GoesOn, TypeOK, Account
<1>3. \A v \in Workers, pc \in {"admin", "audit"} :
        At(v, pc)' => At(v, pc) /\ req'[v] = req[v]
  BY <1>2 DEF At
<1>4. \A v \in Workers : ~Inserted(v)' =>
        \/ ~Inserted(v) /\ req'[v].id = req[v].id
        \/ req'[v].id = begun + 1
  BY <1>2 DEF Inserted, At, Begins, GoesOn
<1>5. \A v \in Workers : At(v, "admin") => req[v].row.owner \in Int
  BY Records DEF Holding, Account
<1>6. AccountsOwned'
  BY <1>1, <1>2, <1>3, <1>4, <1>5 DEF AccountsGood, AccountsOwned
<1> QED
  BY <1>1, <1>6 DEF AccountsGood, AdminLockKept, RegistrationRecorded

LEMMA LimiterAccounts ==
    ASSUME TypeOK, Numbered, AccountsGood, NEW w \in Workers, Limiter(w)
    PROVE  AccountsGood'
<1>1. UNCHANGED accounts
  BY DEF Limiter, Admit, TurnAway, ReadCount, SetBlock, StartWindow, Increment, IncrementFails
<1>2. PICK r \in Record : Begins(w, r) \/ GoesOn(w, r)
  BY LimiterMoves
<1>3. ~At(w, "audit")
  BY DEF Limiter, Admit, TurnAway, Begin, Idle, ReadCount, SetBlock, StartWindow, Increment,
         IncrementFails, At
<1>4. req'[w] = r
  BY <1>2 DEF Begins, GoesOn, TypeOK
<1>5. req'[w].pc \notin {"admin", "audit"}
  <2>1. ASSUME NEW p \in Paths, Admit(w, p) \/ TurnAway(w, p)
        PROVE  req'[w].pc \notin {"admin", "audit"}
    BY <2>1 DEF Admit, TurnAway, Begin, Idle, TypeOK
  <2>2. CASE ReadCount(w)
    BY <2>2 DEF ReadCount, TypeOK
  <2>3. CASE SetBlock(w) \/ IncrementFails(w)
    BY <2>3 DEF SetBlock, IncrementFails, Respond, Idle, TypeOK
  <2>4. CASE StartWindow(w) \/ Increment(w)
    <3>1. req[w].path \in Paths
      BY <2>4, Records DEF StartWindow, Increment, Counted
    <3>2. req'[w].pc = req[w].path
      BY <2>4 DEF StartWindow, Increment, LetThrough, TypeOK
    <3> QED
      BY <3>1, <3>2 DEF Paths
  <2> QED
    BY <2>1, <2>2, <2>3, <2>4 DEF Limiter
<1> QED
  BY <1>1, <1>2, <1>3, <1>4, <1>5, ElsewhereGood

LEMMA ViewsAccounts ==
    ASSUME TypeOK, TypeOK', Numbered, AccountsGood, NEW w \in Workers, Views(w)
    PROVE  AccountsGood'
<1>1. ASSUME NEW pc \in {"authenticate", "reread", "insert"}, NEW e,
             Continue(w, pc, e), UNCHANGED <<accounts, begun>>,
             req[w] # Idle, ~At(w, "audit")
      PROVE  AccountsGood'
  <2> DEFINE r == [pc |-> pc, id |-> req[w].id, email |-> e]
  <2>1. r \in Record
    BY <1>1 DEF Continue, TypeOK, Record
  <2>2. GoesOn(w, r) /\ r.pc = pc
    BY <1>1 DEF Continue, GoesOn
  <2> HIDE DEF r
  <2> QED
    BY <1>1, <2>1, <2>2, ElsewhereGood
<1>2. ASSUME Respond(w), UNCHANGED <<accounts, begun>>, req[w] # Idle PROVE AccountsGood'
  <2>1. GoesOn(w, Idle) /\ Idle \in Record /\ Idle.pc \notin {"admin", "audit"}
    BY <1>2 DEF Respond, GoesOn, Record, Idle
  <2> QED
    BY <1>2, <2>1, ElsewhereGood
<1>3. ASSUME NEW e \in Emails, LoginCheck(w, e) \/ RegisterCheck(w, e) PROVE AccountsGood'
  BY <1>1, <1>2, <1>3 DEF LoginCheck, RegisterCheck, At, Idle
<1>4. CASE LoginFails(w) \/ LoginSucceeds(w)
  BY <1>1, <1>2, <1>4 DEF LoginFails, LoginSucceeds, At, Idle
<1>5. CASE RereadUser(w)
  <2> DEFINE r == [pc |-> "save_ip", id |-> req[w].id, row |-> users[req[w].email]]
  <2>1. CASE req' = [req EXCEPT ![w] = r]
    <3>1. r \in Record
      BY <2>1 DEF TypeOK, Record
    <3>2. GoesOn(w, r)
      BY <1>5, <2>1 DEF RereadUser, GoesOn, At, Idle
    <3>3. ~At(w, "audit") /\ UNCHANGED accounts
      BY <1>5 DEF RereadUser, At
    <3> QED
      BY <3>1, <3>2, <3>3, ElsewhereGood
  <2>2. CASE Respond(w)
    BY <1>2, <1>5, <2>2 DEF RereadUser, At, Idle
  <2> QED
    BY <1>5, <2>1, <2>2 DEF RereadUser, TypeOK
<1>6. CASE SaveIp(w)
  <2>1. \A e \in Emails : /\ users'[e].owner = users[e].owner
                          /\ users'[e].lockedUntil = users[e].lockedUntil
    BY <1>6 DEF SaveIp, SavedUser, TypeOK, Account
  <2>2. /\ UNCHANGED <<audit, ordered, answered, administered, begun>>
        /\ req' = [req EXCEPT ![w] = Idle]
    BY <1>6 DEF SaveIp, Respond
  <2>3. \A v \in Workers : /\ Inserted(v) => Inserted(v)'
                           /\ v # w => req'[v] = req[v]
                           /\ \A pc \in {"admin", "audit"} : At(v, pc)' => At(v, pc)
    BY <2>2 DEF Inserted, At, TypeOK, Idle
  <2>4. \A v \in Workers : At(v, "audit") => req[v].email \in Emails
    BY Records DEF InView
  <2>5. ~At(w, "admin")' /\ ~At(w, "audit")' /\ Inserted(w)'
    BY <2>2 DEF At, TypeOK, Idle, Inserted
  <2>6. AccountsOwned'
    BY <2>1, <2>2, <2>3, <2>4, <2>5 DEF AccountsGood, AccountsOwned
  <2>7. RegistrationRecorded'
    BY <2>1, <2>2 DEF AccountsGood, RegistrationRecorded, TypeOK
  <2> QED
    BY <2>1, <2>2, <2>6, <2>7 DEF AccountsGood, AdminLockKept
<1>7. CASE RegisterInsert(w)
  <2> DEFINE e == req[w].email
  <2>1. req[w].id \in Nat \ {0} /\ e \in Emails /\ req[w].id <= begun
    BY <1>7, Records DEF RegisterInsert, InView, Numbered, At, Idle
  <2>2. CASE Registered(e)
    BY <1>2, <1>7, <2>2 DEF RegisterInsert, accounts, At, Idle
  <2>3. CASE ~Registered(e)
    <3>1. /\ users' = [users EXCEPT ![e] = Owned(req[w].id)]
          /\ req' = [req EXCEPT ![w] = [pc |-> "audit", id |-> req[w].id, email |-> e]]
          /\ UNCHANGED <<audit, ordered, answered, administered, begun>>
      BY <1>7, <2>3 DEF RegisterInsert, Continue
    <3>2. /\ users[e].owner = 0 /\ users[e].lockedUntil = 0
          /\ users'[e].owner = req[w].id /\ users'[e].lockedUntil = 0
          /\ \A x \in Emails \ {e} : users'[x] = users[x]
      BY <2>1, <2>3, <3>1 DEF Registered, TypeOK, Owned, NoAccount, AccountsGood, AccountsOwned
    <3>3. /\ ~Inserted(w)
          /\ At(w, "audit")' /\ ~At(w, "admin")' /\ Inserted(w)'
          /\ req'[w].email = e /\ req'[w].id = req[w].id
      BY <1>7, <3>1 DEF RegisterInsert, Inserted, At, TypeOK, Idle
    <3>4. \A v \in Workers \ {w} : /\ req'[v] = req[v]
                                   /\ Inserted(v)' <=> Inserted(v)
                                   /\ \A pc \in {"admin", "audit"} : At(v, pc)' <=> At(v, pc)
      BY <3>1 DEF At, TypeOK, Inserted
    <3>5. \A v \in Workers \ {w} : req[v] # Idle => req[v].id # req[w].id /\ req[v].id # 0
      BY <3>3 DEF Numbered, Inserted
    <3>6. \A v \in Workers : At(v, "audit") => req[v].email \in Emails /\ req[v] # Idle
      BY Records DEF InView, At, Idle
    <3>7. \A x \in Emails : users[x].owner # req[w].id
      BY <3>3 DEF AccountsGood, AccountsOwned
    <3>8. AccountsOwned'
      <4>1. \A v \in Workers : At(v, "admin")' => v # w /\ At(v, "admin") /\ req'[v] = req[v]
        BY <3>3, <3>4
      <4>2. \A v \in Workers : ~Inserted(v)' => /\ v # w /\ ~Inserted(v) /\ req'[v] = req[v]
                                                /\ req[v].id # req[w].id
        BY <3>3, <3>4, <3>5 DEF Inserted
      <4>3. \A v \in Workers : At(v, "audit")' =>
              req'[v].id \in administered \/ users'[req'[v].email].owner = req'[v].id
        <5> TAKE v \in Workers
        <5> HAVE At(v, "audit")'
        <5>1. CASE v = w
          BY <3>2, <3>3, <5>1
        <5>2. CASE v # w
          <6>1. At(v, "audit") /\ req'[v] = req[v]
            BY <3>4, <5>2
          <6>2. req[v].email \in Emails /\ req[v].id # 0
            BY <3>5, <3>6, <5>2, <6>1
          <6>3. req[v].id \in administered \/ users[req[v].email].owner = req[v].id
            BY <6>1 DEF AccountsGood, AccountsOwned
          <6> QED
            BY <3>2, <6>1, <6>2, <6>3
        <5> QED
          BY <5>1, <5>2
      <4> QED
        BY <2>1, <3>1, <3>2, <3>7, <4>1, <4>2, <4>3 DEF AccountsGood, AccountsOwned
    <3>9. RegistrationRecorded'
      BY <3>1, <3>2 DEF AccountsGood, AccountsOwned, RegistrationRecorded, TypeOK
    <3> QED
      BY <3>1, <3>2, <3>8, <3>9 DEF AccountsGood, AdminLockKept
  <2> QED
    BY <2>2, <2>3
<1>8. CASE RegisterAudit(w)
  <2>1. req[w].id # 0 /\ req[w].email \in Emails
    BY <1>8, Records DEF RegisterAudit, InView, Numbered, At, Idle
  <2>2. req[w].id \in administered \/ users[req[w].email].owner = req[w].id
    BY <1>8 DEF RegisterAudit, AccountsGood, AccountsOwned
  <2>3. /\ UNCHANGED <<users, ordered, administered, begun>>
        /\ req' = [req EXCEPT ![w] = Idle]
    BY <1>8 DEF RegisterAudit, Respond
  <2>4. \A v \in Workers : /\ ~Inserted(v)' => ~Inserted(v) /\ req'[v] = req[v]
                           /\ \A pc \in {"admin", "audit"} :
                                 At(v, pc)' => At(v, pc) /\ req'[v] = req[v]
    BY <2>3 DEF At, TypeOK, Idle, Inserted
  <2>5. \/ UNCHANGED <<audit, answered>>
        \/ /\ \E e \in Emails : users[e].owner = req[w].id
           /\ audit' = audit \cup {req[w].id}
           /\ answered' = answered \cup {[id |-> req[w].id, email |-> req[w].email]}
    BY <1>8 DEF RegisterAudit
  <2>6. AccountsOwned'
    BY <2>1, <2>3, <2>4, <2>5 DEF AccountsGood, AccountsOwned
  <2>7. RegistrationRecorded'
    BY <2>1, <2>2, <2>3, <2>5 DEF AccountsGood, RegistrationRecorded
  <2> QED
    BY <2>3, <2>6, <2>7 DEF AccountsGood, AdminLockKept
<1> QED
  BY <1>3, <1>4, <1>5, <1>6, <1>7, <1>8 DEF Views

\* An admin's step from the page, which touches the account it shows and no other.
LEMMA PageAccounts ==
    ASSUME TypeOK, TypeOK', Numbered, AccountsGood, NEW w \in Workers, At(w, "admin"),
           Respond(w), UNCHANGED <<begun, audit, answered>>,
           administered \subseteq administered',
           \A e \in Emails : \/ /\ users[e].owner \in {0, req[w].row.owner}
                                /\ users'[e].owner # 0 /\ users'[e].owner = req[w].row.owner
                             \/ users'[e] = NoAccount /\ users[e].owner = req[w].row.owner
                             \/ users'[e] = users[e] /\ users[e].owner # req[w].row.owner,
           \A e, f \in Emails : users'[e].owner = req[w].row.owner
                                  /\ users'[f].owner = req[w].row.owner => e = f,
           \/ req[w].row.owner \in administered'
           \/ \E e \in Emails : users[e].owner = req[w].row.owner /\ users'[e].owner = users[e].owner,
           AdminLockKept'
    PROVE  AccountsGood'
<1> DEFINE me == req[w].row.owner
<1>1. me # 0 /\ me <= begun /\ me \in Int /\ begun \in Nat
  BY Records DEF AccountsGood, AccountsOwned, Holding, Account, TypeOK
<1>2. \A v \in Workers : /\ ~Inserted(v)' => ~Inserted(v) /\ req'[v] = req[v]
                         /\ \A pc \in {"admin", "audit"} :
                               At(v, pc)' => At(v, pc) /\ req'[v] = req[v]
  BY DEF At, TypeOK, Idle, Inserted, Respond
<1>3. \A e \in Emails : users'[e].owner \in {0, me, users[e].owner}
  BY DEF NoAccount
<1>4. ASSUME NEW id, NEW e \in Emails, id # 0,
             id \in administered \/ users[e].owner = id
      PROVE  id \in administered' \/ users'[e].owner = id
  <2>1. CASE users[e].owner = id /\ id # me
    BY <1>4, <2>1
  <2>2. CASE users[e].owner = id /\ id = me
    BY <1>1, <2>2 DEF AccountsGood, AccountsOwned
  <2> QED
    BY <1>4, <2>1, <2>2
<1>5. \A v \in Workers : At(v, "audit") => req[v].email \in Emails /\ req[v].id # 0
  BY Records DEF InView, At, Idle, Numbered
<1>6. AccountsOwned'
  <2>1. \A e \in Emails : users'[e].owner = 0 => users'[e].lockedUntil = 0
    BY DEF AccountsGood, AccountsOwned, NoAccount
  <2>2. \A e, f \in Emails : users'[e].owner = users'[f].owner => e = f \/ users'[e].owner = 0
    BY DEF AccountsGood, AccountsOwned, NoAccount
  <2>3. \A e \in Emails : users'[e].owner <= begun
    BY <1>1, <1>3 DEF AccountsGood, AccountsOwned
  <2>4. \A v \in Workers : ~Inserted(v)' =>
          /\ \A e \in Emails : users'[e].owner # req'[v].id
          /\ \A u \in Workers : At(u, "admin")' => req'[u].row.owner # req'[v].id
    <3> SUFFICES ASSUME NEW v \in Workers, ~Inserted(v)'
                 PROVE  /\ \A e \in Emails : users'[e].owner # req'[v].id
                        /\ \A u \in Workers : At(u, "admin")' => req'[u].row.owner # req'[v].id
      OBVIOUS
    <3>1. ~Inserted(v) /\ req'[v] = req[v]
      BY <1>2
    <3>2. req[v].id # 0 /\ req[v].id # me /\ \A e \in Emails : users[e].owner # req[v].id
      BY <3>1 DEF AccountsGood, AccountsOwned, Numbered, Inserted
    <3> QED
      BY <1>2, <1>3, <3>1, <3>2 DEF AccountsGood, AccountsOwned
  <2>5. \A v \in Workers : At(v, "audit")' =>
          req'[v].id \in administered' \/ users'[req'[v].email].owner = req'[v].id
    BY <1>2, <1>4, <1>5 DEF AccountsGood, AccountsOwned
  <2> QED
    BY <1>2, <2>1, <2>2, <2>3, <2>4, <2>5 DEF AccountsGood, AccountsOwned
<1>7. RegistrationRecorded'
  <2>1. \A id \in audit : id # 0
    BY DEF AccountsGood, AccountsOwned
  <2>2. ASSUME NEW id \in audit
        PROVE  id \in administered' \/ \E e \in Emails : users'[e].owner = id
    <3>1. id \in administered \/ \E e \in Emails : users[e].owner = id
      BY DEF AccountsGood, RegistrationRecorded
    <3> QED
      BY <1>4, <2>1, <3>1
  <2>3. ASSUME NEW a \in answered
        PROVE  a.id \in audit /\ (a.id \in administered' \/ users'[a.email].owner = a.id)
    <3>1. a.email \in Emails
      BY DEF TypeOK
    <3>2. a.id \in audit /\ (a.id \in administered \/ users[a.email].owner = a.id)
      BY DEF AccountsGood, RegistrationRecorded
    <3> QED
      BY <1>4, <2>1, <3>1, <3>2
  <2> QED
    BY <2>2, <2>3 DEF RegistrationRecorded
<1> QED
  BY <1>6, <1>7 DEF AccountsGood

LEMMA AdminAccounts ==
    ASSUME TypeOK, TypeOK', Numbered, AccountsGood, NEW w \in Workers, Admin(w)
    PROVE  AccountsGood'
<1>1. begun \in Nat /\ \A e \in Emails : users[e].owner \in Int /\ users[e].owner <= begun
  BY DEF TypeOK, Account, AccountsGood, AccountsOwned
<1>2. \A v \in Workers : req[v] # Idle => req[v].id \in Nat /\ req[v].id <= begun /\ req[v].id # 0
  BY DEF Numbered
<1>3. ASSUME NEW e \in Emails, AdminAdd(w, e) PROVE AccountsGood'
  <2>1. /\ users' = [users EXCEPT ![e] = Owned(begun + 1)]
        /\ UNCHANGED <<audit, ordered, answered, administered, req>>
        /\ begun' = begun + 1 /\ users[e].owner = 0
    BY <1>3 DEF AdminAdd, Begin, Registered, TypeOK
  <2>2. /\ users'[e].owner = begun + 1 /\ users'[e].lockedUntil = 0 /\ users[e].lockedUntil = 0
        /\ \A x \in Emails \ {e} : users'[x] = users[x]
    BY <2>1 DEF TypeOK, Owned, NoAccount, AccountsGood, AccountsOwned
  <2>3. \A v \in Workers, pc \in {"admin", "audit"} : At(v, pc)' <=> At(v, pc)
    BY <2>1 DEF At
  <2>4. \A v \in Workers : At(v, "audit") => req[v].email \in Emails /\ req[v] # Idle
    BY Records DEF InView, At, Idle
  <2>5. \A v \in Workers : At(v, "admin") => req[v].row.owner \in Int
    BY Records DEF Holding, Account
  <2>6. \A v \in Workers : Inserted(v)' <=> Inserted(v)
    BY <2>1 DEF Inserted, At
  <2>7. AccountsOwned'
    <3>1. \A v \in Workers : ~Inserted(v) => req[v].id < begun + 1
      BY <1>1, <1>2 DEF Inserted
    <3>2. \A v \in Workers : At(v, "audit") =>
            req[v].id \in administered \/ users'[req[v].email].owner = req[v].id
      BY <1>2, <2>1, <2>2, <2>4 DEF AccountsGood, AccountsOwned
    <3> QED
      BY <1>1, <2>1, <2>2, <2>3, <2>5, <2>6, <3>1, <3>2 DEF AccountsGood, AccountsOwned
  <2>8. RegistrationRecorded'
    BY <2>1, <2>2 DEF AccountsGood, AccountsOwned, RegistrationRecorded, TypeOK
  <2> QED
    BY <2>1, <2>2, <2>7, <2>8 DEF AccountsGood, AdminLockKept
<1>4. ASSUME NEW e \in Emails, AdminRead(w, e) PROVE AccountsGood'
  <2>1. /\ UNCHANGED <<users, audit, ordered, answered, administered>>
        /\ begun' = begun + 1 /\ req[w] = Idle
    BY <1>4 DEF AdminRead, accounts, Begin
  <2>2. /\ req' = [req EXCEPT ![w] = [pc |-> "admin", id |-> begun + 1, row |-> users[e]]]
        /\ users[e].owner # 0
    BY <1>4 DEF AdminRead, Begin, Registered
  <2>3. \A v \in Workers \ {w} : /\ req'[v] = req[v]
                                 /\ Inserted(v)' <=> Inserted(v)
                                 /\ \A pc \in {"admin", "audit"} : At(v, pc)' <=> At(v, pc)
    BY <2>2 DEF At, TypeOK, Inserted
  <2>4. ~At(w, "audit")' /\ req'[w].row = users[e] /\ req'[w].id = begun + 1
    BY <2>2 DEF At, TypeOK
  <2>5. \A v \in Workers : At(v, "admin") => req[v].row.owner \in Int
    BY Records DEF Holding, Account
  <2>6. AccountsOwned'
    <3>1. \A v \in Workers : At(v, "admin")' => /\ req'[v].row.owner # 0
                                                /\ req'[v].row.owner <= begun
      BY <1>1, <2>2, <2>3, <2>4 DEF AccountsGood, AccountsOwned
    <3>2. ASSUME NEW v \in Workers, ~Inserted(v)'
          PROVE  /\ \A x \in Emails : users[x].owner # req'[v].id
                 /\ \A u \in Workers : At(u, "admin")' => req'[u].row.owner # req'[v].id
      <4>1. CASE v = w
        <5>1. \A u \in Workers : At(u, "admin")' => req'[u].row.owner \in Int
          BY <1>1, <2>3, <2>4, <2>5
        <5> QED
          BY <1>1, <2>4, <3>1, <4>1, <5>1
      <4>2. CASE v # w
        <5>1. ~Inserted(v) /\ req'[v] = req[v]
          BY <2>3, <3>2, <4>2
        <5> QED
          BY <2>3, <2>4, <5>1 DEF AccountsGood, AccountsOwned
      <4> QED
        BY <4>1, <4>2
    <3>3. \A v \in Workers : At(v, "audit")' => v # w /\ At(v, "audit") /\ req'[v] = req[v]
      BY <2>3, <2>4
    <3>4. \A x \in Emails : users[x].owner <= begun + 1
      BY <1>1
    <3>5. \A v \in Workers : At(v, "admin")' => req'[v].row.owner <= begun + 1
      BY <1>1, <2>3, <2>4, <2>5, <3>1
    <3> QED
      BY <2>1, <3>1, <3>2, <3>3, <3>4, <3>5 DEF AccountsGood, AccountsOwned
  <2> QED
    BY <2>1, <2>6 DEF AccountsGood, AdminLockKept, RegistrationRecorded
<1>5. CASE AdminSave(w)
  <2> DEFINE row == req[w].row
  <2>1. row \in Account /\ row.owner # 0
    BY <1>5, Records DEF AdminSave, Holding, AccountsGood, AccountsOwned
  <2>2. PICK e \in Emails, until \in {0, now + LockTime} :
          /\ users[e].owner \in {0, row.owner}
          /\ users' = [Without(row.owner) EXCEPT ![e] = [row EXCEPT !.lockedUntil = until]]
          /\ ordered' = [f \in Emails |-> IF f = e THEN until
                                         ELSE IF users[f].owner = row.owner THEN 0
                                         ELSE ordered[f]]
          /\ administered' = IF users[e].owner = row.owner THEN administered
                             ELSE administered \cup {row.owner}
    BY <1>5 DEF AdminSave
  <2>3. /\ users'[e].owner = row.owner /\ users'[e].lockedUntil = until
        /\ \A f \in Emails \ {e} : users'[f] = IF users[f].owner = row.owner THEN NoAccount
                                               ELSE users[f]
    BY <2>1, <2>2 DEF Without, Account
  <2>4. AdminLockKept'
    BY <2>2, <2>3 DEF AdminLockKept, AccountsGood, NoAccount
  <2>5. /\ At(w, "admin") /\ Respond(w) /\ UNCHANGED <<begun, audit, answered>>
        /\ administered \subseteq administered'
    BY <1>5, <2>2 DEF AdminSave
  <2>6. \A f \in Emails : \/ /\ users[f].owner \in {0, row.owner}
                             /\ users'[f].owner # 0 /\ users'[f].owner = row.owner
                          \/ users'[f] = NoAccount /\ users[f].owner = row.owner
                          \/ users'[f] = users[f] /\ users[f].owner # row.owner
    BY <2>1, <2>2, <2>3
  <2>7. \A f, g \in Emails : users'[f].owner = row.owner /\ users'[g].owner = row.owner => f = g
    BY <2>1, <2>3 DEF NoAccount
  <2>8. \/ row.owner \in administered'
        \/ \E f \in Emails : users[f].owner = row.owner /\ users'[f].owner = users[f].owner
    BY <2>2, <2>3
  <2> QED
    BY <2>4, <2>5, <2>6, <2>7, <2>8, PageAccounts
<1>6. CASE AdminRefused(w)
  <2>1. GoesOn(w, Idle) /\ Idle \in Record /\ Idle.pc \notin {"admin", "audit"}
    BY <1>6 DEF AdminRefused, Respond, GoesOn, Record, Idle, At
  <2> QED
    BY <1>6, <2>1, ElsewhereGood DEF AdminRefused
<1>7. CASE AdminDelete(w)
  <2> DEFINE id == req[w].row.owner
  <2>1. id # 0
    BY <1>7 DEF AdminDelete, AccountsGood, AccountsOwned
  <2>2. /\ At(w, "admin") /\ Respond(w) /\ UNCHANGED <<begun, audit, answered>>
        /\ administered' = administered \cup {id}
        /\ users' = Without(id)
        /\ ordered' = [e \in Emails |-> IF users[e].owner = id THEN 0 ELSE ordered[e]]
    BY <1>7 DEF AdminDelete
  <2>3. \A e \in Emails : users'[e] = IF users[e].owner = id THEN NoAccount ELSE users[e]
    BY <2>2 DEF Without
  <2>4. AdminLockKept'
    BY <2>2, <2>3 DEF AdminLockKept, AccountsGood, NoAccount
  <2>5. \A e \in Emails : users'[e].owner # id
    BY <2>1, <2>3 DEF NoAccount
  <2> QED
    BY <2>2, <2>3, <2>4, <2>5, PageAccounts
<1> QED
  BY <1>3, <1>4, <1>5, <1>6, <1>7 DEF Admin

LEMMA AccountsInvariant == Spec => []AccountsGood
<1>1. Init => AccountsGood
  <2> SUFFICES ASSUME Init PROVE AccountsGood
    OBVIOUS
  <2>1. PICK id \in [Emails -> (-Cardinality(Emails))..0] :
          /\ \A e, f \in Emails : id[e] = id[f] => e = f \/ id[e] = 0
          /\ users = [e \in Emails |-> Owned(id[e])]
    BY DEF Init
  <2>2. Cardinality(Emails) \in Nat
    BY EmailsAssumption, FS_CardinalityType
  <2>3. \A e \in Emails : /\ users[e].owner = id[e] /\ users[e].lockedUntil = 0
                          /\ id[e] \in Int /\ id[e] <= 0
    BY <2>1, <2>2 DEF Owned, NoAccount
  <2>4. \A w \in Workers : Inserted(w) /\ ~At(w, "admin") /\ ~At(w, "audit")
    BY DEF Init, Inserted, At, Idle
  <2>5. AccountsOwned
    BY <2>1, <2>3, <2>4 DEF Init, AccountsOwned
  <2> QED
    BY <2>3, <2>5 DEF Init, AccountsGood, AdminLockKept, RegistrationRecorded
<1>2. TypeOK /\ TypeOK' /\ Numbered /\ AccountsGood /\ [Next]_vars => AccountsGood'
  <2> SUFFICES ASSUME TypeOK, TypeOK', Numbered, AccountsGood, [Next]_vars
               PROVE  AccountsGood'
    OBVIOUS
  <2>1. ASSUME NEW w \in Workers, Crash(w) PROVE AccountsGood'
    <3>1. GoesOn(w, Idle) /\ Idle \in Record /\ Idle.pc \notin {"admin", "audit"}
      BY <2>1 DEF Crash, Respond, GoesOn, Record, Idle
    <3> QED
      BY <2>1, <3>1, ElsewhereGood DEF Crash
  <2>2. CASE Tick \/ UNCHANGED vars
    BY <2>2 DEF Tick, vars, accounts, AccountsGood, AccountsOwned, AdminLockKept,
                RegistrationRecorded, At, Inserted
  <2> QED
    BY <2>1, <2>2, LimiterAccounts, ViewsAccounts, AdminAccounts DEF Next
<1> QED
  BY <1>1, <1>2, TypeCorrect, NumberedInvariant, PTL DEF Spec

\* The lock of an account is the one the admin saved last (views/main.py:69-72).
THEOREM AdminLockStays == Spec => []AdminLockKept
BY AccountsInvariant, PTL DEF AccountsGood

\* An audited registration has its account, and one that was answered owns its
\* address, unless an admin moved or deleted that account (views/main.py:91-99,
\* serializers.py:35-40).
THEOREM RegistrationsRecorded == Spec => []RegistrationRecorded
BY AccountsInvariant, PTL DEF AccountsGood

-----------------------------------------------------------------------------
(* Part 4: the limit and the block.                                         *)

\* The workers between the three cache calls of a path, and those that have been
\* found under its limit, of which some saw no key and will set it.
Inside(p) == {w \in Workers : req[w].pc \in {"count", "over", "under"} /\ req[w].path = p}
Going(p) == {w \in Workers : At(w, "under") /\ req[w].path = p}
Setting(p) == {w \in Going(p) : req[w].seen = 0}

\* Counting workers.
LEMMA Workforce ==
    ASSUME NEW S \in SUBSET Workers
    PROVE  /\ IsFiniteSet(S)
           /\ Cardinality(S) \in Nat
           /\ Cardinality(Workers) \in Nat
           /\ Cardinality(S) <= Cardinality(Workers)
           /\ \A w \in S : Cardinality(S \ {w}) = Cardinality(S) - 1
BY WorkersAssumption, FS_Subset, FS_CardinalityType, FS_RemoveElement

LEMMA FewerWorkers ==
    ASSUME NEW S \in SUBSET Workers, NEW R \in SUBSET S
    PROVE  Cardinality(R) <= Cardinality(S)
BY Workforce, FS_Subset

\* The views and the admin do not touch the limiter.
LEMMA ViewsOutside ==
    ASSUME TypeOK, NEW w \in Workers, Views(w) \/ Admin(w)
    PROVE  /\ UNCHANGED <<now, limiter>>
           /\ \E r : /\ req' = [req EXCEPT ![w] = r]
                    /\ r.pc \notin {"count", "over", "under"}
<1>1. UNCHANGED <<now, limiter>>
  BY DEF Views, Admin, LoginCheck, RegisterCheck, LoginFails, LoginSucceeds, RereadUser,
         SaveIp, RegisterInsert, RegisterAudit, AdminAdd, AdminRead, AdminSave, AdminRefused,
         AdminDelete
<1>2. ASSUME Respond(w)
      PROVE  \E r : req' = [req EXCEPT ![w] = r] /\ r.pc \notin {"count", "over", "under"}
  <2>1. req' = [req EXCEPT ![w] = Idle] /\ Idle.pc \notin {"count", "over", "under"}
    BY <1>2 DEF Respond, Idle
  <2> QED
    BY <2>1
<1>3. ASSUME NEW pc \in {"authenticate", "reread", "insert", "audit"}, NEW e,
             Continue(w, pc, e)
      PROVE  \E r : req' = [req EXCEPT ![w] = r] /\ r.pc \notin {"count", "over", "under"}
  <2> DEFINE r == [pc |-> pc, id |-> req[w].id, email |-> e]
  <2>1. req' = [req EXCEPT ![w] = r] /\ r.pc \notin {"count", "over", "under"}
    BY <1>3 DEF Continue
  <2> QED
    BY <2>1
<1>4. CASE RereadUser(w)
  <2> DEFINE r == [pc |-> "save_ip", id |-> req[w].id, row |-> users[req[w].email]]
  <2>1. Respond(w) \/ req' = [req EXCEPT ![w] = r]
    BY <1>4 DEF RereadUser, TypeOK
  <2>2. r.pc \notin {"count", "over", "under"}
    OBVIOUS
  <2> QED
    BY <1>1, <1>2, <2>1, <2>2
<1>5. ASSUME NEW e \in Emails, AdminRead(w, e)
      PROVE  \E r : req' = [req EXCEPT ![w] = r] /\ r.pc \notin {"count", "over", "under"}
  <2> DEFINE r == [pc |-> "admin", id |-> begun + 1, row |-> users[e]]
  <2>1. req' = [req EXCEPT ![w] = r] /\ r.pc \notin {"count", "over", "under"}
    BY <1>5 DEF AdminRead, Begin
  <2> QED
    BY <2>1
<1>6. ASSUME NEW e \in Emails, LoginCheck(w, e) \/ RegisterCheck(w, e)
      PROVE  \E r : req' = [req EXCEPT ![w] = r] /\ r.pc \notin {"count", "over", "under"}
  BY <1>2, <1>3, <1>6 DEF LoginCheck, RegisterCheck
<1>7. CASE LoginFails(w) \/ LoginSucceeds(w) \/ SaveIp(w) \/ RegisterInsert(w)
           \/ RegisterAudit(w)
  <2>1. \/ Respond(w)
        \/ \E pc \in {"authenticate", "reread", "insert", "audit"} :
              Continue(w, pc, req[w].email)
    BY <1>7 DEF LoginFails, LoginSucceeds, SaveIp, RegisterInsert, RegisterAudit
  <2> QED
    BY <1>1, <1>2, <1>3, <2>1
<1>8. ASSUME NEW e \in Emails, AdminAdd(w, e)
      PROVE  \E r : req' = [req EXCEPT ![w] = r] /\ r.pc \notin {"count", "over", "under"}
  <2>1. Respond(w)
    BY <1>8 DEF AdminAdd, Begin, Respond
  <2> QED
    BY <1>2, <2>1
<1>9. CASE AdminSave(w) \/ AdminRefused(w) \/ AdminDelete(w)
  BY <1>1, <1>2, <1>9 DEF AdminSave, AdminRefused, AdminDelete
<1> QED
  BY <1>1, <1>4, <1>5, <1>6, <1>7, <1>8, <1>9 DEF Views, Admin

\* What the steps that count nobody do: they leave the counters alone, and take
\* nobody past the limit.
Idles == /\ UNCHANGED <<now, counter, run>>
         /\ \A p \in Paths : Going(p)' \subseteq Going(p) /\ Setting(p)' \subseteq Setting(p)

LEMMA Idling ==
    ASSUME TypeOK, NEW w \in Workers, NEW r, r.pc # "under",
           req' = [req EXCEPT ![w] = r], UNCHANGED <<now, counter, run>>
    PROVE  Idles
BY DEF TypeOK, Idles, Going, Setting, At

\* A worker that was found under the limit and goes through.
LEMMA GoesThrough ==
    ASSUME TypeOK, NEW w \in Workers, At(w, "under"), LetThrough(w)
    PROVE  /\ req[w].path \in Paths
           /\ \A p \in Paths : /\ Going(p)' = Going(p) \ {w}
                               /\ Inside(p)' = Inside(p) \ {w}
                               /\ Setting(p)' = Setting(p) \ {w}
           /\ w \in Going(req[w].path) /\ w \in Inside(req[w].path)
<1>1. req[w].path \in Paths
  BY Records DEF Counted
<1>2. req' = [req EXCEPT ![w] = [pc |-> req[w].path, id |-> req[w].id]]
  BY DEF LetThrough, TypeOK
<1>3. req[w].path \notin {"count", "over", "under"}
  BY <1>1 DEF Paths
<1>4. /\ req'[w].pc = req[w].path
      /\ \A v \in Workers \ {w} : req'[v] = req[v]
  BY <1>2 DEF TypeOK
<1>5. \A p \in Paths : /\ Going(p)' = Going(p) \ {w}
                        /\ Inside(p)' = Inside(p) \ {w}
                        /\ Setting(p)' = Setting(p) \ {w}
  BY <1>3, <1>4 DEF Going, Inside, Setting, At
<1> QED
  BY <1>1, <1>5 DEF Going, Inside, At

(* The limit: a counter in force and the workers about to increment it are  *)
(* together fewer than the limit and the workers.                           *)

Measured ==
    \A p \in Paths :
        Get(p) + Cardinality(Going(p)) < Limit[p] + Cardinality(Workers)

LEMMA IdlesMeasured ==
    ASSUME TypeOK, Measured, Idles
    PROVE  Measured'
<1> SUFFICES ASSUME NEW p \in Paths
             PROVE  Get(p)' + Cardinality(Going(p)') < Limit[p] + Cardinality(Workers)
  BY DEF Measured
<1>1. Get(p)' = Get(p) /\ counter' = counter
  BY DEF Idles, Get
<1>2. Going(p) \in SUBSET Workers /\ Going(p)' \in SUBSET Going(p)
  BY DEF Idles, Going
<1>3. Cardinality(Going(p)') <= Cardinality(Going(p))
  BY <1>2, FewerWorkers
<1>4. /\ Cardinality(Going(p)) \in Nat /\ Cardinality(Going(p)') \in Nat
      /\ Cardinality(Workers) \in Nat
  <2>1. Going(p)' \in SUBSET Workers
    BY <1>2
  <2> QED
    BY <1>2, <2>1, Workforce
<1>5. Get(p) \in Nat /\ Limit[p] \in Nat
  BY GetTyped, RulesAssumption
<1> QED
  BY <1>1, <1>3, <1>4, <1>5 DEF Measured

\* A worker that reads a count below the limit joins those that go through.
LEMMA ReadCountMeasured ==
    ASSUME TypeOK, Measured, NEW w \in Workers, ReadCount(w)
    PROVE  Measured'
<1> DEFINE p == req[w].path
           pc == IF OverLimit(p, Get(p)) THEN "over" ELSE "under"
           r == [pc |-> pc, path |-> p, id |-> req[w].id, seen |-> Get(p), readAt |-> now]
<1>1. req' = [req EXCEPT ![w] = r] /\ UNCHANGED <<now, counter, run>>
  BY DEF ReadCount, TypeOK, limiter
<1>2. CASE OverLimit(p, Get(p))
  BY <1>1, <1>2, Idling, IdlesMeasured
<1>3. CASE ~OverLimit(p, Get(p))
  <2> SUFFICES ASSUME NEW q \in Paths
               PROVE  Get(q)' + Cardinality(Going(q)') < Limit[q] + Cardinality(Workers)
    BY DEF Measured
  <2>1. Get(q)' = Get(q)
    BY <1>1 DEF Get
  <2>2. /\ Get(q) \in Nat /\ Limit[q] \in Nat
        /\ Cardinality(Workers) \in Nat /\ Cardinality(Going(q)') \in Nat
        /\ Cardinality(Going(q)') <= Cardinality(Workers)
    <3>1. Going(q)' \in SUBSET Workers
      BY DEF Going
    <3> QED
      BY <3>1, GetTyped, RulesAssumption, Workforce
  <2>3. CASE q = p
    <3>1. Get(q) < Limit[q]
      BY <1>3, <2>2, <2>3 DEF OverLimit
    <3> QED
      BY <1>1, <2>1, <2>2, <3>1 DEF Measured
  <2>4. CASE q # p
    <3>1. Going(q)' = Going(q)
      BY <1>1, <2>4 DEF Going, At, TypeOK, ReadCount
    <3> QED
      BY <1>1, <2>1, <3>1 DEF Measured
  <2> QED
    BY <2>3, <2>4
<1> QED
  BY <1>2, <1>3

\* A worker that goes through is no longer about to.
LEMMA CountedMeasured ==
    ASSUME TypeOK, Measured, NEW w \in Workers, StartWindow(w) \/ Increment(w)
    PROVE  Measured'
<1> DEFINE p == req[w].path
<1>1. /\ p \in Paths /\ w \in Going(p)
      /\ \A q \in Paths : Going(q)' = Going(q) \ {w}
  BY GoesThrough DEF StartWindow, Increment
<1> SUFFICES ASSUME NEW q \in Paths
             PROVE  Get(q)' + Cardinality(Going(q)') < Limit[q] + Cardinality(Workers)
  BY DEF Measured
<1>2. /\ Get(q) \in Nat /\ Limit[q] \in Nat \ {0} /\ Cardinality(Workers) \in Nat
      /\ Cardinality(Going(q)) \in Nat /\ Cardinality(Going(q)) <= Cardinality(Workers)
      /\ w \in Going(q) => Cardinality(Going(q)') = Cardinality(Going(q)) - 1
  <2>1. Going(q) \in SUBSET Workers
    BY DEF Going
  <2> QED
    BY <1>1, <2>1, GetTyped, RulesAssumption, Workforce
<1>3. CASE q # p
  <2>1. w \notin Going(q)
    BY <1>3 DEF Going
  <2>2. Going(q)' = Going(q)
    BY <1>1, <2>1
  <2>3. Get(q)' = Get(q) /\ counter'[q] = counter[q]
    BY <1>3 DEF StartWindow, Increment, Get, TypeOK
  <2> QED
    BY <2>2, <2>3 DEF Measured
<1>4. ASSUME q = p
      PROVE  Cardinality(Going(q)') = Cardinality(Going(q)) - 1 /\ Cardinality(Going(q)) > 0
  <2>1. Going(q)' \in SUBSET Workers
    BY DEF Going
  <2>2. Cardinality(Going(q)') \in Nat
    BY <2>1, Workforce
  <2> QED
    BY <1>1, <1>2, <1>4, <2>2
<1>5. CASE q = p /\ StartWindow(w)
  <2>1. counter'[q] = [value |-> 1, expires |-> now + Window[q]] /\ now' = now
    BY <1>5 DEF StartWindow, TypeOK
  <2>2. Get(q)' \in {0, 1} /\ counter'[q].value = 1
    BY <2>1 DEF Get
  <2> QED
    BY <1>2, <1>4, <1>5, <2>2
<1>6. CASE q = p /\ Increment(w)
  <2>1. /\ counter'[q].value = counter[q].value + 1
        /\ counter'[q].expires = counter[q].expires
        /\ now' = now /\ now < counter[q].expires
        /\ counter[q].value \in Nat
    BY <1>6 DEF Increment, TypeOK
  <2>2. Get(q) = counter[q].value /\ Get(q)' = counter[q].value + 1
    BY <2>1 DEF Get
  <2>3. Get(q) + Cardinality(Going(q)) < Limit[q] + Cardinality(Workers)
    BY DEF Measured
  <2> QED
    BY <1>2, <1>4, <1>6, <2>1, <2>2, <2>3
<1> QED
  BY <1>3, <1>5, <1>6

LEMMA MeasuredInvariant == Spec => []Measured
<1>1. Init => Measured
  <2> SUFFICES ASSUME Init, NEW p \in Paths
               PROVE  Get(p) + Cardinality(Going(p)) < Limit[p] + Cardinality(Workers)
    BY DEF Measured
  <2>1. Get(p) = 0 /\ counter[p].value = 0 /\ Going(p) \in SUBSET Workers
    BY DEF Init, Get, Going
  <2> QED
    BY <2>1, Workforce, RulesAssumption
<1>2. TypeOK /\ Measured /\ [Next]_vars => Measured'
  <2> SUFFICES ASSUME TypeOK, Measured, [Next]_vars PROVE Measured'
    OBVIOUS
  <2> USE DEF limiter
  <2>1. ASSUME NEW w \in Workers, Views(w) \/ Admin(w) PROVE Measured'
    BY <2>1, ViewsOutside, Idling, IdlesMeasured
  <2>2. ASSUME NEW w \in Workers, Crash(w) PROVE Measured'
    BY <2>2, Idling, IdlesMeasured DEF Crash, Respond, Idle
  <2>3. ASSUME NEW w \in Workers, SetBlock(w) \/ IncrementFails(w) PROVE Measured'
    BY <2>3, Idling, IdlesMeasured DEF SetBlock, IncrementFails, Respond, Idle
  <2>4. ASSUME NEW w \in Workers, NEW p \in Paths, Admit(w, p) \/ TurnAway(w, p)
        PROVE  Measured'
    BY <2>4, Idling, IdlesMeasured DEF Admit, TurnAway, Begin, Idle
  <2>5. CASE Tick
    <3> SUFFICES ASSUME NEW p \in Paths
                 PROVE  Get(p)' + Cardinality(Going(p)') < Limit[p] + Cardinality(Workers)
      BY DEF Measured
    <3>1. Going(p)' = Going(p) /\ Going(p) \in SUBSET Workers /\ counter' = counter
      BY <2>5 DEF Tick, Going, At
    <3>2. Get(p)' \in {0, Get(p)}
      BY <2>5 DEF Tick, Get, TypeOK
    <3>3. Limit[p] \in Nat \ {0} /\ Get(p) \in Nat
      BY RulesAssumption, GetTyped
    <3> QED
      BY <3>1, <3>2, <3>3, Workforce DEF Measured
  <2>6. CASE UNCHANGED vars
    BY <2>6, IdlesMeasured DEF vars, Idles, Going, Setting, At
  <2> QED
    BY <2>1, <2>2, <2>3, <2>4, <2>5, <2>6, ReadCountMeasured, CountedMeasured DEF Next, Limiter
<1> QED
  BY <1>1, <1>2, TypeCorrect, PTL DEF Spec

(* The run: every worker that saw no key may put the counter back to 1 once,  *)
(* and each time there is room for the limit again and for the workers that   *)
(* have not done so.                                                          *)

InForce(p) == now < counter[p].expires
Rounds(m, l) == 2 * m * l + m * (m - 1)

LEMMA RoundsNext ==
    ASSUME NEW m \in Nat, NEW l \in Nat
    PROVE  /\ Rounds(m, l) \in Nat
           /\ Rounds(m + 1, l) = Rounds(m, l) + 2 * l + 2 * m
<1>1. m * (m - 1) \in Nat /\ 2 * m * l \in Nat
  <2>1. CASE m = 0
    BY <2>1
  <2>2. CASE m # 0
    BY <2>2
  <2> QED
    BY <2>1, <2>2
<1>2. (m + 1) * m = m * (m - 1) + 2 * m
  OBVIOUS
<1>3. 2 * (m + 1) * l = 2 * m * l + 2 * l
  OBVIOUS
<1> QED
  BY <1>1, <1>2, <1>3 DEF Rounds

LEMMA RoundsGrow ==
    ASSUME NEW a \in Nat, NEW b \in Nat, a <= b, NEW l \in Nat
    PROVE  Rounds(a, l) <= Rounds(b, l)
<1> DEFINE d == b - a
<1>1. d \in Nat /\ b = a + d
  OBVIOUS
<1>2. 2 * b * l = 2 * a * l + 2 * d * l
  BY <1>1
<1>3. b * (b - 1) = a * (a - 1) + d * (d - 1) + 2 * a * d
  BY <1>1
<1>4. d * l \in Nat /\ a * d \in Nat
  BY <1>1
<1>5. d * (d - 1) \in Nat
  <2>1. CASE d = 0
    BY <2>1
  <2>2. CASE d # 0
    BY <1>1, <2>2
  <2> QED
    BY <2>1, <2>2
<1>6. a * (a - 1) \in Int /\ a * l \in Int
  OBVIOUS
<1> QED
  BY <1>2, <1>3, <1>4, <1>5, <1>6 DEF Rounds

RunsGood ==
    LET N == Cardinality(Workers) IN
    \A p \in Paths :
        /\ 2 * run[p] <= Rounds(N, Limit[p])
        /\ InForce(p) =>
              /\ Cardinality(Setting(p)) < N
              /\ counter[p].value >= 1
              /\ 2 * run[p] <= 2 * counter[p].value
                                 + Rounds(N - 1 - Cardinality(Setting(p)), Limit[p])

\* The numbers RunsGood is about.
LEMMA RunsTyped ==
    ASSUME TypeOK, NEW p \in Paths
    PROVE  /\ Cardinality(Workers) \in Nat /\ Limit[p] \in Nat \ {0}
           /\ run[p] \in Nat /\ counter[p].value \in Nat
           /\ Setting(p) \in SUBSET Going(p) /\ Going(p) \in SUBSET Workers
           /\ Cardinality(Setting(p)) \in Nat /\ Cardinality(Going(p)) \in Nat
           /\ Cardinality(Setting(p)) <= Cardinality(Going(p))
           /\ Cardinality(Going(p)) <= Cardinality(Workers)
<1>1. Setting(p) \in SUBSET Going(p) /\ Going(p) \in SUBSET Workers
  BY DEF Setting, Going
<1>2. Setting(p) \in SUBSET Workers
  BY <1>1
<1> QED
  BY <1>1, <1>2, Workforce, FewerWorkers, RulesAssumption DEF TypeOK

\* While the key is there, what bounds the run by the counter bounds it.
LEMMA RunBounded ==
    ASSUME NEW N \in Nat, NEW z \in Nat, z < N, NEW l \in Nat, NEW v \in Nat, NEW r \in Nat,
           v <= l + N - 1 - z, 2 * r <= 2 * v + Rounds(N - 1 - z, l)
    PROVE  2 * r <= Rounds(N, l)
<1> DEFINE m == N - 1 - z
<1>1. m \in Nat /\ m + 1 \in Nat /\ m + 1 <= N
  OBVIOUS
<1>2. Rounds(m, l) \in Nat /\ Rounds(m + 1, l) = Rounds(m, l) + 2 * l + 2 * m
  BY <1>1, RoundsNext
<1>3. Rounds(m + 1, l) <= Rounds(N, l) /\ Rounds(N, l) \in Nat
  BY <1>1, RoundsGrow, RoundsNext
<1>4. v <= l + m /\ 2 * r <= 2 * v + Rounds(m, l)
  OBVIOUS
<1> HIDE DEF m
<1> QED
  BY <1>1, <1>2, <1>3, <1>4

\* A step that neither counts nor, while the key is there, finds it missing.
LEMMA RunsStay ==
    ASSUME TypeOK, TypeOK', RunsGood, UNCHANGED <<counter, run>>,
           \A p \in Paths : InForce(p)' => InForce(p) /\ Setting(p)' \subseteq Setting(p)
    PROVE  RunsGood'
<1> DEFINE N == Cardinality(Workers)
<1> SUFFICES ASSUME NEW p \in Paths
             PROVE  /\ 2 * run'[p] <= Rounds(N, Limit[p])
                    /\ InForce(p)' =>
                          /\ Cardinality(Setting(p)') < N
                          /\ counter'[p].value >= 1
                          /\ 2 * run'[p] <= 2 * counter'[p].value
                                              + Rounds(N - 1 - Cardinality(Setting(p)'), Limit[p])
  BY DEF RunsGood
<1> SUFFICES ASSUME InForce(p)'
             PROVE  /\ Cardinality(Setting(p)') < N
                    /\ 2 * run[p] <= 2 * counter[p].value
                                       + Rounds(N - 1 - Cardinality(Setting(p)'), Limit[p])
  BY DEF RunsGood
<1> DEFINE z == Cardinality(Setting(p))
           y == Cardinality(Setting(p)')
<1>1. y <= z /\ y \in Nat /\ z \in Nat /\ N \in Nat /\ Limit[p] \in Nat
      /\ run[p] \in Nat /\ counter[p].value \in Nat
  <2>1. Setting(p) \in SUBSET Workers /\ Setting(p)' \in SUBSET Setting(p)
    BY RunsTyped
  <2>2. Setting(p)' \in SUBSET Workers
    BY <2>1
  <2> QED
    BY <2>1, <2>2, FewerWorkers, Workforce, RunsTyped
<1>2. z < N /\ 2 * run[p] <= 2 * counter[p].value + Rounds(N - 1 - z, Limit[p])
  BY DEF RunsGood
<1>3. N - 1 - z \in Nat /\ N - 1 - y \in Nat /\ N - 1 - z <= N - 1 - y
  BY <1>1, <1>2
<1>4. Rounds(N - 1 - z, Limit[p]) <= Rounds(N - 1 - y, Limit[p])
      /\ Rounds(N - 1 - z, Limit[p]) \in Nat /\ Rounds(N - 1 - y, Limit[p]) \in Nat
  BY <1>1, <1>3, RoundsGrow, RoundsNext
<1> HIDE DEF y, z, N
<1>5. y < N /\ 2 * run[p] <= 2 * counter[p].value + Rounds(N - 1 - y, Limit[p])
  BY <1>1, <1>2, <1>4
<1> QED
  BY <1>5 DEF y, z, N

LEMMA PassageRuns ==
    ASSUME TypeOK, TypeOK', Measured, Measured', RunsGood, NEW w \in Workers,
           StartWindow(w) \/ Increment(w)
    PROVE  RunsGood'
<1> DEFINE N == Cardinality(Workers)
           me == req[w].path
<1>1. /\ me \in Paths /\ w \in Going(me)
      /\ \A q \in Paths : Setting(q)' = Setting(q) \ {w}
  BY GoesThrough DEF StartWindow, Increment
<1> SUFFICES ASSUME NEW p \in Paths
             PROVE  /\ 2 * run'[p] <= Rounds(N, Limit[p])
                    /\ InForce(p)' =>
                          /\ Cardinality(Setting(p)') < N
                          /\ counter'[p].value >= 1
                          /\ 2 * run'[p] <= 2 * counter'[p].value
                                              + Rounds(N - 1 - Cardinality(Setting(p)'), Limit[p])
  BY DEF RunsGood
<1>2. CASE p # me
  <2>1. w \notin Setting(p)
    BY <1>2 DEF Setting, Going
  <2>2. Setting(p)' = Setting(p)
    BY <1>1, <2>1
  <2>3. counter'[p] = counter[p] /\ run'[p] = run[p] /\ now' = now
    BY <1>2 DEF StartWindow, Increment, LetThrough, TypeOK
  <2> QED
    BY <2>2, <2>3 DEF RunsGood, InForce
<1>3. CASE p = me
  <2> DEFINE z == Cardinality(Setting(p))
             y == Cardinality(Setting(p)')
  <2>1. /\ N \in Nat /\ Limit[p] \in Nat \ {0} /\ run[p] \in Nat
        /\ counter[p].value \in Nat /\ z \in Nat /\ z <= N
        /\ y \in Nat /\ y <= Cardinality(Going(p)') /\ Cardinality(Going(p)') \in Nat
        /\ run'[p] \in Nat /\ counter'[p].value \in Nat
    <3>1. Setting(p)' \in SUBSET Going(p)' /\ Going(p)' \in SUBSET Workers
      BY DEF Setting, Going
    <3>2. Setting(p)' \in SUBSET Workers
      BY <3>1
    <3> QED
      BY <3>1, <3>2, RunsTyped, Workforce, FewerWorkers DEF TypeOK
  <2>2. /\ N > 0
        /\ w \in Setting(p) => y = z - 1 /\ z > 0
        /\ w \notin Setting(p) => y = z
    <3>1. /\ Setting(p) \in SUBSET Workers
          /\ \A x \in Setting(p) : Cardinality(Setting(p) \ {x}) = z - 1
      BY Workforce, RunsTyped
    <3>2. Setting(p) \ {w} \in SUBSET Workers
      BY <3>1
    <3>3. Cardinality(Setting(p) \ {w}) \in Nat
      BY <3>2, Workforce
    <3>4. N > 0
      <4>1. Cardinality(Workers \ {w}) = N - 1 /\ Workers \ {w} \in SUBSET Workers
        BY Workforce
      <4>2. Cardinality(Workers \ {w}) \in Nat
        BY <4>1, Workforce
      <4> QED
        BY <2>1, <4>1, <4>2
    <3>5. w \notin Setting(p) => Setting(p)' = Setting(p)
      BY <1>1
    <3> QED
      BY <1>1, <2>1, <3>1, <3>3, <3>4, <3>5
  <2>3. SUFFICES /\ y < N
                 /\ counter'[p].value >= 1
                 /\ InForce(p)' => 2 * run'[p] <= 2 * counter'[p].value + Rounds(N - 1 - y, Limit[p])
                 /\ InForce(p)'
    <3>1. Get(p)' = counter'[p].value
      BY <2>3 DEF Get, InForce
    <3>2. counter'[p].value <= Limit[p] + N - 1 - y
      BY <2>1, <3>1 DEF Measured
    <3> HIDE DEF y, N
    <3>3. 2 * run'[p] <= Rounds(N, Limit[p])
      BY <2>1, <2>3, <3>2, RunBounded
    <3> QED
      BY <2>3, <3>3 DEF y, N
  <2>4. run'[p] = IF InForce(p) THEN run[p] + 1 ELSE 1
    BY <1>1, <1>3 DEF StartWindow, Increment, LetThrough, TypeOK, InForce
  <2>5. InForce(p) => /\ z < N
                      /\ 2 * run[p] <= 2 * counter[p].value + Rounds(N - 1 - z, Limit[p])
    BY DEF RunsGood
  <2>6. CASE StartWindow(w)
    <3>1. counter'[p] = [value |-> 1, expires |-> now + Window[p]] /\ now' = now
      BY <1>3, <2>6 DEF StartWindow, TypeOK
    <3>2. InForce(p)' /\ counter'[p].value = 1
      BY <3>1, RulesAssumption DEF InForce, TypeOK
    <3>3. w \in Setting(p)
      BY <1>1, <1>3, <2>6 DEF Setting, StartWindow
    <3>4. y = z - 1 /\ y < N /\ N - 1 - y \in Nat
      BY <2>1, <2>2, <3>3
    <3>5. Rounds(N - 1 - y, Limit[p]) \in Nat
      BY <2>1, <3>4, RoundsNext
    <3>6. CASE ~InForce(p)
      BY <2>4, <3>2, <3>4, <3>5, <3>6
    <3>7. CASE InForce(p)
      <4> DEFINE m == N - 1 - z
      <4>1. m \in Nat /\ m + 1 = N - 1 - y
        BY <2>1, <2>5, <3>4, <3>7
      <4>2. /\ Rounds(m, Limit[p]) \in Nat
            /\ Rounds(m + 1, Limit[p]) = Rounds(m, Limit[p]) + 2 * Limit[p] + 2 * m
        BY <2>1, <4>1, RoundsNext
      <4>3. counter[p].value <= Limit[p] + m
        <5>1. Get(p) = counter[p].value
          BY <3>7 DEF Get, InForce
        <5> QED
          BY <5>1, RunsTyped DEF Measured
      <4>4. 2 * run[p] <= 2 * counter[p].value + Rounds(m, Limit[p])
        BY <2>5, <3>7
      <4>5. run'[p] = run[p] + 1
        BY <2>4, <3>7
      <4> HIDE DEF m
      <4>6. 2 * run'[p] <= 2 + Rounds(m + 1, Limit[p])
        BY <2>1, <4>1, <4>2, <4>3, <4>4, <4>5
      <4>7. 2 * run'[p] <= 2 + Rounds(N - 1 - y, Limit[p])
        BY <4>1, <4>6
      <4> QED
        BY <3>2, <3>4, <4>7
    <3> QED
      BY <3>6, <3>7
  <2>7. CASE Increment(w)
    <3>1. /\ counter'[p].value = counter[p].value + 1
          /\ counter'[p].expires = counter[p].expires /\ now' = now /\ InForce(p)
      BY <1>1, <1>3, <2>7 DEF Increment, TypeOK, InForce
    <3>2. w \notin Setting(p) /\ y = z
      BY <2>2, <2>7 DEF Setting, Increment
    <3>3. N - 1 - z \in Nat
      BY <2>1, <2>5, <3>1
    <3>4. Rounds(N - 1 - z, Limit[p]) \in Nat
      BY <2>1, <3>3, RoundsNext
    <3>5. InForce(p)'
      BY <3>1 DEF InForce
    <3> HIDE DEF y, z
    <3> QED
      BY <2>1, <2>4, <2>5, <3>1, <3>2, <3>4, <3>5
  <2> QED
    BY <2>6, <2>7
<1> QED
  BY <1>2, <1>3

LEMMA RunsInvariant == Spec => []RunsGood
<1>1. Init => RunsGood
  <2> SUFFICES ASSUME Init, NEW p \in Paths
               PROVE  2 * run[p] <= Rounds(Cardinality(Workers), Limit[p]) /\ ~InForce(p)
    BY DEF RunsGood
  <2>1. run[p] = 0 /\ ~InForce(p)
    BY DEF Init, InForce
  <2>2. Cardinality(Workers) \in Nat /\ Limit[p] \in Nat
    BY WorkersAssumption, FS_CardinalityType, RulesAssumption
  <2>3. Rounds(Cardinality(Workers), Limit[p]) \in Nat
    BY <2>2, RoundsNext
  <2> QED
    BY <2>1, <2>3
<1>2. TypeOK /\ TypeOK' /\ Measured /\ Measured' /\ RunsGood /\ [Next]_vars => RunsGood'
  <2> SUFFICES ASSUME TypeOK, TypeOK', Measured, Measured', RunsGood, [Next]_vars
               PROVE  RunsGood'
    OBVIOUS
  <2> USE DEF limiter
  <2>1. ASSUME Idles PROVE RunsGood'
    BY <2>1, RunsStay DEF Idles, InForce
  <2>2. ASSUME NEW w \in Workers, Views(w) \/ Admin(w) PROVE RunsGood'
    BY <2>1, <2>2, ViewsOutside, Idling
  <2>3. ASSUME NEW w \in Workers, Crash(w) PROVE RunsGood'
    BY <2>1, <2>3, Idling DEF Crash, Respond, Idle
  <2>4. ASSUME NEW w \in Workers, SetBlock(w) \/ IncrementFails(w) PROVE RunsGood'
    BY <2>1, <2>4, Idling DEF SetBlock, IncrementFails, Respond, Idle
  <2>5. ASSUME NEW w \in Workers, NEW p \in Paths, Admit(w, p) \/ TurnAway(w, p)
        PROVE  RunsGood'
    BY <2>1, <2>5, Idling DEF Admit, TurnAway, Begin, Idle
  <2>6. ASSUME NEW w \in Workers, ReadCount(w) PROVE RunsGood'
    <3> DEFINE p == req[w].path
    <3>1. /\ \A v \in Workers \ {w} : req'[v] = req[v]
          /\ req'[w].seen = Get(p) /\ req'[w].path = p
          /\ UNCHANGED <<now, counter, run>>
      BY <2>6 DEF ReadCount, TypeOK
    <3>2. ASSUME NEW q \in Paths, InForce(q)' PROVE InForce(q) /\ Setting(q)' \subseteq Setting(q)
      <4>1. InForce(q)
        BY <3>1, <3>2 DEF InForce
      <4>2. counter[q].value >= 1 /\ Get(q) = counter[q].value /\ counter[q].value \in Nat
        BY <4>1, RunsTyped DEF RunsGood, Get, InForce
      <4>3. w \notin Setting(q)'
        BY <3>1, <4>2 DEF Setting, Going
      <4> QED
        BY <3>1, <4>1, <4>3 DEF Setting, Going, At
    <3> QED
      BY <3>1, <3>2, RunsStay
  <2>7. CASE Tick
    <3>1. \A q \in Paths : (InForce(q)' => InForce(q)) /\ Setting(q)' = Setting(q)
      BY <2>7 DEF Tick, InForce, Setting, Going, At, TypeOK
    <3> QED
      BY <2>7, <3>1, RunsStay DEF Tick
  <2>8. CASE UNCHANGED vars
    BY <2>1, <2>8 DEF vars, Idles, Going, Setting, At
  <2> QED
    BY <2>2, <2>3, <2>4, <2>5, <2>6, <2>7, <2>8, PassageRuns DEF Next, Limiter
<1> QED
  BY <1>1, <1>2, TypeCorrect, MeasuredInvariant, PTL DEF Spec

\* Concurrent requests overrun the limit, and late ones put the counter back to 1;
\* what goes through from the moment the key is set until it is gone is bounded all
\* the same (middleware.py:96-113).
THEOREM OverrunsBounded == Spec => []OverrunBounded
<1>1. RunsGood => OverrunBounded
  <2> SUFFICES ASSUME RunsGood, NEW p \in Paths
               PROVE  2 * run[p] <= 2 * Cardinality(Workers) * Limit[p]
                                      + Cardinality(Workers) * (Cardinality(Workers) - 1)
    BY DEF OverrunBounded
  <2> QED
    BY DEF RunsGood, Rounds
<1> QED
  BY <1>1, RunsInvariant, PTL

(* The block: while it lasts, what went through since it was set and what   *)
(* is still inside are together fewer than the workers.                     *)

BlockGood ==
    \A p \in Paths : Blocked(p) => late[p] + Cardinality(Inside(p)) < Cardinality(Workers)

LEMMA BlockGoodStays ==
    ASSUME TypeOK, BlockGood, NEW p \in Paths, Blocked(p)' => Blocked(p),
           late'[p] = late[p], Inside(p)' \subseteq Inside(p), Blocked(p)'
    PROVE  late'[p] + Cardinality(Inside(p)') < Cardinality(Workers)
<1>1. Inside(p) \in SUBSET Workers /\ Inside(p)' \in SUBSET Workers
  BY DEF Inside
<1>2. Cardinality(Inside(p)') <= Cardinality(Inside(p))
  BY <1>1, FewerWorkers
<1>3. /\ Cardinality(Inside(p)) \in Nat /\ Cardinality(Inside(p)') \in Nat
      /\ Cardinality(Workers) \in Nat /\ late[p] \in Nat
  BY <1>1, Workforce DEF TypeOK
<1> QED
  BY <1>2, <1>3 DEF BlockGood

LEMMA BlockInvariant == Spec => []BlockGood
<1>1. Init => BlockGood
  BY DEF Init, BlockGood, Blocked
<1>2. TypeOK /\ BlockGood /\ [Next]_vars => BlockGood'
  <2> SUFFICES ASSUME TypeOK, BlockGood, [Next]_vars, NEW p \in Paths, Blocked(p)'
               PROVE  late'[p] + Cardinality(Inside(p)') < Cardinality(Workers)
    BY DEF BlockGood
  <2>1. ASSUME NEW w \in Workers, NEW r, req' = [req EXCEPT ![w] = r],
               r.pc \notin {"count", "over", "under"} \/ (r.path = req[w].path /\ At(w, "count")),
               UNCHANGED <<now, block, late>>
        PROVE  late'[p] + Cardinality(Inside(p)') < Cardinality(Workers)
    <3>1. Inside(p)' \subseteq Inside(p)
      BY <2>1 DEF Inside, At, TypeOK
    <3> QED
      BY <2>1, <3>1, BlockGoodStays DEF Blocked
  <2> USE DEF limiter
  <2>2. ASSUME NEW w \in Workers, Views(w) \/ Admin(w)
        PROVE  late'[p] + Cardinality(Inside(p)') < Cardinality(Workers)
    BY <2>1, <2>2, ViewsOutside
  <2>3. ASSUME NEW w \in Workers, Crash(w) \/ IncrementFails(w)
        PROVE  late'[p] + Cardinality(Inside(p)') < Cardinality(Workers)
    BY <2>1, <2>3 DEF Crash, IncrementFails, Respond, Idle
  <2>4. ASSUME NEW w \in Workers, NEW q \in Paths, TurnAway(w, q)
        PROVE  late'[p] + Cardinality(Inside(p)') < Cardinality(Workers)
    BY <2>1, <2>4 DEF TurnAway, Begin, Idle
  <2>5. ASSUME NEW w \in Workers, NEW q \in Paths, Admit(w, q)
        PROVE  late'[p] + Cardinality(Inside(p)') < Cardinality(Workers)
    <3>1. p # q
      BY <2>5 DEF Admit, Blocked
    <3>2. Inside(p)' \subseteq Inside(p)
      BY <2>5, <3>1 DEF Admit, Begin, Inside, TypeOK
    <3> QED
      BY <2>5, <3>2, BlockGoodStays DEF Admit, Blocked
  <2>6. ASSUME NEW w \in Workers, ReadCount(w)
        PROVE  late'[p] + Cardinality(Inside(p)') < Cardinality(Workers)
    <3>1. Inside(p)' \subseteq Inside(p)
      BY <2>6 DEF ReadCount, Inside, At, TypeOK
    <3> QED
      BY <2>6, <3>1, BlockGoodStays DEF ReadCount, Blocked
  <2>7. ASSUME NEW w \in Workers, SetBlock(w)
        PROVE  late'[p] + Cardinality(Inside(p)') < Cardinality(Workers)
    <3>1. req' = [req EXCEPT ![w] = Idle]
      BY <2>7 DEF SetBlock, Respond
    <3>2. Inside(p)' = Inside(p) \ {w}
      BY <3>1 DEF Inside, TypeOK, Idle
    <3>3. CASE p = req[w].path
      <4>1. late'[p] = 0
        BY <2>7, <3>3 DEF SetBlock, TypeOK
      <4>2. Inside(p) \in SUBSET Workers /\ Inside(p)' \in SUBSET Workers /\ w \in Inside(p)
        BY <2>7, <3>3 DEF Inside, SetBlock, At
      <4>3. Cardinality(Inside(p)') = Cardinality(Inside(p)) - 1
        BY <3>2, <4>2, Workforce
      <4> QED
        BY <4>1, <4>2, <4>3, Workforce
    <3>4. CASE p # req[w].path
      <4>1. block'[p] = block[p] /\ late'[p] = late[p] /\ now' = now
        BY <2>7, <3>4 DEF SetBlock, TypeOK
      <4> QED
        BY <3>2, <4>1, BlockGoodStays DEF Blocked
    <3> QED
      BY <3>3, <3>4
  <2>8. ASSUME NEW w \in Workers, StartWindow(w) \/ Increment(w)
        PROVE  late'[p] + Cardinality(Inside(p)') < Cardinality(Workers)
    <3>1. /\ req[w].path \in Paths /\ w \in Inside(req[w].path)
          /\ Inside(p)' = Inside(p) \ {w}
      BY <2>8, GoesThrough DEF StartWindow, Increment
    <3>2. block' = block /\ now' = now /\ late' = [late EXCEPT ![req[w].path] = @ + 1]
      BY <2>8 DEF StartWindow, Increment, LetThrough
    <3>3. CASE p = req[w].path
      <4>1. late'[p] = late[p] + 1 /\ late[p] \in Nat
        BY <3>2, <3>3 DEF TypeOK
      <4>2. Inside(p) \in SUBSET Workers
        BY DEF Inside
      <4>3. /\ Cardinality(Inside(p)') = Cardinality(Inside(p)) - 1
            /\ Cardinality(Inside(p)) \in Nat
        BY <3>1, <3>3, <4>2, Workforce
      <4>4. late[p] + Cardinality(Inside(p)) < Cardinality(Workers)
        BY <3>2 DEF BlockGood, Blocked
      <4> QED
        BY <4>1, <4>2, <4>3, <4>4, Workforce
    <3>4. CASE p # req[w].path
      <4>1. late'[p] = late[p]
        BY <3>2, <3>4 DEF TypeOK
      <4> QED
        BY <3>1, <3>2, <4>1, BlockGoodStays DEF Blocked
    <3> QED
      BY <3>3, <3>4
  <2>9. CASE Tick
    <3>1. Inside(p)' = Inside(p) /\ late' = late
      BY <2>9 DEF Tick, Inside
    <3>2. Blocked(p)' => Blocked(p)
      BY <2>9 DEF Tick, Blocked, TypeOK
    <3> QED
      BY <3>1, <3>2, BlockGoodStays
  <2>10. CASE UNCHANGED vars
    BY <2>10, BlockGoodStays DEF vars, Inside, Blocked
  <2> QED
    BY <2>2, <2>3, <2>4, <2>5, <2>6, <2>7, <2>8, <2>9, <2>10 DEF Next, Limiter
<1> QED
  BY <1>1, <1>2, TypeCorrect, PTL DEF Spec

\* While a client is blocked, fewer requests than there are workers still get through
\* (middleware.py:87-97).
THEOREM BlocksHold == Spec => []BlockHolds
<1>1. TypeOK /\ BlockGood => BlockHolds
  <2> SUFFICES ASSUME TypeOK, BlockGood, NEW p \in Paths, Blocked(p)
               PROVE  late[p] < Cardinality(Workers)
    BY DEF BlockHolds
  <2>1. Inside(p) \in SUBSET Workers
    BY DEF Inside
  <2> QED
    BY <2>1, Workforce DEF BlockGood, TypeOK
<1> QED
  BY <1>1, BlockInvariant, TypeCorrect, PTL

-----------------------------------------------------------------------------
(* Part 5: who is blocked.                                                  *)
(*                                                                          *)
(* A counter never exceeds the requests let through since its window began: *)
(* every write to it lets one through, and no number goes through twice.    *)

Since(S, p, t) == {q \in S : q.path = p /\ q.at >= t}
WindowStart(p) == counter[p].expires - Window[p]

\* A request whose passage is not decided yet.
Undecided(w) == req[w].pc \in {"count", "over", "under"}

Counts ==
    /\ IsFiniteSet(passes)
    /\ \A q \in passes : q.id <= begun
    /\ \A w \in Workers : Undecided(w) => \A q \in passes : q.id # req[w].id
    /\ \A p \in Paths : /\ WindowStart(p) <= now
                        /\ counter[p].value <= Cardinality(Since(passes, p, WindowStart(p)))

LEMMA SinceFinite ==
    ASSUME NEW S, IsFiniteSet(S), NEW p, NEW t
    PROVE  /\ IsFiniteSet(Since(S, p, t))
           /\ Cardinality(Since(S, p, t)) \in Nat
<1>1. Since(S, p, t) \subseteq S
  BY DEF Since
<1> QED
  BY <1>1, FS_Subset, FS_CardinalityType

\* A step that lets nobody through and takes no number twice.
LEMMA CountsStay ==
    ASSUME TypeOK, Counts, UNCHANGED <<counter, passes>>,
           now' \in Nat, now <= now', begun' \in Nat, begun <= begun',
           \A w \in Workers : Undecided(w)' =>
              \/ Undecided(w) /\ req'[w].id = req[w].id
              \/ req'[w].id \in Nat /\ req'[w].id > begun
    PROVE  Counts'
<1>1. \A q \in passes : q.id \in Nat /\ q.id <= begun /\ begun \in Nat
  BY DEF Counts, TypeOK
<1>2. \A q \in passes : q.id <= begun'
  BY <1>1
<1>3. ASSUME NEW w \in Workers, Undecided(w)', NEW q \in passes PROVE q.id # req'[w].id
  BY <1>1, <1>3 DEF Counts
<1>4. \A p \in Paths : WindowStart(p) \in Int /\ now \in Int
  BY RulesAssumption DEF WindowStart, TypeOK
<1>5. \A p \in Paths : WindowStart(p)' = WindowStart(p) /\ WindowStart(p) <= now'
  BY <1>4 DEF Counts, WindowStart
<1> QED
  BY <1>2, <1>3, <1>5 DEF Counts

\* One worker's step that lets nobody through.
LEMMA CountsKept ==
    ASSUME TypeOK, Counts, NEW w \in Workers, NEW r, req' = [req EXCEPT ![w] = r],
           UNCHANGED <<now, counter, passes>>, begun' \in {begun, begun + 1},
           r.pc \in {"count", "over", "under"} =>
              \/ Undecided(w) /\ r.id = req[w].id
              \/ r.id = begun + 1
    PROVE  Counts'
<1>1. begun \in Nat /\ now \in Nat
  BY DEF TypeOK
<1>2. ASSUME NEW v \in Workers, Undecided(v)'
      PROVE  \/ Undecided(v) /\ req'[v].id = req[v].id
             \/ req'[v].id \in Nat /\ req'[v].id > begun
  BY <1>1, <1>2 DEF Undecided, TypeOK
<1> QED
  BY <1>1, <1>2, CountsStay

\* A request let through is counted once.
LEMMA PassageCounted ==
    ASSUME TypeOK, Numbered, Counts, NEW w \in Workers, StartWindow(w) \/ Increment(w)
    PROVE  Counts'
<1> DEFINE me == req[w].path
           pass == [path |-> me, id |-> req[w].id, at |-> now]
<1>1. /\ me \in Paths /\ req[w].id \in Nat /\ Undecided(w) /\ req[w] # Idle
  BY Records DEF StartWindow, Increment, Counted, Undecided, At, Idle
<1>2. /\ passes' = passes \cup {pass}
      /\ req' = [req EXCEPT ![w] = [pc |-> me, id |-> req[w].id]]
      /\ UNCHANGED <<now, begun>>
  BY DEF StartWindow, Increment, LetThrough, TypeOK
<1>3. pass \notin passes /\ req[w].id <= begun
  <2>1. \A q \in passes : q.id # req[w].id
    BY <1>1 DEF Counts
  <2> QED
    BY <1>1, <2>1 DEF Numbered
<1>4. IsFiniteSet(passes')
  BY <1>2, FS_AddElement DEF Counts
<1>5. \A q \in passes' : q.id <= begun'
  BY <1>2, <1>3 DEF Counts
<1>6. ASSUME NEW v \in Workers, Undecided(v)', NEW q \in passes'
      PROVE  q.id # req'[v].id
  <2>1. me \notin {"count", "over", "under"}
    BY <1>1 DEF Paths
  <2>2. v # w /\ req'[v] = req[v] /\ Undecided(v)
    BY <1>2, <1>6, <2>1 DEF Undecided, TypeOK
  <2>3. req[v] # Idle
    BY <2>2 DEF Undecided, Idle
  <2>4. CASE q \in passes
    BY <2>2, <2>4 DEF Counts
  <2>5. CASE q = pass
    BY <1>1, <2>2, <2>3, <2>5 DEF Numbered
  <2> QED
    BY <1>2, <2>4, <2>5
<1>7. ASSUME NEW p \in Paths
      PROVE  /\ WindowStart(p)' <= now'
             /\ counter'[p].value <= Cardinality(Since(passes', p, WindowStart(p)'))
  <2>1. /\ WindowStart(p) \in Int /\ now \in Int /\ WindowStart(p) <= now
        /\ counter[p].value \in Nat /\ Window[p] \in Int
        /\ counter[p].value <= Cardinality(Since(passes, p, WindowStart(p)))
    BY RulesAssumption DEF WindowStart, TypeOK, Counts
  <2>2. CASE p # me
    <3>1. counter'[p] = counter[p]
      BY <2>2 DEF StartWindow, Increment, TypeOK
    <3>2. WindowStart(p)' = WindowStart(p)
      BY <3>1 DEF WindowStart
    <3>3. Since(passes', p, WindowStart(p)) = Since(passes, p, WindowStart(p))
      BY <1>2, <2>2 DEF Since
    <3> QED
      BY <1>2, <2>1, <3>1, <3>2, <3>3
  <2>3. CASE p = me /\ StartWindow(w)
    <3>1. counter'[p] = [value |-> 1, expires |-> now + Window[p]]
      BY <2>3 DEF StartWindow, TypeOK
    <3>2. WindowStart(p)' = now /\ counter'[p].value = 1
      BY <2>1, <3>1 DEF WindowStart
    <3>3. {pass} \subseteq Since(passes', p, now)
      BY <1>2, <2>1, <2>3 DEF Since
    <3>4. Cardinality({pass}) = 1
      BY FS_Singleton
    <3>5. Cardinality({pass}) <= Cardinality(Since(passes', p, now))
      BY <1>4, <3>3, SinceFinite, FS_Subset
    <3> QED
      BY <1>2, <2>1, <3>2, <3>4, <3>5
  <2>4. CASE p = me /\ Increment(w)
    <3>1. /\ counter'[p].value = counter[p].value + 1
          /\ counter'[p].expires = counter[p].expires
      BY <2>4 DEF Increment, TypeOK
    <3>2. WindowStart(p)' = WindowStart(p)
      BY <3>1 DEF WindowStart
    <3>3. /\ Since(passes', p, WindowStart(p)) = Since(passes, p, WindowStart(p)) \cup {pass}
          /\ pass \notin Since(passes, p, WindowStart(p))
      BY <1>2, <1>3, <2>1, <2>4 DEF Since
    <3>4. /\ IsFiniteSet(Since(passes, p, WindowStart(p)))
          /\ Cardinality(Since(passes, p, WindowStart(p))) \in Nat
      BY SinceFinite DEF Counts
    <3>5. Cardinality(Since(passes', p, WindowStart(p)))
            = Cardinality(Since(passes, p, WindowStart(p))) + 1
      BY <3>3, <3>4, FS_AddElement
    <3> QED
      BY <1>2, <2>1, <3>1, <3>2, <3>4, <3>5
  <2> QED
    BY <2>2, <2>3, <2>4
<1> QED
  BY <1>4, <1>5, <1>6, <1>7 DEF Counts

LEMMA CountsInvariant == Spec => []Counts
<1>1. Init => Counts
  <2> SUFFICES ASSUME Init PROVE Counts
    OBVIOUS
  <2>1. passes = {} /\ IsFiniteSet({})
    BY FS_EmptySet DEF Init
  <2>2. \A p \in Paths : WindowStart(p) <= now /\ counter[p].value = 0
    BY RulesAssumption DEF Init, WindowStart
  <2>3. \A p \in Paths : Cardinality(Since(passes, p, WindowStart(p))) \in Nat
    BY <2>1, SinceFinite
  <2> QED
    BY <2>1, <2>2, <2>3 DEF Counts
<1>2. TypeOK /\ Numbered /\ Counts /\ [Next]_vars => Counts'
  <2> SUFFICES ASSUME TypeOK, Numbered, Counts, [Next]_vars PROVE Counts'
    OBVIOUS
  <2> USE DEF limiter
  <2>1. ASSUME NEW w \in Workers, Views(w) \/ Admin(w) PROVE Counts'
    <3>1. begun' \in {begun, begun + 1}
      BY <2>1, ViewsMove, AdminMoves DEF Begins, GoesOn
    <3>2. PICK r : /\ req' = [req EXCEPT ![w] = r]
                   /\ r.pc \notin {"count", "over", "under"}
      BY <2>1, ViewsOutside
    <3>3. UNCHANGED <<now, counter, passes>>
      BY <2>1, ViewsOutside
    <3> QED
      BY <3>1, <3>2, <3>3, CountsKept
  <2>2. ASSUME NEW w \in Workers, Crash(w) \/ SetBlock(w) \/ IncrementFails(w)
        PROVE  Counts'
    <3>1. req' = [req EXCEPT ![w] = Idle] /\ Idle.pc = "idle"
      BY <2>2 DEF Crash, SetBlock, IncrementFails, Respond, Idle
    <3>2. UNCHANGED <<now, counter, passes, begun>>
      BY <2>2 DEF Crash, SetBlock, IncrementFails
    <3> QED
      BY <3>1, <3>2, CountsKept
  <2>3. ASSUME NEW w \in Workers, NEW p \in Paths, Admit(w, p) \/ TurnAway(w, p)
        PROVE  Counts'
    BY <2>3, CountsKept DEF Admit, TurnAway, Begin, Idle
  <2>4. ASSUME NEW w \in Workers, ReadCount(w) PROVE Counts'
    <3> DEFINE p == req[w].path
               r == [pc |-> IF OverLimit(p, Get(p)) THEN "over" ELSE "under",
                     path |-> p, id |-> req[w].id, seen |-> Get(p), readAt |-> now]
    <3>1. req' = [req EXCEPT ![w] = r] /\ UNCHANGED <<now, counter, passes, begun>>
      BY <2>4 DEF ReadCount, TypeOK
    <3>2. Undecided(w) /\ r.id = req[w].id
      BY <2>4 DEF ReadCount, At, Undecided
    <3> QED
      BY <3>1, <3>2, CountsKept
  <2>5. CASE Tick
    <3>1. now' \in Nat /\ now <= now' /\ UNCHANGED <<counter, passes, req, begun>>
      BY <2>5 DEF Tick, TypeOK
    <3>2. begun \in Nat /\ \A w \in Workers : Undecided(w)' => Undecided(w)
      BY <3>1 DEF Undecided, TypeOK
    <3> QED
      BY <3>1, <3>2, CountsStay
  <2>6. CASE UNCHANGED vars
    BY <2>6 DEF vars, Counts, Undecided, WindowStart
  <2> QED
    BY <2>1, <2>2, <2>3, <2>4, <2>5, <2>6, PassageCounted DEF Next, Limiter
<1> QED
  BY <1>1, <1>2, TypeCorrect, NumberedInvariant, PTL DEF Spec

\* What BlockJustified says of one worker's record.
After(S, p, t) == {q \in S : q.path = p /\ q.at > t}
Justified(r, S) == r.pc = "over" =>
                      Cardinality(After(S, r.path, r.readAt - Window[r.path])) >= Limit[r.path]

LEMMA JustifiedMeaning == /\ BlockJustified <=> \A w \in Workers : Justified(req[w], passes)
                          /\ BlockJustified' <=> \A w \in Workers : Justified(req'[w], passes')
BY DEF BlockJustified, Justified, PassesAfter, After, At

\* Passes only come in: what justified a record justifies it later.
LEMMA JustifiedStays ==
    ASSUME NEW r \in Record, NEW S, NEW T, S \subseteq T, IsFiniteSet(T), Justified(r, S)
    PROVE  Justified(r, T)
<1> SUFFICES ASSUME r.pc = "over" PROVE Justified(r, T)
  BY DEF Justified
<1> DEFINE t == r.readAt - Window[r.path]
<1>1. r.path \in Paths
  BY DEF Record, Idle, Limiting, Counted, Passed, InView, Holding, Paths
<1>2. /\ After(S, r.path, t) \subseteq After(T, r.path, t)
      /\ After(T, r.path, t) \subseteq T
  BY DEF After
<1>3. IsFiniteSet(After(T, r.path, t)) /\ IsFiniteSet(After(S, r.path, t))
  BY <1>2, FS_Subset
<1>4. /\ Cardinality(After(S, r.path, t)) <= Cardinality(After(T, r.path, t))
      /\ Cardinality(After(S, r.path, t)) \in Nat
      /\ Cardinality(After(T, r.path, t)) \in Nat
      /\ Limit[r.path] \in Nat
  BY <1>1, <1>2, <1>3, FS_Subset, FS_CardinalityType, RulesAssumption
<1> QED
  BY <1>4 DEF Justified

\* A worker that finds the counter at the limit.
LEMMA ReadCountJustified ==
    ASSUME TypeOK, Counts, NEW w \in Workers, ReadCount(w)
    PROVE  Justified(req'[w], passes)
<1> DEFINE p == req[w].path
           t == now - Window[p]
<1>1. p \in Paths /\ Limit[p] \in Nat \ {0} /\ Window[p] \in Int /\ now \in Int
  BY Records, RulesAssumption DEF ReadCount, Limiting, TypeOK
<1>2. /\ req'[w].pc = IF OverLimit(p, Get(p)) THEN "over" ELSE "under"
      /\ req'[w].path = p /\ req'[w].readAt = now
  BY DEF ReadCount, TypeOK
<1> SUFFICES ASSUME OverLimit(p, Get(p))
             PROVE  Cardinality(After(passes, p, t)) >= Limit[p]
  BY <1>2 DEF Justified
<1>3. /\ now < counter[p].expires /\ Get(p) = counter[p].value
      /\ counter[p].value \in Nat /\ counter[p].expires \in Int
  BY <1>1 DEF OverLimit, Get, TypeOK
<1>4. /\ Since(passes, p, WindowStart(p)) \subseteq After(passes, p, t)
      /\ After(passes, p, t) \subseteq passes
  BY <1>1, <1>3 DEF Since, After, WindowStart, TypeOK
<1>5. IsFiniteSet(After(passes, p, t)) /\ IsFiniteSet(Since(passes, p, WindowStart(p)))
  BY <1>4, FS_Subset DEF Counts
<1>6. /\ Cardinality(Since(passes, p, WindowStart(p))) <= Cardinality(After(passes, p, t))
      /\ Cardinality(Since(passes, p, WindowStart(p))) \in Nat
      /\ Cardinality(After(passes, p, t)) \in Nat
  BY <1>4, <1>5, FS_Subset, FS_CardinalityType
<1>7. counter[p].value <= Cardinality(Since(passes, p, WindowStart(p)))
  BY <1>1 DEF Counts
<1> QED
  BY <1>1, <1>3, <1>6, <1>7 DEF OverLimit

LEMMA JustifiedStep ==
    ASSUME TypeOK, Counts, Counts', BlockJustified, [Next]_vars
    PROVE  BlockJustified'
<1> USE DEF limiter
<1>1. passes \subseteq passes'
  <2>1. ASSUME NEW w \in Workers, Limiter(w) PROVE passes \subseteq passes'
    BY <2>1 DEF Limiter, Admit, TurnAway, ReadCount, SetBlock, StartWindow, Increment,
                IncrementFails, LetThrough
  <2>2. ASSUME NEW w \in Workers, Crash(w) PROVE passes \subseteq passes'
    BY <2>2 DEF Crash
  <2>3. CASE Tick \/ UNCHANGED vars
    BY <2>3 DEF Tick, vars
  <2> QED
    BY <2>1, <2>2, <2>3, ViewsOutside DEF Next
<1>2. IsFiniteSet(passes')
  BY DEF Counts
<1>3. \A v \in Workers : Justified(req[v], passes')
  BY <1>1, <1>2, JustifiedMeaning, JustifiedStays DEF TypeOK, Record
<1>4. ASSUME NEW w \in Workers, NEW r, req' = [req EXCEPT ![w] = r], r.pc # "over"
      PROVE  BlockJustified'
  <2>1. \A v \in Workers : req'[v] = IF v = w THEN r ELSE req[v]
    BY <1>4 DEF TypeOK
  <2>2. Justified(r, passes')
    BY <1>4 DEF Justified
  <2> QED
    BY <1>3, <2>1, <2>2, JustifiedMeaning
<1>5. ASSUME NEW w \in Workers, Views(w) \/ Admin(w) PROVE BlockJustified'
  BY <1>4, <1>5, ViewsOutside
<1>6. ASSUME NEW w \in Workers, Crash(w) \/ SetBlock(w) \/ IncrementFails(w)
      PROVE  BlockJustified'
  <2>1. req' = [req EXCEPT ![w] = Idle] /\ Idle.pc # "over"
    BY <1>6 DEF Crash, SetBlock, IncrementFails, Respond, Idle
  <2> QED
    BY <1>4, <2>1
<1>7. ASSUME NEW w \in Workers, NEW p \in Paths, Admit(w, p) \/ TurnAway(w, p)
      PROVE  BlockJustified'
  BY <1>4, <1>7 DEF Admit, TurnAway, Begin, Idle
<1>8. ASSUME NEW w \in Workers, ReadCount(w) PROVE BlockJustified'
  <2>1. Justified(req'[w], passes) /\ passes' = passes
    BY <1>8, ReadCountJustified DEF ReadCount
  <2>2. \A v \in Workers \ {w} : req'[v] = req[v]
    BY <1>8 DEF ReadCount, TypeOK
  <2> QED
    BY <1>3, <2>1, <2>2, JustifiedMeaning
<1>9. ASSUME NEW w \in Workers, StartWindow(w) \/ Increment(w) PROVE BlockJustified'
  <2>1. req[w].path \in Paths
    BY <1>9, GoesThrough DEF StartWindow, Increment
  <2> DEFINE r == [pc |-> req[w].path, id |-> req[w].id]
  <2>2. req' = [req EXCEPT ![w] = r] /\ r.pc # "over"
    BY <1>9, <2>1 DEF StartWindow, Increment, LetThrough, TypeOK, Paths
  <2> HIDE DEF r
  <2> QED
    BY <1>4, <2>2
<1>10. CASE Tick \/ UNCHANGED vars
  <2>1. req' = req
    BY <1>10 DEF Tick, vars
  <2> QED
    BY <1>3, <2>1, JustifiedMeaning
<1> QED
  BY <1>5, <1>6, <1>7, <1>8, <1>9, <1>10 DEF Next, Limiter

\* A client is turned away only after Limit requests of its own went through in the
\* Window before (middleware.py:95-113).
THEOREM BlocksAreJustified == Spec => []BlockJustified
<1>1. Init => BlockJustified
  BY DEF Init, BlockJustified, At, Idle
<1> QED
  BY <1>1, JustifiedStep, TypeCorrect, CountsInvariant, PTL DEF Spec

=============================================================================
