------------------------------ MODULE LoginGuards ------------------------------
(***************************************************************************)
(* The way of a request to the token and the registration view of one      *)
(* client address: RateLimitMiddleware (hotel_agent/core/middleware.py),   *)
(* then CustomTokenObtainPairView or RegisterView (api/views/main.py), and *)
(* next to them the user pages of the admin, which set the lock, change    *)
(* the address, and add and delete accounts.                               *)
(*                                                                         *)
(* The middleware makes three cache calls, each a round trip to Redis, so  *)
(* workers interleave between them and time passes.  Users are not in the  *)
(* router's READ_MODELS: their reads go to the primary.                    *)
(***************************************************************************)
EXTENDS Integers, FiniteSets

CONSTANTS
    Workers,        \* gunicorn sync workers
    Limit,          \* RULES[path]["limit"]
    Window,         \* RULES[path]["window"], in ticks
    BlockDuration,  \* BLOCK_DURATION, in ticks
    LockTime,       \* how far ahead an admin sets locked_until, in ticks
    Emails,
    MaxRequests,    \* bound: requests begun in a behaviour
    MaxTime         \* bound: ticks of the clock

Paths == {"token", "register"}

ASSUME WorkersAssumption == IsFiniteSet(Workers)
ASSUME EmailsAssumption == IsFiniteSet(Emails)
ASSUME RulesAssumption == /\ Limit \in [Paths -> Nat \ {0}]
                          /\ Window \in [Paths -> Nat \ {0}]
                          /\ BlockDuration \in Nat \ {0}
ASSUME BoundsAssumption == /\ MaxRequests \in Nat
                           /\ MaxTime \in Nat
                           /\ LockTime \in Nat

VARIABLES
    now,        \* the clock of Redis and of the workers
    counter,    \* the client's counter of a path: value and expiry
    block,      \* when the client's block key of a path expires
    users,      \* the core_users row of each e-mail address
    audit,      \* user.registered audit rows, by the request that wrote them
    req,        \* what each worker is doing
    begun,      \* requests begun so far; numbers them
    passes,     \* history: requests let through, [path, id, at]
    late,       \* history: requests let through since the block key was last set
    run,        \* history: requests let through since a key that was not there was set
    ordered,    \* history: the locked_until an admin saved last
    answered,   \* history: registrations answered with 201, [id, email]
    administered \* history: accounts an admin moved to another address or deleted

limiter == <<counter, block, passes, late, run>>
accounts == <<users, audit, ordered, answered, administered>>
vars == <<now, limiter, accounts, req, begun>>

-----------------------------------------------------------------------------
\* The columns that matter: the primary key, which is the number of the request
\* that inserted the row (0: there is none, negative: it was there at first),
\* locked_until (0: null) and the request last_login_ip comes from.
Account == [owner : Int, lockedUntil : Nat, lastLogin : Nat]
NoAccount == [owner |-> 0, lockedUntil |-> 0, lastLogin |-> 0]
Owned(id) == [NoAccount EXCEPT !.owner = id]
Registered(e) == users[e].owner # 0

\* The rows as they are without the account with this primary key.
Without(id) == [e \in Emails |-> IF users[e].owner = id THEN NoAccount ELSE users[e]]

\* User.is_locked
IsLocked(user) == user.lockedUntil > now

(* Redis. *)

\* Faulty variant: a sentinel of -1 for a key that is missing or has expired.
GetOrSentinel(p) == IF now < counter[p].expires THEN counter[p].value ELSE -1

\* Faulty variant: cache.set(key, 1) without the window, so the key never expires.
GetForever(p) == counter[p].value

\* cache.get(key, 0): an expired key is gone.
Get(p) == IF now < counter[p].expires THEN counter[p].value ELSE 0

\* cache.get(block_key)
Blocked(p) == now < block[p]

-----------------------------------------------------------------------------
Idle == [pc |-> "idle"]
Limiting == [pc : {"count"}, path : Paths, id : Nat]
Counted == [pc : {"over", "under"}, path : Paths, id : Nat, seen : Nat, readAt : Nat]
Passed == [pc : Paths, id : Nat]
InView == [pc : {"authenticate", "reread", "insert", "audit"}, id : Nat, email : Emails]
Holding == [pc : {"save_ip", "admin"}, id : Nat, row : Account]

At(w, pc) == req[w].pc = pc
Respond(w) == req' = [req EXCEPT ![w] = Idle]
Begin(w, r) == /\ req[w] = Idle
               /\ begun < MaxRequests
               /\ begun' = begun + 1
               /\ req' = [req EXCEPT ![w] = r]
Continue(w, pc, e) == req' = [req EXCEPT ![w] = [pc |-> pc, id |-> req[w].id, email |-> e]]

(* RateLimitMiddleware.process_request *)

\* Faulty variant: the block key is written and never looked at.
AdmitBlocked(w, p) ==
    /\ Begin(w, [pc |-> "count", path |-> p, id |-> begun + 1])
    /\ UNCHANGED <<now, limiter, accounts>>

Admit(w, p) ==
    /\ ~Blocked(p)
    /\ Begin(w, [pc |-> "count", path |-> p, id |-> begun + 1])
    /\ UNCHANGED <<now, limiter, accounts>>

\* 429: nothing is counted, the block is not extended.
TurnAway(w, p) ==
    /\ Blocked(p)
    /\ Begin(w, Idle)
    /\ UNCHANGED <<now, limiter, accounts>>

\* Faulty variant: one request too many.
OverLimitByOne(p, seen) == seen > Limit[p]
OverLimit(p, seen) == seen >= Limit[p]

ReadCount(w) ==
    LET p == req[w].path IN
    /\ At(w, "count")
    /\ req' = [req EXCEPT ![w] =
                 [pc |-> IF OverLimit(p, Get(p)) THEN "over" ELSE "under",
                  path |-> p, id |-> @.id, seen |-> Get(p), readAt |-> now]]
    /\ UNCHANGED <<now, limiter, accounts, begun>>

SetBlock(w) ==
    LET p == req[w].path IN
    /\ At(w, "over")
    /\ block' = [block EXCEPT ![p] = now + BlockDuration]
    /\ late' = [late EXCEPT ![p] = 0]
    /\ Respond(w)
    /\ UNCHANGED <<now, counter, passes, run, accounts, begun>>

\* process_request returns None: the view is next.
LetThrough(w) ==
    LET p == req[w].path IN
    /\ passes' = passes \cup {[path |-> p, id |-> req[w].id, at |-> now]}
    /\ late' = [late EXCEPT ![p] = @ + 1]
    /\ run' = [run EXCEPT ![p] = IF now < counter[p].expires THEN @ + 1 ELSE 1]
    /\ req' = [req EXCEPT ![w] = [pc |-> p, id |-> @.id]]

\* The first request of a window sets the counter and its expiry, and so does any
\* other that read the key before that...
StartWindow(w) ==
    LET p == req[w].path IN
    /\ At(w, "under")
    /\ req[w].seen = 0
    /\ counter' = [counter EXCEPT ![p] = [value |-> 1, expires |-> now + Window[p]]]
    /\ LetThrough(w)
    /\ UNCHANGED <<now, block, accounts, begun>>

\* ...and the others increment it, which leaves the expiry alone.
Increment(w) ==
    LET p == req[w].path IN
    /\ At(w, "under")
    /\ req[w].seen # 0
    /\ now < counter[p].expires
    /\ counter' = [counter EXCEPT ![p].value = @ + 1]
    /\ LetThrough(w)
    /\ UNCHANGED <<now, block, accounts, begun>>

\* incr on a key that expired since it was read raises ValueError: 500.
IncrementFails(w) ==
    /\ At(w, "under")
    /\ req[w].seen # 0
    /\ now >= counter[req[w].path].expires
    /\ Respond(w)
    /\ UNCHANGED <<now, limiter, accounts, begun>>

-----------------------------------------------------------------------------
(* CustomTokenObtainPairView.post.  SimpleJWT's post answers 200 or raises,  *)
(* which ends post: the branch that records a failed login is never reached, *)
(* failed_login_attempts stays 0 and reset_failed_login saves nothing.       *)
LoginCheck(w, e) ==
    /\ At(w, "token")
    /\ IF Registered(e) /\ IsLocked(users[e]) THEN Respond(w)      \* 423
       ELSE Continue(w, "authenticate", e)
    /\ UNCHANGED <<now, limiter, accounts, begun>>

\* Wrong password, unknown address, missing field: 401 or 400.
LoginFails(w) ==
    /\ At(w, "authenticate")
    /\ Respond(w)
    /\ UNCHANGED <<now, limiter, accounts, begun>>

LoginSucceeds(w) ==
    /\ At(w, "authenticate")
    /\ Registered(req[w].email)
    /\ Continue(w, "reread", req[w].email)
    /\ UNCHANGED <<now, limiter, accounts, begun>>

RereadUser(w) ==
    LET e == req[w].email IN
    /\ At(w, "reread")
    /\ IF Registered(e)
       THEN req' = [req EXCEPT ![w] = [pc |-> "save_ip", id |-> @.id, row |-> users[e]]]
       ELSE Respond(w)                                             \* still 200
    /\ UNCHANGED <<now, limiter, accounts, begun>>

\* Faulty variant: save() without update_fields.
SavedUserWhole(user, snapshot, id) == [snapshot EXCEPT !.lastLogin = id]

\* save(update_fields=["last_login_ip"]): an UPDATE of the row with its primary key,
\* which raises when there is none any more.
SavedUser(user, snapshot, id) == [user EXCEPT !.lastLogin = id]

SaveIp(w) ==
    /\ At(w, "save_ip")
    /\ users' = [e \in Emails |-> IF users[e].owner = req[w].row.owner
                                  THEN SavedUser(users[e], req[w].row, req[w].id)
                                  ELSE users[e]]
    /\ Respond(w)
    /\ UNCHANGED <<now, limiter, audit, ordered, answered, administered, begun>>

(* RegisterView: UserSerializer checks that the address is free, create()   *)
(* inserts the row, perform_create then writes the audit row.  No           *)
(* transaction spans the three.                                             *)
RegisterCheck(w, e) ==
    /\ At(w, "register")
    /\ IF Registered(e) THEN Respond(w)                            \* 400
       ELSE Continue(w, "insert", e)
    /\ UNCHANGED <<now, limiter, accounts, begun>>

\* Faulty variant: update_or_create(email=...).
RegisterUpsert(w) ==
    LET e == req[w].email IN
    /\ At(w, "insert")
    /\ users' = [users EXCEPT ![e].owner = req[w].id]
    /\ Continue(w, "audit", e)
    /\ UNCHANGED <<now, limiter, audit, ordered, answered, administered, begun>>

\* email is unique: the second INSERT raises IntegrityError, 500.
RegisterInsert(w) ==
    LET e == req[w].email IN
    /\ At(w, "insert")
    /\ IF Registered(e) THEN Respond(w) /\ UNCHANGED users
       ELSE /\ users' = [users EXCEPT ![e] = Owned(req[w].id)]
            /\ Continue(w, "audit", e)
    /\ UNCHANGED <<now, limiter, audit, ordered, answered, administered, begun>>

\* AuditLog.user is a foreign key: without the account, IntegrityError and 500.
RegisterAudit(w) ==
    /\ At(w, "audit")
    /\ IF \E e \in Emails : users[e].owner = req[w].id
       THEN /\ audit' = audit \cup {req[w].id}
            /\ answered' = answered \cup {[id |-> req[w].id, email |-> req[w].email]}
       ELSE UNCHANGED <<audit, answered>>
    /\ Respond(w)
    /\ UNCHANGED <<now, limiter, users, ordered, administered, begun>>

(* UserAdmin: not rate-limited.  The add page checks and inserts in one      *)
(* transaction, and writes no audit row.                                    *)
AdminAdd(w, e) ==
    /\ ~Registered(e)
    /\ Begin(w, Idle)
    /\ users' = [users EXCEPT ![e] = Owned(begun + 1)]
    /\ UNCHANGED <<now, limiter, audit, ordered, answered, administered>>

\* The change and the delete page read the row first.
AdminRead(w, e) ==
    /\ Registered(e)
    /\ Begin(w, [pc |-> "admin", id |-> begun + 1, row |-> users[e]])
    /\ UNCHANGED <<now, limiter, accounts>>

\* The change page saves every column; failed_login_attempts and last_login_ip are
\* read-only, email and locked_until are not.  A row that was deleted meanwhile is
\* inserted again.
AdminSave(w) ==
    LET row == req[w].row IN
    /\ At(w, "admin")
    /\ \E e \in Emails, until \in {0, now + LockTime} :
          /\ users[e].owner \in {0, row.owner}
          /\ users' = [Without(row.owner) EXCEPT ![e] = [row EXCEPT !.lockedUntil = until]]
          /\ ordered' = [f \in Emails |-> IF f = e THEN until
                                         ELSE IF users[f].owner = row.owner THEN 0
                                         ELSE ordered[f]]
          /\ administered' = IF users[e].owner = row.owner THEN administered
                             ELSE administered \cup {row.owner}
    /\ Respond(w)
    /\ UNCHANGED <<now, limiter, audit, answered, begun>>

\* Another account has the address the admin typed in.
AdminRefused(w) ==
    /\ At(w, "admin")
    /\ \E e \in Emails : users[e].owner \notin {0, req[w].row.owner}
    /\ Respond(w)
    /\ UNCHANGED <<now, limiter, accounts, begun>>

\* PROTECT keeps accounts with bookings, requests or sessions; an audit row stays,
\* its user set to null.
AdminDelete(w) ==
    LET id == req[w].row.owner IN
    /\ At(w, "admin")
    /\ users' = Without(id)
    /\ ordered' = [e \in Emails |-> IF users[e].owner = id THEN 0 ELSE ordered[e]]
    /\ administered' = administered \cup {id}
    /\ Respond(w)
    /\ UNCHANGED <<now, limiter, audit, answered, begun>>

-----------------------------------------------------------------------------
Tick == /\ now < MaxTime
        /\ now' = now + 1
        /\ UNCHANGED <<limiter, accounts, req, begun>>

\* A worker is killed and replaced; what it wrote stays.
Crash(w) == /\ req[w] # Idle
            /\ Respond(w)
            /\ UNCHANGED <<now, limiter, accounts, begun>>

\* Some addresses belong to accounts that are already there.
Init ==
    /\ now = 0
    /\ counter = [p \in Paths |-> [value |-> 0, expires |-> 0]]
    /\ block = [p \in Paths |-> 0]
    /\ \E id \in [Emails -> (-Cardinality(Emails))..0] :
          /\ \A e, f \in Emails : id[e] = id[f] => e = f \/ id[e] = 0
          /\ users = [e \in Emails |-> Owned(id[e])]
    /\ audit = {} /\ answered = {} /\ administered = {}
    /\ req = [w \in Workers |-> Idle]
    /\ begun = 0
    /\ passes = {}
    /\ late = [p \in Paths |-> 0]
    /\ run = [p \in Paths |-> 0]
    /\ ordered = [e \in Emails |-> 0]

Limiter(w) == \/ \E p \in Paths : Admit(w, p) \/ TurnAway(w, p)
              \/ ReadCount(w) \/ SetBlock(w)
              \/ StartWindow(w) \/ Increment(w) \/ IncrementFails(w)

Views(w) == \/ \E e \in Emails : LoginCheck(w, e) \/ RegisterCheck(w, e)
            \/ LoginFails(w) \/ LoginSucceeds(w) \/ RereadUser(w) \/ SaveIp(w)
            \/ RegisterInsert(w) \/ RegisterAudit(w)

Admin(w) == \/ \E e \in Emails : AdminAdd(w, e) \/ AdminRead(w, e)
            \/ AdminSave(w) \/ AdminRefused(w) \/ AdminDelete(w)

Next == \/ \E w \in Workers : Limiter(w) \/ Views(w) \/ Admin(w) \/ Crash(w)
        \/ Tick

Spec == Init /\ [][Next]_vars

-----------------------------------------------------------------------------
(* Properties *)

TypeOK ==
    /\ now \in Nat
    /\ counter \in [Paths -> [value : Nat, expires : Nat]]
    /\ block \in [Paths -> Nat]
    /\ users \in [Emails -> Account]
    /\ audit \subseteq Nat
    /\ req \in [Workers -> {Idle} \cup Limiting \cup Counted \cup Passed
                                  \cup InView \cup Holding]
    /\ begun \in Nat
    /\ passes \subseteq [path : Paths, id : Nat, at : Nat]
    /\ late \in [Paths -> Nat]
    /\ run \in [Paths -> Nat]
    /\ ordered \in [Emails -> Nat]
    /\ answered \subseteq [id : Nat, email : Emails]
    /\ administered \subseteq Int

PassesAfter(p, t) == {q \in passes : q.path = p /\ q.at > t}

\* Nobody is blocked without cause: when a request is found to be over the limit,
\* at least Limit requests went through in the Window before the count was read,
\* however the three cache calls of concurrent requests interleave
\* (middleware.py:95-113).
BlockJustified ==
    \A w \in Workers : At(w, "over") =>
        LET p == req[w].path IN
        Cardinality(PassesAfter(p, req[w].readAt - Window[p])) >= Limit[p]

\* The limit is not exact: requests that read the same count all pass, and one that
\* read no count, and is late, puts the counter back to 1 and starts the window anew.
\* Still, N workers let at most N * Limit + N * (N - 1) / 2 requests through from the
\* moment the key is set until it is gone (middleware.py:96-113).
OverrunBounded ==
    LET N == Cardinality(Workers) IN
    \A p \in Paths : 2 * run[p] <= 2 * N * Limit[p] + N * (N - 1)

\* A block holds: while the block key lives, only requests that had looked at it
\* before are still let through, fewer than there are workers, even when the
\* counter expires during the block (middleware.py:87-97).
BlockHolds ==
    \A p \in Paths : Blocked(p) => late[p] < Cardinality(Workers)

\* The lock of an account is what the admin saved last: a login that was under
\* way, and saves the row it read before, does not undo it, wherever the account
\* has moved in between (views/main.py:69-72).
AdminLockKept == \A e \in Emails : users[e].lockedUntil = ordered[e]

\* An audit row names an account that is there, and a registration answered with
\* 201 is audited and owns its address, whatever crashed or raced, until an admin
\* moves or deletes that very account (views/main.py:91-99, serializers.py:35-40).
RegistrationRecorded ==
    /\ \A id \in audit : id \in administered \/ \E e \in Emails : users[e].owner = id
    /\ \A a \in answered : /\ a.id \in audit
                           /\ a.id \in administered \/ users[a.email].owner = a.id
=============================================================================
