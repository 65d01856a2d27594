------------------------------- MODULE Auth -------------------------------
(***************************************************************************)
(* Accounts: registration, sign-in with Google, login and its block after  *)
(* five wrong passwords, token refresh, and what a user changes of the own *)
(* account.                                                                *)
(*                                                                         *)
(* register and googleSignIn hold one connection of the pool and insert    *)
(* the rows of an account in a transaction; every other statement takes a  *)
(* connection for itself and commits at once, also those that googleSignIn *)
(* sends after its COMMIT while it still holds its own.  Two rules of the  *)
(* schema, UNIQUE (email) and UNIQUE (cpf), also count deleted accounts.   *)
(***************************************************************************)
EXTENDS Handlers

CONSTANTS
    Old,        \* the account there is to begin with
    Emails,     \* addresses as they are typed: a mailbox, and how it is spelled
    OldEmails,  \* those the account Old may have been registered with
    Attempts,   \* wrong passwords that the account Old begins with
    Cpfs,       \* what an account may have as its CPF
    NoCpf,      \* the empty string, stored when none is given
    PoolSize    \* connections of the pool

ASSUME AuthAssumption ==
    /\ Old \notin Requests \cup {Nobody}
    /\ NoCpf \in Cpfs
    /\ PoolSize \in Nat \ {0}
    /\ Attempts \subseteq 0 .. 4
    /\ OldEmails \subseteq Emails
    /\ \A e \in Emails : e \in [box : {e.box}, spelling : {"plain", "mixed"}]

Ids == Requests \cup {Old}
MaxAttempts == 5

(* The tables of an account, in the order of the inserts; "user_..." is    *)
(* user_profiles, user_security, user_roles, user_preferences, user_levels.*)
Tables == <<"users", "user_...", "subscriptions", "nucleos">>
TableNames == {Tables[i] : i \in DOMAIN Tables}

VARIABLES
    users,      \* the committed rows of an account, by id
    freePlans,  \* plans with price 0
    free,       \* connections in the pool
    reactivated \* history: accounts that were deleted and reactivated

tables == <<users, freePlans, free, reactivated>>
vars == <<handlers, tables>>

NoAccount == [email |-> Nobody, cpf |-> NoCpf, google |-> FALSE, active |-> FALSE,
              deleted |-> FALSE, failed |-> 0, profile |-> Nobody, preferences |-> Nobody,
              plan |-> FALSE, rows |-> {}]

Account(email, cpf, google) ==
    [NoAccount EXCEPT !.email = email, !.cpf = cpf, !.google = google, !.active = TRUE]

Exists(u) == "users" \in users[u].rows
Live == {u \in Ids : Exists(u) /\ ~ users[u].deleted}

(* WHERE email = $1 AND deleted_at IS NULL                                 *)
WithEmail(e) == {u \in Live : users[u].email = e}

(* Mutant: the address is taken as it was typed.                           *)
AsTyped(e) == e

(* trim().toLowerCase()                                                    *)
normalizeEmail(e) == [e EXCEPT !.spelling = "plain"]

-----------------------------------------------------------------------------
Init ==
    /\ HandlersInit
    /\ \E email \in OldEmails, cpf \in Cpfs, n \in Attempts, google \in BOOLEAN :
          /\ google => cpf = NoCpf
          /\ users = [u \in Ids |-> IF u # Old THEN NoAccount ELSE
                      [Account(normalizeEmail(email), cpf, google)
                          EXCEPT !.plan = TRUE, !.rows = TableNames, !.failed = n]]
    /\ freePlans \in 0 .. 1
    /\ free = PoolSize
    /\ reactivated = {}

(* The handlers that hold a connection of their own.                       *)
Holding == {r \in InFlight : call[r].op \in {"register", "google"} /\ ~ At(r, "connect")}

(* A statement sent to the pool takes a connection for itself.             *)
FromPool(r, label) == At(r, label) /\ free > 0

(* finally { client.release() }                                            *)
ReplyAndRelease(r, status) == Reply(r, status) /\ free' = free + 1

OnlyReads == UNCHANGED tables

-----------------------------------------------------------------------------
(* Arrivals: validate, authMiddleware and the route *)

Register(r) ==
    \/ \E email \in Emails, cpf \in Cpfs :
          Arrive(r, "connect", "register", r, [email |-> normalizeEmail(email), cpf |-> cpf])
    \/ Refuse(r, "register", 400)

(* A password the client knows is of no use for an account of Google's.    *)
Login(r) ==
    \/ \E email \in Emails, right \in BOOLEAN :
          Arrive(r, "findUser", "login", Nobody,
                 [email |-> normalizeEmail(email), right |-> right])
    \/ Refuse(r, "login", 400)

(* verifyIdToken has found the token good, and gives the user's address.   *)
GoogleSignIn(r) ==
    \/ \E email \in Emails :
          Arrive(r, "connect", "google", r, [email |-> normalizeEmail(email), cpf |-> NoCpf])
    \/ Refuse(r, "google", 401)

(* Requests with the token of an account, which may be deleted or blocked. *)
WithToken(r) ==
    \/ \E u \in Ids, op \in {"refreshToken", "me", "deleteAccount", "reactivateAccount",
                             "updateProfile", "updatePreferences"} :
          Exists(u) /\ Arrive(r, op, op, u, Nobody)
    \/ Unauthenticated(r)

-----------------------------------------------------------------------------
(* register, and googleSignIn of an unknown address *)

(* pool.connect()                                                          *)
Connect(r) ==
    /\ FromPool(r, "connect")
    /\ free' = free - 1
    /\ Goto(r, IF call[r].op = "register" THEN "checkEmail" ELSE "find")
    /\ UNCHANGED <<users, freePlans, reactivated>>

CheckEmail(r) ==
    /\ At(r, "checkEmail")
    /\ LET c == call[r].arg
       IN  IF WithEmail(c.email) # {}
           THEN ReplyAndRelease(r, 409)
           ELSE /\ Keep(r, Account(c.email, c.cpf, FALSE),
                        IF c.cpf = NoCpf THEN "freePlan" ELSE "checkCpf")
                /\ UNCHANGED free
    /\ UNCHANGED <<users, freePlans, reactivated>>

CheckCpf(r) ==
    /\ At(r, "checkCpf")
    /\ IF \E u \in Live : users[u].cpf = call[r].arg.cpf
       THEN ReplyAndRelease(r, 409)
       ELSE Goto(r, "freePlan") /\ UNCHANGED free
    /\ UNCHANGED <<users, freePlans, reactivated>>

(* register inserts the plan Gratuito, before its BEGIN, when it finds no  *)
(* free one; googleSignIn does without, and without a subscription.        *)
FreePlan(r) ==
    /\ At(r, "freePlan")
    /\ IF freePlans = 0 /\ call[r].op = "register"
       THEN Goto(r, "insertPlan")
       ELSE Keep(r, [call[r].read EXCEPT !.plan = (freePlans # 0)], "insert")
    /\ OnlyReads

InsertPlan(r) ==
    /\ At(r, "insertPlan")
    /\ freePlans' = freePlans + 1
    /\ Keep(r, [call[r].read EXCEPT !.plan = TRUE], "insert")
    /\ UNCHANGED <<users, free, reactivated>>

(* The inserts a transaction makes: a subscription only with a plan.       *)
ToInsert(r) == {t \in TableNames : t = "subscriptions" => call[r].read.plan}

(* What UNIQUE (email) and UNIQUE (cpf) compare a row with: committed      *)
(* rows, and those of open transactions, which an insert waits for.        *)
Clash(row, other) == row.email = other.email \/ row.cpf = other.cpf
Taken(row) == \E u \in Ids : Exists(u) /\ Clash(row, users[u])
Undecided(r) == \E q \in Holding \ {r} : /\ At(q, "insert") \/ At(q, "commit")
                                         /\ call[q].read.rows # {}
                                         /\ Clash(call[r].read, call[q].read)

NextTable(r) == CHOOSE t \in ToInsert(r) \ call[r].read.rows :
                   \A i, j \in DOMAIN Tables :
                      (Tables[i] = t /\ j < i) => Tables[j] \notin ToInsert(r) \ call[r].read.rows

(* Mutant: the rows are inserted through the pool, and commit at once.     *)
InsertOutside(r) ==
    LET longer == [call[r].read EXCEPT !.rows = @ \cup {NextTable(r)}]
    IN  /\ At(r, "insert")
        /\ Keep(r, longer, IF longer.rows = ToInsert(r) THEN "commit" ELSE "insert")
        /\ users' = [users EXCEPT ![r] = longer]
        /\ UNCHANGED <<freePlans, free, reactivated>>

(* client.query("INSERT INTO ...")                                         *)
Insert(r) ==
    LET row == call[r].read
        longer == [row EXCEPT !.rows = @ \cup {NextTable(r)}]
    IN  /\ At(r, "insert")
        /\ \/ row.rows = {} /\ ~ Undecided(r) /\ Taken(row) /\ Goto(r, "rollback")
           \/ /\ row.rows = {} => ~ Undecided(r) /\ ~ Taken(row)
              /\ Keep(r, longer, IF longer.rows = ToInsert(r) THEN "commit" ELSE "insert")
        /\ OnlyReads

(* Mutant: the answer does not wait for COMMIT, which fails.               *)
CommitUnawaited(r) ==
    /\ At(r, "commit")
    /\ users' = IF failures < MaxFailures THEN users
                ELSE [users EXCEPT ![r] = call[r].read]
    /\ IF call[r].op = "register"
       THEN ReplyAndRelease(r, 201)
       ELSE Keep(r, r, "lastLogin") /\ UNCHANGED free
    /\ UNCHANGED <<freePlans, reactivated>>

(* COMMIT: register answers with a token; googleSignIn goes on.            *)
Commit(r) ==
    /\ At(r, "commit")
    /\ users' = [users EXCEPT ![r] = call[r].read]
    /\ IF call[r].op = "register"
       THEN ReplyAndRelease(r, 201)
       ELSE Keep(r, r, "lastLogin") /\ UNCHANGED free
    /\ UNCHANGED <<freePlans, reactivated>>

Rollback(r) ==
    /\ At(r, "rollback")
    /\ ReplyAndRelease(r, 500)
    /\ UNCHANGED <<users, freePlans, reactivated>>

-----------------------------------------------------------------------------
(* googleSignIn *)

(* BEGIN, and the user of the address: none, a blocked one, or one whose   *)
(* avatar is updated.                                                      *)
FindOrCreate(r) ==
    /\ At(r, "find")
    /\ LET email == call[r].arg.email
       IN  \/ /\ WithEmail(email) = {}
              /\ Keep(r, Account(email, NoCpf, TRUE), "freePlan")
              /\ UNCHANGED free
           \/ \E u \in WithEmail(email) :
                 IF users[u].active
                 THEN Keep(r, u, "lastLogin") /\ UNCHANGED free
                 ELSE ReplyAndRelease(r, 401)
    /\ UNCHANGED <<users, freePlans, reactivated>>

-----------------------------------------------------------------------------
(* login, and what googleSignIn does after its COMMIT *)

FindUser(r) ==
    /\ FromPool(r, "findUser")
    /\ LET found == WithEmail(call[r].arg.email)
       IN  \/ found = {} /\ Reply(r, 401)
           \/ \E u \in found :
                 \/ ~ users[u].active /\ Reply(r, 401)
                 \/ /\ users[u].active
                    /\ Keep(r, u, IF call[r].arg.right /\ ~ users[u].google
                                  THEN "lastLogin" ELSE "addAttempt")
    /\ OnlyReads

AddAttempt(r) ==
    /\ FromPool(r, "addAttempt")
    /\ users' = [users EXCEPT ![call[r].read].failed = @ + 1]
    /\ Goto(r, "readAttempts")
    /\ UNCHANGED <<freePlans, free, reactivated>>

(* Mutant: one more attempt than five.                                     *)
ReadAttemptsLate(r) ==
    /\ FromPool(r, "readAttempts")
    /\ IF users[call[r].read].failed > MaxAttempts THEN Goto(r, "block") ELSE Reply(r, 401)
    /\ OnlyReads

(* SELECT failed_attempts: what this request and others have made of it.   *)
ReadAttempts(r) ==
    /\ FromPool(r, "readAttempts")
    /\ IF users[call[r].read].failed >= MaxAttempts THEN Goto(r, "block") ELSE Reply(r, 401)
    /\ OnlyReads

Block(r) ==
    /\ FromPool(r, "block")
    /\ users' = [users EXCEPT ![call[r].read].active = FALSE]
    /\ Reply(r, 401)
    /\ UNCHANGED <<freePlans, free, reactivated>>

(* last_login is read to decide on DAILY_LOGIN (module Gamification).      *)
LastLogin(r) ==
    /\ FromPool(r, "lastLogin")
    /\ Goto(r, "resetAttempts")
    /\ OnlyReads

ResetAttempts(r) ==
    /\ FromPool(r, "resetAttempts")
    /\ users' = [users EXCEPT ![call[r].read].failed = 0]
    /\ IF r \in Holding THEN ReplyAndRelease(r, 200) ELSE Reply(r, 200) /\ UNCHANGED free
    /\ UNCHANGED <<freePlans, reactivated>>

-----------------------------------------------------------------------------
(* With a token *)

(* refreshToken asks for an active account, me for one that is not deleted.*)
RefreshToken(r) ==
    /\ FromPool(r, "refreshToken")
    /\ LET u == call[r].id
       IN  Reply(r, IF u \in Live /\ users[u].active THEN 200 ELSE 401)
    /\ OnlyReads

Me(r) ==
    /\ FromPool(r, "me")
    /\ Reply(r, IF call[r].id \in Live THEN 200 ELSE 404)
    /\ OnlyReads

DeleteAccount(r) ==
    /\ FromPool(r, "deleteAccount")
    /\ LET u == call[r].id
       IN  users' = IF users[u].deleted THEN users
                    ELSE [users EXCEPT ![u].deleted = TRUE, ![u].active = FALSE]
    /\ Reply(r, 204)
    /\ UNCHANGED <<freePlans, free, reactivated>>

(* A deleted account is active again, with the attempts it had.            *)
ReactivateAccount(r) ==
    /\ FromPool(r, "reactivateAccount")
    /\ LET u == call[r].id
       IN  IF users[u].deleted
           THEN /\ users' = [users EXCEPT ![u].deleted = FALSE, ![u].active = TRUE]
                /\ reactivated' = reactivated \cup {u}
           ELSE UNCHANGED <<users, reactivated>>
    /\ Reply(r, 200)
    /\ UNCHANGED <<freePlans, free>>

(* user_profiles is updated, and then the account is read for the answer:  *)
(* of a deleted one there is no row, and the error comes after the update. *)
UpdateProfile(r) ==
    /\ FromPool(r, "updateProfile")
    /\ users' = [users EXCEPT ![call[r].id].profile = r]
    /\ Goto(r, "readProfile")
    /\ UNCHANGED <<freePlans, free, reactivated>>

ReadProfile(r) ==
    /\ FromPool(r, "readProfile")
    /\ Reply(r, IF call[r].id \in Live THEN 200 ELSE 500)
    /\ OnlyReads

UpdatePreferences(r) ==
    /\ FromPool(r, "updatePreferences")
    /\ users' = [users EXCEPT ![call[r].id].preferences = r]
    /\ Reply(r, 200)
    /\ UNCHANGED <<freePlans, free, reactivated>>

-----------------------------------------------------------------------------
(* Errors *)

(* The transaction of r is open.                                           *)
InTransaction(r) == At(r, "insert") \/ At(r, "commit")

(* The process ends, and is started again: what was in flight is gone, and *)
(* the database rolls its transactions back.                               *)
Exit ==
    /\ call' = [r \in Requests |-> IF r \in InFlight
                                   THEN Done(call[r].op)
                                   ELSE call[r]]
    /\ free' = PoolSize
    /\ UNCHANGED <<answer, alone, users, freePlans, reactivated>>

(* connectionTimeoutMillis.  The connect of register is outside of its     *)
(* try: the promise of the handler is rejected, nobody handles it, and     *)
(* unhandledRejection ends the process.                                    *)
Timeout(r) ==
    /\ free = 0
    /\ ~ At(r, "idle") /\ ~ At(r, "done")
    /\ \/ At(r, "connect") /\ call[r].op = "register" /\ Exit /\ UNCHANGED failures
       \/ /\ At(r, "connect") /\ call[r].op = "google"
          /\ Reply(r, 500) /\ UNCHANGED tables
       \/ /\ At(r, "lastLogin") \/ At(r, "resetAttempts")
          /\ r \in Holding
          /\ ReplyAndRelease(r, 500) /\ UNCHANGED <<users, freePlans, reactivated>>
       \/ /\ r \notin Holding /\ ~ At(r, "connect")
          /\ Reply(r, IF call[r].op = "refreshToken" THEN 401 ELSE 500) /\ UNCHANGED tables

(* The database answers a statement with an error.                         *)
Fail(r) ==
    /\ r \in InFlight
    /\ failures < MaxFailures
    /\ \/ At(r, "connect") /\ call[r].op = "register" /\ Exit /\ failures' = failures + 1
       \/ /\ InTransaction(r)
          /\ call' = [call EXCEPT ![r].pc = "rollback"] /\ failures' = failures + 1
          /\ UNCHANGED <<answer, alone, tables>>
       \/ /\ ~ InTransaction(r) /\ r \in Holding
          /\ FailWith(r, 500) /\ free' = free + 1
          /\ UNCHANGED <<users, freePlans, reactivated>>
       \/ /\ r \notin Holding /\ ~ (At(r, "connect") /\ call[r].op = "register")
          /\ FailWith(r, IF call[r].op = "refreshToken" THEN 401 ELSE 500)
          /\ UNCHANGED tables

Quiet == AllAnswered /\ UNCHANGED vars

Arrival(r) == (Register(r) \/ Login(r) \/ GoogleSignIn(r) \/ WithToken(r)) /\ UNCHANGED tables

Step(r) ==
    \/ Connect(r) \/ CheckEmail(r) \/ CheckCpf(r) \/ FreePlan(r) \/ InsertPlan(r)
    \/ Insert(r) \/ Commit(r) \/ Rollback(r) \/ FindOrCreate(r)
    \/ FindUser(r) \/ AddAttempt(r) \/ ReadAttempts(r) \/ Block(r)
    \/ LastLogin(r) \/ ResetAttempts(r)
    \/ RefreshToken(r) \/ Me(r) \/ DeleteAccount(r) \/ ReactivateAccount(r)
    \/ UpdateProfile(r) \/ ReadProfile(r) \/ UpdatePreferences(r)

Next ==
    \/ \E r \in Requests : Arrival(r) \/ Step(r) \/ Timeout(r) \/ Fail(r)
    \/ Quiet

Spec == Init /\ [][Next]_vars

-----------------------------------------------------------------------------
(* An account other requests can see has all of its rows, whichever insert *)
(* failed and whenever the process ended; one of Google's may lack the     *)
(* subscription.                                                           *)
WholeAccount ==
    \A u \in Ids : Exists(u) =>
        TableNames \ users[u].rows \subseteq (IF users[u].google THEN {"subscriptions"} ELSE {})

(* A mailbox has at most one account, deleted ones counted, however its    *)
(* address is spelled, by either way to sign up, also when both overlap.   *)
OneAccountPerMailbox ==
    \A u, w \in Ids : (Exists(u) /\ Exists(w) /\ users[u].email.box = users[w].email.box)
                         => u = w

(* A login that ended between its statements, of which one failed or got   *)
(* no connection, or with the process.                                     *)
BrokenOff == \E r \in Requests : On(r, "login", "done") /\ answer[r] \notin {200, 400, 401}

(* The counter and the block agree once no login is under way.  With five  *)
(* attempts an account is blocked, unless a login was broken off or the    *)
(* account was deleted and reactivated since, however many wrong passwords *)
(* came at once.  With fewer it is not, unless a login that knew the       *)
(* password and overlapped another has reset the counter of a blocked      *)
(* account.                                                                *)
BlockMatchesCounter ==
    \A u \in Live :
        LET trying == \E r \in InFlight : call[r].read = u
        IN  \/ trying \/ BrokenOff \/ u \in reactivated
            \/ users[u].active <=> users[u].failed < MaxAttempts
            \/ /\ ~ users[u].active
               /\ \E r \in Overlapped : call[r].op \in {"login", "google"} /\ answer[r] = 200

(* register answers 201 exactly when the account was made: never 201 for   *)
(* one that was rolled back, nor an error for one that stays.              *)
RegisterAnswerIsTrue ==
    \A r \in Requests : (call[r].op = "register" /\ answer[r] # Pending)
                           => (answer[r] = 201 <=> Exists(r))

=============================================================================
