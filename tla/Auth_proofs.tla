----------------------------- MODULE Auth_proofs -----------------------------
(***************************************************************************)
(* What holds of accounts for any number of requests, connections, errors  *)
(* of the database and exits of the process: an account is whole, a        *)
(* mailbox has one, the answer of register is true, and the counter of     *)
(* wrong passwords and the block agree.                                    *)
(***************************************************************************)
EXTENDS Auth, Handlers_proofs

Normal == {normalizeEmail(e) : e \in Emails}

AccountRow ==
    [email : Normal \cup {Nobody}, cpf : Cpfs, google : BOOLEAN, active : BOOLEAN,
     deleted : BOOLEAN, failed : Nat, profile : Requests \cup {Nobody},
     preferences : Requests \cup {Nobody}, plan : BOOLEAN, rows : SUBSET TableNames]

(* The labels of a sign-up, and those at which it has the row to insert.   *)
Prepares == {"checkCpf", "freePlan", "insertPlan"}
Inserts == {"insert", "commit"}
SignUp == {"connect", "checkEmail", "find", "rollback"} \cup Prepares \cup Inserts

(* The tables an account is inserted into.                                 *)
Needed(row) == {t \in TableNames : t = "subscriptions" => row.plan}

(* The account of a request is there only after its COMMIT.                *)
NotYetThere(r, c) == c.pc \in SignUp \cup {"idle"} => ~ Exists(r)

Operation(c) ==
    /\ c.pc \in SignUp => /\ c.op \in {"register", "google"}
                          /\ c.arg.email \in Normal /\ c.arg.cpf \in Cpfs
    /\ c.op = "register" => c.pc \in SignUp \cup {"done"}
    /\ c.pc = "find" => c.op = "google"
    /\ c.pc = "checkEmail" => c.op = "register"

(* The row on its way into the tables.                                     *)
Prepared(c) ==
    /\ c.pc \in Prepares \cup Inserts =>
          c.read \in AccountRow /\ c.read.email \in Normal /\ (c.read.google <=> c.op = "google")
    /\ c.pc \in Prepares => c.read.rows = {}
    /\ c.pc \in Inserts => c.read.google \/ c.read.plan
    /\ c.pc = "insert" => c.read.rows \subseteq Needed(c.read) /\ c.read.rows # Needed(c.read)
    /\ c.pc = "commit" => c.read.rows = Needed(c.read)

AnswerIsTrue(r, c) ==
    c.op = "register" /\ answer[r] # Pending => (answer[r] = 201 <=> Exists(r))

Consistent(r, c) == NotYetThere(r, c) /\ Operation(c) /\ Prepared(c) /\ AnswerIsTrue(r, c)

(* A transaction that has inserted into users holds the address and the    *)
(* CPF: no account has them, and no other transaction.                     *)
Claims(c) == c.pc \in Inserts /\ c.read.rows # {}

Free(row) == \A u \in Ids : Exists(u) => ~ Clash(row, users[u])

ClaimsHold ==
    \A r \in Requests : Claims(call[r]) =>
        /\ Free(call[r].read)
        /\ \A q \in Requests \ {r} : Claims(call[q]) => ~ Clash(call[r].read, call[q].read)

Accounts ==
    /\ users \in [Ids -> AccountRow]
    /\ \A u \in Ids : Exists(u) => users[u].email \in Normal
    /\ \A u, w \in Ids : Exists(u) /\ Exists(w) /\ u # w => ~ Clash(users[u], users[w])
    /\ WholeAccount
    /\ freePlans \in Nat

AuthInv ==
    /\ HandlersOK /\ Accounts /\ ClaimsHold
    /\ \A r \in Requests : Consistent(r, call[r])

-----------------------------------------------------------------------------
(* Addresses, rows and tables                                              *)

LEMMA NormalIsPlain ==
  ASSUME NEW e \in Normal
  PROVE  e = [box |-> e.box, spelling |-> "plain"]
  BY AuthAssumption DEF Normal, normalizeEmail

LEMMA SameBoxSameEmail ==
  ASSUME NEW e \in Normal, NEW f \in Normal, e.box = f.box
  PROVE  e = f
  BY NormalIsPlain

LEMMA NamesOfTables == TableNames = {"users", "user_...", "subscriptions", "nucleos"}
  <1>1. DOMAIN Tables = {1, 2, 3, 4}
    BY DEF Tables
  <1>2. /\ Tables[1] = "users" /\ Tables[2] = "user_..."
        /\ Tables[3] = "subscriptions" /\ Tables[4] = "nucleos"
    BY DEF Tables
  <1> QED
    BY <1>1, <1>2 DEF TableNames

(* The inserts go through the tables in their order.                       *)
LEMMA FirstMissing ==
  ASSUME NEW S \in SUBSET TableNames, S # {}
  PROVE  \E t \in S : \A i, j \in DOMAIN Tables : (Tables[i] = t /\ j < i) => Tables[j] \notin S
  <1>1. DOMAIN Tables = {1, 2, 3, 4}
    BY DEF Tables
  <1>2. /\ Tables[1] = "users" /\ Tables[2] = "user_..."
        /\ Tables[3] = "subscriptions" /\ Tables[4] = "nucleos"
    BY DEF Tables
  <1>3. CASE "users" \in S
    BY <1>1, <1>2, <1>3
  <1>4. CASE "users" \notin S /\ "user_..." \in S
    BY <1>1, <1>2, <1>4
  <1>5. CASE "users" \notin S /\ "user_..." \notin S /\ "subscriptions" \in S
    BY <1>1, <1>2, <1>5
  <1>6. CASE "users" \notin S /\ "user_..." \notin S /\ "subscriptions" \notin S
    <2>1. S = {"nucleos"}
      BY <1>6, NamesOfTables
    <2> QED
      BY <1>1, <1>2, <2>1
  <1> QED
    BY <1>3, <1>4, <1>5, <1>6

LEMMA NextTableIsMissing ==
  ASSUME NEW r \in Requests, ToInsert(r) \ call[r].read.rows # {}
  PROVE  NextTable(r) \in ToInsert(r) \ call[r].read.rows
  <1>1. ToInsert(r) \ call[r].read.rows \in SUBSET TableNames
    BY DEF ToInsert
  <1> QED
    BY <1>1, FirstMissing DEF NextTable

LEMMA NewAccount ==
  ASSUME NEW email \in Normal, NEW cpf \in Cpfs, NEW google \in BOOLEAN
  PROVE  /\ Account(email, cpf, google) \in AccountRow
         /\ Account(email, cpf, google).email = email
         /\ Account(email, cpf, google).rows = {}
         /\ Account(email, cpf, google).google = google
  BY AuthAssumption DEF Account, NoAccount, AccountRow

LEMMA OldIsNoRequest == Old \notin Requests /\ Old \in Ids /\ Requests \subseteq Ids
  BY AuthAssumption DEF Ids

LEMMA InitAuth == Init => AuthInv
  <1> SUFFICES ASSUME Init PROVE AuthInv
    OBVIOUS
  <1>1. HandlersOK /\ \A r \in Requests : call[r] = Idle
    BY InitHandlersOK DEF Init, HandlersInit
  <1>2. PICK email \in OldEmails, cpf \in Cpfs, n \in Attempts, google \in BOOLEAN :
          /\ google => cpf = NoCpf
          /\ users = [u \in Ids |-> IF u # Old THEN NoAccount ELSE
                         [Account(normalizeEmail(email), cpf, google)
                             EXCEPT !.plan = TRUE, !.rows = TableNames, !.failed = n]]
    BY Zenon DEF Init
  <1>3. PICK row : row = [Account(normalizeEmail(email), cpf, google)
                          EXCEPT !.plan = TRUE, !.rows = TableNames, !.failed = n]
    OBVIOUS
  <1>4. normalizeEmail(email) \in Normal /\ n \in Nat
    BY AuthAssumption DEF Normal
  <1>5. row \in AccountRow /\ row.email \in Normal /\ row.rows = TableNames
    <2>1. PICK account \in AccountRow :
            account = Account(normalizeEmail(email), cpf, google) /\ account.email \in Normal
      BY <1>4, NewAccount
    <2>2. row = [account EXCEPT !.plan = TRUE, !.rows = TableNames, !.failed = n]
      BY <1>3, <2>1
    <2> QED
      BY <1>4, <2>1, <2>2 DEF AccountRow
  <1>6. NoAccount \in AccountRow /\ NoAccount.rows = {}
    BY AuthAssumption DEF NoAccount, AccountRow
  <1>7. users = [u \in Ids |-> IF u # Old THEN NoAccount ELSE row]
    BY <1>2, <1>3, Zenon
  <1>8. users \in [Ids -> AccountRow] /\ \A u \in Ids : Exists(u) => u = Old
    BY <1>5, <1>6, <1>7 DEF Exists
  <1>9. Accounts
    <2>1. freePlans \in Nat
      BY DEF Init
    <2> QED
      BY <1>5, <1>7, <1>8, <2>1 DEF Accounts, WholeAccount
  <1>10. ClaimsHold
    BY <1>1 DEF ClaimsHold, Claims, Idle, Inserts
  <1>11. \A r \in Requests : Consistent(r, call[r])
    BY <1>1, <1>8, OldIsNoRequest
       DEF Idle, Consistent, NotYetThere, Operation, Prepared, AnswerIsTrue, SignUp, Prepares,
           Inserts
  <1> QED
    BY <1>1, <1>9, <1>10, <1>11 DEF AuthInv

-----------------------------------------------------------------------------
(* Steps that make no account                                              *)

(* What accounts are told apart by stays, and the tables they are in.      *)
KeysStay ==
    /\ freePlans' \in Nat /\ users' \in [Ids -> AccountRow]
    /\ \A u \in Ids : /\ users'[u].email = users[u].email /\ users'[u].cpf = users[u].cpf
                      /\ users'[u].google = users[u].google /\ users'[u].rows = users[u].rows

LEMMA SameUsers ==
  ASSUME AuthInv, users' = users, freePlans' \in {freePlans, freePlans + 1}
  PROVE  KeysStay
  BY DEF AuthInv, Accounts, KeysStay

LEMMA AccountsStay ==
  ASSUME AuthInv, KeysStay
  PROVE  Accounts' /\ \A u \in Ids : Exists(u)' <=> Exists(u)
  <1>1. \A u \in Ids : Exists(u)' <=> Exists(u)
    BY DEF Exists, KeysStay
  <1>2. WholeAccount'
    BY <1>1 DEF AuthInv, Accounts, WholeAccount, KeysStay
  <1> QED
    BY <1>1, <1>2 DEF AuthInv, Accounts, KeysStay, Clash

(* A request goes on, claiming what nobody has.                            *)
LEMMA GoesOnOK ==
  ASSUME AuthInv, NEW r \in Requests, OnlyMoves(r), KeysStay, Consistent(r, call[r])',
         Claims(call'[r]) =>
            /\ Free(call'[r].read)
            /\ \A q \in Requests \ {r} : Claims(call[q]) => ~ Clash(call'[r].read, call[q].read)
  PROVE  AuthInv'
  <1>1. Accounts' /\ (\A u \in Ids : Exists(u)' <=> Exists(u)) /\ Requests \subseteq Ids
    BY AccountsStay, OldIsNoRequest
  <1>2. ASSUME NEW q \in Requests \ {r}
        PROVE  Consistent(q, call[q])'
    <2>1. call'[q] = call[q] /\ answer'[q] = answer[q] /\ Consistent(q, call[q])
      BY DEF OnlyMoves, AuthInv
    <2> QED
      BY <1>1, <2>1 DEF Consistent, NotYetThere, Operation, Prepared, AnswerIsTrue, Needed
  <1>3. \A q \in Requests \ {r} : call'[q] = call[q]
    BY DEF OnlyMoves
  <1>4. ClaimsHold'
    <2> SUFFICES ASSUME NEW q \in Requests, Claims(call'[q])
                 PROVE  /\ \A u \in Ids : Exists(u) => ~ Clash(call'[q].read, users'[u])
                        /\ \A p \in Requests \ {q} :
                              Claims(call'[p]) => ~ Clash(call'[q].read, call'[p].read)
      BY <1>1 DEF ClaimsHold, Free, Claims, Clash
    <2>1. CASE q = r
      BY <1>3, <2>1 DEF Free, KeysStay, Clash
    <2>2. CASE q # r
      <3>1. /\ call'[q] = call[q] /\ Free(call[q].read)
            /\ \A p \in Requests \ {q} : Claims(call[p]) => ~ Clash(call[q].read, call[p].read)
        BY <1>3, <2>2 DEF AuthInv, ClaimsHold
      <3> QED
        BY <1>3, <2>2, <3>1 DEF Free, KeysStay, Clash
    <2> QED
      BY <2>1, <2>2
  <1> QED
    BY <1>1, <1>2, <1>4 DEF AuthInv, OnlyMoves

(* A request goes on outside of a transaction.                             *)
LEMMA NoClaimOK ==
  ASSUME AuthInv, NEW r \in Requests, OnlyMoves(r), KeysStay, call'[r].pc \notin Inserts,
         Consistent(r, call[r])'
  PROVE  AuthInv'
  BY GoesOnOK DEF Claims

LEMMA DoneOK ==
  ASSUME AuthInv, NEW r \in Requests, OnlyMoves(r), KeysStay, call[r].pc # "done",
         call'[r].pc = "done", call'[r].op = call[r].op \/ call[r].pc = "idle",
         answer'[r] # 201
  PROVE  AuthInv'
  <1>1. call'[r].op = "register" => ~ Exists(r)
    BY DEF AuthInv, Consistent, Operation, NotYetThere
  <1>2. Exists(r)' <=> Exists(r)
    BY AccountsStay, OldIsNoRequest
  <1>3. Consistent(r, call[r])'
    BY <1>1, <1>2 DEF Consistent, NotYetThere, Operation, Prepared, AnswerIsTrue, SignUp,
                      Prepares, Inserts
  <1> QED
    BY <1>3, NoClaimOK DEF Inserts

LEMMA ReplyOK ==
  ASSUME AuthInv, NEW r \in InFlight, NEW status, status # 201, Reply(r, status), KeysStay
  PROVE  AuthInv'
  <1>1. r \in Requests /\ call[r].pc # "done"
    BY DEF InFlight, At
  <1> QED
    BY <1>1, ReplyIs, DoneOK DEF AuthInv

LEMMA FailWithOK ==
  ASSUME AuthInv, NEW r \in InFlight, NEW status, status # 201, FailWith(r, status), KeysStay
  PROVE  AuthInv'
  <1>1. r \in Requests /\ call[r].pc # "done"
    BY DEF InFlight, At
  <1> QED
    BY <1>1, FailIs, DoneOK DEF AuthInv

LEMMA RefuseOK ==
  ASSUME AuthInv, NEW r \in Requests, NEW op, NEW status, status # 201, Refuse(r, op, status),
         KeysStay
  PROVE  AuthInv'
  <1>1. call[r].pc = "idle"
    BY DEF Refuse, At
  <1> QED
    BY <1>1, RefuseIs, DoneOK DEF AuthInv

(* A request that does not sign up goes on.                                *)
LEMMA OutsideOK ==
  ASSUME AuthInv, NEW r \in Requests, OnlyMoves(r), KeysStay,
         call'[r].pc \notin SignUp \cup {"idle"}, call'[r].op # "register"
  PROVE  AuthInv'
  <1>1. Consistent(r, call[r])'
    BY DEF Consistent, NotYetThere, Operation, Prepared, AnswerIsTrue, SignUp, Prepares, Inserts
  <1> QED
    BY <1>1, NoClaimOK DEF SignUp

LEMMA OutsideGotoOK ==
  ASSUME AuthInv, NEW r \in InFlight, KeysStay, call[r].op # "register",
         NEW label, label \notin SignUp \cup {"idle"},
         Goto(r, label) \/ \E read : Keep(r, read, label)
  PROVE  AuthInv'
  <1>1. r \in Requests /\ call[r].pc # "done"
    BY DEF InFlight, At
  <1>2. OnlyMoves(r) /\ GoesTo(r, label)
    BY <1>1, GotoIs, KeepIs DEF AuthInv
  <1> QED
    BY <1>1, <1>2, OutsideOK DEF GoesTo, GoesAs

LEMMA ArrivalOK ==
  ASSUME AuthInv, NEW r \in Requests, Arrival(r)
  PROVE  AuthInv'
  <1>1. KeysStay
    BY SameUsers DEF Arrival, tables
  <1>2. ASSUME NEW email \in Emails, NEW cpf \in Cpfs, NEW op \in {"register", "google"},
               Arrive(r, "connect", op, r, [email |-> normalizeEmail(email), cpf |-> cpf])
        PROVE  AuthInv'
    <2>1. PICK arg : arg = [email |-> normalizeEmail(email), cpf |-> cpf]
      OBVIOUS
    <2>2. OnlyMoves(r) /\ call[r].pc = "idle" /\ GoesAs(r, "connect", op, r, arg)
          /\ answer' = answer
      BY <1>2, <2>1, ArriveIs DEF AuthInv
    <2>3. arg.email \in Normal /\ arg.cpf \in Cpfs
      BY <2>1 DEF Normal
    <2>4. ~ Exists(r)' /\ answer[r] = Pending
      BY <1>1, <2>2, AccountsStay, OldIsNoRequest DEF AuthInv, Consistent, NotYetThere, HandlersOK
    <2>5. Consistent(r, call[r])'
      BY <2>2, <2>3, <2>4
         DEF GoesAs, Consistent, NotYetThere, Operation, Prepared, AnswerIsTrue, SignUp, Prepares,
             Inserts
    <2> QED
      BY <1>1, <2>2, <2>5, NoClaimOK DEF GoesAs, Inserts
  <1>3. ASSUME NEW label, NEW op, NEW id, NEW arg, label \notin SignUp \cup {"idle"},
               op # "register", Arrive(r, label, op, id, arg)
        PROVE  AuthInv'
    <2>1. OnlyMoves(r) /\ GoesAs(r, label, op, id, arg)
      BY <1>3, ArriveIs DEF AuthInv
    <2> QED
      BY <1>1, <1>3, <2>1, OutsideOK DEF GoesAs
  <1>4. CASE \/ Refuse(r, "register", 400) \/ Refuse(r, "login", 400) \/ Refuse(r, "google", 401)
             \/ Unauthenticated(r)
    BY <1>1, <1>4, RefuseOK DEF Unauthenticated
  <1>5. CASE Register(r)
    BY <1>2, <1>4, <1>5 DEF Register
  <1>6. CASE GoogleSignIn(r)
    BY <1>2, <1>4, <1>6, AuthAssumption DEF GoogleSignIn
  <1>7. CASE Login(r)
    BY <1>3, <1>4, <1>7 DEF Login, SignUp, Prepares, Inserts
  <1>8. CASE WithToken(r)
    BY <1>3, <1>4, <1>8 DEF WithToken, SignUp, Prepares, Inserts
  <1> QED
    BY <1>5, <1>6, <1>7, <1>8 DEF Arrival

-----------------------------------------------------------------------------
(* Sign-up, up to its transaction                                          *)

(* A request of a sign-up goes on with the row it has.                     *)
LEMMA SignUpGotoOK ==
  ASSUME AuthInv, NEW r \in InFlight, KeysStay, call[r].pc \in SignUp,
         NEW label, label \in SignUp \ Inserts, Goto(r, label),
         label = "find" => call[r].op = "google",
         label = "checkEmail" => call[r].op = "register",
         label \in Prepares => call[r].pc \in Prepares
  PROVE  AuthInv'
  <1>1. r \in Requests /\ call[r].pc # "done"
    BY DEF InFlight, At
  <1>2. /\ OnlyMoves(r) /\ GoesTo(r, label) /\ call'[r].read = call[r].read
        /\ answer' = answer /\ answer[r] = Pending
    BY <1>1, GotoIs DEF AuthInv, HandlersOK
  <1>3. Exists(r)' <=> Exists(r)
    BY <1>1, AccountsStay, OldIsNoRequest
  <1>4. Consistent(r, call[r])'
    BY <1>1, <1>2, <1>3 DEF AuthInv, GoesTo, GoesAs, Consistent, NotYetThere, Operation,
                            Prepared, AnswerIsTrue, SignUp, Prepares, Inserts
  <1> QED
    BY <1>1, <1>2, <1>4, NoClaimOK DEF GoesTo, GoesAs

(* A request of a sign-up goes on with a row that is in no table yet.      *)
LEMMA SignUpKeepOK ==
  ASSUME AuthInv, NEW r \in InFlight, KeysStay, call[r].pc \in SignUp,
         NEW label \in Prepares \cup {"insert"}, NEW row \in AccountRow, Keep(r, row, label),
         row.rows = {}, row.email \in Normal, row.google <=> call[r].op = "google",
         label = "insert" => row.google \/ row.plan
  PROVE  AuthInv'
  <1>1. r \in Requests /\ call[r].pc # "done"
    BY DEF InFlight, At
  <1>2. /\ OnlyMoves(r) /\ GoesTo(r, label) /\ call'[r].read = row
        /\ answer' = answer /\ answer[r] = Pending
    BY <1>1, KeepIs DEF AuthInv, HandlersOK
  <1>3. Exists(r)' <=> Exists(r)
    BY <1>1, AccountsStay, OldIsNoRequest
  <1>4. "users" \in Needed(row)
    BY NamesOfTables DEF Needed
  <1>5. NotYetThere(r, call[r])' /\ Operation(call[r])' /\ AnswerIsTrue(r, call[r])'
    BY <1>1, <1>2, <1>3 DEF AuthInv, GoesTo, GoesAs, Consistent, NotYetThere, Operation,
                            AnswerIsTrue, SignUp, Prepares, Inserts
  <1>6. Prepared(call[r])'
    BY <1>2, <1>4 DEF GoesTo, GoesAs, Prepared, Prepares, Inserts, Needed
  <1>7. Consistent(r, call[r])' /\ ~ Claims(call'[r])
    BY <1>2, <1>5, <1>6 DEF Consistent, Claims
  <1> QED
    BY <1>1, <1>2, <1>7, GoesOnOK

LEMMA ConnectOK ==
  ASSUME AuthInv, NEW r \in Requests, Connect(r)
  PROVE  AuthInv'
  <1>1. r \in InFlight /\ call[r].pc = "connect" /\ KeysStay
    BY SameUsers DEF Connect, FromPool, InFlight, At
  <1>2. call[r].op \in {"register", "google"}
    BY <1>1 DEF AuthInv, Consistent, Operation, SignUp
  <1>3. CASE call[r].op = "register" /\ Goto(r, "checkEmail")
    BY <1>1, <1>3, SignUpGotoOK DEF SignUp, Prepares, Inserts
  <1>4. CASE call[r].op = "google" /\ Goto(r, "find")
    BY <1>1, <1>4, SignUpGotoOK DEF SignUp, Prepares, Inserts
  <1> QED
    BY <1>2, <1>3, <1>4 DEF Connect

LEMMA CheckEmailOK ==
  ASSUME AuthInv, NEW r \in Requests, CheckEmail(r)
  PROVE  AuthInv'
  <1>1. r \in InFlight /\ call[r].pc = "checkEmail" /\ KeysStay /\ call[r].op = "register"
    BY SameUsers DEF CheckEmail, InFlight, At, AuthInv, Consistent, Operation
  <1>2. CASE ReplyAndRelease(r, 409)
    BY <1>1, <1>2, ReplyOK DEF ReplyAndRelease
  <1>3. ASSUME NEW label \in {"freePlan", "checkCpf"},
               Keep(r, Account(call[r].arg.email, call[r].arg.cpf, FALSE), label)
        PROVE  AuthInv'
    <2>1. call[r].arg.email \in Normal /\ call[r].arg.cpf \in Cpfs
      BY <1>1 DEF AuthInv, Consistent, Operation, SignUp
    <2>2. PICK row \in AccountRow : /\ row = Account(call[r].arg.email, call[r].arg.cpf, FALSE)
                                    /\ row.email \in Normal /\ row.rows = {} /\ ~ row.google
      BY <2>1, NewAccount
    <2>3. Keep(r, row, label)
      BY <1>3, <2>2
    <2> QED
      BY <1>1, <2>2, <2>3, SignUpKeepOK DEF SignUp, Prepares
  <1> QED
    BY <1>2, <1>3 DEF CheckEmail

LEMMA FindOrCreateOK ==
  ASSUME AuthInv, NEW r \in Requests, FindOrCreate(r)
  PROVE  AuthInv'
  <1>1. /\ r \in InFlight /\ call[r].pc = "find" /\ KeysStay /\ call[r].op = "google"
        /\ call[r].arg.email \in Normal
    BY SameUsers DEF FindOrCreate, InFlight, At, AuthInv, Consistent, Operation, SignUp
  <1>2. CASE Keep(r, Account(call[r].arg.email, NoCpf, TRUE), "freePlan")
    <2>1. PICK row \in AccountRow : /\ row = Account(call[r].arg.email, NoCpf, TRUE)
                                    /\ row.email \in Normal /\ row.rows = {} /\ row.google
      BY <1>1, NewAccount, AuthAssumption
    <2>2. Keep(r, row, "freePlan")
      BY <1>2, <2>1
    <2> QED
      BY <1>1, <2>1, <2>2, SignUpKeepOK DEF SignUp, Prepares
  <1>3. CASE \E u : Keep(r, u, "lastLogin")
    BY <1>1, <1>3, OutsideGotoOK DEF SignUp, Prepares, Inserts
  <1>4. CASE ReplyAndRelease(r, 401)
    BY <1>1, <1>4, ReplyOK DEF ReplyAndRelease
  <1> QED
    BY <1>2, <1>3, <1>4 DEF FindOrCreate

LEMMA CheckCpfOK ==
  ASSUME AuthInv, NEW r \in Requests, CheckCpf(r)
  PROVE  AuthInv'
  <1>1. r \in InFlight /\ call[r].pc = "checkCpf" /\ KeysStay
    BY SameUsers DEF CheckCpf, InFlight, At
  <1>2. CASE ReplyAndRelease(r, 409)
    BY <1>1, <1>2, ReplyOK DEF ReplyAndRelease
  <1>3. CASE Goto(r, "freePlan")
    BY <1>1, <1>3, SignUpGotoOK DEF SignUp, Prepares, Inserts
  <1> QED
    BY <1>2, <1>3 DEF CheckCpf

LEMMA PlanOK ==
  ASSUME AuthInv, NEW r \in Requests, FreePlan(r) \/ InsertPlan(r)
  PROVE  AuthInv'
  <1>1. r \in InFlight /\ call[r].pc \in {"freePlan", "insertPlan"} /\ KeysStay
    BY SameUsers DEF FreePlan, InsertPlan, OnlyReads, tables, InFlight, At
  <1>2. /\ call[r].read \in AccountRow /\ call[r].read.email \in Normal
        /\ call[r].read.google <=> call[r].op = "google"
    BY <1>1 DEF AuthInv, Consistent, Prepared, Prepares
  <1>3. call[r].op \in {"register", "google"} /\ call[r].read.rows = {}
    BY <1>1 DEF AuthInv, Consistent, Prepared, Operation, SignUp, Prepares
  <1>4. CASE Goto(r, "insertPlan")
    BY <1>1, <1>4, SignUpGotoOK DEF SignUp, Prepares, Inserts
  <1>5. ASSUME NEW plan \in BOOLEAN, Keep(r, [call[r].read EXCEPT !.plan = plan], "insert"),
               plan \/ call[r].op = "google"
        PROVE  AuthInv'
    <2>1. PICK row : row = [call[r].read EXCEPT !.plan = plan]
      OBVIOUS
    <2>2. /\ row \in AccountRow /\ row.email \in Normal /\ row.rows = {}
          /\ row.google = call[r].read.google /\ row.plan = plan
      BY <1>2, <1>3, <2>1 DEF AccountRow
    <2>3. Keep(r, row, "insert")
      BY <1>5, <2>1
    <2> QED
      BY <1>1, <1>2, <1>5, <2>2, <2>3, SignUpKeepOK DEF SignUp, Prepares
  <1>6. CASE InsertPlan(r)
    BY <1>5, <1>6 DEF InsertPlan
  <1>7. CASE FreePlan(r)
    <2>1. CASE ~ (freePlans = 0 /\ call[r].op = "register")
      <3>1. Keep(r, [call[r].read EXCEPT !.plan = (freePlans # 0)], "insert")
        BY <1>7, <2>1 DEF FreePlan
      <3>2. CASE freePlans # 0
        <4>1. (freePlans # 0) = TRUE
          BY <3>2, Zenon
        <4>2. Keep(r, [call[r].read EXCEPT !.plan = TRUE], "insert")
          BY <3>1, <4>1, Zenon
        <4> QED
          BY <1>5, <4>2
      <3>3. CASE freePlans = 0
        <4>1. (freePlans # 0) = FALSE
          BY <3>3, Zenon
        <4>2. Keep(r, [call[r].read EXCEPT !.plan = FALSE], "insert")
          BY <3>1, <4>1, Zenon
        <4>3. call[r].op = "google"
          BY <1>3, <2>1, <3>3 DEF AuthInv, Accounts
        <4> QED
          BY <1>5, <4>2, <4>3
      <3> QED
        BY <3>2, <3>3
    <2> QED
      BY <1>4, <1>7, <2>1 DEF FreePlan
  <1> QED
    BY <1>6, <1>7

-----------------------------------------------------------------------------
(* The transaction of a sign-up                                            *)

(* An insert that waits for nobody, and finds nothing taken, is the first  *)
(* with its address and CPF.                                               *)
LEMMA FirstInsertClaims ==
  ASSUME AuthInv, NEW r \in Requests, ~ Undecided(r), ~ Taken(call[r].read)
  PROVE  /\ Free(call[r].read)
         /\ \A q \in Requests \ {r} : Claims(call[q]) => ~ Clash(call[r].read, call[q].read)
  <1>1. Free(call[r].read)
    BY DEF Taken, Free
  <1>2. \A q \in Requests \ {r} : Claims(call[q]) => q \in Holding
    BY DEF AuthInv, Consistent, Operation, SignUp, Claims, Inserts, Holding, InFlight, At
  <1> QED
    BY <1>1, <1>2 DEF Undecided, Claims, Inserts, At

LEMMA InsertOK ==
  ASSUME AuthInv, NEW r \in Requests, Insert(r)
  PROVE  AuthInv'
  <1>1. r \in InFlight /\ call[r].pc = "insert" /\ KeysStay
    BY SameUsers DEF Insert, OnlyReads, tables, InFlight, At
  <1>2. /\ call[r].read \in AccountRow /\ call[r].read.email \in Normal
        /\ call[r].read.google <=> call[r].op = "google"
    BY <1>1 DEF AuthInv, Consistent, Prepared, Inserts
  <1>3. /\ call[r].read.google \/ call[r].read.plan
        /\ call[r].read.rows \subseteq Needed(call[r].read)
        /\ call[r].read.rows # Needed(call[r].read)
    BY <1>1 DEF AuthInv, Consistent, Prepared, Inserts
  <1>4. CASE Goto(r, "rollback")
    BY <1>1, <1>4, SignUpGotoOK DEF SignUp, Prepares, Inserts
  <1>5. CASE /\ call[r].read.rows = {} => ~ Undecided(r) /\ ~ Taken(call[r].read)
             /\ \E longer : \E label \in {"insert", "commit"} :
                  /\ longer = [call[r].read EXCEPT !.rows = @ \cup {NextTable(r)}]
                  /\ label = IF longer.rows = ToInsert(r) THEN "commit" ELSE "insert"
                  /\ Keep(r, longer, label)
    <2>0. PICK longer : \E label \in {"insert", "commit"} :
                  /\ longer = [call[r].read EXCEPT !.rows = @ \cup {NextTable(r)}]
                  /\ label = IF longer.rows = ToInsert(r) THEN "commit" ELSE "insert"
                  /\ Keep(r, longer, label)
      BY <1>5
    <2>1. PICK label \in {"insert", "commit"} :
                  /\ longer = [call[r].read EXCEPT !.rows = @ \cup {NextTable(r)}]
                  /\ label = IF longer.rows = ToInsert(r) THEN "commit" ELSE "insert"
                  /\ Keep(r, longer, label)
      BY <2>0
    <2>2. ToInsert(r) = Needed(call[r].read)
      BY DEF ToInsert, Needed
    <2>3. NextTable(r) \in Needed(call[r].read)
      BY <1>3, <2>2, NextTableIsMissing
    <2>4. /\ longer \in AccountRow /\ longer.email = call[r].read.email
          /\ longer.cpf = call[r].read.cpf /\ longer.google = call[r].read.google
          /\ longer.plan = call[r].read.plan
          /\ longer.rows = call[r].read.rows \cup {NextTable(r)}
      BY <1>2, <2>1, <2>3 DEF AccountRow, Needed
    <2>5. Needed(longer) = Needed(call[r].read)
      BY <2>4 DEF Needed
    <2>6. /\ OnlyMoves(r) /\ GoesTo(r, label) /\ call'[r].read = longer
          /\ answer' = answer /\ answer[r] = Pending
      BY <1>1, <2>1, KeepIs DEF AuthInv, HandlersOK
    <2>7. Exists(r)' <=> Exists(r)
      BY <1>1, AccountsStay, OldIsNoRequest
    <2>8. NotYetThere(r, call[r])' /\ Operation(call[r])' /\ AnswerIsTrue(r, call[r])'
      BY <1>1, <2>6, <2>7 DEF AuthInv, GoesTo, GoesAs, Consistent, NotYetThere, Operation,
                              AnswerIsTrue, SignUp, Prepares, Inserts
    <2>9. /\ longer.rows \subseteq Needed(longer)
          /\ label = "commit" <=> longer.rows = Needed(longer)
      BY <1>3, <2>1, <2>2, <2>3, <2>4, <2>5
    <2>10. Prepared(call[r])'
      BY <1>2, <1>3, <2>4, <2>6, <2>9 DEF GoesTo, GoesAs, Prepared, Prepares, Inserts, Needed
    <2>11. /\ Free(call[r].read)
           /\ \A q \in Requests \ {r} : Claims(call[q]) => ~ Clash(call[r].read, call[q].read)
      <3>1. CASE call[r].read.rows = {}
        BY <1>5, <3>1, FirstInsertClaims
      <3>2. CASE call[r].read.rows # {}
        BY <1>1, <3>2 DEF AuthInv, ClaimsHold, Claims, Inserts
      <3> QED
        BY <3>1, <3>2
    <2>12. /\ Free(longer)
           /\ \A q \in Requests \ {r} : Claims(call[q]) => ~ Clash(longer, call[q].read)
      BY <2>4, <2>11 DEF Free, Clash
    <2> QED
      BY <1>1, <2>6, <2>8, <2>10, <2>12, GoesOnOK DEF Consistent
  <1> QED
    BY <1>4, <1>5 DEF Insert

(* COMMIT makes the account that nobody else can make.                     *)
LEMMA CommitOK ==
  ASSUME AuthInv, NEW r \in Requests, Commit(r)
  PROVE  AuthInv'
  <1>1. r \in InFlight /\ call[r].pc = "commit" /\ r \in Ids /\ freePlans' = freePlans
    BY OldIsNoRequest DEF Commit, InFlight, At
  <1>2. PICK row : row = call[r].read
    OBVIOUS
  <1>3. /\ row \in AccountRow /\ row.email \in Normal /\ row.rows = Needed(row)
        /\ row.google \/ row.plan
    BY <1>1, <1>2 DEF AuthInv, Consistent, Prepared, Inserts
  <1>4. /\ users' = [users EXCEPT ![r] = row] /\ ~ Exists(r)
        /\ call[r].op \in {"register", "google"}
    BY <1>1, <1>2 DEF Commit, AuthInv, Consistent, NotYetThere, Operation, SignUp, Inserts
  <1>5. /\ users' \in [Ids -> AccountRow] /\ users'[r] = row
        /\ \A u \in Ids \ {r} : users'[u] = users[u]
    BY <1>1, <1>3, <1>4 DEF AuthInv, Accounts
  <1>6. "users" \in Needed(row)
    BY NamesOfTables DEF Needed
  <1>7. Exists(r)' /\ \A u \in Ids \ {r} : Exists(u)' <=> Exists(u)
    BY <1>3, <1>5, <1>6 DEF Exists
  <1>8. /\ Free(row)
        /\ \A q \in Requests \ {r} : Claims(call[q]) => ~ Clash(row, call[q].read)
    BY <1>1, <1>2, <1>3, <1>6 DEF AuthInv, ClaimsHold, Claims, Inserts
  <1>9. /\ OnlyMoves(r) /\ call'[r].pc \in {"done", "lastLogin"}
        /\ call'[r].op = call[r].op
        /\ call'[r].op = "register" => call'[r].pc = "done" /\ answer'[r] = 201
    <2>1. CASE call[r].op = "register"
      BY <1>1, <2>1, ReplyIs DEF Commit, ReplyAndRelease, AuthInv
    <2>2. CASE call[r].op # "register"
      BY <1>1, <2>2, KeepIs DEF Commit, AuthInv, GoesTo, GoesAs
    <2> QED
      BY <2>1, <2>2
  <1>10. Accounts'
    <2>1. \A u, w \in Ids : Exists(u)' /\ Exists(w)' /\ u # w => ~ Clash(users'[u], users'[w])
      BY <1>5, <1>7, <1>8 DEF AuthInv, Accounts, Free, Clash
    <2>2. \A u \in Ids : Exists(u)' => users'[u].email \in Normal
      BY <1>3, <1>5, <1>7 DEF AuthInv, Accounts
    <2>3. WholeAccount'
      BY <1>3, <1>5, <1>7 DEF AuthInv, Accounts, WholeAccount, Needed
    <2> QED
      BY <1>1, <1>5, <2>1, <2>2, <2>3 DEF AuthInv, Accounts, Clash
  <1>11. \A q \in Requests \ {r} : call'[q] = call[q] /\ answer'[q] = answer[q]
    BY <1>9 DEF OnlyMoves
  <1>12. ClaimsHold'
    <2>1. ~ Claims(call'[r])
      BY <1>9 DEF Claims, Inserts
    <2>2. \A q \in Requests : Claims(call'[q]) => q # r /\ call'[q] = call[q] /\ Claims(call[q])
      BY <1>11, <2>1
    <2>3. ASSUME NEW q \in Requests, Claims(call'[q]), NEW u \in Ids, Exists(u)'
          PROVE  ~ Clash(call'[q].read, users'[u])
      <3>1. CASE u = r
        BY <1>5, <1>8, <2>2, <2>3, <3>1 DEF Clash
      <3>2. CASE u # r
        BY <1>5, <1>7, <2>2, <2>3, <3>2 DEF AuthInv, ClaimsHold, Free
      <3> QED
        BY <3>1, <3>2
    <2>4. \A q \in Requests : Claims(call'[q]) =>
             \A p \in Requests \ {q} : Claims(call'[p]) => ~ Clash(call'[q].read, call'[p].read)
      BY <2>2 DEF AuthInv, ClaimsHold
    <2> QED
      BY <2>3, <2>4 DEF ClaimsHold, Free, Claims, Clash
  <1>13. Consistent(r, call[r])'
    BY <1>4, <1>7, <1>9 DEF Consistent, NotYetThere, Operation, Prepared, AnswerIsTrue, SignUp,
                            Prepares, Inserts
  <1>14. ASSUME NEW q \in Requests \ {r}
         PROVE  Consistent(q, call[q])'
    <2>1. q \in Ids /\ Consistent(q, call[q])
      BY OldIsNoRequest DEF AuthInv
    <2> QED
      BY <1>7, <1>11, <2>1
         DEF Consistent, NotYetThere, Operation, Prepared, AnswerIsTrue, Needed
  <1> QED
    BY <1>9, <1>10, <1>12, <1>13, <1>14 DEF AuthInv, OnlyMoves

LEMMA RollbackOK ==
  ASSUME AuthInv, NEW r \in Requests, Rollback(r)
  PROVE  AuthInv'
  <1>1. r \in InFlight /\ KeysStay
    BY SameUsers DEF Rollback, InFlight, At
  <1> QED
    BY <1>1, ReplyOK DEF Rollback, ReplyAndRelease

-----------------------------------------------------------------------------
(* What is sent to the pool                                                *)

(* One account is changed in what it is not told apart by.                 *)
LEMMA OneRow ==
  ASSUME AuthInv, NEW x, NEW row, users' = [users EXCEPT ![x] = row], freePlans' = freePlans,
         x \in Ids => /\ row \in AccountRow
                      /\ row.email = users[x].email /\ row.cpf = users[x].cpf
                      /\ row.google = users[x].google /\ row.rows = users[x].rows
  PROVE  KeysStay
  BY DEF KeysStay, AuthInv, Accounts

(* The columns that login, deletion, reactivation and updates write.       *)
LEMMA ColumnsOfARow ==
  ASSUME NEW old \in AccountRow, NEW row, NEW n \in Nat, NEW flag \in BOOLEAN, NEW gone \in BOOLEAN,
         NEW r \in Requests,
         \/ row = [old EXCEPT !.failed = n]
         \/ row = [old EXCEPT !.active = flag]
         \/ row = [old EXCEPT !.deleted = gone, !.active = flag]
         \/ row = [old EXCEPT !.profile = r]
         \/ row = [old EXCEPT !.preferences = r]
  PROVE  /\ row \in AccountRow /\ row.email = old.email /\ row.cpf = old.cpf
         /\ row.google = old.google /\ row.rows = old.rows
  BY DEF AccountRow

LEMMA LoginOK ==
  ASSUME AuthInv, NEW r \in Requests,
         \/ FindUser(r) \/ AddAttempt(r) \/ ReadAttempts(r) \/ Block(r)
         \/ LastLogin(r) \/ ResetAttempts(r)
  PROVE  AuthInv'
  <1>1. r \in InFlight /\ freePlans' = freePlans
    BY DEF FindUser, AddAttempt, ReadAttempts, Block, LastLogin, ResetAttempts, FromPool,
           InFlight, At, OnlyReads, tables
  <1>2. call[r].op # "register"
    BY DEF FindUser, AddAttempt, ReadAttempts, Block, LastLogin, ResetAttempts, FromPool,
           At, AuthInv, Consistent, Operation, SignUp, Prepares, Inserts
  <1>3. CASE FindUser(r) \/ ReadAttempts(r) \/ LastLogin(r)
    <2>1. KeysStay
      BY <1>3, SameUsers DEF FindUser, ReadAttempts, LastLogin, OnlyReads, tables
    <2>2. \/ Reply(r, 401)
          \/ \E label \in {"lastLogin", "addAttempt", "block", "resetAttempts"} :
                Goto(r, label) \/ \E read : Keep(r, read, label)
      BY <1>3 DEF FindUser, ReadAttempts, LastLogin
    <2>3. \A label \in {"lastLogin", "addAttempt", "block", "resetAttempts"} :
             label \notin SignUp \cup {"idle"}
      BY DEF SignUp, Prepares, Inserts
    <2> QED
      BY <1>1, <1>2, <2>1, <2>2, <2>3, ReplyOK, OutsideGotoOK
  <1>4. CASE AddAttempt(r)
    <2>1. KeysStay
      <3>1. PICK row : row = [users[call[r].read] EXCEPT !.failed = @ + 1]
        OBVIOUS
      <3>2. users' = [users EXCEPT ![call[r].read] = row]
        BY <1>4, <3>1 DEF AddAttempt
      <3>3. call[r].read \in Ids => users[call[r].read] \in AccountRow
        BY DEF AuthInv, Accounts
      <3> QED
        <4>1. call[r].read \in Ids => users[call[r].read].failed + 1 \in Nat
          BY <3>3 DEF AccountRow
        <4> QED
          BY <1>1, <3>1, <3>2, <3>3, <4>1, OneRow, ColumnsOfARow
    <2> QED
      BY <1>1, <1>2, <1>4, <2>1, OutsideGotoOK DEF AddAttempt, SignUp, Prepares, Inserts
  <1>5. CASE Block(r)
    <2>1. KeysStay
      <3>1. PICK row : row = [users[call[r].read] EXCEPT !.active = FALSE]
        OBVIOUS
      <3>2. users' = [users EXCEPT ![call[r].read] = row]
        BY <1>5, <3>1 DEF Block
      <3>3. call[r].read \in Ids => users[call[r].read] \in AccountRow
        BY DEF AuthInv, Accounts
      <3> QED
        BY <1>1, <3>1, <3>2, <3>3, OneRow, ColumnsOfARow
    <2> QED
      BY <1>1, <1>5, <2>1, ReplyOK DEF Block
  <1>6. CASE ResetAttempts(r)
    <2>1. KeysStay
      <3>1. PICK row : row = [users[call[r].read] EXCEPT !.failed = 0]
        OBVIOUS
      <3>2. users' = [users EXCEPT ![call[r].read] = row]
        BY <1>6, <3>1 DEF ResetAttempts
      <3>3. call[r].read \in Ids => users[call[r].read] \in AccountRow
        BY DEF AuthInv, Accounts
      <3> QED
        BY <1>1, <3>1, <3>2, <3>3, OneRow, ColumnsOfARow
    <2> QED
      BY <1>1, <1>6, <2>1, ReplyOK DEF ResetAttempts, ReplyAndRelease
  <1> QED
    BY <1>3, <1>4, <1>5, <1>6

LEMMA WithTokenOK ==
  ASSUME AuthInv, NEW r \in Requests,
         \/ RefreshToken(r) \/ Me(r) \/ DeleteAccount(r) \/ ReactivateAccount(r)
         \/ UpdateProfile(r) \/ ReadProfile(r) \/ UpdatePreferences(r)
  PROVE  AuthInv'
  <1>1. r \in InFlight /\ freePlans' = freePlans
    BY DEF RefreshToken, Me, DeleteAccount, ReactivateAccount, UpdateProfile, ReadProfile,
           UpdatePreferences, FromPool, InFlight, At, OnlyReads, tables
  <1>2. CASE RefreshToken(r) \/ Me(r) \/ ReadProfile(r)
    <2>1. KeysStay
      BY <1>2, SameUsers DEF RefreshToken, Me, ReadProfile, OnlyReads, tables
    <2>2. PICK status \in {200, 401, 404, 500} : Reply(r, status)
      BY <1>2 DEF RefreshToken, Me, ReadProfile
    <2> QED
      BY <1>1, <2>1, <2>2, ReplyOK
  <1>3. CASE DeleteAccount(r)
    <2>1. PICK row : row = [users[call[r].id] EXCEPT !.deleted = TRUE, !.active = FALSE]
      OBVIOUS
    <2>2. KeysStay
      <3>1. users' = users \/ users' = [users EXCEPT ![call[r].id] = row]
        BY <1>3, <2>1 DEF DeleteAccount
      <3>2. call[r].id \in Ids => users[call[r].id] \in AccountRow
        BY DEF AuthInv, Accounts
      <3>3. CASE users' = users
        BY <1>1, <3>3, SameUsers
      <3>4. CASE users' = [users EXCEPT ![call[r].id] = row]
        BY <1>1, <2>1, <3>2, <3>4, OneRow, ColumnsOfARow
      <3> QED
        BY <3>1, <3>3, <3>4
    <2> QED
      BY <1>1, <1>3, <2>2, ReplyOK DEF DeleteAccount
  <1>4. CASE ReactivateAccount(r)
    <2>1. PICK row : row = [users[call[r].id] EXCEPT !.deleted = FALSE, !.active = TRUE]
      OBVIOUS
    <2>2. KeysStay
      <3>1. users' = users \/ users' = [users EXCEPT ![call[r].id] = row]
        BY <1>4, <2>1 DEF ReactivateAccount
      <3>2. call[r].id \in Ids => users[call[r].id] \in AccountRow
        BY DEF AuthInv, Accounts
      <3>3. CASE users' = users
        BY <1>1, <3>3, SameUsers
      <3>4. CASE users' = [users EXCEPT ![call[r].id] = row]
        BY <1>1, <2>1, <3>2, <3>4, OneRow, ColumnsOfARow
      <3> QED
        BY <3>1, <3>3, <3>4
    <2> QED
      BY <1>1, <1>4, <2>2, ReplyOK DEF ReactivateAccount
  <1>5. CASE UpdateProfile(r)
    <2>1. KeysStay
      <3>1. PICK row : row = [users[call[r].id] EXCEPT !.profile = r]
        OBVIOUS
      <3>2. users' = [users EXCEPT ![call[r].id] = row]
        BY <1>5, <3>1 DEF UpdateProfile
      <3>3. call[r].id \in Ids => users[call[r].id] \in AccountRow
        BY DEF AuthInv, Accounts
      <3> QED
        BY <1>1, <3>1, <3>2, <3>3, OneRow, ColumnsOfARow
    <2>2. call[r].op # "register"
      BY <1>5 DEF UpdateProfile, FromPool, At, AuthInv, Consistent, Operation, SignUp, Prepares,
                  Inserts
    <2> QED
      BY <1>1, <1>5, <2>1, <2>2, OutsideGotoOK DEF UpdateProfile, SignUp, Prepares, Inserts
  <1>6. CASE UpdatePreferences(r)
    <2>1. KeysStay
      <3>1. PICK row : row = [users[call[r].id] EXCEPT !.preferences = r]
        OBVIOUS
      <3>2. users' = [users EXCEPT ![call[r].id] = row]
        BY <1>6, <3>1 DEF UpdatePreferences
      <3>3. call[r].id \in Ids => users[call[r].id] \in AccountRow
        BY DEF AuthInv, Accounts
      <3> QED
        BY <1>1, <3>1, <3>2, <3>3, OneRow, ColumnsOfARow
    <2> QED
      BY <1>1, <1>6, <2>1, ReplyOK DEF UpdatePreferences
  <1> QED
    BY <1>2, <1>3, <1>4, <1>5, <1>6

-----------------------------------------------------------------------------
(* Errors                                                                  *)

(* The process ends: what was in flight is gone, and so are the claims.    *)
LEMMA ExitOK ==
  ASSUME AuthInv, Exit
  PROVE  AuthInv'
  <1>1. KeysStay /\ answer' = answer /\ alone' = alone
    BY SameUsers DEF Exit
  <1>2. Accounts' /\ \A u \in Ids : Exists(u)' <=> Exists(u)
    BY <1>1, AccountsStay
  <1>3. ASSUME NEW r \in Requests
        PROVE  /\ IsLocals(call'[r]) /\ call'[r].pc \in {"idle", "done"}
               /\ call'[r].op = call[r].op
               /\ call'[r] = call[r] \/ call'[r].pc = "done"
               /\ call'[r].pc = "idle" => call[r].pc = "idle"
    <2>1. CASE r \in InFlight
      <3>1. call'[r] = Done(call[r].op)
        BY <2>1 DEF Exit
      <3> QED
        BY <3>1, DoneLocals
    <2>2. CASE r \notin InFlight
      <3>1. call'[r] = call[r]
        BY <2>2 DEF Exit
      <3> QED
        BY <2>2, <3>1 DEF InFlight, At, AuthInv, HandlersOK
    <2> QED
      BY <2>1, <2>2
  <1>4. HandlersOK'
    <2>1. call' = [r \in Requests |-> call'[r]]
      BY DEF Exit
    <2>2. \A r \in Requests : call'[r].pc # "done" => answer[r] = Pending
      BY <1>3 DEF AuthInv, HandlersOK
    <2> QED
      BY <1>1, <1>3, <2>1, <2>2 DEF AuthInv, HandlersOK
  <1>5. ClaimsHold'
    BY <1>3 DEF ClaimsHold, Claims, Inserts
  <1>6. ASSUME NEW r \in Requests
        PROVE  Consistent(r, call[r])'
    <2>1. r \in Ids /\ Consistent(r, call[r])
      BY OldIsNoRequest DEF AuthInv
    <2>2. NotYetThere(r, call[r])'
      BY <1>2, <1>3, <2>1 DEF Consistent, NotYetThere, SignUp, Prepares, Inserts
    <2>3. Operation(call[r])' /\ Prepared(call[r])'
      BY <1>3, <2>1 DEF Consistent, Operation, Prepared, SignUp, Prepares, Inserts
    <2>4. AnswerIsTrue(r, call[r])'
      BY <1>1, <1>2, <1>3, <2>1 DEF Consistent, AnswerIsTrue
    <2> QED
      BY <2>2, <2>3, <2>4 DEF Consistent
  <1> QED
    BY <1>2, <1>4, <1>5, <1>6 DEF AuthInv

LEMMA TimeoutOK ==
  ASSUME AuthInv, NEW r \in Requests, Timeout(r)
  PROVE  AuthInv'
  <1>1. r \in InFlight
    BY DEF Timeout, InFlight
  <1>2. CASE Exit
    BY <1>2, ExitOK
  <1>3. CASE /\ UNCHANGED <<users, freePlans>>
             /\ \E status \in {401, 500} : Reply(r, status)
    <2>1. KeysStay
      BY <1>3, SameUsers
    <2> QED
      BY <1>1, <1>3, <2>1, ReplyOK
  <1> QED
    BY <1>2, <1>3 DEF Timeout, ReplyAndRelease, tables

LEMMA FailOK ==
  ASSUME AuthInv, NEW r \in Requests, Fail(r)
  PROVE  AuthInv'
  <1>1. r \in InFlight
    BY DEF Fail
  <1>2. CASE Exit
    BY <1>2, ExitOK
  <1>3. CASE /\ UNCHANGED <<users, freePlans>>
             /\ \E status \in {401, 500} : FailWith(r, status)
    <2>1. KeysStay
      BY <1>3, SameUsers
    <2> QED
      BY <1>1, <1>3, <2>1, FailWithOK
  <1>4. CASE /\ InTransaction(r) /\ call' = [call EXCEPT ![r].pc = "rollback"]
             /\ UNCHANGED <<answer, alone, tables>>
    <2>1. KeysStay /\ call[r].pc \in Inserts /\ r \in Ids
      BY <1>4, SameUsers, OldIsNoRequest DEF tables, InTransaction, At, Inserts
    <2>2. PICK c : c = [call[r] EXCEPT !.pc = "rollback"]
      OBVIOUS
    <2>3. IsLocals(c) /\ c.pc = "rollback" /\ c.op = call[r].op /\ c.arg = call[r].arg
      BY <2>2, LabelledLocals DEF AuthInv, HandlersOK
    <2>4. answer[r] = Pending
      BY <2>1 DEF AuthInv, HandlersOK, Inserts
    <2>5. call' = [call EXCEPT ![r] = c] /\ answer' = [answer EXCEPT ![r] = answer[r]]
      BY <1>4, <2>2 DEF AuthInv, HandlersOK
    <2>6. OnlyMoves(r) /\ call'[r] = c /\ answer'[r] = Pending
      BY <1>4, <2>3, <2>4, <2>5, MovedOK DEF AuthInv, HandlersOK
    <2>7. Exists(r)' <=> Exists(r)
      BY <2>1, AccountsStay
    <2>8. Consistent(r, call[r])'
      BY <2>1, <2>3, <2>6, <2>7
         DEF AuthInv, Consistent, NotYetThere, Operation, Prepared, AnswerIsTrue, SignUp,
             Prepares, Inserts
    <2> QED
      BY <2>1, <2>3, <2>6, <2>8, NoClaimOK DEF Inserts
  <1> QED
    BY <1>2, <1>3, <1>4 DEF Fail, tables

-----------------------------------------------------------------------------
(* The first theorems                                                      *)

LEMMA StutterOK ==
  ASSUME AuthInv, UNCHANGED vars
  PROVE  AuthInv'
  <1>1. /\ call' = call /\ answer' = answer /\ alone' = alone
        /\ users' = users /\ freePlans' = freePlans
    BY DEF vars, handlers, tables
  <1>2. HandlersOK' /\ Accounts' /\ ClaimsHold'
    BY <1>1 DEF AuthInv, HandlersOK, Accounts, WholeAccount, ClaimsHold, Free, Exists
  <1>3. \A r \in Requests : Consistent(r, call[r])'
    BY <1>1 DEF AuthInv, Consistent, NotYetThere, Operation, Prepared, AnswerIsTrue, Exists
  <1> QED
    BY <1>2, <1>3 DEF AuthInv

LEMMA StepOK ==
  ASSUME AuthInv, NEW r \in Requests, Step(r)
  PROVE  AuthInv'
  <1>1. CASE \/ Connect(r) \/ CheckEmail(r) \/ CheckCpf(r) \/ FreePlan(r) \/ InsertPlan(r)
             \/ Insert(r) \/ Commit(r) \/ Rollback(r) \/ FindOrCreate(r)
    BY <1>1, ConnectOK, CheckEmailOK, CheckCpfOK, PlanOK, InsertOK, CommitOK, RollbackOK,
       FindOrCreateOK
  <1>2. CASE \/ FindUser(r) \/ AddAttempt(r) \/ ReadAttempts(r) \/ Block(r)
             \/ LastLogin(r) \/ ResetAttempts(r)
    BY <1>2, LoginOK
  <1>3. CASE \/ RefreshToken(r) \/ Me(r) \/ DeleteAccount(r) \/ ReactivateAccount(r)
             \/ UpdateProfile(r) \/ ReadProfile(r) \/ UpdatePreferences(r)
    BY <1>3, WithTokenOK
  <1> QED
    BY <1>1, <1>2, <1>3 DEF Step

THEOREM AuthInvHolds == Spec => []AuthInv
  <1>1. Init => AuthInv
    BY InitAuth
  <1>2. AuthInv /\ [Next]_vars => AuthInv'
    BY ArrivalOK, StepOK, TimeoutOK, FailOK, StutterOK DEF Next, Quiet
  <1> QED
    BY <1>1, <1>2, PTL DEF Spec

(* An account other requests can see has all of its rows: the inserts of a *)
(* sign-up are seen at its COMMIT, or never.                               *)
THEOREM AccountsAreWhole == Spec => []WholeAccount
  <1>1. AuthInv => WholeAccount
    BY DEF AuthInv, Accounts
  <1> QED
    BY <1>1, AuthInvHolds, PTL

(* However many sign-ups overlap, by either way and with any spelling, a   *)
(* mailbox has one account.                                                *)
THEOREM MailboxHasOneAccount == Spec => []OneAccountPerMailbox
  <1>1. AuthInv => OneAccountPerMailbox
    <2> SUFFICES ASSUME AuthInv, NEW u \in Ids, NEW w \in Ids, Exists(u), Exists(w),
                        users[u].email.box = users[w].email.box
                 PROVE  u = w
      BY DEF OneAccountPerMailbox
    <2>1. users[u].email \in Normal /\ users[w].email \in Normal
      BY DEF AuthInv, Accounts
    <2>2. users[u].email = users[w].email
      BY <2>1, SameBoxSameEmail
    <2> QED
      BY <2>2 DEF AuthInv, Accounts, Clash
  <1> QED
    BY <1>1, AuthInvHolds, PTL

(* What register answers is true of the tables, from then on.              *)
THEOREM RegisterTellsTheTruth == Spec => []RegisterAnswerIsTrue
  <1>1. AuthInv => RegisterAnswerIsTrue
    BY DEF AuthInv, Consistent, AnswerIsTrue, RegisterAnswerIsTrue
  <1> QED
    BY <1>1, AuthInvHolds, PTL

-----------------------------------------------------------------------------
(* The block, by a second invariant, which AuthInv supports                *)

(* The labels of a login, up to its block, and of what follows a good one. *)
TriesPassword == {"findUser", "addAttempt", "readAttempts", "block"}
SignsIn == {"lastLogin", "resetAttempts"}

(* A login knows an account that is there; a sign-up brings a new one.     *)
Attempted(c) ==
    /\ c.pc \in TriesPassword => c.op = "login"
    /\ c.pc \in SignsIn => c.op \in {"login", "google"}
    /\ c.pc \in {"addAttempt", "readAttempts", "block"} \cup SignsIn =>
          c.read \in Ids /\ Exists(c.read)
    /\ c.pc \in Prepares \cup Inserts => c.read.active /\ ~ c.read.deleted /\ c.read.failed = 0

(* A login that knew the password, and overlapped another, reset a counter.*)
ResetOverlapped == \E r \in Overlapped : call[r].op \in {"login", "google"} /\ answer[r] = 200

Counting(c, u) == c.pc \in {"readAttempts", "block"} /\ c.read = u
Blocking(c, u) == c.pc = "block" /\ c.read = u
Resetting(c, u) == c.pc \in SignsIn /\ c.read = u
Few(u) == users[u].failed < MaxAttempts

(* With five attempts, somebody is about to block the account; whoever     *)
(* resets the counter of a blocked one had found it active, and so         *)
(* overlapped the request that blocked it; and one with fewer is active,   *)
(* and about to be blocked by nobody, unless there was such a request.     *)
Explained(u) ==
    /\ users[u].active => Few(u) \/ \E r \in Requests : Counting(call[r], u)
    /\ ~ users[u].active => \A r \in Requests : Resetting(call[r], u) => r \in Overlapped
    /\ Few(u) /\ ~ ResetOverlapped =>
          users[u].active /\ \A r \in Requests : ~ Blocking(call[r], u)

Standing == Live \ reactivated

BlockInv == BrokenOff \/ \A u \in Standing : Explained(u)

LockInv == Solo /\ (\A r \in Requests : Attempted(call[r])) /\ BlockInv

LEMMA LockInvInit == Init => LockInv
  <1> SUFFICES ASSUME Init PROVE LockInv
    OBVIOUS
  <1>1. \A r \in Requests : call[r].pc = "idle"
    BY DEF Init, HandlersInit, Idle
  <1>2. Solo
    BY DEF Init, HandlersInit, Solo
  <1>3. \A r \in Requests : Attempted(call[r])
    BY <1>1 DEF Attempted, TriesPassword, SignsIn, Prepares, Inserts
  <1>4. PICK email \in OldEmails, cpf \in Cpfs, n \in Attempts, google \in BOOLEAN :
          /\ google => cpf = NoCpf
          /\ users = [u \in Ids |-> IF u # Old THEN NoAccount ELSE
                         [Account(normalizeEmail(email), cpf, google)
                             EXCEPT !.plan = TRUE, !.rows = TableNames, !.failed = n]]
    BY Zenon DEF Init
  <1>5. ~ ("users" \in NoAccount.rows)
    BY DEF NoAccount
  <1>6. PICK a : a = Account(normalizeEmail(email), cpf, google)
    OBVIOUS
  <1>7. /\ n < MaxAttempts
        /\ [a EXCEPT !.plan = TRUE, !.rows = TableNames, !.failed = n].failed = n
        /\ [a EXCEPT !.plan = TRUE, !.rows = TableNames, !.failed = n].active = TRUE
    BY <1>6, AuthAssumption DEF AuthAssumption, MaxAttempts, Account, NoAccount
  <1>8. ASSUME NEW u \in Live
        PROVE  users[u].active = TRUE /\ Few(u)
    <2>1. u \in Ids /\ "users" \in users[u].rows
      BY DEF Live, Exists
    <2>2. u = Old
      BY <1>4, <1>5, <2>1
    <2> QED
      BY <1>4, <1>6, <1>7, <2>1, <2>2 DEF Few
  <1>9. BlockInv
    BY <1>1, <1>8 DEF BlockInv, Standing, Explained, Blocking
  <1> QED
    BY <1>2, <1>3, <1>9 DEF LockInv

(* What is over stays over.                                                *)
LEMMA BrokenOffStays ==
  ASSUME NEW r \in Requests, OnlyMoves(r), call[r].pc # "done", BrokenOff
  PROVE  BrokenOff'
  BY DEF BrokenOff, On, At, OnlyMoves

LEMMA ResetOverlappedStays ==
  ASSUME HandlersOK, NEW r \in Requests, OnlyMoves(r), call[r].pc # "done",
         Overlapped \subseteq Overlapped', ResetOverlapped
  PROVE  ResetOverlapped'
  <1>1. PICK q \in Overlapped : call[q].op \in {"login", "google"} /\ answer[q] = 200
    BY DEF ResetOverlapped
  <1>2. q # r /\ q \in Requests
    BY <1>1 DEF HandlersOK, Pending, Overlapped
  <1> QED
    BY <1>1, <1>2 DEF OnlyMoves, ResetOverlapped

(* The step of a request from c to d explains of account u what is true of *)
(* it.                                                                     *)
Calm(c, d, u) ==
    /\ Counting(c, u) => Few(u) \/ Counting(d, u)
    /\ Blocking(d, u) => Blocking(c, u) \/ ~ Few(u)
    /\ Resetting(d, u) => Resetting(c, u) \/ users[u].active

LEMMA ExplainedStays ==
  ASSUME HandlersOK, NEW r \in Requests, OnlyMoves(r), call[r].pc # "done",
         Overlapped \subseteq Overlapped', NEW u, Explained(u),
         users'[u].active = users[u].active, users'[u].failed = users[u].failed,
         Calm(call[r], call'[r], u)
  PROVE  Explained(u)'
  <1>1. Few(u)' <=> Few(u)
    BY DEF Few
  <1>2. \A q \in Requests \ {r} : call'[q] = call[q]
    BY DEF OnlyMoves
  <1>3. users[u].active /\ ~ Few(u) => \E q \in Requests : Counting(call'[q], u)
    BY <1>2 DEF Explained, Calm
  <1>4. ~ users[u].active => \A q \in Requests : Resetting(call'[q], u) => q \in Overlapped'
    BY <1>2 DEF Explained, Calm
  <1>5. ResetOverlapped => ResetOverlapped'
    BY ResetOverlappedStays
  <1>6. Few(u) /\ ~ ResetOverlapped' =>
           users[u].active /\ \A q \in Requests : ~ Blocking(call'[q], u)
    BY <1>2, <1>5 DEF Explained, Calm
  <1> QED
    BY <1>1, <1>3, <1>4, <1>6 DEF Explained, Counting, Resetting, Blocking

(* Account u stood before, and looked to the block as it does now.         *)
Unchanged(u) ==
    /\ u \in Standing
    /\ users'[u].active = users[u].active /\ users'[u].failed = users[u].failed

BlockStays ==
    /\ \A u \in Ids : Exists(u) => Exists(u)'
    /\ \A u \in Standing' : Unchanged(u)

LEMMA SameBlock ==
  ASSUME AuthInv, users' = users, reactivated' = reactivated
  PROVE  BlockStays
  BY DEF BlockStays, Unchanged, Standing, Live, Exists

(* A request in flight goes on, or ends.                                   *)
LEMMA OverlappedStays ==
  ASSUME HandlersOK, LockInv, NEW r \in InFlight, OnlyMoves(r), call'[r].pc # "idle", alone' = alone
  PROVE  /\ r \in Requests /\ call[r].pc # "done" /\ Overlapped \subseteq Overlapped' /\ Solo'
         /\ \A q \in InFlight \ {r} : q \in Overlapped /\ r \in Overlapped
  <1>1. r \in Requests /\ call[r].pc # "done" /\ call[r].pc # "idle"
    BY DEF InFlight, At
  <1>2. Solo'
    BY SoloStays DEF LockInv
  <1>3. Overlapped \subseteq Overlapped'
    BY <1>1 DEF Overlapped, OnlyMoves, At
  <1>4. \A q \in InFlight \ {r} : q \in Overlapped /\ r \in Overlapped
    BY <1>1, NoOtherIsAlone DEF LockInv, Overlapped, InFlight, At
  <1> QED
    BY <1>1, <1>2, <1>3, <1>4

LEMMA AttemptedStays ==
  ASSUME LockInv, NEW r \in Requests, OnlyMoves(r), \A u \in Ids : Exists(u) => Exists(u)',
         Attempted(call[r])'
  PROVE  (\A q \in Requests : Attempted(call[q]))'
  <1> SUFFICES ASSUME NEW q \in Requests \ {r}
               PROVE  Attempted(call[q])'
    OBVIOUS
  <1>1. call'[q] = call[q] /\ Attempted(call[q])
    BY DEF OnlyMoves, LockInv
  <1> QED
    BY <1>1 DEF Attempted

(* A request goes on: of each account, the step explains what it changes.  *)
LEMMA LockMoves ==
  ASSUME AuthInv, LockInv, NEW r \in Requests, OnlyMoves(r), call[r].pc # "done",
         Overlapped \subseteq Overlapped', Solo', \A u \in Ids : Exists(u) => Exists(u)',
         Attempted(call[r])',
         \/ BrokenOff \/ BrokenOff'
         \/ \A u \in Standing' : \/ Explained(u)'
                                 \/ Unchanged(u) /\ Calm(call[r], call'[r], u)
  PROVE  LockInv'
  <1>1. (\A q \in Requests : Attempted(call[q]))'
    BY AttemptedStays
  <1>2. BlockInv'
    <2>1. CASE BrokenOff
      BY <2>1, BrokenOffStays DEF BlockInv
    <2>2. CASE BrokenOff'
      BY <2>2 DEF BlockInv
    <2>3. CASE ~ BrokenOff /\ ~ BrokenOff'
      <3>1. ASSUME NEW u \in Standing'
            PROVE  Explained(u)'
        <4>1. CASE Unchanged(u) /\ Calm(call[r], call'[r], u)
          <5>1. Explained(u) /\ users'[u].active = users[u].active
                /\ users'[u].failed = users[u].failed
            BY <2>3, <4>1 DEF LockInv, BlockInv, Unchanged
          <5> QED
            BY <4>1, <5>1, ExplainedStays DEF AuthInv
        <4> QED
          BY <2>3, <3>1, <4>1
      <3> QED
        BY <3>1 DEF BlockInv
    <2> QED
      BY <2>1, <2>2, <2>3
  <1> QED
    BY <1>1, <1>2 DEF LockInv

LEMMA LockStays ==
  ASSUME AuthInv, LockInv, NEW r \in InFlight, OnlyMoves(r), call'[r].pc # "idle", alone' = alone,
         BlockStays, Attempted(call[r])',
         BrokenOff' \/ \A u \in Standing : Calm(call[r], call'[r], u)
  PROVE  LockInv'
  <1>1. r \in Requests /\ call[r].pc # "done" /\ Overlapped \subseteq Overlapped' /\ Solo'
    BY OverlappedStays DEF AuthInv
  <1>2. BrokenOff' \/ \A u \in Standing' : Unchanged(u) /\ Calm(call[r], call'[r], u)
    BY DEF BlockStays, Unchanged
  <1> QED
    BY <1>1, <1>2, LockMoves DEF BlockStays

(* The labels neither Attempted nor Explained mention.                     *)
Elsewhere(label) == label \notin TriesPassword \cup SignsIn \cup Prepares \cup Inserts \cup {"idle"}

LEMMA DoneIsElsewhere == Elsewhere("done")
  BY DEF Elsewhere, TriesPassword, SignsIn, Prepares, Inserts

(* A request that counts no attempt goes on, to where it counts and resets *)
(* none, or ends; or a login ends that counted few.                        *)
LEMMA LockElsewhere ==
  ASSUME AuthInv, LockInv, NEW r \in InFlight, OnlyMoves(r), alone' = alone, BlockStays,
         Elsewhere(call'[r].pc),
         BrokenOff' \/ \A u \in Standing : Counting(call[r], u) => Few(u)
  PROVE  LockInv'
  <1>1. Attempted(call[r])' /\ call'[r].pc # "idle"
    BY DEF Attempted, Elsewhere, TriesPassword, SignsIn
  <1>2. \A u : ~ Blocking(call'[r], u) /\ ~ Resetting(call'[r], u)
    BY DEF Blocking, Resetting, Elsewhere, TriesPassword, SignsIn
  <1> QED
    BY <1>1, <1>2, LockStays DEF Calm

(* Wherever r is, it counts nothing there.                                 *)
LEMMA CountsNothing ==
  ASSUME NEW c, c.pc \notin {"readAttempts", "block"}
  PROVE  \A u : Counting(c, u) => Few(u)
  BY DEF Counting

LEMMA LockReply ==
  ASSUME AuthInv, LockInv, NEW r \in InFlight, NEW status, Reply(r, status), BlockStays,
         \A u \in Standing : Counting(call[r], u) => Few(u)
  PROVE  LockInv'
  <1>1. OnlyMoves(r) /\ call'[r].pc = "done" /\ alone' = alone
    BY ReplyIs DEF AuthInv, InFlight
  <1> QED
    BY <1>1, LockElsewhere, DoneIsElsewhere

(* A login that ends with an error is broken off; no other counts.         *)
LEMMA LockError ==
  ASSUME AuthInv, LockInv, NEW r \in InFlight, NEW status,
         Reply(r, status) \/ FailWith(r, status), call[r].op = "login" => status = 500,
         users' = users, reactivated' = reactivated
  PROVE  LockInv'
  <1>1. /\ OnlyMoves(r) /\ call'[r].pc = "done" /\ call'[r].op = call[r].op
        /\ answer'[r] = status /\ alone' = alone /\ r \in Requests
    BY ReplyIs, FailIs DEF AuthInv, InFlight
  <1>2. CASE call[r].op = "login"
    <2>1. On(r, "login", "done")' /\ answer'[r] \notin {200, 400, 401}
      BY <1>1, <1>2 DEF On, At
    <2>2. BrokenOff'
      BY <1>1, <2>1 DEF BrokenOff
    <2> QED
      BY <1>1, <2>2, LockElsewhere, SameBlock, DoneIsElsewhere
  <1>3. CASE call[r].op # "login"
    <2>1. call[r].pc \notin {"readAttempts", "block"}
      BY <1>1, <1>3 DEF LockInv, Attempted, TriesPassword
    <2>2. \A u \in Standing : Counting(call[r], u) => Few(u)
      BY <2>1 DEF Counting
    <2> QED
      BY <1>1, <2>2, LockElsewhere, SameBlock, DoneIsElsewhere
  <1> QED
    BY <1>2, <1>3

-----------------------------------------------------------------------------
(* Arrivals and sign-up change no account                                  *)

LEMMA LockArrival ==
  ASSUME AuthInv, LockInv, NEW r \in Requests, Arrival(r)
  PROVE  LockInv'
  <1>1. BlockStays /\ HandlersOK /\ Solo
    BY SameBlock DEF Arrival, tables, AuthInv, LockInv
  <1>2. ASSUME NEW label, NEW op, NEW id, NEW arg, Arrive(r, label, op, id, arg),
               label = "findUser" => op = "login",
               label = "findUser" \/ Elsewhere(label), label # "done"
        PROVE  LockInv'
    <2>1. /\ OnlyMoves(r) /\ call[r].pc = "idle" /\ call'[r].pc = label /\ call'[r].op = op
      BY <1>1, <1>2, ArriveIs DEF GoesAs
    <2>2. label \notin {"idle", "done"}
      BY <1>2 DEF Elsewhere
    <2>3. Solo' /\ alone' \subseteq alone \cup {r} /\ \A q \in InFlight : q \notin alone'
      BY <1>1, <1>2, <2>2, SoloArrive
    <2>4. Overlapped \subseteq Overlapped'
      BY <2>1, <2>3 DEF Overlapped, OnlyMoves, At
    <2>5. Attempted(call[r])'
      BY <1>2, <2>1 DEF Attempted, Elsewhere, TriesPassword, SignsIn, Prepares, Inserts
    <2>6. \A u : Calm(call[r], call'[r], u)
      BY <1>2, <2>1 DEF Calm, Counting, Blocking, Resetting, Elsewhere, TriesPassword, SignsIn
    <2>7. /\ \A u \in Ids : Exists(u) => Exists(u)'
          /\ \A u \in Standing' : Unchanged(u)
      BY <1>1 DEF BlockStays
    <2> QED
      BY <2>1, <2>3, <2>4, <2>5, <2>6, <2>7, LockMoves
  <1>3. ASSUME NEW op, NEW status, Refuse(r, op, status)
        PROVE  LockInv'
    <2>1. OnlyMoves(r) /\ call'[r].pc = "done" /\ alone' = alone
      BY <1>1, <1>3, RefuseIs
    <2>2. call[r].pc = "idle"
      BY <1>3 DEF Refuse, At
    <2>3. Solo'
      BY <1>1, <2>1, <2>2, SoloRefuse
    <2>4. Overlapped \subseteq Overlapped'
      BY <2>1, <2>2 DEF Overlapped, OnlyMoves, At
    <2>5. Attempted(call[r])'
      BY <2>1 DEF Attempted, TriesPassword, SignsIn, Prepares, Inserts
    <2>6. \A u : Calm(call[r], call'[r], u)
      BY <2>1, <2>2 DEF Calm, Counting, Blocking, Resetting, SignsIn
    <2>7. /\ \A u \in Ids : Exists(u) => Exists(u)'
          /\ \A u \in Standing' : Unchanged(u)
      BY <1>1 DEF BlockStays
    <2> QED
      BY <2>1, <2>2, <2>3, <2>4, <2>5, <2>6, <2>7, LockMoves
  <1>4. CASE Register(r)
    <2>1. Elsewhere("connect")
      BY DEF Elsewhere, TriesPassword, SignsIn, Prepares, Inserts
    <2> QED
      BY <1>2, <1>3, <1>4, <2>1 DEF Register
  <1>5. CASE GoogleSignIn(r)
    <2>1. Elsewhere("connect")
      BY DEF Elsewhere, TriesPassword, SignsIn, Prepares, Inserts
    <2> QED
      BY <1>2, <1>3, <1>5, <2>1 DEF GoogleSignIn
  <1>6. CASE Login(r)
    BY <1>2, <1>3, <1>6 DEF Login
  <1>7. CASE WithToken(r)
    <2>1. \A op \in {"refreshToken", "me", "deleteAccount", "reactivateAccount",
                     "updateProfile", "updatePreferences"} : Elsewhere(op) /\ op # "done"
      BY DEF Elsewhere, TriesPassword, SignsIn, Prepares, Inserts
    <2> QED
      BY <1>2, <1>3, <1>7, <2>1 DEF WithToken, Unauthenticated
  <1> QED
    BY <1>4, <1>5, <1>6, <1>7 DEF Arrival

(* A sign-up goes on with the row of an account that is new.               *)
LEMMA LockPrepares ==
  ASSUME AuthInv, LockInv, NEW r \in InFlight, OnlyMoves(r), alone' = alone,
         call[r].pc \in SignUp, call'[r].pc \in Prepares \cup Inserts,
         call'[r].read.active, ~ call'[r].read.deleted, call'[r].read.failed = 0,
         users' = users, reactivated' = reactivated
  PROVE  LockInv'
  <1>1. Attempted(call[r])' /\ call'[r].pc # "idle"
    BY DEF Attempted, TriesPassword, SignsIn, Prepares, Inserts
  <1>2. \A u : Calm(call[r], call'[r], u)
    BY DEF Calm, Counting, Blocking, Resetting, SignUp, SignsIn, Prepares, Inserts
  <1> QED
    BY <1>1, <1>2, SameBlock, LockStays

LEMMA FreshAccount ==
  ASSUME NEW email, NEW cpf, NEW google, NEW a, a = Account(email, cpf, google)
  PROVE  a.active /\ ~ a.deleted /\ a.failed = 0
  BY DEF Account, NoAccount

LEMMA LockSignUp ==
  ASSUME AuthInv, LockInv, NEW r \in Requests,
         \/ Connect(r) \/ CheckEmail(r) \/ CheckCpf(r) \/ FreePlan(r) \/ InsertPlan(r)
         \/ Insert(r) \/ Rollback(r) \/ FindOrCreate(r)
  PROVE  LockInv'
  <1>1. /\ r \in InFlight /\ users' = users /\ reactivated' = reactivated /\ HandlersOK
        /\ call[r].pc \in SignUp /\ call[r].pc # "done"
    BY DEF Connect, CheckEmail, CheckCpf, FreePlan, InsertPlan, Insert, Rollback, FindOrCreate,
           FromPool, OnlyReads, tables, InFlight, At, AuthInv, SignUp, Prepares, Inserts
  <1>2. BlockStays /\ \A u : Counting(call[r], u) => Few(u)
    BY <1>1, SameBlock, CountsNothing DEF SignUp, Prepares, Inserts
  <1>3. ASSUME NEW status, Reply(r, status)
        PROVE  LockInv'
    BY <1>1, <1>2, <1>3, LockReply
  <1>4. ASSUME NEW label \in {"checkEmail", "find", "rollback"}, Goto(r, label)
        PROVE  LockInv'
    <2>1. OnlyMoves(r) /\ call'[r].pc = label /\ alone' = alone
      BY <1>1, <1>4, GotoIs DEF GoesTo, GoesAs
    <2>2. Elsewhere(label)
      BY DEF Elsewhere, TriesPassword, SignsIn, Prepares, Inserts
    <2> QED
      BY <1>1, <1>2, <2>1, <2>2, LockElsewhere
  <1>5. ASSUME NEW label \in Prepares \cup Inserts, NEW row, Keep(r, row, label),
               row.active, ~ row.deleted, row.failed = 0
        PROVE  LockInv'
    <2>1. OnlyMoves(r) /\ call'[r].pc = label /\ call'[r].read = row /\ alone' = alone
      BY <1>1, <1>5, KeepIs DEF GoesTo, GoesAs
    <2> QED
      BY <1>1, <1>5, <2>1, LockPrepares
  <1>6. ASSUME NEW label \in Prepares \cup Inserts, Goto(r, label), call[r].pc \in Prepares
        PROVE  LockInv'
    <2>1. OnlyMoves(r) /\ call'[r].pc = label /\ call'[r].read = call[r].read /\ alone' = alone
      BY <1>1, <1>6, GotoIs DEF GoesTo, GoesAs
    <2>2. call[r].read.active /\ ~ call[r].read.deleted /\ call[r].read.failed = 0
      BY <1>6 DEF LockInv, Attempted
    <2> QED
      BY <1>1, <2>1, <2>2, LockPrepares
  <1>7. ASSUME call[r].pc \in Prepares \cup Inserts
        PROVE  /\ call[r].read \in AccountRow
               /\ call[r].read.active /\ ~ call[r].read.deleted /\ call[r].read.failed = 0
    BY <1>7 DEF AuthInv, Consistent, Prepared, LockInv, Attempted
  <1>8. CASE Connect(r)
    BY <1>4, <1>8 DEF Connect
  <1>9. CASE CheckEmail(r)
    <2>1. CASE ReplyAndRelease(r, 409)
      BY <1>3, <2>1 DEF ReplyAndRelease
    <2>2. ASSUME NEW label \in Prepares,
                 Keep(r, Account(call[r].arg.email, call[r].arg.cpf, FALSE), label)
          PROVE  LockInv'
      BY <1>5, <2>2, FreshAccount
    <2> QED
      BY <1>9, <2>1, <2>2 DEF CheckEmail, Prepares
  <1>10. CASE CheckCpf(r)
    <2>1. call[r].pc \in Prepares /\ "freePlan" \in Prepares
      BY <1>10 DEF CheckCpf, At, Prepares
    <2> QED
      BY <1>3, <1>6, <1>10, <2>1 DEF CheckCpf, ReplyAndRelease
  <1>11. ASSUME NEW plan, Keep(r, [call[r].read EXCEPT !.plan = plan], "insert"),
                call[r].pc \in Prepares
         PROVE  LockInv'
    <2>1. PICK row : row = [call[r].read EXCEPT !.plan = plan]
      OBVIOUS
    <2>2. row.active /\ ~ row.deleted /\ row.failed = 0
      BY <1>7, <1>11, <2>1 DEF AccountRow
    <2>3. Keep(r, row, "insert")
      BY <1>11, <2>1
    <2> QED
      BY <1>5, <2>2, <2>3 DEF Inserts
  <1>12. CASE FreePlan(r)
    <2>1. call[r].pc \in Prepares /\ "insertPlan" \in Prepares
      BY <1>12 DEF FreePlan, At, Prepares
    <2>2. \/ Goto(r, "insertPlan")
          \/ Keep(r, [call[r].read EXCEPT !.plan = (freePlans # 0)], "insert")
      BY <1>12 DEF FreePlan
    <2> QED
      BY <1>6, <1>11, <2>1, <2>2
  <1>13. CASE InsertPlan(r)
    <2>1. call[r].pc \in Prepares /\ Keep(r, [call[r].read EXCEPT !.plan = TRUE], "insert")
      BY <1>13 DEF InsertPlan, At, Prepares
    <2> QED
      BY <1>11, <2>1
  <1>14. CASE Insert(r)
    <2>1. PICK longer : longer = [call[r].read EXCEPT !.rows = @ \cup {NextTable(r)}]
      OBVIOUS
    <2>2. longer.active /\ ~ longer.deleted /\ longer.failed = 0
      BY <1>7, <1>14, <2>1 DEF AccountRow, Insert, At, Inserts
    <2>3. \/ Goto(r, "rollback")
          \/ Keep(r, longer, IF longer.rows = ToInsert(r) THEN "commit" ELSE "insert")
      BY <1>14, <2>1 DEF Insert
    <2>4. (IF longer.rows = ToInsert(r) THEN "commit" ELSE "insert") \in Inserts
      BY DEF Inserts
    <2> QED
      BY <1>4, <1>5, <2>2, <2>3, <2>4
  <1>15. CASE Rollback(r)
    BY <1>3, <1>15 DEF Rollback, ReplyAndRelease
  <1>16. CASE FindOrCreate(r)
    <2>1. CASE Keep(r, Account(call[r].arg.email, NoCpf, TRUE), "freePlan")
      BY <1>5, <2>1, FreshAccount DEF Prepares
    <2>2. ASSUME NEW u \in WithEmail(call[r].arg.email), users[u].active, Keep(r, u, "lastLogin")
          PROVE  LockInv'
      <3>1. /\ OnlyMoves(r) /\ call'[r].pc = "lastLogin" /\ call'[r].read = u /\ alone' = alone
            /\ call'[r].op = call[r].op
        BY <1>1, <2>2, KeepIs DEF GoesTo, GoesAs
      <3>2. call[r].op = "google"
        BY <1>16 DEF FindOrCreate, At, AuthInv, Consistent, Operation
      <3>3. u \in Ids /\ Exists(u)'
        BY <1>1, <2>2 DEF WithEmail, Live, Exists
      <3>4. Attempted(call[r])'
        BY <3>1, <3>2, <3>3 DEF Attempted, TriesPassword, SignsIn, Prepares, Inserts, Exists
      <3>5. \A w : Calm(call[r], call'[r], w)
        BY <1>2, <2>2, <3>1 DEF Calm, Blocking, Resetting
      <3> QED
        BY <1>1, <1>2, <3>1, <3>4, <3>5, LockStays
    <2>3. CASE ReplyAndRelease(r, 401)
      BY <1>3, <2>3 DEF ReplyAndRelease
    <2> QED
      BY <1>16, <2>1, <2>2, <2>3 DEF FindOrCreate
  <1> QED
    BY <1>8, <1>9, <1>10, <1>12, <1>13, <1>14, <1>15, <1>16

-----------------------------------------------------------------------------
(* Logins                                                                  *)

(* What a login changes of account x, of x the step has to explain.        *)
LEMMA LockChanges ==
  ASSUME AuthInv, LockInv, NEW r \in InFlight, OnlyMoves(r), call'[r].pc # "idle", alone' = alone,
         NEW x \in Ids, NEW row, users' = [users EXCEPT ![x] = row], reactivated' = reactivated,
         row.rows = users[x].rows, row.deleted = users[x].deleted,
         call[r].pc \in {"findUser", "addAttempt", "readAttempts", "block"} \cup SignsIn,
         call[r].read = x,
         Attempted(call'[r]) \/ call'[r].pc = "done",
         call'[r].pc # "done" => call'[r].read = x,
         ~ BrokenOff /\ x \in Standing => Explained(x)'
  PROVE  LockInv'
  <1>1. r \in Requests /\ call[r].pc # "done" /\ Overlapped \subseteq Overlapped' /\ Solo'
    BY OverlappedStays DEF AuthInv
  <1>2. /\ \A u \in Ids : Exists(u)' <=> Exists(u)
        /\ users'[x] = row /\ \A u \in Ids \ {x} : users'[u] = users[u]
    BY DEF AuthInv, Accounts, Exists
  <1>3. Standing' = Standing
    BY <1>2 DEF Standing, Live
  <1>4. Attempted(call[r])'
    <2>1. CASE call'[r].pc = "done"
      BY <2>1 DEF Attempted, TriesPassword, SignsIn, Prepares, Inserts
    <2>2. CASE Attempted(call'[r])
      BY <1>2, <2>2 DEF Attempted
    <2> QED
      BY <2>1, <2>2
  <1>5. ASSUME NEW u \in Standing', ~ BrokenOff
        PROVE  \/ Explained(u)'
               \/ Unchanged(u) /\ Calm(call[r], call'[r], u)
    <2>1. CASE u = x
      BY <1>3, <1>5, <2>1 DEF Explained, Few, Counting, Blocking, Resetting
    <2>2. CASE u # x
      <3>1. Unchanged(u)
        BY <1>2, <1>3, <2>2 DEF Unchanged, Standing, Live
      <3>2. Calm(call[r], call'[r], u)
        BY <2>2 DEF Calm, Counting, Blocking, Resetting, SignsIn
      <3> QED
        BY <3>1, <3>2
    <2> QED
      BY <2>1, <2>2
  <1> QED
    BY <1>1, <1>2, <1>4, <1>5, LockMoves

LEMMA LockFindUser ==
  ASSUME AuthInv, LockInv, NEW r \in Requests, FindUser(r)
  PROVE  LockInv'
  <1>1. /\ r \in InFlight /\ call[r].pc = "findUser" /\ HandlersOK
        /\ users' = users /\ reactivated' = reactivated
    BY DEF FindUser, FromPool, OnlyReads, tables, InFlight, At, AuthInv
  <1>2. BlockStays /\ \A u : Counting(call[r], u) => Few(u)
    BY <1>1, SameBlock, CountsNothing
  <1>3. CASE Reply(r, 401)
    BY <1>1, <1>2, <1>3, LockReply
  <1>4. ASSUME NEW u \in WithEmail(call[r].arg.email), users[u].active,
               NEW label \in {"lastLogin", "addAttempt"}, Keep(r, u, label)
        PROVE  LockInv'
    <2>1. /\ OnlyMoves(r) /\ call'[r].pc = label /\ call'[r].read = u /\ alone' = alone
          /\ call'[r].op = call[r].op
      BY <1>1, <1>4, KeepIs DEF GoesTo, GoesAs
    <2>2. call[r].op = "login"
      BY <1>1 DEF LockInv, Attempted, TriesPassword
    <2>3. u \in Ids /\ Exists(u)'
      BY <1>1, <1>4 DEF WithEmail, Live, Exists
    <2>4. Attempted(call[r])'
      BY <2>1, <2>2, <2>3 DEF Attempted, TriesPassword, SignsIn, Prepares, Inserts, Exists
    <2>5. \A w : Calm(call[r], call'[r], w)
      BY <1>2, <1>4, <2>1 DEF Calm, Blocking, Resetting
    <2> QED
      BY <1>1, <1>2, <2>1, <2>4, <2>5, LockStays
  <1> QED
    BY <1>3, <1>4 DEF FindUser

(* One more attempt, and r is there to count it.                           *)
LEMMA LockAddAttempt ==
  ASSUME AuthInv, LockInv, NEW r \in Requests, AddAttempt(r)
  PROVE  LockInv'
  <1>1. /\ r \in InFlight /\ call[r].pc = "addAttempt" /\ HandlersOK
        /\ reactivated' = reactivated
    BY DEF AddAttempt, FromPool, InFlight, At, AuthInv
  <1>2. PICK x : x = call[r].read
    OBVIOUS
  <1>3. x \in Ids /\ users[x] \in AccountRow /\ call[r].op = "login" /\ Exists(x)
    BY <1>1, <1>2 DEF LockInv, Attempted, AuthInv, Accounts, TriesPassword
  <1>4. PICK row : row = [users[x] EXCEPT !.failed = @ + 1]
    OBVIOUS
  <1>5. /\ users' = [users EXCEPT ![x] = row] /\ row.rows = users[x].rows
        /\ row.deleted = users[x].deleted /\ row.active = users[x].active
        /\ row.failed = users[x].failed + 1 /\ users[x].failed \in Nat
    BY <1>2, <1>3, <1>4 DEF AddAttempt, AccountRow
  <1>6. users'[x] = row
    BY <1>3, <1>5 DEF AuthInv, Accounts
  <1>7. /\ OnlyMoves(r) /\ call'[r].pc = "readAttempts" /\ call'[r].read = x /\ alone' = alone
        /\ call'[r].op = call[r].op
    BY <1>1, <1>2, GotoIs DEF AddAttempt, GoesTo, GoesAs
  <1>8. Attempted(call'[r])
    BY <1>3, <1>7 DEF Attempted, TriesPassword, SignsIn, Prepares, Inserts
  <1>9. /\ call[r].pc # "done" /\ Overlapped \subseteq Overlapped'
        /\ \A q \in Requests \ {r} : call'[q] = call[q]
    BY <1>1, <1>7, OverlappedStays DEF OnlyMoves
  <1>10. ASSUME ~ BrokenOff, x \in Standing
         PROVE  Explained(x)'
    <2>1. Explained(x)
      BY <1>10 DEF LockInv, BlockInv
    <2>2. (Few(x)' => Few(x)) /\ (users'[x].active <=> users[x].active)
      BY <1>5, <1>6 DEF Few, MaxAttempts
    <2>3. Counting(call'[r], x) /\ ~ Resetting(call'[r], x) /\ ~ Blocking(call'[r], x)
      BY <1>7 DEF Counting, Resetting, Blocking, SignsIn
    <2>4. ~ users[x].active => \A q \in Requests : Resetting(call'[q], x) => q \in Overlapped'
      BY <1>9, <2>1, <2>3 DEF Explained
    <2>5. ResetOverlapped => ResetOverlapped'
      BY <1>7, <1>9, ResetOverlappedStays DEF AuthInv
    <2>6. Few(x)' /\ ~ ResetOverlapped' =>
             users[x].active /\ \A q \in Requests : ~ Blocking(call'[q], x)
      BY <1>9, <2>1, <2>2, <2>3, <2>5 DEF Explained
    <2> QED
      BY <2>2, <2>3, <2>4, <2>6 DEF Explained, Counting, Resetting, Blocking
  <1> QED
    BY <1>1, <1>2, <1>3, <1>5, <1>7, <1>8, <1>10, LockChanges

LEMMA LockReadAttempts ==
  ASSUME AuthInv, LockInv, NEW r \in Requests, ReadAttempts(r)
  PROVE  LockInv'
  <1>1. /\ r \in InFlight /\ call[r].pc = "readAttempts" /\ HandlersOK
        /\ users' = users /\ reactivated' = reactivated
    BY DEF ReadAttempts, FromPool, OnlyReads, tables, InFlight, At, AuthInv
  <1>2. PICK x : x = call[r].read
    OBVIOUS
  <1>3. /\ x \in Ids /\ users[x].failed \in Nat /\ call[r].op = "login" /\ Exists(x)
        /\ BlockStays
    BY <1>1, <1>2, SameBlock
       DEF LockInv, Attempted, AuthInv, Accounts, AccountRow, TriesPassword
  <1>4. CASE users[x].failed >= MaxAttempts
    <2>1. /\ OnlyMoves(r) /\ call'[r].pc = "block" /\ call'[r].read = x /\ alone' = alone
          /\ call'[r].op = call[r].op
      BY <1>1, <1>2, <1>4, GotoIs DEF ReadAttempts, GoesTo, GoesAs
    <2>2. ~ Few(x)
      BY <1>3, <1>4 DEF Few, MaxAttempts
    <2>3. Attempted(call[r])'
      BY <1>1, <1>3, <2>1 DEF Attempted, TriesPassword, SignsIn, Prepares, Inserts, Exists
    <2>4. \A u : Calm(call[r], call'[r], u)
      BY <1>1, <1>2, <2>1, <2>2 DEF Calm, Counting, Blocking, Resetting, SignsIn
    <2> QED
      BY <1>1, <1>3, <2>1, <2>3, <2>4, LockStays
  <1>5. CASE ~ (users[x].failed >= MaxAttempts)
    <2>1. Reply(r, 401)
      BY <1>2, <1>5 DEF ReadAttempts
    <2>2. \A u : Counting(call[r], u) => Few(u)
      BY <1>2, <1>3, <1>5 DEF Counting, Few, MaxAttempts
    <2> QED
      BY <1>1, <1>3, <2>1, <2>2, LockReply
  <1> QED
    BY <1>4, <1>5

(* Whoever resets the counter of the account r blocks is in flight with r, *)
(* and if the counter was reset before that, two logins overlapped.        *)
LEMMA LockBlock ==
  ASSUME AuthInv, LockInv, NEW r \in Requests, Block(r)
  PROVE  LockInv'
  <1>1. /\ r \in InFlight /\ call[r].pc = "block" /\ HandlersOK /\ reactivated' = reactivated
    BY DEF Block, FromPool, InFlight, At, AuthInv
  <1>2. PICK x : x = call[r].read
    OBVIOUS
  <1>3. x \in Ids /\ users[x] \in AccountRow
    BY <1>1, <1>2 DEF LockInv, Attempted, AuthInv, Accounts
  <1>4. PICK row : row = [users[x] EXCEPT !.active = FALSE]
    OBVIOUS
  <1>5. /\ users' = [users EXCEPT ![x] = row] /\ row.rows = users[x].rows
        /\ row.deleted = users[x].deleted /\ ~ row.active /\ row.failed = users[x].failed
    BY <1>2, <1>3, <1>4 DEF Block, AccountRow
  <1>6. users'[x] = row
    BY <1>3, <1>5 DEF AuthInv, Accounts
  <1>7. OnlyMoves(r) /\ call'[r].pc = "done" /\ alone' = alone
    BY <1>1, ReplyIs DEF Block
  <1>8. /\ call[r].pc # "done" /\ Overlapped \subseteq Overlapped'
        /\ \A q \in InFlight \ {r} : q \in Overlapped
        /\ \A q \in Requests \ {r} : call'[q] = call[q]
    BY <1>1, <1>7, OverlappedStays DEF OnlyMoves
  <1>9. ASSUME ~ BrokenOff, x \in Standing
        PROVE  Explained(x)'
    <2>1. Explained(x) /\ Blocking(call[r], x)
      BY <1>1, <1>2, <1>9 DEF LockInv, BlockInv, Blocking
    <2>2. (Few(x)' => Few(x)) /\ ~ users'[x].active
      BY <1>5, <1>6 DEF Few
    <2>3. ASSUME NEW q \in Requests, Resetting(call'[q], x)
          PROVE  q \in Overlapped'
      <3>1. q # r /\ q \in InFlight
        BY <1>7, <1>8, <2>3 DEF Resetting, SignsIn, InFlight, At
      <3> QED
        BY <1>8, <3>1
    <2>4. ResetOverlapped => ResetOverlapped'
      BY <1>7, <1>8, ResetOverlappedStays DEF AuthInv
    <2>5. Few(x)' => ResetOverlapped'
      BY <2>1, <2>2, <2>4 DEF Explained
    <2> QED
      BY <2>2, <2>3, <2>5 DEF Explained, Resetting
  <1> QED
    BY <1>1, <1>2, <1>3, <1>5, <1>7, <1>9, LockChanges

LEMMA LockLastLogin ==
  ASSUME AuthInv, LockInv, NEW r \in Requests, LastLogin(r)
  PROVE  LockInv'
  <1>1. /\ r \in InFlight /\ call[r].pc = "lastLogin" /\ HandlersOK
        /\ users' = users /\ reactivated' = reactivated
    BY DEF LastLogin, FromPool, OnlyReads, tables, InFlight, At, AuthInv
  <1>2. BlockStays
    BY <1>1, SameBlock
  <1>3. /\ OnlyMoves(r) /\ call'[r].pc = "resetAttempts" /\ call'[r].read = call[r].read
        /\ call'[r].op = call[r].op /\ alone' = alone
    BY <1>1, GotoIs DEF LastLogin, GoesTo, GoesAs
  <1>4. /\ call[r].read \in Ids /\ "users" \in users'[call[r].read].rows
        /\ call[r].op \in {"login", "google"}
    BY <1>1 DEF LockInv, Attempted, SignsIn, Exists
  <1>5. Attempted(call[r])'
    BY <1>3, <1>4 DEF Attempted, TriesPassword, SignsIn, Prepares, Inserts, Exists
  <1>6. \A u : Calm(call[r], call'[r], u)
    BY <1>1, <1>3 DEF Calm, Counting, Blocking, Resetting, SignsIn
  <1> QED
    BY <1>1, <1>2, <1>3, <1>5, <1>6, LockStays

(* The counter of a blocked account, or of one about to be blocked, is     *)
(* reset by a login that overlapped another.                               *)
LEMMA LockResetAttempts ==
  ASSUME AuthInv, LockInv, NEW r \in Requests, ResetAttempts(r)
  PROVE  LockInv'
  <1>1. /\ r \in InFlight /\ call[r].pc = "resetAttempts" /\ HandlersOK
        /\ reactivated' = reactivated
    BY DEF ResetAttempts, FromPool, InFlight, At, AuthInv
  <1>2. PICK x : x = call[r].read
    OBVIOUS
  <1>3. x \in Ids /\ users[x] \in AccountRow /\ call[r].op \in {"login", "google"}
    BY <1>1, <1>2 DEF LockInv, Attempted, AuthInv, Accounts, SignsIn
  <1>4. PICK row : row = [users[x] EXCEPT !.failed = 0]
    OBVIOUS
  <1>5. /\ users' = [users EXCEPT ![x] = row] /\ row.rows = users[x].rows
        /\ row.deleted = users[x].deleted /\ row.active = users[x].active /\ row.failed = 0
    BY <1>2, <1>3, <1>4 DEF ResetAttempts, AccountRow
  <1>6. users'[x] = row
    BY <1>3, <1>5 DEF AuthInv, Accounts
  <1>7. /\ OnlyMoves(r) /\ call'[r].pc = "done" /\ call'[r].op = call[r].op
        /\ answer'[r] = 200 /\ alone' = alone
    BY <1>1, ReplyIs DEF ResetAttempts, ReplyAndRelease
  <1>8. /\ call[r].pc # "done" /\ Overlapped \subseteq Overlapped'
        /\ \A q \in InFlight \ {r} : r \in Overlapped
        /\ \A q \in Requests \ {r} : call'[q] = call[q]
    BY <1>1, <1>7, OverlappedStays DEF OnlyMoves
  <1>9. r \in Overlapped => ResetOverlapped'
    BY <1>3, <1>7, <1>8 DEF ResetOverlapped
  <1>10. ASSUME ~ BrokenOff, x \in Standing
         PROVE  Explained(x)'
    <2>1. Explained(x) /\ Resetting(call[r], x)
      BY <1>1, <1>2, <1>10 DEF LockInv, BlockInv, Resetting, SignsIn
    <2>2. Few(x)' /\ (users'[x].active <=> users[x].active)
      BY <1>5, <1>6 DEF Few, MaxAttempts
    <2>3. ~ users[x].active => ResetOverlapped'
      BY <1>9, <2>1 DEF Explained
    <2>4. ASSUME NEW q \in Requests, Blocking(call'[q], x)
          PROVE  ResetOverlapped'
      <3>1. q # r /\ q \in InFlight
        BY <1>7, <1>8, <2>4 DEF Blocking, InFlight, At
      <3> QED
        BY <1>8, <1>9, <3>1
    <2>5. ASSUME NEW q \in Requests, Resetting(call'[q], x), ~ users[x].active
          PROVE  q \in Overlapped'
      <3>1. q # r
        BY <1>7, <2>5 DEF Resetting, SignsIn
      <3> QED
        BY <1>8, <2>1, <2>5, <3>1 DEF Explained
    <2> QED
      BY <2>2, <2>3, <2>4, <2>5 DEF Explained, Resetting, Blocking
  <1> QED
    BY <1>1, <1>2, <1>3, <1>5, <1>7, <1>10, LockChanges DEF SignsIn

-----------------------------------------------------------------------------
(* With a token                                                            *)

(* A column the block does not look at is updated, or the account ceases   *)
(* to stand.                                                               *)
LEMMA BlockStaysOneRow ==
  ASSUME AuthInv, NEW x, NEW row,
         users' = [users EXCEPT ![x] = row],
         x \in Ids => row.rows = users[x].rows,
         \/ x \in Ids => /\ row.deleted = users[x].deleted
                         /\ row.active = users[x].active /\ row.failed = users[x].failed
         \/ row.deleted \/ x \in reactivated',
         reactivated \subseteq reactivated'
  PROVE  BlockStays
  <1>1. /\ \A u \in Ids \ {x} : users'[u] = users[u]
        /\ x \in Ids => users'[x] = row
    BY DEF AuthInv, Accounts
  <1>2. \A u \in Ids : Exists(u)' <=> Exists(u)
    BY <1>1 DEF Exists
  <1> QED
    BY <1>1, <1>2 DEF BlockStays, Unchanged, Standing, Live

LEMMA LockWithToken ==
  ASSUME AuthInv, LockInv, NEW r \in Requests,
         \/ RefreshToken(r) \/ Me(r) \/ DeleteAccount(r) \/ ReactivateAccount(r)
         \/ UpdateProfile(r) \/ ReadProfile(r) \/ UpdatePreferences(r)
  PROVE  LockInv'
  <1>1. /\ r \in InFlight /\ HandlersOK
        /\ call[r].pc \notin {"readAttempts", "block"}
    BY DEF RefreshToken, Me, DeleteAccount, ReactivateAccount, UpdateProfile, ReadProfile,
           UpdatePreferences, FromPool, InFlight, At, AuthInv
  <1>2. \A u : Counting(call[r], u) => Few(u)
    BY <1>1, CountsNothing
  <1>3. call[r].id \in Ids => users[call[r].id] \in AccountRow
    BY DEF AuthInv, Accounts
  <1>4. CASE RefreshToken(r) \/ Me(r) \/ ReadProfile(r)
    <2>1. BlockStays
      BY <1>4, SameBlock DEF RefreshToken, Me, ReadProfile, OnlyReads, tables
    <2>2. \E status : Reply(r, status)
      BY <1>4 DEF RefreshToken, Me, ReadProfile
    <2> QED
      BY <1>1, <1>2, <2>1, <2>2, LockReply
  <1>5. CASE DeleteAccount(r)
    <2>1. PICK row : row = [users[call[r].id] EXCEPT !.deleted = TRUE, !.active = FALSE]
      OBVIOUS
    <2>2. call[r].id \in Ids => row.rows = users[call[r].id].rows /\ row.deleted
      BY <1>3, <2>1 DEF AccountRow
    <2>3. reactivated' = reactivated /\ (users' = users \/ users' = [users EXCEPT ![call[r].id] = row])
      BY <1>5, <2>1 DEF DeleteAccount
    <2>4. BlockStays
      <3>1. CASE users' = users
        BY <2>3, <3>1, SameBlock
      <3>2. CASE users' = [users EXCEPT ![call[r].id] = row] /\ call[r].id \in Ids
        BY <2>2, <2>3, <3>2, BlockStaysOneRow
      <3>3. CASE users' = [users EXCEPT ![call[r].id] = row] /\ call[r].id \notin Ids
        BY <2>3, <3>3, SameBlock DEF AuthInv, Accounts
      <3> QED
        BY <2>3, <3>1, <3>2, <3>3
    <2> QED
      BY <1>1, <1>2, <1>5, <2>4, LockReply DEF DeleteAccount
  <1>6. CASE ReactivateAccount(r)
    <2>1. PICK row : row = [users[call[r].id] EXCEPT !.deleted = FALSE, !.active = TRUE]
      OBVIOUS
    <2>2. call[r].id \in Ids => row.rows = users[call[r].id].rows
      BY <1>3, <2>1 DEF AccountRow
    <2>3. \/ users' = users /\ reactivated' = reactivated
          \/ /\ users' = [users EXCEPT ![call[r].id] = row]
             /\ call[r].id \in reactivated' /\ reactivated \subseteq reactivated'
      BY <1>6, <2>1 DEF ReactivateAccount
    <2>4. BlockStays
      BY <2>2, <2>3, SameBlock, BlockStaysOneRow
    <2> QED
      BY <1>1, <1>2, <1>6, <2>4, LockReply DEF ReactivateAccount
  <1>7. CASE UpdateProfile(r)
    <2>1. PICK row : row = [users[call[r].id] EXCEPT !.profile = r]
      OBVIOUS
    <2>2. call[r].id \in Ids =>
             /\ row.rows = users[call[r].id].rows /\ row.deleted = users[call[r].id].deleted
             /\ row.active = users[call[r].id].active /\ row.failed = users[call[r].id].failed
      BY <1>3, <2>1 DEF AccountRow
    <2>3. users' = [users EXCEPT ![call[r].id] = row] /\ reactivated' = reactivated
      BY <1>7, <2>1 DEF UpdateProfile
    <2>4. BlockStays
      BY <2>2, <2>3, BlockStaysOneRow
    <2>5. OnlyMoves(r) /\ call'[r].pc = "readProfile" /\ alone' = alone
      BY <1>1, <1>7, GotoIs DEF UpdateProfile, GoesTo, GoesAs, InFlight, At
    <2>6. Elsewhere("readProfile")
      BY DEF Elsewhere, TriesPassword, SignsIn, Prepares, Inserts
    <2> QED
      BY <1>1, <1>2, <2>4, <2>5, <2>6, LockElsewhere
  <1>8. CASE UpdatePreferences(r)
    <2>1. PICK row : row = [users[call[r].id] EXCEPT !.preferences = r]
      OBVIOUS
    <2>2. call[r].id \in Ids =>
             /\ row.rows = users[call[r].id].rows /\ row.deleted = users[call[r].id].deleted
             /\ row.active = users[call[r].id].active /\ row.failed = users[call[r].id].failed
      BY <1>3, <2>1 DEF AccountRow
    <2>3. users' = [users EXCEPT ![call[r].id] = row] /\ reactivated' = reactivated
      BY <1>8, <2>1 DEF UpdatePreferences
    <2>4. BlockStays
      BY <2>2, <2>3, BlockStaysOneRow
    <2> QED
      BY <1>1, <1>2, <1>8, <2>4, LockReply DEF UpdatePreferences
  <1> QED
    BY <1>4, <1>5, <1>6, <1>7, <1>8

-----------------------------------------------------------------------------
(* COMMIT, errors and the exit of the process                              *)

(* A new account is active, with no attempt, and nobody has read it yet.   *)
LEMMA LockCommit ==
  ASSUME AuthInv, LockInv, NEW r \in Requests, Commit(r)
  PROVE  LockInv'
  <1>1. /\ r \in InFlight /\ call[r].pc = "commit" /\ r \in Ids /\ HandlersOK
        /\ reactivated' = reactivated
    BY OldIsNoRequest DEF Commit, InFlight, At, AuthInv
  <1>2. PICK row : row = call[r].read
    OBVIOUS
  <1>3. /\ row \in AccountRow /\ row.active /\ row.failed = 0 /\ "users" \in row.rows
        /\ ~ Exists(r)
    BY <1>1, <1>2, NamesOfTables
       DEF AuthInv, Consistent, NotYetThere, Prepared, LockInv, Attempted, Needed, SignUp, Inserts
  <1>4. /\ users'[r] = row /\ \A u \in Ids \ {r} : users'[u] = users[u]
    BY <1>1, <1>2, <1>3 DEF Commit, AuthInv, Accounts
  <1>5. \A u \in Ids : Exists(u) => Exists(u)'
    BY <1>3, <1>4 DEF Exists
  <1>6. /\ OnlyMoves(r) /\ alone' = alone
        /\ \/ call'[r].pc = "done"
           \/ /\ call'[r].pc = "lastLogin" /\ call'[r].read = r
              /\ call[r].op # "register" /\ call'[r].op = call[r].op
    <2>1. CASE call[r].op = "register"
      BY <1>1, <2>1, ReplyIs DEF Commit, ReplyAndRelease
    <2>2. CASE call[r].op # "register"
      BY <1>1, <2>2, KeepIs DEF Commit, GoesTo, GoesAs
    <2> QED
      BY <2>1, <2>2
  <1>7. /\ call[r].pc # "done" /\ Overlapped \subseteq Overlapped' /\ Solo'
        /\ \A q \in Requests \ {r} : call'[q] = call[q]
    BY <1>1, <1>6, OverlappedStays DEF OnlyMoves
  <1>8. Attempted(call[r])'
    <2>1. call[r].op \in {"register", "google"}
      BY <1>1 DEF AuthInv, Consistent, Operation, SignUp, Inserts
    <2>2. "users" \in users'[r].rows
      BY <1>3, <1>4
    <2> QED
      BY <1>1, <1>6, <2>1, <2>2
         DEF Attempted, TriesPassword, SignsIn, Prepares, Inserts, Exists
  <1>9. ASSUME NEW u \in Standing'
        PROVE  \/ Explained(u)'
               \/ Unchanged(u) /\ Calm(call[r], call'[r], u)
    <2>1. CASE u = r
      <3>1. Few(u)' /\ users'[u].active
        BY <1>3, <1>4, <2>1 DEF Few, MaxAttempts
      <3>2. \A q \in Requests : ~ Blocking(call'[q], u)
        BY <1>3, <1>6, <1>7, <2>1 DEF Blocking, LockInv, Attempted
      <3> QED
        BY <3>1, <3>2 DEF Explained, Blocking
    <2>2. CASE u # r
      <3>1. Unchanged(u)
        BY <1>1, <1>4, <2>2 DEF Unchanged, Standing, Live, Exists
      <3>2. Calm(call[r], call'[r], u)
        BY <1>1, <1>6, <2>2 DEF Calm, Counting, Blocking, Resetting, SignsIn
      <3> QED
        BY <3>1, <3>2
    <2> QED
      BY <2>1, <2>2
  <1> QED
    BY <1>5, <1>6, <1>7, <1>8, <1>9, LockMoves

(* The process ends: a login that was in flight is broken off, and without *)
(* one nobody was counting.                                                *)
LEMMA LockExit ==
  ASSUME AuthInv, LockInv, Exit
  PROVE  LockInv'
  <1>1. /\ answer' = answer /\ alone' = alone /\ users' = users /\ reactivated' = reactivated
    BY DEF Exit
  <1>2. ASSUME NEW r \in Requests
        PROVE  /\ call'[r].pc \in {"idle", "done"} /\ call'[r].op = call[r].op
               /\ call'[r].pc = "idle" <=> call[r].pc = "idle"
               /\ call'[r].pc = "done" /\ call[r].pc # "done" => answer[r] = Pending
    <2>1. CASE r \in InFlight
      <3>1. call'[r] = Done(call[r].op)
        BY <2>1 DEF Exit
      <3> QED
        BY <2>1, <3>1, DoneLocals DEF InFlight, At, AuthInv, HandlersOK
    <2>2. CASE r \notin InFlight
      <3>1. call'[r] = call[r]
        BY <2>2 DEF Exit
      <3> QED
        BY <2>2, <3>1 DEF InFlight, At
    <2> QED
      BY <2>1, <2>2
  <1>3. Solo'
    <2>1. InFlight' = {}
      BY <1>2 DEF InFlight, At
    <2> QED
      BY <1>1, <1>2, <2>1 DEF LockInv, Solo, At, AuthInv, HandlersOK
  <1>4. (\A r \in Requests : Attempted(call[r]))'
    BY <1>2 DEF Attempted, TriesPassword, SignsIn, Prepares, Inserts
  <1>5. ResetOverlapped => ResetOverlapped'
    BY <1>1, <1>2 DEF ResetOverlapped, Overlapped, At
  <1>6. BrokenOff => BrokenOff'
    BY <1>1, <1>2 DEF BrokenOff, On, At
  <1>7. ASSUME NEW r \in InFlight, call[r].op = "login"
        PROVE  BrokenOff'
    BY <1>1, <1>2, <1>7 DEF BrokenOff, On, At, InFlight, Pending
  <1>8. ASSUME ~ BrokenOff', NEW u \in Standing'
        PROVE  Explained(u)'
    <2>1. u \in Standing /\ users'[u] = users[u]
      BY <1>1, <1>8 DEF Standing, Live, Exists
    <2>2. Explained(u)
      BY <1>6, <1>8, <2>1 DEF LockInv, BlockInv
    <2>3. \A r \in Requests : ~ Counting(call[r], u)
      BY <1>7, <1>8 DEF LockInv, Attempted, Counting, TriesPassword, InFlight, At
    <2>4. users'[u].active => Few(u)'
      BY <2>1, <2>2, <2>3 DEF Explained, Few
    <2>5. \A r \in Requests : ~ Resetting(call'[r], u) /\ ~ Blocking(call'[r], u)
      BY <1>2 DEF Resetting, Blocking, SignsIn
    <2>6. Few(u)' /\ ~ ResetOverlapped' => users'[u].active
      BY <1>5, <2>1, <2>2 DEF Explained, Few
    <2> QED
      BY <2>4, <2>5, <2>6 DEF Explained, Resetting, Blocking
  <1>9. BlockInv'
    BY <1>8 DEF BlockInv
  <1> QED
    BY <1>3, <1>4, <1>9 DEF LockInv

LEMMA LockTimeout ==
  ASSUME AuthInv, LockInv, NEW r \in Requests, Timeout(r)
  PROVE  LockInv'
  <1>1. r \in InFlight
    BY DEF Timeout, InFlight
  <1>2. CASE Exit
    BY <1>2, LockExit
  <1>3. CASE /\ users' = users /\ reactivated' = reactivated
             /\ \E status : Reply(r, status) /\ (call[r].op = "login" => status = 500)
    BY <1>1, <1>3, LockError
  <1> QED
    BY <1>2, <1>3 DEF Timeout, ReplyAndRelease, tables

LEMMA LockFail ==
  ASSUME AuthInv, LockInv, NEW r \in Requests, Fail(r)
  PROVE  LockInv'
  <1>1. r \in InFlight
    BY DEF Fail
  <1>2. CASE Exit
    BY <1>2, LockExit
  <1>3. CASE /\ users' = users /\ reactivated' = reactivated
             /\ \E status : FailWith(r, status) /\ (call[r].op = "login" => status = 500)
    BY <1>1, <1>3, LockError
  <1>4. CASE /\ InTransaction(r) /\ call' = [call EXCEPT ![r].pc = "rollback"]
             /\ UNCHANGED <<answer, alone, tables>>
    <2>1. /\ call[r].pc \in Inserts /\ users' = users /\ reactivated' = reactivated
          /\ alone' = alone /\ HandlersOK /\ r \in Requests
      BY <1>4 DEF tables, InTransaction, At, Inserts, AuthInv
    <2>2. PICK c : c = [call[r] EXCEPT !.pc = "rollback"]
      OBVIOUS
    <2>3. IsLocals(c) /\ c.pc = "rollback"
      BY <2>1, <2>2, LabelledLocals DEF HandlersOK
    <2>4. answer[r] = Pending
      BY <2>1 DEF HandlersOK, Inserts
    <2>5. call' = [call EXCEPT ![r] = c] /\ answer' = [answer EXCEPT ![r] = answer[r]]
      BY <1>4, <2>1, <2>2 DEF HandlersOK
    <2>6. OnlyMoves(r) /\ call'[r] = c
      BY <2>1, <2>3, <2>4, <2>5, MovedOK DEF HandlersOK
    <2>7. Elsewhere(call'[r].pc)
      BY <2>3, <2>6 DEF Elsewhere, TriesPassword, SignsIn, Prepares, Inserts
    <2>8. \A u : Counting(call[r], u) => Few(u)
      BY <2>1, CountsNothing DEF Inserts
    <2> QED
      BY <1>1, <2>1, <2>6, <2>7, <2>8, SameBlock, LockElsewhere
  <1> QED
    BY <1>2, <1>3, <1>4 DEF Fail, tables

LEMMA LockStutter ==
  ASSUME LockInv, UNCHANGED vars
  PROVE  LockInv'
  <1>1. /\ call' = call /\ answer' = answer /\ alone' = alone
        /\ users' = users /\ reactivated' = reactivated
    BY DEF vars, handlers, tables
  <1>2. Solo' /\ (\A r \in Requests : Attempted(call[r]))'
    BY <1>1 DEF LockInv, Solo, InFlight, At, Attempted, Exists
  <1>3. BlockInv'
    BY <1>1 DEF LockInv, BlockInv, BrokenOff, On, At, Standing, Live, Exists, Explained, Few,
                ResetOverlapped, Overlapped, Counting, Blocking, Resetting
  <1> QED
    BY <1>2, <1>3 DEF LockInv

LEMMA LockStep ==
  ASSUME AuthInv, LockInv, [Next]_vars
  PROVE  LockInv'
  <1>1. ASSUME NEW r \in Requests, Step(r)
        PROVE  LockInv'
    BY <1>1, LockSignUp, LockCommit, LockFindUser, LockAddAttempt, LockReadAttempts, LockBlock,
       LockLastLogin, LockResetAttempts, LockWithToken DEF Step
  <1> QED
    BY <1>1, LockArrival, LockTimeout, LockFail, LockStutter DEF Next, Quiet

(* However many wrong passwords come at once, and whichever logins, sign-  *)
(* ups and changes of an account they interleave with, the counter and the *)
(* block agree once no login is under way, save for the exceptions that    *)
(* the property names.                                                     *)
THEOREM BlockAgreesWithCounter == Spec => []BlockMatchesCounter
  <1>1. AuthInv /\ LockInv => BlockMatchesCounter
    <2> SUFFICES ASSUME AuthInv, LockInv, NEW u \in Live,
                        \A r \in InFlight : call[r].read # u, ~ BrokenOff, u \notin reactivated
                 PROVE  \/ users[u].active <=> users[u].failed < MaxAttempts
                        \/ ~ users[u].active /\ ResetOverlapped
      BY DEF BlockMatchesCounter, ResetOverlapped
    <2>1. Explained(u)
      BY DEF LockInv, BlockInv, Standing
    <2>2. \A r \in Requests : ~ Counting(call[r], u)
      BY DEF Counting, InFlight, At
    <2>3. users[u].active => users[u].failed < MaxAttempts
      BY <2>1, <2>2 DEF Explained, Few
    <2>4. users[u].failed < MaxAttempts /\ ~ ResetOverlapped => users[u].active
      BY <2>1 DEF Explained, Few
    <2>5. users[u].active \in BOOLEAN
      BY DEF Live, AuthInv, Accounts, AccountRow
    <2> QED
      BY <2>3, <2>4, <2>5
  <1>2. Init => LockInv
    BY LockInvInit
  <1>3. AuthInv /\ LockInv /\ [Next]_vars => LockInv'
    BY LockStep
  <1> QED
    BY <1>1, <1>2, <1>3, AuthInvHolds, PTL DEF Spec

=============================================================================
