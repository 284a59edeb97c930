---------------------------- MODULE ServerProofs ----------------------------
(***************************************************************************)
(* Proofs about two parts of the server that share nothing: Accounts, for  *)
(* every set of browsers, addresses, drivers and passwords and every       *)
(* timing of the clock, the throttle and the links; and DriverPayload, for *)
(* any number of requests, invalidations and changes, whether or not a     *)
(* render's effects run before the next event.                             *)
(*                                                                         *)
(* That an account has one live session is not inductive: the epoch a      *)
(* request will write is fixed when it arrives, and other requests sign in *)
(* before it does.  Numbered says that no two of them can write the same.  *)
(*                                                                         *)
(* Tracked says what the page's promise stands for: it is the one request  *)
(* that is open, or the one of this generation that has been answered.     *)
(***************************************************************************)
EXTENDS Accounts, DriverPayload, SequenceTheorems, TLAPS

Account == [email : Emails \cup Drivers, password : Passwords \cup {Unset},
            epoch : Nat]

\* What a request must know at each of its steps.
Asked(r) ==
  /\ r.pc \in {"register", "create", "login"} =>
       r.email \in Emails /\ r.password \in Passwords
  /\ r.pc \in {"google", "adopt"} => r.email \in Emails
  /\ r.pc \in {"garage", "enrol", "link"} => r.email \in Drivers
  /\ r.pc = "reset" => r.password \in Passwords
  /\ r.pc \in {"rotate", "link", "reset"} => r.user \in DOMAIN users

RequestForms == [pc : {"idle", "register", "create", "login", "google", "adopt",
                   "garage", "enrol", "link", "rotate", "reset"},
             email : Emails \cup Drivers \cup {None},
             password : Passwords \cup {None},
             user : Nat \cup {None}, epoch : Nat, link : Nat]

AccountsTyped ==
  /\ users \in Seq(Account)
  /\ DOMAIN linked \subseteq DOMAIN users
  /\ \A r \in resets : r.user \in DOMAIN users /\ r.number \in Nat
  /\ cookie \in [Browsers -> {None} \cup [user : Nat, epoch : Nat, expires : Nat]]
  /\ \A b \in Browsers : cookie[b] # None => cookie[b].user \in DOMAIN users
  /\ request \in [Browsers -> RequestForms]
  /\ \A b \in Browsers : Asked(request[b])
  /\ clock \in Nat
  /\ used \in [requests : Nat, faults : Nat]

\* A request's epoch is its own: no other request and no cookie has it, and
\* no two cookies have the same.
Numbered ==
  /\ \A a \in Browsers :
       /\ request[a].epoch <= used.requests
       /\ cookie[a] # None => cookie[a].epoch <= used.requests
  /\ \A a, b \in Browsers :
       /\ ~At(a, "idle") /\ ~At(b, "idle") /\ request[a].epoch = request[b].epoch
            => a = b
       /\ ~At(a, "idle") /\ cookie[b] # None => request[a].epoch # cookie[b].epoch
       /\ cookie[a] # None /\ cookie[b] # None /\ cookie[a].epoch = cookie[b].epoch
            => a = b

-----------------------------------------------------------------------------
(* Type correctness.                                                       *)

LEMMA TypedInit == Init => AccountsTyped
<1>1. << >> \in Seq(Account)
  BY EmptySeq
<1>2. QED
  BY <1>1 DEF Init, AccountsTyped, Idle, RequestForms, Asked

\* Every action but Insert's leaves the accounts as many as they were.
LEMMA Inserted ==
  ASSUME AccountsTyped, NEW b \in Browsers, NEW email \in Emails \cup Drivers,
         NEW password \in Passwords \cup {Unset}, NEW next \in {"done", "link"},
         next = "link" => email \in Drivers /\ request[b].email \in Drivers,
         Insert(b, email, password, next), UNCHANGED <<linked, resets, clock, used>>
  PROVE  AccountsTyped'
<1> DEFINE row == [email |-> email, password |-> password,
                   epoch |-> request[b].epoch]
<1>1. row \in Account /\ users \in Seq(Account) /\ Len(users) \in Nat
      /\ DOMAIN users = 1..Len(users)
  BY LenProperties DEF AccountsTyped, Account, RequestForms
<1>2. CASE Ask(b, Idle) /\ UNCHANGED <<users, cookie>>
  BY <1>2 DEF AccountsTyped, Ask, Idle, RequestForms, Asked
<1>3. CASE ~Taken(email)
  <2>1. users' = Append(users, row)
    BY <1>3 DEF Insert
  <2>2. /\ users' \in Seq(Account) /\ DOMAIN users' = 1 .. Len(users) + 1
        /\ DOMAIN users \subseteq DOMAIN users'
        /\ Len(users) + 1 \in DOMAIN users'
    <3> HIDE DEF row
    <3>1. QED
      BY <1>1, <2>1, AppendProperties, LenProperties
  <2>3. CASE next = "done"
    <3>1. cookie' = [cookie EXCEPT ![b] = [user |-> Len(users) + 1,
                       epoch |-> request[b].epoch, expires |-> clock + TTL]]
          /\ request' = [request EXCEPT ![b] = Idle]
      BY <1>3, <2>3 DEF Insert, Issue, Ask
    <3>2. [user |-> Len(users) + 1, epoch |-> request[b].epoch,
           expires |-> clock + TTL] \in [user : Nat, epoch : Nat, expires : Nat]
      BY <1>1, AccountsAssumption DEF AccountsTyped, RequestForms
    <3>3. /\ cookie' \in [Browsers -> {None} \cup [user : Nat, epoch : Nat, expires : Nat]]
          /\ \A a \in Browsers : cookie'[a] # None => cookie'[a].user \in DOMAIN users'
      BY <2>2, <3>1, <3>2 DEF AccountsTyped
    <3>4. /\ request' \in [Browsers -> RequestForms]
          /\ \A a \in Browsers : Asked(request[a])'
      BY <2>2, <3>1 DEF AccountsTyped, Idle, RequestForms, Asked
    <3>5. QED
      BY <2>2, <3>3, <3>4 DEF AccountsTyped
  <2>4. CASE next = "link"
    <3>1. /\ request' = [request EXCEPT ![b] = [request[b] EXCEPT !.pc = "link",
                                                  !.user = Len(users) + 1]]
          /\ cookie' = cookie
      BY <1>3, <2>4 DEF Insert, Ask
    <3>2. [request[b] EXCEPT !.pc = "link", !.user = Len(users) + 1] \in RequestForms
      <4>1. request[b] \in RequestForms /\ Len(users) + 1 \in Nat
        BY <1>1 DEF AccountsTyped
      <4>2. QED
        BY <4>1 DEF RequestForms
    <3>3. /\ request' \in [Browsers -> RequestForms]
          /\ \A a \in Browsers : Asked(request[a])'
      BY <2>2, <2>4, <3>1, <3>2 DEF AccountsTyped, RequestForms, Asked
    <3>4. QED
      BY <2>2, <3>1, <3>3 DEF AccountsTyped
  <2>5. QED
    BY <2>3, <2>4
<1>4. QED
  BY <1>2, <1>3 DEF Insert, Taken

\* A browser's request takes a well-typed step, the accounts stay as many.
LEMMA Moved ==
  ASSUME AccountsTyped, NEW b \in Browsers, NEW r \in RequestForms, Asked(r), Ask(b, r),
         DOMAIN users' = DOMAIN users
  PROVE  /\ request' \in [Browsers -> RequestForms]
         /\ \A a \in Browsers : Asked(request[a])'
BY DEF AccountsTyped, Ask, Asked

LEMMA IdleTyped == Idle \in RequestForms /\ Asked(Idle)
BY DEF Idle, RequestForms, Asked

\* A request arrives with a number and leaves everything else alone.
LEMMA Arrived ==
  ASSUME AccountsTyped, NEW b \in Browsers, NEW r \in RequestForms, Asked(r), Arrive(b, r),
         UNCHANGED <<tables, cookie, clock>>
  PROVE  AccountsTyped'
<1> DEFINE q == [r EXCEPT !.epoch = used.requests + 1]
<1>1. q \in RequestForms /\ Asked(q) /\ Ask(b, q)
  <2>1. used.requests + 1 \in Nat
    BY DEF AccountsTyped
  <2>2. q \in RequestForms
    BY <2>1 DEF RequestForms
  <2>3. q.pc = r.pc /\ q.email = r.email /\ q.password = r.password /\ q.user = r.user
    BY DEF RequestForms
  <2>4. QED
    BY <2>2, <2>3 DEF Asked, Arrive
<1>2. used' \in [requests : Nat, faults : Nat]
  BY DEF AccountsTyped, Arrive
<1> HIDE DEF q
<1>3. QED
  BY <1>1, <1>2, Moved DEF AccountsTyped, tables

\* The user an address names is one of the table.
LEMMA UserExists ==
  ASSUME NEW email, Exists(email)
  PROVE  UserOf(email) \in DOMAIN users /\ users[UserOf(email)].email = email
BY DEF Exists, UserOf

LEMMA TypedNext == AccountsTyped /\ [Next]_vars => AccountsTyped'
<1> SUFFICES ASSUME AccountsTyped, [Next]_vars PROVE AccountsTyped'
  OBVIOUS
<1> DEFINE Tabled == UNCHANGED <<tables, cookie, clock, used>>
<1>1. ASSUME NEW b \in Browsers, NEW r \in RequestForms, Asked(r), Ask(b, r), Tabled
      PROVE  AccountsTyped'
  BY <1>1, Moved DEF AccountsTyped, tables
<1>2. ASSUME NEW b \in Browsers, NEW e \in Emails, NEW p \in Passwords,
             Register(b, e, p) \/ Login(b, e, p)
      PROVE  AccountsTyped'
  <2>1. CASE Register(b, e, p)
    <3>1. [Idle EXCEPT !.pc = "register", !.email = e, !.password = p] \in RequestForms
          /\ Asked([Idle EXCEPT !.pc = "register", !.email = e, !.password = p])
      BY DEF Idle, RequestForms, Asked
    <3>2. QED
      BY <2>1, <3>1, Arrived DEF Register
  <2>2. CASE Login(b, e, p)
    <3>1. [Idle EXCEPT !.pc = "login", !.email = e, !.password = p] \in RequestForms
          /\ Asked([Idle EXCEPT !.pc = "login", !.email = e, !.password = p])
      BY DEF Idle, RequestForms, Asked
    <3>2. QED
      BY <2>2, <3>1, Arrived DEF Login
  <2>3. QED
    BY <1>2, <2>1, <2>2
<1>3. ASSUME NEW b \in Browsers, NEW e \in Emails, Google(b, e) PROVE AccountsTyped'
  <2>1. [Idle EXCEPT !.pc = "google", !.email = e] \in RequestForms
        /\ Asked([Idle EXCEPT !.pc = "google", !.email = e])
    BY DEF Idle, RequestForms, Asked
  <2>2. QED
    BY <1>3, <2>1, Arrived DEF Google
<1>4. ASSUME NEW b \in Browsers, NEW d \in Drivers, Garage(b, d) PROVE AccountsTyped'
  <2>1. [Idle EXCEPT !.pc = "garage", !.email = d] \in RequestForms
        /\ Asked([Idle EXCEPT !.pc = "garage", !.email = d])
    BY DEF Idle, RequestForms, Asked
  <2>2. QED
    BY <1>4, <2>1, Arrived DEF Garage
<1>5. ASSUME NEW b \in Browsers, NEW r \in resets, NEW p \in Passwords, Reset(b, r, p)
      PROVE  AccountsTyped'
  <2>1. r.user \in DOMAIN users /\ r.user \in Nat /\ r.number \in Nat
    <3>1. DOMAIN users = 1..Len(users) /\ Len(users) \in Nat
      BY LenProperties DEF AccountsTyped
    <3>2. QED
      BY <3>1 DEF AccountsTyped
  <2>2. [Idle EXCEPT !.pc = "reset", !.password = p, !.user = r.user,
         !.link = r.number] \in RequestForms
        /\ Asked([Idle EXCEPT !.pc = "reset", !.password = p, !.user = r.user,
         !.link = r.number])
    BY <2>1 DEF Idle, RequestForms, Asked
  <2>3. QED
    BY <1>5, <2>2, Arrived DEF Reset
<1>6. ASSUME NEW b \in Browsers, CheckFree(b) PROVE AccountsTyped'
  <2>1. CASE Ask(b, Idle)
    BY <1>1, <1>6, <2>1, IdleTyped DEF CheckFree
  <2>2. CASE Goto(b, "create")
    <3>1. [request[b] EXCEPT !.pc = "create"] \in RequestForms
          /\ Asked([request[b] EXCEPT !.pc = "create"])
      BY <1>6 DEF CheckFree, At, AccountsTyped, RequestForms, Asked
    <3>2. Ask(b, [request[b] EXCEPT !.pc = "create"])
      BY <2>2 DEF Goto, Ask
    <3>3. QED
      BY <1>1, <1>6, <3>1, <3>2 DEF CheckFree
  <2>3. QED
    BY <1>6, <2>1, <2>2 DEF CheckFree, Fail
<1>7. ASSUME NEW b \in Browsers, Create(b) \/ Adopt(b) \/ Enrol(b) PROVE AccountsTyped'
  <2>1. CASE Create(b)
    BY <2>1, Inserted DEF Create, At, AccountsTyped, Asked
  <2>2. CASE Adopt(b)
    BY <2>2, Inserted DEF Adopt, At, AccountsTyped, Asked
  <2>3. CASE Enrol(b)
    BY <2>3, Inserted DEF Enrol, At, AccountsTyped, Asked
  <2>4. QED
    BY <1>7, <2>1, <2>2, <2>3
<1>8. ASSUME NEW b \in Browsers, NEW u \in DOMAIN users, NEW next \in {"rotate", "link"},
             next = "link" => request[b].email \in Drivers,
             Ask(b, [request[b] EXCEPT !.pc = next, !.user = u]), Tabled
      PROVE  AccountsTyped'
  <2>1. u \in Nat
    BY LenProperties DEF AccountsTyped
  <2>2. [request[b] EXCEPT !.pc = next, !.user = u] \in RequestForms
        /\ Asked([request[b] EXCEPT !.pc = next, !.user = u])
    <3>1. request[b] \in RequestForms
      BY DEF AccountsTyped
    <3>2. [request[b] EXCEPT !.pc = next, !.user = u] \in RequestForms
      BY <2>1, <3>1 DEF RequestForms
    <3>3. QED
      BY <1>8, <3>1, <3>2 DEF RequestForms, Asked
  <2>3. QED
    BY <1>1, <1>8, <2>2
<1>9. ASSUME NEW b \in Browsers, Verify(b) PROVE AccountsTyped'
  <2>1. CASE Ask(b, Idle)
    BY <1>1, <1>9, <2>1, IdleTyped DEF Verify
  <2>2. CASE Exists(request[b].email)
             /\ Ask(b, [request[b] EXCEPT !.pc = "rotate",
                                          !.user = UserOf(request[b].email)])
    BY <1>8, <1>9, <2>2, UserExists DEF Verify
  <2>3. QED
    BY <1>9, <2>1, <2>2 DEF Verify, Fail
<1>10. ASSUME NEW b \in Browsers, FindAddress(b) PROVE AccountsTyped'
  <2>1. CASE Exists(request[b].email)
    BY <1>8, <1>10, <2>1, UserExists DEF FindAddress
  <2>2. CASE Goto(b, "adopt")
    <3>1. [request[b] EXCEPT !.pc = "adopt"] \in RequestForms
          /\ Asked([request[b] EXCEPT !.pc = "adopt"])
      BY <1>10 DEF FindAddress, At, AccountsTyped, RequestForms, Asked
    <3>2. Ask(b, [request[b] EXCEPT !.pc = "adopt"])
      BY <2>2 DEF Goto, Ask
    <3>3. QED
      BY <1>1, <1>10, <3>1, <3>2 DEF FindAddress
  <2>3. QED
    BY <1>10, <2>1, <2>2 DEF FindAddress
<1>11. ASSUME NEW b \in Browsers, FindDriver(b) PROVE AccountsTyped'
  <2>1. ASSUME NEW u \in Owners(request[b].email),
               Ask(b, [request[b] EXCEPT !.pc = "link", !.user = u])
        PROVE  AccountsTyped'
    <3>1. u \in DOMAIN users /\ request[b].email \in Drivers
      BY <1>11 DEF FindDriver, At, Owners, AccountsTyped, Asked
    <3>2. QED
      BY <1>8, <1>11, <2>1, <3>1 DEF FindDriver
  <2>2. CASE Goto(b, "enrol")
    <3>1. [request[b] EXCEPT !.pc = "enrol"] \in RequestForms
          /\ Asked([request[b] EXCEPT !.pc = "enrol"])
      BY <1>11 DEF FindDriver, At, AccountsTyped, RequestForms, Asked
    <3>2. Ask(b, [request[b] EXCEPT !.pc = "enrol"])
      BY <2>2 DEF Goto, Ask
    <3>3. QED
      BY <1>1, <1>11, <3>1, <3>2 DEF FindDriver
  <2>3. QED
    BY <1>11, <2>1, <2>2 DEF FindDriver
<1>12. ASSUME NEW b \in Browsers, Link(b) PROVE AccountsTyped'
  <2>1. [request[b] EXCEPT !.pc = "rotate"] \in RequestForms
        /\ Asked([request[b] EXCEPT !.pc = "rotate"])
    BY <1>12 DEF Link, At, AccountsTyped, RequestForms, Asked
  <2>2. Ask(b, [request[b] EXCEPT !.pc = "rotate"])
    BY <1>12 DEF Link, Goto, Ask
  <2>3. request[b].user \in DOMAIN users
    BY <1>12 DEF Link, At, AccountsTyped, Asked
  <2>4. QED
    BY <1>12, <2>1, <2>2, <2>3, Moved DEF Link, AccountsTyped
<1>13. ASSUME NEW b \in Browsers, SetPassword(b) \/ Rotate(b) PROVE AccountsTyped'
  <2>1. request[b].user \in DOMAIN users /\ request[b].epoch \in Nat
        /\ DOMAIN users = 1..Len(users) /\ Len(users) \in Nat
    BY <1>13, LenProperties DEF SetPassword, Rotate, At, AccountsTyped, RequestForms, Asked
  <2>2. users[request[b].user] \in Account
    BY <2>1, ElementOfSeq DEF AccountsTyped
  <2>3. /\ [users EXCEPT ![request[b].user].epoch = request[b].epoch] \in Seq(Account)
        /\ DOMAIN [users EXCEPT ![request[b].user].epoch = request[b].epoch] = DOMAIN users
    <3>1. [users[request[b].user] EXCEPT !.epoch = request[b].epoch] \in Account
      BY <2>1, <2>2 DEF Account
    <3>2. QED
      BY <2>1, <3>1, ExceptSeq, LenProperties DEF AccountsTyped
  <2>4. CASE SetPassword(b)
    <3>1. request[b].password \in Passwords
      BY <2>4 DEF SetPassword, At, AccountsTyped, Asked
    <3>2. [users[request[b].user] EXCEPT !.password = request[b].password] \in Account
      BY <2>2, <3>1 DEF Account
    <3>3. users' \in Seq(Account) /\ DOMAIN users' = DOMAIN users
      BY <2>1, <2>4, <3>2, ExceptSeq, LenProperties DEF AccountsTyped, SetPassword
    <3>4. QED
      BY <2>4, <3>3, Moved, IdleTyped DEF SetPassword, AccountsTyped
  <2>5. CASE Rotate(b)
    <3>1. users' \in Seq(Account) /\ DOMAIN users' = DOMAIN users
      BY <2>3, <2>5 DEF Rotate, Rotated
    <3>2. cookie' = [cookie EXCEPT ![b] = [user |-> request[b].user,
                       epoch |-> request[b].epoch, expires |-> clock + TTL]]
      BY <2>5 DEF Rotate, Rotated, Issue
    <3>3. [user |-> request[b].user, epoch |-> request[b].epoch,
           expires |-> clock + TTL] \in [user : Nat, epoch : Nat, expires : Nat]
      BY <2>1, AccountsAssumption DEF AccountsTyped
    <3>4. /\ cookie' \in [Browsers -> {None} \cup [user : Nat, epoch : Nat, expires : Nat]]
          /\ \A a \in Browsers : cookie'[a] # None => cookie'[a].user \in DOMAIN users'
      BY <2>1, <3>1, <3>2, <3>3 DEF AccountsTyped
    <3>5. QED
      BY <2>5, <3>1, <3>4, Moved, IdleTyped DEF Rotate, AccountsTyped
  <2>6. QED
    BY <1>13, <2>4, <2>5
<1>14. ASSUME NEW b \in Browsers, Disconnect(b) \/ Logout(b) PROVE AccountsTyped'
  BY <1>14 DEF Disconnect, Logout, tables, AccountsTyped, Asked
<1>15. ASSUME NEW e \in Emails, Forgot(e) PROVE AccountsTyped'
  BY <1>15, UserExists DEF Forgot, AccountsTyped, Asked
<1>16. CASE Tick
  BY <1>16 DEF Tick, tables, AccountsTyped, Asked
<1>17. CASE Die
  BY <1>17, IdleTyped DEF Die, tables, AccountsTyped, Asked
<1>18. CASE UNCHANGED vars
  BY <1>18 DEF vars, tables, AccountsTyped, Asked
<1>19. QED
  BY <1>2, <1>3, <1>4, <1>5, <1>6, <1>7, <1>9, <1>10, <1>11, <1>12, <1>13, <1>14,
     <1>15, <1>16, <1>17, <1>18 DEF Next, Step

\* Accounts, cookies and requests always are what the tables and the code can
\* hold: a cookie and a link name an account that exists.
THEOREM AccountsTypeCorrect == Spec => []AccountsTyped
BY TypedInit, TypedNext, PTL DEF Spec

-----------------------------------------------------------------------------
(* One account per address.                                                *)

LEMMA UniqueNext == AccountsTyped /\ OneAccountPerEmail /\ [Next]_vars => OneAccountPerEmail'
<1> SUFFICES ASSUME AccountsTyped, OneAccountPerEmail, [Next]_vars
             PROVE  OneAccountPerEmail'
  OBVIOUS
<1>1. /\ DOMAIN users = 1..Len(users) /\ Len(users) \in Nat
      /\ \A u \in DOMAIN users : users[u] \in Account
  BY LenProperties, ElementOfSeq DEF AccountsTyped
<1>2. ASSUME NEW b \in Browsers, NEW email \in Emails \cup Drivers,
             NEW password \in Passwords \cup {Unset}, NEW next,
             Insert(b, email, password, next)
      PROVE  OneAccountPerEmail'
  <2> DEFINE row == [email |-> email, password |-> password,
                     epoch |-> request[b].epoch]
  <2>1. CASE users' = users
    BY <2>1 DEF OneAccountPerEmail
  <2>2. CASE ~Exists(email) /\ users' = Append(users, row)
    <3>1. row \in Account /\ row.email = email
      BY <1>2 DEF AccountsTyped, Account, RequestForms
    <3>2. /\ DOMAIN users' = 1 .. Len(users) + 1 /\ users'[Len(users) + 1] = row
          /\ \A u \in DOMAIN users : users'[u] = users[u]
      <4> HIDE DEF row
      <4>1. QED
        BY <1>1, <2>2, <3>1, AppendProperties, LenProperties DEF AccountsTyped
    <3>3. \A u \in DOMAIN users : users[u].email # email
      BY <2>2 DEF Exists
    <3>4. \A u \in DOMAIN users' : u \in DOMAIN users \/ u = Len(users) + 1
      BY <1>1, <3>2
    <3> HIDE DEF row
    <3>5. QED
      BY <3>1, <3>2, <3>3, <3>4 DEF OneAccountPerEmail
  <2>3. QED
    BY <1>2, <2>1, <2>2 DEF Insert, Taken
<1>3. ASSUME NEW b \in Browsers, Create(b) \/ Adopt(b) \/ Enrol(b)
      PROVE  OneAccountPerEmail'
  <2>1. CASE Create(b)
    BY <1>2, <2>1 DEF Create, At, AccountsTyped, Asked
  <2>2. CASE Adopt(b)
    BY <1>2, <2>2 DEF Adopt, At, AccountsTyped, Asked
  <2>3. CASE Enrol(b)
    BY <1>2, <2>3 DEF Enrol, At, AccountsTyped, Asked
  <2>4. QED
    BY <1>3, <2>1, <2>2, <2>3
<1>4. ASSUME NEW b \in Browsers, SetPassword(b) \/ Rotate(b)
      PROVE  /\ DOMAIN users' = DOMAIN users
             /\ \A u \in DOMAIN users : users'[u].email = users[u].email
  BY <1>1, <1>4 DEF SetPassword, Rotate, Account
<1>5. ASSUME NEW b \in Browsers, SetPassword(b) \/ Rotate(b)
      PROVE  OneAccountPerEmail'
  BY <1>4, <1>5 DEF OneAccountPerEmail
<1>6. CASE users' = users
  BY <1>6 DEF OneAccountPerEmail
<1>7. QED
  BY <1>3, <1>5, <1>6
     DEF Next, Step, vars, tables, Register, Login, Google, Garage, Reset, CheckFree,
     Verify, FindAddress, FindDriver, Link, Disconnect, Logout, Forgot, Tick, Die

\* No two accounts have the same address, whichever requests looked for it
\* before either inserted it.
THEOREM AddressesUnique == Spec => []OneAccountPerEmail
<1>1. Init => OneAccountPerEmail
  BY DEF Init, OneAccountPerEmail
<1>2. QED
  BY <1>1, TypedInit, TypedNext, UniqueNext, PTL DEF Spec

-----------------------------------------------------------------------------
(* One live session per account.                                           *)

\* Nobody gets a new number: requests go on or end, cookies stay or go.
LEMMA QuietNumbered ==
  ASSUME AccountsTyped, Numbered,
         \A a \in Browsers :
           /\ \/ request'[a] = Idle
              \/ /\ request'[a].epoch = request[a].epoch
                 /\ At(a, "idle") => request'[a].pc = "idle"
           /\ cookie'[a] \in {cookie[a], None},
         used'.requests \in Nat, used.requests <= used'.requests
  PROVE  Numbered'
<1>1. /\ used.requests \in Nat
      /\ \A a \in Browsers : request[a].epoch \in Nat
      /\ \A a \in Browsers : cookie[a] # None => cookie[a].epoch \in Nat
  BY DEF AccountsTyped, RequestForms
<1>2. Idle.epoch = 0 /\ Idle.pc = "idle"
  BY DEF Idle
<1>3. \A a \in Browsers : ~At(a, "idle")' =>
        ~At(a, "idle") /\ request'[a].epoch = request[a].epoch
  BY <1>2 DEF At
<1>4. \A a \in Browsers : cookie'[a] # None =>
        cookie[a] # None /\ cookie'[a] = cookie[a]
  OBVIOUS
<1>5. \A a \in Browsers : /\ request'[a].epoch <= used'.requests
                          /\ cookie'[a] # None => cookie'[a].epoch <= used'.requests
  BY <1>1, <1>2, <1>4 DEF Numbered
<1>6. QED
  BY <1>3, <1>4, <1>5 DEF Numbered

\* The number of a request that arrives is higher than any before.
LEMMA ArrivedNumbered ==
  ASSUME AccountsTyped, Numbered, NEW b \in Browsers, NEW r \in RequestForms, r.pc # "idle",
         Arrive(b, r), UNCHANGED cookie
  PROVE  Numbered'
<1>1. /\ used.requests \in Nat /\ used'.requests = used.requests + 1
      /\ \A a \in Browsers : request[a].epoch \in Nat
      /\ \A a \in Browsers : cookie[a] # None => cookie[a].epoch \in Nat
  BY DEF AccountsTyped, RequestForms, Arrive
<1>2. /\ request'[b].epoch = used.requests + 1
      /\ \A a \in Browsers : a # b => request'[a] = request[a]
  BY DEF Arrive, Ask, AccountsTyped, RequestForms
<1>3. \A a \in Browsers : a # b => At(a, "idle")' = At(a, "idle")
  BY <1>2 DEF At
<1>4. QED
  BY <1>1, <1>2, <1>3 DEF Numbered

\* The number of a request that signs in goes over to the cookie.
LEMMA IssuedNumbered ==
  ASSUME AccountsTyped, Numbered, NEW b \in Browsers, ~At(b, "idle"), NEW u,
         Issue(b, u, request[b].epoch), Ask(b, Idle), UNCHANGED used
  PROVE  Numbered'
<1>1. /\ request'[b] = Idle /\ Idle.pc = "idle" /\ Idle.epoch = 0
      /\ \A a \in Browsers : a # b => request'[a] = request[a]
      /\ used.requests \in Nat /\ \A a \in Browsers : request[a].epoch \in Nat
  BY DEF Ask, Idle, AccountsTyped, RequestForms
<1>2. /\ cookie'[b].epoch = request[b].epoch
      /\ \A a \in Browsers : a # b => cookie'[a] = cookie[a]
  BY DEF Issue, AccountsTyped
<1>3. \A a \in Browsers : At(a, "idle")' <=> a = b \/ At(a, "idle")
  BY <1>1 DEF At
<1>4. QED
  BY <1>1, <1>2, <1>3 DEF Numbered

LEMMA NumberedNext == AccountsTyped /\ Numbered /\ [Next]_vars => Numbered'
<1> SUFFICES ASSUME AccountsTyped, Numbered, [Next]_vars PROVE Numbered'
  OBVIOUS
<1>1. used.requests \in Nat /\ Idle.pc = "idle"
  BY DEF AccountsTyped, Idle
<1>2. ASSUME NEW b \in Browsers, NEW r, Ask(b, r),
             r = Idle \/ (~At(b, "idle") /\ r.epoch = request[b].epoch),
             UNCHANGED <<cookie, used>>
      PROVE  Numbered'
  <2>1. \A a \in Browsers : request'[a] = IF a = b THEN r ELSE request[a]
    BY <1>2 DEF Ask, AccountsTyped
  <2>2. QED
    BY <1>1, <1>2, <2>1, QuietNumbered DEF At
<1>3. ASSUME NEW b \in Browsers, NEW e \in Emails, NEW p \in Passwords,
             Register(b, e, p) \/ Login(b, e, p)
      PROVE  Numbered'
  <2>1. \A step \in {"register", "login"} :
          [Idle EXCEPT !.pc = step, !.email = e, !.password = p] \in RequestForms
          /\ [Idle EXCEPT !.pc = step, !.email = e, !.password = p].pc # "idle"
    BY DEF Idle, RequestForms
  <2>2. QED
    BY <1>3, <2>1, ArrivedNumbered DEF Register, Login
<1>4. ASSUME NEW b \in Browsers, NEW e \in Emails, Google(b, e) PROVE Numbered'
  <2>1. [Idle EXCEPT !.pc = "google", !.email = e] \in RequestForms
        /\ [Idle EXCEPT !.pc = "google", !.email = e].pc # "idle"
    BY DEF Idle, RequestForms
  <2>2. QED
    BY <1>4, <2>1, ArrivedNumbered DEF Google
<1>5. ASSUME NEW b \in Browsers, NEW d \in Drivers, Garage(b, d) PROVE Numbered'
  <2>1. [Idle EXCEPT !.pc = "garage", !.email = d] \in RequestForms
        /\ [Idle EXCEPT !.pc = "garage", !.email = d].pc # "idle"
    BY DEF Idle, RequestForms
  <2>2. QED
    BY <1>5, <2>1, ArrivedNumbered DEF Garage
<1>6. ASSUME NEW b \in Browsers, NEW r \in resets, NEW p \in Passwords, Reset(b, r, p)
      PROVE  Numbered'
  <2>1. r.user \in Nat /\ r.number \in Nat
    BY LenProperties DEF AccountsTyped
  <2>2. [Idle EXCEPT !.pc = "reset", !.password = p, !.user = r.user,
         !.link = r.number] \in RequestForms
        /\ [Idle EXCEPT !.pc = "reset", !.password = p, !.user = r.user,
         !.link = r.number].pc # "idle"
    BY <2>1 DEF Idle, RequestForms
  <2>3. QED
    BY <1>6, <2>2, ArrivedNumbered DEF Reset
<1>7. ASSUME NEW b \in Browsers, NEW email, NEW password, NEW next, ~At(b, "idle"),
             Insert(b, email, password, next), UNCHANGED used
      PROVE  Numbered'
  <2>1. CASE Ask(b, Idle) /\ UNCHANGED cookie
    BY <1>2, <1>7, <2>1
  <2>2. CASE Issue(b, Len(users) + 1, request[b].epoch) /\ Ask(b, Idle)
    BY <1>7, <2>2, IssuedNumbered
  <2>3. CASE Ask(b, [request[b] EXCEPT !.pc = next, !.user = Len(users) + 1])
             /\ UNCHANGED cookie
    <3>1. [request[b] EXCEPT !.pc = next, !.user = Len(users) + 1].epoch
            = request[b].epoch
      BY DEF AccountsTyped, RequestForms
    <3>2. QED
      BY <1>2, <1>7, <2>3, <3>1
  <2>4. QED
    BY <1>7, <2>1, <2>2, <2>3 DEF Insert
<1>8. ASSUME NEW b \in Browsers, Create(b) \/ Adopt(b) \/ Enrol(b) PROVE Numbered'
  BY <1>7, <1>8 DEF Create, Adopt, Enrol, At
<1>9. ASSUME NEW b \in Browsers, NEW step,
             Ask(b, [request[b] EXCEPT !.pc = step]), ~At(b, "idle"),
             UNCHANGED <<cookie, used>>
      PROVE  Numbered'
  <2>1. [request[b] EXCEPT !.pc = step].epoch = request[b].epoch
    BY DEF AccountsTyped, RequestForms
  <2>2. QED
    BY <1>2, <1>9, <2>1
<1>10. ASSUME NEW b \in Browsers, NEW step, NEW u,
              Ask(b, [request[b] EXCEPT !.pc = step, !.user = u]), ~At(b, "idle"),
              UNCHANGED <<cookie, used>>
       PROVE  Numbered'
  <2>1. [request[b] EXCEPT !.pc = step, !.user = u].epoch = request[b].epoch
    BY DEF AccountsTyped, RequestForms
  <2>2. QED
    BY <1>2, <1>10, <2>1
<1>11. ASSUME NEW b \in Browsers,
              CheckFree(b) \/ Verify(b) \/ FindAddress(b) \/ FindDriver(b) \/ Link(b)
       PROVE  Numbered'
  <2>1. ~At(b, "idle") /\ UNCHANGED <<cookie, used>>
    BY <1>11 DEF CheckFree, Verify, FindAddress, FindDriver, Link, At, tables
  <2>2. ASSUME Ask(b, Idle) PROVE Numbered'
    BY <1>2, <2>1, <2>2
  <2>3. ASSUME NEW step, Goto(b, step) PROVE Numbered'
    BY <1>9, <2>1, <2>3 DEF Goto, Ask
  <2>4. ASSUME NEW step, NEW u, Ask(b, [request[b] EXCEPT !.pc = step, !.user = u])
        PROVE  Numbered'
    BY <1>10, <2>1, <2>4
  <2>5. CASE CheckFree(b)
    BY <2>2, <2>3, <2>5 DEF CheckFree, Fail
  <2>6. CASE Verify(b)
    BY <2>2, <2>4, <2>6 DEF Verify, Fail
  <2>7. CASE FindAddress(b)
    BY <2>3, <2>4, <2>7 DEF FindAddress
  <2>8. CASE FindDriver(b)
    BY <2>3, <2>4, <2>8 DEF FindDriver
  <2>9. CASE Link(b)
    BY <2>3, <2>9 DEF Link
  <2>10. QED
    BY <1>11, <2>5, <2>6, <2>7, <2>8, <2>9
<1>12. ASSUME NEW b \in Browsers, SetPassword(b) PROVE Numbered'
  BY <1>2, <1>12 DEF SetPassword
<1>13. ASSUME NEW b \in Browsers, Rotate(b) PROVE Numbered'
  BY <1>13, IssuedNumbered DEF Rotate, Rotated, At
<1>14. ASSUME NEW b \in Browsers, Disconnect(b) \/ Logout(b) PROVE Numbered'
  <2>1. \A a \in Browsers : cookie'[a] \in {cookie[a], None}
    BY <1>14 DEF Disconnect, Logout, AccountsTyped
  <2>2. QED
    BY <1>1, <1>14, <2>1, QuietNumbered DEF Disconnect, Logout, tables, At
<1>15. ASSUME NEW e \in Emails, Forgot(e) PROVE Numbered'
  <2>1. used'.requests = used.requests + 1
    BY <1>15 DEF Forgot, AccountsTyped
  <2>2. QED
    BY <1>1, <1>15, <2>1, QuietNumbered DEF Forgot, At
<1>16. CASE Tick
  BY <1>1, <1>16, QuietNumbered DEF Tick, tables, At
<1>17. CASE Die
  <2>1. used'.requests = used.requests
    BY <1>17 DEF Die, AccountsTyped
  <2>2. QED
    BY <1>1, <1>17, <2>1, QuietNumbered DEF Die
<1>18. CASE UNCHANGED vars
  BY <1>1, <1>18, QuietNumbered DEF vars, tables, At
<1>19. QED
  BY <1>3, <1>4, <1>5, <1>6, <1>8, <1>11, <1>12, <1>13, <1>14, <1>15, <1>16, <1>17,
     <1>18 DEF Next, Step

\* Of all cookies ever given for an account, at most one passes the check of
\* the epoch, however sign-ins overlap.
THEOREM SessionsExclusive == Spec => []OneLiveSession
<1>1. Init => Numbered
  BY DEF Init, Numbered, At, Idle
<1>2. Numbered => OneLiveSession
  BY DEF Numbered, OneLiveSession, Live, SignedIn
<1>3. QED
  BY <1>1, <1>2, TypedInit, TypedNext, NumberedNext, PTL DEF Spec

-----------------------------------------------------------------------------
(* Links are spent.                                                        *)

\* What a reset of an account leaves: every link the account still has was
\* asked for since, and every request with an older one had arrived before.
Spent ==
  \A s \in spent :
    /\ s.asked \in Nat /\ s.asked <= used.requests
    /\ \A r \in resets : r.user = s.user => r.number > s.asked
    /\ \A b \in Browsers : At(b, "reset") /\ request[b].user = s.user =>
         request[b].link > s.asked \/ request[b].epoch <= s.asked

\* No reset and no new link: requests for one go on as they were, or end.
LEMMA QuietSpent ==
  ASSUME AccountsTyped, Spent, spent' = spent, resets' = resets,
         \A b \in Browsers : At(b, "reset")' =>
           At(b, "reset") /\ request'[b] = request[b],
         used'.requests \in Nat, used.requests <= used'.requests
  PROVE  Spent'
<1>1. used.requests \in Nat
  BY DEF AccountsTyped
<1>2. \A s \in spent : s.asked \in Nat /\ s.asked <= used'.requests
  BY <1>1 DEF Spent
<1>3. QED
  BY <1>2 DEF Spent

\* A request that is not for a reset takes a step that is not one.
LEMMA OtherSpent ==
  ASSUME AccountsTyped, Spent, NEW b \in Browsers, NEW r, r.pc # "reset", Ask(b, r),
         spent' = spent, resets' = resets,
         used'.requests \in {used.requests, used.requests + 1}
  PROVE  Spent'
<1>1. used.requests \in Nat /\ used'.requests \in Nat
      /\ used.requests <= used'.requests
  BY DEF AccountsTyped
<1>2. \A a \in Browsers : request'[a] = IF a = b THEN r ELSE request[a]
  BY DEF Ask, AccountsTyped
<1>3. \A a \in Browsers : At(a, "reset")' =>
        At(a, "reset") /\ request'[a] = request[a]
  BY <1>2 DEF At
<1>4. QED
  BY <1>1, <1>3, QuietSpent

LEMMA ArrivedSpent ==
  ASSUME AccountsTyped, Spent, NEW b \in Browsers, NEW r \in RequestForms,
         r.pc # "reset", Arrive(b, r), UNCHANGED <<resets, spent>>
  PROVE  Spent'
<1>1. [r EXCEPT !.epoch = used.requests + 1].pc # "reset"
  BY DEF RequestForms
<1>2. used'.requests = used.requests + 1
  BY DEF Arrive, AccountsTyped
<1>3. QED
  BY <1>1, <1>2, OtherSpent DEF Arrive

\* The link a reset begins with is one the account still has.
LEMMA ResetSpent ==
  ASSUME AccountsTyped, Spent, NEW b \in Browsers, NEW r \in resets,
         NEW p \in Passwords, Reset(b, r, p)
  PROVE  Spent'
<1> DEFINE q == [[Idle EXCEPT !.pc = "reset", !.password = p, !.user = r.user,
                              !.link = r.number] EXCEPT !.epoch = used.requests + 1]
<1>1. q.user = r.user /\ q.link = r.number
  BY DEF Idle
<1>2. \A a \in Browsers : request'[a] = IF a = b THEN q ELSE request[a]
  BY DEF Reset, Arrive, Ask, AccountsTyped
<1>3. used.requests \in Nat /\ used'.requests = used.requests + 1
  BY DEF Reset, Arrive, AccountsTyped
<1>4. spent' = spent /\ resets' = resets
  BY DEF Reset, tables
<1> HIDE DEF q
<1>5. SUFFICES ASSUME NEW s \in spent
               PROVE  /\ s.asked \in Nat /\ s.asked <= used'.requests
                      /\ \A t \in resets : t.user = s.user => t.number > s.asked
                      /\ \A a \in Browsers :
                           request'[a].pc = "reset" /\ request'[a].user = s.user =>
                             request'[a].link > s.asked \/ request'[a].epoch <= s.asked
  BY <1>4 DEF Spent, At
<1>6. s.asked \in Nat /\ s.asked <= used'.requests
  BY <1>3 DEF Spent
<1>7. \A t \in resets : t.user = s.user => t.number > s.asked
  BY DEF Spent
<1>8. \A a \in Browsers :
        request'[a].pc = "reset" /\ request'[a].user = s.user =>
          request'[a].link > s.asked \/ request'[a].epoch <= s.asked
  BY <1>1, <1>2, <1>7 DEF Spent, At
<1>9. QED
  BY <1>6, <1>7, <1>8

\* Every link of the account goes, and who is under way has arrived.
LEMMA SetSpent ==
  ASSUME AccountsTyped, Numbered, Spent, NEW b \in Browsers, SetPassword(b)
  PROVE  Spent'
<1> DEFINE t == [user |-> request[b].user, link |-> request[b].link,
                 asked |-> used.requests]
<1>1. \A a \in Browsers : request'[a] = IF a = b THEN Idle ELSE request[a]
  BY DEF SetPassword, Ask, AccountsTyped
<1>2. used.requests \in Nat /\ used' = used
  BY DEF SetPassword, AccountsTyped
<1>3. spent' = spent \cup {t} /\ resets' = {r \in resets : r.user # t.user}
      /\ t.asked = used.requests
  BY DEF SetPassword, Spend
<1>4. \A a \in Browsers : At(a, "reset")' =>
        At(a, "reset") /\ request'[a] = request[a]
  BY <1>1 DEF At, Idle
<1> HIDE DEF t
<1>5. \A a \in Browsers : request[a].epoch <= t.asked
  BY <1>3 DEF Numbered
<1>6. ASSUME NEW s \in spent'
      PROVE  /\ s.asked \in Nat /\ s.asked <= used.requests
             /\ \A r \in resets' : r.user = s.user => r.number > s.asked
             /\ \A a \in Browsers :
                  At(a, "reset") /\ request[a].user = s.user =>
                    request[a].link > s.asked \/ request[a].epoch <= s.asked
  <2>1. CASE s \in spent
    BY <1>3, <2>1 DEF Spent
  <2>2. CASE s = t
    BY <1>2, <1>3, <1>5, <2>2
  <2>3. QED
    BY <1>3, <2>1, <2>2
<1>7. QED
  BY <1>2, <1>4, <1>6 DEF Spent

LEMMA SpentNext == AccountsTyped /\ Numbered /\ Spent /\ [Next]_vars => Spent'
<1> SUFFICES ASSUME AccountsTyped, Numbered, Spent, [Next]_vars PROVE Spent'
  OBVIOUS
<1>1. used.requests \in Nat /\ Idle.pc # "reset"
  BY DEF AccountsTyped, Idle
<1>2. ASSUME NEW b \in Browsers, NEW e \in Emails, NEW p \in Passwords,
             Register(b, e, p) \/ Login(b, e, p)
      PROVE  Spent'
  <2>1. \A step \in {"register", "login"} :
          [Idle EXCEPT !.pc = step, !.email = e, !.password = p] \in RequestForms
          /\ [Idle EXCEPT !.pc = step, !.email = e, !.password = p].pc # "reset"
    BY DEF Idle, RequestForms
  <2>2. QED
    BY <1>2, <2>1, ArrivedSpent DEF Register, Login, tables
<1>3. ASSUME NEW b \in Browsers, NEW e \in Emails, Google(b, e) PROVE Spent'
  <2>1. [Idle EXCEPT !.pc = "google", !.email = e] \in RequestForms
        /\ [Idle EXCEPT !.pc = "google", !.email = e].pc # "reset"
    BY DEF Idle, RequestForms
  <2>2. QED
    BY <1>3, <2>1, ArrivedSpent DEF Google, tables
<1>4. ASSUME NEW b \in Browsers, NEW d \in Drivers, Garage(b, d) PROVE Spent'
  <2>1. [Idle EXCEPT !.pc = "garage", !.email = d] \in RequestForms
        /\ [Idle EXCEPT !.pc = "garage", !.email = d].pc # "reset"
    BY DEF Idle, RequestForms
  <2>2. QED
    BY <1>4, <2>1, ArrivedSpent DEF Garage, tables
<1>5. ASSUME NEW b \in Browsers, NEW r, r.pc # "reset", Ask(b, r),
             UNCHANGED <<resets, spent, used>>
      PROVE  Spent'
  BY <1>5, OtherSpent
<1>6. ASSUME NEW b \in Browsers, NEW step, step # "reset", NEW u,
             \/ Ask(b, [request[b] EXCEPT !.pc = step])
             \/ Ask(b, [request[b] EXCEPT !.pc = step, !.user = u]),
             UNCHANGED <<resets, spent, used>>
      PROVE  Spent'
  <2>1. [request[b] EXCEPT !.pc = step].pc # "reset"
        /\ [request[b] EXCEPT !.pc = step, !.user = u].pc # "reset"
    BY <1>6 DEF AccountsTyped, RequestForms
  <2>2. QED
    BY <1>5, <1>6, <2>1
<1>7. ASSUME NEW b \in Browsers, Create(b) \/ Adopt(b) \/ Enrol(b) PROVE Spent'
  <2>1. PICK next \in {"done", "link"} :
          \/ Ask(b, Idle)
          \/ Ask(b, [request[b] EXCEPT !.pc = next, !.user = Len(users) + 1])
    BY <1>7 DEF Create, Adopt, Enrol, Insert
  <2>2. UNCHANGED <<resets, spent, used>>
    BY <1>7 DEF Create, Adopt, Enrol
  <2>3. CASE Ask(b, Idle)
    BY <1>1, <1>5, <2>2, <2>3
  <2>4. CASE Ask(b, [request[b] EXCEPT !.pc = next, !.user = Len(users) + 1])
    BY <1>6, <2>2, <2>4
  <2>5. QED
    BY <2>1, <2>3, <2>4
<1>8. ASSUME NEW b \in Browsers, CheckFree(b) \/ Verify(b) \/ FindAddress(b)
                                   \/ FindDriver(b) \/ Link(b) \/ Rotate(b)
      PROVE  Spent'
  <2>1. UNCHANGED <<resets, spent, used>>
    BY <1>8 DEF CheckFree, Verify, FindAddress, FindDriver, Link, Rotate, tables
  <2>2. ASSUME Ask(b, Idle) PROVE Spent'
    BY <1>1, <1>5, <2>1, <2>2
  <2>3. ASSUME NEW step, step # "reset", Goto(b, step) PROVE Spent'
    BY <1>6, <2>1, <2>3 DEF Goto, Ask
  <2>4. ASSUME NEW step, step # "reset", NEW u,
               Ask(b, [request[b] EXCEPT !.pc = step, !.user = u])
        PROVE  Spent'
    BY <1>6, <2>1, <2>4
  <2>5. CASE CheckFree(b)
    BY <2>2, <2>3, <2>5 DEF CheckFree, Fail
  <2>6. CASE Verify(b)
    BY <2>2, <2>4, <2>6 DEF Verify, Fail
  <2>7. CASE FindAddress(b)
    BY <2>3, <2>4, <2>7 DEF FindAddress
  <2>8. CASE FindDriver(b)
    BY <2>3, <2>4, <2>8 DEF FindDriver
  <2>9. CASE Link(b)
    BY <2>3, <2>9 DEF Link
  <2>10. CASE Rotate(b)
    BY <2>2, <2>10 DEF Rotate
  <2>11. QED
    BY <1>8, <2>5, <2>6, <2>7, <2>8, <2>9, <2>10
<1>9. ASSUME NEW b \in Browsers, Disconnect(b) \/ Logout(b) PROVE Spent'
  BY <1>1, <1>9, QuietSpent DEF Disconnect, Logout, tables, At
<1>10. ASSUME NEW e \in Emails, Forgot(e) PROVE Spent'
  <2>1. used'.requests = used.requests + 1 /\ request' = request /\ spent' = spent
    BY <1>10 DEF Forgot, AccountsTyped
  <2>2. \A r \in resets' : r \in resets \/ r.number = used.requests + 1
    BY <1>10 DEF Forgot
  <2>3. QED
    BY <1>1, <2>1, <2>2 DEF Spent, At
<1>11. CASE Tick
  BY <1>1, <1>11, QuietSpent DEF Tick, tables, At
<1>12. CASE Die
  <2>1. used'.requests = used.requests /\ \A b \in Browsers : ~At(b, "reset")'
    BY <1>12 DEF Die, AccountsTyped, At, Idle
  <2>2. QED
    BY <1>1, <1>12, <2>1, QuietSpent DEF Die, tables
<1>13. CASE UNCHANGED vars
  BY <1>1, <1>13, QuietSpent DEF vars, tables, At
<1>14. QED
  BY <1>2, <1>3, <1>4, <1>6, <1>7, <1>8, <1>9, <1>10, <1>11, <1>12, <1>13,
     ResetSpent, SetSpent DEF Next, Step

\* A link sets a second password, or one after another link of the account has
\* set one, only for a request that had arrived before the first was set, and
\* so may have looked it up before.
THEOREM ResetSpendsLinksEver == Spec => ResetSpendsLinks
<1>1. Init => Numbered /\ Spent
  BY DEF Init, Numbered, Spent, At, Idle
<1>2. AccountsTyped /\ Numbered /\ Spent =>
        [\A b \in Browsers : SetPassword(b) =>
           \A s \in spent : s.user = request[b].user =>
             request[b].link > s.asked \/ request[b].epoch <= s.asked]_vars
  BY DEF Spent, SetPassword
<1>3. QED
  BY <1>1, <1>2, TypedInit, TypedNext, NumberedNext, SpentNext, PTL
     DEF Spec, ResetSpendsLinks

-----------------------------------------------------------------------------
(* Who is locked out.                                                      *)

\* A token is of the driver the account was made for, and so is one that is
\* about to be stored.
Owned ==
  /\ \A u \in DOMAIN linked : linked[u] = users[u].email
  /\ \A b \in Browsers : At(b, "link") =>
       users[request[b].user].email = request[b].email

\* An account keeps its address, and a request between the account and the
\* token stays there.
AddressesStay ==
  /\ DOMAIN users \subseteq DOMAIN users'
  /\ \A u \in DOMAIN users : users'[u].email = users[u].email
LinksStay == \A a \in Browsers : At(a, "link") => request'[a] = request[a]
NoNewLink == \A a \in Browsers : At(a, "link")' => At(a, "link")

\* What is neither a sign-in's own business with tables nor a death.
QuietForLinks ==
  /\ linked' = linked /\ DOMAIN users' = DOMAIN users
  /\ AddressesStay /\ LinksStay /\ NoNewLink

LEMMA RequestQuiet ==
  ASSUME AccountsTyped, NEW b \in Browsers, ~At(b, "link"), NEW r, Ask(b, r)
  PROVE  LinksStay /\ (r.pc # "link" => NoNewLink)
BY DEF AccountsTyped, Ask, At, LinksStay, NoNewLink

LEMMA ArrivalQuiet ==
  ASSUME AccountsTyped, NEW b \in Browsers, NEW r \in RequestForms, r.pc # "link",
         Arrive(b, r), UNCHANGED tables
  PROVE  QuietForLinks
<1>1. [r EXCEPT !.epoch = used.requests + 1].pc # "link"
  BY DEF RequestForms
<1>2. ~At(b, "link")
  BY DEF Arrive, At
<1>3. LinksStay /\ NoNewLink
  BY <1>1, <1>2, RequestQuiet DEF Arrive
<1>4. QED
  BY <1>3 DEF QuietForLinks, AddressesStay, tables

\* An insertion adds one account, with the address it was asked for, or none.
LEMMA InsertsOne ==
  ASSUME AccountsTyped, NEW b \in Browsers, NEW email \in Emails \cup Drivers,
         NEW password \in Passwords \cup {Unset}, NEW next, Insert(b, email, password, next)
  PROVE  /\ AddressesStay
         /\ \A u \in DOMAIN users' \ DOMAIN users :
              /\ u = Len(users) + 1 /\ users'[u].email = email
              /\ next # "done" =>
                   Ask(b, [request[b] EXCEPT !.pc = next, !.user = u])
         /\ DOMAIN users' = DOMAIN users => Ask(b, Idle)
<1> DEFINE row == [email |-> email, password |-> password,
                   epoch |-> request[b].epoch]
<1>1. row \in Account /\ row.email = email /\ users \in Seq(Account)
      /\ Len(users) \in Nat /\ DOMAIN users = 1..Len(users)
  BY LenProperties DEF AccountsTyped, Account, RequestForms
<1>2. CASE Ask(b, Idle) /\ users' = users
  BY <1>2 DEF AddressesStay
<1>3. CASE /\ users' = Append(users, row)
           /\ next # "done" =>
                Ask(b, [request[b] EXCEPT !.pc = next, !.user = Len(users) + 1])
  <2> HIDE DEF row
  <2>1. /\ DOMAIN users' = 1 .. Len(users) + 1 /\ users'[Len(users) + 1] = row
        /\ \A u \in DOMAIN users : users'[u] = users[u]
    BY <1>1, <1>3, AppendProperties, LenProperties
  <2>2. DOMAIN users' \ DOMAIN users = {Len(users) + 1} /\ DOMAIN users' # DOMAIN users
        /\ DOMAIN users \subseteq DOMAIN users'
    <3>1. \A u : u \in DOMAIN users' <=> u \in DOMAIN users \/ u = Len(users) + 1
      BY <1>1, <2>1
    <3>2. Len(users) + 1 \notin DOMAIN users
      BY <1>1
    <3>3. QED
      BY <3>1, <3>2
  <2>3. QED
    BY <1>1, <1>3, <2>1, <2>2 DEF AddressesStay
<1>4. QED
  BY <1>2, <1>3 DEF Insert

\* Every step is one of these.
LEMMA LinkSteps ==
  ASSUME AccountsTyped, [Next]_vars
  PROVE  \/ QuietForLinks
         \/ Die
         \/ \E b \in Browsers : FindDriver(b) \/ Create(b) \/ Adopt(b) \/ Enrol(b)
                                 \/ Link(b) \/ Disconnect(b)
<1>1. ASSUME NEW b \in Browsers, NEW r, ~At(b, "link"), Ask(b, r), r.pc # "link",
             linked' = linked, DOMAIN users' = DOMAIN users,
             \A u \in DOMAIN users : users'[u].email = users[u].email
      PROVE  QuietForLinks
  BY <1>1, RequestQuiet DEF QuietForLinks, AddressesStay
<1>2. /\ Idle.pc # "link"
      /\ \A b \in Browsers : \A p, u :
           /\ [request[b] EXCEPT !.pc = p].pc = p
           /\ [request[b] EXCEPT !.pc = p, !.user = u].pc = p
  BY DEF Idle, AccountsTyped, RequestForms
<1>3. ASSUME NEW b \in Browsers, NEW e \in Emails, NEW p \in Passwords,
             Register(b, e, p) \/ Login(b, e, p)
      PROVE  QuietForLinks
  <2>1. \A step \in {"register", "login"} :
          [Idle EXCEPT !.pc = step, !.email = e, !.password = p] \in RequestForms
          /\ [Idle EXCEPT !.pc = step, !.email = e, !.password = p].pc # "link"
    BY DEF Idle, RequestForms
  <2>2. QED
    BY <1>3, <2>1, ArrivalQuiet DEF Register, Login
<1>4. ASSUME NEW b \in Browsers, NEW e \in Emails, Google(b, e) PROVE QuietForLinks
  <2>1. [Idle EXCEPT !.pc = "google", !.email = e] \in RequestForms
        /\ [Idle EXCEPT !.pc = "google", !.email = e].pc # "link"
    BY DEF Idle, RequestForms
  <2>2. QED
    BY <1>4, <2>1, ArrivalQuiet DEF Google
<1>5. ASSUME NEW b \in Browsers, NEW d \in Drivers, Garage(b, d) PROVE QuietForLinks
  <2>1. [Idle EXCEPT !.pc = "garage", !.email = d] \in RequestForms
        /\ [Idle EXCEPT !.pc = "garage", !.email = d].pc # "link"
    BY DEF Idle, RequestForms
  <2>2. QED
    BY <1>5, <2>1, ArrivalQuiet DEF Garage
<1>6. ASSUME NEW b \in Browsers, NEW r \in resets, NEW p \in Passwords, Reset(b, r, p)
      PROVE  QuietForLinks
  <2>1. r.user \in Nat /\ r.number \in Nat
    BY LenProperties DEF AccountsTyped
  <2>2. [Idle EXCEPT !.pc = "reset", !.password = p, !.user = r.user,
         !.link = r.number] \in RequestForms
        /\ [Idle EXCEPT !.pc = "reset", !.password = p, !.user = r.user,
         !.link = r.number].pc # "link"
    BY <2>1 DEF Idle, RequestForms
  <2>3. QED
    BY <1>6, <2>2, ArrivalQuiet DEF Reset
<1>7. ASSUME NEW b \in Browsers, CheckFree(b) \/ Verify(b) \/ FindAddress(b)
      PROVE  QuietForLinks
  <2>1. ~At(b, "link") /\ linked' = linked /\ users' = users
    BY <1>7 DEF CheckFree, Verify, FindAddress, At, tables
  <2>2. ASSUME Ask(b, Idle) PROVE QuietForLinks
    BY <1>1, <1>2, <2>1, <2>2
  <2>3. ASSUME NEW step, step # "link", Goto(b, step) PROVE QuietForLinks
    <3>1. [request[b] EXCEPT !.pc = step].pc = step
      BY <1>2
    <3>2. Ask(b, [request[b] EXCEPT !.pc = step])
      BY <2>3 DEF Goto, Ask
    <3>3. QED
      BY <1>1, <2>1, <2>3, <3>1, <3>2
  <2>4. ASSUME NEW u, Ask(b, [request[b] EXCEPT !.pc = "rotate", !.user = u])
        PROVE  QuietForLinks
    <3>1. [request[b] EXCEPT !.pc = "rotate", !.user = u].pc = "rotate"
      BY <1>2
    <3>2. QED
      BY <1>1, <2>1, <2>4, <3>1
  <2>5. CASE CheckFree(b)
    BY <2>2, <2>3, <2>5 DEF CheckFree, Fail
  <2>6. CASE Verify(b)
    BY <2>2, <2>4, <2>6 DEF Verify, Fail
  <2>7. CASE FindAddress(b)
    BY <2>3, <2>4, <2>7 DEF FindAddress
  <2>8. QED
    BY <1>7, <2>5, <2>6, <2>7
<1>8. ASSUME NEW b \in Browsers, SetPassword(b) \/ Rotate(b) PROVE QuietForLinks
  <2>1. \A u \in DOMAIN users : users[u] \in Account
    BY ElementOfSeq, LenProperties DEF AccountsTyped
  <2>2. DOMAIN users' = DOMAIN users
        /\ \A u \in DOMAIN users : users'[u].email = users[u].email
    BY <1>8, <2>1 DEF SetPassword, Rotate, Account
  <2>3. ~At(b, "link") /\ Ask(b, Idle) /\ linked' = linked
    BY <1>8 DEF SetPassword, Rotate, At
  <2>4. QED
    BY <1>1, <1>2, <2>2, <2>3
<1>9. CASE UNCHANGED <<users, linked, request>>
  BY <1>9 DEF QuietForLinks, AddressesStay, LinksStay, NoNewLink, At
<1>10. QED
  BY <1>3, <1>4, <1>5, <1>6, <1>7, <1>8, <1>9
     DEF Next, Step, vars, tables, Logout, Forgot, Tick

\* The three insertions, and which addresses they may be of.
LEMMA Insertions ==
  ASSUME AccountsTyped, NEW b \in Browsers, Create(b) \/ Adopt(b) \/ Enrol(b)
  PROVE  /\ linked' = linked /\ AddressesStay /\ LinksStay
         /\ \A u \in DOMAIN users' \ DOMAIN users :
              users'[u].email = request[b].email
         /\ \A a \in Browsers : At(a, "link")' /\ ~At(a, "link") =>
              /\ request'[a].user \in DOMAIN users' \ DOMAIN users
              /\ request'[a].email = request[b].email
         /\ Enrol(b) /\ DOMAIN users' # DOMAIN users =>
              At(b, "link")' /\ request'[b].email = request[b].email
<1>1. request[b] \in RequestForms /\ request \in [Browsers -> RequestForms]
  BY DEF AccountsTyped
<1>2. \A p, u : /\ [request[b] EXCEPT !.pc = p, !.user = u].pc = p
                /\ [request[b] EXCEPT !.pc = p, !.user = u].user = u
                /\ [request[b] EXCEPT !.pc = p, !.user = u].email = request[b].email
  BY <1>1 DEF RequestForms
<1>3. linked' = linked /\ ~At(b, "link") /\ Idle.pc # "link"
  BY DEF Create, Adopt, Enrol, At, Idle
<1>4. PICK r : Ask(b, r)
  BY DEF Create, Adopt, Enrol, Insert
<1>5. LinksStay /\ \A a \in Browsers : request'[a] = IF a = b THEN r ELSE request[a]
  BY <1>1, <1>3, <1>4, RequestQuiet DEF Ask
<1>6. \A a \in Browsers : At(a, "link")' /\ ~At(a, "link") => a = b
  BY <1>5 DEF At
<1>7. CASE Create(b) \/ Adopt(b)
  <2>1. PICK email \in Emails \cup Drivers, password \in Passwords \cup {Unset} :
          email = request[b].email /\ Insert(b, email, password, "done")
    BY <1>7 DEF Create, Adopt, At, AccountsTyped, Asked
  <2>2. AddressesStay /\ \A u \in DOMAIN users' \ DOMAIN users : users'[u].email = email
    BY <2>1, InsertsOne
  <2>3. Ask(b, Idle)
    BY <2>1 DEF Insert
  <2>4. ~At(b, "link")'
    BY <1>1, <1>3, <2>3 DEF Ask, At
  <2>5. ~Enrol(b)
    BY <1>7 DEF Create, Adopt, Enrol, At
  <2>6. QED
    BY <1>3, <1>5, <1>6, <2>1, <2>2, <2>4, <2>5
<1>8. CASE Enrol(b)
  <2>1. request[b].email \in Emails \cup Drivers
    BY <1>8 DEF Enrol, At, AccountsTyped, Asked
  <2>2. Insert(b, request[b].email, Unset, "link")
    BY <1>8 DEF Enrol
  <2>3. /\ AddressesStay
        /\ \A u \in DOMAIN users' \ DOMAIN users :
             /\ users'[u].email = request[b].email
             /\ Ask(b, [request[b] EXCEPT !.pc = "link", !.user = u])
        /\ DOMAIN users' = DOMAIN users => Ask(b, Idle)
    BY <2>1, <2>2, InsertsOne
  <2>4. DOMAIN users' = DOMAIN users => ~At(b, "link")'
    BY <1>1, <1>3, <2>3 DEF Ask, At
  <2>5. \A u \in DOMAIN users' \ DOMAIN users :
          At(b, "link")' /\ request'[b].user = u /\ request'[b].email = request[b].email
    <3>1. ASSUME NEW u \in DOMAIN users' \ DOMAIN users
          PROVE  request'[b] = [request[b] EXCEPT !.pc = "link", !.user = u]
      BY <1>1, <2>3 DEF Ask
    <3>2. \A u : LET q == [request[b] EXCEPT !.pc = "link", !.user = u]
               IN q.pc = "link" /\ q.user = u /\ q.email = request[b].email
      BY <1>2
    <3>3. ASSUME NEW u \in DOMAIN users' \ DOMAIN users
          PROVE  /\ request'[b].pc = "link" /\ request'[b].user = u
                 /\ request'[b].email = request[b].email
      BY <3>1, <3>2
    <3>4. QED
      BY <3>3 DEF At
  <2>6. DOMAIN users' # DOMAIN users => \E u : u \in DOMAIN users' \ DOMAIN users
    BY <2>3 DEF AddressesStay
  <2>7. QED
    BY <1>3, <1>5, <1>6, <2>3, <2>4, <2>5, <2>6
<1>9. QED
  BY <1>7, <1>8

LEMMA OwnedNext == AccountsTyped /\ Owned /\ [Next]_vars => Owned'
<1> SUFFICES ASSUME AccountsTyped, Owned, [Next]_vars PROVE Owned'
  OBVIOUS
<1>1. /\ DOMAIN linked \subseteq DOMAIN users
      /\ \A a \in Browsers : At(a, "link") => request[a].user \in DOMAIN users
  BY DEF AccountsTyped, Asked, At
<1>2. CASE QuietForLinks
  BY <1>1, <1>2 DEF QuietForLinks, AddressesStay, LinksStay, NoNewLink, Owned
<1>3. CASE Die
  BY <1>3 DEF Die, tables, Owned, At, Idle
<1>4. ASSUME NEW b \in Browsers, FindDriver(b) PROVE Owned'
  <2>1. ~At(b, "link") /\ linked' = linked /\ users' = users
    BY <1>4 DEF FindDriver, At, tables
  <2>2. CASE Goto(b, "enrol")
    <3>1. LinksStay /\ NoNewLink
      <4>1. [request[b] EXCEPT !.pc = "enrol"].pc = "enrol"
        BY DEF AccountsTyped, RequestForms
      <4>2. Ask(b, [request[b] EXCEPT !.pc = "enrol"])
        BY <2>2 DEF Goto, Ask
      <4>3. QED
        BY <2>1, <4>1, <4>2, RequestQuiet
    <3>2. QED
      BY <2>1, <3>1 DEF LinksStay, NoNewLink, Owned
  <2>3. ASSUME NEW u \in Owners(request[b].email),
               Ask(b, [request[b] EXCEPT !.pc = "link", !.user = u])
        PROVE  Owned'
    <3>1. linked[u] = request[b].email /\ u \in DOMAIN linked
      BY <2>3 DEF Owners
    <3>2. /\ request'[b].user = u /\ request'[b].email = request[b].email
          /\ \A a \in Browsers : a # b => request'[a] = request[a]
      BY <2>3 DEF Ask, AccountsTyped, RequestForms
    <3>3. QED
      BY <2>1, <3>1, <3>2 DEF Owned, At
  <2>4. QED
    BY <1>4, <2>2, <2>3 DEF FindDriver
<1>5. ASSUME NEW b \in Browsers, Create(b) \/ Adopt(b) \/ Enrol(b) PROVE Owned'
  <2>1. /\ linked' = linked /\ AddressesStay /\ LinksStay
        /\ \A u \in DOMAIN users' \ DOMAIN users :
             users'[u].email = request[b].email
        /\ \A a \in Browsers : At(a, "link")' /\ ~At(a, "link") =>
             /\ request'[a].user \in DOMAIN users' \ DOMAIN users
             /\ request'[a].email = request[b].email
    BY <1>5, Insertions
  <2>2. QED
    BY <1>1, <2>1 DEF Owned, AddressesStay, LinksStay
<1>6. ASSUME NEW b \in Browsers, Link(b) PROVE Owned'
  <2>1. /\ users' = users /\ At(b, "link")
        /\ linked' = [v \in DOMAIN linked \cup {request[b].user} |->
                        IF v = request[b].user THEN request[b].email ELSE linked[v]]
    BY <1>6 DEF Link
  <2>2. \A a \in Browsers : At(a, "link")' => At(a, "link") /\ request'[a] = request[a]
    BY <1>6 DEF Link, Goto, At, AccountsTyped, RequestForms
  <2>3. QED
    BY <2>1, <2>2 DEF Owned
<1>7. ASSUME NEW b \in Browsers, Disconnect(b) PROVE Owned'
  BY <1>7 DEF Disconnect, Owned, At
<1>8. QED
  BY <1>2, <1>3, <1>4, <1>5, <1>6, <1>7, LinkSteps

\* Only a death before the token is stored, or a session of the account linked
\* to him, takes a driver the way back to his account, whoever signs in beside
\* him.
THEOREM OnlyHeLocksHimselfOutEver == Spec => OnlyHeLocksHimselfOut
<1> DEFINE Himself(d) ==
      \/ Die /\ \E b \in Browsers : At(b, "link") /\ request[b].email = d
      \/ \E b \in Browsers : Disconnect(b) /\ linked[cookie[b].user] = d
<1>1. Init => Owned
  BY DEF Init, Owned, At, Idle
<1>2. ASSUME AccountsTyped, Owned, [Next]_vars, NEW d \in Drivers, CanReturn(d),
             ~CanReturn(d)'
      PROVE  Himself(d)
  <2>1. Exists(d)' /\ Owners(d)' = {}
        /\ \A b \in Browsers : ~(At(b, "link")' /\ request'[b].email = d)
    BY <1>2 DEF CanReturn
  <2>2. PICK u \in DOMAIN users' : users'[u].email = d
    BY <2>1 DEF Exists
  <2>3. ASSUME LinksStay, DOMAIN linked \subseteq DOMAIN linked',
               \A v \in DOMAIN linked : linked'[v] = linked[v]
        PROVE  ~Exists(d)
    <3>1. Owners(d) = {}
      BY <2>1, <2>3 DEF Owners
    <3>2. \A b \in Browsers : ~(At(b, "link") /\ request[b].email = d)
      BY <2>1, <2>3 DEF LinksStay, At
    <3>3. QED
      BY <1>2, <3>1, <3>2 DEF CanReturn
  <2>4. CASE QuietForLinks
    <3>1. Exists(d)
      BY <2>2, <2>4 DEF QuietForLinks, AddressesStay, Exists
    <3>2. QED
      BY <2>3, <2>4, <3>1 DEF QuietForLinks
  <2>5. CASE Die
    <3>1. users' = users /\ linked' = linked
      BY <2>5 DEF Die, tables
    <3>2. Exists(d) /\ Owners(d) = {}
      BY <2>1, <2>2, <3>1 DEF Exists, Owners
    <3>3. QED
      BY <1>2, <2>5, <3>2 DEF CanReturn
  <2>6. ASSUME NEW b \in Browsers, FindDriver(b) PROVE FALSE
    <3>1. ~At(b, "link") /\ linked' = linked /\ users' = users
      BY <2>6 DEF FindDriver, At, tables
    <3>2. PICK r : Ask(b, r)
      BY <2>6 DEF FindDriver, Goto, Ask
    <3>3. LinksStay
      BY <1>2, <3>1, <3>2, RequestQuiet
    <3>4. QED
      BY <2>2, <2>3, <3>1, <3>3 DEF Exists
  <2>7. ASSUME NEW b \in Browsers, Create(b) \/ Adopt(b) \/ Enrol(b) PROVE FALSE
    <3>1. /\ linked' = linked /\ AddressesStay /\ LinksStay
          /\ \A v \in DOMAIN users' \ DOMAIN users :
               users'[v].email = request[b].email
          /\ Enrol(b) /\ DOMAIN users' # DOMAIN users =>
               At(b, "link")' /\ request'[b].email = request[b].email
      BY <1>2, <2>7, Insertions
    <3>2. ~Exists(d)
      BY <2>3, <3>1
    <3>3. u \notin DOMAIN users
      BY <2>2, <3>1, <3>2 DEF AddressesStay, Exists
    <3>4. request[b].email = d /\ DOMAIN users' # DOMAIN users
      BY <2>2, <3>1, <3>3
    <3>5. ~Enrol(b)
      BY <2>1, <3>1, <3>4
    <3>6. request[b].email \in Emails
      BY <1>2, <2>7, <3>5 DEF Create, Adopt, At, AccountsTyped, Asked
    <3>7. QED
      BY <3>4, <3>6, AccountsAssumption
  <2>8. ASSUME NEW b \in Browsers, Link(b) PROVE FALSE
    <3>1. /\ users' = users /\ At(b, "link")
          /\ linked' = [v \in DOMAIN linked \cup {request[b].user} |->
                          IF v = request[b].user THEN request[b].email ELSE linked[v]]
      BY <2>8 DEF Link
    <3>2. \A a \in Browsers \ {b} : request'[a] = request[a]
      BY <1>2, <2>8 DEF Link, Goto, AccountsTyped
    <3>3. users[request[b].user].email = request[b].email
      BY <1>2, <3>1 DEF Owned
    <3>4. \A v \in DOMAIN linked : v \in DOMAIN linked' /\ linked'[v] = linked[v]
      BY <1>2, <3>1, <3>3 DEF Owned
    <3>5. request[b].email # d
      BY <2>1, <3>1 DEF Owners
    <3>6. Owners(d) = {}
      BY <2>1, <3>4 DEF Owners
    <3>7. \A a \in Browsers : ~(At(a, "link") /\ request[a].email = d)
      BY <2>1, <3>2, <3>5 DEF At
    <3>8. Exists(d)
      BY <2>2, <3>1 DEF Exists
    <3>9. QED
      BY <1>2, <3>6, <3>7, <3>8 DEF CanReturn
  <2>9. ASSUME NEW b \in Browsers, Disconnect(b) PROVE Himself(d)
    <3>1. /\ users' = users /\ request' = request
          /\ linked' = [v \in DOMAIN linked \ {cookie[b].user} |-> linked[v]]
      BY <2>9 DEF Disconnect
    <3>2. Exists(d) /\ \A a \in Browsers : ~(At(a, "link") /\ request[a].email = d)
      BY <2>1, <2>2, <3>1 DEF Exists, At
    <3>3. PICK v \in DOMAIN linked : linked[v] = d
      BY <1>2, <3>2 DEF CanReturn, Owners
    <3>4. v = cookie[b].user
      BY <2>1, <3>1, <3>3 DEF Owners
    <3>5. QED
      BY <2>9, <3>3, <3>4
  <2>10. QED
    BY <1>2, <2>4, <2>5, <2>6, <2>7, <2>8, <2>9, LinkSteps
<1>3. AccountsTyped /\ Owned /\ [Next]_vars =>
        [\A d \in Drivers : CanReturn(d) /\ ~CanReturn(d)' => Himself(d)]_vars
  BY <1>2
<1>4. QED
  BY <1>1, <1>3, TypedInit, TypedNext, OwnedNext, PTL DEF Spec, OnlyHeLocksHimselfOut

-----------------------------------------------------------------------------
(* The driver payload.                                                     *)

Pages == [gen : 0 .. MaxGen, payload : Versions \cup {NoPayload}, error : BOOLEAN,
          promise : Requests \cup {NoPayload}]
Hooks == [mounted : BOOLEAN, gen : 0 .. MaxGen, wanted : 0 .. MaxGen,
          effect : BOOLEAN, ready : BOOLEAN, listens : BOOLEAN]
Begins == [gen : 0 .. MaxGen, real : 0 .. MaxGen, changes : Versions]

\* The part of TypeOK that is about types alone.
PayloadTyped ==
  /\ changes \in Versions
  /\ cache \in Versions \cup {NoPayload}
  /\ syncing \in BOOLEAN
  /\ server \in [Requests -> {"none", "lookup", "build", "store", "done", "error"}]
  /\ client \in [Requests -> {"none", "open", "arrived", "failed"}]
  /\ answer \in [Requests -> Versions \cup {NoPayload}]
  /\ begun \in [Requests -> Begins]
  /\ page \in Pages
  /\ hook \in Hooks
  /\ shown \in Versions \cup {NoPayload}

Tracked ==
  /\ hook.gen <= page.gen /\ hook.wanted <= page.gen
  /\ hook.effect \/ hook.ready => hook.mounted
  /\ page.promise # NoPayload => page.payload = NoPayload /\ ~page.error
  /\ page.error => page.payload = NoPayload
  /\ \A r \in Requests : client[r] # "none" =>
       begun[r].gen <= begun[r].real /\ begun[r].real <= page.gen
  /\ \A r \in Requests : client[r] = "open" => page.promise = r
  /\ \A r \in Requests :
       client[r] # "none" /\ begun[r].gen = page.gen => page.promise = r

PayloadInv == PayloadTyped /\ Tracked

LEMMA Bounds == /\ 0 \in 0 .. MaxGen /\ 0 \in 0 .. MaxChanges
                /\ \A n \in 0 .. MaxGen : n \in Int
BY DriverPayloadAssumption DEF DriverPayloadAssumption

LEMMA PayloadInvInit == PayloadInit => PayloadInv
<1> SUFFICES ASSUME PayloadInit PROVE PayloadInv
  OBVIOUS
<1> USE Bounds
<1>1. NoRequest \in Begins
  BY DEF NoRequest, Begins, Versions
<1>2. Unmounted \in Hooks
  BY DEF Unmounted, Hooks
<1>3. page \in Pages
  BY DEF PayloadInit, Pages
<1>4. PayloadTyped
  BY <1>1, <1>2, <1>3 DEF PayloadInit, PayloadTyped, Versions
<1>5. Tracked
  BY DEF PayloadInit, Tracked, Unmounted
<1> QED
  BY <1>4, <1>5 DEF PayloadInv

\* The fields of the records, each by itself.
LEMMA PageFields ==
  ASSUME PayloadTyped
  PROVE  /\ page.gen \in 0 .. MaxGen /\ page.payload \in Versions \cup {NoPayload}
         /\ page.error \in BOOLEAN /\ page.promise \in Requests \cup {NoPayload}
         /\ hook.mounted \in BOOLEAN /\ hook.gen \in 0 .. MaxGen
         /\ hook.wanted \in 0 .. MaxGen /\ hook.effect \in BOOLEAN
         /\ hook.ready \in BOOLEAN /\ hook.listens \in BOOLEAN
         /\ \A r \in Requests : begun[r].gen \in 0 .. MaxGen
                                /\ begun[r].real \in 0 .. MaxGen
BY DEF PayloadTyped, Pages, Hooks, Begins

\* The steps that only the store takes, or only the server.
LEMMA StoreKeeps ==
  ASSUME PayloadInv, Change \/ SyncStart \/ SyncEnd \/ SyncFail
  PROVE  PayloadInv'
<1> USE DEF PayloadInv, serverVars, requestVars, pageVars
<1>1. changes' \in Versions
  BY DriverPayloadAssumption DEF PayloadTyped, Versions, Change, SyncStart, SyncEnd, SyncFail
<1>2. cache' \in Versions \cup {NoPayload} /\ syncing' \in BOOLEAN
  BY DEF PayloadTyped, Change, SyncStart, SyncEnd, SyncFail
<1>3. UNCHANGED <<requestVars, pageVars>>
  BY DEF Change, SyncStart, SyncEnd, SyncFail
<1>4. PayloadTyped'
  BY <1>1, <1>2, <1>3 DEF PayloadTyped
<1>5. Tracked'
  BY <1>3 DEF Tracked
<1> QED
  BY <1>4, <1>5

LEMMA ServerKeeps ==
  ASSUME PayloadInv, NEW r \in Requests,
         Lookup(r) \/ Build(r) \/ Store(r) \/ BuildFails(r)
  PROVE  PayloadInv'
<1> USE DEF PayloadInv, serverVars, pageVars
<1>1. UNCHANGED <<changes, syncing, client, begun, page, hook, shown>>
  BY DEF Lookup, Build, Store, BuildFails
<1>2. cache' \in Versions \cup {NoPayload}
  BY DEF PayloadTyped, Lookup, Build, Store, BuildFails
<1>3. server' \in [Requests -> {"none", "lookup", "build", "store", "done", "error"}]
  BY DEF PayloadTyped, Lookup, Build, Store, BuildFails
<1>4. answer' \in [Requests -> Versions \cup {NoPayload}]
  BY DEF PayloadTyped, Lookup, Build, Store, BuildFails
<1>5. PayloadTyped'
  BY <1>1, <1>2, <1>3, <1>4 DEF PayloadTyped
<1>6. Tracked'
  BY <1>1 DEF Tracked
<1> QED
  BY <1>5, <1>6

\* The terminal event, or the loss of the connection: the request is no
\* longer open and is still the page's.
LEMMA EndingKeeps ==
  ASSUME PayloadInv, NEW r \in Requests, AnswerArrives(r) \/ Drop(r)
  PROVE  PayloadInv'
<1> USE DEF PayloadInv, serverVars, pageVars
<1>1. UNCHANGED <<changes, cache, syncing, server, answer, begun, page, hook, shown>>
  BY DEF AnswerArrives, Drop
<1>2. client[r] = "open"
  BY DEF AnswerArrives, Drop
<1>3. client' \in [Requests -> {"none", "open", "arrived", "failed"}]
  BY DEF PayloadTyped, AnswerArrives, Drop
<1>4. \A s \in Requests : client'[s] # "none" => client[s] # "none"
  BY <1>2 DEF PayloadTyped, AnswerArrives, Drop
<1>5. \A s \in Requests : client'[s] = "open" => client[s] = "open"
  BY <1>2 DEF PayloadTyped, AnswerArrives, Drop
<1>6. PayloadTyped'
  BY <1>1, <1>3 DEF PayloadTyped
<1>7. Tracked'
  BY <1>1, <1>4, <1>5 DEF Tracked
<1> QED
  BY <1>6, <1>7

\* .then and .catch: if the promise is of this generation it is the page's,
\* and no other request then claims to be.
LEMMA AnsweringKeeps ==
  ASSUME PayloadInv, NEW r \in Requests, Resolve(r) \/ Reject(r)
  PROVE  PayloadInv'
<1> USE DEF PayloadInv, serverVars
<1>1. UNCHANGED <<changes, cache, syncing, server, answer, begun, hook>>
  BY DEF Resolve, Reject
<1>2. client' = [client EXCEPT ![r] = "none"] /\ client[r] \notin {"none", "open"}
  BY DEF Resolve, Reject
<1>3. client' \in [Requests -> {"none", "open", "arrived", "failed"}]
  BY <1>2 DEF PayloadTyped
<1>4. \A s \in Requests : client'[s] # "none" => s # r /\ client'[s] = client[s]
  BY <1>2 DEF PayloadTyped
<1>5. page.gen \in Int /\ answer[r] \in Versions \cup {NoPayload}
  BY PageFields, Bounds DEF PayloadTyped
<1>6. CASE Delivers(r)
  <2>1. page.promise = r /\ page.payload = NoPayload /\ ~page.error
    BY <1>2, <1>6, DriverPayloadAssumption DEF Tracked, Delivers
  <2>2. page' \in Pages
        /\ page'.gen = page.gen /\ page'.promise = NoPayload
        /\ (page'.error => page'.payload = NoPayload)
    <3>1. CASE Resolve(r)
      BY <1>5, <1>6, <2>1, <3>1 DEF Resolve, PayloadTyped, Pages
    <3>2. CASE Reject(r)
      BY <1>6, <2>1, <3>2 DEF Reject, PayloadTyped, Pages
    <3> QED
      BY <3>1, <3>2
  <2>3. shown' \in Versions \cup {NoPayload}
    BY <1>5 DEF Resolve, Reject, PayloadTyped
  <2>4. PayloadTyped'
    BY <1>1, <1>3, <2>2, <2>3 DEF PayloadTyped
  <2>5. \A s \in Requests : client'[s] = "open" => FALSE
    BY <1>4, <2>1 DEF Tracked
  <2>6. \A s \in Requests : client'[s] # "none" => begun[s].gen # page.gen
    BY <1>4, <2>1 DEF Tracked
  <2>7. Tracked'
    BY <1>1, <1>4, <2>2, <2>5, <2>6 DEF Tracked
  <2> QED
    BY <2>4, <2>7
<1>7. CASE ~Delivers(r)
  <2>1. UNCHANGED <<page, shown>>
    BY <1>7 DEF Resolve, Reject
  <2>2. PayloadTyped'
    BY <1>1, <1>3, <2>1 DEF PayloadTyped
  <2>3. Tracked'
    BY <1>1, <1>4, <2>1 DEF Tracked
  <2> QED
    BY <2>2, <2>3
<1> QED
  BY <1>6, <1>7

LEMMA ForgetKeeps ==
  ASSUME PayloadInv, NEW r \in Requests, Forget(r)
  PROVE  PayloadInv'
<1> USE DEF PayloadInv, Forget, serverVars, pageVars
<1>1. NoRequest \in Begins
  BY Bounds DEF NoRequest, Begins, Versions
<1>2. PayloadTyped'
  BY <1>1 DEF PayloadTyped
<1>3. \A s \in Requests : client[s] # "none" => begun'[s] = begun[s]
  BY DEF PayloadTyped
<1>4. Tracked'
  BY <1>3 DEF Tracked
<1> QED
  BY <1>2, <1>4

\* A new generation: the open request is aborted, those already answered are
\* of an older one.
LEMMA InvalidateKeeps ==
  ASSUME PayloadInv, Invalidate
  PROVE  PayloadInv'
<1> USE DEF PayloadInv, serverVars
<1>1. UNCHANGED <<changes, cache, syncing, server, answer, begun, shown>>
  BY DEF Invalidate
<1>2. page.gen + 1 \in 0 .. MaxGen /\ page.gen < page.gen + 1
  BY PageFields, DriverPayloadAssumption DEF Invalidate
<1>3. page' \in Pages /\ page'.gen = page.gen + 1 /\ page'.payload = NoPayload
      /\ page'.error = FALSE /\ page'.promise = NoPayload
  BY <1>2 DEF Invalidate, Pages
<1>4. client' \in [Requests -> {"none", "open", "arrived", "failed"}]
  BY DEF Invalidate, Abort, PayloadTyped
<1>5. \A s \in Requests : client'[s] # "none" => client[s] # "none"
  BY DEF Invalidate, Abort, PayloadTyped
<1>6. \A s \in Requests : client'[s] # "open"
  BY DEF Invalidate, Abort, Tracked
<1>7. hook' \in Hooks
  BY <1>2 DEF Invalidate, PayloadTyped, Hooks
<1>8. /\ hook'.gen = hook.gen /\ hook'.wanted \in {hook.wanted, page.gen + 1}
      /\ hook'.effect = hook.effect /\ hook'.ready = hook.ready
      /\ hook'.mounted = hook.mounted
  BY DEF Invalidate, PayloadTyped, Hooks
<1>9. PayloadTyped'
  BY <1>1, <1>3, <1>4, <1>7 DEF PayloadTyped
<1>10. hook'.gen <= page'.gen /\ hook'.wanted <= page'.gen
  BY <1>2, <1>3, <1>8, PageFields, Bounds DEF Tracked
<1>11. \A s \in Requests : client'[s] # "none" =>
         begun[s].gen <= begun[s].real /\ begun[s].real <= page.gen
  BY <1>5 DEF Tracked
<1>12. \A s \in Requests : client'[s] # "none" =>
         begun[s].gen <= begun[s].real /\ begun[s].real <= page'.gen
         /\ begun[s].gen # page'.gen
  BY <1>2, <1>3, <1>11, PageFields, Bounds
<1>13. (hook'.effect \/ hook'.ready) => hook'.mounted
  BY <1>8 DEF Tracked
<1>14. Tracked'
  BY <1>1, <1>3, <1>6, <1>10, <1>12, <1>13 DEF Tracked
<1> QED
  BY <1>9, <1>14

\* The component comes, goes, renders, and runs its effects without asking.
LEMMA ComponentKeeps ==
  ASSUME PayloadInv, Mount \/ Unmount \/ Render \/ ShowCached \/ AwaitRequest
  PROVE  PayloadInv'
<1> USE DEF PayloadInv, serverVars, requestVars
<1>1. UNCHANGED <<serverVars, requestVars, page>>
  BY DEF Mount, Unmount, Render, ShowCached, AwaitRequest
<1>2. shown' \in Versions \cup {NoPayload}
  BY PageFields DEF Mount, Unmount, Render, ShowCached, AwaitRequest, PayloadTyped
<1>3. /\ hook' \in Hooks
      /\ hook'.gen \in {0, hook.gen, page.gen, hook.wanted}
      /\ hook'.wanted \in {0, hook.wanted, page.gen}
      /\ (hook'.effect \/ hook'.ready) => hook'.mounted
  <2>1. CASE Mount
    BY <2>1, PageFields DEF Mount, Hooks
  <2>2. CASE Unmount
    BY <2>2, Bounds DEF Unmount, Unmounted, Hooks
  <2>3. CASE Render
    BY <2>3, PageFields DEF Render, Hooks, PayloadTyped
  <2>4. CASE ShowCached
    BY <2>4, PageFields DEF ShowCached, Hooks, PayloadTyped, Tracked
  <2>5. CASE AwaitRequest
    BY <2>5, PageFields DEF AwaitRequest, Hooks, PayloadTyped, Tracked
  <2> QED
    BY <2>1, <2>2, <2>3, <2>4, <2>5
<1>4. PayloadTyped'
  BY <1>1, <1>2, <1>3 DEF PayloadTyped
<1>5. hook'.gen <= page.gen /\ hook'.wanted <= page.gen
  BY <1>3, PageFields, Bounds DEF Tracked
<1>6. Tracked'
  BY <1>1, <1>3, <1>5 DEF Tracked
<1> QED
  BY <1>4, <1>6

\* A request begins only when there is none: its closure's generation is at
\* most the cache's.
LEMMA RequestKeeps ==
  ASSUME PayloadInv, NEW r \in Requests, Request(r)
  PROVE  PayloadInv'
<1> USE DEF PayloadInv, serverVars
<1>1. UNCHANGED <<changes, cache, syncing, answer, shown>>
  BY DEF Request
<1>2. page' = [page EXCEPT !.promise = r] /\ page.promise = NoPayload
      /\ page.payload = NoPayload /\ ~page.error
  BY DEF Request
<1>3. page' \in Pages /\ page'.gen = page.gen /\ page'.payload = NoPayload
      /\ page'.error = page.error /\ page'.promise = r
  BY <1>2 DEF PayloadTyped, Pages
<1>4. hook' \in Hooks /\ hook'.gen = hook.gen /\ hook'.wanted = page.gen
      /\ hook'.mounted = hook.mounted /\ hook.mounted
  BY PageFields DEF Request, PayloadTyped, Hooks, Tracked
<1>5. client' \in [Requests -> {"none", "open", "arrived", "failed"}]
      /\ server' \in [Requests -> {"none", "lookup", "build", "store", "done", "error"}]
  BY DEF Request, PayloadTyped
<1> DEFINE b == [gen |-> hook.gen, real |-> page.gen, changes |-> changes]
<1>6. b \in Begins /\ b.gen = hook.gen /\ b.real = page.gen
  BY PageFields DEF Begins, PayloadTyped
<1>7. begun' = [begun EXCEPT ![r] = b]
  BY DEF Request
<1> HIDE DEF b
<1>8. begun' \in [Requests -> Begins]
  BY <1>6, <1>7 DEF PayloadTyped
<1>9. PayloadTyped'
  BY <1>1, <1>3, <1>4, <1>5, <1>8 DEF PayloadTyped
<1>10. begun'[r] = b /\ client'[r] = "open"
       /\ \A s \in Requests \ {r} : begun'[s] = begun[s] /\ client'[s] = client[s]
  BY <1>7 DEF Request, PayloadTyped
<1>11. \A s \in Requests \ {r} : client[s] # "open"
  BY <1>2, DriverPayloadAssumption DEF Tracked
<1>12. \A s \in Requests \ {r} : client[s] # "none" => begun[s].gen # page.gen
  BY <1>2, DriverPayloadAssumption DEF Tracked
<1>13. \A s \in Requests : client'[s] # "none" =>
         begun'[s].gen <= begun'[s].real /\ begun'[s].real <= page'.gen
  <2>1. b.gen <= b.real /\ b.real <= page.gen
    BY <1>6, PageFields, Bounds DEF Tracked
  <2> QED
    BY <1>3, <1>10, <2>1 DEF Tracked
<1>14. \A s \in Requests : client'[s] = "open" => page'.promise = s
  BY <1>3, <1>10, <1>11
<1>15. \A s \in Requests :
         client'[s] # "none" /\ begun'[s].gen = page'.gen => page'.promise = s
  BY <1>3, <1>10, <1>12
<1>16. hook'.gen <= page'.gen /\ hook'.wanted <= page'.gen
  BY <1>3, <1>4, PageFields, Bounds DEF Tracked
<1>17. Tracked'
  BY <1>2, <1>3, <1>4, <1>13, <1>14, <1>15, <1>16 DEF Tracked
<1> QED
  BY <1>9, <1>17

LEMMA PayloadInvNext == PayloadInv /\ [PayloadNext]_payloadVars => PayloadInv'
<1> SUFFICES ASSUME PayloadInv, [PayloadNext]_payloadVars PROVE PayloadInv'
  OBVIOUS
<1>1. CASE PayloadNext
  <2>1. CASE Change \/ SyncStart \/ SyncEnd \/ SyncFail
    BY <2>1, StoreKeeps
  <2>2. CASE Mount \/ Unmount \/ Render \/ ShowCached \/ AwaitRequest
    BY <2>2, ComponentKeeps
  <2>3. CASE Invalidate
    BY <2>3, InvalidateKeeps
  <2>4. ASSUME NEW r \in Requests, Request(r) PROVE PayloadInv'
    BY <2>4, RequestKeeps
  <2>5. ASSUME NEW r \in Requests, ServerStep(r) \/ BuildFails(r) PROVE PayloadInv'
    BY <2>5, ServerKeeps DEF ServerStep
  <2>6. ASSUME NEW r \in Requests, ClientStep(r) PROVE PayloadInv'
    BY <2>6, EndingKeeps, AnsweringKeeps, ForgetKeeps DEF ClientStep
  <2>7. ASSUME NEW r \in Requests, Drop(r) PROVE PayloadInv'
    BY <2>7, EndingKeeps
  <2> QED
    BY <1>1, <2>1, <2>2, <2>3, <2>4, <2>5, <2>6, <2>7 DEF PayloadNext, PageStep
<1>2. CASE UNCHANGED payloadVars
  BY <1>2 DEF payloadVars, serverVars, requestVars, pageVars, PayloadInv, PayloadTyped, Tracked
<1> QED
  BY <1>1, <1>2

THEOREM PayloadInvariant == PayloadSpec => []PayloadInv
BY PayloadInvInit, PayloadInvNext, PTL DEF PayloadSpec

-----------------------------------------------------------------------------

\* Every variable keeps its type, an error is never kept beside a payload, and
\* only a mounted component has effects to run or listeners.
THEOREM PayloadTypeCorrect == PayloadSpec => []TypeOK
<1>1. PayloadInv => TypeOK
  BY DEF PayloadInv, PayloadTyped, Tracked, TypeOK, Pages, Hooks, Begins
<1> QED
  BY <1>1, PayloadInvariant, PTL

\* The page waits for one request at a time: a request that is open is the
\* page's promise, however often the view changes or the cache is invalidated.
THEOREM OneOpenRequestEver == PayloadSpec => []OneOpenRequest
<1>1. PayloadInv => OneOpenRequest
  BY DEF PayloadInv, Tracked, OneOpenRequest
<1> QED
  BY <1>1, PayloadInvariant, PTL

\* An answer enters the page's cache only from a request that began after the
\* last invalidation, although what is compared is the generation of the
\* render and not that of the cache: the first is never ahead of the second.
THEOREM ThisGenerationOnlyEver == PayloadSpec => ThisGenerationOnly
<1>1. ASSUME PayloadInv, NEW r \in Requests, Resolve(r), page' # page
      PROVE  begun[r].real = page.gen
  <2>1. client[r] # "none" /\ begun[r].gen = page.gen
    BY <1>1 DEF Resolve, Delivers
  <2>2. begun[r].gen <= begun[r].real /\ begun[r].real <= page.gen
    BY <1>1, <2>1 DEF PayloadInv, Tracked
  <2> QED
    BY <1>1, <2>1, <2>2, PageFields, Bounds DEF PayloadInv
<1>2. PayloadInv => [\A r \in Requests :
                 Resolve(r) /\ page' # page => begun[r].real = page.gen]_payloadVars
  BY <1>1
<1> QED
  BY <1>2, PayloadInvariant, PTL DEF ThisGenerationOnly

=============================================================================
