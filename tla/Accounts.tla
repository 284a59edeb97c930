------------------------------ MODULE Accounts ------------------------------
(***************************************************************************)
(* Accounts and sessions (ui/auth.py and the authentication endpoints of   *)
(* ui/api.py): registration, sign-in with a password, with Google and with *)
(* Garage61, password resets, log-out, and the throttle of failed          *)
(* attempts.  A session is a signed cookie that names an account and its   *)
(* session_epoch; the server keeps no sessions, it compares the epoch with *)
(* the account's when a request opens the database.                        *)
(*                                                                         *)
(* Requests of several browsers run at once, each in several transactions, *)
(* and the process may die between them.                                   *)
(*                                                                         *)
(* Abstractions: addresses are normalised; a signature is never wrong and a *)
(* hash never collides; the exchange with Google and Garage61 (state, PKCE *)
(* verifier, tokens, audience) succeeds or the request ends, and only its  *)
(* outcome, an address or a driver, is modelled.                           *)
(***************************************************************************)
EXTENDS Naturals, Sequences, FiniteSets

CONSTANTS Browsers,     \* each with at most one request under way
          Emails,       \* addresses of people
          Drivers,      \* drivers of Garage61; "garage61:<id>" is an address too
          Passwords,
          Unset,        \* the password of an account that has none
          MaxAttempts,  \* auth.login_max_attempts
          Lockout,      \* auth.login_lockout_seconds
          TTL,          \* auth.session_ttl_hours
          ResetTTL,     \* the fifteen minutes a reset link lives
          MaxClock,     \* bound: time
          MaxRequests,  \* bound: requests that change something
          MaxFaults,    \* bound: deaths of the process
          None          \* nothing

ASSUME AccountsAssumption ==
  /\ MaxAttempts \in Nat \ {0}
  /\ {Lockout, TTL, ResetTTL, MaxClock, MaxRequests, MaxFaults} \subseteq Nat
  /\ Unset \notin Passwords
  /\ Emails \cap Drivers = {}

VARIABLES users,     \* table users, by user_pk: [email, password, epoch]
          linked,    \* table garage61_tokens: user_pk -> driver
          resets,    \* table password_resets: set of [user, number, expires]
          cookie,    \* each browser's session cookie
          request,   \* each browser's request under way
          failures,  \* LoginThrottle: [count, last] of each client
          clock,
          spent,     \* history: the passwords set by links, [user, link, asked]
                     \* with how many requests had been asked by then
          used       \* how much of each bound is used

tables == <<users, linked, resets>>
vars == <<tables, cookie, request, failures, clock, spent, used>>

Idle == [pc |-> "idle", email |-> None, password |-> None, user |-> None,
         epoch |-> 0, link |-> 0]

At(b, p) == request[b].pc = p
Ask(b, r) == request' = [request EXCEPT ![b] = r]
Goto(b, p) == request' = [request EXCEPT ![b].pc = p]

\* A request arrives. Its time of arrival is its number: no two are the same.
Arrive(b, r) ==
  /\ At(b, "idle")
  /\ used.requests < MaxRequests
  /\ used' = [used EXCEPT !.requests = @ + 1]
  /\ Ask(b, [r EXCEPT !.epoch = used.requests + 1])

UserOf(email) == CHOOSE u \in DOMAIN users : users[u].email = email
Exists(email) == \E u \in DOMAIN users : users[u].email = email

-----------------------------------------------------------------------------
(* The throttle                                                            *)

Locked(b) ==
  failures[b].count >= MaxAttempts /\ clock < failures[b].last + Lockout

\* A lock that has run out is forgotten, with its count.
Unlocked(b) ==
  IF failures[b].count >= MaxAttempts
  THEN [failures EXCEPT ![b] = [count |-> 0, last |-> 0]] ELSE failures

Fail(b) ==
  /\ failures' = [failures EXCEPT ![b] = [count |-> @.count + 1, last |-> clock]]
  /\ Ask(b, Idle)

-----------------------------------------------------------------------------
(* Who the cookie says                                                     *)

\* verify_session: what the guard of every route asks.
SignedIn(b) == cookie[b] # None /\ clock < cookie[b].expires

\* open_db: the epoch of the cookie is still the account's.
Live(b) == SignedIn(b) /\ users[cookie[b].user].epoch = cookie[b].epoch

Issue(b, u, epoch) ==
  cookie' = [cookie EXCEPT ![b] =
               [user |-> u, epoch |-> epoch, expires |-> clock + TTL]]

\* Mutant of Rotated: the account keeps its epoch, as BUG-015 had it.
Kept(u, epoch) == users[u].epoch

\* Whoever signs in gets an epoch of his own.
Rotated(u, epoch) == epoch

\* UPDATE users SET session_epoch, and the cookie of the answer.
Rotate(b) ==
  LET u == request[b].user
      epoch == Rotated(u, request[b].epoch)
  IN /\ At(b, "rotate")
     /\ users' = [users EXCEPT ![u].epoch = epoch]
     /\ Issue(b, u, epoch)
     /\ failures' = IF request[b].password = None THEN failures
                    ELSE [failures EXCEPT ![b] = [count |-> 0, last |-> 0]]
     /\ Ask(b, Idle)
     /\ UNCHANGED <<linked, resets, clock, spent, used>>

\* Mutant of Taken: the table has no unique index on the address.
NeverTaken(email) == FALSE

\* UNIQUE (email).
Taken(email) == Exists(email)

\* INSERT INTO users; when the address is taken, the statement raises and the
\* request ends with an error.
Insert(b, email, password, next) ==
  IF Taken(email)
  THEN Ask(b, Idle) /\ UNCHANGED <<users, cookie>>
  ELSE /\ users' = Append(users, [email |-> email, password |-> password,
                                  epoch |-> request[b].epoch])
       /\ IF next = "done"
          THEN Issue(b, Len(users) + 1, request[b].epoch) /\ Ask(b, Idle)
          ELSE /\ Ask(b, [request[b] EXCEPT !.pc = next,
                                            !.user = Len(users) + 1])
               /\ UNCHANGED cookie

-----------------------------------------------------------------------------
(* With a password                                                         *)

\* POST /api/auth/register and POST /api/auth/login: 429 while locked.
Register(b, email, password) ==
  /\ ~Locked(b)
  /\ failures' = Unlocked(b)
  /\ Arrive(b, [Idle EXCEPT !.pc = "register", !.email = email,
                            !.password = password])
  /\ UNCHANGED <<tables, cookie, clock, spent>>

Login(b, email, password) ==
  /\ ~Locked(b)
  /\ failures' = Unlocked(b)
  /\ Arrive(b, [Idle EXCEPT !.pc = "login", !.email = email,
                            !.password = password])
  /\ UNCHANGED <<tables, cookie, clock, spent>>

\* A registered address counts as a failed attempt.
CheckFree(b) ==
  /\ At(b, "register")
  /\ IF Exists(request[b].email) THEN Fail(b)
     ELSE Goto(b, "create") /\ UNCHANGED failures
  /\ UNCHANGED <<tables, cookie, clock, spent, used>>

Create(b) ==
  /\ At(b, "create")
  /\ Insert(b, request[b].email, request[b].password, "done")
  /\ UNCHANGED <<linked, resets, failures, clock, spent, used>>

\* An account without a password is never opened by one.
Verify(b) ==
  LET email == request[b].email IN
  /\ At(b, "login")
  /\ IF Exists(email) /\ users[UserOf(email)].password = request[b].password
     THEN /\ Ask(b, [request[b] EXCEPT !.pc = "rotate", !.user = UserOf(email)])
          /\ UNCHANGED failures
     ELSE Fail(b)
  /\ UNCHANGED <<tables, cookie, clock, spent, used>>

-----------------------------------------------------------------------------
(* With Google                                                             *)

\* The callback, once Google has named a verified address.
Google(b, email) ==
  /\ Arrive(b, [Idle EXCEPT !.pc = "google", !.email = email])
  /\ UNCHANGED <<tables, cookie, failures, clock, spent>>

FindAddress(b) ==
  LET email == request[b].email IN
  /\ At(b, "google")
  /\ IF Exists(email)
     THEN Ask(b, [request[b] EXCEPT !.pc = "rotate", !.user = UserOf(email)])
     ELSE Goto(b, "adopt")
  /\ UNCHANGED <<tables, cookie, failures, clock, spent, used>>

Adopt(b) ==
  /\ At(b, "adopt")
  /\ Insert(b, request[b].email, Unset, "done")
  /\ UNCHANGED <<linked, resets, failures, clock, spent, used>>

-----------------------------------------------------------------------------
(* With Garage61                                                           *)

\* The callback is a public path, on which nobody's cookie is read: whoever is
\* signed in, the account is the one of the driver Garage61 names.
Garage(b, d) ==
  /\ Arrive(b, [Idle EXCEPT !.pc = "garage", !.email = d])
  /\ UNCHANGED <<tables, cookie, failures, clock, spent>>

Owners(d) == {u \in DOMAIN linked : linked[u] = d}

FindDriver(b) ==
  LET d == request[b].email IN
  /\ At(b, "garage")
  /\ IF Owners(d) # {}
     THEN \E u \in Owners(d) :
            Ask(b, [request[b] EXCEPT !.pc = "link", !.user = u])
     ELSE Goto(b, "enrol")
  /\ UNCHANGED <<tables, cookie, failures, clock, spent, used>>

\* Mutant of Enrol: no token is stored on the first sign-in.
EnrolUnlinked(b) ==
  /\ At(b, "enrol")
  /\ Insert(b, request[b].email, Unset, "rotate")
  /\ UNCHANGED <<linked, resets, failures, clock, spent, used>>

Enrol(b) ==
  /\ At(b, "enrol")
  /\ Insert(b, request[b].email, Unset, "link")
  /\ UNCHANGED <<linked, resets, failures, clock, spent, used>>

\* The token is stored, one per account; the rotation is another transaction.
Link(b) ==
  LET u == request[b].user IN
  /\ At(b, "link")
  /\ linked' = [v \in DOMAIN linked \cup {u} |->
                  IF v = u THEN request[b].email ELSE linked[v]]
  /\ Goto(b, "rotate")
  /\ UNCHANGED <<users, resets, cookie, failures, clock, spent, used>>

\* DELETE /api/garage61/disconnect, for whoever has a live session.
Disconnect(b) ==
  /\ At(b, "idle")
  /\ Live(b)
  /\ cookie[b].user \in DOMAIN linked
  /\ linked' = [v \in DOMAIN linked \ {cookie[b].user} |-> linked[v]]
  /\ UNCHANGED <<users, resets, cookie, request, failures, clock, spent, used>>

-----------------------------------------------------------------------------
(* Forgotten passwords and log-out                                         *)

\* POST /api/auth/forgot-password: a link for an account that exists.
Forgot(email) ==
  /\ used.requests < MaxRequests
  /\ Exists(email)
  /\ used' = [used EXCEPT !.requests = @ + 1]
  /\ resets' = resets \cup {[user |-> UserOf(email), number |-> used.requests + 1,
                             expires |-> clock + ResetTTL]}
  /\ UNCHANGED <<users, linked, cookie, request, failures, clock, spent>>

\* POST /api/auth/reset-password: the link is looked up ...
Reset(b, r, password) ==
  /\ clock <= r.expires
  /\ Arrive(b, [Idle EXCEPT !.pc = "reset", !.password = password,
                            !.user = r.user, !.link = r.number])
  /\ UNCHANGED <<tables, cookie, failures, clock, spent>>

Spend(b) ==
  spent' = spent \cup {[user |-> request[b].user, link |-> request[b].link,
                        asked |-> used.requests]}

\* Mutant of SetPassword: only the link that was used goes.
SetPasswordOneLink(b) ==
  LET u == request[b].user IN
  /\ At(b, "reset")
  /\ users' = [users EXCEPT ![u].password = request[b].password]
  /\ resets' = {r \in resets : r.number # request[b].link}
  /\ Spend(b)
  /\ Ask(b, Idle)
  /\ UNCHANGED <<linked, cookie, failures, clock, used>>

\* ... and, once the new password is hashed, it is set and every link of the
\* account goes.  The link is not looked up again.
SetPassword(b) ==
  LET u == request[b].user IN
  /\ At(b, "reset")
  /\ users' = [users EXCEPT ![u].password = request[b].password]
  /\ resets' = {r \in resets : r.user # u}
  /\ Spend(b)
  /\ Ask(b, Idle)
  /\ UNCHANGED <<linked, cookie, failures, clock, used>>

Logout(b) ==
  /\ At(b, "idle")
  /\ SignedIn(b)
  /\ cookie' = [cookie EXCEPT ![b] = None]
  /\ UNCHANGED <<tables, request, failures, clock, spent, used>>

-----------------------------------------------------------------------------

Tick ==
  /\ clock < MaxClock
  /\ clock' = clock + 1
  /\ UNCHANGED <<tables, cookie, request, failures, spent, used>>

\* The process dies: requests and throttle with it; tables and cookies stay.
Die ==
  /\ used.faults < MaxFaults
  /\ used' = [used EXCEPT !.faults = @ + 1]
  /\ request' = [b \in Browsers |-> Idle]
  /\ failures' = [b \in Browsers |-> [count |-> 0, last |-> 0]]
  /\ UNCHANGED <<tables, cookie, clock, spent>>

Init ==
  /\ users = << >> /\ linked = << >> /\ resets = {}
  /\ cookie = [b \in Browsers |-> None]
  /\ request = [b \in Browsers |-> Idle]
  /\ failures = [b \in Browsers |-> [count |-> 0, last |-> 0]]
  /\ clock = 0
  /\ spent = {}
  /\ used = [requests |-> 0, faults |-> 0]

Step(b) ==
  \/ CheckFree(b)
  \/ Create(b)
  \/ Verify(b)
  \/ FindAddress(b)
  \/ Adopt(b)
  \/ FindDriver(b)
  \/ Enrol(b)
  \/ Link(b)
  \/ SetPassword(b)
  \/ Rotate(b)

Next ==
  \/ \E b \in Browsers : Step(b) \/ Disconnect(b) \/ Logout(b)
  \/ \E b \in Browsers, e \in Emails, p \in Passwords :
       Register(b, e, p) \/ Login(b, e, p)
  \/ \E b \in Browsers, e \in Emails : Google(b, e)
  \/ \E b \in Browsers, d \in Drivers : Garage(b, d)
  \/ \E b \in Browsers, r \in resets, p \in Passwords : Reset(b, r, p)
  \/ \E e \in Emails : Forgot(e)
  \/ Tick
  \/ Die

Spec == Init /\ [][Next]_vars

-----------------------------------------------------------------------------
(* Properties                                                              *)

\* An address, or a driver of Garage61, has one account, whichever ways of
\* signing in create it at the same time (every endpoint looks first and
\* inserts later, ui/api.py:415-428, 651-673 and 848-862).
OneAccountPerEmail ==
  \A u, v \in DOMAIN users : users[u].email = users[v].email => u = v

\* An account has at most one live session: whatever signs in last, and
\* however requests overlap, no two browsers pass the check of the epoch
\* (open_db; BUG-015: "Google sign-in did not invalidate a prior session").
OneLiveSession ==
  \A a, b \in Browsers :
    Live(a) /\ Live(b) /\ cookie[a].user = cookie[b].user => a = b

\* "Single-use" (docs/ACCOUNTS-SPEC.md:183): a link that has set a password
\* sets no other.  The code does not keep it: a second request may have looked
\* the link up before the first one deleted it.
LinkUsedOnce ==
  [][\A b \in Browsers : SetPassword(b) =>
       \A s \in spent : s.link # request[b].link]_vars

\* ... and what is sure all the same: a reset spends every link its account
\* had then, the one it used and the others.  A later reset of the account is
\* by a link asked for since, or by a request that had arrived, and may have
\* looked its link up, before (ui/api.py:540-553).
ResetSpendsLinks ==
  [][\A b \in Browsers : SetPassword(b) =>
       \A s \in spent : s.user = request[b].user =>
         request[b].link > s.asked \/ request[b].epoch <= s.asked]_vars

\* "A reset invalidates every outstanding session" (docs/ACCOUNTS-SPEC.md:
\* 107-108 and 183-184): whoever was signed in to the account has to sign in
\* again.
ResetEndsSessions ==
  [][\A b \in Browsers : SetPassword(b) =>
       \A a \in Browsers : Live(a)' => cookie'[a].user # request[b].user]_vars

\* A driver without an account, or one whose account his sign-in finds. A
\* request between the account and the token is about to store it.
CanReturn(d) ==
  Exists(d) =>
    \/ Owners(d) # {}
    \/ \E b \in Browsers : At(b, "link") /\ request[b].email = d

\* "If not (first visit via Garage61), create/find a user by the G61 id"
\* (ui/api.py:842): a driver whose account exists can be found again; the
\* insertion of a second account for him would only raise.  The code does not
\* keep it.
DriversCanReturn == \A d \in Drivers : CanReturn(d)

\* ... and what is sure all the same: a driver is locked out of his account by
\* a death between the account and its token, or from a live session of the
\* account linked to him, and by nothing that other sign-ins, overlapping his
\* own, do to the tables (ui/api.py:848-877 and 1866-1875).
OnlyHeLocksHimselfOut ==
  [][\A d \in Drivers : CanReturn(d) /\ ~CanReturn(d)' =>
       \/ Die /\ \E b \in Browsers : At(b, "link") /\ request[b].email = d
       \/ \E b \in Browsers : Disconnect(b) /\ linked[cookie[b].user] = d]_vars

=============================================================================
