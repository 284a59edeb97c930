-------------------------------- MODULE Sync --------------------------------
(***************************************************************************)
(* garage61.sync.sync_driver and the request that runs it (POST /api/sync).*)
(* A sync is a thread: it holds the token it was given, asks Garage61 which*)
(* cohorts the token's driver drives, and for each one lists the laps page *)
(* by page, fetches the CSV of every lap it does not have and imports it.  *)
(* Several syncs run at once over one database and several accounts, while *)
(* laps are published, tokens expire and connections break.                *)
(*                                                                         *)
(* Garage61 is external and modelled from what the client asks of it and   *)
(* from docs/garage61-api.md.  Abstractions: a lap is its id there, which  *)
(* is also its content; measuring a lap is one step; a file is parsed or   *)
(* not; a trace is the row's (LapStore takes the two apart).               *)
(***************************************************************************)
EXTENDS Integers, FiniteSets, SequencesExt

CONSTANTS Workers,     \* the threads that run a sync
          Accounts,    \* owner_user_pk
          DriverOf,    \* the Garage61 driver of each account's token
          EnvDriver,   \* the driver of GARAGE61_TOKEN, or None
          AuthOn,      \* does the server ask for a login?
          Laps,        \* the laps driven, in this order: [driver, cohort, day]
          Cohorts,     \* how many (car, track) pairs, numbered in label order
          Dated,       \* does /me/statistics carry a usable day?
          Scoped,      \* does the server honour drivers=me?
          MaxCohorts,  \* config.sync.max_cohorts, 0 for no cap
          SkipPitlane, \* config.sync.skip_pitlane_laps
          PageSize,    \* rows of one page of /laps
          Initially,   \* the laps published at the start: id -> condition
          Connected,   \* the accounts that have a token at the start
          Changes,     \* bound: what a lap can become, pairs <<id, condition>>
          MaxChanges,  \* bound: laps published or uploaded, tokens changed
          MaxSyncs,    \* bound: syncs started
          MaxFaults,   \* bound: connections lost, measurements failed
          None         \* nothing

\* What a published lap can be like: only "ok" and, unless configured away,
\* "pitlane" can be imported.
Conditions ==
  {"ok", "pitlane", "incomplete", "hidden", "forbidden", "gone", "garbled"}

ASSUME SyncAssumption ==
  /\ DOMAIN DriverOf = Accounts
  /\ Cohorts \in Nat
  /\ Laps \in Seq([driver : STRING, cohort : 1..Cohorts, day : Nat])
  /\ PageSize \in Nat \ {0}
  /\ Connected \subseteq Accounts
  /\ MaxCohorts \in Nat
  /\ DOMAIN Initially \subseteq DOMAIN Laps
  /\ Initially \in [DOMAIN Initially -> Conditions]
  /\ Changes \subseteq (DOMAIN Laps) \X Conditions

VARIABLES cloud,   \* the laps published: id -> condition
          token,   \* table garage61_tokens: account -> "none", "ok", "expired"
          rows,    \* table laps: set of [owner, name, lap, measured]
          states,  \* table garage61_sync_state: set of [owner, cohort, seen, new]
          job,     \* what each worker is doing
          used     \* how much of each bound is used

remote == <<cloud, token>>
store == <<rows, states>>
vars == <<remote, store, job, used>>

\* `list` is the listing: a set of rows [at, lap], each with its place there.
Idle == [pc |-> "idle", user |-> None, driver |-> None, only |-> None,
         todo |-> << >>, list |-> {}, offset |-> 0, seen |-> 0, new |-> 0,
         due |-> {}, skipped |-> {}]

At(w, p) == job[w].pc = p
Become(w, j) == job' = [job EXCEPT ![w] = j]
Goto(w, p) == job' = [job EXCEPT ![w].pc = p]

\* How the stream of a sync ends.
Over == {"complete", "expired", "error"}

\* The source label of a synced lap is its id; an uploaded file has its own.
Synced(u, l) == \E r \in rows : r.owner = u /\ r.name = "api" /\ r.lap = l
Known(u, l) == \E r \in rows : r.owner = u /\ r.lap = l

-----------------------------------------------------------------------------
(* Garage61                                                                *)

Published(d) == {l \in DOMAIN cloud : Laps[l].driver = d}
InCohort(ls, c) == {l \in ls : Laps[l].cohort = c}

\* GET /laps for a cohort: newest first, so that a lap published while the
\* pages are read moves rows back and never past the reader.
Rows(d, c) ==
  {l \in DOMAIN cloud : Laps[l].cohort = c /\ (Scoped => Laps[l].driver = d)}
Place(l, ls) == Cardinality({k \in ls : k > l})

Page(d, c, offset) ==
  LET ls == Rows(d, c) IN
  {[at |-> Place(l, ls), lap |-> l] :
     l \in {k \in ls : offset <= Place(k, ls) /\ Place(k, ls) < offset + PageSize}}

-----------------------------------------------------------------------------
(* Discovery                                                               *)

\* The day of a cohort's newest row of /me/statistics; 0 when it has none.
LastDriven(d, c) ==
  IF Dated THEN Laps[Max(InCohort(Published(d), c))].day ELSE 0

Discovered(d) == {c \in 1..Cohorts : InCohort(Published(d), c) # {}}

\* Newest first, and in label order within a day.
Orders(cs, d) ==
  {s \in [1..Cardinality(cs) -> cs] : \A i, j \in 1..Cardinality(cs) : i < j =>
     \/ LastDriven(d, s[i]) > LastDriven(d, s[j])
     \/ LastDriven(d, s[i]) = LastDriven(d, s[j]) /\ s[i] < s[j]}

\* The cap applies to a list that is longer and has dates to be ordered by.
Capped(cs, dated) ==
  IF MaxCohorts = 0 \/ Len(cs) <= MaxCohorts \/ ~dated THEN cs
  ELSE SubSeq(cs, 1, MaxCohorts)

\* Mutant of TokenDriver: without a stored token the server's own is used.
TokenDriverOrEnv(u) ==
  IF token[u] # "none" THEN DriverOf[u] ELSE EnvDriver

\* Whose laps a request of account u may read: those of its stored token, or,
\* without logins only, of the token in the environment.
TokenDriver(u) ==
  IF ~AuthOn THEN EnvDriver
  ELSE IF token[u] # "none" THEN DriverOf[u] ELSE None

\* A token read when it was good is refused once it has expired.
Refused(w) == AuthOn /\ token[job[w].user] # "ok"

\* POST /api/sync, for every cohort or for one the driver names.
Start(w, u, only) ==
  /\ used.syncs < MaxSyncs
  /\ job[w].pc \in Over \cup {"idle"}
  /\ TokenDriver(u) # None
  /\ Become(w, [Idle EXCEPT !.pc = "discover", !.user = u,
                            !.driver = TokenDriver(u), !.only = only])
  /\ used' = [used EXCEPT !.syncs = @ + 1]
  /\ UNCHANGED <<remote, store>>

Discover(w) ==
  LET d == job[w].driver
      cs == {c \in Discovered(d) : job[w].only \in {None, c}}
  IN /\ At(w, "discover")
     /\ ~Refused(w)
     /\ \E s \in Orders(cs, d) :
          Become(w, [job[w] EXCEPT !.pc = "cohort",
                       !.todo = Capped(s, \E c \in cs : LastDriven(d, c) # 0)])
     /\ UNCHANGED <<remote, store, used>>

-----------------------------------------------------------------------------
(* One cohort                                                              *)

\* `due` remembers the laps that could be imported when the listing began.
NextCohort(w) ==
  /\ At(w, "cohort")
  /\ job[w].todo # << >>
  /\ Become(w, [job[w] EXCEPT !.pc = "page", !.offset = 0, !.list = {},
       !.seen = 0, !.new = 0,
       !.due = @ \cup {l \in InCohort(Published(job[w].driver),
                                      Head(job[w].todo)) : cloud[l] = "ok"}])
  /\ UNCHANGED <<remote, store, used>>

\* Mutant of Listed: the reader asks for the same page again.
ListedAgain(w, items, total) ==
  LET mine == {r \in items : Laps[r.lap].driver = job[w].driver}
      all == job[w].list \cup mine
  IN IF items = {} \/ job[w].offset >= total
     THEN [job[w] EXCEPT !.pc = "lap", !.seen = Cardinality(all), !.list = all]
     ELSE [job[w] EXCEPT !.list = mine]

\* The driver's own rows of a page are kept, whatever the server sent; the
\* listing ends at an empty page or at the total.
Listed(w, items, total) ==
  LET offset == job[w].offset + Cardinality(items)
      all == job[w].list \cup {r \in items : Laps[r.lap].driver = job[w].driver}
  IN IF items = {} \/ offset >= total
     THEN [job[w] EXCEPT !.pc = "lap", !.seen = Cardinality(all), !.list = all]
     ELSE [job[w] EXCEPT !.offset = offset, !.list = all]

\* The server's total is that of its rows, or overstated by one.
ReadPage(w) ==
  LET c == Head(job[w].todo)
      d == job[w].driver
  IN /\ At(w, "page")
     /\ ~Refused(w)
     /\ \E over \in {0, 1} :
          Become(w, Listed(w, Page(d, c, job[w].offset), Cardinality(Rows(d, c)) + over))
     /\ UNCHANGED <<remote, store, used>>

\* The laps are taken in the order they were driven.
Oldest(w) == CHOOSE r \in job[w].list : \A s \in job[w].list : r.lap <= s.lap
Lap(w) == Oldest(w).lap
Rest(w) == job[w].list \ {Oldest(w)}

\* What the listing says of a lap, in the order the code asks.
Unfit(l) ==
  \/ cloud[l] = "incomplete"
  \/ cloud[l] = "pitlane" /\ SkipPitlane
  \/ cloud[l] = "hidden"

\* Mutant of Stored: laps driven before the last lap that is here are taken to
\* be here as well.
StoredByDate(w, l) ==
  \E r \in rows : r.owner = job[w].user /\ r.lap >= l

\* The look-up before the fetch is by source label, for any account.
Stored(w, l) == \E r \in rows : r.name = "api" /\ r.lap = l

NextLap(w) ==
  LET l == Lap(w) IN
  /\ At(w, "lap")
  /\ job[w].list # {}
  /\ Become(w,
       IF Unfit(l) THEN [job[w] EXCEPT !.list = Rest(w), !.skipped = @ \cup {l}]
       ELSE IF Stored(w, l) THEN [job[w] EXCEPT !.list = Rest(w)]
       ELSE [job[w] EXCEPT !.pc = "fetch"])
  /\ UNCHANGED <<remote, store, used>>

Skip(w) == Become(w, [job[w] EXCEPT !.pc = "lap", !.list = Rest(w),
                                    !.skipped = @ \cup {Lap(w)}])

\* A 404 or a 403 for one CSV skips the lap; a file that does not parse ends
\* the sync.
Fetch(w) ==
  LET l == Lap(w) IN
  /\ At(w, "fetch")
  /\ ~Refused(w)
  /\ CASE cloud[l] \in {"gone", "forbidden"} -> Skip(w)
       [] cloud[l] = "garbled" -> Become(w, [Idle EXCEPT !.pc = "error"])
       [] OTHER -> Goto(w, "import")
  /\ UNCHANGED <<remote, store, used>>

\* db.import_lap, its two look-ups: by source, then by content, both for the
\* account.
Dedup(w) ==
  LET l == Lap(w)
      u == job[w].user
  IN /\ At(w, "import")
     /\ IF Known(u, l)
        THEN Become(w, [job[w] EXCEPT !.pc = "lap", !.list = Rest(w)])
        ELSE Goto(w, "insert")
     /\ UNCHANGED <<remote, store, used>>

\* Mutant of Conflict: the table has no unique index.
NoConflict(u, l) == FALSE

\* UNIQUE (content_hash, source_file, owner_user_pk).
Conflict(u, l) == Synced(u, l)

\* The row, unless another sync of the account was faster: then the insert
\* raises, and the sync ends.
Insert(w) ==
  LET l == Lap(w)
      u == job[w].user
  IN /\ At(w, "insert")
     /\ IF Conflict(u, l)
        THEN Become(w, [Idle EXCEPT !.pc = "error"]) /\ UNCHANGED rows
        ELSE /\ rows' = rows \cup {[owner |-> u, name |-> "api", lap |-> l,
                                    measured |-> FALSE]}
             /\ Goto(w, "measure")
     /\ UNCHANGED <<remote, states, used>>

\* The rest of import_parsed_lap; it counts as new when it has come through.
Measure(w) ==
  LET l == Lap(w)
      u == job[w].user
  IN /\ At(w, "measure")
     /\ rows' = {IF r.owner = u /\ r.name = "api" /\ r.lap = l
                 THEN [r EXCEPT !.measured = TRUE] ELSE r : r \in rows}
     /\ Become(w, [job[w] EXCEPT !.pc = "lap", !.list = Rest(w), !.new = @ + 1])
     /\ UNCHANGED <<remote, states, used>>

\* record_sync_state, after the last lap of the cohort.
Record(w) ==
  LET c == Head(job[w].todo)
      u == job[w].user
  IN /\ At(w, "lap")
     /\ job[w].list = {}
     /\ states' = {s \in states : <<s.owner, s.cohort>> # <<u, c>>}
                    \cup {[owner |-> u, cohort |-> c, seen |-> job[w].seen,
                           new |-> job[w].new]}
     /\ Become(w, [job[w] EXCEPT !.pc = "cohort", !.todo = Tail(@)])
     /\ UNCHANGED <<remote, rows, used>>

-----------------------------------------------------------------------------
(* The end of a sync: retention (LapStore), the deletion of the cached     *)
(* payload (DriverPayload) and the last event of the stream.               *)

Complete(w) ==
  /\ At(w, "cohort")
  /\ job[w].todo = << >>
  /\ Goto(w, "complete")
  /\ UNCHANGED <<remote, store, used>>

\* 401 on any call: the stream says that the sign-in has expired.
Expired(w) ==
  /\ job[w].pc \in {"discover", "page", "fetch"}
  /\ Refused(w)
  /\ Become(w, [Idle EXCEPT !.pc = "expired"])
  /\ UNCHANGED <<remote, store, used>>

\* Any other error of a call, or of the measuring of a lap whose row is in.
Break(w) ==
  /\ used.faults < MaxFaults
  /\ job[w].pc \in {"discover", "page", "fetch", "measure"}
  /\ Become(w, [Idle EXCEPT !.pc = "error"])
  /\ used' = [used EXCEPT !.faults = @ + 1]
  /\ UNCHANGED <<remote, store>>

-----------------------------------------------------------------------------
(* What happens meanwhile                                                  *)

Change ==
  /\ used.changes < MaxChanges
  /\ used' = [used EXCEPT !.changes = @ + 1]

\* A lap is uploaded to Garage61, perhaps long after it was driven, or what it
\* is like there changes.
Publish(l, condition) ==
  /\ Change
  /\ cloud' = [k \in DOMAIN cloud \cup {l} |-> IF k = l THEN condition ELSE cloud[k]]
  /\ UNCHANGED <<token, store, job>>

Connect(u) ==
  /\ Change
  /\ token[u] # "ok"
  /\ token' = [token EXCEPT ![u] = "ok"]
  /\ UNCHANGED <<cloud, store, job>>
Expire(u) ==
  /\ Change
  /\ token[u] = "ok"
  /\ token' = [token EXCEPT ![u] = "expired"]
  /\ UNCHANGED <<cloud, store, job>>

\* The CSV of the same lap, downloaded and imported by hand.
Upload(u, l) ==
  /\ Change
  /\ l \in Published(DriverOf[u])
  /\ ~Known(u, l)
  /\ rows' = rows \cup {[owner |-> u, name |-> "file", lap |-> l,
                         measured |-> TRUE]}
  /\ UNCHANGED <<remote, states, job>>

Init ==
  /\ cloud = Initially
  /\ token = [u \in Accounts |-> IF u \in Connected THEN "ok" ELSE "none"]
  /\ rows = {} /\ states = {}
  /\ job = [w \in Workers |-> Idle]
  /\ used = [syncs |-> 0, changes |-> 0, faults |-> 0]

Work(w) ==
  \/ Discover(w)
  \/ NextCohort(w)
  \/ ReadPage(w)
  \/ NextLap(w)
  \/ Fetch(w)
  \/ Dedup(w)
  \/ Insert(w)
  \/ Measure(w)
  \/ Record(w)
  \/ Complete(w)
  \/ Expired(w)

Next ==
  \/ \E w \in Workers : Work(w) \/ Break(w)
  \/ \E w \in Workers, u \in Accounts, c \in 1..Cohorts \cup {None} : Start(w, u, c)
  \/ \E change \in Changes : Publish(change[1], change[2])
  \/ \E u \in Accounts : Connect(u) \/ Expire(u)
  \/ \E u \in Accounts, l \in DOMAIN Laps : Upload(u, l)

Spec == Init /\ [][Next]_vars

\* A thread that was started runs: nothing in it waits for anybody.
LiveSpec == Spec /\ \A w \in Workers : WF_vars(Work(w))

-----------------------------------------------------------------------------
(* Properties                                                              *)

\* Whatever the server sends and whoever else is connected, an account only
\* ever holds synced laps of the driver its own token stands for (the filter
\* on driver.id in client.list_own_laps; no fall-back to the environment's
\* token for a user who is logged in, ui/api.py:1821-1823 and 1885-1891).
NothingForeign ==
  \A r \in rows : r.name = "api" =>
    Laps[r.lap].driver = IF AuthOn THEN DriverOf[r.owner] ELSE EnvDriver

\* A sync that ends well has missed nothing: each lap that could be imported
\* when its cohort's listing began is stored for the account, synced or
\* uploaded, or was skipped because it changed meanwhile (sync.py:160-166:
\* "silently missing a lap is not" cheap; late uploads, pages and other syncs
\* notwithstanding).
NothingDueMissed ==
  \A w \in Workers : At(w, "complete") =>
    \A l \in job[w].due : Known(job[w].user, l) \/ l \in job[w].skipped

\* Two syncs of one account never store a lap of Garage61 twice: both may
\* find it missing, and only the unique index is left to stop the second.
StoredOnce ==
  \A r, s \in rows :
    r.owner = s.owner /\ r.name = s.name /\ r.lap = s.lap => r = s

\* What the last sync reports as new is here: the count of a cohort never
\* exceeds the laps stored for it, whatever was listed twice, was uploaded by
\* hand or came in by another sync.
RecordsAddUp ==
  \A s \in states :
    s.new <= Cardinality({r \in rows :
               /\ r.owner = s.owner /\ r.name = "api"
               /\ Laps[r.lap].cohort = s.cohort /\ r.measured})

\* A sync that was started ends, with the list, with an error or with an
\* expired sign-in, however the pages move, and whatever total the server
\* claims.
SyncEnds == \A w \in Workers : ~At(w, "idle") ~> job[w].pc \in Over
=============================================================================
