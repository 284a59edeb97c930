-------------------------------- MODULE Eras --------------------------------
(***************************************************************************)
(* coaching/eras.py: refresh_eras, one driver of one account.              *)
(*                                                                         *)
(* A refresh reads the era size, the dated laps, the laps already assigned *)
(* and the era rows in separate SELECTs, all of them BEFORE its write      *)
(* transaction; the transaction then walks the unassigned laps, opening    *)
(* and closing eras from what was read.  Other requests store laps and     *)
(* change the era size meanwhile; with Overlap another refresh may run     *)
(* too (GET /api/driver starts one thread per request).  The store has one *)
(* write lock: a writer waits for it until its timeout, then raises.       *)
(*                                                                         *)
(* Abstractions: a lap is its lap_pk; era_index i is position i + 1 of     *)
(* `eras`; a summary is the set of laps whose observations it was computed *)
(* from; `slices` says whether it carries the A61 slice breakdown.         *)
(***************************************************************************)
EXTENDS Integers, Sequences, FiniteSets

CONSTANTS Refreshers,   \* threads or processes that may refresh this driver
          None,         \* no refresher
          Dates,        \* values of lap_date
          NoDate,       \* a lap stored without a date
          Sizes,        \* era sizes a driver may choose
          DefaultSize,  \* config.coaching.tendency_era_size_laps
          LegacyDates,  \* dates of the laps of a closed era older than A61
          MaxLaps,      \* bound: laps ever stored
          Overlap       \* may two refreshes overlap?

ASSUME ErasAssumption ==
  /\ None \notin Refreshers
  /\ Dates \subseteq Int
  /\ NoDate \notin Dates
  /\ Sizes \subseteq Nat \ {0}
  /\ DefaultSize \in Sizes
  /\ LegacyDates \in Seq(Dates)
  /\ MaxLaps \in Nat
  /\ Overlap \in BOOLEAN

VARIABLES date,      \* table laps: date[l] for lap_pk l
          measured,  \* the laps whose observations are stored
          setting,   \* the driver's era size (settings row or config default)
          eras,      \* tendency_eras and tendency_era_laps, as committed
          writer,    \* the refresher whose write transaction is open
          pc,        \* where each refresher is
          sizeRead,  \* setting_size
          todo,      \* dated, then unassigned, then what the loop has left
          openEra,   \* open_era: its position, 0 for None
          nextEra,   \* next_index, as a position
          count,     \* counts[open_era]
          known,     \* laps in lap_cohorts: 1..known
          work,      \* the eras as the open transaction sees them
          stale,     \* history: refreshers whose assigned laps another commit
                     \* has overtaken before their own transaction began
          ready      \* history: ready[r] was measured when r read lap_cohorts

laps == <<date, measured>>
store == <<laps, setting, eras>>
locals == <<sizeRead, todo, openEra, nextEra, count, known, work>>
history == <<stale, ready>>
vars == <<store, writer, pc, locals, history>>

Era == [size : Nat \ {0}, laps : SUBSET Nat, closed : BOOLEAN,
        summary : SUBSET Nat, slices : BOOLEAN]

NewEra(n) == [size |-> n, laps |-> {}, closed |-> FALSE,
              summary |-> {}, slices |-> FALSE]

Dated == {l \in DOMAIN date : date[l] # NoDate}
InSome(es) == UNION {es[i].laps : i \in DOMAIN es}
Before(a, b) == date[a] < date[b] \/ (date[a] = date[b] /\ a < b)

Init ==
  /\ date = LegacyDates
  /\ measured = DOMAIN LegacyDates
  /\ setting = DefaultSize
  /\ eras = IF LegacyDates = << >> THEN << >>
            ELSE << [size |-> Len(LegacyDates), laps |-> DOMAIN LegacyDates,
                     closed |-> TRUE, summary |-> DOMAIN LegacyDates,
                     slices |-> FALSE] >>
  /\ writer = None
  /\ pc = [r \in Refreshers |-> "idle"]
  /\ sizeRead = [r \in Refreshers |-> DefaultSize]
  /\ todo = [r \in Refreshers |-> {}]
  /\ openEra = [r \in Refreshers |-> 0]
  /\ nextEra = [r \in Refreshers |-> 1]
  /\ count = [r \in Refreshers |-> 0]
  /\ known = [r \in Refreshers |-> 0]
  /\ work = << >>
  /\ stale = {}
  /\ ready = [r \in Refreshers |-> {}]

-----------------------------------------------------------------------------
(* The rest of the program, as far as this component sees it.  Each writes *)
(* in a transaction of its own, while nobody else holds the lock.          *)

\* A self lap is stored, dated or not, in any date order (db.import_lap)...
StoreLap(d) ==
  /\ writer = None
  /\ Len(date) < MaxLaps
  /\ date' = Append(date, d)
  /\ UNCHANGED <<measured, setting, eras, writer, pc, locals, history>>

\* ... and measured in later transactions (pipeline.import_parsed_lap).
MeasureLap(l) ==
  /\ writer = None
  /\ l \in DOMAIN date \ measured
  /\ measured' = measured \cup {l}
  /\ UNCHANGED <<date, setting, eras, writer, pc, locals, history>>

\* Mutant of SetEraSize: the size is not checked.
SetEraSizeUnchecked(n) ==
  /\ writer = None
  /\ n # setting
  /\ setting' = n
  /\ UNCHANGED <<laps, eras, writer, pc, locals, history>>

\* Mutant of SetEraSize: the new size is applied to past eras as well.
SetEraSizeRecut(n) ==
  /\ writer = None
  /\ n >= 1
  /\ n # setting
  /\ setting' = n
  /\ eras' = [i \in DOMAIN eras |-> [eras[i] EXCEPT !.size = n]]
  /\ UNCHANGED <<laps, writer, pc, locals, history>>

\* set_era_size: refuses a size below one, touches no era.
SetEraSize(n) ==
  /\ writer = None
  /\ n >= 1
  /\ n # setting
  /\ setting' = n
  /\ UNCHANGED <<laps, eras, writer, pc, locals, history>>

-----------------------------------------------------------------------------
(* refresh_eras: the reads.                                                *)

ReadSetting(r) ==
  /\ pc[r] = "idle"
  /\ ~Overlap => \A s \in Refreshers : pc[s] = "idle"
  /\ pc' = [pc EXCEPT ![r] = "dated"]
  /\ sizeRead' = [sizeRead EXCEPT ![r] = setting]
  /\ UNCHANGED <<store, writer, todo, openEra, nextEra, count, known, work,
                 history>>

ReadDated(r) ==
  /\ pc[r] = "dated"
  /\ pc' = [pc EXCEPT ![r] = "assigned"]
  /\ todo' = [todo EXCEPT ![r] = Dated]
  /\ UNCHANGED <<store, writer, sizeRead, openEra, nextEra, count, known, work,
                 history>>

\* Mutant of ReadAssigned: only the laps of the open era count as assigned.
ReadAssignedOpenOnly(r) ==
  /\ pc[r] = "assigned"
  /\ pc' = [pc EXCEPT ![r] = "rows"]
  /\ todo' = [todo EXCEPT ![r] =
                @ \ UNION {eras[i].laps :
                            i \in {j \in DOMAIN eras : ~eras[j].closed}}]
  /\ UNCHANGED <<store, writer, sizeRead, openEra, nextEra, count, known, work,
                 history>>

ReadAssigned(r) ==
  /\ pc[r] = "assigned"
  /\ pc' = [pc EXCEPT ![r] = "rows"]
  /\ todo' = [todo EXCEPT ![r] = @ \ InSome(eras)]
  /\ UNCHANGED <<store, writer, sizeRead, openEra, nextEra, count, known, work,
                 history>>

\* o is the first row with status 'open', 0 when every era is closed.
FirstOpen(es, o) ==
  IF o = 0 THEN \A i \in DOMAIN es : es[i].closed
  ELSE ~es[o].closed /\ \A i \in 1 .. o - 1 : es[i].closed

ReadRows(r) ==
  /\ pc[r] = "rows"
  /\ pc' = [pc EXCEPT ![r] = "begin"]
  /\ \E o \in 0 .. Len(eras) :
       /\ FirstOpen(eras, o)
       /\ openEra' = [openEra EXCEPT ![r] = o]
       /\ count' = [count EXCEPT ![r] =
                      IF o = 0 THEN 0 ELSE Cardinality(eras[o].laps)]
  /\ nextEra' = [nextEra EXCEPT ![r] = Len(eras) + 1]
  /\ known' = [known EXCEPT ![r] = Len(date)]
  /\ ready' = [ready EXCEPT ![r] = measured]
  /\ UNCHANGED <<store, writer, sizeRead, todo, work, stale>>

-----------------------------------------------------------------------------
(* refresh_eras: the write transaction.  The first INSERT takes the        *)
(* store's write lock; nothing is visible to others before Commit.         *)

Begin(r) ==
  /\ pc[r] = "begin"
  /\ IF todo[r] = {}
     THEN /\ pc' = [pc EXCEPT ![r] = "backfill"]
          /\ UNCHANGED <<writer, work>>
     ELSE /\ writer = None
          /\ writer' = r
          /\ work' = eras
          /\ pc' = [pc EXCEPT ![r] = "assign"]
  /\ UNCHANGED <<store, sizeRead, todo, openEra, nextEra, count, known,
                 history>>

\* The open era's row is inserted on the first lap that needs it; its index
\* is a primary key.
OpenEra(r) ==
  /\ pc[r] = "assign" /\ todo[r] # {} /\ openEra[r] = 0
  /\ nextEra[r] = Len(work) + 1
  /\ work' = Append(work, NewEra(sizeRead[r]))
  /\ openEra' = [openEra EXCEPT ![r] = nextEra[r]]
  /\ count' = [count EXCEPT ![r] = 0]
  /\ nextEra' = [nextEra EXCEPT ![r] = @ + 1]
  /\ UNCHANGED <<store, writer, pc, sizeRead, todo, known, history>>

\* Mutant of Fills: an era is taken for full one lap early.
FillsEarly(r) == count[r] + 2 >= work[openEra[r]].size

\* The lap now placed fills its era.
Fills(r) == count[r] + 1 >= work[openEra[r]].size

\* Mutant of PlaceLap: the laps are walked in no particular order.
PlaceLapUnordered(r, l) ==
  /\ pc[r] = "assign" /\ openEra[r] # 0
  /\ l \in todo[r]
  /\ l \notin work[openEra[r]].laps
  /\ work' = [work EXCEPT ![openEra[r]].laps = @ \cup {l}]
  /\ count' = [count EXCEPT ![r] = @ + 1]
  /\ todo' = [todo EXCEPT ![r] = @ \ {l}]
  /\ pc' = [pc EXCEPT ![r] = IF Fills(r) THEN "close" ELSE "assign"]
  /\ UNCHANGED <<store, writer, sizeRead, openEra, nextEra, known, history>>

\* One lap of the loop: (era, lap) is a primary key.
PlaceLap(r, l) ==
  /\ pc[r] = "assign" /\ openEra[r] # 0
  /\ l \in todo[r] /\ \A k \in todo[r] \ {l} : Before(l, k)
  /\ l \notin work[openEra[r]].laps
  /\ work' = [work EXCEPT ![openEra[r]].laps = @ \cup {l}]
  /\ count' = [count EXCEPT ![r] = @ + 1]
  /\ todo' = [todo EXCEPT ![r] = @ \ {l}]
  /\ pc' = [pc EXCEPT ![r] = IF Fills(r) THEN "close" ELSE "assign"]
  /\ UNCHANGED <<store, writer, sizeRead, openEra, nextEra, known, history>>

\* The laps of era k of the transaction that a summary computed now sees.
Covered(r, k) == work[k].laps \cap 1..known[r] \cap measured

\* Mutant of CloseEra: the summary reads the era as it was committed, before
\* this transaction's laps.
CloseEraCommittedSummary(r) ==
  /\ pc[r] = "close"
  /\ work' = [work EXCEPT ![openEra[r]] =
                [@ EXCEPT !.closed = TRUE, !.slices = TRUE,
                          !.summary = UNION {eras[i].laps : i \in
                                               {openEra[r]} \cap DOMAIN eras}]]
  /\ openEra' = [openEra EXCEPT ![r] = 0]
  /\ pc' = [pc EXCEPT ![r] = "assign"]
  /\ UNCHANGED <<store, writer, sizeRead, todo, nextEra, count, known, history>>

\* The era is full: the summary of its laps, re-read inside the transaction,
\* is frozen.  A lap missing from lap_cohorts, or with no observations yet,
\* contributes nothing to it.
CloseEra(r) ==
  /\ pc[r] = "close"
  /\ work' = [work EXCEPT ![openEra[r]] =
                [@ EXCEPT !.closed = TRUE, !.slices = TRUE,
                          !.summary = Covered(r, openEra[r])]]
  /\ openEra' = [openEra EXCEPT ![r] = 0]
  /\ pc' = [pc EXCEPT ![r] = "assign"]
  /\ UNCHANGED <<store, writer, sizeRead, todo, nextEra, count, known, history>>

\* The refreshers that have read the assigned laps and not begun to write:
\* a commit of another makes what they read out of date.
Overtaken(r) == {s \in Refreshers \ {r} : pc[s] \in {"rows", "begin"}}

\* Mutant of Commit: the write lock is not released.
CommitKeepsLock(r) ==
  /\ pc[r] = "assign" /\ todo[r] = {}
  /\ eras' = work
  /\ work' = << >>
  /\ pc' = [pc EXCEPT ![r] = "backfill"]
  /\ stale' = stale \cup Overtaken(r)
  /\ UNCHANGED <<laps, setting, writer, sizeRead, todo, openEra, nextEra, count,
                 known, ready>>

Commit(r) ==
  /\ pc[r] = "assign" /\ todo[r] = {}
  /\ eras' = work
  /\ work' = << >>
  /\ writer' = None
  /\ pc' = [pc EXCEPT ![r] = "backfill"]
  /\ stale' = stale \cup Overtaken(r)
  /\ UNCHANGED <<laps, setting, sizeRead, todo, openEra, nextEra, count, known,
                 ready>>

\* Every closed summary carries slices, whatever wrote it.
Sliced(es) == [i \in DOMAIN es |-> IF es[i].closed
                                    THEN [es[i] EXCEPT !.slices = TRUE]
                                    ELSE es[i]]

Unsliced == \E i \in DOMAIN eras : eras[i].closed /\ ~eras[i].slices

\* The call is over and its locals with it.
Return(r) ==
  /\ pc' = [pc EXCEPT ![r] = "idle"]
  /\ sizeRead' = [sizeRead EXCEPT ![r] = DefaultSize]
  /\ todo' = [todo EXCEPT ![r] = {}]
  /\ openEra' = [openEra EXCEPT ![r] = 0]
  /\ nextEra' = [nextEra EXCEPT ![r] = 1]
  /\ count' = [count EXCEPT ![r] = 0]
  /\ known' = [known EXCEPT ![r] = 0]
  /\ stale' = stale \ {r}
  /\ ready' = [ready EXCEPT ![r] = {}]

\* The second transaction: a closed summary written before A61 gains slices.
\* It takes the lock only when there is one to write.
Backfill(r) ==
  /\ pc[r] = "backfill"
  /\ Unsliced => writer = None
  /\ eras' = Sliced(eras)
  /\ Return(r)
  /\ UNCHANGED <<laps, setting, writer, work>>

-----------------------------------------------------------------------------
(* A refresh that does not finish: an open transaction is rolled back.     *)

Abandon(r) ==
  /\ Return(r)
  /\ IF writer = r THEN writer' = None /\ work' = << >>
     ELSE UNCHANGED <<writer, work>>
  /\ UNCHANGED store

\* Another holds the lock for as long as a statement of r waits for it.
LockTimeout(r) ==
  /\ writer \notin {None, r}
  /\ \/ pc[r] = "begin" /\ todo[r] # {}
     \/ pc[r] = "backfill" /\ Unsliced

\* The next INSERT repeats a primary key: an era index that another refresh
\* has taken, or a lap that it has put into the open era.
KeyConflict(r) ==
  /\ pc[r] = "assign"
  /\ \/ todo[r] # {} /\ openEra[r] = 0 /\ nextEra[r] \in DOMAIN work
     \/ /\ openEra[r] # 0
        /\ \E l \in todo[r] \cap work[openEra[r]].laps :
             \A k \in todo[r] \ {l} : Before(l, k)

\* The store raises.
Raise(r) == (LockTimeout(r) \/ KeyConflict(r)) /\ Abandon(r)

\* The process dies, or the store raises for a reason of its own.
Fail(r) == pc[r] # "idle" /\ Abandon(r)

RefreshStep(r) ==
  \/ ReadDated(r)
  \/ ReadAssigned(r)
  \/ ReadRows(r)
  \/ Begin(r)
  \/ OpenEra(r)
  \/ \E l \in todo[r] : PlaceLap(r, l)
  \/ CloseEra(r)
  \/ Commit(r)
  \/ Backfill(r)
  \/ Raise(r)

Next ==
  \/ \E d \in Dates \cup {NoDate} : StoreLap(d)
  \/ \E l \in DOMAIN date : MeasureLap(l)
  \/ \E n \in Sizes \cup {0} : SetEraSize(n)
  \/ \E r \in Refreshers : ReadSetting(r) \/ RefreshStep(r) \/ Fail(r)

\* A refresh that has started keeps running: it is a thread of the server,
\* and no statement of it waits for ever.  Nobody has to start one, and no
\* import has to finish.
Fairness == \A r \in Refreshers : WF_vars(RefreshStep(r))

Spec == Init /\ [][Next]_vars
FairSpec == Spec /\ Fairness

-----------------------------------------------------------------------------
(* Properties.                                                             *)

TypeOK ==
  /\ date \in Seq(Dates \cup {NoDate})
  /\ measured \subseteq DOMAIN date
  /\ setting \in Sizes
  /\ eras \in Seq(Era)
  /\ writer \in Refreshers \cup {None}
  /\ pc \in [Refreshers -> {"idle", "dated", "assigned", "rows", "begin",
                            "assign", "close", "backfill"}]
  /\ sizeRead \in [Refreshers -> Sizes]
  /\ todo \in [Refreshers -> SUBSET Nat]
  /\ openEra \in [Refreshers -> Nat]
  /\ nextEra \in [Refreshers -> Nat]
  /\ count \in [Refreshers -> Nat]
  /\ known \in [Refreshers -> Nat]
  /\ work \in Seq(Era)
  /\ stale \subseteq Refreshers
  /\ ready \in [Refreshers -> SUBSET Nat]

\* "Assigned in (lap_date, lap_pk) order, set once" (eras.py:8): no lap is in
\* two eras, and only stored, dated laps are in one.  Two refreshes that
\* overlap break it.
LapsInOneEra ==
  /\ InSome(eras) \subseteq Dated
  /\ \A i, j \in DOMAIN eras : i # j => eras[i].laps \cap eras[j].laps = {}

\* An era closes exactly when it fills, at the size it was created with; only
\* the last era is open and it is never empty (eras.py:9-11, 17-19).
ErasFilled ==
  \A i \in DOMAIN eras :
    /\ eras[i].closed => Cardinality(eras[i].laps) = eras[i].size
    /\ ~eras[i].closed => /\ i = Len(eras)
                          /\ eras[i].laps # {}
                          /\ Cardinality(eras[i].laps) < eras[i].size

\* The laps in two eras.
Doubled(es) == {l \in InSome(es) : \E i, j \in DOMAIN es :
                                     i # j /\ l \in es[i].laps \cap es[j].laps}

\* ... and how they can: a transaction puts a lap into a second era only if
\* another refresh committed after this one read which laps are assigned
\* (eras.py:487-493) and before it began to write (504).  However refreshes,
\* imports and deaths interleave, nothing else gives a lap a second era.
LapsPlacedOnce ==
  [][Doubled(eras') \subseteq Doubled(eras) \/ writer \in stale]_vars

\* A frozen summary was computed from that era's laps, all and only them
\* (eras.py:12-13): a lap counted by the era is never missing from it.  A
\* refresh in the middle of an import breaks it.
SummariesFaithful ==
  \A i \in DOMAIN eras :
    eras[i].summary = IF eras[i].closed THEN eras[i].laps ELSE {}

\* The eras that es has closed and the committed tables have not.
NewlyClosed(es) ==
  {i \in DOMAIN es : es[i].closed /\ ~(i \in DOMAIN eras /\ eras[i].closed)}

\* ... and what is sure all the same: a summary is frozen from its era's laps
\* alone, and misses none that was measured when its refresh read the laps'
\* cohorts (eras.py:502), though the transaction and other refreshes put laps
\* into the era afterwards.
SummariesComplete ==
  [][\A i \in NewlyClosed(eras') :
       /\ eras'[i].summary \subseteq eras'[i].laps
       /\ writer \in Refreshers
       /\ eras'[i].laps \cap ready[writer] \subseteq eras'[i].summary]_vars

\* "Backdated laps cannot join a frozen era" and a summary is "computed
\* once" (eras.py:12, 19-20): a closed era keeps its size, laps and summary
\* through every later step; only missing slices are ever added.
ClosedErasFrozen ==
  [][\A i \in DOMAIN eras : eras[i].closed =>
       /\ i \in DOMAIN eras'
       /\ eras'[i] = [eras[i] EXCEPT !.slices = eras'[i].slices]
       /\ eras[i].slices => eras'[i].slices]_vars

\* The committed tables implement the append-only partition of EraBlocks.
Cuts(es) == [i \in DOMAIN es |->
               [size |-> es[i].size, laps |-> es[i].laps, closed |-> es[i].closed]]
Blocks == INSTANCE EraBlocks WITH blocks <- Cuts(eras)
AppendOnlyBlocks == Blocks!Spec

\* A started refresh ends, by its second commit or by an error: refreshes that
\* overlap do not keep each other waiting, and the loop consumes the laps it
\* read.
RefreshTerminates == \A r \in Refreshers : pc[r] # "idle" ~> pc[r] = "idle"
=============================================================================
