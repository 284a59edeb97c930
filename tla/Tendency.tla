------------------------------ MODULE Tendency ------------------------------
(***************************************************************************)
(* coaching/eras.py: the tendency projection of one coaching principle,    *)
(* refresh_tendencies and the state partition it computes.                 *)
(*                                                                         *)
(* A refresh lists the eras, computes the open era live, partitions the    *)
(* records, reads the stored rows and upserts them, each against its own   *)
(* view of the store; laps, annotations and configuration change the open  *)
(* era meanwhile, and other refreshes close eras and upsert rows.          *)
(*                                                                         *)
(* Abstractions: the eras are those Eras cuts, one fact each; a band is    *)
(* its rank in _BAND_RANK; eras are counted from one; per-era corners,     *)
(* evidence, session slices and words are left out.                        *)
(***************************************************************************)
EXTENDS Integers, Sequences, FiniteSets

CONSTANTS Refreshers,       \* threads or processes that may refresh
          Facts,            \* what an era's laps may show of the principle
          Quiet,            \* the band of an era in which it did not fire
          NoEra,            \* there is no open era
          NoRow,            \* no row is stored for a side
          ShareNum,         \* tendency_persistent_min_share =
          ShareDen,         \*   ShareNum / ShareDen
          ResolvedMinEras,  \* tendency_resolved_min_eras
          MaxEras           \* bound: closed eras

States == {"new", "recurring", "persistent", "improving", "regression",
           "dormant", "resolved", "lapsed"}
Outcomes == [state : States, erasFired : Nat, erasTotal : Nat, firstSeen : Nat,
             lastSeen : Nat, streak : Nat]

\* evaluated: some cohort of the era has enough laps for the gates.
Fact == [band : Int \cup {Quiet}, strength : BOOLEAN, evaluated : BOOLEAN]

ASSUME TendencyAssumption ==
  /\ Quiet \notin Int
  /\ Facts \subseteq Fact
  /\ NoEra \notin Facts /\ NoRow \notin Outcomes
  /\ ShareNum \in Nat /\ ShareDen \in Nat \ {0}
  /\ ResolvedMinEras \in Nat \ {0}
  /\ MaxEras \in Nat

VARIABLES closed,  \* the facts of the closed eras, in order (frozen summaries)
          open,    \* the fact of the open era's laps as they are now, or NoEra
          rows,    \* driver_tendencies: a row or NoRow for each side
          pc,      \* where each refresher is
          seen,    \* the records the refresher has built so far
          live,    \* whether the last era it listed was open
          stored,  \* `existing`: the rows it read
          overtaken, \* history: those whose stored rows another has upserted since
          latest   \* history: the refresher that upserted last, if any has

vars == <<closed, open, rows, pc, seen, live, stored, overtaken, latest>>
history == <<overtaken, latest>>

Sides == {"fault", "strength"}

-----------------------------------------------------------------------------
(* Records and the state partition.                                        *)

\* _compute_era_summary enters a principle that fired or was a strength, and
\* _records_from_principles reads a missing entry as not evaluated.
EraRecord(f) ==
  [fired |-> f.band # Quiet, rank |-> f.band, strength |-> f.strength,
   evaluated |-> f.evaluated /\ (f.band # Quiet \/ f.strength)]

\* _is_clearing
IsClearing(e) == ~e.fired /\ (e.strength \/ e.evaluated)

Last0(S) == IF S = {} THEN 0 ELSE CHOOSE i \in S : \A j \in S : j <= i
First0(S) == IF S = {} THEN 0 ELSE CHOOSE i \in S : \A j \in S : i <= j

\* Mutant of LatestFault: clearing eras are stripped with the thin ones.
LatestFaultFired(es) == Last0({i \in DOMAIN es : es[i].fired})

\* The last era left once the trailing eras that carry no signal are
\* stripped, and the run of eras of C that ends there.
LatestFault(es) == Last0({i \in DOMAIN es : es[i].fired \/ IsClearing(es[i])})
LatestStrength(es) ==
  Last0({i \in DOMAIN es : es[i].strength \/ es[i].evaluated})
RunUpTo(n, C) == n - Last0(1..n \ C)

\* The three latest eras fired, and the last two of them by a full rank
\* below (above) the first.
Fell(es, n) ==
  /\ n >= 3 /\ \A i \in n - 2 .. n : es[i].fired
  /\ \A i \in n - 1 .. n : es[i].rank <= es[n - 2].rank - 1
Rose(es, n) ==
  /\ n >= 3 /\ \A i \in n - 2 .. n : es[i].fired
  /\ \A i \in n - 1 .. n : es[i].rank >= es[n - 2].rank + 1

ShareState(hits, n, total) ==
  IF hits = {n} THEN "new"
  ELSE IF Cardinality(hits) * ShareDen >= ShareNum * total THEN "persistent"
  ELSE "recurring"

Outcome(state, hits, total, streak) ==
  [state |-> state, erasFired |-> Cardinality(hits), erasTotal |-> total,
   firstSeen |-> First0(hits), lastSeen |-> Last0(hits), streak |-> streak]

\* Mutant of FaultState: trailing thin eras are not stripped.
FaultStateUnstripped(es) ==
  LET fired == {i \in DOMAIN es : es[i].fired}
      n == Len(es)
      streak == RunUpTo(n, {i \in DOMAIN es : IsClearing(es[i])})
      state == IF fired = {} THEN "none"
               ELSE IF streak >= ResolvedMinEras THEN "resolved"
               ELSE IF streak > 0 THEN "dormant"
               ELSE IF Fell(es, n) THEN "improving"
               ELSE IF Rose(es, n) THEN "regression"
               ELSE ShareState(fired, n, Len(es))
  IN Outcome(state, fired, Len(es), IF fired = {} THEN 0 ELSE streak)

\* fault_tendency_state
FaultState(es) ==
  LET fired == {i \in DOMAIN es : es[i].fired}
      n == LatestFault(es)
      streak == RunUpTo(n, {i \in DOMAIN es : IsClearing(es[i])})
      state == IF fired = {} THEN "none"
               ELSE IF streak >= ResolvedMinEras THEN "resolved"
               ELSE IF streak > 0 THEN "dormant"
               ELSE IF Fell(es, n) THEN "improving"
               ELSE IF Rose(es, n) THEN "regression"
               ELSE ShareState(fired, n, Len(es))
  IN Outcome(state, fired, Len(es), IF fired = {} THEN 0 ELSE streak)

\* strength_tendency_state
StrengthState(es) ==
  LET shown == {i \in DOMAIN es : es[i].strength}
      n == LatestStrength(es)
      streak == RunUpTo(n, DOMAIN es \ shown)
      state == IF shown = {} THEN "none"
               ELSE IF streak > 0 THEN "lapsed"
               ELSE ShareState(shown, n, Len(es))
  IN Outcome(state, shown, Len(es), IF shown = {} THEN 0 ELSE streak)

StateOf(side, es) ==
  IF side = "fault" THEN FaultState(es) ELSE StrengthState(es)

-----------------------------------------------------------------------------
(* The eras, as Eras and the measurements move them.                       *)

ClosedRecords == [i \in DOMAIN closed |-> EraRecord(closed[i])]
Records ==
  IF open = NoEra THEN ClosedRecords ELSE Append(ClosedRecords, EraRecord(open))

\* What a refresher that has not read the rows knows of them.
Unread == [s \in Sides |-> NoRow]

Init ==
  /\ closed = << >>
  /\ open = NoEra
  /\ rows = [s \in Sides |-> NoRow]
  /\ pc = [r \in Refreshers |-> "idle"]
  /\ seen = [r \in Refreshers |-> << >>]
  /\ live = [r \in Refreshers |-> FALSE]
  /\ stored = [r \in Refreshers |-> Unread]
  /\ overtaken = {} /\ latest = {}

\* The open era's live computation changes: laps joined it, were annotated
\* or excluded, or the configuration moved a gate.
OpenEraChanges(f) ==
  /\ Len(closed) < MaxEras
  /\ f # open
  /\ open' = f
  /\ UNCHANGED <<closed, rows, pc, seen, live, stored, history>>

\* refresh_eras, called by a refresh that is starting, closes the open era
\* with its summary.
EraCloses(r) ==
  /\ pc[r] = "idle"
  /\ open # NoEra
  /\ closed' = Append(closed, open)
  /\ open' = NoEra
  /\ UNCHANGED <<rows, pc, seen, live, stored, history>>

-----------------------------------------------------------------------------
(* refresh_tendencies                                                      *)

\* The rows refresh_eras returns: nothing to do when there is none.
ListEras(r) ==
  /\ pc[r] = "idle"
  /\ closed # << >> \/ open # NoEra
  /\ pc' = [pc EXCEPT ![r] = "listed"]
  /\ seen' = [seen EXCEPT ![r] = ClosedRecords]
  /\ live' = [live EXCEPT ![r] = open # NoEra]
  /\ UNCHANGED <<closed, open, rows, stored, history>>

\* The era that was open when it was listed is computed from its laps as they
\* are now, even if another refresh has closed it since (with more laps).
ComputeOpen(r) ==
  /\ pc[r] = "listed"
  /\ pc' = [pc EXCEPT ![r] = "computed"]
  /\ \E f \in IF Len(seen[r]) = Len(closed) THEN {open} ELSE Facts :
       seen' = [seen EXCEPT ![r] =
                  IF live[r] THEN Append(@, EraRecord(f)) ELSE @]
  /\ UNCHANGED <<closed, open, rows, live, stored, history>>

\* Mutant of ReadStored: the rows of the current refresh only are kept.
ReadStoredNone(r) ==
  /\ pc[r] = "computed"
  /\ pc' = [pc EXCEPT ![r] = "stored"]
  /\ stored' = [stored EXCEPT ![r] = Unread]
  /\ UNCHANGED <<closed, open, rows, seen, live, history>>

ReadStored(r) ==
  /\ pc[r] = "computed"
  /\ pc' = [pc EXCEPT ![r] = "stored"]
  /\ stored' = [stored EXCEPT ![r] = rows]
  /\ UNCHANGED <<closed, open, rows, seen, live, history>>

\* Mutant of RowOf: a stored row is left as it is.
RowOfKept(new, old) == IF old = NoRow THEN new ELSE old

\* Mutant of RowOf: the first era is the one last seen.
RowOfLastSeen(new, old) ==
  [new EXCEPT !.firstSeen = IF old = NoRow THEN new.lastSeen ELSE old.firstSeen]

\* A stored row keeps the era it was first seen in.
RowOf(new, old) ==
  [new EXCEPT !.firstSeen = IF old = NoRow THEN @ ELSE old.firstSeen]

\* Both sides in one transaction; a side that never fired is skipped.
Upsert(r) ==
  /\ pc[r] = "stored"
  /\ pc' = [pc EXCEPT ![r] = "idle"]
  /\ rows' = [s \in Sides |->
                LET new == StateOf(s, seen[r])
                IN IF new.state = "none" THEN rows[s]
                   ELSE RowOf(new, stored[r][s])]
  /\ stored' = [stored EXCEPT ![r] = Unread]
  /\ live' = [live EXCEPT ![r] = FALSE]
  /\ overtaken' = {q \in Refreshers \ {r} : pc[q] = "stored"}
  /\ latest' = {r}
  /\ UNCHANGED <<closed, open, seen>>

\* The process dies or the store raises before the transaction commits.
Fail(r) ==
  /\ pc[r] # "idle"
  /\ pc' = [pc EXCEPT ![r] = "idle"]
  /\ seen' = [seen EXCEPT ![r] = << >>]
  /\ stored' = [stored EXCEPT ![r] = Unread]
  /\ live' = [live EXCEPT ![r] = FALSE]
  /\ overtaken' = overtaken \ {r}
  /\ UNCHANGED <<closed, open, rows, latest>>

Next ==
  \/ \E f \in Facts : OpenEraChanges(f)
  \/ \E r \in Refreshers :
       \/ EraCloses(r)
       \/ ListEras(r)
       \/ ComputeOpen(r)
       \/ ReadStored(r)
       \/ Upsert(r)
       \/ Fail(r)

Spec == Init /\ [][Next]_vars

-----------------------------------------------------------------------------
(* Properties.                                                             *)

EraRecords == {EraRecord(f) : f \in Facts}

TypeOK ==
  /\ closed \in Seq(Facts)
  /\ open \in Facts \cup {NoEra}
  /\ rows \in [Sides -> Outcomes \cup {NoRow}]
  /\ pc \in [Refreshers -> {"idle", "listed", "computed", "stored"}]
  /\ seen \in [Refreshers -> Seq(EraRecords)]
  /\ live \in [Refreshers -> BOOLEAN]
  /\ stored \in [Refreshers -> [Sides -> Outcomes \cup {NoRow}]]
  /\ overtaken \in SUBSET Refreshers /\ latest \in SUBSET Refreshers

\* One era at a time, what a reader who never looks back would remember: the
\* bands of the run of fired eras he is in, the length of the run of clearing
\* eras he is in, and whether an era without signal has come since.
Remember(a, e) ==
  [total |-> a.total + 1,
   hits  |-> IF e.fired THEN a.hits + 1 ELSE a.hits,
   bands |-> IF e.fired THEN IF a.gap THEN <<e.rank>> ELSE Append(a.bands, e.rank)
             ELSE IF IsClearing(e) THEN << >> ELSE a.bands,
   clears |-> IF e.fired THEN 0
              ELSE IF ~IsClearing(e) THEN a.clears
              ELSE IF a.gap THEN 1 ELSE a.clears + 1,
   gap   |-> ~e.fired /\ ~IsClearing(e)]

NothingYet == [total |-> 0, hits |-> 0, bands |-> << >>, clears |-> 0, gap |-> FALSE]

Scan(es) ==
  LET scan[n \in 0 .. Len(es)] ==
        IF n = 0 THEN NothingYet ELSE Remember(scan[n - 1], es[n])
  IN scan[Len(es)]

ScanState(a) ==
  LET n == Len(a.bands)
      moved(up) == n >= 3 /\ \A i \in n - 1 .. n :
                     IF up THEN a.bands[i] > a.bands[n - 2]
                     ELSE a.bands[i] < a.bands[n - 2]
  IN IF a.hits = 0 THEN "none"
     ELSE IF a.clears >= ResolvedMinEras THEN "resolved"
     ELSE IF a.clears > 0 THEN "dormant"
     ELSE IF moved(FALSE) THEN "improving"
     ELSE IF moved(TRUE) THEN "regression"
     ELSE IF a.hits = 1 THEN "new"
     ELSE IF a.hits * ShareDen >= ShareNum * a.total THEN "persistent"
     ELSE "recurring"

\* The partition of docs/SPEC.md A59, decided by stripping, counting back and
\* precedence (eras.py:97-168), is what one forward pass over the eras gives.
PartitionIsForward == FaultState(Records).state = ScanState(Scan(Records))

\* What one more closed era may do to a fault (docs/SPEC.md A59: "Trailing
\* thin eras carry no signal"; config.py:937-940): an era without signal only
\* dilutes the share; a clearing era makes a fired pattern dormant or
\* resolved and never takes resolved back, unless an era without signal came
\* between; a fired era ends dormant and resolved, is new only the first
\* time, and gives a trend only to a pattern that fired in the era before.
VerdictSteps ==
  [][closed' # closed =>
       LET e == EraRecord(open)
           before == FaultState(ClosedRecords).state
           after == FaultState(Append(ClosedRecords, e)).state
           gap == LatestFault(ClosedRecords) # Len(closed)
       IN /\ ~e.fired /\ ~IsClearing(e) =>
               after = before \/ (before = "persistent" /\ after = "recurring")
          /\ IsClearing(e) => IF before = "none" THEN after = "none"
                              ELSE after \in {"dormant", "resolved"}
          /\ IsClearing(e) /\ before = "resolved" /\ ~gap => after = "resolved"
          /\ e.fired => /\ after \notin {"none", "dormant", "resolved"}
                        /\ after = "new" <=> before = "none"
                        /\ after \in {"improving", "regression"} =>
                             /\ ~gap
                             /\ before \notin {"none", "new", "dormant", "resolved"}
     ]_vars

Showed(s, f) == IF s = "fault" THEN EraRecord(f).fired ELSE EraRecord(f).strength

\* No closed era before the one a row was "first seen" in shows the pattern
\* (eras.py:22-25), whichever refreshes overlapped and rewrote the row, with
\* views of the eras as old as they may be.
FirstSeenIsFirst ==
  \A s \in Sides : rows[s] # NoRow =>
    /\ rows[s].firstSeen \in 1 .. Len(closed) + 1
    /\ \A i \in 1 .. rows[s].firstSeen - 1 : ~Showed(s, closed[i])

KeepsFirstSeen(s) == rows'[s] # NoRow /\ rows'[s].firstSeen = rows[s].firstSeen

\* "Tendencies must not [upsert away history] - an upsert preserves the
\* existing first_seen_era" (eras.py:24-25), whoever else refreshes.
FirstSeenKept == [][\A s \in Sides : rows[s] # NoRow => KeepsFirstSeen(s)]_vars

\* What is true of it: a row never goes away, and only a refresh rewrites when
\* it was first seen that another one has overtaken, between its reading of
\* the stored rows (eras.py:703) and its upsert (709).
OnlyOvertakenRewrite ==
  [][\A s \in Sides : rows[s] # NoRow =>
       /\ rows'[s] # NoRow
       /\ KeepsFirstSeen(s) \/ \E r \in overtaken : Upsert(r)]_vars

\* r has ended a refresh and the eras are still as it read them.
Current(r) == pc[r] = "idle" /\ seen[r] # << >> /\ seen[r] = Records

\* The refresh that upserted last repairs what overtaken ones left: if the eras
\* are as it read them, a pattern some era shows has the row they give it.
ProjectionCurrent ==
  \A r \in latest, s \in Sides :
    LET now == StateOf(s, Records)
    IN Current(r) /\ now.state # "none" =>
         rows[s] # NoRow /\ rows[s] = [now EXCEPT !.firstSeen = rows[s].firstSeen]

\* "The rollup above already refreshed the projection, so this read is fresh"
\* (report/payload.py:451-452): after a refresh no row tells of a pattern
\* that no era shows.
NoStaleRow ==
  \A r \in Refreshers, s \in Sides :
    Current(r) /\ StateOf(s, Records).state = "none" => rows[s] = NoRow

\* "A principle that stopped firing in era 1 would read dormant today and
\* resolve when era 2 closes with continued absence" (docs/SPEC.md:3322-3323;
\* a clearing era is one "evaluated below its gate"): a pattern that fired and
\* is quiet in the latest era, where the gates could run, is being cleared.
QuietEvaluatedEraClears ==
  LET n == Len(closed)
  IN /\ n > 0 /\ closed[n].evaluated /\ closed[n].band = Quiet
     /\ \E i \in 1 .. n : closed[i].band # Quiet
     => FaultState(ClosedRecords).state \in {"dormant", "resolved"}
=============================================================================
