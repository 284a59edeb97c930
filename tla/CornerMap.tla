----------------------------- MODULE CornerMap -----------------------------
(***************************************************************************)
(* The frozen corner map of one (car, track) cohort of one account, and    *)
(* what is measured against it: import_parsed_lap and rebuild_cohort_map   *)
(* (pipeline.py), the tables corner_maps, corners, corner_windows,         *)
(* corner_observations and phase_times (db.py).                            *)
(*                                                                         *)
(* Workers import laps and rebuild the map.  Every store call is its own   *)
(* transaction, so both are long sequences of steps: others come between,  *)
(* and a worker may die at each.                                           *)
(*                                                                         *)
(* Abstractions: a place on the track is an integer below its length, one  *)
(* distance for GPS and lap fraction, and no corner lies across the start  *)
(* line; a lap is its role, its segmented corner spans with their          *)
(* landmarks, and where its trace begins and ends; a phase time is the     *)
(* window it was measured across; telling copies of a lap apart is in      *)
(* LapStore.                                                               *)
(***************************************************************************)
EXTENDS Stats

CONSTANTS Workers,   \* processes and threads that import or rebuild
          Laps,      \* what may be driven: [role, spans, first, last]
          Round,     \* the length of the track
          Radius,    \* config.identity.match_radius_m
          MinLaps,   \* config.identity.min_laps_for_admission
          SlowMax, FastMin, Margin,  \* config.classification
          Past,      \* {}, or the lap that founded the map before
          MaxLaps,   \* bound: laps imported
          MaxRebuilds,  \* bound: rebuilds begun
          MaxFaults,    \* bound: operations that die, traces that go
          None

Phases == {"entry", "mid", "exit"}

\* A segmented corner: its landmarks, where the driver had them, all the places
\* that look like its apex, its lowest speed.
Spans == [brake : Nat \cup {None}, turn : Nat \cup {None}, apex : Nat,
          apexes : SUBSET Nat, full : Nat \cup {None}, exit : Nat, speed : Nat]

\* A corner's windows and a corner of the map.
Windows == [brake : Nat \cup {None}, turn : Nat \cup {None}, apex : Nat,
            end : Nat]
Corners == [at : Nat, class : {None, "slow", "medium", "fast"},
            windows : Windows \cup {None}]

ASSUME CornerMapAssumption ==
  /\ Round \in Nat \ {0}
  /\ Radius \in Nat /\ MinLaps \in Nat \ {0}
  /\ SlowMax \in Nat /\ FastMin \in Nat /\ Margin \in Nat
  /\ Past \subseteq {l \in Laps : l.role = "self"}
  /\ MaxLaps \in Nat /\ MaxRebuilds \in Nat /\ MaxFaults \in Nat
  /\ \A l \in Laps : /\ l.role \in {"self", "reference"} /\ l.spans \in Seq(Spans)
                     /\ l.first \in Nat /\ l.last \in Nat
  /\ None \notin Nat /\ None \notin Windows /\ None \notin Seq(Corners)
  /\ None \notin {"slow", "medium", "fast"}

VARIABLES laps,  \* table laps
          raw,   \* laps whose trace is on this machine
          evicted,  \* laps whose trace retention removed here
          map,   \* None, or the corners: [at, class, windows]
          obs,   \* corner_observations with their phase_times
          job,   \* what each worker does
          used   \* imports, rebuilds and faults so far, for the bounds

store == <<laps, raw, evicted, map, obs>>
vars == <<store, job, used>>

Idle == [op |-> "none", pc |-> "idle", solo |-> FALSE, lap |-> 0,
         seen |-> << >>, wins |-> << >>, k |-> 0, todo |-> << >>,
         list |-> {}]

-----------------------------------------------------------------------------
(* corners/identity.py                                                     *)

Centres(corners) == [c \in DOMAIN corners |-> corners[c].at]

\* Distance of the nearest apex of a span to each corner in reach.
Near(seen, s) ==
  {n \in {<<c, Distance(a, seen[c])>> : c \in DOMAIN seen, a \in s.apexes} :
     n[2] <= Radius}
Score(seen, s) == Least({n[2] : n \in Near(seen, s)})
Nearest(seen, s) ==
  IF Near(seen, s) = {} THEN 0
  ELSE Least({n[1] : n \in {m \in Near(seen, s) : m[2] = Score(seen, s)}})

\* match_lap: of the spans nearest to one corner the closest keeps it.
Match(seen, spans) ==
  LET best == [i \in DOMAIN spans |-> Nearest(seen, spans[i])]
      beaten(i) == \E j \in DOMAIN spans :
        best[j] = best[i] /\ Score(seen, spans[j]) < Score(seen, spans[i])
  IN [i \in DOMAIN spans |-> IF best[i] = 0 \/ beaten(i) THEN 0 ELSE best[i]]

ApexMedian(spans) == Median([i \in DOMAIN spans |-> spans[i].apex])

\* A cluster is a set of numbers; `at` gives each its place.  Its centre moves,
\* as the median of its places, or stays where the first of them was.
Centre(cl, at, moves) ==
  IF moves THEN Median([i \in cl |-> at[i]]) ELSE at[Least(cl)]

\* The nearest cluster in reach takes the place of o, the first of equals; or
\* it founds one.
Join(cls, o, at, moves) ==
  LET d(i) == Distance(Centre(cls[i], at, moves), at[o])
      near == {i \in DOMAIN cls : d(i) <= Radius}
      best == CHOOSE i \in near : \A j \in near :
                d(i) < d(j) \/ (d(i) = d(j) /\ i <= j)
  IN IF near = {} THEN Append(cls, {o})
     ELSE [cls EXCEPT ![best] = @ \cup {o}]

\* Greedy clustering of the numbers of `at` up to n, in order.
Clusters(at, n, moves) ==
  LET upTo[k \in 0 .. n] ==
        IF k = 0 THEN << >>
        ELSE IF k \in DOMAIN at THEN Join(upTo[k - 1], k, at, moves)
        ELSE upTo[k - 1]
  IN upTo[n]

\* build_corner_map of one lap: clusters of its spans in track order.
Built(spans) ==
  LET apexes == [i \in DOMAIN spans |-> spans[i].apex]
      cls == Clusters(apexes, Len(spans), TRUE)
      centres == [c \in DOMAIN cls |-> Centre(cls[c], apexes, TRUE)]
  IN [c \in DOMAIN cls |->
        [at |-> Kth(centres, c), class |-> None, windows |-> None]]

-----------------------------------------------------------------------------
(* corners/classify.py                                                     *)

Band(v) == IF v < SlowMax THEN "slow" ELSE IF v < FastMin THEN "medium"
           ELSE "fast"
WithinMargin(v, class) ==
  \/ class = "slow" /\ v <= SlowMax + Margin
  \/ class = "medium" /\ SlowMax - Margin <= v /\ v <= FastMin + Margin
  \/ class = "fast" /\ v >= FastMin - Margin

\* Mutant of Classified: a class once given is kept.
ClassifiedOnce(v, class) == IF class # None THEN class ELSE Band(v)

\* classify_with_hysteresis
Classified(v, class) ==
  IF class # None /\ WithinMargin(v, class) THEN class ELSE Band(v)

-----------------------------------------------------------------------------
(* attribution/engine.py: canonical windows.                               *)

MedianOrNone(s) ==
  LET present == {i \in DOMAIN s : s[i] # None}
  IN IF present = {} THEN None ELSE Median([i \in present |-> s[i]])

\* _circular_span: how far b is ahead of a.
Forward(a, b) == (b - a) % Round

\* derive_windows; exit_end is the one the car comes to first, after the apex.
Derived(spans) ==
  LET med(f) == MedianOrNone([i \in DOMAIN spans |-> spans[i][f]])
      apex == med("apex")
      full == med("full")
      exit == med("exit")
  IN IF DOMAIN spans = {} THEN None
     ELSE [brake |-> med("brake"), turn |-> med("turn"), apex |-> apex,
           end |-> IF full # None /\ Forward(apex, full) <= Forward(apex, exit)
                   THEN full ELSE exit]

\* PhaseWindows.window: undefined when a boundary is, or they coincide or are
\* inverted, which is when the way round from one to the other is over half a lap.
Window(win, phase) ==
  LET w == CASE phase = "entry" -> <<win.brake, win.turn>>
             [] phase = "mid" -> <<win.turn, win.apex>>
             [] phase = "exit" -> <<win.apex, win.end>>
  IN IF None \in {w[1], w[2]} THEN None
     ELSE IF Forward(w[1], w[2]) \in 1 .. Round \div 2 THEN w ELSE None

Unmeasured == [p \in Phases |-> None]

\* time_at: where a lap's trace has the time of a place, or comes closest to it.
TimeAt(lap, place) ==
  LET p == IF place < lap.first THEN place + Round ELSE place
  IN IF p < lap.first THEN lap.first ELSE IF p > lap.last THEN lap.last ELSE p

\* The phases a lap has a time of.
Timed(lap, win, p) ==
  /\ Window(win, p) # None
  /\ TimeAt(lap, Window(win, p)[1]) < TimeAt(lap, Window(win, p)[2])

\* phase_times and store_phase_times: an upsert of the phases that exist.
Measured(times, lap, win) ==
  [p \in Phases |-> IF Timed(lap, win, p) THEN Window(win, p) ELSE times[p]]

-----------------------------------------------------------------------------
(* Queries.                                                                *)

SpanOf(o) == laps[obs[o].lap].spans[obs[o].span]
Role(o) == laps[obs[o].lap].role
ObservationsOf(c) == {o \in DOMAIN obs : obs[o].corner = c}
Candidates == ObservationsOf(0)

\* Mutant of OwnSpans: reference laps are not filtered out.
AllSpans(c) == [o \in ObservationsOf(c) |-> SpanOf(o)]

\* corner_apex_positions, observation_positions, self_metric_history: only
\* the driver's own observations of a corner.
OwnSpans(c) == [o \in {p \in ObservationsOf(c) : Role(p) = "self"} |-> SpanOf(o)]

\* A store in which nothing was imported yet, or one lap, undisturbed: it
\* built the map, froze its windows and was measured across them.
Founded(l) ==
  LET here == Match(Centres(Built(l.spans)), l.spans)
      of(c) == {k \in DOMAIN here : here[k] = c}
      windowed == [c \in DOMAIN Built(l.spans) |->
        IF of(c) = {} THEN Built(l.spans)[c]
        ELSE [Built(l.spans)[c] EXCEPT
                !.windows = Derived(<<l.spans[Greatest(of(c))]>>),
                !.class = Band(Median([k \in of(c) |-> l.spans[k].speed]))]]
  IN /\ laps = <<l>> /\ raw = {1} /\ evicted = {}
     /\ map = windowed
     /\ obs = [k \in DOMAIN l.spans |->
          [lap |-> 1, span |-> k, corner |-> here[k],
           times |-> IF here[k] = 0 THEN Unmeasured
                     ELSE Measured(Unmeasured, l, windowed[here[k]].windows)]]

Init ==
  /\ \/ /\ laps = << >> /\ raw = {} /\ evicted = {}
        /\ map = None /\ obs = << >>
     \/ \E l \in Past : Founded(l)
  /\ job = [w \in Workers |-> Idle]
  /\ used = [imports |-> 0, rebuilds |-> 0, faults |-> 0]

-----------------------------------------------------------------------------
(* Steps.                                                                  *)

At(w, pc) == job[w].pc = pc
Become(w, j) == job' = [job EXCEPT ![w] = j]
Goto(w, pc) == Become(w, [job[w] EXCEPT !.pc = pc])

\* An operation begins; `solo` remembers whether it has run alone so far.
Begin(w, j) ==
  LET alone == \A v \in Workers : job[v].pc = "idle"
  IN /\ At(w, "idle")
     /\ job' = [v \in Workers |-> IF v = w THEN [j EXCEPT !.solo = alone]
                                  ELSE [job[v] EXCEPT !.solo = FALSE]]

\* A reference lap is refused when there is no map (A34); otherwise the row is
\* stored with its trace.  (Maps are never deleted: check and insert are one.)
ImportLap(w, l) ==
  /\ used.imports < MaxLaps
  /\ used' = [used EXCEPT !.imports = @ + 1]
  /\ l.role = "reference" => map # None
  /\ Begin(w, [Idle EXCEPT !.op = "import", !.pc = "load",
                           !.lap = Len(laps) + 1])
  /\ laps' = Append(laps, l)
  /\ raw' = raw \cup {Len(laps) + 1}
  /\ UNCHANGED <<evicted, map, obs>>

LoadMap(w) ==
  /\ At(w, "load")
  /\ IF map = None THEN Goto(w, "build")
     ELSE Become(w, [job[w] EXCEPT !.pc = "windows", !.seen = Centres(map)])
  /\ UNCHANGED <<store, used>>

\* The first lap builds the map.  UNIQUE (car, track, owner): the second of two
\* first laps fails here, after its row was stored.
BuildMap(w) ==
  LET spans == laps[job[w].lap].spans IN
  /\ At(w, "build")
  /\ IF map # None THEN Become(w, Idle) /\ UNCHANGED map
     ELSE /\ map' = Built(spans)
          /\ Become(w, [job[w] EXCEPT !.pc = "freeze", !.k = 1,
                                      !.seen = Centres(Built(spans))])
  /\ UNCHANGED <<laps, raw, evicted, obs, used>>

\* Its landmarks freeze the windows, one transaction for each matched span.
FreezeWindows(w) ==
  LET spans == laps[job[w].lap].spans
      k == job[w].k
  IN /\ At(w, "freeze")
     /\ IF k > Len(spans)
        THEN Goto(w, "windows") /\ UNCHANGED map
        ELSE LET c == Match(job[w].seen, spans)[k]
             IN /\ map' = IF c = 0 THEN map
                          ELSE [map EXCEPT ![c].windows = Derived(<<spans[k]>>)]
                /\ Become(w, [job[w] EXCEPT !.k = k + 1])
     /\ UNCHANGED <<laps, raw, evicted, obs, used>>

LoadWindows(w) ==
  /\ At(w, "windows")
  /\ Become(w, [job[w] EXCEPT !.pc = "observe", !.k = 1,
                  !.wins = [c \in DOMAIN map |-> map[c].windows]])
  /\ UNCHANGED <<store, used>>

\* store_observation: the span, its metrics and detector results.
Observe(w) ==
  LET spans == laps[job[w].lap].spans
      k == job[w].k
  IN /\ At(w, "observe")
     /\ IF k > Len(spans) THEN Goto(w, "candidates") /\ UNCHANGED obs
        ELSE /\ obs' = Append(obs,
                  [lap |-> job[w].lap, span |-> k, times |-> Unmeasured,
                   corner |-> Match(job[w].seen, spans)[k]])
             /\ Become(w, [job[w] EXCEPT !.pc = "measure",
                                         !.list = {Len(obs) + 1}])
     /\ UNCHANGED <<laps, raw, evicted, map, used>>

\* Its phase times, against the windows as they were loaded.
Measure(w) ==
  LET o == Least(job[w].list)
      c == obs[o].corner
      win == IF c = 0 \/ c > Len(job[w].wins) THEN None ELSE job[w].wins[c]
  IN /\ At(w, "measure")
     /\ obs' = IF win = None THEN obs
               ELSE [obs EXCEPT ![o].times = Measured(@, laps[job[w].lap], win)]
     /\ Become(w, [job[w] EXCEPT !.pc = "observe", !.k = @ + 1,
                                 !.list = {}])
     /\ UNCHANGED <<laps, raw, evicted, map, used>>

-----------------------------------------------------------------------------
(* admit_pending_candidates, _freeze_windows_for_admitted, _reclassify.    *)

\* The map's next free ID and the unmatched observations are read first.
ReadCandidates(w) ==
  /\ At(w, "candidates")
  /\ Become(w, [job[w] EXCEPT !.pc = "admit", !.seen = Centres(map),
                  !.wins = << >>, !.k = 0, !.list = Candidates])
  /\ UNCHANGED <<store, used>>

Own(rows) == {o \in rows : Role(o) = "self"}

\* Seen on enough distinct laps of the driver's own.
Admissible(rows) == Cardinality({obs[o].lap : o \in Own(rows)}) >= MinLaps

ApexOf(o) == SpanOf(o).apex
NewCorners(rows) ==
  LET cls == Clusters([o \in rows |-> ApexOf(o)], Len(obs), FALSE)
      kept == {i \in DOMAIN cls : Admissible(cls[i])}
  IN [j \in 1 .. Cardinality(kept) |-> cls[Kth([i \in kept |-> i], j)]]

\* The corner a cluster becomes, where the driver's own laps have it.
NewCorner(rows) ==
  [at |-> Median([o \in Own(rows) |-> ApexOf(o)]), class |-> None,
   windows |-> None]

\* Mutant of Admit: the corner numbers of the map as it is now are used.
AdmitRenumbered(w) ==
  LET new == NewCorners(job[w].list)
      n == Len(map)
      linked(o) == {i \in DOMAIN new : o \in new[i]}
  IN /\ At(w, "admit")
     /\ map' = map \o [i \in DOMAIN new |-> NewCorner(new[i])]
     /\ obs' = [o \in DOMAIN obs |-> IF linked(o) = {} THEN obs[o]
                 ELSE [obs[o] EXCEPT !.corner = n + Least(linked(o))]]
     /\ Become(w, [job[w] EXCEPT !.pc = "admitted", !.list = {},
                     !.todo = [i \in DOMAIN new |-> n + i]])
     /\ UNCHANGED <<laps, raw, evicted, used>>

\* All clusters that qualify become corners in one transaction.  UNIQUE
\* (map_pk, corner_id): it fails when another worker took the numbers.
Admit(w) ==
  LET new == NewCorners(job[w].list)
      n == Len(job[w].seen)
      linked(o) == {i \in DOMAIN new : o \in new[i]}
  IN /\ At(w, "admit")
     /\ IF new # << >> /\ n # Len(map)
        THEN Become(w, Idle) /\ UNCHANGED <<map, obs>>
        ELSE /\ map' = map \o [i \in DOMAIN new |-> NewCorner(new[i])]
             /\ obs' = [o \in DOMAIN obs |-> IF linked(o) = {} THEN obs[o]
                         ELSE [obs[o] EXCEPT !.corner = n + Least(linked(o))]]
             /\ Become(w, [job[w] EXCEPT !.pc = "admitted", !.list = {},
                             !.todo = [i \in DOMAIN new |-> n + i]])
     /\ UNCHANGED <<laps, raw, evicted, used>>

\* An admitted corner gets the windows of its observations, if it has any...
FreezeAdmitted(w) ==
  /\ At(w, "admitted")
  /\ IF job[w].todo = << >>
     THEN /\ Become(w, [job[w] EXCEPT !.pc = "classify", !.k = 1,
                                      !.seen = Centres(map), !.wins = << >>])
          /\ UNCHANGED map
     ELSE LET c == Head(job[w].todo)
              win == Derived(OwnSpans(c))
          IN IF win = None
             THEN Become(w, [job[w] EXCEPT !.todo = Tail(@)]) /\ UNCHANGED map
             ELSE /\ map' = [map EXCEPT ![c].windows = win]
                  /\ Become(w, [job[w] EXCEPT !.pc = "listed", !.wins = <<win>>])
  /\ UNCHANGED <<laps, raw, evicted, obs, used>>

\* ... and so does, in a rebuild, each corner; then their laps are listed...
ListObservations(w) ==
  LET c == IF job[w].todo = << >> THEN job[w].k ELSE Head(job[w].todo)
  IN /\ At(w, "listed")
     /\ Become(w, [job[w] EXCEPT !.pc = "times", !.list = ObservationsOf(c)])
     /\ UNCHANGED <<store, used>>

\* Mutant of Remeasure: a rebuild, too, skips a lap without its trace.
RemeasureOrSkip(w) ==
  /\ At(w, "times")
  /\ job[w].list # {}
  /\ LET o == Least(job[w].list)
     IN obs' = IF obs[o].lap \in raw
               THEN [obs EXCEPT ![o].times =
                       Measured(@, laps[obs[o].lap], Head(job[w].wins))]
               ELSE obs
  /\ Become(w, [job[w] EXCEPT !.list = @ \ {Least(@)}])
  /\ UNCHANGED <<laps, raw, evicted, map, used>>

\* ... and measured where the trace is here.  Where it is not, a rebuild
\* deletes the phase times and an admission leaves the lap out.
Remeasure(w) ==
  /\ At(w, "times")
  /\ job[w].list # {}
  /\ LET o == Least(job[w].list)
         win == Head(job[w].wins)
     IN obs' = IF obs[o].lap \in raw
               THEN [obs EXCEPT ![o].times = Measured(@, laps[obs[o].lap], win)]
               ELSE IF job[w].todo = << >>
               THEN [obs EXCEPT ![o].times = Unmeasured]
               ELSE obs
  /\ Become(w, [job[w] EXCEPT !.list = @ \ {Least(@)}])
  /\ UNCHANGED <<laps, raw, evicted, map, used>>

NextCorner(w) ==
  /\ At(w, "times")
  /\ job[w].list = {}
  /\ IF job[w].todo = << >>
     THEN Become(w, [job[w] EXCEPT !.pc = "centroid", !.k = @ + 1])
     ELSE Become(w, [job[w] EXCEPT !.pc = "admitted", !.todo = Tail(@)])
  /\ UNCHANGED <<store, used>>

Reclassify(w) ==
  LET k == job[w].k
      spans == OwnSpans(k)
  IN /\ At(w, "classify")
     /\ k <= Len(job[w].seen)
     /\ map' = IF DOMAIN spans = {} THEN map
               ELSE [map EXCEPT ![k].class = Classified(
                       Median([i \in DOMAIN spans |-> spans[i].speed]), @)]
     /\ Become(w, [job[w] EXCEPT !.k = k + 1])
     /\ UNCHANGED <<laps, raw, evicted, obs, used>>

\* The operation ends (an import stores the lap's incidents first).
Finish(w) ==
  /\ At(w, "classify")
  /\ job[w].k > Len(job[w].seen)
  /\ Become(w, Idle)
  /\ UNCHANGED <<store, used>>

-----------------------------------------------------------------------------
(* rebuild_cohort_map                                                      *)

Unavailable ==
  {obs[o].lap : o \in {p \in DOMAIN obs : obs[p].corner # 0}}
    \ (raw \cup evicted)

\* Refused while a trace is missing here that was not evicted here (A26),
\* unless the driver allows it.
Rebuild(w, allow) ==
  /\ used.rebuilds < MaxRebuilds
  /\ map # None
  /\ allow \/ Unavailable = {}
  /\ Begin(w, [Idle EXCEPT !.op = "rebuild", !.pc = "centroid", !.k = 1,
                           !.seen = Centres(map)])
  /\ used' = [used EXCEPT !.rebuilds = @ + 1]
  /\ UNCHANGED store

\* (a) the median apex of the corner's own observations.
Recentre(w) ==
  LET k == job[w].k IN
  /\ At(w, "centroid")
  /\ IF k > Len(job[w].seen) THEN Goto(w, "candidates") /\ UNCHANGED map
     ELSE /\ map' = IF DOMAIN OwnSpans(k) = {} THEN map
                    ELSE [map EXCEPT ![k].at = ApexMedian(OwnSpans(k))]
          /\ Goto(w, "refreeze")
  /\ UNCHANGED <<laps, raw, evicted, obs, used>>

\* (b) the windows; without an observation of the driver's own the corner is
\* left as it is.
Refreeze(w) ==
  LET k == job[w].k
      win == Derived(OwnSpans(k))
  IN /\ At(w, "refreeze")
     /\ IF win = None
        THEN Become(w, [job[w] EXCEPT !.pc = "centroid", !.k = k + 1])
             /\ UNCHANGED map
        ELSE /\ Become(w, [job[w] EXCEPT !.pc = "listed", !.wins = <<win>>])
             /\ map' = [map EXCEPT ![k].windows = win]
     /\ UNCHANGED <<laps, raw, evicted, obs, used>>

-----------------------------------------------------------------------------
(* The rest of the program and the machine.                                *)

Fault ==
  /\ used.faults < MaxFaults
  /\ used' = [used EXCEPT !.faults = @ + 1]

Fail(w) ==
  /\ Fault
  /\ ~At(w, "idle")
  /\ Become(w, Idle)
  /\ UNCHANGED store

\* Retention removes a trace and leaves a mark; a moved store has neither.
Evict(l) ==
  /\ Fault
  /\ raw' = raw \ {l} /\ evicted' = evicted \cup {l}
  /\ UNCHANGED <<laps, map, obs, job>>
Lose(l) ==
  /\ Fault
  /\ raw' = raw \ {l}
  /\ UNCHANGED <<laps, evicted, map, obs, job>>

Step(w) ==
  \/ LoadMap(w) \/ BuildMap(w) \/ FreezeWindows(w) \/ LoadWindows(w)
  \/ Observe(w) \/ Measure(w)
  \/ ReadCandidates(w) \/ Admit(w) \/ FreezeAdmitted(w)
  \/ ListObservations(w) \/ Remeasure(w) \/ NextCorner(w)
  \/ Recentre(w) \/ Refreeze(w) \/ Reclassify(w) \/ Finish(w)

Next ==
  \/ \E w \in Workers :
       \/ \E l \in Laps : ImportLap(w, l)
       \/ \E allow \in BOOLEAN : Rebuild(w, allow)
       \/ Step(w) \/ Fail(w)
  \/ \E l \in raw : Evict(l) \/ Lose(l)

Spec == Init /\ [][Next]_vars

-----------------------------------------------------------------------------
(* Properties.                                                             *)

TypeOK ==
  /\ laps \in Seq(Laps)
  /\ raw \subseteq DOMAIN laps /\ evicted \subseteq DOMAIN laps
  /\ raw \cap evicted = {}
  /\ map # None => map \in Seq(Corners)
  /\ \A o \in DOMAIN obs :
       /\ obs[o].lap \in DOMAIN laps
       /\ obs[o].span \in DOMAIN laps[obs[o].lap].spans
       /\ obs[o].corner \in 0 .. (IF map = None THEN 0 ELSE Len(map))
  /\ \A w \in Workers : job[w].op \in {"none", "import", "rebuild"}

\* Where a corner is and where its phases begin and end is decided by the
\* driver's own laps (A34; db.py:1344-1348, 1781-1784): no operation, however
\* interrupted or overtaken, puts a corner outside of what they have driven.
SelfDecides ==
  map # None =>
    LET own == UNION {{laps[l].spans[i] : i \in DOMAIN laps[l].spans} :
                      l \in {k \in DOMAIN laps : laps[k].role = "self"}}
        within(v, S) == \E p, q \in S : p <= v /\ v <= q
    IN \A c \in DOMAIN map :
         /\ within(map[c].at, {s.apex : s \in own})
         /\ map[c].windows # None =>
              within(map[c].windows.end,
                     ({s.exit : s \in own} \cup {s.full : s \in own}) \ {None})

\* An observation that has a corner keeps it (pipeline.py:358-363: "every
\* evidence ID that resolves through a corner stays valid"), although two
\* admissions may have read the same candidates.
ObservationKeepsCorner ==
  [][\A o \in DOMAIN obs :
       obs[o].corner # 0 => obs'[o].corner = obs[o].corner]_vars

\* A rebuild that nobody disturbed leaves every phase time measured across the
\* window its corner has now, or deleted because the trace is gone, whatever
\* crashes and overtaken imports had left behind (pipeline.py:344-349).  This is
\* for the phases of the new windows that the lap has a time of; see NothingStale.
RebuildRepairs ==
  [][\A w \in Workers :
       Finish(w) /\ job[w].op = "rebuild" /\ job[w].solo =>
         \A o \in DOMAIN obs, p \in Phases :
           LET c == obs[o].corner IN
           c # 0 /\ DOMAIN OwnSpans(c) # {}
             /\ Timed(laps[obs[o].lap], map[c].windows, p) =>
             \/ obs[o].times[p] = Window(map[c].windows, p)
             \/ obs[o].times[p] = None /\ obs[o].lap \notin raw]_vars

\* An undisturbed operation leaves every corner in a class its median speed
\* allows (corners/classify.py), although earlier ones may have died before
\* classifying or have classified from fewer laps.
ClassFollowsSpeed ==
  [][\A w \in Workers :
       Finish(w) /\ job[w].solo =>
         \A c \in DOMAIN map :
           DOMAIN OwnSpans(c) # {} =>
             WithinMargin(Median([i \in DOMAIN OwnSpans(c) |->
                                    OwnSpans(c)[i].speed]), map[c].class)]_vars

\* "A lap that can't be honestly re-interpolated against the new windows is
\* never left silently stale" (pipeline.py:348-349, docs/SPEC.md:1122-1125): after
\* an undisturbed rebuild no phase time is one of a retired window.
NothingStale ==
  [][\A w \in Workers :
       Finish(w) /\ job[w].op = "rebuild" /\ job[w].solo =>
         \A o \in DOMAIN obs, p \in Phases :
           LET c == obs[o].corner IN
           c # 0 /\ DOMAIN OwnSpans(c) # {} =>
             obs[o].times[p] \in {None, Window(map[c].windows, p)}]_vars

\* "Never a double-counted observation of the same corner"
\* (corners/identity.py:92-94): two spans of a lap are at two corners. The
\* matching keeps it so; the admission links whole clusters (db.py:1845-1848).
OncePerCorner ==
  \A a, b \in DOMAIN obs :
    a # b /\ obs[a].lap = obs[b].lap /\ obs[a].corner # 0 =>
      obs[a].corner # obs[b].corner
=============================================================================
