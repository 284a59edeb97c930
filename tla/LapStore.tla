------------------------------ MODULE LapStore ------------------------------
(***************************************************************************)
(* One account's laps: the rows of table laps in the database and the raw  *)
(* traces beside it (blobs.FileBlobStore: <lap_pk>.npz and the tombstones  *)
(* <lap_pk>.evicted), with the traces an old database still holds in       *)
(* lap_samples_legacy.                                                     *)
(*                                                                         *)
(* Workers are the processes and server threads that import laps           *)
(* (db.import_lap under pipeline.import_parsed_lap), enforce retention,    *)
(* drain the legacy table and restore lost traces.  A row and its trace    *)
(* are in different stores, so every operation is several steps, others    *)
(* run in between, and a worker may die at each of them.                   *)
(*                                                                         *)
(* Abstractions: a lap is its lap_pk, a position of `rows`; a trace is its *)
(* content fingerprint; measuring a lap (segmentation, observations,       *)
(* admission, classes, incidents) is one step.                             *)
(***************************************************************************)
EXTENDS Integers, Sequences, FiniteSets

CONSTANTS Workers,      \* processes and threads working on the account
          Sources,      \* values of source_file
          Contents,     \* telemetry contents, hence content hashes
          Cohorts,      \* (driver, car, track) triples
          Keep,         \* config.retention.raw_laps_per_cohort
          Past,         \* the laps stored before, by this release or another
          MaxLaps,      \* bound: laps ever stored
          None          \* no lap

PastLap == [src : {"past"}, content : Contents, cohort : Cohorts,
            measured : {TRUE}]

ASSUME LapStoreAssumption ==
  /\ Keep \in Nat
  /\ MaxLaps \in Nat
  /\ Past.rows \in Seq(PastLap)
  /\ \A a, b \in DOMAIN Past.rows :
       a # b => Past.rows[a].content # Past.rows[b].content
  /\ Past.legacy \subseteq DOMAIN Past.rows
  /\ "past" \notin Sources

VARIABLES rows,    \* table laps: rows[l] for lap_pk l
          blobs,   \* raw traces on disk: a function from lap_pk to content
          tombs,   \* lap_pks with an .evicted marker
          legacy,  \* lap_pks with a row in lap_samples_legacy
          pc,      \* where each worker is
          lap,     \* the lap a worker imports
          at,      \* the lap_pk a worker is working on
          list,    \* the lap_pks a maintenance worker still has to visit
          overtaken  \* history: the importers whose content another has stored
                     \* since they looked for it

files == <<blobs, tombs>>
vars == <<rows, files, legacy, pc, lap, at, list, overtaken>>

Offered == [src : Sources, content : Contents, cohort : Cohorts]
Importing == {"dedup", "insert", "put", "measure"}

Held == DOMAIN blobs \cup legacy
HasRaw(l) == l \in Held

Init ==
  /\ rows = Past.rows
  /\ blobs = << >>
  /\ tombs = {}
  /\ legacy = Past.legacy
  /\ pc = [w \in Workers |-> "idle"]
  /\ lap = [w \in Workers |-> None]
  /\ at = [w \in Workers |-> 0]
  /\ list = [w \in Workers |-> {}]
  /\ overtaken = {}

Goto(w, p) == pc' = [pc EXCEPT ![w] = p]

\* The operation returns; its local variables are gone.
Return(w) ==
  /\ pc' = [pc EXCEPT ![w] = "idle"]
  /\ lap' = [lap EXCEPT ![w] = None]
  /\ at' = [at EXCEPT ![w] = 0]
  /\ list' = [list EXCEPT ![w] = {}]
  /\ overtaken' = overtaken \ {w}

Put(l, c) ==
  blobs' = [k \in DOMAIN blobs \cup {l} |-> IF k = l THEN c ELSE blobs[k]]
Remove(l) == blobs' = [k \in DOMAIN blobs \ {l} |-> blobs[k]]

-----------------------------------------------------------------------------
(* import_parsed_lap.                                                      *)

\* The source_file check: a file already imported is a no-op ("exists").
CheckSource(w, o) ==
  /\ pc[w] = "idle"
  /\ \A l \in DOMAIN rows : rows[l].src # o.src
  /\ Goto(w, "dedup")
  /\ lap' = [lap EXCEPT ![w] = o]
  /\ UNCHANGED <<rows, files, legacy, at, list, overtaken>>

\* Mutant of CheckContent: a lap that was stored and never measured does not
\* count as a duplicate.
CheckContentMeasured(w) ==
  /\ pc[w] = "dedup"
  /\ IF \E l \in DOMAIN rows :
          rows[l].measured /\ rows[l].content = lap[w].content
     THEN Return(w)
     ELSE Goto(w, "insert") /\ UNCHANGED <<lap, at, list, overtaken>>
  /\ UNCHANGED <<rows, files, legacy>>

\* The content_hash check: the same telemetry under another name is refused
\* ("duplicate"), whether or not the lap it duplicates was ever measured.
CheckContent(w) ==
  /\ pc[w] = "dedup"
  /\ IF \E l \in DOMAIN rows : rows[l].content = lap[w].content
     THEN Return(w)
     ELSE Goto(w, "insert") /\ UNCHANGED <<lap, at, list, overtaken>>
  /\ UNCHANGED <<rows, files, legacy>>

\* The row is committed.  UNIQUE(content_hash, source_file, owner) stops only
\* the same content from the same source.
InsertRow(w) ==
  /\ pc[w] = "insert"
  /\ Len(rows) < MaxLaps
  /\ \A l \in DOMAIN rows :
       <<rows[l].src, rows[l].content>> # <<lap[w].src, lap[w].content>>
  /\ rows' = Append(rows, [src |-> lap[w].src, content |-> lap[w].content,
                           cohort |-> lap[w].cohort, measured |-> FALSE])
  /\ at' = [at EXCEPT ![w] = Len(rows) + 1]
  /\ Goto(w, "put")
  /\ overtaken' = {v \in Workers \ {w} :
                     pc[v] = "insert" /\ (v \in overtaken
                                          \/ lap[v].content = lap[w].content)}
  /\ UNCHANGED <<files, legacy, lap, list>>

\* The trace is written after the commit, outside the transaction.
PutBlob(w) ==
  /\ pc[w] = "put"
  /\ Put(at[w], lap[w].content)
  /\ Goto(w, "measure")
  /\ UNCHANGED <<rows, tombs, legacy, lap, at, list, overtaken>>

Measure(w) ==
  /\ pc[w] = "measure"
  /\ rows' = [rows EXCEPT ![at[w]].measured = TRUE]
  /\ Return(w)
  /\ UNCHANGED <<files, legacy>>

-----------------------------------------------------------------------------
(* enforce_retention.                                                      *)

\* held: the traces on disk and in the legacy table.
ListHeld(w) ==
  /\ pc[w] = "idle" /\ Held # {}
  /\ list' = [list EXCEPT ![w] = Held]
  /\ Goto(w, "rank")
  /\ UNCHANGED <<rows, files, legacy, lap, at, overtaken>>

Newer(l, held) == {k \in held : rows[k].cohort = rows[l].cohort /\ k > l}

\* Mutant of RankHeld: the oldest laps of a cohort are kept.
RankHeldOldest(w) ==
  /\ pc[w] = "rank"
  /\ LET held == list[w] \cap DOMAIN rows IN
     list' = [list EXCEPT ![w] = {l \in held :
       Cardinality({k \in held :
                      rows[k].cohort = rows[l].cohort /\ k < l}) >= Keep}]
  /\ Goto(w, "evict")
  /\ UNCHANGED <<rows, files, legacy, lap, at, overtaken>>

\* The SELECT: of the held laps, those behind the newest Keep of their cohort.
RankHeld(w) ==
  /\ pc[w] = "rank"
  /\ LET held == list[w] \cap DOMAIN rows IN
     list' = [list EXCEPT ![w] =
                {l \in held : Cardinality(Newer(l, held)) >= Keep}]
  /\ Goto(w, "evict")
  /\ UNCHANGED <<rows, files, legacy, lap, at, overtaken>>

\* The loop visits a cohort's laps newest first.
Newest(l, s) ==
  l \in s /\ \A k \in s : rows[k].cohort = rows[l].cohort => k <= l

EvictBlob(w, l) ==
  /\ pc[w] = "evict" /\ Newest(l, list[w])
  /\ Remove(l)
  /\ at' = [at EXCEPT ![w] = l]
  /\ Goto(w, "mark")
  /\ UNCHANGED <<rows, tombs, legacy, lap, list, overtaken>>

MarkEvicted(w) ==
  /\ pc[w] = "mark"
  /\ tombs' = tombs \cup {at[w]}
  /\ Goto(w, "forget")
  /\ UNCHANGED <<rows, blobs, legacy, lap, at, list, overtaken>>

ForgetLegacy(w) ==
  /\ pc[w] = "forget"
  /\ legacy' = legacy \ {at[w]}
  /\ list' = [list EXCEPT ![w] = @ \ {at[w]}]
  /\ Goto(w, "evict")
  /\ UNCHANGED <<rows, files, lap, at, overtaken>>

EvictDone(w) ==
  /\ pc[w] = "evict" /\ list[w] = {}
  /\ Return(w)
  /\ UNCHANGED <<rows, files, legacy>>

-----------------------------------------------------------------------------
(* drain_legacy_blobs: every legacy trace goes to disk, then the legacy    *)
(* rows go, all of the account's at once.                                  *)

ListLegacy(w) ==
  /\ pc[w] = "idle" /\ legacy # {}
  /\ list' = [list EXCEPT ![w] = legacy]
  /\ Goto(w, "drain")
  /\ UNCHANGED <<rows, files, legacy, lap, at, overtaken>>

DrainOne(w, l) ==
  /\ pc[w] = "drain" /\ l \in list[w] /\ \A k \in list[w] : l <= k
  /\ IF l \in DOMAIN blobs THEN UNCHANGED blobs ELSE Put(l, rows[l].content)
  /\ list' = [list EXCEPT ![w] = @ \ {l}]
  /\ UNCHANGED <<rows, tombs, legacy, pc, lap, at, overtaken>>

DropLegacy(w) ==
  /\ pc[w] = "drain" /\ list[w] = {}
  /\ legacy' = {}
  /\ Return(w)
  /\ UNCHANGED <<rows, files>>

-----------------------------------------------------------------------------
(* backfill_blobs: lost traces come back from their source CSVs.           *)

\* laps_needing_raw: absent here and never evicted here; by_hash keeps the
\* last lap of each content.
Needy == {l \in DOMAIN rows : l \notin tombs /\ ~HasRaw(l)}

ListNeedy(w) ==
  /\ pc[w] = "idle" /\ Needy # {}
  /\ list' = [list EXCEPT ![w] =
       {l \in Needy :
          \A k \in Needy : rows[k].content = rows[l].content => k <= l}]
  /\ Goto(w, "restore")
  /\ UNCHANGED <<rows, files, legacy, lap, at, overtaken>>

\* Mutant of Restore: the CSV is matched by cohort, not by fingerprint.
RestoreByCohort(w, c) ==
  /\ pc[w] = "restore"
  /\ \E l \in list[w] :
       /\ Put(l, c)
       /\ list' = [list EXCEPT ![w] = @ \ {l}]
  /\ UNCHANGED <<rows, tombs, legacy, pc, lap, at, overtaken>>

\* A CSV with content c restores the lap with that fingerprint.
Restore(w, c) ==
  /\ pc[w] = "restore"
  /\ \E l \in list[w] :
       /\ rows[l].content = c
       /\ Put(l, c)
       /\ list' = [list EXCEPT ![w] = @ \ {l}]
  /\ UNCHANGED <<rows, tombs, legacy, pc, lap, at, overtaken>>

\* No CSV is left; a lap whose CSV never turned up stays missing.
RestoreDone(w) ==
  /\ pc[w] = "restore"
  /\ Return(w)
  /\ UNCHANGED <<rows, files, legacy>>

-----------------------------------------------------------------------------

\* The process dies, or the store or the disk raises: what is committed and
\* written stays, the rest of the operation is never run.
Fail(w) ==
  /\ pc[w] # "idle"
  /\ Return(w)
  /\ UNCHANGED <<rows, files, legacy>>

Next ==
  \E w \in Workers :
    \/ \E o \in Offered : CheckSource(w, o)
    \/ CheckContent(w)
    \/ InsertRow(w)
    \/ PutBlob(w)
    \/ Measure(w)
    \/ ListHeld(w)
    \/ RankHeld(w)
    \/ \E l \in list[w] : EvictBlob(w, l)
    \/ MarkEvicted(w)
    \/ ForgetLegacy(w)
    \/ EvictDone(w)
    \/ ListLegacy(w)
    \/ \E l \in list[w] : DrainOne(w, l)
    \/ DropLegacy(w)
    \/ ListNeedy(w)
    \/ \E c \in Contents : Restore(w, c)
    \/ RestoreDone(w)
    \/ Fail(w)

Spec == Init /\ [][Next]_vars

-----------------------------------------------------------------------------
(* Properties.                                                             *)

TypeOK ==
  /\ \A l \in DOMAIN rows : rows[l] \in
       [src : Sources \cup {"past"}, content : Contents, cohort : Cohorts,
        measured : BOOLEAN]
  /\ DOMAIN blobs \subseteq DOMAIN rows
  /\ tombs \subseteq DOMAIN rows
  /\ legacy \subseteq DOMAIN Past.rows
  /\ pc \in [Workers -> Importing \cup {"idle", "rank", "evict", "mark",
                                        "forget", "drain", "restore"}]
  /\ lap \in [Workers -> Offered \cup {None}]
  /\ at \in [Workers -> {0} \cup DOMAIN rows]
  /\ list \in [Workers -> SUBSET (DOMAIN rows)]
  /\ overtaken \subseteq Workers

\* Byte-identical telemetry "is NOT stored, so it can't double-count in self
\* history" (db.py:1078-1080).
NoDoubleCount ==
  \A a, b \in DOMAIN rows : a # b => rows[a].content # rows[b].content

Copies == {p \in (DOMAIN rows) \X (DOMAIN rows) :
             p[1] < p[2] /\ rows[p[1]].content = rows[p[2]].content}

\* What is true of it: telemetry is stored a second time only by an import
\* that another import of the same telemetry has overtaken, between its look
\* for a duplicate (db.py:1092-1096) and its insertion (1102); not after a death, a
\* restored trace, an eviction or a lap that was never measured.
OnlyRacesDoubleCount ==
  [][Copies' \subseteq Copies \/ \E w \in overtaken : InsertRow(w)]_vars

\* "A CSV can only ever restore the lap it actually came from"
\* (pipeline.py:472-475), and no other path crosses traces either: a trace on
\* disk is that of the lap whose lap_pk it is filed under.
TracesBelong ==
  \A l \in DOMAIN blobs : l \in DOMAIN rows /\ blobs[l] = rows[l].content

\* A trace disappears only by retention, and retention never takes one of the
\* newest Keep traces its cohort has at that moment, whoever imports, restores
\* or evicts meanwhile (db.py:1200-1201).
OnlyOldTracesGo ==
  [][\A l \in Held : l \notin (DOMAIN blobs' \cup legacy') =>
       Cardinality(Newer(l, Held)) >= Keep]_vars
=============================================================================
