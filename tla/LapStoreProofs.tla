--------------------------- MODULE LapStoreProofs ---------------------------
(***************************************************************************)
(* Proofs about LapStore for every set of workers, laps and cohorts, every *)
(* Keep, and every past of the store.                                      *)
(*                                                                         *)
(* Belonging, Searched and Retaining say what a worker still may believe   *)
(* of what it read some steps ago, whatever the others have done since.    *)
(***************************************************************************)
EXTENDS LapStore, FiniteSetTheorems, SequenceTheorems, WellFoundedInduction, TLAPS

Stored == [src : Sources \cup {"past"}, content : Contents, cohort : Cohorts,
           measured : BOOLEAN]

\* The tables are well typed, and so are a worker's lap and its position at
\* the steps that use them.
Typed ==
  /\ TypeOK
  /\ rows \in Seq(Stored)
  /\ Len(Past.rows) <= Len(rows)
  /\ \A w \in Workers :
       /\ pc[w] \in {"dedup", "insert", "put"} => lap[w] \in Offered
       /\ pc[w] \in {"put", "measure", "mark", "forget"} => at[w] \in DOMAIN rows

\* A worker about to write a trace holds the content of the row it inserted.
Belonging ==
  /\ TracesBelong
  /\ \A w \in Workers : pc[w] = "put" => rows[at[w]].content = lap[w].content

\* What an importer looked for is not stored, unless it has been overtaken.
Searched ==
  \A w \in Workers : pc[w] = "insert" /\ w \notin overtaken =>
    \A l \in DOMAIN rows : rows[l].content # lap[w].content

\* At least Keep newer traces of its cohort are held.
Expendable(l) == Cardinality(Newer(l, Held)) >= Keep

\* What a maintenance worker has ranked or is about to rank as old is old
\* now; what it has drained is on disk, unless retention took it since.
Retaining ==
  \A w \in Workers :
    /\ pc[w] = "rank" => \A l \in list[w] :
         Cardinality(Newer(l, list[w])) >= Keep => Expendable(l)
    /\ pc[w] \in {"evict", "mark", "forget"} => \A l \in list[w] : Expendable(l)
    /\ pc[w] \in {"mark", "forget"} => Expendable(at[w])
    /\ pc[w] = "drain" => \A l \in legacy \ list[w] :
         l \in DOMAIN blobs \/ Expendable(l)

-----------------------------------------------------------------------------
(* Type correctness.                                                       *)

\* A past row is a stored row, and the legacy traces are those of past rows.
LEMMA PastStored ==
  /\ Past.rows \in Seq(Stored)
  /\ Past.legacy \subseteq DOMAIN Past.rows
<1>1. Past.rows \in Seq(PastLap)
  BY LapStoreAssumption
<1>2. PastLap \subseteq Stored
  BY DEF PastLap, Stored
<1>3. \A l \in 1..Len(Past.rows) : Past.rows[l] \in Stored
  BY <1>1, <1>2, ElementOfSeq
<1>4. QED
  BY <1>1, <1>3, LapStoreAssumption, SeqDef, LenProperties

LEMMA TypedInit == Init => Typed
<1> SUFFICES ASSUME Init PROVE Typed
  OBVIOUS
<1>1. rows \in Seq(Stored) /\ DOMAIN rows = 1..Len(rows) /\ Len(rows) \in Nat
  BY PastStored, LenProperties DEF Init
<1>2. TypeOK
  <2>1. \A l \in DOMAIN rows : rows[l] \in Stored
    BY <1>1, ElementOfSeq
  <2>2. QED
    BY <2>1, PastStored DEF Init, TypeOK, Stored, Importing
<1>3. QED
  BY <1>1, <1>2 DEF Init, Typed

\* Rows are appended or marked as measured; what a lap is never changes.
LEMMA RowsGrow ==
  ASSUME Typed, [Next]_vars
  PROVE  /\ rows' \in Seq(Stored) /\ Len(rows) <= Len(rows')
         /\ DOMAIN rows = 1..Len(rows) /\ DOMAIN rows' = 1..Len(rows')
         /\ \A l \in DOMAIN rows : /\ rows'[l].content = rows[l].content
                                   /\ rows'[l].cohort = rows[l].cohort
         /\ rows' = rows \/ \E w \in Workers : InsertRow(w) \/ Measure(w)
<1>1. /\ rows \in Seq(Stored) /\ DOMAIN rows = 1..Len(rows) /\ Len(rows) \in Nat
      /\ \A l \in DOMAIN rows : rows[l] \in Stored
  BY LenProperties, ElementOfSeq DEF Typed
<1>2. CASE rows' = rows
  BY <1>1, <1>2
<1>3. ASSUME NEW w \in Workers, InsertRow(w)
      PROVE  /\ rows' \in Seq(Stored) /\ Len(rows) <= Len(rows')
             /\ DOMAIN rows' = 1..Len(rows')
             /\ \A l \in DOMAIN rows : rows'[l] = rows[l]
  <2> DEFINE row == [src |-> lap[w].src, content |-> lap[w].content,
                     cohort |-> lap[w].cohort, measured |-> FALSE]
  <2>1. row \in Stored
    BY <1>3 DEF Typed, InsertRow, Offered, Stored
  <2>2. rows' = Append(rows, row)
    BY <1>3 DEF InsertRow
  <2> HIDE DEF row
  <2>3. QED
    BY <1>1, <2>1, <2>2, AppendProperties, LenProperties
<1>4. ASSUME NEW w \in Workers, Measure(w)
      PROVE  /\ rows' \in Seq(Stored) /\ Len(rows) <= Len(rows')
             /\ DOMAIN rows' = 1..Len(rows')
             /\ \A l \in DOMAIN rows : /\ rows'[l].content = rows[l].content
                                       /\ rows'[l].cohort = rows[l].cohort
  <2> DEFINE row == [rows[at[w]] EXCEPT !.measured = TRUE]
  <2>1. at[w] \in 1..Len(rows)
    BY <1>1, <1>4 DEF Typed, Measure
  <2>2. row \in Stored /\ row.content = rows[at[w]].content
                       /\ row.cohort = rows[at[w]].cohort
    BY <1>1, <2>1 DEF Stored
  <2>3. rows' = [rows EXCEPT ![at[w]] = row]
    BY <1>4 DEF Measure
  <2> HIDE DEF row
  <2>4. rows' \in Seq(Stored) /\ Len(rows') = Len(rows)
        /\ \A l \in 1..Len(rows) : rows'[l] = IF l = at[w] THEN row ELSE rows[l]
    BY <1>1, <2>1, <2>2, <2>3, ExceptSeq
  <2>5. QED
    BY <1>1, <2>2, <2>4, LenProperties
<1>5. rows' = rows \/ \E w \in Workers : InsertRow(w) \/ Measure(w)
  BY DEF Next, vars, files, CheckSource, CheckContent, PutBlob, ListHeld, RankHeld,
     EvictBlob, MarkEvicted, ForgetLegacy, EvictDone, ListLegacy, DrainOne,
     DropLegacy, ListNeedy, Restore, RestoreDone, Fail
<1>6. QED
  BY <1>1, <1>2, <1>3, <1>4, <1>5

\* The files name laps that are stored.
LEMMA FilesTyped ==
  ASSUME Typed, [Next]_vars
  PROVE  DOMAIN blobs' \subseteq DOMAIN rows' /\ tombs' \subseteq DOMAIN rows'
         /\ legacy' \subseteq legacy
<1>1. /\ DOMAIN rows \subseteq DOMAIN rows' /\ legacy \subseteq DOMAIN rows
      /\ DOMAIN blobs \subseteq DOMAIN rows /\ tombs \subseteq DOMAIN rows
  <2>1. DOMAIN Past.rows = 1..Len(Past.rows) /\ Len(Past.rows) \in Nat
        /\ Len(rows) \in Nat /\ Len(rows') \in Nat
    BY PastStored, RowsGrow, LenProperties DEF Typed
  <2>2. QED
    BY <2>1, RowsGrow DEF Typed, TypeOK
<1>2. \A w \in Workers : list[w] \subseteq DOMAIN rows
  BY DEF Typed, TypeOK
<1>3. ASSUME UNCHANGED files
      PROVE  DOMAIN blobs' \subseteq DOMAIN rows' /\ tombs' \subseteq DOMAIN rows'
  BY <1>1, <1>3 DEF files
<1>4. ASSUME NEW w \in Workers, PutBlob(w)
      PROVE  DOMAIN blobs' \subseteq DOMAIN rows /\ tombs' = tombs
  BY <1>1, <1>4 DEF PutBlob, Put, Typed
<1>5. ASSUME NEW w \in Workers, NEW l \in list[w], EvictBlob(w, l) \/ DrainOne(w, l)
      PROVE  DOMAIN blobs' \subseteq DOMAIN rows /\ tombs' = tombs
  BY <1>1, <1>2, <1>5 DEF EvictBlob, DrainOne, Remove, Put
<1>6. ASSUME NEW w \in Workers, NEW c \in Contents, Restore(w, c)
      PROVE  DOMAIN blobs' \subseteq DOMAIN rows /\ tombs' = tombs
  BY <1>1, <1>2, <1>6 DEF Restore, Put
<1>7. ASSUME NEW w \in Workers, MarkEvicted(w)
      PROVE  blobs' = blobs /\ tombs' \subseteq DOMAIN rows
  BY <1>1, <1>7 DEF MarkEvicted, Typed
<1>8. legacy' \subseteq legacy
  BY DEF Next, vars, files, CheckSource, CheckContent, InsertRow, PutBlob, Measure,
     ListHeld, RankHeld, EvictBlob, MarkEvicted, ForgetLegacy, EvictDone, ListLegacy,
     DrainOne, DropLegacy, ListNeedy, Restore, RestoreDone, Fail
<1>9. QED
  BY <1>1, <1>3, <1>4, <1>5, <1>6, <1>7, <1>8
     DEF Next, vars, files, CheckSource, CheckContent, InsertRow, Measure, ListHeld,
     RankHeld, ForgetLegacy, EvictDone, ListLegacy, DropLegacy, ListNeedy,
     RestoreDone, Fail

\* Every worker has what its next step needs.
LEMMA WorkersTyped ==
  ASSUME Typed, [Next]_vars
  PROVE  /\ pc' \in [Workers -> Importing \cup {"idle", "rank", "evict", "mark",
                                                "forget", "drain", "restore"}]
         /\ lap' \in [Workers -> Offered \cup {None}]
         /\ at' \in [Workers -> {0} \cup DOMAIN rows']
         /\ list' \in [Workers -> SUBSET (DOMAIN rows')]
         /\ \A w \in Workers :
              /\ pc'[w] \in {"dedup", "insert", "put"} => lap'[w] \in Offered
              /\ pc'[w] \in {"put", "measure", "mark", "forget"} =>
                   at'[w] \in DOMAIN rows'
<1> DEFINE Goal == /\ pc' \in [Workers -> Importing \cup {"idle", "rank", "evict",
                                 "mark", "forget", "drain", "restore"}]
                   /\ lap' \in [Workers -> Offered \cup {None}]
                   /\ at' \in [Workers -> {0} \cup DOMAIN rows']
                   /\ list' \in [Workers -> SUBSET (DOMAIN rows')]
                   /\ \A w \in Workers :
                        /\ pc'[w] \in {"dedup", "insert", "put"} => lap'[w] \in Offered
                        /\ pc'[w] \in {"put", "measure", "mark", "forget"} =>
                             at'[w] \in DOMAIN rows'
<1>1. /\ Len(rows) \in Nat /\ Len(rows') \in Nat
      /\ DOMAIN rows \subseteq DOMAIN rows' /\ Held \subseteq DOMAIN rows
      /\ legacy \subseteq DOMAIN rows
  <2>1. DOMAIN Past.rows = 1..Len(Past.rows) /\ Len(Past.rows) \in Nat
        /\ Len(rows) \in Nat /\ Len(rows') \in Nat
    BY PastStored, RowsGrow, LenProperties DEF Typed
  <2>2. QED
    BY <2>1, RowsGrow DEF Typed, TypeOK, Held
<1> USE <1>1 DEF Typed, TypeOK, Goto, Return
<1>2. CASE UNCHANGED vars
  BY <1>2 DEF vars
<1>3. ASSUME NEW w \in Workers, NEW o \in Offered, CheckSource(w, o) PROVE Goal
  BY <1>3 DEF CheckSource, Importing
<1>4. ASSUME NEW w \in Workers, CheckContent(w) PROVE Goal
  <2>1. CASE pc' = [pc EXCEPT ![w] = "insert"] /\ UNCHANGED <<lap, at, list>>
    BY <1>4, <2>1 DEF CheckContent, Importing
  <2>2. CASE Return(w)
    BY <1>4, <2>2 DEF CheckContent, Importing
  <2>3. QED
    BY <1>4, <2>1, <2>2 DEF CheckContent
<1>5. ASSUME NEW w \in Workers, InsertRow(w) PROVE Goal
  <2>1. DOMAIN rows' = 1..Len(rows) + 1
    BY <1>5, AppendProperties, LenProperties, RowsGrow DEF InsertRow
  <2>2. QED
    BY <1>5, <2>1 DEF InsertRow, Importing
<1>6. ASSUME NEW w \in Workers, PutBlob(w) \/ Measure(w) PROVE Goal
  <2>1. CASE PutBlob(w)
    BY <2>1 DEF PutBlob, Importing
  <2>2. CASE Measure(w)
    BY <2>2 DEF Measure, Importing
  <2>3. QED
    BY <1>6, <2>1, <2>2
<1>7. ASSUME NEW w \in Workers, ListHeld(w) PROVE Goal
  BY <1>7 DEF ListHeld
<1>8. ASSUME NEW w \in Workers, RankHeld(w) PROVE Goal
  <2>1. list'[w] \in SUBSET (DOMAIN rows)
    BY <1>8 DEF RankHeld
  <2>2. QED
    BY <1>8, <2>1 DEF RankHeld
<1>9. ASSUME NEW w \in Workers, NEW l \in list[w], EvictBlob(w, l) PROVE Goal
  BY <1>9 DEF EvictBlob
<1>10. ASSUME NEW w \in Workers, MarkEvicted(w) \/ ForgetLegacy(w) \/ EvictDone(w)
       PROVE Goal
  <2>1. CASE MarkEvicted(w)
    BY <2>1 DEF MarkEvicted
  <2>2. CASE ForgetLegacy(w)
    BY <2>2 DEF ForgetLegacy
  <2>3. CASE EvictDone(w)
    BY <2>3 DEF EvictDone
  <2>4. QED
    BY <1>10, <2>1, <2>2, <2>3
<1>11. ASSUME NEW w \in Workers, ListLegacy(w) \/ DropLegacy(w) PROVE Goal
  BY <1>11 DEF ListLegacy, DropLegacy
<1>12. ASSUME NEW w \in Workers, NEW l \in list[w], DrainOne(w, l) PROVE Goal
  BY <1>12 DEF DrainOne
<1>13. ASSUME NEW w \in Workers, ListNeedy(w) PROVE Goal
  <2>1. list'[w] \in SUBSET (DOMAIN rows)
    BY <1>13 DEF ListNeedy, Needy
  <2>2. QED
    BY <1>13, <2>1 DEF ListNeedy
<1>14. ASSUME NEW w \in Workers, NEW c \in Contents, Restore(w, c) PROVE Goal
  BY <1>14 DEF Restore
<1>15. ASSUME NEW w \in Workers, RestoreDone(w) \/ Fail(w) PROVE Goal
  BY <1>15 DEF RestoreDone, Fail
<1>16. QED
  BY <1>2, <1>3, <1>4, <1>5, <1>6, <1>7, <1>8, <1>9, <1>10, <1>11, <1>12, <1>13,
     <1>14, <1>15 DEF Next

LEMMA TypedNext == Typed /\ [Next]_vars => Typed'
<1> SUFFICES ASSUME Typed, [Next]_vars PROVE Typed'
  OBVIOUS
<1>1. \A l \in DOMAIN rows' : rows'[l] \in Stored
  BY RowsGrow, ElementOfSeq
<1>2. overtaken' \subseteq Workers
  BY DEF Typed, TypeOK, Next, vars, CheckSource, CheckContent, InsertRow, PutBlob, Measure,
     ListHeld, RankHeld, EvictBlob, MarkEvicted, ForgetLegacy, EvictDone, ListLegacy,
     DrainOne, DropLegacy, ListNeedy, Restore, RestoreDone, Fail, Return
<1>3. TypeOK'
  BY <1>1, <1>2, RowsGrow, FilesTyped, WorkersTyped DEF Typed, TypeOK, Stored
<1>4. Len(Past.rows) <= Len(rows')
  <2>1. Len(Past.rows) \in Nat /\ Len(rows) \in Nat /\ Len(rows') \in Nat
    BY PastStored, RowsGrow, LenProperties DEF Typed
  <2>2. QED
    BY <2>1, RowsGrow DEF Typed
<1>5. QED
  BY <1>3, <1>4, RowsGrow, WorkersTyped DEF Typed

\* Rows, files and every worker's variables always are what the code can hold.
THEOREM TypeCorrect == Spec => []TypeOK
<1>1. Typed => TypeOK
  BY DEF Typed
<1>2. QED
  BY <1>1, TypedInit, TypedNext, PTL DEF Spec

\* The steps of one worker.
Own(w) ==
  \/ \E o \in Offered : CheckSource(w, o)
  \/ CheckContent(w) \/ InsertRow(w) \/ PutBlob(w) \/ Measure(w)
  \/ ListHeld(w) \/ RankHeld(w) \/ \E l \in list[w] : EvictBlob(w, l)
  \/ MarkEvicted(w) \/ ForgetLegacy(w) \/ EvictDone(w)
  \/ ListLegacy(w) \/ \E l \in list[w] : DrainOne(w, l)
  \/ DropLegacy(w)
  \/ ListNeedy(w) \/ \E c \in Contents : Restore(w, c)
  \/ RestoreDone(w) \/ Fail(w)

Still(w) ==
  pc'[w] = pc[w] /\ lap'[w] = lap[w] /\ at'[w] = at[w] /\ list'[w] = list[w]

\* What a worker is doing changes by its own steps only.
LEMMA OthersStill ==
  ASSUME Typed, NEW v \in Workers, Own(v), NEW w \in Workers, w # v
  PROVE  Still(w)
<1> USE DEF Typed, TypeOK, Still, Goto, Return
<1>1. ASSUME NEW o \in Offered, CheckSource(v, o) PROVE Still(w)
  BY <1>1 DEF CheckSource
<1>2. ASSUME CheckContent(v) PROVE Still(w)
  BY <1>2 DEF CheckContent
<1>3. ASSUME InsertRow(v) PROVE Still(w)
  BY <1>3 DEF InsertRow
<1>4. ASSUME PutBlob(v) PROVE Still(w)
  BY <1>4 DEF PutBlob
<1>5. ASSUME Measure(v) \/ EvictDone(v) \/ DropLegacy(v) \/ RestoreDone(v) \/ Fail(v)
      PROVE  Still(w)
  BY <1>5 DEF Measure, EvictDone, DropLegacy, RestoreDone, Fail
<1>6. ASSUME ListHeld(v) \/ ListLegacy(v) PROVE Still(w)
  BY <1>6 DEF ListHeld, ListLegacy
<1>7. ASSUME RankHeld(v) PROVE Still(w)
  BY <1>7 DEF RankHeld
<1>8. ASSUME NEW l \in list[v], EvictBlob(v, l) \/ DrainOne(v, l) PROVE Still(w)
  BY <1>8 DEF EvictBlob, DrainOne
<1>9. ASSUME MarkEvicted(v) \/ ForgetLegacy(v) PROVE Still(w)
  BY <1>9 DEF MarkEvicted, ForgetLegacy
<1>10. ASSUME ListNeedy(v) PROVE Still(w)
  BY <1>10 DEF ListNeedy
<1>11. ASSUME NEW c \in Contents, Restore(v, c) PROVE Still(w)
  BY <1>11 DEF Restore
<1>12. QED
  BY <1>1, <1>2, <1>3, <1>4, <1>5, <1>6, <1>7, <1>8, <1>9, <1>10, <1>11 DEF Own

LEMMA StillOrOwn ==
  ASSUME Typed, [Next]_vars, NEW w \in Workers
  PROVE  Still(w) \/ Own(w)
<1>1. CASE UNCHANGED vars
  BY <1>1 DEF vars, Still
<1>2. CASE Next
  <2>1. PICK v \in Workers : Own(v)
    BY <1>2 DEF Next, Own
  <2>2. QED
    BY <2>1, OthersStill
<1>3. QED
  BY <1>1, <1>2

\* How a worker comes to the steps of an import.
LEMMA ImportSteps ==
  ASSUME Typed, NEW w \in Workers, Own(w)
  PROVE  /\ pc'[w] \in Importing =>
              pc[w] \in Importing \/ \E o \in Offered : CheckSource(w, o)
         /\ pc'[w] = "insert" => CheckContent(w)
         /\ pc'[w] = "put" => InsertRow(w)
<1> DEFINE Goal == /\ pc'[w] \in Importing =>
                        pc[w] \in Importing \/ \E o \in Offered : CheckSource(w, o)
                   /\ pc'[w] = "insert" => CheckContent(w)
                   /\ pc'[w] = "put" => InsertRow(w)
<1> USE DEF Typed, TypeOK, Goto, Return, Importing
<1>1. ASSUME NEW o \in Offered, CheckSource(w, o) PROVE Goal
  BY <1>1 DEF CheckSource
<1>2. ASSUME CheckContent(w) PROVE Goal
  BY <1>2 DEF CheckContent
<1>3. ASSUME InsertRow(w) \/ PutBlob(w) PROVE Goal
  BY <1>3 DEF InsertRow, PutBlob
<1>4. ASSUME Measure(w) \/ EvictDone(w) \/ DropLegacy(w) \/ RestoreDone(w) \/ Fail(w)
      PROVE  Goal
  BY <1>4 DEF Measure, EvictDone, DropLegacy, RestoreDone, Fail
<1>5. ASSUME ListHeld(w) \/ ListLegacy(w) \/ ListNeedy(w) \/ RankHeld(w)
      PROVE  pc'[w] \in {"rank", "drain", "restore", "evict"}
  BY <1>5 DEF ListHeld, ListLegacy, ListNeedy, RankHeld
<1>6. ASSUME NEW l \in list[w], EvictBlob(w, l) \/ DrainOne(w, l)
      PROVE  pc'[w] \in {"mark", "drain"}
  BY <1>6 DEF EvictBlob, DrainOne
<1>7. ASSUME MarkEvicted(w) \/ ForgetLegacy(w) PROVE pc'[w] \in {"forget", "evict"}
  BY <1>7 DEF MarkEvicted, ForgetLegacy
<1>8. ASSUME NEW c \in Contents, Restore(w, c) PROVE pc'[w] = "restore"
  BY <1>8 DEF Restore
<1>9. QED
  BY <1>1, <1>2, <1>3, <1>4, <1>5, <1>6, <1>7, <1>8 DEF Own

-----------------------------------------------------------------------------
(* A trace is that of its lap.                                             *)

LEMMA BelongingInit == Init => Belonging
BY DEF Init, Belonging, TracesBelong

\* The three ways a trace is written file it under the lap it is of.
LEMMA BelongingNext == Typed /\ Belonging /\ [Next]_vars => Belonging'
<1> SUFFICES ASSUME Typed, Belonging, [Next]_vars PROVE Belonging'
  OBVIOUS
<1>1. /\ DOMAIN rows \subseteq DOMAIN rows'
      /\ \A l \in DOMAIN rows : rows'[l].content = rows[l].content
  <2>1. Len(rows) \in Nat /\ Len(rows') \in Nat
    BY RowsGrow, LenProperties DEF Typed
  <2>2. QED
    BY <2>1, RowsGrow
<1>2. \A l \in DOMAIN blobs' : blobs'[l] = rows[l].content
  <2>1. ASSUME NEW w \in Workers, PutBlob(w)
        PROVE  \A l \in DOMAIN blobs' : blobs'[l] = rows[l].content
    BY <2>1 DEF PutBlob, Put, Belonging, TracesBelong
  <2>2. ASSUME NEW w \in Workers, NEW l \in list[w], EvictBlob(w, l) \/ DrainOne(w, l)
        PROVE  \A k \in DOMAIN blobs' : blobs'[k] = rows[k].content
    BY <2>2 DEF EvictBlob, DrainOne, Remove, Put, Belonging, TracesBelong
  <2>3. ASSUME NEW w \in Workers, NEW c \in Contents, Restore(w, c)
        PROVE  \A l \in DOMAIN blobs' : blobs'[l] = rows[l].content
    BY <2>3 DEF Restore, Put, Belonging, TracesBelong
  <2>4. CASE UNCHANGED blobs
    BY <2>4 DEF Belonging, TracesBelong
  <2>5. QED
    BY <2>1, <2>2, <2>3, <2>4
       DEF Next, vars, files, CheckSource, CheckContent, InsertRow, Measure, ListHeld,
       RankHeld, MarkEvicted, ForgetLegacy, EvictDone, ListLegacy, DropLegacy,
       ListNeedy, RestoreDone, Fail
<1>3. DOMAIN blobs' \subseteq DOMAIN rows
  <2>1. \A w \in Workers : list[w] \subseteq DOMAIN rows
    BY DEF Typed, TypeOK
  <2>2. ASSUME NEW w \in Workers, PutBlob(w) PROVE DOMAIN blobs' \subseteq DOMAIN rows
    BY <2>2 DEF PutBlob, Put, Typed, TypeOK
  <2>3. ASSUME NEW w \in Workers, NEW l \in list[w], EvictBlob(w, l) \/ DrainOne(w, l)
        PROVE  DOMAIN blobs' \subseteq DOMAIN rows
    BY <2>1, <2>3 DEF EvictBlob, DrainOne, Remove, Put, Typed, TypeOK
  <2>4. ASSUME NEW w \in Workers, NEW c \in Contents, Restore(w, c)
        PROVE  DOMAIN blobs' \subseteq DOMAIN rows
    BY <2>1, <2>4 DEF Restore, Put, Typed, TypeOK
  <2>5. CASE UNCHANGED blobs
    BY <2>5 DEF Typed, TypeOK
  <2>6. QED
    BY <2>2, <2>3, <2>4, <2>5
       DEF Next, vars, files, CheckSource, CheckContent, InsertRow, Measure, ListHeld,
       RankHeld, MarkEvicted, ForgetLegacy, EvictDone, ListLegacy, DropLegacy,
       ListNeedy, RestoreDone, Fail
<1>4. ASSUME NEW w \in Workers, pc'[w] = "put"
      PROVE  rows'[at'[w]].content = lap'[w].content
  <2>1. ASSUME NEW v \in Workers, InsertRow(v)
        PROVE  rows'[at'[w]].content = lap'[w].content
    <3>1. CASE v = w
      <4>1. rows'[Len(rows) + 1].content = lap[w].content
        BY <2>1, <3>1, AppendProperties, LenProperties DEF InsertRow, Typed
      <4>2. QED
        BY <2>1, <3>1, <4>1 DEF InsertRow, Typed, TypeOK
    <3>2. CASE v # w
      <4>1. pc[w] = "put" /\ at'[w] = at[w] /\ lap'[w] = lap[w]
        BY <1>4, <2>1, <3>2 DEF InsertRow, Goto, Typed, TypeOK
      <4>2. QED
        BY <1>1, <4>1 DEF Belonging, Typed
    <3>3. QED
      BY <3>1, <3>2
  <2>2. CASE \A v \in Workers : ~InsertRow(v)
    <3>1. pc[w] = "put" /\ at'[w] = at[w] /\ lap'[w] = lap[w]
      BY <1>4, <2>2, StillOrOwn, ImportSteps DEF Still
    <3>2. QED
      BY <1>1, <3>1 DEF Belonging, Typed
  <2>3. QED
    BY <2>1, <2>2
<1>5. QED
  BY <1>1, <1>2, <1>3, <1>4 DEF Belonging, TracesBelong

\* A trace on disk is that of the lap it is filed under, whoever imports,
\* drains, restores or evicts at the same time.
THEOREM TracesStayHome == Spec => []TracesBelong
<1>1. Belonging => TracesBelong
  BY DEF Belonging
<1>2. QED
  BY <1>1, TypedInit, TypedNext, BelongingInit, BelongingNext, PTL DEF Spec

-----------------------------------------------------------------------------
(* Only a race stores telemetry twice.                                     *)

LEMMA SearchedInit == Init => Searched
BY DEF Init, Searched

\* An overtaken importer stays so until its own next step.
LEMMA OvertakenStays ==
  ASSUME Typed, [Next]_vars, NEW w \in Workers, w \in overtaken, pc[w] = "insert"
  PROVE  Own(w) \/ w \in overtaken'
<1>1. CASE UNCHANGED vars
  BY <1>1 DEF vars
<1>2. ASSUME NEW v \in Workers, Own(v), v # w PROVE w \in overtaken'
  BY <1>2 DEF Own, CheckSource, CheckContent, InsertRow, PutBlob, Measure, ListHeld,
     RankHeld, EvictBlob, MarkEvicted, ForgetLegacy, EvictDone, ListLegacy, DrainOne,
     DropLegacy, ListNeedy, Restore, RestoreDone, Fail, Return
<1>3. QED
  BY <1>1, <1>2 DEF Next, Own

\* The row an importer inserts, and what it means for the others.
LEMMA Inserts ==
  ASSUME Typed, NEW u \in Workers, InsertRow(u)
  PROVE  /\ Len(rows) \in Nat /\ DOMAIN rows = 1..Len(rows)
         /\ DOMAIN rows' = 1..(Len(rows) + 1)
         /\ \A l \in DOMAIN rows : rows'[l] = rows[l]
         /\ rows'[Len(rows) + 1].content = lap[u].content
         /\ pc'[u] = "put" /\ lap' = lap
         /\ \A w \in Workers : pc[w] = "insert" /\ w # u /\ w \notin overtaken' =>
              w \notin overtaken /\ lap[w].content # lap[u].content
<1> DEFINE row == [src |-> lap[u].src, content |-> lap[u].content,
                   cohort |-> lap[u].cohort, measured |-> FALSE]
<1>1. row \in Stored /\ row.content = lap[u].content /\ rows' = Append(rows, row)
  BY DEF Typed, InsertRow, Offered, Stored
<1> HIDE DEF row
<1>2. /\ Len(rows) \in Nat /\ DOMAIN rows = 1..Len(rows)
      /\ DOMAIN rows' = 1..(Len(rows) + 1)
      /\ \A l \in 1..Len(rows) : rows'[l] = rows[l]
      /\ rows'[Len(rows) + 1] = row
  BY <1>1, AppendProperties, LenProperties DEF Typed
<1>3. pc'[u] = "put" /\ lap' = lap
  BY DEF InsertRow, Goto, Typed, TypeOK
<1>4. \A w \in Workers : pc[w] = "insert" /\ w # u /\ w \notin overtaken' =>
        w \notin overtaken /\ lap[w].content # lap[u].content
  BY DEF InsertRow
<1>5. QED
  BY <1>1, <1>2, <1>3, <1>4

LEMMA SearchedNext == Typed /\ Searched /\ [Next]_vars => Searched'
<1> SUFFICES ASSUME Typed, Searched, [Next]_vars,
                    NEW w \in Workers, pc'[w] = "insert", w \notin overtaken',
                    NEW l \in DOMAIN rows'
             PROVE  rows'[l].content # lap'[w].content
  BY DEF Searched
<1>1. CASE CheckContent(w)
  BY <1>1 DEF CheckContent, Goto, Return, Typed, TypeOK
<1>2. CASE ~CheckContent(w)
  <2>1. pc[w] = "insert" /\ lap'[w] = lap[w] /\ ~Own(w)
    BY <1>2, StillOrOwn, ImportSteps DEF Still
  <2>2. w \notin overtaken /\ \A k \in DOMAIN rows : rows[k].content # lap[w].content
    BY <2>1, OvertakenStays DEF Searched
  <2>3. ASSUME NEW u \in Workers, InsertRow(u) PROVE rows'[l].content # lap'[w].content
    <3>1. u # w
      BY <2>1, <2>3 DEF Own
    <3>2. lap[w].content # lap[u].content
      BY <2>1, <2>3, <3>1, Inserts
    <3>3. l \in DOMAIN rows \/ l = Len(rows) + 1
      BY <2>3, Inserts
    <3>4. QED
      BY <2>1, <2>2, <2>3, <3>2, <3>3, Inserts
  <2>4. CASE \A u \in Workers : ~InsertRow(u)
    <3>1. DOMAIN rows' = DOMAIN rows
      BY <2>4, RowsGrow DEF Measure
    <3>2. QED
      BY <2>1, <2>2, <3>1, RowsGrow
  <2>5. QED
    BY <2>3, <2>4
<1>3. QED
  BY <1>1, <1>2

\* However imports, deaths, retention, restores and the drain interleave,
\* telemetry is stored a second time only by an import that another import of
\* it has overtaken.
THEOREM OnlyRacesDoubleCountEver == Spec => OnlyRacesDoubleCount
<1> DEFINE Step == Copies' \subseteq Copies \/ \E w \in overtaken : InsertRow(w)
<1>1. ASSUME Typed, Searched, [Next]_vars PROVE Step
  <2>1. ASSUME NEW w \in Workers, InsertRow(w), w \notin overtaken, NEW p \in Copies'
        PROVE  p \in Copies
    <3>1. /\ p[1] \in DOMAIN rows' /\ p[2] \in DOMAIN rows'
          /\ p[1] < p[2] /\ rows'[p[1]].content = rows'[p[2]].content
      BY DEF Copies
    <3>2. \A k \in DOMAIN rows : rows[k].content # lap[w].content
      BY <1>1, <2>1 DEF Searched, InsertRow
    <3>3. p[1] \in DOMAIN rows
      BY <1>1, <2>1, <3>1, Inserts
    <3>4. p[2] # Len(rows) + 1
      BY <1>1, <2>1, <3>1, <3>2, <3>3, Inserts
    <3>5. p[2] \in DOMAIN rows
      BY <1>1, <2>1, <3>1, <3>4, Inserts
    <3>6. rows[p[1]].content = rows[p[2]].content
      BY <1>1, <2>1, <3>1, <3>3, <3>5, Inserts
    <3>7. p \in (DOMAIN rows) \X (DOMAIN rows)
      BY <3>3, <3>5 DEF Copies
    <3>8. QED
      BY <3>1, <3>6, <3>7 DEF Copies
  <2>2. ASSUME NEW w \in Workers, Measure(w) PROVE Copies' \subseteq Copies
    <3>1. DOMAIN rows' = DOMAIN rows
      BY <2>2 DEF Measure
    <3>2. QED
      BY <1>1, <3>1, RowsGrow DEF Copies
  <2>3. CASE rows' = rows
    BY <2>3 DEF Copies
  <2>4. \/ rows' = rows
        \/ \E w \in Workers : InsertRow(w) \/ Measure(w)
    BY <1>1, RowsGrow
  <2>5. QED
    BY <2>1, <2>2, <2>3, <2>4
<1>2. ASSUME Typed, Searched, [Next]_vars PROVE [Step]_vars
  BY <1>1, <1>2
<1>3. QED
  BY <1>2, TypedInit, TypedNext, SearchedInit, SearchedNext, PTL
     DEF Spec, OnlyRacesDoubleCount

-----------------------------------------------------------------------------
(* Retention.                                                              *)

\* The least-number principle, for sets of natural numbers.
LEMMA LeastNumber ==
  ASSUME NEW S \in SUBSET Nat, S # {}
  PROVE  \E m \in S : \A k \in S : m <= k
<1> DEFINE T == {1..n : n \in S}
<1>1. T \subseteq FiniteSubsetsOf(Nat) /\ T # {}
  <2>1. \A n \in S : 1..n \in SUBSET Nat /\ IsFiniteSet(1..n)
    BY FS_Interval
  <2>2. QED
    BY <2>1 DEF FiniteSubsetsOf
<1>2. PICK x \in T : \A y \in T : ~(<<y, x>> \in StrictSubsetOrdering(Nat))
  <2> HIDE DEF T
  <2>1. QED
    BY <1>1, FS_StrictSubsetOrderingWellFounded, WFMin
<1>3. PICK m \in S : x = 1..m
  OBVIOUS
<1>4. ASSUME NEW k \in S, k < m PROVE FALSE
  <2>1. 1..k \subseteq 1..m /\ m \in 1..m /\ m \notin 1..k
    BY <1>4
  <2>2. <<1..k, x>> \in StrictSubsetOrdering(Nat)
    BY <2>1, <1>3 DEF StrictSubsetOrdering
  <2>3. QED
    BY <1>2, <2>2
<1>5. QED
  BY <1>4

LEMMA GreatestNumber ==
  ASSUME NEW S \in SUBSET Nat, S # {}, NEW n \in Nat, \A k \in S : k <= n
  PROVE  \E m \in S : \A k \in S : k <= m
<1> DEFINE T == {d \in 0..n : n - d \in S}
<1>1. T \in SUBSET Nat
  OBVIOUS
<1>2. \A k \in S : n - k \in T
  OBVIOUS
<1>3. T # {}
  BY <1>2
<1>4. PICK d \in T : \A e \in T : d <= e
  <2> HIDE DEF T
  <2>1. QED
    BY <1>1, <1>3, LeastNumber
<1>5. \A k \in S : k <= n - d
  <2>1. SUFFICES ASSUME NEW k \in S PROVE k <= n - d
    OBVIOUS
  <2>2. d <= n - k
    BY <1>2, <1>4
  <2>3. QED
    BY <2>2
<1>6. QED
  BY <1>5

LEMMA HeldTyped ==
  ASSUME Typed
  PROVE  /\ Len(rows) \in Nat /\ DOMAIN rows = 1..Len(rows)
         /\ Held \subseteq DOMAIN rows /\ legacy \subseteq DOMAIN rows
         /\ \A H \in SUBSET (DOMAIN rows), l \in Nat :
              IsFiniteSet(Newer(l, H)) /\ Cardinality(Newer(l, H)) \in Nat
<1>1. DOMAIN Past.rows = 1..Len(Past.rows) /\ Len(Past.rows) \in Nat
      /\ DOMAIN rows = 1..Len(rows) /\ Len(rows) \in Nat
  BY PastStored, LenProperties DEF Typed
<1>2. IsFiniteSet(DOMAIN rows)
  BY <1>1, FS_Interval
<1>3. ASSUME NEW H \in SUBSET (DOMAIN rows), NEW l \in Nat
      PROVE  IsFiniteSet(Newer(l, H)) /\ Cardinality(Newer(l, H)) \in Nat
  BY <1>2, FS_Subset, FS_CardinalityType DEF Newer
<1>4. QED
  BY <1>1, <1>3 DEF Typed, TypeOK, Held

\* Taking away expendable traces, however many at once, leaves every
\* expendable trace expendable: of those taken above it, the newest has Keep
\* newer ones that stay.
LEMMA StaysExpendable ==
  ASSUME Typed, NEW l \in DOMAIN rows, Expendable(l),
         NEW H \in SUBSET (DOMAIN rows), \A m \in Held \ H : Expendable(m)
  PROVE  Cardinality(Newer(l, H)) >= Keep
<1> DEFINE T == {l} \cup {k \in Held \ H : rows[k].cohort = rows[l].cohort /\ k > l}
<1>1. T \in SUBSET Nat /\ T # {} /\ \A k \in T : k <= Len(rows)
  BY HeldTyped
<1>2. PICK m \in T : \A k \in T : k <= m
  <2> HIDE DEF T
  <2>1. QED
    BY <1>1, GreatestNumber, HeldTyped
<1>3. Expendable(m) /\ m >= l /\ rows[m].cohort = rows[l].cohort
  BY HeldTyped
<1>4. Newer(m, Held) \subseteq Newer(l, H)
  <2>1. SUFFICES ASSUME NEW k \in Newer(m, Held) PROVE k \in Newer(l, H)
    OBVIOUS
  <2>2. k \in Held /\ rows[k].cohort = rows[l].cohort /\ k > m /\ k > l
    BY <1>1, <1>3, HeldTyped DEF Newer
  <2>3. k \in H
    BY <1>1, <1>2, <2>2, HeldTyped
  <2>4. QED
    BY <2>2, <2>3 DEF Newer
<1>5. Cardinality(Newer(m, Held)) <= Cardinality(Newer(l, H))
  BY <1>4, HeldTyped, FS_Subset
<1>6. QED
  <2>1. Cardinality(Newer(m, Held)) \in Nat /\ Cardinality(Newer(l, H)) \in Nat
    BY <1>1, HeldTyped
  <2>2. QED
    BY <1>3, <1>5, <2>1, LapStoreAssumption DEF Expendable

\* A trace leaves the disk, or is no longer held, only when it is expendable.
LEMMA HeldSteps ==
  ASSUME Typed, Retaining, [Next]_vars
  PROVE  /\ Held' \subseteq DOMAIN rows
         /\ \A l \in Held \ Held' : Expendable(l)
         /\ \A l \in DOMAIN blobs \ DOMAIN blobs' : Expendable(l)
<1> DEFINE Goal == /\ Held' \subseteq DOMAIN rows
                   /\ \A l \in Held \ Held' : Expendable(l)
                   /\ \A l \in DOMAIN blobs \ DOMAIN blobs' : Expendable(l)
<1>1. /\ Held \subseteq DOMAIN rows /\ legacy \subseteq DOMAIN rows
      /\ \A w \in Workers : list[w] \subseteq DOMAIN rows
  BY HeldTyped DEF Typed, TypeOK
<1> USE <1>1 DEF Held
<1>2. CASE UNCHANGED <<blobs, legacy>>
  BY <1>2
<1>3. ASSUME NEW w \in Workers, PutBlob(w) PROVE Goal
  BY <1>3 DEF PutBlob, Put, Typed
<1>4. ASSUME NEW w \in Workers, NEW l \in list[w], EvictBlob(w, l) PROVE Goal
  BY <1>4 DEF EvictBlob, Remove, Retaining
<1>5. ASSUME NEW w \in Workers, ForgetLegacy(w) PROVE Goal
  BY <1>5 DEF ForgetLegacy, files, Retaining
<1>6. ASSUME NEW w \in Workers, NEW l \in list[w], DrainOne(w, l) PROVE Goal
  BY <1>6 DEF DrainOne, Put
<1>7. ASSUME NEW w \in Workers, DropLegacy(w) PROVE Goal
  BY <1>7 DEF DropLegacy, files, Retaining
<1>8. ASSUME NEW w \in Workers, NEW c \in Contents, Restore(w, c) PROVE Goal
  BY <1>8 DEF Restore, Put
<1>9. QED
  BY <1>2, <1>3, <1>4, <1>5, <1>6, <1>7, <1>8
     DEF Next, vars, files, CheckSource, CheckContent, InsertRow, Measure, ListHeld,
     RankHeld, MarkEvicted, EvictDone, ListLegacy, ListNeedy, RestoreDone, Fail

LEMMA ExpendableStays ==
  ASSUME Typed, Retaining, [Next]_vars, NEW l \in DOMAIN rows, Expendable(l)
  PROVE  Expendable(l)'
<1>1. Cardinality(Newer(l, Held')) >= Keep
  BY HeldSteps, StaysExpendable
<1>2. Newer(l, Held)' = Newer(l, Held')
  BY HeldSteps, RowsGrow DEF Newer
<1>3. QED
  BY <1>1, <1>2 DEF Expendable

LEMMA RetainingInit == Init => Retaining
BY DEF Init, Retaining

LEMMA RetainingNext == Typed /\ Retaining /\ [Next]_vars => Retaining'
<1> SUFFICES ASSUME Typed, Retaining, [Next]_vars PROVE Retaining'
  OBVIOUS
<1> DEFINE Good(w) ==
      /\ pc'[w] = "rank" => \A l \in list'[w] :
           Cardinality(Newer(l, list[w])') >= Keep => Expendable(l)'
      /\ pc'[w] \in {"evict", "mark", "forget"} =>
           \A l \in list'[w] : Expendable(l)'
      /\ pc'[w] \in {"mark", "forget"} => Expendable(at[w])'
      /\ pc'[w] = "drain" => \A l \in legacy' \ list'[w] :
           l \in DOMAIN blobs' \/ Expendable(l)'
<1>1. SUFFICES ASSUME NEW w \in Workers PROVE Good(w)
  BY DEF Retaining
<1>2. /\ list[w] \subseteq DOMAIN rows /\ legacy' \subseteq legacy
      /\ legacy \subseteq DOMAIN rows
      /\ pc[w] \in {"mark", "forget"} => at[w] \in DOMAIN rows
  BY FilesTyped, HeldTyped DEF Typed, TypeOK
<1>3. \A l \in DOMAIN rows : Expendable(l) => Expendable(l)'
  BY ExpendableStays
<1>4. CASE Still(w)
  <2>1. \A l \in list[w] : Newer(l, list[w])' = Newer(l, list[w])
    BY <1>2, <1>4, RowsGrow DEF Newer, Still
  <2>2. \A l \in DOMAIN rows :
          l \in DOMAIN blobs => l \in DOMAIN blobs' \/ Expendable(l)'
    BY <1>3, HeldSteps
  <2>3. QED
    BY <1>2, <1>3, <1>4, <2>1, <2>2 DEF Still, Retaining
<1>5. CASE Own(w)
  <2> USE DEF Typed, TypeOK, Goto, Return
  <2>1. ASSUME ListHeld(w) PROVE Good(w)
    <3>1. pc'[w] = "rank" /\ list'[w] = Held /\ Held' = Held
      BY <2>1 DEF ListHeld, Held, files
    <3>2. \A l \in Held : Newer(l, list[w])' = Newer(l, Held)'
      BY <3>1 DEF Newer
    <3>3. QED
      BY <3>1, <3>2 DEF Expendable
  <2>2. ASSUME RankHeld(w) PROVE Good(w)
    <3>1. list[w] \cap DOMAIN rows = list[w]
      BY <1>2
    <3>2. pc'[w] = "evict" /\ pc[w] = "rank" /\
          list'[w] = {l \in list[w] : Cardinality(Newer(l, list[w])) >= Keep}
      BY <2>2, <3>1 DEF RankHeld
    <3>3. QED
      BY <1>2, <1>3, <3>2 DEF Retaining
  <2>3. ASSUME NEW l \in list[w], EvictBlob(w, l) PROVE Good(w)
    <3>1. pc'[w] = "mark" /\ pc[w] = "evict" /\ at'[w] = l /\ list'[w] = list[w]
      BY <2>3 DEF EvictBlob
    <3>2. QED
      BY <1>2, <1>3, <3>1 DEF Retaining
  <2>4. ASSUME MarkEvicted(w) PROVE Good(w)
    <3>1. pc'[w] = "forget" /\ pc[w] = "mark" /\ at'[w] = at[w] /\ list'[w] = list[w]
      BY <2>4 DEF MarkEvicted
    <3>2. QED
      BY <1>2, <1>3, <3>1 DEF Retaining
  <2>5. ASSUME ForgetLegacy(w) PROVE Good(w)
    <3>1. pc'[w] = "evict" /\ pc[w] = "forget" /\ list'[w] \subseteq list[w]
      BY <2>5 DEF ForgetLegacy
    <3>2. QED
      BY <1>2, <1>3, <3>1 DEF Retaining
  <2>6. ASSUME ListLegacy(w) PROVE Good(w)
    <3>1. pc'[w] = "drain" /\ list'[w] = legacy
      BY <2>6 DEF ListLegacy
    <3>2. QED
      BY <1>2, <3>1
  <2>7. ASSUME NEW l \in list[w], DrainOne(w, l) PROVE Good(w)
    <3>1. /\ pc'[w] = "drain" /\ pc[w] = "drain" /\ list'[w] = list[w] \ {l}
          /\ DOMAIN blobs' = DOMAIN blobs \cup {l}
      BY <2>7 DEF DrainOne, Put
    <3>2. QED
      BY <1>2, <1>3, <3>1 DEF Retaining
  <2>8. ASSUME \/ \E o \in Offered : CheckSource(w, o)
               \/ CheckContent(w) \/ InsertRow(w) \/ PutBlob(w) \/ Measure(w)
        PROVE  pc'[w] \in Importing \cup {"idle"}
    BY <2>8 DEF CheckSource, CheckContent, InsertRow, PutBlob, Measure, Importing
  <2>9. ASSUME EvictDone(w) \/ DropLegacy(w) \/ RestoreDone(w) \/ Fail(w)
        PROVE  pc'[w] = "idle"
    BY <2>9 DEF EvictDone, DropLegacy, RestoreDone, Fail
  <2>10. ASSUME ListNeedy(w) \/ \E c \in Contents : Restore(w, c)
         PROVE  pc'[w] = "restore"
    BY <2>10 DEF ListNeedy, Restore
  <2>11. QED
    BY <1>5, <2>1, <2>2, <2>3, <2>4, <2>5, <2>6, <2>7, <2>8, <2>9, <2>10
       DEF Own, Importing
<1>6. QED
  BY <1>4, <1>5, StillOrOwn

LEMMA RetainingInvariant == Spec => [](Typed /\ Retaining)
BY TypedInit, TypedNext, RetainingInit, RetainingNext, PTL DEF Spec

\* Retention, the draining of the database and the restoring of lost traces,
\* interleaved in any way and dying anywhere, never lose one of the newest Keep
\* traces of a cohort.
THEOREM NewestTracesStay == Spec => OnlyOldTracesGo
<1>1. Typed /\ Retaining /\ [Next]_vars =>
        [\A l \in Held : l \notin (DOMAIN blobs' \cup legacy') =>
           Cardinality(Newer(l, Held)) >= Keep]_vars
  BY HeldSteps DEF Held, Expendable
<1>2. QED
  BY <1>1, RetainingInvariant, PTL DEF Spec, OnlyOldTracesGo
=============================================================================
