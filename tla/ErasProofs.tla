----------------------------- MODULE ErasProofs -----------------------------
(***************************************************************************)
(* Proofs about Eras for every set of laps, dates, sizes and refreshers.   *)
(*                                                                         *)
(* The safety properties speak of the committed tables only, so they are   *)
(* not inductive: an invariant adds what a refresh knows at each step.     *)
(* Seen says what it knows however refreshes overlap: what it read is      *)
(* still true unless another has committed since.  IInv says more, when    *)
(* refreshes do not overlap (~Overlap): nobody else writes the era tables. *)
(***************************************************************************)
EXTENDS Eras, FiniteSetTheorems, SequenceTheorems, TLAPS

\* At most one refresh is under way, and exactly the one inside its
\* transaction holds the write lock.
Alone ==
  /\ \A r, s \in Refreshers : pc[r] # "idle" /\ pc[s] # "idle" => r = s
  /\ \A r \in Refreshers : writer = r <=> pc[r] \in {"assign", "close"}

\* What holds of the eras at every point of a transaction.
Cut(es) ==
  /\ \A i \in DOMAIN es : es[i].laps \subseteq Dated
  /\ \A i, j \in DOMAIN es : i # j => es[i].laps \cap es[j].laps = {}
  /\ \A i \in DOMAIN es : es[i].closed =>
       Cardinality(es[i].laps) = es[i].size
  /\ \A i \in DOMAIN es : ~es[i].closed => i = Len(es)

\* What holds in addition once they are committed: the open era is neither
\* empty nor full.
Partial(es) ==
  \A i \in DOMAIN es : ~es[i].closed =>
    es[i].laps # {} /\ Cardinality(es[i].laps) < es[i].size

\* The refresher's open_era, next_index and counts describe es.
Cursor(r, es) ==
  /\ nextEra[r] = Len(es) + 1
  /\ openEra[r] = 0 => \A i \in DOMAIN es : es[i].closed
  /\ openEra[r] # 0 => /\ openEra[r] \in DOMAIN es
                       /\ ~es[openEra[r]].closed
                       /\ count[r] = Cardinality(es[openEra[r]].laps)
                       /\ count[r] <= es[openEra[r]].size

\* The laps still to place are stored, dated, in no era of es and covered by
\* lap_cohorts, as is every lap already in an era.
Fresh(r, es) ==
  /\ known[r] <= Len(date)
  /\ todo[r] \subseteq 1..known[r]
  /\ \A i \in DOMAIN es : todo[r] \cap es[i].laps = {}
  /\ \A i \in DOMAIN es : es[i].laps \subseteq 1..known[r]

\* The transaction has changed no era that was closed when it began.
Keeps(es, fs) ==
  /\ Len(es) <= Len(fs)
  /\ \A i \in DOMAIN es : es[i].closed => fs[i] = es[i]

Reader(r) ==
  /\ pc[r] \in {"assigned", "rows", "begin", "assign", "close"} =>
       todo[r] \subseteq Dated
  /\ pc[r] = "rows" =>
       \A i \in DOMAIN eras : todo[r] \cap eras[i].laps = {}
  /\ pc[r] = "begin" => Cursor(r, eras) /\ Fresh(r, eras)
  /\ pc[r] \in {"assign", "close"} =>
       Cut(work) /\ Cursor(r, work) /\ Fresh(r, work) /\ Keeps(eras, work)
  /\ pc[r] = "assign" /\ openEra[r] # 0 =>
       /\ count[r] < work[openEra[r]].size
       /\ work[openEra[r]].laps = {} => todo[r] # {}
  /\ pc[r] = "close" => openEra[r] # 0 /\ count[r] = work[openEra[r]].size

\* Eras are finite sets of laps: an era's cardinality is a number.
Finite(es) == \A i \in DOMAIN es : IsFiniteSet(es[i].laps)

Typed == TypeOK /\ Finite(eras) /\ Finite(work)

IInv ==
  /\ Typed
  /\ Alone
  /\ Cut(eras) /\ Partial(eras)
  /\ \A r \in Refreshers : Reader(r)

-----------------------------------------------------------------------------
(* Type correctness, with or without overlapping refreshes.                *)

\* Replacing one era of a sequence of eras gives a sequence of eras.
LEMMA ReplaceEra ==
  ASSUME NEW es \in Seq(Era), NEW k, NEW e \in Era
  PROVE  /\ [es EXCEPT ![k] = e] \in Seq(Era)
         /\ Len([es EXCEPT ![k] = e]) = Len(es)
         /\ DOMAIN [es EXCEPT ![k] = e] = DOMAIN es
         /\ \A i \in DOMAIN es : [es EXCEPT ![k] = e][i] = IF i = k THEN e ELSE es[i]
<1>1. DOMAIN es = 1..Len(es) /\ Len(es) \in Nat
  BY LenProperties
<1>2. CASE k \in 1..Len(es)
  BY <1>1, <1>2, ExceptSeq
<1>3. CASE k \notin DOMAIN es
  <2>1. [es EXCEPT ![k] = e] = es
    BY <1>1, <1>3
  <2>2. QED
    BY <1>1, <1>3, <2>1
<1>4. QED
  BY <1>1, <1>2, <1>3

\* Appending a fresh era keeps the eras before it.
LEMMA AppendEra ==
  ASSUME NEW es \in Seq(Era), NEW e \in Era
  PROVE  /\ Append(es, e) \in Seq(Era)
         /\ Len(Append(es, e)) = Len(es) + 1
         /\ DOMAIN Append(es, e) = 1 .. Len(es) + 1
         /\ \A i \in DOMAIN es : i \in 1 .. Len(es) /\ Append(es, e)[i] = es[i]
         /\ Append(es, e)[Len(es) + 1] = e
<1>1. DOMAIN es = 1..Len(es) /\ Len(es) \in Nat
  BY LenProperties
<1>2. QED
  BY <1>1, AppendProperties, LenProperties

\* The slices are the only thing the backfill changes in an era.
LEMMA SlicedEras ==
  ASSUME NEW es \in Seq(Era)
  PROVE  /\ Sliced(es) \in Seq(Era)
         /\ Len(Sliced(es)) = Len(es) /\ DOMAIN Sliced(es) = DOMAIN es
         /\ \A i \in DOMAIN es :
              Sliced(es)[i] = [es[i] EXCEPT !.slices = @ \/ es[i].closed]
         /\ \A i \in DOMAIN es :
              /\ Sliced(es)[i].size = es[i].size
              /\ Sliced(es)[i].laps = es[i].laps
              /\ Sliced(es)[i].closed = es[i].closed
              /\ Sliced(es)[i].summary = es[i].summary
<1>1. DOMAIN es = 1..Len(es) /\ Len(es) \in Nat
  BY LenProperties
<1>2. \A i \in DOMAIN es : es[i] \in Era
  BY <1>1, ElementOfSeq
<1>3. DOMAIN Sliced(es) = DOMAIN es
  BY DEF Sliced
<1>4. \A i \in DOMAIN es :
        Sliced(es)[i] = [es[i] EXCEPT !.slices = @ \/ es[i].closed]
  BY <1>2 DEF Sliced, Era
<1>5. \A i \in DOMAIN es :
        /\ Sliced(es)[i] \in Era
        /\ Sliced(es)[i].size = es[i].size
        /\ Sliced(es)[i].laps = es[i].laps
        /\ Sliced(es)[i].closed = es[i].closed
        /\ Sliced(es)[i].summary = es[i].summary
  BY <1>2 DEF Sliced, Era
<1>6. Sliced(es) \in Seq(Era) /\ Len(Sliced(es)) = Len(es)
  BY <1>1, <1>3, <1>5 DEF Sliced
<1>7. QED
  BY <1>3, <1>4, <1>5, <1>6

\* Only the legacy era exists at first, and it is an era.
LEMMA InitTyped == Init => Typed
<1> SUFFICES ASSUME Init PROVE Typed
  OBVIOUS
<1> USE ErasAssumption
<1>1. DOMAIN LegacyDates = 1..Len(LegacyDates) /\ Len(LegacyDates) \in Nat
  BY LenProperties
<1>2. IsFiniteSet(1..Len(LegacyDates))
  BY <1>1, FS_Interval
<1>3. LegacyDates # << >> => Len(LegacyDates) \in Nat \ {0}
  BY <1>1, EmptySeq
<1>4. eras \in Seq(Era) /\ work \in Seq(Era)
  <2>1. << >> \in Seq(Era)
    BY EmptySeq
  <2> DEFINE e == [size |-> Len(LegacyDates), laps |-> DOMAIN LegacyDates,
                   closed |-> TRUE, summary |-> DOMAIN LegacyDates,
                   slices |-> FALSE]
  <2>2. ASSUME LegacyDates # << >> PROVE e \in Era
    BY <1>1, <1>3, <2>2 DEF Era
  <2>3. eras = IF LegacyDates = << >> THEN << >> ELSE <<e>>
    BY DEF Init
  <2> HIDE DEF e
  <2>4. ASSUME LegacyDates # << >> PROVE <<e>> \in Seq(Era)
    BY <2>2, <2>4
  <2>5. QED
    BY <2>1, <2>3, <2>4 DEF Init
<1>5. Finite(eras) /\ Finite(work)
  BY <1>1, <1>2 DEF Init, Finite
<1>6. date \in Seq(Dates \cup {NoDate})
  BY DEF Init
<1> QED
  BY <1>4, <1>5, <1>6 DEF Init, Typed, TypeOK

\* Every action keeps the types, whatever the others have written between
\* its reads.
LEMMA NextTyped == Typed /\ [Next]_vars => Typed'
<1> SUFFICES ASSUME Typed, [Next]_vars PROVE Typed'
  OBVIOUS
<1> USE ErasAssumption DEF Typed, TypeOK, history
<1>1. ASSUME NEW d \in Dates \cup {NoDate}, StoreLap(d) PROVE Typed'
  <2>1. date' \in Seq(Dates \cup {NoDate}) /\ DOMAIN date \subseteq DOMAIN date'
    BY <1>1, AppendProperties, LenProperties, SMTT(30) DEF StoreLap
  <2>2. QED
    BY <1>1, <2>1 DEF StoreLap, locals, Finite
<1>2. ASSUME NEW l \in DOMAIN date, MeasureLap(l) PROVE Typed'
  BY <1>2 DEF MeasureLap, locals, Finite
<1>3. ASSUME NEW n \in Sizes \cup {0}, SetEraSize(n) PROVE Typed'
  BY <1>3 DEF SetEraSize, laps, locals, Finite
<1>4. ASSUME NEW r \in Refreshers, ReadSetting(r) PROVE Typed'
  BY <1>4 DEF ReadSetting, store, laps, Finite
<1>5. ASSUME NEW r \in Refreshers, ReadDated(r) PROVE Typed'
  <2>1. Dated \in SUBSET Nat
    BY LenProperties DEF Dated
  <2>2. QED
    BY <1>5, <2>1 DEF ReadDated, store, laps, Finite
<1>6. ASSUME NEW r \in Refreshers, ReadAssigned(r) PROVE Typed'
  BY <1>6 DEF ReadAssigned, store, laps, Finite
<1>7. ASSUME NEW r \in Refreshers, ReadRows(r) PROVE Typed'
  <2>1. PICK o \in 0 .. Len(eras) :
          /\ openEra' = [openEra EXCEPT ![r] = o]
          /\ count' = [count EXCEPT ![r] =
                         IF o = 0 THEN 0 ELSE Cardinality(eras[o].laps)]
    BY <1>7 DEF ReadRows
  <2>2. o \in Nat /\ Len(eras) \in Nat /\ Len(date) \in Nat
    BY LenProperties
  <2>3. o # 0 => Cardinality(eras[o].laps) \in Nat
    BY <2>2, LenProperties, FS_CardinalityType, SMTT(30) DEF Finite
  <2>4. QED
    <3>1. openEra' \in [Refreshers -> Nat] /\ count' \in [Refreshers -> Nat]
      BY <2>1, <2>2, <2>3
    <3>2. /\ nextEra' \in [Refreshers -> Nat] /\ known' \in [Refreshers -> Nat]
          /\ ready' \in [Refreshers -> SUBSET Nat]
      <4>1. measured \in SUBSET Nat
        BY LenProperties
      <4>2. QED
        BY <1>7, <2>2, <4>1, SMTT(30) DEF ReadRows
    <3>3. QED
      BY <1>7, <3>1, <3>2 DEF ReadRows, store, laps, Finite
<1>8. ASSUME NEW r \in Refreshers, Begin(r) PROVE Typed'
  BY <1>8 DEF Begin, store, laps, Finite
<1>9. ASSUME NEW r \in Refreshers, OpenEra(r) PROVE Typed'
  <2>1. NewEra(sizeRead[r]) \in Era
    BY DEF NewEra, Era
  <2>2. IsFiniteSet(NewEra(sizeRead[r]).laps)
    BY FS_EmptySet DEF NewEra
  <2>3. work' \in Seq(Era) /\ Finite(work')
    BY <1>9, <2>1, <2>2, AppendEra, LenProperties DEF OpenEra, Finite
  <2>4. QED
    <3>1. Finite(eras)'
      BY <1>9 DEF OpenEra, store, laps, Finite
    <3>2. /\ openEra' \in [Refreshers -> Nat] /\ count' \in [Refreshers -> Nat]
          /\ nextEra' \in [Refreshers -> Nat]
      BY <1>9, SMTT(30) DEF OpenEra
    <3>3. TypeOK'
      BY <1>9, <2>3, <3>2 DEF OpenEra, store, laps
    <3>4. QED
      BY <2>3, <3>1, <3>3
<1>10. ASSUME NEW r \in Refreshers, NEW l \in todo[r], PlaceLap(r, l)
      PROVE Typed'
  <2>1. count' = [count EXCEPT ![r] = @ + 1] /\ todo' = [todo EXCEPT ![r] = @ \ {l}]
    BY <1>10 DEF PlaceLap
  <2>2. /\ count' \in [Refreshers -> Nat] /\ todo' \in [Refreshers -> SUBSET Nat]
        /\ pc' \in [Refreshers -> {"idle", "dated", "assigned", "rows", "begin",
                                   "assign", "close", "backfill"}]
    <3>1. count[r] + 1 \in Nat
      OBVIOUS
    <3>2. todo[r] \ {l} \in SUBSET Nat
      OBVIOUS
    <3>3. PICK p \in {"close", "assign"} : pc' = [pc EXCEPT ![r] = p]
      BY <1>10 DEF PlaceLap
    <3>4. QED
      BY <2>1, <3>1, <3>2, <3>3
  <2> DEFINE k == openEra[r]
             e == [work[k] EXCEPT !.laps = @ \cup {l}]
  <2>3. work' = [work EXCEPT ![k] = e]
    BY <1>10 DEF PlaceLap
  <2>4. CASE k \in DOMAIN work
    <3>1. work[k] \in Era /\ IsFiniteSet(work[k].laps)
      BY <2>4, ElementOfSeq, LenProperties DEF Finite
    <3>2. e \in Era /\ e.laps = work[k].laps \cup {l}
      <4>1. l \in Nat
        OBVIOUS
      <4>2. QED
        BY <3>1, <4>1 DEF Era
    <3>3. IsFiniteSet(e.laps)
      <4>1. IsFiniteSet(work[k].laps \cup {l})
        BY <3>1, FS_AddElement
      <4>2. QED
        BY <3>2, <4>1
    <3> HIDE DEF e, k
    <3>4. work' \in Seq(Era) /\ Finite(work')
      BY <2>3, <3>2, <3>3, ReplaceEra DEF Finite
    <3>5. QED
      <4>1. Finite(eras)' /\ Finite(work)'
        BY <1>10, <3>4 DEF PlaceLap, store, laps, Finite
      <4>2. TypeOK'
        BY <1>10, <3>4, <2>2 DEF PlaceLap, store, laps
      <4>3. QED
        BY <4>1, <4>2
  <2>5. CASE k \notin DOMAIN work
    <3>1. work' = work
      BY <2>3, <2>5, LenProperties
    <3>2. QED
      <4>1. Finite(eras)' /\ Finite(work)'
        BY <1>10, <3>1 DEF PlaceLap, store, laps, Finite
      <4>2. TypeOK'
        BY <1>10, <3>1, <2>2 DEF PlaceLap, store, laps
      <4>3. QED
        BY <4>1, <4>2
  <2>6. QED
    BY <2>4, <2>5
<1>11. ASSUME NEW r \in Refreshers, CloseEra(r) PROVE Typed'
  <2> DEFINE k == openEra[r]
             e == [work[k] EXCEPT !.closed = TRUE, !.slices = TRUE,
                     !.summary = Covered(r, k)]
  <2>1. work' = [work EXCEPT ![k] = e]
    BY <1>11 DEF CloseEra
  <2>2. CASE k \in DOMAIN work
    <3>1. work[k] \in Era /\ IsFiniteSet(work[k].laps)
      BY <2>2, ElementOfSeq, LenProperties DEF Finite
    <3>2. e \in Era /\ e.laps = work[k].laps
      BY <3>1 DEF Era, Covered
    <3> HIDE DEF e, k
    <3>3. work' \in Seq(Era) /\ Finite(work')
      BY <2>1, <3>1, <3>2, ReplaceEra DEF Finite
    <3>4. QED
      BY <1>11, <3>3 DEF CloseEra, store, laps, Finite
  <2>3. CASE k \notin DOMAIN work
    <3>1. work' = work
      BY <2>1, <2>3, LenProperties
    <3>2. QED
      BY <1>11, <3>1 DEF CloseEra, store, laps, Finite
  <2>4. QED
    BY <2>2, <2>3
<1>12. ASSUME NEW r \in Refreshers, Commit(r) PROVE Typed'
  BY <1>12, EmptySeq DEF Commit, laps, Finite, Overtaken
<1>r. ASSUME NEW r \in Refreshers, Return(r)
      PROVE  /\ pc' \in [Refreshers -> {"idle", "dated", "assigned", "rows", "begin",
                                        "assign", "close", "backfill"}]
             /\ sizeRead' \in [Refreshers -> Sizes]
             /\ todo' \in [Refreshers -> SUBSET Nat]
             /\ openEra' \in [Refreshers -> Nat] /\ nextEra' \in [Refreshers -> Nat]
             /\ count' \in [Refreshers -> Nat] /\ known' \in [Refreshers -> Nat]
             /\ stale' \subseteq Refreshers /\ ready' \in [Refreshers -> SUBSET Nat]
  BY <1>r DEF Return
<1>13. ASSUME NEW r \in Refreshers, Backfill(r) PROVE Typed'
  <2>1. eras' \in Seq(Era) /\ Finite(eras)'
    BY <1>13, SlicedEras DEF Backfill, Finite
  <2>2. Return(r) /\ laps' = laps /\ setting' = setting /\ writer' = writer
        /\ work' = work
    BY <1>13 DEF Backfill
  <2>3. QED
    BY <1>r, <2>1, <2>2 DEF laps, Finite
<1>14. ASSUME NEW r \in Refreshers, Abandon(r) PROVE Typed'
  <2>1. work' \in Seq(Era) /\ Finite(work')
    <3>1. CASE writer = r
      <4>1. work' = << >>
        BY <1>14, <3>1 DEF Abandon
      <4>2. QED
        BY <4>1, EmptySeq DEF Finite
    <3>2. CASE writer # r
      BY <1>14, <3>2 DEF Abandon, Finite
    <3>3. QED
      BY <3>1, <3>2
  <2>2. writer' \in Refreshers \cup {None} /\ Return(r) /\ store' = store
    BY <1>14 DEF Abandon
  <2>3. QED
    BY <1>r, <2>1, <2>2 DEF store, laps, Finite
<1>15. CASE UNCHANGED vars
  BY <1>15 DEF vars, store, laps, locals, Finite
<1>16. QED
  BY <1>1, <1>3, <1>4, <1>5, <1>6, <1>7, <1>8, <1>9, <1>10, <1>11, <1>12,
     <1>13, <1>14, <1>15, <1>2 DEF Next, RefreshStep, Raise, Fail

\* Every variable keeps its type, whether or not refreshes overlap.
THEOREM TypeCorrect == Spec => []TypeOK
<1>1. Typed => TypeOK
  BY DEF Typed
<1>2. QED
  BY InitTyped, NextTyped, <1>1, PTL DEF Spec

-----------------------------------------------------------------------------
(* However refreshes overlap.                                              *)

\* Exactly the refresher inside its transaction holds the write lock.
Lock == \A r \in Refreshers : writer = r <=> pc[r] \in {"assign", "close"}

\* A summary that the transaction of r has frozen in es.
Complete(r, es) ==
  \A i \in NewlyClosed(es) :
    es[i].summary \subseteq es[i].laps /\ es[i].laps \cap ready[r] \subseteq es[i].summary

\* What a refresh knows: the laps it has yet to place are in no era, unless
\* another has committed since it read them; its open era is one that its
\* transaction has not closed; and the laps that were measured when it read
\* the cohorts have a cohort and are still measured.
Seen(r) ==
  /\ pc[r] \in {"rows", "begin"} /\ r \notin stale =>
       todo[r] \cap InSome(eras) = {}
  /\ pc[r] = "begin" => openEra[r] \in {0} \cup DOMAIN eras
  /\ pc[r] \in {"assign", "close"} =>
       /\ Len(eras) <= Len(work)
       /\ openEra[r] \in {0} \cup (DOMAIN work \ NewlyClosed(work))
       /\ Complete(r, work)
       /\ r \notin stale => /\ todo[r] \cap InSome(work) = {}
                            /\ Doubled(work) \subseteq Doubled(eras)
  /\ pc[r] = "close" => openEra[r] # 0
  /\ pc[r] \in {"begin", "assign", "close"} =>
       ready[r] \subseteq 1..known[r] \cap measured

SInv == Typed /\ Lock /\ \A r \in Refreshers : Seen(r)

\* Only a refresh under way raises.
LEMMA Raising ==
  ASSUME NEW r \in Refreshers, Raise(r) PROVE pc[r] # "idle" /\ Abandon(r)
BY DEF Raise, LockTimeout, KeyConflict

\* At first nobody knows anything.
LEMMA InitSeen == Init => SInv
BY InitTyped, ErasAssumption DEF Init, SInv, Lock, Seen

\* A step of r leaves what another refresher knows as it was, if it keeps the
\* tables, the transaction of the other, and what the other has read.
LEMMA OthersKnow ==
  ASSUME NEW r \in Refreshers, eras' = eras, measured' = measured,
         \A s \in Refreshers \ {r} :
           /\ Seen(s) /\ pc'[s] = pc[s]
           /\ todo'[s] = todo[s] /\ openEra'[s] = openEra[s]
           /\ known'[s] = known[s] /\ ready'[s] = ready[s]
           /\ s \in stale' <=> s \in stale
           /\ pc[s] \in {"assign", "close"} => work' = work
  PROVE  \A s \in Refreshers \ {r} : Seen(s)'
<1> SUFFICES ASSUME NEW s \in Refreshers \ {r} PROVE Seen(s)'
  OBVIOUS
<1>1. InSome(eras)' = InSome(eras)
  BY DEF InSome
<1>2. CASE pc[s] \in {"assign", "close"}
  <2>1. work' = work
    BY <1>2
  <2>2. /\ Complete(s, work)' <=> Complete(s, work)
        /\ NewlyClosed(work)' = NewlyClosed(work) /\ InSome(work)' = InSome(work)
        /\ Doubled(work)' = Doubled(work) /\ Doubled(eras)' = Doubled(eras)
    BY <2>1 DEF Complete, NewlyClosed, InSome, Doubled
  <2>3. QED
    BY <1>2, <2>1, <2>2 DEF Seen
<1>3. CASE pc[s] \notin {"assign", "close"}
  BY <1>1, <1>3 DEF Seen
<1>4. QED
  BY <1>2, <1>3

\* Eras with the same laps have the same laps in two eras.
LEMMA SameLaps ==
  ASSUME NEW es, NEW fs, DOMAIN fs = DOMAIN es,
         \A i \in DOMAIN es : fs[i].laps = es[i].laps
  PROVE  InSome(fs) = InSome(es) /\ Doubled(fs) = Doubled(es)
<1>1. InSome(fs) = InSome(es)
  BY DEF InSome
<1>2. QED
  BY <1>1 DEF Doubled

\* Another era without laps puts no lap into two.
LEMMA EmptyEraDoubles ==
  ASSUME NEW es, NEW fs, NEW k, k \notin DOMAIN es, DOMAIN fs = DOMAIN es \cup {k},
         \A i \in DOMAIN es : fs[i] = es[i], fs[k].laps = {}
  PROVE  InSome(fs) = InSome(es) /\ Doubled(fs) \subseteq Doubled(es)
<1>1. InSome(fs) = InSome(es)
  BY DEF InSome
<1>2. QED
  BY <1>1 DEF Doubled

\* A lap that was in no era, put into one, is not in two.
LEMMA NewLapDoubles ==
  ASSUME NEW es, NEW fs, NEW k \in DOMAIN es, NEW l, l \notin InSome(es),
         DOMAIN fs = DOMAIN es, fs[k].laps = es[k].laps \cup {l},
         \A i \in DOMAIN es : i # k => fs[i] = es[i]
  PROVE  InSome(fs) = InSome(es) \cup {l} /\ Doubled(fs) \subseteq Doubled(es)
<1>1. InSome(fs) = InSome(es) \cup {l}
  BY DEF InSome
<1>2. \A i \in DOMAIN es : l \notin es[i].laps
  BY DEF InSome
<1>3. QED
  BY <1>1, <1>2 DEF Doubled

\* Nobody writes while another holds the lock.
LEMMA OneWriter ==
  ASSUME Lock, NEW r \in Refreshers, writer \in {r, None}
  PROVE  \A s \in Refreshers \ {r} : pc[s] \notin {"assign", "close"}
BY ErasAssumption DEF Lock

\* Writing the missing slices leaves laps, status and summaries alone, and
\* when none is missing it writes nothing.
LEMMA BackfillKeeps ==
  ASSUME Typed, NEW r \in Refreshers, Backfill(r)
  PROVE  /\ DOMAIN eras' = DOMAIN eras
         /\ \A i \in DOMAIN eras : /\ eras'[i].laps = eras[i].laps
                                   /\ eras'[i].closed = eras[i].closed
         /\ writer # None => eras' = eras
<1>1. eras \in Seq(Era) /\ eras' = Sliced(eras)
  BY DEF Backfill, Typed, TypeOK
<1>2. ASSUME ~Unsliced PROVE Sliced(eras) = eras
  <2>1. ASSUME NEW i \in DOMAIN eras
        PROVE  eras[i] = IF eras[i].closed THEN [eras[i] EXCEPT !.slices = TRUE]
                                           ELSE eras[i]
    <3>1. eras[i] \in Era /\ (eras[i].closed => eras[i].slices = TRUE)
      <4>1. eras[i] \in Era
        BY <1>1, LenProperties, ElementOfSeq
      <4>2. QED
        BY <1>2, <4>1 DEF Unsliced, Era
    <3>2. QED
      BY <3>1 DEF Era
  <2>2. eras = [i \in DOMAIN eras |-> eras[i]]
    BY <1>1
  <2>3. QED
    BY <2>1, <2>2 DEF Sliced
<1>3. QED
  BY <1>1, <1>2, SlicedEras DEF Backfill

\* A step of the program outside the refreshes takes nothing that one knows.
LEMMA EnvironmentSeen ==
  ASSUME SInv, eras' = eras, writer' = writer, pc' = pc, locals' = locals,
         history' = history, measured \subseteq measured'
  PROVE  Lock' /\ \A s \in Refreshers : Seen(s)'
<1>1. /\ work' = work /\ todo' = todo /\ openEra' = openEra /\ known' = known
      /\ stale' = stale /\ ready' = ready
  BY DEF locals, history
<1>2. \A s \in Refreshers : Complete(s, work)' <=> Complete(s, work)
  BY <1>1 DEF Complete, NewlyClosed
<1>3. NewlyClosed(work)' = NewlyClosed(work) /\ InSome(work)' = InSome(work)
      /\ Doubled(work)' = Doubled(work) /\ InSome(eras)' = InSome(eras)
      /\ Doubled(eras)' = Doubled(eras)
  BY <1>1 DEF NewlyClosed, InSome, Doubled
<1>4. Lock'
  BY DEF SInv, Lock
<1>5. ASSUME NEW s \in Refreshers PROVE Seen(s)'
  BY <1>1, <1>2, <1>3 DEF SInv, Seen
<1>6. QED
  BY <1>4, <1>5

\* The reads of a refresh.
LEMMA ReadsSeen ==
  ASSUME SInv, Typed', NEW r \in Refreshers,
         ReadSetting(r) \/ ReadDated(r) \/ ReadAssigned(r) \/ ReadRows(r)
  PROVE  Lock' /\ \A s \in Refreshers : Seen(s)'
<1> USE DEF ReadSetting, ReadDated, ReadAssigned, ReadRows, store, laps, history
<1>1. /\ eras' = eras /\ measured' = measured /\ writer' = writer /\ work' = work
      /\ stale' = stale /\ date' = date
      /\ pc[r] \notin {"assign", "close"}
  OBVIOUS
<1>o. PICK n \in Nat : openEra' \in {openEra, [openEra EXCEPT ![r] = n]}
  BY LenProperties DEF SInv, Typed, TypeOK
<1>2. \A s \in Refreshers \ {r} :
        /\ pc'[s] = pc[s] /\ todo'[s] = todo[s] /\ openEra'[s] = openEra[s]
        /\ known'[s] = known[s] /\ ready'[s] = ready[s]
  <2>1. \A s \in Refreshers \ {r} : openEra'[s] = openEra[s]
    BY <1>o DEF SInv, Typed, TypeOK
  <2>2. QED
    BY <2>1 DEF SInv, Typed, TypeOK
<1>3. pc'[r] \notin {"assign", "close"}
  BY DEF SInv, Typed, TypeOK
<1>4. Lock'
  BY <1>1, <1>2, <1>3 DEF SInv, Lock
<1>5. \A s \in Refreshers \ {r} : Seen(s)'
  BY <1>1, <1>2, OthersKnow DEF SInv
<1>6. CASE ReadSetting(r) \/ ReadDated(r)
  <2>1. pc'[r] \in {"dated", "assigned"}
    BY <1>6 DEF SInv, Typed, TypeOK
  <2>2. Seen(r)'
    BY <2>1 DEF Seen
  <2>3. QED
    BY <1>4, <1>5, <2>2
<1>7. CASE ReadAssigned(r)
  <2>1. pc'[r] = "rows" /\ todo'[r] = todo[r] \ InSome(eras)
    BY <1>7 DEF SInv, Typed, TypeOK
  <2>2. Seen(r)'
    BY <1>1, <2>1 DEF Seen, InSome
  <2>3. QED
    BY <1>4, <1>5, <2>2
<1>8. CASE ReadRows(r)
  <2>1. PICK o \in 0 .. Len(eras) : openEra' = [openEra EXCEPT ![r] = o]
    BY <1>8
  <2>2. /\ pc[r] = "rows" /\ pc'[r] = "begin" /\ openEra'[r] = o
        /\ known'[r] = Len(date) /\ ready'[r] = measured /\ todo' = todo
    BY <1>8, <2>1 DEF SInv, Typed, TypeOK
  <2>3. o \in {0} \cup DOMAIN eras
    BY LenProperties DEF SInv, Typed, TypeOK
  <2>4. measured \subseteq 1..Len(date)
    <3>1. measured \subseteq DOMAIN date /\ date \in Seq(Dates \cup {NoDate})
      BY DEF SInv, Typed, TypeOK
    <3>2. QED
      BY <3>1, LenProperties
  <2>5. r \notin stale => todo[r] \cap InSome(eras) = {}
    BY <2>2 DEF SInv, Seen
  <2>6. InSome(eras)' = InSome(eras)
    BY <1>1 DEF InSome
  <2>7. Seen(r)'
    BY <1>1, <2>2, <2>3, <2>4, <2>5, <2>6 DEF Seen
  <2>8. QED
    BY <1>4, <1>5, <2>7
<1>9. QED
  BY <1>6, <1>7, <1>8

\* The transaction of a refresh, up to its commit.
LEMMA TransactionSeen ==
  ASSUME SInv, Typed', NEW r \in Refreshers,
         \/ Begin(r) \/ OpenEra(r) \/ CloseEra(r)
         \/ \E l \in todo[r] : PlaceLap(r, l)
  PROVE  Lock' /\ \A s \in Refreshers : Seen(s)'
<1>1. /\ eras' = eras /\ measured' = measured /\ date' = date /\ known' = known
      /\ stale' = stale /\ ready' = ready
      /\ pc[r] # "begin" => writer' = writer
  BY DEF Begin, OpenEra, CloseEra, PlaceLap, store, laps, history
<1>2. \A s \in Refreshers \ {r} :
        pc'[s] = pc[s] /\ todo'[s] = todo[s] /\ openEra'[s] = openEra[s]
  BY DEF Begin, OpenEra, CloseEra, PlaceLap, SInv, Typed, TypeOK
<1>3. /\ DOMAIN work = 1..Len(work) /\ Len(work) \in Nat
      /\ DOMAIN eras = 1..Len(eras) /\ Len(eras) \in Nat
      /\ work \in Seq(Era)
  <2>1. work \in Seq(Era) /\ eras \in Seq(Era)
    BY DEF SInv, Typed, TypeOK
  <2>2. QED
    BY <2>1, LenProperties
<1>4. \A i : i \in NewlyClosed(work) <=>
              /\ i \in DOMAIN work /\ work[i].closed
              /\ ~(i \in DOMAIN eras /\ eras[i].closed)
  BY DEF NewlyClosed
<1>5. \A i : i \in NewlyClosed(work)' <=>
              /\ i \in DOMAIN work' /\ work'[i].closed
              /\ ~(i \in DOMAIN eras /\ eras[i].closed)
  BY <1>1 DEF NewlyClosed
<1>6. Doubled(eras)' = Doubled(eras)
  BY <1>1 DEF Doubled, InSome
<1>7. Seen(r) /\ Lock
  BY DEF SInv
<1>8. ASSUME \A s \in Refreshers \ {r} : pc[s] \notin {"assign", "close"} \/ work' = work,
             Seen(r)'
      PROVE  \A s \in Refreshers : Seen(s)'
  BY <1>1, <1>2, <1>8, OthersKnow DEF SInv
<1>9. ASSUME pc[r] \in {"assign", "close"}
      PROVE  \A s \in Refreshers \ {r} : pc[s] \notin {"assign", "close"}
  BY <1>7, <1>9, OneWriter DEF Lock
<1>10. CASE Begin(r) /\ todo[r] = {}
  <2>1. pc'[r] = "backfill" /\ writer' = writer /\ work' = work /\ pc[r] = "begin"
    BY <1>10 DEF Begin, SInv, Typed, TypeOK
  <2>2. Lock' /\ Seen(r)'
    BY <1>2, <1>7, <2>1 DEF Lock, Seen
  <2>3. QED
    BY <1>8, <2>1, <2>2
<1>11. CASE Begin(r) /\ todo[r] # {}
  <2>1. /\ pc'[r] = "assign" /\ writer = None /\ writer' = r /\ work' = eras
        /\ pc[r] = "begin" /\ todo' = todo /\ openEra' = openEra
    BY <1>11 DEF Begin, SInv, Typed, TypeOK
  <2>2. \A s \in Refreshers \ {r} : pc[s] \notin {"assign", "close"}
    BY <1>7, <2>1, OneWriter
  <2>3. Lock'
    BY <1>2, <2>1, <2>2 DEF Lock
  <2>4. NewlyClosed(work)' = {}
    BY <1>5, <2>1
  <2>5. InSome(work)' = InSome(eras) /\ Doubled(work)' = Doubled(eras)
    BY <2>1 DEF InSome, Doubled
  <2>6. Complete(r, work)'
    BY <2>4 DEF Complete
  <2>7. Seen(r)'
    BY <1>1, <1>3, <1>6, <1>7, <2>1, <2>4, <2>5, <2>6 DEF Seen
  <2>8. QED
    BY <1>8, <2>2, <2>3, <2>7
<1>12. CASE OpenEra(r)
  <2>k. PICK k : k = Len(work) + 1
    OBVIOUS
  <2> DEFINE e == NewEra(sizeRead[r])
  <2>1. /\ work' = Append(work, e) /\ pc[r] = "assign" /\ pc' = pc /\ todo' = todo
        /\ openEra'[r] = k
    BY <1>12, <2>k DEF OpenEra, SInv, Typed, TypeOK
  <2>2. e \in Era /\ e.laps = {} /\ e.closed = FALSE
    BY ErasAssumption DEF NewEra, Era, SInv, Typed, TypeOK
  <2> HIDE DEF e
  <2>3. /\ Len(work') = k /\ DOMAIN work' = 1..k /\ work'[k] = e
        /\ \A i \in DOMAIN work : work'[i] = work[i]
    BY <1>3, <2>1, <2>2, <2>k, AppendEra
  <2>4. k \notin DOMAIN work /\ DOMAIN work' = DOMAIN work \cup {k} /\ k # 0
    BY <1>3, <2>3, <2>k
  <2>5. InSome(work)' = InSome(work) /\ Doubled(work)' \subseteq Doubled(work)
    <3>1. InSome(work') = InSome(work) /\ Doubled(work') \subseteq Doubled(work)
      BY <2>2, <2>3, <2>4, EmptyEraDoubles
    <3>2. QED
      BY <3>1 DEF InSome, Doubled
  <2>6. NewlyClosed(work)' = NewlyClosed(work) /\ k \notin NewlyClosed(work)
    <3>1. \A i : i \in NewlyClosed(work)' <=> i \in NewlyClosed(work)
      BY <1>4, <1>5, <2>2, <2>3, <2>4
    <3>2. QED
      BY <1>4, <2>4, <3>1
  <2>7. Complete(r, work)'
    BY <1>1, <1>4, <1>7, <2>1, <2>3, <2>6 DEF Seen, Complete
  <2>8. Len(eras) <= Len(work')
    BY <1>3, <1>7, <2>1, <2>3, <2>k DEF Seen
  <2>9. Seen(r)'
    BY <1>1, <1>6, <1>7, <2>1, <2>4, <2>5, <2>6, <2>7, <2>8 DEF Seen
  <2>10. Lock'
    BY <1>1, <1>7, <2>1 DEF Lock
  <2>11. QED
    BY <1>8, <1>9, <2>1, <2>9, <2>10
<1>13. ASSUME NEW l \in todo[r], PlaceLap(r, l)
       PROVE  Lock' /\ \A s \in Refreshers : Seen(s)'
  <2>k. PICK k : k = openEra[r]
    OBVIOUS
  <2> DEFINE e == [work[k] EXCEPT !.laps = @ \cup {l}]
  <2>1. /\ work' = [work EXCEPT ![k] = e] /\ pc[r] = "assign" /\ k # 0
        /\ todo'[r] = todo[r] \ {l} /\ openEra' = openEra
    BY <1>13, <2>k DEF PlaceLap, SInv, Typed, TypeOK
  <2>2. pc'[r] \in {"assign", "close"}
    BY <1>13 DEF PlaceLap, SInv, Typed, TypeOK
  <2>3. k \in DOMAIN work /\ k \notin NewlyClosed(work)
    BY <1>7, <2>1, <2>k DEF Seen
  <2>4. work[k] \in Era /\ l \in Nat
    BY <1>3, <2>3, ElementOfSeq DEF SInv, Typed, TypeOK
  <2>5. e \in Era /\ e.laps = work[k].laps \cup {l} /\ e.closed = work[k].closed
    BY <2>4 DEF Era
  <2> HIDE DEF e
  <2>6. /\ Len(work') = Len(work) /\ DOMAIN work' = DOMAIN work
        /\ \A i \in DOMAIN work : work'[i] = IF i = k THEN e ELSE work[i]
    BY <1>3, <2>1, <2>5, ReplaceEra
  <2>7. ASSUME r \notin stale
        PROVE  todo'[r] \cap InSome(work)' = {} /\ Doubled(work)' \subseteq Doubled(work)
    <3>1. l \notin InSome(work)
      BY <1>7, <2>1, <2>7 DEF Seen
    <3>2. InSome(work') = InSome(work) \cup {l} /\ Doubled(work') \subseteq Doubled(work)
      BY <2>3, <2>5, <2>6, <3>1, NewLapDoubles
    <3>3. InSome(work)' = InSome(work') /\ Doubled(work)' = Doubled(work')
      BY DEF InSome, Doubled
    <3>4. QED
      BY <1>7, <2>1, <2>7, <3>2, <3>3 DEF Seen
  <2>8. NewlyClosed(work)' = NewlyClosed(work)
    BY <1>4, <1>5, <2>5, <2>6
  <2>9. Complete(r, work)'
    BY <1>1, <1>4, <1>7, <2>1, <2>3, <2>6, <2>8 DEF Seen, Complete
  <2>10. Seen(r)'
    BY <1>1, <1>6, <1>7, <2>1, <2>2, <2>3, <2>6, <2>7, <2>8, <2>9, <2>k DEF Seen
  <2>11. Lock'
    BY <1>1, <1>2, <1>7, <2>1, <2>2 DEF Lock
  <2>12. QED
    BY <1>8, <1>9, <2>1, <2>10, <2>11
<1>14. CASE CloseEra(r)
  <2>k. PICK k : k = openEra[r]
    OBVIOUS
  <2> DEFINE e == [work[k] EXCEPT !.closed = TRUE, !.slices = TRUE,
                     !.summary = Covered(r, k)]
  <2>1. /\ work' = [work EXCEPT ![k] = e] /\ pc[r] = "close" /\ pc'[r] = "assign"
        /\ todo' = todo /\ openEra'[r] = 0
    BY <1>14, <2>k DEF CloseEra, SInv, Typed, TypeOK
  <2>2. k \in DOMAIN work
    BY <1>7, <2>1, <2>k DEF Seen
  <2>3. work[k] \in Era
    BY <1>3, <2>2, ElementOfSeq
  <2>4. /\ Covered(r, k) \subseteq work[k].laps
        /\ work[k].laps \cap ready[r] \subseteq Covered(r, k)
    BY <1>7, <2>1 DEF Seen, Covered
  <2>5. e \in Era /\ e.laps = work[k].laps /\ e.summary = Covered(r, k)
    BY <2>3, <2>4 DEF Era
  <2> HIDE DEF e
  <2>6. /\ Len(work') = Len(work) /\ DOMAIN work' = DOMAIN work
        /\ \A i \in DOMAIN work : work'[i] = IF i = k THEN e ELSE work[i]
    BY <1>3, <2>1, <2>5, ReplaceEra
  <2>7. InSome(work)' = InSome(work) /\ Doubled(work)' = Doubled(work)
    <3>1. InSome(work') = InSome(work) /\ Doubled(work') = Doubled(work)
      BY <2>5, <2>6, SameLaps
    <3>2. QED
      BY <3>1 DEF InSome, Doubled
  <2>8. NewlyClosed(work)' \subseteq NewlyClosed(work) \cup {k}
    BY <1>4, <1>5, <2>6
  <2>9. Complete(r, work)'
    <3>1. Complete(r, work)
      BY <1>7, <2>1 DEF Seen
    <3>2. ASSUME NEW i \in NewlyClosed(work)'
          PROVE  /\ work'[i].summary \subseteq work'[i].laps
                 /\ work'[i].laps \cap ready'[r] \subseteq work'[i].summary
      <4>1. CASE i = k
        BY <1>1, <2>2, <2>4, <2>5, <2>6, <4>1
      <4>2. CASE i # k
        <5>1. i \in NewlyClosed(work) /\ work'[i] = work[i]
          BY <1>4, <2>6, <2>8, <4>2
        <5>2. QED
          BY <1>1, <3>1, <5>1 DEF Complete
      <4>3. QED
        BY <4>1, <4>2
    <3>3. QED
      BY <3>2 DEF Complete
  <2>10. Seen(r)'
    BY <1>1, <1>6, <1>7, <2>1, <2>6, <2>7, <2>9 DEF Seen
  <2>11. Lock'
    BY <1>1, <1>2, <1>7, <2>1 DEF Lock
  <2>12. QED
    BY <1>8, <1>9, <2>1, <2>10, <2>11
<1>15. QED
  BY <1>10, <1>11, <1>12, <1>13, <1>14

\* The end of a refresh: it commits, it writes the slices, or it is abandoned.
LEMMA EndSeen ==
  ASSUME SInv, Typed', NEW r \in Refreshers,
         Commit(r) \/ Backfill(r) \/ (pc[r] # "idle" /\ Abandon(r))
  PROVE  Lock' /\ \A s \in Refreshers : Seen(s)'
<1>1. \A s \in Refreshers \ {r} :
        /\ pc'[s] = pc[s] /\ todo'[s] = todo[s] /\ openEra'[s] = openEra[s]
        /\ known'[s] = known[s] /\ ready'[s] = ready[s]
  BY DEF Commit, Backfill, Abandon, Return, laps, locals, SInv, Typed, TypeOK
<1>2. measured' = measured /\ date' = date
  BY DEF Commit, Backfill, Abandon, store, laps
<1>3. pc'[r] \in {"backfill", "idle"}
  BY DEF Commit, Backfill, Abandon, Return, SInv, Typed, TypeOK
<1>4. Seen(r)'
  BY <1>3 DEF Seen
<1>5. Lock /\ \A s \in Refreshers : Seen(s)
  BY DEF SInv
<1>6. DOMAIN eras = 1..Len(eras) /\ Len(eras) \in Nat
      /\ DOMAIN work = 1..Len(work) /\ Len(work) \in Nat
  <2>1. work \in Seq(Era) /\ eras \in Seq(Era)
    BY DEF SInv, Typed, TypeOK
  <2>2. QED
    BY <2>1, LenProperties
<1>7. CASE Commit(r)
  <2>1. pc[r] = "assign" /\ eras' = work /\ writer' = None
        /\ stale' = stale \cup Overtaken(r)
    BY <1>7 DEF Commit
  <2>2. \A s \in Refreshers \ {r} : pc[s] \notin {"assign", "close"}
    BY <1>5, <2>1, OneWriter DEF Lock
  <2>3. Lock'
    BY <1>1, <1>3, <2>1, <2>2, ErasAssumption DEF Lock
  <2>4. DOMAIN eras \subseteq DOMAIN eras'
    BY <1>5, <1>6, <2>1 DEF Seen
  <2>5. ASSUME NEW s \in Refreshers \ {r} PROVE Seen(s)'
    <3>1. pc[s] \in {"rows", "begin"} => s \in stale'
      BY <2>1 DEF Overtaken
    <3>2. Seen(s) /\ pc'[s] = pc[s] /\ pc[s] \notin {"assign", "close"}
      BY <1>1, <1>5, <2>2
    <3>3. QED
      BY <1>1, <1>2, <2>4, <3>1, <3>2 DEF Seen
  <2>6. QED
    BY <1>4, <2>3, <2>5
<1>8. CASE Backfill(r)
  <2>1. /\ writer' = writer /\ work' = work /\ stale' = stale \ {r}
        /\ pc[r] = "backfill" /\ (Unsliced => writer = None)
    BY <1>8 DEF Backfill, Return
  <2>2. /\ DOMAIN eras' = DOMAIN eras
        /\ \A i \in DOMAIN eras : eras'[i].laps = eras[i].laps
        /\ writer # None => eras' = eras
    BY <1>8, BackfillKeeps DEF SInv
  <2>3. InSome(eras)' = InSome(eras)
    BY <2>2 DEF InSome
  <2>4. Lock'
    BY <1>1, <1>3, <1>5, <2>1 DEF Lock
  <2>5. CASE writer # None
    <3>1. \A s \in Refreshers \ {r} : Seen(s)'
      BY <1>1, <1>2, <1>5, <2>1, <2>2, <2>5, OthersKnow
    <3>2. QED
      BY <1>4, <2>4, <3>1
  <2>6. CASE writer = None
    <3>1. \A s \in Refreshers : pc[s] \notin {"assign", "close"}
      BY <1>5, <2>6, ErasAssumption DEF Lock
    <3>2. ASSUME NEW s \in Refreshers \ {r} PROVE Seen(s)'
      <4>1. Seen(s) /\ pc'[s] = pc[s] /\ pc[s] \notin {"assign", "close"}
        BY <1>1, <1>5, <3>1
      <4>2. s \in stale' <=> s \in stale
        BY <2>1
      <4>3. QED
        BY <1>1, <1>2, <2>2, <2>3, <4>1, <4>2 DEF Seen
    <3>3. QED
      BY <1>4, <2>4, <3>2
  <2>7. QED
    BY <2>5, <2>6
<1>9. CASE Abandon(r)
  <2>1. /\ eras' = eras /\ stale' = stale \ {r}
        /\ IF writer = r THEN writer' = None /\ work' = << >>
           ELSE writer' = writer /\ work' = work
    BY <1>9 DEF Abandon, Return, store
  <2>2. \A s \in Refreshers \ {r} : pc[s] \in {"assign", "close"} => writer # r
    BY <1>5 DEF Lock
  <2>3. Lock'
    BY <1>1, <1>3, <1>5, <2>1, <2>2, ErasAssumption DEF Lock
  <2>4. \A s \in Refreshers \ {r} : Seen(s)'
    BY <1>1, <1>2, <1>5, <2>1, <2>2, OthersKnow
  <2>5. QED
    BY <1>4, <2>3, <2>4
<1>10. QED
  BY <1>7, <1>8, <1>9

\* What a refresh knows, it knows until another commits.
LEMMA SeenInductive == SInv /\ [Next]_vars => SInv'
<1> SUFFICES ASSUME SInv, [Next]_vars PROVE Lock' /\ \A s \in Refreshers : Seen(s)'
  BY NextTyped DEF SInv
<1>1. Typed'
  BY NextTyped DEF SInv
<1>2. ASSUME \/ \E d \in Dates \cup {NoDate} : StoreLap(d)
             \/ \E l \in DOMAIN date : MeasureLap(l)
             \/ \E n \in Sizes \cup {0} : SetEraSize(n)
             \/ UNCHANGED vars
      PROVE  Lock' /\ \A s \in Refreshers : Seen(s)'
  <2>1. /\ eras' = eras /\ writer' = writer /\ pc' = pc /\ locals' = locals
        /\ history' = history /\ measured \subseteq measured'
    BY <1>2 DEF StoreLap, MeasureLap, SetEraSize, vars, store, laps
  <2>2. QED
    BY <2>1, EnvironmentSeen
<1>3. ASSUME NEW r \in Refreshers,
             ReadSetting(r) \/ ReadDated(r) \/ ReadAssigned(r) \/ ReadRows(r)
      PROVE  Lock' /\ \A s \in Refreshers : Seen(s)'
  BY <1>1, <1>3, ReadsSeen
<1>4. ASSUME NEW r \in Refreshers,
             \/ Begin(r) \/ OpenEra(r) \/ CloseEra(r)
             \/ \E l \in todo[r] : PlaceLap(r, l)
      PROVE  Lock' /\ \A s \in Refreshers : Seen(s)'
  BY <1>1, <1>4, TransactionSeen
<1>5. ASSUME NEW r \in Refreshers,
             Commit(r) \/ Backfill(r) \/ Raise(r) \/ Fail(r)
      PROVE  Lock' /\ \A s \in Refreshers : Seen(s)'
  <2>1. Commit(r) \/ Backfill(r) \/ (pc[r] # "idle" /\ Abandon(r))
    BY <1>5, Raising DEF Fail
  <2>2. QED
    BY <1>1, <2>1, EndSeen
<1>6. QED
  BY <1>2, <1>3, <1>4, <1>5 DEF Next, RefreshStep

\* Only a commit changes the laps or the status of an era, and it writes what
\* its transaction has.
LEMMA OnlyCommitsCut ==
  ASSUME SInv, [Next]_vars
  PROVE  \/ \E r \in Refreshers : Commit(r)
         \/ /\ DOMAIN eras' = DOMAIN eras
            /\ \A i \in DOMAIN eras : /\ eras'[i].laps = eras[i].laps
                                      /\ eras'[i].closed = eras[i].closed
<1>1. ASSUME NEW r \in Refreshers, Backfill(r)
      PROVE  /\ DOMAIN eras' = DOMAIN eras
             /\ \A i \in DOMAIN eras : /\ eras'[i].laps = eras[i].laps
                                       /\ eras'[i].closed = eras[i].closed
  BY <1>1, BackfillKeeps DEF SInv
<1>2. \/ eras' = eras
      \/ \E r \in Refreshers : Commit(r) \/ Backfill(r)
  BY DEF Next, RefreshStep, vars, store, laps, StoreLap, MeasureLap, SetEraSize,
     ReadSetting, ReadDated, ReadAssigned, ReadRows, Begin, OpenEra, PlaceLap,
     CloseEra, Raise, Fail, Abandon
<1>3. QED
  BY <1>1, <1>2

\* However refreshes overlap, a lap gets a second era only from a transaction
\* whose reads another commit had overtaken.
THEOREM LapsPlacedOnceEver == Spec => LapsPlacedOnce
<1>1. ASSUME SInv, [Next]_vars
      PROVE  Doubled(eras') \subseteq Doubled(eras) \/ writer \in stale
  <2>1. ASSUME NEW r \in Refreshers, Commit(r)
        PROVE  Doubled(eras') \subseteq Doubled(eras) \/ writer \in stale
    <3>1. pc[r] = "assign" /\ eras' = work
      BY <2>1 DEF Commit
    <3>2. writer = r /\ Seen(r)
      BY <1>1, <3>1 DEF SInv, Lock
    <3>3. QED
      BY <3>1, <3>2 DEF Seen
  <2>2. ASSUME DOMAIN eras' = DOMAIN eras,
               \A i \in DOMAIN eras : eras'[i].laps = eras[i].laps
        PROVE  Doubled(eras') = Doubled(eras)
    BY <2>2, SameLaps
  <2>3. QED
    BY <1>1, <2>1, <2>2, OnlyCommitsCut
<1>2. SInv /\ [Next]_vars =>
        [Doubled(eras') \subseteq Doubled(eras) \/ writer \in stale]_vars
  BY <1>1
<1>3. QED
  BY <1>2, InitSeen, SeenInductive, PTL DEF Spec, LapsPlacedOnce

\* However refreshes and imports overlap, a frozen summary is of its era's
\* laps alone and has all that were measured when its refresh read them.
THEOREM SummariesCompleteEver == Spec => SummariesComplete
<1> DEFINE Frozen(i) ==
      /\ eras'[i].summary \subseteq eras'[i].laps
      /\ writer \in Refreshers
      /\ eras'[i].laps \cap ready[writer] \subseteq eras'[i].summary
<1>1. ASSUME SInv, [Next]_vars, NEW i \in NewlyClosed(eras') PROVE Frozen(i)
  <2>1. ASSUME NEW r \in Refreshers, Commit(r) PROVE Frozen(i)
    <3>1. pc[r] = "assign" /\ eras' = work
      BY <2>1 DEF Commit
    <3>2. writer = r /\ Complete(r, work)
      BY <1>1, <3>1 DEF SInv, Lock, Seen
    <3>3. i \in NewlyClosed(work)
      BY <1>1, <3>1
    <3>4. QED
      BY <3>1, <3>2, <3>3 DEF Complete
  <2>2. ASSUME DOMAIN eras' = DOMAIN eras,
               \A j \in DOMAIN eras : eras'[j].closed = eras[j].closed
        PROVE  FALSE
    BY <1>1, <2>2 DEF NewlyClosed
  <2>3. QED
    BY <1>1, <2>1, <2>2, OnlyCommitsCut
<1>2. SInv /\ [Next]_vars => [\A i \in NewlyClosed(eras') : Frozen(i)]_vars
  BY <1>1
<1>3. QED
  BY <1>2, InitSeen, SeenInductive, PTL DEF Spec, SummariesComplete

-----------------------------------------------------------------------------
(* The inductive invariant, when refreshes do not overlap.                 *)

\* A step of refresher r leaves what every other refresher knows alone: they
\* are idle and know nothing.
LEMMA OthersKnowNothing ==
  ASSUME NEW r \in Refreshers, Reader(r)',
         \A s \in Refreshers \ {r} : pc'[s] = "idle"
  PROVE  \A s \in Refreshers : Reader(s)'
BY DEF Reader

\* While r is not idle everyone else is, before and after a step that moves
\* r alone.
LEMMA OthersIdle ==
  ASSUME TypeOK, Alone, NEW r \in Refreshers, pc[r] # "idle",
         NEW p, pc' = [pc EXCEPT ![r] = p]
  PROVE  /\ pc'[r] = p
         /\ \A s \in Refreshers \ {r} : pc[s] = "idle" /\ pc'[s] = "idle"
BY DEF TypeOK, Alone

\* Stored laps are numbered from one.
LEMMA DatedStored == TypeOK => Dated \subseteq 1..Len(date) /\ Len(date) \in Nat
BY LenProperties DEF TypeOK, Dated

\* The legacy era is well cut: it was closed full, summarised from its laps.
LEMMA InitInductive == Init => IInv
<1> SUFFICES ASSUME Init PROVE IInv
  OBVIOUS
<1>1. Typed
  BY InitTyped
<1>2. Alone
  BY ErasAssumption DEF Init, Alone
<1>3. DOMAIN LegacyDates = 1..Len(LegacyDates) /\ Len(LegacyDates) \in Nat
  BY LenProperties, ErasAssumption
<1>4. Cut(eras) /\ Partial(eras)
  <2>1. CASE LegacyDates = << >>
    BY <2>1 DEF Init, Cut, Partial
  <2>2. CASE LegacyDates # << >>
    <3>1. /\ DOMAIN eras = {1} /\ eras[1].closed
          /\ eras[1].laps = DOMAIN LegacyDates /\ eras[1].size = Len(LegacyDates)
          /\ eras[1].summary = eras[1].laps
      BY <2>2 DEF Init
    <3>2. Cardinality(DOMAIN LegacyDates) = Len(LegacyDates)
      <4>1. \A n \in Nat : Cardinality(1..n) = n
        BY FS_Interval
      <4>2. QED
        BY <1>3, <4>1
    <3>3. DOMAIN LegacyDates \subseteq Dated
      BY <1>3, ElementOfSeq, ErasAssumption DEF Init, Dated
    <3>4. QED
      BY <3>1, <3>2, <3>3 DEF Cut, Partial
  <2>3. QED
    BY <2>1, <2>2
<1>5. \A r \in Refreshers : Reader(r)
  BY DEF Init, Reader
<1>6. QED
  BY <1>1, <1>2, <1>4, <1>5 DEF IInv

\* What a refresh has read stays true under every step of the program.
LEMMA NextInductive == ~Overlap /\ IInv /\ [Next]_vars => IInv'
<1> SUFFICES ASSUME ~Overlap, IInv, [Next]_vars PROVE IInv'
  OBVIOUS
<1> USE DEF IInv
<1>1. /\ TypeOK /\ Finite(eras) /\ Finite(work)
      /\ Typed' /\ TypeOK' /\ Finite(eras)' /\ Finite(work)'
  BY NextTyped DEF Typed
<1>len. /\ Len(date) \in Nat /\ Len(eras) \in Nat /\ Len(work) \in Nat
        /\ DOMAIN date = 1..Len(date) /\ DOMAIN eras = 1..Len(eras)
        /\ DOMAIN work = 1..Len(work)
        /\ Dated \subseteq 1..Len(date)
  BY <1>1, LenProperties, DatedStored DEF TypeOK
<1>2. ASSUME \/ \E d \in Dates \cup {NoDate} : StoreLap(d)
             \/ \E l \in DOMAIN date : MeasureLap(l)
      PROVE  IInv'
  <2>1. Len(date') \in Nat /\ Len(date') >= Len(date) /\ Dated \subseteq Dated'
    <3>1. ASSUME NEW d \in Dates \cup {NoDate}, StoreLap(d)
          PROVE  Len(date') = Len(date) + 1 /\ Dated \subseteq Dated'
      BY <1>1, <3>1, <1>len, AppendProperties DEF StoreLap, Dated, TypeOK
    <3>2. ASSUME NEW l \in DOMAIN date, MeasureLap(l)
          PROVE  date' = date /\ Dated \subseteq Dated'
      BY <3>2 DEF MeasureLap, Dated
    <3>3. QED
      BY <1>2, <1>len, <3>1, <3>2
  <2>2. /\ eras' = eras /\ work' = work /\ writer' = writer /\ pc' = pc
        /\ todo' = todo /\ openEra' = openEra /\ nextEra' = nextEra
        /\ count' = count /\ known' = known
    BY <1>2 DEF StoreLap, MeasureLap, locals
  <2>3. Alone'
    BY <2>2 DEF Alone
  <2>4. Cut(eras)' /\ Partial(eras)'
    BY <2>1, <2>2 DEF Cut, Partial
  <2>5. ASSUME NEW r \in Refreshers PROVE Reader(r)'
    <3>1. \A es : Cursor(r, es) => Cursor(r, es)'
      BY <2>2 DEF Cursor
    <3>2. Fresh(r, eras) => Fresh(r, eras)'
      BY <2>1, <2>2, <1>1, <1>len DEF Fresh, TypeOK
    <3>3. Fresh(r, work) => Fresh(r, work)'
      BY <2>1, <2>2, <1>1, <1>len DEF Fresh, TypeOK
    <3>4. Cut(work) => Cut(work)'
      BY <2>1, <2>2 DEF Cut
    <3>5. QED
      BY <2>1, <2>2, <3>1, <3>2, <3>3, <3>4 DEF Reader, Keeps, Cursor
  <2>6. QED
    BY <1>1, <2>3, <2>4, <2>5
<1>3. ASSUME NEW n \in Sizes \cup {0}, SetEraSize(n) PROVE IInv'
  BY <1>1, <1>3 DEF SetEraSize, laps, locals, Alone, Cut, Partial, Reader, Cursor,
     Fresh, Keeps, Dated
<1>4. ASSUME NEW r \in Refreshers, ReadSetting(r) PROVE IInv'
  <2>1. \A s \in Refreshers : pc[s] = "idle" /\ pc'[s] \in {"idle", "dated"}
    BY <1>1, <1>4 DEF ReadSetting, TypeOK
  <2>2. \A s \in Refreshers \ {r} : pc'[s] = "idle"
    BY <1>1, <1>4, <2>1 DEF ReadSetting, TypeOK
  <2>3. Alone'
    BY <1>4, <2>1, <2>2 DEF ReadSetting, Alone
  <2>4. Cut(eras)' /\ Partial(eras)'
    BY <1>4 DEF ReadSetting, store, laps, Cut, Partial, Dated
  <2>5. \A s \in Refreshers : Reader(s)'
    BY <2>1 DEF Reader
  <2>6. QED
    BY <1>1, <2>3, <2>4, <2>5
<1>5. ASSUME NEW r \in Refreshers, ReadDated(r) PROVE IInv'
  <2>1. /\ pc'[r] = "assigned"
        /\ \A s \in Refreshers \ {r} : pc[s] = "idle" /\ pc'[s] = "idle"
    BY <1>1, <1>5, OthersIdle DEF ReadDated
  <2>2. Alone'
    BY <1>5, <2>1 DEF ReadDated, Alone
  <2>3. Cut(eras)' /\ Partial(eras)'
    BY <1>5 DEF ReadDated, store, laps, Cut, Partial, Dated
  <2>4. Reader(r)'
    BY <1>1, <1>5, <2>1 DEF ReadDated, store, laps, Reader, Dated, TypeOK
  <2>5. QED
    BY <1>1, <2>1, <2>2, <2>3, <2>4, OthersKnowNothing
<1>6. ASSUME NEW r \in Refreshers, ReadAssigned(r) PROVE IInv'
  <2>1. /\ pc'[r] = "rows"
        /\ \A s \in Refreshers \ {r} : pc[s] = "idle" /\ pc'[s] = "idle"
    BY <1>1, <1>6, OthersIdle DEF ReadAssigned
  <2>2. Alone'
    BY <1>6, <2>1 DEF ReadAssigned, Alone
  <2>3. Cut(eras)' /\ Partial(eras)'
    BY <1>6 DEF ReadAssigned, store, laps, Cut, Partial, Dated
  <2>4. Reader(r)'
    <3>1. /\ todo'[r] = todo[r] \ InSome(eras) /\ eras' = eras
          /\ date' = date /\ measured' = measured
      BY <1>1, <1>6 DEF ReadAssigned, store, laps, TypeOK
    <3>2. todo[r] \subseteq Dated
      BY <1>6 DEF ReadAssigned, Reader
    <3>3. QED
      BY <2>1, <3>1, <3>2 DEF Reader, InSome, Dated
  <2>5. QED
    BY <1>1, <2>1, <2>2, <2>3, <2>4, OthersKnowNothing
<1>7. ASSUME NEW r \in Refreshers, ReadRows(r) PROVE IInv'
  <2>1. /\ pc'[r] = "begin"
        /\ \A s \in Refreshers \ {r} : pc[s] = "idle" /\ pc'[s] = "idle"
    BY <1>1, <1>7, OthersIdle DEF ReadRows
  <2>2. Alone'
    BY <1>7, <2>1 DEF ReadRows, Alone
  <2>3. Cut(eras)' /\ Partial(eras)'
    BY <1>7 DEF ReadRows, store, laps, Cut, Partial, Dated
  <2>4. /\ nextEra'[r] = Len(eras) + 1 /\ known'[r] = Len(date)
        /\ eras' = eras /\ date' = date /\ measured' = measured /\ todo' = todo
    BY <1>1, <1>7 DEF ReadRows, store, laps, TypeOK
  <2>5. Cursor(r, eras)'
    <3>1. PICK o \in 0 .. Len(eras) :
            /\ FirstOpen(eras, o)
            /\ openEra' = [openEra EXCEPT ![r] = o]
            /\ count' = [count EXCEPT ![r] =
                           IF o = 0 THEN 0 ELSE Cardinality(eras[o].laps)]
      BY <1>7 DEF ReadRows
    <3>2. openEra'[r] = o /\ (o # 0 => count'[r] = Cardinality(eras[o].laps))
      BY <3>1, <1>1 DEF TypeOK
    <3>3. CASE o = 0
      BY <2>4, <3>1, <3>2, <3>3 DEF Cursor, FirstOpen
    <3>4. CASE o # 0
      <4>1. o \in DOMAIN eras /\ ~eras[o].closed
        BY <1>len, <3>1, <3>4 DEF FirstOpen
      <4>2. eras[o].size \in Nat /\ Cardinality(eras[o].laps) \in Nat
        <5>1. eras[o] \in Era /\ IsFiniteSet(eras[o].laps)
          BY <1>1, <1>len, <4>1, ElementOfSeq DEF TypeOK, Finite
        <5>2. QED
          BY <5>1, FS_CardinalityType DEF Era
      <4>3. Cardinality(eras[o].laps) <= eras[o].size
        BY <4>1, <4>2 DEF Partial
      <4>4. QED
        BY <2>4, <3>2, <3>4, <4>1, <4>3 DEF Cursor
    <3>5. QED
      BY <3>3, <3>4
  <2>6. todo[r] \subseteq Dated
    BY <1>7 DEF ReadRows, Reader
  <2>7. Fresh(r, eras)'
    <3>1. \A i \in DOMAIN eras : todo[r] \cap eras[i].laps = {}
      BY <1>7 DEF ReadRows, Reader
    <3>2. \A i \in DOMAIN eras : eras[i].laps \subseteq 1..Len(date)
      BY <1>len DEF Cut
    <3>3. todo[r] \subseteq 1..Len(date)
      BY <1>len, <2>6
    <3>4. QED
      BY <1>len, <2>4, <3>1, <3>2, <3>3 DEF Fresh
  <2>8. Reader(r)'
    BY <2>1, <2>4, <2>5, <2>6, <2>7 DEF Reader, Dated
  <2>9. QED
    BY <1>1, <2>1, <2>2, <2>3, <2>8, OthersKnowNothing
<1>8. ASSUME NEW r \in Refreshers, Begin(r) PROVE IInv'
  <2>1. \A s \in Refreshers \ {r} : pc[s] = "idle" /\ pc'[s] = "idle"
    BY <1>1, <1>8, OthersIdle DEF Begin
  <2>2. Cut(eras)' /\ Partial(eras)'
    BY <1>8 DEF Begin, store, laps, Cut, Partial, Dated
  <2>3. CASE todo[r] = {}
    <3>1. pc'[r] = "backfill" /\ writer' = writer
      BY <1>1, <1>8, <2>3 DEF Begin, TypeOK
    <3>2. Alone' /\ Reader(r)'
      BY <1>8, <2>1, <3>1 DEF Begin, Alone, Reader
    <3>3. QED
      BY <1>1, <2>1, <2>2, <3>2, OthersKnowNothing
  <2>4. CASE todo[r] # {}
    <3>1. pc'[r] = "assign" /\ writer' = r /\ work' = eras
      BY <1>1, <1>8, <2>4 DEF Begin, TypeOK
    <3>2. /\ eras' = eras /\ date' = date /\ measured' = measured
          /\ todo' = todo /\ known' = known
          /\ openEra' = openEra /\ nextEra' = nextEra /\ count' = count
      BY <1>8 DEF Begin, store, laps
    <3>3. Alone'
      BY <2>1, <3>1 DEF Alone
    <3>4. Cursor(r, eras) /\ Fresh(r, eras) /\ todo[r] \subseteq Dated
      BY <1>8 DEF Begin, Reader
    <3>5. Cut(work)' /\ Cursor(r, work)' /\ Fresh(r, work)'
      BY <2>2, <3>1, <3>2, <3>4 DEF Cut, Cursor, Fresh, Dated
    <3>6. Keeps(eras, work)'
      BY <1>len, <3>1, <3>2 DEF Keeps
    <3>p. openEra[r] # 0 => count[r] < eras[openEra[r]].size
      BY <3>4 DEF Cursor, Partial
    <3>7. Reader(r)'
      BY <2>4, <3>1, <3>2, <3>4, <3>5, <3>6, <3>p DEF Reader, Dated
    <3>8. QED
      BY <1>1, <2>1, <2>2, <3>3, <3>7, OthersKnowNothing
  <2>5. QED
    BY <2>3, <2>4
<1>9. ASSUME NEW r \in Refreshers, OpenEra(r) PROVE IInv'
  <2>1. \A s \in Refreshers \ {r} : pc[s] = "idle" /\ pc'[s] = "idle"
    BY <1>1, <1>9 DEF OpenEra, Alone
  <2>2. /\ eras' = eras /\ date' = date /\ measured' = measured
        /\ todo' = todo /\ known' = known
        /\ pc' = pc /\ writer' = writer
    BY <1>9 DEF OpenEra, store, laps
  <2>3. Cut(eras)' /\ Partial(eras)' /\ Alone'
    BY <2>2 DEF Cut, Partial, Dated, Alone
  <2>4. /\ todo[r] # {} /\ todo[r] \subseteq Dated
        /\ Cut(work) /\ Cursor(r, work) /\ Fresh(r, work) /\ Keeps(eras, work)
        /\ \A i \in DOMAIN work : work[i].closed
    BY <1>9 DEF OpenEra, Reader, Cursor
  <2> DEFINE k == Len(work) + 1
             e == NewEra(sizeRead[r])
  <2>5. openEra'[r] = k /\ nextEra'[r] = k + 1 /\ count'[r] = 0
    BY <1>1, <1>9 DEF OpenEra, TypeOK
  <2>6. e \in Era /\ e.laps = {} /\ ~e.closed /\ e.size \in Nat \ {0}
    BY <1>1, ErasAssumption DEF NewEra, Era, TypeOK
  <2>7. work' = Append(work, e)
    BY <1>9 DEF OpenEra
  <2> HIDE DEF e
  <2>8. /\ Len(work') = k /\ DOMAIN work' = 1..k /\ work'[k] = e
        /\ \A i \in DOMAIN work : i \in DOMAIN work' /\ work'[i] = work[i]
        /\ \A i \in DOMAIN work' : i \in DOMAIN work \/ i = k
    <3>1. work \in Seq(Era) /\ e \in Era
      BY <1>1, <2>6 DEF TypeOK
    <3>2. /\ Len(work') = k /\ DOMAIN work' = 1..k /\ work'[k] = e
          /\ \A i \in DOMAIN work : work'[i] = work[i]
      BY <2>7, <3>1, AppendEra
    <3>3. QED
      BY <1>len, <3>2
  <2>9. Cut(work)'
    BY <2>2, <2>4, <2>6, <2>8 DEF Cut, Dated
  <2>10. Cursor(r, work)'
    <3>1. Cardinality({}) = 0
      BY FS_EmptySet
    <3>2. k \in 1..k /\ k # 0
      BY <1>len
    <3> HIDE DEF k
    <3>3. /\ openEra'[r] = k /\ nextEra'[r] = Len(work') + 1 /\ k \in DOMAIN work'
          /\ work'[k] = e
      BY <2>5, <2>8, <3>2
    <3>4. ~e.closed /\ count'[r] = Cardinality(e.laps) /\ count'[r] <= e.size
      BY <2>5, <2>6, <3>1
    <3>5. QED
      BY <3>2, <3>3, <3>4 DEF Cursor
  <2>11. Fresh(r, work)'
    BY <2>2, <2>4, <2>6, <2>8 DEF Fresh
  <2>12. Keeps(eras, work)'
    BY <1>len, <2>2, <2>4, <2>8 DEF Keeps
  <2>p. openEra'[r] \in DOMAIN work' /\ count'[r] < work'[openEra'[r]].size
    <3>1. k \in 1..k
      BY <1>len
    <3> HIDE DEF k
    <3>2. QED
      BY <2>5, <2>6, <2>8, <3>1
  <2>q. pc[r] = "assign"
    BY <1>9 DEF OpenEra
  <2>13. Reader(r)'
    BY <2>2, <2>4, <2>9, <2>10, <2>11, <2>12, <2>p, <2>q DEF Reader, Dated
  <2>14. QED
    BY <1>1, <2>1, <2>3, <2>13, OthersKnowNothing
<1>10. ASSUME NEW r \in Refreshers, NEW l \in todo[r], PlaceLap(r, l)
      PROVE IInv'
  <2>1. \A s \in Refreshers \ {r} : pc[s] = "idle" /\ pc'[s] = "idle"
    BY <1>1, <1>10 DEF PlaceLap, Alone
  <2>2. /\ eras' = eras /\ date' = date /\ measured' = measured
        /\ known' = known /\ openEra' = openEra
        /\ nextEra' = nextEra /\ writer' = writer
        /\ count' = [count EXCEPT ![r] = @ + 1]
        /\ todo' = [todo EXCEPT ![r] = @ \ {l}]
        /\ pc[r] = "assign"
    BY <1>10 DEF PlaceLap, store, laps
  <2>p. /\ pc'[r] = IF Fills(r) THEN "close" ELSE "assign"
        /\ \A s \in Refreshers \ {r} : pc'[s] = "idle"
    BY <1>1, <1>10, <2>1 DEF PlaceLap, TypeOK
  <2>3. Cut(eras)' /\ Partial(eras)' /\ Alone'
    BY <2>1, <2>2, <2>p DEF Cut, Partial, Dated, Alone
  <2>4. count'[r] = count[r] + 1 /\ todo'[r] = todo[r] \ {l} /\ count[r] \in Nat
    BY <1>1, <2>2 DEF TypeOK
  <2>5. /\ todo[r] \subseteq Dated
        /\ Cut(work) /\ Cursor(r, work) /\ Fresh(r, work) /\ Keeps(eras, work)
        /\ openEra[r] # 0 => count[r] < work[openEra[r]].size
    BY <1>10 DEF PlaceLap, Reader
  <2> DEFINE k == openEra[r]
             e == [work[k] EXCEPT !.laps = @ \cup {l}]
  <2>6. /\ k # 0 /\ k \in DOMAIN work /\ ~work[k].closed /\ l \notin work[k].laps
        /\ count[r] = Cardinality(work[k].laps) /\ count[r] < work[k].size
        /\ work' = [work EXCEPT ![k] = e]
    BY <1>10, <2>5 DEF PlaceLap, Cursor
  <2>7. work[k] \in Era /\ IsFiniteSet(work[k].laps)
    BY <1>1, <1>len, <2>6, ElementOfSeq DEF TypeOK, Finite
  <2>8. /\ e \in Era /\ e.laps = work[k].laps \cup {l} /\ e.size = work[k].size
        /\ e.closed = work[k].closed
    <3>1. l \in Nat
      BY <1>1 DEF TypeOK
    <3>2. QED
      BY <2>7, <3>1 DEF Era
  <2>9. Cardinality(e.laps) = count[r] + 1
    <3>1. Cardinality(work[k].laps \cup {l}) = Cardinality(work[k].laps) + 1
      BY <2>6, <2>7, FS_AddElement
    <3>2. QED
      BY <2>6, <2>8, <3>1
  <2>10. work[k].size \in Nat
    BY <2>7 DEF Era
  <2> HIDE DEF e, k
  <2>11. /\ Len(work') = Len(work) /\ DOMAIN work' = DOMAIN work
         /\ \A i \in DOMAIN work : work'[i] = IF i = k THEN e ELSE work[i]
    BY <1>1, <2>6, <2>8, ReplaceEra DEF TypeOK
  <2>12. \A i \in DOMAIN work : l \notin work[i].laps
    BY <2>5 DEF Fresh
  <2>13. Cut(work)'
    BY <2>2, <2>5, <2>6, <2>8, <2>11, <2>12 DEF Cut, Dated
  <2>14. Cursor(r, work)'
    <3>1. /\ openEra'[r] = k /\ k # 0 /\ nextEra'[r] = Len(work) + 1
      BY <2>2, <2>5, <2>6 DEF Cursor, k
    <3>2. /\ work'[k] = e /\ k \in DOMAIN work' /\ ~e.closed
          /\ count'[r] = Cardinality(e.laps)
      BY <2>4, <2>6, <2>8, <2>9, <2>11
    <3>3. count'[r] <= e.size
      BY <2>4, <2>6, <2>8, <2>10
    <3>4. QED
      BY <2>11, <3>1, <3>2, <3>3 DEF Cursor
  <2>15. Fresh(r, work)'
    BY <2>2, <2>4, <2>5, <2>8, <2>11 DEF Fresh
  <2>16. Keeps(eras, work)'
    BY <1>len, <2>2, <2>5, <2>6, <2>11 DEF Keeps, Cut
  <2>17. work'[openEra'[r]].laps # {}
    BY <2>2, <2>6, <2>8, <2>11 DEF k
  <2>18. /\ openEra'[r] = k /\ work'[k].size = work[k].size
         /\ pc'[r] = IF count[r] + 1 >= work[k].size THEN "close" ELSE "assign"
    BY <2>2, <2>6, <2>8, <2>11, <2>p DEF k, Fills
  <2>s. pc'[r] = "assign" => count'[r] < work'[openEra'[r]].size
    BY <2>4, <2>10, <2>18
  <2>t. pc'[r] = "close" => count'[r] = work'[openEra'[r]].size
    BY <2>4, <2>6, <2>10, <2>18
  <2>u. openEra'[r] # 0
    BY <2>6, <2>18
  <2>v. pc'[r] \in {"assign", "close"} /\ todo'[r] \subseteq Dated'
    BY <2>2, <2>4, <2>5, <2>p DEF Dated
  <2>19. Reader(r)'
    BY <2>13, <2>14, <2>15, <2>16, <2>17, <2>s, <2>t, <2>u, <2>v DEF Reader
  <2>20. QED
    BY <1>1, <2>p, <2>3, <2>19, OthersKnowNothing
<1>11. ASSUME NEW r \in Refreshers, CloseEra(r) PROVE IInv'
  <2>1. /\ pc'[r] = "assign"
        /\ \A s \in Refreshers \ {r} : pc[s] = "idle" /\ pc'[s] = "idle"
    BY <1>1, <1>11, OthersIdle DEF CloseEra
  <2>2. /\ eras' = eras /\ date' = date /\ measured' = measured
        /\ known' = known /\ todo' = todo
        /\ nextEra' = nextEra /\ writer' = writer
        /\ openEra' = [openEra EXCEPT ![r] = 0]
        /\ pc[r] = "close"
    BY <1>11 DEF CloseEra, store, laps
  <2>3. Cut(eras)' /\ Partial(eras)' /\ Alone'
    BY <2>1, <2>2 DEF Cut, Partial, Dated, Alone
  <2>4. openEra'[r] = 0
    BY <1>1, <2>2 DEF TypeOK
  <2>5. /\ todo[r] \subseteq Dated
        /\ Cut(work) /\ Cursor(r, work) /\ Fresh(r, work) /\ Keeps(eras, work)
    BY <1>11 DEF CloseEra, Reader
  <2> DEFINE k == openEra[r]
             e == [work[k] EXCEPT !.closed = TRUE, !.slices = TRUE,
                     !.summary = Covered(r, k)]
  <2>6. /\ k \in DOMAIN work /\ ~work[k].closed
        /\ count[r] = Cardinality(work[k].laps)
        /\ count[r] = work[k].size
        /\ work' = [work EXCEPT ![k] = e]
    BY <1>11, <2>5 DEF CloseEra, Cursor, Reader
  <2>7. work[k] \in Era /\ count[r] \in Nat
    BY <1>1, <1>len, <2>6, ElementOfSeq DEF TypeOK
  <2>8. Cardinality(work[k].laps) = work[k].size
    BY <2>6, <2>7 DEF Era
  <2>10. /\ e \in Era /\ e.laps = work[k].laps /\ e.size = work[k].size
         /\ e.closed
    BY <2>7 DEF Era, Covered
  <2> HIDE DEF e, k
  <2>11. /\ Len(work') = Len(work) /\ DOMAIN work' = DOMAIN work
         /\ \A i \in DOMAIN work : work'[i] = IF i = k THEN e ELSE work[i]
    BY <1>1, <2>6, <2>10, ReplaceEra DEF TypeOK
  <2>12. \A i \in DOMAIN work' : work'[i].closed
    BY <2>5, <2>6, <2>10, <2>11 DEF Cut
  <2>13. Cut(work)'
    BY <2>2, <2>5, <2>8, <2>10, <2>11, <2>12 DEF Cut, Dated
  <2>14. Cursor(r, work)'
    BY <2>2, <2>4, <2>5, <2>11, <2>12 DEF Cursor
  <2>15. Fresh(r, work)'
    BY <2>2, <2>5, <2>10, <2>11 DEF Fresh
  <2>16. Keeps(eras, work)'
    BY <1>len, <2>2, <2>5, <2>6, <2>11 DEF Keeps, Cut
  <2>17. Reader(r)'
    BY <2>1, <2>2, <2>4, <2>5, <2>13, <2>14, <2>15, <2>16 DEF Reader, Dated
  <2>18. QED
    BY <1>1, <2>1, <2>3, <2>17, OthersKnowNothing
<1>12. ASSUME NEW r \in Refreshers, Commit(r) PROVE IInv'
  <2>1. /\ pc'[r] = "backfill"
        /\ \A s \in Refreshers \ {r} : pc[s] = "idle" /\ pc'[s] = "idle"
    BY <1>1, <1>12, OthersIdle DEF Commit
  <2>2. Alone'
    BY <1>12, <2>1, ErasAssumption DEF Commit, Alone
  <2>3. /\ Cut(work) /\ Cursor(r, work) /\ eras' = work
        /\ date' = date /\ measured' = measured
        /\ openEra[r] # 0 => /\ work[openEra[r]].laps # {}
                             /\ count[r] < work[openEra[r]].size
    BY <1>12, Zenon DEF Commit, laps, Reader
  <2>4. Cut(eras)'
    BY <2>3 DEF Cut, Dated
  <2>5. Partial(eras)'
    <3>1. ASSUME NEW i \in DOMAIN work, ~work[i].closed PROVE i = openEra[r]
      BY <2>3, <3>1 DEF Cut, Cursor
    <3>2. QED
      BY <2>3, <3>1 DEF Partial, Cursor
  <2>6. Reader(r)'
    BY <2>1 DEF Reader
  <2>7. QED
    BY <1>1, <2>1, <2>2, <2>4, <2>5, <2>6, OthersKnowNothing
<1>13. ASSUME NEW r \in Refreshers, Backfill(r) PROVE IInv'
  <2>1. /\ pc'[r] = "idle"
        /\ \A s \in Refreshers \ {r} : pc[s] = "idle" /\ pc'[s] = "idle"
    BY <1>1, <1>13, OthersIdle DEF Backfill, Return
  <2>2. Alone'
    BY <1>13, <2>1 DEF Backfill, Alone
  <2>3. eras' = Sliced(eras) /\ date' = date /\ measured' = measured
    BY <1>13 DEF Backfill, laps
  <2> DEFINE fs == Sliced(eras)
  <2>a. /\ DOMAIN fs = DOMAIN eras /\ Len(fs) = Len(eras)
        /\ \A i \in DOMAIN eras :
             /\ fs[i].size = eras[i].size /\ fs[i].laps = eras[i].laps
             /\ fs[i].closed = eras[i].closed /\ fs[i].summary = eras[i].summary
    BY <1>1, SlicedEras DEF TypeOK
  <2>b. eras' = fs
    BY <2>3
  <2> HIDE DEF fs
  <2>4. Cut(eras)'
    BY <2>3, <2>a, <2>b DEF Cut, Dated
  <2>5. Partial(eras)'
    BY <2>a, <2>b DEF Partial
  <2>6. Reader(r)'
    BY <2>1 DEF Reader
  <2>7. QED
    BY <1>1, <2>1, <2>2, <2>4, <2>5, <2>6, OthersKnowNothing
<1>14. ASSUME NEW r \in Refreshers, pc[r] # "idle", Abandon(r) PROVE IInv'
  <2>1. /\ pc'[r] = "idle"
        /\ \A s \in Refreshers \ {r} : pc[s] = "idle" /\ pc'[s] = "idle"
    BY <1>1, <1>14, OthersIdle DEF Abandon, Return
  <2>2. Alone'
    BY <1>14, <2>1, ErasAssumption DEF Abandon, Return, Alone
  <2>3. Cut(eras)' /\ Partial(eras)'
    BY <1>14 DEF Abandon, Return, store, laps, Cut, Partial, Dated
  <2>4. Reader(r)'
    BY <2>1 DEF Reader
  <2>5. QED
    BY <1>1, <2>1, <2>2, <2>3, <2>4, OthersKnowNothing
<1>15. CASE UNCHANGED vars
  BY <1>1, <1>15
     DEF vars, store, laps, locals, Alone, Cut, Partial, Reader, Cursor,
     Fresh, Keeps, Dated
<1>16. QED
  BY <1>2, <1>3, <1>4, <1>5, <1>6, <1>7, <1>8, <1>9, <1>10, <1>11, <1>12,
     <1>13, <1>14, <1>15, Raising DEF Next, RefreshStep, Fail

\* What the committed tables promise follows from the invariant.
LEMMA InvariantImplies == IInv => ErasFilled
BY DEF IInv, Cut, Partial, ErasFilled

\* The invariant holds for ever, one refresh at a time.
LEMMA Invariant == ASSUME ~Overlap PROVE Spec => []IInv
<1>1. IInv /\ [Next]_vars => IInv'
  BY NextInductive
<1>2. QED
  BY <1>1, InitInductive, PTL DEF Spec

\* Closed eras are full, the open one is last, not empty and not full.
THEOREM ClosedMeansFull == ASSUME ~Overlap PROVE Spec => []ErasFilled
BY Invariant, InvariantImplies, PTL

\* Only the two commits write an era, and neither touches a closed one but
\* for its slices.
LEMMA StepKeepsClosed ==
  ASSUME IInv, [Next]_vars, NEW i \in DOMAIN eras, eras[i].closed
  PROVE  /\ i \in DOMAIN eras'
         /\ eras'[i] = [eras[i] EXCEPT !.slices = eras'[i].slices]
         /\ eras[i].slices => eras'[i].slices
<1>1. eras[i] \in Era /\ DOMAIN eras = 1..Len(eras) /\ Len(eras) \in Nat
  BY ElementOfSeq, LenProperties DEF IInv, Typed, TypeOK
<1>2. CASE eras' = eras
  BY <1>1, <1>2 DEF Era
<1>3. ASSUME NEW r \in Refreshers, Commit(r) PROVE eras' = work /\ Keeps(eras, work)
  BY <1>3 DEF Commit, IInv, Reader
<1>4. ASSUME Keeps(eras, work), eras' = work
      PROVE  i \in DOMAIN eras' /\ eras'[i] = eras[i]
  <2>1. DOMAIN work = 1..Len(work) /\ Len(work) \in Nat
    BY LenProperties DEF IInv, Typed, TypeOK
  <2>2. QED
    BY <1>1, <1>4, <2>1 DEF Keeps
<1>5. ASSUME NEW r \in Refreshers, Backfill(r) PROVE eras' = Sliced(eras)
  BY <1>5 DEF Backfill
<1>6. ASSUME eras' = Sliced(eras)
      PROVE  /\ i \in DOMAIN eras'
             /\ eras'[i] = [eras[i] EXCEPT !.slices = TRUE]
  BY <1>6 DEF Sliced
<1>7. QED
  <2>1. \/ eras' = eras
        \/ Keeps(eras, work) /\ eras' = work
        \/ eras' = Sliced(eras)
    BY <1>3, <1>5
       DEF Next, RefreshStep, vars, store, laps, StoreLap, MeasureLap, SetEraSize,
       ReadSetting, ReadDated, ReadAssigned, ReadRows, Begin, OpenEra, PlaceLap,
       CloseEra, Raise, Fail, Abandon
  <2>2. CASE Keeps(eras, work) /\ eras' = work
    BY <1>1, <1>4, <2>2 DEF Era
  <2>3. CASE eras' = Sliced(eras)
    BY <1>1, <1>6, <2>3 DEF Era
  <2>4. QED
    BY <1>2, <2>1, <2>2, <2>3

\* A closed era is never re-cut, re-sized or re-summarised by any later step.
THEOREM FrozenStaysFrozen == ASSUME ~Overlap PROVE Spec => ClosedErasFrozen
<1>1. IInv /\ [Next]_vars =>
        [\A i \in DOMAIN eras : eras[i].closed =>
           /\ i \in DOMAIN eras'
           /\ eras'[i] = [eras[i] EXCEPT !.slices = eras'[i].slices]
           /\ eras[i].slices => eras'[i].slices]_vars
  BY StepKeepsClosed
<1>2. QED
  BY <1>1, Invariant, PTL DEF Spec, ClosedErasFrozen

-----------------------------------------------------------------------------
(* Eras implements EraBlocks.                                              *)

\* The laps a transaction has put into era i so far.
Batch(i) == work[i].laps \ InSome(eras)

\* How far a transaction has got: eras only grow, those it opened have the
\* size it read, and it has placed laps in order, all before those to come.
Walk(r) ==
  /\ Len(eras) <= Len(work)
  /\ \A i \in DOMAIN eras :
       work[i].size = eras[i].size /\ eras[i].laps \subseteq work[i].laps
  /\ \A i \in DOMAIN work \ DOMAIN eras : work[i].size = sizeRead[r]
  /\ \A i, j \in DOMAIN work : i < j =>
       \A a \in Batch(i), b \in Batch(j) : Before(a, b)
  /\ \A i \in DOMAIN work : \A a \in Batch(i), b \in todo[r] : Before(a, b)

Walks == \A r \in Refreshers : pc[r] \in {"assign", "close"} => Walk(r)

LEMMA WalksInit == Init => Walks
BY DEF Init, Walks

\* A stored lap gets the next number and comes before no lap stored already.
LEMMA StoreKeepsWalk ==
  ASSUME IInv, NEW r \in Refreshers, pc[r] \in {"assign", "close"}, Walk(r),
         NEW d \in Dates \cup {NoDate}, StoreLap(d)
  PROVE  Walk(r)'
<1>1. /\ eras' = eras /\ work' = work /\ todo' = todo /\ sizeRead' = sizeRead
      /\ date' = Append(date, d)
  BY DEF StoreLap, locals
<1>2. date \in Seq(Dates \cup {NoDate}) /\ Len(date) \in Nat
  BY LenProperties DEF IInv, Typed, TypeOK
<1>3. \A l \in 1..Len(date) : date'[l] = date[l]
  BY <1>1, <1>2, AppendProperties
<1>4. todo[r] \subseteq 1..Len(date)
  BY DatedStored DEF IInv, Typed, Reader
<1>5. \A i \in DOMAIN work : Batch(i) \subseteq 1..Len(date)
  BY DatedStored DEF IInv, Typed, Reader, Cut, Batch
<1>6. \A i : Batch(i)' = Batch(i)
  BY <1>1 DEF Batch, InSome
<1>7. \A a, b \in 1..Len(date) : Before(a, b) => Before(a, b)'
  BY <1>3 DEF Before
<1>8. \A i, j \in DOMAIN work : i < j =>
        \A a \in Batch(i), b \in Batch(j) : Before(a, b)'
  BY <1>5, <1>7 DEF Walk
<1>9. \A i \in DOMAIN work : \A a \in Batch(i), b \in todo[r] : Before(a, b)'
  BY <1>4, <1>5, <1>7 DEF Walk
<1>10. QED
  BY <1>1, <1>6, <1>8, <1>9 DEF Walk

\* The transaction starts from the committed eras, with nothing placed.
LEMMA BeginStartsWalk ==
  ASSUME IInv, NEW r \in Refreshers, Begin(r), todo[r] # {}
  PROVE  Walk(r)'
<1>1. work' = eras /\ eras' = eras
  BY DEF Begin, store
<1>2. \A i \in DOMAIN eras : Batch(i)' = {}
  BY <1>1 DEF Batch, InSome
<1>3. Len(eras) \in Nat
  BY LenProperties DEF IInv, Typed, TypeOK
<1>4. QED
  BY <1>1, <1>2, <1>3 DEF Walk

\* A new era is empty and has the size the refresh read.
LEMMA OpenKeepsWalk ==
  ASSUME IInv, NEW r \in Refreshers, Walk(r), OpenEra(r)
  PROVE  Walk(r)'
<1> DEFINE e == NewEra(sizeRead[r])
<1>1. /\ work' = Append(work, e) /\ eras' = eras /\ date' = date
      /\ todo' = todo /\ sizeRead' = sizeRead
  BY DEF OpenEra, store, laps
<1>2. e \in Era /\ e.size = sizeRead[r] /\ e.laps = {}
  BY ErasAssumption DEF NewEra, Era, IInv, Typed, TypeOK
<1> HIDE DEF e
<1>3. /\ work \in Seq(Era) /\ DOMAIN work = 1..Len(work) /\ Len(work) \in Nat
      /\ DOMAIN eras = 1..Len(eras) /\ Len(eras) \in Nat
  BY LenProperties DEF IInv, Typed, TypeOK
<1>k. PICK k : k = Len(work) + 1
  OBVIOUS
<1>4. /\ Len(work') = k /\ DOMAIN work' = 1..k /\ work'[k] = e
      /\ \A i \in DOMAIN work : work'[i] = work[i]
  BY <1>1, <1>2, <1>3, <1>k, AppendEra
<1>5. \A i \in DOMAIN work' : i \in DOMAIN work \/ i = k
  BY <1>3, <1>4, <1>k
<1>6. \A i \in DOMAIN work : Batch(i)' = Batch(i)
  BY <1>1, <1>4 DEF Batch, InSome
<1>7. Batch(k)' = {}
  BY <1>2, <1>4 DEF Batch
<1>8. Len(eras) <= Len(work) /\ DOMAIN eras \subseteq DOMAIN work /\ k \notin DOMAIN work
  BY <1>3, <1>k DEF Walk
<1>9. \A a, b : Before(a, b)' <=> Before(a, b)
  BY <1>1 DEF Before
<1>10. /\ Len(eras') <= Len(work')
       /\ \A i \in DOMAIN eras' :
            work'[i].size = eras'[i].size /\ eras'[i].laps \subseteq work'[i].laps
       /\ \A i \in DOMAIN work' \ DOMAIN eras' : work'[i].size = sizeRead'[r]
  BY <1>1, <1>2, <1>3, <1>4, <1>5, <1>8, <1>k DEF Walk
<1>11. \A i, j \in DOMAIN work' : i < j =>
         \A a \in Batch(i)', b \in Batch(j)' : Before(a, b)'
  BY <1>5, <1>6, <1>7, <1>9 DEF Walk
<1>12. \A i \in DOMAIN work' : \A a \in Batch(i)', b \in todo'[r] : Before(a, b)'
  BY <1>1, <1>5, <1>6, <1>7, <1>9 DEF Walk
<1>13. QED
  BY <1>10, <1>11, <1>12 DEF Walk

\* The lap placed is the first of those left, and it goes into the last era.
LEMMA PlaceKeepsWalk ==
  ASSUME IInv, NEW r \in Refreshers, Walk(r), NEW l \in todo[r], PlaceLap(r, l)
  PROVE  Walk(r)'
<1>k. PICK k : k = openEra[r]
  OBVIOUS
<1> DEFINE e == [work[k] EXCEPT !.laps = @ \cup {l}]
<1>1. /\ work' = [work EXCEPT ![k] = e] /\ eras' = eras /\ date' = date
      /\ sizeRead' = sizeRead
      /\ \A b \in todo[r] \ {l} : Before(l, b)
  BY <1>k DEF PlaceLap, store, laps
<1>2. todo'[r] = todo[r] \ {l}
  BY DEF PlaceLap, IInv, Typed, TypeOK
<1>3. Cut(work) /\ Cursor(r, work) /\ k # 0
  BY <1>k DEF PlaceLap, IInv, Reader
<1>4. k \in DOMAIN work /\ k = Len(work)
  BY <1>3, <1>k DEF Cursor, Cut
<1>5. work \in Seq(Era) /\ DOMAIN work = 1..Len(work) /\ Len(work) \in Nat
  BY LenProperties DEF IInv, Typed, TypeOK
<1>6. work[k] \in Era /\ l \in Nat
  BY <1>4, <1>5, ElementOfSeq DEF IInv, Typed, TypeOK
<1>7. e \in Era /\ e.laps = work[k].laps \cup {l} /\ e.size = work[k].size
  BY <1>6 DEF Era
<1> HIDE DEF e
<1>8. /\ Len(work') = Len(work) /\ DOMAIN work' = DOMAIN work
      /\ \A i \in DOMAIN work : work'[i] = IF i = k THEN e ELSE work[i]
  BY <1>1, <1>5, <1>7, ReplaceEra
<1>9. /\ \A i \in DOMAIN work : i # k => Batch(i)' = Batch(i)
      /\ Batch(k)' \subseteq Batch(k) \cup {l}
  BY <1>1, <1>4, <1>7, <1>8 DEF Batch, InSome
<1>10. \A a, b : Before(a, b)' <=> Before(a, b)
  BY <1>1 DEF Before
<1>11. /\ Len(eras') <= Len(work')
       /\ \A i \in DOMAIN eras' :
            work'[i].size = eras'[i].size /\ eras'[i].laps \subseteq work'[i].laps
       /\ \A i \in DOMAIN work' \ DOMAIN eras' : work'[i].size = sizeRead'[r]
  <2>1. Len(eras) \in Nat /\ DOMAIN eras = 1..Len(eras)
    BY LenProperties DEF IInv, Typed, TypeOK
  <2>2. DOMAIN eras \subseteq DOMAIN work
    BY <1>5, <2>1 DEF Walk
  <2>3. QED
    BY <1>1, <1>7, <1>8, <2>2 DEF Walk
<1>12. ASSUME NEW i \in DOMAIN work', NEW j \in DOMAIN work', i < j,
              NEW a \in Batch(i)', NEW b \in Batch(j)'
       PROVE  Before(a, b)'
  <2>1. i \in DOMAIN work /\ j \in DOMAIN work /\ i # k
    BY <1>4, <1>5, <1>8, <1>12
  <2>2. a \in Batch(i) /\ b \in Batch(j) \cup {l}
    BY <1>9, <2>1
  <2>3. QED
    BY <1>10, <1>12, <2>1, <2>2 DEF Walk
<1>13. ASSUME NEW i \in DOMAIN work', NEW a \in Batch(i)', NEW b \in todo'[r]
       PROVE  Before(a, b)'
  <2>1. i \in DOMAIN work /\ a \in Batch(i) \cup {l} /\ b \in todo[r] \ {l}
    BY <1>2, <1>8, <1>9
  <2>2. QED
    BY <1>1, <1>10, <2>1 DEF Walk
<1>14. QED
  BY <1>11, <1>12, <1>13 DEF Walk

\* Closing an era moves no lap.
LEMMA CloseKeepsWalk ==
  ASSUME IInv, NEW r \in Refreshers, Walk(r), CloseEra(r)
  PROVE  Walk(r)'
<1> DEFINE k == openEra[r]
           e == [work[k] EXCEPT !.closed = TRUE, !.slices = TRUE,
                   !.summary = Covered(r, k)]
<1>1. /\ work' = [work EXCEPT ![k] = e] /\ eras' = eras /\ date' = date
      /\ sizeRead' = sizeRead /\ todo' = todo
  BY DEF CloseEra, store, laps
<1>2. Cursor(r, work) /\ k # 0
  BY DEF CloseEra, IInv, Reader
<1>3. k \in DOMAIN work
  BY <1>2 DEF Cursor
<1>4. work \in Seq(Era) /\ DOMAIN work = 1..Len(work) /\ Len(work) \in Nat
  BY LenProperties DEF IInv, Typed, TypeOK
<1>5. work[k] \in Era
  BY <1>3, <1>4, ElementOfSeq
<1>6. e \in Era /\ e.laps = work[k].laps /\ e.size = work[k].size
  BY <1>5 DEF Era, Covered
<1> HIDE DEF e, k
<1>7. /\ Len(work') = Len(work) /\ DOMAIN work' = DOMAIN work
      /\ \A i \in DOMAIN work : work'[i] = IF i = k THEN e ELSE work[i]
  BY <1>1, <1>4, <1>6, ReplaceEra
<1>8. \A i \in DOMAIN work : work'[i].laps = work[i].laps /\ work'[i].size = work[i].size
  BY <1>6, <1>7
<1>9. \A i \in DOMAIN work : Batch(i)' = Batch(i)
  BY <1>1, <1>8 DEF Batch, InSome
<1>10. \A a, b : Before(a, b)' <=> Before(a, b)
  BY <1>1 DEF Before
<1>11. DOMAIN eras \subseteq DOMAIN work
  <2>1. Len(eras) \in Nat /\ DOMAIN eras = 1..Len(eras)
    BY LenProperties DEF IInv, Typed, TypeOK
  <2>2. QED
    BY <1>4, <2>1 DEF Walk
<1>12. QED
  BY <1>1, <1>7, <1>8, <1>9, <1>10, <1>11 DEF Walk

\* Every step of the transaction keeps the walk.
LEMMA WalksNext == ~Overlap /\ IInv /\ Walks /\ [Next]_vars => Walks'
<1> SUFFICES ASSUME ~Overlap, IInv, Walks, [Next]_vars PROVE Walks'
  OBVIOUS
<1>1. Alone /\ pc \in [Refreshers -> {"idle", "dated", "assigned", "rows", "begin",
                                      "assign", "close", "backfill"}]
  BY DEF IInv, Typed, TypeOK
<1>2. ASSUME NEW d \in Dates \cup {NoDate}, StoreLap(d) PROVE Walks'
  <2>1. pc' = pc
    BY <1>2 DEF StoreLap
  <2>2. QED
    BY <1>2, <2>1, StoreKeepsWalk DEF Walks
<1>3. ASSUME eras' = eras, work' = work, todo' = todo, sizeRead' = sizeRead,
             date' = date, pc' = pc
      PROVE  Walks'
  BY <1>3 DEF Walks, Walk, Batch, InSome, Before
<1>4. ASSUME NEW l \in DOMAIN date, MeasureLap(l) PROVE Walks'
  <2>1. /\ eras' = eras /\ work' = work /\ todo' = todo /\ sizeRead' = sizeRead
        /\ date' = date /\ pc' = pc
    BY <1>4 DEF MeasureLap, locals
  <2>2. QED
    BY <1>3, <2>1
<1>5. ASSUME NEW n \in Sizes \cup {0}, SetEraSize(n) PROVE Walks'
  <2>1. /\ eras' = eras /\ work' = work /\ todo' = todo /\ sizeRead' = sizeRead
        /\ date' = date /\ pc' = pc
    BY <1>5 DEF SetEraSize, laps, locals
  <2>2. QED
    BY <1>3, <2>1
<1>6. ASSUME NEW r \in Refreshers, NEW p \in {"idle", "dated", "assigned", "rows",
                                             "begin", "backfill"},
             pc' = [pc EXCEPT ![r] = p], \A s \in Refreshers \ {r} : pc[s] = "idle"
      PROVE  Walks'
  BY <1>1, <1>6 DEF Walks
<1>7. ASSUME NEW r \in Refreshers, ReadSetting(r) PROVE Walks'
  BY <1>6, <1>7 DEF ReadSetting
<1>8. ASSUME NEW r \in Refreshers,
             \/ ReadDated(r) \/ ReadAssigned(r) \/ ReadRows(r)
             \/ Commit(r) \/ Backfill(r)
             \/ pc[r] # "idle" /\ Abandon(r)
      PROVE  Walks'
  <2>1. pc[r] # "idle"
    BY <1>8 DEF ReadDated, ReadAssigned, ReadRows, Commit, Backfill,
       Abandon, Return
  <2>2. \A s \in Refreshers \ {r} : pc[s] = "idle"
    BY <1>1, <2>1 DEF Alone
  <2>3. PICK p \in {"idle", "dated", "assigned", "rows", "begin", "backfill"} :
          pc' = [pc EXCEPT ![r] = p]
    BY <1>8 DEF ReadDated, ReadAssigned, ReadRows, Commit, Backfill,
       Abandon, Return
  <2>4. QED
    BY <1>6, <2>2, <2>3
<1>9. ASSUME NEW r \in Refreshers, pc[r] # "idle", Walk(r)',
             NEW p, pc' = [pc EXCEPT ![r] = p]
      PROVE  Walks'
  <2>1. \A s \in Refreshers \ {r} : pc'[s] = "idle"
    BY <1>1, <1>9 DEF Alone
  <2>2. QED
    BY <1>9, <2>1 DEF Walks
<1>10. ASSUME NEW r \in Refreshers, Begin(r) PROVE Walks'
  <2>1. pc[r] = "begin" /\ \A s \in Refreshers \ {r} : pc[s] = "idle"
    BY <1>1, <1>10 DEF Begin, Alone
  <2>2. CASE todo[r] = {}
    BY <1>6, <1>10, <2>1, <2>2 DEF Begin
  <2>3. CASE todo[r] # {}
    <3>1. pc' = [pc EXCEPT ![r] = "assign"]
      BY <1>10, <2>3 DEF Begin
    <3>2. \A s \in Refreshers \ {r} : pc'[s] = "idle"
      BY <1>1, <2>1, <3>1
    <3>3. Walk(r)'
      BY <1>10, <2>3, BeginStartsWalk
    <3>4. QED
      BY <3>2, <3>3 DEF Walks
  <2>4. QED
    BY <2>2, <2>3
<1>11. ASSUME NEW r \in Refreshers, OpenEra(r) PROVE Walks'
  <2>1. pc[r] = "assign" /\ \E p : pc' = [pc EXCEPT ![r] = p]
    BY <1>11, <1>1 DEF OpenEra
  <2>2. Walk(r)'
    BY <1>11, <2>1, OpenKeepsWalk DEF Walks
  <2>3. QED
    BY <1>9, <2>1, <2>2
<1>12. ASSUME NEW r \in Refreshers, NEW l \in todo[r], PlaceLap(r, l) PROVE Walks'
  <2>1. pc[r] = "assign" /\ \E p : pc' = [pc EXCEPT ![r] = p]
    BY <1>12 DEF PlaceLap
  <2>2. Walk(r)'
    BY <1>12, <2>1, PlaceKeepsWalk DEF Walks
  <2>3. QED
    BY <1>9, <2>1, <2>2
<1>13. ASSUME NEW r \in Refreshers, CloseEra(r) PROVE Walks'
  <2>1. pc[r] = "close" /\ \E p : pc' = [pc EXCEPT ![r] = p]
    BY <1>13 DEF CloseEra
  <2>2. Walk(r)'
    BY <1>13, <2>1, CloseKeepsWalk DEF Walks
  <2>3. QED
    BY <1>9, <2>1, <2>2
<1>14. CASE UNCHANGED vars
  BY <1>3, <1>14 DEF vars, store, laps, locals
<1>15. QED
  BY <1>2, <1>4, <1>5, <1>7, <1>8, <1>10, <1>11, <1>12, <1>13, <1>14, Raising
     DEF Next, RefreshStep, Fail

\* EraBlocks counts laps as Eras does.
LEMMA SameCardinality == \A S : Blocks!Cardinality(S) = Cardinality(S)
BY DEF Blocks!Cardinality, Cardinality

\* Hiding the summaries changes no lap, size or status.
LEMMA CutsFacts ==
  ASSUME NEW es \in Seq(Era)
  PROVE  /\ DOMAIN Cuts(es) = DOMAIN es /\ Len(Cuts(es)) = Len(es)
         /\ \A i \in DOMAIN es :
              /\ Cuts(es)[i] = [size |-> es[i].size, laps |-> es[i].laps,
                                closed |-> es[i].closed]
              /\ Cuts(es)[i].size = es[i].size
              /\ Cuts(es)[i].laps = es[i].laps
              /\ Cuts(es)[i].closed = es[i].closed
<1>1. DOMAIN es = 1..Len(es) /\ Len(es) \in Nat
  BY LenProperties
<1>2. Len(Cuts(es)) = Len(es)
  BY <1>1 DEF Cuts
<1>3. QED
  BY <1>2 DEF Cuts

\* Eras that are well cut and whose open era is partly filled are well cut
\* blocks: a closed era is not empty because no era has size zero.
LEMMA CutsWellCut ==
  ASSUME NEW es \in Seq(Era), Finite(es), Cut(es), Partial(es)
  PROVE  Blocks!WellCut(Cuts(es))
<1>1. ASSUME NEW i \in DOMAIN es
      PROVE  /\ es[i].closed <=> Cardinality(es[i].laps) = es[i].size
             /\ es[i].laps # {} /\ Cardinality(es[i].laps) <= es[i].size
             /\ ~es[i].closed => i = Len(es)
  <2>1. es[i] \in Era
    BY LenProperties, ElementOfSeq
  <2>2. es[i].size \in Nat \ {0} /\ es[i].closed \in BOOLEAN
    BY <2>1 DEF Era
  <2>3. Cardinality(es[i].laps) \in Nat
    BY FS_CardinalityType DEF Finite
  <2>4. Cardinality({}) = 0
    BY FS_EmptySet
  <2>5. CASE es[i].closed
    <3>1. Cardinality(es[i].laps) = es[i].size
      BY <2>5 DEF Cut
    <3>2. es[i].laps # {}
      BY <2>2, <2>4, <3>1
    <3>3. QED
      BY <2>2, <2>5, <3>1, <3>2
  <2>6. CASE ~es[i].closed
    <3>1. es[i].laps # {} /\ Cardinality(es[i].laps) < es[i].size /\ i = Len(es)
      BY <2>6 DEF Cut, Partial
    <3>2. QED
      BY <2>2, <2>3, <2>6, <3>1
  <2>7. QED
    BY <2>5, <2>6
<1>2. \A i, j \in DOMAIN es : i # j => es[i].laps \cap es[j].laps = {}
  BY DEF Cut
<1> DEFINE bs == Cuts(es)
<1>3. /\ DOMAIN bs = DOMAIN es /\ Len(bs) = Len(es)
      /\ \A i \in DOMAIN es :
           bs[i].size = es[i].size /\ bs[i].laps = es[i].laps
           /\ bs[i].closed = es[i].closed
  BY CutsFacts
<1> HIDE DEF bs
<1>4. ASSUME NEW i \in DOMAIN bs
      PROVE  /\ bs[i].closed <=> Cardinality(bs[i].laps) = bs[i].size
             /\ bs[i].laps # {} /\ Cardinality(bs[i].laps) <= bs[i].size
             /\ ~bs[i].closed => i = Len(bs)
  <2>1. i \in DOMAIN es /\ bs[i].size = es[i].size /\ bs[i].laps = es[i].laps
        /\ bs[i].closed = es[i].closed
    BY <1>3
  <2>2. QED
    BY <1>1, <1>3, <2>1, Zenon
<1>5. \A i, j \in DOMAIN bs : i # j => bs[i].laps \cap bs[j].laps = {}
  BY <1>2, <1>3
<1>6. Blocks!WellCut(bs)
  BY <1>4, <1>5, SameCardinality, Zenon DEF Blocks!WellCut
<1>7. QED
  BY <1>6 DEF bs

\* The legacy era is the block EraBlocks starts from.
LEMMA BlocksInit == Init => Blocks!Init
<1> SUFFICES ASSUME Init PROVE Blocks!Init
  OBVIOUS
<1>1. CASE LegacyDates = << >>
  <2>1. eras = << >>
    BY <1>1 DEF Init
  <2>2. Cuts(eras) = << >>
    BY <2>1 DEF Cuts
  <2>3. QED
    BY <1>1, <2>2 DEF Init, Blocks!Init
<1>2. CASE LegacyDates # << >>
  <2>1. eras = << [size |-> Len(LegacyDates), laps |-> DOMAIN LegacyDates,
                   closed |-> TRUE, summary |-> DOMAIN LegacyDates,
                   slices |-> FALSE] >>
    BY <1>2 DEF Init
  <2> DEFINE b == [size |-> Len(LegacyDates), laps |-> DOMAIN LegacyDates,
                   closed |-> TRUE]
  <2>2. Cuts(eras) = <<b>>
    <3>1. DOMAIN eras = {1} /\ eras[1].size = Len(LegacyDates)
          /\ eras[1].laps = DOMAIN LegacyDates /\ eras[1].closed = TRUE
      BY <2>1
    <3>2. Cuts(eras) = [i \in {1} |-> b]
      BY <3>1 DEF Cuts
    <3> HIDE DEF b
    <3>3. [i \in {1} |-> b] = <<b>>
      OBVIOUS
    <3>4. QED
      BY <3>2, <3>3
  <2>3. QED
    BY <1>2, <2>2 DEF Init, Cuts, Blocks!Init
<1>3. QED
  BY <1>1, <1>2

\* A commit places what the transaction walked: a batch of laps no era held.
LEMMA CommitExtends ==
  ASSUME IInv, IInv', Walks, NEW r \in Refreshers, Commit(r)
  PROVE  Blocks!Next
<1> DEFINE batch == InSome(work) \ InSome(eras)
           n == sizeRead[r]
<1>1. /\ eras' = work /\ date' = date /\ pc[r] = "assign"
  BY DEF Commit, laps
<1>2. Cut(work) /\ Cut(eras) /\ Walk(r)
  BY <1>1 DEF IInv, Reader, Walks
<1>3. /\ work \in Seq(Era) /\ DOMAIN work = 1..Len(work) /\ Len(work) \in Nat
      /\ eras \in Seq(Era) /\ DOMAIN eras = 1..Len(eras) /\ Len(eras) \in Nat
      /\ n \in Sizes
  BY LenProperties DEF IInv, Typed, TypeOK
<1>4. Keeps(eras, work)
  BY <1>1 DEF IInv, Reader
<1>5. Finite(work) /\ Partial(work)
  BY <1>1 DEF IInv, Typed, Partial
<1>6. Len(eras) <= Len(work) /\ DOMAIN eras \subseteq DOMAIN work
  BY <1>2, <1>3 DEF Walk
<1>7. InSome(eras) \subseteq InSome(work)
  BY <1>2, <1>6 DEF Walk, InSome
<1>8. batch \subseteq Dated \ InSome(eras)
  BY <1>2 DEF Cut, InSome
<1>9. \A i \in DOMAIN work : work[i].laps \cap batch \subseteq Batch(i)
  BY DEF Batch
<1> DEFINE bs == Cuts(eras)
           cs == Cuts(work)
<1>10. /\ DOMAIN bs = DOMAIN eras /\ Len(bs) = Len(eras)
       /\ \A i \in DOMAIN eras :
            /\ bs[i] = [size |-> eras[i].size, laps |-> eras[i].laps,
                        closed |-> eras[i].closed]
            /\ bs[i].size = eras[i].size /\ bs[i].laps = eras[i].laps
            /\ bs[i].closed = eras[i].closed
       /\ DOMAIN cs = DOMAIN work /\ Len(cs) = Len(work)
       /\ \A i \in DOMAIN work :
            /\ cs[i] = [size |-> work[i].size, laps |-> work[i].laps,
                        closed |-> work[i].closed]
            /\ cs[i].size = work[i].size /\ cs[i].laps = work[i].laps
            /\ cs[i].closed = work[i].closed
  BY <1>3, CutsFacts
<1>11. Blocks!WellCut(cs)
  BY <1>2, <1>3, <1>5, CutsWellCut
<1>12. Blocks!Placed = InSome(eras) /\ Blocks!Placed' = InSome(work)
  <2>1. InSome(eras) = UNION {bs[i].laps : i \in DOMAIN bs}
    BY <1>10 DEF InSome
  <2>2. InSome(work) = UNION {cs[i].laps : i \in DOMAIN cs}
    BY <1>10 DEF InSome
  <2>3. QED
    BY <1>1, <2>1, <2>2 DEF Blocks!Placed
<1>13. Blocks!Dated = Dated /\ \A a, b : Blocks!Before(a, b) <=> Before(a, b)
  BY DEF Blocks!Dated, Dated, Blocks!Before, Before
<1>14. ASSUME NEW i \in DOMAIN bs PROVE Blocks!Continues(bs[i], cs[i])
  <2>1. i \in DOMAIN eras /\ i \in DOMAIN work
    BY <1>6, <1>10
  <2>2. eras[i].closed => work[i] = eras[i]
    BY <1>4, <2>1 DEF Keeps
  <2>3. work[i].size = eras[i].size /\ eras[i].laps \subseteq work[i].laps
    BY <1>2, <2>1 DEF Walk
  <2>4. bs[i].closed => cs[i] = bs[i]
    BY <1>10, <2>1, <2>2
  <2>5. QED
    BY <1>10, <2>1, <2>3, <2>4 DEF Blocks!Continues
<1>15. \A i \in DOMAIN cs \ DOMAIN bs : cs[i].size = n
  BY <1>2, <1>10 DEF Walk
<1>16. \A i, j \in DOMAIN cs : i < j =>
         \A a \in cs[i].laps \cap batch, b \in cs[j].laps \cap batch : Before(a, b)
  BY <1>2, <1>9, <1>10 DEF Walk
<1>17. Blocks!Placed' = Blocks!Placed \cup batch
  BY <1>7, <1>12
<1>18. Len(cs) >= Len(bs)
  BY <1>6, <1>10, <1>3
<1>19. bs = Cuts(eras) /\ cs = Cuts(eras)'
  BY <1>1 DEF Cuts
<1> HIDE DEF batch, n, bs, cs
<1>20. PICK b, m : b = batch /\ m = n
  OBVIOUS
<1>21. Blocks!Extend(b, m)
  <2>1. \A i \in DOMAIN Cuts(eras) :
          Blocks!Continues(Cuts(eras)[i], (Cuts(eras)')[i])
    BY <1>14, <1>19
  <2>2. \A i \in DOMAIN Cuts(eras)' \ DOMAIN Cuts(eras) : (Cuts(eras)')[i].size = m
    BY <1>15, <1>19, <1>20
  <2>3. \A i, j \in DOMAIN Cuts(eras)' : i < j =>
          \A a \in (Cuts(eras)')[i].laps \cap b, c \in (Cuts(eras)')[j].laps \cap b :
            Blocks!Before(a, c)
    BY <1>13, <1>16, <1>19, <1>20
  <2>4. Blocks!Placed' = Blocks!Placed \cup b
    BY <1>17, <1>20
  <2>5. Blocks!WellCut(Cuts(eras)') /\ Len(Cuts(eras)') >= Len(Cuts(eras))
    BY <1>11, <1>18, <1>19
  <2>6. QED
    BY <1>1, <2>1, <2>2, <2>3, <2>4, <2>5, Zenon DEF Blocks!Extend
<1>22. b \in SUBSET (Blocks!Dated \ Blocks!Placed) /\ m \in Sizes
  BY <1>3, <1>8, <1>12, <1>13, <1>20
<1>23. QED
  BY <1>21, <1>22 DEF Blocks!Next

\* Every other step of Eras stores a lap or leaves dates and blocks alone.
LEMMA BlocksNext ==
  IInv /\ IInv' /\ Walks /\ [Next]_vars =>
    [Blocks!Next]_<<date, Cuts(eras)>>
<1> SUFFICES ASSUME IInv, IInv', Walks, [Next]_vars,
                    <<date, Cuts(eras)>>' # <<date, Cuts(eras)>>
             PROVE  Blocks!Next
  OBVIOUS
<1>1. ASSUME NEW d \in Dates \cup {NoDate}, StoreLap(d) PROVE Blocks!Next
  <2>1. date' = Append(date, d) /\ eras' = eras
    BY <1>1 DEF StoreLap
  <2>2. Blocks!Import(d)
    BY <2>1 DEF Blocks!Import
  <2>3. QED
    BY <2>2 DEF Blocks!Next
<1>2. ASSUME NEW r \in Refreshers, Commit(r) PROVE Blocks!Next
  BY <1>2, CommitExtends
<1>3. ASSUME NEW r \in Refreshers, Backfill(r) PROVE FALSE
  <2>1. eras' = Sliced(eras) /\ date' = date /\ eras \in Seq(Era)
    BY <1>3 DEF Backfill, laps, IInv, Typed, TypeOK
  <2> DEFINE fs == Sliced(eras)
  <2>2. /\ DOMAIN fs = DOMAIN eras
        /\ \A i \in DOMAIN eras :
             /\ fs[i].size = eras[i].size /\ fs[i].laps = eras[i].laps
             /\ fs[i].closed = eras[i].closed
    BY <2>1, SlicedEras
  <2> HIDE DEF fs
  <2>3. Cuts(fs) = Cuts(eras)
    BY <2>2 DEF Cuts
  <2>4. Cuts(eras)' = Cuts(fs)
    BY <2>1 DEF Cuts, fs
  <2>5. QED
    BY <2>1, <2>3, <2>4
<1>4. ASSUME eras' = eras, date' = date PROVE FALSE
  BY <1>4 DEF Cuts
<1>5. QED
  BY <1>1, <1>2, <1>3, <1>4
     DEF Next, RefreshStep, vars, store, laps, MeasureLap, SetEraSize, ReadSetting,
     ReadDated, ReadAssigned, ReadRows, Begin, OpenEra, PlaceLap, CloseEra,
     Raise, Fail, Abandon

\* The committed tables are an append-only partition of the dated laps, cut
\* in (lap_date, lap_pk) order, whatever a refresh does between its reads and
\* its commit: one refresh at a time, Eras implements EraBlocks.
THEOREM ImplementsBlocks == ASSUME ~Overlap PROVE Spec => AppendOnlyBlocks
<1>1. IInv /\ [Next]_vars => IInv'
  BY NextInductive
<1>2. IInv /\ Walks /\ [Next]_vars => Walks'
  BY WalksNext
<1>3. IInv /\ IInv' /\ Walks /\ [Next]_vars =>
        [Blocks!Next]_<<date, Cuts(eras)>>
  BY BlocksNext
<1>4. QED
  BY <1>1, <1>2, <1>3, InitInductive, WalksInit, BlocksInit, PTL
     DEF Spec, AppendOnlyBlocks, Blocks!Spec

=============================================================================
