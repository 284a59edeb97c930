----------------------------- MODULE SyncProofs -----------------------------
(***************************************************************************)
(* Proofs about Sync for every set of workers, accounts and laps, every    *)
(* page size and cap, and any number of changes, syncs and faults.         *)
(*                                                                         *)
(* Sound says what a worker carries from step to step: the account and the *)
(* driver it started with, and laps of that driver and of the cohort it is *)
(* at.  Every safety property of Sync rests on it.                         *)
(***************************************************************************)
EXTENDS Sync, FiniteSetTheorems, SequenceTheorems, WellFoundedInduction, TLAPS

\* Whose laps an account reads.
Owned(u) == IF AuthOn THEN DriverOf[u] ELSE EnvDriver

Handling == {"fetch", "import", "insert", "measure"}
Listing == {"page", "lap"} \cup Handling
Syncing == {"discover", "cohort", "complete"} \cup Listing

Jobs == [pc : {"idle"} \cup Over \cup Syncing,
         user : Accounts \cup {None},
         driver : {DriverOf[u] : u \in Accounts} \cup {EnvDriver, None},
         only : 1..Cohorts \cup {None}, todo : Seq(1..Cohorts),
         list : SUBSET [at : Nat, lap : DOMAIN Laps],
         offset : Nat, seen : Nat, new : Nat,
         due : SUBSET (DOMAIN Laps), skipped : SUBSET (DOMAIN Laps)]

\* What holds of the job of a worker, whatever the others do.
SoundJob(j) ==
  /\ j \in Jobs
  /\ IsFiniteSet(j.list)
  /\ j.pc \in Syncing => j.user \in Accounts /\ j.driver = Owned(j.user)
  /\ j.pc \in Listing =>
       /\ j.todo # << >>
       /\ \A r \in j.list : /\ Laps[r.lap].driver = j.driver
                            /\ Laps[r.lap].cohort = Head(j.todo)
  /\ j.pc \in Handling => j.list # {}

TableRows == [owner : Accounts, name : {"api", "file"}, lap : DOMAIN Laps,
              measured : BOOLEAN]

Sound ==
  /\ DOMAIN cloud \subseteq DOMAIN Laps
  /\ cloud \in [DOMAIN cloud -> Conditions]
  /\ token \in [Accounts -> {"none", "ok", "expired"}]
  /\ rows \subseteq TableRows /\ IsFiniteSet(rows)
  /\ states \subseteq [owner : Accounts, cohort : 1..Cohorts, seen : Nat, new : Nat]
  /\ used \in [syncs : Nat, changes : Nat, faults : Nat]
  /\ job \in [Workers -> Jobs]
  /\ \A w \in Workers : SoundJob(job[w])

-----------------------------------------------------------------------------
(* Laps are numbers, and a listing is a finite set of them.                *)

LEMMA LapsTyped ==
  /\ Len(Laps) \in Nat /\ DOMAIN Laps = 1..Len(Laps) /\ IsFiniteSet(DOMAIN Laps)
  /\ \A l \in DOMAIN Laps : Laps[l].cohort \in 1..Cohorts /\ Laps[l].day \in Nat
<1>1. Len(Laps) \in Nat /\ DOMAIN Laps = 1..Len(Laps)
  BY SyncAssumption, LenProperties
<1>2. \A l \in 1..Len(Laps) : Laps[l] \in [driver : STRING, cohort : 1..Cohorts, day : Nat]
  BY SyncAssumption, ElementOfSeq
<1>3. IsFiniteSet(DOMAIN Laps)
  BY <1>1, FS_Interval
<1>4. QED
  BY <1>1, <1>2, <1>3

\* A set of numbers has a least one.
LEMMA LeastNumber ==
  ASSUME NEW S \in SUBSET Nat, S # {}
  PROVE  \E m \in S : \A k \in S : m <= k
<1> DEFINE T == {1..n : n \in S}
<1>1. T \subseteq FiniteSubsetsOf(Nat) /\ T # {}
  <2>1. \A n \in S : 1..n \in SUBSET Nat /\ IsFiniteSet(1..n)
    BY FS_Interval
  <2>2. QED
    BY <2>1 DEF FiniteSubsetsOf
<1>2. PICK x \in T : \A y \in T : ~(<<y, x>> \in StrictSubsetOrdering(Nat))
  <2> HIDE DEF T
  <2>1. QED
    BY <1>1, FS_StrictSubsetOrderingWellFounded, WFMin
<1>3. PICK m \in S : x = 1..m
  OBVIOUS
<1>4. ASSUME NEW k \in S, k < m PROVE FALSE
  <2>1. 1..k \subseteq 1..m /\ m \in 1..m /\ m \notin 1..k
    BY <1>4
  <2>2. <<1..k, x>> \in StrictSubsetOrdering(Nat)
    BY <2>1, <1>3 DEF StrictSubsetOrdering
  <2>3. QED
    BY <1>2, <2>2
<1>5. QED
  BY <1>4

\* The lap taken next is one of the listing.
LEMMA OldestListed ==
  ASSUME Sound, NEW w \in Workers, job[w].list # {}
  PROVE  /\ Oldest(w) \in job[w].list /\ Lap(w) \in DOMAIN Laps
         /\ Rest(w) \subseteq job[w].list /\ IsFiniteSet(Rest(w))
         /\ job[w].list = Rest(w) \cup {Oldest(w)}
<1>1. job[w].list \in SUBSET [at : Nat, lap : DOMAIN Laps] /\ IsFiniteSet(job[w].list)
  BY DEF Sound, SoundJob, Jobs
<1> DEFINE S == {r.lap : r \in job[w].list}
<1>2. S \in SUBSET Nat /\ S # {}
  BY <1>1, LapsTyped
<1>3. PICK m \in S : \A k \in S : m <= k
  <2> HIDE DEF S
  <2>1. QED
    BY <1>2, LeastNumber
<1>4. \E r \in job[w].list : \A s \in job[w].list : r.lap <= s.lap
  BY <1>3
<1>5. Oldest(w) \in job[w].list
  BY <1>4 DEF Oldest
<1>6. QED
  BY <1>1, <1>5, FS_RemoveElement DEF Rest, Lap

\* The newer of two laps of a listing stands before the older one.
LEMMA PlacesDiffer ==
  ASSUME NEW ls \in SUBSET (DOMAIN Laps), NEW l \in ls, NEW k \in ls, l < k
  PROVE  Place(k, ls) < Place(l, ls)
<1>1. IsFiniteSet({i \in ls : i > l}) /\ IsFiniteSet({i \in ls : i > k})
  BY LapsTyped, FS_Subset
<1>2. {i \in ls : i > k} \in SUBSET {i \in ls : i > l} /\ k \in {i \in ls : i > l}
      /\ k \notin {i \in ls : i > k}
  BY LapsTyped
<1>3. QED
  BY <1>1, <1>2, FS_Subset, FS_CardinalityType DEF Place

\* A page is a finite part of the listing, no longer than PageSize.
LEMMA PageBounded ==
  ASSUME Sound, NEW d, NEW c, NEW offset \in Nat
  PROVE  /\ Page(d, c, offset) \in SUBSET [at : Nat, lap : DOMAIN Laps]
         /\ \A r \in Page(d, c, offset) : r.lap \in DOMAIN cloud /\ Laps[r.lap].cohort = c
         /\ IsFiniteSet(Page(d, c, offset))
         /\ Cardinality(Page(d, c, offset)) \in 0..PageSize
<1> DEFINE ls == Rows(d, c)
           page == Page(d, c, offset)
           last == offset + PageSize - 1
<1>1. ls \in SUBSET (DOMAIN Laps) /\ IsFiniteSet(ls) /\ PageSize \in Nat \ {0}
  BY LapsTyped, FS_Subset, SyncAssumption DEF Sound, Rows
<1>2. \A l \in ls : Place(l, ls) \in Nat
  BY <1>1, FS_Subset, FS_CardinalityType DEF Place
<1>3. \A r \in page : /\ r.lap \in ls /\ r.at = Place(r.lap, ls) /\ r.at \in offset..last
                      /\ r = [at |-> r.at, lap |-> r.lap]
  BY <1>1, <1>2 DEF Page
<1>4. \A r, s \in page : r.at = s.at => r = s
  <2> SUFFICES ASSUME NEW r \in page, NEW s \in page, r.at = s.at PROVE r.lap = s.lap
    BY <1>3
  <2>1. r.lap \in Nat /\ s.lap \in Nat /\ r.at \in Nat
    BY <1>1, <1>2, <1>3, LapsTyped
  <2>2. r.lap < s.lap \/ s.lap < r.lap \/ r.lap = s.lap
    BY <2>1
  <2>3. ASSUME r.lap < s.lap PROVE FALSE
    BY <1>1, <1>3, <2>1, <2>3, PlacesDiffer
  <2>4. ASSUME s.lap < r.lap PROVE FALSE
    BY <1>1, <1>3, <2>1, <2>4, PlacesDiffer
  <2>5. QED
    BY <2>2, <2>3, <2>4
<1>5. IsFiniteSet(page) /\ Cardinality(page) <= PageSize
  <2> DEFINE f == [r \in page |-> r.at]
  <2>1. f \in Injection(page, offset..last)
    BY <1>3, <1>4 DEF Injection, IsInjective
  <2>2. IsFiniteSet(offset..last) /\ Cardinality(offset..last) = PageSize
    BY <1>1, FS_Interval
  <2> HIDE DEF f, page, last
  <2>3. QED
    BY <2>1, <2>2, FS_Injection
<1>6. Cardinality(page) \in Nat
  BY <1>5, FS_CardinalityType
<1>7. page \in SUBSET [at : Nat, lap : DOMAIN Laps]
  BY <1>1, <1>3
<1>8. \A r \in page : r.lap \in DOMAIN cloud /\ Laps[r.lap].cohort = c
  BY <1>3 DEF Rows
<1>9. QED
  BY <1>1, <1>5, <1>6, <1>7, <1>8

-----------------------------------------------------------------------------
(* Soundness.                                                              *)

LEMMA IdleSound == SoundJob(Idle)
BY EmptySeq, FS_EmptySet DEF Idle, SoundJob, Jobs, Over, Syncing, Listing, Handling

LEMMA SoundInit == Init => Sound
BY IdleSound, SyncAssumption, FS_EmptySet DEF Init, Sound, SoundJob

\* A sync that has broken off.
LEMMA BrokenSound == \A p \in {"error", "expired"} : SoundJob([Idle EXCEPT !.pc = p])
BY EmptySeq, FS_EmptySet DEF Idle, SoundJob, Jobs, Over, Syncing, Listing, Handling

\* What a worker does next leaves its job sound.
LEMMA DiscoverSound ==
  ASSUME Sound, NEW w \in Workers, Discover(w)
  PROVE  \E j : SoundJob(j) /\ Become(w, j)
<1> DEFINE d == job[w].driver
           cs == {c \in Discovered(d) : job[w].only \in {None, c}}
<1>1. PICK s \in Orders(cs, d) :
        Become(w, [job[w] EXCEPT !.pc = "cohort",
                     !.todo = Capped(s, \E c \in cs : LastDriven(d, c) # 0)])
  BY DEF Discover
<1>2. IsFiniteSet(cs) /\ cs \subseteq 1..Cohorts /\ Cardinality(cs) \in Nat
  <2> Cohorts \in Nat
    BY SyncAssumption
  <2>1. IsFiniteSet(1..Cohorts)
    BY FS_Interval
  <2>2. cs \in SUBSET (1..Cohorts)
    BY DEF Discovered
  <2>3. QED
    BY <2>1, <2>2, FS_Subset, FS_CardinalityType
<1>3. s \in Seq(1..Cohorts)
  <2>1. s \in [1..Cardinality(cs) -> 1..Cohorts]
    BY <1>2 DEF Orders
  <2>2. QED
    BY <1>2, <2>1, SeqDef
<1>4. \A b \in BOOLEAN : Capped(s, b) \in Seq(1..Cohorts)
  <2>1. Len(s) \in Nat /\ \A i \in 1..Len(s) : s[i] \in 1..Cohorts
    BY <1>3, LenProperties, ElementOfSeq
  <2>2. MaxCohorts \in Nat
    BY SyncAssumption
  <2>3. MaxCohorts <= Len(s) => SubSeq(s, 1, MaxCohorts) \in Seq(1..Cohorts)
    BY <2>1, <2>2, SubSeqProperties
  <2>4. MaxCohorts <= Len(s) \/ Len(s) <= MaxCohorts
    BY <2>1, <2>2
  <2>5. QED
    BY <1>3, <2>3, <2>4, Zenon DEF Capped
<1>5. ASSUME NEW t \in Seq(1..Cohorts)
      PROVE  SoundJob([job[w] EXCEPT !.pc = "cohort", !.todo = t])
  <2>1. job[w] \in Jobs /\ SoundJob(job[w]) /\ job[w].pc = "discover"
    BY DEF Sound, Discover, At
  <2>2. [job[w] EXCEPT !.pc = "cohort", !.todo = t] \in Jobs
    BY <2>1 DEF Jobs, Syncing
  <2>3. QED
    BY <2>1, <2>2 DEF SoundJob, Jobs, Syncing, Listing, Handling
<1>6. QED
  BY <1>1, <1>4, <1>5

LEMMA NextCohortSound ==
  ASSUME Sound, NEW w \in Workers, NextCohort(w)
  PROVE  \E j : SoundJob(j) /\ Become(w, j)
<1>1. job[w] \in Jobs /\ SoundJob(job[w]) /\ job[w].pc = "cohort" /\ job[w].todo # << >>
  BY DEF Sound, NextCohort, At
<1> DEFINE fresh == {l \in InCohort(Published(job[w].driver), Head(job[w].todo)) :
                       cloud[l] = "ok"}
           j == [job[w] EXCEPT !.pc = "page", !.offset = 0, !.list = {},
                   !.seen = 0, !.new = 0, !.due = @ \cup fresh]
<1>2. fresh \subseteq DOMAIN Laps
  BY DEF Published, InCohort, Sound
<1> HIDE DEF fresh
<1>3. j \in Jobs
  BY <1>1, <1>2 DEF Jobs, Syncing, Listing
<1>4. SoundJob(j)
  BY <1>1, <1>3, FS_EmptySet DEF SoundJob, Jobs, Syncing, Listing, Handling
<1>5. Become(w, j)
  BY DEF NextCohort, fresh
<1>6. QED
  BY <1>4, <1>5

LEMMA ReadPageSound ==
  ASSUME Sound, NEW w \in Workers, ReadPage(w)
  PROVE  \E j : SoundJob(j) /\ Become(w, j)
<1> DEFINE c == Head(job[w].todo)
           d == job[w].driver
           items == Page(d, c, job[w].offset)
           own == {r \in items : Laps[r.lap].driver = d}
           all == job[w].list \cup own
           offset == job[w].offset + Cardinality(items)
<1>1. job[w] \in Jobs /\ SoundJob(job[w]) /\ job[w].pc = "page" /\ job[w].todo # << >>
      /\ job[w].offset \in Nat
  BY DEF Sound, SoundJob, Jobs, ReadPage, At, Listing
<1>2. PICK total : Become(w, Listed(w, items, total))
  BY DEF ReadPage
<1>3. /\ items \in SUBSET [at : Nat, lap : DOMAIN Laps] /\ IsFiniteSet(items)
      /\ Cardinality(items) \in Nat /\ \A r \in items : Laps[r.lap].cohort = c
  BY <1>1, PageBounded
<1>4. /\ all \in SUBSET [at : Nat, lap : DOMAIN Laps]
      /\ \A r \in all : Laps[r.lap].driver = d /\ Laps[r.lap].cohort = c
  <2>1. job[w].list \in SUBSET [at : Nat, lap : DOMAIN Laps]
        /\ \A r \in job[w].list : Laps[r.lap].driver = d /\ Laps[r.lap].cohort = c
    BY <1>1 DEF SoundJob, Jobs, Listing
  <2>2. QED
    BY <1>3, <2>1
<1>5. IsFiniteSet(all) /\ Cardinality(all) \in Nat
  <2>1. IsFiniteSet(own) /\ IsFiniteSet(job[w].list)
    BY <1>1, <1>3, FS_Subset DEF SoundJob
  <2>2. QED
    BY <2>1, FS_Union, FS_CardinalityType
<1>6. offset \in Nat
  BY <1>1, <1>3
<1> DEFINE last == [job[w] EXCEPT !.pc = "lap", !.seen = Cardinality(all), !.list = all]
           more == [job[w] EXCEPT !.offset = offset, !.list = all]
<1>7. Become(w, last) \/ Become(w, more)
  BY <1>2 DEF Listed
<1> HIDE DEF all, offset, c, d
<1>8. last \in Jobs /\ more \in Jobs
  BY <1>1, <1>4, <1>5, <1>6 DEF Jobs, Syncing, Listing
<1>9. SoundJob(last) /\ SoundJob(more)
  <2>1. last.list = all /\ more.list = all /\ last.pc = "lap" /\ more.pc = "page"
        /\ last.todo = job[w].todo /\ more.todo = job[w].todo
        /\ last.user = job[w].user /\ more.user = job[w].user
        /\ last.driver = job[w].driver /\ more.driver = job[w].driver
    BY <1>1 DEF Jobs
  <2>2. job[w].user \in Accounts /\ job[w].driver = Owned(job[w].user)
    BY <1>1 DEF SoundJob, Syncing, Listing
  <2>3. QED
    BY <1>1, <1>4, <1>5, <1>8, <2>1, <2>2 DEF SoundJob, Handling, c, d
<1>10. QED
  BY <1>7, <1>9

LEMMA NextLapSound ==
  ASSUME Sound, NEW w \in Workers, NextLap(w)
  PROVE  \E j : SoundJob(j) /\ Become(w, j)
<1>1. job[w] \in Jobs /\ SoundJob(job[w]) /\ job[w].pc = "lap" /\ job[w].list # {}
  BY DEF Sound, NextLap, At
<1>2. Lap(w) \in DOMAIN Laps /\ Rest(w) \subseteq job[w].list /\ IsFiniteSet(Rest(w))
  BY <1>1, OldestListed
<1> DEFINE unfit == [job[w] EXCEPT !.list = Rest(w), !.skipped = @ \cup {Lap(w)}]
           known == [job[w] EXCEPT !.list = Rest(w)]
           new == [job[w] EXCEPT !.pc = "fetch"]
<1>3. Become(w, unfit) \/ Become(w, known) \/ Become(w, new)
  BY DEF NextLap
<1>4. unfit \in Jobs /\ known \in Jobs /\ new \in Jobs
  BY <1>1, <1>2 DEF Jobs, Syncing, Listing, Handling
<1>5. SoundJob(unfit) /\ SoundJob(known) /\ SoundJob(new)
  BY <1>1, <1>2, <1>4 DEF SoundJob, Jobs, Syncing, Listing, Handling
<1>6. QED
  BY <1>3, <1>5

LEMMA FetchSound ==
  ASSUME Sound, NEW w \in Workers, Fetch(w)
  PROVE  \E j : SoundJob(j) /\ Become(w, j)
<1>1. job[w] \in Jobs /\ SoundJob(job[w]) /\ job[w].pc = "fetch" /\ job[w].list # {}
  BY DEF Sound, SoundJob, Fetch, At, Handling
<1>2. Lap(w) \in DOMAIN Laps /\ Rest(w) \subseteq job[w].list /\ IsFiniteSet(Rest(w))
  BY <1>1, OldestListed
<1> DEFINE skip == [job[w] EXCEPT !.pc = "lap", !.list = Rest(w),
                                  !.skipped = @ \cup {Lap(w)}]
           good == [job[w] EXCEPT !.pc = "import"]
<1>3. Become(w, skip) \/ Become(w, [Idle EXCEPT !.pc = "error"]) \/ Become(w, good)
  BY DEF Fetch, Skip, Goto, Become
<1>4. skip \in Jobs /\ good \in Jobs
  BY <1>1, <1>2 DEF Jobs, Syncing, Listing, Handling
<1>5. SoundJob(skip) /\ SoundJob(good)
  BY <1>1, <1>2, <1>4 DEF SoundJob, Jobs, Syncing, Listing, Handling
<1>6. QED
  BY <1>3, <1>5, BrokenSound

LEMMA ImportSound ==
  ASSUME Sound, NEW w \in Workers, Dedup(w) \/ Insert(w) \/ Measure(w)
  PROVE  \E j : SoundJob(j) /\ Become(w, j)
<1>1. job[w] \in Jobs /\ SoundJob(job[w]) /\ job[w].list # {}
      /\ job[w].pc \in {"import", "insert", "measure"}
  BY DEF Sound, SoundJob, Dedup, Insert, Measure, At, Handling
<1>2. Lap(w) \in DOMAIN Laps /\ Rest(w) \subseteq job[w].list /\ IsFiniteSet(Rest(w))
  BY <1>1, OldestListed
<1> DEFINE known == [job[w] EXCEPT !.pc = "lap", !.list = Rest(w)]
           free == [job[w] EXCEPT !.pc = "insert"]
           stored == [job[w] EXCEPT !.pc = "measure"]
           done == [job[w] EXCEPT !.pc = "lap", !.list = Rest(w), !.new = @ + 1]
<1>3. \/ Become(w, known) \/ Become(w, free) \/ Become(w, stored) \/ Become(w, done)
      \/ Become(w, [Idle EXCEPT !.pc = "error"])
  BY DEF Dedup, Insert, Measure, Goto, Become
<1>4. job[w].new + 1 \in Nat
  BY <1>1 DEF Jobs
<1>5. known \in Jobs /\ free \in Jobs /\ stored \in Jobs /\ done \in Jobs
  BY <1>1, <1>2, <1>4 DEF Jobs, Syncing, Listing, Handling
<1>6. SoundJob(known) /\ SoundJob(free)
  BY <1>1, <1>2, <1>5 DEF SoundJob, Jobs, Syncing, Listing, Handling
<1>7. SoundJob(stored) /\ SoundJob(done)
  BY <1>1, <1>2, <1>5 DEF SoundJob, Jobs, Syncing, Listing, Handling
<1>8. QED
  BY <1>3, <1>6, <1>7, BrokenSound

LEMMA EndSound ==
  ASSUME Sound, NEW w \in Workers, Record(w) \/ Complete(w) \/ Expired(w) \/ Break(w)
  PROVE  \E j : SoundJob(j) /\ Become(w, j)
<1>1. job[w] \in Jobs /\ SoundJob(job[w])
  BY DEF Sound
<1>2. CASE Record(w)
  <2> DEFINE j == [job[w] EXCEPT !.pc = "cohort", !.todo = Tail(@)]
  <2>1. job[w].pc = "lap" /\ job[w].todo \in Seq(1..Cohorts) /\ job[w].todo # << >>
    BY <1>1, <1>2 DEF Record, At, SoundJob, Jobs, Listing
  <2>2. Tail(job[w].todo) \in Seq(1..Cohorts)
    BY <2>1, HeadTailProperties
  <2>3. j \in Jobs
    BY <1>1, <2>2 DEF Jobs, Syncing
  <2>4. SoundJob(j)
    BY <1>1, <2>1, <2>3 DEF SoundJob, Jobs, Syncing, Listing, Handling
  <2>5. QED
    BY <1>2, <2>4 DEF Record
<1>3. CASE Complete(w)
  <2> DEFINE j == [job[w] EXCEPT !.pc = "complete"]
  <2>1. j \in Jobs /\ job[w].pc = "cohort"
    BY <1>1, <1>3 DEF Jobs, Syncing, Complete, At
  <2>2. SoundJob(j)
    BY <1>1, <2>1 DEF SoundJob, Jobs, Syncing, Listing, Handling
  <2>3. QED
    BY <1>3, <2>2 DEF Complete, Goto, Become
<1>4. QED
  BY <1>2, <1>3, BrokenSound DEF Expired, Break

LEMMA StartSound ==
  ASSUME Sound, NEW w \in Workers, NEW u \in Accounts, NEW c \in 1..Cohorts \cup {None},
         Start(w, u, c)
  PROVE  \E j : SoundJob(j) /\ Become(w, j)
<1> DEFINE j == [Idle EXCEPT !.pc = "discover", !.user = u, !.driver = TokenDriver(u),
                             !.only = c]
<1>1. TokenDriver(u) = Owned(u)
  BY DEF Start, TokenDriver, Owned
<1>2. j \in Jobs
  BY <1>1, EmptySeq DEF Idle, Jobs, Owned, Syncing
<1>3. SoundJob(j)
  BY <1>1, <1>2, FS_EmptySet DEF SoundJob, Idle, Listing, Handling
<1>4. QED
  BY <1>3 DEF Start

\* Jobs change by the steps of the workers and by requests.
LEMMA Movers ==
  ASSUME [Next]_vars
  PROVE  \/ UNCHANGED job
         \/ \E w \in Workers : Work(w) \/ Break(w)
         \/ \E w \in Workers, u \in Accounts, c \in 1..Cohorts \cup {None} : Start(w, u, c)
BY DEF Next, Publish, Connect, Expire, Upload, vars

\* Who does not move keeps its job.
LEMMA JobsNext ==
  ASSUME Sound, [Next]_vars
  PROVE  job' \in [Workers -> Jobs] /\ \A w \in Workers : SoundJob(job'[w])
<1> DEFINE Goal == job' \in [Workers -> Jobs] /\ \A w \in Workers : SoundJob(job'[w])
<1>1. ASSUME NEW w \in Workers, \E j : SoundJob(j) /\ Become(w, j) PROVE Goal
  BY <1>1 DEF Become, Sound, SoundJob
<1>2. ASSUME UNCHANGED job PROVE Goal
  BY <1>2 DEF Sound
<1> HIDE DEF Goal
<1>3. ASSUME NEW w \in Workers, Work(w) \/ Break(w) PROVE Goal
  BY <1>1, <1>3, DiscoverSound, NextCohortSound, ReadPageSound, NextLapSound,
     FetchSound, ImportSound, EndSound DEF Work
<1>4. Goal
  BY <1>1, <1>2, <1>3, StartSound, Movers
<1>5. QED
  BY <1>4 DEF Goal

\* The rows and what happens to them.
LEMMA RowsNext ==
  ASSUME Sound, [Next]_vars
  PROVE  \/ UNCHANGED rows
         \/ \E w \in Workers : Insert(w) \/ Measure(w)
         \/ \E u \in Accounts, l \in DOMAIN Laps : Upload(u, l)
BY DEF Next, Work, vars, store, Discover, NextCohort, ReadPage, NextLap, Fetch, Dedup,
       Record, Complete, Expired, Break, Start, Publish, Connect, Expire

\* What measuring does to a row.
Done(r, u, l) ==
  IF r.owner = u /\ r.name = "api" /\ r.lap = l THEN [r EXCEPT !.measured = TRUE] ELSE r

LEMMA DoneTyped ==
  ASSUME NEW r \in TableRows, NEW u, NEW l
  PROVE  /\ Done(r, u, l) \in TableRows
         /\ Done(r, u, l).owner = r.owner /\ Done(r, u, l).name = r.name
         /\ Done(r, u, l).lap = r.lap
         /\ r.measured => Done(r, u, l) = r
BY DEF Done, TableRows

LEMMA RowsSound ==
  ASSUME Sound, [Next]_vars
  PROVE  rows' \subseteq TableRows /\ IsFiniteSet(rows')
<1>1. rows \subseteq TableRows /\ IsFiniteSet(rows)
  BY DEF Sound
<1>2. ASSUME NEW w \in Workers, Insert(w)
      PROVE  rows' \subseteq TableRows /\ IsFiniteSet(rows')
  <2> DEFINE row == [owner |-> job[w].user, name |-> "api", lap |-> Lap(w),
                     measured |-> FALSE]
  <2>1. SoundJob(job[w]) /\ job[w].pc = "insert"
    BY <1>2 DEF Sound, Insert, At
  <2>2. job[w].list # {} /\ job[w].user \in Accounts
    BY <2>1 DEF SoundJob, Syncing, Listing, Handling
  <2>3. row \in TableRows
    BY <2>2, OldestListed DEF TableRows
  <2>4. rows' = rows \/ rows' = rows \cup {row}
    BY <1>2 DEF Insert
  <2> HIDE DEF row
  <2>5. QED
    BY <1>1, <2>3, <2>4, FS_AddElement
<1>3. ASSUME NEW w \in Workers, Measure(w)
      PROVE  rows' \subseteq TableRows /\ IsFiniteSet(rows')
  <2> DEFINE f == [r \in rows |-> Done(r, job[w].user, Lap(w))]
  <2>1. rows' = {Done(r, job[w].user, Lap(w)) : r \in rows}
    BY <1>3 DEF Measure, Done
  <2>2. f \in Surjection(rows, rows')
    BY <2>1 DEF Surjection
  <2> HIDE DEF f
  <2>3. IsFiniteSet(rows')
    BY <1>1, <2>2, FS_Surjection
  <2>4. QED
    BY <1>1, <2>1, <2>3, DoneTyped
<1>4. ASSUME NEW u \in Accounts, NEW l \in DOMAIN Laps, Upload(u, l)
      PROVE  rows' \subseteq TableRows /\ IsFiniteSet(rows')
  <2> DEFINE row == [owner |-> u, name |-> "file", lap |-> l, measured |-> TRUE]
  <2>1. row \in TableRows /\ rows' = rows \cup {row}
    BY <1>4 DEF TableRows, Upload
  <2> HIDE DEF row
  <2>2. QED
    BY <1>1, <2>1, FS_AddElement
<1>5. QED
  BY <1>1, <1>2, <1>3, <1>4, RowsNext

\* The records of the cohorts that were synced.
LEMMA StatesNext ==
  ASSUME Sound, [Next]_vars
  PROVE  UNCHANGED states \/ \E w \in Workers : Record(w)
BY DEF Next, Work, vars, store, Discover, NextCohort, ReadPage, NextLap, Fetch, Dedup,
       Insert, Measure, Complete, Expired, Break, Start, Publish, Connect, Expire, Upload

LEMMA SoundNext == Sound /\ [Next]_vars => Sound'
<1> SUFFICES ASSUME Sound, [Next]_vars PROVE Sound'
  OBVIOUS
<1>1. states' \subseteq [owner : Accounts, cohort : 1..Cohorts, seen : Nat, new : Nat]
  <2> DEFINE Records == [owner : Accounts, cohort : 1..Cohorts, seen : Nat, new : Nat]
             record(w) == [owner |-> job[w].user, cohort |-> Head(job[w].todo),
                           seen |-> job[w].seen, new |-> job[w].new]
  <2>1. ASSUME NEW w \in Workers, Record(w) PROVE record(w) \in Records
    <3>1. SoundJob(job[w]) /\ job[w].pc = "lap"
      BY <2>1 DEF Sound, Record, At
    <3>2. /\ job[w].user \in Accounts /\ job[w].todo \in Seq(1..Cohorts)
          /\ job[w].todo # << >> /\ job[w].seen \in Nat /\ job[w].new \in Nat
      BY <3>1 DEF SoundJob, Syncing, Listing, Jobs
    <3>3. QED
      BY <3>2, HeadTailProperties
  <2>2. \A w \in Workers : Record(w) => states' \subseteq states \cup {record(w)}
    BY DEF Record
  <2>3. states \subseteq Records
    BY DEF Sound
  <2> HIDE DEF Records, record
  <2>4. states' \subseteq Records
    BY <2>1, <2>2, <2>3, StatesNext
  <2>5. QED
    BY <2>4 DEF Records
<1>2. DOMAIN cloud' \subseteq DOMAIN Laps /\ cloud' \in [DOMAIN cloud' -> Conditions]
  <2>1. ASSUME NEW change \in Changes, Publish(change[1], change[2])
        PROVE  DOMAIN cloud' \subseteq DOMAIN Laps /\ cloud' \in [DOMAIN cloud' -> Conditions]
    <3>1. change[1] \in DOMAIN Laps /\ change[2] \in Conditions
      BY SyncAssumption
    <3>2. QED
      BY <2>1, <3>1 DEF Publish, Sound
  <2>2. UNCHANGED cloud \/ \E change \in Changes : Publish(change[1], change[2])
    BY DEF Next, Work, vars, remote, Discover, NextCohort, ReadPage, NextLap, Fetch, Dedup,
           Insert, Measure, Record, Complete, Expired, Break, Start, Connect, Expire, Upload
  <2>3. QED
    BY <2>1, <2>2 DEF Sound
<1>3. token' \in [Accounts -> {"none", "ok", "expired"}]
  <2>1. UNCHANGED token \/ \E u \in Accounts : Connect(u) \/ Expire(u)
    BY DEF Next, Work, vars, remote, Discover, NextCohort, ReadPage, NextLap, Fetch, Dedup,
           Insert, Measure, Record, Complete, Expired, Break, Start, Publish, Upload
  <2>2. QED
    BY <2>1 DEF Sound, Connect, Expire
<1>4. used' \in [syncs : Nat, changes : Nat, faults : Nat]
  <2>1. /\ used \in [syncs : Nat, changes : Nat, faults : Nat]
        /\ used.syncs + 1 \in Nat /\ used.changes + 1 \in Nat /\ used.faults + 1 \in Nat
    BY DEF Sound
  <2>2. \/ used' = used \/ used' = [used EXCEPT !.syncs = @ + 1]
        \/ used' = [used EXCEPT !.changes = @ + 1]
        \/ used' = [used EXCEPT !.faults = @ + 1]
    BY DEF Next, Work, vars, Discover, NextCohort, ReadPage, NextLap, Fetch, Dedup, Insert,
           Measure, Record, Complete, Expired, Break, Start, Publish, Connect, Expire,
           Upload, Change
  <2>3. QED
    BY <2>1, <2>2
<1>5. QED
  BY <1>1, <1>2, <1>3, <1>4, JobsNext, RowsSound DEF Sound

-----------------------------------------------------------------------------
(* Nobody holds another driver's laps.                                     *)

LEMMA NothingForeignNext ==
  Sound /\ NothingForeign /\ [Next]_vars => NothingForeign'
<1> SUFFICES ASSUME Sound, NothingForeign, [Next]_vars PROVE NothingForeign'
  OBVIOUS
<1>1. \A r \in rows : r.name = "api" => Laps[r.lap].driver = Owned(r.owner)
  BY DEF NothingForeign, Owned
<1>2. ASSUME NEW w \in Workers, Insert(w)
      PROVE  \A r \in rows' : r.name = "api" => Laps[r.lap].driver = Owned(r.owner)
  <2>1. SoundJob(job[w]) /\ job[w].pc = "insert"
    BY <1>2 DEF Sound, Insert, At
  <2>2. job[w].list # {} /\ job[w].driver = Owned(job[w].user)
        /\ \A r \in job[w].list : Laps[r.lap].driver = job[w].driver
    BY <2>1 DEF SoundJob, Syncing, Listing, Handling
  <2>3. Laps[Lap(w)].driver = Owned(job[w].user)
    BY <2>2, OldestListed DEF Lap
  <2>4. QED
    BY <1>1, <1>2, <2>3 DEF Insert
<1>3. ASSUME NEW w \in Workers, Measure(w)
      PROVE  \A r \in rows' : r.name = "api" => Laps[r.lap].driver = Owned(r.owner)
  <2>1. rows' = {Done(r, job[w].user, Lap(w)) : r \in rows}
    BY <1>3 DEF Measure, Done
  <2>2. QED
    BY <1>1, <2>1, DoneTyped DEF Sound
<1>4. ASSUME NEW u \in Accounts, NEW l \in DOMAIN Laps, Upload(u, l)
      PROVE  \A r \in rows' : r.name = "api" => Laps[r.lap].driver = Owned(r.owner)
  BY <1>1, <1>4 DEF Upload
<1>5. QED
  BY <1>1, <1>2, <1>3, <1>4, RowsNext DEF NothingForeign, Owned

\* Whatever the server sends, an account holds synced laps of its own driver
\* only.
THEOREM NothingForeignEver == Spec => []NothingForeign
<1>1. Init => NothingForeign
  BY DEF Init, NothingForeign
<1>2. QED
  BY <1>1, SoundInit, SoundNext, NothingForeignNext, PTL DEF Spec

-----------------------------------------------------------------------------
(* No lap is stored twice, and what is recorded as new adds up.            *)

\* Rows stay: they are only marked as measured.
LEMMA RowsStay ==
  ASSUME Sound, [Next]_vars, NEW r \in rows
  PROVE  /\ r.measured => r \in rows'
         /\ \E s \in rows' : s.owner = r.owner /\ s.name = r.name /\ s.lap = r.lap
<1>1. r \in TableRows
  BY DEF Sound
<1>2. ASSUME NEW w \in Workers, Measure(w)
      PROVE  Done(r, job[w].user, Lap(w)) \in rows'
  BY <1>2 DEF Measure, Done
<1>3. ASSUME NEW w \in Workers, Insert(w) PROVE r \in rows'
  BY <1>3 DEF Insert
<1>4. ASSUME NEW u \in Accounts, NEW l \in DOMAIN Laps, Upload(u, l) PROVE r \in rows'
  BY <1>4 DEF Upload
<1>5. QED
  BY <1>1, <1>2, <1>3, <1>4, RowsNext, DoneTyped

LEMMA StoredOnceNext == Sound /\ StoredOnce /\ [Next]_vars => StoredOnce'
<1> SUFFICES ASSUME Sound, StoredOnce, [Next]_vars PROVE StoredOnce'
  OBVIOUS
<1>1. ASSUME NEW row, row \notin rows, rows' = rows \cup {row},
             \A r \in rows : r.owner # row.owner \/ r.name # row.name \/ r.lap # row.lap
      PROVE  StoredOnce'
  BY <1>1 DEF StoredOnce
<1>2. ASSUME NEW w \in Workers, Insert(w) PROVE StoredOnce'
  <2> DEFINE row == [owner |-> job[w].user, name |-> "api", lap |-> Lap(w),
                     measured |-> FALSE]
  <2>1. UNCHANGED rows \/ (rows' = rows \cup {row} /\ ~Synced(job[w].user, Lap(w)))
    BY <1>2 DEF Insert, Conflict
  <2>2. ~Synced(job[w].user, Lap(w)) =>
          \A r \in rows : r.owner # row.owner \/ r.name # row.name \/ r.lap # row.lap
    BY DEF Synced
  <2> HIDE DEF row
  <2>3. QED
    BY <1>1, <2>1, <2>2 DEF StoredOnce
<1>3. ASSUME NEW w \in Workers, Measure(w) PROVE StoredOnce'
  <2>1. rows' = {Done(r, job[w].user, Lap(w)) : r \in rows}
    BY <1>3 DEF Measure, Done
  <2>2. QED
    BY <2>1, DoneTyped DEF Sound, StoredOnce
<1>4. ASSUME NEW u \in Accounts, NEW l \in DOMAIN Laps, Upload(u, l) PROVE StoredOnce'
  <2> DEFINE row == [owner |-> u, name |-> "file", lap |-> l, measured |-> TRUE]
  <2>1. rows' = rows \cup {row} /\ ~Known(u, l)
    BY <1>4 DEF Upload
  <2>2. \A r \in rows : r.owner # row.owner \/ r.name # row.name \/ r.lap # row.lap
    BY <2>1 DEF Known
  <2> HIDE DEF row
  <2>3. QED
    BY <1>1, <2>1, <2>2
<1>5. QED
  BY <1>2, <1>3, <1>4, RowsNext DEF StoredOnce

\* Two syncs of an account never store a lap twice, whatever each of them saw
\* before the other inserted.
THEOREM StoredOnceEver == Spec => []StoredOnce
<1>1. Init => StoredOnce
  BY DEF Init, StoredOnce
<1>2. QED
  BY <1>1, SoundInit, SoundNext, StoredOnceNext, PTL DEF Spec

\* The synced laps of a cohort that came through.
Counted(u, c) ==
  {r \in rows : /\ r.owner = u /\ r.name = "api"
                /\ Laps[r.lap].cohort = c /\ r.measured}

\* A worker that measures has a row of its own to measure; what it has counted
\* so far is there.
Adding ==
  /\ RecordsAddUp
  /\ \A w \in Workers : job[w].pc \in Listing =>
       job[w].new <= Cardinality(Counted(job[w].user, Head(job[w].todo)))
  /\ \A w \in Workers : job[w].pc = "measure" =>
       /\ \E r \in rows : /\ r.owner = job[w].user /\ r.name = "api"
                          /\ r.lap = Lap(w) /\ ~r.measured
       /\ \A v \in Workers : v # w /\ job[v].pc = "measure" =>
            job[v].user # job[w].user \/ Lap(v) # Lap(w)

LEMMA CountsGrow ==
  ASSUME Sound, [Next]_vars, NEW u, NEW c
  PROVE  /\ Cardinality(Counted(u, c)) \in Nat /\ Cardinality(Counted(u, c)') \in Nat
         /\ IsFiniteSet(Counted(u, c)) /\ IsFiniteSet(Counted(u, c)')
         /\ Counted(u, c) \subseteq Counted(u, c)'
         /\ Cardinality(Counted(u, c)) <= Cardinality(Counted(u, c)')
<1>1. IsFiniteSet(Counted(u, c)) /\ IsFiniteSet(Counted(u, c)')
  BY RowsSound, FS_Subset DEF Sound, Counted
<1>2. Counted(u, c) \subseteq Counted(u, c)'
  BY RowsStay DEF Counted
<1>3. QED
  BY <1>1, <1>2, FS_Subset, FS_CardinalityType

\* A measured lap is one more.
LEMMA MeasuredCounts ==
  ASSUME Sound, StoredOnce, Adding, NEW w \in Workers, Measure(w), [Next]_vars,
         NEW u, u = job[w].user, NEW c, c = Head(job[w].todo)
  PROVE  Cardinality(Counted(u, c)) + 1 <= Cardinality(Counted(u, c)')
<1>1. SoundJob(job[w]) /\ job[w].pc = "measure"
  BY DEF Sound, Measure, At
<1>2. job[w].list # {} /\ \A r \in job[w].list : Laps[r.lap].cohort = c
  BY <1>1 DEF SoundJob, Listing, Handling
<1>3. Laps[Lap(w)].cohort = c
  BY <1>2, OldestListed DEF Lap
<1>4. PICK r \in rows : r.owner = u /\ r.name = "api" /\ r.lap = Lap(w) /\ ~r.measured
  BY <1>1 DEF Adding
<1>5. PICK s : s = Done(r, u, Lap(w))
  OBVIOUS
<1>6. s \in rows'
  BY <1>5 DEF Measure, Done
<1>7. /\ s.owner = u /\ s.name = "api" /\ s.lap = Lap(w) /\ s.measured
  BY <1>4, <1>5 DEF Done, TableRows, Sound
<1>8. s \notin rows
  BY <1>4, <1>7 DEF StoredOnce
<1>9. s \in Counted(u, c)' /\ s \notin Counted(u, c)
  BY <1>3, <1>6, <1>7, <1>8 DEF Counted
<1>10. Counted(u, c) \cup {s} \in SUBSET (Counted(u, c)')
  BY <1>9, CountsGrow
<1>11. Cardinality(Counted(u, c) \cup {s}) <= Cardinality(Counted(u, c)')
  BY <1>10, CountsGrow, FS_Subset
<1>12. Cardinality(Counted(u, c) \cup {s}) = Cardinality(Counted(u, c)) + 1
  <2>1. IsFiniteSet(Counted(u, c))
    BY CountsGrow
  <2>2. QED
    BY <1>9, <2>1, FS_AddElement
<1>13. QED
  BY <1>11, <1>12

\* What a step makes of the count of a worker's cohort.
LEMMA CountSteps ==
  ASSUME Sound, [Next]_vars, NEW x \in Workers
  PROVE  \/ job'[x].pc \notin Listing
         \/ job'[x].new = 0
         \/ /\ job[x].pc \in Listing
            /\ job'[x].user = job[x].user /\ job'[x].todo = job[x].todo
            /\ job'[x].new = job[x].new \/ (job'[x].new = job[x].new + 1 /\ Measure(x))
<1> DEFINE Goal ==
      \/ job'[x].pc \notin Listing
      \/ job'[x].new = 0
      \/ /\ job[x].pc \in Listing
         /\ job'[x].user = job[x].user /\ job'[x].todo = job[x].todo
         /\ job'[x].new = job[x].new \/ (job'[x].new = job[x].new + 1 /\ Measure(x))
<1> SUFFICES Goal
  OBVIOUS
<1>1. ASSUME job'[x] = job[x] PROVE Goal
  BY <1>1
<1>2. ASSUME NEW w \in Workers, NEW j, Become(w, j), w # x PROVE Goal
  BY <1>1, <1>2 DEF Become, Sound
<1>3. ASSUME NEW j, Become(x, j) PROVE job'[x] = j
  BY <1>3 DEF Become, Sound
<1>4. job[x] \in Jobs
  BY DEF Sound
<1>5. CASE Discover(x) \/ Record(x) \/ Complete(x) \/ Expired(x) \/ Break(x)
  <2>1. job'[x].pc \in {"cohort", "complete", "expired", "error"}
    BY <1>3, <1>4, <1>5 DEF Discover, Record, Complete, Expired, Break, Goto, Become, Idle, Jobs
  <2>2. QED
    BY <2>1 DEF Listing, Handling
<1>6. CASE NextCohort(x)
  <2>1. job'[x].new = 0
    BY <1>3, <1>4, <1>6 DEF NextCohort, Jobs
  <2>2. QED
    BY <2>1
<1>7. CASE ReadPage(x) \/ NextLap(x) \/ Dedup(x)
  <2>1. job'[x].new = job[x].new /\ job'[x].user = job[x].user /\ job'[x].todo = job[x].todo
    BY <1>3, <1>4, <1>7 DEF ReadPage, Listed, NextLap, Dedup, Goto, Become, Jobs
  <2>2. job[x].pc \in Listing
    BY <1>7 DEF ReadPage, NextLap, Dedup, At, Listing, Handling
  <2>3. QED
    BY <2>1, <2>2
<1>8. CASE Fetch(x) \/ Insert(x)
  <2>1. \/ job'[x].pc = "error"
        \/ /\ job'[x].new = job[x].new /\ job'[x].user = job[x].user
           /\ job'[x].todo = job[x].todo
    BY <1>3, <1>4, <1>8 DEF Fetch, Skip, Insert, Goto, Become, Idle, Jobs
  <2>2. job[x].pc \in Listing
    BY <1>8 DEF Fetch, Insert, At, Listing, Handling
  <2>3. QED
    BY <2>1, <2>2 DEF Listing, Handling
<1>9. CASE Measure(x)
  <2>1. /\ job'[x].new = job[x].new + 1 /\ job'[x].user = job[x].user
        /\ job'[x].todo = job[x].todo
    BY <1>3, <1>4, <1>9 DEF Measure, Jobs
  <2>2. job[x].pc \in Listing
    BY <1>9 DEF Measure, At, Listing, Handling
  <2>3. QED
    BY <1>9, <2>1, <2>2
<1>10. ASSUME NEW u \in Accounts, NEW c, Start(x, u, c) PROVE Goal
  <2>1. job'[x].new = 0
    BY <1>3, <1>10 DEF Start, Idle
  <2>2. QED
    BY <2>1
<1>11. CASE Work(x) \/ Break(x)
  <2> HIDE DEF Goal
  <2>1. QED
    BY <1>5, <1>6, <1>7, <1>8, <1>9, <1>11 DEF Work
<1>12. ASSUME NEW w \in Workers, w # x, Work(w) \/ Break(w) PROVE Goal
  <2> HIDE DEF Goal
  <2>1. \E j : Become(w, j)
    BY <1>12, DiscoverSound, NextCohortSound, ReadPageSound, NextLapSound,
       FetchSound, ImportSound, EndSound DEF Work
  <2>2. QED
    BY <1>2, <1>12, <2>1
<1>13. ASSUME NEW w \in Workers, w # x, NEW u \in Accounts, NEW c, Start(w, u, c)
       PROVE Goal
  <2> HIDE DEF Goal
  <2>1. QED
    BY <1>2, <1>13 DEF Start
<1>14. CASE UNCHANGED job
  BY <1>1, <1>14
<1> HIDE DEF Goal
<1>15. Goal
  <2>1. CASE \E w \in Workers : Work(w) \/ Break(w)
    BY <1>11, <1>12, <2>1
  <2>2. CASE \E w \in Workers, u \in Accounts, c \in 1..Cohorts \cup {None} : Start(w, u, c)
    BY <1>10, <1>13, <2>2
  <2>3. QED
    BY <1>14, <2>1, <2>2, Movers
<1>16. QED
  BY <1>15

\* A worker comes to measure a lap by storing it, which found it missing.
LEMMA MeasureSteps ==
  ASSUME Sound, [Next]_vars, NEW x \in Workers, job'[x].pc = "measure"
  PROVE  \/ job'[x] = job[x] /\ ~Measure(x)
         \/ /\ Insert(x) /\ ~Synced(job[x].user, Lap(x))
            /\ job'[x] = [job[x] EXCEPT !.pc = "measure"]
<1> DEFINE Goal ==
      \/ job'[x] = job[x] /\ ~Measure(x)
      \/ /\ Insert(x) /\ ~Synced(job[x].user, Lap(x))
         /\ job'[x] = [job[x] EXCEPT !.pc = "measure"]
<1> SUFFICES Goal
  OBVIOUS
<1>1. ASSUME NEW j, Become(x, j) PROVE job'[x] = j
  BY <1>1 DEF Become, Sound
<1>2. job[x] \in Jobs
  BY DEF Sound
<1>3. ~Measure(x)
  BY <1>1, <1>2 DEF Measure, Jobs
<1>4. ASSUME NEW w \in Workers, NEW j, Become(w, j), w # x PROVE Goal
  BY <1>3, <1>4 DEF Become, Sound
<1>5. CASE Insert(x)
  BY <1>1, <1>2, <1>5 DEF Insert, Conflict, Goto, Become, Idle
<1>6. ASSUME Discover(x) \/ NextCohort(x) \/ ReadPage(x) \/ NextLap(x) PROVE FALSE
  <2>1. CASE Discover(x)
    BY <1>1, <1>2, <2>1 DEF Discover, Jobs
  <2>2. CASE NextCohort(x)
    BY <1>1, <1>2, <2>2 DEF NextCohort, Jobs
  <2>3. CASE ReadPage(x)
    BY <1>1, <1>2, <2>3 DEF ReadPage, Listed, Jobs, At
  <2>4. CASE NextLap(x)
    BY <1>1, <1>2, <2>4 DEF NextLap, Jobs, At
  <2>5. QED
    BY <1>6, <2>1, <2>2, <2>3, <2>4
<1>7. ASSUME Fetch(x) \/ Dedup(x) \/ Record(x) \/ Complete(x) \/ Expired(x) \/ Break(x)
      PROVE  FALSE
  BY <1>1, <1>2, <1>7
     DEF Fetch, Skip, Dedup, Record, Complete, Expired, Break, Goto, Become, Jobs, Idle
<1>8. ASSUME NEW u, NEW c, Start(x, u, c) PROVE FALSE
  BY <1>1, <1>8 DEF Start, Idle
<1> HIDE DEF Goal
<1>9. CASE \E w \in Workers : Work(w) \/ Break(w)
  <2>1. ASSUME NEW w \in Workers, w # x, Work(w) \/ Break(w) PROVE \E j : Become(w, j)
    BY <2>1, DiscoverSound, NextCohortSound, ReadPageSound, NextLapSound,
       FetchSound, ImportSound, EndSound DEF Work
  <2>2. CASE Work(x) \/ Break(x)
    BY <1>3, <1>5, <1>6, <1>7, <2>2 DEF Work, Goal
  <2>3. QED
    BY <1>4, <1>9, <2>1, <2>2
<1>10. CASE \E w \in Workers, u \in Accounts, c \in 1..Cohorts \cup {None} : Start(w, u, c)
  BY <1>4, <1>8, <1>10 DEF Start
<1>11. CASE UNCHANGED job
  BY <1>3, <1>11 DEF Goal
<1>12. QED
  BY <1>9, <1>10, <1>11, Movers

LEMMA AddingNext ==
  Sound /\ StoredOnce /\ Adding /\ [Next]_vars => Adding'
<1> SUFFICES ASSUME Sound, StoredOnce, Adding, [Next]_vars PROVE Adding'
  OBVIOUS
<1>1. \A s \in states : s.new \in Nat /\ s.new <= Cardinality(Counted(s.owner, s.cohort))
  BY DEF Sound, Adding, RecordsAddUp, Counted
<1>2. \A w \in Workers : job[w].pc \in Listing =>
        job[w].new \in Nat
        /\ job[w].new <= Cardinality(Counted(job[w].user, Head(job[w].todo)))
  BY DEF Adding, Sound, Jobs
<1>3. \A s \in states' : s.new <= Cardinality(Counted(s.owner, s.cohort)')
  <2>1. ASSUME NEW s \in states PROVE s.new <= Cardinality(Counted(s.owner, s.cohort)')
    BY <1>1, CountsGrow
  <2>2. ASSUME NEW w \in Workers, Record(w), NEW s \in states', s \notin states
        PROVE  s.new <= Cardinality(Counted(s.owner, s.cohort)')
    <3>1. job[w].pc \in Listing
      BY <2>2 DEF Record, At, Listing
    <3>2. s.owner = job[w].user /\ s.cohort = Head(job[w].todo) /\ s.new = job[w].new
      BY <2>2 DEF Record
    <3>3. s.new \in Nat /\ s.new <= Cardinality(Counted(s.owner, s.cohort))
      BY <1>2, <3>1, <3>2
    <3>4. QED
      BY <3>3, CountsGrow
  <2>3. QED
    BY <2>1, <2>2, StatesNext
<1>4. RecordsAddUp'
  BY <1>3 DEF RecordsAddUp, Counted
<1>5. ASSUME NEW x \in Workers, job'[x].pc \in Listing, NEW u, u = job'[x].user,
             NEW c, c = Head(job'[x].todo)
      PROVE  job'[x].new <= Cardinality(Counted(u, c)')
  <2>1. CASE job'[x].new = 0
    BY <2>1, CountsGrow
  <2>2. ASSUME job[x].pc \in Listing, job'[x].user = job[x].user, job'[x].todo = job[x].todo,
               job'[x].new = job[x].new
        PROVE  job'[x].new <= Cardinality(Counted(u, c)')
    BY <1>2, <1>5, <2>2, CountsGrow
  <2>3. ASSUME job[x].pc \in Listing, job'[x].user = job[x].user, job'[x].todo = job[x].todo,
               job'[x].new = job[x].new + 1, Measure(x)
        PROVE  job'[x].new <= Cardinality(Counted(u, c)')
    <3>1. Cardinality(Counted(u, c)) + 1 <= Cardinality(Counted(u, c)')
      BY <1>5, <2>3, MeasuredCounts
    <3>2. job[x].new \in Nat /\ job[x].new <= Cardinality(Counted(u, c))
      BY <1>2, <1>5, <2>3
    <3>3. QED
      BY <2>3, <3>1, <3>2, CountsGrow
  <2>4. QED
    BY <1>5, <2>1, <2>2, <2>3, CountSteps
<1>6. \A x \in Workers : (job[x].pc \in Listing)' =>
        job'[x].new <= Cardinality(Counted(job[x].user, Head(job[x].todo))')
  BY <1>5
<1>7. ASSUME NEW x \in Workers, job'[x].pc = "measure"
      PROVE  \/ job'[x] = job[x] /\ ~Measure(x)
             \/ /\ Insert(x) /\ ~Synced(job[x].user, Lap(x))
                /\ job'[x] = [job[x] EXCEPT !.pc = "measure"]
  BY <1>7, MeasureSteps
<1>8. ASSUME NEW x \in Workers, job'[x].pc = "measure"
      PROVE  \E r \in rows' : /\ r.owner = job'[x].user /\ r.name = "api"
                              /\ r.lap = Lap(x)' /\ ~r.measured
  <2>1. CASE Insert(x) /\ ~Synced(job[x].user, Lap(x))
             /\ job'[x] = [job[x] EXCEPT !.pc = "measure"]
    <3>1. job'[x].user = job[x].user /\ job'[x].list = job[x].list
      BY <2>1 DEF Sound, Jobs
    <3>2. Lap(x)' = Lap(x)
      BY <3>1 DEF Lap, Oldest
    <3>3. [owner |-> job[x].user, name |-> "api", lap |-> Lap(x), measured |-> FALSE]
            \in rows'
      BY <2>1 DEF Insert, Conflict
    <3>4. QED
      BY <3>1, <3>2, <3>3
  <2>2. CASE job'[x] = job[x] /\ ~Measure(x)
    <3>1. Lap(x)' = Lap(x) /\ job'[x].user = job[x].user /\ job[x].pc = "measure"
      BY <1>8, <2>2 DEF Lap, Oldest
    <3>2. PICK r \in rows : r.owner = job[x].user /\ r.name = "api" /\ r.lap = Lap(x)
                            /\ ~r.measured
      BY <3>1 DEF Adding
    <3>3. r \in rows'
      <4>1. ASSUME NEW w \in Workers, Measure(w) PROVE r \in rows'
        <5>1. job[w].pc = "measure" /\ w # x
          BY <2>2, <4>1 DEF Measure, At
        <5>2. job[w].user # job[x].user \/ Lap(w) # Lap(x)
          BY <3>1, <5>1 DEF Adding
        <5>3. Done(r, job[w].user, Lap(w)) = r
          BY <3>2, <5>2 DEF Done
        <5>4. QED
          BY <4>1, <5>3 DEF Measure, Done
      <4>2. QED
        BY <3>2, <4>1, RowsNext DEF Insert, Upload
    <3>4. QED
      BY <3>1, <3>2, <3>3
  <2>3. QED
    BY <1>7, <1>8, <2>1, <2>2
<1>9. ASSUME NEW x \in Workers, NEW v \in Workers, v # x,
             job'[x].pc = "measure", job'[v].pc = "measure"
      PROVE  job'[v].user # job'[x].user \/ Lap(v)' # Lap(x)'
  <2>1. ASSUME NEW a \in Workers, NEW b \in Workers, a # b, Insert(a), job'[b] = job[b],
               ~Synced(job[a].user, Lap(a)), job'[b].pc = "measure",
               job'[a] = [job[a] EXCEPT !.pc = "measure"]
        PROVE  job'[a].user # job'[b].user \/ Lap(a)' # Lap(b)'
    <3>1. job'[a].user = job[a].user /\ job'[a].list = job[a].list
      BY <2>1 DEF Sound, Jobs
    <3>2. Lap(a)' = Lap(a) /\ Lap(b)' = Lap(b)
      BY <2>1, <3>1 DEF Lap, Oldest
    <3>3. Synced(job[b].user, Lap(b))
      BY <2>1 DEF Adding, Synced
    <3>4. QED
      BY <2>1, <3>1, <3>2, <3>3
  <2>2. CASE job'[x] = job[x] /\ job'[v] = job[v]
    <3>1. Lap(x)' = Lap(x) /\ Lap(v)' = Lap(v)
      BY <2>2 DEF Lap, Oldest
    <3>2. QED
      BY <1>9, <2>2, <3>1 DEF Adding
  <2>3. ASSUME Insert(x), Insert(v) PROVE FALSE
    BY <1>9, <2>3, <1>7 DEF Insert, Become, Goto, Sound, Idle, At
  <2>4. QED
    BY <1>7, <1>9, <2>1, <2>2, <2>3
<1>10. QED
  BY <1>4, <1>6, <1>8, <1>9 DEF Adding

\* What the last sync of a cohort reports as new is stored.
THEOREM RecordsAddUpEver == Spec => []RecordsAddUp
<1>1. Init => Adding /\ StoredOnce
  BY DEF Init, Adding, RecordsAddUp, StoredOnce, Idle, Listing, Handling
<1>2. Adding => RecordsAddUp
  BY DEF Adding
<1>3. QED
  BY <1>1, <1>2, SoundInit, SoundNext, StoredOnceNext, AddingNext, PTL DEF Spec

-----------------------------------------------------------------------------
(* A sync that ends well has missed nothing.                               *)

\* No two accounts read the laps of one driver.
OneAccountEach == \A u, v \in Accounts : Owned(u) = Owned(v) => u = v

\* The reader of a cohort has yet to come to a lap of its driver.
Unread(d, c, offset, l) ==
  l \in Rows(d, c) /\ Laps[l].driver = d /\ offset <= Place(l, Rows(d, c))

\* A lap that is due is in the listing, or on a page to come.
Owing(w, l) ==
  \/ job[w].pc \in Listing /\ \E r \in job[w].list : r.lap = l
  \/ job[w].pc = "page" /\ Unread(job[w].driver, Head(job[w].todo), job[w].offset, l)

Kept(w) ==
  job[w].pc \in Syncing =>
    \A l \in job[w].due :
      Known(job[w].user, l) \/ l \in job[w].skipped \/ Owing(w, l)

NothingLost == \A w \in Workers : Kept(w)

\* Places count the rows that are newer.
LEMMA PlaceTyped ==
  ASSUME NEW ls \in SUBSET (DOMAIN Laps), NEW l
  PROVE  /\ IsFiniteSet(ls) /\ Cardinality(ls) \in Nat
         /\ IsFiniteSet({k \in ls : k > l}) /\ Place(l, ls) \in Nat
         /\ l \in ls => Place(l, ls) < Cardinality(ls)
<1>1. IsFiniteSet(ls) /\ IsFiniteSet({k \in ls : k > l})
  BY LapsTyped, FS_Subset
<1>2. Cardinality(ls) \in Nat /\ Place(l, ls) \in Nat
  BY <1>1, FS_CardinalityType DEF Place
<1>3. ASSUME l \in ls PROVE Place(l, ls) < Cardinality(ls)
  <2>1. l \notin {k \in ls : k > l}
    BY <1>3, LapsTyped
  <2>2. Cardinality({k \in ls : k > l}) <= Cardinality(ls)
        /\ Cardinality({k \in ls : k > l}) # Cardinality(ls)
    BY <1>1, <1>3, <2>1, FS_Subset
  <2>3. QED
    BY <1>2, <2>2 DEF Place
<1>4. QED
  BY <1>1, <1>2, <1>3

\* More rows never bring a row forward.
LEMMA PlaceGrows ==
  ASSUME NEW ls \in SUBSET (DOMAIN Laps), NEW ms \in SUBSET (DOMAIN Laps),
         ls \subseteq ms, NEW l
  PROVE  Place(l, ls) <= Place(l, ms)
<1>1. {k \in ls : k > l} \in SUBSET {k \in ms : k > l}
  OBVIOUS
<1>2. QED
  BY <1>1, PlaceTyped, FS_Subset DEF Place

\* The places of a listing have no gaps.
LEMMA NextRow ==
  ASSUME NEW ls \in SUBSET (DOMAIN Laps), NEW l \in ls, NEW offset \in Nat,
         offset <= Place(l, ls)
  PROVE  \E k \in ls : Place(k, ls) = offset
<1> DEFINE S == {n \in Nat : offset <= n /\ \E k \in ls : Place(k, ls) = n}
<1>1. S \in SUBSET Nat /\ S # {}
  BY PlaceTyped
<1>2. PICK m \in S : \A n \in S : m <= n
  <2> HIDE DEF S
  <2>1. QED
    BY <1>1, LeastNumber
<1>3. PICK k \in ls : Place(k, ls) = m
  OBVIOUS
<1>4. ASSUME offset < m PROVE FALSE
  <2> DEFINE newer == {i \in ls : i > k}
  <2>1. newer \in SUBSET Nat /\ newer # {}
    <3>1. newer = {} => Place(k, ls) = 0
      BY FS_EmptySet DEF Place
    <3>2. QED
      BY <1>1, <1>3, <1>4, <3>1, LapsTyped
  <2>2. PICK j \in newer : \A i \in newer : j <= i
    <3> HIDE DEF newer
    <3>1. QED
      BY <2>1, LeastNumber
  <2>3. newer = {i \in ls : i > j} \cup {j} /\ j \notin {i \in ls : i > j}
    BY <2>2, LapsTyped
  <2>4. IsFiniteSet({i \in ls : i > j}) /\ Place(j, ls) \in Nat
    BY PlaceTyped
  <2>5. Cardinality(newer) = Place(j, ls) + 1
    BY <2>3, <2>4, FS_AddElement DEF Place
  <2>6. m = Place(j, ls) + 1
    BY <1>3, <2>5 DEF Place
  <2>7. Place(j, ls) \in S
    BY <1>1, <1>4, <2>2, <2>4, <2>6
  <2>8. QED
    BY <1>2, <2>4, <2>6, <2>7
<1>5. QED
  BY <1>2, <1>3, <1>4

LEMMA RowsTyped ==
  ASSUME Sound, NEW d, NEW c
  PROVE  Rows(d, c) \in SUBSET (DOMAIN Laps)
BY DEF Sound, Rows

\* Laps published meanwhile do not pass the reader.
LEMMA UnreadStays ==
  ASSUME Sound, [Next]_vars, NEW d, NEW c, NEW offset \in Nat, NEW l,
         Unread(d, c, offset, l)
  PROVE  Unread(d, c, offset, l)'
<1>1. DOMAIN cloud \subseteq DOMAIN cloud'
  BY DEF Next, Work, vars, remote, Discover, NextCohort, ReadPage, NextLap, Fetch, Dedup,
         Insert, Measure, Record, Complete, Expired, Break, Start, Publish, Connect, Expire,
         Upload
<1>2. Rows(d, c) \subseteq Rows(d, c)'
  BY <1>1 DEF Rows
<1>3. Rows(d, c) \in SUBSET (DOMAIN Laps) /\ Rows(d, c)' \in SUBSET (DOMAIN Laps)
  BY SoundNext DEF Sound, Rows
<1>4. Place(l, Rows(d, c)) \in Nat /\ Place(l, Rows(d, c)') \in Nat
      /\ Place(l, Rows(d, c)) <= Place(l, Rows(d, c)')
  BY <1>2, <1>3, PlaceTyped, PlaceGrows
<1>5. QED
  BY <1>2, <1>4 DEF Unread, Place

\* Nor do other workers take away what a worker owes.
LEMMA KeptStays ==
  ASSUME Sound, [Next]_vars, NEW w \in Workers, Kept(w), job'[w] = job[w]
  PROVE  Kept(w)'
<1>1. \A u, l : Known(u, l) => Known(u, l)'
  BY RowsStay DEF Known
<1>2. job[w].offset \in Nat
  BY DEF Sound, Jobs
<1>3. ASSUME NEW l, Owing(w, l) PROVE Owing(w, l)'
  BY <1>2, <1>3, UnreadStays DEF Owing
<1>4. QED
  BY <1>1, <1>3 DEF Kept

\* Reading a page: what is not on it stands behind it.
LEMMA ReadPageKeeps ==
  ASSUME Sound, [Next]_vars, NEW w \in Workers, Kept(w), ReadPage(w)
  PROVE  Kept(w)'
<1>1. PICK d, c, offset, items :
        /\ d = job[w].driver /\ c = Head(job[w].todo) /\ offset = job[w].offset
        /\ items = Page(d, c, offset)
  OBVIOUS
<1>2. PICK all : all = job[w].list \cup {r \in items : Laps[r.lap].driver = d}
  OBVIOUS
<1>3. /\ job[w] \in Jobs /\ job[w].pc = "page" /\ offset \in Nat
      /\ Cardinality(items) \in 0..PageSize /\ PageSize \in Nat \ {0}
      /\ Rows(d, c) \in SUBSET (DOMAIN Laps)
  BY <1>1, PageBounded, RowsTyped, SyncAssumption DEF Sound, Jobs, ReadPage, At
<1>4. PICK total \in Nat : /\ Cardinality(Rows(d, c)) <= total
                           /\ Become(w, Listed(w, items, total))
  <2>1. Cardinality(Rows(d, c)) \in Nat
    BY <1>3, PlaceTyped
  <2>2. QED
    BY <1>1, <2>1 DEF ReadPage
<1> DEFINE after == offset + Cardinality(items)
<1>5. /\ job'[w].user = job[w].user /\ job'[w].due = job[w].due
      /\ job'[w].skipped = job[w].skipped /\ job'[w].driver = d /\ job'[w].todo = job[w].todo
      /\ job'[w].list = all
      /\ \/ job'[w].pc = "lap" /\ (items = {} \/ after >= total)
         \/ job'[w].pc = "page" /\ job'[w].offset = after
  BY <1>1, <1>2, <1>3, <1>4 DEF Listed, Become, Sound, Jobs
<1>6. UNCHANGED <<rows, cloud>>
  BY DEF ReadPage, remote, store
<1>7. ASSUME NEW l, Unread(d, c, offset, l)
      PROVE  \/ \E r \in all : r.lap = l
             \/ items # {} /\ after < total /\ Unread(d, c, after, l)
  <2>1. PICK place : place = Place(l, Rows(d, c))
    OBVIOUS
  <2>2. /\ l \in Rows(d, c) /\ Laps[l].driver = d /\ offset <= place
        /\ place \in Nat /\ place < Cardinality(Rows(d, c))
        /\ Cardinality(Rows(d, c)) \in Nat
    BY <1>3, <1>7, <2>1, PlaceTyped DEF Unread
  <2>3. CASE place < offset + PageSize
    <3>1. [at |-> place, lap |-> l] \in items
      BY <1>1, <2>1, <2>2, <2>3 DEF Page
    <3>2. QED
      BY <1>2, <2>2, <3>1
  <2>4. CASE offset + PageSize <= place
    <3>1. after <= place
      BY <1>3, <2>2, <2>4
    <3>2. after < total
      BY <1>3, <1>4, <2>2, <3>1
    <3>3. PICK k \in Rows(d, c) : Place(k, Rows(d, c)) = offset
      BY <1>3, <2>1, <2>2, NextRow
    <3>4. [at |-> offset, lap |-> k] \in items
      BY <1>1, <1>3, <3>3 DEF Page
    <3>5. QED
      BY <2>1, <2>2, <3>1, <3>2, <3>4 DEF Unread
  <2>5. QED
    BY <1>3, <2>2, <2>3, <2>4
<1>8. ASSUME NEW l, Owing(w, l) PROVE Owing(w, l)'
  <2>1. CASE \E r \in job[w].list : r.lap = l
    BY <1>2, <1>5, <2>1 DEF Owing, Listing
  <2>2. CASE Unread(d, c, offset, l)
    <3>1. CASE \E r \in all : r.lap = l
      BY <1>5, <3>1 DEF Owing, Listing
    <3>2. CASE items # {} /\ after < total /\ Unread(d, c, after, l)
      <4>1. Unread(d, c, after, l)'
        BY <1>3, <3>2, UnreadStays
      <4>2. job'[w].pc = "page" /\ job'[w].offset = after
        BY <1>3, <1>4, <1>5, <3>2
      <4>3. c = Head(job'[w].todo)
        BY <1>1, <1>5
      <4>4. QED
        BY <1>5, <4>1, <4>2, <4>3 DEF Owing
    <3>3. QED
      BY <1>7, <2>2, <3>1, <3>2
  <2>3. QED
    BY <1>1, <1>8, <2>1, <2>2 DEF Owing
<1>9. \A l \in job[w].due : Known(job[w].user, l) \/ l \in job[w].skipped \/ Owing(w, l)
  BY <1>3 DEF Kept, Syncing, Listing
<1>10. \A u, l : Known(u, l) => Known(u, l)'
  BY <1>6 DEF Known
<1>11. QED
  BY <1>5, <1>8, <1>9, <1>10 DEF Kept

\* The first lap of the listing is dealt with.
LEMMA DealtKeeps ==
  ASSUME Sound, [Next]_vars, NEW w \in Workers, Kept(w),
         job[w].pc \in {"lap"} \cup Handling, job[w].list # {},
         job'[w].user = job[w].user, job'[w].due = job[w].due,
         job[w].skipped \subseteq job'[w].skipped, job'[w].pc = "lap",
         job'[w].list = Rest(w),
         Known(job[w].user, Lap(w)) \/ Lap(w) \in job'[w].skipped
  PROVE  Kept(w)'
<1>1. job[w].pc \in Syncing /\ job[w].pc # "page" /\ job'[w].pc \in Listing
  BY DEF Syncing, Listing, Handling
<1>2. \A u, l : Known(u, l) => Known(u, l)'
  BY RowsStay DEF Known
<1>3. job[w].list = Rest(w) \cup {Oldest(w)}
  BY OldestListed
<1>4. ASSUME NEW l \in job[w].due
      PROVE  Known(job[w].user, l) \/ l \in job'[w].skipped \/ \E r \in Rest(w) : r.lap = l
  BY <1>1, <1>3 DEF Kept, Owing, Lap
<1>5. QED
  BY <1>1, <1>2, <1>4 DEF Kept, Owing

\* A lap that is fetched, looked up and stored stays in the listing.
LEMMA OnKeeps ==
  ASSUME Sound, [Next]_vars, NEW w \in Workers, Kept(w),
         job[w].pc \in {"lap"} \cup Handling, job'[w].pc \in Handling,
         job'[w].user = job[w].user, job'[w].due = job[w].due,
         job'[w].skipped = job[w].skipped, job'[w].list = job[w].list
  PROVE  Kept(w)'
<1>1. job[w].pc \in Syncing /\ job[w].pc # "page" /\ job'[w].pc \in Listing
  BY DEF Syncing, Listing, Handling
<1>2. \A u, l : Known(u, l) => Known(u, l)'
  BY RowsStay DEF Known
<1>3. QED
  BY <1>1, <1>2 DEF Kept, Owing

\* Between cohorts nothing is owed.
LEMMA ClearKeeps ==
  ASSUME Sound, [Next]_vars, NEW w \in Workers, Kept(w), job[w].pc \in Syncing,
         job[w].pc = "lap" => job[w].list = {}, job[w].pc \in {"discover", "cohort", "lap"},
         job'[w].user = job[w].user, job'[w].due = job[w].due,
         job'[w].skipped = job[w].skipped
  PROVE  Kept(w)'
<1>1. \A l : ~Owing(w, l)
  BY DEF Owing, Listing, Handling
<1>2. \A u, l : Known(u, l) => Known(u, l)'
  BY RowsStay DEF Known
<1>3. QED
  BY <1>1, <1>2 DEF Kept

\* The laps of the new cohort are ahead of the reader.
LEMMA NextCohortKeeps ==
  ASSUME Sound, [Next]_vars, NEW w \in Workers, Kept(w), NextCohort(w)
  PROVE  Kept(w)'
<1>1. PICK d, c : d = job[w].driver /\ c = Head(job[w].todo)
  OBVIOUS
<1>2. PICK fresh : fresh = {l \in InCohort(Published(d), c) : cloud[l] = "ok"}
  OBVIOUS
<1>3. job[w] \in Jobs /\ job[w].pc = "cohort" /\ job[w].pc \in Syncing
  BY DEF Sound, NextCohort, At, Syncing
<1>4. /\ job'[w].user = job[w].user /\ job'[w].due = job[w].due \cup fresh
      /\ job'[w].skipped = job[w].skipped /\ job'[w].pc = "page" /\ job'[w].offset = 0
      /\ job'[w].driver = d /\ job'[w].todo = job[w].todo
  BY <1>1, <1>2, <1>3 DEF NextCohort, Become, Sound, Jobs
<1>5. UNCHANGED <<rows, cloud>>
  BY DEF NextCohort, remote, store
<1>6. \A l \in job[w].due : Known(job[w].user, l) \/ l \in job[w].skipped
  BY <1>3 DEF Kept, Owing, Listing, Handling
<1>7. ASSUME NEW l \in fresh PROVE Owing(w, l)'
  <2>1. l \in Rows(d, c) /\ Laps[l].driver = d
    BY <1>2 DEF Rows, InCohort, Published
  <2>2. 0 <= Place(l, Rows(d, c))
    <3>1. Place(l, Rows(d, c)) \in Nat
      BY RowsTyped, PlaceTyped
    <3>2. QED
      BY <3>1
  <2>3. Unread(d, c, 0, l)'
    BY <2>1, <2>2, UnreadStays DEF Unread
  <2>4. QED
    BY <1>1, <1>4, <2>3 DEF Owing
<1>8. QED
  BY <1>4, <1>5, <1>6, <1>7 DEF Kept, Known

\* The look-up by source label is for any account, but the lap is of the
\* driver of this one only.
LEMMA StoredIsKnown ==
  ASSUME OneAccountEach, Sound, NothingForeign, NEW w \in Workers,
         job[w].pc = "lap", job[w].list # {}, Stored(w, Lap(w))
  PROVE  Known(job[w].user, Lap(w))
<1>1. PICK r \in rows : r.name = "api" /\ r.lap = Lap(w)
  BY DEF Stored
<1>2. SoundJob(job[w])
  BY DEF Sound
<1>3. /\ job[w].user \in Accounts /\ job[w].driver = Owned(job[w].user)
      /\ \A s \in job[w].list : Laps[s.lap].driver = job[w].driver
  BY <1>2 DEF SoundJob, Syncing, Listing
<1>4. Laps[Lap(w)].driver = Owned(job[w].user)
  BY <1>3, OldestListed DEF Lap
<1>5. Laps[Lap(w)].driver = Owned(r.owner) /\ r.owner \in Accounts
  BY <1>1 DEF NothingForeign, Owned, Sound, TableRows
<1>6. r.owner = job[w].user
  BY <1>3, <1>4, <1>5 DEF OneAccountEach
<1>7. QED
  BY <1>1, <1>6 DEF Known

\* What the step of a worker does with what it owes.
LEMMA OwnKeeps ==
  ASSUME OneAccountEach, Sound, NothingForeign, Adding, [Next]_vars,
         NEW w \in Workers, Kept(w), Work(w) \/ Break(w)
  PROVE  Kept(w)'
<1>1. job[w] \in Jobs /\ SoundJob(job[w])
  BY DEF Sound
<1>2. ASSUME NEW j, Become(w, j) PROVE job'[w] = j
  BY <1>2 DEF Become, Sound
<1>3. ASSUME job'[w].pc \in {"expired", "error"} PROVE Kept(w)'
  BY <1>3 DEF Kept, Syncing, Listing, Handling
<1>4. CASE Discover(w)
  <2>1. /\ job[w].pc = "discover" /\ job'[w].user = job[w].user
        /\ job'[w].due = job[w].due /\ job'[w].skipped = job[w].skipped
    BY <1>1, <1>2, <1>4 DEF Discover, At, Jobs
  <2>2. QED
    BY <2>1, ClearKeeps DEF Syncing
<1>5. CASE NextLap(w)
  <2>1. job[w].pc = "lap" /\ job[w].list # {}
    BY <1>5 DEF NextLap, At
  <2>2. CASE Unfit(Lap(w))
    <3>1. /\ job'[w].user = job[w].user /\ job'[w].due = job[w].due
          /\ job'[w].skipped = job[w].skipped \cup {Lap(w)} /\ job'[w].pc = "lap"
          /\ job'[w].list = Rest(w)
      BY <1>1, <1>2, <1>5, <2>1, <2>2 DEF NextLap, Jobs
    <3>2. QED
      BY <2>1, <3>1, DealtKeeps
  <2>3. CASE ~Unfit(Lap(w)) /\ Stored(w, Lap(w))
    <3>1. /\ job'[w].user = job[w].user /\ job'[w].due = job[w].due
          /\ job'[w].skipped = job[w].skipped /\ job'[w].pc = "lap"
          /\ job'[w].list = Rest(w)
      BY <1>1, <1>2, <1>5, <2>1, <2>3 DEF NextLap, Jobs
    <3>2. QED
      BY <2>1, <2>3, <3>1, DealtKeeps, StoredIsKnown
  <2>4. CASE ~Unfit(Lap(w)) /\ ~Stored(w, Lap(w))
    <3>1. /\ job'[w].user = job[w].user /\ job'[w].due = job[w].due
          /\ job'[w].skipped = job[w].skipped /\ job'[w].pc = "fetch"
          /\ job'[w].list = job[w].list
      BY <1>1, <1>2, <1>5, <2>1, <2>4 DEF NextLap, Jobs
    <3>2. QED
      BY <2>1, <3>1, OnKeeps DEF Handling
  <2>5. QED
    BY <2>2, <2>3, <2>4
<1>6. CASE Fetch(w)
  <2>1. job[w].pc = "fetch" /\ job[w].list # {}
    BY <1>1, <1>6 DEF Fetch, At, SoundJob, Handling
  <2>2. CASE Skip(w)
    <3>1. /\ job'[w].user = job[w].user /\ job'[w].due = job[w].due
          /\ job'[w].skipped = job[w].skipped \cup {Lap(w)} /\ job'[w].pc = "lap"
          /\ job'[w].list = Rest(w)
      BY <1>1, <1>2, <2>2 DEF Skip, Jobs
    <3>2. QED
      BY <2>1, <3>1, DealtKeeps DEF Handling
  <2>3. CASE Goto(w, "import")
    <3>1. /\ job'[w].user = job[w].user /\ job'[w].due = job[w].due
          /\ job'[w].skipped = job[w].skipped /\ job'[w].pc = "import"
          /\ job'[w].list = job[w].list
      BY <1>1, <2>3 DEF Goto, Jobs, Sound
    <3>2. QED
      BY <2>1, <3>1, OnKeeps DEF Handling
  <2>4. CASE Become(w, [Idle EXCEPT !.pc = "error"])
    BY <1>2, <1>3, <2>4 DEF Idle
  <2>5. QED
    BY <1>6, <2>2, <2>3, <2>4 DEF Fetch
<1>7. CASE Dedup(w)
  <2>1. job[w].pc = "import" /\ job[w].list # {}
    BY <1>1, <1>7 DEF Dedup, At, SoundJob, Handling
  <2>2. CASE Known(job[w].user, Lap(w))
    <3>1. /\ job'[w].user = job[w].user /\ job'[w].due = job[w].due
          /\ job'[w].skipped = job[w].skipped /\ job'[w].pc = "lap"
          /\ job'[w].list = Rest(w)
      BY <1>1, <1>2, <1>7, <2>2 DEF Dedup, Jobs
    <3>2. QED
      BY <2>1, <2>2, <3>1, DealtKeeps DEF Handling
  <2>3. CASE ~Known(job[w].user, Lap(w))
    <3>1. /\ job'[w].user = job[w].user /\ job'[w].due = job[w].due
          /\ job'[w].skipped = job[w].skipped /\ job'[w].pc = "insert"
          /\ job'[w].list = job[w].list
      BY <1>1, <1>7, <2>3 DEF Dedup, Goto, Jobs, Sound
    <3>2. QED
      BY <2>1, <3>1, OnKeeps DEF Handling
  <2>4. QED
    BY <2>2, <2>3
<1>8. CASE Insert(w)
  <2>1. CASE Become(w, [Idle EXCEPT !.pc = "error"])
    BY <1>2, <1>3, <2>1 DEF Idle
  <2>2. CASE Goto(w, "measure")
    <3>1. /\ job'[w].user = job[w].user /\ job'[w].due = job[w].due
          /\ job'[w].skipped = job[w].skipped /\ job'[w].pc = "measure"
          /\ job'[w].list = job[w].list /\ job[w].pc = "insert"
      BY <1>1, <1>8, <2>2 DEF Goto, Jobs, Sound, Insert, At
    <3>2. QED
      BY <3>1, OnKeeps DEF Handling
  <2>3. QED
    BY <1>8, <2>1, <2>2 DEF Insert
<1>9. CASE Record(w)
  <2>1. /\ job[w].pc = "lap" /\ job[w].list = {} /\ job'[w].user = job[w].user
        /\ job'[w].due = job[w].due /\ job'[w].skipped = job[w].skipped
    BY <1>1, <1>2, <1>9 DEF Record, At, Jobs
  <2>2. QED
    BY <2>1, ClearKeeps DEF Syncing, Listing
<1>10. CASE Complete(w)
  <2>1. /\ job[w].pc = "cohort" /\ job'[w].user = job[w].user
        /\ job'[w].due = job[w].due /\ job'[w].skipped = job[w].skipped
    BY <1>1, <1>10 DEF Complete, Goto, At, Jobs, Sound
  <2>2. QED
    BY <2>1, ClearKeeps DEF Syncing
<1>11. CASE Measure(w)
  <2>1. /\ job[w].pc = "measure" /\ job[w].list # {}
        /\ job'[w].user = job[w].user /\ job'[w].due = job[w].due
        /\ job'[w].skipped = job[w].skipped /\ job'[w].pc = "lap"
        /\ job'[w].list = Rest(w)
    BY <1>1, <1>2, <1>11 DEF Measure, At, Jobs, SoundJob, Handling
  <2>2. Known(job[w].user, Lap(w))
    BY <2>1 DEF Adding, Known
  <2>3. QED
    BY <2>1, <2>2, DealtKeeps DEF Handling
<1>12. CASE Expired(w) \/ Break(w)
  BY <1>2, <1>3, <1>12 DEF Expired, Break, Idle
<1>13. QED
  BY <1>4, <1>5, <1>6, <1>7, <1>8, <1>9, <1>10, <1>11, <1>12, NextCohortKeeps, ReadPageKeeps
     DEF Work

LEMMA NothingLostNext ==
  ASSUME OneAccountEach
  PROVE  Sound /\ NothingForeign /\ Adding /\ NothingLost /\ [Next]_vars => NothingLost'
<1> SUFFICES ASSUME Sound, NothingForeign, Adding, NothingLost, [Next]_vars,
                    NEW x \in Workers
             PROVE  Kept(x)'
  BY DEF NothingLost
<1>1. Kept(x)
  BY DEF NothingLost
<1>2. ASSUME NEW w \in Workers, w # x, NEW j, Become(w, j) PROVE Kept(x)'
  BY <1>1, <1>2, KeptStays DEF Become, Sound
<1>3. ASSUME NEW w \in Workers, Work(w) \/ Break(w) PROVE Kept(x)'
  <2>1. \E j : Become(w, j)
    BY <1>3, DiscoverSound, NextCohortSound, ReadPageSound, NextLapSound,
       FetchSound, ImportSound, EndSound DEF Work
  <2>2. QED
    BY <1>1, <1>2, <1>3, <2>1, OwnKeeps
<1>4. ASSUME NEW w \in Workers, NEW u, NEW c, Start(w, u, c) PROVE Kept(x)'
  <2>1. w = x => job'[x].due = {}
    BY <1>4 DEF Start, Become, Sound, Idle
  <2>2. w # x => Kept(x)'
    BY <1>2, <1>4 DEF Start
  <2>3. QED
    BY <2>1, <2>2 DEF Kept
<1>5. CASE UNCHANGED job
  BY <1>1, <1>5, KeptStays
<1>6. QED
  BY <1>3, <1>4, <1>5, Movers

\* A sync that ends well has missed no lap it owed, as long as no two accounts
\* read the laps of one driver.
THEOREM NothingDueMissedEver ==
  ASSUME OneAccountEach
  PROVE  Spec => []NothingDueMissed
<1>1. Init => NothingForeign /\ StoredOnce /\ Adding /\ NothingLost
  BY DEF Init, NothingForeign, StoredOnce, Adding, RecordsAddUp, NothingLost, Kept, Idle,
         Listing, Handling
<1>2. NothingLost => NothingDueMissed
  BY DEF NothingLost, Kept, NothingDueMissed, Owing, At, Syncing, Listing, Handling
<1>3. Sound /\ NothingForeign /\ Adding /\ NothingLost /\ [Next]_vars => NothingLost'
  BY NothingLostNext
<1>4. QED
  BY <1>1, <1>2, <1>3, SoundInit, SoundNext, NothingForeignNext, StoredOnceNext,
     AddingNext, PTL DEF Spec

=============================================================================
