----------------------------- MODULE EraBlocks -----------------------------
(***************************************************************************)
(* What the era partition promises (eras.py, module docstring): a driver's *)
(* dated laps are cut into consecutive blocks, append-only.  A block keeps *)
(* the size it was created with, is full exactly when it is closed, and    *)
(* never changes once closed; a batch of newly assigned laps is cut in     *)
(* (lap_date, lap_pk) order.  How the batch is read, walked and committed  *)
(* is left to Eras, which implements this specification.                   *)
(***************************************************************************)
EXTENDS Integers, Sequences, FiniteSets

CONSTANTS Dates, NoDate, Sizes, LegacyDates

VARIABLES date,    \* date[l]: lap_date of the l-th stored lap, NoDate if undated
          blocks   \* blocks[i]: [size, laps, closed] of era i - 1

Dated == {l \in DOMAIN date : date[l] # NoDate}

\* The order laps are assigned in: (lap_date, lap_pk).
Before(a, b) == date[a] < date[b] \/ (date[a] = date[b] /\ a < b)

Placed == UNION {blocks[i].laps : i \in DOMAIN blocks}

Init ==
  /\ date = LegacyDates
  /\ blocks = IF LegacyDates = << >> THEN << >>
              ELSE << [size |-> Len(LegacyDates),
                       laps |-> DOMAIN LegacyDates, closed |-> TRUE] >>

\* A lap, dated or not, is stored; no block changes.
Import(d) == date' = Append(date, d) /\ UNCHANGED blocks

\* Block b may become block c: a closed block is frozen, an open one grows.
Continues(b, c) ==
  /\ b.closed => c = b
  /\ c.size = b.size
  /\ b.laps \subseteq c.laps

\* The last block of a filled partition may be open and partly full; every
\* other block is closed, and a closed block holds exactly its size.
WellCut(bs) ==
  /\ \A i \in DOMAIN bs :
       /\ bs[i].closed <=> Cardinality(bs[i].laps) = bs[i].size
       /\ bs[i].laps # {} /\ Cardinality(bs[i].laps) <= bs[i].size
       /\ ~bs[i].closed => i = Len(bs)
  /\ \A i, j \in DOMAIN bs : i # j => bs[i].laps \cap bs[j].laps = {}

\* Place a batch of unplaced dated laps, cutting new blocks of size n.
Extend(batch, n) ==
  /\ Placed' = Placed \cup batch
  /\ Len(blocks') >= Len(blocks)
  /\ \A i \in DOMAIN blocks : Continues(blocks[i], blocks'[i])
  /\ \A i \in DOMAIN blocks' \ DOMAIN blocks : blocks'[i].size = n
  /\ WellCut(blocks')
  /\ \A i, j \in DOMAIN blocks' : i < j =>
       \A a \in blocks'[i].laps \cap batch, b \in blocks'[j].laps \cap batch :
         Before(a, b)
  /\ UNCHANGED date

Next == \/ \E d \in Dates \cup {NoDate} : Import(d)
        \/ \E batch \in SUBSET (Dated \ Placed), n \in Sizes : Extend(batch, n)

Spec == Init /\ [][Next]_<<date, blocks>>
=============================================================================
