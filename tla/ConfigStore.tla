----------------------------- MODULE ConfigStore -----------------------------
(***************************************************************************)
(* config.ConfigStore: the thresholds of the whole instance in one TOML    *)
(* file, and the history of their changes in the database, per account.    *)
(* A change reads the file, changes one key of what it read, truncates and *)
(* writes the file, and then inserts a history row, each a step of its own *)
(* between which other requests and the death of the process can fall; the *)
(* insert may raise, for a store that is locked or full, once the file is  *)
(* written.                                                                *)
(*                                                                         *)
(* Abstractions: a threshold has a few values, all of its type; a value    *)
(* that fails validation is refused before anything is written and changes *)
(* nothing.  An empty TOML file is valid and means the defaults.           *)
(***************************************************************************)
EXTENDS Naturals, Sequences, FiniteSets

CONSTANTS Users,       \* owner_user_pk
          Workers,     \* the server threads that change the configuration
          Keys,        \* thresholds
          Tables,      \* those of them whose value is a table
          Values,      \* values of a threshold
          Default,     \* the default value of every threshold
          MaxHistory,  \* bound: history rows
          MaxFaults,   \* bound: deaths, inserts that raise and lost answers
          None         \* nothing

ASSUME ConfigAssumption ==
  /\ Default \in Values
  /\ Tables \subseteq Keys
  /\ MaxHistory \in Nat /\ MaxFaults \in Nat
  /\ None \notin Nat \cup Workers

VARIABLES file,     \* the configuration file: key -> value
          history,  \* table config_history, by change_pk
          job,      \* what each worker is doing
          faults,   \* how many faults there were
          solo      \* history: the worker whose change no other has met, and
                    \* the thresholds that were as recorded when it began

config == <<file, history, job, solo>>

Defaults == [k \in Keys |-> Default]
Nothing == [pc |-> "idle", user |-> None, key |-> None, old |-> None,
            new |-> None, data |-> Defaults, of |-> None, meant |-> None]

At(w, p) == job[w].pc = p
Become(w, j) == job' = [job EXCEPT ![w] = j]
Goto(w, p) == job' = [job EXCEPT ![w].pc = p]

\* The last row of a key, or what a key has when there is none.
Recorded(k) ==
  LET mine == {c \in DOMAIN history : history[c].key = k}
  IN IF mine = {} THEN Default
     ELSE history[CHOOSE c \in mine : \A d \in mine : d <= c].new

\* The thresholds whose value in the file is the one their history ends with.
Agreed == {k \in Keys : file[k] = Recorded(k)}

NoSolo == [by |-> None, agreed |-> {}]

\* A worker takes a change on, whatever the others are doing.
Take(w, change) ==
  /\ At(w, "idle")
  /\ Len(history) < MaxHistory
  /\ Become(w, change)
  /\ solo' = IF \A v \in Workers : At(v, "idle")
             THEN [by |-> w, agreed |-> Agreed] ELSE NoSolo

\* The change of worker w is over.
Leave(w) ==
  /\ Become(w, Nothing)
  /\ solo' = IF solo.by = w THEN NoSolo ELSE solo

-----------------------------------------------------------------------------

\* ConfigStore.propose: what is in force now is the old value.
Proposal(u, k, v) ==
  [Nothing EXCEPT !.pc = "read", !.user = u, !.key = k, !.old = file[k],
                  !.new = v]

\* POST /api/config/apply: the proposal is made again before it is applied.
Apply(w, u, k, v) ==
  /\ Take(w, Proposal(u, k, v))
  /\ UNCHANGED <<file, history, faults>>

\* The text of the old value, coerced to the type in force.
Reverted(row) == row.old

\* POST /api/config/revert: a row of the user's own; the text of a table
\* cannot be coerced, and the request fails.
Revert(w, u, c) ==
  LET row == history[c] IN
  /\ row.user = u
  /\ row.key \notin Tables
  /\ Take(w, Proposal(u, row.key, Reverted(row)))
  /\ UNCHANGED <<file, history, faults>>

\* Mutant of Merged: the file is written with the changed key alone.
MergedAlone(k, v) == [Defaults EXCEPT ![k] = v]

\* _validated_data: the file as it is, with one key changed.
Merged(k, v) == [file EXCEPT ![k] = v]

Read(w) ==
  /\ At(w, "read")
  /\ Become(w, [job[w] EXCEPT !.pc = "truncate",
                              !.data = Merged(job[w].key, job[w].new)])
  /\ UNCHANGED <<file, history, faults, solo>>

\* write_text opens the file for writing, which empties it ...
Truncate(w) ==
  /\ At(w, "truncate")
  /\ file' = Defaults
  /\ Goto(w, "write")
  /\ UNCHANGED <<history, faults, solo>>

\* ... and writes every key of what was read.
Write(w) ==
  /\ At(w, "write")
  /\ file' = job[w].data
  /\ Goto(w, "record")
  /\ UNCHANGED <<history, faults, solo>>

Row(j) == [user |-> j.user, key |-> j.key, old |-> j.old, new |-> j.new,
           of |-> j.of]

Record(w) ==
  /\ At(w, "record")
  /\ history' = Append(history, Row(job[w]))
  /\ Leave(w)
  /\ UNCHANGED <<file, faults>>

\* record_config_change raises: the file keeps the change, which has no row.
RecordFails(w) ==
  /\ At(w, "record")
  /\ faults < MaxFaults
  /\ faults' = faults + 1
  /\ Leave(w)
  /\ UNCHANGED <<file, history>>

\* The process dies, with every change that was under way.
Die ==
  /\ faults < MaxFaults
  /\ \E w \in Workers : ~At(w, "idle")
  /\ faults' = faults + 1
  /\ job' = [w \in Workers |-> Nothing]
  /\ solo' = NoSolo
  /\ UNCHANGED <<file, history>>

ConfigInit ==
  /\ file = Defaults
  /\ history = << >>
  /\ job = [w \in Workers |-> Nothing]
  /\ faults = 0
  /\ solo = NoSolo

Change(w) == Read(w) \/ Truncate(w) \/ Write(w)

-----------------------------------------------------------------------------
(* Properties                                                              *)

\* "Nothing retunes a threshold silently" (config.py:1140): between changes,
\* the file holds what the history of all accounts says, key by key.  The code
\* does not keep it: an insert that raises leaves a change without a row, a
\* death in the middle leaves an empty file, and two changes that overlap
\* leave one of them out of it.
HistoryExplainsFile ==
  (\A w \in Workers : At(w, "idle")) => \A k \in Keys : file[k] = Recorded(k)

\* ... and what is sure all the same: a change that reached its row, and that
\* no other change met on the way, leaves no threshold less explained than it
\* found it, and its own explained, whatever deaths, failed inserts and
\* changes by others came before (config.py:1162-1176).
ChangeExplained ==
  [][history' # history /\ solo.by \in Workers =>
       solo.agreed \cup {job[solo.by].key} \subseteq Agreed']_<<config, faults>>
=============================================================================
