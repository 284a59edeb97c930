----------------------------- MODULE ChatProofs -----------------------------
(***************************************************************************)
(* Proofs about Chat and the configuration store it extends, for every set *)
(* of workers and thresholds and any number of turns, proposals, switches  *)
(* and faults.                                                             *)
(*                                                                         *)
(* Chronicle says what a change knows of the file and of the history while *)
(* it is under way; Single where a proposal can be; Faithful how what the  *)
(* page shows stands to what the session has staged.                       *)
(***************************************************************************)
EXTENDS Chat, FiniteSetTheorems, SequenceTheorems, WellFoundedInduction, TLAPS

Steps == {"read", "truncate", "write", "record"}
Somebody == Users \cup {User, None}

Changes == [pc : {"idle"} \cup Steps, user : Somebody, key : Keys \cup {None},
            old : Values \cup {None}, new : Values \cup {None},
            data : [Keys -> Values], of : Nat \cup {None}, meant : Nat \cup {None}]

\* A change under way is of some key, from one value to another.
SoundChange(j) ==
  j \in Changes /\ (j.pc # "idle" => j.key \in Keys /\ j.old \in Values /\ j.new \in Values)

HistoryRows == [user : Somebody, key : Keys, old : Values, new : Values,
                of : Nat \cup {None}]

Proposals == [id : Nat, key : Keys, old : Values, new : Values]

Sessions == [open : BOOLEAN, staged : Seq(Proposals), turn : {"none", "model"},
             step : Nat, attempt : Nat]

Mails == [kind : {"response", "confirmed", "error"}, shown : Seq(Proposals)]

Solos == [by : Workers \cup {None}, agreed : SUBSET Keys]

Typed ==
  /\ file \in [Keys -> Values]
  /\ history \in Seq(HistoryRows)
  /\ job \in [Workers -> Changes]
  /\ \A w \in Workers : SoundChange(job[w])
  /\ solo \in Solos
  /\ faults \in Nat
  /\ sessions \in Seq(Sessions)
  /\ page \in [session : DOMAIN sessions, shown : Seq(Proposals),
               waits : {"nothing", "answer", "confirm", "applied"},
               of : DOMAIN sessions, index : Nat]
  /\ mail \in Mails \cup {None}
  /\ used \in [staged : Nat, turns : Nat, lost : Nat, switches : Nat]

-----------------------------------------------------------------------------
(* Sequences without one of their elements.                                *)

LEMMA Removed ==
  ASSUME NEW S, NEW q \in Seq(S), NEW i \in 1..Len(q)
  PROVE  LET r == SubSeq(q, 1, i - 1) \o SubSeq(q, i + 1, Len(q))
         IN /\ r \in Seq(S) /\ Len(r) = Len(q) - 1
            /\ \A j \in 1..Len(r) : r[j] = IF j < i THEN q[j] ELSE q[j + 1]
<1> DEFINE a == SubSeq(q, 1, i - 1)
           b == SubSeq(q, i + 1, Len(q))
<1>1. Len(q) \in Nat /\ i \in Nat /\ \A j \in 1..Len(q) : q[j] \in S
  BY LenProperties, ElementOfSeq
<1>2. /\ a \in Seq(S) /\ Len(a) = i - 1
      /\ \A j \in 1..(i - 1) : a[j] = q[j]
  BY <1>1, SubSeqProperties
<1>3. /\ b \in Seq(S) /\ Len(b) = Len(q) - i
      /\ \A j \in 1..(Len(q) - i) : b[j] = q[i + j]
  BY <1>1, SubSeqProperties
<1> HIDE DEF a, b
<1>4. /\ a \o b \in Seq(S) /\ Len(a \o b) = Len(q) - 1
      /\ \A j \in 1..(Len(q) - 1) : (a \o b)[j] = IF j <= i - 1 THEN a[j] ELSE b[j - (i - 1)]
  BY <1>1, <1>2, <1>3, ConcatProperties
<1>5. ASSUME NEW j \in 1..(Len(q) - 1)
      PROVE  (a \o b)[j] = IF j < i THEN q[j] ELSE q[j + 1]
  <2>1. CASE j < i
    BY <1>1, <1>2, <1>4, <2>1
  <2>2. CASE j >= i
    <3>1. j - (i - 1) \in 1..(Len(q) - i) /\ i + (j - (i - 1)) = j + 1
      BY <1>1, <2>2
    <3>2. (a \o b)[j] = b[j - (i - 1)]
      BY <1>1, <1>4, <2>2
    <3>3. QED
      BY <1>1, <1>3, <2>2, <3>1, <3>2
  <2>3. j < i \/ j >= i
    BY <1>1
  <2>4. QED
    BY <2>1, <2>2, <2>3, Zenon
<1>6. QED
  BY <1>4, <1>5 DEF a, b

-----------------------------------------------------------------------------
(* Type correctness.                                                       *)

LEMMA NothingSound == SoundChange(Nothing)
<1>1. Defaults \in [Keys -> Values]
  BY ConfigAssumption DEF Defaults
<1>2. QED
  BY <1>1 DEF SoundChange, Nothing, Changes, Somebody

LEMMA TypedInit == Init => Typed
<1> SUFFICES ASSUME Init PROVE Typed
  OBVIOUS
<1>1. NewSession \in Sessions
  BY EmptySeq DEF NewSession, Sessions
<1>2. sessions \in Seq(Sessions) /\ DOMAIN sessions = {1}
  BY <1>1, SeqDef DEF Init
<1>3. history \in Seq(HistoryRows) /\ << >> \in Seq(Proposals)
  BY EmptySeq DEF Init, ConfigInit
<1>4. QED
  BY <1>2, <1>3, NothingSound, ConfigAssumption
     DEF Init, ConfigInit, Typed, SoundChange, Defaults, NoSolo, Solos

\* What a worker turns to.
LEMMA Becomes ==
  ASSUME Typed, NEW w \in Workers, NEW j, SoundChange(j), Become(w, j)
  PROVE  /\ job' \in [Workers -> Changes] /\ \A v \in Workers : SoundChange(job'[v])
         /\ job'[w] = j /\ \A v \in Workers : v # w => job'[v] = job[v]
BY DEF Become, Typed, SoundChange

LEMMA Puts ==
  ASSUME Typed, NEW s \in DOMAIN sessions, NEW x \in Sessions, Put(s, x)
  PROVE  /\ sessions' \in Seq(Sessions) /\ Len(sessions') = Len(sessions)
         /\ DOMAIN sessions' = DOMAIN sessions
         /\ \A t \in DOMAIN sessions : sessions'[t] = IF t = s THEN x ELSE sessions[t]
BY LenProperties, ExceptSeq DEF Put, Typed

LEMMA StagedTyped ==
  ASSUME Typed, NEW s \in DOMAIN sessions
  PROVE  /\ sessions[s] \in Sessions /\ sessions[s].staged \in Seq(Proposals)
         /\ Len(sessions[s].staged) \in Nat
         /\ DOMAIN sessions[s].staged = 1..Len(sessions[s].staged)
         /\ \A i \in 1..Len(sessions[s].staged) : sessions[s].staged[i] \in Proposals
<1>1. sessions[s] \in Sessions
  BY LenProperties, ElementOfSeq DEF Typed
<1>2. sessions[s].staged \in Seq(Proposals)
  BY <1>1 DEF Sessions
<1>3. QED
  BY <1>1, <1>2, LenProperties, ElementOfSeq

LEMMA ShownTyped ==
  ASSUME Typed
  PROVE  /\ page.shown \in Seq(Proposals) /\ Len(page.shown) \in Nat
         /\ DOMAIN page.shown = 1..Len(page.shown)
         /\ \A i \in 1..Len(page.shown) : page.shown[i] \in Proposals
<1>1. page.shown \in Seq(Proposals)
  BY DEF Typed
<1>2. QED
  BY <1>1, LenProperties, ElementOfSeq

Confirmed == [kind |-> "confirmed", shown |-> << >>]
Failed == [kind |-> "error", shown |-> << >>]

LEMMA MailsTyped == Confirmed \in Mails /\ Failed \in Mails
BY EmptySeq DEF Confirmed, Failed, Mails

\* The pages and sessions a step of the chat may leave.
ChatTyped ==
  /\ sessions \in Seq(Sessions)
  /\ page \in [session : DOMAIN sessions, shown : Seq(Proposals),
               waits : {"nothing", "answer", "confirm", "applied"},
               of : DOMAIN sessions, index : Nat]
  /\ mail \in Mails \cup {None}
  /\ used \in [staged : Nat, turns : Nat, lost : Nat, switches : Nat]

LEMMA UsedGrows ==
  ASSUME Typed
  PROVE  /\ used.staged + 1 \in Nat /\ used.turns + 1 \in Nat
         /\ used.lost + 1 \in Nat /\ used.switches + 1 \in Nat
BY SMTT(30) DEF Typed

\* A turn that is over, and one that goes on.
LEMMA OverTyped ==
  ASSUME Typed, NEW s \in DOMAIN sessions, NEW x \in Sessions, NEW kind, Over(s, x, kind)
  PROVE  /\ sessions' \in Seq(Sessions) /\ DOMAIN sessions' = DOMAIN sessions
         /\ mail' \in Mails
<1>1. [NewSession EXCEPT !.open = x.open, !.staged = x.staged] \in Sessions
  BY DEF NewSession, Sessions
<1>2. [kind |-> "response", shown |-> x.staged] \in Mails
  BY DEF Sessions, Mails
<1>3. mail' \in Mails
  BY <1>2, MailsTyped DEF Over, Failed
<1>4. QED
  BY <1>1, <1>3, Puts DEF Over

LEMMA TurnTyped ==
  ASSUME Typed, NEW s \in DOMAIN sessions, Turn(s)
  PROVE  ChatTyped' /\ UNCHANGED <<config, faults>>
<1>1. sessions[s] \in Sessions /\ sessions[s].step + 1 \in Nat
  BY StagedTyped DEF Sessions
<1>2. CASE Consult(s)
  <2>1. [sessions[s] EXCEPT !.step = @ + 1] \in Sessions
    BY <1>1 DEF Sessions
  <2>2. QED
    BY <1>2, <2>1, Puts DEF Consult, Typed, ChatTyped
<1>3. ASSUME NEW k \in Keys, NEW v \in Values \ {file[k]}, Stage(s, k, v)
      PROVE  ChatTyped' /\ UNCHANGED <<config, faults>>
  <2> DEFINE p == [id |-> used.staged + 1, key |-> k, old |-> file[k], new |-> v]
             q == Append(sessions[s].staged, p)
             x == [sessions[s] EXCEPT !.step = @ + 1, !.staged = q]
  <2>1. p \in Proposals
    BY UsedGrows DEF Typed, Proposals
  <2>2. q \in Seq(Proposals)
    <3> HIDE DEF p
    <3>1. QED
      BY <2>1, StagedTyped, AppendProperties
  <2>3. Put(s, x)
    BY <1>3 DEF Stage
  <2>4. x \in Sessions
    <3> HIDE DEF q
    <3>1. QED
      BY <1>1, <2>2 DEF Sessions
  <2>5. used' \in [staged : Nat, turns : Nat, lost : Nat, switches : Nat]
    BY <1>3, UsedGrows DEF Stage, Typed
  <2> HIDE DEF x
  <2>6. QED
    BY <1>3, <2>3, <2>4, <2>5, Puts DEF Stage, Typed, ChatTyped
<1>4. ASSUME NEW grounded \in BOOLEAN, Reply(s, grounded)
      PROVE  ChatTyped' /\ UNCHANGED <<config, faults>>
  <2>1. [sessions[s] EXCEPT !.attempt = 2, !.step = 0] \in Sessions
    BY <1>1 DEF Sessions
  <2>2. \/ \E kind : Over(s, sessions[s], kind)
        \/ Put(s, [sessions[s] EXCEPT !.attempt = 2, !.step = 0]) /\ UNCHANGED mail
    BY <1>4 DEF Reply, Rejected
  <2>3. sessions' \in Seq(Sessions) /\ DOMAIN sessions' = DOMAIN sessions
        /\ mail' \in Mails \cup {None}
    BY <1>1, <2>1, <2>2, OverTyped, Puts DEF Typed
  <2>4. QED
    BY <1>4, <2>3 DEF Reply, Typed, ChatTyped
<1>5. CASE GiveUp(s)
  BY <1>1, <1>5, OverTyped DEF GiveUp, Typed, ChatTyped
<1>6. QED
  BY <1>2, <1>3, <1>4, <1>5 DEF Turn

\* The other steps of the page, of its sessions and of the network.
LEMMA PageTyped ==
  ASSUME Typed,
         \/ Ask \/ Receive \/ Lose \/ Switch \/ Restart
         \/ \E s \in DOMAIN sessions : Evict(s)
         \/ \E i \in 1..MaxStaged : Confirm(i)
  PROVE  ChatTyped'
<1>1. NewSession \in Sessions /\ [NewSession EXCEPT !.open = FALSE] \in Sessions
  BY EmptySeq DEF NewSession, Sessions
<1>2. \A s \in DOMAIN sessions : sessions[s] \in Sessions
  BY StagedTyped
<1>3. page.of \in DOMAIN sessions /\ page.session \in DOMAIN sessions
  BY DEF Typed
<1>4. CASE Ask
  <2>1. [sessions[page.session] EXCEPT !.turn = "model", !.step = 0, !.attempt = 1]
          \in Sessions
    BY <1>2, <1>3 DEF Sessions
  <2>2. sessions' \in Seq(Sessions) /\ DOMAIN sessions' = DOMAIN sessions
    BY <1>3, <1>4, <2>1, Puts DEF Ask, Typed
  <2>3. mail' \in Mails \cup {None}
    BY <1>4, MailsTyped DEF Ask, Failed, Typed
  <2>4. QED
    BY <1>4, <2>2, <2>3, UsedGrows DEF Ask, Typed, ChatTyped
<1>5. CASE Receive
  <2>1. mail \in Mails
    BY <1>5 DEF Receive, Typed
  <2>2. Without(page.shown, page.index) \in Seq(Proposals)
    BY ShownTyped, Removed DEF Without
  <2>3. page'.shown \in Seq(Proposals) /\ page' = [page EXCEPT !.waits = "nothing",
          !.of = 1, !.index = 1, !.shown = page'.shown]
    BY <1>5, <2>1, <2>2, ShownTyped DEF Receive, Typed, Mails
  <2>4. 1 \in DOMAIN sessions
    BY <1>3, LenProperties DEF Typed
  <2>5. QED
    BY <1>5, <2>3, <2>4 DEF Receive, Typed, ChatTyped
<1>6. CASE Lose
  <2>1. [sessions[page.of] EXCEPT !.turn = "none"] \in Sessions
    BY <1>2, <1>3 DEF Sessions
  <2>2. sessions' \in Seq(Sessions) /\ DOMAIN sessions' = DOMAIN sessions
    BY <1>3, <1>6, <2>1, Puts DEF Lose, Typed
  <2>3. QED
    BY <1>6, <2>2, UsedGrows DEF Lose, Typed, ChatTyped
<1>7. CASE Switch
  <2>1. /\ sessions' \in Seq(Sessions) /\ DOMAIN sessions' = 1..(Len(sessions) + 1)
        /\ DOMAIN sessions = 1..Len(sessions) /\ Len(sessions) \in Nat
    BY <1>1, <1>7, AppendProperties, LenProperties DEF Switch, Typed
  <2>2. << >> \in Seq(Proposals)
    BY EmptySeq
  <2>3. page.of \in DOMAIN sessions' /\ Len(sessions) + 1 \in DOMAIN sessions'
    BY <1>3, <2>1
  <2>4. QED
    BY <1>7, <2>1, <2>2, <2>3, UsedGrows DEF Switch, Current, Typed, ChatTyped
<1>8. CASE Restart
  <2>1. sessions' \in Seq(Sessions) /\ DOMAIN sessions' = DOMAIN sessions
    <3>1. DOMAIN sessions = 1..Len(sessions) /\ Len(sessions) \in Nat
      BY LenProperties DEF Typed
    <3>2. sessions' \in [1..Len(sessions) -> Sessions]
      BY <1>1, <1>8, <3>1 DEF Restart
    <3>3. QED
      BY <3>1, <3>2, SeqDef
  <2>2. mail' \in Mails \cup {None}
    BY <1>8, MailsTyped DEF Restart, Failed
  <2>3. QED
    BY <1>8, <2>1, <2>2 DEF Restart, Typed, ChatTyped
<1>9. ASSUME NEW s \in DOMAIN sessions, Evict(s) PROVE ChatTyped'
  <2>1. [sessions[s] EXCEPT !.open = FALSE] \in Sessions
    BY <1>2 DEF Sessions
  <2>2. QED
    BY <1>9, <2>1, Puts DEF Evict, Typed, ChatTyped
<1>10. ASSUME NEW i \in 1..MaxStaged, Confirm(i) PROVE ChatTyped'
  <2>1. i \in 1..Len(page.shown) /\ Len(page.shown) \in Nat
    <3>1. i \in DOMAIN page.shown
      BY <1>10 DEF Confirm
    <3>2. QED
      BY <3>1, ShownTyped
  <2>2. i \in Nat
    BY <2>1
  <2>3. QED
    BY <1>3, <1>10, <2>2 DEF Confirm, Typed, ChatTyped
<1>11. QED
  BY <1>4, <1>5, <1>6, <1>7, <1>8, <1>9, <1>10

\* The steps of a change.
ConfigTyped ==
  /\ file \in [Keys -> Values]
  /\ history \in Seq(HistoryRows)
  /\ job \in [Workers -> Changes]
  /\ \A w \in Workers : SoundChange(job[w])
  /\ solo \in Solos

LEMMA NobodySolo == NoSolo \in Solos
BY DEF NoSolo, Solos

LEMMA ProposalSound ==
  ASSUME Typed, NEW u \in Users, NEW k \in Keys, NEW v \in Values
  PROVE  SoundChange(Proposal(u, k, v))
<1>1. Defaults \in [Keys -> Values]
  BY ConfigAssumption DEF Defaults
<1>2. file[k] \in Values
  BY DEF Typed
<1>3. QED
  BY <1>1, <1>2 DEF Proposal, Nothing, SoundChange, Changes, Steps, Somebody

LEMMA TakeTyped ==
  ASSUME Typed, NEW w \in Workers, NEW j, SoundChange(j), Take(w, j),
         UNCHANGED <<file, history>>
  PROVE  ConfigTyped'
<1>1. Agreed \in SUBSET Keys
  BY DEF Agreed
<1>2. [by |-> w, agreed |-> Agreed] \in Solos
  <2> HIDE DEF Agreed
  <2>1. QED
    BY <1>1 DEF Solos
<1>3. solo' \in Solos
  BY <1>2, NobodySolo DEF Take
<1>4. QED
  BY <1>3, Becomes DEF Take, Typed, ConfigTyped

LEMMA ConfigNextTyped ==
  ASSUME Typed, NEW w \in Workers, Change(w) \/ Record(w) \/ RecordFails(w)
  PROVE  ConfigTyped'
<1>1. job[w] \in Changes /\ SoundChange(job[w])
  BY DEF Typed
<1>2. CASE Read(w)
  <2> DEFINE data == Merged(job[w].key, job[w].new)
             j == [job[w] EXCEPT !.pc = "truncate", !.data = data]
  <2>1. data \in [Keys -> Values]
    BY <1>1, <1>2 DEF Read, At, SoundChange, Merged, Typed
  <2>2. SoundChange(j)
    <3> HIDE DEF data
    <3>1. job[w].pc = "read"
      BY <1>2 DEF Read, At
    <3>2. job[w].key \in Keys /\ job[w].old \in Values /\ job[w].new \in Values
      BY <1>1, <3>1 DEF SoundChange
    <3>3. j \in Changes /\ j.pc = "truncate" /\ j.key = job[w].key
          /\ j.old = job[w].old /\ j.new = job[w].new
      BY <1>1, <2>1 DEF Changes, Steps
    <3>4. QED
      BY <3>2, <3>3 DEF SoundChange
  <2>3. Become(w, j)
    BY <1>2 DEF Read
  <2> HIDE DEF j
  <2>4. QED
    BY <1>2, <2>2, <2>3, Becomes DEF Read, Typed, ConfigTyped
<1>3. CASE Truncate(w) \/ Write(w)
  <2>1. \A p \in {"write", "record"} : job[w].pc # "idle" =>
          SoundChange([job[w] EXCEPT !.pc = p])
    BY <1>1 DEF SoundChange, Changes, Steps
  <2>2. job[w].pc # "idle" /\ \E p \in {"write", "record"} :
          Become(w, [job[w] EXCEPT !.pc = p])
    BY <1>3 DEF Truncate, Write, At, Goto, Become
  <2>3. file' \in [Keys -> Values]
    BY <1>1, <1>3, ConfigAssumption DEF Truncate, Write, Defaults, Changes
  <2>4. QED
    BY <1>3, <2>1, <2>2, <2>3, Becomes DEF Truncate, Write, Typed, ConfigTyped
<1>4. CASE Record(w)
  <2>1. Row(job[w]) \in HistoryRows
    BY <1>1, <1>4 DEF Record, At, Row, SoundChange, Changes, HistoryRows
  <2>2. history' \in Seq(HistoryRows)
    BY <1>4, <2>1, AppendProperties DEF Record, Typed
  <2>3. solo' \in Solos
    BY <1>4, NobodySolo DEF Record, Leave, Typed
  <2>4. QED
    BY <1>4, <2>2, <2>3, NothingSound, Becomes DEF Record, Leave, Typed, ConfigTyped
<1>5. CASE RecordFails(w)
  <2>1. solo' \in Solos
    BY <1>5, NobodySolo DEF RecordFails, Leave, Typed
  <2>2. QED
    BY <1>5, <2>1, NothingSound, Becomes DEF RecordFails, Leave, Typed, ConfigTyped
<1>6. QED
  BY <1>2, <1>3, <1>4, <1>5 DEF Change

\* A change does not forget what it is of.
LEMMA ChangeKeeps ==
  ASSUME Typed, NEW w \in Workers, Change(w)
  PROVE  /\ UNCHANGED <<history, faults>>
         /\ \A v \in Workers : job'[v].of = job[v].of /\ job'[v].meant = job[v].meant
<1>1. job[w] \in Changes
  BY DEF Typed
<1>2. CASE Read(w)
  <2> DEFINE data == Merged(job[w].key, job[w].new)
  <2>1. job' = [job EXCEPT ![w] = [job[w] EXCEPT !.pc = "truncate", !.data = data]]
        /\ UNCHANGED <<history, faults>>
    BY <1>2 DEF Read, Become
  <2> HIDE DEF data
  <2>2. QED
    BY <1>1, <2>1 DEF Changes, Typed
<1>3. CASE Truncate(w) \/ Write(w)
  <2>1. /\ UNCHANGED <<history, faults>>
        /\ \E p : job' = [job EXCEPT ![w] = [job[w] EXCEPT !.pc = p]]
    BY <1>1, <1>3 DEF Truncate, Write, Goto, Typed, Changes
  <2>2. QED
    BY <1>1, <2>1 DEF Changes, Typed
<1>4. QED
  BY <1>2, <1>3 DEF Change

LEMMA PopTyped ==
  ASSUME Typed, NEW w \in Workers, Pop(w)
  PROVE  ConfigTyped' /\ ChatTyped'
<1> DEFINE s == page.of
           i == page.index
<1>1. s \in DOMAIN sessions /\ i \in Nat
  BY DEF Typed
<1>2. CASE sessions[s].open /\ i \in DOMAIN sessions[s].staged
  <2> DEFINE p == sessions[s].staged[i]
             q == SubSeq(sessions[s].staged, 1, i - 1)
                    \o SubSeq(sessions[s].staged, i + 1, Len(sessions[s].staged))
             j == [Nothing EXCEPT !.pc = "read", !.user = User, !.key = p.key,
                     !.old = p.old, !.new = p.new, !.of = p.id, !.meant = Meant(i)]
  <2>1. i \in 1..Len(sessions[s].staged) /\ p \in Proposals
    BY <1>1, <1>2, StagedTyped
  <2>2. q \in Seq(Proposals)
    BY <1>1, <2>1, StagedTyped, Removed
  <2>3. [sessions[s] EXCEPT !.staged = q] \in Sessions
    <3> HIDE DEF q
    <3>1. QED
      BY <1>1, <2>2, StagedTyped DEF Sessions
  <2>4. Meant(i) \in Nat \cup {None}
    BY ShownTyped DEF Meant, Proposals
  <2>5. Defaults \in [Keys -> Values]
    BY ConfigAssumption DEF Defaults
  <2>6. SoundChange(j)
    <3> HIDE DEF p
    <3>1. QED
      BY <2>1, <2>4, <2>5 DEF Nothing, SoundChange, Changes, Steps, Somebody, Proposals
  <2>7. Take(w, j) /\ UNCHANGED <<file, history, mail, used>>
        /\ page' = [page EXCEPT !.waits = "applied"]
    BY <1>2 DEF Pop
  <2>8. Put(s, [sessions[s] EXCEPT !.staged = q])
    BY <1>2 DEF Pop, Popped
  <2> HIDE DEF q, j, s, i
  <2>9. ConfigTyped'
    BY <2>6, <2>7, TakeTyped
  <2>10. sessions' \in Seq(Sessions) /\ DOMAIN sessions' = DOMAIN sessions
    BY <1>1, <2>3, <2>8, Puts
  <2>11. QED
    BY <2>7, <2>9, <2>10 DEF Typed, ChatTyped
<1>3. CASE ~(sessions[s].open /\ i \in DOMAIN sessions[s].staged)
  BY <1>3, MailsTyped DEF Pop, Failed, Typed, ChatTyped, ConfigTyped
<1>4. QED
  BY <1>2, <1>3

\* Every other step leaves the configuration alone.
LEMMA TypedNext == Typed /\ [Next]_vars => Typed'
<1> SUFFICES ASSUME Typed, [Next]_vars PROVE Typed'
  OBVIOUS
<1>1. ConfigTyped /\ ChatTyped
  BY DEF Typed, ConfigTyped, ChatTyped
<1>2. faults' \in Nat
  <2>1. faults' = faults \/ faults' = faults + 1
    BY DEF Next, vars, Ask, Turn, Consult, Stage, Reply, GiveUp, Evict, Confirm, Pop, Work,
           Change, Read, Truncate, Write, Recording, Record, RecordFails, Apply, Revert,
           Receive, Lose, Switch, Restart, Die
  <2>2. QED
    BY <2>1 DEF Typed
<1>3. ASSUME ConfigTyped', ChatTyped' PROVE Typed'
  BY <1>2, <1>3 DEF Typed, ConfigTyped, ChatTyped
<1>4. ASSUME UNCHANGED config PROVE ConfigTyped'
  BY <1>1, <1>4 DEF ConfigTyped, config
<1>5. ASSUME UNCHANGED chat PROVE ChatTyped'
  BY <1>1, <1>5 DEF ChatTyped, chat
<1>6. ASSUME NEW s \in DOMAIN sessions, Turn(s) PROVE Typed'
  BY <1>3, <1>4, <1>6, TurnTyped
<1>7. CASE Ask \/ Receive \/ Lose \/ Switch
  BY <1>3, <1>4, <1>7, PageTyped DEF Ask, Receive, Lose, Switch
<1>8. ASSUME NEW s \in DOMAIN sessions, Evict(s) PROVE Typed'
  BY <1>3, <1>4, <1>8, PageTyped DEF Evict
<1>9. ASSUME NEW i \in 1..MaxStaged, Confirm(i) PROVE Typed'
  BY <1>3, <1>4, <1>9, PageTyped DEF Confirm
<1>10. ASSUME NEW w \in Workers, Pop(w) PROVE Typed'
  BY <1>3, <1>10, PopTyped
<1>11. ASSUME NEW w \in Workers, Change(w) /\ UNCHANGED chat PROVE Typed'
  BY <1>3, <1>5, <1>11, ConfigNextTyped
<1>12. ASSUME NEW w \in Workers, Recording(w) PROVE Typed'
  <2>1. mail' \in Mails \cup {None}
    BY <1>12, MailsTyped DEF Recording, Answered, Confirmed, Failed, Typed
  <2>2. ChatTyped'
    BY <1>1, <1>12, <2>1 DEF Recording, ChatTyped
  <2>3. QED
    BY <1>3, <1>12, <2>2, ConfigNextTyped DEF Recording
<1>13. ASSUME NEW w \in Workers, NEW u \in Users, NEW k \in Keys,
              NEW v \in Values \ {file[k]}, Apply(w, u, k, v), UNCHANGED chat
       PROVE  Typed'
  BY <1>3, <1>5, <1>13, ProposalSound, TakeTyped DEF Apply
<1>14. ASSUME NEW w \in Workers, NEW u \in Users, NEW c \in DOMAIN history,
              Revert(w, u, c), UNCHANGED chat
       PROVE  Typed'
  <2>1. history[c] \in HistoryRows
    BY LenProperties, ElementOfSeq DEF Typed
  <2>2. history[c].key \in Keys /\ history[c].old \in Values
    BY <2>1 DEF HistoryRows
  <2>3. QED
    BY <1>3, <1>5, <1>14, <2>2, ProposalSound, TakeTyped DEF Revert, Reverted
<1>15. CASE Restart
  <2>1. ConfigTyped'
    BY <1>1, <1>15, NothingSound, NobodySolo DEF Restart, Die, ConfigTyped, SoundChange
  <2>2. QED
    BY <1>3, <1>15, <2>1, PageTyped
<1>16. CASE UNCHANGED vars
  BY <1>3, <1>4, <1>5, <1>16 DEF vars, config, chat
<1>17. QED
  BY <1>6, <1>7, <1>8, <1>9, <1>10, <1>11, <1>12, <1>13, <1>14, <1>15, <1>16
     DEF Next, Work

\* The model is typed.
THEOREM TypeCorrect == Spec => []Typed
<1>1. Init => Typed
  BY TypedInit
<1>2. Typed /\ [Next]_vars => Typed'
  BY TypedNext
<1>3. QED
  BY <1>1, <1>2, PTL DEF Spec

-----------------------------------------------------------------------------
(* The file and the history.                                               *)

\* What the file holds of a key once the change of w is in the history.
After(w, k) == IF k = job[w].key THEN job[w].new ELSE Recorded(k)

\* What the change that has met no other knows of the file and the history.
Chronicle ==
  \A w \in Workers : solo.by = w =>
    /\ ~At(w, "idle") /\ \A v \in Workers : v # w => At(v, "idle")
    /\ At(w, "read") => \A k \in solo.agreed : file[k] = Recorded(k)
    /\ \A k \in solo.agreed \cup {job[w].key} :
         /\ At(w, "truncate") \/ At(w, "write") => job[w].data[k] = After(w, k)
         /\ At(w, "record") => file[k] = After(w, k)

\* The least-number principle, for sets of natural numbers.
LEMMA LeastNumber ==
  ASSUME NEW S \in SUBSET Nat, S # {}
  PROVE  \E m \in S : \A k \in S : m <= k
<1> DEFINE T == {1..n : n \in S}
<1>1. T \subseteq FiniteSubsetsOf(Nat) /\ T # {}
  <2>1. \A n \in S : 1..n \in SUBSET Nat /\ IsFiniteSet(1..n)
    BY FS_Interval
  <2>2. QED
    BY <2>1 DEF FiniteSubsetsOf
<1>2. PICK x \in T : \A y \in T : ~(<<y, x>> \in StrictSubsetOrdering(Nat))
  <2> HIDE DEF T
  <2>1. QED
    BY <1>1, FS_StrictSubsetOrderingWellFounded, WFMin
<1>3. PICK m \in S : x = 1..m
  OBVIOUS
<1>4. ASSUME NEW k \in S, k < m PROVE FALSE
  <2>1. 1..k \subseteq 1..m /\ m \in 1..m /\ m \notin 1..k
    BY <1>4
  <2>2. <<1..k, x>> \in StrictSubsetOrdering(Nat)
    BY <2>1, <1>3 DEF StrictSubsetOrdering
  <2>3. QED
    BY <1>2, <2>2
<1>5. QED
  BY <1>4

LEMMA GreatestNumber ==
  ASSUME NEW S \in SUBSET Nat, S # {}, NEW n \in Nat, \A k \in S : k <= n
  PROVE  \E m \in S : \A k \in S : k <= m
<1> DEFINE T == {d \in 0..n : n - d \in S}
<1>1. T \in SUBSET Nat
  OBVIOUS
<1>2. \A k \in S : n - k \in T
  OBVIOUS
<1>3. T # {}
  BY <1>2
<1>4. PICK d \in T : \A e \in T : d <= e
  <2> HIDE DEF T
  <2>1. QED
    BY <1>1, <1>3, LeastNumber
<1>5. \A k \in S : k <= n - d
  <2>1. SUFFICES ASSUME NEW k \in S PROVE k <= n - d
    OBVIOUS
  <2>2. d <= n - k
    BY <1>2, <1>4
  <2>3. QED
    BY <2>2
<1>6. QED
  BY <1>5


\* What the history says of a key when a row is added to it.
LEMMA RecordedNext ==
  ASSUME Typed, NEW row \in HistoryRows, history' = Append(history, row), NEW k \in Keys
  PROVE  Recorded(k)' = IF row.key = k THEN row.new ELSE Recorded(k)
<1> DEFINE n == Len(history)
           mine == {c \in DOMAIN history : history[c].key = k}
           more == {c \in DOMAIN history' : history'[c].key = k}
<1>1. /\ n \in Nat /\ DOMAIN history = 1..n /\ DOMAIN history' = 1..(n + 1)
      /\ history'[n + 1] = row /\ \A c \in 1..n : history'[c] = history[c]
  BY AppendProperties, LenProperties DEF Typed
<1>2. Recorded(k) = IF mine = {} THEN Default
                    ELSE history[CHOOSE c \in mine : \A d \in mine : d <= c].new
  BY DEF Recorded
<1>3. Recorded(k)' = IF more = {} THEN Default
                     ELSE history'[CHOOSE c \in more : \A d \in more : d <= c].new
  BY DEF Recorded
<1>4. CASE row.key = k
  <2>1. n + 1 \in more /\ \A c \in more : c <= n + 1 /\ c \in Nat
    BY <1>1, <1>4
  <2> DEFINE m == CHOOSE c \in more : \A d \in more : d <= c
  <2> HIDE DEF more
  <2>2. m \in more /\ \A d \in more : d <= m
    BY <2>1
  <2> HIDE DEF m
  <2>3. m <= n + 1 /\ n + 1 <= m /\ m \in Nat
    BY <2>1, <2>2
  <2>4. m = n + 1
    BY <1>1, <2>3
  <2>5. Recorded(k)' = history'[m].new
    BY <1>3, <2>1 DEF m
  <2>6. QED
    BY <1>1, <1>4, <2>4, <2>5
<1>5. CASE row.key # k
  <2>1. more = mine
    BY <1>1, <1>5
  <2>2. CASE mine = {}
    BY <1>2, <1>3, <1>5, <2>1, <2>2
  <2>3. CASE mine # {}
    <3> DEFINE m == CHOOSE c \in mine : \A d \in mine : d <= c
    <3>1. mine \in SUBSET Nat /\ \A c \in mine : c <= n
      BY <1>1
    <3>2. \A c \in mine : history'[c] = history[c]
      BY <1>1
    <3> HIDE DEF mine
    <3>3. \E c \in mine : \A d \in mine : d <= c
      BY <1>1, <2>3, <3>1, GreatestNumber
    <3>4. m \in mine
      BY <3>3
    <3>5. Recorded(k) = history[m].new /\ Recorded(k)' = history'[m].new
      <4> HIDE DEF more
      <4>1. QED
        BY <1>2, <1>3, <2>1, <2>3
    <3>6. QED
      BY <1>5, <3>2, <3>4, <3>5
  <2>4. QED
    BY <2>2, <2>3
<1>6. QED
  BY <1>4, <1>5

\* How a step of the system can touch the store.
LEMMA ConfigMoves ==
  ASSUME [Next]_vars
  PROVE  \/ UNCHANGED config
         \/ /\ \E w \in Workers : \E j : Take(w, j) /\ j.pc = "read"
            /\ UNCHANGED <<file, history, faults>>
         \/ \E w \in Workers : Change(w) \/ Record(w) \/ RecordFails(w)
         \/ Die
<1> DEFINE Goal == \/ UNCHANGED config
                   \/ /\ \E w \in Workers : \E j : Take(w, j) /\ j.pc = "read"
                      /\ UNCHANGED <<file, history, faults>>
                   \/ \E w \in Workers : Change(w) \/ Record(w) \/ RecordFails(w)
                   \/ Die
<1> SUFFICES Goal
  OBVIOUS
<1>1. ASSUME NEW s \in DOMAIN sessions, Turn(s) \/ Evict(s) PROVE Goal
  BY <1>1 DEF Turn, Consult, Stage, Reply, GiveUp, Evict
<1>2. CASE Ask \/ Receive \/ Lose \/ Switch \/ UNCHANGED vars
  BY <1>2 DEF Ask, Receive, Lose, Switch, vars
<1>3. ASSUME NEW i \in 1..MaxStaged, Confirm(i) PROVE Goal
  BY <1>3 DEF Confirm
<1>4. ASSUME NEW w \in Workers, Pop(w) PROVE Goal
  <2> DEFINE s == page.of
             i == page.index
             p == sessions[s].staged[i]
             j == [Nothing EXCEPT !.pc = "read", !.user = User, !.key = p.key,
                     !.old = p.old, !.new = p.new, !.of = p.id, !.meant = Meant(i)]
  <2>1. CASE sessions[s].open /\ i \in DOMAIN sessions[s].staged
    <3>1. Take(w, j) /\ UNCHANGED <<file, history, faults>>
      BY <1>4, <2>1 DEF Pop
    <3>2. j.pc = "read"
      BY DEF Nothing
    <3> HIDE DEF j
    <3>3. QED
      BY <3>1, <3>2
  <2>2. CASE ~(sessions[s].open /\ i \in DOMAIN sessions[s].staged)
    BY <1>4, <2>2 DEF Pop, config
  <2>3. QED
    BY <2>1, <2>2
<1>5. ASSUME NEW w \in Workers, Work(w) PROVE Goal
  BY <1>5 DEF Work, Recording
<1>6. ASSUME NEW w \in Workers, NEW u, NEW k, NEW v, Take(w, Proposal(u, k, v)),
             UNCHANGED <<file, history, faults>>
      PROVE  Goal
  <2>1. Proposal(u, k, v).pc = "read"
    BY DEF Proposal, Nothing
  <2>2. QED
    BY <1>6, <2>1
<1>7. ASSUME NEW w \in Workers, NEW u \in Users, NEW k \in Keys,
             NEW v \in Values \ {file[k]}, Apply(w, u, k, v)
      PROVE  Goal
  <2> HIDE DEF Goal
  <2>1. QED
    BY <1>6, <1>7 DEF Apply
<1>8. ASSUME NEW w \in Workers, NEW u \in Users, NEW c \in DOMAIN history, Revert(w, u, c)
      PROVE  Goal
  <2> HIDE DEF Goal
  <2>1. QED
    BY <1>6, <1>8 DEF Revert
<1>9. CASE Restart
  BY <1>9 DEF Restart
<1>10. QED
  <2> HIDE DEF Goal
  <2>1. QED
    BY <1>1, <1>2, <1>3, <1>4, <1>5, <1>7, <1>8, <1>9 DEF Next

LEMMA ChronicleInit == Init => Chronicle
BY ConfigAssumption DEF Init, ConfigInit, Chronicle, NoSolo

\* The row a change adds, and what the history says after it.
LEMMA Recordings ==
  ASSUME Typed, NEW w \in Workers, Record(w)
  PROVE  \A k \in Keys : Recorded(k)' = After(w, k)
<1> DEFINE row == Row(job[w])
<1>1. job[w] \in Changes /\ SoundChange(job[w])
  BY DEF Typed
<1>2. At(w, "record") /\ history' = Append(history, row)
  BY DEF Record
<1>3. row.key = job[w].key /\ row.new = job[w].new
  BY DEF Row
<1>4. row \in HistoryRows
  BY <1>1, <1>2 DEF At, Row, SoundChange, Changes, HistoryRows
<1> HIDE DEF row
<1>5. QED
  BY <1>2, <1>3, <1>4, RecordedNext DEF After

\* A change goes on; the one that met no other still has not.
LEMMA ChronicleChange ==
  ASSUME Typed, Chronicle, NEW w \in Workers, Change(w), solo.by = w
  PROVE  Chronicle'
<1>1. /\ ~At(w, "idle") /\ \A v \in Workers : v # w => At(v, "idle")
      /\ \A v \in Workers : v # w => job'[v] = job[v]
      /\ solo' = solo /\ history' = history
  BY DEF Chronicle, Change, Read, Truncate, Write, Become, Goto, Typed
<1>2. job[w] \in Changes /\ SoundChange(job[w]) /\ solo.agreed \subseteq Keys
  BY DEF Typed, Solos
<1>3. \A k : Recorded(k)' = Recorded(k)
  BY <1>1 DEF Recorded
<1> DEFINE mine == solo.agreed \cup {job[w].key}
<1>4. CASE Read(w)
  <2>1. /\ job'[w].pc = "truncate" /\ job'[w].key = job[w].key
        /\ job'[w].new = job[w].new /\ job'[w].data = Merged(job[w].key, job[w].new)
    BY <1>2, <1>4 DEF Read, Become, Changes, Typed
  <2>2. job[w].key \in Keys /\ At(w, "read")
    BY <1>2, <1>4 DEF Read, At, SoundChange
  <2>3. \A k \in Keys : Merged(job[w].key, job[w].new)[k] =
          IF k = job[w].key THEN job[w].new ELSE file[k]
    BY DEF Merged, Typed
  <2>4. \A k \in solo.agreed : file[k] = Recorded(k)
    BY <2>2 DEF Chronicle
  <2>5. \A k \in mine : job'[w].data[k] = After(w, k)'
    BY <1>2, <1>3, <2>1, <2>2, <2>3, <2>4 DEF After
  <2>6. QED
    BY <1>1, <2>1, <2>5 DEF Chronicle, At
<1>5. CASE Truncate(w)
  <2>1. At(w, "truncate") /\ job'[w] = [job[w] EXCEPT !.pc = "write"]
    BY <1>5 DEF Truncate, Goto, Typed
  <2>2. job'[w].pc = "write" /\ job'[w].key = job[w].key
        /\ job'[w].new = job[w].new /\ job'[w].data = job[w].data
    BY <1>2, <2>1 DEF Changes
  <2>3. \A k \in mine : job[w].data[k] = After(w, k)
    BY <2>1 DEF Chronicle
  <2>4. \A k \in mine : job'[w].data[k] = After(w, k)'
    BY <1>3, <2>2, <2>3 DEF After
  <2>5. QED
    BY <1>1, <2>2, <2>4 DEF Chronicle, At
<1>6. CASE Write(w)
  <2>1. At(w, "write") /\ job'[w] = [job[w] EXCEPT !.pc = "record"]
        /\ file' = job[w].data
    BY <1>6 DEF Write, Goto, Typed
  <2>2. job'[w].pc = "record" /\ job'[w].key = job[w].key /\ job'[w].new = job[w].new
    BY <1>2, <2>1 DEF Changes
  <2>3. \A k \in mine : job[w].data[k] = After(w, k)
    BY <2>1 DEF Chronicle
  <2>4. \A k \in mine : file'[k] = After(w, k)'
    BY <1>3, <2>1, <2>2, <2>3 DEF After
  <2>5. QED
    BY <1>1, <2>2, <2>4 DEF Chronicle, At
<1>7. QED
  BY <1>4, <1>5, <1>6 DEF Change

LEMMA ChronicleNext == Typed /\ Chronicle /\ [Next]_vars => Chronicle'
<1> SUFFICES ASSUME Typed, Chronicle, [Next]_vars PROVE Chronicle'
  OBVIOUS
<1>1. CASE UNCHANGED config
  <2>1. \A k : Recorded(k)' = Recorded(k)
    BY <1>1 DEF Recorded, config
  <2>2. \A w, k : After(w, k)' = After(w, k)
    BY <1>1, <2>1 DEF After, config
  <2>3. QED
    BY <1>1, <2>1, <2>2 DEF Chronicle, At, config
<1>2. ASSUME solo' = NoSolo PROVE Chronicle'
  BY <1>2, ConfigAssumption DEF Chronicle, NoSolo
<1>3. ASSUME NEW w \in Workers, NEW j, Take(w, j), j.pc = "read",
             UNCHANGED <<file, history, faults>>
      PROVE  Chronicle'
  <2>1. CASE \A v \in Workers : At(v, "idle")
    <3>1. /\ \A v \in Workers : v # w => At(v, "idle")'
          /\ job'[w].pc = "read"
      BY <1>3, <2>1 DEF Take, Become, At, Typed
    <3>2. solo'.by = w /\ solo'.agreed = Agreed
      BY <1>3, <2>1 DEF Take
    <3>3. \A k : Recorded(k)' = Recorded(k)
      BY <1>3 DEF Recorded
    <3>4. \A k \in solo'.agreed : file'[k] = Recorded(k)'
      BY <1>3, <3>2, <3>3 DEF Agreed
    <3>5. QED
      BY <3>1, <3>2, <3>4 DEF Chronicle, At
  <2>2. CASE ~\A v \in Workers : At(v, "idle")
    BY <1>2, <1>3, <2>2 DEF Take
  <2>3. QED
    BY <2>1, <2>2
<1>4. ASSUME NEW w \in Workers, Change(w) \/ Record(w) \/ RecordFails(w)
      PROVE  Chronicle'
  <2>1. ~At(w, "idle")
    BY <1>4 DEF Change, Read, Truncate, Write, Record, RecordFails, At
  <2>2. solo.by \in Workers => solo.by = w
    BY <2>1 DEF Chronicle
  <2>3. CASE solo.by = w
    <3>1. Record(w) \/ RecordFails(w) => solo' = NoSolo
      BY <2>3 DEF Record, RecordFails, Leave
    <3>2. QED
      BY <1>2, <1>4, <2>3, <3>1, ChronicleChange
  <2>4. CASE solo.by # w
    <3>1. solo' = solo
      BY <1>4, <2>4 DEF Change, Read, Truncate, Write, Record, RecordFails, Leave
    <3>2. QED
      BY <2>2, <2>4, <3>1 DEF Chronicle
  <2>5. QED
    BY <2>3, <2>4
<1>5. CASE Die
  BY <1>2, <1>5 DEF Die
<1>6. QED
  BY <1>1, <1>3, <1>4, <1>5, ConfigMoves

\* Only the insert of a row changes the history.
LEMMA OnlyRecords ==
  ASSUME Typed, [Next]_vars, history' # history
  PROVE  \E w \in Workers : Record(w)
BY ConfigMoves
   DEF config, Take, Change, Read, Truncate, Write, RecordFails, Die

\* However many change the configuration at once, die or fail to record it: a
\* change that reached its row without meeting another leaves its threshold,
\* and every one that was, explained by the history (config.py:1162-1176).
THEOREM ChangeExplainedEver == Spec => ChangeExplained
<1> DEFINE Explains ==
      history' # history /\ solo.by \in Workers =>
        solo.agreed \cup {job[solo.by].key} \subseteq Agreed'
<1>1. Typed /\ Chronicle /\ [Next]_vars => [Explains]_<<config, faults>>
  <2> SUFFICES ASSUME Typed, Chronicle, [Next]_vars, history' # history,
                      solo.by \in Workers
               PROVE  solo.agreed \cup {job[solo.by].key} \subseteq Agreed'
    OBVIOUS
  <2>1. PICK w \in Workers : Record(w)
    BY OnlyRecords
  <2>2. At(w, "record") /\ UNCHANGED file
    BY <2>1 DEF Record
  <2>3. solo.by = w
    BY <2>2 DEF Chronicle, At
  <2>4. job[w].key \in Keys /\ solo.agreed \subseteq Keys
    BY <2>2 DEF Typed, SoundChange, At, Solos
  <2>5. \A k \in solo.agreed \cup {job[w].key} : file[k] = After(w, k)
    BY <2>2, <2>3 DEF Chronicle
  <2>6. \A k \in Keys : Recorded(k)' = After(w, k)
    BY <2>1, Recordings
  <2>7. QED
    BY <2>2, <2>3, <2>4, <2>5, <2>6 DEF Agreed
<1>2. QED
  BY <1>1, TypedInit, TypedNext, ChronicleInit, ChronicleNext, PTL
     DEF Spec, ChangeExplained

-----------------------------------------------------------------------------
(* Where a proposal is.                                                    *)

Staged(s, i) == sessions[s].staged[i].id

Single ==
  /\ \A s \in DOMAIN sessions : \A i \in DOMAIN sessions[s].staged :
       /\ Staged(s, i) \in 1..used.staged
       /\ \A c \in DOMAIN history : history[c].of # Staged(s, i)
       /\ \A w \in Workers : job[w].of # Staged(s, i)
       /\ \A t \in DOMAIN sessions : \A j \in DOMAIN sessions[t].staged :
            Staged(t, j) = Staged(s, i) => t = s /\ j = i
  /\ \A c \in DOMAIN history : history[c].of # None =>
       /\ history[c].of \in 1..used.staged
       /\ \A d \in DOMAIN history : history[d].of = history[c].of => d = c
       /\ \A w \in Workers : job[w].of # history[c].of
  /\ \A w \in Workers : FromChat(job[w]) =>
       /\ job[w].of \in 1..used.staged
       /\ \A v \in Workers : job[v].of = job[w].of => v = w

LEMMA SingleInit == Init => Single
<1> SUFFICES ASSUME Init PROVE Single
  OBVIOUS
<1>1. \A s \in DOMAIN sessions : sessions[s].staged = << >>
  BY DEF Init, NewSession
<1>2. history = << >> /\ \A w \in Workers : job[w].of = None
  BY DEF Init, ConfigInit, Nothing
<1>3. QED
  BY <1>1, <1>2 DEF Single, FromChat

\* Proposals that stay where they are, or go with a session or a worker.
KeepsStaged ==
  \A s \in DOMAIN sessions' : \/ sessions'[s].staged = << >>
                              \/ /\ s \in DOMAIN sessions
                                 /\ sessions'[s].staged = sessions[s].staged

KeepsJobs == \A w \in Workers : job'[w].of \in {job[w].of, None}

LEMMA SingleKept ==
  ASSUME Single, KeepsStaged, KeepsJobs, UNCHANGED history, used'.staged = used.staged
  PROVE  Single'
<1>1. \A n \in 1..used.staged : n # None
  BY ConfigAssumption
<1>2. ASSUME NEW s \in DOMAIN sessions', NEW i \in DOMAIN sessions'[s].staged
      PROVE  /\ s \in DOMAIN sessions /\ i \in DOMAIN sessions[s].staged
             /\ Staged(s, i)' = Staged(s, i)
  BY DEF KeepsStaged, Staged
<1>3. ASSUME NEW s \in DOMAIN sessions', NEW i \in DOMAIN sessions'[s].staged
      PROVE  /\ Staged(s, i)' \in 1..used'.staged
             /\ \A c \in DOMAIN history' : history'[c].of # Staged(s, i)'
             /\ \A w \in Workers : job'[w].of # Staged(s, i)'
             /\ \A t \in DOMAIN sessions' : \A j \in DOMAIN sessions'[t].staged :
                  Staged(t, j)' = Staged(s, i)' => t = s /\ j = i
  <2>1. s \in DOMAIN sessions /\ i \in DOMAIN sessions[s].staged
        /\ Staged(s, i)' = Staged(s, i)
    BY <1>2
  <2>2. /\ Staged(s, i) \in 1..used.staged
        /\ \A c \in DOMAIN history : history[c].of # Staged(s, i)
        /\ \A w \in Workers : job[w].of # Staged(s, i)
    BY <2>1 DEF Single
  <2>3. \A w \in Workers : job'[w].of # Staged(s, i)
    BY <1>1, <2>2 DEF KeepsJobs
  <2>4. ASSUME NEW t \in DOMAIN sessions', NEW j \in DOMAIN sessions'[t].staged,
               Staged(t, j)' = Staged(s, i)'
        PROVE  t = s /\ j = i
    BY <1>2, <2>1, <2>4 DEF Single
  <2>5. QED
    BY <2>1, <2>2, <2>3, <2>4
<1>4. ASSUME NEW c \in DOMAIN history', history'[c].of # None
      PROVE  /\ history'[c].of \in 1..used'.staged
             /\ \A d \in DOMAIN history' : history'[d].of = history'[c].of => d = c
             /\ \A w \in Workers : job'[w].of # history'[c].of
  BY <1>4 DEF Single, KeepsJobs
<1>5. ASSUME NEW w \in Workers, FromChat(job'[w])
      PROVE  /\ job'[w].of \in 1..used'.staged
             /\ \A v \in Workers : job'[v].of = job'[w].of => v = w
  <2>1. job'[w].of = job[w].of /\ FromChat(job[w])
    BY <1>5 DEF KeepsJobs, FromChat
  <2>2. job[w].of \in 1..used.staged
        /\ \A v \in Workers : job[v].of = job[w].of => v = w
    BY <2>1 DEF Single
  <2>3. \A v \in Workers : job'[v].of = job[w].of => job[v].of = job[w].of
    BY <2>1 DEF KeepsJobs, FromChat
  <2>4. QED
    BY <2>1, <2>2, <2>3
<1>6. QED
  BY <1>3, <1>4, <1>5 DEF Single

\* A proposal that is staged has a number of its own.
LEMMA SingleStage ==
  ASSUME Typed, Single, NEW s \in DOMAIN sessions, NEW k \in Keys, NEW v \in Values,
         Stage(s, k, v)
  PROVE  Single'
<1> DEFINE n == used.staged + 1
           p == [id |-> n, key |-> k, old |-> file[k], new |-> v]
           q == sessions[s].staged
<1>1. n \in Nat /\ used'.staged = n /\ UNCHANGED <<history, job>>
  BY UsedGrows DEF Stage, Typed, config
<1>2. p \in Proposals /\ p.id = n
  BY <1>1 DEF Typed, Proposals
<1>3. /\ DOMAIN sessions' = DOMAIN sessions
      /\ sessions'[s].staged = Append(q, p)
      /\ \A t \in DOMAIN sessions : t # s => sessions'[t] = sessions[t]
  <2>1. sessions[s] \in Sessions
    BY StagedTyped
  <2>2. sessions' = [sessions EXCEPT ![s] = [sessions[s] EXCEPT !.step = @ + 1,
                                                   !.staged = Append(q, p)]]
    BY DEF Stage, Put
  <2> HIDE DEF p, q
  <2>3. QED
    BY <2>1, <2>2 DEF Sessions
<1>4. /\ DOMAIN Append(q, p) = 1..(Len(q) + 1) /\ DOMAIN q = 1..Len(q) /\ Len(q) \in Nat
      /\ Append(q, p)[Len(q) + 1] = p
      /\ \A i \in 1..Len(q) : Append(q, p)[i] = q[i]
  <2> HIDE DEF p
  <2>1. QED
    BY <1>2, StagedTyped, AppendProperties, LenProperties
<1> HIDE DEF p
<1>5. ASSUME NEW t \in DOMAIN sessions', NEW j \in DOMAIN sessions'[t].staged
      PROVE  \/ /\ j \in DOMAIN sessions[t].staged /\ Staged(t, j)' = Staged(t, j)
                /\ Staged(t, j) \in 1..used.staged
             \/ t = s /\ j = Len(q) + 1 /\ Staged(t, j)' = n
  <2>1. CASE t # s
    BY <1>3, <2>1 DEF Staged, Single
  <2>2. CASE t = s /\ j = Len(q) + 1
    BY <1>2, <1>3, <1>4, <2>2 DEF Staged
  <2>3. CASE t = s /\ j # Len(q) + 1
    <3>1. j \in 1..Len(q)
      BY <1>3, <1>4, <2>3
    <3>2. QED
      BY <1>3, <1>4, <2>3, <3>1 DEF Staged, Single
  <2>4. QED
    BY <2>1, <2>2, <2>3
<1>6. used.staged \in Nat /\ None # n /\ n \notin 1..used.staged
      /\ 1..used.staged \subseteq 1..n /\ n \in 1..n
  BY <1>1, ConfigAssumption DEF Typed
<1>7. /\ \A c \in DOMAIN history : history[c].of # n
      /\ \A w \in Workers : job[w].of # n
  BY <1>6 DEF Single, FromChat
<1> HIDE DEF n, q
<1>8. ASSUME NEW t \in DOMAIN sessions', NEW i \in DOMAIN sessions'[t].staged
      PROVE  /\ Staged(t, i)' \in 1..n
             /\ \A c \in DOMAIN history : history[c].of # Staged(t, i)'
             /\ \A w \in Workers : job[w].of # Staged(t, i)'
             /\ \A u \in DOMAIN sessions' : \A j \in DOMAIN sessions'[u].staged :
                  Staged(u, j)' = Staged(t, i)' => u = t /\ j = i
  <2>1. CASE t = s /\ i = Len(q) + 1 /\ Staged(t, i)' = n
    BY <1>5, <1>6, <1>7, <2>1
  <2>2. CASE /\ i \in DOMAIN sessions[t].staged /\ Staged(t, i)' = Staged(t, i)
             /\ Staged(t, i) \in 1..used.staged
    <3>1. t \in DOMAIN sessions
      BY <1>3
    <3>2. /\ \A c \in DOMAIN history : history[c].of # Staged(t, i)
          /\ \A w \in Workers : job[w].of # Staged(t, i)
          /\ \A u \in DOMAIN sessions : \A j \in DOMAIN sessions[u].staged :
               Staged(u, j) = Staged(t, i) => u = t /\ j = i
      BY <2>2, <3>1 DEF Single
    <3>3. ASSUME NEW u \in DOMAIN sessions', NEW j \in DOMAIN sessions'[u].staged,
                 Staged(u, j)' = Staged(t, i)'
          PROVE  u = t /\ j = i
      BY <1>3, <1>5, <1>6, <2>2, <3>2, <3>3
    <3>4. QED
      BY <1>6, <2>2, <3>2, <3>3
  <2>3. QED
    BY <1>5, <2>1, <2>2
<1>9. QED
  BY <1>1, <1>6, <1>8 DEF Single, FromChat

\* A proposal that is popped goes to one worker.
LEMMA SinglePop ==
  ASSUME Typed, Single, NEW w \in Workers, Pop(w)
  PROVE  Single'
<1> DEFINE s == page.of
           i == page.index
           q == sessions[s].staged
           r == SubSeq(q, 1, i - 1) \o SubSeq(q, i + 1, Len(q))
           n == q[i].id
<1>1. CASE ~(sessions[s].open /\ i \in DOMAIN q)
  <2>1. UNCHANGED <<job, sessions, history, used>>
    BY <1>1 DEF Pop
  <2>2. KeepsStaged /\ KeepsJobs
    BY <2>1 DEF KeepsStaged, KeepsJobs
  <2>3. QED
    BY <2>1, <2>2, SingleKept
<1>2. CASE sessions[s].open /\ i \in DOMAIN q
  <2>1. s \in DOMAIN sessions
    BY DEF Typed
  <2>2. q \in Seq(Proposals) /\ i \in 1..Len(q) /\ DOMAIN q = 1..Len(q) /\ Len(q) \in Nat
    BY <1>2, <2>1, StagedTyped
  <2>3. /\ r \in Seq(Proposals) /\ Len(r) = Len(q) - 1
        /\ \A j \in 1..Len(r) : r[j] = IF j < i THEN q[j] ELSE q[j + 1]
    <3> HIDE DEF q, i
    <3>1. QED
      BY <2>2, Removed
  <2>4. DOMAIN r = 1..(Len(q) - 1)
    <3> HIDE DEF r, q
    <3>1. QED
      BY <2>3, LenProperties
  <2>5. UNCHANGED <<history, used>>
    BY <1>2 DEF Pop
  <2>6. job'[w].of = n /\ \A v \in Workers : v # w => job'[v] = job[v]
    <3> DEFINE p == q[i]
               j == [Nothing EXCEPT !.pc = "read", !.user = User, !.key = p.key,
                       !.old = p.old, !.new = p.new, !.of = p.id, !.meant = Meant(i)]
    <3>1. Take(w, j)
      BY <1>2 DEF Pop
    <3>2. j.of = n
      BY DEF Nothing
    <3> HIDE DEF j, n
    <3>3. QED
      BY <3>1, <3>2 DEF Take, Become, Typed
  <2>7. /\ DOMAIN sessions' = DOMAIN sessions /\ sessions'[s].staged = r
        /\ \A t \in DOMAIN sessions : t # s => sessions'[t] = sessions[t]
    <3>1. sessions[s] \in Sessions
      BY <2>1, StagedTyped
    <3>2. sessions' = [sessions EXCEPT ![s] = [sessions[s] EXCEPT !.staged = r]]
      BY <1>2 DEF Pop, Popped, Put
    <3> HIDE DEF r, s
    <3>3. QED
      BY <2>1, <3>1, <3>2 DEF Sessions
  <2>8. Staged(s, i) = n
    BY DEF Staged
  <2>9. /\ n \in 1..used.staged
        /\ \A c \in DOMAIN history : history[c].of # n
        /\ \A v \in Workers : job[v].of # n
        /\ \A t \in DOMAIN sessions : \A j \in DOMAIN sessions[t].staged :
             Staged(t, j) = n => t = s /\ j = i
    <3> HIDE DEF n, q, s, i
    <3>1. QED
      BY <2>1, <2>2, <2>8 DEF Single, q
  <2> HIDE DEF n, r, s, i
  \* Where a proposal that is still staged was before.
  <2>10. ASSUME NEW t \in DOMAIN sessions', NEW j \in DOMAIN sessions'[t].staged
         PROVE  \E k \in DOMAIN sessions[t].staged :
                  /\ Staged(t, j)' = Staged(t, k) /\ ~(t = s /\ k = i)
                  /\ k = IF t = s /\ j >= i THEN j + 1 ELSE j
    <3>1. CASE t # s
      BY <2>7, <3>1 DEF Staged
    <3>2. CASE t = s
      <4>1. j \in 1..(Len(q) - 1) /\ Staged(t, j)' = r[j].id
        BY <2>4, <2>7, <3>2 DEF Staged
      <4>2. r[j] = IF j < i THEN q[j] ELSE q[j + 1]
        BY <2>2, <2>3, <4>1
      <4> HIDE DEF q
      <4>3. /\ j \in 1..Len(q) /\ j + 1 \in 1..Len(q) /\ j + 1 # j
            /\ j < i => j # i
            /\ ~(j < i) => j + 1 # i /\ j >= i
            /\ j < i => ~(j >= i)
        BY <2>2, <4>1
      <4>4. CASE j < i
        BY <2>2, <3>2, <4>1, <4>2, <4>3, <4>4 DEF Staged, q
      <4>5. CASE ~(j < i)
        BY <2>2, <3>2, <4>1, <4>2, <4>3, <4>5 DEF Staged, q
      <4>6. QED
        BY <4>4, <4>5
    <3>3. QED
      BY <3>1, <3>2
  <2>11. ASSUME NEW t \in DOMAIN sessions', NEW j \in DOMAIN sessions'[t].staged
         PROVE  /\ Staged(t, j)' \in 1..used.staged
                /\ \A c \in DOMAIN history : history[c].of # Staged(t, j)'
                /\ \A v \in Workers : job'[v].of # Staged(t, j)'
                /\ \A u \in DOMAIN sessions' : \A l \in DOMAIN sessions'[u].staged :
                     Staged(u, l)' = Staged(t, j)' => u = t /\ l = j
    <3>1. t \in DOMAIN sessions
      BY <2>7
    <3>2. PICK k \in DOMAIN sessions[t].staged :
                  /\ Staged(t, j)' = Staged(t, k) /\ ~(t = s /\ k = i)
                  /\ k = IF t = s /\ j >= i THEN j + 1 ELSE j
      BY <2>10
    <3>3. /\ Staged(t, k) \in 1..used.staged
          /\ \A c \in DOMAIN history : history[c].of # Staged(t, k)
          /\ \A v \in Workers : job[v].of # Staged(t, k)
          /\ \A u \in DOMAIN sessions : \A l \in DOMAIN sessions[u].staged :
               Staged(u, l) = Staged(t, k) => u = t /\ l = k
      BY <3>1 DEF Single
    <3>4. Staged(t, k) # n
      BY <2>9, <3>1, <3>2
    <3>5. \A v \in Workers : job'[v].of # Staged(t, k)
      BY <2>6, <3>3, <3>4
    <3>6. ASSUME NEW u \in DOMAIN sessions', NEW l \in DOMAIN sessions'[u].staged,
                 Staged(u, l)' = Staged(t, j)'
          PROVE  u = t /\ l = j
      <4>1. PICK m \in DOMAIN sessions[u].staged :
                   /\ Staged(u, l)' = Staged(u, m) /\ ~(u = s /\ m = i)
                   /\ m = IF u = s /\ l >= i THEN l + 1 ELSE l
        BY <2>10
      <4>2. u = t /\ m = k
        BY <2>7, <3>2, <3>3, <3>6, <4>1
      <4>3. CASE t # s
        BY <3>2, <4>1, <4>2, <4>3
      <4>4. CASE t = s
        <5>1. j \in Nat /\ l \in Nat /\ i \in Nat
          <6> HIDE DEF q
          <6>1. j \in 1..(Len(q) - 1) /\ l \in 1..(Len(q) - 1) /\ i \in 1..Len(q)
            BY <2>2, <2>4, <2>7, <4>2, <4>4
          <6>2. QED
            BY <2>2, <6>1
        <5>2. /\ k = IF j >= i THEN j + 1 ELSE j
              /\ k = IF l >= i THEN l + 1 ELSE l
          BY <3>2, <4>1, <4>2, <4>4
        <5>3. l = j
          BY <5>1, <5>2
        <5>4. QED
          BY <4>2, <5>3
      <4>5. QED
        BY <4>3, <4>4
    <3>7. QED
      BY <2>5, <3>2, <3>3, <3>5, <3>6
  <2>12. ASSUME NEW c \in DOMAIN history, history[c].of # None
         PROVE  /\ history[c].of \in 1..used.staged
                /\ \A d \in DOMAIN history : history[d].of = history[c].of => d = c
                /\ \A v \in Workers : job'[v].of # history[c].of
    BY <2>6, <2>9, <2>12 DEF Single
  <2>13. ASSUME NEW v \in Workers, FromChat(job'[v])
         PROVE  /\ job'[v].of \in 1..used.staged
                /\ \A u \in Workers : job'[u].of = job'[v].of => u = v
    <3>1. CASE v = w
      BY <2>6, <2>9, <3>1
    <3>2. CASE v # w
      BY <2>6, <2>9, <2>13, <3>2 DEF Single, FromChat
    <3>3. QED
      BY <3>1, <3>2
  <2>14. QED
    BY <2>5, <2>11, <2>12, <2>13 DEF Single
<1>3. QED
  BY <1>1, <1>2

\* A proposal that is applied goes from its worker to the history.
LEMMA SingleRecord ==
  ASSUME Typed, Single, NEW w \in Workers, Record(w), UNCHANGED <<sessions, page, used>>
  PROVE  Single'
<1> DEFINE n == Len(history)
           row == Row(job[w])
<1>1. /\ UNCHANGED <<sessions, used>>
      /\ \A s \in DOMAIN sessions : \A i \in DOMAIN sessions[s].staged :
           Staged(s, i)' = Staged(s, i)
  BY DEF Staged
<1>2. row \in HistoryRows /\ row.of = job[w].of
  BY DEF Record, At, Row, Typed, SoundChange, Changes, HistoryRows
<1>3. history' = Append(history, row)
  BY DEF Record
<1> HIDE DEF row
<1>4. /\ n \in Nat /\ DOMAIN history = 1..n /\ DOMAIN history' = 1..(n + 1)
      /\ history'[n + 1] = row /\ \A c \in 1..n : history'[c] = history[c]
  BY <1>2, <1>3, AppendProperties, LenProperties DEF Typed
<1>5. job'[w].of = None /\ \A v \in Workers : v # w => job'[v] = job[v]
  BY DEF Record, Leave, Become, Nothing, Typed
<1>6. \A m \in 1..used.staged : m # None
  BY ConfigAssumption
<1>7. ASSUME NEW c \in DOMAIN history'
      PROVE  \/ c \in DOMAIN history /\ history'[c] = history[c]
             \/ c = n + 1 /\ history'[c].of = job[w].of
  <2> HIDE DEF n
  <2>1. c \in 1..n \/ c = n + 1
    BY <1>4
  <2>2. QED
    BY <1>2, <1>4, <2>1, Zenon
<1>8. ASSUME NEW s \in DOMAIN sessions, NEW i \in DOMAIN sessions[s].staged
      PROVE  /\ Staged(s, i) \in 1..used.staged
             /\ \A c \in DOMAIN history' : history'[c].of # Staged(s, i)
             /\ \A v \in Workers : job'[v].of # Staged(s, i)
             /\ \A t \in DOMAIN sessions : \A j \in DOMAIN sessions[t].staged :
                  Staged(t, j) = Staged(s, i) => t = s /\ j = i
  BY <1>5, <1>6, <1>7 DEF Single
<1>9. ASSUME NEW c \in DOMAIN history', history'[c].of # None
      PROVE  /\ history'[c].of \in 1..used.staged
             /\ \A d \in DOMAIN history' : history'[d].of = history'[c].of => d = c
             /\ \A v \in Workers : job'[v].of # history'[c].of
  <2>1. CASE c \in DOMAIN history /\ history'[c] = history[c]
    <3>1. /\ history[c].of \in 1..used.staged
          /\ \A d \in DOMAIN history : history[d].of = history[c].of => d = c
          /\ \A v \in Workers : job[v].of # history[c].of
      BY <1>9, <2>1 DEF Single
    <3>2. QED
      BY <1>5, <1>7, <1>9, <2>1, <3>1
  <2>2. CASE c = n + 1 /\ history'[c].of = job[w].of
    <3>1. FromChat(job[w])
      BY <1>9, <2>2 DEF FromChat
    <3>2. /\ job[w].of \in 1..used.staged
          /\ \A v \in Workers : job[v].of = job[w].of => v = w
      BY <3>1 DEF Single
    <3>3. \A d \in DOMAIN history : history[d].of # job[w].of
      BY <3>1 DEF Single, FromChat
    <3>4. QED
      BY <1>5, <1>7, <1>9, <2>2, <3>2, <3>3
  <2>3. QED
    BY <1>7, <2>1, <2>2
<1>10. ASSUME NEW v \in Workers, FromChat(job'[v])
       PROVE  /\ job'[v].of \in 1..used.staged
              /\ \A u \in Workers : job'[u].of = job'[v].of => u = v
  <2>1. v # w /\ job'[v] = job[v]
    BY <1>5, <1>10 DEF FromChat
  <2>2. job[v].of \in 1..used.staged
        /\ \A u \in Workers : job[u].of = job[v].of => u = v
    BY <1>10, <2>1 DEF Single
  <2>3. QED
    BY <1>5, <1>10, <2>1, <2>2 DEF FromChat
<1>11. QED
  BY <1>1, <1>8, <1>9, <1>10 DEF Single

LEMMA SingleNext ==
  ASSUME Typed, Single, [Next]_vars
  PROVE  Single'
<1>1. ASSUME KeepsStaged, KeepsJobs, UNCHANGED history, used'.staged = used.staged
      PROVE  Single'
  BY <1>1, SingleKept
<1>2. ASSUME UNCHANGED job PROVE KeepsJobs
  BY <1>2 DEF KeepsJobs
<1>3. ASSUME UNCHANGED sessions PROVE KeepsStaged
  BY <1>3 DEF KeepsStaged
<1>4. ASSUME NEW s \in DOMAIN sessions, NEW x \in Sessions, Put(s, x),
             x.staged = sessions[s].staged
      PROVE  KeepsStaged
  BY <1>4, Puts DEF KeepsStaged
<1>5. ASSUME NEW w \in Workers, NEW j, Take(w, j), j.of = None PROVE KeepsJobs
  BY <1>5 DEF Take, Become, KeepsJobs, Typed
<1>6. \A s \in DOMAIN sessions : sessions[s] \in Sessions
  BY StagedTyped
<1>7. page.of \in DOMAIN sessions /\ page.session \in DOMAIN sessions
  BY DEF Typed
<1>8. ASSUME NEW s \in DOMAIN sessions, NEW kind, Over(s, sessions[s], kind)
      PROVE  KeepsStaged
  <2> DEFINE x == [NewSession EXCEPT !.open = sessions[s].open, !.staged = sessions[s].staged]
  <2>1. x \in Sessions /\ x.staged = sessions[s].staged
    BY <1>6 DEF NewSession, Sessions
  <2>2. Put(s, x)
    BY <1>8 DEF Over
  <2> HIDE DEF x
  <2>3. QED
    BY <1>4, <2>1, <2>2
<1>9. ASSUME NEW s \in DOMAIN sessions, Turn(s) PROVE Single'
  <2>1. CASE Consult(s)
    <3> DEFINE x == [sessions[s] EXCEPT !.step = @ + 1]
    <3>1. x \in Sessions /\ x.staged = sessions[s].staged
      BY <1>6 DEF Sessions
    <3>2. Put(s, x) /\ UNCHANGED <<config, used>>
      BY <2>1 DEF Consult
    <3> HIDE DEF x
    <3>3. QED
      BY <1>1, <1>2, <1>4, <3>1, <3>2 DEF config
  <2>2. ASSUME NEW k \in Keys, NEW v \in Values \ {file[k]}, Stage(s, k, v)
        PROVE  Single'
    BY <2>2, SingleStage
  <2>3. ASSUME NEW grounded \in BOOLEAN, Reply(s, grounded) PROVE Single'
    <3> DEFINE x == [sessions[s] EXCEPT !.attempt = 2, !.step = 0]
    <3>1. x \in Sessions /\ x.staged = sessions[s].staged
      BY <1>6 DEF Sessions
    <3>2. UNCHANGED <<config, used>> /\ (Put(s, x) \/ \E kind : Over(s, sessions[s], kind))
      BY <2>3 DEF Reply, Rejected
    <3> HIDE DEF x
    <3>3. KeepsStaged
      BY <1>4, <1>8, <3>1, <3>2
    <3>4. QED
      BY <1>1, <1>2, <3>2, <3>3 DEF config
  <2>4. CASE GiveUp(s)
    <3>1. UNCHANGED <<config, used>> /\ KeepsStaged
      BY <1>8, <2>4 DEF GiveUp
    <3>2. QED
      BY <1>1, <1>2, <3>1 DEF config
  <2>5. QED
    BY <1>9, <2>1, <2>2, <2>3, <2>4 DEF Turn
<1>10. CASE Ask
  <2> DEFINE s == page.session
             x == [sessions[s] EXCEPT !.turn = "model", !.step = 0, !.attempt = 1]
  <2>1. x \in Sessions /\ x.staged = sessions[s].staged
    BY <1>6, <1>7 DEF Sessions
  <2>2. (Put(s, x) \/ UNCHANGED sessions) /\ UNCHANGED config
    BY <1>10 DEF Ask
  <2>3. used'.staged = used.staged
    BY <1>10 DEF Ask, Typed
  <2> HIDE DEF x, s
  <2>4. KeepsStaged
    BY <1>3, <1>4, <1>7, <2>1, <2>2 DEF s
  <2>5. QED
    BY <1>1, <1>2, <2>2, <2>3, <2>4 DEF config
<1>11. CASE Lose
  <2> DEFINE s == page.of
             x == [sessions[s] EXCEPT !.turn = "none"]
  <2>1. x \in Sessions /\ x.staged = sessions[s].staged
    BY <1>6, <1>7 DEF Sessions
  <2>2. (Put(s, x) \/ UNCHANGED sessions) /\ UNCHANGED config
    BY <1>11 DEF Lose
  <2>3. used'.staged = used.staged
    BY <1>11 DEF Lose, Typed
  <2> HIDE DEF x, s
  <2>4. KeepsStaged
    BY <1>3, <1>4, <1>7, <2>1, <2>2 DEF s
  <2>5. QED
    BY <1>1, <1>2, <2>2, <2>3, <2>4 DEF config
<1>12. ASSUME NEW s \in DOMAIN sessions, Evict(s) PROVE Single'
  <2> DEFINE x == [sessions[s] EXCEPT !.open = FALSE]
  <2>1. x \in Sessions /\ x.staged = sessions[s].staged
    BY <1>6 DEF Sessions
  <2>2. Put(s, x) /\ UNCHANGED <<config, used>>
    BY <1>12 DEF Evict
  <2> HIDE DEF x
  <2>3. QED
    BY <1>1, <1>2, <1>4, <2>1, <2>2 DEF config
<1>13. CASE Receive \/ UNCHANGED vars
  BY <1>1, <1>2, <1>3, <1>13 DEF Receive, vars, config, chat
<1>14. ASSUME NEW i \in 1..MaxStaged, Confirm(i) PROVE Single'
  BY <1>1, <1>2, <1>3, <1>14 DEF Confirm, config
<1>15. CASE Switch
  <2>1. KeepsStaged
    <3>1. NewSession \in Sessions /\ NewSession.staged = << >>
      BY EmptySeq DEF NewSession, Sessions
    <3>2. sessions' = Append(sessions, NewSession)
      BY <1>15 DEF Switch
    <3>3. QED
      BY <3>1, <3>2, AppendProperties, LenProperties DEF KeepsStaged, Typed
  <2>2. UNCHANGED config /\ used'.staged = used.staged
    BY <1>15 DEF Switch, Typed
  <2>3. QED
    BY <1>1, <1>2, <2>1, <2>2 DEF config
<1>16. CASE Restart
  <2>1. KeepsStaged
    BY <1>16 DEF Restart, KeepsStaged, NewSession
  <2>2. KeepsJobs /\ UNCHANGED history /\ used'.staged = used.staged
    BY <1>16 DEF Restart, Die, KeepsJobs, Nothing
  <2>3. QED
    BY <1>1, <2>1, <2>2
<1>17. ASSUME NEW w \in Workers, Pop(w) PROVE Single'
  BY <1>17, SinglePop
<1>18. ASSUME NEW w \in Workers, Change(w), UNCHANGED chat PROVE Single'
  <2>1. UNCHANGED history /\ KeepsJobs
    BY <1>18, ChangeKeeps DEF KeepsJobs
  <2>2. QED
    BY <1>1, <1>3, <1>18, <2>1 DEF chat
<1>19. ASSUME NEW w \in Workers, Recording(w) PROVE Single'
  <2>1. CASE Record(w)
    BY <1>19, <2>1, SingleRecord DEF Recording
  <2>2. CASE RecordFails(w)
    <3>1. KeepsJobs /\ UNCHANGED history
      BY <2>2 DEF RecordFails, Leave, Become, Nothing, KeepsJobs, Typed
    <3>2. UNCHANGED <<sessions, used>>
      BY <1>19 DEF Recording
    <3>3. QED
      BY <1>1, <1>3, <3>1, <3>2
  <2>3. QED
    BY <1>19, <2>1, <2>2 DEF Recording
<1>20. ASSUME NEW w \in Workers, NEW u, NEW k, NEW v, Take(w, Proposal(u, k, v)),
              UNCHANGED <<history, chat>>
       PROVE  Single'
  <2>1. Proposal(u, k, v).of = None
    BY DEF Proposal, Nothing
  <2>2. KeepsJobs
    BY <1>5, <1>20, <2>1
  <2>3. QED
    BY <1>1, <1>3, <1>20, <2>2 DEF chat
<1>21. ASSUME NEW w \in Workers, NEW u \in Users, NEW k \in Keys,
              NEW v \in Values \ {file[k]}, Apply(w, u, k, v), UNCHANGED chat
       PROVE  Single'
  BY <1>20, <1>21 DEF Apply
<1>22. ASSUME NEW w \in Workers, NEW u \in Users, NEW c \in DOMAIN history,
              Revert(w, u, c), UNCHANGED chat
       PROVE  Single'
  BY <1>20, <1>22 DEF Revert
<1>23. QED
  BY <1>9, <1>10, <1>11, <1>12, <1>13, <1>14, <1>15, <1>16, <1>17, <1>18, <1>19,
     <1>21, <1>22 DEF Next, Work

\* A staged proposal is applied at most once, whatever is lost, closed, made
\* at the same time or confirmed again.
THEOREM AppliedOnceEver == Spec => []AppliedOnce
<1>1. Single => AppliedOnce
  <2> DEFINE Applied(n) == {c \in DOMAIN history : history[c].of = n}
             Applying(n) == {w \in Workers : job[w].of = n}
  <2> SUFFICES ASSUME Single, NEW n \in 1..used.staged
               PROVE  Cardinality(Applied(n)) + Cardinality(Applying(n)) <= 1
    BY DEF AppliedOnce
  <2>1. n # None
    BY ConfigAssumption
  <2>2. Cardinality({}) = 0
    BY FS_EmptySet
  <2>3. CASE Applied(n) = {} /\ Applying(n) = {}
    <3> HIDE DEF Applied, Applying
    <3>1. QED
      BY <2>2, <2>3
  <2>4. ASSUME NEW c \in Applied(n)
        PROVE  Cardinality(Applied(n)) + Cardinality(Applying(n)) <= 1
    <3>1. Applied(n) = {c} /\ Applying(n) = {}
      BY <2>1, <2>4 DEF Single
    <3>2. Cardinality({c}) = 1
      BY FS_Singleton
    <3> HIDE DEF Applied, Applying
    <3>3. QED
      BY <2>2, <3>1, <3>2
  <2>5. ASSUME NEW w \in Applying(n), Applied(n) = {}
        PROVE  Cardinality(Applied(n)) + Cardinality(Applying(n)) <= 1
    <3>1. Applying(n) = {w}
      BY <2>1, <2>5 DEF Single, FromChat
    <3>2. Cardinality({w}) = 1
      BY FS_Singleton
    <3> HIDE DEF Applied, Applying
    <3>3. QED
      BY <2>2, <2>5, <3>1, <3>2
  <2> HIDE DEF Applied, Applying
  <2>6. QED
    BY <2>3, <2>4, <2>5
<1>2. QED
  BY <1>1, TypedInit, TypedNext, SingleInit, SingleNext, PTL DEF Spec

-----------------------------------------------------------------------------
(* The page and its session.                                               *)

Leads(p, q) == Len(p) <= Len(q) /\ \A i \in 1..Len(p) : p[i] = q[i]

Delivered ==
  mail # None =>
    \/ page.waits = "answer" /\ mail.kind = "error"
    \/ page.waits = "answer" /\ mail.kind = "response" /\ mail.shown = sessions[1].staged
    \/ page.waits = "applied" /\ mail.kind = "confirmed"

Fits ==
  /\ Len(sessions) = 1 /\ sessions[1].open
  /\ page.session = 1 /\ page.of = 1
  /\ page.waits # "applied" => Leads(page.shown, sessions[1].staged)
  /\ page.waits = "applied" =>
       Leads(Without(page.shown, page.index), sessions[1].staged)
  /\ page.waits \in {"confirm", "applied"} => page.index \in DOMAIN page.shown
  /\ Delivered
  /\ sessions[1].turn = "model" => page.waits = "answer" /\ mail = None
  /\ \A w \in Workers : FromChat(job[w]) => job[w].meant = job[w].of

Faithful == Calm => Fits

LEMMA FitsInit == Init => Faithful
<1> SUFFICES ASSUME Init PROVE Fits
  BY DEF Faithful
<1>1. sessions[1].staged = << >> /\ sessions[1].open /\ sessions[1].turn = "none"
      /\ Len(sessions) = 1
  BY DEF Init, NewSession
<1>2. page.shown = << >> /\ page.waits = "nothing" /\ page.session = 1 /\ page.of = 1
      /\ mail = None /\ \A w \in Workers : job[w].of = None
  BY DEF Init, ConfigInit, Nothing
<1>3. QED
  BY <1>1, <1>2 DEF Fits, Leads, Delivered, FromChat

LEMMA LeadsOn ==
  ASSUME NEW S, NEW p \in Seq(S), NEW q \in Seq(S), NEW r \in Seq(S),
         Leads(p, q), Leads(q, r)
  PROVE  Leads(p, r)
BY LenProperties DEF Leads

\* The one session while all is calm.
LEMMA OneSession ==
  ASSUME Typed, Fits
  PROVE  /\ DOMAIN sessions = {1} /\ sessions[1] \in Sessions
         /\ sessions[1].staged \in Seq(Proposals)
<1>1. DOMAIN sessions = {1}
  BY LenProperties DEF Typed, Fits
<1>2. QED
  BY <1>1, StagedTyped

\* A turn only adds to what is staged, and its answer shows all of it.
LEMMA TurnFits ==
  ASSUME Typed, Typed', Fits, Turn(1)
  PROVE  Fits'
<1> DEFINE x == sessions[1]
           y == sessions'[1]
<1>1. /\ DOMAIN sessions = {1} /\ x \in Sessions /\ x.staged \in Seq(Proposals)
      /\ x.open /\ page.waits = "answer" /\ mail = None
      /\ Leads(page.shown, x.staged)
  BY OneSession DEF Fits, Turn, Consult, Stage, Reply, GiveUp, InTurn
<1>2. UNCHANGED <<page, job>>
  BY DEF Turn, Consult, Stage, Reply, GiveUp, config
<1>3. ASSUME NEW z \in Sessions, Put(1, z) PROVE y = z /\ Len(sessions') = 1
  BY <1>1, <1>3, Puts, LenProperties DEF Fits
<1>4. x.step + 1 \in Nat
  BY <1>1 DEF Sessions
<1>5. Leads(x.staged, x.staged)
  BY <1>1, LenProperties DEF Leads
<1> DEFINE Goal == /\ Len(sessions') = 1 /\ y.open /\ Leads(x.staged, y.staged)
                   /\ \/ UNCHANGED mail
                      \/ y.turn = "none" /\ mail'.kind = "error"
                      \/ y.turn = "none" /\ mail'.kind = "response" /\ mail'.shown = y.staged
<1>6. ASSUME NEW kind, Over(1, x, kind) PROVE Goal
  <2> DEFINE z == [NewSession EXCEPT !.open = x.open, !.staged = x.staged]
  <2>1. z \in Sessions /\ z.open = x.open /\ z.staged = x.staged /\ z.turn = "none"
    BY <1>1 DEF NewSession, Sessions
  <2>2. Put(1, z)
    BY <1>6 DEF Over
  <2> HIDE DEF z
  <2>3. y = z /\ Len(sessions') = 1
    BY <1>3, <2>1, <2>2
  <2>4. mail'.kind = "error" \/ (mail'.kind = "response" /\ mail'.shown = x.staged)
    BY <1>6 DEF Over
  <2> HIDE DEF x, y
  <2>5. QED
    BY <1>1, <1>5, <2>1, <2>3, <2>4
<1>7. Goal
  <2>1. CASE Consult(1)
    <3> DEFINE z == [x EXCEPT !.step = @ + 1]
    <3>1. z \in Sessions /\ z.staged = x.staged /\ z.open = x.open
      BY <1>1, <1>4 DEF Sessions
    <3>2. Put(1, z) /\ UNCHANGED mail
      BY <2>1 DEF Consult
    <3> HIDE DEF z
    <3>3. QED
      BY <1>1, <1>3, <1>5, <3>1, <3>2
  <2>2. ASSUME NEW k \in Keys, NEW v \in Values \ {file[k]}, Stage(1, k, v) PROVE Goal
    <3> DEFINE p == [id |-> used.staged + 1, key |-> k, old |-> file[k], new |-> v]
               q == Append(x.staged, p)
               z == [x EXCEPT !.step = @ + 1, !.staged = q]
    <3>1. p \in Proposals
      BY UsedGrows DEF Typed, Proposals
    <3>2. q \in Seq(Proposals) /\ Leads(x.staged, q)
      <4> HIDE DEF p, x
      <4>1. QED
        BY <1>1, <3>1, AppendProperties, LenProperties DEF Leads
    <3>3. z \in Sessions /\ z.staged = q /\ z.open = x.open
      <4> HIDE DEF q
      <4>1. QED
        BY <1>1, <1>4, <3>2 DEF Sessions
    <3>4. Put(1, z) /\ UNCHANGED mail
      BY <2>2 DEF Stage
    <3> HIDE DEF z
    <3>5. QED
      BY <1>1, <1>3, <3>2, <3>3, <3>4
  <2>3. ASSUME NEW grounded \in BOOLEAN, Reply(1, grounded) PROVE Goal
    <3> DEFINE z == [x EXCEPT !.attempt = 2, !.step = 0]
    <3>1. z \in Sessions /\ z.staged = x.staged /\ z.open = x.open
      BY <1>1 DEF Sessions
    <3>2. (Put(1, z) /\ UNCHANGED mail) \/ \E kind : Over(1, x, kind)
      BY <2>3 DEF Reply, Rejected
    <3>3. CASE Put(1, z) /\ UNCHANGED mail
      <4> HIDE DEF z
      <4>1. QED
        BY <1>1, <1>3, <1>5, <3>1, <3>3
    <3> HIDE DEF Goal
    <3>4. QED
      BY <1>6, <3>2, <3>3
  <2>4. CASE GiveUp(1)
    <3> HIDE DEF Goal
    <3>1. QED
      BY <1>6, <2>4 DEF GiveUp
  <2> HIDE DEF Goal
  <2>5. QED
    BY <2>1, <2>2, <2>3, <2>4 DEF Turn
<1>8. y.staged \in Seq(Proposals)
  <2>1. sessions' \in Seq(Sessions) /\ 1 \in 1..Len(sessions')
    BY <1>7 DEF Typed
  <2> HIDE DEF y
  <2>2. sessions'[1] \in Sessions
    BY <2>1, ElementOfSeq
  <2>3. QED
    BY <2>2 DEF Sessions, y
<1>9. Leads(page.shown, y.staged)
  <2> HIDE DEF x, y
  <2>1. QED
    BY <1>1, <1>7, <1>8, ShownTyped, LeadsOn DEF Typed
<1>10. Leads(page.shown, sessions[1].staged)'
  BY <1>2, <1>9 DEF Leads
<1>11. y.turn = "none" => y.turn # "model"
  OBVIOUS
<1>12. QED
  BY <1>1, <1>2, <1>7, <1>10, <1>11 DEF Fits, Delivered, FromChat

\* The proposal a confirmation takes out is the one at the page's position.
LEMMA PopFits ==
  ASSUME Typed, Fits, NEW w \in Workers, Pop(w)
  PROVE  Fits'
<1> DEFINE q == sessions[1].staged
           p == page.shown
           i == page.index
           r == SubSeq(q, 1, i - 1) \o SubSeq(q, i + 1, Len(q))
           n == q[i]
           j == [Nothing EXCEPT !.pc = "read", !.user = User, !.key = n.key,
                   !.old = n.old, !.new = n.new, !.of = n.id, !.meant = Meant(i)]
<1>1. /\ q \in Seq(Proposals) /\ p \in Seq(Proposals) /\ Leads(p, q)
      /\ page.waits = "confirm" /\ page.of = 1 /\ sessions[1].open
      /\ mail = None /\ sessions[1].turn # "model" /\ i \in DOMAIN p
      /\ page.session = 1 /\ Len(sessions) = 1
  BY OneSession, ShownTyped DEF Pop, Fits, Delivered
<1>2. /\ Len(p) \in Nat /\ Len(q) \in Nat /\ i \in 1..Len(p) /\ i \in 1..Len(q)
      /\ i \in DOMAIN q
  <2> HIDE DEF p, q, i
  <2>1. QED
    BY <1>1, LenProperties DEF Leads
<1>3. n.id = Meant(i)
  <2>1. p[i] = q[i]
    <3> HIDE DEF p, q, i
    <3>1. QED
      BY <1>1, <1>2 DEF Leads
  <2>2. QED
    BY <1>1, <2>1 DEF Meant
<1>4. /\ Take(w, j) /\ page' = [page EXCEPT !.waits = "applied"]
      /\ Put(1, [sessions[1] EXCEPT !.staged = r]) /\ UNCHANGED mail
  BY <1>1, <1>2 DEF Pop, Popped
<1>5. /\ r \in Seq(Proposals) /\ Len(r) = Len(q) - 1
      /\ \A k \in 1..Len(r) : r[k] = IF k < i THEN q[k] ELSE q[k + 1]
  <2> HIDE DEF q, i
  <2>1. QED
    BY <1>1, <1>2, Removed
<1>6. /\ Without(p, i) \in Seq(Proposals) /\ Len(Without(p, i)) = Len(p) - 1
      /\ \A k \in 1..Len(Without(p, i)) :
           Without(p, i)[k] = IF k < i THEN p[k] ELSE p[k + 1]
  <2> HIDE DEF p, i
  <2>1. QED
    BY <1>1, <1>2, Removed DEF Without
<1>7. Leads(Without(p, i), r)
  <2> DEFINE f == Without(p, i)
  <2> HIDE DEF f, p, q, r, i
  <2>1. Len(f) = Len(p) - 1 /\ Len(p) <= Len(q) /\ Len(f) <= Len(r)
    BY <1>1, <1>2, <1>5, <1>6 DEF Leads, f
  <2>2. ASSUME NEW k \in 1..Len(f) PROVE f[k] = r[k]
    <3>1. k \in 1..Len(r) /\ k \in 1..Len(p) /\ k + 1 \in 1..Len(p)
      BY <1>2, <1>5, <2>1
    <3>2. q[k] = p[k] /\ q[k + 1] = p[k + 1]
      BY <1>1, <3>1 DEF Leads
    <3>3. /\ f[k] = IF k < i THEN p[k] ELSE p[k + 1]
          /\ r[k] = IF k < i THEN q[k] ELSE q[k + 1]
      BY <1>5, <1>6, <3>1 DEF f
    <3>4. QED
      BY <3>2, <3>3
  <2>3. QED
    BY <2>1, <2>2 DEF Leads, f
<1>8. /\ Len(sessions') = 1 /\ sessions'[1].open /\ sessions'[1].staged = r
      /\ sessions'[1].turn # "model"
  <2>1. DOMAIN sessions = {1} /\ sessions[1] \in Sessions
    BY OneSession
  <2> DEFINE z == [sessions[1] EXCEPT !.staged = r]
  <2>2. z \in Sessions /\ z.open = sessions[1].open /\ z.staged = r
        /\ z.turn = sessions[1].turn
    <3> HIDE DEF r
    <3>1. QED
      BY <1>5, <2>1 DEF Sessions
  <2>3. Put(1, z)
    BY <1>4
  <2> HIDE DEF z
  <2>4. QED
    BY <1>1, <2>1, <2>2, <2>3, Puts
<1>9. \A v \in Workers : FromChat(job'[v]) => job'[v].meant = job'[v].of
  <2>1. j.of = n.id /\ j.meant = Meant(i)
    BY DEF Nothing
  <2> HIDE DEF j, n
  <2>2. QED
    BY <1>3, <1>4, <2>1 DEF Take, Become, Typed, Fits
<1>10. /\ page'.waits = "applied" /\ page'.of = 1 /\ page'.session = 1
       /\ page'.shown = p /\ page'.index = i
  BY <1>1, <1>4 DEF Typed
<1>11. Without(page.shown, page.index)' = Without(p, i)
  BY <1>10 DEF Without
<1>12. Leads(Without(page.shown, page.index), sessions[1].staged)'
  <2> HIDE DEF r, p, i
  <2>1. QED
    BY <1>7, <1>8, <1>11 DEF Leads
<1>13. page'.index \in DOMAIN page'.shown
  BY <1>1, <1>10
<1>14. QED
  BY <1>1, <1>4, <1>8, <1>9, <1>10, <1>12, <1>13 DEF Fits, Delivered

\* What the page makes of an answer.
LEMMA ReceiveFits ==
  ASSUME Typed, Fits, Receive
  PROVE  Fits'
<1>1. /\ UNCHANGED <<job, sessions>> /\ mail # None /\ mail' = None
      /\ page' = [page EXCEPT !.waits = "nothing", !.of = 1, !.index = 1,
           !.shown = CASE mail.kind = "response" -> mail.shown
                       [] mail.kind = "confirmed" -> Without(@, page.index)
                       [] OTHER -> @]
  BY DEF Receive, config
<1>2. sessions[1].turn # "model" /\ Delivered
  BY <1>1 DEF Fits
<1> DEFINE q == sessions[1].staged
           shown == page'.shown
<1>3. /\ page'.waits = "nothing" /\ page'.of = 1 /\ page'.session = page.session
      /\ shown = CASE mail.kind = "response" -> mail.shown
                   [] mail.kind = "confirmed" -> Without(page.shown, page.index)
                   [] OTHER -> page.shown
  BY <1>1 DEF Typed
<1>4. Leads(shown, q)
  <2>1. CASE mail.kind = "response"
    <3>1. shown = q /\ q \in Seq(Proposals)
      BY <1>1, <1>2, <1>3, <2>1, OneSession DEF Delivered
    <3>2. QED
      BY <3>1, LenProperties DEF Leads
  <2>2. CASE mail.kind = "confirmed"
    <3>1. page.waits = "applied"
      BY <1>1, <1>2, <2>2 DEF Delivered
    <3>2. QED
      BY <1>3, <2>2, <3>1 DEF Fits
  <2>3. CASE mail.kind \notin {"response", "confirmed"}
    <3>1. page.waits = "answer"
      BY <1>1, <1>2, <2>3 DEF Delivered
    <3>2. QED
      BY <1>3, <2>3, <3>1 DEF Fits
  <2>4. QED
    BY <2>1, <2>2, <2>3
<1>5. Leads(page.shown, sessions[1].staged)'
  BY <1>1, <1>4 DEF Leads
<1>6. QED
  BY <1>1, <1>2, <1>3, <1>5 DEF Fits, Delivered, FromChat

LEMMA FaithfulNext ==
  ASSUME Typed, Typed', Faithful, [Next]_vars
  PROVE  Faithful'
<1> SUFFICES ASSUME Calm' PROVE Fits'
  BY DEF Faithful
<1>1. /\ faults \in Nat /\ used.lost \in Nat /\ used.switches \in Nat
      /\ used \in [staged : Nat, turns : Nat, lost : Nat, switches : Nat]
  BY DEF Typed
<1>2. ~Switch /\ ~Lose /\ ~Restart /\ \A s \in DOMAIN sessions : ~Evict(s)
  BY <1>1 DEF Switch, Lose, Restart, Die, Evict, Calm
<1>3. ASSUME UNCHANGED faults, used'.lost = used.lost, used'.switches = used.switches
      PROVE  Fits
  BY <1>3 DEF Calm, Faithful
<1>4. ASSUME Fits PROVE DOMAIN sessions = {1}
  BY <1>4, OneSession
<1>5. ASSUME UNCHANGED chat, Fits,
             \A v \in Workers : FromChat(job'[v]) => job'[v].meant = job'[v].of
      PROVE  Fits'
  BY <1>5 DEF chat, Fits, Delivered, Leads, Without
<1>6. ASSUME NEW s \in DOMAIN sessions, Turn(s) PROVE Fits'
  <2>1. UNCHANGED faults /\ used'.lost = used.lost /\ used'.switches = used.switches
    BY <1>1, <1>6 DEF Turn, Consult, Stage, Reply, GiveUp
  <2>2. Fits /\ s = 1
    BY <1>3, <1>4, <2>1
  <2>3. QED
    BY <1>6, <2>2, TurnFits
<1>7. CASE Ask
  <2>1. UNCHANGED <<faults, job>> /\ used'.lost = used.lost /\ used'.switches = used.switches
    BY <1>1, <1>7 DEF Ask, config
  <2>2. Fits
    BY <1>3, <2>1
  <2> DEFINE z == [sessions[1] EXCEPT !.turn = "model", !.step = 0, !.attempt = 1]
  <2>3. z \in Sessions /\ z.open = sessions[1].open /\ z.staged = sessions[1].staged
    BY <2>2, OneSession DEF Sessions
  <2>4. Put(1, z) /\ UNCHANGED mail /\ page.waits = "nothing"
        /\ page' = [page EXCEPT !.waits = "answer", !.of = 1]
    BY <1>7, <2>2 DEF Ask, Busy, Fits
  <2> HIDE DEF z
  <2>5. Len(sessions') = 1 /\ sessions'[1] = z
    BY <2>2, <2>3, <2>4, OneSession, Puts DEF Fits
  <2>6. /\ page'.waits = "answer" /\ page'.of = 1 /\ page'.session = page.session
        /\ page'.shown = page.shown
    BY <2>4 DEF Typed
  <2>7. Leads(page.shown, sessions[1].staged)'
    BY <2>2, <2>3, <2>4, <2>5, <2>6 DEF Fits, Leads
  <2>8. mail = None
    BY <2>2, <2>4 DEF Fits, Delivered
  <2>9. QED
    BY <2>1, <2>2, <2>3, <2>4, <2>5, <2>6, <2>7, <2>8 DEF Fits, Delivered, FromChat
<1>8. ASSUME NEW i \in 1..MaxStaged, Confirm(i) PROVE Fits'
  <2>1. UNCHANGED <<faults, job, used, sessions, mail>> /\ Fits
    BY <1>3, <1>8 DEF Confirm, config
  <2>2. /\ page'.waits = "confirm" /\ page'.of = page.session /\ page'.session = page.session
        /\ page'.shown = page.shown /\ page'.index = i
        /\ page.waits = "nothing" /\ i \in DOMAIN page.shown
    BY <1>8 DEF Confirm, Busy, Typed
  <2>3. Leads(page.shown, sessions[1].staged)'
    BY <2>1, <2>2 DEF Fits, Leads
  <2>4. mail = None /\ sessions[1].turn # "model"
    BY <2>1, <2>2 DEF Fits, Delivered
  <2>5. QED
    BY <2>1, <2>2, <2>3, <2>4 DEF Fits, Delivered, FromChat
<1>9. ASSUME NEW w \in Workers, Pop(w) PROVE Fits'
  BY <1>3, <1>9, PopFits DEF Pop
<1>10. ASSUME NEW w \in Workers, Change(w), UNCHANGED chat PROVE Fits'
  <2>1. Fits
    BY <1>3, <1>10, ChangeKeeps DEF chat
  <2>2. QED
    BY <1>5, <1>10, <2>1, ChangeKeeps DEF Fits, FromChat
<1>11. ASSUME NEW w \in Workers, Recording(w) PROVE Fits'
  <2>0. ~RecordFails(w)
    BY <1>1 DEF RecordFails, Calm
  <2>1. UNCHANGED <<faults, sessions, page, used>> /\ Fits
    BY <1>3, <1>11, <2>0 DEF Recording, Record
  <2>2. (mail' = Confirmed /\ page.waits = "applied") \/ mail' = mail
    BY <1>11, <2>0 DEF Recording, Answered, Confirmed
  <2>3. \A v \in Workers : FromChat(job'[v]) => job'[v].meant = job'[v].of
    BY <1>11, <2>0, <2>1
       DEF Recording, Record, Leave, Become, Nothing, FromChat, Typed, Fits
  <2>4. Delivered'
    BY <2>1, <2>2 DEF Delivered, Confirmed, Fits
  <2>5. sessions[1].turn = "model" => mail' = None
    BY <2>1, <2>2 DEF Fits
  <2>6. (Leads(page.shown, sessions[1].staged)' <=> Leads(page.shown, sessions[1].staged))
        /\ (Leads(Without(page.shown, page.index), sessions[1].staged)'
              <=> Leads(Without(page.shown, page.index), sessions[1].staged))
    BY <2>1 DEF Leads, Without
  <2>7. QED
    BY <2>1, <2>3, <2>4, <2>5, <2>6 DEF Fits
<1>12. ASSUME NEW w \in Workers, NEW u, NEW k, NEW v, Take(w, Proposal(u, k, v)),
              UNCHANGED <<faults, chat>>
       PROVE  Fits'
  <2>1. Proposal(u, k, v).of = None
    BY DEF Proposal, Nothing
  <2>2. Fits
    BY <1>3, <1>12 DEF chat
  <2>3. \A x \in Workers : FromChat(job'[x]) => job'[x].meant = job'[x].of
    BY <1>12, <2>1, <2>2 DEF Take, Become, FromChat, Typed, Fits
  <2>4. QED
    BY <1>5, <1>12, <2>2, <2>3
<1>13. ASSUME NEW w \in Workers, NEW u \in Users, NEW k \in Keys,
              NEW v \in Values \ {file[k]}, Apply(w, u, k, v), UNCHANGED chat
       PROVE  Fits'
  BY <1>12, <1>13 DEF Apply
<1>14. ASSUME NEW w \in Workers, NEW u \in Users, NEW c \in DOMAIN history,
              Revert(w, u, c), UNCHANGED chat
       PROVE  Fits'
  BY <1>12, <1>14 DEF Revert
<1>15. CASE Receive
  BY <1>3, <1>15, ReceiveFits DEF Receive
<1>16. CASE UNCHANGED vars
  <2>1. Fits /\ UNCHANGED <<chat, job>>
    BY <1>3, <1>16 DEF vars, chat, config
  <2>2. QED
    BY <1>5, <2>1 DEF Fits, FromChat
<1>17. QED
  BY <1>2, <1>6, <1>7, <1>8, <1>9, <1>10, <1>11, <1>13, <1>14, <1>15, <1>16 DEF Next, Work

\* The driver's explicit act: a confirmation applies the proposal the page
\* showed at that button, as long as nothing is lost, closed or switched.
THEOREM ConfirmedAsShownEver == Spec => []ConfirmedAsShown
<1>1. Faithful => ConfirmedAsShown
  BY DEF Faithful, Fits, ConfirmedAsShown
<1>2. QED
  BY <1>1, TypedInit, TypedNext, FitsInit, FaithfulNext, PTL DEF Spec

=============================================================================
