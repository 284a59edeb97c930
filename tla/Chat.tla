-------------------------------- MODULE Chat --------------------------------
(***************************************************************************)
(* The chat of the cockpit: chat.session.ChatSession with its tools, the   *)
(* sessions ui/api.py keeps in memory, the page views/chat.jsx, and the    *)
(* configuration its confirmed proposals change.                           *)
(*                                                                         *)
(* A turn is a loop of calls to a provider, each answered by tool calls or *)
(* by a reply that is accepted or rejected; a tool call may stage a        *)
(* proposal, which only the driver's confirmation applies.  The page shows *)
(* the proposals of the last accepted answer and confirms by position.     *)
(*                                                                         *)
(* Abstractions: a proposal is known by a number the code does not have; a *)
(* tool call that stages nothing changes nothing here; whether a reply is  *)
(* grounded is the provider's choice (Grounding defines it); the            *)
(* transcript is left out.  A session can be closed whenever it has been   *)
(* idle for an hour, or eight others are newer: at any time.  Changes that *)
(* would change nothing are left out.                                      *)
(***************************************************************************)
EXTENDS ConfigStore

CONSTANTS User,         \* the driver at the page
          MaxSteps,     \* ChatSession.MAX_TOOL_STEPS
          MaxStaged,    \* bound: proposals ever staged
          MaxTurns,     \* bound: turns asked
          MaxSwitches   \* bound: cohorts the driver switches between

VARIABLES sessions,  \* chat_sessions: by number, [open, staged, turn, step, attempt]
          page,      \* the page: [session, shown, waits, of, index]
          mail,      \* the answer under way to the page, or None
          used       \* how much of each bound is used

chat == <<sessions, page, mail, used>>
vars == <<config, faults, chat>>

NewSession == [open |-> TRUE, staged |-> << >>, turn |-> "none", step |-> 0,
               attempt |-> 0]

Busy == page.waits # "nothing"
Current == Len(sessions)
Put(s, x) == sessions' = [sessions EXCEPT ![s] = x]

\* A fault of the network, a session closed or a switch of the cohort.
Calm == faults = 0 /\ used.lost = 0 /\ used.switches = 0

-----------------------------------------------------------------------------
(* A turn                                                                  *)

\* The driver sends a message: 404 unless the session is still open.
Ask ==
  LET s == page.session IN
  /\ ~Busy
  /\ used.turns < MaxTurns
  /\ used' = [used EXCEPT !.turns = @ + 1]
  /\ page' = [page EXCEPT !.waits = "answer", !.of = s]
  /\ IF sessions[s].open
     THEN /\ Put(s, [sessions[s] EXCEPT !.turn = "model", !.step = 0,
                                        !.attempt = 1])
          /\ UNCHANGED mail
     ELSE mail' = [kind |-> "error", shown |-> << >>] /\ UNCHANGED sessions
  /\ UNCHANGED <<config, faults>>

\* The turn of session s is over, and its last event on the way. Without its
\* database the turn cannot be written down, and the stream breaks off.
Over(s, x, kind) ==
  /\ Put(s, [NewSession EXCEPT !.open = x.open, !.staged = x.staged])
  /\ mail' = IF x.open /\ kind = "response"
             THEN [kind |-> "response", shown |-> x.staged]
             ELSE [kind |-> "error", shown |-> << >>]

InTurn(s) == sessions[s].turn = "model"

\* A call that asks for a tool; staging reads what is in force.
Consult(s) ==
  LET x == sessions[s] IN
  /\ InTurn(s)
  /\ x.step < MaxSteps
  /\ Put(s, [x EXCEPT !.step = @ + 1])
  /\ UNCHANGED <<config, faults, page, mail, used>>

Stage(s, k, v) ==
  LET x == sessions[s] IN
  /\ InTurn(s)
  /\ x.step < MaxSteps
  /\ used.staged < MaxStaged
  /\ Put(s, [x EXCEPT !.step = @ + 1,
       !.staged = Append(@, [id |-> used.staged + 1, key |-> k, old |-> file[k],
                             new |-> v])])
  /\ used' = [used EXCEPT !.staged = @ + 1]
  /\ UNCHANGED <<config, faults, page, mail>>

\* Mutant of Rejected: there is no last attempt.
RejectedAgain(s, x) ==
  /\ Put(s, [x EXCEPT !.attempt = 3 - @, !.step = 0])
  /\ UNCHANGED mail

\* A reply the grounding contract rejects is asked for once more.
Rejected(s, x) ==
  IF x.attempt = 1
  THEN Put(s, [x EXCEPT !.attempt = 2, !.step = 0]) /\ UNCHANGED mail
  ELSE Over(s, x, "error")

Reply(s, grounded) ==
  LET x == sessions[s] IN
  /\ InTurn(s)
  /\ x.step < MaxSteps
  /\ IF grounded THEN Over(s, x, "response") ELSE Rejected(s, x)
  /\ UNCHANGED <<config, faults, page, used>>

\* The tool loop is too long, or the provider raises.
GiveUp(s) ==
  /\ InTurn(s)
  /\ Over(s, sessions[s], "error")
  /\ UNCHANGED <<config, faults, page, used>>

Turn(s) ==
  \/ Consult(s)
  \/ \E k \in Keys : \E v \in Values \ {file[k]} : Stage(s, k, v)
  \/ \E grounded \in BOOLEAN : Reply(s, grounded)
  \/ GiveUp(s)

-----------------------------------------------------------------------------
(* A confirmation                                                          *)

\* The button beside a proposal sends its position to the page's session.
Confirm(i) ==
  /\ ~Busy
  /\ i \in DOMAIN page.shown
  /\ page' = [page EXCEPT !.waits = "confirm", !.index = i,
                          !.of = page.session]
  /\ UNCHANGED <<config, faults, sessions, mail, used>>

\* Mutant of Popped: the proposal stays until it has been applied.
Peeked(s, i) == UNCHANGED sessions

\* list.pop
Popped(s, i) ==
  Put(s, [sessions[s] EXCEPT
            !.staged = SubSeq(@, 1, i - 1) \o SubSeq(@, i + 1, Len(@))])

\* What the button of page position i promised.
Meant(i) == IF i \in DOMAIN page.shown THEN page.shown[i].id ELSE None

\* The request arrives: ChatSession.confirm takes the proposal out and applies
\* it as it was staged, without proposing it again.
Pop(w) ==
  LET s == page.of
      i == page.index
  IN /\ page.waits = "confirm"
     /\ IF sessions[s].open /\ i \in DOMAIN sessions[s].staged
        THEN LET p == sessions[s].staged[i] IN
             /\ Take(w, [Nothing EXCEPT !.pc = "read", !.user = User,
                           !.key = p.key, !.old = p.old, !.new = p.new,
                           !.of = p.id, !.meant = Meant(i)])
             /\ Popped(s, i)
             /\ page' = [page EXCEPT !.waits = "applied"]
             /\ UNCHANGED mail
        ELSE /\ At(w, "idle")
             /\ page' = [page EXCEPT !.waits = "answer"]
             /\ mail' = [kind |-> "error", shown |-> << >>]
             /\ UNCHANGED <<job, solo, sessions>>
     /\ UNCHANGED <<file, history, faults, used>>

FromChat(j) == j.of # None

\* The answer of a request that changes the configuration, if it is one the
\* page waits for.
Answered(w, kind) ==
  mail' = IF FromChat(job[w]) /\ page.waits = "applied"
          THEN [kind |-> kind, shown |-> << >>] ELSE mail

\* The history row is in, or its insert has raised.
Recording(w) ==
  /\ \/ Record(w) /\ Answered(w, "confirmed")
     \/ RecordFails(w) /\ Answered(w, "error")
  /\ UNCHANGED <<sessions, page, used>>

-----------------------------------------------------------------------------
(* The page                                                                *)

\* Mutant of Without: the first proposal of the list goes.
WithoutFirst(q, i) == IF q = << >> THEN q ELSE Tail(q)

\* setStaged(filter) of the page.
Without(q, i) ==
  IF i \in DOMAIN q THEN SubSeq(q, 1, i - 1) \o SubSeq(q, i + 1, Len(q)) ELSE q

\* Whatever session the answer is of, the page takes it.
Receive ==
  /\ mail # None
  /\ mail' = None
  /\ page' = [page EXCEPT !.waits = "nothing", !.of = 1, !.index = 1,
       !.shown = CASE mail.kind = "response" -> mail.shown
                   [] mail.kind = "confirmed" -> Without(@, page.index)
                   [] OTHER -> @]
  /\ UNCHANGED <<config, faults, sessions, used>>

\* The connection breaks: the page reports an error, a turn ends at its next
\* event, a change goes on.
Lose ==
  /\ faults + used.lost < MaxFaults
  /\ Busy
  /\ page' = [page EXCEPT !.waits = "nothing"]
  /\ mail' = None
  /\ used' = [used EXCEPT !.lost = @ + 1]
  /\ IF page.waits = "answer"
     THEN Put(page.of, [sessions[page.of] EXCEPT !.turn = "none"])
     ELSE UNCHANGED sessions
  /\ UNCHANGED <<config, faults>>

\* Another cohort: nothing is shown, and a session of its own is created.
Switch ==
  /\ used.switches < MaxSwitches
  /\ used' = [used EXCEPT !.switches = @ + 1]
  /\ sessions' = Append(sessions, NewSession)
  /\ page' = [page EXCEPT !.session = Current + 1, !.shown = << >>]
  /\ UNCHANGED <<config, faults, mail>>

\* _evict_chat_sessions closes the session's database, whoever is using it.
Evict(s) ==
  /\ faults + used.lost < MaxFaults
  /\ sessions[s].open
  /\ faults' = faults + 1
  /\ Put(s, [sessions[s] EXCEPT !.open = FALSE])
  /\ UNCHANGED <<config, page, mail, used>>

-----------------------------------------------------------------------------

Init ==
  /\ ConfigInit
  /\ sessions = <<NewSession>>
  /\ page = [session |-> 1, shown |-> << >>, waits |-> "nothing", of |-> 1,
             index |-> 1]
  /\ mail = None
  /\ used = [staged |-> 0, turns |-> 0, lost |-> 0, switches |-> 0]

\* After a death the sessions are gone with the memory they were in.
Restart ==
  /\ Die
  /\ sessions' = [s \in DOMAIN sessions |->
                    [NewSession EXCEPT !.open = FALSE]]
  /\ mail' = IF Busy THEN [kind |-> "error", shown |-> << >>] ELSE None
  /\ UNCHANGED <<page, used>>

Work(w) == (Change(w) /\ UNCHANGED chat) \/ Recording(w)

Next ==
  \/ Ask
  \/ \E s \in DOMAIN sessions : Turn(s) \/ Evict(s)
  \/ \E i \in 1..MaxStaged : Confirm(i)
  \/ \E w \in Workers : Pop(w) \/ Work(w)
  \/ \E w \in Workers, u \in Users, k \in Keys : \E v \in Values \ {file[k]} :
       Apply(w, u, k, v) /\ UNCHANGED chat
  \/ \E w \in Workers, u \in Users, c \in DOMAIN history :
       Revert(w, u, c) /\ UNCHANGED chat
  \/ Receive
  \/ Lose
  \/ Switch
  \/ Restart

Spec == Init /\ [][Next]_vars

\* Threads run, the provider answers or raises, and answers arrive.
LiveSpec ==
  /\ Spec
  /\ WF_vars(Receive)
  /\ WF_vars(\E s \in DOMAIN sessions : Turn(s))

-----------------------------------------------------------------------------
(* Properties                                                              *)

\* The driver's explicit act: what a confirmation applies is the proposal the
\* page showed at that button (chat/session.py:545-551), through rejected
\* turns, proposals confirmed out of order and changes made elsewhere, as long
\* as no answer is lost and the driver does not switch cohorts.
ConfirmedAsShown ==
  Calm => \A w \in Workers : FromChat(job[w]) => job[w].meant = job[w].of

\* The same, whatever happens: docs/UI-SPEC.md:393 "an unconfirmed proposal
\* changes nothing".
OnlyConfirmed ==
  \A w \in Workers : FromChat(job[w]) => job[w].meant = job[w].of

\* A staged proposal is applied at most once, however often it is confirmed:
\* neither a lost answer nor a confirmation beside the first repeats it.
AppliedOnce ==
  LET Applied(n) == {c \in DOMAIN history : history[c].of = n}
      Applying(n) == {w \in Workers : job[w].of = n}
  IN \A n \in 1..used.staged :
       Cardinality(Applied(n)) + Cardinality(Applying(n)) <= 1

\* Every turn comes to its last event: an accepted reply, a rejection after
\* one regeneration, too many tool calls or a failure of the provider.
TurnsEnd == page.waits = "answer" ~> ~Busy
=============================================================================
