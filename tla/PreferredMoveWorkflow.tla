------------------------ MODULE PreferredMoveWorkflow ------------------------
(***************************************************************************)
(* Saving and removing a preferred move from the Repertoire Builder        *)
(* (usePreferredMoveWorkflow with the read hooks usePreferredMoveState and *)
(* usePositionContextState), and the server behind it.                     *)
(*                                                                         *)
(* A view is what the session and the board orientation show: the position *)
(* on the board, the position whose preferred move is concerned (source),  *)
(* the move selected there, if any, and whether the trainer moves there.   *)
(* Reads and mutations are asynchronous calls: the server acts on a call   *)
(* at one moment, and the browser hears of it later.  An aborted call is   *)
(* not heard of, but the server may act on it all the same.                *)
(*                                                                         *)
(* A step of the browser is one event with the renderings and effects that *)
(* React runs before the next event.  ui holds the states and references   *)
(* of the three hooks.                                                     *)
(***************************************************************************)
EXTENDS Naturals

CONSTANTS
  Views,         \* records [at, source, selected, own, bottom]
  Moves,
  NoMove,
  MaxEvents      \* bound: how often the user acts

WorkflowAssumption ==
  /\ NoMove \notin Moves
  /\ {"none", "failed"} \cap (Moves \cup {NoMove}) = {}
  /\ \A v \in Views :
       v.selected \in Moves \cup {NoMove} /\ (v.selected # NoMove => v.own)

Sources == {v.source : v \in Views}
Kinds == {"save", "remove"}

VARIABLES
  saved,      \* what the server holds, by position
  ui,         \* the state of the hooks
  reads,      \* GET calls under way
  calls,      \* PUT and DELETE calls under way
  events,     \* user events so far
  abandoned   \* has a mutation been aborted, overtaken by a Retry or its answer been lost
              \* before it was heard of?

vars == <<saved, ui, reads, calls, events, abandoned>>

NotPending == [key |-> 0, kind |-> "none", uci |-> NoMove]
NotShown   == [fen |-> "none", move |-> NoMove]

-----------------------------------------------------------------------------
(* The hooks. *)

\* preferredMoveKnown and the relationship of deriveRepertoirePositionModel.
Known(u)    == u.shown # NotShown \/ (~u.loading /\ ~u.readError)
Present(u)  == Known(u) /\ u.shown.move # NoMove
Matching(u) == Present(u) /\ u.shown.move = u.view.selected

\* Slip: the read before the mutation is taken for the one after it.
SettledEarly(u) ==
  IF u.pending = NotPending \/ u.loading THEN u
  ELSE IF u.shown.move = u.pending.uci
    THEN [u EXCEPT !.pending = NotPending, !.mutation = "none", !.status = u.pending.kind]
    ELSE [u EXCEPT !.pending = NotPending, !.mutation = "none",
                   !.failed = u.pending.kind, !.error = "unconfirmed"]

\* The layout effect that waits for the read after a mutation.
Settled(u) ==
  IF u.pending = NotPending \/ u.completed # u.pending.key \/ u.loading
    THEN u
  ELSE IF u.readError
    THEN [u EXCEPT !.pending = NotPending, !.mutation = "none", !.failed = "none"]
  ELSE IF u.shown.move = u.pending.uci
    THEN [u EXCEPT !.pending = NotPending, !.mutation = "none", !.failed = "none",
                   !.status = u.pending.kind]
    ELSE [u EXCEPT !.pending = NotPending, !.mutation = "none",
                   !.failed = u.pending.kind, !.error = "unconfirmed"]

\* resetPositionState.
Cleared(u) ==
  [u EXCEPT !.mutationId = @ + 1, !.mutation = "none", !.error = "none",
            !.failed = "none", !.pending = NotPending]

\* The effect of usePreferredMoveState on a new position or refresh key.
Reading(u, fen) ==
  [u EXCEPT !.loading = TRUE, !.readError = FALSE, !.asked = @ + 1,
            !.shown = IF @.fen = fen THEN @ ELSE NotShown]

\* Slip: the effect's cleanup does not put an end to the read before.
ReadsAndEarlier(u, fen) ==
  reads \cup {[id |-> u.asked + 1, fen |-> fen, key |-> u.token, live |-> TRUE,
              answer |-> "none"]}

\* The reads under way once the effect has run for state u.
ReadsAfter(u, fen) ==
  {[r EXCEPT !.live = FALSE] : r \in reads}
    \cup {[id |-> u.asked + 1, fen |-> fen, key |-> u.token, live |-> TRUE,
           answer |-> "none"]}

Aborted == {[c EXCEPT !.live = FALSE] : c \in calls}

-----------------------------------------------------------------------------
(* The user. *)

Acts == events < MaxEvents /\ events' = events + 1

\* The session moves on, is replaced, or the board is flipped; the effect on
\* position and colour resets the workflow.
Go(v) ==
  /\ Acts /\ v # ui.view
  /\ LET u == [Cleared(ui) EXCEPT
                 !.view = v,
                 !.context = IF v.at = ui.view.at /\ v.bottom = ui.view.bottom
                               THEN @ ELSE "loading"]
     IN IF v.source = ui.view.source
          THEN ui' = u /\ UNCHANGED reads
          ELSE ui' = Reading(u, v.source) /\ reads' = ReadsAfter(u, v.source)
  /\ calls' = Aborted
  /\ abandoned' = (abandoned \/ \E c \in calls : c.live)
  /\ UNCHANGED saved

\* The workflow is reset and the view stays: the position that is selected in
\* the history is the one shown, or a game is loaded and cannot be.
Stay ==
  /\ Acts
  /\ ui' = Cleared(ui)
  /\ calls' = Aborted
  /\ abandoned' = (abandoned \/ \E c \in calls : c.live)
  /\ UNCHANGED <<saved, reads>>

MayRun(u, kind) ==
  /\ u.mutation = "none" /\ u.pending = NotPending /\ u.view.own
  /\ ~u.loading /\ ~u.readError
  /\ \/ kind = "save" /\ u.view.selected # NoMove
        /\ Known(u) /\ ~Matching(u) /\ u.context = "ready"
     \/ kind = "remove" /\ Present(u)

\* runMutation up to its await.
Run(kind) ==
  /\ MayRun(ui, kind)
  /\ ui' = [ui EXCEPT !.mutationId = @ + 1, !.mutation = kind,
                      !.error = "none", !.failed = "none"]
  /\ calls' = calls \cup
       {[id |-> ui.mutationId + 1, kind |-> kind, fen |-> ui.view.source,
         uci |-> IF kind = "save" THEN ui.view.selected ELSE NoMove,
         token |-> ui.token, live |-> TRUE, state |-> "sent"]}
  /\ UNCHANGED <<saved, reads, abandoned>>

\* The buttons of the panel.
Click(kind) == Acts /\ ui.context # "loading" /\ Run(kind)

ShowsError == ui.error # "none" \/ ui.readError \/ ui.context = "failed"

\* onRetry, offered beside every error; beside that of a context that failed it is
\* there even while a mutation is under way.
Retry ==
  /\ Acts /\ ShowsError
  /\ IF ui.failed # "none"
       THEN Run(ui.failed)
       ELSE LET u == [ui EXCEPT !.error = "none", !.token = @ + 1, !.context = "loading"]
            IN /\ ui' = Reading(u, u.view.source)
               /\ reads' = ReadsAfter(u, u.view.source)
               /\ abandoned' = (abandoned \/ \E c \in calls : c.live)
               /\ UNCHANGED <<saved, calls>>

-----------------------------------------------------------------------------
(* The server and the network. *)

\* The server acts on a mutation.
Apply(c) ==
  /\ c.state = "sent"
  /\ saved' = [saved EXCEPT ![c.fen] = c.uci]
  /\ calls' = (calls \ {c}) \cup {[c EXCEPT !.state = "done"]}
  /\ UNCHANGED <<ui, reads, events, abandoned>>

\* It refuses one, or never gets it; or its answer is lost.
Fail(c) ==
  /\ c.state \in {"sent", "done"}
  /\ calls' = (calls \ {c}) \cup {[c EXCEPT !.state = "failed"]}
  /\ abandoned' = (abandoned \/ c.state = "done")
  /\ UNCHANGED <<saved, ui, reads, events>>

\* The rest of runMutation, for a call that is still the workflow's own.
Concluded(c) ==
  IF c.state = "failed"
    THEN [ui EXCEPT !.mutation = "none", !.failed = c.kind, !.error = "refused"]
    ELSE [ui EXCEPT !.pending = [key |-> c.token + 1, kind |-> c.kind, uci |-> c.uci],
                    !.token = c.token + 1]

\* Slip: success is announced as soon as the server has answered.
HearAtOnce(c) ==
  /\ c.state \in {"done", "failed"}
  /\ calls' = calls \ {c}
  /\ ui' = IF c.live /\ c.id = ui.mutationId
             THEN [ui EXCEPT !.mutation = "none", !.status = c.kind]
             ELSE ui
  /\ UNCHANGED <<saved, reads, events, abandoned>>

\* The browser hears of a mutation.
Hear(c) ==
  /\ c.state \in {"done", "failed"}
  /\ calls' = calls \ {c}
  /\ LET u == IF c.live /\ c.id = ui.mutationId THEN Concluded(c) ELSE ui
     IN IF u.token = ui.token
          THEN ui' = Settled(u) /\ UNCHANGED reads
          ELSE /\ ui' = Reading(Settled(u), u.view.source)
               /\ reads' = ReadsAfter(u, u.view.source)
  /\ UNCHANGED <<saved, events, abandoned>>

\* The server answers a read, or the read fails.
Answer(r) ==
  /\ r.answer = "none"
  /\ \E a \in {saved[r.fen], "failed"} :
       reads' = (reads \ {r}) \cup {[r EXCEPT !.answer = a]}
  /\ UNCHANGED <<saved, ui, calls, events, abandoned>>

\* Slip: a read that failed leaves the state as it was.
HearReadSuccess(r) ==
  /\ r.answer # "none"
  /\ reads' = reads \ {r}
  /\ ui' = IF ~r.live \/ r.answer = "failed" THEN ui
           ELSE Settled([ui EXCEPT !.loading = FALSE, !.completed = r.key,
                                   !.shown = [fen |-> r.fen, move |-> r.answer]])
  /\ UNCHANGED <<saved, calls, events, abandoned>>

\* The browser hears of a read.
HearRead(r) ==
  /\ r.answer # "none"
  /\ reads' = reads \ {r}
  /\ ui' = IF ~r.live THEN ui
           ELSE IF r.answer = "failed"
             THEN Settled([ui EXCEPT !.loading = FALSE, !.completed = r.key,
                                     !.readError = TRUE])
             ELSE Settled([ui EXCEPT !.loading = FALSE, !.completed = r.key,
                                     !.readError = FALSE,
                                     !.shown = [fen |-> r.fen, move |-> r.answer]])
  /\ UNCHANGED <<saved, calls, events, abandoned>>

\* The read of the position context ends, or fails; of an earlier one nothing is
\* heard.
HearContext ==
  /\ ui.context = "loading"
  /\ \E c \in {"ready", "failed"} : ui' = [ui EXCEPT !.context = c]
  /\ UNCHANGED <<saved, reads, calls, events, abandoned>>

-----------------------------------------------------------------------------

Start(v) ==
  [view |-> v, shown |-> NotShown, loading |-> TRUE, readError |-> FALSE,
   completed |-> 0, asked |-> 1, token |-> 0, context |-> "loading",
   mutation |-> "none", mutationId |-> 1, failed |-> "none", error |-> "none",
   pending |-> NotPending, status |-> "none"]

Init ==
  /\ saved \in [Sources -> Moves \cup {NoMove}]
  /\ \E v \in Views :
       /\ ui = Start(v)
       /\ reads = {[id |-> 1, fen |-> v.source, key |-> 0, live |-> TRUE, answer |-> "none"]}
  /\ calls = {}
  /\ events = 0
  /\ abandoned = FALSE

User == (\E v \in Views : Go(v)) \/ Stay \/ (\E k \in Kinds : Click(k)) \/ Retry

Network ==
  \/ \E c \in calls : Apply(c) \/ Fail(c) \/ Hear(c)
  \/ \E r \in reads : Answer(r) \/ HearRead(r)
  \/ HearContext

Next == User \/ Network

Spec == Init /\ [][Next]_vars

\* Every call comes to an end; the user need not do anything.
FairSpec == Spec /\ WF_vars(Network)

-----------------------------------------------------------------------------
(* Properties. *)

TypeOK ==
  /\ saved \in [Sources -> Moves \cup {NoMove}]
  /\ ui.view \in Views
  /\ ui.mutation \in Kinds \cup {"none"} /\ ui.failed \in Kinds \cup {"none"}
  /\ ui.error \in {"none", "refused", "unconfirmed"}
  /\ \A r, s \in reads : r.live /\ s.live => r = s
  /\ ui.pending # NotPending => ui.mutation = ui.pending.kind
  /\ (\E r \in reads : r.live) <=> ui.loading

\* The saved move that is shown, compared with the selection and played on a
\* click, is one of the source position, whatever reads are under way.
ShownIsOfSource == ui.shown # NotShown => ui.shown.fen = ui.view.source

\* When nothing is under way and no error is shown, the panel shows what the
\* server holds.
QuietIsTrue ==
  (reads = {} /\ calls = {} /\ ui.error = "none" /\ ~ui.readError)
    => ui.shown = [fen |-> ui.view.source, move |-> saved[ui.view.source]]

\* The same, when every mutation has been let come to its end and been answered,
\* without a Retry that read the move anew before.
PatientQuietIsTrue == ~abandoned => QuietIsTrue

\* "Preferred move saved." or "removed." is said only of what the server holds,
\* as long as no call has been given up, lost or overtaken by a Retry.
AnnouncedIsPersisted ==
  [][ui'.status # ui.status /\ ui'.mutation = "none" /\ ~abandoned =>
       saved[ui.view.source] = IF ui'.status = "save" THEN ui.view.selected ELSE NoMove]_vars

\* A mutation that the server has carried out and acknowledged is not reported
\* as failed: the read that is to confirm it was answered after it.  A Retry beside a
\* context that failed takes this away: its read, from before the mutation, has the
\* very key that is waited for.
AcknowledgedIsNotDoubted ==
  [][ui'.error = "unconfirmed" /\ ui.error # "unconfirmed" /\ ~abandoned =>
       saved[ui.view.source] # IF ui.mutation = "save" THEN ui.view.selected ELSE NoMove]_vars

\* Retry was clicked, beside a context that failed, while the confirming read was
\* under way: the key that is waited for is not read any more.
WaitsInVain == ui.pending # NotPending /\ ui.pending.key # ui.token

\* A mutation does not stay under way for ever, with all buttons disabled, unless a
\* Retry has put an end to the read that it waits for.
MutationSettles == ui.mutation # "none" ~> ui.mutation = "none" \/ WaitsInVain

=============================================================================
