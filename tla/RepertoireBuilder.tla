-------------------------- MODULE RepertoireBuilder --------------------------
(***************************************************************************)
(* The panels of the Repertoire Builder: the one that shows and requests   *)
(* analyses (AnalysisPolling), and the one that saves and removes          *)
(* preferred moves (PreferredMoveWorkflow).  They share no state and meet  *)
(* a server of their own each, so each behaviour is of one of them.        *)
(***************************************************************************)
EXTENDS Naturals

CONSTANTS
  Fens, MaxPolls, MaxEvents,         \* see AnalysisPolling
  Views, Moves, NoMove, MaxChanges   \* see PreferredMoveWorkflow

VARIABLES
  side,   \* whose behaviour it is
  server, asked, ui, reads, requests, events, abandoned,   \* see AnalysisPolling
  saved, panel, gets, calls, changes, given                \* see PreferredMoveWorkflow

polling == <<server, asked, ui, reads, requests, events, abandoned>>
saving == <<saved, panel, gets, calls, changes, given>>
builder == <<side, polling, saving>>

Polling == INSTANCE AnalysisPolling

Saving == INSTANCE PreferredMoveWorkflow WITH
  MaxEvents <- MaxChanges,
  ui <- panel, reads <- gets, events <- changes, abandoned <- given

ASSUME PollingHolds == Polling!PollingAssumption
ASSUME SavingHolds == Saving!WorkflowAssumption

-----------------------------------------------------------------------------

BuilderInit ==
  /\ Polling!Init /\ Saving!Init
  /\ side \in {"polling", "saving"}
  /\ side # "polling" => ui.fen = CHOOSE f \in Fens : TRUE
  /\ side # "saving" => panel.view = (CHOOSE v \in Views : TRUE) /\ saved = [p \in Saving!Sources |-> NoMove]

OfPolling(A) == side = "polling" /\ A /\ UNCHANGED <<side, saving>>
OfSaving(A) == side = "saving" /\ A /\ UNCHANGED <<side, polling>>

BuilderNext == OfPolling(Polling!Next) \/ OfSaving(Saving!Next)

BuilderSpec == BuilderInit /\ [][BuilderNext]_builder

\* The fairness of the two modules.
FairBuilderSpec ==
  /\ BuilderSpec
  /\ WF_builder(OfPolling(Polling!Network)) /\ WF_builder(OfSaving(Saving!Network))

-----------------------------------------------------------------------------

\* What the panels show, whichever reads, polls and calls are under way or late:
\* the analysis shown is of the position on the board, work shown as active is
\* watched by one poll, and rest is after the last request (analysisState.ts);
\* the saved move shown is of the source position and, at rest with every mutation
\* answered and none overtaken by a Retry, what the server holds
\* (preferredMoveState.ts).
PanelsAreTrue ==
  /\ Polling!TypeOK
  /\ Polling!ShownIsOfPosition
  /\ Polling!OnePollAtATime
  /\ Polling!ActiveIsWatched
  /\ Polling!RestIsAfterRequest
  /\ Saving!TypeOK
  /\ Saving!ShownIsOfSource
  /\ Saving!PatientQuietIsTrue

\* What was said stays so: a result that is shown does not vanish; "saved" and
\* "removed" are said only of what the server holds; and what it has carried out and
\* acknowledged is not reported as failed: the latter two as long as no call was given
\* up, lost, or overtaken by the Retry that stands beside a failed position context.
PanelsKeepTheirWord ==
  /\ Polling!ResultStays
  /\ Saving!AnnouncedIsPersisted
  /\ Saving!AcknowledgedIsNotDoubted

\* The panels come to rest: the one does not load or poll for ever, and in the other
\* no mutation stays under way with all buttons disabled, unless a Retry beside a
\* failed position context has put an end to the read that it waits for.
PanelsSettle ==
  /\ side = "polling" => Polling!PanelSettles
  /\ Saving!MutationSettles

=============================================================================
