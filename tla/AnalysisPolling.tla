--------------------------- MODULE AnalysisPolling ---------------------------
(***************************************************************************)
(* The analysis panel of the Repertoire Builder (useAnalysisState): it     *)
(* observes the position shown, polls while work on it is queued or        *)
(* running, and requests an analysis when the user asks for one.           *)
(*                                                                         *)
(* Observations and requests are asynchronous calls.  The server answers a *)
(* call at one moment and the browser hears of it later; an aborted call   *)
(* is not heard of, but the server may act on it all the same.  The server *)
(* is the abstract one of the queue and the results: others may request    *)
(* and publish there too, and work may fail.                               *)
(*                                                                         *)
(* Fens with the same position and other counters are one position.  A     *)
(* step of the browser is one event with the renderings and effects that   *)
(* React runs before the next event.                                       *)
(***************************************************************************)
EXTENDS Naturals

CONSTANTS
  Fens,       \* records [position, counters]
  MaxPolls,   \* MAX_POLL_ATTEMPTS
  MaxEvents   \* bound: how often the user acts

PollingAssumption ==
  /\ MaxPolls \in Nat /\ MaxEvents \in Nat
  /\ \A f \in Fens : f = [position |-> f.position, counters |-> f.counters]

Positions == {f.position : f \in Fens}

\* No result, one of browser quality, one of tool quality.
Results == 0..2

VARIABLES
  server,     \* what is queued and stored, by position
  asked,      \* how many requests of this panel the server has acted on, by position
  ui,         \* the state of the hook
  reads,      \* observe calls under way, but for aborted ones
  requests,   \* request calls under way
  events,     \* user events so far
  abandoned   \* has a request been aborted, or its answer lost, after it was sent?

vars == <<server, asked, ui, reads, requests, events, abandoned>>

NotShown == [fen |-> [position |-> "none", counters |-> 0], state |-> "none", result |-> 0, asked |-> 0]

-----------------------------------------------------------------------------
(* Answers. *)

\* The state the server gives a position: its work comes before its result.
StateOf(s) ==
  IF s.queue # "none" THEN s.queue ELSE IF s.result > 0 THEN "ready" ELSE "not_requested"

Observation(f, s, n) ==
  [fen |-> f, state |-> StateOf(s), result |-> s.result, asked |-> n]

Active(o) == o.state \in {"queued", "running"}

\* Slip: the observation replaces what is shown.
MergedWhole(current, next) == next

\* mergeObservation: a result stays while work on its position is under way.
Merged(current, next) ==
  IF /\ Active(next) /\ next.result = 0
     /\ current # NotShown /\ current.fen.position = next.fen.position
    THEN [next EXCEPT !.result = current.result]
    ELSE next

-----------------------------------------------------------------------------
(* The effect that observes. *)

Same(u, f) == u.fen.position = f.position

\* Slip: a pending request is left as it is.
ObservingPending(u, f) ==
  [u EXCEPT !.fen = f, !.loading = TRUE, !.error = "none",
            !.timer = FALSE, !.polls = 0, !.refused = FALSE,
            !.shown = IF Same(u, f) THEN @ ELSE NotShown]

\* Slip: what is shown stays until the observation arrives.
ObservingShown(u, f) ==
  [u EXCEPT !.fen = f, !.loading = TRUE, !.error = "none",
            !.timer = FALSE, !.polls = 0, !.refused = FALSE,
            !.pending = @ /\ Same(u, f)]

\* The effect runs for fen f: the state it sets, its first read under way.
Observing(u, f) ==
  [u EXCEPT !.fen = f, !.loading = TRUE, !.error = "none",
            !.timer = FALSE, !.polls = 0, !.refused = FALSE,
            !.shown = IF Same(u, f) THEN @ ELSE NotShown,
            !.pending = @ /\ Same(u, f)]

Observe(f) == [fen |-> f, answer |-> NotShown, state |-> "sent"]

\* Slip: the cleanup of the effect aborts nothing.
ReadsWithEarlier(f) == reads \cup {Observe(f)}

\* Its cleanup aborts the reads of the effect before: nothing is heard of them.
ReadsAfter(f) == {Observe(f)}

-----------------------------------------------------------------------------
(* The user. *)

Acts == events < MaxEvents /\ events' = events + 1

\* Another fen is shown.  A request for another position is aborted.
Go(f) ==
  /\ Acts /\ f # ui.fen
  /\ ui' = Observing(ui, f)
  /\ reads' = ReadsAfter(f)
  /\ IF Same(ui, f)
       THEN UNCHANGED <<requests, abandoned>>
       ELSE /\ requests' = {[c EXCEPT !.live = FALSE] : c \in requests}
            /\ abandoned' = (abandoned \/ \E c \in requests : c.live)
  /\ UNCHANGED <<server, asked>>

\* "Retry observation", offered beside an error.
Retry ==
  /\ Acts /\ ~ui.loading /\ ui.error # "none"
  /\ ui' = Observing(ui, ui.fen)
  /\ reads' = ReadsAfter(ui.fen)
  /\ UNCHANGED <<server, asked, requests, abandoned>>

\* "Analyze position": requestAnalysis up to its await.
Analyze ==
  /\ Acts /\ ~ui.loading /\ ui.shown.state = "not_requested" /\ ~ui.pending
  /\ ui' = [ui EXCEPT !.count = @ + 1, !.pending = TRUE, !.refused = FALSE]
  /\ requests' = {[c EXCEPT !.live = FALSE] : c \in requests}
                   \cup {[id |-> ui.count + 1, fen |-> ui.fen, live |-> TRUE,
                          answer |-> NotShown, state |-> "sent"]}
  /\ UNCHANGED <<server, asked, reads, abandoned>>

-----------------------------------------------------------------------------
(* The browser goes on. *)

Failed(u) == [u EXCEPT !.timer = FALSE, !.loading = FALSE, !.error = "failed"]

\* Slip: polls are not counted.
PollUnlimited ==
  /\ ui.timer
  /\ ui' = [ui EXCEPT !.timer = FALSE]
  /\ reads' = reads \cup {Observe(ui.fen)}
  /\ UNCHANGED <<server, asked, requests, events, abandoned>>

\* The timer of the next poll.
Poll ==
  /\ ui.timer
  /\ IF ui.polls >= MaxPolls
       THEN ui' = Failed(ui) /\ UNCHANGED reads
       ELSE /\ ui' = [ui EXCEPT !.timer = FALSE, !.polls = @ + 1]
            /\ reads' = reads \cup {Observe(ui.fen)}
  /\ UNCHANGED <<server, asked, requests, events, abandoned>>

\* The rest of observe.
HearRead(r) ==
  /\ r.state # "sent"
  /\ reads' = reads \ {r}
  /\ ui' = IF r.state = "failed" THEN Failed(ui)
           ELSE [ui EXCEPT !.shown = Merged(@, r.answer), !.loading = FALSE,
                           !.error = "none", !.timer = Active(r.answer)]
  /\ UNCHANGED <<server, asked, requests, events, abandoned>>

\* Slip: what the request answers is shown, and nothing is observed.
HearRequestOnly(c) ==
  /\ c.state \in {"done", "failed"}
  /\ requests' = requests \ {c}
  /\ ui' = IF ~c.live THEN ui
           ELSE [ui EXCEPT !.pending = FALSE, !.refused = (c.state = "failed"),
                           !.shown = IF c.state = "failed" THEN @ ELSE Merged(@, c.answer)]
  /\ UNCHANGED <<server, asked, reads, events, abandoned>>

\* The rest of requestAnalysis: its answer is shown and observed anew.
HearRequest(c) ==
  /\ c.state \in {"done", "failed"}
  /\ requests' = requests \ {c}
  /\ IF ~c.live \/ ~Same(ui, c.fen)
       THEN UNCHANGED <<ui, reads>>
     ELSE IF c.state = "failed"
       THEN ui' = [ui EXCEPT !.pending = FALSE, !.refused = TRUE] /\ UNCHANGED reads
       ELSE /\ ui' = Observing([ui EXCEPT !.pending = FALSE, !.shown = Merged(@, c.answer)], ui.fen)
            /\ reads' = ReadsAfter(ui.fen)
  /\ UNCHANGED <<server, asked, events, abandoned>>

-----------------------------------------------------------------------------
(* The server and the network. *)

\* The server answers a read, or the read fails.
Answer(r) ==
  /\ r.state = "sent"
  /\ \E a \in {[r EXCEPT !.state = "failed"],
               [r EXCEPT !.state = "done",
                         !.answer = Observation(r.fen, server[r.fen.position], asked[r.fen.position])]} :
       reads' = (reads \ {r}) \cup {a}
  /\ UNCHANGED <<server, asked, ui, requests, events, abandoned>>

\* A request for tool quality: stored work or a live row is reused.
Requested(s) == IF s.result < 2 /\ s.queue = "none" THEN [s EXCEPT !.queue = "queued"] ELSE s

\* The server acts on a request.
Apply(c) ==
  LET p == c.fen.position IN
  /\ c.state = "sent"
  /\ server' = [server EXCEPT ![p] = Requested(@)]
  /\ asked' = [asked EXCEPT ![p] = @ + 1]
  /\ requests' = (requests \ {c}) \cup
       {[c EXCEPT !.state = "done", !.answer = Observation(c.fen, server'[p], asked'[p])]}
  /\ UNCHANGED <<ui, reads, events, abandoned>>

\* It refuses one, or never gets it; or its answer is lost.
Fail(c) ==
  /\ c.state \in {"sent", "done"}
  /\ requests' = (requests \ {c}) \cup {[c EXCEPT !.state = "failed"]}
  /\ abandoned' = (abandoned \/ c.state = "done")
  /\ UNCHANGED <<server, asked, ui, reads, events>>

\* Workers, bulk launches and other clients.
Worked(s) ==
  {[s EXCEPT !.queue = to] : to \in CASE s.queue = "queued"  -> {"running"}
                                      [] s.queue = "running" -> {"queued", "none"}
                                      [] s.queue = "none"    -> {"queued"}}
  \cup {[s EXCEPT !.result = r] : r \in {r \in Results : r > s.result}}
  \cup {[queue |-> "none", result |-> 2] : x \in {y \in {s} : y.queue = "running"}}

Others(p) ==
  /\ \E s \in Worked(server[p]) : s # server[p] /\ server' = [server EXCEPT ![p] = s]
  /\ UNCHANGED <<asked, ui, reads, requests, events, abandoned>>

-----------------------------------------------------------------------------

Start(f) ==
  [fen |-> f, shown |-> NotShown, loading |-> TRUE, error |-> "none", refused |-> FALSE,
   pending |-> FALSE, timer |-> FALSE, polls |-> 0, count |-> 0]

Init ==
  /\ server \in [Positions -> {[queue |-> "none", result |-> 0]}]
  /\ asked = [p \in Positions |-> 0]
  /\ \E f \in Fens : ui = Start(f) /\ reads = {Observe(f)}
  /\ requests = {}
  /\ events = 0
  /\ abandoned = FALSE

User == (\E f \in Fens : Go(f)) \/ Retry \/ Analyze

Network ==
  \/ Poll
  \/ \E r \in reads : Answer(r) \/ HearRead(r)
  \/ \E c \in requests : Apply(c) \/ Fail(c) \/ HearRequest(c)

Next == User \/ Network \/ \E p \in Positions : Others(p)

Spec == Init /\ [][Next]_vars

\* Timers fire and calls come to an end; the user and the workers need not do anything.
FairSpec == Spec /\ WF_vars(Network)

-----------------------------------------------------------------------------
(* Properties. *)

TypeOK ==
  /\ \A p \in Positions : server[p].queue \in {"none", "queued", "running"} /\ server[p].result \in Results
  /\ ui.fen \in Fens /\ ui.error \in {"none", "failed"}
  /\ ui.polls \in 0..MaxPolls
  /\ ui.pending <=> \E c \in requests : c.live
  /\ ui.loading => reads # {} /\ ui.error = "none"

\* What is shown, and played on a click, is of the position on the board,
\* whichever observations and requests are still to be heard of.
ShownIsOfPosition == ui.shown # NotShown => ui.shown.fen.position = ui.fen.position

\* A panel never has two polls before the server, or one there and one to come.
OnePollAtATime ==
  /\ \A r, s \in reads : r = s
  /\ ui.timer => reads = {}

\* Work that is shown as queued or running is watched, or an error is shown
\* beside it: the panel does not go on saying "running" of what has ended.
ActiveIsWatched == Active(ui.shown) /\ ui.error = "none" => ui.timer \/ reads # {}

\* Once a request has been acted on and heard of, the panel does not come to
\* rest on an observation from before it, unless a request was given up.
RestIsAfterRequest ==
  (~ui.loading /\ ~ui.pending /\ ~ui.timer /\ reads = {}
     /\ ui.error = "none" /\ ~ui.refused /\ ~abandoned)
    => ui.shown.asked = asked[ui.fen.position]

\* A result that is shown does not vanish while its position is shown: not
\* when work on it begins, and not when a request is heard of late.
ResultStays ==
  [][Same(ui, ui'.fen) /\ ui.shown.result > 0 => ui'.shown.result > 0]_vars

\* The panel always comes to rest: it does not load, poll or wait for ever.
PanelSettles == (ui.loading \/ ui.pending \/ ui.timer) ~> (~ui.loading /\ ~ui.pending /\ ~ui.timer)

=============================================================================
