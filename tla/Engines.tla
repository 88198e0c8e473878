-------------------------------- MODULE Engines --------------------------------
(***************************************************************************)
(* The programs around an engine process: the managed engine of the        *)
(* earlier web service (ManagedEngine), the engine of the database         *)
(* commands (StockfishEngine), and the benchmark (StockfishBenchmark).     *)
(* They share no state, so each behaviour is of one of them; those of the  *)
(* second are told apart by whether a reader may outlive its join.         *)
(***************************************************************************)
EXTENDS ManagedEngine

CONSTANTS
  Requests, Moves, LineCounts, NoRequest, MaxProcesses, MaxOrders, MaxInfos,   \* see StockfishEngine
  StrayingRequests, StrayingLines, StrayingKills,
     \* of an engine with late readers: its requests, how many lines a search of it
     \* sends at most, and whether a kill of it may not take
  Specs, Retries, Missing, Torn, StopPoints, MaxRuns     \* see StockfishBenchmark

VARIABLES
  part,   \* whose behaviour it is
  process, verified, output, reader, hand, system, order, spawned, orders, answer,   \* see StockfishEngine
  disk, spec, pc, plan, tries, records, successful, failed, block, todo, leaving,
  outcome, runs   \* see StockfishBenchmark

engine == <<process, verified, output, reader, hand, system, order, spawned, orders, answer>>
benchmark ==
  <<disk, spec, pc, plan, tries, records, successful, failed, block, todo, leaving, outcome, runs>>
engines == <<part, vars, engine, benchmark>>

Engine == INSTANCE StockfishEngine WITH
  Lines <- LineCounts, MaxCalls <- MaxOrders, child <- system, call <- order, calls <- orders

Benchmark == INSTANCE StockfishBenchmark WITH
  Interrupts <- StopPoints, Crashes <- StopPoints, TornWrites <- TRUE

ASSUME EngineHolds ==
  /\ Engine!EngineAssumption
  /\ StrayingRequests \subseteq Requests /\ StrayingLines \in Nat /\ StrayingKills \in BOOLEAN
ASSUME BenchmarkHolds == Benchmark!BenchmarkAssumption

-----------------------------------------------------------------------------

EnginesInit ==
  /\ Init /\ Engine!Init /\ Benchmark!Init
  /\ part \in {"managed", "exact", "straying", "benchmark"}
  /\ part # "benchmark" => spec = CHOOSE s \in Specs : TRUE
  /\ part # "benchmark" => disk["status"] = Missing

Managed(A) == part = "managed" /\ A /\ UNCHANGED <<part, engine, benchmark>>
OfEngine(p, A) == part = p /\ A /\ UNCHANGED <<part, vars, benchmark>>
OfBenchmark(A) == part = "benchmark" /\ A /\ UNCHANGED <<part, vars, engine>>

\* The readers end in time; or they may be late, where the constants bound what the
\* child does, for a smaller instance.
InTime(A) == OfEngine("exact", A /\ Engine!ReadersEnd)
Straying(A) ==
  OfEngine("straying",
    /\ A
    /\ order'.request \in StrayingRequests \cup {NoRequest}
    /\ \A p \in Engine!Processes :
         /\ system'[p].up => p = process' \/ StrayingKills
         /\ system'[p].sent <= StrayingLines
         /\ \A k \in DOMAIN system'[p].pipe : system'[p].pipe[k].rank <= StrayingLines)

EnginesNext ==
  \/ Managed(Next)
  \/ InTime(Engine!Next) \/ Straying(Engine!Next)
  \/ OfBenchmark(Benchmark!Next)

EnginesSpec == EnginesInit /\ [][EnginesNext]_engines

\* The fairness of the three modules.
FairEnginesSpec ==
  /\ EnginesSpec
  /\ \A c \in Callers : WF_engines(Managed(Step(c)))
  /\ WF_engines(InTime(Engine!Work)) /\ WF_engines(Straying(Engine!Work))
  /\ WF_engines(OfBenchmark(Benchmark!Work))

-----------------------------------------------------------------------------

\* Whichever call failed, hung or timed out before, and whether or not a kill took:
\* no process is worked with but the one held, between calls a verified one, and of
\* each that was replaced at most one line, that of a late reader, is taken for the
\* replacement's.  As long as no reader outlives its join, a result holds exactly the
\* lines asked for, each sent for this very request, and nothing of a process that was
\* replaced stands in the queue of another (engine_runner.py:149, 184, 232, 296).
ResultsAreOwn ==
  /\ Engine!TypeOK
  /\ Engine!OneVerifiedChild
  /\ Engine!StraysAreFew
  /\ part = "exact" => Engine!ResultIsOwn /\ Engine!ReplacementIsFresh

\* A benchmark that fails, stops or dies between any two writes is taken up where
\* it was, its own attempts that the manifest had not caught up with apart: "complete"
\* is said truly; every job without a success is tried; the checkpoint and the
\* summaries are of a beginning of the attempts; no job the attempts show measured is
\* measured again; and two specifications never mix (benchmark_runner.py:248, 279).
BenchmarkResumes ==
  /\ Benchmark!TypeOK
  /\ Benchmark!CompleteIsTrue
  /\ Benchmark!NothingLeftOut
  /\ Benchmark!ArtifactsAreOfABeginning
  /\ Benchmark!MeasuredOnce
  /\ Benchmark!NeverMixed

\* Whoever calls an engine gets an answer: a caller of the managed engine whichever
\* threads use, close and terminate it (engine.py); a caller of the other one,
\* whatever the child and its readers do, with each search configured anew
\* (engine_runner.py:149, 273); and a run of the benchmark, whichever writes fail.
EverythingReturns ==
  /\ CallsReturn
  /\ Engine!CallsEnd
  /\ Engine!SearchesConfigured
  /\ Benchmark!RunsEnd

-----------------------------------------------------------------------------
(* A small instance: a position with many moves, one with a single move, one *)
(* that is over; two profiles with one job each, or one profile with two.    *)

SmallMoves == [r \in Requests |-> CASE r = "wide" -> 3 [] r = "narrow" -> 1 [] r = "mate" -> 0]
SmallLines == [r \in Requests |-> 2]

SmallProfile(t) == [threads |-> t, hash |-> 64]
SmallSpecs ==
  {[profiles |-> <<SmallProfile(2), SmallProfile(1)>>, budgets |-> {100}, positions |-> {1}, repetitions |-> 1],
   [profiles |-> <<SmallProfile(1)>>, budgets |-> {100}, positions |-> {1, 2}, repetitions |-> 1]}

===============================================================================
