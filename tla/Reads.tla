--------------------------------- MODULE Reads ---------------------------------
(***************************************************************************)
(* What the web service reads by several SELECTs outside of a transaction  *)
(* while others write: the insight into a position (PositionInsight), the  *)
(* search for games (GameSearch) and the catalogue of openings             *)
(* (OpeningCatalogue).  Readers change nothing that another one reads, so  *)
(* each behaviour is of one of them.                                       *)
(***************************************************************************)
CONSTANTS
  None, Outages,   \* see both
  Plays, Endings, Studied, Preferences, MaxCommits,   \* see PositionInsight
  Versions, RouteTables, Places, Legal, Queries, Begins, MaxWrites,   \* see GameSearch
  Labels, EcoOf, NameOf, Texts, Unnamed, Beginning, Leads, NoPosition, Sources, Scores, PageSizes, Visitors   \* see OpeningCatalogue

VARIABLES
  asked,   \* whose behaviour it is
  played, kept, endings, requests, analysed, preference, reading, insight,
  begun, rested, commits,   \* see PositionInsight
  games, routes, covered, preferred, search, reply, detail, query, seen,
  start, moved, writes,   \* see GameSearch
  source, tables, reader, answer   \* see OpeningCatalogue

insightVars ==
  <<played, kept, endings, requests, analysed, preference, reading, insight, begun, rested, commits>>
searchVars ==
  <<games, routes, covered, preferred, search, reply, detail, query, seen, start, moved, writes>>
openings == <<source, tables, reader, answer>>
reads == <<asked, insightVars, searchVars, openings>>

Insight == INSTANCE PositionInsight WITH
  Versions <- Plays, RouteTables <- Endings, Positions <- Studied, MaxWrites <- MaxCommits,
  games <- played, stored <- kept, routes <- endings, results <- analysed, writes <- commits

Search == INSTANCE GameSearch WITH Positions <- Places, results <- covered

Catalogue == INSTANCE OpeningCatalogue WITH
  Start <- Beginning, Play <- Leads, Games <- Scores, Readers <- Visitors

ASSUME InsightHolds == Insight!PositionInsightAssumption
ASSUME SearchHolds == Search!GameSearchAssumption
ASSUME CatalogueHolds == Catalogue!CatalogueAssumption

-----------------------------------------------------------------------------

ReadsInit ==
  asked \in {"insight", "search", "catalogue"} /\ Insight!Init /\ Search!Init /\ Catalogue!Init

ReadsNext ==
  \/ asked = "insight" /\ Insight!Next /\ UNCHANGED <<asked, searchVars, openings>>
  \/ asked = "search" /\ Search!Next /\ UNCHANGED <<asked, insightVars, openings>>
  \/ asked = "catalogue" /\ Catalogue!Next /\ UNCHANGED <<asked, insightVars, searchVars>>

ReadsSpec == ReadsInit /\ [][ReadsNext]_reads

-----------------------------------------------------------------------------

\* An insight into a position that is read while games, routes, requests and
\* preferences change: its numbers fit each other; the move counts agree with the
\* games they are counts of; what no write came into is what the games say
\* themselves; and "not requested" was true at some moment (insight_readers.py:61).
InsightIsHonest == Insight!Honest

\* A search, page by page, while games are imported: no game that matched when it
\* began is missed unless a write corrected one or took one out, or the query
\* combines the filters of two tables that are read apart; the coverage given of a
\* game was true at some moment; a game opened is one import's
\* (search_repository.py:91).  While nothing is written, the pages hold every game
\* that matches exactly once, in the order asked for (search_filters.py:140).
SearchIsHonest == Search!Honest

\* What is read of an opening catalogue that is replaced between and within the
\* readings: routes replay and end where it says; a reading without a replacement is
\* exact (catalogue.py:202); lookup and replay name the right opening
\* (recognition.py:323); a game counts as deepest once; pages show each entry once.
CatalogueIsRight == Catalogue!Right

===============================================================================
