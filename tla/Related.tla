------------------------------ MODULE Related ------------------------------
(***************************************************************************)
(* What the drawer of a finding shows as related changes                   *)
(* (backend/app/api/findings_related.py), read from the tables of          *)
(* ChangeLog at any moment.                                                *)
(*                                                                         *)
(* A finding is the set of contents that hold it.  A row of the log stands *)
(* for what one diff says of the finding's neighbourhood; an interval      *)
(* <<from, to>> stands for the changes between two snapshots.  Which       *)
(* objects are near, and their order, are left out.                        *)
(***************************************************************************)
EXTENDS ChangeLog

CONSTANTS
  MaxWindow,      \* MAX_WINDOW: how far back rows of the log are read
  MaxScansBack,   \* MAX_SCANS_BACK: snapshots inspected for the first observation
  MaxPairsBack,   \* MAX_PAIRS_BACK: pairs of snapshots compared where nothing is logged
  MaxChanges,     \* MAX_CHANGES: rows shown
  LogFetchLimit   \* LOG_FETCH_LIMIT: rows a query of the log returns

ASSUME RelatedAssumption ==
  /\ MaxWindow \in Nat
  /\ MaxScansBack \in Nat \ {0} /\ MaxPairsBack \in Nat /\ MaxChanges \in Nat \ {0}
  /\ LogFetchLimit \in Nat

\* The n newest of the given times, and the n oldest.
Latest(n, times) == {t \in times : Cardinality({u \in times : u >= t}) <= n}
Oldest(n, times) == {t \in times : Cardinality({u \in times : u <= t}) <= n}

-----------------------------------------------------------------------------
(* first_observed *)

\* The newest snapshots in a row that hold the finding, as far back as the walk goes ...
Holders(f) ==
  {t \in Latest(MaxScansBack, snapshots) : \A u \in snapshots : u >= t => seen[u] \in f}
SeenAt(f) == Min(Holders(f))

\* ... and the snapshot before them, if retention has kept one.
Older(f) == {t \in snapshots : t < SeenAt(f)}
AllSurviving(f) == Older(f) = {}
IntervalStart(f) == IF AllSurviving(f) THEN SeenAt(f) ELSE Max(Older(f))
WalkCapped(f) == ~ AllSurviving(f) /\ Holders(f) = Latest(MaxScansBack, snapshots)

-----------------------------------------------------------------------------
(* The log, and the snapshots where it does not reach *)

Interval(t) == <<base[t], t>>
Says(interval) == <<seen[interval[1]], seen[interval[2]]>>

\* effective_log_coverage: a row that reaches back behind the start of the log.
OverlappingPairs ==
  {Interval(t) : t \in {u \in log : /\ u = Min(log) /\ u = EffectiveSince
                                    /\ base[u] \notin snapshots /\ u \in snapshots}}

\* _latest_differing_pair: of the snapshots that follow each other, not too far back.
LatestDifferingPair ==
  LET inspected == Latest(MaxPairsBack + 1, snapshots)
      differing == {p \in inspected \X inspected :
                      /\ p[1] < p[2] /\ \A u \in snapshots : u <= p[1] \/ u >= p[2]
                      /\ seen[p[1]] # seen[p[2]]}
  IN {p \in differing : \A q \in differing : q[2] <= p[2]}

\* _logged: since the snapshot before the finding, but not before the floor; the query
\* returns the newest rows.
Floor == clock - MaxWindow
LogFrom(f) == IF AllSurviving(f) THEN Floor ELSE Later(IntervalStart(f), Floor)
Logged(f) == Latest(LogFetchLimit, {t \in log : t >= LogFrom(f)})

\* (mutant) rows are read from the first snapshot that holds the finding
RowsSinceSeen(f) == {t \in Logged(f) : AllSurviving(f) \/ t > SeenAt(f)}

\* The row that ended at the snapshot before the finding is dropped.
LoggedRows(f) == {t \in Logged(f) : AllSurviving(f) \/ t > IntervalStart(f)}

\* The era before the log is only in the snapshots.
BracketingPair(f) ==
  IF AllSurviving(f) THEN LatestDifferingPair
  ELSE {p \in {<<IntervalStart(f), SeenAt(f)>>} : seen[p[1]] # seen[p[2]]}

\* related_changes: _select takes the oldest rows.
FromLog(f) == {Interval(t) : t \in Oldest(MaxChanges, LoggedRows(f))}

FromBoth(f) ==
  LET pair == BracketingPair(f)
      excluded == pair \cup {p \in OverlappingPairs : \E q \in pair : q[2] = p[2]}
      rows == {t \in LoggedRows(f) : Interval(t) \notin excluded
                                       \/ \A p \in pair : Says(Interval(t)) # Says(p)}
  IN pair \cup {Interval(t) : t \in Oldest(MaxChanges - Cardinality(pair), rows)}

FirstObserved(f) == since # 0 /\ IntervalStart(f) >= EffectiveSince
RelatedChanges(f) ==
  IF since = 0 THEN LatestDifferingPair ELSE IF FirstObserved(f) THEN FromLog(f) ELSE FromBoth(f)

\* RelatedWindow.capped: what the drawer is told of it.
Capped(f) == WalkCapped(f) \/ (FirstObserved(f) /\ IntervalStart(f) < Floor)

-----------------------------------------------------------------------------

\* The limits the drawer is not told of: rows a query returns, and rows between the
\* snapshot before the finding and the first that holds it.
Fits(f) ==
  /\ Cardinality({t \in log : t >= IntervalStart(f)}) <= LogFetchLimit
  /\ Cardinality({t \in log : t > IntervalStart(f) /\ t <= SeenAt(f)}) <= MaxChanges

\* "The change that introduced it happened in that scan interval": once there is a log,
\* and as long as no scan failed or lost the snapshot it was to be compared with, the
\* drawer of a finding that an older snapshot does not hold shows a change to it, whatever
\* was thinned, expired or deleted, unless it says that its window was cut short or the rows
\* are too many (and except while the scan that found it has yet to store its rows).
Introduces(interval, f) == seen[interval[1]] \notin f /\ seen[interval[2]] \in f
CauseShown ==
  since # 0 /\ faults = 0 /\ ~vanished /\ snapshots # {} /\ pc \in {"idle", "read", "collect", "retain"} =>
    \A f \in SUBSET Content :
      seen[Newest(snapshots)] \in f /\ ~ AllSurviving(f) /\ ~ Capped(f) /\ Fits(f) =>
        \E p \in RelatedChanges(f) : Introduces(p, f)

=============================================================================
