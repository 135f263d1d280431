---------------------------- MODULE EventCapture ----------------------------
(***************************************************************************)
(* Capturing the vCenter events of one connection (backend/app/events).    *)
(*                                                                         *)
(* capture_events runs inside a scan, after the snapshot is saved.  It     *)
(* queries the window from the last checkpoint, and again each recorded    *)
(* gap that this window does not cover, splitting windows that reach the   *)
(* collector's cap, and stores what it found.  Only a capture whose main   *)
(* window was complete moves the checkpoint.  A scan that lost its lock    *)
(* may overlap the next one, so there may be several captures.             *)
(*                                                                         *)
(* The clock counts units of MIN_WINDOW.  An event may become visible to a *)
(* query a little after the time it carries; OVERLAP is there for that.    *)
(***************************************************************************)
EXTENDS Integers, FiniteSets

CONSTANTS
  Event,       \* bound: the events of this connection's vCenter
  Capture,     \* scan threads that may be inside capture_events
  None,        \* no window, no checkpoint, no time
  Cap,         \* MAX_ITEMS: a query returns at most this many events
  Hours,       \* values of event_policy.retention_hours, in ticks; an operator may
               \* change it at any time
  Overlap,     \* OVERLAP, in ticks
  Delay,       \* how late an event may become visible
  MaxClock,    \* bound
  MaxTrouble   \* bound: failures, and captures that begin beside another one

Time   == 0..MaxClock
Window == {w \in [since : Time, until : Time] : w.since <= w.until}

ASSUME EventCaptureAssumption ==
  /\ None \notin Time \cup Window \cup Capture
  /\ Cap \in Nat \ {0}
  /\ Hours \subseteq Nat /\ Hours # {}
  /\ Overlap \in Nat \ {0} /\ Delay \in 0..Overlap
  /\ MaxClock \in Nat /\ MaxTrouble \in Nat

VARIABLES
  clock,
  when, visible,     \* the time of each event that has happened; those a query can return
  checkpoint,        \* event_capture_state.last_complete_end
  gaps,              \* rows of event_incomplete_intervals
  gapLock,           \* the capture holding the advisory lock "event_gaps"
  captured,          \* events ever stored in table events
  horizon,           \* history: the latest cutoff a capture has applied
  overlaps,          \* captures that began beside another one
  pc, win, cutoff,   \* per capture: its main window and its cutoff
  retry, target,     \* recorded gaps still to query; what is being queried
  pending, good,     \* windows of target still to read; no gap so far
  rows, kept,        \* events read for target; events read for earlier targets
  gap,               \* the interval to record, then its union with what it overlaps
  faults

vcenter == <<when, visible>>
tables  == <<captured, checkpoint, gaps>>
history == <<horizon, overlaps>>
fetch   == <<retry, target, pending, good, rows, kept, gap>>
vars    == <<clock, vcenter, tables, gapLock, history, pc, win, cutoff, fetch,
             faults>>

TypeOK ==
  /\ clock \in Time
  /\ when \in [Event -> Time \cup {None}] /\ visible \subseteq Event
  /\ captured \subseteq Event
  /\ checkpoint \in Time \cup {None}
  /\ gaps \subseteq Window
  /\ gapLock \in Capture \cup {None}
  /\ horizon \in Time /\ overlaps \in Nat
  /\ pc \in [Capture -> {"idle", "prune", "list", "next", "fetch", "record", "write",
                         "keep", "rewrite", "upsert", "resolve", "mark"}]
  /\ win \in [Capture -> Window \cup {None}]
  /\ cutoff \in [Capture -> Time]
  /\ retry \in [Capture -> SUBSET Window]
  /\ target \in [Capture -> Window \cup {None}]
  /\ pending \in [Capture -> SUBSET Window]
  /\ good \in [Capture -> BOOLEAN]
  /\ rows \in [Capture -> SUBSET Event] /\ kept \in [Capture -> SUBSET Event]
  /\ gap \in [Capture -> Window \cup {None}]
  /\ faults \in Nat

Init ==
  /\ clock = 0
  /\ when = [e \in Event |-> None] /\ visible = {}
  /\ captured = {} /\ checkpoint = None /\ gaps = {} /\ gapLock = None
  /\ horizon = 0 /\ overlaps = 0
  /\ pc = [c \in Capture |-> "idle"]
  /\ win = [c \in Capture |-> None]
  /\ cutoff = [c \in Capture |-> 0]
  /\ retry = [c \in Capture |-> {}]
  /\ target = [c \in Capture |-> None]
  /\ pending = [c \in Capture |-> {}]
  /\ good = [c \in Capture |-> FALSE]
  /\ rows = [c \in Capture |-> {}]
  /\ kept = [c \in Capture |-> {}]
  /\ gap = [c \in Capture |-> None]
  /\ faults = 0

Later(t, u)  == IF t < u THEN u ELSE t
Back(t, d)   == IF t < d THEN 0 ELSE t - d     \* nothing happened before time 0
Within(v, w) == w.since <= v.since /\ v.until <= w.until
Meets(v, w)  == v.since <= w.until /\ w.since <= v.until
In(e, w)     == when[e] # None /\ w.since <= when[e] /\ when[e] <= w.until

Goto(c, p) == pc' = [pc EXCEPT ![c] = p]

Trouble == overlaps + faults < MaxTrouble

\* capture_events returns, or raises: its locals are gone, and so is a lock held by
\* the transaction under way.
Ends(c) ==
  /\ Goto(c, "idle")
  /\ win' = [win EXCEPT ![c] = None]
  /\ cutoff' = [cutoff EXCEPT ![c] = 0]
  /\ retry' = [retry EXCEPT ![c] = {}]
  /\ target' = [target EXCEPT ![c] = None]
  /\ pending' = [pending EXCEPT ![c] = {}]
  /\ good' = [good EXCEPT ![c] = FALSE]
  /\ rows' = [rows EXCEPT ![c] = {}]
  /\ kept' = [kept EXCEPT ![c] = {}]
  /\ gap' = [gap EXCEPT ![c] = None]
  /\ gapLock' = IF gapLock = c THEN None ELSE gapLock

-----------------------------------------------------------------------------
(* capture_events, up to its queries *)

\* (mutant) the window starts at the checkpoint itself
WindowNoOverlap(until, h) ==
  LET oldest == Back(until, h)
      from   == IF checkpoint = None THEN oldest
                ELSE IF checkpoint < until THEN checkpoint ELSE until
  IN [since |-> Later(from, oldest), until |-> until]

\* capture_window, for a snapshot taken now.
CaptureWindow(until, h) ==
  LET oldest == Back(until, h)
      from   == IF checkpoint = None THEN oldest
                ELSE IF Back(checkpoint, Overlap) < until THEN Back(checkpoint, Overlap)
                ELSE until
  IN [since |-> Later(from, oldest), until |-> until]

Begin(c) ==
  /\ pc[c] = "idle"
  /\ \E h \in Hours : /\ win' = [win EXCEPT ![c] = CaptureWindow(clock, h)]
                     /\ horizon' = Later(horizon, Back(clock, h))
  /\ \/ /\ \A d \in Capture : pc[d] = "idle"
        /\ UNCHANGED overlaps
     \/ /\ \E d \in Capture : pc[d] # "idle"
        /\ Trouble /\ overlaps' = overlaps + 1
  /\ Goto(c, "prune")
  /\ UNCHANGED <<clock, vcenter, tables, gapLock, cutoff, fetch, faults>>

\* The policy is read a second time, for the cutoff; prune_incomplete_intervals.
PruneGaps(c) ==
  /\ pc[c] = "prune"
  /\ \E h \in Hours : LET before == Back(win[c].until, h) IN
        /\ cutoff' = [cutoff EXCEPT ![c] = before]
        /\ horizon' = Later(horizon, before)
        /\ gaps' = {[g EXCEPT !.since = Later(@, before)] : g \in {old \in gaps : old.until >= before}}
  /\ Goto(c, "list")
  /\ UNCHANGED <<clock, vcenter, captured, checkpoint, gapLock, overlaps, win, fetch, faults>>

ListGaps(c) ==
  /\ pc[c] = "list"
  /\ retry' = [retry EXCEPT ![c] = {g \in gaps : ~ Within(g, win[c])}]
  /\ Goto(c, "next")
  /\ UNCHANGED <<clock, vcenter, tables, gapLock, history, win, cutoff, target, pending,
                 good, rows, kept, gap, faults>>

Leftmost(ws) == {w \in ws : \A v \in ws : w.since <= v.since}

\* The oldest gap still to retry, then the main window.
NextTarget(c) ==
  /\ pc[c] = "next"
  /\ \E w \in IF retry[c] = {} THEN {win[c]} ELSE Leftmost(retry[c]) :
       /\ target' = [target EXCEPT ![c] = w]
       /\ pending' = [pending EXCEPT ![c] = {w}]
       /\ retry' = [retry EXCEPT ![c] = @ \ {w}]
  /\ good' = [good EXCEPT ![c] = TRUE]
  /\ Goto(c, "fetch")
  /\ UNCHANGED <<clock, vcenter, tables, gapLock, history, win, cutoff, rows, kept, gap, faults>>

-----------------------------------------------------------------------------
(* _fetch_window: one query for the leftmost window still to read *)

Found(w) == {e \in visible : In(e, w)}
Reads(c, w) == pc[c] = "fetch" /\ w \in Leftmost(pending[c])

Resolved(w) == {g \in gaps : ~ Within(g, w)}

QueryComplete(c, w) ==
  /\ Reads(c, w) /\ Cardinality(Found(w)) < Cap
  /\ rows' = [rows EXCEPT ![c] = @ \cup Found(w)]
  /\ pending' = [pending EXCEPT ![c] = @ \ {w}]
  /\ gaps' = Resolved(w)
  /\ UNCHANGED <<clock, vcenter, captured, checkpoint, gapLock, history, pc, win, cutoff,
                 retry, target, good, kept, gap, faults>>

\* (mutant) only the newer half is read
HalvesNewer(w) ==
  LET mid == (w.since + w.until) \div 2
  IN {[w EXCEPT !.since = mid]}

Halves(w) ==
  LET mid == (w.since + w.until) \div 2
  IN {[w EXCEPT !.until = mid], [w EXCEPT !.since = mid]}

\* The cap was reached: what was read is dropped, both halves are read instead.
QuerySplits(c, w) ==
  /\ Reads(c, w) /\ Cardinality(Found(w)) >= Cap /\ w.until - w.since > 1
  /\ pending' = [pending EXCEPT ![c] = (@ \ {w}) \cup Halves(w)]
  /\ UNCHANGED <<clock, vcenter, tables, gapLock, history, pc, win, cutoff, retry, target,
                 good, rows, kept, gap, faults>>

\* The rows of w are kept, and w is a gap.
Incomplete(c, w, got) ==
  /\ rows' = [rows EXCEPT ![c] = @ \cup got]
  /\ pending' = [pending EXCEPT ![c] = @ \ {w}]
  /\ good' = [good EXCEPT ![c] = FALSE]
  /\ gap' = [gap EXCEPT ![c] = w]
  /\ Goto(c, "record")
  /\ UNCHANGED <<clock, vcenter, tables, gapLock, history, win, cutoff, retry, target, kept>>

\* The cap was reached in the smallest window: the newest of it are missing.
QueryCapped(c, w) ==
  /\ Reads(c, w) /\ Cardinality(Found(w)) >= Cap /\ w.until - w.since <= 1
  /\ \E got \in SUBSET Found(w) :
       /\ Cardinality(got) = Cap
       /\ \A e \in got, f \in Found(w) \ got : when[e] <= when[f]
       /\ Incomplete(c, w, got)
  /\ UNCHANGED faults

\* The events were read, the tasks were not.
QueryErrs(c, w) ==
  /\ Reads(c, w)
  /\ Trouble /\ faults' = faults + 1
  /\ \E got \in SUBSET Found(w) : Cardinality(got) <= Cap /\ Incomplete(c, w, got)

\* The handler of a retry that raised records its gap again.
KeepGap(c) ==
  /\ target[c] # win[c]
  /\ gap' = [gap EXCEPT ![c] = target[c]]
  /\ Goto(c, "keep")
  /\ UNCHANGED target

\* The query, or a statement of its bookkeeping, raises: what was read of the target is
\* gone.  A failing main window leaves the rows of the retries to store.
FetchRaises(c) ==
  /\ \/ pc[c] = "fetch" /\ pending[c] # {}
     \/ pc[c] \in {"record", "write"}
  /\ Trouble /\ faults' = faults + 1
  /\ rows' = [rows EXCEPT ![c] = {}]
  /\ pending' = [pending EXCEPT ![c] = {}]
  /\ good' = [good EXCEPT ![c] = FALSE]
  /\ gapLock' = IF gapLock = c THEN None ELSE gapLock
  /\ \/ KeepGap(c)
     \/ /\ target[c] = win[c]
        /\ target' = [target EXCEPT ![c] = None]
        /\ gap' = [gap EXCEPT ![c] = None]
        /\ Goto(c, "upsert")
  /\ UNCHANGED <<clock, vcenter, tables, history, win, cutoff, retry, kept>>

\* The retry was complete, but clearing its gap raises; its rows are kept all the same.
ClearRaises(c) ==
  /\ pc[c] = "fetch" /\ pending[c] = {} /\ good[c]
  /\ Trouble /\ faults' = faults + 1
  /\ KeepGap(c)
  /\ good' = [good EXCEPT ![c] = FALSE]
  /\ kept' = [kept EXCEPT ![c] = @ \cup rows[c]]
  /\ rows' = [rows EXCEPT ![c] = {}]
  /\ UNCHANGED <<clock, vcenter, tables, gapLock, history, win, cutoff, retry, pending>>

-----------------------------------------------------------------------------
(* record_incomplete_interval: read, merge, rewrite under a lock *)

\* The smallest window around w that no recorded gap sticks out of.
Closed(m) == \A g \in gaps : Meets(g, m) => Within(g, m)
Merged(w) ==
  {m \in Window : /\ Within(w, m) /\ Closed(m)
                  /\ \A n \in Window : Within(w, n) /\ Closed(n) => Within(m, n)}

\* (mutant) without the lock
ReadGapsUnlocked(c) ==
  /\ pc[c] \in {"record", "keep"}
  /\ \E m \in Merged(gap[c]) : gap' = [gap EXCEPT ![c] = m]
  /\ Goto(c, IF pc[c] = "record" THEN "write" ELSE "rewrite")
  /\ UNCHANGED <<clock, vcenter, tables, gapLock, history, win, cutoff, retry, target,
                 pending, good, rows, kept, faults>>

ReadGaps(c) ==
  /\ pc[c] \in {"record", "keep"} /\ gapLock = None
  /\ gapLock' = c
  /\ \E m \in Merged(gap[c]) : gap' = [gap EXCEPT ![c] = m]
  /\ Goto(c, IF pc[c] = "record" THEN "write" ELSE "rewrite")
  /\ UNCHANGED <<clock, vcenter, tables, history, win, cutoff, retry, target, pending,
                 good, rows, kept, faults>>

WriteGap(c) ==
  /\ pc[c] \in {"write", "rewrite"}
  /\ gaps' = Resolved(gap[c]) \cup {gap[c]}
  /\ gap' = [gap EXCEPT ![c] = None]
  /\ gapLock' = IF gapLock = c THEN None ELSE gapLock
  /\ Goto(c, "fetch")
  /\ UNCHANGED <<clock, vcenter, captured, checkpoint, history, win, cutoff, retry, target,
                 pending, good, rows, kept, faults>>

-----------------------------------------------------------------------------
(* capture_events, after its queries *)

\* A target is read: a complete retry clears its gap.
FetchEnds(c) ==
  /\ pc[c] = "fetch" /\ pending[c] = {}
  /\ kept' = [kept EXCEPT ![c] = @ \cup rows[c]]
  /\ rows' = [rows EXCEPT ![c] = {}]
  /\ \/ /\ target[c] # win[c]
        /\ gaps' = IF good[c] THEN Resolved(target[c]) ELSE gaps
        /\ Goto(c, "next")
     \/ /\ target[c] = win[c]
        /\ Goto(c, "upsert")
        /\ UNCHANGED gaps
  /\ UNCHANGED <<clock, vcenter, captured, checkpoint, gapLock, history, win, cutoff, retry,
                 target, pending, good, gap, faults>>

UpsertEvents(c) ==
  /\ pc[c] = "upsert"
  /\ LET fresh == {e \in kept[c] : when[e] >= cutoff[c]}
     IN captured' = captured \cup fresh
  /\ IF good[c]
       THEN Goto(c, "resolve") /\ UNCHANGED <<win, cutoff, fetch, gapLock>>
       ELSE Ends(c)
  /\ UNCHANGED <<clock, vcenter, checkpoint, gaps, history, faults>>

ResolveRange(c) ==
  /\ pc[c] = "resolve"
  /\ gaps' = Resolved(win[c])
  /\ Goto(c, "mark")
  /\ UNCHANGED <<clock, vcenter, captured, checkpoint, gapLock, history, win, cutoff, fetch, faults>>

SetCheckpoint(c) ==
  /\ pc[c] = "mark"
  /\ checkpoint' = win[c].until
  /\ Ends(c)
  /\ UNCHANGED <<clock, vcenter, captured, gaps, history, faults>>

\* A statement raises outside the handlers, or in one, or the worker is killed.
CaptureFails(c) ==
  /\ pc[c] # "idle"
  /\ Trouble /\ faults' = faults + 1
  /\ Ends(c)
  /\ UNCHANGED <<clock, vcenter, tables, history>>

-----------------------------------------------------------------------------
(* The rest of the world *)

Happen(e) ==
  /\ when[e] = None
  /\ when' = [when EXCEPT ![e] = clock]
  /\ \/ visible' = visible \cup {e}
     \/ Delay > 0 /\ UNCHANGED visible
  /\ UNCHANGED <<clock, tables, gapLock, history, pc, win, cutoff, fetch, faults>>

Appear(e) ==
  /\ when[e] # None /\ e \notin visible
  /\ visible' = visible \cup {e}
  /\ UNCHANGED <<clock, when, tables, gapLock, history, pc, win, cutoff, fetch, faults>>

\* Time passes, but not so that an event would become visible too late.
Tick ==
  /\ clock < MaxClock
  /\ \A e \in Event : when[e] # None /\ e \notin visible => clock + 1 < when[e] + Delay
  /\ clock' = clock + 1
  /\ UNCHANGED <<vcenter, tables, gapLock, history, pc, win, cutoff, fetch, faults>>

Step(c) ==
  \/ Begin(c) \/ PruneGaps(c) \/ ListGaps(c) \/ NextTarget(c)
  \/ \E w \in Window :
       \/ QueryComplete(c, w) \/ QuerySplits(c, w) \/ QueryCapped(c, w)
       \/ QueryErrs(c, w)
  \/ FetchRaises(c) \/ ClearRaises(c)
  \/ ReadGaps(c) \/ WriteGap(c)
  \/ FetchEnds(c) \/ UpsertEvents(c) \/ ResolveRange(c) \/ SetCheckpoint(c) \/ CaptureFails(c)

Next ==
  \/ \E c \in Capture : Step(c)
  \/ \E e \in Event : Happen(e) \/ Appear(e)
  \/ Tick

Spec == Init /\ [][Next]_vars

-----------------------------------------------------------------------------
(* What capturing promises *)

\* "A per-connection checkpoint advances only after the full window is fetched": an
\* event older than the checkpoint, by the overlap, has been stored, unless it was
\* already beyond the retention cutoff when it could have been.
CheckpointBacked ==
  checkpoint # None =>
    \A e \in Event :
       when[e] # None /\ horizon <= when[e] /\ when[e] + Overlap <= checkpoint => e \in captured

\* "Two workers recording overlapping gaps for the same connection would otherwise
\* interleave and leave both rows": recorded gaps never meet.
GapsDisjoint == \A g, h \in gaps : g # h => ~ Meets(g, h)

\* "Capped windows are bisected so the newest rows cannot be silently discarded": as a
\* capture comes to store the rows of its main window, an event of the window that
\* it does not have is in a recorded gap.  (Another capture may clear the gap again, with
\* rows of its own: only captures that had the table to themselves promise this.)
Settled(e, w) == In(e, w) /\ when[e] + Delay <= w.until
NothingDiscarded ==
  overlaps = 0 => \A c \in Capture : pc[c] = "upsert" /\ target[c] = win[c] =>
     \A e \in Event : Settled(e, win[c]) => e \in kept[c] \/ \E g \in gaps : In(e, g)

=============================================================================
