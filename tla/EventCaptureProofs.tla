------------------------- MODULE EventCaptureProofs -------------------------
(* Proofs about EventCapture, for every cap, policy, delay and number of   *)
(* captures: recorded gaps never meet, and a checkpoint is moved only past *)
(* events that have been stored.                                           *)
EXTENDS EventCapture, TLAPS

Writing(c) == pc[c] \in {"write", "rewrite"}

\* What a step of capture c needs of its own frame.
Frames ==
  \A c \in Capture : /\ pc[c] # "idle" => win[c] \in Window
                     /\ Writing(c) => gap[c] \in Window

\* The parts of the inductive invariant for GapsDisjoint: who writes holds the lock, and
\* no recorded gap sticks out of what it writes.
WritersLock == \A c \in Capture : Writing(c) => gapLock = c /\ Closed(gap[c])

\* The parts of the inductive invariant for CheckpointBacked.
Due(e, t) == when[e] # None /\ when[e] + Overlap <= t

\* Late events are not too late.
EventsAppear ==
  \A e \in Event : when[e] # None => /\ when[e] <= clock
                                     /\ e \in visible \/ clock < when[e] + Delay

CheckpointPast == checkpoint # None => checkpoint <= clock

WindowPast(c) == /\ pc[c] # "idle" => win[c].until <= clock
                 /\ cutoff[c] <= horizon

\* A main window starts early enough for every event that is due at its end.
WindowReaches(c) ==
  pc[c] # "idle" =>
     \A e \in Event : Due(e, win[c].until) /\ horizon <= when[e] => e \in captured \/ In(e, win[c])

\* While the main window is read without a gap, its events are read or still to read.
ReadsKeepUp(c) ==
  pc[c] = "fetch" /\ target[c] = win[c] /\ good[c] =>
     \A e \in Event : Due(e, win[c].until) /\ In(e, win[c]) =>
        e \in rows[c] \/ \E w \in pending[c] : In(e, w)

\* Once it is read they are kept, and then stored.
ReadsKept(c) ==
  pc[c] = "upsert" /\ good[c] =>
     \A e \in Event : Due(e, win[c].until) /\ In(e, win[c]) => e \in kept[c]

ReadsStored(c) ==
  pc[c] \in {"resolve", "mark"} =>
     \A e \in Event : Due(e, win[c].until) /\ horizon <= when[e] => e \in captured

GapSpoils(c) == pc[c] \in {"record", "write", "keep", "rewrite"} => ~ good[c]

Mark(c) == /\ WindowPast(c) /\ WindowReaches(c)
           /\ ReadsKeepUp(c) /\ ReadsKept(c) /\ ReadsStored(c) /\ GapSpoils(c)

\* The parts of the inductive invariant for NothingDiscarded: while the main window is
\* read, a settled event is among the rows, still to read, on record as a gap, or in
\* the gap that is being recorded.
Alone == \A c, d \in Capture : pc[c] # "idle" /\ pc[d] # "idle" => c = d

OnRecord(e) == \E g \in gaps : In(e, g)

Accounted(c, e) == \/ e \in rows[c] \cup kept[c]
                   \/ \E w \in pending[c] : In(e, w)
                   \/ OnRecord(e)
                   \/ pc[c] # "fetch" /\ In(e, gap[c])

Reading(c) == pc[c] \in {"fetch", "record", "write"} /\ target[c] = win[c]
Read(c)    == pc[c] = "upsert" /\ target[c] = win[c]

Keeps(c) ==
  /\ pc[c] = "record" => gap[c] \in Window
  /\ pc[c] \in {"keep", "rewrite"} => target[c] # win[c]
  /\ Reading(c) => \A e \in Event : Settled(e, win[c]) => Accounted(c, e)
  /\ Read(c) => \A e \in Event : Settled(e, win[c]) => e \in kept[c] \/ OnRecord(e)

Accounts == overlaps = 0 => Alone /\ \A c \in Capture : Keeps(c)

GapInv  == TypeOK /\ Frames /\ WritersLock /\ GapsDisjoint
MarkInv == /\ TypeOK /\ Frames
           /\ EventsAppear /\ CheckpointPast /\ CheckpointBacked
           /\ \A c \in Capture : Mark(c)

-----------------------------------------------------------------------------
(* Windows *)

LEMMA BackType ==
  ASSUME NEW t \in Time, NEW h \in Nat
  PROVE  Back(t, h) \in Time /\ Back(t, h) <= t
BY EventCaptureAssumption DEF Back, Time

\* A main window ends where it should, starts no earlier than the policy allows, and,
\* with a checkpoint, no later than the overlap before it unless the policy says so.
LEMMA WindowShape ==
  ASSUME TypeOK, NEW t \in Time, NEW h \in Hours
  PROVE  /\ CaptureWindow(t, h) \in Window
         /\ CaptureWindow(t, h).until = t
         /\ \A u \in Time : /\ Back(t, h) <= u
                            /\ u <= t
                            /\ u < CaptureWindow(t, h).since
                            => checkpoint # None /\ u + Overlap < checkpoint
<1>1. h \in Nat /\ Overlap \in Nat BY EventCaptureAssumption
<1>2. MaxClock \in Nat BY EventCaptureAssumption
<1>3. CASE checkpoint = None
  BY <1>1, <1>2, <1>3 DEF CaptureWindow, Window, Later, Back, Time
<1>4. CASE checkpoint # None
  <2>1. checkpoint \in Time BY <1>4 DEF TypeOK
  <2>. QED BY <1>1, <1>2, <1>4, <2>1 DEF CaptureWindow, Window, Later, Back, Time
<1>. QED BY <1>3, <1>4

\* The two halves of a window are windows, and miss nothing of it.
LEMMA HalvesCover ==
  ASSUME TypeOK, NEW w \in Window
  PROVE  /\ Halves(w) \subseteq Window
         /\ \A e \in Event : In(e, w) => \E v \in Halves(w) : In(e, v)
<1>. DEFINE mid == (w.since + w.until) \div 2
<1>1. w.since \in Nat /\ w.until \in Nat /\ w.since <= w.until /\ w.until <= MaxClock
  BY EventCaptureAssumption DEF Window, Time
<1>2. mid \in Nat /\ w.since <= mid /\ mid <= w.until BY <1>1
<1>. DEFINE l == [w EXCEPT !.until = mid]
            r == [w EXCEPT !.since = mid]
<1>3. /\ l.since = w.since /\ l.until = mid
      /\ r.since = mid /\ r.until = w.until
  BY DEF Window
<1>4. Halves(w) = {l, r} BY DEF Halves
<1>5. l \in Window /\ r \in Window
  BY <1>1, <1>2, EventCaptureAssumption DEF Window, Time
<1>6. ASSUME NEW e \in Event, In(e, w) PROVE In(e, l) \/ In(e, r)
  <2>1. when[e] \in Nat BY <1>6, EventCaptureAssumption DEF TypeOK, In, Time
  <2>. QED BY <1>1, <1>2, <1>3, <1>6, <2>1 DEF In
<1>. QED BY <1>4, <1>5, <1>6

-----------------------------------------------------------------------------
(* Types *)

\* The end of a capture keeps every local variable in its type.
LEMMA EndsType ==
  ASSUME TypeOK, NEW c \in Capture, Ends(c)
  PROVE  /\ gapLock' \in Capture \cup {None}
         /\ pc' \in [Capture -> {"idle", "prune", "list", "next", "fetch", "record", "write",
                                 "keep", "rewrite", "upsert", "resolve", "mark"}]
         /\ win' \in [Capture -> Window \cup {None}]
         /\ cutoff' \in [Capture -> Time]
         /\ retry' \in [Capture -> SUBSET Window]
         /\ target' \in [Capture -> Window \cup {None}]
         /\ pending' \in [Capture -> SUBSET Window]
         /\ good' \in [Capture -> BOOLEAN]
         /\ rows' \in [Capture -> SUBSET Event] /\ kept' \in [Capture -> SUBSET Event]
         /\ gap' \in [Capture -> Window \cup {None}]
<1>1. 0 \in Time BY EventCaptureAssumption DEF Time
<1>. QED BY <1>1 DEF Ends, TypeOK, Goto

\* A query leaves windows to read, and a window to record, that are windows.
LEMMA IncompleteType ==
  ASSUME TypeOK, NEW c \in Capture, NEW w \in Window, NEW got \in SUBSET Found(w),
         Incomplete(c, w, got), faults' \in Nat
  PROVE  TypeOK'
<1>1. got \subseteq Event BY DEF Found, TypeOK
<1>. QED BY <1>1 DEF Incomplete, TypeOK, tables, vcenter, history, Goto

\* Trimming an expired gap leaves a window.
LEMMA PrunedType ==
  ASSUME NEW g \in Window, NEW before \in Time, g.until >= before
  PROVE  LET t == [g EXCEPT !.since = Later(@, before)]
         IN  /\ t \in Window /\ t.until = g.until
             /\ t.since = Later(g.since, before) /\ g.since <= t.since
<1>1. g.since \in Nat /\ g.until \in Nat /\ before \in Nat
  BY EventCaptureAssumption DEF Window, Time
<1>. QED BY <1>1, EventCaptureAssumption DEF Window, Time, Later

LEMMA LaterType ==
  ASSUME NEW t \in Time, NEW u \in Time
  PROVE  Later(t, u) \in Time /\ t <= Later(t, u) /\ u <= Later(t, u)
BY EventCaptureAssumption DEF Later, Time

\* Every step keeps every variable in its type.
LEMMA TypeStep ==
  ASSUME TypeOK, Frames, [Next]_vars
  PROVE  TypeOK'
<1>. USE EventCaptureAssumption
<1>1. ASSUME NEW c \in Capture, Begin(c) PROVE TypeOK'
  <2>1. PICK h \in Hours : /\ win' = [win EXCEPT ![c] = CaptureWindow(clock, h)]
                           /\ horizon' = Later(horizon, Back(clock, h))
    BY <1>1 DEF Begin
  <2>2. clock \in Time /\ horizon \in Time /\ h \in Nat BY DEF TypeOK
  <2>3. CaptureWindow(clock, h) \in Window BY <2>2, WindowShape
  <2>4. horizon' \in Time BY <2>1, <2>2, BackType, LaterType
  <2>5. overlaps' \in Nat BY <1>1 DEF Begin, TypeOK
  <2>. QED BY <1>1, <2>1, <2>3, <2>4, <2>5 DEF TypeOK, Begin, vcenter, tables, fetch, Goto
<1>2. ASSUME NEW c \in Capture, PruneGaps(c) PROVE TypeOK'
  <2>. DEFINE Cut(h) == Back(win[c].until, h)
  <2>1. PICK h \in Hours :
          /\ cutoff' = [cutoff EXCEPT ![c] = Cut(h)]
          /\ horizon' = Later(horizon, Cut(h))
          /\ gaps' = {[g EXCEPT !.since = Later(@, Cut(h))]
                        : g \in {old \in gaps : old.until >= Cut(h)}}
    BY <1>2 DEF PruneGaps
  <2>2. win[c] \in Window BY <1>2 DEF PruneGaps, Frames
  <2>3. win[c].until \in Time /\ h \in Nat BY <2>2 DEF Window
  <2>4. Cut(h) \in Time BY <2>3, BackType
  <2>5. horizon' \in Time BY <2>1, <2>4, LaterType DEF TypeOK
  <2>6. gaps' \subseteq Window
    <3>1. gaps \subseteq Window BY DEF TypeOK
    <3>. HIDE DEF Cut
    <3>. QED BY <2>1, <2>4, <3>1, PrunedType
  <2>. HIDE DEF Cut
  <2>. QED BY <1>2, <2>1, <2>4, <2>5, <2>6 DEF TypeOK, PruneGaps, vcenter, fetch, Goto
<1>3. ASSUME NEW c \in Capture, ListGaps(c) PROVE TypeOK'
  BY <1>3 DEF TypeOK, ListGaps, vcenter, tables, history, Goto
<1>4. ASSUME NEW c \in Capture, NextTarget(c) PROVE TypeOK'
  <2>1. win[c] \in Window BY <1>4 DEF NextTarget, Frames
  <2>2. PICK w \in Window : /\ target' = [target EXCEPT ![c] = w]
                            /\ pending' = [pending EXCEPT ![c] = {w}]
                            /\ retry' = [retry EXCEPT ![c] = @ \ {w}]
    BY <1>4, <2>1 DEF NextTarget, Leftmost, TypeOK
  <2>. QED BY <1>4, <2>2 DEF TypeOK, NextTarget, vcenter, tables, history, Goto
<1>5. ASSUME NEW c \in Capture, NEW w \in Window, QueryComplete(c, w) PROVE TypeOK'
  BY <1>5 DEF TypeOK, QueryComplete, Reads, Found, Resolved, vcenter, history
<1>6. ASSUME NEW c \in Capture, NEW w \in Window, QuerySplits(c, w) PROVE TypeOK'
  <2>1. Halves(w) \subseteq Window BY HalvesCover
  <2>. QED BY <1>6, <2>1 DEF TypeOK, QuerySplits, Reads, vcenter, tables, history
<1>7. ASSUME NEW c \in Capture, NEW w \in Window, QueryCapped(c, w) PROVE TypeOK'
  <2>1. faults' \in Nat BY <1>7 DEF QueryCapped, TypeOK
  <2>. QED BY <1>7, <2>1, IncompleteType DEF QueryCapped
<1>8. ASSUME NEW c \in Capture, NEW w \in Window, QueryErrs(c, w) PROVE TypeOK'
  <2>1. faults' \in Nat BY <1>8 DEF QueryErrs, TypeOK
  <2>. QED BY <1>8, <2>1, IncompleteType DEF QueryErrs
<1>9. ASSUME NEW c \in Capture, FetchRaises(c) \/ ClearRaises(c) PROVE TypeOK'
  <2>1. faults' \in Nat BY <1>9 DEF FetchRaises, ClearRaises, TypeOK
  <2>2. CASE FetchRaises(c)
    <3>1. CASE KeepGap(c)
      BY <2>1, <2>2, <3>1 DEF TypeOK, FetchRaises, KeepGap, vcenter, tables, history, Goto
    <3>2. CASE ~ KeepGap(c)
      BY <2>1, <2>2, <3>2 DEF TypeOK, FetchRaises, vcenter, tables, history, Goto
    <3>. QED BY <3>1, <3>2
  <2>3. CASE ClearRaises(c)
    BY <2>1, <2>3 DEF TypeOK, ClearRaises, KeepGap, vcenter, tables, history, Goto
  <2>. QED BY <1>9, <2>2, <2>3
<1>10. ASSUME NEW c \in Capture, ReadGaps(c) PROVE TypeOK'
  <2>1. PICK m \in Window : gap' = [gap EXCEPT ![c] = m] BY <1>10 DEF ReadGaps, Merged
  <2>. QED BY <1>10, <2>1 DEF TypeOK, ReadGaps, vcenter, tables, history, Goto
<1>11. ASSUME NEW c \in Capture, WriteGap(c) PROVE TypeOK'
  <2>1. gap[c] \in Window BY <1>11 DEF WriteGap, Frames, Writing
  <2>. QED BY <1>11, <2>1 DEF TypeOK, WriteGap, Resolved, vcenter, history, Goto
<1>12. ASSUME NEW c \in Capture, FetchEnds(c) PROVE TypeOK'
  <2>1. gaps' \subseteq Window BY <1>12 DEF FetchEnds, Resolved, TypeOK
  <2>2. pc' \in [Capture -> {"idle", "prune", "list", "next", "fetch", "record", "write",
                             "keep", "rewrite", "upsert", "resolve", "mark"}]
    BY <1>12 DEF FetchEnds, TypeOK, Goto
  <2>. QED BY <1>12, <2>1, <2>2 DEF TypeOK, FetchEnds, vcenter, history
<1>13. ASSUME NEW c \in Capture, UpsertEvents(c) PROVE TypeOK'
  <2>1. captured' \subseteq Event BY <1>13 DEF UpsertEvents, TypeOK
  <2>2. CASE good[c]
    BY <1>13, <2>1, <2>2 DEF TypeOK, UpsertEvents, vcenter, history, fetch, Goto
  <2>3. CASE ~ good[c]
    BY <1>13, <2>1, <2>3, EndsType DEF TypeOK, UpsertEvents, vcenter, history
  <2>. QED BY <2>2, <2>3
<1>14. ASSUME NEW c \in Capture, ResolveRange(c) PROVE TypeOK'
  BY <1>14 DEF TypeOK, ResolveRange, Resolved, vcenter, history, fetch, Goto
<1>15. ASSUME NEW c \in Capture, SetCheckpoint(c) PROVE TypeOK'
  <2>1. win[c].until \in Time BY <1>15 DEF SetCheckpoint, Frames, Window
  <2>. QED BY <1>15, <2>1, EndsType DEF TypeOK, SetCheckpoint, vcenter, history
<1>16. ASSUME NEW c \in Capture, CaptureFails(c) PROVE TypeOK'
  BY <1>16, EndsType DEF TypeOK, CaptureFails, vcenter, tables, history
<1>17. ASSUME NEW e \in Event, Happen(e) PROVE TypeOK'
  BY <1>17 DEF TypeOK, Happen, tables, history, fetch
<1>18. ASSUME NEW e \in Event, Appear(e) PROVE TypeOK'
  BY <1>18 DEF TypeOK, Appear, tables, history, fetch
<1>19. ASSUME Tick PROVE TypeOK'
  <2>1. clock' \in Time BY <1>19 DEF Tick, TypeOK, Time
  <2>. QED BY <1>19, <2>1 DEF TypeOK, Tick, vcenter, tables, history, fetch
<1>20. CASE UNCHANGED vars
  BY <1>20 DEF TypeOK, vars, vcenter, tables, history, fetch
<1>. QED
  BY <1>1, <1>2, <1>3, <1>4, <1>5, <1>6, <1>7, <1>8, <1>9, <1>10, <1>11, <1>12, <1>13,
     <1>14, <1>15, <1>16, <1>17, <1>18, <1>19, <1>20 DEF Next, Step

\* And every capture keeps the windows its next step needs.
LEMMA FramesStep ==
  ASSUME TypeOK, Frames, [Next]_vars
  PROVE  Frames'
<1>. USE EventCaptureAssumption
<1>1. ASSUME NEW c \in Capture, Begin(c) PROVE Frames'
  <2>1. PICK h \in Hours : win' = [win EXCEPT ![c] = CaptureWindow(clock, h)]
    BY <1>1 DEF Begin
  <2>2. CaptureWindow(clock, h) \in Window
    <3>1. clock \in Time /\ h \in Nat BY DEF TypeOK
    <3>. QED BY <3>1, WindowShape
  <2>. QED BY <1>1, <2>1, <2>2 DEF Frames, TypeOK, Begin, fetch, Goto, Writing
<1>2. ASSUME NEW c \in Capture,
             \/ PruneGaps(c) \/ ListGaps(c) \/ NextTarget(c) \/ WriteGap(c)
             \/ FetchEnds(c) \/ ResolveRange(c)
      PROVE  Frames'
  <2>1. win' = win BY <1>2 DEF PruneGaps, ListGaps, NextTarget, WriteGap, FetchEnds, ResolveRange
  <2>2. pc[c] # "idle"
    BY <1>2 DEF PruneGaps, ListGaps, NextTarget, WriteGap, FetchEnds, ResolveRange
  <2>3. \A d \in Capture \ {c} : pc'[d] = pc[d] /\ gap'[d] = gap[d]
    BY <1>2 DEF PruneGaps, ListGaps, NextTarget, WriteGap, FetchEnds, ResolveRange, Goto,
                TypeOK, fetch
  <2>4. ~ Writing(c)'
    BY <1>2 DEF PruneGaps, ListGaps, NextTarget, WriteGap, FetchEnds, ResolveRange, Goto, TypeOK,
                Writing
  <2>. QED BY <2>1, <2>2, <2>3, <2>4 DEF Frames, Writing
<1>3. ASSUME NEW c \in Capture, NEW w \in Window,
             QueryComplete(c, w) \/ QuerySplits(c, w)
      PROVE  Frames'
  BY <1>3 DEF Frames, QueryComplete, QuerySplits, Writing
<1>4. ASSUME NEW c \in Capture,
             \/ \E w \in Window : QueryCapped(c, w) \/ QueryErrs(c, w)
             \/ FetchRaises(c) \/ ClearRaises(c)
      PROVE  Frames'
  <2>1. win' = win /\ pc[c] # "idle"
    BY <1>4 DEF QueryCapped, QueryErrs, FetchRaises, ClearRaises, Incomplete, Reads
  <2>2. \A d \in Capture \ {c} : pc'[d] = pc[d] /\ gap'[d] = gap[d]
    BY <1>4 DEF QueryCapped, QueryErrs, FetchRaises, ClearRaises, KeepGap, Incomplete, Goto, TypeOK
  <2>3. ~ Writing(c)'
    BY <1>4 DEF QueryCapped, QueryErrs, FetchRaises, ClearRaises, KeepGap, Incomplete, Goto,
                TypeOK, Writing
  <2>. QED BY <2>1, <2>2, <2>3 DEF Frames, Writing
<1>5. ASSUME NEW c \in Capture, ReadGaps(c) PROVE Frames'
  <2>1. PICK m \in Window : gap' = [gap EXCEPT ![c] = m] BY <1>5 DEF ReadGaps, Merged
  <2>. QED BY <1>5, <2>1 DEF Frames, TypeOK, ReadGaps, Goto, Writing
<1>6. ASSUME NEW c \in Capture, Ends(c) PROVE Frames'
  BY <1>6 DEF Frames, TypeOK, Ends, Goto, Writing
<1>7. ASSUME NEW c \in Capture, UpsertEvents(c) PROVE Frames'
  <2>1. CASE good[c]
    BY <1>7, <2>1 DEF Frames, TypeOK, UpsertEvents, Goto, fetch, Writing
  <2>2. CASE ~ good[c] BY <1>6, <1>7, <2>2 DEF UpsertEvents
  <2>. QED BY <2>1, <2>2
<1>8. ASSUME NEW c \in Capture, SetCheckpoint(c) \/ CaptureFails(c) PROVE Frames'
  BY <1>6, <1>8 DEF SetCheckpoint, CaptureFails
<1>9. CASE \/ \E e \in Event : Happen(e) \/ Appear(e)
           \/ Tick
           \/ UNCHANGED vars
  BY <1>9 DEF Frames, Happen, Appear, Tick, vars, fetch, Writing
<1>. QED BY <1>1, <1>2, <1>3, <1>4, <1>5, <1>7, <1>8, <1>9 DEF Next, Step

LEMMA InitTypes == Init => TypeOK /\ Frames
<1>1. 0 \in Time BY EventCaptureAssumption DEF Time
<1>. QED BY <1>1 DEF Init, TypeOK, Frames, Writing

\* Typing: every variable keeps its type.
THEOREM Typing == Spec => []TypeOK
<1>1. TypeOK /\ Frames /\ [Next]_vars => TypeOK' /\ Frames' BY TypeStep, FramesStep
<1>. QED BY InitTypes, <1>1, PTL DEF Spec

-----------------------------------------------------------------------------
(* Recorded gaps *)

\* A step after which nobody comes to write, and a writer keeps its gap and its lock.
NoNewWriter ==
  \A d \in Capture : Writing(d)' => Writing(d) /\ gap'[d] = gap[d] /\ gapLock' = gapLock

\* Clearing gaps, and trimming them at their older end, keeps them apart and within what
\* is being written, as long as nobody comes to write.
LEMMA FewerGaps ==
  ASSUME GapInv, gaps' \subseteq Window,
         NoNewWriter,
         \A t \in gaps' : \E g \in gaps : g.since <= t.since /\ t.until = g.until,
         \A t, u \in gaps' : t # u =>
            \E g, h \in gaps : /\ g # h
                               /\ g.since <= t.since /\ t.until = g.until
                               /\ h.since <= u.since /\ u.until = h.until
  PROVE  WritersLock' /\ GapsDisjoint'
<1>1. \A w \in Window : w.since \in Nat /\ w.until \in Nat
  BY EventCaptureAssumption DEF Window, Time
<1>2. gaps \subseteq Window BY DEF GapInv, TypeOK
<1>3. ASSUME NEW t \in gaps', NEW u \in gaps', t # u PROVE ~ Meets(t, u)
  <2>1. PICK g \in gaps, h \in gaps :
           /\ g # h
           /\ g.since <= t.since /\ t.until = g.until
           /\ h.since <= u.since /\ u.until = h.until
    BY <1>3
  <2>2. ~ Meets(g, h) BY <2>1 DEF GapInv, GapsDisjoint
  <2>3. {g, h, t, u} \subseteq Window BY <1>2
  <2>. QED BY <1>1, <2>1, <2>2, <2>3 DEF Meets
<1>4. ASSUME NEW c \in Capture, Writing(c)', NEW t \in gaps', Meets(t, gap'[c])
      PROVE  Within(t, gap'[c])
  <2>1. PICK g \in gaps : g.since <= t.since /\ t.until = g.until OBVIOUS
  <2>2. Writing(c) /\ gap'[c] = gap[c] BY <1>4 DEF NoNewWriter
  <2>3. Meets(g, gap[c]) => Within(g, gap[c])
    BY <2>2 DEF GapInv, WritersLock, Closed
  <2>4. {g, t, gap[c]} \subseteq Window BY <1>2, <2>2 DEF GapInv, Frames
  <2>. QED BY <1>1, <1>4, <2>1, <2>2, <2>3, <2>4 DEF Meets, Within
<1>5. \A c \in Capture : Writing(c)' => gapLock' = c
  BY DEF GapInv, WritersLock, NoNewWriter
<1>. QED BY <1>3, <1>4, <1>5 DEF WritersLock, GapsDisjoint, Closed

LEMMA ClearedGaps ==
  ASSUME GapInv, gaps' \subseteq gaps,
         NoNewWriter
  PROVE  WritersLock' /\ GapsDisjoint'
<1>1. gaps' \subseteq Window BY DEF GapInv, TypeOK
<1>2. \A g \in gaps : g.since <= g.since
  BY EventCaptureAssumption DEF GapInv, TypeOK, Window, Time
<1>. QED BY <1>1, <1>2, FewerGaps

LEMMA GapStep ==
  ASSUME GapInv, [Next]_vars
  PROVE  WritersLock' /\ GapsDisjoint'
<1>. USE EventCaptureAssumption DEF GapInv
<1>1. ASSUME NEW c \in Capture, Ends(c), gaps' \subseteq gaps
      PROVE  WritersLock' /\ GapsDisjoint'
  <2>1. NoNewWriter
    BY <1>1 DEF Ends, Goto, TypeOK, WritersLock, NoNewWriter, Writing
  <2>. QED BY <1>1, <2>1, ClearedGaps
<1>2. ASSUME NEW c \in Capture, PruneGaps(c) PROVE WritersLock' /\ GapsDisjoint'
  <2>. DEFINE Cut(h) == Back(win[c].until, h)
              Trim(g, h) == [g EXCEPT !.since = Later(@, Cut(h))]
  <2>1. PICK h \in Hours : gaps' = {Trim(g, h) : g \in {old \in gaps : old.until >= Cut(h)}}
    BY <1>2 DEF PruneGaps
  <2>2. Cut(h) \in Time
    <3>1. win[c].until \in Time /\ h \in Nat BY <1>2 DEF PruneGaps, Frames, Window
    <3>. QED BY <3>1, BackType
  <2>3. \A g \in gaps : g.until >= Cut(h) =>
           Trim(g, h) \in Window /\ Trim(g, h).until = g.until /\ g.since <= Trim(g, h).since
    <3>1. gaps \subseteq Window BY DEF TypeOK
    <3>. HIDE DEF Cut
    <3>. QED BY <2>2, <3>1, PrunedType
  <2>. HIDE DEF Trim, Cut
  <2>4. gaps' \subseteq Window BY <2>1, <2>3
  <2>5. NoNewWriter
    BY <1>2 DEF PruneGaps, Goto, TypeOK, fetch, NoNewWriter, Writing
  <2>6. \A t \in gaps' : \E g \in gaps : g.since <= t.since /\ t.until = g.until
    BY <2>1, <2>3
  <2>7. \A t, u \in gaps' : t # u =>
           \E g, k \in gaps : /\ g # k
                              /\ g.since <= t.since /\ t.until = g.until
                              /\ k.since <= u.since /\ u.until = k.until
    BY <2>1, <2>3
  <2>. QED BY <2>4, <2>5, <2>6, <2>7, FewerGaps
<1>3. ASSUME NEW c \in Capture,
             \/ Begin(c) \/ ListGaps(c) \/ NextTarget(c) \/ FetchEnds(c) \/ ResolveRange(c)
      PROVE  WritersLock' /\ GapsDisjoint'
  <2>1. gaps' \subseteq gaps
    BY <1>3 DEF Begin, ListGaps, NextTarget, FetchEnds, ResolveRange, Resolved, tables
  <2>2. NoNewWriter
    BY <1>3 DEF Begin, ListGaps, NextTarget, FetchEnds, ResolveRange, Goto, TypeOK, fetch,
                NoNewWriter, Writing
  <2>. QED BY <2>1, <2>2, ClearedGaps
<1>4. ASSUME NEW c \in Capture,
             \/ \E w \in Window : \/ QueryComplete(c, w) \/ QuerySplits(c, w)
                                 \/ QueryCapped(c, w) \/ QueryErrs(c, w)
             \/ FetchRaises(c) \/ ClearRaises(c)
      PROVE  WritersLock' /\ GapsDisjoint'
  <2>1. gaps' \subseteq gaps
    BY <1>4 DEF QueryComplete, QuerySplits, QueryCapped, QueryErrs, FetchRaises, ClearRaises,
                Incomplete, Resolved, tables
  <2>2. NoNewWriter
    <3>1. \A d \in Capture : Writing(d)' => Writing(d) /\ gap'[d] = gap[d]
      BY <1>4 DEF QueryComplete, QuerySplits, QueryCapped, QueryErrs, FetchRaises, ClearRaises,
                  KeepGap, Incomplete, Reads, Goto, TypeOK, Writing
    <3>2. gapLock' = gapLock \/ (FetchRaises(c) /\ gapLock = c)
      BY <1>4 DEF QueryComplete, QuerySplits, QueryCapped, QueryErrs, FetchRaises, ClearRaises,
                  Incomplete
    <3>3. FetchRaises(c) => ~ Writing(c)'
      BY DEF FetchRaises, KeepGap, Goto, TypeOK, Writing
    <3>. QED BY <3>1, <3>2, <3>3 DEF NoNewWriter, WritersLock
  <2>. QED BY <2>1, <2>2, ClearedGaps
<1>5. ASSUME NEW c \in Capture, ReadGaps(c) PROVE WritersLock' /\ GapsDisjoint'
  <2>1. PICK m \in Merged(gap[c]) : gap' = [gap EXCEPT ![c] = m] BY <1>5 DEF ReadGaps
  <2>2. Closed(m) BY <2>1 DEF Merged
  <2>3. gaps' = gaps /\ gapLock' = c /\ gapLock = None BY <1>5 DEF ReadGaps, tables
  <2>4. \A d \in Capture \ {c} : ~ Writing(d)'
    BY <1>5, <2>3 DEF ReadGaps, Goto, TypeOK, WritersLock, Writing
  <2>5. gap'[c] = m BY <2>1 DEF TypeOK
  <2>6. WritersLock' BY <2>2, <2>3, <2>4, <2>5 DEF WritersLock, Closed
  <2>. QED BY <2>3, <2>6 DEF GapsDisjoint
<1>6. ASSUME NEW c \in Capture, WriteGap(c) PROVE WritersLock' /\ GapsDisjoint'
  <2>1. Closed(gap[c]) /\ gapLock = c BY <1>6 DEF WriteGap, WritersLock, Writing
  <2>2. gaps' = Resolved(gap[c]) \cup {gap[c]} BY <1>6 DEF WriteGap
  <2>3. \A g \in Resolved(gap[c]) : g \in gaps /\ ~ Meets(g, gap[c]) /\ ~ Meets(gap[c], g)
    BY <2>1 DEF Resolved, Closed, Meets
  <2>4. GapsDisjoint' BY <2>2, <2>3 DEF GapsDisjoint
  <2>5. \A d \in Capture : ~ Writing(d)'
    BY <1>6, <2>1 DEF WriteGap, Goto, TypeOK, WritersLock, Writing
  <2>. QED BY <2>4, <2>5 DEF WritersLock
<1>7. ASSUME NEW c \in Capture, UpsertEvents(c) PROVE WritersLock' /\ GapsDisjoint'
  <2>1. gaps' \subseteq gaps BY <1>7 DEF UpsertEvents
  <2>2. CASE ~ good[c] BY <1>1, <1>7, <2>1, <2>2 DEF UpsertEvents
  <2>3. CASE good[c]
    <3>1. NoNewWriter
      BY <1>7, <2>3 DEF UpsertEvents, Goto, TypeOK, fetch, NoNewWriter, Writing
    <3>. QED BY <2>1, <3>1, ClearedGaps
  <2>. QED BY <2>2, <2>3
<1>8. ASSUME NEW c \in Capture, SetCheckpoint(c) \/ CaptureFails(c)
      PROVE  WritersLock' /\ GapsDisjoint'
  BY <1>1, <1>8 DEF SetCheckpoint, CaptureFails, tables
<1>9. CASE \/ \E e \in Event : Happen(e) \/ Appear(e)
           \/ Tick
           \/ UNCHANGED vars
  BY <1>9 DEF WritersLock, Writing, GapsDisjoint, Closed, Happen, Appear, Tick, vars, tables, fetch
<1>. QED BY <1>1, <1>2, <1>3, <1>4, <1>5, <1>6, <1>7, <1>8, <1>9 DEF Next, Step

\* GapsStayApart: recorded gaps never meet, whoever records them.
THEOREM GapsStayApart == Spec => []GapsDisjoint
<1>1. Init => GapInv
  BY InitTypes DEF Init, GapInv, WritersLock, Writing, GapsDisjoint
<1>2. GapInv /\ [Next]_vars => GapInv'
  BY TypeStep, FramesStep, GapStep DEF GapInv
<1>3. GapInv => GapsDisjoint BY DEF GapInv
<1>. QED BY <1>1, <1>2, <1>3, PTL DEF Spec

-----------------------------------------------------------------------------
(* The checkpoint *)

\* Nothing that happened is forgotten, the cutoffs only move on, and an event that
\* happens now is too recent to be due at the end of a window that has begun.
LEMMA Monotone ==
  ASSUME TypeOK, Frames, [Next]_vars
  PROVE  /\ clock <= clock' /\ horizon <= horizon' /\ captured \subseteq captured'
         /\ visible \subseteq visible'
         /\ \A e \in Event : when[e] # None => when'[e] = when[e]
         /\ \A e \in Event : when'[e] # None => when[e] # None \/ when'[e] = clock
<1>. USE EventCaptureAssumption
<1>1. clock \in Time /\ horizon \in Time /\ clock <= clock /\ horizon <= horizon
  BY DEF TypeOK, Time
<1>2. ASSUME NEW c \in Capture, Begin(c)
      PROVE  /\ horizon <= horizon'
             /\ UNCHANGED <<clock, captured, vcenter>>
  <2>1. PICK h \in Hours : horizon' = Later(horizon, Back(clock, h)) BY <1>2 DEF Begin
  <2>2. Back(clock, h) \in Time BY <1>1, BackType
  <2>. QED BY <1>1, <1>2, <2>1, <2>2, LaterType DEF Begin, tables
<1>3. ASSUME NEW c \in Capture, PruneGaps(c)
      PROVE  /\ horizon <= horizon'
             /\ UNCHANGED <<clock, captured, vcenter>>
  <2>1. PICK h \in Hours : horizon' = Later(horizon, Back(win[c].until, h))
    BY <1>3 DEF PruneGaps
  <2>2. win[c].until \in Time BY <1>3 DEF PruneGaps, Frames, Window
  <2>3. Back(win[c].until, h) \in Time BY <2>2, BackType
  <2>. QED BY <1>1, <1>3, <2>1, <2>3, LaterType DEF PruneGaps
<1>4. ASSUME NEW c \in Capture, Step(c), ~ Begin(c), ~ PruneGaps(c)
      PROVE  /\ captured \subseteq captured'
             /\ UNCHANGED <<clock, horizon, vcenter>>
  BY <1>4 DEF Step, ListGaps, NextTarget, QueryComplete, QuerySplits, QueryCapped, QueryErrs,
              FetchRaises, ClearRaises, KeepGap, Incomplete, ReadGaps, WriteGap, FetchEnds, UpsertEvents,
              ResolveRange, SetCheckpoint, CaptureFails, tables, history
<1>5. ASSUME NEW c \in Capture, Step(c)
      PROVE  /\ captured \subseteq captured' /\ horizon <= horizon'
             /\ UNCHANGED <<clock, vcenter>>
  BY <1>1, <1>2, <1>3, <1>4, <1>5
<1>6. ASSUME NEW e \in Event, Happen(e) \/ Appear(e)
      PROVE  /\ UNCHANGED <<clock, horizon, captured>> /\ visible \subseteq visible'
             /\ \A f \in Event : when[f] # None => when'[f] = when[f]
             /\ \A f \in Event : when'[f] # None => when[f] # None \/ when'[f] = clock
  BY <1>6 DEF Happen, Appear, tables, history, TypeOK
<1>7. ASSUME Tick
      PROVE  clock <= clock' /\ UNCHANGED <<horizon, captured, vcenter>>
  BY <1>1, <1>7 DEF Tick, tables, history, Time
<1>. QED BY <1>1, <1>5, <1>6, <1>7 DEF Next, vars, vcenter, tables, history

LEMMA NoNewDue ==
  ASSUME TypeOK, Frames, [Next]_vars, NEW e \in Event, NEW t \in Time, t <= clock, Due(e, t)'
  PROVE  Due(e, t) /\ when'[e] = when[e] /\ when[e] \in Time
<1>1. t \in Nat /\ clock \in Nat /\ Overlap \in Nat \ {0}
  BY EventCaptureAssumption DEF TypeOK, Time
<1>2. when[e] # None \/ when'[e] = clock BY Monotone DEF Due
<1>3. ~ (when'[e] = clock) BY <1>1 DEF Due
<1>4. when[e] # None /\ when'[e] = when[e] BY <1>2, <1>3, Monotone
<1>. QED BY <1>4 DEF Due, TypeOK

\* An event that is due at a time that has passed can be found by a query.
LEMMA DueVisible ==
  ASSUME TypeOK, EventsAppear, NEW e \in Event, NEW t \in Time, t <= clock, Due(e, t)
  PROVE  e \in visible
<1>1. when[e] \in Nat /\ t \in Nat /\ clock \in Nat
  BY EventCaptureAssumption DEF TypeOK, Due, Time
<1>. QED BY <1>1, EventCaptureAssumption DEF EventsAppear, Due

\* A capture that does not move keeps what it knows.
LEMMA Unmoved ==
  ASSUME MarkInv, [Next]_vars, NEW d \in Capture,
         pc'[d] = pc[d], win'[d] = win[d], cutoff'[d] = cutoff[d], target'[d] = target[d],
         pending'[d] = pending[d], good'[d] = good[d], rows'[d] = rows[d], kept'[d] = kept[d]
  PROVE  Mark(d)'
<1>. USE DEF MarkInv
<1>1. Mark(d) OBVIOUS
<1>2. WindowPast(d)'
  <2>1. cutoff[d] \in Nat /\ horizon \in Nat /\ clock \in Nat /\ horizon' \in Nat /\ clock' \in Nat
    BY TypeStep, EventCaptureAssumption DEF TypeOK, Time
  <2>2. pc[d] # "idle" => win[d].until \in Nat
    BY EventCaptureAssumption DEF Frames, Window, Time
  <2>. QED BY <1>1, <2>1, <2>2, Monotone DEF Mark, WindowPast
<1>3. ASSUME pc[d] # "idle", NEW e \in Event, Due(e, win[d].until)'
      PROVE  /\ Due(e, win[d].until) /\ when'[e] = when[e] /\ when[e] \in Time
             /\ horizon' <= when'[e] => horizon <= when[e]
             /\ In(e, win[d]) => In(e, win[d])'
             /\ In(e, win[d])' => In(e, win[d])
             /\ \A w \in pending[d] : In(e, w) => In(e, w)'
  <2>1. win[d].until \in Time /\ win[d].until <= clock
    BY <1>1, <1>3 DEF Frames, Window, Mark, WindowPast
  <2>2. Due(e, win[d].until) /\ when'[e] = when[e] /\ when[e] \in Time
    BY <1>3, <2>1, NoNewDue DEF Due
  <2>3. horizon <= horizon' /\ horizon \in Nat /\ horizon' \in Nat /\ when[e] \in Nat
    BY <2>2, TypeStep, Monotone, EventCaptureAssumption DEF TypeOK, Time
  <2>. QED BY <2>2, <2>3 DEF In
<1>4. WindowReaches(d)'
  BY <1>1, <1>3, Monotone DEF Mark, WindowReaches
<1>5. ReadsKeepUp(d)'
  BY <1>1, <1>3 DEF Mark, ReadsKeepUp
<1>6. ReadsKept(d)'
  BY <1>1, <1>3 DEF Mark, ReadsKept
<1>7. ReadsStored(d)'
  BY <1>1, <1>3, Monotone DEF Mark, ReadsStored
<1>8. GapSpoils(d)' BY <1>1 DEF Mark, GapSpoils
<1>. QED BY <1>2, <1>4, <1>5, <1>6, <1>7, <1>8 DEF Mark

\* For a capture that moves, but whose reading neither begins nor ends: the same.
LEMMA SameDue ==
  ASSUME MarkInv, [Next]_vars, NEW c \in Capture, pc[c] # "idle", win'[c] = win[c]
  PROVE  \A e \in Event : Due(e, win[c].until)' =>
           /\ Due(e, win[c].until) /\ when'[e] = when[e] /\ when[e] \in Time
           /\ e \in visible
           /\ horizon' <= when'[e] => horizon <= when[e]
           /\ \A w \in Window : In(e, w)' <=> In(e, w)
<1>. USE DEF MarkInv
<1>1. win[c].until \in Time /\ win[c].until <= clock
  BY DEF Frames, Window, Mark, WindowPast
<1>. SUFFICES ASSUME NEW e \in Event, Due(e, win[c].until)'
              PROVE  /\ Due(e, win[c].until) /\ when'[e] = when[e] /\ when[e] \in Time
                     /\ e \in visible
                     /\ horizon' <= when'[e] => horizon <= when[e]
                     /\ \A w \in Window : In(e, w)' <=> In(e, w)
  BY DEF Due
<1>2. Due(e, win[c].until) /\ when'[e] = when[e] /\ when[e] \in Time
  BY <1>1, NoNewDue DEF Due
<1>3. e \in visible BY <1>1, <1>2, DueVisible
<1>4. horizon <= horizon' /\ horizon \in Nat /\ horizon' \in Nat /\ when[e] \in Nat
  BY <1>2, TypeStep, Monotone, EventCaptureAssumption DEF TypeOK, Time
<1>. QED BY <1>2, <1>3, <1>4 DEF In

\* What does not depend on the step: the window stays past and early enough.
LEMMA SameWindow ==
  ASSUME MarkInv, [Next]_vars, NEW c \in Capture, pc[c] # "idle", win'[c] = win[c],
         cutoff'[c] <= horizon'
  PROVE  WindowPast(c)' /\ WindowReaches(c)'
<1>. USE DEF MarkInv
<1>1. WindowPast(c)'
  <2>1. clock \in Nat /\ clock' \in Nat
    BY TypeStep, EventCaptureAssumption DEF TypeOK, Time
  <2>2. win[c].until \in Nat /\ win[c].until <= clock
    BY EventCaptureAssumption DEF Frames, Window, Time, Mark, WindowPast
  <2>. QED BY <2>1, <2>2, Monotone DEF WindowPast
<1>2. WindowReaches(c)'
  <2>1. win[c] \in Window BY DEF Frames
  <2>2. \A e \in Event : Due(e, win[c].until) /\ horizon <= when[e] =>
                            e \in captured \/ In(e, win[c])
    BY DEF Mark, WindowReaches
  <2>. QED BY <2>1, <2>2, SameDue, Monotone DEF WindowReaches
<1>. QED BY <1>1, <1>2

\* Every action but the last one leaves the checkpoint where it is.
LEMMA SameCheckpoint ==
  ASSUME MarkInv, [Next]_vars, checkpoint' = checkpoint
  PROVE  CheckpointPast' /\ CheckpointBacked'
<1>. USE DEF MarkInv
<1>1. CASE checkpoint = None BY <1>1 DEF CheckpointPast, CheckpointBacked
<1>2. CASE checkpoint # None
  <2>1. checkpoint \in Time /\ checkpoint <= clock
    BY <1>2 DEF TypeOK, CheckpointPast
  <2>2. CheckpointPast'
    <3>1. clock \in Nat /\ clock' \in Nat /\ checkpoint \in Nat
      BY <2>1, TypeStep, EventCaptureAssumption DEF TypeOK, Time
    <3>. QED BY <2>1, <3>1, Monotone DEF CheckpointPast
  <2>3. ASSUME NEW e \in Event, when'[e] # None, horizon' <= when'[e],
               when'[e] + Overlap <= checkpoint
        PROVE  e \in captured'
    <3>1. Due(e, checkpoint)' BY <2>1, <2>3 DEF Due
    <3>2. Due(e, checkpoint) /\ when'[e] = when[e] /\ when[e] \in Time
      BY <2>1, <3>1, NoNewDue
    <3>3. horizon <= when[e]
      <4>1. horizon <= horizon' /\ horizon \in Nat /\ horizon' \in Nat /\ when[e] \in Nat
        BY <3>2, TypeStep, Monotone, EventCaptureAssumption DEF TypeOK, Time
      <4>. QED BY <2>3, <3>2, <4>1
    <3>. QED BY <1>2, <3>2, <3>3, Monotone DEF CheckpointBacked, Due
  <2>. QED BY <2>2, <2>3 DEF CheckpointBacked
<1>. QED BY <1>1, <1>2

\* Late events stay in time: an event is visible at once or comes soon, and the clock
\* waits for it.
LEMMA AppearStep ==
  ASSUME TypeOK, Frames, EventsAppear, [Next]_vars
  PROVE  EventsAppear'
<1>. USE EventCaptureAssumption
<1>1. clock \in Nat /\ \A e \in Event : when[e] # None => when[e] \in Nat
  BY DEF TypeOK, Time
<1>2. ASSUME NEW e \in Event, Happen(e) PROVE EventsAppear'
  <2>1. ASSUME NEW f \in Event, when'[f] # None
        PROVE  when'[f] <= clock /\ (f \in visible' \/ clock < when'[f] + Delay)
    <3>1. CASE f = e BY <1>1, <1>2, <3>1 DEF Happen, TypeOK
    <3>2. CASE f # e
      <4>1. when'[f] = when[f] BY <1>2, <3>2 DEF Happen, TypeOK
      <4>2. visible \subseteq visible' BY <1>2 DEF Happen
      <4>. QED BY <2>1, <4>1, <4>2 DEF EventsAppear
    <3>. QED BY <3>1, <3>2
  <2>. QED BY <1>2, <2>1 DEF EventsAppear, Happen
<1>3. ASSUME NEW e \in Event, Appear(e) PROVE EventsAppear'
  BY <1>3 DEF EventsAppear, Appear
<1>4. CASE Tick
  BY <1>1, <1>4 DEF EventsAppear, Tick, vcenter
<1>5. ASSUME NEW c \in Capture, Step(c) PROVE EventsAppear'
  <2>1. clock' = clock /\ visible' = visible /\ when' = when
    BY <1>5 DEF Step, Begin, PruneGaps, ListGaps, NextTarget, QueryComplete, QuerySplits,
                QueryCapped, QueryErrs, FetchRaises, ClearRaises, KeepGap, Incomplete, ReadGaps, WriteGap, FetchEnds,
                UpsertEvents, ResolveRange, SetCheckpoint, CaptureFails, vcenter
  <2>. QED BY <2>1 DEF EventsAppear
<1>6. CASE UNCHANGED vars BY <1>6 DEF EventsAppear, vars, vcenter
<1>. QED BY <1>2, <1>3, <1>4, <1>5, <1>6 DEF Next

\* A capture that has ended promises nothing.
LEMMA EndsMark ==
  ASSUME MarkInv, [Next]_vars, NEW c \in Capture, Ends(c)
  PROVE  Mark(c)'
<1>1. pc'[c] = "idle" /\ cutoff'[c] = 0 BY DEF MarkInv, TypeOK, Ends, Goto
<1>2. 0 <= horizon'
  BY TypeStep, EventCaptureAssumption DEF MarkInv, TypeOK, Time
<1>. QED BY <1>1, <1>2 DEF Mark, WindowPast, WindowReaches, ReadsKeepUp, ReadsKept, ReadsStored,
                          GapSpoils

\* A capture that begins looks far enough back.
LEMMA BeginMark ==
  ASSUME MarkInv, [Next]_vars, NEW c \in Capture, Begin(c)
  PROVE  Mark(c)'
<1>. USE DEF MarkInv
<1>1. PICK h \in Hours : /\ win' = [win EXCEPT ![c] = CaptureWindow(clock, h)]
                         /\ horizon' = Later(horizon, Back(clock, h))
  BY DEF Begin
<1>2. clock \in Time /\ horizon \in Time /\ h \in Nat BY EventCaptureAssumption DEF TypeOK
<1>3. Back(clock, h) \in Time BY <1>2, BackType
<1>4. Back(clock, h) <= horizon' /\ horizon <= horizon' BY <1>1, <1>2, <1>3, LaterType
<1>5. /\ win'[c] \in Window /\ win'[c].until = clock
      /\ \A u \in Time : /\ Back(clock, h) <= u
                         /\ u <= clock
                         /\ u < win'[c].since
                         => checkpoint # None /\ u + Overlap < checkpoint
  <2>1. win'[c] = CaptureWindow(clock, h) BY <1>1 DEF TypeOK
  <2>. QED BY <1>2, <2>1, WindowShape
<1>6. pc'[c] = "prune" BY DEF Begin, TypeOK, Goto
<1>7. WindowPast(c)'
  <2>1. clock' = clock /\ cutoff' = cutoff BY DEF Begin
  <2>2. cutoff[c] <= horizon BY DEF Mark, WindowPast
  <2>3. cutoff[c] \in Nat /\ horizon \in Nat /\ horizon' \in Nat /\ clock \in Nat
    BY TypeStep, EventCaptureAssumption DEF TypeOK, Time
  <2>. QED BY <1>4, <1>5, <2>1, <2>2, <2>3 DEF WindowPast
<1>8. WindowReaches(c)'
  <2>. SUFFICES ASSUME NEW e \in Event, Due(e, clock)', horizon' <= when'[e]
                PROVE  e \in captured' \/ In(e, win[c])'
    BY <1>5 DEF WindowReaches, Due, Begin
  <2>1. clock' = clock /\ when' = when /\ captured' = captured /\ checkpoint' = checkpoint
    BY DEF Begin, vcenter, tables
  <2>2. when[e] \in Time /\ when[e] # None /\ when[e] + Overlap <= clock
    BY <2>1 DEF Due, TypeOK
  <2>3. when[e] \in Nat /\ clock \in Nat /\ Overlap \in Nat /\ Back(clock, h) \in Nat
        /\ horizon' \in Nat /\ horizon \in Nat
    BY <1>3, <2>2, TypeStep, EventCaptureAssumption DEF TypeOK, Time
  <2>4. Back(clock, h) <= when[e] /\ horizon <= when[e] /\ when[e] <= clock
    BY <1>4, <2>1, <2>2, <2>3
  <2>5. CASE when[e] < win'[c].since
    <3>1. checkpoint # None /\ when[e] + Overlap < checkpoint BY <1>5, <2>2, <2>4, <2>5
    <3>2. checkpoint \in Nat BY <3>1, EventCaptureAssumption DEF TypeOK, Time
    <3>3. when[e] + Overlap <= checkpoint BY <2>3, <3>1, <3>2
    <3>. QED BY <2>1, <2>2, <2>4, <3>1, <3>3 DEF CheckpointBacked
  <2>6. CASE ~ (when[e] < win'[c].since)
    <3>1. win'[c].since \in Nat BY <1>5, EventCaptureAssumption DEF Window, Time
    <3>. QED BY <1>5, <2>1, <2>2, <2>3, <2>4, <2>6, <3>1 DEF In
  <2>. QED BY <2>5, <2>6
<1>. QED BY <1>6, <1>7, <1>8 DEF Mark, ReadsKeepUp, ReadsKept, ReadsStored, GapSpoils

\* What a query returns, or leaves to its two halves, is not lost.
LEMMA FetchMark ==
  ASSUME MarkInv, [Next]_vars, NEW c \in Capture,
         \/ \E w \in Window : \/ QueryComplete(c, w) \/ QuerySplits(c, w)
                             \/ QueryCapped(c, w) \/ QueryErrs(c, w)
         \/ FetchRaises(c) \/ ClearRaises(c)
  PROVE  Mark(c)'
<1>. USE DEF MarkInv
<1>1. pc[c] # "idle" /\ win' = win /\ cutoff' = cutoff /\ horizon' = horizon
  BY DEF QueryComplete, QuerySplits, QueryCapped, QueryErrs, FetchRaises, ClearRaises, KeepGap, Incomplete, Reads,
         history
<1>2. cutoff'[c] <= horizon' BY <1>1 DEF Mark, WindowPast
<1>3. WindowPast(c)' /\ WindowReaches(c)' BY <1>1, <1>2, SameWindow
<1>4. win[c] \in Window BY <1>1 DEF Frames
<1>5. ASSUME NEW w \in Window, QueryComplete(c, w) PROVE Mark(c)'
  <2>1. /\ rows'[c] = rows[c] \cup Found(w) /\ pending'[c] = pending[c] \ {w}
        /\ pc[c] = "fetch" /\ UNCHANGED <<when, visible, pc, target, good>>
    BY <1>5 DEF QueryComplete, Reads, TypeOK, vcenter
  <2>2. ReadsKeepUp(c)'
    <3>. SUFFICES ASSUME pc[c] = "fetch", target[c] = win[c], good[c],
                         NEW e \in Event, Due(e, win[c].until)', In(e, win[c])'
                  PROVE  e \in rows'[c] \/ \E v \in pending'[c] : In(e, v)'
      BY <1>1, <2>1 DEF ReadsKeepUp, Due, In
    <3>1. Due(e, win[c].until) /\ e \in visible /\ In(e, win[c])
      BY <1>1, <1>4, SameDue
    <3>2. e \in rows[c] \/ \E v \in pending[c] : In(e, v) BY <3>1 DEF Mark, ReadsKeepUp
    <3>3. In(e, w) => e \in Found(w) BY <3>1 DEF Found
    <3>. QED BY <2>1, <3>2, <3>3 DEF In
  <2>. QED BY <1>1, <1>3, <2>1, <2>2 DEF Mark, ReadsKept, ReadsStored, GapSpoils
<1>6. ASSUME NEW w \in Window, QuerySplits(c, w) PROVE Mark(c)'
  <2>1. /\ pending'[c] = (pending[c] \ {w}) \cup Halves(w)
        /\ pc[c] = "fetch" /\ UNCHANGED <<when, visible, pc, target, good, rows>>
    BY <1>6 DEF QuerySplits, Reads, TypeOK, vcenter
  <2>2. ReadsKeepUp(c)'
    <3>. SUFFICES ASSUME pc[c] = "fetch", target[c] = win[c], good[c],
                         NEW e \in Event, Due(e, win[c].until)', In(e, win[c])'
                  PROVE  e \in rows[c] \/ \E v \in pending'[c] : In(e, v)'
      BY <1>1, <2>1 DEF ReadsKeepUp, Due, In
    <3>1. Due(e, win[c].until) /\ In(e, win[c]) BY <1>1, <1>4, SameDue
    <3>2. e \in rows[c] \/ \E v \in pending[c] : In(e, v) BY <3>1 DEF Mark, ReadsKeepUp
    <3>3. In(e, w) => \E v \in Halves(w) : In(e, v) BY HalvesCover
    <3>. QED BY <2>1, <3>2, <3>3 DEF In
  <2>. QED BY <1>1, <1>3, <2>1, <2>2 DEF Mark, ReadsKept, ReadsStored, GapSpoils
<1>7. CASE \/ \E w \in Window : QueryCapped(c, w) \/ QueryErrs(c, w)
           \/ FetchRaises(c) \/ ClearRaises(c)
  <2>1. good'[c] = FALSE /\ pc'[c] \in {"record", "keep", "upsert"}
    BY <1>7 DEF QueryCapped, QueryErrs, FetchRaises, ClearRaises, KeepGap, Incomplete, TypeOK, Goto
  <2>. QED BY <1>3, <2>1 DEF Mark, ReadsKeepUp, ReadsKept, ReadsStored, GapSpoils
<1>. QED BY <1>5, <1>6, <1>7

\* The steps between the queries, and before and after them.
LEMMA OtherMark ==
  ASSUME MarkInv, [Next]_vars, NEW c \in Capture,
         \/ PruneGaps(c) \/ ListGaps(c) \/ NextTarget(c) \/ ReadGaps(c) \/ WriteGap(c)
         \/ FetchEnds(c) \/ ResolveRange(c)
  PROVE  Mark(c)'
<1>. USE DEF MarkInv
<1>1. pc[c] # "idle" /\ win' = win
  BY DEF PruneGaps, ListGaps, NextTarget, ReadGaps, WriteGap, FetchEnds, ResolveRange
<1>2. cutoff'[c] <= horizon'
  <2>1. CASE PruneGaps(c)
    <3>1. PICK h \in Hours : /\ cutoff' = [cutoff EXCEPT ![c] = Back(win[c].until, h)]
                             /\ horizon' = Later(horizon, Back(win[c].until, h))
      BY <2>1 DEF PruneGaps
    <3>2. win[c].until \in Time /\ h \in Nat
      BY <1>1, EventCaptureAssumption DEF Frames, Window
    <3>3. Back(win[c].until, h) \in Time BY <3>2, BackType
    <3>4. cutoff'[c] = Back(win[c].until, h) BY <3>1 DEF TypeOK
    <3>. QED BY <3>1, <3>3, <3>4, LaterType DEF TypeOK
  <2>2. CASE ~ PruneGaps(c)
    <3>1. cutoff' = cutoff /\ horizon' = horizon
      BY <2>2 DEF ListGaps, NextTarget, ReadGaps, WriteGap, FetchEnds, ResolveRange, history
    <3>. QED BY <3>1 DEF Mark, WindowPast
  <2>. QED BY <2>1, <2>2
<1>3. WindowPast(c)' /\ WindowReaches(c)' BY <1>1, <1>2, SameWindow
<1>4. win[c] \in Window BY <1>1 DEF Frames
<1>5. CASE PruneGaps(c) \/ ListGaps(c) \/ ReadGaps(c)
  <2>1. CASE PruneGaps(c) \/ ListGaps(c)
    <3>1. pc'[c] \in {"list", "next"} BY <2>1 DEF PruneGaps, ListGaps, Goto, TypeOK
    <3>. QED BY <1>3, <3>1 DEF Mark, ReadsKeepUp, ReadsKept, ReadsStored, GapSpoils
  <2>2. CASE ReadGaps(c)
    <3>1. pc'[c] \in {"write", "rewrite"} BY <2>2 DEF ReadGaps, Goto, TypeOK
    <3>2. pc[c] \in {"record", "keep"} /\ good'[c] = good[c] BY <2>2 DEF ReadGaps
    <3>3. ~ good[c] BY <3>2 DEF Mark, GapSpoils
    <3>. QED BY <1>3, <3>1, <3>2, <3>3 DEF Mark, ReadsKeepUp, ReadsKept, ReadsStored, GapSpoils
  <2>. QED BY <1>5, <2>1, <2>2
<1>6. CASE NextTarget(c)
  <2>1. PICK v \in IF retry[c] = {} THEN {win[c]} ELSE Leftmost(retry[c]) :
           /\ target' = [target EXCEPT ![c] = v]
           /\ pending' = [pending EXCEPT ![c] = {v}]
    BY <1>6 DEF NextTarget
  <2>2. target'[c] = v /\ pending'[c] = {v} /\ pc'[c] = "fetch"
    BY <1>6, <2>1 DEF NextTarget, TypeOK, Goto
  <2>3. ReadsKeepUp(c)' BY <1>1, <2>2 DEF ReadsKeepUp
  <2>. QED BY <1>3, <2>2, <2>3 DEF Mark, ReadsKept, ReadsStored, GapSpoils
<1>7. CASE WriteGap(c)
  <2>1. pc'[c] = "fetch" /\ good' = good BY <1>7 DEF WriteGap, TypeOK, Goto
  <2>2. ~ good[c] BY <1>7 DEF Mark, WriteGap, GapSpoils
  <2>3. ReadsKeepUp(c)' BY <2>1, <2>2 DEF ReadsKeepUp
  <2>. QED BY <1>3, <2>1, <2>3 DEF Mark, ReadsKept, ReadsStored, GapSpoils
<1>8. CASE FetchEnds(c)
  <2>3. pc'[c] = "next" \/ (pc'[c] = "upsert" /\ target[c] = win[c])
    <3>1. CASE target[c] = win[c] BY <1>8, <3>1 DEF FetchEnds, TypeOK, Goto
    <3>2. CASE target[c] # win[c] BY <1>8, <3>2 DEF FetchEnds, TypeOK, Goto
    <3>. QED BY <3>1, <3>2
  <2>4. kept'[c] = kept[c] \cup rows[c] BY <1>8 DEF FetchEnds, TypeOK
  <2>5. pending[c] = {} /\ pc[c] = "fetch" /\ good' = good BY <1>8 DEF FetchEnds
  <2>1. /\ pc'[c] = "next" \/ (pc'[c] = "upsert" /\ target[c] = win[c])
        /\ kept'[c] = kept[c] \cup rows[c]
        /\ pending[c] = {} /\ pc[c] = "fetch" /\ good' = good
    BY <2>3, <2>4, <2>5
  <2>2. ReadsKept(c)'
    <3>. SUFFICES ASSUME pc'[c] = "upsert", good[c],
                         NEW e \in Event, Due(e, win[c].until)', In(e, win[c])'
                  PROVE  e \in kept'[c]
      BY <1>1, <2>1 DEF ReadsKept, Due, In
    <3>1. Due(e, win[c].until) /\ In(e, win[c]) BY <1>1, <1>4, SameDue
    <3>. QED BY <2>1, <3>1 DEF Mark, ReadsKeepUp
  <2>. QED BY <1>3, <2>1, <2>2 DEF Mark, ReadsKeepUp, ReadsStored, GapSpoils
<1>9. CASE ResolveRange(c)
  <2>1. pc[c] = "resolve" /\ pc'[c] = "mark" /\ captured' = captured
    BY <1>9 DEF ResolveRange, TypeOK, Goto
  <2>2. ReadsStored(c)'
    <3>. SUFFICES ASSUME NEW e \in Event, Due(e, win[c].until)', horizon' <= when'[e]
                  PROVE  e \in captured'
      BY <1>1 DEF ReadsStored, Due
    <3>. QED BY <1>1, <2>1, SameDue DEF Mark, ReadsStored
  <2>. QED BY <1>3, <2>1, <2>2 DEF Mark, ReadsKeepUp, ReadsKept, GapSpoils
<1>. QED BY <1>5, <1>6, <1>7, <1>8, <1>9

\* What was kept and is not too old for this capture is stored.
LEMMA UpsertMark ==
  ASSUME MarkInv, [Next]_vars, NEW c \in Capture, UpsertEvents(c)
  PROVE  Mark(c)'
<1>. USE DEF MarkInv
<1>1. CASE ~ good[c] BY <1>1, EndsMark DEF UpsertEvents
<1>2. CASE good[c]
  <2>1. /\ pc[c] = "upsert" /\ pc'[c] = "resolve"
        /\ captured' = captured \cup {e \in kept[c] : when[e] >= cutoff[c]}
        /\ UNCHANGED <<win, cutoff, horizon>>
    BY <1>2 DEF UpsertEvents, Goto, TypeOK, history
  <2>2. cutoff[c] <= horizon BY DEF Mark, WindowPast
  <2>3. WindowPast(c)' /\ WindowReaches(c)' BY <2>1, <2>2, SameWindow
  <2>4. ReadsStored(c)'
    <3>. SUFFICES ASSUME NEW e \in Event, Due(e, win[c].until)', horizon' <= when'[e]
                  PROVE  e \in captured'
      BY <2>1 DEF ReadsStored, Due
    <3>1. Due(e, win[c].until) /\ horizon <= when[e] /\ when[e] \in Time
      BY <2>1, SameDue
    <3>2. e \in captured \/ In(e, win[c]) BY <2>1, <3>1 DEF Mark, WindowReaches
    <3>3. In(e, win[c]) => e \in kept[c] BY <1>2, <2>1, <3>1 DEF Mark, ReadsKept
    <3>4. when[e] >= cutoff[c]
      <4>1. when[e] \in Nat /\ horizon \in Nat /\ cutoff[c] \in Nat
        BY <3>1, EventCaptureAssumption DEF TypeOK, Time
      <4>. QED BY <2>2, <3>1, <4>1
    <3>. QED BY <2>1, <3>2, <3>3, <3>4
  <2>. QED BY <2>1, <2>3, <2>4 DEF Mark, ReadsKeepUp, ReadsKept, GapSpoils
<1>. QED BY <1>1, <1>2

\* The last step: the checkpoint moves to a time up to which everything is stored.
LEMMA CheckpointStep ==
  ASSUME MarkInv, [Next]_vars, NEW c \in Capture, SetCheckpoint(c)
  PROVE  CheckpointPast' /\ CheckpointBacked'
<1>. USE DEF MarkInv
<1>1. /\ pc[c] = "mark" /\ checkpoint' = win[c].until
      /\ UNCHANGED <<clock, when, horizon, captured>>
  BY DEF SetCheckpoint, vcenter, history
<1>2. win[c].until <= clock BY <1>1 DEF Mark, WindowPast
<1>3. ASSUME NEW e \in Event, when[e] # None, horizon <= when[e],
             when[e] + Overlap <= win[c].until
      PROVE  e \in captured
  BY <1>1, <1>3 DEF Mark, ReadsStored, Due
<1>4. CheckpointPast' BY <1>1, <1>2 DEF CheckpointPast
<1>5. CheckpointBacked' BY <1>1, <1>3 DEF CheckpointBacked
<1>. QED BY <1>4, <1>5

LEMMA MarkStep ==
  ASSUME MarkInv, [Next]_vars
  PROVE  MarkInv'
<1>1. TypeOK' /\ Frames' /\ EventsAppear'
  BY TypeStep, FramesStep, AppearStep DEF MarkInv
<1>2. ASSUME NEW c \in Capture, Step(c) PROVE Mark(c)'
  BY <1>2, BeginMark, OtherMark, FetchMark, UpsertMark, EndsMark
     DEF Step, SetCheckpoint, CaptureFails
<1>3. ASSUME NEW c \in Capture, Step(c), NEW d \in Capture \ {c} PROVE Mark(d)'
  <2>1. pc'[d] = pc[d]
    BY <1>3 DEF MarkInv, TypeOK, Step, Begin, PruneGaps, ListGaps, NextTarget, QueryComplete,
                QuerySplits, QueryCapped, QueryErrs, FetchRaises, ClearRaises, KeepGap, Incomplete, ReadGaps,
                WriteGap, FetchEnds, UpsertEvents, ResolveRange, SetCheckpoint, CaptureFails,
                Ends, Goto
  <2>2. win'[d] = win[d] /\ cutoff'[d] = cutoff[d] /\ target'[d] = target[d]
    BY <1>3 DEF MarkInv, TypeOK, Step, Begin, PruneGaps, ListGaps, NextTarget, QueryComplete,
                QuerySplits, QueryCapped, QueryErrs, FetchRaises, ClearRaises, KeepGap, Incomplete, ReadGaps,
                WriteGap, FetchEnds, UpsertEvents, ResolveRange, SetCheckpoint, CaptureFails,
                Ends, fetch
  <2>3. pending'[d] = pending[d] /\ good'[d] = good[d]
    BY <1>3 DEF MarkInv, TypeOK, Step, Begin, PruneGaps, ListGaps, NextTarget, QueryComplete,
                QuerySplits, QueryCapped, QueryErrs, FetchRaises, ClearRaises, KeepGap, Incomplete, ReadGaps,
                WriteGap, FetchEnds, UpsertEvents, ResolveRange, SetCheckpoint, CaptureFails,
                Ends, fetch
  <2>4. rows'[d] = rows[d] /\ kept'[d] = kept[d]
    BY <1>3 DEF MarkInv, TypeOK, Step, Begin, PruneGaps, ListGaps, NextTarget, QueryComplete,
                QuerySplits, QueryCapped, QueryErrs, FetchRaises, ClearRaises, KeepGap, Incomplete, ReadGaps,
                WriteGap, FetchEnds, UpsertEvents, ResolveRange, SetCheckpoint, CaptureFails,
                Ends, fetch
  <2>. QED BY <2>1, <2>2, <2>3, <2>4, Unmoved
<1>4. ASSUME NEW c \in Capture, Step(c) PROVE CheckpointPast' /\ CheckpointBacked'
  <2>1. CASE SetCheckpoint(c) BY <2>1, CheckpointStep
  <2>2. CASE ~ SetCheckpoint(c)
    <3>1. checkpoint' = checkpoint
      BY <1>4, <2>2 DEF Step, Begin, PruneGaps, ListGaps, NextTarget, QueryComplete,
                QuerySplits, QueryCapped, QueryErrs, FetchRaises, ClearRaises, KeepGap, Incomplete, ReadGaps,
                WriteGap, FetchEnds, UpsertEvents, ResolveRange, CaptureFails, tables
    <3>. QED BY <3>1, SameCheckpoint
  <2>. QED BY <2>1, <2>2
<1>5. CASE \/ \E e \in Event : Happen(e) \/ Appear(e)
           \/ Tick
           \/ UNCHANGED vars
  <2>1. UNCHANGED <<checkpoint, pc, win, cutoff, target, pending, good, rows, kept>>
    BY <1>5 DEF Happen, Appear, Tick, vars, tables, fetch
  <2>2. CheckpointPast' /\ CheckpointBacked' BY <2>1, SameCheckpoint
  <2>3. \A d \in Capture : Mark(d)' BY <2>1, Unmoved
  <2>. QED BY <1>1, <2>2, <2>3 DEF MarkInv
<1>6. ASSUME NEW c \in Capture, Step(c) PROVE MarkInv'
  BY <1>1, <1>2, <1>3, <1>4, <1>6 DEF MarkInv
<1>. QED BY <1>5, <1>6 DEF Next

\* Nothing has happened and nothing is recorded at first.
LEMMA InitMark == Init => MarkInv
<1>1. 0 \in Time BY EventCaptureAssumption DEF Time
<1>. QED BY <1>1, InitTypes
   DEF Init, MarkInv, EventsAppear, CheckpointPast, CheckpointBacked, Mark, WindowPast,
       WindowReaches, ReadsKeepUp, ReadsKept, ReadsStored, GapSpoils

\* CheckpointsAreBacked: an event older than the checkpoint, by the overlap, has been
\* stored unless it was beyond retention; for any cap, any number of captures, failures,
\* policy changes and late events.
THEOREM CheckpointsAreBacked == Spec => []CheckpointBacked
<1>1. MarkInv => CheckpointBacked BY DEF MarkInv
<1>. QED BY InitMark, MarkStep, <1>1, PTL DEF Spec

-----------------------------------------------------------------------------
(* Nothing is silently discarded *)

\* A capture that does not move stays where it is, and nothing but the clock and the
\* events move without one.
LEMMA OthersStay ==
  ASSUME TypeOK, NEW c \in Capture, Step(c), NEW d \in Capture \ {c}
  PROVE  pc'[d] = pc[d]
BY DEF TypeOK, Step, Begin, PruneGaps, ListGaps, NextTarget, QueryComplete,
       QuerySplits, QueryCapped, QueryErrs, FetchRaises, ClearRaises, KeepGap, Incomplete, ReadGaps,
       WriteGap, FetchEnds, UpsertEvents, ResolveRange, SetCheckpoint, CaptureFails, Ends, Goto

LEMMA EventsStay ==
  ASSUME NEW c \in Capture, Step(c)
  PROVE  when' = when /\ (~ Begin(c) => pc[c] # "idle" /\ overlaps' = overlaps)
BY DEF Step, Begin, PruneGaps, ListGaps, NextTarget, QueryComplete, QuerySplits, QueryCapped,
       QueryErrs, Reads, FetchRaises, ClearRaises, KeepGap, Incomplete, ReadGaps, WriteGap, FetchEnds,
       UpsertEvents, ResolveRange, SetCheckpoint, CaptureFails, vcenter, history

\* A settled event can be found by a query.
LEMMA SettledVisible ==
  ASSUME MarkInv, NEW c \in Capture, pc[c] # "idle", NEW e \in Event, Settled(e, win[c])
  PROVE  e \in visible /\ In(e, win[c]) /\ when[e] \in Nat
<1>1. win[c].until \in Nat /\ win[c].until <= clock /\ clock \in Nat /\ Delay \in Nat
  BY EventCaptureAssumption DEF MarkInv, TypeOK, Frames, Window, Time, Mark, WindowPast
<1>2. when[e] \in Nat
  BY EventCaptureAssumption DEF MarkInv, TypeOK, Time, Settled, In
<1>. QED BY <1>1, <1>2 DEF MarkInv, EventsAppear, Settled, In

\* What is in a window is in every window around it.
LEMMA InWider ==
  ASSUME NEW v \in Window, NEW w \in Window, NEW e \in Event, when[e] \in Nat, In(e, v), Within(v, w)
  PROVE  In(e, w)
<1>1. v.since \in Nat /\ v.until \in Nat /\ w.since \in Nat /\ w.until \in Nat
  BY EventCaptureAssumption DEF Window, Time
<1>. QED BY <1>1 DEF In, Within

\* The steps that neither read nor record.
LEMMA QuietKeeps ==
  ASSUME TypeOK, NEW c \in Capture,
         pc'[c] \in {"idle", "prune", "list", "next", "resolve", "mark"}
  PROVE  Keeps(c)'
BY DEF Keeps, Reading, Read

\* Every step of the capture under way accounts for what it read.
LEMMA KeepsStep ==
  ASSUME MarkInv, [Next]_vars, NEW c \in Capture, Step(c), Keeps(c), ~ Begin(c)
  PROVE  Keeps(c)'
<1>. USE DEF MarkInv
<1>1. when' = when /\ pc[c] # "idle" BY EventsStay
<1>2. win[c] \in Window BY <1>1 DEF Frames
<1>3. ASSUME NEW w PROVE \A e \in Event : In(e, w)' <=> In(e, w)
  BY <1>1 DEF In
<1>4. CASE PruneGaps(c) \/ ListGaps(c) \/ ResolveRange(c)
  <2>1. pc'[c] \in {"list", "next", "mark"}
    BY <1>4 DEF PruneGaps, ListGaps, ResolveRange, Goto, TypeOK
  <2>. QED BY <2>1, QuietKeeps
<1>5. CASE SetCheckpoint(c) \/ CaptureFails(c) \/ UpsertEvents(c)
  <2>1. pc'[c] \in {"idle", "resolve"}
    BY <1>5 DEF SetCheckpoint, CaptureFails, UpsertEvents, Ends, Goto, TypeOK
  <2>. QED BY <2>1, QuietKeeps
<1>6. CASE NextTarget(c)
  <2>1. PICK v \in IF retry[c] = {} THEN {win[c]} ELSE Leftmost(retry[c]) :
           /\ target' = [target EXCEPT ![c] = v]
           /\ pending' = [pending EXCEPT ![c] = {v}]
    BY <1>6 DEF NextTarget
  <2>2. target'[c] = v /\ pending'[c] = {v} /\ pc'[c] = "fetch" /\ win' = win
    BY <1>6, <2>1 DEF NextTarget, TypeOK, Goto
  <2>3. ASSUME NEW e \in Event, Settled(e, win[c])', v = win[c] PROVE Accounted(c, e)'
    <3>1. In(e, v)' BY <2>2, <2>3 DEF Settled
    <3>. QED BY <2>2, <3>1 DEF Accounted
  <2>. QED BY <2>2, <2>3 DEF Keeps, Reading, Read
<1>7. ASSUME NEW w \in Window, QueryComplete(c, w) PROVE Keeps(c)'
  <2>1. /\ rows'[c] = rows[c] \cup Found(w) /\ pending'[c] = pending[c] \ {w}
        /\ pc[c] = "fetch" /\ gaps' = Resolved(w) /\ UNCHANGED <<pc, win, target, kept>>
    BY <1>7 DEF QueryComplete, Reads, TypeOK
  <2>2. ASSUME NEW e \in Event, Reading(c), Settled(e, win[c])' PROVE Accounted(c, e)'
    <3>1. Settled(e, win[c]) BY <1>1, <2>1, <2>2 DEF Settled, In
    <3>2. e \in visible /\ when[e] \in Nat BY <1>1, <3>1, SettledVisible
    <3>3. In(e, w) => e \in Found(w) BY <3>2 DEF Found
    <3>4. Accounted(c, e) BY <2>2, <3>1 DEF Keeps
    <3>5. ASSUME NEW g \in gaps, In(e, g) PROVE g \in gaps' \/ In(e, w)
      <4>1. g \in Window BY <3>5 DEF TypeOK
      <4>. QED BY <2>1, <3>2, <3>5, <4>1, InWider DEF Resolved
    <3>6. CASE \E v \in pending[c] : In(e, v)
      <4>1. PICK v \in pending[c] : In(e, v) BY <3>6
      <4>2. CASE v = w BY <2>1, <3>3, <4>1, <4>2 DEF Accounted
      <4>3. CASE v # w
        <5>1. v \in pending'[c] /\ In(e, v)' BY <1>3, <2>1, <4>1, <4>3
        <5>. QED BY <5>1 DEF Accounted
      <4>. QED BY <4>2, <4>3
    <3>7. CASE OnRecord(e)
      <4>1. PICK g \in gaps : In(e, g) BY <3>7 DEF OnRecord
      <4>2. CASE In(e, w) BY <2>1, <3>3, <4>2 DEF Accounted
      <4>3. CASE g \in gaps'
        <5>1. In(e, g)' BY <1>3, <4>1
        <5>. QED BY <4>3, <5>1 DEF Accounted, OnRecord
      <4>. QED BY <3>5, <4>1, <4>2, <4>3
    <3>8. CASE e \in rows[c] \cup kept[c] BY <2>1, <3>8 DEF Accounted
    <3>. QED BY <2>1, <3>4, <3>6, <3>7, <3>8 DEF Accounted
  <2>3. Reading(c)' => Reading(c) BY <2>1 DEF Reading
  <2>. QED BY <2>1, <2>2, <2>3 DEF Keeps, Read
<1>8. ASSUME NEW w \in Window, QuerySplits(c, w) PROVE Keeps(c)'
  <2>1. /\ pending'[c] = (pending[c] \ {w}) \cup Halves(w)
        /\ pc[c] = "fetch" /\ UNCHANGED <<pc, win, target, kept, rows, gaps>>
    BY <1>8 DEF QuerySplits, Reads, TypeOK, tables
  <2>2. ASSUME NEW e \in Event, Reading(c), Settled(e, win[c])' PROVE Accounted(c, e)'
    <3>1. Settled(e, win[c]) BY <1>1, <2>1, <2>2 DEF Settled, In
    <3>2. Accounted(c, e) BY <2>2, <3>1 DEF Keeps
    <3>3. In(e, w) => \E v \in Halves(w) : In(e, v) BY HalvesCover
    <3>4. OnRecord(e) => OnRecord(e)' BY <1>3, <2>1 DEF OnRecord
    <3>5. CASE \E v \in pending[c] : In(e, v)
      <4>1. \E v \in pending'[c] : In(e, v) BY <2>1, <3>3, <3>5
      <4>2. \E v \in pending'[c] : In(e, v)' BY <1>3, <4>1
      <4>. QED BY <4>2 DEF Accounted
    <3>. QED BY <2>1, <3>2, <3>4, <3>5 DEF Accounted
  <2>3. Reading(c)' => Reading(c) BY <2>1 DEF Reading
  <2>. QED BY <2>1, <2>2, <2>3 DEF Keeps, Read
<1>9. ASSUME NEW w \in Window, QueryCapped(c, w) \/ QueryErrs(c, w) PROVE Keeps(c)'
  <2>1. PICK got : Incomplete(c, w, got) BY <1>9 DEF QueryCapped, QueryErrs
  <2>2. /\ rows'[c] = rows[c] \cup got /\ pending'[c] = pending[c] \ {w}
        /\ gap'[c] = w /\ pc'[c] = "record" /\ UNCHANGED <<win, target, kept, gaps>>
    BY <2>1 DEF Incomplete, Goto, TypeOK, tables
  <2>3. pc[c] = "fetch" BY <1>9 DEF QueryCapped, QueryErrs, Reads
  <2>4. ASSUME NEW e \in Event, Reading(c), Settled(e, win[c])' PROVE Accounted(c, e)'
    <3>1. Settled(e, win[c]) BY <1>1, <2>2, <2>4 DEF Settled, In
    <3>2. Accounted(c, e) BY <2>4, <3>1 DEF Keeps
    <3>3. OnRecord(e) => OnRecord(e)' BY <1>3, <2>2 DEF OnRecord
    <3>4. CASE \E v \in pending[c] : In(e, v)
      <4>1. PICK v \in pending[c] : In(e, v) BY <3>4
      <4>2. CASE v = w
        <5>1. In(e, w)' BY <1>3, <4>1, <4>2
        <5>. QED BY <2>2, <5>1 DEF Accounted, In
      <4>3. CASE v # w
        <5>1. v \in pending'[c] /\ In(e, v)' BY <1>3, <2>2, <4>1, <4>3
        <5>. QED BY <5>1 DEF Accounted
      <4>. QED BY <4>2, <4>3
    <3>. QED BY <2>2, <2>3, <3>2, <3>3, <3>4 DEF Accounted
  <2>5. Reading(c)' => Reading(c) BY <2>2, <2>3 DEF Reading
  <2>. QED BY <2>2, <2>4, <2>5 DEF Keeps, Read
<1>10. CASE FetchRaises(c) \/ ClearRaises(c)
  <2>1. \/ pc'[c] = "keep" /\ target'[c] = target[c] /\ target[c] # win[c]
        \/ pc'[c] = "upsert" /\ target'[c] = None
    BY <1>10 DEF FetchRaises, ClearRaises, KeepGap, Goto, TypeOK
  <2>2. win'[c] = win[c] /\ win[c] # None
    BY <1>2, <1>10, EventCaptureAssumption DEF FetchRaises, ClearRaises
  <2>. QED BY <2>1, <2>2 DEF Keeps, Reading, Read
<1>11. CASE ReadGaps(c)
  <2>1. PICK m \in Window : Within(gap[c], m) /\ gap' = [gap EXCEPT ![c] = m]
    BY <1>11 DEF ReadGaps, Merged
  <2>2. /\ gap'[c] = m /\ UNCHANGED <<win, target, pending, rows, kept, gaps>>
        /\ \/ pc[c] = "record" /\ pc'[c] = "write"
           \/ pc[c] = "keep" /\ pc'[c] = "rewrite"
    BY <1>11, <2>1 DEF ReadGaps, Goto, TypeOK, tables
  <2>3. ASSUME NEW e \in Event, pc[c] = "record", Reading(c), Settled(e, win[c])'
        PROVE  Accounted(c, e)'
    <3>1. Settled(e, win[c]) BY <1>1, <2>2, <2>3 DEF Settled, In
    <3>2. Accounted(c, e) /\ gap[c] \in Window BY <2>3, <3>1 DEF Keeps
    <3>3. when[e] \in Nat BY <1>1, <3>1, SettledVisible
    <3>4. OnRecord(e) => OnRecord(e)' BY <1>3, <2>2 DEF OnRecord
    <3>5. (\E v \in pending[c] : In(e, v)) => \E v \in pending'[c] : In(e, v)'
      BY <1>3, <2>2
    <3>6. In(e, gap[c]) => In(e, gap[c])'
      <4>1. In(e, gap[c]) => In(e, m) BY <2>1, <3>2, <3>3, InWider
      <4>2. In(e, m) => In(e, m)' BY <1>3
      <4>. QED BY <2>2, <4>1, <4>2 DEF In
    <3>. QED BY <2>2, <2>3, <3>2, <3>4, <3>5, <3>6 DEF Accounted
  <2>4. Reading(c)' => Reading(c) /\ pc[c] = "record" BY <2>2 DEF Reading
  <2>5. pc'[c] = "rewrite" => target'[c] # win'[c] BY <2>2 DEF Keeps
  <2>. QED BY <2>2, <2>3, <2>4, <2>5 DEF Keeps, Read
<1>12. CASE WriteGap(c)
  <2>1. /\ gaps' = Resolved(gap[c]) \cup {gap[c]} /\ pc'[c] = "fetch"
        /\ UNCHANGED <<win, target, pending, rows, kept>> /\ pc[c] \in {"write", "rewrite"}
    BY <1>12 DEF WriteGap, Goto, TypeOK
  <2>2. gap[c] \in Window BY <2>1 DEF Frames, Writing
  <2>3. ASSUME NEW e \in Event, Reading(c), Settled(e, win[c])' PROVE Accounted(c, e)'
    <3>1. Settled(e, win[c]) BY <1>1, <2>1, <2>3 DEF Settled, In
    <3>2. Accounted(c, e) BY <2>3, <3>1 DEF Keeps
    <3>3. when[e] \in Nat BY <1>1, <3>1, SettledVisible
    <3>4. In(e, gap[c]) => OnRecord(e)' BY <1>1, <2>1 DEF OnRecord, In
    <3>5. OnRecord(e) => OnRecord(e)'
      <4>1. ASSUME NEW g \in gaps, In(e, g) PROVE OnRecord(e)'
        <5>1. CASE Within(g, gap[c])
          <6>1. g \in Window BY DEF TypeOK
          <6>2. In(e, gap[c]) BY <2>2, <3>3, <4>1, <5>1, <6>1, InWider
          <6>. QED BY <3>4, <6>2
        <5>2. CASE ~ Within(g, gap[c])
          <6>1. g \in gaps' BY <2>1, <5>2 DEF Resolved
          <6>2. In(e, g)' BY <1>3, <4>1
          <6>. QED BY <6>1, <6>2 DEF OnRecord
        <5>. QED BY <5>1, <5>2
      <4>. QED BY <4>1 DEF OnRecord
    <3>6. (\E v \in pending[c] : In(e, v)) => \E v \in pending'[c] : In(e, v)'
      BY <1>3, <2>1
    <3>. QED BY <2>1, <3>2, <3>4, <3>5, <3>6 DEF Accounted
  <2>4. Reading(c)' => Reading(c) BY <2>1 DEF Reading, Keeps
  <2>. QED BY <2>1, <2>3, <2>4 DEF Keeps, Read
<1>13. CASE FetchEnds(c)
  <2>1. CASE target[c] # win[c]
    <3>1. pc'[c] = "next" BY <1>13, <2>1 DEF FetchEnds, Goto, TypeOK
    <3>. QED BY <3>1, QuietKeeps
  <2>2. CASE target[c] = win[c]
    <3>1. /\ pc[c] = "fetch" /\ pc'[c] = "upsert" /\ pending[c] = {}
          /\ UNCHANGED <<win, target, gaps>>
      BY <1>13, <2>2 DEF FetchEnds, Goto, TypeOK
    <3>2. kept'[c] = kept[c] \cup rows[c] BY <1>13 DEF FetchEnds, TypeOK
    <3>3. ASSUME NEW e \in Event, Settled(e, win[c])' PROVE e \in kept'[c] \/ OnRecord(e)'
      <4>1. Settled(e, win[c]) BY <1>1, <3>1, <3>3 DEF Settled, In
      <4>2. Accounted(c, e) BY <2>2, <3>1, <4>1 DEF Keeps, Reading
      <4>3. OnRecord(e) => OnRecord(e)' BY <1>3, <3>1 DEF OnRecord
      <4>. QED BY <3>1, <3>2, <4>2, <4>3 DEF Accounted
    <3>. QED BY <3>1, <3>3 DEF Keeps, Reading
  <2>. QED BY <2>1, <2>2
<1>. QED
  BY <1>4, <1>5, <1>6, <1>7, <1>8, <1>9, <1>10, <1>11, <1>12, <1>13 DEF Step

\* While no capture moves, an event that happens is too recent to be settled.
LEMMA WorldKeeps ==
  ASSUME MarkInv, Delay # 0, Accounts,
         (\E e \in Event : Happen(e) \/ Appear(e)) \/ Tick \/ UNCHANGED vars
  PROVE  Accounts'
<1>. USE DEF MarkInv
<1>1. UNCHANGED <<overlaps, pc, win, target, pending, rows, kept, gap, gaps>>
  BY DEF Happen, Appear, Tick, vars, tables, fetch, history
<1>2. \A e \in Event : when'[e] # None => when'[e] = when[e] \/ when'[e] = clock
  BY DEF Happen, Appear, Tick, vars, vcenter, TypeOK
<1>3. \A e \in Event : when[e] # None => when'[e] = when[e]
  BY DEF Happen, Appear, Tick, vars, vcenter, TypeOK
<1>. SUFFICES ASSUME overlaps = 0, NEW c \in Capture PROVE Keeps(c)'
  BY <1>1 DEF Accounts, Alone
<1>4. Keeps(c) BY DEF Accounts
<1>5. ASSUME pc[c] # "idle", NEW e \in Event, Settled(e, win[c])'
      PROVE  Settled(e, win[c]) /\ when'[e] = when[e]
  <2>1. win[c].until \in Nat /\ win[c].until <= clock /\ clock \in Nat /\ Delay \in Nat
    BY <1>5, EventCaptureAssumption DEF TypeOK, Frames, Window, Time, Mark, WindowPast
  <2>2. when'[e] # None /\ when'[e] + Delay <= win[c].until BY <1>1, <1>5 DEF Settled, In
  <2>3. when'[e] # clock BY <2>1, <2>2
  <2>4. when'[e] = when[e] BY <1>2, <2>2, <2>3
  <2>. QED BY <1>1, <1>5, <2>4 DEF Settled, In
<1>6. ASSUME NEW e \in Event, when'[e] = when[e] PROVE Accounted(c, e) => Accounted(c, e)'
  BY <1>1, <1>6 DEF Accounted, OnRecord, In
<1>7. ASSUME NEW e \in Event, when'[e] = when[e] PROVE OnRecord(e) => OnRecord(e)'
  BY <1>1, <1>7 DEF OnRecord, In
<1>. QED BY <1>1, <1>4, <1>5, <1>6, <1>7 DEF Keeps, Reading, Read

LEMMA AccountsStep ==
  ASSUME MarkInv, Delay # 0, Accounts, [Next]_vars
  PROVE  Accounts'
<1>1. CASE (\E e \in Event : Happen(e) \/ Appear(e)) \/ Tick \/ UNCHANGED vars
  BY <1>1, WorldKeeps
<1>2. ASSUME NEW c \in Capture, Step(c) PROVE Accounts'
  <2>. SUFFICES ASSUME overlaps' = 0 PROVE Alone' /\ \A d \in Capture : Keeps(d)'
    BY DEF Accounts
  <2>1. overlaps = 0 /\ \A d \in Capture \ {c} : pc[d] = "idle"
    <3>1. CASE Begin(c)
      <4>1. overlaps \in Nat BY DEF MarkInv, TypeOK
      <4>2. \/ (\A d \in Capture : pc[d] = "idle") /\ overlaps' = overlaps
            \/ overlaps' = overlaps + 1
        BY <3>1 DEF Begin
      <4>. QED BY <4>1, <4>2
    <3>2. CASE ~ Begin(c)
      <4>1. pc[c] # "idle" /\ overlaps' = overlaps BY <1>2, <3>2, EventsStay
      <4>. QED BY <4>1 DEF Accounts, Alone
    <3>. QED BY <3>1, <3>2
  <2>2. \A d \in Capture \ {c} : pc'[d] = "idle"
    BY <1>2, <2>1, OthersStay DEF MarkInv
  <2>3. Keeps(c)'
    <3>1. CASE Begin(c)
      <4>1. pc'[c] = "prune" BY <3>1 DEF Begin, Goto, MarkInv, TypeOK
      <4>. QED BY <4>1, QuietKeeps DEF MarkInv
    <3>2. CASE ~ Begin(c)
      BY <1>2, <2>1, <3>2, KeepsStep DEF Accounts
    <3>. QED BY <3>1, <3>2
  <2>4. \A d \in Capture \ {c} : Keeps(d)' BY <2>2, QuietKeeps DEF MarkInv
  <2>5. Alone' BY <2>2 DEF Alone
  <2>. QED BY <2>3, <2>4, <2>5
<1>. QED BY <1>1, <1>2 DEF Next

\* NothingDiscarded: "capped windows are bisected so the newest rows cannot be silently
\* discarded", for any cap, any events and any failures of a capture that has the
\* table to itself, when an event takes a tick to be settled.
THEOREM NoSilentLoss ==
  ASSUME Delay # 0
  PROVE  Spec => []NothingDiscarded
<1>1. Init => MarkInv /\ Accounts
  <2>1. Init => MarkInv BY InitMark
  <2>2. Init => Accounts
    BY DEF Init, Accounts, Alone, Keeps, Reading, Read
  <2>. QED BY <2>1, <2>2
<1>2. MarkInv /\ Accounts /\ [Next]_vars => MarkInv' /\ Accounts'
  BY MarkStep, AccountsStep
<1>3. Accounts => NothingDiscarded
  BY DEF Accounts, Keeps, Read, OnRecord, NothingDiscarded
<1>. QED BY <1>1, <1>2, <1>3, PTL DEF Spec

=============================================================================
