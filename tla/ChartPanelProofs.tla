-------------------------- MODULE ChartPanelProofs ---------------------------
(* What holds of a chart panel for every type of chart, any processes, any   *)
(* width of the plot and any intensities and steps of the fading: the mouse  *)
(* is captured while it pans, a drag follows the pointer, the series of a    *)
(* kind are switched together and only by the row that was clicked, and a    *)
(* legend that is not as it should be is fading.                             *)
EXTENDS ChartPanel, TLAPS

-----------------------------------------------------------------------------
(* Types. *)

\* The series of a chart have keys in range, none of them that of a process row.
LEMMA SeriesInRange ==
    ASSUME NEW t \in Types, NEW tr \in SUBSET Pids
    PROVE  SeriesOf(t, tr) \subseteq Keys
<1>1. ASSUME NEW k \in SeriesOf(t, tr) PROVE k \in Keys
  <2>1. PICK kind \in KindsOf[t], p \in Pids \cup {0} : k = Key(kind, p)
    BY <1>1 DEF SeriesOf
  <2>2. kind \in UNION {KindsOf[s] : s \in Types}
    OBVIOUS
  <2> QED BY <2>1, <2>2 DEF Keys
<1> QED BY <1>1

\* A row that is not a process's has the key of a series, and a process row that
\* of a process.
LEMMA RowKinds ==
    ASSUME NEW row \in Rows
    PROVE  IF row.kind = "process" THEN row.pid \in Pids ELSE row \in Keys
<1>1. CASE row \in Keys
  <2>1. PICK kind \in UNION {KindsOf[s] : s \in Types}, p \in Pids \cup {0} :
             row = Key(kind, p)
    BY <1>1 DEF Keys
  <2>2. row.kind # "process"
    BY <2>1, ChartAssumption DEF Key
  <2> QED BY <1>1, <2>2
<1>2. CASE row \in {ProcessRow(p) : p \in Pids}
  BY <1>2 DEF ProcessRow, Key
<1> QED BY <1>1, <1>2 DEF Rows

\* What OnPaint can put into the hits.
LEMMA PaintedRows ==
    ASSUME TypeOK
    PROVE  MetricRows \cup ProcessRows \subseteq Rows
BY DEF TypeOK, MetricRows, ProcessRows, Rows

\* One step of the fading stays between the intensities.
LEMMA FadeStep ==
    ASSUME TypeOK, OnFadeTimer
    PROVE  alpha' \in Idle..Hover /\ fading' \in BOOLEAN
<1> DEFINE target == Target(hover)
<1>1. target \in Idle..Hover /\ Idle \in Nat /\ Hover \in Nat /\ Step \in Nat \ {0}
  BY FadeAssumption DEF Target
<1>2. alpha \in Idle..Hover
  BY DEF TypeOK
<1>3. CASE Near(Distance(alpha, target)) /\ alpha' = target /\ fading' = FALSE
  BY <1>1, <1>3
<1>4. CASE /\ Distance(alpha, target) = Step \/ ~Near(Distance(alpha, target))
           /\ alpha' = IF alpha < target THEN alpha + Step ELSE alpha - Step
           /\ UNCHANGED fading
  <2> HIDE DEF target
  <2>1. Distance(alpha, target) >= Step
    BY <1>1, <1>2, <1>4 DEF Near, Distance
  <2>2. alpha' \in Idle..Hover
    BY <1>1, <1>2, <1>4, <2>1 DEF Distance
  <2>3. fading' \in BOOLEAN
    BY <1>4 DEF TypeOK
  <2> QED BY <2>2, <2>3
<1> QED BY <1>3, <1>4 DEF OnFadeTimer

\* The part of the type invariant that is about switches and flags.
Flags ==
    /\ missed \in BOOLEAN
    /\ panning \in BOOLEAN /\ captured \in BOOLEAN /\ dangling \in BOOLEAN
    /\ hover \in BOOLEAN /\ fading \in BOOLEAN
    /\ inside \in BOOLEAN /\ held \in BOOLEAN
    /\ sane \in BOOLEAN /\ lost \in BOOLEAN

\* What is a number.
LEMMA Numbers ==
    ASSUME TypeOK
    PROVE  /\ width \in Nat /\ Span \in Nat
           /\ pan_last \in Nat /\ from \in Nat /\ x \in Nat
           /\ pieces \in Nat /\ asked \in Int
<1>1. width \in Widths \cup {0} /\ Widths \subseteq Nat
  BY ChartAssumption DEF TypeOK
<1>2. pan_last \in Columns \cup {0} /\ from \in Columns \cup {0} /\ Columns \subseteq Nat
  BY ChartAssumption DEF TypeOK, None
<1> QED BY <1>1, <1>2, ChartAssumption DEF TypeOK

\* A motion that pans moves the view by what the pointer moved, less at most a
\* millisecond; any other leaves the history of the drag as it is.
LEMMA MotionPans ==
    ASSUME TypeOK, NEW column \in Columns, PanTo(column)
    PROVE  /\ missed' \in BOOLEAN /\ from' = from
           /\ \/ /\ ~missed'
                 /\ pan_last' = column
                 /\ pieces' = pieces + 1 /\ asked' \in Int
                 /\ Distance(width * (asked' - asked), Span * (pan_last - column))
                        <= width
              \/ /\ missed' \/ pan_last = column
                 /\ UNCHANGED <<pan_last, pieces, asked>>
<1>1. column \in Nat /\ pan_last \in Nat /\ width \in Nat /\ Span \in Nat
        /\ asked \in Int
  BY Numbers, ChartAssumption
<1>2. missed' \in BOOLEAN /\ from' = from
  BY DEF PanTo
<1>3. CASE column # pan_last /\ width > 1
  <2> DEFINE far == Distance(column, pan_last)
             a == far * Span
  <2>1. PICK ms \in Truncations(a, width) :
             asked' = IF column > pan_last THEN asked - ms ELSE asked + ms
    BY <1>1, <1>3 DEF PanTo, Ask
  <2>2. far \in Nat /\ a \in Nat
    BY <1>1 DEF Distance
  <2> DEFINE b == width * ms
  <2>3. ms \in Nat /\ b \in Nat /\ a - b \in 0..width
    BY <1>1, <2>1, <2>2 DEF Truncations
  <2>4. Distance(width * (asked' - asked), Span * (pan_last - column)) <= width
          /\ asked' \in Int
    <3>1. CASE column > pan_last
      <4>1. far = column - pan_last /\ asked' - asked = -ms /\ asked' \in Int
        BY <1>1, <2>1, <2>3, <3>1 DEF Distance
      <4>2. pan_last - column = -far /\ Span * (-far) = -a
        BY <1>1, <2>2, <4>1
      <4>3. width * (-ms) = -b
        BY <1>1, <2>3
      <4> HIDE DEF a, b
      <4>4. Distance(-b, -a) <= width
        BY <1>1, <2>2, <2>3 DEF Distance
      <4> QED BY <4>1, <4>2, <4>3, <4>4
    <3>2. CASE column < pan_last
      <4>1. far = pan_last - column /\ asked' - asked = ms /\ asked' \in Int
        BY <1>1, <2>1, <2>3, <3>2 DEF Distance
      <4>2. Span * (pan_last - column) = a /\ width * (asked' - asked) = b
        BY <1>1, <2>2, <4>1
      <4> HIDE DEF a, b
      <4>3. Distance(b, a) <= width
        BY <1>1, <2>2, <2>3 DEF Distance
      <4> QED BY <4>1, <4>2, <4>3
    <3> QED BY <1>1, <1>3, <3>1, <3>2
  <2>5. missed' = FALSE /\ pan_last' = column /\ pieces' = pieces + 1
    BY <1>1, <1>3 DEF PanTo
  <2> HIDE DEF far, a
  <2> QED BY <1>2, <2>4, <2>5
<1>4. CASE ~(column # pan_last /\ width > 1)
  <2>1. UNCHANGED <<pan_last, pieces, asked>>
    BY <1>1, <1>4 DEF PanTo
  <2>2. missed' = TRUE \/ pan_last = column
    BY <1>1, <1>4 DEF PanTo
  <2> QED BY <1>2, <2>1, <2>2
<1> QED BY <1>3, <1>4

\* Every variable stays in its range.
LEMMA TypeStep ==
    ASSUME TypeOK, [Next]_vars
    PROVE  TypeOK'
<1> USE DEF TypeOK
<1>1. CASE OnPaint
  <2>1. hits' \subseteq Rows /\ width' \in Widths
    BY <1>1, PaintedRows DEF OnPaint
  <2>2. from' \in Columns \cup {None} /\ pieces' \in Nat /\ asked' \in Int
    BY <1>1 DEF OnPaint, Measure
  <2> QED BY <1>1, <2>1, <2>2 DEF OnPaint, chart, switches, fade, pointer
<1>2. CASE OnMotion
  <2>1. /\ pieces' \in Nat /\ asked' \in Int /\ from' = from
        /\ missed' \in BOOLEAN
        /\ pan_last' \in Columns \cup {None} /\ alpha' = alpha
    <3>1. CASE panning /\ held
      BY <1>2, <3>1, MotionPans DEF OnMotion, fade
    <3>2. CASE ~(panning /\ held)
      BY <1>2, <3>2 DEF OnMotion, way
    <3> QED BY <3>1, <3>2
  <2>2. Flags'
    BY <1>2, <2>1 DEF OnMotion, StartFade, fade, Flags
  <2> QED BY <1>2, <2>1, <2>2 DEF OnMotion, chart, switches, Flags
<1>3. CASE OnLeave
  <2>1. Flags'
    BY <1>3 DEF OnLeave, Reached, StopPanning, DropCapture, StartFade, Flags
  <2> QED BY <1>3, <2>1 DEF OnLeave, Measure, chart, switches, None, Flags
<1>4. CASE OnFadeTimer
  <2>1. UNCHANGED <<chart, switches, width, hits, drag, hover, menu,
                    pointer, sane, changes>>
    BY <1>4 DEF OnFadeTimer
  <2>2. alpha' \in Idle..Hover /\ fading' \in BOOLEAN
    BY <1>4, FadeStep
  <2>3. Flags'
    BY <2>1, <2>2 DEF Flags, drag, way, pointer
  <2> QED BY <2>1, <2>2, <2>3 DEF Flags, chart, switches, drag, way, pointer
<1>5. CASE PressRow
  <2>1. PICK row \in hits : ToggleRow(row)
    BY <1>5 DEF PressRow
  <2>2. series_off' \subseteq Keys /\ procs_off' \subseteq Pids
    <3>1. row \in Rows
      BY <2>1
    <3>2. SameKind(row.kind) \subseteq Keys
      BY DEF SameKind
    <3> QED BY <2>1, <3>1, <3>2, RowKinds DEF ToggleRow, Flipped
  <2>3. changes' \in 0..MaxChanges
    BY <1>5, ChartAssumption DEF PressRow, Change
  <2> QED BY <1>5, <2>2, <2>3 DEF PressRow, Reached, chart, way, fade
<1>6. CASE PressPlot
  <2>1. Flags'
    BY <1>6 DEF PressPlot, Reached, fade, Flags
  <2>2. from' \in Columns /\ pieces' \in Nat /\ asked' \in Int
    BY <1>6 DEF PressPlot, Measure
  <2> QED BY <1>6, <2>1, <2>2 DEF PressPlot, chart, switches, fade, Flags
<1>7. CASE PressElsewhere
  BY <1>7 DEF PressElsewhere, chart, switches, way, fade
<1>8. CASE OnLeftUp
  <2>1. Flags'
    BY <1>8 DEF OnLeftUp, Reached, StopPanning, DropCapture, fade, Flags
  <2>2. from' \in Columns \cup {None} /\ pieces' \in Nat /\ asked' \in Int
    BY <1>8 DEF OnLeftUp, Measure
  <2> QED BY <1>8, <2>1, <2>2 DEF OnLeftUp, chart, switches, fade, Flags
<1>9. CASE ReleaseElsewhere
  <2>1. Flags'
    BY <1>9 DEF ReleaseElsewhere, way, fade, Flags
  <2> QED BY <1>9, <2>1 DEF ReleaseElsewhere, chart, switches, way, fade, Flags
<1>10. CASE Enter
  BY <1>10 DEF Enter, chart, switches, drag, way, fade
<1>11. CASE OnRightDown
  BY <1>11 DEF OnRightDown, Reached, DropCapture, chart, switches, way, fade, pointer
<1>12. CASE CloseMenu
  <2>1. Flags'
    BY <1>12 DEF CloseMenu, drag, way, fade, Flags
  <2> QED BY <1>12, <2>1 DEF CloseMenu, chart, switches, drag, way, fade, Flags
<1>13. CASE RebuildPanes
  <2>1. spec' \subseteq Keys
    BY <1>13, SeriesInRange DEF RebuildPanes, NewPanel
  <2>2. changes' \in 0..MaxChanges
    BY <1>13, ChartAssumption DEF RebuildPanes, Change
  <2>3. alpha' \in Idle..Hover
    BY <1>13, FadeAssumption DEF RebuildPanes, NewPanel
  <2>4. Flags'
    BY <1>13 DEF RebuildPanes, NewPanel, pointer, Flags
  <2>5. from' \in Columns \cup {None} /\ pieces' \in Nat /\ asked' \in Int
    BY <1>13 DEF RebuildPanes, Measure
  <2> QED BY <1>13, <2>1, <2>2, <2>3, <2>4, <2>5
          DEF RebuildPanes, NewPanel, pointer, Flags
<1>14. CASE Retrack
  <2>1. changes' \in 0..MaxChanges
    BY <1>14, ChartAssumption DEF Retrack, Change
  <2> QED BY <1>14, <2>1 DEF Retrack, switches, drag, way, fade, pointer
<1>15. CASE UNCHANGED vars
  BY <1>15 DEF vars, chart, switches, drag, way, fade, pointer
<1> QED
  BY <1>1, <1>2, <1>3, <1>4, <1>5, <1>6, <1>7, <1>8, <1>9, <1>10, <1>11, <1>12,
     <1>13, <1>14, <1>15 DEF Next

\* Every variable is in its range, for any processes and any bound on changes.
THEOREM TypeCorrect == Spec => []TypeOK
<1>1. Init => TypeOK
  <2> SUFFICES ASSUME Init PROVE TypeOK
    OBVIOUS
  <2>1. spec \subseteq Keys
    BY SeriesInRange DEF Init
  <2>2. alpha \in Idle..Hover /\ 0 \in 0..MaxChanges
    BY FadeAssumption, ChartAssumption DEF Init
  <2>3. Flags
    BY DEF Init, Flags
  <2> QED BY <2>1, <2>2, <2>3 DEF Init, TypeOK, Flags, None
<1> QED BY <1>1, TypeStep, PTL DEF Spec

-----------------------------------------------------------------------------
(* The mouse. *)

\* How far the view was panned is how far the pointer came, with what the motions
\* since the last change of the scale have lost.
InStep == Distance(width * asked, Span * (from - pan_last)) <= width * pieces

\* What panning_, the capture and the pointer have to do with each other.
Hand ==
    sane =>
        /\ captured =>
              panning /\ held /\ inside /\ menu = "none" /\ Present
        /\ panning /\ ~lost =>
              /\ captured
              /\ grip # None /\ (pan_last = x \/ missed)
              /\ InStep

\* Where a drag is measured anew, nothing is lost.
LEMMA MeasuredAnew ==
    ASSUME TypeOK, TypeOK', from' = pan_last', pieces' = 0, asked' = 0
    PROVE  InStep'
<1>1. width' \in Nat /\ Span \in Nat /\ pan_last' \in Nat
  <2>1. width' \in Widths \cup {0} /\ pan_last' \in Columns \cup {0}
    BY DEF TypeOK, None
  <2> QED BY <2>1, ChartAssumption
<1>2. \A w, s, c \in Nat : Distance(w * 0, s * (c - c)) <= w * 0
  <2> TAKE w, s, c \in Nat
  <2>1. w * 0 = 0 /\ c - c = 0 /\ s * 0 = 0
    OBVIOUS
  <2> QED BY <2>1 DEF Distance
<1> QED BY <1>1, <1>2 DEF InStep

\* A motion adds to what is lost at most what one piece loses.
LEMMA MotionInStep ==
    ASSUME TypeOK, TypeOK', InStep, NEW column \in Columns, PanTo(column),
           UNCHANGED width
    PROVE  InStep'
<1>1. width \in Nat /\ Span \in Nat /\ pan_last \in Nat /\ from \in Nat
        /\ column \in Nat /\ asked \in Int /\ asked' \in Int /\ pieces \in Nat
  BY Numbers, ChartAssumption DEF TypeOK
<1>2. CASE UNCHANGED <<pan_last, from, pieces, asked>>
  BY <1>2 DEF InStep
<1>3. CASE /\ pan_last' = column /\ from' = from /\ pieces' = pieces + 1
           /\ Distance(width * (asked' - asked), Span * (pan_last - column)) <= width
  <2> DEFINE a == width * asked
             b == width * (asked' - asked)
             p == Span * (from - pan_last)
             q == Span * (pan_last - column)
             k == width * pieces
  <2>1. a \in Int /\ b \in Int /\ p \in Int /\ q \in Int /\ k \in Int
    BY <1>1
  <2>2. width * asked' = a + b /\ Span * (from - column) = p + q
          /\ width * (pieces + 1) = k + width
    BY <1>1
  <2>3. Distance(a, p) <= k /\ Distance(b, q) <= width
    BY <1>3 DEF InStep
  <2> HIDE DEF a, b, p, q, k
  <2>4. Distance(a + b, p + q) <= k + width
    BY <1>1, <2>1, <2>3 DEF Distance
  <2> QED BY <1>3, <2>2, <2>4 DEF InStep
<1> QED BY <1>2, <1>3, MotionPans

\* Every step keeps it.
LEMMA HandStep ==
    ASSUME TypeOK, TypeOK', Hand, [Next]_vars
    PROVE  Hand'
<1> USE DEF Hand, Present
<1>1. CASE OnPaint
  <2>1. panning /\ InStep => InStep'
    <3>1. CASE panning /\ width' # width
      BY <1>1, <3>1, MeasuredAnew DEF OnPaint, Measure
    <3>2. CASE width' = width
      BY <1>1, <3>2 DEF OnPaint, InStep
    <3> QED BY <3>1, <3>2
  <2> QED BY <1>1, <2>1 DEF OnPaint, chart, pointer
<1>2. CASE OnMotion
  <2>1. CASE panning /\ held
    <3>1. /\ x' \in Columns /\ PanTo(x')
          /\ UNCHANGED <<width, spec, panning, captured, grip, lost, menu, inside, held,
                         sane>>
      BY <1>2, <2>1 DEF OnMotion, chart
    <3>2. pan_last' = x' \/ missed'
      BY <3>1, MotionPans
    <3>3. InStep => InStep'
      BY <3>1, MotionInStep
    <3> QED BY <2>1, <3>1, <3>2, <3>3
  <2>2. CASE ~(panning /\ held)
    <3>1. sane /\ panning => lost
      BY <1>2, <2>2 DEF OnMotion, Reached
    <3> QED BY <1>2, <2>2, <3>1 DEF OnMotion, Reached, chart
  <2> QED BY <2>1, <2>2
<1>3. CASE OnLeave
  BY <1>3 DEF OnLeave, StopPanning, DropCapture, Reached
<1>4. CASE OnFadeTimer
  BY <1>4 DEF OnFadeTimer, InStep, chart, drag, way, pointer
<1>5. CASE PressRow
  BY <1>5 DEF PressRow, Reached, InStep, chart, way
<1>6. CASE PressPlot
  <2>1. InStep'
    BY <1>6, MeasuredAnew DEF PressPlot, Measure
  <2>2. x # None
    BY ChartAssumption DEF TypeOK, None
  <2> QED BY <1>6, <2>1, <2>2 DEF PressPlot, Reached, chart
<1>7. CASE PressElsewhere
  BY <1>7 DEF PressElsewhere, InStep, chart, way
<1>8. CASE OnLeftUp
  BY <1>8 DEF OnLeftUp, StopPanning, DropCapture, Reached
<1>9. CASE ReleaseElsewhere
  BY <1>9 DEF ReleaseElsewhere, Reached, InStep, chart, way
<1>10. CASE Enter
  BY <1>10 DEF Enter, InStep, chart, drag, way
<1>11. CASE OnRightDown
  BY <1>11 DEF OnRightDown, DropCapture, Reached, InStep, chart, way, pointer
<1>12. CASE CloseMenu
  BY <1>12 DEF CloseMenu, InStep, chart, drag, way
<1>13. CASE RebuildPanes
  BY <1>13 DEF RebuildPanes, NewPanel
<1>14. CASE Retrack
  BY <1>14 DEF Retrack, InStep, drag, way, pointer
<1>15. CASE UNCHANGED vars
  BY <1>15 DEF vars, InStep, chart, drag, way, pointer
<1> QED
  BY <1>1, <1>2, <1>3, <1>4, <1>5, <1>6, <1>7, <1>8, <1>9, <1>10, <1>11, <1>12,
     <1>13, <1>14, <1>15 DEF Next

\* Whatever the buttons and the pointer do, the hand is in order.
THEOREM HandCorrect == Spec => []Hand
<1>1. Init => Hand
  BY DEF Init, Hand
<1> QED BY <1>1, HandStep, TypeCorrect, PTL DEF Spec

\* The panel keeps the mouse from other windows exactly while it pans.
THEOREM CaptureCorrect == Spec => []CaptureWhilePanning
<1>1. TypeOK /\ Hand => CaptureWhilePanning
  BY DEF Hand, CaptureWhilePanning
<1> QED BY <1>1, HandCorrect, TypeCorrect, PTL

\* While it pans, the view follows the pointer: each motion loses at most
\* a millisecond, however wide the plot and whatever the span.
THEOREM DragCorrect == Spec => []DragFollowsPointer
<1>1. TypeOK /\ Hand => DragFollowsPointer
  BY DEF Hand, InStep, DragFollowsPointer
<1> QED BY <1>1, HandCorrect, TypeCorrect, PTL

-----------------------------------------------------------------------------
(* The legends. *)

\* Every step keeps a panel fading, or its legends as the pointer wants them.
LEMMA FadeKept ==
    ASSUME TypeOK, FadePending, [Next]_vars
    PROVE  FadePending'
<1> USE DEF FadePending, Target
<1>1. CASE OnMotion
  BY <1>1 DEF OnMotion, StartFade, fade
<1>2. CASE OnLeave
  BY <1>2 DEF OnLeave, StartFade
<1>3. CASE OnFadeTimer
  BY <1>3 DEF OnFadeTimer
<1>4. CASE RebuildPanes
  BY <1>4 DEF RebuildPanes, NewPanel
<1>5. CASE UNCHANGED fade
  BY <1>5 DEF fade
<1>6. OnPaint \/ PressRow \/ PressPlot \/ PressElsewhere \/ OnLeftUp
        \/ ReleaseElsewhere \/ Enter \/ OnRightDown \/ CloseMenu \/ Retrack
        \/ UNCHANGED vars
      => UNCHANGED fade
  BY DEF OnPaint, PressRow, PressPlot, PressElsewhere, OnLeftUp, ReleaseElsewhere,
         Enter, OnRightDown, CloseMenu, Retrack, vars
<1> QED BY <1>1, <1>2, <1>3, <1>4, <1>5, <1>6 DEF Next

\* A panel whose legends are not as the pointer wants them is fading: its timer
\* never stops too early.
THEOREM FadeCorrect == Spec => []FadePending
<1>1. Init => FadePending
  BY DEF Init, FadePending
<1> QED BY <1>1, FadeKept, TypeCorrect, PTL DEF Spec

-----------------------------------------------------------------------------
(* The switches. *)

\* Flipping some members of a set over flips those, and no others.
LEMMA FlippedBack ==
    ASSUME NEW S, NEW D
    PROVE  Flipped(S, Flipped(S, D)) = D
BY DEF Flipped

\* What a click on a row does to the switches of series: those the row was painted
\* for are all on or all off before, and the other way round after.
LEMMA ToggleFlips ==
    ASSUME KindsSwitchTogether, NEW row, row.kind # "process", ToggleRow(row)
    PROVE  LET same == IF ByKind(type) THEN SameKind(row.kind) ELSE {row}
           IN  Flipped(series_off, series_off') = same /\ procs_off' = procs_off
<1> DEFINE same == IF ByKind(type) THEN SameKind(row.kind) ELSE {row}
<1>1. same \subseteq series_off \/ same \cap series_off = {}
  <2>1. CASE ByKind(type)
    <3>1. \A j, k \in same : j \in series_off <=> k \in series_off
      BY <2>1 DEF KindsSwitchTogether, SameKind
    <3> QED BY <3>1
  <2> QED BY <2>1
<1>2. /\ series_off' = IF same \subseteq series_off THEN series_off \ same
                       ELSE series_off \cup same
      /\ procs_off' = procs_off
  BY DEF ToggleRow
<1> HIDE DEF same
<1>3. Flipped(series_off, series_off') = same
  BY <1>1, <1>2 DEF Flipped
<1> QED BY <1>2, <1>3 DEF same

\* A click keeps the series of every kind together.
LEMMA ToggleKeepsKinds ==
    ASSUME KindsSwitchTogether, ByKind(type), NEW row, ToggleRow(row),
           UNCHANGED chart
    PROVE  KindsSwitchTogether'
<1> USE DEF KindsSwitchTogether
<1>1. CASE row.kind = "process"
  BY <1>1 DEF ToggleRow, chart
<1>2. CASE row.kind # "process"
  <2> DEFINE same == SameKind(row.kind)
  <2>1. series_off' = IF same \subseteq series_off THEN series_off \ same
                      ELSE series_off \cup same
    BY <1>2 DEF ToggleRow
  <2>2. \A j, k \in spec : j.kind = k.kind => (j \in same <=> k \in same)
    BY DEF SameKind
  <2> QED BY <2>1, <2>2 DEF chart
<1> QED BY <1>1, <1>2

\* Every step keeps the series of every kind together.
LEMMA KindsStep ==
    ASSUME KindsSwitchTogether, [Next]_vars
    PROVE  KindsSwitchTogether'
<1>1. CASE PressRow
  <2>1. PICK row \in hits : ToggleRow(row)
    BY <1>1 DEF PressRow
  <2>2. UNCHANGED chart
    BY <1>1 DEF PressRow
  <2>3. CASE ByKind(type)
    BY <2>1, <2>2, <2>3, ToggleKeepsKinds
  <2>4. CASE ~ByKind(type)
    BY <2>2, <2>4 DEF KindsSwitchTogether, chart, ByKind
  <2> QED BY <2>3, <2>4
<1>2. CASE RebuildPanes
  BY <1>2 DEF RebuildPanes, NewPanel, KindsSwitchTogether
<1>3. CASE UNCHANGED <<type, spec, series_off>>
  BY <1>3 DEF KindsSwitchTogether, ByKind
<1>4. OnPaint \/ OnMotion \/ OnLeave \/ OnFadeTimer \/ PressPlot \/ PressElsewhere
        \/ OnLeftUp \/ ReleaseElsewhere \/ Enter \/ OnRightDown \/ CloseMenu
        \/ Retrack \/ UNCHANGED vars
      => UNCHANGED <<type, spec, series_off>>
  BY DEF OnPaint, OnMotion, OnLeave, OnFadeTimer, PressPlot, PressElsewhere,
         OnLeftUp, ReleaseElsewhere, Enter, OnRightDown, CloseMenu, Retrack, vars,
         chart, switches
<1> QED BY <1>1, <1>2, <1>3, <1>4 DEF Next

\* The series of one kind are on or off together, whatever rows are clicked.
THEOREM KindsCorrect == Spec => []KindsSwitchTogether
<1>1. Init => KindsSwitchTogether
  BY DEF Init, KindsSwitchTogether
<1> QED BY <1>1, KindsStep, PTL DEF Spec

\* A step by which the switches of a living panel change is a click on a row.
LEMMA OnlyClicksSwitch ==
    ASSUME Next, width' # 0, switches' # switches
    PROVE  PressRow
<1>1. RebuildPanes => width' = 0
  BY DEF RebuildPanes, NewPanel
<1>2. OnPaint \/ OnMotion \/ OnLeave \/ OnFadeTimer \/ PressPlot \/ PressElsewhere
        \/ OnLeftUp \/ ReleaseElsewhere \/ Enter \/ OnRightDown \/ CloseMenu
        \/ Retrack
      => UNCHANGED switches
  BY DEF OnPaint, OnMotion, OnLeave, OnFadeTimer, PressPlot, PressElsewhere,
         OnLeftUp, ReleaseElsewhere, Enter, OnRightDown, CloseMenu, Retrack
<1> QED BY <1>1, <1>2 DEF Next

\* The switches move by a click on a painted row, and that moves what the row was
\* painted for and nothing else.
THEOREM OneRowCorrect == Spec => OneRowAtATime
<1> DEFINE Effect(row) ==
             LET same == IF ByKind(type) THEN SameKind(row.kind) ELSE {row}
             IN  IF row.kind = "process"
                 THEN /\ Flipped(procs_off, procs_off') = {row.pid}
                      /\ series_off' = series_off
                 ELSE /\ Flipped(series_off, series_off') = same
                      /\ procs_off' = procs_off
           Clicked == width' # 0 /\ switches' # switches => \E row \in hits : Effect(row)
<1>1. ASSUME KindsSwitchTogether, [Next]_vars PROVE [Clicked]_vars
  <2> SUFFICES ASSUME Next, width' # 0, switches' # switches
               PROVE  \E row \in hits : Effect(row)
    BY <1>1 DEF vars
  <2>1. PICK row \in hits : ToggleRow(row)
    BY OnlyClicksSwitch DEF PressRow
  <2>2. CASE row.kind = "process"
    <3>1. procs_off' = Flipped(procs_off, {row.pid}) /\ series_off' = series_off
      BY <2>1, <2>2 DEF ToggleRow
    <3>2. Flipped(procs_off, procs_off') = {row.pid}
      BY <3>1, FlippedBack
    <3> QED BY <2>2, <3>1, <3>2
  <2>3. CASE row.kind # "process"
    BY <1>1, <2>1, <2>3, ToggleFlips
  <2> HIDE DEF Effect
  <2> QED BY <2>2, <2>3
<1> HIDE DEF Clicked
<1>2. KindsSwitchTogether /\ [Next]_vars => [Clicked]_vars
  BY <1>1
<1>3. Spec => [][Clicked]_vars
  BY <1>2, KindsCorrect, PTL DEF Spec
<1> QED BY <1>3 DEF OneRowAtATime, Clicked

=============================================================================
