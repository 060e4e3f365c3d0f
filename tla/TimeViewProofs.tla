--------------------------- MODULE TimeViewProofs ---------------------------
(* The safety of the shared time axis for every span limit, window, plot     *)
(* width, pan distance and session length, that a zoom keeps what is under   *)
(* the pointer where it is, and the proof that it implements LiveWindow.     *)
(*                                                                           *)
(* Each method of the struct maps views to views.  The lemmas say what a     *)
(* method returns as a value; the theorems lift them to steps.               *)
EXTENDS TimeView, TLAPS

\* A view before clamp: any edge, any length.
RawView == [session : Nat, end : Int, span : Int, live : BOOLEAN]

\* The conjunction the three safety properties make of a view.
Good(v) ==
    /\ v \in [session : Nat, end : Nat, span : MinSpan..MaxSpan, live : BOOLEAN]
    /\ v.live /\ v.session > 0 => v.end = v.session
    /\ ~v.live => v.span <= v.end /\ v.end < v.session
    /\ v.session > 0 =>
          /\ v.end <= v.session
          /\ v.end < v.span => v.end = v.session

\* The inductive invariant.
IInv == window_ms \in Windows /\ Good(view)

-----------------------------------------------------------------------------
(* What the methods return. *)

\* What clamp makes of any span is a span within the limits.
LEMMA BetweenInLimits ==
    ASSUME NEW x \in Int
    PROVE  Between(x, MinSpan, MaxSpan) \in MinSpan..MaxSpan
BY SpanAssumption DEF Between

\* The fields of a clamped view, each by its own formula.
LEMMA ClampFields ==
    ASSUME NEW v \in RawView
    PROVE  /\ clamp(v) \in [session : Nat, end : Nat,
                            span : MinSpan..MaxSpan, live : BOOLEAN]
           /\ clamp(v).session = v.session
           /\ clamp(v).live = v.live
           /\ v.session = 0 => clamp(v).end >= clamp(v).span
           /\ v.session > 0 =>
                 /\ clamp(v).end <= v.session
                 /\ clamp(v).end < clamp(v).span => clamp(v).end = v.session
                 /\ v.end >= v.session => clamp(v).end = v.session
           /\ v.span \in MinSpan..MaxSpan => clamp(v).span = v.span
<1> DEFINE s == Between(v.span, MinSpan, MaxSpan)
           e == IF v.end < s THEN s ELSE v.end
           c == IF v.session > 0 /\ e > v.session THEN v.session ELSE e
<1>1. /\ v.session \in Nat /\ v.end \in Int /\ v.span \in Int
      /\ v.live \in BOOLEAN
  BY DEF RawView
<1>2. s \in MinSpan..MaxSpan /\ (v.span \in MinSpan..MaxSpan => s = v.span)
  <2>1. s \in MinSpan..MaxSpan
    BY <1>1, BetweenInLimits
  <2>2. v.span \in MinSpan..MaxSpan => s = v.span
    BY SpanAssumption DEF Between
  <2> QED BY <2>1, <2>2
<1>3. clamp(v) = [v EXCEPT !.span = s, !.end = c]
  BY DEF clamp
<1>4. /\ clamp(v).session = v.session /\ clamp(v).live = v.live
      /\ clamp(v).span = s /\ clamp(v).end = c
  BY <1>3 DEF RawView
<1> HIDE DEF s
<1>5. /\ c \in Nat
      /\ v.session = 0 => c >= s
      /\ v.session > 0 => /\ c <= v.session
                          /\ c < s => c = v.session
                          /\ v.end >= v.session => c = v.session
  BY <1>1, <1>2, SpanAssumption
<1>6. clamp(v) \in [session : Nat, end : Nat,
                    span : MinSpan..MaxSpan, live : BOOLEAN]
  BY <1>1, <1>2, <1>3, <1>5 DEF RawView
<1> QED BY <1>2, <1>4, <1>5, <1>6

\* Updates of a raw view's mode and edge, and of its span too.
Moved(v, b, e) == [v EXCEPT !.live = b, !.end = e]
Resized(v, b, n, e) == [v EXCEPT !.live = b, !.span = n, !.end = e]

\* A raw view with another mode and edge is a raw view with these.
LEMMA MovedRaw ==
    ASSUME NEW v \in RawView, NEW b \in BOOLEAN, NEW e \in Int
    PROVE  /\ Moved(v, b, e) \in RawView
           /\ Moved(v, b, e).session = v.session
           /\ Moved(v, b, e).span = v.span
           /\ Moved(v, b, e).live = b
           /\ Moved(v, b, e).end = e
<1> DEFINE w == [v EXCEPT !.live = b]
           f == [w EXCEPT !.end = e]
<1>1. w \in RawView
  BY DEF RawView
<1>2. w.session = v.session /\ w.span = v.span /\ w.live = b
  BY DEF RawView
<1> HIDE DEF w
<1>3. f \in RawView
  BY <1>1 DEF RawView
<1>4. f.session = v.session /\ f.span = v.span /\ f.live = b /\ f.end = e
  BY <1>1, <1>2 DEF RawView
<1>5. f = Moved(v, b, e)
  BY DEF w, Moved
<1> QED BY <1>3, <1>4, <1>5

\* The same with another span.
LEMMA ResizedRaw ==
    ASSUME NEW v \in RawView, NEW b \in BOOLEAN, NEW n \in Int, NEW e \in Int
    PROVE  /\ Resized(v, b, n, e) \in RawView
           /\ Resized(v, b, n, e).session = v.session
           /\ Resized(v, b, n, e).live = b
<1> DEFINE w == [v EXCEPT !.span = n]
<1>1. w \in RawView /\ w.session = v.session
  BY DEF RawView
<1>2. Resized(v, b, n, e) = Moved(w, b, e)
  BY DEF RawView, Resized, Moved
<1> HIDE DEF w
<1> QED BY <1>1, <1>2, MovedRaw

\* A gesture (pan or zoom) clears live, moves the window anywhere, clamps and
\* re-engages: whatever it asked for, the result is a good view.
LEMMA GestureGood ==
    ASSUME NEW v \in RawView, v.live = FALSE
    PROVE  /\ Good(reengage(clamp(v)))
           /\ reengage(clamp(v)).session = v.session
<1> DEFINE c == clamp(v)
<1>1. /\ c \in [session : Nat, end : Nat,
                span : MinSpan..MaxSpan, live : BOOLEAN]
      /\ c.session = v.session
      /\ c.live = FALSE
      /\ v.session > 0 => /\ c.end <= v.session
                          /\ c.end < c.span => c.end = v.session
  BY ClampFields
<1> HIDE DEF c
<1>2. CASE c.end >= c.session
  <2> DEFINE r == [c EXCEPT !.end = c.session, !.live = TRUE]
  <2>1. reengage(c) = r
    BY <1>2 DEF reengage
  <2>2. /\ r \in [session : Nat, end : Nat,
                  span : MinSpan..MaxSpan, live : BOOLEAN]
        /\ r.session = v.session /\ r.end = r.session /\ r.live = TRUE
    BY <1>1
  <2> HIDE DEF r
  <2>3. Good(r)
    BY <2>2 DEF Good
  <2> QED BY <2>1, <2>2, <2>3 DEF c
<1>3. CASE ~(c.end >= c.session)
  <2>1. reengage(c) = c
    BY <1>3 DEF reengage
  <2>2. c.session \in Nat /\ c.end \in Nat /\ c.span \in Nat /\ v.session > 0
    BY <1>1, <1>3, SpanAssumption DEF RawView
  <2>3. Good(c)
    BY <1>1, <1>3, <2>2 DEF Good
  <2> QED BY <1>1, <2>1, <2>3 DEF c
<1> QED BY <1>2, <1>3

\* Moving the edge to the newest sample of a live view and clamping is good.
LEMMA LiveGood ==
    ASSUME NEW v \in RawView, v.live = TRUE, v.end = v.session
    PROVE  /\ Good(clamp(v))
           /\ clamp(v).session = v.session
           /\ clamp(v).live = TRUE
BY ClampFields DEF Good, RawView

-----------------------------------------------------------------------------
(* Each handler, from a good view. *)

\* Setting the capture window on a live view gives a good one.
LEMMA SetCaptureWindowGood ==
    ASSUME NEW v \in RawView, v.live = TRUE, NEW w \in Int
    PROVE  /\ Good(set_capture_window(v, w))
           /\ set_capture_window(v, w).session = v.session
<1> DEFINE u == [v EXCEPT !.span = IF w < MinSpan THEN MinSpan ELSE w]
           f == [u EXCEPT !.end = u.session]
<1>1. u \in RawView /\ u.live = TRUE /\ u.session = v.session
  BY SpanAssumption DEF RawView
<1> HIDE DEF u
<1>2. f \in RawView /\ f.live = TRUE /\ f.end = f.session
      /\ f.session = v.session
  BY <1>1 DEF RawView
<1>3. set_capture_window(v, w) = clamp(f)
  BY <1>1 DEF set_capture_window, follow, u
<1> HIDE DEF f
<1> QED BY <1>2, <1>3, LiveGood

\* The reset of a paused view first clamps it where it is; reset_live then
\* moves it to the edge.
LEMMA ResetLiveGood ==
    ASSUME NEW v \in RawView
    PROVE  /\ Good(reset_live(v))
           /\ reset_live(v).session = v.session
<1> DEFINE f == [v EXCEPT !.live = TRUE, !.end = v.session]
<1>1. f \in RawView /\ f.live = TRUE /\ f.end = f.session
      /\ f.session = v.session
  <2>1. v.session \in Int /\ f = Moved(v, TRUE, v.session)
    BY DEF RawView, Moved
  <2> HIDE DEF f
  <2>2. /\ f \in RawView
        /\ f.session = v.session
        /\ f.live = TRUE
        /\ f.end = v.session
    <3>1. TRUE \in BOOLEAN
      OBVIOUS
    <3> QED BY <2>1, <3>1, MovedRaw, Zenon
  <2> QED BY <2>2
<1>2. reset_live(v) = clamp(f)
  BY DEF reset_live
<1> HIDE DEF f
<1> QED BY <1>1, <1>2, LiveGood

\* Setting it on any view keeps the view a view, of the same session.
LEMMA SetCaptureWindowRaw ==
    ASSUME NEW v \in RawView, NEW w \in Int
    PROVE  /\ set_capture_window(v, w) \in RawView
           /\ set_capture_window(v, w).session = v.session
<1> DEFINE u == [v EXCEPT !.span = IF w < MinSpan THEN MinSpan ELSE w]
<1>1. u \in RawView /\ u.session = v.session
  BY SpanAssumption DEF RawView
<1> HIDE DEF u
<1>2. follow(u) \in RawView /\ follow(u).session = v.session
  BY <1>1 DEF RawView, follow
<1>3. set_capture_window(v, w) = clamp(follow(u))
  BY DEF set_capture_window, u
<1>4. clamp(follow(u)).session = v.session
      /\ clamp(follow(u)) \in [session : Nat, end : Nat,
                               span : MinSpan..MaxSpan, live : BOOLEAN]
  BY <1>2, ClampFields
<1> QED BY <1>3, <1>4, SpanAssumption DEF RawView

\* A sample keeps a good view good, keeps its mode and span, and moves its
\* edge only if it is live.
LEMMA OnSampleGood ==
    ASSUME NEW v, Good(v), NEW t \in Nat, t >= v.session
    PROVE  /\ Good(on_sample(v, t))
           /\ on_sample(v, t).session = t
           /\ on_sample(v, t).live = v.live
           /\ on_sample(v, t).span = v.span
           /\ ~v.live => on_sample(v, t).end = v.end
<1> DEFINE u == [v EXCEPT !.session = IF t > v.session THEN t ELSE v.session]
           f == [u EXCEPT !.end = u.session]
<1>1. v \in [session : Nat, end : Nat, span : MinSpan..MaxSpan, live : BOOLEAN]
  BY DEF Good
<1>2. /\ u \in RawView /\ u.session = t /\ u.live = v.live
      /\ u.end = v.end /\ u.span = v.span
  BY <1>1, SpanAssumption DEF RawView
<1>3. on_sample(v, t) = clamp(follow(u))
  BY DEF on_sample
<1> HIDE DEF u
<1>4. CASE v.live
  <2>1. /\ f \in RawView /\ f.live = TRUE /\ f.end = f.session
        /\ f.session = t /\ f.span = v.span
    <3>1. f \in RawView
      BY <1>1, <1>2, <1>4 DEF RawView
    <3>2. f.live = TRUE
      BY <1>1, <1>2, <1>4 DEF RawView
    <3>3. f.end = f.session /\ f.session = t /\ f.span = v.span
      BY <1>1, <1>2 DEF RawView
    <3> QED BY <3>1, <3>2, <3>3
  <2>2. follow(u) = f
    BY <1>2, <1>4 DEF follow
  <2> HIDE DEF f
  <2>3. Good(clamp(f)) /\ clamp(f).session = t /\ clamp(f).live = TRUE
    BY <2>1, LiveGood
  <2>4. clamp(f).span = v.span
    BY <1>1, <2>1, ClampFields
  <2> QED BY <1>1, <1>3, <1>4, <2>2, <2>3, <2>4
<1>5. CASE ~v.live
  <2>1. follow(u) = u
    BY <1>2, <1>5 DEF follow
  <2>2. v.span <= v.end /\ v.end < v.session
    BY <1>5 DEF Good
  <2>3. u.session = t /\ u.end < u.session /\ u.span <= u.end
    BY <1>1, <1>2, <2>2
  <2>4. clamp(u) = u
    <3>1. Between(u.span, MinSpan, MaxSpan) = u.span
      BY <1>1, <1>2, SpanAssumption DEF Between
    <3>2. u.end \in Int /\ u.span \in Int /\ u.session \in Int
      BY <1>2 DEF RawView
    <3>3. /\ (IF u.end < u.span THEN u.span ELSE u.end) = u.end
          /\ ~(u.session > 0 /\ u.end > u.session)
      BY <2>3, <3>2
    <3>4. clamp(u) = [u EXCEPT !.span = u.span, !.end = u.end]
      BY <3>1, <3>3, Zenon DEF clamp
    <3> QED BY <1>2, <3>4 DEF RawView
  <2>5. Good(u)
    BY <1>1, <1>2, <1>5, <2>3, SpanAssumption DEF Good, RawView
  <2> QED BY <1>2, <1>3, <2>1, <2>4, <2>5
<1> QED BY <1>4, <1>5

\* A drag of any length gives a good view.
LEMMA PanGood ==
    ASSUME NEW v, Good(v), NEW delta \in Int
    PROVE  /\ Good(pan_ms(v, delta))
           /\ pan_ms(v, delta).session = v.session
<1> DEFINE u == [v EXCEPT !.live = FALSE, !.end = @ + delta]
<1>1. u \in RawView /\ u.live = FALSE /\ u.session = v.session
  <2>1. v \in RawView /\ v.end + delta \in Int
    BY SpanAssumption DEF Good, RawView
  <2>2. u = Moved(v, FALSE, v.end + delta)
    BY DEF Moved
  <2> HIDE DEF u
  <2> QED BY <2>1, <2>2, MovedRaw
<1>2. pan_ms(v, delta) = reengage(clamp(u))
  BY DEF pan_ms
<1> HIDE DEF u
<1> QED BY <1>1, <1>2, GestureGood

\* Every truncation of a quotient is an integer.
LEMMA TruncationsInt ==
    ASSUME NEW n \in Int, NEW d \in Nat \ {0}
    PROVE  Truncations(n, d) \subseteq Int
<1>1. (n \div d) \in Int
  OBVIOUS
<1> QED BY <1>1 DEF Truncations

\* Zooming gives a span within the limits.
LEMMA ZoomedSpanInt ==
    ASSUME NEW n \in MinSpan..MaxSpan, NEW f \in Factors
    PROVE  zoomed_span(n, f) \in MinSpan..MaxSpan
<1>1. /\ n \in Int
      /\ f.num \in Int /\ f.den \in Nat \ {0}
  BY SpanAssumption DEF Factors
<1>2. (2 * n * f.num + f.den) \in Int /\ (2 * f.den) \in Nat \ {0}
  BY <1>1
<1>3. (2 * n * f.num + f.den) \div (2 * f.den) \in Int
  BY <1>2
<1> QED BY <1>3, BetweenInLimits DEF zoomed_span

\* What zooming puts to the right of the anchor is an integer.
LEMMA RightOfAnchorInt ==
    ASSUME NEW v, Good(v), NEW anchor \in Int, NEW new \in Int
    PROVE  RightOfAnchor(v, anchor, new) \subseteq Int
<1> DEFINE a == Between(anchor - view_start(v), 0, v.span)
<1>1. v.end \in Nat /\ v.span \in Nat \ {0}
  BY SpanAssumption DEF Good
<1>2. view_start(v) \in Int
  BY <1>1 DEF view_start
<1>3. a \in Int
  BY <1>1, <1>2 DEF Between
<1> HIDE DEF a
<1>4. (v.span - a) * new \in Int
  BY <1>1, <1>3
<1>5. Truncations((v.span - a) * new, v.span) \subseteq Int
  BY <1>1, <1>4, TruncationsInt
<1>6. RightOfAnchor(v, anchor, new) =
        CASE a = 0      -> {new}
          [] a = v.span -> {0}
          [] OTHER      -> Truncations((v.span - a) * new, v.span)
  BY DEF RightOfAnchor, a
<1> QED BY <1>5, <1>6

\* The pointer is always taken for an integer time.
LEMMA TimeAtXInt ==
    ASSUME NEW v, Good(v), NEW x \in 0..PlotWidth
    PROVE  time_at_x(v, x) \subseteq Int
<1>1. v.end \in Nat /\ v.span \in Nat
  BY SpanAssumption DEF Good
<1>2. view_start(v) \in Int
  BY <1>1 DEF view_start
<1>3. (2 * x * v.span + PlotWidth) \in Int /\ (2 * PlotWidth) \in Nat \ {0}
  BY <1>1, InputAssumption
<1>4. Truncations(2 * x * v.span + PlotWidth, 2 * PlotWidth) \subseteq Int
  BY <1>3, TruncationsInt
<1> QED BY <1>2, <1>4 DEF time_at_x

\* A turn of the wheel, anywhere, gives a good view.
LEMMA ZoomGood ==
    ASSUME NEW v, Good(v), NEW anchor \in Int, NEW f \in Factors,
           NEW z \in zoom_at(v, anchor, f)
    PROVE  Good(z) /\ z.session = v.session
<1> DEFINE new == zoomed_span(v.span, f)
<1>1. v \in RawView /\ v.span \in MinSpan..MaxSpan
  BY SpanAssumption DEF Good, RawView
<1>2. new \in Int
  BY <1>1, ZoomedSpanInt, SpanAssumption
<1>3. PICK right \in RightOfAnchor(v, anchor, new) :
        z = reengage(clamp([v EXCEPT !.live = FALSE, !.span = new,
                                     !.end = anchor + right]))
  BY DEF zoom_at
<1> HIDE DEF new
<1>4. anchor + right \in Int
  BY <1>2, <1>3, RightOfAnchorInt
<1>5. z = reengage(clamp(Resized(v, FALSE, new, anchor + right)))
  BY <1>3 DEF Resized
<1>6. /\ Resized(v, FALSE, new, anchor + right) \in RawView
      /\ Resized(v, FALSE, new, anchor + right).session = v.session
      /\ Resized(v, FALSE, new, anchor + right).live = FALSE
  BY <1>1, <1>2, <1>4, ResizedRaw, ZenonT(30)
<1> QED BY <1>5, <1>6, GestureGood

-----------------------------------------------------------------------------
(* Steps. *)

\* A new view with the capture window set is good, and empty.
LEMMA FreshViewGood ==
    ASSUME NEW w \in Windows
    PROVE  /\ Good(set_capture_window(FreshView, w))
           /\ set_capture_window(FreshView, w).session = 0
<1>1. FreshView \in RawView /\ FreshView.live = TRUE /\ FreshView.session = 0
  BY SpanAssumption DEF FreshView, RawView
<1>2. w \in Int
  BY InputAssumption
<1> HIDE DEF FreshView
<1> QED BY <1>1, <1>2, SetCaptureWindowGood

\* The view is its four variables.
LEMMA ViewFields ==
    /\ view.session = session_t_max /\ view.end = view_end
    /\ view.span = view_span /\ view.live = follow_live
BY DEF view

\* Showing a good view makes it the next one.
LEMMA ShowGood ==
    ASSUME NEW v, Good(v), Show(v)
    PROVE  view' = v
<1>1. v = [session |-> v.session, end |-> v.end,
           span |-> v.span, live |-> v.live]
  BY DEF Good
<1> QED BY <1>1 DEF Show, view

\* The program starts with a good view.
LEMMA InitGood == Init => IInv
<1> SUFFICES ASSUME Init PROVE IInv
  OBVIOUS
<1> DEFINE v == set_capture_window(FreshView, window_ms)
<1>1. window_ms \in Windows
  BY DEF Init
<1>2. Good(v)
  BY <1>1, FreshViewGood
<1>3. view = [session |-> v.session, end |-> v.end,
              span |-> v.span, live |-> v.live]
  BY DEF Init, view
<1> HIDE DEF v
<1>4. view = v
  BY <1>2, <1>3 DEF Good
<1> QED BY <1>1, <1>2, <1>4 DEF IInv

\* What one step of the program does to the view, whoever takes it.
BySample ==
    /\ session_t_max' >= session_t_max
    /\ follow_live' = follow_live
    /\ view_span' = view_span
    /\ ~follow_live => view_end' = view_end

ByGesture == session_t_max' = session_t_max

ByClear == session_t_max' = 0

\* Every handler keeps the view good, and is a sample, a gesture or a clear.
LEMMA StepGood ==
    ASSUME IInv, Next
    PROVE  /\ IInv'
           /\ BySample \/ ByGesture \/ ByClear
<1>1. Good(view) /\ window_ms \in Windows
  BY DEF IInv
<1>2. session_t_max \in Nat /\ window_ms \in Int /\ view \in RawView
  BY <1>1, ViewFields, SpanAssumption, InputAssumption DEF Good, RawView
<1>3. ASSUME NEW v, Good(v), Show(v)
      PROVE  IInv' /\ session_t_max' = v.session
  BY <1>1, <1>3, ShowGood DEF IInv, Show
<1>4. CASE Sample
  <2>1. PICK t \in session_t_max..MaxTime : Show(on_sample(view, t))
    BY <1>4 DEF Sample
  <2>2. t \in Nat /\ t >= view.session
    BY <1>2, <2>1, InputAssumption, ViewFields
  <2> DEFINE v == on_sample(view, t)
  <2>3. /\ Good(v) /\ v.session = t /\ v.live = follow_live
        /\ v.span = view_span /\ (~follow_live => v.end = view_end)
    BY <1>1, <2>2, OnSampleGood, ViewFields
  <2> HIDE DEF v
  <2>4. Show(v)
    BY <2>1 DEF v
  <2>5. IInv'
    BY <1>3, <2>3, <2>4
  <2>6. BySample
    BY <1>2, <2>2, <2>3, <2>4, ViewFields DEF BySample, Show
  <2> QED BY <2>5, <2>6
<1>5. CASE Drag
  <2>1. PICK delta \in PanDeltas : Show(pan_ms(view, delta))
    BY <1>5 DEF Drag
  <2>2. Good(pan_ms(view, delta)) /\ pan_ms(view, delta).session = session_t_max
    BY <1>1, PanGood, ViewFields, InputAssumption
  <2> QED BY <1>3, <2>1, <2>2 DEF ByGesture
<1>6. CASE Wheel
  <2>1. PICK x \in 0..PlotWidth, f \in Factors :
          \E anchor \in time_at_x(view, x) :
            \E v \in zoom_at(view, anchor, f) : Show(v)
    BY <1>6 DEF Wheel
  <2>2. PICK anchor \in time_at_x(view, x) :
          \E v \in zoom_at(view, anchor, f) : Show(v)
    BY <2>1
  <2>3. PICK v \in zoom_at(view, anchor, f) : Show(v)
    BY <2>2
  <2>4. anchor \in Int
    BY <1>1, TimeAtXInt
  <2>5. Good(v) /\ v.session = session_t_max
    BY <1>1, <2>4, ZoomGood, ViewFields
  <2> QED BY <1>3, <2>3, <2>5 DEF ByGesture
<1>7. CASE OnResetView
  <2> DEFINE u == set_capture_window(view, window_ms)
  <2>1. u \in RawView /\ u.session = session_t_max
    BY <1>2, SetCaptureWindowRaw, ViewFields
  <2>2. Show(reset_live(u))
    BY <1>7 DEF OnResetView
  <2> HIDE DEF u
  <2>3. Good(reset_live(u)) /\ reset_live(u).session = session_t_max
    BY <2>1, ResetLiveGood
  <2> QED BY <1>3, <2>2, <2>3 DEF ByGesture
<1>8. CASE ContextResetView
  <2>1. Show(reset_live(view))
    BY <1>8 DEF ContextResetView
  <2>2. Good(reset_live(view)) /\ reset_live(view).session = session_t_max
    BY <1>2, ResetLiveGood, ViewFields
  <2> QED BY <1>3, <2>1, <2>2 DEF ByGesture
<1>9. CASE OnClearHistory
  <2>1. Show(set_capture_window(FreshView, window_ms))
    BY <1>9 DEF OnClearHistory
  <2>2. /\ Good(set_capture_window(FreshView, window_ms))
        /\ set_capture_window(FreshView, window_ms).session = 0
    BY <1>1, FreshViewGood
  <2> QED BY <1>3, <2>1, <2>2 DEF ByClear
<1> QED BY <1>4, <1>5, <1>6, <1>7, <1>8, <1>9 DEF Next

\* Nothing else moves the view.
LEMMA StutterGood ==
    ASSUME IInv, UNCHANGED vars
    PROVE  IInv'
<1>1. view' = view /\ window_ms' = window_ms
  BY DEF vars, view
<1> QED BY <1>1 DEF IInv

-----------------------------------------------------------------------------
(* Theorems. *)

\* The invariant behind the rest: whatever sequence of samples, drags, wheel
\* turns, resets and clears, the view is a good one.
THEOREM ViewInvariant == Spec => []IInv
<1>1. Init => IInv
  BY InitGood
<1>2. IInv /\ [Next]_vars => IInv'
  BY StepGood, StutterGood
<1> QED BY <1>1, <1>2, PTL DEF Spec

\* The fields stay in range and the span within its limits.
THEOREM TypeCorrect == Spec => []TypeOK
<1>1. IInv => TypeOK
  BY ViewFields DEF IInv, Good, TypeOK
<1> QED BY <1>1, ViewInvariant, PTL

\* A live view shows the newest sample at its right edge.
THEOREM LiveEdge == Spec => []LiveShowsNewest
<1>1. IInv => LiveShowsNewest
  BY ViewFields DEF IInv, Good, LiveShowsNewest
<1> QED BY <1>1, ViewInvariant, PTL

\* A paused view is a full window strictly behind the newest sample.
THEOREM PausedEdge == Spec => []PausedIsFullAndBehind
<1>1. IInv => PausedIsFullAndBehind
  BY ViewFields DEF IInv, Good, PausedIsFullAndBehind
<1> QED BY <1>1, ViewInvariant, PTL

\* The variables of a good view are natural numbers and a mode.
LEMMA NatView ==
    ASSUME IInv
    PROVE  /\ session_t_max \in Nat /\ view_end \in Nat
           /\ view_span \in MinSpan..MaxSpan /\ view_span \in Nat
           /\ follow_live \in BOOLEAN
BY ViewFields, SpanAssumption DEF IInv, Good

\* A sample leaves a paused view where it is, and changes no view's mode.
THEOREM SampleKeeps == Spec => SampleKeepsView
<1>1. ASSUME IInv, [Next]_vars, session_t_max' > session_t_max
      PROVE  /\ follow_live' = follow_live
             /\ view_span' = view_span
             /\ ~follow_live => view_end' = view_end
  <2>1. session_t_max \in Nat
    BY <1>1, NatView
  <2>2. CASE UNCHANGED vars
    BY <1>1, <2>1, <2>2 DEF vars
  <2>3. CASE Next
    <3>1. BySample \/ ByGesture \/ ByClear
      BY <1>1, <2>3, StepGood
    <3>2. ~ByGesture /\ ~ByClear
      BY <1>1, <2>1 DEF ByGesture, ByClear
    <3> QED BY <3>1, <3>2 DEF BySample
  <2> QED BY <1>1, <2>2, <2>3
<1>2. IInv /\ [Next]_vars =>
        [session_t_max' > session_t_max =>
            /\ follow_live' = follow_live
            /\ view_span' = view_span
            /\ ~follow_live => view_end' = view_end]_vars
  BY <1>1
<1> QED BY <1>2, ViewInvariant, PTL DEF Spec, SampleKeepsView

-----------------------------------------------------------------------------
(* Zoom keeps what is under the pointer where it is. *)

\* A natural number is divided with a remainder below the divisor.
LEMMA Division ==
    ASSUME NEW n \in Nat, NEW d \in Nat \ {0}
    PROVE  n \div d \in Nat /\ n = d * (n \div d) + (n % d) /\ n % d \in 0..(d-1)
OBVIOUS

\* A truncated quotient is at most one unit short, never long.
LEMMA TruncationError ==
    ASSUME NEW n \in Nat, NEW d \in Nat \ {0}, NEW q \in Truncations(n, d)
    PROVE  q \in Nat /\ n - q * d \in 0..d
<1> DEFINE e == n \div d
           r == n % d
<1>1. e \in Nat /\ r \in 0..(d-1) /\ n = d * e + r
  BY Division
<1>2. q = e \/ (n > 0 /\ r = 0 /\ q = e - 1)
  BY DEF Truncations
<1> HIDE DEF e, r
<1>3. d * e \in Nat /\ d * e = e * d
  BY <1>1
<1>4. CASE q = e
  BY <1>1, <1>3, <1>4
<1>5. CASE n > 0 /\ r = 0 /\ q = e - 1
  <2>1. e # 0
    <3> SUFFICES ASSUME e = 0 PROVE FALSE
      OBVIOUS
    <3> QED BY <1>1, <1>5
  <2>2. q \in Nat /\ q * d = e * d - d
    BY <1>1, <1>5, <2>1
  <2> QED BY <1>1, <1>3, <1>5, <2>2
<1> QED BY <1>2, <1>4, <1>5

\* A pointer within the plot is never taken for a time outside the window.
LEMMA TimeAtXInWindow ==
    ASSUME NEW v, Good(v), NEW x \in 0..PlotWidth, NEW anchor \in time_at_x(v, x)
    PROVE  anchor - view_start(v) \in 0..v.span
<1> DEFINE start == view_start(v)
           n == 2 * x * v.span + PlotWidth
           d == 2 * PlotWidth
<1>1. v.end \in Nat /\ v.span \in Nat
  BY SpanAssumption DEF Good
<1>2. start \in Int
  BY <1>1 DEF view_start
<1>3. PICK m \in IF x = 0 THEN {0} ELSE Truncations(n, d) : anchor = start + m
  BY DEF time_at_x
<1> HIDE DEF start
<1>4. CASE x = 0
  BY <1>1, <1>2, <1>3, <1>4 DEF start
<1>5. CASE x # 0
  <2>1. n \in Nat /\ d \in Nat \ {0} /\ x \in Nat /\ PlotWidth \in Nat \ {0}
    BY <1>1, InputAssumption
  <2> HIDE DEF n, d
  <2>2. m \in Nat /\ n - m * d \in 0..d
    BY <1>3, <1>5, <2>1, TruncationError
  <2>3. m <= v.span
    <3> SUFFICES ASSUME m >= v.span + 1 PROVE FALSE
      BY <1>1, <2>2
    <3> DEFINE S == v.span
               P == PlotWidth
    <3>1. S \in Nat /\ P \in Nat \ {0} /\ x <= P /\ m >= S + 1
      BY <1>1, <2>1
    <3>2. n = 2 * (x * S) + P /\ d = 2 * P
      BY <2>1, <3>1 DEF n, d
    <3> HIDE DEF S, P
    <3>3. x * S <= P * S /\ x * S \in Nat /\ P * S \in Nat
      BY <2>1, <3>1
    <3>4. m * (2 * P) >= (S + 1) * (2 * P)
      BY <2>2, <3>1
    <3>5. (S + 1) * (2 * P) = 2 * (P * S) + 2 * P
      BY <3>1
    <3>6. m * (2 * P) \in Nat /\ n - m * (2 * P) >= 0
      BY <2>1, <2>2, <3>1, <3>2
    <3> QED BY <3>1, <3>2, <3>3, <3>4, <3>5, <3>6
  <2> QED BY <1>1, <1>2, <1>3, <2>2, <2>3 DEF start
<1> QED BY <1>4, <1>5

\* What is put to the right of an anchor in the window is its old share of it.
LEMMA RightOfAnchorShare ==
    ASSUME NEW v, Good(v), NEW anchor \in Int, NEW new \in Nat,
           anchor - view_start(v) \in 0..v.span,
           NEW right \in RightOfAnchor(v, anchor, new)
    PROVE  /\ right \in Int
           /\ (view_start(v) + v.span - anchor) * new - right * v.span
                  \in 0..v.span
<1> DEFINE a == anchor - view_start(v)
           S == v.span
<1>1. v.end \in Nat /\ S \in Nat \ {0}
  BY SpanAssumption DEF Good
<1>2. view_start(v) \in Int
  BY <1>1 DEF view_start
<1>3. a \in 0..S /\ view_start(v) + v.span - anchor = S - a
  BY <1>1, <1>2
<1>4. Between(anchor - view_start(v), 0, v.span) = a
  BY <1>1, <1>3 DEF Between
<1>5. right \in CASE a = 0 -> {new}
                  [] a = S -> {0}
                  [] OTHER -> Truncations((S - a) * new, S)
  BY <1>4 DEF RightOfAnchor
<1> SUFFICES right \in Int /\ (S - a) * new - right * S \in 0..S
  BY <1>3
<1> HIDE DEF a, S
<1>6. CASE a = 0
  <2>1. right = new /\ (S - a) * new = right * S /\ right * S \in Int
    BY <1>1, <1>5, <1>6
  <2> QED BY <1>1, <2>1
<1>7. CASE a # 0 /\ a = S
  <2>1. right = 0 /\ (S - a) * new = 0 /\ right * S = 0
    BY <1>1, <1>5, <1>7
  <2> QED BY <1>1, <2>1
<1>8. CASE a # 0 /\ a # S
  <2>1. right \in Truncations((S - a) * new, S)
    BY <1>5, <1>8
  <2>2. (S - a) * new \in Nat
    BY <1>1, <1>3
  <2> QED BY <1>1, <2>1, <2>2, TruncationError
<1> QED BY <1>6, <1>7, <1>8

\* A gesture that ends neither at the live edge nor pushed back to zero has left
\* the window where it was asked to be.
LEMMA GestureUncut ==
    ASSUME NEW v \in RawView, v.live = FALSE, v.span \in MinSpan..MaxSpan,
           NEW z, z = reengage(clamp(v)), ~z.live, z.end > z.span
    PROVE  z.end = v.end /\ z.span = v.span
<1> DEFINE s == Between(v.span, MinSpan, MaxSpan)
           e == IF v.end < s THEN s ELSE v.end
           c == IF v.session > 0 /\ e > v.session THEN v.session ELSE e
           k == clamp(v)
<1>1. v.session \in Nat /\ v.end \in Int /\ v.span \in Int
  BY DEF RawView
<1>2. s = v.span
  BY <1>1, SpanAssumption DEF Between
<1>3. /\ k.session = v.session /\ k.span = v.span /\ k.end = c
      /\ k \in [session : Nat, end : Nat, span : MinSpan..MaxSpan, live : BOOLEAN]
  <2>1. k = [v EXCEPT !.span = s, !.end = c]
    BY DEF clamp
  <2>2. k.session = v.session /\ k.span = s /\ k.end = c
    BY <2>1 DEF RawView
  <2> QED BY <1>2, <2>2, ClampFields
<1>4. z = reengage(k)
  OBVIOUS
<1> HIDE DEF k
<1>5. ~(k.end >= k.session) /\ z = k
  <2>1. k.end >= k.session => reengage(k) = [k EXCEPT !.end = k.session, !.live = TRUE]
    BY DEF reengage
  <2>2. k.end >= k.session => reengage(k).live = TRUE
    BY <1>3, <2>1
  <2> QED BY <1>4, <2>2 DEF reengage
<1> HIDE DEF s
<1> QED BY <1>1, <1>2, <1>3, <1>5

\* Wherever the wheel turns, the time under the pointer keeps its share of the
\* window, unless the window ends at the live edge or is pushed back to zero.
THEOREM ZoomCorrect == Spec => []ZoomKeepsAnchor
<1>1. ASSUME IInv PROVE ZoomKeepsAnchor
  <2> SUFFICES ASSUME NEW x \in 0..PlotWidth, NEW f \in Factors,
                      NEW anchor \in time_at_x(view, x),
                      NEW z \in zoom_at(view, anchor, f),
                      ~z.live, z.end > z.span
               PROVE  (view_start(view) + view_span - anchor) * z.span
                        - (z.end - anchor) * view_span \in 0..view_span
    BY DEF ZoomKeepsAnchor
  <2> DEFINE v == view
             new == zoomed_span(v.span, f)
  <2>1. Good(v) /\ v.span = view_span /\ view_span \in Nat
    BY <1>1, ViewFields, NatView DEF IInv
  <2>2. v \in RawView /\ v.span \in MinSpan..MaxSpan /\ view_start(v) \in Int
    <3>1. v \in RawView /\ v.span \in MinSpan..MaxSpan /\ v.end \in Nat
      BY <2>1, SpanAssumption DEF Good, RawView
    <3> QED BY <2>1, <3>1 DEF view_start
  <2>3. new \in MinSpan..MaxSpan /\ new \in Nat
    BY <2>2, ZoomedSpanInt, SpanAssumption
  <2>4. anchor \in Int /\ anchor - view_start(v) \in 0..v.span
    BY <2>1, TimeAtXInt, TimeAtXInWindow
  <2>5. PICK right_part \in RightOfAnchor(v, anchor, new) :
           z = reengage(clamp([v EXCEPT !.live = FALSE, !.span = new,
                                        !.end = anchor + right_part]))
    BY DEF zoom_at
  <2> HIDE DEF v, new
  <2>6. /\ right_part \in Int
        /\ (view_start(v) + v.span - anchor) * new - right_part * v.span
              \in 0..v.span
    BY <2>1, <2>3, <2>4, <2>5, RightOfAnchorShare
  <2> DEFINE u == Resized(v, FALSE, new, anchor + right_part)
  <2>7. /\ u \in RawView /\ u.live = FALSE
        /\ u.span = new /\ u.end = anchor + right_part
    <3>1. anchor + right_part \in Int /\ new \in Int
      BY <2>3, <2>4, <2>6
    <3>2. u \in RawView /\ u.live = FALSE
      BY <2>2, <3>1, ResizedRaw
    <3>3. u.span = new /\ u.end = anchor + right_part
      BY <2>2 DEF Resized, RawView
    <3> QED BY <3>2, <3>3
  <2>8. z = reengage(clamp(u))
    BY <2>5 DEF Resized
  <2> HIDE DEF u
  <2>9. z.end = anchor + right_part /\ z.span = new
    BY <2>3, <2>7, <2>8, GestureUncut
  <2>10. z.end - anchor = right_part
    BY <2>4, <2>6, <2>9
  <2> QED BY <2>1, <2>6, <2>9, <2>10 DEF v
<1> QED BY <1>1, ViewInvariant, PTL

-----------------------------------------------------------------------------
(* The refinement.  Each step of the time axis is a step of LiveWindow. *)

right == IF session_t_max = 0 THEN 0 ELSE view_end
mode  == IF follow_live THEN "live" ELSE "paused"

LEMMA GoodIsLiveOrPaused ==
    IInv => /\ right \in Nat
            /\ view_span \in MinSpan..MaxSpan
            /\ follow_live => right = session_t_max
            /\ ~follow_live => view_span <= right /\ right < session_t_max
            /\ session_t_max = 0 => follow_live
BY NatView, ViewFields DEF IInv, Good, right

\* The same of the next state, which the prover does not derive by itself.
LEMMA NextGoodIsLiveOrPaused ==
    IInv' => /\ right' \in Nat
             /\ session_t_max' \in Nat
             /\ view_span' \in MinSpan..MaxSpan
             /\ follow_live' => right' = session_t_max'
             /\ ~follow_live' =>
                    view_span' <= right' /\ right' < session_t_max'
             /\ session_t_max' = 0 => follow_live'
BY SpanAssumption DEF IInv, Good, view, right

\* The program starts as the promise does.
LEMMA InitIsInit == Init => Promise!Init
<1>1. Init => session_t_max = 0 /\ IInv
  <2>1. Init => session_t_max = 0
    BY FreshViewGood DEF Init
  <2> QED BY <2>1, InitGood
<1>2. session_t_max = 0 /\ IInv => Promise!Init
  BY GoodIsLiveOrPaused DEF Promise!Init, Promise!Live, right
<1> QED BY <1>1, <1>2

\* A gesture may leave any live or paused window.
LEMMA GestureIsLook ==
    ASSUME IInv', ByGesture
    PROVE  Promise!Look
<1>1. /\ right' \in Nat
      /\ view_span' \in MinSpan..MaxSpan
      /\ follow_live' => right' = session_t_max'
      /\ ~follow_live' => view_span' <= right' /\ right' < session_t_max'
  BY NextGoodIsLiveOrPaused
<1>2. /\ view_span' \in MinSpan..MaxSpan
      /\ right' \in Nat
      /\ mode' \in {"live", "paused"}
      /\ \/ mode' = "live" /\ right' = session_t_max'
         \/ mode' = "paused" /\ view_span' <= right' /\ right' < session_t_max'
      /\ session_t_max' = session_t_max
  BY <1>1 DEF ByGesture, mode
<1> QED BY <1>2 DEF Promise!Look, Promise!Live, Promise!Paused, right, mode

\* Clearing the history starts over, live.
LEMMA ClearIsStartOver ==
    ASSUME IInv', ByClear
    PROVE  Promise!StartOver
<1>1. /\ view_span' \in MinSpan..MaxSpan
      /\ follow_live' => right' = session_t_max'
      /\ session_t_max' = 0 => follow_live'
  BY NextGoodIsLiveOrPaused
<1> QED BY <1>1 DEF ByClear, Promise!StartOver, Promise!Live, right

\* A sample at a new time arrives; one at the same time changes nothing the
\* user was promised.
LEMMA SampleIsArrive ==
    ASSUME IInv, IInv', BySample
    PROVE  Promise!Arrive \/ UNCHANGED Promise!vars
<1>1. /\ right' \in Nat
      /\ follow_live' => right' = session_t_max'
      /\ session_t_max' \in Nat
  BY NextGoodIsLiveOrPaused
<1>2. /\ follow_live => right = session_t_max
      /\ ~follow_live => right < session_t_max
      /\ session_t_max \in Nat
  BY GoodIsLiveOrPaused, NatView
<1>3. ~follow_live => right' = right
  BY <1>1, <1>2, NatView DEF BySample, right
<1>4. CASE session_t_max' = session_t_max
  <2>1. right' = right
    BY <1>1, <1>2, <1>3, <1>4 DEF BySample
  <2> QED BY <1>4, <2>1 DEF Promise!vars, BySample, right
<1>5. CASE session_t_max' > session_t_max
  BY <1>1, <1>2, <1>3, <1>5 DEF Promise!Arrive, BySample, right
<1> QED BY <1>1, <1>2, <1>4, <1>5 DEF BySample

\* The time axis keeps the promise of LiveWindow.
THEOREM KeepsPromise == Spec => ImplementsLiveWindow
<1>1. Init => Promise!Init
  BY InitIsInit
<1>2. IInv /\ IInv' /\ [Next]_vars => [Promise!Next]_(Promise!vars)
  <2>1. ASSUME IInv, IInv', Next
        PROVE  Promise!Next \/ UNCHANGED Promise!vars
    <3>1. BySample \/ ByGesture \/ ByClear
      BY <2>1, StepGood
    <3> QED BY <2>1, <3>1, SampleIsArrive, GestureIsLook, ClearIsStartOver
            DEF Promise!Next
  <2>2. UNCHANGED vars => UNCHANGED Promise!vars
    BY DEF vars, Promise!vars
  <2> QED BY <2>1, <2>2
<1> QED BY <1>1, <1>2, ViewInvariant, PTL
        DEF Spec, ImplementsLiveWindow, Promise!Spec

=============================================================================
