---------------------------- MODULE EpaperFrame ----------------------------
(***************************************************************************)
(* The e-paper drawing path of display_ui.c and epaper.c: full refreshes,  *)
(* changed-area refreshes against the frame retained in RTC memory, and    *)
(* the partial refreshes that show and clear the touch acknowledgement.    *)
(*                                                                         *)
(* A frame gives every byte of the SSD1680 window (native column, native   *)
(* row) its ink.  Each call renders s_framebuffer before it uses it, so    *)
(* the buffer itself is not state; what is: s_retained_frame and           *)
(* s_scale_screen_magic, both in RTC memory, and the panel.  Calls come in *)
(* any order, with deep sleeps between them; any other reset loses RTC     *)
(* memory.                                                                 *)
(***************************************************************************)
EXTENDS Naturals

CONSTANTS
  Columns,        \* NATIVE_STRIDE: byte columns 0..Columns-1, the last one unaligned
  Rows,           \* NATIVE_HEIGHT
  AckCells,       \* the touch acknowledgement's rectangle
  Inks, Blank,    \* byte values, and the white one
  Fingerprint,    \* the acknowledgement's ink
  Layouts,        \* what the layout functions draw
  Interval,       \* SCALE_FULL_REFRESH_INTERVAL
  LateFailures    \* may a refresh fail after the panel took it?

Cells  == (0..(Columns - 1)) \X (0..(Rows - 1))
Frames == [Cells -> Inks]

ASSUME FrameAssumption ==
  /\ Columns \in Nat /\ Rows \in Nat
  /\ AckCells \subseteq Cells /\ AckCells # {}
  /\ Blank \in Inks /\ Fingerprint \in Inks /\ Blank # Fingerprint
  /\ Layouts \subseteq Frames
  /\ Interval \in Nat \ {0}
  /\ LateFailures \in BOOLEAN

VARIABLES
  retained,     \* s_retained_frame
  scaleMagic,   \* s_scale_screen_magic = SCALE_SCREEN_MAGIC
  panel,        \* the frame on the panel
  done,         \* the call that last returned ESP_OK, "failed" for an error
  sinceFull     \* history: changed-area updates the panel took since a full one

vars == <<retained, scaleMagic, panel, done, sinceFull>>

BlankFrame == [c \in Cells |-> Blank]
NoFrame    == [valid |-> FALSE, frame |-> BlankFrame, partials |-> 0]

\* How a refresh ends: before master activation, after it with an error or a
\* reset, completed, or completed with epaper_sleep failing.
Outcomes == {"early", "crash", "ok", "sleep"} \cup IF LateFailures THEN {"late"} ELSE {}

Completed(o) == o \in {"ok", "sleep"}

----------------------------------------------------------------------------
(* Rendering and refreshing *)

\* f, with the cells in area taken from g.
Overlay(f, g, area) == [c \in Cells |-> IF c \in area THEN g[c] ELSE f[c]]

\* The layout, then clear_touch_ack_area.
Rendered(p) == Overlay(p, BlankFrame, AckCells)

\* draw_touch_acknowledged, clear_touch_ack_area
AckFrame(ink) == Overlay(BlankFrame, [c \in Cells |-> ink], AckCells)

\* Mutant: the rectangle is one row short.
ChangedArea_Short(f) ==
  LET diff == {c \in Cells : f[c] # retained.frame[c]}
  IN {c \in Cells : /\ \E a, b \in diff : a[1] <= c[1] /\ c[1] <= b[1]
                    /\ \E a, b \in diff : a[2] <= c[2] /\ c[2] < b[2]}

\* find_changed_area: the smallest rectangle around the differing bytes.
ChangedArea(f) ==
  LET diff == {c \in Cells : f[c] # retained.frame[c]}
  IN {c \in Cells : /\ \E a, b \in diff : a[1] <= c[1] /\ c[1] <= b[1]
                    /\ \E a, b \in diff : a[2] <= c[2] /\ c[2] <= b[2]}

ReachesTail(area) == \E c \in area : c[1] = Columns - 1

\* What a refresh leaves in RTC memory: remembered when it completed, wiped by a
\* reset, untouched otherwise.
Remember(frame, o) ==
  retained' = CASE Completed(o) -> frame
                [] o = "crash"  -> NoFrame
                [] OTHER        -> retained

\* epaper_refresh, remember_full_frame
FullRefresh(f, o) ==
  /\ panel' = IF o = "early" THEN panel ELSE f
  /\ sinceFull' = IF o = "early" THEN sinceFull ELSE 0
  /\ Remember([valid |-> TRUE, frame |-> f, partials |-> 0], o)

\* Mutant: the retained frame is not told of a partial refresh.
RememberPartial_Not(f, area) == retained

\* remember_partial_frame
RememberPartial(f, area) ==
  IF retained.valid
  THEN [retained EXCEPT !.frame = Overlay(retained.frame, f, area)]
  ELSE retained

\* epaper_refresh_partial
PartialRefresh(f, area, o) ==
  panel' = IF o = "early" THEN panel ELSE Overlay(panel, f, area)

----------------------------------------------------------------------------
(* The calls of display_ui.c *)

Init ==
  /\ retained = NoFrame /\ scaleMagic = FALSE
  /\ panel \in {Rendered(p) : p \in Layouts}
  /\ done = "none" /\ sinceFull = 0

Finish(o, call) == done' = IF o = "ok" THEN call ELSE "failed"

\* epaper_init fails: nothing is drawn or forgotten.
InitFails == done' = "failed" /\ UNCHANGED <<retained, scaleMagic, panel, sinceFull>>

\* display_ui_show_message and the other status screens: present.
ShowMessage(p, o) ==
  /\ scaleMagic' = FALSE
  /\ FullRefresh(Rendered(p), o)
  /\ Finish(o, "drawn")

\* epaper_refresh_changed finds nothing to do.
Unchanged(f) == \A c \in Cells : f[c] = retained.frame[c]

\* epaper_refresh_changed falls back to a full refresh.
NeedsFull(f) ==
  retained.partials >= Interval - 1 \/ ReachesTail(ChangedArea(f))

\* display_ui_show_scale, present_scale
ShowScale(p, force, o) ==
  LET f == Rendered(p) IN
  /\ scaleMagic' = (o # "crash" /\ (scaleMagic \/ Completed(o)))
  /\ Finish(o, "drawn")
  /\ IF force \/ ~scaleMagic \/ ~retained.valid
     THEN FullRefresh(f, o)
     ELSE IF Unchanged(f)
     THEN /\ Completed(o)
          /\ UNCHANGED <<retained, panel, sinceFull>>
     ELSE IF NeedsFull(f)
     THEN FullRefresh(f, o)
     ELSE /\ PartialRefresh(f, ChangedArea(f), o)
          /\ sinceFull' = IF o = "early" THEN sinceFull ELSE sinceFull + 1
          /\ Remember([RememberPartial(f, ChangedArea(f))
                         EXCEPT !.partials = retained.partials + 1], o)

AckRefresh(ink, o, call) ==
  /\ PartialRefresh(AckFrame(ink), AckCells, o)
  /\ Remember(RememberPartial(AckFrame(ink), AckCells), o)
  /\ scaleMagic' = (o # "crash" /\ scaleMagic)
  /\ Finish(o, call)
  /\ UNCHANGED sinceFull

\* display_ui_show_touch_acknowledged: the panel is not put to sleep.
ShowTouchAcknowledged(o) == o # "sleep" /\ AckRefresh(Fingerprint, o, "badge")

\* display_ui_clear_touch_acknowledged
ClearTouchAcknowledged(o) == AckRefresh(Blank, o, "cleared")

\* A reset other than a wake from deep sleep.
Reset ==
  /\ retained' = NoFrame /\ scaleMagic' = FALSE
  /\ UNCHANGED <<panel, done, sinceFull>>

Next ==
  \/ InitFails \/ Reset
  \/ \E o \in Outcomes :
       \/ ShowTouchAcknowledged(o) \/ ClearTouchAcknowledged(o)
       \/ \E p \in Layouts : ShowMessage(p, o)
       \/ \E p \in Layouts, force \in BOOLEAN : ShowScale(p, force, o)

Spec == Init /\ [][Next]_vars

----------------------------------------------------------------------------
(* Properties *)

TypeOK ==
  /\ retained \in [valid : BOOLEAN, frame : Frames, partials : 0..(Interval - 1)]
  /\ scaleMagic \in BOOLEAN
  /\ panel \in Frames
  /\ done \in {"none", "failed", "drawn", "badge", "cleared"}
  /\ sinceFull \in Nat

\* Without late failures: the frame the next changed-area update is compared
\* with is the one on the panel, touch acknowledgement included, whatever calls
\* failed before (docs/architecture.md: the retained copy is updated only after
\* a successful panel refresh).
BaselineIsPanel == retained.valid => panel = retained.frame

\* Without late failures: at most Interval - 1 changed-area updates in a row
\* reach the panel, then a full refresh clears the ghosting.
GhostingBounded == sinceFull <= Interval - 1

\* Without late failures the drawing path keeps the panel's promise: see Panel.
Picture == Overlay(panel, BlankFrame, AckCells)
Badge   == \E c \in AckCells : panel[c] # Blank

Promise == INSTANCE Panel WITH
             Pictures <- {Rendered(p) : p \in Layouts}, picture <- Picture,
             badge <- Badge

PanelPromise == Promise!Spec
============================================================================
