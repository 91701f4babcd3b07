------------------------- MODULE EpaperFrameProofs -------------------------
(***************************************************************************)
(* The drawing path for panels and layouts of any size: when no refresh    *)
(* fails after the panel took it, the retained frame is the panel, the     *)
(* ghosting is bounded and EpaperFrame implements Panel.                   *)
(***************************************************************************)
EXTENDS EpaperFrame, Integers, TLAPS

\* What the three facts rest on: the counter covers every changed-area update
\* since the last full refresh, as long as there is a frame to compare with.
FrameInv ==
  /\ TypeOK
  /\ BaselineIsPanel
  /\ GhostingBounded
  /\ retained.valid => sinceFull <= retained.partials

\* Overlay takes the cells in area from its second frame.
LEMMA OverlayFrame ==
  ASSUME NEW f \in Frames, NEW g \in Frames, NEW area
  PROVE  /\ Overlay(f, g, area) \in Frames
         /\ \A c \in Cells : Overlay(f, g, area)[c] = IF c \in area THEN g[c] ELSE f[c]
  BY DEF Overlay, Frames

\* The blank frame and the acknowledgement's frame are frames.
LEMMA InkFrames ==
  /\ BlankFrame \in Frames
  /\ \A ink \in Inks : AckFrame(ink) \in Frames
  <1>1. BlankFrame \in Frames
    BY FrameAssumption DEF BlankFrame, Frames
  <1>2. ASSUME NEW ink \in Inks PROVE AckFrame(ink) \in Frames
    <2>1. [c \in Cells |-> ink] \in Frames
      BY DEF Frames
    <2> QED BY <1>1, <2>1, OverlayFrame DEF AckFrame
  <1> QED BY <1>1, <1>2

\* A rendered layout is a frame without the acknowledgement.
LEMMA RenderedFrame ==
  ASSUME NEW p \in Layouts
  PROVE  /\ Rendered(p) \in Frames
         /\ \A c \in AckCells : Rendered(p)[c] = Blank
         /\ Overlay(Rendered(p), BlankFrame, AckCells) = Rendered(p)
  <1>1. p \in Frames /\ BlankFrame \in Frames /\ AckCells \subseteq Cells
    BY FrameAssumption, InkFrames
  <1>2. Rendered(p) \in Frames
    BY <1>1, OverlayFrame DEF Rendered
  <1>3. \A c \in AckCells : Rendered(p)[c] = Blank
    BY <1>1 DEF Rendered, Overlay, BlankFrame
  <1>4. Overlay(Rendered(p), BlankFrame, AckCells) = Rendered(p)
    BY <1>1 DEF Rendered, Overlay, BlankFrame
  <1> QED BY <1>2, <1>3, <1>4

\* find_changed_area: outside the rectangle nothing differs.
LEMMA AreaCovers ==
  ASSUME NEW f \in Frames, NEW c \in Cells, c \notin ChangedArea(f)
  PROVE  f[c] = retained.frame[c]
  <1>1. c[1] \in Int /\ c[2] \in Int
    BY FrameAssumption DEF Cells
  <1>2. SUFFICES ASSUME f[c] # retained.frame[c] PROVE c \in ChangedArea(f)
    OBVIOUS
  <1> DEFINE diff == {x \in Cells : f[x] # retained.frame[x]}
  <1>3. c \in diff
    BY <1>2
  <1>4. c[1] <= c[1] /\ c[2] <= c[2]
    BY <1>1
  <1> QED BY <1>3, <1>4 DEF ChangedArea

\* A changed-area update against the frame on the panel leaves the whole new
\* frame there.
LEMMA AreaSuffices ==
  ASSUME NEW f \in Frames, panel \in Frames, panel = retained.frame
  PROVE  Overlay(panel, f, ChangedArea(f)) = f
  <1>1. \A c \in Cells : (IF c \in ChangedArea(f) THEN f[c] ELSE panel[c]) = f[c]
    BY AreaCovers
  <1>2. f = [c \in Cells |-> f[c]]
    BY DEF Frames
  <1> QED BY <1>1, <1>2 DEF Overlay

\* So does skipping the refresh when no byte differs.
LEMMA UnchangedIsPanel ==
  ASSUME NEW f \in Frames, panel \in Frames, panel = retained.frame, Unchanged(f)
  PROVE  panel = f
  BY DEF Frames, Unchanged

\* The initial states satisfy the invariant.
LEMMA FrameInit == Init => FrameInv
  <1> SUFFICES ASSUME Init PROVE FrameInv
    OBVIOUS
  <1>1. panel \in Frames
    BY RenderedFrame DEF Init
  <1>2. NoFrame \in [valid : BOOLEAN, frame : Frames, partials : 0..(Interval - 1)]
    BY FrameAssumption, InkFrames DEF NoFrame
  <1>3. ~NoFrame.valid
    BY DEF NoFrame
  <1>4. TypeOK
    BY <1>1, <1>2 DEF Init, TypeOK
  <1>5. BaselineIsPanel /\ GhostingBounded
    BY <1>3, FrameAssumption DEF Init, BaselineIsPanel, GhostingBounded
  <1> QED BY <1>3, <1>4, <1>5 DEF Init, FrameInv

RetainedType == [valid : BOOLEAN, frame : Frames, partials : 0..(Interval - 1)]

\* A full refresh makes its frame the baseline when it completes, and no other.
LEMMA FullStep ==
  ASSUME FrameInv, ~LateFailures, NEW f \in Frames, NEW o \in Outcomes,
         FullRefresh(f, o)
  PROVE  /\ retained' \in RetainedType /\ panel' \in Frames /\ sinceFull' \in Nat
         /\ BaselineIsPanel' /\ GhostingBounded'
         /\ retained'.valid => sinceFull' <= retained'.partials
         /\ panel' = IF o = "early" THEN panel ELSE f
  <1>1. o \in {"early", "crash", "ok", "sleep"}
    BY DEF Outcomes
  <1>2. NoFrame \in RetainedType
    BY FrameAssumption, InkFrames DEF NoFrame, RetainedType
  <1>3. [valid |-> TRUE, frame |-> f, partials |-> 0] \in RetainedType
    BY FrameAssumption DEF RetainedType
  <1>4. CASE o = "early"
    BY <1>4 DEF FullRefresh, Remember, Completed, FrameInv, TypeOK, RetainedType,
       BaselineIsPanel, GhostingBounded
  <1>5. CASE o = "crash"
    BY <1>2, <1>5, FrameAssumption DEF FullRefresh, Remember, Completed,
       BaselineIsPanel, GhostingBounded, NoFrame
  <1>6. CASE Completed(o)
    <2>1. retained' = [valid |-> TRUE, frame |-> f, partials |-> 0]
      BY <1>6 DEF FullRefresh, Remember, Completed
    <2>2. panel' = f /\ sinceFull' = 0
      BY <1>6 DEF FullRefresh, Completed
    <2> QED BY <1>3, <1>6, <2>1, <2>2, FrameAssumption DEF BaselineIsPanel,
              GhostingBounded, Completed
  <1> QED BY <1>1, <1>4, <1>5, <1>6 DEF Completed

\* So does a partial refresh, inside its area.
LEMMA RememberPartialFrame ==
  ASSUME FrameInv, NEW f \in Frames, NEW area
  PROVE  /\ RememberPartial(f, area) \in RetainedType
         /\ RememberPartial(f, area).valid = retained.valid
         /\ RememberPartial(f, area).partials = retained.partials
         /\ retained.valid => RememberPartial(f, area).frame = Overlay(panel, f, area)
  <1>1. retained \in RetainedType /\ (retained.valid => retained.frame = panel)
    BY DEF FrameInv, TypeOK, RetainedType, BaselineIsPanel
  <1>2. Overlay(retained.frame, f, area) \in Frames
    BY <1>1, OverlayFrame DEF RetainedType
  <1> QED BY <1>1, <1>2 DEF RememberPartial, RetainedType

\* The touch acknowledgement keeps the invariant and draws in its own cells.
LEMMA AckStep ==
  ASSUME FrameInv, ~LateFailures, NEW ink \in Inks, NEW o \in Outcomes, NEW call,
         AckRefresh(ink, o, call), call \in {"badge", "cleared"}
  PROVE  /\ FrameInv'
         /\ panel' = IF o = "early" THEN panel ELSE Overlay(panel, AckFrame(ink), AckCells)
  <1>1. o \in {"early", "crash", "ok", "sleep"}
    BY DEF Outcomes
  <1> DEFINE r == RememberPartial(AckFrame(ink), AckCells)
             n == Overlay(panel, AckFrame(ink), AckCells)
  <1>2. AckFrame(ink) \in Frames
    BY InkFrames
  <1>3. /\ r \in RetainedType /\ r.valid = retained.valid
        /\ r.partials = retained.partials /\ (retained.valid => r.frame = n)
    BY <1>2, RememberPartialFrame
  <1>4. n \in Frames
    BY <1>2, OverlayFrame DEF FrameInv, TypeOK
  <1>5. NoFrame \in RetainedType /\ ~NoFrame.valid
    BY FrameAssumption, InkFrames DEF NoFrame, RetainedType
  <1>6. panel' = IF o = "early" THEN panel ELSE n
    BY DEF AckRefresh, PartialRefresh
  <1>7. retained' = CASE Completed(o) -> r [] o = "crash" -> NoFrame [] OTHER -> retained
    BY DEF AckRefresh, Remember
  <1>8. scaleMagic' \in BOOLEAN /\ sinceFull' = sinceFull
        /\ done' \in {"none", "failed", "drawn", "badge", "cleared"}
    BY DEF AckRefresh, Finish, FrameInv, TypeOK
  <1> HIDE DEF r, n
  <1>9. retained' \in RetainedType
    BY <1>1, <1>3, <1>5, <1>7 DEF Completed, FrameInv, TypeOK, RetainedType
  <1>10. BaselineIsPanel' /\ (retained'.valid => sinceFull' <= retained'.partials)
    BY <1>1, <1>3, <1>5, <1>6, <1>7, <1>8 DEF Completed, FrameInv, BaselineIsPanel
  <1>11. panel' \in Frames
    BY <1>4, <1>6 DEF FrameInv, TypeOK
  <1>12. sinceFull' \in Nat /\ GhostingBounded'
    BY <1>8 DEF FrameInv, TypeOK, GhostingBounded
  <1>13. TypeOK'
    BY <1>8, <1>9, <1>11, <1>12 DEF TypeOK, RetainedType
  <1>14. panel' = IF o = "early" THEN panel ELSE Overlay(panel, AckFrame(ink), AckCells)
    BY <1>6 DEF n
  <1> QED BY <1>10, <1>12, <1>13, <1>14 DEF FrameInv

\* A keg screen keeps the invariant, and a refresh that got as far as the panel
\* leaves the whole screen on it.
LEMMA ScaleStep ==
  ASSUME FrameInv, ~LateFailures, NEW p \in Layouts, NEW force \in BOOLEAN,
         NEW o \in Outcomes, ShowScale(p, force, o)
  PROVE  /\ FrameInv'
         /\ panel' = IF o = "early" THEN panel ELSE Rendered(p)
  <1> DEFINE f == Rendered(p)
  <1>1. f \in Frames
    BY RenderedFrame
  <1>2. o \in {"early", "crash", "ok", "sleep"}
    BY DEF Outcomes
  <1>3. scaleMagic' \in BOOLEAN
        /\ done' \in {"none", "failed", "drawn", "badge", "cleared"}
    BY DEF ShowScale, Finish, FrameInv, TypeOK
  <1>4. CASE FullRefresh(f, o)
    BY <1>1, <1>3, <1>4, FullStep DEF FrameInv, TypeOK, RetainedType
  <1>5. CASE retained.valid /\ Unchanged(f) /\ UNCHANGED <<retained, panel, sinceFull>>
             /\ Completed(o)
    <2>1. panel = f
      BY <1>1, <1>5, UnchangedIsPanel DEF FrameInv, TypeOK, BaselineIsPanel
    <2> QED BY <1>3, <1>5, <2>1 DEF FrameInv, TypeOK, BaselineIsPanel,
              GhostingBounded, Completed
  <1>6. CASE /\ retained.valid /\ ~NeedsFull(f)
             /\ PartialRefresh(f, ChangedArea(f), o)
             /\ sinceFull' = IF o = "early" THEN sinceFull ELSE sinceFull + 1
             /\ Remember([RememberPartial(f, ChangedArea(f))
                            EXCEPT !.partials = retained.partials + 1], o)
    <2> DEFINE r == [RememberPartial(f, ChangedArea(f))
                       EXCEPT !.partials = retained.partials + 1]
    <2>1. Overlay(panel, f, ChangedArea(f)) = f
      BY <1>1, <1>6, AreaSuffices DEF FrameInv, TypeOK, BaselineIsPanel
    <2>2. panel' = IF o = "early" THEN panel ELSE f
      BY <1>6, <2>1 DEF PartialRefresh
    <2>3. /\ retained.partials \in 0..(Interval - 1)
          /\ ~(retained.partials >= Interval - 1)
      BY <1>6 DEF NeedsFull, FrameInv, TypeOK
    <2>4. /\ r \in RetainedType /\ r.valid /\ r.frame = f
          /\ r.partials = retained.partials + 1
      <3>1. /\ RememberPartial(f, ChangedArea(f)) \in RetainedType
            /\ RememberPartial(f, ChangedArea(f)).valid
            /\ RememberPartial(f, ChangedArea(f)).frame = f
        BY <1>1, <1>6, <2>1, RememberPartialFrame
      <3>2. retained.partials + 1 \in 0..(Interval - 1)
        BY <2>3, FrameAssumption
      <3> QED BY <3>1, <3>2 DEF RetainedType
    <2>5. NoFrame \in RetainedType /\ ~NoFrame.valid
      BY FrameAssumption, InkFrames DEF NoFrame, RetainedType
    <2>6. retained' = CASE Completed(o) -> r [] o = "crash" -> NoFrame [] OTHER -> retained
      BY <1>6 DEF Remember
    <2>7. sinceFull \in Nat /\ sinceFull <= retained.partials
      BY <1>6 DEF FrameInv, TypeOK
    <2> HIDE DEF r
    <2>8. retained' \in RetainedType
      BY <1>2, <2>4, <2>5, <2>6 DEF Completed, FrameInv, TypeOK, RetainedType
    <2>9. BaselineIsPanel'
      BY <1>2, <2>2, <2>4, <2>5, <2>6 DEF Completed, FrameInv, BaselineIsPanel
    <2>10. /\ sinceFull' \in Nat /\ GhostingBounded'
           /\ retained'.valid => sinceFull' <= retained'.partials
      BY <1>2, <1>6, <2>3, <2>4, <2>5, <2>6, <2>7, FrameAssumption DEF Completed,
         FrameInv, GhostingBounded
    <2>11. panel' \in Frames
      BY <1>1, <2>2 DEF FrameInv, TypeOK
    <2> QED BY <1>3, <2>2, <2>8, <2>9, <2>10, <2>11 DEF FrameInv, TypeOK, RetainedType
  <1> QED BY <1>4, <1>5, <1>6 DEF ShowScale

\* Every step preserves the invariant.
LEMMA FrameStep ==
  ASSUME FrameInv, ~LateFailures, [Next]_vars
  PROVE  FrameInv'
  <1>1. CASE InitFails
    BY <1>1 DEF InitFails, FrameInv, TypeOK, BaselineIsPanel, GhostingBounded
  <1>2. CASE Reset
    <2>1. NoFrame \in RetainedType /\ ~NoFrame.valid
      BY FrameAssumption, InkFrames DEF NoFrame, RetainedType
    <2> QED BY <1>2, <2>1 DEF Reset, FrameInv, TypeOK, RetainedType, BaselineIsPanel,
              GhostingBounded
  <1>3. ASSUME NEW o \in Outcomes, ShowTouchAcknowledged(o) PROVE FrameInv'
    BY <1>3, AckStep, FrameAssumption DEF ShowTouchAcknowledged
  <1>4. ASSUME NEW o \in Outcomes, ClearTouchAcknowledged(o) PROVE FrameInv'
    BY <1>4, AckStep, FrameAssumption DEF ClearTouchAcknowledged
  <1>5. ASSUME NEW o \in Outcomes, NEW p \in Layouts, ShowMessage(p, o) PROVE FrameInv'
    BY <1>5, FullStep, RenderedFrame DEF ShowMessage, Finish, FrameInv, TypeOK,
       RetainedType
  <1>6. ASSUME NEW o \in Outcomes, NEW p \in Layouts, NEW force \in BOOLEAN,
               ShowScale(p, force, o) PROVE FrameInv'
    BY <1>6, ScaleStep
  <1>7. CASE UNCHANGED vars
    BY <1>7 DEF vars, FrameInv, TypeOK, BaselineIsPanel, GhostingBounded
  <1> QED BY <1>1, <1>2, <1>3, <1>4, <1>5, <1>6, <1>7 DEF Next

\* Without late failures the invariant holds throughout.
LEMMA FrameInvHolds == ~LateFailures => (Spec => []FrameInv)
  <1> SUFFICES ASSUME ~LateFailures PROVE Spec => []FrameInv
    OBVIOUS
  <1>1. FrameInv /\ [Next]_vars => FrameInv'
    BY FrameStep
  <1> QED BY <1>1, FrameInit, PTL DEF Spec

\* Every variable of the drawing path keeps its type, the partial counter its
\* bound, for every panel size and interval.
THEOREM TypeCorrect == ~LateFailures => (Spec => []TypeOK)
  <1>1. FrameInv => TypeOK
    BY DEF FrameInv
  <1> QED BY <1>1, FrameInvHolds, PTL

\* BaselineIsPanel: whatever calls failed or were cut short by a reset, the
\* retained frame, when there is one, is what the panel shows.
THEOREM BaselineIsPanelHolds == ~LateFailures => (Spec => []BaselineIsPanel)
  <1> SUFFICES ASSUME ~LateFailures PROVE Spec => []BaselineIsPanel
    OBVIOUS
  <1>1. FrameInv => BaselineIsPanel
    BY DEF FrameInv
  <1> QED BY <1>1, FrameInvHolds, PTL

\* GhostingBounded: epaper_refresh_changed asks for a full refresh before the
\* panel takes Interval changed-area updates in a row.
THEOREM GhostingBoundedHolds == ~LateFailures => (Spec => []GhostingBounded)
  <1> SUFFICES ASSUME ~LateFailures PROVE Spec => []GhostingBounded
    OBVIOUS
  <1>1. FrameInv => GhostingBounded
    BY DEF FrameInv
  <1> QED BY <1>1, FrameInvHolds, PTL

----------------------------------------------------------------------------
(* EpaperFrame implements Panel *)

\* A rendered layout on the panel is that picture, without the badge.
LEMMA RenderedPicture ==
  ASSUME NEW p \in Layouts, panel' = Rendered(p)
  PROVE  Picture' = Rendered(p) /\ Badge' = FALSE
  BY RenderedFrame DEF Picture, Badge

\* The acknowledgement's cells change the badge and nothing else.
LEMMA AckPicture ==
  ASSUME panel \in Frames, NEW ink \in Inks,
         panel' = Overlay(panel, AckFrame(ink), AckCells)
  PROVE  Picture' = Picture /\ Badge' = (ink # Blank)
  <1>1. AckCells \subseteq Cells /\ AckCells # {}
    BY FrameAssumption
  <1>2. \A c \in AckCells : panel'[c] = ink
    BY <1>1 DEF Overlay, AckFrame
  <1>3. \A c \in Cells \ AckCells : panel'[c] = panel[c]
    BY DEF Overlay
  <1>4. Picture' = Picture
    BY <1>3 DEF Picture, Overlay
  <1>5. Badge' = (ink # Blank)
    BY <1>1, <1>2 DEF Badge
  <1> QED BY <1>4, <1>5

\* Every step of the drawing path is a step of Panel or changes nothing it sees.
LEMMA PromiseStep ==
  ASSUME FrameInv, ~LateFailures, [Next]_vars
  PROVE  [Promise!Next]_(Promise!vars)
  <1> USE DEF Promise!Next, Promise!vars, Promise!Draw, Promise!Took,
     Promise!ShowBadge, Promise!ClearBadge
  <1>0. panel' = panel => Picture' = Picture /\ Badge' = Badge
    BY DEF Picture, Badge
  <1>1. CASE InitFails
    BY <1>0, <1>1 DEF InitFails
  <1>2. CASE Reset
    BY <1>0, <1>2 DEF Reset
  <1>3. ASSUME NEW o \in Outcomes, ShowTouchAcknowledged(o) PROVE Promise!ShowBadge
    <2>1. /\ panel' = IF o = "early" THEN panel
                      ELSE Overlay(panel, AckFrame(Fingerprint), AckCells)
          /\ done' = IF o = "ok" THEN "badge" ELSE "failed"
      BY <1>3, AckStep, FrameAssumption DEF ShowTouchAcknowledged, AckRefresh, Finish
    <2>2. CASE o = "early"
      BY <1>0, <2>1, <2>2
    <2>3. CASE o # "early"
      <3>1. Picture' = Picture /\ Badge' = TRUE
        BY <2>1, <2>3, AckPicture, FrameAssumption DEF FrameInv, TypeOK
      <3> QED BY <2>1, <3>1
    <2> QED BY <2>2, <2>3
  <1>4. ASSUME NEW o \in Outcomes, ClearTouchAcknowledged(o) PROVE Promise!ClearBadge
    <2>1. /\ panel' = IF o = "early" THEN panel
                      ELSE Overlay(panel, AckFrame(Blank), AckCells)
          /\ done' = IF o = "ok" THEN "cleared" ELSE "failed"
      BY <1>4, AckStep, FrameAssumption DEF ClearTouchAcknowledged, AckRefresh, Finish
    <2>2. CASE o = "early"
      BY <1>0, <2>1, <2>2
    <2>3. CASE o # "early"
      <3>1. Picture' = Picture /\ Badge' = FALSE
        BY <2>1, <2>3, AckPicture, FrameAssumption DEF FrameInv, TypeOK
      <3> QED BY <2>1, <3>1
    <2> QED BY <2>2, <2>3
  <1>5. ASSUME NEW o \in Outcomes, NEW p \in Layouts,
               panel' = IF o = "early" THEN panel ELSE Rendered(p),
               done' = IF o = "ok" THEN "drawn" ELSE "failed"
        PROVE  Promise!Draw(Rendered(p))
    <2>1. CASE o = "early"
      BY <1>0, <1>5, <2>1
    <2>2. CASE o # "early"
      BY <1>5, <2>2, RenderedPicture
    <2> QED BY <2>1, <2>2
  <1>6. ASSUME NEW o \in Outcomes, NEW p \in Layouts, ShowMessage(p, o)
        PROVE  Promise!Draw(Rendered(p))
    BY <1>5, <1>6 DEF ShowMessage, FullRefresh, Finish
  <1>7. ASSUME NEW o \in Outcomes, NEW p \in Layouts, NEW force \in BOOLEAN,
               ShowScale(p, force, o)
        PROVE  Promise!Draw(Rendered(p))
    <2>1. panel' = IF o = "early" THEN panel ELSE Rendered(p)
      BY <1>7, ScaleStep
    <2>2. done' = IF o = "ok" THEN "drawn" ELSE "failed"
      BY <1>7 DEF ShowScale, Finish
    <2> QED BY <1>5, <2>1, <2>2
  <1>8. CASE UNCHANGED vars
    BY <1>0, <1>8 DEF vars
  <1> QED BY <1>1, <1>2, <1>3, <1>4, <1>6, <1>7, <1>8 DEF Next

\* PanelPromise: without late failures the drawing path implements Panel, for
\* every panel size, layout, acknowledgement rectangle and refresh interval.
THEOREM ImplementsPanel == ~LateFailures => (Spec => PanelPromise)
  <1> SUFFICES ASSUME ~LateFailures PROVE Spec => PanelPromise
    OBVIOUS
  <1>1. Init => Promise!Init
    <2> SUFFICES ASSUME Init PROVE Promise!Init
      OBVIOUS
    <2>1. PICK p \in Layouts : panel = Rendered(p)
      BY DEF Init
    <2>2. Picture = Rendered(p) /\ Badge = FALSE
      BY <2>1, RenderedFrame DEF Picture, Badge
    <2> QED BY <2>2 DEF Init, Promise!Init
  <1>2. FrameInv /\ [Next]_vars => [Promise!Next]_(Promise!vars)
    BY PromiseStep
  <1> QED BY <1>1, <1>2, FrameInvHolds, PTL DEF Spec, PanelPromise, Promise!Spec
============================================================================
