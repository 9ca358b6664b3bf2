------------------------------ MODULE MCPresence ------------------------------
(* Pages with up to four Presences, one for each way in which two of them  *)
(* can be related.                                                         *)
EXTENDS PresenceExit, TLC

CONSTANTS dialog, popover, panel, inner, Backdrop, Content, Part, Other

Effects == {"still", "animated"}
P(flag, around, overlay, plays) ==
  [flag |-> flag, around |-> around, overlay |-> overlay, plays |-> plays]

\* An Overlay with its two parts.
Dialog == Backdrop :> P(dialog, {}, dialog, Effects) @@ Content :> P(dialog, {}, dialog, Effects)

\* A Content without Backdrop, around an Overlay that has both.
DialogPopover ==
  Content :> P(dialog, {}, dialog, Effects)
    @@ Part :> P(popover, {Content}, popover, Effects)
    @@ Other :> P(popover, {Content}, popover, Effects)

\* Presences around each other, without an Overlay; two of them have one flag.
Collapsibles ==
  Content :> P(panel, {}, NoOverlay, Plays)
    @@ Part :> P(panel, {Content}, NoOverlay, Plays)
    @@ Other :> P(inner, {Content, Part}, NoOverlay, Plays)

\* An Overlay with both parts, of which the Content is around another Overlay's.
DialogWithPopover == Dialog @@ Part :> P(popover, {Content}, popover, Effects)

\* A Content around a Presence that is no Overlay's part, such as a Collapsible.
DialogWithPanel ==
  Content :> P(dialog, {}, dialog, Effects) @@ Part :> P(panel, {Content}, dialog, Effects)

\* A Backdrop that some style hides.
BareDialog == Backdrop :> P(dialog, {}, dialog, Plays) @@ Content :> P(dialog, {}, dialog, Effects)

\* The same beside the Content.
PanelBesideContent == Content :> P(dialog, {}, dialog, Effects) @@ Part :> P(panel, {}, dialog, Effects)

AllPages == {Dialog, DialogPopover, Collapsibles, DialogWithPopover, DialogWithPanel,
             PanelBesideContent, BareDialog}
=============================================================================
