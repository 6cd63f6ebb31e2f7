--------------------------------- MODULE Menu ---------------------------------
(***************************************************************************)
(* The two menus of the prompt (core/cmd.c): /session lists the saved      *)
(* sessions in a window that scrolls, /model the built-in models, all of   *)
(* them.  The terminal is in raw mode meanwhile; keys move the selection,  *)
(* take it or cancel.  The user may resize the terminal at any moment, and *)
(* nothing tells the menu: it asks for the size before it draws.           *)
(* Entries are numbered as in the array, from 0.                           *)
(***************************************************************************)
EXTENDS Integers, Sequences

CONSTANTS
  MaxSessions,  \* bound: how many sessions have been saved
  NModels,      \* how many BUILTIN_MODELS there are
  Heights       \* bound: heights the terminal may have; 0: it does not tell

ASSUME MenuAssumption ==
  /\ MaxSessions \in Nat /\ NModels \in Nat \ {0}
  /\ Heights \subseteq Nat

VARIABLES
  menu,      \* the menu that is open, or "none"
  height,    \* the terminal's height, while a menu is open
  count, selected, top, visible,
  awaits,    \* the byte read next: "key", "seq0" or "seq1"
  bracket,   \* seq[0] = '['
  frame,     \* the rows drawn last: which entry each shows, and whether highlighted
  raw,       \* raw_mode_enabled
  taken      \* the entry whose session is restored or model set, until that is printed; or -1

menuVars ==
  <<menu, height, count, selected, top, visible, awaits, bracket, frame, raw, taken>>

------------------------------------------------------------------------------
(***************************************************************************)
(* Faults, each standing in for the operator named in its comment.         *)
(***************************************************************************)
\* AdjustedTop, which keeps the selection in the window but not the window in the list.
FollowedTop(s, n, v, t) ==
  IF t > s THEN s ELSE IF s >= t + v THEN s - v + 1 ELSE t
------------------------------------------------------------------------------
Greater(a, b) == IF a > b THEN a ELSE b
Lesser(a, b) == IF a < b THEN a ELSE b

\* terminal_size.
Rows(h) == IF h > 0 THEN h ELSE 24

\* session_visible_rows.
VisibleRows(n, h) == Lesser(Greater(Rows(h) - 4, 3), n)

\* adjust_session_window.
AdjustedTop(s, n, v, t) ==
  LET followed == IF t > s THEN s ELSE IF s >= t + v THEN s - v + 1 ELSE t
  IN  Greater(Lesser(Greater(followed, 0), n - v), 0)

\* render_session_menu: the rows it draws.
SessionFrame(s, t, v) ==
  [row \in 1..v |-> [entry |-> t + row - 1, highlighted |-> t + row - 1 = s]]

\* render_model_menu.
ModelFrame(n, s) ==
  [row \in 1..n |-> [entry |-> row - 1, highlighted |-> row - 1 = s]]
------------------------------------------------------------------------------
MenuInit ==
  /\ menu = "none" /\ height = 0
  /\ count = 0 /\ selected = 0 /\ top = 0 /\ visible = 0
  /\ awaits = "key" /\ bracket = FALSE /\ frame = <<>> /\ raw = FALSE /\ taken = -1

Resize(h) ==
  /\ menu # "none" /\ h # height /\ height' = h
  /\ UNCHANGED <<menu, count, selected, top, visible, awaits, bracket, frame, raw, taken>>

\* interactive_session_select opens; raw mode is refused where stdin is no terminal,
\* and without sessions there is nothing to open (both leave all as it is).
OpenSessions(n, h) ==
  /\ menu = "none" /\ taken = -1 /\ n > 0 /\ height' = h
  /\ menu' = "session" /\ raw' = TRUE
  /\ count' = n /\ selected' = 0 /\ top' = 0 /\ visible' = VisibleRows(n, h)
  /\ frame' = SessionFrame(0, 0, visible')
  /\ UNCHANGED <<awaits, bracket, taken>>

\* interactive_model_select opens on the current model, or on the first.
OpenModels(current, h) ==
  /\ menu = "none" /\ taken = -1 /\ height' = h
  /\ menu' = "model" /\ raw' = TRUE
  /\ count' = NModels /\ selected' = current /\ top' = 0 /\ visible' = NModels
  /\ frame' = ModelFrame(NModels, current)
  /\ UNCHANGED <<awaits, bracket, taken>>

\* Leaving the loop: disable_raw_mode, and the menu is wiped off.  (What is no
\* longer used is set back; the terminal may have any height when a menu opens.)
Close ==
  /\ menu' = "none" /\ raw' = FALSE /\ frame' = <<>>
  /\ count' = 0 /\ selected' = 0 /\ top' = 0 /\ visible' = 0
  /\ awaits' = "key" /\ bracket' = FALSE /\ height' = 0

\* The selection has moved, or not: the menu is drawn again.
Redraw(s) ==
  /\ selected' = s /\ awaits' = "key" /\ bracket' = FALSE
  /\ IF menu = "session"
       THEN /\ visible' = VisibleRows(count, height)
            /\ top' = AdjustedTop(s, count, visible', top)
            /\ frame' = SessionFrame(s, top', visible')
       ELSE /\ frame' = ModelFrame(count, s)
            /\ UNCHANGED <<top, visible>>
  /\ UNCHANGED <<menu, height, count, raw, taken>>

\* Keys.
Escape ==
  /\ menu # "none" /\ awaits = "key"
  /\ awaits' = "seq0"
  /\ UNCHANGED <<menu, height, count, selected, top, visible, bracket, frame, raw, taken>>

Enter == menu # "none" /\ awaits = "key" /\ taken' = selected /\ Close

\* q, or the end of the input.  Any other key is passed over.
Cancel == menu # "none" /\ awaits = "key" /\ UNCHANGED taken /\ Close

\* What has been restored, or which model set, is printed.
Report ==
  /\ menu = "none" /\ taken # -1 /\ taken' = -1
  /\ UNCHANGED <<menu, height, count, selected, top, visible, awaits, bracket, frame, raw>>

\* What follows the escape: two bytes, each within 80 ms; otherwise it was the
\* escape key, which cancels.
SeqTimeout == awaits # "key" /\ UNCHANGED taken /\ Close

Seq0(byte) ==
  /\ awaits = "seq0"
  /\ awaits' = "seq1" /\ bracket' = (byte = "[")
  /\ UNCHANGED <<menu, height, count, selected, top, visible, frame, raw, taken>>

Seq1(byte) ==
  /\ awaits = "seq1"
  /\ Redraw(CASE bracket /\ byte = "A" /\ selected > 0         -> selected - 1
              [] bracket /\ byte = "B" /\ selected < count - 1 -> selected + 1
              [] OTHER                                         -> selected)

MenuNext ==
  \/ \E h \in Heights : Resize(h)
  \/ \E n \in 1..MaxSessions, h \in Heights : OpenSessions(n, h)
  \/ \E current \in 0..(NModels - 1), h \in Heights : OpenModels(current, h)
  \/ Escape \/ Enter \/ Cancel \/ SeqTimeout \/ Report
  \/ \E byte \in {"[", "A", "B"} : Seq0(byte) \/ Seq1(byte)

MenuSpec == MenuInit /\ [][MenuNext]_menuVars
------------------------------------------------------------------------------
(***************************************************************************)
(* Properties.                                                             *)
(***************************************************************************)
\* Whatever keys came and however the terminal was resized between them, the menu
\* shows entries that exist, in their order, and highlights one: the one that Enter
\* takes (cmd.c:194-217, 334-376, 398-423).
SelectionShown ==
  menu # "none" =>
    /\ \A row \in DOMAIN frame :
         /\ frame[row].entry \in 0..(count - 1)
         /\ frame[row].entry = frame[1].entry + row - 1
         /\ frame[row].highlighted <=> frame[row].entry = selected
    /\ \E row \in DOMAIN frame : frame[row].highlighted
==============================================================================
