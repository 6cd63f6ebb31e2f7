-------------------------------- MODULE Screen --------------------------------
(***************************************************************************)
(* The main thread's screen: at the prompt it opens a menu (Menu.tla) or   *)
(* shows a reply (Markdown.tla), and does nothing else until that is over  *)
(* (main.c, core/cmd.c).  A reply is shown with a fresh renderer, on the   *)
(* stack of ui_print_markdown: what it was is gone when that returns.      *)
(***************************************************************************)
EXTENDS Markdown, Menu

ScreenInit == ReplyInit /\ MenuInit

\* cmd_dispatch has a menu opened, or one that is open goes on.
InMenu ==
  /\ Idle /\ entered = 0
  /\ MenuNext
  /\ UNCHANGED replyVars

\* The reply of a turn, or of /remember, is shown.
ShowReply ==
  /\ menu = "none" /\ taken = -1
  /\ ReplyNext
  /\ UNCHANGED menuVars

\* ui_print_markdown returns.
Return ==
  /\ ReplyShown
  /\ open' = <<>> /\ entered' = 0 /\ fed' = 0 /\ excused' = {} /\ tangled' = FALSE
  /\ r' = FreshRender /\ out' = <<>> /\ marks' = <<>>
  /\ UNCHANGED menuVars

ScreenNext == InMenu \/ ShowReply \/ Return

ScreenSpec == ScreenInit /\ [][ScreenNext]_<<replyVars, menuVars>>
==============================================================================
