----------------------------- MODULE UiManager -----------------------------
(***************************************************************************)
(* UIManager on core 1: three buttons, the page stack, the popup that      *)
(* edits a number, the lock of a selector, the screen's sleep, and the     *)
(* frame drawn every 33 ms from what core 0 has changed meanwhile.  A      *)
(* button acts on the lines drawn last, which after a jump are those of    *)
(* the page left.                                                          *)
(*                                                                         *)
(* A release counts when the button was down for 50 ms.  A pass of core 1  *)
(* takes far less than the 17 ms between that and a frame, so a frame was  *)
(* drawn since the button went down: it is "seen".  The transitions one    *)
(* poll finds at several buttons are taken one after the other.            *)
(***************************************************************************)
EXTENDS PageTemplate

CONSTANTS
  None,
  Brightness,  \* the brightness goes from 0 to this, 255
  MaxDown,     \* bound: how many buttons are down at a time
  MaxChanges   \* bound: how often a button changes what the pages read

ASSUME UiAssumption ==
  /\ None \notin Page /\ None \notin [page : Page, index : Nat]
  /\ None \notin {"timeout", "brightness", "area", "channel"}
  /\ Brightness \in Nat /\ MaxDown \in Nat /\ MaxChanges \in Nat

VARIABLES
  page, index,  \* current_page_name_, current_menu_index_
  history,      \* page_history_
  popup,        \* is_popup_active_, popup_caller_page_ and popup_caller_index_
  setting,      \* popup_int_setting_data_: which number it points to, or None
  locked,       \* line_state_.is_locked
  view,         \* *page_template_
  shown,        \* history: the page whose lines the view holds
  buttons,      \* joystick_buttons_, and whether a frame came since the press
  dark,         \* screen_off_
  env,          \* what the pages read
  brightness, saved, \* brightness_value_ and its entry in the configuration
  changes

stack  == <<page, index, history, popup, setting>>
values == <<brightness, saved>>
keys   == <<buttons, dark>>
world  == <<env, changes>>
vars   == <<stack, locked, view, shown, keys, world, values>>

ButtonName == {"down", "up", "confirm"}

Init ==
  /\ page = "main" /\ index = 0 /\ history = <<>> /\ popup = None /\ setting = None
  /\ locked = FALSE /\ view = EmptyView /\ shown = None
  /\ buttons = [b \in ButtonName |-> "up"] /\ dark = FALSE
  /\ env \in {InitialEnvironment(s) : s \in Saved} /\ changes = 0
  /\ brightness \in 0..Brightness /\ saved = brightness

-----------------------------------------------------------------------------
(* PageNavigationManager. *)
Pages(h) == {h[i].page : i \in DOMAIN h}

\* push_page: a page already in the history cuts off what came after it
Push(h, entry) ==
  IF entry.page \in Pages(h)
  THEN SubSeq(h, 1, CHOOSE i \in DOMAIN h : h[i].page = entry.page)
  ELSE Append(h, entry)

Top(h) == h[Len(h)]
Pop(h) == SubSeq(h, 1, Len(h) - 1)

\* switch_to_page
SwitchToPage(p) ==
  /\ page' = p /\ index' = 0 /\ view' = SetVisibleEndLine(view, 0)

-----------------------------------------------------------------------------
(* The line the cursor is on. *)
HasLine ==
  IF view.scrollable THEN index < Len(view.lines) ELSE index < Cardinality(Items(view))

ChosenLine(v, i) == IF v.scrollable THEN i ELSE ItemLine(v, i)

Chosen == LineAt(view, ChosenLine(view, index))

(* render_cursor_indicator: the row of the screen the frame goes round,      *)
(* pushed to the nearest row when the line is outside the window.            *)
CursorRow(v, i) ==
  IF ~v.scrollable THEN ItemLine(v, i)
  ELSE IF i < v.start THEN 0 ELSE Smaller(i - v.start, Visible - 1)

NeverLocked == FALSE       \* mutant: the lock is not asked for

\* get_current_page_type takes the index for that of a line on every page
OnLockedSelector ==
  /\ locked /\ index < Len(view.lines)
  /\ LineAt(view, index).kind = "selector"

-----------------------------------------------------------------------------
(* What the managers and the pages' members become, within the bound. *)
Becomes(f) ==
  /\ env' = f
  /\ f # env => changes < MaxChanges
  /\ changes' = IF f = env THEN changes ELSE changes + 1

-----------------------------------------------------------------------------
(* handle_navigation_input.  A step may come too early after the last one in  *)
(* its direction, by a clock the model leaves out: 150, then 200, then 100 ms. *)
Step(i, most, up) ==
  LET j == IF i > most THEN 0 ELSE i IN
  IF up THEN (IF j = 0 THEN most ELSE j - 1) ELSE IF j = most THEN 0 ELSE j + 1

Navigate(up) ==
  /\ \/ UNCHANGED <<index, view>>
     \/ /\ view.scrollable
        /\ index' = Step(index, Len(view.lines) - 1, up)
        /\ view' = SetVisibleEndLine(view, index')
     \/ /\ ~view.scrollable /\ UNCHANGED view
        /\ index' = IF Items(view) = {} THEN index
                    ELSE Step(index, Cardinality(Items(view)) - 1, up)
  /\ UNCHANGED <<page, history, popup, setting, locked, world, values>>

-----------------------------------------------------------------------------
(* handle_confirm_input. *)
\* handle_menu_jump
MenuJump(line) ==
  /\ history' = Push(history, [page |-> page, cursor |-> index, scroll |-> view.start])
  /\ SwitchToPage(line.what)
  /\ env' = Jumped(line.what, line.arg, env)
  /\ UNCHANGED <<popup, setting, locked, changes, values>>

\* handle_int_setting: the index and the window stay those of the caller
IntSetting(line) ==
  /\ popup' = [page |-> page, index |-> index]
  /\ setting' = line.what /\ page' = "__int_setting__"
  /\ UNCHANGED <<index, history, view, locked, world, values>>

\* handle_selector_item
SelectorItem ==
  /\ locked' = TRUE
  /\ UNCHANGED <<stack, view, world, values>>

\* handle_back_item.  Its other branch, for a popup, is never taken: on the
\* popup's page every button has a meaning of its own.
BackItem ==
  /\ IF history = <<>> THEN UNCHANGED <<page, index, history, view>>
     ELSE /\ page' = Top(history).page /\ index' = Top(history).cursor
          /\ view' = SetScrollPosition(view, Top(history).scroll)
          /\ history' = Pop(history)
  /\ UNCHANGED <<popup, setting, locked, world, values>>

\* click_callback
ButtonItem(line) ==
  /\ Becomes(Clicked(line.what, env))
  /\ saved' = IF line.what = "save" THEN brightness ELSE saved
  /\ UNCHANGED <<stack, view, locked, brightness>>

Confirm ==
  IF ~HasLine \/ ~Interactive(Chosen) THEN UNCHANGED <<stack, view, locked, world, values>>
  ELSE \/ Chosen.kind = "menu" /\ MenuJump(Chosen)
       \/ Chosen.kind = "int" /\ IntSetting(Chosen)
       \/ Chosen.kind = "selector" /\ SelectorItem
       \/ Chosen.kind = "back" /\ BackItem
       \/ Chosen.kind = "button" /\ ButtonItem(Chosen)

-----------------------------------------------------------------------------
\* adjust_int_setting_value, with the brightness' change callback
Adjust(up) ==
  /\ brightness' = CASE setting # "brightness" -> brightness
                     [] up /\ brightness < Brightness -> brightness + 1
                     [] ~up /\ brightness > 0 -> brightness - 1
                     [] OTHER -> brightness
  /\ UNCHANGED <<stack, view, locked, world, saved>>

\* handle_back_navigation of a popup, with the completion callback
Complete ==
  /\ saved' = IF setting = "brightness" THEN brightness ELSE saved
  /\ page' = popup.page /\ index' = popup.index /\ popup' = None /\ setting' = None
  /\ UNCHANGED <<history, view, locked, world, brightness>>

\* handle_selector_input
SelectorInput(b) ==
  /\ locked' = (b # "confirm")
  /\ IF b = "confirm" THEN UNCHANGED world
     ELSE Becomes(Selected(LineAt(view, index).what, b = "up", env))
  /\ UNCHANGED <<stack, view, values>>

Editing == page = "__int_setting__"

\* handle_special_joystick_input
Special(b) ==
  \/ Editing /\ b # "confirm" /\ Adjust(b = "up")
  \/ Editing /\ b = "confirm" /\ Complete
  \/ ~Editing /\ OnLockedSelector /\ SelectorInput(b)

\* handle_joystick_input
Joystick(b) ==
  \/ Special(b)
  \/ /\ ~Editing /\ ~OnLockedSelector
     /\ IF b = "confirm" THEN Confirm ELSE Navigate(b = "up")

-----------------------------------------------------------------------------
(* refresh_task_30fps: update_page_template_content, with the page's render. *)
Draw ==
  LET loaded == Load(page, env)
      drawn  == SetAllLines(Flushed(view), Lines(page, loaded))
      most   == IF drawn.scrollable THEN Len(drawn.lines) ELSE Cardinality(Items(drawn))
  IN /\ view' = drawn /\ shown' = page
     /\ env' = Leave(page, loaded)
     /\ index' = IF index >= most THEN 0 ELSE index

Down == {b \in ButtonName : buttons[b] # "up"}

Frame ==
  /\ ~dark /\ Draw
  /\ buttons' = [b \in ButtonName |-> IF b \in Down THEN "seen" ELSE "up"]
  /\ UNCHANGED <<page, history, popup, setting, locked, dark, values, changes>>

(* handle_input.  A press wakes the screen, and the pass goes on to the      *)
(* frame that is long due; what counts is the release, of the press that     *)
(* woke the screen too.                                                      *)
Press(b) ==
  /\ b \notin Down /\ Cardinality(Down) < MaxDown
  /\ buttons' = [buttons EXCEPT ![b] = "down"]
  /\ dark' = FALSE
  /\ IF dark THEN Draw ELSE UNCHANGED <<index, view, shown, env>>
  /\ UNCHANGED <<page, history, popup, setting, locked, values, changes>>

ReleaseAtOnce(b) ==        \* mutant: a press of any length counts
  /\ ~dark /\ buttons[b] # "up"
  /\ buttons' = [buttons EXCEPT ![b] = "up"]
  /\ Joystick(b)
  /\ UNCHANGED <<dark, shown>>

Release(b) ==
  /\ ~dark /\ buttons[b] = "seen"
  /\ buttons' = [buttons EXCEPT ![b] = "up"]
  /\ Joystick(b)
  /\ UNCHANGED <<dark, shown>>

\* a press shorter than 50 ms, or one released while the screen is off
ReleaseIgnored(b) ==
  /\ b \in Down
  /\ buttons' = [buttons EXCEPT ![b] = "up"]
  /\ UNCHANGED <<stack, locked, view, shown, dark, world, values>>

\* handle_screen_timeout: thirty seconds and more since the last transition
ScreenTimeout ==
  /\ ~dark /\ shown = page /\ \A b \in ButtonName : buttons[b] # "down"
  /\ dark' = TRUE
  /\ UNCHANGED <<stack, locked, view, shown, buttons, world, values>>

Core0 ==
  /\ Meanwhile(env, env')
  /\ UNCHANGED <<stack, locked, view, shown, keys, values, changes>>

Next ==
  \/ \E b \in ButtonName : Press(b) \/ Release(b) \/ ReleaseIgnored(b)
  \/ ScreenTimeout \/ Frame \/ Core0

Spec == Init /\ [][Next]_vars

-----------------------------------------------------------------------------
(* A lock never outlives the line it was set on: on a drawn page the cursor  *)
(* of a locked page is on a selector, whatever core 0 changed in between, so *)
(* that no other line is adjusted in its place.                              *)
LockOnSelector ==
  locked /\ shown = page => index < Len(view.lines) /\ LineAt(view, index).kind = "selector"

(* What the pages' lines make of the menu. *)
Below ==
  [p \in Page |->
     CASE p = "main" -> {"main_menu"}
       [] p = "main_menu" -> {"touch_settings_main", "binding_settings",
                              "communication_settings", "general_settings"}
       [] p = "touch_settings_main" -> {"touch_status", "zone_sensitivity",
                                        "area_sensitivity", "sensitivity_main"}
       [] p = "area_sensitivity" -> {"area_sensitivity_zone"}
       [] p = "area_sensitivity_zone" -> {"area_sensitivity_detail"}
       [] p = "sensitivity_main" -> {"ad7147_custom_settings", "sensitivity_device"}
       [] p = "binding_settings" -> {"binding_info"}
       [] OTHER -> {}]

Numbers ==
  [p \in Page |->
     CASE p = "general_settings" -> {"timeout", "brightness"}
       [] p = "area_sensitivity_detail" -> {"area"}
       [] p = "sensitivity_device" -> {"channel"}
       [] OTHER -> {}]

Path == [i \in DOMAIN history |-> history[i].page]
          \o <<IF popup = None THEN page ELSE popup.page>>

Walk == INSTANCE MenuWalk WITH Root <- "main", Nothing <- None,
                                path <- Path, editing <- setting

(* The page stack, the popup's caller and the lines drawn last agree: every  *)
(* button press is a step in the tree of pages, one down, one back or to a   *)
(* number of the page the user sees, and none acts on the lines of a page    *)
(* that has been left.                                                       *)
ImplementsMenu == Walk!Spec

(* A step of the cursor takes the window along, wherever the window stood    *)
(* before: the frame is drawn round the line on which confirm would act, not *)
(* round the nearest one that happens to be on the screen.                   *)
CursorFollowed ==
  [][page' = page /\ view'.lines = view.lines /\ index' # index /\ ~dark
       => LineInRow(view', CursorRow(view', index')) = ChosenLine(view', index')]_vars
=============================================================================
