------------------------------- MODULE Remote -------------------------------
(***************************************************************************)
(* The buttons of the empeg: ir_monitor(), which turns codes read from     *)
(* /dev/ir into events, and process_ir_event(), which applies an event to  *)
(* the screen shown and calls the rest of the program (input.c), with the  *)
(* menus of global.c.  Both builds: the menus, and the screens of          *)
(* -DADVENTURE, which doc/empeg/USERS_GUIDE describes.                     *)
(*                                                                         *)
(* What the called functions do is in other modules; here a call is a      *)
(* value of the variable call.                                             *)
(***************************************************************************)
EXTENDS Integers, Sequences, FiniteSets

CONSTANTS
  RemoteKeys,  \* keys of the remote control
  MaxWire,     \* bound: codes in /dev/ir that have not been read
  MaxDown      \* bound: buttons a hand holds down

Panel == {"top", "right", "left", "bottom", "knob"}   \* can be held
Knob  == {"knob_left", "knob_right"}
Codes == [button: Panel, pressed: BOOLEAN] \cup [button: Knob \cup RemoteKeys]
NoButton == "none"   \* -1
NoEvent == [button |-> NoButton, held |-> FALSE]

ASSUME RemoteAssumption ==
  /\ RemoteKeys \subseteq {"vol_minus", "vol_plus", "prog", "track_minus", "track_plus", "digit", "other"}
  /\ MaxWire \in Nat /\ MaxDown \in Nat

VARIABLES
  wire,            \* /dev/ir
  down,            \* the buttons the user holds down
  last_button,
  armed,           \* history: buttons whose press was read since their last event
  cur_screen, in_menu, menu_selection,   \* display_info
  bias,            \* config.db_manual_rating_bias, in tenths
  stale,           \* was it changed after start_song_picker() last used it?
  adventure,       \* which build this is
  event, call      \* the event just processed, and the function it called

screen == <<cur_screen, in_menu, menu_selection>>
vars == <<wire, down, last_button, armed, screen, bias, stale, adventure, event, call>>

------------------------------------------------------------------------------
Leave(s) == [to |-> s, leave_menu |-> TRUE]
Stay(s)  == [to |-> s, leave_menu |-> FALSE]
Menu(items, default) == [items |-> items, default_item |-> default]

menu_list ==
  [MAIN_MENU          |-> Menu(<<Stay("MAIN_MENU"), Leave("PLAY"), Leave("PLAYLIST"),
                                 Leave("GLOBAL_SONG_INFO"), Leave("QUIT"), Stay("SETTINGS")>>, 0),
   PLAY               |-> Menu(<<Stay("MAIN_MENU"), Leave("PLAY"), Leave("PLAY_RATE_SONG"),
                                 Leave("PLAY_SONG_INFO")>>, 1),
   PLAY_SONG_INFO     |-> Menu(<<Stay("PLAY"), Leave("PLAY_SONG_INFO")>>, 0),
   PLAY_RATE_SONG     |-> Menu(<<Stay("PLAY"), Leave("PLAY_RATE_SONG")>>, 0),
   PLAYLIST           |-> Menu(<<Stay("MAIN_MENU"), Leave("PLAYLIST"), Leave("PLAYLIST_RATE_SONG"),
                                 Leave("PLAYLIST_SONG_INFO"), Leave("PLAYLIST")>>, 1),
   PLAYLIST_SONG_INFO |-> Menu(<<Stay("PLAYLIST"), Leave("PLAYLIST_SONG_INFO")>>, 0),
   PLAYLIST_RATE_SONG |-> Menu(<<Stay("PLAYLIST"), Leave("PLAYLIST_RATE_SONG")>>, 0),
   GLOBAL_SONG_INFO   |-> Menu(<<Stay("MAIN_MENU"), Leave("GLOBAL_SONG_INFO")>>, 0),
   QUIT               |-> Menu(<<Stay("MAIN_MENU"), Leave("QUIT")>>, 0),
   SETTINGS           |-> Menu(<<Stay("MAIN_MENU"), Stay("SETTINGS"), Leave("SET_RATING_BIAS"),
                                 Leave("SET_DISPLAY_BRIGHTNESS")>>, 1),
   SET_DISPLAY_BRIGHTNESS |-> Menu(<<Stay("MAIN_MENU"), Leave("SET_DISPLAY_BRIGHTNESS")>>, 0),
   SET_RATING_BIAS    |-> Menu(<<Stay("MAIN_MENU"), Leave("SET_RATING_BIAS")>>, 0)]

MenuScreens == DOMAIN menu_list
AdventureScreens ==
  {"PLAY", "PLAY_SUBMENU", "PLAY_SONG_INFO", "PLAYLIST", "PLAYLIST_SUBMENU", "PLAYLIST_SONG_INFO",
   "NAVIGATION_1", "NAVIGATION_2", "QUIT", "DELETE_MASTERLIST", "SET_DISPLAY_BRIGHTNESS"}

Init ==
  /\ wire = <<>> /\ down = {} /\ armed = {}
  /\ last_button = NoButton
  /\ cur_screen = "PLAY" /\ in_menu = FALSE /\ menu_selection = 0
  /\ bias = 5 /\ stale = FALSE
  /\ adventure \in BOOLEAN
  /\ event = NoEvent /\ call = "none"

Calls(f) == call' = f
Stays == UNCHANGED screen
Goes(s) == cur_screen' = s /\ UNCHANGED <<in_menu, menu_selection>>
KeepsBias == UNCHANGED <<bias, stale>>

------------------------------------------------------------------------------
\* process_ir_event() of the build with menus, one action per stage; a stage is
\* reached when the ones before it have not taken the event.
Recomputes ==
  IF cur_screen = "SET_RATING_BIAS" THEN Calls("start_song_picker") /\ stale' = FALSE
                                    ELSE Calls("none") /\ UNCHANGED stale

\* Mutant: only the bottom button and the knob recalculate.
HoldTopKeepsSums ==
  /\ cur_screen' = IF cur_screen = "PLAY" THEN "PLAYLIST" ELSE "PLAY"
  /\ in_menu' = FALSE
  /\ Calls("none")
  /\ UNCHANGED <<menu_selection, bias, stale>>

HoldTop ==
  /\ cur_screen' = IF cur_screen = "PLAY" THEN "PLAYLIST" ELSE "PLAY"
  /\ in_menu' = FALSE
  /\ Recomputes
  /\ UNCHANGED <<menu_selection, bias>>

\* Mutant: the selection of the menu before is kept.
SelectsKeepsPlace(n) ==
  LET item == menu_list[cur_screen].items[n + 1] IN
    /\ in_menu' = ~item.leave_menu
    /\ cur_screen' = item.to
    /\ UNCHANGED menu_selection
Selects(n) ==
  LET item == menu_list[cur_screen].items[n + 1] IN
    /\ in_menu' = ~item.leave_menu
    /\ cur_screen' = item.to
    /\ menu_selection' = menu_list[item.to].default_item

InMenu(button) ==
  /\ \/ button = "left" /\ Selects(0) /\ Calls("none")
     \/ /\ button \in {"right", "knob"}
        /\ Selects(menu_selection)
        /\ Calls(IF cur_screen = "PLAYLIST" /\ menu_selection = 4 THEN "do_remove_playlist_entry" ELSE "none")
     \/ /\ button \in {"top", "knob_left"}
        /\ menu_selection' = IF menu_selection > 0 THEN menu_selection - 1 ELSE menu_selection
        /\ UNCHANGED <<cur_screen, in_menu>> /\ Calls("none")
     \/ /\ button \in {"bottom", "knob_right"}
        /\ menu_selection' = IF menu_selection + 1 < Len(menu_list[cur_screen].items)
                             THEN menu_selection + 1 ELSE menu_selection
        /\ UNCHANGED <<cur_screen, in_menu>> /\ Calls("none")
     \/ button \in RemoteKeys /\ Stays /\ Calls("none")
  /\ KeepsBias

\* The keys that mean the same everywhere outside the menu.
AnyScreen ==
  [vol_minus |-> "volume", vol_plus |-> "volume", prog |-> "do_toggle_player_command",
   track_minus |-> "CMD_STOP", track_plus |-> "CMD_SKIP"]

OnQuitScreen(button) ==
  /\ IF button = "knob" THEN Calls("do_quit") /\ Stays
     ELSE /\ cur_screen' = "MAIN_MENU" /\ in_menu' = TRUE
          /\ menu_selection' = menu_list["MAIN_MENU"].default_item
          /\ Calls("none")
  /\ KeepsBias

OpenMenu ==
  /\ Recomputes
  /\ in_menu' = TRUE
  /\ menu_selection' = menu_list[cur_screen].default_item
  /\ UNCHANGED <<cur_screen, bias>>

\* db_manual_rating_bias is a float, and (int)(bias*10) cuts off: the sum of a tenth
\* and a float is never too small, the difference is for 7 and 9 tenths.
Raised(b) == IF b = 10 THEN 10 ELSE b + 1
Lowered(b) == CASE b = 0 -> 0 [] b = 7 -> 5 [] b = 9 -> 7 [] OTHER -> b - 1

Lower == {"knob_left", "left"}
Raise == {"knob_right", "right"}

\* Left, right and what the screen does with them; on most screens nothing.
OnScreenCalls(button) ==
  CASE cur_screen = "PLAY" ->
         (CASE button = "top"   -> "do_toggle_player_command"
            [] button = "left"  -> "CMD_STOP"
            [] button = "right" -> "CMD_SKIP"
            [] button \in Knob  -> "volume"
            [] button = "digit" -> "do_song_rating_adjust"
            [] OTHER            -> "none")
    [] cur_screen = "PLAYLIST" ->
         (IF button = "top" THEN "do_remove_playlist_entry"
          ELSE IF button \in Lower \cup Raise THEN "select" ELSE "none")
    [] cur_screen \in {"PLAY_RATE_SONG", "PLAYLIST_RATE_SONG"} ->
         (IF button \in Lower \cup Raise THEN "do_song_rating_adjust" ELSE "none")
    [] cur_screen = "SET_DISPLAY_BRIGHTNESS" ->
         (IF button \in Lower \cup Raise THEN "brightness" ELSE "none")
    [] OTHER -> "none"

OnScreen(button) ==
  /\ Calls(OnScreenCalls(button))
  /\ bias' = IF cur_screen # "SET_RATING_BIAS" THEN bias
             ELSE IF button \in Lower THEN Lowered(bias)
             ELSE IF button \in Raise THEN Raised(bias) ELSE bias
  /\ stale' = (stale \/ bias' # bias)
  /\ Stays

MenuEvent(button, held) ==
  IF button = "top" /\ held THEN HoldTop
  ELSE IF in_menu THEN InMenu(button)
  ELSE IF button \in DOMAIN AnyScreen THEN Calls(AnyScreen[button]) /\ Stays /\ KeepsBias
  ELSE IF cur_screen = "QUIT" THEN OnQuitScreen(button)
  ELSE IF button \in {"bottom", "knob"} THEN OpenMenu
  ELSE OnScreen(button)

------------------------------------------------------------------------------
\* process_ir_event() of -DADVENTURE: where a button leads, and what it calls.
Leads ==
  [PLAY               |-> [top |-> "PLAY_SUBMENU", bottom |-> "NAVIGATION_1"],
   NAVIGATION_1       |-> [top |-> "PLAY", left |-> "PLAYLIST", bottom |-> "NAVIGATION_2"],
   NAVIGATION_2       |-> [top |-> "QUIT", left |-> "DELETE_MASTERLIST",
                           right |-> "SET_DISPLAY_BRIGHTNESS", bottom |-> "NAVIGATION_1"],
   PLAYLIST           |-> [top |-> "PLAYLIST_SUBMENU", bottom |-> "NAVIGATION_1"],
   PLAY_SONG_INFO     |-> [b \in Panel \ {"knob"} |-> "PLAY"],
   PLAYLIST_SONG_INFO |-> [b \in Panel \ {"knob"} |-> "PLAYLIST"],
   PLAY_SUBMENU       |-> [top |-> "PLAY", right |-> "PLAY_SONG_INFO", bottom |-> "PLAY"],
   PLAYLIST_SUBMENU   |-> [top |-> "PLAYLIST", right |-> "PLAYLIST_SONG_INFO", bottom |-> "PLAYLIST"],
   QUIT               |-> <<>>,
   DELETE_MASTERLIST  |-> [b \in Panel \cup {"digit", "other"} |-> "NAVIGATION_2"],
   SET_DISPLAY_BRIGHTNESS |-> [bottom |-> "NAVIGATION_2"]]

AdventureCalls(button) ==
  CASE cur_screen = "PLAY" /\ button = "left"  -> "CMD_STOP"
    [] cur_screen = "PLAY" /\ button = "right" -> "CMD_SKIP"
    [] cur_screen = "PLAY_SUBMENU" /\ button = "top" -> "do_toggle_player_command"
    [] cur_screen = "PLAYLIST" /\ button \in {"left", "right"} -> "select"
    [] cur_screen = "PLAYLIST_SUBMENU" /\ button = "top" -> "do_remove_playlist_entry"
    [] cur_screen = "NAVIGATION_2" /\ button = "top" -> "do_quit"
    [] cur_screen = "NAVIGATION_2" /\ button = "left" -> "unlink"
    [] cur_screen = "SET_DISPLAY_BRIGHTNESS" /\ button \in {"left", "right"} -> "brightness"
    [] OTHER -> "none"

AdventureEvent(button) ==
  /\ KeepsBias
  /\ IF button \in Knob THEN Calls("volume") /\ Stays
     ELSE IF button \in DOMAIN AnyScreen THEN Calls(AnyScreen[button]) /\ Stays
     ELSE /\ Calls(AdventureCalls(button))
          /\ IF button \in DOMAIN Leads[cur_screen] THEN Goes(Leads[cur_screen][button]) ELSE Stays

process_ir_event(button, held) ==
  IF adventure THEN AdventureEvent(button) ELSE MenuEvent(button, held)

------------------------------------------------------------------------------
\* ir_monitor(): one action per turn of its loop.
NothingProcessed ==
  /\ event' = NoEvent /\ call' = "none"
  /\ UNCHANGED <<screen, bias, stale>>

Processes(button, held) ==
  /\ event' = [button |-> button, held |-> held]
  /\ armed' = armed \ {button}
  /\ process_ir_event(button, held)

\* Mutant: the timeout is taken before the device is looked at.
TimesOutAnyway == last_button # NoButton
\* select() times out after half a second in which a button stayed down.
TimesOut == wire = <<>> /\ last_button # NoButton

\* Mutant: the button is remembered after its event.
ForgetNot == UNCHANGED last_button
Forget == last_button' = NoButton

Timeout ==
  /\ TimesOut
  /\ Forget
  /\ Processes(last_button, TRUE)
  /\ UNCHANGED <<wire, down, adventure>>

Matches(code) == last_button = code.button

ReadPressed ==
  /\ wire # <<>> /\ Head(wire).button \in Panel /\ Head(wire).pressed
  /\ last_button' = Head(wire).button
  /\ armed' = armed \cup {Head(wire).button}
  /\ NothingProcessed
  /\ wire' = Tail(wire)
  /\ UNCHANGED <<down, adventure>>

ReadReleased ==
  /\ wire # <<>> /\ Head(wire).button \in Panel /\ ~Head(wire).pressed
  /\ IF Matches(Head(wire)) THEN Processes(Head(wire).button, FALSE)
     ELSE NothingProcessed /\ UNCHANGED armed
  /\ last_button' = NoButton
  /\ wire' = Tail(wire)
  /\ UNCHANGED <<down, adventure>>

ReadOther ==
  /\ wire # <<>> /\ Head(wire).button \notin Panel
  /\ Processes(Head(wire).button, FALSE)
  /\ last_button' = NoButton
  /\ wire' = Tail(wire)
  /\ UNCHANGED <<down, adventure>>

\* The user's hand.
Press(b) ==
  /\ Len(wire) < MaxWire /\ b \notin down /\ Cardinality(down) < MaxDown
  /\ down' = down \cup {b}
  /\ wire' = Append(wire, [button |-> b, pressed |-> TRUE])
  /\ event' = NoEvent /\ call' = "none"
  /\ UNCHANGED <<last_button, armed, screen, bias, stale, adventure>>

Release(b) ==
  /\ Len(wire) < MaxWire /\ b \in down
  /\ down' = down \ {b}
  /\ wire' = Append(wire, [button |-> b, pressed |-> FALSE])
  /\ event' = NoEvent /\ call' = "none"
  /\ UNCHANGED <<last_button, armed, screen, bias, stale, adventure>>

Turn(b) ==
  /\ Len(wire) < MaxWire
  /\ wire' = Append(wire, [button |-> b])
  /\ event' = NoEvent /\ call' = "none"
  /\ UNCHANGED <<down, last_button, armed, screen, bias, stale, adventure>>

Next ==
  \/ Timeout \/ ReadPressed \/ ReadReleased \/ ReadOther
  \/ \E b \in Panel : Press(b) \/ Release(b)
  \/ \E b \in Knob \cup RemoteKeys : Turn(b)

Spec == Init /\ [][Next]_vars

------------------------------------------------------------------------------
\* Every variable has its type, and the screen is one of the build.
TypeOK ==
  /\ wire \in Seq(Codes) /\ Len(wire) <= MaxWire
  /\ down \subseteq Panel /\ armed \subseteq Panel
  /\ last_button \in Panel \cup {NoButton}
  /\ cur_screen \in IF adventure THEN AdventureScreens ELSE MenuScreens
  /\ in_menu \in BOOLEAN /\ menu_selection \in Nat
  /\ bias \in 0..10 /\ stale \in BOOLEAN

\* process_ir_event() never reads behind the end of a menu: whatever screen a menu
\* was opened on, left or changed for another, the selection is one of its items.
\* The two screens that are nothing but a menu are only shown as one.
MenuInRange ==
  /\ in_menu => menu_selection < Len(menu_list[cur_screen].items)
  /\ cur_screen \in {"MAIN_MENU", "SETTINGS"} => in_menu

\* The picker uses the bias that is set: by whatever way the bias screen is left, the
\* sums have been computed again after the last change.
BiasRecomputed == stale => cur_screen = "SET_RATING_BIAS" /\ ~in_menu

\* A button reported as held is being held, although the report is the absence of a
\* code that may be on its way.
HeldIsHeld == event.held => event.button \in down

\* Every event of a panel button answers a press of its own: presses that overlap, are
\* released in another order or are interrupted by the knob never make two events of one.
EventsAnswerPresses ==
  [][event' # NoEvent /\ event'.button \in Panel => event'.button \in armed]_vars
=============================================================================
