------------------------------ MODULE RemoteProofs ------------------------------
(***************************************************************************)
(* Theorems about Remote, for every set of remote control keys, every      *)
(* number of unread codes and of fingers, and both builds.                 *)
(***************************************************************************)
EXTENDS Remote, TLAPS

(* What is on its way in /dev/ir agrees with the hand: the last unread     *)
(* code of a button tells whether the button is down.                      *)
WireTellsDown ==
  \A i \in DOMAIN wire :
    wire[i].button \in Panel /\ (\A j \in DOMAIN wire : j > i => wire[j].button # wire[i].button)
      => (wire[i].pressed <=> wire[i].button \in down)

(* The remembered button is held, unless a code of it is still unread.     *)
LastButtonHeld ==
  last_button # NoButton /\ (\A i \in DOMAIN wire : wire[i].button # last_button)
    => last_button \in down

(* The press of the remembered button has had no event yet.                *)
LastButtonArmed == last_button # NoButton => last_button \in armed

(* The build without menus never shows one.                                *)
NoMenuInAdventure == adventure => ~in_menu

ScreenInv == MenuInRange /\ BiasRecomputed /\ NoMenuInAdventure
ButtonInv == WireTellsDown /\ LastButtonHeld /\ LastButtonArmed
IInv == TypeOK /\ ScreenInv /\ ButtonInv

-----------------------------------------------------------------------------
(* A panel button tells whether it was pressed, and is no key of the       *)
(* remote control.                                                         *)
LEMMA CodeFacts ==
  /\ NoButton \notin Panel /\ Panel \cap (Knob \cup RemoteKeys) = {}
  /\ \A code \in Codes : code.button \in Panel => code.pressed \in BOOLEAN
<1>1. NoButton \notin Panel /\ Panel \cap (Knob \cup RemoteKeys) = {}
  BY RemoteAssumption DEF NoButton, Panel, Knob
<1> QED
  BY <1>1 DEF Codes

(* An item of a menu leads to a screen that has a menu, and a screen that  *)
(* is nothing but a menu is not left to without one.                       *)
Item ==
  {item \in [to : MenuScreens, leave_menu : BOOLEAN] :
     item.leave_menu => item.to \notin {"MAIN_MENU", "SETTINGS"}}

(* A menu opens on one of its items.                                       *)
MenuSound(menu) ==
  /\ menu.items \in Seq(Item)
  /\ menu.default_item \in Nat /\ menu.default_item < Len(menu.items)

(* The screens that have a menu, as a set of their own.                    *)
LEMMA ScreenNames ==
  MenuScreens = {"MAIN_MENU", "PLAY", "PLAY_SONG_INFO", "PLAY_RATE_SONG", "PLAYLIST",
                 "PLAYLIST_SONG_INFO", "PLAYLIST_RATE_SONG", "GLOBAL_SONG_INFO", "QUIT",
                 "SETTINGS", "SET_DISPLAY_BRIGHTNESS", "SET_RATING_BIAS"}
  BY DEF MenuScreens, menu_list

(* What makes an item of the table an item, and a list of them a menu.     *)
LEMMA ItemFacts ==
  /\ \A s \in MenuScreens : Stay(s) \in Item
  /\ \A s \in MenuScreens \ {"MAIN_MENU", "SETTINGS"} : Leave(s) \in Item
  BY DEF Stay, Leave, Item

(* A list of items and the number of one of them make a sound menu.        *)
LEMMA MenuBuilt ==
  /\ \A items \in Seq(Item) : \A n \in Nat : n < Len(items) => MenuSound(Menu(items, n))
  /\ \A s \in MenuScreens, u \in MenuScreens \ {"MAIN_MENU", "SETTINGS"} :
       MenuSound(Menu(<<Stay(s), Leave(u)>>, 0))
<1>1. \A items \in Seq(Item), n \in Nat : n < Len(items) => MenuSound(Menu(items, n))
  BY DEF MenuSound, Menu
<1>2. ASSUME NEW s \in MenuScreens, NEW u \in MenuScreens \ {"MAIN_MENU", "SETTINGS"}
      PROVE  <<Stay(s), Leave(u)>> \in Seq(Item) /\ 0 < Len(<<Stay(s), Leave(u)>>)
  BY ItemFacts
<1> QED
  BY <1>1, <1>2

(* Every menu of the table in global.c is as MenuSound says.               *)
LEMMA MenuFacts == \A s \in MenuScreens : MenuSound(menu_list[s])
<1>1. MenuSound(menu_list["MAIN_MENU"])
  <2> DEFINE items == <<Stay("MAIN_MENU"), Leave("PLAY"), Leave("PLAYLIST"),
                        Leave("GLOBAL_SONG_INFO"), Leave("QUIT"), Stay("SETTINGS")>>
  <2>1. items \in Seq(Item) /\ Len(items) = 6
    BY ItemFacts, ScreenNames
  <2>2. menu_list["MAIN_MENU"] = Menu(items, 0)
    BY DEF menu_list
  <2> HIDE DEF items
  <2>3. \A n \in Nat : n < Len(items) => MenuSound(Menu(items, n))
    BY <2>1, MenuBuilt
  <2> QED
    BY <2>1, <2>2, <2>3
<1>2. MenuSound(menu_list["PLAY"])
  <2> DEFINE items == <<Stay("MAIN_MENU"), Leave("PLAY"), Leave("PLAY_RATE_SONG"),
                        Leave("PLAY_SONG_INFO")>>
  <2>1. items \in Seq(Item) /\ Len(items) = 4
    BY ItemFacts, ScreenNames
  <2>2. menu_list["PLAY"] = Menu(items, 1)
    BY DEF menu_list
  <2> HIDE DEF items
  <2>3. \A n \in Nat : n < Len(items) => MenuSound(Menu(items, n))
    BY <2>1, MenuBuilt
  <2> QED
    BY <2>1, <2>2, <2>3
<1>3. MenuSound(menu_list["PLAYLIST"])
  <2> DEFINE items == <<Stay("MAIN_MENU"), Leave("PLAYLIST"), Leave("PLAYLIST_RATE_SONG"),
                        Leave("PLAYLIST_SONG_INFO"), Leave("PLAYLIST")>>
  <2>1. items \in Seq(Item) /\ Len(items) = 5
    BY ItemFacts, ScreenNames
  <2>2. menu_list["PLAYLIST"] = Menu(items, 1)
    BY DEF menu_list
  <2> HIDE DEF items
  <2>3. \A n \in Nat : n < Len(items) => MenuSound(Menu(items, n))
    BY <2>1, MenuBuilt
  <2> QED
    BY <2>1, <2>2, <2>3
<1>4. MenuSound(menu_list["SETTINGS"])
  <2> DEFINE items == <<Stay("MAIN_MENU"), Stay("SETTINGS"), Leave("SET_RATING_BIAS"),
                        Leave("SET_DISPLAY_BRIGHTNESS")>>
  <2>1. items \in Seq(Item) /\ Len(items) = 4
    BY ItemFacts, ScreenNames
  <2>2. menu_list["SETTINGS"] = Menu(items, 1)
    BY DEF menu_list
  <2> HIDE DEF items
  <2>3. \A n \in Nat : n < Len(items) => MenuSound(Menu(items, n))
    BY <2>1, MenuBuilt
  <2> QED
    BY <2>1, <2>2, <2>3
<1>5. /\ menu_list["PLAY_SONG_INFO"] = Menu(<<Stay("PLAY"), Leave("PLAY_SONG_INFO")>>, 0)
      /\ menu_list["PLAY_RATE_SONG"] = Menu(<<Stay("PLAY"), Leave("PLAY_RATE_SONG")>>, 0)
      /\ menu_list["PLAYLIST_SONG_INFO"] = Menu(<<Stay("PLAYLIST"), Leave("PLAYLIST_SONG_INFO")>>, 0)
      /\ menu_list["PLAYLIST_RATE_SONG"] = Menu(<<Stay("PLAYLIST"), Leave("PLAYLIST_RATE_SONG")>>, 0)
      /\ menu_list["GLOBAL_SONG_INFO"] = Menu(<<Stay("MAIN_MENU"), Leave("GLOBAL_SONG_INFO")>>, 0)
      /\ menu_list["QUIT"] = Menu(<<Stay("MAIN_MENU"), Leave("QUIT")>>, 0)
      /\ menu_list["SET_DISPLAY_BRIGHTNESS"] = Menu(<<Stay("MAIN_MENU"), Leave("SET_DISPLAY_BRIGHTNESS")>>, 0)
      /\ menu_list["SET_RATING_BIAS"] = Menu(<<Stay("MAIN_MENU"), Leave("SET_RATING_BIAS")>>, 0)
  BY DEF menu_list
<1> QED
  BY <1>1, <1>2, <1>3, <1>4, <1>5, MenuBuilt, ScreenNames

(* Without menus, a button leads from a screen to a screen of that build.  *)
LEMMA LeadsFacts ==
  \A s \in AdventureScreens : \A b \in DOMAIN Leads[s] : Leads[s][b] \in AdventureScreens
<1> DEFINE Inside(table) == \A b \in DOMAIN table : table[b] \in AdventureScreens
<1>1. /\ Inside(Leads["PLAY"]) /\ Inside(Leads["NAVIGATION_1"])
      /\ Inside(Leads["NAVIGATION_2"]) /\ Inside(Leads["PLAYLIST"])
  BY DEF Leads, AdventureScreens
<1>2. /\ Inside(Leads["PLAY_SUBMENU"]) /\ Inside(Leads["PLAYLIST_SUBMENU"])
      /\ Inside(Leads["SET_DISPLAY_BRIGHTNESS"])
  BY DEF Leads, AdventureScreens
<1>3. Inside(Leads["PLAY_SONG_INFO"]) /\ Inside(Leads["PLAYLIST_SONG_INFO"])
  BY DEF Leads, AdventureScreens
<1>4. Inside(Leads["DELETE_MASTERLIST"])
  BY DEF Leads, AdventureScreens
<1>5. Inside(Leads["QUIT"])
  BY DEF Leads
<1> QED
  BY <1>1, <1>2, <1>3, <1>4, <1>5 DEF AdventureScreens

-----------------------------------------------------------------------------
(* TypeOK in two parts: what the buttons change, and what an event does.   *)
ButtonTypeOK ==
  /\ wire \in Seq(Codes) /\ Len(wire) <= MaxWire
  /\ down \subseteq Panel /\ armed \subseteq Panel
  /\ last_button \in Panel \cup {NoButton}
ScreenTypeOK ==
  /\ cur_screen \in IF adventure THEN AdventureScreens ELSE MenuScreens
  /\ in_menu \in BOOLEAN /\ menu_selection \in Nat
  /\ bias \in 0..10 /\ stale \in BOOLEAN

(* The two parts are the whole.                                            *)
LEMMA TypeParts ==
  /\ TypeOK <=> ButtonTypeOK /\ ScreenTypeOK
  /\ TypeOK' <=> ButtonTypeOK' /\ ScreenTypeOK'
  BY DEF TypeOK, ButtonTypeOK, ScreenTypeOK

(* Every item of the menu that is shown can be chosen.                     *)
LEMMA SelectsStep ==
  ASSUME ~adventure, ~adventure', ScreenTypeOK, NEW n \in Nat,
         n < Len(menu_list[cur_screen].items), Selects(n),
         ~stale, KeepsBias
  PROVE  ScreenTypeOK' /\ ScreenInv'
<1> DEFINE item == menu_list[cur_screen].items[n + 1]
<1>1. item \in Item
  <2>1. menu_list[cur_screen].items \in Seq(Item)
    BY MenuFacts DEF MenuSound, ScreenTypeOK
  <2> QED
    BY <2>1
<1>2. /\ item.to \in MenuScreens /\ item.leave_menu \in BOOLEAN
      /\ item.leave_menu => item.to \notin {"MAIN_MENU", "SETTINGS"}
  BY <1>1 DEF Item
<1>3. MenuSound(menu_list[item.to])
  BY <1>2, MenuFacts
<1>4. /\ in_menu' = ~item.leave_menu /\ cur_screen' = item.to
      /\ menu_selection' = menu_list[item.to].default_item
  BY DEF Selects
<1> HIDE DEF item
<1>5. menu_selection' \in Nat /\ menu_selection' < Len(menu_list[cur_screen'].items)
  BY <1>3, <1>4 DEF MenuSound
<1>6. ScreenTypeOK'
  BY <1>2, <1>4, <1>5 DEF ScreenTypeOK, KeepsBias
<1>7. MenuInRange'
  BY <1>2, <1>4, <1>5 DEF MenuInRange
<1> QED
  BY <1>6, <1>7 DEF ScreenInv, BiasRecomputed, NoMenuInAdventure, KeepsBias

(* A button pressed in a menu moves the selection inside the menu, or      *)
(* chooses one of its items.                                               *)
LEMMA InMenuStep ==
  ASSUME ~adventure, ~adventure', ScreenTypeOK, ScreenInv, in_menu, NEW button, InMenu(button)
  PROVE  ScreenTypeOK' /\ ScreenInv'
<1>1. ~stale /\ KeepsBias
  BY DEF ScreenInv, BiasRecomputed, InMenu
<1>2. MenuSound(menu_list[cur_screen])
  BY MenuFacts DEF ScreenTypeOK
<1>3. /\ Len(menu_list[cur_screen].items) \in Nat /\ 0 < Len(menu_list[cur_screen].items)
      /\ menu_selection \in Nat /\ menu_selection < Len(menu_list[cur_screen].items)
  BY <1>2 DEF MenuSound, ScreenTypeOK, ScreenInv, MenuInRange
<1>4. CASE Selects(0)
  BY <1>1, <1>3, <1>4, SelectsStep
<1>5. CASE Selects(menu_selection)
  BY <1>1, <1>3, <1>5, SelectsStep
<1>6. CASE /\ UNCHANGED <<cur_screen, in_menu>>
           /\ menu_selection' \in Nat
           /\ menu_selection' < Len(menu_list[cur_screen].items)
  BY <1>1, <1>6 DEF ScreenTypeOK, ScreenInv, MenuInRange, BiasRecomputed, NoMenuInAdventure,
     KeepsBias
<1>7. \/ Selects(0) \/ Selects(menu_selection)
      \/ /\ UNCHANGED <<cur_screen, in_menu>>
         /\ \/ menu_selection' = menu_selection
            \/ menu_selection > 0 /\ menu_selection' = menu_selection - 1
            \/ /\ menu_selection + 1 < Len(menu_list[cur_screen].items)
               /\ menu_selection' = menu_selection + 1
  BY DEF InMenu, Stays, screen
<1>8. \/ menu_selection' = menu_selection
      \/ menu_selection > 0 /\ menu_selection' = menu_selection - 1
      \/ /\ menu_selection + 1 < Len(menu_list[cur_screen].items)
         /\ menu_selection' = menu_selection + 1
      => menu_selection' \in Nat /\ menu_selection' < Len(menu_list[cur_screen].items)
  BY <1>3
<1> QED
  BY <1>4, <1>5, <1>6, <1>7, <1>8

(* A tenth more or less stays between nothing and one.                     *)
LEMMA BiasStep ==
  \A b \in 0..10 : Raised(b) \in 0..10 /\ Lowered(b) \in 0..10
  BY DEF Raised, Lowered

(* With menus, an event leaves a menu or moves inside it, and leaves the   *)
(* screen of the bias only after the sums were computed again.             *)
LEMMA MenuEventStep ==
  ASSUME ~adventure, ~adventure', ScreenTypeOK, ScreenInv, NEW button, NEW held,
         MenuEvent(button, held)
  PROVE  ScreenTypeOK' /\ ScreenInv'
<1> USE DEF ScreenInv, BiasRecomputed, NoMenuInAdventure
<1>1. {"PLAY", "PLAYLIST", "MAIN_MENU"} \subseteq MenuScreens
  BY ScreenNames
<1>2. CASE HoldTop
  BY <1>1, <1>2 DEF HoldTop, Recomputes, ScreenTypeOK, MenuInRange
<1>3. CASE in_menu /\ InMenu(button)
  BY <1>3, InMenuStep
<1>4. CASE ~in_menu /\ Stays /\ KeepsBias
  BY <1>4 DEF Stays, screen, KeepsBias, ScreenTypeOK, MenuInRange
<1>5. CASE ~in_menu /\ cur_screen = "QUIT" /\ OnQuitScreen(button)
  <2>1. ~stale /\ KeepsBias
    BY <1>5 DEF OnQuitScreen
  <2>2. CASE Stays
    BY <1>4, <1>5, <2>1, <2>2
  <2>3. CASE ~Stays
    <3>1. /\ cur_screen' = "MAIN_MENU" /\ in_menu' = TRUE
          /\ menu_selection' = menu_list["MAIN_MENU"].default_item
      BY <1>5, <2>3 DEF OnQuitScreen
    <3>2. /\ menu_list["MAIN_MENU"].default_item \in Nat
          /\ menu_list["MAIN_MENU"].default_item < Len(menu_list["MAIN_MENU"].items)
      BY <1>1, MenuFacts DEF MenuSound
    <3> QED
      BY <1>1, <2>1, <3>1, <3>2 DEF KeepsBias, ScreenTypeOK, MenuInRange
  <2> QED
    BY <2>2, <2>3
<1>6. CASE ~in_menu /\ OpenMenu
  <2>1. /\ menu_list[cur_screen].default_item \in Nat
        /\ menu_list[cur_screen].default_item < Len(menu_list[cur_screen].items)
    BY MenuFacts DEF MenuSound, ScreenTypeOK
  <2> QED
    BY <1>6, <2>1 DEF OpenMenu, Recomputes, ScreenTypeOK, MenuInRange
<1>7. CASE ~in_menu /\ OnScreen(button)
  <2>1. bias' \in 0..10
    BY <1>7, BiasStep DEF OnScreen, ScreenTypeOK
  <2>2. stale' \in BOOLEAN
    BY <1>7 DEF OnScreen
  <2>3. stale' => cur_screen = "SET_RATING_BIAS"
    BY <1>7 DEF OnScreen
  <2> QED
    BY <1>7, <2>1, <2>2, <2>3 DEF OnScreen, Stays, screen, ScreenTypeOK, MenuInRange
<1> QED
  BY <1>2, <1>3, <1>4, <1>5, <1>6, <1>7 DEF MenuEvent

(* Without menus, an event shows another screen or leaves the one there.   *)
LEMMA AdventureEventStep ==
  ASSUME adventure, adventure', ScreenTypeOK, ScreenInv, NEW button, AdventureEvent(button)
  PROVE  ScreenTypeOK' /\ ScreenInv'
<1>1. {"MAIN_MENU", "SETTINGS", "SET_RATING_BIAS"} \cap AdventureScreens = {}
  BY DEF AdventureScreens
<1>2. KeepsBias /\ UNCHANGED <<in_menu, menu_selection>> /\ cur_screen' \in AdventureScreens
  BY LeadsFacts DEF AdventureEvent, Goes, Stays, screen, ScreenTypeOK
<1> QED
  BY <1>1, <1>2 DEF KeepsBias, ScreenTypeOK, ScreenInv, MenuInRange, BiasRecomputed,
     NoMenuInAdventure

(* Whatever the event, the screen stays one that can be drawn.             *)
LEMMA EventStep ==
  ASSUME TypeOK, ScreenInv, UNCHANGED adventure, NEW button, NEW held,
         process_ir_event(button, held)
  PROVE  ScreenTypeOK' /\ ScreenInv'
<1>1. CASE adventure
  BY <1>1, TypeParts, AdventureEventStep DEF process_ir_event
<1>2. CASE ~adventure
  BY <1>2, TypeParts, MenuEventStep DEF process_ir_event
<1> QED
  BY <1>1, <1>2

(* What the hand does, and a code that is no event, leave the screen.      *)
LEMMA ScreenUnchanged ==
  ScreenTypeOK /\ ScreenInv /\ UNCHANGED <<screen, bias, stale, adventure>>
    => ScreenTypeOK' /\ ScreenInv'
  BY DEF screen, ScreenTypeOK, ScreenInv, MenuInRange, BiasRecomputed, NoMenuInAdventure

-----------------------------------------------------------------------------
(* Reading a code: what is behind it still agrees with the hand.           *)
LEMMA WireRead ==
  ASSUME ButtonTypeOK, WireTellsDown, wire # <<>>, wire' = Tail(wire), UNCHANGED down
  PROVE  /\ Head(wire) \in Codes /\ Tail(wire) \in Seq(Codes) /\ Len(wire') <= MaxWire
         /\ WireTellsDown'
         /\ Head(wire).button \in Panel /\ Head(wire).pressed
            /\ (\A i \in DOMAIN wire' : wire'[i].button # Head(wire).button)
              => Head(wire).button \in down
<1>1. /\ wire \in Seq(Codes) /\ Len(wire) \in Nat \ {0} /\ DOMAIN wire = 1..Len(wire)
      /\ wire' \in Seq(Codes) /\ Len(wire') = Len(wire) - 1 /\ DOMAIN wire' = 1..Len(wire')
      /\ Head(wire) = wire[1] /\ wire[1] \in Codes
  BY DEF ButtonTypeOK
<1>2. \A i \in DOMAIN wire' : i + 1 \in DOMAIN wire /\ wire'[i] = wire[i + 1]
  BY <1>1
<1>3. \A i \in DOMAIN wire : i # 1 => i - 1 \in DOMAIN wire' /\ wire'[i - 1] = wire[i]
  BY <1>1
<1>4. Len(wire') <= MaxWire
  BY <1>1, RemoteAssumption DEF ButtonTypeOK
<1>5. WireTellsDown'
  <2> SUFFICES ASSUME NEW i \in DOMAIN wire', wire'[i].button \in Panel,
                      \A j \in DOMAIN wire' : j > i => wire'[j].button # wire'[i].button
               PROVE  wire'[i].pressed <=> wire'[i].button \in down
    BY DEF WireTellsDown
  <2>1. i + 1 \in DOMAIN wire /\ wire'[i] = wire[i + 1]
    BY <1>2
  <2>2. ASSUME NEW j \in DOMAIN wire, j > i + 1
        PROVE  wire[j].button # wire[i + 1].button
    <3>1. j - 1 \in DOMAIN wire' /\ j - 1 > i /\ wire'[j - 1] = wire[j]
      BY <1>1, <1>3, <2>2
    <3> QED
      BY <2>1, <3>1
  <2> QED
    BY <2>1, <2>2 DEF WireTellsDown
<1>6. ASSUME Head(wire).button \in Panel, Head(wire).pressed,
             \A i \in DOMAIN wire' : wire'[i].button # Head(wire).button
      PROVE  Head(wire).button \in down
  <2>1. ASSUME NEW j \in DOMAIN wire, j > 1
        PROVE  wire[j].button # wire[1].button
    <3>1. j - 1 \in DOMAIN wire' /\ wire'[j - 1] = wire[j]
      BY <1>1, <1>3, <2>1
    <3> QED
      BY <1>1, <1>6, <3>1
  <2> QED
    BY <1>1, <1>6, <2>1 DEF WireTellsDown
<1> QED
  BY <1>1, <1>4, <1>5, <1>6

(* A code that is put behind the others keeps the ones before it in place. *)
LEMMA WireSent ==
  ASSUME ButtonTypeOK, Len(wire) < MaxWire, NEW code \in Codes, wire' = Append(wire, code)
  PROVE  /\ wire' \in Seq(Codes) /\ Len(wire') <= MaxWire
         /\ Len(wire) + 1 \in DOMAIN wire' /\ wire'[Len(wire) + 1] = code
         /\ \A i \in DOMAIN wire : i \in DOMAIN wire' /\ wire'[i] = wire[i]
         /\ \A i \in DOMAIN wire' : i # Len(wire) + 1 => i \in DOMAIN wire /\ i < Len(wire) + 1
<1>1. /\ wire \in Seq(Codes) /\ Len(wire) \in Nat /\ DOMAIN wire = 1..Len(wire)
      /\ wire' \in Seq(Codes) /\ Len(wire') = Len(wire) + 1 /\ DOMAIN wire' = 1..Len(wire')
      /\ wire'[Len(wire) + 1] = code /\ \A i \in 1..Len(wire) : wire'[i] = wire[i]
  BY DEF ButtonTypeOK
<1> QED
  BY <1>1, RemoteAssumption

(* Pressing or releasing a button changes what its last code says, and no  *)
(* other button's.                                                         *)
LEMMA HandStep ==
  ASSUME ButtonTypeOK, ButtonInv, Len(wire) < MaxWire, NEW b \in Panel, NEW p \in BOOLEAN,
         wire' = Append(wire, [button |-> b, pressed |-> p]),
         down' = IF p THEN down \cup {b} ELSE down \ {b},
         UNCHANGED <<last_button, armed>>
  PROVE  ButtonTypeOK' /\ ButtonInv'
<1> DEFINE code == [button |-> b, pressed |-> p]
           last == Len(wire) + 1
<1>1. code \in Codes /\ code.button = b /\ code.pressed = p
  BY DEF Codes
<1> HIDE DEF code
<1>2. wire' = Append(wire, code)
  BY DEF code
<1>3. /\ wire' \in Seq(Codes) /\ Len(wire') <= MaxWire
      /\ last \in DOMAIN wire' /\ wire'[last] = code
      /\ \A i \in DOMAIN wire : i \in DOMAIN wire' /\ wire'[i] = wire[i]
      /\ \A i \in DOMAIN wire' : i # last => i \in DOMAIN wire /\ i < last
  BY <1>1, <1>2, WireSent
<1>4. ButtonTypeOK'
  BY <1>3 DEF ButtonTypeOK
<1>5. WireTellsDown'
  <2> SUFFICES ASSUME NEW i \in DOMAIN wire', wire'[i].button \in Panel,
                      \A j \in DOMAIN wire' : j > i => wire'[j].button # wire'[i].button
               PROVE  wire'[i].pressed <=> wire'[i].button \in down'
    BY DEF WireTellsDown
  <2>1. CASE i = last
    BY <1>1, <1>3, <2>1
  <2>2. CASE i # last
    <3>1. i \in DOMAIN wire /\ i < last /\ wire'[i] = wire[i]
      BY <1>3, <2>2
    <3>2. wire[i].button # b
      BY <1>1, <1>3, <3>1, DOMAIN wire \subseteq Nat, Len(wire) \in Nat DEF ButtonTypeOK
    <3>3. \A j \in DOMAIN wire : j > i => wire[j].button # wire[i].button
      BY <1>3, <3>1
    <3>4. wire[i].pressed <=> wire[i].button \in down
      BY <3>1, <3>3 DEF ButtonInv, WireTellsDown
    <3> QED
      BY <3>1, <3>2, <3>4
  <2> QED
    BY <2>1, <2>2
<1>6. LastButtonHeld' /\ LastButtonArmed'
  <2>1. LastButtonArmed'
    BY DEF ButtonInv, LastButtonArmed
  <2>2. ASSUME last_button' # NoButton,
               \A i \in DOMAIN wire' : wire'[i].button # last_button'
        PROVE  last_button' \in down'
    <3>1. last_button # b
      BY <1>1, <1>3, <2>2
    <3>2. \A i \in DOMAIN wire : wire[i].button # last_button
      BY <1>3, <2>2
    <3>3. last_button \in down
      BY <2>2, <3>2 DEF ButtonInv, LastButtonHeld
    <3> QED
      BY <3>1, <3>3
  <2> QED
    BY <2>1, <2>2 DEF LastButtonHeld
<1> QED
  BY <1>4, <1>5, <1>6 DEF ButtonInv

(* A turn of the knob or a key of the remote control has no down state.    *)
LEMMA TurnStep ==
  ASSUME ButtonTypeOK, ButtonInv, NEW b \in Knob \cup RemoteKeys, Turn(b)
  PROVE  ButtonTypeOK' /\ ButtonInv'
<1> DEFINE code == [button |-> b]
           last == Len(wire) + 1
<1>1. code \in Codes /\ code.button = b /\ b \notin Panel
  BY CodeFacts DEF Codes
<1>2. wire' = Append(wire, code) /\ Len(wire) < MaxWire /\ UNCHANGED <<down, last_button, armed>>
  BY DEF Turn
<1> HIDE DEF code
<1>3. /\ wire' \in Seq(Codes) /\ Len(wire') <= MaxWire
      /\ last \in DOMAIN wire' /\ wire'[last] = code
      /\ \A i \in DOMAIN wire : i \in DOMAIN wire' /\ wire'[i] = wire[i]
      /\ \A i \in DOMAIN wire' : i # last => i \in DOMAIN wire /\ i < last
  BY <1>1, <1>2, WireSent
<1>4. ButtonTypeOK'
  BY <1>2, <1>3 DEF ButtonTypeOK
<1>5. WireTellsDown'
  <2> SUFFICES ASSUME NEW i \in DOMAIN wire', wire'[i].button \in Panel,
                      \A j \in DOMAIN wire' : j > i => wire'[j].button # wire'[i].button
               PROVE  wire'[i].pressed <=> wire'[i].button \in down
    BY <1>2 DEF WireTellsDown
  <2>1. i \in DOMAIN wire /\ wire'[i] = wire[i]
    BY <1>1, <1>3
  <2>2. \A j \in DOMAIN wire : j > i => wire[j].button # wire[i].button
    BY <1>3, <2>1
  <2> QED
    BY <2>1, <2>2 DEF ButtonInv, WireTellsDown
<1>6. LastButtonHeld' /\ LastButtonArmed'
  BY <1>2, <1>3 DEF ButtonInv, LastButtonHeld, LastButtonArmed
<1> QED
  BY <1>4, <1>5, <1>6 DEF ButtonInv

(* One turn of ir_monitor()'s loop, or one movement of the hand.           *)
LEMMA NextIInv == IInv /\ [Next]_vars => IInv'
<1> SUFFICES ASSUME IInv, [Next]_vars PROVE IInv'
  OBVIOUS
<1>0. /\ TypeOK /\ ButtonTypeOK /\ ScreenTypeOK /\ ScreenInv /\ ButtonInv
      /\ WireTellsDown /\ LastButtonHeld /\ LastButtonArmed
  BY TypeParts DEF IInv, ButtonInv
<1>1. ASSUME ButtonTypeOK', ButtonInv', UNCHANGED <<screen, bias, stale, adventure>>
      PROVE  IInv'
  BY <1>0, <1>1, ScreenUnchanged, TypeParts DEF IInv
<1>2. ASSUME ButtonTypeOK', ButtonInv', UNCHANGED adventure,
             NEW button, NEW held, process_ir_event(button, held)
      PROVE  IInv'
  BY <1>0, <1>2, EventStep, TypeParts DEF IInv
<1>3. CASE Timeout
  <2>1. /\ last_button' = NoButton /\ armed' = armed \ {last_button}
        /\ UNCHANGED <<wire, down, adventure>> /\ process_ir_event(last_button, TRUE)
    BY <1>3 DEF Timeout, Forget, Processes
  <2>2. ButtonTypeOK' /\ ButtonInv'
    BY <1>0, <2>1 DEF ButtonTypeOK, ButtonInv, WireTellsDown, LastButtonHeld, LastButtonArmed
  <2> QED
    BY <1>2, <2>1, <2>2
<1>4. CASE ReadPressed
  <2>1. /\ wire # <<>> /\ Head(wire).button \in Panel /\ Head(wire).pressed
        /\ last_button' = Head(wire).button /\ armed' = armed \cup {Head(wire).button}
        /\ UNCHANGED <<screen, bias, stale, adventure, down>> /\ wire' = Tail(wire)
    BY <1>4 DEF ReadPressed, NothingProcessed
  <2>2. /\ Tail(wire) \in Seq(Codes) /\ Len(wire') <= MaxWire /\ WireTellsDown'
        /\ LastButtonHeld'
    BY <1>0, <2>1, WireRead DEF LastButtonHeld
  <2>3. ButtonTypeOK' /\ ButtonInv'
    BY <1>0, <2>1, <2>2 DEF ButtonTypeOK, ButtonInv, LastButtonArmed
  <2> QED
    BY <1>1, <2>1, <2>3
<1>5. ASSUME wire # <<>>, wire' = Tail(wire), UNCHANGED down, last_button' = NoButton,
             armed' \subseteq armed
      PROVE  ButtonTypeOK' /\ ButtonInv'
  <2>1. Tail(wire) \in Seq(Codes) /\ Len(wire') <= MaxWire /\ WireTellsDown'
    BY <1>0, <1>5, WireRead
  <2> QED
    BY <1>0, <1>5, <2>1 DEF ButtonTypeOK, ButtonInv, LastButtonHeld, LastButtonArmed
<1>6. CASE ReadReleased
  <2>1. ButtonTypeOK' /\ ButtonInv'
    BY <1>5, <1>6 DEF ReadReleased, Processes
  <2>2. CASE Matches(Head(wire))
    BY <1>2, <1>6, <2>1, <2>2 DEF ReadReleased, Processes
  <2>3. CASE ~Matches(Head(wire))
    BY <1>1, <1>6, <2>1, <2>3 DEF ReadReleased, NothingProcessed
  <2> QED
    BY <2>2, <2>3
<1>7. CASE ReadOther
  <2>1. ButtonTypeOK' /\ ButtonInv'
    BY <1>5, <1>7 DEF ReadOther, Processes
  <2> QED
    BY <1>2, <1>7, <2>1 DEF ReadOther, Processes
<1>8. ASSUME NEW b \in Panel, Press(b) \/ Release(b)
      PROVE  IInv'
  <2>1. UNCHANGED <<last_button, armed, screen, bias, stale, adventure>> /\ Len(wire) < MaxWire
    BY <1>8 DEF Press, Release
  <2>2. CASE Press(b)
    <3>1. wire' = Append(wire, [button |-> b, pressed |-> TRUE]) /\ down' = down \cup {b}
      BY <2>2 DEF Press
    <3>2. ButtonTypeOK' /\ ButtonInv'
      BY <1>0, <2>1, <3>1, HandStep
    <3> QED
      BY <1>1, <2>1, <3>2
  <2>3. CASE Release(b)
    <3>1. wire' = Append(wire, [button |-> b, pressed |-> FALSE]) /\ down' = down \ {b}
      BY <2>3 DEF Release
    <3>2. ButtonTypeOK' /\ ButtonInv'
      BY <1>0, <2>1, <3>1, HandStep
    <3> QED
      BY <1>1, <2>1, <3>2
  <2> QED
    BY <1>8, <2>2, <2>3
<1>9. ASSUME NEW b \in Knob \cup RemoteKeys, Turn(b)
      PROVE  IInv'
  BY <1>0, <1>1, <1>9, TurnStep DEF Turn
<1>10. CASE UNCHANGED vars
  <2>1. ButtonTypeOK' /\ ButtonInv'
    BY <1>0, <1>10 DEF vars, ButtonTypeOK, ButtonInv, WireTellsDown, LastButtonHeld, LastButtonArmed
  <2> QED
    BY <1>1, <1>10, <2>1 DEF vars
<1> QED
  BY <1>3, <1>4, <1>6, <1>7, <1>8, <1>9, <1>10 DEF Next

(* The invariant holds when ir_monitor() starts: nothing was read yet.     *)
LEMMA InitIInv == Init => IInv
<1> SUFFICES ASSUME Init PROVE IInv
  OBVIOUS
<1>1. ButtonTypeOK /\ ButtonInv
  BY RemoteAssumption DEF Init, ButtonTypeOK, ButtonInv, WireTellsDown, LastButtonHeld,
     LastButtonArmed
<1>2. "PLAY" \in MenuScreens /\ "PLAY" \in AdventureScreens
  BY ScreenNames DEF AdventureScreens
<1>3. ScreenTypeOK
  <2>1. cur_screen \in IF adventure THEN AdventureScreens ELSE MenuScreens
    BY <1>2 DEF Init
  <2>2. in_menu \in BOOLEAN /\ stale \in BOOLEAN
    BY DEF Init
  <2>3. menu_selection \in Nat /\ bias \in 0..10
    BY DEF Init
  <2> QED
    BY <2>1, <2>2, <2>3 DEF ScreenTypeOK
<1>4. ScreenInv
  BY DEF Init, ScreenInv, MenuInRange, BiasRecomputed, NoMenuInAdventure
<1> QED
  BY <1>1, <1>3, <1>4, TypeParts DEF IInv

(* The invariant holds in every reachable state.                           *)
LEMMA Invariance == Spec => []IInv
  BY InitIInv, NextIInv, PTL DEF Spec

(* Every variable of the input keeps its type, whatever is pressed.        *)
THEOREM TypeCorrect == Spec => []TypeOK
<1>1. IInv => TypeOK
  BY DEF IInv
<1> QED
  BY <1>1, Invariance, PTL

(* process_ir_event() never indexes past the items of the menu it shows,   *)
(* by whatever events it came there.                                       *)
THEOREM MenusStayInRange == Spec => []MenuInRange
<1>1. IInv => MenuInRange
  BY DEF IInv, ScreenInv
<1> QED
  BY <1>1, Invariance, PTL

(* The song picker never goes on with a bias other than the one shown once *)
(* the bias screen is left.                                                *)
THEOREM BiasIsRecomputed == Spec => []BiasRecomputed
<1>1. IInv => BiasRecomputed
  BY DEF IInv, ScreenInv
<1> QED
  BY <1>1, Invariance, PTL

-----------------------------------------------------------------------------
(* Only the timeout reports a button as held, and it comes when no code is *)
(* on its way: the remembered button is then down.                         *)
LEMMA HeldStep == IInv /\ HeldIsHeld /\ [Next]_vars => HeldIsHeld'
<1> SUFFICES ASSUME IInv, HeldIsHeld, [Next]_vars PROVE HeldIsHeld'
  OBVIOUS
<1>1. CASE Timeout
  <2>1. wire = <<>> /\ last_button # NoButton
    BY <1>1 DEF Timeout, TimesOut
  <2>2. DOMAIN wire = {}
    BY <2>1
  <2>3. last_button \in down
    BY <2>1, <2>2 DEF IInv, ButtonInv, LastButtonHeld
  <2>4. event' = [button |-> last_button, held |-> TRUE] /\ down' = down
    BY <1>1 DEF Timeout, Processes
  <2> QED
    BY <2>3, <2>4 DEF HeldIsHeld
<1>2. CASE ReadPressed \/ ReadReleased \/ ReadOther
  <2>1. event' = NoEvent \/ event' = [button |-> Head(wire).button, held |-> FALSE]
    BY <1>2 DEF ReadPressed, ReadReleased, ReadOther, NothingProcessed, Processes
  <2>2. ~event'.held
    BY <2>1 DEF NoEvent
  <2> QED
    BY <2>2 DEF HeldIsHeld
<1>3. ASSUME NEW b, Press(b) \/ Release(b) \/ Turn(b)
      PROVE  HeldIsHeld'
  BY <1>3 DEF Press, Release, Turn, NoEvent, HeldIsHeld
<1>4. CASE UNCHANGED vars
  BY <1>4 DEF vars, HeldIsHeld
<1> QED
  BY <1>1, <1>2, <1>3, <1>4 DEF Next

(* A button is reported as held only while it is held down.                *)
THEOREM HeldButtonsAreHeld == Spec => []HeldIsHeld
<1>1. Init => HeldIsHeld
  BY DEF Init, NoEvent, HeldIsHeld
<1> QED
  BY <1>1, HeldStep, Invariance, PTL DEF Spec

-----------------------------------------------------------------------------
(* What EventsAnswerPresses says of one step.                              *)
AnswersPress == event' # NoEvent /\ event'.button \in Panel => event'.button \in armed

(* Only the remembered button gets an event of the panel, and its press    *)
(* has had none.                                                           *)
LEMMA AnswerStep == IInv /\ [Next]_vars => [AnswersPress]_vars
<1> SUFFICES ASSUME IInv, Next PROVE AnswersPress
  BY DEF AnswersPress
<1>1. LastButtonArmed
  BY DEF IInv, ButtonInv
<1>2. CASE Timeout
  BY <1>1, <1>2 DEF Timeout, TimesOut, Processes, AnswersPress, LastButtonArmed
<1>3. CASE ReadPressed
  BY <1>3 DEF ReadPressed, NothingProcessed, AnswersPress
<1>4. CASE ReadReleased
  <2>1. CASE Matches(Head(wire))
    <3>1. event' = [button |-> Head(wire).button, held |-> FALSE]
          /\ last_button = Head(wire).button /\ Head(wire).button \in Panel
      BY <1>4, <2>1 DEF ReadReleased, Processes, Matches
    <3> QED
      BY <1>1, <3>1, CodeFacts DEF AnswersPress, LastButtonArmed
  <2>2. CASE ~Matches(Head(wire))
    BY <1>4, <2>2 DEF ReadReleased, NothingProcessed, AnswersPress
  <2> QED
    BY <2>1, <2>2
<1>5. CASE ReadOther
  <2>1. event' = [button |-> Head(wire).button, held |-> FALSE] /\ Head(wire).button \notin Panel
    BY <1>5 DEF ReadOther, Processes
  <2> QED
    BY <2>1 DEF AnswersPress
<1>6. ASSUME NEW b, Press(b) \/ Release(b) \/ Turn(b)
      PROVE  AnswersPress
  BY <1>6 DEF Press, Release, Turn, AnswersPress
<1> QED
  BY <1>2, <1>3, <1>4, <1>5, <1>6 DEF Next

(* Every event of a panel button answers a press of its own.               *)
THEOREM OneEventPerPress == Spec => EventsAnswerPresses
  BY AnswerStep, Invariance, PTL DEF Spec, EventsAnswerPresses, AnswersPress
=============================================================================
