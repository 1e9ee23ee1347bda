---------------------------- MODULE SettingsMenu ----------------------------
(***************************************************************************)
(* The home and settings pages (ui/menu_nbgl.c) over the settings kept in  *)
(* flash (N_storage, globals.h), which app_main initialises.               *)
(*                                                                         *)
(* The same setting is held three times: in flash, in the initState of its *)
(* switch (RAM), and in what is drawn on the screen.  NBGL (outside src/)  *)
(* draws a page from the initStates, flips the switch it drew when it is   *)
(* touched, and then calls controls_callback.                              *)
(***************************************************************************)
EXTENDS Naturals

CONSTANTS
  SwitchPage,    \* the settings page NBGL puts each switch on
  LastPage,      \* the last settings page
  MaxTouches     \* bound on the number of touched switches

Switches == {"DUMMY_SWITCH_1", "DUMMY_SWITCH_2"}
Bit == {0, 1}

ASSUME MenuAssumption ==
  LastPage \in Nat /\ SwitchPage \in [Switches -> 0 .. LastPage] /\ MaxTouches \in Nat

VARIABLES
  running,           \* the application is in its APDU loop
  N_storage,         \* the settings in flash
  switches,          \* initState of each switch
  initSettingPage,   \* where review_warning_choice reopens the settings
  page,              \* what is displayed; "other" is a review or its status page
  current,           \* the settings page displayed
  drawn,             \* the switches as drawn on the settings page
  touches,           \* number of switches touched
  writes             \* number of writes to the flash

vars == <<running, N_storage, switches, initSettingPage, page, current, drawn, touches,
          writes>>

AllOff == [s \in Switches |-> 0]

-----------------------------------------------------------------------------
\* Mutant: the flash is written and the switch is forgotten.
ToggleSetting_flash_only(s) ==
  /\ N_storage' = [N_storage EXCEPT !.allowed[s] = 1 - @]
  /\ writes' = writes + 1
  /\ UNCHANGED switches

\* Mutant: the value is incremented instead of negated.
ToggleSetting_increment(s) ==
  /\ switches' = [switches EXCEPT ![s] = 1 + N_storage.allowed[s]]
  /\ N_storage' = [N_storage EXCEPT !.allowed[s] = 1 + @]
  /\ writes' = writes + 1

\* !N_storage.dummy<n>_allowed into the switch and into the flash.
ToggleSetting(s) ==
  /\ switches' = [switches EXCEPT ![s] = 1 - N_storage.allowed[s]]
  /\ N_storage' = [N_storage EXCEPT !.allowed[s] = 1 - @]
  /\ writes' = writes + 1

\* nbgl_useCaseHomeAndSettings opened on a settings page, switches as in states.
DrawSettings(at, states) == page' = "settings" /\ current' = at /\ drawn' = states

\* Mutant: the page is not remembered.
RememberPage_not(at) == UNCHANGED initSettingPage

\* initSettingPage = page
RememberPage(at) == initSettingPage' = at

\* Mutant: the warning is shown whatever the setting is.
AsksFirst_always(s) == s = "DUMMY_SWITCH_2"

\* Allowing dummy 2 takes a confirmation.
AsksFirst(s) == s = "DUMMY_SWITCH_2" /\ N_storage.allowed[s] = 0

\* A switch is touched.
controls_callback(s) ==
  /\ running /\ page = "settings" /\ current = SwitchPage[s]
  /\ touches < MaxTouches /\ touches' = touches + 1
  /\ RememberPage(current)
  /\ drawn' = [drawn EXCEPT ![s] = 1 - @]
  /\ \/ /\ AsksFirst(s)
        /\ page' = "warning"
        /\ UNCHANGED <<N_storage, switches, writes>>
     \/ /\ ~AsksFirst(s)
        /\ ToggleSetting(s)
        /\ UNCHANGED page
  /\ UNCHANGED <<running, current>>

\* The warning is answered, and the settings are opened again.
review_warning_choice(confirm) ==
  /\ running /\ page = "warning"
  /\ IF confirm THEN ToggleSetting("DUMMY_SWITCH_2")
                ELSE UNCHANGED <<N_storage, switches, writes>>
  /\ DrawSettings(initSettingPage, switches')
  /\ UNCHANGED <<running, initSettingPage, touches>>

-----------------------------------------------------------------------------
(* NBGL: navigation, and pages of other use cases.                         *)
OpenSettings ==
  /\ running /\ page = "home"
  /\ DrawSettings(0, switches)
  /\ UNCHANGED <<running, N_storage, switches, initSettingPage, touches, writes>>

TurnPage ==
  /\ running /\ page = "settings"
  /\ \E at \in 0 .. LastPage : at # current /\ DrawSettings(at, switches)
  /\ UNCHANGED <<running, N_storage, switches, initSettingPage, touches, writes>>

LeaveSettings ==
  /\ running /\ page = "settings"
  /\ page' = "home"
  /\ UNCHANGED <<running, N_storage, switches, initSettingPage, current, drawn, touches,
                 writes>>

\* Mutant: the page of the menu stays in reach behind the review.
ReviewOpens_behind == running /\ page # "other" /\ UNCHANGED vars

\* A command opens a review over any page; the callback of a page that was replaced is
\* never called.
ReviewOpens ==
  /\ running /\ page # "other"
  /\ page' = "other"
  /\ UNCHANGED <<running, N_storage, switches, initSettingPage, current, drawn, touches,
                 writes>>

\* The status page after the review ends and calls ui_menu_main.
ui_menu_main ==
  /\ running /\ page = "other"
  /\ switches' = N_storage.allowed
  /\ page' = "home"
  /\ UNCHANGED <<running, N_storage, initSettingPage, current, drawn, touches, writes>>

-----------------------------------------------------------------------------
(* app_main                                                                *)

\* Mutant: the settings are initialised at every start.
MustInitialise_always == TRUE

\* Whether the flash was never written.
MustInitialise == N_storage.initialized # 1

\* ui_menu_main draws the home page before the flash is initialised.
AppStart ==
  /\ ~running
  /\ running' = TRUE
  /\ switches' = N_storage.allowed
  /\ page' = "home"
  /\ IF MustInitialise
     THEN N_storage' = [allowed |-> AllOff, initialized |-> 1] /\ writes' = writes + 1
     ELSE UNCHANGED <<N_storage, writes>>
  /\ UNCHANGED <<initSettingPage, current, drawn, touches>>

\* app_quit, the loss of the transport or of the power: RAM is lost, flash is not.
AppExit ==
  /\ running
  /\ running' = FALSE
  /\ page' = "off"
  /\ switches' = AllOff /\ initSettingPage' = 0 /\ current' = 0 /\ drawn' = AllOff
  /\ UNCHANGED <<N_storage, touches, writes>>

\* A freshly installed application: N_storage_real has no initializer.
Init ==
  /\ running = FALSE /\ page = "off"
  /\ N_storage = [allowed |-> AllOff, initialized |-> 0]
  /\ switches = AllOff /\ initSettingPage = 0 /\ current = 0 /\ drawn = AllOff
  /\ touches = 0 /\ writes = 0

Next ==
  \/ \E s \in Switches : controls_callback(s)
  \/ \E confirm \in BOOLEAN : review_warning_choice(confirm)
  \/ OpenSettings \/ TurnPage \/ LeaveSettings \/ ReviewOpens \/ ui_menu_main
  \/ AppStart \/ AppExit

Spec == Init /\ [][Next]_vars

-----------------------------------------------------------------------------
\* The types of the state.
TypeOK ==
  /\ running \in BOOLEAN
  /\ N_storage \in [allowed : [Switches -> Bit], initialized : Bit]
  /\ switches \in [Switches -> Bit] /\ drawn \in [Switches -> Bit]
  /\ initSettingPage \in 0 .. LastPage /\ current \in 0 .. LastPage
  /\ page \in {"off", "home", "settings", "warning", "other"}
  /\ touches \in 0 .. MaxTouches /\ writes \in Nat

\* The settings page never lies: each switch is drawn as the flash has it, through
\* touches, cancelled warnings, page turns, reviews that take the screen over, and
\* restarts.
ScreenShowsStorage == page = "settings" => drawn = N_storage.allowed

\* review_warning_choice toggles, it does not set: confirming a warning allows dummy 2
\* because the setting cannot have changed between the question and the answer.
WarningOnlyToAllow == page = "warning" => N_storage.allowed["DUMMY_SWITCH_2"] = 0

\* Answering the warning leads back to the settings page the switch is on.
WarningReturnsToItsPage ==
  [][(page = "warning" /\ page' = "settings") =>
       current' = SwitchPage["DUMMY_SWITCH_2"]]_vars

\* Starting or ending the application, at any moment, changes no setting.
SettingsSurviveRestart ==
  [][running' # running => N_storage'.allowed = N_storage.allowed]_vars

\* The flash is written once in its life by the initialisation, and beyond that at most
\* once for a touch of the user: no restart, review or page turn wears it.
FlashWear == writes <= touches + N_storage.initialized
=============================================================================
