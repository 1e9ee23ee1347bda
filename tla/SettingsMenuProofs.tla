------------------------- MODULE SettingsMenuProofs -------------------------
(***************************************************************************)
(* The settings, for every layout of the switches on pages and any number  *)
(* of touches.                                                             *)
(***************************************************************************)
EXTENDS SettingsMenu, TLAPS

\* The initStates follow the flash while the application runs, and a flash that was never
\* initialised has every setting off: initialising it changes no setting.
InSync ==
  /\ running => switches = N_storage.allowed
  /\ N_storage.initialized = 0 => N_storage.allowed = AllOff

\* Between two starts, the flash was initialised by the first.
InitialisedOnce == running => N_storage.initialized = 1

\* The touch that opened the warning has not written the flash yet.
TouchOwed == page = "warning" => writes < touches + N_storage.initialized

Inductive ==
  /\ TypeOK /\ InSync /\ InitialisedOnce /\ TouchOwed
  /\ ScreenShowsStorage /\ WarningOnlyToAllow /\ FlashWear

\* Every switch off is a value of the switches.
LEMMA AllOffType == AllOff \in [Switches -> Bit]
BY DEF AllOff, Bit

\* Toggling a setting keeps the three copies typed and in step.
LEMMA ToggleFacts ==
  ASSUME TypeOK, InSync, InitialisedOnce, running, NEW s \in Switches, ToggleSetting(s)
  PROVE  /\ N_storage' \in [allowed : [Switches -> Bit], initialized : Bit]
         /\ N_storage'.initialized = 1
         /\ N_storage'.allowed = [N_storage.allowed EXCEPT ![s] = 1 - @]
         /\ switches' = N_storage'.allowed
         /\ writes' = writes + 1
BY DEF TypeOK, InSync, InitialisedOnce, ToggleSetting, Switches, Bit

\* A freshly installed application satisfies the invariant.
LEMMA InitInductive == Init => Inductive
<1> SUFFICES ASSUME Init PROVE Inductive
  OBVIOUS
<1>1. TypeOK
  <2>1. N_storage \in [allowed : [Switches -> Bit], initialized : Bit]
    BY AllOffType DEF Init, Bit
  <2>2. switches \in [Switches -> Bit] /\ drawn \in [Switches -> Bit]
    BY AllOffType DEF Init
  <2>3. /\ initSettingPage \in 0 .. LastPage /\ current \in 0 .. LastPage
        /\ touches \in 0 .. MaxTouches /\ writes \in Nat
    BY MenuAssumption DEF Init
  <2> QED BY <2>1, <2>2, <2>3 DEF Init, TypeOK
<1>2. InSync /\ InitialisedOnce /\ TouchOwed
  BY DEF Init, InSync, InitialisedOnce, TouchOwed
<1>3. ScreenShowsStorage /\ WarningOnlyToAllow /\ FlashWear
  BY DEF Init, ScreenShowsStorage, WarningOnlyToAllow, FlashWear
<1> QED BY <1>1, <1>2, <1>3 DEF Inductive

\* Every step preserves the invariant.
LEMMA NextInductive == Inductive /\ [Next]_vars => Inductive'
<1> SUFFICES ASSUME Inductive, [Next]_vars PROVE Inductive'
  OBVIOUS
<1> USE MenuAssumption DEF Inductive
<1>1. ASSUME NEW s \in Switches, controls_callback(s) PROVE Inductive'
  <2>1. CASE AsksFirst(s)
    BY <1>1, <2>1 DEF controls_callback, RememberPage, AsksFirst, TypeOK, InSync,
       InitialisedOnce, ScreenShowsStorage, WarningOnlyToAllow, FlashWear, TouchOwed, ToggleSetting, Bit
  <2>2. CASE ~AsksFirst(s)
    <3>1. ToggleSetting(s) /\ page' = page
      BY <1>1, <2>2 DEF controls_callback
    <3>2. /\ N_storage' \in [allowed : [Switches -> Bit], initialized : Bit]
          /\ N_storage'.initialized = 1
          /\ N_storage'.allowed = [N_storage.allowed EXCEPT ![s] = 1 - @]
          /\ switches' = N_storage'.allowed
          /\ writes' = writes + 1
      BY <1>1, <3>1, ToggleFacts DEF controls_callback
    <3> QED
      BY <1>1, <3>1, <3>2 DEF controls_callback, RememberPage, TypeOK, InSync,
         InitialisedOnce, ScreenShowsStorage, WarningOnlyToAllow, FlashWear, TouchOwed, Bit
  <2> QED BY <2>1, <2>2
<1>2. ASSUME NEW confirm \in BOOLEAN, review_warning_choice(confirm) PROVE Inductive'
  <2>1. CASE confirm
    <3>1. ToggleSetting("DUMMY_SWITCH_2")
      BY <1>2, <2>1 DEF review_warning_choice
    <3>2. /\ N_storage' \in [allowed : [Switches -> Bit], initialized : Bit]
          /\ N_storage'.initialized = 1
          /\ switches' = N_storage'.allowed
          /\ writes' = writes + 1
      BY <1>2, <3>1, ToggleFacts DEF review_warning_choice, Switches
    <3> QED
      BY <1>2, <3>2 DEF review_warning_choice, DrawSettings, TypeOK, InSync,
         InitialisedOnce, ScreenShowsStorage, WarningOnlyToAllow, FlashWear, TouchOwed
  <2>2. CASE ~confirm
    BY <1>2, <2>2 DEF review_warning_choice, DrawSettings, TypeOK, InSync,
       InitialisedOnce, ScreenShowsStorage, WarningOnlyToAllow, FlashWear, TouchOwed
  <2> QED BY <2>1, <2>2
<1>3. CASE OpenSettings \/ TurnPage \/ LeaveSettings \/ ReviewOpens \/ ui_menu_main
  BY <1>3 DEF OpenSettings, TurnPage, LeaveSettings, ReviewOpens, ui_menu_main,
     DrawSettings, TypeOK, InSync, InitialisedOnce, ScreenShowsStorage,
     WarningOnlyToAllow, FlashWear, TouchOwed
<1>4. CASE AppStart
  <2>1. N_storage'.allowed = N_storage.allowed /\ N_storage'.initialized = 1
    BY <1>4 DEF AppStart, MustInitialise, InSync, TypeOK, Bit
  <2>2. N_storage' \in [allowed : [Switches -> Bit], initialized : Bit]
    BY <1>4, AllOffType DEF AppStart, TypeOK, Bit
  <2>3. writes' \in Nat /\ writes' <= touches + 1
    BY <1>4 DEF AppStart, MustInitialise, FlashWear, TypeOK, Bit
  <2>4. TypeOK'
    BY <1>4, <2>2, <2>3 DEF AppStart, TypeOK
  <2> QED
    BY <1>4, <2>1, <2>3, <2>4 DEF AppStart, InSync, InitialisedOnce, ScreenShowsStorage,
       WarningOnlyToAllow, FlashWear, TouchOwed
<1>5. CASE AppExit
  <2>1. switches' \in [Switches -> Bit] /\ drawn' \in [Switches -> Bit]
    BY <1>5, AllOffType DEF AppExit
  <2>2. initSettingPage' \in 0 .. LastPage /\ current' \in 0 .. LastPage
    BY <1>5 DEF AppExit
  <2> QED
    BY <1>5, <2>1, <2>2 DEF AppExit, TypeOK, InSync, InitialisedOnce, ScreenShowsStorage,
       WarningOnlyToAllow, FlashWear, TouchOwed
<1>6. CASE UNCHANGED vars
  BY <1>6 DEF vars, TypeOK, InSync, InitialisedOnce, ScreenShowsStorage,
     WarningOnlyToAllow, FlashWear, TouchOwed
<1> QED BY <1>1, <1>2, <1>3, <1>4, <1>5, <1>6 DEF Next

\* The invariant is inductive: it holds in every state the menu, app_main and the flash
\* can reach.
THEOREM MenuInvariant == Spec => []Inductive
BY InitInductive, NextInductive, PTL DEF Spec

\* The settings page shows the flash (drawn switches and N_storage agree), always.
THEOREM ScreenIsFaithful == Spec => []ScreenShowsStorage
<1>1. Inductive => ScreenShowsStorage BY DEF Inductive
<1> QED BY <1>1, MenuInvariant, PTL

\* A confirmed warning can only allow dummy 2: review_warning_choice's toggle is safe.
THEOREM ConfirmationAllows == Spec => []WarningOnlyToAllow
<1>1. Inductive => WarningOnlyToAllow BY DEF Inductive
<1> QED BY <1>1, MenuInvariant, PTL

\* Flash writes are bounded by the user's touches, plus the one of app_main.
THEOREM FlashIsSpared == Spec => []FlashWear
<1>1. Inductive => FlashWear BY DEF Inductive
<1> QED BY <1>1, MenuInvariant, PTL

\* A start or an end of the application changes no setting: the initialisation writes
\* what a flash that was never initialised already holds.
THEOREM RestartKeepsSettings == Spec => SettingsSurviveRestart
<1>1. Inductive /\ [Next]_vars => [running' # running => N_storage'.allowed = N_storage.allowed]_vars
  BY DEF Inductive, InSync, TypeOK, Bit, Next, vars, controls_callback,
     review_warning_choice, OpenSettings, TurnPage, LeaveSettings, ReviewOpens,
     ui_menu_main, AppStart, MustInitialise, AppExit
<1> QED BY <1>1, MenuInvariant, PTL DEF Spec, SettingsSurviveRestart

\* The state keeps its types: in particular a switch and its copy in flash are one bit.
THEOREM MenuTypeCorrect == Spec => []TypeOK
<1>1. Inductive => TypeOK BY DEF Inductive
<1> QED BY <1>1, MenuInvariant, PTL

\* While the warning is open, initSettingPage is the page of the switch that opened it.
PageRemembered ==
  page = "warning" => initSettingPage = SwitchPage["DUMMY_SWITCH_2"]

\* An answered warning leads back to the page its switch is on.
THEOREM WarningPageIsRestored == Spec => WarningReturnsToItsPage
<1>1. Init => PageRemembered
  BY DEF Init, PageRemembered
<1>2. PageRemembered /\ [Next]_vars => PageRemembered'
  <2> SUFFICES ASSUME PageRemembered, [Next]_vars, page' = "warning"
               PROVE  initSettingPage' = SwitchPage["DUMMY_SWITCH_2"]
    BY DEF PageRemembered
  <2>1. ASSUME NEW s \in Switches, controls_callback(s)
        PROVE  initSettingPage' = SwitchPage["DUMMY_SWITCH_2"]
    <3>1. page' = "warning" /\ page = "settings"
      BY <2>1 DEF controls_callback
    <3>2. AsksFirst(s)
      BY <2>1, <3>1 DEF controls_callback
    <3> QED BY <2>1, <3>2 DEF controls_callback, AsksFirst, RememberPage
  <2>2. CASE UNCHANGED vars
    BY <2>2 DEF vars, PageRemembered
  <2>3. CASE \/ \E confirm \in BOOLEAN : review_warning_choice(confirm)
             \/ OpenSettings \/ TurnPage \/ LeaveSettings \/ ReviewOpens \/ ui_menu_main
             \/ AppStart \/ AppExit
    BY <2>3 DEF review_warning_choice, OpenSettings, TurnPage, LeaveSettings, ReviewOpens,
                ui_menu_main, AppStart, AppExit, DrawSettings
  <2> QED BY <2>1, <2>2, <2>3 DEF Next
<1>3. PageRemembered /\ [Next]_vars =>
        [(page = "warning" /\ page' = "settings") =>
           current' = SwitchPage["DUMMY_SWITCH_2"]]_vars
  BY DEF PageRemembered, Next, controls_callback, review_warning_choice, OpenSettings,
         TurnPage, LeaveSettings, ReviewOpens, ui_menu_main, AppStart, AppExit, DrawSettings
<1> QED BY <1>1, <1>2, <1>3, PTL DEF Spec, WarningReturnsToItsPage
=============================================================================
