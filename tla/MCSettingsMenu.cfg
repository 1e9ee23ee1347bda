SPECIFICATION Spec
CONSTANTS
  SwitchPage <- MCSwitchPage
  LastPage = 2
  MaxTouches = 4
INVARIANTS
  TypeOK
  ScreenShowsStorage
  WarningOnlyToAllow
  FlashWear
PROPERTIES
  WarningReturnsToItsPage
  SettingsSurviveRestart
