--------------------------- MODULE MCSettingsMenu ---------------------------
EXTENDS SettingsMenu

\* A small screen: one switch to a page, then the page with the version.
MCSwitchPage ==
  [s \in Switches |-> IF s = "DUMMY_SWITCH_1" THEN 0 ELSE 1]
=============================================================================
