--------------------------- MODULE HardMailDevice ---------------------------
(***************************************************************************)
(* The device: HardMailApp, SettingsMenu and TokenInfo run as one program. *)
(* They share its life cycle (app_main), the one screen, and the single    *)
(* thread.  The application knows the screen as "home" whichever page of   *)
(* the menu is on it; the menu knows every review and every status page as *)
(* "other".                                                                *)
(***************************************************************************)
EXTENDS HardMailApp

CONSTANTS
  SwitchPage, LastPage, MaxTouches,                     \* of SettingsMenu
  Addresses, NoAddress, BadLength, Tickers, NoTicker,   \* of TokenInfo
  Magnitudes, TOKENS, NotFound,
  Sent                                                  \* the descriptors the host sends

VARIABLES
  N_storage, switches, initSettingPage, menu_page, current, drawn, touches, writes,
  g_dynamic_token_info, provided, accepted

Menu == INSTANCE SettingsMenu WITH page <- menu_page
Tokens == INSTANCE TokenInfo

menu == <<N_storage, switches, initSettingPage, menu_page, current, drawn, touches, writes>>
token == <<g_dynamic_token_info, provided, accepted>>
dvars == <<vars, menu, token>>

ASSUME DeviceAssumption ==
  /\ LastPage \in Nat /\ SwitchPage \in [Menu!Switches -> 0 .. LastPage]
  /\ Sent \subseteq Tokens!Descriptors
  /\ NoAddress \notin Addresses /\ BadLength \notin Addresses

-----------------------------------------------------------------------------
\* PROVIDE_TOKEN_INFO: the slot, and the one reply of each path through the handler.
ProvideTokenInfo ==
  \E p1 \in P1s, p2 \in P2s, d \in Sent :
    /\ Dispatched("PROVIDE_TOKEN_INFO", p1, p2, TRUE)
    /\ Tokens!handler_provide_token_info(d)
    /\ io_send_sw(IF Tokens!DescriptorOk(d) THEN "SWO_SUCCESS" ELSE "SW_INVALID_DYNAMIC_TOKEN")
    /\ UNCHANGED <<running, G_context, display, history, menu>>

\* A review takes the screen over from the page of the menu that is on it.  A review over
\* the status page of an earlier one changes nothing for the menu.
ScreenTakenOver ==
  IF page' \in {"review", "address"} /\ menu_page # "other"
  THEN Menu!ReviewOpens ELSE UNCHANGED menu

\* The other commands.
OtherCommands ==
  /\ \/ MalformedApdu \/ DispatchRefuses \/ handler_get_constant
     \/ GetPublicKey \/ SignTxStart \/ SignTxChunk
  /\ ScreenTakenOver
  /\ UNCHANGED token

\* The user answers a review: the status page replaces it.
Choice == UserChoice /\ UNCHANGED <<menu, token>>

\* The ticker of the status page calls ui_menu_main.
StatusCallback == StatusEnds /\ Menu!ui_menu_main /\ UNCHANGED token

\* The user is in the menu.
MenuStep ==
  /\ \/ \E s \in Menu!Switches : Menu!controls_callback(s)
     \/ \E confirm \in BOOLEAN : Menu!review_warning_choice(confirm)
     \/ Menu!OpenSettings \/ Menu!TurnPage \/ Menu!LeaveSettings
  /\ UNCHANGED <<vars, token>>

\* app_main, from its start to its loop, and its end.
Start == AppStart /\ Menu!AppStart /\ Tokens!AppStart
Exit == AppExit /\ Menu!AppExit /\ Tokens!AppExit

DInit == Init /\ Menu!Init /\ Tokens!Init

DNext ==
  \/ ProvideTokenInfo \/ OtherCommands \/ Choice \/ StatusCallback \/ MenuStep
  \/ Start \/ Exit

DSpec == DInit /\ [][DNext]_dvars

-----------------------------------------------------------------------------
\* While a command waits for the user's answer the menu is out of reach: no touch writes
\* the flash, and the only callback that can run is that of the review.
FlashIdleDuringReview == [][pending > 0 => N_storage' = N_storage]_dvars

\* The host can believe the reply to PROVIDE_TOKEN_INFO: success means that the token can
\* be looked up, at the address that was sent, with the ticker and the decimals that were
\* sent; anything else that no lookup answers with what was refused: each is as it was
\* before the command or back to the hardcoded database.
ReplyTellsTheSlot ==
  [][(provided' # provided /\ running /\ running') =>
       IF reply' = "success"
       THEN \E addr \in Addresses :
              /\ Tokens!Names(provided', addr)
              /\ Tokens!get_token_info(addr)' = Tokens!TokenOf(provided')
       ELSE \A addr \in Addresses :
              Tokens!get_token_info(addr)' \in
                {Tokens!get_token_info(addr), Tokens!get_hardcoded_token_info(addr)}]_dvars
=============================================================================
