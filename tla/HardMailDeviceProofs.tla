----------------------- MODULE HardMailDeviceProofs -----------------------
(***************************************************************************)
(* The device implements each of its parts, and what only holds of the     *)
(* whole: for all constants of the three parts.                            *)
(***************************************************************************)
EXTENDS HardMailDevice, HardMailAppProofs

\* A command changes the page only by opening a review, and never stops the application.
LEMMA CommandAndScreen ==
  ASSUME \/ MalformedApdu \/ DispatchRefuses \/ handler_get_constant
         \/ GetPublicKey \/ SignTxStart \/ SignTxChunk
  PROVE  /\ running' = running
         /\ page' = page \/ page' \in {"review", "address"}
<1>1. CASE MalformedApdu \/ DispatchRefuses \/ handler_get_constant
  BY <1>1 DEF MalformedApdu, DispatchRefuses, handler_get_constant, display
<1>2. CASE GetPublicKey
  BY <1>2 DEF GetPublicKey, handler_get_public_key, PubkeyFails, ui_display_address, display
<1>3. CASE SignTxStart
  BY <1>3 DEF SignTxStart, init_transaction_context, display
<1>4. CASE SignTxChunk
  BY <1>4 DEF SignTxChunk, handler_sign_tx, process_transaction, ui_display_transaction,
              display
<1> QED BY <1>1, <1>2, <1>3, <1>4

\* The user's answer leads to a status page.
LEMMA ChoiceAndScreen ==
  ASSUME UserChoice
  PROVE  /\ running' = running
         /\ page \in {"review", "address"} /\ page' \in StatusPages
BY DEF UserChoice, ReviewApproved, ReviewApprovedButFails, ReviewRejected, AddressConfirmed,
       AddressRejected, StatusPages

-----------------------------------------------------------------------------
(* The parts.                                                              *)

\* Every step of the device is a step of the application or leaves it alone.
LEMMA AppStep == [DNext]_dvars => [Next]_vars
<1>1. CASE ProvideTokenInfo
  <2>1. handler_provide_token_info
    BY <1>1 DEF ProvideTokenInfo, handler_provide_token_info
  <2> QED BY <2>1 DEF Next, Command
<1>2. CASE OtherCommands
  BY <1>2 DEF OtherCommands, Next, Command
<1>3. CASE Choice \/ StatusCallback \/ Start \/ Exit
  BY <1>3 DEF Choice, StatusCallback, Start, Exit, Next
<1>4. CASE MenuStep \/ UNCHANGED dvars
  BY <1>4 DEF MenuStep, dvars
<1> QED BY <1>1, <1>2, <1>3, <1>4 DEF DNext

\* The device implements HardMailApp: all that is proved of the application holds on the
\* device, whatever the menu and the token store do in between.
THEOREM DeviceImplementsApp == DSpec => Spec
<1>1. DInit => Init
  BY DEF DInit
<1> QED BY <1>1, AppStep, PTL DEF DSpec, Spec

\* Every step of the device is a step of the menu or leaves it alone.
LEMMA MenuOrNot == [DNext]_dvars => [Menu!Next]_(Menu!vars)
<1>1. CASE ProvideTokenInfo
  BY <1>1 DEF ProvideTokenInfo, Menu!vars, menu
<1>2. CASE OtherCommands
  <2>1. running' = running /\ (Menu!ReviewOpens \/ UNCHANGED menu)
    BY <1>2, CommandAndScreen DEF OtherCommands, ScreenTakenOver
  <2> QED BY <2>1 DEF Menu!Next, Menu!vars, menu
<1>3. CASE Choice
  BY <1>3, ChoiceAndScreen DEF Choice, Menu!vars, menu
<1>4. CASE StatusCallback \/ Start \/ Exit
  BY <1>4 DEF StatusCallback, Start, Exit, Menu!Next
<1>5. CASE MenuStep
  BY <1>5 DEF MenuStep, Menu!Next
<1>6. CASE UNCHANGED dvars
  BY <1>6 DEF dvars, vars, menu, Menu!vars
<1> QED BY <1>1, <1>2, <1>3, <1>4, <1>5, <1>6 DEF DNext

\* The device implements SettingsMenu: the reviews that take its screen over are those that
\* module allows for.
THEOREM DeviceImplementsMenu == DSpec => Menu!Spec
<1>1. DInit => Menu!Init
  BY DEF DInit
<1> QED BY <1>1, MenuOrNot, PTL DEF DSpec, Menu!Spec

\* Every step of the device is a step of the token store or leaves it alone.
LEMMA TokensOrNot == [DNext]_dvars => [Tokens!Next]_(Tokens!vars)
<1>1. CASE ProvideTokenInfo
  <2>1. PICK d \in Sent : Tokens!handler_provide_token_info(d)
    BY <1>1 DEF ProvideTokenInfo
  <2>2. d \in Tokens!Descriptors
    BY DeviceAssumption
  <2> QED BY <2>1, <2>2 DEF Tokens!Next
<1>2. CASE OtherCommands
  BY <1>2, CommandAndScreen DEF OtherCommands, token, Tokens!vars
<1>3. CASE Choice
  BY <1>3, ChoiceAndScreen DEF Choice, token, Tokens!vars
<1>4. CASE StatusCallback
  BY <1>4 DEF StatusCallback, StatusEnds, token, Tokens!vars
<1>5. CASE MenuStep \/ UNCHANGED dvars
  BY <1>5 DEF MenuStep, dvars, vars, token, Tokens!vars
<1>6. CASE Start \/ Exit
  BY <1>6 DEF Start, Exit, Tokens!Next
<1> QED BY <1>1, <1>2, <1>3, <1>4, <1>5, <1>6 DEF DNext

\* The device implements TokenInfo.
THEOREM DeviceImplementsTokens == DSpec => Tokens!Spec
<1>1. DInit => Tokens!Init
  BY DEF DInit
<1> QED BY <1>1, TokensOrNot, PTL DEF DSpec, Tokens!Spec

-----------------------------------------------------------------------------
(* The whole.                                                              *)

\* The two views of the one screen, that of the application and that of the menu, agree.
OneScreen ==
  /\ page = "off" <=> menu_page = "off"
  /\ page = "home" <=> menu_page \in {"home", "settings", "warning"}

\* They agree in every state of the device.
LEMMA ScreensAgree == DSpec => []OneScreen
<1>1. DInit => OneScreen
  BY DEF DInit, Init, Menu!Init, OneScreen
<1>2. OneScreen /\ [DNext]_dvars => OneScreen'
  <2> SUFFICES ASSUME OneScreen, [DNext]_dvars PROVE OneScreen'
    OBVIOUS
  <2>1. CASE ProvideTokenInfo
    BY <2>1 DEF ProvideTokenInfo, display, menu, OneScreen
  <2>2. CASE OtherCommands
    <3>1. page' = page \/ page' \in {"review", "address"}
      BY <2>2, CommandAndScreen DEF OtherCommands
    <3>2. CASE page' \in {"review", "address"}
      <4>1. menu_page' = "other"
        BY <2>2, <3>2 DEF OtherCommands, ScreenTakenOver, Menu!ReviewOpens, menu
      <4> QED BY <3>2, <4>1 DEF OneScreen
    <3>3. CASE page' \notin {"review", "address"}
      <4>1. page' = page /\ menu_page' = menu_page
        BY <2>2, <3>1, <3>3 DEF OtherCommands, ScreenTakenOver, menu
      <4> QED BY <4>1 DEF OneScreen
    <3> QED BY <3>2, <3>3
  <2>3. CASE Choice
    <3>1. page \in {"review", "address"} /\ page' \in StatusPages /\ menu_page' = menu_page
      BY <2>3, ChoiceAndScreen DEF Choice, menu
    <3> QED BY <3>1 DEF OneScreen, StatusPages
  <2>4. CASE StatusCallback
    BY <2>4 DEF StatusCallback, StatusEnds, Menu!ui_menu_main, OneScreen
  <2>5. CASE MenuStep
    <3>1. page' = page /\ menu_page \in {"home", "settings", "warning"}
      BY <2>5 DEF MenuStep, vars, Menu!controls_callback, Menu!review_warning_choice,
                  Menu!OpenSettings, Menu!TurnPage, Menu!LeaveSettings
    <3>2. menu_page' \in {"home", "settings", "warning"}
      BY <2>5, <3>1 DEF MenuStep, Menu!controls_callback, Menu!review_warning_choice,
                  Menu!OpenSettings, Menu!TurnPage, Menu!LeaveSettings, Menu!DrawSettings
    <3> QED BY <3>1, <3>2 DEF OneScreen
  <2>6. CASE Start \/ Exit
    BY <2>6 DEF Start, Exit, AppStart, AppExit, Menu!AppStart, Menu!AppExit, OneScreen
  <2>7. CASE UNCHANGED dvars
    BY <2>7 DEF dvars, vars, menu, OneScreen
  <2> QED BY <2>1, <2>2, <2>3, <2>4, <2>5, <2>6, <2>7 DEF DNext
<1> QED BY <1>1, <1>2, PTL DEF DSpec

\* The flash is not written while a command waits for the user.
THEOREM NoWriteDuringReview == DSpec => FlashIdleDuringReview
<1> DEFINE A == pending > 0 => N_storage' = N_storage
<1>1. Inductive /\ OneScreen /\ [DNext]_dvars => [A]_dvars
  <2> SUFFICES ASSUME Inductive, OneScreen, DNext, pending > 0
               PROVE  N_storage' = N_storage
    OBVIOUS
  <2>1. page \in {"review", "address"} /\ running
    <3>1. pending = 1
      BY DEF Inductive, OneReplyPerCommand
    <3> QED BY <3>1 DEF Inductive, OneReplyPerCommand, OffWhenStopped
  <2>2. menu_page \notin {"home", "settings", "warning"}
    BY <2>1 DEF OneScreen
  <2>3. CASE ProvideTokenInfo \/ OtherCommands \/ Choice
    BY <2>3 DEF ProvideTokenInfo, OtherCommands, ScreenTakenOver, Menu!ReviewOpens, Choice,
                menu
  <2>4. CASE StatusCallback \/ Exit
    BY <2>4 DEF StatusCallback, Menu!ui_menu_main, Exit, Menu!AppExit
  <2>5. CASE MenuStep
    BY <2>2, <2>5 DEF MenuStep, Menu!controls_callback, Menu!review_warning_choice,
                      Menu!OpenSettings, Menu!TurnPage, Menu!LeaveSettings
  <2>6. CASE Start
    BY <2>1, <2>6 DEF Start, AppStart
  <2> QED BY <2>3, <2>4, <2>5, <2>6 DEF DNext
<1> QED BY <1>1, DeviceImplementsApp, InductiveInvariant, ScreensAgree, PTL
        DEF DSpec, FlashIdleDuringReview

\* The reply to PROVIDE_TOKEN_INFO tells what the token store holds afterwards.
THEOREM ProvideReplyIsTrue == DSpec => ReplyTellsTheSlot
<1> DEFINE Found(addr) ==
      /\ Tokens!Names(provided', addr)
      /\ Tokens!get_token_info(addr)' = Tokens!TokenOf(provided')
           Kept(addr) ==
      Tokens!get_token_info(addr)' \in
        {Tokens!get_token_info(addr), Tokens!get_hardcoded_token_info(addr)}
<1>1. ASSUME DNext, provided' # provided, running, running'
      PROVE  IF reply' = "success" THEN \E addr \in Addresses : Found(addr)
                                   ELSE \A addr \in Addresses : Kept(addr)
  <2>1. ProvideTokenInfo
    BY <1>1 DEF DNext, OtherCommands, Choice, StatusCallback, MenuStep, Start, Exit,
                AppStart, AppExit, token
  <2>2. PICK d \in Sent :
          /\ Tokens!handler_provide_token_info(d)
          /\ io_send_sw(IF Tokens!DescriptorOk(d) THEN "SWO_SUCCESS"
                                                  ELSE "SW_INVALID_DYNAMIC_TOKEN")
    BY <2>1 DEF ProvideTokenInfo
  <2>3. /\ g_dynamic_token_info' = Tokens!SlotAfter(d) /\ provided' = d
        /\ d \in Tokens!Descriptors
    BY <2>2, DeviceAssumption DEF Tokens!handler_provide_token_info
  <2>4. CASE Tokens!DescriptorOk(d)
    <3> DEFINE addr == d.TUID[1].value
    <3>1. reply' = "success"
      BY <2>2, <2>4 DEF io_send_sw, Outcome
    <3>2. /\ addr \in Addresses
          /\ d.TUID = <<[tag |-> "TAG_TOKEN_ADDRESS", value |-> addr]>>
      <4>1. d.TUID \in Tokens!Tuids
        BY <2>3 DEF Tokens!Descriptors
      <4>2. PICK n \in 0 .. 2 : d.TUID \in [1 .. n -> Tokens!TuidEntries]
        BY <4>1 DEF Tokens!Tuids
      <4>3. \A i, j \in 1 .. n :
              d.TUID[i].tag = "TAG_TOKEN_ADDRESS" /\ d.TUID[i].value # BadLength /\ i = j
        BY <2>4, <4>2 DEF Tokens!DescriptorOk, Tokens!parse_dynamic_token_tuid,
                          Tokens!handle_tuid_token_address
      <4>4. n = 1
        <5>1. PICK i \in 1 .. n : TRUE
          BY <2>4, <4>2 DEF Tokens!DescriptorOk, Tokens!ReceivedAddress
        <5>2. n # 2
          BY <4>3
        <5> QED BY <4>2, <5>1, <5>2
      <4>5. /\ d.TUID[1] = [tag |-> "TAG_TOKEN_ADDRESS", value |-> addr]
            /\ addr \in Addresses
        BY <4>2, <4>3, <4>4 DEF Tokens!TuidEntries
      <4>6. d.TUID = <<d.TUID[1]>>
        BY <4>2, <4>4
      <4> QED BY <4>5, <4>6
    <3>3. Tokens!Names(d, addr)
      BY <2>4, <3>2 DEF Tokens!Names, Tokens!DescriptorOk, Tokens!validate_coin_type
    <3>4. Tokens!TokenAddress(d.TUID) = addr
      BY <3>2 DEF Tokens!TokenAddress
    <3>5. g_dynamic_token_info' = [received |-> TRUE, address |-> addr,
                                   ticker |-> d.ticker, decimals |-> d.magnitude]
      BY <2>3, <2>4, <3>4 DEF Tokens!SlotAfter, Tokens!set_token_info
    <3> HIDE DEF addr
    <3>6. Found(addr)
      BY <2>3, <3>3, <3>5 DEF Tokens!get_token_info, Tokens!DynamicMatches, Tokens!TokenOf
    <3> QED BY <3>1, <3>2, <3>6
  <2>5. CASE ~Tokens!DescriptorOk(d)
    <3>1. reply' # "success"
      BY <2>2, <2>5 DEF io_send_sw, Outcome
    <3>2. g_dynamic_token_info'.received = FALSE
      BY <2>3, <2>5 DEF Tokens!SlotAfter, Tokens!ZeroStorage
    <3>3. \A addr \in Addresses : Kept(addr)
      BY <3>2 DEF Tokens!get_token_info, Tokens!DynamicMatches,
                  Tokens!get_hardcoded_token_info
    <3> QED BY <3>1, <3>3
  <2> QED BY <2>4, <2>5
<1> QED BY <1>1, PTL DEF DSpec, ReplyTellsTheSlot
=============================================================================
