-------------------------- MODULE TokenInfoProofs --------------------------
(***************************************************************************)
(* The token slot, for every set of addresses, tickers and magnitudes and  *)
(* every hardcoded database.                                               *)
(***************************************************************************)
EXTENDS TokenInfo, TLAPS

\* The slot is the one the last descriptor leaves.
SlotIsLast == g_dynamic_token_info = SlotAfter(provided)

\* A last descriptor that is good is the last good one.
LastGood == DescriptorOk(provided) => accepted = provided

Inductive == TypeOK /\ SlotIsLast /\ LastGood

\* The checks of the handler accept a TUID exactly when it is one well-formed address.
LEMMA TuidIsOneAddress ==
  ASSUME NEW tuid \in Tuids
  PROVE  (parse_dynamic_token_tuid(tuid) /\ ReceivedAddress(tuid)) <=>
         \E addr \in Addresses : tuid = <<[tag |-> "TAG_TOKEN_ADDRESS", value |-> addr]>>
<1>1. PICK n \in 0 .. 2 : tuid \in [1 .. n -> TuidEntries]
  BY DEF Tuids
<1>2. ASSUME parse_dynamic_token_tuid(tuid), ReceivedAddress(tuid)
      PROVE  \E addr \in Addresses : tuid = <<[tag |-> "TAG_TOKEN_ADDRESS", value |-> addr]>>
  <2>1. PICK i \in 1 .. n : tuid[i].tag = "TAG_TOKEN_ADDRESS"
    BY <1>1, <1>2 DEF ReceivedAddress
  <2>2. n # 2
    BY <1>1, <1>2 DEF parse_dynamic_token_tuid
  <2>3. n = 1
    BY <1>1, <2>1, <2>2
  <2>4. tuid[1].tag = "TAG_TOKEN_ADDRESS" /\ tuid[1].value \in Addresses
    BY <1>1, <1>2, <2>3
    DEF parse_dynamic_token_tuid, handle_tuid_token_address, TuidEntries
  <2>5. tuid[1] = [tag |-> "TAG_TOKEN_ADDRESS", value |-> tuid[1].value]
    BY <1>1, <2>3, <2>4 DEF TuidEntries
  <2>6. tuid = <<tuid[1]>>
    BY <1>1, <2>3
  <2> QED BY <2>4, <2>5, <2>6
<1>3. ASSUME NEW addr \in Addresses, tuid = <<[tag |-> "TAG_TOKEN_ADDRESS", value |-> addr]>>
      PROVE  parse_dynamic_token_tuid(tuid) /\ ReceivedAddress(tuid)
  BY <1>3, TokenAssumption
  DEF parse_dynamic_token_tuid, handle_tuid_token_address, ReceivedAddress
<1> QED BY <1>2, <1>3

\* A descriptor is good exactly when it names some token.
LEMMA GoodNames ==
  ASSUME NEW d \in Descriptors
  PROVE  DescriptorOk(d) <=> \E addr \in Addresses : Names(d, addr)
BY TuidIsOneAddress
DEF Descriptors, DescriptorOk, Names, CoinTypes, validate_coin_type

\* The one address of a good descriptor.
LEMMA NamedAddress ==
  ASSUME NEW d \in Descriptors, NEW addr \in Addresses, Names(d, addr)
  PROVE  TokenAddress(d.TUID) = addr
BY DEF Names, TokenAddress

\* What the handler leaves in the slot is well-typed.
LEMMA SlotType ==
  ASSUME NEW d \in Descriptors \cup {Nothing}
  PROVE  /\ SlotAfter(d) \in Slots
         /\ SlotAfter(d).received => SlotAfter(d).address \in Addresses
<1>1. CASE d \in Descriptors /\ DescriptorOk(d)
  <2>1. PICK addr \in Addresses : Names(d, addr)
    BY <1>1, GoodNames
  <2>2. TokenAddress(d.TUID) = addr
    BY <1>1, <2>1, NamedAddress
  <2> QED
    BY <1>1, <2>1, <2>2 DEF SlotAfter, set_token_info, Slots, Descriptors
<1>2. CASE ~DescriptorOk(d)
  BY <1>2 DEF SlotAfter, ZeroStorage, Slots
<1>3. CASE d = Nothing
  <2>1. ~DescriptorOk(Nothing)
    BY DEF DescriptorOk, Nothing
  <2> QED BY <1>3, <2>1 DEF SlotAfter, ZeroStorage, Slots
<1> QED BY <1>1, <1>2, <1>3

\* No descriptor leaves the slot zeroed.
LEMMA NothingLeavesZero == SlotAfter(Nothing) = ZeroStorage
BY DEF SlotAfter, DescriptorOk, Nothing

\* SlotAfter and DescriptorOk do not depend on the state.
LEMMA SlotStable ==
  ASSUME SlotIsLast, LastGood, UNCHANGED <<g_dynamic_token_info, provided, accepted>>
  PROVE  SlotIsLast' /\ LastGood'
BY DEF SlotIsLast, LastGood, SlotAfter, DescriptorOk, set_token_info, ZeroStorage

\* The slot is always the one handler_provide_token_info leaves for the last descriptor.
THEOREM TokenInvariant == Spec => []Inductive
<1>1. Init => Inductive
  BY NothingLeavesZero, SlotType DEF Init, Inductive, TypeOK, SlotIsLast, LastGood
<1>2. Inductive /\ [Next]_vars => Inductive'
  <2> SUFFICES ASSUME Inductive, [Next]_vars PROVE Inductive'
    OBVIOUS
  <2>1. ASSUME NEW d \in Descriptors, handler_provide_token_info(d) PROVE Inductive'
    <3>1. TypeOK' /\ SlotIsLast'
      BY <2>1, SlotType DEF handler_provide_token_info, Inductive, TypeOK, SlotIsLast
    <3>2. LastGood'
      BY <2>1, GoodNames DEF handler_provide_token_info, LastGood
    <3> QED BY <3>1, <3>2 DEF Inductive
  <2>2. CASE AppStart \/ AppExit
    BY <2>2, NothingLeavesZero, SlotType
    DEF AppStart, AppExit, Inductive, TypeOK, SlotIsLast, LastGood
  <2>3. CASE UNCHANGED vars
    BY <2>3, SlotStable DEF vars, Inductive, TypeOK
  <2> QED BY <2>1, <2>2, <2>3 DEF Next
<1> QED BY <1>1, <1>2, PTL DEF Spec

\* The slot is typed, and in use only with an address of the right length.
THEOREM TokenTypeCorrect == Spec => []TypeOK
<1>1. Inductive => TypeOK BY DEF Inductive
<1> QED BY <1>1, TokenInvariant, PTL

\* get_token_info answers from the last good descriptor, for the address it names, or from
\* token_db.c, and from a good descriptor that is also the last one for certain.
THEOREM LookupIsCurrent == Spec => []LookupIsOfOneDescriptor
<1>1. Inductive => LookupIsOfOneDescriptor
  <2> SUFFICES ASSUME Inductive, NEW addr \in Addresses
               PROVE  /\ \/ Names(accepted, addr) /\ get_token_info(addr) = TokenOf(accepted)
                         \/ get_token_info(addr) = get_hardcoded_token_info(addr)
                      /\ Names(provided, addr) => get_token_info(addr) = TokenOf(provided)
    BY DEF LookupIsOfOneDescriptor
  <2>1. CASE Names(provided, addr)
    <3>1. provided \in Descriptors
      BY <2>1 DEF Inductive, TypeOK, Names, Nothing
    <3>2. DescriptorOk(provided) /\ TokenAddress(provided.TUID) = addr
      BY <2>1, <3>1, GoodNames, NamedAddress
    <3>3. get_token_info(addr) = TokenOf(provided)
      BY <3>2
      DEF Inductive, SlotIsLast, SlotAfter, set_token_info, get_token_info, DynamicMatches,
          TokenOf
    <3>4. accepted = provided
      BY <3>2 DEF Inductive, LastGood
    <3> QED BY <2>1, <3>3, <3>4
  <2>2. CASE ~Names(provided, addr)
    <3>1. ~DynamicMatches(addr)
      <4> SUFFICES ASSUME DynamicMatches(addr) PROVE FALSE
        OBVIOUS
      <4>1. DescriptorOk(provided) /\ TokenAddress(provided.TUID) = addr
        BY DEF Inductive, SlotIsLast, SlotAfter, set_token_info, DynamicMatches, ZeroStorage
      <4>2. provided \in Descriptors
        BY <4>1 DEF Inductive, TypeOK, DescriptorOk, Nothing
      <4>3. PICK other \in Addresses : Names(provided, other)
        BY <4>1, <4>2, GoodNames
      <4> QED BY <4>1, <4>2, <4>3, <2>2, NamedAddress
    <3> QED BY <2>2, <3>1 DEF get_token_info
  <2> QED BY <2>1, <2>2
<1> QED BY <1>1, TokenInvariant, PTL
=============================================================================
