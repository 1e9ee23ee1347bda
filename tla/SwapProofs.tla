----------------------------- MODULE SwapProofs -----------------------------
(* What a swap session signs, for all deals, transactions and coins.       *)
EXTENDS Swap, WellFoundedInduction, TLAPS

-----------------------------------------------------------------------------
(* Big-endian numbers.  The value is defined by recursion on the number of *)
(* bytes read; that the recursion has a solution is shown from its finite  *)
(* beginnings.                                                             *)
\* Every non-empty set of natural numbers has a least element.
LEMMA LeastNat ==
  ASSUME NEW S \in SUBSET Nat, S # {}
  PROVE  \E m \in S : \A k \in S : ~(k < m)
<1>1. \E x \in S : \A y \in S : ~(<<y, x>> \in OpToRel(<, Nat))
  BY NatLessThanWellFounded, WFMin, Zenon
<1>2. \A x, y \in Nat : <<y, x>> \in OpToRel(<, Nat) <=> y < x
  BY DEF OpToRel
<1>. QED  BY <1>1, <1>2, Zenon

\* f holds the values of the first 0 .. k bytes.
ValueStep(b, f, i) == IF i = 0 THEN 0 ELSE f[i - 1] * Radix + b[i]
IsValue(b, f, k) == f = [i \in 0..k |-> ValueStep(b, f, i)]

\* What such a function holds.
LEMMA ValueEntry ==
  ASSUME NEW b, NEW f, NEW k \in Nat, IsValue(b, f, k), NEW i \in 0..k
  PROVE  f[i] = ValueStep(b, f, i)
<1>1. [j \in 0..k |-> ValueStep(b, f, j)][i] = ValueStep(b, f, i)
  BY Zenon
<1>. QED  BY <1>1, Zenon DEF IsValue

\* There is one for any number of bytes.
LEMMA ValueExists == \A b : \A k \in Nat : \E f : IsValue(b, f, k)
<1>. SUFFICES ASSUME NEW b PROVE \A k \in Nat : \E f : IsValue(b, f, k)
  OBVIOUS
<1>. DEFINE S == {k \in Nat : ~\E f : IsValue(b, f, k)}
<1>. SUFFICES ASSUME S # {} PROVE FALSE
  BY Zenon
<1>1. PICK k \in S : \A i \in S : ~(i < k)
  <2>. HIDE DEF S
  <2>1. S \in SUBSET Nat
    BY DEF S
  <2>. QED  BY <2>1, LeastNat
<1>2. k \in Nat /\ ~\E f : IsValue(b, f, k)
  BY Zenon
<1>3. CASE k = 0
  <2>. DEFINE g == [i \in 0..0 |-> 0]
  <2>1. \A i \in 0..0 : i = 0
    OBVIOUS
  <2>2. g = [i \in 0..0 |-> ValueStep(b, g, i)]
    <3>. HIDE DEF g
    <3>1. \A i \in 0..0 : ValueStep(b, g, i) = 0
      BY <2>1, Zenon DEF ValueStep
    <3>. QED  BY <3>1, Zenon DEF g
  <2>. HIDE DEF g
  <2>. QED  BY <1>2, <1>3, <2>2, Zenon DEF IsValue
<1>4. CASE k # 0
  <2>. DEFINE j == k - 1
  <2>1. j \in Nat /\ j < k /\ \A i \in 0..k : i # 0 => i - 1 \in 0..j /\ i - 1 \in 0..k
    BY <1>2, <1>4
  <2>. HIDE DEF j
  <2>2. PICK f : IsValue(b, f, j)
    BY <1>1, <2>1, Zenon
  <2>. DEFINE g == [i \in 0..k |-> ValueStep(b, f, i)]
  <2>3. \A i \in 0..k : g[i] = ValueStep(b, f, i)
    BY Zenon
  <2>4. \A i \in 0..j : f[i] = ValueStep(b, f, i)
    BY <2>1, <2>2, ValueEntry, Zenon
  <2>. HIDE DEF g
  <2>5. ASSUME NEW i \in 0..k PROVE ValueStep(b, g, i) = ValueStep(b, f, i)
    <3>1. CASE i = 0
      BY <3>1, Zenon DEF ValueStep
    <3>2. CASE i # 0
      <4>1. g[i - 1] = f[i - 1]
        BY <2>1, <2>3, <2>4, <3>2, Zenon
      <4>. QED  BY <3>2, <4>1, Zenon DEF ValueStep
    <3>. QED  BY <3>1, <3>2
  <2>6. g = [i \in 0..k |-> ValueStep(b, g, i)]
    BY <2>5, Zenon DEF g
  <2>. QED  BY <1>2, <2>6, Zenon DEF IsValue
<1>. QED  BY <1>3, <1>4

\* swap_str_to_u64 computes the last of these values.
LEMMA BigEndianValue ==
  ASSUME NEW b \in Seq(Bytes)
  PROVE  \E f : /\ BigEndian(b) = f[Len(b)]
                /\ f[0] = 0
                /\ \A i \in 1..Len(b) : f[i] = f[i - 1] * Radix + b[i]
<1>. DEFINE n == Len(b)
            value == CHOOSE f : f = [i \in 0..n |-> ValueStep(b, f, i)]
<1>1. n \in Nat
  OBVIOUS
<1>2. BigEndian(b) = value[n]
  BY Zenon DEF BigEndian, ValueStep
<1>. HIDE DEF n
<1>3. \E f : f = [i \in 0..n |-> ValueStep(b, f, i)]
  BY <1>1, ValueExists, Zenon DEF IsValue
<1>4. IsValue(b, value, n)
  BY <1>3, Zenon DEF IsValue
<1>. HIDE DEF value
<1>5. 0 \in 0..n /\ \A i \in 1..n : i \in 0..n /\ i # 0
  BY <1>1
<1>6. value[0] = 0
  BY <1>1, <1>4, <1>5, ValueEntry, Zenon DEF ValueStep
<1>7. \A i \in 1..n : value[i] = value[i - 1] * Radix + b[i]
  <2>. SUFFICES ASSUME NEW i \in 1..n PROVE value[i] = value[i - 1] * Radix + b[i]
    OBVIOUS
  <2>1. value[i] = ValueStep(b, value, i)
    BY <1>1, <1>4, <1>5, ValueEntry, Zenon
  <2>. QED  BY <1>5, <2>1, Zenon DEF ValueStep
<1>. QED  BY <1>2, <1>6, <1>7, Zenon DEF n

\* The bytes of UINT64_MAX.
LEMMA MaxBytesType ==
  /\ Radix \in Nat /\ Radix >= 1 /\ U64_LEN \in Nat
  /\ MaxBytes \in Seq(Bytes) /\ Len(MaxBytes) = U64_LEN
  /\ \A i \in 1..U64_LEN : MaxBytes[i] = Radix - 1
<1>1. Radix \in Nat /\ Radix >= 1 /\ U64_LEN \in Nat
  BY SwapAssumption
<1>2. Radix - 1 \in Bytes
  BY <1>1 DEF Bytes
<1>. DEFINE c == Radix - 1
<1>. HIDE DEF c
<1>3. /\ [i \in 1..U64_LEN |-> c] \in Seq(Bytes)
      /\ Len([i \in 1..U64_LEN |-> c]) = U64_LEN
      /\ \A i \in 1..U64_LEN : [j \in 1..U64_LEN |-> c][i] = c
  BY <1>1, <1>2 DEF c
<1>. QED  BY <1>1, <1>3, Zenon DEF MaxBytes, c

\* A value of at most U64_LEN bytes is at most UINT64_MAX: byte by byte it is not above
\* the value of as many bytes 0xff, and more of these make no smaller value.
LEMMA ValueFits ==
  ASSUME NEW b \in Seq(Bytes), Len(b) <= U64_LEN
  PROVE  BigEndian(b) \in Uint64 /\ BigEndian(b) \in Nat /\ 0 \in Uint64
<1>. DEFINE n == Len(b)
            L == U64_LEN
            R == Radix
<1>1. R \in Nat /\ R >= 1 /\ L \in Nat /\ n \in Nat /\ n <= L
  BY MaxBytesType
<1>2. PICK f : /\ BigEndian(b) = f[n] /\ f[0] = 0
               /\ \A i \in 1..n : f[i] = f[i - 1] * R + b[i]
  BY BigEndianValue, Zenon
<1>3. \A i \in 1..n : b[i] \in Nat /\ b[i] <= R - 1
  <2>1. \A i \in 1..n : b[i] \in Bytes
    OBVIOUS
  <2>2. \A x \in Bytes : x \in Nat /\ x <= R - 1
    BY <1>1 DEF Bytes
  <2>. QED  BY <2>1, <2>2, Zenon
<1>4. PICK g : /\ BigEndian(MaxBytes) = g[L] /\ g[0] = 0
               /\ \A i \in 1..L : g[i] = g[i - 1] * R + (R - 1)
  <2>1. PICK g : /\ BigEndian(MaxBytes) = g[Len(MaxBytes)] /\ g[0] = 0
                 /\ \A i \in 1..Len(MaxBytes) : g[i] = g[i - 1] * R + MaxBytes[i]
    BY MaxBytesType, BigEndianValue, Zenon
  <2>2. \A i \in 1..L : g[i] = g[i - 1] * R + (R - 1)
    BY <2>1, MaxBytesType, Zenon
  <2>. QED  BY <2>1, <2>2, MaxBytesType, Zenon
<1>. HIDE DEF n, L, R
<1>5. \A x, y, r, c \in Nat : x <= y /\ r >= 1 /\ c <= r - 1 =>
        /\ x * r + c \in Nat /\ y * r + (r - 1) \in Nat
        /\ x * r + c <= y * r + (r - 1)
        /\ y <= y * r + (r - 1)
  <2>. SUFFICES ASSUME NEW x \in Nat, NEW y \in Nat, NEW r \in Nat, NEW c \in Nat,
                       x <= y, r >= 1, c <= r - 1
                PROVE  /\ x * r + c \in Nat /\ y * r + (r - 1) \in Nat
                       /\ x * r + c <= y * r + (r - 1)
                       /\ y <= y * r + (r - 1)
    OBVIOUS
  <2>1. x * r <= y * r /\ x * r \in Nat /\ y * r \in Nat
    OBVIOUS
  <2>2. y <= y * r
    OBVIOUS
  <2>. DEFINE u == x * r
              v == y * r
  <2>3. u \in Nat /\ v \in Nat /\ u <= v /\ y <= v
    BY <2>1, <2>2
  <2>. HIDE DEF u, v
  <2>4. u + c \in Nat /\ v + (r - 1) \in Nat /\ u + c <= v + (r - 1) /\ y <= v + (r - 1)
    BY <2>3
  <2>. QED  BY <2>4 DEF u, v
<1>6. \A i \in 1..L : i - 1 \in 0..L
  BY <1>1
<1>7. \A i \in 0..L : /\ g[i] \in Nat
                      /\ i <= n => f[i] \in Nat /\ f[i] <= g[i]
                      /\ i \in 1..L => g[i - 1] <= g[i]
  <2>. DEFINE Ok(i) == /\ g[i] \in Nat
                       /\ i <= n => f[i] \in Nat /\ f[i] <= g[i]
                       /\ i \in 1..L => g[i - 1] <= g[i]
              S == {i \in 0..L : ~Ok(i)}
  <2>. SUFFICES ASSUME S # {} PROVE FALSE
    BY Zenon
  <2>1. PICK i \in S : \A j \in S : ~(j < i)
    <3>. HIDE DEF Ok
    <3>1. S \in SUBSET Nat
      BY <1>1
    <3>. HIDE DEF S
    <3>. QED  BY <3>1, LeastNat
  <2>2. i \in 0..L /\ ~Ok(i)
    BY Zenon
  <2>3. CASE i = 0
    <3>1. 0 \in Nat /\ 0 <= 0 /\ 0 \notin 1..L
      BY <1>1
    <3>. QED  BY <1>2, <1>4, <2>2, <2>3, <3>1, Zenon
  <2>4. CASE i # 0
    <3>. DEFINE j == i - 1
    <3>1. /\ i \in 1..L /\ j \in 0..L /\ j < i /\ (i <= n => j <= n /\ i \in 1..n)
      <4>. HIDE DEF Ok, S
      <4>. QED  BY <1>1, <2>2, <2>4
    <3>2. Ok(j)
      BY <2>1, <3>1, Zenon
    <3>3. g[j] \in Nat /\ (i <= n => f[j] \in Nat /\ f[j] <= g[j])
      BY <3>1, <3>2, Zenon
    <3>4. g[i] = g[j] * R + (R - 1) /\ (i <= n => f[i] = f[j] * R + b[i])
      BY <1>2, <1>4, <3>1, Zenon
    <3>5. i <= n => b[i] \in Nat /\ b[i] <= R - 1
      BY <1>3, <3>1, Zenon
    <3>. HIDE DEF j
    <3>6. g[i] \in Nat /\ g[j] <= g[i]
      <4>. DEFINE y == g[j]
                  c == R - 1
      <4>1. y \in Nat /\ y <= y /\ c \in Nat /\ c <= R - 1
        BY <1>1, <3>3
      <4>. HIDE DEF y, c
      <4>2. y * R + (R - 1) \in Nat /\ y <= y * R + (R - 1)
        BY <1>1, <1>5, <4>1
      <4>. QED  BY <3>4, <4>2, Zenon DEF y
    <3>7. i <= n => f[i] \in Nat /\ f[i] <= g[i]
      <4>. SUFFICES ASSUME i <= n PROVE f[i] \in Nat /\ f[i] <= g[i]
        OBVIOUS
      <4>. DEFINE x == f[j]
                  y == g[j]
                  c == b[i]
      <4>1. x \in Nat /\ y \in Nat /\ x <= y /\ c \in Nat /\ c <= R - 1
        BY <3>3, <3>5, Zenon
      <4>. HIDE DEF x, y, c
      <4>2. x * R + c \in Nat /\ x * R + c <= y * R + (R - 1)
        BY <1>1, <1>5, <4>1
      <4>. QED  BY <3>4, <4>2, Zenon DEF x, y, c
    <3>. QED  BY <2>2, <3>6, <3>7, Zenon DEF j
  <2>. QED  BY <2>3, <2>4
<1>8. \A i \in 0..L : \A j \in 0..L : j <= i => g[j] <= g[i]
  <2>. DEFINE S == {i \in 0..L : \E j \in 0..L : j <= i /\ ~(g[j] <= g[i])}
  <2>. SUFFICES ASSUME S # {} PROVE FALSE
    BY Zenon
  <2>1. PICK i \in S : \A k \in S : ~(k < i)
    <3>1. S \in SUBSET Nat
      BY <1>1
    <3>. HIDE DEF S
    <3>. QED  BY <3>1, LeastNat
  <2>2. PICK j \in 0..L : i \in 0..L /\ j <= i /\ ~(g[j] <= g[i])
    BY Zenon
  <2>3. g[i] \in Nat /\ g[j] \in Nat
    BY <1>7, <2>2, Zenon
  <2>4. j # i
    <3>1. \A x \in Nat : x <= x
      OBVIOUS
    <3>. QED  BY <2>2, <2>3, <3>1, Zenon
  <2>. DEFINE k == i - 1
  <2>5. i \in 1..L /\ k \in 0..L /\ k < i /\ j <= k
    <3>. HIDE DEF S
    <3>. QED  BY <1>1, <2>2, <2>4
  <2>6. g[j] <= g[k]
    BY <2>1, <2>2, <2>5, Zenon
  <2>7. g[k] \in Nat /\ g[k] <= g[i]
    BY <1>7, <2>2, <2>5, Zenon
  <2>8. \A x, y, z \in Nat : x <= y /\ y <= z => x <= z
    OBVIOUS
  <2>. QED  BY <2>2, <2>3, <2>6, <2>7, <2>8, Zenon
<1>9. n \in 0..L /\ L \in 0..L /\ n <= n
  BY <1>1
<1>10. f[n] \in Nat /\ f[n] <= g[n] /\ g[n] <= g[L] /\ g[n] \in Nat /\ g[L] \in Nat
  BY <1>1, <1>7, <1>8, <1>9, Zenon
<1>11. \A x, y, z \in Nat : x <= y /\ y <= z => x \in 0..z /\ 0 \in 0..z
  OBVIOUS
<1>12. f[n] \in 0..g[L] /\ 0 \in 0..g[L]
  BY <1>10, <1>11, Zenon
<1>. QED  BY <1>2, <1>4, <1>10, <1>12, Zenon DEF Uint64

-----------------------------------------------------------------------------
(* Sessions.                                                               *)

\* The texts Exchange displays are those of the deal it holds.
ShownIsPrinted ==
  /\ deal \in Deals \cup {NULL}
  /\ shown # NULL => deal # NULL /\ shown = Printed(deal)

\* While the loop runs, the validated parameters are those of the deal on display and
\* nothing was answered yet.
SessionIsFresh ==
  G_called_from_swap =>
    /\ deal # NULL /\ shown # NULL
    /\ CopyAccepts(deal) /\ G_swap_validated = Validated(deal)
    /\ ~G_swap_response_ready /\ signed = << >>

SwapInv ==
  /\ ShownIsPrinted /\ SessionIsFresh
  /\ G_called_from_swap \in BOOLEAN
  /\ SignedAsShown /\ SessionSignsOnce

\* A coin that is not a token for is_token_swap is the native one, so the text of the
\* amount is that of a native amount: swap_copy_transaction_parameters and
\* swap_handle_get_printable_amount read the configuration alike.
LEMMA AcceptedTransactionWasShown ==
  ASSUME NEW tx, NEW d \in Deals, CopyAccepts(d), G_swap_validated = Validated(d),
         SwapError(tx, FALSE, NoToken) = "SWO_SUCCESS"
  PROVE  /\ Printed(d).amount = Text(tx.value, Native)
         /\ Printed(d).fee = Text(tx.fee, Native)
         /\ UpperCase(d.destination) = format_hex(tx.to)
<1>1. /\ ~is_token_swap
      /\ G_swap_validated.amount = tx.value /\ G_swap_validated.fee = tx.fee
      /\ G_swap_validated.recipient = format_hex(tx.to)
  BY DEF SwapError
<1>2. /\ Validated(d).amount = swap_str_to_u64(d.amount)
      /\ Validated(d).fee = swap_str_to_u64(d.fee)
      /\ Validated(d).recipient = UpperCase(d.destination)
      /\ Validated(d).decimals = CoinOf(d.config).decimals
      /\ Validated(d).ticker = CoinOf(d.config).ticker
  BY DEF Validated
<1>3. CoinOf(d.config) = Native
  <2>1. d.config \in Configs
    BY DEF Deals
  <2>2. CoinOf(d.config) \in [ticker : Tickers, decimals : Nat]
    <3>1. /\ EXPONENT_SMALLEST_UNIT \in Nat
          /\ Configs \subseteq [ticker : Tickers, decimals : Nat] \cup {Malformed, NULL}
          /\ "BOL" \in Tickers
      BY SwapAssumption
    <3>2. Native \in [ticker : Tickers, decimals : Nat]
      BY <3>1 DEF Native
    <3>3. CASE d.config = NULL
      BY <3>2, <3>3 DEF CoinOf
    <3>4. CASE d.config # NULL
      BY <2>1, <3>1, <3>4, Zenon DEF CoinOf, CopyAccepts
    <3>. QED  BY <3>3, <3>4
  <2>3. CoinOf(d.config).ticker = "BOL" /\ CoinOf(d.config).decimals = EXPONENT_SMALLEST_UNIT
    BY <1>1, <1>2 DEF is_token_swap
  <2>. QED  BY <2>2, <2>3 DEF Native
<1>4. Native # Malformed
  BY <1>3 DEF CopyAccepts
<1>5. PrintedCoin(d.config, FALSE) = Native /\ PrintedCoin(d.config, TRUE) = Native
  BY <1>3 DEF PrintedCoin
<1>6. FitsU64(d.amount) /\ FitsU64(d.fee)
  BY DEF CopyAccepts
<1>7. /\ Printed(d).amount = Text(swap_str_to_u64(d.amount), Native)
      /\ Printed(d).fee = Text(swap_str_to_u64(d.fee), Native)
  BY <1>4, <1>5, <1>6 DEF Printed, swap_handle_get_printable_amount
<1>. QED  BY <1>1, <1>2, <1>7

\* Before the first session nothing was shown, agreed or signed.
LEMMA SwapInitially == Init => SwapInv
<1>. SUFFICES ASSUME Init PROVE SwapInv
  OBVIOUS
<1>1. ShownIsPrinted /\ SessionIsFresh /\ G_called_from_swap \in BOOLEAN
  BY DEF Init, ShownIsPrinted, SessionIsFresh
<1>2. Len(signed) <= 1 /\ DOMAIN signed = {}
  BY DEF Init
<1>3. answer # "exit"
  BY DEF Init
<1>. QED  BY <1>1, <1>2, <1>3 DEF SwapInv, SignedAsShown, SessionSignsOnce

\* A step that ends the session without a signature.
LEMMA SwapReturns ==
  ASSUME SwapInv, NEW what, ReturnToExchange(what), what # "exit",
         signed' \in {signed, << >>}
  PROVE  SwapInv'
<1>1. ShownIsPrinted' /\ SessionIsFresh' /\ (G_called_from_swap \in BOOLEAN)'
  BY DEF ReturnToExchange, ShownIsPrinted, SessionIsFresh
<1>2. SignedAsShown' /\ SessionSignsOnce'
  <2>1. CASE signed' = signed
    BY <2>1 DEF ReturnToExchange, SwapInv, SignedAsShown, SessionSignsOnce
  <2>2. CASE signed' = << >>
    BY <2>2 DEF ReturnToExchange, SignedAsShown, SessionSignsOnce
  <2>. QED  BY <2>1, <2>2
<1>. QED  BY <1>1, <1>2 DEF SwapInv

\* The signing path of a session keeps the invariant.
LEMMA SwapSigns ==
  ASSUME SwapInv, NEW tx \in Transactions, check_and_sign_swap_tx(tx)
  PROVE  SwapInv'
<1>1. /\ deal \in Deals /\ shown = Printed(deal)
      /\ CopyAccepts(deal) /\ G_swap_validated = Validated(deal)
      /\ ~G_swap_response_ready /\ signed = << >>
  BY DEF check_and_sign_swap_tx, SwapInv, ShownIsPrinted, SessionIsFresh
<1>2. CASE SwapError(tx, FALSE, NoToken) # "SWO_SUCCESS"
  <2>1. SwapError(tx, FALSE, NoToken) # "exit"
    BY DEF SwapError
  <2>2. signed' = signed /\ ReturnToExchange(SwapError(tx, FALSE, NoToken))
    BY <1>1, <1>2 DEF check_and_sign_swap_tx
  <2>. QED  BY <2>1, <2>2, SwapReturns
<1>3. CASE signed' = signed /\ ReturnToExchange("SWO_SECURITY_ISSUE")
  BY <1>3, SwapReturns
<1>4. CASE /\ SwapError(tx, FALSE, NoToken) = "SWO_SUCCESS"
           /\ signed' = Append(signed, [tx |-> tx, deal |-> deal, shown |-> shown])
           /\ ReturnToExchange("signature")
  <2>1. ShownIsPrinted' /\ SessionIsFresh' /\ (G_called_from_swap \in BOOLEAN)'
    BY <1>4 DEF ReturnToExchange, ShownIsPrinted, SessionIsFresh
  <2>2. signed' = <<[tx |-> tx, deal |-> deal, shown |-> shown]>>
    BY <1>1, <1>4
  <2>3. SessionSignsOnce'
    <3>1. Len(signed') <= 1
      BY <2>2
    <3>2. answer' # "exit"
      BY <1>4 DEF ReturnToExchange
    <3>. QED  BY <3>1, <3>2 DEF SessionSignsOnce
  <2>4. /\ shown.amount = Text(tx.value, Native)
        /\ shown.fee = Text(tx.fee, Native)
        /\ UpperCase(deal.destination) = format_hex(tx.to)
    BY <1>1, <1>4, AcceptedTransactionWasShown
  <2>5. DOMAIN signed' = {1} /\ signed'[1] = [tx |-> tx, deal |-> deal, shown |-> shown]
    BY <2>2
  <2>6. SignedAsShown'
    BY <2>4, <2>5 DEF SignedAsShown
  <2>. QED  BY <2>1, <2>3, <2>6 DEF SwapInv
<1>. QED  BY <1>1, <1>2, <1>3, <1>4 DEF check_and_sign_swap_tx

\* Every step of a session keeps the invariant.
LEMMA SwapStep == SwapInv /\ [Next]_vars => SwapInv'
<1>. SUFFICES ASSUME SwapInv, [Next]_vars PROVE SwapInv'
  OBVIOUS
<1>1. CASE UNCHANGED vars
  BY <1>1 DEF SwapInv, vars, ShownIsPrinted, SessionIsFresh, SignedAsShown, SessionSignsOnce
<1>2. CASE CheckAddress
  BY <1>2 DEF CheckAddress, swap_handle_check_address, session, SwapInv, ShownIsPrinted,
     SessionIsFresh, SignedAsShown, SessionSignsOnce
<1>3. CASE NewDeal
  BY <1>3 DEF NewDeal, session, SwapInv, ShownIsPrinted, SessionIsFresh, SignedAsShown,
     SessionSignsOnce
<1>4. CASE ShowDeal
  BY <1>4 DEF ShowDeal, session, SwapInv, ShownIsPrinted, SessionIsFresh, SignedAsShown,
     SessionSignsOnce
<1>5. CASE swap_copy_transaction_parameters
  <2>1. CASE ReturnToExchange("refused") /\ signed' = << >>
    BY <2>1, SwapReturns
  <2>2. CASE /\ CopyAccepts(deal) /\ G_swap_validated' = Validated(deal)
             /\ G_swap_response_ready' = FALSE /\ G_called_from_swap' = TRUE
             /\ answer' = "none" /\ UNCHANGED <<deal, shown>> /\ signed' = << >>
    <3>1. shown # NULL
      BY <1>5 DEF swap_copy_transaction_parameters
    <3>2. ShownIsPrinted' /\ SessionIsFresh' /\ (G_called_from_swap \in BOOLEAN)'
      BY <2>2, <3>1 DEF SwapInv, ShownIsPrinted, SessionIsFresh
    <3>3. SignedAsShown' /\ SessionSignsOnce'
      BY <2>2 DEF SignedAsShown, SessionSignsOnce
    <3>. QED  BY <3>2, <3>3 DEF SwapInv
  <2>. QED  BY <1>5, <2>1, <2>2 DEF swap_copy_transaction_parameters, ResponseReadyAfterCopy
<1>6. CASE SwapParsingFails
  BY <1>6, SwapReturns DEF SwapParsingFails
<1>7. CASE SignSwapTransaction
  BY <1>7, SwapSigns DEF SignSwapTransaction
<1>8. CASE SessionCut
  BY <1>8, SwapReturns DEF SessionCut
<1>. QED  BY <1>1, <1>2, <1>3, <1>4, <1>5, <1>6, <1>7, <1>8 DEF Next

\* The parameters a session compares with are those of the deal on display.
THEOREM SwapInvariant == Spec => []SwapInv
BY SwapInitially, SwapStep, PTL DEF Spec

\* A swap session signs what Exchange displayed, for all deals and all residues of earlier
\* sessions.
THEOREM SwapSignsWhatWasShown == Spec => []SignedAsShown
<1>1. SwapInv => SignedAsShown
  BY DEF SwapInv
<1>. QED  BY <1>1, SwapInvariant, PTL

\* A session signs at most once, without help of the guard against double signing.
THEOREM SwapSignsOnce == Spec => []SessionSignsOnce
<1>1. SwapInv => SessionSignsOnce
  BY DEF SwapInv
<1>. QED  BY <1>1, SwapInvariant, PTL

\* Whatever data was sent as a path and whether or not the digest of the key fails, an
\* address that is not all zero is confirmed only if the device derives it.
THEOREM SwapAddressIsDerived == Spec => []ConfirmedAddressIsDerived
<1>1. Init => ConfirmedAddressIsDerived
  <2>1. NoCheck.result # 1
    BY DEF NoCheck
  <2>. QED  BY <2>1 DEF Init, ConfirmedAddressIsDerived
<1>2. ConfirmedAddressIsDerived /\ [Next]_vars => ConfirmedAddressIsDerived'
  <2>. SUFFICES ASSUME ConfirmedAddressIsDerived, [Next]_vars
                PROVE  ConfirmedAddressIsDerived'
    OBVIOUS
  <2>1. CASE UNCHANGED checked
    BY <2>1 DEF ConfirmedAddressIsDerived
  <2>2. CASE checked'.result = 0
    BY <2>2 DEF ConfirmedAddressIsDerived
  <2>3. CASE CheckAddress
    <3>1. PICK text \in Destinations, path \in Paths \cup {TruncatedPath, NULL} :
            swap_handle_check_address(text, path)
      BY <2>3 DEF CheckAddress
    <3>2. CASE checked' = [NoCheck EXCEPT !.text = text, !.path = path]
      BY <2>2, <3>2 DEF NoCheck
    <3>3. ASSUME path # NULL, NEW derived \in PathsRead(path),
                 NEW address \in address_from_pubkey(derived),
                 checked' = [text |-> text, path |-> path,
                             result |-> CheckResult(text, address)]
          PROVE  ConfirmedAddressIsDerived'
      <4>1. derived \in Paths /\ path \in {derived, TruncatedPath}
        BY <3>1, <3>3 DEF PathsRead
      <4>2. /\ checked'.text = text /\ checked'.path = path
            /\ checked'.result = 1 => text = format_hex(address)
        BY <3>3 DEF CheckResult
      <4>3. address = AddressOf[derived] \/ address = ZeroAddress
        BY <3>3 DEF address_from_pubkey
      <4>. QED  BY <4>1, <4>2, <4>3, Zenon DEF ConfirmedAddressIsDerived
    <3>. QED  BY <3>1, <3>2, <3>3 DEF swap_handle_check_address
  <2>4. CASE NewDeal
    BY <2>2, <2>4 DEF NewDeal, NoCheck
  <2>. QED  BY <2>1, <2>3, <2>4 DEF Next, vars, ShowDeal, swap_copy_transaction_parameters,
            SwapParsingFails, SignSwapTransaction, check_and_sign_swap_tx, SessionCut
<1>. QED  BY <1>1, <1>2, PTL DEF Spec

-----------------------------------------------------------------------------
(* Types.                                                                  *)
Coins == [ticker : Tickers, decimals : Nat]
ShownTexts == [amount : Texts, fee : Texts]
ValidatedParams ==
  [initialized : BOOLEAN, amount : Uint64, fee : Uint64,
   recipient : Seq(Nat), decimals : Nat, ticker : Tickers \cup {""}]

\* A coin that swap_parse_config accepts has a ticker and a number of decimals.
LEMMA CoinType ==
  ASSUME NEW config \in Configs
  PROVE  Native \in Coins /\ (CoinOf(config) # Malformed => CoinOf(config) \in Coins)
<1>1. /\ EXPONENT_SMALLEST_UNIT \in Nat /\ "BOL" \in Tickers
      /\ Configs \subseteq Coins \cup {Malformed, NULL}
  BY SwapAssumption DEF Coins
<1>2. Native \in Coins
  BY <1>1 DEF Native, Coins
<1>. QED  BY <1>1, <1>2, Zenon DEF CoinOf

\* An amount or a fee that passes the length check is a uint64_t.
LEMMA NumberType ==
  ASSUME NEW bytes \in Amounts \cup Fees, FitsU64(bytes)
  PROVE  swap_str_to_u64(bytes) \in Uint64 /\ swap_str_to_u64(bytes) \in Nat
<1>1. BytesOf(bytes) \in Seq(Bytes)
  <2>1. bytes \in Seq(Bytes) \cup {NULL}
    BY SwapAssumption, Zenon
  <2>2. << >> \in Seq(Bytes)
    OBVIOUS
  <2>. QED  BY <2>1, <2>2, Zenon DEF BytesOf
<1>. QED  BY <1>1, ValueFits, Zenon DEF FitsU64, swap_str_to_u64

\* The text of a number of a coin.
LEMMA TextType ==
  ASSUME NEW v \in Nat, NEW coin \in Coins
  PROVE  Text(v, coin) \in Texts
<1>1. coin.ticker \in Tickers /\ coin.decimals \in Nat
  BY DEF Coins
<1>2. <<v, coin.decimals>> \in Nat \X Nat
  BY <1>1
<1>. DEFINE x == IF coin.decimals <= MAX_FPU_DECIMALS THEN <<v, coin.decimals>> ELSE << >>
<1>3. x \in {<< >>} \cup (Nat \X Nat)
  BY <1>2, Zenon
<1>. HIDE DEF x
<1>4. [number |-> x, ticker |-> coin.ticker] \in Texts
  BY <1>1, <1>3, Zenon DEF Texts
<1>. QED  BY <1>4, Zenon DEF Text, x

\* What swap_handle_get_printable_amount returns.
LEMMA PrintedType ==
  ASSUME NEW d \in Deals
  PROVE  Printed(d) \in ShownTexts
<1>1. d.amount \in Amounts /\ d.fee \in Fees /\ d.config \in Configs
  BY DEF Deals
<1>2. EmptyText \in Texts
  <2>1. << >> \in {<< >>} \cup (Nat \X Nat) /\ "" \in Tickers \cup {""}
    BY Zenon
  <2>. QED  BY <2>1, Zenon DEF EmptyText, Texts
<1>3. ASSUME NEW bytes \in Amounts \cup Fees, NEW is_fee \in BOOLEAN
      PROVE  swap_handle_get_printable_amount(bytes, d.config, is_fee) \in Texts
  <2>. DEFINE coin == PrintedCoin(d.config, is_fee)
  <2>1. coin # Malformed => coin \in Coins
    BY <1>1, CoinType, Zenon DEF PrintedCoin
  <2>2. CASE ~FitsU64(bytes) \/ coin = Malformed
    BY <1>2, <2>2, Zenon DEF swap_handle_get_printable_amount
  <2>3. CASE ~(~FitsU64(bytes) \/ coin = Malformed)
    <3>1. swap_str_to_u64(bytes) \in Nat /\ coin \in Coins
      BY <2>1, <2>3, NumberType, Zenon
    <3>2. Text(swap_str_to_u64(bytes), coin) \in Texts
      BY <3>1, TextType, Zenon
    <3>. QED  BY <2>3, <3>2, Zenon DEF swap_handle_get_printable_amount
  <2>. QED  BY <2>2, <2>3
<1>4. /\ swap_handle_get_printable_amount(d.amount, d.config, FALSE) \in Texts
      /\ swap_handle_get_printable_amount(d.fee, d.config, TRUE) \in Texts
  BY <1>1, <1>3, Zenon
<1>. QED  BY <1>4, Zenon DEF Printed, ShownTexts

\* What swap_copy_transaction_parameters commits.
LEMMA ValidatedType ==
  ASSUME NEW d \in Deals, CopyAccepts(d)
  PROVE  Validated(d) \in ValidatedParams
<1>1. /\ d.amount \in Amounts /\ d.fee \in Fees /\ d.config \in Configs
      /\ d.destination \in Destinations
  BY DEF Deals
<1>2. swap_str_to_u64(d.amount) \in Uint64 /\ swap_str_to_u64(d.fee) \in Uint64
  BY <1>1, NumberType, Zenon DEF CopyAccepts
<1>3. CoinOf(d.config).decimals \in Nat /\ CoinOf(d.config).ticker \in Tickers
  <2>1. CoinOf(d.config) \in Coins
    BY <1>1, CoinType, Zenon DEF CopyAccepts
  <2>. QED  BY <2>1 DEF Coins
<1>4. UpperCase(d.destination) \in Seq(Nat)
  <2>. DEFINE t == d.destination
  <2>1. t \in Seq(Nat)
    BY <1>1, SwapAssumption, Zenon DEF CopyAccepts
  <2>. HIDE DEF t
  <2>2. UpperCase(t) \in Seq(Nat)
    <3>. DEFINE c(i) == IF t[i] \in 97..122 THEN t[i] - 97 + 65 ELSE t[i]
    <3>1. DOMAIN t = 1..Len(t) /\ Len(t) \in Nat /\ \A i \in 1..Len(t) : t[i] \in Nat
      BY <2>1
    <3>2. \A k \in Nat : (IF k \in 97..122 THEN k - 97 + 65 ELSE k) \in Nat
      OBVIOUS
    <3>3. \A i \in 1..Len(t) : c(i) \in Nat
      BY <3>1, <3>2, Zenon
    <3>. HIDE DEF c
    <3>4. [i \in 1..Len(t) |-> c(i)] \in Seq(Nat)
      BY <3>1, <3>3
    <3>. QED  BY <3>1, <3>4, Zenon DEF UpperCase, c
  <2>. QED  BY <2>2 DEF t
<1>5. TRUE \in BOOLEAN
  OBVIOUS
<1>. DEFINE u == swap_str_to_u64(d.amount)
            v == swap_str_to_u64(d.fee)
            w == UpperCase(d.destination)
            x == CoinOf(d.config).decimals
            y == CoinOf(d.config).ticker
<1>6. /\ u \in Uint64 /\ v \in Uint64 /\ w \in Seq(Nat) /\ x \in Nat
      /\ y \in Tickers \cup {""}
  BY <1>2, <1>3, <1>4, Zenon
<1>. HIDE DEF u, v, w, x, y
<1>7. [initialized |-> TRUE, amount |-> u, fee |-> v, recipient |-> w, decimals |-> x,
       ticker |-> y] \in ValidatedParams
  BY <1>6, Zenon DEF ValidatedParams
<1>. QED  BY <1>7, Zenon DEF Validated, u, v, w, x, y

\* The part of the state that only the session's start and its signature write.
SignedItems == [tx : Transactions, deal : Deals, shown : ShownTexts]
TypeParts ==
  /\ deal \in Deals \cup {NULL}
  /\ shown \in ShownTexts \cup {NULL}
  /\ G_called_from_swap \in BOOLEAN /\ G_swap_response_ready \in BOOLEAN
  /\ G_swap_validated \in ValidatedParams
  /\ checked.result \in {0, 1}
  /\ signed \in Seq(SignedItems)

\* The type invariant, with its record sets named.
LEMMA TypeOKParts == TypeOK <=> TypeParts
  BY Zenon DEF TypeOK, TypeParts, ShownTexts, ValidatedParams, SignedItems

\* The initial globals, all bytes zero, have their types.
LEMMA SwapTypesInitially == Init => TypeParts
<1>. SUFFICES ASSUME Init PROVE TypeParts
  OBVIOUS
<1>1. ZeroValidated \in ValidatedParams
  <2>1. 0 \in Uint64
    <3>1. << >> \in Seq(Bytes) /\ Len(<< >>) <= U64_LEN
      BY MaxBytesType
    <3>. QED  BY <3>1, ValueFits, Zenon
  <2>2. FALSE \in BOOLEAN /\ << >> \in Seq(Nat) /\ 0 \in Nat /\ "" \in Tickers \cup {""}
    OBVIOUS
  <2>. QED  BY <2>1, <2>2, Zenon DEF ZeroValidated, ValidatedParams
<1>2. NoCheck.result \in {0, 1}
  BY DEF NoCheck
<1>3. << >> \in Seq(SignedItems) /\ FALSE \in BOOLEAN
  OBVIOUS
<1>. QED  BY <1>1, <1>2, <1>3, Zenon DEF Init, TypeParts

\* The end of a session leaves no deal behind.
LEMMA ReturnTypes ==
  ASSUME TypeParts, NEW what, ReturnToExchange(what), UNCHANGED <<checked, G_swap_validated>>,
         (G_swap_response_ready \in BOOLEAN)', (signed \in Seq(SignedItems))'
  PROVE  TypeParts'
<1>1. FALSE \in BOOLEAN
  OBVIOUS
<1>2. checked' = checked /\ G_swap_validated' = G_swap_validated
  OBVIOUS
<1>. QED  BY <1>1, <1>2, Zenon DEF TypeParts, ReturnToExchange

\* Every step keeps the types; that the deal and the texts a signature is recorded with
\* are there, and not null, is SessionIsFresh.
LEMMA SwapTypesStep == SwapInv /\ TypeParts /\ [Next]_vars => TypeParts'
<1>. SUFFICES ASSUME SwapInv, TypeParts, [Next]_vars PROVE TypeParts'
  OBVIOUS
<1>0. TRUE \in BOOLEAN /\ FALSE \in BOOLEAN /\ << >> \in Seq(SignedItems)
  OBVIOUS
<1>1. CASE UNCHANGED vars
  BY <1>1 DEF vars, TypeParts
<1>2. ASSUME UNCHANGED <<deal, shown, session>>, checked'.result \in {0, 1} PROVE TypeParts'
  BY <1>2 DEF session, TypeParts
<1>3. CASE CheckAddress
  <2>1. PICK text \in Destinations, path \in Paths \cup {TruncatedPath, NULL} :
          swap_handle_check_address(text, path)
    BY <1>3 DEF CheckAddress
  <2>2. [NoCheck EXCEPT !.text = text, !.path = path].result \in {0, 1}
    BY DEF NoCheck
  <2>3. ASSUME NEW address
        PROVE  [text |-> text, path |-> path, result |-> CheckResult(text, address)].result
                 \in {0, 1}
    BY DEF CheckResult
  <2>4. checked'.result \in {0, 1} /\ UNCHANGED <<deal, shown, session>>
    BY <2>1, <2>2, <2>3, Zenon DEF swap_handle_check_address
  <2>. QED  BY <1>2, <2>4
<1>4. CASE NewDeal
  <2>1. NoCheck.result \in {0, 1}
    BY DEF NoCheck
  <2>. QED  BY <1>4, <2>1 DEF NewDeal, session, TypeParts
<1>5. CASE ShowDeal
  <2>1. deal \in Deals
    BY <1>5 DEF ShowDeal, TypeParts
  <2>2. shown' \in ShownTexts
    BY <1>5, <2>1, PrintedType, Zenon DEF ShowDeal
  <2>. QED  BY <1>5, <2>2 DEF ShowDeal, session, TypeParts
<1>6. CASE swap_copy_transaction_parameters
  <2>1. CASE /\ ReturnToExchange("refused") /\ signed' = << >>
             /\ UNCHANGED <<checked, G_swap_validated, G_swap_response_ready>>
    BY <1>0, <2>1, ReturnTypes DEF TypeParts
  <2>2. CASE /\ CopyAccepts(deal) /\ G_swap_validated' = Validated(deal)
             /\ G_swap_response_ready' = FALSE /\ G_called_from_swap' = TRUE
             /\ UNCHANGED <<deal, shown, checked>> /\ signed' = << >>
    <3>1. deal \in Deals
      BY <1>6 DEF swap_copy_transaction_parameters, SwapInv, ShownIsPrinted
    <3>2. G_swap_validated' \in ValidatedParams
      BY <2>2, <3>1, ValidatedType, Zenon
    <3>3. deal' = deal /\ shown' = shown /\ checked' = checked
      BY <2>2
    <3>. QED  BY <1>0, <2>2, <3>2, <3>3, Zenon DEF TypeParts
  <2>. QED  BY <1>6, <2>1, <2>2 DEF swap_copy_transaction_parameters, ResponseReadyAfterCopy
<1>7. CASE SwapParsingFails
  BY <1>0, <1>7, ReturnTypes DEF SwapParsingFails, TypeParts
<1>8. CASE SignSwapTransaction
  <2>1. PICK tx \in Transactions : check_and_sign_swap_tx(tx)
    BY <1>8 DEF SignSwapTransaction
  <2>2. /\ deal \in Deals /\ shown \in ShownTexts
    BY <2>1 DEF check_and_sign_swap_tx, SwapInv, SessionIsFresh, TypeParts
  <2>3. G_swap_response_ready' \in BOOLEAN /\ UNCHANGED <<checked, G_swap_validated>>
    BY <2>1 DEF check_and_sign_swap_tx
  <2>. DEFINE item == [tx |-> tx, deal |-> deal, shown |-> shown]
  <2>4. item \in SignedItems
    BY <2>2, Zenon DEF SignedItems
  <2>5. signed \in Seq(SignedItems)
    BY DEF TypeParts
  <2>6. Append(signed, item) \in Seq(SignedItems)
    <3>. HIDE DEF item
    <3>. QED  BY <2>4, <2>5
  <2>7. signed' \in {signed, Append(signed, item)} /\ \E what : ReturnToExchange(what)
    BY <2>1, Zenon DEF check_and_sign_swap_tx
  <2>8. signed' \in Seq(SignedItems)
    BY <2>5, <2>6, <2>7, Zenon
  <2>. QED  BY <2>3, <2>7, <2>8, ReturnTypes
<1>9. CASE SessionCut
  BY <1>9, ReturnTypes DEF SessionCut, TypeParts
<1>. QED  BY <1>1, <1>3, <1>4, <1>5, <1>6, <1>7, <1>8, <1>9 DEF Next

\* The state of a swap session keeps its types, for all deals: in particular an amount or
\* a fee that was copied fits its uint64_t, whatever its encoding.
THEOREM SwapTypeCorrect == Spec => []TypeOK
<1>1. Init => SwapInv /\ TypeParts
  BY SwapInitially, SwapTypesInitially
<1>2. (SwapInv /\ TypeParts) /\ [Next]_vars => (SwapInv /\ TypeParts)'
  BY SwapStep, SwapTypesStep
<1>3. SwapInv /\ TypeParts => TypeOK
  BY TypeOKParts
<1>. QED  BY <1>1, <1>2, <1>3, PTL DEF Spec
=============================================================================
