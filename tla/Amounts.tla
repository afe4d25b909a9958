------------------------------- MODULE Amounts -------------------------------
(***************************************************************************)
(* The conversions an amount goes through between the L1 (satoshis), the   *)
(* L2 (wei), the API's table and the clients' screens.                     *)
(*                                                                         *)
(* A deposit is seen in sats, minted in wei with integer arithmetic and    *)
(* recorded as a JavaScript number.  A withdrawal is typed as a decimal    *)
(* number of ECX, burned (in doubles by the web widget, in integers by the *)
(* desktop wallet), stored in a column of INTEGER affinity and converted   *)
(* to sats by the federation.                                              *)
(*                                                                         *)
(* TLC's integers have 32 bits, so the scale is smaller than the code's:   *)
(* SatsPerEcx for 10^8, WeiPerSat for 10^10 and a significand of Bits bits *)
(* for the 53 of a double.  What is typed has no more digits than a sat    *)
(* needs, so it is given by its exact value in sats.                       *)
(***************************************************************************)
EXTENDS Integers

CONSTANTS
  SatsPerEcx,   \* 10^8
  WeiPerSat,    \* 10^10
  Bits,         \* 53
  Dust,         \* 546
  Minimum,      \* 1,000, of the bridging guide; the code has no such constant
  MaxSats       \* bound: amounts considered

VARIABLES
  flow,     \* "deposit" or "withdraw"
  stage,    \* how far the amount has come
  exact,    \* the amount seen on the L1 or typed by the user, in sats
  wei,      \* wei minted, or wei burned
  stored,   \* amount_ecx as the table returns it
  sats      \* what the federation pays out, in sats

vars == <<flow, stage, exact, wei, stored, sats>>

-----------------------------------------------------------------------------
(***************************************************************************)
(* Doubles (external): <<m, e>> stands for m * 2^e with m of Bits bits.    *)
(***************************************************************************)
Lg(n) == CHOOSE k \in 0 .. 30 : n \div 2^k = 1

\* The exponent that gives num / den a significand of Bits bits.
Exponent(num, den) ==
  CHOOSE e \in Lg(num) - Lg(den) - Bits .. Lg(num) - Lg(den) - Bits + 1 :
    IF e >= 0 THEN num \div (den * 2^e) \in 2^(Bits - 1) .. 2^Bits - 1
              ELSE (num * 2^(-e)) \div den \in 2^(Bits - 1) .. 2^Bits - 1

\* The quotient a / b rounded to the nearest integer, ties to even.
Nearest(a, b) ==
  LET q == a \div b
      r == a % b
  IN  IF 2 * r > b \/ (2 * r = b /\ q % 2 = 1) THEN q + 1 ELSE q

Double(num, den) ==
  IF num = 0 THEN <<0, 0>>
  ELSE LET e == Exponent(num, den)
       IN  IF e >= 0 THEN <<Nearest(num, den * 2^e), e>>
                     ELSE <<Nearest(num * 2^(-e), den), e>>

Times(d, k) == LET p == Double(d[1] * k, 1) IN <<p[1], p[2] + d[2]>>

Floor(d) == IF d[2] >= 0 THEN d[1] * 2^d[2] ELSE d[1] \div 2^(-d[2])

Stored == [kind : {"none", "integer", "real"}, val : Nat \X Int]
Unset   == [kind |-> "none", val |-> <<0, 0>>]

-----------------------------------------------------------------------------
(***************************************************************************)
(* The conversions.                                                        *)
(***************************************************************************)
\* mintEcx: BigInt(satAmount) * satsToEcxMultiplier(network).
MintWei(s) == s * WeiPerSat

\* processDeposit: Number(BigInt(amount) * multiplier) for amount_ecx.
AmountEcx(s) == Double(s * WeiPerSat, 1)

\* The widget: BigInt(Math.floor(amountXec * 1e18)).
BurnECX(s) == Floor(Times(Double(s, SatsPerEcx), SatsPerEcx * WeiPerSat))

\* The desktop wallet: parseEther(amountEcx).
SendEcx(s) == s * WeiPerSat

\* amount_ecx is declared INTEGER: a text that is a whole number ("5", "5.0")
\* is stored as an integer, any other as a real.
Affinity(s) == IF s % SatsPerEcx = 0
               THEN [kind |-> "integer", val |-> <<s \div SatsPerEcx, 0>>]
               ELSE [kind |-> "real", val |-> Double(s, SatsPerEcx)]

\* Mutant: the decimal amount is rounded up.
EcxToSatsCeil(a) == IF a.kind = "real" THEN Floor(Times(a.val, SatsPerEcx)) + 1
                                       ELSE Floor(a.val) \div WeiPerSat

\* Mutant: the dust limit is taken off the amount.
EcxToSatsLess(a) == IF a.kind = "real" THEN Floor(Times(a.val, SatsPerEcx)) - Dust
                                       ELSE Floor(a.val) \div WeiPerSat

\* ecxToSats: with a decimal point it is ECX, without one it is wei.
EcxToSats(a) == IF a.kind = "real" THEN Floor(Times(a.val, SatsPerEcx))
                                   ELSE Floor(a.val) \div WeiPerSat

-----------------------------------------------------------------------------
TypeOK ==
  /\ flow \in {"deposit", "withdraw"}
  /\ stage \in {"seen", "minted", "typed", "burned", "requested", "paid", "refused"}
  /\ exact \in 1 .. MaxSats
  /\ wei \in Nat /\ sats \in Nat
  /\ stored \in Stored

Init ==
  /\ \/ flow = "deposit" /\ stage = "seen"
     \/ flow = "withdraw" /\ stage = "typed"
  /\ exact \in 1 .. MaxSats
  /\ wei = 0 /\ sats = 0
  /\ stored = Unset

Mint ==
  /\ stage = "seen"
  /\ stage' = "minted"
  /\ wei' = MintWei(exact)
  /\ stored' = [kind |-> "integer", val |-> AmountEcx(exact)]
  /\ UNCHANGED <<flow, exact, sats>>

Burn ==
  /\ stage = "typed"
  /\ stage' = "burned"
  /\ wei' \in {BurnECX(exact), SendEcx(exact)}
  /\ UNCHANGED <<flow, exact, stored, sats>>

\* POST /v1/bridge/withdraw.
Request ==
  /\ stage = "burned"
  /\ stage' = "requested"
  /\ stored' = Affinity(exact)
  /\ UNCHANGED <<flow, exact, wei, sats>>

\* buildSignAndBroadcastWithdrawal: below the dust limit nothing is paid.
PayOut ==
  /\ stage = "requested"
  /\ sats' = EcxToSats(stored)
  /\ stage' = IF sats' < Dust THEN "refused" ELSE "paid"
  /\ UNCHANGED <<flow, exact, wei, stored>>

Next == Mint \/ Burn \/ Request \/ PayOut

Spec == Init /\ [][Next]_vars

-----------------------------------------------------------------------------
\* Although ecxToSats multiplies doubles, takes the floor and reads a whole number as
\* wei, what is paid at all is paid to within one sat, and never more than was asked.
PayoutWithinASat == stage = "paid" => exact - 1 <= sats /\ sats <= exact

\* What is paid is covered by what was burned, to within one sat, whichever
\* client burned it and whatever the two roundings (burnECX, ecxToSats).
PayoutCoveredByBurn ==
  stage = "paid" => sats * WeiPerSat < wei + WeiPerSat

\* amount_ecx of a minted row differs from the wei minted by no more than the
\* rounding of one double.
RecordedCloseToMinted ==
  stage = "minted" =>
    LET r == Floor(stored.val)
        error == IF r > wei THEN r - wei ELSE wei - r
    IN  error * 2^Bits <= wei

\* What was burned and requested is paid, unless it is below the minimum.  A whole number
\* of ECX is not: the table returns it without a decimal point, and ecxToSats reads it as
\* that many wei, less than one sat.
MinimumIsPaid == stage = "refused" => exact < Minimum
=============================================================================
