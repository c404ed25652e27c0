-------------------------------- MODULE Fees --------------------------------
(***************************************************************************)
(* What a payout costs on top of its amount.  Money is an integer number   *)
(* of the ledger's smallest unit, 1/10000 naira: amounts and balances are  *)
(* numeric strings with four decimals (toFixed(4)).                        *)
(***************************************************************************)
EXTENDS Integers

Naira == 10000
Kobo  == 100

\* decimal.js rounds halves up; every amount rounded here is not negative.
ToKobo(units) == ((units + Kobo \div 2) \div Kobo) * Kobo

\* The tiers of the NIP schedule: up to 5,000; up to 50,000; above.
CalculateTransferFee(amount) ==
    IF amount <= 5000 * Naira THEN 10 * Naira
    ELSE IF amount <= 50000 * Naira THEN 25 * Naira
    ELSE 50 * Naira

\* The fee plus 7.5% VAT on it, rounded to kobo.
WithVat(fee) == ToKobo(fee + (fee * 75) \div 1000)

\* The flat levy on transfers of 10,000 and more; no free-payout rule waives it.
StampDuty(amount) == IF amount >= 10000 * Naira THEN 50 * Naira ELSE 0

\* payoutCharges(...).total
Charges(amount, free) ==
    (IF free THEN 0 ELSE WithVat(CalculateTransferFee(amount))) + StampDuty(amount)
=============================================================================
