----------------------------- MODULE FeePreview -----------------------------
(***************************************************************************)
(* What the forms show while the user types (lib/fee-calculator.ts and     *)
(* lib/dividend-calculator.ts), and what they accept.  Money is counted in *)
(* sen, a price of a share in 1/10000 RM, a dividend per share in          *)
(* 1/1000000 RM, rates in 1/10000: the decimals the inputs may have.       *)
(***************************************************************************)
EXTENDS Integers, FiniteSetsExt

\* Mutant: half a sen is rounded down.
roundedDown(n, unit) == n \div unit

\* Half up, as decimal.js rounds a non-negative number; unit is even.
roundMyr(n, unit) == (n + unit \div 2) \div unit

computeInitialAmount(shares, price) == roundMyr(shares * price, 100)

computeBrokerageFee(amount, broker) ==
    IF broker.fee_type = "percentage"
      THEN Max({roundMyr(amount * broker.rate, 10000), broker.minimum_fee})
      ELSE broker.flat_fee

computeClearingFee(amount) ==
    Min({roundMyr(amount * 3, 10000), 100000})

\* RM 1 for each RM 1000, or part of it.
computeStampDuty(amount) ==
    Max({((amount + 99999) \div 100000) * 100, 100})

calculateLotFees(shares, price, broker) ==
    LET amount == computeInitialAmount(shares, price) IN
    amount + computeBrokerageFee(amount, broker)
           + computeClearingFee(amount) + computeStampDuty(amount)

computeDividendTotal(perShare, shares) == roundMyr(perShare * shares, 10000)

\* Fields are never negative: the inputs' patterns have no sign.
validateShares(n) == n >= 1 /\ n <= 99999999
validatePurchasePrice(p) == p > 0
validatePerShareAmount(p) == p > 0
validateQualifyingShares(n, eligible) == n >= 1 /\ n <= eligible
=============================================================================
