--------------------------- MODULE FeeCalculator ---------------------------
(***************************************************************************)
(* What the server stores (portfolio/calculator.py): fees and dividends in *)
(* the units of FeePreview, computed in 1/10000 RM and quantized to sen    *)
(* component by component.                                                 *)
(***************************************************************************)
EXTENDS Integers, FiniteSetsExt

\* Decimal.quantize with ROUND_HALF_UP: the nearest multiple, away from zero
\* when two are equally near.
round_myr(n, unit) == CHOOSE q \in {n \div unit, n \div unit + 1} :
    /\ 2 * (n - q * unit) < unit
    /\ 2 * (q * unit - n) <= unit

compute_initial_amount(shares, price) == round_myr(shares * price, 100)

compute_brokerage_fee(amount, broker) ==
    IF broker.fee_type = "percentage"
      THEN Max({round_myr(amount * broker.rate, 10000), broker.minimum_fee})
      ELSE broker.flat_fee

compute_clearing_fee(amount) == Min({round_myr(amount * 3, 10000), 100000})

\* Decimal.to_integral_value with ROUND_CEILING, then at least RM 1.
ceiling(n, unit) == CHOOSE q \in {n \div unit, n \div unit + 1} :
    q * unit >= n /\ (q - 1) * unit < n
compute_stamp_duty(amount) == Max({ceiling(amount, 100000) * 100, 100})

calculate_lot_fees(shares, price, broker) ==
    LET amount == compute_initial_amount(shares, price) IN
    amount + compute_brokerage_fee(amount, broker)
           + compute_clearing_fee(amount) + compute_stamp_duty(amount)

dividend_total(perShare, shares) == round_myr(perShare * shares, 10000)
=============================================================================
