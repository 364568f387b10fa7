---------------------------- MODULE TwoDecimals ----------------------------
(***************************************************************************)
(* The texts " {:.2f}" of the monitors, as numbers of hundredths.          *)
(***************************************************************************)
EXTENDS Integers

Abs(n) == IF n < 0 THEN -n ELSE n

\* What format(" {:.2f}", n / d) may print: the hundredths nearest to n/d,
\* either of them halfway.
Hundredths(n, d) ==
  LET low == (100 * n) \div d
  IN  {h \in {low, low + 1} : 2 * Abs(100 * n - h * d) <= d}
=============================================================================
