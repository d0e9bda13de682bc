---------------------------- MODULE MCSaleMoney ----------------------------
(* SaleMoney over small prices, where every rounding case occurs, and the  *)
(* percentages the platform uses.                                          *)
EXTENDS SaleMoney

SmallPrices == (0..28) \cup {99, 333, 1999}

PlatformRates == {0, 5, 30} \X {0, 33, 50, 100} \X {0, 70, 90}
============================================================================
