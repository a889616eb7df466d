------------------------------- MODULE Clocks -------------------------------
(***************************************************************************)
(* The clock sources of twr_system.c as operators on the record of the two *)
(* semaphores, the sleep semaphore of twr_sleep.c, and the clock that the  *)
(* CPU runs from.  The semaphores are plain integers: a call loads one,    *)
(* adds or subtracts 1, and stores it, so an operator is given the value   *)
(* to store.                                                               *)
(***************************************************************************)
EXTENDS Integers

Clocks == [pll : Int, hsi16 : Int, sleep : Int, clk : {"MSI", "HSI", "PLL"}]
AtReset == [pll |-> 0, hsi16 |-> 0, sleep |-> 0, clk |-> "MSI"]

\* twr_system_hsi16_enable and _disable.  The first user turns HSI16 on, the
\* last one off; every user keeps the device awake.
HsiEnable(c, n) ==
    [c EXCEPT !.hsi16 = n, !.sleep = @ + 1, !.clk = IF n = 1 THEN "HSI" ELSE @]
HsiDisable(c, n) ==
    [c EXCEPT !.hsi16 = n, !.sleep = @ - 1, !.clk = IF n = 0 THEN "MSI" ELSE @]

\* twr_system_pll_enable and _disable.  The PLL is a user of HSI16.
PllEnable(c, n) ==
    IF n = 1
    THEN [HsiEnable([c EXCEPT !.pll = n], c.hsi16 + 1) EXCEPT !.clk = "PLL"]
    ELSE [c EXCEPT !.pll = n]
PllDisable(c, n) ==
    IF n = 0
    THEN HsiDisable([c EXCEPT !.pll = n, !.clk = "HSI"], c.hsi16 - 1)
    ELSE [c EXCEPT !.pll = n]

\* twr_system_clock_get
ClockGet(c) ==
    IF c.pll # 0 THEN "PLL" ELSE IF c.hsi16 # 0 THEN "HSI" ELSE "MSI"

=============================================================================
