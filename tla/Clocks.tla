------------------------------- MODULE Clocks ------------------------------
(***************************************************************************)
(* The start of an STM32: init() takes the clock configuration of the      *)
(* board, lets the HAL switch to it, and enables the flash caches.         *)
(*                                                                         *)
(*   c.board     the board, or the chip of a family of boards              *)
(*   c.pc        "reset", "configured", "clocked" or "running"             *)
(*   c.rcc       the configuration, in MHz and dividers                    *)
(*   c.override  it is the application's                                   *)
(*   c.mhz       the clocks that the HAL sets from it                      *)
(*   c.cache     the flash caches that are enabled                         *)
(***************************************************************************)
EXTENDS Naturals

CONSTANT Overrides      \* configurations of rcc-config-override

VARIABLE c

(* The HAL's default: the internal oscillator, undivided.  HSI48 is 48 MHz *)
(* on every chip that has it.                                              *)
Default ==
  [hsi |-> 16, hse |-> 0, msi |-> 0, hsi48 |-> 0, src |-> "hsi", prediv |-> 1, mul |-> 0,
   p |-> 0, q |-> 0, r |-> 0, sai |-> [mul |-> 0, q |-> 0], sys |-> "hsi", usb |-> "none",
   spi |-> "pclk", ahb |-> 1, apb1 |-> 1, apb2 |-> 1]

(* The chips with PLL1_P and no divider of it have p = 1.                  *)
B_l475e_iot01a ==
  [Default EXCEPT !.msi = 8, !.hsi = 0, !.src = "msi", !.prediv = 1, !.mul = 20, !.r = 2,
                  !.sys = "pll_r", !.sai = [mul |-> 12, q |-> 2], !.usb = "sai_q"]
Nucleo_wb55 ==
  [Default EXCEPT !.hsi48 = 48, !.sys = "pll_r", !.hse = 32, !.src = "hse", !.prediv = 2,
                  !.mul = 10, !.r = 2, !.usb = "hsi48"]
Stm32f303 ==
  [Default EXCEPT !.hse = 8, !.src = "hse", !.prediv = 1, !.mul = 9, !.p = 1, !.apb1 = 4,
                  !.apb2 = 2, !.sys = "pll_p"]
Nucleo_f401re ==
  [Default EXCEPT !.hse = 8, !.src = "hse", !.prediv = 4, !.mul = 168, !.p = 4, !.q = 7,
                  !.apb1 = 4, !.apb2 = 2, !.sys = "pll_p", !.usb = "pll_q"]
Nucleo_f767zi ==
  [Default EXCEPT !.hse = 8, !.src = "hse", !.prediv = 4, !.mul = 216, !.p = 2, !.apb1 = 4,
                  !.apb2 = 2, !.sys = "pll_p"]
Stm32h755zi ==
  [Default EXCEPT !.hsi = 64, !.hsi48 = 48, !.src = "hsi", !.prediv = 4, !.mul = 50, !.p = 2,
                  !.q = 16, !.sys = "pll_p", !.ahb = 2, !.apb1 = 2, !.apb2 = 2, !.usb = "hsi48",
                  !.spi = "pll_q"]
Stm32h753zi ==
  [Default EXCEPT !.hsi = 64, !.hsi48 = 48, !.src = "hsi", !.prediv = 4, !.mul = 50, !.p = 2,
                  !.q = 16, !.sys = "pll_p", !.ahb = 2, !.apb1 = 2, !.apb2 = 2, !.usb = "hsi48",
                  !.spi = "pll_q"]

Stm32u0 ==
  [Default EXCEPT !.hsi48 = 48, !.sys = "pll_r", !.src = "hsi", !.prediv = 1, !.mul = 7,
                  !.r = 2, !.usb = "hsi48"]
Steval_mkboxpro ==
  [Default EXCEPT !.hsi48 = 48, !.sys = "pll_r", !.hse = 16, !.src = "hse", !.prediv = 1,
                  !.mul = 10, !.r = 1, !.usb = "hsi48"]
Stm32f042k6 ==
  [Default EXCEPT !.hsi48 = 48, !.sys = "hsi48", !.src = "hsi48", !.prediv = 2, !.mul = 2,
                  !.p = 1]
Lora_e5_mini ==
  [Default EXCEPT !.hse = 32, !.src = "hse", !.prediv = 2, !.mul = 6, !.q = 2, !.r = 2,
                  !.sys = "pll_r"]
Nucleo_wba65ri ==
  [Default EXCEPT !.hse = 32, !.src = "hse", !.prediv = 2, !.mul = 12, !.p = 6, !.r = 2,
                  !.sys = "pll_r", !.usb = "hse"]

Boards ==
  [st_b_l475e_iot01a |-> B_l475e_iot01a, st_nucleo_wb55 |-> Nucleo_wb55, stm32f303 |-> Stm32f303,
   st_nucleo_f401re |-> Nucleo_f401re, st_nucleo_f767zi |-> Nucleo_f767zi,
   stm32h755zi |-> Stm32h755zi, stm32h753zi |-> Stm32h753zi, stm32u0 |-> Stm32u0,
   st_steval_mkboxpro |-> Steval_mkboxpro, stm32f042k6 |-> Stm32f042k6,
   seeedstudio_lora_e5_mini |-> Lora_e5_mini, st_nucleo_wba65ri |-> Nucleo_wba65ri]

-----------------------------------------------------------------------------
(* The clock tree of the HAL (external).                                   *)
Vco(r) == (r[r.src] \div r.prediv) * r.mul
Divided(mhz, by) == IF by = 0 THEN 0 ELSE mhz \div by
Signal(r, name) ==
  CASE name = "pll_p" -> Divided(Vco(r), r.p)
    [] name = "pll_q" -> Divided(Vco(r), r.q)
    [] name = "pll_r" -> Divided(Vco(r), r.r)
    [] name = "sai_q" -> Divided((r[r.src] \div r.prediv) * r.sai.mul, r.sai.q)
    [] name = "none" -> 0
    [] OTHER -> r[name]
Tree(r) ==
  LET ahb == Signal(r, r.sys) \div r.ahb
  IN  [sysclk |-> Signal(r, r.sys), ahb |-> ahb, apb1 |-> ahb \div r.apb1, apb2 |-> ahb \div r.apb2,
       usb |-> Signal(r, r.usb), q |-> Signal(r, "pll_q")]

-----------------------------------------------------------------------------
(* rcc_config                                                              *)
RccConfig(board) == Boards[board]

(* board_config: the board's configuration, or with rcc-config-override    *)
(* the application's.                                                      *)
BoardConfig ==
  /\ c.pc = "reset"
  /\ \/ c' = [c EXCEPT !.pc = "configured", !.rcc = RccConfig(c.board)]
     \/ \E r \in Overrides :
          c' = [c EXCEPT !.pc = "configured", !.rcc = r, !.override = TRUE]

HalInit ==
  /\ c.pc = "configured"
  /\ c' = [c EXCEPT !.pc = "clocked", !.mhz = Tree(c.rcc)]

EnableFlashCache ==
  /\ c.pc = "clocked"
  /\ c' = [c EXCEPT !.pc = "running",
                    !.cache = IF c.board = "st_nucleo_f401re" THEN {"instruction", "data"} ELSE {}]

Init ==
  \E board \in DOMAIN Boards :
    c = [board |-> board, pc |-> "reset", rcc |-> Default, override |-> FALSE,
         mhz |-> Tree(Default), cache |-> {}]

Next == BoardConfig \/ HalInit \/ EnableFlashCache

Spec == Init /\ [][Next]_c

-----------------------------------------------------------------------------
(* The frequencies that the comments of rcc_config give; 0 where USB is    *)
(* not used.                                                               *)
Stated ==
  [st_b_l475e_iot01a |-> [sysclk |-> 80, usb |-> 48], st_nucleo_wb55 |-> [sysclk |-> 80, usb |-> 48],
   stm32f303 |-> [sysclk |-> 72], stm32h755zi |-> [sysclk |-> 400, ahb |-> 200, apb1 |-> 100,
                                                   apb2 |-> 100, usb |-> 48],
   stm32h753zi |-> [sysclk |-> 400, ahb |-> 200, apb1 |-> 100, apb2 |-> 100, q |-> 50, usb |-> 48],
   stm32u0 |-> [sysclk |-> 56, usb |-> 48], st_steval_mkboxpro |-> [sysclk |-> 160, usb |-> 48],
   seeedstudio_lora_e5_mini |-> [sysclk |-> 48, q |-> 48],
   st_nucleo_wba65ri |-> [sysclk |-> 96, usb |-> 32]]

(* An STM32 runs at the frequencies that rcc_config states for its board:  *)
(* the dividers and multipliers of the PLLs, which the chips order and     *)
(* name differently, give the stated system clock, bus clocks and USB      *)
(* reference.                                                              *)
ClocksAsStated ==
  c.pc = "running" /\ ~c.override /\ c.board \in DOMAIN Stated =>
    \A clock \in DOMAIN Stated[c.board] : c.mhz[clock] = Stated[c.board][clock]
=============================================================================
