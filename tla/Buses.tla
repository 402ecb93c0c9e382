------------------------------- MODULE Buses -------------------------------
(***************************************************************************)
(* The buses as an application uses them: the search for the frequency of  *)
(* an I2C or SPI bus (highest_freq_in, which runs at compile time), and an *)
(* I2C bus shared by devices, whose transfers are given up after           *)
(* I2C_TIMEOUT.                                                            *)
(*                                                                         *)
(*   b.job       "search" or "share"                                       *)
(*   b.chip      the chip                                                  *)
(* search:                                                                 *)
(*   b.kind      "i2c" or "spi"                                            *)
(*   b.range     <<min, max>> in kHz                                       *)
(*   b.freq      [variant, khz], the frequency tried                       *)
(*   b.phase     which loop is running; "done" or "panic"                  *)
(* share:                                                                  *)
(*   b.holder    the device that holds the mutex of the bus                *)
(*   b.pc        "idle", "lock" (waits for the mutex) or "transfer"        *)
(*   b.result    what each device's last call returned                     *)
(*   b.calls     how often each device has called                          *)
(***************************************************************************)
EXTENDS Naturals, FiniteSets, Sequences, FiniteSetsExt

CONSTANTS Ranges,       \* ranges that are asked for, in kHz
          SpiStep,      \* the step of a continuous SPI frequency in kHz: 1 in the code
          Devices,      \* devices on the shared bus
          MaxCalls      \* bound on the calls of a device

VARIABLE b

None == [variant |-> "None"]

-----------------------------------------------------------------------------
(* Frequencies: an enumeration, or a number of kHz up to a maximum.        *)

NrfI2cTable(chip) == IF chip = "nrf52840" THEN <<100, 400>> ELSE <<100, 250, 400>>
EspI2cTable == <<100, 400>>
NrfSpiTable == <<125, 250, 500, 1000, 2000, 4000, 8000>>

Position(t, f) == CHOOSE i \in DOMAIN t : t[i] = f.khz
Step(t, i) == IF i \in DOMAIN t THEN [variant |-> "_", khz |-> t[i]] ELSE None
TableNext(t, f) == Step(t, Position(t, f) + 1)
TablePrev(t, f) == Step(t, Position(t, f) - 1)

UpTo100k(khz) == [variant |-> "UpTo100k", khz |-> khz]
UpTo400k(khz) == [variant |-> "UpTo400k", khz |-> khz]

Stm32I2cNext(f) ==
  CASE f.variant = "UpTo100k" /\ f.khz < 100 -> UpTo100k(f.khz + 1)
    [] f.variant = "UpTo100k" /\ f.khz >= 100 -> UpTo400k(f.khz + 1)
    [] f.variant = "UpTo400k" /\ f.khz < 400 -> UpTo400k(f.khz + 1)
    [] OTHER -> None

Stm32I2cPrev(f) ==
  CASE f.variant = "UpTo100k" /\ f.khz > 1 -> UpTo100k(f.khz - 1)
    [] f.variant = "UpTo400k" /\ f.khz > 101 -> UpTo400k(f.khz - 1)
    [] f.variant = "UpTo400k" /\ f.khz <= 101 -> UpTo100k(f.khz - 1)
    [] OTHER -> None

RpI2cNext(f) == Stm32I2cNext(f)      \* the same text
RpI2cPrev(f) == Stm32I2cPrev(f)

Stm32MaxFrequency ==
  [stm32c031c6 |-> 24000, stm32f303re |-> 18000, stm32f401re |-> 21000, stm32f411re |-> 25000,
   stm32h755zi |-> 150000, stm32l475vg |-> 40000, stm32u083mc |-> 32000, stm32u585ai |-> 80000,
   stm32wb55rg |-> 32000]
RpMaxFrequency == [rp2040 |-> 62500, rp235xa |-> 70500]
EspMaxFrequency == [esp32 |-> 80000]

MaxFrequency(chip) ==
  CASE chip \in DOMAIN Stm32MaxFrequency -> Stm32MaxFrequency[chip]
    [] chip \in DOMAIN RpMaxFrequency -> RpMaxFrequency[chip]
    [] chip \in DOMAIN EspMaxFrequency -> EspMaxFrequency[chip]

F(khz) == [variant |-> "F", khz |-> khz]
SpiNext(chip, f) == IF f.khz < MaxFrequency(chip) THEN F(f.khz + SpiStep) ELSE None
SpiPrev(chip, f) == IF f.khz > SpiStep THEN F(f.khz - SpiStep) ELSE None

Nrf == {"nrf52833", "nrf52840"}
Stm32 == DOMAIN Stm32MaxFrequency
Rp == DOMAIN RpMaxFrequency
Esp == DOMAIN EspMaxFrequency
Chips == Nrf \cup Stm32 \cup Rp \cup Esp      \* one of each kind

HasTable(chip, kind) == chip \in Nrf \/ (chip \in Esp /\ kind = "i2c")
Table(chip, kind) ==
  IF chip \in Esp THEN EspI2cTable ELSE IF kind = "i2c" THEN NrfI2cTable(chip) ELSE NrfSpiTable

First(chip, kind) ==
  IF HasTable(chip, kind) THEN Step(Table(chip, kind), 1)
  ELSE IF kind = "spi" THEN F(SpiStep) ELSE UpTo100k(1)

Succ(chip, kind, f) ==
  IF HasTable(chip, kind) THEN TableNext(Table(chip, kind), f)
  ELSE IF kind = "spi" THEN SpiNext(chip, f)
  ELSE IF chip \in Stm32 THEN Stm32I2cNext(f) ELSE RpI2cNext(f)

Pred(chip, kind, f) ==
  IF HasTable(chip, kind) THEN TablePrev(Table(chip, kind), f)
  ELSE IF kind = "spi" THEN SpiPrev(chip, f)
  ELSE IF chip \in Stm32 THEN Stm32I2cPrev(f) ELSE RpI2cPrev(f)

-----------------------------------------------------------------------------
(* highest_freq_in: the I2C and the SPI version have the same loops.       *)

Lo == b.range[1]
Hi == b.range[2]
NextFreq == Succ(b.chip, b.kind, b.freq)

RaiseToMin ==
  /\ b.job = "search"
  /\ b.phase = "raise"
  /\ b' = CASE b.freq.khz >= Lo -> [b EXCEPT !.phase = "fit"]
            [] b.freq.khz < Lo /\ NextFreq # None -> [b EXCEPT !.freq = NextFreq]
            [] OTHER -> [b EXCEPT !.phase = "panic"]

RaiseToMax ==
  /\ b.job = "search"
  /\ b.phase = "fit"
  /\ b' = CASE b.freq.khz > Hi -> [b EXCEPT !.phase = "panic"]
            [] b.freq.khz <= Hi /\ NextFreq # None /\ NextFreq.khz <= Hi ->
                 [b EXCEPT !.freq = NextFreq]
            [] OTHER -> [b EXCEPT !.phase = "done"]

-----------------------------------------------------------------------------
(* Errors of the HALs (external) and what each becomes.                    *)

NrfFromError ==
  [TxBufferTooLong |-> "Other", RxBufferTooLong |-> "Other", Transmit |-> "Other", Receive |-> "Other",
   RAMBufferTooSmall |-> "Other", AddressNack |-> "NoAcknowledgeAddress",
   DataNack |-> "NoAcknowledgeData", Overrun |-> "Overrun", Timeout |-> "Timeout"]
Stm32FromError ==
  [Bus |-> "Bus", Arbitration |-> "ArbitrationLoss", Nack |-> "NoAcknowledgeUnknown",
   Timeout |-> "Timeout", Crc |-> "Other", ZeroLengthTransfer |-> "Other", Overrun |-> "Overrun"]
RpFromError ==
  [NoAcknowledge |-> "NoAcknowledgeUnknown", ArbitrationLoss |-> "ArbitrationLoss",
   TxNotEmpty |-> "Other", AbortOther |-> "Other", AddressReserved |-> "Other",
   InvalidWriteBufferLength |-> "Other", AddressOutOfRange |-> "Other",
   InvalidReadBufferLength |-> "Other"]
EspFromError ==
  [FifoExceeded |-> "Overrun", AckAddress |-> "NoAcknowledgeAddress", AckData |-> "NoAcknowledgeData",
   AckUnknown |-> "NoAcknowledgeUnknown", Timeout |-> "Timeout", ArbitrationLost |-> "ArbitrationLoss",
   ExecutionIncomplete |-> "Other", CommandNumberExceeded |-> "Other", ZeroLengthInvalid |-> "Other"]

FromError(chip) ==
  CASE chip \in Nrf -> NrfFromError
    [] chip \in Stm32 -> Stm32FromError
    [] chip \in Rp -> RpFromError
    [] chip \in Esp -> EspFromError

(* embedded_hal's ErrorKind                                                *)
Kind(error) == IF error = "Timeout" THEN "Other" ELSE error

-----------------------------------------------------------------------------
(* An I2cDevice locks the bus (external: embassy-embedded-hal), and the    *)
(* driver enum forwards read, write, write_read and transaction, which do  *)
(* not differ here.  The STM32 driver blocks in the HAL: its transfers end *)
(* by the HAL's own timeout only.                                          *)

Call(d) ==
  /\ b.job = "share"
  /\ b.pc[d] = "idle"
  /\ b.calls[d] < MaxCalls
  /\ b' = [b EXCEPT !.pc[d] = "lock", !.calls[d] = @ + 1]

Lock(d) ==
  /\ b.job = "share"
  /\ b.pc[d] = "lock"
  /\ b.holder = {}
  /\ b' = [b EXCEPT !.pc[d] = "transfer", !.holder = {d}]

Returned(v, d, result) ==
  [v EXCEPT !.pc[d] = "idle", !.holder = {}, !.result[d] = result]

TransferEnds(d) ==
  /\ b.job = "share"
  /\ b.pc[d] = "transfer"
  /\ \/ b' = Returned(b, d, "Ok")
     \/ \E e \in DOMAIN FromError(b.chip) :
          /\ e # "Timeout"
          /\ b' = Returned(b, d, Kind(FromError(b.chip)[e]))

(* The HAL's timeout: I2C_TIMEOUT on the STM32, the longest possible on    *)
(* the ESP32.                                                              *)
HalTimeout(d) ==
  /\ b.job = "share"
  /\ b.pc[d] = "transfer"
  /\ b.chip \in Stm32 \cup Esp
  /\ b' = Returned(b, d, Kind(FromError(b.chip)["Timeout"]))

(* Mutant: transfers are not given up. *)
TimeoutNever(d) ==
  /\ b.job = "share"
  /\ b.pc[d] = "transfer"
  /\ b.chip \notin Nrf \cup Stm32
  /\ b' = Returned(b, d, Kind("NoAcknowledgeUnknown"))

(* handle_i2c_timeout_res: with_timeout drops the transfer.                *)
Timeout(d) ==
  /\ b.job = "share"
  /\ b.pc[d] = "transfer"
  /\ b.chip \notin Stm32
  /\ b' = Returned(b, d, Kind("NoAcknowledgeUnknown"))

(* The task drops the call; on the STM32 not during the transfer.          *)
Cancel(d) ==
  /\ b.job = "share"
  /\ b.pc[d] = "lock" \/ (b.pc[d] = "transfer" /\ b.chip \notin Stm32)
  /\ b' = [b EXCEPT !.pc[d] = "idle", !.holder = @ \ {d}]

-----------------------------------------------------------------------------
Searching(chip, kind, range) ==
  [job |-> "search", chip |-> chip, kind |-> kind, range |-> range, freq |-> First(chip, kind),
   phase |-> "raise"]

Sharing(chip) ==
  [job |-> "share", chip |-> chip, holder |-> {}, pc |-> [d \in Devices |-> "idle"],
   result |-> [d \in Devices |-> "Ok"], calls |-> [d \in Devices |-> 0]]

Init ==
  \/ \E chip \in Chips, kind \in {"i2c", "spi"}, range \in Ranges :
       range[1] <= range[2] /\ b = Searching(chip, kind, range)
  \/ \E chip \in {"nrf52840", "stm32f401re", "rp2040", "esp32"} : b = Sharing(chip)

DeviceStep(d) ==
  Call(d) \/ Lock(d) \/ TransferEnds(d) \/ HalTimeout(d) \/ Timeout(d) \/ Cancel(d)

Next == RaiseToMin \/ RaiseToMax \/ \E d \in Devices : DeviceStep(d)

(* The timers run, and the mutex goes to a task that waits for it.         *)
Fairness == \A d \in Devices : WF_b(Lock(d)) /\ WF_b(Timeout(d) \/ HalTimeout(d))

Spec == Init /\ [][Next]_b /\ Fairness

-----------------------------------------------------------------------------
Available(chip, kind) ==
  CASE HasTable(chip, kind) -> {Table(chip, kind)[i] : i \in DOMAIN Table(chip, kind)}
    [] kind = "i2c" /\ ~HasTable(chip, kind) -> 1 .. 400
    [] OTHER -> {SpiStep * i : i \in 1 .. (MaxFrequency(chip) \div SpiStep)}

Fitting == {f \in Available(b.chip, b.kind) : Lo <= f /\ f <= Hi}

(* highest_freq_in returns the highest frequency of the chip in the range, *)
(* in the right variant (standard mode up to 100 kHz), and panics when the *)
(* chip has none in it; prev() undoes next() on the way.                   *)
BestFrequency ==
  b.job = "search" =>
    /\ b.phase = "done" => Fitting # {} /\ b.freq.khz = Max(Fitting)
    /\ b.phase = "panic" => Fitting = {}
    /\ b.freq.variant = "UpTo100k" => b.freq.khz <= 100
    /\ b.freq.variant = "UpTo400k" => b.freq.khz > 100
    /\ NextFreq # None => Pred(b.chip, b.kind, NextFreq) = b.freq

(* A call on the shared bus returns although the device on it never        *)
(* answers: every HAL's transfers are ended by a timer of theirs or by     *)
(* with_timeout, and the bus is free for the next call.                    *)
BusFreed ==
  \A d \in Devices : (b.job = "share" /\ b.pc[d] # "idle") ~> (b.job = "share" /\ b.pc[d] = "idle")
=============================================================================
