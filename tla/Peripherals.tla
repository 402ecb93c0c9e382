---------------------------- MODULE Peripherals ----------------------------
(***************************************************************************)
(* Who uses which peripheral of the chip.  init_task() holds all of them   *)
(* in OptionalPeripherals; subsystems and tasks take what they need with   *)
(* take().unwrap(), which panics when it is gone.  The bus drivers steal   *)
(* their peripherals when an application constructs them, possibly from    *)
(* another thread: this is sound because i2c::init, spi::init, uart::init  *)
(* and the registry of external interrupts took them before any task ran.  *)
(* One table per chip family and subsystem, as the source has them, in     *)
(* rows of chips and what each of them has; a chip that no row of a table  *)
(* names does not have the feature (compile_error!).                       *)
(*                                                                         *)
(*   p.chip       the chip                                                 *)
(*   p.features   the features of the build                                *)
(*   p.step       how many of the InitSteps are done                       *)
(*   p.gone       what has been taken from OptionalPeripherals             *)
(*   p.uses       pairs of a user and a peripheral that it operates        *)
(*   p.channels   interrupt channels in use: pins (STM32), a count (nRF)   *)
(*   p.claims     how often the application took or constructed something  *)
(*   p.panic      init_task has panicked                                   *)
(***************************************************************************)
EXTENDS Naturals, FiniteSets, Sequences

CONSTANTS FeatureSets,       \* sets of features to look at
          Pins,              \* <<port, number>> of pins used as interrupt inputs
          INT_CHANNEL_COUNT, \* channels of the nRF's GPIOTE
          Reconstruct,       \* may a driver be constructed twice?
          MaxClaims          \* bound on what the application takes and constructs

VARIABLE p

Many(kind, numbers) == {kind} \X numbers
One(kind) == {<<kind, 0>>}

-----------------------------------------------------------------------------
(* Nordic nRF.                                                             *)

NrfI2cInit ==
  {<<{"nrf52833", "nrf52840"}, Many("TWISPI", {0, 1})>>,
   <<{"nrf5340-app", "nrf91"}, Many("SERIAL", {0, 1})>>}

NrfSpiInit ==
  {<<{"nrf52833"}, Many("SPI", {3})>>,
   <<{"nrf52840"}, Many("SPI", {2, 3})>>,
   <<{"nrf5340-app", "nrf91"}, Many("SERIAL", {2})>>}

NrfUartInit ==
  {<<{"nrf52832"},
     Many("UARTE", {0}) \cup Many("TIMER", {4}) \cup Many("PPI_CH", {14, 15}) \cup Many("PPI_GROUP", {5})>>,
   <<{"nrf52833", "nrf52840"},
     Many("UARTE", {0, 1}) \cup Many("TIMER", {3, 4}) \cup Many("PPI_CH", 13 .. 16)
       \cup Many("PPI_GROUP", {4, 5})>>,
   <<{"nrf5340-app"},
     Many("SERIAL", {3}) \cup Many("TIMER", {2}) \cup Many("PPI_CH", {18, 19}) \cup Many("PPI_GROUP", {5})>>,
   <<{"nrf91"},
     Many("SERIAL", {3}) \cup Many("TIMER", {2}) \cup Many("PPI_CH", {14, 15}) \cup Many("PPI_GROUP", {5})>>}

NrfI2cDrivers == NrfI2cInit      \* a driver per peripheral

NrfSpiDrivers ==
  {<<{"nrf52833", "nrf52840"}, Many("SPI", {3})>>,
   <<{"nrf5340-app", "nrf91"}, Many("SERIAL", {2})>>}

NrfUart(uart, timer, ch1, ch2, group) ==
  {uart, <<"TIMER", timer>>, <<"PPI_CH", ch1>>, <<"PPI_CH", ch2>>, <<"PPI_GROUP", group>>}

NrfUartDrivers ==
  {<<{"nrf52832"}, {NrfUart(<<"UARTE", 0>>, 4, 14, 15, 5)}>>,
   <<{"nrf52833", "nrf52840"},
     {NrfUart(<<"UARTE", 0>>, 3, 13, 14, 4), NrfUart(<<"UARTE", 1>>, 4, 15, 16, 5)}>>,
   <<{"nrf5340-app"}, {NrfUart(<<"SERIAL", 3>>, 2, 18, 19, 5)}>>,
   <<{"nrf91"}, {NrfUart(<<"SERIAL", 3>>, 2, 14, 15, 5)}>>}

Nrf52Ble == Many("PPI_CH", 17 .. 31) \cup One("RTC") \cup Many("TIMER", {0}) \cup One("TEMP")
Nrf53Ble == Many("PPI_CH", 0 .. 12) \cup One("RTC") \cup Many("TIMER", {0, 1}) \cup One("TEMP")
NrfBle == {<<{"nrf52832", "nrf52833", "nrf52840"}, Nrf52Ble>>, <<{"nrf5340-net"}, Nrf53Ble>>}

Nrf == {"nrf52832", "nrf52833", "nrf52840", "nrf5340-app", "nrf5340-net", "nrf91"}
NrfHwrng == {<<{"nrf52832", "nrf52833", "nrf52840", "nrf5340-net"}, One("RNG")>>}
NrfStorage == {<<Nrf, One("NVMC")>>}
NrfUsb == {<<{"nrf52833", "nrf52840", "nrf5340-app"}, One("USBD")>>}
NrfDebugUart == {<<{"nrf52832", "nrf52840"}, Many("UARTE", {0}) \cup Many("P0", {6, 8})>>}

-----------------------------------------------------------------------------
(* STMicroelectronics STM32.                                               *)

H7 == {"stm32h755zi", "stm32h753zi"}
U0 == {"stm32u073kc", "stm32u083mc"}
Stm32 == {"stm32c031c6", "stm32f042k6", "stm32f303cb", "stm32f303re", "stm32f401re", "stm32f411re",
          "stm32f767zi", "stm32l475vg", "stm32u585ai", "stm32wb55rg", "stm32wba55cg",
          "stm32wba65ri", "stm32wle5jc"} \cup H7 \cup U0

Stm32I2cInit ==
  {<<{"stm32c031c6", "stm32f042k6"}, Many("I2C", {1})>>,
   <<{"stm32f303cb"}, Many("I2C", {1, 2})>>,
   <<{"stm32f303re", "stm32f401re", "stm32f411re", "stm32l475vg"}, Many("I2C", 1 .. 3)>>,
   <<{"stm32u585ai"} \cup H7 \cup U0, Many("I2C", 1 .. 4)>>,
   <<{"stm32wb55rg"}, Many("I2C", {1, 3})>>}

Stm32I2cDrivers ==
  {<<{"stm32c031c6", "stm32f042k6"} \cup U0, Many("I2C", {1})>>,
   <<{"stm32f303cb"}, Many("I2C", {1, 2})>>,
   <<{"stm32f303re", "stm32f401re", "stm32f411re", "stm32l475vg"}, Many("I2C", 1 .. 3)>>,
   <<{"stm32u585ai"} \cup H7, Many("I2C", 1 .. 4)>>,
   <<{"stm32wb55rg"}, Many("I2C", {1, 3})>>}

Stm32SpiInit ==
  {<<{"stm32c031c6"}, Many("SPI", {1})>>,
   <<{"stm32f303cb", "stm32f303re", "stm32f401re", "stm32l475vg", "stm32u585ai"} \cup U0,
     Many("SPI", 1 .. 3)>>,
   <<{"stm32f411re"}, Many("SPI", 1 .. 5)>>,
   <<H7, Many("SPI", 1 .. 6)>>,
   <<{"stm32wb55rg"}, Many("SPI", {1, 2})>>}

Stm32SpiDrivers ==
  {<<{"stm32c031c6"} \cup U0, Many("SPI", {1})>>,
   <<{"stm32f303cb", "stm32f303re", "stm32f401re", "stm32l475vg", "stm32u585ai"},
     Many("SPI", 1 .. 3)>>,
   <<{"stm32f411re"}, Many("SPI", 1 .. 5)>>,
   <<H7, Many("SPI", 1 .. 6)>>,
   <<{"stm32wb55rg"}, Many("SPI", {1, 2})>>}

Stm32UartInit ==
  {<<{"stm32c031c6"}, Many("USART", {1})>>,
   <<{"stm32f042k6"}, Many("USART", {1, 2})>>,
   <<{"stm32f303cb"}, Many("USART", 1 .. 3)>>,
   <<{"stm32f303re"}, Many("USART", 1 .. 3) \cup Many("UART", {4, 5})>>,
   <<{"stm32f401re", "stm32f411re"}, Many("USART", {1, 2, 6})>>,
   <<{"stm32f767zi"}, Many("USART", {1, 2, 3, 6}) \cup Many("UART", {4, 5, 7, 8})>>,
   <<H7, Many("LPUART", {1}) \cup Many("USART", {1, 2, 3, 6}) \cup Many("UART", {4, 5, 7, 8})>>,
   <<{"stm32l475vg", "stm32u585ai"},
     Many("LPUART", {1}) \cup Many("USART", 1 .. 3) \cup Many("UART", {4, 5})>>,
   <<U0, Many("LPUART", 1 .. 3) \cup Many("USART", 1 .. 4)>>,
   <<{"stm32wb55rg"}, Many("LPUART", {1}) \cup Many("USART", {1})>>,
   <<{"stm32wba55cg", "stm32wle5jc"}, Many("LPUART", {1}) \cup Many("USART", {1, 2})>>}

Stm32UartDrivers ==
  {<<{"stm32c031c6", "stm32f042k6"}, Many("USART", {1})>>,
   <<{"stm32f303cb"}, Many("USART", {1, 3})>>,
   <<{"stm32f303re"}, Many("USART", {1, 3}) \cup Many("UART", {4, 5})>>,
   <<{"stm32f401re", "stm32f411re"}, Many("USART", {1, 6})>>,
   <<{"stm32f767zi"}, Many("USART", {1, 2, 3, 6}) \cup Many("UART", {4, 7, 8})>>,
   <<H7, Many("LPUART", {1}) \cup Many("USART", {1, 2, 3, 6}) \cup Many("UART", {4, 7, 8})>>,
   <<{"stm32l475vg"}, Many("LPUART", {1}) \cup Many("USART", 1 .. 3) \cup Many("UART", {4})>>,
   <<U0, Many("USART", 1 .. 3)>>,
   <<{"stm32u585ai"}, Many("LPUART", {1}) \cup Many("USART", {1, 3}) \cup Many("UART", {4, 5})>>,
   <<{"stm32wb55rg"}, Many("LPUART", {1})>>,
   <<{"stm32wba55cg", "stm32wle5jc"}, Many("LPUART", {1}) \cup Many("USART", {1})>>}

Stm32Extint == {<<Stm32, Many("EXTI", 0 .. 15)>>}
Stm32Hwrng ==
  {<<{"stm32f767zi", "stm32l475vg", "stm32u585ai", "stm32wb55rg", "stm32wba55cg", "stm32wba65ri",
      "stm32wle5jc"} \cup H7 \cup U0, One("RNG")>>}
Stm32Storage == {<<Stm32, One("FLASH")>>}
Stm32Usb ==
  {<<{"stm32f401re", "stm32l475vg", "stm32u585ai"} \cup H7,
     One("USB_OTG_FS") \cup Many("PA", {11, 12})>>,
   <<{"stm32wba65ri"}, One("USB_OTG_HS") \cup Many("PD", {6, 7})>>,
   <<{"stm32f303cb", "stm32f303re", "stm32wb55rg"} \cup U0,
     One("USB") \cup Many("PA", {11, 12})>>}
Stm32Ethernet ==
  {<<{"stm32f767zi"} \cup H7,
     One("ETH") \cup Many("PA", {1, 2, 7}) \cup Many("PC", {1, 4, 5}) \cup Many("PG", {11, 13})
       \cup Many("PB", {13})>>}
Stm32DebugUart ==
  {<<{"stm32l475vg", "stm32wb55rg"}, Many("USART", {1}) \cup Many("PB", {6, 7})>>,
   <<{"stm32u083mc"}, Many("USART", {2}) \cup Many("PA", {2, 3})>>}

-----------------------------------------------------------------------------
(* Raspberry Pi RP and Espressif ESP32.                                    *)

Rp == {"rp2040", "rp235xa"}
RpI2cInit == {<<Rp, Many("I2C", {0, 1})>>}
RpSpiInit == {<<Rp, Many("SPI", {0, 1})>>}
RpUartInit == {<<Rp, Many("UART", {0, 1})>>}
RpHwrng == {<<{"rp2040"}, {}>>, <<{"rp235xa"}, One("TRNG")>>}
RpStorage == {<<Rp, One("FLASH") \cup Many("DMA_CH", {1})>>}
RpUsb == {<<Rp, One("USB")>>}
RpCyw43 == {<<Rp, Many("PIN", {23, 24, 25, 29}) \cup One("PIO") \cup Many("DMA_CH", {0})>>}

Big == {"esp32", "esp32s2", "esp32s3"}      \* with two of most peripherals
Esp == Big \cup {"esp32c3", "esp32c6"}
EspI2cInit == {<<Big, Many("I2C", {0, 1})>>, <<Esp \ Big, Many("I2C", {0})>>}
EspSpiInit == {<<Big, Many("SPI", {2, 3})>>, <<Esp \ Big, Many("SPI", {2})>>}
EspUartInit ==
  {<<{"esp32", "esp32s3"}, Many("UART", 0 .. 2)>>,
   <<{"esp32s2", "esp32c3", "esp32c6"}, Many("UART", {0, 1})>>}
EspTime == {<<{"esp32"}, Many("TIMG", {1})>>, <<Esp \ {"esp32"}, One("SYSTIMER")>>}
EspUsb == {<<{"esp32s2", "esp32s3"}, One("USB") \cup Many("GPIO", {19, 20})>>}
EspBle == {<<Esp, One("BT")>>}
EspWifi == {<<Esp, One("WIFI")>>}

(* The board with an output that is low from start-up.                     *)
BoardsInit == {<<{"esp32"}, Many("GPIO", {15})>>}

-----------------------------------------------------------------------------
Chips == Nrf \cup Stm32 \cup Rp \cup Esp

(* What the rows give each of their chips.                                 *)
Table(rows) ==
  [c \in UNION {row[1] : row \in rows} |-> UNION {row[2] : row \in {r \in rows : c \in r[1]}}]

Singly(rows) == {<<row[1], {{x} : x \in row[2]}>> : row \in rows}

(* What each step takes, and whether it operates it (or keeps it for the   *)
(* drivers that steal it later).                                           *)
Takes ==
  [time |-> Table(EspTime), extint |-> Table(Stm32Extint),
   i2c |-> Table(NrfI2cInit \cup Stm32I2cInit \cup RpI2cInit \cup EspI2cInit),
   spi |-> Table(NrfSpiInit \cup Stm32SpiInit \cup RpSpiInit \cup EspSpiInit),
   uart |-> Table(NrfUartInit \cup Stm32UartInit \cup RpUartInit \cup EspUartInit),
   hwrng |-> Table(NrfHwrng \cup Stm32Hwrng \cup RpHwrng \cup {<<Esp, {}>>}),
   storage |-> Table(NrfStorage \cup Stm32Storage \cup RpStorage),
   ble |-> Table(NrfBle), usb |-> Table(NrfUsb \cup Stm32Usb \cup RpUsb \cup EspUsb),
   ethernet |-> Table(Stm32Ethernet), cyw43 |-> Table(RpCyw43), esp_ble |-> Table(EspBle),
   wifi |-> Table(EspWifi), debug_uart |-> Table(NrfDebugUart \cup Stm32DebugUart),
   boards |-> Table(BoardsInit)]

DriverTypes ==
  [i2c |-> Table(Singly(NrfI2cDrivers \cup Stm32I2cDrivers \cup RpI2cInit \cup EspI2cInit)),
   spi |-> Table(Singly(NrfSpiDrivers \cup Stm32SpiDrivers \cup RpSpiInit \cup EspSpiInit)),
   uart |-> Table(NrfUartDrivers \cup Singly(Stm32UartDrivers \cup RpUartInit \cup EspUartInit))]

Kept == {"i2c", "spi", "uart", "extint"}

(* The order of init_task; hal::init, with the ESP's timer, comes before.  *)
InitSteps == <<"time", "debug_uart", "boards", "extint", "i2c", "spi", "uart", "hwrng", "storage",
               "ble", "usb", "tasks", "ethernet", "cyw43", "esp_ble", "wifi">>

Done(name) == \E i \in 1 .. p.step : InitSteps[i] = name

Booting(chip, features) ==
  [chip |-> chip, features |-> features, step |-> 0, gone |-> {}, uses |-> {}, channels |-> {},
   claims |-> 0, panic |-> FALSE]

Init ==
  \E chip \in Chips, features \in FeatureSets :
    /\ \A f \in features : chip \in DOMAIN Takes[f]
    /\ p = Booting(chip, features)

-----------------------------------------------------------------------------
Name == InitSteps[p.step + 1]
Wanted == IF Name \in p.features THEN Takes[Name][p.chip] ELSE {}

(* take().unwrap() of one step of init_task, after the tasks are spawned   *)
(* interleaved with them at its awaits.                                    *)
InitStep ==
  /\ ~p.panic
  /\ p.step < Len(InitSteps)
  /\ p' = IF Wanted \cap p.gone # {}
          THEN [p EXCEPT !.panic = TRUE]
          ELSE [p EXCEPT !.step = @ + 1, !.gone = @ \cup Wanted,
                         !.uses = @ \cup (IF Name \in Kept THEN {} ELSE {<<Name>>} \X Wanted)]

(* What tasks and threads may do once the tasks are started.  A claim is   *)
(* counted for each of them: two that conflict are enough to see it.       *)
Running ==
  /\ ~p.panic
  /\ Done("tasks")
  /\ p.claims < MaxClaims

(* take_peripherals() of a task, which is given the peripherals in the     *)
(* loop over EMBASSY_TASKS only; what is of interest is something that     *)
(* another part of the system wants too.                                   *)
TaskTakes ==
  /\ Running
  /\ InitSteps[p.step] = "tasks"
  /\ \E f \in p.features : \E x \in Takes[f][p.chip] \ p.gone :
       p' = [p EXCEPT !.claims = @ + 1, !.gone = @ \cup {x}, !.uses = @ \cup {<<<<"task">>, x>>}]

(* new() of a driver, from a task or a thread.                             *)
Construct ==
  /\ Running
  /\ \E f \in p.features \cap DOMAIN DriverTypes : \E d \in DriverTypes[f][p.chip] :
       \E n \in IF Reconstruct THEN {1, 2} ELSE {1} :
         p' = [p EXCEPT !.claims = @ + 1, !.uses = @ \cup ({<<f, d, n>>} \X d)]

(* Mutant: channels are told apart by the whole pin. *)
Stm32ChannelPerPin(pin) ==
  /\ Running
  /\ p.chip \in Stm32
  /\ "extint" \in p.features
  /\ p' = [p EXCEPT !.claims = @ + 1, !.channels = @ \cup {pin}, !.uses = @ \cup {<<pin, <<"EXTI", pin[2]>>>>}]

(* get_interrupt_channel_for_pin: the channel has the number of the pin.   *)
Stm32Channel(pin) ==
  /\ Running
  /\ p.chip \in Stm32
  /\ "extint" \in p.features
  /\ \A used \in p.channels : used[2] # pin[2]
  /\ p' = [p EXCEPT !.claims = @ + 1, !.channels = @ \cup {pin}, !.uses = @ \cup {<<pin, <<"EXTI", pin[2]>>>>}]

(* use_interrupt_for_pin: any channel; they are never given back.          *)
NrfChannel(pin) ==
  /\ Running
  /\ p.chip \in Nrf
  /\ pin \notin p.channels
  /\ Cardinality(p.channels) # INT_CHANNEL_COUNT
  /\ p' = [p EXCEPT !.claims = @ + 1, !.channels = @ \cup {pin}]

Next == InitStep \/ TaskTakes \/ Construct \/ (\E pin \in Pins : Stm32Channel(pin) \/ NrfChannel(pin))

Spec == Init /\ [][Next]_p

-----------------------------------------------------------------------------
(* No two parts of the system operate the same peripheral: not a driver    *)
(* that steals it and a task that took it, not two drivers, not a driver   *)
(* and the Bluetooth controller, not two inputs with one channel; for      *)
(* every chip and combination of features.                                 *)
OneUser == \A u, v \in p.uses : u[2] = v[2] => u[1] = v[1]

(* What the steps of start-up take does not overlap, on no chip and with   *)
(* no combination of features, but for one: the UART for debug output is   *)
(* one of those that uart::init takes, so that with both init_task panics  *)
(* at uart::init and never comes further.  Otherwise it panics only for    *)
(* what a task took.                                                       *)
TwoUarts == {"debug_uart", "uart"} \subseteq p.features

InitSucceeds ==
  /\ p.panic => \/ \E u \in p.uses : u[1] = <<"task">> /\ u[2] \in Wanted
                \/ TwoUarts /\ Name = "uart"
  /\ TwoUarts => ~Done("uart")
=============================================================================
