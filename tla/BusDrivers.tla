---------------------------- MODULE BusDrivers -----------------------------
(***************************************************************************)
(* new() of the bus drivers and the builders of GPIO inputs and outputs:   *)
(* what of the application's configuration reaches the HAL, and in which   *)
(* order.  The constructors of the HALs                                    *)
(* (external) take the same pins and buffers in different orders, and      *)
(* their settings have other forms than the portable ones.                 *)
(*                                                                         *)
(*   d.family    the chip family                                           *)
(*   d.bus       "i2c", "spi", "uart", "input" or "output"                 *)
(*   d.config    the Config of the application, or the builder             *)
(*   d.hw        what the peripheral is set to                             *)
(***************************************************************************)
EXTENDS Naturals, Sequences

CONSTANT HalBauds      \* baud rates of Baudrate::Hal; the nRF has these too

VARIABLE d

Families == {"nrf", "stm32", "rp", "esp"}
KHZ_TO_HZ == 1000

(* The settings f together with the settings g.                            *)
f ++ g ==
  [x \in DOMAIN f \cup DOMAIN g |-> IF x \in DOMAIN f THEN f[x] ELSE g[x]]

-----------------------------------------------------------------------------
(* The HALs' constructors (external).                                      *)

HalSdaScl(sda, scl) == [sda |-> sda, scl |-> scl]                        \* nRF
HalSclSda(scl, sda) == [sda |-> sda, scl |-> scl]                        \* STM32, RP
HalSckMisoMosi(sck, miso, mosi) == [sck |-> sck, miso |-> miso, mosi |-> mosi]      \* nRF
HalSckMosiMiso(sck, mosi, miso) == [sck |-> sck, miso |-> miso, mosi |-> mosi]      \* STM32, RP
HalUarte(rx, tx, rx_buffer, tx_buffer) ==                                \* nRF
  [rx |-> rx, tx |-> tx, rx_buf |-> rx_buffer, tx_buf |-> tx_buffer]
HalUsart(rx, tx, tx_buf, rx_buf) ==                                      \* STM32
  [rx |-> rx, tx |-> tx, rx_buf |-> rx_buf, tx_buf |-> tx_buf]
HalRpUart(tx, rx, tx_buf, rx_buf) ==                                     \* RP
  [rx |-> rx, tx |-> tx, rx_buf |-> rx_buf, tx_buf |-> tx_buf]
HalMode == << <<"IdleLow", "First">>, <<"IdleLow", "Second">>,           \* MODE_0 to MODE_3
              <<"IdleHigh", "First">>, <<"IdleHigh", "Second">> >>

-----------------------------------------------------------------------------
(* I2C: the configurations of a family, and its new().                     *)

CommonFrequency == [_100k |-> 100, _400k |-> 400]      \* From, for each family

I2cConfig == [frequency : {"_100k", "_400k"}]
PullupConfig == [frequency : {"_100k", "_400k"}, sda_pullup : BOOLEAN, scl_pullup : BOOLEAN]
NrfI2cConfig ==
  [frequency : {"_100k", "_400k"}, sda_pullup : BOOLEAN, scl_pullup : BOOLEAN,
   sda_high_drive : BOOLEAN, scl_high_drive : BOOLEAN]

NrfTwimFrequency == [_100k |-> 100000, _400k |-> 400000]      \* K100 and K400

NrfI2cNew(c) ==
  HalSdaScl("sda_pin", "scl_pin")
  ++ [hz |-> NrfTwimFrequency[c.frequency], sda_pullup |-> c.sda_pullup, scl_pullup |-> c.scl_pullup,
      sda_high_drive |-> c.sda_high_drive, scl_high_drive |-> c.scl_high_drive]

Stm32I2cNew(c) ==
  HalSclSda("scl_pin", "sda_pin")
  ++ [hz |-> CommonFrequency[c.frequency] * KHZ_TO_HZ,
      sda_pullup |-> c.sda_pullup, scl_pullup |-> c.scl_pullup]

RpI2cNew(c) ==
  HalSclSda("scl_pin", "sda_pin") ++ [hz |-> CommonFrequency[c.frequency] * KHZ_TO_HZ]

EspI2cNew(c) ==      \* with_sda, with_scl
  [sda |-> "sda_pin", scl |-> "scl_pin", hz |-> CommonFrequency[c.frequency] * KHZ_TO_HZ]

I2cNew(family, c) ==
  CASE family = "nrf" -> NrfI2cNew(c)
    [] family = "stm32" -> Stm32I2cNew(c)
    [] family = "rp" -> RpI2cNew(c)
    [] family = "esp" -> EspI2cNew(c)

-----------------------------------------------------------------------------
(* SPI.  The RP has no bit order: it always sends the first bit first.     *)

SpiFrequency ==
  [_125k |-> 125, _250k |-> 250, _500k |-> 500, _1M |-> 1000, _2M |-> 2000, _4M |-> 4000, _8M |-> 8000]

NrfSpimFrequency ==      \* K125 to M8
  [_125k |-> 125000, _250k |-> 250000, _500k |-> 500000, _1M |-> 1000000, _2M |-> 2000000,
   _4M |-> 4000000, _8M |-> 8000000]

SpiModes == {"Mode0", "Mode1", "Mode2", "Mode3"}
RpSpiConfig == [frequency : DOMAIN SpiFrequency, mode : SpiModes]
SpiConfig == [frequency : DOMAIN SpiFrequency, mode : SpiModes, bit_order : {"MsbFirst", "LsbFirst"}]

NrfFromMode == [Mode0 |-> HalMode[1], Mode1 |-> HalMode[2], Mode2 |-> HalMode[3], Mode3 |-> HalMode[4]]
Stm32FromMode == NrfFromMode
EspFromMode == NrfFromMode

RpFromMode ==
  [Mode0 |-> <<"IdleLow", "First">>, Mode1 |-> <<"IdleLow", "Second">>,
   Mode2 |-> <<"IdleHigh", "First">>, Mode3 |-> <<"IdleHigh", "Second">>]

Clock(mode) == [polarity |-> mode[1], phase |-> mode[2]]

NrfSpiNew(c) ==
  HalSckMisoMosi("sck_pin", "miso_pin", "mosi_pin")
  ++ Clock(NrfFromMode[c.mode]) ++ [hz |-> NrfSpimFrequency[c.frequency], order |-> c.bit_order]

Stm32SpiNew(c) ==
  HalSckMosiMiso("sck_pin", "mosi_pin", "miso_pin")
  ++ Clock(Stm32FromMode[c.mode])
  ++ [hz |-> SpiFrequency[c.frequency] * KHZ_TO_HZ, order |-> c.bit_order]

RpSpiNew(c) ==
  HalSckMosiMiso("sck_pin", "mosi_pin", "miso_pin")
  ++ Clock(RpFromMode[c.mode])
  ++ [hz |-> SpiFrequency[c.frequency] * KHZ_TO_HZ, order |-> "MsbFirst"]

EspSpiNew(c) ==      \* with_sck, with_mosi, with_miso
  [sck |-> "sck_pin", mosi |-> "mosi_pin", miso |-> "miso_pin"]
  ++ Clock(EspFromMode[c.mode])
  ++ [hz |-> SpiFrequency[c.frequency] * KHZ_TO_HZ, order |-> c.bit_order]

SpiNew(family, c) ==
  CASE family = "nrf" -> NrfSpiNew(c)
    [] family = "stm32" -> Stm32SpiNew(c)
    [] family = "rp" -> RpSpiNew(c)
    [] family = "esp" -> EspSpiNew(c)

-----------------------------------------------------------------------------
(* UART.  A baud rate is one of the common ones or the HAL's own; stop     *)
(* bits are counted in halves.                                             *)

CommonBaud ==
  [B2400 |-> 2400, B4800 |-> 4800, B9600 |-> 9600, B19200 |-> 19200, B38400 |-> 38400,
   B57600 |-> 57600, B115200 |-> 115200]
Bauds == ({"common"} \X DOMAIN CommonBaud) \cup ({"Hal"} \X HalBauds)

NrfBauds == {1200, 2400, 4800, 9600, 14400, 19200, 28800, 31250, 38400, 56000, 57600, 76800, 115200,
             230400, 250000, 460800, 921600, 1000000}

Uart(data_bits, stop_bits, parities) ==
  [baudrate : Bauds, data_bits : data_bits, stop_bits : stop_bits, parity : parities]

UartConfig ==
  [nrf |-> Uart({"Data8"}, {"Stop1"}, {"None", "Even"}),
   stm32 |-> Uart({"Data7", "Data8", "Data9"}, {"Stop1", "Stop0P5", "Stop2", "Stop1P5"},
                  {"None", "Even", "Odd"}),
   rp |-> Uart({"Data5", "Data6", "Data7", "Data8"}, {"Stop1", "Stop2"}, {"None", "Even", "Odd"}),
   esp |-> Uart({"Data5", "Data6", "Data7", "Data8"}, {"Stop1", "Stop1P5", "Stop2"},
                {"None", "Even", "Odd"})]

FromBaud(baud) == IF baud[1] = "Hal" THEN baud[2] ELSE CommonBaud[baud[2]]

NrfFromBaudrate == [baud \in NrfBauds |-> baud]      \* BAUD1200 to BAUD1M
NrfBaud(baud) == NrfFromBaudrate[FromBaud(baud)]
Stm32Baud(baud) == FromBaud(baud)
RpBaud(baud) == FromBaud(baud)
EspBaud(baud) == FromBaud(baud)

NrfFromParity == [None |-> "EXCLUDED", Even |-> "INCLUDED"]
Stm32FromParity == [None |-> "ParityNone", Even |-> "ParityEven", Odd |-> "ParityOdd"]
RpFromParity == [None |-> "ParityNone", Even |-> "ParityEven", Odd |-> "ParityOdd"]
EspFromParity == [None |-> "None", Even |-> "Even", Odd |-> "Odd"]

Stm32FromDataBits == [Data7 |-> 7, Data8 |-> 8, Data9 |-> 9]
RpFromDataBits == [Data5 |-> 5, Data6 |-> 6, Data7 |-> 7, Data8 |-> 8]
EspFromDataBits == [Data5 |-> 5, Data6 |-> 6, Data7 |-> 7, Data8 |-> 8]

Stm32FromStopBits == [Stop1 |-> 2, Stop0P5 |-> 1, Stop2 |-> 4, Stop1P5 |-> 3]
RpFromStopBits == [Stop1 |-> 2, Stop2 |-> 4]
EspFromStopBits == [Stop1 |-> 2, Stop1P5 |-> 3, Stop2 |-> 4]

NrfUartNew(c) ==      \* the frame is the HAL's: 8 bits and a stop bit
  HalUarte("rx_pin", "tx_pin", "rx_buffer", "tx_buffer")
  ++ [baud |-> NrfBaud(c.baudrate), data |-> 8, stop |-> 2, parity |-> NrfFromParity[c.parity]]

Stm32UartNew(c) ==
  HalUsart("rx_pin", "tx_pin", "tx_buffer", "rx_buffer")
  ++ [baud |-> Stm32Baud(c.baudrate), data |-> Stm32FromDataBits[c.data_bits],
      stop |-> Stm32FromStopBits[c.stop_bits], parity |-> Stm32FromParity[c.parity]]

(* Mutant: the pins in the order of the other families. *)
RpUartNewRxFirst(c) ==
  HalRpUart("rx_pin", "tx_pin", "tx_buffer", "rx_buffer")
  ++ [baud |-> RpBaud(c.baudrate), data |-> RpFromDataBits[c.data_bits],
      stop |-> RpFromStopBits[c.stop_bits], parity |-> RpFromParity[c.parity]]

RpUartNew(c) ==
  HalRpUart("tx_pin", "rx_pin", "tx_buffer", "rx_buffer")
  ++ [baud |-> RpBaud(c.baudrate), data |-> RpFromDataBits[c.data_bits],
      stop |-> RpFromStopBits[c.stop_bits], parity |-> RpFromParity[c.parity]]

EspUartNew(c) ==      \* with_tx, with_rx; the buffers are the HAL's
  [tx |-> "tx_pin", rx |-> "rx_pin", rx_buf |-> "rx_buffer", tx_buf |-> "tx_buffer",
   baud |-> EspBaud(c.baudrate), data |-> EspFromDataBits[c.data_bits],
   stop |-> EspFromStopBits[c.stop_bits], parity |-> EspFromParity[c.parity]]

UartNew(family, c) ==
  CASE family = "nrf" -> NrfUartNew(c)
    [] family = "stm32" -> Stm32UartNew(c)
    [] family = "rp" -> RpUartNew(c)
    [] family = "esp" -> EspUartNew(c)

(* convert_error: what the HALs refuse                                     *)
Stm32ConvertError ==
  [BaudrateTooLow |-> "BaudrateNotSupported", BaudrateTooHigh |-> "BaudrateNotSupported",
   DataParityNotSupported |-> "DataParityNotSupported", RxOrTxNotEnabled |-> "ConfigurationNotSupported"]
EspConvertError == [Unsupported |-> "ConfigurationNotSupported"]
UartErrors == [stm32 |-> Stm32ConvertError, esp |-> EspConvertError]

-----------------------------------------------------------------------------
(* GPIO: the builders, whose portable settings each family converts.  A    *)
(* setting that a family cannot make is left alone by the opt_ methods (it *)
(* does not compile with the others).                                      *)

SCHMITT_TRIGGER_CONFIGURABLE == {"rp"}
DRIVE_STRENGTH_CONFIGURABLE == {"nrf", "rp", "esp"}
SPEED_CONFIGURABLE == {"stm32", "rp"}

Strengths == <<"Lowest", "Standard", "Medium", "High", "Highest">>
Speeds == <<"Low", "Medium", "High", "VeryHigh">>

InputBuilder == {[pull |-> pull, schmitt_trigger |-> FALSE] : pull \in {"None", "Up", "Down"}}
OutputBuilder ==
  {[initial_level |-> level, drive_strength |-> "Standard", speed |-> "Low"] : level \in {"Low", "High"}}

(* In mA; the nRF has two steps, the STM32 none.                           *)
NrfDriveStrength == [Lowest |-> 2, Standard |-> 2, Medium |-> 2, High |-> 10, Highest |-> 10]
Stm32DriveStrength == [Lowest |-> 0, Standard |-> 0, Medium |-> 0, High |-> 0, Highest |-> 0]
RpDriveStrength == [Lowest |-> 2, Standard |-> 4, Medium |-> 8, High |-> 12, Highest |-> 12]
EspDriveStrength == [Lowest |-> 5, Standard |-> 10, Medium |-> 10, High |-> 20, Highest |-> 40]
DriveStrength ==
  [nrf |-> NrfDriveStrength, stm32 |-> Stm32DriveStrength, rp |-> RpDriveStrength,
   esp |-> EspDriveStrength]

(* Steps of the hardware, 0 where there are none.                          *)
Unsupported == [Low |-> 0, Medium |-> 0, High |-> 0, VeryHigh |-> 0]
Stm32Speed == [Low |-> 1, Medium |-> 2, High |-> 3, VeryHigh |-> 4]
RpSpeed == [Low |-> 1, Medium |-> 1, High |-> 2, VeryHigh |-> 2]
Speed == [nrf |-> Unsupported, stm32 |-> Stm32Speed, rp |-> RpSpeed, esp |-> Unsupported]

NrfInput(c) == [pull |-> c.pull]
Stm32Input(c) == [pull |-> c.pull]
RpInput(c) == [pull |-> c.pull, schmitt |-> c.schmitt_trigger]
EspInput(c) == [pull |-> c.pull]
InputNew(family, c) ==
  CASE family = "nrf" -> NrfInput(c)
    [] family = "stm32" -> Stm32Input(c)
    [] family = "rp" -> RpInput(c)
    [] family = "esp" -> EspInput(c)

NrfOutput(level, strength, speed) == [level |-> level, strength |-> strength]
Stm32Output(level, strength, speed) == [level |-> level, speed |-> speed]
RpOutput(level, strength, speed) == [level |-> level, strength |-> strength, speed |-> speed]
EspOutput(level, strength, speed) == [level |-> level, strength |-> strength]

OutputNew(family, c) ==
  LET strength == DriveStrength[family][c.drive_strength]
      speed == Speed[family][c.speed]
  IN  CASE family = "nrf" -> NrfOutput(c.initial_level, strength, speed)
        [] family = "stm32" -> Stm32Output(c.initial_level, strength, speed)
        [] family = "rp" -> RpOutput(c.initial_level, strength, speed)
        [] family = "esp" -> EspOutput(c.initial_level, strength, speed)

-----------------------------------------------------------------------------
Configs(family, bus) ==
  CASE bus = "i2c" /\ family = "nrf" -> NrfI2cConfig
    [] bus = "i2c" /\ family = "stm32" -> PullupConfig
    [] bus = "i2c" /\ family \in {"rp", "esp"} -> I2cConfig
    [] bus = "spi" -> IF family = "rp" THEN RpSpiConfig ELSE SpiConfig
    [] bus = "uart" -> UartConfig[family]
    [] bus = "input" -> InputBuilder
    [] bus = "output" -> OutputBuilder

Unset == [none |-> TRUE]

Init ==
  \E family \in Families, bus \in {"i2c", "spi", "uart", "input", "output"} :
    \E config \in Configs(family, bus) :
      d = [family |-> family, bus |-> bus, config |-> config, hw |-> Unset]

OptSchmittTrigger(enable) ==
  /\ d.hw = Unset
  /\ d.bus = "input"
  /\ d.family \in SCHMITT_TRIGGER_CONFIGURABLE
  /\ d' = [d EXCEPT !.config.schmitt_trigger = enable]

OptDriveStrength(strength) ==
  /\ d.hw = Unset
  /\ d.bus = "output"
  /\ d.family \in DRIVE_STRENGTH_CONFIGURABLE
  /\ d' = [d EXCEPT !.config.drive_strength = strength]

OptSpeed(speed) ==
  /\ d.hw = Unset
  /\ d.bus = "output"
  /\ d.family \in SPEED_CONFIGURABLE
  /\ d' = [d EXCEPT !.config.speed = speed]

(* new() or build()                                                        *)
Construct ==
  /\ d.hw = Unset
  /\ d' = [d EXCEPT !.hw = CASE d.bus = "i2c" -> I2cNew(d.family, d.config)
                             [] d.bus = "spi" -> SpiNew(d.family, d.config)
                             [] d.bus = "uart" -> UartNew(d.family, d.config)
                             [] d.bus = "input" -> InputNew(d.family, d.config)
                             [] d.bus = "output" -> OutputNew(d.family, d.config)]

ConstructFails ==
  /\ d.hw = Unset
  /\ d.bus = "uart"
  /\ d.family \in DOMAIN UartErrors
  /\ \E e \in DOMAIN UartErrors[d.family] : d' = [d EXCEPT !.hw = [error |-> UartErrors[d.family][e]]]

Build ==
  \/ \E enable \in BOOLEAN : OptSchmittTrigger(enable)
  \/ \E i \in DOMAIN Strengths : OptDriveStrength(Strengths[i])
  \/ \E i \in DOMAIN Speeds : OptSpeed(Speeds[i])

Next == Build \/ Construct \/ ConstructFails

Spec == Init /\ [][Next]_d

-----------------------------------------------------------------------------
Constructed(bus) == d.bus = bus /\ d.hw # Unset /\ "error" \notin DOMAIN d.hw

(* What the documentation says the values of Config mean.                  *)
Meaning ==
  [Data5 |-> 5, Data6 |-> 6, Data7 |-> 7, Data8 |-> 8, Data9 |-> 9,
   Stop0P5 |-> 1, Stop1 |-> 2, Stop1P5 |-> 3, Stop2 |-> 4]
ParityMeans ==
  [None |-> {"EXCLUDED", "ParityNone", "None"}, Even |-> {"INCLUDED", "ParityEven", "Even"},
   Odd |-> {"ParityOdd", "Odd"}]
Cpol == [Mode0 |-> 0, Mode1 |-> 0, Mode2 |-> 1, Mode3 |-> 1]
Cpha == [Mode0 |-> 0, Mode1 |-> 1, Mode2 |-> 0, Mode3 |-> 1]

I2cAsConfigured ==
  /\ d.hw.sda = "sda_pin" /\ d.hw.scl = "scl_pin"
  /\ d.hw.hz = CommonFrequency[d.config.frequency] * 1000
  /\ \A key \in DOMAIN d.config \ {"frequency"} : d.hw[key] = d.config[key]

SpiAsConfigured ==
  /\ d.hw.sck = "sck_pin" /\ d.hw.miso = "miso_pin" /\ d.hw.mosi = "mosi_pin"
  /\ d.hw.hz = SpiFrequency[d.config.frequency] * 1000
  /\ d.hw.polarity = IF Cpol[d.config.mode] = 1 THEN "IdleHigh" ELSE "IdleLow"
  /\ d.hw.phase = IF Cpha[d.config.mode] = 1 THEN "Second" ELSE "First"
  /\ "bit_order" \in DOMAIN d.config => d.hw.order = d.config.bit_order

UartAsConfigured ==
  /\ d.hw.rx = "rx_pin" /\ d.hw.tx = "tx_pin"
  /\ d.hw.rx_buf = "rx_buffer" /\ d.hw.tx_buf = "tx_buffer"
  /\ d.config.baudrate[1] = "Hal" => d.hw.baud = d.config.baudrate[2]
  /\ d.config.baudrate = <<"common", "B115200">> => d.hw.baud = 115200
  /\ d.hw.data = Meaning[d.config.data_bits] /\ d.hw.stop = Meaning[d.config.stop_bits]
  /\ d.hw.parity \in ParityMeans[d.config.parity]

(* Portable settings keep their order, and the lowest and highest drive    *)
(* strengths are the hardware's.                                           *)
Monotone(names, value) == \A i, j \in DOMAIN names : i < j => value[names[i]] <= value[names[j]]

Hardware == [nrf |-> {2, 10}, stm32 |-> {0}, rp |-> {2, 4, 8, 12}, esp |-> {5, 10, 20, 40}]

OutputAsConfigured ==
  /\ d.hw.level = d.config.initial_level
  /\ Monotone(Strengths, DriveStrength[d.family]) /\ Monotone(Speeds, Speed[d.family])
  /\ \A x \in Hardware[d.family] :
       DriveStrength[d.family]["Lowest"] <= x /\ x <= DriveStrength[d.family]["Highest"]

(* A driver that new() returns drives the pins, at the rate and in the     *)
(* format that the application asked for, on every family although the     *)
(* constructors of the HALs order and encode their arguments differently;  *)
(* a portable setting of an output is never weaker than a lower one.       *)
AsConfigured ==
  /\ Constructed("i2c") => I2cAsConfigured
  /\ Constructed("spi") => SpiAsConfigured
  /\ Constructed("uart") => UartAsConfigured
  /\ Constructed("output") => OutputAsConfigured
=============================================================================
