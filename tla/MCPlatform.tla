----------------------------- MODULE MCPlatform -----------------------------
(* One run of the parts of the platform that have no state in common: each *)
(* behaviour is one of a single part, the others stand still.              *)
EXTENDS Naturals, FiniteSets

CONSTANTS Parts,
          Clients, Drivers, Modes,
          FeatureSets, Pins, INT_CHANNEL_COUNT, Reconstruct, MaxClaims,
          Ranges, SpiStep, Devices, MaxCalls,
          HalBauds, Overrides,
          Pages, Hooks, NetworkFirst, MarkerReadFails, MaxCrashes,
          WaitClears, MaxChanges,
          Lengths,
          Starts, Sizes, FrameSizes, Grain,
          Slots, Hosts, ReuseSlots, SpuriousWakes

VARIABLES part, s, p, b, d, c, o, n, r, k, w

platformvars == <<part, s, p, b, d, c, o, n, r, k, w>>

-----------------------------------------------------------------------------
Features ==
  {"time", "extint", "i2c", "spi", "uart", "hwrng", "storage", "ble", "usb", "ethernet", "cyw43",
   "esp_ble", "wifi", "debug_uart", "boards"}

(* Every pair of features, and the three that serial peripherals serve.    *)
FeaturePairs == {fs \in SUBSET Features : Cardinality(fs) <= 2} \cup {{"i2c", "spi", "uart"}}

(* Two pins that share a channel of the STM32, and one that does not.      *)
ThreePins == {<<"A", 0>>, <<"B", 0>>, <<"A", 1>>}

(* In kHz: within one mode, across two, below, above and between what the  *)
(* chips have.                                                             *)
KHzRanges ==
  {<<1, 1>>, <<50, 80>>, <<50, 150>>, <<100, 100>>, <<100, 250>>, <<101, 249>>, <<300, 450>>,
   <<401, 450>>, <<500, 1999>>, <<8000, 20000>>, <<62500, 71000>>, <<160000, 170000>>}

(* A crystal of 8 MHz and the PLL at 32 MHz.                               *)
AnOverride ==
  {[hsi |-> 16, hse |-> 8, msi |-> 0, hsi48 |-> 0, src |-> "hse", prediv |-> 1, mul |-> 4,
    p |-> 1, q |-> 0, r |-> 0, sai |-> [mul |-> 0, q |-> 0], sys |-> "pll_p", usb |-> "none",
    spi |-> "pclk", ahb |-> 1, apb1 |-> 1, apb2 |-> 1]}

Elements == [len \in Lengths |-> IF len <= 3 THEN {1, 2} ELSE {1}]

-----------------------------------------------------------------------------
Sensor == INSTANCE Sensors
Periph == INSTANCE Peripherals
Bus == INSTANCE Buses
Driver == INSTANCE BusDrivers
Clock == INSTANCE Clocks
BootUp == INSTANCE Boot
Net == INSTANCE Network
RingBuf == INSTANCE Ring
Paint == INSTANCE StackPaint
Host == INSTANCE Native

(* Lengths of arrays; a buffer may lose its array.                         *)
ASSUME LengthsAssumption == Lengths \subseteq Nat /\ 0 \in Lengths

(* Threads and host threads are not taken for nobody or for the main one.  *)
ASSUME HostsAssumption ==
  Hosts \subseteq Nat \ {Host!Main, Host!Nobody} /\ Slots \subseteq Nat \ {Host!Nobody}

(* A stack holds its first frame, and a push takes room.                   *)
ASSUME StacksAssumption ==
  /\ Starts \subseteq Nat /\ Sizes \subseteq Nat /\ FrameSizes \subseteq Nat \ {0} /\ Grain \in Nat \ {0}
  /\ \A arch \in {"cortex_m", "riscv", "xtensa"}, start \in Starts, size \in Sizes :
       start <= Paint!SetupStack(arch, start, size).sp

(* The features and pins that chips have, ranges from low to high or not,  *)
(* and baud rates that every HAL has.                                      *)
ASSUME FeaturesAssumption == FeatureSets \subseteq SUBSET Features
ASSUME PinsAssumption == Pins \subseteq STRING \X (0 .. 15)
ASSUME RangesAssumption == Ranges \subseteq Nat \X Nat
ASSUME BaudsAssumption == HalBauds \subseteq Driver!NrfBauds

(* The hooked tasks are not the server's or the Bluetooth stack's.         *)
ASSUME HooksAssumption == Pages \in Nat /\ Hooks \cap {"coap", "ble"} = {}

Off == "off"

(* The parts with liveness properties stand still in a state of theirs.    *)
PlatformInit ==
  /\ part \in Parts
  /\ IF part = "sensors" THEN Sensor!Init ELSE s = Sensor!New("lis2du12", {})
  /\ IF part = "peripherals" THEN Periph!Init ELSE p = Off
  /\ IF part = "buses" THEN Bus!Init ELSE b = Bus!Sharing("nrf52840")
  /\ IF part = "drivers" THEN Driver!Init ELSE d = Off
  /\ IF part = "clocks" THEN Clock!Init ELSE c = Off
  /\ IF part = "boot" THEN BootUp!Init ELSE o = BootUp!Booting([i \in 1 .. Pages |-> {}], 0, {}, 0)
  /\ IF part = "network" THEN Net!Init ELSE n = Net!Down("ltem", FALSE)
  /\ IF part = "ring" THEN RingBuf!Init ELSE r = Off
  /\ IF part = "stack" THEN Paint!Init ELSE k = Off
  /\ IF part = "native" THEN Host!Init ELSE w = Off

PlatformNext ==
  \/ part = "sensors" /\ Sensor!Next /\ UNCHANGED <<part, p, b, d, c, o, n, r, k, w>>
  \/ part = "peripherals" /\ Periph!Next /\ UNCHANGED <<part, s, b, d, c, o, n, r, k, w>>
  \/ part = "buses" /\ Bus!Next /\ UNCHANGED <<part, s, p, d, c, o, n, r, k, w>>
  \/ part = "drivers" /\ Driver!Next /\ UNCHANGED <<part, s, p, b, c, o, n, r, k, w>>
  \/ part = "clocks" /\ Clock!Next /\ UNCHANGED <<part, s, p, b, d, o, n, r, k, w>>
  \/ part = "boot" /\ BootUp!Next /\ UNCHANGED <<part, s, p, b, d, c, n, r, k, w>>
  \/ part = "network" /\ Net!Next /\ UNCHANGED <<part, s, p, b, d, c, o, r, k, w>>
  \/ part = "ring" /\ RingBuf!Next /\ UNCHANGED <<part, s, p, b, d, c, o, n, k, w>>
  \/ part = "stack" /\ Paint!Next /\ UNCHANGED <<part, s, p, b, d, c, o, n, r, w>>
  \/ part = "native" /\ Host!Next /\ UNCHANGED <<part, s, p, b, d, c, o, n, r, k>>

(* The fairness of each part, for the behaviours that are its own.         *)
Fairness ==
  /\ WF_s(part = "sensors" /\ Sensor!I2cRun) /\ WF_s(part = "sensors" /\ Sensor!DataReady)
  /\ \A i \in Clients : WF_s(part = "sensors" /\ Sensor!Poll(i))
  /\ \A i \in Devices : /\ WF_b(part = "buses" /\ Bus!Lock(i))
                       /\ WF_b(part = "buses" /\ (Bus!Timeout(i) \/ Bus!HalTimeout(i)))
  /\ WF_o(part = "boot" /\ BootUp!InitTask) /\ WF_o(part = "boot" /\ BootUp!CoapTask)
  /\ WF_o(part = "boot" /\ BootUp!BleTask)
  /\ \A h \in Hooks : WF_o(part = "boot" /\ BootUp!HookTask(h))
  /\ WF_n(part = "network" /\ Net!Wifi) /\ WF_n(part = "network" /\ Net!Ltem)
  /\ WF_n(part = "network" /\ Net!ControlRun)

PlatformSpec == PlatformInit /\ [][PlatformNext]_platformvars /\ Fairness

-----------------------------------------------------------------------------
(* No signal to a sensor's task or client is lost: a client whose reading  *)
(* is pending is reached by the next reading (poll_wait, clear and signal  *)
(* of signal.rs); once its mode is Disabled or Sleeping, the GNSS driver's *)
(* task has a command to receive, also when Stop was lost (set_mode).      *)
SignalsHeard == part = "sensors" => Sensor!WaiterHeard /\ Sensor!StopNoticed

(* A client that uses an I2C driver alone gets the reading it waits for,   *)
(* or the error of the bus (trigger_measurement and run).                  *)
ReadingArrives == Sensor!ReadingArrives

(* No two parts of the system operate one peripheral.  init_task panics    *)
(* for no chip and no features unless a task took what it needs, or the    *)
(* build has both debug-uart and uart on a board where debug_uart::init    *)
(* takes a UART: then hal::uart::init finds it gone and no boot gets past  *)
(* it.  Of such panics init_task's comment says that they are errors of    *)
(* the configuration; nothing in the build rejects this one.               *)
OneUser == part = "peripherals" => Periph!OneUser /\ Periph!InitSucceeds

(* A call on a shared I2C bus returns although the device never answers    *)
(* (with_timeout, or the timeout of the HAL).                              *)
BusFreed == Bus!BusFreed

(* What reaches the hardware is what was configured: the pins, rates and   *)
(* formats of the drivers, the strengths of outputs, the clocks that       *)
(* rcc_config states, and the highest frequency of the range that the      *)
(* application gives (highest_freq_in), or none when there is none.        *)
AsConfigured ==
  /\ part = "drivers" => Driver!AsConfigured
  /\ part = "buses" => Bus!BestFrequency
  /\ part = "clocks" => Clock!ClocksAsStated

(* The CoAP server keeps its identity over power failures, and no global   *)
(* is used before it is initialised (storage::init, load and init_task).   *)
BootSafe == part = "boot" => BootUp!IdentityStable /\ BootUp!BootOrder

(* A boot ends with the threads and every task running, or with the panic  *)
(* for a flash error (lend, with and the waits for the stacks).            *)
BootCompletes == part = "boot" => BootUp!BootCompletes

(* A link follows the access point, the application's last command and the *)
(* modem's last status (connection, join, control_task).                   *)
LinkFollows == part = "network" => Net!LinkFollows

(* The ring buffer is a queue of its capacity while its counters wrap.     *)
(* peak_usage is the depth of what was written since repaint began, but    *)
(* for what interrupts write where repaint has yet to come.  Both are what *)
(* the code does: comments of rbi (on the capacity) and of repaint (on     *)
(* interrupts) say otherwise, as the README notes.                         *)
MemoryExact ==
  /\ part = "ring" => RingBuf!RingFifo
  /\ part = "stack" => Paint!PaintMeasures

(* On the native port a thread runs only while it is runnable, and no host *)
(* thread sleeps on a word that is set (release, set_running, set_stopped).*)
NativeRuns == part = "native" => Host!NativeRuns
=============================================================================
