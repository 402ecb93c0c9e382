------------------------------ MODULE Sensors ------------------------------
(***************************************************************************)
(* Sensor drivers: the three I2C drivers (LIS2DU12, LPS22DF, STTS22H),     *)
(* which share their control flow, and the GNSS driver of the nRF91, with  *)
(* the signal through which a reading reaches the task that waits for it.  *)
(* Drivers are Send + Sync, so that clients may preempt each other: every  *)
(* access to a shared variable is a step.                                  *)
(*                                                                         *)
(*   s.drv       the driver                                                *)
(*   s.users     the clients that use it                                   *)
(*   s.state     AtomicState                                               *)
(*   s.sig       Signal<ReadingResult<Samples>> (signal.rs)                *)
(*   s.woken     clients whose task has been woken since its last poll     *)
(*   s.request   I2C: the signal that run() waits for                      *)
(*   s.chan      GNSS: the command channel, of capacity 1                  *)
(*   s.pc        where each client is in the calls it makes                *)
(*   s.run       where init() and run() are                                *)
(*   s.step      I2C: the next access to the bus                           *)
(*   s.drdy      I2C: the device has finished the measurement              *)
(*   s.update    GNSS: should_send_update                                  *)
(*   s.fix       GNSS: latest_data is Some                                 *)
(***************************************************************************)
EXTENDS Naturals, FiniteSets, Sequences

CONSTANTS Clients,      \* tasks or threads
          Drivers,      \* drivers to look at
          Modes         \* values of Mode

VARIABLE s

-----------------------------------------------------------------------------
(* The drivers.  Each access to the bus may fail.                          *)

Lis2du12Reset == <<"Ctrl1", "Ctrl1", "Ctrl5">>
Lis2du12Measure == <<"Ctrl4", "Status", "OutXL">>
Lps22dfReset == <<"CtrlReg2", "RpdsL">>
Lps22dfMeasure == <<"CtrlReg2", "Status", "PressOutXl">>
Stts22hReset == <<"Ctrl", "TempHLimit">>
Stts22hMeasure == <<"Ctrl", "Status", "TempLOut">>

I2cDrivers == {"lis2du12", "lps22df", "stts22h"}
GnssDrivers == {"continuous", "single"}      \* GnssOperationMode; Periodic is as Continuous

Reset == [lis2du12 |-> Lis2du12Reset, lps22df |-> Lps22dfReset, stts22h |-> Stts22hReset]
Measure == [lis2du12 |-> Lis2du12Measure, lps22df |-> Lps22dfMeasure,
            stts22h |-> Stts22hMeasure]

IsI2c == s.drv \in I2cDrivers
IsGnss == s.drv \in GnssDrivers

States == {"Uninitialized", "Disabled", "Enabled", "Measuring", "Sleeping"}
Results == {"Samples", "SensorAccess"}
Commands == {"Start", "Trigger", "Stop"}

None == [tag |-> "None"]
Waiting(c) == [tag |-> "Waiting", by |-> c]
Ready(r) == [tag |-> "Ready", value |-> r]

New(d, users) ==
  [drv |-> d, users |-> users, state |-> "Uninitialized", sig |-> None, woken |-> {},
   request |-> FALSE, chan |-> <<>>, pc |-> [c \in Clients |-> "idle"],
   run |-> "init", step |-> 1, drdy |-> FALSE, update |-> FALSE, fix |-> FALSE]

Init == \E d \in Drivers, users \in SUBSET Clients \ {{}} : s = New(d, users)

-----------------------------------------------------------------------------
(* Signal of signal.rs.                                                    *)

Waiter(v) == IF v.sig.tag = "Waiting" THEN {v.sig.by} ELSE {}

Signal(v, r) == [v EXCEPT !.sig = Ready(r), !.woken = @ \cup Waiter(v)]

(* Mutant: clear() drops the waker too. *)
ClearAll(v) == [v EXCEPT !.sig = None]

Clear(v) == IF v.sig.tag = "Waiting" THEN v ELSE [v EXCEPT !.sig = None]

(* poll_wait, for a signal that is not ready: one waker is kept, and the   *)
(* task whose waker goes is woken.                                         *)
Enroll(v, c) == [v EXCEPT !.sig = Waiting(c), !.woken = (@ \ {c}) \cup (Waiter(v) \ {c})]

-----------------------------------------------------------------------------
(* What a client calls.                                                    *)

At(c, pc) == c \in s.users /\ s.pc[c] = pc
Goto(v, c, pc) == [v EXCEPT !.pc[c] = pc]

(* trigger_measurement                                                     *)
TriggerClear(c) ==
  /\ At(c, "idle")
  /\ s' = Goto(Clear(s), c, "get")

(* Mutant: a request made while the driver is measuring is left out. *)
TriggerGetIgnored(c) ==
  /\ At(c, "get")
  /\ s' = Goto(s, c, IF s.state = "Enabled" THEN "set" ELSE "idle")

TriggerGet(c) ==
  /\ At(c, "get")
  /\ s' = Goto(s, c, CASE s.state = "Enabled" -> "set"
                       [] s.state = "Measuring" /\ IsI2c -> "send"
                       [] OTHER -> "idle")

TriggerSet(c) ==
  /\ At(c, "set")
  /\ s' = Goto([s EXCEPT !.state = "Measuring"], c, "send")

TrySend(v, command) == IF v.chan = <<>> THEN [v EXCEPT !.chan = <<command>>] ELSE v

TriggerSend(c) ==
  /\ At(c, "send")
  /\ s' = Goto(IF IsI2c THEN [s EXCEPT !.request = TRUE] ELSE TrySend(s, "Trigger"), c, "idle")

(* wait_for_reading, where it does not return an error                     *)
WaitGet(c) ==
  /\ At(c, "idle")
  /\ s.state = "Measuring"
  /\ s' = Goto(s, c, "accept")

WaitSet(c) ==
  /\ At(c, "accept")
  /\ s' = Goto([s EXCEPT !.state = "Enabled", !.woken = @ \cup {c}], c, "poll")

(* The future that wait_for_reading returns: polled when its task is       *)
(* woken, and possibly dropped, its waker left behind.                     *)
Poll(c) ==
  /\ At(c, "poll")
  /\ c \in s.woken
  /\ s' = IF s.sig.tag = "Ready"
          THEN Goto([s EXCEPT !.sig = None, !.woken = @ \ {c}], c, "idle")
          ELSE Enroll(s, c)

DropWaiter(c) ==
  /\ At(c, "poll")
  /\ s' = Goto([s EXCEPT !.woken = @ \ {c}], c, "idle")

(* set_mode: an atomic update; the GNSS driver then sends a command.       *)
SetMode(c, mode) ==
  /\ At(c, "idle")
  /\ s.state # "Uninitialized"
  /\ s' = Goto([s EXCEPT !.state = mode], c,
               CASE IsI2c -> "idle"
                 [] IsGnss /\ mode = "Enabled" -> "start"
                 [] OTHER -> "stop")

SendMode(c) ==
  \/ /\ At(c, "start")
     /\ s' = Goto(TrySend(s, "Start"), c, "idle")
  \/ /\ At(c, "stop")
     /\ s' = Goto(TrySend(s, "Stop"), c, "idle")

-----------------------------------------------------------------------------
(* init() and run() of the I2C drivers.                                    *)

I2cInit ==
  /\ IsI2c
  /\ s.run = "init"
  /\ s' = IF s.step < Len(Reset[s.drv])
          THEN [s EXCEPT !.step = @ + 1]
          ELSE [s EXCEPT !.run = "wait", !.state = "Enabled"]

(* The driver stays uninitialized; run() is started all the same.          *)
I2cInitFails ==
  /\ IsI2c
  /\ s.run = "init"
  /\ s' = [s EXCEPT !.run = "wait"]

MeasureStart ==
  /\ IsI2c
  /\ s.run = "wait"
  /\ s.request
  /\ s' = [s EXCEPT !.request = FALSE, !.run = "bus", !.step = 1, !.drdy = FALSE]

DataReady ==      \* external: the device
  /\ s.run = "bus"
  /\ s.step > 1
  /\ ~s.drdy
  /\ s' = [s EXCEPT !.drdy = TRUE]

MeasureStep ==
  /\ s.run = "bus"
  /\ Measure[s.drv][s.step] = "Status" => s.drdy
  /\ s' = IF s.step < Len(Measure[s.drv])
          THEN [s EXCEPT !.step = @ + 1]
          ELSE [Signal(s, "Samples") EXCEPT !.run = "wait"]

MeasureFails ==
  /\ s.run = "bus"
  /\ s' = [Signal(s, "SensorAccess") EXCEPT !.run = "wait"]

-----------------------------------------------------------------------------
(* init() and run() of the GNSS driver.                                    *)

GnssInit ==
  /\ IsGnss
  /\ s.run = "init"
  /\ s' = [s EXCEPT !.state = "Enabled", !.run = "config"]

GnssConfig ==
  /\ s.run = "config"
  /\ s' = [s EXCEPT !.run = "top"]

GnssTop ==
  /\ s.run = "top"
  /\ s' = [s EXCEPT !.run = IF s.state = "Enabled" THEN "open" ELSE "idle"]

Received(v) == [v EXCEPT !.chan = <<>>]

GnssStart ==
  /\ s.run = "idle"
  /\ s.chan # <<>>
  /\ s' = [Received(s) EXCEPT !.run = IF s.chan = <<"Start">> THEN "open" ELSE "top"]

Streaming(v) == [v EXCEPT !.run = "stream", !.update = FALSE, !.fix = FALSE]

GnssOpen ==
  /\ s.run = "open"
  /\ \/ /\ s.drv = "continuous"
        /\ s' = Streaming(s)
     \/ /\ s.drv = "single"
        /\ s.chan # <<>>
        /\ s' = IF s.chan = <<"Trigger">>
                THEN Streaming(Received(s))
                ELSE [Received(s) EXCEPT !.run = "top"]

(* handle_gnss_stream                                                      *)
GnssCheck ==
  /\ s.run = "stream"
  /\ s' = [s EXCEPT !.run = IF s.state \in {"Enabled", "Measuring"} THEN "select" ELSE "top"]

GnssCommand ==
  /\ s.run = "select"
  /\ s.chan # <<>>
  /\ s' = CASE s.chan = <<"Stop">> -> [Received(s) EXCEPT !.run = "top"]
            [] s.chan = <<"Trigger">> /\ s.drv # "single" ->
                 [Received(s) EXCEPT !.run = "stream", !.update = TRUE]
            [] OTHER -> [Received(s) EXCEPT !.run = "stream"]

GnssPosition ==
  /\ s.run = "select"
  /\ s' = [(IF s.update THEN Signal(s, "Samples") ELSE s)
             EXCEPT !.run = "stream", !.update = FALSE, !.fix = TRUE]

GnssEnd ==
  /\ s.run = "select"
  /\ s' = [(IF s.drv = "single"
            THEN Signal(Clear(s), IF s.fix THEN "Samples" ELSE "SensorAccess")
            ELSE s) EXCEPT !.run = "top"]

-----------------------------------------------------------------------------
ClientStep(c) ==
  \/ TriggerClear(c) \/ TriggerGet(c) \/ TriggerSet(c) \/ TriggerSend(c)
  \/ WaitGet(c) \/ WaitSet(c) \/ Poll(c) \/ DropWaiter(c)
  \/ \E mode \in Modes : SetMode(c, mode)
  \/ SendMode(c)

I2cRun == I2cInit \/ I2cInitFails \/ MeasureStart \/ MeasureStep \/ MeasureFails

GnssRun ==
  \/ GnssInit \/ GnssConfig \/ GnssTop \/ GnssStart \/ GnssOpen
  \/ GnssCheck \/ GnssCommand \/ GnssPosition \/ GnssEnd

Next == (\E c \in Clients : ClientStep(c)) \/ I2cRun \/ DataReady \/ GnssRun

(* The executor runs every task that is woken, and the device measures.    *)
Fairness ==
  /\ WF_s(I2cRun) /\ WF_s(DataReady)
  /\ \A c \in Clients : WF_s(Poll(c))

Spec == Init /\ [][Next]_s /\ Fairness

-----------------------------------------------------------------------------
TypeOK ==
  /\ s.drv \in Drivers /\ s.users \subseteq Clients /\ s.state \in States
  /\ s.sig \in {None} \cup {Waiting(c) : c \in Clients} \cup {Ready(r) : r \in Results}
  /\ s.woken \subseteq Clients
  /\ s.chan \in {<<>>} \cup {<<x>> : x \in Commands}

(* A client whose reading is pending is reached by the next reading: its   *)
(* waker is in the signal, or it has been woken and polls again, whoever   *)
(* else waits, clears or takes the reading (poll_wait, clear and signal).  *)
WaiterHeard ==
  \A c \in s.users : s.pc[c] = "poll" => c \in s.woken \/ s.sig = Waiting(c)

(* Once the GNSS driver's mode is Disabled or Sleeping, the task that      *)
(* streams positions has a command to receive and looks at the mode, also  *)
(* when the channel was full and the Stop command was lost (set_mode).     *)
StopNoticed ==
  s.run = "select" /\ s.state \in {"Disabled", "Sleeping"} =>
    s.chan # <<>> \/ \E c \in s.users : s.pc[c] \in {"start", "stop"}

(* A client that uses an I2C driver alone and waits for a reading gets one *)
(* (or the error of the bus), whatever triggers and changes of the mode    *)
(* came before.                                                            *)
ReadingArrives ==
  \A c \in Clients :
    (IsI2c /\ s.users = {c} /\ s.pc[c] = "poll") ~> (s.pc[c] # "poll")
=============================================================================
