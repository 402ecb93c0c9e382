------------------------------ MODULE Network ------------------------------
(***************************************************************************)
(* The links below the network stack: the Wi-Fi of the ESP32 and of the    *)
(* CYW43, and the LTE-M modem of the nRF91.                                *)
(*                                                                         *)
(*   n.link      "esp", "cyw43" or "ltem"                                  *)
(*   n.pc        where the link's task is, or "panic"                      *)
(* Wi-Fi:                                                                  *)
(*   n.ap        the access point answers                                  *)
(*   n.station   "stopped", "started" or "connected"                       *)
(*   n.event     StationDisconnected is pending                            *)
(* LTE-M:                                                                  *)
(*   n.signal    CONTROL_SIGNAL: the last command that was not taken       *)
(*   n.modem     the modem is enabled                                      *)
(*   n.failed    the last command failed                                   *)
(*   n.asked     the last command of the application                       *)
(*   n.status    the links that the modem reported last                    *)
(*   n.config    the configuration of the network stack                    *)
(* and                                                                     *)
(*   n.changes   what the world has changed so far                         *)
(***************************************************************************)
EXTENDS Naturals

CONSTANTS WaitClears,     \* wait_for_event forgets an event that came before
          MaxChanges      \* bound on the changes of the world

VARIABLE n

Links == {"v4", "v6"}
Go(pc) == n' = [n EXCEPT !.pc = pc]

-----------------------------------------------------------------------------
(* The world (external).                                                   *)

Changed(v) == [v EXCEPT !.changes = @ + 1]

AccessPoint ==
  /\ n.link \in {"esp", "cyw43"}
  /\ n.changes < MaxChanges
  /\ n' = Changed([n EXCEPT !.ap = ~@,
                            !.station = IF @ = "connected" THEN "started" ELSE @,
                            !.event = @ \/ n.station = "connected"])

Status ==
  /\ n.link = "ltem"
  /\ n.pc \notin {"configure", "panic"}
  /\ n.changes < MaxChanges
  /\ \E links \in SUBSET Links : n' = Changed([n EXCEPT !.status = links])

-----------------------------------------------------------------------------
(* connection() of the ESP32                                               *)

EspCheck ==
  /\ n.link = "esp"
  /\ n.pc = "check"
  /\ Go(IF n.station = "connected" THEN "subscribe" ELSE "start")

(* wait_for_event (external); the radio's thread may run before it.        *)
EspSubscribe ==
  /\ n.link = "esp"
  /\ n.pc = "subscribe"
  /\ n' = [n EXCEPT !.pc = "wait", !.event = @ /\ ~WaitClears]

EspWait ==
  /\ n.link = "esp"
  /\ n.pc = "wait"
  /\ n.event
  /\ n' = [n EXCEPT !.pc = "delay", !.event = FALSE]

(* set_config or start_async may fail, which is unwrapped.                 *)
EspStart ==
  /\ n.link = "esp"
  /\ n.pc \in {"start", "delay"}      \* 5 s after a disconnection
  /\ \/ n' = [n EXCEPT !.pc = "connect", !.station = IF @ = "stopped" THEN "started" ELSE @]
     \/ n.station = "stopped" /\ Go("panic")

(* Mutant: a failed attempt ends the task. *)
EspConnectOnce ==
  /\ n.link = "esp"
  /\ n.pc = "connect"
  /\ n' = IF n.ap THEN [n EXCEPT !.station = "connected", !.pc = "check"]
                  ELSE [n EXCEPT !.pc = "ended"]

EspConnect ==
  /\ n.link = "esp"
  /\ n.pc = "connect"
  /\ n' = IF n.ap THEN [n EXCEPT !.station = "connected", !.pc = "check"]
                  ELSE [n EXCEPT !.pc = "retry"]

EspRetry ==
  /\ n.link = "esp"
  /\ n.pc = "retry"
  /\ Go("check")

-----------------------------------------------------------------------------
(* The CYW43: device() starts the runner, join() retries.                  *)

CywDevice ==
  /\ n.link = "cyw43"
  /\ n.pc = "device"
  /\ n' = [n EXCEPT !.pc = "join", !.station = "started"]

CywJoin ==
  /\ n.link = "cyw43"
  /\ n.pc = "join"
  /\ n' = IF n.ap THEN [n EXCEPT !.station = "connected", !.pc = "joined"] ELSE n

-----------------------------------------------------------------------------
(* LTE-M: a command replaces one that control_task has not taken yet.      *)

Command(c) ==
  /\ n.link = "ltem"
  /\ n.changes < MaxChanges
  /\ n' = Changed([n EXCEPT !.signal = c, !.asked = c])

(* The modem may refuse the configuration, which is unwrapped.             *)
Configure ==
  /\ n.link = "ltem"
  /\ n.pc = "configure"
  /\ Go("wait") \/ Go("panic")

TakeCommand ==
  /\ n.link = "ltem"
  /\ n.pc = "wait"
  /\ n.signal # "none"
  /\ n' = [n EXCEPT !.pc = n.signal, !.signal = "none"]

(* control.enable() or control.disable(); an error is only logged.         *)
RunCommand ==
  /\ n.link = "ltem"
  /\ n.pc \in {"enable", "disable"}
  /\ \/ n' = [n EXCEPT !.pc = "wait", !.modem = (n.pc = "enable"), !.failed = FALSE]
     \/ n' = [n EXCEPT !.pc = "wait", !.failed = TRUE]

(* status_to_config: a link that is gone has no configuration.             *)
StatusToConfig(status) == [v \in Links |-> IF v \in status THEN "Static" ELSE "None"]

ControlRun ==
  /\ n.link = "ltem"
  /\ n.pc \notin {"configure", "panic"}
  /\ n.config # StatusToConfig(n.status)
  /\ n' = [n EXCEPT !.config = StatusToConfig(n.status)]

-----------------------------------------------------------------------------
Down(link, ap) ==
  [link |-> link, ap |-> ap, station |-> "stopped", event |-> FALSE, signal |-> "none",
   modem |-> FALSE, failed |-> FALSE, asked |-> "none", status |-> {},
   config |-> StatusToConfig({}), changes |-> 0,
   pc |-> CASE link = "esp" -> "check" [] link = "cyw43" -> "device" [] link = "ltem" -> "configure"]

Init == \E link \in {"esp", "cyw43", "ltem"}, ap \in BOOLEAN : n = Down(link, ap)

Wifi ==
  \/ EspCheck \/ EspSubscribe \/ EspWait \/ EspStart \/ EspConnect \/ EspRetry
  \/ CywDevice \/ CywJoin
Ltem == Configure \/ TakeCommand \/ RunCommand

Next ==
  \/ AccessPoint \/ Status \/ Wifi \/ Ltem \/ ControlRun
  \/ \E c \in {"enable", "disable"} : Command(c)

(* The executor polls the tasks that have been woken, and the timers run.  *)
Fairness == WF_n(Wifi) /\ WF_n(Ltem) /\ WF_n(ControlRun)

Spec == Init /\ [][Next]_n /\ Fairness

-----------------------------------------------------------------------------
(* A link follows the world once that settles: the station connects again  *)
(* however often the access point went away meanwhile (the CYW43 joins for *)
(* the first time), the modem does what the application asked for last     *)
(* unless that failed, and the stack has the addresses that the modem      *)
(* reported last, none for a link that is gone.  The ESP32's task may      *)
(* panic when it starts the station and LTE-M's when it configures the     *)
(* modem, and at no later time.                                            *)
LinkFollows ==
  /\ <>[](n.link = "esp" /\ n.ap) => <>[](n.station = "connected" \/ n.pc = "panic")
  /\ [](n.pc = "panic" => n.station = "stopped" /\ ~n.modem /\ n.config = StatusToConfig({}))
  /\ <>[](n.link = "cyw43" /\ n.ap) => <>(n.pc = "joined")
  /\ <>[](n.link = "ltem" /\ n.pc # "panic" =>
            /\ n.asked = "none" \/ n.failed \/ n.modem = (n.asked = "enable")
            /\ n.config = StatusToConfig(n.status))
=============================================================================
