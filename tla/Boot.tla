-------------------------------- MODULE Boot -------------------------------
(***************************************************************************)
(* A boot from reset to the start of the application's threads, with the   *)
(* storage and the CoAP server's identity in it, on one executor.  Power   *)
(* may fail at any step; only the flash survives.                          *)
(*                                                                         *)
(*   o.flash       the items on each page of the storage: <<key, value>>   *)
(*   o.pc          where init_task is                                      *)
(*   o.page        the page that erase_all erases next                     *)
(*   o.ready       the globals that have been initialised                  *)
(*   o.task        where each autostarted task is                          *)
(*   o.hook        each hook's Delegate: "idle", "sent" or "replied"       *)
(*   o.exercised   the hooks that `with` has been called on                *)
(*   o.configured  the hooks whose closure has run on the USB builder      *)
(*   o.built       the hooks that the USB device was built with, or NotYet *)
(*   o.thread      the application's thread: "off", "wait" or "run"        *)
(*   o.cred        the credential that load() holds                        *)
(*   o.fault       a panic that names a programming error                  *)
(* and, for the properties,                                                *)
(*   o.fresh       credentials generated so far                            *)
(*   o.announced   identities that the server has announced since the      *)
(*                 application last erased the storage                     *)
(*   o.crashes     power failures and flash errors so far                  *)
(***************************************************************************)
EXTENDS Naturals, FiniteSets, Sequences

CONSTANTS Pages,            \* number of pages of the storage
          Hooks,            \* tasks with a usb_builder_hook
          NetworkFirst,     \* those that wait for the network before the hook
          MarkerReadFails,  \* reading the marker may fail
          MaxCrashes        \* bound on power failures and flash errors

VARIABLE o

Marker == <<"marker", 0>>
NotYet == {"not yet"}
Tasks == Hooks \cup {"coap", "ble"}

-----------------------------------------------------------------------------
(* The storage (external: sequential-storage writes an item completely or  *)
(* not at all, on a page of its choice, and reads the last one).           *)

Items(flash) == UNION {flash[p] : p \in 1 .. Pages}
Get(flash, key) == {x[2] : x \in {y \in Items(flash) : y[1] = key}}
Insert(flash, p, item) ==
  [q \in 1 .. Pages |-> {x \in flash[q] : x[1] # item[1]} \cup (IF q = p THEN {item} ELSE {})]

FlashError == o.crashes < MaxCrashes
Panic(v) == [v EXCEPT !.pc = "panic", !.crashes = @ + 1]

-----------------------------------------------------------------------------
(* init_task.  INIT_FUNCS starts the executor, or creates its thread.      *)
Startup ==
  /\ o.pc = "startup"
  /\ o' = [o EXCEPT !.pc = "spawner", !.thread = "wait"]

SetSpawner ==
  /\ o.pc = "spawner"
  /\ o' = [o EXCEPT !.pc = "rng", !.ready = @ \cup {"spawner"}]

ConstructRng ==
  /\ o.pc = "rng"
  /\ o' = [o EXCEPT !.pc = "storage", !.ready = @ \cup {"rng"}]

(* storage::init                                                           *)
ReadMarker ==
  /\ o.pc = "storage"
  /\ \/ o' = [o EXCEPT !.pc = IF Marker \in Items(o.flash) THEN "tasks" ELSE "erase",
                       !.page = 1, !.ready = @ \cup {"storage"}]
     \/ /\ FlashError
        /\ MarkerReadFails
        /\ o' = [o EXCEPT !.pc = "erase", !.page = 1, !.ready = @ \cup {"storage"},
                          !.crashes = @ + 1]

(* An error of erase_all: init unwraps it, an application gets it back.    *)
EraseFails ==
  /\ FlashError
  /\ \/ o.pc = "erase" /\ o' = Panic(o)
     \/ o.pc = "reset" /\ o' = [o EXCEPT !.pc = "done", !.crashes = @ + 1]

(* erase_all, in init and when the application calls it.                   *)
ErasePage ==
  /\ o.pc \in {"erase", "reset"}
  /\ o.page <= Pages
  /\ \/ o' = [o EXCEPT !.flash[o.page] = {}, !.page = @ + 1]
     \/ EraseFails

InsertMarker ==
  /\ o.pc \in {"erase", "reset"}
  /\ o.page > Pages
  /\ \/ \E p \in 1 .. Pages :
          o' = [o EXCEPT !.flash = Insert(@, p, Marker),
                         !.pc = IF o.pc = "erase" THEN "tasks" ELSE "done"]
     \/ EraseFails

(* The tasks are spawned, then the drivers that they may configure; the    *)
(* Bluetooth controller needs the RNG.                                     *)
StartTasks ==
  /\ o.pc = "tasks"
  /\ o' = [o EXCEPT !.pc = "ble", !.task = [t \in Tasks |-> "start"]]

BleDriver ==
  /\ o.pc = "ble"
  /\ o' = [o EXCEPT !.pc = "hooks", !.ready = @ \cup {"ble"},
                    !.fault = @ \/ "rng" \notin o.ready]

(* lend: init_task sends the builder and waits for the reply.              *)
Unlent == {h \in Hooks : o.hook[h] = "idle"}

Lend ==
  /\ o.pc = "hooks"
  /\ \A h \in Hooks : o.hook[h] # "sent"
  /\ \E h \in Unlent : o' = [o EXCEPT !.hook[h] = "sent"]

BuildUsb ==
  /\ o.pc = "hooks"
  /\ Unlent = {}
  /\ \A h \in Hooks : o.hook[h] # "sent"
  /\ o' = [o EXCEPT !.pc = "net", !.built = o.configured]

(* unique_seed needs the RNG.                                              *)
StartNet ==
  /\ o.pc = "net"
  /\ o' = [o EXCEPT !.pc = "join", !.ready = @ \cup {"net"},
                    !.fault = @ \/ "rng" \notin o.ready]

(* join() retries until the network is joined, then the threads start.     *)
StartThreads ==
  /\ o.pc = "join"
  /\ o' = [o EXCEPT !.pc = "done", !.thread = "run"]

-----------------------------------------------------------------------------
(* Mutant: the closure's end is not signalled. *)
HookTaskSilent(h) ==
  /\ o.pc # "panic"
  /\ \/ /\ o.task[h] = "start"
        /\ o' = [o EXCEPT !.task[h] = "with"]
     \/ /\ o.task[h] = "with"
        /\ o.hook[h] = "sent"
        /\ o' = [o EXCEPT !.task[h] = "network", !.configured = @ \cup {h}]

(* Delegate::with, before or after the task waits for the network stack.   *)
HookTask(h) ==
  /\ o.pc # "panic"
  /\ \/ /\ o.task[h] = "start"
        /\ h \in NetworkFirst => "net" \in o.ready
        /\ o' = [o EXCEPT !.task[h] = "with", !.exercised = @ \cup {h},
                          !.fault = @ \/ h \in o.exercised]
     \/ /\ o.task[h] = "with"
        /\ o.hook[h] = "sent"
        /\ o' = [o EXCEPT !.task[h] = "network", !.hook[h] = "replied", !.configured = @ \cup {h}]
     \/ /\ o.task[h] = "network"
        /\ "net" \in o.ready
        /\ o' = [o EXCEPT !.task[h] = "run"]

(* ble_stack waits for the stack, then takes it.                           *)
BleTask ==
  /\ o.pc # "panic"
  /\ o.task["ble"] = "start"
  /\ "ble" \in o.ready
  /\ o' = [o EXCEPT !.task["ble"] = "run"]

(* StoredPolicy::load                                                      *)
LoadCredential ==
  /\ o.pc # "panic"
  /\ o.task["coap"] = "start"
  /\ \/ \E cred \in Get(o.flash, "credential") :
          o' = [o EXCEPT !.task["coap"] = "announce", !.cred = cred]
     \/ /\ Get(o.flash, "credential") = {}
        /\ o' = [o EXCEPT !.task["coap"] = "insert", !.cred = o.fresh + 1, !.fresh = @ + 1,
                          !.fault = @ \/ "rng" \notin o.ready]
     \/ FlashError /\ o' = Panic(o)

(* Mutant: the new credential is announced before it is stored. *)
InsertCredentialLate ==
  /\ o.pc # "panic"
  /\ \/ o.task["coap"] = "insert"
        /\ o' = [o EXCEPT !.task["coap"] = "late", !.announced = @ \cup {o.cred}]
     \/ o.task["coap"] = "late"
        /\ \E p \in 1 .. Pages :
             o' = [o EXCEPT !.task["coap"] = "network",
                            !.flash = Insert(@, p, <<"credential", o.cred>>)]

InsertCredential ==
  /\ o.pc # "panic"
  /\ o.task["coap"] = "insert"
  /\ \/ \E p \in 1 .. Pages :
          o' = [o EXCEPT !.task["coap"] = "announce",
                         !.flash = Insert(@, p, <<"credential", o.cred>>)]
     \/ FlashError /\ o' = Panic(o)

Announce ==
  /\ o.pc # "panic"
  /\ o.task["coap"] = "announce"
  /\ o' = [o EXCEPT !.task["coap"] = "network", !.announced = @ \cup {o.cred}]

(* coap_run_udp: the server starts when there is a network stack.          *)
Serve ==
  /\ o.pc # "panic"
  /\ o.task["coap"] = "network"
  /\ "net" \in o.ready
  /\ o' = [o EXCEPT !.task["coap"] = "run"]

(* The application erases the storage, once it runs.                       *)
EraseAll ==
  /\ o.pc = "done"
  /\ o.task["coap"] = "run"
  /\ o.crashes < MaxCrashes
  /\ o' = [o EXCEPT !.pc = "reset", !.page = 1, !.announced = {}]

-----------------------------------------------------------------------------
Booting(flash, fresh, announced, crashes) ==
  [flash |-> flash, pc |-> "startup", page |-> 1, ready |-> {}, task |-> [t \in Tasks |-> "off"],
   hook |-> [h \in Hooks |-> "idle"], exercised |-> {}, configured |-> {}, built |-> NotYet,
   thread |-> "off", cred |-> 0, fault |-> FALSE, fresh |-> fresh, announced |-> announced,
   crashes |-> crashes]

(* The first boot finds an erased flash, or what another program left.     *)
Init ==
  \E junk \in BOOLEAN :
    o = Booting([p \in 1 .. Pages |-> IF junk THEN {<<"credential", 0>>} ELSE {}], 0, {}, 0)

PowerFails ==
  /\ o.crashes < MaxCrashes
  /\ o' = Booting(o.flash, o.fresh, o.announced, o.crashes + 1)

InitTask ==
  \/ Startup \/ SetSpawner \/ ConstructRng \/ ReadMarker \/ ErasePage \/ InsertMarker
  \/ StartTasks \/ BleDriver \/ Lend \/ BuildUsb \/ StartNet \/ StartThreads

CoapTask == LoadCredential \/ InsertCredential \/ Announce \/ Serve

Next == InitTask \/ CoapTask \/ (\E h \in Hooks : HookTask(h)) \/ BleTask \/ EraseAll \/ PowerFails

(* The executor polls every task that has been woken.                      *)
Fairness ==
  WF_o(InitTask) /\ WF_o(CoapTask) /\ WF_o(BleTask) /\ (\A h \in Hooks : WF_o(HookTask(h)))

Spec == Init /\ [][Next]_o /\ Fairness

-----------------------------------------------------------------------------
(* Whatever power failures and flash errors happen, in the first           *)
(* initialisation of the storage too, the CoAP server announces one        *)
(* identity until the application erases the storage: load() stores a new  *)
(* credential before it announces it, and storage::init does not erase     *)
(* what has been stored since.                                             *)
IdentityStable == Cardinality(o.announced) <= 1

(* No global is used before init_task has initialised it, and the USB      *)
(* device is built after every hook's closure has configured the builder.  *)
BootOrder ==
  /\ ~o.fault
  /\ o.built \in {NotYet, Hooks}
  /\ o.thread = "run" => o.ready = {"spawner", "rng", "storage", "ble", "net"}

(* A boot ends: the threads are started, every hooked task has its         *)
(* builder, the server runs; or a flash error panics.                      *)
BootCompletes ==
  <>[](o.pc = "panic" \/ (o.thread = "run" /\ \A t \in Tasks : o.task[t] = "run"))
=============================================================================
