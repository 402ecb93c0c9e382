------------------------------- MODULE Channel -------------------------------
(***************************************************************************)
(* sync/channel.rs: a synchronous channel between the threads of a         *)
(* single-core system.  A blocked thread's state carries an address: that  *)
(* of the message it sends or of the memory it wants to receive to.  An    *)
(* address is <<"msg", t>> (the message of t's send), <<"res", t>> (the    *)
(* result of t's recv) or <<"channel">> (the Channel itself).              *)
(***************************************************************************)
EXTENDS Scheduler

CONSTANTS Msgs,         \* messages
          Senders,      \* threads that call send and try_send
          Receivers,    \* threads that call recv and try_recv
          MoveWaiters   \* set_priority may be called for a thread in the list

Uninit == "uninit"       \* MaybeUninit::uninit()
Garbage == "garbage"     \* bytes that are no message

ASSUME MoveWaitersAssumption == MoveWaiters \in BOOLEAN
ASSUME MsgsAssumption == Uninit \notin Msgs
ASSUME PeersAssumption == Senders \subseteq Threads /\ Receivers \subseteq Threads

VARIABLES k,         \* the scheduler
          chan,      \* ChannelState: its variant and its list of waiters
          call,      \* per thread: the call it has not returned from
          msg,       \* per thread: the message of its last send
          res,       \* per thread: the result memory of its last receive
          source     \* per thread: whose send completed its last receive

vars == <<k, chan, call, msg, res, source>>

IdleChan == [state |-> "Idle", waiters |-> <<>>]

States == {Invalid, Running, Parked} \cup {ChannelTxBlocked(<<"msg", t>>) : t \in Threads}
                            \cup {ChannelRxBlocked(<<"res", t>>) : t \in Threads}
                            \cup {ChannelTxBlocked(<<"channel">>)}

TypeOK == /\ k \in SchedulerType(States)
          /\ chan \in [state : {"Idle", "SendersWaiting", "ReceiversWaiting"},
                       waiters : Seq(Threads)]
          /\ call \in [Threads -> {"none", "send", "recv"}]
          /\ msg \in [Threads -> Msgs \cup {Uninit}]
          /\ res \in [Threads -> Msgs \cup {Uninit, Garbage}]
          /\ source \in [Threads -> Threads \cup {NoThread}]

Init == /\ k = NewScheduler
        /\ chan = IdleChan
        /\ call = [t \in Threads |-> "none"]
        /\ msg = [t \in Threads |-> Uninit]
        /\ res = [t \in Threads |-> Uninit]
        /\ source = [t \in Threads |-> NoThread]

-----------------------------------------------------------------------------
(* Startup: a thread per slot is created, then threading starts.           *)

BootCreate(p) ==
  /\ Booting(k)
  /\ Unused(k) # {}
  /\ k' = Create(k, p)
  /\ UNCHANGED <<chan, call, msg, res, source>>

StartThreading ==
  /\ Booting(k)
  /\ Unused(k) = {}
  /\ k' = Schedule(k)
  /\ UNCHANGED <<chan, call, msg, res, source>>

-----------------------------------------------------------------------------

Runs(t) == k.cur = t /\ ~k.pend /\ k.fault = "none"
Calls(t) == Runs(t) /\ call[t] = "none"

ContextSwitch ==
  /\ CanSwitch(k)
  /\ k' = Sched(k)
  /\ UNCHANGED <<chan, call, msg, res, source>>

(* The address in the state of a blocked thread, and what a read from an   *)
(* address can give.  The bytes of the Channel are not a T.                *)
Address(t) == k.state[t][2]

Read(ptr) == IF ptr[1] = "msg" THEN {msg[ptr[2]]} ELSE Msgs \cup {Garbage}

(* Mutants: the channel does not become idle; the other waiters get lost.  *)
PoppedNotIdle == [chan EXCEPT !.waiters = Tail(@)]

PoppedAll == IdleChan

(* The end of both pop branches: Idle once nobody waits.                   *)
Popped == IF Len(chan.waiters) = 1 THEN IdleChan ELSE [chan EXCEPT !.waiters = Tail(@)]

WaitIn(variant) == [state |-> variant, waiters |-> WithCurrent(k, chan.waiters)]

(* The address of the message, or the channel's own when other senders     *)
(* wait already.                                                           *)
SendAddress(t) == IF chan.state = "Idle" THEN <<"msg", t>> ELSE <<"channel">>

(* send() when no receiver waits: blocks.                                  *)
SendBlock(t, m) ==
  /\ Calls(t)
  /\ chan.state # "ReceiversWaiting"
  /\ k' = Block(k, ChannelTxBlocked(SendAddress(t)))
  /\ chan' = WaitIn("SendersWaiting")
  /\ call' = [call EXCEPT ![t] = "send"]
  /\ msg' = [msg EXCEPT ![t] = m]
  /\ UNCHANGED <<res, source>>

(* Mutant: the receiver is woken, its result is not written.               *)
SendNowNoCopy(t, m) ==
  /\ Calls(t)
  /\ chan.state = "ReceiversWaiting"
  /\ k' = WakeHead(k, chan.waiters)
  /\ chan' = Popped
  /\ source' = [source EXCEPT ![Head(chan.waiters)] = t]
  /\ msg' = [msg EXCEPT ![t] = m]
  /\ UNCHANGED <<call, res>>

(* send() or try_send() when a receiver waits: writes to the first one's   *)
(* result memory and wakes it.                                             *)
SendNow(t, m) ==
  LET r == Head(chan.waiters)
  IN  /\ Calls(t)
      /\ chan.state = "ReceiversWaiting"
      /\ k' = WakeHead(k, chan.waiters)
      /\ chan' = Popped
      /\ res' = [res EXCEPT ![Address(r)[2]] = m]
      /\ source' = [source EXCEPT ![r] = t]
      /\ msg' = [msg EXCEPT ![t] = m]
      /\ UNCHANGED call

(* recv() when no sender waits: blocks.                                    *)
RecvBlock(t) ==
  /\ Calls(t)
  /\ chan.state # "SendersWaiting"
  /\ k' = Block(k, ChannelRxBlocked(<<"res", t>>))
  /\ chan' = WaitIn("ReceiversWaiting")
  /\ call' = [call EXCEPT ![t] = "recv"]
  /\ res' = [res EXCEPT ![t] = Uninit]
  /\ source' = [source EXCEPT ![t] = NoThread]
  /\ UNCHANGED msg

(* recv() or try_recv() when a sender waits: reads from the address the    *)
(* first one left and wakes it.                                            *)
RecvNow(t) ==
  LET s == Head(chan.waiters)
  IN  /\ Calls(t)
      /\ chan.state = "SendersWaiting"
      /\ k' = WakeHead(k, chan.waiters)
      /\ chan' = Popped
      /\ \E v \in Read(Address(s)) : res' = [res EXCEPT ![t] = v]
      /\ source' = [source EXCEPT ![t] = s]
      /\ UNCHANGED <<call, msg>>

(* The rest of a send() or recv() that blocked, once the thread runs.      *)
(* (try_send() and try_recv() that find no partner change nothing.)        *)
Return(t) ==
  /\ Runs(t)
  /\ call[t] # "none"
  /\ call' = [call EXCEPT ![t] = "none"]
  /\ UNCHANGED <<k, chan, msg, res, source>>

(* A thread may do something else and park; it is unparked at any time.    *)
DoPark(t) == Calls(t) /\ k' = Park(k) /\ UNCHANGED <<chan, call, msg, res, source>>

DoUnpark(t) == k' = Unpark(k, t) /\ UNCHANGED <<chan, call, msg, res, source>>

(* set_priority, of any thread at any time; a thread that is in the list   *)
(* stays where it is.                                                      *)
DoSetPriority(t, p) ==
  /\ MoveWaiters \/ ~In(chan.waiters, t)
  /\ k' = SetPriority(k, t, p)
  /\ UNCHANGED <<chan, call, msg, res, source>>

Next == \/ StartThreading
        \/ \E p \in Prios : BootCreate(p)
        \/ ContextSwitch
        \/ \E t \in Threads, p \in Prios : DoSetPriority(t, p)
        \/ \E t \in Threads : Return(t) \/ DoPark(t) \/ DoUnpark(t)
        \/ \E t \in Senders, m \in Msgs : SendBlock(t, m) \/ SendNow(t, m)
        \/ \E t \in Receivers : RecvBlock(t) \/ RecvNow(t)

Spec == Init /\ [][Next]_vars

-----------------------------------------------------------------------------

Waiting(t) == In(chan.waiters, t)

(* No wakeup is lost and none is spurious: a thread inside send() or       *)
(* recv() is blocked exactly as long as it is in the channel's list, the   *)
(* list holds it once, and a list of senders holds no receiver.  The       *)
(* `unreachable!` branches of channel.rs ("unexpected thread state",       *)
(* "unexpected empty thread list") are about this.                         *)
ListMatchesCalls ==
  /\ chan.state = "Idle" <=> chan.waiters = <<>>
  /\ \A t \in Threads : call[t] # "none" => (Waiting(t) <=> k.state[t] # Running)
  /\ \A i \in DOMAIN chan.waiters :
       LET t == chan.waiters[i]
       IN  /\ call[t] = IF chan.state = "SendersWaiting" THEN "send" ELSE "recv"
           /\ k.state[t][1] = IF chan.state = "SendersWaiting"
                              THEN "ChannelTxBlocked" ELSE "ChannelRxBlocked"
           /\ \A j \in DOMAIN chan.waiters : chan.waiters[j] = t => i = j

(* recv() never does assume_init on memory nobody wrote: when a thread     *)
(* runs on after blocking in recv(), a sender has filled its result.       *)
ResultWritten ==
  \A t \in Threads : call[t] = "recv" /\ k.state[t] = Running =>
    res[t] # Uninit /\ source[t] # NoThread

(* Waiters are served by priority and, within one, in the order they came: *)
(* nobody leaves the list past one that was in front of it.                *)
ServedInOrder ==
  [][\A i, j \in DOMAIN chan.waiters :
       LET t == chan.waiters[i]
           u == chan.waiters[j]
       IN  (In(chan'.waiters, t) /\ ~In(chan'.waiters, u)) =>
             /\ k.prio[u] >= k.prio[t]
             /\ j < i]_vars

(* Each send is matched with exactly one receive and each receive with     *)
(* exactly one send, whoever arrived first: the channel implements the     *)
(* rendezvous of ChannelSpec.                                              *)
Rendezvous ==
  INSTANCE ChannelSpec
    WITH Peers <- Threads, Nobody <- NoThread,
         sending <- {t \in Threads : Waiting(t) /\ call[t] = "send"},
         receiving <- {t \in Threads : Waiting(t) /\ call[t] = "recv"}

ImplementsRendezvous == Rendezvous!Spec

(* "Synchronous channel implementation for sending data between threads":  *)
(* what a receive gets is the message its sender sent.                     *)
ReceivedIsSent ==
  [][\A t \in Threads : source'[t] # source[t] /\ source'[t] # NoThread =>
       res'[t] = msg'[source'[t]]]_vars
=============================================================================
