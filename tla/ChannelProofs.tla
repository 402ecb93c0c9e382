---------------------------- MODULE ChannelProofs ----------------------------
(***************************************************************************)
(* For every number of threads, priorities and messages: the channel's     *)
(* list agrees with the calls that block, a receive that ends has a        *)
(* result, waiters are served in order, and the channel implements the     *)
(* rendezvous of ChannelSpec.                                              *)
(***************************************************************************)
EXTENDS Channel, SchedulerProofs

VarsOK ==
  /\ chan \in [state : {"Idle", "SendersWaiting", "ReceiversWaiting"},
               waiters : Seq(Threads)]
  /\ call \in [Threads -> {"none", "send", "recv"}]
  /\ msg \in [Threads -> Msgs \cup {Uninit}]
  /\ res \in [Threads -> Msgs \cup {Uninit, Garbage}]
  /\ source \in [Threads -> Threads \cup {NoThread}]

Free == {Invalid, Running, Parked}
TxStates == {ChannelTxBlocked(<<"msg", t>>) : t \in Threads}
            \cup {ChannelTxBlocked(<<"channel">>)}
RxState(t) == ChannelRxBlocked(<<"res", t>>)

(* A thread that waits blocks in the call that the channel's state names,  *)
(* a receiver with the address of its own result.                          *)
Blocked(t) ==
  \/ chan.state = "SendersWaiting" /\ call[t] = "send" /\ k.state[t] \in TxStates
  \/ chan.state = "ReceiversWaiting" /\ call[t] = "recv" /\ k.state[t] = RxState(t)

ListOK ==
  /\ chan.state = "Idle" <=> chan.waiters = <<>>
  /\ NoDup(chan.waiters)
  /\ \A t \in Threads : Waiting(t) => Blocked(t)
  /\ \A t \in Threads : ~Waiting(t) =>
       k.state[t] \in Free /\ (k.state[t] # Running => call[t] = "none")

(* A receive that was taken out of the list has its result.                *)
ResultOK ==
  \A t \in Threads : call[t] = "recv" /\ ~Waiting(t) =>
    res[t] # Uninit /\ source[t] # NoThread

OrderOK == MoveWaiters \/ ByPriority(k.prio, chan.waiters)

CInv == KInv(States, k) /\ VarsOK /\ ListOK /\ ResultOK /\ OrderOK

-----------------------------------------------------------------------------

(* The thread states are different.                                        *)
LEMMA StatesDiffer ==
  /\ Running # Invalid /\ Running # Parked /\ Parked # Invalid
  /\ Free \subseteq States /\ TxStates \subseteq States
  /\ \A st \in TxStates : /\ st \notin Free
                          /\ st[1] = "ChannelTxBlocked"
                          /\ st[2][1] = "msg" => st[2][2] \in Threads
  /\ \A t \in Threads : /\ RxState(t) \in States
                        /\ RxState(t) \notin Free
                        /\ RxState(t)[1] = "ChannelRxBlocked"
                        /\ RxState(t)[2][2] = t
  <1>1. Running # Invalid /\ Running # Parked /\ Parked # Invalid
    BY DEF Running, Invalid, Parked
  <1>2. Free \subseteq States /\ TxStates \subseteq States /\ \A t \in Threads : RxState(t) \in States
    BY DEF Free, TxStates, RxState, States
  <1>3. ASSUME NEW st \in TxStates
        PROVE  /\ st \notin Free
               /\ st[1] = "ChannelTxBlocked"
               /\ st[2][1] = "msg" => st[2][2] \in Threads
    <2>1. CASE \E t \in Threads : st = ChannelTxBlocked(<<"msg", t>>)
      BY <2>1 DEF ChannelTxBlocked, Free, Running, Invalid, Parked
    <2>2. CASE st = ChannelTxBlocked(<<"channel">>)
      BY <2>2 DEF ChannelTxBlocked, Free, Running, Invalid, Parked
    <2> QED
      BY <2>1, <2>2 DEF TxStates
  <1>4. ASSUME NEW t \in Threads
        PROVE  /\ RxState(t) \notin Free
               /\ RxState(t)[1] = "ChannelRxBlocked"
               /\ RxState(t)[2][2] = t
    BY DEF RxState, ChannelRxBlocked, Free, Running, Invalid, Parked
  <1> QED
    BY <1>1, <1>2, <1>3, <1>4

(* Typing, field by field.                                                 *)
LEMMA Fields ==
  ASSUME CInv
  PROVE  /\ k.state \in [Threads -> States]
         /\ k.prio \in [Threads -> Queues]
         /\ chan.state \in {"Idle", "SendersWaiting", "ReceiversWaiting"}
         /\ chan.waiters \in Seq(Threads)
         /\ call \in [Threads -> {"none", "send", "recv"}]
         /\ msg \in [Threads -> Msgs \cup {Uninit}]
         /\ res \in [Threads -> Msgs \cup {Uninit, Garbage}]
         /\ source \in [Threads -> Threads \cup {NoThread}]
         /\ NoThread \notin Threads
  BY SentinelNotThread DEF CInv, KInv, SchedulerType, VarsOK, Prios, NoThread

(* The thread that runs is not in the list.                                *)
LEMMA RunsFacts ==
  ASSUME CInv, NEW t \in Threads, Runs(t)
  PROVE  k.cur = t /\ k.cur # NoThread /\ ~k.pend /\ k.state[t] = Running /\ ~Waiting(t)
  <1>1. k.cur = t /\ ~k.pend /\ k.cur # NoThread
    BY Fields DEF Runs
  <1>2. k.state[t] = Running
    BY <1>1, CurrentFacts DEF CInv
  <1>3. ~Waiting(t)
    BY <1>2, StatesDiffer DEF CInv, ListOK, Blocked, Free
  <1> QED
    BY <1>1, <1>2, <1>3

-----------------------------------------------------------------------------
(* The steps, by what they do to the list: a thread enters it, its first   *)
(* member leaves it, or it stays as it is.                                 *)

Enters(t, c, v) ==
  /\ k.cur = t /\ call[t] = "none" /\ ~Waiting(t)
  /\ KInv(States, k') /\ VarsOK'
  /\ k'.prio = k.prio
  /\ \A u \in Threads : u # t => k'.state[u] = k.state[u]
  /\ chan.state \in {"Idle", v}
  /\ chan'.state = v
  /\ chan'.waiters = WithCurrent(k, chan.waiters)
  /\ \A u \in Threads : call'[u] = IF u = t THEN c ELSE call[u]
  /\ \A u \in Threads : u # t => res'[u] = res[u] /\ source'[u] = source[u]
  /\ \/ c = "send" /\ v = "SendersWaiting" /\ k'.state[t] \in TxStates
     \/ c = "recv" /\ v = "ReceiversWaiting" /\ k'.state[t] = RxState(t)

Leaves(h) ==
  /\ chan.waiters # <<>> /\ h = Head(chan.waiters)
  /\ KInv(States, k') /\ VarsOK'
  /\ k'.prio = k.prio
  /\ \A u \in Threads : k'.state[u] = IF u = h THEN Running ELSE k.state[u]
  /\ chan'.waiters = Tail(chan.waiters)
  /\ chan'.state = IF Tail(chan.waiters) = <<>> THEN "Idle" ELSE chan.state
  /\ call' = call
  /\ \A u \in Threads : call[u] = "recv" /\ u # h => res'[u] = res[u] /\ source'[u] = source[u]
  /\ call[h] = "recv" => res'[h] # Uninit /\ source'[h] # NoThread

Elsewhere ==
  /\ UNCHANGED <<chan, msg, res, source>>
  /\ KInv(States, k') /\ VarsOK'
  /\ \A u \in Threads : Waiting(u) => k'.state[u] = k.state[u] /\ call'[u] = call[u]
  /\ \A u \in Threads : ~Waiting(u) =>
       /\ k'.state[u] \in Free /\ (k'.state[u] # Running => call'[u] = "none")
       /\ call'[u] \in {"none", call[u]}
  /\ MoveWaiters \/ \A u \in Threads : Waiting(u) => k'.prio[u] = k.prio[u]

LEMMA EntersKeeps ==
  ASSUME CInv, NEW t \in Threads, NEW c, NEW v, Enters(t, c, v)
  PROVE  CInv'
  <1>1. /\ k.cur = t /\ call[t] = "none" /\ ~Waiting(t)
        /\ chan.state \in {"Idle", v}
        /\ chan'.state = v /\ chan'.waiters = WithCurrent(k, chan.waiters)
    BY DEF Enters
  <1>2. /\ \A u \in Threads : u # t => k'.state[u] = k.state[u]
        /\ \A u \in Threads : call'[u] = IF u = t THEN c ELSE call[u]
        /\ \A u \in Threads : u # t => res'[u] = res[u] /\ source'[u] = source[u]
    BY DEF Enters
  <1>3. \/ c = "send" /\ v = "SendersWaiting" /\ k'.state[t] \in TxStates
        \/ c = "recv" /\ v = "ReceiversWaiting" /\ k'.state[t] = RxState(t)
    BY DEF Enters
  <1>4. /\ chan.waiters \in Seq(Threads) /\ NoDup(chan.waiters)
        /\ k.prio \in [Threads -> Queues] /\ ~In(chan.waiters, k.cur)
    BY <1>1, Fields DEF CInv, ListOK, Waiting
  <1>5. /\ chan'.waiters # <<>> /\ NoDup(chan'.waiters)
        /\ \A u : Waiting(u)' <=> Waiting(u) \/ u = t
    BY <1>1, <1>4, InsertFacts, InsertKeeps DEF Waiting
  <1>6. OrderOK'
    <2>1. k'.prio = k.prio
      BY DEF Enters
    <2> QED
      BY <1>1, <1>4, <2>1, InsertKeeps DEF OrderOK, CInv
  <1>7. ASSUME NEW u \in Threads, Waiting(u)'
        PROVE  Blocked(u)'
    <2>1. CASE u = t
      BY <1>1, <1>2, <1>3, <2>1 DEF Blocked
    <2>2. CASE u # t
      <3>1. Waiting(u) /\ Blocked(u)
        BY <1>5, <1>7, <2>2 DEF CInv, ListOK
      <3>2. chan.state # "Idle"
        BY <3>1 DEF Blocked
      <3> QED
        BY <1>1, <1>2, <2>2, <3>1, <3>2 DEF Blocked
    <2> QED
      BY <2>1, <2>2
  <1>8. ASSUME NEW u \in Threads, ~Waiting(u)'
        PROVE  k'.state[u] \in Free /\ (k'.state[u] # Running => call'[u] = "none")
    BY <1>2, <1>5, <1>8 DEF CInv, ListOK
  <1>9. ListOK'
    <2>1. chan'.state # "Idle"
      BY <1>1, <1>3
    <2> QED
      BY <1>5, <1>7, <1>8, <2>1 DEF ListOK
  <1>10. ResultOK'
    BY <1>2, <1>5 DEF CInv, ResultOK
  <1>11. KInv(States, k') /\ VarsOK'
    BY DEF Enters
  <1> QED
    BY <1>6, <1>9, <1>10, <1>11 DEF CInv

LEMMA LeavesKeeps ==
  ASSUME CInv, NEW h, Leaves(h)
  PROVE  CInv'
  <1>1. /\ chan.waiters # <<>> /\ h = Head(chan.waiters)
        /\ chan'.waiters = Tail(chan.waiters) /\ call' = call
        /\ chan'.state = IF Tail(chan.waiters) = <<>> THEN "Idle" ELSE chan.state
    BY DEF Leaves
  <1>2. /\ \A u \in Threads : k'.state[u] = IF u = h THEN Running ELSE k.state[u]
        /\ \A u \in Threads : call[u] = "recv" /\ u # h => res'[u] = res[u] /\ source'[u] = source[u]
        /\ call[h] = "recv" => res'[h] # Uninit /\ source'[h] # NoThread
    BY DEF Leaves
  <1>3. /\ chan.waiters \in Seq(Threads) /\ NoDup(chan.waiters)
        /\ k.prio \in [Threads -> Queues]
    BY Fields DEF CInv, ListOK
  <1>4. /\ h \in Threads /\ NoDup(chan'.waiters)
        /\ \A u : Waiting(u)' <=> Waiting(u) /\ u # h
    BY <1>1, <1>3, PopListFacts DEF Waiting
  <1>5. OrderOK'
    <2>1. k'.prio = k.prio
      BY DEF Leaves
    <2> QED
      BY <1>1, <1>3, <2>1, PopListFacts DEF OrderOK, CInv
  <1>6. chan'.state = "Idle" <=> chan'.waiters = <<>>
    BY <1>1 DEF CInv, ListOK
  <1>7. ASSUME NEW u \in Threads, Waiting(u)'
        PROVE  Blocked(u)'
    <2>1. Waiting(u) /\ u # h /\ Blocked(u)
      BY <1>4, <1>7 DEF CInv, ListOK
    <2>2. chan'.waiters # <<>>
      BY <1>7 DEF Waiting, In
    <2> QED
      BY <1>1, <1>2, <2>1, <2>2 DEF Blocked
  <1>8. ASSUME NEW u \in Threads, ~Waiting(u)'
        PROVE  k'.state[u] \in Free /\ (k'.state[u] # Running => call'[u] = "none")
    BY <1>1, <1>2, <1>4, <1>8 DEF CInv, ListOK, Free
  <1>9. ListOK'
    BY <1>4, <1>6, <1>7, <1>8 DEF ListOK
  <1>10. ResultOK'
    BY <1>1, <1>2, <1>4 DEF CInv, ResultOK
  <1>11. KInv(States, k') /\ VarsOK'
    BY DEF Leaves
  <1> QED
    BY <1>5, <1>9, <1>10, <1>11 DEF CInv

LEMMA ElsewhereKeeps ==
  ASSUME CInv, Elsewhere
  PROVE  CInv'
  <1>1. chan' = chan /\ res' = res /\ source' = source
    BY DEF Elsewhere
  <1>2. \A u : Waiting(u)' <=> Waiting(u)
    BY <1>1 DEF Waiting
  <1>3. ListOK'
    <2>1. \A u \in Threads : Waiting(u)' => Blocked(u)'
      BY <1>1, <1>2 DEF CInv, ListOK, Blocked, Elsewhere
    <2>2. \A u \in Threads : ~Waiting(u)' =>
            k'.state[u] \in Free /\ (k'.state[u] # Running => call'[u] = "none")
      BY <1>2 DEF Elsewhere
    <2> QED
      BY <1>1, <2>1, <2>2 DEF CInv, ListOK
  <1>4. ResultOK'
    BY <1>1, <1>2 DEF CInv, ResultOK, Elsewhere
  <1>5. OrderOK'
    <2>1. CASE MoveWaiters
      BY <2>1 DEF OrderOK
    <2>2. CASE ~MoveWaiters
      <3>1. chan.waiters \in Seq(Threads) /\ ByPriority(k.prio, chan.waiters)
        BY <2>2, Fields DEF CInv, OrderOK
      <3>2. \A u : In(chan.waiters, u) => k'.prio[u] = k.prio[u]
        BY <2>2, <3>1, ListFacts DEF Elsewhere, Waiting
      <3>3. ByPriority(k'.prio, chan.waiters)
        BY <3>1, <3>2, SameOrder
      <3> QED
        BY <1>1, <3>3 DEF OrderOK
    <2> QED
      BY <2>1, <2>2
  <1> QED
    BY <1>3, <1>4, <1>5 DEF CInv, Elsewhere

-----------------------------------------------------------------------------
(* Which action is which step.                                             *)

LEMMA SendBlockEnters ==
  ASSUME CInv, NEW t \in Threads, NEW m \in Msgs, SendBlock(t, m)
  PROVE  Enters(t, "send", "SendersWaiting") /\ source' = source
  <1> DEFINE st == ChannelTxBlocked(SendAddress(t))
  <1>1. k.cur = t /\ k.cur # NoThread /\ ~k.pend /\ call[t] = "none" /\ ~Waiting(t)
    BY RunsFacts DEF SendBlock, Calls
  <1>2. /\ chan.state # "ReceiversWaiting"
        /\ k' = SetState(k, k.cur, st)
        /\ chan' = WaitIn("SendersWaiting")
        /\ call' = [call EXCEPT ![t] = "send"]
        /\ msg' = [msg EXCEPT ![t] = m]
        /\ UNCHANGED <<res, source>>
    BY DEF SendBlock, Block
  <1>3. st \in TxStates
    BY DEF SendAddress, TxStates
  <1> HIDE DEF st
  <1>4. KInv(States, k) /\ st \in States /\ st # Running
    BY <1>3, StatesDiffer DEF CInv, Free
  <1>5. KInv(States, k') /\ k'.state = [k.state EXCEPT ![k.cur] = st] /\ k'.prio = k.prio
    BY <1>1, <1>2, <1>4, StopStep
  <1>6. k'.state[t] = st /\ \A u \in Threads : u # t => k'.state[u] = k.state[u]
    BY <1>1, <1>5, Fields
  <1>7. chan'.state = "SendersWaiting" /\ chan'.waiters = WithCurrent(k, chan.waiters)
    BY <1>2 DEF WaitIn
  <1>8. VarsOK'
    <2>1. WithCurrent(k, chan.waiters) \in Seq(Threads)
      BY <1>1, Fields, InsertFacts
    <2> QED
      BY <1>2, <2>1, Fields DEF VarsOK, WaitIn
  <1>9. \A u \in Threads : call'[u] = IF u = t THEN "send" ELSE call[u]
    BY <1>2, Fields
  <1> QED
    BY <1>1, <1>2, <1>3, <1>5, <1>6, <1>7, <1>8, <1>9, Fields DEF Enters

LEMMA RecvBlockEnters ==
  ASSUME CInv, NEW t \in Threads, RecvBlock(t)
  PROVE  /\ Enters(t, "recv", "ReceiversWaiting")
         /\ source' = [source EXCEPT ![t] = NoThread]
  <1>1. k.cur = t /\ k.cur # NoThread /\ ~k.pend /\ call[t] = "none" /\ ~Waiting(t)
    BY RunsFacts DEF RecvBlock, Calls
  <1>2. /\ chan.state # "SendersWaiting"
        /\ k' = SetState(k, k.cur, RxState(t))
        /\ chan' = WaitIn("ReceiversWaiting")
        /\ call' = [call EXCEPT ![t] = "recv"]
        /\ res' = [res EXCEPT ![t] = Uninit]
        /\ source' = [source EXCEPT ![t] = NoThread]
        /\ msg' = msg
    BY DEF RecvBlock, Block, RxState
  <1>3. KInv(States, k) /\ RxState(t) \in States /\ RxState(t) # Running
    BY StatesDiffer DEF CInv, Free
  <1>4. KInv(States, k') /\ k'.state = [k.state EXCEPT ![k.cur] = RxState(t)] /\ k'.prio = k.prio
    BY <1>1, <1>2, <1>3, StopStep
  <1>5. k'.state[t] = RxState(t) /\ \A u \in Threads : u # t => k'.state[u] = k.state[u]
    BY <1>1, <1>4, Fields
  <1>6. chan'.state = "ReceiversWaiting" /\ chan'.waiters = WithCurrent(k, chan.waiters)
    BY <1>2 DEF WaitIn
  <1>7. VarsOK'
    <2>1. WithCurrent(k, chan.waiters) \in Seq(Threads)
      BY <1>1, Fields, InsertFacts
    <2> QED
      BY <1>2, <2>1, Fields DEF VarsOK, WaitIn
  <1>8. /\ \A u \in Threads : call'[u] = IF u = t THEN "recv" ELSE call[u]
        /\ \A u \in Threads : u # t => res'[u] = res[u] /\ source'[u] = source[u]
    BY <1>2, Fields
  <1> QED
    BY <1>1, <1>2, <1>4, <1>5, <1>6, <1>7, <1>8, Fields DEF Enters

(* pop and wake: what SendNow and RecvNow have in common.                  *)
LEMMA PopFirst ==
  ASSUME CInv, NEW h, h = Head(chan.waiters), chan.state # "Idle",
         k' = WakeHead(k, chan.waiters), chan' = Popped
  PROVE  /\ chan.waiters # <<>> /\ h \in Threads /\ Waiting(h) /\ Blocked(h)
         /\ KInv(States, k')
         /\ k'.prio = k.prio
         /\ \A u \in Threads : k'.state[u] = IF u = h THEN Running ELSE k.state[u]
         /\ chan'.waiters = Tail(chan.waiters)
         /\ chan'.state = IF Tail(chan.waiters) = <<>> THEN "Idle" ELSE chan.state
         /\ chan' \in [state : {"Idle", "SendersWaiting", "ReceiversWaiting"},
                       waiters : Seq(Threads)]
  <1>1. chan.waiters # <<>> /\ chan.waiters \in Seq(Threads) /\ NoDup(chan.waiters)
    BY Fields DEF CInv, ListOK
  <1>2. /\ h \in Threads /\ Waiting(h)
        /\ Tail(chan.waiters) \in Seq(Threads)
        /\ Tail(chan.waiters) = <<>> <=> Len(chan.waiters) = 1
    BY <1>1, PopListFacts DEF Waiting
  <1>3. Blocked(h)
    BY <1>2 DEF CInv, ListOK
  <1>4. /\ chan'.waiters = Tail(chan.waiters)
        /\ chan'.state = IF Tail(chan.waiters) = <<>> THEN "Idle" ELSE chan.state
        /\ chan' \in [state : {"Idle", "SendersWaiting", "ReceiversWaiting"},
                      waiters : Seq(Threads)]
    <2>1. CASE Len(chan.waiters) = 1
      BY <1>2, <2>1 DEF Popped, IdleChan
    <2>2. CASE Len(chan.waiters) # 1
      <3>1. chan' = [chan EXCEPT !.waiters = Tail(chan.waiters)]
        BY <2>2 DEF Popped
      <3> QED
        BY <1>2, <2>2, <3>1 DEF CInv, VarsOK
    <2> QED
      BY <2>1, <2>2
  <1>5. KInv(States, k) /\ Running \in States /\ k.state[h] # Running
    BY <1>2, <1>3, StatesDiffer DEF CInv, Blocked, Free
  <1>6. k' = SetState(k, h, Running)
    BY DEF WakeHead
  <1>7. KInv(States, k') /\ k'.state = [k.state EXCEPT ![h] = Running] /\ k'.prio = k.prio
    BY <1>2, <1>5, <1>6, WakeStep
  <1>8. \A u \in Threads : k'.state[u] = IF u = h THEN Running ELSE k.state[u]
    BY <1>2, <1>7, Fields
  <1> QED
    BY <1>1, <1>2, <1>3, <1>4, <1>7, <1>8

LEMMA SendNowLeaves ==
  ASSUME CInv, NEW t \in Threads, NEW m \in Msgs, SendNow(t, m), NEW h, h = Head(chan.waiters)
  PROVE  /\ Leaves(h) /\ ~Waiting(t) /\ h \in Threads /\ Waiting(h) /\ call[h] = "recv"
         /\ source' = [source EXCEPT ![h] = t]
  <1>1. /\ chan.state = "ReceiversWaiting"
        /\ k' = WakeHead(k, chan.waiters) /\ chan' = Popped
        /\ res' = [res EXCEPT ![Address(h)[2]] = m]
        /\ source' = [source EXCEPT ![h] = t]
        /\ msg' = [msg EXCEPT ![t] = m]
        /\ call' = call
    BY DEF SendNow
  <1>2. /\ chan.waiters # <<>> /\ h \in Threads /\ Waiting(h) /\ Blocked(h)
        /\ KInv(States, k')
        /\ k'.prio = k.prio
        /\ \A u \in Threads : k'.state[u] = IF u = h THEN Running ELSE k.state[u]
        /\ chan'.waiters = Tail(chan.waiters)
        /\ chan'.state = IF Tail(chan.waiters) = <<>> THEN "Idle" ELSE chan.state
        /\ chan' \in [state : {"Idle", "SendersWaiting", "ReceiversWaiting"},
                      waiters : Seq(Threads)]
    <2>1. chan.state # "Idle"
      BY <1>1
    <2> QED
      BY <1>1, <2>1, PopFirst
  <1>3. call[h] = "recv" /\ k.state[h] = RxState(h)
    BY <1>1, <1>2 DEF Blocked
  <1>4. Address(h)[2] = h
    BY <1>2, <1>3, StatesDiffer DEF Address
  <1>5. res' = [res EXCEPT ![h] = m]
    BY <1>1, <1>4
  <1>6. /\ \A u \in Threads : u # h => res'[u] = res[u] /\ source'[u] = source[u]
        /\ res'[h] = m /\ source'[h] = t
    BY <1>1, <1>2, <1>5, Fields
  <1>7. VarsOK'
    <2>1. call \in [Threads -> {"none", "send", "recv"}] /\ m \in Msgs \cup {Uninit}
          /\ m \in Msgs \cup {Uninit, Garbage} /\ t \in Threads \cup {NoThread}
      BY Fields
    <2>2. msg' \in [Threads -> Msgs \cup {Uninit}]
      BY <1>1, <2>1, Fields
    <2>3. res' \in [Threads -> Msgs \cup {Uninit, Garbage}]
      BY <1>5, <2>1, Fields
    <2>4. source' \in [Threads -> Threads \cup {NoThread}]
      BY <1>1, <2>1, Fields
    <2> QED
      BY <1>1, <1>2, <2>1, <2>2, <2>3, <2>4 DEF VarsOK
  <1>8. ~Waiting(t)
    BY RunsFacts DEF SendNow, Calls
  <1>9. m # Uninit /\ t # NoThread
    BY MsgsAssumption, Fields
  <1>10. Leaves(h)
    BY <1>1, <1>2, <1>6, <1>7, <1>9 DEF Leaves
  <1> QED
    BY <1>1, <1>2, <1>3, <1>8, <1>10

LEMMA RecvNowLeaves ==
  ASSUME CInv, NEW t \in Threads, RecvNow(t), NEW h, h = Head(chan.waiters)
  PROVE  /\ Leaves(h) /\ ~Waiting(t) /\ h \in Threads /\ Waiting(h) /\ call[h] = "send"
         /\ source' = [source EXCEPT ![t] = h]
  <1>1. /\ chan.state = "SendersWaiting"
        /\ k' = WakeHead(k, chan.waiters) /\ chan' = Popped
        /\ source' = [source EXCEPT ![t] = h]
        /\ call' = call /\ msg' = msg
    BY DEF RecvNow
  <1>2. /\ chan.waiters # <<>> /\ h \in Threads /\ Waiting(h) /\ Blocked(h)
        /\ KInv(States, k')
        /\ k'.prio = k.prio
        /\ \A u \in Threads : k'.state[u] = IF u = h THEN Running ELSE k.state[u]
        /\ chan'.waiters = Tail(chan.waiters)
        /\ chan'.state = IF Tail(chan.waiters) = <<>> THEN "Idle" ELSE chan.state
        /\ chan' \in [state : {"Idle", "SendersWaiting", "ReceiversWaiting"},
                      waiters : Seq(Threads)]
    <2>1. chan.state # "Idle"
      BY <1>1
    <2> QED
      BY <1>1, <2>1, PopFirst
  <1>3. call[h] = "send" /\ k.state[h] \in TxStates
    BY <1>1, <1>2 DEF Blocked
  <1>4. PICK v \in Read(Address(h)) : res' = [res EXCEPT ![t] = v]
    BY DEF RecvNow
  <1>5. v \in Msgs \cup {Uninit, Garbage}
    <2>1. Address(h)[1] = "msg" => Address(h)[2] \in Threads
      BY <1>3, StatesDiffer DEF Address
    <2> QED
      BY <1>4, <2>1, Fields DEF Read
  <1>6. /\ call[t] = "none" /\ ~Waiting(t)
        /\ \A u \in Threads : u # t => res'[u] = res[u] /\ source'[u] = source[u]
    BY <1>1, <1>4, Fields, RunsFacts DEF RecvNow, Calls
  <1>7. VarsOK'
    <2>1. call \in [Threads -> {"none", "send", "recv"}] /\ msg \in [Threads -> Msgs \cup {Uninit}]
      BY Fields
    <2>2. res' \in [Threads -> Msgs \cup {Uninit, Garbage}]
      BY <1>4, <1>5, Fields
    <2>3. source' \in [Threads -> Threads \cup {NoThread}]
      BY <1>1, <1>2, Fields
    <2> QED
      BY <1>1, <1>2, <2>1, <2>2, <2>3 DEF VarsOK
  <1>8. Leaves(h)
    BY <1>1, <1>2, <1>3, <1>6, <1>7 DEF Leaves
  <1> QED
    BY <1>1, <1>2, <1>3, <1>6, <1>8

(* A step that changes only the scheduler, and there only the states of    *)
(* threads outside the list, among those in which no call is made.         *)
LEMMA SchedulerOnly ==
  ASSUME CInv, UNCHANGED <<chan, call, msg, res, source>>, KInv(States, k'),
         \A u \in Threads : \/ k'.state[u] = k.state[u]
                            \/ k'.state[u] = Running /\ k.state[u] \in Free
                            \/ k'.state[u] \in Free /\ k.state[u] \in Free /\ call[u] = "none",
         MoveWaiters \/ \A u \in Threads : Waiting(u) => k'.prio[u] = k.prio[u]
  PROVE  Elsewhere
  <1>1. VarsOK'
    BY DEF CInv, VarsOK
  <1>2. ASSUME NEW u \in Threads, Waiting(u)
        PROVE  k'.state[u] = k.state[u]
    <2>1. k.state[u] \notin Free
      BY <1>2, StatesDiffer DEF CInv, ListOK, Blocked
    <2> QED
      BY <2>1
  <1>3. ASSUME NEW u \in Threads, ~Waiting(u)
        PROVE  k'.state[u] \in Free /\ (k'.state[u] # Running => call[u] = "none")
    BY <1>3 DEF CInv, ListOK, Free
  <1> QED
    BY <1>1, <1>2, <1>3 DEF Elsewhere

LEMMA BootElsewhere ==
  ASSUME CInv, StartThreading \/ ContextSwitch
  PROVE  Elsewhere
  <1>1. /\ k' = Schedule(k) \/ k' = Sched(k)
        /\ UNCHANGED <<chan, call, msg, res, source>>
    BY DEF StartThreading, ContextSwitch
  <1>2. KInv(States, k') /\ k'.state = k.state /\ k'.prio = k.prio
    BY <1>1, ScheduleStep, SchedStep DEF CInv
  <1> QED
    BY <1>1, <1>2, SchedulerOnly

LEMMA BootCreateElsewhere ==
  ASSUME CInv, NEW p \in Prios, BootCreate(p)
  PROVE  Elsewhere
  <1> DEFINE t == FirstUnused(k)
  <1>1. /\ k' = Create(k, p) /\ Unused(k) # {}
        /\ UNCHANGED <<chan, call, msg, res, source>>
    BY DEF BootCreate
  <1>2. p \in Queues /\ KInv(States, k) /\ Running \in States /\ Parked \in States
    BY StatesDiffer DEF Prios, CInv, Free
  <1>3. t \in Threads /\ k.state[t] = Invalid
    BY <1>1, <1>2, CreateStep
  <1>4. /\ KInv(States, k')
        /\ k'.state = [k.state EXCEPT ![t] = Running]
        /\ k'.prio = [k.prio EXCEPT ![t] = p]
    BY <1>1, <1>2, CreateStep
  <1> HIDE DEF t
  <1>5. ~Waiting(t)
    BY <1>3, StatesDiffer DEF CInv, ListOK, Blocked, Free
  <1>6. \A u \in Threads : /\ k'.state[u] = IF u = t THEN Running ELSE k.state[u]
                           /\ u # t => k'.prio[u] = k.prio[u]
    BY <1>3, <1>4, Fields
  <1>7. /\ \A u \in Threads : k'.state[u] = k.state[u] \/ (k'.state[u] = Running /\ k.state[u] \in Free)
        /\ \A u \in Threads : Waiting(u) => k'.prio[u] = k.prio[u]
    BY <1>3, <1>5, <1>6 DEF Free
  <1> QED
    BY <1>1, <1>4, <1>7, SchedulerOnly

LEMMA DoSetPriorityElsewhere ==
  ASSUME CInv, NEW t \in Threads, NEW p \in Prios, DoSetPriority(t, p)
  PROVE  Elsewhere
  <1>1. /\ k' = SetPriority(k, t, p)
        /\ MoveWaiters \/ ~Waiting(t)
        /\ UNCHANGED <<chan, call, msg, res, source>>
    BY DEF DoSetPriority, Waiting
  <1>2. p \in Queues /\ KInv(States, k)
    BY DEF Prios, CInv
  <1>3. /\ KInv(States, k') /\ k'.state = k.state
        /\ k'.prio = IF IsValid(k, t) THEN [k.prio EXCEPT ![t] = p] ELSE k.prio
    BY <1>1, <1>2, SetPriorityStep
  <1>4. \A u \in Threads : u # t => k'.prio[u] = k.prio[u]
    BY <1>3, Fields
  <1>5. MoveWaiters \/ \A u \in Threads : Waiting(u) => k'.prio[u] = k.prio[u]
    BY <1>1, <1>4
  <1> QED
    BY <1>1, <1>3, <1>5, SchedulerOnly

LEMMA DoParkElsewhere ==
  ASSUME CInv, NEW t \in Threads, DoPark(t)
  PROVE  Elsewhere
  <1>1. k.cur = t /\ k.cur # NoThread /\ ~k.pend /\ k.state[t] = Running /\ call[t] = "none"
    BY RunsFacts DEF DoPark, Calls
  <1>2. k' = SetState(k, k.cur, Parked) /\ UNCHANGED <<chan, call, msg, res, source>>
    BY DEF DoPark, Park
  <1>3. KInv(States, k) /\ Parked \in States /\ Parked # Running
    BY StatesDiffer DEF CInv, Free
  <1>4. KInv(States, k') /\ k'.state = [k.state EXCEPT ![k.cur] = Parked] /\ k'.prio = k.prio
    BY <1>1, <1>2, <1>3, StopStep
  <1>5. \A u \in Threads : k'.state[u] = IF u = t THEN Parked ELSE k.state[u]
    BY <1>1, <1>4, Fields
  <1>6. \A u \in Threads : \/ k'.state[u] = k.state[u]
                           \/ k'.state[u] \in Free /\ k.state[u] \in Free /\ call[u] = "none"
    BY <1>1, <1>5 DEF Free
  <1> QED
    BY <1>2, <1>4, <1>6, SchedulerOnly

LEMMA DoUnparkElsewhere ==
  ASSUME CInv, NEW t \in Threads, DoUnpark(t)
  PROVE  Elsewhere
  <1>1. k' = Unpark(k, t) /\ UNCHANGED <<chan, call, msg, res, source>>
    BY DEF DoUnpark
  <1>2. KInv(States, k)
    BY DEF CInv
  <1>3. CASE k.state[t] = Parked
    <2>1. k' = SetState(k, t, Running) /\ Running \in States /\ k.state[t] # Running
      BY <1>1, <1>3, StatesDiffer DEF Unpark, Free
    <2>2. KInv(States, k') /\ k'.state = [k.state EXCEPT ![t] = Running] /\ k'.prio = k.prio
      BY <1>2, <2>1, WakeStep
    <2>3. \A u \in Threads : k'.state[u] = IF u = t THEN Running ELSE k.state[u]
      BY <2>2, Fields
    <2>4. \A u \in Threads : k'.state[u] = k.state[u] \/ (k'.state[u] = Running /\ k.state[u] \in Free)
      BY <1>3, <2>3 DEF Free
    <2> QED
      BY <1>1, <2>2, <2>4, SchedulerOnly
  <1>4. CASE k.state[t] # Parked
    <2>1. k' = k
      BY <1>1, <1>4 DEF Unpark
    <2>2. KInv(States, k') /\ k'.state = k.state /\ k'.prio = k.prio
      BY <1>2, <2>1
    <2> QED
      BY <1>1, <2>2, SchedulerOnly
  <1> QED
    BY <1>3, <1>4

LEMMA ReturnElsewhere ==
  ASSUME CInv, NEW t \in Threads, Return(t)
  PROVE  Elsewhere
  <1>1. k.state[t] = Running /\ ~Waiting(t)
    BY RunsFacts DEF Return
  <1>2. /\ call' = [call EXCEPT ![t] = "none"]
        /\ UNCHANGED <<k, chan, msg, res, source>>
    BY DEF Return
  <1>3. VarsOK' /\ KInv(States, k')
    BY <1>2 DEF CInv, VarsOK
  <1>4. \A u \in Threads : call'[u] = IF u = t THEN "none" ELSE call[u]
    BY <1>2, Fields
  <1>5. \A u \in Threads : ~Waiting(u) =>
          k.state[u] \in Free /\ (k.state[u] # Running => call[u] = "none")
    BY DEF CInv, ListOK
  <1> QED
    BY <1>1, <1>2, <1>3, <1>4, <1>5 DEF Elsewhere

(* Every step.                                                             *)
LEMMA StepCases ==
  ASSUME CInv, [Next]_vars
  PROVE  \/ Elsewhere
         \/ \E t \in Threads, m \in Msgs : SendBlock(t, m) \/ SendNow(t, m)
         \/ \E t \in Threads : RecvBlock(t) \/ RecvNow(t)
  <1>1. CASE Next
    <2>1. CASE StartThreading \/ ContextSwitch
      BY <2>1, BootElsewhere
    <2>2. CASE \E p \in Prios : BootCreate(p)
      BY <2>2, BootCreateElsewhere
    <2>3. CASE \E t \in Threads, p \in Prios : DoSetPriority(t, p)
      BY <2>3, DoSetPriorityElsewhere
    <2>4. CASE \E t \in Threads : Return(t) \/ DoPark(t) \/ DoUnpark(t)
      BY <2>4, ReturnElsewhere, DoParkElsewhere, DoUnparkElsewhere
    <2>5. CASE \E t \in Senders, m \in Msgs : SendBlock(t, m) \/ SendNow(t, m)
      BY <2>5, PeersAssumption
    <2>6. CASE \E t \in Receivers : RecvBlock(t) \/ RecvNow(t)
      BY <2>6, PeersAssumption
    <2> QED
      BY <1>1, <2>1, <2>2, <2>3, <2>4, <2>5, <2>6 DEF Next
  <1>2. CASE UNCHANGED vars
    <2>1. UNCHANGED <<k, chan, call, msg, res, source>>
      BY <1>2 DEF vars
    <2>2. KInv(States, k') /\ k'.state = k.state /\ k'.prio = k.prio
      BY <2>1 DEF CInv
    <2> QED
      BY <2>1, <2>2, SchedulerOnly
  <1> QED
    BY <1>1, <1>2

LEMMA InitCInv == Init => CInv
  <1> SUFFICES ASSUME Init PROVE CInv
    OBVIOUS
  <1>1. KInv(States, k)
    BY NewSchedulerFacts, StatesDiffer DEF Init, Free
  <1>2. chan.state = "Idle" /\ chan.waiters = <<>> /\ VarsOK
    BY DEF Init, IdleChan, VarsOK
  <1>3. \A t \in Threads : k.state[t] = Invalid /\ call[t] = "none"
    BY DEF Init, NewScheduler
  <1>4. \A t : ~Waiting(t)
    BY <1>2 DEF Waiting, In
  <1>5. ListOK /\ ResultOK /\ OrderOK
    BY <1>2, <1>3, <1>4 DEF ListOK, ResultOK, OrderOK, NoDup, ByPriority, Free
  <1> QED
    BY <1>1, <1>2, <1>5 DEF CInv

LEMMA NextCInv == CInv /\ [Next]_vars => CInv'
  <1> SUFFICES ASSUME CInv, [Next]_vars PROVE CInv'
    OBVIOUS
  <1>1. CASE Elsewhere
    BY <1>1, ElsewhereKeeps
  <1>2. ASSUME NEW t \in Threads, NEW m \in Msgs, SendBlock(t, m)
        PROVE  CInv'
    BY <1>2, SendBlockEnters, EntersKeeps
  <1>3. ASSUME NEW t \in Threads, NEW m \in Msgs, SendNow(t, m)
        PROVE  CInv'
    BY <1>3, SendNowLeaves, LeavesKeeps
  <1>4. ASSUME NEW t \in Threads, RecvBlock(t)
        PROVE  CInv'
    BY <1>4, RecvBlockEnters, EntersKeeps
  <1>5. ASSUME NEW t \in Threads, RecvNow(t)
        PROVE  CInv'
    BY <1>5, RecvNowLeaves, LeavesKeeps
  <1> QED
    BY <1>1, <1>2, <1>3, <1>4, <1>5, StepCases

LEMMA Invariance == Spec => []CInv
  BY InitCInv, NextCInv, PTL DEF Spec

LEMMA CInvImplies == CInv => TypeOK /\ ListMatchesCalls /\ ResultWritten
  <1> SUFFICES ASSUME CInv PROVE TypeOK /\ ListMatchesCalls /\ ResultWritten
    OBVIOUS
  <1>1. TypeOK
    BY DEF CInv, KInv, VarsOK, TypeOK
  <1>2. \A t \in Threads : call[t] # "none" => (Waiting(t) <=> k.state[t] # Running)
    BY StatesDiffer DEF CInv, ListOK, Blocked, Free
  <1>3. ASSUME NEW i \in DOMAIN chan.waiters
        PROVE  LET t == chan.waiters[i]
               IN  /\ call[t] = IF chan.state = "SendersWaiting" THEN "send" ELSE "recv"
                   /\ k.state[t][1] = IF chan.state = "SendersWaiting"
                                      THEN "ChannelTxBlocked" ELSE "ChannelRxBlocked"
                   /\ \A j \in DOMAIN chan.waiters : chan.waiters[j] = t => i = j
    <2> DEFINE t == chan.waiters[i]
    <2>1. t \in Threads /\ Waiting(t)
      BY Fields, ListFacts DEF Waiting, In
    <2>2. \A j \in DOMAIN chan.waiters : chan.waiters[j] = t => i = j
      BY DEF CInv, ListOK, NoDup
    <2>3. Blocked(t)
      BY <2>1 DEF CInv, ListOK
    <2> HIDE DEF t
    <2>4. /\ call[t] = IF chan.state = "SendersWaiting" THEN "send" ELSE "recv"
          /\ k.state[t][1] = IF chan.state = "SendersWaiting"
                             THEN "ChannelTxBlocked" ELSE "ChannelRxBlocked"
      BY <2>1, <2>3, StatesDiffer DEF Blocked
    <2> QED
      BY <2>2, <2>4 DEF t
  <1>4. ListMatchesCalls
    BY <1>2, <1>3 DEF CInv, ListOK, ListMatchesCalls
  <1>5. ResultWritten
    BY <1>2 DEF CInv, ResultOK, ResultWritten
  <1> QED
    BY <1>1, <1>4, <1>5

(* The channel's list holds exactly the threads that block in send() or    *)
(* recv(), once each, and only senders or only receivers: the              *)
(* `unreachable!` branches are unreachable.                                *)
THEOREM ListIsExact == Spec => []ListMatchesCalls
  BY Invariance, CInvImplies, PTL

(* recv() returns only what a sender wrote.                                *)
THEOREM ResultsAreWritten == Spec => []ResultWritten
  BY Invariance, CInvImplies, PTL

-----------------------------------------------------------------------------

(* When a thread leaves the list it is the first.                          *)
LEMMA FirstLeaves ==
  ASSUME CInv, [Next]_vars, NEW u \in Threads, Waiting(u), ~Waiting(u)'
  PROVE  u = Head(chan.waiters) /\ \A t : Waiting(t)' => Waiting(t)
  <1>1. ASSUME NEW t \in Threads, NEW c, NEW v, Enters(t, c, v)
        PROVE  FALSE
    <2>1. /\ chan'.waiters = WithCurrent(k, chan.waiters) /\ k.cur \in Threads
          /\ k.prio \in [Threads -> Queues] /\ chan.waiters \in Seq(Threads)
      BY <1>1, Fields DEF Enters
    <2> QED
      BY <2>1, InsertFacts DEF Waiting
  <1>2. ASSUME NEW h, Leaves(h)
        PROVE  u = Head(chan.waiters) /\ \A t : Waiting(t)' => Waiting(t)
    <2>1. chan.waiters # <<>> /\ chan'.waiters = Tail(chan.waiters)
      BY <1>2 DEF Leaves
    <2>2. chan.waiters \in Seq(Threads) /\ NoDup(chan.waiters)
      BY Fields DEF CInv, ListOK
    <2> QED
      BY <2>1, <2>2, PopListFacts DEF Waiting
  <1>3. ~Elsewhere
    BY DEF Elsewhere, Waiting
  <1> QED
    BY <1>1, <1>2, <1>3, StepCases, SendBlockEnters, SendNowLeaves, RecvBlockEnters,
       RecvNowLeaves

(* Waiters are served by priority and, within one priority, in the order   *)
(* they came, as long as set_priority is not called for one that waits.    *)
THEOREM ServedByPriority ==
  ASSUME ~MoveWaiters
  PROVE  Spec => ServedInOrder
  <1>1. ASSUME CInv, [Next]_vars, NEW i \in DOMAIN chan.waiters, NEW j \in DOMAIN chan.waiters,
               In(chan'.waiters, chan.waiters[i]), ~In(chan'.waiters, chan.waiters[j])
        PROVE  k.prio[chan.waiters[j]] >= k.prio[chan.waiters[i]] /\ j < i
    <2> DEFINE w == chan.waiters
    <2>1. w \in Seq(Threads) /\ NoDup(w) /\ ByPriority(k.prio, w)
      BY <1>1, Fields DEF CInv, ListOK, OrderOK
    <2>2. Len(w) \in Nat /\ DOMAIN w = 1 .. Len(w) /\ w[j] \in Threads /\ In(w, w[j])
      BY <1>1, <2>1, ListFacts DEF In
    <2>3. w[j] = Head(w)
      <3>1. PICK u : u = w[j]
        OBVIOUS
      <3>2. u \in Threads /\ Waiting(u) /\ ~Waiting(u)'
        BY <1>1, <2>2, <3>1 DEF Waiting
      <3> QED
        BY <1>1, <3>1, <3>2, FirstLeaves
    <2>4. w # <<>> /\ Head(w) = w[1] /\ 1 \in DOMAIN w
      BY <2>1, <2>2
    <2>5. j = 1
      BY <2>1, <2>3, <2>4 DEF NoDup
    <2>6. i # j
      BY <1>1
    <2>7. j < i
      BY <2>2, <2>5, <2>6
    <2> QED
      BY <2>1, <2>7 DEF ByPriority
  <1>2. CInv /\ [Next]_vars =>
          [\A i, j \in DOMAIN chan.waiters :
             LET t == chan.waiters[i]
                 u == chan.waiters[j]
             IN  (In(chan'.waiters, t) /\ ~In(chan'.waiters, u)) =>
                   /\ k.prio[u] >= k.prio[t]
                   /\ j < i]_vars
    BY <1>1
  <1> QED
    BY <1>2, Invariance, PTL DEF Spec, ServedInOrder

-----------------------------------------------------------------------------
(* The channel implements the rendezvous.                                  *)

Sending == {t \in Threads : Waiting(t) /\ call[t] = "send"}
Receiving == {t \in Threads : Waiting(t) /\ call[t] = "recv"}

(* At any time only senders wait, or only receivers.                       *)
LEMMA OneKindWaits ==
  ASSUME CInv
  PROVE  /\ chan.state # "SendersWaiting" => Sending = {}
         /\ chan.state # "ReceiversWaiting" => Receiving = {}
  BY DEF CInv, ListOK, Blocked, Sending, Receiving

LEMMA EntersAdds ==
  ASSUME CInv, NEW t \in Threads, NEW c \in {"send", "recv"}, NEW v, Enters(t, c, v)
  PROVE  /\ t \notin Sending \cup Receiving
         /\ Sending' = IF c = "send" THEN Sending \cup {t} ELSE Sending
         /\ Receiving' = IF c = "recv" THEN Receiving \cup {t} ELSE Receiving
  <1>1. ~Waiting(t) /\ k.cur = t /\ chan'.waiters = WithCurrent(k, chan.waiters)
    BY DEF Enters
  <1>2. \A u \in Threads : call'[u] = IF u = t THEN c ELSE call[u]
    BY DEF Enters
  <1>3. \A u : Waiting(u)' <=> Waiting(u) \/ u = t
    BY <1>1, Fields, InsertFacts DEF Waiting
  <1>4. t \notin Sending \cup Receiving
    BY <1>1 DEF Sending, Receiving
  <1>5. Sending' = IF c = "send" THEN Sending \cup {t} ELSE Sending
    BY <1>2, <1>3, <1>4 DEF Sending
  <1>6. Receiving' = IF c = "recv" THEN Receiving \cup {t} ELSE Receiving
    BY <1>2, <1>3, <1>4 DEF Receiving
  <1> QED
    BY <1>4, <1>5, <1>6

LEMMA LeavesRemoves ==
  ASSUME CInv, NEW h, Leaves(h)
  PROVE  Sending' = Sending \ {h} /\ Receiving' = Receiving \ {h}
  <1>1. /\ chan.waiters # <<>> /\ h = Head(chan.waiters)
        /\ chan'.waiters = Tail(chan.waiters) /\ call' = call
    BY DEF Leaves
  <1>2. chan.waiters \in Seq(Threads) /\ NoDup(chan.waiters)
    BY Fields DEF CInv, ListOK
  <1>3. \A u : Waiting(u)' <=> Waiting(u) /\ u # h
    BY <1>1, <1>2, PopListFacts DEF Waiting
  <1> QED
    BY <1>1, <1>3 DEF Sending, Receiving

(* Each send is matched with exactly one receive and each receive with     *)
(* exactly one send: blocking is an Offer or an Ask, a call that finds a   *)
(* partner is a Hand or a Take, and no other step changes the rendezvous.  *)
THEOREM ChannelIsRendezvous == Spec => ImplementsRendezvous
  <1>1. Init => Rendezvous!Init
    <2> SUFFICES ASSUME Init PROVE Rendezvous!Init
      OBVIOUS
    <2>1. Sending = {} /\ Receiving = {}
      BY DEF Init, IdleChan, Sending, Receiving, Waiting, In
    <2>2. source = [t \in Threads |-> NoThread]
      BY DEF Init
    <2> QED
      BY <2>1, <2>2 DEF Rendezvous!Init, Sending, Receiving
  <1>2. CInv /\ [Next]_vars => [Rendezvous!Next]_(Rendezvous!vars)
    <2> SUFFICES ASSUME CInv, [Next]_vars
                 PROVE  Rendezvous!Next \/ UNCHANGED Rendezvous!vars
      BY DEF Rendezvous!vars
    <2>1. ASSUME NEW t \in Threads, NEW m \in Msgs, SendBlock(t, m)
          PROVE  Rendezvous!Next
      <3>1. /\ t \notin Sending \cup Receiving
            /\ Sending' = Sending \cup {t} /\ Receiving' = Receiving
            /\ source' = source
        BY <2>1, SendBlockEnters, EntersAdds
      <3>2. Receiving = {}
        BY <2>1, OneKindWaits DEF SendBlock
      <3>3. Rendezvous!Offer(t)
        BY <3>1, <3>2 DEF Rendezvous!Offer, Rendezvous!Free, Sending, Receiving
      <3> QED
        BY <3>3 DEF Rendezvous!Next
    <2>2. ASSUME NEW t \in Threads, RecvBlock(t)
          PROVE  Rendezvous!Next
      <3>1. /\ t \notin Sending \cup Receiving
            /\ Receiving' = Receiving \cup {t} /\ Sending' = Sending
            /\ source' = [source EXCEPT ![t] = NoThread]
        BY <2>2, RecvBlockEnters, EntersAdds
      <3>2. Sending = {}
        BY <2>2, OneKindWaits DEF RecvBlock
      <3>3. Rendezvous!Ask(t)
        BY <3>1, <3>2 DEF Rendezvous!Ask, Rendezvous!Free, Sending, Receiving
      <3> QED
        BY <3>3 DEF Rendezvous!Next
    <2>3. ASSUME NEW t \in Threads, NEW m \in Msgs, SendNow(t, m)
          PROVE  Rendezvous!Next
      <3>0. PICK h : h = Head(chan.waiters)
        OBVIOUS
      <3>1. /\ Leaves(h) /\ ~Waiting(t) /\ h \in Threads /\ Waiting(h) /\ call[h] = "recv"
            /\ source' = [source EXCEPT ![h] = t]
        BY <2>3, <3>0, SendNowLeaves
      <3>2. /\ t \notin Sending \cup Receiving
            /\ h \in Receiving /\ h \notin Sending
        BY <3>1 DEF Sending, Receiving
      <3>3. Sending' = Sending /\ Receiving' = Receiving \ {h}
        BY <3>1, <3>2, LeavesRemoves
      <3>4. Rendezvous!Hand(t, h)
        BY <3>1, <3>2, <3>3 DEF Rendezvous!Hand, Rendezvous!Free, Sending, Receiving
      <3> QED
        BY <3>1, <3>4 DEF Rendezvous!Next
    <2>4. ASSUME NEW t \in Threads, RecvNow(t)
          PROVE  Rendezvous!Next
      <3>0. PICK h : h = Head(chan.waiters)
        OBVIOUS
      <3>1. /\ Leaves(h) /\ ~Waiting(t) /\ h \in Threads /\ Waiting(h) /\ call[h] = "send"
            /\ source' = [source EXCEPT ![t] = h]
        BY <2>4, <3>0, RecvNowLeaves
      <3>2. /\ t \notin Sending \cup Receiving
            /\ h \in Sending /\ h \notin Receiving
        BY <3>1 DEF Sending, Receiving
      <3>3. Receiving' = Receiving /\ Sending' = Sending \ {h}
        BY <3>1, <3>2, LeavesRemoves
      <3>4. Rendezvous!Take(t, h)
        BY <3>1, <3>2, <3>3 DEF Rendezvous!Take, Rendezvous!Free, Sending, Receiving
      <3> QED
        BY <3>1, <3>4 DEF Rendezvous!Next
    <2>5. CASE Elsewhere
      <3>1. \A u : Waiting(u)' <=> Waiting(u)
        BY <2>5 DEF Elsewhere, Waiting
      <3>2. \A u \in Threads : Waiting(u) => call'[u] = call[u]
        BY <2>5 DEF Elsewhere
      <3>3. Sending' = Sending /\ Receiving' = Receiving /\ source' = source
        BY <2>5, <3>1, <3>2 DEF Sending, Receiving, Elsewhere
      <3> QED
        BY <3>3 DEF Rendezvous!vars, Sending, Receiving
    <2> QED
      BY <2>1, <2>2, <2>3, <2>4, <2>5, StepCases
  <1> QED
    BY <1>1, <1>2, Invariance, PTL DEF Spec, ImplementsRendezvous, Rendezvous!Spec

-----------------------------------------------------------------------------
(* What is received is what was sent, unless senders queue up: only the    *)
(* first sender of a list leaves the address of its message.               *)

OneSender == \A t, u \in Sending : t = u

(* The invariant behind it.                                                *)
OwnAddress == \A t \in Sending : k.state[t] = ChannelTxBlocked(<<"msg", t>>)

LEMMA OwnAddressKept ==
  ASSUME CInv, OwnAddress, OneSender', [Next]_vars
  PROVE  OwnAddress'
  <1>1. ASSUME NEW t \in Threads, NEW m \in Msgs, SendBlock(t, m)
        PROVE  OwnAddress'
    <2>1. Enters(t, "send", "SendersWaiting")
      BY <1>1, SendBlockEnters
    <2>2. t \notin Sending /\ Sending' = Sending \cup {t}
      BY <2>1, EntersAdds
    <2>3. Sending = {}
      BY <2>2 DEF OneSender
    <2>4. chan.state = "Idle"
      <3>1. chan.state \in {"Idle", "SendersWaiting"}
        BY <2>1 DEF Enters
      <3>2. ASSUME chan.state = "SendersWaiting"
            PROVE  FALSE
        <4> DEFINE h == Head(chan.waiters)
        <4>1. chan.waiters # <<>> /\ chan.waiters \in Seq(Threads) /\ NoDup(chan.waiters)
          BY <3>2, Fields DEF CInv, ListOK
        <4>2. h \in Threads /\ Waiting(h)
          BY <4>1, PopListFacts DEF Waiting
        <4>3. Blocked(h)
          BY <4>2 DEF CInv, ListOK
        <4> HIDE DEF h
        <4>4. h \in Sending
          BY <3>2, <4>2, <4>3 DEF Blocked, Sending
        <4> QED
          BY <2>3, <4>4
      <3> QED
        BY <3>1, <3>2
    <2>5. k.cur = t /\ k.cur # NoThread /\ ~k.pend
      BY <1>1, RunsFacts DEF SendBlock, Calls
    <2>6. k' = SetState(k, k.cur, ChannelTxBlocked(<<"msg", t>>))
      BY <1>1, <2>4 DEF SendBlock, Block, SendAddress
    <2>7. /\ ChannelTxBlocked(<<"msg", t>>) \in States
          /\ ChannelTxBlocked(<<"msg", t>>) # Running
          /\ KInv(States, k)
      <3>1. ChannelTxBlocked(<<"msg", t>>) \in TxStates
        BY DEF TxStates
      <3> QED
        BY <3>1, StatesDiffer DEF CInv, Free
    <2>8. k'.state = [k.state EXCEPT ![k.cur] = ChannelTxBlocked(<<"msg", t>>)]
      BY <2>5, <2>6, <2>7, StopStep
    <2>9. k'.state[t] = ChannelTxBlocked(<<"msg", t>>)
      BY <2>5, <2>8, Fields
    <2> QED
      BY <2>2, <2>3, <2>9 DEF OwnAddress
  <1>2. ASSUME NEW t \in Threads, RecvBlock(t)
        PROVE  OwnAddress'
    <2>1. Enters(t, "recv", "ReceiversWaiting")
      BY <1>2, RecvBlockEnters
    <2>2. t \notin Sending /\ Sending' = Sending
      BY <2>1, EntersAdds
    <2>3. \A u \in Sending : k'.state[u] = k.state[u]
      BY <2>1, <2>2 DEF Enters, Sending
    <2> QED
      BY <2>2, <2>3 DEF OwnAddress
  <1>3. ASSUME NEW h, Leaves(h)
        PROVE  OwnAddress'
    <2>1. Sending' = Sending \ {h}
      BY <1>3, LeavesRemoves
    <2>2. \A u \in Sending : u # h => k'.state[u] = k.state[u]
      BY <1>3 DEF Leaves, Sending
    <2> QED
      BY <2>1, <2>2 DEF OwnAddress
  <1>4. CASE Elsewhere
    <2>1. \A u : Waiting(u)' <=> Waiting(u)
      BY <1>4 DEF Elsewhere, Waiting
    <2>2. \A u \in Threads : Waiting(u) => k'.state[u] = k.state[u] /\ call'[u] = call[u]
      BY <1>4 DEF Elsewhere
    <2> QED
      BY <2>1, <2>2 DEF OwnAddress, Sending
  <1> QED
    BY <1>1, <1>2, <1>3, <1>4, StepCases, SendNowLeaves, RecvNowLeaves

(* What one step receives.                                                 *)
LEMMA StepReceives ==
  ASSUME CInv, OwnAddress, [Next]_vars, NEW t \in Threads,
         source'[t] # source[t], source'[t] # NoThread
  PROVE  res'[t] = msg'[source'[t]]
  <1>1. ASSUME NEW u \in Threads, NEW m \in Msgs, SendNow(u, m)
        PROVE  res'[t] = msg'[source'[t]]
    <2>1. PICK h : h = Head(chan.waiters)
      OBVIOUS
    <2>2. /\ h \in Threads /\ Waiting(h) /\ call[h] = "recv"
          /\ source' = [source EXCEPT ![h] = u]
      BY <1>1, <2>1, SendNowLeaves
    <2>3. Blocked(h)
      BY <2>2 DEF CInv, ListOK
    <2>4. Address(h)[2] = h
      BY <2>2, <2>3, StatesDiffer DEF Blocked, Address
    <2>5. res' = [res EXCEPT ![h] = m] /\ msg' = [msg EXCEPT ![u] = m]
      BY <1>1, <2>1, <2>4 DEF SendNow
    <2>6. t = h
      BY <2>2, Fields
    <2> QED
      BY <2>2, <2>5, <2>6, Fields
  <1>2. ASSUME NEW u \in Threads, RecvNow(u)
        PROVE  res'[t] = msg'[source'[t]]
    <2>1. PICK h : h = Head(chan.waiters)
      OBVIOUS
    <2>2. /\ h \in Threads /\ Waiting(h) /\ call[h] = "send"
          /\ source' = [source EXCEPT ![u] = h]
      BY <1>2, <2>1, RecvNowLeaves
    <2>3. k.state[h] = ChannelTxBlocked(<<"msg", h>>)
      BY <2>2 DEF OwnAddress, Sending
    <2>4. Read(Address(h)) = {msg[h]}
      BY <2>3 DEF Address, Read, ChannelTxBlocked
    <2>5. res' = [res EXCEPT ![u] = msg[h]] /\ msg' = msg
      BY <1>2, <2>1, <2>4 DEF RecvNow
    <2>6. t = u
      BY <2>2, Fields
    <2> QED
      BY <2>2, <2>5, <2>6, Fields
  <1>3. ASSUME NEW u \in Threads, NEW m \in Msgs, SendBlock(u, m)
        PROVE  FALSE
    BY <1>3 DEF SendBlock
  <1>4. ASSUME NEW u \in Threads, RecvBlock(u)
        PROVE  FALSE
    BY <1>4, Fields DEF RecvBlock
  <1>5. ~Elsewhere
    BY DEF Elsewhere
  <1> QED
    BY <1>1, <1>2, <1>3, <1>4, <1>5, StepCases

(* As long as no two senders wait at a time, a receive gets the message of *)
(* the send it is matched with.                                            *)
THEOREM ReceivedUnlessQueued == Spec /\ []OneSender => ReceivedIsSent
  <1>1. Init => OwnAddress
    BY DEF Init, IdleChan, OwnAddress, Sending, Waiting, In
  <1>2. CInv /\ OwnAddress /\ OneSender' /\ [Next]_vars => OwnAddress'
    BY OwnAddressKept
  <1>3. CInv /\ OwnAddress /\ [Next]_vars =>
          [\A t \in Threads : source'[t] # source[t] /\ source'[t] # NoThread =>
             res'[t] = msg'[source'[t]]]_vars
    BY StepReceives
  <1> QED
    BY <1>1, <1>2, <1>3, Invariance, PTL DEF Spec, ReceivedIsSent

(* Only senders send.                                                      *)
SendersSend == \A t \in Threads : call[t] = "send" => t \in Senders

LEMMA OnlySendersSend == Spec => []SendersSend
  <1>1. Init => SendersSend
    BY DEF Init, SendersSend
  <1>2. CInv /\ SendersSend /\ [Next]_vars => SendersSend'
    <2> SUFFICES ASSUME CInv, SendersSend, [Next]_vars PROVE SendersSend'
      OBVIOUS
    <2>1. \/ call' = call
          \/ \E t \in Threads : \E c \in {"none", "recv"} : call' = [call EXCEPT ![t] = c]
          \/ \E t \in Senders : call' = [call EXCEPT ![t] = "send"]
      BY PeersAssumption DEF Next, vars, StartThreading, BootCreate, ContextSwitch, DoSetPriority,
         Return, DoPark, DoUnpark, SendBlock, SendNow, RecvBlock, RecvNow
    <2> QED
      BY <2>1, Fields DEF SendersSend
  <1> QED
    BY <1>1, <1>2, Invariance, PTL DEF Spec

(* A channel with one sending thread and any number of receivers delivers  *)
(* what was sent.                                                          *)
THEOREM OneSenderDelivers ==
  ASSUME NEW s, Senders = {s}
  PROVE  Spec => ReceivedIsSent
  <1>1. SendersSend => OneSender
    BY DEF SendersSend, OneSender, Sending
  <1> QED
    BY <1>1, OnlySendersSend, ReceivedUnlessQueued, PTL
=============================================================================
