------------------------ MODULE ControlChannelProofs ------------------------
(***************************************************************************)
(* Theorems about ControlChannel, for every set of handler activations,    *)
(* every set of ordinary controls and every queue capacity.                *)
(***************************************************************************)
EXTENDS ControlChannel, TLAPS

\* Where a thread is determines what it carries: a handler past its first step
\* carries a control, one inside the Stop branch carries Stop or Shutdown, and
\* the service thread holds a control exactly between rx and deliver, with the
\* deferred slot empty.
PcInv ==
    /\ \A h \in Handlers : hpc[h] # "idle" => hctl[h] # None
    /\ \A h \in Handlers : hpc[h] \in {"cas", "publish"} => hctl[h] \in TerminalControls
    /\ rpc = "deliver" => rheld # None
    /\ rpc # "deliver" => rheld = None
    /\ rpc \in {"rx", "deliver", "error"} => deferred = None

\* The decision bits explain every answer given so far: a claim set the commit
\* bit, a claim that answered "no stop" froze the stop bit at 0, and every
\* Stop that is acknowledged, or only has its send left to do, set the stop bit.
DecisionInv ==
    /\ claims # {} => TERMINAL_COMMITTED \in decision
    /\ TRUE \in claims => STOP_REQUESTED \in decision
    /\ FALSE \in claims => STOP_REQUESTED \notin decision
    /\ stopAcked # {} => STOP_REQUESTED \in decision
    /\ \A h \in Handlers :
         /\ hpc[h] \in {"publish", "send"}
         /\ hctl[h] \in TerminalControls
         => STOP_REQUESTED \in decision

\* A receive that began with a terminal pending is still before ready(), and
\* the terminal is still pending.
UrgentInv == /\ urgent => rpc = "ready" /\ terminal # {}
             /\ ~overtaken

IInv == TypeOK /\ PcInv /\ DecisionInv /\ UrgentInv

\* The control names, answer codes and decision bits are distinct.
LEMMA Codes ==
    /\ NO_ERROR # ERROR_RETRY /\ NO_ERROR # ERROR_SERVICE_NOT_ACTIVE
    /\ STOP_REQUESTED # TERMINAL_COMMITTED
    /\ None \notin Ordinary /\ Wake \notin Ordinary
    /\ None \notin TerminalControls /\ Wake \notin TerminalControls
    /\ TerminalControls \cap Ordinary = {} /\ None # Wake
BY ChannelAssumption DEF NO_ERROR, ERROR_RETRY, ERROR_SERVICE_NOT_ACTIVE, STOP_REQUESTED,
   TERMINAL_COMMITTED, None, Wake, TerminalControls

\* control_channel() establishes the invariant.
LEMMA InitIInv == Init => IInv
<1> SUFFICES ASSUME Init PROVE IInv
  OBVIOUS
<1>1. TypeOK
  <2>1. queue \in Seq(Ordinary \cup {Wake}) /\ Len(queue) <= QueueCap
    BY ChannelAssumption DEF Init
  <2>2. accepted \in Seq(Ordinary) /\ delivered \in Seq(Ordinary)
    BY DEF Init
  <2>3. QED
    BY <2>1, <2>2, Codes DEF Init, TypeOK
<1>2. PcInv /\ DecisionInv /\ UrgentInv
  BY Codes DEF Init, PcInv, DecisionInv, UrgentInv
<1>3. QED BY <1>1, <1>2 DEF IInv

\* Each handler step preserves the invariant.
LEMMA HandlerStep ==
    ASSUME IInv, NEW h \in Handlers,
           \/ \E c \in Controls : DispatchBegin(h, c)
           \/ Handler(h)
    PROVE  IInv'
<1>0. TypeOK /\ PcInv /\ DecisionInv /\ UrgentInv
  BY DEF IInv
<1> USE <1>0, Codes DEF chan, hvars, rvars, history
<1>1. CASE \E c \in Controls : DispatchBegin(h, c)
  <2>1. TypeOK'
    BY <1>1 DEF TypeOK, PcInv, DispatchBegin, Controls
  <2>2. PcInv'
    BY <1>1 DEF TypeOK, PcInv, DispatchBegin, Controls
  <2>3. DecisionInv'
    BY <1>1 DEF TypeOK, DecisionInv, DispatchBegin, Controls
  <2>4. UrgentInv'
    BY <1>1 DEF TypeOK, UrgentInv, DispatchBegin
  <2>5. QED BY <2>1, <2>2, <2>3, <2>4 DEF IInv
<1>2. CASE DispatchLoadAlive(h)
  <2>1. TypeOK'
    BY <1>2 DEF TypeOK, PcInv, DispatchLoadAlive, Reply
  <2>2. PcInv'
    BY <1>2 DEF TypeOK, PcInv, DispatchLoadAlive, Reply
  <2>3. DecisionInv'
    BY <1>2 DEF TypeOK, DecisionInv, DispatchLoadAlive, Reply
  <2>4. UrgentInv'
    BY <1>2 DEF TypeOK, UrgentInv, DispatchLoadAlive, Reply
  <2>5. QED BY <2>1, <2>2, <2>3, <2>4 DEF IInv
<1>3. CASE DispatchLoadDecision(h)
  <2>1. TypeOK'
    BY <1>3 DEF TypeOK, PcInv, DispatchLoadDecision, Reply
  <2>2. PcInv'
    BY <1>3 DEF TypeOK, PcInv, DispatchLoadDecision, Reply
  <2>3. DecisionInv'
    BY <1>3 DEF TypeOK, DecisionInv, DispatchLoadDecision, Reply
  <2>4. UrgentInv'
    BY <1>3 DEF TypeOK, UrgentInv, DispatchLoadDecision, Reply
  <2>5. QED BY <2>1, <2>2, <2>3, <2>4 DEF IInv
<1>4. CASE DispatchCas(h)
  <2>1. TypeOK'
    BY <1>4 DEF TypeOK, PcInv, DispatchCas, Reply
  <2>2. PcInv'
    BY <1>4 DEF TypeOK, PcInv, DispatchCas, Reply
  <2>3. DecisionInv'
    BY <1>4 DEF TypeOK, DecisionInv, DispatchCas, Reply
  <2>4. UrgentInv'
    BY <1>4 DEF TypeOK, UrgentInv, DispatchCas, Reply
  <2>5. QED BY <2>1, <2>2, <2>3, <2>4 DEF IInv
<1>5. CASE DispatchPublish(h)
  <2>1. TypeOK'
    BY <1>5 DEF TypeOK, PcInv, DispatchPublish
  <2>2. PcInv'
    BY <1>5 DEF TypeOK, PcInv, DispatchPublish
  <2>3. DecisionInv'
    BY <1>5 DEF TypeOK, DecisionInv, DispatchPublish
  <2>4. UrgentInv'
    BY <1>5 DEF TypeOK, UrgentInv, DispatchPublish
  <2>5. QED BY <2>1, <2>2, <2>3, <2>4 DEF IInv
<1>6. CASE DispatchSend(h)
  <2>1. TypeOK'
    <3>1. hctl[h] \in TerminalControls \cup Ordinary
      BY <1>6 DEF TypeOK, PcInv, DispatchSend
    <3>2. queue' \in Seq(Ordinary \cup {Wake}) /\ Len(queue') <= QueueCap
      <4>1. \/ \E m \in Ordinary \cup {Wake} : queue' = Append(queue, m) /\ Len(queue) < QueueCap
            \/ queue' = queue
        BY <1>6, <3>1 DEF DispatchSend, HasRoom
      <4>2. queue \in Seq(Ordinary \cup {Wake}) /\ Len(queue) <= QueueCap
        BY DEF TypeOK
      <4>3. QED BY <4>1, <4>2, ChannelAssumption
    <3>3. accepted' \in Seq(Ordinary)
      <4>1. \/ hctl[h] \in Ordinary /\ accepted' = Append(accepted, hctl[h])
            \/ accepted' = accepted
        BY <1>6 DEF DispatchSend, HasRoom
      <4>2. accepted \in Seq(Ordinary)
        BY DEF TypeOK
      <4>3. QED BY <4>1, <4>2
    <3>4. hpc' \in [Handlers -> {"idle", "loadAlive", "loadDecision", "cas", "publish", "send"}]
          /\ hctl' \in [Handlers -> TerminalControls \cup Ordinary \cup {None}]
          /\ stopAcked' \subseteq TerminalControls
      <4>1. \E code : Reply(h, code)
        BY <1>6 DEF DispatchSend, HasRoom
      <4>2. QED BY <4>1 DEF TypeOK, Reply
    <3>5. QED
      BY <1>6, <3>2, <3>3, <3>4 DEF TypeOK, DispatchSend
  <2>2. PcInv'
    BY <1>6 DEF TypeOK, PcInv, DispatchSend, Reply
  <2>3. DecisionInv'
    BY <1>6 DEF TypeOK, DecisionInv, DispatchSend, Reply
  <2>4. UrgentInv'
    BY <1>6 DEF TypeOK, UrgentInv, DispatchSend, Reply
  <2>5. QED BY <2>1, <2>2, <2>3, <2>4 DEF IInv
<1>7. QED
  BY <1>1, <1>2, <1>3, <1>4, <1>5, <1>6 DEF Handler

\* Each step of the service thread preserves the invariant.
LEMMA ReceiverStep ==
    ASSUME IInv,
           \/ \E block \in BOOLEAN : ReceiveBegin(block)
           \/ Receiving
           \/ ClaimTerminal \/ DropReceiver \/ DropRx
    PROVE  IInv'
<1>0. TypeOK /\ PcInv /\ DecisionInv /\ UrgentInv
  BY DEF IInv
<1> USE <1>0, Codes, ChannelAssumption DEF chan, hvars, rvars, history
<1>1. CASE \E block \in BOOLEAN : ReceiveBegin(block)
  <2>1. TypeOK'
    BY <1>1 DEF TypeOK, PcInv, ReceiveBegin
  <2>2. PcInv'
    BY <1>1 DEF TypeOK, PcInv, ReceiveBegin
  <2>3. DecisionInv'
    BY <1>1 DEF TypeOK, DecisionInv, ReceiveBegin
  <2>4. UrgentInv'
    BY <1>1 DEF TypeOK, UrgentInv, ReceiveBegin
  <2>5. QED BY <2>1, <2>2, <2>3, <2>4 DEF IInv
<1>2. CASE ReceiveReady
  <2>1. TypeOK'
    <3>1. delivered' \in Seq(Ordinary)
      <4>1. \/ deferred \in Ordinary /\ delivered' = Append(delivered, deferred)
            \/ delivered' = delivered
        BY <1>2 DEF TypeOK, ReceiveReady, ReturnTerminal, ReturnOrdinary
      <4>2. delivered \in Seq(Ordinary)
        BY DEF TypeOK
      <4>3. QED BY <4>1, <4>2
    <3>2. lastTerminal' \in TerminalControls \cup {None}
      BY <1>2 DEF TypeOK, ReceiveReady, ReturnTerminal, ReturnOrdinary, TakenTerminal, TerminalControls
    <3>3. rpc' \in {"idle", "rx"}
      BY <1>2 DEF ReceiveReady, ReturnTerminal, ReturnOrdinary
    <3>6. urgent' \in BOOLEAN /\ overtaken' \in BOOLEAN
      BY <1>2, Zenon DEF TypeOK, ReceiveReady, ReturnTerminal, ReturnOrdinary
    <3>4. terminal' \subseteq TerminalControls /\ deferred' \in Ordinary \cup {None}
      BY <1>2 DEF TypeOK, ReceiveReady, ReturnTerminal, ReturnOrdinary
    <3>5. QED
      BY <1>2, <3>1, <3>2, <3>3, <3>4, <3>6 DEF TypeOK, ReceiveReady
  <2>2. PcInv'
    BY <1>2 DEF TypeOK, PcInv, ReceiveReady, ReturnTerminal, ReturnOrdinary
  <2>3. DecisionInv'
    BY <1>2 DEF TypeOK, DecisionInv, ReceiveReady, ReturnTerminal, ReturnOrdinary
  <2>4. UrgentInv'
    BY <1>2 DEF TypeOK, UrgentInv, ReceiveReady, ReturnTerminal, ReturnOrdinary
  <2>5. QED BY <2>1, <2>2, <2>3, <2>4 DEF IInv
<1>3. CASE ReceiveRx
  <2>1. TypeOK'
    BY <1>3 DEF TypeOK, PcInv, ReceiveRx
  <2>2. PcInv'
    BY <1>3 DEF TypeOK, PcInv, ReceiveRx
  <2>3. DecisionInv'
    BY <1>3 DEF TypeOK, DecisionInv, ReceiveRx
  <2>4. UrgentInv'
    BY <1>3 DEF TypeOK, UrgentInv, ReceiveRx
  <2>5. QED BY <2>1, <2>2, <2>3, <2>4 DEF IInv
<1>4. CASE ReceiveDeliver
  <2>1. TypeOK'
    <3>1. delivered' \in Seq(Ordinary)
      BY <1>4 DEF TypeOK, PcInv, ReceiveDeliver, ReturnTerminal, ReturnOrdinary
    <3>2. lastTerminal' \in TerminalControls \cup {None}
      BY <1>4 DEF TypeOK, ReceiveDeliver, ReturnTerminal, ReturnOrdinary, TakenTerminal, TerminalControls
    <3>3. rpc' \in {"idle", "rx"} /\ urgent' \in BOOLEAN /\ overtaken' \in BOOLEAN
      BY <1>4 DEF TypeOK, ReceiveDeliver, ReturnTerminal, ReturnOrdinary
    <3>4. terminal' \subseteq TerminalControls /\ deferred' \in Ordinary \cup {None}
      BY <1>4 DEF TypeOK, ReceiveDeliver, ReturnTerminal, ReturnOrdinary
    <3>5. QED
      BY <1>4, <3>1, <3>2, <3>3, <3>4 DEF TypeOK, ReceiveDeliver
  <2>2. PcInv'
    BY <1>4 DEF TypeOK, PcInv, ReceiveDeliver, ReturnTerminal, ReturnOrdinary
  <2>3. DecisionInv'
    BY <1>4 DEF TypeOK, DecisionInv, ReceiveDeliver, ReturnTerminal, ReturnOrdinary
  <2>4. UrgentInv'
    BY <1>4 DEF TypeOK, UrgentInv, ReceiveDeliver, ReturnTerminal, ReturnOrdinary
  <2>5. QED BY <2>1, <2>2, <2>3, <2>4 DEF IInv
<1>5. CASE ReceiveEmpty
  <2>1. TypeOK'
    BY <1>5 DEF TypeOK, PcInv, ReceiveEmpty
  <2>2. PcInv'
    BY <1>5 DEF TypeOK, PcInv, ReceiveEmpty
  <2>3. DecisionInv'
    BY <1>5 DEF TypeOK, DecisionInv, ReceiveEmpty
  <2>4. UrgentInv'
    BY <1>5 DEF TypeOK, UrgentInv, ReceiveEmpty
  <2>5. QED BY <2>1, <2>2, <2>3, <2>4 DEF IInv
<1>6. CASE ReceiveError
  <2>1. TypeOK'
    BY <1>6 DEF TypeOK, PcInv, ReceiveError, ReturnTerminal, TakenTerminal, TerminalControls
  <2>2. PcInv'
    BY <1>6 DEF TypeOK, PcInv, ReceiveError, ReturnTerminal
  <2>3. DecisionInv'
    BY <1>6 DEF TypeOK, DecisionInv, ReceiveError, ReturnTerminal
  <2>4. UrgentInv'
    BY <1>6 DEF TypeOK, UrgentInv, ReceiveError, ReturnTerminal
  <2>5. QED BY <2>1, <2>2, <2>3, <2>4 DEF IInv
<1>7. CASE ClaimTerminal
  <2>1. TypeOK'
    BY <1>7 DEF TypeOK, PcInv, ClaimTerminal
  <2>2. PcInv'
    BY <1>7 DEF TypeOK, PcInv, ClaimTerminal
  <2>3. DecisionInv'
    BY <1>7 DEF TypeOK, DecisionInv, ClaimTerminal
  <2>4. UrgentInv'
    BY <1>7 DEF TypeOK, UrgentInv, ClaimTerminal
  <2>5. QED BY <2>1, <2>2, <2>3, <2>4 DEF IInv
<1>8. CASE DropReceiver
  <2>1. TypeOK'
    BY <1>8 DEF TypeOK, PcInv, DropReceiver
  <2>2. PcInv'
    BY <1>8 DEF TypeOK, PcInv, DropReceiver
  <2>3. DecisionInv'
    BY <1>8 DEF TypeOK, DecisionInv, DropReceiver
  <2>4. UrgentInv'
    BY <1>8 DEF TypeOK, UrgentInv, DropReceiver
  <2>5. QED BY <2>1, <2>2, <2>3, <2>4 DEF IInv
<1>9. CASE DropRx
  <2>1. TypeOK'
    <3>1. queue' \in Seq(Ordinary \cup {Wake}) /\ Len(queue') <= QueueCap
      BY <1>9 DEF DropRx
    <3>2. QED
      BY <1>9, <3>1 DEF TypeOK, DropRx
  <2>2. PcInv'
    BY <1>9 DEF TypeOK, PcInv, DropRx
  <2>3. DecisionInv'
    BY <1>9 DEF TypeOK, DecisionInv, DropRx
  <2>4. UrgentInv'
    BY <1>9 DEF TypeOK, UrgentInv, DropRx
  <2>5. QED BY <2>1, <2>2, <2>3, <2>4 DEF IInv
<1>10. QED
  BY <1>1, <1>2, <1>3, <1>4, <1>5, <1>6, <1>7, <1>8, <1>9 DEF Receiving

\* IInv is an inductive invariant of the channel.
THEOREM Inductive == Spec => []IInv
<1>1. Init => IInv
  BY InitIInv
<1>2. IInv /\ [Next]_vars => IInv'
  <2> SUFFICES ASSUME IInv, [Next]_vars PROVE IInv'
    OBVIOUS
  <2>1. CASE Next
    BY <2>1, HandlerStep, ReceiverStep DEF Next
  <2>2. CASE UNCHANGED vars
    BY <2>2 DEF IInv, TypeOK, PcInv, DecisionInv, UrgentInv, vars, chan, hvars, rvars, history
  <2>3. QED BY <2>1, <2>2
<1>3. QED BY <1>1, <1>2, PTL DEF Spec

\* Type correctness of the channel.
THEOREM TypeCorrect == Spec => []TypeOK
<1>1. IInv => TypeOK
  BY DEF IInv
<1>2. QED BY <1>1, Inductive, PTL

\* The accepted Stop and the terminal claim of runtime.rs are linearized by the
\* decision atomic: claim_terminal always answers the same, and an acknowledged
\* Stop or Shutdown makes that answer "stop".
THEOREM ClaimLinearizesAlways == Spec => []ClaimLinearizes
<1>1. IInv => ClaimLinearizes
  BY Zenon DEF IInv, TypeOK, DecisionInv, ClaimLinearizes
<1>2. QED BY <1>1, Inductive, PTL

\* A receive that starts with a Stop or Shutdown pending returns it before any
\* ordinary control.
THEOREM StopNotOvertakenAlways == Spec => []StopNotOvertaken
<1>1. IInv => StopNotOvertaken
  BY DEF IInv, UrgentInv, StopNotOvertaken
<1>2. QED BY <1>1, Inductive, PTL

-----------------------------------------------------------------------------
(* Ordinary controls *)

\* A walk through the messages q from the first, along the accepted controls a: the
\* first t of them were taken, every control in q is the next one.
Walk(at, q, a, t) ==
    /\ at \in [0..Len(q) -> 0..Len(a)]
    /\ at[0] = t /\ at[Len(q)] = Len(a)
    /\ \A n \in 1..Len(q) :
         \/ q[n] = Wake /\ at[n] = at[n - 1]
         \/ q[n] # Wake /\ at[n] = at[n - 1] + 1 /\ a[at[n]] = q[n]

TakenFirst == Len(Taken) <= Len(accepted) /\ \A n \in 1..Len(Taken) : accepted[n] = Taken[n]

Conserved == connected => TakenFirst /\ \E at : Walk(at, queue, accepted, Len(Taken))

\* A message is put at the end: a Wake, or a control that is accepted with it.
LEMMA WalkOn ==
    ASSUME NEW q \in Seq(Ordinary \cup {Wake}), NEW a \in Seq(Ordinary), NEW t \in Nat,
           \E at : Walk(at, q, a, t)
    PROVE  /\ \E at : Walk(at, Append(q, Wake), a, t)
           /\ \A m \in Ordinary : \E at : Walk(at, Append(q, m), Append(a, m), t)
<1>p. PICK at : Walk(at, q, a, t)
  OBVIOUS
<1>l. Len(q) \in Nat /\ Len(a) \in Nat
  OBVIOUS
<1>1. \E go : Walk(go, Append(q, Wake), a, t)
  <2> DEFINE go == [n \in 0..(Len(q) + 1) |-> IF n = Len(q) + 1 THEN Len(a) ELSE at[n]]
             r == Append(q, Wake)
  <2>1. Len(r) = Len(q) + 1 /\ r[Len(q) + 1] = Wake /\ \A n \in 1..Len(q) : r[n] = q[n]
    BY <1>l
  <2> HIDE DEF r
  <2>2. go \in [0..Len(r) -> 0..Len(a)] /\ go[0] = t /\ go[Len(r)] = Len(a)
    BY <1>p, <1>l, <2>1 DEF Walk
  <2>3. ASSUME NEW n \in 1..Len(r)
        PROVE  \/ r[n] = Wake /\ go[n] = go[n - 1]
               \/ r[n] # Wake /\ go[n] = go[n - 1] + 1 /\ a[go[n]] = r[n]
    <3>1. CASE n = Len(q) + 1
      BY <1>p, <1>l, <2>1, <3>1 DEF Walk
    <3>2. CASE n \in 1..Len(q)
      <4>1. go[n] = at[n] /\ go[n - 1] = at[n - 1]
        BY <1>l, <3>2
      <4> QED
        BY <1>p, <2>1, <3>2, <4>1 DEF Walk
    <3> QED
      BY <1>l, <2>1, <2>3, <3>1, <3>2
  <2>4. Walk(go, r, a, t)
    BY <2>2, <2>3 DEF Walk
  <2> QED
    BY <2>4 DEF r
<1>2. ASSUME NEW m \in Ordinary PROVE \E go : Walk(go, Append(q, m), Append(a, m), t)
  <2> DEFINE go == [n \in 0..(Len(q) + 1) |-> IF n = Len(q) + 1 THEN Len(a) + 1 ELSE at[n]]
             r == Append(q, m)
             b == Append(a, m)
  <2>1. /\ Len(r) = Len(q) + 1 /\ r[Len(q) + 1] = m /\ \A n \in 1..Len(q) : r[n] = q[n]
        /\ Len(b) = Len(a) + 1 /\ b[Len(a) + 1] = m /\ \A n \in 1..Len(a) : b[n] = a[n]
        /\ m # Wake
    BY <1>l, Codes
  <2> HIDE DEF r, b
  <2>2. go \in [0..Len(r) -> 0..Len(b)] /\ go[0] = t /\ go[Len(r)] = Len(b)
    BY <1>p, <1>l, <2>1 DEF Walk
  <2>3. ASSUME NEW n \in 1..Len(r)
        PROVE  \/ r[n] = Wake /\ go[n] = go[n - 1]
               \/ r[n] # Wake /\ go[n] = go[n - 1] + 1 /\ b[go[n]] = r[n]
    <3>1. CASE n = Len(q) + 1
      BY <1>p, <1>l, <2>1, <3>1 DEF Walk
    <3>2. CASE n \in 1..Len(q)
      <4>1. go[n] = at[n] /\ go[n - 1] = at[n - 1] /\ at[n] \in 0..Len(a) /\ at[n - 1] \in 0..Len(a)
        <5>1. n \in 0..Len(q) /\ n - 1 \in 0..Len(q) /\ at \in [0..Len(q) -> 0..Len(a)]
          BY <1>p, <1>l, <3>2 DEF Walk
        <5>2. at[n] \in 0..Len(a) /\ at[n - 1] \in 0..Len(a)
          BY <5>1
        <5>3. /\ n # Len(q) + 1 /\ n - 1 # Len(q) + 1
              /\ n \in 0..(Len(q) + 1) /\ n - 1 \in 0..(Len(q) + 1)
          BY <1>l, <3>2
        <5> QED
          BY <5>2, <5>3
      <4>2. q[n] # Wake => b[at[n]] = a[at[n]]
        BY <1>p, <1>l, <2>1, <3>2, <4>1 DEF Walk
      <4> QED
        BY <1>p, <2>1, <3>2, <4>1, <4>2 DEF Walk
    <3> QED
      BY <1>l, <2>1, <2>3, <3>1, <3>2
  <2>4. Walk(go, r, b, t)
    BY <2>2, <2>3 DEF Walk
  <2> QED
    BY <2>4 DEF r, b
<1> QED
  BY <1>1, <1>2

\* The first message is taken: a Wake, or the next accepted control.
LEMMA WalkTail ==
    ASSUME NEW q \in Seq(Ordinary \cup {Wake}), q # <<>>, NEW a \in Seq(Ordinary), NEW t \in Nat,
           \E at : Walk(at, q, a, t)
    PROVE  /\ Head(q) = Wake => \E at : Walk(at, Tail(q), a, t)
           /\ Head(q) # Wake => /\ t + 1 <= Len(a) /\ a[t + 1] = Head(q)
                                /\ \E at : Walk(at, Tail(q), a, t + 1)
<1>p. PICK at : Walk(at, q, a, t)
  OBVIOUS
<1> DEFINE r == Tail(q)
           go == [n \in 0..(Len(q) - 1) |-> at[n + 1]]
<1>l. Len(q) \in Nat \ {0} /\ Len(a) \in Nat /\ Head(q) = q[1] /\ Len(r) = Len(q) - 1
  OBVIOUS
<1>r. \A n \in 1..Len(r) : r[n] = q[n + 1]
  OBVIOUS
<1> HIDE DEF r
<1>1. /\ Head(q) = Wake => at[1] = t
      /\ Head(q) # Wake => at[1] = t + 1 /\ a[t + 1] = Head(q) /\ at[1] \in 0..Len(a)
  <2>1. 1 \in 1..Len(q) /\ 1 \in 0..Len(q) /\ 1 - 1 = 0
    BY <1>l
  <2>2. at[1] \in 0..Len(a) /\ at[0] = t
    BY <1>p, <2>1 DEF Walk
  <2>3. \/ q[1] = Wake /\ at[1] = at[0]
        \/ q[1] # Wake /\ at[1] = at[0] + 1 /\ a[at[1]] = q[1]
    <3>1. \/ q[1] = Wake /\ at[1] = at[1 - 1]
          \/ q[1] # Wake /\ at[1] = at[1 - 1] + 1 /\ a[at[1]] = q[1]
      BY <1>p, <2>1 DEF Walk
    <3> QED
      BY <2>1, <3>1
  <2> QED
    BY <1>l, <2>2, <2>3
<1>2. go \in [0..Len(r) -> 0..Len(a)] /\ go[0] = at[1] /\ go[Len(r)] = Len(a)
  BY <1>p, <1>l DEF Walk
<1>3. ASSUME NEW n \in 1..Len(r)
      PROVE  \/ r[n] = Wake /\ go[n] = go[n - 1]
             \/ r[n] # Wake /\ go[n] = go[n - 1] + 1 /\ a[go[n]] = r[n]
  <2>1. n + 1 \in 1..Len(q) /\ go[n] = at[n + 1] /\ go[n - 1] = at[n] /\ (n + 1) - 1 = n
    BY <1>l
  <2>2. \/ q[n + 1] = Wake /\ at[n + 1] = at[(n + 1) - 1]
        \/ q[n + 1] # Wake /\ at[n + 1] = at[(n + 1) - 1] + 1 /\ a[at[n + 1]] = q[n + 1]
    BY <1>p, <2>1 DEF Walk
  <2>3. at[(n + 1) - 1] = at[n] /\ r[n] = q[n + 1]
    BY <1>r, <2>1
  <2> QED
    BY <2>1, <2>2, <2>3
<1>4. Walk(go, r, a, at[1])
  BY <1>2, <1>3 DEF Walk
<1> QED
  BY <1>1, <1>4, <1>l DEF r

\* What was taken, by what is held back.
LEMMA TakenIs ==
    ASSUME TypeOK
    PROVE  /\ deferred = None /\ rheld = None => Taken = delivered
           /\ deferred # None /\ rheld = None => Taken = Append(delivered, deferred)
           /\ deferred = None /\ rheld # None => Taken = Append(delivered, rheld)
           /\ Taken \in Seq(Ordinary)
<1>1. delivered \in Seq(Ordinary) /\ deferred \in Ordinary \cup {None} /\ rheld \in Ordinary \cup {None}
  BY DEF TypeOK
<1>2. Opt(deferred) \in Seq(Ordinary) /\ Opt(rheld) \in Seq(Ordinary)
  BY <1>1 DEF Opt
<1>3. Taken \in Seq(Ordinary)
  BY <1>1, <1>2 DEF Taken
<1>4. ASSUME NEW s \in Seq(Ordinary) PROVE s \o <<>> = s /\ \A x \in Ordinary : s \o <<x>> = Append(s, x)
  OBVIOUS
<1>5. CASE deferred = None /\ rheld = None
  BY <1>1, <1>3, <1>4, <1>5 DEF Taken, Opt
<1>6. CASE deferred # None /\ rheld = None
  BY <1>1, <1>3, <1>4, <1>6 DEF Taken, Opt
<1>7. CASE deferred = None /\ rheld # None
  BY <1>1, <1>3, <1>4, <1>7 DEF Taken, Opt
<1> QED
  BY <1>3, <1>5, <1>6, <1>7

\* A control that is sent is accepted and queued last, a Wake only queued.
LEMMA SendConserves ==
    ASSUME IInv, Conserved, NEW h \in Handlers, DispatchSend(h)
    PROVE  Conserved'
<1>a. TypeOK /\ PcInv
  BY DEF IInv
<1>t. /\ queue \in Seq(Ordinary \cup {Wake}) /\ accepted \in Seq(Ordinary)
      /\ hctl[h] \in TerminalControls \cup Ordinary
  BY <1>a, Codes DEF TypeOK, PcInv, DispatchSend
<1>u. Taken' = Taken /\ connected' = connected /\ Taken \in Seq(Ordinary) /\ Len(Taken) \in Nat
  <2>1. UNCHANGED <<delivered, deferred, rheld, connected>>
    BY DEF DispatchSend, rvars
  <2>2. Taken' = Taken
    BY <2>1 DEF Taken, Opt
  <2>3. Taken \in Seq(Ordinary)
    BY <1>a, TakenIs
  <2> QED
    BY <2>1, <2>2, <2>3
<1> SUFFICES ASSUME connected
             PROVE  TakenFirst' /\ \E at : Walk(at, queue', accepted', Len(Taken'))
  BY <1>u DEF Conserved
<1>w. TakenFirst /\ \E at : Walk(at, queue, accepted, Len(Taken))
  BY DEF Conserved
<1>1. CASE queue' = queue /\ accepted' = accepted
  BY <1>w, <1>u, <1>1 DEF TakenFirst
<1>2. CASE queue' = Append(queue, Wake) /\ accepted' = accepted
  <2>1. TakenFirst'
    BY <1>w, <1>u, <1>2 DEF TakenFirst
  <2> QED
    BY <1>t, <1>u, <1>w, <1>2, <2>1, WalkOn
<1>3. CASE hctl[h] \in Ordinary /\ queue' = Append(queue, hctl[h]) /\ accepted' = Append(accepted, hctl[h])
  <2>1. TakenFirst'
    BY <1>t, <1>w, <1>u, <1>3 DEF TakenFirst
  <2> QED
    BY <1>t, <1>u, <1>w, <1>3, <2>1, WalkOn
<1> QED
  BY <1>t, <1>1, <1>2, <1>3, Codes DEF DispatchSend, HasRoom

\* The receiver takes from the head of the queue, and a Wake is no control.
LEMMA RxConserves ==
    ASSUME IInv, IInv', Conserved, ReceiveRx
    PROVE  Conserved'
<1>a. TypeOK /\ TypeOK' /\ PcInv
  BY DEF IInv
<1>t. /\ queue \in Seq(Ordinary \cup {Wake}) /\ queue # <<>> /\ accepted \in Seq(Ordinary)
      /\ queue' = Tail(queue) /\ UNCHANGED <<accepted, delivered, deferred, connected>>
  BY <1>a DEF TypeOK, ReceiveRx, history
<1>u. Taken = delivered /\ delivered \in Seq(Ordinary) /\ Len(delivered) \in Nat /\ deferred = None
  BY <1>a, TakenIs DEF TypeOK, PcInv, ReceiveRx
<1> SUFFICES ASSUME connected
             PROVE  TakenFirst' /\ \E at : Walk(at, queue', accepted', Len(Taken'))
  BY <1>t DEF Conserved
<1>w. TakenFirst /\ \E at : Walk(at, queue, accepted, Len(delivered))
  BY <1>u DEF Conserved
<1>1. CASE Head(queue) = Wake
  <2>1. Taken' = Taken
    BY <1>1, <1>t DEF ReceiveRx, Taken, Opt
  <2>2. TakenFirst'
    BY <1>w, <1>t, <2>1 DEF TakenFirst
  <2> QED
    BY <1>1, <1>w, <1>t, <1>u, <2>1, <2>2, WalkTail
<1>2. CASE Head(queue) # Wake
  <2>1. Taken' = Append(delivered, Head(queue)) /\ Head(queue) \in Ordinary
    <3>1. rheld' = Head(queue) /\ Head(queue) \in Ordinary
      BY <1>2, <1>t DEF ReceiveRx
    <3>2. (deferred = None /\ rheld # None)'
      BY <3>1, <1>t, <1>u, Codes
    <3>3. (deferred = None /\ rheld # None => Taken = Append(delivered, rheld))'
      BY <1>a, TakenIs, PTL
    <3> QED
      BY <3>1, <3>2, <3>3, <1>t
  <2>2. /\ Len(delivered) + 1 <= Len(accepted) /\ accepted[Len(delivered) + 1] = Head(queue)
        /\ \E at : Walk(at, Tail(queue), accepted, Len(delivered) + 1)
    BY <1>2, <1>w, <1>t, <1>u, WalkTail
  <2>3. TakenFirst'
    BY <1>w, <1>t, <1>u, <2>1, <2>2 DEF TakenFirst
  <2>4. Len(Taken') = Len(delivered) + 1
    BY <1>u, <2>1
  <2> QED
    BY <1>t, <2>2, <2>3, <2>4
<1> QED
  BY <1>1, <1>2

\* A control that gives way to a terminal, or is returned, stays where it is in the
\* order of what was taken.
LEMMA ReturnConserves ==
    ASSUME IInv, IInv', Conserved, ReceiveReady \/ ReceiveDeliver
    PROVE  Conserved'
<1>a. TypeOK /\ TypeOK' /\ PcInv /\ PcInv'
  BY DEF IInv
<1>1. UNCHANGED <<queue, accepted, connected>>
  BY DEF ReceiveReady, ReceiveDeliver
<1>2. Taken' = Taken
  <2>1. /\ (deferred = None /\ rheld = None => Taken = delivered)'
        /\ (deferred # None /\ rheld = None => Taken = Append(delivered, deferred))'
    BY <1>a, TakenIs, PTL
  <2>2. CASE ReceiveReady
    BY <1>a, <2>1, <2>2, TakenIs, Codes DEF PcInv, ReceiveReady, ReturnTerminal, ReturnOrdinary, Taken, Opt
  <2>3. CASE ReceiveDeliver
    BY <1>a, <2>1, <2>3, TakenIs, Codes DEF PcInv, ReceiveDeliver, ReturnTerminal, ReturnOrdinary
  <2> QED
    BY <2>2, <2>3
<1> QED
  BY <1>1, <1>2 DEF Conserved, TakenFirst

\* No accepted control is lost, repeated or reordered, and the deferred slot is never
\* overwritten, for every queue capacity (dispatch_control, ready and deliver).
THEOREM OrdinaryConservedAlways == Spec => []OrdinaryConserved
<1>1. Init => Conserved
  <2> SUFFICES ASSUME Init PROVE TakenFirst /\ \E at : Walk(at, queue, accepted, Len(Taken))
    BY DEF Conserved
  <2>1. Taken = <<>>
    BY DEF Init, Taken, Opt
  <2> DEFINE at == [n \in 0..0 |-> 0]
  <2>2. Walk(at, queue, accepted, Len(Taken))
    BY <2>1 DEF Init, Walk
  <2> QED
    BY <2>1, <2>2 DEF Init, TakenFirst
<1>2. IInv /\ IInv' /\ Conserved /\ [Next]_vars => Conserved'
  <2> SUFFICES ASSUME IInv, IInv', Conserved, [Next]_vars PROVE Conserved'
    OBVIOUS
  <2>1. CASE \E h \in Handlers : DispatchSend(h)
    BY <2>1, SendConserves
  <2>2. CASE ReceiveRx
    BY <2>2, RxConserves
  <2>3. CASE ReceiveReady \/ ReceiveDeliver
    BY <2>3, ReturnConserves
  <2>4. CASE DropRx
    BY <2>4 DEF DropRx, Conserved
  <2>5. CASE UNCHANGED <<queue, accepted, delivered, deferred, rheld, connected>>
    BY <2>5 DEF Conserved, TakenFirst, Taken, Opt
  <2> QED
    BY <2>1, <2>2, <2>3, <2>4, <2>5
       DEF Next, Handler, Receiving, DispatchBegin, DispatchLoadAlive, DispatchLoadDecision, DispatchCas,
           DispatchPublish, ReceiveBegin, ReceiveEmpty, ReceiveError, ReturnTerminal, ClaimTerminal,
           DropReceiver, Reply, vars, chan, hvars, rvars, history
<1>3. IInv /\ Conserved => OrdinaryConserved
  BY DEF IInv, PcInv, Conserved, OrdinaryConserved, TakenFirst, Walk
<1> QED
  BY Inductive, <1>1, <1>2, <1>3, PTL DEF Spec
=============================================================================
