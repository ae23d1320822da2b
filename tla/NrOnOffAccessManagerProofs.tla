--------------------- MODULE NrOnOffAccessManagerProofs ---------------------
(***************************************************************************)
(* Proofs about the On/Off access manager for every ChangeTime: the state  *)
(* keeps its types, the Start/ShutDown timer chain never breaks or         *)
(* doubles, a granted TXOP ends exactly when the on period does, and a    *)
(* waiting call is only ever held while off, for the next Start; and the  *)
(* manager implements the abstract duty cycle OnOffDutyCycle.             *)
(***************************************************************************)
EXTENDS NrOnOffAccessManager, TLAPS

\* The inductive invariant: the types, the timer chain, and a running
\* TXOP lined up with the pending OFF switch.
IInv ==
  /\ TypeOK
  /\ TimerChain
  /\ txop > 0 => grant /\ txop = changeStateTime
  /\ call => ~grant

-----------------------------------------------------------------------------
(* Facts about the scheduler queue of one event.                           *)

\* A queue of one event is a sequence of events.
LEMMA SingleQueue ==
  ASSUME NEW r \in Event
  PROVE  /\ <<r>> \in Seq(Event)
         /\ Len(<<r>>) = 1
         /\ DOMAIN <<r>> = {1}
BY DEF Event

\* Under the invariant the queue is exactly its one pending event.
LEMMA ChainFacts ==
  ASSUME IInv
  PROVE  /\ events = <<events[1]>>
         /\ events[1] \in Event
         /\ DOMAIN events = {1}
         /\ changeStateTime \in Nat
         /\ events[1].at = changeStateTime
         /\ events[1].held
<1>1. events \in Seq(Event) /\ Len(events) = 1
  BY DEF IInv, TypeOK, TimerChain
<1>2. events = <<events[1]>> /\ DOMAIN events = {1}
  BY <1>1
<1>3. events[1] \in Event
  BY <1>1
<1>4. QED
  BY <1>2, <1>3 DEF IInv, TimerChain, Event

\* Scheduling into an empty queue gives a queue of one held event.
LEMMA ScheduleEmpty ==
  ASSUME NEW k, NEW d
  PROVE  Schedule(<<>>, k, d) = <<[kind |-> k, at |-> d, held |-> TRUE]>>
<1>1. [i \in DOMAIN <<>> |-> [kind |-> <<>>[i].kind, at |-> <<>>[i].at, held |-> FALSE]] = <<>>
  OBVIOUS
<1>2. Append(<<>>, [kind |-> k, at |-> d, held |-> TRUE]) = <<[kind |-> k, at |-> d, held |-> TRUE]>>
  OBVIOUS
<1>3. QED
  BY <1>1, <1>2, Zenon DEF Schedule

LEMMA DropSingle ==
  ASSUME NEW e
  PROVE  Drop(<<e>>, 1) = <<>>
BY DEF Drop

LEMMA NotRunningEmpty == ~IsRunning(<<>>)
BY DEF IsRunning

-----------------------------------------------------------------------------

\* The initial state of the constructor satisfies the invariant.
LEMMA InitIInv == Init => IInv
<1> SUFFICES ASSUME Init PROVE IInv
  OBVIOUS
<1>1. [kind |-> "Start", at |-> 0, held |-> TRUE] \in Event
  BY DEF Event
<1>2. events \in Seq(Event) /\ Len(events) = 1 /\ DOMAIN events = {1}
  BY <1>1, SingleQueue DEF Init
<1>3. events[1] = [kind |-> "Start", at |-> 0, held |-> TRUE]
  BY DEF Init
<1>4. TypeOK
  <2>1. grant \in BOOLEAN /\ call \in BOOLEAN /\ fault \in {"none", "CallReentered"}
    BY Zenon DEF Init
  <2>2. changeStateTime \in Int /\ lastGrant \in {NoGrant} \cup Nat /\ txop \in Nat
    BY DEF Init, NoGrant
  <2>3. QED
    BY <1>2, <2>1, <2>2 DEF TypeOK
<1>5. TimerChain
  BY <1>2, <1>3 DEF Init, TimerChain
<1>6. QED
  BY <1>4, <1>5 DEF Init, IInv

\* Every step of the manager and of the scheduler preserves it.
LEMMA NextIInv ==
  ASSUME IInv, [Next]_vars
  PROVE  IInv'
<1>0. /\ events = <<events[1]>>
      /\ events[1] \in Event
      /\ DOMAIN events = {1}
      /\ changeStateTime \in Nat
      /\ events[1].at = changeStateTime
      /\ events[1].held
  BY ChainFacts
<1>1. CASE RequestAccess
  <2>1. CASE grant
    <3>1. IsRunning(events)
      BY <1>0 DEF IsRunning
    <3>2. /\ grant' = TRUE /\ events' = events /\ changeStateTime' = changeStateTime
          /\ txop' = changeStateTime /\ lastGrant' = changeStateTime /\ call' = FALSE
      BY <1>1, <2>1, <3>1 DEF RequestAccess, Start
    <3>3. fault' \in {"none", "CallReentered"}
      BY <1>1 DEF RequestAccess
    <3>4. events[1].kind = "ShutDown"
      BY <2>1 DEF IInv, TimerChain
    <3>5. QED
      BY <1>0, <3>2, <3>3, <3>4 DEF IInv, TypeOK, TimerChain, NoGrant
  <2>2. CASE ~grant
    <3>1. /\ call' = TRUE /\ lastGrant' = NoGrant
          /\ UNCHANGED <<grant, events, changeStateTime, txop>>
          /\ fault' \in {"none", "CallReentered"}
      BY <1>1, <2>2 DEF RequestAccess
    <3>2. (call => ~grant)'
      BY <2>2, <3>1
    <3>3. QED
      BY <3>1, <3>2 DEF IInv, TypeOK, TimerChain, NoGrant
  <2>3. QED
    BY <2>1, <2>2
<1>2. CASE Cancel
  BY <1>2 DEF Cancel, IInv, TypeOK, TimerChain, NoGrant
<1>3. CASE FireEvent
  <2>1. PICK i \in DueNext :
          IF events[i].kind = "Start" THEN Start(Drop(events, i), call)
                                      ELSE ShutDown(Drop(events, i))
    BY <1>3 DEF FireEvent
  <2>2. i = 1 /\ changeStateTime = 0
    BY <1>0 DEF DueNext
  <2>3. Drop(events, i) = <<>>
    BY <1>0, <2>2, DropSingle
  <2>4. UNCHANGED fault
    BY <1>3 DEF FireEvent
  <2>5. txop = 0
    BY <2>2 DEF IInv, TypeOK
  <2>6. [kind |-> "ShutDown", at |-> ChangeTime, held |-> TRUE] \in Event
        /\ [kind |-> "Start", at |-> ChangeTime, held |-> TRUE] \in Event
    BY ChangeTimeAssumption DEF Event
  <2>7. fault' \in {"none", "CallReentered"}
    BY <2>4 DEF IInv, TypeOK
  <2>8. CASE events[i].kind = "Start"
    <3>1. events' = <<[kind |-> "ShutDown", at |-> ChangeTime, held |-> TRUE]>>
      BY <2>1, <2>3, <2>8, NotRunningEmpty, ScheduleEmpty DEF Start
    <3>2. /\ grant' = TRUE
          /\ changeStateTime' = ChangeTime
          /\ lastGrant' \in {NoGrant, ChangeTime}
          /\ txop' \in {0, ChangeTime}
          /\ txop' > 0 => txop' = ChangeTime
          /\ call' = FALSE
      BY <2>1, <2>3, <2>5, <2>8, NotRunningEmpty DEF Start
    <3>3. events' \in Seq(Event) /\ Len(events') = 1
      BY <2>6, <3>1, SingleQueue
    <3>4. events'[1].held /\ events'[1].at = changeStateTime' /\ events'[1].kind = "ShutDown"
      BY <3>1, <3>2
    <3>5. TypeOK'
      <4>1. grant' \in BOOLEAN /\ call' \in BOOLEAN
        BY <3>2, Zenon
      <4>2. changeStateTime' \in Int /\ lastGrant' \in {NoGrant} \cup Nat /\ txop' \in Nat
        BY <3>2, ChangeTimeAssumption DEF NoGrant
      <4>3. QED
        BY <2>7, <3>3, <4>1, <4>2 DEF TypeOK
    <3>6. QED
      BY <3>2, <3>3, <3>4, <3>5 DEF IInv, TimerChain
  <2>9. CASE events[i].kind # "Start"
    <3>1. events' = <<[kind |-> "Start", at |-> ChangeTime, held |-> TRUE]>>
      BY <2>1, <2>3, <2>9, ScheduleEmpty DEF ShutDown
    <3>2. /\ grant' = FALSE
          /\ changeStateTime' = ChangeTime
          /\ lastGrant' = NoGrant
          /\ call' = call /\ txop' = 0
      BY <2>1, <2>3, <2>5, <2>9 DEF ShutDown
    <3>3. events' \in Seq(Event) /\ Len(events') = 1
      BY <2>6, <3>1, SingleQueue
    <3>4. events'[1].held /\ events'[1].at = changeStateTime' /\ events'[1].kind = "Start"
      BY <3>1, <3>2
    <3>5. TypeOK'
      <4>1. grant' \in BOOLEAN /\ call' \in BOOLEAN
        BY <3>2, Zenon DEF IInv, TypeOK
      <4>2. changeStateTime' \in Int /\ lastGrant' \in {NoGrant} \cup Nat /\ txop' \in Nat
        BY <3>2, ChangeTimeAssumption DEF NoGrant
      <4>3. QED
        BY <2>7, <3>3, <4>1, <4>2 DEF TypeOK
    <3>6. QED
      BY <3>2, <3>3, <3>4, <3>5 DEF IInv, TimerChain
  <2>10. QED
    BY <2>8, <2>9
<1>4. CASE AdvanceTime
  <2>1. changeStateTime > 0
    BY <1>0, <1>4 DEF AdvanceTime
  <2>2. DEFINE e == [kind |-> events[1].kind, at |-> events[1].at - 1, held |-> events[1].held]
  <2>3. e \in Event /\ e.kind = events[1].kind /\ e.at = changeStateTime - 1 /\ e.held
    BY <1>0, <2>1 DEF Event
  <2>4. events' = <<e>>
    <3>1. events' = [i \in {1} |-> e]
      BY <1>0, <1>4 DEF AdvanceTime
    <3>2. [i \in {1} |-> e] = <<e>>
      OBVIOUS
    <3>3. QED
      BY <3>1, <3>2
  <2>5. /\ changeStateTime' = changeStateTime - 1
        /\ txop' = IF txop > 0 THEN txop - 1 ELSE 0
        /\ lastGrant' = NoGrant
        /\ UNCHANGED <<grant, call, fault>>
    BY <1>4, <2>1 DEF AdvanceTime
  <2>6. events' \in Seq(Event) /\ Len(events') = 1
    BY <2>3, <2>4, SingleQueue
  <2>7. events'[1] = e
    BY <2>4
  <2>8. TypeOK'
    BY <2>1, <2>5, <2>6 DEF IInv, TypeOK, NoGrant
  <2>9. TimerChain'
    BY <2>3, <2>5, <2>6, <2>7 DEF IInv, TimerChain
  <2>10. (txop > 0 => grant /\ txop = changeStateTime)'
    BY <2>5 DEF IInv
  <2>11. (call => ~grant)'
    BY <2>5, Zenon DEF IInv
  <2>12. QED
    BY <2>8, <2>9, <2>10, <2>11 DEF IInv
<1>5. CASE UNCHANGED vars
  BY <1>5 DEF vars, IInv, TypeOK, TimerChain
<1>6. QED
  BY <1>1, <1>2, <1>3, <1>4, <1>5 DEF Next

-----------------------------------------------------------------------------

\* The invariant holds in every reachable state.
THEOREM IInvInvariant == Spec => []IInv
<1>1. Init => IInv
  BY InitIInv
<1>2. IInv /\ [Next]_vars => IInv'
  BY NextIInv
<1>3. QED
  BY <1>1, <1>2, PTL DEF Spec

\* Type correctness of the manager's fields and of its event queue.
THEOREM TypeCorrect == Spec => []TypeOK
<1>1. IInv => TypeOK
  BY DEF IInv
<1>2. QED
  BY <1>1, IInvInvariant, PTL

\* Start and ShutDown keep exactly one change event pending, held by
\* m_changeStateEvent and switching to the other phase at
\* m_changeStateTime, for every value of m_changeTime.
THEOREM TimerChainInvariant == Spec => []TimerChain
<1>1. IInv => TimerChain
  BY DEF IInv
<1>2. QED
  BY <1>1, IInvInvariant, PTL

\* A TXOP granted by Start runs exactly until the pending ShutDown ends
\* the on period, for every value of m_changeTime.
THEOREM TxopWithinOnPeriodInvariant == Spec => []TxopWithinOnPeriod
<1>1. IInv => TxopWithinOnPeriod
  <2> SUFFICES ASSUME IInv, txop > 0
               PROVE  \E i \in DOMAIN events : events[i].kind = "ShutDown" /\ events[i].at = txop
    BY DEF IInv, TxopWithinOnPeriod
  <2>1. DOMAIN events = {1} /\ events[1].at = changeStateTime
    BY ChainFacts
  <2>2. events[1].kind = "ShutDown" /\ txop = changeStateTime
    BY DEF IInv, TimerChain
  <2>3. QED
    BY <2>1, <2>2
<1>2. QED
  BY <1>1, IInvInvariant, PTL

\* m_call is set only while off, with the Start that serves it pending,
\* for every value of m_changeTime.
THEOREM CallWaitsForStartInvariant == Spec => []CallWaitsForStart
<1>1. IInv => CallWaitsForStart
  <2> SUFFICES ASSUME IInv, call
               PROVE  ~grant /\ \E i \in DOMAIN events : events[i].kind = "Start" /\ events[i].held
    BY DEF CallWaitsForStart
  <2>1. ~grant
    BY Zenon DEF IInv
  <2>2. DOMAIN events = {1} /\ events[1] \in Event /\ events[1].held
    BY ChainFacts
  <2>3. events[1].kind = "Start"
    BY <2>1, <2>2 DEF IInv, TimerChain, Event
  <2>4. QED
    BY <2>1, <2>2, <2>3
<1>2. QED
  BY <1>1, IInvInvariant, PTL


-----------------------------------------------------------------------------
(* The manager implements the duty cycle OnOffDutyCycle.                   *)

\* The abstract state of the initial state is the abstract initial state.
LEMMA InitDutyCycle == Init => DutyCycle!Init
BY DEF Init, DutyCycle!Init, NoGrant, DutyCycle!NoGrant

\* RequestAccess is a request of the duty cycle, whether it finds the
\* manager on (Start with the switch still held) or off.
LEMMA RequestAccessRefines ==
  ASSUME IInv, RequestAccess
  PROVE  DutyCycle!Request
<1>0. events = <<events[1]>> /\ DOMAIN events = {1} /\ events[1].held
  BY ChainFacts
<1>1. CASE grant
  <2>1. IsRunning(events)
    BY <1>0 DEF IsRunning
  <2>2. /\ grant' = TRUE /\ changeStateTime' = changeStateTime
        /\ lastGrant' = changeStateTime /\ call' = FALSE
    BY <1>1, <2>1 DEF RequestAccess, Start
  <2>3. grant' = grant
    BY <1>1, <2>2, Zenon
  <2>4. QED
    BY <1>1, <2>2, <2>3 DEF DutyCycle!Request
<1>2. CASE ~grant
  <2>1. /\ call' = TRUE /\ lastGrant' = NoGrant
        /\ UNCHANGED <<grant, changeStateTime>>
    BY <1>2 DEF RequestAccess
  <2>2. QED
    BY <1>2, <2>1 DEF DutyCycle!Request, NoGrant, DutyCycle!NoGrant
<1>3. QED
  BY <1>1, <1>2

\* The change event that fires is the switch of the duty cycle: Start
\* turns the channel on and serves a waiting call, ShutDown turns it off.
LEMMA FireEventRefines ==
  ASSUME IInv, FireEvent
  PROVE  DutyCycle!Switch
<1>0. /\ events = <<events[1]>>
      /\ events[1] \in Event
      /\ DOMAIN events = {1}
      /\ events[1].at = changeStateTime
  BY ChainFacts
<1>1. PICK i \in DueNext :
        IF events[i].kind = "Start" THEN Start(Drop(events, i), call)
                                    ELSE ShutDown(Drop(events, i))
  BY DEF FireEvent
<1>2. i = 1 /\ changeStateTime = 0
  BY <1>0 DEF DueNext
<1>3. Drop(events, i) = <<>>
  BY <1>0, <1>2, DropSingle
<1>4. CASE events[i].kind = "Start"
  <2>1. ~grant
    BY <1>2, <1>4 DEF IInv, TimerChain
  <2>2. /\ grant' = TRUE
        /\ changeStateTime' = ChangeTime
        /\ lastGrant' = IF call THEN ChangeTime ELSE NoGrant
        /\ call' = FALSE
    BY <1>1, <1>3, <1>4, NotRunningEmpty DEF Start
  <2>3. grant' = ~grant
    BY <2>1, <2>2, Zenon
  <2>4. CASE call
    BY <1>2, <2>1, <2>2, <2>3, <2>4 DEF DutyCycle!Switch
  <2>5. CASE ~call
    <3>1. call' = call
      BY <2>2, <2>5, Zenon DEF IInv, TypeOK
    <3>2. QED
      BY <1>2, <2>1, <2>2, <2>3, <2>5, <3>1 DEF DutyCycle!Switch, NoGrant, DutyCycle!NoGrant
  <2>6. QED
    BY <2>4, <2>5
<1>5. CASE events[i].kind # "Start"
  <2>1. grant
    BY <1>2, <1>5, <1>0 DEF IInv, TimerChain, Event
  <2>2. /\ grant' = FALSE
        /\ changeStateTime' = ChangeTime
        /\ lastGrant' = NoGrant
        /\ call' = call
    BY <1>1, <1>3, <1>5 DEF ShutDown
  <2>3. grant' = ~grant
    BY <2>1, <2>2, Zenon
  <2>4. QED
    BY <1>2, <2>1, <2>2, <2>3 DEF DutyCycle!Switch, NoGrant, DutyCycle!NoGrant
<1>6. QED
  BY <1>4, <1>5

\* Every step of the manager is a step of the duty cycle or leaves the
\* abstract state alone.
LEMMA NextRefinesDutyCycle ==
  ASSUME IInv, [Next]_vars
  PROVE  [DutyCycle!Next]_DutyCycle!avars
<1>1. CASE RequestAccess
  BY <1>1, RequestAccessRefines DEF DutyCycle!Next
<1>2. CASE Cancel
  BY <1>2 DEF Cancel, DutyCycle!Next, DutyCycle!Withdraw, NoGrant, DutyCycle!NoGrant
<1>3. CASE FireEvent
  BY <1>3, FireEventRefines DEF DutyCycle!Next
<1>4. CASE AdvanceTime
  <2>1. changeStateTime > 0
    <3>1. DOMAIN events = {1} /\ events[1].at = changeStateTime
      BY ChainFacts
    <3>2. QED
      BY <1>4, <3>1 DEF AdvanceTime
  <2>2. /\ changeStateTime' = changeStateTime - 1
        /\ lastGrant' = NoGrant
        /\ UNCHANGED <<grant, call>>
    BY <1>4, <2>1 DEF AdvanceTime
  <2>3. QED
    BY <2>1, <2>2 DEF DutyCycle!Next, DutyCycle!Tick, NoGrant, DutyCycle!NoGrant
<1>5. CASE UNCHANGED vars
  BY <1>5 DEF vars, DutyCycle!avars
<1>6. QED
  BY <1>1, <1>2, <1>3, <1>4, <1>5 DEF Next

\* For every m_changeTime, the Start/ShutDown chain of the On/Off manager
\* implements the duty cycle it promises: it switches exactly every
\* m_changeTime, and every grant is the remaining on time (RequestAccess)
\* or the whole period (Start serving a waiting call).
THEOREM DutyCycleRefinement == Spec => ImplementsDutyCycle
<1>1. Init => DutyCycle!Init
  BY InitDutyCycle
<1>2. IInv /\ [Next]_vars => [DutyCycle!Next]_DutyCycle!avars
  BY NextRefinesDutyCycle
<1>3. QED
  BY <1>1, <1>2, IInvInvariant, PTL DEF Spec, ImplementsDutyCycle, DutyCycle!Spec

=============================================================================
