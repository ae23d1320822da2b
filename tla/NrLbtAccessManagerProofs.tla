---------------------- MODULE NrLbtAccessManagerProofs ----------------------
(***************************************************************************)
(* Proofs about the Listen-Before-Talk access manager for every value of   *)
(* its constants: the state keeps its types, which says that every timer  *)
(* is scheduled with a non-negative delay, that the backoff counter never  *)
(* goes negative in the decrement loop of TransitionToBusy, and that the   *)
(* busy bookkeeping stays within the longest reported busy period.         *)
(***************************************************************************)
EXTENDS NrLbtAccessManager, SequenceTheorems, TLAPS

-----------------------------------------------------------------------------
(* The scheduler queue keeps its type.                                     *)

\* Scheduling an event of a known kind with a non-negative delay.
LEMMA ScheduleType ==
  ASSUME NEW evs \in Seq(Event), NEW k \in Kinds, NEW d \in Nat
  PROVE  Schedule(evs, k, d) \in Seq(Event)
<1> DEFINE f == [i \in DOMAIN evs |-> IF evs[i].kind = k
                                        THEN [kind |-> k, at |-> evs[i].at, held |-> FALSE]
                                        ELSE evs[i]]
<1>1. DOMAIN evs = 1 .. Len(evs) /\ Len(evs) \in Nat
  BY LenProperties
<1>2. \A i \in 1 .. Len(evs) : evs[i] \in Event
  BY ElementOfSeq
<1>3. \A i \in 1 .. Len(evs) : f[i] \in Event
  BY <1>1, <1>2 DEF Event
<1>4. f \in Seq(Event)
  BY <1>1, <1>3
<1>5. [kind |-> k, at |-> d, held |-> TRUE] \in Event
  BY DEF Event
<1>6. QED
  BY <1>4, <1>5, AppendProperties DEF Schedule

\* Removing one event of the queue.
LEMMA DropType ==
  ASSUME NEW evs \in Seq(Event), NEW i \in DOMAIN evs
  PROVE  Drop(evs, i) \in Seq(Event)
<1>1. DOMAIN evs = 1 .. Len(evs) /\ Len(evs) \in Nat
  BY LenProperties
<1>2. \A j \in 1 .. Len(evs) : evs[j] \in Event
  BY ElementOfSeq
<1>3. Len(evs) - 1 \in Nat
  BY <1>1
<1>4. \A j \in 1 .. Len(evs) - 1 : (IF j < i THEN evs[j] ELSE evs[j + 1]) \in Event
  BY <1>1, <1>2
<1>5. QED
  BY <1>3, <1>4 DEF Drop

\* Cancelling the held event of kind k, if there is one.
LEMMA CancelEventType ==
  ASSUME NEW evs \in Seq(Event), NEW k
  PROVE  CancelEvent(evs, k) \in Seq(Event)
<1>1. CASE IsRunning(evs, k)
  <2>1. (CHOOSE i \in HeldAt(evs, k) : TRUE) \in DOMAIN evs
    BY <1>1 DEF IsRunning, HeldAt
  <2>2. QED
    BY <1>1, <2>1, DropType DEF CancelEvent
<1>2. CASE ~IsRunning(evs, k)
  BY <1>2 DEF CancelEvent
<1>3. QED
  BY <1>1, <1>2

\* One time unit passes when no event is due now.
LEMMA ShiftType ==
  ASSUME NEW evs \in Seq(Event), \A i \in DOMAIN evs : evs[i].at > 0
  PROVE  [i \in DOMAIN evs |-> [kind |-> evs[i].kind, at |-> evs[i].at - 1,
                                held |-> evs[i].held]] \in Seq(Event)
<1>1. DOMAIN evs = 1 .. Len(evs) /\ Len(evs) \in Nat
  BY LenProperties
<1>2. \A i \in 1 .. Len(evs) : evs[i] \in Event
  BY ElementOfSeq
<1>3. QED
  BY <1>1, <1>2 DEF Event

-----------------------------------------------------------------------------
(* Arithmetic of the handlers.                                             *)

\* The modulus of the uint32_t window arithmetic is positive.
LEMMA ModulusPositive == 2^CwWidth \in Nat \ {0}
<1>1. Cat4MinCw \in 0 .. 2^CwWidth - 1
  BY WindowAssumption
<1>2. 2^CwWidth \in Int
  BY WindowAssumption
<1>3. QED
  BY <1>1, <1>2

\* The decrement loop of TransitionToBusy removes between none and all of
\* the remaining slots.
LEMMA SlotsConsumedRange ==
  ASSUME NEW e \in Nat, NEW c \in Nat
  PROVE  SlotsConsumed(e, c) \in 0 .. c
<1>1. CASE e > 0
  <2>1. (e + SlotTime - 1) \div SlotTime \in Nat
    BY <1>1, TimingAssumption
  <2>2. QED
    BY <1>1, <2>1 DEF SlotsConsumed, MinOf
<1>2. CASE ~(e > 0)
  BY <1>2 DEF SlotsConsumed
<1>3. QED
  BY <1>1, <1>2

\* The Cat4 window and attempt counter after evaluating the feedback.
LEMMA Cat4WindowType ==
  ASSUME NEW w \in Nat, NEW a \in Nat, NEW n \in Nat, NEW att \in Nat
  PROVE  /\ Cat4Window(w, a, n, att).cw \in Nat
         /\ Cat4Window(w, a, n, att).att \in Nat
<1>1. UpdateFailedCw(w) \in Nat
  <2>1. (2 * (w + 1) - 1) % (2^CwWidth) \in Nat
    BY ModulusPositive
  <2>2. QED
    BY <2>1, WindowAssumption DEF UpdateFailedCw, MinOf
<1>2. ResetCw(w, att).cw \in Nat /\ ResetCw(w, att).att \in Nat
  BY WindowAssumption DEF ResetCw
<1>3. QED
  BY <1>1, <1>2 DEF Cat4Window

-----------------------------------------------------------------------------
(* The handlers keep the fields they set within their types.               *)

\* The fields TransitionToBusy and the timer handlers set.
StepOK ==
  /\ state \in LbtStates
  /\ backoffCount \in Nat
  /\ grantRequested \in BOOLEAN
  /\ events \in Seq(Event)
  /\ lastBusyTime \in -DeferTime .. MaxBusy
  /\ fault \in Faults
  /\ lastCb \in {"none", "grant", "deny"}

\* TransitionToBusy (d) for a busy period the PHY can report or the one
\* m_lastBusyTime still holds.
LEMMA TransitionToBusyType ==
  ASSUME TypeOK, NEW d \in 1 .. MaxBusy, NEW bc \in Nat, NEW gr \in BOOLEAN,
         NEW evs \in Seq(Event), TransitionToBusy(d, bc, gr, evs)
  PROVE  StepOK'
<1> USE TimingAssumption
<1>1. /\ Schedule(evs, "busy", d) \in Seq(Event)
      /\ Schedule(CancelEvent(evs, "defer"), "busy", d) \in Seq(Event)
      /\ Schedule(CancelEvent(evs, "backoff"), "busy", d) \in Seq(Event)
  <2>1. "busy" \in Kinds /\ d \in Nat
    BY DEF Kinds
  <2>2. CancelEvent(evs, "defer") \in Seq(Event) /\ CancelEvent(evs, "backoff") \in Seq(Event)
    BY CancelEventType
  <2>3. QED
    BY <2>1, <2>2, ScheduleType
<1>2. MaxOf(lastBusyTime, d) \in 1 .. MaxBusy
  BY DEF TypeOK, MaxOf
<1>3. Schedule(evs, "busy", MaxOf(lastBusyTime, d)) \in Seq(Event)
  BY <1>2, ScheduleType DEF Kinds
<1>4. bc - SlotsConsumed(backoffElapsed, bc) \in Nat
  <2>1. backoffElapsed \in Nat
    BY DEF TypeOK
  <2>2. SlotsConsumed(backoffElapsed, bc) \in 0 .. bc
    BY <2>1, SlotsConsumedRange
  <2>3. QED
    BY <2>2
<1>6. ASSUME BaseTransitionToBusy(d, bc, gr, evs) PROVE StepOK'
  <2>1. CASE state \in {"IDLE", "TXOP_GRANTED"}
    <3>1. /\ fault' = IF state = "IDLE" THEN Assert(bc = 0, "IdleBackoffNonZero") ELSE "none"
          /\ events' = Schedule(evs, "busy", d) /\ lastBusyTime' = d /\ state' = "BUSY"
          /\ backoffCount' = bc /\ grantRequested' = gr /\ lastCb' = "none"
      BY <1>6, <2>1 DEF BaseTransitionToBusy, GoBusy
    <3>2. fault' \in Faults
      BY <3>1 DEF Assert, Faults
    <3>3. QED
      BY <1>1, <3>1, <3>2 DEF StepOK, LbtStates
  <2>2. CASE state = "BUSY"
    <3>1. BusyExtended(d, bc, gr, evs)
      BY <1>6, <2>2 DEF BaseTransitionToBusy
    <3>2. /\ lastBusyTime' = MaxOf(lastBusyTime, d)
          /\ events' \in {evs, Schedule(evs, "busy", MaxOf(lastBusyTime, d))}
          /\ state' = "BUSY" /\ backoffCount' = bc /\ grantRequested' = gr
          /\ fault' = "none" /\ lastCb' = "none"
      BY <3>1 DEF BusyExtended
    <3>3. QED
      BY <1>2, <1>3, <3>2 DEF StepOK, LbtStates, Faults
  <2>3. CASE state = "WAIT_FOR_DEFER"
    <3>1. /\ events' = Schedule(CancelEvent(evs, "defer"), "busy", d)
          /\ lastBusyTime' = d /\ state' = "BUSY"
          /\ backoffCount' = bc /\ grantRequested' = gr
          /\ fault' = "none" /\ lastCb' = "none"
      BY <1>6, <2>3 DEF BaseTransitionToBusy, GoBusy
    <3>2. QED
      BY <1>1, <3>1 DEF StepOK, LbtStates, Faults
  <2>4. CASE state = "WAIT_FOR_BACKOFF"
    <3>1. /\ fault' = Assert(backoffElapsed < bc * SlotTime, "BackoffOverrun")
          /\ events' = Schedule(CancelEvent(evs, "backoff"), "busy", d)
          /\ lastBusyTime' = d /\ state' = "BUSY"
          /\ backoffCount' = bc - SlotsConsumed(backoffElapsed, bc)
          /\ grantRequested' = gr /\ lastCb' = "none"
      BY <1>6, <2>4 DEF BaseTransitionToBusy, GoBusy
    <3>2. fault' \in Faults
      BY <3>1 DEF Assert, Faults
    <3>3. QED
      BY <1>1, <1>4, <3>1, <3>2 DEF StepOK, LbtStates
  <2>5. CASE state \notin {"IDLE", "TXOP_GRANTED", "BUSY", "WAIT_FOR_DEFER", "WAIT_FOR_BACKOFF"}
    <3>1. /\ fault' = "UnreachableBusyState" /\ lastCb' = "none"
          /\ UNCHANGED <<state, backoffCount, grantRequested, events, lastBusyTime>>
      BY <1>6, <2>5 DEF BaseTransitionToBusy
    <3>2. QED
      BY <3>1, Zenon DEF StepOK, TypeOK, Faults
  <2>6. QED
    BY <2>1, <2>2, <2>3, <2>4, <2>5
<1>7. ASSUME Cat2TransitionToBusy(d, bc, gr, evs) PROVE StepOK'
  <2>1. CASE state = "WAIT_FOR_DEFER"
    <3>1. /\ events' = Schedule(CancelEvent(evs, "defer"), "busy", d)
          /\ lastBusyTime' = d /\ state' = "BUSY"
          /\ grantRequested' = FALSE /\ lastCb' = "deny"
          /\ backoffCount' = bc /\ fault' = "none"
      BY <1>7, <2>1 DEF Cat2TransitionToBusy, GoBusy
    <3>2. grantRequested' \in BOOLEAN /\ lastCb' \in {"none", "grant", "deny"}
      BY <3>1, Zenon
    <3>3. QED
      BY <1>1, <3>1, <3>2 DEF StepOK, LbtStates, Faults
  <2>2. CASE state = "WAIT_FOR_BACKOFF"
    <3>1. /\ fault' = "Cat2InBackoff" /\ lastCb' = "none"
          /\ UNCHANGED <<state, backoffCount, grantRequested, events, lastBusyTime>>
      BY <1>7, <2>2 DEF Cat2TransitionToBusy
    <3>2. QED
      BY <3>1, Zenon DEF StepOK, TypeOK, Faults
  <2>3. CASE state \notin {"WAIT_FOR_DEFER", "WAIT_FOR_BACKOFF"}
    BY <1>6, <1>7, <2>3 DEF Cat2TransitionToBusy
  <2>4. QED
    BY <2>1, <2>2, <2>3
<1>8. QED
  BY <1>6, <1>7 DEF TransitionToBusy

\* The handler of a defer event that fired, run with the rest of the queue.
LEMMA RequestAccessAfterDeferType ==
  ASSUME TypeOK, NEW evs \in Seq(Event), RequestAccessAfterDefer(evs)
  PROVE  StepOK' /\ backoffElapsed' \in Nat
<1> USE TimingAssumption
<1>1. /\ Schedule(evs, "backoff", SlotTime * backoffCount) \in Seq(Event)
      /\ Schedule(evs, "defer", DeferTime) \in Seq(Event)
  <2>1. "backoff" \in Kinds /\ "defer" \in Kinds /\ SlotTime * backoffCount \in Nat
    BY DEF Kinds, TypeOK
  <2>2. QED
    BY <2>1, ScheduleType
<1>2. ASSUME BaseRequestAccessAfterDefer(evs) PROVE StepOK' /\ backoffElapsed' \in Nat
  <2>1. CASE state = "WAIT_FOR_DEFER" /\ backoffCount = 0
    <3>1. /\ state' = "TXOP_GRANTED" /\ grantRequested' = FALSE /\ lastCb' = "grant"
          /\ events' = evs /\ fault' = "none"
          /\ UNCHANGED <<backoffElapsed, backoffCount, lastBusyTime>>
      BY <1>2, <2>1 DEF BaseRequestAccessAfterDefer, SetGrant
    <3>2. QED
      BY <3>1 DEF StepOK, TypeOK, LbtStates, Faults
  <2>2. CASE state = "WAIT_FOR_DEFER" /\ backoffCount # 0
    <3>1. /\ state' = "WAIT_FOR_BACKOFF" /\ backoffElapsed' = 0
          /\ events' = Schedule(evs, "backoff", SlotTime * backoffCount)
          /\ fault' = "none" /\ lastCb' = "none"
          /\ UNCHANGED <<grantRequested, backoffCount, lastBusyTime>>
      BY <1>2, <2>2 DEF BaseRequestAccessAfterDefer
    <3>2. QED
      BY <1>1, <3>1 DEF StepOK, TypeOK, LbtStates, Faults
  <2>3. CASE state # "WAIT_FOR_DEFER"
    <3>1. /\ state' = "WAIT_FOR_DEFER"
          /\ events' = Schedule(evs, "defer", DeferTime)
          /\ fault' = "none" /\ lastCb' = "none"
          /\ UNCHANGED <<grantRequested, backoffElapsed, backoffCount, lastBusyTime>>
      BY <1>2, <2>3 DEF BaseRequestAccessAfterDefer
    <3>2. QED
      BY <1>1, <3>1 DEF StepOK, TypeOK, LbtStates, Faults
  <2>4. QED
    BY <2>1, <2>2, <2>3
<1>3. ASSUME Cat2RequestAccessAfterDefer(evs) PROVE StepOK' /\ backoffElapsed' \in Nat
  <2>1. CASE state = "WAIT_FOR_DEFER"
    <3>1. /\ state' = "TXOP_GRANTED" /\ grantRequested' = FALSE /\ lastCb' = "grant"
          /\ events' = evs /\ fault' = "none"
          /\ UNCHANGED <<backoffElapsed, backoffCount, lastBusyTime>>
      BY <1>3, <2>1 DEF Cat2RequestAccessAfterDefer, SetGrant
    <3>2. QED
      BY <3>1 DEF StepOK, TypeOK, LbtStates, Faults
  <2>2. CASE state # "WAIT_FOR_DEFER"
    <3>1. /\ fault' = "Cat2DeferNotInDefer" /\ lastCb' = "none" /\ events' = evs
          /\ UNCHANGED <<state, grantRequested, backoffElapsed, backoffCount, lastBusyTime>>
      BY <1>3, <2>2 DEF Cat2RequestAccessAfterDefer
    <3>2. QED
      BY <3>1 DEF StepOK, TypeOK, Faults
  <2>3. QED
    BY <2>1, <2>2
<1>4. QED
  BY <1>2, <1>3 DEF RequestAccessAfterDefer

\* The handler of a backoff event that fired.
LEMMA RequestAccessAfterBackoffType ==
  ASSUME TypeOK, NEW evs \in Seq(Event), RequestAccessAfterBackoff(evs)
  PROVE  StepOK' /\ backoffElapsed' \in Nat
<1>1. CASE state = "WAIT_FOR_BACKOFF"
  <2>1. /\ state' = "TXOP_GRANTED" /\ grantRequested' = FALSE /\ lastCb' = "grant"
        /\ backoffCount' = 0 /\ fault' = "none" /\ events' = evs
        /\ UNCHANGED <<lastBusyTime, backoffElapsed>>
    BY <1>1 DEF RequestAccessAfterBackoff, SetGrant
  <2>2. QED
    BY <2>1 DEF StepOK, TypeOK, LbtStates, Faults
<1>2. CASE state # "WAIT_FOR_BACKOFF"
  <2>1. /\ fault' = "BackoffEventNotInBackoff" /\ lastCb' = "none" /\ events' = evs
        /\ UNCHANGED <<state, grantRequested, backoffCount, lastBusyTime, backoffElapsed>>
    BY <1>2 DEF RequestAccessAfterBackoff
  <2>2. QED
    BY <2>1 DEF StepOK, TypeOK, Faults
<1>3. QED
  BY <1>1, <1>2

\* The handler of a busy event that fired.
LEMMA TransitionFromBusyType ==
  ASSUME TypeOK, NEW evs \in Seq(Event), TransitionFromBusy(evs)
  PROVE  StepOK' /\ backoffElapsed' \in Nat
<1>1. CASE lastBusyTime > 0
  <2>1. Schedule(evs, "busy", lastBusyTime) \in Seq(Event)
    <3>1. "busy" \in Kinds /\ lastBusyTime \in Nat
      BY <1>1 DEF Kinds, TypeOK
    <3>2. QED
      BY <3>1, ScheduleType
  <2>2. /\ events' = Schedule(evs, "busy", lastBusyTime) /\ state' = "BUSY"
        /\ fault' = "none" /\ lastCb' = "none"
        /\ UNCHANGED <<backoffCount, grantRequested, lastBusyTime, backoffElapsed>>
    BY <1>1 DEF TransitionFromBusy
  <2>3. QED
    BY <2>1, <2>2 DEF StepOK, TypeOK, LbtStates, Faults
<1>2. CASE ~(lastBusyTime > 0) /\ grantRequested
  <2>1. Schedule(evs, "defer", DeferTime) \in Seq(Event)
    <3>1. "defer" \in Kinds /\ DeferTime \in Nat
      BY TimingAssumption DEF Kinds
    <3>2. QED
      BY <3>1, ScheduleType
  <2>2. /\ events' = Schedule(evs, "defer", DeferTime) /\ state' = "WAIT_FOR_DEFER"
        /\ fault' = "none" /\ lastCb' = "none"
        /\ UNCHANGED <<backoffCount, grantRequested, lastBusyTime, backoffElapsed>>
    BY <1>2 DEF TransitionFromBusy
  <2>3. QED
    BY <2>1, <2>2 DEF StepOK, TypeOK, LbtStates, Faults
<1>3. CASE ~(lastBusyTime > 0) /\ ~grantRequested
  <2>1. /\ events' = evs /\ state' = "IDLE"
        /\ fault' = "none" /\ lastCb' = "none"
        /\ UNCHANGED <<backoffCount, grantRequested, lastBusyTime, backoffElapsed>>
    BY <1>3 DEF TransitionFromBusy
  <2>2. QED
    BY <2>1 DEF StepOK, TypeOK, LbtStates, Faults
<1>4. QED
  BY <1>1, <1>2, <1>3

\* The Cat4 counters of the window update.
Cat4OK == cw \in Nat /\ acks \in Nat /\ nacks \in Nat /\ numberOfAttempts \in Nat

\* The slow path of RequestAccess after the draw n.
LEMMA BaseRequestAccessSlowType ==
  ASSUME TypeOK, NEW n \in Nat, BaseRequestAccessSlow(n)
  PROVE  StepOK'
<1>1. CASE state = "IDLE"
  <2>1. Schedule(events, "defer", DeferTime + lastBusyTime) \in Seq(Event)
    <3>1. "defer" \in Kinds /\ DeferTime + lastBusyTime \in Nat /\ events \in Seq(Event)
      BY TimingAssumption DEF Kinds, TypeOK
    <3>2. QED
      BY <3>1, ScheduleType
  <2>2. /\ events' = Schedule(events, "defer", DeferTime + lastBusyTime)
        /\ state' = "WAIT_FOR_DEFER" /\ backoffCount' = n /\ grantRequested' = TRUE
        /\ fault' = "none" /\ lastCb' = "none" /\ UNCHANGED lastBusyTime
    BY <1>1 DEF BaseRequestAccessSlow
  <2>3. QED
    BY <2>1, <2>2 DEF StepOK, TypeOK, LbtStates, Faults
<1>2. CASE state # "IDLE" /\ lastBusyTime > 0
  <2>1. lastBusyTime \in 1 .. MaxBusy /\ events \in Seq(Event) /\ TRUE \in BOOLEAN
    BY <1>2 DEF TypeOK
  <2>2. TransitionToBusy(lastBusyTime, n, TRUE, events)
    BY <1>2 DEF BaseRequestAccessSlow
  <2>3. QED
    BY <2>1, <2>2, TransitionToBusyType
<1>3. CASE state # "IDLE" /\ ~(lastBusyTime > 0)
  <2>1. /\ backoffCount' = n /\ grantRequested' = TRUE
        /\ fault' = "none" /\ lastCb' = "none"
        /\ UNCHANGED <<state, events, lastBusyTime>>
    BY <1>3 DEF BaseRequestAccessSlow
  <2>2. QED
    BY <2>1 DEF StepOK, TypeOK, Faults
<1>4. QED
  BY <1>1, <1>2, <1>3

\* RequestAccess of Cat3 and Cat4, with the window update and the draw.
LEMMA BaseRequestAccessType ==
  ASSUME TypeOK, BaseRequestAccess
  PROVE  StepOK' /\ backoffElapsed' \in Nat /\ Cat4OK'
<1> DEFINE w0 == InitializedCw
           win == IF Category = "Cat4" THEN Cat4Window(w0, acks, nacks, numberOfAttempts)
                                       ELSE [cw |-> w0, att |-> numberOfAttempts]
           bound == IF Category = "Cat4" THEN win.cw ELSE Cat3ContentionWindow
<1>1. w0 \in Nat /\ win.cw \in Nat /\ win.att \in Nat /\ bound \in Nat
  <2>1. w0 \in Nat
    BY WindowAssumption DEF InitializedCw, TypeOK
  <2>2. Cat4Window(w0, acks, nacks, numberOfAttempts).cw \in Nat
        /\ Cat4Window(w0, acks, nacks, numberOfAttempts).att \in Nat
    BY <2>1, Cat4WindowType DEF TypeOK
  <2>3. win.cw \in Nat /\ win.att \in Nat
    BY <2>1, <2>2 DEF TypeOK
  <2>4. QED
    BY <2>1, <2>3, WindowAssumption
<1>2. CASE grantRequested
  <2>1. /\ cw' = w0 /\ fault' = "none" /\ lastCb' = "none"
        /\ UNCHANGED <<lbtVars, acks, nacks, numberOfAttempts>>
    BY <1>2 DEF BaseRequestAccess
  <2>2. QED
    BY <1>1, <2>1 DEF lbtVars, StepOK, TypeOK, Cat4OK, Faults
<1>3. CASE ~grantRequested /\ -lastBusyTime >= DeferTime
  <2>1. /\ state' = "TXOP_GRANTED" /\ grantRequested' = FALSE /\ lastCb' = "grant"
        /\ cw' = w0 /\ fault' = "none"
        /\ UNCHANGED <<backoffCount, events, lastBusyTime, backoffElapsed,
                       acks, nacks, numberOfAttempts>>
    BY <1>3 DEF BaseRequestAccess, SetGrant
  <2>2. QED
    BY <1>1, <2>1 DEF StepOK, TypeOK, Cat4OK, LbtStates, Faults
<1>4. CASE ~grantRequested /\ ~(-lastBusyTime >= DeferTime)
  <2>1. /\ cw' = win.cw /\ numberOfAttempts' = win.att
        /\ acks' \in {0, acks} /\ nacks' \in {0, nacks}
        /\ \E n \in 0 .. bound : BaseRequestAccessSlow(n)
        /\ UNCHANGED backoffElapsed
    BY <1>4 DEF BaseRequestAccess
  <2>2. PICK n \in 0 .. bound : BaseRequestAccessSlow(n)
    BY <2>1
  <2>3. StepOK'
    BY <1>1, <2>2, BaseRequestAccessSlowType
  <2>4. QED
    BY <1>1, <2>1, <2>3 DEF TypeOK, Cat4OK
<1>5. QED
  BY <1>2, <1>3, <1>4

\* RequestAccess of Cat2.
LEMMA Cat2RequestAccessType ==
  ASSUME TypeOK, Cat2RequestAccess
  PROVE  StepOK' /\ backoffElapsed' \in Nat /\ Cat4OK'
<1>1. /\ fault' = "none"
      /\ UNCHANGED <<backoffCount, lastBusyTime, backoffElapsed, cat4Vars>>
  BY DEF Cat2RequestAccess
<1>2. /\ state' \in LbtStates /\ grantRequested' \in BOOLEAN
      /\ lastCb' \in {"none", "grant", "deny"} /\ events' \in Seq(Event)
  <2>1. CASE grantRequested
    <3>1. lastCb' = "none" /\ UNCHANGED <<state, grantRequested, events>>
      BY <2>1 DEF Cat2RequestAccess
    <3>2. QED
      BY <3>1 DEF TypeOK
  <2>2. CASE ~grantRequested /\ -lastBusyTime >= DeferTime
    <3>1. state' = "TXOP_GRANTED" /\ grantRequested' = FALSE /\ lastCb' = "grant"
          /\ UNCHANGED events
      BY <2>2 DEF Cat2RequestAccess, SetGrant
    <3>2. QED
      BY <3>1 DEF TypeOK, LbtStates
  <2>3. CASE ~grantRequested /\ ~(-lastBusyTime >= DeferTime) /\ state = "IDLE"
    <3>1. Schedule(events, "defer", DeferTime + lastBusyTime) \in Seq(Event)
      <4>1. "defer" \in Kinds /\ DeferTime + lastBusyTime \in Nat /\ events \in Seq(Event)
        BY TimingAssumption DEF Kinds, TypeOK
      <4>2. QED
        BY <4>1, ScheduleType
    <3>2. /\ events' = Schedule(events, "defer", DeferTime + lastBusyTime)
          /\ state' = "WAIT_FOR_DEFER" /\ grantRequested' = TRUE /\ lastCb' = "none"
      BY <2>3 DEF Cat2RequestAccess
    <3>3. QED
      BY <3>1, <3>2 DEF LbtStates
  <2>4. CASE ~grantRequested /\ ~(-lastBusyTime >= DeferTime) /\ state # "IDLE"
    <3>1. grantRequested' = FALSE /\ lastCb' = "deny" /\ UNCHANGED <<state, events>>
      BY <2>4 DEF Cat2RequestAccess
    <3>2. QED
      BY <3>1 DEF TypeOK
  <2>5. QED
    BY <2>1, <2>2, <2>3, <2>4
<1>3. QED
  BY <1>1, <1>2 DEF StepOK, TypeOK, Cat4OK, cat4Vars, Faults

-----------------------------------------------------------------------------
(* Type correctness.                                                       *)

\* The environment's part of the state.
EnvOK ==
  /\ initialized \in BOOLEAN
  /\ macWaiting \in BOOLEAN
  /\ cbSolicited \in BOOLEAN
  /\ busyUntil \in -DeferTime .. MaxBusy

\* TypeOK after a step, from the parts the lemmas above establish.
LEMMA TypeFromParts ==
  ASSUME StepOK', backoffElapsed' \in Nat, Cat4OK', EnvOK'
  PROVE  TypeOK'
BY DEF StepOK, Cat4OK, EnvOK, TypeOK

\* The callbacks a step makes reach the MAC.
LEMMA MacObservesType ==
  ASSUME TypeOK, MacObserves, lastCb' \in {"none", "grant", "deny"}
  PROVE  macWaiting' \in BOOLEAN /\ cbSolicited' \in BOOLEAN
BY DEF MacObserves, TypeOK

\* The initial state of a freshly constructed manager is well typed.
LEMMA InitTypeOK == Init => TypeOK
<1> SUFFICES ASSUME Init PROVE TypeOK
  OBVIOUS
<1>1. events \in Seq(Event)
  BY DEF Init
<1>2. state \in LbtStates /\ backoffCount \in Nat
  BY DEF Init, LbtStates
<1>3. cw \in Nat
  BY WindowAssumption DEF Init
<1>4. /\ grantRequested \in BOOLEAN /\ initialized \in BOOLEAN
      /\ macWaiting \in BOOLEAN /\ cbSolicited \in BOOLEAN
      /\ fault \in Faults /\ lastCb \in {"none", "grant", "deny"}
  BY EnvironmentAssumption, Zenon DEF Init, Faults
<1>5. /\ lastBusyTime \in -DeferTime .. MaxBusy /\ busyUntil \in -DeferTime .. MaxBusy
      /\ backoffElapsed \in Nat /\ acks \in Nat /\ nacks \in Nat /\ numberOfAttempts \in Nat
  BY TimingAssumption DEF Init
<1>6. QED
  BY <1>1, <1>2, <1>3, <1>4, <1>5 DEF TypeOK

\* Every step of the manager and of its environment keeps the types.
LEMMA NextTypeOK ==
  ASSUME TypeOK, [Next]_vars
  PROVE  TypeOK'
<1>1. CASE RequestAccess
  <2>1. StepOK' /\ backoffElapsed' \in Nat /\ Cat4OK'
    BY <1>1, BaseRequestAccessType, Cat2RequestAccessType DEF RequestAccess
  <2>2. EnvOK'
    BY <1>1, <2>1 DEF RequestAccess, StepOK, EnvOK, TypeOK
  <2>3. QED
    BY <2>1, <2>2, TypeFromParts
<1>2. CASE Cancel
  <2>1. /\ grantRequested' = FALSE /\ macWaiting' = FALSE /\ lastCb' = "none"
        /\ cbSolicited' = TRUE
        /\ UNCHANGED <<state, backoffCount, events, lastBusyTime, backoffElapsed,
                       cat4Vars, initialized, fault, busyUntil>>
    BY <1>2 DEF Cancel
  <2>2. QED
    BY <2>1 DEF TypeOK, cat4Vars
<1>3. CASE ChannelOccupied
  <2>1. PICK d \in 1 .. MaxBusy :
          /\ TransitionToBusy(d, backoffCount, grantRequested, events)
          /\ busyUntil' = MaxOf(busyUntil, d)
    BY <1>3 DEF ChannelOccupied
  <2>2. StepOK'
    BY <2>1, TransitionToBusyType DEF TypeOK
  <2>3. busyUntil' \in -DeferTime .. MaxBusy
    BY <2>1, TimingAssumption DEF TypeOK, MaxOf
  <2>4. UNCHANGED <<backoffElapsed, cat4Vars, initialized>>
    BY <1>3 DEF ChannelOccupied
  <2>5. macWaiting' \in BOOLEAN /\ cbSolicited' \in BOOLEAN
    BY <1>3, <2>2, MacObservesType DEF ChannelOccupied, StepOK
  <2>6. QED
    BY <2>2, <2>3, <2>5, <2>4, TypeFromParts DEF TypeOK, Cat4OK, EnvOK, cat4Vars
<1>4. CASE DlHarqFeedback
  <2>1. /\ acks' \in Nat /\ nacks' \in Nat /\ lastCb' = "none"
        /\ UNCHANGED <<lbtVars, cw, numberOfAttempts, initialized, fault, busyUntil>>
        /\ MacObserves
    BY <1>4 DEF DlHarqFeedback, TypeOK
  <2>2. macWaiting' \in BOOLEAN /\ cbSolicited' \in BOOLEAN
    BY <2>1, MacObservesType
  <2>3. QED
    BY <2>1, <2>2 DEF TypeOK, lbtVars
<1>5. CASE Initialize
  <2>1. /\ initialized' = TRUE /\ cw' \in Nat /\ lastCb' = "none"
        /\ UNCHANGED <<lbtVars, acks, nacks, numberOfAttempts, fault, busyUntil>>
        /\ MacObserves
    BY <1>5, WindowAssumption DEF Initialize, TypeOK
  <2>2. macWaiting' \in BOOLEAN /\ cbSolicited' \in BOOLEAN
    BY <2>1, MacObservesType
  <2>3. QED
    BY <2>1, <2>2 DEF TypeOK, lbtVars
<1>6. CASE FireEvent
  <2>1. PICK i \in DueNext :
          /\ CASE events[i].kind = "defer"   -> RequestAccessAfterDefer(Drop(events, i))
               [] events[i].kind = "backoff" -> RequestAccessAfterBackoff(Drop(events, i))
               [] events[i].kind = "busy"    -> TransitionFromBusy(Drop(events, i))
          /\ UNCHANGED <<cat4Vars, initialized, busyUntil>>
          /\ MacObserves
    BY <1>6 DEF FireEvent
  <2>2. i \in DOMAIN events /\ events \in Seq(Event)
    BY DEF DueNext, TypeOK
  <2>3. events[i].kind \in Kinds
    <3>1. i \in 1 .. Len(events)
      BY <2>2, LenProperties
    <3>2. events[i] \in Event
      BY <2>2, <3>1, ElementOfSeq
    <3>3. QED
      BY <3>2 DEF Event
  <2>4. Drop(events, i) \in Seq(Event)
    BY <2>2, DropType
  <2>5. StepOK' /\ backoffElapsed' \in Nat
    <3>1. CASE events[i].kind = "defer"
      BY <2>1, <2>4, <3>1, RequestAccessAfterDeferType
    <3>2. CASE events[i].kind = "backoff"
      BY <2>1, <2>4, <3>2, RequestAccessAfterBackoffType
    <3>3. CASE events[i].kind = "busy"
      BY <2>1, <2>4, <3>3, TransitionFromBusyType
    <3>4. QED
      BY <2>3, <3>1, <3>2, <3>3 DEF Kinds
  <2>6. macWaiting' \in BOOLEAN /\ cbSolicited' \in BOOLEAN
    BY <2>1, <2>5, MacObservesType DEF StepOK
  <2>7. QED
    BY <2>1, <2>5, <2>6, TypeFromParts DEF TypeOK, Cat4OK, EnvOK, cat4Vars
<1>7. CASE AdvanceTime
  <2>1. events' \in Seq(Event)
    <3>1. events \in Seq(Event) /\ \A i \in DOMAIN events : events[i].at > 0
      BY <1>7 DEF AdvanceTime, TypeOK
    <3>2. QED
      BY <1>7, <3>1, ShiftType DEF AdvanceTime
  <2>2. /\ lastBusyTime' \in -DeferTime .. MaxBusy
        /\ busyUntil' \in -DeferTime .. MaxBusy
        /\ backoffElapsed' \in Nat
        /\ lastCb' = "none"
        /\ UNCHANGED <<state, backoffCount, grantRequested, cat4Vars, initialized, fault>>
        /\ MacObserves
    BY <1>7, TimingAssumption DEF AdvanceTime, TypeOK, MaxOf
  <2>3. macWaiting' \in BOOLEAN /\ cbSolicited' \in BOOLEAN
    BY <2>2, MacObservesType
  <2>4. QED
    BY <2>1, <2>2, <2>3, TypeFromParts DEF TypeOK, StepOK, Cat4OK, EnvOK, cat4Vars
<1>8. CASE UNCHANGED vars
  BY <1>8 DEF vars, lbtVars, cat4Vars, envVars, macVars, TypeOK
<1>9. QED
  BY <1>1, <1>2, <1>3, <1>4, <1>5, <1>6, <1>7, <1>8 DEF Next

\* The manager's fields keep their types in every reachable state, for
\* every value of the constants: in particular every timer is scheduled
\* with a non-negative delay (DeferTime + m_lastBusyTime - Now () in
\* RequestAccess, the extended busy period of TransitionToBusy), and the
\* decrement loop of TransitionToBusy never drives m_backoffCount below 0.
THEOREM TypeCorrect == Spec => []TypeOK
<1>1. Init => TypeOK
  BY InitTypeOK
<1>2. TypeOK /\ [Next]_vars => TypeOK'
  BY NextTypeOK
<1>3. QED
  BY <1>1, <1>2, PTL DEF Spec

-----------------------------------------------------------------------------
(* Timer discipline for a MAC that never calls Cancel ().                  *)

\* Every pending event is held by its EventId and no two are of one kind.
Disciplined(evs) ==
  /\ \A i \in DOMAIN evs : evs[i].held
  /\ \A i, j \in DOMAIN evs : evs[i].kind = evs[j].kind => i = j

\* The kinds of the pending events.
KindsOf(evs) == {evs[i].kind : i \in DOMAIN evs}

\* A pending busy event fires no later than m_lastBusyTime.
BusyBounded(evs, lbt) == \A i \in DOMAIN evs : evs[i].kind = "busy" => evs[i].at <= lbt

\* When every event is held, a handle runs exactly when an event of its
\* kind is pending.
LEMMA RunningIff ==
  ASSUME NEW evs \in Seq(Event), \A i \in DOMAIN evs : evs[i].held, NEW k
  PROVE  IsRunning(evs, k) <=> k \in KindsOf(evs)
BY DEF IsRunning, HeldAt, KindsOf

\* Scheduling a kind that is not pending only appends the new event.
LEMMA ScheduleFresh ==
  ASSUME NEW evs \in Seq(Event), NEW k, NEW d, k \notin KindsOf(evs)
  PROVE  Schedule(evs, k, d) = Append(evs, [kind |-> k, at |-> d, held |-> TRUE])
<1>1. DOMAIN evs = 1 .. Len(evs)
  BY LenProperties
<1>2. \A i \in DOMAIN evs : evs[i].kind # k
  BY DEF KindsOf
<1>3. [i \in DOMAIN evs |-> IF evs[i].kind = k
                              THEN [kind |-> k, at |-> evs[i].at, held |-> FALSE]
                              ELSE evs[i]] = evs
  BY <1>1, <1>2
<1>4. QED
  BY <1>3 DEF Schedule

\* Appending a held event of a kind that is not pending.
LEMMA AppendFresh ==
  ASSUME NEW evs \in Seq(Event), Disciplined(evs), NEW r \in Event, r.held,
         r.kind \notin KindsOf(evs), NEW lbt,
         BusyBounded(evs, lbt), r.kind = "busy" => r.at <= lbt
  PROVE  /\ Disciplined(Append(evs, r))
         /\ KindsOf(Append(evs, r)) = KindsOf(evs) \cup {r.kind}
         /\ BusyBounded(Append(evs, r), lbt)
<1> DEFINE s == Append(evs, r)
<1>1. /\ Len(s) = Len(evs) + 1 /\ DOMAIN s = 1 .. Len(evs) + 1
      /\ \A i \in 1 .. Len(evs) : s[i] = evs[i]
      /\ s[Len(evs) + 1] = r
      /\ DOMAIN evs = 1 .. Len(evs) /\ Len(evs) \in Nat
  BY AppendProperties, LenProperties
<1>2. \A i \in 1 .. Len(evs) : evs[i].kind # r.kind
  BY <1>1 DEF KindsOf
<1>3. Disciplined(s)
  BY <1>1, <1>2 DEF Disciplined
<1>4. KindsOf(s) = KindsOf(evs) \cup {r.kind}
  BY <1>1 DEF KindsOf
<1>5. BusyBounded(s, lbt)
  BY <1>1 DEF BusyBounded
<1>6. QED
  BY <1>3, <1>4, <1>5

\* Removing the i-th event of a disciplined queue removes its kind.
LEMMA DropFacts ==
  ASSUME NEW evs \in Seq(Event), Disciplined(evs), NEW i \in DOMAIN evs
  PROVE  /\ Disciplined(Drop(evs, i))
         /\ KindsOf(Drop(evs, i)) = KindsOf(evs) \ {evs[i].kind}
         /\ \A lbt : BusyBounded(evs, lbt) => BusyBounded(Drop(evs, i), lbt)
<1> DEFINE t == Drop(evs, i)
           g(j) == IF j < i THEN j ELSE j + 1
<1>1. DOMAIN evs = 1 .. Len(evs) /\ Len(evs) \in Nat
  BY LenProperties
<1>2. DOMAIN t = 1 .. Len(evs) - 1 /\ \A j \in DOMAIN t : t[j] = evs[g(j)]
  BY <1>1 DEF Drop
<1>3. \A j \in DOMAIN t : g(j) \in DOMAIN evs /\ g(j) # i
  BY <1>1, <1>2
<1>4. \A j1, j2 \in DOMAIN t : g(j1) = g(j2) => j1 = j2
  BY <1>2
<1>5. Disciplined(t)
  BY <1>2, <1>3, <1>4 DEF Disciplined
<1>6. KindsOf(t) \subseteq KindsOf(evs) \ {evs[i].kind}
  BY <1>2, <1>3 DEF KindsOf, Disciplined
<1>7. KindsOf(evs) \ {evs[i].kind} \subseteq KindsOf(t)
  <2> SUFFICES ASSUME NEW m \in DOMAIN evs, evs[m].kind # evs[i].kind
               PROVE  evs[m].kind \in KindsOf(t)
    BY DEF KindsOf
  <2>1. m # i
    OBVIOUS
  <2>2. CASE m < i
    BY <1>1, <1>2, <2>2 DEF KindsOf
  <2>3. CASE m > i
    <3>1. m - 1 \in DOMAIN t /\ g(m - 1) = m
      BY <1>1, <1>2, <2>3
    <3>2. QED
      BY <1>2, <3>1 DEF KindsOf
  <2>4. QED
    BY <1>1, <2>1, <2>2, <2>3
<1>8. \A lbt : BusyBounded(evs, lbt) => BusyBounded(t, lbt)
  BY <1>2, <1>3 DEF BusyBounded
<1>9. QED
  BY <1>5, <1>6, <1>7, <1>8

\* Cancelling a pending kind of a disciplined queue drops its event.
LEMMA CancelFacts ==
  ASSUME NEW evs \in Seq(Event), Disciplined(evs), NEW k \in KindsOf(evs)
  PROVE  \E i \in DOMAIN evs : evs[i].kind = k /\ CancelEvent(evs, k) = Drop(evs, i)
<1>1. IsRunning(evs, k)
  BY RunningIff DEF Disciplined
<1>2. (CHOOSE i \in HeldAt(evs, k) : TRUE) \in HeldAt(evs, k)
  BY <1>1 DEF IsRunning
<1>3. QED
  BY <1>1, <1>2 DEF CancelEvent, HeldAt

\* One time unit passes: the same kinds stay pending, one unit closer.
LEMMA ShiftFacts ==
  ASSUME NEW evs \in Seq(Event), Disciplined(evs), NEW lbt \in Int,
         BusyBounded(evs, lbt)
  PROVE  LET t == [i \in DOMAIN evs |->
                     [kind |-> evs[i].kind, at |-> evs[i].at - 1, held |-> evs[i].held]]
         IN  /\ Disciplined(t)
             /\ KindsOf(t) = KindsOf(evs)
             /\ BusyBounded(t, MaxOf(lbt - 1, -DeferTime))
<1>1. \A i \in DOMAIN evs : evs[i] \in Event
  BY LenProperties, ElementOfSeq
<1>2. QED
  BY <1>1, TimingAssumption DEF Disciplined, KindsOf, BusyBounded, MaxOf, Event

\* Every element of a queue is an event.
LEMMA QueueElements ==
  ASSUME NEW evs \in Seq(Event)
  PROVE  \A i \in DOMAIN evs : evs[i] \in Event
BY LenProperties

\* The kinds of timer that must be pending in each state.
PendingFor(st) ==
  IF st = "WAIT_FOR_DEFER" THEN {"defer"}
  ELSE IF st = "WAIT_FOR_BACKOFF" THEN {"backoff"}
  ELSE IF st = "BUSY" THEN {"busy"}
  ELSE {}

\* The queue part of the inductive invariant: exactly the timer of the
\* state is pending and held, a waiting state has a request to serve, and
\* the busy timer never outlives m_lastBusyTime.
QueueOK ==
  /\ Disciplined(events)
  /\ KindsOf(events) = PendingFor(state)
  /\ state \in {"WAIT_FOR_DEFER", "WAIT_FOR_BACKOFF"} => grantRequested
  /\ BusyBounded(events, lastBusyTime)

TDInv == TypeOK /\ QueueOK

\* A queue with no pending event bounds every busy end.
LEMMA EmptyBounded ==
  ASSUME NEW evs, KindsOf(evs) = {}, NEW x
  PROVE  BusyBounded(evs, x)
BY DEF KindsOf, BusyBounded

\* Scheduling into a queue with nothing pending.
LEMMA ScheduleIntoEmpty ==
  ASSUME NEW evs \in Seq(Event), Disciplined(evs), KindsOf(evs) = {},
         NEW k \in Kinds, NEW d \in Nat, NEW x, k = "busy" => d <= x
  PROVE  /\ Schedule(evs, k, d) \in Seq(Event)
         /\ Disciplined(Schedule(evs, k, d))
         /\ KindsOf(Schedule(evs, k, d)) = {k}
         /\ BusyBounded(Schedule(evs, k, d), x)
<1> DEFINE r == [kind |-> k, at |-> d, held |-> TRUE]
<1>1. Schedule(evs, k, d) = Append(evs, r)
  BY ScheduleFresh
<1>2. r \in Event /\ r.held /\ r.kind \notin KindsOf(evs)
  BY DEF Event
<1>3. BusyBounded(evs, x)
  BY EmptyBounded
<1>4. /\ Disciplined(Append(evs, r))
      /\ KindsOf(Append(evs, r)) = KindsOf(evs) \cup {r.kind}
      /\ BusyBounded(Append(evs, r), x)
  BY <1>2, <1>3, AppendFresh
<1>5. QED
  BY <1>1, <1>4, ScheduleType

\* Removing the only pending event.
LEMMA DropToEmpty ==
  ASSUME NEW evs \in Seq(Event), Disciplined(evs), NEW i \in DOMAIN evs,
         KindsOf(evs) = {evs[i].kind}
  PROVE  /\ Drop(evs, i) \in Seq(Event)
         /\ Disciplined(Drop(evs, i))
         /\ KindsOf(Drop(evs, i)) = {}
BY DropFacts, DropType

\* Cancelling the only pending timer.
LEMMA CancelToEmpty ==
  ASSUME NEW evs \in Seq(Event), Disciplined(evs), NEW k, KindsOf(evs) = {k}
  PROVE  /\ CancelEvent(evs, k) \in Seq(Event)
         /\ Disciplined(CancelEvent(evs, k))
         /\ KindsOf(CancelEvent(evs, k)) = {}
<1>1. PICK i \in DOMAIN evs : evs[i].kind = k /\ CancelEvent(evs, k) = Drop(evs, i)
  BY CancelFacts
<1>2. QED
  BY <1>1, DropToEmpty

\* The invariant gives the timer discipline of the model.
LEMMA TDInvDiscipline ==
  ASSUME TDInv
  PROVE  TimerDiscipline
<1>1. events \in Seq(Event) /\ \A i \in DOMAIN events : events[i].held
  BY DEF TDInv, TypeOK, QueueOK, Disciplined
<1>2. \A k : IsRunning(events, k) <=> k \in PendingFor(state)
  BY <1>1, RunningIff DEF TDInv, QueueOK
<1>3. QED
  BY <1>2 DEF TDInv, QueueOK, Disciplined, TimerDiscipline, PendingFor

\* In BUSY the busy timer is pending, so m_lastBusyTime is not in the past.
LEMMA BusyNotPast ==
  ASSUME TDInv, state = "BUSY"
  PROVE  lastBusyTime >= 0
<1>1. PICK i \in DOMAIN events : events[i].kind = "busy"
  BY DEF TDInv, QueueOK, PendingFor, KindsOf
<1>2. events[i] \in Event
  BY LenProperties, ElementOfSeq DEF TDInv, TypeOK
<1>3. QED
  BY <1>1, <1>2 DEF TDInv, QueueOK, BusyBounded, Event, TypeOK

\* TransitionToBusy (d) keeps the queue invariant when a waiting state has
\* a request to serve.
LEMMA TransitionToBusyQueue ==
  ASSUME TDInv, NEW d \in 1 .. MaxBusy, NEW bc, NEW gr,
         state \in {"WAIT_FOR_DEFER", "WAIT_FOR_BACKOFF"} => gr,
         TransitionToBusy(d, bc, gr, events)
  PROVE  QueueOK'
<1>0. /\ events \in Seq(Event) /\ Disciplined(events)
      /\ KindsOf(events) = PendingFor(state)
      /\ BusyBounded(events, lastBusyTime)
      /\ lastBusyTime \in Int /\ d \in Nat /\ "busy" \in Kinds
  BY DEF TDInv, TypeOK, QueueOK, Kinds
\* The busy timer scheduled into a queue emptied of the state's timer.
<1>1. ASSUME NEW evs \in Seq(Event), Disciplined(evs), KindsOf(evs) = {},
             events' = Schedule(evs, "busy", d), lastBusyTime' = d, state' = "BUSY"
      PROVE  QueueOK'
  <2>1. /\ Disciplined(Schedule(evs, "busy", d))
        /\ KindsOf(Schedule(evs, "busy", d)) = {"busy"}
        /\ BusyBounded(Schedule(evs, "busy", d), d)
    BY <1>0, <1>1, ScheduleIntoEmpty
  <2>2. QED
    BY <1>1, <2>1 DEF QueueOK, PendingFor
\* The arms that leave the state machine where it is.
<1>2. ASSUME UNCHANGED <<state, grantRequested, events, lastBusyTime>>
      PROVE  QueueOK'
  BY <1>2 DEF TDInv, QueueOK
<1>3. ASSUME BaseTransitionToBusy(d, bc, gr, events) PROVE QueueOK'
  <2>1. CASE state \in {"IDLE", "TXOP_GRANTED"}
    <3>1. KindsOf(events) = {}
      BY <1>0, <2>1 DEF PendingFor
    <3>2. events' = Schedule(events, "busy", d) /\ lastBusyTime' = d /\ state' = "BUSY"
      BY <1>3, <2>1 DEF BaseTransitionToBusy, GoBusy
    <3>3. QED
      BY <1>0, <1>1, <3>1, <3>2
  <2>2. CASE state = "BUSY"
    <3>1. IsRunning(events, "busy")
      BY <1>0, <2>2, RunningIff DEF Disciplined, PendingFor
    <3>2. /\ lastBusyTime' = MaxOf(lastBusyTime, d) /\ events' = events
          /\ state' = "BUSY" /\ grantRequested' = gr
      BY <1>3, <2>2, <3>1 DEF BaseTransitionToBusy, BusyExtended
    <3>3. BusyBounded(events, MaxOf(lastBusyTime, d))
      <4>1. \A i \in DOMAIN events : events[i].at \in Nat
        BY <1>0, QueueElements DEF Event
      <4>2. QED
        BY <1>0, <4>1 DEF BusyBounded, MaxOf
    <3>4. QED
      BY <1>0, <2>2, <3>2, <3>3 DEF QueueOK
  <2>3. CASE state = "WAIT_FOR_DEFER"
    <3>1. /\ CancelEvent(events, "defer") \in Seq(Event)
          /\ Disciplined(CancelEvent(events, "defer"))
          /\ KindsOf(CancelEvent(events, "defer")) = {}
      BY <1>0, <2>3, CancelToEmpty DEF PendingFor
    <3>2. /\ events' = Schedule(CancelEvent(events, "defer"), "busy", d)
          /\ lastBusyTime' = d /\ state' = "BUSY"
      BY <1>3, <2>3 DEF BaseTransitionToBusy, GoBusy
    <3>3. QED
      BY <1>1, <3>1, <3>2
  <2>4. CASE state = "WAIT_FOR_BACKOFF"
    <3>1. /\ CancelEvent(events, "backoff") \in Seq(Event)
          /\ Disciplined(CancelEvent(events, "backoff"))
          /\ KindsOf(CancelEvent(events, "backoff")) = {}
      BY <1>0, <2>4, CancelToEmpty DEF PendingFor
    <3>2. /\ events' = Schedule(CancelEvent(events, "backoff"), "busy", d)
          /\ lastBusyTime' = d /\ state' = "BUSY"
      BY <1>3, <2>4 DEF BaseTransitionToBusy, GoBusy
    <3>3. QED
      BY <1>1, <3>1, <3>2
  <2>5. CASE state \notin {"IDLE", "TXOP_GRANTED", "BUSY", "WAIT_FOR_DEFER", "WAIT_FOR_BACKOFF"}
    <3>1. UNCHANGED <<state, grantRequested, events, lastBusyTime>>
      BY <1>3, <2>5 DEF BaseTransitionToBusy
    <3>2. QED
      BY <1>2, <3>1
  <2>6. QED
    BY <2>1, <2>2, <2>3, <2>4, <2>5
<1>4. ASSUME Cat2TransitionToBusy(d, bc, gr, events) PROVE QueueOK'
  <2>1. CASE state = "WAIT_FOR_DEFER"
    <3>1. /\ CancelEvent(events, "defer") \in Seq(Event)
          /\ Disciplined(CancelEvent(events, "defer"))
          /\ KindsOf(CancelEvent(events, "defer")) = {}
      BY <1>0, <2>1, CancelToEmpty DEF PendingFor
    <3>2. /\ events' = Schedule(CancelEvent(events, "defer"), "busy", d)
          /\ lastBusyTime' = d /\ state' = "BUSY"
      BY <1>4, <2>1 DEF Cat2TransitionToBusy, GoBusy
    <3>3. QED
      BY <1>1, <3>1, <3>2
  <2>2. CASE state = "WAIT_FOR_BACKOFF"
    <3>1. UNCHANGED <<state, grantRequested, events, lastBusyTime>>
      BY <1>4, <2>2 DEF Cat2TransitionToBusy
    <3>2. QED
      BY <1>2, <3>1
  <2>3. CASE state \notin {"WAIT_FOR_DEFER", "WAIT_FOR_BACKOFF"}
    BY <1>3, <1>4, <2>3 DEF Cat2TransitionToBusy
  <2>4. QED
    BY <2>1, <2>2, <2>3
<1>5. QED
  BY <1>3, <1>4 DEF TransitionToBusy

\* A step that grants, or that leaves the timers alone, from a queue with
\* nothing pending.
LEMMA IdleQueue ==
  ASSUME NEW evs \in Seq(Event), Disciplined(evs), KindsOf(evs) = {},
         events' = evs, PendingFor(state') = {},
         state' \in {"WAIT_FOR_DEFER", "WAIT_FOR_BACKOFF"} => grantRequested'
  PROVE  QueueOK'
<1>1. BusyBounded(evs, lastBusyTime')
  BY EmptyBounded
<1>2. QED
  BY <1>1 DEF QueueOK

\* The handler of the defer timer, fired in WAIT_FOR_DEFER with the
\* rest of the queue empty.
LEMMA AfterDeferQueue ==
  ASSUME TDInv, state = "WAIT_FOR_DEFER", NEW evs \in Seq(Event), Disciplined(evs),
         KindsOf(evs) = {}, RequestAccessAfterDefer(evs)
  PROVE  QueueOK'
<1>1. grantRequested
  BY DEF TDInv, QueueOK
<1>2. CASE Category # "Cat2" /\ backoffCount = 0
  <2>1. state' = "TXOP_GRANTED" /\ grantRequested' = FALSE /\ events' = evs
    BY <1>2 DEF RequestAccessAfterDefer, BaseRequestAccessAfterDefer, SetGrant
  <2>2. QED
    BY <2>1, IdleQueue DEF PendingFor
<1>3. CASE Category # "Cat2" /\ backoffCount # 0
  <2>1. /\ state' = "WAIT_FOR_BACKOFF" /\ grantRequested' = grantRequested
        /\ events' = Schedule(evs, "backoff", SlotTime * backoffCount)
    BY <1>3 DEF RequestAccessAfterDefer, BaseRequestAccessAfterDefer
  <2>2. "backoff" \in Kinds /\ SlotTime * backoffCount \in Nat
    BY TimingAssumption DEF Kinds, TDInv, TypeOK
  <2>3. /\ Disciplined(Schedule(evs, "backoff", SlotTime * backoffCount))
        /\ KindsOf(Schedule(evs, "backoff", SlotTime * backoffCount)) = {"backoff"}
        /\ BusyBounded(Schedule(evs, "backoff", SlotTime * backoffCount), lastBusyTime')
    BY <2>2, ScheduleIntoEmpty
  <2>4. QED
    BY <1>1, <2>1, <2>3 DEF QueueOK, PendingFor
<1>4. CASE Category = "Cat2"
  <2>1. state' = "TXOP_GRANTED" /\ grantRequested' = FALSE /\ events' = evs
    BY <1>4 DEF RequestAccessAfterDefer, Cat2RequestAccessAfterDefer, SetGrant
  <2>2. QED
    BY <2>1, IdleQueue DEF PendingFor
<1>5. QED
  BY <1>2, <1>3, <1>4

\* The handler of the backoff timer, fired in WAIT_FOR_BACKOFF.
LEMMA AfterBackoffQueue ==
  ASSUME state = "WAIT_FOR_BACKOFF", NEW evs \in Seq(Event), Disciplined(evs),
         KindsOf(evs) = {}, RequestAccessAfterBackoff(evs)
  PROVE  QueueOK'
<1>1. state' = "TXOP_GRANTED" /\ grantRequested' = FALSE /\ events' = evs
  BY DEF RequestAccessAfterBackoff, SetGrant
<1>2. QED
  BY <1>1, IdleQueue DEF PendingFor

\* The handler of the busy timer, fired in BUSY.
LEMMA FromBusyQueue ==
  ASSUME TDInv, NEW evs \in Seq(Event), Disciplined(evs),
         KindsOf(evs) = {}, TransitionFromBusy(evs)
  PROVE  QueueOK'
<1>0. lastBusyTime \in Int
  BY DEF TDInv, TypeOK
<1>1. CASE lastBusyTime > 0
  <2>1. /\ events' = Schedule(evs, "busy", lastBusyTime) /\ state' = "BUSY"
        /\ lastBusyTime' = lastBusyTime
    BY <1>1 DEF TransitionFromBusy
  <2>2. /\ Disciplined(Schedule(evs, "busy", lastBusyTime))
        /\ KindsOf(Schedule(evs, "busy", lastBusyTime)) = {"busy"}
        /\ BusyBounded(Schedule(evs, "busy", lastBusyTime), lastBusyTime)
    <3>1. "busy" \in Kinds /\ lastBusyTime \in Nat
      BY <1>0, <1>1 DEF Kinds
    <3>2. QED
      BY <3>1, ScheduleIntoEmpty
  <2>3. QED
    BY <2>1, <2>2 DEF QueueOK, PendingFor
<1>2. CASE ~(lastBusyTime > 0) /\ grantRequested
  <2>1. /\ events' = Schedule(evs, "defer", DeferTime) /\ state' = "WAIT_FOR_DEFER"
        /\ grantRequested' = grantRequested
    BY <1>2 DEF TransitionFromBusy
  <2>2. /\ Disciplined(Schedule(evs, "defer", DeferTime))
        /\ KindsOf(Schedule(evs, "defer", DeferTime)) = {"defer"}
        /\ BusyBounded(Schedule(evs, "defer", DeferTime), lastBusyTime')
    <3>1. "defer" \in Kinds /\ DeferTime \in Nat
      BY TimingAssumption DEF Kinds
    <3>2. QED
      BY <3>1, ScheduleIntoEmpty
  <2>3. QED
    BY <1>2, <2>1, <2>2 DEF QueueOK, PendingFor
<1>3. CASE ~(lastBusyTime > 0) /\ ~grantRequested
  <2>1. events' = evs /\ state' = "IDLE"
    BY <1>3 DEF TransitionFromBusy
  <2>2. QED
    BY <2>1, IdleQueue DEF PendingFor
<1>4. QED
  BY <1>1, <1>2, <1>3

\* The fast grant of RequestAccess finds no timer pending: without a
\* request the manager is not waiting, and after a full defer it is not
\* BUSY.
LEMMA FastGrantIdle ==
  ASSUME TDInv, ~grantRequested, -lastBusyTime >= DeferTime
  PROVE  KindsOf(events) = {}
<1>1. state \notin {"WAIT_FOR_DEFER", "WAIT_FOR_BACKOFF"}
  BY DEF TDInv, QueueOK
<1>2. state # "BUSY"
  BY BusyNotPast, TimingAssumption DEF TDInv, TypeOK
<1>3. QED
  BY <1>1, <1>2 DEF TDInv, QueueOK, PendingFor

\* The defer timer armed by RequestAccess in IDLE.
LEMMA ArmDefer ==
  ASSUME TDInv, state = "IDLE",
         events' = Schedule(events, "defer", DeferTime + lastBusyTime),
         state' = "WAIT_FOR_DEFER", grantRequested' = TRUE
  PROVE  QueueOK'
<1>1. /\ events \in Seq(Event) /\ Disciplined(events) /\ KindsOf(events) = {}
      /\ "defer" \in Kinds /\ DeferTime + lastBusyTime \in Nat
  BY TimingAssumption DEF TDInv, TypeOK, QueueOK, PendingFor, Kinds
<1>2. /\ Disciplined(Schedule(events, "defer", DeferTime + lastBusyTime))
      /\ KindsOf(Schedule(events, "defer", DeferTime + lastBusyTime)) = {"defer"}
      /\ BusyBounded(Schedule(events, "defer", DeferTime + lastBusyTime), lastBusyTime')
  BY <1>1, ScheduleIntoEmpty
<1>3. QED
  BY <1>2 DEF QueueOK, PendingFor

\* RequestAccess () keeps the queue invariant.
LEMMA RequestAccessQueue ==
  ASSUME TDInv, RequestAccess
  PROVE  QueueOK'
<1>0. events \in Seq(Event) /\ Disciplined(events)
  BY DEF TDInv, TypeOK, QueueOK
<1>1. CASE Category # "Cat2"
  <2>1. BaseRequestAccess
    BY <1>1 DEF RequestAccess
  <2>2. CASE grantRequested
    <3>1. UNCHANGED lbtVars
      BY <2>1, <2>2 DEF BaseRequestAccess
    <3>2. QED
      BY <3>1 DEF lbtVars, TDInv, QueueOK
  <2>3. CASE ~grantRequested /\ -lastBusyTime >= DeferTime
    <3>1. state' = "TXOP_GRANTED" /\ grantRequested' = FALSE /\ events' = events
      BY <2>1, <2>3 DEF BaseRequestAccess, SetGrant
    <3>2. KindsOf(events) = {}
      BY <2>3, FastGrantIdle
    <3>3. QED
      BY <1>0, <3>1, <3>2, IdleQueue DEF PendingFor
  <2>4. CASE ~grantRequested /\ ~(-lastBusyTime >= DeferTime)
    <3>1. PICK n \in Nat : BaseRequestAccessSlow(n)
      BY <2>1, <2>4, WindowAssumption DEF BaseRequestAccess
    <3>2. CASE state = "IDLE"
      <4>1. /\ events' = Schedule(events, "defer", DeferTime + lastBusyTime)
            /\ state' = "WAIT_FOR_DEFER" /\ grantRequested' = TRUE
        BY <3>1, <3>2 DEF BaseRequestAccessSlow
      <4>2. QED
        BY <3>2, <4>1, ArmDefer
    <3>3. CASE state # "IDLE" /\ lastBusyTime > 0
      <4>1. TransitionToBusy(lastBusyTime, n, TRUE, events)
        BY <3>1, <3>3 DEF BaseRequestAccessSlow
      <4>2. lastBusyTime \in 1 .. MaxBusy
        BY <3>3 DEF TDInv, TypeOK
      <4>3. QED
        BY <4>1, <4>2, TransitionToBusyQueue
    <3>4. CASE state # "IDLE" /\ ~(lastBusyTime > 0)
      <4>1. /\ grantRequested' = TRUE
            /\ UNCHANGED <<state, events, lastBusyTime>>
        BY <3>1, <3>4 DEF BaseRequestAccessSlow
      <4>2. QED
        BY <4>1 DEF TDInv, QueueOK
    <3>5. QED
      BY <3>2, <3>3, <3>4
  <2>5. QED
    BY <2>2, <2>3, <2>4
<1>2. CASE Category = "Cat2"
  <2>1. Cat2RequestAccess /\ UNCHANGED lastBusyTime
    BY <1>2 DEF RequestAccess, Cat2RequestAccess
  <2>2. CASE grantRequested
    <3>1. UNCHANGED <<state, grantRequested, events, lastBusyTime>>
      BY <2>1, <2>2 DEF Cat2RequestAccess
    <3>2. QED
      BY <3>1 DEF TDInv, QueueOK
  <2>3. CASE ~grantRequested /\ -lastBusyTime >= DeferTime
    <3>1. state' = "TXOP_GRANTED" /\ grantRequested' = FALSE /\ events' = events
      BY <2>1, <2>3 DEF Cat2RequestAccess, SetGrant
    <3>2. KindsOf(events) = {}
      BY <2>3, FastGrantIdle
    <3>3. QED
      BY <1>0, <3>1, <3>2, IdleQueue DEF PendingFor
  <2>4. CASE ~grantRequested /\ ~(-lastBusyTime >= DeferTime) /\ state = "IDLE"
    <3>1. /\ events' = Schedule(events, "defer", DeferTime + lastBusyTime)
          /\ state' = "WAIT_FOR_DEFER" /\ grantRequested' = TRUE
      BY <2>1, <2>4 DEF Cat2RequestAccess
    <3>2. QED
      BY <2>4, <3>1, ArmDefer
  <2>5. CASE ~grantRequested /\ ~(-lastBusyTime >= DeferTime) /\ state # "IDLE"
    <3>1. /\ grantRequested' = FALSE
          /\ UNCHANGED <<state, events, lastBusyTime>>
      BY <2>1, <2>5 DEF Cat2RequestAccess
    <3>2. state \notin {"WAIT_FOR_DEFER", "WAIT_FOR_BACKOFF"}
      BY <2>5 DEF TDInv, QueueOK
    <3>3. QED
      BY <3>1, <3>2 DEF TDInv, QueueOK
  <2>6. QED
    BY <2>2, <2>3, <2>4, <2>5
<1>3. QED
  BY <1>1, <1>2

\* A freshly constructed manager has no timer.
LEMMA InitTDInv == Init => TDInv
<1> SUFFICES ASSUME Init PROVE TDInv
  OBVIOUS
<1>1. KindsOf(events) = {} /\ Disciplined(events)
  BY DEF Init, KindsOf, Disciplined
<1>2. PendingFor(state) = {} /\ state \notin {"WAIT_FOR_DEFER", "WAIT_FOR_BACKOFF"}
  BY DEF Init, PendingFor
<1>3. BusyBounded(events, lastBusyTime)
  BY <1>1, EmptyBounded
<1>4. QED
  BY <1>1, <1>2, <1>3, InitTypeOK DEF TDInv, QueueOK

\* Every step keeps the invariant when the MAC never calls Cancel ().
LEMMA NextTDInv ==
  ASSUME ~MacMayCancel, TDInv, [Next]_vars
  PROVE  TDInv'
<1>0. /\ events \in Seq(Event) /\ Disciplined(events)
      /\ KindsOf(events) = PendingFor(state)
      /\ BusyBounded(events, lastBusyTime)
      /\ lastBusyTime \in Int
  BY DEF TDInv, TypeOK, QueueOK
<1>1. TypeOK'
  BY NextTypeOK DEF TDInv
<1>2. CASE RequestAccess
  BY <1>1, <1>2, RequestAccessQueue DEF TDInv
<1>3. CASE Cancel
  BY <1>3 DEF Cancel
<1>4. CASE ChannelOccupied
  <2>1. PICK d \in 1 .. MaxBusy : TransitionToBusy(d, backoffCount, grantRequested, events)
    BY <1>4 DEF ChannelOccupied
  <2>2. state \in {"WAIT_FOR_DEFER", "WAIT_FOR_BACKOFF"} => grantRequested
    BY DEF TDInv, QueueOK
  <2>3. QED
    BY <1>1, <2>1, <2>2, TransitionToBusyQueue DEF TDInv
<1>5. CASE DlHarqFeedback \/ Initialize
  <2>1. UNCHANGED lbtVars
    BY <1>5 DEF DlHarqFeedback, Initialize
  <2>2. QED
    BY <1>1, <2>1 DEF lbtVars, TDInv, QueueOK
<1>6. CASE FireEvent
  <2>1. PICK i \in DueNext :
          CASE events[i].kind = "defer"   -> RequestAccessAfterDefer(Drop(events, i))
            [] events[i].kind = "backoff" -> RequestAccessAfterBackoff(Drop(events, i))
            [] events[i].kind = "busy"    -> TransitionFromBusy(Drop(events, i))
    BY <1>6 DEF FireEvent
  <2>2. i \in DOMAIN events
    BY DEF DueNext
  <2>3. KindsOf(events) = {events[i].kind} /\ PendingFor(state) = {events[i].kind}
    <3>1. events[i].kind \in PendingFor(state)
      BY <1>0, <2>2 DEF KindsOf
    <3>2. QED
      BY <1>0, <3>1 DEF PendingFor
  <2>4. /\ Drop(events, i) \in Seq(Event)
        /\ Disciplined(Drop(events, i))
        /\ KindsOf(Drop(events, i)) = {}
    BY <1>0, <2>2, <2>3, DropToEmpty
  <2>5. QueueOK'
    <3>1. CASE events[i].kind = "defer"
      <4>1. state = "WAIT_FOR_DEFER"
        BY <2>3, <3>1 DEF PendingFor
      <4>2. QED
        BY <2>1, <2>4, <3>1, <4>1, AfterDeferQueue
    <3>2. CASE events[i].kind = "backoff"
      <4>1. state = "WAIT_FOR_BACKOFF"
        BY <2>3, <3>2 DEF PendingFor
      <4>2. QED
        BY <2>1, <2>4, <3>2, <4>1, AfterBackoffQueue
    <3>3. CASE events[i].kind = "busy"
      BY <2>1, <2>4, <3>3, FromBusyQueue
    <3>4. QED
      BY <2>3, <3>1, <3>2, <3>3 DEF PendingFor
  <2>6. QED
    BY <1>1, <2>5 DEF TDInv
<1>7. CASE AdvanceTime
  <2>1. /\ events' = [i \in DOMAIN events |->
                        [kind |-> events[i].kind, at |-> events[i].at - 1,
                         held |-> events[i].held]]
        /\ lastBusyTime' = MaxOf(lastBusyTime - 1, -DeferTime)
        /\ UNCHANGED <<state, grantRequested>>
    BY <1>7 DEF AdvanceTime
  <2>2. /\ Disciplined(events')
        /\ KindsOf(events') = KindsOf(events)
        /\ BusyBounded(events', lastBusyTime')
    BY <1>0, <2>1, ShiftFacts
  <2>3. QED
    BY <1>0, <1>1, <2>1, <2>2 DEF TDInv, QueueOK
<1>8. CASE UNCHANGED vars
  BY <1>1, <1>8 DEF vars, lbtVars, TDInv, QueueOK
<1>9. QED
  BY <1>2, <1>3, <1>4, <1>5, <1>6, <1>7, <1>8 DEF Next

\* For a MAC that never calls Cancel (), every timer the manager relies on is
\* the one its EventId holds: the defer, backoff and busy events are
\* pending exactly in WAIT_FOR_DEFER, WAIT_FOR_BACKOFF and BUSY, each once
\* and held, so no orphan timer ever drives the state machine, for every
\* category, timing and window configuration.
THEOREM TimerDisciplineInvariant ==
  ASSUME ~MacMayCancel
  PROVE  Spec => []TimerDiscipline
<1>1. Init => TDInv
  BY InitTDInv
<1>2. TDInv /\ [Next]_vars => TDInv'
  BY NextTDInv
<1>3. TDInv => TimerDiscipline
  BY TDInvDiscipline
<1>4. QED
  BY <1>1, <1>2, <1>3, PTL DEF Spec

=============================================================================
