------------------------- MODULE NrLbtBackoffProofs -------------------------
(***************************************************************************)
(* Proofs about the LBT manager's backoff: the counter m_backoffCount is    *)
(* only ever raised by the draw of a new request, for every category and  *)
(* every MAC (Cancel included); the Cat4 window doubles on a failure once  *)
(* ns-3 has initialized the manager and the window arithmetic cannot wrap; *)
(* and it stays within [cwMin, cwMax].  All three rest only on the type    *)
(* invariant: every handler either leaves the counter and the window alone *)
(* or is the draw itself.  The last section computes what the decrement  *)
(* loop of TransitionToBusy charges for an interrupted backoff.            *)
(***************************************************************************)
EXTENDS NrLbtAccessManagerProofs

-----------------------------------------------------------------------------
(* The backoff counter.                                                    *)

\* What TransitionToBusy (d, bc, gr) does to the counter: it keeps the old
\* member (the unreachable-state abort), or leaves at most bc with the
\* request it was given, or (Cat2, an interrupted defer) leaves bc.
BusyCount(bc, gr) ==
  \/ backoffCount' = backoffCount
  \/ backoffCount' <= bc /\ grantRequested' = gr
  \/ Category = "Cat2" /\ backoffCount' = bc

LEMMA BaseTransitionToBusyCount ==
  ASSUME TypeOK, NEW d, NEW bc \in Nat, NEW gr, NEW evs,
         BaseTransitionToBusy(d, bc, gr, evs)
  PROVE  BusyCount(bc, gr)
<1>1. CASE state \in {"IDLE", "TXOP_GRANTED"}
  BY <1>1 DEF BaseTransitionToBusy, BusyCount
<1>2. CASE state = "BUSY"
  BY <1>2 DEF BaseTransitionToBusy, BusyExtended, BusyCount
<1>3. CASE state = "WAIT_FOR_DEFER"
  BY <1>3 DEF BaseTransitionToBusy, BusyCount
<1>4. CASE state = "WAIT_FOR_BACKOFF"
  <2>1. SlotsConsumed(backoffElapsed, bc) \in 0 .. bc
    BY SlotsConsumedRange DEF TypeOK
  <2>2. backoffCount' = bc - SlotsConsumed(backoffElapsed, bc) /\ grantRequested' = gr
    BY <1>4 DEF BaseTransitionToBusy
  <2>3. QED
    BY <2>1, <2>2 DEF BusyCount
<1>5. CASE state \notin {"IDLE", "TXOP_GRANTED", "BUSY", "WAIT_FOR_DEFER", "WAIT_FOR_BACKOFF"}
  BY <1>5 DEF BaseTransitionToBusy, BusyCount
<1>6. QED
  BY <1>1, <1>2, <1>3, <1>4, <1>5

LEMMA TransitionToBusyCount ==
  ASSUME TypeOK, NEW d, NEW bc \in Nat, NEW gr, NEW evs,
         TransitionToBusy(d, bc, gr, evs)
  PROVE  BusyCount(bc, gr)
<1>1. CASE Category # "Cat2"
  BY <1>1, BaseTransitionToBusyCount DEF TransitionToBusy
<1>2. CASE Category = "Cat2"
  <2>1. Cat2TransitionToBusy(d, bc, gr, evs)
    BY <1>2 DEF TransitionToBusy
  <2>2. CASE state = "WAIT_FOR_DEFER"
    BY <1>2, <2>1, <2>2 DEF Cat2TransitionToBusy, BusyCount
  <2>3. CASE state = "WAIT_FOR_BACKOFF"
    BY <2>1, <2>3 DEF Cat2TransitionToBusy, BusyCount
  <2>4. CASE state \notin {"WAIT_FOR_DEFER", "WAIT_FOR_BACKOFF"}
    BY <2>1, <2>4, BaseTransitionToBusyCount DEF Cat2TransitionToBusy
  <2>5. QED
    BY <2>2, <2>3, <2>4
<1>3. QED
  BY <1>1, <1>2

\* The step property: a raise of the counter is the draw of a request the
\* MAC has just made.
NotRewound == backoffCount' > backoffCount => ~grantRequested /\ grantRequested'

LEMMA RequestAccessNotRewound ==
  ASSUME TypeOK, RequestAccess
  PROVE  NotRewound
<1>1. CASE Category = "Cat2"
  <2>1. Cat2RequestAccess
    BY <1>1 DEF RequestAccess
  <2>2. backoffCount' = backoffCount
    BY <2>1 DEF Cat2RequestAccess
  <2>3. QED
    BY <2>2 DEF NotRewound, TypeOK
<1>2. CASE Category # "Cat2"
  <2>1. BaseRequestAccess
    BY <1>2 DEF RequestAccess
  <2>2. CASE grantRequested \/ -lastBusyTime >= DeferTime
    <3>1. backoffCount' = backoffCount
      BY <2>1, <2>2 DEF BaseRequestAccess, lbtVars, SetGrant
    <3>2. QED
      BY <3>1 DEF NotRewound, TypeOK
  <2>3. CASE ~grantRequested /\ ~(-lastBusyTime >= DeferTime)
    <3>1. PICK n \in Nat : BaseRequestAccessSlow(n)
      BY <2>1, <2>3 DEF BaseRequestAccess
    <3>2. CASE state = "IDLE"
      BY <2>3, <3>1, <3>2 DEF BaseRequestAccessSlow, NotRewound
    <3>3. CASE state # "IDLE" /\ lastBusyTime > 0
      <4>1. TransitionToBusy(lastBusyTime, n, TRUE, events)
        BY <3>1, <3>3 DEF BaseRequestAccessSlow
      <4>2. BusyCount(n, TRUE)
        BY <4>1, TransitionToBusyCount
      <4>3. CASE backoffCount' = backoffCount
        BY <4>3 DEF NotRewound, TypeOK
      <4>4. CASE grantRequested' = TRUE
        BY <2>3, <4>4, Zenon DEF NotRewound
      <4>5. QED
        BY <1>2, <4>2, <4>3, <4>4 DEF BusyCount
    <3>4. CASE state # "IDLE" /\ ~(lastBusyTime > 0)
      BY <2>3, <3>1, <3>4 DEF BaseRequestAccessSlow, NotRewound
    <3>5. QED
      BY <3>2, <3>3, <3>4
  <2>4. QED
    BY <2>2, <2>3
<1>3. QED
  BY <1>1, <1>2

LEMMA ChannelOccupiedNotRewound ==
  ASSUME TypeOK, ChannelOccupied
  PROVE  NotRewound
<1>1. PICK d \in 1 .. MaxBusy : TransitionToBusy(d, backoffCount, grantRequested, events)
  BY DEF ChannelOccupied
<1>2. BusyCount(backoffCount, grantRequested)
  BY <1>1, TransitionToBusyCount DEF TypeOK
<1>3. backoffCount' \in Nat
  BY <1>1, TransitionToBusyType DEF StepOK, TypeOK
<1>4. QED
  BY <1>2, <1>3 DEF BusyCount, NotRewound, TypeOK

LEMMA FireEventNotRewound ==
  ASSUME TypeOK, FireEvent
  PROVE  NotRewound
<1>1. PICK i \in DueNext :
        CASE events[i].kind = "defer"   -> RequestAccessAfterDefer(Drop(events, i))
          [] events[i].kind = "backoff" -> RequestAccessAfterBackoff(Drop(events, i))
          [] events[i].kind = "busy"    -> TransitionFromBusy(Drop(events, i))
  BY DEF FireEvent
<1>2. events[i].kind \in Kinds
  <2>1. i \in 1 .. Len(events) /\ events \in Seq(Event)
    BY DEF DueNext, TypeOK
  <2>2. events[i] \in Event
    BY <2>1, ElementOfSeq
  <2>3. QED
    BY <2>2 DEF Event
<1>3. CASE events[i].kind = "defer"
  <2>1. RequestAccessAfterDefer(Drop(events, i))
    BY <1>1, <1>3
  <2>2. backoffCount' = backoffCount
    BY <2>1 DEF RequestAccessAfterDefer, BaseRequestAccessAfterDefer,
                Cat2RequestAccessAfterDefer
  <2>3. QED
    BY <2>2 DEF NotRewound, TypeOK
<1>4. CASE events[i].kind = "backoff"
  <2>1. RequestAccessAfterBackoff(Drop(events, i))
    BY <1>1, <1>4 DEF Kinds
  <2>2. backoffCount' \in {0, backoffCount}
    BY <2>1 DEF RequestAccessAfterBackoff
  <2>3. QED
    BY <2>2 DEF NotRewound, TypeOK
<1>5. CASE events[i].kind = "busy"
  <2>1. TransitionFromBusy(Drop(events, i))
    BY <1>1, <1>5 DEF Kinds
  <2>2. backoffCount' = backoffCount
    BY <2>1 DEF TransitionFromBusy
  <2>3. QED
    BY <2>2 DEF NotRewound, TypeOK
<1>6. QED
  BY <1>2, <1>3, <1>4, <1>5 DEF Kinds

LEMMA NextNotRewound ==
  ASSUME TypeOK, [Next]_vars
  PROVE  [NotRewound]_vars
<1>1. CASE RequestAccess
  BY <1>1, RequestAccessNotRewound
<1>2. CASE ChannelOccupied
  BY <1>2, ChannelOccupiedNotRewound
<1>3. CASE FireEvent
  BY <1>3, FireEventNotRewound
<1>4. CASE Cancel \/ DlHarqFeedback \/ Initialize \/ AdvanceTime
  <2>1. backoffCount' = backoffCount
    BY <1>4 DEF Cancel, DlHarqFeedback, Initialize, AdvanceTime, lbtVars
  <2>2. QED
    BY <2>1 DEF NotRewound, TypeOK
<1>5. CASE UNCHANGED vars
  BY <1>5 DEF vars, lbtVars, NotRewound
<1>6. QED
  BY <1>1, <1>2, <1>3, <1>4, <1>5 DEF Next

\* BackoffNeverRewound for every category, every timing and window, every
\* initial state and a MAC that may Cancel: no handler (the decrement loop
\* of TransitionToBusy, RequestAccessAfterBackoff's reset, the orphan
\* timers Cancel leaves behind) raises m_backoffCount; only the draw of
\* RequestAccess for a request the MAC has just made does.
THEOREM BackoffNeverRewoundProperty == Spec => BackoffNeverRewound
<1>1. TypeOK /\ [Next]_vars => [NotRewound]_vars
  BY NextNotRewound
<1>2. QED
  BY <1>1, TypeCorrect, PTL DEF Spec, BackoffNeverRewound, NotRewound


-----------------------------------------------------------------------------
(* The Cat4 contention window.                                             *)

\* A remainder below the modulus is the number itself.
LEMMA ModSmall ==
  ASSUME NEW x \in Nat, NEW m \in Nat \ {0}, x < m
  PROVE  x % m = x
OBVIOUS

\* The step property WindowDoublesOnFailure asks of every step.
Doubling ==
  (cw \in Cat4MinCw .. Cat4MaxCw /\ Cat4Evaluates /\ Cat4Failed(acks, nacks)) =>
    cw' = MinOf(2 * (cw + 1) - 1, Cat4MaxCw)

\* A step that leaves the feedback counters alone evaluates nothing.
LEMMA KeptFeedbackNoEvaluation ==
  ASSUME acks' = acks, nacks' = nacks
  PROVE  ~Cat4Evaluates
BY DEF Cat4Evaluates

\* Without a wrap, UpdateFailedCw doubles cw + 1 and saturates at cwMax.
LEMMA UpdateFailedCwExact ==
  ASSUME NEW w \in 0 .. Cat4MaxCw, 2 * Cat4MaxCw + 1 < 2^CwWidth
  PROVE  UpdateFailedCw(w) = MinOf(2 * (w + 1) - 1, Cat4MaxCw)
<1>1. 2 * (w + 1) - 1 \in Nat /\ 2 * (w + 1) - 1 < 2^CwWidth
  BY WindowAssumption
<1>2. (2 * (w + 1) - 1) % (2^CwWidth) = 2 * (w + 1) - 1
  BY <1>1, ModulusPositive, ModSmall
<1>3. QED
  BY <1>2 DEF UpdateFailedCw

\* The draw of RequestAccess in an initialized Cat3 or Cat4 manager.
LEMMA BaseRequestAccessDoubling ==
  ASSUME TypeOK, initialized, BaseRequestAccess,
         2 * Cat4MaxCw + 1 < 2^CwWidth
  PROVE  Doubling
<1> DEFINE win == Cat4Window(cw, acks, nacks, numberOfAttempts)
<1>1. InitializedCw = cw
  BY DEF InitializedCw
<1>2. CASE grantRequested \/ -lastBusyTime >= DeferTime
  <2>1. acks' = acks /\ nacks' = nacks
    BY <1>2 DEF BaseRequestAccess
  <2>2. QED
    BY <2>1, KeptFeedbackNoEvaluation DEF Doubling
<1>3. CASE ~grantRequested /\ ~(-lastBusyTime >= DeferTime) /\ Category = "Cat4"
  <2>1. cw' = win.cw
    BY <1>1, <1>3 DEF BaseRequestAccess
  <2>2. SUFFICES ASSUME cw \in Cat4MinCw .. Cat4MaxCw, Cat4Evaluates,
                        Cat4Failed(acks, nacks)
                 PROVE  cw' = MinOf(2 * (cw + 1) - 1, Cat4MaxCw)
    BY DEF Doubling
  <2>3. ~(acks = 0 /\ nacks = 0)
    BY <2>2 DEF Cat4Evaluates
  <2>4. win.cw = UpdateFailedCw(cw)
    BY <2>2, <2>3 DEF Cat4Window
  <2>5. cw \in 0 .. Cat4MaxCw
    BY <2>2, WindowAssumption
  <2>6. QED
    BY <2>1, <2>4, <2>5, UpdateFailedCwExact
<1>4. CASE ~grantRequested /\ ~(-lastBusyTime >= DeferTime) /\ Category # "Cat4"
  <2>1. acks' = acks /\ nacks' = nacks
    BY <1>4 DEF BaseRequestAccess
  <2>2. QED
    BY <2>1, KeptFeedbackNoEvaluation DEF Doubling
<1>5. QED
  BY <1>2, <1>3, <1>4

\* Every step of an initialized manager whose window arithmetic cannot wrap
\* doubles the window on a failure.
LEMMA NextDoubling ==
  ASSUME TypeOK, initialized, [Next]_vars, 2 * Cat4MaxCw + 1 < 2^CwWidth
  PROVE  [Doubling]_vars
<1>1. CASE RequestAccess /\ Category # "Cat2"
  BY <1>1, BaseRequestAccessDoubling DEF RequestAccess
<1>2. CASE RequestAccess /\ Category = "Cat2"
  <2>1. acks' = acks /\ nacks' = nacks
    BY <1>2 DEF RequestAccess, Cat2RequestAccess, cat4Vars
  <2>2. QED
    BY <2>1, KeptFeedbackNoEvaluation DEF Doubling
<1>3. CASE DlHarqFeedback
  <2>1. acks' # 0 \/ nacks' # 0
    BY <1>3 DEF DlHarqFeedback, TypeOK
  <2>2. QED
    BY <2>1 DEF Doubling, Cat4Evaluates
<1>4. CASE Cancel \/ ChannelOccupied \/ Initialize \/ FireEvent \/ AdvanceTime
  <2>1. acks' = acks /\ nacks' = nacks
    BY <1>4 DEF Cancel, ChannelOccupied, Initialize, FireEvent, AdvanceTime, cat4Vars
  <2>2. QED
    BY <2>1, KeptFeedbackNoEvaluation DEF Doubling
<1>5. CASE UNCHANGED vars
  BY <1>5 DEF vars, cat4Vars
<1>6. QED
  BY <1>1, <1>2, <1>3, <1>4, <1>5 DEF Next

\* Once initialized, the object stays initialized.
LEMMA InitializedStays ==
  ASSUME initialized, [Next]_vars
  PROVE  initialized'
<1>1. CASE Initialize
  BY <1>1 DEF Initialize
<1>2. CASE ~Initialize
  BY <1>2 DEF Next, RequestAccess, Cancel, ChannelOccupied, DlHarqFeedback,
              FireEvent, AdvanceTime, vars
<1>3. QED
  BY <1>1, <1>2

\* WindowDoublesOnFailure for every update rule, retry limit, window and
\* timing, and a MAC that may Cancel, provided ns-3 initializes the manager
\* before its first request and 2 * cwMax + 1 fits the window's width
\* (cwMax < 2^31 for the uint32_t of the code).  The runs cat4_uninitialized
\* and cat4_cw_overflow show that neither hypothesis can be dropped.
THEOREM WindowDoublesOnFailureProperty ==
  ASSUME InitializedBeforeRun, 2 * Cat4MaxCw + 1 < 2^CwWidth
  PROVE  Spec => WindowDoublesOnFailure
<1>1. Init => initialized
  BY DEF Init
<1>2. initialized /\ [Next]_vars => initialized'
  BY InitializedStays
<1>3. TypeOK /\ initialized /\ [Next]_vars => [Doubling]_vars
  BY NextDoubling
<1>4. Spec => [](initialized)
  BY <1>1, <1>2, PTL DEF Spec
<1>5. Spec => [][Doubling]_vars
  BY <1>3, <1>4, TypeCorrect, PTL DEF Spec
<1>6. QED
  BY <1>5 DEF WindowDoublesOnFailure, Doubling


-----------------------------------------------------------------------------
(* The Cat4 window stays within its bounds.                                *)

\* An evaluation of the feedback keeps a window within [cwMin, cwMax].
LEMMA Cat4WindowBounds ==
  ASSUME Cat4MinCw <= Cat4MaxCw, 2 * Cat4MaxCw + 1 < 2^CwWidth,
         NEW w \in Cat4MinCw .. Cat4MaxCw, NEW a, NEW n, NEW att \in Nat
  PROVE  Cat4Window(w, a, n, att).cw \in Cat4MinCw .. Cat4MaxCw
<1>1. w \in 0 .. Cat4MaxCw
  BY WindowAssumption
<1>2. UpdateFailedCw(w) \in Cat4MinCw .. Cat4MaxCw
  <2>1. UpdateFailedCw(w) = MinOf(2 * (w + 1) - 1, Cat4MaxCw)
    BY <1>1, UpdateFailedCwExact
  <2>2. QED
    BY <2>1, WindowAssumption DEF MinOf
<1>3. ResetCw(w, att).cw \in Cat4MinCw .. Cat4MaxCw
  BY WindowAssumption DEF ResetCw
<1>4. CASE a = 0 /\ n = 0
  BY <1>4 DEF Cat4Window
<1>5. CASE ~(a = 0 /\ n = 0) /\ Cat4Failed(a, n)
  BY <1>2, <1>5 DEF Cat4Window
<1>6. CASE ~(a = 0 /\ n = 0) /\ ~Cat4Failed(a, n)
  BY <1>3, <1>6 DEF Cat4Window
<1>7. QED
  BY <1>4, <1>5, <1>6

\* RequestAccess of Cat3 and Cat4 keeps an initialized window in bounds.
LEMMA BaseRequestAccessBounds ==
  ASSUME Cat4MinCw <= Cat4MaxCw, 2 * Cat4MaxCw + 1 < 2^CwWidth,
         TypeOK, CwWithinBounds, BaseRequestAccess, initialized, Category = "Cat4"
  PROVE  cw' \in Cat4MinCw .. Cat4MaxCw
<1>1. InitializedCw = cw /\ cw \in Cat4MinCw .. Cat4MaxCw
  BY DEF InitializedCw, CwWithinBounds
<1>2. CASE grantRequested \/ -lastBusyTime >= DeferTime
  BY <1>1, <1>2 DEF BaseRequestAccess
<1>3. CASE ~grantRequested /\ ~(-lastBusyTime >= DeferTime)
  <2>1. cw' = Cat4Window(cw, acks, nacks, numberOfAttempts).cw
    BY <1>1, <1>3 DEF BaseRequestAccess
  <2>2. QED
    BY <1>1, <2>1, Cat4WindowBounds DEF TypeOK
<1>4. QED
  BY <1>2, <1>3

LEMMA NextCwBounds ==
  ASSUME Cat4MinCw <= Cat4MaxCw, 2 * Cat4MaxCw + 1 < 2^CwWidth,
         TypeOK, CwWithinBounds, [Next]_vars
  PROVE  CwWithinBounds'
<1> SUFFICES ASSUME Category = "Cat4", initialized'
             PROVE  cw' \in Cat4MinCw .. Cat4MaxCw
  BY DEF CwWithinBounds
<1>1. CASE RequestAccess
  <2>1. initialized /\ BaseRequestAccess
    BY <1>1 DEF RequestAccess
  <2>2. QED
    BY <2>1, BaseRequestAccessBounds
<1>2. CASE Initialize
  BY <1>2, WindowAssumption DEF Initialize
<1>3. CASE Cancel \/ ChannelOccupied \/ DlHarqFeedback \/ FireEvent \/ AdvanceTime
  <2>1. UNCHANGED <<cw, initialized>>
    BY <1>3 DEF Cancel, ChannelOccupied, DlHarqFeedback, FireEvent, AdvanceTime, cat4Vars
  <2>2. QED
    BY <2>1 DEF CwWithinBounds
<1>4. CASE UNCHANGED vars
  BY <1>4 DEF vars, cat4Vars, CwWithinBounds
<1>5. QED
  BY <1>1, <1>2, <1>3, <1>4 DEF Next

\* For every update rule and retry limit, every timing, and a MAC that may
\* Cancel, the Cat4 window stays within [cwMin, cwMax] once DoInitialize has
\* set it, provided the configuration has cwMin <= cwMax and 2 * cwMax + 1
\* fits the window's width (cwMax < 2^31 for the uint32_t of the code).
THEOREM CwWithinBoundsInvariant ==
  ASSUME Cat4MinCw <= Cat4MaxCw, 2 * Cat4MaxCw + 1 < 2^CwWidth
  PROVE  Spec => []CwWithinBounds
<1>1. Init => CwWithinBounds
  BY WindowAssumption, EnvironmentAssumption DEF Init, CwWithinBounds
<1>2. TypeOK /\ CwWithinBounds /\ [Next]_vars => CwWithinBounds'
  BY NextCwBounds
<1>3. QED
  BY <1>1, <1>2, TypeCorrect, PTL DEF Spec


-----------------------------------------------------------------------------
(* The decrement loop against the spec's count of whole slots.             *)

\* After elapsed = q * SlotTime + r with 0 <= r < SlotTime, the loop of
\* TransitionToBusy charges q slots when r = 0 and q + 1 otherwise.
LEMMA CeilingDiv ==
  ASSUME NEW e \in Nat, NEW s \in Nat \ {0}
  PROVE  (e + s - 1) \div s = IF e % s = 0 THEN e \div s ELSE e \div s + 1
<1> DEFINE q == e \div s
           r == e % s
<1>1. e = q * s + r /\ r \in 0 .. s - 1 /\ q \in Nat
  OBVIOUS
<1>2. e + s - 1 = q * s + (r + s - 1)
  BY <1>1
<1>3. CASE r = 0
  <2>1. (q * s + (s - 1)) \div s = q
    BY <1>1
  <2>2. QED
    BY <1>2, <1>3, <2>1
<1>4. CASE r # 0
  <2>1. (q * s + (r + s - 1)) \div s = q + 1
    <3>1. r + s - 1 \in s .. 2 * s - 2
      BY <1>1, <1>4
    <3>2. QED
      BY <1>1, <3>1
  <2>2. QED
    BY <1>2, <1>4, <2>1
<1>5. QED
  BY <1>3, <1>4

\* The backoff_resume_spec finding, for every slot time, count and elapsed
\* time: the loop of TransitionToBusy resumes a backoff of c slots
\* interrupted after e time units with exactly the spec's c - e \div SlotTime
\* slots (never below 0) when e is a whole number of slots, and with one
\* slot fewer otherwise.
THEOREM SlotsConsumedCeiling ==
  ASSUME NEW e \in Nat, NEW c \in Nat
  PROVE  SlotsConsumed(e, c) =
           IF e % SlotTime = 0 THEN MinOf(c, e \div SlotTime)
                               ELSE MinOf(c, e \div SlotTime + 1)
<1>1. SlotTime \in Nat \ {0}
  BY TimingAssumption
<1>2. CASE e = 0
  <2>1. e % SlotTime = 0 /\ e \div SlotTime = 0
    BY <1>1, <1>2
  <2>2. QED
    BY <1>2, <2>1 DEF SlotsConsumed, MinOf
<1>3. CASE e > 0
  BY <1>1, <1>3, CeilingDiv DEF SlotsConsumed
<1>4. QED
  BY <1>2, <1>3

=============================================================================
