----------------------- MODULE NrLbtRefinementProofs -----------------------
(***************************************************************************)
(* Proofs that the LBT access manager keeps its promise to the MAC and to *)
(* the channel when the MAC never calls Cancel (): it implements the      *)
(* abstract specification LbtChannelAccess, it grants only after a full   *)
(* idle defer, and every callback answers an outstanding request.  They   *)
(* rest on the timer discipline of NrLbtAccessManagerProofs (TDInv) and on *)
(* the facts SyncOK adds: the ghost busyUntil and m_lastBusyTime agree,    *)
(* m_grantRequested is exactly the MAC's outstanding request, and a        *)
(* pending defer event fires no earlier than a full defer after           *)
(* m_lastBusyTime.                                                         *)
(***************************************************************************)
EXTENDS NrLbtAccessManagerProofs

\* A pending defer event fires no earlier than DeferTime after lbt.
DeferBounded(evs, lbt) ==
  \A i \in DOMAIN evs : evs[i].kind = "defer" => lbt + DeferTime <= evs[i].at

\* What the manager's members say about the channel and the MAC.
SyncOK ==
  /\ fault = "none" => busyUntil = lastBusyTime
  /\ state # "BUSY" => lastBusyTime <= 0
  /\ macWaiting = grantRequested
  /\ DeferBounded(events, lastBusyTime)
  /\ state = "WAIT_FOR_BACKOFF" => lastBusyTime = -DeferTime
  /\ lastCb = "grant" => busyUntil = -DeferTime
  /\ lastCb # "none" => cbSolicited

\* The inductive invariant of the refinement.
RInv == TDInv /\ SyncOK

-----------------------------------------------------------------------------
(* The defer bound under the queue operations.                             *)

\* A queue with no defer event pending bounds every time.
LEMMA DeferFree ==
  ASSUME NEW evs, "defer" \notin KindsOf(evs), NEW x
  PROVE  DeferBounded(evs, x)
BY DEF KindsOf, DeferBounded

\* Arming the defer timer of an idle manager, no earlier than a full
\* defer after x.
LEMMA DeferArm ==
  ASSUME NEW evs \in Seq(Event), KindsOf(evs) = {}, NEW d, NEW x, x + DeferTime <= d
  PROVE  DeferBounded(Schedule(evs, "defer", d), x)
<1> DEFINE r == [kind |-> "defer", at |-> d, held |-> TRUE]
<1>1. Schedule(evs, "defer", d) = Append(evs, r)
  BY ScheduleFresh
<1>2. DOMAIN evs = {}
  BY DEF KindsOf
<1>3. Len(evs) = 0
  BY <1>2, LenProperties
<1>4. DOMAIN Append(evs, r) = {1} /\ Append(evs, r)[1] = r
  BY <1>3, AppendProperties
<1>5. QED
  BY <1>1, <1>4 DEF DeferBounded

\* One time unit passes with no event due.
LEMMA DeferShift ==
  ASSUME NEW evs \in Seq(Event), NEW x \in Int, DeferBounded(evs, x),
         \A i \in DOMAIN evs : evs[i].at > 0
  PROVE  DeferBounded([i \in DOMAIN evs |->
                         [kind |-> evs[i].kind, at |-> evs[i].at - 1, held |-> evs[i].held]],
                      MaxOf(x - 1, -DeferTime))
<1>1. \A i \in DOMAIN evs : evs[i].at \in Nat
  BY QueueElements DEF Event
<1>2. QED
  BY <1>1, TimingAssumption DEF DeferBounded, MaxOf

\* A defer event that fires now finds the channel idle for the full defer.
LEMMA DeferDue ==
  ASSUME TypeOK, DeferBounded(events, lastBusyTime), NEW i \in DOMAIN events,
         events[i].kind = "defer", events[i].at = 0
  PROVE  lastBusyTime = -DeferTime
BY TimingAssumption DEF DeferBounded, TypeOK

\* After a step that keeps the timer discipline and leaves the manager out
\* of WAIT_FOR_DEFER, the bound holds for want of a defer event.
LEMMA DeferAway ==
  ASSUME TDInv', state' # "WAIT_FOR_DEFER"
  PROVE  DeferBounded(events', lastBusyTime')
<1>1. "defer" \notin KindsOf(events')
  BY DEF TDInv, QueueOK, PendingFor
<1>2. QED
  BY <1>1, DeferFree

-----------------------------------------------------------------------------
(* RequestAccess (): what a call does to the members SyncOK relates.      *)

\* The m_grantRequested early return.
ReqPending ==
  /\ lastCb' = "none" /\ fault' = "none"
  /\ UNCHANGED <<state, backoffCount, grantRequested, events, lastBusyTime>>

\* The fast path: the channel has been idle for m_deferTime.
ReqGranted ==
  /\ lastCb' = "grant" /\ grantRequested' = FALSE /\ state' = "TXOP_GRANTED"
  /\ fault' = "none"
  /\ UNCHANGED <<backoffCount, events, lastBusyTime>>

\* The slow path: the request waits for the defer, the busy end or the
\* timer already running.
ReqWaits ==
  /\ lastCb' = "none" /\ grantRequested' = TRUE /\ fault' = "none"
  /\ UNCHANGED lastBusyTime
  /\ \/ /\ state = "IDLE" /\ state' = "WAIT_FOR_DEFER"
        /\ events' = Schedule(events, "defer", DeferTime + lastBusyTime)
     \/ state' = "BUSY"
     \/ state # "IDLE" /\ UNCHANGED <<state, events>>

\* Cat2 denies a request that finds it anywhere but IDLE.
ReqDenied ==
  /\ Category = "Cat2"
  /\ state # "IDLE"
  /\ lastCb' = "deny" /\ grantRequested' = FALSE /\ fault' = "none"
  /\ UNCHANGED <<state, backoffCount, events, lastBusyTime>>

RequestOutcome ==
  \/ grantRequested /\ ReqPending
  \/ ~grantRequested /\ -lastBusyTime >= DeferTime /\ ReqGranted
  \/ ~grantRequested /\ ~(-lastBusyTime >= DeferTime) /\ (ReqWaits \/ ReqDenied)

\* NrLbtAccessManager::RequestAccess (Cat3 and Cat4).
LEMMA BaseRequestOutcome ==
  ASSUME TDInv, SyncOK, Category # "Cat2", BaseRequestAccess
  PROVE  RequestOutcome
<1>1. CASE grantRequested
  <2>1. ReqPending
    BY <1>1 DEF BaseRequestAccess, ReqPending, lbtVars
  <2>2. QED
    BY <1>1, <2>1 DEF RequestOutcome
<1>2. CASE ~grantRequested /\ -lastBusyTime >= DeferTime
  <2>1. ReqGranted
    BY <1>2 DEF BaseRequestAccess, ReqGranted, SetGrant
  <2>2. QED
    BY <1>2, <2>1 DEF RequestOutcome
<1>3. CASE ~grantRequested /\ ~(-lastBusyTime >= DeferTime)
  <2>1. \E n : BaseRequestAccessSlow(n)
    BY <1>3 DEF BaseRequestAccess
  <2>2. PICK n : BaseRequestAccessSlow(n)
    BY <2>1
  <2>3. CASE state = "IDLE"
    <3>1. /\ state' = "WAIT_FOR_DEFER"
          /\ events' = Schedule(events, "defer", DeferTime + lastBusyTime)
          /\ grantRequested' = TRUE /\ lastCb' = "none" /\ fault' = "none"
          /\ UNCHANGED lastBusyTime
      BY <2>2, <2>3 DEF BaseRequestAccessSlow
    <3>2. QED
      BY <1>3, <2>3, <3>1 DEF ReqWaits, RequestOutcome
  <2>4. CASE state # "IDLE" /\ lastBusyTime > 0
    <3>1. state = "BUSY"
      BY <2>4 DEF SyncOK, TDInv, TypeOK
    <3>2. BusyExtended(lastBusyTime, n, TRUE, events)
      BY <2>2, <2>4, <3>1 DEF BaseRequestAccessSlow, TransitionToBusy, BaseTransitionToBusy
    <3>3. MaxOf(lastBusyTime, lastBusyTime) = lastBusyTime
      BY DEF MaxOf
    <3>4. ReqWaits
      BY <3>2, <3>3 DEF BusyExtended, ReqWaits
    <3>5. QED
      BY <1>3, <3>4 DEF RequestOutcome
  <2>5. CASE state # "IDLE" /\ ~(lastBusyTime > 0)
    <3>1. /\ grantRequested' = TRUE /\ lastCb' = "none" /\ fault' = "none"
          /\ UNCHANGED <<state, events, lastBusyTime>>
      BY <2>2, <2>5 DEF BaseRequestAccessSlow
    <3>2. QED
      BY <1>3, <2>5, <3>1 DEF ReqWaits, RequestOutcome
  <2>6. QED
    BY <1>3, <2>3, <2>4, <2>5 DEF RequestOutcome
<1>4. QED
  BY <1>1, <1>2, <1>3

\* NrCat2LbtAccessManager::RequestAccess.
LEMMA Cat2RequestOutcome ==
  ASSUME Category = "Cat2", Cat2RequestAccess
  PROVE  RequestOutcome
<1>1. CASE grantRequested
  BY <1>1 DEF Cat2RequestAccess, ReqPending, RequestOutcome
<1>2. CASE ~grantRequested /\ -lastBusyTime >= DeferTime
  BY <1>2 DEF Cat2RequestAccess, ReqGranted, SetGrant, RequestOutcome
<1>3. CASE ~grantRequested /\ ~(-lastBusyTime >= DeferTime) /\ state = "IDLE"
  BY <1>3 DEF Cat2RequestAccess, ReqWaits, RequestOutcome
<1>4. CASE ~grantRequested /\ ~(-lastBusyTime >= DeferTime) /\ state # "IDLE"
  BY <1>4 DEF Cat2RequestAccess, ReqDenied, RequestOutcome
<1>5. QED
  BY <1>1, <1>2, <1>3, <1>4

\* A fault-free manager with the channel in sync: m_lastBusyTime is at most
\* -m_deferTime exactly when the channel has been idle for the defer.
LEMMA ClearIff ==
  ASSUME TypeOK, SyncOK, fault = "none"
  PROVE  (-lastBusyTime >= DeferTime) <=> ChannelAccess!Clear
BY TimingAssumption DEF TypeOK, SyncOK, ChannelAccess!Clear

\* RequestAccess () keeps SyncOK and is a Request of the abstract manager.
LEMMA RequestAccessStep ==
  ASSUME RInv, fault = "none", TDInv', RequestAccess
  PROVE  SyncOK' /\ ChannelAccess!Request
<1>1. RequestOutcome
  BY BaseRequestOutcome, Cat2RequestOutcome DEF RInv, RequestAccess
<1>2. /\ macWaiting' = (lastCb' = "none") /\ cbSolicited' = TRUE
      /\ UNCHANGED busyUntil /\ fault' = "none"
  <2>1. macWaiting' = (lastCb' = "none") /\ cbSolicited' = TRUE /\ UNCHANGED busyUntil
    BY DEF RequestAccess
  <2>2. fault' = "none"
    BY <1>1 DEF RequestOutcome, ReqPending, ReqGranted, ReqWaits, ReqDenied
  <2>3. QED
    BY <2>1, <2>2
<1>3. /\ busyUntil = lastBusyTime /\ macWaiting = grantRequested
      /\ state # "BUSY" => lastBusyTime <= 0
      /\ lastBusyTime \in -DeferTime .. MaxBusy
  BY DEF RInv, SyncOK, TDInv, TypeOK
<1>4. (-lastBusyTime >= DeferTime) <=> busyUntil = -DeferTime
  BY ClearIff DEF RInv, TDInv, ChannelAccess!Clear
<1>5. UNCHANGED lastBusyTime
  BY <1>1 DEF RequestOutcome, ReqPending, ReqGranted, ReqWaits, ReqDenied
<1>6. DeferBounded(events', lastBusyTime')
  <2>1. CASE UNCHANGED <<events, lastBusyTime>>
    BY <2>1 DEF RInv, SyncOK
  <2>2. CASE state = "IDLE" /\ events' = Schedule(events, "defer", DeferTime + lastBusyTime)
    <3>1. KindsOf(events) = {}
      BY <2>2 DEF RInv, TDInv, QueueOK, PendingFor
    <3>2. events \in Seq(Event) /\ lastBusyTime \in Int
      BY DEF RInv, TDInv, TypeOK
    <3>3. QED
      BY <1>5, <2>2, <3>1, <3>2, DeferArm, TimingAssumption
  <2>3. CASE state' # "WAIT_FOR_DEFER"
    BY <2>3, DeferAway
  <2>4. QED
    BY <1>1, <2>1, <2>2, <2>3 DEF RequestOutcome, ReqPending, ReqGranted, ReqWaits, ReqDenied
<1>7. state' # "BUSY" => lastBusyTime' <= 0
  BY <1>1, <1>3, <1>5, TimingAssumption
     DEF RequestOutcome, ReqPending, ReqGranted, ReqWaits, ReqDenied
<1>8. state' = "WAIT_FOR_BACKOFF" => lastBusyTime' = -DeferTime
  BY <1>1, <1>5 DEF RInv, SyncOK, RequestOutcome, ReqPending, ReqGranted, ReqWaits, ReqDenied
<1>9. macWaiting' = grantRequested'
  BY <1>1, <1>2, <1>3 DEF RequestOutcome, ReqPending, ReqGranted, ReqWaits, ReqDenied
<1>10. lastCb' = "grant" => busyUntil' = -DeferTime
  BY <1>1, <1>2, <1>3, TimingAssumption DEF RequestOutcome, ReqPending, ReqGranted, ReqWaits, ReqDenied
<1>11. SyncOK'
  BY <1>2, <1>3, <1>5, <1>6, <1>7, <1>8, <1>9, <1>10 DEF SyncOK
<1>12. ChannelAccess!Request
  BY <1>1, <1>2, <1>3, <1>4
     DEF RequestOutcome, ReqPending, ReqGranted, ReqWaits, ReqDenied,
         ChannelAccess!Request, ChannelAccess!Clear
<1>13. QED
  BY <1>11, <1>12

-----------------------------------------------------------------------------
(* The PHY's busy report: TransitionToBusy (d).                            *)

\* The busy end moves to the later of the two and the manager is BUSY, or
\* an abort leaves everything, or Cat2 denies the request it deferred for.
BusyOutcome(d) ==
  \/ /\ lastCb' = "none" /\ UNCHANGED grantRequested
     /\ state' = "BUSY" /\ lastBusyTime' = MaxOf(lastBusyTime, d)
     /\ backoffCount' # 0 => backoffCount # 0
  \/ /\ lastCb' = "none" /\ fault' # "none"
     /\ UNCHANGED <<state, backoffCount, grantRequested, events, lastBusyTime>>
  \/ /\ Category = "Cat2" /\ state = "WAIT_FOR_DEFER"
     /\ lastCb' = "deny" /\ grantRequested' = FALSE /\ UNCHANGED backoffCount
     /\ state' = "BUSY" /\ lastBusyTime' = MaxOf(lastBusyTime, d)

LEMMA TransitionToBusyOutcome ==
  ASSUME TDInv, SyncOK, NEW d \in 1 .. MaxBusy,
         TransitionToBusy(d, backoffCount, grantRequested, events)
  PROVE  BusyOutcome(d)
<1> DEFINE bc == backoffCount
           gr == grantRequested
<1>1. state # "BUSY" => MaxOf(lastBusyTime, d) = d
  BY DEF SyncOK, TDInv, TypeOK, MaxOf
<1>2. ASSUME BaseTransitionToBusy(d, bc, gr, events) PROVE BusyOutcome(d)
  <2>1. CASE state \in {"IDLE", "TXOP_GRANTED"}
    <3>1. /\ lastBusyTime' = d /\ state' = "BUSY"
          /\ grantRequested' = gr /\ lastCb' = "none" /\ backoffCount' = bc
      BY <1>2, <2>1 DEF BaseTransitionToBusy, GoBusy
    <3>2. QED
      BY <1>1, <2>1, <3>1 DEF BusyOutcome
  <2>2. CASE state = "BUSY"
    <3>1. /\ lastBusyTime' = MaxOf(lastBusyTime, d) /\ state' = "BUSY"
          /\ grantRequested' = gr /\ lastCb' = "none" /\ backoffCount' = bc
      BY <1>2, <2>2 DEF BaseTransitionToBusy, BusyExtended
    <3>2. QED
      BY <3>1 DEF BusyOutcome
  <2>3. CASE state \in {"WAIT_FOR_DEFER", "WAIT_FOR_BACKOFF"}
    <3>1. /\ lastBusyTime' = d /\ state' = "BUSY"
          /\ grantRequested' = gr /\ lastCb' = "none"
      BY <1>2, <2>3 DEF BaseTransitionToBusy, GoBusy
    <3>2. backoffCount' # 0 => backoffCount # 0
      <4>1. backoffCount' \in {bc, bc - SlotsConsumed(backoffElapsed, bc)}
        BY <1>2, <2>3 DEF BaseTransitionToBusy
      <4>2. bc \in Nat /\ backoffElapsed \in Nat
        BY DEF TDInv, TypeOK
      <4>3. SlotsConsumed(backoffElapsed, bc) \in 0 .. bc
        BY <4>2, SlotsConsumedRange
      <4>4. QED
        BY <4>1, <4>2, <4>3
    <3>3. QED
      BY <1>1, <2>3, <3>1, <3>2 DEF BusyOutcome
  <2>4. CASE state \notin {"IDLE", "TXOP_GRANTED", "BUSY", "WAIT_FOR_DEFER", "WAIT_FOR_BACKOFF"}
    <3>1. /\ fault' = "UnreachableBusyState" /\ lastCb' = "none"
          /\ UNCHANGED <<state, backoffCount, grantRequested, events, lastBusyTime>>
      BY <1>2, <2>4 DEF BaseTransitionToBusy
    <3>2. QED
      BY <3>1 DEF BusyOutcome
  <2>5. QED
    BY <2>1, <2>2, <2>3, <2>4
<1>3. CASE Category = "Cat2" /\ state = "WAIT_FOR_DEFER"
  <2>1. /\ lastBusyTime' = d /\ state' = "BUSY"
        /\ grantRequested' = FALSE /\ lastCb' = "deny" /\ backoffCount' = bc
    BY <1>3 DEF TransitionToBusy, Cat2TransitionToBusy, GoBusy
  <2>2. QED
    BY <1>1, <1>3, <2>1 DEF BusyOutcome
<1>4. CASE Category = "Cat2" /\ state = "WAIT_FOR_BACKOFF"
  <2>1. /\ fault' = "Cat2InBackoff" /\ lastCb' = "none"
        /\ UNCHANGED <<state, backoffCount, grantRequested, events, lastBusyTime>>
    BY <1>4 DEF TransitionToBusy, Cat2TransitionToBusy
  <2>2. QED
    BY <2>1 DEF BusyOutcome
<1>5. CASE Category = "Cat2" /\ state \notin {"WAIT_FOR_DEFER", "WAIT_FOR_BACKOFF"}
  BY <1>2, <1>5 DEF TransitionToBusy, Cat2TransitionToBusy
<1>6. CASE Category # "Cat2"
  BY <1>2, <1>6 DEF TransitionToBusy
<1>7. QED
  BY <1>3, <1>4, <1>5, <1>6

\* A busy report keeps SyncOK and is a Busy (d) of the abstract manager.
LEMMA ChannelOccupiedStep ==
  ASSUME RInv, fault = "none", TDInv', ChannelOccupied
  PROVE  SyncOK' /\ \E d \in 1 .. MaxBusy : ChannelAccess!Busy(d)
<1>1. PICK d \in 1 .. MaxBusy :
        /\ TransitionToBusy(d, backoffCount, grantRequested, events)
        /\ busyUntil' = MaxOf(busyUntil, d)
  BY DEF ChannelOccupied
<1>2. BusyOutcome(d)
  BY <1>1, TransitionToBusyOutcome DEF RInv
<1>3. /\ macWaiting' = IF lastCb' = "none" THEN macWaiting ELSE FALSE
      /\ cbSolicited' = macWaiting
  BY DEF ChannelOccupied, MacObserves
<1>4. /\ busyUntil = lastBusyTime /\ macWaiting = grantRequested
      /\ state # "BUSY" => lastBusyTime <= 0
      /\ state = "WAIT_FOR_DEFER" => grantRequested
      /\ DeferBounded(events, lastBusyTime)
      /\ state = "WAIT_FOR_BACKOFF" => lastBusyTime = -DeferTime
  BY DEF RInv, SyncOK, TDInv, QueueOK
<1>5. CASE BusyOutcome(d)!1
  <2>1. DeferBounded(events', lastBusyTime')
    BY <1>5, DeferAway
  <2>2. SyncOK'
    BY <1>1, <1>3, <1>4, <1>5, <2>1 DEF SyncOK
  <2>3. ChannelAccess!Busy(d)
    BY <1>1, <1>3, <1>4, <1>5 DEF ChannelAccess!Busy, MaxOf
  <2>4. QED
    BY <2>2, <2>3
<1>6. CASE BusyOutcome(d)!2
  <2>1. SyncOK'
    BY <1>3, <1>4, <1>6 DEF SyncOK
  <2>2. ChannelAccess!Busy(d)
    BY <1>1, <1>3, <1>6 DEF ChannelAccess!Busy, MaxOf
  <2>3. QED
    BY <2>1, <2>2
<1>7. CASE BusyOutcome(d)!3
  <2>1. DeferBounded(events', lastBusyTime')
    BY <1>7, DeferAway
  <2>2. macWaiting /\ macWaiting' = FALSE /\ cbSolicited'
    BY <1>3, <1>4, <1>7
  <2>3. /\ busyUntil' = lastBusyTime' /\ state' = "BUSY"
        /\ lastCb' = "deny" /\ grantRequested' = FALSE
    BY <1>1, <1>4, <1>7
  <2>4. SyncOK'
    BY <2>1, <2>2, <2>3, Zenon DEF SyncOK
  <2>5. ChannelAccess!Busy(d)
    BY <1>1, <1>4, <1>7, <2>2 DEF ChannelAccess!Busy, MaxOf
  <2>6. QED
    BY <2>4, <2>5
<1>8. QED
  BY <1>2, <1>5, <1>6, <1>7 DEF BusyOutcome

-----------------------------------------------------------------------------
(* Steps that grant a waiting request, and steps that answer nothing.      *)

\* SetGrant () from a waiting state after a full idle defer.
LEMMA GrantStep ==
  ASSUME RInv, fault = "none", TDInv',
         state \in {"WAIT_FOR_DEFER", "WAIT_FOR_BACKOFF"}, lastBusyTime = -DeferTime,
         SetGrant, fault' = "none", UNCHANGED <<lastBusyTime, busyUntil>>,
         macWaiting' = IF lastCb' = "none" THEN macWaiting ELSE FALSE,
         cbSolicited' = macWaiting
  PROVE  SyncOK' /\ ChannelAccess!Grant
<1>1. /\ busyUntil = lastBusyTime /\ macWaiting = grantRequested /\ grantRequested
  BY DEF RInv, SyncOK, TDInv, QueueOK
<1>2. /\ state' = "TXOP_GRANTED" /\ grantRequested' = FALSE /\ lastCb' = "grant"
      /\ macWaiting' = FALSE /\ cbSolicited' = TRUE
  BY <1>1 DEF SetGrant
<1>3. DeferBounded(events', lastBusyTime')
  BY <1>2, DeferAway
<1>4. /\ busyUntil' = lastBusyTime' /\ lastBusyTime' <= 0 /\ busyUntil' = -DeferTime
  BY <1>1, TimingAssumption
<1>5. SyncOK'
  BY <1>2, <1>3, <1>4, Zenon DEF SyncOK
<1>6. ChannelAccess!Grant
  BY <1>1, <1>2 DEF ChannelAccess!Grant, ChannelAccess!Clear
<1>7. QED
  BY <1>5, <1>6

\* A step that invokes no callback and leaves the request and the busy end.
LEMMA QuietStep ==
  ASSUME RInv, lastCb' = "none", UNCHANGED <<fault, grantRequested, lastBusyTime, busyUntil>>,
         macWaiting' = IF lastCb' = "none" THEN macWaiting ELSE FALSE,
         state' # "BUSY" => lastBusyTime <= 0,
         state' = "WAIT_FOR_BACKOFF" => lastBusyTime = -DeferTime,
         DeferBounded(events', lastBusyTime)
  PROVE  SyncOK' /\ ChannelAccess!Quiet
<1>1. /\ fault = "none" => busyUntil = lastBusyTime
      /\ macWaiting = grantRequested
  BY DEF RInv, SyncOK
<1>2. SyncOK'
  BY <1>1 DEF SyncOK
<1>3. ChannelAccess!Quiet
  BY DEF ChannelAccess!Quiet
<1>4. QED
  BY <1>2, <1>3

-----------------------------------------------------------------------------
(* The scheduler dispatches a timer.                                       *)

\* A timer handler keeps SyncOK: a defer or backoff timer grants the waiting
\* request or starts the backoff, a busy timer answers nothing.
LEMMA FireEventStep ==
  ASSUME RInv, fault = "none", TDInv', FireEvent
  PROVE  SyncOK' /\ (ChannelAccess!Grant \/ ChannelAccess!Quiet)
<1>1. PICK i \in DueNext :
        /\ CASE events[i].kind = "defer"   -> RequestAccessAfterDefer(Drop(events, i))
             [] events[i].kind = "backoff" -> RequestAccessAfterBackoff(Drop(events, i))
             [] events[i].kind = "busy"    -> TransitionFromBusy(Drop(events, i))
        /\ UNCHANGED <<cat4Vars, initialized, busyUntil>>
        /\ MacObserves
  BY DEF FireEvent
<1> DEFINE rest == Drop(events, i)
<1>2. /\ i \in DOMAIN events /\ events[i].at = 0
      /\ events \in Seq(Event) /\ Disciplined(events)
      /\ events[i].kind \in KindsOf(events) /\ events[i].kind \in Kinds
      /\ KindsOf(events) = PendingFor(state)
      /\ state \in {"WAIT_FOR_DEFER", "WAIT_FOR_BACKOFF"} => grantRequested
      /\ lastBusyTime \in -DeferTime .. MaxBusy
  <2>1. i \in DOMAIN events /\ events[i].at = 0
    BY DEF DueNext
  <2>2. events \in Seq(Event)
    BY DEF RInv, TDInv, TypeOK
  <2>3. events[i] \in Event
    BY <2>1, <2>2, QueueElements
  <2>4. QED
    BY <2>1, <2>2, <2>3 DEF RInv, TDInv, TypeOK, QueueOK, KindsOf, Event
<1>3. /\ macWaiting' = IF lastCb' = "none" THEN macWaiting ELSE FALSE
      /\ cbSolicited' = macWaiting
      /\ UNCHANGED busyUntil
  BY <1>1 DEF MacObserves
<1>4. /\ busyUntil = lastBusyTime
      /\ state # "BUSY" => lastBusyTime <= 0
      /\ state = "WAIT_FOR_BACKOFF" => lastBusyTime = -DeferTime
  BY DEF RInv, SyncOK
<1>5. CASE events[i].kind = "defer"
  <2>1. state = "WAIT_FOR_DEFER"
    BY <1>2, <1>5 DEF PendingFor
  <2>2. lastBusyTime = -DeferTime
    BY <1>2, <1>5, DeferDue DEF RInv, TDInv, SyncOK
  <2>3. RequestAccessAfterDefer(rest)
    BY <1>1, <1>5
  <2>4. CASE Category = "Cat2" \/ backoffCount = 0
    <3>1. SetGrant /\ fault' = "none" /\ UNCHANGED lastBusyTime
      BY <2>1, <2>3, <2>4
         DEF RequestAccessAfterDefer, Cat2RequestAccessAfterDefer, BaseRequestAccessAfterDefer
    <3>2. QED
      BY <1>3, <2>1, <2>2, <3>1, GrantStep
  <2>5. CASE Category # "Cat2" /\ backoffCount # 0
    <3>1. /\ state' = "WAIT_FOR_BACKOFF" /\ lastCb' = "none" /\ fault' = "none"
          /\ UNCHANGED <<grantRequested, lastBusyTime>>
      BY <2>1, <2>3, <2>5 DEF RequestAccessAfterDefer, BaseRequestAccessAfterDefer
    <3>2. DeferBounded(events', lastBusyTime)
      BY <3>1, DeferAway
    <3>3. QED
      BY <1>3, <2>2, <3>1, <3>2, QuietStep, TimingAssumption
  <2>6. QED
    BY <2>4, <2>5
<1>6. CASE events[i].kind = "backoff"
  <2>1. state = "WAIT_FOR_BACKOFF"
    BY <1>2, <1>6 DEF PendingFor
  <2>2. SetGrant /\ fault' = "none" /\ UNCHANGED lastBusyTime
    BY <1>1, <1>6, <2>1 DEF RequestAccessAfterBackoff
  <2>3. QED
    BY <1>3, <1>4, <2>1, <2>2, GrantStep
<1>7. CASE events[i].kind = "busy"
  <2>1. state = "BUSY"
    BY <1>2, <1>7 DEF PendingFor
  <2>2. TransitionFromBusy(rest)
    BY <1>1, <1>7
  <2>3. /\ lastCb' = "none" /\ fault' = "none"
        /\ UNCHANGED <<grantRequested, lastBusyTime>>
    BY <2>2 DEF TransitionFromBusy
  <2>4. KindsOf(rest) = {} /\ rest \in Seq(Event)
    BY <1>2, <1>7, <2>1, DropFacts, DropType DEF PendingFor
  <2>5. CASE lastBusyTime > 0
    <3>1. state' = "BUSY"
      BY <2>2, <2>5 DEF TransitionFromBusy
    <3>2. DeferBounded(events', lastBusyTime)
      BY <3>1, <2>3, DeferAway
    <3>3. QED
      BY <1>3, <2>3, <3>1, <3>2, QuietStep
  <2>6. CASE ~(lastBusyTime > 0) /\ grantRequested
    <3>1. state' = "WAIT_FOR_DEFER" /\ events' = Schedule(rest, "defer", DeferTime)
      BY <2>2, <2>6 DEF TransitionFromBusy
    <3>2. DeferBounded(events', lastBusyTime)
      <4>1. lastBusyTime + DeferTime <= DeferTime
        BY <1>2, <2>6, TimingAssumption
      <4>2. DeferBounded(Schedule(rest, "defer", DeferTime), lastBusyTime)
        BY <2>4, <4>1, DeferArm
      <4>3. QED
        BY <3>1, <4>2
    <3>3. QED
      BY <1>2, <1>3, <2>3, <2>6, <3>1, <3>2, QuietStep
  <2>7. CASE ~(lastBusyTime > 0) /\ ~grantRequested
    <3>1. state' = "IDLE" /\ events' = rest
      BY <2>2, <2>7 DEF TransitionFromBusy
    <3>2. DeferBounded(events', lastBusyTime)
      BY <2>4, <3>1, DeferFree
    <3>3. QED
      BY <1>2, <1>3, <2>3, <2>7, <3>1, <3>2, QuietStep
  <2>8. QED
    BY <2>5, <2>6, <2>7
<1>8. QED
  BY <1>2, <1>5, <1>6, <1>7 DEF Kinds

-----------------------------------------------------------------------------
(* Time, HARQ feedback and object initialisation.                          *)

\* Time passing keeps SyncOK and is a Tick of the abstract manager.
LEMMA AdvanceTimeStep ==
  ASSUME RInv, fault = "none", AdvanceTime
  PROVE  SyncOK' /\ ChannelAccess!Tick
<1>1. /\ events \in Seq(Event) /\ lastBusyTime \in -DeferTime .. MaxBusy
      /\ busyUntil = lastBusyTime /\ macWaiting = grantRequested
      /\ DeferBounded(events, lastBusyTime)
      /\ state # "BUSY" => lastBusyTime <= 0
      /\ state = "WAIT_FOR_BACKOFF" => lastBusyTime = -DeferTime
  BY DEF RInv, TDInv, TypeOK, SyncOK
<1>2. /\ lastBusyTime' = MaxOf(lastBusyTime - 1, -DeferTime)
      /\ busyUntil' = MaxOf(busyUntil - 1, -DeferTime)
      /\ lastCb' = "none" /\ macWaiting' = macWaiting
      /\ UNCHANGED <<state, grantRequested, fault>>
  BY DEF AdvanceTime, MacObserves
<1>3. DeferBounded(events', lastBusyTime')
  <2>1. \A i \in DOMAIN events : events[i].at > 0
    BY DEF AdvanceTime
  <2>2. QED
    BY <1>1, <1>2, <2>1, DeferShift DEF AdvanceTime
<1>4. /\ busyUntil' = lastBusyTime'
      /\ state' # "BUSY" => lastBusyTime' <= 0
      /\ state' = "WAIT_FOR_BACKOFF" => lastBusyTime' = -DeferTime
  BY <1>1, <1>2, TimingAssumption DEF MaxOf
<1>5. SyncOK'
  BY <1>1, <1>2, <1>3, <1>4 DEF SyncOK
<1>6. ChannelAccess!Tick
  BY <1>1, <1>2 DEF ChannelAccess!Tick, MaxOf
<1>7. QED
  BY <1>5, <1>6

\* HARQ feedback and Object::Initialize () answer nothing.
LEMMA BookkeepingStep ==
  ASSUME RInv, DlHarqFeedback \/ Initialize
  PROVE  SyncOK' /\ ChannelAccess!Quiet
<1>1. /\ lastCb' = "none"
      /\ UNCHANGED <<fault, grantRequested, lastBusyTime, busyUntil, state, events>>
      /\ macWaiting' = IF lastCb' = "none" THEN macWaiting ELSE FALSE
  BY DEF DlHarqFeedback, Initialize, MacObserves, lbtVars
<1>2. /\ state' # "BUSY" => lastBusyTime <= 0
      /\ state' = "WAIT_FOR_BACKOFF" => lastBusyTime = -DeferTime
      /\ DeferBounded(events', lastBusyTime)
  BY <1>1 DEF RInv, SyncOK
<1>3. QED
  BY <1>1, <1>2, QuietStep

-----------------------------------------------------------------------------
(* The inductive invariant and the refinement.                             *)

LEMMA InitRInv == Init => RInv
<1> SUFFICES ASSUME Init PROVE RInv
  OBVIOUS
<1>1. TDInv
  BY InitTDInv
<1>2. DeferBounded(events, lastBusyTime)
  BY DEF Init, DeferBounded
<1>3. state # "WAIT_FOR_BACKOFF"
  BY DEF Init
<1>4. macWaiting = grantRequested /\ lastCb = "none"
  BY Zenon DEF Init
<1>5. busyUntil = lastBusyTime /\ lastBusyTime <= 0
  BY DEF Init
<1>6. SyncOK
  BY <1>2, <1>3, <1>4, <1>5 DEF SyncOK
<1>7. QED
  BY <1>1, <1>6 DEF RInv

\* Every step keeps RInv and is a step, or a stutter, of the abstract manager.
LEMMA NextRInv ==
  ASSUME ~MacMayCancel, RInv, [Next]_vars
  PROVE  RInv' /\ [ChannelAccess!Next]_ChannelAccess!avars
<1>1. TDInv'
  BY NextTDInv DEF RInv
<1>2. CASE UNCHANGED vars
  <2>1. SyncOK'
    BY <1>2 DEF RInv, SyncOK, DeferBounded, vars, lbtVars, envVars, macVars
  <2>2. UNCHANGED ChannelAccess!avars
    BY <1>2 DEF vars, envVars, macVars, ChannelAccess!avars
  <2>3. QED
    BY <1>1, <2>1, <2>2 DEF RInv
<1>3. CASE Next
  <2>1. fault = "none"
    BY <1>3 DEF Next
  <2> SUFFICES SyncOK' /\ ChannelAccess!Next
    BY <1>1 DEF RInv
  <2>2. CASE RequestAccess
    BY <1>1, <2>1, <2>2, RequestAccessStep DEF ChannelAccess!Next
  <2>3. CASE Cancel
    BY <2>3 DEF Cancel
  <2>4. CASE ChannelOccupied
    BY <1>1, <2>1, <2>4, ChannelOccupiedStep DEF ChannelAccess!Next
  <2>5. CASE DlHarqFeedback \/ Initialize
    BY <2>5, BookkeepingStep DEF ChannelAccess!Next
  <2>6. CASE FireEvent
    BY <1>1, <2>1, <2>6, FireEventStep DEF ChannelAccess!Next
  <2>7. CASE AdvanceTime
    BY <2>1, <2>7, AdvanceTimeStep DEF ChannelAccess!Next
  <2>8. QED
    BY <1>3, <2>2, <2>3, <2>4, <2>5, <2>6, <2>7 DEF Next
<1>4. QED
  BY <1>2, <1>3

\* When the MAC never calls Cancel (), the manager implements LbtChannelAccess: every call of
\* RequestAccess, every busy report and every timer handler is a step of
\* the abstract promise, for every defer time, slot time, window, category
\* and build.
THEOREM ChannelAccessRefinement ==
  ASSUME ~MacMayCancel
  PROVE  Spec => ImplementsChannelAccess
<1>1. Init => RInv
  BY InitRInv
<1>2. RInv /\ [Next]_vars => RInv'
  BY NextRInv
<1>3. Init => ChannelAccess!Init
  BY DEF Init, ChannelAccess!Init
<1>4. RInv /\ [Next]_vars => [ChannelAccess!Next]_ChannelAccess!avars
  BY NextRInv
<1>5. QED
  BY <1>1, <1>2, <1>3, <1>4, PTL DEF Spec, ImplementsChannelAccess, ChannelAccess!Spec

\* Listen before talk holds in every run of such a manager: no callback
\* grants the channel before it has been idle for m_deferTime.
THEOREM ListenBeforeTalkInvariant ==
  ASSUME ~MacMayCancel
  PROVE  Spec => []ListenBeforeTalk
<1>1. Init => RInv
  BY InitRInv
<1>2. RInv /\ [Next]_vars => RInv'
  BY NextRInv
<1>3. RInv => ListenBeforeTalk
  BY DEF RInv, SyncOK, ListenBeforeTalk
<1>4. QED
  BY <1>1, <1>2, <1>3, PTL DEF Spec

\* Every callback of such a manager answers a request the MAC still has
\* outstanding.
THEOREM NoUnsolicitedCallbackInvariant ==
  ASSUME ~MacMayCancel
  PROVE  Spec => []NoUnsolicitedCallback
<1>1. Init => RInv
  BY InitRInv
<1>2. RInv /\ [Next]_vars => RInv'
  BY NextRInv
<1>3. RInv => NoUnsolicitedCallback
  BY DEF RInv, SyncOK, NoUnsolicitedCallback
<1>4. QED
  BY <1>1, <1>2, <1>3, PTL DEF Spec

-----------------------------------------------------------------------------
(* The backoff counter.                                                    *)

\* A backoff count is left only by a request of Cat3 or Cat4 that is still
\* pending, IDLE has no request, and Cat2 never backs off.
CountOK ==
  /\ backoffCount # 0 => grantRequested /\ Category # "Cat2"
  /\ state = "IDLE" => ~grantRequested
  /\ Category = "Cat2" => state # "WAIT_FOR_BACKOFF"

CInv == RInv /\ CountOK

LEMMA RequestAccessCount ==
  ASSUME RInv, CountOK, RequestAccess
  PROVE  CountOK'
<1>1. RequestOutcome
  BY BaseRequestOutcome, Cat2RequestOutcome DEF RInv, RequestAccess
<1>2. Category = "Cat2" => UNCHANGED backoffCount
  BY DEF RequestAccess, Cat2RequestAccess
<1>3. grantRequested \in BOOLEAN
  BY DEF RInv, TDInv, TypeOK
<1>4. QED
  BY <1>1, <1>2, <1>3 DEF CountOK, RequestOutcome, ReqPending, ReqGranted, ReqWaits, ReqDenied

LEMMA ChannelOccupiedCount ==
  ASSUME RInv, CountOK, ChannelOccupied
  PROVE  CountOK'
<1>1. PICK d \in 1 .. MaxBusy : TransitionToBusy(d, backoffCount, grantRequested, events)
  BY DEF ChannelOccupied
<1>2. BusyOutcome(d)
  BY <1>1, TransitionToBusyOutcome DEF RInv
<1>3. QED
  BY <1>2 DEF CountOK, BusyOutcome

LEMMA FireEventCount ==
  ASSUME RInv, CountOK, FireEvent
  PROVE  CountOK'
<1>1. PICK i \in DueNext :
        CASE events[i].kind = "defer"   -> RequestAccessAfterDefer(Drop(events, i))
          [] events[i].kind = "backoff" -> RequestAccessAfterBackoff(Drop(events, i))
          [] events[i].kind = "busy"    -> TransitionFromBusy(Drop(events, i))
  BY DEF FireEvent
<1>2. /\ events[i].kind \in Kinds
      /\ events[i].kind \in PendingFor(state)
  <2>1. i \in DOMAIN events /\ events \in Seq(Event)
    BY DEF DueNext, RInv, TDInv, TypeOK
  <2>2. events[i] \in Event
    BY <2>1, QueueElements
  <2>3. QED
    BY <2>1, <2>2 DEF Event, RInv, TDInv, QueueOK, KindsOf
<1>3. CASE events[i].kind = "defer"
  <2>1. state = "WAIT_FOR_DEFER"
    BY <1>2, <1>3 DEF PendingFor
  <2>2. CASE Category = "Cat2"
    <3>1. /\ state' = "TXOP_GRANTED" /\ grantRequested' = FALSE
          /\ UNCHANGED backoffCount
      BY <1>1, <1>3, <2>1, <2>2 DEF RequestAccessAfterDefer, Cat2RequestAccessAfterDefer, SetGrant
    <3>2. QED
      BY <2>2, <3>1 DEF CountOK
  <2>3. CASE Category # "Cat2" /\ backoffCount = 0
    <3>1. /\ state' = "TXOP_GRANTED" /\ grantRequested' = FALSE
          /\ UNCHANGED backoffCount
      BY <1>1, <1>3, <2>1, <2>3 DEF RequestAccessAfterDefer, BaseRequestAccessAfterDefer, SetGrant
    <3>2. QED
      BY <2>3, <3>1 DEF CountOK
  <2>4. CASE Category # "Cat2" /\ backoffCount # 0
    <3>1. /\ state' = "WAIT_FOR_BACKOFF"
          /\ UNCHANGED <<backoffCount, grantRequested>>
      BY <1>1, <1>3, <2>1, <2>4 DEF RequestAccessAfterDefer, BaseRequestAccessAfterDefer
    <3>2. QED
      BY <2>4, <3>1 DEF CountOK
  <2>5. QED
    BY <2>2, <2>3, <2>4
<1>4. CASE events[i].kind = "backoff"
  <2>1. state = "WAIT_FOR_BACKOFF"
    BY <1>2, <1>4 DEF PendingFor
  <2>2. state' = "TXOP_GRANTED" /\ grantRequested' = FALSE /\ backoffCount' = 0
    BY <1>1, <1>4, <2>1 DEF RequestAccessAfterBackoff, SetGrant
  <2>3. QED
    BY <2>2 DEF CountOK
<1>5. CASE events[i].kind = "busy"
  <2>1. /\ state' \in {"BUSY", "WAIT_FOR_DEFER", "IDLE"}
        /\ state' = "IDLE" => ~grantRequested
        /\ UNCHANGED <<backoffCount, grantRequested>>
    BY <1>1, <1>5 DEF TransitionFromBusy
  <2>2. QED
    BY <2>1 DEF CountOK
<1>6. QED
  BY <1>2, <1>3, <1>4, <1>5 DEF Kinds

\* The backoff facts hold in every step.
LEMMA NextCountOK ==
  ASSUME ~MacMayCancel, RInv, CountOK, [Next]_vars
  PROVE  CountOK'
<1>1. CASE RequestAccess
  BY <1>1, RequestAccessCount
<1>2. CASE ChannelOccupied
  BY <1>2, ChannelOccupiedCount
<1>3. CASE FireEvent
  BY <1>3, FireEventCount
<1>4. CASE Cancel
  BY <1>4 DEF Cancel
<1>5. CASE DlHarqFeedback \/ Initialize \/ AdvanceTime \/ UNCHANGED vars
  BY <1>5 DEF DlHarqFeedback, Initialize, AdvanceTime, CountOK, vars, lbtVars
<1>6. QED
  BY <1>1, <1>2, <1>3, <1>4, <1>5 DEF Next

LEMMA InitCInv == Init => CInv
<1> SUFFICES ASSUME Init PROVE CInv
  OBVIOUS
<1>1. RInv
  BY InitRInv
<1>2. CountOK
  BY DEF Init, CountOK
<1>3. QED
  BY <1>1, <1>2 DEF CInv

LEMMA NextCInv ==
  ASSUME ~MacMayCancel, CInv, [Next]_vars
  PROVE  CInv'
BY NextRInv, NextCountOK DEF CInv

\* Spec section 8 holds for a MAC that never cancels: in IDLE the
\* backoff counter is zero, so the NS_ASSERT of TransitionToBusy in IDLE
\* never fires.
THEOREM BackoffZeroWhenIdleInvariant ==
  ASSUME ~MacMayCancel
  PROVE  Spec => []BackoffZeroWhenIdle
<1>1. Init => CInv
  BY InitCInv
<1>2. CInv /\ [Next]_vars => CInv'
  BY NextCInv
<1>3. CInv => BackoffZeroWhenIdle
  BY DEF CInv, CountOK, RInv, TDInv, TypeOK, BackoffZeroWhenIdle
<1>4. QED
  BY <1>1, <1>2, <1>3, PTL DEF Spec

-----------------------------------------------------------------------------
(* No abort.                                                               *)

\* The manager's state is one of the enum and no abort has happened.
NFInv == CInv /\ state \in LbtStates /\ fault = "none"

LEMMA TransitionToBusyNoFault ==
  ASSUME CInv, state \in LbtStates, ~AssertsEnabled \/ Category = "Cat2",
         NEW d \in 1 .. MaxBusy, TransitionToBusy(d, backoffCount, grantRequested, events)
  PROVE  fault' = "none" /\ state' \in LbtStates
<1> DEFINE bc == backoffCount
           gr == grantRequested
<1>1. state = "IDLE" => bc = 0
  BY DEF CInv, CountOK, RInv, TDInv, TypeOK
<1>2. Category = "Cat2" => state # "WAIT_FOR_BACKOFF"
  BY DEF CInv, CountOK
<1>3. ASSUME BaseTransitionToBusy(d, bc, gr, events),
             state = "WAIT_FOR_BACKOFF" => ~AssertsEnabled
      PROVE  fault' = "none" /\ state' \in LbtStates
  <2>1. CASE state \in {"IDLE", "TXOP_GRANTED"}
    BY <1>1, <1>3, <2>1 DEF BaseTransitionToBusy, GoBusy, Assert, LbtStates
  <2>2. CASE state = "BUSY"
    BY <1>3, <2>2 DEF BaseTransitionToBusy, BusyExtended, LbtStates
  <2>3. CASE state = "WAIT_FOR_DEFER"
    BY <1>3, <2>3 DEF BaseTransitionToBusy, GoBusy, LbtStates
  <2>4. CASE state = "WAIT_FOR_BACKOFF"
    BY <1>3, <2>4 DEF BaseTransitionToBusy, GoBusy, Assert, LbtStates
  <2>5. QED
    BY <2>1, <2>2, <2>3, <2>4 DEF LbtStates
<1>4. CASE Category = "Cat2"
  <2>1. CASE state = "WAIT_FOR_DEFER"
    BY <1>4, <2>1 DEF TransitionToBusy, Cat2TransitionToBusy, GoBusy, LbtStates
  <2>2. CASE state # "WAIT_FOR_DEFER"
    <3>1. BaseTransitionToBusy(d, bc, gr, events)
      BY <1>2, <1>4, <2>2 DEF TransitionToBusy, Cat2TransitionToBusy
    <3>2. QED
      BY <1>2, <1>3, <1>4, <3>1
  <2>3. QED
    BY <2>1, <2>2
<1>5. CASE Category # "Cat2"
  BY <1>3, <1>5 DEF TransitionToBusy
<1>6. QED
  BY <1>4, <1>5

LEMMA NextNFInv ==
  ASSUME ~MacMayCancel, ~AssertsEnabled \/ Category = "Cat2", NFInv, [Next]_vars
  PROVE  NFInv'
<1>1. CInv'
  BY NextCInv DEF NFInv
<1> SUFFICES fault' = "none" /\ state' \in LbtStates
  BY <1>1 DEF NFInv
<1>2. CASE RequestAccess
  <2>1. RequestOutcome
    BY <1>2, BaseRequestOutcome, Cat2RequestOutcome DEF NFInv, CInv, RInv, RequestAccess
  <2>2. QED
    BY <2>1 DEF NFInv, RequestOutcome, ReqPending, ReqGranted, ReqWaits, ReqDenied, LbtStates
<1>3. CASE ChannelOccupied
  BY <1>3, TransitionToBusyNoFault DEF NFInv, ChannelOccupied
<1>4. CASE FireEvent
  <2>1. PICK i \in DueNext :
          CASE events[i].kind = "defer"   -> RequestAccessAfterDefer(Drop(events, i))
            [] events[i].kind = "backoff" -> RequestAccessAfterBackoff(Drop(events, i))
            [] events[i].kind = "busy"    -> TransitionFromBusy(Drop(events, i))
    BY <1>4 DEF FireEvent
  <2>2. /\ events[i].kind \in Kinds
        /\ events[i].kind \in PendingFor(state)
    <3>1. i \in DOMAIN events /\ events \in Seq(Event)
      BY DEF DueNext, NFInv, CInv, RInv, TDInv, TypeOK
    <3>2. events[i] \in Event
      BY <3>1, QueueElements
    <3>3. QED
      BY <3>1, <3>2 DEF Event, NFInv, CInv, RInv, TDInv, QueueOK, KindsOf
  <2>3. CASE events[i].kind = "defer"
    <3>1. state = "WAIT_FOR_DEFER"
      BY <2>2, <2>3 DEF PendingFor
    <3>2. QED
      BY <2>1, <2>3, <3>1 DEF RequestAccessAfterDefer, Cat2RequestAccessAfterDefer,
                              BaseRequestAccessAfterDefer, SetGrant, LbtStates
  <2>4. CASE events[i].kind = "backoff"
    <3>1. state = "WAIT_FOR_BACKOFF"
      BY <2>2, <2>4 DEF PendingFor
    <3>2. QED
      BY <2>1, <2>4, <3>1 DEF RequestAccessAfterBackoff, SetGrant, LbtStates
  <2>5. CASE events[i].kind = "busy"
    BY <2>1, <2>5 DEF TransitionFromBusy, LbtStates
  <2>6. QED
    BY <2>2, <2>3, <2>4, <2>5 DEF Kinds
<1>5. CASE Cancel
  BY <1>5 DEF Cancel
<1>6. CASE DlHarqFeedback \/ Initialize \/ AdvanceTime \/ UNCHANGED vars
  BY <1>6 DEF NFInv, DlHarqFeedback, Initialize, AdvanceTime, vars, lbtVars
<1>7. QED
  BY <1>2, <1>3, <1>4, <1>5, <1>6 DEF Next

\* A manager used by a MAC that never cancels reaches no NS_ASSERT, NS_FATAL_ERROR or NS_ABORT_MSG in a
\* release build, and none in a debug build of Cat2 (which never backs off,
\* so the backoff-overrun assertion is out of its reach).
THEOREM NoFaultInvariant ==
  ASSUME ~MacMayCancel, ~AssertsEnabled \/ Category = "Cat2"
  PROVE  Spec => []NoFault
<1>1. Init => NFInv
  <2> SUFFICES ASSUME Init PROVE NFInv
    OBVIOUS
  <2>1. CInv
    BY InitCInv
  <2>2. QED
    BY <2>1 DEF Init, NFInv, LbtStates
<1>2. NFInv /\ [Next]_vars => NFInv'
  BY NextNFInv
<1>3. NFInv => NoFault
  BY DEF NFInv, NoFault
<1>4. QED
  BY <1>1, <1>2, <1>3, PTL DEF Spec

=============================================================================
