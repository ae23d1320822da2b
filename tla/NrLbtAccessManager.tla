------------------------- MODULE NrLbtAccessManager -------------------------
(***************************************************************************)
(* The Listen-Before-Talk channel access manager of nr-u                   *)
(* (src/nr-u/model/nr-lbt-access-manager.{h,cc}): the base state machine  *)
(* NrLbtAccessManager and its three categories, Cat2 (defer only, deny on  *)
(* busy), Cat3 (fixed contention window) and Cat4 (window adapted from     *)
(* downlink HARQ feedback), selected by the constant Category.             *)
(*                                                                         *)
(* The manager runs inside the ns-3 discrete-event simulator.  Its three   *)
(* EventId handles (defer, backoff, busy) are modelled with the scheduler  *)
(* queue they live in: `events' holds this manager's pending events in     *)
(* insertion order, each with its firing time relative to now and a flag   *)
(* `held' telling whether the manager's EventId of that kind still refers  *)
(* to it.  Overwriting an EventId does not cancel the event it referred    *)
(* to, so a pending event that is no longer held still fires.  Events due  *)
(* at the same instant fire in insertion order (ns-3 orders by timestamp,  *)
(* then uid).  Calls from the MAC (RequestAccess, Cancel), busy reports    *)
(* from the PHY and HARQ feedback are events of other objects and may come *)
(* between any two of these.                                               *)
(*                                                                         *)
(* Time is kept relative to now, so that the state space is finite:       *)
(* lastBusyTime is m_lastBusyTime - Now(), clamped below at -DeferTime     *)
(* (the code only compares Now() - m_lastBusyTime with m_deferTime), and   *)
(* backoffElapsed is Now() - m_backoffStartTime, which the code reads only *)
(* in WAIT_FOR_BACKOFF.                                                    *)
(***************************************************************************)
EXTENDS Integers, Sequences, FiniteSets

CONSTANTS
  Category,             \* "Cat2", "Cat3" or "Cat4": the subclass in use
  DeferTime,            \* m_deferTime, in time units
  SlotTime,             \* m_slotTime, in time units
  MaxBusy,              \* longest busy period the PHY reports
  Cat3ContentionWindow, \* m_cat3ContentionWindow
  Cat4MinCw,            \* m_cat4CwMin
  Cat4MaxCw,            \* m_cat4CwMax
  CwWidth,              \* bit width of the uint32_t window arithmetic
  RetryLimit,           \* m_nRetry
  Cat4CwUpdateRule,     \* m_cat4CwUpdateRule
  MaxFeedback,          \* bound on the HARQ feedback counted between draws
  MacMayCancel,         \* whether the MAC ever calls Cancel ()
  AssertsEnabled,       \* NS_ASSERT compiled in (debug build) or not
  InitializedBeforeRun  \* ns-3 calls Object::Initialize () before the first request

LbtStates == {"IDLE", "BUSY", "WAIT_FOR_DEFER", "WAIT_FOR_BACKOFF", "TXOP_GRANTED"}
Kinds == {"defer", "backoff", "busy"}
CwUpdateRules == {"ALL_NACKS", "ANY_NACK", "NACKS_10_PERCENT", "NACKS_80_PERCENT"}
Faults == {"none", "IdleBackoffNonZero", "BackoffOverrun", "UnreachableBusyState",
           "BackoffEventNotInBackoff", "Cat2DeferNotInDefer", "Cat2InBackoff"}

ASSUME CategoryAssumption == Category \in {"Cat2", "Cat3", "Cat4"}
ASSUME TimingAssumption ==
  /\ DeferTime \in Nat \ {0}
  /\ SlotTime \in Nat \ {0}
  /\ MaxBusy \in Nat \ {0}
ASSUME WindowAssumption ==
  /\ Cat3ContentionWindow \in Nat
  /\ CwWidth \in Nat \ {0}
  /\ Cat4MinCw \in 0 .. 2^CwWidth - 1
  /\ Cat4MaxCw \in 0 .. 2^CwWidth - 1
  /\ RetryLimit \in Nat
  /\ Cat4CwUpdateRule \in CwUpdateRules
  /\ MaxFeedback \in Nat
ASSUME EnvironmentAssumption ==
  /\ MacMayCancel \in BOOLEAN
  /\ AssertsEnabled \in BOOLEAN
  /\ InitializedBeforeRun \in BOOLEAN

VARIABLES
  state,            \* m_state
  backoffCount,     \* m_backoffCount
  grantRequested,   \* m_grantRequested
  events,           \* this manager's pending scheduler events
  lastBusyTime,     \* m_lastBusyTime - Now (), clamped at -DeferTime
  backoffElapsed,   \* Now () - m_backoffStartTime
  cw,               \* m_cat4ContentionWindowTracedValue
  acks,             \* m_acks
  nacks,            \* m_nacks
  numberOfAttempts, \* m_numberOfAttempts
  initialized,      \* Object::IsInitialized ()
  fault,            \* the assertion or fatal error that ended the run
  macWaiting,       \* the MAC has a request out that is not answered
  lastCb,           \* callback invoked by the last step
  cbSolicited,      \* the MAC was waiting when that callback came
  busyUntil         \* end of the latest busy period the PHY reported, relative
                    \* to now and clamped at -DeferTime (the channel, not the code)

lbtVars == <<state, backoffCount, grantRequested, events, lastBusyTime, backoffElapsed>>
cat4Vars == <<cw, acks, nacks, numberOfAttempts>>
macVars == <<macWaiting, lastCb, cbSolicited>>
envVars == <<macVars, busyUntil>>
vars == <<lbtVars, cat4Vars, initialized, fault, envVars>>

Event == [kind : Kinds, at : Nat, held : BOOLEAN]

MaxOf(a, b) == IF a >= b THEN a ELSE b
MinOf(a, b) == IF a <= b THEN a ELSE b

-----------------------------------------------------------------------------
(* The scheduler queue.                                                    *)

\* Simulator::Schedule (delay, ...) stored into the EventId of kind k: the
\* event it held before stays queued but is no longer referred to.
Schedule(evs, k, delay) ==
  Append([i \in DOMAIN evs |-> IF evs[i].kind = k
                                 THEN [kind |-> k, at |-> evs[i].at, held |-> FALSE]
                                 ELSE evs[i]],
         [kind |-> k, at |-> delay, held |-> TRUE])

\* The queue without its i-th event.
Drop(evs, i) == [j \in 1 .. Len(evs) - 1 |-> IF j < i THEN evs[j] ELSE evs[j + 1]]

HeldAt(evs, k) == {i \in DOMAIN evs : evs[i].kind = k /\ evs[i].held}

\* EventId::IsRunning () for the handle of kind k.
IsRunning(evs, k) == HeldAt(evs, k) # {}

\* A variant that forgets the Cancel (), as a handler omitting it would.
CancelEventNoop(evs, k) == evs

\* if (id.IsRunning ()) id.Cancel (): the held event leaves the queue.
CancelEvent(evs, k) ==
  IF IsRunning(evs, k) THEN Drop(evs, CHOOSE i \in HeldAt(evs, k) : TRUE) ELSE evs

\* The index of the event the scheduler dispatches next at this instant.
DueNext == {i \in DOMAIN events : events[i].at = 0 /\ \A j \in 1 .. i - 1 : events[j].at # 0}

-----------------------------------------------------------------------------
(* Helpers of the handlers.                                                *)

\* NS_ASSERT (cond): aborts the run only in a build with asserts.
Assert(cond, reason) == IF AssertsEnabled /\ ~cond THEN reason ELSE "none"

\* A variant of the decrement loop that counts one slot too many.
SlotsConsumedOffByOne(elapsed, count) ==
  IF elapsed > 0 THEN MinOf(count + 1, (elapsed + SlotTime) \div SlotTime) ELSE 0

\* The decrement loop of TransitionToBusy in WAIT_FOR_BACKOFF: one slot for
\* every full or partial slot elapsed, never below zero.
SlotsConsumed(elapsed, count) ==
  IF elapsed > 0 THEN MinOf(count, (elapsed + SlotTime - 1) \div SlotTime) ELSE 0

\* A variant of SetGrant that leaves m_grantRequested set.
SetGrantKeepsRequest ==
  /\ state' = "TXOP_GRANTED"
  /\ grantRequested' = grantRequested
  /\ lastCb' = "grant"

\* SetGrant (): the granted callbacks run, the state becomes TXOP_GRANTED
\* and the request is cleared.
SetGrant ==
  /\ state' = "TXOP_GRANTED"
  /\ grantRequested' = FALSE
  /\ lastCb' = "grant"

\* The common tail of TransitionToBusy: busy timer for d, lastBusyTime, BUSY.
GoBusy(d, evs) ==
  /\ events' = Schedule(evs, "busy", d)
  /\ lastBusyTime' = d
  /\ state' = "BUSY"

-----------------------------------------------------------------------------
(* Cat4 contention window (NrCat4LbtAccessManager).                        *)

\* The cwUpdateRule's verdict on the feedback since the last draw.
Cat4Failed(a, n) ==
  CASE Cat4CwUpdateRule = "ALL_NACKS"        -> a = 0
    [] Cat4CwUpdateRule = "ANY_NACK"         -> n > 0
    [] Cat4CwUpdateRule = "NACKS_80_PERCENT" -> 5 * n >= 4 * (a + n)
    [] Cat4CwUpdateRule = "NACKS_10_PERCENT" -> 10 * n >= a + n

\* A variant that doubles cw itself rather than cw + 1.
UpdateFailedCwTimesTwo(w) == MinOf((2 * w) % (2^CwWidth), Cat4MaxCw)

\* A variant that forgets to saturate at cwMax.
UpdateFailedCwNoCap(w) == (2 * (w + 1) - 1) % (2^CwWidth)

\* UpdateFailedCw: min (2 * (cw + 1) - 1, cwMax) in CwWidth-bit arithmetic.
UpdateFailedCw(w) == MinOf((2 * (w + 1) - 1) % (2^CwWidth), Cat4MaxCw)

\* ResetCw: keep the window for RetryLimit more draws, then back to cwMin.
ResetCw(w, att) ==
  IF att < RetryLimit THEN [cw |-> w, att |-> att + 1] ELSE [cw |-> Cat4MinCw, att |-> 0]

\* GetBackoffSlots before its draw: the window and attempt counter after
\* the feedback since the last draw is evaluated.
Cat4Window(w, a, n, att) ==
  IF a = 0 /\ n = 0 THEN [cw |-> w, att |-> att]
  ELSE IF Cat4Failed(a, n) THEN [cw |-> UpdateFailedCw(w), att |-> att]
  ELSE ResetCw(w, att)

-----------------------------------------------------------------------------
(* TransitionToBusy (duration), called with the values of m_backoffCount   *)
(* and m_grantRequested its caller left; it sets state, backoffCount,      *)
(* grantRequested, events, lastBusyTime, fault and lastCb.                 *)

\* A variant of the BUSY case that overwrites m_lastBusyTime.
BusyOverwritten(d, bc, gr, evs) ==
  /\ lastBusyTime' = d
  /\ events' = IF ~IsRunning(evs, "busy") /\ gr THEN Schedule(evs, "busy", d) ELSE evs
  /\ state' = "BUSY"
  /\ backoffCount' = bc /\ grantRequested' = gr
  /\ fault' = "none" /\ lastCb' = "none"

\* The BUSY case: the busy end moves to the later of the two.
BusyExtended(d, bc, gr, evs) ==
  /\ lastBusyTime' = MaxOf(lastBusyTime, d)
  /\ events' = IF ~IsRunning(evs, "busy") /\ gr
                 THEN Schedule(evs, "busy", MaxOf(lastBusyTime, d))
                 ELSE evs
  /\ state' = "BUSY"
  /\ backoffCount' = bc /\ grantRequested' = gr
  /\ fault' = "none" /\ lastCb' = "none"

BaseTransitionToBusy(d, bc, gr, evs) ==
  CASE state \in {"IDLE", "TXOP_GRANTED"} ->
         /\ fault' = IF state = "IDLE" THEN Assert(bc = 0, "IdleBackoffNonZero") ELSE "none"
         /\ GoBusy(d, evs)
         /\ backoffCount' = bc /\ grantRequested' = gr /\ lastCb' = "none"
    [] state = "BUSY" -> BusyExtended(d, bc, gr, evs)
    [] state = "WAIT_FOR_DEFER" ->
         /\ GoBusy(d, CancelEvent(evs, "defer"))
         /\ backoffCount' = bc /\ grantRequested' = gr
         /\ fault' = "none" /\ lastCb' = "none"
    [] state = "WAIT_FOR_BACKOFF" ->
         /\ fault' = Assert(backoffElapsed < bc * SlotTime, "BackoffOverrun")
         /\ GoBusy(d, CancelEvent(evs, "backoff"))
         /\ backoffCount' = bc - SlotsConsumed(backoffElapsed, bc)
         /\ grantRequested' = gr /\ lastCb' = "none"
    [] OTHER ->
         /\ fault' = "UnreachableBusyState" /\ lastCb' = "none"
         /\ UNCHANGED <<state, backoffCount, grantRequested, events, lastBusyTime>>

\* NrCat2LbtAccessManager::TransitionToBusy: an interrupted defer is denied,
\* and backoff is a fatal error.
Cat2TransitionToBusy(d, bc, gr, evs) ==
  CASE state = "WAIT_FOR_DEFER" ->
         /\ GoBusy(d, CancelEvent(evs, "defer"))
         /\ grantRequested' = FALSE /\ lastCb' = "deny"
         /\ backoffCount' = bc /\ fault' = "none"
    [] state = "WAIT_FOR_BACKOFF" ->
         /\ fault' = "Cat2InBackoff" /\ lastCb' = "none"
         /\ UNCHANGED <<state, backoffCount, grantRequested, events, lastBusyTime>>
    [] OTHER -> BaseTransitionToBusy(d, bc, gr, evs)

TransitionToBusy(d, bc, gr, evs) ==
  IF Category = "Cat2" THEN Cat2TransitionToBusy(d, bc, gr, evs)
                       ELSE BaseTransitionToBusy(d, bc, gr, evs)

-----------------------------------------------------------------------------
(* The timer handlers; evs is the queue without the event that fired.      *)

\* RequestAccessAfterDefer (): start the backoff, or grant if none is left;
\* the base class re-arms the defer when it fires in another state.
BaseRequestAccessAfterDefer(evs) ==
  /\ IF state = "WAIT_FOR_DEFER"
       THEN IF backoffCount = 0
              THEN SetGrant /\ events' = evs /\ UNCHANGED backoffElapsed
              ELSE /\ backoffElapsed' = 0
                   /\ events' = Schedule(evs, "backoff", SlotTime * backoffCount)
                   /\ state' = "WAIT_FOR_BACKOFF"
                   /\ lastCb' = "none"
                   /\ UNCHANGED grantRequested
       ELSE /\ events' = Schedule(evs, "defer", DeferTime)
            /\ state' = "WAIT_FOR_DEFER"
            /\ lastCb' = "none"
            /\ UNCHANGED <<grantRequested, backoffElapsed>>
  /\ fault' = "none"
  /\ UNCHANGED <<backoffCount, lastBusyTime>>

\* NrCat2LbtAccessManager::RequestAccessAfterDefer: grant, or abort.
Cat2RequestAccessAfterDefer(evs) ==
  /\ IF state = "WAIT_FOR_DEFER"
       THEN SetGrant /\ fault' = "none"
       ELSE /\ fault' = "Cat2DeferNotInDefer" /\ lastCb' = "none"
            /\ UNCHANGED <<state, grantRequested>>
  /\ events' = evs
  /\ UNCHANGED <<backoffCount, lastBusyTime, backoffElapsed>>

RequestAccessAfterDefer(evs) ==
  IF Category = "Cat2" THEN Cat2RequestAccessAfterDefer(evs)
                       ELSE BaseRequestAccessAfterDefer(evs)

\* RequestAccessAfterBackoff (): grant and clear the count, or abort.
RequestAccessAfterBackoff(evs) ==
  /\ IF state = "WAIT_FOR_BACKOFF"
       THEN SetGrant /\ backoffCount' = 0 /\ fault' = "none"
       ELSE /\ fault' = "BackoffEventNotInBackoff" /\ lastCb' = "none"
            /\ UNCHANGED <<state, grantRequested, backoffCount>>
  /\ events' = evs
  /\ UNCHANGED <<lastBusyTime, backoffElapsed>>

\* Variants of TransitionFromBusy: one that does not wait out a busy period
\* reported while BUSY, one that forgets the pending request.
TransitionFromBusyNoExtend(evs) ==
  /\ IF grantRequested
       THEN events' = Schedule(evs, "defer", DeferTime) /\ state' = "WAIT_FOR_DEFER"
       ELSE events' = evs /\ state' = "IDLE"
  /\ fault' = "none" /\ lastCb' = "none"
  /\ UNCHANGED <<backoffCount, grantRequested, lastBusyTime, backoffElapsed>>

TransitionFromBusyDropsRequest(evs) ==
  /\ IF lastBusyTime > 0
       THEN events' = Schedule(evs, "busy", lastBusyTime) /\ state' = "BUSY"
       ELSE events' = evs /\ state' = "IDLE"
  /\ fault' = "none" /\ lastCb' = "none"
  /\ UNCHANGED <<backoffCount, grantRequested, lastBusyTime, backoffElapsed>>

\* TransitionFromBusy (): wait out a later busy end, else defer for a
\* pending request, else IDLE.
TransitionFromBusy(evs) ==
  /\ IF lastBusyTime > 0
       THEN events' = Schedule(evs, "busy", lastBusyTime) /\ state' = "BUSY"
       ELSE IF grantRequested
              THEN events' = Schedule(evs, "defer", DeferTime) /\ state' = "WAIT_FOR_DEFER"
              ELSE events' = evs /\ state' = "IDLE"
  /\ fault' = "none" /\ lastCb' = "none"
  /\ UNCHANGED <<backoffCount, grantRequested, lastBusyTime, backoffElapsed>>

\* The callbacks of a step that the MAC did not cause answer its request.
MacObserves ==
  /\ macWaiting' = IF lastCb' = "none" THEN macWaiting ELSE FALSE
  /\ cbSolicited' = macWaiting

\* The scheduler dispatches the first event due now.
FireEvent ==
  \E i \in DueNext :
    LET rest == Drop(events, i) IN
    /\ CASE events[i].kind = "defer"   -> RequestAccessAfterDefer(rest)
         [] events[i].kind = "backoff" -> RequestAccessAfterBackoff(rest)
         [] events[i].kind = "busy"    -> TransitionFromBusy(rest)
    /\ UNCHANGED <<cat4Vars, initialized, busyUntil>>
    /\ MacObserves

-----------------------------------------------------------------------------
(* RequestAccess (), called by the MAC.                                    *)

\* The window after DoInitialize (), which RequestAccess calls itself while
\* the object is not initialized; only Cat4 overrides it (cw := cwMin).
InitializedCw == IF Category = "Cat4" /\ ~initialized THEN Cat4MinCw ELSE cw

\* The slow path of NrLbtAccessManager::RequestAccess after the draw n.
BaseRequestAccessSlow(n) ==
  IF state = "IDLE"
    THEN /\ events' = Schedule(events, "defer", DeferTime + lastBusyTime)
         /\ state' = "WAIT_FOR_DEFER"
         /\ backoffCount' = n /\ grantRequested' = TRUE
         /\ fault' = "none" /\ lastCb' = "none"
         /\ UNCHANGED lastBusyTime
    ELSE IF lastBusyTime > 0
      THEN TransitionToBusy(lastBusyTime, n, TRUE, events)
      ELSE /\ backoffCount' = n /\ grantRequested' = TRUE
           /\ fault' = "none" /\ lastCb' = "none"
           /\ UNCHANGED <<state, events, lastBusyTime>>

\* A variant of RequestAccess without the m_grantRequested early return.
BaseRequestAccessNoPendingCheck ==
  LET w0 == InitializedCw
      win == IF Category = "Cat4" THEN Cat4Window(w0, acks, nacks, numberOfAttempts)
                                  ELSE [cw |-> w0, att |-> numberOfAttempts]
      bound == IF Category = "Cat4" THEN win.cw ELSE Cat3ContentionWindow
  IN
  IF -lastBusyTime >= DeferTime
    THEN /\ SetGrant /\ cw' = w0 /\ fault' = "none"
         /\ UNCHANGED <<backoffCount, events, lastBusyTime, backoffElapsed,
                        acks, nacks, numberOfAttempts>>
  ELSE /\ cw' = win.cw /\ numberOfAttempts' = win.att
       /\ IF Category = "Cat4" /\ (acks > 0 \/ nacks > 0)
            THEN acks' = 0 /\ nacks' = 0 ELSE UNCHANGED <<acks, nacks>>
       /\ \E n \in 0 .. bound : BaseRequestAccessSlow(n)
       /\ UNCHANGED backoffElapsed

\* NrLbtAccessManager::RequestAccess (Cat3 and Cat4): GetBackoffSlots ()
\* draws uniformly from [0, window].
BaseRequestAccess ==
  LET w0 == InitializedCw
      win == IF Category = "Cat4" THEN Cat4Window(w0, acks, nacks, numberOfAttempts)
                                  ELSE [cw |-> w0, att |-> numberOfAttempts]
      bound == IF Category = "Cat4" THEN win.cw ELSE Cat3ContentionWindow
  IN
  IF grantRequested
    THEN /\ cw' = w0 /\ fault' = "none" /\ lastCb' = "none"
         /\ UNCHANGED <<lbtVars, acks, nacks, numberOfAttempts>>
  ELSE IF -lastBusyTime >= DeferTime
    THEN /\ SetGrant /\ cw' = w0 /\ fault' = "none"
         /\ UNCHANGED <<backoffCount, events, lastBusyTime, backoffElapsed,
                        acks, nacks, numberOfAttempts>>
  ELSE /\ cw' = win.cw /\ numberOfAttempts' = win.att
       /\ IF Category = "Cat4" /\ (acks > 0 \/ nacks > 0)
            THEN acks' = 0 /\ nacks' = 0 ELSE UNCHANGED <<acks, nacks>>
       /\ \E n \in 0 .. bound : BaseRequestAccessSlow(n)
       /\ UNCHANGED backoffElapsed

\* NrCat2LbtAccessManager::RequestAccess: no backoff; a request that finds
\* the manager anywhere but IDLE is denied at once.
Cat2RequestAccess ==
  /\ IF grantRequested
       THEN lastCb' = "none" /\ UNCHANGED <<state, grantRequested, events>>
     ELSE IF -lastBusyTime >= DeferTime
       THEN SetGrant /\ UNCHANGED events
     ELSE IF state = "IDLE"
       THEN /\ events' = Schedule(events, "defer", DeferTime + lastBusyTime)
            /\ state' = "WAIT_FOR_DEFER"
            /\ grantRequested' = TRUE /\ lastCb' = "none"
     ELSE grantRequested' = FALSE /\ lastCb' = "deny" /\ UNCHANGED <<state, events>>
  /\ fault' = "none"
  /\ UNCHANGED <<backoffCount, lastBusyTime, backoffElapsed, cat4Vars>>

\* The MAC asks for the channel; it waits until a callback answers.
RequestAccess ==
  /\ IF Category = "Cat2" THEN Cat2RequestAccess ELSE BaseRequestAccess
  /\ macWaiting' = (lastCb' = "none")
  /\ cbSolicited' = TRUE
  /\ UNCHANGED <<initialized, busyUntil>>

\* Cancel (): clears m_grantRequested and nothing else.
Cancel ==
  /\ MacMayCancel
  /\ grantRequested' = FALSE
  /\ macWaiting' = FALSE /\ lastCb' = "none" /\ cbSolicited' = TRUE
  /\ UNCHANGED <<state, backoffCount, events, lastBusyTime, backoffElapsed,
                 cat4Vars, initialized, fault, busyUntil>>

-----------------------------------------------------------------------------
(* The environment: PHY, MAC HARQ, ns-3 object initialisation, time.      *)

\* The PHY's "ChannelOccupied" trace for d time units.
ChannelOccupied ==
  /\ \E d \in 1 .. MaxBusy :
       /\ TransitionToBusy(d, backoffCount, grantRequested, events)
       /\ busyUntil' = MaxOf(busyUntil, d)
  /\ UNCHANGED <<backoffElapsed, cat4Vars, initialized>>
  /\ MacObserves

\* UpdateCwBasedOnHarq: one DL HARQ feedback counted (Cat4 only).
DlHarqFeedback ==
  /\ Category = "Cat4"
  /\ acks + nacks < MaxFeedback
  /\ \/ acks' = acks + 1 /\ UNCHANGED nacks
     \/ nacks' = nacks + 1 /\ UNCHANGED acks
  /\ lastCb' = "none"
  /\ UNCHANGED <<lbtVars, cw, numberOfAttempts, initialized, fault, busyUntil>>
  /\ MacObserves

\* Object::Initialize (): DoInitialize () once, and the object is initialized.
Initialize ==
  /\ ~initialized
  /\ initialized' = TRUE
  /\ cw' = IF Category = "Cat4" THEN Cat4MinCw ELSE cw
  /\ lastCb' = "none"
  /\ UNCHANGED <<lbtVars, acks, nacks, numberOfAttempts, fault, busyUntil>>
  /\ MacObserves

\* Virtual time advances one unit when nothing of this manager is due now.
AdvanceTime ==
  /\ \A i \in DOMAIN events : events[i].at > 0
  /\ events' = [i \in DOMAIN events |->
                  [kind |-> events[i].kind, at |-> events[i].at - 1, held |-> events[i].held]]
  /\ lastBusyTime' = MaxOf(lastBusyTime - 1, -DeferTime)
  /\ busyUntil' = MaxOf(busyUntil - 1, -DeferTime)
  /\ backoffElapsed' = IF state = "WAIT_FOR_BACKOFF" THEN backoffElapsed + 1 ELSE backoffElapsed
  /\ lastCb' = "none"
  /\ UNCHANGED <<state, backoffCount, grantRequested, cat4Vars, initialized, fault>>
  /\ MacObserves

-----------------------------------------------------------------------------

\* A freshly constructed manager.  m_state and m_backoffCount have no
\* initialiser, but every manager is built by AddConstructor<T>, whose
\* new T () value-initializes the object: they read IDLE (= 0) and 0.  The
\* other members start at their declared values; the traced window is 0
\* until DoInitialize () sets it to cwMin.
Init ==
  /\ state = "IDLE"
  /\ backoffCount = 0
  /\ grantRequested = FALSE
  /\ events = <<>>
  /\ lastBusyTime = 0
  /\ backoffElapsed = 0
  /\ initialized = InitializedBeforeRun
  /\ cw = IF InitializedBeforeRun /\ Category = "Cat4" THEN Cat4MinCw ELSE 0
  /\ acks = 0 /\ nacks = 0 /\ numberOfAttempts = 0
  /\ fault = "none"
  /\ macWaiting = FALSE /\ lastCb = "none" /\ cbSolicited = TRUE
  /\ busyUntil = 0

\* An abort ends the simulation.
Next ==
  /\ fault = "none"
  /\ \/ RequestAccess
     \/ Cancel
     \/ ChannelOccupied
     \/ DlHarqFeedback
     \/ Initialize
     \/ FireEvent
     \/ AdvanceTime

Spec == Init /\ [][Next]_vars

\* The ns-3 scheduler runs every event that is due and lets virtual time
\* pass when none is; the MAC and the PHY are not obliged to act.
Fairness == WF_vars(FireEvent) /\ WF_vars(AdvanceTime)

FairSpec == Spec /\ Fairness

-----------------------------------------------------------------------------
(* Properties.                                                             *)

TypeOK ==
  /\ state \in LbtStates
  /\ backoffCount \in Nat
  /\ grantRequested \in BOOLEAN
  /\ events \in Seq(Event)
  /\ lastBusyTime \in -DeferTime .. MaxBusy
  /\ backoffElapsed \in Nat
  /\ cw \in Nat /\ acks \in Nat /\ nacks \in Nat /\ numberOfAttempts \in Nat
  /\ initialized \in BOOLEAN
  /\ fault \in Faults
  /\ macWaiting \in BOOLEAN
  /\ lastCb \in {"none", "grant", "deny"}
  /\ cbSolicited \in BOOLEAN
  /\ busyUntil \in -DeferTime .. MaxBusy

\* Every timer the manager relies on is the one its EventId holds: a
\* pending event of each kind is unique and held, the defer and backoff
\* timers run exactly in their waiting states and the busy timer exactly in
\* BUSY (the code never checks which timer fired, so an orphan timer would
\* drive the state machine from a state it was not armed in).
TimerDiscipline ==
  /\ \A i \in DOMAIN events : events[i].held
  /\ \A i, j \in DOMAIN events : events[i].kind = events[j].kind => i = j
  /\ state = "WAIT_FOR_DEFER" <=> IsRunning(events, "defer")
  /\ state = "WAIT_FOR_BACKOFF" <=> IsRunning(events, "backoff")
  /\ state = "BUSY" <=> IsRunning(events, "busy")

\* Listen before talk: the MAC is granted the channel only when every busy
\* period the PHY has reported ended at least the defer time ago (fast
\* path of RequestAccess, RequestAccessAfterDefer, RequestAccessAfterBackoff,
\* all of which rely on m_lastBusyTime and the busy timer tracking them).
ListenBeforeTalk == lastCb = "grant" => busyUntil = -DeferTime

\* A granted or denied callback answers a request of the MAC that is still
\* outstanding: the manager never answers twice, nor after Cancel ().
NoUnsolicitedCallback == lastCb # "none" => cbSolicited

\* No NS_ASSERT, NS_FATAL_ERROR or NS_ABORT_MSG of the manager is reached.
NoFault == fault = "none"

\* Spec section 8: in IDLE the backoff counter is zero (the NS_ASSERT of
\* TransitionToBusy in IDLE).
BackoffZeroWhenIdle == state = "IDLE" => backoffCount = 0

\* An interrupted backoff is resumed, never redrawn: the counter grows only
\* when RequestAccess draws it for a new request (TransitionToBusy in
\* WAIT_FOR_BACKOFF, TransitionFromBusy, RequestAccessAfterDefer).
BackoffNeverRewound ==
  [][backoffCount' > backoffCount => ~grantRequested /\ grantRequested']_vars

\* Spec section 8: a backoff of N slots interrupted k whole slots after its
\* start (plus a remainder shorter than a slot) resumes with N - k slots
\* (the decrement loop of TransitionToBusy in WAIT_FOR_BACKOFF).
BackoffResumesAtSpecCount ==
  [][state = "WAIT_FOR_BACKOFF" /\ state' = "BUSY" =>
       backoffCount' = backoffCount - backoffElapsed \div SlotTime]_vars

\* A step in which GetBackoffSlots evaluates HARQ feedback (Cat4).
Cat4Evaluates == (acks > 0 \/ nacks > 0) /\ acks' = 0 /\ nacks' = 0

\* Spec section 4.4: when the feedback since the last draw counts as a
\* failure, the draw that evaluates it doubles the window the previous draw
\* left (once there is one in [cwMin, cwMax]), saturating at cwMax: cw becomes min (2 * (cw + 1) - 1, cwMax) in
\* exact arithmetic (GetBackoffSlots, DoInitialize, UpdateFailedCw).
WindowDoublesOnFailure ==
  [][(cw \in Cat4MinCw .. Cat4MaxCw /\ Cat4Evaluates /\ Cat4Failed(acks, nacks)) =>
       cw' = MinOf(2 * (cw + 1) - 1, Cat4MaxCw)]_vars

\* Spec section 3: the Cat4 contention window stays within [cwMin, cwMax]
\* once DoInitialize has set it, through every evaluation of HARQ feedback
\* (UpdateFailedCw, ResetCw) and every DoInitialize that RequestAccess runs
\* before the object is initialized.
CwWithinBounds ==
  Category = "Cat4" /\ initialized => cw \in Cat4MinCw .. Cat4MaxCw

\* The promise of a listen-before-talk manager (LbtChannelAccess), seen
\* through the callbacks the MAC receives and the busy periods the PHY
\* reports.  Only Cat2 denies.
ChannelAccess == INSTANCE LbtChannelAccess
  WITH waiting <- macWaiting, answer <- lastCb, channel <- busyUntil,
       DenyAllowed <- (Category = "Cat2")

\* The manager implements the promise: a request made while one is pending
\* is a no-op (the m_grantRequested early return), one made after a full
\* idle defer is granted synchronously (the fast path of RequestAccess),
\* and every callback of a timer handler (RequestAccessAfterDefer,
\* RequestAccessAfterBackoff) or of TransitionToBusy answers the waiting
\* request, a grant only once the channel has been idle for m_deferTime.
ImplementsChannelAccess == ChannelAccess!Spec

\* A request that is waiting is answered once the PHY stops reporting the
\* channel busy: the defer, backoff and busy timers the handlers arm keep
\* the state machine moving until RequestAccessAfterDefer or
\* RequestAccessAfterBackoff grants (no request is stranded in a state
\* with no timer pending).
RequestEventuallyAnswered ==
  <>[][~ChannelOccupied]_vars => (macWaiting ~> ~macWaiting)

====
