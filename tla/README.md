# TLA+ models of the nr-u channel access managers

This directory holds TLA+ models of the channel access managers of the
nr-u module (`src/nr-u/model/`). It also holds the TLC configurations that
model-check them and TLAPS proofs about both managers.

## The system and its parts

A gNB MAC asks its channel access manager for the unlicensed channel. The
manager answers through callbacks: *granted* (with a TXOP duration) or
*denied*. nr-u has two managers.

* **NrLbtAccessManager** (`nr-lbt-access-manager.{h,cc}`) does
  Listen-Before-Talk. A state machine IDLE / BUSY / WAIT_FOR_DEFER /
  WAIT_FOR_BACKOFF / TXOP_GRANTED is driven by three inputs:
  * calls from the MAC (`RequestAccess`, `Cancel`);
  * the PHY's energy-detection trace `ChannelOccupied`, through
    `TransitionToBusy`;
  * three self-scheduled ns-3 events (defer, backoff, busy), each held in an
    `EventId`.

  Three subclasses change the rules:
  * Cat2 defers only, and denies a request when it meets a busy channel.
  * Cat3 draws a backoff from a fixed window.
  * Cat4 adapts the window from DL HARQ feedback (`UpdateCwBasedOnHarq`,
    four update rules, `UpdateFailedCw`, `ResetCw`, retry limit).
* **NrOnOffAccessManager** (`nr-on-off-access-manager.{h,cc}`) does no
  sensing. `Start` and `ShutDown` schedule each other through one `EventId`,
  so the channel is on for 9 ms and off for 9 ms. A request made while on is
  granted the rest of the on period. A request made while off waits for the
  next `Start`.

The managers interact only with the MAC, the PHY and the ns-3 scheduler.
Those three are outside this repository, so they appear as environment
actions.

## Modules

| Module | Models |
|---|---|
| `NrLbtAccessManager` | The base LBT state machine and Cat2/Cat3/Cat4, selected by the constant `Category` |
| `LbtChannelAccess` | The abstract service an LBT manager promises the MAC (request, grant, deny, busy report, tick), with no timers or states |
| `MC_NrLbtAccessManager` | Constant definitions for the LBT cfgs (initial-state sets, queue bound, a wide window) |
| `NrOnOffAccessManager` | The On/Off manager |
| `OnOffDutyCycle` | The abstract duty cycle the On/Off manager promises the MAC (switch, request, withdraw, tick), with no scheduler events |
| `NrLbtAccessManagerProofs` | TLAPS proofs of the LBT type invariant and timer discipline |
| `NrLbtRefinementProofs` | TLAPS proofs that the LBT manager refines `LbtChannelAccess`, and of `ListenBeforeTalk`, `NoUnsolicitedCallback`, `BackoffZeroWhenIdle` and `NoFault` |
| `NrLbtBackoffProofs` | TLAPS proofs of `BackoffNeverRewound`, `WindowDoublesOnFailure`, `CwWithinBounds` and of what the decrement loop computes |
| `NrOnOffAccessManagerProofs` | TLAPS proofs of the On/Off invariants and of the refinement of `OnOffDutyCycle` |

### How the scheduler is modelled

Both managers run inside the ns-3 discrete-event simulator. Three facts about
ns-3 matter here, and the model keeps them:

* Events at the same instant fire in insertion order (timestamp, then uid).
* `Simulator::Schedule` stored into an `EventId` does **not** cancel the
  event that the `EventId` held before. That old event becomes an orphan that
  still fires.
* The event being executed is already expired. So `IsRunning()` is false
  inside its own handler.

`events` is therefore this manager's part of the scheduler queue. It is a
sequence of records `[kind, at, held]`:

* `at` is the firing time relative to now;
* `held` says whether the manager's `EventId` still refers to the event.

The operators map to the code as follows:

| Operator | Code |
|---|---|
| `Schedule` | `m_xEvent = Simulator::Schedule(...)` |
| `IsRunning` | `EventId::IsRunning` |
| `CancelEvent` | `if (IsRunning) Cancel` |
| `FireEvent` | Dispatching the first due event, with the queue minus that event |
| `AdvanceTime` | Letting one time unit pass when nothing is due |

Time is relative, which keeps the state finite:

* `lastBusyTime` is `m_lastBusyTime - Now()`, clamped at `-DeferTime`. The
  code only compares `Now() - m_lastBusyTime` with `m_deferTime`.
* `backoffElapsed` is `Now() - m_backoffStartTime`.

### NrLbtAccessManager

Variables map to members: `state` = `m_state`, `backoffCount`,
`grantRequested`, `cw` (the traced Cat4 window), `acks`, `nacks`,
`numberOfAttempts`, and `initialized` (`Object::IsInitialized`). A few
variables are not members:

* `fault` records the `NS_ASSERT`, `NS_FATAL_ERROR` or `NS_ABORT_MSG` that
  ended the run. `Next` requires `fault = "none"`.
* `macWaiting`, `lastCb` and `cbSolicited` observe the callbacks the MAC
  receives.
* `busyUntil` is a ghost for the end of the channel's latest reported busy
  period. It lets listen-before-talk be stated about the channel, not about
  the code's own `m_lastBusyTime`.

Each handler is one operator with its whole body:

| Operator | Code |
|---|---|
| `BaseRequestAccess` | The early return on `m_grantRequested`, the fast grant after a full defer, `DoInitialize` when not yet initialized, the Cat4 window update, the draw, then the IDLE / busy / other cases |
| `Cat2RequestAccess` | The Cat2 override of `RequestAccess` |
| `BaseTransitionToBusy`, `Cat2TransitionToBusy` | `TransitionToBusy`, all state cases, including the decrement loop `SlotsConsumed` and the BUSY extension |
| `TransitionFromBusy` | `TransitionFromBusy` |
| `BaseRequestAccessAfterDefer`, `Cat2RequestAccessAfterDefer` | `RequestAccessAfterDefer` |
| `RequestAccessAfterBackoff` | `RequestAccessAfterBackoff` |
| `SetGrant` | `SetGrant` |
| `Cancel` | `Cancel` |
| `Initialize` | `DoInitialize` via `Object::Initialize` |
| `DlHarqFeedback` | `UpdateCwBasedOnHarq` |

A handler that ends in `NS_ASSERT`, `NS_FATAL_ERROR` or `NS_ABORT_MSG`
sets `fault` and invokes no callback (`lastCb' = "none"`): the simulation
aborts before any callback would run.

`m_state` and `m_backoffCount` have no initialiser, but every manager is
created by `AddConstructor<T>` (Cat2, Cat3, Cat4 declare no constructor of
their own), whose `new T ()` value-initializes the object. So `Init` starts
them at IDLE (the enum's 0) and 0.

Some things the code leaves configurable become constants:

* `NS_ASSERT` only acts in a debug build. This is the constant
  `AssertsEnabled`.
* Whether the MAC ever calls `Cancel` is `MacMayCancel`.
* Whether ns-3 initializes the object before the first request is
  `InitializedBeforeRun`.
* Cat4's `uint32_t` window arithmetic is taken modulo `2^CwWidth`.

### The abstract service and the refinement

`LbtChannelAccess` states what any LBT manager promises, with three
variables: `waiting` (the MAC has a request out), `answer` (the callback the
last step invoked) and `channel` (end of the latest reported busy period,
relative to now, clamped at `-DeferTime`). A request made while one waits
changes nothing. A request made after a full idle defer is granted at once.
Any other request waits or, when `DenyAllowed`, is denied. A waiting request
is granted only once the channel is clear, and may be denied only by a busy
report. Nothing else invokes a callback.

`NrLbtAccessManager` instantiates it as `ChannelAccess` with
`waiting <- macWaiting`, `answer <- lastCb`, `channel <- busyUntil` and
`DenyAllowed <- (Category = "Cat2")`. `ImplementsChannelAccess` is
`ChannelAccess!Spec`, checked by TLC as a `PROPERTY` and proved by TLAPS.
Every timer handler, the scheduler's `AdvanceTime` and the bookkeeping
actions map to `Grant`, `Tick` or `Quiet` (or a stutter); `RequestAccess`
maps to `Request`; `ChannelOccupied` to `Busy(d)`.

### NrOnOffAccessManager

Variables map to members: `grant` = `m_grant`, `call` = `m_call`,
`changeStateTime` = `m_changeStateTime - Now()`, plus the queue `events`.
`lastGrant` is the duration that the last step granted. `txop` is a ghost
for the time left of the MAC's current TXOP.

| Operator | Code |
|---|---|
| `Start` | `Start`, including its `IsRunning` check and the grant of the remaining on time to a waiting call |
| `ShutDown` | `ShutDown` |
| `RequestAccess` | `RequestAccess`, with its `NS_ASSERT (!m_call)` |
| `Cancel` | `Cancel` |

`OnOffDutyCycle` states what the manager promises without its events: the
channel is off and on for `Period` each, alternately; a request while on is
granted the rest of the on period, one while off waits and is granted the
whole on period when it starts, and the MAC may withdraw it. The
refinement mapping `DutyCycle` in `NrOnOffAccessManager` is
`Period <- ChangeTime`, `on <- grant`, `left <- changeStateTime`,
`pending <- call`, `granted <- lastGrant`. Firing the change event is a
`Switch`, `RequestAccess` a `Request`, `Cancel` a `Withdraw`, and
`AdvanceTime` a `Tick`. The abstract spec allows a grant of length 0 at the
instant an on period ends, which is what the code does (run
`onoff_zero_grant`).

## Runs

Each run below lists its configuration and what TLC shows. Every property
of every passing run has a mutant in `PROJECT.json`: a plausible bug in a
mapped definition that TLC must catch.

### Passing runs

**`lbt_cat3`** (`MC_Cat3.cfg`)

* Configuration: Cat3, release build, a MAC that never cancels, and
  `Initialize` racing the first request.
* Properties:
  * `TypeOK`
  * `TimerDiscipline`: each pending timer is unique and held, and runs
    exactly in its state.
  * `ListenBeforeTalk`: a grant only comes once every reported busy period
    ended at least the defer time ago.
  * `NoUnsolicitedCallback`
  * `NoFault`
  * `BackoffZeroWhenIdle`
  * `BackoffNeverRewound`: the backoff count only grows when a new request
    draws it.
  * `ImplementsChannelAccess`: the manager refines `LbtChannelAccess`.
  * `RequestEventuallyAnswered`: under the scheduler's fairness, a waiting
    request is answered once the PHY stops reporting busy periods. This is
    what fails if some path leaves a request pending with no timer armed.
* The run uses `FairSpec`.

**`lbt_cat2_debug`** (`MC_Cat2Debug.cfg`)

* Configuration: Cat2 with asserts on. Busy periods are longer than the
  defer, so a defer can be interrupted and denied.
* Properties: `TimerDiscipline`, `ListenBeforeTalk`,
  `NoUnsolicitedCallback`, `NoFault`, `ImplementsChannelAccess` (with
  `DenyAllowed` true, so denials are abstract steps).

**`lbt_cat4_cancel`** (`MC_Cat4Cancel.cfg`)

* Configuration: Cat4, a retry limit of 1, HARQ feedback, and a MAC that may
  cancel.
* Properties:
  * `TypeOK`
  * `CwWithinBounds`: once initialized, the window stays within
    `[cwMin, cwMax]`.
  * `WindowDoublesOnFailure`: on a failure the window becomes
    `min(2(cw+1)-1, cwMax)` in exact arithmetic.
  * `BackoffNeverRewound`, which holds even with orphan timers.
* Bounds: the queue is held to 3 events (`MC_EventsBound`). Deadlock is not
  checked, because a fatal error ends the simulation.

**`onoff`** (`MC_OnOff.cfg`)

* Configuration: the code's 9 ms period, as 36 units of 0.25 ms.
* Properties: `TimerChain`, `TxopWithinOnPeriod`, `CallWaitsForStart`,
  `ImplementsDutyCycle` (the manager refines `OnOffDutyCycle`) and the
  liveness property `CallEventuallyServed`.
* `CallWaitsForStart`: `m_call` is set only while off, with the `Start`
  that will serve it pending. So the `NS_ASSERT (m_call == false)` of
  `RequestAccess` is reached only by a MAC that asks twice in one off
  period, never because `m_call` was left set by the manager.

### Violation runs

Each violation run checks one property, and TLC finds a counterexample:

| Run | What the counterexample shows |
|---|---|
| `cancel_fatal` | `Cancel` in backoff, then a new request, reaches `NS_FATAL_ERROR("Unreachable?")` |
| `cancel_grant_busy` | An orphan defer event left by `Cancel` re-arms itself in BUSY, and the channel is granted while it is busy |
| `debug_backoff_overrun` | A busy report at the instant of the backoff expiry fails the `NS_ASSERT` of the decrement loop |
| `backoff_resume_spec` | The loop counts a partial slot as consumed, whereas the spec resumes with N − k for k whole slots |
| `cat4_uninitialized` | Before `Object::Initialize`, every request resets the Cat4 window to cwMin, so it never doubles |
| `cat4_cw_overflow` | With cwMax above 2^31, `2*(cw+1)-1` wraps and the window shrinks on failure |
| `onoff_zero_grant` | A request at the instant of the OFF switch, before `ShutDown` runs, is granted a zero-length TXOP |

`PROJECT.json` (`findings`) gives each with its source line.

### Why the bounds are enough

Time units are chosen so that every ordering the code distinguishes occurs:

* the defer is shorter than, equal to, and longer than a busy period;
* backoff is interrupted before, at, and after a slot boundary;
* a busy report falls at the same instant as a timer expiry.

Windows of 1–3 slots give zero, one and several slots of backoff. For Cat4:

* a retry limit of 1 exercises both branches of `ResetCw`;
* one ACK or NACK before each draw exercises the update rule (ANY_NACK);
* `CwWidth = 4` with cwMax 3 stays below the wrap;
* the overflow run uses cwMax 12.

For On/Off, 36 units puts the period on the code's 0.25 ms scale. A request
can arrive at every instant of both phases.

## Fairness

`Spec` of the LBT module has no fairness. `FairSpec` adds weak fairness of
`FireEvent` and `AdvanceTime` only:

* the ns-3 scheduler runs every due event and moves virtual time on when
  nothing is due, so both are justified;
* the MAC is not obliged to request, and the PHY may report busy periods at
  any time, so neither gets fairness.

`RequestEventuallyAnswered` is conditional on the PHY eventually falling
silent (`<>[][~ChannelOccupied]_vars`): a channel that stays busy forever
may starve a request, and the code cannot prevent that.

The On/Off specification assumes weak fairness of `FireEvent` and
`AdvanceTime`. The ns-3 scheduler runs every due event, and virtual time
moves on whenever nothing is due. The MAC itself is not assumed to act.

## What is proved

### The On/Off manager

`NrOnOffAccessManagerProofs` proves five theorems with TLAPS, for every
`ChangeTime \in Nat \ {0}` and either build:

* `TypeCorrect`
* `TimerChainInvariant` (`Spec => []TimerChain`)
* `TxopWithinOnPeriodInvariant` (`Spec => []TxopWithinOnPeriod`)
* `CallWaitsForStartInvariant` (`Spec => []CallWaitsForStart`)
* `DutyCycleRefinement` (`Spec => ImplementsDutyCycle`)

All four follow from one inductive invariant, `IInv`. It is the
conjunction of:

* `TypeOK`;
* `TimerChain`;
* `txop > 0 => grant /\ txop = changeStateTime`;
* `call => ~grant`. With `TimerChain` this gives `CallWaitsForStart`: the
  single pending event is a Start whenever the manager is off.

`TxopWithinOnPeriod` alone is not inductive, because its existential does
not say that the ShutDown event is the only one pending. `TimerChain`
supplies that: exactly one event is pending, and it is held and due at
`changeStateTime`. With it, the step from `RequestAccess` while on can be
shown not to re-arm the timer.

The proof has one case per action:

* In `FireEvent`, the fired event is the only one, so the queue without it
  is empty. `IsRunning` is false, and `Start` re-arms the timer.
* `AdvanceTime` shifts the single event.
* In `RequestAccess` while on, the held event makes `IsRunning` true, and
  the TXOP equals `changeStateTime`.

The refinement rests on the same `IInv`. `Init` maps to the abstract
`Init` (off, with the first switch due at once). `RequestAccessRefines`
and `FireEventRefines` show that the two handlers are a `Request` and a
`Switch`; `NextRefinesDutyCycle` adds `Cancel` and `AdvanceTime`. `IInv`
is needed because only the single pending event of `TimerChain` makes the
fired event the switch due at `changeStateTime = 0`, and only
`call => ~grant` makes the abstract `Switch` grant the waiting request.

Lemmas about the one-element queue (`SingleQueue`, `ChainFacts`,
`ScheduleEmpty`, `DropSingle`, `NotRunningEmpty`) are stated once and cited.

### The LBT manager

`NrLbtAccessManagerProofs` proves two theorems, for every category and every
value of the constants that satisfies their named assumptions
(`TimingAssumption`, `WindowAssumption` and the others in
`NrLbtAccessManager`):

* `TypeCorrect` (`Spec => []TypeOK`). It shows that every timer is
  scheduled with a non-negative delay, that the decrement loop of
  `TransitionToBusy` (`SlotsConsumed`) never drives `m_backoffCount` below
  0, and that the Cat4 window stays a natural number under the
  `2^CwWidth` arithmetic.
* `TimerDisciplineInvariant` (`Spec => []TimerDiscipline`), under one
  hypothesis: the MAC never calls `Cancel` (`~MacMayCancel`).

`TimerDiscipline` is not inductive alone. The inductive invariant `TDInv`
is `TypeOK` plus `QueueOK`, which says:

* every pending event is held, and no two have the same kind;
* the kinds pending are exactly the timer of the current state (defer in
  WAIT_FOR_DEFER, backoff in WAIT_FOR_BACKOFF, busy in BUSY, none
  otherwise);
* a waiting state implies `grantRequested`, so `RequestAccess` returns
  early instead of scheduling a second defer;
* the busy event is due no later than `lastBusyTime`. So in BUSY
  `lastBusyTime >= 0`, and the fast grant of `RequestAccess` (which needs a
  full defer since the last busy time) never fires in BUSY.

TLC checked `TDInv` as an invariant of the Cat3, Cat2 and Cat4 instances
before it was proved. The proof has one lemma per handler (for example
`TransitionToBusyQueue`, `AfterDeferQueue`, `AfterBackoffQueue`,
`FromBusyQueue`, `RequestAccessQueue`), each resting on queue lemmas
(`ScheduleFresh`, `DropFacts`, `CancelFacts`, `ShiftFacts`). With `Cancel`
the invariant is false: the runs `cancel_grant_busy` and
`cancel_fatal` and their findings show how.

### The refinement and the LBT safety properties

`NrLbtRefinementProofs` proves, for every category and every value of the
constants, with `~MacMayCancel`:

* `ChannelAccessRefinement`: `Spec => ImplementsChannelAccess`;
* `ListenBeforeTalkInvariant`: `Spec => []ListenBeforeTalk`;
* `NoUnsolicitedCallbackInvariant`: `Spec => []NoUnsolicitedCallback`;
* `BackoffZeroWhenIdleInvariant`: `Spec => []BackoffZeroWhenIdle`;
* `NoFaultInvariant`: `Spec => []NoFault`, for a release build or Cat2.

The inductive invariants are built in layers, each checked with TLC first:

* `RInv` is `TDInv` plus `SyncOK`. `SyncOK` ties the ghost to the code and
  the observers to the members: `busyUntil = lastBusyTime` while no fault
  occurred; `lastBusyTime <= 0` outside BUSY; `macWaiting = grantRequested`;
  every pending defer is due no earlier than the defer after the last busy
  time (`DeferBounded`); in WAIT_FOR_BACKOFF the channel is already clear;
  a grant leaves the channel clear; and a callback was solicited. Without
  `DeferBounded` a defer event could fire before the channel has been idle
  for the defer time, and the grant in `RequestAccessAfterDefer` would not
  map to the abstract `Grant`.
* `CInv` adds `CountOK`: a non-zero backoff count only exists while a
  request is pending in Cat3/Cat4, IDLE has no request, and Cat2 never
  enters WAIT_FOR_BACKOFF. This gives `BackoffZeroWhenIdle`.
* `NFInv` adds `state \in LbtStates /\ fault = "none"`; with `CountOK`
  every assertion and unreachable branch is shown unreachable.

The step proof has one lemma per group of actions (`RequestAccessStep`,
`ChannelOccupiedStep`, `FireEventStep`, `AdvanceTimeStep`,
`BookkeepingStep`), each showing `RInv'` and a step of
`ChannelAccess!Next` or a stutter. The outcome lemmas
(`BaseRequestOutcome`, `Cat2RequestOutcome`, `TransitionToBusyOutcome`)
describe what each handler does to the observed variables, and the
`Defer*` lemmas what each queue operation does to `DeferBounded`. The
temporal theorems combine `Init => Inv` and `Inv /\ [Next]_vars => Inv'`
by PTL.

### Backoff and contention window

`NrLbtBackoffProofs` proves, for every category and every value of the
constants satisfying the assumptions of `NrLbtAccessManager`:

* `BackoffNeverRewoundProperty` (`Spec => BackoffNeverRewound`), with no
  hypothesis on the MAC: it holds with `Cancel` and its orphan timers too.
  It needs no invariant beyond `TypeOK`. Each handler either leaves the
  count alone, lowers it (`TransitionToBusy`'s loop, a backoff slot), or
  draws a new one only in the `RequestAccess` that sets `grantRequested`.
* `WindowDoublesOnFailureProperty` (`Spec => WindowDoublesOnFailure`),
  assuming `InitializedBeforeRun` and `2 * cwMax + 1 < 2^CwWidth`. Both
  hypotheses are necessary: the violation runs `cat4_uninitialized` and
  `cat4_cw_overflow` break the property without them. The proof shows that
  `initialized` stays true, and that `UpdateFailedCw` in `CwWidth`-bit
  arithmetic equals the exact `min` when the window is in range
  (`UpdateFailedCwExact`, from `ModSmall`).
* `CwWithinBoundsInvariant` (`Spec => []CwWithinBounds`), assuming
  `cwMin <= cwMax` and the same width bound. `CwWithinBounds` is inductive
  with `TypeOK`: `DoInitialize` and `ResetCw` set `cwMin`, and
  `UpdateFailedCw` saturates at `cwMax` (`Cat4WindowBounds`).
* `SlotsConsumedCeiling`: for every slot time, count `c` and elapsed time
  `e`, the decrement loop consumes `min(c, e \div SlotTime)` slots when `e`
  is a whole number of slots and `min(c, e \div SlotTime + 1)` otherwise.
  This is the exact size of the `backoff_resume_spec` divergence: at most
  one slot, and only after a partial slot.

### Model-checked only

* The liveness properties `CallEventuallyServed` and
  `RequestEventuallyAnswered` are checked only by TLC. They depend on
  fairness and ENABLED, which the prover does not handle.
* `TimerDiscipline`, `ListenBeforeTalk`, `NoUnsolicitedCallback`,
  `BackoffZeroWhenIdle`, `NoFault` and `ImplementsChannelAccess` are proved
  only for a MAC that never calls `Cancel`. With `MacMayCancel` they are
  false: TLC finds `TDInv`, `NoUnsolicitedCallback` and
  `BackoffZeroWhenIdle` violated in the Cat3 cancel instance, and the runs
  `cancel_grant_busy` and `cancel_fatal` show the consequences. What holds
  with `Cancel` is only model-checked on the instances above, except
  `BackoffNeverRewound`, `WindowDoublesOnFailure` and `CwWithinBounds`,
  which are proved.

## Not modelled

* Attribute registration and the getters and setters: configuration only,
  which appears as constants.
* The PHY's energy detection and the MAC: outside this repository. They are
  environment actions.
* The output managers: I/O sinks.
* Node-placement scenarios and radio-technology setup: one-shot
  configuration.
* Examples and helpers.
* The grant duration (mcot) passed to LBT callbacks, and
  `m_lastTxopStartTime`: write-only for the manager.

## Plan for later work

* Two managers sharing one channel.
* Cat2 with `Cancel`.
