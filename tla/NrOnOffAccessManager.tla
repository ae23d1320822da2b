------------------------ MODULE NrOnOffAccessManager ------------------------
(***************************************************************************)
(* The On/Off channel access manager of nr-u                               *)
(* (src/nr-u/model/nr-on-off-access-manager.{h,cc}): no sensing, a duty    *)
(* cycle of ChangeTime on and ChangeTime off driven by one self-re-arming  *)
(* event (Start and ShutDown schedule each other through                   *)
(* m_changeStateEvent).  A request made while on is granted at once for    *)
(* the rest of the on period; one made while off is granted by the next    *)
(* Start.                                                                  *)
(*                                                                         *)
(* As in NrLbtAccessManager, `events' is this manager's part of the        *)
(* scheduler queue in insertion order with times relative to now, and      *)
(* changeStateTime is m_changeStateTime - Now ().  In ns-3 the event being *)
(* executed is already expired, so IsRunning () is false inside the       *)
(* handler that event runs.                                                *)
(***************************************************************************)
EXTENDS Integers, Sequences

CONSTANTS
  ChangeTime,       \* m_changeTime (9 ms in the code), in time units
  AssertsEnabled    \* NS_ASSERT compiled in (debug build) or not

ASSUME ChangeTimeAssumption == ChangeTime \in Nat \ {0}
ASSUME AssertsAssumption == AssertsEnabled \in BOOLEAN

VARIABLES
  grant,            \* m_grant: the on period is running
  call,             \* m_call: a request waits for the next on period
  events,           \* pending Start/ShutDown events of this manager
  changeStateTime,  \* m_changeStateTime - Now ()
  fault,            \* the assertion that ended the run, or "none"
  lastGrant,        \* duration passed to the granted callbacks by the last step, or -1
  txop              \* time left of the transmit opportunity the MAC was last granted

vars == <<grant, call, events, changeStateTime, fault, lastGrant, txop>>

NoGrant == -1
Event == [kind : {"Start", "ShutDown"}, at : Nat, held : BOOLEAN]

\* Simulator::Schedule stored into m_changeStateEvent.
Schedule(evs, k, delay) ==
  Append([i \in DOMAIN evs |-> [kind |-> evs[i].kind, at |-> evs[i].at, held |-> FALSE]],
         [kind |-> k, at |-> delay, held |-> TRUE])

\* m_changeStateEvent.IsRunning ()
IsRunning(evs) == \E i \in DOMAIN evs : evs[i].held

Drop(evs, i) == [j \in 1 .. Len(evs) - 1 |-> IF j < i THEN evs[j] ELSE evs[j + 1]]

DueNext == {i \in DOMAIN events : events[i].at = 0 /\ \A j \in 1 .. i - 1 : events[j].at # 0}

-----------------------------------------------------------------------------

\* Variants of Start as it could easily have been written: re-arming
\* without the IsRunning () check, or granting a whole m_changeTime
\* instead of the time left until the OFF switch.
StartAlwaysRearm(evs, c) ==
  /\ grant' = TRUE
  /\ events' = Schedule(evs, "ShutDown", ChangeTime)
  /\ changeStateTime' = ChangeTime
  /\ lastGrant' = IF c THEN ChangeTime ELSE NoGrant
  /\ txop' = IF c THEN ChangeTime ELSE txop
  /\ call' = FALSE

StartFullPeriod(evs, c) ==
  LET rearm == ~IsRunning(evs)
  IN
  /\ grant' = TRUE
  /\ events' = IF rearm THEN Schedule(evs, "ShutDown", ChangeTime) ELSE evs
  /\ changeStateTime' = IF rearm THEN ChangeTime ELSE changeStateTime
  /\ lastGrant' = IF c THEN ChangeTime ELSE NoGrant
  /\ txop' = IF c THEN ChangeTime ELSE txop
  /\ call' = FALSE

\* A variant of Start that leaves m_call as it found it.
StartKeepsCall(evs, c) ==
  LET rearm == ~IsRunning(evs)
      cst == IF rearm THEN ChangeTime ELSE changeStateTime
  IN
  /\ grant' = TRUE
  /\ events' = IF rearm THEN Schedule(evs, "ShutDown", ChangeTime) ELSE evs
  /\ changeStateTime' = cst
  /\ lastGrant' = IF c THEN cst ELSE NoGrant
  /\ txop' = IF c THEN cst ELSE txop
  /\ call' = c

\* Start (), run with the queue evs and m_call = c: on; the OFF switch is armed unless an
\* event is still held; a waiting call is granted the rest of the period.
Start(evs, c) ==
  LET rearm == ~IsRunning(evs)
      cst == IF rearm THEN ChangeTime ELSE changeStateTime
  IN
  /\ grant' = TRUE
  /\ events' = IF rearm THEN Schedule(evs, "ShutDown", ChangeTime) ELSE evs
  /\ changeStateTime' = cst
  /\ lastGrant' = IF c THEN cst ELSE NoGrant
  /\ txop' = IF c THEN cst ELSE txop
  /\ call' = FALSE

\* A variant of ShutDown that forgets to schedule the next Start.
ShutDownNoRestart(evs) ==
  /\ grant' = FALSE
  /\ events' = evs
  /\ changeStateTime' = ChangeTime
  /\ lastGrant' = NoGrant
  /\ UNCHANGED <<call, txop>>

\* ShutDown (), run with the queue evs: off, and Start armed after
\* ChangeTime (the Cancel () of the running event does nothing).
ShutDown(evs) ==
  /\ grant' = FALSE
  /\ events' = Schedule(evs, "Start", ChangeTime)
  /\ changeStateTime' = ChangeTime
  /\ lastGrant' = NoGrant
  /\ UNCHANGED <<call, txop>>

\* The scheduler dispatches the first event due now.
FireEvent ==
  \E i \in DueNext :
    /\ IF events[i].kind = "Start" THEN Start(Drop(events, i), call) ELSE ShutDown(Drop(events, i))
    /\ UNCHANGED fault

\* RequestAccess (): asserts no call is waiting, records the call, and
\* grants at once while on.
RequestAccess ==
  /\ fault' = IF AssertsEnabled /\ call THEN "CallReentered" ELSE "none"
  /\ IF grant
       THEN Start(events, TRUE)
       ELSE call' = TRUE /\ lastGrant' = NoGrant /\ UNCHANGED <<grant, events, changeStateTime, txop>>

\* Cancel (): forget the waiting call.
Cancel ==
  /\ call' = FALSE
  /\ lastGrant' = NoGrant
  /\ UNCHANGED <<grant, events, changeStateTime, fault, txop>>

\* Virtual time advances one unit when no event of this manager is due.
\* m_changeStateTime is only read while its event is pending, so it is
\* kept at 0 once it has passed.
AdvanceTime ==
  /\ \A i \in DOMAIN events : events[i].at > 0
  /\ events' = [i \in DOMAIN events |->
                  [kind |-> events[i].kind, at |-> events[i].at - 1, held |-> events[i].held]]
  /\ changeStateTime' = IF changeStateTime > 0 THEN changeStateTime - 1 ELSE 0
  /\ lastGrant' = NoGrant
  /\ txop' = IF txop > 0 THEN txop - 1 ELSE 0
  /\ UNCHANGED <<grant, call, fault>>

\* The constructor schedules Start at time 0.
Init ==
  /\ grant = FALSE
  /\ call = FALSE
  /\ events = <<[kind |-> "Start", at |-> 0, held |-> TRUE]>>
  /\ changeStateTime = 0
  /\ fault = "none"
  /\ lastGrant = NoGrant
  /\ txop = 0

Next ==
  /\ fault = "none"
  /\ \/ RequestAccess
     \/ Cancel
     \/ FireEvent
     \/ AdvanceTime

\* The scheduler runs due events and lets time pass: the MAC is not
\* obliged to do anything.
Fairness == WF_vars(FireEvent) /\ WF_vars(AdvanceTime)

Spec == Init /\ [][Next]_vars /\ Fairness

-----------------------------------------------------------------------------

TypeOK ==
  /\ grant \in BOOLEAN
  /\ call \in BOOLEAN
  /\ events \in Seq(Event)
  /\ changeStateTime \in Int
  /\ fault \in {"none", "CallReentered"}
  /\ lastGrant \in {NoGrant} \cup Nat
  /\ txop \in Nat

\* The duty-cycle timer chain of Start/ShutDown never breaks or doubles:
\* exactly one change event is pending and held by m_changeStateEvent, it
\* is the switch to the other phase, and m_changeStateTime is when it
\* fires.  This rests on IsRunning () being false inside the handler of
\* the event itself and true when Start is called from RequestAccess.
TimerChain ==
  /\ Len(events) = 1
  /\ events[1].held
  /\ events[1].at = changeStateTime
  /\ events[1].kind = "ShutDown" <=> grant

\* A transmit opportunity granted by Start (at the on-edge or from
\* RequestAccess while on) lasts, at every later instant, exactly until
\* the pending ShutDown ends the on period: the MAC never transmits in the
\* off period, and its TXOP is not cut short by a later grant.
TxopWithinOnPeriod ==
  txop > 0 =>
    /\ grant
    /\ \E i \in DOMAIN events :
         /\ events[i].kind = "ShutDown"
         /\ events[i].at = txop

\* Spec 4.5: a request made while on is granted "the remaining on-time";
\* a grant is a transmit opportunity of positive length.  RequestAccess
\* at the instant the on period ends, before ShutDown has run, finds
\* m_grant still true.
GrantPositive == lastGrant # NoGrant => lastGrant > 0

\* The NS_ASSERT (m_call == false) of RequestAccess can only be reached by
\* a MAC that asks twice in one off period: m_call is never left set while
\* the manager is on (Start clears it, whether it runs at the on-edge or
\* from RequestAccess), and while it is set the next Start, which serves
\* it, is pending in m_changeStateEvent.
CallWaitsForStart ==
  call =>
    /\ ~grant
    /\ \E i \in DOMAIN events : events[i].kind = "Start" /\ events[i].held

\* The promise of the On/Off manager (OnOffDutyCycle), seen through m_grant,
\* m_changeStateTime - Now (), m_call and the TXOP the callbacks grant.
DutyCycle == INSTANCE OnOffDutyCycle
  WITH Period <- ChangeTime, on <- grant, left <- changeStateTime,
       pending <- call, granted <- lastGrant

\* The manager implements the duty cycle: the Start/ShutDown chain switches
\* exactly every m_changeTime, starting with the Start the constructor
\* schedules at 0; Start grants a waiting call the whole period, and
\* RequestAccess while on grants m_changeStateTime - Now (), through the
\* IsRunning () check that keeps Start from re-arming the switch.
ImplementsDutyCycle == DutyCycle!Spec

\* A call made while off is not lost: the next Start grants it (or the
\* MAC cancels it).
CallEventuallyServed == call ~> ~call

=============================================================================
