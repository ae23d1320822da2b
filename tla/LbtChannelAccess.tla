-------------------------- MODULE LbtChannelAccess --------------------------
(***************************************************************************)
(* What a listen-before-talk channel access manager promises the MAC that *)
(* uses it and the channel it shares (spec sections 4.1, 4.2 and 7),      *)
(* without the timers, states and backoff that achieve it.                 *)
(*                                                                         *)
(* The channel is the end of the latest busy period the energy detector   *)
(* reported, relative to now and clamped at -DeferTime: it is -DeferTime  *)
(* exactly when the channel has been idle for the whole defer time.  The  *)
(* MAC has at most one request outstanding (waiting).  answer is the      *)
(* callback, if any, that the last step invoked.                          *)
(*                                                                         *)
(* The promise:                                                            *)
(*   - a request made while one is outstanding changes nothing;            *)
(*   - a request made after a full idle defer is granted at once;          *)
(*   - any other request waits, or (DenyAllowed) is denied at once;        *)
(*   - a waiting request is granted only after a full idle defer, and     *)
(*     (DenyAllowed) may be denied only by a busy report;                  *)
(*   - the manager answers nothing else.                                   *)
(***************************************************************************)
EXTENDS Integers

CONSTANTS
  DeferTime,    \* the defer interval the channel must be idle before a grant
  MaxBusy,      \* longest busy period the energy detector reports
  DenyAllowed   \* the manager may deny (Cat2) rather than wait out the channel

VARIABLES
  waiting,      \* the MAC has a request out that is not answered
  answer,       \* "grant", "deny" or "none": the callback of the last step
  channel       \* end of the latest reported busy period, relative to now

avars == <<waiting, answer, channel>>

Clear == channel = -DeferTime

\* RequestAccess () by the MAC.
Request ==
  /\ IF waiting
       THEN answer' = "none" /\ UNCHANGED waiting
     ELSE IF Clear
       THEN answer' = "grant" /\ waiting' = FALSE
       ELSE \/ answer' = "none" /\ waiting' = TRUE
            \/ DenyAllowed /\ answer' = "deny" /\ waiting' = FALSE
  /\ UNCHANGED channel

\* Cancel () by the MAC: the request is withdrawn.
Withdraw ==
  /\ waiting' = FALSE
  /\ answer' = "none"
  /\ UNCHANGED channel

\* The waiting request is granted once the channel has been idle for the
\* defer time.
Grant ==
  /\ waiting /\ Clear
  /\ waiting' = FALSE
  /\ answer' = "grant"
  /\ UNCHANGED channel

\* The energy detector reports the channel busy for d; a waiting request
\* may be denied by it.
Busy(d) ==
  /\ channel' = IF channel >= d THEN channel ELSE d
  /\ \/ answer' = "none" /\ UNCHANGED waiting
     \/ DenyAllowed /\ waiting /\ answer' = "deny" /\ waiting' = FALSE

\* Time passes.
Tick ==
  /\ channel' = IF channel - 1 >= -DeferTime THEN channel - 1 ELSE -DeferTime
  /\ answer' = "none"
  /\ UNCHANGED waiting

\* A step of the manager that invokes no callback.
Quiet ==
  /\ answer' = "none"
  /\ UNCHANGED <<waiting, channel>>

Init ==
  /\ waiting = FALSE
  /\ answer = "none"
  /\ channel = 0

Next ==
  \/ Request
  \/ Withdraw
  \/ Grant
  \/ \E d \in 1 .. MaxBusy : Busy(d)
  \/ Tick
  \/ Quiet

Spec == Init /\ [][Next]_avars

=============================================================================
