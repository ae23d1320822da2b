--------------------------- MODULE OnOffDutyCycle ---------------------------
(***************************************************************************)
(* What the On/Off channel access manager promises the MAC (spec section   *)
(* 4.5), without the scheduler events that achieve it: the channel is on  *)
(* for Period and off for Period, alternately, starting off with the      *)
(* first switch due at once.  A request made while on is granted the time *)
(* left of the on period; one made while off waits and is granted the     *)
(* whole on period when it starts.  The MAC may withdraw a waiting        *)
(* request.                                                                *)
(*                                                                         *)
(* left is the time to the next switch; granted is the TXOP length the     *)
(* last step granted, or NoGrant.  A request at the very instant an on     *)
(* period ends (left = 0) is granted a TXOP of length 0: the promise does  *)
(* not exclude it.                                                         *)
(***************************************************************************)
EXTENDS Integers

CONSTANT Period   \* length of each on and each off period

VARIABLES
  on,       \* the channel is in its on period
  left,     \* time until the next switch
  pending,  \* a request waits for the next on period
  granted   \* TXOP length granted by the last step, or NoGrant

avars == <<on, left, pending, granted>>

NoGrant == -1

\* The period ends: on and off alternate, and a switch to on grants the
\* waiting request the whole period.
Switch ==
  /\ left = 0
  /\ on' = ~on
  /\ left' = Period
  /\ IF ~on /\ pending
       THEN granted' = Period /\ pending' = FALSE
       ELSE granted' = NoGrant /\ UNCHANGED pending

\* The MAC asks for the channel.
Request ==
  /\ IF on
       THEN granted' = left /\ pending' = FALSE
       ELSE granted' = NoGrant /\ pending' = TRUE
  /\ UNCHANGED <<on, left>>

\* The MAC withdraws its request.
Withdraw ==
  /\ pending' = FALSE
  /\ granted' = NoGrant
  /\ UNCHANGED <<on, left>>

\* Time passes within a period.
Tick ==
  /\ left > 0
  /\ left' = left - 1
  /\ granted' = NoGrant
  /\ UNCHANGED <<on, pending>>

Init ==
  /\ on = FALSE
  /\ left = 0
  /\ pending = FALSE
  /\ granted = NoGrant

Next == Switch \/ Request \/ Withdraw \/ Tick

Spec == Init /\ [][Next]_avars

=============================================================================
