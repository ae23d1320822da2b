----------------------- MODULE MC_NrLbtAccessManager -----------------------
(* Small instances of the LBT access manager for TLC.  Times are in units *)
(* of half a slot, so that a busy report can interrupt a backoff slot in   *)
(* its middle.                                                             *)
EXTENDS NrLbtAccessManager

\* Orphaned timers (events whose EventId was overwritten) can pile up once
\* the MAC may Cancel; exploration stops at this many pending events.
MC_MaxPending == 3
MC_EventsBound == Len(events) <= MC_MaxPending

\* Cat4 windows for a 4-bit model of the uint32_t arithmetic whose largest
\* window exceeds half the range, as cwMax > 2^31 does for uint32_t.
MC_WideCwMax == 12

=============================================================================
