------------------------------- MODULE Ticker -------------------------------
(***************************************************************************)
(* The ticker raises the clock interrupt when its interval of host time    *)
(* has passed.  How much host time passes between two clocks is the        *)
(* environment's choice, so at every clock it may fire or not.  A ticker   *)
(* that fires while its last interrupt is still waiting raises no second.  *)
(***************************************************************************)
EXTENDS Devices

TickerFire ==
  dev' = [dev EXCEPT !["TICKER"].state = "DS_INTERRUPT",
                     !["TICKER"].address = INT_CLOCK,
                     !["TICKER"].data = ByteLine(0)]

TickerWait == UNCHANGED dev

ticker_clock == TickerFire \/ TickerWait
=============================================================================
