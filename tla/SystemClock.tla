---------------------------- MODULE SystemClock ----------------------------
(***************************************************************************)
(* The clock of the system: system_clock calls the devices and the bus in  *)
(* a fixed order of slots, for ever.                                       *)
(***************************************************************************)
EXTENDS MemoryMap

VARIABLE slot           \* position in the clock order

\* Faulty: one clock of the bus more, after the terminal.
clock_order_OneMoreBus ==
  <<"CPU", "BUS", "RAM", "BUS", "TERMINAL", "BUS", "FILESYSTEM">>
    \o (IF TICKER_ACTIVE THEN <<"BUS", "TICKER">> ELSE <<>>)
    \o <<"BUS", "MEMORY_BANK", "BUS">>

\* Faulty: the bus is not clocked between the devices.
clock_order_OneBus ==
  <<"CPU", "BUS", "RAM", "TERMINAL", "FILESYSTEM">>
    \o (IF TICKER_ACTIVE THEN <<"TICKER">> ELSE <<>>)
    \o <<"MEMORY_BANK">>

\* Faulty: the RAM is never clocked.
clock_order_NoRam ==
  <<"CPU", "BUS", "BUS", "TERMINAL", "FILESYSTEM">>
    \o (IF TICKER_ACTIVE THEN <<"BUS", "TICKER">> ELSE <<>>)
    \o <<"BUS", "MEMORY_BANK", "BUS">>

\* Faulty: the file system is never clocked.
clock_order_NoFileSystem ==
  <<"CPU", "BUS", "RAM", "BUS", "TERMINAL">>
    \o (IF TICKER_ACTIVE THEN <<"BUS", "TICKER">> ELSE <<>>)
    \o <<"BUS", "MEMORY_BANK", "BUS">>

clock_order ==
  <<"CPU", "BUS", "RAM", "BUS", "TERMINAL", "FILESYSTEM">>
    \o (IF TICKER_ACTIVE THEN <<"BUS", "TICKER">> ELSE <<>>)
    \o <<"BUS", "MEMORY_BANK", "BUS">>

At(s)     == clock_order[slot] = s
next_slot == IF slot = Len(clock_order) THEN 1 ELSE slot + 1
Slot(s)   == At(s) /\ slot' = next_slot
=============================================================================
