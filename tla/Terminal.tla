------------------------------ MODULE Terminal ------------------------------
(***************************************************************************)
(* The terminal: every byte stored to its register is printed, once.  It   *)
(* has no readable region, so no fetch is ever forwarded to it and the     *)
(* DS_FETCH branch of terminal_clock is dead.                              *)
(***************************************************************************)
EXTENDS Devices

VARIABLE screen         \* the bytes printed so far

TerminalTypeOK == screen \in Seq(BYTE)
TerminalInit   == screen = <<>>

TerminalPrint ==
  /\ Pending("TERMINAL", "DS_STORE")
  /\ screen' = Append(screen, dev["TERMINAL"].data[0])
  /\ Done("TERMINAL")

TerminalWait ==
  /\ ~Pending("TERMINAL", "DS_STORE")
  /\ UNCHANGED <<dev, screen>>

terminal_clock == TerminalPrint \/ TerminalWait
=============================================================================
