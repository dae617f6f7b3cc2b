----------------------------- MODULE MemoryPort -----------------------------
(***************************************************************************)
(* What the fabric promises the CPU: an atomic memory behind a request and *)
(* an answer.  There is no bus, no mailbox and no clock here: an access is *)
(* requested, performed in one step at some moment after that, and         *)
(* finished at some moment after that.  System implements it.              *)
(***************************************************************************)
EXTENDS MemoryMap

CONSTANTS NUM_BANKS, Accesses, Pushes, None

VARIABLES
  cell,         \* the bytes of RAM and of the banks
  bank,         \* the selected bank
  printed,      \* what the terminal shows
  phase,        \* of the access: idle, requested or performed
  request,      \* the access
  reply         \* the byte a performed read brings back

portVars == <<cell, bank, printed, phase, request, reply>>

\* The place of address a, for the addresses that hold a byte.
InRam(a)    == Reads("RAM", a)
InWindow(a) == Reads("MEMORY_BANK", a)
Space       == NUM_BANKS * MMIO_BANK_WIDTH
Place(a) ==
  IF InRam(a) THEN <<"ram", a>>
  ELSE <<"bank", (MMIO_BANK_WIDTH * bank + (a % MMIO_BANK_WIDTH)) % (Space - 1)>>

Places == {<<"ram", a>> : a \in Address} \cup {<<"bank", k>> : k \in 0 .. Space - 2}

PortInit ==
  /\ cell = [p \in Places |-> 0] /\ bank = 0 /\ printed = <<>>
  /\ phase = "idle" /\ request = None /\ reply = 0

Ask(a) == phase' = "requested" /\ request' = a /\ reply' = 0

PortRequest ==
  /\ phase = "idle"
  /\ \E a \in Accesses \cup Pushes : Ask(a)
  /\ UNCHANGED <<cell, bank, printed>>

\* The read of a byte of memory returns that byte; a register, or an address
\* nobody listens to, returns some byte.
PerformRead ==
  /\ request.op = "read"
  /\ reply' \in BYTE
  /\ InRam(request.address) \/ InWindow(request.address)
       => reply' = cell[Place(request.address)]
  /\ UNCHANGED <<cell, bank, printed>>

PerformWrite ==
  /\ request.op = "write"
  /\ cell' = IF InRam(request.address) \/ InWindow(request.address)
             THEN [cell EXCEPT ![Place(request.address)] = request.byte]
             ELSE cell
  /\ bank' = IF request.address = MMIO_REGISTER_ADDRESS
             THEN request.byte % NUM_BANKS ELSE bank
  /\ printed' = IF request.address = MMIO_INPUT_REGISTER
                THEN Append(printed, request.byte) ELSE printed
  /\ reply' = 0

PortPerform ==
  /\ phase = "requested" /\ phase' = "performed"
  /\ PerformRead \/ PerformWrite
  /\ UNCHANGED request

\* The program goes on with its next access or without one.
PortFinish ==
  /\ phase = "performed"
  /\ \/ \E a \in Accesses \cup Pushes : Ask(a)
     \/ phase' = "idle" /\ request' = None /\ reply' = 0
  /\ UNCHANGED <<cell, bank, printed>>

\* A read nobody answered may be asked again.
PortRetry ==
  /\ phase = "performed" /\ request.op = "read" /\ OpenRead(request.address)
  /\ Ask(request)
  /\ UNCHANGED <<cell, bank, printed>>

PortNext == PortRequest \/ PortPerform \/ PortFinish \/ PortRetry

PortSpec == PortInit /\ [][PortNext]_portVars
=============================================================================
