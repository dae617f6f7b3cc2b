----------------------------- MODULE MemoryBank -----------------------------
(***************************************************************************)
(* The memory bank: NUM_BANKS windows of MMIO_BANK_WIDTH bytes behind one  *)
(* address range, selected by a register.  Its backing RAM is created with *)
(* a capacity of 0xffff, one byte less than the banks need, and a RAM      *)
(* reduces every address modulo its capacity.                              *)
(***************************************************************************)
EXTENDS Devices

CONSTANT NUM_BANKS      \* 8: the register keeps the low three bits

ASSUME BankAssumption == NUM_BANKS \in Nat \ {0} /\ NUM_BANKS * MMIO_BANK_WIDTH > 1

VARIABLES bank_index, bank_ram

BANK_SPACE    == NUM_BANKS * MMIO_BANK_WIDTH  \* 2^16: virtual_address wraps
BANK_CAPACITY == BANK_SPACE - 1               \* 0xffff

BankTypeOK ==
  /\ bank_index \in 0 .. NUM_BANKS - 1
  /\ bank_ram \in [0 .. BANK_CAPACITY - 1 -> BYTE]

BankInit ==
  /\ bank_index = 0
  /\ bank_ram = [c \in 0 .. BANK_CAPACITY - 1 |-> 0]

\* Faulty: the address is not reduced to the window.
virtual_address_NoWindow(a) == MMIO_BANK_WIDTH * bank_index + a

virtual_address(a) == MMIO_BANK_WIDTH * bank_index + (a % MMIO_BANK_WIDTH)

hw_address(v) == (v % BANK_SPACE) % BANK_CAPACITY

bank_read(a) ==
  [i \in 0 .. LINE - 1 |-> bank_ram[hw_address(virtual_address(a) + i)]]

BankFetch ==
  /\ Pending("MEMORY_BANK", "DS_FETCH")
  /\ DoneWith("MEMORY_BANK", bank_read(dev["MEMORY_BANK"].address))
  /\ UNCHANGED <<bank_index, bank_ram>>

BankSelect ==
  /\ Pending("MEMORY_BANK", "DS_STORE")
  /\ dev["MEMORY_BANK"].address = MMIO_REGISTER_ADDRESS
  /\ bank_index' = dev["MEMORY_BANK"].data[0] % NUM_BANKS
  /\ Done("MEMORY_BANK")
  /\ UNCHANGED bank_ram

BankStore ==
  /\ Pending("MEMORY_BANK", "DS_STORE")
  /\ dev["MEMORY_BANK"].address # MMIO_REGISTER_ADDRESS
  /\ bank_ram' = [bank_ram EXCEPT
                    ![hw_address(virtual_address(dev["MEMORY_BANK"].address))] =
                       dev["MEMORY_BANK"].data[0]]
  /\ Done("MEMORY_BANK")
  /\ UNCHANGED bank_index

BankWait ==
  /\ ~Pending("MEMORY_BANK", "DS_FETCH") /\ ~Pending("MEMORY_BANK", "DS_STORE")
  /\ UNCHANGED <<dev, bank_index, bank_ram>>

memory_bank_clock == BankFetch \/ BankSelect \/ BankStore \/ BankWait
=============================================================================
