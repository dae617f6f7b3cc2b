------------------------------ MODULE Devices ------------------------------
(***************************************************************************)
(* What the devices share: the mailbox (Device_t) through which the bus    *)
(* and a device talk.  Each component reads and writes its own mailbox;    *)
(* only the bus copies between mailboxes.                                  *)
(*                                                                         *)
(* device_target_id is left out: the only device that makes requests is    *)
(* the CPU, whose id is 0 (cpu_create clears the structure) and which is   *)
(* the first device on the bus, so the look-up by id always finds it.      *)
(***************************************************************************)
EXTENDS MemoryMap

CONSTANTS INT_CLOCK     \* the identifier the ticker interrupts with

ASSUME InterruptAssumption == INT_CLOCK \in Address

VARIABLE dev            \* mailbox of every device

\* DS_OCCUPY and DS_REPLY are declared in device.h and never assigned.
DeviceState == {"DS_IDLE", "DS_FETCH", "DS_STORE", "DS_INTERRUPT"}

Mailbox == [state : DeviceState, processed : {0, 1},
            address : Address, data : Line]

device_create == [state |-> "DS_IDLE", processed |-> 0,
                  address |-> 0, data |-> ByteLine(0)]

DevicesTypeOK == dev \in [Device -> Mailbox]
DevicesInit   == dev = [d \in Device |-> device_create]

\* A clocked device has work when a request is there and not yet processed.
Pending(d, s) == dev[d].processed = 0 /\ dev[d].state = s

\* What a *_clock leaves behind when it has served a request.
Done(d)          == dev' = [dev EXCEPT ![d].processed = 1]
DoneWith(d, l)   == dev' = [dev EXCEPT ![d].processed = 1, ![d].data = l]
=============================================================================
