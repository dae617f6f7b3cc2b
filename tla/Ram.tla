-------------------------------- MODULE Ram --------------------------------
(***************************************************************************)
(* The RAM device: 2^16 bytes, of which the bus only ever addresses the    *)
(* RAM segment; a fetch returns LINE bytes and may run past its end.       *)
(***************************************************************************)
EXTENDS Devices

VARIABLE ram

RamTypeOK == ram \in [Address -> BYTE]
RamInit   == ram = [a \in Address |-> 0]

\* The bytes from address a on; a + i is computed in 16 bits.
ram_read(a) == [i \in 0 .. LINE - 1 |-> ram[(a + i) % ADDRESS_SPACE]]

ram_write(a, b) == ram' = [ram EXCEPT ![a] = b]

RamFetch ==
  /\ Pending("RAM", "DS_FETCH")
  /\ DoneWith("RAM", ram_read(dev["RAM"].address))
  /\ UNCHANGED ram

RamStore ==
  /\ Pending("RAM", "DS_STORE")
  /\ ram_write(dev["RAM"].address, dev["RAM"].data[0])
  /\ Done("RAM")

RamWait ==
  /\ ~Pending("RAM", "DS_FETCH") /\ ~Pending("RAM", "DS_STORE")
  /\ UNCHANGED <<dev, ram>>

ram_clock == RamFetch \/ RamStore \/ RamWait
=============================================================================
