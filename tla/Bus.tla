-------------------------------- MODULE Bus --------------------------------
(***************************************************************************)
(* The bus attends one device per clock, round robin.  Attending the CPU   *)
(* forwards its request to the device that listens; attending a device     *)
(* hands its answer back; attending the ticker delivers the interrupt.     *)
(***************************************************************************)
EXTENDS Devices

VARIABLE attended_device_index   \* counted from 1 here

BusTypeOK == attended_device_index \in 1 .. Len(BusOrder)
BusInit   == attended_device_index = 1

attended == BusOrder[attended_device_index]

\* The CPU has asked for s and nobody has answered yet.
Requesting(s) == attended = "CPU" /\ Pending("CPU", s)

BusForwardFetch(d) ==
  /\ Requesting("DS_FETCH")
  /\ ReadListener(d, dev["CPU"].address)
  /\ dev[d].state = "DS_IDLE"
  /\ dev' = [dev EXCEPT ![d].state = "DS_FETCH", ![d].processed = 0,
                        ![d].address = dev["CPU"].address]

BusForwardStore(d) ==
  /\ Requesting("DS_STORE")
  /\ WriteListener(d, dev["CPU"].address)
  /\ dev[d].state = "DS_IDLE"
  /\ dev' = [dev EXCEPT ![d].state = "DS_STORE", ![d].processed = 0,
                        ![d].address = dev["CPU"].address,
                        ![d].data = dev["CPU"].data]

\* The listener still has a request: the CPU's own, already forwarded.
BusListenerBusy(d) ==
  /\ \/ Requesting("DS_FETCH") /\ ReadListener(d, dev["CPU"].address)
     \/ Requesting("DS_STORE") /\ WriteListener(d, dev["CPU"].address)
  /\ dev[d].state # "DS_IDLE"
  /\ UNCHANGED dev

\* Open bus: the request counts as answered, with the data the CPU's own
\* mailbox happens to hold, and the CPU is left idle.
BusOpen ==
  /\ \/ Requesting("DS_FETCH") /\ OpenRead(dev["CPU"].address)
     \/ Requesting("DS_STORE") /\ OpenWrite(dev["CPU"].address)
  /\ dev' = [dev EXCEPT !["CPU"].processed = 1, !["CPU"].state = "DS_IDLE"]

\* Faulty: the device is not set back to idle.
BusReplyFetch_StaysBusy(d) ==
  /\ attended = d
  /\ dev[d].state = "DS_FETCH" /\ dev[d].processed = 1
  /\ dev' = [dev EXCEPT !["CPU"].data = dev[d].data, !["CPU"].processed = 1]

BusReplyFetch(d) ==
  /\ attended = d
  /\ dev[d].state = "DS_FETCH" /\ dev[d].processed = 1
  /\ dev' = [dev EXCEPT !["CPU"].data = dev[d].data, !["CPU"].processed = 1,
                        ![d].state = "DS_IDLE"]

\* Faulty: the store is acknowledged before the device has done it.
BusReplyStore_Early(d) ==
  /\ attended = d
  /\ dev[d].state = "DS_STORE"
  /\ dev' = [dev EXCEPT !["CPU"].processed = 1, ![d].state = "DS_IDLE"]

BusReplyStore(d) ==
  /\ attended = d
  /\ dev[d].state = "DS_STORE" /\ dev[d].processed = 1
  /\ dev' = [dev EXCEPT !["CPU"].processed = 1, ![d].state = "DS_IDLE"]

\* Faulty: the CPU need not be idle.
BusInterrupt_AnyTime ==
  /\ attended = "TICKER" /\ dev["TICKER"].state = "DS_INTERRUPT"
  /\ dev' = [dev EXCEPT !["CPU"].state = "DS_INTERRUPT",
                        !["CPU"].address = dev["TICKER"].address,
                        !["TICKER"].state = "DS_IDLE"]

BusInterrupt ==
  /\ attended = "TICKER" /\ dev["TICKER"].state = "DS_INTERRUPT"
  /\ dev["CPU"].state = "DS_IDLE"
  /\ dev' = [dev EXCEPT !["CPU"].state = "DS_INTERRUPT",
                        !["CPU"].address = dev["TICKER"].address,
                        !["TICKER"].state = "DS_IDLE"]

BusNothing ==
  /\ \/ /\ attended = "CPU"
        /\ ~Pending("CPU", "DS_FETCH") /\ ~Pending("CPU", "DS_STORE")
     \/ /\ attended \in Slave
        /\ dev[attended].state = "DS_IDLE" \/ dev[attended].processed = 0
     \/ /\ attended = "TICKER"
        /\ \/ dev["TICKER"].state # "DS_INTERRUPT"
           \/ dev["CPU"].state # "DS_IDLE"
  /\ UNCHANGED dev

\* Faulty: no modulo.
next_attended_NoWrap == attended_device_index + 1

\* Faulty: the last device is left out.
next_attended_NotLast ==
  IF attended_device_index >= Len(BusOrder) - 1 THEN 1 ELSE attended_device_index + 1

next_attended ==
  IF attended_device_index = Len(BusOrder) THEN 1 ELSE attended_device_index + 1

bus_clock ==
  /\ \/ \E d \in Slave : \/ BusForwardFetch(d) \/ BusForwardStore(d)
                         \/ BusListenerBusy(d)
                         \/ BusReplyFetch(d) \/ BusReplyStore(d)
     \/ BusOpen \/ BusInterrupt \/ BusNothing
  /\ attended_device_index' = next_attended
=============================================================================
