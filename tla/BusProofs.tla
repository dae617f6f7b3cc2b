----------------------------- MODULE BusProofs -----------------------------
(***************************************************************************)
(* What the proofs about the fabric and about the whole computer share:    *)
(* the mailboxes stay within their types, and when the bus comes to whom.  *)
(***************************************************************************)
EXTENDS Ram, Ticker, Bus, SystemClock, TLAPS

-----------------------------------------------------------------------------
(* Facts about the data and the orders.                                    *)

LEMMA ByteLineType == \A b \in BYTE : ByteLine(b) \in Line
  BY WordAssumption DEF ByteLine, Line, BYTE

LEMMA LineByte == \A l \in Line : l[0] \in BYTE
  BY WordAssumption DEF Line

LEMMA SmallBytes == 0 \in BYTE /\ 1 \in BYTE /\ 0 \in Address
  BY WordAssumption, SegmentAssumption DEF BYTE, Address

LEMMA RamReadType == RamTypeOK => \A a \in Address : ram_read(a) \in Line
<1> SUFFICES ASSUME RamTypeOK, NEW a \in Address PROVE ram_read(a) \in Line
  OBVIOUS
<1>1. \A i \in 0 .. LINE - 1 : (a + i) % ADDRESS_SPACE \in Address
  BY SegmentAssumption, WordAssumption DEF Address
<1> QED BY <1>1 DEF ram_read, RamTypeOK, Line

LEMMA Orders ==
  /\ Len(BusOrder) \in Nat /\ Len(BusOrder) >= 1
  /\ \A i \in 1 .. Len(BusOrder) : BusOrder[i] \in Device
  /\ Len(clock_order) \in Nat /\ Len(clock_order) >= 1
<1>1. CASE TICKER_ACTIVE
  BY <1>1 DEF BusOrder, clock_order, Device, Slave
<1>2. CASE ~TICKER_ACTIVE
  BY <1>2 DEF BusOrder, clock_order, Device, Slave
<1> QED BY <1>1, <1>2

LEMMA SlotType ==
  \A s : slot \in 1 .. Len(clock_order) /\ Slot(s)
           => slot' \in 1 .. Len(clock_order)
  BY Orders DEF Slot, At, next_slot

\* A step that writes one mailbox well leaves all mailboxes well-typed.
LEMMA MailboxStep ==
  ASSUME DevicesTypeOK, NEW d \in Device, NEW m \in Mailbox,
         dev' = [dev EXCEPT ![d] = m]
  PROVE  DevicesTypeOK'
  BY DEF DevicesTypeOK

LEMMA DoneType ==
  ASSUME DevicesTypeOK, NEW d \in Device, Done(d)
  PROVE  DevicesTypeOK'
  BY DEF DevicesTypeOK, Done, Mailbox

LEMMA DoneWithType ==
  ASSUME DevicesTypeOK, NEW d \in Device, NEW l \in Line, DoneWith(d, l)
  PROVE  DevicesTypeOK'
  BY DEF DevicesTypeOK, DoneWith, Mailbox

-----------------------------------------------------------------------------
(* The clocks keep the types.                                              *)

LEMMA RamClockType ==
  ASSUME DevicesTypeOK, RamTypeOK, ram_clock
  PROVE  DevicesTypeOK' /\ RamTypeOK'
<1>1. "RAM" \in Device /\ dev["RAM"] \in Mailbox
  BY DEF Device, Slave, DevicesTypeOK
<1>2. CASE RamFetch
  BY <1>1, <1>2, RamReadType, DoneWithType DEF RamFetch, RamTypeOK, Mailbox
<1>3. CASE RamStore
  <2>1. DevicesTypeOK'
    BY <1>1, <1>3, DoneType DEF RamStore
  <2>2. dev["RAM"].data[0] \in BYTE
    BY <1>1, LineByte DEF Mailbox
  <2> QED BY <1>3, <2>1, <2>2 DEF RamStore, ram_write, RamTypeOK
<1>4. CASE RamWait
  BY <1>4 DEF RamWait, DevicesTypeOK, RamTypeOK
<1> QED BY <1>2, <1>3, <1>4 DEF ram_clock

LEMMA TickerClockType ==
  ASSUME DevicesTypeOK, ticker_clock
  PROVE  DevicesTypeOK'
<1>1. ByteLine(0) \in Line
  BY ByteLineType, SmallBytes
<1>2. CASE TickerFire
  <2> DEFINE m == [dev["TICKER"] EXCEPT !.state = "DS_INTERRUPT",
                                        !.address = INT_CLOCK,
                                        !.data = ByteLine(0)]
  <2>1. "TICKER" \in Device /\ dev["TICKER"] \in Mailbox
    BY DEF Device, DevicesTypeOK
  <2>2. m \in Mailbox
    BY <1>1, <2>1, InterruptAssumption DEF Mailbox, DeviceState
  <2>3. dev' = [dev EXCEPT !["TICKER"] = m]
    BY <1>2, <2>1 DEF TickerFire, DevicesTypeOK
  <2> QED BY <2>1, <2>2, <2>3, MailboxStep
<1>3. CASE TickerWait
  BY <1>3 DEF TickerWait, DevicesTypeOK
<1> QED BY <1>2, <1>3 DEF ticker_clock

LEMMA BusClockType ==
  ASSUME DevicesTypeOK, BusTypeOK, bus_clock
  PROVE  DevicesTypeOK' /\ BusTypeOK'
<1> USE DEF DevicesTypeOK
<1>1. Slave \subseteq Device /\ "CPU" \in Device /\ "TICKER" \in Device
  BY DEF Device
<1>2. BusTypeOK'
  BY Orders DEF bus_clock, next_attended, BusTypeOK
<1>3. ASSUME NEW d \in Slave, BusForwardFetch(d) PROVE DevicesTypeOK'
  <2> DEFINE m == [dev[d] EXCEPT !.state = "DS_FETCH", !.processed = 0,
                                 !.address = dev["CPU"].address]
  <2>1. dev["CPU"] \in Mailbox /\ dev[d] \in Mailbox /\ d \in Device
    BY <1>1
  <2>2. m \in Mailbox
    BY <2>1 DEF Mailbox, DeviceState
  <2>3. dev' = [dev EXCEPT ![d] = m]
    BY <1>3, <2>1 DEF BusForwardFetch
  <2> QED BY <2>1, <2>2, <2>3, MailboxStep
<1>4. ASSUME NEW d \in Slave, BusForwardStore(d) PROVE DevicesTypeOK'
  <2> DEFINE m == [dev[d] EXCEPT !.state = "DS_STORE", !.processed = 0,
                                 !.address = dev["CPU"].address,
                                 !.data = dev["CPU"].data]
  <2>1. dev["CPU"] \in Mailbox /\ dev[d] \in Mailbox /\ d \in Device
    BY <1>1
  <2>2. m \in Mailbox
    BY <2>1 DEF Mailbox, DeviceState
  <2>3. dev' = [dev EXCEPT ![d] = m]
    BY <1>4, <2>1 DEF BusForwardStore
  <2> QED BY <2>1, <2>2, <2>3, MailboxStep
<1>5. ASSUME NEW d \in Slave, BusListenerBusy(d) PROVE DevicesTypeOK'
  BY <1>5 DEF BusListenerBusy
<1>6. ASSUME NEW d \in Slave, BusReplyFetch(d) PROVE DevicesTypeOK'
  <2> DEFINE m == [dev[d] EXCEPT !.state = "DS_IDLE"]
             c == [dev["CPU"] EXCEPT !.data = dev[d].data, !.processed = 1]
  <2>1. dev["CPU"] \in Mailbox /\ dev[d] \in Mailbox /\ d \in Device /\ d # "CPU"
    BY <1>1 DEF Slave
  <2>2. m \in Mailbox /\ c \in Mailbox
    BY <2>1 DEF Mailbox, DeviceState
  <2>3. dev' = [dev EXCEPT !["CPU"] = c, ![d] = m]
    BY <1>1, <1>6, <2>1 DEF BusReplyFetch
  <2> QED BY <1>1, <2>1, <2>2, <2>3
<1>7. ASSUME NEW d \in Slave, BusReplyStore(d) PROVE DevicesTypeOK'
  <2> DEFINE m == [dev[d] EXCEPT !.state = "DS_IDLE"]
             c == [dev["CPU"] EXCEPT !.processed = 1]
  <2>1. dev["CPU"] \in Mailbox /\ dev[d] \in Mailbox /\ d \in Device /\ d # "CPU"
    BY <1>1 DEF Slave
  <2>2. m \in Mailbox /\ c \in Mailbox
    BY <2>1 DEF Mailbox, DeviceState
  <2>3. dev' = [dev EXCEPT !["CPU"] = c, ![d] = m]
    BY <1>1, <1>7, <2>1 DEF BusReplyStore
  <2> QED BY <1>1, <2>1, <2>2, <2>3
<1>8. CASE BusOpen
  <2> DEFINE c == [dev["CPU"] EXCEPT !.processed = 1, !.state = "DS_IDLE"]
  <2>1. c \in Mailbox
    BY <1>1 DEF Mailbox, DeviceState
  <2>2. dev' = [dev EXCEPT !["CPU"] = c]
    BY <1>1, <1>8 DEF BusOpen
  <2> QED BY <1>1, <1>2, <2>1, <2>2, MailboxStep
<1>9. CASE BusInterrupt
  <2> DEFINE m == [dev["TICKER"] EXCEPT !.state = "DS_IDLE"]
             c == [dev["CPU"] EXCEPT !.state = "DS_INTERRUPT",
                                     !.address = dev["TICKER"].address]
  <2>1. m \in Mailbox /\ c \in Mailbox
    BY <1>1 DEF Mailbox, DeviceState
  <2>2. dev' = [dev EXCEPT !["CPU"] = c, !["TICKER"] = m]
    BY <1>1, <1>9 DEF BusInterrupt
  <2> QED BY <1>1, <1>2, <2>1, <2>2
<1>10. CASE BusNothing
  BY <1>2, <1>10 DEF BusNothing
<1> QED BY <1>2, <1>3, <1>4, <1>5, <1>6, <1>7, <1>8, <1>9, <1>10 DEF bus_clock

-----------------------------------------------------------------------------
(* When the bus comes to whom.  The round of the bus has one device more   *)
(* than a system clock has clocks of the bus, so the two shift against     *)
(* each other.                                                             *)

\* The clocks of the bus in one system clock, and the devices in its round.
Turns  == IF TICKER_ACTIVE THEN 5 ELSE 4
Rounds == Turns + 1

\* The clocks of the bus in the system clock before each slot; the CPU's slot
\* counts to the system clock that it ends.
TurnsBefore == IF TICKER_ACTIVE THEN <<5, 0, 1, 1, 2, 2, 2, 3, 3, 4, 4>>
               ELSE <<4, 0, 1, 1, 2, 2, 2, 3, 3>>

\* The slot of each device.
ClockedAt ==
  [d \in Slave |-> CASE d = "RAM" -> 3 [] d = "TERMINAL" -> 5
                     [] d = "FILESYSTEM" -> 6
                     [] d = "MEMORY_BANK" -> IF TICKER_ACTIVE THEN 10 ELSE 8]

LEMMA Turning ==
  ASSUME slot \in 1 .. Len(clock_order)
  PROVE  /\ Turns \in {4, 5} /\ TurnsBefore[slot] \in 0 .. Turns
         /\ TurnsBefore[next_slot] \in 0 .. Turns
         /\ At("CPU") <=> slot = 1
         /\ slot = 1 => TurnsBefore[slot] = Turns /\ TurnsBefore[next_slot] = 0
         /\ At("BUS") => /\ TurnsBefore[slot] < Turns
                         /\ TurnsBefore[next_slot] = TurnsBefore[slot] + 1
         /\ ~At("CPU") /\ ~At("BUS") => TurnsBefore[next_slot] = TurnsBefore[slot]
         /\ \A d \in Slave :
              /\ At(d) <=> slot = ClockedAt[d]
              /\ slot < ClockedAt[d] => next_slot <= ClockedAt[d]
              /\ At("BUS") =>
                   /\ slot <= ClockedAt[d] => TurnsBefore[slot] # TurnsBefore[ClockedAt[d]]
                   /\ TurnsBefore[next_slot] = TurnsBefore[ClockedAt[d]] =>
                        next_slot <= ClockedAt[d]
<1>1. CASE TICKER_ACTIVE
  <2>1. Len(clock_order) = 11 /\ Turns = 5
    BY <1>1 DEF Turns, clock_order
  <2>2. /\ clock_order[1] = "CPU"  /\ clock_order[2] = "BUS"  /\ clock_order[3] = "RAM"
        /\ clock_order[4] = "BUS"  /\ clock_order[5] = "TERMINAL"  /\ clock_order[6] = "FILESYSTEM"
        /\ clock_order[7] = "BUS"  /\ clock_order[8] = "TICKER"  /\ clock_order[9] = "BUS"
        /\ clock_order[10] = "MEMORY_BANK"  /\ clock_order[11] = "BUS"
    BY <1>1 DEF clock_order
  <2>3. /\ TurnsBefore[1] = 5  /\ TurnsBefore[2] = 0  /\ TurnsBefore[3] = 1
        /\ TurnsBefore[4] = 1  /\ TurnsBefore[5] = 2  /\ TurnsBefore[6] = 2
        /\ TurnsBefore[7] = 2  /\ TurnsBefore[8] = 3  /\ TurnsBefore[9] = 3
        /\ TurnsBefore[10] = 4  /\ TurnsBefore[11] = 4
    BY <1>1 DEF TurnsBefore
  <2>4. \A d \in Slave : ClockedAt[d] = CASE d = "RAM" -> 3 [] d = "TERMINAL" -> 5
                     [] d = "FILESYSTEM" -> 6
                     [] d = "MEMORY_BANK" -> 10
    BY <1>1 DEF ClockedAt
  <2>5. slot \in {1, 2, 3, 4, 5, 6, 7, 8, 9, 10, 11}
    BY <2>1
  <2> QED BY <2>1, <2>2, <2>3, <2>4, <2>5 DEF next_slot, At, Slave
<1>2. CASE ~TICKER_ACTIVE
  <2>1. Len(clock_order) = 9 /\ Turns = 4
    BY <1>2 DEF Turns, clock_order
  <2>2. /\ clock_order[1] = "CPU"  /\ clock_order[2] = "BUS"  /\ clock_order[3] = "RAM"
        /\ clock_order[4] = "BUS"  /\ clock_order[5] = "TERMINAL"  /\ clock_order[6] = "FILESYSTEM"
        /\ clock_order[7] = "BUS"  /\ clock_order[8] = "MEMORY_BANK"  /\ clock_order[9] = "BUS"
    BY <1>2 DEF clock_order
  <2>3. /\ TurnsBefore[1] = 4  /\ TurnsBefore[2] = 0  /\ TurnsBefore[3] = 1
        /\ TurnsBefore[4] = 1  /\ TurnsBefore[5] = 2  /\ TurnsBefore[6] = 2
        /\ TurnsBefore[7] = 2  /\ TurnsBefore[8] = 3  /\ TurnsBefore[9] = 3
    BY <1>2 DEF TurnsBefore
  <2>4. \A d \in Slave : ClockedAt[d] = CASE d = "RAM" -> 3 [] d = "TERMINAL" -> 5
                     [] d = "FILESYSTEM" -> 6
                     [] d = "MEMORY_BANK" -> 8
    BY <1>2 DEF ClockedAt
  <2>5. slot \in {1, 2, 3, 4, 5, 6, 7, 8, 9}
    BY <2>1
  <2> QED BY <2>1, <2>2, <2>3, <2>4, <2>5 DEF next_slot, At, Slave
<1> QED BY <1>1, <1>2

LEMMA Positions ==
  /\ Position["RAM"] = 2          /\ Position["TERMINAL"] = 3
  /\ Position["MEMORY_BANK"] = 4  /\ Position["FILESYSTEM"] = 5
  BY DEF Position, Device, Slave

LEMMA Attending ==
  ASSUME BusTypeOK
  PROVE  /\ attended_device_index \in 1 .. Rounds
         /\ next_attended = IF attended_device_index = Rounds THEN 1
                            ELSE attended_device_index + 1
         /\ attended = "CPU" <=> attended_device_index = 1
         /\ attended = "TICKER" => attended_device_index = Rounds
         /\ \A d \in Slave : attended = d <=> attended_device_index = Position[d]
<1>1. CASE TICKER_ACTIVE
  <2>1. Len(BusOrder) = 6 /\ Rounds = 6
    BY <1>1 DEF Turns, Rounds, BusOrder
  <2>2. /\ BusOrder[1] = "CPU"  /\ BusOrder[2] = "RAM"
        /\ BusOrder[3] = "TERMINAL"  /\ BusOrder[4] = "MEMORY_BANK"
        /\ BusOrder[5] = "FILESYSTEM"  /\ BusOrder[6] = "TICKER"
    BY <1>1 DEF BusOrder
  <2>3. attended_device_index \in {1, 2, 3, 4, 5, 6}
    BY <2>1 DEF BusTypeOK
  <2> QED BY <2>1, <2>2, <2>3, Positions DEF next_attended, attended, Slave
<1>2. CASE ~TICKER_ACTIVE
  <2>1. Len(BusOrder) = 5 /\ Rounds = 5
    BY <1>2 DEF Turns, Rounds, BusOrder
  <2>2. /\ BusOrder[1] = "CPU"  /\ BusOrder[2] = "RAM"
        /\ BusOrder[3] = "TERMINAL"  /\ BusOrder[4] = "MEMORY_BANK"
        /\ BusOrder[5] = "FILESYSTEM"
    BY <1>2 DEF BusOrder
  <2>3. attended_device_index \in {1, 2, 3, 4, 5}
    BY <2>1 DEF BusTypeOK
  <2> QED BY <2>1, <2>2, <2>3, Positions DEF next_attended, attended, Slave
<1> QED BY <1>1, <1>2
=============================================================================
