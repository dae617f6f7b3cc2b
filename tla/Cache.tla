------------------------------- MODULE Cache -------------------------------
(***************************************************************************)
(* The cache: CAPACITY lines of one byte, direct-mapped, each tagged with  *)
(* the address it stands for.  It has no connection to the bus: only the   *)
(* CPU's own reads and writes fill it, and only INV empties it.            *)
(***************************************************************************)
EXTENDS MemoryMap

CONSTANT CAPACITY       \* a power of two; 0 when no cache is mounted

ASSUME CacheAssumption == CAPACITY \in Nat /\ (CAPACITY > 0 => ADDRESS_SPACE % CAPACITY = 0)

VARIABLE cache

NoLine == [valid |-> FALSE, address |-> 0, data |-> 0]

CacheTypeOK ==
  cache \in [0 .. CAPACITY - 1 -> [valid : BOOLEAN, address : Address, data : BYTE]]

CacheInit == cache = [i \in 0 .. CAPACITY - 1 |-> NoLine]

\* Faulty: the tag is not compared.
Hit_NoTag(a) == CAPACITY > 0 /\ cache[a % CAPACITY].valid

\* cache_read returns 1.
Hit(a) ==
  /\ CAPACITY > 0
  /\ cache[a % CAPACITY].valid /\ cache[a % CAPACITY].address = a

CachedByte(a) == cache[a % CAPACITY].data

\* The offset whose byte stays in line i when n bytes from address a on are
\* written: later bytes overwrite earlier ones.
LastOffset(i, a, n) ==
  CHOOSE o \in 0 .. n - 1 :
    /\ (a + o) % CAPACITY = i
    /\ \A q \in o + 1 .. n - 1 : (a + q) % CAPACITY # i

\* The lines after cache_write of the first n bytes of l.
cache_write(a, l, n) ==
  [i \in 0 .. CAPACITY - 1 |->
     IF \E o \in 0 .. n - 1 : (a + o) % CAPACITY = i
     THEN LET o == LastOffset(i, a, n)
          IN [valid |-> TRUE, address |-> (a + o) % ADDRESS_SPACE, data |-> l[o]]
     ELSE cache[i]]

cache_invalidate == [i \in 0 .. CAPACITY - 1 |-> [cache[i] EXCEPT !.valid = FALSE]]
=============================================================================
