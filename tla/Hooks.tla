------------------------------- MODULE Hooks -------------------------------
(***************************************************************************)
(* The debug hooks: after every clock of system_clock_debug each hook      *)
(* looks at its target, and may act.  What a clock does to the targets is  *)
(* left open here; it is what the other modules are about.                 *)
(*                                                                         *)
(* A hook on a change compares its target with the bytes saved at the end  *)
(* of the clock before.  All such hooks save theirs in one array, one      *)
(* after the other, without noting where.                                  *)
(***************************************************************************)
EXTENDS Integers, Sequences

CONSTANTS
  CELLS,        \* bytes that hooks watch
  HookSet,      \* the hooks that may be set
  MaxHooks      \* bound on the number of hooks

Byte      == {0, 1}
Cell      == 0 .. CELLS - 1
HookCondition == {"HC_CHANGE", "HC_MATCH", "HC_READ_FROM", "HC_ALWAYS"}
Hook == [condition : HookCondition, target : Cell, target_bytes : 1 .. CELLS,
         match : Seq(Byte), action : {"halt", "pass"}]

ASSUME HookAssumption ==
  /\ CELLS \in Nat \ {0} /\ MaxHooks \in Nat
  /\ \A h \in HookSet :
       /\ h \in Hook /\ h.target + h.target_bytes <= CELLS
       /\ h.condition = "HC_MATCH" => Len(h.match) = h.target_bytes

VARIABLES
  cells,                \* the bytes that are watched
  fetching,             \* the cell the CPU waits for, or NoFetch
  hook,                 \* the hooks in the order they were set
  memory_intermediate,  \* the bytes saved
  halted,               \* a hook has put the CPU into CS_HALT
  fired,                \* history: the hooks that fired in the last clock
  checked               \* history: how many hooks the last clock looked at

hook_vars == <<cells, fetching, hook, memory_intermediate, halted, fired, checked>>

NoFetch == -1

HookInit ==
  /\ cells \in [Cell -> Byte] /\ fetching = NoFetch
  /\ hook = <<>> /\ memory_intermediate = <<>>
  /\ halted = FALSE /\ fired = {} /\ checked = 0

Watched(h, m) == SubSeq([i \in 1 .. CELLS |-> m[i - 1]], h.target + 1, h.target + h.target_bytes)
Saves(h) == IF h.condition = "HC_CHANGE" THEN h.target_bytes ELSE 0

\* The bytes that realloc adds are not initialised.  HC_ALWAYS is reported as
\* unknown, but the hook is set.
system_hook(h) ==
  /\ ~halted /\ Len(hook) < MaxHooks
  /\ hook' = Append(hook, h)
  /\ \E new \in [1 .. Saves(h) -> Byte] :
       memory_intermediate' = memory_intermediate \o new
  /\ UNCHANGED <<cells, fetching, halted, fired, checked>>

\* The bytes that the first k hooks have saved, for every k.
Offsets ==
  LET n[k \in 0 .. Len(hook)] == IF k = 0 THEN 0 ELSE n[k - 1] + Saves(hook[k])
  IN n

\* Faulty: the index is counted by hooks.
index_ByHooks(i) == Len(SelectSeq(SubSeq(hook, 1, i - 1), LAMBDA h : Saves(h) > 0))

\* How many bytes the hooks before hook i have saved.
index(i) == Offsets[i - 1]

\* Hook i fires with the targets as in m while the CPU fetches from cell a.  A
\* hook on reads looks at the target of the first hook there is.
Fires(i, m, a) ==
  LET h == hook[i] IN
  CASE h.condition = "HC_CHANGE" ->
         SubSeq(memory_intermediate, index(i) + 1, index(i) + h.target_bytes) # Watched(h, m)
    [] h.condition = "HC_MATCH"     -> Watched(h, m) = h.match
    [] h.condition = "HC_READ_FROM" -> a = hook[1].target
    [] h.condition = "HC_ALWAYS"    -> TRUE

\* One hook after the other saves its bytes.
Saved(m) ==
  LET bytes[k \in 0 .. Len(hook)] ==
        IF k = 0 THEN <<>> ELSE bytes[k - 1] \o SubSeq(Watched(hook[k], m), 1, Saves(hook[k]))
  IN bytes[Len(hook)]

\* The clock itself may do anything to the targets.
system_clock_debug ==
  /\ ~halted
  /\ cells' \in [Cell -> Byte] /\ fetching' \in Cell \cup {NoFetch}
  /\ fired' = {i \in 1 .. Len(hook) : Fires(i, cells', fetching')}
  /\ halted' = \E i \in fired' : hook[i].action = "halt"
  /\ memory_intermediate' = Saved(cells')
  /\ checked' = Len(hook)
  /\ UNCHANGED hook

HookNext == system_clock_debug \/ \E h \in HookSet : system_hook(h)

HookSpec == HookInit /\ [][HookNext]_hook_vars
-----------------------------------------------------------------------------
\* A hook on a change that has been through a clock fires in exactly the clocks
\* that change its target, whatever other hooks are set before it, after it or
\* between two clocks (memory_intermediate in system_clock_debug).
ChangeSeen ==
  [][checked' = Len(hook) /\ UNCHANGED hook =>
       \A i \in 1 .. checked :
         hook[i].condition = "HC_CHANGE" =>
           (i \in fired' <=> Watched(hook[i], cells') # Watched(hook[i], cells))]_hook_vars
=============================================================================
