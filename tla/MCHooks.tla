------------------------------ MODULE MCHooks ------------------------------
(***************************************************************************)
(* An instance of Hooks for TLC: hooks of one and two bytes, that overlap, *)
(* of every condition.                                                     *)
(***************************************************************************)
EXTENDS Hooks

On(condition, target, bytes, match, action) ==
  [condition |-> condition, target |-> target, target_bytes |-> bytes,
   match |-> match, action |-> action]

SmallHooks ==
  {On("HC_CHANGE", 0, 1, <<>>, "pass"), On("HC_CHANGE", 0, 2, <<>>, "pass"),
   On("HC_CHANGE", 2, 1, <<>>, "halt"), On("HC_MATCH", 1, 2, <<1, 0>>, "pass"),
   On("HC_MATCH", 0, 1, <<1>>, "halt"), On("HC_READ_FROM", 1, 1, <<>>, "halt"),
   On("HC_ALWAYS", 0, 1, <<>>, "pass")}
=============================================================================
