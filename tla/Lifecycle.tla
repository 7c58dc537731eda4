----------------------------- MODULE Lifecycle -----------------------------
(***************************************************************************)
(* What domain/state.py promises of a table of durable objects: a row is   *)
(* inserted in one of the creation states and from then on moves only      *)
(* along the edges of its guard table.  The detailed specifications, whose *)
(* SQL mostly writes `state` without calling `ensure_transition`, are      *)
(* shown to implement this one.                                            *)
(***************************************************************************)
CONSTANTS Objects,    \* the rows that may ever exist
          Creation,   \* states a row may be inserted in
          Edges       \* the <<from, to>> pairs of the guard table

VARIABLE state        \* [Objects -> state or "absent"]

Init == state = [o \in Objects |-> "absent"]

Insert(o) == state[o] = "absent" /\ state'[o] \in Creation

Move(o) == <<state[o], state'[o]>> \in Edges

Next == /\ DOMAIN state' = Objects
        /\ \A o \in Objects : state'[o] = state[o] \/ Insert(o) \/ Move(o)

Spec == Init /\ [][Next]_state
=============================================================================
