---------------------------- MODULE StateTables ----------------------------
(***************************************************************************)
(* The lifecycle tables of domain/state.py: for every durable object, the  *)
(* set of <<from, to>> pairs `can_transition` accepts.  Rows that do not    *)
(* exist yet are "absent".                                                  *)
(***************************************************************************)

AllocationStates ==
    {"requested", "granted", "active", "releasing", "released", "expired", "failed"}

AllocationEdges ==
    ({"requested"} \X {"granted", "released", "failed"})
        \cup ({"granted"} \X {"active", "releasing", "expired", "failed"})
        \cup ({"active"} \X {"releasing", "expired", "failed"})
        \cup ({"releasing"} \X {"released", "failed"})

AllocationTerminal == {"released", "expired", "failed"}

SystemStates ==
    {"defined", "provisioning", "ready", "reprovisioning", "crashed", "torn_down", "failed"}

SystemEdges ==
    ({"defined"} \X {"provisioning", "torn_down", "failed"})
        \cup ({"provisioning"} \X {"ready", "failed", "torn_down"})
        \cup ({"ready"} \X {"crashed", "torn_down", "reprovisioning", "failed"})
        \cup ({"reprovisioning"} \X {"ready", "failed"})
        \cup ({"crashed"} \X {"torn_down", "failed"})

SystemTerminal == {"torn_down", "failed"}

JobStates == {"queued", "running", "succeeded", "failed", "canceled"}

JobEdges ==
    ({"queued"} \X {"running", "canceled"})
        \cup ({"running"} \X {"succeeded", "failed", "canceled", "queued"})

JobTerminal == {"succeeded", "failed", "canceled"}

(***************************************************************************)
(* `ensure_transition`: the guard every Repository.update_state runs.       *)
(***************************************************************************)
CanTransition(edges, from, to) == <<from, to>> \in edges
=============================================================================
