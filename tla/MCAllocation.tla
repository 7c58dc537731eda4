---------------------------- MODULE MCAllocation ----------------------------
(* Instances of Allocation for TLC.  a1 and a2 are requests of project p1,   *)
(* b1 of p2; every request that can be queued asks to be.                    *)
EXTENDS Allocation, TLC

CONSTANTS a1, a2, b1, p1, p2, h1, h2, k1, Slots, Concurrent, Backlog, Funds

MCProjectOf == [a \in Requests |-> IF a = b1 THEN p2 ELSE p1]
NoKeys == [a \in Requests |-> None]
SameKey == [a \in Requests |-> k1]
MCDevicesOf == [h \in Hosts |-> IF h = h1 THEN Devices ELSE {}]
AllServe == [h \in Hosts |-> Projects]
NamedOrAny == [a \in Requests |-> IF a = b1 THEN {h1} ELSE Hosts]
AnyHost == [a \in Requests |-> Hosts]
MCHostCap == [h \in Hosts |-> Slots]
FirstFull == [h \in Hosts |-> IF h = h1 THEN 0 ELSE Slots]
SecondFull == [h \in Hosts |-> IF h = h1 THEN Slots ELSE 0]
MCQuota == [p \in Projects |-> Concurrent]
MCPendingCap == [p \in Projects |-> Backlog]
MCLimit == [p \in Projects |-> Funds]
RequestSymmetry == Permutations({a1, a2})
=============================================================================
