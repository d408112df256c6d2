---------------------------- MODULE MCLeaseDBPool -----------------------------
(* The instance of LeaseDBPool for TLC. *)
EXTENDS LeaseDBPool

CONSTANTS s1, s2

MCAddr == 1..3
MCPoolOf == [s \in SubnetID |-> IF s = s1 THEN {1} ELSE {2}]
MCAddrOf == [s \in SubnetID |-> IF s = s1 THEN {1} ELSE {2, 3}]
MCConfigs == {{s1}, {s1, s2}}
=============================================================================
