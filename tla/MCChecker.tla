----------------------------- MODULE MCChecker ------------------------------
(***************************************************************************)
(* Checker with two hosts: one has a guarded and two other addresses and   *)
(* may resolve to any mix of them, the other has one address that moves    *)
(* from a permitted to a guarded one.  Checks of every type, with the      *)
(* default timeout, a short one and zero, with and without a status list.  *)
(***************************************************************************)
EXTENDS Checker

CONSTANTS loopback, near, far

ThreeAddresses == {loopback, near, far}
Loopback == {loopback}
Timeouts == [tcp |-> 1, grpc |-> 2, http |-> 3]
TwoHosts == [svc |-> {{loopback, near, far}, {loopback, near}, {loopback}},
             other |-> {{far}, {loopback}}]
TwoStatuses == {"200", "503"}
AllSpecs == [type: Types \cup {Newer}, host: {"svc"}, timeout: {None, 0, 1}, expected: {{}, {"503"}}]
=============================================================================
