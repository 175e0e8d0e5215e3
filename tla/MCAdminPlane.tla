------------------------------ MODULE MCAdminPlane ------------------------------
(* Small instances of AdminPlane. *)
EXTENDS AdminPlane, TLC

CONSTANTS k1, k2

MCInitialPool == {k1}

\* usage.json from before the gateways, with both names of one account.
MCInitialFiles ==
    {[total |-> 2, legacy |-> [NoCounts EXCEPT ![k1] = 1],
      counters |-> [NoCounts EXCEPT ![k1] = 1], quotas |-> [NoQuotas EXCEPT ![k1] = "data"]]}

================================================================================
