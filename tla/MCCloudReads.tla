----------------------------- MODULE MCCloudReads ----------------------------
(* Instances of CloudReads for TLC.                                        *)
EXTENDS CloudReads, TLC

CONSTANTS o1, a1, a2

MCOrgOf == (a1 :> o1) @@ (a2 :> o1)
MCCloudOf == (a1 :> "aws") @@ (a2 :> "azure")
MCMixes == {{"breakdown"}, {"resources"}, {"summary"}, {"detail"}, {"clean"}}
==============================================================================
