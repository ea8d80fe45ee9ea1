------------------------ MODULE MCTenantProvisioning ------------------------
(* Small instances of TenantProvisioning: two chamas, of which the second's *)
(* schema may be dropped, two request threads and one migration.            *)
EXTENDS TenantProvisioning

CONSTANTS kilimo, jamii, t1, t2, mig

MCChamas == {kilimo, jamii}
MCCreators == {t1, t2}
MCMigrators == {mig}
MCDroppable == {jamii}
=============================================================================
