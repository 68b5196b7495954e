----------------------------- MODULE MCGateway -----------------------------
(* One device's readings, received by one thread and drained by main().    *)
EXTENDS GatewayProperties, TLC

CONSTANTS r1, r2, device

MCKeyOf == [r \in Readings |-> device]
MCSignature == [r \in Readings |-> IF r = r1 THEN "absent" ELSE "good"]
MCForged == [r \in Readings |-> IF r = r1 THEN "malformed" ELSE "good"]
=============================================================================
