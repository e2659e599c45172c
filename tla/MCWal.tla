------------------------------- MODULE MCWal -------------------------------
(* Instances of Wal small enough for TLC: a record with an empty payload   *)
(* and one with a payload, so a torn tail may end in the header or in the  *)
(* payload, and configurations that differ in every field.                 *)
EXTENDS Wal

CONSTANTS empty, big

MCRecords == {empty, big}
MCPayloadLen == [r \in MCRecords |-> IF r = empty THEN 0 ELSE 2]

MCConfig(policy, batch, repair, max) ==
    [sync_policy |-> policy, max_unsynced |-> batch,
     tail_repair |-> repair, max_record_bytes |-> max]

MCConfigs ==
    { MCConfig("Always", 1, "Truncate", 2),
      MCConfig("Batch", 2, "Reject", 2),
      MCConfig("Manual", 1, "Truncate", 1) }

===========================================================================
