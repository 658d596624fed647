---------------------------- MODULE MCTaskBridge ----------------------------
(***************************************************************************)
(* A goods request and two completed carries, which may fall into the same *)
(* millisecond and then share a message_id.                                *)
(***************************************************************************)
EXTENDS TaskBridge, TLC

CONSTANTS request, carry1, carry2, s1, t1

MCEventType ==
  request :> "GOODS_REQUEST" @@ carry1 :> "CARRY_COMPLETED"
    @@ carry2 :> "CARRY_COMPLETED"

==============================================================================
