------------------------------ MODULE MCBlockIo ------------------------------
(* BlockIo with the messages it really sends as the scheduler's payload.   *)
EXTENDS BlockIo

MCPayload == BlockMessage

=============================================================================
