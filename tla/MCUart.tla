------------------------------- MODULE MCUart -------------------------------
(* UartWriter with messages that are empty, that fit the ring, that need   *)
(* the newline conversion, and that are longer than the ring.              *)
EXTENDS UartWriter

MCPayload == {<<>>, <<"a", LF>>, <<"b", "c", "d", "e", "f">>}

=============================================================================
