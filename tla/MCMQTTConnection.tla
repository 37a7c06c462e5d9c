-------------------------- MODULE MCMQTTConnection --------------------------
(* Message framing with length digits to the base 2 and a buffer of 6 bytes. *)
EXTENDS MQTTConnection

OneType == {0}
AllLengths == {0, 1, 3, 4}
AllPayloads == {0, 3}

=============================================================================
