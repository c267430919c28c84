--------------------------- MODULE MCOpConversion ---------------------------
EXTENDS OpConversion

(* Every packet whose atomic operator is a mapped one.                     *)
MCPacketsMappedAmo == {p \in PacketSet : p.kind \in AmoKinds => p.op \in OpCodes}

(* Every packet, an unmapped atomic operator included.                     *)
MCPacketsAll == PacketSet
=============================================================================
