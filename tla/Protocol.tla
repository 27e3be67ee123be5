------------------------------ MODULE Protocol ------------------------------
(***************************************************************************)
(* Protocol versions and the features they stand for                       *)
(* (p2pool/types/protocol.go).                                             *)
(***************************************************************************)
EXTENDS Integers

ProtocolVersion_0_0 == 0
ProtocolVersion_1_0 == 65536
ProtocolVersion_1_1 == 65537
ProtocolVersion_1_2 == 65538

ProtocolVersions == {ProtocolVersion_0_0, ProtocolVersion_1_0, ProtocolVersion_1_1, ProtocolVersion_1_2}

\* A version of 0.0 is that of a peer that has not told its version yet.
SupportsFeature(protocol, feature) ==
    CASE feature = "PeerInformationReceive" -> protocol = ProtocolVersion_0_0 \/ protocol >= ProtocolVersion_1_0
      [] feature = "PeerInformationExchange" -> protocol >= ProtocolVersion_1_0
      [] feature = "PrunedBroadcast" -> protocol = ProtocolVersion_0_0 \/ protocol >= ProtocolVersion_1_0
      [] feature = "CompactBroadcast" -> protocol >= ProtocolVersion_1_1
      [] feature = "BlockNotify" -> protocol >= ProtocolVersion_1_2
====
