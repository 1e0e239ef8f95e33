-------------------------- MODULE MCStreamingLease --------------------------
(* A notebook session and a client over one leaf, and a client over a       *)
(* second leaf, of one disposable checkpoint.                               *)
EXTENDS StreamingLease

CONSTANTS s1, w2, w3, p, q

MCWriters == {s1, w2, w3}
MCSessions == {s1}
MCPrefixes == {p, q}
MCPrefixOf == [w \in MCWriters |-> IF w = w3 THEN q ELSE p]
Qualifying == [generation |-> TRUE, qualifies |-> TRUE, approved |-> TRUE]
NotQualifying == [generation |-> TRUE, qualifies |-> FALSE, approved |-> TRUE]
MCEvidence == {Qualifying, NotQualifying}
MCTerminalStateOf == [w \in MCSessions |-> "stopped"]
MCEvidenceOf == [w \in MCSessions |-> Qualifying]
=============================================================================
