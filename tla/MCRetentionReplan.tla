------------------------- MODULE MCRetentionReplan --------------------------
(* A retired durable entry, the class with the most conditions.             *)
EXTENDS RetentionReplan

CONSTANTS p, review

MCClocks == 0..MaxNow
MCEvidence == {[generation |-> g, qualifies |-> TRUE, approved |-> a] :
                    g \in BOOLEAN, a \in BOOLEAN}
MCLeaseFacts ==
    [prefix : {p}, state : {"active", "stopped", "retired"},
     acquired_at : MCClocks, heartbeat_at : MCClocks] \cup {None}
MCTerminalFacts ==
    [state : {"stopped", "retired"}, occurred_at : MCClocks,
     evidence : MCEvidence, review : {None, review}] \cup {None}
=============================================================================
