-------------------------- MODULE RetentionReplan ---------------------------
(***************************************************************************)
(* The same evidence evaluated again.  An apply revalidates what a plan    *)
(* accepted earlier, and a retry revalidates what an interrupted apply     *)
(* left, so eligibility must survive the passing of time and the removal   *)
(* of objects, and must not survive a write (policy.py evaluate_retention, *)
(* called by planner.plan and by operations._apply_locked).                *)
(***************************************************************************)
EXTENDS RetentionPolicy

CONSTANTS
    Prefix,        \* the concrete prefix that is evaluated
    LeafKeys,      \* its object keys
    LeaseFacts,    \* lease facts the planner may decode, None included
    TerminalFacts, \* terminal facts the planner may decode, None included
    MaxNow         \* bound: last instant of evaluation

ASSUME ReplanAssumption ==
    /\ MaxNow \in Nat
    /\ Retention > 0
    /\ \A l \in LeaseFacts \ {None} : l.acquired_at \in Nat /\ l.heartbeat_at \in Nat
    /\ \A t \in TerminalFacts \ {None} : t.occurred_at \in Nat

VARIABLES
    now,        \* evaluated_at
    facts,      \* the lease and terminal facts, which nobody changes here
    inventory   \* the objects listed, each with its LastModified

replanVars == <<now, facts, inventory>>

Object == [key : LeafKeys, last_modified : 0..MaxNow]

ReplanInit ==
    /\ now \in 0..MaxNow
    /\ facts \in [lease : LeaseFacts, terminal : TerminalFacts]
    /\ inventory \in {o \in SUBSET Object : \A a, b \in o : a.key = b.key => a = b}

EligibleNow == Eligible(Prefix, now, facts.lease, facts.terminal, inventory)

Later ==
    /\ now < MaxNow
    /\ now' = now + 1
    /\ UNCHANGED <<facts, inventory>>

ObjectDeleted(r) ==
    /\ r \in inventory
    /\ inventory' = inventory \ {r}
    /\ UNCHANGED <<now, facts>>

ObjectWritten(k) ==
    /\ inventory' = {r \in inventory : r.key # k} \cup {[key |-> k, last_modified |-> now]}
    /\ UNCHANGED <<now, facts>>

ReplanNext ==
    \/ Later
    \/ \E r \in inventory : ObjectDeleted(r)
    \/ \E k \in LeafKeys : ObjectWritten(k)

ReplanSpec == ReplanInit /\ [][ReplanNext]_replanVars

-----------------------------------------------------------------------------
(* Properties.                                                              *)

\* What a plan found eligible stays eligible at every later evaluation of the
\* same controls over what is left of its objects, until one is written: a
\* retry is not refused because of the time that passed or of what a partial
\* deletion removed (_is_future_clock, _retention_anchor), and a write revokes
\* eligibility at once, whatever the object's key, without any new lease or
\* terminal record (object_after_terminal).
EligibleUntilWritten ==
    [][EligibleNow /\ inventory' # {}
        => (EligibleNow' <=> inventory' \subseteq inventory)]_replanVars
=============================================================================
