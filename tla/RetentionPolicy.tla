-------------------------- MODULE RetentionPolicy ---------------------------
(***************************************************************************)
(* The pure eligibility evaluator (scripts/checkpoints/policy.py) for one  *)
(* registry entry.  The evaluator collects refusal codes; a checkpoint is  *)
(* eligible when there is none, so the codes are predicates here.          *)
(***************************************************************************)
EXTENDS Integers

CONSTANTS
    Durability,       \* the entry's class
    Lifecycle,        \* "active" or "retired"
    Retention,        \* retention_seconds
    RetiredAt,        \* retired_at of a retired durable entry
    RegistryReview,   \* retirement_review of a retired durable entry
    Ttl,              \* lease.ttl_seconds
    FutureTolerance,  \* lease.future_tolerance_seconds
    None              \* an absent control object or field

Classes == {"durable_stream", "generation_reproducibility", "disposable_acceptance"}

\* _parse_entry admits a retired entry only of the durable class, and then
\* with both retirement fields.
EntryParses ==
    /\ Durability \in Classes
    /\ Lifecycle \in {"active", "retired"}
    /\ Lifecycle = "retired" => /\ Durability = "durable_stream"
                                /\ RetiredAt \in Nat
                                /\ RegistryReview # None
    /\ Retention \in Nat

ASSUME PolicyAssumption ==
    /\ EntryParses
    /\ Ttl \in Nat
    /\ FutureTolerance \in Nat

\* The states that end a run of this class.
TerminalStates ==
    CASE Durability = "durable_stream"             -> {"stopped", "retired"}
      [] Durability = "generation_reproducibility" -> {"completed", "stopped"}
      [] Durability = "disposable_acceptance"      -> {"stopped"}

\* expires_at is written as heartbeat_at + ttl_seconds and never otherwise.
Expires(l) == l.heartbeat_at + Ttl

\* The clock check every reader makes before it trusts a stored lease.
DecodesLease(l) == l.acquired_at <= l.heartbeat_at

\* Mutant: the difference is taken the wrong way round.
PastClock(c, now) == now - c > FutureTolerance

FutureClock(c, now) == c - now > FutureTolerance

\* _evaluate_lease: an active lease, expired or not, is in no class's states.
LeaseAllows(prefix, now, l, t) ==
    /\ l.prefix = prefix
    /\ \A c \in {l.acquired_at, l.heartbeat_at, Expires(l)} : ~FutureClock(c, now)
    /\ DecodesLease(l)
    /\ l.state \in TerminalStates
    /\ l.state = t.state
    /\ l.heartbeat_at <= t.occurred_at

\* _evaluate_inventory and the object_after_terminal check.
InventoryAllows(now, t, inventory) ==
    /\ inventory # {}
    /\ \A r \in inventory : /\ ~FutureClock(r.last_modified, now)
                            /\ r.last_modified <= t.occurred_at

\* _evaluate_terminal, with registry_active_durable.
TerminalAllows(now, t) ==
    /\ ~FutureClock(t.occurred_at, now)
    /\ t.state \in TerminalStates
    /\ t.evidence.approved
    /\ Durability = "durable_stream" =>
        /\ Lifecycle = "retired"
        /\ t.review = RegistryReview
        /\ ~FutureClock(RetiredAt, now)
    /\ Durability # "durable_stream" => t.evidence.generation
    /\ Durability = "disposable_acceptance" => t.evidence.qualifies

\* The clocks whose maximum is the retention anchor.
AnchorClocks(l, t, inventory) ==
    {l.heartbeat_at, t.occurred_at} \cup {r.last_modified : r \in inventory}
        \cup (IF Lifecycle = "retired" THEN {RetiredAt} ELSE {})

Quarantined(now, l, t, inventory) ==
    \E c \in AnchorClocks(l, t, inventory) : now < c + Retention

\* Mutant: the controls alone decide, the objects' clocks are not looked at.
EligibleByControls(prefix, now, l, t, inventory) ==
    /\ l # None
    /\ t # None
    /\ LeaseAllows(prefix, now, l, t)
    /\ inventory # {}
    /\ TerminalAllows(now, t)
    /\ ~Quarantined(now, l, t, {})

\* evaluate_retention on the controls as the planner decoded them.
Eligible(prefix, now, l, t, inventory) ==
    /\ l # None
    /\ t # None
    /\ LeaseAllows(prefix, now, l, t)
    /\ InventoryAllows(now, t, inventory)
    /\ TerminalAllows(now, t)
    /\ ~Quarantined(now, l, t, inventory)

\* A terminal record of another prefix fails the plan.
DecodesTerminal(prefix, t) == t.prefix = prefix

\* The planner reads the terminal record only when the lease is not active.
PlanEligible(prefix, now, l, t, inventory) ==
    /\ l # None => l.state # "active"
    /\ t # None => DecodesTerminal(prefix, t)
    /\ Eligible(prefix, now, l, t, inventory)
=============================================================================
