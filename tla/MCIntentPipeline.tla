--------------------------- MODULE MCIntentPipeline ---------------------------
(* Small instances of IntentPipeline, and of AccessToken, which says who may   *)
(* call the gateway at all, for TLC.  They share no state, so a run explores   *)
(* the one or the other.                                                       *)
EXTENDS IntentPipeline, AccessToken, TLC

Base == [proposed_tool |-> "search", agent_id |-> "agent", tenant_id |-> "absent",
         service_id |-> "absent", action |-> "execute", resource |-> "absent",
         home |-> "t1", text |-> "plain"]

\* A search, the same with a text some files object to, one that names the user's
\* tenant, and two that no file permits.
MCRequest == {Base, [Base EXCEPT !.text = "odd"], [Base EXCEPT !.tenant_id = "t1"],
              [Base EXCEPT !.tenant_id = "t2"], [Base EXCEPT !.proposed_tool = "shell"]}

MCSettings == [require_tenant |-> FALSE, allowed |-> [action |-> {"execute"}],
               denied_tools |-> {"shell"}, hitl_tools |-> {"pay"}]

Rule(e, p, m) == [effect |-> e, priority |-> p, match |-> m, met |-> TRUE]
Everybody == [action |-> {"execute", "plan"}]
Tenant == [tenant_id |-> {"t1"}]
Open == [blocks |-> {}, valid |-> TRUE, default |-> "allow", rules |-> <<>>]

\* No rules; a file that does not parse; patterns; and the ways two rules of
\* which one is for a tenant can be in conflict.
MCFile ==
    {Open, [Open EXCEPT !.valid = FALSE],
     [Open EXCEPT !.blocks = {"odd"}, !.rules = <<Rule("require_hitl", 1, Tenant)>>]}
    \cup {[Open EXCEPT !.default = "deny", !.rules = <<Rule("allow", p, Everybody), Rule("deny", 2, Tenant)>>]
            : p \in 1 .. 2}

VARIABLE part   \* the component of this behaviour

PartsInit == /\ part \in {"pipeline", "access"}
             /\ Init
             /\ AccessInit
             /\ part = "access" => file = Open
             /\ part = "pipeline" => drift = [g \in Gateway |-> 0]

PartsNext == /\ \/ part = "pipeline" /\ Next /\ UNCHANGED accessVars
                \/ part = "access" /\ AccessNext /\ UNCHANGED vars
             /\ UNCHANGED part

PartsSpec == PartsInit /\ [][PartsNext]_<<vars, accessVars, part>>

\* The processes of the pipeline are interchangeable.
Symmetry == Permutations(Instance)
=============================================================================
