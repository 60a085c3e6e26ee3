------------------------ MODULE MCReceiptVerifiers ------------------------
(* Small instances of ReceiptVerifiers and of PolicyEvaluator, two parts   *)
(* that share no state: a behaviour runs one of them while the other stays *)
(* in a first state.  See README.md for the bounds.                        *)
EXTENDS ReceiptVerifiers, PolicyEvaluator

VARIABLE part

\* The decisions each body records: one that node and python do not know, and
\* one that only they know.
MCDecisions ==
  [b \in Bodies |-> CASE b = "consent" -> {"ALLOW", "REQUIRE_CONSENT"}
                     [] b = "odd" -> {"ALLOW_WITH_CONSTRAINTS"}
                     [] OTHER -> {"ALLOW"}]

Rule(phase, decided, match) == [phase |-> phase, decision |-> decided, match |-> match]

Source(partition, valid, default, unknown, rules) ==
  [partition |-> partition, valid |-> valid, defaultDecision |-> default,
   unknownRiskDecision |-> unknown, rules |-> rules]

\* ALLOW, REQUIRE_CONSENT when the risk is unknown, REFUSE a risky call.
MCDefault == Source("tenant", TRUE, 0, 4, {Rule("pre", 8, {{"risky"}})})

MCPolicies ==
  {Source("tenant", TRUE, 0, 4, {Rule("pre", 2, {})}),
   Source("tenant", TRUE, 0, 6, {Rule("post", 9, {{"risky"}})}),
   Source("user", TRUE, 3, 1, {Rule("pre", 8, {{"risky"}})}),
   Source("user", FALSE, 0, 0, {})}

MCContexts ==
  [phase : {"pre", "post"}, features : SUBSET {"unknown", "risky"}]

MCInit ==
  /\ Init
  /\ PolicyInit
  /\ \/ part = "receipts" /\ table = [p \in Policies |-> "absent"]
     \/ part = "policies"
  /\ context = [phase |-> "pre", features |-> {}]

MCNext ==
  \/ part = "receipts" /\ Next /\ UNCHANGED <<part, policyVars>>
  \/ part = "policies" /\ PolicyNext /\ UNCHANGED <<part, vars>>

MCSpec == MCInit /\ [][MCNext]_<<part, vars, policyVars>>

=============================================================================
