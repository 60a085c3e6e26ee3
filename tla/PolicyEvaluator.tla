-------------------------- MODULE PolicyEvaluator --------------------------
(***************************************************************************)
(* Loading a caller's policies and deciding by them.  loadPolicies queries *)
(* the tenant's partition and then the user's, one page of each, while an  *)
(* administrator publishes and withdraws policies; compilePolicySet merges *)
(* what was read; evaluatePolicy is then asked once for every phase of the *)
(* call.  One loader is enough: loaders share nothing but the table.  The  *)
(* queries are eventually consistent, so they may still show an item as it *)
(* was before its last change.                                             *)
(*                                                                         *)
(* A decision is its rank in decisionRank, which is injective.  The ten    *)
(* criteria of a rule's match are sets of acceptable features of the       *)
(* context; a criterion that is not given is not in the set.               *)
(***************************************************************************)
EXTENDS Integers, FiniteSets

CONSTANTS
  Policies,       \* the policy sources that may be published
  DefaultPolicy,  \* what governs a caller who has none
  AllowDefault,   \* the repository's allowDefaultPolicy
  Contexts,       \* the contexts decisions are asked for
  PageItems       \* how many items one page of a query holds

Decision == 0 .. 9

Partition == {"tenant", "user"}

\* An item: where it is stored, whether its tenantId is the caller's and its
\* policySource passes validatePolicySource, and what that source says.
PolicySource(p) ==
  /\ p.partition \in Partition
  /\ p.valid \in BOOLEAN
  /\ p.defaultDecision \in Decision
  /\ p.unknownRiskDecision \in Decision
  /\ \A r \in p.rules : r.decision \in Decision

ASSUME PoliciesAssumption ==
  /\ \A p \in Policies \cup {DefaultPolicy} : PolicySource(p)
  /\ DefaultPolicy \notin Policies
  /\ AllowDefault \in BOOLEAN
ASSUME PageAssumption == PageItems \in Nat

VARIABLES
  table,     \* table[p]: whether p is stored, and active
  replica,   \* the same, as a replica that lags behind has it
  stage,     \* of the load: "idle", "tenant" read, "refused", "compiled", "decided"
  loaded,    \* the policies read so far
  steady,    \* those that were active, on every replica, since the load began
  cut,       \* whether a page left items unread
  context,   \* what the last decision was asked for
  decision   \* the last decision

policyVars == <<table, replica, stage, loaded, steady, cut, context, decision>>

-----------------------------------------------------------------------------
\* A plausible slip: the laxest voice prevails.
leastRestrictiveDecision(S) == CHOOSE d \in S : \A e \in S : d <= e

\* The reduce over compareDecisionRestrictiveness: the highest rank.
mostRestrictiveDecision(S) == CHOOSE d \in S : \A e \in S : e <= d

hasUnknownRisk(c) == "unknown" \in c.features

matchesRule(r, c) ==
  /\ r.phase = c.phase
  /\ \A criterion \in r.match : criterion \cap c.features # {}

matching(L, c) == {r \in UNION {p.rules : p \in L} : matchesRule(r, c)}

defaultDecision(L) == mostRestrictiveDecision({p.defaultDecision : p \in L})

unknownRiskDecision(L) == mostRestrictiveDecision({p.unknownRiskDecision : p \in L})

\* The fallback counts as one more voice; which fallback depends on whether
\* any rule matched at all.
evaluatePolicy(L, c) ==
  mostRestrictiveDecision(
    {r.decision : r \in matching(L, c)} \cup
    {IF matching(L, c) # {} \/ ~hasUnknownRisk(c) THEN defaultDecision(L)
                                                  ELSE unknownRiskDecision(L)})

-----------------------------------------------------------------------------
Status == {"absent", "active", "inactive"}

\* How a query may find the items.
views == {v \in [Policies -> Status] : \A p \in Policies : v[p] \in {table[p], replica[p]}}

items(v, part) == {p \in Policies : v[p] # "absent" /\ p.partition = part}

active(v) == {p \in Policies : v[p] = "active"}

\* What one query may return: a page of the partition; the filter on active
\* is applied to what the page holds.
pages(v, part) ==
  {S \in SUBSET items(v, part) :
     IF Cardinality(items(v, part)) <= PageItems THEN S = items(v, part)
                                                 ELSE Cardinality(S) = PageItems}

PolicyInit ==
  /\ table \in [Policies -> {"absent", "active"}]
  /\ replica = table
  /\ stage = "idle"
  /\ loaded = {} /\ steady = {} /\ cut = FALSE
  /\ context \in Contexts
  /\ decision = 0

QueryTenant ==
  /\ stage = "idle"
  /\ \E v \in views : \E page \in pages(v, "tenant") :
       /\ loaded' = page \cap active(v)
       /\ cut' = (page # items(v, "tenant"))
  /\ stage' = "tenant"
  /\ steady' = active(table) \cap active(replica)
  /\ UNCHANGED <<table, replica, context, decision>>

refused(found) == (found = {} /\ ~AllowDefault) \/ \E p \in found : ~p.valid

\* A plausible slip: a user's own policies replace the tenant's.
QueryUserOverrides ==
  /\ stage = "tenant"
  /\ \E v \in views : \E page \in pages(v, "user") :
       LET own == page \cap active(v)
           found == IF own # {} THEN own ELSE loaded IN
       /\ cut' = (cut \/ page # items(v, "user"))
       /\ stage' = IF refused(found) THEN "refused" ELSE "compiled"
       /\ loaded' = IF found = {} THEN {DefaultPolicy} ELSE found
  /\ UNCHANGED <<table, replica, steady, context, decision>>

\* The second query, the check of every item, the default policy and the
\* compilation.
QueryUser ==
  /\ stage = "tenant"
  /\ \E v \in views : \E page \in pages(v, "user") :
       LET found == loaded \cup (page \cap active(v)) IN
       /\ cut' = (cut \/ page # items(v, "user"))
       /\ stage' = IF refused(found) THEN "refused" ELSE "compiled"
       /\ loaded' = IF found = {} THEN {DefaultPolicy} ELSE found
  /\ UNCHANGED <<table, replica, steady, context, decision>>

Evaluate(c) ==
  /\ stage \in {"compiled", "decided"}
  /\ stage' = "decided"
  /\ context' = c
  /\ decision' = evaluatePolicy(loaded, c)
  /\ UNCHANGED <<table, replica, loaded, steady, cut>>

\* The administrator.
Publish(p) ==
  /\ table[p] # "active"
  /\ table' = [table EXCEPT ![p] = "active"]
  /\ UNCHANGED <<replica, stage, loaded, steady, cut, context, decision>>

Withdraw(p) ==
  /\ table[p] = "active"
  /\ table' = [table EXCEPT ![p] = "inactive"]
  /\ steady' = steady \ {p}
  /\ UNCHANGED <<replica, stage, loaded, cut, context, decision>>

\* The replica catches up with the last change of an item.
Replicate(p) ==
  /\ replica[p] # table[p]
  /\ replica' = [replica EXCEPT ![p] = table[p]]
  /\ UNCHANGED <<table, stage, loaded, steady, cut, context, decision>>

PolicyNext ==
  \/ QueryTenant
  \/ QueryUser
  \/ \E c \in Contexts : Evaluate(c)
  \/ \E p \in Policies : Publish(p) \/ Withdraw(p) \/ Replicate(p)

PolicySpec == PolicyInit /\ [][PolicyNext]_policyVars

-----------------------------------------------------------------------------
\* The load stays well typed and what is compiled is never empty.
PolicyTypeOK ==
  /\ table \in [Policies -> Status]
  /\ replica \in [Policies -> Status]
  /\ stage \in {"idle", "tenant", "refused", "compiled", "decided"}
  /\ loaded \subseteq Policies \cup {DefaultPolicy}
  /\ steady \subseteq Policies
  /\ cut \in BOOLEAN
  /\ context \in Contexts
  /\ decision \in Decision
  /\ stage \in {"compiled", "decided"} => loaded # {}

\* One more policy, of whatever layer and however permissive, never loosens a
\* decision (compiler.ts:78, evaluator.ts:68), with one exception: where the
\* risk is unknown and no rule matched, a first matching rule replaces the
\* unknown-risk fallback (evaluator.ts:89).
PoliciesOnlyTighten ==
  stage \in {"compiled", "decided"} =>
    \A p \in Policies, c \in Contexts :
      \/ evaluatePolicy(loaded, c) <= evaluatePolicy(loaded \cup {p}, c)
      \/ /\ hasUnknownRisk(c)
         /\ matching(loaded, c) = {}
         /\ matching({p}, c) # {}

\* Though the two queries share no snapshot and may lag, a policy that was
\* active on every replica from the first of them until the decision has its
\* say, provided each partition fits in a page (dynamodbPolicyRepository.ts:63):
\* no decision is laxer than one of its matching rules, nor than its default
\* or, where the risk is unknown and nothing matched, its unknown-risk
\* decision.
SteadyPoliciesRule ==
  stage = "decided" /\ ~cut =>
    \A p \in steady :
      /\ \A r \in matching({p}, context) : r.decision <= decision
      /\ IF matching(loaded, context) # {} \/ ~hasUnknownRisk(context)
         THEN p.defaultDecision <= decision
         ELSE p.unknownRiskDecision <= decision

=============================================================================
