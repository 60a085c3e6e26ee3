----------------------- MODULE PolicyEvaluatorProofs -----------------------
(***************************************************************************)
(* Proofs about PolicyEvaluator: the evaluation is monotone in the set of  *)
(* policies, and what a decision counts in is every policy that stayed     *)
(* active.                                                                 *)
(***************************************************************************)
EXTENDS PolicyEvaluator, TLAPS

\* Some voice is the most restrictive of a non-empty set of them.
LEMMA MostRestrictive ==
  ASSUME NEW S, S \subseteq Decision, S # {}
  PROVE  /\ mostRestrictiveDecision(S) \in S
         /\ mostRestrictiveDecision(S) \in Decision
         /\ \A e \in S : e <= mostRestrictiveDecision(S)
<1>1. \E d \in S : \A e \in S : e <= d
  <2>1. CASE 9 \in S
    BY <2>1 DEF Decision
  <2>2. CASE 8 \in S /\ S \subseteq 0 .. 8
    BY <2>2
  <2>3. CASE 7 \in S /\ S \subseteq 0 .. 7
    BY <2>3
  <2>4. CASE 6 \in S /\ S \subseteq 0 .. 6
    BY <2>4
  <2>5. CASE 5 \in S /\ S \subseteq 0 .. 5
    BY <2>5
  <2>6. CASE 4 \in S /\ S \subseteq 0 .. 4
    BY <2>6
  <2>7. CASE 3 \in S /\ S \subseteq 0 .. 3
    BY <2>7
  <2>8. CASE 2 \in S /\ S \subseteq 0 .. 2
    BY <2>8
  <2>9. CASE S \subseteq 0 .. 1
    <3>1. CASE 1 \in S
      BY <2>9, <3>1
    <3>2. CASE 1 \notin S
      <4>1. S \subseteq {0}
        BY <2>9, <3>2
      <4>2. 0 \in S
        BY <4>1
      <4>3. \A e \in S : e <= 0
        BY <4>1
      <4>4. QED
        BY <4>2, <4>3
    <3>3. QED
      BY <3>1, <3>2
  <2>10. QED
    <3>1. 9 \in S \/ S \subseteq 0 .. 8
      BY DEF Decision
    <3>2. S \subseteq 0 .. 8 => 8 \in S \/ S \subseteq 0 .. 7
      OBVIOUS
    <3>3. S \subseteq 0 .. 7 => 7 \in S \/ S \subseteq 0 .. 6
      OBVIOUS
    <3>4. S \subseteq 0 .. 6 => 6 \in S \/ S \subseteq 0 .. 5
      OBVIOUS
    <3>5. S \subseteq 0 .. 5 => 5 \in S \/ S \subseteq 0 .. 4
      OBVIOUS
    <3>6. S \subseteq 0 .. 4 => 4 \in S \/ S \subseteq 0 .. 3
      OBVIOUS
    <3>7. S \subseteq 0 .. 3 => 3 \in S \/ S \subseteq 0 .. 2
      OBVIOUS
    <3>8. S \subseteq 0 .. 2 => 2 \in S \/ S \subseteq 0 .. 1
      OBVIOUS
    <3>9. QED
      BY <2>1, <2>2, <2>3, <2>4, <2>5, <2>6, <2>7, <2>8, <2>9,
         <3>1, <3>2, <3>3, <3>4, <3>5, <3>6, <3>7, <3>8
<1>2. QED
  BY <1>1 DEF mostRestrictiveDecision

\* Voices that are each matched by one at least as strict decide no stricter.
LEMMA StricterVoices ==
  ASSUME NEW S, S \subseteq Decision, S # {},
         NEW T, T \subseteq Decision, T # {},
         \A s \in S : \E t \in T : s <= t
  PROVE  mostRestrictiveDecision(S) <= mostRestrictiveDecision(T)
<1>1. /\ mostRestrictiveDecision(S) \in S
      /\ mostRestrictiveDecision(S) \in Decision
  BY MostRestrictive
<1>2. PICK t \in T : mostRestrictiveDecision(S) <= t
  BY <1>1
<1>3. t <= mostRestrictiveDecision(T) /\ mostRestrictiveDecision(T) \in Decision
  BY MostRestrictive
<1>4. QED
  BY <1>1, <1>2, <1>3 DEF Decision

Loadable == Policies \cup {DefaultPolicy}

Voices(L, c) ==
  {r.decision : r \in matching(L, c)} \cup
  {IF matching(L, c) # {} \/ ~hasUnknownRisk(c) THEN defaultDecision(L)
                                                ELSE unknownRiskDecision(L)}

\* The fallback decisions of some policies are the strictest of theirs.
LEMMA Fallbacks ==
  ASSUME NEW L, L \subseteq Loadable, L # {}
  PROVE  /\ defaultDecision(L) \in Decision
         /\ unknownRiskDecision(L) \in Decision
         /\ \A p \in L : /\ p.defaultDecision <= defaultDecision(L)
                         /\ p.unknownRiskDecision <= unknownRiskDecision(L)
<1>1. \A p \in L : p.defaultDecision \in Decision /\ p.unknownRiskDecision \in Decision
  BY PoliciesAssumption DEF Loadable, PolicySource
<1> DEFINE D == {p.defaultDecision : p \in L}
           U == {p.unknownRiskDecision : p \in L}
<1>2. D \subseteq Decision /\ D # {} /\ U \subseteq Decision /\ U # {}
  BY <1>1
<1> HIDE DEF D, U
<1>3. /\ mostRestrictiveDecision(D) \in Decision
      /\ \A e \in D : e <= mostRestrictiveDecision(D)
  BY <1>2, MostRestrictive
<1>4. /\ mostRestrictiveDecision(U) \in Decision
      /\ \A e \in U : e <= mostRestrictiveDecision(U)
  BY <1>2, MostRestrictive
<1>5. defaultDecision(L) = mostRestrictiveDecision(D)
  BY DEF defaultDecision, D
<1>6. unknownRiskDecision(L) = mostRestrictiveDecision(U)
  BY DEF unknownRiskDecision, U
<1>7. \A p \in L : p.defaultDecision \in D /\ p.unknownRiskDecision \in U
  BY DEF D, U
<1>8. QED
  BY <1>3, <1>4, <1>5, <1>6, <1>7

\* What is heard on a request are decisions, and the strictest is taken.
LEMMA VoicesAreDecisions ==
  ASSUME NEW L, L \subseteq Loadable, L # {}, NEW c
  PROVE  /\ Voices(L, c) \subseteq Decision
         /\ Voices(L, c) # {}
         /\ evaluatePolicy(L, c) = mostRestrictiveDecision(Voices(L, c))
         /\ evaluatePolicy(L, c) \in Decision
         /\ \A e \in Voices(L, c) : e <= evaluatePolicy(L, c)
<1>1. \A r \in matching(L, c) : r.decision \in Decision
  BY PoliciesAssumption DEF Loadable, PolicySource, matching
<1>2. Voices(L, c) \subseteq Decision /\ Voices(L, c) # {}
  BY <1>1, Fallbacks DEF Voices
<1>3. evaluatePolicy(L, c) = mostRestrictiveDecision(Voices(L, c))
  BY DEF evaluatePolicy, Voices
<1>4. QED
  BY <1>2, <1>3, MostRestrictive

\* Where the same fallback applies, more policies decide no laxer.
LEMMA MorePolicies ==
  ASSUME NEW L, L \subseteq Loadable, L # {},
         NEW M, M \subseteq Loadable, L \subseteq M, NEW c,
         matching(L, c) # {} \/ ~hasUnknownRisk(c) \/ matching(M, c) = {}
  PROVE  evaluatePolicy(L, c) <= evaluatePolicy(M, c)
<1>1. matching(L, c) \subseteq matching(M, c)
  BY DEF matching
<1>2. defaultDecision(L) <= defaultDecision(M)
  <2> DEFINE S == {p.defaultDecision : p \in L}
             T == {p.defaultDecision : p \in M}
  <2>1. S \subseteq Decision /\ T \subseteq Decision /\ S # {} /\ S \subseteq T
    BY PoliciesAssumption DEF Loadable, PolicySource
  <2> HIDE DEF S, T
  <2>2. \A s \in S : \E t \in T : s <= t
    BY <2>1 DEF Decision
  <2>3. mostRestrictiveDecision(S) <= mostRestrictiveDecision(T)
    BY <2>1, <2>2, StricterVoices
  <2>4. QED
    BY <2>3 DEF S, T, defaultDecision
<1>3. unknownRiskDecision(L) <= unknownRiskDecision(M)
  <2> DEFINE S == {p.unknownRiskDecision : p \in L}
             T == {p.unknownRiskDecision : p \in M}
  <2>1. S \subseteq Decision /\ T \subseteq Decision /\ S # {} /\ S \subseteq T
    BY PoliciesAssumption DEF Loadable, PolicySource
  <2> HIDE DEF S, T
  <2>2. \A s \in S : \E t \in T : s <= t
    BY <2>1 DEF Decision
  <2>3. mostRestrictiveDecision(S) <= mostRestrictiveDecision(T)
    BY <2>1, <2>2, StricterVoices
  <2>4. QED
    BY <2>3 DEF S, T, unknownRiskDecision
<1>4. /\ Voices(L, c) \subseteq Decision /\ Voices(L, c) # {}
      /\ Voices(M, c) \subseteq Decision /\ Voices(M, c) # {}
      /\ evaluatePolicy(L, c) = mostRestrictiveDecision(Voices(L, c))
      /\ evaluatePolicy(M, c) = mostRestrictiveDecision(Voices(M, c))
  BY VoicesAreDecisions
<1>5. ASSUME NEW s \in Voices(L, c)
      PROVE  \E t \in Voices(M, c) : s <= t
  <2>1. CASE \E r \in matching(L, c) : s = r.decision
    <3>1. s \in Voices(M, c)
      BY <1>1, <2>1 DEF Voices
    <3>2. QED
      BY <1>4, <3>1 DEF Decision
  <2>2. CASE /\ matching(L, c) # {} \/ ~hasUnknownRisk(c)
             /\ s = defaultDecision(L)
    <3>1. defaultDecision(M) \in Voices(M, c)
      BY <1>1, <2>2 DEF Voices
    <3>2. QED
      BY <1>2, <2>2, <3>1
  <2>3. CASE /\ ~(matching(L, c) # {} \/ ~hasUnknownRisk(c))
             /\ s = unknownRiskDecision(L)
    <3>1. unknownRiskDecision(M) \in Voices(M, c)
      BY <2>3 DEF Voices
    <3>2. QED
      BY <1>3, <2>3, <3>1
  <2>4. QED
    BY <2>1, <2>2, <2>3 DEF Voices
<1>6. QED
  BY <1>4, <1>5, StricterVoices

-----------------------------------------------------------------------------
\* What is loaded holds every steady policy of the partitions read so far.
Inv ==
  /\ PolicyTypeOK
  /\ \A p \in steady : table[p] = "active" /\ replica[p] = "active"
  /\ stage = "tenant" /\ ~cut => {p \in steady : p.partition = "tenant"} \subseteq loaded
  /\ stage \in {"compiled", "decided"} /\ ~cut => steady \subseteq loaded
  /\ stage = "decided" => decision = evaluatePolicy(loaded, context)

\* A page that holds all of a partition misses no policy that stays active.
LEMMA PageOfView ==
  ASSUME PolicyTypeOK, NEW v \in views, NEW where \in Partition, NEW page \in pages(v, where)
  PROVE  /\ page \subseteq Policies
         /\ \A p \in Policies :
              /\ table[p] = "active" /\ replica[p] = "active" /\ p.partition = where
              /\ page = items(v, where)
              => p \in page \cap active(v)
<1>1. page \subseteq items(v, where) /\ items(v, where) \subseteq Policies
  BY DEF pages, items
<1>2. \A p \in Policies : v[p] \in {table[p], replica[p]}
  BY DEF views
<1>3. QED
  BY <1>1, <1>2 DEF items, active

\* The invariant holds in every reachable state.
LEMMA InvHolds == PolicySpec => []Inv
<1>1. PolicyInit => Inv
  <2> SUFFICES ASSUME PolicyInit
               PROVE  Inv
    OBVIOUS
  <2>1. table \in [Policies -> Status]
    BY DEF PolicyInit, Status
  <2>2. 0 \in Decision
    BY DEF Decision
  <2>3. PolicyTypeOK
    BY <2>1, <2>2 DEF PolicyInit, PolicyTypeOK
  <2>4. QED
    BY <2>3 DEF PolicyInit, Inv
<1>2. Inv /\ [PolicyNext]_policyVars => Inv'
  <2> SUFFICES ASSUME Inv, [PolicyNext]_policyVars
               PROVE  Inv'
    OBVIOUS
  <2>1. CASE QueryTenant
    <3>a. PICK v \in views : \E page \in pages(v, "tenant") :
            /\ loaded' = page \cap active(v)
            /\ cut' = (page # items(v, "tenant"))
      BY <2>1 DEF QueryTenant
    <3>1. PICK page \in pages(v, "tenant") :
            /\ loaded' = page \cap active(v)
            /\ cut' = (page # items(v, "tenant"))
      BY <3>a
    <3>2. /\ page \subseteq Policies
          /\ \A p \in Policies :
               /\ table[p] = "active" /\ replica[p] = "active" /\ p.partition = "tenant"
               /\ page = items(v, "tenant")
               => p \in page \cap active(v)
      BY PageOfView DEF Inv, Partition
    <3>3. steady' \subseteq {p \in Policies : table[p] = "active" /\ replica[p] = "active"}
      BY <2>1 DEF QueryTenant, active
    <3>4. PolicyTypeOK'
      BY <2>1, <3>1, <3>2, <3>3 DEF Inv, PolicyTypeOK, QueryTenant
    <3>5. QED
      BY <2>1, <3>1, <3>2, <3>3, <3>4 DEF Inv, QueryTenant
  <2>2. CASE QueryUser
    <3> DEFINE found(v, page) == loaded \cup (page \cap active(v))
    <3>a. PICK v \in views : \E page \in pages(v, "user") :
            /\ cut' = (cut \/ page # items(v, "user"))
            /\ stage' = IF refused(found(v, page)) THEN "refused" ELSE "compiled"
            /\ loaded' = IF found(v, page) = {} THEN {DefaultPolicy} ELSE found(v, page)
      BY <2>2 DEF QueryUser
    <3>1. PICK page \in pages(v, "user") :
            /\ cut' = (cut \/ page # items(v, "user"))
            /\ stage' = IF refused(found(v, page)) THEN "refused" ELSE "compiled"
            /\ loaded' = IF found(v, page) = {} THEN {DefaultPolicy} ELSE found(v, page)
      BY <3>a
    <3>2. /\ page \subseteq Policies
          /\ \A p \in Policies :
               /\ table[p] = "active" /\ replica[p] = "active" /\ p.partition = "user"
               /\ page = items(v, "user")
               => p \in page \cap active(v)
      BY PageOfView DEF Inv, Partition
    <3>3. PolicyTypeOK'
      BY <2>2, <3>1, <3>2 DEF Inv, PolicyTypeOK, QueryUser
    <3>4. ASSUME ~cut', NEW p \in steady
          PROVE  p \in loaded'
      <4>1. /\ p \in Policies /\ table[p] = "active" /\ replica[p] = "active"
            /\ p.partition \in {"tenant", "user"}
        BY PoliciesAssumption DEF Inv, PolicyTypeOK, PolicySource, Partition
      <4>2. ~cut /\ page = items(v, "user")
        BY <3>1, <3>4 DEF Inv, PolicyTypeOK
      <4>3. p \in found(v, page)
        BY <2>2, <3>2, <4>1, <4>2 DEF Inv, QueryUser
      <4>4. QED
        BY <3>1, <4>3
    <3>5. QED
      BY <2>2, <3>1, <3>3, <3>4 DEF Inv, QueryUser
  <2>3. ASSUME NEW c \in Contexts, Evaluate(c)
        PROVE  Inv'
    <3>1. loaded \subseteq Loadable /\ loaded # {}
      BY <2>3 DEF Inv, PolicyTypeOK, Evaluate, Loadable
    <3>2. evaluatePolicy(loaded, c) \in Decision
      BY <3>1, VoicesAreDecisions
    <3>3. decision' = evaluatePolicy(loaded', context')
      BY <2>3 DEF Evaluate
    <3>4. PolicyTypeOK'
      BY <2>3, <3>2 DEF Inv, PolicyTypeOK, Evaluate
    <3>5. QED
      BY <2>3, <3>3, <3>4 DEF Inv, Evaluate
  <2>4. ASSUME NEW p \in Policies, Publish(p)
        PROVE  Inv'
    <3>1. PolicyTypeOK'
      BY <2>4 DEF Inv, PolicyTypeOK, Publish, Status
    <3>2. evaluatePolicy(loaded, context)' = evaluatePolicy(loaded, context)
      BY <2>4 DEF Publish
    <3>3. QED
      BY <2>4, <3>1, <3>2 DEF Inv, PolicyTypeOK, Publish
  <2>5. ASSUME NEW p \in Policies, Withdraw(p)
        PROVE  Inv'
    <3>1. PolicyTypeOK'
      BY <2>5 DEF Inv, PolicyTypeOK, Withdraw, Status
    <3>2. evaluatePolicy(loaded, context)' = evaluatePolicy(loaded, context)
      BY <2>5 DEF Withdraw
    <3>3. QED
      BY <2>5, <3>1, <3>2 DEF Inv, PolicyTypeOK, Withdraw
  <2>6. ASSUME NEW p \in Policies, Replicate(p)
        PROVE  Inv'
    <3>1. PolicyTypeOK'
      BY <2>6 DEF Inv, PolicyTypeOK, Replicate, Status
    <3>2. evaluatePolicy(loaded, context)' = evaluatePolicy(loaded, context)
      BY <2>6 DEF Replicate
    <3>3. QED
      BY <2>6, <3>1, <3>2 DEF Inv, PolicyTypeOK, Replicate
  <2>7. CASE UNCHANGED policyVars
    BY <2>7 DEF policyVars, Inv, PolicyTypeOK, evaluatePolicy, matching, defaultDecision,
                unknownRiskDecision
  <2>8. QED
    BY <2>1, <2>2, <2>3, <2>4, <2>5, <2>6, <2>7 DEF PolicyNext
<1>3. QED
  BY <1>1, <1>2, PTL DEF PolicySpec

\* Whatever is published while the load runs, the load stays well typed and
\* never compiles an empty policy set (dynamodbPolicyRepository.ts:75-81).
THEOREM PolicyTypeCorrect == PolicySpec => []PolicyTypeOK
<1>1. Inv => PolicyTypeOK
  BY DEF Inv
<1>2. QED
  BY <1>1, InvHolds, PTL

\* For any policies, rules and contexts: adding a policy never loosens a
\* decision except by the first rule that matches an unknown risk
\* (compiler.ts:79, evaluator.ts:89).
THEOREM PoliciesOnlyTightenAlways == PolicySpec => []PoliciesOnlyTighten
<1>1. Inv => PoliciesOnlyTighten
  <2> SUFFICES ASSUME Inv, stage \in {"compiled", "decided"},
                      NEW p \in Policies, NEW c \in Contexts,
                      ~(/\ hasUnknownRisk(c)
                        /\ matching(loaded, c) = {}
                        /\ matching({p}, c) # {})
               PROVE  evaluatePolicy(loaded, c) <= evaluatePolicy(loaded \cup {p}, c)
    BY DEF PoliciesOnlyTighten
  <2> DEFINE M == loaded \cup {p}
  <2>1. /\ loaded \subseteq Loadable /\ loaded # {}
        /\ M \subseteq Loadable /\ loaded \subseteq M
    BY DEF Inv, PolicyTypeOK, Loadable
  <2>2. matching(M, c) = matching(loaded, c) \cup matching({p}, c)
    BY DEF matching
  <2>3. matching(loaded, c) # {} \/ ~hasUnknownRisk(c) \/ matching(M, c) = {}
    BY <2>2
  <2> HIDE DEF M
  <2>4. evaluatePolicy(loaded, c) <= evaluatePolicy(M, c)
    BY <2>1, <2>3, MorePolicies
  <2>5. QED
    BY <2>4 DEF M
<1>2. QED
  BY <1>1, InvHolds, PTL

\* A policy that is active on every replica throughout is counted in by every
\* decision of the call (dynamodbPolicyRepository.ts:63, governedInvoke.ts:376).
THEOREM SteadyPoliciesRuleAlways == PolicySpec => []SteadyPoliciesRule
<1>1. Inv => SteadyPoliciesRule
  <2> SUFFICES ASSUME Inv, stage = "decided", ~cut, NEW p \in steady
               PROVE  /\ \A r \in matching({p}, context) : r.decision <= decision
                      /\ IF matching(loaded, context) # {} \/ ~hasUnknownRisk(context)
                         THEN p.defaultDecision <= decision
                         ELSE p.unknownRiskDecision <= decision
    BY DEF SteadyPoliciesRule
  <2>1. /\ p \in loaded /\ decision = evaluatePolicy(loaded, context)
        /\ loaded \subseteq Loadable /\ loaded # {}
    BY DEF Inv, PolicyTypeOK, Loadable
  <2>2. /\ \A e \in Voices(loaded, context) : e <= decision
        /\ decision \in Decision
    BY <2>1, VoicesAreDecisions
  <2>3. ASSUME NEW r \in matching({p}, context)
        PROVE  r.decision <= decision
    <3>1. r \in matching(loaded, context)
      BY <2>1, <2>3 DEF matching
    <3>2. r.decision \in Voices(loaded, context)
      BY <3>1 DEF Voices
    <3>3. QED
      BY <2>2, <3>2
  <2>4. /\ p.defaultDecision \in Decision /\ p.unknownRiskDecision \in Decision
        /\ p.defaultDecision <= defaultDecision(loaded)
        /\ p.unknownRiskDecision <= unknownRiskDecision(loaded)
        /\ defaultDecision(loaded) \in Decision
        /\ unknownRiskDecision(loaded) \in Decision
    BY <2>1, Fallbacks, PoliciesAssumption DEF Loadable, PolicySource
  <2>5. CASE matching(loaded, context) # {} \/ ~hasUnknownRisk(context)
    <3>1. defaultDecision(loaded) <= decision
      BY <2>2, <2>5 DEF Voices
    <3>2. QED
      BY <2>2, <2>3, <2>4, <2>5, <3>1 DEF Decision
  <2>6. CASE ~(matching(loaded, context) # {} \/ ~hasUnknownRisk(context))
    <3>1. unknownRiskDecision(loaded) <= decision
      BY <2>2, <2>6 DEF Voices
    <3>2. QED
      BY <2>2, <2>3, <2>4, <2>6, <3>1 DEF Decision
  <2>7. QED
    BY <2>5, <2>6
<1>2. QED
  BY <1>1, InvHolds, PTL

=============================================================================
