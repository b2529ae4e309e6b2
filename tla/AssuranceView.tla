---------------------------- MODULE AssuranceView ----------------------------
(***************************************************************************)
(* What src/src/doraops/assurance.py computes from verified dossiers: the  *)
(* state of a domain, of an entity and of a portfolio, and the exposure to *)
(* providers.  No state; module Portfolio has the registry.                *)
(*                                                                         *)
(* The findings of a domain and of a position explain its state; whoever   *)
(* computes one computes the other, and they are left out.  The findings   *)
(* of a snapshot are not recomputed by everybody and are modelled.         *)
(***************************************************************************)
EXTENDS Integers, FiniteSets

CONSTANT None

AssuranceState ==
  {"healthy", "attention", "incomplete", "breached", "revalidation_required"}

\* _STATE_RANK
Rank == [healthy |-> 0, attention |-> 1, incomplete |-> 2, breached |-> 3,
         revalidation_required |-> 4]

\* KNOWN_ASSURANCE_DOMAINS, and what the payload of an artifact of the domain can
\* say that counts against it.
Adverse ==
  [ict_risk           |-> {"high_residual", "remediation", "acceptance"},
   incident           |-> {"major"},
   incident_reporting |-> {"revalidation_required", "breached", "incomplete",
                           "pending"},
   resilience_test    |-> {"blocked", "incomplete"},
   continuity         |-> {"breached", "blocked", "incomplete"},
   third_party        |-> {"high_concentration", "difficult"}]

Domain == DOMAIN Adverse

IsArtifact(a) ==
  /\ a.domain \in Domain
  /\ a.state \in {"current", "with_gaps", "revalidation_required"}
  /\ a.says \in Adverse[a.domain] \cup {"nothing"}

\* artifacts: those of the assurance domains; about is the arrangement that a
\* dependency observation is for, None for other artifacts.  functions and
\* providers: the critical functions and the providers of the embedded inventory.
IsContent(c) ==
  /\ DOMAIN c = {"artifacts", "functions", "providers", "arrangements"}
  /\ \A a \in c.artifacts : IsArtifact(a)
  /\ \A x \in c.arrangements : DOMAIN x = {"id", "provider", "critical"}

\* The rule of a policy: required domains, maximal age of a dossier, and how many
\* entities or critical functions make a provider concentrated.
IsRule(r) ==
  /\ DOMAIN r = {"required", "maxAge", "entities", "functions"}
  /\ r.required # {} /\ r.required \subseteq Domain
  /\ {r.maxAge, r.entities, r.functions} \subseteq Nat \ {0}

-----------------------------------------------------------------------------
(* What one dossier says. *)

\* _worst_state
Worst(states) ==
  IF states = {} THEN "healthy"
  ELSE CHOOSE s \in states : \A t \in states : Rank[t] <= Rank[s]

\* The state one artifact represents.
Represented(says) ==
  CASE says = "nothing"                -> "healthy"
    [] says = "revalidation_required"  -> "revalidation_required"
    [] says \in {"breached", "blocked"} -> "breached"
    [] says = "incomplete"             -> "incomplete"
    [] OTHER                           -> "attention"

ArtifactsOf(content, domain) == {a \in content.artifacts : a.domain = domain}

\* _semantic_state
SemanticState(artifacts) == Worst({Represented(a.says) : a \in artifacts})

\* Mutant: what the artifacts represent is looked at before their own state.
DomainStateOfPayloads(content, domain) ==
  LET artifacts == ArtifactsOf(content, domain)
      states == {a.state : a \in artifacts}
  IN  IF artifacts = {} THEN "incomplete"
      ELSE IF SemanticState(artifacts) # "healthy" THEN SemanticState(artifacts)
      ELSE IF "revalidation_required" \in states THEN "revalidation_required"
      ELSE IF "with_gaps" \in states THEN "attention" ELSE "healthy"

\* _domain_summary; a domain without artifacts is only summarised when required.
DomainState(content, domain) ==
  LET artifacts == ArtifactsOf(content, domain)
      states == {a.state : a \in artifacts}
  IN  IF artifacts = {} THEN "incomplete"
      ELSE IF "revalidation_required" \in states THEN "revalidation_required"
      ELSE IF SemanticState(artifacts) # "healthy" THEN SemanticState(artifacts)
      ELSE IF "with_gaps" \in states THEN "attention" ELSE "healthy"

\* What _entity_provider_exposures demands of the document; register_dossier does
\* not ask for it.
Consistent(content) ==
  /\ \A x \in content.arrangements :
       /\ content.providers # {} => x.provider \in content.providers
       /\ x.critical \subseteq content.functions
       /\ \A y \in content.arrangements : x.id = y.id => x = y
  /\ \A a \in content.artifacts :
       a.about # None => \E x \in content.arrangements : x.id = a.about

\* _entity_provider_exposures, by direct provider; the count of high or critical
\* observations is the set of them.
ProviderExposures(content) ==
  [p \in {x.provider : x \in content.arrangements} |->
     LET own == {x \in content.arrangements : x.provider = p}
     IN  [arrangements |-> {x.id : x \in own},
          critical     |-> UNION {x.critical : x \in own},
          high         |-> {a \in content.artifacts :
                              /\ a.about \in {x.id : x \in own}
                              /\ a.says = "high_concentration"}]]

\* The domains of a position: the required ones and those the dossier has.
Summarised(content, rule) ==
  rule.required \cup {a.domain : a \in content.artifacts}

Freshness(document, policy, at) ==
  IF at - document.at > policy.rule.maxAge THEN "revalidation_required" ELSE "healthy"

\* _entity_position raises when this does not hold.
MayAssess(document, policy, at) ==
  at >= document.at /\ at >= policy.at /\ Consistent(document.content)

\* _entity_position
EntityPosition(document, policy, at) ==
  LET content == document.content
      domains == [d \in Summarised(content, policy.rule) |-> DomainState(content, d)]
      freshness == Freshness(document, policy, at)
  IN  [dossier   |-> document,
       freshness |-> freshness,
       domains   |-> domains,
       exposures |-> ProviderExposures(content),
       state     |-> Worst({domains[d] : d \in DOMAIN domains} \cup {freshness})]

-----------------------------------------------------------------------------
(* What a portfolio of positions says. *)

\* _portfolio_exposures; counts are the sets counted, arrangements and functions
\* with the entity they belong to.
PortfolioExposures(positions, rule) ==
  [p \in UNION {DOMAIN positions[e].exposures : e \in DOMAIN positions} |->
     LET users == {e \in DOMAIN positions : p \in DOMAIN positions[e].exposures}
         of(part) == UNION {{<<e, x>> : x \in positions[e].exposures[p][part]} :
                              e \in users}
     IN  [entities         |-> users,
          arrangements     |-> of("arrangements"),
          critical         |-> of("critical"),
          high             |-> of("high"),
          entitiesReached  |-> Cardinality(users) >= rule.entities,
          functionsReached |-> Cardinality(of("critical")) >= rule.functions]]

\* The conditions of a provider that build_snapshot lists.
Conditions(exposure) ==
  {c \in {"high", "entities", "functions"} :
     CASE c = "high"      -> exposure.high # {}
       [] c = "entities"  -> exposure.entitiesReached
       [] c = "functions" -> exposure.functionsReached}

Concentrated(exposure) == Conditions(exposure) # {}

\* The findings of build_snapshot: what is not healthy, and the conditions of the
\* providers.
FindingsOf(positions, exposures) ==
  {<<e, positions[e].state>> :
     e \in {x \in DOMAIN positions : positions[x].state # "healthy"}}
  \cup UNION {{<<p, c>> : c \in Conditions(exposures[p])} : p \in DOMAIN exposures}

\* The state of build_snapshot, which verify_portfolio_snapshot recomputes.
PortfolioState(positions, exposures) ==
  Worst({positions[e].state : e \in DOMAIN positions} \cup
        {"attention" : p \in {q \in DOMAIN exposures : Concentrated(exposures[q])}})

=============================================================================
