---------------------------- MODULE MCPortfolio ----------------------------
(***************************************************************************)
(* Instances of Portfolio for TLC: what dossiers say and policies ask for, *)
(* for two entities that may use the same provider.                        *)
(***************************************************************************)
EXTENDS Portfolio, TLC

Artifact(domain, state, says) ==
  [domain |-> domain, state |-> state, says |-> says, about |-> None]

Observation(arrangement, says) ==
  [domain |-> "third_party", state |-> "current", says |-> says,
   about |-> arrangement]

Arrangement(id, provider, critical) ==
  [id |-> id, provider |-> provider, critical |-> critical]

Says(artifacts, arrangements) ==
  [artifacts |-> artifacts, arrangements |-> arrangements,
   functions |-> {"payments"}, providers |-> {"cloud"}]

Register == Artifact("third_party", "current", "nothing")
Payments == Arrangement("ARR-1", "cloud", {"payments"})

\* A critical function on the provider, with or without a high concentration.
Dependent == Says({Register}, {Payments})
Concentration ==
  Says({Register, Observation("ARR-1", "high_concentration")}, {Payments})
\* A breach whose evidence is stale itself.
StaleBreach ==
  Says({Register,
        Artifact("incident_reporting", "revalidation_required", "breached")}, {})
\* A breach without the required register.
Breach == Says({Artifact("incident_reporting", "with_gaps", "breached")}, {})
\* Verified, and yet no position can be computed from it.
Inconsistent == Says({Register}, {Arrangement("ARR-1", "unknown", {})})

Dossier(at, content) == [at |-> at, content |-> content]

MCDocument ==
  {Dossier(1, Dependent), Dossier(2, Concentration),
   Dossier(2, Breach), Dossier(3, StaleBreach), Dossier(3, Inconsistent)}

Policing(at, maxAge, entities, functions) ==
  [at |-> at, rule |-> [required |-> {"third_party"}, maxAge |-> maxAge,
                        entities |-> entities, functions |-> functions]]

MCPolicy == {Policing(1, 1, 2, 3), Policing(2, 2, 3, 2)}

\* The entities hold the same dossiers, and every property treats them alike.
EntitySymmetry == Permutations(Entity)
=============================================================================
