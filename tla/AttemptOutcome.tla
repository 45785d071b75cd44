---------------------------- MODULE AttemptOutcome ----------------------------
(***************************************************************************)
(* What the reconciliation ledger promises about the order attempts of one *)
(* account, with no word of how it finds out: an intent is attempted once, *)
(* nothing new starts while an outcome is uncertain, the exposure recorded *)
(* for an intent only grows, and a settled intent stays as it is.          *)
(***************************************************************************)
EXTENDS Naturals

CONSTANTS
    Intents,
    Quantity    \* the most contracts an intent can fill

VARIABLES
    outcome,    \* what is known of each intent's one attempt
    exposure    \* contracts known to be filled

outcomeVars == <<outcome, exposure>>

Outcomes == {"absent", "ready", "outstanding", "review", "known", "settled"}

(* The account is frozen by what is neither known nor settled.             *)
Uncertain == {"outstanding", "review"}

Clear(i) == \A j \in Intents \ {i} : outcome[j] \notin Uncertain

OutcomeInit ==
    /\ outcome = [i \in Intents |-> "absent"]
    /\ exposure = [i \in Intents |-> 0]

Prepare(i) ==
    /\ outcome[i] = "absent"
    /\ Clear(i)
    /\ outcome' = [outcome EXCEPT ![i] = "ready"]
    /\ UNCHANGED exposure

Attempt(i) ==
    /\ outcome[i] = "ready"
    /\ Clear(i)
    /\ outcome' = [outcome EXCEPT ![i] = "outstanding"]
    /\ UNCHANGED exposure

(* Evidence of the order: never less than what was known before.           *)
Learn(i) ==
    /\ outcome[i] \in {"outstanding", "review", "known"}
    /\ \E o \in {"known", "settled"} :
         outcome' = [outcome EXCEPT ![i] = o]
    /\ \E n \in exposure[i]..Quantity :
         exposure' = [exposure EXCEPT ![i] = n]

(* The evidence is exhausted or contradicts itself.                        *)
Escalate(i) ==
    /\ outcome[i] \in {"outstanding", "known"}
    /\ outcome' = [outcome EXCEPT ![i] = "review"]
    /\ UNCHANGED exposure

(* Somebody vouches that nothing was ever sent.                            *)
Close(i) ==
    /\ outcome[i] = "review"
    /\ exposure[i] = 0
    /\ outcome' = [outcome EXCEPT ![i] = "settled"]
    /\ UNCHANGED exposure

OutcomeNext ==
    \E i \in Intents : Prepare(i) \/ Attempt(i) \/ Learn(i) \/ Escalate(i)
                         \/ Close(i)

OutcomeSpec == OutcomeInit /\ [][OutcomeNext]_outcomeVars

=============================================================================
