----------------------- MODULE MCCertificationRecovery -----------------------
(***************************************************************************)
(* Small instances of CertificationRecovery, and the symmetry of its       *)
(* model values.                                                           *)
(***************************************************************************)
EXTENDS CertificationRecovery, TLC

Symmetry == Permutations(Intents) \cup Permutations(BrokerIds)
              \cup Permutations(Reviews) \cup Permutations(Processes)
=============================================================================
