--------------------------- MODULE MCServicesProofs ---------------------------
(***************************************************************************)
(* The services side by side: a behaviour in which one of them moves is a  *)
(* behaviour of each of them, so what is proved of a service alone holds   *)
(* where they are together.                                                *)
(***************************************************************************)
EXTENDS MCServices, AccountProofs, AlertsProofs, ServicesProofs, PositionSummariesProofs, TLAPS

(* A step of all is a step of each, or leaves it as it is.                 *)
LEMMA EachMoves ==
    ASSUME [ServicesNext]_serviceVars
    PROVE  /\ [ConsentNext]_consentVars /\ [SetupNext]_setupVars
           /\ [ConfirmationNext]_confirmVars
           /\ [StopAuditNext]_auditVars /\ [ConnectionsNext]_connVars
           /\ [ConstructionNext]_constructionVars /\ [BookNext]_bookVars
           /\ [LearningNext]_learningVars /\ [DeploymentNext]_dayVars /\ UNCHANGED mover
<1>1. CASE ServicesNext
  BY <1>1, Zenon DEF ServicesNext
<1>2. CASE UNCHANGED serviceVars
  BY <1>2, Zenon DEF serviceVars
<1>. QED
  BY <1>1, <1>2

(* The services begin as each of them does.                                *)
LEMMA EachBegins ==
    ASSUME ServicesInit
    PROVE  /\ ConsentInit /\ SetupInit /\ ConfirmationInit /\ StopAuditInit
           /\ ConnectionsInit /\ ConstructionInit /\ BookInit /\ LearningInit /\ DaytimeInit
           /\ mover \in Services
BY Zenon DEF ServicesInit

(* The daytime monitors of a deployment, while the settings stay.          *)
DeploymentSpec == DaytimeInit /\ [][DeploymentNext]_dayVars

(* Whichever service moves, each of them behaves as it does alone.         *)
THEOREM EachBehaves ==
    ServicesSpec => /\ ConsentSpec /\ SetupSpec /\ ConfirmationSpec
                    /\ StopAuditSpec /\ ConnectionsSpec /\ ConstructionSpec /\ BookSpec
                    /\ LearningSpec /\ DeploymentSpec
<1>1. ServicesInit => /\ ConsentInit /\ SetupInit /\ ConfirmationInit /\ StopAuditInit
                      /\ ConnectionsInit /\ ConstructionInit /\ BookInit /\ LearningInit /\ DaytimeInit
  BY EachBegins
<1>2. [ServicesNext]_serviceVars =>
          /\ [ConsentNext]_consentVars /\ [SetupNext]_setupVars
          /\ [ConfirmationNext]_confirmVars
          /\ [StopAuditNext]_auditVars /\ [ConnectionsNext]_connVars
          /\ [ConstructionNext]_constructionVars /\ [BookNext]_bookVars
          /\ [LearningNext]_learningVars /\ [DeploymentNext]_dayVars
  BY EachMoves
<1>. QED
  BY <1>1, <1>2, PTL DEF ServicesSpec, ConsentSpec, SetupSpec, ConfirmationSpec,
     StopAuditSpec, ConnectionsSpec, ConstructionSpec, BookSpec, LearningSpec, DeploymentSpec

(* What a deployment does is what daytime monitors do.                     *)
LEMMA DeploymentKeeps ==
    ASSUME DayInv, [DeploymentNext]_dayVars
    PROVE  DayInv'
<1>1. [DaytimeNext]_dayVars
  BY Zenon DEF DeploymentNext, DaytimeNext
<1>. QED
  BY <1>1, DayStepInv

(* The service that moves is one of them.                                  *)
Moving == mover \in Services

(* Every variable of every service stays in its type, whichever moves.     *)
THEOREM ServicesTypeHolds == ServicesSpec => []ServicesTypeOK
<1>1. ServicesSpec => []Moving
  <2>1. ServicesInit => Moving
    BY EachBegins DEF Moving
  <2>2. Moving /\ [ServicesNext]_serviceVars => Moving'
    BY EachMoves DEF Moving
  <2>. QED
    BY <2>1, <2>2, PTL DEF ServicesSpec
<1>2. DeploymentSpec => []DayInv
  <2>1. DaytimeInit => DayInv
    BY DayBegin
  <2>2. DayInv /\ [DeploymentNext]_dayVars => DayInv'
    BY DeploymentKeeps
  <2>. QED
    BY <2>1, <2>2, PTL DEF DeploymentSpec
<1>3. DayInv => DaytimeTypeOK
  BY DEF DayInv, DayTypes
<1>4. /\ Moving
      /\ ConsentTypeOK /\ SetupTypeOK /\ ConfirmationTypeOK
      /\ StopAuditTypeOK /\ ConnectionsTypeOK /\ ConstructionTypeOK /\ BookTypeOK
      /\ LearningTypeOK /\ DaytimeTypeOK
      => ServicesTypeOK
  BY Zenon DEF ServicesTypeOK, Moving
<1>. QED
  BY <1>1, <1>2, <1>3, <1>4, EachBehaves, ConsentTypeHolds, SetupTypeHolds, ConfirmationTypeHolds,
     StopAuditTypeHolds, ConnectionsTypeHolds, ConstructionTypeHolds, BookTypeHolds,
     LearningTypeHolds, PTL

(* What the daytime monitors promise, a deployment promises: neither bound *)
(* rests on their fairness.                                                *)
LEMMA DeploymentHolds == DeploymentSpec => []TextsAnHourBounded /\ NoNeedlessRepeat
<1>. DEFINE Deserved(m) ==
              LET c == dayCheck[m] IN LET t == c.seen[c.pos]
              IN  Len(texts') > Len(texts) /\ dayCheck'[m].pc # c.pc /\ c.row.exists /\ mishaps = 0
                 /\ ~FirstInsertPending(m)
                  => \/ texted[c.pos].state = "NONE"
                     \/ texted[c.pos].side # t.side
                     \/ DayRank[t.state] > DayRank[texted[c.pos].state]
<1>1. DaytimeInit => DayInv
  BY DayBegin
<1>2. DayInv /\ [DeploymentNext]_dayVars => DayInv'
  BY DeploymentKeeps
<1>3. DayInv => TextsAnHourBounded
  BY DayInvBoundsTexts
<1>4. DayInv /\ [DeploymentNext]_dayVars => [\A m \in Monitors : Deserved(m)]_dayVars
  <2>. SUFFICES ASSUME DayInv, [DeploymentNext]_dayVars, NEW m \in Monitors PROVE Deserved(m)
    OBVIOUS
  <2>1. [DaytimeNext]_dayVars
    BY Zenon DEF DeploymentNext, DaytimeNext
  <2>. QED
    BY <2>1, RepeatStep DEF DayInv
<1>. QED
  BY <1>1, <1>2, <1>3, <1>4, PTL DEF DeploymentSpec, NoNeedlessRepeat

(* What the services promise one by one they keep while they run together. *)
THEOREM ServicesKeepPromises ==
    ServicesSpec => /\ AlertReachesConsenter /\ []OldCookiesRefused /\ PasswordChangesHold
                    /\ []HonestDeliveryStatus /\ []TokenPromisesKept
                    /\ []AuditSummarizesSamples /\ []DefaultIsTraded
                    /\ DisconnectHolds /\ []ValidatedRiskIsWorstCase /\ []BookShownWhole
                    /\ []LearnedOfItsNight /\ []TextsAnHourBounded /\ NoNeedlessRepeat
BY EachBehaves, DeploymentHolds, AlertReachesConsenterHolds, OldCookiesRefusedHolds,
   PasswordChangesHoldProved, HonestDeliveryStatusHolds, TokenPromisesKeptHolds,
   AuditSummarizesHolds, DefaultIsTradedHolds,
   DisconnectHoldsProved, ValidatedRiskHolds, BookShownHolds, LearnedOfItsNightHolds,
   PTL
=============================================================================
