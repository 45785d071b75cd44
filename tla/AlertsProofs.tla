---------------------------- MODULE AlertsProofs ----------------------------
(***************************************************************************)
(* Proofs about the overnight and the daytime monitor: the row remembers   *)
(* what was texted, no text is repeated without need, an hour brings a     *)
(* bounded number of texts, and every variable stays in its type.          *)
(***************************************************************************)
EXTENDS MCAlerts, FiniteSetTheorems, SequenceTheorems, TLAPS

-----------------------------------------------------------------------------
(* The overnight monitor.                                                  *)

NightRows == [exists : BOOLEAN, state : NightMarks, alerted : NightMarks]
NightChecks == [pc : {"idle", "read", "sending", "sent"},
                seen : Payloads \cup {"NONE"}, inserts : BOOLEAN]

LEMMA PreferencesTypes ==
    ASSUME PreferencesTypeOK,
           PreferencesChange \/ SnoozeRuns \/ UNCHANGED preferences
    PROVE  PreferencesTypeOK'
BY PreferencesAssumption
   DEF PreferencesTypeOK, PreferencesChange, SetMode, SetSnooze, SetConsent,
       SnoozeRuns, Snoozed, preferences

LEMMA PreferencesBegin == ASSUME PreferencesInit PROVE PreferencesTypeOK
BY PreferencesAssumption DEF PreferencesInit, PreferencesTypeOK

(* What is worth a text is a state.                                        *)
LEMMA StoredFits ==
    ASSUME nightRow \in NightRows, NEW risk \in Payloads
    PROVE  /\ Stored(nightRow, risk) \in NightRows /\ Stored(nightRow, risk).exists
           /\ Stored(nightRow, risk).alerted =
                IF risk = "OVER" THEN "NONE" ELSE nightRow.alerted
<1>1. CASE risk = "OVER"
  BY <1>1 DEF Stored, NightRows, NightMarks
<1>2. CASE risk = "UNAVAILABLE"
  BY <1>2 DEF Stored, NightRows
<1>3. CASE risk \notin {"OVER", "UNAVAILABLE"}
  <2>1. risk \in NightMarks
    BY <1>3, OvernightAssumption DEF Payloads, NightMarks
  <2>2. Stored(nightRow, risk) = [nightRow EXCEPT !.exists = TRUE, !.state = risk]
    BY <1>3 DEF Stored
  <2>. QED
    BY <1>3, <2>1, <2>2 DEF NightRows
<1>. QED
  BY <1>1, <1>2, <1>3

LEMMA OvernightTypesStep ==
    ASSUME OvernightTypeOK, NightLocked, [OvernightNext]_nightVars
    PROVE  OvernightTypeOK'
<1>t. /\ nightRow \in NightRows /\ nightCheck \in [NightMonitors -> NightChecks]
      /\ PreferencesTypeOK /\ night \in Payloads /\ nightTold \in NightMarks
      /\ nightMishaps \in 0..MaxNightMishaps
  BY DEF OvernightTypeOK, NightRows, NightChecks
<1>o. ASSUME /\ nightRow' \in NightRows /\ nightCheck' \in [NightMonitors -> NightChecks]
             /\ UNCHANGED <<preferences, night>> /\ nightTold' \in NightMarks
             /\ nightMishaps' \in 0..MaxNightMishaps
      PROVE  OvernightTypeOK'
  BY <1>t, <1>o, PreferencesTypes DEF OvernightTypeOK, NightRows, NightChecks
<1>i. NightIdle \in NightChecks
  BY DEF NightIdle, NightChecks
<1>1. ASSUME NEW m \in NightMonitors, NightStep(m) PROVE OvernightTypeOK'
  <2>0. nightCheck[m] \in NightChecks
    BY <1>t
  <2>1. CASE ReadRisk(m)
    <3>1. [NightIdle EXCEPT !.pc = "read", !.seen = night] \in NightChecks
      BY <1>t DEF NightIdle, NightChecks
    <3>. QED
      BY <1>t, <1>o, <2>1, <3>1 DEF ReadRisk
  <2>2. CASE StoreRisk(m)
    <3>1. nightCheck[m].seen \in Payloads
      BY <2>2 DEF NightLocked, StoreRisk
    <3>3. nightRow' \in NightRows
      BY <2>2, <3>1, <1>t, StoredFits DEF StoreRisk
    <3>4. nightTold' \in NightMarks
      BY <1>t, <2>2 DEF StoreRisk, NightMarks
    <3>. QED
      BY <1>t, <1>i, <1>o, <2>2, <3>3, <3>4 DEF StoreRisk
  <2>3. CASE DecideToText(m)
    <3>1. [nightCheck[m] EXCEPT !.pc = "sending", !.inserts = ~nightRow.exists] \in NightChecks
      BY <2>0 DEF NightChecks
    <3>. QED
      BY <1>t, <1>o, <2>3, <3>1 DEF DecideToText
  <2>4. CASE NightTextDelivered(m)
    <3>1. [nightCheck[m] EXCEPT !.pc = "sent"] \in NightChecks
      BY <2>0 DEF NightChecks
    <3>2. nightCheck[m].seen \in NightMarks
      BY <2>4 DEF NightLocked, OnItsWay, NightTextDelivered, NightMarks
    <3>. QED
      BY <1>t, <1>o, <2>4, <3>1, <3>2 DEF NightTextDelivered
  <2>5. CASE CommitRisk(m)
    <3>1. nightCheck[m].seen \in NightMarks
      BY <2>5 DEF NightLocked, OnItsWay, CommitRisk, NightMarks
    <3>2. nightRow' \in NightRows
      BY <2>5, <3>1 DEF CommitRisk, NightRows
    <3>. QED
      BY <1>t, <1>i, <1>o, <2>5, <3>2 DEF CommitRisk
  <2>6. CASE NightCheckFails(m)
    <3>1. nightMishaps' \in 0..MaxNightMishaps
      BY <1>t, <2>6, OvernightAssumption DEF NightCheckFails
    <3>. QED
      BY <1>t, <1>i, <1>o, <2>6, <3>1 DEF NightCheckFails
  <2>. QED
    BY <1>1, <2>1, <2>2, <2>3, <2>4, <2>5, <2>6 DEF NightStep
<1>2. CASE RiskChanges
  BY <1>2, <1>t, PreferencesTypes DEF RiskChanges, OvernightTypeOK
<1>3. CASE NightRecipientActs
  BY <1>3, <1>t, PreferencesTypes DEF NightRecipientActs, OvernightTypeOK
<1>4. CASE NightPasses
  BY <1>4, <1>t, PreferencesTypes DEF NightPasses, OvernightTypeOK
<1>5. CASE UNCHANGED nightVars
  BY <1>5, <1>t, PreferencesTypes DEF nightVars, OvernightTypeOK
<1>. QED
  BY <1>1, <1>2, <1>3, <1>4, <1>5 DEF OvernightNext

(* What every step makes of the checks, for the locks.                     *)
LEMMA NightLockedStep ==
    ASSUME OvernightTypeOK, NightLocked, [OvernightNext]_nightVars
    PROVE  NightLocked'
<1>t. /\ nightRow \in NightRows /\ nightCheck \in [NightMonitors -> NightChecks]
      /\ night \in Payloads
  BY DEF OvernightTypeOK, NightRows, NightChecks
<1>1. ASSUME NEW m \in NightMonitors, NightStep(m) PROVE NightLocked'
  <2>1. \A o \in NightMonitors \ {m} : nightCheck'[o] = nightCheck[o]
    BY <1>t, <1>1 DEF NightStep, ReadRisk, StoreRisk, DecideToText, NightTextDelivered,
                      CommitRisk, NightCheckFails
  <2>2. nightRow.exists => nightRow'.exists
    <3>1. CASE StoreRisk(m)
      BY <1>t, <3>1, StoredFits DEF StoreRisk, NightLocked
    <3>. QED
      BY <1>1, <3>1 DEF NightStep, ReadRisk, DecideToText, NightTextDelivered,
                        CommitRisk, NightCheckFails
  <2>3. CASE nightCheck'[m] = NightIdle
    BY <2>1, <2>2, <2>3 DEF NightLocked, NightIdle, OnItsWay
  <2>4. CASE ReadRisk(m)
    <3>1. nightCheck'[m] = [NightIdle EXCEPT !.pc = "read", !.seen = night]
      BY <1>t, <2>4 DEF ReadRisk
    <3>2. nightCheck'[m].pc = "read" /\ nightCheck'[m].seen \in Payloads
      BY <1>t, <3>1 DEF NightIdle
    <3>. QED
      BY <2>1, <2>2, <3>2 DEF NightLocked, OnItsWay
  <2>5. CASE DecideToText(m)
    <3>1. nightCheck'[m] = [nightCheck[m] EXCEPT !.pc = "sending", !.inserts = ~nightRow.exists]
      BY <1>t, <2>5 DEF DecideToText
    <3>2. /\ nightCheck'[m].pc = "sending" /\ nightCheck'[m].seen = nightCheck[m].seen
          /\ nightCheck'[m].inserts <=> ~nightRow.exists
      <4>1. nightCheck[m] \in NightChecks
        BY <1>t
      <4>. QED
        BY <3>1, <4>1 DEF NightChecks
    <3>3. /\ nightCheck[m].seen \in NightStates /\ NightRowFree /\ nightRow' = nightRow
      BY <2>5 DEF DecideToText, SendsNow, WorthAText
    <3>. QED
      BY <2>1, <3>2, <3>3 DEF NightLocked, OnItsWay, NightRowFree
  <2>6. CASE NightTextDelivered(m)
    <3>1. nightCheck'[m] = [nightCheck[m] EXCEPT !.pc = "sent"] /\ nightRow' = nightRow
      BY <1>t, <2>6 DEF NightTextDelivered
    <3>2. /\ nightCheck'[m].pc = "sent" /\ nightCheck'[m].seen = nightCheck[m].seen
          /\ nightCheck'[m].inserts = nightCheck[m].inserts /\ nightCheck[m].pc = "sending"
      BY <1>t, <2>6, <3>1 DEF NightChecks, NightTextDelivered
    <3>. QED
      BY <2>1, <3>1, <3>2 DEF NightLocked, OnItsWay
  <2>. QED
    BY <1>t, <1>1, <2>3, <2>4, <2>5, <2>6
       DEF NightStep, StoreRisk, CommitRisk, NightCheckFails
<1>2. CASE UNCHANGED <<nightRow, nightCheck>>
  BY <1>2 DEF NightLocked, OnItsWay
<1>. QED
  BY <1>1, <1>2 DEF OvernightNext, RiskChanges, NightRecipientActs, NightPasses, nightVars

LEMMA NightTellStep ==
    ASSUME OvernightTypeOK, NightLocked, NightTellInv, [OvernightNext]_nightVars
    PROVE  NightTellInv'
<1>t. /\ nightRow \in NightRows /\ nightCheck \in [NightMonitors -> NightChecks]
      /\ night \in Payloads /\ nightMishaps \in 0..MaxNightMishaps
      /\ nightMishaps \in Nat
  BY OvernightAssumption DEF OvernightTypeOK, NightRows, NightChecks
<1>1. ASSUME NEW m \in NightMonitors, NightStep(m) PROVE NightTellInv'
  <2>. SUFFICES ASSUME nightMishaps' = 0,
                       \A o \in NightMonitors : ~NightInsertCollides(o)'
                PROVE  /\ (\A o \in NightMonitors : ~NightSent(o)') => nightRow'.alerted = nightTold'
                       /\ \A o \in NightMonitors :
                            NightSent(o)' /\ (\A q \in NightMonitors : NightSent(q)' => q = o)
                              => nightTold' = nightCheck'[o].seen
    BY DEF NightTellInv
  <2>1. \A o \in NightMonitors \ {m} : nightCheck'[o] = nightCheck[o]
    BY <1>t, <1>1 DEF NightStep, ReadRisk, StoreRisk, DecideToText, NightTextDelivered,
                      CommitRisk, NightCheckFails
  <2>2. nightRow.exists => nightRow'.exists
    <3>1. CASE StoreRisk(m)
      BY <1>t, <3>1, StoredFits DEF StoreRisk, NightLocked
    <3>. QED
      BY <1>1, <3>1 DEF NightStep, ReadRisk, DecideToText, NightTextDelivered,
                        CommitRisk, NightCheckFails
  <2>3. nightMishaps = 0
    BY <1>t, <1>1 DEF NightStep, ReadRisk, StoreRisk, DecideToText, NightTextDelivered,
                      CommitRisk, NightCheckFails
  <2>4. \A o \in NightMonitors \ {m} : ~NightInsertCollides(o) /\ NightSent(o)' = NightSent(o)
    BY <2>1, <2>2 DEF NightInsertCollides, NightSent
  <2>5. CASE StoreRisk(m)
    <3>1. /\ nightCheck[m].pc = "read" /\ nightCheck'[m].pc = "idle" /\ NightRowFree
          /\ nightRow' = Stored(nightRow, nightCheck[m].seen)
          /\ nightTold' = IF nightCheck[m].seen = "OVER" THEN "NONE" ELSE nightTold
          /\ nightCheck[m].seen \in Payloads
      BY <1>t, <2>5 DEF StoreRisk, NightIdle, NightLocked
    <3>2. nightRow'.exists
      BY <1>t, <3>1, StoredFits
    <3>3. \A o \in NightMonitors : ~NightSent(o) /\ ~NightSent(o)'
      BY <2>1, <3>1, <3>2 DEF NightSent, NightRowFree, NightInsertCollides
    <3>4. nightRow.alerted = nightTold
      BY <2>3, <3>3 DEF NightTellInv, NightInsertCollides, NightSent
    <3>. QED
      BY <1>t, <3>1, <3>3, <3>4, StoredFits
  <2>6. CASE NightTextDelivered(m)
    <3>1. nightTold' = nightCheck[m].seen /\ nightCheck'[m].seen = nightCheck[m].seen
          /\ nightCheck'[m].pc = "sent"
      BY <1>t, <2>6 DEF NightTextDelivered, NightChecks
    <3>. QED
      BY <3>1 DEF NightSent
  <2>7. CASE CommitRisk(m)
    <3>1. /\ nightCheck[m].pc = "sent"
          /\ nightCheck[m].inserts => ~nightRow.exists
          /\ nightRow'.exists /\ nightRow'.alerted = nightCheck[m].seen
          /\ nightTold' = nightTold /\ nightCheck'[m].pc = "idle"
      BY <1>t, <2>7 DEF CommitRisk, NightIdle
    <3>2. ASSUME NEW o \in NightMonitors \ {m}, NightSent(o) PROVE FALSE
      <4>1. nightCheck[o].pc = "sent" /\ nightCheck'[o] = nightCheck[o]
        BY <2>1, <3>2 DEF NightSent
      <4>2. ~nightCheck[o].inserts
        BY <3>1, <4>1 DEF NightInsertCollides
      <4>3. nightRow.exists
        BY <4>1, <4>2 DEF NightLocked, OnItsWay
      <4>. QED
        BY <3>1, <4>1, <4>2, <4>3 DEF NightLocked, OnItsWay
    <3>3. nightTold = nightCheck[m].seen
      BY <2>3, <2>4, <3>1, <3>2 DEF NightTellInv, NightInsertCollides, NightSent
    <3>. QED
      BY <2>1, <3>1, <3>2, <3>3 DEF NightSent
  <2>8. CASE NightCheckFails(m)
    <3>1. nightCheck[m].pc # "sent" /\ nightRow' = nightRow /\ nightTold' = nightTold
          /\ nightCheck'[m].pc = "idle"
      BY <1>t, <2>3, <2>8, OvernightAssumption DEF NightCheckFails, NightIdle
    <3>. QED
      BY <2>1, <2>3, <2>4, <3>1 DEF NightTellInv, NightInsertCollides, NightSent
  <2>9. CASE ReadRisk(m) \/ DecideToText(m)
    <3>0. nightCheck[m] \in NightChecks
      BY <1>t
    <3>r. nightCheck[m].pc # "sent" /\ nightRow' = nightRow /\ nightTold' = nightTold
      BY <2>9 DEF ReadRisk, DecideToText
    <3>s. nightCheck'[m].pc # "sent"
      <4>1. CASE ReadRisk(m)
        BY <1>t, <4>1 DEF ReadRisk, NightIdle
      <4>2. CASE DecideToText(m)
        <5>1. nightCheck'[m] = [nightCheck[m] EXCEPT !.pc = "sending", !.inserts = ~nightRow.exists]
          BY <1>t, <4>2 DEF DecideToText
        <5>. QED
          BY <3>0, <5>1 DEF NightChecks
      <4>. QED
        BY <2>9, <4>1, <4>2
    <3>1. nightCheck[m].pc # "sent" /\ nightRow' = nightRow /\ nightTold' = nightTold
          /\ nightCheck'[m].pc # "sent"
      BY <3>r, <3>s
    <3>. QED
      BY <2>1, <2>3, <2>4, <3>1 DEF NightTellInv, NightInsertCollides, NightSent
  <2>. QED
    BY <1>1, <2>5, <2>6, <2>7, <2>8, <2>9 DEF NightStep
<1>2. CASE UNCHANGED <<nightRow, nightCheck, nightTold, nightMishaps>>
  BY <1>2 DEF NightTellInv, NightInsertCollides, NightSent
<1>. QED
  BY <1>1, <1>2 DEF OvernightNext, RiskChanges, NightRecipientActs, NightPasses, nightVars

NightInv == OvernightTypeOK /\ NightLocked /\ NightTellInv

LEMMA NightBegin ==
    ASSUME OvernightInit PROVE NightInv
<1>1. OvernightTypeOK
  BY PreferencesBegin, OvernightAssumption
     DEF OvernightInit, OvernightTypeOK, NoNightRow, NightIdle, NightMarks
<1>2. NightLocked /\ NightTellInv
  BY DEF OvernightInit, NightLocked, NightTellInv, NightIdle, NoNightRow,
         OnItsWay, NightSent
<1>. QED
  BY <1>1, <1>2 DEF NightInv

LEMMA NightStepInv ==
    ASSUME NightInv, [OvernightNext]_nightVars PROVE NightInv'
BY OvernightTypesStep, NightLockedStep, NightTellStep DEF NightInv

(* RowRemembersText: between two polls, and as long as nothing failed      *)
(* after a message had left, the row knows what the recipient read last.   *)
THEOREM RowRemembersHolds == OvernightSpec => []RowRemembersText
<1>1. NightInv => RowRemembersText
  BY DEF NightInv, NightTellInv, RowRemembersText, NightInsertCollides, NightSent
<1>2. OvernightInit => NightInv
  BY NightBegin
<1>3. NightInv /\ [OvernightNext]_nightVars => NightInv'
  BY NightStepInv
<1>. QED
  BY <1>1, <1>2, <1>3, PTL DEF OvernightSpec

-----------------------------------------------------------------------------
(* The daytime monitor.                                                    *)

DayTexts == [age : 0..AlertWindow]
DayDeliveries == [age : 0..AlertWindow, state : DayStates]
DayMemories == [state : DayMarks, side : {"PUT", "CALL", "NONE"}]

LEMMA ThreatFields ==
    ASSUME NEW t \in Threats
    PROVE  /\ t = [state |-> t.state, side |-> t.side]
           /\ t.state \in DayStates /\ t.side \in {"PUT", "CALL"}
BY DaytimeAssumption

(* Aging drops what is oldest and keeps the rest in its order.             *)
LEMMA AgedKeepsNewest ==
    ASSUME NEW S, NEW s \in Seq(S), OldestFirst(s),
           \A r \in S : r.age \in 0..AlertWindow
    PROVE  \E gone \in 0..Len(s) :
              /\ Len(Aged(s)) = Len(s) - gone
              /\ Aged(s) \in Seq({[r EXCEPT !.age = @ + 1] : r \in {q \in S : q.age < AlertWindow}})
              /\ \A i \in 1..(Len(s) - gone) :
                    Aged(s)[i] = [s[i + gone] EXCEPT !.age = @ + 1]
              /\ \A i \in 1..Len(s) : i > gone <=> s[i].age < AlertWindow
<1>. DEFINE n == Len(s)
            old == Outdated(s)
            gone == Cardinality(old)
            T == {[r EXCEPT !.age = @ + 1] : r \in {q \in S : q.age < AlertWindow}}
<1>1. n \in Nat /\ DOMAIN s = 1..n /\ \A i \in 1..n : s[i] \in S /\ s[i].age \in 0..AlertWindow
  BY LenProperties, ElementOfSeq
<1>2. old = {i \in 1..n : s[i].age >= AlertWindow}
  BY <1>1 DEF Outdated
<1>3. IsFiniteSet(old) /\ gone \in Nat /\ gone <= n
  <2>1. IsFiniteSet(1..n) /\ Cardinality(1..n) = n
    <3>. HIDE DEF n
    <3>1. 1 \in Int /\ n \in Int
      BY <1>1
    <3>2. IsFiniteSet(1..n) /\ Cardinality(1..n) = IF 1 > n THEN 0 ELSE n - 1 + 1
      BY <3>1, FS_Interval
    <3>. QED
      BY <1>1, <3>2
  <2>2. old \in SUBSET (1..n)
    BY <1>2
  <2>3. IsFiniteSet(old) /\ gone <= n
    BY <2>1, <2>2, FS_Subset
  <2>. QED
    BY <2>3, FS_CardinalityType
<1>4. \A i \in old : i <= gone
  <2>. SUFFICES ASSUME NEW i \in old PROVE i <= gone
    OBVIOUS
  <2>1. i \in 1..n /\ s[i].age >= AlertWindow
    BY <1>2
  <2>2. ASSUME NEW j \in 1..i PROVE j \in old
    <3>1. j \in 1..n /\ s[i].age <= s[j].age
      BY <1>1, <2>1, <2>2 DEF OldestFirst
    <3>. QED
      BY <1>1, <1>2, <2>1, <3>1, DaytimeAssumption
  <2>3. 1..i \in SUBSET old
    BY <2>2
  <2>4. i \in Int /\ i >= 1
    BY <1>1, <2>1
  <2>5. Cardinality(1..i) = i
    BY <2>4, FS_Interval
  <2>6. Cardinality(1..i) <= gone
    BY <1>3, <2>3, FS_Subset
  <2>. QED
    BY <2>5, <2>6
<1>5. old = 1..gone
  <2>1. old \subseteq 1..gone
    BY <1>1, <1>2, <1>3, <1>4
  <2>2. Cardinality(1..gone) = gone /\ IsFiniteSet(1..gone)
    BY <1>3, FS_Interval
  <2>. QED
    BY <2>1, <2>2, FS_Subset
<1>6. \A i \in 1..n : i > gone <=> s[i].age < AlertWindow
  <2>1. \A i \in 1..n : i \in old <=> i <= gone
    BY <1>1, <1>3, <1>5
  <2>. QED
    BY <1>1, <1>2, <1>3, <2>1, DaytimeAssumption
<1>7. \A i \in 1..n : Older(s)[i] = [s[i] EXCEPT !.age = @ + 1]
  BY <1>1 DEF Older
<1>. HIDE DEF old
<1>8. \A i \in (gone + 1)..n : Older(s)[i] \in T
  <2>. SUFFICES ASSUME NEW i \in (gone + 1)..n PROVE Older(s)[i] \in T
    OBVIOUS
  <2>1. i \in 1..n /\ i > gone
    BY <1>1, <1>3
  <2>2. s[i] \in {q \in S : q.age < AlertWindow}
    BY <1>1, <1>6, <2>1
  <2>. QED
    BY <1>7, <2>1, <2>2
<1>9. /\ Aged(s) = SubSeq(Older(s), gone + 1, n)
  BY DEF Aged, old
<1>. HIDE DEF gone, T
<1>10. /\ Aged(s) \in Seq(T) /\ Len(Aged(s)) = n - gone
       /\ \A i \in 1..(n - gone) : Aged(s)[i] = Older(s)[i + gone]
  <2>1. gone + 1 \in Int /\ n \in Int
    BY <1>1, <1>3
  <2>2. /\ SubSeq(Older(s), gone + 1, n) \in Seq(T)
        /\ Len(SubSeq(Older(s), gone + 1, n)) = IF gone + 1 <= n THEN n - (gone + 1) + 1 ELSE 0
        /\ \A i \in 1 .. n - (gone + 1) + 1 :
              SubSeq(Older(s), gone + 1, n)[i] = Older(s)[gone + 1 + i - 1]
    BY <1>8, <2>1, SubSeqProperties
  <2>3. n - (gone + 1) + 1 = n - gone /\ \A i \in 1..(n - gone) : gone + 1 + i - 1 = i + gone
    BY <1>1, <1>3
  <2>4. Len(Aged(s)) = n - gone
    <3>. DEFINE length == Len(Aged(s))
    <3>1. length = IF gone + 1 <= n THEN n - (gone + 1) + 1 ELSE 0
      BY <1>9, <2>2
    <3>. HIDE DEF length, n
    <3>2. length = n - gone
      BY <1>1, <1>3, <3>1
    <3>. QED
      BY <3>2 DEF length
  <2>5. \A i \in 1..(n - gone) : Aged(s)[i] = Older(s)[i + gone]
    BY <1>9, <2>2, <2>3
  <2>. QED
    BY <1>9, <2>2, <2>4, <2>5
<1>11. \A i \in 1..(n - gone) : Aged(s)[i] = [s[i + gone] EXCEPT !.age = @ + 1]
  <2>1. \A i \in 1..(n - gone) : i + gone \in 1..n
    BY <1>1, <1>3
  <2>. QED
    BY <1>7, <1>10, <2>1
<1>12. gone \in 0..Len(s)
  BY <1>1, <1>3
<1>. QED
  BY <1>6, <1>10, <1>11, <1>12 DEF T

DayTypes == DaytimeTypeOK /\ DayHistories

LEMMA DayFields ==
    ASSUME DayTypes
    PROVE  /\ PreferencesTypeOK /\ threat \in [Positions -> Threats]
           /\ dayRow \in [Positions -> Rows] /\ dayCheck \in [Monitors -> DayChecks]
           /\ deliveries \in Seq(DayDeliveries) /\ texts \in Seq(DayTexts)
           /\ texted \in [Positions -> DayMemories]
           /\ mishaps \in 0..MaxMishaps /\ mishaps \in Nat
           /\ \A m \in Monitors : dayCheck[m] \in DayChecks
           /\ \A m \in Monitors : dayCheck[m].pc # "idle" => dayCheck[m].seen \in [Positions -> Threats]
BY DaytimeAssumption
   DEF DayTypes, DaytimeTypeOK, DayHistories, DayDeliveries, DayTexts, DayMemories

LEMMA DayTypesFrom ==
    ASSUME PreferencesTypeOK', threat' \in [Positions -> Threats],
           dayRow' \in [Positions -> Rows], dayCheck' \in [Monitors -> DayChecks],
           deliveries' \in Seq(DayDeliveries), texts' \in Seq(DayTexts),
           texted' \in [Positions -> DayMemories], mishaps' \in 0..MaxMishaps,
           \A m \in Monitors : dayCheck'[m].pc # "idle" => dayCheck'[m].seen \in [Positions -> Threats]
    PROVE  DayTypes'
<1>1. \A i \in DOMAIN deliveries' : deliveries'[i].age \in 0..AlertWindow
  <2>1. \A i \in DOMAIN deliveries' : deliveries'[i] \in DayDeliveries
    BY LenProperties, ElementOfSeq
  <2>. QED
    BY <2>1 DEF DayDeliveries
<1>2. \A m \in Monitors : dayCheck'[m].pc \in {"idle", "checking", "sending", "sent", "recorded"}
  BY DEF DayChecks
<1>. QED
  BY <1>1, <1>2 DEF DayTypes, DaytimeTypeOK, DayHistories, DayDeliveries, DayTexts, DayMemories

LEMMA ReobservedFits ==
    ASSUME NEW t \in Threats, NEW alerted \in DayMarks, NEW row
    PROVE  /\ Reobserved(row, t, alerted) \in Rows
           /\ Reobserved(row, t, alerted).exists
           /\ Reobserved(row, t, alerted).state = t.state
           /\ Reobserved(row, t, alerted).state # "NONE"
           /\ Reobserved(row, t, alerted).side = t.side
           /\ Reobserved(row, t, alerted).side # "NONE"
           /\ Reobserved(row, t, alerted).alerted = alerted
BY ThreatFields DEF Reobserved, Rows, DayMarks, DayStates

(* What each step of a check leaves in that check.                         *)
LEMMA CheckAfter ==
    ASSUME DayTypes, DayLocked, NEW m \in Monitors, CheckStep(m)
    PROVE  /\ \A o \in Monitors \ {m} : dayCheck'[o] = dayCheck[o]
           /\ dayCheck' \in [Monitors -> DayChecks]
           /\ dayCheck'[m].pc # "idle" => dayCheck'[m].seen \in [Positions -> Threats]
<1>t. /\ dayCheck \in [Monitors -> DayChecks] /\ dayCheck[m] \in DayChecks
      /\ threat \in [Positions -> Threats]
      /\ dayRow \in [Positions -> Rows]
      /\ dayCheck[m].pc # "idle" => dayCheck[m].seen \in [Positions -> Threats]
  BY DayFields
<1>r. NoRow \in Rows
  BY DEF NoRow, Rows, DayMarks
<1>i. Idle \in DayChecks /\ Idle.pc = "idle"
  BY <1>r DEF Idle, DayChecks
<1>s. /\ dayCheck[m].pc \in {"idle", "checking", "sending", "sent", "recorded"}
      /\ dayCheck[m].left \subseteq Positions /\ dayCheck[m].allowed \subseteq DayStates
      /\ dayCheck[m].seen \in [Positions -> Threats \cup {Untold}]
      /\ dayCheck[m].pos \in Positions \cup {"NONE"} /\ dayCheck[m].row \in Rows
  BY <1>t DEF DayChecks
<1>c. ASSUME NEW d \in DayChecks, dayCheck' = [dayCheck EXCEPT ![m] = d],
             d.pc # "idle" => d.seen \in [Positions -> Threats]
      PROVE  /\ \A o \in Monitors \ {m} : dayCheck'[o] = dayCheck[o]
             /\ dayCheck' \in [Monitors -> DayChecks]
             /\ dayCheck'[m].pc # "idle" => dayCheck'[m].seen \in [Positions -> Threats]
  BY <1>t, <1>c
<1>1. CASE StartCheck(m)
  <2>. DEFINE d == [Idle EXCEPT !.pc = "checking", !.left = Positions,
                                !.allowed = AllowedStates(alertMode), !.seen = threat]
  <2>1. dayCheck' = [dayCheck EXCEPT ![m] = d]
    BY <1>1 DEF StartCheck
  <2>2. AllowedStates(alertMode) \subseteq DayStates
    BY DEF AllowedStates, DayStates, AlertStates
  <2>3. d.seen = threat
    BY <1>i DEF DayChecks
  <2>4. threat \in [Positions -> Threats \cup {Untold}]
    BY <1>t
  <2>5. d \in DayChecks
    BY <1>i, <2>2, <2>4, ZenonT(30) DEF DayChecks
  <2>. QED
    BY <1>c, <1>t, <2>1, <2>3, <2>5
<1>2. CASE EndCheck(m) \/ CheckFails(m)
  BY <1>2, <1>c, <1>i DEF EndCheck, CheckFails
<1>3. CASE TextDelivered(m)
  <2>. DEFINE d == [dayCheck[m] EXCEPT !.pc = "sent"]
  <2>1. dayCheck' = [dayCheck EXCEPT ![m] = d] /\ dayCheck[m].pc = "sending"
    BY <1>3 DEF TextDelivered
  <2>2. d \in DayChecks /\ d.seen = dayCheck[m].seen
    BY <1>t DEF DayChecks
  <2>. QED
    BY <1>c, <1>t, <2>1, <2>2
<1>4. CASE RecordDelivery(m)
  <2>. DEFINE d == [dayCheck[m] EXCEPT !.pc = "recorded"]
  <2>1. dayCheck' = [dayCheck EXCEPT ![m] = d] /\ dayCheck[m].pc = "sent"
    BY <1>4 DEF RecordDelivery
  <2>2. d \in DayChecks /\ d.seen = dayCheck[m].seen
    BY <1>t DEF DayChecks
  <2>. QED
    BY <1>c, <1>t, <2>1, <2>2
<1>5. CASE CommitRow(m)
  <2>. DEFINE d == [dayCheck[m] EXCEPT !.pc = "checking", !.left = @ \ {dayCheck[m].pos},
                                       !.pos = "NONE", !.row = NoRow]
  <2>p. dayCheck[m].pc = "recorded"
    BY <1>5 DEF CommitRow
  <2>1. dayCheck' = [dayCheck EXCEPT ![m] = d]
    BY <1>5 DEF CommitRow
  <2>2. d.seen = dayCheck[m].seen
    BY <1>t DEF DayChecks
  <2>3. d \in DayChecks
    BY <1>t, <1>r, <1>s, ZenonT(30) DEF DayChecks
  <2>. QED
    BY <1>c, <1>t, <2>p, <2>1, <2>2, <2>3
<1>6. ASSUME NEW p \in Positions, StoreOnly(m, p)
      PROVE  /\ \A o \in Monitors \ {m} : dayCheck'[o] = dayCheck[o]
             /\ dayCheck' \in [Monitors -> DayChecks]
             /\ dayCheck'[m].pc # "idle" => dayCheck'[m].seen \in [Positions -> Threats]
  <2>. DEFINE d == [dayCheck[m] EXCEPT !.left = @ \ {p}]
  <2>1. dayCheck' = [dayCheck EXCEPT ![m] = d] /\ dayCheck[m].pc = "checking"
    BY <1>6 DEF StoreOnly
  <2>2. d.seen = dayCheck[m].seen /\ d \in DayChecks
    BY <1>t DEF DayChecks
  <2>. QED
    BY <1>c, <1>t, <2>1, <2>2
<1>7. ASSUME NEW p \in Positions, DecideToSend(m, p)
      PROVE  /\ \A o \in Monitors \ {m} : dayCheck'[o] = dayCheck[o]
             /\ dayCheck' \in [Monitors -> DayChecks]
             /\ dayCheck'[m].pc # "idle" => dayCheck'[m].seen \in [Positions -> Threats]
  <2>. DEFINE d == [dayCheck[m] EXCEPT !.pc = "sending", !.pos = p, !.row = dayRow[p]]
  <2>1. dayCheck' = [dayCheck EXCEPT ![m] = d] /\ dayCheck[m].pc = "checking"
    BY <1>7 DEF DecideToSend
  <2>2. d.seen = dayCheck[m].seen /\ dayRow[p] \in Rows
    BY <1>t DEF DayChecks
  <2>3. d \in DayChecks
    BY <1>t, <1>s, <2>2, ZenonT(30) DEF DayChecks
  <2>. QED
    BY <1>c, <1>t, <2>1, <2>2, <2>3
<1>. QED
  BY <1>1, <1>2, <1>3, <1>4, <1>5, <1>6, <1>7 DEF CheckStep

(* The rows and the memory of the recipient keep their types.              *)
LEMMA DayTypesStep ==
    ASSUME DayTypes, DayLocked, [DaytimeNext]_dayVars,
           OldestFirst(deliveries), OldestFirst(texts)
    PROVE  DayTypes'
<1>t. /\ PreferencesTypeOK /\ threat \in [Positions -> Threats]
      /\ dayRow \in [Positions -> Rows] /\ dayCheck \in [Monitors -> DayChecks]
      /\ deliveries \in Seq(DayDeliveries) /\ texts \in Seq(DayTexts)
      /\ texted \in [Positions -> DayMemories]
      /\ mishaps \in 0..MaxMishaps /\ mishaps \in Nat
      /\ \A m \in Monitors : dayCheck[m].pc # "idle" => dayCheck[m].seen \in [Positions -> Threats]
  BY DayFields
<1>1. ASSUME NEW m \in Monitors, CheckStep(m) PROVE DayTypes'
  <2>. DEFINE Rest == /\ dayRow' \in [Positions -> Rows]
                      /\ deliveries' \in Seq(DayDeliveries) /\ texts' \in Seq(DayTexts)
                      /\ texted' \in [Positions -> DayMemories]
                      /\ mishaps' \in 0..MaxMishaps
  <2>1. UNCHANGED <<threat, preferences>>
    BY <1>1 DEF CheckStep, StartCheck, EndCheck, CheckFails, TextDelivered, RecordDelivery,
                CommitRow, StoreOnly, DecideToSend
  <2>2. ASSUME UNCHANGED <<dayRow, deliveries, texts, texted, mishaps>> PROVE Rest
    BY <1>t, <2>2
  <2>3. ASSUME CheckFails(m) PROVE Rest
    BY <1>t, <2>3, DaytimeAssumption DEF CheckFails
  <2>4. ASSUME TextDelivered(m) PROVE Rest
    <3>1. dayCheck[m].pos \in Positions /\ dayCheck[m].seen \in [Positions -> Threats]
      BY <1>t, <2>4 DEF TextDelivered, DayLocked, Underway
    <3>2. dayCheck[m].seen[dayCheck[m].pos] \in DayMemories
      BY <3>1, DaytimeAssumption DEF DayMemories, DayMarks
    <3>3. [age |-> 0] \in DayTexts
      BY DaytimeAssumption DEF DayTexts
    <3>4. texts' \in Seq(DayTexts)
      BY <1>t, <2>4, <3>3 DEF TextDelivered
    <3>5. texted' \in [Positions -> DayMemories]
      BY <1>t, <2>4, <3>1, <3>2 DEF TextDelivered
    <3>. QED
      BY <1>t, <2>4, <3>4, <3>5 DEF TextDelivered
  <2>5. ASSUME RecordDelivery(m) PROVE Rest
    <3>1. dayCheck[m].pos \in Positions /\ dayCheck[m].seen \in [Positions -> Threats]
      BY <1>t, <2>5 DEF RecordDelivery, DayLocked, Underway
    <3>2. [age |-> 0, state |-> dayCheck[m].seen[dayCheck[m].pos].state] \in DayDeliveries
      BY <3>1, ThreatFields, DaytimeAssumption DEF DayDeliveries
    <3>3. deliveries' \in Seq(DayDeliveries)
      BY <1>t, <2>5, <3>2 DEF RecordDelivery
    <3>. QED
      BY <1>t, <2>5, <3>3 DEF RecordDelivery
  <2>6. ASSUME CommitRow(m) PROVE Rest
    <3>1. dayCheck[m].pos \in Positions /\ dayCheck[m].seen \in [Positions -> Threats]
      BY <1>t, <2>6 DEF CommitRow, DayLocked, Underway
    <3>. DEFINE t == dayCheck[m].seen[dayCheck[m].pos]
    <3>2. t \in Threats /\ t.state \in DayMarks
      BY <3>1, ThreatFields DEF DayMarks
    <3>3. Reobserved(dayRow[dayCheck[m].pos], t, t.state) \in Rows
      BY <3>2, ReobservedFits
    <3>4. dayRow' \in [Positions -> Rows]
      BY <1>t, <2>6, <3>3 DEF CommitRow
    <3>. QED
      BY <1>t, <2>6, <3>4 DEF CommitRow
  <2>7. ASSUME NEW p \in Positions, StoreOnly(m, p) PROVE Rest
    <3>. DEFINE t == dayCheck[m].seen[p]
                a == IF t.state = "GREEN" THEN "NONE" ELSE dayRow[p].alerted
    <3>1. t \in Threats
      BY <1>t, <2>7 DEF StoreOnly
    <3>2. a \in DayMarks
      BY <1>t DEF DayMarks, Rows
    <3>3. dayRow' = [dayRow EXCEPT ![p] = Reobserved(dayRow[p], t, a)]
      BY <2>7 DEF StoreOnly
    <3>. HIDE DEF a
    <3>4. dayRow' \in [Positions -> Rows]
      BY <1>t, <3>1, <3>2, <3>3, ReobservedFits
    <3>5. Episode(texted[p], t) \in DayMemories
      BY <1>t DEF Episode, Untold, DayMemories, DayMarks
    <3>6. texted' \in [Positions -> DayMemories]
      BY <1>t, <2>7, <3>5 DEF StoreOnly
    <3>. QED
      BY <1>t, <2>7, <3>4, <3>6 DEF StoreOnly
  <2>8. Rest
    BY <1>1, <2>2, <2>3, <2>4, <2>5, <2>6, <2>7
       DEF CheckStep, StartCheck, EndCheck, DecideToSend
  <2>9. \A o \in Monitors : dayCheck'[o].pc # "idle" => dayCheck'[o].seen \in [Positions -> Threats]
    BY <1>t, <1>1, CheckAfter
  <2>10. PreferencesTypeOK' /\ threat' \in [Positions -> Threats]
    BY <1>t, <2>1, PreferencesTypes
  <2>11. dayCheck' \in [Monitors -> DayChecks]
    BY <1>1, CheckAfter
  <2>. QED
    BY <2>8, <2>9, <2>10, <2>11, DayTypesFrom
<1>2. ASSUME NEW p \in Positions, MarketTurns(p) PROVE DayTypes'
  <2>1. threat' \in [Positions -> Threats]
    BY <1>t, <1>2 DEF MarketTurns
  <2>. QED
    BY <1>t, <1>2, <2>1, PreferencesTypes, DayTypesFrom DEF MarketTurns
<1>3. CASE RecipientActs
  BY <1>t, <1>3, PreferencesTypes, DayTypesFrom DEF RecipientActs
<1>4. CASE MinutePasses
  <2>1. /\ Aged(deliveries) \in
             Seq({[r EXCEPT !.age = @ + 1] : r \in {q \in DayDeliveries : q.age < AlertWindow}})
        /\ Aged(texts) \in
             Seq({[r EXCEPT !.age = @ + 1] : r \in {q \in DayTexts : q.age < AlertWindow}})
    <3>1. /\ \A r \in DayDeliveries : r.age \in 0..AlertWindow
          /\ \A r \in DayTexts : r.age \in 0..AlertWindow
      BY DEF DayDeliveries, DayTexts
    <3>. QED
      BY <1>t, <3>1, AgedKeepsNewest
  <2>2. {[r EXCEPT !.age = @ + 1] : r \in {q \in DayDeliveries : q.age < AlertWindow}}
          \subseteq DayDeliveries
    BY DaytimeAssumption DEF DayDeliveries
  <2>3. {[r EXCEPT !.age = @ + 1] : r \in {q \in DayTexts : q.age < AlertWindow}}
          \subseteq DayTexts
    BY DaytimeAssumption DEF DayTexts
  <2>4. deliveries' \in Seq(DayDeliveries) /\ texts' \in Seq(DayTexts)
    <3>1. deliveries' = Aged(deliveries) /\ texts' = Aged(texts)
      BY <1>4 DEF MinutePasses
    <3>2. Aged(deliveries) \in Seq(DayDeliveries)
      BY <2>1, <2>2, SeqMonotonic
    <3>3. Aged(texts) \in Seq(DayTexts)
      BY <2>1, <2>3, SeqMonotonic
    <3>. QED
      BY <3>1, <3>2, <3>3
  <2>5. PreferencesTypeOK'
    BY <1>t, <1>4, PreferencesTypes DEF MinutePasses
  <2>6. UNCHANGED <<threat, dayRow, dayCheck, texted, mishaps>>
    BY <1>4 DEF MinutePasses
  <2>. QED
    BY <1>t, <2>4, <2>5, <2>6, DayTypesFrom
<1>5. CASE UNCHANGED dayVars
  BY <1>t, <1>5, PreferencesTypes, DayTypesFrom DEF dayVars
<1>. QED
  BY <1>1, <1>2, <1>3, <1>4, <1>5 DEF DaytimeNext

(* The position a check is about stays the same while it is underway.      *)
SameTarget(m) ==
    /\ dayCheck'[m].pos = dayCheck[m].pos /\ dayCheck'[m].row = dayCheck[m].row
    /\ dayCheck'[m].seen = dayCheck[m].seen

(* The stages of a check, step by step.                                    *)
LEMMA StageAfter ==
    ASSUME DayTypes, NEW m \in Monitors
    PROVE  /\ StartCheck(m) => dayCheck[m].pc = "idle" /\ dayCheck'[m].pc = "checking"
           /\ EndCheck(m) => dayCheck[m].pc = "checking" /\ dayCheck'[m].pc = "idle"
           /\ CheckFails(m) => Underway(m) /\ dayCheck'[m].pc = "idle"
           /\ TextDelivered(m) => /\ dayCheck[m].pc = "sending" /\ dayCheck'[m].pc = "sent"
                                  /\ SameTarget(m)
           /\ RecordDelivery(m) => /\ dayCheck[m].pc = "sent" /\ dayCheck'[m].pc = "recorded"
                                   /\ SameTarget(m)
           /\ CommitRow(m) => dayCheck[m].pc = "recorded" /\ dayCheck'[m].pc = "checking"
           /\ \A p \in Positions : StoreOnly(m, p) =>
                 dayCheck[m].pc = "checking" /\ dayCheck'[m].pc = "checking"
           /\ \A p \in Positions : DecideToSend(m, p) =>
                 /\ dayCheck[m].pc = "checking" /\ dayCheck'[m].pc = "sending"
                 /\ dayCheck'[m].pos = p /\ dayCheck'[m].row = dayRow[p]
                 /\ dayCheck'[m].seen = dayCheck[m].seen
<1>t. /\ dayCheck \in [Monitors -> DayChecks] /\ dayCheck[m] \in DayChecks
  BY DayFields
<1>1. ASSUME StartCheck(m) PROVE dayCheck[m].pc = "idle" /\ dayCheck'[m].pc = "checking"
  <2>1. dayCheck'[m] = [Idle EXCEPT !.pc = "checking", !.left = Positions,
                              !.allowed = AllowedStates(alertMode), !.seen = threat]
    BY <1>t, <1>1 DEF StartCheck
  <2>. QED
    BY <1>1, <2>1 DEF StartCheck, Idle
<1>2. EndCheck(m) => dayCheck[m].pc = "checking" /\ dayCheck'[m].pc = "idle"
  BY <1>t DEF EndCheck, Idle
<1>3. CheckFails(m) => Underway(m) /\ dayCheck'[m].pc = "idle"
  BY <1>t DEF CheckFails, Idle, Underway
<1>4. ASSUME TextDelivered(m)
      PROVE  dayCheck[m].pc = "sending" /\ dayCheck'[m].pc = "sent" /\ SameTarget(m)
  <2>1. dayCheck'[m] = [dayCheck[m] EXCEPT !.pc = "sent"]
    BY <1>t, <1>4 DEF TextDelivered
  <2>. QED
    BY <1>t, <1>4, <2>1 DEF TextDelivered, DayChecks, SameTarget
<1>5. ASSUME RecordDelivery(m)
      PROVE  dayCheck[m].pc = "sent" /\ dayCheck'[m].pc = "recorded" /\ SameTarget(m)
  <2>1. dayCheck'[m] = [dayCheck[m] EXCEPT !.pc = "recorded"]
    BY <1>t, <1>5 DEF RecordDelivery
  <2>. QED
    BY <1>t, <1>5, <2>1 DEF RecordDelivery, DayChecks, SameTarget
<1>6. ASSUME CommitRow(m)
      PROVE  dayCheck[m].pc = "recorded" /\ dayCheck'[m].pc = "checking"
  <2>1. dayCheck'[m] = [dayCheck[m] EXCEPT !.pc = "checking", !.left = @ \ {dayCheck[m].pos},
                                   !.pos = "NONE", !.row = NoRow]
    BY <1>t, <1>6 DEF CommitRow
  <2>. QED
    BY <1>t, <1>6, <2>1 DEF CommitRow, DayChecks
<1>7. ASSUME NEW p \in Positions, StoreOnly(m, p)
      PROVE  dayCheck[m].pc = "checking" /\ dayCheck'[m].pc = "checking"
  <2>1. dayCheck'[m] = [dayCheck[m] EXCEPT !.left = @ \ {p}]
    BY <1>t, <1>7 DEF StoreOnly
  <2>. QED
    BY <1>t, <1>7, <2>1 DEF StoreOnly, DayChecks
<1>8. ASSUME NEW p \in Positions, DecideToSend(m, p)
      PROVE  /\ dayCheck[m].pc = "checking" /\ dayCheck'[m].pc = "sending"
             /\ dayCheck'[m].pos = p /\ dayCheck'[m].row = dayRow[p]
             /\ dayCheck'[m].seen = dayCheck[m].seen
  <2>1. dayCheck'[m] = [dayCheck[m] EXCEPT !.pc = "sending", !.pos = p, !.row = dayRow[p]]
    BY <1>t, <1>8 DEF DecideToSend
  <2>. QED
    BY <1>t, <1>8, <2>1 DEF DecideToSend, DayChecks
<1>. QED
  BY <1>1, <1>2, <1>3, <1>4, <1>5, <1>6, <1>7, <1>8

(* A step of a check that is not a decision, in its own terms.             *)
LEMMA CheckMoves ==
    ASSUME DayTypes, DayLocked, NEW m \in Monitors, CheckStep(m)
    PROVE  /\ dayCheck'[m].pc \in {"sent", "recorded"} =>
                /\ Underway(m) /\ dayCheck'[m].pos = dayCheck[m].pos
                /\ dayCheck'[m].row = dayCheck[m].row /\ dayCheck'[m].seen = dayCheck[m].seen
                /\ dayRow' = dayRow
           /\ dayCheck'[m].pc = "sending" =>
                /\ dayCheck[m].pc = "checking" /\ dayRow' = dayRow /\ UNCHANGED texted
                /\ dayCheck'[m].pos \in Positions
                /\ DecideToSend(m, dayCheck'[m].pos)
                /\ dayCheck'[m].row = dayRow[dayCheck'[m].pos]
                /\ dayCheck'[m].seen = dayCheck[m].seen
           /\ dayCheck'[m].pc # "idle" => dayCheck'[m].pc \in {"checking", "sending", "sent", "recorded"}
<1>1. dayCheck'[m].pc \in {"idle", "checking", "sending", "sent", "recorded"}
  BY CheckAfter DEF DayChecks
<1>2. TextDelivered(m) \/ RecordDelivery(m) => UNCHANGED dayRow
  BY DEF TextDelivered, RecordDelivery
<1>3. \A p \in Positions : DecideToSend(m, p) => UNCHANGED <<dayRow, texted>>
  BY DEF DecideToSend
<1>. QED
  BY <1>1, <1>2, <1>3, StageAfter DEF CheckStep, SameTarget, Underway

(* The rows a step of a check writes: its own, once no other check has it. *)
LEMMA RowsAfter ==
    ASSUME DayTypes, DayLocked, NEW m \in Monitors, CheckStep(m)
    PROVE  /\ \A p \in Positions : dayRow[p].exists => dayRow'[p].exists
           /\ \A p \in Positions : dayRow'[p] # dayRow[p] =>
                 /\ dayRow'[p].state # "NONE" /\ dayRow'[p].side # "NONE"
                 /\ \A o \in Monitors \ {m} : Underway(o) /\ dayCheck[o].pos = p
                       => ~dayCheck[o].row.exists
<1>t. /\ dayCheck \in [Monitors -> DayChecks] /\ dayCheck[m] \in DayChecks
      /\ dayRow \in [Positions -> Rows]
      /\ dayCheck[m].pc # "idle" => dayCheck[m].seen \in [Positions -> Threats]
  BY DayFields
<1>1. CASE CommitRow(m)
  <2>. DEFINE q == dayCheck[m].pos
              t == dayCheck[m].seen[dayCheck[m].pos]
  <2>1. /\ dayCheck[m].pc = "recorded" /\ q \in Positions /\ t \in Threats
        /\ dayCheck[m].row.exists \/ ~dayRow[q].exists
        /\ dayRow' = [dayRow EXCEPT ![q] = Reobserved(dayRow[q], t, t.state)]
    BY <1>t, <1>1 DEF CommitRow, DayLocked, Underway
  <2>2. /\ dayRow'[q].exists /\ dayRow'[q].state # "NONE" /\ dayRow'[q].side # "NONE"
        /\ \A p \in Positions \ {q} : dayRow'[p] = dayRow[p]
    <3>1. t.state \in DayMarks
      BY <2>1, ThreatFields DEF DayMarks
    <3>. QED
      BY <1>t, <2>1, <3>1, ReobservedFits
  <2>3. ASSUME NEW o \in Monitors \ {m}, Underway(o), dayCheck[o].pos = q, dayCheck[o].row.exists
        PROVE  FALSE
    <3>1. dayRow[q].exists
      BY <2>1, <2>3 DEF DayLocked
    <3>2. dayCheck[m].row.exists
      BY <2>1, <3>1
    <3>. QED
      BY <2>1, <2>3, <3>2 DEF DayLocked, Underway
  <2>. QED
    BY <2>2, <2>3
<1>2. ASSUME NEW q \in Positions, StoreOnly(m, q)
      PROVE  /\ dayRow'[q].exists /\ dayRow'[q].state # "NONE" /\ dayRow'[q].side # "NONE"
             /\ \A p \in Positions \ {q} : dayRow'[p] = dayRow[p]
             /\ \A o \in Monitors \ {m} : Underway(o) /\ dayCheck[o].pos = q
                       => ~dayCheck[o].row.exists
  <2>. DEFINE t == dayCheck[m].seen[q]
              a == IF t.state = "GREEN" THEN "NONE" ELSE dayRow[q].alerted
  <2>1. t \in Threats /\ a \in DayMarks
    BY <1>t, <1>2 DEF StoreOnly, Rows, DayMarks
  <2>2. dayRow' = [dayRow EXCEPT ![q] = Reobserved(dayRow[q], t, a)] /\ RowFree(q)
    BY <1>2 DEF StoreOnly
  <2>. HIDE DEF a
  <2>3. /\ dayRow'[q].exists /\ dayRow'[q].state # "NONE" /\ dayRow'[q].side # "NONE"
        /\ \A p \in Positions \ {q} : dayRow'[p] = dayRow[p]
    BY <1>t, <2>1, <2>2, ReobservedFits
  <2>. QED
    BY <2>2, <2>3 DEF RowFree, Underway
<1>3. CASE dayRow' = dayRow
  BY <1>3
<1>. QED
  BY <1>1, <1>2, <1>3
     DEF CheckStep, StartCheck, EndCheck, CheckFails, TextDelivered, RecordDelivery, DecideToSend

LEMMA DayLockedStep ==
    ASSUME DayTypes, DayLocked, [DaytimeNext]_dayVars
    PROVE  DayLocked'
<1>1. ASSUME NEW m \in Monitors, CheckStep(m) PROVE DayLocked'
  <2>0. /\ \A o \in Monitors \ {m} : dayCheck'[o] = dayCheck[o]
        /\ \A p \in Positions : dayRow[p].exists => dayRow'[p].exists
    BY <1>1, CheckAfter, RowsAfter
  <2>1. \A p \in Positions : dayRow'[p].exists => dayRow'[p].state # "NONE" /\ dayRow'[p].side # "NONE"
    BY <1>1, RowsAfter DEF DayLocked
  <2>2. ASSUME NEW o \in Monitors \ {m}, Underway(o)'
        PROVE  /\ dayCheck'[o].pos \in Positions
               /\ dayCheck'[o].row.exists =>
                    /\ dayCheck'[o].row = dayRow'[dayCheck'[o].pos]
                    /\ DaytimeShouldAlert(dayCheck'[o].row, dayCheck'[o].seen[dayCheck'[o].pos])
    BY <1>1, <2>0, <2>2, RowsAfter DEF DayLocked, Underway
  <2>3. ASSUME Underway(m)'
        PROVE  /\ dayCheck'[m].pos \in Positions
               /\ dayCheck'[m].row.exists =>
                    /\ dayCheck'[m].row = dayRow'[dayCheck'[m].pos]
                    /\ DaytimeShouldAlert(dayCheck'[m].row, dayCheck'[m].seen[dayCheck'[m].pos])
    <3>1. CASE dayCheck'[m].pc = "sending"
      <4>1. /\ dayRow' = dayRow /\ dayCheck'[m].pos \in Positions
            /\ DecideToSend(m, dayCheck'[m].pos)
            /\ dayCheck'[m].row = dayRow[dayCheck'[m].pos]
            /\ dayCheck'[m].seen = dayCheck[m].seen
        BY <1>1, <3>1, CheckMoves
      <4>2. DaytimeShouldAlert(dayRow[dayCheck'[m].pos], dayCheck[m].seen[dayCheck'[m].pos])
        BY <4>1 DEF DecideToSend, DayWorthATextNow
      <4>. QED
        BY <4>1, <4>2
    <3>2. CASE dayCheck'[m].pc \in {"sent", "recorded"}
      <4>1. /\ Underway(m) /\ dayCheck'[m].pos = dayCheck[m].pos
            /\ dayCheck'[m].row = dayCheck[m].row /\ dayCheck'[m].seen = dayCheck[m].seen
            /\ dayRow' = dayRow
        BY <1>1, <3>2, CheckMoves
      <4>. QED
        BY <4>1 DEF DayLocked
    <3>. QED
      BY <2>3, <3>1, <3>2 DEF Underway
  <2>4. ASSUME NEW o \in Monitors \ {m}, Underway(m)', Underway(o)',
               dayCheck'[m].pos = dayCheck'[o].pos,
               dayCheck'[m].row.exists, dayCheck'[o].row.exists
        PROVE  FALSE
    <3>0. Underway(o) /\ dayCheck'[o] = dayCheck[o]
      BY <2>0, <2>4 DEF Underway
    <3>1. CASE dayCheck'[m].pc = "sending"
      <4>1. RowFree(dayCheck'[m].pos)
        BY <1>1, <3>1, CheckMoves DEF DecideToSend
      <4>. QED
        BY <2>4, <3>0, <4>1 DEF RowFree, Underway
    <3>2. CASE dayCheck'[m].pc \in {"sent", "recorded"}
      <4>1. /\ Underway(m) /\ dayCheck'[m].pos = dayCheck[m].pos
            /\ dayCheck'[m].row = dayCheck[m].row
        BY <1>1, <3>2, CheckMoves
      <4>. QED
        BY <2>4, <3>0, <4>1 DEF DayLocked
    <3>. QED
      BY <2>4, <3>1, <3>2 DEF Underway
  <2>5. \A o, q \in Monitors :
          /\ Underway(o)' /\ Underway(q)' /\ dayCheck'[o].pos = dayCheck'[q].pos
          /\ dayCheck'[o].row.exists /\ dayCheck'[q].row.exists
          => o = q
    <3>. SUFFICES ASSUME NEW o \in Monitors, NEW q \in Monitors, o # q,
                         Underway(o)', Underway(q)', dayCheck'[o].pos = dayCheck'[q].pos,
                         dayCheck'[o].row.exists, dayCheck'[q].row.exists
                  PROVE  FALSE
      OBVIOUS
    <3>1. CASE o = m \/ q = m
      BY <2>4, <3>1
    <3>2. CASE o # m /\ q # m
      BY <2>0, <3>2 DEF DayLocked, Underway
    <3>. QED
      BY <3>1, <3>2
  <2>6. \A o \in Monitors : Underway(o)' =>
          /\ dayCheck'[o].pos \in Positions
          /\ dayCheck'[o].row.exists =>
                    /\ dayCheck'[o].row = dayRow'[dayCheck'[o].pos]
                    /\ DaytimeShouldAlert(dayCheck'[o].row, dayCheck'[o].seen[dayCheck'[o].pos])
    BY <2>2, <2>3
  <2>. QED
    BY <2>1, <2>5, <2>6 DEF DayLocked
<1>2. CASE UNCHANGED <<dayRow, dayCheck>>
  BY <1>2 DEF DayLocked, Underway
<1>. QED
  BY <1>1, <1>2 DEF DaytimeNext, MarketTurns, RecipientActs, MinutePasses, dayVars

(* A text that goes out in vain is a failure later on: without failures    *)
(* and with none in vain after a step, there was none before it.           *)
LEMMA NoneInVain ==
    ASSUME DayTypes, DayLocked, NEW m \in Monitors, CheckStep(m),
           mishaps' = 0, \A o \in Monitors : ~InVain(o)'
    PROVE  /\ mishaps = 0 /\ \A o \in Monitors : ~InVain(o)
           /\ CheckFails(m) => dayCheck[m].pc = "sending"
<1>t. /\ dayCheck \in [Monitors -> DayChecks] /\ dayCheck[m] \in DayChecks /\ mishaps \in Nat
  BY DayFields
<1>a. /\ \A o \in Monitors \ {m} : dayCheck'[o] = dayCheck[o]
      /\ \A p \in Positions : dayRow[p].exists => dayRow'[p].exists
  BY CheckAfter, RowsAfter
<1>1. CheckFails(m) => dayCheck[m].pc = "sending"
  BY <1>t, DaytimeAssumption DEF CheckFails
<1>2. mishaps = 0
  BY <1>t, <1>1 DEF CheckStep, StartCheck, EndCheck, CheckFails, TextDelivered, RecordDelivery,
       CommitRow, StoreOnly, DecideToSend
<1>3. ASSUME NEW o \in Monitors \ {m}, InVain(o) PROVE FALSE
  <2>1. dayCheck[o].pos \in Positions
    BY <1>3 DEF InVain, DayLocked, Underway
  <2>. QED
    BY <1>a, <1>3, <2>1 DEF InVain
<1>4. ASSUME InVain(m) PROVE FALSE
  <2>1. RecordDelivery(m)
    BY <1>1, <1>4 DEF InVain, CheckStep, StartCheck, EndCheck, CheckFails, TextDelivered,
         CommitRow, StoreOnly, DecideToSend
  <2>2. dayRow' = dayRow /\ dayCheck'[m].pc = "recorded" /\ SameTarget(m)
    BY <2>1, StageAfter DEF RecordDelivery
  <2>. QED
    BY <1>4, <2>2 DEF InVain, SameTarget
<1>. QED
  BY <1>1, <1>2, <1>3, <1>4

(* Two checks that told the recipient of one position: the commit of one   *)
(* leaves the other in vain.                                               *)
LEMMA DayTellStep ==
    ASSUME DayTypes, DayLocked, DayTellInv, [DaytimeNext]_dayVars
    PROVE  DayTellInv'
<1>. DEFINE Knows(p) == \/ texted[p].state = "NONE"
                        \/ /\ dayRow[p].exists
                           /\ dayRow[p].alerted = texted[p].state
                           /\ dayRow[p].side = texted[p].side
            Sole(n, p) == Told(n, p) /\ \A o \in Monitors : Told(o, p) => o = n
            Tells(p) == /\ (\A n \in Monitors : ~Told(n, p)) => Knows(p)
                        /\ \A n \in Monitors : Sole(n, p) => texted[p] = dayCheck[n].seen[p]
<1>t. /\ dayRow \in [Positions -> Rows] /\ dayCheck \in [Monitors -> DayChecks]
      /\ texted \in [Positions -> DayMemories]
      /\ \A m \in Monitors : dayCheck[m].pc # "idle" => dayCheck[m].seen \in [Positions -> Threats]
  BY DayFields
<1>d. ASSUME mishaps = 0, \A m \in Monitors : ~InVain(m), NEW p \in Positions
      PROVE  Tells(p)
  BY <1>d DEF DayTellInv
<1>1. ASSUME NEW m \in Monitors, CheckStep(m), mishaps' = 0, \A o \in Monitors : ~InVain(o)',
             NEW p \in Positions
      PROVE  Tells(p)'
  <2>0. /\ \A o \in Monitors \ {m} : dayCheck'[o] = dayCheck[o]
        /\ \A q \in Positions : Tells(q)
        /\ CheckFails(m) => dayCheck[m].pc = "sending"
        /\ dayCheck[m] \in DayChecks /\ dayCheck'[m] \in DayChecks
    BY <1>t, <1>1, <1>d, CheckAfter, NoneInVain
  <2>k. ASSUME UNCHANGED <<dayRow, texted>>,
               dayCheck[m].pc \in {"sent", "recorded"} <=> dayCheck'[m].pc \in {"sent", "recorded"},
               dayCheck[m].pc \in {"sent", "recorded"} =>
                  dayCheck'[m].pos = dayCheck[m].pos /\ dayCheck'[m].seen = dayCheck[m].seen
        PROVE  Tells(p)'
    <3>1. \A o \in Monitors : Told(o, p)' <=> Told(o, p)
      BY <2>0, <2>k DEF Told
    <3>2. \A o \in Monitors : Told(o, p) => dayCheck'[o].seen = dayCheck[o].seen
      BY <2>0, <2>k DEF Told
    <3>. QED
      BY <2>0, <2>k, <3>1, <3>2
  <2>1. CASE StartCheck(m) \/ EndCheck(m) \/ CheckFails(m) \/ RecordDelivery(m)
    <3>1. /\ dayCheck[m].pc \in {"sent", "recorded"} <=> dayCheck'[m].pc \in {"sent", "recorded"}
          /\ dayCheck[m].pc \in {"sent", "recorded"} => SameTarget(m)
      BY <2>0, <2>1, StageAfter
    <3>. QED
      BY <2>k, <2>1, <3>1 DEF StartCheck, EndCheck, CheckFails, RecordDelivery, SameTarget
  <2>2. ASSUME NEW q \in Positions, DecideToSend(m, q) PROVE Tells(p)'
    BY <2>k, <2>2, StageAfter DEF DecideToSend
  <2>3. CASE TextDelivered(m)
    <3>. DEFINE q == dayCheck[m].pos
    <3>1. /\ dayCheck'[m].pc = "sent" /\ dayCheck'[m].pos = q
          /\ dayCheck'[m].seen = dayCheck[m].seen
      BY <2>3, StageAfter DEF SameTarget
    <3>2. q \in Positions /\ dayCheck[m].pc = "sending" /\ dayRow' = dayRow
      BY <2>3 DEF TextDelivered, DayLocked, Underway
    <3>3. texted' = [texted EXCEPT ![q] = dayCheck[m].seen[q]]
      BY <2>3 DEF TextDelivered
    <3>4. CASE p = q
      <4>1. Told(m, p)'
        BY <3>1, <3>4 DEF Told
      <4>2. texted'[p] = dayCheck'[m].seen[p]
        BY <1>t, <3>1, <3>2, <3>3, <3>4
      <4>. QED
        BY <4>1, <4>2
    <3>5. CASE p # q
      <4>1. \A o \in Monitors : Told(o, p)' <=> Told(o, p)
        BY <2>0, <3>1, <3>2, <3>5 DEF Told
      <4>2. \A o \in Monitors : dayCheck'[o].seen = dayCheck[o].seen
        BY <2>0, <3>1
      <4>3. texted'[p] = texted[p]
        BY <1>t, <3>2, <3>3, <3>5
      <4>. QED
        BY <2>0, <3>2, <4>1, <4>2, <4>3
    <3>. QED
      BY <3>4, <3>5
  <2>4. CASE CommitRow(m)
    <3>. DEFINE q == dayCheck[m].pos
                t == dayCheck[m].seen[q]
    <3>1. /\ dayCheck[m].pc = "recorded" /\ q \in Positions /\ t \in Threats
          /\ dayCheck[m].row.exists \/ ~dayRow[q].exists
          /\ dayRow' = [dayRow EXCEPT ![q] = Reobserved(dayRow[q], t, t.state)]
          /\ texted' = texted
      BY <1>t, <2>4 DEF CommitRow, DayLocked, Underway
    <3>2. t.state \in DayMarks
      BY <3>1, ThreatFields DEF DayMarks
    <3>3. dayRow'[q] = Reobserved(dayRow[q], t, t.state) /\ \A r \in Positions \ {q} : dayRow'[r] = dayRow[r]
      BY <1>t, <3>1
    <3>4. dayRow'[q].exists /\ dayRow'[q].alerted = t.state /\ dayRow'[q].side = t.side
      BY <3>1, <3>2, <3>3, ReobservedFits
    <3>5. dayCheck'[m].pc = "checking"
      BY <2>4, StageAfter
    <3>6. ASSUME NEW o \in Monitors \ {m}, Told(o, q) PROVE FALSE
      <4>1. dayCheck'[o] = dayCheck[o] /\ Underway(o)
        BY <2>0, <3>6 DEF Told, Underway
      <4>2. dayCheck[o].row.exists
        BY <1>1, <3>4, <3>6, <4>1 DEF Told, InVain
      <4>3. dayRow[q].exists
        BY <3>6, <4>1, <4>2 DEF DayLocked, Told
      <4>. QED
        BY <3>1, <3>6, <4>1, <4>2, <4>3 DEF DayLocked, Underway, Told
    <3>7. CASE p = q
      <4>1. Sole(m, q)
        BY <3>1, <3>6 DEF Told
      <4>2. texted[q] = t
        BY <2>0, <3>1, <4>1
      <4>3. \A o \in Monitors : ~Told(o, p)'
        BY <2>0, <3>5, <3>6, <3>7 DEF Told
      <4>4. Knows(p)'
        BY <3>1, <3>4, <3>7, <4>2
      <4>. QED
        BY <4>3, <4>4
    <3>8. CASE p # q
      <4>1. \A o \in Monitors : Told(o, p)' <=> Told(o, p)
        BY <2>0, <3>5, <3>8 DEF Told
      <4>2. \A o \in Monitors : Told(o, p) => dayCheck'[o] = dayCheck[o]
        BY <2>0, <3>8 DEF Told
      <4>. QED
        BY <2>0, <3>1, <3>3, <3>8, <4>1, <4>2
    <3>. QED
      BY <3>7, <3>8
  <2>5. ASSUME NEW q \in Positions, StoreOnly(m, q) PROVE Tells(p)'
    <3>. DEFINE t == dayCheck[m].seen[q]
                a == IF t.state = "GREEN" THEN "NONE" ELSE dayRow[q].alerted
    <3>1. /\ dayCheck[m].pc = "checking" /\ t \in Threats /\ RowFree(q) /\ a \in DayMarks
          /\ dayRow' = [dayRow EXCEPT ![q] = Reobserved(dayRow[q], t, a)]
          /\ texted' = [texted EXCEPT ![q] = Episode(texted[q], t)]
      BY <1>t, <2>5 DEF StoreOnly, Rows, DayMarks
    <3>2. /\ dayRow'[q].exists /\ dayRow'[q].alerted = a /\ dayRow'[q].side = t.side
          /\ texted'[q] = Episode(texted[q], t)
          /\ \A r \in Positions \ {q} : dayRow'[r] = dayRow[r] /\ texted'[r] = texted[r]
      <4>. HIDE DEF a
      <4>. QED
        BY <1>t, <3>1, ReobservedFits
    <3>3. dayCheck'[m].pc = "checking"
      BY <2>5, StageAfter
    <3>4. \A o \in Monitors, r \in Positions : Told(o, r)' <=> Told(o, r)
      BY <2>0, <3>1, <3>3 DEF Told
    <3>5. \A o \in Monitors : ~Told(o, q)
      <4>. SUFFICES ASSUME NEW o \in Monitors \ {m}, Told(o, q) PROVE FALSE
        BY <3>1 DEF Told
      <4>1. dayCheck'[o] = dayCheck[o] /\ ~dayCheck[o].row.exists
        BY <2>0, <3>1 DEF Told, RowFree
      <4>. QED
        BY <1>1, <3>2, <4>1 DEF Told, InVain
    <3>6. CASE p = q
      <4>1. Knows(q)
        BY <2>0, <3>5
      <4>2. Knows(q)'
        <5>1. CASE t.state = "GREEN" \/ t.side # texted[q].side
          BY <3>2, <5>1 DEF Episode, Untold
        <5>2. CASE ~(t.state = "GREEN" \/ t.side # texted[q].side)
          <6>1. texted'[q] = texted[q] /\ a = dayRow[q].alerted
            BY <3>2, <5>2 DEF Episode
          <6>. QED
            BY <3>2, <4>1, <5>2, <6>1
        <5>. QED
          BY <5>1, <5>2
      <4>. QED
        BY <3>4, <3>5, <3>6, <4>2
    <3>7. CASE p # q
      <4>1. \A o \in Monitors : Told(o, p) => dayCheck'[o] = dayCheck[o]
        BY <2>0, <3>1 DEF Told
      <4>. QED
        BY <2>0, <3>2, <3>4, <3>7, <4>1
    <3>. QED
      BY <3>6, <3>7
  <2>. QED
    BY <1>1, <2>1, <2>2, <2>3, <2>4, <2>5 DEF CheckStep
<1>2. CASE UNCHANGED <<dayRow, dayCheck, texted, mishaps>>
  <2>1. \A m \in Monitors, p \in Positions : Told(m, p)' <=> Told(m, p)
    BY <1>2 DEF Told
  <2>2. \A m \in Monitors : InVain(m)' <=> InVain(m)
    BY <1>2 DEF InVain
  <2>. QED
    BY <1>2, <2>1, <2>2 DEF DayTellInv
<1>3. CASE \E m \in Monitors : CheckStep(m)
  <2>1. ASSUME mishaps' = 0, \A o \in Monitors : ~InVain(o)', NEW p \in Positions
        PROVE  Tells(p)'
    BY <1>1, <1>3, <2>1
  <2>. QED
    BY <2>1 DEF DayTellInv
<1>. QED
  BY <1>2, <1>3 DEF DaytimeNext, MarketTurns, RecipientActs, MinutePasses, dayVars

LEMMA RepeatStep ==
    ASSUME DayTypes, DayLocked, DayTellInv, [DaytimeNext]_dayVars, NEW m \in Monitors,
           Len(texts') > Len(texts), dayCheck'[m].pc # dayCheck[m].pc, dayCheck[m].row.exists,
           mishaps = 0, ~FirstInsertPending(m)
    PROVE  LET t == dayCheck[m].seen[dayCheck[m].pos]
           IN  \/ texted[dayCheck[m].pos].state = "NONE"
               \/ texted[dayCheck[m].pos].side # t.side
               \/ DayRank[t.state] > DayRank[texted[dayCheck[m].pos].state]
<1>. DEFINE q == dayCheck[m].pos
            t == dayCheck[m].seen[q]
<1>1. TextDelivered(m)
  <2>1. PICK o \in Monitors : CheckStep(o)
    BY DEF DaytimeNext, MarketTurns, RecipientActs, MinutePasses, dayVars
  <2>2. o = m
    BY <2>1, CheckAfter
  <2>3. Len(texts) \in Nat
    BY DayFields, LenProperties
  <2>4. texts' # texts
    BY <2>3
  <2>. QED
    BY <2>1, <2>2, <2>4
       DEF CheckStep, StartCheck, EndCheck, CheckFails, RecordDelivery, CommitRow, StoreOnly, DecideToSend
<1>2. /\ dayCheck[m].pc = "sending" /\ q \in Positions
      /\ dayCheck[m].row = dayRow[q] /\ DaytimeShouldAlert(dayRow[q], t) /\ dayRow[q].exists
  BY <1>1 DEF TextDelivered, DayLocked, Underway
<1>3. \A o \in Monitors : dayCheck[o].pc \in {"sent", "recorded"} => dayCheck[o].row.exists
  BY <1>2 DEF FirstInsertPending
<1>4. \A o \in Monitors : ~InVain(o)
  BY <1>3 DEF InVain
<1>5. \A o \in Monitors : ~Told(o, q)
  <2>. SUFFICES ASSUME NEW o \in Monitors, Told(o, q) PROVE FALSE
    OBVIOUS
  <2>1. Underway(o) /\ Underway(m) /\ dayCheck[o].row.exists /\ o # m /\ dayCheck[o].pos = dayCheck[m].pos
    BY <1>2, <1>3 DEF Told, Underway
  <2>. QED
    BY <2>1 DEF DayLocked
<1>6. \/ texted[q].state = "NONE"
      \/ dayRow[q].alerted = texted[q].state /\ dayRow[q].side = texted[q].side
  BY <1>2, <1>4, <1>5 DEF DayTellInv
<1>7. dayRow[q].state # "NONE"
  BY <1>2 DEF DayLocked
<1>. QED
  BY <1>2, <1>6, <1>7 DEF DaytimeShouldAlert

-----------------------------------------------------------------------------
(* Counting.                                                               *)

LEMMA CountsOfSome ==
    ASSUME NEW S, S \subseteq Monitors, NEW m
    PROVE  /\ IsFiniteSet(S) /\ Cardinality(S) \in Nat
           /\ Cardinality(S) <= Cardinality(Monitors)
           /\ Cardinality(Monitors) \in Nat
           /\ m \notin S => Cardinality(S \cup {m}) = Cardinality(S) + 1
           /\ m \in S => Cardinality(S \ {m}) = Cardinality(S) - 1
<1>1. S \in SUBSET Monitors /\ IsFiniteSet(Monitors)
  BY DaytimeAssumption
<1>2. IsFiniteSet(S) /\ Cardinality(S) <= Cardinality(Monitors)
  BY <1>1, FS_Subset
<1>. QED
  BY <1>1, <1>2, FS_CardinalityType, FS_AddElement, FS_RemoveElement

Missing == Cardinality(Unrecorded) + mishaps

(* How many texts have no record.                                          *)
LEMMA MissingAfter ==
    ASSUME DayTypes, DayLocked, NEW m \in Monitors, CheckStep(m)
    PROVE  /\ Missing \in Nat
           /\ TextDelivered(m) => Missing' = Missing + 1
           /\ RecordDelivery(m) => Missing' = Missing - 1
           /\ CheckFails(m) => Missing' \in {Missing, Missing + 1}
           /\ TextDelivered(m) \/ RecordDelivery(m) \/ CheckFails(m) \/ Missing' = Missing
<1>0. /\ \A o \in Monitors \ {m} : dayCheck'[o] = dayCheck[o]
      /\ mishaps \in Nat
  BY DayFields, CheckAfter
<1>s. Unrecorded \subseteq Monitors
  BY DEF Unrecorded
<1>c. /\ Cardinality(Unrecorded) \in Nat
      /\ m \notin Unrecorded => Cardinality(Unrecorded \cup {m}) = Cardinality(Unrecorded) + 1
      /\ m \in Unrecorded => Cardinality(Unrecorded \ {m}) = Cardinality(Unrecorded) - 1
  BY <1>s, CountsOfSome
<1>1. ASSUME TextDelivered(m) PROVE Missing' = Missing + 1
  <2>1. m \notin Unrecorded /\ Unrecorded' = Unrecorded \cup {m}
    BY <1>0, <1>1, StageAfter DEF Unrecorded
  <2>. QED
    BY <1>0, <1>1, <1>c, <2>1 DEF TextDelivered, Missing
<1>2. ASSUME RecordDelivery(m) PROVE Missing' = Missing - 1
  <2>1. m \in Unrecorded /\ Unrecorded' = Unrecorded \ {m}
    BY <1>0, <1>2, StageAfter DEF Unrecorded
  <2>. QED
    BY <1>0, <1>2, <1>c, <2>1 DEF RecordDelivery, Missing
<1>3. ASSUME CheckFails(m) PROVE Missing' \in {Missing, Missing + 1}
  <2>1. CASE dayCheck[m].pc = "sent"
    <3>1. m \in Unrecorded /\ Unrecorded' = Unrecorded \ {m}
      BY <1>0, <1>3, <2>1, StageAfter DEF Unrecorded
    <3>2. mishaps' = mishaps + 1
      BY <1>3, <2>1 DEF CheckFails, InsertCollides
    <3>. QED
      BY <1>0, <1>c, <3>1, <3>2 DEF Missing
  <2>2. CASE dayCheck[m].pc # "sent"
    <3>1. Unrecorded' = Unrecorded
      BY <1>0, <1>3, <2>2, StageAfter DEF Unrecorded
    <3>2. mishaps' \in {mishaps, mishaps + 1}
      BY <1>3 DEF CheckFails
    <3>. QED
      BY <1>0, <1>c, <3>1, <3>2 DEF Missing
  <2>. QED
    BY <2>1, <2>2
<1>4. ASSUME \/ StartCheck(m) \/ EndCheck(m) \/ CommitRow(m)
             \/ \E p \in Positions : StoreOnly(m, p) \/ DecideToSend(m, p)
      PROVE  Missing' = Missing
  <2>1. dayCheck[m].pc # "sent" /\ dayCheck'[m].pc # "sent"
    BY <1>4, StageAfter
  <2>2. Unrecorded' = Unrecorded
    BY <1>0, <2>1 DEF Unrecorded
  <2>3. mishaps' = mishaps
    BY <1>4 DEF StartCheck, EndCheck, CommitRow, StoreOnly, DecideToSend
  <2>. QED
    BY <2>2, <2>3 DEF Missing
<1>5. Missing \in Nat
  BY <1>0, <1>c DEF Missing
<1>. QED
  BY <1>1, <1>2, <1>3, <1>4, <1>5 DEF CheckStep

LEMMA AgesIn ==
    ASSUME NEW S \in {DayTexts, DayDeliveries}, NEW r \in S
    PROVE  r.age \in 0..AlertWindow
<1>1. CASE S = DayTexts
  <2>1. r \in DayTexts
    BY <1>1
  <2>. QED
    BY <2>1 DEF DayTexts
<1>2. CASE S = DayDeliveries
  <2>1. r \in DayDeliveries
    BY <1>2
  <2>. QED
    BY <2>1 DEF DayDeliveries
<1>. QED
  BY <1>1, <1>2

(* What aging leaves, field by field.                                      *)
LEMMA AgedFields ==
    ASSUME NEW S \in {DayTexts, DayDeliveries}, NEW s \in Seq(S), OldestFirst(s)
    PROVE  \E gone \in 0..Len(s) :
              /\ Len(Aged(s)) = Len(s) - gone
              /\ DOMAIN Aged(s) = 1..(Len(s) - gone)
              /\ \A i \in 1..(Len(s) - gone) :
                    /\ Aged(s)[i].age = s[i + gone].age + 1
                    /\ S = DayDeliveries => Aged(s)[i].state = s[i + gone].state
              /\ \A i \in 1..Len(s) : i > gone => s[i].age < AlertWindow
              /\ \A i \in 1..Len(s) : s[i].age < AlertWindow => i > gone
<1>1. \A r \in S : r.age \in 0..AlertWindow
  BY AgesIn
<1>2. \E gone \in 0..Len(s) :
              /\ Len(Aged(s)) = Len(s) - gone
              /\ Aged(s) \in Seq({[r EXCEPT !.age = @ + 1] : r \in {q \in S : q.age < AlertWindow}})
              /\ \A i \in 1..(Len(s) - gone) :
                    Aged(s)[i] = [s[i + gone] EXCEPT !.age = @ + 1]
              /\ \A i \in 1..Len(s) : i > gone <=> s[i].age < AlertWindow
  BY <1>1, AgedKeepsNewest
<1>3. PICK gone \in 0..Len(s) :
              /\ Len(Aged(s)) = Len(s) - gone
              /\ Aged(s) \in Seq({[r EXCEPT !.age = @ + 1] : r \in {q \in S : q.age < AlertWindow}})
              /\ \A i \in 1..(Len(s) - gone) :
                    Aged(s)[i] = [s[i + gone] EXCEPT !.age = @ + 1]
              /\ \A i \in 1..Len(s) : i > gone <=> s[i].age < AlertWindow
  BY <1>2
<1>4. DOMAIN Aged(s) = 1..(Len(s) - gone)
  BY <1>3, LenProperties
<1>5. Len(s) \in Nat /\ \A i \in 1..Len(s) : s[i] \in S
  BY LenProperties, ElementOfSeq
<1>6. ASSUME NEW i \in 1..(Len(s) - gone)
      PROVE  /\ Aged(s)[i].age = s[i + gone].age + 1
             /\ S = DayDeliveries => Aged(s)[i].state = s[i + gone].state
  <2>1. s[i + gone] \in S /\ Aged(s)[i] = [s[i + gone] EXCEPT !.age = @ + 1]
    BY <1>3, <1>5
  <2>2. CASE S = DayTexts
    BY <2>1, <2>2 DEF DayTexts, DayDeliveries
  <2>3. CASE S = DayDeliveries
    BY <2>1, <2>3 DEF DayDeliveries
  <2>. QED
    BY <2>2, <2>3
<1>. QED
  BY <1>3, <1>4, <1>6

(* A new entry is the youngest; aging keeps the order.                     *)
LEMMA OldestFirstKept ==
    ASSUME NEW S \in {DayTexts, DayDeliveries}, NEW s \in Seq(S), OldestFirst(s)
    PROVE  /\ \A r : r.age = 0 => OldestFirst(Append(s, r))
           /\ OldestFirst(Aged(s))
<1>1. /\ Len(s) \in Nat /\ DOMAIN s = 1..Len(s)
      /\ \A i \in 1..Len(s) : s[i].age \in 0..AlertWindow
  <2>1. \A r \in S : r.age \in 0..AlertWindow
    BY AgesIn
  <2>. QED
    BY <2>1, LenProperties, ElementOfSeq
<1>2. ASSUME NEW r, r.age = 0 PROVE OldestFirst(Append(s, r))
  <2>. DEFINE a == Append(s, r)
  <2>1. /\ DOMAIN a = 1..(Len(s) + 1) /\ a[Len(s) + 1] = r
        /\ \A i \in 1..Len(s) : a[i] = s[i]
    OBVIOUS
  <2>. HIDE DEF a
  <2>2. ASSUME NEW i \in DOMAIN a, NEW j \in DOMAIN a, i <= j PROVE a[j].age <= a[i].age
    <3>1. CASE j = Len(s) + 1
      <4>1. a[j].age = 0
        BY <1>2, <2>1, <3>1
      <4>2. i \in 1..Len(s) \/ i = Len(s) + 1
        BY <1>1, <2>1
      <4>3. a[i].age \in 0..AlertWindow \/ a[i].age = 0
        BY <1>1, <1>2, <2>1, <4>2
      <4>. QED
        BY <4>1, <4>3, DaytimeAssumption
    <3>2. CASE j # Len(s) + 1
      <4>1. i \in 1..Len(s) /\ j \in 1..Len(s)
        BY <1>1, <2>1, <2>2, <3>2
      <4>. QED
        BY <1>1, <2>1, <2>2, <4>1 DEF OldestFirst
    <3>. QED
      BY <3>1, <3>2
  <2>3. OldestFirst(a)
    BY <2>2 DEF OldestFirst
  <2>. QED
    BY <2>3 DEF a
<1>3. OldestFirst(Aged(s))
  <2>1. PICK gone \in 0..Len(s) :
          /\ DOMAIN Aged(s) = 1..(Len(s) - gone)
          /\ \A i \in 1..(Len(s) - gone) : Aged(s)[i].age = s[i + gone].age + 1
    BY AgedFields
  <2>. DEFINE a == Aged(s)
  <2>4. ASSUME NEW i \in DOMAIN a, NEW j \in DOMAIN a, i <= j PROVE a[j].age <= a[i].age
    <3>1. i + gone \in 1..Len(s) /\ j + gone \in 1..Len(s) /\ i + gone <= j + gone
      BY <1>1, <2>1, <2>4
    <3>2. s[j + gone].age <= s[i + gone].age
      BY <1>1, <3>1 DEF OldestFirst
    <3>3. a[i].age = s[i + gone].age + 1 /\ a[j].age = s[j + gone].age + 1
      BY <2>1, <2>4
    <3>4. s[i + gone].age \in Nat /\ s[j + gone].age \in Nat
      BY <1>1, <3>1, DaytimeAssumption
    <3>. HIDE DEF a
    <3>. QED
      BY <3>2, <3>3, <3>4
  <2>. QED
    BY <2>4 DEF OldestFirst
<1>. QED
  BY <1>2, <1>3

(* The recorded texts of the hour: text i has the delivery that many       *)
(* places ahead.                                                           *)
Matched(ds, ts, missing) ==
    \A i \in 1..Len(ts) : i + missing <= Len(ts) =>
        LET d == i + (Len(ds) + missing - Len(ts))
        IN  d \in 1..Len(ds) /\ ds[d].age <= ts[i].age

LEMMA RecordedIsMatched ==
    ASSUME DayTypes
    PROVE  RecordedInv <=> /\ OldestFirst(texts) /\ OldestFirst(deliveries)
                           /\ Matched(deliveries, texts, Missing)
<1>1. DOMAIN texts = 1..Len(texts) /\ DOMAIN deliveries = 1..Len(deliveries)
  BY DayFields, LenProperties
<1>. QED
  BY <1>1 DEF RecordedInv, Matched, Missing

LEMMA Lengths ==
    ASSUME DayTypes
    PROVE  /\ Len(texts) \in Nat /\ Len(deliveries) \in Nat
           /\ \A i \in 1..Len(texts) : texts[i].age \in 0..AlertWindow
           /\ \A i \in 1..Len(deliveries) :
                 deliveries[i].age \in 0..AlertWindow /\ deliveries[i].state \in DayStates
           /\ \A i \in 1..Len(texts) : texts[i].age \in Int
           /\ \A i \in 1..Len(deliveries) : deliveries[i].age \in Int
<1>1. /\ Len(texts) \in Nat /\ Len(deliveries) \in Nat
      /\ \A i \in 1..Len(texts) : texts[i] \in DayTexts
      /\ \A i \in 1..Len(deliveries) : deliveries[i] \in DayDeliveries
  BY DayFields, LenProperties, ElementOfSeq
<1>2. \A r \in DayTexts : r.age \in 0..AlertWindow
  BY DEF DayTexts
<1>3. \A r \in DayDeliveries : r.age \in 0..AlertWindow /\ r.state \in DayStates
  BY DEF DayDeliveries
<1>. QED
  BY <1>1, <1>2, <1>3, DaytimeAssumption

LEMMA RecordedStep ==
    ASSUME DayTypes, DayLocked, RecordedInv, [DaytimeNext]_dayVars
    PROVE  RecordedInv'
<1>t. /\ deliveries \in Seq(DayDeliveries) /\ texts \in Seq(DayTexts)
      /\ DayTypes' /\ OldestFirst(texts) /\ OldestFirst(deliveries)
      /\ Matched(deliveries, texts, Missing)
  BY DayFields, DayTypesStep, RecordedIsMatched
<1>o. ASSUME OldestFirst(texts)', OldestFirst(deliveries)', Matched(deliveries, texts, Missing)'
      PROVE  RecordedInv'
  <2>1. RecordedInv' <=> /\ OldestFirst(texts)' /\ OldestFirst(deliveries)'
                         /\ Matched(deliveries, texts, Missing)'
    <3>1. DOMAIN texts' = 1..Len(texts') /\ DOMAIN deliveries' = 1..Len(deliveries')
      <4>1. texts' \in Seq(DayTexts) /\ deliveries' \in Seq(DayDeliveries)
        BY <1>t DEF DayTypes, DayHistories, DayTexts, DayDeliveries
      <4>. QED
        BY <4>1, LenProperties
    <3>. QED
      BY <3>1 DEF RecordedInv, Matched, Missing
  <2>. QED
    BY <1>o, <2>1
<1>. DEFINE n == Len(texts)
            d == Len(deliveries)
<1>l. /\ n \in Nat /\ d \in Nat
      /\ \A i \in 1..n : texts[i].age \in Nat /\ texts[i].age \in 0..AlertWindow
      /\ \A i \in 1..d : deliveries[i].age \in Nat
  BY Lengths, DaytimeAssumption
<1>1. ASSUME NEW m \in Monitors, CheckStep(m) PROVE RecordedInv'
  <2>c. /\ Missing \in Nat
        /\ TextDelivered(m) => Missing' = Missing + 1
        /\ RecordDelivery(m) => Missing' = Missing - 1
        /\ CheckFails(m) => Missing' \in {Missing, Missing + 1}
        /\ TextDelivered(m) \/ RecordDelivery(m) \/ CheckFails(m) \/ Missing' = Missing
    BY <1>1, MissingAfter
  <2>1. CASE TextDelivered(m)
    <3>1. /\ Len(texts') = n + 1 /\ deliveries' = deliveries
          /\ \A i \in 1..n : texts'[i] = texts[i]
      BY <1>t, <2>1 DEF TextDelivered
    <3>2. OldestFirst(texts')
      BY <1>t, <2>1, OldestFirstKept DEF TextDelivered
    <3>3. Matched(deliveries', texts', Missing')
      <4>1. Missing' = Missing + 1 /\ Missing \in Nat /\ Len(deliveries') = d
        BY <2>c, <2>1, <3>1
      <4>. DEFINE late == Missing
      <4>. HIDE DEF late
      <4>2. ASSUME NEW i \in 1..(n + 1), i + (late + 1) <= n + 1, late \in Nat,
                   Matched(deliveries, texts, late)
            PROVE  LET e == i + (d + (late + 1) - (n + 1))
                   IN  e \in 1..d /\ deliveries[e].age <= texts'[i].age
        <5>1. i \in 1..n /\ i + late <= n /\ i + (d + (late + 1) - (n + 1)) = i + (d + late - n)
          BY <1>l, <4>2
        <5>2. /\ i + (d + late - n) \in 1..d
              /\ deliveries[i + (d + late - n)].age <= texts[i].age
          BY <4>2, <5>1 DEF Matched
        <5>. QED
          BY <3>1, <5>1, <5>2
      <4>3. Matched(deliveries, texts, late) /\ late \in Nat /\ Missing' = late + 1
        BY <1>t, <4>1 DEF late
      <4>4. Matched(deliveries', texts', late + 1)
        BY <3>1, <4>1, <4>2, <4>3 DEF Matched
      <4>. QED
        BY <4>3, <4>4
    <3>. QED
      BY <1>o, <1>t, <3>1, <3>2, <3>3
  <2>2. CASE RecordDelivery(m)
    <3>1. /\ Len(deliveries') = d + 1 /\ texts' = texts
          /\ \A i \in 1..d : deliveries'[i] = deliveries[i]
          /\ deliveries'[d + 1].age = 0
      BY <1>t, <2>2 DEF RecordDelivery
    <3>2. OldestFirst(deliveries')
      BY <1>t, <2>2, OldestFirstKept DEF RecordDelivery
    <3>3. Matched(deliveries', texts', Missing')
      <4>. SUFFICES ASSUME NEW i \in 1..n, i + Missing' <= n
                    PROVE  LET e == i + (d + 1 + Missing' - n)
                           IN  e \in 1..(d + 1) /\ deliveries'[e].age <= texts[i].age
        BY <3>1 DEF Matched
      <4>1. CASE i + Missing <= n
        <5>1. i + (d + Missing - n) \in 1..d /\ deliveries[i + (d + Missing - n)].age <= texts[i].age
          BY <1>t, <4>1 DEF Matched
        <5>2. i + (d + 1 + Missing' - n) = i + (d + Missing - n)
          BY <1>l, <2>c, <2>2
        <5>. QED
          BY <1>l, <3>1, <5>1, <5>2
      <4>2. CASE i + Missing = n + 1
        <5>0. Missing' = Missing - 1 /\ Missing \in Nat /\ i \in Int
          BY <1>l, <2>c, <2>2
        <5>1. i + (d + 1 + Missing' - n) = d + 1
          <6>. DEFINE k == Missing
                      k1 == Missing'
          <6>1. k1 = k - 1 /\ k \in Nat /\ i + k = n + 1
            BY <4>2, <5>0
          <6>. HIDE DEF k, k1, n, d
          <6>2. i + (d + 1 + k1 - n) = d + 1
            BY <1>l, <5>0, <6>1
          <6>. QED
            BY <6>2 DEF k1
        <5>. QED
          BY <1>l, <3>1, <5>1
      <4>. QED
        BY <1>l, <2>c, <2>2, <4>1, <4>2
    <3>. QED
      BY <1>o, <1>t, <3>1, <3>2, <3>3
  <2>3. CASE CheckFails(m) \/ ~(TextDelivered(m) \/ RecordDelivery(m))
    <3>1. texts' = texts /\ deliveries' = deliveries
      BY <1>1, <2>3 DEF CheckStep, StartCheck, EndCheck, CheckFails, CommitRow, StoreOnly, DecideToSend
    <3>2. CASE Missing' = Missing
      BY <1>o, <1>t, <3>1, <3>2
    <3>3. CASE Missing' = Missing + 1
      <4>1. Matched(deliveries, texts, Missing + 1)
        <5>. SUFFICES ASSUME NEW i \in 1..n, i + (Missing + 1) <= n
                      PROVE  LET e == i + (d + (Missing + 1) - n)
                             IN  e \in 1..d /\ deliveries[e].age <= texts[i].age
          BY DEF Matched
        <5>1. i + 1 \in 1..n /\ (i + 1) + Missing <= n
          BY <1>l, <2>c
        <5>2. /\ (i + 1) + (d + Missing - n) \in 1..d
              /\ deliveries[(i + 1) + (d + Missing - n)].age <= texts[i + 1].age
          BY <1>t, <5>1 DEF Matched
        <5>3. texts[i + 1].age <= texts[i].age
          BY <1>t, <1>l, <5>1 DEF OldestFirst
        <5>4. i + (d + (Missing + 1) - n) = (i + 1) + (d + Missing - n)
          BY <1>l, <2>c
        <5>. QED
          BY <1>l, <5>1, <5>2, <5>3, <5>4
      <4>. QED
        BY <1>o, <1>t, <3>1, <3>3, <4>1
    <3>. QED
      BY <2>c, <2>3, <3>2, <3>3
  <2>. QED
    BY <2>1, <2>2, <2>3
<1>2. CASE MinutePasses
  <2>0. /\ deliveries' = Aged(deliveries) /\ texts' = Aged(texts) /\ Missing' = Missing
    BY <1>2 DEF MinutePasses, Missing, Unrecorded
  <2>1. PICK g \in 0..n :
          /\ Len(Aged(texts)) = n - g
          /\ \A i \in 1..(n - g) : Aged(texts)[i].age = texts[i + g].age + 1
          /\ \A i \in 1..n : i > g => texts[i].age < AlertWindow
    BY <1>t, AgedFields
  <2>2. PICK h \in 0..d :
          /\ Len(Aged(deliveries)) = d - h
          /\ \A i \in 1..(d - h) : Aged(deliveries)[i].age = deliveries[i + h].age + 1
          /\ \A i \in 1..d : deliveries[i].age < AlertWindow => i > h
    BY <1>t, AgedFields
  <2>3. OldestFirst(texts') /\ OldestFirst(deliveries')
    BY <1>t, <2>0, OldestFirstKept
  <2>4. Missing \in Nat
    <3>1. Unrecorded \subseteq Monitors
      BY DEF Unrecorded
    <3>2. Cardinality(Unrecorded) \in Nat
      BY <3>1, CountsOfSome
    <3>. QED
      BY <3>2, DayFields DEF Missing
  <2>5. Matched(deliveries', texts', Missing')
    <3>. SUFFICES ASSUME NEW i \in 1..(n - g), i + Missing <= n - g
                  PROVE  LET e == i + ((d - h) + Missing - (n - g))
                         IN  e \in 1..(d - h) /\ Aged(deliveries)[e].age <= Aged(texts)[i].age
      BY <2>0, <2>1, <2>2 DEF Matched
    <3>. DEFINE e == (i + g) + (d + Missing - n)
    <3>1. i + g \in 1..n /\ (i + g) + Missing <= n /\ i + g > g
      BY <1>l, <2>4
    <3>2. e \in 1..d /\ deliveries[e].age <= texts[i + g].age
      BY <1>t, <3>1 DEF Matched
    <3>3. texts[i + g].age < AlertWindow
      BY <2>1, <3>1
    <3>4. deliveries[e].age < AlertWindow
      BY <1>l, <3>1, <3>2, <3>3, DaytimeAssumption
    <3>5. e > h
      BY <2>2, <3>2, <3>4
    <3>. DEFINE f == i + ((d - h) + Missing - (n - g))
    <3>6. f = e - h /\ f \in 1..(d - h) /\ f + h = e
      BY <1>l, <2>4, <3>2, <3>5
    <3>. HIDE DEF e, f
    <3>7. /\ Aged(deliveries)[f].age = deliveries[f + h].age + 1
          /\ Aged(texts)[i].age = texts[i + g].age + 1
      BY <2>1, <2>2, <3>6
    <3>8. Aged(deliveries)[f].age <= Aged(texts)[i].age
      BY <1>l, <3>1, <3>2, <3>6, <3>7
    <3>. QED
      BY <3>6, <3>8 DEF f
  <2>. QED
    BY <1>o, <2>3, <2>5
<1>3. CASE UNCHANGED <<texts, deliveries, dayCheck, mishaps>>
  BY <1>3 DEF RecordedInv, OldestFirst, Unrecorded
<1>. QED
  BY <1>1, <1>2, <1>3 DEF DaytimeNext, MarketTurns, RecipientActs, dayVars

Mild(m) == dayCheck[m].seen[dayCheck[m].pos].state # "CRITICAL"

(* How many decisions are on their way to a record.                        *)
LEMMA InFlightAfter ==
    ASSUME DayTypes, DayLocked, NEW m \in Monitors, CheckStep(m)
    PROVE  /\ \A p \in Positions : DecideToSend(m, p) =>
                /\ Cardinality(InFlight') = Cardinality(InFlight) + 1
                /\ Cardinality(MildInFlight') =
                     Cardinality(MildInFlight) + IF dayCheck[m].seen[p].state # "CRITICAL" THEN 1 ELSE 0
           /\ RecordDelivery(m) =>
                /\ Cardinality(InFlight') = Cardinality(InFlight) - 1
                /\ Cardinality(MildInFlight') =
                     Cardinality(MildInFlight) - IF Mild(m) THEN 1 ELSE 0
           /\ \/ RecordDelivery(m) \/ \E p \in Positions : DecideToSend(m, p)
              \/ /\ Cardinality(InFlight') <= Cardinality(InFlight)
                 /\ Cardinality(MildInFlight') <= Cardinality(MildInFlight)
<1>0. \A o \in Monitors \ {m} : dayCheck'[o] = dayCheck[o]
  BY CheckAfter
<1>s. InFlight \subseteq Monitors /\ MildInFlight \subseteq Monitors
  BY DEF InFlight, MildInFlight
<1>c. /\ Cardinality(InFlight) \in Nat /\ Cardinality(MildInFlight) \in Nat
      /\ m \notin InFlight => Cardinality(InFlight \cup {m}) = Cardinality(InFlight) + 1
      /\ m \in InFlight => Cardinality(InFlight \ {m}) = Cardinality(InFlight) - 1
      /\ m \notin MildInFlight => Cardinality(MildInFlight \cup {m}) = Cardinality(MildInFlight) + 1
      /\ m \in MildInFlight => Cardinality(MildInFlight \ {m}) = Cardinality(MildInFlight) - 1
  BY <1>s, CountsOfSome
<1>1. ASSUME NEW p \in Positions, DecideToSend(m, p)
      PROVE  /\ Cardinality(InFlight') = Cardinality(InFlight) + 1
             /\ Cardinality(MildInFlight') =
                  Cardinality(MildInFlight) + IF dayCheck[m].seen[p].state # "CRITICAL" THEN 1 ELSE 0
  <2>1. /\ dayCheck[m].pc = "checking" /\ dayCheck'[m].pc = "sending"
        /\ dayCheck'[m].pos = p /\ dayCheck'[m].seen = dayCheck[m].seen
    BY <1>1, StageAfter
  <2>2. m \notin InFlight /\ InFlight' = InFlight \cup {m}
    BY <1>0, <2>1 DEF InFlight
  <2>3. m \notin MildInFlight
    BY <2>2 DEF MildInFlight
  <2>4. MildInFlight' = IF dayCheck[m].seen[p].state # "CRITICAL" THEN MildInFlight \cup {m}
                                                                 ELSE MildInFlight
    BY <1>0, <1>s, <2>1, <2>2, <2>3 DEF MildInFlight
  <2>. QED
    BY <1>c, <2>2, <2>3, <2>4
<1>2. ASSUME RecordDelivery(m)
      PROVE  /\ Cardinality(InFlight') = Cardinality(InFlight) - 1
             /\ Cardinality(MildInFlight') =
                  Cardinality(MildInFlight) - IF Mild(m) THEN 1 ELSE 0
  <2>1. dayCheck[m].pc = "sent" /\ dayCheck'[m].pc = "recorded"
    BY <1>2, StageAfter
  <2>2. m \in InFlight /\ InFlight' = InFlight \ {m}
    BY <1>0, <2>1 DEF InFlight
  <2>3. (m \in MildInFlight <=> Mild(m)) /\ MildInFlight' = MildInFlight \ {m}
    BY <1>0, <1>s, <2>2 DEF MildInFlight, Mild
  <2>4. ~Mild(m) => MildInFlight' = MildInFlight
    BY <2>3
  <2>5. Cardinality(InFlight') = Cardinality(InFlight) - 1
    BY <1>c, <2>2
  <2>6. CASE Mild(m)
    BY <1>c, <2>3, <2>5, <2>6
  <2>7. CASE ~Mild(m)
    BY <1>c, <2>4, <2>5, <2>7
  <2>. QED
    BY <2>6, <2>7
<1>3. ASSUME TextDelivered(m)
      PROVE  /\ Cardinality(InFlight') <= Cardinality(InFlight)
             /\ Cardinality(MildInFlight') <= Cardinality(MildInFlight)
  <2>1. /\ dayCheck[m].pc = "sending" /\ dayCheck'[m].pc = "sent"
        /\ dayCheck'[m].pos = dayCheck[m].pos /\ dayCheck'[m].seen = dayCheck[m].seen
    BY <1>3, StageAfter DEF SameTarget
  <2>2. InFlight' = InFlight
    BY <1>0, <2>1 DEF InFlight
  <2>3. MildInFlight' = MildInFlight
    BY <1>0, <1>s, <2>1, <2>2 DEF MildInFlight
  <2>. QED
    BY <1>c, <2>2, <2>3
<1>4. ASSUME \/ StartCheck(m) \/ EndCheck(m) \/ CheckFails(m) \/ CommitRow(m)
             \/ \E p \in Positions : StoreOnly(m, p)
      PROVE  /\ Cardinality(InFlight') <= Cardinality(InFlight)
             /\ Cardinality(MildInFlight') <= Cardinality(MildInFlight)
  <2>1. dayCheck'[m].pc \notin {"sending", "sent"}
    BY <1>4, StageAfter
  <2>2. InFlight' = InFlight \ {m}
    BY <1>0, <2>1 DEF InFlight
  <2>3. MildInFlight' = MildInFlight \ {m}
    BY <1>0, <1>s, <2>2 DEF MildInFlight
  <2>4. /\ m \notin InFlight => InFlight \ {m} = InFlight
        /\ m \notin MildInFlight => MildInFlight \ {m} = MildInFlight
    OBVIOUS
  <2>5. Cardinality(InFlight') <= Cardinality(InFlight)
    BY <1>c, <2>2, <2>4
  <2>6. Cardinality(MildInFlight') <= Cardinality(MildInFlight)
    <3>1. CASE m \in MildInFlight
      BY <1>c, <2>3, <3>1
    <3>2. CASE m \notin MildInFlight
      BY <1>c, <2>3, <2>4, <3>2
    <3>. QED
      BY <3>1, <3>2
  <2>. QED
    BY <2>5, <2>6
<1>. QED
  BY <1>1, <1>2, <1>3, <1>4 DEF CheckStep

(* How many deliveries are not CRITICAL.                                   *)
MildOf(ds) == {i \in DOMAIN ds : ds[i].state # "CRITICAL"}

LEMMA MildCounts ==
    ASSUME NEW ds \in Seq(DayDeliveries)
    PROVE  /\ IsFiniteSet(MildOf(ds)) /\ Cardinality(MildOf(ds)) \in Nat
           /\ Cardinality(MildOf(ds)) <= Len(ds)
           /\ ~(\E i \in DOMAIN ds : ds[i].state = "CRITICAL") => Cardinality(MildOf(ds)) = Len(ds)
           /\ \A r \in DayDeliveries :
                 Cardinality(MildOf(Append(ds, r))) =
                   Cardinality(MildOf(ds)) + IF r.state # "CRITICAL" THEN 1 ELSE 0
           /\ OldestFirst(ds) => Cardinality(MildOf(Aged(ds))) <= Cardinality(MildOf(ds))
<1>1. Len(ds) \in Nat /\ DOMAIN ds = 1..Len(ds)
  BY LenProperties
<1>2. IsFiniteSet(DOMAIN ds) /\ Cardinality(DOMAIN ds) = Len(ds)
  <2>1. IsFiniteSet(1..Len(ds)) /\ Cardinality(1..Len(ds)) = Len(ds)
    BY <1>1, FS_Interval
  <2>. QED
    BY <1>1, <2>1
<1>3. MildOf(ds) \in SUBSET (DOMAIN ds)
  BY DEF MildOf
<1>4. IsFiniteSet(MildOf(ds)) /\ Cardinality(MildOf(ds)) <= Len(ds) /\ Cardinality(MildOf(ds)) \in Nat
  <2>1. IsFiniteSet(MildOf(ds)) /\ Cardinality(MildOf(ds)) <= Cardinality(DOMAIN ds)
    BY <1>2, <1>3, FS_Subset
  <2>. QED
    BY <1>2, <2>1, FS_CardinalityType
<1>5. ASSUME ~(\E i \in DOMAIN ds : ds[i].state = "CRITICAL")
      PROVE  Cardinality(MildOf(ds)) = Len(ds)
  <2>1. MildOf(ds) = DOMAIN ds
    BY <1>5 DEF MildOf
  <2>. QED
    BY <1>2, <2>1
<1>6. ASSUME NEW r \in DayDeliveries
      PROVE  Cardinality(MildOf(Append(ds, r))) =
               Cardinality(MildOf(ds)) + IF r.state # "CRITICAL" THEN 1 ELSE 0
  <2>. DEFINE a == Append(ds, r)
              k == Len(ds) + 1
  <2>1. DOMAIN a = (1..Len(ds)) \cup {k} /\ a[k] = r /\ \A i \in 1..Len(ds) : a[i] = ds[i]
    <3>1. Len(a) = k /\ a \in Seq(DayDeliveries)
      OBVIOUS
    <3>2. DOMAIN a = 1..k
      BY <3>1, LenProperties
    <3>3. 1..k = (1..Len(ds)) \cup {k}
      BY <1>1
    <3>. QED
      BY <3>2, <3>3
  <2>2. k \notin MildOf(ds)
    BY <1>1 DEF MildOf
  <2>. HIDE DEF a, k
  <2>3. MildOf(a) = IF r.state # "CRITICAL" THEN MildOf(ds) \cup {k} ELSE MildOf(ds)
    BY <1>1, <2>1, <2>2 DEF MildOf
  <2>4. Cardinality(MildOf(ds) \cup {k}) = Cardinality(MildOf(ds)) + 1
    BY <1>4, <2>2, FS_AddElement
  <2>5. Cardinality(MildOf(a)) = Cardinality(MildOf(ds)) + IF r.state # "CRITICAL" THEN 1 ELSE 0
    BY <1>4, <2>3, <2>4
  <2>. QED
    BY <2>5 DEF a
<1>7. ASSUME OldestFirst(ds)
      PROVE  Cardinality(MildOf(Aged(ds))) <= Cardinality(MildOf(ds))
  <2>1. PICK g \in 0..Len(ds) :
          /\ DOMAIN Aged(ds) = 1..(Len(ds) - g)
          /\ \A i \in 1..(Len(ds) - g) : Aged(ds)[i].state = ds[i + g].state
    BY <1>7, AgedFields
  <2>. DEFINE f == [i \in MildOf(Aged(ds)) |-> i + g]
  <2>2. \A i \in MildOf(Aged(ds)) : i \in Int /\ i + g \in MildOf(ds)
    BY <1>1, <2>1 DEF MildOf
  <2>3. f \in [MildOf(Aged(ds)) -> MildOf(ds)]
    BY <2>2
  <2>4. \A i, j \in MildOf(Aged(ds)) : f[i] = f[j] => i = j
    BY <2>2
  <2>5. f \in Injection(MildOf(Aged(ds)), MildOf(ds))
    BY <2>3, <2>4 DEF Injection, IsInjective
  <2>. HIDE DEF f
  <2>. QED
    BY <1>4, <2>5, FS_Injection
<1>. QED
  BY <1>4, <1>5, <1>6, <1>7

(* The arithmetic of the limit: a decision below it, a decision that       *)
(* breaks through, a record, and whatever only frees.                      *)
LEMMA LimitSums ==
    ASSUME NEW L \in Nat, NEW N \in Nat, NEW d \in Nat, NEW md \in Nat, md <= d,
           NEW f \in Nat, NEW mf \in Nat, f <= N, mf <= N,
           NEW oldd \in Nat, NEW oldmd \in Nat, NEW oldf \in Nat, NEW oldmf \in Nat,
           oldmd + oldmf <= L + N - 1, oldd + oldf <= L + 2 * N - 1,
           \/ d < L
           \/ d = oldd /\ md = oldmd /\ mf = oldmf /\ md = d
           \/ /\ d = oldd + 1
              /\ f = oldf - 1
              /\ (md = oldmd /\ mf = oldmf) \/ (md = oldmd + 1 /\ mf = oldmf - 1)
           \/ d <= oldd /\ f <= oldf /\ md <= oldmd /\ mf <= oldmf
    PROVE  md + mf <= L + N - 1 /\ d + f <= L + 2 * N - 1
OBVIOUS

LEMMA LimitStep ==
    ASSUME DayTypes, DayTypes', DayLocked, OldestFirst(deliveries), LimitInv, [DaytimeNext]_dayVars
    PROVE  LimitInv'
<1>. DEFINE f == Cardinality(InFlight)
            mf == Cardinality(MildInFlight)
            md == Cardinality(MildOf(deliveries))
            d == Len(deliveries)
            N == Cardinality(Monitors)
<1>t. deliveries \in Seq(DayDeliveries) /\ d \in Nat
  BY DayFields, LenProperties
<1>c. /\ f \in Nat /\ mf \in Nat /\ N \in Nat /\ f <= N /\ mf <= N
  <2>1. InFlight \subseteq Monitors /\ MildInFlight \subseteq Monitors
    BY DEF InFlight, MildInFlight
  <2>. QED
    BY <2>1, CountsOfSome
<1>b. /\ f' \in Nat /\ mf' \in Nat /\ f' <= N /\ mf' <= N
  <2>1. InFlight' \subseteq Monitors /\ MildInFlight' \subseteq Monitors
    BY DEF InFlight, MildInFlight
  <2>. QED
    BY <2>1, CountsOfSome
<1>d. md \in Nat /\ md <= d
  BY <1>t, MildCounts
<1>e. /\ md + mf <= AlertLimit + N - 1 /\ d + f <= AlertLimit + 2 * N - 1
      /\ AlertLimit \in Nat
  BY DaytimeAssumption DEF LimitInv, MildOf, MildDeliveries
<1>p. d' \in Nat /\ md' \in Nat /\ md' <= d'
  <2>1. deliveries' \in Seq(DayDeliveries)
    BY DEF DayTypes, DayHistories, DayDeliveries
  <2>. QED
    BY <2>1, MildCounts, LenProperties
<1>. HIDE DEF f, mf, md, d, N
<1>o. ASSUME \/ d' < AlertLimit
             \/ d' = d /\ md' = md /\ mf' = mf /\ md' = d'
             \/ /\ d' = d + 1
                /\ f' = f - 1
                /\ (md' = md /\ mf' = mf) \/ (md' = md + 1 /\ mf' = mf - 1)
             \/ d' <= d /\ f' <= f /\ md' <= md /\ mf' <= mf
      PROVE  LimitInv'
  <2>1. md' + mf' <= AlertLimit + N - 1 /\ d' + f' <= AlertLimit + 2 * N - 1
    <3>. DEFINE f1 == f'
                mf1 == mf'
                d1 == d'
                md1 == md'
    <3>1. /\ f1 \in Nat /\ mf1 \in Nat /\ f1 <= N /\ mf1 <= N
          /\ d1 \in Nat /\ md1 \in Nat /\ md1 <= d1
      BY <1>b, <1>p
    <3>2. \/ d1 < AlertLimit
          \/ d1 = d /\ md1 = md /\ mf1 = mf /\ md1 = d1
          \/ /\ d1 = d + 1
             /\ f1 = f - 1
             /\ (md1 = md /\ mf1 = mf) \/ (md1 = md + 1 /\ mf1 = mf - 1)
          \/ d1 <= d /\ f1 <= f /\ md1 <= md /\ mf1 <= mf
      BY <1>o
    <3>. HIDE DEF f1, mf1, d1, md1
    <3>3. md1 + mf1 <= AlertLimit + N - 1 /\ d1 + f1 <= AlertLimit + 2 * N - 1
      BY <1>c, <1>d, <1>e, <1>t, <3>1, <3>2, LimitSums
    <3>. QED
      BY <3>3 DEF f1, mf1, d1, md1
  <2>. QED
    BY <2>1 DEF LimitInv, MildOf, MildDeliveries, f, mf, md, d, N
<1>. USE DEF f, mf, md, d
<1>1. ASSUME NEW m \in Monitors, CheckStep(m) PROVE LimitInv'
  <2>0. /\ \A p \in Positions : DecideToSend(m, p) =>
             f' = f + 1 /\ mf' = mf + IF dayCheck[m].seen[p].state # "CRITICAL" THEN 1 ELSE 0
        /\ RecordDelivery(m) => f' = f - 1 /\ mf' = mf - IF Mild(m) THEN 1 ELSE 0
        /\ \/ RecordDelivery(m) \/ \E p \in Positions : DecideToSend(m, p)
           \/ f' <= f /\ mf' <= mf
    BY <1>1, InFlightAfter
  <2>1. ASSUME NEW p \in Positions, DecideToSend(m, p) PROVE LimitInv'
    <3>1. deliveries' = deliveries
      BY <2>1 DEF DecideToSend
    <3>2. \/ /\ dayCheck[m].seen[p].state = "CRITICAL"
             /\ ~(\E i \in DOMAIN deliveries : deliveries[i].state = "CRITICAL")
          \/ d < AlertLimit
      BY <2>1 DEF DecideToSend, DayWorthATextNow, DaytimeDeliveryAllowed
    <3>3. md' = md /\ d' = d
      BY <3>1
    <3>4. CASE d < AlertLimit
      BY <1>o, <3>3, <3>4
    <3>5. CASE /\ dayCheck[m].seen[p].state = "CRITICAL"
               /\ ~(\E i \in DOMAIN deliveries : deliveries[i].state = "CRITICAL")
      <4>1. mf' = mf
        BY <1>c, <2>0, <2>1, <3>5
      <4>2. md = d
        BY <1>t, <3>5, MildCounts
      <4>. HIDE DEF f, mf, md, d
      <4>. QED
        BY <1>o, <3>3, <4>1, <4>2
    <3>. QED
      BY <3>2, <3>4, <3>5
  <2>2. CASE RecordDelivery(m)
    <3>1. dayCheck[m].pos \in Positions /\ dayCheck[m].seen \in [Positions -> Threats]
      BY <2>2, DayFields DEF RecordDelivery, DayLocked, Underway
    <3>. DEFINE r == [age |-> 0, state |-> dayCheck[m].seen[dayCheck[m].pos].state]
    <3>2. r \in DayDeliveries /\ deliveries' = Append(deliveries, r)
      BY <2>2, <3>1, ThreatFields, DaytimeAssumption DEF DayDeliveries, RecordDelivery
    <3>3. r.state # "CRITICAL" <=> Mild(m)
      BY DEF Mild
    <3>. HIDE DEF r
    <3>4. md' = md + (IF Mild(m) THEN 1 ELSE 0) /\ d' = d + 1
      BY <1>t, <3>2, <3>3, MildCounts
    <3>5. f' = f - 1 /\ mf' = mf - IF Mild(m) THEN 1 ELSE 0
      BY <2>0, <2>2
    <3>6. \/ md' = md /\ mf' = mf
          \/ md' = md + 1 /\ mf' = mf - 1
      BY <1>c, <1>d, <3>4, <3>5
    <3>. HIDE DEF f, mf, md, d
    <3>7. /\ d' = d + 1
          /\ f' = f - 1
          /\ (md' = md /\ mf' = mf) \/ (md' = md + 1 /\ mf' = mf - 1)
      BY <3>4, <3>5, <3>6, Zenon
    <3>. QED
      BY <1>o, <3>7, Zenon
  <2>3. CASE f' <= f /\ mf' <= mf /\ ~RecordDelivery(m)
    <3>1. deliveries' = deliveries
      BY <1>1, <2>3 DEF CheckStep, StartCheck, EndCheck, CheckFails, TextDelivered, CommitRow,
           StoreOnly, DecideToSend
    <3>2. md' <= md /\ d' <= d
      BY <1>d, <1>t, <3>1
    <3>. HIDE DEF f, mf, md, d
    <3>. QED
      BY <1>o, <2>3, <3>2
  <2>. QED
    BY <2>0, <2>1, <2>2, <2>3
<1>2. CASE UNCHANGED dayCheck /\ (UNCHANGED deliveries \/ deliveries' = Aged(deliveries))
  <2>1. f' <= f /\ mf' <= mf
    <3>1. InFlight' = InFlight /\ MildInFlight' = MildInFlight
      BY <1>2 DEF InFlight, MildInFlight
    <3>. QED
      BY <1>c, <3>1
  <2>2. CASE UNCHANGED deliveries
    <3>1. md' <= md /\ d' <= d
      BY <1>d, <1>t, <2>2
    <3>. HIDE DEF f, mf, md, d
    <3>. QED
      BY <1>o, <2>1, <3>1
  <2>3. CASE deliveries' = Aged(deliveries)
    <3>1. md' <= md
      BY <1>t, <2>3, MildCounts
    <3>2. d' <= d
      <4>1. \E g \in 0..d : Len(Aged(deliveries)) = d - g
        BY <1>t, AgedFields
      <4>. QED
        BY <1>t, <2>3, <4>1
    <3>. HIDE DEF f, mf, md, d
    <3>. QED
      BY <1>o, <2>1, <3>1, <3>2
  <2>. QED
    BY <1>2, <2>2, <2>3
<1>. QED
  BY <1>1, <1>2 DEF DaytimeNext, MarketTurns, RecipientActs, MinutePasses, dayVars

DayInv == DayTypes /\ DayLocked /\ DayTellInv /\ LimitInv /\ RecordedInv

LEMMA DayBegin ==
    ASSUME DaytimeInit PROVE DayInv
<1>1. PreferencesTypeOK
  BY PreferencesBegin DEF DaytimeInit
<1>2. Idle \in DayChecks /\ Idle.pc = "idle"
  BY DEF Idle, DayChecks, NoRow, Rows, DayMarks
<1>3. NoRow \in Rows /\ ~NoRow.exists /\ Untold \in DayMemories /\ Untold.state = "NONE"
  BY DEF NoRow, Rows, DayMarks, Untold, DayMemories
<1>4. /\ threat \in [Positions -> Threats] /\ dayRow = [p \in Positions |-> NoRow]
      /\ dayCheck = [m \in Monitors |-> Idle] /\ deliveries = <<>> /\ texts = <<>>
      /\ texted = [p \in Positions |-> Untold] /\ mishaps = 0
  BY DEF DaytimeInit
<1>5. /\ dayCheck \in [Monitors -> DayChecks] /\ \A m \in Monitors : dayCheck[m].pc = "idle"
      /\ dayRow \in [Positions -> Rows] /\ \A p \in Positions : ~dayRow[p].exists
      /\ texted \in [Positions -> DayMemories] /\ \A p \in Positions : texted[p].state = "NONE"
  BY <1>2, <1>3, <1>4
<1>6. DayTypes
  BY <1>1, <1>4, <1>5, DaytimeAssumption
     DEF DayTypes, DaytimeTypeOK, DayHistories, DayMemories
<1>7. DayLocked /\ DayTellInv
  BY <1>5 DEF DayLocked, DayTellInv, Underway, Told
<1>8. InFlight = {} /\ MildInFlight = {} /\ MildDeliveries = {} /\ Len(deliveries) = 0
  BY <1>4, <1>5 DEF InFlight, MildInFlight, MildDeliveries
<1>9. LimitInv
  <2>1. Cardinality(Monitors) \in Nat /\ Cardinality(Monitors) # 0
    BY DaytimeAssumption, FS_CardinalityType, FS_EmptySet
  <2>2. Cardinality({}) = 0
    BY FS_EmptySet
  <2>3. AlertLimit \in Nat
    BY DaytimeAssumption
  <2>. QED
    BY <1>8, <2>1, <2>2, <2>3 DEF LimitInv
<1>10. RecordedInv
  BY <1>4 DEF RecordedInv, OldestFirst
<1>. QED
  BY <1>6, <1>7, <1>9, <1>10 DEF DayInv

LEMMA DayStepInv ==
    ASSUME DayInv, [DaytimeNext]_dayVars PROVE DayInv'
<1>1. OldestFirst(deliveries) /\ OldestFirst(texts)
  BY DEF DayInv, RecordedInv
<1>2. DayTypes'
  BY <1>1, DayTypesStep DEF DayInv
<1>. QED
  BY <1>1, <1>2, DayLockedStep, DayTellStep, LimitStep, RecordedStep DEF DayInv

(* What is texted has a record, is on its way to one, or failed.           *)
LEMMA DayInvBoundsTexts == ASSUME DayInv PROVE TextsAnHourBounded
<1>. DEFINE n == Len(texts)
            d == Len(deliveries)
            N == Cardinality(Monitors)
            u == Cardinality(Unrecorded)
            f == Cardinality(InFlight)
<1>1. n \in Nat /\ d \in Nat /\ mishaps \in Nat /\ AlertLimit \in Nat
  BY Lengths, DayFields, DaytimeAssumption DEF DayInv
<1>2. u \in Nat /\ f \in Nat /\ N \in Nat /\ u <= f
  <2>1. InFlight \subseteq Monitors /\ Unrecorded \in SUBSET InFlight
    BY DEF InFlight, Unrecorded
  <2>2. IsFiniteSet(InFlight) /\ f \in Nat /\ N \in Nat
    BY <2>1, CountsOfSome
  <2>. QED
    BY <2>1, <2>2, FS_Subset, FS_CardinalityType
<1>3. d + f <= AlertLimit + 2 * N - 1
  BY DEF DayInv, LimitInv
<1>4. n <= d + u + mishaps
  <2>1. CASE 1 + (u + mishaps) <= n
    <3>1. 1 \in 1..n
      BY <1>1, <1>2, <2>1
    <3>2. 1 + (d + Missing - n) \in 1..d
      BY <2>1, <3>1, RecordedIsMatched DEF DayInv, Matched, Missing
    <3>. QED
      BY <1>1, <1>2, <3>2 DEF Missing
  <2>2. CASE ~(1 + (u + mishaps) <= n)
    BY <1>1, <1>2, <2>2
  <2>. QED
    BY <2>1, <2>2
<1>. HIDE DEF n, d, N, u, f
<1>5. n <= AlertLimit + 1 + mishaps + 2 * (N - 1)
  BY <1>1, <1>2, <1>3, <1>4
<1>. QED
  BY <1>5 DEF TextsAnHourBounded, n, N

(* TextsAnHourBounded: an hour brings the recipient no more texts than the *)
(* limit, one CRITICAL, what failed after sending and what a second        *)
(* monitor may decide at the same moment allow.                            *)
THEOREM TextsBoundedHolds == DaytimeSpec => []TextsAnHourBounded
<1>1. DaytimeInit => DayInv
  BY DayBegin
<1>2. DayInv /\ [DaytimeNext]_dayVars => DayInv'
  BY DayStepInv
<1>3. DayInv => TextsAnHourBounded
  BY DayInvBoundsTexts
<1>. QED
  BY <1>1, <1>2, <1>3, PTL DEF DaytimeSpec

(* NoNeedlessRepeat: process_position_threat texts a position it knows     *)
(* again only when it got worse or turned, however the monitors            *)
(* interleave, as long as no commit failed and no first insert is about to *)
(* collide.                                                                *)
THEOREM NoNeedlessRepeatHolds == DaytimeSpec => NoNeedlessRepeat
<1>. DEFINE Worth(m) ==
              LET c == dayCheck[m] IN LET t == c.seen[c.pos]
              IN  Len(texts') > Len(texts) /\ dayCheck'[m].pc # c.pc /\ c.row.exists /\ mishaps = 0
                 /\ ~FirstInsertPending(m)
                  => \/ texted[c.pos].state = "NONE"
                     \/ texted[c.pos].side # t.side
                     \/ DayRank[t.state] > DayRank[texted[c.pos].state]
<1>1. DaytimeInit => DayInv
  BY DayBegin
<1>2. DayInv /\ [DaytimeNext]_dayVars => DayInv'
  BY DayStepInv
<1>3. DayInv /\ [DaytimeNext]_dayVars => [\A m \in Monitors : Worth(m)]_dayVars
  <2>. SUFFICES ASSUME DayInv, [DaytimeNext]_dayVars, NEW m \in Monitors PROVE Worth(m)
    OBVIOUS
  <2>. QED
    BY RepeatStep DEF DayInv
<1>. QED
  BY <1>1, <1>2, <1>3, PTL DEF DaytimeSpec, NoNeedlessRepeat

(* AlertsTypeOK: both monitors keep every variable in its type, whichever  *)
(* of them runs.                                                           *)
THEOREM AlertsTypeHolds == AlertsSpec => []AlertsTypeOK
<1>. DEFINE Inv == shift \in {"day", "night"} /\ DayInv /\ NightInv
<1>1. AlertsInit => Inv
  BY DayBegin, NightBegin DEF AlertsInit
<1>2. Inv /\ [AlertsNext]_alertVars => Inv'
  <2>. SUFFICES ASSUME Inv, [AlertsNext]_alertVars PROVE Inv'
    OBVIOUS
  <2>1. ASSUME DayInv, UNCHANGED dayOnly, PreferencesTypeOK' PROVE DayInv'
    BY <2>1 DEF DayInv, DayTypes, DaytimeTypeOK, DayHistories, DayLocked, DayTellInv, LimitInv,
         RecordedInv, dayOnly, Underway, Told, InVain, InFlight, Unrecorded, MildInFlight,
         MildDeliveries, OldestFirst
  <2>2. ASSUME NightInv, UNCHANGED nightOnly, PreferencesTypeOK' PROVE NightInv'
    BY <2>2 DEF NightInv, OvernightTypeOK, NightLocked, NightTellInv, nightOnly, OnItsWay,
         NightSent, NightInsertCollides
  <2>3. CASE ByDay(DaytimeNext)
    <3>1. DayInv' /\ UNCHANGED <<shift, nightOnly>>
      BY <2>3, DayStepInv DEF ByDay
    <3>2. PreferencesTypeOK'
      BY <3>1 DEF DayInv, DayTypes, DaytimeTypeOK
    <3>. QED
      BY <2>2, <3>1, <3>2
  <2>4. CASE ByNight(OvernightNext)
    <3>1. NightInv' /\ UNCHANGED <<shift, dayOnly>>
      BY <2>4, NightStepInv DEF ByNight
    <3>2. PreferencesTypeOK'
      BY <3>1 DEF NightInv, OvernightTypeOK
    <3>. QED
      BY <2>1, <3>1, <3>2
  <2>5. CASE UNCHANGED alertVars
    <3>1. DayInv' /\ NightInv' /\ shift' = shift
      BY <2>5, DayStepInv, NightStepInv DEF alertVars
    <3>. QED
      BY <3>1
  <2>. QED
    BY <2>3, <2>4, <2>5 DEF AlertsNext
<1>3. Inv => AlertsTypeOK
  BY DEF AlertsTypeOK, DayInv, DayTypes, NightInv
<1>. QED
  BY <1>1, <1>2, <1>3, PTL DEF AlertsSpec

=============================================================================
