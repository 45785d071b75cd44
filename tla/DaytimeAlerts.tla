--------------------------- MODULE DaytimeAlerts ---------------------------
(***************************************************************************)
(* The daytime short-strike monitor of one recipient.  Every minute it     *)
(* reads the recipient's positions and, position by position, locks the    *)
(* stored row, decides, sends the text message, records the delivery in a  *)
(* transaction of its own and only then commits the row, so a failure on   *)
(* the way leaves the row as it was.  Two processes may run the monitor at *)
(* once: an old and a new one during a deployment.                         *)
(***************************************************************************)
EXTENDS AlertPreferences, FiniteSets

CONSTANTS Monitors,      \* processes that run the monitor
          Positions,     \* open positions, one alert scope each
          Threats,       \* classifications a position can get: [state, side]
          AlertLimit,    \* DAYTIME_ALERT_LIMIT
          AlertWindow,   \* DAYTIME_WINDOW_MINUTES
          MaxMishaps     \* bound on failures after a message has left

ASSUME DaytimeAssumption ==
    /\ Threats \subseteq [state : DayStates, side : {"PUT", "CALL"}]
    /\ AlertLimit \in Nat /\ AlertWindow \in Nat /\ MaxMishaps \in Nat \ {0}
    /\ IsFiniteSet(Monitors) /\ Monitors # {}

VARIABLES
    threat,       \* the classification of each position now
    dayRow,       \* overnight_alert_states, by position
    dayCheck,     \* what each monitor is doing
    deliveries,   \* sms_alert_deliveries of the last hour, with their age
    texted,       \* what the recipient last read of a position in one episode
    texts,        \* the ages of the messages the recipient got
    mishaps       \* failures after a message had left

dayVars == <<threat, dayRow, dayCheck, deliveries, texted, texts, mishaps, preferences>>

DayMarks == DayStates \cup {"NONE"}
Rows == [exists : BOOLEAN, state : DayMarks, side : {"PUT", "CALL", "NONE"}, alerted : DayMarks]
NoRow == [exists |-> FALSE, state |-> "NONE", side |-> "NONE", alerted |-> "NONE"]
Untold == [state |-> "NONE", side |-> "NONE"]
Idle == [pc |-> "idle", left |-> {}, allowed |-> {}, seen |-> [p \in Positions |-> Untold],
         pos |-> "NONE", row |-> NoRow]

DaytimeInit ==
    /\ PreferencesInit
    /\ threat \in [Positions -> Threats]
    /\ dayRow = [p \in Positions |-> NoRow]
    /\ dayCheck = [m \in Monitors |-> Idle]
    /\ deliveries = <<>> /\ texts = <<>>
    /\ texted = [p \in Positions |-> Untold]
    /\ mishaps = 0

MarketTurns(p) ==
    /\ threat' \in {[threat EXCEPT ![p] = t] : t \in Threats}
    /\ UNCHANGED <<dayRow, dayCheck, deliveries, texted, texts, mishaps, preferences>>

RecipientActs ==
    /\ PreferencesChange
    /\ UNCHANGED <<threat, dayRow, dayCheck, deliveries, texted, texts, mishaps>>

Older(s) == [i \in DOMAIN s |-> [s[i] EXCEPT !.age = @ + 1]]

(* Faulty variant: the deliveries are counted without a cutoff.            *)
AgedForever(s) == Older(s)

(* _recent_daytime_deliveries: what is older than the window is never      *)
(* looked at again.  The oldest come first.                                *)
Outdated(s) == {i \in DOMAIN s : s[i].age >= AlertWindow}
Aged(s) == SubSeq(Older(s), Cardinality(Outdated(s)) + 1, Len(s))

MinutePasses ==
    /\ SnoozeRuns
    /\ deliveries' = Aged(deliveries)
    /\ texts' = Aged(texts)
    /\ UNCHANGED <<threat, dayRow, dayCheck, texted, mishaps>>

(* A check begins: mode and subscription are read, then the positions.     *)
StartCheck(m) ==
    /\ dayCheck[m].pc = "idle"
    /\ Subscribed
    /\ AllowedStates(alertMode) # {}
    /\ dayCheck' = [dayCheck EXCEPT ![m] = [Idle EXCEPT !.pc = "checking", !.left = Positions,
                                              !.allowed = AllowedStates(alertMode), !.seen = threat]]
    /\ UNCHANGED <<threat, dayRow, deliveries, texted, texts, mishaps, preferences>>

EndCheck(m) ==
    /\ dayCheck[m].pc = "checking" /\ dayCheck[m].left = {}
    /\ dayCheck' = [dayCheck EXCEPT ![m] = Idle]
    /\ UNCHANGED <<threat, dayRow, deliveries, texted, texts, mishaps, preferences>>

(* with_for_update: an existing row is held from its load to the commit.   *)
RowFree(p) == \A m \in Monitors : ~(dayCheck[m].pc \in {"sending", "sent", "recorded"}
                                     /\ dayCheck[m].pos = p /\ dayCheck[m].row.exists)

(* What a committed observation leaves in the row.                         *)
Reobserved(row, t, alerted) == [exists |-> TRUE, state |-> t.state, side |-> t.side, alerted |-> alerted]

(* The recipient's memory ends with the episode: when the position is      *)
(* GREEN or threatened from the other side.                                *)
Episode(told, t) == IF t.state = "GREEN" \/ t.side # told.side THEN Untold ELSE told

DayWorthATextNow(m, p) ==
    LET c == dayCheck[m]
    IN  /\ DaytimeShouldAlert(dayRow[p], c.seen[p])
        /\ c.seen[p].state \in c.allowed
        /\ DaytimeDeliveryAllowed(alertMode, Snoozed, deliveries, AlertLimit, c.seen[p].state)

(* GREEN re-arms the row; every other state that is not sent is stored.    *)
StoreOnly(m, p) ==
    LET t == dayCheck[m].seen[p]
    IN  /\ dayCheck[m].pc = "checking" /\ p \in dayCheck[m].left /\ RowFree(p)
        /\ ~DayWorthATextNow(m, p)
        /\ dayRow' = [dayRow EXCEPT ![p] =
                        Reobserved(@, t, IF t.state = "GREEN" THEN "NONE" ELSE @.alerted)]
        /\ texted' = [texted EXCEPT ![p] = Episode(@, t)]
        /\ dayCheck' = [dayCheck EXCEPT ![m].left = @ \ {p}]
        /\ UNCHANGED <<threat, deliveries, texts, mishaps, preferences>>

DecideToSend(m, p) ==
    /\ dayCheck[m].pc = "checking" /\ p \in dayCheck[m].left /\ RowFree(p)
    /\ DayWorthATextNow(m, p)
    /\ dayCheck' = [dayCheck EXCEPT ![m] = [@ EXCEPT !.pc = "sending", !.pos = p, !.row = dayRow[p]]]
    /\ UNCHANGED <<threat, dayRow, deliveries, texted, texts, mishaps, preferences>>

(* send_bxk_sms: consent is read once more, then Twilio takes the message. *)
TextDelivered(m) ==
    LET p == dayCheck[m].pos
    IN  /\ dayCheck[m].pc = "sending"
        /\ smsConsent
        /\ texted' = [texted EXCEPT ![p] = dayCheck[m].seen[p]]
        /\ texts' = Append(texts, [age |-> 0])
        /\ dayCheck' = [dayCheck EXCEPT ![m].pc = "sent"]
        /\ UNCHANGED <<threat, dayRow, deliveries, mishaps, preferences>>

RecordDelivery(m) ==
    LET c == dayCheck[m]
    IN  /\ c.pc = "sent"
        /\ deliveries' = Append(deliveries, [age |-> 0, state |-> c.seen[c.pos].state])
        /\ dayCheck' = [dayCheck EXCEPT ![m].pc = "recorded"]
        /\ UNCHANGED <<threat, dayRow, texted, texts, mishaps, preferences>>

(* The commit; a row another monitor inserted meanwhile makes it fail.     *)
CommitRow(m) ==
    LET c == dayCheck[m] IN LET t == c.seen[c.pos]
    IN  /\ c.pc = "recorded"
        /\ c.row.exists \/ ~dayRow[c.pos].exists
        /\ dayRow' = [dayRow EXCEPT ![c.pos] = Reobserved(@, t, t.state)]
        /\ dayCheck' = [dayCheck EXCEPT ![m] = [c EXCEPT !.pc = "checking", !.left = @ \ {c.pos},
                                                  !.pos = "NONE", !.row = NoRow]]
        /\ UNCHANGED <<threat, deliveries, texted, texts, mishaps, preferences>>

InsertCollides(m) ==
    LET c == dayCheck[m]
    IN  c.pc = "recorded" /\ ~c.row.exists /\ dayRow[c.pos].exists

(* No consent, a refused or unanswered message, a failed write or a crash: *)
(* the exception ends the check, the row stays as it was and so do the     *)
(* positions not reached.  A text whose answer is lost counts as sent.     *)
CheckFails(m) ==
    /\ dayCheck[m].pc \in {"sending", "sent", "recorded"}
    /\ IF dayCheck[m].pc # "sending"
       THEN /\ mishaps < MaxMishaps \/ InsertCollides(m)
            /\ mishaps' = IF mishaps < MaxMishaps THEN mishaps + 1 ELSE mishaps
       ELSE UNCHANGED mishaps
    /\ dayCheck' = [dayCheck EXCEPT ![m] = Idle]
    /\ UNCHANGED <<threat, dayRow, deliveries, texted, texts, preferences>>

CheckStep(m) ==
    \/ StartCheck(m) \/ EndCheck(m) \/ CheckFails(m)
    \/ TextDelivered(m) \/ RecordDelivery(m) \/ CommitRow(m)
    \/ \E p \in Positions : StoreOnly(m, p) \/ DecideToSend(m, p)

DaytimeNext ==
    \/ \E m \in Monitors : CheckStep(m)
    \/ \E p \in Positions : MarketTurns(p)
    \/ RecipientActs
    \/ MinutePasses

(* The loop of run_daytime_alert_monitor comes round and its steps end;    *)
(* Twilio does not refuse every message.                                   *)
CheckGoesOn(m) ==
    \/ StartCheck(m) \/ EndCheck(m) \/ RecordDelivery(m) \/ CommitRow(m)
    \/ InsertCollides(m) /\ CheckFails(m)
    \/ \E p \in Positions : StoreOnly(m, p) \/ DecideToSend(m, p)

DaytimeFairness ==
    /\ WF_dayVars(MinutePasses)
    /\ \A m \in Monitors : WF_dayVars(CheckGoesOn(m)) /\ SF_dayVars(TextDelivered(m))

DaytimeSpec == DaytimeInit /\ [][DaytimeNext]_dayVars /\ DaytimeFairness
-----------------------------------------------------------------------------
(* Every variable stays in its type.                                       *)
DaytimeTypeOK ==
    /\ PreferencesTypeOK
    /\ threat \in [Positions -> Threats]
    /\ dayRow \in [Positions -> Rows]
    /\ \A m \in Monitors : dayCheck[m].pc \in {"idle", "checking", "sending", "sent", "recorded"}
    /\ \A i \in DOMAIN deliveries : deliveries[i].age \in 0..AlertWindow
    /\ mishaps \in 0..MaxMishaps

(* Another check has texted and has yet to insert the first row: if a row  *)
(* is inserted meanwhile, its own insert is going to fail.                 *)
FirstInsertPending(m) ==
    \E o \in Monitors \ {m} : dayCheck[o].pc \in {"sent", "recorded"} /\ ~dayCheck[o].row.exists

(* The comment of process_position_threat, "Send before committing state   *)
(* so a failed SMS remains retryable on the next poll", has a price: a     *)
(* commit that fails, or two first observations that collide, repeat the   *)
(* text.  Otherwise a position whose row is known is texted again only     *)
(* when it got worse or turned to the other side, however two monitors     *)
(* interleave.                                                             *)
NoNeedlessRepeat ==
    [][\A m \in Monitors :
         LET c == dayCheck[m] IN LET t == c.seen[c.pos]
         IN  Len(texts') > Len(texts) /\ dayCheck'[m].pc # c.pc /\ c.row.exists /\ mishaps = 0
            /\ ~FirstInsertPending(m)
             => \/ texted[c.pos].state = "NONE"
                \/ texted[c.pos].side # t.side
                \/ DayRank[t.state] > DayRank[texted[c.pos].state]]_dayVars

(* Three texts an hour and one CRITICAL above them: only a delivery that   *)
(* was sent and not recorded adds to that, and a second monitor, which may *)
(* decide at the same moment as the first, once below the limit and once   *)
(* more for the CRITICAL that passes it.                                   *)
TextsAnHourBounded ==
    Len(texts) <= AlertLimit + 1 + mishaps + 2 * (Cardinality(Monitors) - 1)

(* A CRITICAL position is texted in the end, whatever was snoozed or spent *)
(* on other alerts before: once the positions stay as they are, and        *)
(* the recipient stays subscribed in a mode that covers the daytime.       *)
CriticalGetsThrough ==
    \A p \in Positions, settled \in [Positions -> Threats] :
        settled[p].state = "CRITICAL" =>
            (<>[](threat = settled /\ smsConsent /\ AllowedStates(alertMode) # {})
                => <>[](dayRow[p].alerted = "CRITICAL"))

-----------------------------------------------------------------------------
(* Inductive strengthenings, for the proofs.                               *)

DayChecks == [pc : {"idle", "checking", "sending", "sent", "recorded"},
              left : SUBSET Positions, allowed : SUBSET DayStates,
              seen : [Positions -> Threats \cup {Untold}],
              pos : Positions \cup {"NONE"}, row : Rows]

(* What a check remembers of its positions, and what the histories hold.   *)
DayHistories ==
    /\ dayCheck \in [Monitors -> DayChecks]
    /\ \A m \in Monitors : dayCheck[m].pc # "idle" => dayCheck[m].seen \in [Positions -> Threats]
    /\ deliveries \in Seq([age : 0..AlertWindow, state : DayStates])
    /\ texts \in Seq([age : 0..AlertWindow])
    /\ texted \in [Positions -> [state : DayMarks, side : {"PUT", "CALL", "NONE"}]]

Underway(m) == dayCheck[m].pc \in {"sending", "sent", "recorded"}

(* A known row is locked by the one check that is about to write it, and   *)
(* as it was when that check decided.                                      *)
DayLocked ==
    /\ \A p \in Positions : dayRow[p].exists => dayRow[p].state # "NONE" /\ dayRow[p].side # "NONE"
    /\ \A m \in Monitors : Underway(m) =>
          LET c == dayCheck[m]
          IN  /\ c.pos \in Positions
              /\ c.row.exists => c.row = dayRow[c.pos] /\ DaytimeShouldAlert(c.row, c.seen[c.pos])
    /\ \A m, o \in Monitors :
          /\ Underway(m) /\ Underway(o) /\ dayCheck[m].pos = dayCheck[o].pos
          /\ dayCheck[m].row.exists /\ dayCheck[o].row.exists
          => m = o

Told(m, p) == dayCheck[m].pc \in {"sent", "recorded"} /\ dayCheck[m].pos = p

(* Told, but by a check whose insert is going to collide.                  *)
InVain(m) ==
    /\ dayCheck[m].pc \in {"sent", "recorded"}
    /\ ~dayCheck[m].row.exists /\ dayRow[dayCheck[m].pos].exists

(* Unless an insert is about to collide, the row of a position knows what  *)
(* was last read of it, or the only check that told it is going to write   *)
(* it.                                                                     *)
DayTellInv ==
    mishaps = 0 /\ (\A m \in Monitors : ~InVain(m)) =>
        \A p \in Positions :
            /\ (\A m \in Monitors : ~Told(m, p)) =>
                  texted[p].state = "NONE" \/ /\ dayRow[p].exists
                                              /\ dayRow[p].alerted = texted[p].state
                                              /\ dayRow[p].side = texted[p].side
            /\ \A m \in Monitors :
                  Told(m, p) /\ (\A o \in Monitors : Told(o, p) => o = m)
                     => texted[p] = dayCheck[m].seen[p]

InFlight == {m \in Monitors : dayCheck[m].pc \in {"sending", "sent"}}
Unrecorded == {m \in Monitors : dayCheck[m].pc = "sent"}
MildInFlight == {m \in InFlight : dayCheck[m].seen[dayCheck[m].pos].state # "CRITICAL"}
MildDeliveries == {i \in DOMAIN deliveries : deliveries[i].state # "CRITICAL"}

(* Below the limit every monitor may decide at once; on top of what is not *)
(* CRITICAL every monitor may then break through at once.                  *)
LimitInv ==
    /\ Cardinality(MildDeliveries) + Cardinality(MildInFlight)
          <= AlertLimit + Cardinality(Monitors) - 1
    /\ Len(deliveries) + Cardinality(InFlight) <= AlertLimit + 2 * Cardinality(Monitors) - 1

OldestFirst(s) == \A i, j \in DOMAIN s : i <= j => s[j].age <= s[i].age

(* All but the newest texts, as many as were not recorded, have deliveries *)
(* that are not older, in the same order from the newest on.               *)
RecordedInv ==
    /\ OldestFirst(texts) /\ OldestFirst(deliveries)
    /\ LET missing == Cardinality(Unrecorded) + mishaps
           ahead == Len(deliveries) + missing - Len(texts)
       IN  \A i \in DOMAIN texts : i + missing <= Len(texts) =>
              i + ahead \in DOMAIN deliveries /\ deliveries[i + ahead].age <= texts[i].age

=============================================================================
