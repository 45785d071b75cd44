------------------------- MODULE OvernightLearning -------------------------
(***************************************************************************)
(* What BXK learns from a night: the market heartbeat freezes an SPX/ES    *)
(* baseline at the close (overnight_baseline_service) and the next opening *)
(* price (trade_journal_service); in between the requests of the overnight *)
(* monitor (overnight_risk_service) freeze the carry decision of each open *)
(* position.  Prices are left out: a baseline and an opening price are the *)
(* trading day they are of.                                                *)
(***************************************************************************)
EXTENDS Naturals, FiniteSets, FiniteSetsExt

CONSTANTS Carried,       \* journal rows of condors
          Watchers,      \* requests of the overnight monitor
          Closures,      \* sets of weekdays that may be exchange holidays
          LastDay        \* bound on the days shown

ASSUME LearningAssumption ==
    LastDay \in Nat \ {0} /\ \A h \in Closures : h \subseteq 1..LastDay

VARIABLES
    clock,        \* the weekday, and the part of it
    holidays,     \* weekdays without a session, unknown to the program
    baselines,    \* days a baseline file exists of
    beats,        \* days whose opening outcomes were recorded
    carryRow,     \* trade_journals: when opened, carry_* and next_open_*
    watch         \* requests of the overnight monitor in progress

learningVars == <<clock, holidays, baselines, beats, carryRow, watch>>

NotOpened == [opened |-> 0, live |-> FALSE, carry |-> 0, openOf |-> 0]
NoWatch == [pc |-> "idle", baseline |-> 0, trade |-> "none", frozen |-> FALSE]

LearningInit ==
    /\ clock = [day |-> 1, part |-> "session"]
    /\ holidays \in Closures
    /\ baselines = {} /\ beats = {}
    /\ carryRow = [e \in Carried |-> NotOpened]
    /\ watch = [w \in Watchers |-> NoWatch]

-----------------------------------------------------------------------------
(* Weekdays: GTH until 9:25, the session from 9:30, its last two minutes,  *)
(* and the evening from 18:00.  No request lasts from 9:25 to 9:30.        *)
PartAfter == [morning |-> "session", session |-> "close", close |-> "evening", evening |-> "morning"]

TimeGoesOn ==
    /\ clock.part = "morning" => \A w \in Watchers : watch[w] = NoWatch
    /\ clock.part = "evening" => clock.day < LastDay
    /\ clock' = [day |-> IF clock.part = "evening" THEN clock.day + 1 ELSE clock.day,
                 part |-> PartAfter[clock.part]]
    /\ UNCHANGED <<holidays, baselines, beats, carryRow, watch>>

InSession == clock.part \in {"session", "close"}     \* get_market_session_phase
Monitoring == clock.part \in {"morning", "evening"}  \* get_spx_gth_session

OpenCondor(e) ==
    /\ InSession /\ clock.day \notin holidays
    /\ carryRow[e] = NotOpened
    /\ carryRow' = [carryRow EXCEPT ![e] = [NotOpened EXCEPT !.opened = clock.day, !.live = TRUE]]
    /\ UNCHANGED <<clock, holidays, baselines, beats, watch>>

CondorEnds(e) ==
    /\ carryRow[e].live
    /\ carryRow' = [carryRow EXCEPT ![e].live = FALSE]
    /\ UNCHANGED <<clock, holidays, baselines, beats, watch>>

-----------------------------------------------------------------------------
(* The "open" the broker's SPX quote shows: of the last session there was. *)
OpenShown == IF (1..clock.day) \ holidays = {} THEN 0 ELSE Max((1..clock.day) \ holidays)

(* Faulty variant: an outcome is recorded again at the next open.          *)
AwaitingAgain(row) == row.carry # 0 /\ row.carry < clock.day

(* record_next_open_outcomes: rows with a carry decision and no outcome.   *)
Awaiting(row) == row.carry # 0 /\ row.openOf = 0 /\ row.carry < clock.day
OpeningsRecorded ==
    [e \in Carried |-> IF Awaiting(carryRow[e]) THEN [carryRow[e] EXCEPT !.openOf = OpenShown] ELSE carryRow[e]]

(* maybe_capture_overnight_baseline: in the last minutes of the session.   *)
MayCapture == clock.part = "close"

(* MarketEngine.update, serialized by its lock.  Each part may fail alone; *)
(* a baseline of the same day is replaced.                                 *)
Heartbeat ==
    /\ InSession
    /\ \E captures, records \in BOOLEAN :
         /\ captures => MayCapture
         /\ baselines' = IF captures THEN baselines \cup {clock.day} ELSE baselines
         /\ beats' = IF records THEN beats \cup {clock.day} ELSE beats
         /\ carryRow' = IF records THEN OpeningsRecorded ELSE carryRow
    /\ UNCHANGED <<clock, holidays, watch>>

-----------------------------------------------------------------------------
(* load_overnight_baseline: the newest one.                                *)
Newest(days) == Max(days)

(* get_live_overnight_risk: the gate and the baseline, then the quote and  *)
(* the positions, which take time.                                         *)
BeginWatch(w) ==
    /\ watch[w] = NoWatch /\ Monitoring /\ baselines # {}
    /\ watch' = [watch EXCEPT ![w] = [NoWatch EXCEPT !.pc = "read", !.baseline = Newest(baselines)]]
    /\ UNCHANGED <<clock, holidays, baselines, beats, carryRow>>

(* record_overnight_carry_snapshot: the row is loaded without a lock ...   *)
Monitored == {e \in Carried : carryRow[e].live}
LoadRow(w, e) ==
    /\ watch[w].pc = "read" /\ e \in Monitored
    /\ watch' = [watch EXCEPT ![w] = [@ EXCEPT !.pc = "loaded", !.trade = e, !.frozen = carryRow[e].carry # 0]]
    /\ UNCHANGED <<clock, holidays, baselines, beats, carryRow>>

(* ... and written unless a decision was in it.                            *)
CommitCarry(w) ==
    LET q == watch[w]
    IN  /\ q.pc = "loaded"
        /\ carryRow' = IF q.frozen THEN carryRow ELSE [carryRow EXCEPT ![q.trade].carry = q.baseline]
        /\ watch' = [watch EXCEPT ![w] = [NoWatch EXCEPT !.pc = "read", !.baseline = q.baseline]]
        /\ UNCHANGED <<clock, holidays, baselines, beats>>

WatchEnds(w) ==
    /\ watch[w] # NoWatch
    /\ watch' = [watch EXCEPT ![w] = NoWatch]
    /\ UNCHANGED <<clock, holidays, baselines, beats, carryRow>>

LearningNext ==
    \/ TimeGoesOn \/ Heartbeat
    \/ \E e \in Carried : OpenCondor(e) \/ CondorEnds(e)
    \/ \E w \in Watchers : \/ BeginWatch(w) \/ CommitCarry(w) \/ WatchEnds(w)
                           \/ \E e \in Carried : LoadRow(w, e)

LearningSpec == LearningInit /\ [][LearningNext]_learningVars
-----------------------------------------------------------------------------
(* Every variable stays in its type.                                       *)
LearningTypeOK ==
    /\ clock \in [day : 1..LastDay, part : DOMAIN PartAfter]
    /\ baselines \subseteq 1..LastDay /\ beats \subseteq 1..LastDay
    /\ carryRow \in [Carried -> [opened : 0..LastDay, live : BOOLEAN, carry : 0..LastDay, openOf : 0..LastDay]]
    /\ watch \in [Watchers -> [pc : {"idle", "read", "loaded"}, baseline : 0..LastDay,
                               trade : Carried \cup {"none"}, frozen : BOOLEAN]]

(* What is learned of a trade is of one night it was held: the decision is *)
(* made on a close it was open at, when that close was captured, and the   *)
(* outcome is the next opening price ("Never use the same trading day's    *)
(* open as the 'next' open"), when no exchange holiday or missed heartbeat *)
(* came between; and neither is ever rewritten by another night, although  *)
(* requests of the monitor race for the row and sessions go by.            *)
LearnedOfItsNight ==
    \A e \in Carried :
        LET r == carryRow[e]
        IN  /\ r.carry # 0 /\ r.opened \in baselines => r.carry >= r.opened
            /\ r.openOf # 0 /\ holidays = {} => r.openOf > r.carry
            /\ r.openOf # 0 /\ holidays = {} /\ 1..clock.day - 1 \subseteq baselines \cap beats
                 => r.openOf = r.carry + 1

-----------------------------------------------------------------------------
(* Inductive strengthenings, for the proofs.                               *)

(* Nothing is of a day to come, and what a session froze is of a day past. *)
DaysPassed ==
    /\ baselines \cup beats \subseteq 1..clock.day
    /\ clock.day \in baselines => clock.part \in {"close", "evening"}
    /\ clock.day \in beats => clock.part # "morning"
    /\ \A e \in Carried :
         LET r == carryRow[e]
         IN  /\ r.opened <= clock.day
             /\ clock.part = "morning" => r.opened < clock.day
             /\ r.carry \in baselines \cup {0}
             /\ r.openOf # 0 => r.carry # 0
             /\ InSession /\ r.carry # 0 => r.opened < clock.day /\ r.carry < clock.day

(* No request lasts into a session, so all of a night hold its baseline.   *)
WatchersAgree ==
    /\ InSession => \A w \in Watchers : watch[w] = NoWatch
    /\ \A w \in Watchers : watch[w].pc # "idle" =>
         watch[w].baseline \in baselines /\ \A b \in baselines : b <= watch[w].baseline
    /\ \A w \in Watchers : watch[w].pc = "loaded" =>
         /\ watch[w].trade \in Carried
         /\ ~watch[w].frozen => /\ carryRow[watch[w].trade].carry \in {0, watch[w].baseline}
                                /\ carryRow[watch[w].trade].openOf = 0

(* A decision that waits for its outcome is of the last night.             *)
NoneMissed(n) == holidays = {} /\ 1..n \subseteq baselines \cap beats
AwaitsTheNext ==
    \A e \in Carried :
        LET r == carryRow[e]
        IN  r.carry # 0 /\ r.openOf = 0 =>
               /\ NoneMissed(clock.day - 1) => r.carry >= clock.day - 1
               /\ clock.part = "evening" /\ NoneMissed(clock.day) => r.carry >= clock.day
               /\ InSession /\ holidays = {} => clock.day \notin beats

=============================================================================
