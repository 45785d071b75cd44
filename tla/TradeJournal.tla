---------------------------- MODULE TradeJournal ----------------------------
(***************************************************************************)
(* The trade journal of one user (trade_journal_service): a row for each   *)
(* opening order, kept by the submission, by the position monitor          *)
(* (position_service), which links live positions to rows, observes them   *)
(* and reconciles the rows that have no position, and by the import of     *)
(* past trades (trade_journal_backfill_service).  Prices and marks are     *)
(* left out: a row knows whether it has its entry fill and a result.       *)
(* The broker is external.                                                 *)
(***************************************************************************)
EXTENDS Naturals, Sequences, FiniteSets

CONSTANTS Entries,      \* opening orders of four legs, quantity 1
          Ours,         \* those the application sends; the others are the user's own
          Closes,       \* orders that close four legs, quantity 1
          Condors,      \* sets of four legs of one expiration
          LegsInUse,    \* the legs each order may have
          Polls,        \* position monitor requests
          OwnerAudit,   \* the user is the OWNER: links go by the audit file
          MaxLosses,    \* bound on broker answers that come back empty
          NoClose

ASSUME JournalAssumption ==
    /\ Entries \cap Closes = {} /\ NoClose \notin Closes /\ Ours \subseteq Entries
    /\ LegsInUse \subseteq [Entries \cup Closes -> Condors]
    /\ OwnerAudit \in BOOLEAN /\ MaxLosses \in Nat

VARIABLES
    legs,        \* the four legs of each order
    atBroker,    \* each order at the broker
    fills,       \* the broker's filled orders, in the order of their fills
    audited,     \* entries of the execution audit file, the newest last
    recording,   \* what the request that sent an entry has yet to record of it
    expired,     \* the expiration has been settled
    journal,     \* the trade_journals rows, by opening order
    poll,        \* position monitor requests in progress
    import,      \* the import in progress
    losses

brokerVars == <<legs, atBroker, fills, expired>>
journalVars == <<brokerVars, audited, recording, journal, poll, import, losses>>

Orders == Entries \cup Closes
Unfinished == {"SUBMITTED", "OPEN"}
NoRowYet == [status |-> "NONE", entryFill |-> FALSE, closing |-> NoClose, result |-> FALSE]
NoRecording == [pc |-> "idle", opened |-> FALSE, priced |-> FALSE, read |-> "NONE"]
NoPoll == [pc |-> "idle", held |-> {}, active |-> {}, left |-> {}, asked |-> {},
           history |-> <<>>, settled |-> FALSE, used |-> {}]
NoImport == [pc |-> "idle", history |-> <<>>, settled |-> FALSE, known |-> {}, entry |-> {}, read |-> "NONE"]

JournalInit ==
    /\ legs \in LegsInUse
    /\ atBroker = [o \in Orders |-> "unsent"]
    /\ fills = <<>> /\ audited = <<>> /\ expired = FALSE
    /\ recording = [e \in Entries |-> NoRecording]
    /\ journal = [e \in Entries |-> NoRowYet]
    /\ poll = [p \in Polls |-> NoPoll]
    /\ import = NoImport
    /\ losses = 0

-----------------------------------------------------------------------------
(* The broker.                                                             *)

Listed(history) == {history[i] : i \in 1..Len(history)}
Before(history, o, q) ==
    \E i, j \in 1..Len(history) : i < j /\ history[i] = o /\ history[j] = q

Filled(o) == atBroker[o] = "filled"
NetOf(c, history) ==
    Cardinality({e \in Entries \cap Listed(history) : legs[e] = c})
      - Cardinality({x \in Closes \cap Listed(history) : legs[x] = c})
Holds(c) == NetOf(c, fills) > 0 /\ ~expired
SentLegs == {legs[e] : e \in {o \in Entries : atBroker[o] = "working"}}

(* A live order of the application, after its overlap check, or one the    *)
(* user enters at the broker's own terminal.  The answer may be lost or    *)
(* the request cut off: then the recording stays where it is.              *)
SubmitEntry(e) ==
    /\ atBroker[e] = "unsent" /\ ~expired
    /\ e \in Ours => legs[e] \notin SentLegs /\ ~Holds(legs[e])
    /\ atBroker' = [atBroker EXCEPT ![e] = "working"]
    /\ recording' = [recording EXCEPT ![e].pc = IF e \in Ours THEN "sent" ELSE @]
    /\ UNCHANGED <<legs, fills, expired, audited, journal, poll, import, losses>>

(* A closing order, at the broker's own terminal or any other way.         *)
SubmitClose(x) ==
    /\ atBroker[x] = "unsent" /\ Holds(legs[x])
    /\ \A y \in Closes : atBroker[y] = "working" => legs[y] # legs[x]
    /\ atBroker' = [atBroker EXCEPT ![x] = "working"]
    /\ UNCHANGED <<legs, fills, expired, audited, recording, journal, poll, import, losses>>

OrderFills(o) ==
    /\ atBroker[o] = "working" /\ ~expired
    /\ atBroker' = [atBroker EXCEPT ![o] = "filled"]
    /\ fills' = Append(fills, o)
    /\ UNCHANGED <<legs, expired, audited, recording, journal, poll, import, losses>>

OrderCancelled(o) ==
    /\ atBroker[o] = "working"
    /\ atBroker' = [atBroker EXCEPT ![o] = "dead"]
    /\ UNCHANGED <<legs, fills, expired, audited, recording, journal, poll, import, losses>>

Expiration ==
    /\ ~expired /\ expired' = TRUE
    /\ atBroker' = [o \in Orders |-> IF atBroker[o] = "working" THEN "dead" ELSE atBroker[o]]
    /\ UNCHANGED <<legs, fills, audited, recording, journal, poll, import, losses>>

-----------------------------------------------------------------------------
(* The request that sent an entry, once the broker has taken it.           *)

Recording(e, pc) == recording[e].pc = pc

(* The SUBMITTED audit; the request goes on when it cannot be written.     *)
AuditSubmitted(e) ==
    /\ Recording(e, "sent")
    /\ audited' \in {audited, Append(audited, e)}
    /\ recording' = [recording EXCEPT ![e].pc = "audited"]
    /\ UNCHANGED <<brokerVars, journal, poll, import, losses>>

(* The order is read once more.  The read may fail; the first answer alone *)
(* may say that the order filled, and then without its price.              *)
ReconcileOrder(e) ==
    /\ Recording(e, "audited")
    /\ \E opened \in {FALSE, Filled(e)} : \E priced \in {FALSE, opened} :
          recording' = [recording EXCEPT ![e] = [@ EXCEPT !.pc = "told", !.opened = opened, !.priced = priced]]
    /\ UNCHANGED <<brokerVars, audited, journal, poll, import, losses>>

(* record_submitted_trade reads the row without a lock,                    *)
RecordLoads(e) ==
    /\ Recording(e, "told")
    /\ recording' = [recording EXCEPT ![e] = [@ EXCEPT !.pc = "loaded", !.read = journal[e].status]]
    /\ UNCHANGED <<brokerVars, audited, journal, poll, import, losses>>

(* Faulty variant: CLOSED has no rank either.                              *)
RankOfLive(status) == CASE status = "SUBMITTED" -> 1 [] status = "OPEN" -> 2 [] OTHER -> 0

(* _STATUS_RANK.  EXPIRED has no rank, and gives way to both.              *)
RankOf(status) == CASE status = "SUBMITTED" -> 1 [] status = "OPEN" -> 2 [] status = "CLOSED" -> 3 [] OTHER -> 0

(* and commits what it changed of the row it read: the status the broker   *)
(* reported, unless that row was as far or further, and a known fill.  The *)
(* other columns stay as they are by then.                                 *)
Recorded(row, read, opened, priced) ==
    LET incoming == IF opened THEN "OPEN" ELSE "SUBMITTED"
    IN  [row EXCEPT !.status = IF RankOf(incoming) > RankOf(read) THEN incoming ELSE @,
                    !.entryFill = @ \/ priced]

(* A row inserted meanwhile collides on the unique index of order ids.     *)
Collides(row, read) == read = "NONE" /\ row.status # "NONE"

RecordCommits(e) ==
    LET c == recording[e]
    IN  /\ Recording(e, "loaded")
        /\ journal' = [journal EXCEPT ![e] = IF Collides(@, c.read) THEN @ ELSE Recorded(@, c.read, c.opened, c.priced)]
        /\ recording' = [recording EXCEPT ![e] = NoRecording]
        /\ UNCHANGED <<brokerVars, audited, poll, import, losses>>

-----------------------------------------------------------------------------
(* Final results.                                                          *)

(* Faulty variant: any filled closing order will do.                       *)
MatchingAny(e, history, used) == (Closes \cap Listed(history)) \ used

(* Faulty variant: any order of the same legs, the entry itself included.  *)
MatchingLegs(e, history, used) == {o \in Listed(history) \ used : legs[o] = legs[e]}

(* _closing_order_matches: a filled order of the opposite actions on the   *)
(* same legs.  Nothing asks when it filled.                                *)
Opposes(x, e) == legs[x] = legs[e]
Matching(e, history, used) ==
    {x \in (Closes \cap Listed(history)) \ used : Opposes(x, e)}

Earliest(history, S) ==
    CHOOSE x \in S : \A y \in S \ {x} : Before(history, x, y)

(* finalize_closed_trade, under the row's lock: a closed row keeps its     *)
(* closing order.  The opening order supplies the fill the row lacks.      *)
HasItsClose(row) == row.status = "CLOSED" /\ row.closing # NoClose
FinalizedClosed(row, x, opening) ==
    IF HasItsClose(row) THEN row
    ELSE LET known == row.entryFill \/ opening
         IN  [status |-> "CLOSED", entryFill |-> known, closing |-> x, result |-> known]

(* No two rows name the same closing order: the unique index refuses it.   *)
NamedElsewhere(e, x) == ~HasItsClose(journal[e]) /\ \E f \in Entries \ {e} : journal[f].closing = x

(* _expiration_settlement_evidence: settled legs of exactly this quantity. *)
Settled(c) == NetOf(c, fills)
Settlement(e) == Settled(legs[e]) = 1

(* finalize_expired_trade: refused without evidence or an entry fill.      *)
MayExpire(row, e, opening) ==
    row.status \notin {"CLOSED", "EXPIRED"} /\ Settlement(e) /\ (row.entryFill \/ opening)
FinalizedExpired(row, e, opening) ==
    IF ~MayExpire(row, e, opening) THEN row
    ELSE [status |-> "EXPIRED", entryFill |-> TRUE, closing |-> NoClose, result |-> TRUE]

-----------------------------------------------------------------------------
(* get_position_monitor.                                                   *)

Poll(p, pc) == poll[p].pc = pc
Loses(n) == losses' = losses + n /\ losses' <= MaxLosses

(* The positions, or none when the broker's answer fails.                  *)
ReadHeld(p) ==
    /\ Poll(p, "idle")
    /\ \E n \in {0, 1} :
          /\ Loses(n)
          /\ poll' = [poll EXCEPT ![p] = [NoPoll EXCEPT !.pc = "link",
                        !.held = IF n = 1 THEN {} ELSE {c \in Condors : Holds(c)}]]
    /\ UNCHANGED <<brokerVars, audited, recording, journal, import>>

(* link_positions_to_submissions takes the newest audited entry of the     *)
(* same legs; link_positions_to_journals takes the row of the same legs,   *)
(* when there is one only.                                                 *)
AuditedWith(c) == {i \in 1..Len(audited) : legs[audited[i]] = c}
RowsWith(c) == {e \in Entries : journal[e].status \in Unfinished /\ legs[e] = c}
LinkOf(c) ==
    IF OwnerAudit /\ AuditedWith(c) # {}
    THEN {audited[i] : i \in {j \in AuditedWith(c) : \A k \in AuditedWith(c) : k <= j}}
    ELSE IF Cardinality(RowsWith(c)) = 1 THEN RowsWith(c) ELSE {}

(* Each linked row is observed: open, unless it is final or missing.       *)
Observed(row) == IF row.status \in Unfinished THEN [row EXCEPT !.status = "OPEN"] ELSE row
Observe(p) ==
    LET active == UNION {LinkOf(c) : c \in poll[p].held}
    IN  /\ Poll(p, "link")
        /\ journal' = [e \in Entries |-> IF e \in active THEN Observed(journal[e]) ELSE journal[e]]
        /\ poll' = [poll EXCEPT ![p] = [NoPoll EXCEPT !.pc = "candidates", !.active = active]]
        /\ UNCHANGED <<brokerVars, audited, recording, import, losses>>

(* reconcile_missing_trade_journals: unfinished rows without a position.   *)
ReadCandidates(p) ==
    LET asked == {e \in Entries : journal[e].status \in Unfinished} \ poll[p].active
    IN  /\ Poll(p, "candidates")
        /\ poll' = [poll EXCEPT ![p] = IF asked = {} THEN NoPoll
                                       ELSE [NoPoll EXCEPT !.pc = "history", !.asked = asked, !.left = asked]]
        /\ UNCHANGED <<brokerVars, audited, recording, journal, import, losses>>

(* Filled orders and settlements.  They are posted hours after trading     *)
(* ends, so no fill falls between the two reads when there are any.        *)
SettlementsPosted == expired
ReadHistory(p) ==
    /\ Poll(p, "history")
    /\ \E n \in {0, 1} :
          /\ Loses(n)
          /\ poll' = [poll EXCEPT ![p] = [@ EXCEPT !.pc = "finalize", !.settled = SettlementsPosted,
                                            !.history = IF n = 1 THEN <<>> ELSE fills]]
    /\ UNCHANGED <<brokerVars, audited, recording, journal, import>>

(* Settlements name no order: two candidates of the same legs block both.  *)
Ambiguous(p, e) == \E f \in poll[p].asked \ {e} : legs[f] = legs[e]

(* One candidate after the other; used keeps a closing order from serving  *)
(* two rows of the same call.                                              *)
FinalizeOne(p, e) ==
    LET q == poll[p]
        matching == Matching(e, q.history, q.used)
        x == Earliest(q.history, matching)
    IN  /\ Poll(p, "finalize") /\ e \in q.left
        /\ matching # {} => ~NamedElsewhere(e, x)
        /\ \E opening \in {Filled(e), FALSE} :
              journal' = [journal EXCEPT ![e] =
                  IF matching # {} THEN FinalizedClosed(@, x, opening)
                  ELSE IF q.settled /\ ~Ambiguous(p, e) THEN FinalizedExpired(@, e, opening)
                  ELSE @]
        /\ poll' = [poll EXCEPT ![p] = IF q.left = {e} THEN NoPoll
                     ELSE [q EXCEPT !.left = @ \ {e},
                                    !.used = IF matching = {} THEN @ ELSE @ \cup {x}]]
        /\ UNCHANGED <<brokerVars, audited, recording, import, losses>>

(* The request is cut off, or a call raises (a closing order another row   *)
(* names, for one) and the monitor goes on without the rest.               *)
PollEnds(p) ==
    /\ poll[p].pc # "idle"
    /\ poll' = [poll EXCEPT ![p] = NoPoll]
    /\ UNCHANGED <<brokerVars, audited, recording, journal, import, losses>>

-----------------------------------------------------------------------------
(* backfill_trade_journal.                                                 *)

ReadForImport ==
    /\ import.pc = "idle"
    /\ import' = [NoImport EXCEPT !.pc = "plan", !.history = fills, !.settled = SettlementsPosted]
    /\ UNCHANGED <<brokerVars, audited, recording, journal, poll, losses>>

PlanImport ==
    /\ import.pc = "plan"
    /\ import' = [import EXCEPT !.pc = "next",
                                !.known = {e \in Entries : journal[e].status # "NONE"}]
    /\ UNCHANGED <<brokerVars, audited, recording, journal, poll, losses>>

(* _build_plan: identical condors and several closes are left alone.       *)
Openings == Entries \cap Listed(import.history)
ClosesAfter(e) == {x \in Matching(e, import.history, {}) : Before(import.history, e, x)}
PreviewHolds(e) == ClosesAfter(e) = {} /\ import.settled => Settlement(e)
Importable(e) ==
    /\ e \in Openings \ import.known
    /\ \A f \in Openings \ {e} : legs[f] # legs[e]
    /\ Cardinality(ClosesAfter(e)) <= 1
    /\ PreviewHolds(e)

(* record_submitted_trade again, of a filled order and its price: the row  *)
(* is read without a lock, a collision ends the import,                    *)
ImportLoads(e) ==
    /\ import.pc = "next" /\ Importable(e)
    /\ import' = [import EXCEPT !.pc = "loaded", !.known = @ \cup {e}, !.entry = {e}, !.read = journal[e].status]
    /\ UNCHANGED <<brokerVars, audited, recording, journal, poll, losses>>

ImportCommits(e) ==
    /\ import.pc = "loaded" /\ import.entry = {e}
    /\ ~Collides(journal[e], import.read)
    /\ journal' = [journal EXCEPT ![e] = Recorded(@, import.read, TRUE, TRUE)]
    /\ import' = [import EXCEPT !.pc = "normalize", !.read = "NONE"]
    /\ UNCHANGED <<brokerVars, audited, recording, poll, losses>>

(* and _normalize_imported_row is a transaction of its own.                *)
NormalizeImportedRow(e) ==
    /\ import.pc = "normalize" /\ import.entry = {e}
    /\ journal' = [journal EXCEPT ![e].entryFill = TRUE]
    /\ import' = [import EXCEPT !.pc = "final"]
    /\ UNCHANGED <<brokerVars, audited, recording, poll, losses>>

FinalizeImport(e) ==
    /\ import.pc = "final" /\ import.entry = {e}
    /\ \A x \in ClosesAfter(e) : ~NamedElsewhere(e, x)
    /\ journal' = [journal EXCEPT ![e] =
           IF ClosesAfter(e) # {} THEN FinalizedClosed(@, CHOOSE x \in ClosesAfter(e) : TRUE, TRUE)
           ELSE IF import.settled THEN FinalizedExpired(@, e, TRUE) ELSE @]
    /\ import' = [import EXCEPT !.pc = "next", !.entry = {}]
    /\ UNCHANGED <<brokerVars, audited, recording, poll, losses>>

(* The list is done, or a call raises.                                     *)
ImportEnds ==
    /\ import.pc # "idle"
    /\ import' = NoImport
    /\ UNCHANGED <<brokerVars, audited, recording, journal, poll, losses>>

-----------------------------------------------------------------------------
BrokerStep ==
    \/ \E e \in Entries : SubmitEntry(e)
    \/ \E x \in Closes : SubmitClose(x)
    \/ \E o \in Orders : OrderFills(o) \/ OrderCancelled(o)
    \/ Expiration

RecorderStep(e) == AuditSubmitted(e) \/ ReconcileOrder(e) \/ RecordLoads(e) \/ RecordCommits(e)

MonitorStep(p) ==
    \/ ReadHeld(p) \/ Observe(p) \/ ReadCandidates(p) \/ ReadHistory(p)
    \/ \E e \in Entries : FinalizeOne(p, e)
    \/ PollEnds(p)

ImportStep ==
    \/ ReadForImport \/ PlanImport \/ ImportEnds
    \/ \E e \in Entries :
          ImportLoads(e) \/ ImportCommits(e) \/ NormalizeImportedRow(e) \/ FinalizeImport(e)

JournalNext ==
    \/ BrokerStep
    \/ \E e \in Entries : RecorderStep(e)
    \/ \E p \in Polls : MonitorStep(p)
    \/ ImportStep

JournalSpec == JournalInit /\ [][JournalNext]_journalVars

-----------------------------------------------------------------------------
RowStatuses == {"NONE", "SUBMITTED", "OPEN", "CLOSED", "EXPIRED"}
JournalRows == [status : RowStatuses, entryFill : BOOLEAN,
                closing : Closes \cup {NoClose}, result : BOOLEAN]

(* What each variable holds.                                               *)
JournalTypeOK ==
    /\ atBroker \in [Orders -> {"unsent", "working", "filled", "dead"}]
    /\ Listed(fills) = {o \in Orders : Filled(o)} /\ Len(fills) = Cardinality(Listed(fills))
    /\ Listed(audited) \subseteq Entries
    /\ journal \in [Entries -> JournalRows]
    /\ \A p \in Polls : poll[p].left \subseteq poll[p].asked /\ poll[p].used \subseteq Closes
    /\ losses \in 0..MaxLosses

AllDiffer == \A e \in Entries : \A f \in Entries \ {e} : legs[e] # legs[f]

(* A closed row names an order that filled after its own entry: the        *)
(* closing order is confirmed, and it is the one that closed this trade    *)
(* (reconcile_missing_trade_journals: "Mere disappearance never closes a   *)
(* journal.  A matching FILLED broker closing order is required.").        *)
ClosedByOwnClose ==
    \A e \in Entries : journal[e].status = "CLOSED" => Before(fills, e, journal[e].closing)

(* A row said to have expired was a position on the day it expired: its    *)
(* entry filled and nothing closed it.                                     *)
ExpiredRowWasHeld ==
    \A e \in Entries : journal[e].status = "EXPIRED" =>
        /\ expired /\ Filled(e)
        /\ ~\E x \in Closes : legs[x] = legs[e] /\ Before(fills, e, x)

(* However the positions, the candidates, the history and the settlements  *)
(* a row is judged by come to be read, an ended row ended that way: closed *)
(* by its own closing order, as long as no two entries have the same legs, *)
(* or expired as a position, as long as they have not or no broker answer  *)
(* came back empty.                                                        *)
EndedRowsTrue ==
    /\ AllDiffer => ClosedByOwnClose
    /\ AllDiffer \/ losses = 0 => ExpiredRowWasHeld

(* A closed row keeps its closing order and its result for good, whatever  *)
(* monitor, reconciliation, late record or import comes after.  Its status *)
(* is taken back only by a record or an import that read the row, without  *)
(* a lock, before it was closed, and judged by what it read.               *)
ReadBeforeClose(e) ==
    \/ Recording(e, "loaded") /\ recording[e].read \notin {"NONE", "CLOSED"}
    \/ import.pc = "loaded" /\ import.entry = {e} /\ import.read \notin {"NONE", "CLOSED"}

ClosedIsFinal ==
    [][\A e \in Entries : journal[e].status = "CLOSED" =>
          /\ journal'[e].closing = journal[e].closing /\ journal'[e].result = journal[e].result
          /\ journal'[e].status = "CLOSED" \/ ReadBeforeClose(e)]_journalVars

-----------------------------------------------------------------------------
(* Inductive strengthenings, for the proofs.                               *)

PollRows == [pc : {"idle", "link", "candidates", "history", "finalize"}, held : SUBSET Condors,
             active : SUBSET Entries, left : SUBSET Entries, asked : SUBSET Entries,
             history : Seq(Orders), settled : BOOLEAN, used : SUBSET Closes]
ImportRows == [pc : {"idle", "plan", "next", "loaded", "normalize", "final"}, history : Seq(Orders),
               settled : BOOLEAN, known : SUBSET Entries, entry : SUBSET Entries,
               read : RowStatuses]
RecordingRows == [pc : {"idle", "sent", "audited", "told", "loaded"}, opened : BOOLEAN,
                  priced : BOOLEAN, read : RowStatuses]
JournalState ==
    /\ legs \in [Orders -> Condors] /\ expired \in BOOLEAN
    /\ fills \in Seq(Orders) /\ audited \in Seq(Entries)
    /\ poll \in [Polls -> PollRows] /\ import \in ImportRows

(* A closing order is sent, and so fills, after an entry it closes.        *)
ClosesFollow ==
    /\ \A x \in Closes : atBroker[x] # "unsent" =>
          \E e \in Entries \cap Listed(fills) : legs[e] = legs[x]
    /\ \A x \in Closes \cap Listed(fills) :
          \E e \in Entries : legs[e] = legs[x] /\ Before(fills, e, x)

(* What a row says of its orders, and of how the trade ended.              *)
RowFits(e, row) ==
    /\ row \in JournalRows
    /\ row.entryFill => Filled(e)
    /\ row.status = "CLOSED" =>
          row.closing \in Closes /\ (AllDiffer => Before(fills, e, row.closing))
    /\ row.status = "EXPIRED" /\ (AllDiffer \/ losses = 0) =>
          /\ expired /\ Filled(e)
          /\ ~\E x \in Closes : legs[x] = legs[e] /\ Before(fills, e, x)

(* What was read of the broker is a past of it, and its end once settled.  *)
Remembers(history) ==
    Len(history) <= Len(fills) /\ \A i \in 1..Len(history) : history[i] = fills[i]
PollFits(q) ==
    /\ Remembers(q.history)
    /\ q.settled => expired /\ (losses = 0 => q.history = fills)
    /\ q.left \subseteq q.asked
    /\ \A x \in q.used : \E f \in q.asked \ q.left : legs[f] = legs[x]
ImportBehind ==
    /\ Remembers(import.history)
    /\ import.settled => expired /\ import.history = fills
    /\ import.entry \subseteq Openings

RowsInv ==
    /\ JournalTypeOK /\ JournalState /\ ClosesFollow /\ ImportBehind
    /\ \A e \in Entries : RowFits(e, journal[e])
    /\ \A p \in Polls : PollFits(poll[p]) /\ \A e \in poll[p].asked : journal[e].status # "NONE"

(* A price that was read is that of a fill.                                *)
RecordingFits ==
    /\ recording \in [Entries -> RecordingRows]
    /\ \A e \in Entries : recording[e].priced => Filled(e)

JournalInv == RowsInv /\ RecordingFits

=============================================================================
