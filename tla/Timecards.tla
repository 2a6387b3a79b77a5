------------------------------- MODULE Timecards -------------------------------
(***************************************************************************)
(* Attendance and timecards of one employee: checking in and out           *)
(* (drizzle/0007_marvelous_ezekiel.sql), and preparing, submitting,        *)
(* reviewing and correcting (src/overtime/service.js).  Each request is a  *)
(* database transaction under READ COMMITTED that runs concurrently with   *)
(* the others; its statements are separate steps where another commit may  *)
(* come between them and matter.                                           *)
(*                                                                         *)
(* Two locks: the organization row (prepare, correct, save a policy) and   *)
(* the timecard row (submit and review take only this one; prepare and     *)
(* correct take it after the organization).  Who holds a lock is read off  *)
(* the control points.                                                     *)
(*                                                                         *)
(* A pay setting never overlaps another of the same employee (0001), so    *)
(* the setting of a period that has one never changes, and a card's amounts*)
(* are determined by its policy and its evidence: neither is a variable.   *)
(* All the periods modelled have a setting.                                *)
(***************************************************************************)
EXTENDS OvertimeCalculator

CONSTANTS
  Calls,           \* check-in calls under way at once
  Txs,             \* timecard transactions under way at once
  Keys,            \* bound: the requests, each an operation and an identifier
  NPeriods,        \* bound: payroll periods 0 .. NPeriods - 1
  PeriodDays,      \* the days of a period, each of DayUnits
  DayUnits,
  MaxNow,          \* bound on the clock
  MaxIntervals,    \* bound on the intervals
  CorrectedSpans   \* bound: the times a correction may give

ASSUME TimecardsAssumption ==
  /\ NPeriods \in Nat \ {0} /\ PeriodDays \in Nat \ {0}
  /\ DayUnits \in Nat \ {0} /\ MaxNow \in Nat /\ MaxIntervals \in Nat
  /\ CorrectedSpans \subseteq [clockIn : 0..MaxNow, clockOut : 0..MaxNow]
  /\ Keys \subseteq {"prepare", "submit", "approve", "return", "correct", "policy"}
                     \X {key[2] : key \in Keys}

VARIABLES
  now,          \* the database clock
  call,         \* the attendance_check_in calls: when one that found no open interval began
  intervals,    \* attendance_intervals of the employee, in order of insertion
  corrections,  \* attendance_interval_corrections, in order of insertion
  policies,     \* overtime_policies: version -> the period it takes effect with
  cards,        \* timecards: at most one for a period
  event,        \* timecard_events: the last of each card
  receipts,     \* mutation_receipts: the operations and request identifiers done
  tx,           \* the transactions under way
  refused       \* history: an immutability trigger has refused a statement

attendanceVars == <<now, call, intervals>>
cardVars == <<corrections, policies, cards, event, receipts, refused>>
vars == <<attendanceVars, cardVars, tx>>

Periods == 0..(NPeriods - 1)
PolicyStarts == -1..(NPeriods - 1)  \* and one period before them
Idle == -1      \* no call under way
StillOpen == -1 \* clock_out IS NULL
None == 0       \* no version, no correction

Operations == {"prepare", "submit", "approve", "return", "correct", "policy"}
Statuses == {"none", "draft", "submitted", "approved", "returned"}
Spans == [clockIn : 0..MaxNow, clockOut : (0..MaxNow) \cup {StillOpen}]

(* The days of a period (dayBoundaries), and whether it is closed.         *)
Days(p) == [d \in 1..PeriodDays |->
              [start |-> (p * PeriodDays + d - 1) * DayUnits,
               end |-> (p * PeriodDays + d) * DayUnits]]
Closed(p) == (p + 1) * PeriodDays * DayUnits <= now
DayOf(instant) == instant \div DayUnits
DaysOf(p) == (p * PeriodDays)..((p + 1) * PeriodDays - 1)

Intervals == DOMAIN intervals
IsOpen(i) == intervals[i].clockOut = StillOpen
OpenIntervals == {i \in Intervals : IsOpen(i)}

(* intervalSnapshot: the interval with its latest correction in `made'.    *)
CorrectionsOf(i, made) == {k \in DOMAIN made : made[k].interval = i}
LatestCorrection(i, made) ==
  IF CorrectionsOf(i, made) = {} THEN None ELSE Max(CorrectionsOf(i, made))
Effective(i, made) ==
  LET k == LatestCorrection(i, made)
      span == IF k = None THEN intervals[i] ELSE made[k].span
  IN [interval |-> i, correction |-> k,
      clockIn |-> span.clockIn, clockOut |-> span.clockOut]

(* The rows it selects for a period: by their original times.              *)
Selected(p) ==
  {i \in Intervals : /\ intervals[i].clockIn < PeriodSpan(Days(p)).clockOut
                     /\ \/ IsOpen(i)
                        \/ intervals[i].clockOut > PeriodSpan(Days(p)).clockIn}
Evidence(p, made) == {Effective(i, made) : i \in Selected(p)}

(* effectivePolicy: the latest to take effect by the start of the period.  *)
(* saveOvertimePolicy wants the first day of a period, so none takes       *)
(* effect inside another, which would be refused (TIMECARD_MISSING_POLICY),*)
(* as long as the schedule does not change, and here it does not.          *)
PoliciesFor(p) == {v \in DOMAIN policies : policies[v] <= p}
EffectivePolicy(p) ==
  IF PoliciesFor(p) = {} THEN None
  ELSE CHOOSE v \in PoliciesFor(p) :
         \A w \in PoliciesFor(p) : policies[w] <= policies[v]

(* buildSnapshot succeeds. *)
Snapshots(p, made) ==
  /\ Closed(p)
  /\ EffectivePolicy(p) # None
  /\ \A i \in Selected(p) : ~IsOpen(i)
  /\ Calculable(Evidence(p, made), Days(p))

-----------------------------------------------------------------------------
(* Attendance.                                                             *)

(* Assumed: the few statements of a check-in call do not last to the next  *)
(* unit of the clock, so that its row carries the time it is inserted.     *)
Tick ==
  /\ now < MaxNow
  /\ \A c \in Calls : call[c] = Idle
  /\ now' = now + 1
  /\ UNCHANGED <<call, intervals, cardVars, tx>>

(* attendance_check_in: the EXISTS query finds no open interval.  The row  *)
(* will carry transaction_timestamp(), the time the call began.            *)
CheckIn(c) ==
  /\ call[c] = Idle
  /\ OpenIntervals = {}
  /\ Len(intervals) < MaxIntervals
  /\ call' = [call EXCEPT ![c] = now]
  /\ UNCHANGED <<now, intervals, cardVars, tx>>

(* The unique index attendance_one_open_per_employee. *)
OneOpenIndex_Missing(rows) == TRUE
OneOpenIndex(rows) ==
  Cardinality({i \in DOMAIN rows : rows[i].clockOut = StillOpen}) <= 1

(* The INSERT: a unique violation is answered ALREADY_CHECKED_IN. *)
InsertInterval(c) ==
  LET rows == Append(intervals, [clockIn |-> call[c], clockOut |-> StillOpen])
  IN /\ call[c] # Idle
     /\ Len(intervals) < MaxIntervals
     /\ call' = [call EXCEPT ![c] = Idle]
     /\ intervals' = IF OneOpenIndex(rows) THEN rows ELSE intervals
     /\ UNCHANGED <<now, cardVars, tx>>

(* attendance_clock_out: the open row is locked, so two calls take turns   *)
(* and the second finds none; it must end after it began.                  *)
ClockOut ==
  \E i \in OpenIntervals :
    /\ now > intervals[i].clockIn
    /\ intervals' = [intervals EXCEPT ![i].clockOut = now]
    /\ UNCHANGED <<now, call, cardVars, tx>>

-----------------------------------------------------------------------------
(* Requests.  `target' is the period of the card, the interval to correct, *)
(* or the period a policy takes effect with; `expected' the version, or    *)
(* the correction, that the page showed (None: prepare without one);       *)
(* `confirmed' the zero hours confirmation of a submission.                *)

NoSpan == [clockIn |-> 0, clockOut |-> StillOpen]
NoRequest == [op |-> "none", id |-> None, target |-> 0, expected |-> None,
              span |-> NoSpan, confirmed |-> FALSE]
NoTx == [pc |-> "idle", request |-> NoRequest, affected |-> {},
         seen |-> "none", drifted |-> FALSE]

Target(t) == tx[t].request.target
Expected(t) == tx[t].request.expected
Doing(t, op, pc) == tx[t].request.op = op /\ tx[t].pc = pc
Key(t) == <<tx[t].request.op, tx[t].request.id>>

Decisions == {"approve", "return"}
HoldsCard(t, p) == /\ tx[t].pc = "validated"
                   /\ Target(t) = p
HoldsOrganization(t) == tx[t].pc \in {"checked", "selected"}
CardFree_Unlocked(p) == TRUE
CardFree(p) == \A t \in Txs : ~HoldsCard(t, p)
OrganizationFree_Unlocked == TRUE
OrganizationFree == \A t \in Txs : ~HoldsOrganization(t)

Finish(t) == tx' = [tx EXCEPT ![t] = NoTx]
Refuse(t) == Finish(t) /\ UNCHANGED <<attendanceVars, cardVars>>

(* protect_timecard_snapshot and protect_timecard_child_snapshot: what an  *)
(* UPDATE of a card, or of its days and sources, is refused for.           *)
TriggerRefuses(old, new) ==
  \/ old.status = "approved"
  \/ old.status = "submitted" /\ <<new.policy, new.evidence>> # <<old.policy, old.evidence>>

(* addReceipt: the unique index on the operation and the identifier.       *)
ReceiptIndex_Missing(key) == TRUE
ReceiptIndex(key) == key \notin receipts

(* The end of a transaction that writes the cards in `changed', with their *)
(* events, and its receipt: all or nothing.                                *)
CommitCards(t, changed, events) ==
  LET refuses == \E p \in DOMAIN changed : TriggerRefuses(cards[p], changed[p])
      commits == ~refuses /\ ReceiptIndex(Key(t))
      written == {p \in DOMAIN changed : commits}
  IN /\ cards' = [p \in Periods |-> IF p \in written THEN changed[p] ELSE cards[p]]
     /\ event' = [p \in Periods |-> IF p \in written THEN events[p] ELSE event[p]]
     /\ receipts' = IF commits THEN receipts \cup {Key(t)} ELSE receipts
     /\ refused' = (refused \/ refuses)
     /\ Finish(t)

(* The server action and existingReceipt.  A request that has its receipt  *)
(* is answered with what it did, or with TIMECARD_DUPLICATE_REQUEST, and   *)
(* changes nothing; the others go on.                                      *)
Begin(t, request) ==
  /\ tx[t].pc = "idle"
  /\ <<request.op, request.id>> \notin receipts
  /\ tx' = [tx EXCEPT ![t] = [NoTx EXCEPT !.pc = "begun", !.request = request]]
  /\ UNCHANGED <<attendanceVars, cardVars>>

(* The connection is lost, or the statement times out, before the commit.  *)
RollBack(t) == tx[t].pc # "idle" /\ Refuse(t)

-----------------------------------------------------------------------------
(* snapshotValues and replaceEvidence. *)
Rebuilt_Undrafted(p, made) ==
  [status |-> cards[p].status, version |-> cards[p].version + 1,
   policy |-> EffectivePolicy(p), evidence |-> Evidence(p, made)]
Rebuilt(p, made) ==
  [status |-> IF cards[p].status = "none" THEN "draft" ELSE cards[p].status,
   version |-> cards[p].version + 1,
   policy |-> EffectivePolicy(p), evidence |-> Evidence(p, made)]

(* prepareTimecard, from the lock of the organization on.  A submitted or  *)
(* approved card is returned as it is, with a receipt.                     *)
Frozen(p) == cards[p].status \in {"submitted", "approved"}
Prepare(t) ==
  LET p == Target(t)
      stale == /\ cards[p].status # "none" /\ Expected(t) # None
               /\ Expected(t) # cards[p].version
      rebuilt == [q \in {p} |-> Rebuilt(p, corrections)]
      prepared == [q \in {p} |-> [prior |-> cards[p].status,
                                  resulting |-> rebuilt[p].status]]
  IN /\ Doing(t, "prepare", "begun")
     /\ OrganizationFree /\ CardFree(p)
     /\ \/ /\ Frozen(p)
           /\ CommitCards(t, <<>>, <<>>)
           /\ UNCHANGED <<attendanceVars, corrections, policies>>
        \/ /\ ~Frozen(p) /\ ~stale /\ Snapshots(p, corrections)
           /\ CommitCards(t, rebuilt, prepared)
           /\ UNCHANGED <<attendanceVars, corrections, policies>>
        \/ /\ ~Frozen(p) /\ (stale \/ ~Snapshots(p, corrections))
           /\ Refuse(t)

(* The comparison of submitTimecard: the stored policy and evidence        *)
(* against a snapshot built now.                                           *)
StillCurrent(p) ==
  /\ EffectivePolicy(p) = cards[p].policy
  /\ Evidence(p, corrections) = cards[p].evidence

(* submitTimecard: lockCard and the checks.  What it compares can only     *)
(* stop matching, so reading it at once is the case of the last read.      *)
MaySubmit(t) ==
  LET p == Target(t)
  IN /\ cards[p].version = Expected(t)
     /\ cards[p].status \in {"draft", "returned"}
     /\ cards[p].evidence = {} => tx[t].request.confirmed
     /\ Snapshots(p, corrections) /\ StillCurrent(p)
ValidateSubmission(t) ==
  /\ Doing(t, "submit", "begun")
  /\ CardFree(Target(t))
  /\ \/ /\ MaySubmit(t)
        /\ tx' = [tx EXCEPT ![t].pc = "validated",
                            ![t].seen = cards[Target(t)].status]
        /\ UNCHANGED <<attendanceVars, cardVars>>
     \/ ~MaySubmit(t) /\ Refuse(t)

(* The query for an open interval, the update and the commit. *)
Submit(t) ==
  LET p == Target(t)
      submitted == [cards[p] EXCEPT !.status = "submitted", !.version = @ + 1]
  IN /\ Doing(t, "submit", "validated")
     /\ \/ /\ OpenIntervals = {}
           /\ CommitCards(t, [q \in {p} |-> submitted],
                          [q \in {p} |-> [prior |-> tx[t].seen, resulting |-> "submitted"]])
           /\ UNCHANGED <<attendanceVars, corrections, policies>>
        \/ OpenIntervals # {} /\ Refuse(t)

(* transitionReview: lockCard, the checks and, when approving, whether the *)
(* configuration has drifted.  The attendance is not looked at again.      *)
ValidateDecision(t) ==
  LET p == Target(t)
      may == cards[p].version = Expected(t) /\ cards[p].status = "submitted"
  IN /\ tx[t].request.op \in Decisions /\ tx[t].pc = "begun"
     /\ CardFree(p)
     /\ \/ /\ may
           /\ tx' = [tx EXCEPT ![t].pc = "validated", ![t].seen = cards[p].status,
                       ![t].drifted = /\ tx[t].request.op = "approve"
                                      /\ EffectivePolicy(p) # cards[p].policy]
           /\ UNCHANGED <<attendanceVars, cardVars>>
        \/ ~may /\ Refuse(t)

(* Its update and commit: a drifted card is returned instead. *)
Decide(t) ==
  LET p == Target(t)
      resulting == IF tx[t].drifted \/ tx[t].request.op = "return"
                     THEN "returned" ELSE "approved"
      decided == [cards[p] EXCEPT !.status = resulting, !.version = @ + 1]
  IN /\ tx[t].request.op \in Decisions /\ tx[t].pc = "validated"
     /\ CommitCards(t, [q \in {p} |-> decided],
                    [q \in {p} |-> [prior |-> tx[t].seen, resulting |-> resulting]])
     /\ UNCHANGED <<attendanceVars, corrections, policies>>

-----------------------------------------------------------------------------
(* saveOvertimePolicy: one more version, for a period that has none yet.   *)
SavePolicy(t) ==
  LET may == /\ Len(policies) = Expected(t)
             /\ \A v \in DOMAIN policies : policies[v] # Target(t)
             /\ ReceiptIndex(Key(t))
  IN /\ Doing(t, "policy", "begun")
     /\ OrganizationFree
     /\ \/ /\ may
           /\ policies' = Append(policies, Target(t))
           /\ receipts' = receipts \cup {Key(t)}
           /\ Finish(t)
           /\ UNCHANGED <<attendanceVars, corrections, cards, event, refused>>
        \/ ~may /\ Refuse(t)

-----------------------------------------------------------------------------
(* correctAttendanceInterval.                                              *)

NamesInterval(p, i) == \E source \in cards[p].evidence : source.interval = i

(* The organization and the interval are locked; the interval is completed *)
(* and its latest correction the expected one; no submitted or approved    *)
(* card is made of it; the new times are an interval of at most a day that *)
(* no other completed interval overlaps.                                   *)
MayCorrect(t) ==
  LET i == Target(t)
      span == tx[t].request.span
  IN /\ i \in Intervals /\ ~IsOpen(i)
     /\ LatestCorrection(i, corrections) = Expected(t)
     /\ \A p \in Periods : Frozen(p) => ~NamesInterval(p, i)
     /\ span.clockIn < span.clockOut
     /\ span.clockOut - span.clockIn <= MaxIntervalUnits
     /\ \A j \in Intervals \ ({i} \cup OpenIntervals) :
          ~Overlapping(Effective(j, corrections), span)
CheckCorrection(t) ==
  /\ Doing(t, "correct", "begun")
  /\ OrganizationFree
  /\ \/ /\ MayCorrect(t)
        /\ tx' = [tx EXCEPT ![t].pc = "checked"]
        /\ UNCHANGED <<attendanceVars, cardVars>>
     \/ ~MayCorrect(t) /\ Refuse(t)

(* `affected': the draft and returned cards of the days from the first to  *)
(* the last of the original and the new times.                             *)
Affected(i, span) ==
  LET days == {DayOf(instant) : instant \in {intervals[i].clockIn,
                 intervals[i].clockOut, span.clockIn, span.clockOut}}
  IN {p \in Periods : /\ cards[p].status \in {"draft", "returned"}
                      /\ DaysOf(p) \cap (Min(days)..Max(days)) # {}}
SelectAffected(t) ==
  /\ Doing(t, "correct", "checked")
  /\ tx' = [tx EXCEPT ![t].pc = "selected",
                      ![t].affected = Affected(Target(t), tx[t].request.span)]
  /\ UNCHANGED <<attendanceVars, cardVars>>

(* The affected cards are locked, looked at again and rebuilt with the new *)
(* correction; if one cannot be, nothing is kept.                          *)
CorrectionBlocked_Never(affected) == FALSE
CorrectionBlocked(affected) ==
  \E p \in affected : cards[p].status \notin {"draft", "returned"}
Correct(t) ==
  LET made == Append(corrections, [interval |-> Target(t), span |-> tx[t].request.span])
      affected == tx[t].affected
      may == /\ ~CorrectionBlocked(affected)
             /\ \A p \in affected : Snapshots(p, made)
             /\ ReceiptIndex(Key(t))
      rebuilt == [p \in affected |-> Rebuilt(p, made)]
      prepared == [p \in affected |-> [prior |-> cards[p].status,
                                       resulting |-> cards[p].status]]
      refuses == \E p \in affected : TriggerRefuses(cards[p], rebuilt[p])
  IN /\ Doing(t, "correct", "selected")
     /\ \A p \in affected : CardFree(p)
     /\ \/ /\ may
           /\ CommitCards(t, rebuilt, prepared)
           /\ corrections' = IF refuses THEN corrections ELSE made
           /\ UNCHANGED <<attendanceVars, policies>>
        \/ ~may /\ Refuse(t)

-----------------------------------------------------------------------------
(* The requests that pages loaded now can send.  An older page is one      *)
(* whose request began before the others' commits.  An identifier may be   *)
(* sent again, by the same form or with other values.                      *)
Request(op, target, expected) ==
  {[NoRequest EXCEPT !.op = op, !.id = key[2], !.target = target, !.expected = expected]
     : key \in {k \in Keys : k[1] = op}}
FreshRequests ==
  (UNION {   Request("prepare", p, None) \cup Request("prepare", p, cards[p].version)
        \cup Request("approve", p, cards[p].version)
        \cup Request("return", p, cards[p].version)
        \cup {[r EXCEPT !.confirmed = c] :
                r \in Request("submit", p, cards[p].version), c \in BOOLEAN}
          : p \in Periods})
  \cup (UNION {Request("policy", start, Len(policies)) : start \in PolicyStarts})
  \cup {[r EXCEPT !.span = span] : span \in CorrectedSpans, r \in
          UNION {Request("correct", i, LatestCorrection(i, corrections)) : i \in Intervals}}

NoCard == [status |-> "none", version |-> None, policy |-> None, evidence |-> {}]

Init ==
  /\ now = 0
  /\ call = [c \in Calls |-> Idle]
  /\ intervals = <<>>
  /\ corrections = <<>>
  /\ policies = <<>>
  /\ cards = [p \in Periods |-> NoCard]
  /\ event = [p \in Periods |-> [prior |-> "none", resulting |-> "none"]]
  /\ receipts = {}
  /\ tx = [t \in Txs |-> NoTx]
  /\ refused = FALSE

Step(t) ==
  \/ Prepare(t)
  \/ ValidateSubmission(t)
  \/ Submit(t)
  \/ ValidateDecision(t)
  \/ Decide(t)
  \/ SavePolicy(t)
  \/ CheckCorrection(t)
  \/ SelectAffected(t)
  \/ Correct(t)
  \/ RollBack(t)

Next ==
  \/ Tick
  \/ \E c \in Calls : CheckIn(c) \/ InsertInterval(c)
  \/ ClockOut
  \/ \E t \in Txs : Step(t) \/ \E r \in FreshRequests : Begin(t, r)

Spec == Init /\ [][Next]_vars
=============================================================================
