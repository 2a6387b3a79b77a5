---------------------------- MODULE TimecardsProofs ----------------------------
(***************************************************************************)
(* Proofs about Timecards, for any number of check-ins, transactions,      *)
(* periods, intervals and corrections at once.                             *)
(*                                                                         *)
(* The argument: a transaction that has looked at its card holds the lock  *)
(* of it (Exclusive), so what it has seen is so when it writes             *)
(* (ValidatedIsCurrent) and no trigger refuses it.  A correction holds the *)
(* lock of the organization from its checks to its commit, so no draft is  *)
(* prepared between the selection of the affected cards and their          *)
(* rebuilding, and the days it selects by cover every period the original  *)
(* interval was read for (AffectedCovers).                                 *)
(***************************************************************************)
EXTENDS MCTimecards, NumberLemmas, FiniteSetTheorems

-----------------------------------------------------------------------------
(***************************************************************************)
(* The inductive invariant.                                                *)
(***************************************************************************)
Correction == [interval : Nat \ {0}, span : CorrectedSpans]

(* What a transaction under way carries, and the requests pages send.      *)
Pcs == {"idle", "begun", "validated", "checked", "selected"}
Ids == {key[2] : key \in Keys} \cup {None}
RequestRecord == [op : Operations \cup {"none"}, id : Ids, target : Int, expected : Nat,
                  span : CorrectedSpans \cup {NoSpan}, confirmed : BOOLEAN]
TxRecord == [pc : Pcs, request : RequestRecord, affected : SUBSET Periods,
             seen : Statuses, drifted : BOOLEAN]
CardRequests == {"prepare", "submit", "approve", "return"}
WellFormed(r) ==
  /\ <<r.op, r.id>> \in Keys
  /\ r.op \in CardRequests => r.target \in Periods
  /\ r.op = "policy" => r.target \in PolicyStarts
  /\ r.op = "correct" => r.target \in Nat \ {0} /\ r.span \in CorrectedSpans
TxTypeOK ==
  /\ tx \in [Txs -> TxRecord]
  /\ \A t \in Txs : tx[t].pc # "idle" => WellFormed(tx[t].request)

(* What a submission or a decision has found of its card still is so, and  *)
(* a card that is so can be submitted, or decided.                         *)
ValidatedIsCurrent(t) ==
  tx[t].pc = "validated" =>
    /\ tx[t].seen = cards[Target(t)].status
    /\ \/ tx[t].request.op = "submit" /\ tx[t].seen \in {"draft", "returned"}
       \/ tx[t].request.op \in Decisions /\ tx[t].seen = "submitted"

(* The locks that are held between two steps are corrections' of completed *)
(* intervals, and each is held once.                                       *)
CorrectsAnInterval(t) ==
  HoldsOrganization(t) =>
    tx[t].request.op = "correct" /\ Target(t) \in Intervals \ OpenIntervals
Exclusive ==
  \A t, u \in Txs :
    /\ HoldsOrganization(t) /\ HoldsOrganization(u) => t = u
    /\ tx[t].pc = "validated" /\ HoldsCard(u, Target(t)) => t = u

(* A check-in inserts the time it is inserted at.                          *)
CallsAreNow == \A c \in Calls : call[c] \in {Idle, now}

(* Attendance does not reach back to the period of a draft, and a          *)
(* correction that has selected its cards has missed no draft of its       *)
(* interval.                                                               *)
DraftsAreClosed ==
  \A p \in Periods : cards[p].status = "draft" =>
    Closed(p) /\ Selected(p) \cap OpenIntervals = {}
DraftsAreAffected(t) ==
  tx[t].pc = "selected" =>
    \A p \in Periods : cards[p].status = "draft" /\ Target(t) \in Selected(p) =>
      p \in tx[t].affected

TInv ==
  /\ TypeOK /\ TxTypeOK /\ OneOpenInterval /\ NeverRefused /\ Exclusive /\ CallsAreNow
  /\ \A p \in Periods : event[p].resulting = cards[p].status
  /\ \A t \in Txs : ValidatedIsCurrent(t) /\ CorrectsAnInterval(t) /\ DraftsAreAffected(t)
  /\ DraftsAreClosed /\ DraftsAsAttended

(* Every interval that ended, and every correction, is of some length, and *)
(* only completed intervals are corrected.                                 *)
WellOrdered(span) == span.clockIn < span.clockOut
WorkIsCompleted ==
  /\ \A i \in Intervals \ OpenIntervals : WellOrdered(intervals[i])
  /\ \A k \in DOMAIN corrections : /\ corrections[k].interval \in Intervals \ OpenIntervals
                                   /\ WellOrdered(corrections[k].span)
  /\ \A t \in Txs : HoldsOrganization(t) => WellOrdered(tx[t].request.span)
WorkInv == TInv /\ WorkIsCompleted

-----------------------------------------------------------------------------
(* The latest correction of an interval is one of it, when there is one.   *)
LEMMA LatestTyped ==
  ASSUME NEW made \in Seq(Correction), NEW i
  PROVE  /\ LatestCorrection(i, made) \in Nat
         /\ LatestCorrection(i, made) # None =>
              LatestCorrection(i, made) \in CorrectionsOf(i, made)
<1> DEFINE S == CorrectionsOf(i, made)
<1>1. S \in SUBSET Int /\ S \in SUBSET Nat /\ \A x \in S : x <= Len(made)
  BY DEF CorrectionsOf
<1>2. CASE S = {}
  BY <1>2 DEF LatestCorrection, None
<1>3. CASE S # {}
  <2>1. Max(S) \in S
    <3>1. Len(made) \in Int
      OBVIOUS
    <3> HIDE DEF S
    <3> QED
      BY <1>1, <1>3, <3>1, LargestOf
  <2> QED
    BY <1>1, <1>3, <2>1 DEF LatestCorrection
<1> QED
  BY <1>2, <1>3

(* The effective times of an interval; of a completed one they are times.  *)
LEMMA EffectiveTyped ==
  ASSUME intervals \in Seq(Spans), NEW made \in Seq(Correction), NEW i \in Intervals
  PROVE  /\ Effective(i, made).interval = i
         /\ Effective(i, made).correction = LatestCorrection(i, made)
         /\ Effective(i, made).clockIn \in 0..MaxNow
         /\ Effective(i, made).clockOut \in (0..MaxNow) \cup {StillOpen}
         /\ ~IsOpen(i) => /\ Effective(i, made).clockOut \in 0..MaxNow
                          /\ Effective(i, made) \in
                               [interval : Nat \ {0}, correction : Nat,
                                clockIn : 0..MaxNow, clockOut : 0..MaxNow]
<1>1. intervals[i] \in Spans /\ i \in Nat \ {0}
  BY DEF Intervals
<1>2. CASE LatestCorrection(i, made) = None
  BY <1>1, <1>2, LatestTyped DEF Effective, Spans, IsOpen
<1>3. CASE LatestCorrection(i, made) # None
  <2>1. LatestCorrection(i, made) \in DOMAIN made
    BY <1>3, LatestTyped DEF CorrectionsOf
  <2>2. made[LatestCorrection(i, made)].span \in CorrectedSpans
    <3>1. \A k \in DOMAIN made : made[k] \in Correction
      OBVIOUS
    <3> QED
      BY <2>1, <3>1 DEF Correction
  <2>3. made[LatestCorrection(i, made)].span \in [clockIn : 0..MaxNow, clockOut : 0..MaxNow]
    BY <2>2, TimecardsAssumption
  <2> QED
    BY <1>1, <1>3, <2>3, LatestTyped DEF Effective
<1> QED
  BY <1>2, <1>3

(* The evidence of a period without open intervals is of completed ones.   *)
LEMMA EvidenceTyped ==
  ASSUME intervals \in Seq(Spans), NEW made \in Seq(Correction), NEW p,
         \A i \in Selected(p) : ~IsOpen(i)
  PROVE  Evidence(p, made) \in SUBSET [interval : Nat \ {0}, correction : Nat,
                                       clockIn : 0..MaxNow, clockOut : 0..MaxNow]
<1>1. Selected(p) \subseteq Intervals
  BY DEF Selected
<1> QED
  BY <1>1, EffectiveTyped DEF Evidence

(* The policy in force is a version: of those that apply, one is the       *)
(* latest to take effect.                                                  *)
LEMMA PolicyTyped ==
  ASSUME policies \in Seq(PolicyStarts), NEW p \in Periods
  PROVE  EffectivePolicy(p) \in Nat
<1>0. p \in Int
  BY DEF Periods
<1>1. CASE PoliciesFor(p) = {}
  BY <1>1 DEF EffectivePolicy, None
<1>2. CASE PoliciesFor(p) # {}
  <2> DEFINE starts == {policies[v] : v \in PoliciesFor(p)}
  <2>1. starts \in SUBSET Int /\ starts # {} /\ \A x \in starts : x <= p
    BY <1>0, <1>2, TimecardsAssumption DEF PoliciesFor, PolicyStarts
  <2>2. Max(starts) \in starts /\ \A x \in starts : x <= Max(starts)
    <3> HIDE DEF starts
    <3> QED
      BY <1>0, <2>1, LargestOf
  <2>3. \E v \in PoliciesFor(p) : \A w \in PoliciesFor(p) : policies[w] <= policies[v]
    BY <2>2
  <2>4. EffectivePolicy(p) \in PoliciesFor(p)
    BY <1>2, <2>3 DEF EffectivePolicy
  <2> QED
    BY <2>4 DEF PoliciesFor
<1> QED
  BY <1>1, <1>2

(* A rebuilt card is a card that exists, made of the evidence it is        *)
(* rebuilt from.                                                           *)
LEMMA RebuiltTyped ==
  ASSUME TypeOK, NEW p \in Periods, NEW made \in Seq(Correction), Snapshots(p, made)
  PROVE  /\ Rebuilt(p, made) \in Card
         /\ Rebuilt(p, made).status # "none" /\ Rebuilt(p, made).version # None
         /\ Rebuilt(p, made).evidence = Evidence(p, made)
<1>1. cards[p] \in Card
  BY DEF TypeOK
<1>2. EffectivePolicy(p) \in Nat
  BY PolicyTyped DEF TypeOK
<1>3. Evidence(p, made) \in SUBSET [interval : Nat \ {0}, correction : Nat,
                                    clockIn : 0..MaxNow, clockOut : 0..MaxNow]
  BY EvidenceTyped DEF TypeOK, Snapshots
<1> QED
  BY <1>1, <1>2, <1>3 DEF Rebuilt, Card, Statuses, None

(* A correction leaves the other intervals as they were.                   *)
LEMMA AppendedCorrection ==
  ASSUME intervals \in Seq(Spans), NEW made \in Seq(Correction), NEW new \in Correction,
         NEW j, j # new.interval
  PROVE  Effective(j, Append(made, new)) = Effective(j, made)
<1> DEFINE more == Append(made, new)
<1>1. /\ DOMAIN made = 1..Len(made) /\ DOMAIN more = 1..(Len(made) + 1)
      /\ more[Len(made) + 1] = new /\ \A k \in DOMAIN made : more[k] = made[k]
  OBVIOUS
<1> HIDE DEF more
<1>2. CorrectionsOf(j, more) = CorrectionsOf(j, made)
  BY <1>1 DEF CorrectionsOf
<1>3. LatestCorrection(j, more) = LatestCorrection(j, made)
  BY <1>2 DEF LatestCorrection
<1>4. CASE LatestCorrection(j, made) = None
  BY <1>3, <1>4 DEF Effective, more
<1>5. CASE LatestCorrection(j, made) # None
  <2>1. LatestCorrection(j, made) \in DOMAIN made
    BY <1>5, LatestTyped DEF CorrectionsOf
  <2> QED
    BY <1>1, <1>3, <2>1 DEF Effective, more
<1> QED
  BY <1>4, <1>5

-----------------------------------------------------------------------------
(* Between two requests a transaction is of its type.                      *)
LEMMA NoTxTyped == NoTx \in TxRecord
<1>1. NoRequest \in RequestRecord
  BY DEF RequestRecord, NoRequest, Ids, None
<1> QED
  BY <1>1 DEF NoTx, TxRecord, Pcs, Statuses

(* What the pages send is well formed.                                     *)
LEMMA RequestsTyped ==
  ASSUME TypeOK, NEW r \in FreshRequests
  PROVE  r \in RequestRecord /\ WellFormed(r)
<1>0. \A k \in Keys : k = <<k[1], k[2]>> /\ k[1] \in Operations /\ k[2] \in Ids
  BY TimecardsAssumption DEF Operations, Ids
<1>1. ASSUME NEW op \in Operations, NEW target \in Int, NEW expected \in Nat,
             NEW x \in Request(op, target, expected)
      PROVE  /\ x \in RequestRecord /\ <<x.op, x.id>> \in Keys
             /\ x.op = op /\ x.target = target
  <2>1. PICK k \in Keys : k[1] = op /\ x = [NoRequest EXCEPT !.op = op, !.id = k[2],
                                            !.target = target, !.expected = expected]
    BY DEF Request
  <2>2. x = [op |-> op, id |-> k[2], target |-> target, expected |-> expected,
             span |-> NoSpan, confirmed |-> FALSE]
    BY <2>1 DEF NoRequest
  <2>3. <<op, k[2]>> \in Keys /\ k[2] \in Ids
    BY <1>0, <2>1
  <2>4. x \in RequestRecord
    BY <2>2, <2>3 DEF RequestRecord
  <2> QED
    BY <2>2, <2>3, <2>4
<1>2. \A p \in Periods : p \in Int /\ cards[p].version \in Nat
  BY DEF TypeOK, Card, Periods
<1>3. ASSUME NEW p \in Periods,
             r \in Request("prepare", p, None) \cup Request("prepare", p, cards[p].version)
               \cup Request("approve", p, cards[p].version)
               \cup Request("return", p, cards[p].version)
      PROVE  r \in RequestRecord /\ WellFormed(r)
  <2>1. r \in RequestRecord /\ <<r.op, r.id>> \in Keys /\ r.target = p
        /\ r.op \in {"prepare", "approve", "return"}
    BY <1>1, <1>2, <1>3 DEF Operations, None
  <2> QED
    BY <2>1 DEF WellFormed
<1>4. ASSUME NEW p \in Periods, NEW c \in BOOLEAN,
             NEW x \in Request("submit", p, cards[p].version),
             r = [x EXCEPT !.confirmed = c]
      PROVE  r \in RequestRecord /\ WellFormed(r)
  <2>1. x \in RequestRecord /\ <<x.op, x.id>> \in Keys /\ x.target = p /\ x.op = "submit"
    BY <1>1, <1>2 DEF Operations
  <2>2. r \in RequestRecord /\ r.op = x.op /\ r.id = x.id /\ r.target = x.target
    BY <1>4, <2>1 DEF RequestRecord
  <2> QED
    BY <2>1, <2>2 DEF WellFormed
<1>5. ASSUME NEW start \in PolicyStarts, r \in Request("policy", start, Len(policies))
      PROVE  r \in RequestRecord /\ WellFormed(r)
  <2>1. start \in Int /\ Len(policies) \in Nat
    BY TimecardsAssumption DEF TypeOK, PolicyStarts
  <2>2. r \in RequestRecord /\ <<r.op, r.id>> \in Keys /\ r.target = start /\ r.op = "policy"
    BY <1>1, <1>5, <2>1 DEF Operations
  <2> QED
    BY <2>2 DEF WellFormed, CardRequests
<1>6. ASSUME NEW i \in Intervals, NEW span \in CorrectedSpans,
             NEW x \in Request("correct", i, LatestCorrection(i, corrections)),
             r = [x EXCEPT !.span = span]
      PROVE  r \in RequestRecord /\ WellFormed(r)
  <2>1. i \in Nat \ {0} /\ LatestCorrection(i, corrections) \in Nat
    <3>1. corrections \in Seq(Correction) /\ intervals \in Seq(Spans)
      BY DEF TypeOK, Correction
    <3> QED
      BY <3>1, LatestTyped DEF Intervals
  <2>2. x \in RequestRecord /\ <<x.op, x.id>> \in Keys /\ x.target = i /\ x.op = "correct"
    BY <1>1, <2>1 DEF Operations
  <2>3. r \in RequestRecord /\ r.op = x.op /\ r.id = x.id /\ r.target = x.target /\ r.span = span
    BY <1>6, <2>2 DEF RequestRecord
  <2> QED
    BY <2>1, <2>2, <2>3 DEF WellFormed, CardRequests
<1> DEFINE ofCards(p) ==
             Request("prepare", p, None) \cup Request("prepare", p, cards[p].version)
               \cup Request("approve", p, cards[p].version)
               \cup Request("return", p, cards[p].version)
               \cup {[x EXCEPT !.confirmed = c] :
                       x \in Request("submit", p, cards[p].version), c \in BOOLEAN}
           ofPolicies == UNION {Request("policy", start, Len(policies)) : start \in PolicyStarts}
           ofIntervals ==
             UNION {Request("correct", i, LatestCorrection(i, corrections)) : i \in Intervals}
           ofCorrections ==
             {[x EXCEPT !.span = span] : span \in CorrectedSpans, x \in ofIntervals}
<1>7. FreshRequests =
        (UNION {ofCards(p) : p \in Periods}) \cup ofPolicies \cup ofCorrections
  BY DEF FreshRequests
<1>8. \A p \in Periods : r \in ofCards(p) => r \in RequestRecord /\ WellFormed(r)
  BY <1>3, <1>4
<1>9. r \in ofPolicies => r \in RequestRecord /\ WellFormed(r)
  BY <1>5
<1>10. r \in ofCorrections => r \in RequestRecord /\ WellFormed(r)
  BY <1>6
<1> HIDE DEF ofCards, ofPolicies, ofCorrections
<1> QED
  BY <1>7, <1>8, <1>9, <1>10

(* The updates of a transaction under way.                                 *)
LEMMA TxUpdates ==
  ASSUME tx \in [Txs -> TxRecord], NEW t \in Txs, NEW pc \in Pcs
  PROVE  /\ \A x \in TxRecord : [tx EXCEPT ![t] = x] \in [Txs -> TxRecord]
         /\ [tx EXCEPT ![t].pc = pc] \in [Txs -> TxRecord]
         /\ \A P \in SUBSET Periods :
              [tx EXCEPT ![t].pc = pc, ![t].affected = P] \in [Txs -> TxRecord]
         /\ \A x \in Statuses :
              /\ [tx EXCEPT ![t].pc = pc, ![t].seen = x] \in [Txs -> TxRecord]
              /\ \A b \in BOOLEAN :
                   [tx EXCEPT ![t].pc = pc, ![t].seen = x, ![t].drifted = b]
                      \in [Txs -> TxRecord]
BY DEF TxRecord

(* A transaction that ends leaves the others alone.                        *)
LEMMA Finished ==
  ASSUME TxTypeOK, NEW t \in Txs, Finish(t)
  PROVE  /\ TxTypeOK' /\ tx'[t] = NoTx /\ \A u \in Txs \ {t} : tx'[u] = tx[u]
<1>1. /\ tx' \in [Txs -> TxRecord] /\ tx'[t] = NoTx
      /\ \A u \in Txs \ {t} : tx'[u] = tx[u]
  BY NoTxTyped, TxUpdates DEF TxTypeOK, Finish, Pcs
<1>2. NoTx.pc = "idle"
  BY DEF NoTx
<1> QED
  BY <1>1, <1>2 DEF TxTypeOK, WellFormed

(* What a transaction of cards that no trigger refuses does: it writes its *)
(* cards, their events and its receipt, or none of them.                   *)
LEMMA WrittenOrNot ==
  ASSUME TypeOK, TxTypeOK, NEW t \in Txs, NEW changed, NEW events,
         DOMAIN changed \subseteq Periods, CommitCards(t, changed, events),
         \A p \in DOMAIN changed : ~TriggerRefuses(cards[p], changed[p])
  PROVE  /\ TxTypeOK' /\ refused' = refused
         /\ tx'[t] = NoTx /\ \A u \in Txs \ {t} : tx'[u] = tx[u]
         /\ \/ /\ Key(t) \notin receipts /\ receipts' = receipts \cup {Key(t)}
               /\ cards' = [p \in Periods |-> IF p \in DOMAIN changed THEN changed[p]
                                              ELSE cards[p]]
               /\ event' = [p \in Periods |-> IF p \in DOMAIN changed THEN events[p]
                                              ELSE event[p]]
            \/ Key(t) \in receipts /\ UNCHANGED <<cards, event, receipts>>
<1>1. Finish(t)
  BY DEF CommitCards
<1>2. refused' = refused
  BY DEF CommitCards, TypeOK
<1>3. CASE Key(t) \in receipts
  <2>1. cards' = [p \in Periods |-> cards[p]] /\ event' = [p \in Periods |-> event[p]]
        /\ receipts' = receipts
    BY <1>3 DEF CommitCards, ReceiptIndex
  <2> QED
    BY <1>1, <1>2, <1>3, <2>1, Finished DEF TypeOK
<1>4. CASE Key(t) \notin receipts
  BY <1>1, <1>2, <1>4, Finished DEF CommitCards, ReceiptIndex
<1> QED
  BY <1>3, <1>4

-----------------------------------------------------------------------------
(* The bounds of a period.                                                 *)
LEMMA PeriodBounds ==
  ASSUME NEW p \in Periods
  PROVE  /\ PeriodSpan(Days(p)).clockIn = p * PeriodDays * DayUnits
         /\ PeriodSpan(Days(p)).clockOut = (p + 1) * PeriodDays * DayUnits
         /\ p * PeriodDays * DayUnits \in Int /\ (p + 1) * PeriodDays * DayUnits \in Int
<1>0. p \in Int /\ PeriodDays \in Nat \ {0} /\ DayUnits \in Nat \ {0}
  BY TimecardsAssumption DEF Periods
<1>1. Len(Days(p)) = PeriodDays
  BY <1>0 DEF Days
<1>2. Days(p)[1].start = (p * PeriodDays + 1 - 1) * DayUnits
      /\ Days(p)[PeriodDays].end = (p * PeriodDays + PeriodDays) * DayUnits
  BY <1>0 DEF Days
<1>3. /\ PeriodSpan(Days(p)).clockIn = (p * PeriodDays + 1 - 1) * DayUnits
      /\ PeriodSpan(Days(p)).clockOut = (p * PeriodDays + PeriodDays) * DayUnits
  BY <1>1, <1>2 DEF PeriodSpan
<1>4. (p * PeriodDays + 1 - 1) * DayUnits = p * PeriodDays * DayUnits
      /\ (p * PeriodDays + PeriodDays) * DayUnits = (p + 1) * PeriodDays * DayUnits
  BY <1>0
<1> QED
  BY <1>0, <1>3, <1>4

(* A call that is under way inserts the time it began, which is now.       *)
LEMMA AttendanceTypes ==
  ASSUME TypeOK, Tick \/ (\E c \in Calls : CheckIn(c) \/ InsertInterval(c)) \/ ClockOut
  PROVE  TypeOK'
<1> USE TimecardsAssumption
<1>1. CASE Tick
  BY <1>1 DEF Tick, TypeOK, cardVars
<1>2. CASE \E c \in Calls : CheckIn(c)
  BY <1>2 DEF CheckIn, TypeOK, cardVars
<1>3. ASSUME NEW c \in Calls, InsertInterval(c)
      PROVE  TypeOK'
  <2>1. call[c] \in 0..MaxNow
    BY <1>3 DEF InsertInterval, TypeOK
  <2>2. [clockIn |-> call[c], clockOut |-> StillOpen] \in Spans
    BY <2>1 DEF Spans
  <2>3. Append(intervals, [clockIn |-> call[c], clockOut |-> StillOpen]) \in Seq(Spans)
    BY <2>2 DEF TypeOK
  <2>4. intervals' \in Seq(Spans)
    BY <1>3, <2>3 DEF InsertInterval, TypeOK
  <2> QED
    BY <1>3, <2>4 DEF InsertInterval, TypeOK, cardVars
<1>4. CASE ClockOut
  <2>1. PICK i \in OpenIntervals : intervals' = [intervals EXCEPT ![i].clockOut = now]
    BY <1>4 DEF ClockOut
  <2>2. i \in DOMAIN intervals /\ intervals[i] \in Spans
    BY DEF OpenIntervals, Intervals, TypeOK
  <2>3. [intervals[i] EXCEPT !.clockOut = now] \in Spans
    BY <2>2 DEF Spans, TypeOK
  <2>4. intervals' \in Seq(Spans)
    BY <2>1, <2>2, <2>3 DEF TypeOK
  <2> QED
    BY <1>4, <2>4 DEF ClockOut, TypeOK, cardVars
<1> QED
  BY <1>1, <1>2, <1>3, <1>4

(* The intervals only grow, and a completed one stays as it is.            *)
LEMMA IntervalsGrow ==
  ASSUME TypeOK, Tick \/ (\E c \in Calls : CheckIn(c) \/ InsertInterval(c)) \/ ClockOut
  PROVE  /\ Intervals \subseteq Intervals'
         /\ \A i \in Intervals : /\ intervals'[i].clockIn = intervals[i].clockIn
                                 /\ ~IsOpen(i) => intervals'[i] = intervals[i]
<1>1. CASE UNCHANGED intervals
  BY <1>1 DEF Intervals
<1>2. ASSUME NEW c \in Calls, InsertInterval(c), intervals' # intervals
      PROVE  /\ Intervals \subseteq Intervals'
             /\ \A i \in Intervals : intervals'[i] = intervals[i]
  <2>1. PICK row : intervals' = Append(intervals, row)
    BY <1>2 DEF InsertInterval
  <2> QED
    BY <2>1 DEF Intervals, TypeOK
<1>3. ASSUME ClockOut
      PROVE  /\ Intervals \subseteq Intervals'
             /\ \A i \in Intervals : /\ intervals'[i].clockIn = intervals[i].clockIn
                                     /\ ~IsOpen(i) => intervals'[i] = intervals[i]
  <2>1. PICK i \in OpenIntervals : intervals' = [intervals EXCEPT ![i].clockOut = now]
    BY <1>3 DEF ClockOut
  <2>2. i \in DOMAIN intervals /\ intervals[i] \in Spans /\ IsOpen(i)
    BY DEF OpenIntervals, Intervals, TypeOK
  <2> QED
    BY <2>1, <2>2 DEF Intervals, Spans
<1>4. CASE Tick \/ \E c \in Calls : CheckIn(c)
  BY <1>1, <1>4 DEF Tick, CheckIn
<1> QED
  BY <1>1, <1>2, <1>3, <1>4

(* No attendance touches a period that is closed and all of whose          *)
(* intervals are completed.                                                *)
LEMMA ClosedUntouched ==
  ASSUME TypeOK, CallsAreNow, NEW p \in Periods,
         Closed(p), Selected(p) \cap OpenIntervals = {},
         Tick \/ (\E c \in Calls : CheckIn(c) \/ InsertInterval(c)) \/ ClockOut
  PROVE  /\ Closed(p)' /\ Selected(p)' = Selected(p)
         /\ \A i \in Selected(p) : intervals'[i] = intervals[i]
         /\ Selected(p) \cap OpenIntervals' = {}
<1> DEFINE first == PeriodSpan(Days(p)).clockIn
           end == PeriodSpan(Days(p)).clockOut
<1>0. Closed(p) /\ Selected(p) \cap OpenIntervals = {} /\ now \in Int
  BY DEF TypeOK
<1>1. first \in Int /\ end \in Int /\ end <= now
  BY <1>0, PeriodBounds DEF Closed
<1>2. Closed(p)'
  <2>1. now' = now \/ now' = now + 1
    BY DEF Tick, CheckIn, InsertInterval, ClockOut
  <2>2. (p + 1) * PeriodDays * DayUnits \in Int
    BY PeriodBounds
  <2> QED
    BY <1>0, <2>1, <2>2 DEF Closed
<1>3. \A i \in Intervals' \ Intervals : intervals'[i].clockIn = now
  <2>1. SUFFICES ASSUME NEW i \in Intervals' \ Intervals
                 PROVE  intervals'[i].clockIn = now
    OBVIOUS
  <2>2. intervals' # intervals /\ ~ClockOut
    <3>1. intervals' # intervals
      BY <2>1 DEF Intervals
    <3>2. ~ClockOut
      <4>1. SUFFICES ASSUME ClockOut PROVE FALSE
        OBVIOUS
      <4>2. PICK j \in OpenIntervals : intervals' = [intervals EXCEPT ![j].clockOut = now]
        BY <4>1 DEF ClockOut
      <4> QED
        BY <2>1, <4>2 DEF Intervals
    <3> QED
      BY <3>1, <3>2
  <2>3. PICK c \in Calls : InsertInterval(c)
    BY <2>2 DEF Tick, CheckIn
  <2>4. call[c] = now
    BY <2>3 DEF InsertInterval, CallsAreNow
  <2>5. intervals' = Append(intervals, [clockIn |-> now, clockOut |-> StillOpen])
    BY <2>2, <2>3, <2>4 DEF InsertInterval
  <2>6. i = Len(intervals) + 1
    BY <2>1, <2>5 DEF Intervals, TypeOK
  <2> QED
    BY <2>5, <2>6 DEF TypeOK
<1>4. /\ Intervals \subseteq Intervals'
      /\ \A i \in Intervals : /\ intervals'[i].clockIn = intervals[i].clockIn
                              /\ ~IsOpen(i) => intervals'[i] = intervals[i]
  BY IntervalsGrow
<1>5. Selected(p)' = {i \in Intervals' : /\ intervals'[i].clockIn < end
                                         /\ \/ IsOpen(i)'
                                            \/ intervals'[i].clockOut > first}
  BY DEF Selected
<1>6. Selected(p) = {i \in Intervals : /\ intervals[i].clockIn < end
                                       /\ \/ IsOpen(i)
                                          \/ intervals[i].clockOut > first}
  BY DEF Selected
<1> HIDE DEF first, end
<1>7. \A i \in Selected(p) : ~IsOpen(i) /\ intervals'[i] = intervals[i] /\ i \in Intervals
  BY <1>0, <1>4, <1>6 DEF OpenIntervals
<1>8. Selected(p) \subseteq Selected(p)'
  BY <1>4, <1>5, <1>6, <1>7 DEF IsOpen
<1>9. ASSUME NEW i \in Selected(p)'
      PROVE  i \in Selected(p)
  <2>1. i \in Intervals
    BY <1>0, <1>1, <1>3, <1>5, <1>9
  <2>2. intervals[i].clockIn < end
    BY <1>4, <1>5, <1>9, <2>1
  <2>3. ~IsOpen(i)
    BY <1>0, <1>6, <2>1, <2>2 DEF OpenIntervals
  <2> QED
    BY <1>4, <1>5, <1>6, <1>9, <2>1, <2>2, <2>3 DEF IsOpen
<1>10. Selected(p)' = Selected(p)
  BY <1>8, <1>9
<1>11. Selected(p) \cap OpenIntervals' = {}
  BY <1>7 DEF OpenIntervals, IsOpen
<1> QED
  BY <1>2, <1>7, <1>10, <1>11

(* The evidence of a period is made of the intervals selected for it.      *)
LEMMA EvidenceKept ==
  ASSUME NEW p, Selected(p)' = Selected(p), UNCHANGED corrections,
         \A i \in Selected(p) : intervals'[i] = intervals[i]
  PROVE  Evidence(p, corrections)' = Evidence(p, corrections)
<1>1. \A i \in Selected(p) : Effective(i, corrections)' = Effective(i, corrections)
  BY DEF Effective, LatestCorrection, CorrectionsOf
<1> QED
  BY <1>1 DEF Evidence

(* The one open interval: what the index admits, and what it leaves.       *)
LEMMA OpenIntervalsFinite ==
  ASSUME TypeOK
  PROVE  IsFiniteSet(OpenIntervals)
<1>1. Len(intervals) \in Nat /\ OpenIntervals \in SUBSET (1..Len(intervals))
  BY DEF OpenIntervals, Intervals, TypeOK
<1>2. IsFiniteSet(1..Len(intervals))
  BY <1>1, FS_Interval
<1> HIDE DEF OpenIntervals
<1> QED
  BY <1>1, <1>2, FS_Subset

(* Attendance leaves one interval open at most: the index refuses a        *)
(* second.                                                                 *)
LEMMA OneOpenKept ==
  ASSUME TypeOK, OneOpenInterval,
         Tick \/ (\E c \in Calls : CheckIn(c) \/ InsertInterval(c)) \/ ClockOut
  PROVE  OneOpenInterval'
<1>1. CASE UNCHANGED intervals
  BY <1>1 DEF OneOpenInterval, OpenIntervals, Intervals, IsOpen
<1>2. ASSUME NEW c \in Calls, InsertInterval(c), intervals' # intervals
      PROVE  OneOpenInterval'
  <2>1. OneOpenIndex(intervals')
    BY <1>2 DEF InsertInterval
  <2>2. OpenIntervals' = {i \in DOMAIN intervals' : intervals'[i].clockOut = StillOpen}
    BY DEF OpenIntervals, Intervals, IsOpen
  <2> QED
    BY <2>1, <2>2 DEF OneOpenIndex, OneOpenInterval
<1>3. ASSUME ClockOut
      PROVE  OneOpenInterval'
  <2>1. PICK i \in OpenIntervals : intervals' = [intervals EXCEPT ![i].clockOut = now]
    BY <1>3 DEF ClockOut
  <2>2. i \in DOMAIN intervals /\ intervals[i] \in Spans /\ now \in Int /\ now # StillOpen
    BY DEF OpenIntervals, Intervals, TypeOK, StillOpen
  <2>3. OpenIntervals' = OpenIntervals \ {i}
    BY <2>1, <2>2 DEF OpenIntervals, Intervals, IsOpen, Spans
  <2>4. /\ Cardinality(OpenIntervals) \in Nat
        /\ Cardinality(OpenIntervals') = Cardinality(OpenIntervals) - 1
    BY <2>3, OpenIntervalsFinite, FS_RemoveElement, FS_CardinalityType
  <2> QED
    BY <2>4 DEF OneOpenInterval
<1>4. CASE Tick \/ \E c \in Calls : CheckIn(c)
  BY <1>1, <1>4 DEF Tick, CheckIn
<1> QED
  BY <1>1, <1>2, <1>3, <1>4

(* Checking in and out keep the invariant.                                 *)
LEMMA AttendanceKeeps ==
  ASSUME TInv, Tick \/ (\E c \in Calls : CheckIn(c) \/ InsertInterval(c)) \/ ClockOut
  PROVE  TInv'
<1> USE DEF TInv
<1>1. TypeOK' /\ OneOpenInterval'
  BY AttendanceTypes, OneOpenKept
<1>2. UNCHANGED <<corrections, policies, cards, event, receipts, refused, tx>>
  BY DEF Tick, CheckIn, InsertInterval, ClockOut, cardVars
<1>3. TxTypeOK' /\ NeverRefused' /\ Exclusive'
      /\ \A p \in Periods : event'[p].resulting = cards'[p].status
  BY <1>2 DEF TxTypeOK, WellFormed, NeverRefused, Exclusive, HoldsOrganization, HoldsCard, Target
<1>4. CallsAreNow'
  BY DEF Tick, CheckIn, InsertInterval, ClockOut, CallsAreNow, TypeOK
<1>5. ASSUME NEW t \in Txs
      PROVE  ValidatedIsCurrent(t)' /\ CorrectsAnInterval(t)' /\ DraftsAreAffected(t)'
  <2>1. ValidatedIsCurrent(t)'
    BY <1>2 DEF ValidatedIsCurrent, Target
  <2>2. CorrectsAnInterval(t)'
    BY <1>2, IntervalsGrow DEF CorrectsAnInterval, HoldsOrganization, Target, OpenIntervals, IsOpen
  <2>3. DraftsAreAffected(t)'
    BY <1>2, ClosedUntouched DEF DraftsAreClosed, DraftsAreAffected, Target
  <2> QED
    BY <2>1, <2>2, <2>3
<1>6. ASSUME NEW p \in Periods, cards'[p].status = "draft"
      PROVE  /\ Closed(p)' /\ Selected(p)' \cap OpenIntervals' = {}
             /\ cards'[p].evidence = Evidence(p, corrections)'
  BY <1>2, <1>6, ClosedUntouched, EvidenceKept DEF DraftsAreClosed, DraftsAsAttended
<1>7. DraftsAreClosed' /\ DraftsAsAttended'
  BY <1>6 DEF DraftsAreClosed, DraftsAsAttended
<1> QED
  BY <1>1, <1>3, <1>4, <1>5, <1>7

-----------------------------------------------------------------------------
(* A step of one transaction that changes nothing else.                    *)
LEMMA QuietKeeps ==
  ASSUME TInv, UNCHANGED <<attendanceVars, cardVars>>, TxTypeOK', Exclusive', NEW t \in Txs,
         \A u \in Txs \ {t} : tx'[u] = tx[u],
         ValidatedIsCurrent(t)', CorrectsAnInterval(t)', DraftsAreAffected(t)'
  PROVE  TInv'
<1> USE DEF TInv
<1>1. UNCHANGED <<now, call, intervals, corrections, policies, cards, event, receipts, refused>>
  BY DEF attendanceVars, cardVars
<1>2. TypeOK' /\ OneOpenInterval' /\ NeverRefused' /\ CallsAreNow'
      /\ \A p \in Periods : event'[p].resulting = cards'[p].status
  BY <1>1 DEF TypeOK, OneOpenInterval, OpenIntervals, Intervals, IsOpen, NeverRefused, CallsAreNow
<1>3. /\ OpenIntervals' = OpenIntervals /\ Intervals' = Intervals
      /\ \A p : Selected(p)' = Selected(p) /\ Closed(p)' = Closed(p)
      /\ \A p : Evidence(p, corrections)' = Evidence(p, corrections)
  BY <1>1 DEF OpenIntervals, Intervals, IsOpen, Selected, Closed, Evidence, Effective,
              LatestCorrection, CorrectionsOf
<1>4. DraftsAreClosed' /\ DraftsAsAttended'
  BY <1>1, <1>3 DEF DraftsAreClosed, DraftsAsAttended
<1>5. ASSUME NEW u \in Txs
      PROVE  ValidatedIsCurrent(u)' /\ CorrectsAnInterval(u)' /\ DraftsAreAffected(u)'
  <2>1. CASE u = t
    BY <2>1
  <2>2. CASE u # t
    BY <1>1, <1>3, <2>2
       DEF ValidatedIsCurrent, CorrectsAnInterval, DraftsAreAffected, HoldsOrganization, Target
  <2> QED
    BY <2>1, <2>2
<1> QED
  BY <1>2, <1>4, <1>5

(* A transaction that holds no lock after its step excludes no other.      *)
LEMMA ExclusiveKept ==
  ASSUME Exclusive, NEW t \in Txs, \A u \in Txs \ {t} : tx'[u] = tx[u],
         tx'[t].pc \in {"idle", "begun"}
  PROVE  Exclusive'
BY DEF Exclusive, HoldsOrganization, HoldsCard, Target

(* A refused request keeps the invariant.                                  *)
LEMMA RefusalKeeps ==
  ASSUME TInv, NEW t \in Txs, Refuse(t)
  PROVE  TInv'
<1> USE DEF TInv
<1>1. UNCHANGED <<attendanceVars, cardVars>> /\ Finish(t)
  BY DEF Refuse
<1>2. TxTypeOK' /\ tx'[t] = NoTx /\ \A u \in Txs \ {t} : tx'[u] = tx[u]
  BY <1>1, Finished
<1>3. tx'[t].pc = "idle"
  BY <1>2 DEF NoTx
<1>4. Exclusive'
  BY <1>2, <1>3, ExclusiveKept
<1>5. ValidatedIsCurrent(t)' /\ CorrectsAnInterval(t)' /\ DraftsAreAffected(t)'
  BY <1>3 DEF ValidatedIsCurrent, CorrectsAnInterval, HoldsOrganization, DraftsAreAffected
<1> QED
  BY <1>1, <1>2, <1>4, <1>5, QuietKeeps

(* A request that begins keeps the invariant.                              *)
LEMMA BeginKeeps ==
  ASSUME TInv, NEW t \in Txs, NEW r \in FreshRequests, Begin(t, r)
  PROVE  TInv'
<1> USE DEF TInv
<1> DEFINE new == [NoTx EXCEPT !.pc = "begun", !.request = r]
<1>1. r \in RequestRecord /\ WellFormed(r)
  BY RequestsTyped
<1>2. new \in TxRecord /\ new.pc = "begun" /\ new.request = r
  <2>1. \A x \in TxRecord : LET y == [x EXCEPT !.pc = "begun", !.request = r]
                            IN y \in TxRecord /\ y.pc = "begun" /\ y.request = r
    BY <1>1 DEF TxRecord, Pcs
  <2> QED
    BY <2>1, NoTxTyped
<1>3. tx' = [tx EXCEPT ![t] = new] /\ UNCHANGED <<attendanceVars, cardVars>>
  BY DEF Begin
<1> HIDE DEF new
<1>4. /\ tx' \in [Txs -> TxRecord] /\ tx'[t] = new
      /\ \A u \in Txs \ {t} : tx'[u] = tx[u]
  BY <1>2, <1>3, TxUpdates DEF TxTypeOK, Pcs
<1>5. TxTypeOK'
  BY <1>1, <1>2, <1>4 DEF TxTypeOK, WellFormed
<1>6. Exclusive'
  BY <1>2, <1>4, ExclusiveKept
<1>7. ValidatedIsCurrent(t)' /\ CorrectsAnInterval(t)' /\ DraftsAreAffected(t)'
  BY <1>2, <1>4 DEF ValidatedIsCurrent, CorrectsAnInterval, HoldsOrganization, DraftsAreAffected
<1> QED
  BY <1>3, <1>4, <1>5, <1>6, <1>7, QuietKeeps

(* A submission or a decision that has locked its card and found it as     *)
(* expected is the only one that has.                                      *)
LEMMA ValidationKeeps ==
  ASSUME TInv, NEW t \in Txs, tx[t].pc = "begun", CardFree(Target(t)),
         NEW drifted \in BOOLEAN,
         tx' = [tx EXCEPT ![t].pc = "validated", ![t].seen = cards[Target(t)].status,
                          ![t].drifted = drifted],
         \/ tx[t].request.op = "submit" /\ cards[Target(t)].status \in {"draft", "returned"}
         \/ tx[t].request.op \in Decisions /\ cards[Target(t)].status = "submitted",
         UNCHANGED <<attendanceVars, cardVars>>
  PROVE  TInv'
<1> USE DEF TInv
<1>0. /\ tx' \in [Txs -> TxRecord]
      /\ tx'[t].pc = "validated" /\ tx'[t].seen = cards[Target(t)].status
      /\ tx'[t].request = tx[t].request
      /\ \A u \in Txs \ {t} : tx'[u] = tx[u]
  <2>1. cards[Target(t)].status \in Statuses
    BY DEF Statuses
  <2>2. tx' \in [Txs -> TxRecord]
    BY <2>1, TxUpdates DEF TxTypeOK, Pcs
  <2> QED
    BY <2>2 DEF TxTypeOK, TxRecord
<1>1. TxTypeOK'
  BY <1>0 DEF TxTypeOK, WellFormed
<1>2. cards' = cards
  BY DEF cardVars
<1>3. ValidatedIsCurrent(t)'
  BY <1>0, <1>2 DEF ValidatedIsCurrent, Target
<1>4. CorrectsAnInterval(t)' /\ DraftsAreAffected(t)'
  BY <1>0 DEF CorrectsAnInterval, HoldsOrganization, DraftsAreAffected
<1>5. Exclusive'
  BY <1>0 DEF Exclusive, HoldsOrganization, HoldsCard, Target, CardFree
<1> QED
  BY <1>0, <1>1, <1>3, <1>4, <1>5, QuietKeeps

(* Submissions and decisions that are checked keep the invariant.          *)
LEMMA ValidatesKeep ==
  ASSUME TInv, NEW t \in Txs, ValidateSubmission(t) \/ ValidateDecision(t)
  PROVE  TInv'
<1>1. CASE Refuse(t)
  BY <1>1, RefusalKeeps
<1>2. CASE ValidateSubmission(t) /\ ~Refuse(t)
  <2>1. /\ tx' = [tx EXCEPT ![t].pc = "validated", ![t].seen = cards[Target(t)].status]
        /\ MaySubmit(t) /\ CardFree(Target(t)) /\ UNCHANGED <<attendanceVars, cardVars>>
        /\ tx[t].request.op = "submit" /\ tx[t].pc = "begun"
    BY <1>2 DEF ValidateSubmission, Doing
  <2>2. tx' = [tx EXCEPT ![t].pc = "validated", ![t].seen = cards[Target(t)].status,
                         ![t].drifted = tx[t].drifted]
    BY <2>1 DEF TInv, TxTypeOK, TxRecord
  <2>3. tx[t].drifted \in BOOLEAN
    BY DEF TInv, TxTypeOK, TxRecord
  <2> QED
    BY <2>1, <2>2, <2>3, ValidationKeeps DEF MaySubmit
<1>3. CASE ValidateDecision(t) /\ ~Refuse(t)
  BY <1>3, ValidationKeeps DEF ValidateDecision
<1> QED
  BY <1>1, <1>2, <1>3

(* A correction that holds the lock of the organization is the only one.   *)
LEMMA CheckKeeps ==
  ASSUME TInv, NEW t \in Txs, CheckCorrection(t)
  PROVE  TInv'
<1> USE DEF TInv
<1>1. CASE Refuse(t)
  BY <1>1, RefusalKeeps
<1>2. CASE ~Refuse(t)
  <2>1. /\ MayCorrect(t) /\ tx' = [tx EXCEPT ![t].pc = "checked"]
        /\ OrganizationFree /\ UNCHANGED <<attendanceVars, cardVars>>
        /\ tx[t].request.op = "correct" /\ tx[t].pc = "begun"
    BY <1>2 DEF CheckCorrection, Doing
  <2>2. /\ tx' \in [Txs -> TxRecord]
        /\ tx'[t].pc = "checked" /\ tx'[t].request = tx[t].request
        /\ \A u \in Txs \ {t} : tx'[u] = tx[u]
    <3>1. tx' \in [Txs -> TxRecord]
      BY <2>1, TxUpdates DEF TxTypeOK, Pcs
    <3> QED
      BY <2>1, <3>1 DEF TxTypeOK, TxRecord
  <2>3. TxTypeOK'
    BY <2>1, <2>2 DEF TxTypeOK, WellFormed
  <2>4. CorrectsAnInterval(t)'
    BY <2>1, <2>2 DEF CorrectsAnInterval, MayCorrect, Target, OpenIntervals, Intervals, IsOpen,
                      attendanceVars
  <2>5. ValidatedIsCurrent(t)' /\ DraftsAreAffected(t)'
    BY <2>2 DEF ValidatedIsCurrent, DraftsAreAffected
  <2>6. Exclusive'
    BY <2>1, <2>2 DEF Exclusive, HoldsOrganization, HoldsCard, Target, OrganizationFree
  <2> QED
    BY <2>1, <2>2, <2>3, <2>4, <2>5, <2>6, QuietKeeps
<1> QED
  BY <1>1, <1>2

(* The day of an instant before, and of one after, a boundary of days.     *)
LEMMA DayBound ==
  ASSUME NEW instant \in Int, NEW day \in Int
  PROVE  /\ DayOf(instant) \in Int
         /\ instant < day * DayUnits => DayOf(instant) < day
         /\ instant >= day * DayUnits => DayOf(instant) >= day
BY TimecardsAssumption DEF DayOf

(* A card of a period an interval falls into is looked at again when the   *)
(* interval is corrected.                                                  *)
LEMMA AffectedCovers ==
  ASSUME TypeOK, NEW i \in Intervals, ~IsOpen(i), NEW p \in Periods, i \in Selected(p),
         NEW span \in CorrectedSpans, cards[p].status \in {"draft", "returned"}
  PROVE  p \in Affected(i, span)
<1> DEFINE days == {DayOf(instant) : instant \in {intervals[i].clockIn,
                      intervals[i].clockOut, span.clockIn, span.clockOut}}
           first == DayOf(intervals[i].clockIn)
           last == DayOf(intervals[i].clockOut)
<1>0. p \in Int /\ PeriodDays \in Nat \ {0} /\ DayUnits \in Nat \ {0}
  BY TimecardsAssumption DEF Periods
<1>1. /\ intervals[i].clockIn \in Int /\ intervals[i].clockOut \in Int
      /\ span.clockIn \in Int /\ span.clockOut \in Int
  <2>1. intervals[i] \in Spans
    BY DEF TypeOK, Intervals
  <2>2. span \in [clockIn : 0..MaxNow, clockOut : 0..MaxNow]
    BY TimecardsAssumption
  <2> QED
    BY <2>1, <2>2 DEF Spans, StillOpen
<1>2. /\ intervals[i].clockIn < (p + 1) * PeriodDays * DayUnits
      /\ intervals[i].clockOut > p * PeriodDays * DayUnits
  BY PeriodBounds DEF Selected
<1>3. first \in Int /\ last \in Int /\ first <= (p + 1) * PeriodDays - 1 /\ last >= p * PeriodDays
  <2>1. (p + 1) * PeriodDays \in Int /\ p * PeriodDays \in Int
    BY <1>0
  <2>2. (p + 1) * PeriodDays * DayUnits = ((p + 1) * PeriodDays) * DayUnits
        /\ p * PeriodDays * DayUnits = (p * PeriodDays) * DayUnits
    OBVIOUS
  <2>3. first < (p + 1) * PeriodDays
    BY <1>1, <1>2, <2>1, <2>2, DayBound
  <2>4. last >= p * PeriodDays
    BY <1>0, <1>1, <1>2, <2>1, <2>2, DayBound
  <2>5. first \in Int /\ last \in Int
    BY <1>1, <2>1, DayBound
  <2> HIDE DEF first, last
  <2> QED
    BY <2>1, <2>3, <2>4, <2>5
<1>4. days = {first, last, DayOf(span.clockIn), DayOf(span.clockOut)}
  OBVIOUS
<1>5. days \in SUBSET Int /\ first \in days /\ last \in days
  <2>1. DayOf(span.clockIn) \in Int /\ DayOf(span.clockOut) \in Int
    BY <1>0, <1>1, DayBound
  <2> HIDE DEF first, last, days
  <2> QED
    BY <1>3, <1>4, <2>1
<1>6. (\E low \in Int : \A d \in days : low <= d) /\ (\E high \in Int : \A d \in days : d <= high)
  <2>1. DayOf(span.clockIn) \in Int /\ DayOf(span.clockOut) \in Int
    BY <1>0, <1>1, DayBound
  <2> DEFINE a == DayOf(span.clockIn)
             b == DayOf(span.clockOut)
  <2> HIDE DEF first, last, days, a, b
  <2>2. ASSUME NEW x \in Int, NEW y \in Int
        PROVE  \E low, high \in Int : low <= x /\ low <= y /\ x <= high /\ y <= high
    <3>1. CASE x <= y
      BY <3>1
    <3>2. CASE ~(x <= y)
      BY <3>2
    <3> QED
      BY <3>1, <3>2
  <2>3. PICK l1, h1 \in Int : l1 <= first /\ l1 <= last /\ first <= h1 /\ last <= h1
    BY <1>3, <2>2
  <2>4. PICK l2, h2 \in Int : l2 <= a /\ l2 <= b /\ a <= h2 /\ b <= h2
    BY <2>1, <2>2 DEF a, b
  <2>5. PICK low, high \in Int : low <= l1 /\ low <= l2 /\ h1 <= high /\ h2 <= high
    <3>1. PICK low, x \in Int : low <= l1 /\ low <= l2
      BY <2>2
    <3>2. PICK y, high \in Int : h1 <= high /\ h2 <= high
      BY <2>2
    <3> QED
      BY <3>1, <3>2
  <2>6. days = {first, last, a, b}
    BY <1>4 DEF a, b
  <2>7. a \in Int /\ b \in Int
    BY <2>1 DEF a, b
  <2>8. \A d \in days : low <= d /\ d <= high
    BY <1>3, <2>3, <2>4, <2>5, <2>6, <2>7
  <2> QED
    BY <2>8
<1> HIDE DEF days, first, last
<1>7. Min(days) \in Int /\ Max(days) \in Int /\ Min(days) <= first /\ last <= Max(days)
      /\ Min(days) <= Max(days)
  <2>1. Min(days) \in days /\ \A x \in days : Min(days) <= x
    BY <1>5, <1>6, SmallestOf
  <2>2. Max(days) \in days /\ \A x \in days : x <= Max(days)
    BY <1>5, <1>6, LargestOf
  <2> QED
    BY <1>5, <2>1, <2>2
<1>8. ASSUME NEW a \in Int, NEW b \in Int, NEW c \in Int, NEW d \in Int,
             a <= b, c <= d, a <= d, c <= b
      PROVE  (a..b) \cap (c..d) # {}
  <2>1. CASE a <= c
    BY <1>8, <2>1
  <2>2. CASE ~(a <= c)
    BY <1>8, <2>2
  <2> QED
    BY <2>1, <2>2
<1>9. p * PeriodDays \in Int /\ (p + 1) * PeriodDays - 1 \in Int
      /\ p * PeriodDays <= (p + 1) * PeriodDays - 1
  BY <1>0
<1>10. DaysOf(p) \cap (Min(days)..Max(days)) # {}
  <2>1. Min(days) <= (p + 1) * PeriodDays - 1 /\ p * PeriodDays <= Max(days)
    BY <1>3, <1>7, <1>9
  <2> QED
    BY <1>7, <1>8, <1>9, <2>1 DEF DaysOf
<1> QED
  BY <1>10 DEF Affected, days

(* The selection of the affected cards keeps the invariant: it misses no   *)
(* draft.                                                                  *)
LEMMA SelectionKeeps ==
  ASSUME TInv, NEW t \in Txs, SelectAffected(t)
  PROVE  TInv'
<1> USE DEF TInv
<1> DEFINE affected == Affected(Target(t), tx[t].request.span)
<1>1. /\ tx' = [tx EXCEPT ![t].pc = "selected", ![t].affected = affected]
      /\ UNCHANGED <<attendanceVars, cardVars>>
      /\ tx[t].request.op = "correct" /\ tx[t].pc = "checked"
  BY DEF SelectAffected, Doing
<1>2. affected \in SUBSET Periods
  BY DEF Affected
<1>3. Target(t) \in Intervals /\ ~IsOpen(Target(t))
  BY <1>1 DEF CorrectsAnInterval, HoldsOrganization, OpenIntervals
<1>4. tx[t].request.span \in CorrectedSpans
  BY <1>1 DEF TxTypeOK, WellFormed
<1>5. \A p \in Periods : cards[p].status = "draft" /\ Target(t) \in Selected(p) => p \in affected
  BY <1>3, <1>4, AffectedCovers
<1> HIDE DEF affected
<1>6. /\ tx' \in [Txs -> TxRecord]
      /\ tx'[t].pc = "selected" /\ tx'[t].request = tx[t].request
      /\ tx'[t].affected = affected
      /\ \A u \in Txs \ {t} : tx'[u] = tx[u]
  <2>1. tx' \in [Txs -> TxRecord]
    BY <1>1, <1>2, TxUpdates DEF TxTypeOK, Pcs
  <2> QED
    BY <1>1, <2>1 DEF TxTypeOK, TxRecord
<1>7. TxTypeOK'
  BY <1>1, <1>6 DEF TxTypeOK, WellFormed
<1>8. UNCHANGED <<intervals, cards>>
  BY <1>1 DEF attendanceVars, cardVars
<1>9. CorrectsAnInterval(t)'
  BY <1>1, <1>3, <1>6, <1>8
     DEF CorrectsAnInterval, Target, OpenIntervals, Intervals, IsOpen
<1>10. DraftsAreAffected(t)'
  BY <1>5, <1>6, <1>8 DEF DraftsAreAffected, Target, Selected, Intervals, IsOpen
<1>11. ValidatedIsCurrent(t)'
  BY <1>6 DEF ValidatedIsCurrent
<1>12. Exclusive'
  BY <1>1, <1>6 DEF Exclusive, HoldsOrganization, HoldsCard, Target
<1> QED
  BY <1>1, <1>6, <1>7, <1>9, <1>10, <1>11, <1>12, QuietKeeps

-----------------------------------------------------------------------------
(* A transaction that writes the cards in P, which it alone has locked.    *)
LEMMA CardsKeep ==
  ASSUME TInv, TypeOK', TxTypeOK', NeverRefused', UNCHANGED attendanceVars,
         NEW t \in Txs, tx'[t] = NoTx, \A u \in Txs \ {t} : tx'[u] = tx[u],
         NEW P \in SUBSET Periods,
         \A p \in Periods \ P : cards'[p] = cards[p] /\ event'[p] = event[p],
         \A p \in P : event'[p].resulting = cards'[p].status,
         \A u \in Txs \ {t}, p \in P : ~HoldsCard(u, p),
         \A p \in Periods : cards'[p].status = "draft" =>
           /\ Closed(p) /\ Selected(p) \cap OpenIntervals = {}
           /\ cards'[p].evidence = Evidence(p, corrections'),
         \A u \in Txs \ {t}, p \in Periods :
           tx[u].pc = "selected" /\ cards'[p].status = "draft" => cards[p].status = "draft"
  PROVE  TInv'
<1> USE DEF TInv
<1>0. UNCHANGED <<now, call, intervals>>
  BY DEF attendanceVars
<1>1. /\ OpenIntervals' = OpenIntervals /\ Intervals' = Intervals
      /\ \A p : Selected(p)' = Selected(p) /\ Closed(p)' = Closed(p)
      /\ \A p : Evidence(p, corrections)' = Evidence(p, corrections')
  BY <1>0 DEF OpenIntervals, Intervals, IsOpen, Selected, Closed, Evidence, Effective,
              LatestCorrection, CorrectionsOf
<1>2. OneOpenInterval' /\ CallsAreNow'
  BY <1>0, <1>1 DEF OneOpenInterval, CallsAreNow
<1>3. tx'[t].pc = "idle"
  BY DEF NoTx
<1>4. Exclusive'
  BY <1>3, ExclusiveKept
<1>5. \A p \in Periods : event'[p].resulting = cards'[p].status
  OBVIOUS
<1>6. DraftsAreClosed' /\ DraftsAsAttended'
  BY <1>1 DEF DraftsAreClosed, DraftsAsAttended
<1>7. ASSUME NEW u \in Txs
      PROVE  ValidatedIsCurrent(u)' /\ CorrectsAnInterval(u)' /\ DraftsAreAffected(u)'
  <2>1. CASE u = t
    BY <1>3, <2>1 DEF ValidatedIsCurrent, CorrectsAnInterval, HoldsOrganization, DraftsAreAffected
  <2>2. CASE u # t
    <3>1. tx'[u] = tx[u]
      BY <2>2
    <3>2. ASSUME tx[u].pc = "validated"
          PROVE  cards'[Target(u)].status = cards[Target(u)].status
      <4>1. Target(u) \in Periods
        BY <3>2 DEF ValidatedIsCurrent, TxTypeOK, WellFormed, CardRequests, Decisions, Target
      <4>2. Target(u) \notin P
        BY <2>2, <3>2 DEF HoldsCard
      <4> QED
        BY <4>1, <4>2
    <3>3. ValidatedIsCurrent(u)'
      BY <3>1, <3>2 DEF ValidatedIsCurrent, Target
    <3>4. CorrectsAnInterval(u)'
      BY <1>1, <3>1 DEF CorrectsAnInterval, HoldsOrganization, Target
    <3>5. DraftsAreAffected(u)'
      BY <1>1, <2>2, <3>1 DEF DraftsAreAffected, Target
    <3> QED
      BY <3>3, <3>4, <3>5
  <2> QED
    BY <2>1, <2>2
<1> QED
  BY <1>2, <1>4, <1>5, <1>6, <1>7

(* The types of what a transaction of cards writes.                        *)
LEMMA WrittenTyped ==
  ASSUME TypeOK, TxTypeOK, NEW t \in Txs, tx[t].pc # "idle", UNCHANGED attendanceVars,
         corrections' \in Seq(Correction), policies' \in Seq(PolicyStarts), refused' = refused,
         receipts' = receipts \cup {Key(t)},
         NEW changed, NEW events, DOMAIN changed \subseteq Periods,
         \A p \in DOMAIN changed :
           /\ changed[p] \in Card /\ (changed[p].status = "none" <=> changed[p].version = None)
           /\ events[p] \in [prior : Statuses, resulting : Statuses],
         cards' = [p \in Periods |-> IF p \in DOMAIN changed THEN changed[p] ELSE cards[p]],
         event' = [p \in Periods |-> IF p \in DOMAIN changed THEN events[p] ELSE event[p]]
  PROVE  TypeOK'
<1>0. UNCHANGED <<now, call, intervals>>
  BY DEF attendanceVars
<1>1. Key(t) \in Keys
  BY DEF Key, TxTypeOK, WellFormed
<1>2. cards' \in [Periods -> Card] /\ event' \in [Periods -> [prior : Statuses, resulting : Statuses]]
  BY DEF TypeOK
<1>3. \A p \in Periods : cards'[p].status = "none" <=> cards'[p].version = None
  BY DEF TypeOK
<1>4. corrections' \in Seq([interval : Nat \ {0}, span : CorrectedSpans])
  BY DEF Correction
<1> QED
  BY <1>0, <1>1, <1>2, <1>3, <1>4 DEF TypeOK

(* What a transaction did before it does not do again.                     *)
LEMMA DoneBefore ==
  ASSUME NEW t \in Txs, NEW changed, NEW events, CommitCards(t, changed, events),
         UNCHANGED <<attendanceVars, corrections, policies>>, UNCHANGED <<cards, event, receipts, refused>>
  PROVE  Refuse(t)
BY DEF CommitCards, Refuse, cardVars

(* Preparing a card keeps the invariant: no correction is on its way in.   *)
LEMMA PrepareKeeps ==
  ASSUME TInv, NEW t \in Txs, Prepare(t)
  PROVE  TInv'
<1> USE DEF TInv
<1> DEFINE p == Target(t)
           rebuilt == [q \in {p} |-> Rebuilt(p, corrections)]
           prepared == [q \in {p} |-> [prior |-> cards[p].status, resulting |-> rebuilt[p].status]]
<1>0. /\ p \in Periods /\ tx[t].pc = "begun" /\ CardFree(p) /\ OrganizationFree
  BY DEF Prepare, Doing, TxTypeOK, WellFormed, CardRequests, Target
<1>1. CASE Refuse(t)
  BY <1>1, RefusalKeeps
<1>2. CASE Frozen(p) /\ CommitCards(t, <<>>, <<>>)
           /\ UNCHANGED <<attendanceVars, corrections, policies>>
  <2>1. DOMAIN <<>> = {}
    OBVIOUS
  <2>2. /\ TxTypeOK' /\ refused' = refused
        /\ tx'[t] = NoTx /\ \A u \in Txs \ {t} : tx'[u] = tx[u]
        /\ \/ /\ Key(t) \notin receipts /\ receipts' = receipts \cup {Key(t)}
              /\ UNCHANGED <<cards, event>>
           \/ UNCHANGED <<cards, event, receipts>>
    <3>1. cards = [q \in Periods |-> cards[q]] /\ event = [q \in Periods |-> event[q]]
      BY DEF TypeOK
    <3> QED
      BY <1>2, <2>1, <3>1, WrittenOrNot
  <2>3. CASE UNCHANGED <<cards, event, receipts>>
    BY <1>2, <2>2, <2>3, DoneBefore, RefusalKeeps
  <2>4. CASE receipts' = receipts \cup {Key(t)} /\ UNCHANGED <<cards, event>>
    <3>1. Key(t) \in Keys
      BY <1>0 DEF Key, TxTypeOK, WellFormed
    <3>2. TypeOK'
      BY <1>2, <2>2, <2>4, <3>1 DEF TypeOK, attendanceVars
    <3>3. \A q \in Periods : cards'[q].status = "draft" =>
            /\ Closed(q) /\ Selected(q) \cap OpenIntervals = {}
            /\ cards'[q].evidence = Evidence(q, corrections')
      BY <1>2, <2>4 DEF DraftsAreClosed, DraftsAsAttended
    <3>4. NeverRefused' /\ {} \in SUBSET Periods
      BY <2>2 DEF NeverRefused
    <3> QED
      BY <1>2, <2>2, <2>4, <3>2, <3>3, <3>4, CardsKeep
  <2> QED
    BY <2>2, <2>3, <2>4
<1>3. CASE ~Frozen(p) /\ Snapshots(p, corrections) /\ CommitCards(t, rebuilt, prepared)
           /\ UNCHANGED <<attendanceVars, corrections, policies>>
  <2>0. corrections \in Seq(Correction)
    BY DEF TypeOK, Correction
  <2>1. /\ Rebuilt(p, corrections) \in Card
        /\ Rebuilt(p, corrections).status # "none" /\ Rebuilt(p, corrections).version # None
        /\ Rebuilt(p, corrections).evidence = Evidence(p, corrections)
    BY <1>0, <1>3, <2>0, RebuiltTyped
  <2>2. DOMAIN rebuilt = {p} /\ rebuilt[p] = Rebuilt(p, corrections)
        /\ prepared[p] = [prior |-> cards[p].status, resulting |-> Rebuilt(p, corrections).status]
    OBVIOUS
  <2>3. ~TriggerRefuses(cards[p], rebuilt[p])
    BY <1>3 DEF Frozen, TriggerRefuses
  <2>4. prepared[p] \in [prior : Statuses, resulting : Statuses]
    BY <1>0, <2>1, <2>2 DEF TypeOK, Card
  <2> HIDE DEF rebuilt, prepared
  <2>5. DOMAIN rebuilt \subseteq Periods /\ \A q \in DOMAIN rebuilt : ~TriggerRefuses(cards[q], rebuilt[q])
    BY <1>0, <2>2, <2>3
  <2>6. /\ TxTypeOK' /\ refused' = refused
        /\ tx'[t] = NoTx /\ \A u \in Txs \ {t} : tx'[u] = tx[u]
        /\ \/ /\ receipts' = receipts \cup {Key(t)}
              /\ cards' = [q \in Periods |-> IF q \in DOMAIN rebuilt THEN rebuilt[q] ELSE cards[q]]
              /\ event' = [q \in Periods |-> IF q \in DOMAIN rebuilt THEN prepared[q] ELSE event[q]]
           \/ UNCHANGED <<cards, event, receipts>>
    BY <1>3, <2>5, WrittenOrNot
  <2>7. CASE UNCHANGED <<cards, event, receipts>>
    BY <1>3, <2>6, <2>7, DoneBefore, RefusalKeeps
  <2>8. CASE /\ receipts' = receipts \cup {Key(t)}
             /\ cards' = [q \in Periods |-> IF q \in DOMAIN rebuilt THEN rebuilt[q] ELSE cards[q]]
             /\ event' = [q \in Periods |-> IF q \in DOMAIN rebuilt THEN prepared[q] ELSE event[q]]
    <3>1. TypeOK'
      <4>1. policies' \in Seq(PolicyStarts) /\ corrections' \in Seq(Correction)
            /\ UNCHANGED attendanceVars /\ tx[t].pc # "idle"
        BY <1>0, <1>3, <2>0 DEF TypeOK
      <4>2. \A q \in DOMAIN rebuilt :
              /\ rebuilt[q] \in Card /\ (rebuilt[q].status = "none" <=> rebuilt[q].version = None)
              /\ prepared[q] \in [prior : Statuses, resulting : Statuses]
        BY <2>1, <2>2, <2>4
      <4> QED
        BY <2>5, <2>6, <2>8, <4>1, <4>2, WrittenTyped
    <3>2. \A q \in Periods \ {p} : cards'[q] = cards[q] /\ event'[q] = event[q]
      BY <2>2, <2>8
    <3>3. cards'[p] = Rebuilt(p, corrections)
          /\ event'[p] = [prior |-> cards[p].status, resulting |-> Rebuilt(p, corrections).status]
      BY <1>0, <2>2, <2>8
    <3>4. \A u \in Txs \ {t}, q \in {p} : ~HoldsCard(u, q)
      BY <1>0 DEF CardFree
    <3>5. Closed(p) /\ Selected(p) \cap OpenIntervals = {}
      BY <1>3 DEF Snapshots, OpenIntervals
    <3>6. \A q \in Periods : cards'[q].status = "draft" =>
            /\ Closed(q) /\ Selected(q) \cap OpenIntervals = {}
            /\ cards'[q].evidence = Evidence(q, corrections')
      BY <1>3, <2>1, <3>2, <3>3, <3>5 DEF DraftsAreClosed, DraftsAsAttended
    <3>7. \A u \in Txs \ {t} : tx[u].pc # "selected"
      BY <1>0 DEF OrganizationFree, HoldsOrganization
    <3>8. NeverRefused' /\ {p} \in SUBSET Periods /\ UNCHANGED attendanceVars
          /\ \A q \in {p} : event'[q].resulting = cards'[q].status
      BY <1>0, <1>3, <2>6, <3>3 DEF NeverRefused
    <3> HIDE DEF p
    <3> QED
      BY <2>6, <3>1, <3>2, <3>4, <3>6, <3>7, <3>8, CardsKeep
  <2> QED
    BY <2>6, <2>7, <2>8
<1> QED
  BY <1>1, <1>2, <1>3 DEF Prepare

(* The update of the one card that a submission or a decision has locked.  *)
LEMMA TransitionKeeps ==
  ASSUME TInv, NEW t \in Txs, tx[t].pc = "validated", NEW p \in Periods, p = Target(t),
         NEW new \in Card, new.status \in {"submitted", "approved", "returned"},
         new.version # None, ~TriggerRefuses(cards[p], new),
         CommitCards(t, [q \in {p} |-> new],
                     [q \in {p} |-> [prior |-> tx[t].seen, resulting |-> new.status]]),
         UNCHANGED <<attendanceVars, corrections, policies>>
  PROVE  TInv'
<1> USE DEF TInv
<1> DEFINE changed == [q \in {p} |-> new]
           events == [q \in {p} |-> [prior |-> tx[t].seen, resulting |-> new.status]]
<1>1. /\ DOMAIN changed = {p} /\ changed[p] = new
      /\ events[p] = [prior |-> tx[t].seen, resulting |-> new.status]
  OBVIOUS
<1>2. events[p] \in [prior : Statuses, resulting : Statuses]
  BY <1>1 DEF TxTypeOK, TxRecord, Card
<1>3. CommitCards(t, changed, events)
  OBVIOUS
<1> HIDE DEF changed, events
<1>4. DOMAIN changed \subseteq Periods /\ \A q \in DOMAIN changed : ~TriggerRefuses(cards[q], changed[q])
  BY <1>1
<1>5. /\ TxTypeOK' /\ refused' = refused
      /\ tx'[t] = NoTx /\ \A u \in Txs \ {t} : tx'[u] = tx[u]
      /\ \/ /\ receipts' = receipts \cup {Key(t)}
            /\ cards' = [q \in Periods |-> IF q \in DOMAIN changed THEN changed[q] ELSE cards[q]]
            /\ event' = [q \in Periods |-> IF q \in DOMAIN changed THEN events[q] ELSE event[q]]
         \/ UNCHANGED <<cards, event, receipts>>
  BY <1>3, <1>4, WrittenOrNot
<1>6. CASE UNCHANGED <<cards, event, receipts>>
  BY <1>3, <1>5, <1>6, DoneBefore, RefusalKeeps
<1>7. CASE /\ receipts' = receipts \cup {Key(t)}
           /\ cards' = [q \in Periods |-> IF q \in DOMAIN changed THEN changed[q] ELSE cards[q]]
           /\ event' = [q \in Periods |-> IF q \in DOMAIN changed THEN events[q] ELSE event[q]]
  <2>1. TypeOK'
    <3>1. policies' \in Seq(PolicyStarts) /\ corrections' \in Seq(Correction)
          /\ UNCHANGED attendanceVars /\ tx[t].pc # "idle"
      BY DEF TypeOK, Correction
    <3>2. \A q \in DOMAIN changed :
            /\ changed[q] \in Card /\ (changed[q].status = "none" <=> changed[q].version = None)
            /\ events[q] \in [prior : Statuses, resulting : Statuses]
      BY <1>1, <1>2
    <3> QED
      BY <1>4, <1>5, <1>7, <3>1, <3>2, WrittenTyped
  <2>2. \A q \in Periods \ {p} : cards'[q] = cards[q] /\ event'[q] = event[q]
    BY <1>1, <1>7
  <2>3. cards'[p] = new /\ event'[p] = [prior |-> tx[t].seen, resulting |-> new.status]
    BY <1>1, <1>7
  <2>4. \A u \in Txs \ {t}, q \in {p} : ~HoldsCard(u, q)
    BY DEF Exclusive
  <2>5. \A q \in Periods : cards'[q].status = "draft" =>
          /\ cards[q].status = "draft"
          /\ Closed(q) /\ Selected(q) \cap OpenIntervals = {}
          /\ cards'[q].evidence = Evidence(q, corrections')
    BY <2>2, <2>3 DEF DraftsAreClosed, DraftsAsAttended
  <2>6. NeverRefused' /\ {p} \in SUBSET Periods /\ UNCHANGED attendanceVars
        /\ \A q \in {p} : event'[q].resulting = cards'[q].status
    BY <1>5, <2>3 DEF NeverRefused
  <2> QED
    BY <1>5, <2>1, <2>2, <2>4, <2>5, <2>6, CardsKeep
<1> QED
  BY <1>5, <1>6, <1>7

(* A card whose state changes keeps its policy and its evidence.           *)
LEMMA Transitioned ==
  ASSUME NEW card \in Card, NEW status \in Statuses
  PROVE  LET new == [card EXCEPT !.status = status, !.version = @ + 1]
         IN /\ new \in Card /\ new.status = status /\ new.version # None
            /\ new.policy = card.policy /\ new.evidence = card.evidence
<1> DEFINE new == [card EXCEPT !.status = status, !.version = @ + 1]
<1>1. new = [card EXCEPT !.status = status, !.version = @ + 1]
  OBVIOUS
<1> HIDE DEF new
<1>2. new = [status |-> status, version |-> card.version + 1,
             policy |-> card.policy, evidence |-> card.evidence]
  BY <1>1 DEF Card
<1>3. card.version \in Nat /\ new \in Card
  BY <1>2 DEF Card
<1>4. /\ new \in Card /\ new.status = status /\ new.version # None
      /\ new.policy = card.policy /\ new.evidence = card.evidence
  BY <1>2, <1>3 DEF None
<1> QED
  BY <1>4 DEF new

(* Submitting a card keeps the invariant.                                  *)
LEMMA SubmitKeeps ==
  ASSUME TInv, NEW t \in Txs, Submit(t)
  PROVE  TInv'
<1> DEFINE p == Target(t)
           submitted == [cards[p] EXCEPT !.status = "submitted", !.version = @ + 1]
<1>1. tx[t].request.op = "submit" /\ tx[t].pc = "validated"
  BY DEF Submit, Doing
<1>2. p \in Periods /\ cards[p] \in Card /\ cards[p].status \in {"draft", "returned"}
  BY <1>1 DEF TInv, TypeOK, TxTypeOK, WellFormed, CardRequests, Target, ValidatedIsCurrent, Decisions
<1>3. /\ submitted \in Card /\ submitted.status = "submitted" /\ submitted.version # None
      /\ ~TriggerRefuses(cards[p], submitted)
  <2> HIDE DEF p
  <2>1. "submitted" \in Statuses
    BY DEF Statuses
  <2>2. /\ submitted \in Card /\ submitted.status = "submitted" /\ submitted.version # None
        /\ submitted.policy = cards[p].policy /\ submitted.evidence = cards[p].evidence
    BY <1>2, <2>1, Transitioned
  <2> QED
    BY <1>2, <2>2 DEF TriggerRefuses
<1>4. CASE Refuse(t)
  BY <1>4, RefusalKeeps
<1>5. CASE CommitCards(t, [q \in {p} |-> submitted],
                       [q \in {p} |-> [prior |-> tx[t].seen, resulting |-> "submitted"]])
           /\ UNCHANGED <<attendanceVars, corrections, policies>>
  <2> HIDE DEF p, submitted
  <2>1. p = Target(t)
    BY DEF p
  <2> QED
    BY <1>1, <1>2, <1>3, <1>5, <2>1, TransitionKeeps
<1> QED
  BY <1>4, <1>5 DEF Submit

(* Approving or returning a card keeps the invariant.                      *)
LEMMA DecideKeeps ==
  ASSUME TInv, NEW t \in Txs, Decide(t)
  PROVE  TInv'
<1> DEFINE p == Target(t)
           resulting == IF tx[t].drifted \/ tx[t].request.op = "return"
                          THEN "returned" ELSE "approved"
           decided == [cards[p] EXCEPT !.status = resulting, !.version = @ + 1]
<1>1. tx[t].request.op \in Decisions /\ tx[t].pc = "validated"
  BY DEF Decide
<1>2. p \in Periods /\ cards[p] \in Card /\ cards[p].status = "submitted"
  BY <1>1 DEF TInv, TypeOK, TxTypeOK, WellFormed, CardRequests, Target, ValidatedIsCurrent, Decisions
<1>3. resulting \in {"returned", "approved"}
  OBVIOUS
<1>4. CommitCards(t, [q \in {p} |-> decided],
                  [q \in {p} |-> [prior |-> tx[t].seen, resulting |-> resulting]])
      /\ UNCHANGED <<attendanceVars, corrections, policies>>
  BY DEF Decide
<1> HIDE DEF resulting
<1>5. /\ decided \in Card /\ decided.status = resulting /\ decided.version # None
      /\ ~TriggerRefuses(cards[p], decided)
  <2> HIDE DEF p
  <2>1. resulting \in Statuses
    BY <1>3 DEF Statuses
  <2>2. /\ decided \in Card /\ decided.status = resulting /\ decided.version # None
        /\ decided.policy = cards[p].policy /\ decided.evidence = cards[p].evidence
    BY <1>2, <2>1, Transitioned
  <2> QED
    BY <1>2, <2>2 DEF TriggerRefuses
<1>6. p = Target(t)
  OBVIOUS
<1> HIDE DEF p, decided
<1> QED
  BY <1>1, <1>2, <1>3, <1>4, <1>5, <1>6, TransitionKeeps

(* A policy saved changes no card.                                         *)
LEMMA SavePolicyKeeps ==
  ASSUME TInv, NEW t \in Txs, SavePolicy(t)
  PROVE  TInv'
<1> USE DEF TInv
<1>1. CASE Refuse(t)
  BY <1>1, RefusalKeeps
<1>2. CASE ~Refuse(t)
  <2>1. /\ policies' = Append(policies, Target(t)) /\ receipts' = receipts \cup {Key(t)}
        /\ Finish(t) /\ UNCHANGED <<attendanceVars, corrections, cards, event, refused>>
        /\ tx[t].request.op = "policy" /\ tx[t].pc = "begun"
    BY <1>2 DEF SavePolicy, Doing
  <2>2. Target(t) \in PolicyStarts /\ Key(t) \in Keys
    BY <2>1 DEF TxTypeOK, WellFormed, Target, Key
  <2>3. TypeOK'
    BY <2>1, <2>2 DEF TypeOK, attendanceVars
  <2>4. TxTypeOK' /\ tx'[t] = NoTx /\ \A u \in Txs \ {t} : tx'[u] = tx[u]
    BY <2>1, Finished
  <2>5. \A q \in Periods : cards'[q].status = "draft" =>
          /\ Closed(q) /\ Selected(q) \cap OpenIntervals = {}
          /\ cards'[q].evidence = Evidence(q, corrections')
    BY <2>1 DEF DraftsAreClosed, DraftsAsAttended
  <2>6. NeverRefused' /\ {} \in SUBSET Periods
    BY <2>1 DEF NeverRefused
  <2> QED
    BY <2>1, <2>3, <2>4, <2>5, <2>6, CardsKeep
<1> QED
  BY <1>1, <1>2

(* A correction rebuilds the drafts that are made of its interval.         *)
LEMMA CorrectKeeps ==
  ASSUME TInv, NEW t \in Txs, Correct(t)
  PROVE  TInv'
<1> USE DEF TInv
<1> DEFINE new == [interval |-> Target(t), span |-> tx[t].request.span]
           made == Append(corrections, new)
           affected == tx[t].affected
           rebuilt == [p \in affected |-> Rebuilt(p, made)]
           prepared == [p \in affected |-> [prior |-> cards[p].status,
                                            resulting |-> cards[p].status]]
<1>1. CASE Refuse(t)
  BY <1>1, RefusalKeeps
<1>2. CASE ~Refuse(t)
  <2>1. /\ ~CorrectionBlocked(affected) /\ \A p \in affected : Snapshots(p, made)
        /\ ReceiptIndex(Key(t)) /\ CommitCards(t, rebuilt, prepared)
        /\ corrections' = IF \E p \in affected : TriggerRefuses(cards[p], rebuilt[p])
                            THEN corrections ELSE made
        /\ UNCHANGED <<attendanceVars, policies>>
        /\ tx[t].request.op = "correct" /\ tx[t].pc = "selected"
        /\ \A p \in affected : CardFree(p)
    BY <1>2 DEF Correct, Doing
  <2>2. affected \in SUBSET Periods
    BY DEF TxTypeOK, TxRecord
  <2>3. \A p \in affected : cards[p].status \in {"draft", "returned"}
    BY <2>1 DEF CorrectionBlocked
  <2>4. new \in Correction
    BY <2>1 DEF TxTypeOK, WellFormed, Correction, Target
  <2>5. corrections \in Seq(Correction)
    BY DEF TypeOK, Correction
  <2>6. made \in Seq(Correction)
    BY <2>4, <2>5
  <2>7. DOMAIN rebuilt = affected /\ DOMAIN prepared = affected
        /\ \A p \in affected : /\ rebuilt[p] = Rebuilt(p, made)
                               /\ prepared[p] = [prior |-> cards[p].status,
                                                 resulting |-> cards[p].status]
    OBVIOUS
  <2>8. new.interval = Target(t)
    OBVIOUS
  <2>9. made = Append(corrections, new)
    OBVIOUS
  <2> HIDE DEF new, made, affected, rebuilt, prepared
  <2>10. \A p \in affected : /\ rebuilt[p] \in Card /\ rebuilt[p].version # None
                             /\ rebuilt[p].status = cards[p].status
                             /\ rebuilt[p].evidence = Evidence(p, made)
    <3>1. \A p \in affected : rebuilt[p].status = cards[p].status
      BY <2>3, <2>7 DEF Rebuilt
    <3>2. \A p \in affected : /\ Rebuilt(p, made) \in Card /\ Rebuilt(p, made).version # None
                              /\ Rebuilt(p, made).evidence = Evidence(p, made)
      BY <2>1, <2>2, <2>6, RebuiltTyped
    <3> QED
      BY <2>7, <3>1, <3>2
  <2>11. \A p \in affected : ~TriggerRefuses(cards[p], rebuilt[p])
    BY <2>3 DEF TriggerRefuses
  <2>12. corrections' = made
    BY <2>1, <2>11
  <2>13. /\ TxTypeOK' /\ refused' = refused
         /\ tx'[t] = NoTx /\ \A u \in Txs \ {t} : tx'[u] = tx[u]
         /\ receipts' = receipts \cup {Key(t)}
         /\ cards' = [q \in Periods |-> IF q \in DOMAIN rebuilt THEN rebuilt[q] ELSE cards[q]]
         /\ event' = [q \in Periods |-> IF q \in DOMAIN rebuilt THEN prepared[q] ELSE event[q]]
    <3>1. Key(t) \notin receipts
      BY <2>1 DEF ReceiptIndex
    <3>2. DOMAIN rebuilt \subseteq Periods
          /\ \A p \in DOMAIN rebuilt : ~TriggerRefuses(cards[p], rebuilt[p])
      BY <2>2, <2>7, <2>11
    <3> QED
      BY <2>1, <3>1, <3>2, WrittenOrNot
  <2>14. TypeOK'
    <3>1. policies' \in Seq(PolicyStarts) /\ corrections' \in Seq(Correction)
          /\ UNCHANGED attendanceVars /\ tx[t].pc # "idle" /\ DOMAIN rebuilt \subseteq Periods
      BY <2>1, <2>2, <2>6, <2>7, <2>12 DEF TypeOK
    <3>2. \A q \in DOMAIN rebuilt :
            /\ rebuilt[q] \in Card /\ (rebuilt[q].status = "none" <=> rebuilt[q].version = None)
            /\ prepared[q] \in [prior : Statuses, resulting : Statuses]
      BY <2>3, <2>7, <2>10 DEF Card
    <3> QED
      BY <2>13, <3>1, <3>2, WrittenTyped
  <2>15. \A p \in Periods \ affected : cards'[p] = cards[p] /\ event'[p] = event[p]
    BY <2>7, <2>13
  <2>16. \A p \in affected : cards'[p] = rebuilt[p] /\ event'[p] = prepared[p]
    BY <2>2, <2>7, <2>13
  <2>17. \A p \in Periods : cards'[p].status = cards[p].status
    BY <2>2, <2>10, <2>15, <2>16
  <2>18. ASSUME NEW p \in Periods, cards'[p].status = "draft"
         PROVE  /\ Closed(p) /\ Selected(p) \cap OpenIntervals = {}
                /\ cards'[p].evidence = Evidence(p, corrections')
    <3>1. CASE p \in affected
      BY <2>1, <2>10, <2>12, <2>16, <3>1 DEF Snapshots, OpenIntervals
    <3>2. CASE p \notin affected
      <4>1. cards'[p] = cards[p] /\ cards[p].status = "draft"
        BY <2>15, <2>18, <3>2
      <4>2. Target(t) \notin Selected(p)
        BY <2>1, <3>2, <4>1 DEF DraftsAreAffected, affected
      <4>3. \A j \in Selected(p) : Effective(j, made) = Effective(j, corrections)
        <5>1. intervals \in Seq(Spans)
          BY DEF TypeOK
        <5> QED
          BY <2>4, <2>5, <2>8, <2>9, <4>2, <5>1, AppendedCorrection
      <4>4. Evidence(p, made) = Evidence(p, corrections)
        BY <4>3 DEF Evidence
      <4> QED
        BY <2>12, <4>1, <4>4 DEF DraftsAreClosed, DraftsAsAttended
    <3> QED
      BY <3>1, <3>2
  <2>19. \A p \in affected : event'[p].resulting = cards'[p].status
    BY <2>7, <2>10, <2>16
  <2>20. NeverRefused'
    BY <2>13 DEF NeverRefused
  <2>21. \A u \in Txs \ {t}, p \in affected : ~HoldsCard(u, p)
    BY <2>1 DEF CardFree
  <2>22. \A u \in Txs \ {t}, p \in Periods :
           tx[u].pc = "selected" /\ cards'[p].status = "draft" => cards[p].status = "draft"
    BY <2>17
  <2>23. UNCHANGED attendanceVars /\ tx'[t] = NoTx /\ \A u \in Txs \ {t} : tx'[u] = tx[u]
    BY <2>1, <2>13
  <2>24. \A p \in Periods : cards'[p].status = "draft" =>
           /\ Closed(p) /\ Selected(p) \cap OpenIntervals = {}
           /\ cards'[p].evidence = Evidence(p, corrections')
    BY <2>18
  <2>25. TxTypeOK'
    BY <2>13
  <2> HIDE DEF TInv
  <2> QED
    BY <2>2, <2>14, <2>15, <2>19, <2>20, <2>21, <2>22, <2>23, <2>24, <2>25, CardsKeep
<1> QED
  BY <1>1, <1>2

-----------------------------------------------------------------------------
(* The invariant holds initially.                                          *)
LEMMA TInvInit == Init => TInv
<1> SUFFICES ASSUME Init PROVE TInv
  OBVIOUS
<1> USE DEF Init
<1>1. OpenIntervals = {} /\ Cardinality(OpenIntervals) <= 1
  <2>1. OpenIntervals = {}
    BY DEF OpenIntervals, Intervals
  <2>2. Cardinality({}) = 0
    BY FS_EmptySet
  <2> QED
    BY <2>1, <2>2
<1>2. NoCard \in Card /\ NoCard.status = "none" /\ NoCard.version = None
  BY DEF NoCard, Card, Statuses, None
<1>3. TypeOK
  <2>1. now \in 0..MaxNow /\ call \in [Calls -> (0..MaxNow) \cup {Idle}]
    BY TimecardsAssumption
  <2>2. /\ intervals \in Seq(Spans) /\ policies \in Seq(PolicyStarts)
        /\ corrections \in Seq([interval : Nat \ {0}, span : CorrectedSpans])
    OBVIOUS
  <2>3. /\ cards \in [Periods -> Card]
        /\ \A p \in Periods : cards[p].status = "none" <=> cards[p].version = None
    BY <1>2
  <2>4. event \in [Periods -> [prior : Statuses, resulting : Statuses]]
    BY DEF Statuses
  <2>5. receipts \subseteq Keys /\ refused \in BOOLEAN
    OBVIOUS
  <2> QED
    BY <2>1, <2>2, <2>3, <2>4, <2>5 DEF TypeOK
<1>4. NoTx.pc = "idle"
  BY DEF NoTx
<1>5. TxTypeOK
  BY <1>4, NoTxTyped DEF TxTypeOK
<1>6. OneOpenInterval /\ NeverRefused /\ CallsAreNow
  BY <1>1 DEF OneOpenInterval, NeverRefused, CallsAreNow
<1>7. Exclusive
  BY <1>4 DEF Exclusive, HoldsOrganization, HoldsCard
<1>8. \A t \in Txs : ValidatedIsCurrent(t) /\ CorrectsAnInterval(t) /\ DraftsAreAffected(t)
  BY <1>4 DEF ValidatedIsCurrent, CorrectsAnInterval, HoldsOrganization, DraftsAreAffected
<1>9. \A p \in Periods : event[p].resulting = cards[p].status
  BY <1>2
<1>10. DraftsAreClosed /\ DraftsAsAttended
  BY <1>2 DEF DraftsAreClosed, DraftsAsAttended
<1> QED
  BY <1>3, <1>5, <1>6, <1>7, <1>8, <1>9, <1>10 DEF TInv

(* A step that changes nothing keeps the invariant.                        *)
LEMMA Stutters ==
  ASSUME TInv, UNCHANGED vars
  PROVE  TInv'
<1> USE DEF TInv
<1>1. UNCHANGED <<now, call, intervals, corrections, policies, cards, event, receipts, refused, tx>>
  BY DEF vars, attendanceVars, cardVars
<1>2. TypeOK' /\ OneOpenInterval' /\ NeverRefused' /\ CallsAreNow'
      /\ \A p \in Periods : event'[p].resulting = cards'[p].status
  BY <1>1 DEF TypeOK, OneOpenInterval, OpenIntervals, Intervals, IsOpen, NeverRefused, CallsAreNow
<1>3. TxTypeOK' /\ Exclusive'
  BY <1>1 DEF TxTypeOK, WellFormed, Exclusive, HoldsOrganization, HoldsCard, Target
<1>4. /\ OpenIntervals' = OpenIntervals /\ Intervals' = Intervals
      /\ \A p : Selected(p)' = Selected(p) /\ Closed(p)' = Closed(p)
      /\ \A p : Evidence(p, corrections)' = Evidence(p, corrections)
  BY <1>1 DEF OpenIntervals, Intervals, IsOpen, Selected, Closed, Evidence, Effective,
              LatestCorrection, CorrectionsOf
<1>5. DraftsAreClosed' /\ DraftsAsAttended'
  BY <1>1, <1>4 DEF DraftsAreClosed, DraftsAsAttended
<1>6. \A t \in Txs : ValidatedIsCurrent(t)' /\ CorrectsAnInterval(t)' /\ DraftsAreAffected(t)'
  BY <1>1, <1>4
     DEF ValidatedIsCurrent, CorrectsAnInterval, DraftsAreAffected, HoldsOrganization, Target
<1> QED
  BY <1>2, <1>3, <1>5, <1>6

(* Every step keeps the invariant.                                         *)
LEMMA StepKeeps ==
  ASSUME TInv, [Next]_vars
  PROVE  TInv'
<1>1. CASE Tick \/ (\E c \in Calls : CheckIn(c) \/ InsertInterval(c)) \/ ClockOut
  BY <1>1, AttendanceKeeps
<1>2. ASSUME NEW t \in Txs, Step(t)
      PROVE  TInv'
  BY <1>2, PrepareKeeps, ValidatesKeep, SubmitKeeps, DecideKeeps, SavePolicyKeeps, CheckKeeps,
     SelectionKeeps, CorrectKeeps, RefusalKeeps DEF Step, RollBack
<1>3. ASSUME NEW t \in Txs, NEW r \in FreshRequests, Begin(t, r)
      PROVE  TInv'
  BY <1>3, BeginKeeps
<1>4. CASE UNCHANGED vars
  BY <1>4, Stutters
<1> QED
  BY <1>1, <1>2, <1>3, <1>4 DEF Next

(* TInv is an invariant of every instance.                                 *)
THEOREM Invariance == Spec => []TInv
<1>1. Init => TInv
  BY TInvInit
<1>2. TInv /\ [Next]_vars => TInv'
  BY StepKeeps
<1> QED
  BY <1>1, <1>2, PTL DEF Spec

-----------------------------------------------------------------------------

(* A step of a transaction: it corrects nothing, or what it has checked;   *)
(* and only what is checked gets the lock of a correction.                 *)
LEMMA WhatIsCorrected ==
  ASSUME TInv, NEW t \in Txs, Step(t) \/ \E r \in FreshRequests : Begin(t, r)
  PROVE  /\ intervals' = intervals
         /\ \A u \in Txs \ {t} : tx'[u] = tx[u]
         /\ HoldsOrganization(t)' => /\ tx'[t].request = tx[t].request
                                     /\ HoldsOrganization(t) \/ MayCorrect(t)
         /\ \/ corrections' = corrections
            \/ /\ HoldsOrganization(t)
               /\ corrections' = Append(corrections, [interval |-> Target(t),
                                                      span |-> tx[t].request.span])
<1>0. tx \in [Txs -> TxRecord] /\ NoTx.pc = "idle" /\ NoTx \in TxRecord
  BY NoTxTyped DEF TInv, TxTypeOK, NoTx
<1>1. Finish(t) => /\ \A u \in Txs \ {t} : tx'[u] = tx[u]
                   /\ ~HoldsOrganization(t)'
  BY <1>0 DEF Finish, HoldsOrganization
<1>2. CASE Refuse(t)
  BY <1>1, <1>2 DEF Refuse, attendanceVars, cardVars
<1>3. CASE Prepare(t) \/ Submit(t) \/ Decide(t) \/ SavePolicy(t)
  BY <1>1, <1>2, <1>3 DEF Prepare, Submit, Decide, SavePolicy, CommitCards, attendanceVars
<1>4. CASE ValidateSubmission(t) \/ ValidateDecision(t)
  BY <1>0, <1>2, <1>4
     DEF ValidateSubmission, ValidateDecision, attendanceVars, cardVars, HoldsOrganization, TxRecord
<1>5. CASE CheckCorrection(t)
  <2>1. CASE ~Refuse(t)
    BY <1>0, <1>5, <2>1
       DEF CheckCorrection, attendanceVars, cardVars, HoldsOrganization, TxRecord
  <2> QED
    BY <1>2, <2>1
<1>6. CASE SelectAffected(t)
  BY <1>0, <1>6 DEF SelectAffected, attendanceVars, cardVars, HoldsOrganization, Doing, TxRecord
<1>7. CASE Correct(t)
  <2>1. CASE ~Refuse(t)
    BY <1>1, <1>7, <2>1 DEF Correct, CommitCards, attendanceVars, HoldsOrganization, Doing
  <2> QED
    BY <1>2, <2>1
<1>8. ASSUME NEW r \in FreshRequests, Begin(t, r)
      PROVE  /\ UNCHANGED <<intervals, corrections>> /\ ~HoldsOrganization(t)'
             /\ \A u \in Txs \ {t} : tx'[u] = tx[u]
  <2>1. [NoTx EXCEPT !.pc = "begun", !.request = r].pc = "begun"
    BY <1>0 DEF TxRecord
  <2> QED
    BY <1>0, <1>8, <2>1 DEF Begin, attendanceVars, cardVars, HoldsOrganization
<1> QED
  BY <1>2, <1>3, <1>4, <1>5, <1>6, <1>7, <1>8 DEF Step, RollBack

(* An interval ends after it began.                                        *)
LEMMA ClockedOut ==
  ASSUME TInv, WorkIsCompleted,
         Tick \/ (\E c \in Calls : CheckIn(c) \/ InsertInterval(c)) \/ ClockOut
  PROVE  \A i \in Intervals' \ OpenIntervals' : WellOrdered(intervals'[i])
<1> USE DEF TInv
<1>1. CASE UNCHANGED intervals
  BY <1>1 DEF WorkIsCompleted, Intervals, OpenIntervals, IsOpen, WellOrdered
<1>2. ASSUME NEW c \in Calls, InsertInterval(c), intervals' # intervals,
             NEW i \in Intervals' \ OpenIntervals'
      PROVE  WellOrdered(intervals'[i])
  <2>1. intervals' = Append(intervals, [clockIn |-> call[c], clockOut |-> StillOpen])
    BY <1>2 DEF InsertInterval
  <2>2. i \in Intervals /\ intervals'[i] = intervals[i]
    BY <1>2, <2>1 DEF Intervals, OpenIntervals, IsOpen, TypeOK
  <2>3. i \notin OpenIntervals
    BY <1>2, <2>2 DEF OpenIntervals, IsOpen
  <2> QED
    BY <2>2, <2>3 DEF WorkIsCompleted, WellOrdered
<1>3. ASSUME ClockOut, NEW i \in Intervals' \ OpenIntervals'
      PROVE  WellOrdered(intervals'[i])
  <2>1. PICK j \in OpenIntervals : /\ now > intervals[j].clockIn
                                   /\ intervals' = [intervals EXCEPT ![j].clockOut = now]
    BY <1>3 DEF ClockOut
  <2>2. j \in DOMAIN intervals /\ intervals[j] \in Spans /\ i \in Intervals /\ now \in Int
        /\ intervals[j].clockIn \in Int
    <3>1. j \in DOMAIN intervals /\ intervals[j] \in Spans
      BY DEF OpenIntervals, Intervals, TypeOK
    <3>2. now \in Int /\ MaxNow \in Nat
      BY TimecardsAssumption DEF TypeOK
    <3>3. intervals[j].clockIn \in Int
      BY <3>1, <3>2 DEF Spans
    <3>4. i \in Intervals
      BY <1>3, <2>1 DEF Intervals
    <3> QED
      BY <3>1, <3>2, <3>3, <3>4
  <2>3. CASE i = j
    <3>1. intervals'[i].clockIn = intervals[j].clockIn /\ intervals'[i].clockOut = now
      BY <2>1, <2>2, <2>3 DEF Spans
    <3> QED
      BY <2>1, <2>2, <3>1 DEF WellOrdered
  <2>4. CASE i # j
    <3>1. intervals'[i] = intervals[i] /\ i \notin OpenIntervals
      BY <1>3, <2>1, <2>2, <2>4 DEF OpenIntervals, IsOpen
    <3> QED
      BY <2>2, <3>1 DEF WorkIsCompleted, WellOrdered
  <2> QED
    BY <2>3, <2>4
<1>4. CASE Tick \/ \E c \in Calls : CheckIn(c)
  BY <1>1, <1>4 DEF Tick, CheckIn
<1> QED
  BY <1>1, <1>2, <1>3, <1>4

(* Every step keeps WorkIsCompleted.                                       *)
LEMMA WorkKept ==
  ASSUME TInv, WorkIsCompleted, [Next]_vars
  PROVE  WorkIsCompleted'
<1> USE DEF TInv
<1>1. CASE Tick \/ (\E c \in Calls : CheckIn(c) \/ InsertInterval(c)) \/ ClockOut
  <2>1. UNCHANGED <<corrections, tx>>
    BY <1>1 DEF Tick, CheckIn, InsertInterval, ClockOut, cardVars
  <2>2. \A i \in Intervals \ OpenIntervals : i \in Intervals' \ OpenIntervals'
    BY <1>1, IntervalsGrow DEF OpenIntervals, IsOpen
  <2>3. \A i \in Intervals' \ OpenIntervals' : WellOrdered(intervals'[i])
    BY <1>1, ClockedOut
  <2> QED
    BY <2>1, <2>2, <2>3 DEF WorkIsCompleted, WellOrdered, HoldsOrganization
<1>2. ASSUME NEW t \in Txs, Step(t) \/ \E r \in FreshRequests : Begin(t, r)
      PROVE  WorkIsCompleted'
  <2>1. /\ intervals' = intervals
        /\ \A u \in Txs \ {t} : tx'[u] = tx[u]
        /\ HoldsOrganization(t)' => /\ tx'[t].request = tx[t].request
                                    /\ HoldsOrganization(t) \/ MayCorrect(t)
        /\ \/ corrections' = corrections
           \/ /\ HoldsOrganization(t)
              /\ corrections' = Append(corrections, [interval |-> Target(t),
                                                     span |-> tx[t].request.span])
    BY <1>2, WhatIsCorrected
  <2>2. Intervals' = Intervals /\ OpenIntervals' = OpenIntervals
    BY <2>1 DEF Intervals, OpenIntervals, IsOpen
  <2>3. \A i \in Intervals' \ OpenIntervals' : WellOrdered(intervals'[i])
    BY <2>1, <2>2 DEF WorkIsCompleted
  <2>4. \A k \in DOMAIN corrections' :
          /\ corrections'[k].interval \in Intervals \ OpenIntervals
          /\ WellOrdered(corrections'[k].span)
    <3>1. CASE corrections' = corrections
      BY <3>1 DEF WorkIsCompleted
    <3>2. CASE HoldsOrganization(t) /\ corrections' = Append(corrections,
                 [interval |-> Target(t), span |-> tx[t].request.span])
      <4>1. Target(t) \in Intervals \ OpenIntervals /\ WellOrdered(tx[t].request.span)
        BY <3>2 DEF CorrectsAnInterval, WorkIsCompleted
      <4> QED
        BY <3>2, <4>1 DEF WorkIsCompleted, TypeOK
    <3> QED
      BY <2>1, <3>1, <3>2
  <2>5. ASSUME NEW u \in Txs, HoldsOrganization(u)'
        PROVE  WellOrdered(tx'[u].request.span)
    <3>1. CASE u = t
      BY <2>1, <2>5, <3>1 DEF WorkIsCompleted, MayCorrect, WellOrdered
    <3>2. CASE u # t
      BY <2>1, <2>5, <3>2 DEF WorkIsCompleted, HoldsOrganization
    <3> QED
      BY <3>1, <3>2
  <2> QED
    BY <2>2, <2>3, <2>4, <2>5 DEF WorkIsCompleted
<1>3. CASE UNCHANGED vars
  BY <1>3 DEF vars, attendanceVars, cardVars, WorkIsCompleted, Intervals, OpenIntervals, IsOpen,
              HoldsOrganization, WellOrdered
<1> QED
  BY <1>1, <1>2, <1>3 DEF Next

(* The intervals the markers look at, the candidates, are enough.          *)
LEMMA MarkersAgree ==
  ASSUME TypeOK, WorkIsCompleted
  PROVE  LeaveMarkedAsAttended
<1>0. intervals \in Seq(Spans) /\ corrections \in Seq(Correction)
  BY DEF TypeOK, Correction
<1>1. SUFFICES ASSUME NEW p \in Periods, NEW d \in 1..PeriodDays, NEW day, day = Days(p)[d]
               PROVE  WorkedDuringLeave(day) <=>
                        \E i \in Intervals \ OpenIntervals : Overlapping(Effective(i, corrections),
                          [clockIn |-> day.start, clockOut |-> day.end])
  BY DEF LeaveMarkedAsAttended
<1>2. ASSUME NEW i \in Intervals
      PROVE  Effective(i, corrections).clockOut = StillOpen <=> i \in OpenIntervals
  <2>1. CASE LatestCorrection(i, corrections) = None
    BY <1>2, <2>1 DEF Effective, OpenIntervals, IsOpen
  <2>2. CASE LatestCorrection(i, corrections) # None
    <3>1. LatestCorrection(i, corrections) \in CorrectionsOf(i, corrections)
      BY <1>0, <2>2, LatestTyped
    <3>2. i \notin OpenIntervals
      BY <3>1 DEF CorrectionsOf, WorkIsCompleted
    <3>3. ~IsOpen(i)
      BY <3>2 DEF OpenIntervals
    <3>4. Effective(i, corrections).clockOut \in 0..MaxNow
      BY <1>0, <3>3, EffectiveTyped
    <3> QED
      BY <3>2, <3>4, TimecardsAssumption DEF StillOpen
  <2> QED
    BY <2>1, <2>2
<1>3. ASSUME NEW i \in Intervals \ OpenIntervals
      PROVE  /\ Effective(i, corrections).clockIn < Effective(i, corrections).clockOut
             /\ Effective(i, corrections).clockIn < day.end
                /\ Effective(i, corrections).clockOut > day.start => i \in CandidateIntervals(day)
  <2>1. CASE LatestCorrection(i, corrections) = None
    <3>1. /\ Effective(i, corrections).clockIn = intervals[i].clockIn
          /\ Effective(i, corrections).clockOut = intervals[i].clockOut
      BY <2>1 DEF Effective
    <3>2. WellOrdered(intervals[i])
      BY DEF WorkIsCompleted
    <3> QED
      BY <3>1, <3>2 DEF WellOrdered, CandidateIntervals, OriginalIntervals
  <2>2. CASE LatestCorrection(i, corrections) # None
    <3>1. PICK k : k = LatestCorrection(i, corrections)
      OBVIOUS
    <3>2. k \in DOMAIN corrections /\ corrections[k].interval = i
      BY <1>0, <2>2, <3>1, LatestTyped DEF CorrectionsOf
    <3>3. /\ Effective(i, corrections).clockIn = corrections[k].span.clockIn
          /\ Effective(i, corrections).clockOut = corrections[k].span.clockOut
      BY <2>2, <3>1 DEF Effective
    <3>4. WellOrdered(corrections[k].span)
      BY <3>2 DEF WorkIsCompleted
    <3> QED
      BY <3>2, <3>3, <3>4 DEF WellOrdered, CandidateIntervals, OverlappingCorrections
  <2> QED
    BY <2>1, <2>2
<1>4. CandidateIntervals(day) \subseteq Intervals
  BY DEF CandidateIntervals, OriginalIntervals, OverlappingCorrections, WorkIsCompleted
<1>5. \A i \in Intervals :
        /\ Effective(i, corrections).clockIn \in Int
        /\ Effective(i, corrections).clockOut \in Int
  BY <1>0, EffectiveTyped, TimecardsAssumption DEF StillOpen
<1>6. day.start \in Int /\ day.end \in Int
  BY <1>1, TimecardsAssumption DEF Days, Periods
<1>7. \A i \in Intervals : Overlapping(Effective(i, corrections),
                             [clockIn |-> day.start, clockOut |-> day.end])
        <=> /\ Effective(i, corrections).clockIn < day.end
            /\ Effective(i, corrections).clockOut > day.start
  BY <1>5, <1>6 DEF Overlapping
<1>8. \A i \in Intervals : IntervalOverlapsDay(i, day) <=>
        /\ i \notin OpenIntervals
        /\ Effective(i, corrections).clockIn < Effective(i, corrections).clockOut
        /\ Effective(i, corrections).clockIn < day.end
        /\ Effective(i, corrections).clockOut > day.start
  BY <1>2 DEF IntervalOverlapsDay
<1> QED
  BY <1>3, <1>4, <1>7, <1>8 DEF WorkedDuringLeave

(* Whatever changes comes with a receipt that was not there.               *)
LEMMA Receipted ==
  ASSUME TInv, [Next]_vars,
         <<corrections, policies, cards, event>>' # <<corrections, policies, cards, event>>
  PROVE  \E key \in Keys \ receipts : receipts' = receipts \cup {key}
<1>1. ASSUME NEW t \in Txs, tx[t].pc # "idle", Key(t) \notin receipts,
             receipts' = receipts \cup {Key(t)}
      PROVE  \E key \in Keys \ receipts : receipts' = receipts \cup {key}
  BY <1>1 DEF TInv, TxTypeOK, WellFormed, Key
<1>2. ASSUME NEW t \in Txs, NEW changed, NEW events, tx[t].pc # "idle",
             CommitCards(t, changed, events), UNCHANGED <<corrections, policies>>
      PROVE  \E key \in Keys \ receipts : receipts' = receipts \cup {key}
  <2>1. CASE (\E p \in DOMAIN changed : TriggerRefuses(cards[p], changed[p]))
             \/ Key(t) \in receipts
    <3>1. cards' = [p \in Periods |-> cards[p]] /\ event' = [p \in Periods |-> event[p]]
      BY <1>2, <2>1 DEF CommitCards, ReceiptIndex
    <3>2. cards' = cards /\ event' = event
      BY <3>1 DEF TInv, TypeOK
    <3> QED
      BY <1>2, <3>2
  <2>2. CASE ~(\E p \in DOMAIN changed : TriggerRefuses(cards[p], changed[p]))
             /\ Key(t) \notin receipts
    <3>1. receipts' = receipts \cup {Key(t)}
      BY <1>2, <2>2 DEF CommitCards, ReceiptIndex
    <3> QED
      BY <1>1, <1>2, <2>2, <3>1
  <2> QED
    BY <2>1, <2>2
<1>3. ASSUME NEW t \in Txs, Refuse(t)
      PROVE  FALSE
  BY <1>3 DEF Refuse, cardVars
<1>4. ASSUME NEW t \in Txs, Prepare(t) \/ Submit(t) \/ Decide(t)
      PROVE  \E key \in Keys \ receipts : receipts' = receipts \cup {key}
  <2>1. tx[t].pc # "idle"
    BY <1>4 DEF Prepare, Submit, Decide, Doing
  <2>2. PICK changed, events :
          CommitCards(t, changed, events) /\ UNCHANGED <<corrections, policies>>
    BY <1>3, <1>4 DEF Prepare, Submit, Decide
  <2> QED
    BY <1>2, <2>1, <2>2
<1>5. ASSUME NEW t \in Txs, SavePolicy(t)
      PROVE  \E key \in Keys \ receipts : receipts' = receipts \cup {key}
  BY <1>1, <1>3, <1>5 DEF SavePolicy, Doing, ReceiptIndex
<1>6. ASSUME NEW t \in Txs, Correct(t)
      PROVE  \E key \in Keys \ receipts : receipts' = receipts \cup {key}
  <2>1. /\ tx[t].pc = "selected" /\ ReceiptIndex(Key(t)) /\ ~CorrectionBlocked(tx[t].affected)
        /\ \E changed, events :
             /\ CommitCards(t, changed, events) /\ DOMAIN changed = tx[t].affected
    BY <1>3, <1>6 DEF Correct, Doing
  <2>2. PICK changed, events :
             /\ CommitCards(t, changed, events) /\ DOMAIN changed = tx[t].affected
    BY <2>1
  <2>3. \A p \in DOMAIN changed : ~TriggerRefuses(cards[p], changed[p])
    BY <2>1, <2>2 DEF CorrectionBlocked, TriggerRefuses
  <2>4. receipts' = receipts \cup {Key(t)}
    BY <2>1, <2>2, <2>3 DEF CommitCards
  <2> QED
    BY <1>1, <2>1, <2>4 DEF ReceiptIndex
<1>7. ASSUME NEW t \in Txs,
             ValidateSubmission(t) \/ ValidateDecision(t) \/ CheckCorrection(t)
               \/ SelectAffected(t) \/ RollBack(t) \/ \E r \in FreshRequests : Begin(t, r)
      PROVE  FALSE
  BY <1>3, <1>7 DEF ValidateSubmission, ValidateDecision, CheckCorrection, SelectAffected,
                    RollBack, Begin, cardVars
<1>8. CASE Tick \/ (\E c \in Calls : CheckIn(c) \/ InsertInterval(c)) \/ ClockOut
  BY <1>8 DEF Tick, CheckIn, InsertInterval, ClockOut, cardVars
<1>9. CASE UNCHANGED vars
  BY <1>9 DEF vars, cardVars
<1> QED
  BY <1>4, <1>5, <1>6, <1>7, <1>8, <1>9 DEF Next, Step

(* The two together are an invariant.                                      *)
THEOREM WorkInvariance == Spec => []WorkInv
<1>1. Init => WorkInv
  <2>1. Init => WorkIsCompleted
    BY DEF Init, WorkIsCompleted, Intervals, OpenIntervals, HoldsOrganization, NoTx
  <2> QED
    BY <2>1, TInvInit DEF WorkInv
<1>2. WorkInv /\ [Next]_vars => WorkInv'
  BY StepKeeps, WorkKept DEF WorkInv
<1> QED
  BY <1>1, <1>2, PTL DEF Spec

(* The tables keep their types: a card exists when it has a version, and   *)
(* its evidence is of completed intervals.                                 *)
THEOREM TypeCorrect == Spec => []TypeOK
<1>1. TInv => TypeOK
  BY DEF TInv
<1> QED
  BY <1>1, Invariance, PTL

(* However check-ins interleave, one interval is open at most              *)
(* (attendance_check_in and its unique index).                             *)
THEOREM OneOpenIntervalAtMost == Spec => []OneOpenInterval
<1>1. TInv => OneOpenInterval
  BY DEF TInv
<1> QED
  BY <1>1, Invariance, PTL

(* No trigger that protects submitted and approved cards ever refuses a    *)
(* statement of the service.                                               *)
THEOREM NoTriggerRefuses == Spec => []NeverRefused
<1>1. TInv => NeverRefused
  BY DEF TInv
<1> QED
  BY <1>1, Invariance, PTL

(* Each event of a card starts from the state that the one before left,    *)
(* and what a submission or a decision has read is so when it writes.      *)
THEOREM EventsFollow == Spec => []EventsFollowOn
<1>1. TInv => EventsFollowOn
  BY DEF TInv, EventsFollowOn, ValidatedIsCurrent
<1> QED
  BY <1>1, Invariance, PTL

(* A draft is made of the attendance as corrected now, and a day of leave  *)
(* is marked as worked exactly when a completed interval, as corrected, is *)
(* on it.                                                                  *)
THEOREM AttendanceIsShown == Spec => []ShownAsAttended
<1>1. WorkInv => ShownAsAttended
  BY MarkersAgree DEF WorkInv, TInv, ShownAsAttended
<1> QED
  BY <1>1, WorkInvariance, PTL

(* Whatever a request changes comes with one new receipt of it: it takes   *)
(* effect once.                                                            *)
THEOREM EveryChangeIsReceipted == Spec => ChangesAreReceipted
<1>1. TInv /\ [Next]_vars =>
        [<<corrections, policies, cards, event>>' # <<corrections, policies, cards, event>>
           => \E key \in Keys \ receipts : receipts' = receipts \cup {key}]_vars
  BY Receipted
<1> QED
  BY <1>1, Invariance, PTL DEF Spec, ChangesAreReceipted

-----------------------------------------------------------------------------
(* Approved as attended.  The one way to miss it: a submission commits     *)
(* between the check of a correction, which finds no submitted card of its *)
(* interval, and its selection of the draft and returned ones (both in     *)
(* correctAttendanceInterval, service.js).                                 *)
SubmitsApart ==
  \A p \in Periods : cards[p].status # "submitted" /\ cards'[p].status = "submitted" =>
    \A u \in Txs : tx[u].pc # "checked"

(* What no such submission leaves true.  A submitted or approved card says *)
(* what attendance does, and so does one that a submission has compared; a *)
(* correction that has been checked is of no such card, and selects every  *)
(* card of its interval.                                                   *)
AsAttended(p) ==
  /\ Closed(p) /\ Selected(p) \cap OpenIntervals = {}
  /\ cards[p].evidence = Evidence(p, corrections)
FrozenIsCurrent == \A p \in Periods : Frozen(p) => AsAttended(p)
SubmittingIsCurrent(t) == Doing(t, "submit", "validated") => AsAttended(Target(t))
CheckedMissesFrozen(t) ==
  tx[t].pc = "checked" => \A p \in Periods : Frozen(p) => Target(t) \notin Selected(p)
SelectedCovers(t) ==
  tx[t].pc = "selected" =>
    \A p \in Periods : cards[p].status # "none" /\ Target(t) \in Selected(p) =>
      p \in tx[t].affected
AttendedInv ==
  /\ TInv /\ FrozenIsCurrent
  /\ \A t \in Txs : SubmittingIsCurrent(t) /\ CheckedMissesFrozen(t) /\ SelectedCovers(t)

(* Checking in and out changes no interval that a card is made of, or that *)
(* is being corrected.                                                     *)
LEMMA AttendanceKeepsCards ==
  ASSUME AttendedInv,
         Tick \/ (\E c \in Calls : CheckIn(c) \/ InsertInterval(c)) \/ ClockOut
  PROVE  AttendedInv'
<1> USE DEF AttendedInv
<1>1. TInv'
  BY AttendanceKeeps
<1>2. UNCHANGED <<corrections, cards, tx>>
  BY DEF Tick, CheckIn, InsertInterval, ClockOut, cardVars
<1>3. TypeOK /\ CallsAreNow /\ TxTypeOK
  BY DEF TInv
<1>4. ASSUME NEW p \in Periods, AsAttended(p)
      PROVE  AsAttended(p)'
  BY <1>2, <1>3, <1>4, ClosedUntouched, EvidenceKept DEF AsAttended
<1>5. FrozenIsCurrent'
  BY <1>2, <1>4 DEF FrozenIsCurrent, Frozen
<1>6. ASSUME NEW t \in Txs, HoldsOrganization(t), NEW p \in Periods, Target(t) \in Selected(p)'
      PROVE  Target(t) \in Selected(p)
  <2>1. Target(t) \in Intervals /\ ~IsOpen(Target(t))
    BY <1>6 DEF TInv, CorrectsAnInterval, OpenIntervals
  <2>2. intervals'[Target(t)] = intervals[Target(t)]
    BY <1>3, <2>1, IntervalsGrow
  <2> QED
    BY <1>6, <2>1, <2>2 DEF Selected, IsOpen
<1>7. ASSUME NEW t \in Txs
      PROVE  SubmittingIsCurrent(t)' /\ CheckedMissesFrozen(t)' /\ SelectedCovers(t)'
  <2>1. SubmittingIsCurrent(t)'
    <3>1. Doing(t, "submit", "validated") => Target(t) \in Periods
      BY <1>3 DEF Doing, TxTypeOK, WellFormed, CardRequests, Target
    <3> QED
      BY <1>2, <1>4, <3>1 DEF SubmittingIsCurrent, Doing, Target
  <2>2. CheckedMissesFrozen(t)' /\ SelectedCovers(t)'
    BY <1>2, <1>6 DEF CheckedMissesFrozen, SelectedCovers, HoldsOrganization, Frozen, Target
  <2> QED
    BY <2>1, <2>2
<1> QED
  BY <1>1, <1>5, <1>7

(* A step of one transaction that changes nothing else.                    *)
LEMMA QuietKeepsCards ==
  ASSUME AttendedInv, TInv', UNCHANGED <<attendanceVars, cardVars>>, NEW t \in Txs,
         \A u \in Txs \ {t} : tx'[u] = tx[u],
         SubmittingIsCurrent(t)', CheckedMissesFrozen(t)', SelectedCovers(t)'
  PROVE  AttendedInv'
<1> USE DEF AttendedInv
<1>1. UNCHANGED <<now, intervals, corrections, cards>>
  BY DEF attendanceVars, cardVars
<1>2. \A p : Selected(p)' = Selected(p) /\ AsAttended(p)' = AsAttended(p)
  BY <1>1 DEF AsAttended, OpenIntervals, Intervals, IsOpen, Selected, Closed, Evidence, Effective,
              LatestCorrection, CorrectionsOf
<1>3. FrozenIsCurrent'
  BY <1>1, <1>2 DEF FrozenIsCurrent, Frozen
<1>4. ASSUME NEW u \in Txs \ {t}
      PROVE  SubmittingIsCurrent(u)' /\ CheckedMissesFrozen(u)' /\ SelectedCovers(u)'
  BY <1>1, <1>2 DEF SubmittingIsCurrent, CheckedMissesFrozen, SelectedCovers, Doing, Frozen, Target
<1> QED
  BY <1>3, <1>4

(* A transaction that ends without a change, or begins.                    *)
LEMMA BeginsOrEnds ==
  ASSUME AttendedInv, TInv', NEW t \in Txs, Refuse(t) \/ \E r \in FreshRequests : Begin(t, r)
  PROVE  AttendedInv'
<1>1. UNCHANGED <<attendanceVars, cardVars>>
  BY DEF Refuse, Begin
<1>2. tx'[t].pc \in {"idle", "begun"} /\ \A u \in Txs \ {t} : tx'[u] = tx[u]
  <2>1. CASE Refuse(t)
    BY <2>1, Finished DEF AttendedInv, TInv, Refuse, NoTx
  <2>2. ASSUME NEW r, Begin(t, r)
        PROVE  tx'[t].pc = "begun" /\ \A u \in Txs \ {t} : tx'[u] = tx[u]
    <3>1. tx' = [tx EXCEPT ![t] = [NoTx EXCEPT !.pc = "begun", !.request = r]]
          /\ tx \in [Txs -> TxRecord]
      BY <2>2 DEF Begin, AttendedInv, TInv, TxTypeOK
    <3>2. [NoTx EXCEPT !.pc = "begun", !.request = r].pc = "begun"
      BY DEF NoTx
    <3> QED
      BY <3>1, <3>2
  <2> QED
    BY <2>1, <2>2
<1>3. SubmittingIsCurrent(t)' /\ CheckedMissesFrozen(t)' /\ SelectedCovers(t)'
  BY <1>2 DEF SubmittingIsCurrent, CheckedMissesFrozen, SelectedCovers, Doing
<1> QED
  BY <1>1, <1>2, <1>3, QuietKeepsCards

(* What submitTimecard compares holds of its card.                         *)
LEMMA ValidatesCurrent ==
  ASSUME AttendedInv, TInv', NEW t \in Txs, ValidateSubmission(t) \/ ValidateDecision(t)
  PROVE  AttendedInv'
<1>1. CASE Refuse(t)
  BY <1>1, BeginsOrEnds
<1>2. CASE ~Refuse(t)
  <2>1. UNCHANGED <<attendanceVars, cardVars>>
    BY <1>2 DEF ValidateSubmission, ValidateDecision
  <2>2. /\ tx'[t].pc = "validated" /\ tx'[t].request = tx[t].request
        /\ \A u \in Txs \ {t} : tx'[u] = tx[u]
    BY <1>2 DEF ValidateSubmission, ValidateDecision, AttendedInv, TInv, TxTypeOK, TxRecord
  <2>3. tx[t].request.op = "submit" => AsAttended(Target(t))
    BY <1>2 DEF ValidateSubmission, ValidateDecision, Doing, Decisions, MaySubmit, Snapshots,
                StillCurrent, AsAttended, OpenIntervals
  <2>4. \A p : AsAttended(p)' = AsAttended(p)
    BY <2>1 DEF attendanceVars, cardVars, AsAttended, OpenIntervals, Intervals, IsOpen, Selected,
                Closed, Evidence, Effective, LatestCorrection, CorrectionsOf
  <2>5. SubmittingIsCurrent(t)' /\ CheckedMissesFrozen(t)' /\ SelectedCovers(t)'
    BY <2>2, <2>3, <2>4 DEF SubmittingIsCurrent, CheckedMissesFrozen, SelectedCovers, Doing, Target
  <2> QED
    BY <2>1, <2>2, <2>5, QuietKeepsCards
<1> QED
  BY <1>1, <1>2

(* The check of a correction: a submitted or approved card names every     *)
(* interval selected for it, so one that does not name the interval is not *)
(* of it.                                                                  *)
LEMMA CheckMissesFrozen ==
  ASSUME AttendedInv, TInv', NEW t \in Txs, CheckCorrection(t)
  PROVE  AttendedInv'
<1>1. CASE Refuse(t)
  BY <1>1, BeginsOrEnds
<1>2. CASE ~Refuse(t)
  <2>1. /\ MayCorrect(t) /\ tx' = [tx EXCEPT ![t].pc = "checked"]
        /\ UNCHANGED <<attendanceVars, cardVars>>
    BY <1>2 DEF CheckCorrection
  <2>2. /\ tx'[t].pc = "checked" /\ tx'[t].request = tx[t].request
        /\ \A u \in Txs \ {t} : tx'[u] = tx[u]
    BY <2>1 DEF AttendedInv, TInv, TxTypeOK, TxRecord
  <2>3. ASSUME NEW p \in Periods, Frozen(p)
        PROVE  Target(t) \notin Selected(p)
    <3>1. cards[p].evidence = Evidence(p, corrections) /\ ~NamesInterval(p, Target(t))
      BY <2>1, <2>3 DEF AttendedInv, FrozenIsCurrent, AsAttended, MayCorrect
    <3>2. \A i : Effective(i, corrections).interval = i
      BY DEF Effective
    <3> QED
      BY <3>1, <3>2 DEF NamesInterval, Evidence
  <2>4. \A p : Selected(p)' = Selected(p) /\ Frozen(p)' = Frozen(p)
    BY <2>1 DEF attendanceVars, cardVars, Selected, Intervals, IsOpen, Frozen
  <2>5. SubmittingIsCurrent(t)' /\ CheckedMissesFrozen(t)' /\ SelectedCovers(t)'
    BY <2>2, <2>3, <2>4 DEF SubmittingIsCurrent, CheckedMissesFrozen, SelectedCovers, Doing, Target
  <2> QED
    BY <2>1, <2>2, <2>5, QuietKeepsCards
<1> QED
  BY <1>1, <1>2

(* The selection of the affected cards takes every card of the interval.   *)
LEMMA SelectsEveryCard ==
  ASSUME AttendedInv, TInv', NEW t \in Txs, SelectAffected(t)
  PROVE  AttendedInv'
<1>1. /\ tx' = [tx EXCEPT ![t].pc = "selected",
                          ![t].affected = Affected(Target(t), tx[t].request.span)]
      /\ UNCHANGED <<attendanceVars, cardVars>>
      /\ tx[t].request.op = "correct" /\ tx[t].pc = "checked"
  BY DEF SelectAffected, Doing
<1>2. /\ tx'[t].pc = "selected" /\ tx'[t].request = tx[t].request
      /\ tx'[t].affected = Affected(Target(t), tx[t].request.span)
      /\ \A u \in Txs \ {t} : tx'[u] = tx[u]
  BY <1>1 DEF AttendedInv, TInv, TxTypeOK, TxRecord
<1>3. Target(t) \in Intervals /\ ~IsOpen(Target(t)) /\ tx[t].request.span \in CorrectedSpans
  BY <1>1 DEF AttendedInv, TInv, CorrectsAnInterval, HoldsOrganization, OpenIntervals,
              TxTypeOK, WellFormed
<1>4. ASSUME NEW p \in Periods, cards[p].status # "none", Target(t) \in Selected(p)
      PROVE  p \in Affected(Target(t), tx[t].request.span)
  <2>1. ~Frozen(p)
    BY <1>1, <1>4 DEF AttendedInv, CheckedMissesFrozen
  <2>2. TypeOK /\ cards[p].status \in {"draft", "returned"}
    BY <1>4, <2>1 DEF AttendedInv, TInv, TypeOK, Card, Statuses, Frozen
  <2> QED
    BY <1>3, <1>4, <2>2, AffectedCovers
<1>5. cards' = cards /\ \A p : Selected(p)' = Selected(p)
  BY <1>1 DEF attendanceVars, cardVars, Selected, Intervals, IsOpen
<1>6. SubmittingIsCurrent(t)' /\ CheckedMissesFrozen(t)' /\ SelectedCovers(t)'
  BY <1>2, <1>4, <1>5 DEF SubmittingIsCurrent, CheckedMissesFrozen, SelectedCovers, Doing, Target
<1> QED
  BY <1>1, <1>2, <1>6, QuietKeepsCards

-----------------------------------------------------------------------------
(* A transaction of cards ends, and of each card writes what it has or     *)
(* nothing.                                                                *)
LEMMA WritesItsCards ==
  ASSUME TypeOK, TxTypeOK, NEW t \in Txs, NEW changed, NEW events,
         CommitCards(t, changed, events)
  PROVE  /\ tx'[t].pc = "idle" /\ \A u \in Txs \ {t} : tx'[u] = tx[u]
         /\ \A p \in Periods : \/ cards'[p] = cards[p]
                               \/ p \in DOMAIN changed /\ cards'[p] = changed[p]
<1>1. tx'[t].pc = "idle" /\ \A u \in Txs \ {t} : tx'[u] = tx[u]
  BY DEF CommitCards, Finish, TxTypeOK, NoTx
<1>2. \A p \in Periods : \/ cards'[p] = cards[p]
                         \/ p \in DOMAIN changed /\ cards'[p] = changed[p]
  BY DEF CommitCards
<1> QED
  BY <1>1, <1>2

(* The card of a submission that has compared it is not another's.         *)
LEMMA SubmittingHolds ==
  ASSUME TInv, NEW u \in Txs, Doing(u, "submit", "validated")
  PROVE  /\ Target(u) \in Periods /\ HoldsCard(u, Target(u))
         /\ cards[Target(u)].status \in {"draft", "returned"}
BY DEF TInv, Doing, TxTypeOK, WellFormed, CardRequests, Target, HoldsCard, ValidatedIsCurrent,
       Decisions

(* A transaction that ends, when what it writes leaves the cards as        *)
(* attended and the others' as they found them.                            *)
LEMMA WritingKeepsCards ==
  ASSUME AttendedInv, TInv', UNCHANGED attendanceVars,
         NEW t \in Txs, tx'[t].pc = "idle", \A u \in Txs \ {t} : tx'[u] = tx[u],
         \A p \in Periods : Frozen(p)' => AsAttended(p)',
         \A u \in Txs \ {t}, p \in Periods :
           Doing(u, "submit", "validated") /\ Target(u) = p => AsAttended(p)',
         \A u \in Txs \ {t}, p \in Periods :
           /\ tx[u].pc = "checked" => (Frozen(p)' => Frozen(p))
           /\ tx[u].pc = "selected" => (cards'[p].status # "none" => cards[p].status # "none")
  PROVE  AttendedInv'
<1> USE DEF AttendedInv
<1>1. \A p : Selected(p)' = Selected(p)
  BY DEF attendanceVars, Selected, Intervals, IsOpen
<1>2. FrozenIsCurrent'
  BY DEF FrozenIsCurrent
<1>3. ASSUME NEW u \in Txs
      PROVE  SubmittingIsCurrent(u)' /\ CheckedMissesFrozen(u)' /\ SelectedCovers(u)'
  <2>1. CASE u = t
    BY <2>1 DEF SubmittingIsCurrent, CheckedMissesFrozen, SelectedCovers, Doing
  <2>2. CASE u # t
    <3>1. tx'[u] = tx[u] /\ Target(u)' = Target(u)
      BY <2>2 DEF Target
    <3>2. SubmittingIsCurrent(u)'
      <4>1. Doing(u, "submit", "validated") => Target(u) \in Periods
        BY SubmittingHolds
      <4> QED
        BY <2>2, <3>1, <4>1 DEF SubmittingIsCurrent, Doing
    <3>3. CheckedMissesFrozen(u)'
      BY <1>1, <2>2, <3>1 DEF CheckedMissesFrozen
    <3>4. SelectedCovers(u)'
      BY <1>1, <2>2, <3>1 DEF SelectedCovers
    <3> QED
      BY <3>2, <3>3, <3>4
  <2> QED
    BY <2>1, <2>2
<1> QED
  BY <1>2, <1>3

(* A card whose evidence is left as it is still is as attended when no     *)
(* correction is made.                                                     *)
LEMMA StillAttended ==
  ASSUME UNCHANGED <<attendanceVars, corrections>>, NEW p,
         cards'[p].evidence = cards[p].evidence, AsAttended(p)
  PROVE  AsAttended(p)'
BY DEF attendanceVars, AsAttended, OpenIntervals, Intervals, IsOpen, Selected, Closed, Evidence,
       Effective, LatestCorrection, CorrectionsOf

(* A card prepared is a draft or a returned one.                           *)
LEMMA PrepareKeepsCards ==
  ASSUME AttendedInv, TInv', NEW t \in Txs, Prepare(t)
  PROVE  AttendedInv'
<1> USE DEF AttendedInv
<1>0. TInv /\ TypeOK /\ TxTypeOK
  BY DEF TInv
<1>1. OrganizationFree /\ CardFree(Target(t)) /\ Target(t) \in Periods
  BY <1>0 DEF Prepare, Doing, TxTypeOK, WellFormed, CardRequests, Target
<1>2. CASE Refuse(t)
  BY <1>2, BeginsOrEnds
<1>3. CASE ~Refuse(t)
  <2>1. PICK changed, events :
          /\ CommitCards(t, changed, events)
          /\ \/ changed = <<>>
             \/ changed = [q \in {Target(t)} |-> Rebuilt(Target(t), corrections)] /\ ~Frozen(Target(t))
    BY <1>3 DEF Prepare
  <2>2. UNCHANGED <<attendanceVars, corrections>>
    BY <1>3 DEF Prepare
  <2>3. /\ tx'[t].pc = "idle" /\ \A u \in Txs \ {t} : tx'[u] = tx[u]
        /\ \A p \in Periods : \/ cards'[p] = cards[p]
                              \/ p \in DOMAIN changed /\ cards'[p] = changed[p]
    BY <1>0, <2>1, WritesItsCards
  <2>4. ASSUME NEW p \in Periods
        PROVE  \/ cards'[p] = cards[p]
               \/ p = Target(t) /\ ~Frozen(p)'
    <3>1. Rebuilt(Target(t), corrections).status \in {"draft", cards[Target(t)].status}
      BY DEF Rebuilt
    <3> QED
      BY <2>1, <2>3, <3>1 DEF Frozen
  <2>5. \A p \in Periods : Frozen(p)' => AsAttended(p)'
    BY <2>2, <2>4, StillAttended DEF FrozenIsCurrent, Frozen
  <2>6. ASSUME NEW u \in Txs \ {t}, NEW p \in Periods, Doing(u, "submit", "validated"),
               Target(u) = p
        PROVE  AsAttended(p)'
    <3>1. HoldsCard(u, p) /\ AsAttended(p)
      BY <1>0, <2>6, SubmittingHolds DEF SubmittingIsCurrent
    <3>2. p # Target(t)
      BY <1>1, <3>1 DEF CardFree
    <3> QED
      BY <2>2, <2>4, <3>1, <3>2, StillAttended
  <2>7. \A u \in Txs : tx[u].pc \notin {"checked", "selected"}
    BY <1>1 DEF OrganizationFree, HoldsOrganization
  <2> QED
    BY <2>2, <2>3, <2>5, <2>6, <2>7, WritingKeepsCards
<1> QED
  BY <1>2, <1>3

(* The update of the one card that a submission or a decision has locked.  *)
LEMMA TransitionKeepsCards ==
  ASSUME AttendedInv, TInv', SubmitsApart, NEW t \in Txs, tx[t].pc = "validated",
         NEW p \in Periods, p = Target(t), NEW new \in Card, NEW events,
         new.evidence = cards[p].evidence, new.status # "none",
         Frozen(p) \/ (Doing(t, "submit", "validated") /\ new.status = "submitted"),
         CommitCards(t, [q \in {p} |-> new], events),
         UNCHANGED <<attendanceVars, corrections, policies>>
  PROVE  AttendedInv'
<1> USE DEF AttendedInv
<1>0. TInv /\ TypeOK /\ TxTypeOK
  BY DEF TInv
<1>1. /\ tx'[t].pc = "idle" /\ \A u \in Txs \ {t} : tx'[u] = tx[u]
      /\ \A q \in Periods : cards'[q] = cards[q] \/ (q = p /\ cards'[q] = new)
  BY <1>0, WritesItsCards
<1>2. AsAttended(p)
  BY DEF FrozenIsCurrent, SubmittingIsCurrent
<1>3. AsAttended(p)'
  BY <1>1, <1>2, StillAttended
<1>4. \A q \in Periods : Frozen(q)' => AsAttended(q)'
  BY <1>1, <1>3, StillAttended DEF FrozenIsCurrent, Frozen
<1>5. ASSUME NEW u \in Txs \ {t}, NEW q \in Periods, Doing(u, "submit", "validated"),
             Target(u) = q
      PROVE  AsAttended(q)'
  <2>1. HoldsCard(u, q) /\ AsAttended(q)
    BY <1>0, <1>5, SubmittingHolds DEF SubmittingIsCurrent
  <2>2. q # p
    BY <1>0, <1>5, <2>1 DEF TInv, Exclusive
  <2> QED
    BY <1>1, <2>1, <2>2, StillAttended
<1>6. ASSUME NEW u \in Txs \ {t}, NEW q \in Periods, tx[u].pc = "checked", Frozen(q)'
      PROVE  Frozen(q)
  <2>1. CASE cards'[q] = cards[q]
    BY <1>6, <2>1 DEF Frozen
  <2>2. CASE q = p /\ cards'[q] = new
    <3>1. new.status # "submitted" \/ cards[p].status = "submitted"
      BY <1>6, <2>2 DEF SubmitsApart
    <3> QED
      BY <2>2, <3>1 DEF Frozen
  <2> QED
    BY <1>1, <2>1, <2>2
<1>7. \A q \in Periods : cards'[q].status # "none" => cards[q].status # "none"
  <2>1. cards[p].status # "none"
    BY <1>0, SubmittingHolds DEF Frozen
  <2> QED
    BY <1>1, <2>1
<1> QED
  BY <1>1, <1>4, <1>5, <1>6, <1>7, WritingKeepsCards

(* Submitting a card, apart from the checks of corrections.                *)
LEMMA SubmitKeepsCards ==
  ASSUME AttendedInv, TInv', SubmitsApart, NEW t \in Txs, Submit(t)
  PROVE  AttendedInv'
<1> DEFINE p == Target(t)
           submitted == [cards[p] EXCEPT !.status = "submitted", !.version = @ + 1]
           events == [q \in {p} |-> [prior |-> tx[t].seen, resulting |-> "submitted"]]
<1>1. Doing(t, "submit", "validated") /\ tx[t].pc = "validated"
  BY DEF Submit, Doing
<1>2. p \in Periods /\ cards[p] \in Card
  BY <1>1, SubmittingHolds DEF AttendedInv, TInv, TypeOK
<1>3. CASE Refuse(t)
  BY <1>3, BeginsOrEnds
<1>4. CASE CommitCards(t, [q \in {p} |-> submitted], events)
           /\ UNCHANGED <<attendanceVars, corrections, policies>>
  <2>1. p = Target(t)
    OBVIOUS
  <2> HIDE DEF p, events
  <2>2. /\ submitted \in Card /\ submitted.status = "submitted"
        /\ submitted.evidence = cards[p].evidence
    <3>1. "submitted" \in Statuses
      BY DEF Statuses
    <3> QED
      BY <1>2, <3>1, Transitioned
  <2> HIDE DEF submitted
  <2> QED
    BY <1>1, <1>2, <1>4, <2>1, <2>2, TransitionKeepsCards
<1> QED
  BY <1>3, <1>4 DEF Submit

(* Approving or returning a card.                                          *)
LEMMA DecideKeepsCards ==
  ASSUME AttendedInv, TInv', SubmitsApart, NEW t \in Txs, Decide(t)
  PROVE  AttendedInv'
<1> DEFINE p == Target(t)
           resulting == IF tx[t].drifted \/ tx[t].request.op = "return"
                          THEN "returned" ELSE "approved"
           decided == [cards[p] EXCEPT !.status = resulting, !.version = @ + 1]
           events == [q \in {p} |-> [prior |-> tx[t].seen, resulting |-> resulting]]
<1>1. tx[t].request.op \in Decisions /\ tx[t].pc = "validated"
  BY DEF Decide
<1>2. p \in Periods /\ cards[p] \in Card /\ cards[p].status = "submitted"
  BY <1>1 DEF AttendedInv, TInv, TypeOK, TxTypeOK, WellFormed, CardRequests, Target,
              ValidatedIsCurrent, Decisions
<1>3. resulting \in Statuses /\ resulting # "none"
  BY DEF Statuses
<1>4. CommitCards(t, [q \in {p} |-> decided], events)
      /\ UNCHANGED <<attendanceVars, corrections, policies>>
  BY DEF Decide
<1>5. p = Target(t)
  OBVIOUS
<1> HIDE DEF p, resulting, events
<1>6. decided \in Card /\ decided.status = resulting /\ decided.evidence = cards[p].evidence
  BY <1>2, <1>3, Transitioned
<1>7. Frozen(p)
  BY <1>2 DEF Frozen
<1> HIDE DEF decided
<1> QED
  BY <1>1, <1>2, <1>3, <1>4, <1>5, <1>6, <1>7, TransitionKeepsCards

(* A policy changes no card and no interval.                               *)
LEMMA SavePolicyKeepsCards ==
  ASSUME AttendedInv, TInv', NEW t \in Txs, SavePolicy(t)
  PROVE  AttendedInv'
<1> USE DEF AttendedInv
<1>0. TInv /\ TxTypeOK
  BY DEF TInv
<1>1. CASE Refuse(t)
  BY <1>1, BeginsOrEnds
<1>2. CASE ~Refuse(t)
  <2>1. Finish(t) /\ UNCHANGED <<attendanceVars, corrections, cards>>
    BY <1>2 DEF SavePolicy
  <2>2. tx'[t].pc = "idle" /\ \A u \in Txs \ {t} : tx'[u] = tx[u]
    BY <1>0, <2>1, Finished DEF NoTx
  <2>3. \A p : Frozen(p)' = Frozen(p) /\ (AsAttended(p) => AsAttended(p)')
    BY <2>1, StillAttended DEF Frozen
  <2>4. /\ \A p \in Periods : Frozen(p)' => AsAttended(p)'
        /\ \A u \in Txs \ {t}, p \in Periods :
             Doing(u, "submit", "validated") /\ Target(u) = p => AsAttended(p)'
    BY <2>3 DEF FrozenIsCurrent, SubmittingIsCurrent
  <2> QED
    BY <2>1, <2>2, <2>3, <2>4, WritingKeepsCards
<1> QED
  BY <1>1, <1>2

(* A correction leaves the cards it has not selected as attended: none of  *)
(* them is of its interval.                                                *)
LEMMA CorrectKeepsCards ==
  ASSUME AttendedInv, TInv', NEW t \in Txs, Correct(t)
  PROVE  AttendedInv'
<1> USE DEF AttendedInv
<1> DEFINE new == [interval |-> Target(t), span |-> tx[t].request.span]
           made == Append(corrections, new)
           affected == tx[t].affected
           rebuilt == [p \in affected |-> Rebuilt(p, made)]
<1>0. TInv /\ TypeOK /\ TxTypeOK
  BY DEF TInv
<1>1. CASE Refuse(t)
  BY <1>1, BeginsOrEnds
<1>2. CASE ~Refuse(t)
  <2>1. PICK events : /\ ~CorrectionBlocked(affected) /\ CommitCards(t, rebuilt, events)
                      /\ corrections' \in {corrections, made}
                      /\ UNCHANGED attendanceVars
                      /\ tx[t].request.op = "correct" /\ tx[t].pc = "selected"
                      /\ \A p \in affected : CardFree(p)
    BY <1>2 DEF Correct, Doing
  <2>2. \A p \in affected : cards[p].status \in {"draft", "returned"}
    BY <2>1 DEF CorrectionBlocked
  <2>3. new \in Correction /\ corrections \in Seq(Correction) /\ intervals \in Seq(Spans)
        /\ new.interval = Target(t)
    BY <1>0, <2>1 DEF TypeOK, TxTypeOK, WellFormed, Correction, Target
  <2>4. /\ tx'[t].pc = "idle" /\ \A u \in Txs \ {t} : tx'[u] = tx[u]
        /\ \A p \in Periods : \/ cards'[p] = cards[p]
                              \/ p \in affected /\ cards'[p].status = Rebuilt(p, made).status
    BY <1>0, <2>1, WritesItsCards
  <2>5. \A p \in Periods : \/ cards'[p] = cards[p]
                           \/ /\ p \in affected /\ cards'[p].status \in {"draft", "returned"}
    BY <2>2, <2>4 DEF Rebuilt
  <2>6. made = Append(corrections, new)
    OBVIOUS
  <2> HIDE DEF new, made, rebuilt
  <2>7. ASSUME NEW p \in Periods \ affected, cards[p].status # "none", AsAttended(p)
        PROVE  AsAttended(p)'
    <3>1. Target(t) \notin Selected(p)
      BY <2>1, <2>7 DEF SelectedCovers
    <3>2. \A j \in Selected(p) : Effective(j, made) = Effective(j, corrections)
      BY <2>3, <2>6, <3>1, AppendedCorrection
    <3>3. Evidence(p, corrections') = Evidence(p, corrections)
      BY <2>1, <3>2 DEF Evidence
    <3>4. /\ OpenIntervals' = OpenIntervals /\ Selected(p)' = Selected(p) /\ Closed(p)' = Closed(p)
          /\ Evidence(p, corrections)' = Evidence(p, corrections')
      BY <2>1 DEF attendanceVars, OpenIntervals, Intervals, IsOpen, Selected, Closed, Evidence,
                  Effective, LatestCorrection, CorrectionsOf
    <3> QED
      BY <2>5, <2>7, <3>3, <3>4 DEF AsAttended
  <2>8. ASSUME NEW p \in Periods, Frozen(p)'
        PROVE  AsAttended(p)' /\ Frozen(p)
    <3>1. cards'[p] = cards[p] /\ Frozen(p)
      BY <2>5, <2>8 DEF Frozen
    <3>2. p \notin affected /\ cards[p].status # "none" /\ AsAttended(p)
      BY <2>2, <3>1 DEF Frozen, FrozenIsCurrent
    <3> QED
      BY <2>7, <3>1, <3>2
  <2>9. ASSUME NEW u \in Txs \ {t}, NEW p \in Periods, Doing(u, "submit", "validated"),
               Target(u) = p
        PROVE  AsAttended(p)'
    <3>1. HoldsCard(u, p) /\ AsAttended(p) /\ cards[p].status \in {"draft", "returned"}
      BY <1>0, <2>9, SubmittingHolds DEF SubmittingIsCurrent
    <3>2. p \notin affected
      BY <2>1, <3>1 DEF CardFree
    <3> QED
      BY <2>7, <3>1, <3>2
  <2>10. \A p \in Periods : cards'[p].status # "none" => cards[p].status # "none"
    BY <2>2, <2>5
  <2> HIDE DEF affected
  <2> QED
    BY <2>1, <2>4, <2>8, <2>9, <2>10, WritingKeepsCards
<1> QED
  BY <1>1, <1>2

(* ApprovedAsAttended fails in no other way: it holds in every behaviour   *)
(* in which no submission commits between the check of a correction and    *)
(* its selection of the cards to rebuild.                                  *)
THEOREM OnlyASubmissionMissesACorrection ==
  Spec /\ [][SubmitsApart]_vars => []ApprovedAsAttended
<1>1. Init => AttendedInv
  <2> SUFFICES ASSUME Init PROVE AttendedInv
    OBVIOUS
  <2>1. TInv
    BY TInvInit
  <2>2. \A p \in Periods : ~Frozen(p)
    BY DEF Init, Frozen, NoCard
  <2>3. \A t \in Txs : tx[t].pc = "idle"
    BY DEF Init, NoTx
  <2> QED
    BY <2>1, <2>2, <2>3 DEF AttendedInv, FrozenIsCurrent, SubmittingIsCurrent, CheckedMissesFrozen,
                            SelectedCovers, Doing
<1>2. AttendedInv /\ [Next /\ SubmitsApart]_vars => AttendedInv'
  <2> SUFFICES ASSUME AttendedInv, [Next /\ SubmitsApart]_vars PROVE AttendedInv'
    OBVIOUS
  <2>1. TInv'
    BY StepKeeps DEF AttendedInv
  <2>2. CASE Tick \/ (\E c \in Calls : CheckIn(c) \/ InsertInterval(c)) \/ ClockOut
    BY <2>2, AttendanceKeepsCards
  <2>3. ASSUME NEW t \in Txs, Step(t), SubmitsApart
        PROVE  AttendedInv'
    BY <2>1, <2>3, PrepareKeepsCards, ValidatesCurrent, SubmitKeepsCards, DecideKeepsCards,
       SavePolicyKeepsCards, CheckMissesFrozen, SelectsEveryCard, CorrectKeepsCards, BeginsOrEnds
       DEF Step, RollBack
  <2>4. ASSUME NEW t \in Txs, NEW r \in FreshRequests, Begin(t, r)
        PROVE  AttendedInv'
    BY <2>1, <2>4, BeginsOrEnds
  <2>5. CASE UNCHANGED vars
    <3>1. UNCHANGED <<now, intervals, corrections, cards, tx>>
      BY <2>5 DEF vars, attendanceVars, cardVars
    <3>2. \A p : /\ AsAttended(p)' = AsAttended(p) /\ Selected(p)' = Selected(p)
                 /\ Frozen(p)' = Frozen(p)
      BY <3>1 DEF AsAttended, OpenIntervals, Intervals, IsOpen, Selected, Closed, Evidence,
                  Effective, LatestCorrection, CorrectionsOf, Frozen
    <3> QED
      BY <2>1, <3>1, <3>2 DEF AttendedInv, FrozenIsCurrent, SubmittingIsCurrent,
         CheckedMissesFrozen, SelectedCovers, Doing, Target
  <2> QED
    BY <2>2, <2>3, <2>4, <2>5 DEF Next
<1>3. AttendedInv => ApprovedAsAttended
  BY DEF AttendedInv, FrozenIsCurrent, Frozen, AsAttended, ApprovedAsAttended
<1>4. [Next]_vars /\ [SubmitsApart]_vars => [Next /\ SubmitsApart]_vars
  OBVIOUS
<1> QED
  BY <1>1, <1>2, <1>3, <1>4, PTL DEF Spec

-----------------------------------------------------------------------------
(* A behaviour of the instance for TLC is one of Timecards and one of      *)
(* OvertimeSheet: what is proved of either holds of it.                    *)
THEOREM TimecardsAndSheetsAlone == MCSpec => Spec /\ SheetSpec
<1>1. MCInit => Init /\ (sheet = NoSheet \/ SheetInit)
  BY DEF MCInit
<1>2. [MCNext]_<<vars, sheet>> => [Next]_vars /\ [Calculate]_sheet
  BY DEF MCNext
<1> QED
  BY <1>1, <1>2, PTL DEF MCSpec, Spec, SheetSpec

=============================================================================
