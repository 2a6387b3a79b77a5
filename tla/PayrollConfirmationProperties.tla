------------------- MODULE PayrollConfirmationProperties -------------------
(***************************************************************************)
(* What the preview and the confirmation of a payroll must guarantee, and  *)
(* the ledger of periods they implement.                                   *)
(***************************************************************************)
EXTENDS PayrollConfirmation

(* SAFETY.  An organization has at most one run that is not completed, and *)
(* the schedule it was computed with is still the schedule: the next       *)
(* period is computed from the latest completed run and from the schedule, *)
(* so neither may change under an open run.  (confirmPayroll against       *)
(* itself, against updateScheduleAction and against the worker.)           *)
OneOpenRun ==
  \A r \in OpenRuns : /\ r.source.schedule = schedule
                      /\ \A q \in OpenRuns : q = r

(* SAFETY.  A run is what an administrator was shown: it carries the       *)
(* period, the people and the pay settings of the preview whose token was  *)
(* confirmed, by the administrator who had it; a token is consumed exactly *)
(* when there is a run for it, and makes no second one.  "This prevents a  *)
(* pay-setting edit between preview and confirmation from silently         *)
(* changing the confirmed run" (docs/developer-guide/domain-guide.md).     *)
ConfirmedAsPreviewed ==
  /\ \A r \in runs : /\ tokens[r.token] = [actor |-> r.actor, source |-> r.source]
                     /\ \A q \in runs : q.token = r.token => q = r
  /\ consumed = {r.token : r \in runs}

(* SAFETY.  What a confirmation is about to freeze is what the database    *)
(* holds, but for employees edited since it read them: the schedule, the   *)
(* pay settings and the runs it has read one after the other, after an     *)
(* unlocked look at the token, are still the current ones, and the token   *)
(* it found unconsumed then still is.                                      *)
FrozenIsCurrent ==
  \A s \in Sessions : At(s, "commit") =>
    LET source == session[s].source
    IN /\ source.schedule = schedule
       /\ source.pays = Pays(source)
       /\ \A e \in Employees : source.people[e] <= employee[e].version
       /\ OpenRuns = {}
       /\ session[s].token \notin consumed

(* SAFETY.  The insertion of a run is never refused by a unique index or   *)
(* by the exclusion constraint on periods: the lock, the look for a run of *)
(* the period and the computation of the next period suffice.              *)
InsertionNeverRefused ==
  \A s \in Sessions : At(s, "commit") =>
    Insertable(session[s].token, session[s].source.period)

(* REFINEMENT.  The runs are the ledger of PayrollLedger: they follow each *)
(* other without a gap or an overlap, across changes of the schedule too,  *)
(* each entered after its period has closed, when the one before it is     *)
(* completed, and as it was shown to an administrator.                     *)
Entry(source) == [period |-> source.period, content |-> source]
Ledger == INSTANCE PayrollLedger WITH
  offers <- {Entry(tokens[t].source) : t \in {u \in Tokens : tokens[u] # NoToken}},
  ledger <- {Entry(r.source) : r \in runs},
  open <- {r.source.period : r \in OpenRuns}
ImplementsLedger == Ledger!Spec

(* SAFETY.  Why the above hold: from the check of its token to its commit  *)
(* a confirmation holds the lock of the organization, and what it has      *)
(* checked and read so far stays true while it does.                       *)
Holds(s) == Confirming(s) /\ session[s].step \in LoadSteps \cup {"commit"}

HoldsTheLock(s) == Holds(s) => lock = s

TokenIsKnown(s) ==
  /\ ~At(s, "idle") => session[s].actor \in Administrators
  /\ session[s].step \in {"lookup", "token", "lock", "commit"} => Confirming(s)
  /\ Confirming(s) => tokens[session[s].token] \in Token

TokenIsAccepted(s) ==
  Holds(s) =>
    /\ tokens[session[s].token].actor = session[s].actor
    /\ \A r \in runs : r.source.period # tokens[session[s].token].source.period

ReadsAreCurrent(s) ==
  Confirming(s) =>
    /\ session[s].step \in {"runs", "employees", "settings", "commit"} =>
         session[s].source.schedule = schedule
    /\ session[s].step \in {"employees", "settings", "commit"} => OpenRuns = {}
    /\ session[s].step \in {"settings", "commit"} =>
         \A e \in Employees : session[s].source.people[e] <= employee[e].version
    /\ session[s].step = "commit" =>
         /\ \A e \in Employees :
              session[s].source.people[e] # 0 => Payable(e, session[s].source)
         /\ session[s].source = tokens[session[s].token].source
         /\ session[s].source.pays = Pays(session[s].source)

Protected(s) ==
  HoldsTheLock(s) /\ TokenIsKnown(s) /\ TokenIsAccepted(s) /\ ReadsAreCurrent(s)

LockProtects == \A s \in Sessions : Protected(s)

(* SAFETY, violated.  A pay setting request that repeats one already       *)
(* carried out is answered with its result.  "same key and same            *)
(* operation/payload: return the recorded result"                          *)
(* (docs/developer-guide/database-and-security.md).  The receipt is looked *)
(* up before the lock is waited for, and not again after it.               *)
ReplayIsAnswered ==
  \A c \in Savers : AtSaveStep(c, "rejected") => save[c].form \notin receipts

(* SAFETY, violated.  A missing pay setting can be supplied.  "Resolve     *)
(* missing pay settings ... shown in the preview"                          *)
(* (docs/user-guide/administrator.md).  When an eligible employee has no   *)
(* setting that the next payroll can use, the form must accept one.  No    *)
(* operation ends a setting, and none may overlap another.  (Bound: the    *)
(* next period lies within the modelled dates.)                            *)
MissingSettingCanBeSupplied ==
  LET period == NextPeriod(schedule, LatestEnd, today)
      source == [NoSource EXCEPT !.schedule = schedule, !.period = period]
  IN period \in Period /\ OpenRuns = {} =>
       \A e \in Employees : Eligible(e, period) /\ Usable(e, source) = {} =>
         \A x \in settings[e] : ~Overlap(x.effective, period)
=============================================================================
