---------------------- MODULE PayrollConfirmationProofs ----------------------
(***************************************************************************)
(* Proofs about PayrollConfirmation, for any calendar and any number of    *)
(* administrators, sessions, requests, employees, tokens and edits.        *)
(*                                                                         *)
(* First the lock: what a confirmation has checked and read under it stays *)
(* true until the commit.  Then the pay history: the periods of a schedule *)
(* partition the dates; the period after the latest run starts the day     *)
(* after it, under whatever schedule is in force; so the period that a     *)
(* confirmation computes follows the latest run, and since it holds the    *)
(* lock it still does when it is inserted.  Last, what repeated requests   *)
(* and missing settings need for what the documents say of them.           *)
(***************************************************************************)
EXTENDS PayrollConfirmationProperties, NumberLemmas, TLAPS

(***************************************************************************)
(* Types of what the steps put together.                                   *)
(***************************************************************************)
(* A session and a source without content are typed. *)
LEMMA IdleTyped == NoSource \in Source /\ Idle \in Session
<1>1. NoSource \in Source
  BY ConfirmationAssumption DEF NoSource, Source
<1>2. ASSUME NEW b \in BOOLEAN
      PROVE  [step |-> "idle", actor |-> Nobody, token |-> Nobody,
              seenConsumed |-> b, source |-> NoSource] \in Session
  BY <1>1 DEF Session, Steps
<1> QED
  BY <1>1, <1>2 DEF Idle

(* Nobody is not the holder of a token. *)
LEMMA NoTokenIsNone == NoToken \notin Token
BY ConfirmationAssumption DEF NoToken, Token

(* A session that has just begun. *)
LEMMA BegunTyped ==
  ASSUME NEW a \in Administrators
  PROVE  /\ [Idle EXCEPT !.step = "schedule", !.actor = a] \in Session
         /\ \A t \in Tokens :
              [Idle EXCEPT !.step = "lookup", !.actor = a, !.token = t] \in Session
<1>1. ASSUME NEW x \in Session
      PROVE  /\ [x EXCEPT !.step = "schedule", !.actor = a] \in Session
             /\ \A t \in Tokens :
                  [x EXCEPT !.step = "lookup", !.actor = a, !.token = t] \in Session
  BY DEF Session, Steps
<1> QED
  BY <1>1, IdleTyped

(* The updates of a session under way. *)
LEMMA SessionUpdates ==
  ASSUME session \in [Sessions -> Session], NEW s \in Sessions, NEW step \in Steps
  PROVE  /\ [session EXCEPT ![s].step = step] \in [Sessions -> Session]
         /\ \A x \in Session : [session EXCEPT ![s] = x] \in [Sessions -> Session]
         /\ \A b \in BOOLEAN :
              [session EXCEPT ![s].step = step, ![s].seenConsumed = b]
                 \in [Sessions -> Session]
         /\ \A x \in Source :
              [session EXCEPT ![s].step = step, ![s].source = x]
                 \in [Sessions -> Session]
BY DEF Session

(* The updates of the source a session reads. *)
LEMMA SourceUpdates ==
  ASSUME NEW x \in Source
  PROVE  /\ \A v \in Schedule : [x EXCEPT !.schedule = v] \in Source
         /\ \A v \in Period : [x EXCEPT !.period = v] \in Source
         /\ \A v \in [Employees -> 0..MaxEdits] : [x EXCEPT !.people = v] \in Source
         /\ \A v \in [Employees -> 0..MaxSettings] : [x EXCEPT !.pays = v] \in Source
BY DEF Source

(* The schedule an administrator chooses. *)
LEMMA ScheduleTyped ==
  ASSUME NEW frequency \in Frequencies, NEW date \in Dates, NEW v \in 1..MaxSchedules
  PROVE  ScheduleFrom(frequency, date, v) \in Schedule
<1>1. date # NoDate
  BY ConfirmationAssumption DEF Dates, NoDate
<1> QED
  BY <1>1 DEF ScheduleFrom, Schedule

(* The pay setting that applies is one of the employee's. *)
LEMMA PaysTyped ==
  ASSUME settings \in [Employees -> SUBSET Setting], NEW x \in Source
  PROVE  Pays(x) \in [Employees -> 0..MaxSettings]
<1>1. SUFFICES ASSUME NEW e \in Employees, Usable(e, x) # {}
               PROVE  (CHOOSE y \in Usable(e, x) : TRUE).version \in 0..MaxSettings
  BY ConfirmationAssumption DEF Pays, Payable
<1>2. (CHOOSE y \in Usable(e, x) : TRUE) \in Usable(e, x)
  BY <1>1
<1>3. Usable(e, x) \subseteq Setting
  BY DEF Usable
<1>4. \A y \in Setting : y.version \in 0..MaxSettings
  BY ConfirmationAssumption DEF Setting
<1> QED
  BY <1>2, <1>3, <1>4

-----------------------------------------------------------------------------
(***************************************************************************)
(* Types.                                                                  *)
(***************************************************************************)
(* The initial state is typed. *)
LEMMA TypeInit == Init => TypeOK
<1> SUFFICES ASSUME Init PROVE TypeOK
  OBVIOUS
<1> USE ConfirmationAssumption
<1>1. schedule \in Schedule
  <2>1. PICK d \in StartDates : schedule = ScheduleFrom(FirstFrequency, d, 1)
    BY DEF Init
  <2> QED
    BY <2>1, ScheduleTyped
<1>2. session \in [Sessions -> Session]
  BY IdleTyped DEF Init
<1>3. employee \in [Employees -> [status : {"absent", "active", "inactive"},
                                  hireDate : Dates, version : 0..MaxEdits]]
  BY DEF Init, Dates
<1> QED
  BY <1>1, <1>2, <1>3 DEF Init, TypeOK, Save

(* Time passes; a token expires. *)
LEMMA TypeTime ==
  ASSUME TypeOK, Tomorrow \/ \E t \in Tokens : Expire(t)
  PROVE  TypeOK'
<1>1. CASE Tomorrow
  BY <1>1, ConfirmationAssumption DEF Tomorrow, TypeOK, Dates, setup, confirmed
<1>2. CASE \E t \in Tokens : Expire(t)
  BY <1>2 DEF Expire, TypeOK, setup, confirmed
<1> QED
  BY <1>1, <1>2

(* The worker completes a run. *)
LEMMA TypeCompleteRun ==
  ASSUME TypeOK, NEW r \in runs, CompleteRun(r)
  PROVE  TypeOK'
<1>1. r \in Run
  BY DEF TypeOK
<1>2. [r EXCEPT !.status = "completed"] \in Run
  BY <1>1 DEF Run
<1> QED
  BY <1>2 DEF CompleteRun, TypeOK, setup

(* An employee is saved. *)
LEMMA TypeEmployee ==
  ASSUME TypeOK, NEW e \in Employees, NEW d \in HireDates, SaveEmployee(e, d)
  PROVE  TypeOK'
<1>1. employee[e].version + 1 \in 0..MaxEdits
  BY ConfirmationAssumption DEF SaveEmployee, TypeOK
<1>2. d \in Dates
  BY ConfirmationAssumption
<1> QED
  BY <1>1, <1>2 DEF SaveEmployee, TypeOK, confirmed

(* An employee is deactivated. *)
LEMMA TypeDeactivate ==
  ASSUME TypeOK, NEW e \in Employees, DeactivateEmployee(e)
  PROVE  TypeOK'
<1>1. employee[e].version + 1 \in 0..MaxEdits
  BY ConfirmationAssumption DEF DeactivateEmployee, TypeOK
<1> QED
  BY <1>1 DEF DeactivateEmployee, TypeOK, confirmed

(* An employee changes its own row. *)
LEMMA TypeSelfService ==
  ASSUME TypeOK, NEW e \in Employees, UpdateSelfServiceProfile(e)
  PROVE  TypeOK'
<1>1. employee[e].version + 1 \in 0..MaxEdits
  BY ConfirmationAssumption DEF UpdateSelfServiceProfile, TypeOK
<1> QED
  BY <1>1 DEF UpdateSelfServiceProfile, TypeOK, confirmed

(* A timecard is approved. *)
LEMMA TypeApprove ==
  ASSUME TypeOK, NEW e \in Employees, ApproveTimecard(e)
  PROVE  TypeOK'
<1>1. PICK period \in Period : approved' = approved \cup {<<e, period>>}
  BY DEF ApproveTimecard
<1>2. approved' \subseteq Employees \X Period
  BY <1>1 DEF TypeOK
<1> QED
  BY <1>2 DEF ApproveTimecard, TypeOK, confirmed

(* The schedule changes. *)
LEMMA TypeUpdateSchedule ==
  ASSUME TypeOK, NEW f \in Frequencies, NEW d \in StartDates, UpdateSchedule(f, d)
  PROVE  TypeOK'
<1>1. schedule.version + 1 \in 1..MaxSchedules
  BY ConfirmationAssumption DEF UpdateSchedule, TypeOK, Schedule
<1>2. schedule' \in Schedule
  BY <1>1, ScheduleTyped DEF UpdateSchedule
<1> QED
  BY <1>2 DEF UpdateSchedule, TypeOK, confirmed

(* A pay setting request advances. *)
LEMMA TypeSave ==
  ASSUME TypeOK, NEW c \in Savers, SaveStep(c)
  PROVE  TypeOK'
<1>1. CASE \E form \in Form : SubmitSetting(c, form)
  <2>1. PICK form \in Form : SubmitSetting(c, form)
    BY <1>1
  <2>2. schedule.frequency \in Frequencies
    BY DEF TypeOK, Schedule
  <2>3. [step |-> "receipt", form |-> form, frequency |-> schedule.frequency] \in Save
    BY <2>2 DEF Save
  <2> QED
    BY <2>1, <2>3 DEF SubmitSetting, TypeOK, setup, confirmed
<1>2. CASE FindReceipt(c)
  <2>1. save[c] # Nobody /\ save[c] \in Save
    BY <1>2 DEF FindReceipt, AtSaveStep, TypeOK
  <2>2. [save[c] EXCEPT !.step = "insert"] \in Save /\ Nobody \in Save
    BY <2>1 DEF Save
  <2>3. save' \in [Savers -> Save]
    BY <1>2, <2>2 DEF FindReceipt, TypeOK
  <2> QED
    BY <1>2, <2>3 DEF FindReceipt, TypeOK, setup, confirmed
<1>3. CASE InsertSetting(c)
  <2> DEFINE form == save[c].form
  <2>1. save[c] # Nobody /\ save[c] \in Save
    BY <1>3 DEF InsertSetting, AtSaveStep, TypeOK
  <2>2. form \in Form /\ save[c].frequency \in Frequencies
    BY <2>1 DEF Save
  <2>3. form.expected + 1 \in 1..MaxSettings
    BY <1>3, <2>2, ConfirmationAssumption DEF InsertSetting, Form
  <2>4. [version |-> form.expected + 1, effective |-> form.effective,
         frequency |-> save[c].frequency] \in Setting
    BY <2>2, <2>3 DEF Setting, Form
  <2>5. settings' \in [Employees -> SUBSET Setting]
    BY <1>3, <2>4 DEF InsertSetting, TypeOK
  <2>6. receipts' \subseteq Form
    BY <1>3, <2>2 DEF InsertSetting, TypeOK
  <2>7. save' \in [Savers -> Save]
    BY <1>3 DEF InsertSetting, TypeOK, Save
  <2> QED
    BY <1>3, <2>5, <2>6, <2>7 DEF InsertSetting, TypeOK, confirmed
<1>4. CASE RejectSetting(c)
  <2>1. save[c] # Nobody /\ save[c] \in Save
    BY <1>4 DEF RejectSetting, AtSaveStep, TypeOK
  <2>2. [save[c] EXCEPT !.step = "rejected"] \in Save
    BY <2>1 DEF Save
  <2> QED
    BY <1>4, <2>2 DEF RejectSetting, TypeOK, setup, confirmed
<1>5. CASE EndSave(c)
  BY <1>5 DEF EndSave, TypeOK, Save, setup, confirmed
<1> QED
  BY <1>1, <1>2, <1>3, <1>4, <1>5 DEF SaveStep

(* A session ends, or only moves on to its next step. *)
LEMMA TypeLeave ==
  ASSUME TypeOK, NEW s \in Sessions,
         Leave(s) \/ \E step \in Steps : Advance(s, step)
  PROVE  TypeOK'
<1>1. lock' \in Sessions \cup {Nobody}
  BY DEF Leave, Advance, Unlocked, TypeOK
<1>2. session' \in [Sessions -> Session]
  <2>1. session \in [Sessions -> Session]
    BY DEF TypeOK
  <2>2. CASE Leave(s)
    BY <2>1, <2>2, IdleTyped DEF Leave
  <2>3. CASE \E step \in Steps : Advance(s, step)
    <3>1. PICK step \in Steps : session' = [session EXCEPT ![s].step = step]
      BY <2>3 DEF Advance
    <3>2. [session EXCEPT ![s].step = step] \in [Sessions -> Session]
      BY <2>1, SessionUpdates
    <3> QED
      BY <3>1, <3>2
  <2> QED
    BY <2>2, <2>3
<1> QED
  BY <1>1, <1>2 DEF Leave, Advance, TypeOK, setup, confirmed

(* A preview or a confirmation begins. *)
LEMMA TypeStart ==
  ASSUME TypeOK, NEW s \in Sessions, NEW a \in Administrators,
         StartPreview(s, a) \/ \E t \in Tokens : StartConfirm(s, a, t)
  PROVE  TypeOK'
<1>1. session' \in [Sessions -> Session]
  <2>1. CASE StartPreview(s, a)
    BY <2>1, BegunTyped DEF StartPreview, TypeOK
  <2>2. CASE \E t \in Tokens : StartConfirm(s, a, t)
    BY <2>2, BegunTyped DEF StartConfirm, TypeOK
  <2> QED
    BY <2>1, <2>2
<1> QED
  BY <1>1 DEF StartPreview, StartConfirm, TypeOK, setup, confirmed

(* A confirmation up to the lock of the organization. *)
LEMMA TypeLock ==
  ASSUME TypeOK, NEW s \in Sessions,
         LookUpRun(s) \/ ReadToken(s) \/ LockOrganization(s)
  PROVE  TypeOK'
<1>1. CASE LookUpRun(s)
  BY <1>1, TypeLeave DEF LookUpRun, Steps
<1>2. CASE ReadToken(s)
  <2>1. \A b \in BOOLEAN : [session EXCEPT ![s].step = "lock", ![s].seenConsumed = b]
                             \in [Sessions -> Session]
    BY SessionUpdates DEF TypeOK, Steps
  <2>2. PICK b \in BOOLEAN : b = (session[s].token \in consumed)
    <3>1. CASE session[s].token \in consumed
      <4>1. TRUE = (session[s].token \in consumed)
        BY <3>1
      <4> QED
        BY <4>1
    <3>2. CASE session[s].token \notin consumed
      <4>1. FALSE = (session[s].token \in consumed)
        BY <3>2
      <4> QED
        BY <4>1
    <3> QED
      BY <3>1, <3>2
  <2>3. session' = [session EXCEPT ![s].step = "lock", ![s].seenConsumed = b]
    BY <1>2, <2>2, Zenon DEF ReadToken
  <2>4. session' \in [Sessions -> Session]
    BY <2>1, <2>3, Zenon
  <2> QED
    BY <1>2, <2>4 DEF ReadToken, TypeOK, setup, confirmed
<1>3. CASE LockOrganization(s)
  <2>1. CASE Leave(s)
    BY <2>1, TypeLeave
  <2>2. CASE ~Leave(s)
    <3>1. /\ lock' = s
          /\ session' = [session EXCEPT ![s].step = "schedule"]
          /\ UNCHANGED <<today, setup, tokens, expired, confirmed, save>>
      BY <1>3, <2>2 DEF LockOrganization
    <3>2. session' \in [Sessions -> Session]
      BY <3>1, SessionUpdates DEF TypeOK, Steps
    <3> QED
      BY <3>1, <3>2 DEF TypeOK, setup, confirmed
  <2> QED
    BY <2>1, <2>2
<1> QED
  BY <1>1, <1>2, <1>3

(* The reads of a preview or a confirmation, up to the last one. *)
LEMMA TypeRead ==
  ASSUME TypeOK, NEW s \in Sessions,
         ReadSchedule(s) \/ ReadRuns(s) \/ ReadEmployees(s)
  PROVE  TypeOK'
<1> DEFINE x == session[s].source
<1>1. x \in Source
  BY DEF TypeOK, Session
<1>2. CASE ReadSchedule(s)
  <2>1. session' = [session EXCEPT ![s].step = "runs",
                                   ![s].source = [x EXCEPT !.schedule = schedule]]
    BY <1>2 DEF ReadSchedule
  <2>2. [x EXCEPT !.schedule = schedule] \in Source
    BY <1>1, SourceUpdates DEF TypeOK
  <2>3. session' \in [Sessions -> Session]
    BY <2>1, <2>2, SessionUpdates DEF TypeOK, Steps
  <2> QED
    BY <1>2, <2>3 DEF ReadSchedule, TypeOK, setup, confirmed
<1>3. CASE ReadRuns(s)
  <2>1. CASE Leave(s)
    BY <2>1, TypeLeave
  <2>2. CASE ~Leave(s)
    <3>1. PICK p \in Period :
            /\ session' = [session EXCEPT ![s].step = "employees", ![s].source.period = p]
            /\ UNCHANGED <<today, setup, tokens, expired, confirmed, lock, save>>
      BY <1>3, <2>2 DEF ReadRuns
    <3>2. session' = [session EXCEPT ![s].step = "employees",
                                     ![s].source = [x EXCEPT !.period = p]]
      BY <3>1
    <3>3. session' \in [Sessions -> Session]
      BY <1>1, <3>2, SourceUpdates, SessionUpdates DEF TypeOK, Steps
    <3> QED
      BY <3>1, <3>3 DEF TypeOK, setup, confirmed
  <2> QED
    BY <2>1, <2>2
<1>4. CASE ReadEmployees(s)
  <2> DEFINE eligible == {e \in Employees : Eligible(e, x.period)}
             seen == [e \in Employees |-> IF e \in eligible THEN employee[e].version ELSE 0]
  <2>1. CASE Leave(s)
    BY <2>1, TypeLeave
  <2>2. CASE ~Leave(s)
    <3>1. /\ session' = [session EXCEPT ![s].step = "settings",
                                        ![s].source.people = seen]
          /\ UNCHANGED <<today, setup, tokens, expired, confirmed, lock, save>>
      BY <1>4, <2>2 DEF ReadEmployees
    <3>2. session' = [session EXCEPT ![s].step = "settings",
                                     ![s].source = [x EXCEPT !.people = seen]]
      BY <3>1
    <3>3. seen \in [Employees -> 0..MaxEdits]
      BY ConfirmationAssumption DEF TypeOK
    <3> HIDE DEF seen
    <3>4. session' \in [Sessions -> Session]
      BY <1>1, <3>2, <3>3, SourceUpdates, SessionUpdates DEF TypeOK, Steps
    <3> QED
      BY <3>1, <3>4 DEF TypeOK, setup, confirmed
  <2> QED
    BY <2>1, <2>2
<1> QED
  BY <1>2, <1>3, <1>4

(* The last read: a preview issues a token, a confirmation goes on. *)
LEMMA TypeReadSettings ==
  ASSUME TypeOK, NEW s \in Sessions, TokenIsKnown(s), ReadSettings(s)
  PROVE  TypeOK'
<1> DEFINE x == session[s].source
           source == [x EXCEPT !.pays = Pays(x)]
<1>1. source \in Source
  <2>1. x \in Source
    BY DEF TypeOK, Session
  <2>2. Pays(x) \in [Employees -> 0..MaxSettings]
    BY <2>1, PaysTyped DEF TypeOK
  <2> QED
    BY <2>1, <2>2, SourceUpdates
<1> HIDE DEF source
<1>2. CASE Leave(s)
  BY <1>2, TypeLeave
<1>3. CASE /\ session' = [session EXCEPT ![s].step = "commit", ![s].source = source]
           /\ UNCHANGED <<today, setup, tokens, expired, confirmed, lock, save>>
  <2>1. session' \in [Sessions -> Session]
    BY <1>1, <1>3, SessionUpdates DEF TypeOK, Steps
  <2> QED
    BY <1>3, <2>1 DEF TypeOK, setup, confirmed
<1>4. CASE /\ \E t \in Tokens : tokens' = [tokens EXCEPT ![t] =
                  [actor |-> session[s].actor, source |-> source]]
           /\ session' = [session EXCEPT ![s] = Idle]
           /\ UNCHANGED <<today, setup, expired, confirmed, lock, save>>
  <2>1. session[s].actor \in Administrators
    BY DEF ReadSettings, At, TokenIsKnown
  <2>2. [actor |-> session[s].actor, source |-> source] \in Token
    BY <1>1, <2>1 DEF Token
  <2>3. tokens' \in [Tokens -> Token \cup {NoToken}]
    BY <1>4, <2>2 DEF TypeOK
  <2>4. session' \in [Sessions -> Session]
    BY <1>4, IdleTyped DEF TypeOK
  <2> QED
    BY <1>4, <2>3, <2>4 DEF TypeOK, setup, confirmed
<1> QED
  BY <1>2, <1>3, <1>4 DEF ReadSettings, source

(* The run a confirmation commits. *)
LEMMA TypeCommit ==
  ASSUME TypeOK, NEW s \in Sessions, TokenIsKnown(s), Commit(s)
  PROVE  TypeOK'
<1> DEFINE run == [token |-> session[s].token, actor |-> session[s].actor,
                   source |-> session[s].source, status |-> "open"]
<1>1. run \in Run
  <2>1. session[s].token \in Tokens /\ session[s].actor \in Administrators
    BY DEF Commit, At, TokenIsKnown, Confirming, TypeOK, Session
  <2>2. session[s].source \in Source
    BY DEF TypeOK, Session
  <2> QED
    BY <2>1, <2>2 DEF Run
<1>2. runs' \subseteq Run /\ consumed' \subseteq Tokens
  BY <1>1 DEF Commit, TypeOK, Run
<1>3. lock' \in Sessions \cup {Nobody}
  BY DEF Commit, Unlocked, TypeOK
<1>4. session' \in [Sessions -> Session]
  BY IdleTyped DEF Commit, TypeOK
<1> QED
  BY <1>2, <1>3, <1>4 DEF Commit, TypeOK, setup

-----------------------------------------------------------------------------
(***************************************************************************)
(* What a session relies on.                                               *)
(***************************************************************************)
(* A session that is not moving stays protected when its token stays, and  *)
(* the rows it has read do if it holds the lock.                           *)
LEMMA StaysProtected ==
  ASSUME TypeOK, NEW u \in Sessions, Protected(u),
         session'[u] = session[u],
         Confirming(u) => tokens'[session[u].token] = tokens[session[u].token],
         Holds(u) => /\ lock' = lock /\ runs' = runs
                     /\ schedule' = schedule /\ settings' = settings
                     /\ approved \subseteq approved'
                     /\ \A e \in Employees :
                          /\ employee'[e].version \in Int
                          /\ employee[e].version <= employee'[e].version
  PROVE  Protected(u)'
<1> USE DEF Protected
<1>1. Confirming(u)' = Confirming(u) /\ Holds(u)' = Holds(u)
  BY DEF Confirming, Holds
<1>2. HoldsTheLock(u)'
  BY <1>1 DEF HoldsTheLock
<1>3. TokenIsKnown(u)'
  BY <1>1 DEF TokenIsKnown, At
<1>4. TokenIsAccepted(u)'
  <2>1. SUFFICES ASSUME Holds(u) PROVE TokenIsAccepted(u)'
    BY <1>1 DEF TokenIsAccepted
  <2>2. Confirming(u)
    BY <2>1 DEF Holds
  <2> QED
    BY <2>1, <2>2 DEF TokenIsAccepted
<1>5. ReadsAreCurrent(u)'
  <2>1. SUFFICES ASSUME Confirming(u), ~(session[u].step \in {"idle", "lookup", "token", "lock"})
                 PROVE  ReadsAreCurrent(u)'
    BY <1>1 DEF ReadsAreCurrent
  <2>2. Holds(u)
    BY <2>1 DEF Holds, LoadSteps, TypeOK, Session, Steps
  <2>3. OpenRuns' = OpenRuns
    BY <2>2 DEF OpenRuns
  <2>4. \A e \in Employees : /\ Usable(e, session[u].source)' = Usable(e, session[u].source)
                             /\ Payable(e, session[u].source) => Payable(e, session[u].source)'
    BY <2>2 DEF Payable, Usable
  <2>6. session[u].step = "commit" =>
          /\ \A e \in Employees : session[u].source.people[e] # 0 =>
               Payable(e, session[u].source) /\ Payable(e, session[u].source)'
          /\ Pays(session[u].source)' = Pays(session[u].source)
    <3>1. SUFFICES ASSUME session[u].step = "commit"
                   PROVE  /\ \A e \in Employees : session[u].source.people[e] # 0 =>
                               Payable(e, session[u].source) /\ Payable(e, session[u].source)'
                          /\ Pays(session[u].source)' = Pays(session[u].source)
      OBVIOUS
    <3>2. \A e \in Employees : session[u].source.people[e] # 0 =>
            Payable(e, session[u].source) /\ Payable(e, session[u].source)'
      BY <2>1, <2>4, <3>1 DEF ReadsAreCurrent
    <3>3. Pays(session[u].source)' = Pays(session[u].source)
      BY <2>2, <3>2 DEF Pays, Payable, Usable
    <3> QED
      BY <3>2, <3>3
  <2>5. session[u].step \in {"settings", "commit"} =>
          \A e \in Employees : session[u].source.people[e] <= employee'[e].version
    <3>1. SUFFICES ASSUME session[u].step \in {"settings", "commit"}, NEW e \in Employees
                   PROVE  session[u].source.people[e] <= employee'[e].version
      OBVIOUS
    <3>2. session[u].source.people[e] <= employee[e].version
      BY <2>1, <3>1 DEF ReadsAreCurrent
    <3>3. /\ session[u].source.people[e] \in Int /\ employee[e].version \in Int
          /\ employee'[e].version \in Int /\ employee[e].version <= employee'[e].version
      BY <2>2 DEF TypeOK, Session, Source
    <3> QED
      BY <3>2, <3>3
  <2> QED
    BY <1>1, <2>1, <2>2, <2>3, <2>5, <2>6 DEF ReadsAreCurrent
<1> QED
  BY <1>2, <1>3, <1>4, <1>5

(* Employees may be edited and timecards approved at any time, and         *)
(* requests and time advance.                                              *)
LEMMA QuietStep ==
  ASSUME TypeOK, TypeOK', LockProtects,
         UNCHANGED <<session, tokens, lock, runs, schedule, settings>>,
         approved \subseteq approved',
         \A e \in Employees : employee[e].version <= employee'[e].version
  PROVE  LockProtects'
<1>1. \A e \in Employees : employee'[e].version \in Int
  BY DEF TypeOK
<1>2. ASSUME NEW u \in Sessions PROVE Protected(u)'
  <2>1. Protected(u)
    BY DEF LockProtects
  <2> QED
    BY <1>1, <2>1, StaysProtected
<1> QED
  BY <1>2 DEF LockProtects

(* When nobody holds the lock, what it protects may change. *)
LEMMA LockedStep ==
  ASSUME TypeOK, LockProtects, lock = Nobody, UNCHANGED <<session, tokens>>
  PROVE  LockProtects'
<1>1. ASSUME NEW u \in Sessions PROVE Protected(u)'
  <2>1. Protected(u)
    BY DEF LockProtects
  <2>2. ~Holds(u)
    BY <2>1, ConfirmationAssumption DEF Protected, HoldsTheLock
  <2> QED
    BY <2>1, <2>2, StaysProtected
<1> QED
  BY <1>1 DEF LockProtects

(* When a session moves, the others stay protected: either it changes no   *)
(* row that a holder of the lock relies on, or there is no other holder.   *)
LEMMA OthersStayProtected ==
  ASSUME TypeOK, LockProtects, NEW s \in Sessions,
         \A u \in Sessions \ {s} : session'[u] = session[u],
         \A t \in Tokens : tokens[t] \in Token => tokens'[t] = tokens[t],
         \/ UNCHANGED <<lock, runs, schedule, settings, approved, employee>>
         \/ lock \in {s, Nobody}
  PROVE  \A u \in Sessions \ {s} : Protected(u)'
<1>1. SUFFICES ASSUME NEW u \in Sessions, u # s PROVE Protected(u)'
  OBVIOUS
<1>2. Protected(u)
  BY DEF LockProtects
<1>3. Confirming(u) => tokens'[session[u].token] = tokens[session[u].token]
  BY <1>2 DEF Protected, TokenIsKnown, Confirming, TypeOK, Session
<1>4. Holds(u) => UNCHANGED <<lock, runs, schedule, settings, approved, employee>>
  BY <1>1, <1>2, ConfirmationAssumption DEF Protected, HoldsTheLock
<1>5. \A e \in Employees : employee[e].version \in Int
  BY DEF TypeOK
<1>6. Holds(u) => \A e \in Employees : /\ employee'[e].version \in Int
                                       /\ employee[e].version <= employee'[e].version
  BY <1>4, <1>5
<1> QED
  BY <1>1, <1>2, <1>3, <1>4, <1>6, StaysProtected

(* A session that is over relies on nothing. *)
LEMMA LeaveProtects ==
  ASSUME TypeOK, LockProtects, NEW s \in Sessions,
         session' = [session EXCEPT ![s] = Idle],
         \A t \in Tokens : tokens[t] \in Token => tokens'[t] = tokens[t],
         \/ UNCHANGED <<runs, schedule, settings, approved, employee>> /\ lock' = Unlocked(s)
         \/ lock = s
  PROVE  LockProtects'
<1>1. session'[s] = Idle
  BY DEF TypeOK
<1>2. Protected(s)'
  BY <1>1 DEF Idle, Protected, HoldsTheLock, TokenIsKnown, TokenIsAccepted,
              ReadsAreCurrent, Holds, Confirming, At
<1>3. \A u \in Sessions \ {s} : Protected(u)'
  <2>1. \/ UNCHANGED <<lock, runs, schedule, settings, approved, employee>>
        \/ lock \in {s, Nobody}
    BY DEF Unlocked
  <2> QED
    BY <2>1, OthersStayProtected DEF TypeOK
<1> QED
  BY <1>2, <1>3 DEF LockProtects

(* A session begins. *)
LEMMA StartProtects ==
  ASSUME TypeOK, LockProtects, NEW s \in Sessions, NEW a \in Administrators,
         StartPreview(s, a) \/ \E t \in Tokens : StartConfirm(s, a, t)
  PROVE  LockProtects'
<1>1. \A u \in Sessions \ {s} : Protected(u)'
  BY OthersStayProtected DEF StartPreview, StartConfirm, TypeOK, setup, confirmed
<1>2. CASE StartPreview(s, a)
  <2>1. /\ session'[s].step = "schedule" /\ session'[s].actor = a
        /\ session'[s].token = Nobody
    BY <1>2 DEF StartPreview, TypeOK, Idle
  <2>2. Protected(s)'
    BY <2>1 DEF Protected, HoldsTheLock, TokenIsKnown, TokenIsAccepted,
                ReadsAreCurrent, Holds, Confirming, At
  <2> QED
    BY <1>1, <2>2 DEF LockProtects
<1>3. CASE \E t \in Tokens : StartConfirm(s, a, t)
  <2>1. PICK t \in Tokens : StartConfirm(s, a, t)
    BY <1>3
  <2>2. /\ session'[s].step = "lookup" /\ session'[s].actor = a
        /\ session'[s].token = t
    BY <2>1 DEF StartConfirm, TypeOK, Idle
  <2>3. tokens'[t] \in Token
    BY <2>1 DEF StartConfirm, TypeOK
  <2>4. t # Nobody
    BY ConfirmationAssumption
  <2>5. Protected(s)'
    BY <2>2, <2>3, <2>4 DEF Protected, HoldsTheLock, TokenIsKnown, TokenIsAccepted,
                            ReadsAreCurrent, Holds, LoadSteps, Confirming, At
  <2> QED
    BY <1>1, <2>5 DEF LockProtects
<1> QED
  BY <1>2, <1>3

(* A confirmation gets the lock, and accepts its token. *)
LEMMA LockStepsProtect ==
  ASSUME TypeOK, LockProtects, NEW s \in Sessions,
         LookUpRun(s) \/ ReadToken(s) \/ LockOrganization(s)
  PROVE  LockProtects'
<1>1. Protected(s)
  BY DEF LockProtects
<1>2. CASE Leave(s)
  BY <1>2, LeaveProtects DEF Leave, setup, confirmed
<1>3. CASE ~Leave(s) /\ (LookUpRun(s) \/ ReadToken(s))
  <2>1. \A u \in Sessions \ {s} : Protected(u)'
    BY <1>3, OthersStayProtected DEF LookUpRun, Advance, ReadToken, TypeOK, setup, confirmed
  <2>2. /\ session[s].step \in {"lookup", "token"}
        /\ session'[s].step \in {"token", "lock"} /\ session'[s].actor = session[s].actor
        /\ session'[s].token = session[s].token /\ tokens' = tokens
    BY <1>3 DEF LookUpRun, ReadToken, Advance, At, TypeOK, Session
  <2>3. Protected(s)'
    BY <1>1, <2>2 DEF Protected, HoldsTheLock, TokenIsKnown, TokenIsAccepted,
                      ReadsAreCurrent, Holds, LoadSteps, Confirming, At
  <2> QED
    BY <2>1, <2>3 DEF LockProtects
<1>4. CASE ~Leave(s) /\ LockOrganization(s)
  <2>1. /\ At(s, "lock") /\ lock = Nobody /\ Acceptable(s)
        /\ \A r \in runs : r.source.period # tokens[session[s].token].source.period
        /\ lock' = s /\ session' = [session EXCEPT ![s].step = "schedule"]
        /\ UNCHANGED <<today, setup, tokens, expired, confirmed, save>>
    BY <1>4 DEF LockOrganization, LockFree
  <2>2. \A u \in Sessions \ {s} : Protected(u)'
    BY <2>1, OthersStayProtected DEF TypeOK
  <2>3. /\ session'[s].step = "schedule" /\ session'[s].actor = session[s].actor
        /\ session'[s].token = session[s].token /\ tokens' = tokens /\ runs' = runs
    BY <2>1 DEF TypeOK, Session, confirmed
  <2>4. Protected(s)'
    BY <1>1, <2>1, <2>3 DEF Protected, HoldsTheLock, TokenIsKnown, TokenIsAccepted,
                      ReadsAreCurrent, Holds, LoadSteps, Confirming, At, Acceptable
  <2> QED
    BY <2>2, <2>4 DEF LockProtects
<1> QED
  BY <1>2, <1>3, <1>4

(* The schedule and the runs are read. *)
LEMMA EarlyReadsProtect ==
  ASSUME TypeOK, LockProtects, NEW s \in Sessions, ReadSchedule(s) \/ ReadRuns(s)
  PROVE  LockProtects'
<1>1. Protected(s)
  BY DEF LockProtects
<1>2. CASE Leave(s)
  BY <1>2, LeaveProtects DEF Leave, setup, confirmed
<1>3. CASE ReadSchedule(s)
  <2>1. \A u \in Sessions \ {s} : Protected(u)'
    BY <1>3, OthersStayProtected DEF ReadSchedule, TypeOK, setup, confirmed
  <2>2. /\ session[s].step = "schedule"
        /\ session'[s].step = "runs" /\ session'[s].actor = session[s].actor
        /\ session'[s].token = session[s].token
        /\ session'[s].source.schedule = schedule
        /\ UNCHANGED <<tokens, runs, lock, schedule>>
    BY <1>3 DEF ReadSchedule, At, TypeOK, Session, Source, setup, confirmed
  <2>3. Protected(s)'
    BY <1>1, <2>2 DEF Protected, HoldsTheLock, TokenIsKnown, TokenIsAccepted,
                      ReadsAreCurrent, Holds, LoadSteps, Confirming, At
  <2> QED
    BY <2>1, <2>3 DEF LockProtects
<1>4. CASE ~Leave(s) /\ ReadRuns(s)
  <2>1. PICK p \in Period :
          /\ At(s, "runs") /\ OpenRuns = {}
          /\ session' = [session EXCEPT ![s].step = "employees", ![s].source.period = p]
          /\ UNCHANGED <<today, setup, tokens, expired, confirmed, lock, save>>
    BY <1>4 DEF ReadRuns, Blocked
  <2>2. \A u \in Sessions \ {s} : Protected(u)'
    BY <2>1, OthersStayProtected DEF TypeOK, setup, confirmed
  <2>3. /\ session[s].step = "runs"
        /\ session'[s].step = "employees" /\ session'[s].actor = session[s].actor
        /\ session'[s].token = session[s].token
        /\ session'[s].source.schedule = session[s].source.schedule
        /\ UNCHANGED <<tokens, runs, lock, schedule>>
    BY <2>1 DEF At, TypeOK, Session, Source, setup, confirmed
  <2>4. OpenRuns' = {}
    BY <2>1, <2>3 DEF OpenRuns
  <2>5. Protected(s)'
    BY <1>1, <2>3, <2>4 DEF Protected, HoldsTheLock, TokenIsKnown, TokenIsAccepted,
                      ReadsAreCurrent, Holds, LoadSteps, Confirming, At
  <2> QED
    BY <2>2, <2>5 DEF LockProtects
<1> QED
  BY <1>2, <1>3, <1>4 DEF ReadSchedule

(* The employees are read, as they are now. *)
LEMMA ReadEmployeesProtects ==
  ASSUME TypeOK, LockProtects, NEW s \in Sessions, ReadEmployees(s)
  PROVE  LockProtects'
<1>1. Protected(s)
  BY DEF LockProtects
<1>2. CASE Leave(s)
  BY <1>2, LeaveProtects DEF Leave, setup, confirmed
<1>3. CASE ~Leave(s)
  <2> DEFINE eligible == {e \in Employees : Eligible(e, session[s].source.period)}
             seen == [e \in Employees |-> IF e \in eligible THEN employee[e].version ELSE 0]
  <2>1. /\ At(s, "employees")
        /\ session' = [session EXCEPT ![s].step = "settings", ![s].source.people = seen]
        /\ UNCHANGED <<today, setup, tokens, expired, confirmed, lock, save>>
    BY <1>3 DEF ReadEmployees
  <2>2. \A e \in Employees : seen[e] <= employee[e].version
    BY DEF TypeOK
  <2> HIDE DEF seen
  <2>3. \A u \in Sessions \ {s} : Protected(u)'
    BY <2>1, OthersStayProtected DEF TypeOK, setup, confirmed
  <2>4. /\ session[s].step = "employees"
        /\ session'[s].step = "settings" /\ session'[s].actor = session[s].actor
        /\ session'[s].token = session[s].token
        /\ session'[s].source.schedule = session[s].source.schedule
        /\ session'[s].source.people = seen
        /\ UNCHANGED <<tokens, runs, lock, schedule, employee>>
    BY <2>1 DEF At, TypeOK, Session, Source, setup, confirmed
  <2>5. OpenRuns' = OpenRuns
    BY <2>4 DEF OpenRuns
  <2>6. Protected(s)'
    BY <1>1, <2>2, <2>4, <2>5 DEF Protected, HoldsTheLock, TokenIsKnown,
                      TokenIsAccepted, ReadsAreCurrent, Holds, LoadSteps, Confirming, At
  <2> QED
    BY <2>3, <2>6 DEF LockProtects
<1> QED
  BY <1>2, <1>3

(* The pay settings are read: what a confirmation has found is what its    *)
(* token was issued for.                                                   *)
LEMMA ReadSettingsProtects ==
  ASSUME TypeOK, LockProtects, NEW s \in Sessions, ReadSettings(s)
  PROVE  LockProtects'
<1> DEFINE x == session[s].source
           source == [x EXCEPT !.pays = Pays(x)]
<1>1. Protected(s)
  BY DEF LockProtects
<1>2. CASE Leave(s)
  BY <1>2, LeaveProtects DEF Leave, setup, confirmed
<1>3. CASE /\ Confirming(s) /\ Unchanged(s, source)
           /\ \A e \in Employees : source.people[e] # 0 => source.pays[e] # 0
           /\ session' = [session EXCEPT ![s].step = "commit", ![s].source = source]
           /\ UNCHANGED <<today, setup, tokens, expired, confirmed, lock, save>>
  <2>1. /\ source.schedule = x.schedule /\ source.period = x.period
        /\ source.people = x.people /\ source.pays = Pays(x)
    BY DEF TypeOK, Session, Source
  <2>2. /\ Pays(source) = Pays(x)
        /\ \A e \in Employees : source.people[e] # 0 => Payable(e, source)
    <3>1. Pays(source) = Pays(x)
      BY <2>1 DEF Pays, Payable, Usable
    <3>2. \A e \in Employees : source.people[e] # 0 => Payable(e, x)
      BY <1>3, <2>1 DEF Pays
    <3> QED
      BY <2>1, <3>1, <3>2 DEF Payable, Usable
  <2> HIDE DEF source
  <2>3. \A u \in Sessions \ {s} : Protected(u)'
    BY <1>3, OthersStayProtected DEF TypeOK, setup, confirmed
  <2>4. /\ session[s].step = "settings"
        /\ session'[s].step = "commit" /\ session'[s].actor = session[s].actor
        /\ session'[s].token = session[s].token /\ session'[s].source = source
        /\ source = tokens[session[s].token].source
        /\ UNCHANGED <<tokens, runs, lock, schedule, settings, approved, employee>>
    BY <1>3 DEF ReadSettings, Unchanged, At, TypeOK, Session, setup, confirmed
  <2>5. OpenRuns' = OpenRuns
    BY <2>4 DEF OpenRuns
  <2>6. /\ Pays(session[s].source)' = Pays(source)
        /\ \A e \in Employees : Payable(e, session[s].source)' = Payable(e, source)
    BY <2>4 DEF Pays, Payable, Usable
  <2>7. Protected(s)'
    BY <1>1, <1>3, <2>1, <2>2, <2>4, <2>5, <2>6 DEF Protected, HoldsTheLock, TokenIsKnown,
                      TokenIsAccepted, ReadsAreCurrent, Holds, LoadSteps, Confirming, At
  <2> QED
    BY <2>3, <2>7 DEF LockProtects
<1>4. CASE /\ ~Confirming(s)
           /\ \E t \in Tokens : /\ tokens[t] = NoToken
                                /\ tokens' = [tokens EXCEPT ![t] =
                                      [actor |-> session[s].actor, source |-> source]]
           /\ session' = [session EXCEPT ![s] = Idle]
           /\ UNCHANGED <<today, setup, expired, confirmed, lock, save>>
  <2>1. \A t \in Tokens : tokens[t] \in Token => tokens'[t] = tokens[t]
    BY <1>4, NoTokenIsNone DEF TypeOK
  <2>2. CASE lock = s
    BY <1>4, <2>1, <2>2, LeaveProtects
  <2>3. CASE lock # s
    BY <1>4, <2>1, <2>3, LeaveProtects DEF Unlocked, setup, confirmed
  <2> QED
    BY <2>2, <2>3
<1> QED
  BY <1>2, <1>3, <1>4 DEF ReadSettings

(* A commit ends a session that held the lock. *)
LEMMA CommitProtects ==
  ASSUME TypeOK, LockProtects, NEW s \in Sessions, Commit(s)
  PROVE  LockProtects'
<1>1. lock = s
  BY DEF LockProtects, Protected, HoldsTheLock, TokenIsKnown, Holds, Commit, At
<1> QED
  BY <1>1, LeaveProtects DEF Commit

-----------------------------------------------------------------------------
(***************************************************************************)
(* Runs.                                                                   *)
(***************************************************************************)
(* The token a confirmation is about to commit has no run yet: the period  *)
(* of a run is the period its token was issued for.                        *)
LEMMA TokenIsUnused ==
  ASSUME TypeOK, LockProtects, ConfirmedAsPreviewed, NEW s \in Sessions, Holds(s)
  PROVE  \A r \in runs : r.token # session[s].token
<1>1. TokenIsAccepted(s)
  BY DEF LockProtects, Protected
<1>2. ASSUME NEW r \in runs PROVE tokens[r.token].source = r.source
  <2>1. tokens[r.token] = [actor |-> r.actor, source |-> r.source]
    BY DEF ConfirmedAsPreviewed
  <2> QED
    BY <2>1
<1> QED
  BY <1>1, <1>2 DEF TokenIsAccepted

(* Runs and tokens stay together when neither runs nor issued tokens change. *)
LEMMA RunsKept ==
  ASSUME TypeOK, ConfirmedAsPreviewed, UNCHANGED confirmed,
         \A t \in Tokens : tokens[t] \in Token => tokens'[t] = tokens[t]
  PROVE  ConfirmedAsPreviewed'
<1>1. ASSUME NEW r \in runs PROVE tokens'[r.token] = tokens[r.token]
  <2>1. r.token \in Tokens /\ r.actor \in Administrators /\ r.source \in Source
    BY DEF TypeOK, Run
  <2>2. tokens[r.token] = [actor |-> r.actor, source |-> r.source]
    BY DEF ConfirmedAsPreviewed
  <2>3. tokens[r.token] \in Token
    BY <2>1, <2>2 DEF Token
  <2> QED
    BY <2>1, <2>3
<1>2. runs' = runs /\ consumed' = consumed
  BY DEF confirmed
<1>3. \A r \in runs : tokens'[r.token] = [actor |-> r.actor, source |-> r.source]
  BY <1>1 DEF ConfirmedAsPreviewed
<1> QED
  BY <1>2, <1>3 DEF ConfirmedAsPreviewed

(* Completing a run changes only its status. *)
LEMMA CompleteRunKeeps ==
  ASSUME TypeOK, ConfirmedAsPreviewed, OneOpenRun, NEW r \in runs, CompleteRun(r)
  PROVE  ConfirmedAsPreviewed' /\ OneOpenRun'
<1> DEFINE done == [r EXCEPT !.status = "completed"]
<1>1. r \in Run
  BY DEF TypeOK
<1>2. /\ done.token = r.token /\ done.actor = r.actor /\ done.source = r.source
      /\ done.status = "completed"
  BY <1>1 DEF Run
<1>3. runs' = (runs \ {r}) \cup {done} /\ UNCHANGED <<tokens, consumed, schedule>>
  BY DEF CompleteRun, setup
<1> HIDE DEF done
<1>4. ConfirmedAsPreviewed'
  <2>1. \A q \in runs' : tokens'[q.token] = [actor |-> q.actor, source |-> q.source]
    <3>1. ASSUME NEW q \in runs
          PROVE  tokens'[q.token] = [actor |-> q.actor, source |-> q.source]
      BY <1>3 DEF ConfirmedAsPreviewed
    <3>2. tokens'[done.token] = [actor |-> done.actor, source |-> done.source]
      BY <1>2, <3>1
    <3> QED
      BY <1>3, <3>1, <3>2
  <2>2. \A p, q \in runs' : p.token = q.token => p = q
    <3>1. \A p, q \in runs : p.token = q.token => p = q
      BY DEF ConfirmedAsPreviewed
    <3> QED
      BY <1>2, <1>3, <3>1
  <2>3. {q.token : q \in runs'} = {q.token : q \in runs}
    BY <1>2, <1>3
  <2> QED
    BY <1>3, <2>1, <2>2, <2>3 DEF ConfirmedAsPreviewed
<1>5. OpenRuns' \subseteq OpenRuns
  BY <1>2, <1>3 DEF OpenRuns
<1>6. OneOpenRun'
  BY <1>3, <1>5 DEF OneOpenRun
<1> QED
  BY <1>4, <1>6

(* A commit adds the run of an unused token, when no run is open.          *)
LEMMA CommitKeeps ==
  ASSUME TypeOK, LockProtects, ConfirmedAsPreviewed, NEW s \in Sessions, Commit(s)
  PROVE  ConfirmedAsPreviewed' /\ OneOpenRun'
<1> DEFINE run == [token |-> session[s].token, actor |-> session[s].actor,
                   source |-> session[s].source, status |-> "open"]
<1>1. session[s].step = "commit"
  BY DEF Commit, At
<1>2. Confirming(s) /\ Holds(s)
  BY <1>1 DEF LockProtects, Protected, TokenIsKnown, Holds
<1>3. \A r \in runs : r.token # session[s].token
  BY <1>2, TokenIsUnused
<1>4. /\ session[s].source.schedule = schedule /\ OpenRuns = {}
      /\ session[s].source = tokens[session[s].token].source
  BY <1>1, <1>2 DEF LockProtects, Protected, ReadsAreCurrent
<1>5. tokens[session[s].token] = [actor |-> session[s].actor, source |-> session[s].source]
  <2>1. tokens[session[s].token] \in Token
    BY <1>2 DEF LockProtects, Protected, TokenIsKnown
  <2>2. tokens[session[s].token].actor = session[s].actor
    BY <1>2 DEF LockProtects, Protected, TokenIsAccepted
  <2> QED
    BY <1>4, <2>1, <2>2 DEF Token
<1>6. runs' = runs \cup {run} /\ consumed' = consumed \cup {run.token}
      /\ UNCHANGED <<tokens, schedule>>
  BY DEF Commit, setup
<1>7. /\ run.token = session[s].token /\ run.actor = session[s].actor
      /\ run.source = session[s].source /\ run.status = "open"
  OBVIOUS
<1> HIDE DEF run
<1>8. ConfirmedAsPreviewed'
  <2>1. \A r \in runs' : tokens'[r.token] = [actor |-> r.actor, source |-> r.source]
    BY <1>5, <1>6, <1>7 DEF ConfirmedAsPreviewed
  <2>2. \A p, q \in runs' : p.token = q.token => p = q
    BY <1>3, <1>6, <1>7 DEF ConfirmedAsPreviewed
  <2>3. {r.token : r \in runs'} = {r.token : r \in runs} \cup {run.token}
    BY <1>6
  <2> QED
    BY <1>6, <2>1, <2>2, <2>3 DEF ConfirmedAsPreviewed
<1>9. OpenRuns' = {run}
  BY <1>4, <1>6, <1>7 DEF OpenRuns
<1> QED
  BY <1>4, <1>6, <1>7, <1>8, <1>9 DEF OneOpenRun

-----------------------------------------------------------------------------
(***************************************************************************)
(* The inductive invariant.  Its conjuncts need one another: a commit      *)
(* keeps OneOpenRun and ConfirmedAsPreviewed because of what LockProtects  *)
(* says of the session that commits, and a token found acceptable has no   *)
(* run because runs carry the source of their tokens.                      *)
(***************************************************************************)
IInv == TypeOK /\ LockProtects /\ ConfirmedAsPreviewed /\ OneOpenRun

(* It holds at first. *)
LEMMA IInvInit == Init => IInv
<1> SUFFICES ASSUME Init PROVE IInv
  OBVIOUS
<1>1. TypeOK
  BY TypeInit
<1>2. LockProtects
  BY DEF Init, Idle, LockProtects, Protected, HoldsTheLock, TokenIsKnown,
         TokenIsAccepted, ReadsAreCurrent, Holds, Confirming, At
<1>3. ConfirmedAsPreviewed /\ OneOpenRun
  BY DEF Init, ConfirmedAsPreviewed, OneOpenRun, OpenRuns
<1> QED
  BY <1>1, <1>2, <1>3 DEF IInv

(* Steps outside previews and confirmations keep it. *)
LEMMA IInvOutside ==
  ASSUME IInv,
         \/ Tomorrow
         \/ \E t \in Tokens : Expire(t)
         \/ \E r \in runs : CompleteRun(r)
         \/ \E e \in Employees : DeactivateEmployee(e)
         \/ \E e \in Employees : UpdateSelfServiceProfile(e)
         \/ \E e \in Employees : ApproveTimecard(e)
         \/ \E e \in Employees, d \in HireDates : SaveEmployee(e, d)
         \/ \E f \in Frequencies, d \in StartDates : UpdateSchedule(f, d)
         \/ \E c \in Savers : SaveStep(c)
  PROVE  IInv'
<1> USE DEF IInv
<1>1. CASE Tomorrow \/ \E t \in Tokens : Expire(t)
  <2>1. UNCHANGED <<session, tokens, lock, runs, consumed, schedule, settings, approved,
                    employee>>
    BY <1>1 DEF Tomorrow, Expire, setup, confirmed
  <2>2. TypeOK'
    BY <1>1, TypeTime
  <2>3. LockProtects'
    BY <2>1, <2>2, QuietStep DEF TypeOK
  <2> QED
    BY <2>1, <2>2, <2>3, RunsKept DEF OneOpenRun, OpenRuns, confirmed
<1>2. CASE \E r \in runs : CompleteRun(r)
  <2>1. PICK r \in runs : CompleteRun(r)
    BY <1>2
  <2>2. LockProtects'
    BY <2>1, LockedStep DEF CompleteRun
  <2> QED
    BY <2>1, <2>2, TypeCompleteRun, CompleteRunKeeps
<1>3. CASE \/ \E e \in Employees : DeactivateEmployee(e)
           \/ \E e \in Employees : UpdateSelfServiceProfile(e)
           \/ \E e \in Employees, d \in HireDates : SaveEmployee(e, d)
  <2>1. /\ UNCHANGED <<session, tokens, lock, runs, consumed, schedule, settings, approved>>
        /\ \A e \in Employees : employee[e].version <= employee'[e].version
    <3>1. \A x \in Employees : employee[x].version \in Int
      BY DEF TypeOK
    <3>2. CASE \E e \in Employees, d \in HireDates : SaveEmployee(e, d)
      <4>1. PICK e \in Employees, d \in HireDates : SaveEmployee(e, d)
        BY <3>2
      <4>2. /\ employee'[e].version = employee[e].version + 1
            /\ \A x \in Employees \ {e} : employee'[x] = employee[x]
        BY <4>1 DEF SaveEmployee, TypeOK
      <4>3. \A x \in Employees : employee[x].version <= employee'[x].version
        BY <3>1, <4>2
      <4> QED
        BY <4>1, <4>3 DEF SaveEmployee, confirmed
    <3>3. CASE \E e \in Employees : DeactivateEmployee(e)
      <4>1. PICK e \in Employees : DeactivateEmployee(e)
        BY <3>3
      <4>2. /\ employee'[e].version = employee[e].version + 1
            /\ \A x \in Employees \ {e} : employee'[x] = employee[x]
        BY <4>1 DEF DeactivateEmployee, TypeOK
      <4>3. \A x \in Employees : employee[x].version <= employee'[x].version
        BY <3>1, <4>2
      <4> QED
        BY <4>1, <4>3 DEF DeactivateEmployee, confirmed
    <3>4. CASE \E e \in Employees : UpdateSelfServiceProfile(e)
      <4>1. PICK e \in Employees : UpdateSelfServiceProfile(e)
        BY <3>4
      <4>2. /\ employee'[e].version = employee[e].version + 1
            /\ \A x \in Employees \ {e} : employee'[x] = employee[x]
        BY <4>1 DEF UpdateSelfServiceProfile, TypeOK
      <4>3. \A x \in Employees : employee[x].version <= employee'[x].version
        BY <3>1, <4>2
      <4> QED
        BY <4>1, <4>3 DEF UpdateSelfServiceProfile, confirmed
    <3> QED
      BY <1>3, <3>2, <3>3, <3>4
  <2>2. TypeOK'
    <3>1. CASE \E e \in Employees, d \in HireDates : SaveEmployee(e, d)
      BY <3>1, TypeEmployee
    <3>2. CASE \E e \in Employees : DeactivateEmployee(e)
      BY <3>2, TypeDeactivate
    <3>3. CASE \E e \in Employees : UpdateSelfServiceProfile(e)
      BY <3>3, TypeSelfService
    <3> QED
      BY <1>3, <3>1, <3>2, <3>3
  <2>3. LockProtects'
    BY <2>1, <2>2, QuietStep
  <2> QED
    BY <2>1, <2>2, <2>3, RunsKept DEF OneOpenRun, OpenRuns, confirmed
<1>4. CASE \E f \in Frequencies, d \in StartDates : UpdateSchedule(f, d)
  <2>1. PICK f \in Frequencies, d \in StartDates : UpdateSchedule(f, d)
    BY <1>4
  <2>2. /\ lock = Nobody /\ OpenRuns = {}
        /\ UNCHANGED <<session, tokens, runs, consumed>>
    BY <2>1 DEF UpdateSchedule, MayChangeSchedule, confirmed
  <2>3. TypeOK'
    BY <2>1, TypeUpdateSchedule
  <2>4. LockProtects'
    BY <2>2, LockedStep
  <2> QED
    BY <2>2, <2>3, <2>4, RunsKept DEF OneOpenRun, OpenRuns, confirmed
<1>5. CASE \E c \in Savers : SaveStep(c)
  <2>1. PICK c \in Savers : SaveStep(c)
    BY <1>5
  <2>2. TypeOK'
    BY <2>1, TypeSave
  <2>3. /\ UNCHANGED <<session, tokens, lock, runs, consumed, schedule, approved, employee>>
        /\ settings' = settings \/ lock = Nobody
    BY <2>1 DEF SaveStep, SubmitSetting, FindReceipt, InsertSetting, RejectSetting,
                EndSave, setup, confirmed
  <2>4. LockProtects'
    BY <2>2, <2>3, QuietStep, LockedStep DEF TypeOK
  <2> QED
    BY <2>2, <2>3, <2>4, RunsKept DEF OneOpenRun, OpenRuns, confirmed
<1>6. CASE \E e \in Employees : ApproveTimecard(e)
  <2>1. PICK e \in Employees : ApproveTimecard(e)
    BY <1>6
  <2>2. /\ UNCHANGED <<session, tokens, lock, runs, consumed, schedule, settings, employee>>
        /\ approved \subseteq approved'
    BY <2>1 DEF ApproveTimecard, confirmed
  <2>3. TypeOK'
    BY <2>1, TypeApprove
  <2>4. LockProtects'
    BY <2>2, <2>3, QuietStep DEF TypeOK
  <2> QED
    BY <2>2, <2>3, <2>4, RunsKept DEF OneOpenRun, OpenRuns, confirmed
<1> QED
  BY <1>1, <1>2, <1>3, <1>4, <1>5, <1>6

(* Steps of previews and confirmations keep it. *)
LEMMA IInvSession ==
  ASSUME IInv, NEW s \in Sessions, SessionStep(s)
  PROVE  IInv'
<1> USE DEF IInv
<1>1. CASE Commit(s)
  <2>1. TokenIsKnown(s)
    BY DEF LockProtects, Protected
  <2> QED
    BY <1>1, <2>1, TypeCommit, CommitProtects, CommitKeeps
<1>2. CASE ~Commit(s)
  <2>1. TypeOK' /\ LockProtects'
    <3>1. CASE \/ \E a \in Administrators : StartPreview(s, a)
               \/ \E a \in Administrators, t \in Tokens : StartConfirm(s, a, t)
      BY <3>1, TypeStart, StartProtects
    <3>2. CASE LookUpRun(s) \/ ReadToken(s) \/ LockOrganization(s)
      BY <3>2, TypeLock, LockStepsProtect
    <3>3. CASE ReadSchedule(s) \/ ReadRuns(s) \/ ReadEmployees(s)
      BY <3>3, TypeRead, EarlyReadsProtect, ReadEmployeesProtects
    <3>4. CASE ReadSettings(s)
      BY <3>4, TypeReadSettings, ReadSettingsProtects DEF LockProtects, Protected
    <3>5. CASE Fail(s)
      BY <3>5, TypeLeave, LeaveProtects DEF Fail, Leave, setup, confirmed
    <3> QED
      BY <1>2, <3>1, <3>2, <3>3, <3>4, <3>5 DEF SessionStep
  <2>2. UNCHANGED <<runs, consumed, schedule>>
    BY <1>2 DEF SessionStep, StartPreview, StartConfirm, LookUpRun, ReadToken,
                LockOrganization, ReadSchedule, ReadRuns, ReadEmployees,
                ReadSettings, Fail, Leave, Advance, setup, confirmed
  <2>3. \A t \in Tokens : tokens[t] \in Token => tokens'[t] = tokens[t]
    <3>1. CASE UNCHANGED tokens
      BY <3>1
    <3>2. CASE ReadSettings(s)
      BY <3>2, NoTokenIsNone DEF ReadSettings, Leave, TypeOK
    <3> QED
      BY <1>2, <3>1, <3>2 DEF SessionStep, StartPreview, StartConfirm, LookUpRun,
                ReadToken, LockOrganization, ReadSchedule, ReadRuns, ReadEmployees,
                Fail, Leave, Advance
  <2> QED
    BY <2>1, <2>2, <2>3, RunsKept DEF OneOpenRun, OpenRuns, confirmed
<1> QED
  BY <1>1, <1>2

(* Every step keeps it. *)
LEMMA IInvStep == IInv /\ [Next]_vars => IInv'
<1> SUFFICES ASSUME IInv, [Next]_vars PROVE IInv'
  OBVIOUS
<1>1. CASE Next
  BY <1>1, IInvOutside, IInvSession DEF Next
<1>2. CASE UNCHANGED vars
  <2>1. UNCHANGED <<today, schedule, employee, settings, receipts, approved, tokens, consumed,
                    expired, runs, lock, session, save>>
    BY <1>2 DEF vars, setup, confirmed
  <2>2. TypeOK'
    BY <2>1 DEF IInv, TypeOK
  <2>3. LockProtects'
    BY <2>1, <2>2, QuietStep DEF IInv, TypeOK
  <2> QED
    BY <2>1, <2>2, <2>3, RunsKept DEF IInv, OneOpenRun, OpenRuns, confirmed
<1> QED
  BY <1>1, <1>2

(* The invariant holds throughout. *)
THEOREM Invariance == Spec => []IInv
BY IInvInit, IInvStep, PTL DEF Spec

(* The rows and the requests under way keep their types. *)
THEOREM TypeCorrect == Spec => []TypeOK
<1>1. IInv => TypeOK
  BY DEF IInv
<1> QED
  BY <1>1, Invariance, PTL

(* There is at most one open run, and the schedule is the one it was       *)
(* computed with, however previews, confirmations, changes of the schedule *)
(* and completions overlap.                                                *)
THEOREM AtMostOneOpenRun == Spec => []OneOpenRun
<1>1. IInv => OneOpenRun
  BY DEF IInv
<1> QED
  BY <1>1, Invariance, PTL

(* A run is what the administrator who confirmed it was shown, and a token *)
(* makes one run at most.                                                  *)
THEOREM RunsAreAsPreviewed == Spec => []ConfirmedAsPreviewed
<1>1. IInv => ConfirmedAsPreviewed
  BY DEF IInv
<1> QED
  BY <1>1, Invariance, PTL

(* From the check of its token to its commit, a confirmation holds the     *)
(* lock, and what it has read under it stays true.                         *)
THEOREM TheLockProtects == Spec => []LockProtects
<1>1. IInv => LockProtects
  BY DEF IInv
<1> QED
  BY <1>1, Invariance, PTL

(* What a confirmation is about to freeze is what the database holds.      *)
THEOREM WhatIsFrozenIsCurrent == Spec => []FrozenIsCurrent
<1>1. IInv => FrozenIsCurrent
  <2>1. SUFFICES ASSUME IInv, NEW s \in Sessions, At(s, "commit")
                 PROVE  /\ session[s].source.schedule = schedule
                        /\ session[s].source.pays = Pays(session[s].source)
                        /\ \A e \in Employees :
                              session[s].source.people[e] <= employee[e].version
                        /\ OpenRuns = {}
                        /\ session[s].token \notin consumed
    BY DEF FrozenIsCurrent
  <2>2. Protected(s)
    BY <2>1 DEF IInv, LockProtects
  <2>3. Confirming(s) /\ Holds(s)
    BY <2>1, <2>2 DEF Protected, TokenIsKnown, Holds, At
  <2>4. \A r \in runs : r.token # session[s].token
    BY <2>1, <2>3, TokenIsUnused DEF IInv
  <2>5. session[s].token \notin consumed
    BY <2>1, <2>4 DEF IInv, ConfirmedAsPreviewed
  <2> QED
    BY <2>1, <2>2, <2>3, <2>5 DEF Protected, ReadsAreCurrent, At
<1> QED
  BY <1>1, Invariance, PTL

-----------------------------------------------------------------------------
(***************************************************************************)
(* The calendar.                                                           *)
(***************************************************************************)
(* The month a date lies in determines what is computed from the date.     *)
LEMMA MonthOf ==
  ASSUME NEW first \in Int, NEW next \in Int, IsMonth(first, next),
         NEW date \in Int, first <= date, date < next
  PROVE  /\ MonthStart(date) = first /\ NextMonthStart(date) = next
         /\ SecondHalf(date) = first + HalfMonth
<1>1. MonthStart(date) = first
  <2>1. \A m \in {n \in MonthStarts : n <= date} : m <= first
    BY CalendarAssumption DEF IsMonth
  <2> QED
    BY <2>1, CalendarAssumption, LargestIs DEF MonthStart, IsMonth
<1>2. NextMonthStart(date) = next
  <2>1. \A m \in {n \in MonthStarts : n > date} : next <= m
    BY CalendarAssumption DEF IsMonth
  <2> QED
    BY <2>1, CalendarAssumption, SmallestIs DEF NextMonthStart, IsMonth
<1> QED
  BY <1>1, <1>2 DEF SecondHalf

(* The next multiple is found from itself.                                 *)
LEMMA MultipleAfter ==
  ASSUME NEW q \in Int, NEW n \in Nat \ {0}
  PROVE  ((q * n + n) \div n) * n = q * n + n
OBVIOUS

(* The multiple before is found from the day before.                       *)
LEMMA MultipleBefore ==
  ASSUME NEW q \in Int, NEW n \in Nat \ {0}
  PROVE  ((q * n - 1) \div n) * n = q * n - n
OBVIOUS

(* The dates that are looked up.                                           *)
Near == (MinDay - 1)..(MaxDay + 1)
(* A period of the schedule starts on the date.                            *)
Starts(sch, d) == PeriodContaining(sch, d).first = d

(* A period p that contains the date d, between its neighbours.            *)
Follows(p, d, before, after) ==
  /\ p.first \in Int /\ p.last \in Int /\ p.first <= d /\ d <= p.last
  /\ before.first \in Int /\ before.first <= before.last /\ before.last = p.first - 1
  /\ p.last + 1 \in Near => after.first = p.last + 1

(* Periods of a fixed length counted from an anchor follow each other.     *)
LEMMA AnchoredFollow ==
  ASSUME NEW a \in Int, NEW n \in Nat \ {0}, NEW d \in Int
  PROVE  LET p == Anchored(a, n, d)
         IN /\ Follows(p, d, Anchored(a, n, p.first - 1), Anchored(a, n, p.last + 1))
            /\ \A x \in Int : p.first <= x /\ x <= p.last => Anchored(a, n, x) = p
<1> DEFINE q == (d - a) \div n
           first == a + q * n
           p == Anchored(a, n, d)
<1>1. q \in Int /\ q * n \in Int /\ q * n <= d - a /\ d - a < q * n + n
  BY Quotient
<1>2. p = [first |-> first, last |-> first + n - 1]
  BY DEF Anchored
<1>3. p.first = first /\ p.last = first + n - 1
  BY <1>2
<1>4. ASSUME NEW x \in Int, first <= x, x <= first + n - 1
      PROVE  Anchored(a, n, x) = p
  <2>1. (x - a) \div n = q
    <3>1. x - a \in Int /\ q * n <= x - a /\ x - a < q * n + n
      BY <1>1, <1>4
    <3>2. d - a \in Int
      OBVIOUS
    <3> QED
      BY <3>1, <3>2, Quotient
  <2> QED
    BY <2>1 DEF Anchored
<1>5. Anchored(a, n, p.last + 1).first = p.last + 1
  <2>1. p.last + 1 - a = q * n + n
    BY <1>1, <1>3
  <2>2. ((p.last + 1 - a) \div n) * n = q * n + n
    BY <1>1, <2>1, MultipleAfter
  <2>3. Anchored(a, n, p.last + 1).first = a + ((p.last + 1 - a) \div n) * n
    BY DEF Anchored
  <2> QED
    BY <1>1, <1>3, <2>2, <2>3
<1>6. LET b == Anchored(a, n, p.first - 1)
      IN b.first \in Int /\ b.first <= b.last /\ b.last = p.first - 1
  <2>1. p.first - 1 - a = q * n - 1
    BY <1>1, <1>3
  <2>2. ((p.first - 1 - a) \div n) * n = q * n - n
    BY <1>1, <2>1, MultipleBefore
  <2> QED
    BY <2>2, <1>1, <1>3 DEF Anchored
<1> QED
  BY <1>1, <1>3, <1>4, <1>5, <1>6 DEF Follows

(* A date that is looked up lies in a month, and the months before and     *)
(* after it are as the calendar says.                                      *)
LEMMA MonthAt ==
  ASSUME NEW d \in Near
  PROVE  \E previous, first, next \in MonthStarts :
           /\ previous \in Int /\ first \in Int /\ next \in Int
           /\ IsMonth(previous, first) /\ IsMonth(first, next)
           /\ first <= d /\ d < next
           /\ \A x \in Int : first <= x /\ x < next =>
                 /\ MonthStart(x) = first /\ NextMonthStart(x) = next
                 /\ SecondHalf(x) = first + HalfMonth
           /\ \A x \in Int : previous <= x /\ x < first =>
                 /\ MonthStart(x) = previous /\ NextMonthStart(x) = first
                 /\ SecondHalf(x) = previous + HalfMonth
           /\ next \in Near => MonthStart(next) = next /\ SecondHalf(next) = next + HalfMonth
<1>1. PICK previous, first, next \in MonthStarts :
           /\ IsMonth(previous, first) /\ IsMonth(first, next)
           /\ first <= d /\ d < next
  BY CalendarAssumption DEF Near
<1>2. previous \in Int /\ first \in Int /\ next \in Int
  BY CalendarAssumption
<1>3. ASSUME next \in Near
      PROVE  MonthStart(next) = next /\ SecondHalf(next) = next + HalfMonth
  <2>1. PICK f, n \in MonthStarts : IsMonth(f, n) /\ f <= next /\ next < n
    BY <1>3, CalendarAssumption DEF Near
  <2>2. f = next
    BY <2>1, CalendarAssumption DEF IsMonth
  <2> QED
    BY <2>1, <2>2, <1>2, MonthOf, CalendarAssumption
<1> QED
  BY <1>1, <1>2, <1>3, MonthOf

(* The periods of a schedule partition the dates: a period contains its    *)
(* date, is the period of each of its days, and the one before and the one *)
(* after begin and end next to it.                                         *)
LEMMA PeriodsFollow ==
  ASSUME NEW sch \in Schedule, NEW d \in Near
  PROVE  LET p == PeriodContaining(sch, d)
         IN /\ Follows(p, d, PeriodContaining(sch, p.first - 1),
                             PeriodContaining(sch, p.last + 1))
            /\ \A x \in Int : p.first <= x /\ x <= p.last => PeriodContaining(sch, x) = p
<1> USE CalendarAssumption
<1>0. d \in Int
  BY DEF Near
<1>1. CASE sch.frequency = "weekly"
  <2>1. \A x : PeriodContaining(sch, x) = Anchored(sch.anchor, Week, x)
    BY <1>1 DEF PeriodContaining
  <2>2. sch.anchor \in Int
    BY DEF Schedule, Dates, NoDate
  <2> QED
    BY <1>0, <2>1, <2>2, AnchoredFollow
<1>2. CASE sch.frequency = "biweekly"
  <2>1. \A x : PeriodContaining(sch, x) = Anchored(sch.anchor, 2 * Week, x)
    BY <1>2 DEF PeriodContaining
  <2>2. sch.anchor \in Int /\ 2 * Week \in Nat \ {0}
    BY DEF Schedule, Dates, NoDate
  <2> QED
    BY <1>0, <2>1, <2>2, AnchoredFollow
<1>3. CASE sch.frequency = "semimonthly"
  <2>1. \A x : PeriodContaining(sch, x) =
                 IF x < SecondHalf(x)
                   THEN [first |-> MonthStart(x), last |-> SecondHalf(x) - 1]
                   ELSE [first |-> SecondHalf(x), last |-> NextMonthStart(x) - 1]
    BY <1>3 DEF PeriodContaining
  <2> QED
    BY <1>0, <2>1, MonthAt DEF Follows, IsMonth
<1>4. CASE sch.frequency = "monthly"
  <2>1. \A x : PeriodContaining(sch, x) =
                 [first |-> MonthStart(x), last |-> NextMonthStart(x) - 1]
    BY <1>4 DEF PeriodContaining
  <2> QED
    BY <1>0, <2>1, MonthAt DEF Follows, IsMonth
<1> QED
  BY <1>1, <1>2, <1>3, <1>4, ConfirmationAssumption DEF Schedule

(* A schedule that may start on a date has a period that starts on it.     *)
LEMMA StartsWhereChosen ==
  ASSUME NEW f \in Frequencies, NEW d \in Dates, NEW v \in 1..MaxSchedules,
         MayStart(f, d)
  PROVE  Starts(ScheduleFrom(f, d, v), d)
<1> DEFINE sch == ScheduleFrom(f, d, v)
<1> USE CalendarAssumption
<1>0. d \in Int /\ d \in Near
  BY DEF Dates, Near
<1>1. sch \in Schedule /\ sch.frequency = f
  BY ScheduleTyped DEF ScheduleFrom
<1>2. CASE f \in {"weekly", "biweekly"}
  <2>1. sch.anchor = d
    BY <1>2 DEF ScheduleFrom
  <2>2. PICK n \in Nat \ {0} : PeriodContaining(sch, d) = Anchored(d, n, d)
    BY <1>1, <1>2, <2>1 DEF PeriodContaining
  <2>3. (d - d) \div n = 0
    BY <1>0
  <2>4. Anchored(d, n, d).first = d + ((d - d) \div n) * n
    BY DEF Anchored
  <2>5. 0 * n = 0
    OBVIOUS
  <2> QED
    BY <1>0, <2>2, <2>3, <2>4, <2>5 DEF Starts
<1>3. CASE f = "semimonthly"
  <2>1. PeriodContaining(sch, d) =
          IF d < SecondHalf(d)
            THEN [first |-> MonthStart(d), last |-> SecondHalf(d) - 1]
            ELSE [first |-> SecondHalf(d), last |-> NextMonthStart(d) - 1]
    BY <1>1, <1>3 DEF PeriodContaining
  <2>2. d = MonthStart(d) \/ d = SecondHalf(d)
    BY <1>3 DEF MayStart
  <2>3. SecondHalf(d) = MonthStart(d) + HalfMonth /\ MonthStart(d) \in Int
    BY <1>0, MonthAt
  <2> QED
    BY <1>0, <2>1, <2>2, <2>3 DEF Starts
<1>4. CASE f = "monthly"
  BY <1>1, <1>4 DEF PeriodContaining, MayStart, Starts
<1> QED
  BY <1>2, <1>3, <1>4, ConfirmationAssumption

(* The period to be paid next has ended, the period after it starts the    *)
(* day after, and when a period was paid it follows that one.              *)
LEMMA NextPeriodFollows ==
  ASSUME NEW sch \in Schedule, NEW d \in Dates, NEW e \in Dates \cup {NoDate},
         e # NoDate => e < d,
         NEW p \in Period, p = NextPeriod(sch, e, d), IsClosedPeriod(p, d)
  PROVE  /\ p.first <= p.last /\ p.last < d
         /\ Starts(sch, p.last + 1)
         /\ e # NoDate /\ Starts(sch, e + 1) => p.first = e + 1
<1> USE CalendarAssumption
<1>0. d \in Int /\ p.last < d /\ p.last \in Dates /\ p.first \in Dates
  BY DEF IsClosedPeriod, Dates, Period
<1>1. ASSUME NEW x \in Near, p = PeriodContaining(sch, x)
      PROVE  p.first <= p.last /\ Starts(sch, p.last + 1)
  <2>1. Follows(p, x, PeriodContaining(sch, p.first - 1), PeriodContaining(sch, p.last + 1))
    BY <1>1, PeriodsFollow
  <2>2. p.last + 1 \in Near
    BY <1>0 DEF Dates, Near
  <2>3. x \in Int
    BY DEF Near
  <2> QED
    BY <2>1, <2>2, <2>3 DEF Follows, Starts
<1>2. CASE e # NoDate
  <2>1. p = PeriodContaining(sch, e + 1)
    BY <1>2 DEF NextPeriod
  <2>2. e + 1 \in Near
    BY <1>2 DEF Dates, Near
  <2> QED
    BY <1>0, <1>1, <2>1, <2>2 DEF Starts
<1>3. CASE e = NoDate
  <2> DEFINE y == PeriodContaining(sch, d - 1)
             z == PeriodContaining(sch, y.first - 1)
  <2>0. NoPeriod \notin Period
    BY DEF NoPeriod, Period, Dates, NoDate
  <2>1. p \in {y, z, PeriodContaining(sch, sch.effectiveStart)}
    BY <1>3, <2>0 DEF NextPeriod
  <2>2. d - 1 \in Near /\ sch.effectiveStart \in Near
    BY DEF Dates, Near, Schedule
  <2>3. CASE p = z
    <3>1. Follows(y, d - 1, z, PeriodContaining(sch, y.last + 1))
      BY <2>2, PeriodsFollow
    <3>2. /\ y.first \in Int /\ y.last \in Int /\ y.first <= d - 1 /\ d - 1 <= y.last
          /\ z.first <= z.last /\ z.last = y.first - 1
      BY <3>1 DEF Follows
    <3>3. PeriodContaining(sch, y.first) = y
      <4>1. y.first <= y.first /\ y.first <= y.last
        BY <1>0, <3>2
      <4> QED
        BY <2>2, <3>2, <4>1, PeriodsFollow
    <3>4. p.last + 1 = y.first /\ p.first <= p.last
      BY <2>3, <3>2
    <3> HIDE DEF y, z
    <3> QED
      BY <1>0, <1>3, <3>3, <3>4 DEF Starts
  <2> HIDE DEF y
  <2>4. CASE p = y
    BY <1>0, <1>1, <1>3, <2>2, <2>4 DEF y
  <2>5. CASE p = PeriodContaining(sch, sch.effectiveStart)
    BY <1>0, <1>1, <1>3, <2>2, <2>5
  <2> QED
    BY <2>1, <2>3, <2>4, <2>5
<1> QED
  BY <1>2, <1>3

-----------------------------------------------------------------------------
(***************************************************************************)
(* The invariant: the period after the latest run starts the day after it, *)
(* under the schedule in force, and the period a confirmation has computed *)
(* follows the latest run.                                                 *)
(***************************************************************************)
(* No run ends later.                                                      *)
Latest(r) == \A q \in runs : q.source.period.last <= r.source.period.last

(* The period follows all runs.                                            *)
Succeeds(period) ==
  runs # {} => \E r \in runs : Latest(r) /\ period.first = r.source.period.last + 1

(* The runs are of periods that have ended, and the latest ends where a    *)
(* period of the schedule does.                                            *)
RunsFollow ==
  /\ \A r \in runs : r.source.period \in Period
  /\ runs # {} => \E r \in runs : /\ Latest(r) /\ r.source.period.last < today
                                  /\ Starts(schedule, r.source.period.last + 1)

(* The period a session has computed has ended; that of a confirmation,    *)
(* which holds the lock, follows the latest run.                           *)
FollowsRuns(s) ==
  LET source == session[s].source
  IN /\ session[s].step \in {"runs", "employees", "settings", "commit"} =>
          source.schedule \in Schedule
     /\ session[s].step \in {"employees", "settings", "commit"} =>
          /\ source.period \in Period
          /\ source.period.first <= source.period.last
          /\ source.period.last < today
          /\ Confirming(s) => /\ Succeeds(source.period)
                              /\ Starts(schedule, source.period.last + 1)

PeriodsKept == RunsFollow /\ \A s \in Sessions : FollowsRuns(s)

LInv == IInv /\ PeriodsKept

(* What a session has computed stays in order as time passes. *)
LEMMA SessionKept ==
  ASSUME NEW s, FollowsRuns(s), today \in Int, today' \in Int, today <= today',
         UNCHANGED <<runs, schedule>>, session'[s] = session[s]
  PROVE  FollowsRuns(s)'
<1>1. Confirming(s)' = Confirming(s)
  BY DEF Confirming
<1>2. \A p : Succeeds(p)' = Succeeds(p)
  BY DEF Succeeds, Latest
<1>3. \A p \in Period : p.last \in Int
  BY ConfirmationAssumption DEF Period, Dates
<1> QED
  BY <1>1, <1>2, <1>3 DEF FollowsRuns

(* The runs stay in order as time passes.                                  *)
LEMMA RunsFollowKept ==
  ASSUME RunsFollow, today \in Int, today' \in Int, today <= today',
         UNCHANGED <<runs, schedule>>
  PROVE  RunsFollow'
<1>1. \A r : Latest(r)' = Latest(r)
  BY DEF Latest
<1>2. \A p \in Period : p.last \in Int
  BY ConfirmationAssumption DEF Period, Dates
<1> QED
  BY <1>1, <1>2 DEF RunsFollow

(* The latest end of the completed runs, when no run is open. *)
LEMMA LatestEndIs ==
  ASSUME RunsFollow, OpenRuns = {}, today \in Dates
  PROVE  /\ LatestEnd \in Dates \cup {NoDate}
         /\ LatestEnd # NoDate => LatestEnd < today
         /\ (LatestEnd = NoDate) = (runs = {})
         /\ \A r \in runs : Latest(r) => LatestEnd = r.source.period.last
         /\ LatestEnd # NoDate => Starts(schedule, LatestEnd + 1)
<1> DEFINE ends == {r.source.period.last : r \in runs \ OpenRuns}
<1>1. \A r \in runs : r.source.period.last \in Dates
  BY DEF RunsFollow, Period
<1>2. ends \subseteq Int
  BY <1>1, ConfirmationAssumption DEF Dates
<1>3. CASE runs = {}
  BY <1>3 DEF LatestEnd
<1>4. CASE runs # {}
  <2>1. LatestEnd = Max(ends)
    BY <1>4 DEF LatestEnd
  <2>2. ASSUME NEW r \in runs, Latest(r)
        PROVE  LatestEnd = r.source.period.last
    <3>1. r.source.period.last \in ends /\ \A y \in ends : y <= r.source.period.last
      BY <2>2 DEF Latest
    <3> HIDE DEF ends
    <3> QED
      BY <1>2, <2>1, <3>1, LargestIs
  <2>3. PICK r \in runs : /\ Latest(r) /\ r.source.period.last < today
                          /\ Starts(schedule, r.source.period.last + 1)
    BY <1>4 DEF RunsFollow
  <2>4. NoDate \notin Dates
    BY ConfirmationAssumption DEF Dates, NoDate
  <2> QED
    BY <1>1, <1>4, <2>2, <2>3, <2>4
<1> QED
  BY <1>3, <1>4

(* Without a run there is nothing to follow.                               *)
LEMMA PeriodsInit == Init => PeriodsKept
BY DEF Init, PeriodsKept, RunsFollow, FollowsRuns, Idle

(* A step that leaves runs, schedule and date alone and moves one session. *)
LEMMA SessionMoves ==
  ASSUME TypeOK, PeriodsKept, UNCHANGED <<today, runs, schedule>>, NEW s \in Sessions,
         \A t \in Sessions \ {s} : session'[t] = session[t], FollowsRuns(s)'
  PROVE  PeriodsKept'
<1>1. today \in Int
  BY ConfirmationAssumption DEF TypeOK, Dates
<1>2. RunsFollow'
  BY <1>1, RunsFollowKept DEF PeriodsKept
<1>3. ASSUME NEW t \in Sessions
      PROVE  FollowsRuns(t)'
  BY <1>1, SessionKept DEF PeriodsKept
<1> QED
  BY <1>2, <1>3 DEF PeriodsKept

(* The computation of the next period. *)
LEMMA ReadRunsFollows ==
  ASSUME LInv, NEW s \in Sessions, ReadRuns(s), session'[s].step = "employees"
  PROVE  FollowsRuns(s)'
<1> DEFINE sch == session[s].source.schedule
           p == NextPeriod(sch, LatestEnd, today)
<1> USE DEF LInv, IInv, PeriodsKept
<1>1. session' = [session EXCEPT ![s].step = "employees", ![s].source.period = p]
      /\ OpenRuns = {} /\ IsClosedPeriod(p, today) /\ p \in Period /\ At(s, "runs")
      /\ UNCHANGED <<today, runs, schedule>>
  BY DEF ReadRuns, Leave, Idle, TypeOK, Blocked, setup, confirmed
<1>2. /\ session'[s].source.period = p /\ session'[s].source.schedule = sch
      /\ session'[s].token = session[s].token
  BY <1>1 DEF TypeOK, Session, Source
<1>3. sch \in Schedule
  BY <1>1 DEF FollowsRuns, At
<1>4. p.first <= p.last /\ p.last < today /\ Starts(sch, p.last + 1)
      /\ (LatestEnd # NoDate /\ Starts(sch, LatestEnd + 1) => p.first = LatestEnd + 1)
  <2> HIDE DEF p
  <2> QED
    BY <1>1, <1>3, LatestEndIs, NextPeriodFollows DEF TypeOK, p
<1>5. ASSUME Confirming(s)
      PROVE  Succeeds(p) /\ Starts(schedule, p.last + 1)
  <2>1. sch = schedule
    BY <1>1, <1>5 DEF LockProtects, Protected, ReadsAreCurrent, At
  <2>2. ASSUME runs # {}
        PROVE  \E r \in runs : Latest(r) /\ p.first = r.source.period.last + 1
    <3>1. PICK r \in runs : Latest(r)
      BY <2>2 DEF RunsFollow
    <3>2. LatestEnd = r.source.period.last /\ LatestEnd # NoDate
          /\ Starts(schedule, LatestEnd + 1)
      BY <1>1, <2>2, <3>1, LatestEndIs DEF TypeOK
    <3> QED
      BY <1>4, <2>1, <3>1, <3>2
  <2> QED
    BY <1>4, <2>1, <2>2 DEF Succeeds
<1>6. Confirming(s)' = Confirming(s) /\ \A q : Succeeds(q)' = Succeeds(q)
  BY <1>1, <1>2 DEF Confirming, Succeeds, Latest
<1> HIDE DEF p
<1> QED
  BY <1>1, <1>2, <1>3, <1>4, <1>5, <1>6 DEF FollowsRuns

(* The other steps of a session before its commit. *)
LEMMA SessionFollows ==
  ASSUME LInv, NEW s \in Sessions, SessionStep(s), ~Commit(s)
  PROVE  PeriodsKept'
<1> USE DEF LInv, IInv
<1>1. /\ UNCHANGED <<today, runs, schedule>>
      /\ \A t \in Sessions \ {s} : session'[t] = session[t]
  BY DEF SessionStep, StartPreview, StartConfirm, LookUpRun, ReadToken, LockOrganization,
         ReadSchedule, ReadRuns, ReadEmployees, ReadSettings, Fail, Leave, Advance,
         TypeOK, setup, confirmed
<1>2. \A p : Succeeds(p)' = Succeeds(p)
  BY <1>1 DEF Succeeds, Latest
<1>3. FollowsRuns(s)
  BY DEF PeriodsKept
<1>4. session'[s].step \in {"idle", "lookup", "token", "lock", "schedule"} => FollowsRuns(s)'
  BY DEF FollowsRuns
<1>5. FollowsRuns(s)'
  <2>1. CASE ReadSchedule(s)
    <3>1. session'[s].step = "runs" /\ session'[s].source.schedule = schedule
      BY <2>1 DEF ReadSchedule, TypeOK, Session, Source
    <3> QED
      BY <1>1, <3>1 DEF FollowsRuns, TypeOK
  <2>2. CASE ReadRuns(s)
    <3>1. session'[s].step \in {"idle", "employees"}
      BY <2>2 DEF ReadRuns, Leave, Idle, TypeOK, Session
    <3> QED
      BY <1>4, <2>2, <3>1, ReadRunsFollows
  <2>3. CASE ReadEmployees(s) \/ ReadSettings(s)
    <3>1. CASE session'[s].step = "idle"
      BY <1>4, <3>1
    <3>2. CASE session'[s].step # "idle"
      <4>1. /\ session[s].step \in {"employees", "settings"}
            /\ session'[s].token = session[s].token
            /\ session'[s].source.schedule = session[s].source.schedule
            /\ session'[s].source.period = session[s].source.period
        <5>1. CASE ReadEmployees(s)
          BY <3>2, <5>1 DEF ReadEmployees, At, Leave, Idle, TypeOK, Session, Source
        <5>2. CASE ReadSettings(s)
          BY <3>2, <5>2 DEF ReadSettings, At, Leave, Idle, TypeOK, Session, Source
        <5> QED
          BY <2>3, <5>1, <5>2
      <4> QED
        BY <1>1, <1>2, <1>3, <4>1 DEF FollowsRuns, Confirming
    <3> QED
      BY <3>1, <3>2
  <2>4. CASE LookUpRun(s) \/ ReadToken(s) \/ LockOrganization(s)
    BY <1>4, <2>4 DEF LookUpRun, ReadToken, LockOrganization, Leave, Advance, Idle, TypeOK,
                      Session
  <2>5. CASE \/ \E a \in Administrators : StartPreview(s, a)
             \/ \E a \in Administrators, t \in Tokens : StartConfirm(s, a, t)
    BY <1>4, <2>5 DEF StartPreview, StartConfirm, Idle, TypeOK, Session
  <2>6. CASE Fail(s)
    BY <1>4, <2>6 DEF Fail, Leave, Idle, TypeOK
  <2> QED
    BY <2>1, <2>2, <2>3, <2>4, <2>5, <2>6 DEF SessionStep
<1> QED
  BY <1>1, <1>5, SessionMoves

(* While nobody holds the lock no confirmation has read the runs. *)
LEMMA NobodyConfirms ==
  ASSUME IInv, NEW s \in Sessions, lock \notin {s}, Confirming(s)
  PROVE  session[s].step \notin LoadSteps \cup {"commit"}
BY DEF IInv, LockProtects, Protected, HoldsTheLock, Holds

(* A change of the schedule. *)
LEMMA ScheduleFollows ==
  ASSUME LInv, NEW f \in Frequencies, NEW d \in StartDates, UpdateSchedule(f, d)
  PROVE  PeriodsKept'
<1> USE DEF LInv
<1>1. /\ lock = Nobody /\ OpenRuns = {} /\ UNCHANGED <<today, runs, session>>
      /\ NewStart(d) \in Dates /\ MayStart(f, NewStart(d))
      /\ schedule' = ScheduleFrom(f, NewStart(d), schedule.version + 1)
      /\ schedule.version + 1 \in 1..MaxSchedules
  BY ConfirmationAssumption
     DEF UpdateSchedule, MayChangeSchedule, confirmed, IInv, TypeOK, Schedule
<1>2. Starts(schedule', NewStart(d))
  BY <1>1, StartsWhereChosen
<1>3. \A r : Latest(r)' = Latest(r)
  BY <1>1 DEF Latest
<1>4. RunsFollow'
  <2>1. SUFFICES ASSUME runs # {}
                 PROVE  \E r \in runs : /\ Latest(r) /\ r.source.period.last < today
                                        /\ Starts(schedule', r.source.period.last + 1)
    BY <1>1, <1>3 DEF RunsFollow, PeriodsKept, Starts
  <2>2. PICK r \in runs : Latest(r) /\ r.source.period.last < today
    BY <2>1 DEF PeriodsKept, RunsFollow
  <2>3. LatestEnd = r.source.period.last /\ LatestEnd # NoDate
    BY <1>1, <2>1, <2>2, LatestEndIs DEF PeriodsKept, IInv, TypeOK
  <2> QED
    BY <1>2, <2>2, <2>3 DEF NewStart
<1>5. ASSUME NEW s \in Sessions
      PROVE  FollowsRuns(s)'
  <2>1. lock # s
    BY <1>1, ConfirmationAssumption
  <2>2. session[s].step \in {"employees", "settings", "commit"} => ~Confirming(s)
    BY <2>1, NobodyConfirms DEF LoadSteps
  <2> QED
    BY <1>1, <2>2 DEF FollowsRuns, PeriodsKept, Confirming
<1> QED
  BY <1>4, <1>5 DEF PeriodsKept

(* The completion of a run. *)
LEMMA CompletionFollows ==
  ASSUME LInv, NEW r \in runs, CompleteRun(r)
  PROVE  PeriodsKept'
<1> USE DEF LInv
<1> DEFINE done == [r EXCEPT !.status = "completed"]
<1>1. /\ UNCHANGED <<today, schedule, session>> /\ runs' = (runs \ {r}) \cup {done}
      /\ done.source = r.source
  BY DEF CompleteRun, setup, IInv, TypeOK, Run
<1>2. /\ \A q \in runs : \E x \in runs' : x.source = q.source
      /\ \A x \in runs' : \E q \in runs : x.source = q.source
  BY <1>1
<1> HIDE DEF done
<1>3. ASSUME NEW q \in runs, NEW x \in runs', x.source = q.source, Latest(q)
      PROVE  Latest(x)'
  BY <1>2, <1>3 DEF Latest
<1>4. RunsFollow'
  BY <1>1, <1>2, <1>3 DEF RunsFollow, PeriodsKept
<1>5. \A p : Succeeds(p) => Succeeds(p)'
  BY <1>2, <1>3 DEF Succeeds
<1> QED
  BY <1>1, <1>4, <1>5 DEF PeriodsKept, FollowsRuns, Confirming

(* The insertion of a run. *)
LEMMA CommitFollows ==
  ASSUME LInv, NEW s \in Sessions, Commit(s)
  PROVE  PeriodsKept'
<1> USE DEF LInv
<1>1. PICK new : /\ UNCHANGED <<today, schedule>> /\ runs' = runs \cup {new}
                  /\ new.source = session[s].source /\ session' = [session EXCEPT ![s] = Idle]
                  /\ session[s].step = "commit"
  BY DEF Commit, setup, At
<1>2. Confirming(s) /\ Holds(s) /\ lock = s
  BY <1>1 DEF IInv, LockProtects, Protected, TokenIsKnown, HoldsTheLock, Holds
<1>3. LET p == session[s].source.period
      IN /\ p \in Period /\ p.first <= p.last /\ p.last < today
         /\ Succeeds(p) /\ Starts(schedule, p.last + 1)
  BY <1>1, <1>2 DEF PeriodsKept, FollowsRuns
<1>4. \A p \in Period : p.first \in Int /\ p.last \in Int
  BY ConfirmationAssumption DEF Period, Dates
<1>5. \A q \in runs : q.source.period \in Period
  BY DEF PeriodsKept, RunsFollow
<1>6. \A q \in runs : q.source.period.last < new.source.period.first
  BY <1>1, <1>3, <1>4, <1>5 DEF Succeeds, Latest
<1>7. Latest(new)'
  BY <1>1, <1>3, <1>4, <1>5, <1>6 DEF Latest
<1>8. RunsFollow'
  BY <1>1, <1>3, <1>5, <1>7 DEF RunsFollow
<1>9. ASSUME NEW t \in Sessions
      PROVE  FollowsRuns(t)'
  <2>1. CASE t = s
    BY <1>1, <2>1 DEF FollowsRuns, Idle, IInv, TypeOK
  <2>2. CASE t # s
    <3>1. session'[t] = session[t]
      BY <1>1, <2>2 DEF IInv, TypeOK
    <3>2. session[t].step \in {"employees", "settings", "commit"} => ~Confirming(t)
      BY <1>2, <2>2, NobodyConfirms DEF LoadSteps
    <3> QED
      BY <1>1, <3>1, <3>2 DEF FollowsRuns, PeriodsKept, Confirming
  <2> QED
    BY <2>1, <2>2
<1> QED
  BY <1>8, <1>9 DEF PeriodsKept

(* Every step keeps the periods in order. *)
LEMMA LInvStep == LInv /\ [Next]_vars => LInv'
<1> SUFFICES ASSUME LInv, [Next]_vars PROVE LInv'
  OBVIOUS
<1>1. IInv'
  BY IInvStep DEF LInv
<1>2. today \in Int /\ today' \in Int
  BY <1>1, ConfirmationAssumption DEF LInv, IInv, TypeOK, Dates
<1>3. ASSUME UNCHANGED <<runs, schedule, session>>, today <= today'
      PROVE  PeriodsKept'
  BY <1>2, <1>3, RunsFollowKept, SessionKept DEF LInv, PeriodsKept
<1>4. PeriodsKept'
  <2>1. CASE \/ Tomorrow
             \/ \E t \in Tokens : Expire(t)
             \/ \E e \in Employees : DeactivateEmployee(e)
             \/ \E e \in Employees : UpdateSelfServiceProfile(e)
             \/ \E e \in Employees : ApproveTimecard(e)
             \/ \E e \in Employees, d \in HireDates : SaveEmployee(e, d)
             \/ \E c \in Savers : SaveStep(c)
             \/ UNCHANGED vars
    <3>1. UNCHANGED <<runs, schedule, session>> /\ today' \in {today, today + 1}
      BY <2>1 DEF Tomorrow, Expire, DeactivateEmployee, UpdateSelfServiceProfile,
                  ApproveTimecard, SaveEmployee, SaveStep, SubmitSetting, FindReceipt,
                  InsertSetting, RejectSetting, EndSave, vars, setup, confirmed
    <3> QED
      BY <1>2, <1>3, <3>1
  <2>2. CASE \E r \in runs : CompleteRun(r)
    BY <2>2, CompletionFollows
  <2>3. CASE \E f \in Frequencies, d \in StartDates : UpdateSchedule(f, d)
    BY <2>3, ScheduleFollows
  <2>4. CASE \E s \in Sessions : SessionStep(s)
    BY <2>4, SessionFollows, CommitFollows
  <2> QED
    BY <2>1, <2>2, <2>3, <2>4 DEF Next
<1> QED
  BY <1>1, <1>4 DEF LInv

(* The invariant holds initially.                                          *)
LEMMA LInvInit == Init => LInv
BY IInvInit, PeriodsInit DEF LInv

(* The periods of the runs stay in order. *)
THEOREM PeriodsInOrder == Spec => []LInv
BY LInvInit, LInvStep, PTL DEF Spec

(* A confirmation that reaches its insertion is not refused: its token has *)
(* no run and its period overlaps no other.                                *)
THEOREM EveryInsertionSucceeds == Spec => []InsertionNeverRefused
<1>1. LInv => InsertionNeverRefused
  <2>1. SUFFICES ASSUME LInv, NEW s \in Sessions, At(s, "commit"), NEW r \in runs
                 PROVE  /\ r.token # session[s].token
                        /\ ~Overlap(r.source.period, session[s].source.period)
    BY DEF InsertionNeverRefused, Insertable
  <2>2. Protected(s) /\ FollowsRuns(s)
    BY <2>1 DEF LInv, IInv, LockProtects, PeriodsKept
  <2>3. Confirming(s) /\ Holds(s)
    BY <2>1, <2>2 DEF Protected, TokenIsKnown, Holds, At
  <2>4. r.token # session[s].token
    BY <2>1, <2>2, <2>3, TokenIsUnused DEF LInv, IInv
  <2>5. Succeeds(session[s].source.period) /\ session[s].source.period \in Period
    BY <2>1, <2>2, <2>3 DEF FollowsRuns, At
  <2>6. \A q \in runs : q.source.period \in Period
    BY <2>1 DEF LInv, PeriodsKept, RunsFollow
  <2>7. r.source.period.last < session[s].source.period.first
    BY <2>1, <2>5, <2>6, ConfirmationAssumption DEF Succeeds, Latest, Period, Dates
  <2> QED
    BY <2>4, <2>5, <2>6, <2>7, ConfirmationAssumption DEF Overlap, Period, Dates
<1> QED
  BY <1>1, PeriodsInOrder, PTL

-----------------------------------------------------------------------------
(***************************************************************************)
(* The refinement: what the ledger shows, holds and has open.              *)
(***************************************************************************)
Offers == {Entry(tokens[t].source) : t \in {u \in Tokens : tokens[u] # NoToken}}
Entries == {Entry(r.source) : r \in runs}
OpenPeriods == {r.source.period : r \in OpenRuns}

(* Initially nothing is shown and nothing entered. *)
LEMMA LedgerInit == Init => Ledger!Init
BY DEF Init, Ledger!Init, OpenRuns

(* A token is an offer of a period that has ended. *)
LEMMA IssueOffers ==
  ASSUME LInv, NEW s \in Sessions, ReadSettings(s), tokens' # tokens
  PROVE  Ledger!Offer
<1> USE DEF LInv, IInv
<1> DEFINE source == [session[s].source EXCEPT !.pays = Pays(session[s].source)]
<1>1. PICK t \in Tokens :
        /\ tokens[t] = NoToken
        /\ tokens' = [tokens EXCEPT ![t] = [actor |-> session[s].actor, source |-> source]]
  BY DEF ReadSettings, Leave
<1>2. UNCHANGED <<today, runs>>
  BY DEF ReadSettings, Leave, confirmed
<1>3. source.period = session[s].source.period
  BY DEF TypeOK, Session, Source
<1>4. source.period.first <= source.period.last /\ source.period.last < today
  BY <1>3 DEF ReadSettings, At, PeriodsKept, FollowsRuns
<1>5. tokens'[t].source = source /\ \A u \in Tokens \ {t} : tokens'[u] = tokens[u]
  BY <1>1 DEF TypeOK
<1> HIDE DEF source
<1>6. Offers \subseteq Offers'
  BY <1>1, <1>5 DEF Offers, Entry
<1>7. ASSUME NEW o \in Offers' \ Offers
      PROVE  o.period = source.period
  <2>1. PICK u \in Tokens : tokens'[u] # NoToken /\ o = Entry(tokens'[u].source)
    BY <1>7 DEF Offers, Entry
  <2>2. u = t
    BY <1>5, <1>7, <2>1 DEF Offers
  <2> QED
    BY <1>5, <2>1, <2>2 DEF Entry
<1>8. UNCHANGED <<Entries, OpenPeriods>>
  BY <1>2 DEF Entries, OpenPeriods, OpenRuns, Entry
<1> QED
  BY <1>2, <1>4, <1>6, <1>7, <1>8 DEF Ledger!Offer, Offers, Entries, OpenPeriods

(* A commit enters the offer of its token. *)
LEMMA CommitEnters ==
  ASSUME LInv, NEW s \in Sessions, Commit(s)
  PROVE  Ledger!Enter
<1> USE DEF LInv, IInv
<1>1. PICK new : /\ runs' = runs \cup {new} /\ new.source = session[s].source
                 /\ new.status = "open" /\ UNCHANGED <<today, tokens>>
                 /\ session[s].step = "commit"
  BY DEF Commit, setup, At
<1>2. Protected(s) /\ FollowsRuns(s)
  BY DEF LockProtects, PeriodsKept
<1>3. Confirming(s)
  BY <1>1, <1>2 DEF Protected, TokenIsKnown
<1> DEFINE token == session[s].token
           source == session[s].source
<1>4. token \in Tokens /\ tokens[token] # NoToken /\ tokens[token].source = source
  <2>1. token \in Tokens \cup {Nobody}
    BY DEF TypeOK, Session
  <2> QED
    BY <1>1, <1>2, <1>3, <2>1, NoTokenIsNone
       DEF Confirming, Protected, TokenIsKnown, ReadsAreCurrent
<1>5. OpenRuns = {}
  BY <1>1, <1>2, <1>3 DEF Protected, ReadsAreCurrent
<1>6. /\ source.period \in Period /\ source.period.last < today
      /\ Succeeds(source.period)
  BY <1>1, <1>2, <1>3 DEF FollowsRuns
<1>7. \A q \in runs : q.source.period \in Period
  BY DEF PeriodsKept, RunsFollow
<1> HIDE DEF token, source
<1>8. Entry(source) \in Offers /\ Entry(source).period = source.period
  BY <1>4 DEF Offers, Entry
<1>9. Entries' = Entries \cup {Entry(source)}
  BY <1>1 DEF Entries, Entry, source
<1>10. OpenPeriods' = {source.period}
  <2>1. OpenRuns' = {new}
    BY <1>1, <1>5 DEF OpenRuns
  <2> QED
    BY <1>1, <2>1 DEF OpenPeriods, source
<1>11. \A e \in Entries : e.period.last < source.period.first
  BY <1>6, <1>7, ConfirmationAssumption DEF Entries, Entry, Succeeds, Latest, Period, Dates
<1>12. Entries # {} => \E e \in Entries : e.period.last + 1 = source.period.first
  <2>1. SUFFICES ASSUME runs # {}
                 PROVE  \E e \in Entries : e.period.last + 1 = source.period.first
    BY DEF Entries
  <2>2. PICK r \in runs : source.period.first = r.source.period.last + 1
    BY <1>6, <2>1 DEF Succeeds
  <2>3. Entry(r.source) \in Entries /\ Entry(r.source).period = r.source.period
    BY DEF Entries, Entry
  <2> QED
    BY <2>2, <2>3
<1>13. OpenPeriods = {} /\ UNCHANGED <<today, Offers>>
  BY <1>1, <1>5 DEF OpenPeriods, Offers, Entry
<1> QED
  BY <1>6, <1>8, <1>9, <1>10, <1>11, <1>12, <1>13
     DEF Ledger!Enter, Offers, Entries, OpenPeriods

(* The completion of a run settles the ledger. *)
LEMMA CompletionSettles ==
  ASSUME LInv, NEW r \in runs, CompleteRun(r)
  PROVE  Ledger!Settle
<1> USE DEF LInv, IInv
<1>1. PICK done : /\ runs' = (runs \ {r}) \cup {done} /\ done.source = r.source
                  /\ done.status = "completed" /\ r.status = "open"
                  /\ UNCHANGED <<today, tokens>>
  <2>1. r \in Run
    BY DEF TypeOK
  <2>2. /\ [r EXCEPT !.status = "completed"].source = r.source
        /\ [r EXCEPT !.status = "completed"].status = "completed"
    BY <2>1 DEF Run
  <2> QED
    BY <2>2 DEF CompleteRun, setup
<1>2. Entries' = Entries
  BY <1>1 DEF Entries, Entry
<1>3. OpenRuns = {r}
  BY <1>1 DEF OneOpenRun, OpenRuns
<1>4. OpenRuns' = {}
  BY <1>1, <1>3 DEF OpenRuns
<1>5. OpenPeriods # {} /\ OpenPeriods' = {} /\ Offers' = Offers
  BY <1>1, <1>3, <1>4 DEF OpenPeriods, Offers, Entry
<1> QED
  BY <1>1, <1>2, <1>5 DEF Ledger!Settle, Offers, Entries, OpenPeriods

(* Every step is a step of the ledger or leaves it alone. *)
LEMMA LedgerStep == LInv /\ [Next]_vars => [Ledger!Next]_(Ledger!vars)
<1> SUFFICES ASSUME LInv, [Next]_vars PROVE [Ledger!Next]_(Ledger!vars)
  OBVIOUS
<1>1. ASSUME UNCHANGED <<today, tokens, runs>>
      PROVE  UNCHANGED Ledger!vars
  BY <1>1 DEF Ledger!vars, OpenRuns, Entry
<1>2. CASE \/ \E t \in Tokens : Expire(t)
           \/ \E e \in Employees : DeactivateEmployee(e)
           \/ \E e \in Employees : UpdateSelfServiceProfile(e)
           \/ \E e \in Employees : ApproveTimecard(e)
           \/ \E e \in Employees, d \in HireDates : SaveEmployee(e, d)
           \/ \E f \in Frequencies, d \in StartDates : UpdateSchedule(f, d)
           \/ \E c \in Savers : SaveStep(c)
           \/ UNCHANGED vars
  <2>1. UNCHANGED <<today, tokens, runs>>
    BY <1>2 DEF Expire, DeactivateEmployee, UpdateSelfServiceProfile, ApproveTimecard,
                SaveEmployee, UpdateSchedule, SaveStep, SubmitSetting, FindReceipt,
                InsertSetting, RejectSetting, EndSave, vars, setup, confirmed
  <2> QED
    BY <1>1, <2>1
<1>3. CASE Tomorrow
  BY <1>3 DEF Tomorrow, Ledger!Next, Ledger!Tomorrow, confirmed, OpenRuns, Entry
<1>4. CASE \E r \in runs : CompleteRun(r)
  BY <1>4, CompletionSettles DEF Ledger!Next
<1>5. ASSUME NEW s \in Sessions, SessionStep(s)
      PROVE  [Ledger!Next]_(Ledger!vars)
  <2>1. CASE Commit(s)
    BY <2>1, CommitEnters DEF Ledger!Next
  <2>2. CASE ReadSettings(s)
    <3>1. UNCHANGED <<today, runs>>
      BY <2>2 DEF ReadSettings, Leave, confirmed
    <3> QED
      BY <1>1, <2>2, <3>1, IssueOffers DEF Ledger!Next
  <2>3. CASE ~Commit(s) /\ ~ReadSettings(s)
    <3>1. UNCHANGED <<today, tokens, runs>>
      BY <1>5, <2>3 DEF SessionStep, StartPreview, StartConfirm, LookUpRun, ReadToken,
                LockOrganization, ReadSchedule, ReadRuns, ReadEmployees, Fail, Leave,
                Advance, confirmed
    <3> QED
      BY <1>1, <3>1
  <2> QED
    BY <2>1, <2>2, <2>3
<1> QED
  BY <1>2, <1>3, <1>4, <1>5 DEF Next

(* The runs are a ledger of periods: previews offer, confirmations enter   *)
(* an offer after the last entry, completions settle it, and nothing else  *)
(* touches it, for every calendar and however all of them overlap.         *)
THEOREM RunsAreALedger == Spec => ImplementsLedger
<1>1. Init => Ledger!Init
  BY LedgerInit
<1>2. LInv /\ [Next]_vars => [Ledger!Next]_(Ledger!vars)
  BY LedgerStep
<1> QED
  BY <1>1, <1>2, PeriodsInOrder, PTL DEF Spec, ImplementsLedger, Ledger!Spec
(***************************************************************************)
(* Requests that are repeated.                                             *)
(***************************************************************************)
(* A pay setting request is not sent again while it is being carried out.  *)
RepeatsWait ==
  \A c, d \in Savers :
    c # d /\ save[c] # Nobody /\ save[d] # Nobody =>
      save[c].form.request # save[d].form.request

(* A request that has passed the look for its receipt has none.            *)
PassedWithoutReceipt ==
  \A c \in Savers : AtSaveStep(c, "insert") \/ AtSaveStep(c, "rejected") =>
    \A r \in receipts : r.request # save[c].form.request

(* What the steps of a request do to it and to the receipts.               *)
LEMMA RequestMoves ==
  ASSUME TypeOK, PassedWithoutReceipt, RepeatsWait, NEW c \in Savers, SaveStep(c)
  PROVE  PassedWithoutReceipt'
<1>1. save \in [Savers -> Save]
  BY DEF TypeOK
<1>2. CASE \E form \in Form : SubmitSetting(c, form)
  <2>1. PICK form \in Form : SubmitSetting(c, form)
    BY <1>2
  <2>2. /\ save'[c].step = "receipt" /\ receipts' = receipts
        /\ \A d \in Savers \ {c} : save'[d] = save[d]
    BY <1>1, <2>1 DEF SubmitSetting, setup
  <2> QED
    BY <2>2 DEF PassedWithoutReceipt, AtSaveStep
<1>3. CASE FindReceipt(c)
  <2>1. /\ receipts' = receipts /\ \A d \in Savers \ {c} : save'[d] = save[d]
        /\ \/ save'[c] = Nobody
           \/ /\ save'[c].form = save[c].form
              /\ \A r \in receipts : r.request # save[c].form.request
    BY <1>1, <1>3 DEF FindReceipt, AtSaveStep, setup, Save
  <2> QED
    BY <2>1 DEF PassedWithoutReceipt, AtSaveStep
<1>4. CASE InsertSetting(c)
  <2>1. /\ receipts' = receipts \cup {save[c].form} /\ save[c] # Nobody
        /\ save'[c] = Nobody /\ \A d \in Savers \ {c} : save'[d] = save[d]
    BY <1>1, <1>4 DEF InsertSetting, AtSaveStep
  <2> QED
    BY <2>1 DEF PassedWithoutReceipt, AtSaveStep, RepeatsWait
<1>5. CASE RejectSetting(c)
  <2>1. /\ receipts' = receipts /\ \A d \in Savers \ {c} : save'[d] = save[d]
        /\ AtSaveStep(c, "insert") /\ save'[c].form = save[c].form
    BY <1>1, <1>5 DEF RejectSetting, AtSaveStep, setup, Save
  <2> QED
    BY <2>1 DEF PassedWithoutReceipt, AtSaveStep
<1>6. CASE EndSave(c)
  <2>1. /\ receipts' = receipts /\ \A d \in Savers \ {c} : save'[d] = save[d]
        /\ save'[c] = Nobody
    BY <1>1, <1>6 DEF EndSave, setup
  <2> QED
    BY <2>1 DEF PassedWithoutReceipt, AtSaveStep
<1> QED
  BY <1>2, <1>3, <1>4, <1>5, <1>6 DEF SaveStep

(* Nothing but the requests touches them or the receipts.                  *)
LEMMA PassedKept ==
  TypeOK /\ PassedWithoutReceipt /\ RepeatsWait /\ [Next]_vars => PassedWithoutReceipt'
<1> SUFFICES ASSUME TypeOK, PassedWithoutReceipt, RepeatsWait, [Next]_vars
             PROVE  PassedWithoutReceipt'
  OBVIOUS
<1>1. CASE \E c \in Savers : SaveStep(c)
  BY <1>1, RequestMoves
<1>2. ASSUME UNCHANGED <<save, receipts>> PROVE PassedWithoutReceipt'
  BY <1>2 DEF PassedWithoutReceipt, AtSaveStep
<1>3. CASE \/ UNCHANGED vars \/ Tomorrow
           \/ \E t \in Tokens : Expire(t)
           \/ \E r \in runs : CompleteRun(r)
           \/ \E e \in Employees : DeactivateEmployee(e)
           \/ \E e \in Employees : UpdateSelfServiceProfile(e)
           \/ \E e \in Employees : ApproveTimecard(e)
           \/ \E e \in Employees, d \in HireDates : SaveEmployee(e, d)
           \/ \E f \in Frequencies, d \in StartDates : UpdateSchedule(f, d)
  <2>1. UNCHANGED <<save, receipts>>
    BY <1>3 DEF vars, setup, Tomorrow, Expire, CompleteRun, DeactivateEmployee,
                UpdateSelfServiceProfile, ApproveTimecard, SaveEmployee, UpdateSchedule
  <2> QED
    BY <1>2, <2>1
<1>4. ASSUME NEW s \in Sessions, SessionStep(s) PROVE PassedWithoutReceipt'
  <2>1. UNCHANGED <<save, receipts>>
    BY <1>4 DEF SessionStep, setup, StartPreview, StartConfirm, LookUpRun, ReadToken,
                LockOrganization, ReadSchedule, ReadRuns, ReadEmployees, ReadSettings,
                Commit, Fail, Leave, Advance
  <2> QED
    BY <1>2, <2>1
<1> QED
  BY <1>1, <1>3, <1>4 DEF Next

(* A pay setting request that repeats one already carried out is answered  *)
(* with its result, unless it was sent while the first one was still being *)
(* carried out: the run that violates ReplayIsAnswered needs two of the    *)
(* same request at once, whatever else happens.                            *)
THEOREM OnlyConcurrentRepeatsAreRejected ==
  Spec /\ []RepeatsWait => []ReplayIsAnswered
<1>1. Init => PassedWithoutReceipt
  BY DEF Init, PassedWithoutReceipt, AtSaveStep
<1>2. TypeOK /\ PassedWithoutReceipt => ReplayIsAnswered
  BY DEF PassedWithoutReceipt, ReplayIsAnswered
<1> QED
  BY <1>1, <1>2, PassedKept, TypeCorrect, PTL DEF Spec
(***************************************************************************)
(* Settings that a payroll can use.                                        *)
(***************************************************************************)
(* A change of the schedule leaves the calendar of its periods alone.      *)
CalendarStays ==
  schedule'.frequency = schedule.frequency /\ schedule'.anchor = schedule.anchor

(* The settings, and those about to become one, are of the schedule.       *)
SettingsFit ==
  /\ \A e \in Employees : \A x \in settings[e] :
        Aligned(x.effective) /\ x.frequency = schedule.frequency
  /\ \A c \in Savers : save[c] # Nobody =>
        Aligned(save[c].form.effective) /\ save[c].frequency = schedule.frequency

(* The period to be paid next is the period of each of its days.           *)
LEMMA NextPeriodIsWhole ==
  ASSUME NEW sch \in Schedule, NEW d \in Dates, NEW e \in Dates \cup {NoDate},
         NEW p \in Period, p = NextPeriod(sch, e, d)
  PROVE  \A x \in Int : p.first <= x /\ x <= p.last => PeriodContaining(sch, x) = p
<1> USE CalendarAssumption
<1>1. ASSUME NEW x \in Near, p = PeriodContaining(sch, x)
      PROVE  \A y \in Int : p.first <= y /\ y <= p.last => PeriodContaining(sch, y) = p
  BY <1>1, PeriodsFollow
<1>2. CASE e # NoDate
  <2>1. p = PeriodContaining(sch, e + 1)
    BY <1>2 DEF NextPeriod
  <2>2. e + 1 \in Near
    BY <1>2 DEF Dates, Near
  <2> QED
    BY <1>1, <2>1, <2>2
<1>3. CASE e = NoDate
  <2> DEFINE y == PeriodContaining(sch, d - 1)
             z == PeriodContaining(sch, y.first - 1)
  <2>0. NoPeriod \notin Period
    BY DEF NoPeriod, Period, Dates, NoDate
  <2>1. p \in {y, z, PeriodContaining(sch, sch.effectiveStart)}
    BY <1>3, <2>0 DEF NextPeriod
  <2>2. d - 1 \in Near /\ sch.effectiveStart \in Near
    BY DEF Dates, Near, Schedule
  <2>3. CASE p = z
    <3>1. Follows(y, d - 1, z, PeriodContaining(sch, y.last + 1))
      BY <2>2, PeriodsFollow
    <3>2. y.first \in Int /\ z.last = y.first - 1
      BY <3>1 DEF Follows
    <3>3. y.first - 1 \in Near
      BY <2>3, <3>2 DEF Period, Dates, Near
    <3> HIDE DEF y
    <3> QED
      BY <1>1, <2>3, <3>3
  <2> HIDE DEF z
  <2>4. CASE p = y
    BY <1>1, <2>2, <2>4
  <2> HIDE DEF y
  <2>5. CASE p = PeriodContaining(sch, sch.effectiveStart)
    BY <1>1, <2>2, <2>5
  <2> QED
    BY <2>1, <2>3, <2>4, <2>5
<1> QED
  BY <1>2, <1>3

(* A setting of the schedule that meets a period of it covers the period.  *)
LEMMA FittingCovers ==
  ASSUME NEW p \in Period, NEW f \in Ranges, Aligned(f), Overlap(f, p),
         \A x \in Int : p.first <= x /\ x <= p.last => PeriodContaining(schedule, x) = p
  PROVE  Covers(f, p)
<1> USE ConfirmationAssumption
<1>1. /\ p.first \in Int /\ p.last \in Int /\ p.last <= MaxDay
      /\ f.first \in Int /\ f.last \in Int
      /\ f.first <= p.last /\ p.first <= f.last
  BY DEF Period, Dates, Ongoing, Overlap
<1>2. f.first <= p.first
  <2>1. CASE p.first <= f.first
    <3>1. PeriodContaining(schedule, f.first) = p
      BY <1>1, <2>1
    <3> QED
      BY <1>1, <3>1 DEF Aligned
  <2> QED
    BY <1>1, <2>1
<1>3. p.last <= f.last
  <2>1. CASE f.last = Ongoing
    BY <1>1, <2>1 DEF Ongoing
  <2>2. CASE f.last # Ongoing /\ f.last <= p.last
    <3>1. PeriodContaining(schedule, f.last) = p
      BY <1>1, <2>2
    <3> QED
      BY <1>1, <2>2, <3>1 DEF Aligned
  <2> QED
    BY <1>1, <2>1, <2>2
<1> QED
  BY <1>2, <1>3 DEF Covers

(* So where every setting is of the schedule, one that meets the next      *)
(* period can be used for it.                                              *)
LEMMA FittingCanBeUsed ==
  LInv /\ SettingsFit => MissingSettingCanBeSupplied
<1> SUFFICES ASSUME LInv, SettingsFit,
                    NEW p \in Period, p = NextPeriod(schedule, LatestEnd, today),
                    OpenRuns = {}, NEW e \in Employees, NEW x \in settings[e],
                    Overlap(x.effective, p)
             PROVE  Usable(e, [NoSource EXCEPT !.schedule = schedule, !.period = p]) # {}
  BY DEF MissingSettingCanBeSupplied
<1>1. /\ schedule \in Schedule /\ today \in Dates /\ x.effective \in Ranges
  BY DEF LInv, IInv, TypeOK, Setting
<1>2. LatestEnd \in Dates \cup {NoDate}
  BY <1>1, LatestEndIs DEF LInv, PeriodsKept
<1>3. PICK end \in Dates \cup {NoDate} : end = LatestEnd
  BY <1>2
<1>4. \A n \in Int : p.first <= n /\ n <= p.last => PeriodContaining(schedule, n) = p
  BY <1>1, <1>3, NextPeriodIsWhole
<1>5. Aligned(x.effective) /\ x.frequency = schedule.frequency
  BY DEF SettingsFit
<1>6. Covers(x.effective, p)
  BY <1>1, <1>4, <1>5, FittingCovers
<1>7. /\ [NoSource EXCEPT !.schedule = schedule, !.period = p].schedule = schedule
      /\ [NoSource EXCEPT !.schedule = schedule, !.period = p].period = p
  BY DEF NoSource
<1> QED
  BY <1>5, <1>6, <1>7 DEF Usable

(* Whether a range fits depends on the calendar alone.                     *)
LEMMA FitsTheCalendar ==
  ASSUME CalendarStays, NEW f, Aligned(f)
  PROVE  Aligned(f)'
<1>1. \A d : PeriodContaining(schedule', d) = PeriodContaining(schedule, d)
  BY DEF CalendarStays, PeriodContaining
<1> QED
  BY <1>1 DEF Aligned

(* A request brings a setting of the schedule, as it was when it was sent. *)
LEMMA RequestsFit ==
  ASSUME TypeOK, SettingsFit, CalendarStays, NEW c \in Savers, SaveStep(c)
  PROVE  SettingsFit'
<1>0. save \in [Savers -> Save] /\ settings \in [Employees -> SUBSET Setting]
  BY DEF TypeOK
<1>1. schedule' = schedule
  BY DEF SaveStep, SubmitSetting, FindReceipt, InsertSetting, RejectSetting, EndSave, setup
<1>2. \A f : Aligned(f)' = Aligned(f)
  BY <1>1 DEF Aligned
<1>3. CASE \E form \in Form : SubmitSetting(c, form)
  <2>1. PICK form \in Form : SubmitSetting(c, form)
    BY <1>3
  <2>2. /\ settings' = settings /\ Aligned(form.effective)
        /\ save'[c].form = form /\ save'[c].frequency = schedule.frequency
        /\ \A d \in Savers \ {c} : save'[d] = save[d]
    BY <1>0, <2>1 DEF SubmitSetting, setup
  <2> QED
    BY <1>1, <1>2, <2>2 DEF SettingsFit
<1>4. CASE FindReceipt(c) \/ RejectSetting(c) \/ EndSave(c)
  <2>1. /\ settings' = settings
        /\ \A d \in Savers \ {c} : save'[d] = save[d]
        /\ \/ save'[c] = Nobody
           \/ /\ save[c] # Nobody
              /\ save'[c].form = save[c].form /\ save'[c].frequency = save[c].frequency
    BY <1>0, <1>4 DEF FindReceipt, RejectSetting, EndSave, AtSaveStep, setup, Save
  <2> QED
    BY <1>1, <1>2, <2>1 DEF SettingsFit
<1>5. CASE InsertSetting(c)
  <2>1. PICK x : /\ x.effective = save[c].form.effective /\ x.frequency = save[c].frequency
                 /\ \A e \in Employees : settings'[e] \subseteq settings[e] \cup {x}
    BY <1>0, <1>5 DEF InsertSetting
  <2>2. /\ save[c] # Nobody /\ save'[c] = Nobody
        /\ \A d \in Savers \ {c} : save'[d] = save[d]
    BY <1>0, <1>5 DEF InsertSetting, AtSaveStep
  <2>3. \A e \in Employees : \A y \in settings'[e] :
           Aligned(y.effective) /\ y.frequency = schedule.frequency
    BY <2>1, <2>2 DEF SettingsFit
  <2> QED
    BY <1>1, <1>2, <2>2, <2>3 DEF SettingsFit
<1> QED
  BY <1>3, <1>4, <1>5 DEF SaveStep

(* Nothing else touches the settings or the requests.                      *)
LEMMA FitKept ==
  TypeOK /\ SettingsFit /\ [Next]_vars /\ [CalendarStays]_vars => SettingsFit'
<1> SUFFICES ASSUME TypeOK, SettingsFit, [Next]_vars, CalendarStays
             PROVE  SettingsFit'
  BY DEF CalendarStays, vars, setup
<1>1. CASE \E c \in Savers : SaveStep(c)
  BY <1>1, RequestsFit
<1>2. ASSUME UNCHANGED <<save, settings>> PROVE SettingsFit'
  <2>1. \A f : Aligned(f) => Aligned(f)'
    BY FitsTheCalendar
  <2> QED
    BY <1>2, <2>1 DEF SettingsFit, CalendarStays
<1>3. CASE \/ UNCHANGED vars \/ Tomorrow
           \/ \E t \in Tokens : Expire(t)
           \/ \E r \in runs : CompleteRun(r)
           \/ \E e \in Employees : DeactivateEmployee(e)
           \/ \E e \in Employees : UpdateSelfServiceProfile(e)
           \/ \E e \in Employees : ApproveTimecard(e)
           \/ \E e \in Employees, d \in HireDates : SaveEmployee(e, d)
           \/ \E f \in Frequencies, d \in StartDates : UpdateSchedule(f, d)
  <2>1. UNCHANGED <<save, settings>>
    BY <1>3 DEF vars, setup, Tomorrow, Expire, CompleteRun, DeactivateEmployee,
                UpdateSelfServiceProfile, ApproveTimecard, SaveEmployee, UpdateSchedule
  <2> QED
    BY <1>2, <2>1
<1>4. ASSUME NEW s \in Sessions, SessionStep(s) PROVE SettingsFit'
  <2>1. UNCHANGED <<save, settings>>
    BY <1>4 DEF SessionStep, setup, StartPreview, StartConfirm, LookUpRun, ReadToken,
                LockOrganization, ReadSchedule, ReadRuns, ReadEmployees, ReadSettings,
                Commit, Fail, Leave, Advance
  <2> QED
    BY <1>2, <2>1
<1> QED
  BY <1>1, <1>3, <1>4 DEF Next

(* A missing pay setting can be supplied as long as changes of the         *)
(* schedule keep the frequency and the anchor: the run that violates       *)
(* MissingSettingCanBeSupplied needs a change of the calendar under the    *)
(* settings that were made for the old one.                                *)
THEOREM OnlyAChangedCalendarShutsOut ==
  Spec /\ [][CalendarStays]_vars => []MissingSettingCanBeSupplied
<1>1. Init => SettingsFit
  BY DEF Init, SettingsFit
<1>2. LInv => TypeOK
  BY DEF LInv, IInv
<1> QED
  BY <1>1, <1>2, FittingCanBeUsed, FitKept, PeriodsInOrder, PTL DEF Spec
=============================================================================
