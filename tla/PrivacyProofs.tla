----------------------------- MODULE PrivacyProofs -----------------------------
(***************************************************************************)
(* Proofs about Privacy, for any number of subjects, executions, rows and  *)
(* requests, and any batch size.                                           *)
(*                                                                         *)
(* The argument: what an execution knows of the holds is out of date only  *)
(* by those it remembers to have missed (MissesKnown); it deletes rows of  *)
(* its request's subject only (DeletesOwn); and since it looks for rows    *)
(* that remain after it deleted, what there is of the subject when it      *)
(* completes the request was recorded after it began (LooksWell).          *)
(***************************************************************************)
EXTENDS PrivacyProperties, NumberLemmas, FiniteSetTheorems

-----------------------------------------------------------------------------
(***************************************************************************)
(* The inductive invariant.                                                *)
(***************************************************************************)
RequestRow == [subject : Subjects, status : RequestStatuses, old : BOOLEAN]
Execution == [pc : ExecutionPcs, heldKeys : SUBSET Subjects,
              queue : SUBSET DOMAIN requests, locked : BOOLEAN,
              deleted : SUBSET Rows, began : 0..MaxRows,
              remains : BOOLEAN, outrun : SUBSET Subjects]

(* After the first transaction an execution is at a request.               *)
HasRequest(w) == exec[w].pc \notin {"idle", "sweep"} => exec[w].queue # {}

(* What it deletes, before the commit, is rows of the subject.             *)
DeletesOwn(w) ==
  \A r \in exec[w].deleted : exec[w].pc \in {"look", "finish"} /\ r.subject = Subject(w)

(* A hold it has not read is one it remembers to have missed.              *)
MissesKnown(w) ==
  /\ exec[w].pc = "sweep" => held \subseteq exec[w].heldKeys \cup exec[w].outrun
  /\ exec[w].pc \in {"delete", "look", "finish"} /\ Subject(w) \in held =>
       Subject(w) \in exec[w].outrun

(* Rows recorded after it began have greater identifiers; once none remain *)
(* those are all that the subject has.                                     *)
LooksWell(w) ==
  /\ exec[w].began <= written
  /\ exec[w].pc = "finish" /\ ~exec[w].remains =>
       \A r \in rows \ exec[w].deleted : r.subject = Subject(w) => r.id > exec[w].began

Sound(w) == HasRequest(w) /\ DeletesOwn(w) /\ MissesKnown(w) /\ LooksWell(w)

PInv == PrivacyTypeOK /\ \A w \in Executions : Sound(w)

-----------------------------------------------------------------------------
(* Before its first request and after its last an execution is at none.    *)
LEMMA RemainingTyped ==
  ASSUME NEW P \in SUBSET DOMAIN requests
  PROVE  /\ NoExecution \in Execution /\ NoExecution.pc = "idle"
         /\ NoExecution.deleted = {} /\ NoExecution.began = 0
         /\ Remaining(P) \in Execution /\ Remaining(P).deleted = {} /\ Remaining(P).began = 0
         /\ \/ Remaining(P).pc = "idle"
            \/ Remaining(P).pc = "next" /\ Remaining(P).queue # {}
<1>1. NoExecution \in Execution
  BY PrivacyAssumption DEF NoExecution, Execution, ExecutionPcs
<1>2. [NoExecution EXCEPT !.pc = "next", !.queue = P] \in Execution
  BY <1>1 DEF Execution, ExecutionPcs
<1>3. /\ [NoExecution EXCEPT !.pc = "next", !.queue = P].pc = "next"
      /\ [NoExecution EXCEPT !.pc = "next", !.queue = P].queue = P
      /\ [NoExecution EXCEPT !.pc = "next", !.queue = P].deleted = {}
      /\ [NoExecution EXCEPT !.pc = "next", !.queue = P].began = 0
  BY DEF NoExecution
<1>4. NoExecution.pc = "idle" /\ NoExecution.deleted = {} /\ NoExecution.began = 0
  BY DEF NoExecution
<1> QED
  BY <1>1, <1>2, <1>3, <1>4 DEF Remaining

(* The request an execution is at.                                         *)
LEMMA RequestIs ==
  ASSUME PrivacyTypeOK, NEW w \in Executions, exec[w].queue # {}
  PROVE  /\ Request(w) \in exec[w].queue /\ Request(w) \in DOMAIN requests
         /\ requests[Request(w)] \in RequestRow /\ Subject(w) \in Subjects
<1>1. exec[w].queue \in SUBSET DOMAIN requests /\ requests \in Seq(RequestRow)
  BY DEF PrivacyTypeOK, RequestRow
<1>2. exec[w].queue \in SUBSET Int /\ Len(requests) \in Int
      /\ \A x \in exec[w].queue : x <= Len(requests)
  BY <1>1
<1>3. Request(w) \in exec[w].queue
  BY <1>2, LargestOf DEF Request
<1>4. requests[Request(w)] \in RequestRow
  BY <1>1, <1>3
<1> QED
  BY <1>1, <1>3, <1>4 DEF Subject, RequestRow

(* A change of status.                                                     *)
LEMMA StatusSet ==
  ASSUME requests \in Seq(RequestRow), NEW k, NEW status \in RequestStatuses
  PROVE  /\ SetStatus(k, status) \in Seq(RequestRow)
         /\ DOMAIN SetStatus(k, status) = DOMAIN requests
         /\ \A j \in DOMAIN requests :
              /\ SetStatus(k, status)[j].subject = requests[j].subject
              /\ SetStatus(k, status)[j].status =
                   IF j = k THEN status ELSE requests[j].status
<1>1. \A j \in DOMAIN requests : requests[j] \in RequestRow
  OBVIOUS
<1>2. \A x \in RequestRow : /\ [x EXCEPT !.status = status] \in RequestRow
                            /\ [x EXCEPT !.status = status].subject = x.subject
                            /\ [x EXCEPT !.status = status].status = status
  BY DEF RequestRow
<1>3. DOMAIN SetStatus(k, status) = DOMAIN requests
      /\ \A j \in DOMAIN requests :
           SetStatus(k, status)[j] = IF j = k THEN [requests[j] EXCEPT !.status = status]
                                     ELSE requests[j]
  BY DEF SetStatus
<1>4. SetStatus(k, status) \in Seq(RequestRow)
  <2>1. SetStatus(k, status) = [j \in 1..Len(requests) |->
          IF j = k THEN [requests[j] EXCEPT !.status = status] ELSE requests[j]]
    BY DEF SetStatus
  <2>2. \A j \in 1..Len(requests) : IF j = k THEN [requests[j] EXCEPT !.status = status] \in RequestRow
                                             ELSE requests[j] \in RequestRow
    BY <1>1, <1>2
  <2> QED
    BY <2>1, <2>2
<1> QED
  BY <1>1, <1>2, <1>3, <1>4

(* The updates of an execution.                                            *)
LEMMA ExecUpdates ==
  ASSUME exec \in [Executions -> Execution], NEW w \in Executions
  PROVE  /\ \A x \in Execution : [exec EXCEPT ![w] = x] \in [Executions -> Execution]
         /\ \A pc \in ExecutionPcs :
              /\ [exec EXCEPT ![w].pc = pc] \in [Executions -> Execution]
              /\ \A S \in SUBSET Subjects :
                   [exec EXCEPT ![w].pc = pc, ![w].heldKeys = S] \in [Executions -> Execution]
              /\ \A n \in 0..MaxRows :
                   [exec EXCEPT ![w].began = n, ![w].pc = pc] \in [Executions -> Execution]
              /\ \A b \in BOOLEAN :
                   /\ [exec EXCEPT ![w].pc = pc, ![w].locked = b] \in [Executions -> Execution]
                   /\ [exec EXCEPT ![w].pc = pc, ![w].remains = b] \in [Executions -> Execution]
                   /\ \A D \in SUBSET Rows :
                        [exec EXCEPT ![w].pc = pc, ![w].locked = b, ![w].deleted = D]
                           \in [Executions -> Execution]
              /\ \A D \in SUBSET Rows :
                   [exec EXCEPT ![w].pc = pc, ![w].deleted = D] \in [Executions -> Execution]
<1>1. \A x \in Execution : [exec EXCEPT ![w] = x] \in [Executions -> Execution]
  OBVIOUS
<1>2. SUFFICES ASSUME NEW pc \in ExecutionPcs
               PROVE  /\ [exec EXCEPT ![w].pc = pc] \in [Executions -> Execution]
                      /\ \A S \in SUBSET Subjects :
                           [exec EXCEPT ![w].pc = pc, ![w].heldKeys = S] \in [Executions -> Execution]
                      /\ \A n \in 0..MaxRows :
                           [exec EXCEPT ![w].began = n, ![w].pc = pc] \in [Executions -> Execution]
                      /\ \A b \in BOOLEAN :
                           /\ [exec EXCEPT ![w].pc = pc, ![w].locked = b] \in [Executions -> Execution]
                           /\ [exec EXCEPT ![w].pc = pc, ![w].remains = b] \in [Executions -> Execution]
                           /\ \A D \in SUBSET Rows :
                                [exec EXCEPT ![w].pc = pc, ![w].locked = b, ![w].deleted = D]
                                  \in [Executions -> Execution]
                      /\ \A D \in SUBSET Rows :
                           [exec EXCEPT ![w].pc = pc, ![w].deleted = D] \in [Executions -> Execution]
  BY <1>1
<1>3. [exec EXCEPT ![w].pc = pc] \in [Executions -> Execution]
  BY DEF Execution
<1>4. ASSUME NEW S \in SUBSET Subjects
      PROVE  [exec EXCEPT ![w].pc = pc, ![w].heldKeys = S] \in [Executions -> Execution]
  BY DEF Execution
<1>5. ASSUME NEW n \in 0..MaxRows
      PROVE  [exec EXCEPT ![w].began = n, ![w].pc = pc] \in [Executions -> Execution]
  BY DEF Execution
<1>6. ASSUME NEW b \in BOOLEAN
      PROVE  /\ [exec EXCEPT ![w].pc = pc, ![w].locked = b] \in [Executions -> Execution]
             /\ [exec EXCEPT ![w].pc = pc, ![w].remains = b] \in [Executions -> Execution]
  BY DEF Execution
<1>7. ASSUME NEW D \in SUBSET Rows
      PROVE  [exec EXCEPT ![w].pc = pc, ![w].deleted = D] \in [Executions -> Execution]
  BY DEF Execution
<1>8. ASSUME NEW b \in BOOLEAN, NEW D \in SUBSET Rows
      PROVE  [exec EXCEPT ![w].pc = pc, ![w].locked = b, ![w].deleted = D]
                \in [Executions -> Execution]
  <2>1. PICK x : x = [exec[w] EXCEPT !.pc = pc, !.locked = b, !.deleted = D]
    OBVIOUS
  <2>2. x \in Execution
    BY <2>1 DEF Execution
  <2>3. [exec EXCEPT ![w].pc = pc, ![w].locked = b, ![w].deleted = D] = [exec EXCEPT ![w] = x]
    BY <2>1
  <2> QED
    BY <1>1, <2>2, <2>3
<1> QED
  BY <1>3, <1>4, <1>5, <1>6, <1>7, <1>8

(* An execution that does nothing itself stays sound whatever the pages,   *)
(* the writers and the other executions do, unless a hold is placed.       *)
LEMMA OthersSound ==
  ASSUME PInv, NEW w \in Executions, exec'[w] = exec[w], held' \subseteq held,
         written' \in Nat, written <= written', DOMAIN requests \subseteq DOMAIN requests',
         \A k \in DOMAIN requests : requests'[k].subject = requests[k].subject,
         \/ exec[w].pc = "idle"
         \/ \A r \in rows' : r \in rows \/ (r.id \in Nat /\ r.id > written)
  PROVE  Sound(w)'
<1> USE DEF PInv
<1>1. HasRequest(w)'
  BY DEF Sound, HasRequest
<1>2. exec[w].pc \notin {"idle", "sweep"} => Subject(w)' = Subject(w)
  <2>1. SUFFICES ASSUME exec[w].pc \notin {"idle", "sweep"}
                 PROVE  Subject(w)' = Subject(w)
    OBVIOUS
  <2>2. Request(w) \in DOMAIN requests
    BY <2>1, RequestIs DEF Sound, HasRequest
  <2>3. Request(w)' = Request(w)
    BY DEF Request
  <2> QED
    BY <2>2, <2>3 DEF Subject
<1>3. DeletesOwn(w)'
  BY <1>2 DEF Sound, DeletesOwn
<1>4. MissesKnown(w)'
  BY <1>2 DEF Sound, MissesKnown
<1>5. exec[w].began \in Nat /\ written \in Nat /\ exec[w].began <= written
  BY PrivacyAssumption DEF Sound, LooksWell, PrivacyTypeOK
<1>6. LooksWell(w)'
  <2>1. exec'[w].began <= written'
    BY <1>5
  <2>2. ASSUME exec'[w].pc = "finish", ~exec'[w].remains, NEW r \in rows' \ exec'[w].deleted,
               r.subject = Subject(w)'
        PROVE  r.id > exec'[w].began
    <3>1. CASE r \in rows
      BY <1>2, <2>2, <3>1 DEF Sound, LooksWell
    <3>2. CASE r.id \in Nat /\ r.id > written
      BY <1>5, <3>2
    <3> QED
      BY <2>2, <3>1, <3>2
  <2> QED
    BY <2>1, <2>2 DEF LooksWell
<1> QED
  BY <1>1, <1>3, <1>4, <1>6 DEF Sound

(* Nor has one anything to miss before it has read the holds, or to have   *)
(* found before it has looked.                                             *)
LEMMA QuietSound ==
  ASSUME NEW w \in Executions, exec'[w].pc \in {"idle", "next", "schedule", "hold", "failing"},
         exec'[w].deleted = {}, exec'[w].began <= written',
         exec'[w].pc # "idle" => exec'[w].queue # {}
  PROVE  Sound(w)'
BY DEF Sound, HasRequest, DeletesOwn, MissesKnown, LooksWell

(* What an execution does.                                                 *)
LEMMA ExecutionKeeps ==
  ASSUME PInv, NEW w \in Executions, NEW x,
         exec' \in [Executions -> Execution], \A u \in Executions \ {w} : exec'[u] = exec[u],
         UNCHANGED <<chosen, held, written>>, faults' \in 0..MaxFaults,
         rows' \subseteq rows, requests' \in Seq(RequestRow), DOMAIN requests' = DOMAIN requests,
         \A k \in DOMAIN requests : requests'[k].subject = requests[k].subject,
         Sound(w)'
  PROVE  PInv'
<1> USE DEF PInv
<1>1. written \in Nat /\ written' = written
  BY PrivacyAssumption DEF PrivacyTypeOK
<1>2. \A u \in Executions \ {w} : Sound(u)'
  BY <1>1, OthersSound
<1>3. Len(requests') = Len(requests)
  BY DEF PrivacyTypeOK
<1>4. PrivacyTypeOK'
  BY <1>1, <1>3 DEF PrivacyTypeOK, Execution, RequestRow
<1> QED
  BY <1>2, <1>4

(* It goes on with the requests in P, or ends.                             *)
LEMMA GoesOn ==
  ASSUME PInv, NEW w \in Executions, NEW P \in SUBSET DOMAIN requests,
         exec' = [exec EXCEPT ![w] = Remaining(P)] \/ exec' = [exec EXCEPT ![w] = NoExecution],
         UNCHANGED <<chosen, held, written>>, faults' \in 0..MaxFaults,
         rows' \subseteq rows, requests' \in Seq(RequestRow), DOMAIN requests' = DOMAIN requests,
         \A k \in DOMAIN requests : requests'[k].subject = requests[k].subject
  PROVE  PInv'
<1>1. exec \in [Executions -> Execution] /\ written \in Nat /\ written' = written
  BY PrivacyAssumption DEF PInv, PrivacyTypeOK, Execution
<1>2. PICK x \in {Remaining(P), NoExecution} : exec' = [exec EXCEPT ![w] = x]
  OBVIOUS
<1>3. /\ x \in Execution /\ x.deleted = {} /\ x.began = 0
      /\ x.pc = "idle" \/ (x.pc = "next" /\ x.queue # {})
  BY <1>2, RemainingTyped
<1>4. /\ exec' \in [Executions -> Execution] /\ exec'[w] = x
      /\ \A u \in Executions \ {w} : exec'[u] = exec[u]
  BY <1>1, <1>2, <1>3, ExecUpdates
<1>5. Sound(w)'
  BY <1>1, <1>3, <1>4, QuietSound
<1> QED
  BY <1>4, <1>5, ExecutionKeeps

(* It goes on with its next request.                                       *)
LEMMA NextKeeps ==
  ASSUME PInv, NEW w \in Executions, NextRequest(w),
         UNCHANGED <<chosen, held, written>>, faults' \in 0..MaxFaults,
         rows' \subseteq rows, requests' \in Seq(RequestRow), DOMAIN requests' = DOMAIN requests,
         \A k \in DOMAIN requests : requests'[k].subject = requests[k].subject
  PROVE  PInv'
<1> DEFINE P == exec[w].queue \ {Request(w)}
<1>1. P \in SUBSET DOMAIN requests
  BY DEF PInv, PrivacyTypeOK
<1>2. exec' = [exec EXCEPT ![w] = Remaining(P)]
  BY DEF NextRequest
<1> HIDE DEF P
<1> QED
  BY <1>1, <1>2, GoesOn

(* A step of an execution that changes only its own state.                 *)
LEMMA OwnStepKeeps ==
  ASSUME PInv, NEW w \in Executions, UNCHANGED <<pageVars, rows, written>>,
         faults' \in 0..MaxFaults,
         exec' \in [Executions -> Execution], \A u \in Executions \ {w} : exec'[u] = exec[u],
         Sound(w)'
  PROVE  PInv'
<1>1. requests' \in Seq(RequestRow) /\ UNCHANGED <<chosen, requests, held>>
  BY DEF PInv, PrivacyTypeOK, RequestRow, pageVars
<1> QED
  BY <1>1, ExecutionKeeps

(* It starts, and reads the holds.                                         *)
LEMMA StartKeeps ==
  ASSUME PInv, NEW w \in Executions, StartExecution(w)
  PROVE  PInv'
<1> USE DEF PInv
<1>1. exec \in [Executions -> Execution] /\ exec[w].pc = "idle"
      /\ exec' = [exec EXCEPT ![w].pc = "sweep", ![w].heldKeys = held]
      /\ UNCHANGED <<pageVars, rows, written, faults>>
  BY DEF PrivacyTypeOK, Execution, StartExecution, At, HeldSubjectKeys
<1>2. exec' \in [Executions -> Execution]
  BY <1>1, ExecUpdates DEF ExecutionPcs, PrivacyTypeOK
<1>3. /\ exec'[w].pc = "sweep" /\ exec'[w].heldKeys = held
      /\ exec'[w].deleted = exec[w].deleted /\ exec'[w].began = exec[w].began
      /\ \A u \in Executions \ {w} : exec'[u] = exec[u]
  BY <1>1 DEF Execution
<1>4. Sound(w)'
  BY <1>1, <1>3 DEF Sound, HasRequest, DeletesOwn, MissesKnown, LooksWell, pageVars
<1>5. faults' \in 0..MaxFaults
  BY <1>1 DEF PrivacyTypeOK
<1> QED
  BY <1>1, <1>2, <1>3, <1>4, <1>5, OwnStepKeeps

(* It removes what the global policies have expired, and selects requests. *)
LEMMA PoliciesKeep ==
  ASSUME PInv, NEW w \in Executions, ApplyGlobalPolicies(w)
  PROVE  PInv'
<1> USE DEF PInv
<1>1. requests \in Seq(RequestRow) /\ faults \in 0..MaxFaults
  BY DEF PrivacyTypeOK, RequestRow
<1>2. /\ requests' \in Seq(RequestRow) /\ DOMAIN requests' = DOMAIN requests
      /\ \A k \in DOMAIN requests : requests'[k].subject = requests[k].subject
  <2>1. requests' = [k \in DOMAIN requests |->
                       IF k \in AgedRequests THEN [requests[k] EXCEPT !.status = "removed"]
                       ELSE requests[k]]
    BY DEF ApplyGlobalPolicies
  <2>2. \A x \in RequestRow : /\ [x EXCEPT !.status = "removed"] \in RequestRow
                              /\ [x EXCEPT !.status = "removed"].subject = x.subject
    BY DEF RequestRow, RequestStatuses
  <2>3. \A k \in 1..Len(requests) : requests'[k] \in RequestRow
    BY <1>1, <2>1, <2>2
  <2>4. requests' = [k \in 1..Len(requests) |-> requests'[k]]
    BY <1>1, <2>1
  <2>5. requests' \in Seq(RequestRow)
    BY <1>1, <2>3, <2>4
  <2> QED
    BY <1>1, <2>1, <2>2, <2>5
<1>3. /\ rows' \subseteq rows /\ UNCHANGED <<chosen, held, written, faults>>
      /\ exec' = [exec EXCEPT ![w] = Remaining(Selected)]
  BY DEF ApplyGlobalPolicies
<1>4. Selected \in SUBSET DOMAIN requests
  BY DEF Selected
<1> QED
  BY <1>1, <1>2, <1>3, <1>4, GoesOn

(* It reads its request; rows recorded from now on are newer.              *)
LEMMA ReadKeeps ==
  ASSUME PInv, NEW w \in Executions, ReadRequest(w)
  PROVE  PInv'
<1> USE DEF PInv
<1>0. /\ exec \in [Executions -> Execution] /\ requests \in Seq(RequestRow)
      /\ faults \in 0..MaxFaults /\ written \in 0..MaxRows
  BY DEF PrivacyTypeOK, RequestRow, Execution
<1>1. exec[w].pc = "next" /\ UNCHANGED <<pageVars, rows, written, faults>>
  BY DEF ReadRequest, At
<1>2. CASE NextRequest(w)
  BY <1>0, <1>1, <1>2, NextKeeps DEF pageVars
<1>3. CASE ~NextRequest(w)
  <2>1. PICK pc \in {"hold", "schedule"} :
          exec' = [exec EXCEPT ![w].began = written, ![w].pc = pc]
    BY <1>3 DEF ReadRequest
  <2>2. exec' \in [Executions -> Execution]
    BY <1>0, <2>1, ExecUpdates DEF ExecutionPcs
  <2>3. /\ exec'[w].pc = pc /\ exec'[w].began = written /\ exec'[w].deleted = exec[w].deleted
        /\ exec'[w].queue = exec[w].queue
        /\ \A u \in Executions \ {w} : exec'[u] = exec[u]
    BY <1>0, <2>1 DEF Execution
  <2>4. exec[w].deleted = {} /\ exec[w].queue # {}
    BY <1>1 DEF Sound, DeletesOwn, HasRequest
  <2>5. Sound(w)'
    BY <1>0, <1>1, <2>1, <2>3, <2>4, QuietSound
  <2> QED
    BY <1>0, <1>1, <2>2, <2>3, <2>5, OwnStepKeeps
<1> QED
  BY <1>2, <1>3

(* It schedules the request, unless another did.                           *)
LEMMA ScheduleKeeps ==
  ASSUME PInv, NEW w \in Executions, Schedule(w)
  PROVE  PInv'
<1> USE DEF PInv
<1>0. /\ exec \in [Executions -> Execution] /\ requests \in Seq(RequestRow)
      /\ faults \in 0..MaxFaults /\ written \in Nat
  BY PrivacyAssumption DEF PrivacyTypeOK, RequestRow, Execution
<1>1. exec[w].pc = "schedule" /\ UNCHANGED <<pageVars, rows, written, faults>>
  BY DEF Schedule, At
<1>2. CASE NextRequest(w)
  BY <1>0, <1>1, <1>2, NextKeeps DEF pageVars
<1>3. CASE ~NextRequest(w)
  <2>1. exec' = [exec EXCEPT ![w].pc = "hold", ![w].locked = TRUE]
    BY <1>3 DEF Schedule
  <2>2. exec' \in [Executions -> Execution]
    BY <1>0, <2>1, ExecUpdates DEF ExecutionPcs
  <2>3. /\ exec'[w].pc = "hold" /\ exec'[w].began = exec[w].began
        /\ exec'[w].deleted = exec[w].deleted /\ exec'[w].queue = exec[w].queue
        /\ \A u \in Executions \ {w} : exec'[u] = exec[u]
    BY <1>0, <2>1 DEF Execution
  <2>4. exec[w].deleted = {} /\ exec[w].queue # {} /\ exec[w].began <= written
    BY <1>1 DEF Sound, DeletesOwn, HasRequest, LooksWell
  <2>5. Sound(w)'
    BY <1>1, <2>3, <2>4, QuietSound
  <2> QED
    BY <1>0, <1>1, <2>2, <2>3, <2>5, OwnStepKeeps
<1> QED
  BY <1>2, <1>3

(* The hold is read: from now on one that is placed is missed, and known   *)
(* to be.                                                                  *)
LEMMA HoldKeeps ==
  ASSUME PInv, NEW w \in Executions, CheckHold(w)
  PROVE  PInv'
<1> USE DEF PInv
<1>0. /\ exec \in [Executions -> Execution] /\ requests \in Seq(RequestRow)
      /\ faults \in 0..MaxFaults /\ written \in Nat
  BY PrivacyAssumption DEF PrivacyTypeOK, RequestRow, Execution
<1>1. exec[w].pc = "hold" /\ UNCHANGED <<chosen, held, rows, written, faults>>
  BY DEF CheckHold, At
<1>2. CASE NextRequest(w)
  <2>1. requests' = SetStatus(Request(w), "scheduled") \/ requests' = requests
    BY DEF CheckHold
  <2>2. /\ requests' \in Seq(RequestRow) /\ DOMAIN requests' = DOMAIN requests
        /\ \A k \in DOMAIN requests : requests'[k].subject = requests[k].subject
    BY <1>0, <2>1, StatusSet DEF RequestStatuses, OPEN_REQUEST_STATUSES
  <2> QED
    BY <1>0, <1>1, <1>2, <2>2, NextKeeps
<1>3. CASE ~NextRequest(w)
  <2>1. exec' = [exec EXCEPT ![w].pc = "delete"] /\ Subject(w) \notin held /\ UNCHANGED requests
    BY <1>3 DEF CheckHold
  <2>2. exec' \in [Executions -> Execution]
    BY <1>0, <2>1, ExecUpdates DEF ExecutionPcs
  <2>3. /\ exec'[w].pc = "delete" /\ exec'[w].began = exec[w].began
        /\ exec'[w].deleted = exec[w].deleted /\ exec'[w].queue = exec[w].queue
        /\ \A u \in Executions \ {w} : exec'[u] = exec[u]
    BY <1>0, <2>1 DEF Execution
  <2>4. exec[w].deleted = {} /\ exec[w].queue # {} /\ exec[w].began <= written
    BY <1>1 DEF Sound, DeletesOwn, HasRequest, LooksWell
  <2>5. Subject(w)' = Subject(w)
    BY <2>1, <2>3 DEF Subject, Request
  <2>6. Sound(w)'
    BY <1>1, <2>1, <2>3, <2>4, <2>5 DEF Sound, HasRequest, DeletesOwn, MissesKnown, LooksWell
  <2> QED
    BY <1>0, <1>1, <2>1, <2>2, <2>3, <2>6, OwnStepKeeps DEF pageVars
<1> QED
  BY <1>2, <1>3

(* It deletes rows of the subject.                                         *)
LEMMA DeleteKeeps ==
  ASSUME PInv, NEW w \in Executions, DeleteSubjectRows(w)
  PROVE  PInv'
<1> USE DEF PInv
<1> DEFINE doomed == OldestOfEachKind(RowsOf(Subject(w)))
<1>0. /\ exec \in [Executions -> Execution] /\ faults \in 0..MaxFaults
      /\ rows \in SUBSET Rows
  BY DEF PrivacyTypeOK, Execution
<1>1. /\ exec[w].pc = "delete" /\ UNCHANGED <<pageVars, rows, written, faults>>
      /\ exec' = [exec EXCEPT ![w].pc = "look", ![w].deleted = doomed]
  BY DEF DeleteSubjectRows, At
<1>2. doomed \in SUBSET Rows /\ \A r \in doomed : r.subject = Subject(w)
  BY <1>0 DEF OldestOfEachKind, Oldest, RowsOf
<1> HIDE DEF doomed
<1>3. exec' \in [Executions -> Execution]
  BY <1>0, <1>1, <1>2, ExecUpdates DEF ExecutionPcs
<1>4. /\ exec'[w].pc = "look" /\ exec'[w].began = exec[w].began
      /\ exec'[w].deleted = doomed /\ exec'[w].queue = exec[w].queue
      /\ exec'[w].outrun = exec[w].outrun
      /\ \A u \in Executions \ {w} : exec'[u] = exec[u]
  BY <1>0, <1>1 DEF Execution
<1>5. Subject(w)' = Subject(w) /\ held' = held
  BY <1>1, <1>4 DEF Subject, Request, pageVars
<1>6. Sound(w)'
  BY <1>1, <1>2, <1>4, <1>5 DEF Sound, HasRequest, DeletesOwn, MissesKnown, LooksWell
<1> QED
  BY <1>0, <1>1, <1>3, <1>4, <1>6, OwnStepKeeps

(* When it finds no rows besides those it deletes, none remain.            *)
LEMMA LookKeeps ==
  ASSUME PInv, NEW w \in Executions, Look(w)
  PROVE  PInv'
<1> USE DEF PInv
<1>0. exec \in [Executions -> Execution] /\ faults \in 0..MaxFaults
  BY DEF PrivacyTypeOK, Execution
<1>1. PICK b \in BOOLEAN : b = SubjectRowsRemain(w)
  BY DEF SubjectRowsRemain
<1>2. /\ exec[w].pc = "look" /\ UNCHANGED <<pageVars, rows, written, faults>>
      /\ exec' = [exec EXCEPT ![w].pc = "finish", ![w].remains = b]
  BY <1>1 DEF Look, At
<1>3. exec' \in [Executions -> Execution]
  BY <1>0, <1>1, <1>2, ExecUpdates DEF ExecutionPcs
<1>4. /\ exec'[w].pc = "finish" /\ exec'[w].began = exec[w].began
      /\ exec'[w].deleted = exec[w].deleted /\ exec'[w].queue = exec[w].queue
      /\ exec'[w].outrun = exec[w].outrun
      /\ \A u \in Executions \ {w} : exec'[u] = exec[u]
  BY <1>0, <1>2 DEF Execution
<1>5. exec'[w].remains = b
  BY <1>0, <1>1, <1>2 DEF Execution
<1>6. Subject(w)' = Subject(w) /\ held' = held
  BY <1>2, <1>4 DEF Subject, Request, pageVars
<1>7. ~exec'[w].remains => \A r \in rows \ exec[w].deleted : r.subject # Subject(w)
  BY <1>1, <1>5 DEF SubjectRowsRemain, RowsOf
<1>8. Sound(w)'
  BY <1>2, <1>4, <1>6, <1>7 DEF Sound, HasRequest, DeletesOwn, MissesKnown, LooksWell
<1> QED
  BY <1>0, <1>2, <1>3, <1>4, <1>8, OwnStepKeeps

(* It commits, or marks the request as failed.                             *)
LEMMA FinishKeeps ==
  ASSUME PInv, NEW w \in Executions, FinishRequest(w) \/ MarkFailed(w)
  PROVE  PInv'
<1> USE DEF PInv
<1>0. requests \in Seq(RequestRow) /\ faults \in 0..MaxFaults
  BY DEF PrivacyTypeOK, RequestRow
<1>1. /\ NextRequest(w) /\ UNCHANGED <<chosen, held, written, faults>> /\ rows' \subseteq rows
      /\ \/ requests' = requests
         \/ \E status \in {"scheduled", "completed", "failed"} :
              requests' = SetStatus(Request(w), status)
  BY DEF FinishRequest, MarkFailed
<1>2. /\ requests' \in Seq(RequestRow) /\ DOMAIN requests' = DOMAIN requests
      /\ \A k \in DOMAIN requests : requests'[k].subject = requests[k].subject
  BY <1>0, <1>1, StatusSet DEF RequestStatuses, OPEN_REQUEST_STATUSES
<1> QED
  BY <1>0, <1>1, <1>2, NextKeeps

(* A transaction that is rolled back has deleted nothing.                  *)
LEMMA RollBackKeeps ==
  ASSUME PInv, NEW w \in Executions, exec[w].queue # {}, RolledBack(w),
         UNCHANGED <<pageVars, rows, written>>, faults' \in 0..MaxFaults
  PROVE  PInv'
<1> USE DEF PInv
<1>0. exec \in [Executions -> Execution]
  BY DEF PrivacyTypeOK, Execution
<1>1. exec' = [exec EXCEPT ![w].pc = "failing", ![w].locked = FALSE, ![w].deleted = {}]
  BY DEF RolledBack
<1>2. exec' \in [Executions -> Execution]
  <2>1. {} \in SUBSET Rows /\ FALSE \in BOOLEAN /\ "failing" \in ExecutionPcs
    BY DEF ExecutionPcs
  <2> QED
    BY <1>0, <1>1, <2>1, ExecUpdates
<1>3. /\ exec'[w].pc = "failing" /\ exec'[w].deleted = {} /\ exec'[w].began = exec[w].began
      /\ exec'[w].queue = exec[w].queue
      /\ \A u \in Executions \ {w} : exec'[u] = exec[u]
  BY <1>0, <1>1 DEF Execution
<1>4. Sound(w)'
  BY <1>3, QuietSound DEF Sound, LooksWell
<1> QED
  BY <1>2, <1>3, <1>4, OwnStepKeeps

(* A failure, or a crash.                                                  *)
LEMMA FaultKeeps ==
  ASSUME PInv, NEW w \in Executions, FaultStep(w) \/ Refused(w)
  PROVE  PInv'
<1> USE DEF PInv
<1>0. /\ requests \in Seq(RequestRow) /\ faults \in 0..MaxFaults /\ MaxFaults \in Nat
  BY PrivacyAssumption DEF PrivacyTypeOK, RequestRow
<1>1. CASE StatementFails(w) \/ Refused(w)
  <2>1. /\ RolledBack(w) /\ UNCHANGED <<pageVars, rows, written>> /\ faults' \in 0..MaxFaults
        /\ exec[w].pc \notin {"idle", "sweep"}
    BY <1>0, <1>1 DEF StatementFails, Refused, InTransaction, At
  <2>2. exec[w].queue # {}
    BY <2>1 DEF Sound, HasRequest
  <2> QED
    BY <2>1, <2>2, RollBackKeeps
<1>2. CASE MarkLost(w)
  <2>1. NextRequest(w) /\ UNCHANGED <<chosen, requests, held, rows, written>>
        /\ faults' \in 0..MaxFaults
    BY <1>0, <1>2 DEF MarkLost, pageVars
  <2> QED
    BY <1>0, <2>1, NextKeeps
<1>3. CASE Crash(w)
  <2>1. /\ exec' = [exec EXCEPT ![w] = NoExecution] /\ faults' \in 0..MaxFaults
        /\ UNCHANGED <<chosen, requests, held, rows, written>>
    BY <1>0, <1>3 DEF Crash, pageVars
  <2>2. {} \in SUBSET DOMAIN requests
    OBVIOUS
  <2> QED
    BY <1>0, <2>1, <2>2, GoesOn
<1> QED
  BY <1>1, <1>2, <1>3 DEF FaultStep

(* What an execution does by itself.                                       *)
LEMMA RetentionKeeps ==
  ASSUME PInv, NEW w \in Executions, RetentionStep(w) \/ FaultStep(w)
  PROVE  PInv'
BY StartKeeps, PoliciesKeep, ReadKeeps, ScheduleKeeps, HoldKeeps, DeleteKeeps, LookKeeps,
   FinishKeeps, FaultKeeps DEF RetentionStep, Proceed

-----------------------------------------------------------------------------
(* The pages and the writers add rows, requests and holds.                 *)
LEMMA PagesKeep ==
  ASSUME PInv, UNCHANGED <<exec, faults>>, chosen' \subseteq Subjects, held' \subseteq held,
         requests' \in Seq(RequestRow), Len(requests') <= MaxRequests,
         DOMAIN requests \subseteq DOMAIN requests',
         \A k \in DOMAIN requests : requests'[k].subject = requests[k].subject,
         written' \in 0..MaxRows, written <= written',
         \A r \in rows' : r \in rows \/ (r \in Rows /\ r.id > written)
  PROVE  PInv'
<1> USE DEF PInv
<1>1. \A w \in Executions : exec'[w] = exec[w]
  OBVIOUS
<1>2. written' \in Nat /\ \A r \in rows' : r \in rows \/ (r.id \in Nat /\ r.id > written)
  BY PrivacyAssumption DEF Rows
<1>3. \A w \in Executions : Sound(w)'
  BY <1>1, <1>2, OthersSound
<1>4. exec' \in [Executions -> Execution']
  BY DEF PrivacyTypeOK, Execution
<1>5. rows' \subseteq Rows
  BY DEF PrivacyTypeOK
<1>6. PrivacyTypeOK'
  BY <1>4, <1>5 DEF PrivacyTypeOK, Execution, RequestRow
<1> QED
  BY <1>3, <1>6

(* A row that is recorded is newer than the executions under way.          *)
LEMMA RowsKeep ==
  ASSUME PInv, NEW s \in Subjects, SaveConsent(s) \/ RecordProductEvent(s) \/ RecordOperationFailure(s)
  PROVE  PInv'
<1> USE DEF PInv
<1>0. /\ requests \in Seq(RequestRow) /\ Len(requests) <= MaxRequests
      /\ written \in Nat /\ chosen \subseteq Subjects /\ MaxRows \in Nat
  BY PrivacyAssumption DEF PrivacyTypeOK, RequestRow
<1>1. written < MaxRows => \A kind \in Kinds :
        /\ Row(s, kind) \in Rows /\ Row(s, kind).id > written /\ written + 1 \in 0..MaxRows
  BY <1>0 DEF Row, Rows
<1>2. CASE RecordProductEvent(s) \/ RecordOperationFailure(s)
  <2>1. /\ written < MaxRows /\ written' = written + 1
        /\ UNCHANGED <<chosen, held, requests, exec, faults>>
        /\ \A r \in rows' : r \in rows \/ \E kind \in Kinds : r = Row(s, kind)
    BY <1>2 DEF RecordProductEvent, RecordOperationFailure, MayWrite, pageVars, Kinds
  <2> QED
    BY <1>0, <1>1, <2>1, PagesKeep
<1>3. CASE SaveConsent(s)
  <2>1. PICK superseded : /\ superseded = IF s \in chosen THEN {Row(s, "superseded")} ELSE {}
                          /\ written + Cardinality(superseded) <= MaxRows
                          /\ chosen' = chosen \cup {s}
                          /\ rows' = rows \cup superseded
                          /\ written' = written + Cardinality(superseded)
                          /\ UNCHANGED <<requests, held, exec, faults>>
    BY <1>3 DEF SaveConsent
  <2>2. CASE s \in chosen
    <3>1. Cardinality(superseded) = 1
      BY <2>1, <2>2, FS_Singleton
    <3>2. written < MaxRows
      BY <1>0, <2>1, <3>1
    <3>3. \A r \in rows' : r \in rows \/ (r \in Rows /\ r.id > written)
      BY <1>1, <2>1, <2>2, <3>2 DEF Kinds
    <3> QED
      BY <1>0, <2>1, <3>1, <3>2, <3>3, PagesKeep
  <2>3. CASE s \notin chosen
    <3>1. Cardinality(superseded) = 0
      BY <2>1, <2>3, FS_EmptySet
    <3>2. rows' = rows
      BY <2>1, <2>3
    <3> QED
      BY <1>0, <2>1, <3>1, <3>2, PagesKeep
  <2> QED
    BY <2>2, <2>3
<1> QED
  BY <1>2, <1>3

(* Requests are submitted, withdrawn and decided.                          *)
LEMMA RequestsKeep ==
  ASSUME PInv,
         \/ \E s \in Subjects : SubmitDeletionRequest(s)
         \/ \E k \in DOMAIN requests :
              \/ WithdrawDeletionRequest(k) \/ StartDeletionRequestReview(k)
              \/ \E decision \in {"approved", "rejected"} : DecideDeletionRequest(k, decision)
  PROVE  PInv'
<1> USE DEF PInv
<1>0. /\ requests \in Seq(RequestRow) /\ Len(requests) <= MaxRequests
      /\ written \in 0..MaxRows /\ written \in Nat /\ chosen \subseteq Subjects
  BY PrivacyAssumption DEF PrivacyTypeOK, RequestRow
<1>1. ASSUME NEW s \in Subjects, SubmitDeletionRequest(s)
      PROVE  PInv'
  <2>1. PICK row : /\ row = [subject |-> s, status |-> "submitted", old |-> FALSE]
                   /\ requests' = Append(requests, row) /\ Len(requests) < MaxRequests
                   /\ UNCHANGED <<chosen, held, rows, written, exec, faults>>
    BY <1>1 DEF SubmitDeletionRequest
  <2>2. row \in RequestRow
    BY <2>1 DEF RequestRow, RequestStatuses, OPEN_REQUEST_STATUSES
  <2>3. /\ requests' \in Seq(RequestRow) /\ Len(requests') <= MaxRequests
        /\ DOMAIN requests \subseteq DOMAIN requests'
        /\ \A k \in DOMAIN requests : requests'[k].subject = requests[k].subject
    <3>1. requests' \in Seq(RequestRow) /\ Len(requests') = Len(requests) + 1
      BY <1>0, <2>1, <2>2
    <3>2. \A k \in DOMAIN requests : k \in DOMAIN requests' /\ requests'[k] = requests[k]
      BY <1>0, <2>1
    <3> QED
      BY <1>0, <2>1, <3>1, <3>2, PrivacyAssumption
  <2> QED
    BY <1>0, <2>1, <2>3, PagesKeep
<1>2. ASSUME NEW k \in DOMAIN requests, NEW from, NEW to \in RequestStatuses,
             ChangeStatus(k, from, to)
      PROVE  PInv'
  <2>1. requests' = SetStatus(k, to) /\ UNCHANGED <<chosen, held, rows, written, exec, faults>>
    BY <1>2 DEF ChangeStatus
  <2>2. /\ requests' \in Seq(RequestRow) /\ DOMAIN requests' = DOMAIN requests
        /\ \A j \in DOMAIN requests : requests'[j].subject = requests[j].subject
    BY <1>0, <2>1, StatusSet
  <2>3. Len(requests') = Len(requests)
    BY <1>0, <2>2
  <2> QED
    BY <1>0, <2>1, <2>2, <2>3, PagesKeep
<1>3. {"rejected", "under_review", "approved"} \subseteq RequestStatuses
  BY DEF RequestStatuses, OPEN_REQUEST_STATUSES
<1> QED
  BY <1>1, <1>2, <1>3 DEF WithdrawDeletionRequest, StartDeletionRequestReview, DecideDeletionRequest

(* A hold that is placed is missed by the executions that have read the    *)
(* holds: they remember it.                                                *)
LEMMA HoldsKeep ==
  ASSUME PInv, NEW s \in Subjects, PlaceHold(s) \/ ReleaseHold(s)
  PROVE  PInv'
<1> USE DEF PInv
<1>0. /\ requests \in Seq(RequestRow) /\ Len(requests) <= MaxRequests
      /\ written \in 0..MaxRows /\ written \in Nat /\ chosen \subseteq Subjects
      /\ exec \in [Executions -> Execution]
  BY PrivacyAssumption DEF PrivacyTypeOK, RequestRow, Execution
<1>1. CASE ReleaseHold(s)
  BY <1>0, <1>1, PagesKeep DEF ReleaseHold
<1>2. CASE PlaceHold(s)
  <2>1. /\ held' = held \cup {s}
        /\ exec' = [w \in Executions |->
                      IF HasReadHold(w, s) THEN [exec[w] EXCEPT !.outrun = @ \cup {s}]
                      ELSE exec[w]]
        /\ UNCHANGED <<chosen, requests, rows, written, faults>>
    BY <1>2 DEF PlaceHold
  <2>2. \A x \in Execution :
          /\ [x EXCEPT !.outrun = @ \cup {s}] \in Execution
          /\ [x EXCEPT !.outrun = @ \cup {s}].outrun = x.outrun \cup {s}
          /\ [x EXCEPT !.outrun = @ \cup {s}].pc = x.pc
          /\ [x EXCEPT !.outrun = @ \cup {s}].heldKeys = x.heldKeys
          /\ [x EXCEPT !.outrun = @ \cup {s}].queue = x.queue
          /\ [x EXCEPT !.outrun = @ \cup {s}].deleted = x.deleted
          /\ [x EXCEPT !.outrun = @ \cup {s}].began = x.began
          /\ [x EXCEPT !.outrun = @ \cup {s}].remains = x.remains
    BY DEF Execution
  <2>3. \A w \in Executions :
          /\ exec'[w] \in Execution
          /\ exec'[w].pc = exec[w].pc /\ exec'[w].heldKeys = exec[w].heldKeys
          /\ exec'[w].queue = exec[w].queue /\ exec'[w].deleted = exec[w].deleted
          /\ exec'[w].began = exec[w].began /\ exec'[w].remains = exec[w].remains
          /\ exec'[w].outrun = IF HasReadHold(w, s) THEN exec[w].outrun \cup {s}
                               ELSE exec[w].outrun
    BY <1>0, <2>1, <2>2
  <2>4. \A w \in Executions : Subject(w)' = Subject(w)
    BY <2>1, <2>3 DEF Subject, Request
  <2>5. ASSUME NEW w \in Executions
        PROVE  Sound(w)'
    <3>1. MissesKnown(w)'
      BY <2>1, <2>3, <2>4 DEF Sound, MissesKnown, HasReadHold, Subject, Request
    <3> QED
      BY <2>1, <2>3, <2>4, <3>1 DEF Sound, HasRequest, DeletesOwn, LooksWell
  <2>6. exec' \in [Executions -> Execution']
    BY <2>1, <2>3 DEF Execution
  <2>7. PrivacyTypeOK'
    BY <2>1, <2>6 DEF PrivacyTypeOK, Execution
  <2> QED
    BY <2>5, <2>7
<1> QED
  BY <1>1, <1>2

(* Time passes while no execution is under way.                            *)
LEMMA AgeKeeps ==
  ASSUME PInv, Age
  PROVE  PInv'
<1> USE DEF PInv
<1>0. requests \in Seq(RequestRow) /\ written \in Nat
  BY PrivacyAssumption DEF PrivacyTypeOK, RequestRow
<1>1. /\ \A w \in Executions : exec[w].pc = "idle"
      /\ rows' = {[r EXCEPT !.old = TRUE] : r \in rows}
      /\ requests' = [k \in DOMAIN requests |->
                        [requests[k] EXCEPT !.old = requests[k].status = "completed"]]
      /\ UNCHANGED <<chosen, held, written, exec, faults>>
  BY DEF Age
<1>2. \A b \in BOOLEAN, x \in RequestRow : /\ [x EXCEPT !.old = b] \in RequestRow
                                           /\ [x EXCEPT !.old = b].subject = x.subject
  BY DEF RequestRow
<1>3. \A k \in DOMAIN requests : /\ requests'[k] \in RequestRow
                                 /\ requests'[k].subject = requests[k].subject
  <2>1. SUFFICES ASSUME NEW k \in DOMAIN requests
                 PROVE  /\ requests'[k] \in RequestRow
                        /\ requests'[k].subject = requests[k].subject
    OBVIOUS
  <2>2. PICK b \in BOOLEAN : b <=> requests[k].status = "completed"
    OBVIOUS
  <2>3. requests'[k] = [requests[k] EXCEPT !.old = b] /\ requests[k] \in RequestRow
    BY <1>0, <1>1, <2>2
  <2> QED
    BY <1>2, <2>3
<1>4. requests' = [k \in 1..Len(requests) |-> requests'[k]] /\ DOMAIN requests' = DOMAIN requests
  BY <1>0, <1>1
<1>5. requests' \in Seq(RequestRow)
  BY <1>0, <1>3, <1>4
<1>6. Len(requests') = Len(requests)
  BY <1>0, <1>4, <1>5
<1>7. rows' \subseteq Rows
  <2>1. \A r \in Rows : [r EXCEPT !.old = TRUE] \in Rows
    BY DEF Rows
  <2> QED
    BY <1>1, <2>1 DEF PrivacyTypeOK
<1>8. \A w \in Executions : Sound(w)'
  <2>1. \A w \in Executions : exec'[w] = exec[w] /\ exec[w].pc = "idle"
    BY <1>1
  <2>2. held' \subseteq held /\ written' \in Nat /\ written <= written'
        /\ DOMAIN requests \subseteq DOMAIN requests'
    BY <1>0, <1>1, <1>4
  <2> QED
    BY <1>3, <2>1, <2>2, OthersSound
<1>9. PrivacyTypeOK'
  BY <1>1, <1>4, <1>5, <1>6, <1>7 DEF PrivacyTypeOK, RequestRow
<1> QED
  BY <1>8, <1>9

-----------------------------------------------------------------------------
(* The invariant holds initially.                                          *)
LEMMA PInvInit == PrivacyInit => PInv
<1> SUFFICES ASSUME PrivacyInit PROVE PInv
  OBVIOUS
<1> USE DEF PrivacyInit
<1>1. NoExecution \in Execution
  BY RemainingTyped
<1>2. exec \in [Executions -> Execution]
  BY <1>1
<1>3. PrivacyTypeOK
  BY <1>2, PrivacyAssumption DEF PrivacyTypeOK, Execution
<1>4. \A w \in Executions : exec[w].pc = "idle" /\ exec[w].deleted = {} /\ exec[w].began = 0
  BY DEF NoExecution
<1>5. \A w \in Executions : Sound(w)
  BY <1>4 DEF Sound, HasRequest, DeletesOwn, MissesKnown, LooksWell
<1> QED
  BY <1>3, <1>5 DEF PInv

(* Every step keeps the invariant.                                         *)
LEMMA PInvStep ==
  ASSUME PInv, [PrivacyNext]_privacyVars
  PROVE  PInv'
<1>1. CASE EmployeeStep \/ AdministratorStep
  BY <1>1, RowsKeep, RequestsKeep, HoldsKeep DEF EmployeeStep, AdministratorStep
<1>2. CASE WriterStep
  BY <1>2, RowsKeep DEF WriterStep
<1>3. CASE Age
  BY <1>3, AgeKeeps
<1>4. ASSUME NEW w \in Executions, RetentionStep(w) \/ FaultStep(w)
      PROVE  PInv'
  BY <1>4, RetentionKeeps
<1>5. CASE UNCHANGED privacyVars
  <2>1. UNCHANGED <<exec, faults, chosen, held, requests, written, rows>>
    BY <1>5 DEF privacyVars, pageVars
  <2>2. /\ requests' \in Seq(RequestRow) /\ Len(requests') <= MaxRequests
        /\ chosen' \subseteq Subjects /\ written' \in 0..MaxRows /\ written <= written'
    BY <2>1, PrivacyAssumption DEF PInv, PrivacyTypeOK, RequestRow
  <2> QED
    BY <2>1, <2>2, PagesKeep
<1> QED
  BY <1>1, <1>2, <1>3, <1>4, <1>5 DEF PrivacyNext

(* PInv is an invariant of every instance.                                 *)
THEOREM PrivacyInvariance == PrivacySpec => []PInv
<1>1. PrivacyInit => PInv
  BY PInvInit
<1>2. PInv /\ [PrivacyNext]_privacyVars => PInv'
  BY PInvStep
<1> QED
  BY <1>1, <1>2, PTL DEF PrivacySpec

(* The tables and the executions keep their types.                         *)
THEOREM PrivacyTypeCorrect == PrivacySpec => []PrivacyTypeOK
<1>1. PInv => PrivacyTypeOK
  BY DEF PInv
<1> QED
  BY <1>1, PrivacyInvariance, PTL

-----------------------------------------------------------------------------
(* The one step that completes a request: what it leaves of the subject is *)
(* newer than the transaction.                                             *)
LEMMA CompletesErased ==
  ASSUME PInv, [PrivacyNext]_privacyVars, NEW k \in DOMAIN requests,
         requests[k].status # "completed", requests'[k].status = "completed"
  PROVE  \E w \in Executions :
           /\ At(w, "finish") /\ Request(w) = k
           /\ \A r \in rows' : r.subject = requests[k].subject => r.id > exec[w].began
<1> USE DEF PInv
<1>0. requests \in Seq(RequestRow)
  BY DEF PrivacyTypeOK, RequestRow
<1>1. ASSUME NEW j, NEW status \in RequestStatuses, status # "completed",
             requests' = SetStatus(j, status)
      PROVE  FALSE
  BY <1>0, <1>1, StatusSet
<1>2. {"rejected", "under_review", "approved", "scheduled", "failed", "completed", "removed"}
        \subseteq RequestStatuses
  BY DEF RequestStatuses, OPEN_REQUEST_STATUSES
<1>3. requests' # requests
  OBVIOUS
<1>4. ~EmployeeStep /\ ~AdministratorStep
  <2>1. \A s \in Subjects : ~SubmitDeletionRequest(s)
    <3>1. ASSUME NEW row, requests' = Append(requests, row)
          PROVE  FALSE
      BY <1>0, <3>1
    <3> QED
      BY <3>1 DEF SubmitDeletionRequest
  <2>2. \A j, from, to : ChangeStatus(j, from, to) => requests' = SetStatus(j, to)
    BY DEF ChangeStatus
  <2>3. \A j : ~WithdrawDeletionRequest(j) /\ ~StartDeletionRequestReview(j)
               /\ \A decision \in {"approved", "rejected"} : ~DecideDeletionRequest(j, decision)
    BY <1>1, <1>2, <2>2 DEF WithdrawDeletionRequest, StartDeletionRequestReview, DecideDeletionRequest
  <2>4. \A s \in Subjects : ~SaveConsent(s) /\ ~PlaceHold(s) /\ ~ReleaseHold(s)
    BY <1>3 DEF SaveConsent, PlaceHold, ReleaseHold
  <2> QED
    BY <2>1, <2>3, <2>4 DEF EmployeeStep, AdministratorStep
<1>5. ~WriterStep
  BY <1>3 DEF WriterStep, RecordProductEvent, RecordOperationFailure, pageVars
<1>6. ~Age
  <2>1. Age => requests'[k] = [requests[k] EXCEPT !.old = requests[k].status = "completed"]
    BY DEF Age
  <2>2. \A x \in RequestRow : [x EXCEPT !.old = x.status = "completed"].status = x.status
    BY DEF RequestRow
  <2>3. requests[k] \in RequestRow
    BY <1>0
  <2> QED
    BY <2>1, <2>2, <2>3
<1>7. ~UNCHANGED privacyVars
  BY <1>3 DEF privacyVars, pageVars
<1>8. PICK w \in Executions : RetentionStep(w) \/ FaultStep(w)
  BY <1>4, <1>5, <1>6, <1>7 DEF PrivacyNext
<1>9. ~ApplyGlobalPolicies(w)
  <2>1. ApplyGlobalPolicies(w) =>
          \/ requests'[k] = requests[k] \/ requests'[k] = [requests[k] EXCEPT !.status = "removed"]
    BY DEF ApplyGlobalPolicies
  <2>2. \A x \in RequestRow : [x EXCEPT !.status = "removed"].status = "removed"
    BY DEF RequestRow
  <2>3. requests[k] \in RequestRow
    BY <1>0
  <2> QED
    BY <2>1, <2>2, <2>3
<1>10. ~CheckHold(w) /\ ~MarkFailed(w)
  BY <1>1, <1>2, <1>3 DEF CheckHold, MarkFailed
<1>11. ~StartExecution(w) /\ ~ReadRequest(w) /\ ~Schedule(w) /\ ~DeleteSubjectRows(w) /\ ~Look(w)
       /\ ~Refused(w) /\ ~FaultStep(w)
  BY <1>3 DEF StartExecution, ReadRequest, Schedule, DeleteSubjectRows, Look, Refused, FaultStep,
              StatementFails, MarkLost, Crash, pageVars
<1>12. FinishRequest(w)
  BY <1>8, <1>9, <1>10, <1>11 DEF RetentionStep, Proceed
<1>13. /\ exec[w].pc = "finish" /\ rows' = rows \ exec[w].deleted
       /\ requests' = SetStatus(Request(w), IF exec[w].remains THEN "scheduled" ELSE "completed")
  BY <1>12 DEF FinishRequest, At
<1>14. ~exec[w].remains
  BY <1>1, <1>2, <1>13
<1>15. Request(w) = k
  BY <1>0, <1>2, <1>13, <1>14, StatusSet
<1>16. Subject(w) = requests[k].subject
  BY <1>15 DEF Subject
<1>17. \A r \in rows' : r.subject = requests[k].subject => r.id > exec[w].began
  BY <1>13, <1>14, <1>16 DEF Sound, LooksWell
<1> QED
  BY <1>13, <1>15, <1>17 DEF At

(* A request is completed only when no row of its subject that was there   *)
(* when its transaction began is left, whatever the batch limit, the       *)
(* writers and the other executions do.                                    *)
THEOREM CompletedIsErased == PrivacySpec => ErasedWhenCompleted
<1>1. PInv /\ [PrivacyNext]_privacyVars =>
        [\A k \in DOMAIN requests :
           (requests[k].status # "completed" /\ requests'[k].status = "completed") =>
             \E w \in Executions :
               /\ At(w, "finish") /\ Request(w) = k
               /\ \A r \in rows' : r.subject = requests[k].subject => r.id > exec[w].began
        ]_privacyVars
  BY CompletesErased
<1> QED
  BY <1>1, PrivacyInvariance, PTL DEF PrivacySpec, ErasedWhenCompleted

(* Only an execution removes rows: those of subjects that it found without *)
(* a hold.                                                                 *)
LEMMA RemovesUnheld ==
  ASSUME PInv, [PrivacyNext]_privacyVars, NEW r \in rows, ~Kept(r), r.subject \in held
  PROVE  \E w \in Executions : exec'[w] # exec[w] /\ r.subject \in exec[w].outrun
<1> USE DEF PInv
<1>0. r \in Rows /\ exec \in [Executions -> Execution]
  BY DEF PrivacyTypeOK, Execution
<1>1. r \notin rows'
  BY <1>0 DEF Kept, Rows
<1>2. ~EmployeeStep /\ ~AdministratorStep
  BY <1>1 DEF EmployeeStep, AdministratorStep, SubmitDeletionRequest, SaveConsent, PlaceHold,
              ReleaseHold, WithdrawDeletionRequest, StartDeletionRequestReview,
              DecideDeletionRequest, ChangeStatus
<1>3. ~WriterStep
  <2>1. \A s : ~RecordProductEvent(s)
    BY <1>1 DEF RecordProductEvent
  <2>2. ASSUME NEW s, RecordOperationFailure(s)
        PROVE  FALSE
    <3>1. r.kind = "failure" /\ r.subject = s /\ Row(s, "failure") \in rows'
      BY <1>1, <2>2 DEF RecordOperationFailure, RowsOf
    <3>2. Row(s, "failure").subject = s /\ Row(s, "failure").kind = "failure"
      BY DEF Row
    <3> QED
      BY <3>1, <3>2 DEF Kept
  <2> QED
    BY <2>1, <2>2 DEF WriterStep
<1>4. ~Age
  <2>1. Age => [r EXCEPT !.old = TRUE] \in rows'
    BY DEF Age
  <2>2. /\ [r EXCEPT !.old = TRUE].subject = r.subject /\ [r EXCEPT !.old = TRUE].kind = r.kind
        /\ [r EXCEPT !.old = TRUE].id = r.id
    BY <1>0 DEF Rows
  <2> QED
    BY <2>1, <2>2 DEF Kept
<1>5. ~UNCHANGED privacyVars
  BY <1>1 DEF privacyVars
<1>6. PICK w \in Executions : RetentionStep(w) \/ FaultStep(w)
  BY <1>2, <1>3, <1>4, <1>5 DEF PrivacyNext
<1>7. ApplyGlobalPolicies(w) \/ FinishRequest(w)
  BY <1>1, <1>6 DEF RetentionStep, Proceed, StartExecution, ReadRequest, Schedule, CheckHold,
                    DeleteSubjectRows, Look, Refused, MarkFailed, FaultStep, StatementFails,
                    MarkLost, Crash, pageVars
<1>8. CASE ApplyGlobalPolicies(w)
  <2>1. /\ exec[w].pc = "sweep" /\ exec' = [exec EXCEPT ![w] = Remaining(Selected)]
        /\ r \in OldestOfEachKind(Aged(w))
    BY <1>1, <1>8 DEF ApplyGlobalPolicies, At
  <2>2. r \in Aged(w)
    BY <2>1 DEF OldestOfEachKind, Oldest
  <2>3. r.subject \notin exec[w].heldKeys
    BY <2>2 DEF Aged
  <2>4. r.subject \in exec[w].outrun
    BY <2>1, <2>3 DEF Sound, MissesKnown
  <2>5. exec'[w].pc # "sweep"
    <3>1. Selected \in SUBSET DOMAIN requests
      BY DEF Selected
    <3> QED
      BY <1>0, <2>1, <3>1, RemainingTyped
  <2> QED
    BY <2>1, <2>4, <2>5
<1>9. CASE FinishRequest(w)
  <2>1. exec[w].pc = "finish" /\ r \in exec[w].deleted /\ NextRequest(w)
    BY <1>1, <1>9 DEF FinishRequest, At
  <2>2. r.subject = Subject(w)
    BY <2>1 DEF Sound, DeletesOwn
  <2>3. r.subject \in exec[w].outrun
    BY <2>1, <2>2 DEF Sound, MissesKnown
  <2>4. exec'[w].pc # "finish"
    <3>1. PICK P : P = exec[w].queue \ {Request(w)} /\ exec' = [exec EXCEPT ![w] = Remaining(P)]
      BY <2>1 DEF NextRequest
    <3>2. P \in SUBSET DOMAIN requests
      BY <3>1 DEF PrivacyTypeOK
    <3> QED
      BY <1>0, <3>1, <3>2, RemainingTyped
  <2> QED
    BY <2>1, <2>3, <2>4
<1> QED
  BY <1>7, <1>8, <1>9

(* Retention removes no row of a subject under a hold, except by a         *)
(* transaction that had read the holds before this one was placed.         *)
THEOREM HoldsAreKept == PrivacySpec => HoldsStop
<1>1. PInv /\ [PrivacyNext]_privacyVars =>
        [\A r \in rows : ~Kept(r) /\ r.subject \in held =>
           \E w \in Executions : exec'[w] # exec[w] /\ r.subject \in exec[w].outrun]_privacyVars
  BY RemovesUnheld
<1> QED
  BY <1>1, PrivacyInvariance, PTL DEF PrivacySpec, HoldsStop
=============================================================================
