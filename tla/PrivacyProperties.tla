--------------------------- MODULE PrivacyProperties ---------------------------
(* What consent, holds and retention promise (see Privacy).                *)
EXTENDS Privacy

ExecutionPcs == {"idle", "sweep", "next", "schedule", "hold", "delete", "look",
                 "finish", "failing"}
Rows == [subject : Subjects, kind : Kinds, id : 1..MaxRows, old : BOOLEAN]

(* TYPE.  The values the variables take. *)
PrivacyTypeOK ==
  /\ chosen \subseteq Subjects
  /\ rows \subseteq Rows /\ written \in 0..MaxRows
  /\ Len(requests) <= MaxRequests
  /\ requests \in Seq([subject : Subjects, status : RequestStatuses, old : BOOLEAN])
  /\ held \subseteq Subjects
  /\ exec \in [Executions -> [pc : ExecutionPcs, heldKeys : SUBSET Subjects,
                              queue : SUBSET DOMAIN requests, locked : BOOLEAN,
                              deleted : SUBSET Rows, began : 0..MaxRows,
                              remains : BOOLEAN, outrun : SUBSET Subjects]]
  /\ faults \in 0..MaxFaults

(* SAFETY (action).  A deletion request becomes completed only when no row *)
(* of its subject that was there when its transaction began is left,       *)
(* whatever the batch limit, the writers and another execution do          *)
(* (subjectRowsRemain, retention.js:310).                                  *)
ErasedWhenCompleted ==
  [][\A k \in DOMAIN requests :
       (requests[k].status # "completed" /\ requests'[k].status = "completed") =>
         \E w \in Executions :
           /\ At(w, "finish") /\ Request(w) = k
           /\ \A r \in rows' : r.subject = requests[k].subject => r.id > exec[w].began
    ]_privacyVars

(* SAFETY (action).  Retention removes no row of a subject under a legal   *)
(* hold, except by a transaction that had read the holds before this one   *)
(* was placed (getHeldSubjectKeys, the hold query of                       *)
(* processSubjectRequest).                                                 *)
Kept(r) == \E q \in rows' : /\ q.subject = r.subject /\ q.kind = r.kind
                            /\ q.id = r.id \/ r.kind = "failure"
HoldsStop ==
  [][\A r \in rows : ~Kept(r) /\ r.subject \in held =>
       \E w \in Executions : exec'[w] # exec[w] /\ r.subject \in exec[w].outrun]_privacyVars

(* LIVENESS.  An approved deletion request is completed in the end,        *)
(* through failures, crashes and batches, unless its subject is held or as *)
(* many newer requests as one execution takes are waiting: those are taken *)
(* first, and held ones never leave (retention.js:386).                    *)
Approved(k) == k \in DOMAIN requests /\ requests[k].status = "approved"
Crowded(k) == Cardinality(Newer(k)) >= BatchSize
Settled(k) ==
  /\ k \in DOMAIN requests
  /\ \/ requests[k].status \in {"completed", "removed"}
     \/ requests[k].subject \in held
     \/ Crowded(k)
DeletionSettles == \A k \in 1..MaxRequests : Approved(k) ~> Settled(k)

(* The retention function runs every day, Inngest repeats an execution     *)
(* that failed, and its statements end.                                    *)
PrivacyFairness == \A w \in Executions : WF_privacyVars(RetentionStep(w))

PrivacySpec == PrivacyInit /\ [][PrivacyNext]_privacyVars /\ PrivacyFairness
=============================================================================
