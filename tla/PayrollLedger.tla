---------------------------- MODULE PayrollLedger ----------------------------
(***************************************************************************)
(* What the confirmed runs of an organization promise to whoever reads     *)
(* them as its pay history, whoever previews, confirms, edits employees    *)
(* or changes the schedule meanwhile:                                      *)
(*                                                                         *)
(*   - the ledger only grows, by one closed period at a time, and only     *)
(*     once the period before it is settled;                               *)
(*   - a period starts the day after the one before it ends: no day is     *)
(*     paid twice and none is skipped;                                     *)
(*   - an entry holds what an administrator was shown for that period, and *)
(*     keeps it.                                                           *)
(*                                                                         *)
(* PayrollConfirmation implements this specification (see its Ledger).     *)
(***************************************************************************)
EXTENDS Integers, FiniteSets

VARIABLES
  today,     \* the date in the organization's timezone
  offers,    \* what has been shown: each offer has a period and a content
  ledger,    \* the offers that became runs
  open       \* the periods of the ledger that are not settled yet

vars == <<today, offers, ledger, open>>

Init == offers = {} /\ ledger = {} /\ open = {}

(* A preview shows one more offer, for a period that has ended. *)
Offer ==
  /\ UNCHANGED <<today, ledger, open>>
  /\ offers \subseteq offers'
  /\ \A o \in offers' \ offers : o.period.first <= o.period.last /\ o.period.last < today

(* A confirmation enters one of them; it follows all that is in the ledger. *)
Enter ==
  /\ open = {}
  /\ \E o \in offers :
       /\ o.period.last < today
       /\ \A e \in ledger : e.period.last < o.period.first
       /\ ledger # {} => \E e \in ledger : e.period.last + 1 = o.period.first
       /\ ledger' = ledger \cup {o}
       /\ open' = {o.period}
  /\ UNCHANGED <<today, offers>>

Settle == open # {} /\ open' = {} /\ UNCHANGED <<today, offers, ledger>>

Tomorrow == today' = today + 1 /\ UNCHANGED <<offers, ledger, open>>

Next == Offer \/ Enter \/ Settle \/ Tomorrow

Spec == Init /\ [][Next]_vars
=============================================================================
