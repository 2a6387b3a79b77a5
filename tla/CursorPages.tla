------------------------------ MODULE CursorPages ------------------------------
(***************************************************************************)
(* Reading a long list page by page with a cursor, as every list of the    *)
(* application is read, while rows come and go.  A list is ordered by a    *)
(* business key and then by the identifier; a page is one query for the    *)
(* rows beyond the cursor, and one row more than it shows tells whether    *)
(* there is another page.                                                  *)
(*                                                                         *)
(* The pages send a cursor with the filters it was made for.  A cursor     *)
(* that another list, filter, organization or employee made, or that was   *)
(* altered, is refused or ignored by its decoder and is not modelled.      *)
(***************************************************************************)
EXTENDS Integers, Sequences, FiniteSets

CONSTANTS
  MaxAt,       \* bound on the business keys 0 .. MaxAt: moments, dates or numbers
  Millisecond, \* moments of the database in a millisecond
  Ids,         \* identifiers of rows
  PageSize     \* rows of a page

ASSUME CursorPagesAssumption ==
  /\ MaxAt \in Nat /\ Millisecond \in Nat \ {0}
  /\ Ids \subseteq Nat /\ PageSize \in Nat \ {0}

VARIABLES
  list,     \* the list that is read
  present,  \* its rows
  ever,     \* those that have been in it since the first page was asked for
  pages,    \* the pages shown, each the set of its rows
  cursor    \* of the next page

cursorVars == <<list, present, ever, pages, cursor>>

ListRows == [at : 0..MaxAt, id : Ids]
FirstPage == [kind |-> "first"]
LastPage == [kind |-> "none"]
RefusedCursor == [kind |-> "refused"]

-----------------------------------------------------------------------------
(* The cursors.  PostgreSQL keeps microseconds; a moment that has been a   *)
(* JavaScript Date has milliseconds.                                       *)
Truncated(at) == (at \div Millisecond) * Millisecond
Codec(truncates, expires) == [truncates |-> truncates, expires |-> expires]
AttendanceCursor == Codec(TRUE, FALSE)
AuditCursor == Codec(TRUE, TRUE)
PrivacyCursor == Codec(TRUE, FALSE)
LeaveCursor == Codec(FALSE, FALSE)
TimecardCursor == Codec(FALSE, FALSE)
PayrollCursor == Codec(FALSE, FALSE)
SelfServiceCursor == Codec(FALSE, TRUE)
CursorTo(codec, row) ==
  [kind |-> "at", at |-> IF codec.truncates THEN Truncated(row.at) ELSE row.at,
   id |-> row.id]

(* The lists.  The employees are ordered by identifier only, and a full    *)
(* page of them has a next one: no row is taken more than is shown.        *)
List(ascending, codec, keyed) ==
  [ascending |-> ascending, codec |-> codec, keyed |-> keyed]
getEmployeeAttendance == List(FALSE, AttendanceCursor, TRUE)
getAttendanceReview == List(FALSE, AttendanceCursor, TRUE)
getAuditHistory == List(FALSE, AuditCursor, TRUE)
listPrivacyRequests == List(FALSE, PrivacyCursor, TRUE)
getEmployeeLeaveRequests == List(FALSE, LeaveCursor, TRUE)
getLeaveReviewQueue == List(TRUE, LeaveCursor, TRUE)
getEmployeeTimecards == List(FALSE, TimecardCursor, TRUE)
getTimecardReviewQueue == List(TRUE, TimecardCursor, TRUE)
listPayrollRuns == List(FALSE, PayrollCursor, TRUE)
getPayrollRun == List(TRUE, PayrollCursor, TRUE)
listApprovedTimecards == List(FALSE, SelfServiceCursor, TRUE)
listPayslips == List(FALSE, SelfServiceCursor, TRUE)
getEmployees == List(TRUE, Codec(FALSE, FALSE), FALSE)
Lists == {getEmployeeAttendance, getAttendanceReview, getAuditHistory, listPrivacyRequests,
          getEmployeeLeaveRequests, getLeaveReviewQueue, getEmployeeTimecards,
          getTimecardReviewQueue, listPayrollRuns, getPayrollRun, listApprovedTimecards,
          listPayslips, getEmployees}

(* `order by key, id', and the condition a cursor adds.                    *)
Past(a, b) == IF list.ascending THEN a > b ELSE a < b
Beyond_KeyOnly(row, place) == list.keyed /\ Past(row.at, place.at)
Beyond(row, place) ==
  \/ list.keyed /\ Past(row.at, place.at)
  \/ (list.keyed => row.at = place.at) /\ Past(row.id, place.id)

-----------------------------------------------------------------------------
(* A page is the first PageSize of the rows beyond the cursor, and the     *)
(* cursor of the next is made of its last row.                             *)
LastOf(row, page) == row \in page /\ \A q \in page : ~Beyond(q, row)
FirstRows(page, rows) ==
  /\ Cardinality(page) = IF Cardinality(rows) < PageSize THEN Cardinality(rows) ELSE PageSize
  /\ \A row \in page, q \in rows \ page : ~Beyond(row, q)
HasMore(rows) ==
  IF list.keyed THEN Cardinality(rows) > PageSize ELSE Cardinality(rows) >= PageSize
ReadPage ==
  LET rows == {r \in present : cursor = FirstPage \/ Beyond(r, cursor)}
  IN /\ cursor.kind \in {"first", "at"}
     /\ \E page \in SUBSET rows :
          /\ FirstRows(page, rows)
          /\ pages' = Append(pages, page)
          /\ IF HasMore(rows)
             THEN \E last \in page : LastOf(last, page) /\ cursor' = CursorTo(list.codec, last)
             ELSE cursor' = LastPage
     /\ ever' = IF cursor = FirstPage THEN present ELSE ever
     /\ UNCHANGED <<list, present>>

(* The signature of some cursors has a term: the page is refused, and the  *)
(* reader begins again.                                                    *)
ExpireCursor ==
  /\ list.codec.expires /\ cursor.kind = "at"
  /\ cursor' = RefusedCursor
  /\ UNCHANGED <<list, present, ever, pages>>
StartOver ==
  /\ cursor = RefusedCursor
  /\ cursor' = FirstPage /\ pages' = <<>> /\ ever' = {}
  /\ UNCHANGED <<list, present>>

(* A row is inserted, or comes to match the filters; one is deleted or no  *)
(* longer matches, and may match again.  The key of a row does not change. *)
Shown == UNION {pages[p] : p \in DOMAIN pages}
RowAppears(row) ==
  /\ row \notin present
  /\ \A r \in present \cup Shown : r.id = row.id => r = row
  /\ present' = present \cup {row}
  /\ UNCHANGED <<list, ever, pages, cursor>>
RowLeaves(row) ==
  /\ present' = present \ {row}
  /\ ever' = ever \ {row}
  /\ UNCHANGED <<list, pages, cursor>>

CursorPagesInit ==
  /\ list \in Lists
  /\ present = {} /\ ever = {}
  /\ pages = <<>> /\ cursor = FirstPage

CursorPagesNext ==
  \/ ReadPage
  \/ ExpireCursor
  \/ StartOver
  \/ \E row \in ListRows : RowAppears(row)
  \/ \E row \in present : RowLeaves(row)

CursorPagesSpec == CursorPagesInit /\ [][CursorPagesNext]_cursorVars

-----------------------------------------------------------------------------
(* TYPE.  The values the variables take. *)
CursorPagesTypeOK ==
  /\ list \in Lists
  /\ present \subseteq ListRows /\ ever \subseteq present
  /\ pages \in Seq(SUBSET ListRows)
  /\ cursor \in {FirstPage, LastPage, RefusedCursor} \cup
                 {[kind |-> "at", at |-> r.at, id |-> r.id] : r \in ListRows}

(* SAFETY.  However rows come and go while a list is read, no row is shown *)
(* twice, and by the last page every row that was there all along has been *)
(* shown.  A cursor whose moment has lost its microseconds passes over the *)
(* rows of the millisecond in which a page ended, and no others            *)
(* (addCursor, pageResult and their siblings).                             *)
EndsIn(row) ==
  \E p \in DOMAIN pages : \E last \in pages[p] :
    LastOf(last, pages[p]) /\ Truncated(last.at) = Truncated(row.at)
ShownOnce == \A p, q \in DOMAIN pages : p # q => pages[p] \cap pages[q] = {}
Missed == ever \ Shown
ListedOnce ==
  /\ ShownOnce
  /\ cursor = LastPage => \A row \in Missed : list.codec.truncates /\ EndsIn(row)
=============================================================================
