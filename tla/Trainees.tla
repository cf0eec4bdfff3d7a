------------------------------ MODULE Trainees ------------------------------
(***************************************************************************)
(* The enrollments of one course and its imports (apps/trainees). Every    *)
(* service but the preview locks the course's row (select_for_update locks *)
(* the rows of select_related too), so each is one step; a batch waits     *)
(* between preview and confirmation while enrollments and the capacity     *)
(* change. An identity is a normalised name and phone. Rows with and       *)
(* without an e-mail (valid, warning) are alike here.                      *)
(***************************************************************************)
EXTENDS Integers, Sequences, FiniteSetsExt

CONSTANTS Identities,
          Bad,              \* a row of a file that fails validation
          Batches,
          Capacities,
          MaxEnrollments,   \* bound: enrollments ever
          MaxRows           \* bound: rows of a file

ASSUME BadAssumption == Bad \notin Identities
ASSUME BoundsAssumption ==
  /\ Capacities \subseteq Nat \ {0} /\ Capacities # {}
  /\ MaxEnrollments \in Nat /\ MaxRows \in Nat \ {0}

VARIABLES
  open,         \* the course and project are not archived, it is not completed
  capacity,
  enrollments,  \* in the order of their primary keys
  batches

vars == <<open, capacity, enrollments, batches>>

Enrollment == [number : Nat \ {0}, key : Identities, person : Identities, archived : BOOLEAN]
Row == [key : Identities \cup {Bad}, class : {"valid", "duplicate", "error"},
        duplicate : 0..MaxEnrollments, created : 0..MaxEnrollments]
NoBatch == [status |-> "none", rows |-> <<>>]

Init ==
  /\ open = TRUE
  /\ capacity \in Capacities
  /\ enrollments = <<>>
  /\ batches = [b \in Batches |-> NoBatch]

-----------------------------------------------------------------------------
(* Helpers *)

Active == {i \in DOMAIN enrollments : ~enrollments[i].archived}
Holders(k) == {i \in DOMAIN enrollments : enrollments[i].key = k}

Numbers == {enrollments[i].number : i \in DOMAIN enrollments}

\* Bug: numbers start at zero.
NextNumberFromZero == Max({-1} \cup Numbers) + 1

\* Bug: the numbers of archived enrollments are given again.
NextNumberActive == Max({0} \cup {enrollments[i].number : i \in Active}) + 1

NextNumber == Max({0} \cup Numbers) + 1

\* CourseEnrollment.save derives the identity from the trainee.
Enroll(k, n) == [number |-> n, key |-> k, person |-> k, archived |-> FALSE]

-----------------------------------------------------------------------------
(* The course *)

UpdateCourse(c) ==
  /\ open
  /\ Cardinality(Active) <= c
  /\ capacity' = c
  /\ UNCHANGED <<open, enrollments, batches>>

ArchiveCourse ==
  /\ open
  /\ open' = FALSE
  /\ UNCHANGED <<capacity, enrollments, batches>>

RestoreCourse ==
  /\ ~open
  /\ open' = TRUE
  /\ UNCHANGED <<capacity, enrollments, batches>>

-----------------------------------------------------------------------------
(* One enrollment *)

CreateEnrollment(k) ==
  /\ open
  /\ Len(enrollments) < MaxEnrollments
  /\ Holders(k) = {}
  /\ Cardinality(Active) < capacity
  /\ enrollments' = Append(enrollments, Enroll(k, NextNumber))
  /\ UNCHANGED <<open, capacity, batches>>

UpdateEnrollment(i, k) ==
  /\ open
  /\ ~enrollments[i].archived
  /\ Holders(k) \subseteq {i}
  /\ enrollments' = [enrollments EXCEPT ![i].person = k, ![i].key = k]
  /\ UNCHANGED <<open, capacity, batches>>

\* Bug: a restore does not look at the capacity.
SetArchivedUnchecked(i, archived) ==
  /\ open
  /\ enrollments[i].archived # archived
  /\ enrollments' = [enrollments EXCEPT ![i].archived = archived]
  /\ UNCHANGED <<open, capacity, batches>>

SetEnrollmentArchived(i, archived) ==
  /\ open
  /\ enrollments[i].archived # archived
  /\ ~archived => Cardinality(Active) < capacity
  /\ enrollments' = [enrollments EXCEPT ![i].archived = archived]
  /\ UNCHANGED <<open, capacity, batches>>

-----------------------------------------------------------------------------
(* Imports *)

\* What the preview says of row n of a file, against the enrollments of now.
Classify(file, n) ==
  LET k == file[n]
      again == \E m \in 1..(n - 1) : file[m] = k
      holder == IF Holders(k) = {} THEN 0 ELSE CHOOSE i \in Holders(k) : TRUE
  IN [key |-> k,
      class |-> IF k = Bad THEN "error"
                ELSE IF holder # 0 \/ again THEN "duplicate" ELSE "valid",
      duplicate |-> holder,
      created |-> 0]

PreviewImport(b, file) ==
  /\ open
  /\ batches[b].status = "none"
  /\ batches' = [batches EXCEPT ![b] =
       [status |-> "preview", rows |-> [n \in DOMAIN file |-> Classify(file, n)]]]
  /\ UNCHANGED <<open, capacity, enrollments>>

RowsOf(b, class) == {n \in DOMAIN batches[b].rows : batches[b].rows[n].class = class}

\* The place of row n among the creating rows, which keep the order of the file.
Rank(b, n) == Cardinality({m \in RowsOf(b, "valid") : m <= n})

\* After the updates of the chosen duplicates come the new enrollments.
Imported(b, updates) ==
  LET rows == batches[b].rows
      updated(i) == \E n \in updates : rows[n].duplicate = i
  IN [i \in DOMAIN enrollments |->
        IF updated(i)
        THEN [enrollments[i] EXCEPT !.person =
                rows[CHOOSE n \in updates : rows[n].duplicate = i].key]
        ELSE enrollments[i]]
     \o [j \in 1..Cardinality(RowsOf(b, "valid")) |->
           Enroll(rows[CHOOSE n \in RowsOf(b, "valid") : Rank(b, n) = j].key,
                  NextNumber + j - 1)]

Resolved(b) ==
  [n \in DOMAIN batches[b].rows |->
     IF n \in RowsOf(b, "valid")
     THEN [batches[b].rows[n] EXCEPT !.created = Len(enrollments) + Rank(b, n)]
     ELSE batches[b].rows[n]]

\* Bug: the duplicate is updated whoever it is by now.
StillNew(b, updates) ==
  /\ \A n \in RowsOf(b, "valid") : Holders(batches[b].rows[n].key) = {}
  /\ \A n \in updates : batches[b].rows[n].duplicate # 0

\* Nothing of what the preview saw has changed in a way that matters.
StillValid(b, updates) ==
  /\ \A n \in RowsOf(b, "valid") : Holders(batches[b].rows[n].key) = {}
  /\ \A n \in updates : batches[b].rows[n].duplicate \in Holders(batches[b].rows[n].key)

\* updates are the duplicates to update, the others are skipped. Any refusal
\* on the way rolls everything back.
ConfirmImport(b, updates) ==
  LET rows == batches[b].rows
  IN /\ open
     /\ batches[b].status = "preview"
     /\ RowsOf(b, "error") = {}
     /\ updates \subseteq RowsOf(b, "duplicate")
     /\ Cardinality(Active) + Cardinality(RowsOf(b, "valid")) <= capacity
     /\ StillValid(b, updates)
     /\ Len(enrollments) + Cardinality(RowsOf(b, "valid")) <= MaxEnrollments
     /\ enrollments' = Imported(b, updates)
     /\ batches' = [batches EXCEPT ![b] = [status |-> "confirmed", rows |-> Resolved(b)]]
     /\ UNCHANGED <<open, capacity>>

\* Bug: a confirmed batch can be cancelled.
CancelAnyway(b) ==
  /\ open
  /\ batches[b].status # "none"
  /\ batches' = [batches EXCEPT ![b].status = "cancelled"]
  /\ UNCHANGED <<open, capacity, enrollments>>

CancelImport(b) ==
  /\ open
  /\ batches[b].status = "preview"
  /\ batches' = [batches EXCEPT ![b].status = "cancelled"]
  /\ UNCHANGED <<open, capacity, enrollments>>

-----------------------------------------------------------------------------
Files == UNION {[1..n -> Identities \cup {Bad}] : n \in 1..MaxRows}

Next ==
  \/ \E c \in Capacities : UpdateCourse(c)
  \/ ArchiveCourse
  \/ RestoreCourse
  \/ \E k \in Identities : CreateEnrollment(k)
  \/ \E i \in DOMAIN enrollments, k \in Identities : UpdateEnrollment(i, k)
  \/ \E i \in DOMAIN enrollments, a \in BOOLEAN : SetEnrollmentArchived(i, a)
  \/ \E b \in Batches, file \in Files : PreviewImport(b, file)
  \/ \E b \in Batches, updates \in SUBSET (1..MaxRows) : ConfirmImport(b, updates)
  \/ \E b \in Batches : CancelImport(b)

Spec == Init /\ [][Next]_vars

-----------------------------------------------------------------------------
(* Properties *)

TypeOK ==
  /\ open \in BOOLEAN
  /\ capacity \in Capacities
  /\ \A i \in DOMAIN enrollments : enrollments[i] \in Enrollment
  /\ \A b \in Batches :
       /\ batches[b].status \in {"none", "preview", "confirmed", "cancelled"}
       /\ \A n \in DOMAIN batches[b].rows : batches[b].rows[n] \in Row

\* The active enrollments never exceed the capacity, which four services
\* change from both sides, one of them for many rows at once
\* (trainees/services.py:105, 200, 482, courses/services.py:119).
CapacityHeld == Cardinality(Active) <= capacity

\* No identity is enrolled twice, not even beside an archived enrollment, and
\* the identity kept with an enrollment is its trainee's, although an import
\* writes the trainee of a duplicate that was found at the preview, long before
\* (trainees/services.py:493-504).
IdentitiesAgree ==
  /\ \A k \in Identities : Cardinality(Holders(k)) <= 1
  /\ \A i \in DOMAIN enrollments : enrollments[i].person = enrollments[i].key

\* Numbers grow with every enrollment, alone or imported, and so are never
\* given again, not even when the holder of the highest is archived.
NumbersNeverReused ==
  \A i, j \in DOMAIN enrollments : i < j => enrollments[i].number < enrollments[j].number

\* A batch is imported once and whole: when confirmed each of its new rows has
\* its own enrollment and no other row has one; until then it has none.
ImportedOnce ==
  LET new == {bn \in Batches \X (1..MaxRows) :
                /\ bn[2] \in DOMAIN batches[bn[1]].rows
                /\ batches[bn[1]].rows[bn[2]].created # 0}
      made == {batches[bn[1]].rows[bn[2]].created : bn \in new}
  IN /\ \A b \in Batches :
          {n \in DOMAIN batches[b].rows : batches[b].rows[n].created # 0} =
             IF batches[b].status = "confirmed" THEN RowsOf(b, "valid") ELSE {}
     /\ Cardinality(made) = Cardinality(new)
     /\ made \subseteq DOMAIN enrollments
=============================================================================
