-------------------------- MODULE AttendanceProofs --------------------------
(***************************************************************************)
(* For every set of trainees and links and every bound: there is at most   *)
(* one way into the attendance of a session, its sheet covers the roster   *)
(* that the first link locked, and the history explains today's entries.   *)
(***************************************************************************)
EXTENDS Attendance, FiniteSetTheorems, SequenceTheorems, TLAPS

\* All the sheets there can be.
AnySheet == {NoEntries} \cup UNION {[s -> Values] : s \in SUBSET Trainees}

\* A submission has its link, a sheet of the roster and a history.
Submitted ==
  /\ state # "none" => via \in Links /\ entries \in Sheets
  /\ entries \in AnySheet
  /\ reviews \in Seq([decision : Decisions, snapshot : AnySheet])
  /\ corrections \in Seq([before : AnySheet, after : AnySheet])

\* OneWayIn without counting: the active links, and where they may be.
OneActive ==
  /\ \A l, m \in Active : l = m
  /\ state # "none" => Active = IF state = "rejected" THEN {via} ELSE {}
  /\ session = "archived" => Active = {} /\ state = "none"

\* The sheet before correction i, the current one when there is no correction i.
SheetBefore(i) == IF i = 1 THEN reviews[Len(reviews)].snapshot ELSE corrections[i - 1].after

\* HistoryExplains without concatenation: each correction starts from the sheet
\* the one before it left.
Explained ==
  /\ \A i \in 1..(Len(reviews) - 1) : reviews[i].decision = "rejected"
  /\ state \in Decisions =>
       reviews # <<>> /\ reviews[Len(reviews)].decision = state
  /\ state \notin Decisions /\ reviews # <<>> =>
       reviews[Len(reviews)].decision = "rejected"
  /\ state # "approved" => corrections = <<>>
  /\ state = "approved" =>
       /\ \A i \in 1..Len(corrections) : corrections[i].before = SheetBefore(i)
       /\ entries = SheetBefore(Len(corrections) + 1)

\* The inductive invariant.
IInv == TypeOK /\ Submitted /\ OneActive /\ Explained

USE NoLinkAssumption, BoundsAssumption

\* Before the session there is no link, no submission and no history.
LEMMA InitIInv == Init => IInv
<1> SUFFICES ASSUME Init PROVE IInv
  OBVIOUS
<1>1. TypeOK
  <2>1. assigned \in BOOLEAN
    BY Zenon DEF Init
  <2> QED
    BY <2>1 DEF Init, TypeOK, Courses, Decisions
<1>2. Submitted
  BY DEF Init, Submitted, AnySheet
<1>3. OneActive
  BY DEF Init, OneActive, Active
<1>4. Explained
  BY DEF Init, Explained, Decisions
<1> QED
  BY <1>1, <1>2, <1>3, <1>4 DEF IInv

\* Types are kept: the evidence never passes its limit.
LEMMA TypingStep == TypeOK /\ Submitted /\ [Next]_vars => TypeOK'
<1> SUFFICES ASSUME TypeOK, Submitted, [Next]_vars PROVE TypeOK'
  OBVIOUS
<1> USE DEF TypeOK, Courses, Decisions, around, links, submission, history
<1>1. ASSUME NEW c \in Courses, MoveCourse(c) PROVE TypeOK'
  <2>1. assigned' \in BOOLEAN
    BY Zenon, <1>1 DEF MoveCourse
  <2> QED
    BY <1>1, <2>1 DEF MoveCourse
<1>2. CASE ReplaceCourseTrainers
  <2>1. assigned' \in BOOLEAN
    BY Zenon, <1>2 DEF ReplaceCourseTrainers
  <2> QED
    BY <1>2, <2>1 DEF ReplaceCourseTrainers
<1>3. ASSUME NEW t \in Trainees, ChangeEnrollment(t) PROVE TypeOK'
  BY <1>3 DEF ChangeEnrollment
<1>4. CASE CreateSessions
  BY <1>4 DEF CreateSessions
<1>5. CASE ArchiveSession
  BY <1>5 DEF ArchiveSession, Revoked
<1>6. ASSUME NEW l \in Links, IssueTrainerLink(l) PROVE TypeOK'
  <2>1. linkState' \in [Links -> {"none", "active", "submitted", "revoked"}]
    BY <1>6 DEF IssueTrainerLink, Revoked
  <2> QED
    BY <1>6, <2>1 DEF IssueTrainerLink
<1>7. ASSUME NEW l \in Links, Expire(l) PROVE TypeOK'
  BY <1>7 DEF Expire
<1>8. ASSUME NEW l \in Links, NEW sheet \in Sheets, NEW n \in 0..MaxFiles,
             SubmitAttendance(l, sheet, n)
      PROVE  TypeOK'
  <2>1. files' \in 0..MaxFiles
    BY <1>8 DEF SubmitAttendance
  <2> QED
    BY <1>8, <2>1 DEF SubmitAttendance
<1>9. ASSUME NEW d \in Decisions, ReviewAttendance(d) PROVE TypeOK'
  <2>1. /\ linkState' \in [Links -> {"none", "active", "submitted", "revoked"}]
        /\ unexpired' \subseteq Links
    BY <1>9 DEF ReviewAttendance, Submitted
  <2> QED
    BY <1>9, <2>1 DEF ReviewAttendance
<1>10. ASSUME NEW sheet \in Sheets, CorrectAttendance(sheet) PROVE TypeOK'
  BY <1>10 DEF CorrectAttendance
<1>11. CASE UNCHANGED vars
  BY <1>11 DEF vars
<1> QED
  BY <1>1, <1>2, <1>3, <1>4, <1>5, <1>6, <1>7, <1>8, <1>9, <1>10, <1>11 DEF Next

\* The locked roster is the domain of every sheet that is accepted, and history
\* only grows.
LEMMA SubmittedStep == TypeOK /\ Submitted /\ [Next]_vars => Submitted'
<1> SUFFICES ASSUME TypeOK, Submitted, [Next]_vars PROVE Submitted'
  OBVIOUS
<1> USE DEF Submitted, Sheets, around, links, submission, history
<1>0. \A s \in SUBSET Trainees : [s -> Values] \subseteq AnySheet
  BY DEF AnySheet
<1>a. AnySheet' = AnySheet
  BY DEF AnySheet, NoEntries
<1>1. ASSUME NEW c \in Courses, MoveCourse(c) PROVE Submitted'
  BY <1>1, <1>a DEF MoveCourse
<1>2. ASSUME NEW t \in Trainees, ChangeEnrollment(t) PROVE Submitted'
  BY <1>2, <1>a DEF ChangeEnrollment
<1>3. CASE ReplaceCourseTrainers \/ CreateSessions \/ ArchiveSession
  BY <1>3, <1>a DEF ReplaceCourseTrainers, CreateSessions, ArchiveSession
<1>4. ASSUME NEW l \in Links, IssueTrainerLink(l) \/ Expire(l) PROVE Submitted'
  BY <1>4, <1>a DEF IssueTrainerLink, Expire
<1>5. ASSUME NEW l \in Links, NEW sheet \in Sheets, NEW n \in 0..MaxFiles,
             SubmitAttendance(l, sheet, n)
      PROVE  Submitted'
  <2>1. entries' \in Sheets' /\ entries' \in AnySheet /\ via' \in Links
    BY <1>0, <1>5 DEF SubmitAttendance, TypeOK
  <2> QED
    BY <1>5, <1>a, <2>1 DEF SubmitAttendance
<1>6. ASSUME NEW d \in Decisions, ReviewAttendance(d) PROVE Submitted'
  <2>1. [decision |-> d, snapshot |-> entries] \in [decision : Decisions, snapshot : AnySheet]
    OBVIOUS
  <2>2. reviews' \in Seq([decision : Decisions, snapshot : AnySheet])
    BY <1>6, <2>1, AppendProperties DEF ReviewAttendance
  <2> QED
    BY <1>6, <1>a, <2>2 DEF ReviewAttendance
<1>7. ASSUME NEW sheet \in Sheets, CorrectAttendance(sheet) PROVE Submitted'
  <2>1. sheet \in AnySheet
    BY <1>0 DEF TypeOK
  <2>2. [before |-> entries, after |-> sheet] \in [before : AnySheet, after : AnySheet]
    BY <2>1
  <2>3. corrections' \in Seq([before : AnySheet, after : AnySheet])
    BY <1>7, <2>2, AppendProperties DEF CorrectAttendance
  <2> QED
    BY <1>7, <1>a, <2>1, <2>3 DEF CorrectAttendance
<1>8. CASE UNCHANGED vars
  BY <1>8, <1>a DEF vars
<1> QED
  BY <1>1, <1>2, <1>3, <1>4, <1>5, <1>6, <1>7, <1>8 DEF Next

\* A link is made active only where no submission waits or is approved, after
\* all others are revoked, or again by the rejection of its own submission.
LEMMA OneActiveStep == TypeOK /\ Submitted /\ OneActive /\ [Next]_vars => OneActive'
<1> SUFFICES ASSUME TypeOK, Submitted, OneActive, [Next]_vars PROVE OneActive'
  OBVIOUS
<1> USE DEF TypeOK, Submitted, OneActive, Decisions, around, links, submission, history
<1>1. ASSUME linkState' = linkState PROVE Active' = Active
  BY <1>1 DEF Active
<1>2. ASSUME NEW c \in Courses, MoveCourse(c) PROVE OneActive'
  BY <1>1, <1>2 DEF MoveCourse
<1>3. ASSUME NEW t \in Trainees, ChangeEnrollment(t) PROVE OneActive'
  BY <1>1, <1>3 DEF ChangeEnrollment
<1>4. CASE ReplaceCourseTrainers
  BY <1>1, <1>4 DEF ReplaceCourseTrainers
<1>5. CASE CreateSessions
  BY <1>1, <1>5 DEF CreateSessions
<1>6. CASE ArchiveSession
  <2>1. Active' = {}
    BY <1>6 DEF ArchiveSession, Revoked, Active
  <2> QED
    BY <1>6, <2>1 DEF ArchiveSession
<1>7. ASSUME NEW l \in Links, IssueTrainerLink(l) PROVE OneActive'
  <2>1. Active' = {l}
    BY <1>7 DEF IssueTrainerLink, Revoked, Active
  <2> QED
    BY <1>7, <2>1 DEF IssueTrainerLink
<1>8. ASSUME NEW l \in Links, Expire(l) PROVE OneActive'
  BY <1>1, <1>8 DEF Expire
<1>9. ASSUME NEW l \in Links, NEW sheet \in Sheets, NEW n \in 0..MaxFiles,
             SubmitAttendance(l, sheet, n)
      PROVE  OneActive'
  <2>1. Active = {l}
    BY <1>9 DEF SubmitAttendance, Active
  <2>2. Active' = {}
    BY <1>9, <2>1 DEF SubmitAttendance, Active
  <2> QED
    BY <1>9, <2>2 DEF SubmitAttendance
<1>10. ASSUME NEW d \in Decisions, ReviewAttendance(d) PROVE OneActive'
  <2>1. Active = {} /\ via \in Links
    BY <1>10 DEF ReviewAttendance
  <2>2. CASE d = "rejected"
    <3>1. Active' = {via}
      BY <1>10, <2>1, <2>2 DEF ReviewAttendance, Active
    <3> QED
      BY <1>10, <2>2, <3>1 DEF ReviewAttendance
  <2>3. CASE d # "rejected"
    BY <1>1, <1>10, <2>1, <2>3 DEF ReviewAttendance
  <2> QED
    BY <2>2, <2>3
<1>11. ASSUME NEW sheet \in Sheets, CorrectAttendance(sheet) PROVE OneActive'
  BY <1>1, <1>11 DEF CorrectAttendance
<1>12. CASE UNCHANGED vars
  BY <1>1, <1>12 DEF vars
<1> QED
  BY <1>2, <1>3, <1>4, <1>5, <1>6, <1>7, <1>8, <1>9, <1>10, <1>11, <1>12 DEF Next

\* Only a review changes the reviews and only a correction the corrections, each
\* by what it did; no correction precedes the approval.
LEMMA ExplainedStep == TypeOK /\ Submitted /\ Explained /\ [Next]_vars => Explained'
<1> SUFFICES ASSUME TypeOK, Submitted, Explained, [Next]_vars PROVE Explained'
  OBVIOUS
<1> DEFINE Reviews == [decision : Decisions, snapshot : AnySheet]
           Corrections == [before : AnySheet, after : AnySheet]
<1> USE DEF around, links, submission, history
<1>0. /\ reviews \in Seq(Reviews) /\ corrections \in Seq(Corrections)
      /\ Len(reviews) \in Nat /\ Len(corrections) \in Nat
      /\ (reviews = <<>> <=> Len(reviews) = 0)
      /\ entries \in AnySheet
  BY EmptySeq, LenProperties DEF Submitted
<1>1. ASSUME UNCHANGED <<state, entries, history>> PROVE Explained'
  BY <1>1 DEF Explained, SheetBefore
<1>2. ASSUME NEW c \in Courses, MoveCourse(c) PROVE Explained'
  BY <1>1, <1>2 DEF MoveCourse
<1>3. ASSUME NEW t \in Trainees, ChangeEnrollment(t) PROVE Explained'
  BY <1>1, <1>3 DEF ChangeEnrollment
<1>4. CASE ReplaceCourseTrainers \/ CreateSessions \/ ArchiveSession
  BY <1>1, <1>4 DEF ReplaceCourseTrainers, CreateSessions, ArchiveSession
<1>5. ASSUME NEW l \in Links, IssueTrainerLink(l) \/ Expire(l) PROVE Explained'
  BY <1>1, <1>5 DEF IssueTrainerLink, Expire
<1>6. ASSUME NEW l \in Links, NEW sheet \in Sheets, NEW n \in 0..MaxFiles,
             SubmitAttendance(l, sheet, n)
      PROVE  Explained'
  <2>1. /\ state \in {"none", "rejected"} /\ state' = "pending_review"
        /\ reviews' = reviews /\ corrections' = corrections
    BY <1>6 DEF SubmitAttendance, MaySubmit
  <2>2. reviews # <<>> => reviews[Len(reviews)].decision = "rejected"
    BY <2>1 DEF Explained, Decisions
  <2> QED
    BY <2>1, <2>2 DEF Explained, Decisions
<1>7. ASSUME NEW d \in Decisions, ReviewAttendance(d) PROVE Explained'
  <2> DEFINE n == Len(reviews)
             new == [decision |-> d, snapshot |-> entries]
  <2>1. /\ state = "pending_review" /\ state' = d /\ reviews' = Append(reviews, new)
        /\ entries' = entries /\ corrections' = corrections
    BY <1>7 DEF ReviewAttendance
  <2>2. new \in Reviews
    BY <1>0
  <2>3. /\ Len(reviews') = n + 1 /\ reviews' # <<>> /\ reviews'[n + 1] = new
        /\ \A i \in 1..n : reviews'[i] = reviews[i]
    BY <1>0, <2>1, <2>2, AppendProperties
  <2>4. corrections = <<>> /\ Len(corrections) = 0
    BY <2>1, EmptySeq DEF Explained
  <2>5. \A i \in 1..n : reviews[i].decision = "rejected"
    BY <1>0, <2>1 DEF Explained, Decisions
  <2>6. \A i \in 1..(Len(reviews') - 1) : reviews'[i].decision = "rejected"
    BY <1>0, <2>3, <2>5
  <2>7. reviews'[Len(reviews')].decision = state' /\ state' \in Decisions
    BY <2>1, <2>3
  <2>8. entries' = SheetBefore(Len(corrections) + 1)'
    BY <1>0, <2>1, <2>3, <2>4 DEF SheetBefore
  <2>9. Len(corrections') = 0 /\ corrections' = <<>>
    BY <2>1, <2>4
  <2> QED
    BY <2>3, <2>6, <2>7, <2>8, <2>9 DEF Explained
<1>8. ASSUME NEW sheet \in Sheets, CorrectAttendance(sheet) PROVE Explained'
  <2> DEFINE n == Len(corrections)
             new == [before |-> entries, after |-> sheet]
  <2>1. /\ state = "approved" /\ state' = state /\ reviews' = reviews
        /\ entries' = sheet /\ corrections' = Append(corrections, new)
    BY <1>8 DEF CorrectAttendance
  <2>2. new \in Corrections
    <3>1. state # "none" /\ roster \in SUBSET Trainees
      BY <2>1 DEF TypeOK
    <3> QED
      BY <1>0, <3>1 DEF AnySheet, Sheets
  <2>3. /\ Len(corrections') = n + 1 /\ corrections'[n + 1] = new
        /\ \A i \in 1..n : corrections'[i] = corrections[i]
    BY <1>0, <2>1, <2>2, AppendProperties
  <2>4. /\ \A i \in 1..n : corrections[i].before = SheetBefore(i)
        /\ entries = SheetBefore(n + 1)
    BY <2>1 DEF Explained
  <2>5. \A i \in 1..(n + 1) : SheetBefore(i)' = SheetBefore(i)
    BY <1>0, <2>1, <2>3 DEF SheetBefore
  <2>6. \A i \in 1..Len(corrections') : corrections'[i].before = SheetBefore(i)'
    <3> SUFFICES ASSUME NEW i \in 1..(n + 1) PROVE corrections'[i].before = SheetBefore(i)'
      BY <2>3
    <3>1. CASE i = n + 1
      BY <1>0, <2>3, <2>4, <2>5, <3>1
    <3>2. CASE i \in 1..n
      BY <1>0, <2>3, <2>4, <2>5, <3>2
    <3> QED
      BY <1>0, <3>1, <3>2
  <2>7. entries' = SheetBefore(Len(corrections) + 1)'
    BY <1>0, <2>1, <2>3 DEF SheetBefore
  <2> QED
    BY <2>1, <2>6, <2>7 DEF Explained, Decisions
<1>9. CASE UNCHANGED vars
  BY <1>1, <1>9 DEF vars
<1> QED
  BY <1>2, <1>3, <1>4, <1>5, <1>6, <1>7, <1>8, <1>9 DEF Next

\* The invariant holds of every reachable state.
LEMMA Invariance == Spec => []IInv
<1>1. IInv /\ [Next]_vars => IInv'
  BY TypingStep, SubmittedStep, OneActiveStep, ExplainedStep DEF IInv
<1> QED
  BY InitIInv, <1>1, PTL DEF Spec

-----------------------------------------------------------------------------
\* The attendance of a session always has its types, the evidence within its
\* limit however many times it is submitted (attendance/services.py:369).
THEOREM TypeCorrect == Spec => []TypeOK
BY Invariance, PTL DEF IInv

\* At most one link is active, the one of a rejected submission once there is a
\* submission, none in an archived session (attendance/services.py:191, 228,
\* 359, 397, 493).
THEOREM NeverTwoWaysIn == Spec => []OneWayIn
<1>1. IInv => OneWayIn
  <2> SUFFICES ASSUME OneActive PROVE OneWayIn
    BY DEF IInv
  <2>1. CASE Active = {}
    BY <2>1, FS_EmptySet DEF OneActive, OneWayIn
  <2>2. CASE Active # {}
    <3>1. PICK l \in Active : TRUE
      BY <2>2
    <3>2. Active = {l}
      BY <3>1 DEF OneActive
    <3>3. Cardinality(Active) = 1
      BY <3>2, FS_Singleton
    <3> QED
      BY <3>3 DEF OneActive, OneWayIn
  <2> QED
    BY <2>1, <2>2
<1> QED
  BY <1>1, Invariance, PTL

\* The sheet covers exactly the locked roster, whoever enrolls or leaves
\* (attendance/services.py:408, 552).
THEOREM SheetCovered == Spec => []SheetCoversRoster
<1>1. IInv => SheetCoversRoster
  BY DEF IInv, Submitted, SheetCoversRoster, Sheets
<1> QED
  BY <1>1, Invariance, PTL

\* Today's entries are the approved snapshot followed by every correction in
\* turn (attendance/services.py:553).
THEOREM HistoryComplete == Spec => []HistoryExplains
<1>1. IInv => HistoryExplains
  <2> SUFFICES ASSUME Submitted, Explained PROVE HistoryExplains
    BY DEF IInv
  <2> DEFINE n == Len(corrections)
             base == reviews[Len(reviews)].snapshot
             after == [i \in DOMAIN corrections |-> corrections[i].after]
             sheets == <<base>> \o after
  <2> SUFFICES ASSUME state = "approved"
               PROVE  /\ \A i \in DOMAIN corrections : corrections[i].before = sheets[i]
                      /\ entries = sheets[Len(sheets)]
    BY DEF Explained, HistoryExplains
  <2>1. n \in Nat /\ DOMAIN corrections = 1..n
    BY LenProperties DEF Submitted
  <2>2. reviews # <<>> /\ Len(reviews) \in Nat \ {0}
    BY EmptySeq DEF Explained, Decisions, Submitted
  <2>3. base \in AnySheet
    <3>1. Len(reviews) \in 1..Len(reviews)
      BY <2>2
    <3>2. reviews[Len(reviews)] \in [decision : Decisions, snapshot : AnySheet]
      BY <3>1, ElementOfSeq DEF Submitted
    <3> QED
      BY <3>2
  <2>4. \A i \in 1..n : corrections[i].after \in AnySheet
    <3> SUFFICES ASSUME NEW i \in 1..n PROVE corrections[i].after \in AnySheet
      OBVIOUS
    <3>1. corrections[i] \in [before : AnySheet, after : AnySheet]
      BY ElementOfSeq DEF Submitted
    <3> QED
      BY <3>1
  <2>5. after \in Seq(AnySheet) /\ Len(after) = n
    BY <2>1, <2>4
  <2>6. <<base>> \in Seq(AnySheet) /\ Len(<<base>>) = 1 /\ <<base>>[1] = base
    BY <2>3
  <2>7. /\ Len(sheets) = n + 1
        /\ \A i \in 1..(n + 1) : sheets[i] = IF i <= 1 THEN <<base>>[i] ELSE after[i - 1]
    <3> HIDE DEF base, after
    <3> QED
      BY <2>1, <2>5, <2>6, ConcatProperties
  <2>8. \A i \in 1..(n + 1) : sheets[i] = SheetBefore(i)
    BY <2>1, <2>6, <2>7 DEF SheetBefore
  <2> HIDE DEF sheets
  <2> QED
    BY <2>1, <2>7, <2>8 DEF Explained
<1> QED
  BY <1>1, Invariance, PTL
=============================================================================
