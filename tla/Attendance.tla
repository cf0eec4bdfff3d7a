----------------------------- MODULE Attendance -----------------------------
(***************************************************************************)
(* The attendance of one session (apps/attendance): the session, the links *)
(* its trainer gets, the roster that the first link locks, the submission  *)
(* with its entries and evidence, the reviews and the corrections.         *)
(*                                                                         *)
(* Every service locks the session's row, alone or by select_related, and  *)
(* reads what it decides on afterwards: each is one step. Services that    *)
(* PostgreSQL aborts, having locked link and session in opposite orders,   *)
(* change nothing. The course around the session moves on its own.         *)
(***************************************************************************)
EXTENDS Naturals, FiniteSets, Sequences

CONSTANTS Trainees, Links, NoLink,
          Values,           \* AttendanceEntry.Value
          Capacity,
          MaxFiles,         \* MAX_EVIDENCE_FILES
          MaxReviews,       \* bound: reviews of the submission
          MaxCorrections    \* bound: corrections

ASSUME NoLinkAssumption == NoLink \notin Links
ASSUME BoundsAssumption ==
  /\ Capacity \in Nat /\ MaxFiles \in Nat
  /\ MaxReviews \in Nat /\ MaxCorrections \in Nat

VARIABLES
  course,       \* "planned", "active", "completed" or "archived"
  assigned,     \* the trainer is assigned to the course
  enrolled,     \* the active enrollments of the course
  session,      \* "none", "scheduled", "archived"
  roster,       \* the session's participants
  linkState,    \* of each link: "none", "active", "submitted", "revoked"
  unexpired,    \* the links whose expires_at is in the future
  state,        \* of the submission, "none" before it
  via,          \* its trainer_link
  entries, files,
  reviews, corrections

around == <<course, assigned, enrolled>>
links == <<linkState, unexpired>>
submission == <<state, via, entries, files>>
history == <<reviews, corrections>>
vars == <<around, session, roster, links, submission, history>>

\* Bug: a sheet has the enrollments of the day instead of the participants.
SheetsOfToday == [enrolled -> Values]

\* One entry for each participant, which is what the locked roster has.
Sheets == [roster -> Values]
NoEntries == [t \in {} |-> NoLink]

Init ==
  /\ course = "planned"
  /\ assigned = FALSE
  /\ enrolled \in SUBSET Trainees
  /\ session = "none"
  /\ roster = {}
  /\ linkState = [l \in Links |-> "none"]
  /\ unexpired = {}
  /\ state = "none"
  /\ via = NoLink
  /\ entries = NoEntries
  /\ files = 0
  /\ reviews = <<>>
  /\ corrections = <<>>

-----------------------------------------------------------------------------
(* Around the session *)

\* Status changes, archiving and restoring of the course, in their own modules.
MoveCourse(c) ==
  /\ c # course
  /\ course' = c
  /\ assigned' = (assigned /\ c # "archived")    \* archiving ends assignments
  /\ UNCHANGED <<enrolled, session, roster, links, submission, history>>

ReplaceCourseTrainers ==
  /\ course # "archived"
  /\ assigned' = ~assigned
  /\ UNCHANGED <<course, enrolled, session, roster, links, submission, history>>

ChangeEnrollment(t) ==
  /\ course \notin {"completed", "archived"}
  /\ enrolled' = IF t \in enrolled THEN enrolled \ {t} ELSE enrolled \cup {t}
  /\ Cardinality(enrolled') <= Capacity
  /\ UNCHANGED <<course, assigned, session, roster, links, submission, history>>

-----------------------------------------------------------------------------
(* The session and its links *)

\* One occurrence; the others of a recurrence are sessions of their own.
CreateSessions ==
  /\ session = "none"
  /\ course \notin {"completed", "archived"}
  /\ assigned
  /\ session' = "scheduled"
  /\ UNCHANGED <<around, roster, links, submission, history>>

Revoked(states) == [l \in Links |-> IF states[l] = "active" THEN "revoked" ELSE states[l]]

\* Bug: a submitted session is archived as well.
ArchiveSubmitted ==
  /\ session = "scheduled"
  /\ course # "archived"
  /\ session' = "archived"
  /\ linkState' = Revoked(linkState)
  /\ UNCHANGED <<around, roster, unexpired, submission, history>>

ArchiveSession ==
  /\ session = "scheduled"
  /\ course # "archived"
  /\ state = "none"
  /\ session' = "archived"
  /\ linkState' = Revoked(linkState)
  /\ UNCHANGED <<around, roster, unexpired, submission, history>>

\* The first link locks the roster; a later one needs the same enrollments.
IssueTrainerLink(l) ==
  /\ session = "scheduled"
  /\ course # "archived"
  /\ state = "none"
  /\ linkState[l] = "none"
  /\ enrolled # {} /\ Cardinality(enrolled) <= Capacity
  /\ roster \in {{}, enrolled}
  /\ roster' = enrolled
  /\ linkState' = [Revoked(linkState) EXCEPT ![l] = "active"]
  /\ unexpired' = unexpired \cup {l}
  /\ UNCHANGED <<around, session, submission, history>>

Expire(l) ==
  /\ l \in unexpired
  /\ unexpired' = unexpired \ {l}
  /\ UNCHANGED <<around, session, roster, linkState, submission, history>>

-----------------------------------------------------------------------------
(* Submission *)

\* The first submission of the session, or the next after a rejection.
MaySubmit(l) == state # "none" => state = "rejected" /\ via = l

\* Bug: the evidence of earlier submissions is not counted.
SubmitManyFiles(l, sheet, added) ==
  /\ linkState[l] = "active"
  /\ l \in unexpired
  /\ session # "archived"
  /\ MaySubmit(l)
  /\ state' = "pending_review"
  /\ via' = l
  /\ entries' = sheet
  /\ files' = files + added
  /\ linkState' = [linkState EXCEPT ![l] = "submitted"]
  /\ UNCHANGED <<around, session, roster, unexpired, history>>

\* Neither the course nor the trainer's assignment is looked at any more.
SubmitAttendance(l, sheet, added) ==
  /\ linkState[l] = "active"
  /\ l \in unexpired
  /\ session # "archived"
  /\ MaySubmit(l)
  /\ files + added <= MaxFiles
  /\ state' = "pending_review"
  /\ via' = l
  /\ entries' = sheet
  /\ files' = files + added
  /\ linkState' = [linkState EXCEPT ![l] = "submitted"]
  /\ UNCHANGED <<around, session, roster, unexpired, history>>

-----------------------------------------------------------------------------
(* Review and correction *)

\* Bug: the review keeps no snapshot of what it decided on.
ReviewBlind(decision) ==
  /\ course = "active"
  /\ session # "archived"
  /\ state = "pending_review"
  /\ Len(reviews) < MaxReviews
  /\ reviews' = Append(reviews, [decision |-> decision, snapshot |-> NoEntries])
  /\ state' = decision
  /\ IF decision = "rejected"
     THEN /\ linkState' = [linkState EXCEPT ![via] = "active"]
          /\ unexpired' = unexpired \cup {via}
     ELSE UNCHANGED links
  /\ UNCHANGED <<around, session, roster, via, entries, files, corrections>>

\* By the project's supervisor. A rejection opens the same link once more.
ReviewAttendance(decision) ==
  /\ course = "active"
  /\ session # "archived"
  /\ state = "pending_review"
  /\ Len(reviews) < MaxReviews
  /\ reviews' = Append(reviews, [decision |-> decision, snapshot |-> entries])
  /\ state' = decision
  /\ IF decision = "rejected"
     THEN /\ linkState' = [linkState EXCEPT ![via] = "active"]
          /\ unexpired' = unexpired \cup {via}
     ELSE UNCHANGED links
  /\ UNCHANGED <<around, session, roster, via, entries, files, corrections>>

CorrectAttendance(sheet) ==
  /\ state = "approved"
  /\ sheet # entries
  /\ Len(corrections) < MaxCorrections
  /\ entries' = sheet
  /\ corrections' = Append(corrections, [before |-> entries, after |-> sheet])
  /\ UNCHANGED <<around, session, roster, links, state, via, files, reviews>>

-----------------------------------------------------------------------------
Courses == {"planned", "active", "completed", "archived"}
Decisions == {"approved", "rejected"}

Next ==
  \/ \E c \in Courses : MoveCourse(c)
  \/ ReplaceCourseTrainers
  \/ \E t \in Trainees : ChangeEnrollment(t)
  \/ CreateSessions
  \/ ArchiveSession
  \/ \E l \in Links : IssueTrainerLink(l) \/ Expire(l)
  \/ \E l \in Links, sheet \in Sheets, n \in 0..MaxFiles : SubmitAttendance(l, sheet, n)
  \/ \E d \in Decisions : ReviewAttendance(d)
  \/ \E sheet \in Sheets : CorrectAttendance(sheet)

Spec == Init /\ [][Next]_vars

-----------------------------------------------------------------------------
(* Properties *)

TypeOK ==
  /\ course \in Courses
  /\ assigned \in BOOLEAN
  /\ enrolled \subseteq Trainees
  /\ session \in {"none", "scheduled", "archived"}
  /\ roster \subseteq Trainees
  /\ linkState \in [Links -> {"none", "active", "submitted", "revoked"}]
  /\ unexpired \subseteq Links
  /\ state \in {"none", "pending_review"} \cup Decisions
  /\ via \in Links \cup {NoLink}
  /\ files \in 0..MaxFiles

\* There is one way in at most, and none behind a decision: no two links of a
\* session are active, the link of a submission is open exactly while it is
\* rejected and closed while it waits or is approved, and an archived session
\* has neither an active link nor a submission, whatever was issued, rejected
\* or archived in between (attendance/services.py:191, 228, 359, 397, 493).
Active == {l \in Links : linkState[l] = "active"}
OneWayIn ==
  /\ Cardinality(Active) <= 1
  /\ state # "none" => Active = IF state = "rejected" THEN {via} ELSE {}
  /\ session = "archived" => Active = {} /\ state = "none"

\* The sheet always covers exactly the roster that the first link locked, and
\* a correction or a resubmission never meets "The attendance roster changed
\* unexpectedly." (attendance/services.py:408, 552), whoever enrolls or leaves.
SheetCoversRoster == state # "none" => DOMAIN entries = roster

\* Today's entries can be told from history alone: only the last review may
\* be an approval, the state is what it decided, and what it approved followed
\* by every correction in turn gives the entries (attendance/services.py:553).
HistoryExplains ==
  /\ \A i \in 1..(Len(reviews) - 1) : reviews[i].decision = "rejected"
  /\ state \in Decisions =>
       reviews # <<>> /\ reviews[Len(reviews)].decision = state
  /\ state \notin Decisions /\ reviews # <<>> =>
       reviews[Len(reviews)].decision = "rejected"
  /\ state # "approved" => corrections = <<>>
  /\ state = "approved" =>
       LET sheets == <<reviews[Len(reviews)].snapshot>>
                       \o [i \in DOMAIN corrections |-> corrections[i].after]
       IN /\ \A i \in DOMAIN corrections : corrections[i].before = sheets[i]
          /\ entries = sheets[Len(sheets)]
=============================================================================
