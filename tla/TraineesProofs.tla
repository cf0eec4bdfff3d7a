--------------------------- MODULE TraineesProofs ---------------------------
(***************************************************************************)
(* For every set of identities and batches and every bound: the enrollments*)
(* of a course stay within its capacity, no identity is enrolled twice, no *)
(* number is given twice, and a batch is imported once and whole.          *)
(***************************************************************************)
EXTENDS Trainees, FiniteSetTheorems, SequenceTheorems, TLAPS

\* The rows of a batch.
Rows == UNION {[1..n -> Row] : n \in 0..MaxRows}

Statuses == {"none", "preview", "confirmed", "cancelled"}

Typed ==
  /\ open \in BOOLEAN
  /\ capacity \in Capacities
  /\ enrollments \in Seq(Enrollment) /\ Len(enrollments) <= MaxEnrollments
  /\ batches \in [Batches -> [status : Statuses, rows : Rows]]

\* IdentitiesAgree without counting.
Distinct ==
  /\ \A i, j \in DOMAIN enrollments : enrollments[i].key = enrollments[j].key => i = j
  /\ \A i \in DOMAIN enrollments : enrollments[i].person = enrollments[i].key

\* The new rows of a batch are people, each named once.
NewPeople ==
  \A b \in Batches : \A m, n \in RowsOf(b, "valid") :
    /\ batches[b].rows[n].key \in Identities
    /\ batches[b].rows[m].key = batches[b].rows[n].key => m = n

\* Just the new rows of confirmed batches have an enrollment.
CreatedByConfirm ==
  \A b \in Batches : \A n \in DOMAIN batches[b].rows :
    /\ batches[b].rows[n].created # 0 <=>
         batches[b].status = "confirmed" /\ batches[b].rows[n].class = "valid"
    /\ batches[b].rows[n].created <= Len(enrollments)

\* No two rows have the same enrollment.
CreatedOnce ==
  \A b, c \in Batches : \A n \in DOMAIN batches[b].rows, m \in DOMAIN batches[c].rows :
    batches[b].rows[n].created = batches[c].rows[m].created /\ batches[b].rows[n].created # 0
      => b = c /\ n = m

\* The inductive invariant.
IInv ==
  /\ Typed /\ CapacityHeld /\ Distinct /\ NumbersNeverReused
  /\ NewPeople /\ CreatedByConfirm /\ CreatedOnce

USE BadAssumption, BoundsAssumption

-----------------------------------------------------------------------------
(* Helpers *)

\* Counting the members up to each numbers a finite set of numbers from 1.
LEMMA Counting ==
  ASSUME NEW k \in Nat, NEW V, V \subseteq 1..k
  PROVE  /\ IsFiniteSet(V) /\ Cardinality(V) \in Nat
         /\ [n \in V |-> Cardinality({m \in V : m <= n})] \in Bijection(V, 1..Cardinality(V))
<1> DEFINE Upto(n) == {m \in V : m <= n}
           R == [n \in V |-> Cardinality(Upto(n))]
<1>1. IsFiniteSet(V) /\ Cardinality(V) \in Nat
  <2>1. IsFiniteSet(1..k)
    BY FS_Interval
  <2>2. IsFiniteSet(V)
    BY <2>1, FS_Subset
  <2> QED
    BY <2>2, FS_CardinalityType
<1>2. \A n \in V : /\ IsFiniteSet(Upto(n)) /\ Cardinality(Upto(n)) \in Nat
                   /\ Cardinality(Upto(n)) <= Cardinality(V)
  BY <1>1, FS_Subset, FS_CardinalityType
<1>3. \A n \in V : Cardinality(Upto(n)) # 0
  BY <1>2, FS_EmptySet
<1>4. R \in [V -> 1..Cardinality(V)]
  BY <1>1, <1>2, <1>3
<1>5. ASSUME NEW m \in V, NEW n \in V, m < n PROVE R[m] # R[n]
  <2>1. Upto(m) \subseteq Upto(n) /\ n \in Upto(n) /\ n \notin Upto(m)
    <3>1. \A x \in V : x \in Int
      OBVIOUS
    <3>2. \A x \in V : x <= m => x <= n
      BY <1>5, <3>1
    <3>3. n <= n /\ ~(n <= m)
      BY <1>5, <3>1
    <3> QED
      BY Zenon, <3>2, <3>3
  <2>2. Cardinality(Upto(n)) # Cardinality(Upto(m))
    BY <1>2, <2>1, FS_Subset
  <2>3. R[m] = Cardinality(Upto(m)) /\ R[n] = Cardinality(Upto(n))
    OBVIOUS
  <2> QED
    BY <2>2, <2>3
<1>6. R \in Injection(V, 1..Cardinality(V))
  <2> SUFFICES ASSUME NEW m \in V, NEW n \in V, R[m] = R[n] PROVE m = n
    BY <1>4 DEF Injection, IsInjective
  <2> QED
    BY <1>5
<1>7. IsFiniteSet(1..Cardinality(V)) /\ Cardinality(1..Cardinality(V)) = Cardinality(V)
  BY <1>1, FS_Interval
<1>8. R \in Surjection(V, 1..Cardinality(V))
  BY <1>6, <1>7, FS_Injection
<1> QED
  BY <1>1, <1>6, <1>8 DEF Bijection

\* The active enrollments are counted, and so are the new rows of a batch.
LEMMA Finite ==
  ASSUME Typed
  PROVE  /\ Len(enrollments) \in Nat /\ DOMAIN enrollments = 1..Len(enrollments)
         /\ \A i \in 1..Len(enrollments) : enrollments[i] \in Enrollment
         /\ IsFiniteSet(Active) /\ Cardinality(Active) \in Nat
<1>1. /\ Len(enrollments) \in Nat /\ DOMAIN enrollments = 1..Len(enrollments)
      /\ \A i \in 1..Len(enrollments) : enrollments[i] \in Enrollment
  BY LenProperties, ElementOfSeq DEF Typed
<1>2. Active \subseteq 1..Len(enrollments)
  BY <1>1 DEF Active
<1>3. IsFiniteSet(1..Len(enrollments))
  BY <1>1, FS_Interval
<1>4. IsFiniteSet(Active)
  BY <1>2, <1>3, FS_Subset
<1> QED
  BY <1>1, <1>4, FS_CardinalityType

\* One more member counts at most one more.
LEMMA CountsOneMore ==
  ASSUME NEW S, NEW x, IsFiniteSet(S)
  PROVE  IsFiniteSet(S \cup {x}) /\ Cardinality(S \cup {x}) <= Cardinality(S) + 1
<1>1. /\ IsFiniteSet(S \cup {x})
      /\ Cardinality(S \cup {x}) = IF x \in S THEN Cardinality(S) ELSE Cardinality(S) + 1
  BY FS_AddElement
<1>2. Cardinality(S) \in Nat
  BY FS_CardinalityType
<1> QED
  BY <1>1, <1>2

\* The next number is above every number given.
LEMMA NextNumberAbove ==
  ASSUME Typed, NumbersNeverReused
  PROVE  /\ NextNumber \in Nat \ {0}
         /\ \A i \in DOMAIN enrollments : enrollments[i].number < NextNumber
<1> DEFINE L == Len(enrollments)
           top == IF L = 0 THEN 0 ELSE enrollments[L].number
           S == {0} \cup Numbers
<1>1. /\ L \in Nat /\ DOMAIN enrollments = 1..L
      /\ \A i \in 1..L : enrollments[i].number \in Nat \ {0}
  BY Finite DEF Enrollment
<1>2. \A i \in 1..L : enrollments[i].number <= top
  BY <1>1 DEF NumbersNeverReused
<1>3. top \in S /\ \A y \in S : y <= top
  BY <1>1, <1>2 DEF Numbers
<1>4. S \subseteq Nat
  BY <1>1 DEF Numbers
<1>5. Max(S) \in S /\ \A y \in S : Max(S) >= y
  <2> HIDE DEF S, top
  <2>1. \E x \in S : \A y \in S : x >= y
    BY <1>3, <1>4
  <2> QED
    BY <2>1 DEF Max
<1>6. NextNumber = Max(S) + 1
  BY DEF NextNumber
<1> HIDE DEF S
<1>7. \A i \in DOMAIN enrollments : enrollments[i].number \in S
  BY DEF S, Numbers
<1>8. Max(S) \in Nat
  BY <1>4, <1>5
<1>9. \A y \in S : y \in Nat /\ y <= Max(S)
  BY <1>4, <1>5
<1> QED
  BY <1>6, <1>7, <1>8, <1>9

\* The rows of a batch are numbered from 1.
LEMMA BatchRows ==
  ASSUME Typed, NEW b \in Batches
  PROVE  /\ batches[b].status \in Statuses
         /\ DOMAIN batches[b].rows \subseteq 1..MaxRows
         /\ \A n \in DOMAIN batches[b].rows : batches[b].rows[n] \in Row
<1>1. batches[b] \in [status : Statuses, rows : Rows]
  BY DEF Typed
<1>2. PICK k \in 0..MaxRows : batches[b].rows \in [1..k -> Row]
  BY <1>1 DEF Rows
<1> QED
  BY <1>1, <1>2

\* The ranks of the new rows of a batch number them from 1.
LEMMA Ranks ==
  ASSUME Typed, NEW b \in Batches
  PROVE  LET new == RowsOf(b, "valid")
         IN  /\ IsFiniteSet(new) /\ Cardinality(new) \in Nat
             /\ \A n \in new : Rank(b, n) \in 1..Cardinality(new)
             /\ \A m, n \in new : Rank(b, m) = Rank(b, n) => m = n
             /\ \A j \in 1..Cardinality(new) : \E n \in new : Rank(b, n) = j
<1> DEFINE V == RowsOf(b, "valid")
           R == [n \in V |-> Cardinality({m \in V : m <= n})]
<1>1. V \subseteq 1..MaxRows
  BY BatchRows DEF RowsOf
<1>2. IsFiniteSet(V) /\ Cardinality(V) \in Nat /\ R \in Bijection(V, 1..Cardinality(V))
  <2> HIDE DEF V
  <2> QED
    BY <1>1, Counting
<1>3. \A n \in V : R[n] = Rank(b, n)
  BY DEF Rank
<1> HIDE DEF V, R
<1>4. /\ \A n \in V : R[n] \in 1..Cardinality(V)
      /\ \A m, n \in V : R[m] = R[n] => m = n
      /\ \A j \in 1..Cardinality(V) : \E n \in V : R[n] = j
  BY <1>2 DEF Bijection, Injection, IsInjective, Surjection
<1>5. /\ \A n \in V : Rank(b, n) \in 1..Cardinality(V)
      /\ \A m, n \in V : Rank(b, m) = Rank(b, n) => m = n
      /\ \A j \in 1..Cardinality(V) : \E n \in V : Rank(b, n) = j
  BY <1>3, <1>4
<1> QED
  BY <1>2, <1>5 DEF V

\* A confirmed import leaves the enrollments there were as they are, for the
\* duplicates it updates are still who they were, and appends one for each new
\* row, with the next numbers.
LEMMA ImportedAppends ==
  ASSUME Typed, Distinct, NumbersNeverReused, NewPeople,
         NEW b \in Batches, NEW updates, updates \subseteq RowsOf(b, "duplicate"),
         StillValid(b, updates)
  PROVE  LET L == Len(enrollments)
             new == RowsOf(b, "valid")
         IN  /\ Imported(b, updates) \in Seq(Enrollment)
             /\ Len(Imported(b, updates)) = L + Cardinality(new)
             /\ \A i \in 1..L : Imported(b, updates)[i] = enrollments[i]
             /\ \A j \in 1..Cardinality(new) : \E n \in new :
                  /\ Rank(b, n) = j
                  /\ Imported(b, updates)[L + j] =
                       Enroll(batches[b].rows[n].key, NextNumber + j - 1)
<1> DEFINE L == Len(enrollments)
           rows == batches[b].rows
           V == RowsOf(b, "valid")
           C == Cardinality(V)
           updated(i) == \E n \in updates : rows[n].duplicate = i
           kept(i) == IF updated(i)
                      THEN [enrollments[i] EXCEPT !.person =
                              rows[CHOOSE n \in updates : rows[n].duplicate = i].key]
                      ELSE enrollments[i]
           old == [i \in DOMAIN enrollments |-> kept(i)]
           row(j) == CHOOSE n \in V : Rank(b, n) = j
           created == [j \in 1..C |-> Enroll(rows[row(j)].key, NextNumber + j - 1)]
<1>1. Imported(b, updates) = old \o created
  BY DEF Imported
<1>2. /\ L \in Nat /\ DOMAIN enrollments = 1..L
      /\ \A i \in 1..L : enrollments[i] \in Enrollment
  BY Finite
<1>3. \A i \in 1..L : kept(i) = enrollments[i]
  <2> SUFFICES ASSUME NEW i \in 1..L, updated(i) PROVE kept(i) = enrollments[i]
    OBVIOUS
  <2>1. PICK n \in updates :
          /\ n = CHOOSE m \in updates : rows[m].duplicate = i
          /\ rows[n].duplicate = i
    OBVIOUS
  <2>2. enrollments[i].key = rows[n].key
    BY <2>1 DEF StillValid, Holders
  <2>3. enrollments[i].person = rows[n].key
    BY <1>2, <2>2 DEF Distinct
  <2>4. kept(i) = [enrollments[i] EXCEPT !.person = enrollments[i].person]
    BY <2>1, <2>3
  <2> HIDE DEF kept
  <2> QED
    BY <1>2, <2>4 DEF Enrollment
<1>4. old \in Seq(Enrollment) /\ Len(old) = L /\ \A i \in 1..L : old[i] = enrollments[i]
  <2> HIDE DEF kept
  <2> QED
    BY <1>2, <1>3
<1>5. C \in Nat /\ \A j \in 1..C : row(j) \in V /\ Rank(b, row(j)) = j
  <2>1. \A j \in 1..C : \E n \in V : Rank(b, n) = j
    BY Ranks
  <2>2. C \in Nat
    BY Ranks
  <2> QED
    BY <2>1, <2>2
<1>6. \A j \in 1..C : Enroll(rows[row(j)].key, NextNumber + j - 1) \in Enrollment
  <2> SUFFICES ASSUME NEW j \in 1..C
               PROVE  Enroll(rows[row(j)].key, NextNumber + j - 1) \in Enrollment
    OBVIOUS
  <2>1. rows[row(j)].key \in Identities
    BY <1>5 DEF NewPeople
  <2>2. NextNumber \in Nat \ {0}
    BY NextNumberAbove
  <2>3. NextNumber + j - 1 \in Nat \ {0}
    BY <1>5, <2>2
  <2> HIDE DEF row, rows, C
  <2> QED
    BY <2>1, <2>3 DEF Enroll, Enrollment
<1>7. /\ created \in Seq(Enrollment) /\ Len(created) = C
      /\ \A j \in 1..C : created[j] = Enroll(rows[row(j)].key, NextNumber + j - 1)
  <2> HIDE DEF row, rows, C
  <2> QED
    BY <1>5, <1>6
<1> HIDE DEF old, created
<1>8. /\ old \o created \in Seq(Enrollment) /\ Len(old \o created) = L + C
      /\ \A i \in 1..(L + C) :
           (old \o created)[i] = IF i <= L THEN old[i] ELSE created[i - L]
  <2>1. /\ old \o created \in Seq(Enrollment)
        /\ Len(old \o created) = Len(old) + Len(created)
        /\ \A i \in 1..(Len(old) + Len(created)) :
             (old \o created)[i] = IF i <= Len(old) THEN old[i] ELSE created[i - Len(old)]
    <3>1. old \in Seq(Enrollment) /\ created \in Seq(Enrollment)
      BY Zenon, <1>4, <1>7
    <3> QED
      BY SMTT(20), <3>1, ConcatProperties
  <2> QED
    BY Zenon, <1>4, <1>7, <2>1
<1>9. \A i \in 1..L : (old \o created)[i] = enrollments[i]
  BY <1>2, <1>4, <1>5, <1>8
<1>10. \A j \in 1..C : (old \o created)[L + j] = created[j]
  BY <1>2, <1>5, <1>8
<1>11. \A j \in 1..C : \E n \in V :
         /\ Rank(b, n) = j
         /\ (old \o created)[L + j] = Enroll(rows[n].key, NextNumber + j - 1)
  BY <1>5, <1>7, <1>10
<1> QED
  BY <1>1, <1>8, <1>9, <1>11

-----------------------------------------------------------------------------
(* What the operations write *)

\* A new enrollment is appended.
LEMMA Created ==
  ASSUME Typed, NumbersNeverReused, NEW k \in Identities, CreateEnrollment(k)
  PROVE  LET L == Len(enrollments)
         IN  /\ enrollments' \in Seq(Enrollment) /\ Len(enrollments') = L + 1
             /\ L < MaxEnrollments
             /\ \A i \in 1..L : enrollments'[i] = enrollments[i]
             /\ enrollments'[L + 1] = Enroll(k, NextNumber)
<1>1. Enroll(k, NextNumber) \in Enrollment
  BY NextNumberAbove DEF Enroll, Enrollment
<1>2. enrollments \in Seq(Enrollment)
  BY DEF Typed
<1>3. enrollments' = Append(enrollments, Enroll(k, NextNumber)) /\ Len(enrollments) < MaxEnrollments
  BY DEF CreateEnrollment
<1> QED
  BY <1>1, <1>2, <1>3, AppendProperties

\* An edit changes one enrollment.
LEMMA Edited ==
  ASSUME Typed, NEW i \in 1..Len(enrollments), NEW e \in Enrollment,
         enrollments' = [enrollments EXCEPT ![i] = e]
  PROVE  /\ enrollments' \in Seq(Enrollment) /\ Len(enrollments') = Len(enrollments)
         /\ DOMAIN enrollments' = 1..Len(enrollments)
         /\ \A j \in 1..Len(enrollments) :
              enrollments'[j] = IF j = i THEN e ELSE enrollments[j]
<1>1. enrollments \in Seq(Enrollment)
  BY DEF Typed
<1>2. /\ enrollments' \in Seq(Enrollment) /\ Len(enrollments') = Len(enrollments)
      /\ \A j \in 1..Len(enrollments) :
           enrollments'[j] = IF j = i THEN e ELSE enrollments[j]
  BY <1>1, ExceptSeq
<1> QED
  BY <1>2, LenProperties

\* An update writes the identity with the trainee.
LEMMA Updated ==
  ASSUME Typed, NEW i \in DOMAIN enrollments, NEW k \in Identities, UpdateEnrollment(i, k)
  PROVE  /\ enrollments' \in Seq(Enrollment) /\ Len(enrollments') = Len(enrollments)
         /\ DOMAIN enrollments' = 1..Len(enrollments)
         /\ \A j \in 1..Len(enrollments) :
              enrollments'[j] = IF j = i THEN [enrollments[i] EXCEPT !.person = k, !.key = k]
                                ELSE enrollments[j]
<1> DEFINE e == [enrollments[i] EXCEPT !.person = k, !.key = k]
<1>1. i \in 1..Len(enrollments) /\ enrollments[i] \in Enrollment
  BY Finite
<1>2. e \in Enrollment
  BY <1>1 DEF Enrollment
<1>3. enrollments' = [enrollments EXCEPT ![i] = e]
  BY DEF UpdateEnrollment
<1> HIDE DEF e
<1>4. /\ enrollments' \in Seq(Enrollment) /\ Len(enrollments') = Len(enrollments)
      /\ DOMAIN enrollments' = 1..Len(enrollments)
      /\ \A j \in 1..Len(enrollments) :
           enrollments'[j] = IF j = i THEN e ELSE enrollments[j]
  BY <1>1, <1>2, <1>3, Edited
<1> QED
  BY <1>4 DEF e

\* Archiving and restoring write the flag.
LEMMA Archived ==
  ASSUME Typed, NEW i \in DOMAIN enrollments, NEW a \in BOOLEAN, SetEnrollmentArchived(i, a)
  PROVE  /\ enrollments' \in Seq(Enrollment) /\ Len(enrollments') = Len(enrollments)
         /\ DOMAIN enrollments' = 1..Len(enrollments)
         /\ \A j \in 1..Len(enrollments) :
              enrollments'[j] = IF j = i THEN [enrollments[i] EXCEPT !.archived = a]
                                ELSE enrollments[j]
<1> DEFINE e == [enrollments[i] EXCEPT !.archived = a]
<1>1. i \in 1..Len(enrollments) /\ enrollments[i] \in Enrollment
  BY Finite
<1>2. e \in Enrollment
  BY <1>1 DEF Enrollment
<1>3. enrollments' = [enrollments EXCEPT ![i] = e]
  BY DEF SetEnrollmentArchived
<1> HIDE DEF e
<1>4. /\ enrollments' \in Seq(Enrollment) /\ Len(enrollments') = Len(enrollments)
      /\ DOMAIN enrollments' = 1..Len(enrollments)
      /\ \A j \in 1..Len(enrollments) :
           enrollments'[j] = IF j = i THEN e ELSE enrollments[j]
  BY <1>1, <1>2, <1>3, Edited
<1> QED
  BY <1>4 DEF e

\* A preview writes rows without enrollments; the new ones are people the file
\* names for the first time.
LEMMA Previewed ==
  ASSUME Typed, NEW b \in Batches, NEW file \in Files, PreviewImport(b, file)
  PROVE  /\ batches' \in [Batches -> [status : Statuses, rows : Rows]]
         /\ \A c \in Batches \ {b} : batches'[c] = batches[c]
         /\ batches'[b].status = "preview"
         /\ \A n \in DOMAIN batches'[b].rows : batches'[b].rows[n].created = 0
         /\ \A m, n \in DOMAIN batches'[b].rows :
              batches'[b].rows[m].class = "valid" /\ batches'[b].rows[n].class = "valid" =>
                /\ batches'[b].rows[n].key \in Identities
                /\ batches'[b].rows[m].key = batches'[b].rows[n].key => m = n
<1> DEFINE rows == [n \in DOMAIN file |-> Classify(file, n)]
<1>1. PICK k \in 1..MaxRows : file \in [1..k -> Identities \cup {Bad}]
  BY DEF Files
<1>2. ASSUME NEW n \in 1..k
      PROVE  /\ Classify(file, n) \in Row /\ Classify(file, n).created = 0
             /\ Classify(file, n).key = file[n]
             /\ Classify(file, n).class = "valid" =>
                  file[n] # Bad /\ \A m \in 1..(n - 1) : file[m] # file[n]
  <2> DEFINE holder == IF Holders(file[n]) = {} THEN 0
                       ELSE CHOOSE i \in Holders(file[n]) : TRUE
             again == \E m \in 1..(n - 1) : file[m] = file[n]
             class == IF file[n] = Bad THEN "error"
                      ELSE IF holder # 0 \/ again THEN "duplicate" ELSE "valid"
  <2>1. Len(enrollments) \in Nat /\ Holders(file[n]) \subseteq 1..Len(enrollments)
    BY Finite DEF Holders
  <2>2. holder \in 0..MaxEnrollments
    BY <2>1 DEF Typed
  <2>3. Classify(file, n) = [key |-> file[n], class |-> class, duplicate |-> holder, created |-> 0]
    BY DEF Classify
  <2>4. file[n] \in Identities \cup {Bad} /\ class \in {"valid", "duplicate", "error"}
    BY <1>1
  <2>5. class = "valid" => file[n] # Bad /\ ~again
    OBVIOUS
  <2> HIDE DEF class, holder
  <2> QED
    BY <2>2, <2>3, <2>4, <2>5 DEF Row
<1>3. DOMAIN rows = 1..k /\ \A n \in 1..k : rows[n] = Classify(file, n)
  BY <1>1
<1>4. rows \in Rows
  <2>1. rows \in [1..k -> Row]
    BY <1>1, <1>2
  <2> QED
    BY <2>1 DEF Rows
<1>5. batches' = [batches EXCEPT ![b] = [status |-> "preview", rows |-> rows]]
  BY DEF PreviewImport
<1> HIDE DEF rows
<1>6. batches'[b].status = "preview" /\ batches'[b].rows = rows
  BY <1>5 DEF Typed
<1>7. \A n \in DOMAIN rows : rows[n].created = 0
  BY <1>2, <1>3
<1>8. ASSUME NEW m \in DOMAIN rows, NEW n \in DOMAIN rows,
             rows[m].class = "valid", rows[n].class = "valid"
      PROVE  /\ rows[n].key \in Identities
             /\ rows[m].key = rows[n].key => m = n
  <2>1. /\ m \in 1..k /\ n \in 1..k /\ rows[m].key = file[m] /\ rows[n].key = file[n]
        /\ file[n] # Bad
        /\ \A l \in 1..(n - 1) : file[l] # file[n]
        /\ \A l \in 1..(m - 1) : file[l] # file[m]
    BY <1>2, <1>3, <1>8
  <2>2. file[m] = file[n] => ~(m < n) /\ ~(n < m)
    BY <2>1
  <2> QED
    BY <1>1, <2>1, <2>2
<1>9. batches' \in [Batches -> [status : Statuses, rows : Rows]]
  BY <1>4, <1>5 DEF Typed, Statuses
<1>10. \A c \in Batches \ {b} : batches'[c] = batches[c]
  BY <1>5 DEF Typed
<1> QED
  BY <1>6, <1>7, <1>8, <1>9, <1>10

\* A confirmation gives each new row the enrollment of its rank, after the
\* enrollments there were, and leaves the other rows as they are.
LEMMA Confirmed ==
  ASSUME Typed, NEW b \in Batches, NEW updates, ConfirmImport(b, updates)
  PROVE  LET rows == batches[b].rows
             new == RowsOf(b, "valid")
             L == Len(enrollments)
         IN  /\ batches' \in [Batches -> [status : Statuses, rows : Rows]]
             /\ \A c \in Batches \ {b} : batches'[c] = batches[c]
             /\ batches'[b].status = "confirmed"
             /\ DOMAIN batches'[b].rows = DOMAIN rows
             /\ \A n \in DOMAIN rows :
                  /\ batches'[b].rows[n].key = rows[n].key
                  /\ batches'[b].rows[n].class = rows[n].class
                  /\ n \in new => batches'[b].rows[n].created = L + Rank(b, n)
                  /\ n \notin new => batches'[b].rows[n].created = rows[n].created
<1> DEFINE rows == batches[b].rows
           V == RowsOf(b, "valid")
           C == Cardinality(V)
           L == Len(enrollments)
<1>1. batches[b] \in [status : Statuses, rows : Rows]
  BY DEF Typed
<1>2. PICK k \in 0..MaxRows : rows \in [1..k -> Row]
  BY <1>1 DEF Rows
<1>3. \A n \in V : L + Rank(b, n) \in 0..MaxEnrollments
  <2>1. L \in Nat /\ C \in Nat /\ L + C <= MaxEnrollments
    BY Finite, Ranks DEF ConfirmImport
  <2>2. \A n \in V : Rank(b, n) \in 1..C
    BY Ranks
  <2> HIDE DEF L, V, C
  <2> QED
    BY <2>1, <2>2
<1>4. \A n \in 1..k :
        /\ Resolved(b)[n] \in Row
        /\ Resolved(b)[n].key = rows[n].key /\ Resolved(b)[n].class = rows[n].class
        /\ n \in V => Resolved(b)[n].created = L + Rank(b, n)
        /\ n \notin V => Resolved(b)[n].created = rows[n].created
  <2> SUFFICES ASSUME NEW n \in 1..k
               PROVE  /\ Resolved(b)[n] \in Row
                      /\ Resolved(b)[n].key = rows[n].key
                      /\ Resolved(b)[n].class = rows[n].class
                      /\ n \in V => Resolved(b)[n].created = L + Rank(b, n)
                      /\ n \notin V => Resolved(b)[n].created = rows[n].created
    OBVIOUS
  <2>1. rows[n] \in Row
    BY <1>2
  <2>2. Resolved(b)[n] = IF n \in V THEN [rows[n] EXCEPT !.created = L + Rank(b, n)] ELSE rows[n]
    BY <1>2 DEF Resolved
  <2>3. n \in V => L + Rank(b, n) \in 0..MaxEnrollments
    BY <1>3
  <2> HIDE DEF V, L, rows
  <2>4. CASE n \in V
    BY <2>1, <2>2, <2>3, <2>4 DEF Row
  <2>5. CASE n \notin V
    BY <2>1, <2>2, <2>5 DEF Row
  <2> QED
    BY <2>4, <2>5
<1>5. Resolved(b) \in Rows /\ DOMAIN Resolved(b) = 1..k
  <2>1. Resolved(b) \in [1..k -> Row]
    BY <1>2, <1>4 DEF Resolved
  <2> QED
    BY <2>1 DEF Rows
<1>6. batches' = [batches EXCEPT ![b] = [status |-> "confirmed", rows |-> Resolved(b)]]
  BY DEF ConfirmImport
<1>7. batches' \in [Batches -> [status : Statuses, rows : Rows]]
  BY <1>5, <1>6 DEF Typed, Statuses
<1>8. /\ \A c \in Batches \ {b} : batches'[c] = batches[c]
      /\ batches'[b].status = "confirmed" /\ batches'[b].rows = Resolved(b)
  BY <1>6 DEF Typed
<1>9. DOMAIN rows = 1..k
  BY <1>2
<1> QED
  BY <1>4, <1>5, <1>7, <1>8, <1>9

\* A confirmation changes no enrollment and appends one for each new row, of a
\* person who had none.
LEMMA Appended ==
  ASSUME Typed, Distinct, NumbersNeverReused, NewPeople,
         NEW b \in Batches, NEW updates, ConfirmImport(b, updates)
  PROVE  LET L == Len(enrollments)
             new == RowsOf(b, "valid")
             C == Cardinality(new)
         IN  /\ C \in Nat /\ L + C <= MaxEnrollments
             /\ enrollments' \in Seq(Enrollment) /\ Len(enrollments') = L + C
             /\ \A i \in 1..L : enrollments'[i] = enrollments[i]
             /\ \A j \in 1..C : \E n \in new :
                  /\ Rank(b, n) = j
                  /\ enrollments'[L + j] = Enroll(batches[b].rows[n].key, NextNumber + j - 1)
             /\ \A n \in new, i \in 1..L : enrollments[i].key # batches[b].rows[n].key
<1>1. /\ enrollments' = Imported(b, updates) /\ StillValid(b, updates)
      /\ updates \subseteq RowsOf(b, "duplicate")
      /\ Len(enrollments) + Cardinality(RowsOf(b, "valid")) <= MaxEnrollments
  BY DEF ConfirmImport
<1>2. Cardinality(RowsOf(b, "valid")) \in Nat
  BY Ranks
<1>3. \A n \in RowsOf(b, "valid"), i \in 1..Len(enrollments) :
        enrollments[i].key # batches[b].rows[n].key
  BY <1>1, Finite DEF StillValid, Holders
<1>4. LET L == Len(enrollments)
          new == RowsOf(b, "valid")
      IN  /\ Imported(b, updates) \in Seq(Enrollment)
          /\ Len(Imported(b, updates)) = L + Cardinality(new)
          /\ \A i \in 1..L : Imported(b, updates)[i] = enrollments[i]
          /\ \A j \in 1..Cardinality(new) : \E n \in new :
               /\ Rank(b, n) = j
               /\ Imported(b, updates)[L + j] =
                    Enroll(batches[b].rows[n].key, NextNumber + j - 1)
  BY <1>1, ImportedAppends
<1> QED
  BY Zenon, <1>1, <1>2, <1>3, <1>4

-----------------------------------------------------------------------------
(* Every step keeps the invariant *)

\* Before the course is used there are no enrollments and no imports.
LEMMA InitIInv == Init => IInv
<1> SUFFICES ASSUME Init PROVE IInv
  OBVIOUS
<1>1. DOMAIN enrollments = {} /\ Len(enrollments) = 0 /\ enrollments \in Seq(Enrollment)
  BY EmptySeq DEF Init
<1>2. \A b \in Batches : batches[b].status = "none" /\ DOMAIN batches[b].rows = {}
  BY DEF Init, NoBatch
<1>3. Typed
  <2>1. <<>> \in [1..0 -> Row]
    OBVIOUS
  <2>2. <<>> \in Rows
    BY <2>1 DEF Rows
  <2> QED
    BY <1>1, <2>2 DEF Init, NoBatch, Typed, Statuses
<1>4. CapacityHeld
  <2>1. Active = {}
    BY <1>1 DEF Active
  <2> QED
    BY <2>1, <1>3, FS_EmptySet DEF CapacityHeld, Typed
<1>5. Distinct /\ NumbersNeverReused
  BY <1>1 DEF Distinct, NumbersNeverReused
<1>6. NewPeople /\ CreatedByConfirm /\ CreatedOnce
  BY <1>2 DEF NewPeople, CreatedByConfirm, CreatedOnce, RowsOf
<1> QED
  BY <1>3, <1>4, <1>5, <1>6 DEF IInv

\* Types are kept, within the bounds.
LEMMA TypedStep == IInv /\ [Next]_vars => Typed'
<1> SUFFICES ASSUME IInv, [Next]_vars PROVE Typed'
  OBVIOUS
<1>0. Typed /\ Distinct /\ NumbersNeverReused /\ NewPeople /\ Len(enrollments) \in Nat
  BY Finite DEF IInv
<1> USE DEF Typed
<1>1. ASSUME NEW c \in Capacities, UpdateCourse(c) PROVE Typed'
  BY <1>0, <1>1 DEF UpdateCourse
<1>2. CASE ArchiveCourse \/ RestoreCourse
  BY <1>0, <1>2 DEF ArchiveCourse, RestoreCourse
<1>3. ASSUME NEW k \in Identities, CreateEnrollment(k) PROVE Typed'
  <2>1. enrollments' \in Seq(Enrollment) /\ Len(enrollments') <= MaxEnrollments
    BY <1>0, <1>3, Created
  <2> QED
    BY <1>0, <1>3, <2>1 DEF CreateEnrollment
<1>4. ASSUME NEW i \in DOMAIN enrollments, NEW k \in Identities, UpdateEnrollment(i, k) PROVE Typed'
  <2>1. enrollments' \in Seq(Enrollment) /\ Len(enrollments') = Len(enrollments)
    BY <1>0, <1>4, Updated
  <2> QED
    BY <1>0, <1>4, <2>1 DEF UpdateEnrollment
<1>5. ASSUME NEW i \in DOMAIN enrollments, NEW a \in BOOLEAN, SetEnrollmentArchived(i, a)
      PROVE  Typed'
  <2>1. enrollments' \in Seq(Enrollment) /\ Len(enrollments') = Len(enrollments)
    BY <1>0, <1>5, Archived
  <2> QED
    BY <1>0, <1>5, <2>1 DEF SetEnrollmentArchived
<1>6. ASSUME NEW b \in Batches, NEW file \in Files, PreviewImport(b, file) PROVE Typed'
  <2>1. batches' \in [Batches -> [status : Statuses, rows : Rows]]
    BY <1>0, <1>6, Previewed
  <2> QED
    BY <1>0, <1>6, <2>1 DEF PreviewImport
<1>7. ASSUME NEW b \in Batches, NEW updates \in SUBSET (1..MaxRows), ConfirmImport(b, updates)
      PROVE  Typed'
  <2>1. batches' \in [Batches -> [status : Statuses, rows : Rows]]
    BY <1>0, <1>7, Confirmed
  <2>2. enrollments' \in Seq(Enrollment) /\ Len(enrollments') <= MaxEnrollments
    BY <1>0, <1>7, Appended
  <2> QED
    BY <1>0, <1>7, <2>1, <2>2 DEF ConfirmImport
<1>8. ASSUME NEW b \in Batches, CancelImport(b) PROVE Typed'
  <2>1. batches[b] \in [status : Statuses, rows : Rows] /\ "cancelled" \in Statuses
    BY <1>0 DEF Statuses
  <2>2. batches' = [batches EXCEPT ![b] = [batches[b] EXCEPT !.status = "cancelled"]]
    BY <1>8 DEF CancelImport
  <2>3. [batches[b] EXCEPT !.status = "cancelled"] \in [status : Statuses, rows : Rows]
    BY <2>1
  <2> QED
    BY <1>0, <1>8, <2>2, <2>3 DEF CancelImport
<1>9. CASE UNCHANGED vars
  BY <1>0, <1>9 DEF vars
<1> QED
  BY <1>1, <1>2, <1>3, <1>4, <1>5, <1>6, <1>7, <1>8, <1>9 DEF Next

\* The services that add an active enrollment, and the one that lowers the
\* capacity, look at the other; an import counts all its new rows at once.
LEMMA CapacityStep == IInv /\ [Next]_vars => CapacityHeld'
<1> SUFFICES ASSUME IInv, [Next]_vars PROVE CapacityHeld'
  OBVIOUS
<1> DEFINE L == Len(enrollments)
<1>0. /\ Typed /\ Distinct /\ NumbersNeverReused /\ NewPeople
      /\ L \in Nat /\ DOMAIN enrollments = 1..L
      /\ IsFiniteSet(Active) /\ Cardinality(Active) \in Nat
      /\ capacity \in Nat /\ Cardinality(Active) <= capacity
  BY Finite DEF IInv, CapacityHeld, Typed
<1>a. ASSUME UNCHANGED <<capacity, enrollments>> PROVE CapacityHeld'
  BY <1>0, <1>a DEF CapacityHeld, Active
<1>1. ASSUME NEW c \in Capacities, UpdateCourse(c) PROVE CapacityHeld'
  BY <1>1 DEF UpdateCourse, CapacityHeld, Active
<1>2. CASE ArchiveCourse \/ RestoreCourse
  BY <1>a, <1>2 DEF ArchiveCourse, RestoreCourse
<1>3. ASSUME NEW k \in Identities, CreateEnrollment(k) PROVE CapacityHeld'
  <2>1. /\ enrollments' \in Seq(Enrollment) /\ Len(enrollments') = L + 1
        /\ \A i \in 1..L : enrollments'[i] = enrollments[i]
    BY <1>0, <1>3, Created
  <2>2. DOMAIN enrollments' = 1..(L + 1)
    BY <2>1, LenProperties
  <2>3. Active' \subseteq Active \cup {L + 1}
    BY <1>0, <2>1, <2>2 DEF Active
  <2>4. /\ IsFiniteSet(Active \cup {L + 1})
        /\ Cardinality(Active \cup {L + 1}) <= Cardinality(Active) + 1
    BY <1>0, CountsOneMore
  <2>5. IsFiniteSet(Active') /\ Cardinality(Active') <= Cardinality(Active \cup {L + 1})
    BY <2>3, <2>4, FS_Subset
  <2>6. Cardinality(Active') \in Nat /\ Cardinality(Active \cup {L + 1}) \in Nat
    BY <2>4, <2>5, FS_CardinalityType
  <2>7. Cardinality(Active) < capacity /\ capacity' = capacity
    BY <1>3 DEF CreateEnrollment
  <2> QED
    BY <1>0, <2>4, <2>5, <2>6, <2>7 DEF CapacityHeld
<1>4. ASSUME NEW i \in DOMAIN enrollments, NEW k \in Identities, UpdateEnrollment(i, k)
      PROVE  CapacityHeld'
  <2>1. /\ DOMAIN enrollments' = 1..L
        /\ \A j \in 1..L :
             enrollments'[j] = IF j = i THEN [enrollments[i] EXCEPT !.person = k, !.key = k]
                               ELSE enrollments[j]
    BY <1>0, <1>4, Updated
  <2>2. \A j \in 1..L : enrollments[j] \in Enrollment
    BY <1>0, Finite
  <2>3. Active' = Active
    BY <1>0, <2>1, <2>2 DEF Active, Enrollment
  <2> QED
    BY <1>0, <1>4, <2>3 DEF UpdateEnrollment, CapacityHeld
<1>5. ASSUME NEW i \in DOMAIN enrollments, NEW a \in BOOLEAN, SetEnrollmentArchived(i, a)
      PROVE  CapacityHeld'
  <2>1. /\ DOMAIN enrollments' = 1..L
        /\ \A j \in 1..L :
             enrollments'[j] = IF j = i THEN [enrollments[i] EXCEPT !.archived = a]
                               ELSE enrollments[j]
    BY <1>0, <1>5, Archived
  <2>2. \A j \in 1..L : enrollments[j] \in Enrollment
    BY <1>0, Finite
  <2>3. \A j \in 1..L : enrollments'[j].archived <=> IF j = i THEN a ELSE enrollments[j].archived
    BY <2>1, <2>2 DEF Enrollment
  <2>4. capacity' = capacity
    BY <1>5 DEF SetEnrollmentArchived
  <2>5. CASE a
    <3>1. Active' \subseteq Active
      BY Zenon, <1>0, <2>1, <2>3, <2>5 DEF Active
    <3>2. IsFiniteSet(Active') /\ Cardinality(Active') <= Cardinality(Active)
      BY <1>0, <3>1, FS_Subset
    <3>3. Cardinality(Active') \in Nat
      BY <3>2, FS_CardinalityType
    <3> QED
      BY <1>0, <2>4, <3>2, <3>3 DEF CapacityHeld
  <2>6. CASE ~a
    <3>1. Active' \subseteq Active \cup {i}
      BY Zenon, <1>0, <2>1, <2>3 DEF Active
    <3>2. IsFiniteSet(Active \cup {i}) /\ Cardinality(Active \cup {i}) <= Cardinality(Active) + 1
      BY <1>0, CountsOneMore
    <3>3. IsFiniteSet(Active') /\ Cardinality(Active') <= Cardinality(Active \cup {i})
      BY <3>1, <3>2, FS_Subset
    <3>4. Cardinality(Active') \in Nat /\ Cardinality(Active \cup {i}) \in Nat
      BY <3>2, <3>3, FS_CardinalityType
    <3>5. Cardinality(Active) < capacity
      BY <1>5, <2>6 DEF SetEnrollmentArchived
    <3> QED
      BY <1>0, <2>4, <3>2, <3>3, <3>4, <3>5 DEF CapacityHeld
  <2> QED
    BY <2>5, <2>6
<1>6. ASSUME NEW b \in Batches, NEW file \in Files, PreviewImport(b, file) PROVE CapacityHeld'
  BY <1>a, <1>6 DEF PreviewImport
<1>7. ASSUME NEW b \in Batches, NEW updates \in SUBSET (1..MaxRows), ConfirmImport(b, updates)
      PROVE  CapacityHeld'
  <2> DEFINE C == Cardinality(RowsOf(b, "valid"))
             news == (L + 1)..(L + C)
  <2>1. /\ C \in Nat /\ enrollments' \in Seq(Enrollment) /\ Len(enrollments') = L + C
        /\ \A i \in 1..L : enrollments'[i] = enrollments[i]
    BY <1>0, <1>7, Appended
  <2> HIDE DEF L
  <2>2. DOMAIN enrollments' = 1..(L + C)
    BY <2>1, LenProperties
  <2>3. Cardinality(Active) + C <= capacity /\ capacity' = capacity
    BY <1>7 DEF ConfirmImport
  <2> HIDE DEF C
  <2>4. Active' \subseteq Active \cup news
    BY <1>0, <2>1, <2>2 DEF Active
  <2>5. IsFiniteSet(news) /\ Cardinality(news) = C
    BY <1>0, <2>1, FS_Interval
  <2> HIDE DEF news
  <2>6. /\ IsFiniteSet(Active \cup news)
        /\ Cardinality(Active \cup news) = Cardinality(Active) + C - Cardinality(Active \cap news)
    BY <1>0, <2>5, FS_Union
  <2>7. Cardinality(Active \cap news) \in Nat
    <3>1. IsFiniteSet(Active \cap news)
      BY <1>0, FS_Intersection
    <3> QED
      BY <3>1, FS_CardinalityType
  <2>8. IsFiniteSet(Active') /\ Cardinality(Active') <= Cardinality(Active \cup news)
    BY <2>4, <2>6, FS_Subset
  <2>9. Cardinality(Active') \in Nat
    BY <2>8, FS_CardinalityType
  <2> QED
    BY <1>0, <2>1, <2>3, <2>6, <2>7, <2>8, <2>9 DEF CapacityHeld
<1>8. ASSUME NEW b \in Batches, CancelImport(b) PROVE CapacityHeld'
  BY <1>a, <1>8 DEF CancelImport
<1>9. CASE UNCHANGED vars
  BY <1>a, <1>9 DEF vars
<1> QED
  BY <1>1, <1>2, <1>3, <1>4, <1>5, <1>6, <1>7, <1>8, <1>9 DEF Next

\* Nobody is enrolled who was enrolled before: not alone, not by an edit, not by
\* an import, which looks again for every row when it is confirmed.
LEMMA DistinctStep == IInv /\ [Next]_vars => Distinct'
<1> SUFFICES ASSUME IInv, [Next]_vars PROVE Distinct'
  OBVIOUS
<1> DEFINE L == Len(enrollments)
<1>0. /\ Typed /\ Distinct /\ NumbersNeverReused /\ NewPeople
      /\ L \in Nat /\ DOMAIN enrollments = 1..L
      /\ \A i \in 1..L : enrollments[i] \in Enrollment
  BY Finite DEF IInv
<1>a. ASSUME UNCHANGED enrollments PROVE Distinct'
  BY <1>0, <1>a DEF Distinct
<1>1. ASSUME NEW c \in Capacities, UpdateCourse(c) PROVE Distinct'
  BY <1>a, <1>1 DEF UpdateCourse
<1>2. CASE ArchiveCourse \/ RestoreCourse
  BY <1>a, <1>2 DEF ArchiveCourse, RestoreCourse
<1>3. ASSUME NEW k \in Identities, CreateEnrollment(k) PROVE Distinct'
  <2>1. /\ enrollments' \in Seq(Enrollment) /\ Len(enrollments') = L + 1
        /\ \A i \in 1..L : enrollments'[i] = enrollments[i]
        /\ enrollments'[L + 1] = Enroll(k, NextNumber)
    BY <1>0, <1>3, Created
  <2>2. DOMAIN enrollments' = 1..(L + 1)
    BY <2>1, LenProperties
  <2>3. \A i \in 1..L : enrollments[i].key # k
    BY <1>0, <1>3 DEF CreateEnrollment, Holders
  <2>4. enrollments'[L + 1].key = k /\ enrollments'[L + 1].person = k
    BY <2>1 DEF Enroll
  <2> HIDE DEF L
  <2>5. \A i \in 1..(L + 1) : i \in 1..L \/ i = L + 1
    BY <1>0
  <2> QED
    BY <1>0, <2>1, <2>2, <2>3, <2>4, <2>5 DEF Distinct
<1>4. ASSUME NEW i \in DOMAIN enrollments, NEW k \in Identities, UpdateEnrollment(i, k)
      PROVE  Distinct'
  <2>1. /\ DOMAIN enrollments' = 1..L
        /\ \A j \in 1..L :
             enrollments'[j] = IF j = i THEN [enrollments[i] EXCEPT !.person = k, !.key = k]
                               ELSE enrollments[j]
    BY <1>0, <1>4, Updated
  <2>2. \A j \in 1..L : /\ enrollments'[j].key = IF j = i THEN k ELSE enrollments[j].key
                        /\ enrollments'[j].person = IF j = i THEN k ELSE enrollments[j].person
    BY <1>0, <2>1 DEF Enrollment
  <2>3. \A j \in 1..L : enrollments[j].key = k => j = i
    BY <1>0, <1>4 DEF UpdateEnrollment, Holders
  <2> QED
    BY <1>0, <2>1, <2>2, <2>3 DEF Distinct
<1>5. ASSUME NEW i \in DOMAIN enrollments, NEW a \in BOOLEAN, SetEnrollmentArchived(i, a)
      PROVE  Distinct'
  <2>1. /\ DOMAIN enrollments' = 1..L
        /\ \A j \in 1..L :
             enrollments'[j] = IF j = i THEN [enrollments[i] EXCEPT !.archived = a]
                               ELSE enrollments[j]
    BY <1>0, <1>5, Archived
  <2>2. \A j \in 1..L : /\ enrollments'[j].key = enrollments[j].key
                        /\ enrollments'[j].person = enrollments[j].person
    BY <1>0, <2>1 DEF Enrollment
  <2> QED
    BY <1>0, <2>1, <2>2 DEF Distinct
<1>6. ASSUME NEW b \in Batches, NEW file \in Files, PreviewImport(b, file) PROVE Distinct'
  BY <1>a, <1>6 DEF PreviewImport
<1>7. ASSUME NEW b \in Batches, NEW updates \in SUBSET (1..MaxRows), ConfirmImport(b, updates)
      PROVE  Distinct'
  <2> DEFINE V == RowsOf(b, "valid")
             C == Cardinality(V)
             key(n) == batches[b].rows[n].key
  <2>1. /\ C \in Nat /\ enrollments' \in Seq(Enrollment) /\ Len(enrollments') = L + C
        /\ \A i \in 1..L : enrollments'[i] = enrollments[i]
        /\ \A j \in 1..C : \E n \in V :
             /\ Rank(b, n) = j
             /\ enrollments'[L + j] = Enroll(key(n), NextNumber + j - 1)
        /\ \A n \in V, i \in 1..L : enrollments[i].key # key(n)
    BY <1>0, <1>7, Appended
  <2>2. DOMAIN enrollments' = 1..(L + C)
    BY <2>1, LenProperties
  <2>3. \A m, n \in V : key(m) = key(n) => m = n
    BY <1>0 DEF NewPeople
  <2> HIDE DEF L, C, V, key
  <2>4. ASSUME NEW i \in (1..(L + C)) \ (1..L)
        PROVE  \E n \in V : /\ i = L + Rank(b, n)
                            /\ enrollments'[i].key = key(n) /\ enrollments'[i].person = key(n)
    <3>1. i - L \in 1..C /\ i = L + (i - L)
      BY <1>0, <2>1
    <3>2. PICK n \in V : /\ Rank(b, n) = i - L
                         /\ enrollments'[L + (i - L)] = Enroll(key(n), NextNumber + (i - L) - 1)
      BY <2>1, <3>1
    <3>3. enrollments'[i] = Enroll(key(n), NextNumber + (i - L) - 1) /\ i = L + Rank(b, n)
      BY <3>1, <3>2
    <3> QED
      BY <3>3 DEF Enroll
  <2>5. ASSUME NEW i \in 1..(L + C) PROVE enrollments'[i].person = enrollments'[i].key
    BY <1>0, <2>1, <2>4 DEF Distinct
  <2>6. ASSUME NEW i \in 1..(L + C), NEW j \in 1..(L + C),
               enrollments'[i].key = enrollments'[j].key
        PROVE  i = j
    <3>1. CASE i \in 1..L /\ j \in 1..L
      BY <1>0, <2>1, <2>6, <3>1 DEF Distinct
    <3>2. ASSUME NEW o \in 1..L, NEW n \in (1..(L + C)) \ (1..L)
          PROVE  enrollments'[o].key # enrollments'[n].key
      <4>1. PICK v \in V : enrollments'[n].key = key(v)
        BY <2>4
      <4>2. enrollments[o].key # key(v) /\ enrollments'[o] = enrollments[o]
        BY <2>1
      <4> QED
        BY Zenon, <4>1, <4>2
    <3>3. i \in 1..L <=> j \in 1..L
      BY <2>6, <3>2
    <3>4. CASE i \notin 1..L /\ j \notin 1..L
      BY <2>3, <2>4, <2>6, <3>4
    <3> QED
      BY <3>1, <3>3, <3>4
  <2> QED
    BY <2>2, <2>5, <2>6 DEF Distinct
<1>8. ASSUME NEW b \in Batches, CancelImport(b) PROVE Distinct'
  BY <1>a, <1>8 DEF CancelImport
<1>9. CASE UNCHANGED vars
  BY <1>a, <1>9 DEF vars
<1> QED
  BY <1>1, <1>2, <1>3, <1>4, <1>5, <1>6, <1>7, <1>8, <1>9 DEF Next

\* A new number is above all numbers given, to archived enrollments too, and an
\* import counts on from it.
LEMMA NumbersStep == IInv /\ [Next]_vars => NumbersNeverReused'
<1> SUFFICES ASSUME IInv, [Next]_vars PROVE NumbersNeverReused'
  OBVIOUS
<1> DEFINE L == Len(enrollments)
<1>0. /\ Typed /\ Distinct /\ NumbersNeverReused /\ NewPeople
      /\ L \in Nat /\ DOMAIN enrollments = 1..L
      /\ \A i \in 1..L : enrollments[i] \in Enrollment /\ enrollments[i].number < NextNumber
      /\ NextNumber \in Nat
  BY Finite, NextNumberAbove DEF IInv
<1>a. ASSUME UNCHANGED enrollments PROVE NumbersNeverReused'
  BY <1>0, <1>a DEF NumbersNeverReused
<1>1. ASSUME NEW c \in Capacities, UpdateCourse(c) PROVE NumbersNeverReused'
  BY <1>a, <1>1 DEF UpdateCourse
<1>2. CASE ArchiveCourse \/ RestoreCourse
  BY <1>a, <1>2 DEF ArchiveCourse, RestoreCourse
<1>3. ASSUME NEW k \in Identities, CreateEnrollment(k) PROVE NumbersNeverReused'
  <2>1. /\ enrollments' \in Seq(Enrollment) /\ Len(enrollments') = L + 1
        /\ \A i \in 1..L : enrollments'[i] = enrollments[i]
        /\ enrollments'[L + 1] = Enroll(k, NextNumber)
    BY <1>0, <1>3, Created
  <2>2. DOMAIN enrollments' = 1..(L + 1) /\ enrollments'[L + 1].number = NextNumber
    BY <2>1, LenProperties DEF Enroll
  <2> HIDE DEF L
  <2> QED
    BY <1>0, <2>1, <2>2 DEF NumbersNeverReused
<1>4. ASSUME NEW i \in DOMAIN enrollments, NEW k \in Identities, UpdateEnrollment(i, k)
      PROVE  NumbersNeverReused'
  <2>1. /\ DOMAIN enrollments' = 1..L
        /\ \A j \in 1..L :
             enrollments'[j] = IF j = i THEN [enrollments[i] EXCEPT !.person = k, !.key = k]
                               ELSE enrollments[j]
    BY <1>0, <1>4, Updated
  <2>2. \A j \in 1..L : enrollments'[j].number = enrollments[j].number
    <3>1. enrollments[i] \in Enrollment
      BY <1>0
    <3>2. [enrollments[i] EXCEPT !.person = k, !.key = k].number = enrollments[i].number
      BY <3>1 DEF Enrollment
    <3> QED
      BY Zenon, <2>1, <3>2
  <2> QED
    BY <1>0, <2>1, <2>2 DEF NumbersNeverReused
<1>5. ASSUME NEW i \in DOMAIN enrollments, NEW a \in BOOLEAN, SetEnrollmentArchived(i, a)
      PROVE  NumbersNeverReused'
  <2>1. /\ DOMAIN enrollments' = 1..L
        /\ \A j \in 1..L :
             enrollments'[j] = IF j = i THEN [enrollments[i] EXCEPT !.archived = a]
                               ELSE enrollments[j]
    BY <1>0, <1>5, Archived
  <2>2. \A j \in 1..L : enrollments'[j].number = enrollments[j].number
    BY <1>0, <2>1 DEF Enrollment
  <2> QED
    BY <1>0, <2>1, <2>2 DEF NumbersNeverReused
<1>6. ASSUME NEW b \in Batches, NEW file \in Files, PreviewImport(b, file)
      PROVE  NumbersNeverReused'
  BY <1>a, <1>6 DEF PreviewImport
<1>7. ASSUME NEW b \in Batches, NEW updates \in SUBSET (1..MaxRows), ConfirmImport(b, updates)
      PROVE  NumbersNeverReused'
  <2> DEFINE C == Cardinality(RowsOf(b, "valid"))
  <2>1. /\ C \in Nat /\ enrollments' \in Seq(Enrollment) /\ Len(enrollments') = L + C
        /\ \A i \in 1..L : enrollments'[i] = enrollments[i]
        /\ \A j \in 1..C : \E n \in RowsOf(b, "valid") :
             /\ Rank(b, n) = j
             /\ enrollments'[L + j] = Enroll(batches[b].rows[n].key, NextNumber + j - 1)
    BY <1>0, <1>7, Appended
  <2>2. DOMAIN enrollments' = 1..(L + C)
    BY <2>1, LenProperties
  <2>3. \A j \in 1..C : enrollments'[L + j].number = NextNumber + j - 1
    <3> SUFFICES ASSUME NEW j \in 1..C PROVE enrollments'[L + j].number = NextNumber + j - 1
      OBVIOUS
    <3>1. PICK n \in RowsOf(b, "valid") :
            enrollments'[L + j] = Enroll(batches[b].rows[n].key, NextNumber + j - 1)
      BY <2>1
    <3> QED
      BY <3>1 DEF Enroll
  <2> HIDE DEF L, C
  <2>4. \A i \in (1..(L + C)) \ (1..L) : enrollments'[i].number = NextNumber + (i - L) - 1
    <3> SUFFICES ASSUME NEW i \in (1..(L + C)) \ (1..L)
                 PROVE  enrollments'[i].number = NextNumber + (i - L) - 1
      OBVIOUS
    <3>1. i - L \in 1..C /\ i = L + (i - L)
      BY <1>0, <2>1
    <3> QED
      BY <2>3, <3>1
  <2>5. \A i \in 1..L : enrollments'[i].number = enrollments[i].number
    BY <2>1
  <2>6. \A i \in 1..L : enrollments[i].number \in Nat
    BY <1>0 DEF Enrollment
  <2>7. ASSUME NEW i \in 1..(L + C), NEW j \in 1..(L + C), i < j
        PROVE  enrollments'[i].number < enrollments'[j].number
    <3>1. CASE j \in 1..L
      <4>1. i \in 1..L
        BY <1>0, <2>7, <3>1
      <4> QED
        BY <1>0, <2>5, <2>7, <3>1, <4>1 DEF NumbersNeverReused
    <3>2. CASE j \notin 1..L /\ i \in 1..L
      <4>1. /\ enrollments'[i].number = enrollments[i].number
            /\ enrollments[i].number \in Nat /\ enrollments[i].number < NextNumber
        BY <1>0, <2>5, <2>6, <3>2
      <4>2. enrollments'[j].number = NextNumber + (j - L) - 1 /\ j - L \in Nat \ {0}
        BY <1>0, <2>1, <2>4, <3>2
      <4> QED
        BY <1>0, <4>1, <4>2
    <3>3. CASE j \notin 1..L /\ i \notin 1..L
      <4>1. /\ enrollments'[i].number = NextNumber + (i - L) - 1
            /\ enrollments'[j].number = NextNumber + (j - L) - 1
        BY <2>4, <3>3
      <4> QED
        BY <1>0, <2>1, <2>7, <4>1
    <3> QED
      BY <3>1, <3>2, <3>3
  <2> QED
    BY <2>2, <2>7 DEF NumbersNeverReused
<1>8. ASSUME NEW b \in Batches, CancelImport(b) PROVE NumbersNeverReused'
  BY <1>a, <1>8 DEF CancelImport
<1>9. CASE UNCHANGED vars
  BY <1>a, <1>9 DEF vars
<1> QED
  BY <1>1, <1>2, <1>3, <1>4, <1>5, <1>6, <1>7, <1>8, <1>9 DEF Next

\* An import writes the rows of one batch, and the enrollments are never fewer.
LEMMA Frame ==
  ASSUME IInv, [Next]_vars
  PROVE  /\ Len(enrollments) \in Nat /\ Len(enrollments') \in Nat
         /\ Len(enrollments) <= Len(enrollments')
         /\ \/ batches' = batches
            \/ \E b \in Batches, file \in Files : PreviewImport(b, file)
            \/ \E b \in Batches, updates \in SUBSET (1..MaxRows) : ConfirmImport(b, updates)
            \/ \E b \in Batches : CancelImport(b)
<1> DEFINE Imports ==
             \/ \E b \in Batches, file \in Files : PreviewImport(b, file)
             \/ \E b \in Batches, updates \in SUBSET (1..MaxRows) : ConfirmImport(b, updates)
             \/ \E b \in Batches : CancelImport(b)
           Grown == /\ Len(enrollments) \in Nat /\ Len(enrollments') \in Nat
                    /\ Len(enrollments) <= Len(enrollments')
<1>0. Typed /\ Distinct /\ NumbersNeverReused /\ NewPeople /\ Len(enrollments) \in Nat
  BY Finite DEF IInv
<1>a. enrollments' = enrollments => Grown
  BY <1>0
<1>1. ASSUME NEW c \in Capacities, UpdateCourse(c) PROVE Grown /\ batches' = batches
  BY <1>a, <1>1 DEF UpdateCourse
<1>2. ASSUME ArchiveCourse \/ RestoreCourse PROVE Grown /\ batches' = batches
  BY <1>a, <1>2 DEF ArchiveCourse, RestoreCourse
<1>3. ASSUME NEW k \in Identities, CreateEnrollment(k) PROVE Grown /\ batches' = batches
  <2>1. Len(enrollments') = Len(enrollments) + 1
    BY <1>0, <1>3, Created
  <2> QED
    BY <1>0, <1>3, <2>1 DEF CreateEnrollment
<1>4. ASSUME NEW i \in DOMAIN enrollments, NEW k \in Identities, UpdateEnrollment(i, k)
      PROVE  Grown /\ batches' = batches
  <2>1. Len(enrollments') = Len(enrollments)
    BY <1>0, <1>4, Updated
  <2> QED
    BY <1>0, <1>4, <2>1 DEF UpdateEnrollment
<1>5. ASSUME NEW i \in DOMAIN enrollments, NEW a \in BOOLEAN, SetEnrollmentArchived(i, a)
      PROVE  Grown /\ batches' = batches
  <2>1. Len(enrollments') = Len(enrollments)
    BY <1>0, <1>5, Archived
  <2> QED
    BY <1>0, <1>5, <2>1 DEF SetEnrollmentArchived
<1>6. ASSUME NEW b \in Batches, NEW file \in Files, PreviewImport(b, file)
      PROVE  Grown /\ Imports
  BY <1>a, <1>6 DEF PreviewImport
<1>7. ASSUME NEW b \in Batches, NEW updates \in SUBSET (1..MaxRows), ConfirmImport(b, updates)
      PROVE  Grown /\ Imports
  <2> DEFINE C == Cardinality(RowsOf(b, "valid"))
  <2>1. C \in Nat /\ Len(enrollments') = Len(enrollments) + C
    BY <1>0, <1>7, Appended
  <2>2. Grown
    <3> HIDE DEF C
    <3> QED
      BY <1>0, <2>1
  <2> QED
    BY <1>7, <2>2
<1>8. ASSUME NEW b \in Batches, CancelImport(b) PROVE Grown /\ Imports
  BY <1>a, <1>8 DEF CancelImport
<1>9. ASSUME UNCHANGED vars PROVE Grown /\ batches' = batches
  BY <1>a, <1>9 DEF vars
<1> HIDE DEF Grown, Imports
<1>10. Grown /\ (batches' = batches \/ Imports)
  BY <1>1, <1>2, <1>3, <1>4, <1>5, <1>6, <1>7, <1>8, <1>9 DEF Next
<1> QED
  BY <1>10 DEF Grown, Imports

\* Cancelling a batch leaves its rows.
LEMMA Cancelled ==
  ASSUME Typed, NEW b \in Batches, CancelImport(b)
  PROVE  /\ batches[b].status = "preview" /\ batches'[b].status = "cancelled"
         /\ \A c \in Batches : batches'[c].rows = batches[c].rows
         /\ \A c \in Batches \ {b} : batches'[c] = batches[c]
         /\ enrollments' = enrollments
<1>1. batches[b] \in [status : Statuses, rows : Rows]
  BY DEF Typed
<1> QED
  BY <1>1 DEF CancelImport, Typed

\* The new rows of a batch are fixed by its preview.
LEMMA NewPeopleStep == IInv /\ [Next]_vars => NewPeople'
<1> SUFFICES ASSUME IInv, [Next]_vars, NEW c \in Batches,
                    NEW m \in RowsOf(c, "valid")', NEW n \in RowsOf(c, "valid")'
             PROVE  /\ batches'[c].rows[n].key \in Identities
                    /\ batches'[c].rows[m].key = batches'[c].rows[n].key => m = n
  BY DEF NewPeople
<1>0. Typed /\ NewPeople
  BY DEF IInv
<1>1. /\ m \in DOMAIN batches'[c].rows /\ batches'[c].rows[m].class = "valid"
      /\ n \in DOMAIN batches'[c].rows /\ batches'[c].rows[n].class = "valid"
  BY DEF RowsOf
<1>2. CASE batches'[c].rows = batches[c].rows
  BY <1>0, <1>1, <1>2 DEF NewPeople, RowsOf
<1>3. ASSUME NEW b \in Batches, NEW file \in Files, PreviewImport(b, file), c = b
      PROVE  /\ batches'[c].rows[n].key \in Identities
             /\ batches'[c].rows[m].key = batches'[c].rows[n].key => m = n
  <2>1. \A l, k \in DOMAIN batches'[b].rows :
          batches'[b].rows[l].class = "valid" /\ batches'[b].rows[k].class = "valid" =>
            /\ batches'[b].rows[k].key \in Identities
            /\ batches'[b].rows[l].key = batches'[b].rows[k].key => l = k
    BY <1>0, <1>3, Previewed
  <2> QED
    BY <1>1, <1>3, <2>1
<1>4. ASSUME NEW b \in Batches, NEW updates \in SUBSET (1..MaxRows), ConfirmImport(b, updates),
             c = b
      PROVE  /\ batches'[c].rows[n].key \in Identities
             /\ batches'[c].rows[m].key = batches'[c].rows[n].key => m = n
  <2>1. /\ DOMAIN batches'[b].rows = DOMAIN batches[b].rows
        /\ \A k \in DOMAIN batches[b].rows :
             /\ batches'[b].rows[k].key = batches[b].rows[k].key
             /\ batches'[b].rows[k].class = batches[b].rows[k].class
    BY <1>0, <1>4, Confirmed
  <2> QED
    BY <1>0, <1>1, <1>4, <2>1 DEF NewPeople, RowsOf
<1>5. ASSUME NEW b \in Batches, NEW file \in Files, PreviewImport(b, file), c # b
      PROVE  batches'[c].rows = batches[c].rows
  BY <1>0, <1>5, Previewed
<1>6. ASSUME NEW b \in Batches, NEW updates \in SUBSET (1..MaxRows), ConfirmImport(b, updates),
             c # b
      PROVE  batches'[c].rows = batches[c].rows
  BY <1>0, <1>6, Confirmed
<1>7. ASSUME NEW b \in Batches, CancelImport(b) PROVE batches'[c].rows = batches[c].rows
  BY <1>0, <1>7, Cancelled
<1>8. \/ batches' = batches
      \/ \E b \in Batches, file \in Files : PreviewImport(b, file)
      \/ \E b \in Batches, updates \in SUBSET (1..MaxRows) : ConfirmImport(b, updates)
      \/ \E b \in Batches : CancelImport(b)
  BY Frame
<1> QED
  BY <1>2, <1>3, <1>4, <1>5, <1>6, <1>7, <1>8

\* Only a confirmation creates enrollments, and it is final.
LEMMA CreatedByConfirmStep == IInv /\ [Next]_vars => CreatedByConfirm'
<1> DEFINE Ok(c, n) ==
             /\ batches[c].rows[n].created # 0 <=>
                  batches[c].status = "confirmed" /\ batches[c].rows[n].class = "valid"
             /\ batches[c].rows[n].created <= Len(enrollments)
<1> SUFFICES ASSUME IInv, [Next]_vars, NEW c \in Batches, NEW n \in DOMAIN batches'[c].rows
             PROVE  Ok(c, n)'
  BY DEF CreatedByConfirm
<1>0. /\ Typed /\ Distinct /\ NumbersNeverReused /\ NewPeople
      /\ Len(enrollments) \in Nat /\ Len(enrollments') \in Nat
      /\ Len(enrollments) <= Len(enrollments')
  BY Frame DEF IInv
<1>1. ASSUME NEW d \in Batches, NEW m \in DOMAIN batches[d].rows
      PROVE  Ok(d, m) /\ batches[d].rows[m].created \in Nat
  BY <1>0, BatchRows DEF IInv, CreatedByConfirm, Row
<1>2. CASE batches'[c] = batches[c]
  <2>1. n \in DOMAIN batches[c].rows
    BY <1>2
  <2>2. Ok(c, n) /\ batches[c].rows[n].created \in Nat
    BY <1>1, <2>1
  <2> QED
    BY <1>0, <1>2, <2>2
<1>3. ASSUME NEW b \in Batches, NEW file \in Files, PreviewImport(b, file), c = b
      PROVE  Ok(c, n)'
  <2>1. batches'[b].status = "preview" /\ batches'[b].rows[n].created = 0
    BY <1>0, <1>3, Previewed
  <2> QED
    BY <1>0, <1>3, <2>1
<1>4. ASSUME NEW b \in Batches, NEW updates \in SUBSET (1..MaxRows), ConfirmImport(b, updates),
             c = b
      PROVE  Ok(c, n)'
  <2> DEFINE L == Len(enrollments)
             V == RowsOf(b, "valid")
             C == Cardinality(V)
  <2>1. /\ batches'[b].status = "confirmed" /\ n \in DOMAIN batches[b].rows
        /\ batches'[b].rows[n].class = batches[b].rows[n].class
        /\ n \in V => batches'[b].rows[n].created = L + Rank(b, n)
        /\ n \notin V => batches'[b].rows[n].created = batches[b].rows[n].created
    BY <1>0, <1>4, Confirmed
  <2>2. C \in Nat /\ Len(enrollments') = L + C
    BY <1>0, <1>4, Appended
  <2>3. n \in V => Rank(b, n) \in 1..C
    BY <1>0, Ranks
  <2>4. n \in V <=> batches[b].rows[n].class = "valid"
    BY <2>1 DEF RowsOf
  <2>5. Ok(b, n) /\ batches[b].rows[n].created \in Nat
    BY <1>1, <2>1
  <2>6. batches[b].status = "preview"
    BY <1>4 DEF ConfirmImport
  <2> HIDE DEF C, V
  <2> QED
    BY <1>0, <1>4, <2>1, <2>2, <2>3, <2>4, <2>5, <2>6
<1>5. ASSUME NEW b \in Batches, CancelImport(b), c = b PROVE Ok(c, n)'
  <2>1. /\ batches[b].status = "preview" /\ batches'[b].status = "cancelled"
        /\ batches'[b].rows = batches[b].rows
    BY <1>0, <1>5, Cancelled
  <2>2. Ok(b, n) /\ batches[b].rows[n].created \in Nat
    BY <1>1, <1>5, <2>1
  <2> QED
    BY <1>0, <1>5, <2>1, <2>2
<1>6. ASSUME NEW b \in Batches, NEW file \in Files, PreviewImport(b, file), c # b
      PROVE  batches'[c] = batches[c]
  BY <1>0, <1>6, Previewed
<1>7. ASSUME NEW b \in Batches, NEW updates \in SUBSET (1..MaxRows), ConfirmImport(b, updates),
             c # b
      PROVE  batches'[c] = batches[c]
  BY <1>0, <1>7, Confirmed
<1>8. ASSUME NEW b \in Batches, CancelImport(b), c # b PROVE batches'[c] = batches[c]
  BY <1>0, <1>8, Cancelled
<1>9. \/ batches' = batches
      \/ \E b \in Batches, file \in Files : PreviewImport(b, file)
      \/ \E b \in Batches, updates \in SUBSET (1..MaxRows) : ConfirmImport(b, updates)
      \/ \E b \in Batches : CancelImport(b)
  BY Frame
<1> HIDE DEF Ok
<1> QED
  BY <1>2, <1>3, <1>4, <1>5, <1>6, <1>7, <1>8, <1>9

\* A confirmation gives each new row an enrollment of its own, after all the
\* enrollments that rows had before.
LEMMA CreatedOnceStep == IInv /\ [Next]_vars => CreatedOnce'
<1> DEFINE made(c, n) == batches[c].rows[n].created
<1> SUFFICES ASSUME IInv, [Next]_vars,
                    NEW c \in Batches, NEW n \in DOMAIN batches'[c].rows,
                    NEW d \in Batches, NEW m \in DOMAIN batches'[d].rows,
                    made(c, n)' = made(d, m)', made(c, n)' # 0
             PROVE  c = d /\ n = m
  BY DEF CreatedOnce
<1>0. /\ Typed /\ Distinct /\ NumbersNeverReused /\ NewPeople /\ CreatedOnce
      /\ Len(enrollments) \in Nat
  BY Frame DEF IInv
<1>1. \A e \in Batches : \A l \in DOMAIN batches[e].rows :
        made(e, l) \in Nat /\ made(e, l) <= Len(enrollments)
  BY <1>0, BatchRows DEF IInv, CreatedByConfirm, Row
<1>2. CASE \A e \in Batches : batches'[e].rows = batches[e].rows
  BY <1>0, <1>2 DEF CreatedOnce
<1>3. ASSUME NEW b \in Batches, NEW file \in Files, PreviewImport(b, file) PROVE c = d /\ n = m
  <2>1. /\ \A l \in DOMAIN batches'[b].rows : made(b, l)' = 0
        /\ \A e \in Batches \ {b} : batches'[e] = batches[e]
    BY <1>0, <1>3, Previewed
  <2>2. c # b /\ d # b
    BY <2>1
  <2> QED
    BY <1>0, <2>1, <2>2 DEF CreatedOnce
<1>4. ASSUME NEW b \in Batches, NEW updates \in SUBSET (1..MaxRows), ConfirmImport(b, updates)
      PROVE  c = d /\ n = m
  <2> DEFINE L == Len(enrollments)
             V == RowsOf(b, "valid")
  <2>1. /\ \A e \in Batches \ {b} : batches'[e] = batches[e]
        /\ DOMAIN batches'[b].rows = DOMAIN batches[b].rows
        /\ \A l \in DOMAIN batches[b].rows :
             /\ l \in V => made(b, l)' = L + Rank(b, l)
             /\ l \notin V => made(b, l)' = made(b, l)
    BY <1>0, <1>4, Confirmed
  <2>2. /\ \A l \in V : Rank(b, l) \in 1..Cardinality(V)
        /\ \A k, l \in V : Rank(b, k) = Rank(b, l) => k = l
        /\ Cardinality(V) \in Nat
    BY <1>0, Ranks
  <2> DEFINE New(e, l) == e = b /\ l \in V
  <2> HIDE DEF V
  <2>3. ASSUME NEW e \in Batches, NEW l \in DOMAIN batches'[e].rows
        PROVE  /\ l \in DOMAIN batches[e].rows
               /\ New(e, l) => made(e, l)' = L + Rank(b, l) /\ made(e, l)' > L
               /\ ~New(e, l) => made(e, l)' = made(e, l) /\ made(e, l)' <= L
    <3>1. l \in DOMAIN batches[e].rows
      BY <2>1
    <3>2. ASSUME New(e, l) PROVE made(e, l)' = L + Rank(b, l) /\ Rank(b, l) \in Nat \ {0}
      BY <2>1, <2>2, <3>1, <3>2
    <3>3. ASSUME ~New(e, l) PROVE made(e, l)' = made(e, l)
      BY <2>1, <3>1, <3>3
    <3> QED
      BY <1>0, <1>1, <3>1, <3>2, <3>3
  <2>4. CASE New(c, n) /\ New(d, m)
    <3>1. L + Rank(b, n) = L + Rank(b, m)
      BY <2>3, <2>4
    <3>2. Rank(b, n) = Rank(b, m)
      BY <1>0, <2>2, <2>4, <3>1
    <3> QED
      BY <2>2, <2>4, <3>2
  <2>5. CASE ~New(c, n) /\ ~New(d, m)
    <3>1. /\ n \in DOMAIN batches[c].rows /\ m \in DOMAIN batches[d].rows
          /\ made(c, n) = made(d, m) /\ made(c, n) # 0
      BY <2>3, <2>5
    <3> QED
      BY <1>0, <3>1 DEF CreatedOnce
  <2>6. CASE New(c, n) /\ ~New(d, m)
    <3>1. made(c, n)' > L /\ made(d, m)' <= L
      BY <2>3, <2>6
    <3>2. made(d, m)' \in Nat
      BY <1>1, <2>3, <2>6
    <3> QED
      BY <1>0, <3>1, <3>2
  <2>7. CASE ~New(c, n) /\ New(d, m)
    <3>1. made(d, m)' > L /\ made(c, n)' <= L
      BY <2>3, <2>7
    <3>2. made(c, n)' \in Nat
      BY <1>1, <2>3, <2>7
    <3> QED
      BY <1>0, <3>1, <3>2
  <2> QED
    BY <2>4, <2>5, <2>6, <2>7
<1>5. ASSUME NEW b \in Batches, CancelImport(b) PROVE c = d /\ n = m
  BY <1>0, <1>2, <1>5, Cancelled
<1>6. \/ batches' = batches
      \/ \E b \in Batches, file \in Files : PreviewImport(b, file)
      \/ \E b \in Batches, updates \in SUBSET (1..MaxRows) : ConfirmImport(b, updates)
      \/ \E b \in Batches : CancelImport(b)
  BY Frame
<1> QED
  BY <1>2, <1>3, <1>4, <1>5, <1>6

\* The invariant holds of every reachable state.
LEMMA Invariance == Spec => []IInv
<1>1. IInv /\ [Next]_vars => IInv'
  BY TypedStep, CapacityStep, DistinctStep, NumbersStep, NewPeopleStep,
     CreatedByConfirmStep, CreatedOnceStep DEF IInv
<1> QED
  BY InitIInv, <1>1, PTL DEF Spec

-----------------------------------------------------------------------------
\* Enrollments and imports always have their types: numbers start at one, and a
\* confirmed row names an enrollment within the bounds (trainees/models.py:88-315).
THEOREM TypeCorrect == Spec => []TypeOK
<1>1. IInv => TypeOK
  <2> SUFFICES ASSUME Typed PROVE TypeOK
    BY DEF IInv
  <2>1. open \in BOOLEAN /\ capacity \in Capacities
    BY Zenon DEF Typed
  <2> QED
    BY <2>1, Finite, BatchRows DEF TypeOK, Statuses
<1> QED
  BY <1>1, Invariance, PTL

\* The active enrollments never exceed the capacity, whichever of the services
\* that add enrollments or lower the capacity run in between
\* (trainees/services.py:105, 200, 482, courses/services.py:119).
THEOREM CapacityAlwaysHeld == Spec => []CapacityHeld
BY Invariance, PTL DEF IInv

\* No identity is enrolled twice, and each is its trainee's, whatever an import
\* updates long after it was previewed (trainees/services.py:493-504).
THEOREM NobodyTwice == Spec => []IdentitiesAgree
<1>1. IInv => IdentitiesAgree
  <2> SUFFICES ASSUME Typed, Distinct PROVE IdentitiesAgree
    BY DEF IInv
  <2>1. ASSUME NEW k \in Identities PROVE Cardinality(Holders(k)) <= 1
    <3>1. CASE Holders(k) = {}
      BY <3>1, FS_EmptySet
    <3>2. CASE Holders(k) # {}
      <4>1. PICK i \in Holders(k) : TRUE
        BY <3>2
      <4>2. Holders(k) = {i}
        BY <4>1 DEF Holders, Distinct
      <4> QED
        BY <4>2, FS_Singleton
    <3> QED
      BY <3>1, <3>2
  <2> QED
    BY <2>1 DEF IdentitiesAgree, Distinct
<1> QED
  BY <1>1, Invariance, PTL

\* No trainee number is ever given again, alone or by an import, not even the
\* number of an archived enrollment (trainees/services.py:67-74).
THEOREM NumbersGivenOnce == Spec => []NumbersNeverReused
BY Invariance, PTL DEF IInv

\* A batch is imported once and whole: each new row of a confirmed batch has an
\* enrollment of its own, no other row has one (trainees/services.py:434-544).
THEOREM ImportsOnceWhole == Spec => []ImportedOnce
<1>1. IInv => ImportedOnce
  <2> SUFFICES ASSUME IInv PROVE ImportedOnce
    OBVIOUS
  <2> DEFINE created(bn) == batches[bn[1]].rows[bn[2]].created
             new == {bn \in Batches \X (1..MaxRows) :
                       /\ bn[2] \in DOMAIN batches[bn[1]].rows
                       /\ batches[bn[1]].rows[bn[2]].created # 0}
             made == {batches[bn[1]].rows[bn[2]].created : bn \in new}
             f == [bn \in new |-> created(bn)]
             L == Len(enrollments)
  <2>1. L \in Nat /\ DOMAIN enrollments = 1..L /\ Typed /\ CreatedByConfirm /\ CreatedOnce
    BY Finite DEF IInv
  <2>2. \A b \in Batches :
          {n \in DOMAIN batches[b].rows : batches[b].rows[n].created # 0} =
             IF batches[b].status = "confirmed" THEN RowsOf(b, "valid") ELSE {}
    BY <2>1 DEF CreatedByConfirm, RowsOf
  <2>3. ASSUME NEW bn \in new PROVE created(bn) \in 1..L
    <3>1. /\ bn[1] \in Batches /\ bn[2] \in DOMAIN batches[bn[1]].rows /\ created(bn) # 0
      OBVIOUS
    <3>2. created(bn) <= L
      BY <2>1, <3>1 DEF CreatedByConfirm
    <3>3. created(bn) \in Nat
      BY <2>1, <3>1, BatchRows DEF Row
    <3> QED
      BY <2>1, <3>1, <3>2, <3>3
  <2>4. ASSUME NEW x \in new, NEW y \in new, created(x) = created(y) PROVE x = y
    <3>1. /\ x[1] \in Batches /\ x[2] \in DOMAIN batches[x[1]].rows /\ created(x) # 0
          /\ y[1] \in Batches /\ y[2] \in DOMAIN batches[y[1]].rows
          /\ x = <<x[1], x[2]>> /\ y = <<y[1], y[2]>>
      OBVIOUS
    <3>2. x[1] = y[1] /\ x[2] = y[2]
      BY <2>1, <2>4, <3>1 DEF CreatedOnce
    <3> QED
      BY <3>1, <3>2
  <2>5. made \subseteq 1..L
    BY <2>3
  <2>6. made = {f[bn] : bn \in new} /\ f \in [new -> made]
    OBVIOUS
  <2>7. IsFiniteSet(made)
    <3>1. IsFiniteSet(1..L)
      BY <2>1, FS_Interval
    <3> QED
      BY <2>5, <3>1, FS_Subset
  <2>8. f \in Injection(new, made) /\ f \in Surjection(new, made)
    <3>1. \A x, y \in new : f[x] = f[y] => x = y
      BY <2>4
    <3> HIDE DEF new, made, f
    <3> QED
      BY <2>6, <3>1 DEF Injection, IsInjective, Surjection
  <2> HIDE DEF new, made, f
  <2>9. Cardinality(new) = Cardinality(made)
    BY <2>7, <2>8, FS_Injection
  <2> QED
    BY <2>1, <2>2, <2>5, <2>9 DEF ImportedOnce, new, made
<1> QED
  BY <1>1, Invariance, PTL
=============================================================================
