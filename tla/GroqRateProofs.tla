--------------------------- MODULE GroqRateProofs ---------------------------
(***************************************************************************)
(* For every set of processes and every settings: without a lost lease or  *)
(* a failure of Redis the minute is never over-committed, nor the day but  *)
(* for what the provider counts above reservations; each such fault lets   *)
(* at most one more reservation through; and the counters cover what the   *)
(* calls used.                                                             *)
(***************************************************************************)
EXTENDS GroqRate, FiniteSetTheorems, TLAPS

Counts == [requests : Nat, tokens : Nat]
Usages == {s \in SUBSET Usage : IsFiniteSet(s)}
Memories == [window : Usages, days : [Days -> Counts]]

Typed ==
  /\ clock \in Times
  /\ lock \in Processes \cup {NoOne}
  /\ window \in Usages
  /\ days \in [Days -> Counts]
  /\ memory \in [Processes -> Memories]
  /\ pc \in [Processes -> States]
  /\ call \in [Processes -> Call]
  /\ \A p \in Processes : pc[p] # "idle" => call[p].n # 0
  /\ \A p \in Processes : call[p].at <= clock
  /\ ledger \in Usages
  /\ excess \in [Days -> Nat]
  /\ faults \in 0..MaxFaults

\* Entries are of calls that were made, at most one of each.
Made(entries) ==
  /\ \A e \in entries : e.of[2] <= call[e.of[1]].n
  /\ \A e, f \in entries : e.of = f.of => e = f

\* What the ledger holds of a call that is not settled yet.
Owed(p) ==
  \E e \in ledger :
    /\ e.of = Member(p) /\ e.at = call[p].at /\ e.tokens = call[p].tokens
    /\ pc[p] \in {"settling", "taken", "put"} => e.limit = call[p].used

\* A call has no entry in the window before it writes it and while it rewrites it,
\* and otherwise the one it wrote, unless a later reader drops it; the ledger keeps
\* it while the call is open.
OwnEntries(p) ==
  /\ pc[p] \in {"waiting", "holding", "granted", "taken", "released"} =>
       \A e \in window : e.of # Member(p)
  /\ pc[p] \in {"waiting", "holding", "granted", "added"} => \A e \in ledger : e.of # Member(p)
  /\ \/ pc[p] \in {"added", "settling", "releasing"}
     \/ pc[p] = "calling" /\ call[p].in = "redis"
     => \A e \in window : e.of = Member(p) => e = Entry(p)
  /\ pc[p] = "put" =>
       \A e \in window : e.of = Member(p) => e.at = call[p].at /\ e.tokens = call[p].used
  /\ \/ pc[p] \in {"settling", "taken", "put", "releasing", "released"}
     \/ pc[p] = "calling" /\ call[p].in = "redis"
     => Owed(p)
  /\ pc[p] = "calling" /\ call[p].in # "redis" => \A e \in ledger : e.of # Member(p)

Entries == Made(window) /\ Made(ledger) /\ \A p \in Processes : OwnEntries(p)

\* The processes that work in the lock's section without the lock: each has lost
\* its lease to a fault of its own.
Orphans == {p \in Processes : pc[p] \in Critical /\ lock # p}
LostLeases == IsFiniteSet(Orphans) /\ Cardinality(Orphans) <= faults

\* What is decided or in hand and not in the window now, and what is not yet
\* counted to day d.
OffWindow == {p \in Processes : pc[p] \in {"granted", "taken"}}
Coming(d) == {p \in Processes : pc[p] \in {"granted", "added"} /\ Day(call[p].at) = d}
EntriesOf(ps) == {Entry(p) : p \in ps}

\* OverrunsNeedFaults of what is written together with what is decided.
Decided == window \cup EntriesOf(OffWindow)
MinuteHeld ==
  /\ Tokens(Counted(Decided)) <= Budget * (1 + faults)
  /\ Cardinality(Decided) <= RPM + faults

DayHeld ==
  \A d \in Days :
    /\ days[d].requests + Cardinality(EntriesOf(Coming(d))) <= RPD + faults
    /\ days[d].tokens + Tokens(EntriesOf(Coming(d))) <= TPD + excess[d] + Budget * faults

\* In the memory of a process: what its current call reserved is not changed
\* before the call ends, and all of it fits one minute.
OwnMemory(p) ==
  LET mine == memory[p].window
  IN /\ \A e \in mine : e.of[2] <= call[p].n
     /\ pc[p] # "idle" => \A e \in mine : e.of = Member(p) => e.tokens = e.limit
     /\ Tokens(Counted(mine)) <= Budget /\ Cardinality(mine) <= RPM
MemoryHeld == \A p \in Processes : OwnMemory(p)

\* The counters of a day cover what the ledger holds of it.
OfDay(d) == {e \in ledger : Day(e.at) = d}
DayCovered ==
  \A d \in Days :
    days[d].requests >= Cardinality(OfDay(d)) /\ days[d].tokens >= Tokens(OfDay(d))

\* The window and the ledger agree on the calls they both have; what a call wrote
\* and has not counted yet is in the window or no longer recent; and what the
\* window does not show was lost to a fault.
Agreeing ==
  \A w \in window, e \in ledger :
    w.of = e.of => w.at = e.at /\ w.tokens >= Min({e.tokens, e.limit})
Written ==
  \A p \in Processes : pc[p] = "added" => Entry(p) \in window \/ call[p].at <= clock - Window
MinuteCovered ==
  /\ Agreeing /\ Written
  /\ IsFiniteSet(Lost) /\ Cardinality(Lost) <= faults

\* The inductive invariant.
IInv ==
  /\ Typed /\ Entries /\ LostLeases
  /\ MinuteHeld /\ DayHeld /\ MemoryHeld
  /\ DayCovered /\ MinuteCovered

USE NoOneAssumption, SettingsAssumption, BoundsAssumption

-----------------------------------------------------------------------------
(* Sums *)

\* A property of sets, given as the set of those that have it, holds of every
\* subset of a finite set when each has it whose proper subsets do: otherwise a
\* smallest exception exists.
LEMMA SubsetInduction ==
  ASSUME NEW S, IsFiniteSet(S), NEW Good,
         \A T \in SUBSET S : (\A U \in SUBSET T : U # T => U \in Good) => T \in Good
  PROVE  SUBSET S \subseteq Good
<1> DEFINE Exceptions == (SUBSET S) \ Good
           R == StrictSubsetOrdering(S)
<1> SUFFICES ASSUME Exceptions # {} PROVE FALSE
  OBVIOUS
<1>1. IsWellFoundedOn(R, SUBSET S)
  <2>1. IsWellFoundedOn(R, FiniteSubsetsOf(S))
    BY Zenon, FS_StrictSubsetOrderingWellFounded
  <2>2. FiniteSubsetsOf(S) = SUBSET S
    BY Zenon, FS_FiniteSubsetsOfFinite
  <2> QED
    BY Zenon, <2>1, <2>2
<1>2. PICK T \in Exceptions : \A U \in Exceptions : <<U, T>> \notin R
  <2> HIDE DEF R
  <2>1. Exceptions \subseteq SUBSET S
    OBVIOUS
  <2> HIDE DEF Exceptions
  <2> QED
    BY <1>1, <2>1, WFMin
<1>3. \A U \in SUBSET T : U # T => U \in Good
  BY <1>2 DEF StrictSubsetOrdering
<1> QED
  BY <1>2, <1>3

\* The element that a sum takes next, and the sums of all subsets of a set.
Pick(s) == CHOOSE x \in s : TRUE
Sums(f, S) ==
  f = [s \in SUBSET S |-> IF s = {} THEN 0 ELSE Pick(s).tokens + f[s \ {Pick(s)}]]

\* The fold is the sum of the whole set, among those of its subsets.
LEMMA TokensDef == \A S : Tokens(S) = (CHOOSE f : Sums(f, S))[S]
BY Zenon DEF Tokens, MapThenSumSet, MapThenFoldSet, Sums, Pick

\* The sums of the subsets of a finite set are determined.
LEMMA SumsUnique ==
  ASSUME NEW S, IsFiniteSet(S), NEW f, NEW g, Sums(f, S), Sums(g, S)
  PROVE  f = g
<1> DEFINE Good == {T \in SUBSET S : f[T] = g[T]}
<1>1. ASSUME NEW T \in SUBSET S, \A U \in SUBSET T : U # T => U \in Good PROVE T \in Good
  <2>1. CASE T = {}
    BY <2>1 DEF Sums
  <2>2. CASE T # {}
    <3>1. Pick(T) \in T
      BY <2>2 DEF Pick
    <3>2. T \ {Pick(T)} \in SUBSET T /\ T \ {Pick(T)} # T
      BY <3>1
    <3>3. f[T \ {Pick(T)}] = g[T \ {Pick(T)}]
      BY <1>1, <3>2
    <3>4. /\ f[T] = Pick(T).tokens + f[T \ {Pick(T)}]
          /\ g[T] = Pick(T).tokens + g[T \ {Pick(T)}]
      BY <2>2 DEF Sums
    <3> QED
      BY <3>3, <3>4
  <2> QED
    BY <2>1, <2>2
<1>2. SUBSET S \subseteq Good
  <2> HIDE DEF Good
  <2> QED
    BY <1>1, SubsetInduction
<1>3. \A T \in SUBSET S : f[T] = g[T]
  BY <1>2
<1>4. /\ f = [s \in SUBSET S |-> f[s]] /\ g = [s \in SUBSET S |-> g[s]]
  BY DEF Sums
<1> QED
  BY Zenon, <1>3, <1>4

\* The sums of the subsets of a set are those of a larger one.
LEMMA SumsRestrict ==
  ASSUME NEW S, NEW f, Sums(f, S), NEW T \in SUBSET S
  PROVE  Sums([s \in SUBSET T |-> f[s]], T)
<1> DEFINE g == [s \in SUBSET T |-> f[s]]
<1>1. ASSUME NEW s \in SUBSET T
      PROVE  g[s] = IF s = {} THEN 0 ELSE Pick(s).tokens + g[s \ {Pick(s)}]
  <2>1. f[s] = IF s = {} THEN 0 ELSE Pick(s).tokens + f[s \ {Pick(s)}]
    BY DEF Sums
  <2>2. g[s] = f[s] /\ g[s \ {Pick(s)}] = f[s \ {Pick(s)}]
    OBVIOUS
  <2> QED
    BY Zenon, <2>1, <2>2
<1>2. g = [s \in SUBSET T |-> g[s]]
  OBVIOUS
<1> HIDE DEF g
<1>3. g = [s \in SUBSET T |-> IF s = {} THEN 0 ELSE Pick(s).tokens + g[s \ {Pick(s)}]]
  BY Zenon, <1>1, <1>2
<1>4. Sums(g, T)
  BY Zenon, <1>3 DEF Sums
<1> QED
  BY <1>4 DEF g

\* Every finite set has its sums.
LEMMA SumsExist ==
  ASSUME NEW S, IsFiniteSet(S)
  PROVE  \E f : Sums(f, S)
<1> DEFINE The(T) == CHOOSE f : Sums(f, T)
           Good == {T \in SUBSET S : Sums(The(T), T)}
<1>1. ASSUME NEW T \in SUBSET S, \A U \in SUBSET T : U # T => U \in Good PROVE T \in Good
  <2> DEFINE g == [s \in SUBSET T |->
                     IF s = {} THEN 0 ELSE Pick(s).tokens + The(s \ {Pick(s)})[s \ {Pick(s)}]]
  <2>1. ASSUME NEW s \in SUBSET T, s # T
        PROVE  g[s] = The(s)[s]
    <3>1. Sums(The(s), s)
      BY <1>1, <2>1
    <3>2. CASE s = {}
      <4>1. The(s)[s] = 0
        BY Zenon, <3>1, <3>2 DEF Sums
      <4> QED
        BY <3>2, <4>1
    <3>3. CASE s # {}
      <4> DEFINE u == s \ {Pick(s)}
      <4>1. The(s)[s] = Pick(s).tokens + The(s)[u]
        <5> HIDE DEF The
        <5> QED
          BY <3>1, <3>3 DEF Sums
      <4>2. u \in SUBSET s /\ u \in SUBSET T /\ u # T
        BY <2>1
      <4>3. Sums(The(u), u)
        BY <1>1, <4>2
      <4>4. Sums([v \in SUBSET u |-> The(s)[v]], u)
        <5> HIDE DEF The, u
        <5> QED
          BY <3>1, <4>2, SumsRestrict
      <4>5. IsFiniteSet(u)
        BY <4>2, FS_Subset
      <4>6. The(u) = [v \in SUBSET u |-> The(s)[v]]
        <5> HIDE DEF The, u
        <5> QED
          BY <4>3, <4>4, <4>5, SumsUnique
      <4>7. The(u)[u] = The(s)[u]
        <5> HIDE DEF The
        <5> QED
          BY <4>6
      <4>8. g[s] = Pick(s).tokens + The(u)[u]
        <5> HIDE DEF The
        <5> QED
          BY <3>3
      <4> QED
        BY Zenon, <4>1, <4>7, <4>8
    <3> QED
      BY <3>2, <3>3
  <2> HIDE DEF The
  <2>2. ASSUME NEW s \in SUBSET T
        PROVE  g[s] = IF s = {} THEN 0 ELSE Pick(s).tokens + g[s \ {Pick(s)}]
    <3>1. CASE s = {}
      BY <3>1
    <3>2. CASE s # {}
      <4>1. Pick(s) \in s
        BY <3>2 DEF Pick
      <4>2. s \ {Pick(s)} \in SUBSET T /\ s \ {Pick(s)} # T
        BY <4>1
      <4>3. g[s \ {Pick(s)}] = The(s \ {Pick(s)})[s \ {Pick(s)}]
        BY <2>1, <4>2
      <4>4. g[s] = Pick(s).tokens + The(s \ {Pick(s)})[s \ {Pick(s)}]
        BY <3>2
      <4> QED
        BY Zenon, <3>2, <4>3, <4>4
    <3> QED
      BY <3>1, <3>2
  <2>3. g = [s \in SUBSET T |-> g[s]]
    OBVIOUS
  <2> HIDE DEF g
  <2>4. g = [s \in SUBSET T |-> IF s = {} THEN 0 ELSE Pick(s).tokens + g[s \ {Pick(s)}]]
    BY Zenon, <2>2, <2>3
  <2>5. Sums(g, T)
    BY Zenon, <2>4 DEF Sums
  <2>6. Sums(The(T), T)
    BY Zenon, <2>5 DEF The
  <2> QED
    BY <2>6
<1>2. SUBSET S \subseteq Good
  <2> HIDE DEF Good
  <2> QED
    BY <1>1, SubsetInduction
<1>3. Sums(The(S), S)
  BY <1>2
<1> QED
  BY <1>3

\* The tokens of a finite set of entries, one entry at a time.
LEMMA TokensOneByOne ==
  ASSUME NEW S, IsFiniteSet(S)
  PROVE  /\ Tokens({}) = 0
         /\ S # {} => Pick(S) \in S /\ Tokens(S) = Pick(S).tokens + Tokens(S \ {Pick(S)})
<1> DEFINE The(T) == CHOOSE f : Sums(f, T)
<1>1. \A T : IsFiniteSet(T) => Sums(The(T), T)
  BY Zenon, SumsExist
<1>2. \A T : Tokens(T) = The(T)[T]
  BY TokensDef
<1> HIDE DEF The
<1>3. Tokens({}) = 0
  <2>1. Sums(The({}), {})
    BY <1>1, FS_EmptySet
  <2> QED
    BY <1>2, <2>1 DEF Sums
<1>4. ASSUME S # {} PROVE Pick(S) \in S /\ Tokens(S) = Pick(S).tokens + Tokens(S \ {Pick(S)})
  <2> DEFINE u == S \ {Pick(S)}
  <2>1. Pick(S) \in S
    BY <1>4 DEF Pick
  <2>2. Sums(The(S), S) /\ u \in SUBSET S /\ IsFiniteSet(u)
    BY <1>1, FS_Subset
  <2>3. The(S)[S] = Pick(S).tokens + The(S)[u]
    BY <1>4, <2>2 DEF Sums
  <2> HIDE DEF u
  <2>4. Sums([v \in SUBSET u |-> The(S)[v]], u) /\ Sums(The(u), u)
    BY <1>1, <2>2, SumsRestrict
  <2>5. The(u) = [v \in SUBSET u |-> The(S)[v]]
    BY <2>2, <2>4, SumsUnique
  <2>6. The(u)[u] = The(S)[u]
    BY <2>5
  <2>7. Tokens(S) = Pick(S).tokens + Tokens(u)
    BY Zenon, <1>2, <2>3, <2>6
  <2> QED
    BY <2>1, <2>7 DEF u
<1> QED
  BY <1>3, <1>4

\* Finite sets of entries.
Weighed(S) == IsFiniteSet(S) /\ \A e \in S : e.tokens \in Nat

\* Parts of a finite set of entries are finite sets of entries.
LEMMA WeighedSubset ==
  ASSUME NEW S, Weighed(S), NEW T, T \subseteq S
  PROVE  Weighed(T)
BY FS_Subset DEF Weighed

\* So are two together.
LEMMA WeighedUnion ==
  ASSUME NEW S, Weighed(S), NEW T, Weighed(T)
  PROVE  Weighed(S \cup T)
BY FS_Union DEF Weighed

\* A sum of tokens is a number.
LEMMA TokensType ==
  ASSUME NEW S, Weighed(S)
  PROVE  Tokens(S) \in Nat
<1> DEFINE Good == {T \in SUBSET S : Tokens(T) \in Nat}
<1>1. ASSUME NEW T \in SUBSET S, \A U \in SUBSET T : U # T => U \in Good PROVE T \in Good
  <2>1. IsFiniteSet(T)
    BY FS_Subset DEF Weighed
  <2>2. CASE T = {}
    <3>1. Tokens(T) = 0
      BY <2>1, <2>2, TokensOneByOne
    <3> QED
      BY <3>1
  <2>3. CASE T # {}
    <3>1. Pick(T) \in T /\ Tokens(T) = Pick(T).tokens + Tokens(T \ {Pick(T)})
      BY <2>1, <2>3, TokensOneByOne
    <3>2. T \ {Pick(T)} \in Good
      BY <1>1, <3>1
    <3>3. Pick(T).tokens \in Nat
      BY <3>1 DEF Weighed
    <3> QED
      BY <3>1, <3>2, <3>3
  <2> QED
    BY <2>2, <2>3
<1>2. SUBSET S \subseteq Good
  <2> HIDE DEF Good
  <2> QED
    BY <1>1, SubsetInduction DEF Weighed
<1> QED
  BY <1>2

\* The order in which entries are summed does not matter.
LEMMA TokensWithout ==
  ASSUME NEW S, Weighed(S), NEW x \in S
  PROVE  Tokens(S) = x.tokens + Tokens(S \ {x})
<1> DEFINE Good == {T \in SUBSET S : \A y \in T : Tokens(T) = y.tokens + Tokens(T \ {y})}
<1>0. \A T \in SUBSET S : IsFiniteSet(T) /\ Tokens(T) \in Nat
  BY WeighedSubset, TokensType DEF Weighed
<1>1. ASSUME NEW T \in SUBSET S, \A U \in SUBSET T : U # T => U \in Good PROVE T \in Good
  <2> SUFFICES ASSUME NEW y \in T PROVE Tokens(T) = y.tokens + Tokens(T \ {y})
    OBVIOUS
  <2> DEFINE p == Pick(T)
             rest == (T \ {p}) \ {y}
  <2>1. p \in T /\ Tokens(T) = p.tokens + Tokens(T \ {p})
    BY <1>0, TokensOneByOne
  <2> HIDE DEF p
  <2>2. CASE y = p
    BY <2>1, <2>2
  <2>3. CASE y # p
    <3>1. /\ T \ {p} \in Good /\ y \in T \ {p}
          /\ T \ {y} \in Good /\ p \in T \ {y}
      BY <1>1, <2>1, <2>3
    <3>2. Tokens(T \ {p}) = y.tokens + Tokens(rest)
      BY <3>1
    <3>3. Tokens(T \ {y}) = p.tokens + Tokens((T \ {y}) \ {p})
      BY <3>1
    <3>4. (T \ {y}) \ {p} = rest
      OBVIOUS
    <3>5. p.tokens \in Nat /\ y.tokens \in Nat /\ Tokens(rest) \in Nat
      BY <1>0, <2>1 DEF Weighed
    <3> HIDE DEF rest
    <3> QED
      BY <2>1, <3>2, <3>3, <3>4, <3>5
  <2> QED
    BY <2>2, <2>3
<1>2. SUBSET S \subseteq Good
  <2> HIDE DEF Good
  <2> QED
    BY <1>1, SubsetInduction DEF Weighed
<1> QED
  BY <1>2

\* A new entry adds its tokens.
LEMMA TokensWith ==
  ASSUME NEW S, Weighed(S), NEW x, x.tokens \in Nat, x \notin S
  PROVE  Tokens(S \cup {x}) = x.tokens + Tokens(S)
<1>1. Weighed(S \cup {x})
  BY FS_AddElement DEF Weighed
<1>2. (S \cup {x}) \ {x} = S
  OBVIOUS
<1>3. Tokens(S \cup {x}) = x.tokens + Tokens((S \cup {x}) \ {x})
  BY <1>1, TokensWithout
<1> QED
  BY <1>2, <1>3

\* More entries have no fewer tokens.
LEMMA TokensMonotonic ==
  ASSUME NEW S, Weighed(S), NEW T, T \subseteq S
  PROVE  Tokens(T) <= Tokens(S)
<1> DEFINE Good == {V \in SUBSET S : \A U \in SUBSET V : Tokens(U) <= Tokens(V)}
<1>0. \A V \in SUBSET S : Weighed(V) /\ Tokens(V) \in Nat
  BY WeighedSubset, TokensType
<1>1. ASSUME NEW V \in SUBSET S, \A U \in SUBSET V : U # V => U \in Good PROVE V \in Good
  <2> SUFFICES ASSUME NEW U \in SUBSET V, U # V PROVE Tokens(U) <= Tokens(V)
    BY <1>0
  <2>1. PICK x \in V : x \notin U
    OBVIOUS
  <2>2. Tokens(V) = x.tokens + Tokens(V \ {x})
    BY <1>0, TokensWithout
  <2>3. V \ {x} \in Good /\ U \in SUBSET (V \ {x})
    BY <1>1, <2>1
  <2>4. Tokens(U) <= Tokens(V \ {x})
    BY <2>3
  <2>5. x.tokens \in Nat /\ Tokens(U) \in Nat /\ Tokens(V \ {x}) \in Nat
    BY <1>0 DEF Weighed
  <2> QED
    BY <2>2, <2>4, <2>5
<1>2. SUBSET S \subseteq Good
  <2> HIDE DEF Good
  <2> QED
    BY <1>1, SubsetInduction DEF Weighed
<1> QED
  BY <1>2

\* The tokens of two sets of entries are at most those of each together.
LEMMA TokensUnion ==
  ASSUME NEW S, Weighed(S), NEW T, Weighed(T)
  PROVE  Tokens(S \cup T) <= Tokens(S) + Tokens(T)
<1> DEFINE Good == {V \in SUBSET T : Tokens(S \cup V) <= Tokens(S) + Tokens(V)}
<1>0. /\ \A V \in SUBSET T : Weighed(V) /\ Tokens(V) \in Nat
      /\ \A V \in SUBSET T : Weighed(S \cup V) /\ Tokens(S \cup V) \in Nat
      /\ Tokens(S) \in Nat
  BY WeighedSubset, WeighedUnion, TokensType
<1>1. ASSUME NEW V \in SUBSET T, \A U \in SUBSET V : U # V => U \in Good PROVE V \in Good
  <2>1. CASE V = {}
    <3>1. S \cup V = S
      BY <2>1
    <3> QED
      BY <1>0, <3>1
  <2>2. CASE V # {}
    <3>1. PICK x \in V : TRUE
      BY <2>2
    <3> DEFINE W == V \ {x}
    <3>2. Tokens(S \cup W) <= Tokens(S) + Tokens(W)
      BY <1>1
    <3>3. Tokens(V) = x.tokens + Tokens(W)
      BY <1>0, TokensWithout
    <3>4. x.tokens \in Nat /\ Tokens(W) \in Nat /\ Tokens(S \cup W) \in Nat
      BY <1>0 DEF Weighed
    <3>5. CASE x \in S
      <4>1. S \cup V = S \cup W
        BY <3>5
      <4> HIDE DEF W
      <4> QED
        BY <1>0, <3>2, <3>3, <3>4, <4>1
    <3>6. CASE x \notin S
      <4>1. (S \cup V) \ {x} = S \cup W
        BY <3>6
      <4>2. Tokens(S \cup V) = x.tokens + Tokens((S \cup V) \ {x})
        BY <1>0, TokensWithout
      <4>3. Tokens(S \cup V) = x.tokens + Tokens(S \cup W)
        BY Zenon, <4>1, <4>2
      <4>4. Tokens(S) \in Nat /\ Tokens(V) \in Nat
        BY <1>0
      <4> HIDE DEF W
      <4> QED
        BY <3>2, <3>3, <3>4, <4>3, <4>4
    <3> QED
      BY <3>5, <3>6
  <2> QED
    BY <2>1, <2>2
<1>2. SUBSET T \subseteq Good
  <2> HIDE DEF Good
  <2> QED
    BY <1>1, SubsetInduction DEF Weighed
<1> QED
  BY <1>2

\* Entries of at most b tokens have at most b times as many.
LEMMA TokensBound ==
  ASSUME NEW S, Weighed(S), NEW b \in Nat, \A e \in S : e.tokens <= b
  PROVE  Tokens(S) <= b * Cardinality(S)
<1> DEFINE Good == {T \in SUBSET S : Tokens(T) <= b * Cardinality(T)}
<1>0. \A T \in SUBSET S : IsFiniteSet(T) /\ Weighed(T) /\ Tokens(T) \in Nat /\ Cardinality(T) \in Nat
  BY WeighedSubset, TokensType, FS_CardinalityType DEF Weighed
<1>1. ASSUME NEW T \in SUBSET S, \A U \in SUBSET T : U # T => U \in Good PROVE T \in Good
  <2>1. CASE T = {}
    <3>1. Tokens(T) = 0 /\ Cardinality(T) = 0
      BY <1>0, <2>1, TokensOneByOne, FS_EmptySet
    <3> QED
      BY <3>1
  <2>2. CASE T # {}
    <3>1. PICK x \in T : TRUE
      BY <2>2
    <3> DEFINE U == T \ {x}
    <3>2. Tokens(U) <= b * Cardinality(U)
      BY <1>1
    <3>3. Tokens(T) = x.tokens + Tokens(U)
      BY <1>0, TokensWithout
    <3>4. Cardinality(U) = Cardinality(T) - 1
      BY <1>0, FS_RemoveElement
    <3>5. Cardinality(T) = Cardinality(U) + 1
      BY <1>0, <3>4
    <3>6. /\ x.tokens \in Nat /\ x.tokens <= b
          /\ Tokens(U) \in Nat /\ Cardinality(U) \in Nat
      BY <1>0 DEF Weighed
    <3> HIDE DEF U
    <3>7. b * Cardinality(T) = b * Cardinality(U) + b
      BY <3>5, <3>6
    <3>8. b * Cardinality(U) \in Nat
      BY <3>6
    <3> QED
      BY <3>2, <3>3, <3>6, <3>7, <3>8
  <2> QED
    BY <2>1, <2>2
<1>2. SUBSET S \subseteq Good
  <2> HIDE DEF Good
  <2> QED
    BY <1>1, SubsetInduction DEF Weighed
<1> QED
  BY <1>2

-----------------------------------------------------------------------------
(* Operators *)


\* The budget of a minute is positive.
LEMMA BudgetType == Budget \in Nat \ {0}
BY DEF Budget

\* A finite set of usages has a number of them and a sum of tokens.
LEMMA UsageWeighed ==
  ASSUME NEW S \in Usages
  PROVE  /\ IsFiniteSet(S) /\ Cardinality(S) \in Nat /\ Weighed(S) /\ Tokens(S) \in Nat
         /\ \A e \in S : e.tokens \in Nat
<1>1. \A e \in S : e.tokens \in Nat
  BY DEF Usages, Usage
<1>2. IsFiniteSet(S)
  BY DEF Usages
<1>3. Cardinality(S) \in Nat
  BY <1>2, FS_CardinalityType
<1>4. Weighed(S)
  BY <1>1, <1>2 DEF Weighed
<1>5. Tokens(S) \in Nat
  BY <1>4, TokensType
<1> QED
  BY <1>1, <1>2, <1>3, <1>4, <1>5

\* Parts of finite sets of usages are such sets.
LEMMA UsagesSubset ==
  ASSUME NEW S \in Usages, NEW T, T \subseteq S
  PROVE  T \in Usages
BY FS_Subset DEF Usages

\* So are two together.
LEMMA UsagesUnion ==
  ASSUME NEW S \in Usages, NEW T \in Usages
  PROVE  S \cup T \in Usages
BY FS_Union DEF Usages

\* So is one with one more.
LEMMA UsagesAdd ==
  ASSUME NEW S \in Usages, NEW e \in Usage
  PROVE  S \cup {e} \in Usages
BY FS_AddElement DEF Usages

\* Two sets together weigh and count at most what they do apart.
LEMMA Together ==
  ASSUME NEW S \in Usages, NEW T \in Usages
  PROVE  /\ S \cup T \in Usages
         /\ Tokens(S \cup T) <= Tokens(S) + Tokens(T)
         /\ Cardinality(S \cup T) <= Cardinality(S) + Cardinality(T)
<1>1. S \cup T \in Usages
  BY UsagesUnion
<1>2. Tokens(S \cup T) <= Tokens(S) + Tokens(T)
  BY UsageWeighed, TokensUnion
<1>3. /\ IsFiniteSet(S) /\ IsFiniteSet(T)
      /\ Cardinality(S) \in Nat /\ Cardinality(T) \in Nat
  BY UsageWeighed
<1>4. Cardinality(S \cup T) = Cardinality(S) + Cardinality(T) - Cardinality(S \cap T)
  BY <1>3, FS_Union
<1>5. Cardinality(S \cap T) \in Nat
  BY <1>3, FS_Subset, FS_CardinalityType
<1> QED
  BY <1>1, <1>2, <1>3, <1>4, <1>5

\* One more entry adds at most its tokens and one.
LEMMA OneMore ==
  ASSUME NEW S \in Usages, NEW e \in Usage
  PROVE  /\ S \cup {e} \in Usages
         /\ Tokens(S \cup {e}) <= Tokens(S) + e.tokens
         /\ Cardinality(S \cup {e}) <= Cardinality(S) + 1
<1>1. S \cup {e} \in Usages
  BY UsagesAdd
<1>2. e.tokens \in Nat
  BY DEF Usage
<1>3. Tokens(S) \in Nat /\ Cardinality(S) \in Nat /\ IsFiniteSet(S) /\ Weighed(S)
  BY UsageWeighed
<1>4. CASE e \in S
  <2>1. S \cup {e} = S
    BY <1>4
  <2>2. Tokens(S \cup {e}) = Tokens(S) /\ Cardinality(S \cup {e}) = Cardinality(S)
    BY Zenon, <2>1
  <2> QED
    BY <1>1, <1>2, <1>3, <2>2
<1>5. CASE e \notin S
  <2>1. Tokens(S \cup {e}) = e.tokens + Tokens(S)
    BY <1>2, <1>3, <1>5, TokensWith
  <2>2. Cardinality(S \cup {e}) = Cardinality(S) + 1
    BY <1>3, <1>5, FS_AddElement
  <2> QED
    BY <1>1, <1>2, <1>3, <2>1, <2>2
<1> QED
  BY <1>4, <1>5

\* One less leaves the rest.
LEMMA OneLess ==
  ASSUME NEW S \in Usages, NEW e \in S
  PROVE  /\ S \ {e} \in Usages /\ e.tokens \in Nat
         /\ Tokens(S) = e.tokens + Tokens(S \ {e})
         /\ Cardinality(S) = Cardinality(S \ {e}) + 1
<1>1. /\ IsFiniteSet(S) /\ Weighed(S) /\ Cardinality(S) \in Nat
      /\ \A x \in S : x.tokens \in Nat
  BY UsageWeighed
<1>2. S \ {e} \in Usages
  BY UsagesSubset
<1>3. Tokens(S) = e.tokens + Tokens(S \ {e})
  BY <1>1, TokensWithout
<1>4. Cardinality(S \ {e}) = Cardinality(S) - 1
  BY <1>1, FS_RemoveElement
<1> QED
  BY <1>1, <1>2, <1>3, <1>4

\* A smaller set weighs and counts no more.
LEMMA Fewer ==
  ASSUME NEW S \in Usages, NEW T, T \subseteq S
  PROVE  /\ T \in Usages
         /\ Tokens(T) <= Tokens(S) /\ Cardinality(T) <= Cardinality(S)
BY UsageWeighed, UsagesSubset, TokensMonotonic, FS_Subset

\* Exchanging an entry for another changes the tokens by what they differ.
LEMMA Exchange ==
  ASSUME NEW S \in Usages, NEW x \in S, NEW y \in Usage
  PROVE  LET T == (S \ {x}) \cup {y}
         IN  /\ T \in Usages
             /\ Tokens(T) <= Tokens(S) - x.tokens + y.tokens
             /\ Cardinality(T) <= Cardinality(S)
<1> DEFINE R == S \ {x}
           T == R \cup {y}
<1>1. /\ R \in Usages /\ x.tokens \in Nat
      /\ Tokens(S) = x.tokens + Tokens(R) /\ Cardinality(S) = Cardinality(R) + 1
  BY OneLess
<1> HIDE DEF R
<1>2. /\ T \in Usages /\ Tokens(T) <= Tokens(R) + y.tokens /\ Cardinality(T) <= Cardinality(R) + 1
  BY <1>1, OneMore
<1>3. /\ Tokens(R) \in Nat /\ Cardinality(R) \in Nat /\ Tokens(T) \in Nat /\ Cardinality(T) \in Nat
      /\ y.tokens \in Nat
  BY <1>1, <1>2, UsageWeighed DEF Usage
<1>4. Tokens(T) <= Tokens(S) - x.tokens + y.tokens /\ Cardinality(T) <= Cardinality(S)
  BY <1>1, <1>2, <1>3
<1> QED
  BY <1>2, <1>4 DEF R

\* A function that does not add tokens to an entry does not add tokens or entries
\* to a set.
LEMMA Image ==
  ASSUME NEW S \in Usages, NEW f, \A e \in S : f[e] \in Usage /\ f[e].tokens <= e.tokens
  PROVE  LET T == {f[e] : e \in S}
         IN  T \in Usages /\ Tokens(T) <= Tokens(S) /\ Cardinality(T) <= Cardinality(S)
<1> DEFINE I(U) == {f[e] : e \in U}
           g == [e \in S |-> f[e]]
<1>1. g \in Surjection(S, I(S)) /\ IsFiniteSet(S)
  BY DEF Surjection, Usages
<1>2. IsFiniteSet(I(S)) /\ Cardinality(I(S)) <= Cardinality(S)
  <2> HIDE DEF I, g
  <2> QED
    BY <1>1, FS_Surjection
<1>3. I(S) \in Usages
  BY <1>2 DEF Usages
<1> DEFINE Good == {U \in SUBSET S : Tokens(I(U)) <= Tokens(U)}
<1>4. ASSUME NEW U \in SUBSET S
      PROVE  U \in Usages /\ I(U) \in Usages /\ Tokens(U) \in Nat /\ Tokens(I(U)) \in Nat
  <2>1. U \in Usages /\ I(U) \subseteq I(S)
    BY UsagesSubset
  <2> HIDE DEF I
  <2>2. I(U) \in Usages
    BY <1>3, <2>1, UsagesSubset
  <2> QED
    BY <2>1, <2>2, UsageWeighed
<1>5. ASSUME NEW U \in SUBSET S, \A V \in SUBSET U : V # U => V \in Good PROVE U \in Good
  <2>1. CASE U = {}
    <3>1. I(U) = {}
      BY <2>1
    <3>2. Tokens({}) = 0
      BY FS_EmptySet, TokensOneByOne
    <3>3. Tokens(I(U)) = 0 /\ Tokens(U) = 0
      <4> HIDE DEF I
      <4> QED
        BY Zenon, <2>1, <3>1, <3>2
    <3> QED
      BY <3>3
  <2>2. CASE U # {}
    <3>1. PICK x \in U : TRUE
      BY <2>2
    <3> DEFINE V == U \ {x}
    <3>2. V \in SUBSET S /\ V \in Good /\ x \in S
      BY <1>5, <3>1
    <3>3. I(U) = I(V) \cup {f[x]}
      BY <3>1
    <3>4. Tokens(I(V)) <= Tokens(V)
      BY <3>2
    <3>5. Tokens(U) = x.tokens + Tokens(V) /\ x.tokens \in Nat
      BY <1>4, <3>1, OneLess
    <3>6. /\ V \in Usages /\ I(V) \in Usages /\ Tokens(V) \in Nat /\ Tokens(I(V)) \in Nat
          /\ Tokens(I(U)) \in Nat /\ f[x] \in Usage /\ f[x].tokens \in Nat /\ f[x].tokens <= x.tokens
      BY <1>4, <3>2 DEF Usage
    <3> HIDE DEF I, V
    <3>7. Tokens(I(U)) <= Tokens(I(V)) + f[x].tokens
      BY <3>3, <3>6, OneMore
    <3> QED
      BY <3>4, <3>5, <3>6, <3>7
  <2> QED
    BY <2>1, <2>2
<1>6. SUBSET S \subseteq Good
  <2> HIDE DEF Good
  <2> QED
    BY <1>1, <1>5, SubsetInduction
<1>7. Tokens(I(S)) <= Tokens(S)
  BY <1>6
<1> QED
  BY <1>2, <1>3, <1>7

\* What an entry is counted with.
Weight(e) == Min({e.tokens, e.limit})

\* It is one of its two numbers, and no more than either.
LEMMA MinOf ==
  ASSUME NEW a \in Nat, NEW b \in Nat
  PROVE  Min({a, b}) \in Nat /\ Min({a, b}) \in {a, b} /\ Min({a, b}) <= a /\ Min({a, b}) <= b
<1>1. \E x \in {a, b} : \A y \in {a, b} : x <= y
  OBVIOUS
<1>2. Min({a, b}) \in {a, b} /\ \A y \in {a, b} : Min({a, b}) <= y
  BY <1>1 DEF Min
<1> QED
  BY <1>2

\* The same for an entry.
LEMMA WeightType ==
  ASSUME NEW e \in Usage
  PROVE  /\ Weight(e) \in Nat /\ Weight(e) <= e.tokens /\ Weight(e) <= e.limit
         /\ [e EXCEPT !.tokens = Weight(e)] \in Usage
         /\ [e EXCEPT !.tokens = Weight(e)].of = e.of
         /\ [e EXCEPT !.tokens = Weight(e)].tokens = Weight(e)
<1>1. e.tokens \in Nat /\ e.limit \in Nat
  BY DEF Usage
<1>2. Weight(e) \in Nat /\ Weight(e) <= e.tokens /\ Weight(e) <= e.limit
  BY <1>1, MinOf DEF Weight
<1> QED
  BY <1>2 DEF Usage

\* Counting no more than the limits does not add tokens.
LEMMA CountedType ==
  ASSUME NEW S \in Usages
  PROVE  /\ Counted(S) \in Usages
         /\ Tokens(Counted(S)) \in Nat /\ Tokens(Counted(S)) <= Tokens(S)
<1> DEFINE f == [e \in S |-> [e EXCEPT !.tokens = Weight(e)]]
<1>1. \A e \in S : f[e] \in Usage /\ f[e].tokens <= e.tokens
  BY WeightType DEF Usages
<1>2. Counted(S) = {f[e] : e \in S}
  BY DEF Counted, Weight
<1> HIDE DEF f
<1> DEFINE T == {f[e] : e \in S}
<1>3. T \in Usages /\ Tokens(T) <= Tokens(S)
  BY Zenon, <1>1, Image
<1> HIDE DEF T
<1>4. Tokens(T) \in Nat
  BY <1>3, UsageWeighed
<1> QED
  BY Zenon, <1>2, <1>3, <1>4 DEF T

\* Sets are counted together as they are apart.
LEMMA CountedUnion == \A S, T : Counted(S \cup T) = Counted(S) \cup Counted(T)
BY DEF Counted

\* A smaller set is counted no higher.
LEMMA CountedFewer ==
  ASSUME NEW S \in Usages, NEW T, T \subseteq S
  PROVE  Tokens(Counted(T)) \in Nat /\ Tokens(Counted(T)) <= Tokens(Counted(S))
<1>1. Counted(T) \subseteq Counted(S)
  BY DEF Counted
<1>2. Counted(S) \in Usages
  BY CountedType
<1>3. Counted(T) \in Usages /\ Tokens(Counted(T)) <= Tokens(Counted(S))
  BY <1>1, <1>2, Fewer
<1> QED
  BY <1>3, UsageWeighed

\* An entry of the same call that is counted no higher can take an entry's place.
LEMMA CountedExchange ==
  ASSUME NEW S \in Usages, \A e, f \in S : e.of = f.of => e = f,
         NEW x \in S, NEW y \in Usage, y.of = x.of, Weight(y) <= Weight(x)
  PROVE  LET T == (S \ {x}) \cup {y}
         IN  /\ T \in Usages /\ Cardinality(T) <= Cardinality(S)
             /\ Tokens(Counted(T)) <= Tokens(Counted(S))
<1> DEFINE R == S \ {x}
           T == R \cup {y}
           cx == [x EXCEPT !.tokens = Weight(x)]
           cy == [y EXCEPT !.tokens = Weight(y)]
<1>1. T \in Usages /\ Cardinality(T) <= Cardinality(S)
  BY Exchange
<1>2. /\ x \in Usage /\ cx \in Usage /\ cx.of = x.of /\ cx.tokens = Weight(x) /\ Weight(x) \in Nat
      /\ cy \in Usage /\ cy.tokens = Weight(y) /\ Weight(y) \in Nat
  <2>1. x \in Usage
    BY DEF Usages
  <2> QED
    BY <2>1, WeightType
<1>3. Counted(S) = Counted(R) \cup {cx} /\ Counted(T) = Counted(R) \cup {cy}
  <2>1. S = R \cup {x}
    OBVIOUS
  <2>2. Counted({x}) = {cx} /\ Counted({y}) = {cy}
    BY DEF Counted, Weight
  <2> HIDE DEF R
  <2> QED
    BY Zenon, <2>1, <2>2, CountedUnion
<1>4. cx \notin Counted(R)
  <2> SUFFICES ASSUME cx \in Counted(R) PROVE FALSE
    OBVIOUS
  <2>1. PICK e \in R : cx = [e EXCEPT !.tokens = Weight(e)]
    BY DEF Counted, Weight
  <2>2. e \in S /\ e # x /\ e \in Usage
    BY <2>1 DEF Usages
  <2>3. cx.of = e.of
    BY <2>1, <2>2, WeightType
  <2> QED
    BY <1>2, <2>2, <2>3
<1>5. Counted(R) \in Usages /\ Tokens(Counted(R)) \in Nat /\ Weighed(Counted(R))
  <2>1. R \in Usages
    BY UsagesSubset
  <2>2. Counted(R) \in Usages
    BY <2>1, CountedType
  <2> QED
    BY <2>2, UsageWeighed
<1> HIDE DEF R, T, cx, cy
<1>6. Tokens(Counted(S)) = Weight(x) + Tokens(Counted(R))
  <2>1. Tokens(Counted(R) \cup {cx}) = cx.tokens + Tokens(Counted(R))
    BY <1>2, <1>4, <1>5, TokensWith
  <2> QED
    BY Zenon, <1>2, <1>3, <2>1
<1>7. Tokens(Counted(T)) <= Tokens(Counted(R)) + Weight(y)
  <2>1. Tokens(Counted(R) \cup {cy}) <= Tokens(Counted(R)) + cy.tokens
    BY <1>2, <1>5, OneMore
  <2> QED
    BY Zenon, <1>2, <1>3, <2>1
<1>8. Tokens(Counted(T)) \in Nat
  BY <1>1, CountedType
<1>9. Tokens(Counted(T)) <= Tokens(Counted(S))
  BY <1>2, <1>5, <1>6, <1>7, <1>8
<1> QED
  BY <1>1, <1>9 DEF R, T

\* What is granted fits the minute and the day, and is no more than the budget.
LEMMA GrantFits ==
  ASSUME NEW entries \in Usages, NEW daily \in Counts, NEW input \in Nat,
         Fits(entries, daily, input)
  PROVE  LET tokens == input + Available(entries, daily, input)
         IN  /\ tokens \in 0..Budget
             /\ Tokens(entries) + tokens <= Budget
             /\ daily.tokens + tokens <= TPD
             /\ daily.requests < RPD /\ Cardinality(entries) < RPM
<1> DEFINE minute == Budget - Tokens(entries) - input
           day == TPD - daily.tokens - input
           S == {Configured, minute, day}
           a == Available(entries, daily, input)
<1>1. /\ Tokens(entries) \in Nat /\ daily.tokens \in Nat /\ Budget \in Nat
      /\ minute \in Int /\ day \in Int /\ Configured \in Int
  <2>1. Tokens(entries) \in Nat /\ daily.tokens \in Nat /\ Budget \in Nat
    BY UsageWeighed, BudgetType DEF Counts
  <2> QED
    BY <2>1
<1>2. a = Min(S)
  BY DEF Available
<1>3. Min(S) \in S /\ \A y \in S : Min(S) <= y
  <2>1. \E x \in S : \A y \in S : x <= y
    <3> HIDE DEF minute, day
    <3> QED
      BY <1>1
  <2> HIDE DEF S
  <2> QED
    BY <2>1 DEF Min
<1>4. a \in Int /\ a <= minute /\ a <= day
  <2> HIDE DEF minute, day, a
  <2> QED
    BY <1>1, <1>2, <1>3
<1>5. /\ a >= MinOutput /\ daily.requests < RPD /\ Cardinality(entries) < RPM
  BY DEF Fits
<1> HIDE DEF a
<1>6. /\ input + a \in 0..Budget
      /\ Tokens(entries) + (input + a) <= Budget
      /\ daily.tokens + (input + a) <= TPD
  BY <1>1, <1>4, <1>5
<1> QED
  BY <1>5, <1>6 DEF a

\* An entry with other tokens, or another limit.
WithTokens(e, n) == [e EXCEPT !.tokens = n]
WithLimit(e, n) == [e EXCEPT !.limit = n]

\* Each is an entry.
LEMMA WithTokensType ==
  ASSUME NEW e \in Usage, NEW n \in Nat
  PROVE  /\ WithTokens(e, n) \in Usage /\ WithTokens(e, n).of = e.of
         /\ WithTokens(e, n).at = e.at /\ WithTokens(e, n).tokens = n
         /\ WithTokens(e, n).limit = e.limit
BY DEF WithTokens, Usage

\* So is the other.
LEMMA WithLimitType ==
  ASSUME NEW e \in Usage, NEW n \in Nat
  PROVE  /\ WithLimit(e, n) \in Usage /\ WithLimit(e, n).of = e.of
         /\ WithLimit(e, n).at = e.at /\ WithLimit(e, n).tokens = e.tokens
         /\ WithLimit(e, n).limit = n
BY DEF WithLimit, Usage

\* Replacing the tokens, or the limit, of a call's only entry.
LEMMA Replaced ==
  ASSUME NEW S, NEW x \in S, \A e \in S : e.of = x.of => e = x, NEW n
  PROVE  /\ Replace(S, x.of, n) = (S \ {x}) \cup {WithTokens(x, n)}
         /\ Used(S, x.of, n) = (S \ {x}) \cup {WithLimit(x, n)}
BY DEF Replace, Used, WithTokens, WithLimit

\* Where a call has no entry, nothing is replaced.
LEMMA NothingReplaced ==
  ASSUME NEW S, NEW m, \A e \in S : e.of # m, NEW n
  PROVE  Replace(S, m, n) = S /\ Used(S, m, n) = S
BY DEF Replace, Used

\* Replacing keeps a finite set of usages one, and with tokens that were at the
\* limit it counts no higher.
LEMMA ReplacedCounts ==
  ASSUME NEW S \in Usages, NEW m, NEW n \in Nat, \A e \in S : e.of = m => e.tokens = e.limit
  PROVE  /\ Replace(S, m, n) \in Usages /\ Cardinality(Replace(S, m, n)) <= Cardinality(S)
         /\ Tokens(Counted(Replace(S, m, n))) <= Tokens(Counted(S))
<1> DEFINE R == Replace(S, m, n)
           r == [e \in S |-> IF e.of = m THEN [e EXCEPT !.tokens = n] ELSE e]
           g == [c \in Counted(S) |-> IF c.of = m THEN [c EXCEPT !.tokens = Min({n, c.limit})] ELSE c]
<1>1. R \in Usages /\ Cardinality(R) <= Cardinality(S)
  <2>1. r \in Surjection(S, R) /\ IsFiniteSet(S)
    BY DEF Surjection, Replace, Usages
  <2>2. R \subseteq Usage
    BY DEF Replace, Usages, Usage
  <2> HIDE DEF R, r
  <2>3. IsFiniteSet(R) /\ Cardinality(R) <= Cardinality(S)
    BY <2>1, FS_Surjection
  <2> QED
    BY <2>2, <2>3 DEF Usages
<1>2. Counted(R) = {g[c] : c \in Counted(S)}
  <2> DEFINE h(e) == [e EXCEPT !.tokens = Weight(e)]
  <2>1. Counted(S) = {h(e) : e \in S} /\ Counted(R) = {h(r[e]) : e \in S}
    <3>1. Counted(S) = {h(e) : e \in S} /\ Counted(R) = {h(e) : e \in R}
      BY DEF Counted, Weight
    <3>2. R = {r[e] : e \in S}
      BY DEF Replace
    <3> HIDE DEF h, r, R
    <3>3. {h(e) : e \in R} = {h(r[e]) : e \in S}
      BY <3>2
    <3> QED
      BY Zenon, <3>1, <3>3
  <2>2. ASSUME NEW e \in S PROVE h(r[e]) = g[h(e)]
    <3>1. e \in Usage /\ h(e).of = e.of /\ h(e) \in Counted(S)
      BY <2>1, WeightType DEF Usages
    <3>2. CASE e.of = m
      <4>1. r[e] = [e EXCEPT !.tokens = n] /\ r[e].tokens = n /\ r[e].limit = e.limit
        BY <3>1, <3>2 DEF Usage
      <4>2. h(r[e]) = [e EXCEPT !.tokens = Min({n, e.limit})]
        BY <3>1, <4>1 DEF Usage, Weight
      <4>3. h(e).limit = e.limit
        BY <3>1 DEF Usage
      <4>4. g[h(e)] = [h(e) EXCEPT !.tokens = Min({n, e.limit})]
        <5> HIDE DEF h
        <5> QED
          BY <3>1, <3>2, <4>3
      <4>5. [h(e) EXCEPT !.tokens = Min({n, e.limit})] = [e EXCEPT !.tokens = Min({n, e.limit})]
        BY <3>1 DEF Usage
      <4> QED
        BY Zenon, <4>2, <4>4, <4>5
    <3>3. CASE e.of # m
      <4>1. r[e] = e
        BY <3>3
      <4>2. g[h(e)] = h(e)
        <5> HIDE DEF h
        <5> QED
          BY <3>1, <3>3
      <4> QED
        BY Zenon, <4>1, <4>2
    <3> QED
      BY <3>2, <3>3
  <2> HIDE DEF h, r, g
  <2>3. {h(r[e]) : e \in S} = {g[h(e)] : e \in S}
    BY <2>2
  <2>4. {g[c] : c \in Counted(S)} = {g[h(e)] : e \in S}
    BY <2>1
  <2> QED
    BY Zenon, <2>1, <2>3, <2>4
<1>3. \A c \in Counted(S) : g[c] \in Usage /\ g[c].tokens <= c.tokens
  <2> SUFFICES ASSUME NEW c \in Counted(S) PROVE g[c] \in Usage /\ g[c].tokens <= c.tokens
    OBVIOUS
  <2>1. PICK e \in S : c = [e EXCEPT !.tokens = Weight(e)]
    BY DEF Counted, Weight
  <2>2. e \in Usage /\ c \in Usage /\ c.of = e.of /\ c.tokens = Weight(e) /\ c.limit = e.limit
    BY <2>1, WeightType DEF Usages, Usage
  <2>3. c.tokens \in Nat /\ c.limit \in Nat
    BY <2>2 DEF Usage
  <2>4. CASE c.of = m
    <3>1. e.tokens = e.limit
      BY <2>2, <2>4
    <3>2. c.tokens = c.limit
      <4>1. Weight(e) \in {e.tokens, e.limit}
        BY <2>2, MinOf DEF Weight, Usage
      <4> QED
        BY <2>2, <3>1, <4>1
    <3>3. Min({n, c.limit}) \in Nat /\ Min({n, c.limit}) <= c.tokens
      BY <2>3, <3>2, MinOf
    <3>4. g[c] = [c EXCEPT !.tokens = Min({n, c.limit})]
      BY <2>4
    <3> HIDE DEF g
    <3> QED
      BY <2>2, <3>3, <3>4 DEF Usage
  <2>5. CASE c.of # m
    BY <2>2, <2>3, <2>5
  <2> QED
    BY <2>4, <2>5
<1>4. Counted(S) \in Usages
  BY CountedType
<1> HIDE DEF g, R
<1>5. Tokens(Counted(R)) <= Tokens(Counted(S))
  BY <1>2, <1>3, <1>4, Image
<1> QED
  BY <1>1, <1>5 DEF R

\* Replacing keeps a finite set of usages one.
LEMMA ReplacedType ==
  ASSUME NEW S \in Usages, NEW m, NEW n \in Nat
  PROVE  Replace(S, m, n) \in Usages /\ Used(S, m, n) \in Usages
<1> DEFINE f == [e \in S |-> IF e.of = m THEN [e EXCEPT !.tokens = n] ELSE e]
           g == [e \in S |-> IF e.of = m THEN [e EXCEPT !.limit = n] ELSE e]
<1>1. f \in Surjection(S, Replace(S, m, n)) /\ g \in Surjection(S, Used(S, m, n))
  BY DEF Surjection, Replace, Used
<1> HIDE DEF f, g
<1>2. IsFiniteSet(Replace(S, m, n)) /\ IsFiniteSet(Used(S, m, n))
  BY <1>1, FS_Surjection DEF Usages
<1>3. \A e \in S : /\ e \in Usage
                   /\ [e EXCEPT !.tokens = n] \in Usage /\ [e EXCEPT !.limit = n] \in Usage
  BY DEF Usages, Usage
<1>4. Replace(S, m, n) \subseteq Usage /\ Used(S, m, n) \subseteq Usage
  BY <1>3 DEF Replace, Used
<1> QED
  BY <1>2, <1>4 DEF Usages

\* Counters do not fall below zero.
LEMMA AdjustType ==
  ASSUME NEW daily \in Counts, NEW requests \in Int, NEW tokens \in Int
  PROVE  /\ Adjust(daily, requests, tokens) \in Counts
         /\ Adjust(daily, requests, tokens).requests = AtLeastZero(daily.requests + requests)
         /\ Adjust(daily, requests, tokens).tokens = AtLeastZero(daily.tokens + tokens)
BY DEF Adjust, AtLeastZero, Counts

\* A reservation more counts as one.
LEMMA CountType ==
  ASSUME NEW daily \in Counts, NEW tokens \in Nat
  PROVE  /\ Count(daily, tokens) \in Counts
         /\ Count(daily, tokens).requests = daily.requests + 1
         /\ Count(daily, tokens).tokens = daily.tokens + tokens
BY DEF Count, Counts
-----------------------------------------------------------------------------
(* States *)

\* The current call of a process, and the entry it writes.
LEMMA CallType ==
  ASSUME Typed, NEW p \in Processes
  PROVE  /\ call[p] \in Call /\ call[p].input \in Nat /\ call[p].n \in 0..MaxCalls
         /\ call[p].tokens \in Nat /\ call[p].tokens \in 0..Budget /\ call[p].used \in Nat
         /\ call[p].at \in Times /\ call[p].at \in Nat /\ clock \in Nat /\ call[p].at <= clock
         /\ Day(call[p].at) \in Days /\ Day(clock) \in Days
         /\ days[Day(call[p].at)] \in Counts
         /\ Entry(p).of = Member(p) /\ Entry(p).at = call[p].at
         /\ Entry(p).tokens = call[p].tokens /\ Entry(p).limit = call[p].tokens
         /\ pc[p] # "idle" => Member(p) \in Processes \X (1..MaxCalls) /\ Entry(p) \in Usage
<1>1. call[p] \in Call
  BY DEF Typed
<1>2. /\ call[p].input \in Nat /\ call[p].tokens \in 0..Budget /\ call[p].at \in Times
      /\ call[p].n \in 0..MaxCalls /\ call[p].used \in Nat
  <2>1. /\ call[p].input \in Inputs \cup {0} /\ call[p].tokens \in 0..Budget
        /\ call[p].at \in Times /\ call[p].n \in 0..MaxCalls /\ call[p].used \in Nat
    BY <1>1 DEF Call
  <2>2. call[p].input \in Nat
    <3>1. \A x \in Inputs \cup {0} : x \in Nat
      OBVIOUS
    <3> QED
      BY Zenon, <2>1, <3>1
  <2> QED
    BY Zenon, <2>1, <2>2
<1>3. call[p].tokens \in Nat
  BY <1>2, BudgetType
<1>4. Day(call[p].at) \in Days /\ Day(clock) \in Days
  BY <1>2 DEF Days, Typed
<1>5. days[Day(call[p].at)] \in Counts
  BY <1>4 DEF Typed
<1>6. /\ Entry(p).of = Member(p) /\ Entry(p).at = call[p].at
      /\ Entry(p).tokens = call[p].tokens /\ Entry(p).limit = call[p].tokens
  BY DEF Entry, Reserved
<1>7. ASSUME pc[p] # "idle"
      PROVE  Member(p) \in Processes \X (1..MaxCalls) /\ Entry(p) \in Usage
  <2>1. call[p].n \in 1..MaxCalls
    BY <1>2, <1>7 DEF Typed
  <2> QED
    BY <1>2, <1>3, <2>1 DEF Member, Entry, Reserved, Usage
<1>8. call[p].at \in Nat /\ clock \in Nat /\ call[p].at <= clock
  BY <1>2 DEF Typed, Times
<1> QED
  BY <1>1, <1>2, <1>3, <1>4, <1>5, <1>6, <1>7, <1>8

\* A step of one process leaves the others where they are.
LEMMA Others ==
  ASSUME Typed, NEW p \in Processes, Reserving(p) \/ Answered(p)
  PROVE  /\ \A q \in Processes \ {p} :
              pc'[q] = pc[q] /\ call'[q] = call[q] /\ memory'[q] = memory[q]
         /\ faults' = faults \/ faults' = faults + 1
         /\ clock' = clock
<1> USE DEF Typed
<1>1. ASSUME NEW input \in Inputs, Start(p, input)
      PROVE  /\ \A q \in Processes \ {p} :
                  pc'[q] = pc[q] /\ call'[q] = call[q] /\ memory'[q] = memory[q]
             /\ faults' = faults /\ clock' = clock
  BY <1>1 DEF Start
<1>2. ASSUME Acquire(p) \/ LockTimeout(p) \/ ReadUsage(p) \/ AddEntry(p) \/ CountDay(p)
      PROVE  /\ \A q \in Processes \ {p} :
                  pc'[q] = pc[q] /\ call'[q] = call[q] /\ memory'[q] = memory[q]
             /\ faults' = faults /\ clock' = clock
  BY <1>2 DEF Acquire, LockTimeout, ReadUsage, AddEntry, CountDay
<1>3. ASSUME FallBack(p)
      PROVE  /\ \A q \in Processes \ {p} :
                  pc'[q] = pc[q] /\ call'[q] = call[q] /\ memory'[q] = memory[q]
             /\ faults' = faults + 1 /\ clock' = clock
  BY <1>3 DEF FallBack, Fault
<1>4. ASSUME NEW actual \in Answers(p),
             Settle(p, actual) \/ LeaveReserved(p, actual) \/ ReconcileInMemory(p, actual)
      PROVE  /\ \A q \in Processes \ {p} :
                  pc'[q] = pc[q] /\ call'[q] = call[q] /\ memory'[q] = memory[q]
             /\ faults' = faults /\ clock' = clock
  BY <1>4 DEF Settle, LeaveReserved, ReconcileInMemory
<1>5. ASSUME TakeEntry(p) \/ PutEntry(p) \/ Refuse(p) \/ ReleaseInMemory(p)
      PROVE  /\ \A q \in Processes \ {p} :
                  pc'[q] = pc[q] /\ call'[q] = call[q] /\ memory'[q] = memory[q]
             /\ faults' = faults /\ clock' = clock
  BY <1>5 DEF TakeEntry, PutEntry, Refuse, ReleaseInMemory
<1>6. ASSUME SettleDay(p) \/ GiveBack(p) \/ ReleaseDay(p) \/ RedisFails(p)
      PROVE  /\ \A q \in Processes \ {p} :
                  pc'[q] = pc[q] /\ call'[q] = call[q] /\ memory'[q] = memory[q]
             /\ faults' = faults \/ faults' = faults + 1
             /\ clock' = clock
  BY <1>6 DEF SettleDay, GiveBack, ReleaseDay, RedisFails, Leave, Fault
<1> QED
  BY <1>1, <1>2, <1>3, <1>4, <1>5, <1>6 DEF Reserving, Answered

\* Answers are numbers.
LEMMA AnswersType ==
  ASSUME Typed, NEW p \in Processes, NEW actual \in Answers(p)
  PROVE  actual \in Nat \ {0}
BY DEF Answers

\* The processes in the sections of the lock.
Busy == {p \in Processes : pc[p] \in Critical}

\* They are finitely many, and besides any of them at most as many as faults.
LEMMA BusyFinite ==
  ASSUME Typed, LostLeases
  PROVE  /\ IsFiniteSet(Busy)
         /\ \A p \in Busy : Cardinality(Busy \ {p}) \in Nat /\ Cardinality(Busy \ {p}) <= faults
<1>1. IsFiniteSet(Orphans) /\ Cardinality(Orphans) <= faults /\ Cardinality(Orphans) \in Nat
  BY FS_CardinalityType DEF LostLeases
<1>2. Busy \subseteq Orphans \cup {lock}
  BY DEF Busy, Orphans
<1>3. IsFiniteSet(Orphans \cup {lock})
  BY <1>1, FS_AddElement
<1>4. IsFiniteSet(Busy)
  BY <1>2, <1>3, FS_Subset
<1>5. ASSUME NEW p \in Busy
      PROVE  Cardinality(Busy \ {p}) \in Nat /\ Cardinality(Busy \ {p}) <= faults
  <2>0. IsFiniteSet(Busy \ {p})
    BY <1>4, FS_RemoveElement
  <2>1. Cardinality(Busy \ {p}) \in Nat
    BY <2>0, FS_CardinalityType
  <2>2. CASE lock = p
    <3>1. Busy \ {p} \subseteq Orphans
      BY <1>2, <2>2
    <3>2. Cardinality(Busy \ {p}) <= Cardinality(Orphans)
      BY <1>1, <3>1, FS_Subset
    <3> QED
      BY <1>1, <2>1, <3>2 DEF Typed
  <2>3. CASE lock # p
    <3>1. p \in Orphans
      BY <2>3 DEF Busy, Orphans
    <3> DEFINE others == Orphans \ {p}
    <3>2. IsFiniteSet(others) /\ Cardinality(others) = Cardinality(Orphans) - 1
      BY <1>1, <3>1, FS_RemoveElement
    <3>3. Busy \ {p} \subseteq others \cup {lock}
      BY <1>2
    <3> HIDE DEF others
    <3>4. /\ IsFiniteSet(others \cup {lock})
          /\ Cardinality(others \cup {lock}) =
               IF lock \in others THEN Cardinality(others) ELSE Cardinality(others) + 1
      BY <3>2, FS_AddElement
    <3>5. Cardinality(others \cup {lock}) <= Cardinality(Orphans)
      BY <1>1, <3>2, <3>4
    <3>6. Cardinality(Busy \ {p}) <= Cardinality(others \cup {lock})
      BY <3>3, <3>4, FS_Subset
    <3>7. Cardinality(others \cup {lock}) \in Nat
      BY <3>4, FS_CardinalityType
    <3> QED
      BY <1>1, <2>1, <3>5, <3>6, <3>7 DEF Typed
  <2> QED
    BY <2>2, <2>3
<1> QED
  BY <1>4, <1>5

\* The entries of processes are no more than the processes, with a budget each.
LEMMA EntriesOfBusy ==
  ASSUME Typed, LostLeases, NEW ps, ps \subseteq Busy
  PROVE  /\ IsFiniteSet(ps) /\ Cardinality(ps) \in Nat
         /\ EntriesOf(ps) \in Usages
         /\ Cardinality(EntriesOf(ps)) <= Cardinality(ps)
         /\ Tokens(EntriesOf(ps)) <= Budget * Cardinality(EntriesOf(ps))
<1> DEFINE f == [p \in ps |-> Entry(p)]
<1>1. IsFiniteSet(ps)
  BY BusyFinite, FS_Subset
<1>2. f \in Surjection(ps, EntriesOf(ps))
  BY DEF Surjection, EntriesOf
<1> HIDE DEF f
<1>3. IsFiniteSet(EntriesOf(ps)) /\ Cardinality(EntriesOf(ps)) <= Cardinality(ps)
  BY <1>1, <1>2, FS_Surjection
<1>4. \A p \in ps : Entry(p) \in Usage /\ Entry(p).tokens <= Budget
  <2> SUFFICES ASSUME NEW p \in ps PROVE Entry(p) \in Usage /\ Entry(p).tokens <= Budget
    OBVIOUS
  <2>1. p \in Processes /\ pc[p] # "idle"
    BY DEF Busy, Critical
  <2>2. /\ Entry(p) \in Usage /\ Entry(p).tokens = call[p].tokens /\ call[p].tokens \in 0..Budget
    BY <2>1, CallType
  <2> QED
    BY <2>2, BudgetType
<1>5. EntriesOf(ps) \subseteq Usage
  BY <1>4 DEF EntriesOf
<1>6. EntriesOf(ps) \in Usages
  BY <1>3, <1>5 DEF Usages
<1>7. Tokens(EntriesOf(ps)) <= Budget * Cardinality(EntriesOf(ps))
  <2>1. \A e \in EntriesOf(ps) : e.tokens <= Budget
    BY <1>4 DEF EntriesOf
  <2> QED
    BY <1>6, <2>1, UsageWeighed, BudgetType, TokensBound
<1> QED
  BY <1>1, <1>3, <1>6, <1>7, FS_CardinalityType

\* What the others may still write is bounded by the faults.
LEMMA OthersBounded ==
  ASSUME Typed, LostLeases, NEW p \in Busy, NEW ps, ps \subseteq Busy \ {p}
  PROVE  /\ EntriesOf(ps) \in Usages
         /\ Cardinality(EntriesOf(ps)) \in Nat /\ Cardinality(EntriesOf(ps)) <= faults
         /\ Tokens(EntriesOf(ps)) \in Nat /\ Tokens(EntriesOf(ps)) <= Budget * faults
<1> DEFINE S == EntriesOf(ps)
           n == Cardinality(S)
<1>1. ps \subseteq Busy
  OBVIOUS
<1>2. S \in Usages /\ Cardinality(ps) \in Nat /\ n <= Cardinality(ps) /\ Tokens(S) <= Budget * n
  BY <1>1, EntriesOfBusy
<1>3. IsFiniteSet(Busy \ {p})
  BY BusyFinite, FS_RemoveElement
<1>4. /\ Cardinality(ps) <= Cardinality(Busy \ {p})
      /\ Cardinality(Busy \ {p}) \in Nat /\ Cardinality(Busy \ {p}) <= faults
  BY <1>3, BusyFinite, FS_Subset
<1>5. n \in Nat /\ Tokens(S) \in Nat
  BY <1>2, UsageWeighed
<1>6. faults \in Nat
  BY DEF Typed
<1> HIDE DEF n
<1>7. n <= faults
  BY <1>2, <1>4, <1>5, <1>6
<1>8. Budget * n <= Budget * faults
  BY <1>5, <1>6, <1>7, BudgetType
<1>9. Budget * n \in Nat /\ Budget * faults \in Nat
  BY <1>5, <1>6, BudgetType
<1>10. Tokens(S) <= Budget * faults
  BY <1>2, <1>5, <1>8, <1>9
<1> QED
  BY <1>2, <1>5, <1>7, <1>10 DEF n

\* Multiples of the budget.
LEMMA Products ==
  \A n \in Nat : /\ Budget * n \in Nat
                 /\ Budget * (n + 1) = Budget * n + Budget
                 /\ Budget * (1 + n) = Budget + Budget * n
<1> SUFFICES ASSUME NEW b \in Nat, NEW n \in Nat
             PROVE  /\ b * n \in Nat
                    /\ b * (n + 1) = b * n + b
                    /\ b * (1 + n) = b + b * n
  BY BudgetType
<1> QED
  OBVIOUS

\* More faults allow no less.
LEMMA FaultsAllow ==
  ASSUME Typed, faults' = faults \/ faults' = faults + 1
  PROVE  /\ faults \in Nat /\ faults' \in Nat /\ faults <= faults'
         /\ Budget * faults \in Nat /\ Budget * faults' \in Nat
         /\ Budget * faults <= Budget * faults'
         /\ Budget * (1 + faults) = Budget + Budget * faults
         /\ Budget * (1 + faults') = Budget + Budget * faults'
<1>1. faults \in Nat /\ faults' \in Nat /\ faults <= faults'
  BY DEF Typed
<1>2. Budget * faults \in Nat /\ Budget * faults' \in Nat
  BY <1>1, Products
<1>3. \/ Budget * faults' = Budget * faults
      \/ Budget * faults' = Budget * faults + Budget
  BY <1>1, Products
<1>4. /\ Budget * (1 + faults) = Budget + Budget * faults
      /\ Budget * (1 + faults') = Budget + Budget * faults'
  BY <1>1, Products
<1>5. Budget * faults <= Budget * faults'
  <2> DEFINE x == Budget * faults
             y == Budget * faults'
  <2>1. x \in Nat /\ y \in Nat /\ (y = x \/ y = x + Budget) /\ Budget \in Nat
    BY <1>2, <1>3, BudgetType
  <2> HIDE DEF x, y
  <2>2. x <= y
    BY <2>1
  <2> QED
    BY Zenon, <2>2 DEF x, y
<1> QED
  BY Zenon, <1>1, <1>2, <1>4, <1>5

\* Members of different calls differ.
LEMMA MembersDiffer ==
  ASSUME NEW p \in Processes, NEW q \in Processes, p # q
  PROVE  Member(p) # Member(q) /\ Entry(p) # Entry(q)
BY DEF Member, Entry, Reserved

-----------------------------------------------------------------------------
(* Every step keeps the invariant *)

\* At first nothing is used.
LEMMA InitIInv == Init => IInv
<1> SUFFICES ASSUME Init PROVE IInv
  OBVIOUS
<1>1. {} \in Usages
  BY FS_EmptySet DEF Usages
<1>2. Zero \in Counts
  BY DEF Zero, Counts
<1>3. Typed
  <2>1. clock \in Times /\ faults \in 0..MaxFaults /\ excess \in [Days -> Nat]
    BY DEF Init, Times
  <2>2. days \in [Days -> Counts] /\ memory \in [Processes -> Memories]
    BY <1>1, <1>2 DEF Init, NoUsage, Memories
  <2>3. call \in [Processes -> Call] /\ \A p \in Processes : call[p].at <= clock
    BY BudgetType DEF Init, Call, NoCall, Times
  <2>4. pc \in [Processes -> States] /\ \A p \in Processes : pc[p] # "idle" => call[p].n # 0
    BY DEF Init, States
  <2> QED
    BY <1>1, <2>1, <2>2, <2>3, <2>4 DEF Init, Typed
<1>4. Entries
  BY DEF Init, Entries, Made, OwnEntries
<1>5. Orphans = {} /\ OffWindow = {} /\ \A d \in Days : Coming(d) = {}
  BY DEF Init, Orphans, OffWindow, Coming, Critical
<1>6. LostLeases
  BY <1>5, FS_EmptySet DEF Init, LostLeases
<1>7. /\ IsFiniteSet({}) /\ Cardinality({}) = 0 /\ Tokens({}) = 0
      /\ Counted({}) = {}
  BY FS_EmptySet, TokensOneByOne DEF Counted
<1>8. EntriesOf({}) = {} /\ faults = 0
  BY DEF EntriesOf, Init
<1>9. MinuteHeld
  <2>1. Decided = {}
    BY <1>5, <1>8 DEF Init, Decided
  <2>2. Tokens(Counted(Decided)) = 0 /\ Cardinality(Decided) = 0
    BY Zenon, <1>7, <2>1
  <2> QED
    BY <1>8, <2>2, BudgetType DEF MinuteHeld
<1>10. DayHeld
  <2>1. ASSUME NEW d \in Days
        PROVE  /\ EntriesOf(Coming(d)) = {}
               /\ days[d].requests = 0 /\ days[d].tokens = 0 /\ excess[d] = 0
    BY <1>5, <1>8 DEF Init, Zero
  <2>2. ASSUME NEW d \in Days
        PROVE  Cardinality(EntriesOf(Coming(d))) = 0 /\ Tokens(EntriesOf(Coming(d))) = 0
    BY Zenon, <1>7, <2>1
  <2>3. Budget * faults = 0
    BY <1>8, BudgetType
  <2> QED
    BY <1>8, <2>1, <2>2, <2>3 DEF DayHeld
<1>11. MemoryHeld
  <2> SUFFICES ASSUME NEW p \in Processes PROVE OwnMemory(p)
    BY DEF MemoryHeld
  <2>1. memory[p].window = {}
    BY DEF Init, NoUsage
  <2>2. Tokens(Counted(memory[p].window)) = 0 /\ Cardinality(memory[p].window) = 0
    BY Zenon, <1>7, <2>1
  <2> QED
    BY <2>1, <2>2, BudgetType DEF OwnMemory
<1>12. DayCovered
  <2>1. ASSUME NEW d \in Days
        PROVE  OfDay(d) = {} /\ days[d].requests = 0 /\ days[d].tokens = 0
    BY DEF Init, Zero, OfDay
  <2>2. ASSUME NEW d \in Days
        PROVE  Cardinality(OfDay(d)) = 0 /\ Tokens(OfDay(d)) = 0
    BY Zenon, <1>7, <2>1
  <2> QED
    BY <2>1, <2>2 DEF DayCovered
<1>13. MinuteCovered
  <2>1. Lost = {}
    BY DEF Init, Lost, Recent
  <2>2. Agreeing /\ Written
    BY DEF Init, Agreeing, Written
  <2> QED
    BY <1>7, <1>8, <2>1, <2>2 DEF MinuteCovered
<1> QED
  BY <1>3, <1>4, <1>6, <1>9, <1>10, <1>11, <1>12, <1>13 DEF IInv

\* Types are kept: a reservation is never more than the budget of a minute.
LEMMA TypedStep == IInv /\ [Next]_vars => Typed'
<1> SUFFICES ASSUME IInv, [Next]_vars PROVE Typed'
  OBVIOUS
<1>0. Typed /\ Entries
  BY DEF IInv
<1>a. ASSUME NEW p \in Processes, NEW requests \in Int, NEW tokens \in Int,
             \/ days' = days
             \/ days' = [days EXCEPT ![Day(call[p].at)] = Adjust(@, requests, tokens)]
      PROVE  days' \in [Days -> Counts]
  <2> DEFINE d == Day(call[p].at)
             c == Adjust(days[d], requests, tokens)
  <2>1. d \in Days /\ days[d] \in Counts /\ days \in [Days -> Counts]
    BY <1>0, CallType DEF Typed
  <2>2. c \in Counts
    BY <2>1, AdjustType
  <2>3. days' = days \/ days' = [days EXCEPT ![d] = c]
    BY <1>a
  <2> HIDE DEF d, c
  <2> QED
    BY <2>1, <2>2, <2>3
<1>b. ASSUME NEW p \in Processes, NEW w \in Usages, NEW c \in Counts,
             memory' = [memory EXCEPT ![p].window = w, ![p].days[Day(call[p].at)] = c]
      PROVE  memory' \in [Processes -> Memories]
  <2> DEFINE d == Day(call[p].at)
             m == [memory EXCEPT ![p].window = w]
  <2>1. memory[p] \in Memories /\ memory \in [Processes -> Memories] /\ d \in Days
    BY <1>0, CallType DEF Typed
  <2>2. m \in [Processes -> Memories]
    BY <2>1 DEF Memories
  <2>3. memory' = [m EXCEPT ![p].days[d] = c]
    BY <1>b
  <2> HIDE DEF m, d
  <2>4. m[p] \in Memories
    BY <2>2
  <2>5. [m[p] EXCEPT !.days[d] = c] \in Memories
    BY <2>4 DEF Memories
  <2> QED
    BY <2>2, <2>3, <2>5
<1>c. ASSUME NEW p \in Processes, NEW c \in Call, call' = [call EXCEPT ![p] = c],
             NEW s \in States, pc' = [pc EXCEPT ![p] = s], s = "idle" \/ c.n # 0,
             c.at <= clock, clock' = clock
      PROVE  /\ call' \in [Processes -> Call] /\ pc' \in [Processes -> States]
             /\ \A q \in Processes : pc'[q] # "idle" => call'[q].n # 0
             /\ \A q \in Processes : call'[q].at <= clock'
  <2>1. call' \in [Processes -> Call] /\ pc' \in [Processes -> States]
    BY <1>0, <1>c DEF Typed
  <2>2. call'[p] = c /\ pc'[p] = s /\ \A q \in Processes \ {p} : call'[q] = call[q] /\ pc'[q] = pc[q]
    BY <1>0, <1>c DEF Typed
  <2> QED
    BY <1>0, <1>c, <2>1, <2>2 DEF Typed
<1>d. ASSUME NEW p \in Processes, call' = call, pc[p] # "idle",
             NEW s \in States, pc' = [pc EXCEPT ![p] = s], clock' = clock
      PROVE  /\ call' \in [Processes -> Call] /\ pc' \in [Processes -> States]
             /\ \A q \in Processes : pc'[q] # "idle" => call'[q].n # 0
             /\ \A q \in Processes : call'[q].at <= clock'
  BY <1>0, <1>d DEF Typed
<1>e. ASSUME NEW p \in Processes, Leave(p)
      PROVE  lock' \in Processes \cup {NoOne} /\ faults' \in 0..MaxFaults
  BY <1>0, <1>e DEF Leave, Fault, Unlock, Typed
<1>f. ASSUME NEW p \in Processes
      PROVE  /\ Without(window, Member(p)) \in Usages
             /\ Without(ledger, Member(p)) \in Usages
             /\ Without(memory[p].window, Member(p)) \in Usages
  <2>1. window \in Usages /\ ledger \in Usages /\ memory[p].window \in Usages
    BY <1>0 DEF Typed, Memories
  <2> QED
    BY <2>1, UsagesSubset DEF Without
<1>1. ASSUME NEW p \in Processes, NEW input \in Inputs, Start(p, input) PROVE Typed'
  <2> DEFINE new == [NoCall EXCEPT !.n = call[p].n + 1, !.at = clock, !.input = input]
  <2>1. call[p].n \in 0..MaxCalls /\ call[p].n < MaxCalls /\ clock \in Times
    BY <1>0, <1>1, CallType DEF Start, Typed
  <2>2. new \in Call /\ new.n # 0 /\ new.at = clock
    <3> DEFINE n == call[p].n + 1
    <3>1. /\ n \in 0..MaxCalls /\ n # 0
          /\ 0 \in 0..Budget /\ 0 \in 0..MaxCalls /\ 0 \in Times /\ input \in Inputs \cup {0}
      BY <2>1, BudgetType DEF Times
    <3>2. NoCall \in Call
      BY <3>1 DEF NoCall, Call
    <3> HIDE DEF n
    <3>3. new = [NoCall EXCEPT !.n = n, !.at = clock, !.input = input]
      BY DEF n
    <3> HIDE DEF new
    <3> QED
      BY <2>1, <3>1, <3>2, <3>3 DEF Call
  <2>3. call' = [call EXCEPT ![p] = new] /\ pc' = [pc EXCEPT ![p] = "waiting"]
    BY <1>1 DEF Start
  <2>4. UNCHANGED <<clock, lock, window, days, memory, ledger, excess, faults>>
    BY <1>1 DEF Start
  <2> HIDE DEF new
  <2>5. clock <= clock /\ "waiting" \in States
    BY <2>1 DEF Times, States
  <2> QED
    BY <1>0, <1>c, <2>2, <2>3, <2>4, <2>5 DEF Typed
<1>2. ASSUME NEW p \in Processes, Acquire(p) \/ LockTimeout(p) PROVE Typed'
  <2>1. /\ pc[p] # "idle" /\ call' = call /\ clock' = clock
        /\ pc' = [pc EXCEPT ![p] = "holding"] \/ pc' = [pc EXCEPT ![p] = "idle"]
        /\ lock' = p \/ lock' = lock
        /\ UNCHANGED <<window, days, memory, ledger, excess, faults>>
    BY <1>2 DEF Acquire, LockTimeout
  <2> QED
    BY <1>0, <1>d, <2>1 DEF Typed, States, Critical
<1>3. ASSUME NEW p \in Processes, ReadUsage(p) PROVE Typed'
  <2> DEFINE recent == Recent(window, call[p].at)
             daily == days[Day(call[p].at)]
             input == call[p].input
             tokens == input + Available(recent, daily, input)
  <2>1. recent \in Usages
    BY <1>0, UsagesSubset DEF Recent, Typed
  <2>2. /\ daily \in Counts /\ input \in Nat /\ call[p] \in Call /\ call[p].at <= clock
        /\ pc[p] # "idle" /\ call[p].n # 0
    BY <1>0, <1>3, CallType DEF ReadUsage, Typed
  <2>3. /\ window' = recent
        /\ UNCHANGED <<clock, days, memory, ledger, excess, faults>>
    BY <1>3 DEF ReadUsage
  <2>4. CASE Fits(recent, daily, input)
    <3>1. tokens \in 0..Budget
      BY <2>1, <2>2, <2>4, GrantFits
    <3>2. /\ call' = [call EXCEPT ![p].tokens = tokens] /\ pc' = [pc EXCEPT ![p] = "granted"]
          /\ lock' = lock
      BY <1>3, <2>4 DEF ReadUsage
    <3> HIDE DEF recent, daily, input, tokens
    <3> DEFINE c == [call[p] EXCEPT !.tokens = tokens]
    <3>3. c \in Call /\ c.n = call[p].n /\ c.at = call[p].at
      BY <2>2, <3>1 DEF Call
    <3>4. call' = [call EXCEPT ![p] = c]
      BY <3>2
    <3> HIDE DEF c
    <3>5. "granted" \in States
      BY DEF States, Critical
    <3>6. /\ call' \in [Processes -> Call] /\ pc' \in [Processes -> States]
          /\ \A q \in Processes : pc'[q] # "idle" => call'[q].n # 0
          /\ \A q \in Processes : call'[q].at <= clock'
      BY <1>c, <2>2, <2>3, <3>2, <3>3, <3>4, <3>5
    <3> QED
      BY <1>0, <2>1, <2>3, <3>2, <3>6 DEF Typed
  <2>5. CASE ~Fits(recent, daily, input)
    <3>1. call' = call /\ pc' = [pc EXCEPT ![p] = "idle"] /\ Unlock(p)
      BY <1>3, <2>5 DEF ReadUsage
    <3> HIDE DEF recent, daily, input
    <3>2. lock' \in Processes \cup {NoOne} /\ "idle" \in States
      BY <1>0, <3>1 DEF Typed, Unlock, States
    <3>3. /\ call' \in [Processes -> Call] /\ pc' \in [Processes -> States]
          /\ \A q \in Processes : pc'[q] # "idle" => call'[q].n # 0
          /\ \A q \in Processes : call'[q].at <= clock'
      BY <1>d, <2>2, <2>3, <3>1, <3>2
    <3> QED
      BY <1>0, <2>1, <2>3, <3>2, <3>3 DEF Typed
  <2> QED
    BY <2>4, <2>5
<1>4. ASSUME NEW p \in Processes, AddEntry(p) PROVE Typed'
  <2>1. window' \in Usages
    <3>1. Entry(p) \in Usage
      BY <1>0, <1>4, CallType DEF AddEntry
    <3> QED
      BY <1>0, <1>4, <3>1, UsagesAdd DEF AddEntry, Typed
  <2>2. /\ pc[p] # "idle" /\ call' = call /\ pc' = [pc EXCEPT ![p] = "added"]
        /\ UNCHANGED <<clock, lock, days, memory, ledger, excess, faults>>
    BY <1>4 DEF AddEntry
  <2>3. "added" \in States
    BY DEF States, Critical
  <2> QED
    BY <1>0, <1>d, <2>1, <2>2, <2>3 DEF Typed
<1>5. ASSUME NEW p \in Processes, CountDay(p) PROVE Typed'
  <2> DEFINE d == Day(call[p].at)
  <2>1. /\ Entry(p) \in Usage /\ d \in Days /\ days[d] \in Counts /\ call[p].tokens \in Nat
        /\ call[p] \in Call /\ call[p].at <= clock /\ call[p].n # 0 /\ pc[p] # "idle"
    BY <1>0, <1>5, CallType DEF CountDay, Typed
  <2>2. Count(days[d], call[p].tokens) \in Counts
    BY <2>1, CountType
  <2>3. days' = [days EXCEPT ![d] = Count(days[d], call[p].tokens)]
    BY <1>5 DEF CountDay
  <2> HIDE DEF d
  <2>4. days' \in [Days -> Counts]
    BY <1>0, <2>2, <2>3 DEF Typed
  <2>5. ledger' \in Usages
    <3>1. ledger' = ledger \/ ledger' = ledger \cup {Entry(p)}
      BY <1>5 DEF CountDay
    <3> QED
      BY <1>0, <2>1, <3>1, UsagesAdd DEF Typed
  <2>6. lock' \in Processes \cup {NoOne} /\ UNCHANGED <<clock, window, memory, excess, faults>>
    BY <1>0, <1>5 DEF CountDay, Unlock, Typed
  <2>7. /\ call' \in [Processes -> Call] /\ pc' \in [Processes -> States]
        /\ \A q \in Processes : pc'[q] # "idle" => call'[q].n # 0
        /\ \A q \in Processes : call'[q].at <= clock'
    <3>1. CASE call' = call /\ pc' = [pc EXCEPT ![p] = "idle"]
      <4>1. "idle" \in States
        BY DEF States
      <4> QED
        BY <1>d, <2>1, <2>6, <3>1, <4>1
    <3>2. CASE call' = [call EXCEPT ![p].in = "redis"] /\ pc' = [pc EXCEPT ![p] = "calling"]
      <4> DEFINE c == [call[p] EXCEPT !.in = "redis"]
      <4>1. c \in Call /\ c.n = call[p].n /\ c.at = call[p].at
        BY <2>1 DEF Call
      <4>2. call' = [call EXCEPT ![p] = c] /\ "calling" \in States
        BY <3>2 DEF States
      <4> HIDE DEF c
      <4> QED
        BY <1>c, <2>1, <2>6, <3>2, <4>1, <4>2
    <3> QED
      BY <1>5, <3>1, <3>2 DEF CountDay
  <2> QED
    BY <1>0, <2>4, <2>5, <2>6, <2>7 DEF Typed
<1>6. ASSUME NEW p \in Processes, FallBack(p) PROVE Typed'
  <2> DEFINE mine == memory[p]
             recent == Recent(mine.window, clock)
             d == Day(clock)
             input == call[p].input
             tokens == input + Available(recent, mine.days[d], input)
             entry == Reserved(p, clock, tokens)
             own == [window |-> recent \cup {entry},
                     days |-> [mine.days EXCEPT ![d] = Count(mine.days[d], tokens)]]
  <2>1. mine \in Memories /\ d \in Days /\ input \in Nat /\ call[p] \in Call /\ clock \in Times
    BY <1>0, CallType DEF Typed
  <2>2. recent \in Usages /\ mine.days[d] \in Counts /\ mine.days \in [Days -> Counts]
    BY <2>1, UsagesSubset DEF Recent, Memories
  <2>3. /\ faults' \in 0..MaxFaults /\ lock' \in Processes \cup {NoOne}
        /\ UNCHANGED <<clock, window, ledger, excess>> /\ pc[p] # "idle" /\ call[p].n # 0
    BY <1>0, <1>6 DEF FallBack, Fault, Unlock, Typed
  <2>4. days' \in [Days -> Counts]
    <3> DEFINE e == Day(call[p].at)
    <3>1. e \in Days /\ days[e] \in Counts /\ call[p].tokens \in Nat /\ days \in [Days -> Counts]
      BY <1>0, CallType DEF Typed
    <3>2. \/ days' = days
          \/ \E n \in {0, call[p].tokens} : days' = [days EXCEPT ![e] = Count(days[e], n)]
      BY <1>6 DEF FallBack, PartlyCounted
    <3> HIDE DEF e
    <3>3. \A n \in {0, call[p].tokens} : Count(days[e], n) \in Counts
      BY <3>1, CountType
    <3> QED
      BY <3>1, <3>2, <3>3
  <2>5. CASE Fits(recent, mine.days[d], input)
    <3>1. tokens \in 0..Budget /\ tokens \in Nat
      BY <2>1, <2>2, <2>5, GrantFits, BudgetType
    <3>2. /\ memory' = [memory EXCEPT ![p] = own]
          /\ call' = [call EXCEPT ![p].at = clock, ![p].tokens = tokens, ![p].in = "memory"]
          /\ pc' = [pc EXCEPT ![p] = "calling"]
      BY <1>6, <2>5 DEF FallBack
    <3>3. Member(p) \in Processes \X (1..MaxCalls)
      BY <1>0, <2>3, CallType
    <3> HIDE DEF tokens, mine, recent, input, d
    <3>4. entry \in Usage
      BY <2>1, <3>1, <3>3 DEF Usage, Reserved
    <3>5. Count(mine.days[d], tokens) \in Counts
      BY <2>2, <3>1, CountType
    <3> HIDE DEF entry
    <3>6. own \in Memories
      <4>1. recent \cup {entry} \in Usages
        BY <2>2, <3>4, UsagesAdd
      <4>2. [mine.days EXCEPT ![d] = Count(mine.days[d], tokens)] \in [Days -> Counts]
        BY <2>2, <3>5
      <4> QED
        BY <4>1, <4>2 DEF Memories
    <3> HIDE DEF own
    <3>7. memory' \in [Processes -> Memories]
      BY <1>0, <3>2, <3>6 DEF Typed
    <3> DEFINE c == [call[p] EXCEPT !.at = clock, !.tokens = tokens, !.in = "memory"]
    <3>8. c \in Call /\ c.n = call[p].n /\ c.at = clock /\ clock <= clock
      <4>1. clock <= clock
        BY <2>1 DEF Times
      <4>2. c \in Call /\ c.n = call[p].n /\ c.at = clock
        BY <2>1, <3>1 DEF Call
      <4> QED
        BY <4>1, <4>2
    <3>9. call' = [call EXCEPT ![p] = c] /\ "calling" \in States
      BY <3>2 DEF States
    <3> HIDE DEF c
    <3>10. /\ call' \in [Processes -> Call] /\ pc' \in [Processes -> States]
           /\ \A q \in Processes : pc'[q] # "idle" => call'[q].n # 0
           /\ \A q \in Processes : call'[q].at <= clock'
      BY <1>c, <2>3, <3>2, <3>8, <3>9
    <3> QED
      BY <1>0, <2>3, <2>4, <3>7, <3>10 DEF Typed
  <2>6. CASE ~Fits(recent, mine.days[d], input)
    <3>1. /\ memory' = [memory EXCEPT ![p].window = recent] /\ call' = call
          /\ pc' = [pc EXCEPT ![p] = "idle"]
      BY <1>6, <2>6 DEF FallBack
    <3> HIDE DEF recent
    <3>2. memory' \in [Processes -> Memories]
      BY <1>0, <2>2, <3>1 DEF Typed, Memories
    <3>3. "idle" \in States
      BY DEF States
    <3>4. /\ call' \in [Processes -> Call] /\ pc' \in [Processes -> States]
          /\ \A q \in Processes : pc'[q] # "idle" => call'[q].n # 0
          /\ \A q \in Processes : call'[q].at <= clock'
      BY <1>d, <2>3, <3>1, <3>3
    <3> QED
      BY <1>0, <2>3, <2>4, <3>2, <3>4 DEF Typed
  <2> QED
    BY <2>5, <2>6
<1>7. ASSUME NEW p \in Processes, NEW actual \in Answers(p), Settle(p, actual) PROVE Typed'
  <2>1. /\ call[p] \in Call /\ call[p].at <= clock /\ pc[p] # "idle" /\ call[p].n # 0
        /\ actual \in Nat /\ ledger \in Usages
    BY <1>0, <1>7, AnswersType DEF Settle, Typed
  <2> DEFINE c == [call[p] EXCEPT !.used = actual]
  <2>2. c \in Call /\ c.n = call[p].n /\ c.at = call[p].at
    BY <2>1 DEF Call
  <2>3. /\ call' = [call EXCEPT ![p] = c] /\ pc' = [pc EXCEPT ![p] = "settling"] /\ lock' = p
        /\ ledger' = Used(ledger, Member(p), actual)
        /\ UNCHANGED <<clock, window, days, memory, excess, faults>>
    BY <1>7 DEF Settle
  <2> HIDE DEF c
  <2>4. ledger' \in Usages
    BY <2>1, <2>3, ReplacedType
  <2>5. "settling" \in States
    BY DEF States, Critical
  <2>6. /\ call' \in [Processes -> Call] /\ pc' \in [Processes -> States]
        /\ \A q \in Processes : pc'[q] # "idle" => call'[q].n # 0
        /\ \A q \in Processes : call'[q].at <= clock'
    BY <1>c, <2>1, <2>2, <2>3, <2>5
  <2> QED
    BY <1>0, <2>3, <2>4, <2>6 DEF Typed
<1>8. ASSUME NEW p \in Processes, TakeEntry(p) \/ Refuse(p) PROVE Typed'
  <2>1. /\ pc[p] # "idle" /\ call' = call
        /\ lock' = lock \/ lock' = p
        /\ \E s \in {"put", "taken", "releasing"} : pc' = [pc EXCEPT ![p] = s]
        /\ window' = window \/ window' = Without(window, Member(p))
        /\ UNCHANGED <<clock, days, memory, ledger, excess, faults>>
    BY <1>8 DEF TakeEntry, Refuse
  <2>2. window' \in Usages
    BY <1>0, <1>f, <2>1 DEF Typed
  <2>3. {"put", "taken", "releasing"} \subseteq States
    BY DEF States, Critical
  <2>4. /\ call' \in [Processes -> Call] /\ pc' \in [Processes -> States]
        /\ \A q \in Processes : pc'[q] # "idle" => call'[q].n # 0
        /\ \A q \in Processes : call'[q].at <= clock'
    BY <1>d, <2>1, <2>3
  <2> QED
    BY <1>0, <2>1, <2>2, <2>4 DEF Typed
<1>9. ASSUME NEW p \in Processes, PutEntry(p) PROVE Typed'
  <2> DEFINE entry == [Entry(p) EXCEPT !.tokens = call[p].used]
  <2>1. /\ pc[p] # "idle" /\ call' = call /\ pc' = [pc EXCEPT ![p] = "put"]
        /\ window' = window \cup {entry}
        /\ UNCHANGED <<clock, lock, days, memory, ledger, excess, faults>>
    BY <1>9 DEF PutEntry
  <2>2. entry \in Usage
    <3>1. Entry(p) \in Usage /\ call[p].used \in Nat
      BY <1>0, <2>1, CallType
    <3> QED
      BY <3>1 DEF Usage
  <2> HIDE DEF entry
  <2>3. window' \in Usages
    BY <1>0, <2>1, <2>2, UsagesAdd DEF Typed
  <2>4. "put" \in States
    BY DEF States, Critical
  <2>5. /\ call' \in [Processes -> Call] /\ pc' \in [Processes -> States]
        /\ \A q \in Processes : pc'[q] # "idle" => call'[q].n # 0
        /\ \A q \in Processes : call'[q].at <= clock'
    BY <1>d, <2>1, <2>4
  <2> QED
    BY <1>0, <2>1, <2>3, <2>5 DEF Typed
<1>10. ASSUME NEW p \in Processes, SettleDay(p) PROVE Typed'
  <2> DEFINE d == Day(call[p].at)
             difference == call[p].used - call[p].tokens
  <2>1. /\ d \in Days /\ difference \in Int /\ AtLeastZero(difference) \in Nat
        /\ call[p].used \in Nat /\ pc[p] # "idle"
    BY <1>0, <1>10, CallType DEF SettleDay, AtLeastZero
  <2>2. /\ days' = [days EXCEPT ![Day(call[p].at)] = Adjust(@, 0, difference)]
        /\ excess' = [excess EXCEPT ![d] = @ + AtLeastZero(difference)]
        /\ ledger' = Replace(ledger, Member(p), call[p].used)
        /\ Leave(p) /\ pc' = [pc EXCEPT ![p] = "idle"]
        /\ UNCHANGED <<clock, window, memory, call>>
    BY <1>10 DEF SettleDay
  <2>3. days' \in [Days -> Counts]
    <3> HIDE DEF difference
    <3>1. 0 \in Int
      OBVIOUS
    <3> QED
      BY Zenon, <1>a, <2>1, <2>2, <3>1
  <2> HIDE DEF d, difference
  <2>4. excess' \in [Days -> Nat]
    BY <1>0, <2>1, <2>2 DEF Typed
  <2>5. ledger' \in Usages /\ "idle" \in States
    BY <1>0, <2>1, <2>2, ReplacedType DEF Typed, States
  <2>6. /\ call' \in [Processes -> Call] /\ pc' \in [Processes -> States]
        /\ \A q \in Processes : pc'[q] # "idle" => call'[q].n # 0
        /\ \A q \in Processes : call'[q].at <= clock'
    BY <1>d, <2>1, <2>2, <2>5
  <2>7. lock' \in Processes \cup {NoOne} /\ faults' \in 0..MaxFaults
    BY <1>e, <2>2
  <2> QED
    BY <1>0, <2>2, <2>3, <2>4, <2>5, <2>6, <2>7 DEF Typed
<1>11. ASSUME NEW p \in Processes, GiveBack(p) \/ ReleaseDay(p) \/ RedisFails(p) PROVE Typed'
  <2>1. /\ pc[p] # "idle" /\ call' = call
        /\ pc' = [pc EXCEPT ![p] = "released"] \/ pc' = [pc EXCEPT ![p] = "idle"]
        /\ window' = window \/ window' = Without(window, Member(p))
        /\ ledger' = ledger \/ ledger' = Without(ledger, Member(p))
        /\ UNCHANGED <<clock, memory, excess>>
    BY <1>11 DEF GiveBack, ReleaseDay, RedisFails
  <2>2. window' \in Usages /\ ledger' \in Usages
    BY <1>0, <1>f, <2>1 DEF Typed
  <2>3. lock' \in Processes \cup {NoOne} /\ faults' \in 0..MaxFaults
    <3>1. CASE RedisFails(p)
      BY <1>0, <3>1 DEF RedisFails, Fault, Unlock, Typed
    <3>2. CASE UNCHANGED <<lock, faults>>
      BY <1>0, <3>2 DEF Typed
    <3> QED
      BY <1>e, <1>11, <3>1, <3>2 DEF GiveBack, ReleaseDay
  <2>4. days' \in [Days -> Counts]
    <3>1. call[p].tokens \in Nat
      BY <1>0, CallType
    <3>2. -1 \in Int /\ 0 \in Int /\ -call[p].tokens \in Int
      BY <3>1
    <3>3. \/ days' = days
          \/ days' = [days EXCEPT ![Day(call[p].at)] = Adjust(@, -1, -call[p].tokens)]
          \/ days' = [days EXCEPT ![Day(call[p].at)] = Adjust(@, -1, 0)]
      BY <1>11 DEF GiveBack, ReleaseDay, RedisFails
    <3> QED
      BY Zenon, <1>a, <3>2, <3>3
  <2>5. "released" \in States /\ "idle" \in States
    BY DEF States, Critical
  <2>6. /\ call' \in [Processes -> Call] /\ pc' \in [Processes -> States]
        /\ \A q \in Processes : pc'[q] # "idle" => call'[q].n # 0
        /\ \A q \in Processes : call'[q].at <= clock'
    BY <1>d, <2>1, <2>5
  <2> QED
    BY <1>0, <2>1, <2>2, <2>3, <2>4, <2>6 DEF Typed
<1>12. ASSUME NEW p \in Processes, NEW actual \in Answers(p), LeaveReserved(p, actual) PROVE Typed'
  <2>1. /\ ledger' = Used(ledger, Member(p), actual) /\ pc[p] # "idle"
        /\ call' = call /\ pc' = [pc EXCEPT ![p] = "idle"]
        /\ UNCHANGED <<clock, lock, window, days, memory, excess, faults>>
    BY <1>12 DEF LeaveReserved
  <2>2. ledger' \in Usages /\ "idle" \in States
    BY <1>0, <2>1, AnswersType, ReplacedType DEF Typed, States
  <2>3. /\ call' \in [Processes -> Call] /\ pc' \in [Processes -> States]
        /\ \A q \in Processes : pc'[q] # "idle" => call'[q].n # 0
        /\ \A q \in Processes : call'[q].at <= clock'
    BY <1>d, <2>1, <2>2
  <2> QED
    BY <1>0, <2>1, <2>2, <2>3 DEF Typed
<1>13. ASSUME NEW p \in Processes,
              \/ \E actual \in Answers(p) : ReconcileInMemory(p, actual)
              \/ ReleaseInMemory(p)
       PROVE  Typed'
  <2> DEFINE d == Day(call[p].at)
             mine == memory[p]
  <2>1. /\ d \in Days /\ call[p].tokens \in Nat /\ mine.window \in Usages /\ mine.days[d] \in Counts
        /\ memory \in [Processes -> Memories]
    BY <1>0, CallType DEF Typed, Memories
  <2>2. memory' \in [Processes -> Memories]
    <3>1. ASSUME NEW actual \in Answers(p), ReconcileInMemory(p, actual)
          PROVE  memory' \in [Processes -> Memories]
      <4> DEFINE w == Replace(mine.window, Member(p), actual)
                 c == Adjust(mine.days[d], 0, actual - call[p].tokens)
      <4>1. actual \in Nat /\ actual - call[p].tokens \in Int /\ 0 \in Int
        BY <1>0, <2>1, AnswersType
      <4>2. w \in Usages /\ c \in Counts
        BY Zenon, <2>1, <4>1, ReplacedType, AdjustType
      <4>3. memory' = [memory EXCEPT ![p].window = w, ![p].days[Day(call[p].at)] = c]
        BY <2>1, <3>1 DEF ReconcileInMemory
      <4> HIDE DEF w, c
      <4> QED
        BY <1>b, <4>2, <4>3
    <3>2. ASSUME ReleaseInMemory(p) PROVE memory' \in [Processes -> Memories]
      <4> DEFINE w == Without(mine.window, Member(p))
                 c == Adjust(mine.days[d], -1, -call[p].tokens)
      <4>1. -1 \in Int /\ -call[p].tokens \in Int
        BY <2>1
      <4>2. w \in Usages /\ c \in Counts
        BY Zenon, <1>f, <2>1, <4>1, AdjustType
      <4>3. memory' = [memory EXCEPT ![p].window = w, ![p].days[Day(call[p].at)] = c]
        BY <2>1, <3>2 DEF ReleaseInMemory
      <4> HIDE DEF w, c
      <4> QED
        BY <1>b, <4>2, <4>3
    <3> QED
      BY <1>13, <3>1, <3>2
  <2>3. /\ pc[p] # "idle" /\ call' = call /\ pc' = [pc EXCEPT ![p] = "idle"]
        /\ UNCHANGED <<clock, lock, window, days, ledger, excess, faults>>
    BY <1>13 DEF ReconcileInMemory, ReleaseInMemory
  <2>4. "idle" \in States
    BY DEF States
  <2>5. /\ call' \in [Processes -> Call] /\ pc' \in [Processes -> States]
        /\ \A q \in Processes : pc'[q] # "idle" => call'[q].n # 0
        /\ \A q \in Processes : call'[q].at <= clock'
    BY <1>d, <2>3, <2>4
  <2> QED
    BY <1>0, <2>2, <2>3, <2>5 DEF Typed
<1>14. CASE Tick
  <2>1. /\ clock' = clock + 1 /\ clock' \in Times /\ clock \in Nat /\ clock <= clock'
        /\ UNCHANGED <<lock, window, days, memory, pc, call, ledger, excess, faults>>
    BY <1>0, <1>14 DEF Tick, Times, Typed
  <2>2. ASSUME NEW q \in Processes PROVE call'[q].at <= clock'
    <3>1. call[q].at \in Nat /\ call[q].at <= clock
      BY <1>0, CallType
    <3> QED
      BY <2>1, <3>1
  <2> QED
    BY <1>0, <2>1, <2>2 DEF Typed
<1>15. CASE LeaseEnds
  BY <1>0, <1>15 DEF LeaseEnds, Fault, Typed
<1>16. CASE UNCHANGED vars
  BY <1>0, <1>16 DEF vars, Typed
<1> QED
  BY <1>1, <1>2, <1>3, <1>4, <1>5, <1>6, <1>7, <1>8, <1>9, <1>10, <1>11, <1>12, <1>13, <1>14,
     <1>15, <1>16 DEF Next, Reserving, Answered

\* T is S but for what it has of call m, of which it has one entry at most, and for
\* what it lacks.
Touched(S, T, m) ==
  /\ \A e \in T : e.of # m => e \in S
  /\ \A e, f \in T : e.of = f.of => e = f

\* So is every result of a step.
LEMMA TouchedBy ==
  ASSUME NEW S \in Usages, \A e, f \in S : e.of = f.of => e = f, NEW m, NEW T,
         \/ T \subseteq S
         \/ \E n \in Nat : T = Replace(S, m, n) \/ T = Used(S, m, n)
         \/ \E x : x.of = m /\ T = S \cup {x} /\ \A e \in S : e.of # m
  PROVE  Touched(S, T, m)
<1>1. CASE T \subseteq S
  BY <1>1 DEF Touched
<1>2. ASSUME NEW n \in Nat, T = Replace(S, m, n) \/ T = Used(S, m, n) PROVE Touched(S, T, m)
  <2>1. CASE \A e \in S : e.of # m
    BY <1>2, <2>1, NothingReplaced DEF Touched
  <2>2. ASSUME NEW x \in S, x.of = m PROVE Touched(S, T, m)
    <3>1. x \in Usage
      BY DEF Usages
    <3>2. /\ Replace(S, x.of, n) = (S \ {x}) \cup {WithTokens(x, n)}
          /\ Used(S, x.of, n) = (S \ {x}) \cup {WithLimit(x, n)}
      <4>1. \A e \in S : e.of = x.of => e = x
        OBVIOUS
      <4> QED
        BY <4>1, Replaced
    <3>3. WithTokens(x, n).of = m /\ WithLimit(x, n).of = m
      BY <2>2, <3>1, WithTokensType, WithLimitType
    <3>4. CASE T = Replace(S, m, n)
      <4> DEFINE y == WithTokens(x, n)
      <4>1. T = (S \ {x}) \cup {y} /\ y.of = m
        BY Zenon, <2>2, <3>2, <3>3, <3>4
      <4> HIDE DEF y
      <4> QED
        BY <2>2, <4>1 DEF Touched
    <3>5. CASE T = Used(S, m, n)
      <4> DEFINE y == WithLimit(x, n)
      <4>1. T = (S \ {x}) \cup {y} /\ y.of = m
        BY Zenon, <2>2, <3>2, <3>3, <3>5
      <4> HIDE DEF y
      <4> QED
        BY <2>2, <4>1 DEF Touched
    <3> QED
      BY <1>2, <3>4, <3>5
  <2> QED
    BY <2>1, <2>2
<1>3. ASSUME NEW x, x.of = m, T = S \cup {x}, \A e \in S : e.of # m PROVE Touched(S, T, m)
  BY <1>3 DEF Touched
<1> QED
  BY <1>1, <1>2, <1>3

\* A change of one call's tokens or limit keeps the entries of the others.
LEMMA OthersKept ==
  ASSUME NEW S, NEW m, NEW n, NEW e \in S, e.of # m
  PROVE  e \in Replace(S, m, n) /\ e \in Used(S, m, n) /\ e \in Without(S, m)
BY DEF Replace, Used, Without

\* A call has its own entries, and only those, through every step.
LEMMA EntriesStep == IInv /\ [Next]_vars => Entries'
<1> SUFFICES ASSUME IInv, [Next]_vars PROVE Entries'
  OBVIOUS
<1>0. /\ Typed /\ Entries
      /\ window \in Usages /\ ledger \in Usages
      /\ \A e, f \in window : e.of = f.of => e = f
      /\ \A e, f \in ledger : e.of = f.of => e = f
      /\ \A e \in window \cup ledger : e.of[1] \in Processes /\ e.of[2] \in Nat
      /\ \A e \in window \cup ledger : e.of[2] <= call[e.of[1]].n
      /\ \A q \in Processes : call[q].n \in Nat
  <2>1. Typed /\ Entries
    BY DEF IInv
  <2>2. \A q \in Processes : call[q].n \in Nat
    BY <2>1, CallType
  <2>3. \A e \in window \cup ledger : e \in Usage
    BY <2>1 DEF Typed, Usages
  <2>4. \A e \in window \cup ledger : e.of \in Processes \X (1..MaxCalls)
    BY <2>3 DEF Usage
  <2> QED
    BY <2>1, <2>2, <2>4 DEF Entries, Made, Typed
<1>a. ASSUME NEW q \in Processes, pc'[q] = pc[q], call'[q] = call[q],
             \A e \in window' : e.of = Member(q) => e \in window,
             \A e \in ledger' : e.of = Member(q) => e \in ledger,
             \A e \in ledger : e.of = Member(q) => e \in ledger'
      PROVE  OwnEntries(q)'
  <2>1. OwnEntries(q) /\ Member(q)' = Member(q) /\ Entry(q)' = Entry(q)
    BY <1>0, <1>a DEF Entries, Member, Entry, Reserved
  <2>2. Entry(q).of = Member(q)
    BY DEF Entry, Reserved
  <2>3. Owed(q) => Owed(q)'
    BY <1>a, <2>1 DEF Owed
  <2> HIDE DEF Member, Entry, Owed
  <2> QED
    BY <1>a, <2>1, <2>2, <2>3 DEF OwnEntries
<1>b. ASSUME NEW q \in Processes, pc'[q] = "idle" PROVE OwnEntries(q)'
  BY <1>b DEF OwnEntries
<1>c. ASSUME NEW p \in Processes,
             \A q \in Processes \ {p} : pc'[q] = pc[q] /\ call'[q] = call[q],
             call'[p].n = call[p].n, OwnEntries(p)',
             Touched(window, window', Member(p)), Touched(ledger, ledger', Member(p)),
             \A e \in ledger : e.of # Member(p) => e \in ledger'
      PROVE  Entries'
  <2>1. ASSUME NEW q \in Processes \ {p} PROVE OwnEntries(q)'
    <3>1. Member(p) # Member(q)
      BY MembersDiffer
    <3> QED
      BY <1>a, <1>c, <3>1 DEF Touched
  <2>2. ASSUME NEW e \in window' \cup ledger' PROVE e.of[2] <= call'[e.of[1]].n
    <3>1. \A q \in Processes : call'[q].n = call[q].n
      BY <1>c
    <3>2. CASE e.of = Member(p)
      <4>1. e.of[1] = p /\ e.of[2] = call[p].n
        BY <3>2 DEF Member
      <4> QED
        BY <1>0, <3>1, <4>1
    <3>3. CASE e.of # Member(p)
      <4>1. e \in window \cup ledger
        BY <1>c, <3>3 DEF Touched
      <4> QED
        BY <1>0, <3>1, <4>1
    <3> QED
      BY <3>2, <3>3
  <2>3. Made(window)' /\ Made(ledger)'
    BY <1>c, <2>2 DEF Made, Touched
  <2> QED
    BY <1>c, <2>1, <2>3 DEF Entries
<1>d. ASSUME NEW p \in Processes,
             \A q \in Processes \ {p} : pc'[q] = pc[q] /\ call'[q] = call[q],
             call'[p].n = call[p].n, OwnEntries(p)', window' \subseteq window, ledger' = ledger
      PROVE  Entries'
  <2>1. Touched(window, window', Member(p)) /\ Touched(ledger, ledger', Member(p))
    BY <1>0, <1>d, TouchedBy
  <2> QED
    BY <1>c, <1>d, <2>1
<1>1. ASSUME NEW p \in Processes, NEW input \in Inputs, Start(p, input) PROVE Entries'
  <2>1. /\ window' = window /\ ledger' = ledger /\ pc'[p] = "waiting"
        /\ call'[p].n = call[p].n + 1
        /\ \A q \in Processes \ {p} : pc'[q] = pc[q] /\ call'[q] = call[q]
    <3>1. call'[p] = [NoCall EXCEPT !.n = call[p].n + 1, !.at = clock, !.input = input]
      BY <1>0, <1>1 DEF Start, Typed
    <3>2. call'[p].n = call[p].n + 1
      BY <3>1 DEF NoCall
    <3> QED
      BY <1>0, <1>1, <3>2 DEF Start, Typed
  <2>2. \A q \in Processes : call[q].n <= call'[q].n /\ call'[q].n \in Nat
    BY <1>0, <2>1
  <2>3. \A e \in window \cup ledger : e.of # Member(p)'
    <3> SUFFICES ASSUME NEW e \in window \cup ledger, e.of = Member(p)' PROVE FALSE
      OBVIOUS
    <3>1. e.of[1] = p /\ e.of[2] = call[p].n + 1
      BY <2>1 DEF Member
    <3>2. e.of[2] <= call[p].n
      BY <1>0, <3>1
    <3> QED
      BY <1>0, <3>1, <3>2
  <2>4. OwnEntries(p)'
    BY <2>1, <2>3 DEF OwnEntries
  <2>5. \A q \in Processes \ {p} : OwnEntries(q)'
    BY <1>a, <2>1
  <2>6. Made(window)' /\ Made(ledger)'
    <3>1. ASSUME NEW e \in window \cup ledger PROVE e.of[2] <= call'[e.of[1]].n
      BY <1>0, <2>2
    <3> QED
      BY <1>0, <2>1, <3>1 DEF Made
  <2> QED
    BY <2>4, <2>5, <2>6 DEF Entries
<1>2. ASSUME NEW p \in Processes,
             Acquire(p) \/ LockTimeout(p) \/ ReadUsage(p) \/ TakeEntry(p) \/ Refuse(p)
      PROVE  Entries'
  <2>1. /\ window' \subseteq window /\ ledger' = ledger
        /\ call'[p].n = call[p].n /\ call'[p].at = call[p].at /\ call'[p].in = call[p].in
        /\ call'[p].used = call[p].used /\ (pc[p] # "holding" => call'[p] = call[p])
        /\ \/ pc[p] = "waiting" /\ pc'[p] \in {"holding", "idle"}
           \/ pc[p] = "holding" /\ pc'[p] \in {"granted", "idle"}
           \/ /\ pc[p] = "settling" /\ pc'[p] \in {"put", "taken"}
              /\ \A e \in window' : e.of # Member(p)
           \/ pc[p] = "calling" /\ call[p].in = "redis" /\ pc'[p] = "releasing"
        /\ \A q \in Processes \ {p} : pc'[q] = pc[q] /\ call'[q] = call[q]
    <3>1. call[p] \in Call
      BY <1>0, CallType
    <3> QED
      BY <1>0, <1>2, <3>1
         DEF Acquire, LockTimeout, ReadUsage, TakeEntry, Refuse, Recent, Without, Typed, Call
  <2>2. OwnEntries(p)'
    <3>1. OwnEntries(p) /\ Member(p)' = Member(p)
      BY <1>0, <2>1 DEF Entries, Member
    <3>2. pc[p] # "holding" => Entry(p)' = Entry(p) /\ (Owed(p) /\ pc'[p] # "idle" => Owed(p)')
      <4>1. pc[p] # "holding" => Entry(p)' = Entry(p)
        BY <2>1, <3>1 DEF Entry, Reserved
      <4>2. ASSUME pc[p] # "holding", Owed(p), pc'[p] # "idle" PROVE Owed(p)'
        BY <2>1, <3>1, <4>2 DEF Owed
      <4> QED
        BY <4>1, <4>2
    <3> HIDE DEF Member, Entry, Owed
    <3>3. CASE pc[p] \in {"waiting", "holding"}
      BY <2>1, <3>1, <3>3 DEF OwnEntries
    <3>4. CASE pc[p] = "settling"
      BY <2>1, <3>1, <3>2, <3>4 DEF OwnEntries
    <3>5. CASE pc[p] = "calling"
      BY <2>1, <3>1, <3>2, <3>5 DEF OwnEntries
    <3> QED
      BY <2>1, <3>3, <3>4, <3>5
  <2> QED
    BY <1>d, <2>1, <2>2
<1>3. ASSUME NEW p \in Processes, AddEntry(p) \/ PutEntry(p) PROVE Entries'
  <2>1. /\ ledger' = ledger /\ call' = call
        /\ \A q \in Processes \ {p} : pc'[q] = pc[q]
        /\ \/ pc[p] = "granted" /\ pc'[p] = "added" /\ window' = window \cup {Entry(p)}
           \/ /\ pc[p] = "taken" /\ pc'[p] = "put"
              /\ window' = window \cup {[Entry(p) EXCEPT !.tokens = call[p].used]}
    BY <1>0, <1>3 DEF AddEntry, PutEntry, Typed
  <2>2. /\ Entry(p)' = Entry(p) /\ Member(p)' = Member(p) /\ (Owed(p) => pc'[p] = "added" \/ Owed(p)')
        /\ Entry(p).of = Member(p)
    <3>1. Entry(p)' = Entry(p) /\ Member(p)' = Member(p) /\ Entry(p).of = Member(p)
      BY <2>1 DEF Entry, Reserved, Member
    <3>2. ASSUME Owed(p), pc'[p] # "added" PROVE Owed(p)'
      BY <2>1, <3>1, <3>2 DEF Owed
    <3> QED
      BY <3>1, <3>2
  <2>3. /\ [Entry(p) EXCEPT !.tokens = call[p].used].of = Member(p)
        /\ [Entry(p) EXCEPT !.tokens = call[p].used].at = call[p].at
        /\ [Entry(p) EXCEPT !.tokens = call[p].used].tokens = call[p].used
    BY DEF Entry, Reserved
  <2>4. OwnEntries(p) /\ \A e \in window : e.of # Member(p)
    BY <1>0, <2>1 DEF Entries, OwnEntries
  <2>5. OwnEntries(p)'
    <3> HIDE DEF Member, Entry, Owed
    <3>1. CASE pc[p] = "granted"
      BY <2>1, <2>2, <2>4, <3>1 DEF OwnEntries
    <3>2. CASE pc[p] = "taken"
      BY <2>1, <2>2, <2>3, <2>4, <3>2 DEF OwnEntries
    <3> QED
      BY <2>1, <3>1, <3>2
  <2>6. Touched(window, window', Member(p)) /\ Touched(ledger, ledger', Member(p))
    <3>1. \E x : x.of = Member(p) /\ window' = window \cup {x}
      BY <2>1, <2>2, <2>3
    <3> QED
      BY <1>0, <2>1, <2>4, <3>1, TouchedBy
  <2> QED
    BY <1>c, <2>1, <2>5, <2>6
<1>4. ASSUME NEW p \in Processes, CountDay(p) PROVE Entries'
  <2>1. /\ window' = window /\ pc[p] = "added"
        /\ \A q \in Processes \ {p} : pc'[q] = pc[q] /\ call'[q] = call[q]
        /\ call'[p].n = call[p].n /\ call'[p].at = call[p].at /\ call'[p].tokens = call[p].tokens
        /\ \/ pc'[p] = "calling" /\ ledger' = ledger \cup {Entry(p)} /\ call'[p].in = "redis"
           \/ pc'[p] = "idle" /\ ledger' = ledger
    <3>1. call[p] \in Call
      BY <1>0, CallType
    <3> QED
      BY <1>0, <1>4, <3>1 DEF CountDay, Typed, Call
  <2>2. /\ Entry(p).of = Member(p) /\ Entry(p)' = Entry(p) /\ Member(p)' = Member(p)
        /\ Entry(p).at = call[p].at /\ Entry(p).tokens = call[p].tokens
    BY <2>1 DEF Entry, Reserved, Member
  <2>3. /\ \A e \in ledger : e.of # Member(p)
        /\ \A e \in window : e.of = Member(p) => e = Entry(p)
    BY <1>0, <2>1 DEF Entries, OwnEntries
  <2>4. CASE pc'[p] = "idle" /\ ledger' = ledger
    BY <1>b, <1>d, <2>1, <2>4
  <2>5. CASE pc'[p] = "calling" /\ ledger' = ledger \cup {Entry(p)} /\ call'[p].in = "redis"
    <3>1. Owed(p)'
      BY <2>1, <2>2, <2>5 DEF Owed
    <3>2. OwnEntries(p)'
      <4> HIDE DEF Member, Entry, Owed
      <4> QED
        BY <2>1, <2>2, <2>3, <2>5, <3>1 DEF OwnEntries
    <3>3. Touched(window, window', Member(p)) /\ Touched(ledger, ledger', Member(p))
      BY <1>0, <2>1, <2>2, <2>3, <2>5, TouchedBy
    <3> QED
      BY <1>c, <2>1, <2>5, <3>2, <3>3
  <2> QED
    BY <2>1, <2>4, <2>5
<1>5. ASSUME NEW p \in Processes, FallBack(p) PROVE Entries'
  <2>1. /\ window' = window /\ ledger' = ledger
        /\ \A q \in Processes \ {p} : pc'[q] = pc[q] /\ call'[q] = call[q]
        /\ call'[p].n = call[p].n
        /\ pc[p] \in {"waiting", "holding", "granted", "added"}
        /\ pc'[p] = "idle" \/ (pc'[p] = "calling" /\ call'[p].in = "memory")
    <3>1. call[p] \in Call
      BY <1>0, CallType
    <3> QED
      BY <1>0, <1>5, <3>1 DEF FallBack, Typed, Call
  <2>2. \A e \in ledger : e.of # Member(p)
    BY <1>0, <2>1 DEF Entries, OwnEntries
  <2>3. OwnEntries(p)'
    <3>1. Member(p)' = Member(p)
      BY <2>1 DEF Member
    <3> HIDE DEF Member
    <3> QED
      BY <2>1, <2>2, <3>1 DEF OwnEntries
  <2> QED
    BY <1>d, <2>1, <2>3
<1>6. ASSUME NEW p \in Processes, NEW actual \in Answers(p), Settle(p, actual) PROVE Entries'
  <2>1. /\ window' = window /\ ledger' = Used(ledger, Member(p), actual) /\ actual \in Nat
        /\ pc[p] = "calling" /\ call[p].in = "redis" /\ pc'[p] = "settling"
        /\ \A q \in Processes \ {p} : pc'[q] = pc[q] /\ call'[q] = call[q]
        /\ call'[p].n = call[p].n /\ call'[p].at = call[p].at /\ call'[p].tokens = call[p].tokens
        /\ call'[p].used = actual
    <3>1. call[p] \in Call /\ actual \in Nat
      BY <1>0, CallType, AnswersType
    <3> QED
      BY <1>0, <1>6, <3>1 DEF Settle, Typed, Call
  <2>2. Entry(p)' = Entry(p) /\ Member(p)' = Member(p)
    BY <2>1 DEF Entry, Reserved, Member
  <2>3. Owed(p) /\ \A e \in window : e.of = Member(p) => e = Entry(p)
    BY <1>0, <2>1 DEF Entries, OwnEntries
  <2>4. Owed(p)'
    <3>1. PICK e \in ledger : e.of = Member(p) /\ e.at = call[p].at /\ e.tokens = call[p].tokens
      BY <2>3 DEF Owed
    <3>2. e \in Usage
      BY <1>0 DEF Usages
    <3> DEFINE f == WithLimit(e, actual)
    <3>3. /\ f \in ledger' /\ f.of = Member(p) /\ f.at = call[p].at /\ f.tokens = call[p].tokens
          /\ f.limit = actual
      <4>1. Used(ledger, e.of, actual) = (ledger \ {e}) \cup {f}
        <5>1. \A g \in ledger : g.of = e.of => g = e
          BY <1>0
        <5> QED
          BY <5>1, Replaced
      <4>2. f \in ledger'
        BY <2>1, <3>1, <4>1
      <4>3. f.of = e.of /\ f.at = e.at /\ f.tokens = e.tokens /\ f.limit = actual
        <5>1. actual \in Nat
          BY <2>1
        <5> QED
          BY Zenon, <3>2, <5>1, WithLimitType
      <4> QED
        BY Zenon, <3>1, <4>2, <4>3
    <3> HIDE DEF f
    <3> QED
      BY <2>1, <2>2, <3>3 DEF Owed
  <2>5. OwnEntries(p)'
    <3> HIDE DEF Member, Entry, Owed
    <3> QED
      BY <2>1, <2>2, <2>3, <2>4 DEF OwnEntries
  <2>6. /\ Touched(window, window', Member(p)) /\ Touched(ledger, ledger', Member(p))
        /\ \A e \in ledger : e.of # Member(p) => e \in ledger'
    BY <1>0, <2>1, TouchedBy, OthersKept
  <2> QED
    BY <1>c, <2>1, <2>5, <2>6
<1>7. ASSUME NEW p \in Processes,
             \/ SettleDay(p)
             \/ ReleaseDay(p)
             \/ RedisFails(p)
             \/ \E actual \in Answers(p) : LeaveReserved(p, actual)
      PROVE  Entries'
  <2>1. /\ window' = window /\ call' = call /\ pc'[p] = "idle"
        /\ \A q \in Processes \ {p} : pc'[q] = pc[q]
        /\ \/ ledger' = ledger
           \/ ledger' = Without(ledger, Member(p))
           \/ \E n \in Nat : \/ ledger' = Replace(ledger, Member(p), n)
                             \/ ledger' = Used(ledger, Member(p), n)
    <3>1. call[p].used \in Nat /\ \A actual \in Answers(p) : actual \in Nat
      BY <1>0, CallType, AnswersType
    <3> QED
      BY <1>0, <1>7, <3>1 DEF SettleDay, ReleaseDay, RedisFails, LeaveReserved, Typed
  <2>2. Touched(window, window', Member(p)) /\ Touched(ledger, ledger', Member(p))
    <3>1. Without(ledger, Member(p)) \subseteq ledger
      BY DEF Without
    <3> QED
      BY <1>0, <2>1, <3>1, TouchedBy
  <2>3. \A e \in ledger : e.of # Member(p) => e \in ledger'
    BY <2>1, OthersKept
  <2> QED
    BY <1>b, <1>c, <2>1, <2>2, <2>3
<1>8. ASSUME NEW p \in Processes, GiveBack(p) PROVE Entries'
  <2>1. /\ window' = Without(window, Member(p)) /\ call' = call
        /\ \A q \in Processes \ {p} : pc'[q] = pc[q]
        /\ pc[p] = "releasing"
        /\ \/ pc'[p] = "released" /\ ledger' = ledger
           \/ pc'[p] = "idle" /\ ledger' = Without(ledger, Member(p))
    BY <1>0, <1>8 DEF GiveBack, Typed
  <2>2. window' \subseteq window /\ \A e \in window' : e.of # Member(p)
    BY <2>1 DEF Without
  <2>3. CASE pc'[p] = "released" /\ ledger' = ledger
    <3>1. Owed(p) /\ Member(p)' = Member(p)
      BY <1>0, <2>1 DEF Entries, OwnEntries, Member
    <3>2. Owed(p)'
      BY <2>1, <2>3, <3>1 DEF Owed
    <3>3. OwnEntries(p)'
      <4> HIDE DEF Member, Entry, Owed
      <4> QED
        BY <2>2, <2>3, <3>1, <3>2 DEF OwnEntries
    <3> QED
      BY <1>d, <2>1, <2>2, <2>3, <3>3
  <2>4. CASE pc'[p] = "idle" /\ ledger' = Without(ledger, Member(p))
    <3>1. ledger' \subseteq ledger
      BY <2>4 DEF Without
    <3>2. Touched(window, window', Member(p)) /\ Touched(ledger, ledger', Member(p))
      BY <1>0, <2>2, <3>1, TouchedBy
    <3>3. \A e \in ledger : e.of # Member(p) => e \in ledger'
      BY <2>4, OthersKept
    <3> QED
      BY <1>b, <1>c, <2>1, <2>4, <3>2, <3>3
  <2> QED
    BY <2>1, <2>3, <2>4
<1>9. ASSUME NEW p \in Processes,
             \/ \E actual \in Answers(p) : ReconcileInMemory(p, actual)
             \/ ReleaseInMemory(p)
      PROVE  Entries'
  <2>1. /\ window' = window /\ ledger' = ledger /\ call' = call /\ pc'[p] = "idle"
        /\ \A q \in Processes \ {p} : pc'[q] = pc[q]
    BY <1>0, <1>9 DEF ReconcileInMemory, ReleaseInMemory, Typed
  <2> QED
    BY <1>b, <1>d, <2>1
<1>10. CASE UNCHANGED <<window, ledger, call, pc>>
  <2>1. \A q \in Processes : OwnEntries(q)'
    BY <1>a, <1>10
  <2>2. Made(window)' /\ Made(ledger)'
    BY <1>0, <1>10 DEF Entries, Made
  <2> QED
    BY <2>1, <2>2 DEF Entries
<1>11. CASE Tick \/ LeaseEnds \/ UNCHANGED vars
  BY <1>10, <1>11 DEF Tick, LeaseEnds, vars
<1> QED
  BY <1>1, <1>2, <1>3, <1>4, <1>5, <1>6, <1>7, <1>8, <1>9, <1>11 DEF Next, Reserving, Answered

\* A process loses its lease only to a fault, and leaves the section of the lock
\* in every other way.
LEMMA LostLeasesStep == IInv /\ [Next]_vars => LostLeases'
<1> SUFFICES ASSUME IInv, [Next]_vars PROVE LostLeases'
  OBVIOUS
<1>0. /\ Typed /\ IsFiniteSet(Orphans) /\ Cardinality(Orphans) <= faults
      /\ Cardinality(Orphans) \in Nat /\ faults \in Nat
  BY FS_CardinalityType DEF IInv, LostLeases, Typed
<1>a. ASSUME Orphans' \subseteq Orphans, faults <= faults', faults' \in Nat PROVE LostLeases'
  <2>1. IsFiniteSet(Orphans') /\ Cardinality(Orphans') <= Cardinality(Orphans)
    BY <1>0, <1>a, FS_Subset
  <2>2. Cardinality(Orphans') \in Nat
    BY <2>1, FS_CardinalityType
  <2> QED
    BY <1>0, <1>a, <2>1, <2>2 DEF LostLeases
<1>b. ASSUME NEW p \in Processes, \A q \in Processes \ {p} : pc'[q] = pc[q],
             lock' = lock \/ (lock' = NoOne /\ lock = p) \/ (lock' = p /\ lock = NoOne),
             \/ pc'[p] \notin Critical
             \/ lock' = p
             \/ lock' = lock /\ pc[p] \in Critical,
             faults' = faults \/ faults' = faults + 1
      PROVE  LostLeases'
  <2>1. Orphans' \subseteq Orphans
    <3> SUFFICES ASSUME NEW q \in Orphans' PROVE q \in Orphans
      OBVIOUS
    <3>1. q \in Processes /\ pc'[q] \in Critical /\ lock' # q
      BY DEF Orphans
    <3>2. CASE q = p
      BY <1>b, <3>1, <3>2 DEF Orphans
    <3>3. CASE q # p
      BY <1>b, <3>1, <3>3 DEF Orphans
    <3> QED
      BY <3>2, <3>3
  <2>2. faults <= faults' /\ faults' \in Nat
    BY <1>0, <1>b
  <2> QED
    BY <1>a, <2>1, <2>2
<1>c. {"waiting", "idle", "calling"} \cap Critical = {}
  BY DEF Critical
<1>1. ASSUME NEW p \in Processes,
             \/ \E input \in Inputs : Start(p, input)
             \/ LockTimeout(p)
             \/ \E actual \in Answers(p) :
                  LeaveReserved(p, actual) \/ ReconcileInMemory(p, actual)
             \/ ReleaseInMemory(p)
      PROVE  LostLeases'
  <2>1. /\ \A q \in Processes \ {p} : pc'[q] = pc[q]
        /\ lock' = lock /\ pc'[p] \in {"waiting", "idle"} /\ faults' = faults
    BY <1>0, <1>1
       DEF Start, LockTimeout, LeaveReserved, ReconcileInMemory, ReleaseInMemory, Typed
  <2> QED
    BY <1>b, <1>c, <2>1
<1>2. ASSUME NEW p \in Processes,
             Acquire(p) \/ Refuse(p) \/ \E actual \in Answers(p) : Settle(p, actual)
      PROVE  LostLeases'
  <2>1. /\ \A q \in Processes \ {p} : pc'[q] = pc[q]
        /\ lock = NoOne /\ lock' = p /\ faults' = faults
    BY <1>0, <1>2 DEF Acquire, Refuse, Settle, Typed
  <2> QED
    BY <1>b, <2>1
<1>3. ASSUME NEW p \in Processes, AddEntry(p) \/ TakeEntry(p) \/ PutEntry(p) PROVE LostLeases'
  <2>1. /\ \A q \in Processes \ {p} : pc'[q] = pc[q]
        /\ lock' = lock /\ pc[p] \in {"granted", "settling", "taken"} /\ faults' = faults
    BY <1>0, <1>3 DEF AddEntry, TakeEntry, PutEntry, Typed
  <2>2. pc[p] \in Critical
    BY <2>1 DEF Critical
  <2> QED
    BY <1>b, <2>1, <2>2
<1>4. ASSUME NEW p \in Processes,
             \/ ReadUsage(p) \/ CountDay(p) \/ FallBack(p)
             \/ SettleDay(p) \/ GiveBack(p) \/ ReleaseDay(p) \/ RedisFails(p)
      PROVE  LostLeases'
  <2>1. /\ \A q \in Processes \ {p} : pc'[q] = pc[q]
        /\ \/ lock' = lock /\ pc[p] \in {"holding", "releasing"}
           \/ /\ pc'[p] \in {"calling", "idle"}
              /\ lock' = lock \/ (lock' = NoOne /\ lock = p)
        /\ faults' = faults \/ faults' = faults + 1
    <3>1. CASE ReadUsage(p) \/ CountDay(p)
      BY <1>0, <3>1 DEF ReadUsage, CountDay, Unlock, Typed
    <3>2. CASE FallBack(p)
      BY <1>0, <3>2 DEF FallBack, Fault, Unlock, Typed
    <3>3. CASE SettleDay(p) \/ ReleaseDay(p)
      BY <1>0, <3>3 DEF SettleDay, ReleaseDay, Leave, Fault, Unlock, Typed
    <3>4. CASE GiveBack(p)
      BY <1>0, <3>4 DEF GiveBack, Leave, Fault, Unlock, Typed
    <3>5. CASE RedisFails(p)
      BY <1>0, <3>5 DEF RedisFails, Fault, Unlock, Typed
    <3> QED
      BY <1>4, <3>1, <3>2, <3>3, <3>4, <3>5
  <2>2. {"holding", "releasing"} \subseteq Critical
    BY DEF Critical
  <2> QED
    BY <1>b, <1>c, <2>1, <2>2
<1>5. CASE UNCHANGED <<lock, pc, faults>>
  <2>1. Orphans' = Orphans
    BY <1>5 DEF Orphans
  <2> QED
    BY <1>0, <1>5, <2>1 DEF LostLeases
<1>6. CASE Tick \/ UNCHANGED vars
  BY <1>5, <1>6 DEF Tick, vars
<1>7. CASE LeaseEnds
  <2>1. CASE pc[lock] \notin Critical /\ UNCHANGED faults
    <3>1. Orphans' \subseteq Orphans
      BY <1>0, <1>7, <2>1 DEF LeaseEnds, Orphans
    <3> QED
      BY <1>0, <1>a, <2>1, <3>1
  <2>2. CASE Fault
    <3>1. Orphans' \subseteq Orphans \cup {lock} /\ faults' = faults + 1
      BY <1>0, <1>7, <2>2 DEF LeaseEnds, Fault, Orphans
    <3>2. /\ IsFiniteSet(Orphans \cup {lock})
          /\ Cardinality(Orphans \cup {lock}) =
               IF lock \in Orphans THEN Cardinality(Orphans) ELSE Cardinality(Orphans) + 1
      BY <1>0, FS_AddElement
    <3>3. IsFiniteSet(Orphans') /\ Cardinality(Orphans') <= Cardinality(Orphans \cup {lock})
      BY <3>1, <3>2, FS_Subset
    <3>4. Cardinality(Orphans') \in Nat
      BY <3>3, FS_CardinalityType
    <3> QED
      BY <1>0, <3>1, <3>2, <3>3, <3>4 DEF LostLeases
  <2> QED
    BY <1>7, <2>1, <2>2 DEF LeaseEnds
<1> QED
  BY <1>1, <1>2, <1>3, <1>4, <1>6, <1>7 DEF Next, Reserving, Answered

\* The entry of a call that a step leaves alone is the same.
LEMMA EntrySame ==
  ASSUME NEW q \in Processes, call'[q] = call[q]
  PROVE  Entry(q)' = Entry(q) /\ Member(q)' = Member(q)
BY DEF Entry, Reserved, Member

\* What is decided are entries, of each call at most one.
LEMMA DecidedType ==
  ASSUME Typed, Entries, LostLeases
  PROVE  /\ OffWindow \subseteq Busy
         /\ Decided \in Usages
         /\ \A e, f \in Decided : e.of = f.of => e = f
<1>0. OffWindow \subseteq Busy
  BY DEF OffWindow, Busy, Critical
<1>1. EntriesOf(OffWindow) \in Usages /\ window \in Usages
  BY <1>0, EntriesOfBusy DEF Typed
<1>2. Decided \in Usages
  BY <1>1, UsagesUnion DEF Decided
<1>3. \A e, f \in window : e.of = f.of => e = f
  BY DEF Entries, Made
<1>4. \A q \in OffWindow : Entry(q).of = Member(q) /\ \A e \in window : e.of # Member(q)
  BY DEF Entries, OwnEntries, OffWindow, Entry, Reserved
<1>5. \A q, r \in OffWindow : Member(q) = Member(r) => q = r
  BY DEF Member
<1>6. ASSUME NEW e \in Decided, NEW f \in Decided, e.of = f.of PROVE e = f
  <2>1. \A x \in EntriesOf(OffWindow) : \E q \in OffWindow : x = Entry(q)
    BY DEF EntriesOf
  <2>2. CASE e \in window /\ f \in window
    BY <1>3, <1>6, <2>2
  <2>3. CASE e \in EntriesOf(OffWindow) /\ f \in EntriesOf(OffWindow)
    BY <1>4, <1>5, <1>6, <2>1, <2>3
  <2>4. CASE e \in window /\ f \in EntriesOf(OffWindow)
    BY <1>4, <1>6, <2>1, <2>4
  <2>5. CASE e \in EntriesOf(OffWindow) /\ f \in window
    BY <1>4, <1>6, <2>1, <2>5
  <2> QED
    BY <2>2, <2>3, <2>4, <2>5 DEF Decided
<1> QED
  BY <1>0, <1>2, <1>6

\* The minute is held: a grant fits with what it sees, and what it does not see is
\* in the hands of processes that have lost their lease; an entry that is written
\* anew is counted at no more than its reservation.
LEMMA MinuteStep == IInv /\ [Next]_vars => MinuteHeld'
<1> SUFFICES ASSUME IInv, [Next]_vars PROVE MinuteHeld'
  OBVIOUS
<1>0. /\ Typed /\ Entries /\ LostLeases
      /\ Tokens(Counted(Decided)) <= Budget * (1 + faults) /\ Cardinality(Decided) <= RPM + faults
  BY DEF IInv, MinuteHeld
<1>z. /\ Decided \in Usages /\ Cardinality(Decided) \in Nat
      /\ Tokens(Counted(Decided)) \in Nat /\ OffWindow \subseteq Busy
  BY <1>0, DecidedType, UsageWeighed, CountedType
<1>a. ASSUME NEW S \in Usages, Decided' \subseteq S,
             Tokens(Counted(S)) <= Tokens(Counted(Decided)), Cardinality(S) <= Cardinality(Decided),
             faults' = faults \/ faults' = faults + 1
      PROVE  MinuteHeld'
  <2> DEFINE T == Decided'
  <2>1. T \subseteq S /\ Decided' = T
    BY <1>a
  <2> HIDE DEF T
  <2>2. /\ T \in Usages /\ Cardinality(T) <= Cardinality(S)
        /\ Tokens(Counted(T)) \in Nat /\ Tokens(Counted(T)) <= Tokens(Counted(S))
    BY <2>1, Fewer, CountedFewer
  <2>3. Cardinality(T) \in Nat /\ Cardinality(S) \in Nat /\ Tokens(Counted(S)) \in Nat
    BY <2>2, UsageWeighed, CountedType
  <2>4. Tokens(Counted(T)) <= Budget * (1 + faults') /\ Cardinality(T) <= RPM + faults'
    BY <1>0, <1>z, <1>a, <2>2, <2>3, FaultsAllow, BudgetType
  <2> QED
    BY <2>1, <2>4 DEF MinuteHeld
<1>b. ASSUME window' \subseteq Decided, \A q \in OffWindow' : Entry(q)' \in Decided,
             faults' = faults \/ faults' = faults + 1
      PROVE  MinuteHeld'
  <2>1. Decided' \subseteq Decided
    BY <1>b DEF Decided, EntriesOf
  <2>2. Tokens(Counted(Decided)) <= Tokens(Counted(Decided)) /\ Cardinality(Decided) <= Cardinality(Decided)
    BY <1>z
  <2> QED
    BY <1>a, <1>b, <1>z, <2>1, <2>2
<1>c. window \subseteq Decided /\ \A q \in OffWindow : Entry(q) \in Decided
  BY DEF Decided, EntriesOf
<1>d. ASSUME NEW p \in Processes, window' \subseteq window,
             \A q \in Processes \ {p} : pc'[q] = pc[q] /\ call'[q] = call[q],
             pc'[p] \notin {"granted", "taken"},
             faults' = faults \/ faults' = faults + 1
      PROVE  MinuteHeld'
  <2>1. \A q \in OffWindow' : q \in OffWindow /\ call'[q] = call[q] /\ q \in Processes
    BY <1>d DEF OffWindow
  <2>2. \A q \in OffWindow' : Entry(q)' \in Decided
    BY <1>c, <2>1, EntrySame
  <2> QED
    BY <1>b, <1>c, <1>d, <2>2
<1>1. ASSUME NEW p \in Processes,
             \/ \E input \in Inputs : Start(p, input)
             \/ Acquire(p) \/ LockTimeout(p) \/ CountDay(p)
             \/ FallBack(p)
             \/ \E actual \in Answers(p) :
                  Settle(p, actual) \/ LeaveReserved(p, actual) \/ ReconcileInMemory(p, actual)
             \/ SettleDay(p) \/ Refuse(p) \/ GiveBack(p) \/ ReleaseDay(p) \/ RedisFails(p)
             \/ ReleaseInMemory(p)
      PROVE  MinuteHeld'
  <2>1. /\ \A q \in Processes \ {p} : pc'[q] = pc[q] /\ call'[q] = call[q]
        /\ faults' = faults \/ faults' = faults + 1
    <3>1. Reserving(p) \/ Answered(p)
      BY <1>1 DEF Reserving, Answered
    <3> QED
      BY <1>0, <3>1, Others
  <2>2. window' \subseteq window
    BY <1>1 DEF Start, Acquire, LockTimeout, CountDay, FallBack, Settle, LeaveReserved,
                ReconcileInMemory, SettleDay, Refuse, GiveBack, ReleaseDay, RedisFails,
                ReleaseInMemory, Without
  <2>3. pc'[p] \notin {"granted", "taken"}
    <3>1. \E s \in {"waiting", "holding", "idle", "calling", "settling", "releasing", "released"} :
            pc' = [pc EXCEPT ![p] = s]
      BY <1>1 DEF Start, Acquire, LockTimeout, CountDay, FallBack, Settle, LeaveReserved,
                  ReconcileInMemory, SettleDay, Refuse, GiveBack, ReleaseDay, RedisFails,
                  ReleaseInMemory
    <3> QED
      BY <1>0, <3>1 DEF Typed
  <2> QED
    BY <1>d, <2>1, <2>2, <2>3
<1>2. ASSUME NEW p \in Processes, ReadUsage(p) PROVE MinuteHeld'
  <2> DEFINE recent == Recent(window, call[p].at)
             daily == days[Day(call[p].at)]
             input == call[p].input
             tokens == input + Available(recent, daily, input)
             new == Entry(p)'
  <2>1. /\ recent \in Usages /\ recent \subseteq window
        /\ daily \in Counts /\ input \in Nat /\ call[p] \in Call
    BY <1>0, CallType, UsagesSubset DEF Recent, Typed
  <2>2. /\ window' = recent /\ faults' = faults /\ pc[p] = "holding"
        /\ \A q \in Processes \ {p} : pc'[q] = pc[q] /\ call'[q] = call[q]
    BY <1>0, <1>2 DEF ReadUsage, Typed
  <2>3. CASE ~Fits(recent, daily, input)
    <3>1. pc'[p] = "idle"
      BY <1>0, <1>2, <2>3 DEF ReadUsage, Typed
    <3> HIDE DEF recent
    <3> QED
      BY <1>d, <2>1, <2>2, <3>1
  <2>4. CASE Fits(recent, daily, input)
    <3>1. /\ tokens \in 0..Budget /\ Tokens(recent) + tokens <= Budget
          /\ Cardinality(recent) < RPM
      BY <2>1, <2>4, GrantFits
    <3>2. call' = [call EXCEPT ![p].tokens = tokens] /\ pc' = [pc EXCEPT ![p] = "granted"]
      BY <1>2, <2>4 DEF ReadUsage
    <3> HIDE DEF recent, daily, input, tokens
    <3>3. call'[p] = [call[p] EXCEPT !.tokens = tokens]
      BY <1>0, <3>2 DEF Typed
    <3>4. call'[p].tokens = tokens /\ call'[p].n = call[p].n /\ call'[p].at = call[p].at
      BY <2>1, <3>3 DEF Call
    <3>5. new = [of |-> Member(p), at |-> call[p].at, tokens |-> tokens, limit |-> tokens]
      BY <3>4 DEF Entry, Reserved, Member
    <3>6. Member(p) \in Processes \X (1..MaxCalls) /\ call[p].at \in Times
      BY <1>0, <2>2, CallType
    <3>7. tokens \in Nat
      BY <3>1, BudgetType
    <3>8. new \in Usage /\ new.tokens = tokens
      BY <3>5, <3>6, <3>7 DEF Usage
    <3>9. OffWindow' = OffWindow \cup {p} /\ OffWindow \subseteq Busy \ {p} /\ p \in Busy
      <4>1. p \notin OffWindow /\ p \in Busy
        BY <2>2 DEF OffWindow, Busy, Critical
      <4>2. OffWindow' = OffWindow \cup {p}
        BY <1>0, <2>2, <3>2 DEF OffWindow, Typed
      <4> QED
        BY <1>z, <4>1, <4>2
    <3>10. EntriesOf(OffWindow)' = EntriesOf(OffWindow) \cup {new}
      <4>1. \A q \in OffWindow : Entry(q)' = Entry(q)
        BY <2>2, <3>9, EntrySame DEF Busy
      <4> QED
        BY <3>9, <4>1 DEF EntriesOf
    <3>11. Decided' = (recent \cup {new}) \cup EntriesOf(OffWindow)
      BY <2>2, <3>10 DEF Decided
    <3> HIDE DEF new
    <3> DEFINE S == recent \cup {new}
               T == EntriesOf(OffWindow)
    <3>12. /\ S \in Usages
           /\ Tokens(S) <= Tokens(recent) + new.tokens
           /\ Cardinality(S) <= Cardinality(recent) + 1
      BY <2>1, <3>8, OneMore
    <3>13. /\ T \in Usages
           /\ Cardinality(T) \in Nat /\ Cardinality(T) <= faults
           /\ Tokens(T) \in Nat /\ Tokens(T) <= Budget * faults
      BY <1>0, <3>9, OthersBounded
    <3> HIDE DEF S, T
    <3>14. /\ Tokens(S) \in Nat /\ Cardinality(S) \in Nat
           /\ Tokens(recent) \in Nat /\ Cardinality(recent) \in Nat
      BY <2>1, <3>12, UsageWeighed
    <3>15. Tokens(S) <= Budget /\ Cardinality(S) <= RPM
      BY <3>1, <3>7, <3>8, <3>12, <3>14, BudgetType
    <3>16. S \cup T \in Usages /\ Cardinality(S \cup T) <= Cardinality(S) + Cardinality(T)
      BY <3>12, <3>13, Together
    <3>17. /\ Counted(S) \in Usages /\ Counted(T) \in Usages
           /\ Tokens(Counted(S)) \in Nat /\ Tokens(Counted(T)) \in Nat
           /\ Tokens(Counted(S)) <= Tokens(S) /\ Tokens(Counted(T)) <= Tokens(T)
      BY <3>12, <3>13, CountedType
    <3>18. Tokens(Counted(S \cup T)) <= Tokens(Counted(S)) + Tokens(Counted(T))
      <4>1. Tokens(Counted(S) \cup Counted(T)) <= Tokens(Counted(S)) + Tokens(Counted(T))
        BY <3>17, Together
      <4> QED
        BY <4>1, CountedUnion
    <3>19. Tokens(Counted(S \cup T)) \in Nat /\ Cardinality(S \cup T) \in Nat
      BY <3>16, CountedType, UsageWeighed
    <3>20. /\ faults \in Nat /\ Budget * faults \in Nat
           /\ Budget * (1 + faults) = Budget + Budget * faults
      BY <1>0, <2>2, FaultsAllow
    <3>21. Tokens(Counted(S \cup T)) <= Budget * (1 + faults)
      BY <3>13, <3>14, <3>15, <3>17, <3>18, <3>19, <3>20, BudgetType
    <3>22. Cardinality(S \cup T) <= RPM + faults
      BY <3>13, <3>14, <3>15, <3>16, <3>19, <3>20
    <3>23. Decided' = S \cup T
      BY <3>11 DEF S, T
    <3> QED
      BY <2>2, <3>21, <3>22, <3>23 DEF MinuteHeld
  <2> QED
    BY <2>3, <2>4
<1>3. ASSUME NEW p \in Processes, AddEntry(p) PROVE MinuteHeld'
  <2>1. /\ window' = window \cup {Entry(p)} /\ faults' = faults /\ call' = call
        /\ pc[p] = "granted" /\ pc'[p] = "added"
        /\ \A q \in Processes \ {p} : pc'[q] = pc[q]
    BY <1>0, <1>3 DEF AddEntry, Typed
  <2>2. window' \subseteq Decided
    BY <1>c, <2>1 DEF OffWindow
  <2>3. \A q \in OffWindow' : Entry(q)' \in Decided
    <3>1. \A q \in OffWindow' : q \in OffWindow /\ call'[q] = call[q] /\ q \in Processes
      BY <2>1 DEF OffWindow
    <3> QED
      BY <1>c, <3>1, EntrySame
  <2> QED
    BY <1>b, <2>1, <2>2, <2>3
<1>4. ASSUME NEW p \in Processes, TakeEntry(p) PROVE MinuteHeld'
  <2>1. /\ window' = Without(window, Member(p)) /\ faults' = faults /\ call' = call
        /\ pc[p] = "settling" /\ pc'[p] = (IF window' = window THEN "put" ELSE "taken")
        /\ \A q \in Processes \ {p} : pc'[q] = pc[q]
    BY <1>0, <1>4 DEF TakeEntry, Typed
  <2>2. window' \subseteq window
    BY <2>1 DEF Without
  <2>3. CASE window' = window
    BY <1>d, <2>1, <2>2, <2>3
  <2>4. CASE window' # window
    <3>1. PICK e \in window : e.of = Member(p)
      BY <2>1, <2>4 DEF Without
    <3>2. Entry(p) \in window
      BY <1>0, <2>1, <3>1 DEF Entries, OwnEntries
    <3>3. \A q \in OffWindow' : (q \in OffWindow \/ q = p) /\ q \in Processes
      BY <2>1 DEF OffWindow
    <3>4. \A q \in OffWindow' : Entry(q)' \in Decided
      BY <1>c, <2>1, <3>2, <3>3, EntrySame
    <3> QED
      BY <1>b, <1>c, <2>1, <2>2, <3>4
  <2> QED
    BY <2>3, <2>4
<1>5. ASSUME NEW p \in Processes, PutEntry(p) PROVE MinuteHeld'
  <2> DEFINE x == Entry(p)
             y == WithTokens(x, call[p].used)
             S == (Decided \ {x}) \cup {y}
  <2>1. /\ window' = window \cup {y} /\ faults' = faults /\ call' = call
        /\ pc[p] = "taken" /\ pc'[p] = "put"
        /\ \A q \in Processes \ {p} : pc'[q] = pc[q]
    BY <1>0, <1>5 DEF PutEntry, WithTokens, Typed
  <2>2. x \in Decided /\ \A e \in window : e # x
    <3>1. p \in OffWindow
      BY <2>1 DEF OffWindow
    <3>2. \A e \in window : e.of # Member(p)
      BY <1>0, <2>1 DEF Entries, OwnEntries
    <3>3. x.of = Member(p)
      BY <1>0, CallType
    <3> QED
      BY <1>c, <3>1, <3>2, <3>3
  <2>3. y \in Usage /\ y.of = x.of /\ Weight(y) <= Weight(x)
    <3>1. x \in Usage /\ x.tokens = call[p].tokens /\ x.limit = call[p].tokens
          /\ call[p].tokens \in Nat /\ call[p].used \in Nat
      BY <1>0, <2>1, CallType
    <3>2. y \in Usage /\ y.of = x.of /\ y.tokens = call[p].used /\ y.limit = call[p].tokens
      <4>1. /\ y \in Usage /\ y.of = x.of /\ y.tokens = call[p].used /\ y.limit = x.limit
        BY Zenon, <3>1, WithTokensType
      <4> QED
        BY Zenon, <3>1, <4>1
    <3> HIDE DEF x, y
    <3>3. Weight(x) \in {x.tokens, x.limit} /\ Weight(y) <= y.limit
      BY <3>1, <3>2, MinOf DEF Weight
    <3> QED
      BY <3>1, <3>2, <3>3
  <2>4. Decided' \subseteq S
    <3>1. \A q \in OffWindow' : q \in OffWindow /\ q # p /\ call'[q] = call[q] /\ q \in Processes
      BY <2>1 DEF OffWindow
    <3>2. \A q \in OffWindow' : Entry(q)' \in Decided /\ Entry(q)' # x
      BY <1>c, <3>1, EntrySame, MembersDiffer
    <3>3. window' \subseteq S
      BY <1>c, <2>1, <2>2
    <3> HIDE DEF x, y
    <3> QED
      BY <3>2, <3>3 DEF Decided, EntriesOf
  <2>5. \A e, f \in Decided : e.of = f.of => e = f
    BY <1>0, DecidedType
  <2> HIDE DEF x, y
  <2>6. /\ S \in Usages /\ Cardinality(S) <= Cardinality(Decided)
        /\ Tokens(Counted(S)) <= Tokens(Counted(Decided))
    BY <1>z, <2>2, <2>3, <2>5, CountedExchange
  <2> QED
    BY <1>a, <2>1, <2>4, <2>6
<1>6. CASE Tick \/ LeaseEnds \/ UNCHANGED vars
  <2>1. /\ window' = window /\ call' = call /\ pc' = pc
        /\ faults' = faults \/ faults' = faults + 1
    BY <1>6 DEF Tick, LeaseEnds, Fault, vars
  <2>2. \A q \in OffWindow' : q \in OffWindow /\ call'[q] = call[q] /\ q \in Processes
    BY <2>1 DEF OffWindow
  <2>3. \A q \in OffWindow' : Entry(q)' \in Decided
    BY <1>c, <2>2, EntrySame
  <2> QED
    BY <1>b, <1>c, <2>1, <2>3
<1> QED
  BY <1>1, <1>2, <1>3, <1>4, <1>5, <1>6 DEF Next, Reserving, Answered

\* The day is held: a grant fits with the counters it reads, what is not counted yet
\* is decided by processes that have lost their lease, and what an answer adds is
\* what the provider counted above the reservation.
LEMMA DayStep == IInv /\ [Next]_vars => DayHeld'
<1> SUFFICES ASSUME IInv, [Next]_vars PROVE DayHeld'
  OBVIOUS
<1> DEFINE Held(d) ==
             /\ days'[d].requests + Cardinality(EntriesOf(Coming(d))') <= RPD + faults'
             /\ days'[d].tokens + Tokens(EntriesOf(Coming(d))') <= TPD + excess'[d] + Budget * faults'
<1>0. /\ Typed /\ Typed' /\ Entries /\ LostLeases
      /\ faults' = faults \/ faults' = faults + 1
      /\ \A d \in Days :
           /\ days[d].requests + Cardinality(EntriesOf(Coming(d))) <= RPD + faults
           /\ days[d].tokens + Tokens(EntriesOf(Coming(d))) <= TPD + excess[d] + Budget * faults
  <2>1. Typed /\ Typed'
    BY TypedStep DEF IInv
  <2>2. Tick \/ LeaseEnds \/ UNCHANGED vars => faults' = faults \/ faults' = faults + 1
    BY DEF Tick, LeaseEnds, Fault, vars
  <2>3. faults' = faults \/ faults' = faults + 1
    BY <2>1, <2>2, Others DEF Next
  <2> QED
    BY <2>1, <2>3 DEF IInv, DayHeld
<1>y. (\A d \in Days : Held(d)) => DayHeld'
  BY DEF DayHeld
<1>z. ASSUME NEW d \in Days
      PROVE  /\ EntriesOf(Coming(d)) \in Usages /\ Tokens(EntriesOf(Coming(d))) \in Nat
             /\ Cardinality(EntriesOf(Coming(d))) \in Nat
             /\ days[d].requests \in Nat /\ days[d].tokens \in Nat /\ excess[d] \in Nat
             /\ days'[d].requests \in Nat /\ days'[d].tokens \in Nat /\ excess'[d] \in Nat
  <2>1. Coming(d) \subseteq Busy
    BY DEF Coming, Busy, Critical
  <2>2. EntriesOf(Coming(d)) \in Usages
    BY <1>0, <2>1, EntriesOfBusy
  <2>3. /\ days[d] \in Counts /\ excess[d] \in Nat
        /\ days'[d] \in Counts /\ excess'[d] \in Nat
    BY <1>0 DEF Typed
  <2> QED
    BY <2>2, <2>3, UsageWeighed DEF Counts
<1>a. ASSUME NEW d \in Days, \A q \in Coming(d)' : q \in Coming(d) /\ call'[q] = call[q],
             days'[d].requests <= days[d].requests,
             days'[d].tokens + excess[d] <= days[d].tokens + excess'[d]
      PROVE  Held(d)
  <2> DEFINE S == EntriesOf(Coming(d))'
             T == EntriesOf(Coming(d))
  <2>1. \A q \in Coming(d)' : q \in Coming(d) /\ Entry(q)' = Entry(q)
    BY <1>a, EntrySame DEF Coming
  <2>2. S \subseteq T
    BY <2>1 DEF EntriesOf
  <2>3. T \in Usages /\ Tokens(T) \in Nat /\ Cardinality(T) \in Nat
    BY <1>z
  <2> HIDE DEF S, T
  <2>4. S \in Usages /\ Tokens(S) <= Tokens(T) /\ Cardinality(S) <= Cardinality(T)
    BY <2>2, <2>3, Fewer
  <2>5. Tokens(S) \in Nat /\ Cardinality(S) \in Nat
    BY <2>4, UsageWeighed
  <2>6. /\ faults \in Nat /\ faults' \in Nat /\ faults <= faults'
        /\ Budget * faults \in Nat /\ Budget * faults' \in Nat
        /\ Budget * faults <= Budget * faults'
    BY <1>0, FaultsAllow
  <2>7. /\ days[d].requests + Cardinality(T) <= RPD + faults
        /\ days[d].tokens + Tokens(T) <= TPD + excess[d] + Budget * faults
    BY <1>0 DEF T
  <2>8. /\ days[d].requests \in Nat /\ days[d].tokens \in Nat /\ excess[d] \in Nat
        /\ days'[d].requests \in Nat /\ days'[d].tokens \in Nat /\ excess'[d] \in Nat
    BY <1>z
  <2>9. days'[d].requests + Cardinality(S) <= RPD + faults'
    BY <1>a, <2>3, <2>4, <2>5, <2>6, <2>7, <2>8
  <2>10. days'[d].tokens + Tokens(S) <= TPD + excess'[d] + Budget * faults'
    BY <1>a, <2>3, <2>4, <2>5, <2>6, <2>7, <2>8
  <2> QED
    BY Zenon, <2>9, <2>10 DEF S
<1> HIDE DEF Held
<1>b. ASSUME UNCHANGED <<days, excess>>, NEW d \in Days,
             \A q \in Coming(d)' : q \in Coming(d) /\ call'[q] = call[q]
      PROVE  Held(d)
  <2>1. /\ days'[d].requests <= days[d].requests
        /\ days'[d].tokens + excess[d] <= days[d].tokens + excess'[d]
    BY <1>z, <1>b
  <2> QED
    BY <1>a, <1>b, <2>1
<1>c. ASSUME NEW p \in Processes, UNCHANGED <<days, excess>>,
             \A q \in Processes \ {p} : pc'[q] = pc[q] /\ call'[q] = call[q],
             \/ pc'[p] \notin {"granted", "added"}
             \/ pc[p] = "granted" /\ call' = call
      PROVE  DayHeld'
  <2>1. ASSUME NEW d \in Days, NEW q \in Coming(d)' PROVE q \in Coming(d) /\ call'[q] = call[q]
    <3>1. q \in Processes /\ pc'[q] \in {"granted", "added"} /\ Day(call'[q].at) = d
      BY DEF Coming
    <3>2. CASE q = p
      BY <1>c, <3>1, <3>2 DEF Coming
    <3>3. CASE q # p
      BY <1>c, <3>1, <3>3 DEF Coming
    <3> QED
      BY <3>2, <3>3
  <2> QED
    BY <1>b, <1>c, <1>y, <2>1
<1>d. ASSUME NEW p \in Processes, pc[p] = "added", NEW n \in {0, call[p].tokens},
             days' = [days EXCEPT ![Day(call[p].at)] = Count(@, n)], excess' = excess,
             \A q \in Processes \ {p} : pc'[q] = pc[q] /\ call'[q] = call[q],
             pc'[p] \notin {"granted", "added"}
      PROVE  DayHeld'
  <2> DEFINE today == Day(call[p].at)
  <2>1. /\ today \in Days /\ days[today] \in Counts /\ call[p].tokens \in Nat
        /\ n \in Nat /\ n <= call[p].tokens
        /\ days' = [days EXCEPT ![today] = Count(days[today], n)]
    BY <1>0, <1>d, CallType
  <2>2. ASSUME NEW d \in Days, NEW q \in Coming(d)'
        PROVE  q \in Coming(d) /\ q # p /\ call'[q] = call[q]
    BY <1>d DEF Coming
  <2>3. p \in Coming(today)
    BY <1>d DEF Coming
  <2> HIDE DEF today
  <2>4. ASSUME NEW d \in Days, d # today PROVE Held(d)
    <3>1. days'[d] = days[d] /\ excess'[d] = excess[d]
      BY <1>0, <1>d, <2>1, <2>4 DEF Typed
    <3>2. /\ days'[d].requests <= days[d].requests
          /\ days'[d].tokens + excess[d] <= days[d].tokens + excess'[d]
      BY <1>z, <3>1
    <3> QED
      BY <1>a, <2>2, <3>2
  <2>5. ASSUME NEW d \in Days, d = today PROVE Held(d)
    <3> DEFINE T == EntriesOf(Coming(d))
               S == EntriesOf(Coming(d))'
               x == Entry(p)
               R == T \ {x}
    <3>1. S \subseteq R
      <4>1. \A q \in Coming(d)' : Entry(q)' = Entry(q) /\ q \in Coming(d) /\ Entry(q) # x
        BY <2>1, <2>2, EntrySame, MembersDiffer DEF Coming
      <4> QED
        BY <4>1 DEF EntriesOf
    <3>2. x \in T /\ x.tokens = call[p].tokens
      BY <1>0, <2>3, <2>5, CallType DEF EntriesOf
    <3>3. T \in Usages
      BY <1>z
    <3>4. /\ days[d].requests + Cardinality(T) <= RPD + faults
          /\ days[d].tokens + Tokens(T) <= TPD + excess[d] + Budget * faults
      BY <1>0, <2>1
    <3>5. /\ days'[d].requests = days[d].requests + 1
          /\ days'[d].tokens = days[d].tokens + n /\ excess'[d] = excess[d]
      <4>1. days'[d] = Count(days[d], n) /\ excess'[d] = excess[d]
        BY <1>0, <1>d, <2>1, <2>5 DEF Typed
      <4>2. days[d] \in Counts /\ n \in Nat
        BY <1>0, <2>1 DEF Typed
      <4>3. /\ Count(days[d], n).requests = days[d].requests + 1
            /\ Count(days[d], n).tokens = days[d].tokens + n
        BY <4>2, CountType
      <4> QED
        BY Zenon, <4>1, <4>3
    <3> HIDE DEF S, x
    <3>6. /\ R \in Usages /\ Tokens(T) = x.tokens + Tokens(R)
          /\ Cardinality(T) = Cardinality(R) + 1
      BY <3>2, <3>3, OneLess
    <3> HIDE DEF T, R
    <3>7. S \in Usages /\ Tokens(S) <= Tokens(R) /\ Cardinality(S) <= Cardinality(R)
      BY <3>1, <3>6, Fewer
    <3>8. Tokens(S) \in Nat /\ Cardinality(S) \in Nat /\ Tokens(R) \in Nat /\ Cardinality(R) \in Nat
      BY <3>6, <3>7, UsageWeighed
    <3>9. /\ faults \in Nat /\ faults' \in Nat /\ faults <= faults'
          /\ Budget * faults \in Nat /\ Budget * faults' \in Nat
          /\ Budget * faults <= Budget * faults'
          /\ days[d].requests \in Nat /\ days[d].tokens \in Nat /\ excess[d] \in Nat
      BY <1>0, <1>z, <2>1, FaultsAllow
    <3>10. days'[d].requests + Cardinality(S) <= RPD + faults'
      BY <3>4, <3>5, <3>6, <3>7, <3>8, <3>9
    <3>11. days'[d].tokens + Tokens(S) <= TPD + excess'[d] + Budget * faults'
      BY <2>1, <3>2, <3>4, <3>5, <3>6, <3>7, <3>8, <3>9
    <3> QED
      BY Zenon, <3>10, <3>11 DEF S, Held
  <2> QED
    BY <1>y, <2>4, <2>5
<1>e. ASSUME NEW p \in Processes, NEW r \in {-1, 0}, NEW t \in Int,
             days' = [days EXCEPT ![Day(call[p].at)] = Adjust(@, r, t)],
             \/ excess' = [excess EXCEPT ![Day(call[p].at)] = @ + AtLeastZero(t)]
             \/ excess' = excess /\ t <= 0,
             \A q \in Processes \ {p} : pc'[q] = pc[q] /\ call'[q] = call[q],
             pc'[p] \notin {"granted", "added"}
      PROVE  DayHeld'
  <2> DEFINE today == Day(call[p].at)
  <2>1. today \in Days /\ days[today] \in Counts /\ days[today].requests \in Nat /\ days[today].tokens \in Nat
        /\ excess[today] \in Nat
    BY <1>0, <1>z, CallType
  <2>2. ASSUME NEW d \in Days, NEW q \in Coming(d)' PROVE q \in Coming(d) /\ call'[q] = call[q]
    BY <1>e DEF Coming
  <2>3. ASSUME NEW d \in Days
        PROVE  /\ days'[d].requests <= days[d].requests
               /\ days'[d].tokens + excess[d] <= days[d].tokens + excess'[d]
    <3>1. CASE d # today
      <4>1. days'[d] = days[d] /\ excess'[d] = excess[d]
        BY <1>0, <1>e, <3>1 DEF Typed
      <4> QED
        BY <1>z, <4>1
    <3>2. CASE d = today
      <4>1. /\ days'[today] = Adjust(days[today], r, t)
            /\ excess'[today] = excess[today] + AtLeastZero(t) \/ (excess'[today] = excess[today] /\ t <= 0)
        BY <1>0, <1>e, <2>1 DEF Typed
      <4>2. /\ days'[today].requests = AtLeastZero(days[today].requests + r)
            /\ days'[today].tokens = AtLeastZero(days[today].tokens + t)
        BY <4>1 DEF Adjust
      <4> HIDE DEF today
      <4> QED
        BY <2>1, <3>2, <4>1, <4>2 DEF AtLeastZero
    <3> QED
      BY <3>1, <3>2
  <2> QED
    BY <1>a, <1>y, <2>2, <2>3
<1>1. ASSUME NEW p \in Processes, ReadUsage(p) PROVE DayHeld'
  <2> DEFINE today == Day(call[p].at)
             recent == Recent(window, call[p].at)
             daily == days[today]
             input == call[p].input
             tokens == input + Available(recent, daily, input)
             new == Entry(p)'
  <2>1. /\ recent \in Usages /\ today \in Days
        /\ daily \in Counts /\ input \in Nat /\ call[p] \in Call
    BY <1>0, CallType, UsagesSubset DEF Recent, Typed
  <2>2. /\ UNCHANGED <<days, excess>> /\ faults' = faults /\ pc[p] = "holding"
        /\ \A q \in Processes \ {p} : pc'[q] = pc[q] /\ call'[q] = call[q]
    BY <1>0, <1>1 DEF ReadUsage, Typed
  <2>3. CASE ~Fits(recent, daily, input)
    <3>1. pc'[p] = "idle"
      BY <1>0, <1>1, <2>3 DEF ReadUsage, Typed
    <3> HIDE DEF recent
    <3> QED
      BY <1>c, <2>2, <3>1
  <2>4. CASE Fits(recent, daily, input)
    <3>1. /\ tokens \in 0..Budget /\ daily.tokens + tokens <= TPD
          /\ daily.requests < RPD
      BY <2>1, <2>4, GrantFits
    <3>2. call' = [call EXCEPT ![p].tokens = tokens] /\ pc' = [pc EXCEPT ![p] = "granted"]
      BY <1>1, <2>4 DEF ReadUsage
    <3>3. daily = days[today] /\ today = Day(call[p].at)
      OBVIOUS
    <3> HIDE DEF today, recent, daily, input, tokens
    <3>4. call'[p] = [call[p] EXCEPT !.tokens = tokens] /\ pc'[p] = "granted"
      BY <1>0, <3>2 DEF Typed
    <3>5. call'[p].tokens = tokens /\ call'[p].n = call[p].n /\ call'[p].at = call[p].at
      BY <2>1, <3>4 DEF Call
    <3>6. new = [of |-> Member(p), at |-> call[p].at, tokens |-> tokens, limit |-> tokens]
      BY <3>5 DEF Entry, Reserved, Member
    <3>7. Member(p) \in Processes \X (1..MaxCalls) /\ call[p].at \in Times
      BY <1>0, <2>2, CallType
    <3>8. tokens \in Nat
      BY <3>1, BudgetType
    <3>9. new \in Usage /\ new.tokens = tokens
      BY <3>6, <3>7, <3>8 DEF Usage
    <3>10. \A d \in Days : p \notin Coming(d) /\ Coming(d) \subseteq Busy \ {p} /\ p \in Busy
      BY <2>2 DEF Coming, Busy, Critical
    <3>11. ASSUME NEW d \in Days PROVE Coming(d)' = IF d = today THEN Coming(d) \cup {p} ELSE Coming(d)
      <4>1. Day(call'[p].at) = today
        BY <3>3, <3>5
      <4>2. \A q \in Processes \ {p} : q \in Coming(d)' <=> q \in Coming(d)
        BY <2>2 DEF Coming
      <4>3. p \in Coming(d)' <=> d = today
        BY <3>4, <4>1 DEF Coming
      <4>4. Coming(d)' \subseteq Processes /\ Coming(d) \subseteq Processes
        BY DEF Coming
      <4> QED
        BY <3>10, <4>2, <4>3, <4>4
    <3>12. ASSUME NEW d \in Days, d # today PROVE Held(d)
      <4>1. Coming(d)' = Coming(d)
        BY <3>11, <3>12
      <4>2. \A q \in Coming(d)' : q \in Coming(d) /\ call'[q] = call[q]
        BY <2>2, <3>10, <4>1 DEF Coming
      <4> QED
        BY <1>b, <2>2, <4>2
    <3>13. ASSUME NEW d \in Days, d = today PROVE Held(d)
      <4> DEFINE T == EntriesOf(Coming(d))
                 S == EntriesOf(Coming(d))'
      <4>1. S = T \cup {new}
        <5>1. Coming(d)' = Coming(d) \cup {p} /\ p \notin Coming(d)
          BY <3>10, <3>11, <3>13
        <5>2. \A q \in Coming(d) : Entry(q)' = Entry(q)
          BY <2>2, <5>1, EntrySame DEF Coming
        <5> QED
          BY <5>1, <5>2 DEF EntriesOf
      <4>2. /\ T \in Usages
            /\ Cardinality(T) \in Nat /\ Cardinality(T) <= faults
            /\ Tokens(T) \in Nat /\ Tokens(T) <= Budget * faults
        BY <1>0, <2>1, <3>10, OthersBounded
      <4> HIDE DEF S, T, new
      <4>3. /\ S \in Usages /\ Tokens(S) <= Tokens(T) + new.tokens
            /\ Cardinality(S) <= Cardinality(T) + 1
        BY <3>9, <4>1, <4>2, OneMore
      <4>4. Tokens(S) \in Nat /\ Cardinality(S) \in Nat
        BY <4>3, UsageWeighed
      <4>5. faults \in Nat /\ Budget * faults \in Nat /\ excess[d] \in Nat
        BY <1>0, <1>z, <2>1, FaultsAllow
      <4>6. daily.requests \in Nat /\ daily.tokens \in Nat
        BY <2>1 DEF Counts
      <4>7. daily.requests + Cardinality(S) <= RPD + faults
        BY <3>1, <4>2, <4>3, <4>4, <4>5, <4>6
      <4>8. daily.tokens + Tokens(S) <= TPD + excess[d] + Budget * faults
        BY <3>1, <3>8, <3>9, <4>2, <4>3, <4>4, <4>5, <4>6
      <4>9. days'[d] = daily /\ excess'[d] = excess[d]
        BY <2>2, <3>3, <3>13
      <4> QED
        BY Zenon, <2>2, <4>7, <4>8, <4>9 DEF S, Held
    <3> QED
      BY <1>y, <3>12, <3>13
  <2> QED
    BY <2>3, <2>4
<1>2. ASSUME NEW p \in Processes, CountDay(p) PROVE DayHeld'
  <2>1. /\ pc[p] = "added" /\ excess' = excess
        /\ days' = [days EXCEPT ![Day(call[p].at)] = Count(@, call[p].tokens)]
        /\ pc'[p] \notin {"granted", "added"}
        /\ \A q \in Processes \ {p} : pc'[q] = pc[q] /\ call'[q] = call[q]
    BY <1>0, <1>2 DEF CountDay, Typed
  <2> QED
    BY <1>d, <2>1
<1>3. ASSUME NEW p \in Processes, FallBack(p) PROVE DayHeld'
  <2>1. /\ pc'[p] \notin {"granted", "added"} /\ excess' = excess /\ PartlyCounted(p)
        /\ \A q \in Processes \ {p} : pc'[q] = pc[q] /\ call'[q] = call[q]
    BY <1>0, <1>3 DEF FallBack, Typed
  <2>2. CASE UNCHANGED days
    BY <1>c, <2>1, <2>2
  <2>3. CASE ~UNCHANGED days
    BY <1>d, <2>1, <2>3 DEF PartlyCounted
  <2> QED
    BY <2>2, <2>3
<1>4. ASSUME NEW p \in Processes, SettleDay(p) PROVE DayHeld'
  <2> DEFINE t == call[p].used - call[p].tokens
  <2>1. /\ days' = [days EXCEPT ![Day(call[p].at)] = Adjust(@, 0, t)]
        /\ excess' = [excess EXCEPT ![Day(call[p].at)] = @ + AtLeastZero(t)]
        /\ \A q \in Processes \ {p} : pc'[q] = pc[q] /\ call'[q] = call[q]
        /\ pc'[p] \notin {"granted", "added"}
    BY <1>0, <1>4 DEF SettleDay, Typed
  <2>2. t \in Int /\ 0 \in {-1, 0}
    BY <1>0, CallType
  <2> HIDE DEF t
  <2> QED
    BY <1>e, <2>1, <2>2
<1>5. ASSUME NEW p \in Processes, ReleaseDay(p) \/ RedisFails(p) PROVE DayHeld'
  <2> DEFINE given == -call[p].tokens
  <2>1. /\ excess' = excess
        /\ \A q \in Processes \ {p} : pc'[q] = pc[q] /\ call'[q] = call[q]
        /\ pc'[p] \notin {"granted", "added"}
        /\ \/ UNCHANGED days
           \/ days' = [days EXCEPT ![Day(call[p].at)] = Adjust(@, -1, given)]
           \/ days' = [days EXCEPT ![Day(call[p].at)] = Adjust(@, -1, 0)]
    BY <1>0, <1>5 DEF ReleaseDay, RedisFails, Typed
  <2>2. given \in Int /\ given <= 0 /\ 0 \in Int /\ 0 <= 0 /\ -1 \in {-1, 0}
    BY <1>0, CallType
  <2> HIDE DEF given
  <2>3. CASE UNCHANGED days
    BY <1>c, <2>1, <2>3
  <2>4. CASE days' = [days EXCEPT ![Day(call[p].at)] = Adjust(@, -1, given)]
    BY <1>e, <2>1, <2>2, <2>4
  <2>5. CASE days' = [days EXCEPT ![Day(call[p].at)] = Adjust(@, -1, 0)]
    BY <1>e, <2>1, <2>2, <2>5
  <2> QED
    BY <2>1, <2>3, <2>4, <2>5
<1>6. ASSUME NEW p \in Processes,
             \/ \E input \in Inputs : Start(p, input)
             \/ Acquire(p) \/ LockTimeout(p) \/ AddEntry(p)
             \/ \E actual \in Answers(p) :
                  Settle(p, actual) \/ LeaveReserved(p, actual) \/ ReconcileInMemory(p, actual)
             \/ TakeEntry(p) \/ PutEntry(p) \/ Refuse(p) \/ GiveBack(p) \/ ReleaseInMemory(p)
      PROVE  DayHeld'
  <2>1. /\ \A q \in Processes \ {p} : pc'[q] = pc[q] /\ call'[q] = call[q]
    <3>1. Reserving(p) \/ Answered(p)
      BY <1>6 DEF Reserving, Answered
    <3> QED
      BY <1>0, <3>1, Others
  <2>2. UNCHANGED <<days, excess>>
    BY <1>6 DEF Start, Acquire, LockTimeout, AddEntry, Settle, LeaveReserved,
                ReconcileInMemory, TakeEntry, PutEntry, Refuse, GiveBack, ReleaseInMemory
  <2>3. \/ pc'[p] \notin {"granted", "added"}
        \/ pc[p] = "granted" /\ call' = call
    <3>1. \/ pc[p] = "granted" /\ call' = call
          \/ \E s \in {"waiting", "holding", "idle", "settling", "taken", "put", "releasing", "released"} :
               pc' = [pc EXCEPT ![p] = s]
      BY <1>6 DEF Start, Acquire, LockTimeout, AddEntry, Settle, LeaveReserved,
                  ReconcileInMemory, TakeEntry, PutEntry, Refuse, GiveBack, ReleaseInMemory
    <3> QED
      BY <1>0, <3>1 DEF Typed
  <2> QED
    BY <1>c, <2>1, <2>2, <2>3
<1>7. CASE Tick \/ LeaseEnds \/ UNCHANGED vars
  <2>1. UNCHANGED <<days, excess>> /\ call' = call /\ pc' = pc
    BY <1>7 DEF Tick, LeaseEnds, vars
  <2>2. ASSUME NEW d \in Days, NEW q \in Coming(d)' PROVE q \in Coming(d) /\ call'[q] = call[q]
    BY <2>1 DEF Coming
  <2> QED
    BY <1>b, <1>y, <2>1, <2>2
<1> QED
  BY <1>1, <1>2, <1>3, <1>4, <1>5, <1>6, <1>7 DEF Next, Reserving, Answered

\* What a process reserved alone is held: a grant fits with what its own memory
\* has, and an answer that is counted above its reservation does not raise what
\* was reserved.
LEMMA MemoryStep == IInv /\ [Next]_vars => MemoryHeld'
<1> SUFFICES ASSUME IInv, [Next]_vars PROVE MemoryHeld'
  OBVIOUS
<1>0. /\ Typed /\ \A q \in Processes : OwnMemory(q)
      /\ \A q \in Processes : memory[q].window \in Usages /\ call[q] \in Call /\ call[q].n \in Nat
  <2>1. Typed /\ \A q \in Processes : OwnMemory(q)
    BY DEF IInv, MemoryHeld
  <2>2. \A q \in Processes : memory[q].window \in Usages
    BY <2>1 DEF Typed, Memories
  <2>3. \A q \in Processes : call[q] \in Call /\ call[q].n \in Nat
    BY <2>1, CallType
  <2> QED
    BY <2>1, <2>2, <2>3
<1>a. ASSUME NEW q \in Processes, call'[q].n = call[q].n,
             pc'[q] = "idle" \/ pc[q] # "idle", memory'[q].window \subseteq memory[q].window
      PROVE  OwnMemory(q)'
  <2> DEFINE S == memory[q].window
             T == memory'[q].window
  <2>1. /\ S \in Usages /\ T \subseteq S /\ Member(q)' = Member(q)
        /\ \A e \in S : e.of[2] <= call[q].n
        /\ pc[q] # "idle" => \A e \in S : e.of = Member(q) => e.tokens = e.limit
        /\ Tokens(Counted(S)) <= Budget /\ Cardinality(S) <= RPM
    BY <1>0, <1>a DEF OwnMemory, Member
  <2> HIDE DEF S, T
  <2>2. /\ Tokens(Counted(S)) \in Nat /\ Tokens(Counted(T)) \in Nat
        /\ Tokens(Counted(T)) <= Tokens(Counted(S))
    BY <2>1, CountedFewer
  <2>3. Cardinality(S) \in Nat /\ Cardinality(T) \in Nat /\ Cardinality(T) <= Cardinality(S)
    <3>1. T \in Usages /\ Cardinality(T) <= Cardinality(S)
      BY <2>1, Fewer
    <3> QED
      BY <2>1, <3>1, UsageWeighed
  <2>4. Tokens(Counted(T)) <= Budget /\ Cardinality(T) <= RPM
    BY <2>1, <2>2, <2>3, BudgetType
  <2>5. /\ \A e \in T : e.of[2] <= call'[q].n
        /\ pc'[q] # "idle" => \A e \in T : e.of = Member(q)' => e.tokens = e.limit
    BY <1>a, <2>1
  <2> QED
    BY <2>4, <2>5 DEF OwnMemory, T
<1>b. ASSUME NEW q \in Processes, pc'[q] = pc[q], call'[q] = call[q], memory'[q] = memory[q]
      PROVE  OwnMemory(q)'
  BY <1>a, <1>b
<1>c. ASSUME NEW p \in Processes, Reserving(p) \/ Answered(p), OwnMemory(p)' PROVE MemoryHeld'
  BY <1>0, <1>b, <1>c, Others DEF MemoryHeld
<1>1. ASSUME NEW p \in Processes, NEW input \in Inputs, Start(p, input) PROVE OwnMemory(p)'
  <2>1. memory'[p] = memory[p] /\ call'[p].n = call[p].n + 1
    <3>1. call'[p] = [NoCall EXCEPT !.n = call[p].n + 1, !.at = clock, !.input = input]
      BY <1>0, <1>1 DEF Start, Typed
    <3>2. call'[p].n = call[p].n + 1
      BY <3>1 DEF NoCall
    <3> QED
      BY <1>1, <3>2 DEF Start
  <2>2. \A e \in memory[p].window : e.of[2] \in Nat /\ e.of[2] <= call[p].n
    <3>1. \A e \in memory[p].window : e \in Usage
      BY <1>0 DEF Usages
    <3>2. \A e \in memory[p].window : e.of \in Processes \X (1..MaxCalls)
      BY <3>1 DEF Usage
    <3> QED
      BY <1>0, <3>2 DEF OwnMemory
  <2>3. Member(p)'[2] = call[p].n + 1
    BY <2>1 DEF Member
  <2>4. \A e \in memory[p].window : e.of[2] <= call'[p].n /\ e.of # Member(p)'
    BY <1>0, <2>1, <2>2, <2>3
  <2> QED
    BY <1>0, <2>1, <2>4 DEF OwnMemory
<1>2. ASSUME NEW p \in Processes,
             Acquire(p) \/ LockTimeout(p) \/ ReadUsage(p) \/ AddEntry(p) \/ CountDay(p)
      PROVE  OwnMemory(p)'
  <2>1. memory' = memory /\ pc[p] # "idle" /\ call'[p].n = call[p].n
    BY <1>0, <1>2 DEF Acquire, LockTimeout, ReadUsage, AddEntry, CountDay, Typed, Call
  <2> QED
    BY <1>a, <2>1
<1>3. ASSUME NEW p \in Processes, FallBack(p) PROVE OwnMemory(p)'
  <2> DEFINE mine == memory[p]
             recent == Recent(mine.window, clock)
             d == Day(clock)
             input == call[p].input
             tokens == input + Available(recent, mine.days[d], input)
             new == Reserved(p, clock, tokens)
             own == [window |-> recent \cup {new},
                     days |-> [mine.days EXCEPT ![d] = Count(mine.days[d], tokens)]]
  <2>1. mine \in Memories /\ d \in Days /\ input \in Nat /\ call[p] \in Call /\ clock \in Times
    BY <1>0, CallType DEF Typed
  <2>2. recent \in Usages /\ mine.days[d] \in Counts /\ recent \subseteq mine.window
    BY <2>1, UsagesSubset DEF Recent, Memories
  <2>3. pc[p] # "idle"
    BY <1>3 DEF FallBack
  <2>4. CASE ~Fits(recent, mine.days[d], input)
    <3>1. call' = call /\ memory' = [memory EXCEPT ![p].window = recent]
      BY <1>3, <2>4 DEF FallBack
    <3> HIDE DEF recent
    <3>2. memory'[p].window = recent
      BY <1>0, <3>1 DEF Typed, Memories
    <3> QED
      BY <1>a, <2>2, <2>3, <3>1, <3>2
  <2>5. CASE Fits(recent, mine.days[d], input)
    <3>1. tokens \in 0..Budget /\ tokens \in Nat /\ Tokens(recent) + tokens <= Budget
          /\ Cardinality(recent) < RPM
      BY <2>1, <2>2, <2>5, GrantFits, BudgetType
    <3>2. /\ memory' = [memory EXCEPT ![p] = own]
          /\ call' = [call EXCEPT ![p].at = clock, ![p].tokens = tokens, ![p].in = "memory"]
      BY <1>3, <2>5 DEF FallBack
    <3>3. Member(p) \in Processes \X (1..MaxCalls) /\ Member(p)[2] = call[p].n
      BY <1>0, <2>3, CallType DEF Member
    <3>4. /\ \A e \in recent : e.of[2] <= call[p].n
          /\ \A e \in recent : e.of = Member(p) => e.tokens = e.limit
      BY <1>0, <2>2, <2>3 DEF OwnMemory
    <3> HIDE DEF tokens, mine, recent, input, d
    <3>5. new \in Usage /\ new.of = Member(p) /\ new.tokens = tokens /\ new.limit = tokens
      BY <2>1, <3>1, <3>3 DEF Usage, Reserved
    <3>6. memory'[p].window = recent \cup {new}
      <4>1. memory'[p] = own
        BY <1>0, <3>2 DEF Typed
      <4> HIDE DEF new
      <4> QED
        BY <4>1
    <3>7. call'[p].n = call[p].n
      <4>1. call'[p] = [call[p] EXCEPT !.at = clock, !.tokens = tokens, !.in = "memory"]
        BY <1>0, <3>2 DEF Typed
      <4> QED
        BY <2>1, <4>1 DEF Call
    <3> DEFINE T == recent \cup {new}
    <3> HIDE DEF new
    <3>8. T \in Usages /\ Tokens(T) <= Tokens(recent) + tokens /\ Cardinality(T) <= Cardinality(recent) + 1
      BY <2>2, <3>5, OneMore
    <3>9. /\ \A e \in T : e.of[2] <= call'[p].n
          /\ \A e \in T : e.of = Member(p)' => e.tokens = e.limit
      <4>1. Member(p)' = Member(p)
        BY <3>7 DEF Member
      <4>2. call[p].n <= call[p].n
        BY <1>0
      <4> QED
        BY <3>3, <3>4, <3>5, <3>7, <4>1, <4>2
    <3> HIDE DEF T
    <3>10. Tokens(Counted(T)) <= Budget /\ Cardinality(T) <= RPM
      <4>1. /\ Tokens(Counted(T)) \in Nat /\ Tokens(Counted(T)) <= Tokens(T)
            /\ Tokens(T) \in Nat /\ Cardinality(T) \in Nat
            /\ Tokens(recent) \in Nat /\ Cardinality(recent) \in Nat
        BY <2>2, <3>8, CountedType, UsageWeighed
      <4> QED
        BY <3>1, <3>8, <4>1, BudgetType
    <3>11. memory'[p].window = T
      BY <3>6 DEF T
    <3> QED
      BY <3>9, <3>10, <3>11 DEF OwnMemory
  <2> QED
    BY <2>4, <2>5
<1>4. ASSUME NEW p \in Processes, NEW actual \in Answers(p), ReconcileInMemory(p, actual)
      PROVE  OwnMemory(p)'
  <2> DEFINE S == memory[p].window
             m == Member(p)
             T == Replace(S, m, actual)
  <2>1. call' = call /\ pc'[p] = "idle" /\ pc[p] = "calling" /\ memory'[p].window = T
    BY <1>0, <1>4 DEF ReconcileInMemory, Typed, Memories
  <2>2. actual \in Nat
    BY <1>0, AnswersType
  <2>3. /\ S \in Usages /\ \A e \in S : e.of = m => e.tokens = e.limit
        /\ \A e \in S : e.of[2] <= call[p].n
        /\ Tokens(Counted(S)) <= Budget /\ Cardinality(S) <= RPM
    BY <1>0, <2>1 DEF OwnMemory
  <2>4. \A e \in T : e.of[2] <= call[p].n
    <3>1. \A e \in S : e \in Usage
      BY <2>3 DEF Usages
    <3>2. \A e \in S : [e EXCEPT !.tokens = actual].of = e.of
      BY <3>1 DEF Usage
    <3> QED
      BY <2>3, <3>2 DEF Replace
  <2> HIDE DEF S, m, T
  <2>5. /\ T \in Usages /\ Cardinality(T) <= Cardinality(S)
        /\ Tokens(Counted(T)) <= Tokens(Counted(S))
    BY <2>2, <2>3, ReplacedCounts DEF T
  <2>6. /\ Tokens(Counted(S)) \in Nat /\ Tokens(Counted(T)) \in Nat
        /\ Cardinality(S) \in Nat /\ Cardinality(T) \in Nat
    BY <2>3, <2>5, CountedType, UsageWeighed
  <2>7. Tokens(Counted(T)) <= Budget /\ Cardinality(T) <= RPM
    BY <2>3, <2>5, <2>6, BudgetType
  <2> QED
    BY <2>1, <2>4, <2>7 DEF OwnMemory
<1>5. ASSUME NEW p \in Processes, ReleaseInMemory(p) PROVE OwnMemory(p)'
  <2>1. call' = call /\ pc'[p] = "idle" /\ memory'[p].window = Without(memory[p].window, Member(p))
    BY <1>0, <1>5 DEF ReleaseInMemory, Typed, Memories
  <2>2. memory'[p].window \subseteq memory[p].window
    BY <2>1 DEF Without
  <2> QED
    BY <1>a, <2>1, <2>2
<1>6. ASSUME NEW p \in Processes, NEW actual \in Answers(p),
             Settle(p, actual) \/ LeaveReserved(p, actual)
      PROVE  OwnMemory(p)'
  <2>1. memory' = memory /\ pc[p] # "idle" /\ call'[p].n = call[p].n
    BY <1>0, <1>6 DEF Settle, LeaveReserved, Typed, Call
  <2> QED
    BY <1>a, <2>1
<1>7. ASSUME NEW p \in Processes,
             \/ TakeEntry(p) \/ PutEntry(p) \/ SettleDay(p) \/ Refuse(p)
             \/ GiveBack(p) \/ ReleaseDay(p) \/ RedisFails(p)
      PROVE  OwnMemory(p)'
  <2>1. memory' = memory /\ call' = call /\ pc[p] # "idle"
    BY <1>7 DEF TakeEntry, PutEntry, SettleDay, Refuse, GiveBack, ReleaseDay, RedisFails
  <2> QED
    BY <1>a, <2>1
<1>8. CASE Tick \/ LeaseEnds \/ UNCHANGED vars
  <2>1. memory' = memory /\ call' = call /\ pc' = pc
    BY <1>8 DEF Tick, LeaseEnds, vars
  <2> QED
    BY <1>b, <2>1 DEF MemoryHeld
<1>9. ASSUME NEW p \in Processes, Reserving(p) \/ Answered(p) PROVE OwnMemory(p)'
  <2>1. CASE Reserving(p)
    BY <1>1, <1>2, <1>3, <2>1 DEF Reserving
  <2>2. CASE Answered(p)
    BY <1>4, <1>5, <1>6, <1>7, <2>2 DEF Answered
  <2> QED
    BY <1>9, <2>1, <2>2
<1> QED
  BY <1>8, <1>9, <1>c DEF Next

\* The day covers the ledger: what is settled or given back is corrected on the day
\* it was reserved, by what the ledger holds of it, and what is not corrected for
\* a failure leaves the day's counters where they were.
LEMMA DayCoveredStep == IInv /\ [Next]_vars => DayCovered'
<1> SUFFICES ASSUME IInv, [Next]_vars PROVE DayCovered'
  OBVIOUS
<1> DEFINE Covers(d) == /\ days'[d].requests >= Cardinality(OfDay(d)')
                        /\ days'[d].tokens >= Tokens(OfDay(d)')
<1>0. /\ Typed /\ Typed' /\ Entries
      /\ \A e, f \in ledger : e.of = f.of => e = f
      /\ \A d \in Days : days[d].requests >= Cardinality(OfDay(d)) /\ days[d].tokens >= Tokens(OfDay(d))
  <2>1. Typed /\ Typed' /\ Entries /\ DayCovered
    BY TypedStep DEF IInv
  <2> QED
    BY <2>1 DEF DayCovered, Entries, Made
<1>y. (\A d \in Days : Covers(d)) => DayCovered'
  BY DEF DayCovered
<1>z. ASSUME NEW d \in Days
      PROVE  /\ OfDay(d) \in Usages /\ Tokens(OfDay(d)) \in Nat /\ Cardinality(OfDay(d)) \in Nat
             /\ days[d] \in Counts /\ days[d].requests \in Nat /\ days[d].tokens \in Nat
             /\ days'[d].requests \in Nat /\ days'[d].tokens \in Nat
             /\ days[d].requests >= Cardinality(OfDay(d)) /\ days[d].tokens >= Tokens(OfDay(d))
  <2>1. OfDay(d) \in Usages
    <3>1. OfDay(d) \subseteq ledger
      BY DEF OfDay
    <3> QED
      BY <1>0, <3>1, UsagesSubset DEF Typed
  <2>2. days[d] \in Counts /\ days'[d] \in Counts
    BY <1>0 DEF Typed
  <2> QED
    BY <1>0, <2>1, <2>2, UsageWeighed DEF Counts
<1>a. ASSUME NEW d \in Days, OfDay(d)' \subseteq OfDay(d),
             days'[d].requests >= days[d].requests, days'[d].tokens >= days[d].tokens
      PROVE  Covers(d)
  <2> DEFINE S == OfDay(d)
             T == OfDay(d)'
  <2>1. S \in Usages /\ Tokens(S) \in Nat /\ Cardinality(S) \in Nat
    BY <1>z
  <2>2. T \subseteq S
    BY <1>a
  <2>3. days[d].requests >= Cardinality(S) /\ days[d].tokens >= Tokens(S)
    BY <1>0
  <2> HIDE DEF S, T
  <2>4. T \in Usages /\ Tokens(T) <= Tokens(S) /\ Cardinality(T) <= Cardinality(S)
    BY <2>1, <2>2, Fewer
  <2>5. Tokens(T) \in Nat /\ Cardinality(T) \in Nat
    BY <2>4, UsageWeighed
  <2>6. days'[d].requests >= Cardinality(T) /\ days'[d].tokens >= Tokens(T)
    BY <1>a, <1>z, <2>1, <2>3, <2>4, <2>5
  <2> QED
    BY <2>6 DEF T
<1> HIDE DEF Covers
<1>b. ASSUME ledger' \subseteq ledger, UNCHANGED days PROVE DayCovered'
  <2>1. ASSUME NEW d \in Days
        PROVE  /\ OfDay(d)' \subseteq OfDay(d)
               /\ days'[d].requests >= days[d].requests /\ days'[d].tokens >= days[d].tokens
    <3>1. OfDay(d)' \subseteq OfDay(d)
      BY <1>b DEF OfDay
    <3>2. days'[d].requests = days[d].requests /\ days'[d].tokens = days[d].tokens
      BY <1>b
    <3>3. days[d].requests \in Nat /\ days[d].tokens \in Nat
      BY <1>z
    <3> QED
      BY <3>1, <3>2, <3>3
  <2> QED
    BY <1>a, <1>y, <2>1
<1>c. ASSUME NEW x \in ledger, NEW y \in Usage, y.at = x.at, ledger' = (ledger \ {x}) \cup {y},
             NEW t \in Int, t = y.tokens - x.tokens,
             \/ days' = [days EXCEPT ![Day(x.at)] = Adjust(@, 0, t)]
             \/ days' = days /\ t = 0
      PROVE  DayCovered'
  <2> DEFINE today == Day(x.at)
  <2>1. ASSUME NEW d \in Days, d # today PROVE Covers(d)
    <3>1. days'[d] = days[d]
      BY <1>0, <1>c, <2>1 DEF Typed
    <3>2. OfDay(d)' \subseteq OfDay(d)
      BY <1>c, <2>1 DEF OfDay
    <3> QED
      BY <1>a, <1>z, <3>1, <3>2
  <2>2. ASSUME NEW d \in Days, d = today PROVE Covers(d)
    <3> DEFINE S == OfDay(d)
               T == OfDay(d)'
    <3>1. x \in S /\ T = (S \ {x}) \cup {y}
      BY <1>c, <2>2 DEF OfDay
    <3>2. /\ S \in Usages /\ Tokens(S) \in Nat /\ Cardinality(S) \in Nat
          /\ days[d].requests >= Cardinality(S) /\ days[d].tokens >= Tokens(S)
          /\ days[d] \in Counts /\ days[d].requests \in Nat /\ days[d].tokens \in Nat
      BY <1>z
    <3>3. /\ days'[d].requests = days[d].requests
          /\ days'[d].tokens = AtLeastZero(days[d].tokens + t)
      <4>1. CASE days' = [days EXCEPT ![today] = Adjust(@, 0, t)]
        <5>1. days'[d] = Adjust(days[d], 0, t)
          BY <1>0, <2>2, <4>1 DEF Typed
        <5>2. /\ Adjust(days[d], 0, t).requests = AtLeastZero(days[d].requests + 0)
              /\ Adjust(days[d], 0, t).tokens = AtLeastZero(days[d].tokens + t)
          BY <3>2, AdjustType
        <5>3. AtLeastZero(days[d].requests + 0) = days[d].requests
          BY <3>2 DEF AtLeastZero
        <5> QED
          BY Zenon, <5>1, <5>2, <5>3
      <4>2. CASE days' = days /\ t = 0
        BY <3>2, <4>2 DEF AtLeastZero
      <4> QED
        BY <1>c, <4>1, <4>2
    <3> HIDE DEF S, T
    <3>4. /\ T \in Usages /\ Tokens(T) <= Tokens(S) - x.tokens + y.tokens
          /\ Cardinality(T) <= Cardinality(S)
      BY <1>c, <3>1, <3>2, Exchange
    <3>5. /\ Tokens(T) \in Nat /\ Cardinality(T) \in Nat
          /\ x.tokens \in Nat /\ y.tokens \in Nat
      BY <1>c, <3>1, <3>2, <3>4, UsageWeighed DEF Usage
    <3>6. days'[d].requests >= Cardinality(T)
      BY <3>2, <3>3, <3>4, <3>5
    <3>7. days'[d].tokens >= Tokens(T)
      BY <1>c, <3>2, <3>3, <3>4, <3>5 DEF AtLeastZero
    <3> QED
      BY <3>6, <3>7 DEF T, Covers
  <2> QED
    BY <1>y, <2>1, <2>2
<1>d. ASSUME NEW m, NEW n \in Nat, ledger' = Used(ledger, m, n), UNCHANGED days PROVE DayCovered'
  <2>1. CASE \A e \in ledger : e.of # m
    BY <1>b, <1>d, <2>1, NothingReplaced
  <2>2. ASSUME NEW x \in ledger, x.of = m PROVE DayCovered'
    <3> DEFINE y == WithLimit(x, n)
    <3>1. \A e \in ledger : e.of = x.of => e = x
      BY <1>0
    <3>2. Used(ledger, x.of, n) = (ledger \ {x}) \cup {y}
      BY <3>1, Replaced
    <3>3. x \in Usage
      BY <1>0 DEF Typed, Usages
    <3>4. y \in Usage /\ y.at = x.at /\ y.tokens = x.tokens /\ x.tokens \in Nat
      BY <3>3, WithLimitType DEF Usage
    <3> HIDE DEF y
    <3>5. ledger' = (ledger \ {x}) \cup {y}
      BY Zenon, <1>d, <2>2, <3>2
    <3>6. 0 = y.tokens - x.tokens /\ 0 \in Int
      BY <3>4
    <3> QED
      BY <1>c, <1>d, <3>4, <3>5, <3>6
  <2> QED
    BY <2>1, <2>2
<1>1. ASSUME NEW p \in Processes, CountDay(p) PROVE DayCovered'
  <2> DEFINE today == Day(call[p].at)
  <2>1. /\ days' = [days EXCEPT ![today] = Count(@, call[p].tokens)]
        /\ ledger' \subseteq ledger \cup {Entry(p)} /\ pc[p] = "added"
    BY <1>1 DEF CountDay
  <2>2. /\ Entry(p) \in Usage /\ Entry(p).at = call[p].at /\ Entry(p).tokens = call[p].tokens
        /\ call[p].tokens \in Nat
    BY <1>0, <2>1, CallType
  <2>3. ASSUME NEW d \in Days, d # today PROVE Covers(d)
    <3>1. days'[d] = days[d]
      BY <1>0, <2>1, <2>3 DEF Typed
    <3>2. OfDay(d)' \subseteq OfDay(d)
      BY <2>1, <2>2, <2>3 DEF OfDay
    <3> QED
      BY <1>a, <1>z, <3>1, <3>2
  <2>4. ASSUME NEW d \in Days, d = today PROVE Covers(d)
    <3> DEFINE S == OfDay(d)
               T == OfDay(d)'
               e == Entry(p)
    <3>1. T \subseteq S \cup {e}
      BY <2>1 DEF OfDay
    <3>2. /\ S \in Usages /\ Tokens(S) \in Nat /\ Cardinality(S) \in Nat
          /\ days[d].requests >= Cardinality(S) /\ days[d].tokens >= Tokens(S)
          /\ days[d] \in Counts /\ days[d].requests \in Nat /\ days[d].tokens \in Nat
      BY <1>z
    <3>3. /\ days'[d].requests = days[d].requests + 1
          /\ days'[d].tokens = days[d].tokens + call[p].tokens
      <4>1. days'[d] = Count(days[d], call[p].tokens)
        BY <1>0, <2>1, <2>4 DEF Typed
      <4>2. /\ Count(days[d], call[p].tokens).requests = days[d].requests + 1
            /\ Count(days[d], call[p].tokens).tokens = days[d].tokens + call[p].tokens
        BY <2>2, <3>2, CountType
      <4> QED
        BY Zenon, <4>1, <4>2
    <3> HIDE DEF S, T
    <3> DEFINE U == S \cup {e}
    <3>4. /\ U \in Usages /\ Tokens(U) <= Tokens(S) + call[p].tokens
          /\ Cardinality(U) <= Cardinality(S) + 1
      <4>1. e \in Usage /\ e.tokens = call[p].tokens
        BY <2>2
      <4> HIDE DEF e
      <4> QED
        BY <3>2, <4>1, OneMore
    <3>5. T \subseteq U
      BY <3>1
    <3> HIDE DEF U, e
    <3>6. T \in Usages /\ Tokens(T) <= Tokens(U) /\ Cardinality(T) <= Cardinality(U)
      BY <3>4, <3>5, Fewer
    <3>7. /\ Tokens(T) \in Nat /\ Cardinality(T) \in Nat
          /\ Tokens(U) \in Nat /\ Cardinality(U) \in Nat
      BY <3>4, <3>6, UsageWeighed
    <3>8. days'[d].requests >= Cardinality(T)
      BY <3>2, <3>3, <3>4, <3>6, <3>7
    <3>9. days'[d].tokens >= Tokens(T)
      BY <2>2, <3>2, <3>3, <3>4, <3>6, <3>7
    <3> QED
      BY <3>8, <3>9 DEF T, Covers
  <2> QED
    BY <1>y, <2>3, <2>4
<1>2. ASSUME NEW p \in Processes, FallBack(p) PROVE DayCovered'
  <2> DEFINE today == Day(call[p].at)
  <2>1. /\ ledger' = ledger
        /\ \/ days' = days
           \/ \E n \in {0, call[p].tokens} : days' = [days EXCEPT ![today] = Count(@, n)]
    BY <1>2 DEF FallBack, PartlyCounted
  <2>2. CASE days' = days
    BY <1>b, <2>1, <2>2
  <2>3. ASSUME NEW n \in {0, call[p].tokens}, days' = [days EXCEPT ![today] = Count(@, n)]
        PROVE  DayCovered'
    <3>1. n \in Nat
      BY <1>0, CallType
    <3>2. ASSUME NEW d \in Days
          PROVE  days'[d].requests >= days[d].requests /\ days'[d].tokens >= days[d].tokens
      <4>1. CASE d # today
        <5>1. days'[d] = days[d]
          BY <1>0, <2>3, <4>1 DEF Typed
        <5> QED
          BY <1>z, <5>1
      <4>2. CASE d = today
        <5>1. days'[d] = Count(days[d], n)
          BY <1>0, <2>3, <4>2 DEF Typed
        <5>2. /\ Count(days[d], n).requests = days[d].requests + 1
              /\ Count(days[d], n).tokens = days[d].tokens + n
          BY <1>z, <3>1, CountType
        <5>3. days'[d].requests = days[d].requests + 1 /\ days'[d].tokens = days[d].tokens + n
          BY Zenon, <5>1, <5>2
        <5> QED
          BY <1>z, <3>1, <5>3
      <4> QED
        BY <4>1, <4>2
    <3>3. ASSUME NEW d \in Days PROVE OfDay(d)' \subseteq OfDay(d)
      BY <2>1 DEF OfDay
    <3> QED
      BY <1>a, <1>y, <3>2, <3>3
  <2> QED
    BY <2>1, <2>2, <2>3
<1>3. ASSUME NEW p \in Processes, NEW actual \in Answers(p),
             Settle(p, actual) \/ LeaveReserved(p, actual)
      PROVE  DayCovered'
  <2>1. ledger' = Used(ledger, Member(p), actual) /\ UNCHANGED days /\ actual \in Nat
    BY <1>0, <1>3, AnswersType DEF Settle, LeaveReserved
  <2> QED
    BY <1>d, <2>1
<1>4. ASSUME NEW p \in Processes, pc[p] \in {"put", "released"}
      PROVE  \E x \in ledger : /\ x.of = Member(p) /\ x.at = call[p].at /\ x.tokens = call[p].tokens
                               /\ x \in Usage /\ \A e \in ledger : e.of = x.of => e = x
  <2>1. PICK x \in ledger : x.of = Member(p) /\ x.at = call[p].at /\ x.tokens = call[p].tokens
    BY <1>0, <1>4 DEF Entries, OwnEntries, Owed
  <2>2. x \in Usage /\ \A e \in ledger : e.of = x.of => e = x
    BY <1>0 DEF Typed, Usages
  <2> QED
    BY <2>1, <2>2
<1>5. ASSUME NEW p \in Processes, SettleDay(p) PROVE DayCovered'
  <2> DEFINE n == call[p].used
             t == n - call[p].tokens
  <2>1. /\ pc[p] = "put" /\ ledger' = Replace(ledger, Member(p), n)
        /\ days' = [days EXCEPT ![Day(call[p].at)] = Adjust(@, 0, t)]
    BY <1>5 DEF SettleDay
  <2>2. n \in Nat /\ call[p].tokens \in Nat
    BY <1>0, CallType
  <2>3. PICK x \in ledger :
          /\ x.of = Member(p) /\ x.at = call[p].at /\ x.tokens = call[p].tokens
          /\ x \in Usage /\ \A e \in ledger : e.of = x.of => e = x
    BY <1>4, <2>1
  <2> DEFINE y == WithTokens(x, n)
  <2>4. Replace(ledger, x.of, n) = (ledger \ {x}) \cup {y}
    BY <2>3, Replaced
  <2>5. y \in Usage /\ y.at = x.at /\ y.tokens = n
    BY <2>2, <2>3, WithTokensType
  <2>6. t \in Int /\ t = y.tokens - x.tokens
    BY <2>2, <2>3, <2>5
  <2> HIDE DEF y, n, t
  <2>7. ledger' = (ledger \ {x}) \cup {y}
    BY Zenon, <2>1, <2>3, <2>4
  <2>8. days' = [days EXCEPT ![Day(x.at)] = Adjust(@, 0, t)]
    BY <2>1, <2>3
  <2> QED
    BY <1>c, <2>5, <2>6, <2>7, <2>8
<1>6. ASSUME NEW p \in Processes, pc[p] = "released", ledger' = Without(ledger, Member(p)),
             NEW t \in Int, t = 0 \/ t = -call[p].tokens,
             days' = [days EXCEPT ![Day(call[p].at)] = Adjust(@, -1, t)]
      PROVE  DayCovered'
  <2> DEFINE today == Day(call[p].at)
  <2>1. PICK x \in ledger :
          /\ x.of = Member(p) /\ x.at = call[p].at /\ x.tokens = call[p].tokens
          /\ x \in Usage /\ \A e \in ledger : e.of = x.of => e = x
    BY <1>4, <1>6
  <2>2. ledger' = ledger \ {x} /\ call[p].tokens \in Nat
    BY <1>0, <1>6, <2>1, CallType DEF Without
  <2>3. ASSUME NEW d \in Days, d # today PROVE Covers(d)
    <3>1. days'[d] = days[d]
      BY <1>0, <1>6, <2>3 DEF Typed
    <3>2. OfDay(d)' \subseteq OfDay(d)
      BY <2>2 DEF OfDay
    <3> QED
      BY <1>a, <1>z, <3>1, <3>2
  <2>4. ASSUME NEW d \in Days, d = today PROVE Covers(d)
    <3> DEFINE S == OfDay(d)
               T == OfDay(d)'
    <3>1. T = S \ {x} /\ x \in S
      BY <2>1, <2>2, <2>4 DEF OfDay
    <3>2. /\ S \in Usages /\ Tokens(S) \in Nat /\ Cardinality(S) \in Nat
          /\ days[d].requests >= Cardinality(S) /\ days[d].tokens >= Tokens(S)
          /\ days[d] \in Counts /\ days[d].requests \in Nat /\ days[d].tokens \in Nat
      BY <1>z
    <3>3. /\ days'[d].requests = AtLeastZero(days[d].requests + (-1))
          /\ days'[d].tokens = AtLeastZero(days[d].tokens + t)
      <4>1. days'[d] = Adjust(days[d], -1, t)
        BY <1>0, <1>6, <2>4 DEF Typed
      <4>2. /\ Adjust(days[d], -1, t).requests = AtLeastZero(days[d].requests + (-1))
            /\ Adjust(days[d], -1, t).tokens = AtLeastZero(days[d].tokens + t)
        BY <3>2, <1>6, AdjustType
      <4> QED
        BY Zenon, <4>1, <4>2
    <3> HIDE DEF S, T
    <3>4. /\ T \in Usages /\ x.tokens \in Nat
          /\ Tokens(S) = x.tokens + Tokens(T) /\ Cardinality(S) = Cardinality(T) + 1
      BY <3>1, <3>2, OneLess
    <3>5. Tokens(T) \in Nat /\ Cardinality(T) \in Nat
      BY <3>4, UsageWeighed
    <3>6. days'[d].requests >= Cardinality(T)
      BY <3>2, <3>3, <3>4, <3>5 DEF AtLeastZero
    <3>7. days'[d].tokens >= Tokens(T)
      BY <1>6, <2>1, <2>2, <3>2, <3>3, <3>4, <3>5 DEF AtLeastZero
    <3> QED
      BY <3>6, <3>7 DEF T, Covers
  <2> QED
    BY <1>y, <2>3, <2>4
<1>7. ASSUME NEW p \in Processes, ReleaseDay(p) PROVE DayCovered'
  <2>1. /\ pc[p] = "released" /\ ledger' = Without(ledger, Member(p))
        /\ days' = [days EXCEPT ![Day(call[p].at)] = Adjust(@, -1, -call[p].tokens)]
    BY <1>7 DEF ReleaseDay
  <2>2. -call[p].tokens \in Int
    BY <1>0, CallType
  <2> QED
    BY <1>6, <2>1, <2>2
<1>8. ASSUME NEW p \in Processes, RedisFails(p) PROVE DayCovered'
  <2>1. CASE UNCHANGED days
    <3>1. ledger' \subseteq ledger
      BY <1>8 DEF RedisFails, Without
    <3> QED
      BY <1>b, <2>1, <3>1
  <2>2. CASE ~UNCHANGED days
    <3>1. /\ pc[p] = "released" /\ ledger' = Without(ledger, Member(p))
          /\ days' = [days EXCEPT ![Day(call[p].at)] = Adjust(@, -1, 0)]
      BY <1>8, <2>2 DEF RedisFails
    <3>2. ASSUME NEW t \in Int, t = 0 PROVE DayCovered'
      <4>1. days' = [days EXCEPT ![Day(call[p].at)] = Adjust(@, -1, t)]
        BY <3>1, <3>2
      <4> QED
        BY <1>6, <3>1, <3>2, <4>1
    <3>3. 0 \in Int
      OBVIOUS
    <3> QED
      BY <3>2, <3>3
  <2> QED
    BY <2>1, <2>2
<1>9. ASSUME NEW p \in Processes,
             \/ \E input \in Inputs : Start(p, input)
             \/ Acquire(p) \/ LockTimeout(p) \/ ReadUsage(p) \/ AddEntry(p)
             \/ TakeEntry(p) \/ PutEntry(p) \/ Refuse(p) \/ GiveBack(p)
             \/ \E actual \in Answers(p) : ReconcileInMemory(p, actual)
             \/ ReleaseInMemory(p)
      PROVE  DayCovered'
  <2>1. ledger' \subseteq ledger /\ UNCHANGED days
    BY <1>9 DEF Start, Acquire, LockTimeout, ReadUsage, AddEntry, TakeEntry, PutEntry, Refuse,
                GiveBack, ReconcileInMemory, ReleaseInMemory, Without
  <2> QED
    BY <1>b, <2>1
<1>10. CASE Tick \/ LeaseEnds \/ UNCHANGED vars
  BY <1>10, <1>b DEF Tick, LeaseEnds, vars
<1> QED
  BY <1>1, <1>2, <1>3, <1>5, <1>7, <1>8, <1>9, <1>10 DEF Next, Reserving, Answered

\* A recent call of which the window has nothing and that nobody has in hand.
Unseen(m) ==
  /\ \E e \in ledger : e.of = m /\ e.at > clock - Window
  /\ \A w \in window : w.of # m
  /\ \A q \in Processes : pc[q] \in {"taken", "released"} => Member(q) # m

\* Where window and ledger agree, these are the lost ones.
AreLost == \A m : m \in Lost <=> Unseen(m)
LEMMA LostUnseen == Agreeing => AreLost
<1> SUFFICES ASSUME Agreeing, NEW m PROVE m \in Lost <=> Unseen(m)
  BY DEF AreLost
<1>1. ASSUME m \in Lost PROVE Unseen(m)
  <2>1. PICK e \in ledger :
          /\ e.of = m /\ e.at > clock - Window
          /\ \A w \in window : ~(w.of = e.of /\ w.tokens >= Min({e.tokens, e.limit}))
          /\ \A q \in Processes : ~(pc[q] \in {"taken", "released"} /\ Member(q) = e.of)
    BY <1>1 DEF Lost, Recent
  <2>2. \A w \in window : w.of # m
    BY <2>1 DEF Agreeing
  <2> QED
    BY <2>1, <2>2 DEF Unseen
<1>2. ASSUME Unseen(m) PROVE m \in Lost
  <2>1. PICK e \in ledger : e.of = m /\ e.at > clock - Window
    BY <1>2 DEF Unseen
  <2>2. /\ \A w \in window : ~(w.of = e.of /\ w.tokens >= Min({e.tokens, e.limit}))
        /\ \A q \in Processes : ~(pc[q] \in {"taken", "released"} /\ Member(q) = e.of)
    BY <1>2, <2>1 DEF Unseen
  <2> QED
    BY <2>1, <2>2 DEF Lost, Recent
<1> QED
  BY <1>1, <1>2

\* A failure of Redis loses one call at most.
LEMMA LostGrows ==
  ASSUME Typed, MinuteCovered, Agreeing',
         faults' = faults \/ faults' = faults + 1,
         NEW m, \A n : Unseen(n)' => Unseen(n) \/ (n = m /\ faults' = faults + 1)
  PROVE  IsFiniteSet(Lost') /\ Cardinality(Lost') <= faults'
<1>1. \A n : n \in Lost' <=> Unseen(n)'
  <2>1. Agreeing' => AreLost'
    BY LostUnseen, PTL
  <2> QED
    BY <2>1 DEF AreLost
<1>2. \A n : n \in Lost <=> Unseen(n)
  BY LostUnseen DEF MinuteCovered, AreLost
<1>3. /\ IsFiniteSet(Lost) /\ Cardinality(Lost) <= faults /\ Cardinality(Lost) \in Nat
      /\ faults \in Nat
  BY FS_CardinalityType DEF MinuteCovered, Typed
<1>4. CASE faults' = faults
  <2>1. Lost' \subseteq Lost
    BY <1>1, <1>2, <1>3, <1>4
  <2>2. IsFiniteSet(Lost') /\ Cardinality(Lost') <= Cardinality(Lost)
    BY <1>3, <2>1, FS_Subset
  <2>3. Cardinality(Lost') \in Nat
    BY <2>2, FS_CardinalityType
  <2> QED
    BY <1>3, <1>4, <2>2, <2>3
<1>5. CASE faults' = faults + 1
  <2> DEFINE more == Lost \cup {m}
  <2>1. Lost' \subseteq more
    BY <1>1, <1>2
  <2>2. IsFiniteSet(more) /\ (Cardinality(more) = Cardinality(Lost) \/ Cardinality(more) = Cardinality(Lost) + 1)
    BY <1>3, FS_AddElement
  <2> HIDE DEF more
  <2>3. IsFiniteSet(Lost') /\ Cardinality(Lost') <= Cardinality(more)
    BY <2>1, <2>2, FS_Subset
  <2>4. Cardinality(Lost') \in Nat
    BY <2>3, FS_CardinalityType
  <2> QED
    BY <1>3, <1>5, <2>2, <2>3, <2>4
<1> QED
  BY <1>4, <1>5

\* The minute covers the ledger but for what faults lose: whoever reads the usage
\* drops only what is no longer recent, a settled call is written with what the
\* provider counted, and between removing and writing it is in hand.
LEMMA MinuteCoveredStep == IInv /\ [Next]_vars => MinuteCovered'
<1> SUFFICES ASSUME IInv, [Next]_vars PROVE MinuteCovered'
  OBVIOUS
<1>0. /\ Typed /\ Entries /\ MinuteCovered /\ Agreeing /\ Written
      /\ \A e, f \in ledger : e.of = f.of => e = f
      /\ ledger \in Usages /\ window \in Usages
      /\ \A e \in ledger \cup window : e \in Usage /\ e.at \in Nat
      /\ clock \in Nat
  <2>1. Typed /\ Entries /\ MinuteCovered
    BY DEF IInv
  <2>2. \A e \in ledger \cup window : e \in Usage
    BY <2>1 DEF Typed, Usages
  <2>3. \A e \in ledger \cup window : e.at \in Nat
    BY <2>2 DEF Usage, Times
  <2> QED
    BY <2>1, <2>2, <2>3 DEF MinuteCovered, Entries, Made, Typed, Times
<1>y. ASSUME NEW p \in Processes, Reserving(p) \/ Answered(p)
      PROVE  /\ \A q \in Processes \ {p} :
                  pc'[q] = pc[q] /\ Member(q)' = Member(q) /\ Entry(q)' = Entry(q)
                  /\ call'[q] = call[q]
             /\ faults' = faults \/ faults' = faults + 1
             /\ clock' = clock
  BY <1>0, <1>y, Others, EntrySame
<1>c. ASSUME NEW p \in Processes, Reserving(p) \/ Answered(p), Agreeing',
             \A e \in ledger' : e.of # Member(p) => e \in ledger,
             \A w \in window : w.of # Member(p) => w \in window' \/ w.at <= clock - Window,
             \A m : m = Member(p) /\ Unseen(m)' => Unseen(m) \/ faults' = faults + 1,
             pc'[p] = "added" => Entry(p)' \in window'
      PROVE  MinuteCovered'
  <2>1. Written'
    <3> SUFFICES ASSUME NEW q \in Processes, pc'[q] = "added"
                 PROVE  Entry(q)' \in window' \/ call'[q].at <= clock' - Window
      BY DEF Written
    <3>1. CASE q = p
      BY <1>c, <3>1
    <3>2. CASE q # p
      <4>1. pc[q] = "added" /\ Entry(q)' = Entry(q) /\ call'[q] = call[q] /\ clock' = clock
        BY <1>c, <1>y, <3>2
      <4>2. Entry(q).of # Member(p) /\ Entry(q).at = call[q].at
        <5>1. Entry(q).of = Member(q) /\ Entry(q).at = call[q].at
          BY <1>0, CallType
        <5> QED
          BY <3>2, <5>1, MembersDiffer
      <4>3. Entry(q) \in window \/ call[q].at <= clock - Window
        BY <1>0, <4>1 DEF Written
      <4> HIDE DEF Entry, Member
      <4> QED
        BY <1>c, <4>1, <4>2, <4>3
    <3> QED
      BY <3>1, <3>2
  <2>2. \A n : Unseen(n)' => Unseen(n) \/ (n = Member(p) /\ faults' = faults + 1)
    <3> SUFFICES ASSUME NEW n, Unseen(n)', n # Member(p) PROVE Unseen(n)
      BY <1>c
    <3>1. PICK e \in ledger' : e.of = n /\ e.at > clock' - Window
      BY DEF Unseen
    <3>2. e \in ledger /\ e.at > clock - Window
      BY <1>c, <1>y, <3>1
    <3>3. ASSUME NEW w \in window, w.of = n PROVE FALSE
      <4>1. w.at = e.at
        BY <1>0, <3>1, <3>2, <3>3 DEF Agreeing
      <4>2. ~(w.at <= clock - Window)
        BY <1>0, <3>2, <4>1
      <4>3. w \in window'
        BY <1>c, <3>3, <4>2
      <4> QED
        BY <3>3, <4>3 DEF Unseen
    <3>4. ASSUME NEW q \in Processes, pc[q] \in {"taken", "released"}, Member(q) = n PROVE FALSE
      <4>1. q # p
        BY <3>4
      <4>2. pc'[q] = pc[q] /\ Member(q)' = Member(q)
        BY <1>c, <1>y, <4>1
      <4>3. \A r \in Processes : pc'[r] \in {"taken", "released"} => Member(r)' # n
        BY DEF Unseen
      <4> QED
        BY <3>4, <4>2, <4>3
    <3> HIDE DEF Member
    <3> QED
      BY <3>1, <3>2, <3>3, <3>4 DEF Unseen
  <2>3. faults' = faults \/ faults' = faults + 1
    BY <1>c, <1>y
  <2>4. IsFiniteSet(Lost') /\ Cardinality(Lost') <= faults'
    <3> DEFINE m == Member(p)
    <3>1. \A n : Unseen(n)' => Unseen(n) \/ (n = m /\ faults' = faults + 1)
      BY <2>2
    <3> HIDE DEF m
    <3> QED
      BY <1>0, <1>c, <2>3, <3>1, LostGrows
  <2> QED
    BY <1>c, <2>1, <2>4 DEF MinuteCovered
\* Fewer entries agree as well.
<1>f. ASSUME window' \subseteq window, ledger' \subseteq ledger PROVE Agreeing'
  BY <1>0, <1>f DEF Agreeing
\* So does another entry in the ledger that the window covers.
<1>g. ASSUME NEW x \in ledger, NEW y, y.of = x.of, y.at = x.at, window' = window,
             ledger' = (ledger \ {x}) \cup {y},
             \A w \in window : w.of = x.of => w.tokens >= Min({y.tokens, y.limit})
      PROVE  Agreeing'
  <2> SUFFICES ASSUME NEW w \in window, NEW e \in ledger', w.of = e.of
               PROVE  w.at = e.at /\ w.tokens >= Min({e.tokens, e.limit})
    BY <1>g DEF Agreeing
  <2>1. CASE e \in ledger
    BY <1>0, <2>1 DEF Agreeing
  <2>2. CASE e = y
    <3>1. w.of = x.of /\ w.at = x.at
      BY <1>0, <1>g, <2>2 DEF Agreeing
    <3> QED
      BY <1>g, <2>2, <3>1
  <2> QED
    BY <1>g, <2>1, <2>2
\* A call is seen as long as the ledger has its entry in the same place, nothing of
\* it leaves the window and it was not in hand.
<1>h. ASSUME NEW p \in Processes, Reserving(p) \/ Answered(p), NEW m, m = Member(p), Unseen(m)',
             \A e \in ledger' : e.of = m => \E f \in ledger : f.of = m /\ f.at = e.at,
             window \subseteq window', pc[p] \notin {"taken", "released"}
      PROVE  Unseen(m)
  <2>1. PICK e \in ledger' : e.of = m /\ e.at > clock' - Window
    BY <1>h DEF Unseen
  <2>2. \E f \in ledger : f.of = m /\ f.at > clock - Window
    BY <1>h, <1>y, <2>1
  <2>3. \A w \in window : w.of # m
    BY <1>h DEF Unseen
  <2>4. ASSUME NEW q \in Processes, pc[q] \in {"taken", "released"} PROVE Member(q) # m
    <3>1. q # p
      BY <1>h, <2>4
    <3> QED
      BY <1>h, <3>1, MembersDiffer
  <2> HIDE DEF Member
  <2> QED
    BY <2>2, <2>3, <2>4 DEF Unseen
\* A call that has nothing in the ledger is not missed.
<1>i. ASSUME NEW p \in Processes, Reserving(p) \/ Answered(p), Agreeing',
             window' \subseteq window \/ window' = window \cup {Entry(p)},
             \A w \in window : w.of # Member(p) => w \in window' \/ w.at <= clock - Window,
             \A e \in ledger' : e.of # Member(p) => e \in ledger,
             \A e \in ledger' : e.of # Member(p),
             pc'[p] = "added" => Entry(p)' \in window'
      PROVE  MinuteCovered'
  <2>1. \A m : m = Member(p) => ~Unseen(m)'
    BY <1>i DEF Unseen
  <2> QED
    BY <1>c, <1>i, <2>1
<1>1. ASSUME NEW p \in Processes, NEW input \in Inputs, Start(p, input) PROVE MinuteCovered'
  <2>1. /\ window' = window /\ ledger' = ledger /\ clock' = clock /\ faults' = faults
        /\ pc[p] = "idle" /\ pc'[p] = "waiting" /\ Reserving(p)
    BY <1>0, <1>1 DEF Start, Typed, Reserving
  <2>2. Agreeing'
    BY <1>f, <2>1
  <2>3. \A n : Unseen(n)' => Unseen(n)
    <3> SUFFICES ASSUME NEW n, Unseen(n)' PROVE Unseen(n)
      OBVIOUS
    <3>1. \A q \in Processes : pc[q] \in {"taken", "released"} =>
            pc'[q] \in {"taken", "released"} /\ Member(q)' = Member(q)
      BY <1>y, <2>1
    <3> HIDE DEF Member
    <3> QED
      BY <2>1, <3>1 DEF Unseen
  <2>4. Written'
    <3>1. \A q \in Processes : pc'[q] = "added" =>
            pc[q] = "added" /\ Entry(q)' = Entry(q) /\ call'[q] = call[q]
      BY <1>y, <2>1
    <3> HIDE DEF Entry
    <3> QED
      BY <1>0, <2>1, <3>1 DEF Written
  <2>5. IsFiniteSet(Lost') /\ Cardinality(Lost') <= faults'
    <3>1. \A n : Unseen(n)' => Unseen(n) \/ (n = p /\ faults' = faults + 1)
      BY <2>3
    <3> QED
      BY <1>0, <2>1, <2>2, <3>1, LostGrows
  <2> QED
    BY <2>2, <2>4, <2>5 DEF MinuteCovered
<1>2. ASSUME NEW p \in Processes,
             Acquire(p) \/ LockTimeout(p) \/ ReadUsage(p) \/ FallBack(p)
      PROVE  MinuteCovered'
  <2>1. /\ Reserving(p) /\ ledger' = ledger /\ pc'[p] # "added"
        /\ pc[p] \in {"waiting", "holding", "granted", "added"}
        /\ window' = window \/ (window' = Recent(window, call[p].at))
    BY <1>0, <1>2 DEF Acquire, LockTimeout, ReadUsage, FallBack, Reserving, Typed
  <2>2. window' \subseteq window /\ \A w \in window : w \in window' \/ w.at <= clock - Window
    <3>1. call[p].at \in Nat /\ call[p].at <= clock
      BY <1>0, CallType
    <3>2. \A w \in window : w.at \in Nat /\ (w.at > call[p].at - Window \/ w.at <= clock - Window)
      BY <1>0, <3>1
    <3> QED
      BY <2>1, <3>2 DEF Recent
  <2>3. \A e \in ledger : e.of # Member(p)
    BY <1>0, <2>1 DEF Entries, OwnEntries
  <2>4. Agreeing'
    BY <1>f, <2>1, <2>2
  <2> QED
    BY <1>i, <2>1, <2>2, <2>3, <2>4
<1>3. ASSUME NEW p \in Processes, AddEntry(p) PROVE MinuteCovered'
  <2>1. /\ Reserving(p) /\ ledger' = ledger /\ call' = call /\ pc[p] = "granted"
        /\ window' = window \cup {Entry(p)} /\ Entry(p)' = Entry(p) /\ Entry(p).of = Member(p)
    BY <1>3 DEF AddEntry, Reserving, Entry, Reserved, Member
  <2>2. \A e \in ledger : e.of # Member(p)
    BY <1>0, <2>1 DEF Entries, OwnEntries
  <2> HIDE DEF Entry, Member
  <2>3. Agreeing'
    BY <1>0, <2>1, <2>2 DEF Agreeing
  <2> QED
    BY <1>i, <2>1, <2>2, <2>3
<1>4. ASSUME NEW p \in Processes, CountDay(p) PROVE MinuteCovered'
  <2>1. /\ Reserving(p) /\ pc[p] = "added" /\ pc'[p] # "added" /\ window' = window
        /\ ledger' = ledger \/ ledger' = ledger \cup {Entry(p)}
    BY <1>0, <1>4 DEF CountDay, Reserving, Typed
  <2>2. /\ \A e \in ledger : e.of # Member(p)
        /\ \A w \in window : w.of = Member(p) => w = Entry(p)
        /\ Entry(p).of = Member(p) /\ Entry(p).at = call[p].at
        /\ Entry(p).tokens \in Nat /\ Entry(p).limit \in Nat
    BY <1>0, <2>1, CallType DEF Entries, OwnEntries
  <2> HIDE DEF Entry, Member
  <2>3. Min({Entry(p).tokens, Entry(p).limit}) <= Entry(p).tokens
    BY <2>2, MinOf
  <2>4. Agreeing'
    <3> SUFFICES ASSUME NEW w \in window, NEW e \in ledger', w.of = e.of
                 PROVE  w.at = e.at /\ w.tokens >= Min({e.tokens, e.limit})
      BY <2>1 DEF Agreeing
    <3>1. CASE e \in ledger
      BY <1>0, <3>1 DEF Agreeing
    <3>2. CASE e = Entry(p)
      <4>1. w = Entry(p)
        BY <2>2, <3>2
      <4> QED
        BY <2>2, <2>3, <3>2, <4>1
    <3> QED
      BY <2>1, <3>1, <3>2
  <2>5. \A m : m = Member(p) => ~Unseen(m)'
    <3> SUFFICES ASSUME NEW m, m = Member(p), Unseen(m)' PROVE FALSE
      OBVIOUS
    <3>1. PICK e \in ledger' : e.of = m /\ e.at > clock' - Window
      BY DEF Unseen
    <3>2. e = Entry(p) /\ clock' = clock
      BY <1>y, <2>1, <2>2, <3>1
    <3>3. call[p].at \in Nat /\ Window \in Nat
      BY <1>0, CallType
    <3>4. Entry(p) \in window
      BY <1>0, <2>1, <2>2, <3>1, <3>2, <3>3 DEF Written
    <3> QED
      BY <2>1, <2>2, <3>4 DEF Unseen
  <2>6. \A e \in ledger' : e.of # Member(p) => e \in ledger
    BY <2>1, <2>2
  <2> QED
    BY <1>c, <2>1, <2>4, <2>5, <2>6
\* What the provider counted is written to the call's entry in the ledger.
<1>j. ASSUME NEW p \in Processes, Answered(p), NEW x \in ledger, x.of = Member(p), NEW y,
             y.of = x.of, y.at = x.at, ledger' = (ledger \ {x}) \cup {y}, window' = window,
             \A w \in window : w.of = x.of => w.tokens >= Min({y.tokens, y.limit}),
             pc[p] \notin {"taken", "released"}, pc'[p] # "added"
      PROVE  MinuteCovered'
  <2>1. Agreeing'
    BY <1>g, <1>j
  <2>2. \A m : m = Member(p) /\ Unseen(m)' => Unseen(m)
    <3> SUFFICES ASSUME NEW m, m = Member(p), Unseen(m)' PROVE Unseen(m)
      OBVIOUS
    <3>1. \A e \in ledger' : e.of = m => \E f \in ledger : f.of = m /\ f.at = e.at
      BY <1>j
    <3> QED
      BY <1>h, <1>j, <3>1
  <2>3. \A e \in ledger' : e.of # Member(p) => e \in ledger
    BY <1>j
  <2> QED
    BY <1>c, <1>j, <2>1, <2>2, <2>3
<1>5. ASSUME NEW p \in Processes, NEW actual \in Answers(p),
             Settle(p, actual) \/ LeaveReserved(p, actual)
      PROVE  MinuteCovered'
  <2>1. /\ Answered(p) /\ pc[p] = "calling" /\ window' = window
        /\ pc'[p] \notin {"added", "taken", "released"}
        /\ ledger' = Used(ledger, Member(p), actual)
    BY <1>0, <1>5 DEF Settle, LeaveReserved, Answered, Typed
  <2>2. actual \in Nat
    BY <1>0, AnswersType
  <2>3. CASE call[p].in # "redis"
    <3>1. \A e \in ledger : e.of # Member(p)
      BY <1>0, <2>1, <2>3 DEF Entries, OwnEntries
    <3>2. ledger' = ledger
      BY <2>1, <3>1, NothingReplaced
    <3>3. Agreeing'
      BY <1>f, <2>1, <3>2
    <3> QED
      BY <1>i, <2>1, <3>1, <3>2, <3>3
  <2>4. CASE call[p].in = "redis"
    <3>1. /\ Owed(p) /\ \A w \in window : w.of = Member(p) => w = Entry(p)
          /\ Entry(p).tokens = call[p].tokens
      BY <1>0, <2>1, <2>4, CallType DEF Entries, OwnEntries
    <3>2. PICK x \in ledger : x.of = Member(p) /\ x.tokens = call[p].tokens
      BY <3>1 DEF Owed
    <3> DEFINE y == WithLimit(x, actual)
    <3>3. /\ y.of = x.of /\ y.at = x.at /\ y.tokens = x.tokens /\ y.limit = actual
          /\ x.tokens \in Nat
      BY <1>0, <2>2, WithLimitType DEF Usage
    <3>4. Used(ledger, x.of, actual) = (ledger \ {x}) \cup {y}
      <4>1. \A e \in ledger : e.of = x.of => e = x
        BY <1>0
      <4> QED
        BY <4>1, Replaced
    <3> HIDE DEF y, Entry, Member
    <3>5. Min({y.tokens, y.limit}) <= y.tokens
      BY <2>2, <3>3, MinOf
    <3>6. \A w \in window : w.of = x.of => w.tokens >= Min({y.tokens, y.limit})
      BY <3>1, <3>2, <3>3, <3>5
    <3>7. ledger' = (ledger \ {x}) \cup {y}
      BY Zenon, <2>1, <3>2, <3>4
    <3> QED
      BY <1>j, <2>1, <3>2, <3>3, <3>6, <3>7
  <2> QED
    BY <2>3, <2>4
<1>6. ASSUME NEW p \in Processes, TakeEntry(p) \/ Refuse(p) PROVE MinuteCovered'
  <2>1. /\ Answered(p) /\ ledger' = ledger /\ call' = call
        /\ pc'[p] # "added" /\ pc[p] \notin {"taken", "released"}
        /\ window' = window \/ (window' = Without(window, Member(p)) /\ pc'[p] = "taken")
    BY <1>0, <1>6 DEF TakeEntry, Refuse, Answered, Typed
  <2>2. window' \subseteq window /\ \A w \in window : w.of # Member(p) => w \in window'
    BY <2>1 DEF Without
  <2>3. Agreeing'
    BY <1>f, <2>1, <2>2
  <2>4. \A m : m = Member(p) /\ Unseen(m)' => Unseen(m)
    <3> SUFFICES ASSUME NEW m, m = Member(p), Unseen(m)' PROVE Unseen(m)
      OBVIOUS
    <3>1. Member(p)' = Member(p)
      BY <2>1 DEF Member
    <3>2. pc'[p] # "taken"
      BY <3>1 DEF Unseen
    <3>3. window' = window
      BY <2>1, <3>2
    <3> QED
      BY <1>h, <2>1, <3>3
  <2> QED
    BY <1>c, <2>1, <2>2, <2>3, <2>4
<1>7. ASSUME NEW p \in Processes, PutEntry(p) PROVE MinuteCovered'
  <2> DEFINE z == [Entry(p) EXCEPT !.tokens = call[p].used]
  <2>1. /\ Answered(p) /\ ledger' = ledger /\ pc[p] = "taken" /\ pc'[p] # "added"
        /\ window' = window \cup {z}
    BY <1>0, <1>7 DEF PutEntry, Answered, Typed
  <2>2. z.of = Member(p) /\ z.at = call[p].at /\ z.tokens = call[p].used
    BY DEF Entry, Reserved
  <2>3. PICK x \in ledger : x.of = Member(p) /\ x.at = call[p].at /\ x.limit = call[p].used
    BY <1>0, <2>1 DEF Entries, OwnEntries, Owed
  <2>4. /\ \A e \in ledger : e.of = Member(p) => e = x
        /\ x.tokens \in Nat /\ x.limit \in Nat
    BY <1>0, <2>3 DEF Usage
  <2> HIDE DEF z, Member
  <2>5. Min({x.tokens, x.limit}) <= x.limit
    BY <2>4, MinOf
  <2>6. Agreeing'
    <3> SUFFICES ASSUME NEW w \in window', NEW e \in ledger, w.of = e.of
                 PROVE  w.at = e.at /\ w.tokens >= Min({e.tokens, e.limit})
      BY <2>1 DEF Agreeing
    <3>1. CASE w \in window
      BY <1>0, <3>1 DEF Agreeing
    <3>2. CASE w = z
      <4>1. e = x
        BY <2>2, <2>4, <3>2
      <4> QED
        BY <2>2, <2>3, <2>5, <3>2, <4>1
    <3> QED
      BY <2>1, <3>1, <3>2
  <2>7. \A m : m = Member(p) => ~Unseen(m)'
    BY <2>1, <2>2 DEF Unseen
  <2> QED
    BY <1>c, <2>1, <2>6, <2>7
<1>8. ASSUME NEW p \in Processes, SettleDay(p) PROVE MinuteCovered'
  <2> DEFINE n == call[p].used
  <2>1. /\ Answered(p) /\ window' = window /\ pc[p] = "put" /\ pc'[p] # "added"
        /\ ledger' = Replace(ledger, Member(p), n)
    BY <1>0, <1>8 DEF SettleDay, Answered, Typed
  <2>2. PICK x \in ledger : x.of = Member(p) /\ x.limit = n
    BY <1>0, <2>1 DEF Entries, OwnEntries, Owed
  <2>3. n \in Nat /\ \A w \in window : w.of = Member(p) => w.tokens = n
    BY <1>0, <2>1, CallType DEF Entries, OwnEntries
  <2> DEFINE y == WithTokens(x, n)
  <2>4. y.of = x.of /\ y.at = x.at /\ y.tokens = n /\ y.limit = n
    <3>1. x \in Usage /\ n \in Nat
      BY <1>0, <2>3
    <3>2. y.of = x.of /\ y.at = x.at /\ y.tokens = n /\ y.limit = x.limit
      BY Zenon, <3>1, WithTokensType
    <3> QED
      BY Zenon, <2>2, <3>2
  <2>5. Replace(ledger, x.of, n) = (ledger \ {x}) \cup {y}
    <3>1. \A e \in ledger : e.of = x.of => e = x
      BY <1>0
    <3> QED
      BY <3>1, Replaced
  <2> HIDE DEF n, y, Member
  <2>6. Min({y.tokens, y.limit}) <= n
    BY <2>3, <2>4, MinOf
  <2>7. ledger' = (ledger \ {x}) \cup {y}
    BY Zenon, <2>1, <2>2, <2>5
  <2>8. \A w \in window : w.of = x.of => w.tokens >= Min({y.tokens, y.limit})
    BY <2>2, <2>3, <2>6
  <2> QED
    BY <1>j, <2>1, <2>2, <2>4, <2>7, <2>8
<1>9. ASSUME NEW p \in Processes, GiveBack(p) PROVE MinuteCovered'
  <2>1. /\ Answered(p) /\ call' = call /\ pc'[p] # "added"
        /\ window' = Without(window, Member(p))
        /\ \/ pc'[p] = "released" /\ ledger' = ledger
           \/ ledger' = Without(ledger, Member(p))
    BY <1>0, <1>9 DEF GiveBack, Answered, Typed
  <2>2. /\ window' \subseteq window /\ ledger' \subseteq ledger
        /\ \A w \in window : w.of # Member(p) => w \in window'
    BY <2>1 DEF Without
  <2>3. \A m : m = Member(p) => ~Unseen(m)'
    <3> SUFFICES ASSUME NEW m, m = Member(p), Unseen(m)' PROVE FALSE
      OBVIOUS
    <3>1. Member(p)' = Member(p)
      BY <2>1 DEF Member
    <3>2. pc'[p] # "released" /\ \E e \in ledger' : e.of = m
      BY <3>1 DEF Unseen
    <3> QED
      BY <2>1, <3>2 DEF Without
  <2>4. Agreeing'
    BY <1>f, <2>2
  <2> QED
    BY <1>c, <2>1, <2>2, <2>3, <2>4
<1>10. ASSUME NEW p \in Processes, ReleaseDay(p) PROVE MinuteCovered'
  <2>1. /\ Answered(p) /\ pc'[p] # "added" /\ window' = window
        /\ ledger' = Without(ledger, Member(p))
    BY <1>0, <1>10 DEF ReleaseDay, Answered, Typed
  <2>2. ledger' \subseteq ledger /\ \A e \in ledger' : e.of # Member(p)
    BY <2>1 DEF Without
  <2>3. Agreeing'
    BY <1>f, <2>1, <2>2
  <2> QED
    BY <1>i, <2>1, <2>2, <2>3
<1>11. ASSUME NEW p \in Processes, RedisFails(p) PROVE MinuteCovered'
  <2>1. /\ Answered(p) /\ pc'[p] # "added" /\ window' = window /\ faults' = faults + 1
        /\ ledger' \subseteq ledger
    BY <1>0, <1>11 DEF RedisFails, Answered, Fault, Typed, Without
  <2>2. Agreeing'
    BY <1>f, <2>1
  <2> QED
    BY <1>c, <2>1, <2>2
<1>12. ASSUME NEW p \in Processes,
              \/ \E actual \in Answers(p) : ReconcileInMemory(p, actual)
              \/ ReleaseInMemory(p)
       PROVE  MinuteCovered'
  <2>1. /\ Answered(p) /\ pc[p] = "calling" /\ call[p].in = "memory"
        /\ window' = window /\ ledger' = ledger /\ pc'[p] # "added"
    BY <1>0, <1>12 DEF ReconcileInMemory, ReleaseInMemory, Answered, Typed
  <2>2. \A e \in ledger : e.of # Member(p)
    BY <1>0, <2>1 DEF Entries, OwnEntries
  <2>3. Agreeing'
    BY <1>f, <2>1
  <2> QED
    BY <1>i, <2>1, <2>2, <2>3
<1>13. CASE Tick \/ LeaseEnds \/ UNCHANGED vars
  <2>1. /\ window' = window /\ ledger' = ledger /\ call' = call /\ pc' = pc
        /\ clock' = clock \/ clock' = clock + 1
        /\ faults' = faults \/ faults' = faults + 1
    BY <1>13 DEF Tick, LeaseEnds, Fault, vars
  <2>2. Agreeing'
    BY <1>f, <2>1
  <2>3. \A q \in Processes : Member(q)' = Member(q) /\ Entry(q)' = Entry(q)
    BY <2>1, EntrySame
  <2>4. \A t \in Nat : t > clock' - Window => t > clock - Window
    BY <1>0, <2>1
  <2>5. \A q \in Processes : call[q].at \in Nat
    BY <1>0, CallType
  <2> HIDE DEF Member, Entry
  <2>6. \A n : Unseen(n)' => Unseen(n)
    BY <1>0, <2>1, <2>3, <2>4 DEF Unseen
  <2>7. Written'
    <3> SUFFICES ASSUME NEW q \in Processes, pc[q] = "added"
                 PROVE  Entry(q) \in window \/ call[q].at <= clock' - Window
      BY <2>1, <2>3 DEF Written
    <3>1. Entry(q) \in window \/ call[q].at <= clock - Window
      BY <1>0 DEF Written
    <3> QED
      BY <1>0, <2>1, <2>5, <3>1
  <2>8. IsFiniteSet(Lost') /\ Cardinality(Lost') <= faults'
    <3>1. \A n : Unseen(n)' => Unseen(n) \/ (n = 0 /\ faults' = faults + 1)
      BY <2>6
    <3> QED
      BY <1>0, <2>1, <2>2, <3>1, LostGrows
  <2> QED
    BY <2>2, <2>7, <2>8 DEF MinuteCovered
<1> QED
  BY <1>1, <1>2, <1>3, <1>4, <1>5, <1>6, <1>7, <1>8, <1>9, <1>10, <1>11, <1>12, <1>13
     DEF Next, Reserving, Answered

-----------------------------------------------------------------------------
(* The theorems *)

\* The inductive invariant holds in every state.
LEMMA Invariance == Spec => []IInv
<1>1. IInv /\ [Next]_vars => IInv'
  BY TypedStep, EntriesStep, LostLeasesStep, MinuteStep, DayStep, MemoryStep,
     DayCoveredStep, MinuteCoveredStep DEF IInv
<1> QED
  BY InitIInv, <1>1, PTL DEF Spec

\* A reservation is never more than the budget of a minute, times and counters
\* are numbers, and the lock is held by at most one process, in every state of
\* the limiter (ai_briefings/providers/groq_rate_limits.py).
THEOREM TypeCorrect == Spec => []TypeOK
<1>1. IInv => TypeOK
  <2> SUFFICES ASSUME IInv PROVE TypeOK
    OBVIOUS
  <2>1. Typed
    BY DEF IInv
  <2>2. window \subseteq Usage /\ ledger \subseteq Usage
    BY <2>1 DEF Typed, Usages
  <2>3. \A d \in Days : days[d].requests \in Nat /\ days[d].tokens \in Nat
    <3>1. \A d \in Days : days[d] \in Counts
      BY <2>1 DEF Typed
    <3> QED
      BY <3>1 DEF Counts
  <2> QED
    BY <2>1, <2>2, <2>3 DEF TypeOK, Typed
<1> QED
  BY <1>1, Invariance, PTL

\* reserve_groq_capacity never over-commits the minute, counting each call at no
\* more than what it reserved, nor the day but for what the provider counted above
\* that, for any number of worker processes, any settings and any counts of the
\* provider, but for one reservation per fault; and a process that decides alone
\* stays within the limits in what it has reserved itself
\* (groq_rate_limits.py:167-224, 242-331, 366-418).
THEOREM OverrunsBounded == Spec => []OverrunsNeedFaults
<1>1. IInv => OverrunsNeedFaults
  <2> SUFFICES ASSUME IInv PROVE OverrunsNeedFaults
    OBVIOUS
  <2>1. Typed /\ Entries /\ LostLeases /\ MinuteHeld /\ DayHeld /\ MemoryHeld
    BY DEF IInv
  <2>2. faults \in Nat /\ Budget * faults \in Nat /\ Budget * (1 + faults) \in Nat
    <3>1. faults \in Nat
      BY <2>1 DEF Typed
    <3>2. 1 + faults \in Nat
      BY <3>1
    <3> QED
      BY <3>1, <3>2, Products
  <2>3. /\ Tokens(Counted(Recent(window, clock))) <= Budget * (1 + faults)
        /\ Cardinality(Recent(window, clock)) <= RPM + faults
    <3> DEFINE S == Recent(window, clock)
    <3>1. S \subseteq Decided
      BY DEF Recent, Decided
    <3>2. Decided \in Usages
      BY <2>1, DecidedType
    <3>3. Tokens(Counted(Decided)) <= Budget * (1 + faults) /\ Cardinality(Decided) <= RPM + faults
      BY <2>1 DEF MinuteHeld
    <3> HIDE DEF S
    <3>4. /\ S \in Usages /\ Cardinality(S) <= Cardinality(Decided)
          /\ Tokens(Counted(S)) \in Nat /\ Tokens(Counted(S)) <= Tokens(Counted(Decided))
      BY <3>1, <3>2, Fewer, CountedFewer
    <3>5. Cardinality(S) \in Nat /\ Cardinality(Decided) \in Nat /\ Tokens(Counted(Decided)) \in Nat
      BY <3>2, <3>4, UsageWeighed, CountedType
    <3>6. Tokens(Counted(S)) <= Budget * (1 + faults) /\ Cardinality(S) <= RPM + faults
      BY <2>2, <3>3, <3>4, <3>5
    <3> QED
      BY Zenon, <3>6 DEF S
  <2>4. ASSUME NEW d \in Days
        PROVE  /\ days[d].requests <= RPD + faults
               /\ days[d].tokens <= TPD + excess[d] + Budget * faults
    <3> DEFINE S == EntriesOf(Coming(d))
    <3>1. S \in Usages
      BY <2>1, EntriesOfBusy DEF Coming, Busy, Critical
    <3>2. Tokens(S) \in Nat /\ Cardinality(S) \in Nat
      BY <3>1, UsageWeighed
    <3>3. /\ days[d].requests + Cardinality(S) <= RPD + faults
          /\ days[d].tokens + Tokens(S) <= TPD + excess[d] + Budget * faults
      BY <2>1 DEF DayHeld
    <3>4. days[d].requests \in Nat /\ days[d].tokens \in Nat /\ excess[d] \in Nat
      <4>1. days[d] \in Counts /\ excess[d] \in Nat
        BY <2>1 DEF Typed
      <4> QED
        BY <4>1 DEF Counts
    <3> HIDE DEF S
    <3> QED
      BY <2>2, <3>2, <3>3, <3>4
  <2>5. ASSUME NEW p \in Processes
        PROVE  LET recent == Recent(memory[p].window, clock)
               IN Tokens(Counted(recent)) <= Budget /\ Cardinality(recent) <= RPM
    <3> DEFINE S == memory[p].window
               R == Recent(S, clock)
    <3>1. R \subseteq S
      BY DEF Recent
    <3>2. S \in Usages /\ Tokens(Counted(S)) <= Budget /\ Cardinality(S) <= RPM
      BY <2>1 DEF Typed, Memories, MemoryHeld, OwnMemory
    <3> HIDE DEF S, R
    <3>3. /\ R \in Usages /\ Cardinality(R) <= Cardinality(S)
          /\ Tokens(Counted(R)) \in Nat /\ Tokens(Counted(R)) <= Tokens(Counted(S))
      BY <3>1, <3>2, Fewer, CountedFewer
    <3>4. Cardinality(R) \in Nat /\ Cardinality(S) \in Nat /\ Tokens(Counted(S)) \in Nat
      BY <3>2, <3>3, UsageWeighed, CountedType
    <3>5. Tokens(Counted(R)) <= Budget /\ Cardinality(R) <= RPM
      BY <3>2, <3>3, <3>4, BudgetType
    <3> QED
      BY Zenon, <3>5 DEF R, S
  <2> QED
    BY Zenon, <2>3, <2>4, <2>5 DEF OverrunsNeedFaults
<1> QED
  BY <1>1, Invariance, PTL

\* reconcile and release of the Redis backend leave in the day what the provider
\* counted, or what was reserved where that is less and the answer was not settled,
\* on the day it was reserved, and in the minute but for one call per failure of
\* Redis, whatever other processes do in between (groq_rate_limits.py:91-127,
\* 293-331).
THEOREM UseCovered == Spec => []CountersCoverUse
<1>1. IInv => CountersCoverUse
  <2> SUFFICES ASSUME IInv PROVE CountersCoverUse
    OBVIOUS
  <2>1. Typed /\ DayCovered /\ MinuteCovered
    BY DEF IInv
  <2>2. ASSUME NEW d \in Days
        PROVE  /\ days[d].requests >= Cardinality(OfDay(d))
               /\ days[d].tokens >= Tokens(Counted(OfDay(d)))
    <3> DEFINE S == OfDay(d)
    <3>1. S \in Usages
      <4>1. S \subseteq ledger
        BY DEF OfDay
      <4> HIDE DEF S
      <4> QED
        BY <2>1, <4>1, UsagesSubset DEF Typed
    <3>2. days[d].requests >= Cardinality(S) /\ days[d].tokens >= Tokens(S)
      BY <2>1 DEF DayCovered
    <3>3. days[d].tokens \in Nat
      <4>1. days[d] \in Counts
        BY <2>1 DEF Typed
      <4> QED
        BY <4>1 DEF Counts
    <3> HIDE DEF S
    <3>4. Tokens(S) \in Nat /\ Tokens(Counted(S)) \in Nat /\ Tokens(Counted(S)) <= Tokens(S)
      BY <3>1, UsageWeighed, CountedType
    <3>5. days[d].requests >= Cardinality(S) /\ days[d].tokens >= Tokens(Counted(S))
      BY <3>2, <3>3, <3>4
    <3> QED
      BY Zenon, <3>5 DEF S
  <2>3. Cardinality(Lost) <= faults
    BY <2>1 DEF MinuteCovered
  <2> QED
    BY Zenon, <2>2, <2>3 DEF CountersCoverUse, OfDay
<1> QED
  BY <1>1, Invariance, PTL

=============================================================================
