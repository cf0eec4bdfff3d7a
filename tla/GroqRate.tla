------------------------------ MODULE GroqRate ------------------------------
(***************************************************************************)
(* The budget that all Celery processes share before they call Groq        *)
(* (apps/ai_briefings/providers/groq_rate_limits.py): a window of recent   *)
(* reservations and two counters per day, kept in Redis behind a lock      *)
(* whose lease ends by itself, with a private copy in every process for    *)
(* when Redis fails. The time of a reservation is read before the lock is  *)
(* waited for. A process is one Celery worker process: one call at a time. *)
(*                                                                         *)
(* Tokens and times are scaled down. A step is what one or a few commands  *)
(* of Redis do; between two steps other processes run, a lease ends or     *)
(* Redis fails.                                                            *)
(***************************************************************************)
EXTENDS Integers, FiniteSets, FiniteSetsExt

CONSTANTS Processes,
          NoOne,
          RPM, RPD, TPM, TPD,          \* GROQ_RATE_LIMIT_*
          Reserve,                     \* GROQ_RATE_LIMIT_TOKEN_RESERVE
          MinOutput,                   \* GROQ_RATE_LIMIT_MIN_OUTPUT_TOKENS
          Window,                      \* GROQ_RATE_LIMIT_WINDOW_SECONDS
          Configured,                  \* the caller's ceiling of output tokens
          Inputs,                      \* bound: estimates of prompts
          Corrections,                 \* bound: the provider's counts less the reserved
          DayLength, MaxClock,         \* bounds: time
          MaxCalls,                    \* bound: calls of each process
          MaxFaults                    \* bound: faults

ASSUME NoOneAssumption == NoOne \notin Processes

\* The validation of the settings.
ASSUME SettingsAssumption ==
  /\ {RPM, RPD, TPM, TPD, Reserve, MinOutput, Window, Configured} \subseteq Nat
  /\ 1 <= RPM /\ RPM <= RPD
  /\ Reserve < TPM /\ TPM <= TPD
  /\ 1 <= MinOutput /\ MinOutput <= Configured
  /\ Inputs \subseteq Nat \ {0}
  /\ Corrections \subseteq Int

ASSUME BoundsAssumption ==
  /\ DayLength \in Nat \ {0}
  /\ MaxClock \in Nat /\ MaxCalls \in Nat /\ MaxFaults \in Nat

VARIABLES
  clock,
  lock,      \* the process whose lease on the Redis lock runs, or NoOne
  window,    \* entries of the minute in Redis
  days,      \* days[d]: requests and tokens of day d in Redis
  memory,    \* memory[p]: the same two of process p's own backend
  pc,        \* how far each process is in its call
  call,      \* of each process: its current call
  ledger,    \* history: of every answered or open call of Redis, what the day
             \* holds for it (tokens) and what the provider counted (limit)
  excess,    \* history: what the provider counted above reservations, by day
  faults

vars == <<clock, lock, window, days, memory, pc, call, ledger, excess, faults>>

Times == 0..MaxClock
Day(t) == t \div DayLength
Days == {Day(t) : t \in Times}
Budget == TPM - Reserve

\* In the sections of reserve, reconcile and release that hold the lock.
Critical == {"holding", "granted", "added", "settling", "taken", "put",
             "releasing", "released"}
States == {"idle", "waiting", "calling"} \cup Critical

\* A call: its number, the time and estimate it started with, what it reserved
\* and what it used by the count of the provider.
Call == [n : 0..MaxCalls, at : Times, input : Inputs \cup {0}, tokens : 0..Budget,
         used : Nat, in : {"none", "redis", "memory"}]

\* An entry: the tokens written for a call and, for the properties, the limit
\* they are counted to: in a window the reservation, in the ledger the use.
Usage == [of : Processes \X (1..MaxCalls), at : Times, tokens : Nat, limit : Nat]
Zero == [requests |-> 0, tokens |-> 0]
NoCall == [n |-> 0, at |-> 0, input |-> 0, tokens |-> 0, used |-> 0, in |-> "none"]
NoUsage == [window |-> {}, days |-> [d \in Days |-> Zero]]

Init ==
  /\ clock = 0
  /\ lock = NoOne
  /\ window = {}
  /\ days = [d \in Days |-> Zero]
  /\ memory = [p \in Processes |-> NoUsage]
  /\ pc = [p \in Processes |-> "idle"]
  /\ call = [p \in Processes |-> NoCall]
  /\ ledger = {}
  /\ excess = [d \in Days |-> 0]
  /\ faults = 0

Fault == faults < MaxFaults /\ faults' = faults + 1

-----------------------------------------------------------------------------
(* The arithmetic *)

Tokens(entries) == MapThenSumSet(LAMBDA e : e.tokens, entries)
Recent(entries, now) == {e \in entries : e.at > now - Window}
AtLeastZero(n) == IF n < 0 THEN 0 ELSE n

\* Bug: the larger of what minute and day allow.
AvailableGenerous(entries, daily, input) ==
  Max({Budget - Tokens(entries) - input, TPD - daily.tokens - input})

\* _available_output_tokens: the ceiling, or what minute and day still allow.
Available(entries, daily, input) ==
  Min({Configured, Budget - Tokens(entries) - input, TPD - daily.tokens - input})

Fits(entries, daily, input) ==
  /\ daily.requests < RPD
  /\ Cardinality(entries) < RPM
  /\ Available(entries, daily, input) >= MinOutput

Member(p) == <<p, call[p].n>>
Count(daily, tokens) ==
  [requests |-> daily.requests + 1, tokens |-> daily.tokens + tokens]
Adjust(daily, requests, tokens) ==
  [requests |-> AtLeastZero(daily.requests + requests),
   tokens |-> AtLeastZero(daily.tokens + tokens)]
Replace(entries, m, tokens) ==
  {IF e.of = m THEN [e EXCEPT !.tokens = tokens] ELSE e : e \in entries}
Without(entries, m) == {e \in entries : e.of # m}
Reserved(p, at, tokens) == [of |-> Member(p), at |-> at, tokens |-> tokens, limit |-> tokens]
Entry(p) == Reserved(p, call[p].at, call[p].tokens)

-----------------------------------------------------------------------------
(* reserve_groq_capacity *)

\* A prompt that could not fit an empty minute is refused before anything else.
Start(p, input) ==
  /\ pc[p] = "idle"
  /\ call[p].n < MaxCalls
  /\ Budget - input >= MinOutput
  /\ call' = [call EXCEPT ![p] = [NoCall EXCEPT !.n = call[p].n + 1, !.at = clock,
                                               !.input = input]]
  /\ pc' = [pc EXCEPT ![p] = "waiting"]
  /\ UNCHANGED <<clock, lock, window, days, memory, ledger, excess, faults>>

\* Bug: the lock is not waited for.
AcquireAnyway(p) ==
  /\ pc[p] = "waiting"
  /\ lock' = p
  /\ pc' = [pc EXCEPT ![p] = "holding"]
  /\ UNCHANGED <<clock, window, days, memory, call, ledger, excess, faults>>

Acquire(p) ==
  /\ pc[p] = "waiting"
  /\ lock = NoOne
  /\ lock' = p
  /\ pc' = [pc EXCEPT ![p] = "holding"]
  /\ UNCHANGED <<clock, window, days, memory, call, ledger, excess, faults>>

Unlock(p) == lock' = IF lock = p THEN NoOne ELSE lock

\* Redis may fail at the last command too: the lock then stays until its lease ends.
Leave(p) ==
  \/ Unlock(p) /\ UNCHANGED faults
  \/ Fault /\ UNCHANGED lock

\* LockError after a second of waiting: GroqCapacityUnavailable.
LockTimeout(p) ==
  /\ pc[p] = "waiting"
  /\ lock # NoOne
  /\ pc' = [pc EXCEPT ![p] = "idle"]
  /\ UNCHANGED <<clock, lock, window, days, memory, call, ledger, excess, faults>>

ReadUsage(p) ==
  LET recent == Recent(window, call[p].at)
      daily == days[Day(call[p].at)]
      input == call[p].input
  IN /\ pc[p] = "holding"
     /\ window' = recent
     /\ \/ /\ Fits(recent, daily, input)
           /\ call' = [call EXCEPT ![p].tokens = input + Available(recent, daily, input)]
           /\ pc' = [pc EXCEPT ![p] = "granted"]
           /\ UNCHANGED lock
        \/ /\ ~Fits(recent, daily, input)
           /\ pc' = [pc EXCEPT ![p] = "idle"]
           /\ Unlock(p)
           /\ UNCHANGED call
     /\ UNCHANGED <<clock, days, memory, ledger, excess, faults>>

AddEntry(p) ==
  /\ pc[p] = "granted"
  /\ window' = window \cup {Entry(p)}
  /\ pc' = [pc EXCEPT ![p] = "added"]
  /\ UNCHANGED <<clock, lock, days, memory, call, ledger, excess, faults>>

\* The counters of the day, and the end of the lock. Whoever lost the lease
\* meets a LockError there: the call is not made, the reservation stays.
CountDay(p) ==
  /\ pc[p] = "added"
  /\ days' = [days EXCEPT ![Day(call[p].at)] = Count(@, call[p].tokens)]
  /\ Unlock(p)
  /\ \/ /\ lock = p
        /\ pc' = [pc EXCEPT ![p] = "calling"]
        /\ call' = [call EXCEPT ![p].in = "redis"]
        /\ ledger' = ledger \cup {Entry(p)}
     \/ /\ lock # p
        /\ pc' = [pc EXCEPT ![p] = "idle"]
        /\ UNCHANGED <<call, ledger>>
  /\ UNCHANGED <<clock, window, memory, excess, faults>>

\* What Redis may have counted for the day when it fails under CountDay.
PartlyCounted(p) ==
  \/ UNCHANGED days
  \/ /\ pc[p] = "added"
     /\ \E tokens \in {0, call[p].tokens} :
          days' = [days EXCEPT ![Day(call[p].at)] = Count(@, tokens)]

\* Redis fails anywhere on the way: the process decides alone, by what it has
\* itself reserved in its memory. What was written before stays, and so may
\* the lock, until its lease ends.
FallBack(p) ==
  LET mine == memory[p]
      now == clock
      recent == Recent(mine.window, now)
      daily == mine.days[Day(now)]
      input == call[p].input
      tokens == input + Available(recent, daily, input)
  IN /\ pc[p] \in {"waiting", "holding", "granted", "added"}
     /\ Fault
     /\ Unlock(p) \/ UNCHANGED lock
     /\ PartlyCounted(p)
     /\ \/ /\ Fits(recent, daily, input)
           /\ memory' = [memory EXCEPT ![p] =
                [window |-> recent \cup {Reserved(p, now, tokens)},
                 days |-> [mine.days EXCEPT ![Day(now)] = Count(@, tokens)]]]
           /\ call' = [call EXCEPT ![p].at = now, ![p].tokens = tokens, ![p].in = "memory"]
           /\ pc' = [pc EXCEPT ![p] = "calling"]
        \/ /\ ~Fits(recent, daily, input)
           /\ memory' = [memory EXCEPT ![p].window = recent]
           /\ pc' = [pc EXCEPT ![p] = "idle"]
           /\ UNCHANGED call
     /\ UNCHANGED <<clock, window, ledger, excess>>

-----------------------------------------------------------------------------
(* The answer of the provider *)

\* The provider's own count, more or less than what was reserved, at least one.
Answers(p) == {call[p].tokens + c : c \in Corrections} \cap (Nat \ {0})

Used(entries, m, used) ==
  {IF e.of = m THEN [e EXCEPT !.limit = used] ELSE e : e \in entries}

\* reconcile takes the lock again.
Settle(p, actual) ==
  /\ pc[p] = "calling"
  /\ call[p].in = "redis"
  /\ lock = NoOne
  /\ lock' = p
  /\ call' = [call EXCEPT ![p].used = actual]
  /\ ledger' = Used(ledger, Member(p), actual)
  /\ pc' = [pc EXCEPT ![p] = "settling"]
  /\ UNCHANGED <<clock, window, days, memory, excess, faults>>

\* Its entry in the window, if that still has it, is removed and written anew.
TakeEntry(p) ==
  /\ pc[p] = "settling"
  /\ window' = Without(window, Member(p))
  /\ pc' = [pc EXCEPT ![p] = IF window' = window THEN "put" ELSE "taken"]
  /\ UNCHANGED <<clock, lock, days, memory, call, ledger, excess, faults>>

PutEntry(p) ==
  /\ pc[p] = "taken"
  /\ window' = window \cup {[Entry(p) EXCEPT !.tokens = call[p].used]}
  /\ pc' = [pc EXCEPT ![p] = "put"]
  /\ UNCHANGED <<clock, lock, days, memory, call, ledger, excess, faults>>

\* Bug: the tokens are corrected in the counters of today.
SettleToday(p) ==
  LET difference == call[p].used - call[p].tokens
  IN /\ pc[p] = "put"
     /\ days' = [days EXCEPT ![Day(clock)] = Adjust(@, 0, difference)]
     /\ ledger' = Replace(ledger, Member(p), call[p].used)
     /\ excess' = [excess EXCEPT ![Day(clock)] = @ + AtLeastZero(difference)]
     /\ Leave(p)
     /\ pc' = [pc EXCEPT ![p] = "idle"]
     /\ UNCHANGED <<clock, window, memory, call>>

\* The day's tokens are corrected up or down.
SettleDay(p) ==
  LET day == Day(call[p].at)
      difference == call[p].used - call[p].tokens
  IN /\ pc[p] = "put"
     /\ days' = [days EXCEPT ![day] = Adjust(@, 0, difference)]
     /\ ledger' = Replace(ledger, Member(p), call[p].used)
     /\ excess' = [excess EXCEPT ![day] = @ + AtLeastZero(difference)]
     /\ Leave(p)
     /\ pc' = [pc EXCEPT ![p] = "idle"]
     /\ UNCHANGED <<clock, window, memory, call>>

\* An HTTP error or a timeout: release takes the lock again.
Refuse(p) ==
  /\ pc[p] = "calling"
  /\ call[p].in = "redis"
  /\ lock = NoOne
  /\ lock' = p
  /\ pc' = [pc EXCEPT ![p] = "releasing"]
  /\ UNCHANGED <<clock, window, days, memory, call, ledger, excess, faults>>

\* It gives everything back, if the window still has the entry.
GiveBack(p) ==
  /\ pc[p] = "releasing"
  /\ window' = Without(window, Member(p))
  /\ \/ /\ window' # window
        /\ pc' = [pc EXCEPT ![p] = "released"]
        /\ UNCHANGED <<lock, ledger, faults>>
     \/ /\ window' = window
        /\ pc' = [pc EXCEPT ![p] = "idle"]
        /\ ledger' = Without(ledger, Member(p))
        /\ Leave(p)
  /\ UNCHANGED <<clock, days, memory, call, excess>>

ReleaseDay(p) ==
  /\ pc[p] = "released"
  /\ days' = [days EXCEPT ![Day(call[p].at)] = Adjust(@, -1, -call[p].tokens)]
  /\ ledger' = Without(ledger, Member(p))
  /\ Leave(p)
  /\ pc' = [pc EXCEPT ![p] = "idle"]
  /\ UNCHANGED <<clock, window, memory, call, excess>>

\* Redis fails on the way back, which is passed over: what was done stays done,
\* what was not done stays out. Of a release the request may be given back and
\* the tokens not.
RedisFails(p) ==
  /\ pc[p] \in {"settling", "taken", "put", "releasing", "released"}
  /\ Fault
  /\ Unlock(p) \/ UNCHANGED lock
  /\ \/ UNCHANGED days
     \/ /\ pc[p] = "released"
        /\ days' = [days EXCEPT ![Day(call[p].at)] = Adjust(@, -1, 0)]
  /\ ledger' = IF pc[p] \in {"releasing", "released"}
                THEN Without(ledger, Member(p)) ELSE ledger
  /\ pc' = [pc EXCEPT ![p] = "idle"]
  /\ UNCHANGED <<clock, window, memory, call, excess>>

\* An answer that cannot be read, and a lock that is busy for a second or a
\* Redis that is gone when the answer comes: the reservation stays as it was,
\* whatever the provider counted.
LeaveReserved(p, actual) ==
  /\ pc[p] = "calling"
  /\ ledger' = Used(ledger, Member(p), actual)
  /\ pc' = [pc EXCEPT ![p] = "idle"]
  /\ UNCHANGED <<clock, lock, window, days, memory, call, excess, faults>>

ReconcileInMemory(p, actual) ==
  /\ pc[p] = "calling"
  /\ call[p].in = "memory"
  /\ memory' = [memory EXCEPT ![p].window = Replace(@, Member(p), actual),
                              ![p].days[Day(call[p].at)] =
                                 Adjust(@, 0, actual - call[p].tokens)]
  /\ pc' = [pc EXCEPT ![p] = "idle"]
  /\ UNCHANGED <<clock, lock, window, days, call, ledger, excess, faults>>

ReleaseInMemory(p) ==
  /\ pc[p] = "calling"
  /\ call[p].in = "memory"
  /\ memory' = [memory EXCEPT ![p].window = Without(@, Member(p)),
                              ![p].days[Day(call[p].at)] = Adjust(@, -1, -call[p].tokens)]
  /\ pc' = [pc EXCEPT ![p] = "idle"]
  /\ UNCHANGED <<clock, lock, window, days, call, ledger, excess, faults>>

-----------------------------------------------------------------------------
(* Time *)

Tick ==
  /\ clock < MaxClock
  /\ clock' = clock + 1
  /\ UNCHANGED <<lock, window, days, memory, pc, call, ledger, excess, faults>>

\* The lease of three seconds ends: under a slow or dead process, which is a
\* fault, or of a lock that a failure of Redis left behind.
LeaseEnds ==
  /\ lock # NoOne
  /\ \/ pc[lock] \in Critical /\ Fault
     \/ pc[lock] \notin Critical /\ UNCHANGED faults
  /\ lock' = NoOne
  /\ UNCHANGED <<clock, window, days, memory, pc, call, ledger, excess>>

-----------------------------------------------------------------------------
Reserving(p) ==
  \/ \E input \in Inputs : Start(p, input)
  \/ Acquire(p)
  \/ LockTimeout(p)
  \/ ReadUsage(p)
  \/ AddEntry(p)
  \/ CountDay(p)
  \/ FallBack(p)

Answered(p) ==
  \/ \E actual \in Answers(p) :
       Settle(p, actual) \/ LeaveReserved(p, actual) \/ ReconcileInMemory(p, actual)
  \/ TakeEntry(p)
  \/ PutEntry(p)
  \/ SettleDay(p)
  \/ Refuse(p)
  \/ GiveBack(p)
  \/ ReleaseDay(p)
  \/ RedisFails(p)
  \/ ReleaseInMemory(p)

Next ==
  \/ \E p \in Processes : Reserving(p) \/ Answered(p)
  \/ Tick
  \/ LeaseEnds

Spec == Init /\ [][Next]_vars

-----------------------------------------------------------------------------
(* Properties *)

TypeOK ==
  /\ clock \in Times
  /\ lock \in Processes \cup {NoOne}
  /\ window \subseteq Usage
  /\ \A d \in Days : days[d].requests \in Nat /\ days[d].tokens \in Nat
  /\ pc \in [Processes -> States]
  /\ call \in [Processes -> Call]
  /\ ledger \subseteq Usage
  /\ excess \in [Days -> Nat]
  /\ faults \in 0..MaxFaults

\* Entries counted at no more than their limits.
Counted(entries) == {[e EXCEPT !.tokens = Min({e.tokens, e.limit})] : e \in entries}

\* The minute is never over-committed, counting each call at no more than what
\* it reserved, although a reservation carries a time older than the one it is
\* written at, and although answers are settled between the reservations of
\* others: only a lease of the lock that ended early and a failure of Redis let
\* one more reservation through each. The day exceeds its own limits by no more
\* than that and what the provider counted above reservations. A process that
\* decides alone never exceeds the limits in what it has itself reserved.
OverrunsNeedFaults ==
  /\ Tokens(Counted(Recent(window, clock))) <= Budget * (1 + faults)
  /\ Cardinality(Recent(window, clock)) <= RPM + faults
  /\ \A d \in Days : /\ days[d].requests <= RPD + faults
                     /\ days[d].tokens <= TPD + excess[d] + Budget * faults
  /\ \A p \in Processes :
       LET recent == Recent(memory[p].window, clock)
       IN Tokens(Counted(recent)) <= Budget /\ Cardinality(recent) <= RPM

\* The recent calls whose use the window does not show, although their
\* processes are not in the middle of rewriting or removing the entry.
Lost ==
  LET Shown(e) == \E w \in window : w.of = e.of /\ w.tokens >= Min({e.tokens, e.limit})
      InHand(e) == \E p \in Processes : pc[p] \in {"taken", "released"} /\ Member(p) = e.of
  IN {e.of : e \in {e \in Recent(ledger, clock) : ~Shown(e) /\ ~InHand(e)}}

\* The counters only err upwards, whatever the order of answers, the end of the
\* window or of the day between reserving and answering, lost leases and
\* failures half-way: the day's cover every settled call at what the provider
\* counted and every other at that or its reservation, whichever is less, and
\* the minute's do too, but for one call per failure of Redis.
CountersCoverUse ==
  /\ \A d \in Days :
       LET used == {e \in ledger : Day(e.at) = d}
       IN /\ days[d].requests >= Cardinality(used)
          /\ days[d].tokens >= Tokens(Counted(used))
  /\ Cardinality(Lost) <= faults
=============================================================================
