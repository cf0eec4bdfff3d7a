-------------------------- MODULE AgentStepsProofs --------------------------
(***************************************************************************)
(* For any workers, steps and faults: the steps of an agent run are        *)
(* numbered without a gap, and the run makes one proposal at most. The     *)
(* writes are not locked; what keeps a second worker out is time. A run is *)
(* put back in the queue while its worker is busy only when it is stale,   *)
(* and by then the time budget is spent: whoever takes it can only fail.   *)
(***************************************************************************)
EXTENDS AgentRunProofs, FiniteSetTheorems

\* A worker inside the loop, and one past the checks, on its way to write.
Awake(w) == pc[w] \in {"top", "call", "insert", "bump", "act"}
Writing(w) == pc[w] \in {"insert", "bump", "act"}

NoProposal == \A s \in Slot : proposal[s] = "none"
Counted == stored = 1 .. current
Ended == status \in {"completed", "expired", "stale"}

\* One worker writes; while the budget lasts nobody else is even in the loop.
OneWriter ==
    /\ \A v, w \in Worker : Writing(v) /\ Writing(w) => v = w
    /\ ~OverBudget =>
         /\ \A v, w \in Worker : Awake(v) /\ Awake(w) => v = w
         /\ status = "queued" => \A w \in Worker : ~Awake(w)

\* After the proposal comes its report and nothing else.
BeforeProposal ==
    /\ \A w \in Worker : Writing(w) /\ item[w] # "report" => NoProposal
    /\ ~OverBudget /\ (status = "queued" \/ \E w \in Worker : pc[w] \in {"top", "call"})
         => NoProposal /\ Counted

\* Where the writer is, in numbers; a verification may overtake only a report.
WriterAt ==
    \A w \in Worker :
        /\ pc[w] \in {"insert", "act"} =>
             Counted /\ cur[w] <= current /\ (item[w] # "report" => cur[w] = current)
        /\ pc[w] = "bump" => stored = 1 .. (current + 1) /\ cur[w] = current

\* A resolved run has no writer but a late report, whose number is taken.
NothingAfterEnd ==
    Ended => \A w \in Worker : Writing(w) =>
        /\ item[w] = "report" /\ pc[w] # "bump"
        /\ pc[w] = "insert" => cur[w] < current \/ cur[w] = MaxSteps

\* OneProposal without counting.
AloneProposal ==
    \A s, t \in Slot : proposal[s] # "none" /\ proposal[t] # "none" => s = t

StepInv == /\ OneWriter /\ BeforeProposal /\ WriterAt /\ NothingAfterEnd
           /\ StepsContiguous /\ AloneProposal

\* A step that neither stores nor counts, makes no proposal, lets no worker in
\* and neither ends a run nor queues one in time keeps everything.
LEMMA Quiet ==
    ASSUME RunTypeOK, StepInv,
           UNCHANGED <<current, stored>>,
           \A s \in Slot : proposal'[s] = "none" <=> proposal[s] = "none",
           OverBudget => OverBudget',
           status' = status \/ (~Ended' /\ (status' = "queued" => OverBudget')),
           \A w \in Worker : Writing(w)' => /\ pc'[w] = pc[w] /\ item'[w] = item[w]
                                            /\ cur'[w] = cur[w],
           \A w \in Worker : pc'[w] \in {"top", "call"} => pc[w] \in {"top", "call"}
    PROVE  StepInv'
<1>1. /\ \A w \in Worker : Writing(w)' => Writing(w)
      /\ \A w \in Worker : Awake(w)' => Awake(w)
  BY DEF Writing, Awake
<1>2. /\ ~OverBudget' => ~OverBudget
      /\ ~OverBudget' /\ status' = "queued" => status = "queued"
      /\ NoProposal' <=> NoProposal
      /\ Counted' <=> Counted
      /\ Ended' => Ended
  BY DEF NoProposal, Counted, Ended
<1>3. OneWriter'
  BY <1>1, <1>2 DEF StepInv, OneWriter
<1>4. BeforeProposal'
  BY <1>1, <1>2 DEF StepInv, BeforeProposal
<1>5. WriterAt'
  BY <1>2 DEF StepInv, WriterAt, Writing
<1>6. NothingAfterEnd'
  BY <1>1, <1>2 DEF StepInv, NothingAfterEnd
<1>7. StepsContiguous'
  BY DEF StepInv, StepsContiguous, Ended
<1>8. AloneProposal'
  BY DEF StepInv, AloneProposal
<1> QED
  BY <1>3, <1>4, <1>5, <1>6, <1>7, <1>8 DEF StepInv

\* Any save of the row keeps the budget as it is.
LEMMA TouchKeepsBudget == Touch => OverBudget' = OverBudget
BY DEF Touch, OverBudget

\* Resolving a proposal ends the run at a counted step, or waits for a worker
\* that has just stored the next one; only a report can still be on its way.
LEMMA VerifyKeeps ==
    ASSUME RunTypeOK, StepInv, NEW P \in [Slot -> ProposalStatus],
           \A s \in Slot : P[s] = "none" <=> proposal[s] = "none",
           ~NoProposal, ~VerificationClash(P), VerifyTerminalProposals(P),
           UNCHANGED workerVars
    PROVE  StepInv'
<1> USE DEF RunTypeOK, workerVars
<1>0. proposal' = P
  BY DEF VerifyTerminalProposals
<1>1. CASE Unresolved(P)
  <2>1. UNCHANGED <<status, current, stored, clock>>
    BY <1>1 DEF VerifyTerminalProposals
  <2> QED
    BY <1>0, <2>1, Quiet DEF OverBudget, Ended, Writing
<1>2. CASE ~Unresolved(P)
  <2>1. /\ status' = Outcome(P) /\ stored' = stored \cup {current'}
        /\ current' = IF current < MaxSteps THEN current + 1 ELSE current
        /\ OverBudget' = OverBudget
    BY <1>2, TouchKeepsBudget DEF VerifyTerminalProposals
  <2>2. status' # "queued"
    BY <2>1 DEF Outcome
  <2>3. NoProposal' <=> NoProposal
    BY <1>0 DEF NoProposal
  <2>4. Counted
    <3>1. CASE stored = 1 .. (current + 1)
      <4>1. current + 1 \in stored /\ current \in Nat
        BY <3>1
      <4>2. current + 1 \in Slot
        BY <4>1
      <4>3. current < MaxSteps
        BY <4>1, <4>2, MaxStepsAssumption DEF Slot
      <4> QED
        BY <1>2, <4>1, <4>3 DEF VerificationClash
    <3> QED
      BY <3>1 DEF StepInv, StepsContiguous, Counted
  <2>5. Counted'
    <3>1. CASE current < MaxSteps
      BY <2>1, <2>4, <3>1 DEF Counted
    <3>2. CASE ~(current < MaxSteps)
      <4>1. current \in 0 .. MaxSteps
        OBVIOUS
      <4>2. current = MaxSteps /\ current \in 1 .. current
        BY <3>2, <4>1, MaxStepsAssumption
      <4> QED
        BY <2>1, <2>4, <3>2, <4>2 DEF Counted
    <3> QED
      BY <3>1, <3>2
  <2>6. \A w \in Worker : Writing(w) =>
          item[w] = "report" /\ pc[w] # "bump" /\ cur[w] <= current
    <3> SUFFICES ASSUME NEW w \in Worker, Writing(w)
                 PROVE  item[w] = "report" /\ pc[w] # "bump" /\ cur[w] <= current
      OBVIOUS
    <3>1. item[w] = "report"
      BY DEF StepInv, BeforeProposal
    <3>2. pc[w] # "bump"
      <4>1. 1 .. (current + 1) # 1 .. current
        <5>1. current + 1 \in 1 .. (current + 1) /\ current + 1 \notin 1 .. current
          OBVIOUS
        <5> QED
          BY <5>1
      <4> QED
        BY <2>4, <4>1 DEF StepInv, WriterAt, Counted
    <3>3. cur[w] <= current
      BY <3>2 DEF StepInv, WriterAt, Writing
    <3> QED
      BY <3>1, <3>2, <3>3
  <2>7. OneWriter'
    BY <2>1, <2>2 DEF StepInv, OneWriter, Writing, Awake
  <2>8. BeforeProposal'
    BY <2>1, <2>2, <2>3, <2>6 DEF StepInv, BeforeProposal, Writing
  <2>9. WriterAt'
    <3> SUFFICES ASSUME NEW w \in Worker, Writing(w)
                 PROVE  cur[w] <= current' /\ item[w] = "report" /\ pc[w] # "bump"
      BY <2>5 DEF WriterAt, Writing
    <3> QED
      BY <2>1, <2>6
  <2>10. NothingAfterEnd'
    <3> SUFFICES ASSUME NEW w \in Worker, Writing(w)
                 PROVE  /\ item[w] = "report" /\ pc[w] # "bump"
                        /\ cur[w] < current' \/ cur[w] = MaxSteps
      BY DEF NothingAfterEnd, Writing
    <3>1. cur[w] \in 0 .. MaxSteps /\ current \in 0 .. MaxSteps
      OBVIOUS
    <3>2. CASE current < MaxSteps
      BY <2>1, <2>6, <3>1, <3>2
    <3>3. CASE ~(current < MaxSteps)
      <4>1. current' = MaxSteps
        BY <2>1, <3>1, <3>3, MaxStepsAssumption
      <4>2. cur[w] < MaxSteps \/ cur[w] = MaxSteps
        BY <3>1, MaxStepsAssumption
      <4> QED
        BY <2>6, <4>1, <4>2
    <3> QED
      BY <3>2, <3>3
  <2>11. StepsContiguous'
    BY <2>5 DEF StepsContiguous, Counted
  <2>12. AloneProposal'
    BY <1>0 DEF StepInv, AloneProposal
  <2> QED
    BY <2>7, <2>8, <2>9, <2>10, <2>11, <2>12 DEF StepInv
<1> QED
  BY <1>1, <1>2

\* The worker's own steps. The claim in time finds an empty loop, and what is
\* stored is counted; late, it leads only to failure.
LEMMA ClaimKeeps ==
    ASSUME RunTypeOK, StepInv, NEW w \in Worker, Claim(w)
    PROVE  StepInv'
<1> USE DEF RunTypeOK
<1>1. CASE status # "queued" /\ UNCHANGED <<status, failureCode, workerVars, clock>>
  BY <1>1, Quiet DEF Claim, workerVars, OverBudget, Ended, Writing
<1>2. CASE status = "queued" /\ MarkRunFailed /\ UNCHANGED workerVars
  <2>1. status' = "failed" /\ OverBudget' = OverBudget
    BY <1>2, TouchKeepsBudget DEF MarkRunFailed, TERMINAL_RUN_STATUSES
  <2> QED
    BY <1>2, <2>1, Quiet DEF Claim, workerVars, Ended, Writing
<1>3. CASE /\ status = "queued" /\ status' \in Working
           /\ clock' = IF clock = "unstarted" THEN "fresh"
                       ELSE IF clock = "stale" THEN "late" ELSE clock
           /\ GoTo(w, "top") /\ cur' = [cur EXCEPT ![w] = current]
           /\ item' = item
  <2>1. /\ UNCHANGED <<current, stored, proposal, item>> /\ OverBudget' = OverBudget
        /\ status' # "queued" /\ ~Ended'
        /\ \A v \in Worker : v # w => pc'[v] = pc[v] /\ cur'[v] = cur[v]
        /\ pc'[w] = "top"
    BY <1>3 DEF Claim, GoTo, OverBudget, Working, Ended
  <2>2. NoProposal' = NoProposal /\ Counted' = Counted
    BY <2>1 DEF NoProposal, Counted
  <2>3. \A v \in Worker : Writing(v)' => v # w /\ Writing(v)
    BY <2>1 DEF Writing
  <2>4. OneWriter'
    <3>1. ~OverBudget => \A v \in Worker : ~Awake(v)
      BY <1>3 DEF StepInv, OneWriter
    <3>2. ~OverBudget => \A v \in Worker : Awake(v)' => v = w
      BY <2>1, <3>1 DEF Awake
    <3> QED
      BY <2>1, <2>3, <3>2 DEF StepInv, OneWriter
  <2>5. BeforeProposal'
    BY <1>3, <2>1, <2>2, <2>3 DEF StepInv, BeforeProposal
  <2>6. WriterAt'
    BY <2>1, <2>2 DEF StepInv, WriterAt
  <2>7. NothingAfterEnd' /\ StepsContiguous' /\ AloneProposal'
    BY <2>1 DEF StepInv, NothingAfterEnd, StepsContiguous, AloneProposal, Ended
  <2> QED
    BY <2>4, <2>5, <2>6, <2>7 DEF StepInv
<1> QED
  BY <1>1, <1>2, <1>3 DEF Claim, Working

\* The answer of the model is taken only in time and by the one in the loop,
\* who finds no proposal and every stored step counted.
LEMMA ReturnKeeps ==
    ASSUME RunTypeOK, StepInv, NEW w \in Worker, Return(w)
    PROVE  StepInv'
<1> USE DEF RunTypeOK
<1>0. /\ pc[w] = "call" /\ UNCHANGED <<rowVars, proposal>>
      /\ \A v \in Worker : v # w =>
           pc'[v] = pc[v] /\ item'[v] = item[v] /\ cur'[v] = cur[v]
  BY DEF Return, GoTo
<1>1. CASE pc'[w] # "insert"
  <2>1. pc'[w] \in {"off", "fail"} /\ OverBudget' = OverBudget
    <3>1. CASE UNCHANGED clock
      BY <1>0, <1>1, <3>1 DEF Return, GoTo, OverBudget, Checked
    <3>2. CASE ~UNCHANGED clock
      BY <1>0, <1>1, <3>2, TouchKeepsBudget DEF Return, GoTo
    <3> QED
      BY <3>1, <3>2
  <2> QED
    BY <1>0, <2>1, Quiet DEF rowVars, Writing
<1>2. CASE pc'[w] = "insert"
  <2>1. /\ status \in Working /\ ~OverBudget /\ Touch
        /\ cur' = [cur EXCEPT ![w] = current]
    BY <1>2 DEF Return, Checked, GoTo
  <2>2. /\ UNCHANGED <<status, current, stored, proposal>> /\ ~OverBudget'
        /\ cur'[w] = current
    BY <1>0, <2>1, TouchKeepsBudget DEF rowVars
  <2>3. NoProposal /\ Counted
    BY <1>0, <2>1 DEF StepInv, BeforeProposal
  <2>4. NoProposal' /\ Counted' /\ ~Ended'
    BY <2>1, <2>2, <2>3 DEF NoProposal, Counted, Ended, Working
  <2>5. \A v \in Worker : Awake(v) => v = w
    BY <1>0, <2>1 DEF StepInv, OneWriter, Awake
  <2>6. \A v \in Worker : Awake(v)' => v = w
    BY <1>0, <2>5 DEF Awake
  <2>7. \A v \in Worker : Writing(v)' => v = w
    BY <2>6 DEF Awake, Writing
  <2>8. OneWriter'
    BY <2>1, <2>2, <2>6, <2>7 DEF OneWriter, Working
  <2>9. BeforeProposal'
    BY <2>4 DEF BeforeProposal
  <2>10. WriterAt'
    <3> SUFFICES ASSUME NEW v \in Worker, Writing(v)'
                 PROVE  v = w /\ pc'[v] = "insert" /\ Counted' /\ cur'[v] = current'
                        /\ current' \in Nat
      BY DEF WriterAt, Writing
    <3> QED
      BY <1>2, <2>2, <2>4, <2>7
  <2>11. NothingAfterEnd' /\ StepsContiguous' /\ AloneProposal'
    BY <2>2, <2>4 DEF StepInv, NothingAfterEnd, StepsContiguous, AloneProposal, Ended
  <2> QED
    BY <2>8, <2>9, <2>10, <2>11 DEF StepInv
<1> QED
  BY <1>1, <1>2

\* A worker that gives the run back in time was alone and leaves it counted.
LEMMA RequeueKeeps ==
    ASSUME RunTypeOK, StepInv, NEW w \in Worker, Requeue(w)
    PROVE  StepInv'
<1> USE DEF RunTypeOK
<1>1. /\ pc[w] = "call" /\ pc'[w] \in {"off", "fail"}
      /\ UNCHANGED <<current, stored, proposal, item, cur>>
      /\ \A v \in Worker : v # w => pc'[v] = pc[v]
  BY DEF Requeue, GoTo
<1>2. OverBudget' = OverBudget
  BY TouchKeepsBudget DEF Requeue, OverBudget
<1>3. CASE status' = status
  BY <1>1, <1>2, <1>3, Quiet DEF Writing, Ended
<1>4. CASE status' # status
  <2>1. status' = "queued" /\ ~Ended'
    BY <1>4 DEF Requeue, Ended
  <2>2. CASE OverBudget
    BY <1>1, <1>2, <2>1, <2>2, Quiet DEF Writing
  <2>3. CASE ~OverBudget
    <3>1. \A v \in Worker : Awake(v) => v = w
      BY <1>1, <2>3 DEF StepInv, OneWriter, Awake
    <3>2. \A v \in Worker : ~Awake(v)' /\ ~Writing(v)'
      BY <1>1, <3>1 DEF Awake, Writing
    <3>3. NoProposal' /\ Counted'
      <4>1. NoProposal /\ Counted
        BY <1>1, <2>3 DEF StepInv, BeforeProposal
      <4> QED
        BY <1>1, <4>1 DEF NoProposal, Counted
    <3>4. OneWriter' /\ NothingAfterEnd'
      BY <3>2 DEF OneWriter, NothingAfterEnd
    <3>5. BeforeProposal'
      BY <3>3 DEF BeforeProposal
    <3>6. WriterAt'
      BY <3>2 DEF WriterAt, Writing
    <3>7. StepsContiguous' /\ AloneProposal'
      BY <1>1, <3>3 DEF StepInv, StepsContiguous, AloneProposal, Counted
    <3> QED
      BY <3>4, <3>5, <3>6, <3>7 DEF StepInv
  <2> QED
    BY <2>2, <2>3
<1> QED
  BY <1>3, <1>4

\* The insert takes the next number only where nothing has been counted since:
\* then the run has not ended, and the number is counted by the next save.
LEMMA InsertKeeps ==
    ASSUME RunTypeOK, StepInv, NEW w \in Worker, InsertStep(w)
    PROVE  StepInv'
<1> USE DEF RunTypeOK
<1>1. /\ pc[w] = "insert"
      /\ UNCHANGED <<status, current, proposal, item, cur, clock>>
      /\ \A v \in Worker : v # w => pc'[v] = pc[v]
  BY DEF InsertStep, GoTo, timeVars
<1>2. CASE pc'[w] \in {"off", "fail"} /\ UNCHANGED stored
  BY <1>1, <1>2, Quiet DEF OverBudget, Writing, Ended
<1>3. CASE /\ pc'[w] = "bump" /\ cur[w] < MaxSteps /\ cur[w] + 1 \notin stored
           /\ stored' = stored \cup {cur[w] + 1}
  <2>1. cur[w] \in Nat /\ current \in Nat /\ Counted /\ cur[w] <= current
    BY <1>1 DEF StepInv, WriterAt
  <2>2. cur[w] = current
    BY <1>3, <2>1 DEF Counted
  <2>3. stored' = 1 .. (current + 1)
    BY <1>3, <2>1, <2>2 DEF Counted
  <2>4. ~Ended
    BY <1>1, <1>3, <2>1, <2>2 DEF StepInv, NothingAfterEnd, Writing
  <2>5. \A v \in Worker : Writing(v) => v = w
    BY <1>1 DEF StepInv, OneWriter, Writing
  <2>6. /\ \A v \in Worker : Writing(v)' => v = w
        /\ \A v \in Worker : Awake(v)' <=> Awake(v)
        /\ Writing(w)
    BY <1>1, <1>3, <2>5 DEF Writing, Awake
  <2>7. OneWriter'
    BY <1>1, <2>6 DEF StepInv, OneWriter, OverBudget
  <2>8. BeforeProposal'
    <3>1. Writing(w) /\ item[w] # "report" => NoProposal
      BY DEF StepInv, BeforeProposal
    <3>2. \A v \in Worker : Writing(v)' /\ item'[v] # "report" => NoProposal'
      BY <1>1, <2>6, <3>1 DEF NoProposal
    <3>3. ~OverBudget => status # "queued" /\ \A v \in Worker : pc[v] \notin {"top", "call"}
      BY <1>1 DEF StepInv, OneWriter, Awake
    <3>4. ~OverBudget' => status' # "queued" /\ \A v \in Worker : pc'[v] \notin {"top", "call"}
      BY <1>1, <1>3, <3>3 DEF OverBudget
    <3> QED
      BY <3>2, <3>4 DEF BeforeProposal
  <2>9. WriterAt'
    <3> SUFFICES ASSUME NEW v \in Worker, Writing(v)'
                 PROVE  /\ pc'[v] = "bump" /\ cur'[v] = current'
                        /\ stored' = 1 .. (current' + 1)
      BY DEF WriterAt, Writing
    <3> QED
      BY <1>1, <1>3, <2>2, <2>3, <2>6
  <2>10. NothingAfterEnd' /\ AloneProposal'
    BY <1>1, <2>4 DEF StepInv, NothingAfterEnd, AloneProposal, Ended
  <2>11. StepsContiguous'
    BY <1>1, <2>3, <2>4 DEF StepsContiguous, Ended
  <2> QED
    BY <2>7, <2>8, <2>9, <2>10, <2>11 DEF StepInv
<1> QED
  BY <1>2, <1>3 DEF InsertStep, GoTo

\* The save counts the stored step: nothing is left uncounted.
LEMMA BumpKeeps ==
    ASSUME RunTypeOK, StepInv, NEW w \in Worker, BumpStep(w)
    PROVE  StepInv'
<1> USE DEF RunTypeOK
<1>1. /\ pc[w] = "bump" /\ pc'[w] = "act" /\ current' = cur[w] + 1
      /\ cur' = [cur EXCEPT ![w] = cur[w] + 1]
      /\ UNCHANGED <<status, stored, proposal, item>> /\ OverBudget' = OverBudget
      /\ \A v \in Worker : v # w => pc'[v] = pc[v]
  BY TouchKeepsBudget DEF BumpStep, GoTo
<1>2. cur[w] = current /\ stored = 1 .. (current + 1) /\ current \in Nat
  BY <1>1 DEF StepInv, WriterAt
<1>3. cur'[w] = current' /\ Counted' /\ current' \in Nat
  BY <1>1, <1>2 DEF Counted
<1>4. ~Ended
  BY <1>1 DEF StepInv, NothingAfterEnd, Writing
<1>5. /\ \A v \in Worker : Writing(v)' => v = w
      /\ \A v \in Worker : Awake(v)' <=> Awake(v)
      /\ Writing(w)
  <2>1. \A v \in Worker : Writing(v) => v = w
    BY <1>1 DEF StepInv, OneWriter, Writing
  <2> QED
    BY <1>1, <2>1 DEF Writing, Awake
<1>6. OneWriter'
  BY <1>1, <1>5 DEF StepInv, OneWriter
<1>7. BeforeProposal'
  <2>1. \A v \in Worker : Writing(v)' /\ item'[v] # "report" => NoProposal'
    BY <1>1, <1>5 DEF StepInv, BeforeProposal, NoProposal
  <2>2. ~OverBudget => status # "queued" /\ \A v \in Worker : pc[v] \notin {"top", "call"}
    BY <1>1 DEF StepInv, OneWriter, Awake
  <2>3. ~OverBudget' => status' # "queued" /\ \A v \in Worker : pc'[v] \notin {"top", "call"}
    BY <1>1, <2>2
  <2> QED
    BY <2>1, <2>3 DEF BeforeProposal
<1>8. WriterAt'
  <2> SUFFICES ASSUME NEW v \in Worker, Writing(v)'
               PROVE  pc'[v] = "act" /\ Counted' /\ cur'[v] = current' /\ current' \in Nat
    BY DEF WriterAt, Writing
  <2> QED
    BY <1>1, <1>3, <1>5
<1>9. NothingAfterEnd' /\ AloneProposal'
  BY <1>1, <1>4 DEF StepInv, NothingAfterEnd, AloneProposal, Ended
<1>10. StepsContiguous'
  BY <1>3 DEF StepsContiguous, Counted
<1> QED
  BY <1>6, <1>7, <1>8, <1>9, <1>10 DEF StepInv

\* Acting on a counted step: the proposal is made where none is, by the only
\* writer, and the run is completed where every step is counted.
LEMMA ActKeeps ==
    ASSUME RunTypeOK, StepInv, StepsOwned, NEW w \in Worker, Act(w)
    PROVE  StepInv'
<1> USE DEF RunTypeOK
<1>1. /\ pc[w] = "act" /\ UNCHANGED <<current, stored, cur>>
      /\ \A v \in Worker : v # w => pc'[v] = pc[v] /\ item'[v] = item[v]
  BY DEF Act, GoTo
<1>2. OverBudget' = OverBudget
  BY TouchKeepsBudget DEF Act, SaveStatus, OverBudget
<1>3. /\ Counted /\ cur[w] <= current /\ (item[w] # "report" => cur[w] = current)
      /\ Writing(w) /\ Awake(w) /\ current \in 0 .. MaxSteps /\ cur[w] \in 0 .. MaxSteps
  BY <1>1 DEF StepInv, WriterAt, Writing, Awake
<1>4. Counted'
  BY <1>1, <1>3 DEF Counted
<1>5. \A v \in Worker : Writing(v) => v = w
  BY <1>3 DEF StepInv, OneWriter
<1>6. ~OverBudget => status # "queued" /\ \A v \in Worker : Awake(v) => v = w
  BY <1>3 DEF StepInv, OneWriter
<1>7. /\ item[w] # "report" => NoProposal
      /\ item[w] # "report" => ~Ended
  BY <1>3 DEF StepInv, BeforeProposal, NothingAfterEnd
<1>8. status' # "queued" \/ status' = status
  BY DEF Act, SaveStatus
<1>9. /\ \A v \in Worker : Writing(v)' => v = w
      /\ ~OverBudget' => status' # "queued" /\ \A v \in Worker : Awake(v)' => v = w
  BY <1>1, <1>2, <1>5, <1>6, <1>8 DEF Writing, Awake
<1>10. OneWriter'
  BY <1>9 DEF OneWriter
<1>11. StepsContiguous'
  BY <1>4 DEF StepsContiguous, Counted
<1>12. CASE pc'[w] \in {"off", "fail", "top"} /\ UNCHANGED proposal
  <2>1. \A v \in Worker : ~Writing(v)'
    BY <1>9, <1>12 DEF Writing
  <2>2. pc'[w] = "top" => NoProposal'
    BY <1>7, <1>12 DEF Act, GoTo, NoProposal
  <2>3. BeforeProposal'
    BY <1>4, <1>9, <1>12, <2>1, <2>2 DEF BeforeProposal, Awake
  <2>4. WriterAt'
    BY <2>1 DEF WriterAt, Writing
  <2>5. NothingAfterEnd' /\ AloneProposal'
    BY <1>12, <2>1 DEF StepInv, NothingAfterEnd, AloneProposal
  <2> QED
    BY <1>10, <1>11, <2>3, <2>4, <2>5 DEF StepInv
<1>13. CASE pc'[w] = "insert"
  <2>1. /\ item[w] # "report" /\ UNCHANGED status
        /\ (item'[w] # "report" => UNCHANGED proposal)
    BY <1>1, <1>13 DEF Act, GoTo
  <2>2. \A v \in Worker : pc'[v] \in {"top", "call"} => v # w /\ Awake(v)
    BY <1>1, <1>13 DEF Awake
  <2>3. BeforeProposal'
    BY <1>2, <1>6, <1>7, <1>9, <2>1, <2>2 DEF BeforeProposal, NoProposal
  <2>4. WriterAt'
    <3> SUFFICES ASSUME NEW v \in Worker, Writing(v)'
                 PROVE  pc'[v] = "insert" /\ Counted' /\ cur'[v] = current' /\ current' \in Nat
      BY DEF WriterAt, Writing
    <3> QED
      BY <1>1, <1>3, <1>4, <1>9, <1>13, <2>1
  <2>5. NothingAfterEnd'
    BY <1>7, <2>1 DEF NothingAfterEnd, Ended
  <2>6. AloneProposal'
    <3>1. NoProposal
      BY <1>7, <2>1
    <3>2. \A s \in Slot : proposal'[s] # "none" => s = cur[w]
      BY <3>1 DEF Act, NoProposal
    <3> QED
      BY <3>2 DEF AloneProposal
  <2> QED
    BY <1>10, <1>11, <2>3, <2>4, <2>5, <2>6 DEF StepInv
<1> QED
  BY <1>12, <1>13 DEF Act, GoTo

\* Every step of a worker; a check that fails sends it out of the loop.
LEMMA WorkerKeeps ==
    ASSUME RunTypeOK, StepInv, StepsOwned, NEW w \in Worker, WorkerStep(w)
    PROVE  StepInv'
<1>1. CASE Top(w)
  <2>1. /\ pc[w] = "top" /\ pc'[w] \in {"call", "off", "fail"}
        /\ UNCHANGED <<status, current, stored, proposal, item, clock>>
        /\ \A v \in Worker : v # w => pc'[v] = pc[v] /\ cur'[v] = cur[v]
    BY <1>1 DEF Top, GoTo, rowVars, timeVars, RunTypeOK
  <2> QED
    BY <2>1, Quiet DEF OverBudget, Writing, Ended
<1>2. CASE Fail(w)
  <2>1. /\ pc'[w] = "off" /\ UNCHANGED <<current, stored, proposal, item, cur>>
        /\ \A v \in Worker : v # w => pc'[v] = pc[v]
    BY <1>2 DEF Fail, GoTo, RunTypeOK
  <2>2. /\ OverBudget' = OverBudget
        /\ status' = status \/ status' = "failed"
    BY <1>2, TouchKeepsBudget DEF Fail, MarkRunFailed, OverBudget
  <2> QED
    BY <2>1, <2>2, Quiet DEF Writing, Ended
<1> QED
  BY <1>1, <1>2, ClaimKeeps, ReturnKeeps, RequeueKeeps, InsertKeeps, BumpKeeps, ActKeeps
  DEF WorkerStep

\* People, Beat and the environment. A row goes stale only when its budget is
\* spent, so that what Beat queues again is taken late.
LEMMA OtherKeeps ==
    ASSUME RunTypeOK, StepInv, RunStep, ~\E w \in Worker : WorkerStep(w)
    PROVE  StepInv'
<1> USE DEF RunTypeOK
<1>1. CASE Cancel
  <2>1. /\ UNCHANGED <<current, stored, workerVars>> /\ OverBudget' = OverBudget
        /\ status' = "cancelled"
        /\ \A s \in Slot : proposal'[s] = "none" <=> proposal[s] = "none"
    BY <1>1, TouchKeepsBudget DEF Cancel
  <2> QED
    BY <2>1, Quiet DEF workerVars, Writing, Ended
<1>2. CASE Recover
  <2>1. /\ UNCHANGED <<current, stored, proposal, workerVars>> /\ OverBudget'
        /\ status' = "queued"
    BY <1>2, TouchKeepsBudget DEF Recover, OverBudget
  <2> QED
    BY <2>1, Quiet DEF workerVars, Writing, Ended
<1>3. CASE SpendBudget \/ BecomeStale \/ AgeProposals \/ EditTarget
  <2>1. /\ UNCHANGED <<status, current, stored, proposal, workerVars>>
        /\ OverBudget => OverBudget'
    BY <1>3 DEF SpendBudget, BecomeStale, AgeProposals, EditTarget, rowVars, timeVars,
       OverBudget
  <2> QED
    BY <2>1, Quiet DEF workerVars, Writing, Ended
<1>4. CASE Fault
  <2>1. /\ UNCHANGED <<status, current, stored, proposal, item, cur>>
        /\ OverBudget => OverBudget'
        /\ \A w \in Worker : pc'[w] \in {pc[w], "off"}
    BY <1>4 DEF Fault, GoTo, rowVars, jobVars, OverBudget
  <2> QED
    BY <2>1, Quiet DEF Writing, Ended
<1>5. ASSUME NEW s \in Slot, DecideProposal(s) PROVE StepInv'
  <2>0. UNCHANGED workerVars /\ proposal[s] = "pending"
    BY <1>5 DEF DecideProposal
  <2>1. CASE proposal' = [proposal EXCEPT ![s] = "approved"] /\ status' = "executing"
             /\ Touch /\ UNCHANGED <<current, stored>>
    <3>1. \A t \in Slot : proposal'[t] = "none" <=> proposal[t] = "none"
      BY <2>0, <2>1
    <3> QED
      BY <2>0, <2>1, <3>1, Quiet, TouchKeepsBudget DEF workerVars, Writing, Ended
  <2>2. ASSUME NEW d \in {"expired", "rejected"},
               ~VerificationClash([proposal EXCEPT ![s] = d]),
               VerifyTerminalProposals([proposal EXCEPT ![s] = d])
        PROVE  StepInv'
    <3>1. /\ [proposal EXCEPT ![s] = d] \in [Slot -> ProposalStatus]
          /\ \A t \in Slot : [proposal EXCEPT ![s] = d][t] = "none" <=> proposal[t] = "none"
      BY <2>0 DEF ProposalStatus
    <3>2. ~NoProposal
      BY <2>0 DEF NoProposal
    <3> QED
      BY <2>0, <2>2, <3>1, <3>2, VerifyKeeps
  <2> QED
    BY <1>5, <2>1, <2>2 DEF DecideProposal
<1>6. ASSUME NEW s \in Slot, ExpireProposal(s) PROVE StepInv'
  <2>1. UNCHANGED workerVars /\ proposal[s] = "pending"
    BY <1>6 DEF ExpireProposal
  <2>2. /\ [proposal EXCEPT ![s] = "expired"] \in [Slot -> ProposalStatus]
        /\ \A t \in Slot :
             [proposal EXCEPT ![s] = "expired"][t] = "none" <=> proposal[t] = "none"
        /\ ~NoProposal
    BY <2>1 DEF ProposalStatus, NoProposal
  <2> QED
    BY <1>6, <2>1, <2>2, VerifyKeeps DEF ExpireProposal
<1>7. ASSUME NEW s \in Slot, ExecuteProposal(s) PROVE StepInv'
  <2>0. UNCHANGED workerVars
    BY <1>7 DEF ExecuteProposal
  <2>1. CASE UNCHANGED <<rowVars, proposal, clock>>
    BY <2>0, <2>1, Quiet DEF rowVars, workerVars, OverBudget, Writing, Ended
  <2>2. ASSUME NEW result \in {"executed", "stale", "failed"}, proposal[s] = "approved",
               ~VerificationClash([proposal EXCEPT ![s] = result]),
               VerifyTerminalProposals([proposal EXCEPT ![s] = result])
        PROVE  StepInv'
    <3>1. /\ [proposal EXCEPT ![s] = result] \in [Slot -> ProposalStatus]
          /\ \A t \in Slot :
               [proposal EXCEPT ![s] = result][t] = "none" <=> proposal[t] = "none"
          /\ ~NoProposal
      BY <2>2 DEF ProposalStatus, NoProposal
    <3> QED
      BY <2>0, <2>2, <3>1, VerifyKeeps
  <2> QED
    BY <1>7, <2>1, <2>2 DEF ExecuteProposal, Executable, Results
<1> QED
  BY <1>1, <1>2, <1>3, <1>4, <1>5, <1>6, <1>7 DEF RunStep

\* At first nothing is stored, the run is queued and the loop is empty.
LEMMA InitStepInv == Init => StepInv
<1> SUFFICES ASSUME Init PROVE StepInv
  OBVIOUS
<1>1. /\ \A w \in Worker : pc[w] = "off"
      /\ NoProposal /\ Counted
      /\ status = "queued"
  BY DEF Init, NoProposal, Counted
<1>2. OneWriter /\ BeforeProposal /\ WriterAt /\ NothingAfterEnd
  BY <1>1 DEF OneWriter, BeforeProposal, WriterAt, NothingAfterEnd, Writing, Awake, Ended
<1> QED
  BY <1>1, <1>2 DEF StepInv, StepsContiguous, AloneProposal, Counted, NoProposal

\* The invariant holds always.
LEMMA AlwaysStepInv == Spec => [](FullInv /\ StepInv)
<1>1. FullInv /\ StepInv /\ [Next]_vars => StepInv'
  <2> SUFFICES ASSUME FullInv, StepInv, [Next]_vars PROVE StepInv'
    OBVIOUS
  <2>0. RunTypeOK /\ StepsOwned
    BY DEF FullInv
  <2>1. CASE RunStep
    BY <2>0, <2>1, WorkerKeeps, OtherKeeps
  <2>2. CASE Review
    <3>1. UNCHANGED <<status, current, stored, proposal, workerVars>> /\ OverBudget' = OverBudget
      BY <2>2, TouchKeepsBudget DEF Review
    <3> QED
      BY <2>0, <3>1, Quiet DEF workerVars, Writing, Ended
  <2>3. CASE UNCHANGED runVars
    BY <2>0, <2>3, Quiet DEF runVars, rowVars, workerVars, timeVars, OverBudget, Writing, Ended
  <2> QED
    BY <2>1, <2>2, <2>3 DEF Next, vars
<1> QED
  BY InitFullInv, StepFullInv, InitStepInv, <1>1, PTL DEF Spec

-----------------------------------------------------------------------------
\* Stored steps are numbered without a gap and current_step counts them, for
\* any number of workers, crashes and late saves (project_agents/services.py,
\* _create_step and _verify_terminal_proposals).
THEOREM StepsNumbered == Spec => []StepsContiguous
<1>1. StepInv => StepsContiguous
  BY DEF StepInv
<1> QED
  BY <1>1, AlwaysStepInv, PTL

\* A run makes one proposal at most, although the check and the insert are two
\* statements and a recovered run may have several workers.
THEOREM ProposesOnce == Spec => []OneProposal
<1>1. StepInv => OneProposal
  <2> SUFFICES ASSUME AloneProposal PROVE OneProposal
    BY DEF StepInv
  <2> DEFINE made == {s \in Slot : proposal[s] # "none"}
  <2>1. CASE made = {}
    BY <2>1, FS_EmptySet DEF OneProposal
  <2>2. CASE made # {}
    <3>1. PICK s \in made : TRUE
      BY <2>2
    <3>2. made = {s}
      BY <3>1 DEF AloneProposal
    <3>3. Cardinality(made) = 1
      BY <3>2, FS_Singleton
    <3> QED
      BY <3>3 DEF OneProposal
  <2> QED
    BY <2>1, <2>2
<1> QED
  BY <1>1, AlwaysStepInv, PTL
=============================================================================
