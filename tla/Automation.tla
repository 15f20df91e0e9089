------------------------------- MODULE Automation -------------------------------
(***************************************************************************)
(* One automation run: the actions of a simulation carried out one by one, *)
(* each proved by its receipt before the next                              *)
(* (src/src/automation/automation-runner.mjs over automation-ledger.mjs,   *)
(* invokable-domain-registry.mjs and receipt-verifier.mjs), with its       *)
(* cancellation, the reconciliation and the manual closure of              *)
(* src/src/recovery/ and the cut of the external domains by the emergency  *)
(* mode.                                                                   *)
(*                                                                         *)
(* A SQLite statement runs whole; calls of run interleave at every await,  *)
(* and the process may die between any two.  The tables survive it, the    *)
(* map of the abort controllers does not.                                  *)
(***************************************************************************)
EXTENDS Integers, FiniteSets

CONSTANTS
    Calls,        \* calls of run on this run that may be under way together
    Reconcilers,  \* calls of reconcile
    NoCall,
    LastAction,   \* the actions of the simulation are 1..LastAction
    LateEvidence, \* a receipt that proved nothing may prove its effect later
    MaxEffects,   \* bound: times each action takes effect
    MaxCrashes    \* bound

Actions == 1..LastAction

ASSUME AutomationAssumption ==
    /\ NoCall \notin Calls
    /\ LastAction \in Nat /\ MaxEffects \in Nat /\ MaxCrashes \in Nat
    /\ LateEvidence \in BOOLEAN

VARIABLES
    status,     \* the run's row
    step,       \* the rows of its steps
    attempted,  \* its count of reconciliations is not 0
    closed,     \* the case was closed by hand
    controller, \* the controllers map: whose controller cancel reaches
    aborted,    \* calls whose signal is aborted
    call,       \* the calls of run
    repair,     \* the calls of reconcile
    cut,        \* the external domains are disabled
    effects,    \* history: times each action took effect
    overlap,    \* history: two calls of run were under way at a time
    late,       \* history: effects of a call that was aborted
    crashes

rows == <<status, step, attempted, closed>>
memory == <<controller, aborted>>
history == <<overlap, late>>
vars == <<rows, memory, call, repair, cut, effects, history, crashes>>

-----------------------------------------------------------------------------
Terminal == {"completed", "unknown", "cancelled"}
Evidence == {"verified", "unknown"}

\* seen: the row read before the action, or the evidence about to be recorded.
AtRest == [pc |-> "idle", k |-> 1, seen |-> "none"]
Idle == [pc |-> "idle", todo |-> {}, verdict |-> "unknown"]

At(c, pc) == call[c].pc = pc
Go(c, pc) == call' = [call EXCEPT ![c].pc = pc]
InLoop(c) == call[c].pc \in {"look", "invoking", "acted", "record", "recorded"}

Init ==
    /\ status = "absent" /\ step = [i \in Actions |-> "none"]
    /\ attempted = FALSE /\ closed = FALSE
    /\ controller = NoCall /\ aborted = {}
    /\ call = [c \in Calls |-> AtRest] /\ repair = [r \in Reconcilers |-> Idle]
    /\ cut = FALSE /\ effects = [i \in Actions |-> 0]
    /\ overlap = FALSE /\ late = [c \in Calls |-> 0] /\ crashes = 0

(***************************************************************************)
(* run.                                                                    *)
(***************************************************************************)
\* Mutant: the controller stays in the map.
LeaveHeld(c) ==
    /\ call' = [call EXCEPT ![c] = AtRest]
    /\ aborted' = aborted \ {c} /\ UNCHANGED controller

\* The finally block deletes whatever controller the map holds for the run.
Leave(c) ==
    /\ call' = [call EXCEPT ![c] = AtRest]
    /\ controller' = NoCall /\ aborted' = aborted \ {c}

Throw(c) == Leave(c) /\ UNCHANGED status
finishRun(c, outcome) == Leave(c) /\ status' = outcome

\* Mutant: the signal is looked at once, when the loop begins.
ProceedDeaf(c, k) ==
    IF k > LastAction THEN finishRun(c, "completed")
    ELSE IF c \in aborted /\ k = 1 THEN finishRun(c, "cancelled")
    ELSE /\ call' = [call EXCEPT ![c] = [pc |-> "look", k |-> k, seen |-> step[k]]]
         /\ UNCHANGED <<status, memory>>

\* The head of the loop: the signal, then the row of action k.
Proceed(c, k) ==
    IF k > LastAction THEN finishRun(c, "completed")
    ELSE IF c \in aborted THEN finishRun(c, "cancelled")
    ELSE /\ call' = [call EXCEPT ![c] = [pc |-> "look", k |-> k, seen |-> step[k]]]
         /\ UNCHANGED <<status, memory>>

Run(c) ==
    /\ At(c, "idle") /\ status \notin Terminal
    /\ Go(c, "start")
    /\ overlap' = (overlap \/ \E d \in Calls : ~At(d, "idle"))
    /\ late' = [late EXCEPT ![c] = 0]
    /\ UNCHANGED <<rows, memory, repair, cut, effects, crashes>>

startRun(c) ==
    /\ At(c, "start")
    /\ Go(c, IF status = "absent" THEN "insert" ELSE "enter")
    /\ UNCHANGED <<rows, memory, repair, cut, effects, history, crashes>>

\* run_id is the primary key: the second insert throws.
InsertRun(c) ==
    /\ At(c, "insert")
    /\ IF status = "absent" THEN status' = "running" /\ Go(c, "enter")
       ELSE call' = [call EXCEPT ![c] = AtRest] /\ UNCHANGED status
    /\ UNCHANGED <<step, attempted, closed, memory, repair, cut, effects, history, crashes>>

Enter(c) ==
    /\ At(c, "enter")
    /\ IF LastAction = 0 THEN finishRun(c, "completed")
       ELSE /\ controller' = c
            /\ call' = [call EXCEPT ![c] = [pc |-> "look", k |-> 1, seen |-> step[1]]]
            /\ UNCHANGED <<status, aborted>>
    /\ UNCHANGED <<step, attempted, closed, repair, cut, effects, history, crashes>>

\* Mutant: an action whose effect is not proved is carried out again.
LookRetries(c) ==
    /\ At(c, "look")
    /\ \/ call[c].seen = "verified" /\ Proceed(c, call[c].k + 1)
       \/ call[c].seen # "verified" /\ cut /\ Throw(c)
       \/ call[c].seen # "verified" /\ ~cut /\ Go(c, "invoking") /\ UNCHANGED <<status, memory>>
    /\ UNCHANGED <<step, attempted, closed, repair, cut, effects, history, crashes>>

\* The row says what was done of the action; without one it is invoked,
\* unless the registry refuses it.
Look(c) ==
    /\ At(c, "look")
    /\ \/ call[c].seen = "unknown" /\ finishRun(c, "unknown")
       \/ call[c].seen = "verified" /\ Proceed(c, call[c].k + 1)
       \/ call[c].seen = "none" /\ cut /\ Throw(c)
       \/ call[c].seen = "none" /\ ~cut /\ Go(c, "invoking") /\ UNCHANGED <<status, memory>>
    /\ UNCHANGED <<step, attempted, closed, repair, cut, effects, history, crashes>>

Effect(c) ==
    /\ At(c, "invoking") /\ effects[call[c].k] < MaxEffects
    /\ effects' = [effects EXCEPT ![call[c].k] = @ + 1]
    /\ late' = [late EXCEPT ![c] = IF c \in aborted THEN @ + 1 ELSE @]
    /\ Go(c, "acted")
    /\ UNCHANGED <<rows, memory, repair, cut, overlap, crashes>>

\* The handler throws, whatever it has done.
InvokeThrows(c) ==
    /\ At(c, "invoking") \/ At(c, "acted")
    /\ Throw(c)
    /\ UNCHANGED <<step, attempted, closed, repair, cut, effects, history, crashes>>

Verify(c) ==
    /\ At(c, "acted")
    /\ \E e \in Evidence : call' = [call EXCEPT ![c].pc = "record", ![c].seen = e]
    /\ UNCHANGED <<rows, memory, repair, cut, effects, history, crashes>>

\* step_key is the primary key.
recordStep(c) ==
    /\ At(c, "record")
    /\ IF step[call[c].k] = "none"
       THEN /\ step' = [step EXCEPT ![call[c].k] = call[c].seen]
            /\ Go(c, "recorded") /\ UNCHANGED <<status, memory>>
       ELSE Throw(c) /\ UNCHANGED step
    /\ UNCHANGED <<attempted, closed, repair, cut, effects, history, crashes>>

\* Mutant: the evidence is recorded and not looked at.
RecordedGoesOn(c) ==
    /\ At(c, "recorded")
    /\ Proceed(c, call[c].k + 1)
    /\ UNCHANGED <<step, attempted, closed, repair, cut, effects, history, crashes>>

Recorded(c) ==
    /\ At(c, "recorded")
    /\ IF call[c].seen = "unknown" THEN finishRun(c, "unknown")
       ELSE Proceed(c, call[c].k + 1)
    /\ UNCHANGED <<step, attempted, closed, repair, cut, effects, history, crashes>>

(***************************************************************************)
(* cancel, and the signal of the caller.                                   *)
(***************************************************************************)
cancel ==
    /\ controller # NoCall
    /\ aborted' = aborted \cup {controller}
    /\ UNCHANGED <<rows, controller, call, repair, cut, effects, history, crashes>>

CallerAborts(c) ==
    /\ InLoop(c)
    /\ aborted' = aborted \cup {c}
    /\ UNCHANGED <<rows, controller, call, repair, cut, effects, history, crashes>>

(***************************************************************************)
(* reconcile works on the steps it read.                                   *)
(***************************************************************************)
Reconcile(r) ==
    /\ repair[r].pc = "idle" /\ status # "absent"
    /\ repair' = [repair EXCEPT ![r] =
          [Idle EXCEPT !.pc = "attempt", !.todo = {i \in Actions : step[i] = "unknown"}]]
    /\ UNCHANGED <<rows, memory, call, cut, effects, history, crashes>>

recordReconciliationAttempt(r) ==
    /\ repair[r].pc = "attempt"
    /\ attempted' = TRUE /\ repair' = [repair EXCEPT ![r].pc = "verify"]
    /\ UNCHANGED <<status, step, closed, memory, call, cut, effects, history, crashes>>

Reverify(r) ==
    /\ repair[r].pc = "verify" /\ repair[r].todo # {}
    /\ \E e \in IF LateEvidence THEN Evidence ELSE {"unknown"} :
          repair' = [repair EXCEPT ![r].pc = "update", ![r].verdict = e]
    /\ UNCHANGED <<rows, memory, call, cut, effects, history, crashes>>

updateStepEvidence(r) ==
    /\ repair[r].pc = "update"
    /\ \E i \in repair[r].todo :
          /\ \A j \in repair[r].todo : i <= j
          /\ step' = [step EXCEPT ![i] = repair[r].verdict]
          /\ repair' = [repair EXCEPT ![r].pc = "verify", ![r].todo = @ \ {i}]
    /\ UNCHANGED <<status, attempted, closed, memory, call, cut, effects, history, crashes>>

ReadBack(r) ==
    /\ repair[r].pc = "verify" /\ repair[r].todo = {}
    /\ repair' = [repair EXCEPT ![r].pc = "finish",
          ![r].verdict = IF \E i \in Actions : step[i] = "unknown" THEN "unknown" ELSE "verified"]
    /\ UNCHANGED <<rows, memory, call, cut, effects, history, crashes>>

\* Mutant: a run whose steps are all proved is done.
FinishReconcileDone(r) ==
    /\ repair[r].pc = "finish"
    /\ status' = IF repair[r].verdict = "unknown" THEN "unknown" ELSE "completed"
    /\ repair' = [repair EXCEPT ![r] = Idle]
    /\ UNCHANGED <<step, attempted, closed, memory, call, cut, effects, history, crashes>>

FinishReconcile(r) ==
    /\ repair[r].pc = "finish"
    /\ status' = IF repair[r].verdict = "unknown" THEN "unknown" ELSE "running"
    /\ repair' = [repair EXCEPT ![r] = Idle]
    /\ UNCHANGED <<step, attempted, closed, memory, call, cut, effects, history, crashes>>

(***************************************************************************)
(* Recovery: what the list of cases says of the run.                       *)
(***************************************************************************)
AllStepsVerified ==
    /\ \E i \in Actions : step[i] # "none"
    /\ \A i \in Actions : step[i] # "unknown"

\* domainReconcilers is empty as the application wires it.
classification ==
    CASE status = "completed" \/ AllStepsVerified -> "verified_complete"
      [] status = "cancelled" -> "denied_or_cancelled"
      [] ~attempted -> "accepted_state_unknown"
      [] OTHER -> "manual_action_required"

Listed == status \in Terminal /\ ~closed

closeManually ==
    /\ status # "absent" /\ ~closed
    /\ closed' = TRUE
    /\ UNCHANGED <<status, step, attempted, memory, call, repair, cut, effects, history, crashes>>

\* disableExternal and restore, of the emergency mode.
SwitchExternal ==
    /\ cut' = ~cut
    /\ UNCHANGED <<rows, memory, call, repair, effects, history, crashes>>

Crash ==
    /\ crashes < MaxCrashes /\ crashes' = crashes + 1
    /\ controller' = NoCall /\ aborted' = {}
    /\ call' = [c \in Calls |-> AtRest] /\ repair' = [r \in Reconcilers |-> Idle]
    /\ cut' = FALSE
    /\ UNCHANGED <<rows, effects, history>>

-----------------------------------------------------------------------------
RunStep(c) ==
    \/ startRun(c) \/ InsertRun(c) \/ Enter(c) \/ Look(c) \/ Effect(c)
    \/ InvokeThrows(c) \/ Verify(c) \/ recordStep(c) \/ Recorded(c)

ReconcileStep(r) ==
    \/ Reconcile(r) \/ recordReconciliationAttempt(r) \/ Reverify(r)
    \/ updateStepEvidence(r) \/ ReadBack(r) \/ FinishReconcile(r)

Next ==
    \/ \E c \in Calls : Run(c) \/ RunStep(c) \/ CallerAborts(c)
    \/ cancel
    \/ \E r \in Reconcilers : ReconcileStep(r)
    \/ closeManually \/ SwitchExternal \/ Crash

Spec == Init /\ [][Next]_vars

-----------------------------------------------------------------------------
\* The type invariant: a controller the map holds is that of a call in its loop.
TypeOK ==
    /\ status \in {"absent", "running"} \cup Terminal
    /\ step \in [Actions -> {"none"} \cup Evidence]
    /\ attempted \in BOOLEAN /\ closed \in BOOLEAN
    /\ controller \in Calls \cup {NoCall} /\ aborted \subseteq Calls
    /\ call \in [Calls -> [pc : {"idle", "start", "insert", "enter", "look", "invoking",
                                 "acted", "record", "recorded"},
                           k : 1..LastAction + 1, seen : {"none"} \cup Evidence]]
    /\ repair \in [Reconcilers -> [pc : {"idle", "attempt", "verify", "update", "finish"},
                                   todo : SUBSET Actions, verdict : Evidence]]
    /\ cut \in BOOLEAN /\ effects \in [Actions -> 0..MaxEffects]
    /\ overlap \in BOOLEAN /\ late \in [Calls -> Nat] /\ crashes \in 0..MaxCrashes
    /\ \A c \in aborted \cup ({controller} \ {NoCall}) : InLoop(c)

\* automation-runner.mjs:48: an action takes effect only when every action
\* before it is proved, with concurrent calls, a reconciliation, a crash after
\* an effect and before its record, and rows another call has written.
NothingAfterUnknown ==
    [][\A i \in Actions : effects'[i] > effects[i] =>
          \A j \in 1..i - 1 : step[j] = "verified"]_vars

\* A run is completed only with every action proved.
CompletedVerified == status = "completed" => \A i \in Actions : step[i] = "verified"

\* automation-runner.mjs:34: an action that has a row, proved or not, is never
\* carried out again by calls that come one after the other, whatever crash,
\* reconciliation or refusal came between.
RecordedNotRepeated ==
    [][~overlap => \A i \in Actions : step[i] # "none" => effects'[i] = effects[i]]_vars

\* automation-runner.mjs:32: a call that is cancelled carries out one more
\* action at most, the one it is about to invoke.
CancelBounded == \A c \in Calls : late[c] <= 1

\* What tests/automation-runner.test.mjs:49 says of the deterministic key:
\* each action is carried out once.
OnceEach == \A i \in Actions : effects[i] <= 1

\* What tests/recovery-projector.test.mjs:35 says of a case that is complete:
\* nothing is left to do.
CompleteIsDone ==
    Listed /\ classification = "verified_complete" => \A i \in Actions : step[i] = "verified"
=============================================================================
