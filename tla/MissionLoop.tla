----------------------------- MODULE MissionLoop -----------------------------
(***************************************************************************)
(* run of the orchestrator (src/src/core/orchestrator.mjs) with the        *)
(* mission's counters (src/src/core/mission-state.mjs): observe, ask the   *)
(* model, authorise its action, execute it, verify its effect, ask again.  *)
(* An emergency stop only sets a flag, at any of the awaits.               *)
(*                                                                         *)
(* The model, the executor, the verifier and the user answer what they     *)
(* like; what matters of an answer is the branch it takes.  A call that    *)
(* withRetry wraps is one await that ends well or throws.                  *)
(***************************************************************************)
EXTENDS Integers

CONSTANTS
    MaxActions,   \* maxActions of the mission
    MaxFailures,  \* 3 consecutive failures stop it
    FastPath      \* TRUE: the fast path for browser goals is enabled

ASSUME MissionAssumption ==
    /\ MaxActions \in Nat \ {0} /\ MaxFailures \in Nat \ {0}
    /\ FastPath \in BOOLEAN

VARIABLES
    pc,             \* the await run is in
    fast,           \* the goal maps to one deterministic browser action
    status,         \* running, completed, stopped; none before the first run
    actions,        \* actionCount
    failures,       \* failureCount
    pending,        \* pendingUnverifiedAction
    stopRequested,
    late,           \* timeoutMs has elapsed
    decision,       \* what is known of the current action
    last,           \* history: outcome of the last action that was executed
    after           \* history: actions begun since the stop was requested

mission == <<status, actions, failures>>
history == <<last, after>>
missionVars == <<pc, fast, mission, pending, stopRequested, late, decision, history>>

Running == status = "running"

-----------------------------------------------------------------------------
MissionInit ==
    /\ pc = "idle"
    /\ fast = FALSE
    /\ status = "none"
    /\ actions = 0 /\ failures = 0
    /\ pending = FALSE
    /\ stopRequested = FALSE
    /\ late = FALSE
    /\ decision = "none"
    /\ last = "none"
    /\ after = 0

Await(where) == pc' = where

(***************************************************************************)
(* mission-state.mjs                                                       *)
(***************************************************************************)
\* Mutant: the exhausted budget does not stop the mission.
recordActionUnbounded ==
    /\ actions' = actions + 1
    /\ failures' = 0
    /\ status' = IF late THEN "stopped" ELSE "running"

recordAction ==
    /\ actions' = actions + 1
    /\ failures' = 0
    /\ status' = IF late \/ actions + 1 >= MaxActions THEN "stopped" ELSE "running"

recordFailure ==
    /\ failures' = failures + 1
    /\ status' = IF failures + 1 >= MaxFailures THEN "stopped" ELSE "running"
    /\ UNCHANGED actions

Conclude(outcome) == status' = outcome /\ UNCHANGED <<actions, failures>>

Keep == UNCHANGED mission

-----------------------------------------------------------------------------
run ==
    /\ pc = "idle"
    /\ status' = "running"
    /\ actions' = 0 /\ failures' = 0
    /\ pending' = FALSE
    /\ stopRequested' = FALSE
    /\ late' = FALSE
    /\ decision' = "none"
    /\ last' = "none"
    /\ after' = 0
    /\ fast' \in {FALSE, FastPath}
    /\ Await(IF fast' THEN "assess" ELSE "observe")

missionEmergencyStop ==
    /\ ~stopRequested
    /\ stopRequested' = TRUE
    /\ UNCHANGED <<pc, fast, mission, pending, late, decision, history>>

\* Bound: the clock only matters once the time is out.
Elapse ==
    /\ Running /\ ~late
    /\ late' = TRUE
    /\ UNCHANGED <<pc, fast, mission, pending, stopRequested, decision, history>>

\* observe, a turn of the model, currentContext or assess threw.
Throws ==
    /\ pc \in {"observe", "model", "context", "assess", "verify"}
    /\ Conclude(IF Running THEN "stopped" ELSE status)
    /\ Await("end")
    /\ UNCHANGED <<fast, pending, stopRequested, late, decision, history>>

observe ==
    /\ pc = "observe"
    /\ Await("model")
    /\ UNCHANGED <<fast, mission, pending, stopRequested, late, decision, history>>

(***************************************************************************)
(* The head of the loop, from a turn of the model to the next await.       *)
(***************************************************************************)
\* Mutant: the loop does not look at the flag.
StopSeenNever == FALSE

StopSeen == stopRequested

\* A turn without a call fails again and again on the same response.
NoCall ==
    /\ failures' = MaxFailures
    /\ status' = "stopped"
    /\ UNCHANGED <<actions, pending>>
    /\ Await("end")

\* The call cannot be normalised: it is returned to the model.
BadCall ==
    /\ recordFailure
    /\ Await(IF status' = "running" THEN "observe" ELSE "end")
    /\ UNCHANGED pending

\* completed, or the action "done".
Done ==
    /\ Conclude(IF pending THEN "stopped" ELSE "completed")
    /\ Await("end")
    /\ UNCHANGED pending

Propose == Await("context") /\ Keep /\ UNCHANGED pending

ModelAnswers ==
    /\ pc = "model"
    /\ IF StopSeen
       THEN Conclude("stopped") /\ Await("end") /\ UNCHANGED pending
       ELSE NoCall \/ BadCall \/ Done \/ Propose
    /\ UNCHANGED <<fast, stopRequested, late, decision, history>>

\* The policy blocks the action or lets it be previewed and assessed.
Classify ==
    /\ pc = "context"
    /\ \/ Conclude("stopped") /\ Await("end")
       \/ Keep /\ Await("assess")
    /\ UNCHANGED <<fast, pending, stopRequested, late, decision, history>>

\* Every action that reaches the executor begins here.
Execute(how) ==
    /\ Await("execute")
    /\ decision' = how
    /\ after' = IF stopRequested THEN after + 1 ELSE after
    /\ UNCHANGED last

Assess ==
    /\ pc = "assess"
    /\ \/ Conclude("stopped") /\ Await("end") /\ UNCHANGED <<decision, history>>
       \/ Keep /\ Await("confirm") /\ UNCHANGED <<decision, history>>
       \/ Keep /\ Execute("allowed")
    /\ UNCHANGED <<fast, pending, stopRequested, late>>

\* The user answers the dialog, and an approval is consumed.  A refusal, or a
\* throw, is given back to the model, except on the fast path.
Confirm ==
    /\ pc = "confirm"
    /\ \/ Keep /\ Execute("approved")
       \/ /\ fast
          /\ Conclude("stopped") /\ Await("end") /\ UNCHANGED <<decision, history>>
       \/ /\ ~fast
          /\ decision' \in {"refused", "failed"}
          /\ Await("verify") /\ Keep /\ UNCHANGED history
    /\ UNCHANGED <<fast, pending, stopRequested, late>>

\* The action is over, by its end or by a throw that the loop turns into a
\* failed result.
Executed ==
    /\ pc = "execute" /\ ~fast
    /\ Await("verify")
    /\ last' = "unverified"
    /\ decision' \in {decision, "failed"}
    /\ UNCHANGED <<fast, mission, pending, stopRequested, late, after>>

\* The fast path records the action as soon as the executor returned.
FastExecuted ==
    /\ pc = "execute" /\ fast
    /\ Await("end")
    /\ last' = "unverified"
    /\ \/ /\ actions' = actions + 1
          /\ failures' = 0
          /\ status' = IF late \/ actions + 1 >= MaxActions THEN "stopped" ELSE "completed"
       \/ Conclude("stopped")
    /\ UNCHANGED <<fast, pending, stopRequested, late, decision, after>>

(***************************************************************************)
(* The observation that follows, and what the verifier makes of it.        *)
(***************************************************************************)
Verified ==
    /\ decision \notin {"refused", "failed"}
    /\ recordAction
    /\ pending' = FALSE
    /\ last' = "verified"

Unverified ==
    /\ decision # "refused"
    /\ recordFailure
    /\ pending' = TRUE
    /\ UNCHANGED last

\* A refusal also clears what an earlier action left pending.
Refused ==
    /\ decision = "refused"
    /\ pending' = FALSE
    /\ Keep /\ UNCHANGED last

Verify ==
    /\ pc = "verify"
    /\ Verified \/ Unverified \/ Refused
    /\ Await(IF status' = "running" THEN "model" ELSE "end")
    /\ decision' = "none"
    /\ UNCHANGED <<fast, stopRequested, late, after>>

\* The finally: the cursor is hidden, another mission may run.
Finish ==
    /\ pc = "end"
    /\ Await("idle")
    /\ UNCHANGED <<fast, mission, pending, stopRequested, late, decision, history>>

-----------------------------------------------------------------------------
\* Every await but the user's settles.
Proceed ==
    \/ observe \/ Throws \/ ModelAnswers \/ Classify \/ Assess
    \/ Executed \/ FastExecuted \/ Verify \/ Finish

MissionNext == run \/ missionEmergencyStop \/ Elapse \/ Proceed \/ Confirm

MissionSpec == MissionInit /\ [][MissionNext]_missionVars

\* The user answers the dialogs he is shown, and time passes.
MissionFairSpec ==
    /\ MissionSpec
    /\ WF_missionVars(Proceed) /\ WF_missionVars(Confirm) /\ WF_missionVars(Elapse)
-----------------------------------------------------------------------------
\* The type invariant.
MissionTypeOK ==
    /\ pc \in {"idle", "observe", "model", "context", "assess", "confirm",
               "execute", "verify", "end"}
    /\ fast \in BOOLEAN
    /\ status \in {"none", "running", "completed", "stopped"}
    /\ actions \in 0..MaxActions /\ failures \in 0..MaxFailures
    /\ pending \in BOOLEAN /\ stopRequested \in BOOLEAN /\ late \in BOOLEAN
    /\ decision \in {"none", "allowed", "approved", "refused", "failed"}
    /\ last \in {"none", "verified", "unverified"}
    /\ after \in Nat

\* At most one action, the one being prepared, begins after the stop.
StopBounded == after <= 1

\* A mission that was told to stop does not announce that it completed: the
\* emergency stop comes before everything (orchestrator.mjs).
Completes == status = "running" /\ status' = "completed"

StopPrevails == [][Completes /\ ~fast => ~stopRequested]_missionVars

\* The same of the fast path, which never reads the flag.
FastStopPrevails == [][Completes /\ fast => ~stopRequested]_missionVars

\* A mission that was told to stop ends, whatever the model goes on asking.
StopEnds == stopRequested /\ status = "running" ~> status # "running"

\* The emergency stop cuts what acts (main.mjs): no action begins after it.
NoActionAfterStop == after = 0

\* "stops instead of accepting done after an action remains unverified"
\* (orchestrator.test.mjs): a completed mission's last action is verified.
CompletedVerified == status = "completed" => last # "unverified"

\* "stops when the mission timeout is reached" (mission-state.test.mjs).
TimeoutStops == late /\ status = "running" ~> status # "running"
=============================================================================
