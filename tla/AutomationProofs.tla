---------------------------- MODULE AutomationProofs ----------------------------
(***************************************************************************)
(* What holds of Automation for any number of calls and of actions.        *)
(***************************************************************************)
EXTENDS Automation, TLAPS

Places == {"idle", "start", "insert", "enter", "look", "invoking",
           "acted", "record", "recorded"}
CallRecs == [pc : Places, k : 1..LastAction + 1, seen : {"none"} \cup Evidence]
RepairRecs == [pc : {"idle", "attempt", "verify", "update", "finish"},
               todo : SUBSET Actions, verdict : Evidence]

\* A call in its loop is at an action.
Ordered ==
    \A c \in Calls : InLoop(c) =>
        /\ call[c].k \in Actions
        /\ call[c].pc \in {"record", "recorded"} => call[c].seen \in Evidence

\* Every action before the one a call is at is proved, and that one too when
\* the call has found it so.
Proved ==
    \A c \in Calls : InLoop(c) =>
        /\ \A j \in Actions : j < call[c].k => step[j] = "verified"
        /\ call[c].pc \in {"look", "recorded"} /\ call[c].seen = "verified"
              => step[call[c].k] = "verified"

\* What a reconciliation has still to look at has a row.
Read ==
    \A r \in Reconcilers : \A i \in repair[r].todo : step[i] # "none"

\* What a reconciliation has still to look at is unproved, and stays so when
\* no receipt proves late.
Repairs ==
    \A r \in Reconcilers :
        /\ \A i \in repair[r].todo : step[i] = "unknown"
        /\ repair[r].pc = "update" /\ ~LateEvidence => repair[r].verdict = "unknown"

\* A cancelled call that has carried out an action will not begin another.
Counted ==
    \A c \in Calls :
        /\ late[c] <= 1
        /\ late[c] > 0 /\ InLoop(c) =>
              c \in aborted /\ call[c].pc \in {"acted", "record", "recorded"}
        /\ call[c].pc \in {"start", "insert", "enter"} => late[c] = 0

\* A call that is alone finds its action as it read it.
Alone ==
    ~overlap =>
        /\ \A c, d \in Calls : ~At(c, "idle") /\ ~At(d, "idle") => c = d
        /\ \A c \in Calls :
              \/ call[c].pc \in {"invoking", "acted", "record"}
              \/ At(c, "look") /\ call[c].seen = "none"
              => step[call[c].k] = "none"

\* At most one reconciliation at a time, or receipts that never prove late.
OneRepair == LateEvidence => \A r, s \in Reconcilers : r = s

(***************************************************************************)
(* Types.                                                                  *)
(***************************************************************************)
\* The records of a call and of a reconciliation at rest.
LEMMA Rests ==
    /\ AtRest \in CallRecs
    /\ Idle \in RepairRecs
BY AutomationAssumption DEF AtRest, CallRecs, Places, Idle, RepairRecs, Evidence

\* Initial states have their types.
LEMMA InitTypes == Init => TypeOK
<1> SUFFICES ASSUME Init PROVE TypeOK
  OBVIOUS
<1>1. call \in [Calls -> CallRecs] /\ repair \in [Reconcilers -> RepairRecs]
  BY Rests DEF Init
<1>2. 0 \in 0..MaxEffects /\ 0 \in 0..MaxCrashes
  BY AutomationAssumption
<1> QED
  BY <1>1, <1>2 DEF Init, TypeOK, CallRecs, Places, RepairRecs

\* A call whose record becomes rec, the others being left alone.
LEMMA Becomes ==
    ASSUME TypeOK, NEW c \in Calls, NEW rec \in CallRecs, call' = [call EXCEPT ![c] = rec]
    PROVE  /\ call' \in [Calls -> CallRecs] /\ call'[c] = rec
           /\ \A d \in Calls \ {c} : call'[d] = call[d]
<1> call \in [Calls -> CallRecs]
  BY DEF TypeOK, CallRecs, Places
<1> QED
  OBVIOUS

\* A call that moves on to pc.
LEMMA Moves ==
    ASSUME TypeOK, NEW c \in Calls, NEW pc \in Places, Go(c, pc)
    PROVE  /\ call' \in [Calls -> CallRecs]
           /\ call'[c].pc = pc /\ call'[c].k = call[c].k /\ call'[c].seen = call[c].seen
           /\ \A d \in Calls \ {c} : call'[d] = call[d]
<1> DEFINE rec == [call[c] EXCEPT !.pc = pc]
<1>1. call[c] \in CallRecs
  BY DEF TypeOK, CallRecs, Places
<1>2. /\ rec \in CallRecs
      /\ rec.pc = pc /\ rec.k = call[c].k /\ rec.seen = call[c].seen
  BY <1>1 DEF CallRecs
<1>3. call' = [call EXCEPT ![c] = rec]
  BY DEF Go
<1> HIDE DEF rec
<1> QED
  BY <1>2, <1>3, Becomes

\* A call that moves on to record the evidence e.
LEMMA Verifies ==
    ASSUME TypeOK, NEW c \in Calls, NEW e \in Evidence,
           call' = [call EXCEPT ![c].pc = "record", ![c].seen = e]
    PROVE  /\ call' \in [Calls -> CallRecs]
           /\ call'[c].pc = "record" /\ call'[c].k = call[c].k /\ call'[c].seen = e
           /\ \A d \in Calls \ {c} : call'[d] = call[d]
<1> DEFINE rec == [call[c] EXCEPT !.pc = "record", !.seen = e]
<1>0. call \in [Calls -> CallRecs]
  BY DEF TypeOK, CallRecs, Places
<1>1. call[c] \in CallRecs
  BY <1>0
<1>2. /\ rec \in CallRecs
      /\ rec.pc = "record" /\ rec.k = call[c].k /\ rec.seen = e
  BY <1>1 DEF CallRecs, Places
<1>3. call' = [call EXCEPT ![c] = rec]
  BY <1>0
<1> HIDE DEF rec
<1> QED
  BY <1>2, <1>3, Becomes

\* A call that returns or throws.
LEMMA Leaves ==
    ASSUME TypeOK, NEW c \in Calls, Leave(c)
    PROVE  /\ call' \in [Calls -> CallRecs] /\ call'[c].pc = "idle"
           /\ \A d \in Calls \ {c} : call'[d] = call[d]
           /\ controller' = NoCall /\ aborted' = aborted \ {c}
<1>1. call' = [call EXCEPT ![c] = AtRest] /\ controller' = NoCall /\ aborted' = aborted \ {c}
  BY DEF Leave
<1>2. AtRest.pc = "idle"
  BY DEF AtRest
<1> QED
  BY <1>1, <1>2, Rests, Becomes

\* The head of the loop: the call ends, or looks at action k.
LEMMA Proceeds ==
    ASSUME TypeOK, NEW c \in Calls, NEW k \in 1..LastAction + 1, Proceed(c, k)
    PROVE  /\ call' \in [Calls -> CallRecs]
           /\ \A d \in Calls \ {c} : call'[d] = call[d]
           /\ \/ /\ Leave(c) /\ call'[c].pc = "idle"
                 /\ controller' = NoCall /\ aborted' = aborted \ {c}
                 /\ (status' = "completed" /\ k = LastAction + 1) \/ status' = "cancelled"
              \/ /\ k \in Actions /\ c \notin aborted
                 /\ call'[c] = [pc |-> "look", k |-> k, seen |-> step[k]]
                 /\ UNCHANGED <<status, controller, aborted>>
<1> USE AutomationAssumption
<1>1. CASE k > LastAction
  <2>1. Leave(c) /\ status' = "completed" /\ k = LastAction + 1
    BY <1>1 DEF Proceed, finishRun
  <2> QED
    BY <2>1, Leaves
<1>2. CASE ~(k > LastAction) /\ c \in aborted
  <2>1. Leave(c) /\ status' = "cancelled"
    BY <1>2 DEF Proceed, finishRun
  <2> QED
    BY <2>1, Leaves
<1>3. CASE ~(k > LastAction) /\ c \notin aborted
  <2> DEFINE rec == [pc |-> "look", k |-> k, seen |-> step[k]]
  <2>1. k \in Actions
    BY <1>3 DEF Actions
  <2>2. rec \in CallRecs
    BY <2>1 DEF TypeOK, CallRecs, Places
  <2>3. call' = [call EXCEPT ![c] = rec] /\ UNCHANGED <<status, controller, aborted>>
    BY <1>3 DEF Proceed, memory
  <2> HIDE DEF rec
  <2>4. call' \in [Calls -> CallRecs] /\ call'[c] = rec /\ \A d \in Calls \ {c} : call'[d] = call[d]
    BY <2>2, <2>3, Becomes
  <2> QED
    BY <1>3, <2>1, <2>3, <2>4 DEF rec
<1> QED
  BY <1>1, <1>2, <1>3

(***************************************************************************)
(* The forms a step of a call of run takes.                                *)
(***************************************************************************)
Same(c, places, place) ==
    /\ call[c].pc \in places /\ call'[c].pc = place
    /\ call'[c].k = call[c].k

Begins(c) ==
    /\ call[c].pc \in {"start", "insert"} /\ call'[c].pc \in {"insert", "enter", "idle"}
    /\ status' \in {status, "running"} /\ (status' # status => status = "absent")
    /\ UNCHANGED <<step, memory, effects, late>>

Looks(c) ==
    /\ At(c, "enter") \/ InLoop(c)
    /\ \E k \in Actions :
          /\ call'[c] = [pc |-> "look", k |-> k, seen |-> step[k]]
          /\ Proved => \A j \in Actions : j < k => step[j] = "verified"
    /\ c \notin aborted /\ controller' \in {controller, c}
    /\ UNCHANGED <<status, step, aborted, effects, late>>

Ends(c) ==
    /\ call[c].pc # "idle" /\ call'[c].pc = "idle"
    /\ controller' = NoCall /\ aborted' = aborted \ {c}
    /\ \/ status' \in {status, "unknown", "cancelled"}
       \/ status' = "completed" /\ (Proved => \A i \in Actions : step[i] = "verified")
    /\ UNCHANGED <<step, effects, late>>

Invokes(c) ==
    /\ Same(c, {"look"}, "invoking") /\ call[c].seen = "none"
    /\ UNCHANGED <<status, step, memory, effects, late>>

Acts(c) ==
    /\ Same(c, {"invoking"}, "acted")
    /\ effects[call[c].k] < MaxEffects
    /\ effects' = [effects EXCEPT ![call[c].k] = @ + 1]
    /\ late' = [late EXCEPT ![c] = IF c \in aborted THEN @ + 1 ELSE @]
    /\ UNCHANGED <<status, step, memory>>

Judges(c) ==
    /\ Same(c, {"acted"}, "record") /\ call'[c].seen \in Evidence
    /\ UNCHANGED <<status, step, memory, effects, late>>

Records(c) ==
    /\ Same(c, {"record"}, "recorded") /\ call'[c].seen = call[c].seen
    /\ step[call[c].k] = "none" /\ step' = [step EXCEPT ![call[c].k] = call[c].seen]
    /\ UNCHANGED <<status, memory, effects, late>>

Form(c) ==
    /\ call' \in [Calls -> CallRecs] /\ \A d \in Calls \ {c} : call'[d] = call[d]
    /\ UNCHANGED <<attempted, closed, repair, cut, overlap, crashes>>
    /\ \/ Begins(c) \/ Looks(c) \/ Ends(c) \/ Invokes(c)
       \/ Acts(c) \/ Judges(c) \/ Records(c)

\* A call that has found action k proved goes on to the next, or ends.
LEMMA NextAction ==
    ASSUME TypeOK, Ordered, NEW c \in Calls, InLoop(c), Proceed(c, call[c].k + 1),
           Proved => step[call[c].k] = "verified", UNCHANGED <<step, effects, late>>
    PROVE  /\ call' \in [Calls -> CallRecs] /\ \A d \in Calls \ {c} : call'[d] = call[d]
           /\ Looks(c) \/ Ends(c)
<1> DEFINE k == call[c].k
<1>1. k \in Actions /\ k + 1 \in 1..LastAction + 1
  BY AutomationAssumption DEF Ordered, Actions
<1>2. Proved => \A j \in Actions : j < k + 1 => step[j] = "verified"
  <2> SUFFICES ASSUME Proved, NEW j \in Actions, j < k + 1 PROVE step[j] = "verified"
    OBVIOUS
  <2>1. \A i \in Actions : i < k => step[i] = "verified"
    BY DEF Proved
  <2> QED
    BY <1>1, <2>1, AutomationAssumption DEF Actions
<1>3. k + 1 = LastAction + 1 => (Proved => \A i \in Actions : step[i] = "verified")
  BY <1>2, AutomationAssumption DEF Actions
<1>4. Proceed(c, k + 1)
  OBVIOUS
<1> HIDE DEF k
<1>5. /\ call' \in [Calls -> CallRecs]
      /\ \A d \in Calls \ {c} : call'[d] = call[d]
      /\ \/ /\ Leave(c) /\ call'[c].pc = "idle"
            /\ controller' = NoCall /\ aborted' = aborted \ {c}
            /\ (status' = "completed" /\ k + 1 = LastAction + 1) \/ status' = "cancelled"
         \/ /\ k + 1 \in Actions /\ c \notin aborted
            /\ call'[c] = [pc |-> "look", k |-> k + 1, seen |-> step[k + 1]]
            /\ UNCHANGED <<status, controller, aborted>>
  BY <1>1, <1>4, Proceeds
<1> QED
  BY <1>2, <1>3, <1>5 DEF Looks, Ends, InLoop

\* Every step of a call has one of these forms.
LEMMA Forms ==
    ASSUME TypeOK, Ordered, NEW c \in Calls, RunStep(c)
    PROVE  Form(c)
<1> USE AutomationAssumption
<1>1. CASE startRun(c)
  <2>1. PICK pc \in {"insert", "enter"} : Go(c, pc)
    BY <1>1 DEF startRun
  <2>2. pc \in Places
    BY DEF Places
  <2>3. UNCHANGED <<rows, memory, repair, cut, effects, history, crashes>> /\ At(c, "start")
    BY <1>1 DEF startRun
  <2> QED
    BY <2>1, <2>2, <2>3, Moves DEF Form, Begins, rows, memory, history, At
<1>2. CASE InsertRun(c)
  <2>1. UNCHANGED <<step, attempted, closed, memory, repair, cut, effects, history, crashes>>
        /\ At(c, "insert")
    BY <1>2 DEF InsertRun
  <2>2. CASE status = "absent"
    <3>1. Go(c, "enter") /\ status' = "running"
      BY <1>2, <2>2 DEF InsertRun
    <3>2. "enter" \in Places
      BY DEF Places
    <3> QED
      BY <2>1, <2>2, <3>1, <3>2, Moves DEF Form, Begins, memory, history, At
  <2>3. CASE status # "absent"
    <3>1. call' = [call EXCEPT ![c] = AtRest] /\ status' = status /\ AtRest.pc = "idle"
      BY <1>2, <2>3 DEF InsertRun, AtRest
    <3> QED
      BY <2>1, <3>1, Rests, Becomes DEF Form, Begins, memory, history, At
  <2> QED
    BY <2>2, <2>3
<1>3. CASE Enter(c)
  <2>1. UNCHANGED <<step, attempted, closed, repair, cut, effects, history, crashes>>
        /\ At(c, "enter")
    BY <1>3 DEF Enter
  <2>2. CASE LastAction = 0
    <3>1. Leave(c) /\ status' = "completed" /\ Actions = {}
      BY <1>3, <2>2 DEF Enter, finishRun, Actions
    <3> QED
      BY <2>1, <3>1, Leaves DEF Form, Ends, history, At
  <2>3. CASE LastAction # 0
    <3> DEFINE rec == [pc |-> "look", k |-> 1, seen |-> step[1]]
    <3>1. 1 \in Actions /\ \A j \in Actions : ~(j < 1)
      BY <2>3 DEF Actions
    <3>2. rec \in CallRecs
      BY <3>1 DEF TypeOK, CallRecs, Places, Actions
    <3>3. call' = [call EXCEPT ![c] = rec] /\ controller' = c /\ UNCHANGED <<status, aborted>>
      BY <1>3, <2>3 DEF Enter
    <3>4. c \notin aborted
      BY <2>1 DEF TypeOK, InLoop, At
    <3> HIDE DEF rec
    <3>5. call' \in [Calls -> CallRecs] /\ call'[c] = rec /\ \A d \in Calls \ {c} : call'[d] = call[d]
      BY <3>2, <3>3, Becomes
    <3>6. Looks(c)
      BY <2>1, <3>1, <3>3, <3>4, <3>5 DEF Looks, rec, history
    <3> QED
      BY <2>1, <3>5, <3>6 DEF Form, history
  <2> QED
    BY <2>2, <2>3
<1>4. CASE Look(c)
  <2>1. UNCHANGED <<step, attempted, closed, repair, cut, effects, history, crashes>>
        /\ At(c, "look") /\ InLoop(c)
    BY <1>4 DEF Look, At, InLoop
  <2>2. CASE call[c].seen = "unknown" /\ finishRun(c, "unknown")
    BY <2>1, <2>2, Leaves DEF Form, Ends, finishRun, history, At
  <2>3. CASE call[c].seen = "verified" /\ Proceed(c, call[c].k + 1)
    <3>1. Proved => step[call[c].k] = "verified"
      BY <2>1, <2>3 DEF Proved, At
    <3> QED
      BY <2>1, <2>3, <3>1, NextAction DEF Form, history
  <2>4. CASE call[c].seen = "none" /\ cut /\ Throw(c)
    BY <2>1, <2>4, Leaves DEF Form, Ends, Throw, history, At
  <2>5. CASE call[c].seen = "none" /\ ~cut /\ Go(c, "invoking") /\ UNCHANGED <<status, memory>>
    <3>1. "invoking" \in Places
      BY DEF Places
    <3> QED
      BY <2>1, <2>5, <3>1, Moves DEF Form, Invokes, Same, history, At
  <2> QED
    BY <1>4, <2>2, <2>3, <2>4, <2>5 DEF Look
<1>5. CASE Effect(c)
  <2>1. "acted" \in Places
    BY DEF Places
  <2> QED
    BY <1>5, <2>1, Moves DEF Effect, Form, Acts, Same, rows, At
<1>6. CASE InvokeThrows(c)
  BY <1>6, Leaves DEF InvokeThrows, Form, Ends, Throw, history, At
<1>7. CASE Verify(c)
  <2>1. PICK e \in Evidence : call' = [call EXCEPT ![c].pc = "record", ![c].seen = e]
    BY <1>7 DEF Verify
  <2>2. UNCHANGED <<rows, memory, repair, cut, effects, history, crashes>> /\ At(c, "acted")
    BY <1>7 DEF Verify
  <2> QED
    BY <2>1, <2>2, Verifies DEF Form, Judges, Same, rows, history, At
<1>8. CASE recordStep(c)
  <2>1. UNCHANGED <<attempted, closed, repair, cut, effects, history, crashes>> /\ At(c, "record")
    BY <1>8 DEF recordStep
  <2>2. CASE step[call[c].k] = "none"
    <3>1. Go(c, "recorded") /\ UNCHANGED <<status, memory>>
          /\ step' = [step EXCEPT ![call[c].k] = call[c].seen]
      BY <1>8, <2>2 DEF recordStep
    <3>2. "recorded" \in Places
      BY DEF Places
    <3> QED
      BY <2>1, <2>2, <3>1, <3>2, Moves DEF Form, Records, Same, history, At
  <2>3. CASE step[call[c].k] # "none"
    BY <1>8, <2>1, <2>3, Leaves DEF recordStep, Form, Ends, Throw, history, At
  <2> QED
    BY <2>2, <2>3
<1>9. CASE Recorded(c)
  <2>1. UNCHANGED <<step, attempted, closed, repair, cut, effects, history, crashes>>
        /\ At(c, "recorded") /\ InLoop(c)
    BY <1>9 DEF Recorded, At, InLoop
  <2>2. CASE call[c].seen = "unknown"
    BY <1>9, <2>1, <2>2, Leaves DEF Recorded, Form, Ends, finishRun, history, At
  <2>3. CASE call[c].seen # "unknown"
    <3>1. (Proved => step[call[c].k] = "verified") /\ Proceed(c, call[c].k + 1)
      BY <1>9, <2>1, <2>3 DEF Recorded, Ordered, Proved, At, Evidence
    <3> QED
      BY <2>1, <3>1, NextAction DEF Form, history
  <2> QED
    BY <2>2, <2>3
<1> QED
  BY <1>1, <1>2, <1>3, <1>4, <1>5, <1>6, <1>7, <1>8, <1>9 DEF RunStep

(***************************************************************************)
(* A step of a call of run keeps each part of the invariant.               *)
(***************************************************************************)
\* The types, and where a call is.
LEMMA StepTypes ==
    ASSUME TypeOK, Ordered, NEW c \in Calls, Form(c)
    PROVE  TypeOK' /\ Ordered'
<1> USE AutomationAssumption
<1>0. /\ call' \in [Calls -> CallRecs] /\ \A d \in Calls \ {c} : call'[d] = call[d]
      /\ UNCHANGED <<attempted, closed, repair, cut, overlap, crashes>>
  BY DEF Form
<1>1. /\ status' \in {"absent", "running"} \cup Terminal
      /\ step' \in [Actions -> {"none"} \cup Evidence]
      /\ effects' \in [Actions -> 0..MaxEffects] /\ late' \in [Calls -> Nat]
      /\ controller' \in Calls \cup {NoCall} /\ aborted' \subseteq Calls
      /\ \A d \in aborted' \cup ({controller'} \ {NoCall}) : InLoop(d)'
      /\ InLoop(c)' => call'[c].k \in Actions
      /\ InLoop(c)' => (call'[c].pc \in {"record", "recorded"} => call'[c].seen \in Evidence)
  <2>1. CASE Begins(c)
    BY <1>0, <2>1 DEF Begins, TypeOK, Terminal, memory, InLoop
  <2>2. CASE Looks(c)
    BY <1>0, <2>2 DEF Looks, TypeOK, InLoop
  <2>3. CASE Ends(c)
    BY <1>0, <2>3 DEF Ends, TypeOK, Terminal, InLoop
  <2>4. CASE Invokes(c)
    BY <1>0, <2>4 DEF Invokes, Same, TypeOK, Ordered, memory, InLoop
  <2>5. CASE Acts(c)
    <3>1. call[c].k \in Actions /\ InLoop(c) /\ InLoop(c)' /\ call'[c].pc = "acted" /\ call'[c].k = call[c].k
      BY <2>5 DEF Acts, Same, Ordered, InLoop
    <3>2. effects' \in [Actions -> 0..MaxEffects]
      BY <2>5, <3>1 DEF Acts, TypeOK
    <3>3. late' \in [Calls -> Nat]
      BY <2>5 DEF Acts, TypeOK
    <3>4. UNCHANGED <<status, step, controller, aborted>>
      BY <2>5 DEF Acts, memory
    <3> QED
      BY <1>0, <3>1, <3>2, <3>3, <3>4 DEF TypeOK, InLoop
  <2>6. CASE Judges(c)
    BY <1>0, <2>6 DEF Judges, Same, TypeOK, Ordered, memory, InLoop
  <2>7. CASE Records(c)
    <3>1. /\ call[c].k \in Actions /\ call[c].seen \in Evidence
          /\ InLoop(c)' /\ call'[c].k = call[c].k /\ call'[c].seen = call[c].seen
      BY <2>7 DEF Records, Same, Ordered, InLoop
    <3>2. step' \in [Actions -> {"none"} \cup Evidence]
      BY <2>7, <3>1 DEF Records, TypeOK
    <3>3. UNCHANGED <<status, controller, aborted, effects, late>>
      BY <2>7 DEF Records, memory
    <3> QED
      BY <1>0, <3>1, <3>2, <3>3 DEF TypeOK, InLoop
  <2> QED
    BY <2>1, <2>2, <2>3, <2>4, <2>5, <2>6, <2>7 DEF Form
<1>2. TypeOK'
  BY <1>0, <1>1 DEF TypeOK, CallRecs, Places
<1>3. Ordered'
  BY <1>0, <1>1 DEF Ordered, InLoop
<1> QED
  BY <1>2, <1>3

\* What a cancelled call has carried out.
LEMMA StepCounted ==
    ASSUME TypeOK, Counted, NEW c \in Calls, Form(c)
    PROVE  Counted'
<1>0. \A d \in Calls \ {c} : call'[d] = call[d] /\ late'[d] = late[d] /\ (d \in aborted => d \in aborted')
  BY DEF Form, Begins, Looks, Ends, Invokes, Acts, Judges, Records, memory, TypeOK
<1>1. /\ late'[c] <= 1
      /\ late'[c] > 0 /\ InLoop(c)' => c \in aborted' /\ call'[c].pc \in {"acted", "record", "recorded"}
      /\ call'[c].pc \in {"start", "insert", "enter"} => late'[c] = 0
  <2>1. CASE Begins(c)
    BY <2>1 DEF Begins, Counted, TypeOK, memory, InLoop
  <2>2. CASE Looks(c)
    BY <2>2 DEF Looks, Counted, TypeOK, At, InLoop
  <2>3. CASE Ends(c)
    BY <2>3 DEF Ends, Counted, InLoop
  <2>4. CASE Invokes(c)
    BY <2>4 DEF Invokes, Same, Counted, TypeOK, memory, InLoop
  <2>5. CASE Acts(c)
    BY <2>5 DEF Acts, Same, Counted, TypeOK, memory, InLoop
  <2>6. CASE Judges(c)
    BY <2>6 DEF Judges, Same, Counted, TypeOK, memory, InLoop
  <2>7. CASE Records(c)
    BY <2>7 DEF Records, Same, Counted, TypeOK, memory, InLoop
  <2> QED
    BY <2>1, <2>2, <2>3, <2>4, <2>5, <2>6, <2>7 DEF Form
<1> QED
  BY <1>0, <1>1 DEF Counted, InLoop

\* No step of a call takes a row away, or changes the evidence of one.
LEMMA StepRows ==
    ASSUME TypeOK, Ordered, NEW c \in Calls, Form(c)
    PROVE  \A i \in Actions : step[i] # "none" => step'[i] = step[i]
BY DEF Form, Begins, Looks, Ends, Invokes, Acts, Judges, Records, Same, TypeOK, Ordered, InLoop

\* The actions found proved.
LEMMA StepProved ==
    ASSUME TypeOK, Ordered, Proved, NEW c \in Calls, Form(c)
    PROVE  Proved'
<1>0. \A i \in Actions : step[i] # "none" => step'[i] = step[i]
  BY StepRows
<1>1. \A d \in Calls \ {c} : call'[d] = call[d]
  BY DEF Form
<1>2. InLoop(c)' =>
        /\ \A j \in Actions : j < call'[c].k => step'[j] = "verified"
        /\ call'[c].pc \in {"look", "recorded"} /\ call'[c].seen = "verified"
              => step'[call'[c].k] = "verified"
  <2>1. CASE Begins(c)
    BY <2>1 DEF Begins, InLoop
  <2>2. CASE Looks(c)
    BY <1>0, <2>2 DEF Looks
  <2>3. CASE Ends(c)
    BY <2>3 DEF Ends, InLoop
  <2>4. CASE Invokes(c) \/ Acts(c) \/ Judges(c)
    <3>1. InLoop(c) /\ call'[c].k = call[c].k /\ call'[c].pc \notin {"look", "recorded"}
      BY <2>4 DEF Invokes, Acts, Judges, Same, InLoop
    <3> QED
      BY <1>0, <3>1 DEF Proved
  <2>5. CASE Records(c)
    <3>1. /\ InLoop(c) /\ call'[c].k = call[c].k /\ call'[c].seen = call[c].seen
          /\ call[c].k \in Actions
      BY <2>5 DEF Records, Same, InLoop, Ordered
    <3>2. step'[call[c].k] = call[c].seen
      BY <2>5, <3>1 DEF Records, TypeOK
    <3> QED
      BY <1>0, <3>1, <3>2 DEF Proved
  <2> QED
    BY <2>1, <2>2, <2>3, <2>4, <2>5 DEF Form
<1>3. \A d \in Calls \ {c} : InLoop(d) => call[d].k \in Actions
  BY DEF Ordered
<1> QED
  BY <1>0, <1>1, <1>2, <1>3 DEF Proved, InLoop

\* The action of a call that is alone.
LEMMA StepAlone ==
    ASSUME TypeOK, Ordered, Alone, NEW c \in Calls, Form(c)
    PROVE  Alone'
<1> SUFFICES ASSUME ~overlap'
             PROVE  /\ (\A d, e \in Calls : ~At(d, "idle") /\ ~At(e, "idle") => d = e)'
                    /\ (\A d \in Calls :
                          \/ call[d].pc \in {"invoking", "acted", "record"}
                          \/ At(d, "look") /\ call[d].seen = "none"
                          => step[call[d].k] = "none")'
  BY DEF Alone
<1>0. /\ \A d \in Calls \ {c} : call'[d] = call[d]
      /\ ~overlap /\ ~At(c, "idle")
  BY DEF Form, Begins, Looks, Ends, Invokes, Acts, Judges, Records, Same, At, InLoop
<1>1. \A d \in Calls \ {c} : call'[d].pc = "idle"
  BY <1>0 DEF Alone, At
<1>2. \/ call'[c].pc \in {"invoking", "acted", "record"}
      \/ At(c, "look")' /\ call'[c].seen = "none"
      => step'[call'[c].k] = "none"
  <2>1. CASE Begins(c) \/ Ends(c) \/ Records(c)
    BY <2>1 DEF Begins, Ends, Records, Same, At
  <2>3. CASE Looks(c)
    <3>1. PICK k \in Actions : call'[c] = [pc |-> "look", k |-> k, seen |-> step[k]]
      BY <2>3 DEF Looks
    <3>2. step' = step
      BY <2>3 DEF Looks
    <3> QED
      BY <3>1, <3>2 DEF At
  <2>2. CASE Invokes(c) \/ Acts(c) \/ Judges(c)
    BY <1>0, <2>2 DEF Alone, Invokes, Acts, Judges, Same, At
  <2> QED
    BY <2>1, <2>2, <2>3 DEF Form
<1> QED
  BY <1>1, <1>2 DEF At

(***************************************************************************)
(* The forms a step of a reconciliation takes.                             *)
(***************************************************************************)
Opens(r) ==
    /\ repair'[r].pc = "attempt" /\ repair'[r].todo = {i \in Actions : step[i] = "unknown"}
    /\ UNCHANGED <<status, step, attempted>>

Tells(r) ==
    /\ repair'[r].todo \subseteq repair[r].todo
    /\ (repair'[r].pc = "update" /\ ~LateEvidence => repair'[r].verdict = "unknown")
    /\ status' \in {status, "unknown", "running"} /\ attempted' \in BOOLEAN /\ UNCHANGED step

Updates(r) ==
    /\ repair[r].pc = "update" /\ repair'[r].pc = "verify"
    /\ \E i \in repair[r].todo :
          /\ step' = [step EXCEPT ![i] = repair[r].verdict]
          /\ repair'[r].todo = repair[r].todo \ {i}
    /\ UNCHANGED <<status, attempted>>

RepairForm(r) ==
    /\ repair' \in [Reconcilers -> RepairRecs]
    /\ \A q \in Reconcilers \ {r} : repair'[q] = repair[q]
    /\ UNCHANGED <<closed, memory, call, cut, effects, history, crashes>>
    /\ Opens(r) \/ Tells(r) \/ Updates(r)

\* A reconciliation whose record becomes rec.
LEMMA RepairBecomes ==
    ASSUME TypeOK, NEW r \in Reconcilers, NEW rec \in RepairRecs,
           repair' = [repair EXCEPT ![r] = rec]
    PROVE  /\ repair' \in [Reconcilers -> RepairRecs] /\ repair'[r] = rec
           /\ \A q \in Reconcilers \ {r} : repair'[q] = repair[q]
<1> repair \in [Reconcilers -> RepairRecs]
  BY DEF TypeOK, RepairRecs
<1> QED
  OBVIOUS

\* Every step of a reconciliation has one of these forms.
LEMMA RepairForms ==
    ASSUME TypeOK, NEW r \in Reconcilers, ReconcileStep(r)
    PROVE  RepairForm(r)
<1>0. repair[r] \in RepairRecs /\ repair \in [Reconcilers -> RepairRecs]
  BY DEF TypeOK, RepairRecs
<1>1. CASE Reconcile(r)
  <2> DEFINE rec == [Idle EXCEPT !.pc = "attempt", !.todo = {i \in Actions : step[i] = "unknown"}]
  <2>1. rec \in RepairRecs /\ rec.pc = "attempt" /\ rec.todo = {i \in Actions : step[i] = "unknown"}
    BY DEF Idle, RepairRecs, Evidence
  <2>2. repair' = [repair EXCEPT ![r] = rec]
        /\ UNCHANGED <<rows, memory, call, cut, effects, history, crashes>>
    BY <1>1 DEF Reconcile
  <2> HIDE DEF rec
  <2> QED
    BY <2>1, <2>2, RepairBecomes DEF RepairForm, Opens, rows
<1>6. CASE recordReconciliationAttempt(r)
  <2> DEFINE rec == [repair[r] EXCEPT !.pc = "verify"]
  <2>1. rec \in RepairRecs /\ rec.pc = "verify" /\ rec.todo = repair[r].todo
    BY <1>0 DEF RepairRecs
  <2>2. repair' = [repair EXCEPT ![r] = rec] /\ attempted' = TRUE
        /\ UNCHANGED <<status, step, closed, memory, call, cut, effects, history, crashes>>
    BY <1>0, <1>6 DEF recordReconciliationAttempt
  <2> HIDE DEF rec
  <2> QED
    BY <2>1, <2>2, RepairBecomes DEF RepairForm, Tells
<1>2. CASE Reverify(r)
  <2>1. PICK e \in IF LateEvidence THEN Evidence ELSE {"unknown"} :
          repair' = [repair EXCEPT ![r].pc = "update", ![r].verdict = e]
    BY <1>2 DEF Reverify
  <2> DEFINE rec == [repair[r] EXCEPT !.pc = "update", !.verdict = e]
  <2>2. e \in Evidence /\ (~LateEvidence => e = "unknown")
    BY <2>1 DEF Evidence
  <2>3. rec \in RepairRecs /\ rec.pc = "update" /\ rec.todo = repair[r].todo /\ rec.verdict = e
    BY <1>0, <2>2 DEF RepairRecs
  <2>4. repair' = [repair EXCEPT ![r] = rec]
    BY <1>0, <2>1
  <2>5. UNCHANGED <<rows, memory, call, cut, effects, history, crashes>>
    BY <1>2 DEF Reverify
  <2> HIDE DEF rec
  <2> QED
    BY <2>2, <2>3, <2>4, <2>5, RepairBecomes DEF RepairForm, Tells, rows, TypeOK
<1>3. CASE updateStepEvidence(r)
  <2>1. PICK i \in repair[r].todo :
          /\ step' = [step EXCEPT ![i] = repair[r].verdict]
          /\ repair' = [repair EXCEPT ![r].pc = "verify", ![r].todo = @ \ {i}]
    BY <1>3 DEF updateStepEvidence
  <2> DEFINE rec == [repair[r] EXCEPT !.pc = "verify", !.todo = @ \ {i}]
  <2>2. rec \in RepairRecs /\ rec.pc = "verify" /\ rec.todo = repair[r].todo \ {i}
    BY <1>0 DEF RepairRecs
  <2>3. repair' = [repair EXCEPT ![r] = rec]
    BY <1>0, <2>1
  <2>4. UNCHANGED <<status, attempted, closed, memory, call, cut, effects, history, crashes>>
        /\ repair[r].pc = "update"
    BY <1>3 DEF updateStepEvidence
  <2> HIDE DEF rec
  <2> QED
    BY <2>1, <2>2, <2>3, <2>4, RepairBecomes DEF RepairForm, Updates
<1>4. CASE ReadBack(r)
  <2> DEFINE e == IF \E i \in Actions : step[i] = "unknown" THEN "unknown" ELSE "verified"
             rec == [repair[r] EXCEPT !.pc = "finish", !.verdict = e]
  <2>1. e \in Evidence
    BY DEF Evidence
  <2>2. repair' = [repair EXCEPT ![r].pc = "finish", ![r].verdict = e]
    BY <1>4 DEF ReadBack
  <2>3. UNCHANGED <<rows, memory, call, cut, effects, history, crashes>>
    BY <1>4 DEF ReadBack
  <2> HIDE DEF e
  <2>4. rec \in RepairRecs /\ rec.pc = "finish" /\ rec.todo = repair[r].todo
    BY <1>0, <2>1 DEF RepairRecs
  <2>5. repair' = [repair EXCEPT ![r] = rec]
    BY <1>0, <2>2
  <2> HIDE DEF rec
  <2> QED
    BY <2>3, <2>4, <2>5, RepairBecomes DEF RepairForm, Tells, rows, TypeOK
<1>5. CASE FinishReconcile(r)
  <2>1. repair' = [repair EXCEPT ![r] = Idle] /\ status' \in {"unknown", "running"}
        /\ UNCHANGED <<step, attempted, closed, memory, call, cut, effects, history, crashes>>
    BY <1>5 DEF FinishReconcile
  <2>2. Idle.pc = "idle" /\ Idle.todo = {}
    BY DEF Idle
  <2> QED
    BY <2>1, <2>2, Rests, RepairBecomes DEF RepairForm, Tells, TypeOK
<1> QED
  BY <1>1, <1>2, <1>3, <1>4, <1>5, <1>6 DEF ReconcileStep

\* A step of a reconciliation changes only the evidence of rows there are.
LEMMA RepairKeeps ==
    ASSUME TypeOK, Ordered, Read, NEW r \in Reconcilers, RepairForm(r)
    PROVE  /\ TypeOK' /\ Ordered' /\ Read'
           /\ \A i \in Actions : step[i] = "none" <=> step'[i] = "none"
<1>0. /\ repair' \in [Reconcilers -> RepairRecs]
      /\ \A q \in Reconcilers \ {r} : repair'[q] = repair[q]
      /\ UNCHANGED <<closed, memory, call, cut, effects, history, crashes>>
  BY DEF RepairForm
<1>1. /\ status' \in {"absent", "running"} \cup Terminal
      /\ step' \in [Actions -> {"none"} \cup Evidence] /\ attempted' \in BOOLEAN
      /\ \A i \in Actions : step[i] = "none" <=> step'[i] = "none"
      /\ \A i \in repair'[r].todo : step'[i] # "none"
  <2>1. CASE Opens(r)
    BY <2>1 DEF Opens, TypeOK
  <2>2. CASE Tells(r)
    BY <2>2 DEF Tells, TypeOK, Terminal, Read
  <2>3. CASE Updates(r)
    <3>1. PICK i \in repair[r].todo :
            /\ step' = [step EXCEPT ![i] = repair[r].verdict]
            /\ repair'[r].todo = repair[r].todo \ {i}
      BY <2>3 DEF Updates
    <3>2. i \in Actions /\ repair[r].verdict \in Evidence /\ repair[r].todo \subseteq Actions
      BY DEF TypeOK
    <3>3. step[i] # "none" /\ repair[r].verdict # "none"
      BY <3>2 DEF Read, Evidence
    <3>4. UNCHANGED <<status, attempted>>
      BY <2>3 DEF Updates
    <3> QED
      BY <3>1, <3>2, <3>3, <3>4 DEF TypeOK, Read
  <2> QED
    BY <2>1, <2>2, <2>3 DEF RepairForm
<1>2. TypeOK'
  BY <1>0, <1>1 DEF TypeOK, RepairRecs, CallRecs, InLoop, memory, history
<1>3. Ordered'
  BY <1>0 DEF Ordered, InLoop
<1>4. Read'
  <2>1. \A q \in Reconcilers : repair[q].todo \subseteq Actions
    BY DEF TypeOK
  <2> QED
    BY <1>0, <1>1, <2>1 DEF Read
<1> QED
  BY <1>1, <1>2, <1>3, <1>4

(***************************************************************************)
(* The invariant.                                                          *)
(***************************************************************************)
Kept == TypeOK /\ Ordered /\ Counted /\ Read /\ Alone
Sound == Proved /\ Repairs /\ CompletedVerified

\* The invariant holds at first.
LEMMA InitKept == Init => Kept /\ Sound
<1> SUFFICES ASSUME Init PROVE Kept /\ Sound
  OBVIOUS
<1>1. /\ \A c \in Calls : call[c].pc = "idle" /\ late[c] = 0
      /\ \A r \in Reconcilers : repair[r].pc = "idle" /\ repair[r].todo = {}
      /\ status = "absent" /\ overlap = FALSE
  BY DEF Init, AtRest, Idle
<1> QED
  BY <1>1, InitTypes DEF Kept, Sound, Ordered, Counted, Read, Alone, Proved, Repairs,
     CompletedVerified, InLoop, At

\* A call that begins keeps it.
LEMMA RunKept ==
    ASSUME Kept, NEW c \in Calls, Run(c)
    PROVE  Kept' /\ (Sound => Sound')
<1>1. /\ At(c, "idle") /\ Go(c, "start")
      /\ overlap' = (overlap \/ \E d \in Calls : ~At(d, "idle"))
      /\ late' = [late EXCEPT ![c] = 0]
      /\ UNCHANGED <<rows, memory, repair, cut, effects, crashes>>
  BY DEF Run
<1>2. "start" \in Places
  BY DEF Places
<1>3. /\ call' \in [Calls -> CallRecs] /\ call'[c].pc = "start"
      /\ \A d \in Calls \ {c} : call'[d] = call[d]
  BY <1>1, <1>2, Moves DEF Kept
<1>4. late' \in [Calls -> Nat] /\ late'[c] = 0 /\ \A d \in Calls \ {c} : late'[d] = late[d]
  BY <1>1 DEF Kept, TypeOK
<1>5. TypeOK'
  <2>1. \A d \in Calls : InLoop(d) => InLoop(d)'
    BY <1>1, <1>3 DEF InLoop, At
  <2>2. overlap' \in BOOLEAN
    BY <1>1 DEF Kept, TypeOK
  <2> QED
    BY <1>1, <1>3, <1>4, <2>1, <2>2 DEF Kept, TypeOK, CallRecs, Places, rows, memory
<1>6. Ordered' /\ Counted' /\ Read'
  BY <1>1, <1>3, <1>4 DEF Kept, Ordered, Counted, Read, InLoop, rows, memory
<1>7. Alone'
  <2> SUFFICES ASSUME ~overlap' PROVE Alone'
    BY DEF Alone
  <2>1. ~overlap /\ \A d \in Calls : At(d, "idle")
    BY <1>1
  <2>2. \A d \in Calls \ {c} : call'[d].pc = "idle"
    BY <1>3, <2>1 DEF At
  <2> QED
    BY <1>3, <2>2 DEF Alone, At
<1>8. Sound => Sound'
  BY <1>1, <1>3 DEF Sound, Proved, Repairs, CompletedVerified, InLoop, rows
<1> QED
  BY <1>5, <1>6, <1>7, <1>8 DEF Kept

\* So does a step of a call,
LEMMA FormKept ==
    ASSUME Kept, NEW c \in Calls, Form(c)
    PROVE  Kept' /\ (Sound => Sound')
<1>1. TypeOK' /\ Ordered' /\ Counted' /\ Alone'
  BY StepTypes, StepCounted, StepAlone DEF Kept
<1>2. \A i \in Actions : step[i] # "none" => step'[i] = step[i]
  BY StepRows DEF Kept
<1>3. repair' = repair /\ \A r \in Reconcilers : repair[r].todo \subseteq Actions
  BY DEF Form, Kept, TypeOK
<1>4. Read'
  BY <1>2, <1>3 DEF Kept, Read
<1>5. ASSUME Sound PROVE Sound'
  <2>1. Proved'
    BY <1>5, StepProved DEF Kept, Sound
  <2>2. Repairs'
    BY <1>2, <1>3, <1>5 DEF Sound, Repairs
  <2>3. CompletedVerified'
    <3> SUFFICES ASSUME status' = "completed", NEW i \in Actions PROVE step'[i] = "verified"
      BY DEF CompletedVerified
    <3>1. CASE status = "completed"
      BY <1>2, <1>5, <3>1 DEF Sound, CompletedVerified
    <3>2. CASE status # "completed"
      <4>1. Ends(c)
        BY <3>2 DEF Form, Begins, Looks, Ends, Invokes, Acts, Judges, Records
      <4> QED
        BY <1>5, <3>2, <4>1 DEF Ends, Sound
    <3> QED
      BY <3>1, <3>2
  <2> QED
    BY <2>1, <2>2, <2>3 DEF Sound
<1> QED
  BY <1>1, <1>4, <1>5 DEF Kept

\* a step of a reconciliation,
LEMMA RepairKept ==
    ASSUME Kept, NEW r \in Reconcilers, RepairForm(r)
    PROVE  Kept' /\ (OneRepair /\ Sound => Sound')
<1>1. /\ TypeOK' /\ Ordered' /\ Read'
      /\ \A i \in Actions : step[i] = "none" <=> step'[i] = "none"
  BY RepairKeeps DEF Kept
<1>2. UNCHANGED <<call, aborted, overlap, late>>
  BY DEF RepairForm, memory, history
<1>3. Counted'
  BY <1>2 DEF Kept, Counted, InLoop
<1>4. Alone'
  <2> SUFFICES ASSUME ~overlap' PROVE Alone'
    BY DEF Alone
  <2>1. \A c \in Calls : call[c].pc \in {"look", "invoking", "acted", "record"} => call[c].k \in Actions
    BY DEF Kept, Ordered, InLoop
  <2> QED
    BY <1>1, <1>2, <2>1 DEF Kept, Alone, At
<1>5. ASSUME OneRepair, Sound PROVE Sound'
  <2>1. /\ \A i \in Actions : step[i] = "verified" => step'[i] = "verified"
        /\ \A i \in repair'[r].todo : step'[i] = "unknown"
        /\ repair'[r].pc = "update" /\ ~LateEvidence => repair'[r].verdict = "unknown"
        /\ \A q \in Reconcilers \ {r} : \A i \in repair[q].todo : step'[i] = "unknown"
    <3>1. CASE Opens(r)
      BY <1>5, <3>1 DEF Opens, Sound, Repairs
    <3>2. CASE Tells(r)
      BY <1>5, <3>2 DEF Tells, Sound, Repairs
    <3>3. CASE Updates(r)
      <4>1. PICK i \in repair[r].todo :
              /\ step' = [step EXCEPT ![i] = repair[r].verdict]
              /\ repair'[r].todo = repair[r].todo \ {i}
        BY <3>3 DEF Updates
      <4>2. i \in Actions /\ \A q \in Reconcilers : repair[q].todo \subseteq Actions
        BY DEF Kept, TypeOK
      <4>3. step[i] = "unknown" /\ step'[i] = repair[r].verdict
            /\ \A j \in Actions \ {i} : step'[j] = step[j]
        BY <1>5, <4>1, <4>2 DEF Sound, Repairs, Kept, TypeOK
      <4>4. repair'[r].pc = "verify"
        BY <3>3 DEF Updates
      <4>5. (\A q \in Reconcilers : q = r) \/ repair[r].verdict = "unknown"
        BY <1>5, <3>3 DEF OneRepair, Sound, Repairs, Updates
      <4> QED
        BY <1>5, <4>1, <4>2, <4>3, <4>4, <4>5 DEF Sound, Repairs
    <3> QED
      BY <3>1, <3>2, <3>3 DEF RepairForm
  <2>2. Proved'
    <3>1. \A c \in Calls : InLoop(c) => call[c].k \in Actions
      BY DEF Kept, Ordered
    <3> QED
      BY <1>2, <1>5, <2>1, <3>1 DEF Sound, Proved, InLoop
  <2>3. Repairs'
    BY <1>5, <2>1 DEF Sound, Repairs, RepairForm
  <2>4. CompletedVerified'
    <3>1. status' = "completed" => status = "completed"
      BY DEF RepairForm, Opens, Tells, Updates
    <3> QED
      BY <1>5, <2>1, <3>1 DEF Sound, CompletedVerified
  <2> QED
    BY <2>2, <2>3, <2>4 DEF Sound
<1> QED
  BY <1>1, <1>3, <1>4, <1>5 DEF Kept

\* and the death of the process.
LEMMA CrashKept == ASSUME Kept, Crash PROVE Kept' /\ (Sound => Sound')
<1>1. /\ crashes < MaxCrashes /\ crashes' = crashes + 1 /\ cut' = FALSE
      /\ controller' = NoCall /\ aborted' = {}
      /\ call' = [c \in Calls |-> AtRest] /\ repair' = [r \in Reconcilers |-> Idle]
      /\ UNCHANGED <<rows, effects, history>>
  BY DEF Crash
<1>2. /\ call' \in [Calls -> CallRecs] /\ repair' \in [Reconcilers -> RepairRecs]
      /\ \A c \in Calls : call'[c].pc = "idle"
      /\ \A r \in Reconcilers : repair'[r].pc = "idle" /\ repair'[r].todo = {}
  BY <1>1, Rests DEF AtRest, Idle
<1>3. crashes' \in 0..MaxCrashes
  BY <1>1, AutomationAssumption DEF Kept, TypeOK
<1>4. TypeOK'
  BY <1>1, <1>2, <1>3 DEF Kept, TypeOK, CallRecs, Places, RepairRecs, rows, history
<1>5. Ordered' /\ Counted' /\ Read' /\ Alone'
  BY <1>1, <1>2 DEF Kept, Ordered, Counted, Read, Alone, InLoop, At, history
<1>6. Sound => Sound'
  BY <1>1, <1>2 DEF Sound, Proved, Repairs, CompletedVerified, InLoop, rows
<1> QED
  BY <1>4, <1>5, <1>6 DEF Kept

\* A cancellation, a closure and a cut touch no call.
LEMMA OtherKept ==
    ASSUME Kept,
           \/ \E c \in Calls : CallerAborts(c)
           \/ cancel \/ closeManually \/ SwitchExternal \/ UNCHANGED vars
    PROVE  Kept' /\ (Sound => Sound')
<1>1. /\ UNCHANGED <<status, step, call, repair, effects, overlap, late, controller, crashes>>
      /\ cut' \in BOOLEAN /\ closed' \in BOOLEAN /\ attempted' \in BOOLEAN
      /\ aborted \subseteq aborted'
      /\ \A c \in aborted' : c \in Calls /\ InLoop(c)
  BY DEF CallerAborts, cancel, closeManually, SwitchExternal, vars, rows, memory, history,
     Kept, TypeOK
<1>2. TypeOK'
  BY <1>1 DEF Kept, TypeOK, InLoop
<1>3. Ordered' /\ Counted' /\ Read' /\ Alone'
  BY <1>1 DEF Kept, Ordered, Counted, Read, Alone, InLoop, At
<1>4. Sound => Sound'
  BY <1>1 DEF Sound, Proved, Repairs, CompletedVerified, InLoop
<1> QED
  BY <1>2, <1>3, <1>4 DEF Kept

\* Every step keeps it.
LEMMA NextKept == ASSUME Kept, [Next]_vars PROVE Kept' /\ (OneRepair /\ Sound => Sound')
<1>1. ASSUME NEW c \in Calls, RunStep(c) PROVE Kept' /\ (Sound => Sound')
  BY <1>1, Forms, FormKept DEF Kept
<1>2. ASSUME NEW r \in Reconcilers, ReconcileStep(r) PROVE Kept' /\ (OneRepair /\ Sound => Sound')
  BY <1>2, RepairForms, RepairKept DEF Kept
<1> QED
  BY <1>1, <1>2, RunKept, CrashKept, OtherKept DEF Next

\* What every behaviour keeps: the types, the order of the actions of a call
\* and the actions of a call that is alone.
THEOREM AlwaysKept == Spec => []Kept
<1>1. Init => Kept
  BY InitKept
<1>2. Kept /\ [Next]_vars => Kept'
  BY NextKept
<1> QED
  BY <1>1, <1>2, PTL DEF Spec

\* The type invariant.
THEOREM Typed == Spec => []TypeOK
<1>1. Kept => TypeOK
  BY DEF Kept
<1> QED
  BY <1>1, AlwaysKept, PTL

\* automation-runner.mjs:32: a cancelled call carries out one more action at
\* most, with any number of calls, crashes and reconciliations.
THEOREM CancelHolds == Spec => []CancelBounded
<1>1. Kept => CancelBounded
  BY DEF Kept, Counted, CancelBounded
<1> QED
  BY <1>1, AlwaysKept, PTL

\* What is kept besides when at most one reconciliation runs at a time, or no
\* receipt proves late: what a call has found proved stays so.
LEMMA AlwaysSound == ASSUME OneRepair PROVE Spec => [](Kept /\ Sound)
<1>1. Init => Kept /\ Sound
  BY InitKept
<1>2. (Kept /\ Sound) /\ [Next]_vars => (Kept /\ Sound)'
  BY NextKept
<1> QED
  BY <1>1, <1>2, PTL DEF Spec

\* automation-runner.mjs:51: a run is completed only with every action proved,
\* with any number of concurrent calls and crashes, when no two reconciliations
\* whose receipts may prove late run at a time.
THEOREM CompletedHolds == ASSUME OneRepair PROVE Spec => []CompletedVerified
<1>1. Kept /\ Sound => CompletedVerified
  BY DEF Sound
<1> QED
  BY <1>1, AlwaysSound, PTL

\* Only a call that invokes carries an action out.
LEMMA OnlyFormsAct ==
    ASSUME Kept, Next, effects' # effects
    PROVE  \E c \in Calls : Acts(c)
<1>1. PICK c \in Calls : RunStep(c)
  BY DEF Next, Run, CallerAborts, cancel, ReconcileStep, Reconcile, recordReconciliationAttempt,
     Reverify, updateStepEvidence, ReadBack, FinishReconcile, closeManually, SwitchExternal, Crash
<1>2. Form(c)
  BY <1>1, Forms DEF Kept
<1>3. Acts(c)
  BY <1>2 DEF Form, Begins, Looks, Ends, Invokes, Acts, Judges, Records
<1> QED
  BY <1>3

\* An action takes effect only at a call that has come to it.
LEMMA EffectAt ==
    ASSUME Kept, NEW c \in Calls, Acts(c), NEW i \in Actions, effects'[i] # effects[i]
    PROVE  At(c, "invoking") /\ InLoop(c) /\ i = call[c].k
BY DEF Acts, Same, At, InLoop, Kept, TypeOK

\* automation-runner.mjs:48: an action takes effect only when every action
\* before it is proved, under the same hypothesis.
THEOREM NothingAfterHolds == ASSUME OneRepair PROVE Spec => NothingAfterUnknown
<1> DEFINE A == \A i \in Actions : effects'[i] > effects[i] =>
                   \A j \in 1..i - 1 : step[j] = "verified"
<1>1. Kept /\ Sound /\ [Next]_vars => [A]_vars
  <2> SUFFICES ASSUME Kept, Sound, Next, NEW i \in Actions, effects'[i] > effects[i],
                      NEW j \in 1..i - 1
               PROVE  step[j] = "verified"
    BY DEF A
  <2>1. effects'[i] # effects[i] /\ j \in Actions /\ j < i
    <3>1. effects \in [Actions -> 0..MaxEffects] /\ effects' \in [Actions -> 0..MaxEffects]
      BY NextKept DEF Kept, TypeOK
    <3> QED
      BY <3>1, AutomationAssumption DEF Actions
  <2>2. PICK c \in Calls : Acts(c)
    BY <2>1, OnlyFormsAct
  <2> QED
    BY <2>1, <2>2, EffectAt DEF Sound, Proved
<1>2. Spec => [](Kept /\ Sound)
  BY AlwaysSound
<1> QED
  BY <1>1, <1>2, PTL DEF Spec, NothingAfterUnknown

\* automation-runner.mjs:34: calls that come one after the other never carry
\* out an action that has a row, with any crash and any reconciliation.
THEOREM NotRepeatedHolds == Spec => RecordedNotRepeated
<1> DEFINE A == ~overlap => \A i \in Actions : step[i] # "none" => effects'[i] = effects[i]
<1>1. Kept /\ [Next]_vars => [A]_vars
  <2> SUFFICES ASSUME Kept, Next, ~overlap, NEW i \in Actions, effects'[i] # effects[i]
               PROVE  step[i] = "none"
    BY DEF A
  <2>1. PICK c \in Calls : Acts(c)
    BY OnlyFormsAct
  <2> QED
    BY <2>1, EffectAt DEF Kept, Alone, At
<1> QED
  BY <1>1, AlwaysKept, PTL DEF Spec, RecordedNotRepeated
=============================================================================
