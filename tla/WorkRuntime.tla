----------------------------- MODULE WorkRuntime -----------------------------
(***************************************************************************)
(* The work runtime of the PC (src/src/core/mina-runtime.mjs) over the     *)
(* session manager (src/src/sessions/session-manager.mjs): every request,  *)
(* a mission of the owner or a message of a channel, runs as a work that   *)
(* is opened, prepared, run and closed, while an emergency stop may come   *)
(* several times and the application may quit.                             *)
(*                                                                         *)
(* What runs between two awaits is one action.  The session manager awaits *)
(* a hook after each event it appends to its journal; hooks settle.  The   *)
(* evidence provider and the run callback belong to the environment: they  *)
(* answer, throw or take as long as they like.  A mission's callback is    *)
(* the one of main.mjs: it runs an orchestrator, which an emergency stop   *)
(* reaches through activeOrchestrator before it reaches the runtime.       *)
(***************************************************************************)
EXTENDS Integers, Sequences

CONSTANTS
    Works,      \* the calls of runWork, each the work session it opens
    Keys,       \* "channel:identityId"
    Missions,   \* the key of the owner's missions
    Micro,      \* keys of the sms channel: the session ends with its turn
    Stops,      \* emergency stops the user asks for
    Quit,       \* the emergency stop that shutdown begins with
    NoWork

ASSUME RuntimeAssumption ==
    /\ Missions \subseteq Keys /\ Micro \subseteq Keys
    /\ NoWork \notin Works
    /\ Quit \notin Stops

VARIABLES
    runtimeStatus,  \* of the runtime: created, starting, ready, ending, ended
    session,        \* of the session manager's runtime: none, active, ended...
    opening,        \* start(): the await it is in
    quitting,       \* shutdown(): the await it is in
    generation,     \* emergencyGeneration
    work,           \* status of each work session
    key,            \* its key
    workKeys,       \* key -> the work session that holds it
    entry,          \* activeWork: absent, live, or marked canceled
    since,          \* workGeneration
    call,           \* runWork: the await each call is in
    stop,           \* each emergencyStop: where it stands, the work it ends
    halted,         \* missions whose orchestrator was told to stop
    journal         \* the events of each work session, in order

sessions == <<work, key, workKeys, journal>>
lifecycle == <<runtimeStatus, session, opening, quitting>>
vars == <<lifecycle, generation, sessions, entry, since, call, stop, halted>>

-----------------------------------------------------------------------------
AllStops == Stops \cup {Quit}

\* Mutant: a session that is already ending is ended again.
requireWorkLoose(w) == work[w] \in {"active", "ending"}

requireWork(w) == work[w] = "active"

Publish(w, type) == journal' = [journal EXCEPT ![w] = Append(@, type)]

\* endWork up to its await, and what follows it.
EndWork(w) ==
    /\ work' = [work EXCEPT ![w] = "ending"]
    /\ Publish(w, "end")
    /\ UNCHANGED <<key, workKeys>>

\* Mutant: the key is never given back.
WorkEndedKeepsKey(w) ==
    work' = [work EXCEPT ![w] = "ended"] /\ UNCHANGED <<key, workKeys, journal>>

WorkEnded(w) ==
    /\ work' = [work EXCEPT ![w] = "ended"]
    /\ workKeys' = [workKeys EXCEPT ![key[w]] = NoWork]
    /\ UNCHANGED <<key, journal>>

Goto(w, pc) == call' = [call EXCEPT ![w] = pc]

\* Mutant: the entry is marked and not removed.
SettleMarked(w, outcome) ==
    /\ Goto(w, outcome)
    /\ entry' = [entry EXCEPT ![w] = outcome]

\* The finally of runWork.
Settle(w, outcome) ==
    /\ Goto(w, outcome)
    /\ entry' = [entry EXCEPT ![w] = "absent"]

\* Mutant: an error leaves the session as it is.
CatchQuiet(w) == Settle(w, "threw") /\ UNCHANGED sessions

\* The catch of runWork: end the session unless an emergency stop does.
Catch(w) ==
    IF entry[w] = "live" /\ requireWork(w)
    THEN EndWork(w) /\ Goto(w, "erroring") /\ UNCHANGED entry
    ELSE Settle(w, "threw") /\ UNCHANGED sessions

-----------------------------------------------------------------------------
Init ==
    /\ runtimeStatus = "created"
    /\ session = "none"
    /\ opening = "no"
    /\ quitting = "no"
    /\ generation = 0
    /\ work = [w \in Works |-> "none"]
    /\ key \in [Works -> Keys]
    /\ workKeys = [k \in Keys |-> NoWork]
    /\ entry = [w \in Works |-> "absent"]
    /\ since = [w \in Works |-> 0]
    /\ call = [w \in Works |-> "idle"]
    /\ stop = [s \in AllStops |-> [pc |-> "idle", target |-> NoWork, at |-> 0]]
    /\ halted = {}
    /\ journal = [w \in Works |-> << >>]

(***************************************************************************)
(* start: recover finds the empty journal of a new process, startRuntime   *)
(* makes the session active, ready requires that it still is.              *)
(***************************************************************************)
start ==
    /\ runtimeStatus = "created"
    /\ runtimeStatus' = "starting"
    /\ opening' = "recover"
    /\ UNCHANGED <<session, quitting, generation, sessions, entry, since, call, stop, halted>>

startRuntime ==
    /\ opening = "recover"
    /\ session' = "active"
    /\ opening' = "startRuntime"
    /\ UNCHANGED <<runtimeStatus, quitting, generation, sessions, entry, since, call, stop, halted>>

ready ==
    /\ opening = "startRuntime"
    /\ opening' = IF session = "active" THEN "ready" ELSE "failed"
    /\ UNCHANGED <<runtimeStatus, session, quitting, generation, sessions, entry, since, call, stop, halted>>

started ==
    /\ opening = "ready"
    /\ opening' = "done"
    /\ runtimeStatus' = "ready"
    /\ UNCHANGED <<session, quitting, generation, sessions, entry, since, call, stop, halted>>

(***************************************************************************)
(* runWork: open the session, one work at a time for a key.                *)
(***************************************************************************)
startWork(w) ==
    /\ call[w] = "idle"
    /\ runtimeStatus = "ready" /\ session = "active"
    /\ \A v \in Works : workKeys[key[w]] = v => work[v] # "active"
    /\ work' = [work EXCEPT ![w] = "active"]
    /\ workKeys' = [workKeys EXCEPT ![key[w]] = w]
    /\ Publish(w, "start")
    /\ since' = [since EXCEPT ![w] = generation]
    /\ Goto(w, "starting")
    /\ UNCHANGED <<lifecycle, generation, key, entry, stop, halted>>

\* Mutant: nobody compares the generations.
UpToDateAlways(w) == TRUE

UpToDate(w) == since[w] = generation

\* An emergency stop that came in the meantime ends the work here; otherwise
\* the first turn begins.  Both ends throw when the session is not active.
WorkStarted(w) ==
    /\ call[w] = "starting"
    /\ \/ /\ requireWork(w) /\ UpToDate(w)
          /\ entry' = [entry EXCEPT ![w] = "live"]
          /\ Publish(w, "before_turn")
          /\ Goto(w, "beforeTurn")
          /\ UNCHANGED <<work, key, workKeys>>
       \/ /\ requireWork(w) /\ ~UpToDate(w)
          /\ entry' = [entry EXCEPT ![w] = "canceled"]
          /\ EndWork(w)
          /\ Goto(w, "ending")
       \/ /\ ~requireWork(w)
          /\ Settle(w, "threw")
          /\ UNCHANGED sessions
    /\ UNCHANGED <<lifecycle, generation, since, stop, halted>>

BeforeTurn(w) ==
    /\ call[w] = "beforeTurn"
    /\ Goto(w, "evidence")
    /\ UNCHANGED <<lifecycle, generation, sessions, entry, since, stop, halted>>

\* The evidence is there: run is called, whatever happened meanwhile.
Evidence(w) ==
    /\ call[w] = "evidence"
    /\ Goto(w, "running")
    /\ UNCHANGED <<lifecycle, generation, sessions, entry, since, stop, halted>>

\* The evidence provider or the run callback throws.
RunFails(w) ==
    /\ call[w] \in {"evidence", "running"}
    /\ Catch(w)
    /\ UNCHANGED <<lifecycle, generation, since, stop, halted>>

RunReturns(w) ==
    /\ call[w] = "running"
    /\ \/ /\ entry[w] = "canceled"
          /\ Settle(w, "returned")
          /\ UNCHANGED sessions
       \/ /\ entry[w] = "live" /\ requireWork(w)
          /\ Publish(w, "after_turn")
          /\ Goto(w, "afterTurn")
          /\ UNCHANGED <<work, key, workKeys, entry>>
       \/ entry[w] = "live" /\ ~requireWork(w) /\ Catch(w)
    /\ UNCHANGED <<lifecycle, generation, since, stop, halted>>

\* checkpointEveryMs has elapsed or not.
Checkpoint(w) ==
    /\ call[w] = "afterTurn"
    /\ IF requireWork(w)
       THEN /\ Publish(w, "checkpoint")
            /\ Goto(w, "checkpoint")
            /\ UNCHANGED <<work, key, workKeys, entry>>
       ELSE Catch(w)
    /\ UNCHANGED <<lifecycle, generation, since, stop, halted>>

\* The end of afterTurn.  Its answer is a snapshot, read one step later.
AfterTurn(w) ==
    /\ call[w] \in {"afterTurn", "checkpoint"}
    /\ \/ /\ key[w] \in Micro
          /\ IF requireWork(w)
             THEN EndWork(w) /\ Goto(w, "ending") /\ UNCHANGED entry
             ELSE Catch(w)
       \/ /\ key[w] \notin Micro /\ requireWork(w)
          /\ Goto(w, "turned")
          /\ UNCHANGED <<sessions, entry>>
       \/ /\ key[w] \notin Micro /\ ~requireWork(w)
          /\ Settle(w, "returned")
          /\ UNCHANGED sessions
    /\ UNCHANGED <<lifecycle, generation, since, stop, halted>>

Complete(w) ==
    /\ call[w] = "turned"
    /\ IF requireWork(w)
       THEN EndWork(w) /\ Goto(w, "ending") /\ UNCHANGED entry
       ELSE Catch(w)
    /\ UNCHANGED <<lifecycle, generation, since, stop, halted>>

\* The endWork that runWork awaits.
Ended(w) ==
    /\ call[w] \in {"ending", "erroring"}
    /\ WorkEnded(w)
    /\ Settle(w, IF call[w] = "ending" THEN "returned" ELSE "threw")
    /\ UNCHANGED <<lifecycle, generation, since, stop, halted>>

(***************************************************************************)
(* stopEverything stops the orchestrator of the running mission, then the  *)
(* runtime: emergencyStop raises the generation, awaits the cancellers and *)
(* ends the live works one after the other.  endWork throws when the work  *)
(* is being ended by somebody else, and emergencyStop with it.             *)
(***************************************************************************)
StopGoto(s, pc, w) == stop' = [stop EXCEPT ![s].pc = pc, ![s].target = w]

RaiseGeneration(s) ==
    /\ generation' = generation + 1
    /\ stop' = [stop EXCEPT ![s].pc = "cancelling", ![s].at = generation + 1]

Halt(s) ==
    /\ stop[s].pc = "idle" /\ s # Quit
    /\ halted' = halted \cup {w \in Works : call[w] = "running" /\ key[w] \in Missions}
    /\ StopGoto(s, "halting", NoWork)
    /\ UNCHANGED <<lifecycle, generation, sessions, entry, since, call>>

emergencyStop(s) ==
    /\ stop[s].pc = "halting"
    /\ RaiseGeneration(s)
    /\ UNCHANGED <<lifecycle, sessions, entry, since, call, halted>>

\* The cancellers have settled, or the work it was ending has ended.
StopLoop(s) ==
    /\ stop[s].pc \in {"cancelling", "ending"}
    /\ IF stop[s].pc = "ending" THEN WorkEnded(stop[s].target) ELSE UNCHANGED sessions
    /\ StopGoto(s, "loop", NoWork)
    /\ UNCHANGED <<lifecycle, generation, entry, since, call, halted>>

StopWork(s, w) ==
    /\ stop[s].pc = "loop" /\ entry[w] = "live"
    /\ entry' = [entry EXCEPT ![w] = "canceled"]
    /\ IF requireWork(w)
       THEN EndWork(w) /\ StopGoto(s, "ending", w)
       ELSE StopGoto(s, "failed", NoWork) /\ UNCHANGED sessions
    /\ UNCHANGED <<lifecycle, generation, since, call, halted>>

StopDone(s) ==
    /\ stop[s].pc = "loop" /\ \A w \in Works : entry[w] # "live"
    /\ StopGoto(s, "done", NoWork)
    /\ UNCHANGED <<lifecycle, generation, sessions, entry, since, call, halted>>

(***************************************************************************)
(* shutdown, asked once, when the application quits: an emergency stop,    *)
(* then endRuntime.  Its timeout only settles the promise of the caller.   *)
(***************************************************************************)
shutdown ==
    /\ quitting = "no" /\ runtimeStatus # "created"
    /\ runtimeStatus' = "ending"
    /\ quitting' = "asked"
    /\ RaiseGeneration(Quit)
    /\ UNCHANGED <<session, opening, sessions, entry, since, call, halted>>

\* An emergency stop that throws takes shutdown with it.
StopFailed ==
    /\ quitting = "asked" /\ stop[Quit].pc = "failed"
    /\ quitting' = "failed"
    /\ UNCHANGED <<runtimeStatus, session, opening, generation, sessions, entry, since, call, stop, halted>>

endRuntime ==
    /\ quitting = "asked" /\ stop[Quit].pc = "done"
    /\ quitting' = IF session = "active" THEN "works" ELSE "failed"
    /\ UNCHANGED <<runtimeStatus, session, opening, generation, sessions, entry, since, call, stop, halted>>

\* The works that are still active are ended one after the other.
EndActive(w) ==
    /\ quitting = "works" /\ stop[Quit].target = NoWork
    /\ requireWork(w)
    /\ EndWork(w)
    /\ StopGoto(Quit, "done", w)
    /\ UNCHANGED <<lifecycle, generation, entry, since, call, halted>>

ActiveEnded ==
    /\ quitting = "works" /\ stop[Quit].target # NoWork
    /\ WorkEnded(stop[Quit].target)
    /\ StopGoto(Quit, "done", NoWork)
    /\ UNCHANGED <<lifecycle, generation, entry, since, call, halted>>

\* runtime_end is appended, then both statuses become ended.
RuntimeEnds ==
    /\ quitting = "works" /\ stop[Quit].target = NoWork
    /\ \A w \in Works : ~requireWork(w)
    /\ session' = "ending"
    /\ quitting' = "runtime_end"
    /\ UNCHANGED <<runtimeStatus, opening, generation, sessions, entry, since, call, stop, halted>>

RuntimeEnded ==
    /\ quitting = "runtime_end"
    /\ session' = "ended"
    /\ runtimeStatus' = "ended"
    /\ quitting' = "done"
    /\ UNCHANGED <<opening, generation, sessions, entry, since, call, stop, halted>>

-----------------------------------------------------------------------------
Opening == startRuntime \/ ready \/ started

\* What runWork does once its awaits have settled, except the callbacks.
Continue(w) ==
    WorkStarted(w) \/ BeforeTurn(w) \/ AfterTurn(w) \/ Complete(w) \/ Ended(w)

Callback(w) == Evidence(w) \/ RunReturns(w) \/ RunFails(w)

StopStep(s) ==
    \/ emergencyStop(s) \/ StopLoop(s) \/ StopDone(s)
    \/ \E w \in Works : StopWork(s, w)

QuitStep ==
    \/ StopFailed \/ endRuntime \/ ActiveEnded \/ RuntimeEnds \/ RuntimeEnded
    \/ \E w \in Works : EndActive(w)

Next ==
    \/ start \/ Opening \/ shutdown \/ QuitStep
    \/ \E w \in Works : startWork(w) \/ Continue(w) \/ Checkpoint(w) \/ Callback(w)
    \/ \E s \in AllStops : StopStep(s) \/ Halt(s)

Spec == Init /\ [][Next]_vars

\* Awaits settle, and here the evidence and the run callback answer too.
Fairness ==
    /\ WF_vars(Opening) /\ WF_vars(QuitStep)
    /\ \A w \in Works : WF_vars(Continue(w)) /\ WF_vars(Callback(w))
    /\ \A s \in AllStops : WF_vars(StopStep(s))

FairSpec == Spec /\ Fairness
-----------------------------------------------------------------------------
Events == {"start", "before_turn", "after_turn", "checkpoint", "end"}
Settled == {"returned", "threw"}
Awaits == {"idle", "starting", "beforeTurn", "evidence", "running", "afterTurn",
           "checkpoint", "turned", "ending", "erroring"} \cup Settled

\* The type invariant.
TypeOK ==
    /\ runtimeStatus \in {"created", "starting", "ready", "ending", "ended"}
    /\ session \in {"none", "active", "ending", "ended"}
    /\ opening \in {"no", "recover", "startRuntime", "ready", "done", "failed"}
    /\ quitting \in {"no", "asked", "works", "runtime_end", "done", "failed"}
    /\ generation \in Nat
    /\ work \in [Works -> {"none", "active", "ending", "ended"}]
    /\ key \in [Works -> Keys]
    /\ workKeys \in [Keys -> Works \cup {NoWork}]
    /\ entry \in [Works -> {"absent", "live", "canceled"}]
    /\ since \in [Works -> Nat]
    /\ call \in [Works -> Awaits]
    /\ stop \in [AllStops -> [pc : {"idle", "halting", "cancelling", "loop", "ending",
                                    "done", "failed"},
                              target : Works \cup {NoWork}, at : Nat]]
    /\ halted \subseteq Works
    /\ journal \in [Works -> Seq(Events)]

\* The journal tells one consistent story of every work, whoever ended it: it
\* begins with its start, ends at most once, nothing follows its end, and no
\* work is left open when the runtime's own end is recorded.
JournalConsistent ==
    /\ \A w \in Works : \A i \in DOMAIN journal[w] :
          /\ journal[w][i] = "start" <=> i = 1
          /\ journal[w][i] = "end" => i = Len(journal[w])
    /\ session \in {"ending", "ended"} =>
          \A w \in Works : journal[w] # << >> => journal[w][Len(journal[w])] = "end"

\* An emergency stop that has returned left none of the works that preceded
\* it active: those that were not yet registered end themselves.
StopReached ==
    \A s \in AllStops : \A w \in Works :
        stop[s].pc = "done" /\ since[w] < stop[s].at /\ call[w] # "starting"
            => work[w] # "active"

\* Whatever interrupted it, a call that has settled leaves no active session
\* behind: the next request of the same identity is not refused for ever.
NoZombie ==
    \A w \in Works : call[w] \in Settled => work[w] \in {"ending", "ended"}

\* main.mjs says the emergency stop cuts everything that acts, the sessions'
\* runtime included: once it has settled, even by an error, no earlier work
\* is still active.
StopCutsAll ==
    \A s \in Stops : \A w \in Works :
        stop[s].pc \in {"done", "failed"} /\ since[w] < stop[s].at
            /\ call[w] # "starting" => work[w] # "active"

\* The same order cuts the active mission: one that began before the stop
\* and runs on has had its orchestrator told to stop.
MissionHalted ==
    \A s \in Stops : \A w \in Works :
        stop[s].pc \in {"done", "failed"} /\ since[w] < stop[s].at
            /\ key[w] \in Missions /\ call[w] = "running" => w \in halted

\* A work session for each channel and identity (session-manager.test.mjs,
\* "rejects nested work sessions for the same channel and identity").
OneActivePerKey ==
    \A v, w \in Works :
        v # w /\ key[v] = key[w] => ~(work[v] = "active" /\ work[w] = "active")

\* Every work ends, and gives its key back to the next one.
WorksEnd ==
    \A w \in Works : work[w] = "active" ~> work[w] = "ended" /\ workKeys[key[w]] # w

\* shutdown ends the runtime (runtime-lifecycle.test.mjs).
ShutdownEnds == runtimeStatus = "ending" ~> runtimeStatus = "ended"
=============================================================================
