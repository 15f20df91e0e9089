--------------------------- MODULE WorkRuntimeProofs ---------------------------
(***************************************************************************)
(* What holds of WorkRuntime for any number of works, keys and stops, and  *)
(* of MissionLoop, the mission a work runs, for any budget.                *)
(***************************************************************************)
EXTENDS WorkRuntime, MissionLoop, TLAPS

StopRecs == [pc : {"idle", "halting", "cancelling", "loop", "ending", "done", "failed"},
             target : Works \cup {NoWork}, at : Nat]
Statuses == {"none", "active", "ending", "ended"}
Over == {"ending", "ended"}

\* A call that has begun has a session, which is active only while the call
\* is registered or is about to be, and a call that is ending it has done so.
Life ==
    \A w \in Works :
        /\ call[w] = "idle" <=> work[w] = "none"
        /\ work[w] = "active" => call[w] = "starting" \/ entry[w] = "live"
        /\ call[w] \in {"ending", "erroring"} \cup Settled => work[w] \in Over

\* The work a stop waits for is over, and a stop knows its own generation.
Targets ==
    \A s \in AllStops :
        /\ stop[s].target # NoWork => work[stop[s].target] \in Over
        /\ stop[s].pc = "ending" => stop[s].target # NoWork
        /\ stop[s].at <= generation

\* start has made the session active before shutdown ends it, and shutdown
\* ends works once its own stop is done.
QuitDone ==
    /\ runtimeStatus = "created" => opening = "no"
    /\ session = "none" <=> opening \in {"no", "recover"}
    /\ quitting = "works" => stop[Quit].pc = "done" /\ session # "none"
    /\ quitting = "runtime_end" => session = "ending"

\* No work is active once the runtime's session has ended.
Closed == session \in {"ending", "ended"} => \A w \in Works : work[w] # "active"

\* A journal that goes on, and one that is complete.
GoesOn(j) ==
    /\ Len(j) > 0
    /\ \A i \in 1..Len(j) : (j[i] = "start" <=> i = 1) /\ j[i] # "end"
Finished(j) ==
    /\ Len(j) > 0
    /\ \A i \in 1..Len(j) : (j[i] = "start" <=> i = 1) /\ (j[i] = "end" <=> i = Len(j))

\* The journal of a work says what its status is.
Story ==
    \A w \in Works :
        /\ work[w] = "none" => journal[w] = << >>
        /\ work[w] = "active" => GoesOn(journal[w])
        /\ work[w] \in Over => Finished(journal[w])

Core == TypeOK /\ Life /\ Targets /\ Closed /\ StopReached /\ Story

IInv == Core /\ QuitDone

(***************************************************************************)
(* Journals.                                                               *)
(***************************************************************************)
\* What is added to a journal that goes on.
LEMMA JournalFacts ==
    /\ << >> \in Seq(Events)
    /\ Append(<< >>, "start") \in Seq(Events) /\ GoesOn(Append(<< >>, "start"))
    /\ \A j \in Seq(Events) : GoesOn(j) =>
          /\ \A e \in {"before_turn", "after_turn", "checkpoint"} :
                Append(j, e) \in Seq(Events) /\ GoesOn(Append(j, e))
          /\ Append(j, "end") \in Seq(Events) /\ Finished(Append(j, "end"))
<1>1. << >> \in Seq(Events)
  OBVIOUS
<1>2. Append(<< >>, "start") \in Seq(Events) /\ GoesOn(Append(<< >>, "start"))
  BY DEF GoesOn, Events
<1>3. ASSUME NEW j \in Seq(Events), GoesOn(j),
             NEW e \in {"before_turn", "after_turn", "checkpoint"}
      PROVE  Append(j, e) \in Seq(Events) /\ GoesOn(Append(j, e))
  BY <1>3 DEF GoesOn, Events
<1>4. ASSUME NEW j \in Seq(Events), GoesOn(j)
      PROVE  Append(j, "end") \in Seq(Events) /\ Finished(Append(j, "end"))
  BY <1>4 DEF GoesOn, Finished, Events
<1> QED
  BY <1>1, <1>2, <1>3, <1>4

(***************************************************************************)
(* What a step does to the sessions.                                       *)
(***************************************************************************)
Opens(w) ==
    /\ work[w] = "none" /\ work' = [work EXCEPT ![w] = "active"]
    /\ workKeys' = [workKeys EXCEPT ![key[w]] = w] /\ key' = key
    /\ Publish(w, "start")

Writes(w) ==
    /\ work[w] = "active"
    /\ \E e \in {"before_turn", "after_turn", "checkpoint"} : Publish(w, e)
    /\ UNCHANGED <<work, key, workKeys>>

Ends(w) == work[w] = "active" /\ EndWork(w)

Gone(w) == work[w] \in Over /\ WorkEnded(w)

SessionStep(w) == Opens(w) \/ Writes(w) \/ Ends(w) \/ Gone(w)

\* The sessions keep their types, and each journal its story.
LEMMA SessionsKept ==
    ASSUME TypeOK, Story, NEW w \in Works, SessionStep(w)
    PROVE  /\ work' \in [Works -> Statuses] /\ key' = key
           /\ workKeys' \in [Keys -> Works \cup {NoWork}]
           /\ journal' \in [Works -> Seq(Events)]
           /\ \A v \in Works \ {w} : work'[v] = work[v]
           /\ Story'
<1>0. /\ work \in [Works -> Statuses] /\ key \in [Works -> Keys]
      /\ workKeys \in [Keys -> Works \cup {NoWork}] /\ journal \in [Works -> Seq(Events)]
  BY DEF TypeOK, Statuses
<1> DEFINE Kept(s, j) ==
      /\ s \in Statuses /\ j \in Seq(Events)
      /\ s = "none" => j = << >>
      /\ s = "active" => GoesOn(j)
      /\ s \in Over => Finished(j)
<1>1. /\ work' = [work EXCEPT ![w] = work'[w]] /\ journal' = [journal EXCEPT ![w] = journal'[w]]
      /\ key' = key /\ workKeys' \in [Keys -> Works \cup {NoWork}]
      /\ Kept(work'[w], journal'[w])
  <2>1. CASE Opens(w)
    <3>1. journal'[w] = Append(<< >>, "start") /\ work'[w] = "active"
      BY <1>0, <2>1 DEF Opens, Publish, Story
    <3>2. Kept("active", Append(<< >>, "start"))
      BY JournalFacts DEF Over, Statuses
    <3> QED
      BY <1>0, <2>1, <3>1, <3>2 DEF Opens, Publish
  <2>2. CASE Writes(w)
    <3>1. PICK e \in {"before_turn", "after_turn", "checkpoint"} : Publish(w, e)
      BY <2>2 DEF Writes
    <3>2. journal'[w] = Append(journal[w], e) /\ work'[w] = "active" /\ GoesOn(journal[w])
      BY <1>0, <2>2, <3>1 DEF Writes, Publish, Story
    <3>3. Kept("active", Append(journal[w], e))
      BY <1>0, <3>2, JournalFacts DEF Over, Statuses
    <3> QED
      BY <1>0, <2>2, <3>1, <3>2, <3>3 DEF Writes, Publish
  <2>3. CASE Ends(w)
    <3>1. journal'[w] = Append(journal[w], "end") /\ work'[w] = "ending" /\ GoesOn(journal[w])
      BY <1>0, <2>3 DEF Ends, EndWork, Publish, Story
    <3>2. Kept("ending", Append(journal[w], "end"))
      BY <1>0, <3>1, JournalFacts DEF Over, Statuses
    <3> QED
      BY <1>0, <2>3, <3>1, <3>2 DEF Ends, EndWork, Publish
  <2>4. CASE Gone(w)
    <3>1. journal' = journal /\ work'[w] = "ended" /\ Finished(journal[w])
      BY <1>0, <2>4 DEF Gone, WorkEnded, Story
    <3>2. Kept("ended", journal[w])
      BY <1>0, <3>1 DEF Over, Statuses
    <3> QED
      BY <1>0, <2>4, <3>1, <3>2 DEF Gone, WorkEnded
  <2> QED
    BY <2>1, <2>2, <2>3, <2>4 DEF SessionStep
<1>2. \A v \in Works \ {w} : work'[v] = work[v] /\ journal'[v] = journal[v]
  BY <1>0, <1>1
<1>3. Story'
  BY <1>1, <1>2 DEF Story
<1>4. work' \in [Works -> Statuses] /\ journal' \in [Works -> Seq(Events)]
  BY <1>0, <1>1
<1> QED
  BY <1>1, <1>2, <1>3, <1>4

(***************************************************************************)
(* What a step of runWork does.                                            *)
(***************************************************************************)
Before == {"starting", "beforeTurn", "evidence", "running", "afterTurn", "checkpoint", "turned"}

Settles(w) ==
    /\ call'[w] \in Settled /\ entry'[w] = "absent"
    /\ (UNCHANGED sessions /\ work[w] \in Over) \/ Gone(w)

GoesForward(w) ==
    /\ call'[w] \in Before \ {"starting"}
    /\ UNCHANGED sessions \/ Writes(w)
    /\ entry'[w] = "live" \/ (entry'[w] = entry[w] /\ call[w] # "starting")
    /\ call[w] = "starting" => UpToDate(w)

EndsIt(w) == call'[w] \in {"ending", "erroring"} /\ Ends(w)

CallForm(w) ==
    /\ UNCHANGED <<lifecycle, generation, since, stop, halted>>
    /\ call[w] # "idle"
    /\ call' \in [Works -> Awaits] /\ entry' \in [Works -> {"absent", "live", "canceled"}]
    /\ \A v \in Works \ {w} : call'[v] = call[v] /\ entry'[v] = entry[v]
    /\ Settles(w) \/ GoesForward(w) \/ EndsIt(w)

\* A call that moves, its entry becoming e.
LEMMA CallMoves ==
    ASSUME TypeOK, NEW w \in Works, NEW where \in Awaits, NEW e \in {"absent", "live", "canceled"},
           Goto(w, where), entry' = [entry EXCEPT ![w] = e] \/ (entry' = entry /\ entry[w] = e)
    PROVE  /\ call' \in [Works -> Awaits] /\ call'[w] = where
           /\ entry' \in [Works -> {"absent", "live", "canceled"}] /\ entry'[w] = e
           /\ \A v \in Works \ {w} : call'[v] = call[v] /\ entry'[v] = entry[v]
BY DEF TypeOK, Goto

\* A call that settles, with a session that is over.
LEMMA SettleForm ==
    ASSUME TypeOK, NEW w \in Works, NEW o \in Settled, Settle(w, o),
           (UNCHANGED sessions /\ work[w] \in Over) \/ Gone(w)
    PROVE  /\ call' \in [Works -> Awaits] /\ entry' \in [Works -> {"absent", "live", "canceled"}]
           /\ \A v \in Works \ {w} : call'[v] = call[v] /\ entry'[v] = entry[v]
           /\ Settles(w)
<1>1. o \in Awaits /\ Goto(w, o) /\ entry' = [entry EXCEPT ![w] = "absent"]
  BY DEF Settle, Awaits
<1>2. /\ call' \in [Works -> Awaits] /\ call'[w] = o
      /\ entry' \in [Works -> {"absent", "live", "canceled"}] /\ entry'[w] = "absent"
      /\ \A v \in Works \ {w} : call'[v] = call[v] /\ entry'[v] = entry[v]
  BY <1>1, CallMoves
<1> QED
  BY <1>2 DEF Settles

\* A call that ends its session.
LEMMA EndForm ==
    ASSUME TypeOK, NEW w \in Works, NEW where \in {"ending", "erroring"}, Goto(w, where),
           requireWork(w), EndWork(w),
           entry' = entry \/ entry' = [entry EXCEPT ![w] = "canceled"]
    PROVE  /\ call' \in [Works -> Awaits] /\ entry' \in [Works -> {"absent", "live", "canceled"}]
           /\ \A v \in Works \ {w} : call'[v] = call[v] /\ entry'[v] = entry[v]
           /\ EndsIt(w)
<1>1. where \in Awaits
  BY DEF Awaits
<1>2. PICK e \in {"absent", "live", "canceled"} :
        entry' = [entry EXCEPT ![w] = e] \/ (entry' = entry /\ entry[w] = e)
  BY DEF TypeOK
<1>3. /\ call' \in [Works -> Awaits] /\ call'[w] = where
      /\ entry' \in [Works -> {"absent", "live", "canceled"}]
      /\ \A v \in Works \ {w} : call'[v] = call[v] /\ entry'[v] = entry[v]
  BY <1>1, <1>2, CallMoves
<1> QED
  BY <1>3 DEF EndsIt, Ends, requireWork

\* A call that goes on, registered.
LEMMA ForwardForm ==
    ASSUME TypeOK, NEW w \in Works, NEW where \in Before \ {"starting"}, Goto(w, where),
           \/ entry' = [entry EXCEPT ![w] = "live"] /\ UpToDate(w)
           \/ entry' = entry /\ call[w] # "starting",
           UNCHANGED sessions \/ Writes(w)
    PROVE  /\ call' \in [Works -> Awaits] /\ entry' \in [Works -> {"absent", "live", "canceled"}]
           /\ \A v \in Works \ {w} : call'[v] = call[v] /\ entry'[v] = entry[v]
           /\ GoesForward(w)
<1>1. where \in Awaits
  BY DEF Awaits, Before
<1>2. CASE entry' = [entry EXCEPT ![w] = "live"] /\ UpToDate(w)
  BY <1>1, <1>2, CallMoves DEF GoesForward
<1>3. CASE entry' = entry /\ call[w] # "starting"
  <2>1. entry[w] \in {"absent", "live", "canceled"}
    BY DEF TypeOK
  <2> QED
    BY <1>1, <1>3, <2>1, CallMoves DEF GoesForward
<1> QED
  BY <1>2, <1>3

\* The catch of runWork: the session is over, or it is ended.
LEMMA CatchForm ==
    ASSUME TypeOK, Life, NEW w \in Works, call[w] \in Before \ {"starting"}, Catch(w)
    PROVE  /\ call' \in [Works -> Awaits] /\ entry' \in [Works -> {"absent", "live", "canceled"}]
           /\ \A v \in Works \ {w} : call'[v] = call[v] /\ entry'[v] = entry[v]
           /\ Settles(w) \/ EndsIt(w)
<1>1. CASE entry[w] = "live" /\ requireWork(w)
  <2>1. EndWork(w) /\ Goto(w, "erroring") /\ UNCHANGED entry
    BY <1>1 DEF Catch
  <2> QED
    BY <1>1, <2>1, EndForm
<1>2. CASE ~(entry[w] = "live" /\ requireWork(w))
  <2>1. Settle(w, "threw") /\ UNCHANGED sessions
    BY <1>2 DEF Catch
  <2>2. work[w] \in Over
    BY <1>2 DEF Life, TypeOK, requireWork, Before, Over
  <2>3. "threw" \in Settled
    BY DEF Settled
  <2> QED
    BY <2>1, <2>2, <2>3, SettleForm
<1> QED
  BY <1>1, <1>2

RunStep(w) == Continue(w) \/ Checkpoint(w) \/ Callback(w)

\* Every step of a call has one of these forms.
LEMMA CallForms == ASSUME TypeOK, Life, NEW w \in Works, RunStep(w) PROVE CallForm(w)
<1> DEFINE Shape ==
      /\ call' \in [Works -> Awaits] /\ entry' \in [Works -> {"absent", "live", "canceled"}]
      /\ \A v \in Works \ {w} : call'[v] = call[v] /\ entry'[v] = entry[v]
      /\ Settles(w) \/ GoesForward(w) \/ EndsIt(w)
<1>0. "returned" \in Settled /\ "threw" \in Settled
  BY DEF Settled
<1>1. CASE WorkStarted(w)
  <2>1. call[w] = "starting" /\ UNCHANGED <<lifecycle, generation, since, stop, halted>>
    BY <1>1 DEF WorkStarted
  <2>2. CASE requireWork(w) /\ UpToDate(w)
    <3>1. /\ entry' = [entry EXCEPT ![w] = "live"] /\ Publish(w, "before_turn")
          /\ Goto(w, "beforeTurn") /\ UNCHANGED <<work, key, workKeys>>
      BY <1>1, <2>2 DEF WorkStarted
    <3>2. Writes(w) /\ "beforeTurn" \in Before \ {"starting"}
      BY <2>2, <3>1 DEF Writes, requireWork, Before
    <3>3. Shape
      BY <2>2, <3>1, <3>2, ForwardForm
    <3> QED
      BY <2>1, <3>3 DEF CallForm
  <2>3. CASE requireWork(w) /\ ~UpToDate(w)
    <3>1. entry' = [entry EXCEPT ![w] = "canceled"] /\ EndWork(w) /\ Goto(w, "ending")
      BY <1>1, <2>3 DEF WorkStarted
    <3>2. Shape
      BY <2>3, <3>1, EndForm
    <3> QED
      BY <2>1, <3>2 DEF CallForm
  <2>4. CASE ~requireWork(w)
    <3>1. Settle(w, "threw") /\ UNCHANGED sessions
      BY <1>1, <2>4 DEF WorkStarted
    <3>2. work[w] \in Over
      BY <2>1, <2>4 DEF Life, TypeOK, requireWork, Over
    <3>3. Shape
      BY <1>0, <3>1, <3>2, SettleForm
    <3> QED
      BY <2>1, <3>3 DEF CallForm
  <2> QED
    BY <2>2, <2>3, <2>4
<1>2. CASE BeforeTurn(w) \/ Evidence(w)
  <2>1. PICK where \in {"evidence", "running"} : Goto(w, where)
    BY <1>2 DEF BeforeTurn, Evidence
  <2>2. /\ UNCHANGED <<lifecycle, generation, sessions, entry, since, stop, halted>>
        /\ call[w] \in {"beforeTurn", "evidence"} /\ where \in Before \ {"starting"}
    BY <1>2 DEF BeforeTurn, Evidence, Before
  <2>3. Shape
    BY <2>1, <2>2, ForwardForm
  <2> QED
    BY <2>2, <2>3 DEF CallForm
<1>3. CASE AfterTurn(w)
  <2>1. call[w] \in {"afterTurn", "checkpoint"} /\ UNCHANGED <<lifecycle, generation, since, stop, halted>>
    BY <1>3 DEF AfterTurn
  <2>2. CASE requireWork(w) /\ EndWork(w) /\ Goto(w, "ending") /\ UNCHANGED entry
    <3>1. Shape
      BY <2>2, EndForm
    <3> QED
      BY <2>1, <3>1 DEF CallForm
  <2>3. CASE Catch(w)
    <3>1. Shape
      BY <2>1, <2>3, CatchForm DEF Before
    <3> QED
      BY <2>1, <3>1 DEF CallForm
  <2>4. CASE Goto(w, "turned") /\ UNCHANGED <<sessions, entry>>
    <3>1. "turned" \in Before \ {"starting"}
      BY DEF Before
    <3>2. Shape
      BY <2>1, <2>4, <3>1, ForwardForm
    <3> QED
      BY <2>1, <3>2 DEF CallForm
  <2>5. CASE ~requireWork(w) /\ Settle(w, "returned") /\ UNCHANGED sessions
    <3>1. work[w] \in Over
      BY <2>1, <2>5 DEF Life, TypeOK, requireWork, Over
    <3>2. Shape
      BY <1>0, <2>5, <3>1, SettleForm
    <3> QED
      BY <2>1, <3>2 DEF CallForm
  <2> QED
    BY <1>3, <2>2, <2>3, <2>4, <2>5 DEF AfterTurn
<1>4. CASE Complete(w)
  <2>1. call[w] = "turned" /\ UNCHANGED <<lifecycle, generation, since, stop, halted>>
    BY <1>4 DEF Complete
  <2>2. CASE requireWork(w)
    <3>1. EndWork(w) /\ Goto(w, "ending") /\ UNCHANGED entry
      BY <1>4, <2>2 DEF Complete
    <3>2. Shape
      BY <2>2, <3>1, EndForm
    <3> QED
      BY <2>1, <3>2 DEF CallForm
  <2>3. CASE ~requireWork(w)
    <3>1. Catch(w)
      BY <1>4, <2>3 DEF Complete
    <3>2. Shape
      BY <2>1, <3>1, CatchForm DEF Before
    <3> QED
      BY <2>1, <3>2 DEF CallForm
  <2> QED
    BY <2>2, <2>3
<1>5. CASE Ended(w)
  <2>1. /\ call[w] \in {"ending", "erroring"} /\ UNCHANGED <<lifecycle, generation, since, stop, halted>>
        /\ WorkEnded(w)
    BY <1>5 DEF Ended
  <2>2. PICK o \in Settled : Settle(w, o)
    BY <1>0, <1>5 DEF Ended
  <2>3. Gone(w)
    BY <2>1 DEF Gone, Life
  <2>4. Shape
    BY <2>2, <2>3, SettleForm
  <2> QED
    BY <2>1, <2>4 DEF CallForm
<1>6. CASE Checkpoint(w)
  <2>1. call[w] = "afterTurn" /\ UNCHANGED <<lifecycle, generation, since, stop, halted>>
    BY <1>6 DEF Checkpoint
  <2>2. CASE requireWork(w)
    <3>1. /\ Publish(w, "checkpoint") /\ Goto(w, "checkpoint")
          /\ UNCHANGED <<work, key, workKeys, entry>>
      BY <1>6, <2>2 DEF Checkpoint
    <3>2. Writes(w) /\ "checkpoint" \in Before \ {"starting"}
      BY <2>2, <3>1 DEF Writes, requireWork, Before
    <3>3. Shape
      BY <2>1, <3>1, <3>2, ForwardForm
    <3> QED
      BY <2>1, <3>3 DEF CallForm
  <2>3. CASE ~requireWork(w)
    <3>1. Catch(w)
      BY <1>6, <2>3 DEF Checkpoint
    <3>2. Shape
      BY <2>1, <3>1, CatchForm DEF Before
    <3> QED
      BY <2>1, <3>2 DEF CallForm
  <2> QED
    BY <2>2, <2>3
<1>7. CASE RunFails(w)
  <2>1. /\ call[w] \in {"evidence", "running"} /\ UNCHANGED <<lifecycle, generation, since, stop, halted>>
        /\ Catch(w)
    BY <1>7 DEF RunFails
  <2>2. Shape
    BY <2>1, CatchForm DEF Before
  <2> QED
    BY <2>1, <2>2 DEF CallForm
<1>8. CASE RunReturns(w)
  <2>1. call[w] = "running" /\ UNCHANGED <<lifecycle, generation, since, stop, halted>>
    BY <1>8 DEF RunReturns
  <2>2. CASE entry[w] = "canceled" /\ Settle(w, "returned") /\ UNCHANGED sessions
    <3>1. work[w] \in Over
      BY <2>1, <2>2 DEF Life, TypeOK, Over
    <3>2. Shape
      BY <1>0, <2>2, <3>1, SettleForm
    <3> QED
      BY <2>1, <3>2 DEF CallForm
  <2>3. CASE /\ requireWork(w) /\ Publish(w, "after_turn") /\ Goto(w, "afterTurn")
             /\ UNCHANGED <<work, key, workKeys, entry>>
    <3>1. Writes(w) /\ "afterTurn" \in Before \ {"starting"}
      BY <2>3 DEF Writes, requireWork, Before
    <3>2. Shape
      BY <2>1, <2>3, <3>1, ForwardForm
    <3> QED
      BY <2>1, <3>2 DEF CallForm
  <2>4. CASE Catch(w)
    <3>1. Shape
      BY <2>1, <2>4, CatchForm DEF Before
    <3> QED
      BY <2>1, <3>1 DEF CallForm
  <2> QED
    BY <1>8, <2>2, <2>3, <2>4 DEF RunReturns
<1> QED
  BY <1>1, <1>2, <1>3, <1>4, <1>5, <1>6, <1>7, <1>8 DEF RunStep, Continue, Callback

(***************************************************************************)
(* The invariant.                                                          *)
(***************************************************************************)
\* The status of a work only goes forward.
LEMMA Forward ==
    ASSUME TypeOK, NEW w \in Works, SessionStep(w) \/ UNCHANGED sessions
    PROVE  /\ \A v \in Works : work[v] \in Over => work'[v] \in Over
           /\ \A v \in Works : work'[v] = "active" => work[v] = "active" \/ Opens(w)
           /\ \A v \in Works : work'[v] = "none" <=> work[v] = "none" /\ ~(v = w /\ Opens(w))
           /\ Ends(w) \/ Gone(w) => work'[w] \in Over
<1>1. CASE Opens(w)
  BY <1>1 DEF Opens, TypeOK, Over, Ends, Gone
<1>2. CASE ~Opens(w) /\ Writes(w)
  BY <1>2 DEF Writes, TypeOK, Over, Ends, Gone, EndWork, WorkEnded
<1>3. CASE ~Opens(w) /\ Ends(w)
  BY <1>3 DEF Ends, EndWork, TypeOK, Over
<1>4. CASE ~Opens(w) /\ Gone(w)
  BY <1>4 DEF Gone, WorkEnded, TypeOK, Over
<1>5. CASE ~Opens(w) /\ UNCHANGED sessions
  BY <1>5 DEF sessions, Ends, EndWork, Gone, WorkEnded, TypeOK, Over
<1> QED
  BY <1>1, <1>2, <1>3, <1>4, <1>5 DEF SessionStep

\* The types of the sessions after any step.
LEMMA SessionsOK ==
    ASSUME TypeOK, Story, NEW w \in Works, SessionStep(w) \/ UNCHANGED sessions
    PROVE  /\ work' \in [Works -> Statuses] /\ key' \in [Works -> Keys]
           /\ workKeys' \in [Keys -> Works \cup {NoWork}]
           /\ journal' \in [Works -> Seq(Events)]
           /\ Story'
<1>1. CASE SessionStep(w)
  BY <1>1, SessionsKept DEF TypeOK
<1>2. CASE UNCHANGED sessions
  BY <1>2 DEF sessions, TypeOK, Story, Statuses
<1> QED
  BY <1>1, <1>2

\* A step of a call keeps the invariant of the works.
LEMMA CallKept == ASSUME IInv, NEW w \in Works, CallForm(w) PROVE Core'
<1>1. /\ UNCHANGED <<lifecycle, generation, since, stop, halted>>
      /\ call[w] # "idle"
      /\ call' \in [Works -> Awaits] /\ entry' \in [Works -> {"absent", "live", "canceled"}]
      /\ \A v \in Works \ {w} : call'[v] = call[v] /\ entry'[v] = entry[v]
      /\ Settles(w) \/ GoesForward(w) \/ EndsIt(w)
  BY DEF CallForm
<1>2. SessionStep(w) \/ UNCHANGED sessions
  BY <1>1 DEF Settles, GoesForward, EndsIt, SessionStep
<1>3. ~Opens(w)
  BY <1>1 DEF Opens, IInv, Core, Life, TypeOK
<1>4. /\ \A v \in Works : work[v] \in Over => work'[v] \in Over
      /\ \A v \in Works : work'[v] = "active" => work[v] = "active"
      /\ \A v \in Works : work'[v] = "none" <=> work[v] = "none"
      /\ Ends(w) \/ Gone(w) => work'[w] \in Over
  BY <1>2, <1>3, Forward DEF IInv, Core
<1>5. /\ work' \in [Works -> Statuses] /\ key' \in [Works -> Keys]
      /\ workKeys' \in [Keys -> Works \cup {NoWork}]
      /\ journal' \in [Works -> Seq(Events)] /\ Story'
  BY <1>2, SessionsOK DEF IInv, Core
<1>6. TypeOK'
  BY <1>1, <1>5 DEF IInv, Core, TypeOK, Statuses, lifecycle
<1>7. Life'
  <2>1. ASSUME NEW v \in Works \ {w}
        PROVE  /\ call'[v] = "idle" <=> work'[v] = "none"
               /\ work'[v] = "active" => call'[v] = "starting" \/ entry'[v] = "live"
               /\ call'[v] \in {"ending", "erroring"} \cup Settled => work'[v] \in Over
    BY <1>1, <1>4 DEF IInv, Core, Life
  <2>2. CASE Settles(w)
    <3>1. call'[w] \in Settled /\ work'[w] \in Over
      BY <1>4, <2>2 DEF Settles
    <3> QED
      BY <2>1, <3>1 DEF Life, Settled, Over
  <2>3. CASE GoesForward(w)
    <3>1. /\ call'[w] \in Before \ {"starting"} /\ work'[w] # "none"
          /\ work'[w] = "active" => entry'[w] = "live"
      BY <1>1, <1>4, <2>3 DEF GoesForward, IInv, Core, Life
    <3> QED
      BY <2>1, <3>1 DEF Life, Settled, Before
  <2>4. CASE EndsIt(w)
    <3>1. call'[w] \in {"ending", "erroring"} /\ work'[w] \in Over
      BY <1>4, <2>4 DEF EndsIt
    <3> QED
      BY <2>1, <3>1 DEF Life, Settled, Over
  <2> QED
    BY <1>1, <2>2, <2>3, <2>4
<1>8. Targets' /\ Closed'
  <2>1. \A s \in AllStops : stop[s].target \in Works \cup {NoWork}
    BY DEF IInv, Core, TypeOK
  <2>2. stop' = stop /\ generation' = generation /\ session' = session
    BY <1>1 DEF lifecycle
  <2>3. Targets'
    BY <1>4, <2>1, <2>2 DEF IInv, Core, Targets
  <2>4. Closed'
    BY <1>4, <2>2 DEF IInv, Core, Closed
  <2> QED
    BY <2>3, <2>4
<1>9. StopReached'
  <2> SUFFICES ASSUME NEW s \in AllStops, NEW v \in Works,
                      stop[s].pc = "done", since[v] < stop[s].at, call'[v] # "starting",
                      work'[v] = "active"
               PROVE  FALSE
    BY <1>1 DEF StopReached
  <2>1. work[v] = "active"
    BY <1>4
  <2>2. call[v] = "starting"
    BY <2>1 DEF IInv, Core, StopReached
  <2>3. v = w /\ GoesForward(w)
    BY <1>1, <1>4, <2>2 DEF Settles, EndsIt, Over
  <2>4. since[w] = generation /\ stop[s].at <= generation
    BY <2>2, <2>3 DEF GoesForward, UpToDate, IInv, Core, Targets
  <2>5. since[w] \in Nat /\ generation \in Nat /\ stop[s].at \in Nat
    BY DEF IInv, Core, TypeOK
  <2> QED
    BY <2>3, <2>4, <2>5
<1> QED
  BY <1>5, <1>6, <1>7, <1>8, <1>9 DEF IInv, Core

(***************************************************************************)
(* What a step of an emergency stop, of shutdown or of start does.         *)
(***************************************************************************)
\* A stop that is moved to a place, with the work it waits for.
LEMMA StopMoves ==
    ASSUME TypeOK, NEW s \in AllStops, NEW w \in Works \cup {NoWork},
           NEW where \in {"idle", "halting", "cancelling", "loop", "ending", "done", "failed"},
           StopGoto(s, where, w)
    PROVE  /\ stop' \in [AllStops -> StopRecs]
           /\ stop'[s].pc = where /\ stop'[s].target = w /\ stop'[s].at = stop[s].at
           /\ \A t \in AllStops \ {s} : stop'[t] = stop[t]
<1> DEFINE rec == [stop[s] EXCEPT !.pc = where, !.target = w]
<1>0. stop \in [AllStops -> StopRecs] /\ stop[s] \in StopRecs
  BY DEF TypeOK, StopRecs
<1>1. rec \in StopRecs /\ rec.pc = where /\ rec.target = w /\ rec.at = stop[s].at
  BY <1>0 DEF StopRecs
<1>2. stop' = [stop EXCEPT ![s] = rec]
  BY <1>0 DEF StopGoto
<1> HIDE DEF rec
<1> QED
  BY <1>0, <1>1, <1>2

\* A stop that begins a generation of its own.
LEMMA StopRaises ==
    ASSUME TypeOK, NEW s \in AllStops, RaiseGeneration(s)
    PROVE  /\ stop' \in [AllStops -> StopRecs] /\ generation' = generation + 1
           /\ stop'[s].pc = "cancelling" /\ stop'[s].target = stop[s].target
           /\ stop'[s].at = generation + 1
           /\ \A t \in AllStops \ {s} : stop'[t] = stop[t]
<1> DEFINE g == generation + 1
           rec == [stop[s] EXCEPT !.pc = "cancelling", !.at = g]
<1>0. stop \in [AllStops -> StopRecs] /\ stop[s] \in StopRecs /\ g \in Nat
  BY DEF TypeOK, StopRecs
<1>2. generation' = g /\ stop' = [stop EXCEPT ![s] = rec]
  BY <1>0 DEF RaiseGeneration
<1> HIDE DEF g
<1>1. rec \in StopRecs /\ rec.pc = "cancelling" /\ rec.target = stop[s].target
      /\ rec.at = g
  BY <1>0 DEF StopRecs
<1> HIDE DEF rec
<1>3. /\ stop' \in [AllStops -> StopRecs] /\ generation' = g
      /\ stop'[s].pc = "cancelling" /\ stop'[s].target = stop[s].target
      /\ stop'[s].at = g
      /\ \A t \in AllStops \ {s} : stop'[t] = stop[t]
  BY <1>0, <1>1, <1>2
<1> QED
  BY <1>3 DEF g

\* The session of the runtime is active, or no work is.
SessionMoves ==
    /\ runtimeStatus' \in {"created", "starting", "ready", "ending", "ended"}
    /\ session' \in {"none", "active", "ending", "ended"}
    /\ opening' \in {"no", "recover", "startRuntime", "ready", "done", "failed"}
    /\ quitting' \in {"no", "asked", "works", "runtime_end", "done", "failed"}
    /\ session' = session \/ session' = "active"
          \/ (\A w \in Works : work[w] # "active")

StopMoved(s) ==
    /\ stop' \in [AllStops -> StopRecs]
    /\ \A t \in AllStops \ {s} : stop'[t] = stop[t]
    /\ stop'[s].target # NoWork => work'[stop'[s].target] \in Over
    /\ stop'[s].pc = "ending" => stop'[s].target # NoWork
    /\ generation' \in Nat /\ generation <= generation' /\ stop'[s].at <= generation'
    /\ stop'[s].pc = "done" =>
          \/ stop[s].pc = "done" /\ stop'[s].at = stop[s].at
          \/ \A w \in Works : entry[w] # "live"

OtherForm(s) ==
    /\ UNCHANGED <<since, call>> /\ halted' \subseteq Works
    /\ SessionMoves /\ StopMoved(s)
    /\ UNCHANGED sessions \/ \E w \in Works : Ends(w) \/ Gone(w)
    /\ \/ entry' = entry
       \/ \E w \in Works : entry' = [entry EXCEPT ![w] = "canceled"] /\ work'[w] # "active"

\* So does a step of a stop, of start or of shutdown.
LEMMA OtherKept == ASSUME IInv, NEW s \in AllStops, OtherForm(s) PROVE Core'
<1>1. /\ UNCHANGED <<since, call>> /\ halted' \subseteq Works
      /\ SessionMoves /\ StopMoved(s)
  BY DEF OtherForm
<1>2. /\ \A v \in Works : work[v] \in Over => work'[v] \in Over
      /\ \A v \in Works : work'[v] = "active" => work[v] = "active"
      /\ \A v \in Works : work'[v] = "none" <=> work[v] = "none"
      /\ work' \in [Works -> Statuses] /\ key' \in [Works -> Keys]
      /\ workKeys' \in [Keys -> Works \cup {NoWork}]
      /\ journal' \in [Works -> Seq(Events)] /\ Story'
  <2>1. CASE UNCHANGED sessions
    BY <2>1 DEF sessions, IInv, Core, TypeOK, Statuses, Story
  <2>2. CASE ~(UNCHANGED sessions)
    <3>1. PICK w \in Works : Ends(w) \/ Gone(w)
      BY <2>2 DEF OtherForm
    <3>2. SessionStep(w) /\ ~Opens(w)
      BY <3>1 DEF SessionStep, Ends, Gone, Opens, Over
    <3> QED
      BY <3>2, Forward, SessionsOK DEF IInv, Core
  <2> QED
    BY <2>1, <2>2
<1>3. /\ entry' \in [Works -> {"absent", "live", "canceled"}]
      /\ \A v \in Works : work'[v] = "active" => entry'[v] = entry[v]
  BY DEF OtherForm, IInv, Core, TypeOK
<1>4. TypeOK'
  BY <1>1, <1>2, <1>3 DEF IInv, Core, TypeOK, SessionMoves, StopMoved, StopRecs, Statuses
<1>5. Life'
  BY <1>1, <1>2, <1>3 DEF IInv, Core, Life, Over
<1>6. Targets'
  <2> SUFFICES ASSUME NEW t \in AllStops
               PROVE  /\ stop'[t].target # NoWork => work'[stop'[t].target] \in Over
                      /\ stop'[t].pc = "ending" => stop'[t].target # NoWork
                      /\ stop'[t].at <= generation'
    BY DEF Targets
  <2>1. CASE t = s
    BY <1>1, <2>1 DEF StopMoved
  <2>2. CASE t # s
    <3>1. stop'[t] = stop[t] /\ stop[t].target \in Works \cup {NoWork} /\ stop[t].at \in Nat
      BY <1>1, <2>2 DEF StopMoved, IInv, Core, TypeOK
    <3>2. stop[t].at <= generation /\ generation <= generation' /\ generation \in Nat /\ generation' \in Nat
      BY <1>1 DEF StopMoved, IInv, Core, TypeOK, Targets
    <3> QED
      BY <1>2, <3>1, <3>2 DEF IInv, Core, Targets
  <2> QED
    BY <2>1, <2>2
<1>7. Closed'
  BY <1>1, <1>2 DEF SessionMoves, IInv, Core, Closed
<1>8. StopReached'
  <2> SUFFICES ASSUME NEW t \in AllStops, NEW v \in Works,
                      stop'[t].pc = "done", since[v] < stop'[t].at, call[v] # "starting",
                      work'[v] = "active"
               PROVE  FALSE
    BY <1>1 DEF StopReached
  <2>1. work[v] = "active" /\ entry[v] = "live"
    BY <1>2 DEF IInv, Core, Life
  <2>2. stop[t].pc = "done" /\ stop'[t].at = stop[t].at
    BY <1>1, <2>1 DEF StopMoved
  <2> QED
    BY <2>1, <2>2 DEF IInv, Core, StopReached
<1> QED
  BY <1>2, <1>4, <1>5, <1>6, <1>7, <1>8 DEF IInv, Core

\* The steps of an emergency stop have the form of OtherKept.
LEMMA StopForms ==
    ASSUME IInv, NEW s \in AllStops, StopStep(s) \/ Halt(s)
    PROVE  OtherForm(s)
<1>0. /\ TypeOK /\ generation \in Nat /\ stop[s].at \in Nat /\ stop[s].at <= generation
      /\ stop[s].target \in Works \cup {NoWork}
      /\ stop[s].target # NoWork => work[stop[s].target] \in Over
      /\ stop[s].pc = "ending" => stop[s].target # NoWork
      /\ NoWork \in Works \cup {NoWork}
  BY DEF IInv, Core, TypeOK, Targets
<1>1. CASE Halt(s)
  <2>1. /\ halted' \subseteq Works /\ StopGoto(s, "halting", NoWork)
        /\ UNCHANGED <<lifecycle, generation, sessions, entry, since, call>>
    BY <1>0, <1>1 DEF Halt, TypeOK
  <2>2. StopMoved(s)
    BY <1>0, <2>1, StopMoves DEF StopMoved
  <2> QED
    BY <1>0, <2>1, <2>2 DEF OtherForm, SessionMoves, lifecycle, TypeOK
<1>2. CASE emergencyStop(s)
  <2>1. RaiseGeneration(s) /\ UNCHANGED <<lifecycle, sessions, entry, since, call, halted>>
    BY <1>2 DEF emergencyStop
  <2>2. work' = work
    BY <2>1 DEF sessions
  <2>3. StopMoved(s)
    BY <1>0, <2>1, <2>2, StopRaises DEF StopMoved
  <2> QED
    BY <1>0, <2>1, <2>3 DEF OtherForm, SessionMoves, lifecycle, TypeOK
<1>3. CASE StopLoop(s)
  <2>1. StopGoto(s, "loop", NoWork) /\ UNCHANGED <<lifecycle, generation, entry, since, call, halted>>
    BY <1>3 DEF StopLoop
  <2>2. StopMoved(s)
    BY <1>0, <2>1, StopMoves DEF StopMoved
  <2>3. UNCHANGED sessions \/ \E w \in Works : Gone(w)
    BY <1>0, <1>3 DEF StopLoop, Gone
  <2> QED
    BY <1>0, <2>1, <2>2, <2>3 DEF OtherForm, SessionMoves, lifecycle, TypeOK
<1>4. ASSUME NEW w \in Works, StopWork(s, w) PROVE OtherForm(s)
  <2>1. /\ stop[s].pc = "loop" /\ entry' = [entry EXCEPT ![w] = "canceled"]
        /\ UNCHANGED <<lifecycle, generation, since, call, halted>>
    BY <1>4 DEF StopWork
  <2>2. CASE requireWork(w)
    <3>1. EndWork(w) /\ StopGoto(s, "ending", w)
      BY <1>4, <2>2 DEF StopWork
    <3>2. Ends(w) /\ work'[w] = "ending"
      BY <1>0, <2>2, <3>1 DEF Ends, EndWork, requireWork, TypeOK
    <3>3. w # NoWork /\ w \in Works \cup {NoWork}
      BY RuntimeAssumption
    <3>4. /\ stop' \in [AllStops -> StopRecs]
          /\ stop'[s].pc = "ending" /\ stop'[s].target = w /\ stop'[s].at = stop[s].at
          /\ \A t \in AllStops \ {s} : stop'[t] = stop[t]
      BY <1>0, <3>1, <3>3, StopMoves
    <3>5. StopMoved(s)
      BY <1>0, <2>1, <3>2, <3>3, <3>4 DEF StopMoved, Over
    <3> QED
      BY <1>0, <2>1, <3>2, <3>5 DEF OtherForm, SessionMoves, lifecycle, TypeOK
  <2>3. CASE ~requireWork(w)
    <3>1. StopGoto(s, "failed", NoWork) /\ UNCHANGED sessions
      BY <1>4, <2>3 DEF StopWork
    <3>2. StopMoved(s)
      BY <1>0, <2>1, <3>1, StopMoves DEF StopMoved
    <3>3. work'[w] # "active"
      BY <2>3, <3>1 DEF requireWork, sessions
    <3> QED
      BY <1>0, <2>1, <3>1, <3>2, <3>3 DEF OtherForm, SessionMoves, lifecycle, TypeOK
  <2> QED
    BY <2>2, <2>3
<1>5. CASE StopDone(s)
  <2>1. /\ \A w \in Works : entry[w] # "live"
        /\ StopGoto(s, "done", NoWork)
        /\ UNCHANGED <<lifecycle, generation, sessions, entry, since, call, halted>>
    BY <1>5 DEF StopDone
  <2>2. StopMoved(s)
    BY <1>0, <2>1, StopMoves DEF StopMoved
  <2> QED
    BY <1>0, <2>1, <2>2 DEF OtherForm, SessionMoves, lifecycle, TypeOK
<1> QED
  BY <1>1, <1>2, <1>3, <1>4, <1>5 DEF StopStep

\* start and shutdown move the runtime, and the stop that shutdown is.
LEMMA QuitForms ==
    ASSUME IInv, start \/ Opening \/ shutdown \/ QuitStep
    PROVE  OtherForm(Quit)
<1>0. /\ TypeOK /\ generation \in Nat /\ Quit \in AllStops /\ stop \in [AllStops -> StopRecs]
      /\ stop[Quit].at \in Nat /\ stop[Quit].at <= generation
      /\ stop[Quit].target \in Works \cup {NoWork}
      /\ stop[Quit].target # NoWork => work[stop[Quit].target] \in Over
      /\ stop[Quit].pc = "ending" => stop[Quit].target # NoWork
      /\ NoWork \in Works \cup {NoWork}
  BY DEF IInv, Core, TypeOK, Targets, AllStops, StopRecs
<1>1. CASE start \/ Opening \/ StopFailed \/ endRuntime
  <2>1. UNCHANGED <<generation, sessions, entry, since, call, stop, halted>>
    BY <1>1 DEF start, Opening, startRuntime, ready, started, StopFailed, endRuntime
  <2>2. SessionMoves
    BY <1>0, <1>1 DEF start, Opening, startRuntime, ready, started, StopFailed, endRuntime,
       SessionMoves, TypeOK
  <2>3. StopMoved(Quit)
    BY <1>0, <2>1 DEF StopMoved, sessions
  <2> QED
    BY <1>0, <2>1, <2>2, <2>3 DEF OtherForm, TypeOK
<1>2. CASE shutdown
  <2>1. RaiseGeneration(Quit) /\ UNCHANGED <<session, opening, sessions, entry, since, call, halted>>
    BY <1>2 DEF shutdown
  <2>2. SessionMoves
    BY <1>0, <1>2 DEF shutdown, SessionMoves, TypeOK
  <2>3. work' = work
    BY <2>1 DEF sessions
  <2>4. StopMoved(Quit)
    BY <1>0, <2>1, <2>3, StopRaises DEF StopMoved
  <2> QED
    BY <1>0, <2>1, <2>2, <2>4 DEF OtherForm, TypeOK
<1>3. CASE RuntimeEnds \/ RuntimeEnded
  <2>1. UNCHANGED <<generation, sessions, entry, since, call, stop, halted>>
    BY <1>3 DEF RuntimeEnds, RuntimeEnded
  <2>2. StopMoved(Quit)
    BY <1>0, <2>1 DEF StopMoved, sessions
  <2>3. SessionMoves
    <3>1. CASE RuntimeEnds
      BY <1>0, <3>1 DEF RuntimeEnds, SessionMoves, TypeOK, requireWork
    <3>2. CASE RuntimeEnded
      BY <1>0, <3>2 DEF RuntimeEnded, SessionMoves, TypeOK, IInv, Core, QuitDone, Closed
    <3> QED
      BY <1>3, <3>1, <3>2
  <2> QED
    BY <1>0, <2>1, <2>2, <2>3 DEF OtherForm, TypeOK
<1>4. ASSUME NEW w \in Works, EndActive(w) PROVE OtherForm(Quit)
  <2>1. /\ Ends(w) /\ StopGoto(Quit, "done", w)
        /\ UNCHANGED <<lifecycle, generation, entry, since, call, halted>>
    BY <1>4 DEF EndActive, Ends, requireWork
  <2>2. work'[w] = "ending" /\ w \in Works \cup {NoWork}
    BY <1>0, <2>1 DEF Ends, EndWork, TypeOK
  <2>3. /\ stop' \in [AllStops -> StopRecs]
        /\ stop'[Quit].pc = "done" /\ stop'[Quit].target = w /\ stop'[Quit].at = stop[Quit].at
        /\ \A t \in AllStops \ {Quit} : stop'[t] = stop[t]
    BY <1>0, <2>1, <2>2, StopMoves
  <2>4. stop[Quit].pc = "done"
    BY <1>4 DEF EndActive, IInv, Core, QuitDone
  <2>5. StopMoved(Quit)
    BY <1>0, <2>1, <2>2, <2>3, <2>4 DEF StopMoved, Over
  <2> QED
    BY <1>0, <2>1, <2>5 DEF OtherForm, SessionMoves, lifecycle, TypeOK
<1>5. CASE ActiveEnded
  <2>1. /\ WorkEnded(stop[Quit].target) /\ stop[Quit].target # NoWork
        /\ StopGoto(Quit, "done", NoWork)
        /\ UNCHANGED <<lifecycle, generation, entry, since, call, halted>>
    BY <1>5 DEF ActiveEnded
  <2>2. \E w \in Works : Gone(w)
    BY <1>0, <2>1 DEF Gone
  <2>3. stop[Quit].pc = "done"
    BY <1>5 DEF ActiveEnded, IInv, Core, QuitDone
  <2>4. StopMoved(Quit)
    BY <1>0, <2>1, <2>3, StopMoves DEF StopMoved
  <2> QED
    BY <1>0, <2>1, <2>2, <2>4 DEF OtherForm, SessionMoves, lifecycle, TypeOK
<1> QED
  BY <1>1, <1>2, <1>3, <1>4, <1>5 DEF QuitStep

\* A request that opens its session.
LEMMA StartKept == ASSUME IInv, NEW w \in Works, startWork(w) PROVE Core'
<1>1. /\ call[w] = "idle" /\ session = "active"
      /\ work' = [work EXCEPT ![w] = "active"]
      /\ workKeys' = [workKeys EXCEPT ![key[w]] = w] /\ Publish(w, "start")
      /\ since' = [since EXCEPT ![w] = generation] /\ Goto(w, "starting")
      /\ UNCHANGED <<lifecycle, generation, key, entry, stop, halted>>
  BY DEF startWork
<1>2. Opens(w)
  BY <1>1 DEF Opens, IInv, Core, Life
<1>3. /\ work' \in [Works -> Statuses] /\ key' \in [Works -> Keys]
      /\ workKeys' \in [Keys -> Works \cup {NoWork}]
      /\ journal' \in [Works -> Seq(Events)] /\ Story'
  BY <1>2, SessionsOK DEF IInv, Core, SessionStep
<1>4. /\ call' \in [Works -> Awaits] /\ call'[w] = "starting" /\ work'[w] = "active"
      /\ since' \in [Works -> Nat] /\ since'[w] = generation
      /\ \A v \in Works \ {w} : call'[v] = call[v] /\ work'[v] = work[v] /\ since'[v] = since[v]
  BY <1>1 DEF IInv, Core, TypeOK, Goto, Awaits
<1>5. TypeOK'
  BY <1>1, <1>3, <1>4 DEF IInv, Core, TypeOK, Statuses, lifecycle
<1>6. Life'
  BY <1>1, <1>4 DEF IInv, Core, Life, Settled
<1>7. Targets'
  <2>1. \A s \in AllStops : stop[s].target \in Works \cup {NoWork}
    BY DEF IInv, Core, TypeOK
  <2>2. work[w] \notin Over
    BY <1>2 DEF Opens, Over
  <2> QED
    BY <1>1, <1>4, <2>1, <2>2 DEF IInv, Core, Targets
<1>8. Closed'
  BY <1>1 DEF Closed, lifecycle
<1>9. StopReached'
  BY <1>1, <1>4 DEF IInv, Core, StopReached
<1> QED
  BY <1>3, <1>5, <1>6, <1>7, <1>8, <1>9 DEF IInv, Core

\* No step undoes the order of start and shutdown.
LEMMA QuitKept == ASSUME IInv, [Next]_vars PROVE QuitDone'
<1> USE DEF QuitDone
<1>0. QuitDone /\ TypeOK /\ Quit \in AllStops
  BY DEF IInv, Core, AllStops
<1>1. ASSUME NEW w \in Works, startWork(w) \/ RunStep(w) PROVE QuitDone'
  BY <1>0, <1>1, CallForms DEF IInv, Core, startWork, CallForm, lifecycle
<1>2. CASE start \/ Opening
  <2>1. UNCHANGED <<quitting, stop>>
    BY <1>2 DEF start, Opening, startRuntime, ready, started
  <2>2. CASE start
    <3>1. /\ session' = session /\ opening' = "recover"
          /\ runtimeStatus = "created" /\ runtimeStatus' = "starting"
      BY <2>2 DEF start
    <3> QED
      BY <1>0, <2>1, <3>1
  <2>3. CASE startRuntime
    BY <1>0, <2>1, <2>3 DEF startRuntime
  <2>4. CASE ready
    BY <1>0, <2>1, <2>4 DEF ready
  <2>5. CASE started
    BY <1>0, <2>1, <2>5 DEF started
  <2> QED
    BY <1>2, <2>2, <2>3, <2>4, <2>5 DEF Opening
<1>3. CASE shutdown
  BY <1>0, <1>3 DEF shutdown
<1>4. CASE StopFailed \/ endRuntime \/ RuntimeEnds \/ RuntimeEnded
  BY <1>0, <1>4 DEF StopFailed, endRuntime, RuntimeEnds, RuntimeEnded
<1>5. CASE ActiveEnded \/ \E w \in Works : EndActive(w)
  <2>1. UNCHANGED lifecycle /\ \E w \in Works \cup {NoWork} : StopGoto(Quit, "done", w)
    BY <1>5 DEF ActiveEnded, EndActive
  <2>2. stop'[Quit].pc = "done"
    BY <1>0, <2>1, StopMoves
  <2> QED
    BY <1>0, <2>1, <2>2 DEF lifecycle
<1>6. ASSUME NEW s \in AllStops, StopStep(s) \/ Halt(s) PROVE QuitDone'
  <2>1. UNCHANGED lifecycle /\ stop[s].pc # "done" /\ OtherForm(s)
    BY <1>6, StopForms DEF StopStep, Halt, emergencyStop, StopLoop, StopWork, StopDone
  <2>2. s # Quit => stop'[Quit] = stop[Quit]
    BY <1>0, <2>1 DEF OtherForm, StopMoved
  <2> QED
    BY <1>0, <2>1, <2>2 DEF lifecycle
<1>7. CASE UNCHANGED vars
  BY <1>0, <1>7 DEF vars, lifecycle
<1> QED
  BY <1>1, <1>2, <1>3, <1>4, <1>5, <1>6, <1>7 DEF Next, RunStep, QuitStep

\* The invariant holds of the initial states.
LEMMA InitIInv == Init => IInv
<1> SUFFICES ASSUME Init PROVE IInv
  OBVIOUS
<1>1. \A s \in AllStops : stop[s].pc = "idle" /\ stop[s].target = NoWork /\ stop[s].at = 0
  BY DEF Init
<1>2. stop \in [AllStops -> StopRecs]
  BY DEF Init, StopRecs
<1>3. TypeOK
  BY <1>2, JournalFacts DEF Init, TypeOK, StopRecs, Awaits
<1>4. Core
  BY <1>1, <1>3 DEF Init, Core, Life, Targets, Closed, StopReached, Story, Settled, Over
<1>5. QuitDone
  BY DEF Init, QuitDone
<1> QED
  BY <1>4, <1>5 DEF IInv

\* Every step keeps it.
LEMMA NextIInv == IInv /\ [Next]_vars => IInv'
<1> SUFFICES ASSUME IInv, [Next]_vars PROVE Core'
  BY QuitKept DEF IInv
<1>1. ASSUME NEW w \in Works, RunStep(w) PROVE Core'
  BY <1>1, CallForms, CallKept DEF IInv, Core
<1>2. ASSUME NEW s \in AllStops, StopStep(s) \/ Halt(s) PROVE Core'
  BY <1>2, StopForms, OtherKept
<1>3. CASE start \/ Opening \/ shutdown \/ QuitStep
  <2>1. Quit \in AllStops
    BY DEF AllStops
  <2> QED
    BY <1>3, <2>1, QuitForms, OtherKept
<1>4. CASE UNCHANGED vars
  <2>1. UNCHANGED <<runtimeStatus, session, opening, quitting, generation, work, key, workKeys,
                    journal, entry, since, call, stop, halted>>
    BY <1>4 DEF vars, lifecycle, sessions
  <2> QED
    BY <2>1 DEF IInv, Core, TypeOK, Life, Targets, Closed, StopReached, Story
<1> QED
  BY <1>1, <1>2, <1>3, <1>4, StartKept DEF Next, RunStep

\* Every reachable state has the invariant.
LEMMA AlwaysIInv == Spec => []IInv
BY InitIInv, NextIInv, PTL DEF Spec

\* The type invariant.
THEOREM Typed == Spec => []TypeOK
<1>1. IInv => TypeOK
  BY DEF IInv, Core
<1> QED
  BY <1>1, AlwaysIInv, PTL

\* mina-runtime.mjs:73: whatever interrupted it, a call that has settled
\* leaves no active session behind.
THEOREM NoZombieHolds == Spec => []NoZombie
<1>1. IInv => NoZombie
  BY DEF IInv, Core, Life, NoZombie, Over
<1> QED
  BY <1>1, AlwaysIInv, PTL

\* mina-runtime.mjs:51 and 88: an emergency stop that has returned left none of
\* the works that preceded it active.
THEOREM StopHolds == Spec => []StopReached
<1>1. IInv => StopReached
  BY DEF IInv, Core
<1> QED
  BY <1>1, AlwaysIInv, PTL

\* session-manager.mjs:234: the journal tells one story of every work, and
\* every story is over when the runtime's own end is recorded.
THEOREM JournalHolds == Spec => []JournalConsistent
<1>1. IInv => JournalConsistent
  <2> SUFFICES ASSUME IInv PROVE JournalConsistent
    OBVIOUS
  <2>1. \A w \in Works : /\ journal[w] \in Seq(Events) /\ work[w] \in Statuses
                         /\ journal[w] = << >> \/ GoesOn(journal[w]) \/ Finished(journal[w])
    BY DEF IInv, Core, TypeOK, Story, Statuses, Over
  <2>2. ASSUME NEW w \in Works, NEW i \in DOMAIN journal[w]
        PROVE  /\ journal[w][i] = "start" <=> i = 1
               /\ journal[w][i] = "end" => i = Len(journal[w])
    <3>1. journal[w] \in Seq(Events) /\ i \in 1..Len(journal[w]) /\ journal[w] # << >>
      BY <2>1
    <3> QED
      BY <2>1, <3>1 DEF GoesOn, Finished
  <2>3. ASSUME session \in {"ending", "ended"}, NEW w \in Works, journal[w] # << >>
        PROVE  journal[w][Len(journal[w])] = "end"
    <3>1. work[w] \in Over
      BY <2>1, <2>3 DEF IInv, Core, Closed, Story, Statuses, Over
    <3>2. Finished(journal[w]) /\ journal[w] \in Seq(Events)
      BY <2>1, <3>1 DEF IInv, Core, Story
    <3> QED
      BY <3>2 DEF Finished
  <2> QED
    BY <2>2, <2>3 DEF JournalConsistent
<1> QED
  BY <1>1, AlwaysIInv, PTL

-----------------------------------------------------------------------------
(***************************************************************************)
(* The missions that the works run (MissionLoop), for any budget of        *)
(* actions and of failures.                                                *)
(***************************************************************************)
\* A mission under way is running, with budget left.
MissionUnderWay ==
    pc \notin {"idle", "end"} =>
        status = "running" /\ actions < MaxActions /\ failures < MaxFailures

\* An action that began after the stop leads to the head of the loop, where
\* the stop is seen, and never to another action.
StopAhead ==
    /\ after > 0 => stopRequested /\ pc \in {"execute", "verify", "model", "end", "idle"}
    /\ after <= 1

MissionIInv == MissionTypeOK /\ MissionUnderWay /\ StopAhead

\* The budgets are not empty.
LEMMA Budgets ==
    /\ MaxActions \in Nat /\ MaxFailures \in Nat /\ 0 < MaxActions /\ 0 < MaxFailures
    /\ 0 \in 0..MaxActions /\ 0 \in 0..MaxFailures
    /\ \A n \in 0..MaxActions : n < MaxActions => n + 1 \in 0..MaxActions
    /\ \A n \in 0..MaxFailures : n < MaxFailures => n + 1 \in 0..MaxFailures
BY MissionAssumption

\* The invariant holds at first.
LEMMA InitMission == MissionInit => MissionIInv
<1> SUFFICES ASSUME MissionInit PROVE MissionIInv
  OBVIOUS
<1>1. MissionTypeOK
  BY Budgets DEF MissionInit, MissionTypeOK
<1>2. MissionUnderWay /\ StopAhead
  BY DEF MissionInit, MissionUnderWay, StopAhead
<1> QED
  BY <1>1, <1>2 DEF MissionIInv

\* Every step keeps it.
LEMMA NextMission ==
    MissionIInv /\ [MissionNext]_missionVars => MissionIInv'
<1> SUFFICES ASSUME MissionIInv, [MissionNext]_missionVars PROVE MissionIInv'
  OBVIOUS
<1> USE MissionAssumption, Budgets DEF MissionIInv, MissionTypeOK, MissionUnderWay,
                    StopAhead, Await, Running, mission, history
<1>1. CASE run
  <2>1. MissionTypeOK'
    BY <1>1 DEF run
  <2>2. MissionUnderWay' /\ StopAhead'
    BY <1>1 DEF run
  <2> QED
    BY <2>1, <2>2
<1>2. CASE missionEmergencyStop
  BY <1>2 DEF missionEmergencyStop
<1>3. CASE Elapse
  BY <1>3 DEF Elapse
<1>4. CASE observe
  BY <1>4 DEF observe
<1>5. CASE Throws
  BY <1>5 DEF Throws, Conclude
<1>6. CASE ModelAnswers
  <2>1. CASE StopSeen
    BY <1>6, <2>1 DEF ModelAnswers, StopSeen, Conclude
  <2>2. CASE ~StopSeen /\ NoCall
    BY <1>6, <2>2 DEF ModelAnswers, StopSeen, NoCall
  <2>3. CASE ~StopSeen /\ BadCall
    BY <1>6, <2>3 DEF ModelAnswers, StopSeen, BadCall, recordFailure
  <2>4. CASE ~StopSeen /\ Done
    BY <1>6, <2>4 DEF ModelAnswers, StopSeen, Done, Conclude
  <2>5. CASE ~StopSeen /\ Propose
    BY <1>6, <2>5 DEF ModelAnswers, StopSeen, Propose, Keep
  <2> QED
    BY <1>6, <2>1, <2>2, <2>3, <2>4, <2>5 DEF ModelAnswers
<1>7. CASE Classify
  BY <1>7 DEF Classify, Conclude, Keep
<1>8. CASE Assess
  BY <1>8 DEF Assess, Conclude, Keep, Execute
<1>9. CASE Confirm
  BY <1>9 DEF Confirm, Conclude, Keep, Execute
<1>10. CASE Executed
  BY <1>10 DEF Executed
<1>11. CASE FastExecuted
  BY <1>11 DEF FastExecuted, Conclude
<1>12. CASE Verify
  <2>1. CASE Verified
    <3>1. MissionTypeOK'
      BY <1>12, <2>1 DEF Verify, Verified, recordAction
    <3>2. MissionUnderWay' /\ StopAhead'
      BY <1>12, <2>1 DEF Verify, Verified, recordAction
    <3> QED
      BY <3>1, <3>2
  <2>2. CASE Unverified
    BY <1>12, <2>2 DEF Verify, Unverified, recordFailure
  <2>3. CASE Refused
    BY <1>12, <2>3 DEF Verify, Refused, Keep
  <2> QED
    BY <1>12, <2>1, <2>2, <2>3 DEF Verify
<1>13. CASE Finish
  BY <1>13 DEF Finish
<1>14. CASE UNCHANGED missionVars
  BY <1>14 DEF missionVars
<1> QED
  BY <1>1, <1>2, <1>3, <1>4, <1>5, <1>6, <1>7, <1>8, <1>9, <1>10, <1>11, <1>12, <1>13, <1>14
  DEF MissionNext, Proceed

\* Every reachable state has it.
LEMMA AlwaysMission == MissionSpec => []MissionIInv
  BY InitMission, NextMission, PTL DEF MissionSpec

\* Every reachable state of a mission (orchestrator.mjs, mission-state.mjs) is
\* well typed, and its counts of actions and failures stay in their budgets.
THEOREM MissionTyped == MissionSpec => []MissionTypeOK
<1>1. MissionIInv => MissionTypeOK
  BY DEF MissionIInv
<1> QED
  BY <1>1, AlwaysMission, PTL

\* orchestrator.mjs:147: at most one action begins after the emergency stop,
\* whatever the model, the executor and the user answer.
THEOREM MissionStopHolds == MissionSpec => []StopBounded
<1>1. MissionIInv => StopBounded
  BY DEF MissionIInv, StopAhead, StopBounded
<1> QED
  BY <1>1, AlwaysMission, PTL

\* orchestrator.mjs:147: outside the fast path a mission that was told to stop
\* is never announced complete, for any budget and whatever came before.
THEOREM MissionStopPrevails == MissionSpec => StopPrevails
<1>1. [MissionNext]_missionVars =>
          [Completes /\ ~fast => ~stopRequested]_missionVars
  <2> SUFFICES ASSUME MissionNext, Completes, ~fast PROVE ~stopRequested
    OBVIOUS
  <2> USE DEF Completes, mission, Keep
  <2>1. ~run /\ ~missionEmergencyStop /\ ~Elapse
    BY DEF run, missionEmergencyStop, Elapse
  <2>2. ~observe /\ ~Throws /\ ~Finish
    BY DEF observe, Throws, Finish, Conclude
  <2>3. ~Classify /\ ~Assess /\ ~Confirm
    BY DEF Classify, Assess, Confirm, Conclude
  <2>4. ~Executed /\ ~FastExecuted
    BY DEF Executed, FastExecuted
  <2>5. ~Verify
    BY DEF Verify, Verified, Unverified, Refused,
           recordAction, recordFailure
  <2>6. ModelAnswers
    BY <2>1, <2>2, <2>3, <2>4, <2>5 DEF MissionNext, Proceed
  <2> QED
    BY <2>6 DEF ModelAnswers, StopSeen, Conclude
<1> QED
  BY <1>1, PTL DEF MissionSpec, StopPrevails

=============================================================================
