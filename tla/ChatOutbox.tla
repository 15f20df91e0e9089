------------------------------ MODULE ChatOutbox ------------------------------
(***************************************************************************)
(* The phone's durable outbox (src/android/core/chat/.../ChatSyncLoop.kt   *)
(* over ChatDatabase.kt and ChatRepository.kt): a message written on the   *)
(* phone stays in the table chat_outbox until the PC acknowledges it or    *)
(* its attempts are exhausted.                                             *)
(*                                                                         *)
(* Every call of the DAO suspends its coroutine, so it is a step of its    *)
(* own, except inside a @Transaction.  The coroutines are the sync loop,   *)
(* the drain a background wake-up runs, one markDelivered per ack, and the *)
(* user's actions.  A drain works on the rows it read first, whatever the  *)
(* others have done to the table since.                                    *)
(*                                                                         *)
(* The socket, the relay and the PC are the environment: a message that    *)
(* was handed over is received, or lost with the connection; the PC        *)
(* acknowledges what it receives directly and never what it receives from  *)
(* the relay.  Time is abstracted: a row that was rescheduled becomes due  *)
(* again, and every attempt count from MaxAttempts on is the same.         *)
(***************************************************************************)
EXTENDS Integers, Sequences, FiniteSets

CONSTANTS
    Messages,      \* eventIds of outgoing events
    Chunks,        \* those of routing class "stream", purged after 14 days
    Loop,          \* the sync loop, which runs drainOnce at every tick
    Wakes,         \* background wake-ups, each running one drainOnce
    MaxAttempts,   \* MAX_ATTEMPTS
    MaxRetries,    \* bound: retries the user asks for
    EagerUser      \* TRUE: the user may retry while a drain holds the row

ASSUME OutboxAssumption ==
    /\ Chunks \subseteq Messages
    /\ IsFiniteSet(Messages)
    /\ Loop \notin Wakes
    /\ MaxAttempts \in Nat \ {0}
    /\ MaxRetries \in Nat
    /\ EagerUser \in BOOLEAN

VARIABLES
    event,      \* delivery_state of each row of chat_events
    row,        \* chat_outbox
    drain,      \* each drainOnce: where it stands and the rows it read
    online,     \* link.state is ONLINE
    wire,       \* messages handed to the socket, on their way
    acks,       \* acknowledgements on their way
    acking,     \* markDelivered: between its update and its dequeue
    cloud,      \* documents the relay holds for the PC
    received,   \* messages the PC has received
    failures,   \* history: failed attempts since the message was queued
    clock,      \* next queued_at_ms
    retries,
    contested   \* history: queued messages that a drain held together with
                \* another drain, or with the user who retried them

phone == <<event, row, clock>>
network == <<online, wire, acks, cloud, received>>
vars == <<phone, network, drain, acking, failures, retries, contested>>

-----------------------------------------------------------------------------
Drainers == {Loop} \cup Wakes

States == {"unwritten", "absent", "local_pending", "direct_sending", "cloud_queued",
           "waiting_for_pc", "pc_received", "failed_final"}

NoRow == [attempts |-> 0, due |-> FALSE, at |-> 0]
NewRow == [attempts |-> 0, due |-> TRUE, at |-> clock]
Queued == {m \in Messages : row[m] # NoRow}

\* Mutant: the count goes past the limit.
BumpPast(n) == IF n > MaxAttempts THEN n ELSE n + 1

Bump(n) == IF n >= MaxAttempts THEN MaxAttempts ELSE n + 1

Idle == [pc |-> "idle", path |-> "none", due |-> << >>, next |-> 1,
         sent |-> 0, verdict |-> "absent"]

Current(d) == drain[d].due[drain[d].next]

\* The messages of the rows a drain has read and may still work on: those
\* from its position on, and all of them while the leftovers of the relay are
\* not known.
Ahead(d) == {i \in DOMAIN drain[d].due : drain[d].path = "relay" \/ drain[d].next <= i}
Holds(d) == {drain[d].due[i].msg : i \in Ahead(d)}
Held == UNION {Holds(d) : d \in Drainers}

\* UPDATE ... WHERE event_id = m: nothing happens when the row is gone.
updateDeliveryState(m, state) ==
    event' = IF event[m] = "absent" THEN event ELSE [event EXCEPT ![m] = state]

\* Mutant: the row is not deleted.
dequeueNothing(m) == row' = row

dequeue(m) == row' = [row EXCEPT ![m] = NoRow]

rescheduleOutbox(m, attempts) ==
    row' = IF row[m] = NoRow THEN row
           ELSE [row EXCEPT ![m].attempts = attempts, ![m].due = FALSE]

\* ORDER BY queued_at_ms
InOrder(due) ==
    LET order == CHOOSE s \in [1..Cardinality(due) -> due] :
                     \A i, j \in DOMAIN s : i < j => row[s[i]].at < row[s[j]].at
    IN  [i \in 1..Cardinality(due) |->
            [msg |-> order[i], attempts |-> row[order[i]].attempts]]

\* Mutant: a row whose attempts are used up is no longer read.
dueBelowLimit == InOrder({m \in Queued : row[m].due /\ row[m].attempts < MaxAttempts})

dueOutbox == InOrder({m \in Queued : row[m].due})

Go(d, pc) == drain' = [drain EXCEPT ![d].pc = pc]

Verdict(d, state) ==
    drain' = [drain EXCEPT ![d].pc = "state", ![d].verdict = state]

-----------------------------------------------------------------------------
Init ==
    /\ event = [m \in Messages |-> "unwritten"]
    /\ row = [m \in Messages |-> NoRow]
    /\ drain = [d \in Drainers |-> Idle]
    /\ online = FALSE
    /\ wire = {} /\ acks = {} /\ acking = {} /\ cloud = {} /\ received = {}
    /\ failures = [m \in Messages |-> 0]
    /\ clock = 1
    /\ retries = 0
    /\ contested = {}

(***************************************************************************)
(* The user: a message and its outbox row are written in one transaction,  *)
(* and so is the retry of a failed one.                                    *)
(***************************************************************************)
enqueueOutgoing(m) ==
    /\ event[m] = "unwritten"
    /\ event' = [event EXCEPT ![m] = "local_pending"]
    /\ row' = [row EXCEPT ![m] = NewRow]
    /\ clock' = clock + 1
    /\ UNCHANGED <<network, drain, acking, failures, retries, contested>>

retryFailed(m) ==
    /\ event[m] = "failed_final"
    /\ retries < MaxRetries
    /\ EagerUser \/ \A d \in Drainers : drain[d].pc = "idle"
    /\ row' = [row EXCEPT ![m] = IF row[m] = NoRow THEN NewRow
                                 ELSE [row[m] EXCEPT !.attempts = 0, !.due = TRUE]]
    /\ event' = [event EXCEPT ![m] = "local_pending"]
    /\ clock' = clock + 1
    /\ failures' = [failures EXCEPT ![m] = 0]
    /\ retries' = retries + 1
    /\ contested' = IF m \in Held THEN contested \cup {m} ELSE contested \ {m}
    /\ UNCHANGED <<network, drain, acking>>

\* purgeExpiredChunks: the event goes, its outbox row stays.
purgeExpiredChunks ==
    /\ \E old \in SUBSET {m \in Chunks : event[m] \notin {"unwritten", "absent"}} :
           old # {} /\ event' = [m \in Messages |-> IF m \in old THEN "absent"
                                                            ELSE event[m]]
    /\ UNCHANGED <<row, clock, network, drain, acking, failures, retries, contested>>

(***************************************************************************)
(* drainOnce: read the due rows, then take the direct path, or the relay   *)
(* and, for the rows it did not take, markWaiting.                         *)
(***************************************************************************)
Collect(d) ==
    /\ drain[d].pc = "idle"
    /\ dueOutbox # << >>
    /\ drain' = [drain EXCEPT ![d] = [Idle EXCEPT !.pc = "route", !.due = dueOutbox]]
    /\ contested' = contested \cup {m \in Queued : row[m].due /\ m \in Held}
    /\ UNCHANGED <<phone, network, acking, failures, retries>>

Route(d) ==
    /\ drain[d].pc = "route"
    /\ \/ online /\ drain' = [drain EXCEPT ![d].pc = "row", ![d].path = "direct"]
       \/ \* connect() is called; relay.isReady() or not
          /\ ~online
          /\ \E path \in {"relay", "wait"} :
                 drain' = [drain EXCEPT ![d].pc = "row", ![d].path = path]
    /\ UNCHANGED <<phone, network, acking, failures, retries, contested>>

More(d) == drain[d].pc = "row" /\ drain[d].next <= Len(drain[d].due)

\* An event that disappeared takes its row with it.
DropOrphan(d) ==
    /\ More(d) /\ drain[d].path = "direct"
    /\ event[Current(d).msg] = "absent"
    /\ dequeue(Current(d).msg)
    /\ drain' = [drain EXCEPT ![d].next = @ + 1]
    /\ UNCHANGED <<event, clock, network, acking, failures, retries, contested>>

\* markWaiting: one more failed attempt, the last one is final.
Waiting(d) ==
    LET m == Current(d).msg
    IN  /\ Verdict(d, IF Current(d).attempts + 1 >= MaxAttempts
                      THEN "failed_final" ELSE "waiting_for_pc")
        /\ failures' = [failures EXCEPT ![m] = Bump(@)]

SendDirect(d) ==
    LET m == Current(d).msg
    IN  /\ More(d) /\ drain[d].path = "direct" /\ event[m] # "absent"
        /\ \/ /\ online
              /\ wire' = wire \cup {m}
              /\ Verdict(d, "direct_sending")
              /\ UNCHANGED failures
           \/ \* send returned false
              /\ ~online
              /\ Waiting(d)
              /\ UNCHANGED wire
        /\ UNCHANGED <<phone, online, acks, cloud, received, acking, retries, contested>>

MarkWaiting(d) ==
    /\ More(d) /\ drain[d].path = "wait"
    /\ Waiting(d)
    /\ UNCHANGED <<phone, network, acking, retries, contested>>

\* relayPending skips an event that disappeared without counting it.
SkipOrphan(d) ==
    /\ More(d) /\ drain[d].path = "relay"
    /\ event[Current(d).msg] = "absent"
    /\ drain' = [drain EXCEPT ![d].next = @ + 1]
    /\ UNCHANGED <<phone, network, acking, failures, retries, contested>>

AskRelay(d) ==
    /\ More(d) /\ drain[d].path = "relay"
    /\ event[Current(d).msg] # "absent"
    /\ Go(d, "relay")
    /\ UNCHANGED <<phone, network, acking, failures, retries, contested>>

\* due.drop(relayed): what is left after the first "sent" rows must wait.
Leftovers(d) ==
    drain' = [drain EXCEPT ![d].pc = "row", ![d].path = "wait",
                           ![d].next = drain[d].sent + 1]

\* The relay stored the document.
RelayAccepts(d) ==
    /\ drain[d].pc = "relay"
    /\ cloud' = cloud \cup {Current(d).msg}
    /\ Verdict(d, "cloud_queued")
    /\ UNCHANGED <<phone, online, wire, acks, received, acking, failures, retries, contested>>

RelayRefuses(d) ==
    /\ drain[d].pc = "relay"
    /\ Leftovers(d)
    /\ UNCHANGED <<phone, network, acking, failures, retries, contested>>

RelayDone(d) ==
    /\ drain[d].pc = "row" /\ drain[d].path = "relay" /\ ~More(d)
    /\ Leftovers(d)
    /\ UNCHANGED <<phone, network, acking, failures, retries, contested>>

\* Mutant: a message leaves the outbox when the socket took it.
ExhaustedOrSent(d) == drain[d].verdict \in {"failed_final", "direct_sending"}

Exhausted(d) == drain[d].verdict = "failed_final"

\* The two updates that record the fate of a row.
RecordState(d) ==
    /\ drain[d].pc = "state"
    /\ updateDeliveryState(Current(d).msg, drain[d].verdict)
    /\ Go(d, "outbox")
    /\ UNCHANGED <<row, clock, network, acking, failures, retries, contested>>

RecordRow(d) ==
    /\ drain[d].pc = "outbox"
    /\ IF Exhausted(d)
       THEN dequeue(Current(d).msg)
       ELSE rescheduleOutbox(Current(d).msg, Bump(Current(d).attempts))
    /\ drain' = [drain EXCEPT ![d].pc = "row", ![d].next = @ + 1,
                     ![d].sent = IF drain[d].path = "relay" THEN @ + 1 ELSE @]
    /\ UNCHANGED <<event, clock, network, acking, failures, retries, contested>>

DrainDone(d) ==
    /\ drain[d].pc = "row" /\ drain[d].path # "relay" /\ ~More(d)
    /\ drain' = [drain EXCEPT ![d] = Idle]
    /\ UNCHANGED <<phone, network, acking, failures, retries, contested>>

DrainStep(d) ==
    \/ Collect(d) \/ Route(d) \/ DropOrphan(d) \/ SendDirect(d) \/ MarkWaiting(d)
    \/ SkipOrphan(d) \/ AskRelay(d) \/ RelayDone(d)
    \/ RecordState(d) \/ RecordRow(d) \/ DrainDone(d)

RelayAnswers(d) == RelayAccepts(d) \/ RelayRefuses(d)

(***************************************************************************)
(* markDelivered, launched for each ack.                                   *)
(***************************************************************************)
MarkDelivered(m) ==
    /\ m \in acks
    /\ updateDeliveryState(m, "pc_received")
    /\ acks' = acks \ {m}
    /\ acking' = acking \cup {m}
    /\ UNCHANGED <<row, clock, online, wire, cloud, received, drain, failures, retries, contested>>

Dequeue(m) ==
    /\ m \in acking
    /\ dequeue(m)
    /\ acking' = acking \ {m}
    /\ UNCHANGED <<event, clock, network, drain, failures, retries, contested>>

(***************************************************************************)
(* Time, the network, the PC, and the death of the application's process.  *)
(***************************************************************************)
Elapse(m) ==
    /\ row[m] # NoRow /\ ~row[m].due
    /\ row' = [row EXCEPT ![m].due = TRUE]
    /\ UNCHANGED <<event, clock, network, drain, acking, failures, retries, contested>>

LinkUp ==
    /\ ~online
    /\ online' = TRUE
    /\ UNCHANGED <<phone, wire, acks, cloud, received, drain, acking, failures, retries, contested>>

LinkDown ==
    /\ online
    /\ online' = FALSE
    /\ wire' = {} /\ acks' = {}
    /\ UNCHANGED <<phone, cloud, received, drain, acking, failures, retries, contested>>

PcReceives(m) ==
    /\ m \in wire
    /\ wire' = wire \ {m}
    /\ acks' = acks \cup {m}
    /\ received' = received \cup {m}
    /\ UNCHANGED <<phone, online, cloud, drain, acking, failures, retries, contested>>

PcFetches(m) ==
    /\ m \in cloud
    /\ cloud' = cloud \ {m}
    /\ received' = received \cup {m}
    /\ UNCHANGED <<phone, online, wire, acks, drain, acking, failures, retries, contested>>

\* ChatEngine.stop cancels the loop and closes the link.
stop ==
    /\ drain' = [drain EXCEPT ![Loop] = Idle]
    /\ online' = FALSE
    /\ wire' = {} /\ acks' = {}
    /\ UNCHANGED <<phone, cloud, received, acking, failures, retries, contested>>

\* The system stops a background worker.
CancelWake(d) ==
    /\ d \in Wakes
    /\ drain' = [drain EXCEPT ![d] = Idle]
    /\ UNCHANGED <<phone, network, acking, failures, retries, contested>>

Crash ==
    /\ drain' = [d \in Drainers |-> Idle]
    /\ online' = FALSE
    /\ wire' = {} /\ acks' = {} /\ acking' = {}
    /\ UNCHANGED <<phone, cloud, received, failures, retries, contested>>

-----------------------------------------------------------------------------
Next ==
    \/ \E m \in Messages :
          \/ enqueueOutgoing(m) \/ retryFailed(m)
          \/ MarkDelivered(m) \/ Dequeue(m)
          \/ Elapse(m) \/ PcReceives(m) \/ PcFetches(m)
    \/ \E d \in Drainers : DrainStep(d) \/ RelayAnswers(d) \/ CancelWake(d)
    \/ purgeExpiredChunks \/ LinkUp \/ LinkDown \/ stop \/ Crash

Spec == Init /\ [][Next]_vars

(* The loop ticks, the database answers and the backoff elapses.  The PC   *)
(* takes what reaches it.  A wake-up may never come: the system decides.   *)
(* The relay's answer may never come either: a Firestore write settles     *)
(* only once the server has confirmed it.                                  *)
Fairness ==
    /\ WF_vars(DrainStep(Loop))
    /\ \A m \in Messages : WF_vars(Elapse(m)) /\ WF_vars(PcReceives(m))

FairSpec == Spec /\ Fairness

\* Each acknowledgement is taken to its end, too.
AckFairSpec ==
    FairSpec /\ \A m \in Messages : WF_vars(MarkDelivered(m)) /\ WF_vars(Dequeue(m))

-----------------------------------------------------------------------------
Rows == [attempts : 0..MaxAttempts, due : BOOLEAN, at : Nat]
Drains == [pc : {"idle", "route", "row", "relay", "state", "outbox"},
           path : {"none", "direct", "relay", "wait"},
           due : Seq([msg : Messages, attempts : 0..MaxAttempts]),
           next : Nat, sent : Nat, verdict : States]

\* The type invariant.
TypeOK ==
    /\ event \in [Messages -> States]
    /\ row \in [Messages -> Rows]
    /\ drain \in [Drainers -> Drains]
    /\ \A d \in Drainers : drain[d].pc \in {"relay", "state", "outbox"} =>
          drain[d].next \in DOMAIN drain[d].due
    /\ online \in BOOLEAN
    /\ wire \subseteq Messages /\ acks \subseteq Messages
    /\ acking \subseteq Messages /\ cloud \subseteq Messages
    /\ received \subseteq Messages
    /\ failures \in [Messages -> 0..MaxAttempts]
    /\ clock \in Nat /\ retries \in Nat
    /\ contested \subseteq Messages

\* ChatSyncLoop.kt: "sans jamais perdre ni dupliquer un message".  A message
\* the PC has not received is still queued, unless the user sees it failed.
NeverLost ==
    \A m \in Messages :
        event[m] \notin {"unwritten", "absent", "failed_final"} /\ m \notin received
            => row[m] # NoRow

\* ChatSyncLoop.kt: a message is failed_final after MAX_ATTEMPTS failures.
FailedAfterMaxFailures ==
    \A m \in Messages : event[m] = "failed_final" => failures[m] >= MaxAttempts

\* What the two drains and the user's retry leave of it: a message goes only
\* while two of them had it in their hands at once.
LostOnlyContested ==
    \A m \in Messages \ contested :
        event[m] \notin {"unwritten", "absent", "failed_final"} /\ m \notin received
            => row[m] # NoRow

\* ChatRepository.kt: an outgoing message leaves when the PC is back.
LeavesOnReturn ==
    \A m \in Messages : <>[]online => (row[m] # NoRow ~> row[m] = NoRow)

\* What the code gives of it: the PC has it, or the user sees it failed, or it
\* was purged, unless the loop waits for ever for a completion of the relay.
ReachesThePc ==
    \A m \in Messages :
        <>[]online /\ []<>(drain[Loop].pc # "relay")
            => (row[m] # NoRow ~> \/ m \in received \cup contested
                                  \/ event[m] \in {"failed_final", "absent"})
=============================================================================
