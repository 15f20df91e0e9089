----------------------------- MODULE PhoneMessages -----------------------------
(***************************************************************************)
(* The owner's messages, from Telegram and the SIM card to the PC and the  *)
(* answers back (src/src/devices/phone-message-sync.mjs over               *)
(* src/src/messaging/, and the phone's gateway service).                   *)
(*                                                                         *)
(* The phone's poller stores each Telegram update, then moves its offset;  *)
(* its command thread runs the command files the PC pushes over ADB (pull, *)
(* ack, telegram.send) and leaves a receipt.  The PC's sync, of which one  *)
(* runs at a time, pulls the oldest pending messages, stores each, answers *)
(* the Telegram ones through the delivery ledger and acknowledges.  The PC *)
(* polls for a receipt and gives up after a while; the phone may run the   *)
(* command all the same.  Either side may die between two steps.           *)
(***************************************************************************)
EXTENDS Integers, Sequences, FiniteSets

CONSTANTS
    LastUpdate,    \* Telegram updates are 1..LastUpdate
    Owned,         \* those of the owner, the others are not stored
    Groups,        \* those whose sender is not the chat: no valid reply target
    Sms,           \* inbound SMS
    Texts, NoText, \* answers the responder may generate
    PullLimit,     \* 50 in the code
    MaxAttempts,   \* maxAttempts
    MaxFaults      \* bound: crashes, timeouts and failures of the store

Updates == 1..LastUpdate
Messages == Owned \cup Sms

ASSUME MessagesAssumption ==
    /\ LastUpdate \in Nat
    /\ Owned \subseteq Updates /\ Groups \subseteq Owned
    /\ Sms \cap Updates = {}
    /\ NoText \notin Texts
    /\ PullLimit \in Nat \ {0} /\ MaxAttempts \in Nat \ {0} /\ MaxFaults \in Nat

VARIABLES
    stored,     \* phone: the rows of encrypted_messages, oldest first
    ingested,   \* phone: rows whose state is "ingested"
    offset,     \* phone: the saved Telegram offset
    polled,     \* poller: the update stored whose offset is not saved yet, or 0
    files,      \* phone: command files
    work,       \* command thread: the command read, and what came of it
    receipt,    \* phone: the receipt of the command the PC waits for
    remembered, \* PC memory
    ledger,     \* PC delivery ledger
    sync,       \* PC: the running synchronize
    said,       \* history: the answers Telegram accepted for each message
    faults

phone == <<stored, ingested, offset, polled>>
wire == <<files, work, receipt>>
pc == <<remembered, ledger, sync>>
vars == <<phone, wire, pc, said, faults>>

-----------------------------------------------------------------------------
\* Commands: "live" says that the PC still polls for the receipt.
Pull == [kind |-> "pull", ids |-> {}, text |-> NoText, live |-> TRUE]
AckOf(ids) == [Pull EXCEPT !.kind = "ack", !.ids = ids]
SendOf(m, text) == [Pull EXCEPT !.kind = "send", !.ids = {m}, !.text = text]

Idling == [cmd |-> Pull, result |-> "idle", rows |-> << >>]
None == [result |-> "none", rows |-> << >>]
AtRest == [pc |-> "idle", batch |-> << >>, at |-> 1, toAck |-> {}]
NewRecord == [state |-> "absent", attempt |-> 0, text |-> NoText]

States == {"absent", "pending", "generating", "reply_ready", "sending", "sent",
           "acked", "retry_wait", "dead_letter"}

DONE_STATES == {"sent", "acked", "dead_letter"}

Fault == faults < MaxFaults /\ faults' = faults + 1

Init ==
    /\ stored = << >> /\ ingested = {} /\ offset = 1 /\ polled = 0
    /\ files = {} /\ work = Idling /\ receipt = None
    /\ remembered = {} /\ sync = AtRest
    /\ ledger = [m \in Owned |-> NewRecord]
    /\ said = [m \in Owned |-> {}]
    /\ faults = 0

(***************************************************************************)
(* The phone: what comes in.                                               *)
(***************************************************************************)
\* INSERT OR IGNORE on the blind index of the message.
Stored(m) == \E i \in DOMAIN stored : stored[i] = m
store(m) == stored' = IF Stored(m) THEN stored ELSE Append(stored, m)

PersistUpdate ==
    /\ polled = 0 /\ offset \in Updates
    /\ IF offset \in Owned THEN store(offset) ELSE UNCHANGED stored
    /\ polled' = offset
    /\ UNCHANGED <<ingested, offset, wire, pc, said, faults>>

SaveOffset ==
    /\ polled # 0
    /\ offset' = polled + 1 /\ polled' = 0
    /\ UNCHANGED <<stored, ingested, wire, pc, said, faults>>

SmsReceived(m) ==
    /\ ~Stored(m) /\ store(m)
    /\ UNCHANGED <<ingested, offset, polled, wire, pc, said, faults>>

(***************************************************************************)
(* The phone: the command thread.                                          *)
(***************************************************************************)
Batches == UNION {[1..n -> Messages] : n \in 0..PullLimit}

\* Mutant: the state of the rows is not looked at.
Everything == stored

Pending == SelectSeq(stored, LAMBDA m : m \notin ingested)
pending == SubSeq(Pending, 1, IF Len(Pending) < PullLimit THEN Len(Pending) ELSE PullLimit)

\* The file is read and parsed; one the PC has left behind may be too old.
Take(c) ==
    /\ work = Idling /\ c \in files
    /\ \/ work' = [Idling EXCEPT !.cmd = c, !.result = "read"]
       \/ ~c.live /\ work' = [Idling EXCEPT !.cmd = c, !.result = "failed"]
    /\ UNCHANGED <<phone, files, receipt, pc, said, faults>>

RunPull ==
    /\ work.result = "read" /\ work.cmd.kind = "pull"
    /\ \E rows \in Batches :
          rows = pending /\ work' = [work EXCEPT !.result = "ok", !.rows = rows]
    /\ UNCHANGED <<phone, files, receipt, pc, said, faults>>

RunAck ==
    /\ work.result = "read" /\ work.cmd.kind = "ack"
    /\ ingested' = ingested \cup work.cmd.ids
    /\ work' = [work EXCEPT !.result = "ok"]
    /\ UNCHANGED <<stored, offset, polled, files, receipt, pc, said, faults>>

\* The Bot API refuses, accepts, or accepts and its answer is lost.
RunSend ==
    /\ work.result = "read" /\ work.cmd.kind = "send"
    /\ \E accepted, answered \in BOOLEAN :
          /\ said' = IF ~accepted THEN said
                     ELSE [m \in Owned |-> said[m] \cup
                             (IF m \in work.cmd.ids THEN {work.cmd.text} ELSE {})]
          /\ work' = [work EXCEPT !.result = IF accepted /\ answered THEN "ok" ELSE "failed"]
    /\ UNCHANGED <<phone, files, receipt, pc, faults>>

\* The receipt is written, then the command is deleted.
Report ==
    /\ work.result \in {"ok", "failed"}
    /\ receipt' = IF work.cmd.live THEN [result |-> work.result, rows |-> work.rows]
                  ELSE receipt
    /\ work' = [work EXCEPT !.result = "reported"]
    /\ UNCHANGED <<phone, files, pc, said, faults>>

Delete ==
    /\ work.result = "reported"
    /\ files' = files \ {work.cmd}
    /\ work' = Idling
    /\ UNCHANGED <<phone, receipt, pc, said, faults>>

GatewayDies ==
    /\ Fault
    /\ work' = Idling /\ polled' = 0
    /\ UNCHANGED <<stored, ingested, offset, files, receipt, pc, said>>

(***************************************************************************)
(* The PC: submitMessageCommand.                                           *)
(***************************************************************************)
Submit(c, next) ==
    /\ files' = files \cup {c}
    /\ sync' = [sync EXCEPT !.pc = next]

\* The PC stops waiting; the command file, if still there, is removed, or rm failed.
Abandon ==
    /\ \E removed \in BOOLEAN :
          files' = IF removed THEN {c \in files : ~c.live}
                   ELSE {[c EXCEPT !.live = FALSE] : c \in files}
    /\ work' = IF work = Idling THEN work ELSE [work EXCEPT !.cmd.live = FALSE]
    /\ receipt' = None

Received(where, result) ==
    /\ sync.pc = where /\ receipt.result = result
    /\ Abandon

\* Every way a command can fail.
CommandFails(where) ==
    \/ Received(where, "failed") /\ UNCHANGED faults
    \/ sync.pc = where /\ receipt = None /\ Abandon /\ Fault

(***************************************************************************)
(* The PC: synchronize, and advanceTelegramMessage for one message.        *)
(***************************************************************************)
Current == sync.batch[sync.at]
More == sync.pc = "message" /\ sync.at <= Len(sync.batch)

MessageDone(acked) ==
    sync' = [sync EXCEPT !.pc = "message", !.at = @ + 1, !.toAck = @ \cup acked]

setState(m, state) == ledger' = [ledger EXCEPT ![m].state = state]

\* Mutant: attempts are not counted.
neverDeadLetter(attempt, kind) == kind = "permanent"

shouldDeadLetter(attempt, kind) == kind = "permanent" \/ attempt >= MaxAttempts

\* The catch block: given up and acknowledged, or left to be offered again.
Failed(m, kind) ==
    LET attempt == ledger[m].attempt + 1
    IN  IF shouldDeadLetter(attempt, kind)
        THEN setState(m, "dead_letter") /\ MessageDone({m})
        ELSE /\ ledger' = [ledger EXCEPT ![m].state = "retry_wait", ![m].attempt = attempt]
             /\ MessageDone({})

StartSync ==
    /\ sync.pc = "idle"
    /\ Submit(Pull, "pulling")
    /\ UNCHANGED <<phone, work, receipt, remembered, ledger, said, faults>>

Pulled ==
    /\ Received("pulling", "ok")
    /\ sync' = IF receipt.rows = << >> THEN AtRest
               ELSE [sync EXCEPT !.pc = "message", !.batch = receipt.rows]
    /\ UNCHANGED <<phone, remembered, ledger, said, faults>>

\* A failed pull or ack rejects, and so does the store: the next tick starts again.
SyncFails ==
    /\ \/ CommandFails("pulling") \/ CommandFails("acking")
       \/ More /\ Fault /\ UNCHANGED wire
    /\ sync' = AtRest
    /\ UNCHANGED <<phone, remembered, ledger, said>>

rememberRemoteMessage(m) == remembered' = remembered \cup {m}

Remember ==
    /\ More
    /\ rememberRemoteMessage(Current)
    /\ IF Current \in Updates THEN sync' = [sync EXCEPT !.pc = "advance"]
       ELSE MessageDone({Current})
    /\ UNCHANGED <<phone, wire, ledger, said, faults>>

\* Mutant: every attempt generates its answer.
AlwaysGenerate(m) == TRUE

MustGenerate(m) == ledger[m].text = NoText

Advance ==
    LET m == Current
    IN  /\ sync.pc = "advance"
        /\ IF ledger[m].state \in DONE_STATES
           THEN MessageDone({m}) /\ UNCHANGED ledger
           ELSE IF m \in Groups
           THEN Failed(m, "permanent")
           ELSE IF MustGenerate(m)
           THEN setState(m, "generating") /\ sync' = [sync EXCEPT !.pc = "generating"]
           ELSE setState(m, IF ledger[m].state = "absent" THEN "pending" ELSE ledger[m].state)
                /\ sync' = [sync EXCEPT !.pc = "send"]
        /\ UNCHANGED <<phone, wire, remembered, said, faults>>

Generated ==
    /\ sync.pc = "generating"
    /\ \E t \in Texts :
          ledger' = [ledger EXCEPT ![Current].state = "reply_ready", ![Current].text = t]
    /\ sync' = [sync EXCEPT !.pc = "send"]
    /\ UNCHANGED <<phone, wire, remembered, said, faults>>

GenerateFails ==
    /\ sync.pc = "generating"
    /\ Failed(Current, "transient")
    /\ UNCHANGED <<phone, wire, remembered, said, faults>>

Send ==
    /\ sync.pc = "send"
    /\ setState(Current, "sending")
    /\ Submit(SendOf(Current, ledger[Current].text), "sending")
    /\ UNCHANGED <<phone, work, receipt, remembered, said, faults>>

Sent ==
    /\ Received("sending", "ok")
    /\ setState(Current, "sent")
    /\ MessageDone({Current})
    /\ UNCHANGED <<phone, remembered, said, faults>>

\* A refusal may be final for this chat.
SendFails ==
    /\ CommandFails("sending")
    /\ \E kind \in {"transient", "permanent"} : Failed(Current, kind)
    /\ UNCHANGED <<phone, remembered, said>>

Acknowledge ==
    /\ sync.pc = "message" /\ ~More
    /\ IF sync.toAck = {} THEN sync' = AtRest /\ UNCHANGED files
       ELSE Submit(AckOf(sync.toAck), "acking")
    /\ UNCHANGED <<phone, work, receipt, remembered, ledger, said, faults>>

Acknowledged ==
    /\ Received("acking", "ok")
    /\ ledger' = [m \in Owned |->
          IF m \in sync.toAck /\ ledger[m].state = "sent"
          THEN [ledger[m] EXCEPT !.state = "acked"] ELSE ledger[m]]
    /\ sync' = AtRest
    /\ UNCHANGED <<phone, remembered, said, faults>>

AppDies ==
    /\ sync # AtRest /\ Fault
    /\ Abandon
    /\ sync' = AtRest
    /\ UNCHANGED <<phone, remembered, ledger, said>>

-----------------------------------------------------------------------------
Poller == PersistUpdate \/ SaveOffset
CommandThread == (\E c \in files : Take(c)) \/ RunPull \/ RunAck \/ RunSend \/ Report \/ Delete
Sync ==
    \/ StartSync \/ Pulled \/ SyncFails \/ Remember \/ Advance \/ Generated
    \/ GenerateFails \/ Send \/ Sent \/ SendFails \/ Acknowledge \/ Acknowledged

Next ==
    \/ Poller \/ CommandThread \/ Sync
    \/ \E m \in Sms : SmsReceived(m)
    \/ GatewayDies \/ AppDies

Spec == Init /\ [][Next]_vars

(* Both threads of the service loop, the sync timer ticks every 5 s and    *)
(* the responder ends, one way or the other.  Nothing must succeed.        *)
Fairness == WF_vars(Poller) /\ WF_vars(CommandThread) /\ WF_vars(Sync)

FairSpec == Spec /\ Fairness

-----------------------------------------------------------------------------
Commands == [kind : {"pull", "ack", "send"}, ids : SUBSET Messages,
             text : Texts \cup {NoText}, live : BOOLEAN]
Works == [cmd : Commands, rows : Batches, result : {"idle", "read", "ok", "failed", "reported"}]
Receipts == [result : {"none", "ok", "failed"}, rows : Batches]
Ledgers == [Owned -> [state : States, attempt : 0..MaxAttempts, text : Texts \cup {NoText}]]
Syncs == [pc : {"idle", "pulling", "message", "advance", "generating", "send",
                "sending", "acking"},
          batch : Batches, at : 1..PullLimit + 1, toAck : SUBSET Messages]

\* The type invariant; at most one command has the PC's attention.
TypeOK ==
    /\ stored \in Seq(Messages) /\ ingested \subseteq Messages
    /\ offset \in 1..LastUpdate + 1 /\ polled \in Updates \cup {0}
    /\ files \subseteq Commands /\ work \in Works /\ receipt \in Receipts
    /\ \A c, d \in files : c.live /\ d.live => c = d
    /\ remembered \subseteq Messages /\ ledger \in Ledgers /\ sync \in Syncs
    /\ said \in [Owned -> SUBSET Texts]
    /\ faults \in 0..MaxFaults

Outcome(m) ==
    IF ledger[m].state \in {"sent", "acked"} THEN "answered"
    ELSE IF ledger[m].state = "dead_letter" THEN "given_up" ELSE "open"

Chosen == [m \in Owned |-> ledger[m].text]
Outcomes == [m \in Owned |-> Outcome(m)]

Promise == INSTANCE MessagePromise WITH
    Questions <- Owned,
    kept <- remembered,
    reply <- Chosen,
    outcome <- Outcomes,
    released <- ingested

\* message-delivery-ledger.mjs, main.mjs:830: over crashes, lost receipts and
\* late commands, a message is released only once it is stored and settled,
\* and the owner is never told two different answers to one message.
KeepsPromise == Promise!Spec

\* phone-message-sync.mjs: every message of the owner leaves the phone's queue,
\* whatever the responder and Telegram refuse: a failing one is given up and
\* never holds the others.
Drained ==
    /\ \A u \in Owned : <>(u \in ingested)
    /\ \A m \in Sms : Stored(m) ~> m \in ingested
=============================================================================
