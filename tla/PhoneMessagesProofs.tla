-------------------------- MODULE PhoneMessagesProofs --------------------------
(***************************************************************************)
(* PhoneMessages keeps its promise, for any messages, answers, limits and  *)
(* number of faults: it implements MessagePromise.                         *)
(***************************************************************************)
EXTENDS PhoneMessages, SequenceTheorems, TLAPS

Busy == work.result # "idle"

\* The commands that are about to run or may still be.
Around == files \cup (IF Busy THEN {work.cmd} ELSE {})

\* The command the PC waits for is the one its step has sent.
Fits(c) ==
    \/ sync.pc = "pulling" /\ c.kind = "pull"
    \/ sync.pc = "sending" /\ c.kind = "send" /\ c.ids = {Current}
    \/ sync.pc = "acking" /\ c.kind = "ack"

Asked ==
    /\ \A c \in Around : c.live => Fits(c)
    /\ Busy /\ work.cmd.live => work.cmd \in files
    /\ receipt.result # "none" => sync.pc \in {"pulling", "sending", "acking"}

\* An answer to be sent is the one that was chosen, and what is to be
\* released is stored and settled, however late the command runs.
Settled(m) == m \in remembered /\ (m \in Owned => ledger[m].state \in DONE_STATES)

Honest ==
    \A c \in Around :
        /\ c.kind = "send" =>
              \E m \in Owned : c.ids = {m} /\ c.text = ledger[m].text /\ c.text \in Texts
        /\ c.kind = "ack" => \A m \in c.ids : Settled(m)

\* A receipt of success says that the answer was given.
Heard ==
    /\ Busy /\ work.cmd.kind = "send" /\ work.result = "ok" =>
          \A m \in work.cmd.ids : said[m] # {}
    /\ sync.pc = "sending" /\ receipt.result = "ok" => said[Current] # {}

\* What the running synchronize knows of its message.
Doing ==
    /\ sync.pc \in {"advance", "generating", "send", "sending"} =>
          sync.at <= Len(sync.batch) /\ Current \in Owned /\ Current \in remembered
    /\ sync.pc = "generating" =>
          ledger[Current].state = "generating" /\ ledger[Current].text = NoText
    /\ sync.pc \in {"send", "sending"} =>
          ledger[Current].state \notin DONE_STATES /\ ledger[Current].text # NoText
    /\ sync.pc = "sending" => ledger[Current].state = "sending"
    /\ \A m \in sync.toAck : Settled(m)

IInv == TypeOK /\ Asked /\ Honest /\ Heard /\ Doing

-----------------------------------------------------------------------------
\* A batch is a sequence of messages that fits.
LEMMA BatchLength ==
    ASSUME NEW b \in Batches
    PROVE  /\ Len(b) \in 0..PullLimit
           /\ \A i \in 1..Len(b) : b[i] \in Messages
<1>1. PICK n \in 0..PullLimit : b \in [1..n -> Messages]
  BY DEF Batches
<1>2. n \in Nat
  BY MessagesAssumption
<1>3. Len(b) = n
  BY <1>1, <1>2, SMT
<1> QED
  BY <1>1, <1>3

\* The empty batch is one.
LEMMA NoBatch == << >> \in Batches /\ Len(<< >>) = 0
<1>1. << >> \in [1..0 -> Messages] /\ 0 \in 0..PullLimit
  BY MessagesAssumption
<1> QED
  BY <1>1 DEF Batches

\* A store leaves a sequence of messages.
LEMMA StoreTyped ==
    ASSUME stored \in Seq(Messages), NEW m \in Messages, store(m)
    PROVE  stored' \in Seq(Messages)
BY DEF store

\* A command asked when nobody is waited for is the only live one.
LEMMA SubmitTyped ==
    ASSUME TypeOK, NEW c \in Commands, NEW next \in {"pulling", "sending", "acking"},
           \A d \in files : ~d.live, Submit(c, next)
    PROVE  /\ files' \subseteq Commands /\ sync' \in Syncs
           /\ \A d, e \in files' : d.live /\ e.live => d = e
BY DEF TypeOK, Submit, Syncs

\* Giving up a command leaves none that is live.
LEMMA AbandonTyped ==
    ASSUME TypeOK, Abandon
    PROVE  /\ files' \subseteq Commands /\ work' \in Works /\ receipt' \in Receipts
           /\ \A d, e \in files' : d.live /\ e.live => d = e
<1>1. files' \subseteq Commands /\ \A d \in files' : ~d.live
  <2>1. PICK removed \in BOOLEAN :
          files' = IF removed THEN {c \in files : ~c.live}
                   ELSE {[c EXCEPT !.live = FALSE] : c \in files}
    BY DEF Abandon
  <2>2. \A c \in files : [c EXCEPT !.live = FALSE] \in Commands /\ ~[c EXCEPT !.live = FALSE].live
    BY DEF TypeOK, Commands
  <2> QED
    BY <2>1, <2>2 DEF TypeOK
<1>2. work' \in Works
  BY DEF TypeOK, Abandon, Works, Commands
<1>3. receipt' \in Receipts
  BY NoBatch DEF Abandon, None, Receipts
<1> QED
  BY <1>1, <1>2, <1>3

\* A message done moves to the next place of the batch.
LEMMA MessageDoneTyped ==
    ASSUME TypeOK, sync.at <= Len(sync.batch), NEW acked \in SUBSET Messages, MessageDone(acked)
    PROVE  sync' \in Syncs
<1>1. sync \in Syncs /\ Len(sync.batch) \in 0..PullLimit
  BY BatchLength DEF TypeOK, Syncs
<1>2. sync.at + 1 \in 1..PullLimit + 1
  BY <1>1, MessagesAssumption DEF Syncs
<1> QED
  BY <1>1, <1>2 DEF MessageDone, Syncs

\* The ledger keeps its type when a state is set.
LEMMA SetStateTyped ==
    ASSUME TypeOK, NEW m \in Owned, NEW s \in States, setState(m, s)
    PROVE  ledger' \in Ledgers
BY DEF TypeOK, setState, Ledgers

\* A failure is counted below the limit.
LEMMA FailedTyped ==
    ASSUME TypeOK, sync.at <= Len(sync.batch), NEW m \in Owned, NEW kind, Failed(m, kind)
    PROVE  sync' \in Syncs /\ ledger' \in Ledgers
<1>1. m \in Messages /\ {} \in SUBSET Messages /\ {m} \in SUBSET Messages
  BY DEF Messages
<1>2. CASE shouldDeadLetter(ledger[m].attempt + 1, kind)
  BY <1>1, <1>2, MessageDoneTyped, SetStateTyped DEF Failed, States
<1>3. CASE ~shouldDeadLetter(ledger[m].attempt + 1, kind)
  <2>1. ledger[m].attempt + 1 \in 0..MaxAttempts
    BY <1>3, MessagesAssumption DEF shouldDeadLetter, TypeOK, Ledgers
  <2>2. ledger' = [ledger EXCEPT ![m].state = "retry_wait", ![m].attempt = ledger[m].attempt + 1]
    BY <1>3 DEF Failed
  <2>3. ledger' \in Ledgers
    BY <2>1, <2>2 DEF TypeOK, Ledgers, States
  <2> QED
    BY <1>1, <1>3, <2>3, MessageDoneTyped DEF Failed
<1> QED
  BY <1>2, <1>3

\* What the PC waits for, and whom it is busy with.
LEMMA CurrentIn ==
    ASSUME TypeOK, sync.at <= Len(sync.batch)
    PROVE  Current \in Messages
<1>1. sync.batch \in Batches /\ sync.at \in 1..PullLimit + 1
  BY DEF TypeOK, Syncs
<1>2. sync.at \in 1..Len(sync.batch)
  BY <1>1, BatchLength, MessagesAssumption
<1> QED
  BY <1>1, <1>2, BatchLength DEF Current

-----------------------------------------------------------------------------
\* The types, action by action: first the phone's own.
LEMMA PhoneTyped ==
    ASSUME TypeOK, Poller \/ \E m \in Sms : SmsReceived(m)
    PROVE  TypeOK'
<1> USE MessagesAssumption DEF TypeOK, wire, pc
<1>1. CASE PersistUpdate
  <2>1. stored' \in Seq(Messages)
    BY <1>1, StoreTyped DEF PersistUpdate, Messages
  <2> QED
    BY <1>1, <2>1 DEF PersistUpdate
<1>2. CASE SaveOffset
  BY <1>2 DEF SaveOffset, Updates
<1>3. ASSUME NEW m \in Sms, SmsReceived(m) PROVE TypeOK'
  <2>1. stored' \in Seq(Messages)
    BY <1>3, StoreTyped DEF SmsReceived, Messages
  <2> QED
    BY <1>3, <2>1 DEF SmsReceived
<1> QED
  BY <1>1, <1>2, <1>3 DEF Poller

\* The types, over the steps of the command thread.
LEMMA CommandTyped ==
    ASSUME TypeOK, CommandThread \/ GatewayDies,
           Busy /\ work.cmd.kind = "send" => work.cmd.text \in Texts
    PROVE  TypeOK'
<1> USE MessagesAssumption DEF phone, pc
<1>0. work \in Works /\ files \subseteq Commands /\ Pull \in Commands /\ Idling \in Works
  BY NoBatch DEF TypeOK, Works, Commands, Pull, Idling
<1>1. ASSUME NEW c \in files, Take(c) PROVE TypeOK'
  <2>1. work' \in Works
    BY <1>0, <1>1 DEF Take, Works, Idling
  <2> QED
    BY <1>1, <2>1 DEF Take, TypeOK
<1>2. CASE RunPull
  <2>1. work' \in Works
    BY <1>0, <1>2 DEF RunPull, Works
  <2> QED
    BY <1>2, <2>1 DEF RunPull, TypeOK
<1>3. CASE RunAck
  <2>1. work' \in Works /\ work.cmd.ids \in SUBSET Messages
    BY <1>0, <1>3 DEF RunAck, Works, Commands
  <2> QED
    BY <1>3, <2>1 DEF RunAck, TypeOK
<1>5. CASE Report
  <2>1. receipt' \in Receipts /\ work' \in Works
    BY <1>0, <1>5 DEF Report, TypeOK, Receipts, Works
  <2> QED
    BY <1>5, <2>1 DEF Report, TypeOK
<1>7. CASE Delete
  BY <1>0, <1>7 DEF Delete, TypeOK
<1>6. CASE GatewayDies
  BY <1>0, <1>6 DEF GatewayDies, Fault, TypeOK, Updates
<1>4. CASE RunSend
  <2>1. work' \in Works
    BY <1>0, <1>4 DEF RunSend, Works
  <2>2. said' \in [Owned -> SUBSET Texts]
    BY <1>4 DEF RunSend, TypeOK, Busy
  <2> QED
    BY <1>4, <2>1, <2>2 DEF RunSend, TypeOK
<1> QED
  BY <1>1, <1>2, <1>3, <1>4, <1>5, <1>6, <1>7 DEF CommandThread

\* Nobody is waited for while the PC is not waiting.
LEMMA NoneLive ==
    ASSUME IInv, sync.pc \notin {"pulling", "sending", "acking"}
    PROVE  /\ \A c \in files : ~c.live
           /\ Busy => ~work.cmd.live
           /\ receipt.result = "none"
BY DEF IInv, Asked, Around, Fits, TypeOK, Receipts

\* What a command carries.
LEMMA CommandsIn ==
    /\ Pull \in Commands /\ Pull.live /\ Pull.kind = "pull"
    /\ \A ids \in SUBSET Messages :
          AckOf(ids) \in Commands /\ AckOf(ids).live /\ AckOf(ids).kind = "ack" /\ AckOf(ids).ids = ids
    /\ \A m \in Messages, t \in Texts \cup {NoText} :
          /\ SendOf(m, t) \in Commands /\ SendOf(m, t).live /\ SendOf(m, t).kind = "send"
          /\ SendOf(m, t).ids = {m} /\ SendOf(m, t).text = t
BY DEF Pull, AckOf, SendOf, Commands

\* A PC at rest.
LEMMA RestTyped == AtRest \in Syncs
BY NoBatch, MessagesAssumption DEF AtRest, Syncs

\* The types, when a command fails in either way.
LEMMA CommandFailsTyped ==
    ASSUME TypeOK, NEW where, CommandFails(where)
    PROVE  /\ files' \subseteq Commands /\ work' \in Works /\ receipt' \in Receipts
           /\ \A d, e \in files' : d.live /\ e.live => d = e
           /\ faults' \in 0..MaxFaults
<1>1. CASE Received(where, "failed") /\ UNCHANGED faults
  BY <1>1, AbandonTyped DEF Received, TypeOK
<1>2. CASE Abandon /\ Fault
  BY <1>2, AbandonTyped, MessagesAssumption DEF Fault, TypeOK
<1> QED
  BY <1>1, <1>2 DEF CommandFails

\* The types, over the steps of synchronize.
LEMMA SyncTyped ==
    ASSUME IInv, Sync \/ AppDies
    PROVE  TypeOK'
<1> USE DEF phone, wire
<1>0. TypeOK /\ sync \in Syncs /\ None \in Receipts /\ Owned \subseteq Messages
  BY NoBatch DEF IInv, TypeOK, None, Receipts, Messages
<1>a. sync.pc \in {"advance", "generating", "send", "sending"} =>
          sync.at <= Len(sync.batch) /\ Current \in Owned
  BY DEF IInv, Doing
<1>1. CASE StartSync
  <2>1. Submit(Pull, "pulling") /\ \A d \in files : ~d.live
    BY <1>1, NoneLive DEF StartSync
  <2> QED
    BY <1>0, <1>1, <2>1, SubmitTyped, CommandsIn DEF StartSync, TypeOK
<1>2. CASE Pulled
  <2>1. sync' \in Syncs
    BY <1>0, <1>2, RestTyped DEF Pulled, TypeOK, Receipts, Syncs
  <2> QED
    BY <1>0, <1>2, <2>1, AbandonTyped DEF Pulled, Received, TypeOK
<1>3. CASE SyncFails
  <2>1. CASE CommandFails("pulling") \/ CommandFails("acking")
    BY <1>0, <1>3, <2>1, CommandFailsTyped, RestTyped DEF SyncFails, TypeOK
  <2>2. CASE Fault /\ UNCHANGED wire
    BY <1>0, <1>3, <2>2, RestTyped, MessagesAssumption DEF SyncFails, TypeOK, Fault
  <2> QED
    BY <1>3, <2>1, <2>2 DEF SyncFails
<1>4. CASE Remember
  <2>1. sync.at <= Len(sync.batch) /\ Current \in Messages
    BY <1>0, <1>4, CurrentIn DEF Remember, More
  <2>2. sync' \in Syncs
    <3>1. CASE Current \in Updates
      BY <1>0, <1>4, <3>1 DEF Remember, Syncs
    <3>2. CASE Current \notin Updates
      BY <1>0, <1>4, <2>1, <3>2, MessageDoneTyped DEF Remember
    <3> QED
      BY <3>1, <3>2
  <2> QED
    BY <1>0, <1>4, <2>1, <2>2 DEF Remember, rememberRemoteMessage, TypeOK
<1>5. CASE Advance
  <2>1. sync' \in Syncs /\ ledger' \in Ledgers
    <3>0. sync.at <= Len(sync.batch) /\ Current \in Owned /\ {Current} \in SUBSET Messages
      BY <1>0, <1>5, <1>a DEF Advance
    <3>1. CASE ledger[Current].state \in DONE_STATES
      BY <1>0, <1>5, <3>0, <3>1, MessageDoneTyped DEF Advance, TypeOK
    <3>2. CASE ledger[Current].state \notin DONE_STATES /\ Current \in Groups
      BY <1>0, <1>5, <3>0, <3>2, FailedTyped DEF Advance
    <3>3. CASE ledger[Current].state \notin DONE_STATES /\ Current \notin Groups /\ MustGenerate(Current)
      <4>1. setState(Current, "generating") /\ sync' = [sync EXCEPT !.pc = "generating"]
        BY <1>5, <3>3 DEF Advance
      <4> QED
        BY <1>0, <3>0, <4>1, SetStateTyped DEF States, Syncs
    <3>4. CASE ledger[Current].state \notin DONE_STATES /\ Current \notin Groups /\ ~MustGenerate(Current)
      <4>1. /\ setState(Current, IF ledger[Current].state = "absent" THEN "pending" ELSE ledger[Current].state)
            /\ sync' = [sync EXCEPT !.pc = "send"]
        BY <1>5, <3>4 DEF Advance
      <4>2. (IF ledger[Current].state = "absent" THEN "pending" ELSE ledger[Current].state) \in States
        BY <1>0, <3>0 DEF TypeOK, Ledgers, States
      <4>3. ledger' \in Ledgers
        BY <1>0, <3>0, <4>1, <4>2, SetStateTyped
      <4> QED
        BY <1>0, <4>1, <4>3 DEF Syncs
    <3> QED
      BY <3>1, <3>2, <3>3, <3>4
  <2> QED
    BY <1>0, <1>5, <2>1 DEF Advance, TypeOK
<1>6. CASE Generated
  <2>1. Current \in Owned /\ sync' \in Syncs
    BY <1>0, <1>6, <1>a DEF Generated, Syncs
  <2>2. PICK t \in Texts :
          ledger' = [ledger EXCEPT ![Current].state = "reply_ready", ![Current].text = t]
    BY <1>6 DEF Generated
  <2>3. ledger' \in Ledgers
    BY <1>0, <2>1, <2>2 DEF TypeOK, Ledgers, States
  <2> QED
    BY <1>0, <1>6, <2>1, <2>3 DEF Generated, TypeOK
<1>7. CASE GenerateFails
  BY <1>0, <1>7, <1>a, FailedTyped DEF GenerateFails, TypeOK
<1>8. CASE Send
  <2>0. Current \in Owned /\ ledger[Current].text \in Texts \cup {NoText}
    BY <1>0, <1>8, <1>a DEF Send, TypeOK, Ledgers
  <2>1. /\ Submit(SendOf(Current, ledger[Current].text), "sending") /\ \A d \in files : ~d.live
        /\ SendOf(Current, ledger[Current].text) \in Commands
    BY <1>0, <1>8, <2>0, NoneLive, CommandsIn DEF Send
  <2>2. ledger' \in Ledgers
    BY <1>0, <1>8, <2>0, SetStateTyped DEF Send, States
  <2>3. /\ files' \subseteq Commands /\ sync' \in Syncs
        /\ \A d, e \in files' : d.live /\ e.live => d = e
    BY <1>0, <2>1, SubmitTyped
  <2> QED
    BY <1>0, <1>8, <2>2, <2>3 DEF Send, TypeOK
<1>9. CASE Sent
  <2>1. sync.at <= Len(sync.batch) /\ Current \in Owned /\ {Current} \in SUBSET Messages
    BY <1>0, <1>9, <1>a DEF Sent, Received
  <2>2. ledger' \in Ledgers /\ sync' \in Syncs
    BY <1>0, <1>9, <2>1, SetStateTyped, MessageDoneTyped DEF Sent, States
  <2> QED
    BY <1>0, <1>9, <2>2, AbandonTyped DEF Sent, Received, TypeOK
<1>10. CASE SendFails
  <2>1. CommandFails("sending") /\ sync.pc = "sending"
    BY <1>10 DEF SendFails, CommandFails, Received
  <2>2. ledger' \in Ledgers /\ sync' \in Syncs
    BY <1>0, <1>10, <1>a, <2>1, FailedTyped DEF SendFails
  <2> QED
    BY <1>0, <1>10, <2>1, <2>2, CommandFailsTyped DEF SendFails, TypeOK
<1>11. CASE Acknowledge
  <2>1. CASE sync.toAck = {}
    BY <1>0, <1>11, <2>1, RestTyped DEF Acknowledge, TypeOK
  <2>2. CASE sync.toAck # {}
    <3>1. /\ Submit(AckOf(sync.toAck), "acking") /\ \A d \in files : ~d.live
          /\ AckOf(sync.toAck) \in Commands
      BY <1>0, <1>11, <2>2, NoneLive, CommandsIn DEF Acknowledge, Syncs
    <3>2. /\ files' \subseteq Commands /\ sync' \in Syncs
          /\ \A d, e \in files' : d.live /\ e.live => d = e
      BY <1>0, <3>1, SubmitTyped
    <3> QED
      BY <1>0, <1>11, <3>2 DEF Acknowledge, TypeOK
  <2> QED
    BY <2>1, <2>2
<1>12. CASE Acknowledged
  <2>1. ledger' \in Ledgers
    BY <1>0, <1>12 DEF Acknowledged, TypeOK, Ledgers, States
  <2> QED
    BY <1>0, <1>12, <2>1, AbandonTyped, RestTyped DEF Acknowledged, Received, TypeOK
<1>13. CASE AppDies
  BY <1>0, <1>13, AbandonTyped, RestTyped, MessagesAssumption DEF AppDies, Fault, TypeOK
<1> QED
  BY <1>1, <1>2, <1>3, <1>4, <1>5, <1>6, <1>7, <1>8, <1>9, <1>10, <1>11, <1>12, <1>13 DEF Sync

-----------------------------------------------------------------------------
\* What no step takes back: a message stored, one settled, an answer chosen.
Forward ==
    /\ remembered \subseteq remembered'
    /\ \A m \in Owned :
          /\ ledger[m].state \in DONE_STATES => ledger'[m].state \in DONE_STATES
          /\ ledger[m].text \in Texts => ledger'[m].text = ledger[m].text

\* What a step does to the commands: it may forget some and give up waiting.
Like(c, d) == c.kind = d.kind /\ c.ids = d.ids /\ c.text = d.text
Carried == \A c \in Around' : \E d \in Around : Like(c, d) /\ (c.live => c = d)

\* A settled message stays so.
LEMMA SettledKept ==
    ASSUME Forward, NEW m, Settled(m)
    PROVE  Settled(m)'
BY DEF Forward, Settled

\* Honesty needs no more than that,
LEMMA HonestKept ==
    ASSUME IInv, Forward, NEW c, NEW d \in Around, Like(c, d)
    PROVE  /\ c.kind = "send" =>
                \E m \in Owned : c.ids = {m} /\ c.text = ledger'[m].text /\ c.text \in Texts
           /\ c.kind = "ack" => \A m \in c.ids : Settled(m)'
<1>1. ASSUME c.kind = "send"
      PROVE  \E m \in Owned : c.ids = {m} /\ c.text = ledger'[m].text /\ c.text \in Texts
  <2>1. PICK m \in Owned : d.ids = {m} /\ d.text = ledger[m].text /\ d.text \in Texts
    BY <1>1 DEF IInv, Honest, Like
  <2> QED
    BY <2>1 DEF Forward, Like
<1>2. ASSUME c.kind = "ack" PROVE \A m \in c.ids : Settled(m)'
  BY <1>2, SettledKept DEF IInv, Honest, Like
<1> QED
  BY <1>1, <1>2

\* so a step that asks nothing keeps all commands honest,
LEMMA HonestCarried ==
    ASSUME IInv, Forward, Carried
    PROVE  Honest'
BY HonestKept DEF Carried, Honest

\* and a step that keeps the ledger goes forward.
LEMMA SameForward ==
    ASSUME UNCHANGED <<remembered, ledger>>
    PROVE  Forward
BY DEF Forward

\* A state set on a message that is not done goes forward.
LEMMA SetStateForward ==
    ASSUME TypeOK, NEW m \in Owned, NEW s, setState(m, s), UNCHANGED remembered,
           ledger[m].state \in DONE_STATES => s \in DONE_STATES
    PROVE  /\ Forward /\ ledger'[m].state = s /\ ledger'[m].text = ledger[m].text
           /\ \A n \in Owned \ {m} : ledger'[n] = ledger[n]
BY DEF TypeOK, Ledgers, setState, Forward

\* The two ways a message can fail.
LEMMA FailedForward ==
    ASSUME TypeOK, NEW m \in Owned, NEW kind, Failed(m, kind), UNCHANGED remembered,
           ledger[m].state \notin DONE_STATES
    PROVE  /\ Forward /\ ledger'[m].text = ledger[m].text
           /\ \A n \in Owned \ {m} : ledger'[n] = ledger[n]
           /\ \/ ledger'[m].state = "dead_letter" /\ MessageDone({m})
              \/ ledger'[m].state = "retry_wait" /\ MessageDone({})
<1>1. CASE shouldDeadLetter(ledger[m].attempt + 1, kind)
  <2>1. setState(m, "dead_letter") /\ MessageDone({m})
    BY <1>1 DEF Failed
  <2> QED
    BY <2>1, SetStateForward
<1>2. CASE ~shouldDeadLetter(ledger[m].attempt + 1, kind)
  <2>1. /\ ledger' = [ledger EXCEPT ![m].state = "retry_wait", ![m].attempt = ledger[m].attempt + 1]
        /\ MessageDone({})
    BY <1>2 DEF Failed
  <2> QED
    BY <2>1 DEF TypeOK, Ledgers, Forward
<1> QED
  BY <1>1, <1>2

\* After a message, the PC waits for nobody and has settled one more.
LEMMA DoneDoing ==
    ASSUME IInv, Forward, NEW acked, MessageDone(acked), \A m \in acked : Settled(m)'
    PROVE  Doing' /\ sync'.pc = "message"
<1>1. sync'.pc = "message" /\ sync'.toAck = sync.toAck \cup acked
  BY DEF MessageDone, IInv, TypeOK, Syncs
<1>2. \A m \in sync.toAck : Settled(m)'
  BY SettledKept DEF IInv, Doing
<1>3. \A m \in sync'.toAck : Settled(m)'
  BY <1>1, <1>2
<1> QED
  BY <1>1, <1>3 DEF Doing

\* Giving up waiting, or giving up altogether.
LEMMA AbandonCarried ==
    ASSUME TypeOK, Abandon
    PROVE  /\ Carried /\ receipt' = None
           /\ \A c \in Around' : ~c.live
           /\ Busy' => Busy /\ work'.result = work.result /\ work'.cmd.ids = work.cmd.ids
                       /\ work'.cmd.kind = work.cmd.kind
<1>0. work \in Works /\ files \subseteq Commands
  BY DEF TypeOK
<1>1. ASSUME NEW c \in files' PROVE ~c.live /\ \E d \in files : Like(c, d)
  <2>1. PICK removed \in BOOLEAN :
          files' = IF removed THEN {x \in files : ~x.live}
                   ELSE {[x EXCEPT !.live = FALSE] : x \in files}
    BY DEF Abandon
  <2>2. \A x \in files : ~[x EXCEPT !.live = FALSE].live /\ Like([x EXCEPT !.live = FALSE], x)
    BY <1>0 DEF Commands, Like
  <2> QED
    BY <1>1, <2>1, <2>2 DEF Like
<1>2. Busy' => /\ Busy /\ work'.result = work.result /\ ~work'.cmd.live
               /\ Like(work'.cmd, work.cmd)
  BY <1>0 DEF Abandon, Busy, Idling, Works, Commands, Like
<1>3. ASSUME NEW c \in Around' PROVE ~c.live /\ \E d \in Around : Like(c, d)
  <2>1. CASE c \in files'
    BY <1>1, <2>1 DEF Around
  <2>2. CASE Busy' /\ c = work'.cmd
    BY <1>2, <2>2 DEF Around
  <2> QED
    BY <1>3, <2>1, <2>2 DEF Around
<1>4. Carried
  BY <1>3 DEF Carried
<1>5. receipt' = None
  BY DEF Abandon
<1> QED
  BY <1>2, <1>3, <1>4, <1>5 DEF Like

-----------------------------------------------------------------------------
\* The rest of the invariant.
Known == Asked /\ Honest /\ Heard /\ Doing

\* A step of the phone's queue is none of the commands' business.
LEMMA PhoneKnown ==
    ASSUME IInv, UNCHANGED <<wire, pc, said>>
    PROVE  Known'
<1>1. UNCHANGED <<files, work, receipt, remembered, ledger, sync, said>>
  BY DEF wire, pc
<1>2. Asked' /\ Heard' /\ Doing'
  BY <1>1 DEF IInv, Asked, Heard, Doing, Around, Busy, Fits, Current, Settled
<1>3. Honest'
  BY <1>1 DEF IInv, Honest, Around, Busy, Settled
<1> QED
  BY <1>2, <1>3 DEF Known

\* The command thread: what it reads is what was asked.
LEMMA CommandKnown ==
    ASSUME IInv, CommandThread \/ GatewayDies
    PROVE  Known'
<1>0. TypeOK /\ work \in Works /\ Asked /\ Honest /\ Heard /\ Doing
  BY DEF IInv, TypeOK
<1>a. UNCHANGED <<remembered, ledger, sync>>
  BY DEF CommandThread, GatewayDies, Take, RunPull, RunAck, RunSend, Report, Delete, pc, Fault
<1>b. Doing' /\ Forward
  BY <1>0, <1>a, SameForward DEF Doing, Current, Settled
<1>c. ASSUME Carried, Asked', Heard' PROVE Known'
  BY <1>b, <1>c, HonestCarried DEF Known
<1>1. ASSUME NEW c \in files, Take(c) PROVE Known'
  <2>1. /\ files' = files /\ receipt' = receipt /\ said' = said /\ work'.cmd = c
        /\ work'.result \in {"read", "failed"}
    BY <1>1 DEF Take, Idling
  <2>2. Carried
    BY <1>1, <2>1 DEF Carried, Around, Like
  <2>3. Asked'
    BY <1>0, <1>1, <1>a, <2>1 DEF Asked, Around, Busy, Fits, Current
  <2>4. Heard'
    BY <1>0, <1>a, <2>1 DEF Heard, Busy, Current
  <2> QED
    BY <1>c, <2>2, <2>3, <2>4
<1>2. ASSUME RunPull \/ RunAck PROVE Known'
  <2>1. /\ files' = files /\ receipt' = receipt /\ said' = said /\ work'.cmd = work.cmd
        /\ work.cmd.kind # "send" /\ Busy /\ Busy'
    BY <1>0, <1>2 DEF RunPull, RunAck, Works, Busy, phone
  <2>2. Carried
    BY <2>1 DEF Carried, Around, Like
  <2>3. Asked'
    BY <1>0, <1>a, <2>1 DEF Asked, Around, Fits, Current
  <2>4. Heard'
    BY <1>0, <1>a, <2>1 DEF Heard, Current
  <2> QED
    BY <1>c, <2>2, <2>3, <2>4
<1>3. CASE RunSend
  <2>1. /\ files' = files /\ receipt' = receipt /\ work'.cmd = work.cmd
        /\ work.cmd.kind = "send" /\ Busy /\ Busy'
    BY <1>0, <1>3 DEF RunSend, Works, Busy, phone
  <2>2. Carried
    BY <2>1 DEF Carried, Around, Like
  <2>3. Asked'
    BY <1>0, <1>a, <2>1 DEF Asked, Around, Fits, Current
  <2>4. work.cmd.ids \subseteq Owned
    BY <1>0, <2>1 DEF Honest, Around
  <2>5. \A m \in Owned : said[m] # {} => said'[m] # {}
    BY <1>3 DEF RunSend
  <2>6. work'.result = "ok" => \A m \in work.cmd.ids : said'[m] # {}
    <3>1. PICK accepted, answered \in BOOLEAN :
            /\ said' = IF ~accepted THEN said
                       ELSE [m \in Owned |-> said[m] \cup
                               (IF m \in work.cmd.ids THEN {work.cmd.text} ELSE {})]
            /\ work' = [work EXCEPT !.result = IF accepted /\ answered THEN "ok" ELSE "failed"]
      BY <1>3 DEF RunSend
    <3>2. work'.result = "ok" => accepted
      BY <1>0, <3>1 DEF Works
    <3> QED
      BY <2>4, <3>1, <3>2
  <2>7. sync.pc = "sending" => Current \in Owned
    BY <1>0 DEF Doing
  <2>8. Heard'
    BY <1>0, <1>a, <2>1, <2>5, <2>6, <2>7 DEF Heard, Current
  <2> QED
    BY <1>c, <2>2, <2>3, <2>8
<1>4. CASE Report
  <2>1. /\ files' = files /\ work'.cmd = work.cmd /\ work'.result = "reported"
        /\ Busy /\ Busy' /\ said' = said
        /\ work.cmd.live => receipt'.result = work.result
        /\ ~work.cmd.live => receipt' = receipt
    BY <1>0, <1>4 DEF Report, Works, Busy, phone
  <2>2. Carried
    BY <2>1 DEF Carried, Around, Like
  <2>3. work.cmd.live => Fits(work.cmd)
    BY <1>0, <2>1 DEF Asked, Around
  <2>4. Asked'
    BY <1>0, <1>a, <2>1, <2>3 DEF Asked, Around, Fits, Current
  <2>5. Heard'
    BY <1>0, <1>a, <2>1, <2>3 DEF Heard, Fits, Current
  <2> QED
    BY <1>c, <2>2, <2>4, <2>5
<1>6. CASE Delete
  <2>1. files' \subseteq files /\ work' = Idling /\ ~Busy' /\ said' = said /\ receipt' = receipt
    BY <1>6 DEF Delete, Idling, Busy
  <2>2. Carried
    BY <2>1 DEF Carried, Around, Like
  <2>3. Asked'
    BY <1>0, <1>a, <2>1 DEF Asked, Around, Fits, Current
  <2>4. Heard'
    BY <1>0, <1>a, <2>1 DEF Heard, Current
  <2> QED
    BY <1>c, <2>2, <2>3, <2>4
<1>5. CASE GatewayDies
  <2>1. files' = files /\ receipt' = receipt /\ said' = said /\ work' = Idling /\ ~Busy'
    BY <1>5 DEF GatewayDies, pc, Idling, Busy
  <2>2. Carried
    BY <2>1 DEF Carried, Around, Like
  <2>3. Asked'
    BY <1>0, <1>a, <2>1 DEF Asked, Around, Fits, Current
  <2>4. Heard'
    BY <1>0, <1>a, <2>1 DEF Heard, Current
  <2> QED
    BY <1>c, <2>2, <2>3, <2>4
<1> QED
  BY <1>1, <1>2, <1>3, <1>4, <1>5, <1>6 DEF CommandThread

-----------------------------------------------------------------------------
\* The PC neither asks nor waits: no command is live and no receipt is there.
Quiet ==
    /\ Carried /\ receipt'.result = "none"
    /\ \A c \in Around' : ~c.live
    /\ Busy' => /\ Busy /\ work'.result = work.result /\ work'.cmd.ids = work.cmd.ids
                /\ work'.cmd.kind = work.cmd.kind

\* Such a step keeps what is known of the commands.
LEMMA QuietKnown ==
    ASSUME IInv, Quiet, Forward, UNCHANGED said, sync'.pc # "sending" \/ receipt'.result # "ok"
    PROVE  Asked' /\ Honest' /\ Heard'
<1>1. Asked'
  BY DEF Quiet, Asked, Around
<1>2. Heard'
  BY DEF Quiet, IInv, Heard
<1> QED
  BY <1>1, <1>2, HonestCarried DEF Quiet

\* A step of the PC alone, when it waits for nobody.
LEMMA AloneQuiet ==
    ASSUME IInv, sync.pc \notin {"pulling", "sending", "acking"}, UNCHANGED wire
    PROVE  Quiet
<1>1. files' = files /\ work' = work /\ receipt' = receipt
  BY DEF wire
<1>2. Carried
  BY <1>1 DEF Carried, Around, Busy, Like
<1> QED
  BY <1>1, <1>2, NoneLive DEF Quiet, Around, Busy

\* So is one that gives up,
LEMMA AbandonQuiet ==
    ASSUME IInv, Abandon
    PROVE  Quiet
BY AbandonCarried DEF IInv, Quiet, None

\* one that takes a receipt, which ends the wait,
LEMMA ReceivedQuiet ==
    ASSUME IInv, NEW where, NEW result \in {"ok", "failed"}, Received(where, result)
    PROVE  Quiet /\ sync.pc = where
BY AbandonQuiet DEF Received

\* and both ways of failing.
LEMMA CommandFailsQuiet ==
    ASSUME IInv, NEW where, CommandFails(where)
    PROVE  Quiet /\ sync.pc = where
BY ReceivedQuiet, AbandonQuiet DEF CommandFails

\* The PC asks for something.
LEMMA SubmitKnown ==
    ASSUME IInv, sync.pc \notin {"pulling", "sending", "acking"}, Forward,
           NEW c, NEW next, Submit(c, next), UNCHANGED <<work, receipt, said>>, Fits(c)',
           c.kind = "send" =>
              \E m \in Owned : c.ids = {m} /\ c.text = ledger'[m].text /\ c.text \in Texts,
           c.kind = "ack" => \A m \in c.ids : Settled(m)'
    PROVE  Asked' /\ Honest' /\ Heard'
<1>0. files' = files \cup {c}
  BY DEF Submit
<1>1. /\ Around' = Around \cup {c} /\ Busy' = Busy
      /\ \A d \in Around : ~d.live
  BY <1>0, NoneLive DEF Around, Busy
<1>2. Asked'
  BY <1>0, <1>1, NoneLive DEF Asked
<1>3. Honest'
  BY <1>1, HonestKept DEF Honest, Like
<1>4. Heard'
  BY <1>1, NoneLive DEF IInv, Heard
<1> QED
  BY <1>2, <1>3, <1>4

-----------------------------------------------------------------------------
\* The steps of synchronize, one by one.
LEMMA StartSyncKnown ==
    ASSUME IInv, StartSync
    PROVE  Known'
<1>1. Submit(Pull, "pulling") /\ UNCHANGED <<work, receipt, remembered, ledger, said>> /\ sync.pc = "idle"
  BY DEF StartSync
<1>2. sync'.pc = "pulling" /\ sync'.toAck = sync.toAck
  BY <1>1 DEF Submit, IInv, TypeOK, Syncs
<1>3. Forward
  BY <1>1, SameForward
<1>4. Asked' /\ Honest' /\ Heard'
  BY <1>1, <1>2, <1>3, SubmitKnown, CommandsIn DEF Fits
<1>5. Doing'
  BY <1>2, <1>3, SettledKept DEF IInv, Doing
<1> QED
  BY <1>4, <1>5 DEF Known

\* The PC rests, or it looks at a batch.
LEMMA RestKnown ==
    ASSUME IInv, Quiet, Forward, UNCHANGED said,
           sync' = AtRest \/ (sync'.pc = "message" /\ sync'.toAck = sync.toAck)
    PROVE  Known'
<1>1. sync'.pc \in {"idle", "message"} /\ sync'.toAck \subseteq sync.toAck
  BY DEF AtRest
<1>2. Doing'
  BY <1>1, SettledKept DEF IInv, Doing
<1> QED
  BY <1>1, <1>2, QuietKnown DEF Known

\* A message is done.
LEMMA DoneKnown ==
    ASSUME IInv, Quiet, Forward, UNCHANGED said,
           NEW acked, MessageDone(acked), \A m \in acked : Settled(m)'
    PROVE  Known'
BY DoneDoing, QuietKnown DEF Known

\* A message that fails is settled or left for later.
LEMMA FailedKnown ==
    ASSUME IInv, Quiet, UNCHANGED <<said, remembered>>, NEW m \in Owned, m \in remembered,
           NEW kind, Failed(m, kind), ledger[m].state \notin DONE_STATES
    PROVE  Known'
<1>1. /\ Forward
      /\ \/ ledger'[m].state = "dead_letter" /\ MessageDone({m})
         \/ MessageDone({})
  BY FailedForward DEF IInv
<1>2. ledger'[m].state = "dead_letter" => Settled(m)'
  BY DEF Settled, DONE_STATES
<1> QED
  BY <1>1, <1>2, DoneKnown

\* A message is taken up: it is stored before anything else.
LEMMA RememberKnown ==
    ASSUME IInv, Remember
    PROVE  Known'
<1> DEFINE m == Current
<1>1. /\ sync.pc = "message" /\ sync.at <= Len(sync.batch) /\ UNCHANGED <<wire, ledger, said>>
      /\ remembered' = remembered \cup {m}
  BY DEF Remember, More, rememberRemoteMessage
<1>2. Quiet /\ Forward
  BY <1>1, AloneQuiet DEF Forward
<1>3. m \in Messages
  BY <1>1, CurrentIn DEF IInv
<1>4. CASE m \in Updates
  <2>1. sync' = [sync EXCEPT !.pc = "advance"] /\ m \in Owned
    BY <1>3, <1>4, MessagesAssumption DEF Remember, Messages
  <2>2. /\ sync'.pc = "advance" /\ sync'.at = sync.at /\ sync'.batch = sync.batch
        /\ sync'.toAck = sync.toAck
    BY <2>1 DEF IInv, TypeOK, Syncs
  <2>3. Current' = m /\ Current' \in remembered'
    BY <1>1, <2>2 DEF Current
  <2>4. \A n \in sync'.toAck : Settled(n)'
    BY <1>2, <2>2, SettledKept DEF IInv, Doing
  <2>5. Doing'
    BY <1>1, <2>1, <2>2, <2>3, <2>4 DEF Doing
  <2> QED
    BY <1>1, <1>2, <2>2, <2>5, QuietKnown DEF Known
<1>5. CASE m \notin Updates
  <2>1. MessageDone({m})
    BY <1>5 DEF Remember
  <2>2. m \notin Owned /\ m \in remembered'
    BY <1>1, <1>5, MessagesAssumption
  <2>3. \A n \in {m} : Settled(n)'
    BY <2>2 DEF Settled
  <2> QED
    BY <1>1, <1>2, <2>1, <2>3, DoneKnown
<1> QED
  BY <1>4, <1>5

\* The PC stays with its message and knows more of it.
LEMMA StaysDoing ==
    ASSUME IInv, Forward, NEW m \in Owned, m = Current, m \in remembered,
           sync.at <= Len(sync.batch), NEW next \in {"generating", "send", "sending"},
           sync' = [sync EXCEPT !.pc = next],
           next = "generating" => ledger'[m].state = "generating" /\ ledger'[m].text = NoText,
           next # "generating" => ledger'[m].state \notin DONE_STATES /\ ledger'[m].text # NoText,
           next = "sending" => ledger'[m].state = "sending"
    PROVE  Doing' /\ sync'.pc = next
<1>1. /\ sync'.pc = next /\ sync'.at = sync.at /\ sync'.batch = sync.batch
      /\ sync'.toAck = sync.toAck
  BY DEF IInv, TypeOK, Syncs
<1>2. Current' = m
  BY <1>1 DEF Current
<1>3. \A n \in sync'.toAck : Settled(n)'
  BY <1>1, SettledKept DEF IInv, Doing
<1>4. m \in remembered'
  BY DEF Forward
<1> QED
  BY <1>1, <1>2, <1>3, <1>4 DEF Doing

\* The four ways of Advance, for a message the ledger knows or not.
LEMMA AdvanceCases ==
    ASSUME IInv, Advance, NEW m, m = Current
    PROVE  /\ m \in Owned /\ m \in remembered /\ sync.at <= Len(sync.batch)
           /\ UNCHANGED <<phone, wire, remembered, said, faults>> /\ sync.pc = "advance"
           /\ \/ ledger[m].state \in DONE_STATES /\ MessageDone({m}) /\ UNCHANGED ledger
              \/ ledger[m].state \notin DONE_STATES /\ Failed(m, "permanent")
              \/ /\ ledger[m].state \notin DONE_STATES /\ ledger[m].text = NoText
                 /\ setState(m, "generating") /\ sync' = [sync EXCEPT !.pc = "generating"]
              \/ /\ ledger[m].state \notin DONE_STATES /\ ledger[m].text # NoText
                 /\ \E s \in States \ DONE_STATES : setState(m, s)
                 /\ sync' = [sync EXCEPT !.pc = "send"]
<1>1. sync.pc = "advance" /\ UNCHANGED <<phone, wire, remembered, said, faults>>
  BY DEF Advance
<1>2. m \in Owned /\ m \in remembered /\ sync.at <= Len(sync.batch)
  BY <1>1 DEF IInv, Doing
<1>3. CASE ledger[m].state \in DONE_STATES
  BY <1>1, <1>2, <1>3 DEF Advance
<1>4. CASE ledger[m].state \notin DONE_STATES /\ m \in Groups
  BY <1>1, <1>2, <1>4 DEF Advance
<1>5. CASE ledger[m].state \notin DONE_STATES /\ m \notin Groups /\ MustGenerate(m)
  BY <1>1, <1>2, <1>5 DEF Advance, MustGenerate
<1>6. CASE ledger[m].state \notin DONE_STATES /\ m \notin Groups /\ ~MustGenerate(m)
  <2>1. /\ setState(m, IF ledger[m].state = "absent" THEN "pending" ELSE ledger[m].state)
        /\ sync' = [sync EXCEPT !.pc = "send"]
    BY <1>6 DEF Advance
  <2>2. (IF ledger[m].state = "absent" THEN "pending" ELSE ledger[m].state) \in States \ DONE_STATES
    BY <1>2, <1>6 DEF IInv, TypeOK, Ledgers, States, DONE_STATES
  <2> QED
    BY <1>1, <1>2, <1>6, <2>1, <2>2 DEF MustGenerate
<1> QED
  BY <1>3, <1>4, <1>5, <1>6

\* The rest of the invariant, over each step of a message.
LEMMA AdvanceKnown ==
    ASSUME IInv, Advance
    PROVE  Known'
<1> PICK m : m = Current
  OBVIOUS
<1>1. /\ m \in Owned /\ m \in remembered /\ sync.at <= Len(sync.batch)
      /\ UNCHANGED <<wire, remembered, said>> /\ sync.pc = "advance"
  BY AdvanceCases
<1>2. Quiet
  BY <1>1, AloneQuiet
<1>3. CASE ledger[m].state \in DONE_STATES /\ MessageDone({m}) /\ UNCHANGED ledger
  <2>1. Forward /\ Settled(m)'
    BY <1>1, <1>3, SameForward DEF Settled
  <2> QED
    BY <1>1, <1>2, <1>3, <2>1, DoneKnown
<1>4. CASE ledger[m].state \notin DONE_STATES /\ Failed(m, "permanent")
  BY <1>1, <1>2, <1>4, FailedKnown
<1>5. CASE /\ ledger[m].state \notin DONE_STATES /\ ledger[m].text = NoText
           /\ setState(m, "generating") /\ sync' = [sync EXCEPT !.pc = "generating"]
  <2>1. Forward /\ ledger'[m].state = "generating" /\ ledger'[m].text = NoText
    BY <1>1, <1>5, SetStateForward DEF IInv
  <2>2. Doing' /\ sync'.pc = "generating"
    BY <1>1, <1>5, <2>1, StaysDoing
  <2> QED
    BY <1>1, <1>2, <2>1, <2>2, QuietKnown DEF Known
<1>6. CASE /\ ledger[m].state \notin DONE_STATES /\ ledger[m].text # NoText
           /\ \E s \in States \ DONE_STATES : setState(m, s)
           /\ sync' = [sync EXCEPT !.pc = "send"]
  <2>0. PICK s \in States \ DONE_STATES : setState(m, s)
    BY <1>6
  <2>1. Forward /\ ledger'[m].state \notin DONE_STATES /\ ledger'[m].text # NoText
    BY <1>1, <1>6, <2>0, SetStateForward DEF IInv
  <2>2. Doing' /\ sync'.pc = "send"
    BY <1>1, <1>6, <2>1, StaysDoing
  <2> QED
    BY <1>1, <1>2, <2>1, <2>2, QuietKnown DEF Known
<1> QED
  BY <1>3, <1>4, <1>5, <1>6, AdvanceCases

\* The answer is chosen where none was.
LEMMA GeneratedKnown ==
    ASSUME IInv, Generated
    PROVE  Known'
<1> PICK m : m = Current
  OBVIOUS
<1>1. /\ sync.pc = "generating" /\ m \in Owned /\ m \in remembered /\ sync.at <= Len(sync.batch)
      /\ ledger[m].state = "generating" /\ ledger[m].text = NoText
      /\ UNCHANGED <<wire, remembered, said>> /\ sync' = [sync EXCEPT !.pc = "send"]
  BY DEF Generated, IInv, Doing
<1>2. PICK t \in Texts :
        ledger' = [ledger EXCEPT ![m].state = "reply_ready", ![m].text = t]
  BY DEF Generated
<1>3. /\ ledger'[m].state = "reply_ready" /\ ledger'[m].text = t
      /\ \A n \in Owned \ {m} : ledger'[n] = ledger[n]
  BY <1>1, <1>2 DEF IInv, TypeOK, Ledgers
<1>4. Forward
  BY <1>1, <1>3, MessagesAssumption DEF Forward, DONE_STATES
<1>5. Doing' /\ sync'.pc = "send"
  BY <1>1, <1>3, <1>4, StaysDoing, MessagesAssumption DEF DONE_STATES
<1> QED
  BY <1>1, <1>4, <1>5, AloneQuiet, QuietKnown DEF Known

\* The responder fails.
LEMMA GenerateFailsKnown ==
    ASSUME IInv, GenerateFails
    PROVE  Known'
<1>1. /\ sync.pc = "generating" /\ Current \in Owned /\ Current \in remembered
      /\ ledger[Current].state = "generating"
      /\ UNCHANGED <<wire, remembered, said>> /\ Failed(Current, "transient")
  BY DEF GenerateFails, IInv, Doing
<1> QED
  BY <1>1, AloneQuiet, FailedKnown DEF DONE_STATES

\* The command carries the answer that was chosen.
LEMMA SendKnown ==
    ASSUME IInv, Send
    PROVE  Known'
<1> PICK m : m = Current
  OBVIOUS
<1>1. /\ sync.pc = "send" /\ m \in Owned /\ m \in remembered /\ sync.at <= Len(sync.batch)
      /\ ledger[m].state \notin DONE_STATES /\ ledger[m].text # NoText
      /\ UNCHANGED <<work, receipt, remembered, said>>
      /\ setState(m, "sending") /\ Submit(SendOf(m, ledger[m].text), "sending")
  BY DEF Send, IInv, Doing
<1>2. Forward /\ ledger'[m].state = "sending" /\ ledger'[m].text = ledger[m].text
  BY <1>1, SetStateForward DEF IInv
<1>3. Doing' /\ sync'.pc = "sending"
  BY <1>1, <1>2, StaysDoing DEF Submit, DONE_STATES
<1>4. PICK c : c = SendOf(m, ledger[m].text)
  OBVIOUS
<1>5. /\ c.kind = "send" /\ c.ids = {m} /\ c.text = ledger'[m].text /\ c.text \in Texts
      /\ Submit(c, "sending")
  BY <1>1, <1>2, <1>4, CommandsIn DEF IInv, TypeOK, Ledgers, Messages
<1>6. sync'.pc = "sending" /\ Current' = m
  BY <1>1, <1>3 DEF Submit, Current, IInv, TypeOK, Syncs
<1>7. Fits(c)'
  BY <1>5, <1>6 DEF Fits
<1>8. Asked' /\ Honest' /\ Heard'
  BY <1>1, <1>2, <1>5, <1>7, SubmitKnown
<1> QED
  BY <1>3, <1>8 DEF Known

\* The receipt is that of this message.
LEMMA SentKnown ==
    ASSUME IInv, Sent
    PROVE  Known'
<1> PICK m : m = Current
  OBVIOUS
<1>1. /\ Quiet /\ sync.pc = "sending" /\ setState(m, "sent") /\ MessageDone({m})
      /\ UNCHANGED <<remembered, said>>
  BY ReceivedQuiet DEF Sent
<1>2. m \in Owned /\ m \in remembered
  BY <1>1 DEF IInv, Doing
<1>3. Forward /\ ledger'[m].state = "sent"
  BY <1>1, <1>2, SetStateForward DEF IInv, DONE_STATES
<1>4. Settled(m)'
  BY <1>1, <1>2, <1>3 DEF Settled, DONE_STATES
<1> QED
  BY <1>1, <1>3, <1>4, DoneKnown

\* The command of the answer fails.
LEMMA SendFailsKnown ==
    ASSUME IInv, SendFails
    PROVE  Known'
<1>1. Quiet /\ sync.pc = "sending" /\ UNCHANGED <<remembered, said>>
  BY CommandFailsQuiet DEF SendFails
<1>2. PICK kind : Failed(Current, kind)
  BY DEF SendFails
<1>3. Current \in Owned /\ Current \in remembered /\ ledger[Current].state \notin DONE_STATES
  BY <1>1 DEF IInv, Doing
<1> QED
  BY <1>1, <1>2, <1>3, FailedKnown

\* What is acknowledged is settled.
LEMMA AcknowledgeKnown ==
    ASSUME IInv, Acknowledge
    PROVE  Known'
<1>1. sync.pc = "message" /\ UNCHANGED <<work, receipt, remembered, ledger, said>> /\ Forward
  BY SameForward DEF Acknowledge
<1>2. CASE sync.toAck = {}
  <2>1. sync' = AtRest /\ UNCHANGED wire
    BY <1>1, <1>2 DEF Acknowledge, wire
  <2> QED
    BY <1>1, <2>1, AloneQuiet, RestKnown
<1>3. CASE sync.toAck # {}
  <2>1. PICK c : c = AckOf(sync.toAck)
    OBVIOUS
  <2>2. Submit(c, "acking") /\ c.kind = "ack" /\ c.ids = sync.toAck
    BY <1>3, <2>1, CommandsIn DEF Acknowledge, IInv, TypeOK, Syncs
  <2>3. sync'.pc = "acking" /\ sync'.toAck = sync.toAck
    BY <2>2 DEF Submit, IInv, TypeOK, Syncs
  <2>4. \A m \in sync.toAck : Settled(m)'
    BY <1>1, SettledKept DEF IInv, Doing
  <2>5. Asked' /\ Honest' /\ Heard'
    BY <1>1, <2>2, <2>3, <2>4, SubmitKnown DEF Fits
  <2>6. Doing'
    BY <2>3, <2>4 DEF Doing
  <2> QED
    BY <2>5, <2>6 DEF Known
<1> QED
  BY <1>2, <1>3

\* An acknowledged answer stays settled.
LEMMA AcknowledgedForward ==
    ASSUME IInv, Acknowledged
    PROVE  /\ Quiet /\ Forward /\ sync' = AtRest /\ UNCHANGED <<said, remembered, ingested>>
           /\ \A m \in Owned : Outcome(m)' = Outcome(m) /\ ledger'[m].text = ledger[m].text
<1>1. ASSUME NEW m \in Owned
      PROVE  ledger'[m] = IF m \in sync.toAck /\ ledger[m].state = "sent"
                          THEN [ledger[m] EXCEPT !.state = "acked"] ELSE ledger[m]
  BY DEF Acknowledged
<1>2. ASSUME NEW m \in Owned
      PROVE  /\ Outcome(m)' = Outcome(m) /\ ledger'[m].text = ledger[m].text
             /\ ledger[m].state \in DONE_STATES => ledger'[m].state \in DONE_STATES
  BY <1>1 DEF IInv, TypeOK, Ledgers, Outcome, DONE_STATES
<1> QED
  BY <1>2, ReceivedQuiet DEF Acknowledged, Forward, phone

\* The steps that leave the PC at rest or with a batch.
LEMMA RestsKnown ==
    ASSUME IInv, Pulled \/ SyncFails \/ Acknowledged \/ AppDies
    PROVE  Known'
<1>1. CASE Pulled
  <2>1. Quiet /\ UNCHANGED said /\ Forward
    BY <1>1, ReceivedQuiet, SameForward DEF Pulled
  <2>2. sync' = AtRest \/ (sync'.pc = "message" /\ sync'.toAck = sync.toAck)
    BY <1>1 DEF Pulled, IInv, TypeOK, Syncs
  <2> QED
    BY <2>1, <2>2, RestKnown
<1>2. CASE SyncFails
  <2>1. UNCHANGED said /\ Forward /\ sync' = AtRest
    BY <1>2, SameForward DEF SyncFails
  <2>2. Quiet
    BY <1>2, CommandFailsQuiet, AloneQuiet DEF SyncFails, More
  <2> QED
    BY <2>1, <2>2, RestKnown
<1>3. CASE Acknowledged
  BY <1>3, AcknowledgedForward, RestKnown
<1>4. CASE AppDies
  <2>1. Quiet /\ UNCHANGED said /\ Forward /\ sync' = AtRest
    BY <1>4, AbandonQuiet, SameForward DEF AppDies
  <2> QED
    BY <2>1, RestKnown
<1> QED
  BY <1>1, <1>2, <1>3, <1>4

-----------------------------------------------------------------------------
\* The invariant holds at first,
LEMMA InitIInv == Init => IInv
<1> SUFFICES ASSUME Init PROVE IInv
  OBVIOUS
<1>1. Idling \in Works /\ None \in Receipts /\ Idling.result = "idle" /\ None.result = "none"
  BY NoBatch DEF Idling, Works, None, Receipts, Pull, Commands
<1>2. ledger \in Ledgers
  BY MessagesAssumption DEF Init, Ledgers, NewRecord, States
<1>3. TypeOK
  BY <1>1, <1>2, RestTyped, MessagesAssumption DEF Init, TypeOK
<1>4. Around = {} /\ ~Busy
  BY <1>1 DEF Init, Around, Busy
<1>5. Asked /\ Honest /\ Heard
  BY <1>1, <1>4 DEF Init, Asked, Honest, Heard
<1>6. Doing
  BY DEF Init, Doing, AtRest
<1> QED
  BY <1>3, <1>5, <1>6 DEF IInv

\* and every step keeps it.
LEMMA NextIInv == IInv /\ [Next]_vars => IInv'
<1> SUFFICES ASSUME IInv, [Next]_vars PROVE IInv'
  OBVIOUS
<1>0. TypeOK /\ Honest
  BY DEF IInv
<1>1. CASE Poller \/ \E m \in Sms : SmsReceived(m)
  <2>1. UNCHANGED <<wire, pc, said>>
    BY <1>1 DEF Poller, PersistUpdate, SaveOffset, SmsReceived
  <2> QED
    BY <1>0, <1>1, <2>1, PhoneTyped, PhoneKnown DEF IInv, Known
<1>2. CASE CommandThread \/ GatewayDies
  <2>1. Busy /\ work.cmd.kind = "send" => work.cmd.text \in Texts
    BY <1>0 DEF Honest, Around
  <2> QED
    BY <1>0, <1>2, <2>1, CommandTyped, CommandKnown DEF IInv, Known
<1>3. CASE Sync \/ AppDies
  <2>1. Known'
    BY <1>3, StartSyncKnown, RememberKnown, AdvanceKnown, GeneratedKnown, GenerateFailsKnown,
       SendKnown, SentKnown, SendFailsKnown, AcknowledgeKnown, RestsKnown DEF Sync
  <2> QED
    BY <1>3, <2>1, SyncTyped DEF IInv, Known
<1>4. CASE UNCHANGED vars
  <2>1. UNCHANGED <<wire, pc, said>> /\ UNCHANGED <<phone, wire, pc, said, faults>>
    BY <1>4 DEF vars
  <2>2. TypeOK'
    BY <1>0, <2>1 DEF phone, wire, pc, TypeOK
  <2> QED
    BY <2>1, <2>2, PhoneKnown DEF IInv, Known
<1> QED
  BY <1>1, <1>2, <1>3, <1>4 DEF Next

\* The invariant holds always.
LEMMA Invariant == Spec => []IInv
BY InitIInv, NextIInv, PTL DEF Spec

\* The types hold, with at most one command that the PC waits for
\* (phone-bridge.mjs, submitMessageCommand).
THEOREM Typed == Spec => []TypeOK
<1>1. IInv => TypeOK
  BY DEF IInv
<1> QED
  BY <1>1, Invariant, PTL

-----------------------------------------------------------------------------
\* The refinement: each step is one of the promise, or none.
Simulates == [Promise!Next]_(Promise!vars)

\* A step that changes nothing the promise sees.
LEMMA Stutters ==
    ASSUME UNCHANGED <<remembered, said, ingested>>,
           \A m \in Owned : Outcome(m)' = Outcome(m) /\ ledger'[m].text = ledger[m].text
    PROVE  UNCHANGED Promise!vars
<1>1. Chosen' = Chosen /\ Outcomes' = Outcomes
  BY DEF Chosen, Outcomes
<1> QED
  BY <1>1 DEF Promise!vars

\* A step that leaves the ledger, the memory and what was said is one of these.
LEMMA SilentSimulates ==
    ASSUME UNCHANGED <<remembered, ledger, said, ingested>>
    PROVE  Simulates
<1>1. \A m \in Owned : Outcome(m)' = Outcome(m) /\ ledger'[m].text = ledger[m].text
  BY DEF Outcome
<1> QED
  BY <1>1, Stutters DEF Simulates

\* So is one whose message stays open.
LEMMA OpenSimulates ==
    ASSUME UNCHANGED <<remembered, said, ingested>>, NEW m \in Owned,
           ledger[m].state \notin DONE_STATES, ledger'[m].state \notin DONE_STATES,
           ledger'[m].text = ledger[m].text, \A n \in Owned \ {m} : ledger'[n] = ledger[n]
    PROVE  Simulates
<1>1. \A n \in Owned : Outcome(n)' = Outcome(n) /\ ledger'[n].text = ledger[n].text
  BY DEF Outcome, DONE_STATES
<1> QED
  BY <1>1, Stutters DEF Simulates

\* A message settled: answered if the owner was told, or given up.
LEMMA SettleSimulates ==
    ASSUME UNCHANGED <<remembered, said, ingested>>, NEW m \in Owned, m \in remembered,
           ledger[m].state \notin DONE_STATES, ledger'[m].text = ledger[m].text,
           \A n \in Owned \ {m} : ledger'[n] = ledger[n],
           (ledger'[m].state = "sent" /\ said[m] # {}) \/ ledger'[m].state = "dead_letter"
    PROVE  Simulates
<1>1. Chosen' = Chosen
  BY DEF Chosen
<1>2. Outcomes[m] = "open" /\ \A n \in Owned \ {m} : Outcome(n)' = Outcome(n)
  BY DEF Outcomes, Outcome, DONE_STATES
<1>3. Outcome(m)' = IF ledger'[m].state = "sent" THEN "answered" ELSE "given_up"
  BY DEF Outcome
<1>4. Outcomes' = [Outcomes EXCEPT ![m] = Outcome(m)']
  BY <1>2 DEF Outcomes
<1>5. Promise!Settle(m)
  BY <1>1, <1>2, <1>3, <1>4 DEF Promise!Settle
<1> QED
  BY <1>5 DEF Simulates, Promise!Next

\* A message that fails stays open or is given up.
LEMMA FailedSimulates ==
    ASSUME IInv, UNCHANGED <<remembered, said, ingested>>, NEW m \in Owned, m \in remembered,
           NEW kind, Failed(m, kind), ledger[m].state \notin DONE_STATES
    PROVE  Simulates
BY FailedForward, SettleSimulates, OpenSimulates DEF IInv, DONE_STATES

\* The phone's steps.
LEMMA PhoneSimulates ==
    ASSUME IInv, Poller \/ (\E m \in Sms : SmsReceived(m)) \/ CommandThread \/ GatewayDies
    PROVE  Simulates
<1>0. UNCHANGED <<remembered, ledger>>
  BY DEF Poller, PersistUpdate, SaveOffset, SmsReceived, CommandThread, GatewayDies, Take,
         RunPull, RunAck, RunSend, Report, Delete, pc
<1>1. CASE RunAck
  <2>1. Busy /\ work.cmd.kind = "ack" /\ ingested' = ingested \cup work.cmd.ids /\ said' = said
    BY <1>1 DEF RunAck, Busy
  <2>2. \A m \in work.cmd.ids : Settled(m)
    BY <2>1 DEF IInv, Honest, Around
  <2>3. work.cmd.ids \in SUBSET remembered
    BY <2>2 DEF Settled
  <2>4. \A m \in work.cmd.ids \cap Owned : Outcomes[m] # "open"
    BY <2>2 DEF Settled, Outcomes, Outcome, DONE_STATES
  <2>5. Chosen' = Chosen /\ Outcomes' = Outcomes
    BY <1>0 DEF Chosen, Outcomes, Outcome
  <2>6. Promise!Release
    BY <1>0, <2>1, <2>3, <2>4, <2>5 DEF Promise!Release
  <2> QED
    BY <2>6 DEF Simulates, Promise!Next
<1>2. CASE RunSend
  <2>1. Busy /\ work.cmd.kind = "send" /\ ingested' = ingested
    BY <1>2 DEF RunSend, Busy, phone
  <2>2. PICK m \in Owned : /\ work.cmd.ids = {m} /\ work.cmd.text = ledger[m].text
                           /\ work.cmd.text \in Texts
    BY <2>1 DEF IInv, Honest, Around
  <2>3. CASE said' = said
    BY <1>0, <2>1, <2>3, SilentSimulates
  <2>4. CASE said' # said
    <3>1. said' = [n \in Owned |-> said[n] \cup (IF n \in {m} THEN {ledger[m].text} ELSE {})]
      BY <1>2, <2>2, <2>4 DEF RunSend
    <3>2. said' = [said EXCEPT ![m] = @ \cup {Chosen[m]}]
      BY <3>1 DEF IInv, TypeOK, Chosen
    <3>3. Chosen[m] # NoText
      BY <2>2, MessagesAssumption DEF Chosen
    <3>4. Chosen' = Chosen /\ Outcomes' = Outcomes
      BY <1>0 DEF Chosen, Outcomes, Outcome
    <3>5. Promise!Say(m)
      BY <1>0, <2>1, <3>2, <3>3, <3>4 DEF Promise!Say
    <3> QED
      BY <3>5 DEF Simulates, Promise!Next
  <2> QED
    BY <2>3, <2>4
<1>3. CASE ~RunAck /\ ~RunSend
  <2>1. UNCHANGED <<said, ingested>>
    BY <1>3 DEF Poller, PersistUpdate, SaveOffset, SmsReceived, CommandThread, GatewayDies,
         Take, RunPull, Report, Delete, phone, pc
  <2> QED
    BY <1>0, <2>1, SilentSimulates
<1> QED
  BY <1>1, <1>2, <1>3

\* The PC's steps.
LEMMA SyncSimulates ==
    ASSUME IInv, Sync \/ AppDies
    PROVE  Simulates
<1> PICK m : m = Current
  OBVIOUS
<1>0. sync.pc \in {"advance", "generating", "send", "sending"} =>
          m \in Owned /\ m \in remembered
  BY DEF IInv, Doing
<1>1. CASE StartSync \/ Pulled \/ SyncFails \/ Acknowledge \/ AppDies
  <2>1. UNCHANGED <<remembered, ledger, said, ingested>>
    BY <1>1 DEF StartSync, Pulled, SyncFails, Acknowledge, AppDies, phone
  <2> QED
    BY <2>1, SilentSimulates
<1>2. CASE Remember
  <2>1. /\ m \in Messages /\ remembered' = remembered \cup {m}
        /\ UNCHANGED <<ledger, said, ingested>>
    BY <1>2, CurrentIn DEF Remember, More, rememberRemoteMessage, phone, IInv
  <2>2. Chosen' = Chosen /\ Outcomes' = Outcomes
    BY <2>1 DEF Chosen, Outcomes, Outcome
  <2>3. Promise!Keep(m)
    BY <2>1, <2>2 DEF Promise!Keep
  <2> QED
    BY <2>1, <2>3 DEF Simulates, Promise!Next
<1>3. CASE Advance
  <2>1. m \in Owned /\ m \in remembered /\ UNCHANGED <<remembered, said, ingested>>
    BY <1>3, AdvanceCases DEF phone
  <2>2. CASE UNCHANGED ledger
    BY <2>1, <2>2, SilentSimulates
  <2>3. CASE ledger[m].state \notin DONE_STATES /\ Failed(m, "permanent")
    BY <2>1, <2>3, FailedSimulates
  <2>4. CASE /\ ledger[m].state \notin DONE_STATES
             /\ \E s \in States \ DONE_STATES : setState(m, s)
    BY <2>1, <2>4, SetStateForward, OpenSimulates DEF IInv
  <2>5. "generating" \in States \ DONE_STATES
    BY DEF States, DONE_STATES
  <2> QED
    BY <1>3, <2>2, <2>3, <2>4, <2>5, AdvanceCases
<1>4. CASE Generated
  <2>1. /\ m \in Owned /\ m \in remembered /\ ledger[m].state = "generating"
        /\ ledger[m].text = NoText /\ UNCHANGED <<remembered, said, ingested>>
    BY <1>4 DEF Generated, IInv, Doing, phone
  <2>2. PICK t \in Texts :
          ledger' = [ledger EXCEPT ![m].state = "reply_ready", ![m].text = t]
    BY <1>4 DEF Generated
  <2>3. /\ ledger'[m].state = "reply_ready" /\ ledger'[m].text = t
        /\ \A n \in Owned \ {m} : ledger'[n] = ledger[n]
    BY <2>1, <2>2 DEF IInv, TypeOK, Ledgers
  <2>4. Outcomes' = Outcomes /\ Outcomes[m] = "open"
    BY <2>1, <2>3 DEF Outcomes, Outcome
  <2>5. Chosen[m] = NoText /\ Chosen' = [Chosen EXCEPT ![m] = t]
    BY <2>1, <2>3 DEF Chosen
  <2>6. Promise!Choose(m)
    BY <2>1, <2>4, <2>5 DEF Promise!Choose
  <2> QED
    BY <2>1, <2>6 DEF Simulates, Promise!Next
<1>5. CASE GenerateFails
  <2>1. /\ m \in Owned /\ m \in remembered /\ ledger[m].state \notin DONE_STATES
        /\ UNCHANGED <<remembered, said, ingested>> /\ Failed(m, "transient")
    BY <1>5 DEF GenerateFails, IInv, Doing, phone, DONE_STATES
  <2> QED
    BY <2>1, FailedSimulates
<1>6. CASE Send
  <2>1. /\ m \in Owned /\ ledger[m].state \notin DONE_STATES
        /\ UNCHANGED <<remembered, said, ingested>> /\ setState(m, "sending")
    BY <1>6 DEF Send, IInv, Doing, phone
  <2>2. "sending" \in States \ DONE_STATES
    BY DEF States, DONE_STATES
  <2> QED
    BY <2>1, <2>2, SetStateForward, OpenSimulates DEF IInv
<1>7. CASE Sent
  <2>1. /\ sync.pc = "sending" /\ receipt.result = "ok" /\ setState(m, "sent")
        /\ UNCHANGED <<remembered, said, ingested>>
    BY <1>7 DEF Sent, Received, phone
  <2>2. m \in Owned /\ m \in remembered /\ ledger[m].state \notin DONE_STATES /\ said[m] # {}
    BY <2>1 DEF IInv, Doing, Heard
  <2> QED
    BY <2>1, <2>2, SetStateForward, SettleSimulates DEF IInv, States
<1>8. CASE SendFails
  <2>1. sync.pc = "sending" /\ UNCHANGED <<remembered, said, ingested>>
    BY <1>8, CommandFailsQuiet DEF SendFails, phone
  <2>2. m \in Owned /\ m \in remembered /\ ledger[m].state \notin DONE_STATES
    BY <2>1 DEF IInv, Doing
  <2>3. PICK kind : Failed(m, kind)
    BY <1>8 DEF SendFails
  <2> QED
    BY <2>1, <2>2, <2>3, FailedSimulates
<1>9. CASE Acknowledged
  BY <1>9, AcknowledgedForward, Stutters DEF Simulates
<1> QED
  BY <1>1, <1>2, <1>3, <1>4, <1>5, <1>6, <1>7, <1>8, <1>9 DEF Sync

\* message-delivery-ledger.mjs, main.mjs:830: whatever crashes, receipts lost and
\* commands that run late, a message is released only once it is stored and
\* settled, and the owner is never told two different answers to one message.
THEOREM KeepsPromiseHolds == Spec => KeepsPromise
<1>1. Init => Promise!Init
  <2>1. ASSUME Init PROVE Promise!Init
    <3>1. Chosen = [m \in Owned |-> NoText] /\ Outcomes = [m \in Owned |-> "open"]
      BY <2>1 DEF Init, NewRecord, Chosen, Outcomes, Outcome
    <3> QED
      BY <2>1, <3>1 DEF Init, Promise!Init
  <2> QED
    BY <2>1
<1>2. IInv /\ [Next]_vars => [Promise!Next]_(Promise!vars)
  <2> SUFFICES ASSUME IInv, [Next]_vars PROVE Simulates
    BY DEF Simulates
  <2>1. CASE UNCHANGED vars
    BY <2>1, SilentSimulates DEF vars, phone, pc
  <2> QED
    BY <2>1, PhoneSimulates, SyncSimulates DEF Next
<1> QED
  BY <1>1, <1>2, Invariant, PTL DEF Spec, KeepsPromise, Promise!Spec

(***************************************************************************)
(* What the promise implies, and with it the protocol.                     *)
(***************************************************************************)
\* The answers, the accounts and the outcomes of a promise are by question.
ByQuestion ==
    /\ Chosen = [m \in Owned |-> Chosen[m]]
    /\ Outcomes = [m \in Owned |-> Outcomes[m]]
    /\ said = [m \in Owned |-> said[m]]

Kept == ByQuestion /\ Promise!Honoured

\* What a step of the promise takes back: nothing.
Onward ==
    /\ \A m \in Owned :
          /\ Chosen[m] # NoText => Chosen'[m] = Chosen[m]
          /\ Outcomes[m] # "open" => Outcomes'[m] = Outcomes[m]
          /\ said[m] \subseteq said'[m]
    /\ remembered \subseteq remembered' /\ ingested \subseteq ingested'

\* A step of the promise keeps it and goes onward.
LEMMA PromiseStep == ASSUME Kept, [Promise!Next]_(Promise!vars) PROVE Kept' /\ Onward
<1> USE DEF Kept, ByQuestion, Promise!Honoured, Onward
<1>1. CASE UNCHANGED Promise!vars
  BY <1>1 DEF Promise!vars
<1>2. CASE \E m \in Messages : Promise!Keep(m)
  BY <1>2 DEF Promise!Keep
<1>3. CASE \E m \in Owned : Promise!Choose(m)
  BY <1>3, MessagesAssumption DEF Promise!Choose
<1>4. CASE \E m \in Owned : Promise!Say(m)
  BY <1>4 DEF Promise!Say
<1>5. CASE \E m \in Owned : Promise!Settle(m)
  BY <1>5 DEF Promise!Settle
<1>6. CASE Promise!Release
  BY <1>6 DEF Promise!Release
<1> QED
  BY <1>1, <1>2, <1>3, <1>4, <1>5, <1>6 DEF Promise!Next

\* The promise at start.
LEMMA PromiseStart == Promise!Init => Kept
BY DEF Promise!Init, Kept, ByQuestion, Promise!Honoured

\* phone-message-sync.mjs:50-60 over the rows of message-delivery-ledger.mjs:
\* whatever is lost, late or repeated, the owner hears at most one answer to a
\* message, a message counts as answered only when he has heard it, and the
\* phone lets go only of messages the PC has stored and settled.
THEOREM HonouredHolds == Spec => []Promise!Honoured
<1>1. Kept => Promise!Honoured
  BY DEF Kept
<1> QED
  BY <1>1, KeepsPromiseHolds, PromiseStart, PromiseStep, PTL DEF KeepsPromise, Promise!Spec

\* message-delivery-ledger.mjs, setState: an answer once chosen is the one every
\* retry sends, and a message answered or given up stays so, across crashes of
\* either side and commands that run late.
THEOREM IrrevocableHolds == Spec => Promise!Irrevocable
<1>1. Kept /\ [Promise!Next]_(Promise!vars) => [Onward]_(Promise!vars)
  BY PromiseStep
<1> QED
  BY <1>1, KeepsPromiseHolds, PromiseStart, PromiseStep, PTL
     DEF KeepsPromise, Promise!Spec, Promise!Irrevocable, Onward
=============================================================================
