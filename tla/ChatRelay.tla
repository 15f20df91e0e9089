------------------------------- MODULE ChatRelay -------------------------------
(***************************************************************************)
(* A question from the phone to the PC and its answer back, end to end:    *)
(* the phone's outbox, the direct link, the documents of the Firebase      *)
(* relay, the PC's handlers of both paths over one ledger                  *)
(* (src/src/devices/chat-relay.mjs, chat-server.mjs) and the phone's       *)
(* ingestion of the answers (ChatEngine.kt, FirebaseChatRelay.kt).         *)
(*                                                                         *)
(* A listener of Firestore is told of a document once, when it appears;    *)
(* writing it again while it exists tells nobody.  Each snapshot starts a  *)
(* callback on the PC that handles its documents one by one, next to the   *)
(* callbacks of former snapshots and to the messages of the socket.        *)
(*                                                                         *)
(* ChatLedger and ChatResponseStream model the ledger and the frames; here *)
(* the ledger is the durable answer and the generation under way, and only *)
(* the terminal frames are documents of their own.  ChatOutbox models the  *)
(* outbox; here it is a row that is sent again until it is acknowledged.   *)
(***************************************************************************)
EXTENDS Integers, Sequences, FiniteSets, SequencesExt

CONSTANTS
    Questions,
    Handlers,    \* the PC's asynchronous calls under way at one time
    None,
    MaxSends,    \* bound: times an answered question is put again
    MaxFaults,   \* bound: crashes, cuts, and refusals of a store or a provider
    MaxEpoch     \* bound: revocations of other devices

ASSUME RelayAssumption ==
    /\ IsFiniteSet(Questions) /\ IsFiniteSet(Handlers) /\ None \notin Handlers
    /\ MaxSends \in Nat /\ MaxFaults \in Nat /\ MaxEpoch \in Nat

VARIABLES
    row,      \* phone: "unwritten", "queued" in the outbox, or "acked"
    sealed,   \* the epoch of the key each question was sealed with
    vault,    \* phone: the epoch of its key
    seen,     \* phone: replies its listener has been told of, in this life
    inbox,    \* phone: replies an acceptFromPc holds in memory
    shown,    \* phone: the rows of the answers
    online,   \* the direct link
    wire,     \* frames of the socket, to the PC
    docs,     \* questions in the relay
    fresh,    \* those the PC's listener has not been told of
    replies,  \* terminal frames in the relay, for the phone
    epoch,    \* PC registry: the current key epoch
    answered, \* PC ledger: questions with a durable answer
    lease,    \* PC ledger: the handler that generates the answer
    handler,  \* PC: the calls under way
    minted,   \* identifiers minted for the terminal frames of a question
    settled,  \* history: questions whose document may go
    left,     \* history: questions whose document was left after a failure
    sends,
    faults

phone == <<row, sealed, vault, seen, inbox, shown, sends>>
link == <<online, wire>>
cloud == <<docs, fresh, replies>>
ledger == <<answered, lease>>
history == <<minted, settled, left>>
vars == <<phone, link, cloud, epoch, ledger, handler, history, faults>>

-----------------------------------------------------------------------------
Replies == [id : Nat, q : Questions, kind : {"completed", "failed"}]

AtRest == [pc |-> "idle", path |-> "relay", batch |-> << >>]
At(h, pc) == handler[h].pc = pc
Doc(h) == Head(handler[h].batch)
Relayed(h) == handler[h].path = "relay"

Go(h, pc) == handler' = [handler EXCEPT ![h].pc = pc]

\* The callback goes on with its next document.
Finish(h) ==
    LET b == handler[h].batch
    IN  handler' = [handler EXCEPT ![h] =
            IF Len(b) = 1 THEN AtRest
            ELSE [pc |-> "next", path |-> handler[h].path, batch |-> Tail(b)]]

Fault == faults < MaxFaults /\ faults' = faults + 1
Valid(q) == sealed[q] = epoch

\* What goes through a socket that is cut is lost, its handlers go on.
Cut(hs) == [h \in Handlers |->
    IF hs[h].path = "direct" THEN [hs[h] EXCEPT !.path = "cut"] ELSE hs[h]]

Init ==
    /\ row = [q \in Questions |-> "unwritten"]
    /\ sealed = [q \in Questions |-> 0] /\ vault = 0
    /\ seen = {} /\ inbox = {} /\ shown = {}
    /\ sends = [q \in Questions |-> 0]
    /\ online = FALSE /\ wire = {}
    /\ docs = {} /\ fresh = {} /\ replies = {}
    /\ epoch = 0 /\ answered = {} /\ lease = [q \in Questions |-> None]
    /\ handler = [h \in Handlers |-> AtRest]
    /\ minted = [q \in Questions |-> 0] /\ settled = {} /\ left = {} /\ faults = 0

(***************************************************************************)
(* The phone's outbox and link.                                            *)
(***************************************************************************)
sealAndEnqueue(q) ==
    /\ row[q] = "unwritten"
    /\ row' = [row EXCEPT ![q] = "queued"]
    /\ sealed' = [sealed EXCEPT ![q] = vault]
    /\ UNCHANGED <<vault, seen, inbox, shown, sends, link, cloud, epoch, ledger,
                   handler, history, faults>>

SendDirect(q) ==
    /\ row[q] = "queued" /\ online /\ q \notin wire
    /\ wire' = wire \cup {q}
    /\ UNCHANGED <<phone, online, cloud, epoch, ledger, handler, history, faults>>

\* Writing a document that is there tells nobody.  A question whose answer is
\* under way, or was shown, is put again too, as often as MaxSends allows.
SendRelay(q) ==
    /\ row[q] = "queued" /\ ~online /\ q \notin docs
    /\ IF \E r \in replies \cup inbox \cup shown : r.q = q
       THEN sends[q] < MaxSends /\ sends' = [sends EXCEPT ![q] = @ + 1]
       ELSE UNCHANGED sends
    /\ docs' = docs \cup {q} /\ fresh' = fresh \cup {q}
    /\ settled' = settled \ {q} /\ left' = left \ {q}
    /\ UNCHANGED <<row, sealed, vault, seen, inbox, shown, link, replies, epoch,
                   ledger, handler, minted, faults>>

drainOnce(q) == SendDirect(q) \/ SendRelay(q)

\* The handshake brings the current key.
LinkUp ==
    /\ ~online /\ online' = TRUE
    /\ vault' = IF epoch >= vault THEN epoch ELSE vault
    /\ UNCHANGED <<row, sealed, seen, inbox, shown, sends, wire, cloud, epoch,
                   ledger, handler, history, faults>>

LinkDown ==
    /\ online /\ Fault
    /\ online' = FALSE /\ wire' = {} /\ handler' = Cut(handler)
    /\ UNCHANGED <<phone, cloud, epoch, ledger, history>>

(***************************************************************************)
(* The phone's side of the answers.  The listener starts a coroutine and   *)
(* deletes the document without waiting for either.                        *)
(***************************************************************************)
Watched(r) ==
    /\ r \in replies \ seen
    /\ seen' = seen \cup {r} /\ inbox' = inbox \cup {r}
    /\ replies' \in {replies, replies \ {r}}
    /\ UNCHANGED <<row, sealed, vault, shown, sends, link, docs, fresh, epoch, ledger,
                   handler, history, faults>>

\* insertEvent ignores an eventId it has.
ingest(r) ==
    /\ r \in inbox
    /\ inbox' = inbox \ {r} /\ shown' = shown \cup {r}
    /\ UNCHANGED <<row, sealed, vault, seen, sends, link, cloud, epoch, ledger,
                   handler, history, faults>>

\* The application dies; its listener is told of every document again.
PhoneDies ==
    /\ Fault
    /\ seen' = {} /\ inbox' = {}
    /\ online' = FALSE /\ wire' = {} /\ handler' = Cut(handler)
    /\ UNCHANGED <<row, sealed, vault, shown, sends, cloud, epoch, ledger, history>>

(***************************************************************************)
(* The PC: a call starts.                                                  *)
(***************************************************************************)
\* streamOnce: join the generation under way, answer again, or generate.
streamOnce(h, path, batch) ==
    LET q == Head(batch)
        pc == IF lease[q] # None THEN "joining"
              ELSE IF q \in answered THEN "replying" ELSE "generating"
    IN  /\ handler' = [handler EXCEPT ![h] = [pc |-> pc, path |-> path, batch |-> batch]]
        /\ lease' = IF pc = "generating" THEN [lease EXCEPT ![q] = h] ELSE lease
        /\ UNCHANGED answered

\* A snapshot: the callback gets the documents that have appeared.
Offered(h) ==
    /\ At(h, "idle") /\ fresh # {}
    /\ \E order \in SetToSeqs(fresh) :
          handler' = [handler EXCEPT ![h].pc = "next", ![h].batch = order]
    /\ fresh' = {}
    /\ UNCHANGED <<phone, link, docs, replies, epoch, ledger, history, faults>>

handleDocument(h) ==
    /\ At(h, "next")
    /\ IF Valid(Doc(h))
       THEN streamOnce(h, "relay", handler[h].batch) /\ UNCHANGED settled
       ELSE /\ Go(h, "removing") /\ settled' = settled \cup {Doc(h)}
            /\ UNCHANGED ledger
    /\ UNCHANGED <<phone, link, cloud, epoch, minted, left, faults>>

\* The acknowledgement goes before the answer is thought of; a question under
\* a former key closes the socket.
handleEvent(h, q) ==
    /\ At(h, "idle") /\ q \in wire
    /\ IF Valid(q)
       THEN /\ streamOnce(h, "direct", <<q>>)
            /\ row' = [row EXCEPT ![q] = "acked"]
            /\ wire' = wire \ {q} /\ UNCHANGED online
       ELSE /\ online' = FALSE /\ wire' = {} /\ handler' = Cut(handler)
            /\ UNCHANGED <<row, ledger>>
    /\ UNCHANGED <<sealed, vault, seen, inbox, shown, sends, cloud, epoch, history, faults>>

(***************************************************************************)
(* The PC: the generation ends, and its joiners with it.                   *)
(***************************************************************************)
Released(h, pc, joined) ==
    handler' = [g \in Handlers |->
        IF g = h THEN [handler[g] EXCEPT !.pc = pc]
        ELSE IF At(g, "joining") /\ Doc(g) = Doc(h) THEN [handler[g] EXCEPT !.pc = joined]
        ELSE handler[g]]

Generated(h) ==
    /\ At(h, "generating")
    /\ answered' = answered \cup {Doc(h)}
    /\ lease' = [lease EXCEPT ![Doc(h)] = None]
    /\ Released(h, "replying", "replying")
    /\ UNCHANGED <<phone, link, cloud, epoch, history, faults>>

\* Mutant: the lease of a generation that failed is not given back.
GenerationFailsHeld(h) ==
    /\ At(h, "generating") /\ Fault
    /\ Released(h, "failing", "kept")
    /\ UNCHANGED <<phone, link, cloud, epoch, ledger, history>>

\* The provider or the ledger's store fails, or a frame cannot be put; who
\* joined has nothing to say and keeps its document.
GenerationFails(h) ==
    /\ At(h, "generating") /\ Fault
    /\ lease' = [lease EXCEPT ![Doc(h)] = None]
    /\ Released(h, "failing", "kept")
    /\ UNCHANGED <<phone, link, cloud, epoch, answered, history>>

\* The terminal frame, under an identifier of its own.
Reply(h) == [id |-> minted[Doc(h)] + 1, q |-> Doc(h),
             kind |-> IF At(h, "replying") THEN "completed" ELSE "failed"]

EmitDirect(h) ==
    /\ At(h, "replying") \/ At(h, "failing")
    /\ ~Relayed(h)
    /\ inbox' = IF handler[h].path = "direct" THEN inbox \cup {Reply(h)} ELSE inbox
    /\ minted' = [minted EXCEPT ![Doc(h)] = @ + 1]
    /\ Finish(h)
    /\ UNCHANGED <<row, sealed, vault, seen, shown, sends, link, cloud, epoch, ledger,
                   settled, left, faults>>

EmitRelay(h) ==
    /\ At(h, "replying") \/ At(h, "failing")
    /\ Relayed(h)
    /\ replies' = replies \cup {Reply(h)}
    /\ minted' = [minted EXCEPT ![Doc(h)] = @ + 1]
    /\ settled' = settled \cup {Doc(h)}
    /\ Go(h, "removing")
    /\ UNCHANGED <<phone, link, docs, fresh, epoch, ledger, left, faults>>

\* Mutant: the question goes whether or not a terminal was put.
EmitFailsAndGoes(h) ==
    /\ At(h, "replying") \/ At(h, "failing")
    /\ Relayed(h) /\ Fault
    /\ Go(h, "removing")
    /\ UNCHANGED <<phone, link, cloud, epoch, ledger, history>>

EmitFails(h) ==
    /\ At(h, "replying") \/ At(h, "failing")
    /\ Relayed(h) /\ Fault
    /\ Go(h, "kept")
    /\ UNCHANGED <<phone, link, cloud, epoch, ledger, history>>

Kept(h) ==
    /\ At(h, "kept") /\ Finish(h)
    /\ left' = IF Relayed(h) THEN left \cup {Doc(h)} ELSE left
    /\ UNCHANGED <<phone, link, cloud, epoch, ledger, minted, settled, faults>>

remove(h) ==
    /\ At(h, "removing")
    /\ docs' = docs \ {Doc(h)} /\ fresh' = fresh \ {Doc(h)}
    /\ Finish(h)
    /\ UNCHANGED <<phone, link, replies, epoch, ledger, history, faults>>

\* The refusal is swallowed.
RemoveFails(h) ==
    /\ At(h, "removing") /\ Fault
    /\ Finish(h)
    /\ left' = left \cup {Doc(h)}
    /\ UNCHANGED <<phone, link, cloud, epoch, ledger, minted, settled>>

\* Mutant: the listener comes back with nothing to tell.
RestartForgetful ==
    /\ Fault
    /\ handler' = [h \in Handlers |-> AtRest] /\ lease' = [q \in Questions |-> None]
    /\ online' = FALSE /\ wire' = {} /\ fresh' = {}
    /\ left' = {}
    /\ UNCHANGED <<phone, docs, replies, epoch, answered, minted, settled>>

\* The PC restarts: its new listener is told of every document.
Restart ==
    /\ Fault
    /\ handler' = [h \in Handlers |-> AtRest] /\ lease' = [q \in Questions |-> None]
    /\ online' = FALSE /\ wire' = {} /\ fresh' = docs
    /\ left' = {}
    /\ UNCHANGED <<phone, docs, replies, epoch, answered, minted, settled>>

\* Another device is revoked.
revoke ==
    /\ epoch < MaxEpoch /\ epoch' = epoch + 1
    /\ UNCHANGED <<phone, link, cloud, ledger, handler, history, faults>>

-----------------------------------------------------------------------------
Step(h) ==
    \/ handleDocument(h) \/ Generated(h) \/ EmitDirect(h) \/ EmitRelay(h)
    \/ Kept(h) \/ remove(h)

Fails(h) == GenerationFails(h) \/ EmitFails(h) \/ RemoveFails(h)
Starts(h) == Offered(h) \/ \E q \in Questions : handleEvent(h, q)

Next ==
    \/ \E q \in Questions : sealAndEnqueue(q) \/ drainOnce(q)
    \/ LinkUp \/ LinkDown \/ PhoneDies \/ Restart \/ revoke
    \/ \E r \in replies : Watched(r)
    \/ \E r \in inbox : ingest(r)
    \/ \E h \in Handlers : Starts(h) \/ Step(h) \/ Fails(h)

Spec == Init /\ [][Next]_vars

\* Fairness: the outbox's loop, the listeners, and every await ends.
FairSpec ==
    /\ Spec
    /\ \A q \in Questions : WF_vars(drainOnce(q))
    /\ WF_vars(\E r \in replies : Watched(r))
    /\ WF_vars(\E r \in inbox : ingest(r))
    /\ WF_vars(\E h \in Handlers : Starts(h))
    /\ \A h \in Handlers : WF_vars(Step(h))

-----------------------------------------------------------------------------
\* The type invariant.
TypeOK ==
    /\ row \in [Questions -> {"unwritten", "queued", "acked"}]
    /\ sealed \in [Questions -> 0..MaxEpoch] /\ vault \in 0..epoch
    /\ inbox \subseteq Replies /\ shown \subseteq Replies
    /\ seen \subseteq Replies /\ replies \subseteq Replies
    /\ online \in BOOLEAN /\ wire \subseteq Questions
    /\ fresh \subseteq docs /\ docs \subseteq Questions
    /\ answered \subseteq Questions
    /\ \A q \in Questions : lease[q] # None => At(lease[q], "generating") /\ Doc(lease[q]) = q
    /\ \A h \in Handlers : At(h, "idle") <=> handler[h].batch = << >>

\* A question leaves the relay only once a terminal answer to it has been put
\* there, or it was refused for good: whatever fails, and however the calls of
\* several snapshots and of the socket interleave.
RemovedOnlySettled == [][docs \ docs' \subseteq settled']_vars

\* A question the outbox holds is acknowledged or its end is shown, although
\* the PC, the phone and the link may die at any step: except under a key
\* that has been retired, or when a refusal of the store left the document.
Answered ==
    \A q \in Questions :
        row[q] = "queued" ~>
            \/ row[q] = "acked"
            \/ \E r \in shown : r.q = q
            \/ ~Valid(q)
            \/ q \in left

\* What chat-relay.mjs:150 says of a failure: it keeps the document so that it
\* is taken up again.
LeftIsTakenUp == \A q \in Questions : q \in left ~> q \notin left

\* What ChatDatabase.kt:110 says of the deduplication: one answer is visible
\* when the direct link and Firebase both deliver.
OneVisibleAnswer ==
    \A r, s \in shown : r.kind = "completed" /\ s.kind = "completed" /\ r.q = s.q => r = s
=============================================================================
