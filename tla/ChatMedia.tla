------------------------------- MODULE ChatMedia -------------------------------
(***************************************************************************)
(* A picture or a voice note from the phone to the PC: one declaration and *)
(* its chunks, each an event of the outbox, over the direct link and the   *)
(* relay; the PC's assembler, the encrypted store, the perception, and the *)
(* ledger that carries out the end of a medium once                        *)
(* (src/src/chat/chat-media-handler.mjs, media-assembler.mjs).             *)
(*                                                                         *)
(* The assembler holds the chunks in memory and everything it does is      *)
(* synchronous: only the end of a medium awaits.  Rows are sent again at   *)
(* times of their own and listeners call back in any order, so the order   *)
(* of the parts is left open.  Media do not interact: there is one.  Its   *)
(* rows are all in the outbox.  ChatOutbox counts their attempts: here any *)
(* attempt that reaches nobody may be the last (MAX_ATTEMPTS).  An         *)
(* acknowledgement is taken by the phone at once or lost with the link.    *)
(***************************************************************************)
EXTENDS Integers, FiniteSets

CONSTANTS
    LastChunk,  \* chunks are 1..LastChunk, part 0 is the declaration
    MaxWire,    \* bound: parts in flight on the direct link
    MaxDocs,    \* bound: parts in the relay
    MaxFaults   \* bound: restarts, failures, timeouts, expiries, evictions

Parts == 0..LastChunk
Chunks == 1..LastChunk

ASSUME MediaAssumption ==
    /\ LastChunk \in Nat \ {0} /\ MaxWire \in Nat \ {0}
    /\ MaxDocs \in Nat /\ MaxFaults \in Nat

VARIABLES
    acked,     \* phone: rows acknowledged
    failed,    \* phone: rows that failed for good, the others are in the outbox
    wire,      \* parts in flight on the direct link
    docs,      \* parts in the relay
    fresh,     \* those the PC's listener has to hand over
    pending,   \* PC: the assembler's entry
    work,      \* PC ledger: the call whose work is shared
    joined,    \* PC ledger: the calls that share it
    orphans,   \* PC: calls at work whose lease ran out, by what they do
    done,      \* PC ledger: the medium is complete
    saved,     \* PC ledger: and the file says so
    stored,    \* PC: what the encrypted file holds
    perceived, \* history: times the medium was perceived
    again,     \* history: times its end was cut short or lost
    faults

phone == <<acked, failed>>
link == <<wire, docs, fresh>>
ledger == <<work, joined, orphans, done, saved>>
history == <<perceived, again>>
vars == <<phone, link, pending, ledger, stored, history, faults>>

-----------------------------------------------------------------------------
Paths == {"direct", "relay"}
Closed == [open |-> FALSE, got |-> {}]
Opened == [open |-> TRUE, got |-> {}]

\* A call that ends a medium: what it awaits and the part that brought it.
Idle == [pc |-> "idle", path |-> "direct", part |-> 0]
Caller(path, p) == [path |-> path, part |-> p]

Queued == Parts \ (acked \cup failed)
Fault == faults < MaxFaults /\ faults' = faults + 1

Init ==
    /\ acked = {} /\ failed = {} /\ wire = {} /\ docs = {} /\ fresh = {}
    /\ pending = Closed /\ work = Idle /\ joined = {}
    /\ orphans = [saving |-> 0, perceiving |-> 0]
    /\ done = FALSE /\ saved = FALSE /\ stored = "none"
    /\ perceived = 0 /\ again = 0 /\ faults = 0

(***************************************************************************)
(* The phone and the link.  A row is sent again until it is acknowledged   *)
(* or has failed, through the relay when the link is down: what was in     *)
(* flight is lost.                                                         *)
(***************************************************************************)
SendDirect(p) ==
    /\ p \in Queued \ wire /\ Cardinality(wire) < MaxWire
    /\ wire' = wire \cup {p}
    /\ UNCHANGED <<phone, docs, fresh, pending, ledger, stored, history, faults>>

LinkDown ==
    /\ wire # {} /\ wire' = {}
    /\ UNCHANGED <<phone, docs, fresh, pending, ledger, stored, history, faults>>

\* Writing a document that is there tells nobody.
SendRelay(p) ==
    /\ wire = {} /\ p \in Queued \ docs /\ Cardinality(docs) < MaxDocs
    /\ docs' = docs \cup {p} /\ fresh' = fresh \cup {p}
    /\ UNCHANGED <<phone, wire, pending, ledger, stored, history, faults>>

\* The last attempt of a row reaches nobody: its copies go their way.
markWaiting(p) ==
    /\ p \in Queued /\ failed' = failed \cup {p}
    /\ UNCHANGED <<acked, link, pending, ledger, stored, history, faults>>

\* The user sees the declaration alone: it brings all that failed back.
retryFailedMessage ==
    /\ 0 \in failed /\ failed' = {}
    /\ UNCHANGED <<acked, link, pending, ledger, stored, history, faults>>

(***************************************************************************)
(* handleMedia.  A part that is accepted is acknowledged, or its document  *)
(* is removed; the link may lose the acknowledgement, the relay may refuse *)
(* the removal.  A part that is refused is left as it is.                  *)
(***************************************************************************)
Accept(callers) ==
    LET brought(path) == {c.part : c \in {d \in callers : d.path = path}}
    IN  /\ acked' \in {acked, acked \cup brought("direct")}
        /\ failed' = failed \ acked'
        /\ docs' \in {docs, docs \ brought("relay")}

Refuse == UNCHANGED <<phone, docs>>

\* The part leaves the socket, or the hands of the listener.
Comes(path, p) ==
    \/ path = "direct" /\ p \in wire /\ wire' = wire \ {p} /\ UNCHANGED fresh
    \/ path = "relay" /\ p \in fresh /\ fresh' = fresh \ {p} /\ UNCHANGED wire

\* Mutant: a medium that is declared again starts again.
beginAnew(path) ==
    /\ Comes(path, 0)
    /\ pending' = Opened
    /\ Accept({Caller(path, 0)})
    /\ UNCHANGED <<ledger, stored, history, faults>>

begin(path) ==
    /\ Comes(path, 0)
    /\ pending' = IF pending.open THEN pending ELSE Opened
    /\ Accept({Caller(path, 0)})
    /\ UNCHANGED <<ledger, stored, history, faults>>

\* A chunk that is there already is accepted.
addChunk(path, p) ==
    /\ p \in Chunks /\ pending.open /\ pending.got \cup {p} # Chunks
    /\ Comes(path, p)
    /\ pending' = [pending EXCEPT !.got = @ \cup {p}]
    /\ Accept({Caller(path, p)})
    /\ UNCHANGED <<ledger, stored, history, faults>>

\* media_inconnu: no declaration, or the medium has been finalized.
unknownMedium(path, p) ==
    /\ p \in Chunks /\ ~pending.open
    /\ Comes(path, p) /\ Refuse
    /\ UNCHANGED <<pending, ledger, stored, history, faults>>

\* Mutant: the ledger does not look for a lease or for what it has done.
finalizeAlone(path, p) ==
    /\ p \in Chunks /\ pending.open /\ pending.got \cup {p} = Chunks
    /\ Comes(path, p)
    /\ pending' = Closed
    /\ work' = [pc |-> "saving", path |-> path, part |-> p] /\ Refuse
    /\ UNCHANGED <<joined, orphans, done, saved, stored, history, faults>>

\* The medium is whole: the entry goes, then once replays, joins or works.
\* A lease that is fulfilled answers at once, during the flush too.
finalize(path, p) ==
    /\ p \in Chunks /\ pending.open /\ pending.got \cup {p} = Chunks
    /\ Comes(path, p)
    /\ pending' = Closed
    /\ \/ /\ done \/ work.pc = "flushing"
          /\ Accept({Caller(path, p)}) /\ UNCHANGED <<work, joined>>
       \/ /\ ~done /\ work = Idle /\ Refuse
          /\ work' = [pc |-> "saving", path |-> path, part |-> p] /\ UNCHANGED joined
       \/ /\ ~done /\ work.pc \in {"saving", "perceiving"} /\ Refuse
          /\ joined' = joined \cup {Caller(path, p)} /\ UNCHANGED work
    /\ UNCHANGED <<orphans, done, saved, stored, history, faults>>

handleMedia(path) ==
    \/ begin(path)
    \/ \E p \in Chunks : addChunk(path, p) \/ unknownMedium(path, p) \/ finalize(path, p)

(***************************************************************************)
(* The end of the medium.                                                  *)
(***************************************************************************)
Saved ==
    /\ work.pc = "saving"
    /\ stored' = "whole" /\ work' = [work EXCEPT !.pc = "perceiving"]
    /\ UNCHANGED <<phone, link, pending, joined, orphans, done, saved, history, faults>>

\* perceive never fails.  The callers that share the work have their answer;
\* the one that worked waits for the flush.
Perceived ==
    /\ work.pc = "perceiving"
    /\ perceived' = perceived + 1 /\ done' = TRUE
    /\ work' = [work EXCEPT !.pc = "flushing"] /\ joined' = {} /\ Accept(joined)
    /\ UNCHANGED <<wire, fresh, pending, orphans, saved, stored, again, faults>>

\* A flush that fails is swallowed.
Flushed ==
    /\ work.pc = "flushing"
    /\ saved' \in {saved, TRUE} /\ work' = Idle
    /\ Accept({Caller(work.path, work.part)})
    /\ UNCHANGED <<wire, fresh, pending, joined, orphans, done, stored, history, faults>>

SaveFails ==
    /\ work.pc = "saving" /\ Fault
    /\ work' = Idle /\ joined' = {}
    /\ UNCHANGED <<phone, link, pending, orphans, done, saved, stored, history>>

\* Mutant: the callers of a lease that ran out stay.
LeaseTimeoutAlone ==
    /\ work.pc \in {"saving", "perceiving"} /\ Fault
    /\ work' = Idle
    /\ orphans' = [orphans EXCEPT ![work.pc] = @ + 1]
    /\ again' = again + 1
    /\ UNCHANGED <<phone, link, pending, joined, done, saved, stored, perceived>>

\* The lease runs out: its callers fail, the work goes on and tells nobody.
LeaseTimeout ==
    /\ work.pc \in {"saving", "perceiving"} /\ Fault
    /\ work' = Idle /\ joined' = {}
    /\ orphans' = [orphans EXCEPT ![work.pc] = @ + 1]
    /\ again' = again + 1
    /\ UNCHANGED <<phone, link, pending, done, saved, stored, perceived>>

\* The caller has wiped its bytes: a save that had not read them yet stores
\* the wiped ones, over the file of another call if there is one.
LateSaved ==
    /\ orphans.saving > 0
    /\ stored' \in {"whole", "wiped"}
    /\ orphans' = [saving |-> orphans.saving - 1, perceiving |-> orphans.perceiving + 1]
    /\ UNCHANGED <<phone, link, pending, work, joined, done, saved, history, faults>>

LateSaveFails ==
    /\ orphans.saving > 0
    /\ orphans' = [orphans EXCEPT !.saving = @ - 1]
    /\ UNCHANGED <<phone, link, pending, work, joined, done, saved, stored, history, faults>>

LatePerceived ==
    /\ orphans.perceiving > 0
    /\ perceived' = perceived + 1
    /\ orphans' = [orphans EXCEPT !.perceiving = @ - 1]
    /\ UNCHANGED <<phone, link, pending, work, joined, done, saved, stored, again, faults>>

\* purgeExpired drops an entry that is ten minutes old when another begins.
purgeExpired ==
    /\ pending.open /\ Fault
    /\ pending' = Closed
    /\ UNCHANGED <<phone, link, ledger, stored, history>>

\* The ledger makes room for other entries, and its file follows.
trim ==
    /\ done /\ Fault
    /\ done' = FALSE /\ saved' \in {saved, FALSE} /\ again' = again + 1
    /\ UNCHANGED <<phone, link, pending, work, joined, orphans, stored, perceived>>

\* The ledger is read back.  A crash during any of its saves, load's own
\* included, leaves a file that reads as empty.  The listener is told again
\* of every document.
Restart ==
    /\ Fault
    /\ pending' = Closed /\ work' = Idle /\ joined' = {}
    /\ orphans' = [saving |-> 0, perceiving |-> 0]
    /\ wire' = {} /\ fresh' = docs
    /\ saved' \in {saved, FALSE} /\ done' = saved'
    /\ again' = IF saved' THEN again ELSE again + 1
    /\ UNCHANGED <<phone, docs, stored, perceived>>

-----------------------------------------------------------------------------
Finish == Saved \/ Perceived \/ Flushed \/ LateSaved \/ LateSaveFails \/ LatePerceived

Next ==
    \/ \E p \in Parts : SendDirect(p) \/ SendRelay(p) \/ markWaiting(p)
    \/ LinkDown \/ retryFailedMessage
    \/ \E path \in Paths : handleMedia(path)
    \/ Finish \/ SaveFails \/ LeaseTimeout \/ purgeExpired \/ trim \/ Restart

Spec == Init /\ [][Next]_vars

\* Fairness: the outbox tries a row again as long as the row is there, and
\* the direct link comes back now and then and lets each part through now and
\* then, unless the attempts of the row run out first; what was started on
\* the PC ends.
Received(p) == handleMedia("direct") /\ p \notin wire'
FairSpec ==
    /\ Spec
    /\ \A p \in Parts : SF_vars(SendDirect(p)) /\ SF_vars(p \in wire /\ Received(p))
    /\ WF_vars(Finish)

-----------------------------------------------------------------------------
\* The type invariant; callers share only the work of a call there is.
TypeOK ==
    /\ acked \subseteq Parts /\ failed \subseteq Parts /\ wire \subseteq Parts
    /\ docs \subseteq Parts /\ fresh \subseteq docs
    /\ pending \in [open : BOOLEAN, got : SUBSET Chunks] /\ pending.got # Chunks
    /\ work \in [pc : {"idle", "saving", "perceiving", "flushing"}, path : Paths, part : Parts]
    /\ joined \subseteq [path : Paths, part : Chunks]
    /\ joined # {} => work.pc \in {"saving", "perceiving"}
    /\ orphans \in [saving : 0..MaxFaults, perceiving : 0..MaxFaults]
    /\ done \in BOOLEAN /\ saved \in BOOLEAN
    /\ stored \in {"none", "whole", "wiped"} /\ (done \/ saved => stored # "none")
    /\ perceived \in Nat /\ again \in 0..MaxFaults /\ faults \in 0..MaxFaults

\* What the PC has of the medium.
Has(p) ==
    \/ stored = "whole" \/ work.pc = "saving"
    \/ IF p = 0 THEN pending.open ELSE p \in pending.got

\* A part was taken from the phone and the PC has nothing of it.
Forgotten == \E p \in acked : ~Has(p)

\* As long as nothing fails, restarts or expires, a part the phone is rid of
\* is with the PC, although parts come twice, in any order and over two paths,
\* and the medium ends while they come (media-assembler.mjs:63, 72); unless
\* the save of a lease that ran out has stored wiped bytes.
OnlyFaultsForget ==
    [][Forgotten' => Forgotten \/ faults' # faults \/ stored' = "wiped"]_vars

\* The two paths and the copies of a medium perceive it once
\* (chat-channel.mjs:97).  It is perceived again only after its work outlived
\* its lease, the ledger made room for others (chat-ledger.mjs:108), or a
\* restart did not find its end in the file: it was not there yet, or the
\* crash left the file half-written (versioned-json-store.mjs:70).
PerceivedOnce == perceived <= 1 + again

\* A medium arrives, over a link that comes and goes at each step and a relay
\* that keeps what was refused, unless a fault made the PC forget a part or a
\* row ran out of attempts (ChatSyncLoop.kt:107), which the user is shown.
Arrives == <>(stored = "whole" \/ Forgotten \/ failed # {})

\* What chat-server.mjs:205 says: the phone empties its outbox only of what
\* has been assembled, stored and perceived.
NothingForgotten == ~Forgotten

\* Every part is acknowledged in the end, or fails.
Settles == <>(acked = Parts \/ Forgotten \/ failed # {})
=============================================================================
