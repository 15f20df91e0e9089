----------------------------- MODULE ChatLedger -----------------------------
(***************************************************************************)
(* The ledger of processed chat events kept by the PC                      *)
(* (src/src/devices/chat-ledger.mjs).  Every delivery of a phone message,  *)
(* over the local socket or through the cloud relay, asks the ledger for   *)
(* the answer: a complete record is served again, a generation already     *)
(* running is shared, and otherwise the caller runs the generation under a *)
(* lease.  The whole map is written to one JSON file by a chain of         *)
(* flushes that run one at a time.                                         *)
(*                                                                         *)
(* A call is one pending streamOnce or once; what runs between two awaits  *)
(* is one action, and the continuation of an awaited flush is an action of *)
(* its own: the next flush of the chain may start before it.  The text of  *)
(* an answer is abstracted to the number of the generation that wrote it,  *)
(* and its fragments to their count.                                       *)
(***************************************************************************)
EXTENDS Integers, Sequences, FiniteSets

CONSTANTS
    Events,       \* eventIds of phone messages, answered through streamOnce
    Media,        \* "media:<id>" keys, completed through once
    Calls,        \* the calls that can be pending at the same time
    NoCall,       \* no call
    Capacity,     \* capacity: entries the map retains
    MaxFresh,     \* bound: responseIds and runs ever started
    MaxChunks,    \* bound: fragments of one generation
    Legacy        \* events the file answers in the final-only format at start

Keys == Events \cup Media

ASSUME LedgerAssumption ==
    /\ NoCall \notin Calls
    /\ Events \cap Media = {}
    /\ Legacy \subseteq Events
    /\ Capacity \in Nat \ {0}
    /\ MaxFresh \in Nat
    /\ MaxChunks \in Nat

VARIABLES
    up,         \* "down", "loading" while load() flushes, then "up"
    processed,  \* the map: key -> record, Absent when it has none
    dirty,      \* the map differs from what was last handed to the store
    queue,      \* the promise chain "persistence": flushes not yet started
    saving,     \* the flush whose store.save is pending, else NoFlush
    data,       \* the snapshot that save writes
    lease,      \* leases and streamLeases: key -> call that owns the run
    call,       \* each call: where it stands, its key, its record, its flush
    fresh,      \* the numbers drawn so far for responseIds and insertions
    disk,       \* the entries of the ledger file when it was last whole
    torn,       \* the file has since been left half-written
    lost,       \* history: those served before a start that lost the file
    served      \* history: results returned for a key the map still retains

memory == <<processed, dirty, queue>>
file == <<saving, data, disk, torn, lost>>
vars == <<up, memory, file, lease, call, fresh, served>>

-----------------------------------------------------------------------------
(* Records: rid is the responseId (0 for null), n the number of chunks,    *)
(* ans the generation whose text is the answer (NoAnswer while it is null) *)
(* and at the place of the entry in the map's insertion order.             *)

NoAnswer == -1
LegacyAnswer == 0
Absent == [rid |-> 0, n |-> 0, ans |-> -2, at |-> 0]
Rec == [rid : Nat, n : Nat, ans : Int, at : Nat]

\* Mutant: only an answer of the old format counts.
isCompleteLegacy(r) == r.ans >= 0 /\ r.rid = 0

isComplete(r) == r.ans >= 0

Empty == [k \in Keys |-> Absent]
Idle == [pc |-> "idle", key |-> NoCall, rec |-> Absent, flushed |-> "no"]

\* A flush in the chain: who awaits it, where, and for which record.
Flush(c, where, rid) == [by |-> c, at |-> where, rid |-> rid]
NoFlush == Flush(NoCall, "none", 0)

Goto(c, where) == [call EXCEPT ![c].pc = where]

\* Mutant: the flush goes ahead of those that wait.
AwaitFlushFirst(c, where, r) ==
    /\ dirty' = TRUE
    /\ queue' = <<Flush(c, where, r.rid)>> \o queue
    /\ call' = [call EXCEPT ![c].pc = where, ![c].rec = r, ![c].flushed = "no"]

\* Change the map, then await flush(): c goes to where with its record r.
AwaitFlush(c, where, r) ==
    /\ dirty' = TRUE
    /\ queue' = Append(queue, Flush(c, where, r.rid))
    /\ call' = [call EXCEPT ![c].pc = where, ![c].rec = r, ![c].flushed = "no"]

(* processed.set then trim: beyond the capacity the oldest entry goes, be  *)
(* it a record that is still being generated.                              *)
SetAndTrim(k, r) ==
    LET written == [processed EXCEPT ![k] = r]
        entries == {j \in Keys : written[j] # Absent}
    IN  IF Cardinality(entries) <= Capacity
        THEN processed' = written /\ UNCHANGED served
        ELSE \E old \in entries :
                 /\ \A j \in entries : written[old].at <= written[j].at
                 /\ processed' = [written EXCEPT ![old] = Absent]
                 /\ served' = [served EXCEPT ![old] = {}]

\* Mutant: a key set again moves to the front of the map.
PlaceFirst(k) == processed[k].at - 1

\* Setting a key the map already has keeps its place.
Place(k) == IF processed[k] = Absent THEN fresh + 1 ELSE processed[k].at

\* processed.get(sourceEventId) === record
Held(c) ==
    LET r == processed[call[c].key] IN r # Absent /\ r.rid = call[c].rec.rid

\* A change to the record object shows in the map while the map holds it.
Write(c, r) ==
    processed' = IF Held(c) THEN [processed EXCEPT ![call[c].key] = r]
                            ELSE processed

\* Mutant: the calls that share the lease are not told.
ConcludeAlone(c, outcome) ==
    call' = Goto(c, outcome) /\ lease' = [lease EXCEPT ![call[c].key] = NoCall]

\* The lease of c's key ends: c and the calls awaiting it get its outcome.
Conclude(c, outcome) ==
    /\ call' = [d \in Calls |->
                  IF d = c \/ (call[d].pc = "joined" /\ call[d].key = call[c].key)
                  THEN [call[c] EXCEPT !.pc = outcome]
                  ELSE call[d]]
    /\ lease' = [lease EXCEPT ![call[c].key] = NoCall]

\* Mutant: nobody looks at the leases.
FreeAlways(k) == TRUE

Free(k) == lease[k] = NoCall

Serve(k, r) == served' = [served EXCEPT ![k] = @ \cup {r}]

-----------------------------------------------------------------------------
Init ==
    /\ up = "down"
    /\ processed = Empty
    /\ dirty = FALSE
    /\ queue = << >>
    /\ saving = NoFlush
    /\ lease = [k \in Keys |-> NoCall]
    /\ call = [c \in Calls |-> Idle]
    /\ fresh = 0
    /\ disk = [k \in Keys |-> IF k \in Legacy
                              THEN [Absent EXCEPT !.ans = LegacyAnswer]
                              ELSE Absent]
    /\ data = disk
    /\ torn = FALSE
    /\ lost = [k \in Keys |-> {}]
    /\ served = [k \in Keys |-> {}]

(***************************************************************************)
(* load: entries without an answer are dropped; what had to be dropped or  *)
(* has no responseId is written back before the channel starts.  A file    *)
(* that does not parse is set aside and the ledger starts empty.           *)
(***************************************************************************)

\* trim of the loaded map: the oldest entries beyond the capacity go.
LoadAndTrim(kept) ==
    LET entries == {k \in Keys : kept[k] # Absent}
    IN  IF Cardinality(entries) <= Capacity
        THEN processed' = kept /\ UNCHANGED served
        ELSE \E old \in SUBSET entries :
                 /\ Cardinality(entries \ old) = Capacity
                 /\ \A i \in old, j \in entries \ old : kept[i].at <= kept[j].at
                 /\ processed' = [k \in Keys |-> IF k \in old THEN Absent ELSE kept[k]]
                 /\ served' = [k \in Keys |-> IF k \in old THEN {} ELSE served[k]]

load ==
    LET found == IF torn THEN Empty ELSE disk
        kept == [k \in Keys |-> IF isComplete(found[k]) THEN found[k] ELSE Absent]
        migrated == \E k \in Keys :
                        found[k] # Absent /\ (found[k] # kept[k] \/ found[k].rid = 0)
    IN  /\ up = "down"
        /\ LoadAndTrim(kept)
        /\ up' = IF migrated THEN "loading" ELSE "up"
        /\ dirty' = migrated
        /\ queue' = IF migrated THEN <<Flush(NoCall, "load", 0)>> ELSE << >>
        /\ disk' = found
        /\ data' = found
        /\ torn' = FALSE
        /\ lost' = IF torn THEN served ELSE lost
        /\ UNCHANGED <<saving, lease, call, fresh>>

(***************************************************************************)
(* streamOnce up to its first await: share, replay, label, or generate.    *)
(***************************************************************************)
Calling(c) == up = "up" /\ call[c].pc = "idle"

Begin(c, k, where, r) ==
    call' = [call EXCEPT ![c] = [Idle EXCEPT !.pc = where, !.key = k, !.rec = r]]

StreamJoin(c, k) ==
    /\ Calling(c) /\ lease[k] # NoCall
    /\ Begin(c, k, "joined", Absent)
    /\ UNCHANGED <<up, memory, file, lease, fresh, served>>

StreamReplay(c, k) ==
    /\ Calling(c) /\ Free(k)
    /\ isComplete(processed[k]) /\ processed[k].rid # 0
    /\ Begin(c, k, "ok", processed[k])
    /\ Serve(k, processed[k])
    /\ UNCHANGED <<up, memory, file, lease, fresh>>

\* The lease of a new run: a fresh responseId and a required flush.
StreamLease(c, k, where, r) ==
    /\ Calling(c) /\ Free(k)
    /\ fresh < MaxFresh
    /\ fresh' = fresh + 1
    /\ dirty' = TRUE
    /\ queue' = Append(queue, Flush(c, where, r.rid))
    /\ Begin(c, k, where, r)
    /\ lease' = [lease EXCEPT ![k] = c]
    /\ UNCHANGED <<up, file>>

\* An entry of the old format gets its responseId at its first replay.
StreamLabel(c, k) ==
    LET r == [processed[k] EXCEPT !.rid = fresh + 1]
    IN  /\ isComplete(processed[k]) /\ processed[k].rid = 0
        /\ StreamLease(c, k, "labelling", r)
        /\ processed' = [processed EXCEPT ![k] = r]
        /\ UNCHANGED served

StreamOpen(c, k) ==
    LET r == [rid |-> fresh + 1, n |-> 0, ans |-> NoAnswer, at |-> Place(k)]
    IN  /\ ~isComplete(processed[k])
        /\ StreamLease(c, k, "opening", r)
        /\ SetAndTrim(k, r)

(***************************************************************************)
(* What follows each awaited flush of streamOnce.                          *)
(***************************************************************************)
\* Mutant: the flush is not awaited.
AtUnflushed(c, where, result) == call[c].pc = where /\ result = "saved"

At(c, where, result) == call[c].pc = where /\ call[c].flushed = result

\* The first flush is outside the try: its failure leaves the record behind.
Opened(c) ==
    /\ \/ /\ At(c, "opening", "saved")
          /\ call' = Goto(c, "generating")
          /\ UNCHANGED lease
       \/ At(c, "opening", "failed") /\ Conclude(c, "failed")
    /\ UNCHANGED <<up, memory, file, fresh, served>>

\* A responseId that could not be saved is taken back.
Labelled(c) ==
    /\ \/ /\ At(c, "labelling", "saved")
          /\ IF Held(c) THEN Serve(call[c].key, call[c].rec) ELSE UNCHANGED served
          /\ Conclude(c, "ok")
          /\ UNCHANGED <<processed, dirty>>
       \/ /\ At(c, "labelling", "failed")
          /\ Write(c, [call[c].rec EXCEPT !.rid = 0])
          /\ dirty' = TRUE
          /\ Conclude(c, "failed")
          /\ UNCHANGED served
    /\ UNCHANGED <<up, queue, file, fresh>>

append(c) ==
    /\ call[c].pc = "generating" /\ call[c].rec.n < MaxChunks
    /\ LET r == [call[c].rec EXCEPT !.n = @ + 1]
       IN  Write(c, r) /\ AwaitFlush(c, "appending", r)
    /\ UNCHANGED <<up, file, lease, fresh, served>>

Appended(c) ==
    /\ At(c, "appending", "saved")
    /\ call' = Goto(c, "generating")
    /\ UNCHANGED <<up, memory, file, lease, fresh, served>>

Answer(c) ==
    /\ call[c].pc = "generating"
    /\ LET r == [call[c].rec EXCEPT !.ans = call[c].rec.rid]
       IN  Write(c, r) /\ AwaitFlush(c, "sealing", r)
    /\ UNCHANGED <<up, file, lease, fresh, served>>

Sealed(c) ==
    /\ At(c, "sealing", "saved")
    /\ Conclude(c, "ok")
    /\ IF Held(c) THEN Serve(call[c].key, call[c].rec) ELSE UNCHANGED served
    /\ UNCHANGED <<up, memory, file, fresh>>

(***************************************************************************)
(* The catch of a generation: the provider threw or answered something     *)
(* else than its chunks, a required flush failed (a provider awaits append *)
(* and lets its failure through), or the lease ran out; in the last case   *)
(* the producer goes on but its appends are refused.  The record leaves    *)
(* the map unless it was trimmed or replaced.                              *)
(***************************************************************************)

Abandon(c) ==
    /\ IF Held(c)
       THEN /\ processed' = [processed EXCEPT ![call[c].key] = Absent]
            /\ AwaitFlush(c, "undoing", call[c].rec)
            /\ UNCHANGED lease
       ELSE /\ Conclude(c, "failed")
            /\ UNCHANGED memory
    /\ UNCHANGED <<up, file, fresh, served>>

ProviderFails(c) == call[c].pc = "generating" /\ Abandon(c)
LeaseTimeout(c) == call[c].pc \in {"generating", "appending"} /\ Abandon(c)
FlushFailed(c) == (At(c, "appending", "failed") \/ At(c, "sealing", "failed")) /\ Abandon(c)

Undone(c) ==
    /\ call[c].pc = "undoing" /\ call[c].flushed # "no"
    /\ Conclude(c, "failed")
    /\ UNCHANGED <<up, memory, file, fresh, served>>

(***************************************************************************)
(* once: the work of a completed medium.  Its flush is not required.       *)
(***************************************************************************)
OnceReplay(c, k) ==
    /\ Calling(c) /\ isComplete(processed[k])
    /\ Begin(c, k, "ok", processed[k])
    /\ UNCHANGED <<up, memory, file, lease, fresh, served>>

\* The lease of a work that is being stored has already settled.
OnceJoin(c, k) ==
    /\ Calling(c) /\ ~isComplete(processed[k]) /\ lease[k] # NoCall
    /\ LET owner == call[lease[k]]
       IN  IF owner.pc = "storing" THEN Begin(c, k, "ok", owner.rec)
                                   ELSE Begin(c, k, "joined", Absent)
    /\ UNCHANGED <<up, memory, file, lease, fresh, served>>

OnceRun(c, k) ==
    /\ Calling(c) /\ ~isComplete(processed[k]) /\ Free(k)
    /\ fresh < MaxFresh
    /\ fresh' = fresh + 1
    /\ Begin(c, k, "working", [Absent EXCEPT !.ans = fresh + 1, !.at = fresh + 1])
    /\ lease' = [lease EXCEPT ![k] = c]
    /\ UNCHANGED <<up, memory, file, served>>

\* The calls that share the lease have their answer as soon as the work ends;
\* the one that ran it awaits the flush, and keeps the lease until then.
OnceDone(c) ==
    /\ call[c].pc = "working"
    /\ fresh' = fresh + 1
    /\ LET r == [call[c].rec EXCEPT !.at = Place(call[c].key)]
       IN  /\ SetAndTrim(call[c].key, r)
           /\ dirty' = TRUE
           /\ queue' = Append(queue, Flush(c, "storing", r.rid))
           /\ call' = [d \in Calls |->
                 CASE d = c -> [call[c] EXCEPT !.pc = "storing", !.rec = r,
                                               !.flushed = "no"]
                   [] d # c /\ call[d].pc = "joined" /\ call[d].key = call[c].key
                           -> [call[d] EXCEPT !.pc = "ok", !.rec = r]
                   [] OTHER -> call[d]]
    /\ UNCHANGED <<up, file, lease>>

OnceStored(c) ==
    /\ call[c].pc = "storing" /\ call[c].flushed # "no"
    /\ Conclude(c, "ok")
    /\ UNCHANGED <<up, memory, file, fresh, served>>

\* The work throws or outlives its lease.
OnceFails(c) ==
    /\ call[c].pc = "working"
    /\ Conclude(c, "failed")
    /\ UNCHANGED <<up, memory, file, fresh, served>>

\* The caller takes its result or its error and goes on.
Return(c) ==
    /\ call[c].pc \in {"ok", "failed"}
    /\ call' = [call EXCEPT ![c] = Idle]
    /\ UNCHANGED <<up, memory, file, lease, fresh, served>>

(***************************************************************************)
(* flush: one at a time.  A flush that finds nothing left to write settles *)
(* at once.  Settling tells the call that still awaits it: a call whose    *)
(* lease ran out no longer does.                                           *)
(***************************************************************************)
\* persistNow; bound: one such flush at a time.
persist ==
    /\ up = "up" /\ dirty
    /\ saving.at # "persist"
    /\ \A i \in 1..Len(queue) : queue[i].at # "persist"
    /\ queue' = Append(queue, Flush(NoCall, "persist", 0))
    /\ UNCHANGED <<up, processed, dirty, file, lease, call, fresh, served>>

Settle(f, result) ==
    /\ call' = [c \in Calls |->
                  IF c = f.by /\ call[c].pc = f.at /\ call[c].rec.rid = f.rid
                  THEN [call[c] EXCEPT !.flushed = result]
                  ELSE call[c]]
    /\ up' = IF f.at = "load" THEN "up" ELSE up
    /\ UNCHANGED <<processed, lease, fresh, served>>

FlushClean ==
    /\ saving = NoFlush /\ queue # << >> /\ ~dirty
    /\ queue' = Tail(queue)
    /\ Settle(Head(queue), "saved")
    /\ UNCHANGED <<dirty, file>>

StartSave ==
    /\ saving = NoFlush /\ queue # << >> /\ dirty
    /\ saving' = Head(queue)
    /\ queue' = Tail(queue)
    /\ data' = processed
    /\ dirty' = FALSE
    /\ UNCHANGED <<up, processed, disk, torn, lost, lease, call, fresh, served>>

SaveDone ==
    /\ saving # NoFlush
    /\ saving' = NoFlush
    /\ disk' = data
    /\ torn' = FALSE
    /\ Settle(saving, "saved")
    /\ UNCHANGED <<dirty, queue, data, lost>>

\* writeFile rewrites the file in place: it rejects before or after it has
\* truncated the file.
SaveFailed ==
    /\ saving # NoFlush
    /\ saving' = NoFlush
    /\ dirty' = TRUE
    /\ data' = disk
    /\ torn' \in {torn, TRUE}
    /\ Settle(saving, "failed")
    /\ UNCHANGED <<queue, disk, lost>>

\* The save in progress has not touched the file, has left it half-written,
\* or has written all of it.
Interrupted ==
    \/ disk' = disk /\ torn' = torn
    \/ saving # NoFlush /\ disk' = disk /\ torn' = TRUE
    \/ saving # NoFlush /\ disk' = data /\ torn' = FALSE

\* The process dies, and the file stays as the save in progress had left it.
Crash ==
    /\ up # "down"
    /\ up' = "down"
    /\ Interrupted
    /\ data' = disk'
    /\ processed' = Empty
    /\ dirty' = FALSE
    /\ queue' = << >>
    /\ saving' = NoFlush
    /\ lease' = [k \in Keys |-> NoCall]
    /\ call' = [c \in Calls |-> Idle]
    /\ UNCHANGED <<fresh, lost, served>>

-----------------------------------------------------------------------------
StreamCall(c, k) ==
    StreamJoin(c, k) \/ StreamReplay(c, k) \/ StreamLabel(c, k) \/ StreamOpen(c, k)

OnceCall(c, k) == OnceReplay(c, k) \/ OnceJoin(c, k) \/ OnceRun(c, k)

\* What the event loop runs by itself once a call has begun.
Continue(c) ==
    \/ Opened(c) \/ Labelled(c) \/ Appended(c) \/ Sealed(c) \/ FlushFailed(c)
    \/ Undone(c) \/ OnceStored(c) \/ Return(c)

Expire(c) == LeaseTimeout(c) \/ OnceFails(c)

StoreStep == FlushClean \/ StartSave \/ SaveDone \/ SaveFailed

Next ==
    \/ load \/ persist \/ StoreStep \/ Crash
    \/ \E c \in Calls :
          \/ Continue(c) \/ Expire(c)
          \/ append(c) \/ Answer(c) \/ ProviderFails(c) \/ OnceDone(c)
          \/ \E k \in Events : StreamCall(c, k)
          \/ \E k \in Media : OnceCall(c, k)

Spec == Init /\ [][Next]_vars

\* Promises settle, the lease timer fires; a provider may well stay silent.
Fairness ==
    /\ WF_vars(load)
    /\ WF_vars(StoreStep)
    /\ \A c \in Calls : WF_vars(Continue(c)) /\ WF_vars(Expire(c))

FairSpec == Spec /\ Fairness
-----------------------------------------------------------------------------
Running == {"opening", "generating", "appending", "sealing", "undoing"}
Owning == Running \cup {"labelling", "working", "storing"}
Places == Owning \cup {"idle", "joined", "ok", "failed"}

Flushes == [by : Calls \cup {NoCall}, rid : Nat,
            at : Places \cup {"none", "load", "persist"}]

\* The type invariant.
TypeOK ==
    /\ up \in {"down", "loading", "up"}
    /\ processed \in [Keys -> Rec]
    /\ dirty \in BOOLEAN
    /\ queue \in Seq(Flushes)
    /\ saving \in Flushes
    /\ data \in [Keys -> Rec]
    /\ lease \in [Keys -> Calls \cup {NoCall}]
    /\ call \in [Calls -> [pc : Places, key : Keys \cup {NoCall}, rec : Rec,
                          flushed : {"no", "saved", "failed"}]]
    /\ fresh \in Nat
    /\ disk \in [Keys -> Rec]
    /\ torn \in BOOLEAN
    /\ lost \in [Keys -> SUBSET Rec]
    /\ served \in [Keys -> SUBSET Rec]

\* An answer given to a caller is in the file, with the same responseId and
\* fragments, for as long as its entry is retained: a replay after a restart
\* serves what the phone has already seen.  The save that is rewritten in
\* place may leave the file half-written (torn), and the start that finds it
\* so loses what was answered before (lost).
ServedOnDisk ==
    \A k \in Events : \A r \in served[k] \ lost[k] : ~torn => disk[k] = r

\* A redelivered message whose answer was given is not generated again, save
\* when a start has found half-written the file that had this answer: no
\* other crash, failed save, lease or restart makes Mina answer twice.
OnlyLostRegenerated ==
    \A c \in Calls : call[c].pc \in Running =>
        served[call[c].key] \subseteq lost[call[c].key]

\* What chat-ledger.mjs says, without that exception: "Le ledger est DURABLE :
\* apres un redemarrage du PC, un message redelivre n'est pas retraite".
AnsweredNotRegenerated ==
    \A c \in Calls : call[c].pc \in Running => served[call[c].key] = {}

\* When append gives control back to the provider, the fragment is on disk
\* together with all those before it, so emitting it is safe; a later save
\* may still spoil the file.
AppendedOnDisk ==
    \A c \in Calls :
        call[c].pc = "generating" /\ Held(c) /\ ~torn =>
            disk[call[c].key] = call[c].rec

\* One generation at a time for a message, and nobody awaits a lease that
\* no run holds: the second copy of a message shares the first one's answer.
OneRun ==
    /\ \A c \in Calls : call[c].pc \in Owning => lease[call[c].key] = c
    /\ \A c \in Calls : call[c].pc = "joined" =>
          call[lease[call[c].key]].pc \in Owning

\* chat-response-stream.mjs tells the phone that the stream failed on the
\* ground that no final was persisted on this path.
FailedLeavesNoFinal ==
    \A c \in Calls : call[c].pc = "failed" /\ call[c].rec.rid # 0 =>
        ~(isComplete(disk[call[c].key]) /\ disk[call[c].key].rid = call[c].rec.rid)

\* Every call comes back, whatever the store and the provider do.
CallsReturn ==
    \A c \in Calls : call[c].pc # "idle" ~> call[c].pc = "idle"
=============================================================================
