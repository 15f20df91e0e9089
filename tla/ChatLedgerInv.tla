---------------------------- MODULE ChatLedgerInv ----------------------------
(***************************************************************************)
(* The inductive invariant behind the safety of ChatLedger.  ServedOnDisk  *)
(* and OneRun speak of what callers see; to be inductive they need to know *)
(* what every flush that is queued or being saved will leave in the file.  *)
(* disk is what the file held when it was last whole: a save that leaves   *)
(* the file half-written changes torn alone, so that LedgerInv speaks of   *)
(* what a flush would have left, and ServedInv of what no start has lost.  *)
(***************************************************************************)
EXTENDS ChatLedger

\* A process that is not up has no call, and one that is down no flush.
DownInv ==
    /\ up # "up" => \A c \in Calls : call[c].pc = "idle"
    /\ up = "down" => saving = NoFlush /\ queue = << >>

\* A lease belongs to the one call that runs for its key.
LeaseInv ==
    /\ \A c \in Calls : call[c].pc \in Owning =>
          call[c].key \in Keys /\ lease[call[c].key] = c
    /\ \A c \in Calls : call[c].pc = "joined" =>
          call[c].key \in Keys /\ lease[call[c].key] # NoCall
    /\ \A k \in Keys : lease[k] # NoCall =>
          call[lease[k]].pc \in Owning /\ call[lease[k]].key = k

Producing == {"opening", "generating", "appending"}
Streaming == Producing \cup {"sealing", "labelling"}

\* The map holds the record a run works on, or nothing for its key.
RecordOf(c) ==
    /\ call[c].pc \in Streaming =>
          /\ call[c].key \in Events
          /\ call[c].rec.rid \in 1..fresh
          /\ processed[call[c].key] \in {call[c].rec, Absent}
    /\ call[c].pc = "undoing" =>
          call[c].key \in Events /\ processed[call[c].key] = Absent
    /\ call[c].pc \in Producing => ~isComplete(call[c].rec)
    /\ call[c].pc = "generating" => call[c].flushed = "saved"
    /\ call[c].pc \in {"sealing", "labelling"} => isComplete(call[c].rec)
    /\ call[c].pc \in {"working", "storing"} => call[c].key \in Media /\ call[c].rec.rid = 0

RecordInv == \A c \in Calls : RecordOf(c)

\* A flush of a run was queued for the step the run is at, or for an
\* earlier one: none of them can be mistaken for the one that seals it.
FlushOf(f) ==
    /\ f.rid <= fresh
    /\ \A c \in Calls :
          call[c].pc \in Producing /\ f.by = c /\ f.rid = call[c].rec.rid =>
              f.at \in {"opening", "appending"}

FlushInv ==
    /\ FlushOf(saving)
    /\ \A i \in 1..Len(queue) : FlushOf(queue[i]) /\ queue[i].at # "none"

\* The flush that an open or an append awaits is the only one of its run: once
\* it has settled none is left that began before what came after.
Own(c, f) == f.by = c /\ f.rid = call[c].rec.rid
Awaits(c, f) == call[c].pc = f.at /\ call[c].flushed = "no"

SoleOf(c) ==
    call[c].pc \in Producing =>
        /\ Own(c, saving) => Awaits(c, saving)
        /\ \A i \in 1..Len(queue) : Own(c, queue[i]) =>
              /\ Awaits(c, queue[i]) /\ ~Own(c, saving)
              /\ \A j \in 1..Len(queue) : Own(c, queue[j]) => i = j

SoleInv == \A c \in Calls : SoleOf(c)

\* The map is what was handed to the store, unless it is dirty; only a trim on
\* load drops entries, which are answers, without making it so.
Handed == IF saving = NoFlush THEN disk ELSE data

CleanInv ==
    up # "down" /\ ~dirty =>
        \A k \in Keys :
            \/ processed[k] = Handed[k]
            \/ processed[k] = Absent /\ isComplete(Handed[k])

\* The file holds r for k, and the save in progress does not change that.
Stored(k, r) == disk[k] = r /\ (saving # NoFlush => data[k] = r)

\* The flush that a run awaits writes its record, which stays in the file.
SavedOf(c) ==
    call[c].pc \in Streaming /\ Held(c) =>
       /\ call[c].flushed = "saved" => Stored(call[c].key, call[c].rec)
       /\ saving.by = c /\ saving.at = call[c].pc /\ saving.rid = call[c].rec.rid
             => data[call[c].key] = call[c].rec

SavedInv == \A c \in Calls : SavedOf(c)

\* An answer that can be replayed is stored.
ReplayOf(k) ==
    lease[k] = NoCall /\ isComplete(processed[k]) /\ processed[k].rid # 0
        => Stored(k, processed[k])

ReplayInv == up # "down" => \A k \in Events : ReplayOf(k)

\* What was served and not lost is what a replay serves.
ServedOf(k) ==
    \A r \in served[k] \ lost[k] :
        /\ isComplete(r) /\ r.rid # 0
        /\ up = "down" => disk[k] = r
        /\ up # "down" => processed[k] = r /\ lease[k] = NoCall

ServedInv == \A k \in Events : ServedOf(k)

\* What the file and the callers rest on, whatever was served.
LedgerInv ==
    /\ TypeOK /\ DownInv /\ LeaseInv /\ RecordInv /\ FlushInv
    /\ SoleInv /\ CleanInv /\ SavedInv /\ ReplayInv

IInv == LedgerInv /\ ServedInv
=============================================================================
