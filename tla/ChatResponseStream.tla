------------------------- MODULE ChatResponseStream -------------------------
(***************************************************************************)
(* deliver (src/src/devices/chat-response-stream.mjs): the frames the PC   *)
(* emits for a message, composed with the ledger that ChatLedger models.   *)
(* A call is one deliver, of the copy of a message that came directly or   *)
(* of the copy the relay holds.  Each step of the ledger that gives        *)
(* control back to deliver also emits what deliver emits there; emit is    *)
(* the transport's and may fail.                                           *)
(***************************************************************************)
EXTENDS ChatLedger

VARIABLES
    live,     \* responseId -> its deliver while it runs, and its sequence
    frames    \* every frame emitted: [ev, rid, seq, kind, body]

streamVars == <<vars, live, frames>>

Rids == 1..MaxFresh
NotLive == [by |-> NoCall, ev |-> NoCall, seq |-> 0, broken |-> FALSE]

\* body: the index of the chunk, the author of the answer, 0 otherwise.
Frame(ev, rid, seq, kind, body) ==
    [ev |-> ev, rid |-> rid, seq |-> seq, kind |-> kind, body |-> body]

\* Mutant: the sequence of the final counts from the wrong end.
CompletedEarly(ev, r) == Frame(ev, r.rid, r.n - 1, "completed", r.ans)

\* Mutant: the final reuses the sequence of the last chunk.
CompletedOnLast(ev, r) == Frame(ev, r.rid, r.n, "completed", r.ans)

Completed(ev, r) == Frame(ev, r.rid, r.n + 1, "completed", r.ans)

Replay(ev, r) ==
    {Frame(ev, r.rid, 0, "started", 0), Completed(ev, r)}
        \cup {Frame(ev, r.rid, i, "chunk", i) : i \in 1..r.n}

rid(c) == call[c].rec.rid
isLive(c) == rid(c) \in Rids /\ live[rid(c)].by = c

StreamInit ==
    /\ Init
    /\ live = [r \in Rids |-> NotLive]
    /\ frames = {}

(***************************************************************************)
(* The producer: started, then each delta once append has returned.        *)
(***************************************************************************)
DeliverStarted(c) ==
    /\ Opened(c)
    /\ IF At(c, "opening", "saved")
       THEN \E ok \in BOOLEAN :
              /\ live' = [live EXCEPT ![rid(c)] =
                    [by |-> c, ev |-> call[c].key, seq |-> 0, broken |-> ~ok]]
              /\ frames' = frames \cup
                    {f \in {Frame(call[c].key, rid(c), 0, "started", 0)} : ok}
       ELSE UNCHANGED <<live, frames>>

\* append returned: emit the chunk, and only then advance the sequence.
EmitChunk(r) ==
    \E ok \in BOOLEAN :
        /\ live' = [live EXCEPT ![r].broken = ~ok,
                                ![r].seq = IF ok THEN @ + 1 ELSE @]
        /\ frames' = frames \cup
              {f \in {Frame(live[r].ev, r, live[r].seq + 1, "chunk",
                            live[r].seq + 1)} : ok}

DeliverChunk(c) == Appended(c) /\ EmitChunk(rid(c))

\* The respond callback goes on only while its emissions succeeded.
Respond(c) ==
    /\ append(c) \/ Answer(c)
    /\ ~live[rid(c)].broken
    /\ UNCHANGED <<live, frames>>

(***************************************************************************)
(* A settled flush.  The append of a producer whose lease has run out      *)
(* still returns, and its chunk is emitted.                                *)
(***************************************************************************)
Late(f) ==
    /\ f.at = "appending"
    /\ call[f.by].pc # "appending" \/ rid(f.by) # f.rid
    /\ ~live[f.rid].broken

DeliverSettled ==
    \/ /\ FlushClean
       /\ IF Late(Head(queue)) THEN EmitChunk(Head(queue).rid)
                               ELSE UNCHANGED <<live, frames>>
    \/ /\ SaveDone
       /\ IF Late(saving) THEN EmitChunk(saving.rid)
                          ELSE UNCHANGED <<live, frames>>
    \/ (StartSave \/ SaveFailed) /\ UNCHANGED <<live, frames>>

(***************************************************************************)
(* The end of deliver.  A live run that failed says so, a replay sends the *)
(* whole sequence again, and the connection may break at any frame.        *)
(***************************************************************************)
DeliverFailed(c) ==
    /\ call[c].pc = "failed" /\ Return(c)
    /\ IF isLive(c)
       THEN /\ live' = [live EXCEPT ![rid(c)].by = NoCall]
            /\ frames' \in {frames, frames \cup
                  {Frame(call[c].key, rid(c), live[rid(c)].seq + 1, "failed", 0)}}
       ELSE UNCHANGED <<live, frames>>

DeliverCompleted(c) ==
    /\ call[c].pc = "ok" /\ Return(c)
    /\ LET ev == call[c].key
           r == call[c].rec
           rest == IF isLive(c) THEN {Completed(ev, r)} ELSE Replay(ev, r)
       IN  /\ \E cut \in 0..(r.n + 2) :
                 frames' = frames \cup {f \in rest : f.seq < cut}
           /\ live' = IF isLive(c) THEN [live EXCEPT ![r.rid].by = NoCall] ELSE live

DeliverCrash ==
    /\ Crash
    /\ live' = [r \in Rids |-> NotLive]
    /\ UNCHANGED frames

-----------------------------------------------------------------------------
DeliverStep(c) ==
    \/ DeliverStarted(c) \/ DeliverChunk(c) \/ Respond(c)
    \/ DeliverFailed(c) \/ DeliverCompleted(c)
    \/ /\ \/ Labelled(c) \/ Sealed(c) \/ FlushFailed(c) \/ Undone(c)
          \/ LeaseTimeout(c) \/ ProviderFails(c)
          \/ \E k \in Events : StreamCall(c, k)
       /\ UNCHANGED <<live, frames>>

StreamNext ==
    \/ DeliverSettled \/ DeliverCrash
    \/ (load \/ persist) /\ UNCHANGED <<live, frames>>
    \/ \E c \in Calls : DeliverStep(c)

StreamSpec == StreamInit /\ [][StreamNext]_streamVars

-----------------------------------------------------------------------------
\* The type invariant.
StreamTypeOK ==
    /\ live \in [Rids -> [by : Calls \cup {NoCall}, ev : Events \cup {NoCall},
                          seq : 0..MaxChunks, broken : BOOLEAN]]
    /\ \A f \in frames :
          /\ f.ev \in Events /\ f.rid \in Rids /\ f.seq \in 0..(MaxChunks + 1)
          /\ f.kind \in {"started", "chunk", "completed", "failed"}

\* Whatever is emitted live, or again after a retransmission or a restart,
\* two frames of a response with the same sequence are the same frame: the
\* phone may keep the first one it gets.
FramesAgree ==
    \A f, g \in {h \in frames : h.kind # "failed"} :
        f.rid = g.rid /\ f.seq = g.seq => f = g

\* All the final answers a phone can see for one message are the same one,
\* as long as no start has lost the file that had the first.
AnswerLost(f) == \E r \in lost[f.ev] : r.rid = f.rid

OneAnswerPerMessage ==
    \A f, g \in {h \in frames : h.kind = "completed" /\ ~AnswerLost(h)} :
        f.ev = g.ev => f = g

\* A fragment that reached the phone survives the PC: the file had it when it
\* was last whole, or its response was abandoned and can never be completed.
FragmentsSurvive ==
    \A f \in frames : f.kind = "chunk" =>
        LET r == disk[f.ev]
        IN  r.rid = f.rid => f.seq <= r.n

\* The terminal frame closes the response: no fragment follows it, not even
\* from a producer whose lease has run out.
NothingAfterTerminal ==
    [][\A f \in frames' \ frames :
          f.kind = "chunk" =>
            ~\E g \in frames : g.rid = f.rid /\ g.kind = "failed"]_streamVars
=============================================================================
