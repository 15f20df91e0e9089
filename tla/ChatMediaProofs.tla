---------------------------- MODULE ChatMediaProofs ----------------------------
(***************************************************************************)
(* Theorems about ChatMedia, for every number of chunks and every bound on *)
(* the link and on the faults.                                             *)
(***************************************************************************)
EXTENDS ChatMedia, TLAPS

\* What the call at work has reached of the medium.
WorkInv ==
    /\ work.pc = "idle" => work = Idle
    /\ work.pc \in {"saving", "perceiving"} => ~done
    /\ work.pc \in {"perceiving", "flushing"} => stored # "none"

\* An entry that is not open holds nothing.
PendingInv == ~pending.open => pending = Closed

\* The perceptions there were and those still to come: each call at work
\* whose lease ran out brings one, and so does the end that is not known.
ToCome == orphans.saving + orphans.perceiving + (IF done THEN 0 ELSE 1)
TallyInv == perceived + ToCome <= 1 + again

\* Each orphan was left by a fault, and each end lost by another.
OrphansInv == orphans.saving + orphans.perceiving <= again /\ again <= faults

\* The document of a call that is not answered yet is in the relay, its
\* listener has handed it over, and no other call brought it.
CallersInv ==
    /\ \A c \in joined : c.path = "relay" => c.part \in docs \ fresh
    /\ work.pc # "idle" /\ work.path = "relay" =>
          /\ work.part \in docs \ fresh
          /\ \A c \in joined : c.path = "relay" => c.part # work.part

MInv == TypeOK /\ WorkInv /\ PendingInv /\ CallersInv /\ TallyInv /\ OrphansInv

Entry == [open : BOOLEAN, got : SUBSET Chunks]
Work == [pc : {"idle", "saving", "perceiving", "flushing"}, path : Paths, part : Parts]

\* The state is of its types before the step, and the numbers are numbers.
LEMMA Numbers ==
    ASSUME MInv
    PROVE  /\ MaxFaults \in Nat /\ LastChunk \in Nat \ {0}
           /\ perceived \in Nat /\ again \in Nat /\ faults \in Nat
           /\ orphans.saving \in Nat /\ orphans.perceiving \in Nat
           /\ again <= faults /\ faults <= MaxFaults
           /\ orphans.saving + orphans.perceiving <= again
           /\ orphans = [saving |-> orphans.saving, perceiving |-> orphans.perceiving]
<1>1. MaxFaults \in Nat /\ LastChunk \in Nat \ {0}
  BY MediaAssumption
<1>2. /\ orphans \in [saving : 0..MaxFaults, perceiving : 0..MaxFaults]
      /\ perceived \in Nat /\ again \in 0..MaxFaults /\ faults \in 0..MaxFaults
  BY DEF MInv, TypeOK
<1> QED
  BY <1>1, <1>2 DEF MInv, OrphansInv

\* The counters fit their bounds.
LEMMA OrphansTyped ==
    ASSUME MaxFaults \in Nat, NEW s \in Nat, NEW p \in Nat, NEW a \in Nat, NEW f \in Nat,
           s + p <= a, a <= f, f <= MaxFaults
    PROVE  /\ [saving |-> s, perceiving |-> p] \in [saving : 0..MaxFaults, perceiving : 0..MaxFaults]
           /\ a \in 0..MaxFaults /\ f \in 0..MaxFaults
  OBVIOUS

\* The parts accepted are parts.
LEMMA AcceptTyped ==
    ASSUME acked \subseteq Parts, failed \subseteq Parts, docs \subseteq Parts,
           NEW callers, \A c \in callers : c.part \in Parts, Accept(callers)
    PROVE  /\ acked' \subseteq Parts /\ failed' \subseteq Parts /\ docs' \subseteq docs
           /\ acked \subseteq acked'
           /\ \A p \in acked' : p \in acked \/ \E c \in callers : p = c.part
  BY DEF Accept

\* One part is accepted, from the socket or from the relay.
LEMMA AcceptOne ==
    ASSUME NEW path, NEW p, Accept({Caller(path, p)})
    PROVE  /\ acked' = acked \/ acked' = acked \cup {p}
           /\ failed' \subseteq failed
           /\ docs' = docs \/ (path = "relay" /\ docs' = docs \ {p})
<1>1. PICK x : x = Caller(path, p)
  OBVIOUS
<1>2. x.path = path /\ x.part = p
  BY <1>1 DEF Caller
<1>3. ASSUME NEW at
      PROVE  {c.part : c \in {d \in {x} : d.path = at}} = IF path = at THEN {p} ELSE {}
  BY <1>2
<1>4. /\ acked' \in {acked, acked \cup (IF path = "direct" THEN {p} ELSE {})}
      /\ failed' \subseteq failed
      /\ docs' \in {docs, docs \ (IF path = "relay" THEN {p} ELSE {})}
  BY <1>1, <1>3 DEF Accept
<1> QED
  BY <1>4

\* What a part that comes leaves of the link.
LEMMA ComesTyped ==
    ASSUME TypeOK, NEW path \in Paths, NEW p, Comes(path, p)
    PROVE  p \in Parts /\ wire' \subseteq Parts /\ fresh' \subseteq fresh
  BY DEF Comes, TypeOK

(***************************************************************************)
(* The steps of the phone and of the link.                                 *)
(***************************************************************************)
LEMMA LinkStep ==
    ASSUME MInv,
           \/ \E p \in Parts : SendDirect(p) \/ SendRelay(p) \/ markWaiting(p)
           \/ LinkDown \/ retryFailedMessage
    PROVE  MInv'
<1>1. UNCHANGED <<acked, pending, ledger, stored, history, faults>>
  BY DEF SendDirect, SendRelay, markWaiting, LinkDown, retryFailedMessage, phone
<1>2. /\ failed' \subseteq Parts
      /\ wire' \subseteq Parts /\ docs \subseteq docs' /\ docs' \subseteq Parts /\ fresh' \subseteq docs'
      /\ docs \ fresh \subseteq docs' \ fresh'
  BY DEF SendDirect, SendRelay, markWaiting, LinkDown, retryFailedMessage, MInv, TypeOK, Queued,
         phone, link
<1>3. TypeOK'
  BY <1>1, <1>2 DEF MInv, TypeOK, ledger, history
<1>4. CallersInv'
  BY <1>1, <1>2 DEF MInv, CallersInv, ledger
<1>5. WorkInv' /\ PendingInv' /\ TallyInv' /\ OrphansInv'
  BY <1>1 DEF MInv, WorkInv, PendingInv, TallyInv, ToCome, OrphansInv, ledger, history
<1> QED
  BY <1>3, <1>4, <1>5 DEF MInv

(***************************************************************************)
(* handleMedia.                                                            *)
(***************************************************************************)
\* A part that comes and leaves the ledger: what it may do to the link and
\* to the entry.
LEMMA PartStep ==
    ASSUME MInv, NEW path \in Paths, NEW p, Comes(path, p),
           UNCHANGED <<ledger, stored, history, faults>>,
           Accept({Caller(path, p)}) \/ Refuse,
           pending' \in Entry, pending'.got # Chunks, PendingInv'
    PROVE  MInv'
<1>1. p \in Parts /\ wire' \subseteq Parts /\ fresh' \subseteq fresh
  BY ComesTyped DEF MInv
<1>2. /\ acked' \subseteq Parts /\ failed' \subseteq Parts
      /\ docs' \subseteq docs /\ docs' \subseteq Parts
      /\ docs' = docs \/ (path = "relay" /\ docs' = docs \ {p})
  <2>1. /\ acked' = acked \/ acked' = acked \cup {p}
        /\ failed' \subseteq failed
        /\ docs' = docs \/ (path = "relay" /\ docs' = docs \ {p})
    BY AcceptOne DEF Refuse, phone
  <2> QED
    BY <1>1, <2>1 DEF MInv, TypeOK
<1>3. path = "relay" => p \in fresh /\ p \notin fresh'
  BY DEF Comes
<1>4. fresh' \subseteq docs' /\ docs \ fresh \subseteq docs' \ fresh'
  BY <1>1, <1>2, <1>3 DEF MInv, TypeOK
<1>5. TypeOK'
  BY <1>1, <1>2, <1>4 DEF MInv, TypeOK, Entry, ledger, history
<1>6. CallersInv'
  BY <1>4 DEF MInv, CallersInv, ledger
<1>7. WorkInv' /\ TallyInv' /\ OrphansInv'
  BY DEF MInv, WorkInv, TallyInv, ToCome, OrphansInv, ledger, history
<1> QED
  BY <1>5, <1>6, <1>7 DEF MInv

\* There is at least one chunk to wait for.
LEMMA OpenedTyped == Opened \in Entry /\ Closed \in Entry /\ Opened.got # Chunks /\ Closed.got # Chunks
<1>1. 1 \in Chunks
  BY MediaAssumption DEF Chunks
<1> QED
  BY <1>1 DEF Opened, Closed, Entry

\* A frame of a transfer, on any path, keeps the invariant.
LEMMA ReceiveStep ==
    ASSUME MInv, NEW path \in Paths,
           begin(path) \/ (\E p \in Chunks : addChunk(path, p) \/ unknownMedium(path, p))
    PROVE  MInv'
<1>0. pending \in Entry /\ pending.got # Chunks
  BY DEF MInv, TypeOK, Entry
<1>1. CASE begin(path)
  <2>1. pending' \in Entry /\ pending'.got # Chunks /\ PendingInv'
    BY <1>0, <1>1, OpenedTyped DEF begin, PendingInv, Opened
  <2> QED
    BY <1>1, <2>1, PartStep DEF begin
<1>2. ASSUME NEW p \in Chunks, addChunk(path, p) PROVE MInv'
  <2>1. /\ pending'.open /\ pending'.got = pending.got \cup {p} /\ pending' \in Entry
        /\ pending'.got # Chunks
    BY <1>0, <1>2 DEF addChunk, Entry
  <2>2. PendingInv'
    BY <2>1 DEF PendingInv
  <2> QED
    BY <1>2, <2>1, <2>2, PartStep DEF addChunk
<1>3. ASSUME NEW p \in Chunks, unknownMedium(path, p) PROVE MInv'
  <2>1. UNCHANGED pending /\ PendingInv'
    BY <1>3 DEF unknownMedium, MInv, PendingInv
  <2> QED
    BY <1>0, <1>3, <2>1, PartStep DEF unknownMedium
<1> QED
  BY <1>1, <1>2, <1>3

\* The medium is whole, and nobody has its end yet, or shares it.
LEMMA FinalizeStep ==
    ASSUME MInv, NEW path \in Paths, NEW p \in Chunks, finalize(path, p) PROVE MInv'
<1>1. /\ Comes(path, p) /\ pending' = Closed
      /\ UNCHANGED <<orphans, done, saved, stored, history, faults>>
  BY DEF finalize
<1>2. /\ p \in Parts /\ wire' \subseteq Parts /\ fresh' \subseteq fresh /\ PendingInv'
      /\ path = "relay" => p \in fresh /\ p \notin fresh'
  BY <1>1, ComesTyped DEF Comes, MInv, PendingInv
<1>3. pending' \in Entry /\ pending'.got # Chunks
  BY <1>1, OpenedTyped
<1>4. CASE Accept({Caller(path, p)}) /\ UNCHANGED <<work, joined>>
  BY <1>1, <1>2, <1>3, <1>4, PartStep DEF ledger
<1>5. CASE ~done /\ work = Idle /\ Refuse /\ UNCHANGED joined
           /\ work' = [pc |-> "saving", path |-> path, part |-> p]
  <2>1. joined = {} /\ UNCHANGED <<acked, failed, docs>>
    BY <1>5 DEF MInv, TypeOK, Idle, Refuse, phone
  <2>2. work' \in Work /\ work'.pc = "saving" /\ work'.path = path /\ work'.part = p
    BY <1>2, <1>5 DEF Work
  <2>3. TypeOK'
    BY <1>1, <1>2, <1>3, <1>5, <2>1, <2>2 DEF MInv, TypeOK, Entry, Work, history
  <2>4. WorkInv' /\ CallersInv'
    BY <1>1, <1>2, <1>5, <2>1, <2>2 DEF MInv, TypeOK, WorkInv, CallersInv
  <2>5. TallyInv' /\ OrphansInv'
    BY <1>1 DEF MInv, TallyInv, ToCome, OrphansInv, history
  <2> QED
    BY <1>2, <2>3, <2>4, <2>5 DEF MInv
<1>6. CASE /\ work.pc \in {"saving", "perceiving"} /\ Refuse /\ UNCHANGED work
           /\ joined' = joined \cup {Caller(path, p)}
  <2>1. UNCHANGED <<acked, failed, docs>>
    BY <1>6 DEF Refuse, phone
  <2>2. Caller(path, p) \in [path : Paths, part : Chunks]
        /\ Caller(path, p).path = path /\ Caller(path, p).part = p
    BY DEF Caller
  <2>3. TypeOK'
    BY <1>1, <1>2, <1>3, <1>6, <2>1, <2>2 DEF MInv, TypeOK, Entry, history
  <2>4. WorkInv'
    BY <1>1, <1>6 DEF MInv, WorkInv
  <2>5. CallersInv'
    BY <1>2, <1>6, <2>1, <2>2 DEF MInv, TypeOK, CallersInv
  <2>6. TallyInv' /\ OrphansInv'
    BY <1>1 DEF MInv, TallyInv, ToCome, OrphansInv, history
  <2> QED
    BY <1>2, <2>3, <2>4, <2>5, <2>6 DEF MInv
<1> QED
  BY <1>4, <1>5, <1>6 DEF finalize

(***************************************************************************)
(* The end of the medium.                                                  *)
(***************************************************************************)
LEMMA SavedStep == ASSUME MInv, Saved PROVE MInv'
<1>1. /\ work.pc = "saving" /\ stored' = "whole" /\ work' = [work EXCEPT !.pc = "perceiving"]
      /\ UNCHANGED <<acked, failed, wire, docs, fresh, pending, joined, orphans, done, saved,
                     perceived, again, faults>>
  BY DEF Saved, phone, link, history
<1>2. work \in Work
  BY DEF MInv, TypeOK, Work
<1>3. /\ work'.pc = "perceiving" /\ work'.path = work.path /\ work'.part = work.part
      /\ work' \in Work
  BY <1>1, <1>2 DEF Work
<1>4. TypeOK'
  BY <1>1, <1>3 DEF MInv, TypeOK, Work
<1>5. WorkInv' /\ PendingInv' /\ CallersInv'
  BY <1>1, <1>3 DEF MInv, WorkInv, PendingInv, CallersInv
<1>6. TallyInv' /\ OrphansInv'
  BY <1>1 DEF MInv, TallyInv, ToCome, OrphansInv
<1> QED
  BY <1>4, <1>5, <1>6 DEF MInv

\* The callers that shared the work are answered, and their documents go.
LEMMA PerceivedStep == ASSUME MInv, Perceived PROVE MInv'
<1>1. /\ work.pc = "perceiving" /\ perceived' = perceived + 1 /\ done' = TRUE
      /\ work' = [work EXCEPT !.pc = "flushing"] /\ joined' = {} /\ Accept(joined)
      /\ UNCHANGED <<wire, fresh, pending, orphans, saved, stored, again, faults>>
  BY DEF Perceived
<1>2. work \in Work
  BY DEF MInv, TypeOK, Work
<1>3. /\ work'.pc = "flushing" /\ work'.path = work.path /\ work'.part = work.part
      /\ work' \in Work
  BY <1>1, <1>2 DEF Work
<1>4. acked \subseteq Parts /\ failed \subseteq Parts /\ docs \subseteq Parts /\ \A c \in joined : c.part \in Parts
  BY DEF MInv, TypeOK, Parts, Chunks
<1>5. /\ acked' \subseteq Parts /\ failed' \subseteq Parts /\ docs' \subseteq docs
      /\ \A q \in docs : q \notin docs' => \E c \in joined : c.path = "relay" /\ c.part = q
  BY <1>1, <1>4 DEF Accept
<1>6. /\ fresh' \subseteq docs'
      /\ work.path = "relay" => work.part \in docs' \ fresh'
  BY <1>1, <1>5 DEF MInv, TypeOK, CallersInv
<1>7. TypeOK'
  BY <1>1, <1>3, <1>4, <1>5, <1>6, Numbers DEF MInv, TypeOK, WorkInv, Work
<1>8. WorkInv' /\ PendingInv' /\ CallersInv'
  BY <1>1, <1>3, <1>6 DEF MInv, WorkInv, PendingInv, CallersInv
<1>9. TallyInv' /\ OrphansInv'
  <2>1. ~done
    BY <1>1 DEF MInv, WorkInv
  <2> QED
    BY <1>1, <2>1, Numbers DEF MInv, TallyInv, ToCome, OrphansInv
<1> QED
  BY <1>7, <1>8, <1>9 DEF MInv

\* The end of a flush, whether or not the file was written, keeps it.
LEMMA FlushedStep == ASSUME MInv, Flushed PROVE MInv'
<1>1. /\ work.pc = "flushing" /\ saved' \in {saved, TRUE} /\ work' = Idle
      /\ Accept({Caller(work.path, work.part)})
      /\ UNCHANGED <<wire, fresh, pending, joined, orphans, done, stored, perceived, again, faults>>
  BY DEF Flushed, history
<1>2. /\ stored # "none" /\ joined = {} /\ work.part \in Parts
      /\ acked \subseteq Parts /\ failed \subseteq Parts /\ docs \subseteq Parts
  BY <1>1 DEF MInv, TypeOK, WorkInv
<1>3. /\ acked' = acked \/ acked' = acked \cup {work.part}
      /\ failed' \subseteq failed
      /\ docs' = docs \/ (work.path = "relay" /\ docs' = docs \ {work.part})
  BY <1>1, AcceptOne
<1>4. /\ acked' \subseteq Parts /\ failed' \subseteq Parts
      /\ docs' \subseteq Parts /\ fresh' \subseteq docs'
  BY <1>1, <1>2, <1>3 DEF MInv, TypeOK, CallersInv
<1>5. Idle \in Work /\ Idle.pc = "idle"
  BY MediaAssumption DEF Idle, Work, Paths, Parts
<1>6. TypeOK'
  BY <1>1, <1>2, <1>4, <1>5 DEF MInv, TypeOK, Work
<1>7. WorkInv' /\ PendingInv' /\ CallersInv'
  BY <1>1, <1>2, <1>5 DEF MInv, WorkInv, PendingInv, CallersInv
<1>8. TallyInv' /\ OrphansInv'
  BY <1>1 DEF MInv, TallyInv, ToCome, OrphansInv
<1> QED
  BY <1>6, <1>7, <1>8 DEF MInv

\* The work ends with a fault: nobody shares it any more.
LEMMA CutStep == ASSUME MInv, SaveFails \/ LeaseTimeout PROVE MInv'
<1>1. /\ work.pc \in {"saving", "perceiving"} /\ faults < MaxFaults /\ faults' = faults + 1
      /\ work' = Idle /\ joined' = {}
      /\ UNCHANGED <<acked, failed, wire, docs, fresh, pending, done, saved, stored, perceived>>
  BY DEF SaveFails, LeaseTimeout, phone, link, Fault, history
<1>2. Idle \in Work /\ Idle.pc = "idle"
  BY MediaAssumption DEF Idle, Work, Paths, Parts
<1>3. /\ MaxFaults \in Nat /\ perceived \in Nat /\ again \in Nat /\ faults \in Nat
      /\ orphans.saving \in Nat /\ orphans.perceiving \in Nat
      /\ again <= faults /\ orphans.saving + orphans.perceiving <= again
  BY Numbers
<1>4. PICK s : s = orphans.saving
  OBVIOUS
<1>5. PICK q : q = orphans.perceiving
  OBVIOUS
<1>6. \/ UNCHANGED <<orphans, again>>
      \/ again' = again + 1 /\ orphans' = [saving |-> s + 1, perceiving |-> q]
      \/ again' = again + 1 /\ orphans' = [saving |-> s, perceiving |-> q + 1]
  <2>1. CASE SaveFails
    BY <2>1 DEF SaveFails, history
  <2>2. CASE LeaseTimeout
    <3>1. again' = again + 1 /\ orphans' = [orphans EXCEPT ![work.pc] = @ + 1]
      BY <2>2 DEF LeaseTimeout
    <3>2. orphans \in [saving : Nat, perceiving : Nat]
      BY <1>3 DEF MInv, TypeOK
    <3>3. ASSUME work.pc = "saving" PROVE orphans' = [saving |-> s + 1, perceiving |-> q]
      <4>1. orphans' = [orphans EXCEPT !.saving = orphans.saving + 1]
        BY <3>1, <3>3
      <4>2. /\ orphans' \in [saving : Nat, perceiving : Nat]
            /\ orphans'.saving = s + 1 /\ orphans'.perceiving = q
        BY <1>4, <1>5, <3>2, <4>1
      <4> QED
        BY <4>2
    <3>4. ASSUME work.pc = "perceiving" PROVE orphans' = [saving |-> s, perceiving |-> q + 1]
      <4>1. orphans' = [orphans EXCEPT !.perceiving = orphans.perceiving + 1]
        BY <3>1, <3>4
      <4>2. /\ orphans' \in [saving : Nat, perceiving : Nat]
            /\ orphans'.saving = s /\ orphans'.perceiving = q + 1
        BY <1>4, <1>5, <3>2, <4>1
      <4> QED
        BY <4>2
    <3> QED
      BY <1>1, <3>1, <3>3, <3>4
  <2> QED
    BY <2>1, <2>2
<1>7. /\ orphans' \in [saving : 0..MaxFaults, perceiving : 0..MaxFaults]
      /\ again' \in 0..MaxFaults /\ faults' \in 0..MaxFaults
      /\ orphans'.saving + orphans'.perceiving <= again' /\ again' <= faults'
      /\ perceived' + orphans'.saving + orphans'.perceiving + again
           = perceived + orphans.saving + orphans.perceiving + again'
  <2>1. CASE UNCHANGED <<orphans, again>>
    BY <1>1, <1>3, <2>1 DEF MInv, TypeOK
  <2>2. CASE \E a \in Nat, b \in Nat : /\ a + b = s + q + 1 /\ again' = again + 1
                                      /\ orphans' = [saving |-> a, perceiving |-> b]
    <3>1. PICK a \in Nat, b \in Nat : /\ a + b = s + q + 1 /\ again' = again + 1
                                      /\ orphans' = [saving |-> a, perceiving |-> b]
      BY <2>2
    <3>2. again' \in Nat /\ faults' \in Nat /\ a + b <= again' /\ again' <= faults' /\ faults' <= MaxFaults
      BY <1>1, <1>3, <1>4, <1>5, <3>1
    <3>3. /\ orphans' \in [saving : 0..MaxFaults, perceiving : 0..MaxFaults]
          /\ again' \in 0..MaxFaults /\ faults' \in 0..MaxFaults
      BY <1>3, <3>1, <3>2, OrphansTyped
    <3>4. orphans'.saving = a /\ orphans'.perceiving = b
      BY <3>1
    <3>5. perceived' + a + b + again = perceived + s + q + again'
      BY <1>1, <1>3, <1>4, <1>5, <3>1
    <3> QED
      BY <1>4, <1>5, <3>2, <3>3, <3>4, <3>5
  <2>3. s \in Nat /\ q \in Nat /\ s + 1 \in Nat /\ q + 1 \in Nat
        /\ (s + 1) + q = s + q + 1 /\ s + (q + 1) = s + q + 1
    BY <1>3, <1>4, <1>5
  <2> QED
    BY <1>6, <2>1, <2>2, <2>3
<1>8. TypeOK'
  BY <1>1, <1>2, <1>7 DEF MInv, TypeOK, Work
<1>9. WorkInv' /\ PendingInv' /\ CallersInv'
  BY <1>1, <1>2 DEF MInv, WorkInv, PendingInv, CallersInv
<1>10. TallyInv' /\ OrphansInv'
  <2>1. orphans'.saving \in Nat /\ orphans'.perceiving \in Nat /\ again' \in Nat
    BY <1>3, <1>7
  <2> QED
    BY <1>1, <1>3, <1>7, <2>1 DEF MInv, TallyInv, ToCome, OrphansInv
<1> QED
  BY <1>8, <1>9, <1>10 DEF MInv

\* The work of a lease that ran out goes on.
LEMMA LateStep == ASSUME MInv, LateSaved \/ LateSaveFails \/ LatePerceived PROVE MInv'
<1>1. /\ MaxFaults \in Nat /\ perceived \in Nat /\ again \in Nat /\ faults \in Nat
      /\ orphans.saving \in Nat /\ orphans.perceiving \in Nat
      /\ again <= faults /\ faults <= MaxFaults
      /\ orphans.saving + orphans.perceiving <= again
  BY Numbers
<1>2. PICK s : s = orphans.saving
  OBVIOUS
<1>3. PICK q : q = orphans.perceiving
  OBVIOUS
<1>4. /\ UNCHANGED <<acked, failed, wire, docs, fresh, pending, work, joined, done, saved, again, faults>>
      /\ stored' \in {"none", "whole", "wiped"} /\ (stored # "none" => stored' # "none")
  BY DEF LateSaved, LateSaveFails, LatePerceived, phone, link, history, MInv, TypeOK
<1>5. \/ /\ perceived' = perceived /\ s > 0
         /\ orphans' = [saving |-> s - 1, perceiving |-> q + 1]
      \/ /\ perceived' = perceived /\ s > 0
         /\ orphans' = [saving |-> s - 1, perceiving |-> q]
      \/ /\ perceived' = perceived + 1 /\ q > 0
         /\ orphans' = [saving |-> s, perceiving |-> q - 1]
  <2>1. CASE LateSaved
    BY <1>2, <1>3, <2>1 DEF LateSaved, history
  <2>2. CASE LatePerceived
    <3>1. /\ perceived' = perceived + 1 /\ q > 0
          /\ orphans' = [orphans EXCEPT !.perceiving = orphans.perceiving - 1]
      BY <1>3, <2>2 DEF LatePerceived
    <3>2. orphans \in [saving : Nat, perceiving : Nat]
      BY <1>1 DEF MInv, TypeOK
    <3>3. /\ orphans' \in [saving : Int, perceiving : Int]
          /\ orphans'.saving = s /\ orphans'.perceiving = q - 1
      BY <1>2, <1>3, <3>1, <3>2
    <3> QED
      BY <3>1, <3>3
  <2>3. CASE LateSaveFails
    <3>1. /\ perceived' = perceived /\ s > 0
          /\ orphans' = [orphans EXCEPT !.saving = orphans.saving - 1]
      BY <1>2, <2>3 DEF LateSaveFails, history
    <3>2. orphans \in [saving : Nat, perceiving : Nat]
      BY <1>1 DEF MInv, TypeOK
    <3>3. /\ orphans' \in [saving : Int, perceiving : Int]
          /\ orphans'.saving = s - 1 /\ orphans'.perceiving = q
      BY <1>2, <1>3, <3>1, <3>2
    <3> QED
      BY <3>1, <3>3
  <2> QED
    BY <2>1, <2>2, <2>3
<1>6. PICK a \in Nat, b \in Nat, m \in Nat :
         /\ orphans' = [saving |-> a, perceiving |-> b] /\ perceived' = m
         /\ a + b <= s + q /\ m + a + b <= perceived + s + q
  <2>1. CASE perceived' = perceived /\ s > 0 /\ orphans' = [saving |-> s - 1, perceiving |-> q + 1]
    <3>1. s - 1 \in Nat /\ q + 1 \in Nat /\ (s - 1) + (q + 1) = s + q
      BY <1>1, <1>2, <1>3, <2>1
    <3>2. perceived + (s - 1) + (q + 1) <= perceived + s + q /\ perceived \in Nat
      BY <1>1, <1>2, <1>3
    <3>3. PICK x \in Nat, y \in Nat : x = s - 1 /\ y = q + 1
      BY <3>1
    <3>4. /\ orphans' = [saving |-> x, perceiving |-> y] /\ perceived' = perceived
          /\ x + y <= s + q /\ perceived + x + y <= perceived + s + q
      BY <1>1, <1>2, <1>3, <2>1, <3>1, <3>2, <3>3
    <3> QED
      BY <3>2, <3>4
  <2>2. CASE perceived' = perceived + 1 /\ q > 0 /\ orphans' = [saving |-> s, perceiving |-> q - 1]
    <3>1. s \in Nat /\ q - 1 \in Nat /\ s + (q - 1) <= s + q /\ perceived + 1 \in Nat
      BY <1>1, <1>2, <1>3, <2>2
    <3>2. (perceived + 1) + s + (q - 1) = perceived + s + q
      BY <1>1, <1>2, <1>3
    <3> QED
      BY <2>2, <3>1, <3>2
  <2>3. CASE perceived' = perceived /\ s > 0 /\ orphans' = [saving |-> s - 1, perceiving |-> q]
    <3>1. s - 1 \in Nat /\ q \in Nat /\ (s - 1) + q <= s + q
      BY <1>1, <1>2, <1>3, <2>3
    <3>2. perceived + (s - 1) + q <= perceived + s + q /\ perceived \in Nat
      BY <1>1, <1>2, <1>3
    <3>3. PICK x \in Nat : x = s - 1
      BY <3>1
    <3>4. /\ orphans' = [saving |-> x, perceiving |-> q] /\ perceived' = perceived
          /\ x + q <= s + q /\ perceived + x + q <= perceived + s + q
      BY <2>3, <3>1, <3>2, <3>3
    <3> QED
      BY <3>1, <3>2, <3>4
  <2> QED
    BY <1>5, <2>1, <2>2, <2>3
<1>7. a + b <= again
  BY <1>1, <1>2, <1>3, <1>6
<1>8. orphans' \in [saving : 0..MaxFaults, perceiving : 0..MaxFaults]
  BY <1>1, <1>6, <1>7, OrphansTyped
<1>9. orphans'.saving = a /\ orphans'.perceiving = b
  BY <1>6
<1>10. TypeOK'
  BY <1>4, <1>6, <1>8 DEF MInv, TypeOK
<1>11. WorkInv' /\ PendingInv' /\ CallersInv'
  BY <1>4 DEF MInv, WorkInv, PendingInv, CallersInv
<1>12. OrphansInv'
  BY <1>1, <1>4, <1>7, <1>9 DEF OrphansInv
<1>13. TallyInv'
  <2>1. PICK e \in {0, 1} : e = (IF done THEN 0 ELSE 1)
    OBVIOUS
  <2>2. perceived + (s + q + e) <= 1 + again
    BY <1>2, <1>3, <2>1 DEF MInv, TallyInv, ToCome
  <2>3. m + (a + b + e) <= 1 + again
    BY <1>1, <1>2, <1>3, <1>6, <2>2
  <2> QED
    BY <1>4, <1>6, <1>9, <2>1, <2>3 DEF TallyInv, ToCome
<1> QED
  BY <1>10, <1>11, <1>12, <1>13 DEF MInv

\* An entry too old, an end evicted, and the end of the process.
LEMMA FaultStep == ASSUME MInv, purgeExpired \/ trim \/ Restart PROVE MInv'
<1>1. /\ MaxFaults \in Nat /\ perceived \in Nat /\ again \in Nat /\ faults \in Nat
      /\ orphans.saving \in Nat /\ orphans.perceiving \in Nat
      /\ again <= faults /\ faults < MaxFaults /\ faults' = faults + 1
      /\ orphans.saving + orphans.perceiving <= again
      /\ UNCHANGED <<acked, failed, docs, stored, perceived>>
  BY Numbers DEF purgeExpired, trim, Restart, Fault, phone, link, ledger, history
<1>2. ASSUME pending' = Closed PROVE pending' \in Entry /\ pending'.got # Chunks /\ PendingInv'
  BY <1>2, OpenedTyped DEF PendingInv
<1>3. faults' \in 0..MaxFaults
  BY <1>1
<1>4. CASE purgeExpired
  <2>1. pending' = Closed /\ UNCHANGED <<wire, fresh, work, joined, orphans, done, saved, again>>
    BY <1>4 DEF purgeExpired, link, ledger, history
  <2>2. TypeOK'
    BY <1>1, <1>2, <1>3, <2>1 DEF MInv, TypeOK, Entry
  <2>3. WorkInv' /\ CallersInv' /\ TallyInv'
    BY <1>1, <2>1 DEF MInv, WorkInv, CallersInv, TallyInv, ToCome
  <2>4. OrphansInv'
    BY <1>1, <2>1 DEF OrphansInv
  <2> QED
    BY <1>2, <2>1, <2>2, <2>3, <2>4 DEF MInv
<1>6. CASE trim
  <2>1. /\ done /\ done' = FALSE /\ saved' \in {saved, FALSE} /\ again' = again + 1
        /\ UNCHANGED <<wire, fresh, pending, work, joined, orphans>>
    BY <1>6 DEF trim, link
  <2>2. again' \in 0..MaxFaults /\ again' <= faults'
    BY <1>1, <2>1
  <2>3. TypeOK'
    BY <1>1, <1>3, <2>1, <2>2 DEF MInv, TypeOK
  <2>4. WorkInv' /\ PendingInv' /\ CallersInv'
    BY <1>1, <2>1 DEF MInv, WorkInv, PendingInv, CallersInv
  <2>5. TallyInv' /\ OrphansInv'
    BY <1>1, <2>1 DEF MInv, TallyInv, ToCome, OrphansInv
  <2> QED
    BY <2>3, <2>4, <2>5 DEF MInv
<1>5. CASE Restart
  <2>0. /\ work' = Idle /\ joined' = {} /\ wire' = {} /\ fresh' = docs /\ pending' = Closed
        /\ orphans' = [saving |-> 0, perceiving |-> 0]
    BY <1>5 DEF Restart
  <2>1. /\ saved' \in {saved, FALSE} /\ done' = saved'
        /\ again' = IF saved' THEN again ELSE again + 1
    BY <1>5 DEF Restart
  <2>2. /\ Idle \in Work /\ Idle.pc = "idle"
        /\ done' \in BOOLEAN /\ saved' \in BOOLEAN /\ (done' \/ saved' => stored' # "none")
    <3>1. Idle \in Work /\ Idle.pc = "idle"
      BY MediaAssumption DEF Idle, Work, Paths, Parts
    <3>2. saved \in BOOLEAN /\ (saved => stored' # "none")
      BY <1>1 DEF MInv, TypeOK
    <3>3. (saved' = saved) \/ (saved' = FALSE)
      BY <2>1
    <3>4. CASE saved' = saved
      BY <2>1, <3>1, <3>2, <3>4, Zenon
    <3>5. CASE saved' = FALSE
      BY <2>1, <3>1, <3>5, Zenon
    <3> QED
      BY <3>3, <3>4, <3>5
  <2>3. again' \in 0..MaxFaults /\ again' <= faults' /\ again' \in Nat /\ faults' \in Nat
    BY <1>1, <2>1
  <2>4. orphans' \in [saving : 0..MaxFaults, perceiving : 0..MaxFaults]
        /\ orphans'.saving = 0 /\ orphans'.perceiving = 0
    BY <1>1, <2>0
  <2>5. TypeOK'
    BY <1>1, <1>2, <1>3, <2>0, <2>1, <2>2, <2>3, <2>4 DEF MInv, TypeOK, Entry, Work
  <2>6. WorkInv' /\ CallersInv'
    BY <2>0, <2>2 DEF WorkInv, CallersInv
  <2>7. OrphansInv'
    BY <2>3, <2>4 DEF OrphansInv
  <2>8. TallyInv'
    <3>1. perceived <= 1 + again
      BY <1>1 DEF MInv, TallyInv, ToCome
    <3>2. IF saved' THEN perceived + 0 <= 1 + again ELSE perceived + 1 <= 1 + (again + 1)
      BY <1>1, <3>1
    <3> QED
      BY <1>1, <2>1, <2>4, <3>2 DEF TallyInv, ToCome
  <2> QED
    BY <1>2, <2>0, <2>5, <2>6, <2>7, <2>8 DEF MInv
<1> QED
  BY <1>4, <1>5, <1>6

(***************************************************************************)
(* The theorems.                                                           *)
(***************************************************************************)
LEMMA InitMInv == Init => MInv
<1> SUFFICES ASSUME Init PROVE MInv
  OBVIOUS
<1>1. MaxFaults \in Nat /\ 1 \in Chunks /\ 0 \in Parts
  BY MediaAssumption DEF Chunks, Parts
<1>2. pending \in Entry /\ pending.got # Chunks
  BY OpenedTyped DEF Init
<1>3. work \in Work
  BY <1>1 DEF Init, Idle, Work, Paths
<1>4. orphans \in [saving : 0..MaxFaults, perceiving : 0..MaxFaults]
  BY <1>1 DEF Init
<1>5. TypeOK
  BY <1>1, <1>2, <1>3, <1>4 DEF Init, TypeOK, Entry, Work
<1>6. WorkInv /\ PendingInv /\ CallersInv /\ TallyInv /\ OrphansInv
  BY DEF Init, WorkInv, PendingInv, CallersInv, TallyInv, ToCome, OrphansInv, Idle
<1> QED
  BY <1>5, <1>6 DEF MInv

\* The invariant is inductive.
LEMMA NextMInv == MInv /\ [Next]_vars => MInv'
<1> SUFFICES ASSUME MInv, [Next]_vars PROVE MInv'
  OBVIOUS
<1>1. CASE UNCHANGED vars
  BY <1>1 DEF vars, phone, link, ledger, history, MInv, TypeOK, WorkInv, PendingInv, CallersInv, TallyInv,
              ToCome, OrphansInv
<1>2. CASE \/ \E p \in Parts : SendDirect(p) \/ SendRelay(p) \/ markWaiting(p)
           \/ LinkDown \/ retryFailedMessage
  BY <1>2, LinkStep
<1>3. ASSUME NEW path \in Paths, handleMedia(path) PROVE MInv'
  BY <1>3, ReceiveStep, FinalizeStep DEF handleMedia
<1>4. CASE Finish
  BY <1>4, SavedStep, PerceivedStep, FlushedStep, LateStep DEF Finish
<1>5. CASE SaveFails \/ LeaseTimeout \/ purgeExpired \/ trim \/ Restart
  BY <1>5, CutStep, FaultStep
<1> QED
  BY <1>1, <1>2, <1>3, <1>4, <1>5 DEF Next

\* It holds of every state.
LEMMA AlwaysMInv == Spec => []MInv
  BY InitMInv, NextMInv, PTL DEF Spec

\* Every variable keeps its type: the calls that share a work have one to
\* share, and a file was stored for each end the ledger knows.
THEOREM Typed == Spec => []TypeOK
<1>1. MInv => TypeOK
  BY DEF MInv
<1> QED
  BY <1>1, AlwaysMInv, PTL

\* chat-media-handler.mjs: whatever comes twice, in any order and over two
\* paths, a medium is perceived once, and once more for each lease that ran
\* out, each eviction and each restart whose ledger file did not have its end,
\* a crash during an in-place save included.  No hypothesis is needed.
THEOREM PerceivedOnceAlways == Spec => []PerceivedOnce
<1>1. MInv => PerceivedOnce
  <2> SUFFICES ASSUME MInv PROVE perceived <= 1 + again
    BY DEF PerceivedOnce
  <2>1. /\ perceived \in Nat /\ again \in Nat
        /\ orphans.saving \in Nat /\ orphans.perceiving \in Nat
    BY Numbers
  <2> QED
    BY <2>1 DEF MInv, TallyInv, ToCome
<1> QED
  BY <1>1, AlwaysMInv, PTL

\* A step that is no fault loses nothing of what the phone is rid of.
LEMMA NothingLost ==
    ASSUME MInv, [Next]_vars, ~Forgotten, UNCHANGED faults, stored' # "wiped", NEW p \in acked'
    PROVE  Has(p)'
<1>1. acked \subseteq Parts /\ faults \in Nat
  BY Numbers DEF MInv, TypeOK
<1>2. \A q \in acked : Has(q)
  BY DEF Forgotten
<1>3. ~Fault
  BY <1>1 DEF Fault
<1>4. ASSUME stored' = "whole" \/ work'.pc = "saving" PROVE Has(p)'
  BY <1>4 DEF Has
<1>5. CASE UNCHANGED <<acked, pending, work, stored>>
  BY <1>2, <1>5 DEF Has
<1>6. CASE \/ \E q \in Parts : SendDirect(q) \/ SendRelay(q) \/ markWaiting(q)
           \/ LinkDown \/ retryFailedMessage
  BY <1>5, <1>6 DEF SendDirect, SendRelay, markWaiting, LinkDown, retryFailedMessage, ledger, phone
<1>7. ASSUME NEW path \in Paths, begin(path) PROVE Has(p)'
  <2>1. /\ p \in acked \/ p = 0
        /\ pending' = IF pending.open THEN pending ELSE Opened
        /\ UNCHANGED <<work, stored>>
    BY <1>7, AcceptOne DEF begin, ledger
  <2>2. CASE p = 0
    BY <2>1, <2>2 DEF Has, Opened
  <2>3. CASE p \in acked
    BY <1>2, <2>1, <2>2, <2>3 DEF Has, MInv, PendingInv, Closed
  <2> QED
    BY <2>1, <2>2, <2>3
<1>8. ASSUME NEW path \in Paths, NEW c \in Chunks, addChunk(path, c) PROVE Has(p)'
  <2>1. /\ p \in acked \/ p = c
        /\ pending' = [pending EXCEPT !.got = @ \cup {c}] /\ pending.open
        /\ UNCHANGED <<work, stored>>
    BY <1>8, AcceptOne DEF addChunk, ledger
  <2>2. pending'.open /\ pending'.got = pending.got \cup {c}
    BY <2>1 DEF MInv, TypeOK
  <2>3. c # 0
    BY DEF Chunks
  <2> QED
    BY <1>2, <2>1, <2>2, <2>3 DEF Has
<1>9. ASSUME NEW path \in Paths, NEW c \in Chunks, unknownMedium(path, c) PROVE Has(p)'
  BY <1>5, <1>9 DEF unknownMedium, Refuse, phone, ledger
<1>10. ASSUME NEW path \in Paths, NEW c \in Chunks, finalize(path, c) PROVE Has(p)'
  <2>1. CASE done \/ work.pc = "flushing"
    <3>1. stored' \in {"whole", "wiped"}
      BY <1>10, <2>1 DEF finalize, MInv, TypeOK, WorkInv
    <3> QED
      BY <1>4, <3>1
  <2>2. CASE ~done /\ work = Idle
    BY <1>4, <1>10, <2>2 DEF finalize, Idle
  <2>3. CASE work.pc \in {"saving", "perceiving"}
    <3>1. UNCHANGED <<work, stored>>
      BY <1>10, <2>3 DEF finalize, MInv, WorkInv, Idle
    <3>2. work.pc = "saving" \/ stored \in {"whole", "wiped"}
      BY <2>3 DEF MInv, TypeOK, WorkInv
    <3> QED
      BY <1>4, <3>1, <3>2
  <2> QED
    BY <1>10, <2>1, <2>2, <2>3 DEF finalize
<1>11. CASE Saved \/ LateSaved
  BY <1>4, <1>11 DEF Saved, LateSaved
<1>12. CASE Perceived \/ Flushed
  <2>1. stored' \in {"whole", "wiped"}
    BY <1>12 DEF Perceived, Flushed, MInv, TypeOK, WorkInv
  <2> QED
    BY <1>4, <2>1
<1>13. CASE LateSaveFails \/ LatePerceived
  BY <1>5, <1>13 DEF LateSaveFails, LatePerceived, phone
<1>14. CASE SaveFails \/ LeaseTimeout \/ purgeExpired \/ trim \/ Restart
  BY <1>3, <1>14 DEF SaveFails, LeaseTimeout, purgeExpired, trim, Restart
<1>15. CASE UNCHANGED vars
  BY <1>5, <1>15 DEF vars, phone, ledger
<1> QED
  BY <1>6, <1>7, <1>8, <1>9, <1>10, <1>11, <1>12, <1>13, <1>14, <1>15 DEF Next, handleMedia, Finish

\* media-assembler.mjs: only a failure, a timeout, an expiry or a restart makes
\* the PC forget a part the phone is rid of, or wiped bytes over the file.
THEOREM OnlyFaultsForgetAlways == Spec => OnlyFaultsForget
<1>1. MInv /\ [Next]_vars => [Forgotten' => Forgotten \/ faults' # faults \/ stored' = "wiped"]_vars
  <2> SUFFICES ASSUME MInv, [Next]_vars, ~Forgotten, faults' = faults, stored' # "wiped"
               PROVE  ~Forgotten'
    OBVIOUS
  <2>1. \A p \in acked' : Has(p)'
    BY NothingLost
  <2> QED
    BY <2>1 DEF Forgotten
<1> QED
  BY <1>1, AlwaysMInv, PTL DEF Spec, OnlyFaultsForget
=============================================================================
