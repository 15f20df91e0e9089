---------------------------- MODULE MCChatOutbox ----------------------------
(* Instances of ChatOutbox for TLC.                                       *)
EXTENDS ChatOutbox

CONSTANTS m1, m2, loop, wake

(* What the next steps and the properties depend on, with one message: of  *)
(* a drain its rows while it goes through them, its verdict while it       *)
(* records, its count while it uses the relay; of the relay the documents  *)
(* the PC has not received.  "failures" is read by no step.                *)
Standing(d) ==
    LET r == drain[d]
    IN  IF r.pc = "row" /\ r.path # "relay" /\ ~More(d) THEN <<"done">>
        ELSE <<r.pc, r.path, r.due, r.next,
               IF r.pc \in {"state", "outbox"} THEN r.verdict ELSE "none",
               IF r.path = "relay" THEN r.sent ELSE 0>>

OneMessage ==
    <<event, [m \in Messages |-> <<row[m].attempts, row[m].due>>],
      online, wire, acks, acking, cloud \ received, received,
      [d \in Drainers |-> Standing(d)], retries, contested>>

WithoutFailures == <<phone, network, drain, acking, retries, contested>>
=============================================================================
