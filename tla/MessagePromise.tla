---------------------------- MODULE MessagePromise ----------------------------
(***************************************************************************)
(* What the phone gateway and the PC promise together about the owner's    *)
(* messages, without the mechanism (commands, receipts, ledger, retries):  *)
(* the phone lets go of a message only when the PC has it and, if it calls *)
(* for an answer, when that answer was given or given up; an answer is     *)
(* chosen once, and nothing else is ever said.                             *)
(***************************************************************************)
CONSTANTS Messages, Questions, Texts, NoText

VARIABLES
    kept,       \* messages the PC has stored
    reply,      \* the answer chosen for each question
    said,       \* what the owner was told for each question
    outcome,    \* "open", "answered" or "given_up"
    released    \* messages the phone no longer offers

vars == <<kept, reply, said, outcome, released>>

Init ==
    /\ kept = {} /\ released = {}
    /\ reply = [m \in Questions |-> NoText]
    /\ said = [m \in Questions |-> {}]
    /\ outcome = [m \in Questions |-> "open"]

Keep(m) ==
    /\ kept' = kept \cup {m}
    /\ UNCHANGED <<reply, said, outcome, released>>

Choose(m) ==
    /\ m \in kept /\ reply[m] = NoText /\ outcome[m] = "open"
    /\ \E t \in Texts : reply' = [reply EXCEPT ![m] = t]
    /\ UNCHANGED <<kept, said, outcome, released>>

\* Possibly again, and possibly after the PC has given up.
Say(m) ==
    /\ reply[m] # NoText
    /\ said' = [said EXCEPT ![m] = @ \cup {reply[m]}]
    /\ UNCHANGED <<kept, reply, outcome, released>>

Settle(m) ==
    /\ m \in kept /\ outcome[m] = "open"
    /\ \/ said[m] # {} /\ outcome' = [outcome EXCEPT ![m] = "answered"]
       \/ outcome' = [outcome EXCEPT ![m] = "given_up"]
    /\ UNCHANGED <<kept, reply, said, released>>

Release ==
    /\ \E S \in SUBSET kept :
          /\ \A m \in S \cap Questions : outcome[m] # "open"
          /\ released' = released \cup S
    /\ UNCHANGED <<kept, reply, said, outcome>>

Next ==
    \/ \E m \in Messages : Keep(m)
    \/ \E m \in Questions : Choose(m) \/ Say(m) \/ Settle(m)
    \/ Release

Spec == Init /\ [][Next]_vars

-----------------------------------------------------------------------------
\* message-delivery-ledger.mjs and the rows of the phone's gateway, together:
\* what was said to a question is the one answer chosen for it, a question
\* that counts as answered was told it, and the phone has let go only of what
\* the PC keeps and has settled.
Honoured ==
    /\ \A m \in Questions :
          /\ said[m] # {} => reply[m] # NoText /\ said[m] = {reply[m]}
          /\ outcome[m] = "answered" => said[m] # {}
          /\ m \in released => outcome[m] # "open"
    /\ released \subseteq kept

\* The ledger outlives the process and the phone's rows are only ever marked:
\* nothing is taken back, neither an answer chosen, nor how a question was
\* settled, nor what was kept, said or released.
Irrevocable ==
    [][/\ \A m \in Questions :
             /\ reply[m] # NoText => reply'[m] = reply[m]
             /\ outcome[m] # "open" => outcome'[m] = outcome[m]
             /\ said[m] \subseteq said'[m]
       /\ kept \subseteq kept' /\ released \subseteq released']_vars
=============================================================================
