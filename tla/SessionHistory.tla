--------------------------- MODULE SessionHistory ---------------------------
(***************************************************************************)
(* What the engine promises about stored conversations, with no threads,   *)
(* flags or claims: a session's history grows only while a run on it is in *)
(* flight, and then by a whole turn (the user message and what was said in *)
(* answer to it), or not at all when the turn failed; only an idle session *)
(* is wiped or restored.                                                   *)
(***************************************************************************)
EXTENDS Naturals, Sequences

CONSTANTS Keys, Inputs, System, RestoredHistory,
          UserMsg(_), Reply(_), Note(_)

VARIABLES
    hist,    \* the stored history of each session
    busy,    \* sessions with a run in flight
    failed   \* sessions whose turn has failed and is about to be dropped

\* A user message, and the model's and the engine's messages on it.
IsTurn(s, i) ==
    /\ s # <<>> /\ s[1] = UserMsg(i)
    /\ \A n \in 2..Len(s) : s[n] \in {Reply(i), Note(i)}

Init == hist = [k \in Keys |-> <<>>] /\ busy = {} /\ failed = {}

\* A run on k is admitted, or returns.
Begin(k) == k \notin busy /\ busy' = busy \cup {k} /\ UNCHANGED <<hist, failed>>
End(k) ==
    /\ k \in busy \ failed
    /\ busy' = busy \ {k}
    /\ UNCHANGED <<hist, failed>>

\* The system prompt opens an empty history.
Open(k) ==
    /\ k \in busy \ failed /\ hist[k] = <<>>
    /\ hist' = [hist EXCEPT ![k] = <<System>>]
    /\ UNCHANGED <<busy, failed>>

\* A finished turn becomes history, whole ...
Commit(k) ==
    /\ k \in busy \ failed
    /\ LET turn == SubSeq(hist'[k], Len(hist[k]) + 1, Len(hist'[k]))
       IN  /\ \E i \in Inputs : IsTurn(turn, i)
           /\ hist' = [hist EXCEPT ![k] = @ \o turn]
    /\ UNCHANGED <<busy, failed>>

\* ... and a turn that failed leaves no trace in it.
Fail(k) == k \in busy /\ failed' = failed \cup {k} /\ UNCHANGED <<hist, busy>>
Discard(k) == k \in failed /\ failed' = failed \ {k} /\ UNCHANGED <<hist, busy>>

\* The host manages a session that is not running.
Wipe(k) ==
    /\ k \notin busy
    /\ hist' = [hist EXCEPT ![k] = <<>>]
    /\ UNCHANGED <<busy, failed>>
Restore(k) ==
    /\ k \notin busy
    /\ hist' = [hist EXCEPT ![k] = RestoredHistory]
    /\ UNCHANGED <<busy, failed>>

Next == \E k \in Keys :
           \/ Begin(k) \/ End(k) \/ Open(k) \/ Commit(k)
           \/ Fail(k) \/ Discard(k) \/ Wipe(k) \/ Restore(k)

Spec == Init /\ [][Next]_<<hist, busy, failed>>
=============================================================================
