-------------------------- MODULE MCRunOrchestrator --------------------------
(* Small instances of RunOrchestrator. *)
EXTENDS RunOrchestrator

MCMaxCycles == [plan |-> 1, code |-> 1]
(* One answer: it passes the gate of a round that raised the finding, and no other. *)
MCAnswers == {sub \in Submission : \A i \in FindingIds :
                sub[i] = <<"accepted">>}
MCFreeRetries == [k \in RetryKind |-> 1]

=============================================================================
