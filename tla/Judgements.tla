----------------------------- MODULE Judgements -----------------------------
(* The four judgements that read evidence and change none of it, each over  *)
(* evidence that others change: what Verify says of a chain file, what the  *)
(* provenance check says of foreign packages, what `baseline diff` says of  *)
(* the packages and what correlation says of the surfaces.  They share no   *)
(* state: each behaviour is one of them at work.                            *)
EXTENDS ChainEdits, Upstream, Drift, Correlation

CONSTANT Parts   \* the judgements a run looks at

VARIABLE part

judgementVars == <<part, editVars, upstreamVars, driftVars, correlationVars>>

(* The others stay as any one scenario of theirs begins.                    *)
Init ==
    /\ part \in Parts
    /\ EditsInit /\ UpstreamInit /\ DriftInit /\ CorrelationInit
    /\ part # "upstream" => inquiry = (CHOOSE i \in Inquiries : TRUE).inquiry
                            /\ <<aur>> \o ahead = (CHOOSE i \in Inquiries : TRUE).aur
    /\ part # "drift" => session = CHOOSE s \in DriftSessions : TRUE
    /\ part # "correlation" => host = CHOOSE h \in Hosts : TRUE

Next ==
    /\ UNCHANGED part
    /\ \/ part = "edits" /\ EditsNext /\ UNCHANGED <<upstreamVars, driftVars, correlationVars>>
       \/ part = "upstream" /\ UpstreamNext /\ UNCHANGED <<editVars, driftVars, correlationVars>>
       \/ part = "drift" /\ DriftNext /\ UNCHANGED <<editVars, upstreamVars, correlationVars>>
       \/ part = "correlation" /\ CorrelationNext /\ UNCHANGED <<editVars, upstreamVars, driftVars>>

Spec == Init /\ [][Next]_judgementVars
=============================================================================
