----------------------------- MODULE RemoteCopy -----------------------------
(***************************************************************************)
(* What the corporate transport promises of the copy of each document on   *)
(* the NAS, without jobs, threads or targets.  A copy is wanted (queued),  *)
(* sent, stored; it is condemned only once it is stored, and removed only  *)
(* once condemned.  A transfer may be put back, fail or be abandoned; an   *)
(* abandoned copy is never sent again and a removed one never comes back.  *)
(***************************************************************************)
CONSTANT Docs

VARIABLE copy

Stages == {"none", "queued", "sending", "unsent", "stored", "abandoned",
           "condemned", "removing", "unremoved", "removed", "kept"}

Moves ==
    {<<"none", "queued">>,
     <<"queued", "sending">>,    <<"queued", "abandoned">>,
     <<"sending", "queued">>,    <<"sending", "unsent">>,
     <<"sending", "stored">>,    <<"sending", "abandoned">>,
     <<"unsent", "queued">>,     <<"unsent", "abandoned">>,
     <<"stored", "condemned">>,
     <<"condemned", "removing">>, <<"condemned", "kept">>,
     <<"removing", "condemned">>, <<"removing", "unremoved">>,
     <<"removing", "removed">>,   <<"removing", "kept">>,
     <<"unremoved", "condemned">>}

\* A database brought forward from an older version may hold any of the first
\* stages.
Init == copy \in [Docs -> {"none", "queued", "unsent", "stored"}]

\* One statement may move the copies of several documents.
Next ==
    /\ copy' \in [Docs -> Stages]
    /\ \A d \in Docs : copy'[d] = copy[d] \/ <<copy[d], copy'[d]>> \in Moves

Spec == Init /\ [][Next]_copy
=============================================================================
