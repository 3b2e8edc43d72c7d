--------------------------- MODULE MCConversation ---------------------------
(* The machines under their owners' calls and under an agent actor, and the snapshots that agents *)
(* and their conversations are recovered from, for TLC.                                           *)
EXTENDS Conversation, Negotiation, Persistence

CONSTANTS a1, a2, c1

VARIABLE driver      \* what runs in this behaviour: an owner, an actor, or the manager of snapshots

mcvars == <<driver, nvars, cvars, pvars>>

MCOpenings ==
  {NewContractNet, NewPropose, NewEnglish(1, 1, None), NewEnglish(1, 1, Some(2)),
   NewDutch(3, 1, 1), NewDutch(3, 2, 2), NewIterated(1), NewIterated(2), NewBrokering(None),
   NewBrokering(Some(2)), NewRecruiting(2, 1)}

\* One conversation message of each performative the four protocols know, a duplicate of
\* which may always follow, and the messages that never reach a machine.
Plain == [perf |-> "Agree", from |-> a1, conv |-> 1, proto |-> "none", content |-> "opaque",
          trap |-> FALSE]
MCInbox ==
  {[Plain EXCEPT !.perf = x] : x \in {"Request", "Agree", "InformResult", "Cancel", "QueryRef",
       "Cfp", "Propose", "AcceptProposal", "Subscribe"}}
    \cup {[Plain EXCEPT !.conv = 2, !.perf = x, !.trap = TRUE] : x \in {"Request"}}
    \cup {[Plain EXCEPT !.content = x, !.trap = TRUE] : x \in {"rejected", "decoded"}}
    \cup {[Plain EXCEPT !.proto = x] : x \in {"Request", "Propose"}}

\* a1 is a sanitized name, as "x_p", and a2 another with the same directory, as "x@p".
MCFilename == [a \in {a1, a2} |-> a1]

MCTalks == {<<"IteratedContractNet", "accepted">>, <<"Request", "completed">>}

\* Where a part does not run, its state stays as it starts.
Init ==
  /\ CInit /\ PInit
  /\ \/ driver = "owner" /\ NInit /\ mode = "off"
     \/ driver = "actor" /\ m = NewPropose /\ calls = 0 /\ mode = "off"
     \/ driver = "manager" /\ m = NewPropose /\ calls = 0

Next ==
  \/ driver = "owner" /\ NNext /\ UNCHANGED <<driver, cvars, pvars>>
  \/ driver = "actor" /\ CNext /\ UNCHANGED <<driver, nvars, pvars>>
  \/ driver = "manager" /\ PNext /\ UNCHANGED <<driver, nvars, cvars>>

Spec == Init /\ [][Next]_mcvars

\* The manager of snapshots alone.
ManagerSpec == Init /\ driver = "manager" /\ [][Next]_mcvars
=============================================================================
