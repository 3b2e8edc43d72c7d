----------------------------- MODULE Protocols -----------------------------
(***************************************************************************)
(* The ten interaction protocols of protocol/: each is a state machine fed *)
(* one ACL message at a time.  This module holds their tables as data:     *)
(* the states, the rows of validate_transition, the wildcard rows that     *)
(* match every state, the terminal states and the performatives announced  *)
(* by expected_performatives.  Machines.tla holds what process does.       *)
(***************************************************************************)
EXTENDS Naturals, Sequences

Kinds == {"Request", "Query", "ContractNet", "Subscribe", "Propose", "EnglishAuction",
          "DutchAuction", "IteratedContractNet", "Brokering", "Recruiting"}

Performatives ==
  {"AcceptProposal", "Agree", "Cancel", "Cfp", "Failure", "Inform", "InformDone", "InformIf",
   "InformRef", "InformResult", "NotUnderstood", "Propose", "Proxy", "QueryIf", "QueryRef",
   "Refuse", "RejectProposal", "Request", "Subscribe"}

\* Rows from one state: s and, for every performative of P, the state t.
Row(s, P, t) == {s} \X P \X {t}

-----------------------------------------------------------------------------
(* Request *)
RequestState == {"not_started", "requested", "agreed", "executing", "completed", "failed",
                 "refused", "cancelled"}
RequestRows ==
  Row("not_started", {"Request"}, "requested") \cup Row("requested", {"Agree"}, "agreed")
    \cup Row("requested", {"Refuse"}, "refused")
    \cup Row("agreed", {"InformDone", "InformResult"}, "completed")
    \cup Row("agreed", {"Failure"}, "failed")
RequestEnds == [good |-> {"completed"}, bad |-> {"failed", "refused", "cancelled"}]
RequestExpected ==
  [not_started |-> {"Request"}, requested |-> {"Agree", "Refuse", "Cancel"},
   agreed |-> {"InformDone", "InformResult", "Failure", "Cancel"}]

(* Query *)
QueryState == {"not_started", "queried", "agreed", "completed", "failed", "refused"}
QueryRows ==
  Row("not_started", {"QueryIf", "QueryRef"}, "queried") \cup Row("queried", {"Agree"}, "agreed")
    \cup Row("queried", {"Refuse"}, "refused")
    \cup Row("agreed", {"InformIf", "InformRef", "InformResult"}, "completed")
    \cup Row("agreed", {"Failure"}, "failed")
QueryEnds == [good |-> {"completed"}, bad |-> {"failed", "refused"}]
QueryExpected ==
  [not_started |-> {"QueryIf", "QueryRef"}, queried |-> {"Agree", "Refuse"},
   agreed |-> {"InformIf", "InformRef", "InformResult", "Failure"}]

(* Contract net *)
ContractNetState == {"not_started", "cfp_sent", "proposals_received", "evaluating", "accepted",
                     "rejected", "in_execution", "completed", "failed"}
ContractNetRows ==
  Row("not_started", {"Cfp"}, "cfp_sent")
    \cup Row("cfp_sent", {"Propose", "Refuse"}, "proposals_received")
    \cup Row("proposals_received", {"Propose", "Refuse"}, "proposals_received")
    \cup Row("proposals_received", {"AcceptProposal"}, "in_execution")
    \cup Row("proposals_received", {"RejectProposal"}, "rejected")
    \cup Row("in_execution", {"InformDone", "InformResult"}, "completed")
    \cup Row("in_execution", {"Failure"}, "failed")
ContractNetEnds == [good |-> {"completed"}, bad |-> {"failed", "rejected"}]
ContractNetExpected ==
  [not_started |-> {"Cfp"}, cfp_sent |-> {"Propose", "Refuse"},
   proposals_received |-> {"Propose", "Refuse", "AcceptProposal", "RejectProposal"},
   in_execution |-> {"InformDone", "InformResult", "Failure"}]

(* Subscribe *)
SubscribeState == {"not_started", "subscribed", "agreed", "active", "completed", "failed",
                   "refused", "cancelled"}
SubscribeRows ==
  Row("not_started", {"Subscribe"}, "subscribed") \cup Row("subscribed", {"Agree"}, "agreed")
    \cup Row("subscribed", {"Refuse"}, "refused")
    \cup Row("agreed", {"InformResult"}, "active") \cup Row("active", {"InformResult"}, "active")
    \cup Row("active", {"Failure"}, "failed")
SubscribeEnds == [good |-> {"completed"}, bad |-> {"failed", "refused", "cancelled"}]
SubscribeExpected ==
  [not_started |-> {"Subscribe"}, subscribed |-> {"Agree", "Refuse", "Cancel"},
   agreed |-> {"InformResult", "Failure", "Cancel"},
   active |-> {"InformResult", "Failure", "Cancel"}]

(* Propose *)
ProposeState == {"not_started", "proposed", "accepted", "rejected", "cancelled"}
ProposeRows ==
  Row("not_started", {"Propose"}, "proposed")
    \cup Row("proposed", {"AcceptProposal"}, "accepted")
    \cup Row("proposed", {"RejectProposal"}, "rejected")
ProposeEnds == [good |-> {"accepted"}, bad |-> {"rejected", "cancelled"}]
ProposeExpected ==
  [not_started |-> {"Propose"}, proposed |-> {"AcceptProposal", "RejectProposal", "Cancel"}]

-----------------------------------------------------------------------------
(* English auction: the two Inform rows both close the auction. *)
EnglishState == {"not_started", "announced", "bidding", "closing", "completed", "failed",
                 "cancelled"}
EnglishRows ==
  Row("not_started", {"Inform"}, "announced") \cup Row("announced", {"Propose"}, "bidding")
    \cup Row("bidding", {"Propose", "AcceptProposal", "RejectProposal"}, "bidding")
    \cup Row("bidding", {"Inform"}, "completed") \cup Row("announced", {"Inform"}, "completed")
EnglishEnds == [good |-> {"completed"}, bad |-> {"failed", "cancelled"}]
EnglishExpected ==
  [not_started |-> {"Inform"}, announced |-> {"Propose", "Inform", "Cancel"},
   bidding |-> {"Propose", "AcceptProposal", "RejectProposal", "Inform", "Cancel"},
   closing |-> {"Inform", "Cancel"}]

(* Dutch auction: after a Propose message no call sells, only AcceptProposal. *)
DutchState == {"not_started", "descending", "bid_received", "sold", "unsold", "cancelled"}
\* Mutant: further bids are taken while one is considered.
DutchRowsRebid ==
  Row("not_started", {"Cfp"}, "descending") \cup Row("descending", {"Cfp"}, "descending")
    \cup ({"descending", "bid_received"} \X {"Propose"} \X {"bid_received"})
    \cup Row("bid_received", {"AcceptProposal"}, "sold")
DutchRows ==
  Row("not_started", {"Cfp"}, "descending") \cup Row("descending", {"Cfp"}, "descending")
    \cup Row("descending", {"Propose"}, "bid_received")
    \cup Row("bid_received", {"AcceptProposal"}, "sold")
    \cup Row("descending", {"Inform"}, "unsold") \cup Row("sold", {"Inform"}, "sold")
DutchEnds == [good |-> {"sold"}, bad |-> {"unsold", "cancelled"}]
DutchExpected ==
  [not_started |-> {"Cfp"}, descending |-> {"Cfp", "Propose", "Inform", "Cancel"},
   bid_received |-> {"AcceptProposal", "Cancel"}]

(* Iterated contract net: a rejection revises while can_continue holds. *)
IteratedState == {"not_started", "cfp_sent", "evaluating", "revising", "accepted",
                  "waiting_result", "completed", "no_agreement", "failed", "cancelled"}
IteratedRows(canContinue) ==
  LET again == IF canContinue THEN "revising" ELSE "no_agreement" IN
  Row("not_started", {"Cfp"}, "cfp_sent") \cup Row("cfp_sent", {"Propose", "Refuse"}, "cfp_sent")
    \cup ({"cfp_sent", "evaluating"} \X {"AcceptProposal"} \X {"accepted"})
    \cup ({"cfp_sent", "evaluating"} \X {"RejectProposal"} \X {again})
    \cup ({"revising", "evaluating"} \X {"Cfp"} \X {"cfp_sent"})
    \cup ({"accepted", "waiting_result"} \X {"InformDone", "InformResult"} \X {"completed"})
    \cup ({"accepted", "waiting_result"} \X {"Failure"} \X {"failed"})
IteratedEnds == [good |-> {"completed"}, bad |-> {"no_agreement", "failed", "cancelled"}]
IteratedExpected ==
  [not_started |-> {"Cfp"},
   cfp_sent |-> {"Propose", "Refuse", "AcceptProposal", "RejectProposal", "Cancel"},
   evaluating |-> {"AcceptProposal", "RejectProposal", "Cfp", "Cancel"},
   revising |-> {"Cfp", "Cancel"},
   accepted |-> {"InformDone", "InformResult", "Failure", "Cancel"},
   waiting_result |-> {"InformDone", "InformResult", "Failure", "Cancel"}]

(* Brokering: the first result moves on to consolidating. *)
BrokeringState == {"not_started", "proxy_received", "forwarding", "waiting_responses",
                   "consolidating", "completed", "failed", "cancelled"}
BrokeringRows ==
  Row("not_started", {"Proxy"}, "proxy_received")
    \cup ({"proxy_received", "forwarding"} \X {"Request"} \X {"forwarding"})
    \cup ({"forwarding", "waiting_responses"} \X {"Agree", "Refuse"} \X {"waiting_responses"})
    \cup Row("waiting_responses", {"InformResult", "InformDone"}, "consolidating")
    \cup Row("waiting_responses", {"Failure"}, "waiting_responses")
    \cup Row("consolidating", {"Inform"}, "completed")
BrokeringEnds == [good |-> {"completed"}, bad |-> {"failed", "cancelled"}]
BrokeringExpected ==
  [not_started |-> {"Proxy"}, proxy_received |-> {"Request", "Cancel"},
   forwarding |-> {"Request", "Agree", "Refuse", "Cancel"},
   waiting_responses |-> {"Agree", "Refuse", "InformResult", "InformDone", "Failure", "Cancel"},
   consolidating |-> {"Inform", "Cancel"}]

(* Recruiting *)
RecruitingState == {"not_started", "proxy_received", "searching", "candidates_found",
                    "completed", "no_candidates", "failed", "cancelled"}
RecruitingRows ==
  Row("not_started", {"Proxy"}, "proxy_received") \cup Row("proxy_received", {"QueryRef"}, "searching")
    \cup Row("searching", {"Inform", "InformRef"}, "candidates_found")
    \cup Row("candidates_found", {"Inform"}, "completed")
    \cup Row("searching", {"Failure"}, "no_candidates")
RecruitingEnds == [good |-> {"completed"}, bad |-> {"no_candidates", "failed", "cancelled"}]
RecruitingExpected ==
  [not_started |-> {"Proxy"}, proxy_received |-> {"QueryRef", "Cancel"},
   searching |-> {"Inform", "InformRef", "Failure", "Cancel"},
   candidates_found |-> {"Inform", "Cancel"}]

-----------------------------------------------------------------------------
\* The states, ends and announcements of every protocol.
States ==
  [Request |-> RequestState, Query |-> QueryState, ContractNet |-> ContractNetState,
   Subscribe |-> SubscribeState, Propose |-> ProposeState, EnglishAuction |-> EnglishState,
   DutchAuction |-> DutchState, IteratedContractNet |-> IteratedState,
   Brokering |-> BrokeringState, Recruiting |-> RecruitingState]
Ends ==
  [Request |-> RequestEnds, Query |-> QueryEnds, ContractNet |-> ContractNetEnds,
   Subscribe |-> SubscribeEnds, Propose |-> ProposeEnds, EnglishAuction |-> EnglishEnds,
   DutchAuction |-> DutchEnds, IteratedContractNet |-> IteratedEnds,
   Brokering |-> BrokeringEnds, Recruiting |-> RecruitingEnds]
Expected ==
  [Request |-> RequestExpected, Query |-> QueryExpected, ContractNet |-> ContractNetExpected,
   Subscribe |-> SubscribeExpected, Propose |-> ProposeExpected,
   EnglishAuction |-> EnglishExpected, DutchAuction |-> DutchExpected,
   IteratedContractNet |-> IteratedExpected, Brokering |-> BrokeringExpected,
   Recruiting |-> RecruitingExpected]

\* The rows that name a state; only the iterated contract net reads more than the state.
Rows(p, canContinue) ==
  CASE p = "Request" -> RequestRows
    [] p = "Query" -> QueryRows
    [] p = "ContractNet" -> ContractNetRows
    [] p = "Subscribe" -> SubscribeRows
    [] p = "Propose" -> ProposeRows
    [] p = "EnglishAuction" -> EnglishRows
    [] p = "DutchAuction" -> DutchRows
    [] p = "IteratedContractNet" -> IteratedRows(canContinue)
    [] p = "Brokering" -> BrokeringRows
    [] p = "Recruiting" -> RecruitingRows

\* The rows (_, performative), tried after the rows that name a state.  They match
\* every state, the terminal ones included.
Wildcards ==
  [Request |-> {<<"Cancel", "cancelled">>}, Query |-> {}, ContractNet |-> {},
   Subscribe |-> {<<"Cancel", "cancelled">>}, Propose |-> {<<"Cancel", "cancelled">>},
   EnglishAuction |-> {<<"Failure", "failed">>, <<"Cancel", "cancelled">>},
   DutchAuction |-> {<<"Failure", "unsold">>, <<"Cancel", "cancelled">>},
   IteratedContractNet |-> {<<"Cancel", "cancelled">>},
   Brokering |-> {<<"Failure", "failed">>, <<"Cancel", "cancelled">>},
   Recruiting |-> {<<"Cancel", "cancelled">>, <<"Failure", "failed">>}]

\* validate_transition: the states the message may lead to, none when it is refused.
Targets(p, canContinue, s, perf) ==
  LET named == {r[3] : r \in {q \in Rows(p, canContinue) : q[1] = s /\ q[2] = perf}} IN
  IF named # {} THEN named ELSE {w[2] : w \in {v \in Wildcards[p] : v[1] = perf}}

\* Every row leads from a state of its protocol to a state of it, on one performative
\* to one state.
ASSUME TablesAssumption ==
  \A p \in Kinds : \A c \in BOOLEAN :
    /\ Rows(p, c) \subseteq States[p] \X Performatives \X States[p]
    /\ \A q, r \in Rows(p, c) : q[1] = r[1] /\ q[2] = r[2] => q = r
    /\ Ends[p].good \cup Ends[p].bad \subseteq States[p]
=============================================================================
