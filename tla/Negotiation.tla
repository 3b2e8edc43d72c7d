---------------------------- MODULE Negotiation ----------------------------
(***************************************************************************)
(* One protocol machine in the hands of its owner: the owner calls its     *)
(* operations (bid, close, lower the price, open a round, add a provider,  *)
(* consolidate, ...) while messages of any peer arrive in any order, late, *)
(* twice or never.  The auctioneer, the contract-net initiator, the broker *)
(* and the recruiter are machines of this kind.                            *)
(***************************************************************************)
EXTENDS Machines

CONSTANTS Agents,      \* the peers
          Amounts,     \* bids, prices, scores
          Openings,    \* the machines an owner may start with
          MaxCalls     \* bound: calls and messages of one conversation

\* What the constructors (new, new_as_auctioneer, new_as_initiator, ...) make.
Limits == {None} \cup {Some(x) : x \in Amounts}
Constructed ==
  {NewRequest, NewQuery, NewContractNet, NewSubscribe, NewPropose}
    \cup {NewEnglish(s, i, r) : s \in Amounts, i \in Amounts, r \in Limits}
    \cup {NewDutch(s, r, d) : s \in Amounts, r \in Amounts, d \in Amounts}
    \cup {NewIterated(x) : x \in Amounts} \cup {NewBrokering(r) : r \in Limits}
    \cup {NewRecruiting(x, s) : x \in Amounts, s \in Amounts}

ASSUME NegotiationAssumption ==
  /\ NoAgent \notin Agents /\ MaxCalls \in Nat /\ Amounts \subseteq Nat
  /\ Openings \subseteq Constructed

VARIABLES m,           \* the machine
          calls        \* calls and messages so far

nvars == <<m, calls>>

Messages == [perf : Performatives, from : Agents \cup {NoAgent}]

NInit == m \in Openings /\ calls = 0

\* A call of the owner or a message that changes the machine.
To(next) == calls < MaxCalls /\ next # m /\ m' = next /\ calls' = calls + 1

Receive(msg) == Accepts(m, msg) /\ To(Process(m, msg))

ContractNetCall == m.proto = "ContractNet" /\ \E a \in Agents : To(AcceptProposal(m, a))

EnglishCall ==
  /\ m.proto = "EnglishAuction"
  /\ \/ \E a \in Agents, x \in Amounts : To(SubmitBid(m, a, x))
     \/ To(CloseAuction(m))

DutchCall ==
  /\ m.proto = "DutchAuction"
  /\ \/ To(DutchStart(m))
     \/ To(DecreasePrice(m))
     \/ \E a \in Agents : To(AcceptBid(m, a))

IteratedCall ==
  /\ m.proto = "IteratedContractNet"
  /\ \/ To(StartRound(m))
     \/ \E a \in Agents : To(AddProposal(m, a))
     \/ To(StartEvaluation(m))
     \/ To(RequestRevision(m))
     \/ \E a \in Agents : To(SelectContractor(m, a))
     \/ To(RecordResult(m))

BrokeringCall ==
  /\ m.proto = "Brokering"
  /\ \/ \E a \in Agents : To(AddProvider(m, a))
     \/ \E a \in Agents, s \in ProviderStatus : To(UpdateProvider(m, a, s, None))
     \/ To(Consolidate(m))

RecruitingCall ==
  /\ m.proto = "Recruiting"
  /\ \/ \E a \in Agents, x \in Amounts : To(AddCandidate(m, a, x))
     \/ To(CompleteSearch(m))

NNext ==
  \/ \E msg \in Messages : Receive(msg)
  \/ ContractNetCall \/ EnglishCall \/ DutchCall \/ IteratedCall \/ BrokeringCall
  \/ RecruitingCall

NSpec == NInit /\ [][NNext]_nvars

-----------------------------------------------------------------------------
(* An English auction (english_auction.rs) names as winner a bidder whose
   bid tops every bid taken, meets the reserve, and was preceded only by
   bids lower by the increment; a Dutch auction (dutch_auction.rs) sells at
   the price the rounds have come down to, never under the reserve. *)
AuctionSound ==
  /\ m.proto = "EnglishAuction" =>
       /\ \A i \in 1 .. Len(m.bids) - 1 : m.bids[i + 1].amount >= m.bids[i].amount + m.inc
       /\ m.winner # None =>
            /\ m.bids # <<>> /\ m.winner = Some(Last(m.bids).bidder)
            /\ m.reserve # None => Last(m.bids).amount >= m.reserve[1]
            /\ Head(m.bids).amount >= m.start
  /\ m.proto = "DutchAuction" /\ m.sale # None =>
       /\ m.sale[1] >= m.reserve /\ m.winner # None
       /\ m.prices # <<>> => m.sale = Some(Last(m.prices))

(* "First bidder to accept wins" (dutch_auction.rs:8): whoever is the winner
   of a Dutch auction stays the winner, whatever bids and calls come after. *)
FirstBidWins == m.proto = "DutchAuction" /\ m.winner # None => m'.winner = m.winner

(* A conversation that has ended is never reopened (is_complete of all ten
   machines): no late message and no late call of its owner leads out of the
   terminal states. *)
EndedStaysEnded == IsComplete(m) => IsComplete(m')

(* What is settled stays settled: the end of a conversation and the winner of
   a Dutch auction survive every later message and call. *)
SettledStays == [][FirstBidWins /\ EndedStaysEnded]_nvars

(* The contractor an iterated contract net (iterated_contract_net.rs) settles
   on has proposed in the round it is chosen in, and the rounds archived are
   earlier rounds, each once and with proposals. *)
ContractorProposed ==
  m.proto = "IteratedContractNet" =>
    /\ m.selected # None => m.selected[1] \in m.proposals
    /\ \A i \in DOMAIN m.rounds :
         /\ m.rounds[i].round < m.round /\ m.rounds[i].proposals # {}
         /\ i > 1 => m.rounds[i - 1].round < m.rounds[i].round

(* The outcome of a negotiation follows from the offers made in it, in
   whatever order offers, closings and rounds came. *)
NegotiationSound == AuctionSound /\ ContractorProposed

(* "Maximum rounds allowed" (iterated_contract_net.rs:104). *)
RoundBudget == m.proto = "IteratedContractNet" => m.round <= m.max

(* "Required number of responses (None = all)" (brokering.rs): the broker
   moves on to consolidating only when it has them. *)
BrokerWaits ==
  m.proto = "Brokering" /\ m.state = "consolidating" =>
    IF m.required = None THEN AllResponded(m) ELSE SuccessfulCount(m) >= m.required[1]
=============================================================================
