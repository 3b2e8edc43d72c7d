------------------------------ MODULE Machines ------------------------------
(***************************************************************************)
(* What the protocol state machines of protocol/ keep and what a message   *)
(* (process) or a call of their owner does to it.  A machine is a record;  *)
(* the content of a message is known by the message's place in the         *)
(* history, an Option is an empty or a one-element sequence.               *)
(***************************************************************************)
EXTENDS Protocols, Maps, SequencesExt, FiniteSetsExt

CONSTANT NoAgent     \* a message without a sender

None == <<>>
Some(v) == <<v>>

\* ConversationBase::new: no participant, no message.
Base(p) == [proto |-> p, state |-> "not_started", hist |-> <<>>, parts |-> {}]

\* add_participant: a name is entered once.
AddParticipant(m, a) == [m EXCEPT !.parts = @ \cup ({a} \ {NoAgent})]
RecordMessage(m, msg) == [m EXCEPT !.hist = Append(@, msg.perf)]
Here(m) == Some(Len(m.hist))

-----------------------------------------------------------------------------
(* The machines the agent actor creates, and Propose. *)
NewRequest == Over(Base("Request"), [result |-> None])
RequestProcess(m, msg, to) ==
  CASE to = "requested" -> AddParticipant(m, msg.from)
    [] to \in {"completed", "failed"} -> [m EXCEPT !.result = Here(m)]
    [] OTHER -> m

NewQuery == Over(Base("Query"), [kind |-> None, result |-> None])
QueryProcess(m, msg, to) ==
  CASE msg.perf \in {"QueryIf", "QueryRef"} -> [m EXCEPT !.kind = Some(msg.perf)]
    [] msg.perf \in {"InformIf", "InformRef", "InformResult"} -> [m EXCEPT !.result = Here(m)]
    [] OTHER -> m

NewContractNet ==
  Over(Base("ContractNet"), [proposals |-> <<>>, accepted |-> {}, results |-> <<>>])
ContractNetProcess(m, msg, to) ==
  CASE msg.perf = "Propose" /\ msg.from # NoAgent ->
         AddParticipant([m EXCEPT !.proposals = Append(@, msg.from)], msg.from)
    [] msg.perf \in {"InformDone", "InformResult"} /\ msg.from # NoAgent ->
         [m EXCEPT !.results = With(@, msg.from, Len(m.hist))]
    [] OTHER -> m
\* accept_proposal: remembers a bidder that proposed; the state is not touched.
AcceptProposal(m, b) ==
  IF \E i \in DOMAIN m.proposals : m.proposals[i] = b
  THEN [m EXCEPT !.accepted = @ \cup {b}] ELSE m

NewSubscribe == Over(Base("Subscribe"), [count |-> 0, last |-> None])
SubscribeProcess(m, msg, to) ==
  CASE msg.perf = "Subscribe" -> AddParticipant(m, msg.from)
    [] msg.perf = "InformResult" -> [m EXCEPT !.count = @ + 1, !.last = Here(m)]
    [] OTHER -> m

NewPropose == Over(Base("Propose"), [response |-> None])
ProposeProcess(m, msg, to) ==
  CASE to = "proposed" -> AddParticipant(m, msg.from)
    [] to \in {"accepted", "rejected"} -> [m EXCEPT !.response = Here(m)]
    [] OTHER -> m

-----------------------------------------------------------------------------
(* Auctions *)
NewEnglish(start, inc, reserve) ==
  Over(Base("EnglishAuction"),
       [start |-> start, inc |-> inc, reserve |-> reserve, current |-> None, bids |-> <<>>,
        bidders |-> {}, winner |-> None])
\* A Propose message registers its sender; it carries no bid the machine reads.
EnglishProcess(m, msg, to) ==
  IF msg.perf = "Propose" THEN [m EXCEPT !.bidders = @ \cup ({msg.from} \ {NoAgent})] ELSE m
MinimumBid(m) == IF m.current = None THEN m.start ELSE m.current[1].amount + m.inc
SubmitBid(m, b, amount) ==
  IF m.state \in {"announced", "bidding"} /\ amount >= MinimumBid(m)
  THEN LET bid == [bidder |-> b, amount |-> amount] IN
       [m EXCEPT !.bids = Append(@, bid), !.current = Some(bid), !.state = "bidding"]
  ELSE m
\* Mutant: the reserve is not looked at.
CloseAuctionNoReserve(m) ==
  IF m.state \notin {"bidding", "closing"} \/ m.current = None THEN m
  ELSE [m EXCEPT !.winner = Some(m.current[1].bidder), !.state = "completed"]
CloseAuction(m) ==
  IF m.state \notin {"bidding", "closing"} THEN m
  ELSE IF m.current = None \/ (m.reserve # None /\ m.current[1].amount < m.reserve[1])
       THEN [m EXCEPT !.state = "failed"]
       ELSE [m EXCEPT !.winner = Some(m.current[1].bidder), !.state = "completed"]

NewDutch(start, reserve, dec) ==
  Over(Base("DutchAuction"),
       [start |-> start, reserve |-> reserve, price |-> start, dec |-> dec, round |-> 0,
        prices |-> <<>>, winner |-> None, sale |-> None])
DutchProcess(m, msg, to) ==
  IF msg.perf = "Propose" /\ msg.from # NoAgent THEN [m EXCEPT !.winner = Some(msg.from)] ELSE m
DutchStart(m) ==
  IF m.state # "not_started" THEN m
  ELSE [m EXCEPT !.price = m.start, !.round = 1, !.prices = Append(@, m.start),
                 !.state = "descending"]
DecreasePrice(m) ==
  IF m.state # "descending" THEN m
  ELSE IF m.price - m.dec < m.reserve THEN [m EXCEPT !.state = "unsold"]
  ELSE [m EXCEPT !.price = @ - m.dec, !.round = @ + 1, !.prices = Append(@, m.price - m.dec)]
AcceptBid(m, b) ==
  IF m.state # "descending" THEN m
  ELSE [m EXCEPT !.winner = Some(b), !.sale = Some(m.price), !.state = "sold"]

-----------------------------------------------------------------------------
(* Iterated contract net *)
NewIterated(maxRounds) ==
  Over(Base("IteratedContractNet"),
       [round |-> 0, max |-> maxRounds, rounds |-> <<>>, proposals |-> {}, selected |-> None,
        result |-> None])
CanContinue(m) == m.proto = "IteratedContractNet" => m.round < m.max
\* A Cfp message opens a round without looking at max_rounds.
IteratedProcess(m, msg, to) ==
  CASE msg.perf = "Cfp" ->
         IF m.state = "not_started" THEN [m EXCEPT !.round = 1]
         ELSE [m EXCEPT !.round = @ + 1, !.proposals = {}]
    [] msg.perf = "Propose" -> [m EXCEPT !.proposals = @ \cup ({msg.from} \ {NoAgent})]
    [] msg.perf \in {"InformDone", "InformResult"} -> [m EXCEPT !.result = Here(m)]
    [] OTHER -> m
StartRound(m) ==
  IF CanContinue(m) /\ m.state \in {"not_started", "evaluating", "revising"}
  THEN [m EXCEPT !.rounds = IF m.proposals = {} THEN @
                            ELSE Append(@, [round |-> m.round, proposals |-> m.proposals]),
                 !.round = @ + 1, !.proposals = {}, !.state = "cfp_sent"]
  ELSE m
AddProposal(m, b) == IF m.state # "cfp_sent" THEN m ELSE [m EXCEPT !.proposals = @ \cup {b}]
StartEvaluation(m) ==
  IF m.state # "cfp_sent" THEN m
  ELSE [m EXCEPT !.state = CASE m.proposals # {} -> "evaluating"
                             [] m.proposals = {} /\ m.round >= m.max -> "no_agreement"
                             [] m.proposals = {} /\ m.round < m.max -> "revising"]
RequestRevision(m) ==
  IF m.state # "evaluating" THEN m
  ELSE [m EXCEPT !.state = IF CanContinue(m) THEN "revising" ELSE "no_agreement"]
SelectContractor(m, b) ==
  IF m.state = "evaluating" /\ b \in m.proposals
  THEN [m EXCEPT !.selected = Some(b), !.state = "accepted"] ELSE m
\* The result comes with the call, not with a message of the history.
RecordResult(m) ==
  IF m.state \notin {"accepted", "waiting_result"} THEN m
  ELSE [m EXCEPT !.result = Some(0), !.state = "completed"]

-----------------------------------------------------------------------------
(* Brokering and recruiting *)
ProviderStatus == {"pending", "agreed", "refused", "completed", "failed"}
\* providers maps a name to its status and the response it gave.
NewBrokering(required) ==
  Over(Base("Brokering"),
       [initiator |-> NoAgent, providers |-> <<>>, required |-> required, results |-> <<>>])
AddProvider(m, a) ==
  [m EXCEPT !.providers = With(@, a, [status |-> "pending", response |-> None])]
UpdateProvider(m, a, status, response) ==
  IF a \in DOMAIN m.providers
  THEN [m EXCEPT !.providers[a] = [status |-> status, response |-> response]] ELSE m
BrokeringProcess(m, msg, to) ==
  CASE msg.perf = "Proxy" -> [m EXCEPT !.initiator = msg.from]
    [] msg.perf \in {"InformResult", "InformDone"} /\ msg.from # NoAgent ->
         [UpdateProvider(m, msg.from, "completed", Here(m)) EXCEPT !.results = Append(@, Len(m.hist))]
    [] msg.perf = "Agree" -> UpdateProvider(m, msg.from, "agreed", None)
    [] msg.perf = "Refuse" -> UpdateProvider(m, msg.from, "refused", None)
    [] msg.perf = "Failure" -> UpdateProvider(m, msg.from, "failed", Here(m))
    [] OTHER -> m
AllResponded(m) ==
  \A a \in DOMAIN m.providers : m.providers[a].status \in {"completed", "failed", "refused"}
SuccessfulCount(m) ==
  Cardinality({a \in DOMAIN m.providers : m.providers[a].status = "completed"})
\* results is rebuilt from the providers that completed with a response.
Consolidate(m) ==
  IF m.state \notin {"waiting_responses", "consolidating"} THEN m
  ELSE LET good == {a \in DOMAIN m.providers : m.providers[a].status = "completed"
                                               /\ m.providers[a].response # None}
       IN [m EXCEPT !.results = SetToSeq({m.providers[a].response[1] : a \in good}),
                    !.state = IF good = {} THEN "failed" ELSE "completed"]

NewRecruiting(max, minScore) ==
  Over(Base("Recruiting"),
       [initiator |-> NoAgent, max |-> max, min |-> minScore, candidates |-> <<>>])
RecruitingProcess(m, msg, to) ==
  IF msg.perf = "Proxy" THEN [m EXCEPT !.initiator = msg.from] ELSE m
\* push and a stable sort by falling score: the newcomer goes after its equals.
AddCandidate(m, a, score) ==
  IF score >= m.min /\ Len(m.candidates) < m.max
  THEN LET k == Cardinality({i \in DOMAIN m.candidates : m.candidates[i].score >= score}) IN
       [m EXCEPT !.candidates = InsertAt(@, k + 1, [agent |-> a, score |-> score])]
  ELSE m
CompleteSearch(m) ==
  IF m.state # "searching" THEN m
  ELSE [m EXCEPT !.state = IF m.candidates = <<>> THEN "no_candidates" ELSE "candidates_found"]

-----------------------------------------------------------------------------
Effect(m, msg, to) ==
  CASE m.proto = "Request" -> RequestProcess(m, msg, to)
    [] m.proto = "Query" -> QueryProcess(m, msg, to)
    [] m.proto = "ContractNet" -> ContractNetProcess(m, msg, to)
    [] m.proto = "Subscribe" -> SubscribeProcess(m, msg, to)
    [] m.proto = "Propose" -> ProposeProcess(m, msg, to)
    [] m.proto = "EnglishAuction" -> EnglishProcess(m, msg, to)
    [] m.proto = "DutchAuction" -> DutchProcess(m, msg, to)
    [] m.proto = "IteratedContractNet" -> IteratedProcess(m, msg, to)
    [] m.proto = "Brokering" -> BrokeringProcess(m, msg, to)
    [] m.proto = "Recruiting" -> RecruitingProcess(m, msg, to)

\* validate: whether the machine takes the message at all.
Accepts(m, msg) == Targets(m.proto, CanContinue(m), m.state, msg.perf) # {}

\* Mutant: the message is recorded before it is validated.
ProcessRecordFirst(m, msg) ==
  IF ~Accepts(m, msg) THEN RecordMessage(m, msg)
  ELSE LET to == CHOOSE t \in Targets(m.proto, CanContinue(m), m.state, msg.perf) : TRUE
       IN [Effect(RecordMessage(m, msg), msg, to) EXCEPT !.state = to]
\* process: validate, record, update, move.  A refused message leaves no trace.
Process(m, msg) ==
  IF ~Accepts(m, msg) THEN m
  ELSE LET to == CHOOSE t \in Targets(m.proto, CanContinue(m), m.state, msg.perf) : TRUE
       IN [Effect(RecordMessage(m, msg), msg, to) EXCEPT !.state = to]

IsFailed(m) == m.state \in Ends[m.proto].bad
IsComplete(m) == m.state \in Ends[m.proto].good \cup Ends[m.proto].bad

\* The ProcessResult that goes with the state process left behind.
ProcessResult(m) ==
  CASE IsFailed(m) -> "failed"
    [] IsComplete(m) /\ ~IsFailed(m) -> "complete"
    [] ~IsComplete(m) -> "continue"
=============================================================================
