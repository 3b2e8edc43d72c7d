------------------------------- MODULE BookBuy -------------------------------
(***************************************************************************)
(* The book purchase: buyers (agents/ba), the seller (agents/bs), the      *)
(* directories DF and AMS (agents/df, agents/ams), and the escrow ledger   *)
(* of module Escrow, exchanging messages.                                  *)
(*                                                                         *)
(* Agents on one node exchange messages through pump's queue, in the order *)
(* they were sent; agents on different nodes have one ordered channel per  *)
(* pair, and nothing orders two channels.                                  *)
(***************************************************************************)
EXTENDS Escrow, Sequences, SequencesExt

CONSTANTS
    Buyers,      \* the buyer agents
    bs,          \* the seller agent
    LtG,         \* the book, whose title is also the order id
    Price,       \* its price
    HasLtG,      \* whether the seller's catalog has the book
    Settings,    \* the deployments considered: a subset of AllSettings
    MaxLost      \* bound on the sends between nodes that fail

\* Whether all agents are on one node or have one each, and the buyers whose
\* owners may deny their own order.
AllSettings == [coLocated : BOOLEAN, mayWithdraw : SUBSET Buyers]

ASSUME BookBuyAssumption ==
    /\ Accounts = Buyers \cup {bs} /\ bs \notin Buyers
    /\ {"df", "ams", "pa"} \cap Accounts = {}
    /\ Orders = {LtG}
    /\ Price \in 1 .. MaxAmount
    /\ HasLtG \in BOOLEAN
    /\ Settings \subseteq AllSettings /\ MaxLost \in Nat

VARIABLES
    setting,   \* the deployment
    ba,        \* ba[b]: the buyer's purchase state
    withdrawn, \* the buyers whose owner has taken the order back
    buyerOf,   \* the seller's `buyers`: who the book is reserved for
    offered,   \* DF's registry: whether bs is registered for bookselling
    bound,     \* AMS's records: whether bs has an address
    lost,      \* how many sends have failed
    net        \* the messages under way, in the order they were sent

bookVars == <<setting, pa, disk, out, ba, withdrawn, buyerOf, offered, bound, lost, net>>

BuyerStates == {"init", "provider", "address", "catalog", "held", "delivery",
                "done", "failed"}

\* A message: its body is what the receiver looks for in it ("found" or
\* "missing" in an answer, the status of a receipt); `who` is the buyer that a
\* "held" receipt names to the seller.
Msg(from, to, verb, body) ==
    [from |-> from, to |-> to, verb |-> verb, body |-> body, who |-> NoOne]

\* The seller's node registers it (Node::register): bind at AMS, offer at DF.
BookInit ==
    /\ Init
    /\ setting \in Settings
    /\ ba = [b \in Buyers |-> "init"]
    /\ withdrawn = {}
    /\ buyerOf = NoOne
    /\ offered = FALSE
    /\ bound = FALSE
    /\ lost = 0
    /\ net = <<Msg(bs, "ams", "bind", "none"), Msg(bs, "df", "offer", "none")>>

----------------------------------------------------------------------------
(* Transport.                                                              *)

\* The i-th message under way may be the next to be delivered.
Deliverable(i) ==
    \/ i = 1
    \/ /\ ~ setting.coLocated
       /\ \A j \in 1 .. i - 1 : net[j].from # net[i].from \/ net[j].to # net[i].to

\* A handler takes message i and sends the messages of ms.
Handle(i, ms) == net' = RemoveAt(net, i) \o ms

Receives(i, to, verb) ==
    /\ Deliverable(i)
    /\ net[i].to = to
    /\ net[i].verb = verb

----------------------------------------------------------------------------
(* The buyer.                                                              *)

Step(b, st) == ba' = [ba EXCEPT ![b] = st]

\* The node kicks the buyer off.
Start(b) ==
    /\ ba[b] = "init"
    /\ Step(b, "provider")
    /\ net' = Append(net, Msg(b, "df", "seek", "none"))
    /\ UNCHANGED <<setting, lost, pa, disk, out, buyerOf, offered, bound, withdrawn>>

\* The messages the buyer reacts to: any deny, and one verb per state.
Expected(b, m) ==
    \/ ba[b] = "provider" /\ m.verb = "provide"
    \/ ba[b] = "address" /\ m.verb = "at"
    \/ ba[b] = "catalog" /\ m.verb = "catalog"
    \/ ba[b] = "held" /\ m.verb = "receipt" /\ m.body = "held"
    \/ ba[b] = "delivery" /\ m.verb = "deliver"
    \/ m.verb = "deny"

\* The answer moves the purchase on: ask AMS, ask for the catalog, reserve.
Proceed(b, i) ==
    LET m == net[i]
        on(st, ms) == Step(b, st) /\ Handle(i, ms)
    IN  \/ /\ m.verb = "provide" /\ m.body = "found"
           /\ on("address", <<Msg(b, "ams", "locate", "none")>>)
        \/ /\ m.verb = "at" /\ m.body = "found"
           /\ on("catalog", <<Msg(b, bs, "catalog", "none")>>)
        \/ /\ m.verb = "catalog" /\ m.body = "found"
           /\ on("held", <<Msg(b, "pa", "reserve", "none")>>)
        \/ /\ m.verb = "receipt"
           /\ on("delivery", <<>>)

\* The purchase ends: the verdict goes to "result".
Conclude(b, i) ==
    LET m == net[i] IN
    /\ \/ m.verb = "deliver" /\ Step(b, "done")
       \/ m.verb = "deny" /\ Step(b, "failed")
       \/ m.body = "missing" /\ Step(b, "failed")
    /\ Handle(i, <<>>)

\* A message the buyer's state does not expect is ignored.
Ignore(b, i) == Handle(i, <<>>) /\ UNCHANGED ba

BuyerHandles(b, i) ==
    /\ Deliverable(i) /\ net[i].to = b
    /\ IF Expected(b, net[i])
       THEN Proceed(b, i) \/ Conclude(b, i)
       ELSE Ignore(b, i)
    /\ UNCHANGED <<setting, lost, pa, disk, out, buyerOf, offered, bound, withdrawn>>

\* The buyer's owner takes the order back, at most once.
Withdraw(b) ==
    /\ b \in setting.mayWithdraw
    /\ ba[b] \in {"held", "delivery"}
    /\ b \notin withdrawn
    /\ withdrawn' = withdrawn \cup {b}
    /\ net' = Append(net, Msg(b, "pa", "cancel", "none"))
    /\ UNCHANGED <<setting, lost, pa, disk, out, ba, buyerOf, offered, bound>>

----------------------------------------------------------------------------
(* The seller.                                                             *)

SellerCatalog(i) ==
    /\ Receives(i, bs, "catalog")
    /\ Handle(i, <<Msg(bs, net[i].from, "catalog", IF HasLtG THEN "found" ELSE "missing")>>)
    /\ UNCHANGED buyerOf

\* Mutant: a cancelled order keeps its reservation.
ReservationKept(m) == IF m.body = "held" THEN m.who ELSE buyerOf

\* Who the book is reserved for after a receipt.
Reservation(m) ==
    CASE m.body = "held" -> m.who
      [] m.body = "cancelled" -> NoOne
      [] OTHER -> buyerOf

\* Mutant: a paid book is not shipped.
SellerRepliesNoShip(m) ==
    IF m.body = "held" THEN <<Msg(bs, "pa", "accept", "none")>> ELSE <<>>

\* What the seller sends on a receipt: accept a held order, ship a paid one to
\* whoever the book is reserved for.
SellerReplies(m) ==
    CASE m.body = "held" -> <<Msg(bs, "pa", "accept", "none")>>
      [] m.body = "paid" /\ buyerOf # NoOne -> <<Msg(bs, buyerOf, "deliver", "none")>>
      [] OTHER -> <<>>

SellerReceipt(i) ==
    /\ Receives(i, bs, "receipt")
    /\ buyerOf' = Reservation(net[i])
    /\ Handle(i, SellerReplies(net[i]))

\* Replies to the seller's own bind and offer, and denies, are ignored.
SellerIgnores(i) ==
    /\ Deliverable(i) /\ net[i].to = bs
    /\ net[i].verb \notin {"catalog", "receipt"}
    /\ Handle(i, <<>>)
    /\ UNCHANGED buyerOf

SellerHandles(i) ==
    /\ SellerCatalog(i) \/ SellerReceipt(i) \/ SellerIgnores(i)
    /\ UNCHANGED <<setting, lost, pa, disk, out, ba, offered, bound, withdrawn>>

----------------------------------------------------------------------------
(* DF and AMS.                                                             *)

DfHandles(i) ==
    /\ \/ /\ Receives(i, "df", "offer")
          /\ offered' = TRUE
          /\ Handle(i, <<Msg("df", bs, "registered", "none")>>)
       \/ /\ Receives(i, "df", "seek")
          /\ Handle(i, <<Msg("df", net[i].from, "provide",
                             IF offered THEN "found" ELSE "missing")>>)
          /\ UNCHANGED offered
    /\ UNCHANGED <<setting, lost, pa, disk, out, ba, buyerOf, bound, withdrawn>>

AmsHandles(i) ==
    /\ \/ /\ Receives(i, "ams", "bind")
          /\ bound' = TRUE
          /\ Handle(i, <<Msg("ams", bs, "bound", "none")>>)
       \/ /\ Receives(i, "ams", "locate")
          /\ Handle(i, <<Msg("ams", net[i].from, "at",
                             IF bound THEN "found" ELSE "missing")>>)
          /\ UNCHANGED bound
    /\ UNCHANGED <<setting, lost, pa, disk, out, ba, buyerOf, offered, withdrawn>>

----------------------------------------------------------------------------
(* The ledger, and the network's failures.                                 *)

\* What PA's handler sent, buyer before seller as the code sends it; the
\* seller's "held" receipt names the buyer.
PaSends(ms, buyer) ==
    LET part(to) == SetToSeq({[Msg("pa", m.to, m.verb, m.status)
                                 EXCEPT !.who = IF m.to = bs /\ m.status = "held"
                                                THEN buyer ELSE NoOne]
                              : m \in {x \in ms : x.to \in to}})
    IN  part(Buyers) \o part({bs})

PaHandles(i) ==
    /\ \/ Receives(i, "pa", "reserve") /\ Reserve(LtG, net[i].from, bs, Price)
       \/ Receives(i, "pa", "accept") /\ Accept(LtG, net[i].from)
       \/ Receives(i, "pa", "cancel") /\ Cancel(LtG, net[i].from)
    /\ Handle(i, PaSends(out', net[i].from))
    /\ UNCHANGED <<setting, lost, ba, buyerOf, offered, bound, withdrawn>>

\* accept or deny for an order PA does not know sends nothing.
PaIgnores(i) ==
    /\ Receives(i, "pa", "accept") \/ Receives(i, "pa", "cancel")
    /\ pa.holds[LtG].state = "none"
    /\ Handle(i, <<>>)
    /\ UNCHANGED <<setting, lost, pa, disk, out, ba, buyerOf, offered, bound, withdrawn>>

\* A send between nodes fails; nobody hears of it.
Lose(i) ==
    /\ ~ setting.coLocated /\ lost < MaxLost
    /\ lost' = lost + 1
    /\ Handle(i, <<>>)
    /\ UNCHANGED <<setting, pa, disk, out, ba, buyerOf, offered, bound, withdrawn>>

Delivery(i) ==
    \/ \E b \in Buyers : BuyerHandles(b, i)
    \/ SellerHandles(i) \/ DfHandles(i) \/ AmsHandles(i)
    \/ PaHandles(i) \/ PaIgnores(i)

BookNext ==
    \/ \E b \in Buyers : Start(b) \/ Withdraw(b)
    \/ \E i \in 1 .. Len(net) : Delivery(i) \/ Lose(i)

BookSpec == BookInit /\ [][BookNext]_bookVars

\* Every agent's node runs, and a message under way is delivered.
BookFair ==
    /\ BookSpec
    /\ WF_bookVars(\E i \in 1 .. Len(net) : Delivery(i))
    /\ \A b \in Buyers : WF_bookVars(Start(b))

----------------------------------------------------------------------------
(* Properties.                                                             *)

BookTypeOK ==
    /\ TypeOK
    /\ setting \in Settings /\ lost \in 0 .. MaxLost
    /\ ba \in [Buyers -> BuyerStates]
    /\ withdrawn \subseteq Buyers
    /\ buyerOf \in Buyers \cup {NoOne}
    /\ {offered, bound} \subseteq BOOLEAN
    /\ \A i \in 1 .. Len(net) : net[i].who \in Buyers \cup {NoOne}

PaidBy(b) == pa.holds[LtG].state = "paid" /\ pa.holds[LtG].buyer = b

\* As long as no message is lost, the seller ships only to the buyer whose
\* payment it has, also when the order is cancelled while its acceptance is under
\* way (agents/bs: "on `paid` it ships to the buyer; on `cancelled` it releases
\* the reservation").
ShipOnlyPaid ==
    lost = 0 =>
        \A i \in 1 .. Len(net) : net[i].verb = "deliver" => PaidBy(net[i].to)

\* The same whatever is lost.  It does not hold: a lost cancelled receipt, and
\* PA's answer to the accept that follows, make the seller ship (README, section 3).
ShipOnlyPaidLossy ==
    \A i \in 1 .. Len(net) : net[i].verb = "deliver" => PaidBy(net[i].to)

\* The one book is sold to one buyer, whatever is lost and whoever withdraws:
\* the order id is the title, and PA refuses a second hold for it (agents/pa:
\* "duplicate order id").
SoldOnce ==
    \A b, c \in Buyers : ba[b] = "done" /\ ba[c] = "done" => b = c

\* The purchase is sound under every order of messages, withdrawal and loss: the
\* agents are well formed, the book goes to the buyer who paid (while nothing is
\* lost), and to one buyer only.
BookSafe == BookTypeOK /\ ShipOnlyPaid /\ SoldOnce

\* With all agents on one node, a buyer whose money has gone to the seller gets
\* the book (agents/ba: "deliver -> result: bought").
ChargedGetsBook == setting.coLocated => \A b \in Buyers : PaidBy(b) ~> ba[b] = "done"

\* On one node every purchase ends, bought or failed.
PurchaseEnds == setting.coLocated => \A b \in Buyers : <>(ba[b] \in {"done", "failed"})

\* Both: a purchase ends, and not with the money gone and no book.
BookLive == ChargedGetsBook /\ PurchaseEnds
=============================================================================
