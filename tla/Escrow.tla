------------------------------- MODULE Escrow -------------------------------
(***************************************************************************)
(* The Payment Agent's durable escrow ledger (agents/pa/src/lib.rs) and    *)
(* the way a node boots it (bin/mesh_node.rs).                             *)
(*                                                                         *)
(* Any agent may send any message at any time, in any order and more than  *)
(* once; the node may die between two messages.  A handler is an operator  *)
(* from PA's state to its new state and the messages it sends, so that a   *)
(* composition can use the same handlers.                                  *)
(***************************************************************************)
EXTENDS Integers, FiniteSets, Functions

CONSTANTS
    Accounts,    \* agents that hold balances
    Orders,      \* order ids
    MaxU64,      \* the greatest u64 (small in an instance)
    MaxAmount,   \* bound on the amount a reserve asks for
    Seed,        \* the opening balances, as FIPA_SEED gives them
    SeedOnBoot,  \* the accounts FIPA_SEED names on later boots too
    SaveMayFail, \* whether a write of the store may fail (its error is ignored)
    NoOne        \* the party of an order that is not there

ASSUME EscrowAssumption ==
    /\ IsFiniteSet(Accounts) /\ IsFiniteSet(Orders)
    /\ MaxU64 \in Nat
    /\ MaxAmount \in 0 .. MaxU64
    /\ Seed \in [Accounts -> 0 .. MaxU64]
    /\ SeedOnBoot \subseteq Accounts
    /\ SaveMayFail \in BOOLEAN
    /\ NoOne \notin Accounts

VARIABLES
    pa,    \* PA's State in memory: ledger and holds
    disk,  \* the State saved under STATE_KEY
    out    \* what the last handler sent

vars == <<pa, disk, out>>

----------------------------------------------------------------------------
U64 == 0 .. MaxU64

\* += on a u64 in the release build.
WrappingAdd(m, n) == (m + n) % (MaxU64 + 1)

Amounts == 0 .. MaxAmount

HoldStates == {"none", "held", "paid", "cancelled"}

Holds == [buyer : Accounts \cup {NoOne}, seller : Accounts \cup {NoOne},
          amount : U64, state : HoldStates]

NoHold == [buyer |-> NoOne, seller |-> NoOne, amount |-> 0, state |-> "none"]

States == [ledger : [Accounts -> U64], holds : [Orders -> Holds]]

\* A receipt or a deny, to one party of an order.
Outgoing == [to : Accounts, verb : {"receipt", "deny"}, order : Orders,
             status : {"held", "paid", "cancelled", "none"}]

Receipt(to, o, status) == [to |-> to, verb |-> "receipt", order |-> o, status |-> status]
Deny(to, o) == [to |-> to, verb |-> "deny", order |-> o, status |-> "none"]

\* The first boot: an empty store, seeded.
Opened == [ledger |-> Seed, holds |-> [o \in Orders |-> NoHold]]

Init ==
    /\ pa = Opened
    /\ disk = Opened
    /\ out = {}

----------------------------------------------------------------------------
(* Handlers: the new state and the messages sent.                          *)

\* Pa::reserve, in the order of its early returns.
CanReserve(st, o, buyer, amount) ==
    /\ st.holds[o].state = "none"
    /\ amount > 0
    /\ st.ledger[buyer] >= amount

Reserved(st, o, buyer, seller, amount) ==
    [ledger |-> [st.ledger EXCEPT ![buyer] = @ - amount],
     holds |-> [st.holds EXCEPT ![o] =
         [buyer |-> buyer, seller |-> seller, amount |-> amount, state |-> "held"]]]

ReserveSends(st, o, buyer, seller, amount) ==
    IF CanReserve(st, o, buyer, amount)
    THEN {Receipt(buyer, o, "held"), Receipt(seller, o, "held")}
    ELSE {Deny(buyer, o)}

\* Mutant: the payment ends the hold, and is repeated by a repeated accept.
AcceptedAgain(st, o) ==
    [ledger |-> [st.ledger EXCEPT ![st.holds[o].seller] = WrappingAdd(@, st.holds[o].amount)],
     holds |-> [st.holds EXCEPT ![o].state = "paid"]]

\* Pa::accept by the seller: pays a held order.
Accepted(st, o) ==
    IF st.holds[o].state = "held"
    THEN [ledger |-> [st.ledger EXCEPT ![st.holds[o].seller] = WrappingAdd(@, st.holds[o].amount)],
          holds |-> [st.holds EXCEPT ![o].state = "paid"]]
    ELSE st

\* Mutant: a paid order is refunded.
CancelledAlways(st, o) ==
    [ledger |-> [st.ledger EXCEPT ![st.holds[o].buyer] = WrappingAdd(@, st.holds[o].amount)],
     holds |-> [st.holds EXCEPT ![o].state = "cancelled"]]

\* Pa::cancel by either party: refunds a held order.
Cancelled(st, o) ==
    IF st.holds[o].state = "held"
    THEN [ledger |-> [st.ledger EXCEPT ![st.holds[o].buyer] = WrappingAdd(@, st.holds[o].amount)],
          holds |-> [st.holds EXCEPT ![o].state = "cancelled"]]
    ELSE st

\* Both handlers end by sending both parties a receipt, whatever the hold's
\* state was.
Receipts(st, o, status) ==
    {Receipt(st.holds[o].buyer, o, status), Receipt(st.holds[o].seller, o, status)}

\* Mutant: the write is forgotten.
PersistForgotten(st) == disk' = disk

\* Pa::persist rewrites the one key; an error is ignored.
Persist(st) ==
    \/ disk' = st
    \/ SaveMayFail /\ disk' = disk

----------------------------------------------------------------------------
(* Actions: one message, from its authenticated sender.                    *)

Reserve(o, buyer, seller, amount) ==
    /\ out' = ReserveSends(pa, o, buyer, seller, amount)
    /\ IF CanReserve(pa, o, buyer, amount)
       THEN /\ pa' = Reserved(pa, o, buyer, seller, amount)
            /\ Persist(pa')
       ELSE UNCHANGED <<pa, disk>>

Accept(o, from) ==
    /\ pa.holds[o].state # "none"
    /\ IF from # pa.holds[o].seller
       THEN out' = {Deny(from, o)} /\ UNCHANGED <<pa, disk>>
       ELSE /\ pa' = Accepted(pa, o)
            /\ IF pa' = pa THEN disk' = disk ELSE Persist(pa')
            /\ out' = Receipts(pa, o, "paid")

Cancel(o, from) ==
    /\ pa.holds[o].state # "none"
    /\ IF from \notin {pa.holds[o].buyer, pa.holds[o].seller}
       THEN out' = {Deny(from, o)} /\ UNCHANGED <<pa, disk>>
       ELSE /\ pa' = Cancelled(pa, o)
            /\ IF pa' = pa THEN disk' = disk ELSE Persist(pa')
            /\ out' = Receipts(pa, o, "cancelled")

\* The node dies and boots again: Pa::open reads the store, and mesh_node
\* applies FIPA_SEED, which overwrites the balances it names and saves.
Booted(st) ==
    [st EXCEPT !.ledger = [x \in Accounts |-> IF x \in SeedOnBoot THEN Seed[x] ELSE @[x]]]

Restart ==
    /\ pa' = Booted(disk)
    /\ IF SeedOnBoot = {} THEN disk' = disk ELSE Persist(pa')
    /\ out' = {}

Next ==
    \/ \E o \in Orders, buyer, seller \in Accounts, amount \in Amounts :
           Reserve(o, buyer, seller, amount)
    \/ \E o \in Orders, from \in Accounts : Accept(o, from) \/ Cancel(o, from)
    \/ Restart

Spec == Init /\ [][Next]_vars

----------------------------------------------------------------------------
(* Properties.                                                             *)

TypeOK ==
    /\ pa \in States
    /\ disk \in States
    /\ out \in SUBSET Outgoing

InEscrow(st) == [o \in Orders |-> IF st.holds[o].state = "held" THEN st.holds[o].amount ELSE 0]

Total(st) == SumFunction(st.ledger) + SumFunction(InEscrow(st))

\* Money is neither made nor lost: what the accounts hold and what is in escrow
\* add up to the opening balances, in memory and in the store, whatever
\* messages arrive and wherever the node dies (PA_DESIGN: "a crash/restart
\* recovers in-flight escrow").
MoneyConserved ==
    /\ Total(pa) = SumFunction(Seed)
    /\ Total(disk) = SumFunction(Seed)

\* A hold that was paid or cancelled stays so, with the same parties and
\* amount, also across restarts (PA_DESIGN: "the one-way state machine").
FinalStays ==
    \A o \in Orders :
        /\ pa.holds[o].state \in {"paid", "cancelled"} => pa'.holds[o] = pa.holds[o]
        /\ pa.holds[o].state = "held"
              => /\ pa'.holds[o].state # "none"
                 /\ pa'.holds[o].buyer = pa.holds[o].buyer
                 /\ pa'.holds[o].seller = pa.holds[o].seller
                 /\ pa'.holds[o].amount = pa.holds[o].amount

OneWay == [][FinalStays]_vars

\* What PA has told anyone is in the store: a restart recovers exactly the
\* state the last receipts were about.
Saved == disk = pa

\* PA's books are well formed, no balance is below zero or beyond its width, and
\* what it would recover is what it has (Saved), whatever messages arrive and
\* wherever the node dies.
EscrowSafe == TypeOK /\ Saved

\* A balance falls only by a reserve of its own account, which puts what it
\* lost into a hold of that account.
OwnReserve(x) ==
    \E o \in Orders : /\ pa.holds[o].state = "none"
                     /\ pa'.holds[o].state = "held"
                     /\ pa'.holds[o].buyer = x
                     /\ pa'.holds[o].amount = pa.ledger[x] - pa'.ledger[x]

ChargedStep == \A x \in Accounts : pa'.ledger[x] < pa.ledger[x] => OwnReserve(x)

\* No account is charged for an order it did not place, by any message or
\* restart (PA_DESIGN: authorization is checked against the sender).
OnlyBuyerPays == [][ChargedStep]_vars

\* A payment is final and its payer chose it: a hold only moves forward, and no
\* message, repeated or out of order, and no restart takes money from an account
\* but its own reserve (Pa::on_message).
PaymentsFinal == [][FinalStays /\ ChargedStep]_vars

\* A receipt says what became of the hold (PA_DESIGN: "accept/deny on a
\* finalized hold: no-op; receipt echoes the current state").
ReceiptsEcho ==
    \A m \in out : m.verb = "receipt" => m.status = pa.holds[m.order].state
=============================================================================
