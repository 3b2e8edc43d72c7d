---------------------------- MODULE EscrowProofs ----------------------------
(***************************************************************************)
(* Theorems about Escrow, for every set of accounts and orders and every   *)
(* seed.  The ones about restarts assume what the code needs for them: the *)
(* store's writes succeed and FIPA_SEED is not applied again; the ones     *)
(* about money, that all the money there is fits a u64.  Then the theorem  *)
(* about BookBuy: what the buyer and the seller make of the bank's         *)
(* receipts.                                                               *)
(***************************************************************************)
EXTENDS BookBuy, SumTheorems, SequenceTheorems, TLAPS

\* u64 addition stays in u64, and is addition while it does not wrap.
LEMMA WrappingAddType ==
  ASSUME NEW m \in U64, NEW n \in U64
  PROVE  /\ WrappingAdd(m, n) \in U64
         /\ m + n <= MaxU64 => WrappingAdd(m, n) = m + n
<1>1. MaxU64 + 1 \in Nat /\ MaxU64 + 1 > 0 /\ m + n \in Nat
  BY EscrowAssumption DEF U64
<1>2. (m + n) % (MaxU64 + 1) \in 0 .. MaxU64
  BY <1>1, EscrowAssumption
<1>3. ASSUME m + n <= MaxU64
      PROVE  (m + n) % (MaxU64 + 1) = m + n
  BY <1>1, <1>3, EscrowAssumption
<1> QED BY <1>2, <1>3 DEF WrappingAdd, U64

\* The opening state is well typed.
LEMMA InitTypeOK == Init => TypeOK
  BY EscrowAssumption DEF Init, TypeOK, Opened, States, Holds, HoldStates, NoHold, U64

\* What the handlers make of a well-typed state is well typed.
LEMMA ReservedType ==
  ASSUME NEW st \in States, NEW o \in Orders, NEW buyer \in Accounts,
         NEW seller \in Accounts, NEW amount \in Amounts,
         CanReserve(st, o, buyer, amount)
  PROVE  Reserved(st, o, buyer, seller, amount) \in States
<1>1. st.ledger[buyer] - amount \in U64
  BY EscrowAssumption DEF CanReserve, States, Amounts, U64
<1>2. [buyer |-> buyer, seller |-> seller, amount |-> amount, state |-> "held"] \in Holds
  BY EscrowAssumption DEF Holds, HoldStates, Amounts, U64
<1> QED BY <1>1, <1>2 DEF Reserved, States

\* The parties of a hold that is there are accounts.
PartiesKnown(st) ==
    \A o \in Orders : st.holds[o].state # "none"
                         => st.holds[o].buyer \in Accounts /\ st.holds[o].seller \in Accounts

\* Paying keeps the state well typed and the parties known.
LEMMA AcceptedType ==
  ASSUME NEW st \in States, PartiesKnown(st), NEW o \in Orders
  PROVE  Accepted(st, o) \in States /\ PartiesKnown(Accepted(st, o))
<1>1. CASE st.holds[o].state = "held"
  <2>1. st.holds[o] \in Holds /\ st.holds[o].seller \in Accounts
    BY <1>1 DEF PartiesKnown, States
  <2>2. [st.holds[o] EXCEPT !.state = "paid"] \in Holds
    BY <2>1 DEF Holds, HoldStates
  <2>3. WrappingAdd(st.ledger[st.holds[o].seller], st.holds[o].amount) \in U64
    BY <2>1, WrappingAddType DEF States, Holds
  <2>4. Accepted(st, o) \in States
    BY <1>1, <2>1, <2>2, <2>3 DEF Accepted, States
  <2>5. \A p \in Orders :
           /\ Accepted(st, o).holds[p].buyer = st.holds[p].buyer
           /\ Accepted(st, o).holds[p].seller = st.holds[p].seller
           /\ Accepted(st, o).holds[p].state = "none" \/ st.holds[p].state # "none"
    BY <1>1, <2>1 DEF Accepted, States, Holds
  <2> QED BY <2>4, <2>5 DEF PartiesKnown
<1>2. CASE st.holds[o].state # "held"
  BY <1>2 DEF Accepted
<1> QED BY <1>1, <1>2

\* So does refunding.
LEMMA CancelledType ==
  ASSUME NEW st \in States, PartiesKnown(st), NEW o \in Orders
  PROVE  Cancelled(st, o) \in States /\ PartiesKnown(Cancelled(st, o))
<1>1. CASE st.holds[o].state = "held"
  <2>1. st.holds[o] \in Holds /\ st.holds[o].buyer \in Accounts
    BY <1>1 DEF PartiesKnown, States
  <2>2. [st.holds[o] EXCEPT !.state = "cancelled"] \in Holds
    BY <2>1 DEF Holds, HoldStates
  <2>3. WrappingAdd(st.ledger[st.holds[o].buyer], st.holds[o].amount) \in U64
    BY <2>1, WrappingAddType DEF States, Holds
  <2>4. Cancelled(st, o) \in States
    BY <1>1, <2>1, <2>2, <2>3 DEF Cancelled, States
  <2>5. \A p \in Orders :
           /\ Cancelled(st, o).holds[p].buyer = st.holds[p].buyer
           /\ Cancelled(st, o).holds[p].seller = st.holds[p].seller
           /\ Cancelled(st, o).holds[p].state = "none" \/ st.holds[p].state # "none"
    BY <1>1, <2>1 DEF Cancelled, States, Holds
  <2> QED BY <2>4, <2>5 DEF PartiesKnown
<1>2. CASE st.holds[o].state # "held"
  BY <1>2 DEF Cancelled
<1> QED BY <1>1, <1>2

\* So does a boot, seeded or not.
LEMMA BootedType ==
  ASSUME NEW st \in States, PartiesKnown(st)
  PROVE  Booted(st) \in States /\ PartiesKnown(Booted(st))
<1>1. [x \in Accounts |-> IF x \in SeedOnBoot THEN Seed[x] ELSE st.ledger[x]]
         \in [Accounts -> U64]
  BY EscrowAssumption DEF States, U64
<1>2. Booted(st) \in States /\ Booted(st).holds = st.holds
  BY <1>1 DEF Booted, States
<1> QED BY <1>2 DEF PartiesKnown

\* TypeOK with what it needs to be inductive.
EscrowInv == TypeOK /\ PartiesKnown(pa) /\ PartiesKnown(disk)

\* The invariant holds when the node first boots.
LEMMA InitEscrowInv == Init => EscrowInv
  BY InitTypeOK DEF EscrowInv, Init, PartiesKnown, Opened, NoHold

\* A new hold names two accounts.
LEMMA ReservedParties ==
  ASSUME NEW st \in States, PartiesKnown(st), NEW o \in Orders, NEW buyer \in Accounts,
         NEW seller \in Accounts, NEW amount \in Amounts
  PROVE  PartiesKnown(Reserved(st, o, buyer, seller, amount))
  BY DEF Reserved, PartiesKnown, States

\* What PA sends about an order is well typed when its parties are known.
LEMMA SendsType ==
  /\ \A st \in States, o \in Orders, buyer, seller \in Accounts, amount \in Amounts :
        ReserveSends(st, o, buyer, seller, amount) \subseteq Outgoing
  /\ \A o \in Orders, from \in Accounts : {Deny(from, o)} \subseteq Outgoing
  /\ \A st \in States, o \in Orders, status \in {"paid", "cancelled"} :
        PartiesKnown(st) /\ st.holds[o].state # "none"
           => Receipts(st, o, status) \subseteq Outgoing
  BY DEF ReserveSends, Receipts, Receipt, Deny, Outgoing, PartiesKnown

\* Every message and every restart keeps the invariant.
LEMMA StepEscrowInv == EscrowInv /\ [Next]_vars => EscrowInv'
<1> SUFFICES ASSUME EscrowInv, [Next]_vars
             PROVE  EscrowInv'
  OBVIOUS
<1> USE DEF EscrowInv, TypeOK
<1>1. ASSUME NEW o \in Orders, NEW buyer \in Accounts, NEW seller \in Accounts,
             NEW amount \in Amounts, Reserve(o, buyer, seller, amount)
      PROVE  EscrowInv'
  <2>1. out' \in SUBSET Outgoing
    BY <1>1, SendsType DEF Reserve
  <2>2. CASE CanReserve(pa, o, buyer, amount)
    <3>1. pa' \in States /\ PartiesKnown(pa')
      BY <1>1, <2>2, ReservedType, ReservedParties DEF Reserve
    <3>2. disk' = pa' \/ disk' = disk
      BY <1>1, <2>2 DEF Reserve, Persist
    <3> QED BY <2>1, <3>1, <3>2 DEF PartiesKnown
  <2>3. CASE ~ CanReserve(pa, o, buyer, amount)
    BY <1>1, <2>1, <2>3 DEF Reserve, PartiesKnown
  <2> QED BY <2>2, <2>3
<1>2. ASSUME NEW o \in Orders, NEW from \in Accounts, Accept(o, from)
      PROVE  EscrowInv'
  <2>1. CASE from # pa.holds[o].seller
    BY <1>2, <2>1, SendsType DEF Accept, PartiesKnown
  <2>2. CASE from = pa.holds[o].seller
    <3>1. pa' \in States /\ PartiesKnown(pa')
      BY <1>2, <2>2, AcceptedType DEF Accept
    <3>2. disk' = pa' \/ disk' = disk
      BY <1>2, <2>2 DEF Accept, Persist
    <3>3. out' \in SUBSET Outgoing
      BY <1>2, <2>2, SendsType DEF Accept
    <3> QED BY <3>1, <3>2, <3>3 DEF PartiesKnown
  <2> QED BY <2>1, <2>2
<1>3. ASSUME NEW o \in Orders, NEW from \in Accounts, Cancel(o, from)
      PROVE  EscrowInv'
  <2>1. CASE from \notin {pa.holds[o].buyer, pa.holds[o].seller}
    BY <1>3, <2>1, SendsType DEF Cancel, PartiesKnown
  <2>2. CASE from \in {pa.holds[o].buyer, pa.holds[o].seller}
    <3>1. pa' \in States /\ PartiesKnown(pa')
      BY <1>3, <2>2, CancelledType DEF Cancel
    <3>2. disk' = pa' \/ disk' = disk
      BY <1>3, <2>2 DEF Cancel, Persist
    <3>3. out' \in SUBSET Outgoing
      BY <1>3, <2>2, SendsType DEF Cancel
    <3> QED BY <3>1, <3>2, <3>3 DEF PartiesKnown
  <2> QED BY <2>1, <2>2
<1>4. CASE Restart
  <2>1. pa' \in States /\ PartiesKnown(pa')
    BY <1>4, BootedType DEF Restart
  <2>2. disk' = pa' \/ disk' = disk
    BY <1>4 DEF Restart, Persist
  <2> QED BY <1>4, <2>1, <2>2 DEF Restart, PartiesKnown
<1>5. CASE UNCHANGED vars
  BY <1>5 DEF vars, PartiesKnown
<1> QED BY <1>1, <1>2, <1>3, <1>4, <1>5 DEF Next

\* No balance is ever overdrawn and no hold names a stranger, for any accounts,
\* orders, amounts and restarts, also when the store loses writes.
THEOREM EscrowTypeCorrect == Spec => []TypeOK
<1>1. EscrowInv => TypeOK
  BY DEF EscrowInv
<1> QED BY InitEscrowInv, StepEscrowInv, <1>1, PTL DEF Spec

----------------------------------------------------------------------------
(* With a store that saves, seeded once.                                   *)

Durable == SaveMayFail = FALSE /\ SeedOnBoot = {}

\* A boot from a saved state changes nothing.
LEMMA BootedSame ==
  ASSUME NEW st \in States, Durable
  PROVE  Booted(st) = st
<1>1. [x \in Accounts |-> IF x \in SeedOnBoot THEN Seed[x] ELSE st.ledger[x]] = st.ledger
  BY DEF Durable, States
<1> QED BY <1>1 DEF Booted, States

\* One step keeps the store equal to PA's memory.
LEMMA StepSaved == Durable /\ EscrowInv /\ Saved /\ [Next]_vars => Saved'
<1> SUFFICES ASSUME Durable, EscrowInv, Saved, [Next]_vars
             PROVE  Saved'
  OBVIOUS
<1> USE DEF Saved, Durable
<1>1. ASSUME NEW o \in Orders, NEW buyer \in Accounts, NEW seller \in Accounts,
             NEW amount \in Amounts, Reserve(o, buyer, seller, amount)
      PROVE  Saved'
  BY <1>1 DEF Reserve, Persist
<1>2. ASSUME NEW o \in Orders, NEW from \in Accounts, Accept(o, from)
      PROVE  Saved'
  BY <1>2 DEF Accept, Persist
<1>3. ASSUME NEW o \in Orders, NEW from \in Accounts, Cancel(o, from)
      PROVE  Saved'
  BY <1>3 DEF Cancel, Persist
<1>4. CASE Restart
  BY <1>4, BootedSame DEF Restart, EscrowInv, TypeOK
<1>5. CASE UNCHANGED vars
  BY <1>5 DEF vars
<1> QED BY <1>1, <1>2, <1>3, <1>4, <1>5 DEF Next

\* Whatever PA has told anyone is in the store (Pa::persist before the sends).
THEOREM SavedHolds == Durable => (Spec => []Saved)
<1>1. Init => Saved
  BY DEF Init, Saved
<1> SUFFICES ASSUME Durable
             PROVE  Spec => []Saved
  OBVIOUS
<1>2. EscrowInv /\ Saved /\ [Next]_vars => Saved'
  BY StepSaved
<1> QED BY InitEscrowInv, StepEscrowInv, <1>1, <1>2, PTL DEF Spec

\* In one step a finished hold does not change, and an open one keeps its
\* parties and its amount.
LEMMA StepFinal == Durable /\ EscrowInv /\ Saved /\ [Next]_vars => [FinalStays]_vars
<1> SUFFICES ASSUME Durable, EscrowInv, Saved, Next
             PROVE  FinalStays
  BY DEF vars
<1> USE DEF EscrowInv, TypeOK
<1>1. ASSUME NEW o \in Orders, NEW buyer \in Accounts, NEW seller \in Accounts,
             NEW amount \in Amounts, Reserve(o, buyer, seller, amount)
      PROVE  FinalStays
  <2>1. CASE CanReserve(pa, o, buyer, amount)
    BY <1>1, <2>1 DEF Reserve, CanReserve, Reserved, FinalStays, States
  <2>2. CASE ~ CanReserve(pa, o, buyer, amount)
    BY <1>1, <2>2 DEF Reserve, FinalStays
  <2> QED BY <2>1, <2>2
<1>2. ASSUME NEW o \in Orders, NEW from \in Accounts, Accept(o, from)
      PROVE  FinalStays
  <2>1. pa' = pa \/ pa' = Accepted(pa, o)
    BY <1>2 DEF Accept
  <2> QED BY <1>2, <2>1 DEF Accepted, FinalStays, States, Holds
<1>3. ASSUME NEW o \in Orders, NEW from \in Accounts, Cancel(o, from)
      PROVE  FinalStays
  <2>1. pa' = pa \/ pa' = Cancelled(pa, o)
    BY <1>3 DEF Cancel
  <2> QED BY <1>3, <2>1 DEF Cancelled, FinalStays, States, Holds
<1>4. CASE Restart
  <2>1. pa' = pa
    BY <1>4, BootedSame DEF Restart, Saved
  <2> QED BY <2>1 DEF FinalStays
<1> QED BY <1>1, <1>2, <1>3, <1>4 DEF Next

\* A paid or cancelled hold is final, across restarts (PA_DESIGN's one-way
\* state machine), for any accounts, orders and amounts.
THEOREM OneWayHolds == Durable => (Spec => OneWay)
<1> SUFFICES ASSUME Durable
             PROVE  Spec => OneWay
  OBVIOUS
<1>1. Init => Saved
  BY DEF Init, Saved
<1>2. EscrowInv /\ Saved /\ [Next]_vars => Saved'
  BY StepSaved
<1>3. EscrowInv /\ Saved /\ [Next]_vars => [FinalStays]_vars
  BY StepFinal
<1> QED BY InitEscrowInv, StepEscrowInv, <1>1, <1>2, <1>3, PTL DEF Spec, OneWay

\* No balance plus an open hold exceeds a u64.
NoWrap ==
    \A o \in Orders, x \in Accounts :
        pa.holds[o].state = "held" => pa.ledger[x] + pa.holds[o].amount <= MaxU64

\* In one step a balance falls only by a reserve of its own account.
LEMMA StepCharged ==
  Durable /\ EscrowInv /\ Saved /\ NoWrap /\ [Next]_vars => [ChargedStep]_vars
<1> SUFFICES ASSUME Durable, EscrowInv, Saved, NoWrap, Next
             PROVE  ChargedStep
  BY DEF vars
<1> USE DEF EscrowInv, TypeOK
<1>1. ASSUME NEW o \in Orders, NEW buyer \in Accounts, NEW seller \in Accounts,
             NEW amount \in Amounts, Reserve(o, buyer, seller, amount)
      PROVE  ChargedStep
  <2>1. CASE CanReserve(pa, o, buyer, amount)
    <3> SUFFICES ASSUME NEW x \in Accounts, pa'.ledger[x] < pa.ledger[x]
                 PROVE  OwnReserve(x)
      BY DEF ChargedStep
    <3>1. x = buyer /\ pa'.ledger[x] = pa.ledger[x] - amount
      BY <1>1, <2>1, EscrowAssumption DEF Reserve, Reserved, States, Amounts, U64
    <3>2. pa'.holds[o] = [buyer |-> buyer, seller |-> seller, amount |-> amount,
                          state |-> "held"]
      BY <1>1, <2>1 DEF Reserve, Reserved, States
    <3>3. amount = pa.ledger[x] - pa'.ledger[x]
      BY <3>1, EscrowAssumption DEF States, Amounts, U64
    <3> QED BY <2>1, <3>1, <3>2, <3>3 DEF OwnReserve, CanReserve
  <2>2. CASE ~ CanReserve(pa, o, buyer, amount)
    BY <1>1, <2>2, EscrowAssumption DEF Reserve, ChargedStep, States, U64
  <2> QED BY <2>1, <2>2
<1>2. ASSUME NEW o \in Orders, NEW from \in Accounts, Accept(o, from)
      PROVE  ChargedStep
  <2>1. pa' = pa \/ pa' = Accepted(pa, o)
    BY <1>2 DEF Accept
  <2>2. ASSUME NEW x \in Accounts
        PROVE  pa'.ledger[x] >= pa.ledger[x]
    <3>1. pa.ledger[x] \in U64 /\ pa.holds[o].amount \in U64
      BY DEF States, Holds
    <3>2. \/ pa'.ledger[x] = pa.ledger[x]
          \/ pa'.ledger[x] = pa.ledger[x] + pa.holds[o].amount
      <4>1. CASE pa' = pa
        BY <4>1
      <4>2. CASE pa.holds[o].state = "held" /\ pa' = Accepted(pa, o)
        BY <3>1, <4>2, WrappingAddType DEF Accepted, States, NoWrap
      <4> QED BY <2>1, <4>1, <4>2 DEF Accepted
    <3> QED BY <3>1, <3>2, EscrowAssumption DEF U64
  <2>3. \A x \in Accounts : ~ (pa'.ledger[x] < pa.ledger[x])
    <3>1. pa' \in States
      BY StepEscrowInv DEF Next, vars
    <3> QED BY <2>2, <3>1, EscrowAssumption DEF States, U64
  <2> QED BY <2>3 DEF ChargedStep
<1>3. ASSUME NEW o \in Orders, NEW from \in Accounts, Cancel(o, from)
      PROVE  ChargedStep
  <2>1. pa' = pa \/ pa' = Cancelled(pa, o)
    BY <1>3 DEF Cancel
  <2>2. ASSUME NEW x \in Accounts
        PROVE  pa'.ledger[x] >= pa.ledger[x]
    <3>1. pa.ledger[x] \in U64 /\ pa.holds[o].amount \in U64
      BY DEF States, Holds
    <3>2. \/ pa'.ledger[x] = pa.ledger[x]
          \/ pa'.ledger[x] = pa.ledger[x] + pa.holds[o].amount
      <4>1. CASE pa' = pa
        BY <4>1
      <4>2. CASE pa.holds[o].state = "held" /\ pa' = Cancelled(pa, o)
        BY <3>1, <4>2, WrappingAddType DEF Cancelled, States, NoWrap
      <4> QED BY <2>1, <4>1, <4>2 DEF Cancelled
    <3> QED BY <3>1, <3>2, EscrowAssumption DEF U64
  <2>3. \A x \in Accounts : ~ (pa'.ledger[x] < pa.ledger[x])
    <3>1. pa' \in States
      BY StepEscrowInv DEF Next, vars
    <3> QED BY <2>2, <3>1, EscrowAssumption DEF States, U64
  <2> QED BY <2>3 DEF ChargedStep
<1>4. CASE Restart
  <2>1. pa' = pa
    BY <1>4, BootedSame DEF Restart, Saved
  <2> QED BY <2>1, EscrowAssumption DEF ChargedStep, States, U64
<1> QED BY <1>1, <1>2, <1>3, <1>4 DEF Next

----------------------------------------------------------------------------
(* With all the money there is in a u64.                                   *)

Solvent == SumFunction(Seed) <= MaxU64

\* The sums of the books of a well-typed state, over the accounts and over the orders.
LEMMA TotalIs ==
  ASSUME NEW st \in States
  PROVE  /\ Total(st) = SumFunctionOnSet(st.ledger, Accounts) + SumFunctionOnSet(InEscrow(st), Orders)
         /\ st.ledger \in [Accounts -> Nat] /\ InEscrow(st) \in [Orders -> Nat]
         /\ SumFunctionOnSet(st.ledger, Accounts) \in Nat
         /\ SumFunctionOnSet(InEscrow(st), Orders) \in Nat
<1>1. st.ledger \in [Accounts -> Nat]
  BY EscrowAssumption DEF States, U64
<1>2. \A o \in Orders : st.holds[o].amount \in Nat
  BY EscrowAssumption DEF States, Holds, U64
<1>3. InEscrow(st) \in [Orders -> Nat]
  BY <1>2 DEF InEscrow
<1>4. DOMAIN st.ledger = Accounts /\ DOMAIN InEscrow(st) = Orders
  BY <1>1, <1>3
<1>5. /\ SumFunctionOnSet(st.ledger, Accounts) \in Nat
      /\ SumFunctionOnSet(InEscrow(st), Orders) \in Nat
  BY <1>1, <1>3, EscrowAssumption, SumType
<1> QED BY <1>1, <1>3, <1>4, <1>5 DEF Total, SumFunction

\* While the money adds up to what fits a u64, no payment or refund wraps.
LEMMA NothingWraps ==
  ASSUME NEW st \in States, Total(st) <= MaxU64, NEW o \in Orders, st.holds[o].state = "held",
         NEW x \in Accounts
  PROVE  st.ledger[x] + st.holds[o].amount <= MaxU64
<1>1. InEscrow(st)[o] = st.holds[o].amount
  BY DEF InEscrow
<1>2. st.ledger[x] <= SumFunctionOnSet(st.ledger, Accounts)
  BY TotalIs, SumAtLeast, EscrowAssumption
<1>3. InEscrow(st)[o] <= SumFunctionOnSet(InEscrow(st), Orders)
  BY TotalIs, SumAtLeast, EscrowAssumption
<1>4. st.ledger[x] \in Nat /\ InEscrow(st)[o] \in Nat
  BY TotalIs
<1> HIDE DEF InEscrow
<1> QED BY <1>1, <1>2, <1>3, <1>4, TotalIs, EscrowAssumption

\* A balance and a hold that change by opposite amounts leave the total as it was.
LEMMA TotalMoves ==
  ASSUME NEW st \in States, NEW nx \in States, NEW x \in Accounts, NEW o \in Orders,
         NEW b \in Int, NEW h \in Int,
         nx.ledger = [st.ledger EXCEPT ![x] = b],
         \A p \in Orders : InEscrow(nx)[p] = IF p = o THEN h ELSE InEscrow(st)[p],
         b - st.ledger[x] = InEscrow(st)[o] - h
  PROVE  Total(nx) = Total(st)
<1>0. st.ledger \in [Accounts -> Int] /\ InEscrow(st) \in [Orders -> Int]
  BY TotalIs
<1>1. SumFunctionOnSet(nx.ledger, Accounts) = SumFunctionOnSet(st.ledger, Accounts) - st.ledger[x] + b
  <2>1. nx.ledger \in [Accounts -> Int] /\ nx.ledger[x] = b /\ \A y \in Accounts \ {x} : nx.ledger[y] = st.ledger[y]
    BY <1>0
  <2> QED BY <1>0, <2>1, SumChange, EscrowAssumption
<1>2. SumFunctionOnSet(InEscrow(nx), Orders) = SumFunctionOnSet(InEscrow(st), Orders) - InEscrow(st)[o] + h
  <2>1. /\ InEscrow(nx) \in [Orders -> Int] /\ InEscrow(nx)[o] = h
        /\ \A p \in Orders \ {o} : InEscrow(nx)[p] = InEscrow(st)[p]
    BY TotalIs
  <2> QED BY <1>0, <2>1, SumChange, EscrowAssumption
<1>3. st.ledger[x] \in Int /\ InEscrow(st)[o] \in Int
  BY <1>0
<1>4. /\ Total(st) = SumFunctionOnSet(st.ledger, Accounts) + SumFunctionOnSet(InEscrow(st), Orders)
      /\ Total(nx) = SumFunctionOnSet(nx.ledger, Accounts) + SumFunctionOnSet(InEscrow(nx), Orders)
      /\ SumFunctionOnSet(st.ledger, Accounts) \in Int /\ SumFunctionOnSet(InEscrow(st), Orders) \in Int
  BY TotalIs
<1> QED BY ONLY <1>1, <1>2, <1>3, <1>4, b \in Int, h \in Int, b - st.ledger[x] = InEscrow(st)[o] - h

\* A reserve moves its amount from the buyer's balance into escrow.
LEMMA ReservedTotal ==
  ASSUME NEW st \in States, NEW o \in Orders, NEW buyer \in Accounts, NEW seller \in Accounts,
         NEW amount \in Amounts, CanReserve(st, o, buyer, amount)
  PROVE  Total(Reserved(st, o, buyer, seller, amount)) = Total(st)
<1> DEFINE nx == Reserved(st, o, buyer, seller, amount)
<1>1. nx \in States
  BY ReservedType
<1>2. nx.ledger = [st.ledger EXCEPT ![buyer] = st.ledger[buyer] - amount]
  BY DEF Reserved
<1>3. nx.holds = [st.holds EXCEPT ![o] =
         [buyer |-> buyer, seller |-> seller, amount |-> amount, state |-> "held"]]
  BY DEF Reserved
<1>4. /\ InEscrow(st)[o] = 0
      /\ \A p \in Orders : InEscrow(nx)[p] = IF p = o THEN amount ELSE InEscrow(st)[p]
  BY <1>3 DEF InEscrow, States, CanReserve
<1>5. amount \in Int /\ st.ledger[buyer] \in Int
  BY EscrowAssumption DEF Amounts, States, U64
<1> HIDE DEF nx
<1>6. st.ledger[buyer] - amount - st.ledger[buyer] = 0 - amount
  BY <1>5
<1> QED BY <1>1, <1>2, <1>4, <1>5, <1>6, TotalMoves DEF nx

\* Ending a hold, by paying or by refunding, moves its amount to a balance.
LEMMA EndedTotal ==
  ASSUME NEW st \in States, PartiesKnown(st), Total(st) <= MaxU64, NEW o \in Orders
  PROVE  Total(Accepted(st, o)) = Total(st) /\ Total(Cancelled(st, o)) = Total(st)
<1>1. ASSUME st.holds[o].state = "held", NEW x \in Accounts, NEW final \in {"paid", "cancelled"},
             NEW nx \in States,
             nx.ledger = [st.ledger EXCEPT ![x] = WrappingAdd(st.ledger[x], st.holds[o].amount)],
             nx.holds = [st.holds EXCEPT ![o].state = final]
      PROVE  Total(nx) = Total(st)
  <2>1. st.ledger[x] \in U64 /\ st.holds[o].amount \in U64 /\ st.holds[o] \in Holds
    BY DEF States, Holds
  <2>2. WrappingAdd(st.ledger[x], st.holds[o].amount) = st.ledger[x] + st.holds[o].amount
    BY <1>1, <2>1, NothingWraps, WrappingAddType
  <2>3. /\ InEscrow(st)[o] = st.holds[o].amount
        /\ \A p \in Orders : InEscrow(nx)[p] = IF p = o THEN 0 ELSE InEscrow(st)[p]
    BY <1>1, <2>1 DEF InEscrow, States, Holds
  <2>4. st.ledger[x] \in Int /\ st.holds[o].amount \in Int
    BY <2>1, EscrowAssumption DEF U64
  <2>5. (st.ledger[x] + st.holds[o].amount) - st.ledger[x] = st.holds[o].amount - 0
    BY <2>4
  <2> QED BY <1>1, <2>2, <2>3, <2>4, <2>5, TotalMoves
<1>2. CASE st.holds[o].state = "held"
  <2>1. st.holds[o].seller \in Accounts /\ st.holds[o].buyer \in Accounts
    BY <1>2 DEF PartiesKnown
  <2>2. Accepted(st, o) \in States /\ Cancelled(st, o) \in States
    BY AcceptedType, CancelledType
  <2> QED BY <1>1, <1>2, <2>1, <2>2 DEF Accepted, Cancelled
<1>3. CASE st.holds[o].state # "held"
  BY <1>3 DEF Accepted, Cancelled
<1> QED BY <1>2, <1>3

\* The opening books hold the seed and nothing in escrow.
LEMMA OpenedTotal == Total(Opened) = SumFunction(Seed)
<1>1. Opened \in States /\ InEscrow(Opened) = [o \in Orders |-> 0]
  BY EscrowAssumption DEF Opened, States, Holds, HoldStates, NoHold, U64, InEscrow
<1>2. ASSUME NEW s \in SUBSET Orders
      PROVE  SumFunctionOnSet([o \in Orders |-> 0], s) = 0
  <2> DEFINE z == [o \in Orders |-> 0]
             G == {t \in SUBSET Orders : SumFunctionOnSet(z, t) = 0}
  <2>1. {} \in G
    BY SumEmpty
  <2>2. ASSUME NEW t \in SUBSET Orders, NEW y \in Orders \ t, t \in G PROVE t \union {y} \in G
    <3>1. IsFiniteSet(t \union {y}) /\ \A u \in t \union {y} : z[u] \in Int
      BY EscrowAssumption, FS_Subset
    <3>2. SumFunctionOnSet(z, t \union {y}) = z[y] + SumFunctionOnSet(z, (t \union {y}) \ {y})
      BY <3>1, SumRemove
    <3>3. (t \union {y}) \ {y} = t /\ z[y] = 0
      OBVIOUS
    <3> QED BY <2>2, <3>2, <3>3
  <2>3. SUBSET Orders \subseteq G
    <3> HIDE DEF G
    <3> QED BY <2>1, <2>2, FiniteSetInduction, EscrowAssumption
  <2> QED BY <2>3
<1>3. Opened.ledger = Seed /\ DOMAIN Seed = Accounts
  BY EscrowAssumption DEF Opened
<1>4. SumFunctionOnSet(InEscrow(Opened), Orders) = 0
  BY <1>1, <1>2
<1> QED BY <1>1, <1>3, <1>4, TotalIs DEF SumFunction

MoneyInv == EscrowInv /\ Saved /\ Total(pa) = SumFunction(Seed)

\* No message and no restart makes or loses money.
LEMMA StepMoney == Durable /\ Solvent /\ MoneyInv /\ [Next]_vars => MoneyInv'
<1> SUFFICES ASSUME Durable, Solvent, MoneyInv, [Next]_vars
             PROVE  Total(pa') = SumFunction(Seed)
  BY StepEscrowInv, StepSaved DEF MoneyInv
<1> USE DEF MoneyInv, EscrowInv, TypeOK, Solvent
<1>1. ASSUME NEW o \in Orders, NEW buyer \in Accounts, NEW seller \in Accounts,
             NEW amount \in Amounts, Reserve(o, buyer, seller, amount)
      PROVE  Total(pa') = Total(pa)
  BY <1>1, ReservedTotal DEF Reserve
<1>2. ASSUME NEW o \in Orders, NEW from \in Accounts, Accept(o, from)
      PROVE  Total(pa') = Total(pa)
  BY <1>2, EndedTotal DEF Accept
<1>3. ASSUME NEW o \in Orders, NEW from \in Accounts, Cancel(o, from)
      PROVE  Total(pa') = Total(pa)
  BY <1>3, EndedTotal DEF Cancel
<1>4. CASE Restart
  BY <1>4, BootedSame DEF Restart, Saved
<1>5. CASE UNCHANGED vars
  BY <1>5 DEF vars
<1> QED BY <1>1, <1>2, <1>3, <1>4, <1>5 DEF Next

\* The books balance at every moment: for any accounts, orders, amounts and messages, in any order
\* and repeated, and wherever the node dies, the balances and what is in escrow add up to the seed,
\* in memory and in the store (reserve, accept, cancel, persist, open).
THEOREM MoneyConservedHolds == Durable /\ Solvent => (Spec => []MoneyConserved)
<1> SUFFICES ASSUME Durable, Solvent
             PROVE  Spec => []MoneyConserved
  OBVIOUS
<1>1. Init => MoneyInv
  BY InitEscrowInv, OpenedTotal DEF Init, Saved, MoneyInv
<1>2. MoneyInv /\ [Next]_vars => MoneyInv'
  BY StepMoney
<1>3. MoneyInv => MoneyConserved
  BY DEF MoneyInv, MoneyConserved, Saved
<1> QED BY <1>1, <1>2, <1>3, PTL DEF Spec

\* In such books nothing wraps.
LEMMA MoneyNoWrap == Solvent /\ MoneyInv => NoWrap
<1> SUFFICES ASSUME Solvent, MoneyInv PROVE NoWrap
  OBVIOUS
<1>1. pa \in States /\ Total(pa) <= MaxU64
  BY DEF Solvent, MoneyInv, EscrowInv, TypeOK
<1> QED BY <1>1, NothingWraps DEF NoWrap

\* No account pays for an order it did not place, for any accounts, orders and
\* amounts, across restarts.
THEOREM OnlyBuyerPaysHolds == Durable /\ Solvent => (Spec => OnlyBuyerPays)
<1> SUFFICES ASSUME Durable, Solvent
             PROVE  Spec => OnlyBuyerPays
  OBVIOUS
<1>1. Init => MoneyInv
  BY InitEscrowInv, OpenedTotal DEF Init, Saved, MoneyInv
<1>2. MoneyInv /\ [Next]_vars => MoneyInv'
  BY StepMoney
<1>3. MoneyInv /\ [Next]_vars => [ChargedStep]_vars
  BY StepCharged, MoneyNoWrap DEF MoneyInv
<1> QED BY <1>1, <1>2, <1>3, PTL DEF Spec, OnlyBuyerPays

----------------------------------------------------------------------------
(* Together.                                                               *)

\* If writes succeed and the seed is applied once, PA's books are well formed and
\* are what a restart would recover, for all accounts, orders and amounts.
THEOREM EscrowSafeHolds == Durable => (Spec => []EscrowSafe)
<1> SUFFICES ASSUME Durable
             PROVE  Spec => []EscrowSafe
  OBVIOUS
<1>1. TypeOK /\ Saved => EscrowSafe
  BY DEF EscrowSafe
<1> QED BY <1>1, EscrowTypeCorrect, SavedHolds, PTL

\* Under the same conditions, and when all the money fits a u64, a hold only moves
\* forward and a balance falls only by its owner's own reserve, across restarts
\* and repeated messages.
THEOREM PaymentsFinalHolds == Durable /\ Solvent => (Spec => PaymentsFinal)
<1> SUFFICES ASSUME Durable, Solvent
             PROVE  Spec => PaymentsFinal
  OBVIOUS
<1>1. [FinalStays]_vars /\ [ChargedStep]_vars => [FinalStays /\ ChargedStep]_vars
  OBVIOUS
<1> QED BY <1>1, OneWayHolds, OnlyBuyerPaysHolds, PTL DEF OneWay, OnlyBuyerPays, PaymentsFinal

----------------------------------------------------------------------------
(* The purchase (BookBuy): the invariant behind BookSafe.  There is one     *)
(* hold, and all that is said or done about the book is about that hold's   *)
(* buyer.  The order of the channel from PA to the seller is what keeps a   *)
(* cancelled order from being shipped: between a "held" receipt (or the     *)
(* reservation it made) and a later "paid" one lies a "cancelled" one.      *)

hold == pa.holds[LtG]

\* Message j of q is a receipt to the seller.
ToldAny(q, j) == q[j].to = bs /\ q[j].verb = "receipt"
Told(q, j, status) == ToldAny(q, j) /\ q[j].body = status

\* When the seller has handled what is before place k, it holds the book for nobody.
Revoked(q, by, k) ==
    /\ by # NoOne => \E i \in 1 .. k - 1 : Told(q, i, "cancelled")
    /\ \A j \in 1 .. k - 1 : Told(q, j, "held")
                                => \E i \in 1 .. k - 1 : j < i /\ Told(q, i, "cancelled")

Released(q, by) ==
    /\ Revoked(q, by, Len(q) + 1)
    /\ \A k \in 1 .. Len(q) : Told(q, k, "paid") => Revoked(q, by, k)

Party == Accounts \cup {"df", "ams", "pa"}
Verbs == {"bind", "offer", "seek", "provide", "locate", "at", "bound", "registered", "catalog",
          "reserve", "accept", "cancel", "receipt", "deny", "deliver"}
Bodies == {"none", "found", "missing", "held", "paid", "cancelled"}
Mail == [from : Party, to : Party, verb : Verbs, body : Bodies, who : Buyers \cup {NoOne}]

\* Who says what to whom.
Message(msg) ==
    /\ msg.verb = "receipt" => msg.from = "pa" /\ msg.body \in {"held", "paid", "cancelled"}
    /\ msg.to = "pa" => \/ msg.verb \in {"reserve", "cancel"} /\ msg.from \in Buyers
                        \/ msg.verb = "accept" /\ msg.from = bs
    /\ msg.verb \in {"seek", "locate"} => msg.from \in Buyers
    /\ msg.to = bs /\ msg.verb = "catalog" => msg.from \in Buyers

\* What is said of the order is said of the one hold h.
OfTheHold(h, msg) ==
    /\ msg.verb \in {"receipt", "deliver"} => h.state # "none"
    /\ msg.verb = "deliver" => msg.to = h.buyer
    /\ msg.verb = "receipt" /\ msg.to = bs /\ msg.body = "held" => msg.who = h.buyer

\* Everything under way is well formed and about hold h.
MailOK(h, q) == q \in Seq(Mail) /\ \A i \in 1 .. Len(q) : Message(q[i]) /\ OfTheHold(h, q[i])

OneBuyer(h) ==
    /\ h.state # "none" => h.buyer \in Buyers /\ h.seller = bs
    /\ buyerOf # NoOne => h.state # "none" /\ buyerOf = h.buyer
    /\ \A b \in Buyers : ba[b] = "done" => h.state # "none" /\ b = h.buyer

\* Nothing says that the order is paid; nothing is shipped.
Unpaid(q) == \A i \in 1 .. Len(q) : q[i].verb # "deliver" /\ ~ Told(q, i, "paid")
Unshipped(q) == \A i \in 1 .. Len(q) : q[i].verb # "deliver"

InOrder(h, q, by) ==
    /\ h.state = "held" => Unpaid(q)
    /\ h.state = "cancelled" => Unshipped(q) /\ Released(q, by)

BookInv ==
    /\ BookTypeOK /\ EscrowInv
    /\ MailOK(hold, net)
    /\ OneBuyer(hold)
    /\ lost = 0 => InOrder(hold, net, buyerOf)

\* The purchase's invariant says what BookSafe says.
LEMMA BookInvSafe == BookInv => BookSafe
<1> SUFFICES ASSUME BookInv PROVE BookSafe
  OBVIOUS
<1>1. SoldOnce
  BY DEF BookInv, OneBuyer, SoldOnce
<1>2. ASSUME lost = 0, NEW i \in 1 .. Len(net), net[i].verb = "deliver"
      PROVE  PaidBy(net[i].to)
  <2>1. hold.state # "none" /\ net[i].to = hold.buyer
    BY <1>2 DEF BookInv, MailOK, OfTheHold
  <2>2. hold.state \notin {"held", "cancelled"}
    BY <1>2 DEF BookInv, InOrder, Unpaid, Unshipped
  <2>3. hold.state \in HoldStates
    BY BookBuyAssumption DEF BookInv, BookTypeOK, TypeOK, States, Holds, hold
  <2> QED BY <2>1, <2>2, <2>3 DEF HoldStates, PaidBy, hold
<1> QED BY <1>1, <1>2 DEF BookInv, BookSafe, ShipOnlyPaid

\* It holds when the seller's node has sent its registrations.
LEMMA BookInitInv == BookInit => BookInv
<1> SUFFICES ASSUME BookInit PROVE BookInv
  OBVIOUS
<1>1. TypeOK /\ EscrowInv /\ hold.state = "none"
  BY InitTypeOK, InitEscrowInv, BookBuyAssumption DEF BookInit, Init, Opened, NoHold, hold
<1>2. net = <<Msg(bs, "ams", "bind", "none"), Msg(bs, "df", "offer", "none")>>
  BY DEF BookInit
<1>3. /\ Msg(bs, "ams", "bind", "none") \in Mail /\ Msg(bs, "df", "offer", "none") \in Mail
  BY BookBuyAssumption DEF Msg, Mail, Party, Verbs, Bodies
<1>4. net \in Seq(Mail) /\ Len(net) = 2
  BY <1>2, <1>3
<1>5. \A i \in 1 .. Len(net) : Message(net[i]) /\ OfTheHold(hold, net[i]) /\ net[i].who = NoOne
  BY <1>2, <1>4, BookBuyAssumption DEF Msg, Message, OfTheHold
<1>6. BookTypeOK
  <2>1. lost \in 0 .. MaxLost
    BY BookBuyAssumption DEF BookInit
  <2>2. {offered, bound} \subseteq BOOLEAN
    BY DEF BookInit
  <2>3. ba \in [Buyers -> BuyerStates]
    BY DEF BookInit, BuyerStates
  <2> QED BY <1>1, <1>5, <2>1, <2>2, <2>3 DEF BookInit, BookTypeOK
<1>7. OneBuyer(hold)
  BY <1>1 DEF BookInit, OneBuyer
<1> QED BY <1>1, <1>4, <1>5, <1>6, <1>7 DEF BookInv, MailOK, InOrder

\* A sequence without its i-th element.
LEMMA WithoutPlace ==
  ASSUME NEW S, NEW q \in Seq(S), NEW i \in 1 .. Len(q)
  PROVE  /\ RemoveAt(q, i) \in Seq(S) /\ Len(RemoveAt(q, i)) = Len(q) - 1 /\ Len(q) \in Nat
         /\ \A j \in 1 .. Len(q) - 1 : RemoveAt(q, i)[j] = IF j < i THEN q[j] ELSE q[j + 1]
<1> DEFINE a == SubSeq(q, 1, i - 1)
           b == SubSeq(q, i + 1, Len(q))
<1>0. Len(q) \in Nat
  OBVIOUS
<1>1. a \in Seq(S) /\ Len(a) = i - 1 /\ \A j \in 1 .. i - 1 : a[j] = q[j]
  BY <1>0
<1>2. b \in Seq(S) /\ Len(b) = Len(q) - i /\ \A j \in 1 .. Len(q) - i : b[j] = q[i + j]
  BY <1>0
<1> HIDE DEF a, b
<1>3. a \o b \in Seq(S) /\ Len(a \o b) = Len(q) - 1
  <2>0. a \in Seq(S) /\ b \in Seq(S)
    BY <1>1, <1>2
  <2>1. a \o b \in Seq(S) /\ Len(a \o b) = Len(a) + Len(b)
    BY ONLY <2>0
  <2> QED BY <1>0, <1>1, <1>2, <2>1
<1>4. ASSUME NEW j \in 1 .. Len(q) - 1 PROVE (a \o b)[j] = IF j < i THEN q[j] ELSE q[j + 1]
  <2>1. CASE j < i
    BY <1>0, <1>1, <1>2, <1>4, <2>1
  <2>2. CASE j >= i
    <3>1. (a \o b)[j] = b[j - (i - 1)]
      BY <1>0, <1>1, <1>2, <1>4, <2>2
    <3>2. j - (i - 1) \in 1 .. Len(q) - i /\ i + (j - (i - 1)) = j + 1
      BY <1>0, <1>4, <2>2
    <3>3. b[j - (i - 1)] = q[j + 1]
      BY <1>2, <3>2
    <3> QED BY <1>0, <2>2, <3>1, <3>3
  <2>3. j < i \/ j >= i
    BY <1>0
  <2> QED BY <2>1, <2>2, <2>3
<1>5. RemoveAt(q, i) = a \o b
  BY DEF RemoveAt, a, b
<1> QED BY <1>0, <1>3, <1>4, <1>5

\* What is appended keeps the places before it.
LEMMA Appended ==
  ASSUME NEW S, NEW q \in Seq(S), NEW ms \in Seq(S)
  PROVE  /\ q \o ms \in Seq(S) /\ Len(q \o ms) = Len(q) + Len(ms)
         /\ Len(q) \in Nat /\ Len(ms) \in Nat
         /\ \A j \in 1 .. Len(q) : (q \o ms)[j] = q[j]
         /\ \A j \in 1 .. Len(q) + Len(ms) : j > Len(q) => /\ j - Len(q) \in 1 .. Len(ms)
                                                        /\ (q \o ms)[j] = ms[j - Len(q)]
  OBVIOUS

\* Each message of r is one of q's other than the i-th, or one of ms.
OldOrNew(r, q, i, ms) ==
    \A j \in 1 .. Len(r) : \/ \E x \in 1 .. Len(q) : x # i /\ r[j] = q[x]
                          \/ \E x \in 1 .. Len(ms) : r[j] = ms[x]

\* The messages after a handler are those that were there and those it sends.
LEMMA AfterHandler ==
  ASSUME NEW S, NEW q \in Seq(S), NEW i \in 1 .. Len(q), NEW ms \in Seq(S)
  PROVE  /\ RemoveAt(q, i) \o ms \in Seq(S)
         /\ OldOrNew(RemoveAt(q, i) \o ms, q, i, ms)
<1> DEFINE p == RemoveAt(q, i)
<1>1. /\ p \in Seq(S) /\ Len(p) = Len(q) - 1 /\ Len(q) \in Nat
      /\ \A j \in 1 .. Len(q) - 1 : p[j] = IF j < i THEN q[j] ELSE q[j + 1]
  BY WithoutPlace
<1> HIDE DEF p
<1>2. /\ p \o ms \in Seq(S) /\ Len(p \o ms) = Len(p) + Len(ms)
      /\ Len(p) \in Nat /\ Len(ms) \in Nat
      /\ \A j \in 1 .. Len(p) : (p \o ms)[j] = p[j]
      /\ \A j \in 1 .. Len(p) + Len(ms) : j > Len(p) => /\ j - Len(p) \in 1 .. Len(ms)
                                                     /\ (p \o ms)[j] = ms[j - Len(p)]
  BY <1>1, Appended
<1>3. ASSUME NEW j \in 1 .. Len(p \o ms)
      PROVE  \/ \E x \in 1 .. Len(q) : x # i /\ (p \o ms)[j] = q[x]
             \/ \E x \in 1 .. Len(ms) : (p \o ms)[j] = ms[x]
  <2>1. CASE j > Len(p)
    BY <1>2, <2>1
  <2>2. CASE j <= Len(p)
    <3>1. j \in 1 .. Len(p) /\ j \in 1 .. Len(q) - 1 /\ j \in 1 .. Len(q) /\ j + 1 \in 1 .. Len(q)
      BY <1>1, <1>2, <2>2
    <3>2. (p \o ms)[j] = IF j < i THEN q[j] ELSE q[j + 1]
      BY <1>1, <1>2, <3>1
    <3>3. CASE j < i
      <4>1. j # i /\ (p \o ms)[j] = q[j] /\ j \in 1 .. Len(q)
        BY <3>1, <3>2, <3>3
      <4> QED BY ONLY <4>1
    <3>4. CASE ~ (j < i)
      <4>1. j + 1 # i /\ (p \o ms)[j] = q[j + 1] /\ j + 1 \in 1 .. Len(q)
        BY <3>1, <3>2, <3>4
      <4> QED BY ONLY <4>1
    <3> QED BY ONLY <3>3, <3>4
  <2>3. j > Len(p) \/ j <= Len(p)
    <3>1. Len(p \o ms) \in Nat /\ Len(p) \in Nat
      BY ONLY <1>2
    <3>2. j \in Int
      BY <3>1
    <3> QED BY ONLY <3>1, <3>2
  <2> QED BY ONLY <2>1, <2>2, <2>3
<1> QED BY <1>2, <1>3 DEF p, OldOrNew

\* A receipt at place i is the first under way to the seller.
FirstTold(q, i) == ToldAny(q, i) => \A j \in 1 .. i - 1 : ~ ToldAny(q, j)

\* Who the seller holds the book for after the message at place i.
ByAfter(q, i, by) ==
    IF Told(q, i, "held") THEN q[i].who
    ELSE IF Told(q, i, "cancelled") THEN NoOne ELSE by

\* Handling a message keeps a later place behind the revocation.
LEMMA RevokedRemoved ==
  ASSUME NEW S, NEW q \in Seq(S), NEW i \in 1 .. Len(q), NEW by, NEW k \in 1 .. Len(q) + 1,
         Revoked(q, by, k), FirstTold(q, i), i # k, ToldAny(q, i) => i < k
  PROVE  Revoked(RemoveAt(q, i), ByAfter(q, i, by), IF k < i THEN k ELSE k - 1)
<1> DEFINE p == RemoveAt(q, i)
           kp == IF k < i THEN k ELSE k - 1
           nb == ByAfter(q, i, by)
<1>1. /\ Len(p) = Len(q) - 1 /\ Len(q) \in Nat
      /\ \A j \in 1 .. Len(q) - 1 : p[j] = IF j < i THEN q[j] ELSE q[j + 1]
  BY WithoutPlace
<1> HIDE DEF p
\* A cancelled receipt before k, not at i, is one before kp.
<1>2. ASSUME NEW c \in 1 .. k - 1, c # i, Told(q, c, "cancelled")
      PROVE  LET d == IF c < i THEN c ELSE c - 1
             IN  d \in 1 .. kp - 1 /\ Told(p, d, "cancelled")
  <2> DEFINE d == IF c < i THEN c ELSE c - 1
  <2>1. d \in 1 .. kp - 1 /\ d \in 1 .. Len(q) - 1 /\ (d < i => d = c) /\ (~ (d < i) => d + 1 = c)
    BY <1>1, <1>2
  <2>2. p[d] = q[c]
    BY <1>1, <2>1
  <2> QED BY <1>2, <2>1, <2>2 DEF Told, ToldAny
<1>3. ASSUME nb # NoOne
      PROVE  \E d \in 1 .. kp - 1 : Told(p, d, "cancelled")
  <2>1. CASE Told(q, i, "held")
    <3>1. i \in 1 .. k - 1
      BY <1>1, <2>1 DEF Told
    <3>2. PICK c \in 1 .. k - 1 : i < c /\ Told(q, c, "cancelled")
      BY <2>1, <3>1 DEF Revoked
    <3> QED BY <1>2, <3>2
  <2>2. CASE ~ Told(q, i, "held")
    <3>1. by # NoOne /\ ~ Told(q, i, "cancelled")
      BY <1>3, <2>2 DEF ByAfter
    <3>2. PICK c \in 1 .. k - 1 : Told(q, c, "cancelled")
      BY <3>1 DEF Revoked
    <3> QED BY <1>2, <3>1, <3>2
  <2> QED BY <2>1, <2>2
<1>4. ASSUME NEW j \in 1 .. kp - 1, Told(p, j, "held")
      PROVE  \E d \in 1 .. kp - 1 : j < d /\ Told(p, d, "cancelled")
  <2> DEFINE x == IF j < i THEN j ELSE j + 1
  <2>1. x \in 1 .. k - 1 /\ x # i /\ j \in 1 .. Len(q) - 1
    BY <1>1
  <2>2. p[j] = q[x]
    BY <1>1, <2>1
  <2>3. PICK c \in 1 .. k - 1 : x < c /\ Told(q, c, "cancelled")
    BY <1>4, <2>1, <2>2 DEF Revoked, Told, ToldAny
  <2>4. c # i
    BY <1>1, <1>4, <2>1, <2>2, <2>3 DEF FirstTold, Told, ToldAny
  <2>5. j < (IF c < i THEN c ELSE c - 1)
    BY <1>1, <2>1, <2>3, <2>4
  <2> QED BY <1>2, <2>3, <2>4, <2>5
<1> QED BY <1>3, <1>4 DEF Revoked, p

\* New messages leave the places up to them as they were; a new "cancelled" receipt, last,
\* revokes whatever there was, and others do not reserve again.
LEMMA RevokedAppended ==
  ASSUME NEW S, NEW q \in Seq(S), NEW ms \in Seq(S), NEW by
  PROVE  /\ \A k \in 1 .. Len(q) + 1 : Revoked(q, by, k) => Revoked(q \o ms, by, k)
         /\ Revoked(q, by, Len(q) + 1) /\ (\A x \in 1 .. Len(ms) : ~ Told(ms, x, "held"))
              => \A k \in Len(q) + 1 .. Len(q \o ms) + 1 : Revoked(q \o ms, by, k)
         /\ Told(q \o ms, Len(q \o ms), "cancelled") /\ Len(ms) > 0
              => Revoked(q \o ms, by, Len(q \o ms) + 1)
<1> DEFINE r == q \o ms
<1>1. /\ r \in Seq(S) /\ Len(r) = Len(q) + Len(ms)
      /\ Len(q) \in Nat /\ Len(ms) \in Nat
      /\ \A j \in 1 .. Len(q) : r[j] = q[j]
      /\ \A j \in 1 .. Len(q) + Len(ms) : j > Len(q) => /\ j - Len(q) \in 1 .. Len(ms)
                                                     /\ r[j] = ms[j - Len(q)]
  BY Appended
<1> HIDE DEF r
<1>2. \A j \in 1 .. Len(q), st \in {"held", "cancelled"} : Told(r, j, st) <=> Told(q, j, st)
  BY <1>1 DEF Told, ToldAny
<1>3. ASSUME NEW k \in 1 .. Len(q) + 1, Revoked(q, by, k) PROVE Revoked(r, by, k)
  <2>1. \A j \in 1 .. k - 1 : j \in 1 .. Len(q)
    BY <1>1
  <2> QED BY <1>2, <1>3, <2>1 DEF Revoked
<1>4. ASSUME Revoked(q, by, Len(q) + 1), \A x \in 1 .. Len(ms) : ~ Told(ms, x, "held"),
             NEW k \in Len(q) + 1 .. Len(r) + 1
      PROVE  Revoked(r, by, k)
  <2>1. Len(q) + 1 - 1 = Len(q) /\ \A j \in 1 .. Len(q) : j \in 1 .. k - 1
    BY <1>1
  <2>2. ASSUME NEW j \in 1 .. k - 1, Told(r, j, "held") PROVE j \in 1 .. Len(q)
    <3>1. CASE j > Len(q)
      <4>1. j \in 1 .. Len(q) + Len(ms)
        BY <1>1, <1>4
      <4>2. j - Len(q) \in 1 .. Len(ms) /\ r[j] = ms[j - Len(q)]
        BY <1>1, <3>1, <4>1
      <4> QED BY <1>4, <2>2, <4>2 DEF Told, ToldAny
    <3> QED BY <1>1, <3>1
  <2> QED BY <1>2, <1>4, <2>1, <2>2 DEF Revoked
<1>5. ASSUME Told(r, Len(r), "cancelled"), Len(ms) > 0
      PROVE  Revoked(r, by, Len(r) + 1)
  <2>1. Len(r) \in 1 .. Len(r) + 1 - 1
    BY <1>1, <1>5
  <2>2. \A j \in 1 .. Len(r) + 1 - 1 : Told(r, j, "held") => j < Len(r)
    BY <1>1, <1>5 DEF Told
  <2> QED BY <1>5, <2>1, <2>2 DEF Revoked
<1> QED BY <1>3, <1>4, <1>5 DEF r

\* Handling a message and answering it keeps the receipts in order: an open hold is not said to be
\* paid, and after a cancellation the reservation is gone before anything says "paid".
LEMMA InOrderAfter ==
  ASSUME NEW S, NEW q \in Seq(S), NEW ms \in Seq(S), NEW i \in 1 .. Len(q), NEW by, NEW g,
         FirstTold(q, i),
         g.state = "held" => Unpaid(q) /\ Unpaid(ms),
         g.state = "cancelled" =>
            /\ Unshipped(q) /\ Unshipped(ms)
            /\ \/ Released(q, by) /\ \A x \in 1 .. Len(ms) : ~ Told(ms, x, "held")
               \/ Unpaid(q) /\ Unpaid(ms) /\ Len(ms) > 0 /\ Told(ms, Len(ms), "cancelled")
  PROVE  InOrder(g, RemoveAt(q, i) \o ms, ByAfter(q, i, by))
<1> DEFINE p == RemoveAt(q, i)
           r == p \o ms
           nb == ByAfter(q, i, by)
<1>1. /\ p \in Seq(S) /\ Len(p) = Len(q) - 1 /\ Len(q) \in Nat
      /\ \A j \in 1 .. Len(q) - 1 : p[j] = IF j < i THEN q[j] ELSE q[j + 1]
  BY WithoutPlace
<1> HIDE DEF p
<1> HIDE DEF r
<1>2. /\ r \in Seq(S) /\ \A j \in 1 .. Len(r) :
               \/ \E x \in 1 .. Len(q) : x # i /\ r[j] = q[x]
               \/ \E x \in 1 .. Len(ms) : r[j] = ms[x]
  <2>1. RemoveAt(q, i) \o ms \in Seq(S) /\ OldOrNew(RemoveAt(q, i) \o ms, q, i, ms)
    BY AfterHandler
  <2>2. r = RemoveAt(q, i) \o ms
    BY DEF r, p
  <2> HIDE DEF p
  <2> QED BY ONLY <2>1, <2>2 DEF OldOrNew
<1>3. /\ r \in Seq(S) /\ Len(r) = Len(p) + Len(ms)
      /\ Len(p) \in Nat /\ Len(ms) \in Nat
      /\ \A j \in 1 .. Len(p) : r[j] = p[j]
      /\ \A j \in 1 .. Len(p) + Len(ms) : j > Len(p) => /\ j - Len(p) \in 1 .. Len(ms)
                                                     /\ r[j] = ms[j - Len(p)]
  BY <1>1, Appended DEF r
<1>4. Unpaid(q) /\ Unpaid(ms) => Unpaid(r)
  BY <1>2 DEF Unpaid, Told, ToldAny
<1>5. Unshipped(q) /\ Unshipped(ms) => Unshipped(r)
  BY <1>2 DEF Unshipped
<1>6. ASSUME Released(q, by), \A x \in 1 .. Len(ms) : ~ Told(ms, x, "held")
      PROVE  Released(r, nb)
  <2>1. \A k \in 1 .. Len(q) + 1 : Revoked(q, by, k) /\ i # k /\ (ToldAny(q, i) => i < k)
                                    => Revoked(p, nb, IF k < i THEN k ELSE k - 1)
    BY RevokedRemoved DEF p
  <2>2. Revoked(p, nb, Len(p) + 1)
    <3>1. Len(q) + 1 \in 1 .. Len(q) + 1 /\ i < Len(q) + 1 /\ i # Len(q) + 1
          /\ ~ (Len(q) + 1 < i) /\ Len(q) + 1 - 1 = Len(p) + 1
      BY <1>1
    <3>2. Revoked(q, by, Len(q) + 1)
      BY <1>6 DEF Released
    <3> QED BY <2>1, <3>1, <3>2
  <2>3. /\ \A k \in 1 .. Len(p) + 1 : Revoked(p, nb, k) => Revoked(r, nb, k)
        /\ \A k \in Len(p) + 1 .. Len(r) + 1 : Revoked(r, nb, k)
    BY <1>1, <1>6, <2>2, RevokedAppended DEF r
  <2>4. Len(r) + 1 \in Len(p) + 1 .. Len(r) + 1
    BY <1>3
  <2>5. ASSUME NEW j \in 1 .. Len(r), Told(r, j, "paid") PROVE Revoked(r, nb, j)
    <3>1. CASE j > Len(p)
      <4>1. j \in Len(p) + 1 .. Len(r) + 1
        BY <1>3, <3>1
      <4> QED BY <2>3, <4>1
    <3>2. CASE j <= Len(p)
      <4> DEFINE k == IF j < i THEN j ELSE j + 1
      <4>1. /\ j \in 1 .. Len(p) /\ j \in 1 .. Len(q) - 1 /\ j \in 1 .. Len(p) + 1
            /\ k \in 1 .. Len(q) /\ k \in 1 .. Len(q) + 1 /\ k # i
            /\ (IF k < i THEN k ELSE k - 1) = j
        BY <1>1, <1>3, <3>2
      <4>2. r[j] = q[k]
        BY <1>1, <1>3, <4>1
      <4>3. Told(q, k, "paid")
        BY <2>5, <4>2 DEF Told, ToldAny
      <4>4. ToldAny(q, i) => i < k
        BY <1>1, <4>1, <4>3 DEF FirstTold, Told
      <4>5. Revoked(q, by, k)
        BY <1>6, <4>1, <4>3 DEF Released
      <4>6. Revoked(p, nb, IF k < i THEN k ELSE k - 1)
        BY <2>1, <4>1, <4>4, <4>5
      <4> HIDE DEF k
      <4>7. Revoked(p, nb, j)
        BY <4>1, <4>6
      <4> QED BY <2>3, <4>1, <4>7
    <3> QED BY <1>3, <3>1, <3>2
  <2> QED BY <2>3, <2>4, <2>5 DEF Released
<1>7. ASSUME Unpaid(q), Unpaid(ms), Len(ms) > 0, Told(ms, Len(ms), "cancelled")
      PROVE  Released(r, nb)
  <2>1. r[Len(r)] = ms[Len(ms)]
    BY <1>3, <1>7
  <2>2. Told(r, Len(r), "cancelled")
    BY <1>7, <2>1 DEF Told, ToldAny
  <2>3. Revoked(r, nb, Len(r) + 1)
    BY <1>1, <1>7, <2>2, RevokedAppended DEF r
  <2> QED BY <1>4, <1>7, <2>3 DEF Released, Unpaid
<1> QED BY <1>4, <1>5, <1>6, <1>7 DEF InOrder, r, p

\* A sequence of no elements and of one.
LEMMA SetToSeqSmall ==
  /\ SetToSeq({}) = <<>>
  /\ \A x : SetToSeq({x}) = <<x>>
<1>1. Cardinality({}) = 0 /\ \A x : Cardinality({x}) = 1
  BY FS_EmptySet, FS_Singleton
<1>2. SetToSeq({}) = <<>>
  <2>1. \E f \in [1 .. 0 -> {}] : IsInjective(f)
    <3>1. <<>> \in [1 .. 0 -> {}] /\ IsInjective(<<>>)
      BY DEF IsInjective
    <3> QED BY <3>1
  <2>2. SetToSeq({}) \in [1 .. 0 -> {}]
    BY <1>1, <2>1 DEF SetToSeq
  <2>3. SetToSeq({}) \in Seq({}) /\ Len(SetToSeq({})) = 0
    BY <2>2
  <2> QED BY <2>3, EmptySeq
<1>3. ASSUME NEW x PROVE SetToSeq({x}) = <<x>>
  <2>1. <<x>> \in [1 .. 1 -> {x}] /\ \A f \in [1 .. 1 -> {x}] : f = <<x>>
    OBVIOUS
  <2>2. IsInjective(<<x>>)
    BY DEF IsInjective
  <2>3. SetToSeq({x}) = CHOOSE f \in [1 .. 1 -> {x}] : IsInjective(f)
    BY <1>1 DEF SetToSeq
  <2> QED BY <2>1, <2>2, <2>3
<1> QED BY <1>2, <1>3

\* What PA's handlers send: a deny to the one who asked, or both parties' receipts, the buyer's first.
LEMMA PaSendsIs ==
  ASSUME NEW b \in Buyers, NEW c \in Accounts
  PROVE  /\ PaSends({Deny(b, LtG)}, c) = <<Msg("pa", b, "deny", "none")>>
         /\ \A st \in {"held", "paid", "cancelled"} :
              PaSends({Receipt(b, LtG, st), Receipt(bs, LtG, st)}, c)
                = <<Msg("pa", b, "receipt", st),
                    [Msg("pa", bs, "receipt", st) EXCEPT !.who = IF st = "held" THEN c ELSE NoOne]>>
<1> USE BookBuyAssumption
<1> DEFINE as(m) == [Msg("pa", m.to, m.verb, m.status)
                       EXCEPT !.who = IF m.to = bs /\ m.status = "held" THEN c ELSE NoOne]
<1>1. \A ms : PaSends(ms, c) = SetToSeq({as(m) : m \in {x \in ms : x.to \in Buyers}})
                               \o SetToSeq({as(m) : m \in {x \in ms : x.to \in {bs}}})
  BY DEF PaSends
<1>2. PaSends({Deny(b, LtG)}, c) = <<Msg("pa", b, "deny", "none")>>
  <2>1. {x \in {Deny(b, LtG)} : x.to \in Buyers} = {Deny(b, LtG)}
        /\ {x \in {Deny(b, LtG)} : x.to \in {bs}} = {}
    BY DEF Deny
  <2>2. as(Deny(b, LtG)) = Msg("pa", b, "deny", "none")
    BY DEF Deny, Msg
  <2> HIDE DEF as
  <2>3. /\ {as(m) : m \in {Deny(b, LtG)}} = {Msg("pa", b, "deny", "none")}
        /\ {as(m) : m \in {}} = {}
    BY <2>2
  <2>4. PaSends({Deny(b, LtG)}, c) = SetToSeq({Msg("pa", b, "deny", "none")}) \o SetToSeq({})
    BY <1>1, <2>1, <2>3
  <2>5. PaSends({Deny(b, LtG)}, c) = <<Msg("pa", b, "deny", "none")>> \o <<>>
    BY <2>4, SetToSeqSmall
  <2> QED BY <2>5
<1>3. ASSUME NEW st \in {"held", "paid", "cancelled"}
      PROVE  PaSends({Receipt(b, LtG, st), Receipt(bs, LtG, st)}, c)
               = <<Msg("pa", b, "receipt", st),
                   [Msg("pa", bs, "receipt", st) EXCEPT !.who = IF st = "held" THEN c ELSE NoOne]>>
  <2> DEFINE two == {Receipt(b, LtG, st), Receipt(bs, LtG, st)}
             toBs == [Msg("pa", bs, "receipt", st) EXCEPT !.who = IF st = "held" THEN c ELSE NoOne]
  <2>1. {x \in two : x.to \in Buyers} = {Receipt(b, LtG, st)}
        /\ {x \in two : x.to \in {bs}} = {Receipt(bs, LtG, st)}
    BY DEF Receipt
  <2>2. as(Receipt(b, LtG, st)) = Msg("pa", b, "receipt", st) /\ as(Receipt(bs, LtG, st)) = toBs
    BY DEF Receipt, Msg
  <2> HIDE DEF as, toBs, two
  <2>3. /\ {as(m) : m \in {Receipt(b, LtG, st)}} = {Msg("pa", b, "receipt", st)}
        /\ {as(m) : m \in {Receipt(bs, LtG, st)}} = {toBs}
    BY <2>2
  <2>4. PaSends(two, c) = SetToSeq({Msg("pa", b, "receipt", st)}) \o SetToSeq({toBs})
    BY <1>1, <2>1, <2>3
  <2>5. PaSends(two, c) = <<Msg("pa", b, "receipt", st)>> \o <<toBs>>
    BY <2>4, SetToSeqSmall
  <2>6. ASSUME NEW x, NEW y PROVE <<x>> \o <<y>> = <<x, y>>
    <3>1. /\ <<x>> \in Seq({x, y}) /\ <<y>> \in Seq({x, y}) /\ <<x, y>> \in Seq({x, y})
          /\ Len(<<x>>) = 1 /\ Len(<<y>>) = 1 /\ Len(<<x, y>>) = 2
      OBVIOUS
    <3>2. /\ <<x>> \o <<y>> \in Seq({x, y}) /\ Len(<<x>> \o <<y>>) = 2
          /\ (<<x>> \o <<y>>)[1] = x /\ (<<x>> \o <<y>>)[2] = y
      BY <3>1
    <3>3. \A j \in 1 .. 2 : (<<x>> \o <<y>>)[j] = <<x, y>>[j]
      BY <3>2
    <3> QED BY <3>1, <3>2, <3>3, SeqEqual
  <2>7. PaSends(two, c) = <<Msg("pa", b, "receipt", st), toBs>>
    BY ONLY <2>5, <2>6
  <2> QED BY <2>7 DEF toBs, two
<1> QED BY <1>2, <1>3

\* What is said of a hold stays true of it: it never goes back to "none" and keeps its buyer.
Continues(h, g) == h.state # "none" => g.state # "none" /\ g.buyer = h.buyer

\* The mail after a handler is in order when what it sends is.
LEMMA MailAfter ==
  ASSUME NEW h, NEW g, Continues(h, g), NEW q, MailOK(h, q), NEW i \in 1 .. Len(q), NEW ms \in Seq(Mail),
         \A x \in 1 .. Len(ms) : Message(ms[x]) /\ OfTheHold(g, ms[x])
  PROVE  MailOK(g, RemoveAt(q, i) \o ms)
<1> DEFINE r == RemoveAt(q, i) \o ms
<1>1. q \in Seq(Mail)
  BY DEF MailOK
<1>2. /\ r \in Seq(Mail)
      /\ \A j \in 1 .. Len(r) :
               \/ \E x \in 1 .. Len(q) : x # i /\ r[j] = q[x]
               \/ \E x \in 1 .. Len(ms) : r[j] = ms[x]
  <2>1. r \in Seq(Mail) /\ OldOrNew(r, q, i, ms)
    BY <1>1, AfterHandler
  <2> QED BY <2>1 DEF OldOrNew
<1> HIDE DEF r
<1>3. \A x \in 1 .. Len(q) : Message(q[x]) /\ OfTheHold(g, q[x])
  BY DEF MailOK, Continues, OfTheHold
<1>4. \A j \in 1 .. Len(r) : Message(r[j]) /\ OfTheHold(g, r[j])
  BY <1>2, <1>3
<1> QED BY <1>2, <1>4 DEF MailOK, r

\* Whom a message under way names.
LEMMA MailWho ==
  ASSUME NEW h, NEW q, MailOK(h, q)
  PROVE  \A j \in 1 .. Len(q) : q[j] \in Mail /\ q[j].who \in Buyers \cup {NoOne}
<1>1. q \in Seq(Mail)
  BY DEF MailOK
<1>2. \A j \in 1 .. Len(q) : q[j] \in Mail
  BY <1>1
<1>3. \A x \in Mail : x.who \in Buyers \cup {NoOne}
  BY DEF Mail
<1> QED BY <1>2, <1>3

\* The first message that may come to the seller from PA is PA's first.
LEMMA DeliverableFirst ==
  ASSUME NEW h, MailOK(h, net), NEW i \in 1 .. Len(net), Deliverable(i)
  PROVE  FirstTold(net, i)
<1> SUFFICES ASSUME ToldAny(net, i), NEW j \in 1 .. i - 1
             PROVE  ~ ToldAny(net, j)
  BY DEF FirstTold
<1>1. i # 1 /\ j \in 1 .. Len(net)
  BY DEF MailOK
<1>2. net[j].from # net[i].from \/ net[j].to # net[i].to
  BY <1>1 DEF Deliverable
<1>3. net[i].from = "pa" /\ net[i].to = bs
  BY DEF MailOK, Message, ToldAny
<1> QED BY <1>1, <1>2, <1>3 DEF MailOK, Message, ToldAny

\* What a message carries when it is not PA's: nothing about a receipt.
Plain(msg) == msg \in Mail /\ Message(msg) /\ msg.verb \notin {"receipt", "deliver"}

\* A message to someone other than PA and the seller is plain, and so are the seller's and PA's askings.
LEMMA PlainSends ==
  /\ \A b \in Buyers : /\ Plain(Msg(b, "df", "seek", "none")) /\ Plain(Msg(b, "ams", "locate", "none"))
                       /\ Plain(Msg(b, bs, "catalog", "none")) /\ Plain(Msg(b, "pa", "reserve", "none"))
                       /\ Plain(Msg(b, "pa", "cancel", "none")) /\ Plain(Msg("pa", b, "deny", "none"))
  /\ \A b \in Buyers, body \in {"found", "missing"} :
        /\ Plain(Msg(bs, b, "catalog", body)) /\ Plain(Msg("df", b, "provide", body))
        /\ Plain(Msg("ams", b, "at", body))
  /\ Plain(Msg(bs, "pa", "accept", "none")) /\ Plain(Msg("df", bs, "registered", "none"))
  /\ Plain(Msg("ams", bs, "bound", "none"))
  BY BookBuyAssumption DEF Plain, Msg, Mail, Message, Party, Verbs, Bodies

\* The handlers that are not PA's leave the ledger alone; their mail, and what they make of their
\* own state, keep the invariant.
LEMMA OrdinaryStep ==
  ASSUME BookInv, NEW i \in 1 .. Len(net), NEW ms \in Seq(Mail), Handle(i, ms),
         UNCHANGED <<setting, pa, disk, out>>,
         (lost' = lost /\ Deliverable(i)) \/ lost' \in 1 .. MaxLost,
         \A x \in 1 .. Len(ms) :
            \/ Plain(ms[x])
            \/ /\ ms[x].verb = "deliver" /\ ms[x] \in Mail /\ Message(ms[x])
               /\ hold.state # "none" /\ ms[x].to = hold.buyer
               /\ lost = 0 => hold.state = "paid",
         buyerOf' = ByAfter(net, i, buyerOf) \/ (lost' # 0 /\ buyerOf' = buyerOf),
         ba' \in [Buyers -> BuyerStates], withdrawn' \subseteq Buyers,
         offered' \in BOOLEAN, bound' \in BOOLEAN,
         \A b \in Buyers : ba'[b] = "done" => hold.state # "none" /\ b = hold.buyer
  PROVE  BookInv'
<1>0. hold' = hold /\ Continues(hold, hold) /\ MailOK(hold, net)
  BY DEF hold, Continues, BookInv
<1>1. EscrowInv' /\ TypeOK'
  BY DEF BookInv, EscrowInv, TypeOK, PartiesKnown
<1>2. \A x \in 1 .. Len(ms) : Message(ms[x]) /\ OfTheHold(hold, ms[x])
  BY DEF Plain, OfTheHold
<1>3. MailOK(hold, net')
  BY <1>0, <1>2, MailAfter DEF Handle
<1>4. buyerOf' # NoOne => hold.state # "none" /\ buyerOf' = hold.buyer
  BY DEF BookInv, MailOK, OfTheHold, OneBuyer, ByAfter, Told, ToldAny
<1>5. OneBuyer(hold)'
  BY <1>0, <1>4 DEF BookInv, OneBuyer
<1>6. BookTypeOK'
  <2>1. lost' \in 0 .. MaxLost
    BY BookBuyAssumption DEF BookInv, BookTypeOK
  <2>2. buyerOf' \in Buyers \cup {NoOne}
    BY <1>4 DEF BookInv, OneBuyer
  <2>3. \A j \in 1 .. Len(net') : net'[j].who \in Buyers \cup {NoOne}
    BY <1>3, MailWho
  <2> QED BY <1>1, <2>1, <2>2, <2>3 DEF BookInv, BookTypeOK
<1>7. lost' = 0 => InOrder(hold, net', buyerOf')
  <2> SUFFICES ASSUME lost' = 0
               PROVE  InOrder(hold, net', buyerOf')
    OBVIOUS
  <2>1. lost = 0 /\ Deliverable(i) /\ buyerOf' = ByAfter(net, i, buyerOf)
    BY BookBuyAssumption
  <2>2. FirstTold(net, i)
    BY <1>0, <2>1, DeliverableFirst
  <2>3. InOrder(hold, net, buyerOf)
    BY <2>1 DEF BookInv
  <2>4. hold.state \in {"held", "cancelled"} => \A x \in 1 .. Len(ms) : Plain(ms[x])
    BY <2>1
  <2>5. hold.state \in {"held", "cancelled"}
           => Unpaid(ms) /\ Unshipped(ms) /\ \A x \in 1 .. Len(ms) : ~ Told(ms, x, "held")
    BY <2>4 DEF Plain, Unpaid, Unshipped, Told, ToldAny
  <2>6. InOrder(hold, RemoveAt(net, i) \o ms, ByAfter(net, i, buyerOf))
    BY <1>0, <2>2, <2>3, <2>5, InOrderAfter DEF InOrder, MailOK
  <2> QED BY <2>1, <2>6 DEF Handle
<1> QED BY <1>0, <1>1, <1>3, <1>5, <1>6, <1>7 DEF BookInv

\* The same for what a buyer sends unasked.
LEMMA UnaskedStep ==
  ASSUME BookInv, NEW msg, Plain(msg), net' = Append(net, msg),
         UNCHANGED <<setting, lost, pa, disk, out, buyerOf, offered, bound>>,
         ba' \in [Buyers -> BuyerStates], withdrawn' \subseteq Buyers,
         \A b \in Buyers : ba'[b] = "done" => ba[b] = "done"
  PROVE  BookInv'
<1> DEFINE ms == <<msg>>
<1>0. hold' = hold /\ MailOK(hold, net) /\ net \in Seq(Mail) /\ msg \in Mail
  BY DEF hold, BookInv, MailOK, Plain
<1>1. EscrowInv' /\ TypeOK'
  BY DEF BookInv, EscrowInv, TypeOK, PartiesKnown
<1>2. /\ ms \in Seq(Mail) /\ Len(ms) = 1 /\ ms[1] = msg
  BY <1>0
<1>3. net' = net \o ms
  BY <1>0
<1> HIDE DEF ms
<1>4. /\ net' \in Seq(Mail) /\ Len(net') = Len(net) + 1 /\ Len(net) \in Nat
      /\ \A j \in 1 .. Len(net) : net'[j] = net[j]
      /\ net'[Len(net) + 1] = msg
  BY <1>0
<1>5. MailOK(hold, net')
  <2>1. Message(msg) /\ OfTheHold(hold, msg)
    BY DEF Plain, OfTheHold
  <2>2. \A j \in 1 .. Len(net') : j \in 1 .. Len(net) \/ j = Len(net) + 1
    BY <1>4
  <2> QED BY <1>0, <1>4, <2>1, <2>2 DEF MailOK
<1>6. BookTypeOK'
  <2>1. \A j \in 1 .. Len(net') : net'[j].who \in Buyers \cup {NoOne}
    BY <1>5, MailWho
  <2> QED BY <1>1, <2>1 DEF BookInv, BookTypeOK
<1>7. OneBuyer(hold)'
  BY <1>0 DEF BookInv, OneBuyer
<1>8. lost' = 0 => InOrder(hold, net', buyerOf')
  <2> SUFFICES ASSUME lost = 0
               PROVE  InOrder(hold, net', buyerOf)
    OBVIOUS
  <2>1. InOrder(hold, net, buyerOf)
    BY DEF BookInv
  <2>2. \A j \in 1 .. Len(net') :
           \/ j \in 1 .. Len(net) /\ net'[j] = net[j]
           \/ ~ ToldAny(net', j) /\ net'[j].verb # "deliver"
    BY <1>4 DEF Plain, ToldAny
  <2>3. Unpaid(net) => Unpaid(net')
    BY <2>2 DEF Unpaid, Told, ToldAny
  <2>4. Unshipped(net) => Unshipped(net')
    BY <2>2 DEF Unshipped
  <2>5. ASSUME Released(net, buyerOf) PROVE Released(net', buyerOf)
    <3>1. \A x \in 1 .. Len(ms) : ~ Told(ms, x, "held")
      BY <1>2 DEF Plain, Told, ToldAny
    <3>2. /\ \A k \in 1 .. Len(net) + 1 : Revoked(net, buyerOf, k) => Revoked(net', buyerOf, k)
          /\ \A k \in Len(net) + 1 .. Len(net') + 1 : Revoked(net', buyerOf, k)
      BY <1>0, <1>2, <1>3, <2>5, <3>1, RevokedAppended DEF Released
    <3>3. Len(net') + 1 \in Len(net) + 1 .. Len(net') + 1
      BY <1>4
    <3>4. ASSUME NEW k \in 1 .. Len(net'), Told(net', k, "paid") PROVE Revoked(net', buyerOf, k)
      <4>1. k \in 1 .. Len(net) /\ k \in 1 .. Len(net) + 1 /\ net'[k] = net[k]
        BY <1>4, <2>2, <3>4 DEF Told
      <4>2. Revoked(net, buyerOf, k)
        BY <2>5, <3>4, <4>1 DEF Released, Told, ToldAny
      <4> QED BY <3>2, <4>1, <4>2
    <3> QED BY <3>2, <3>3, <3>4 DEF Released
  <2> QED BY <2>1, <2>3, <2>4, <2>5 DEF InOrder
<1> QED BY <1>0, <1>1, <1>5, <1>6, <1>7, <1>8 DEF BookInv

\* What a message under way says, from the invariant.
LEMMA UnderWay ==
  ASSUME BookInv, NEW i \in 1 .. Len(net)
  PROVE  /\ net[i] \in Mail /\ Message(net[i]) /\ OfTheHold(hold, net[i])
         /\ net[i].from \in Party /\ net[i].to \in Party
         /\ net \in Seq(Mail)
<1>1. net \in Seq(Mail) /\ Message(net[i]) /\ OfTheHold(hold, net[i])
  BY DEF BookInv, MailOK
<1>2. net[i] \in Mail
  BY <1>1
<1> QED BY <1>1, <1>2 DEF Mail

\* A message that is not a receipt to the seller leaves the reservation.
LEMMA ByKept ==
  ASSUME NEW i, ~ ToldAny(net, i)
  PROVE  ByAfter(net, i, buyerOf) = buyerOf
  BY DEF ByAfter, Told

\* A buyer's step keeps the invariant.
LEMMA BuyerStep ==
  ASSUME BookInv, NEW b \in Buyers
  PROVE  /\ Start(b) => BookInv'
         /\ Withdraw(b) => BookInv'
         /\ \A i \in 1 .. Len(net) : BuyerHandles(b, i) => BookInv'
<1> USE BookBuyAssumption
<1>0. ba \in [Buyers -> BuyerStates] /\ withdrawn \subseteq Buyers
      /\ offered \in BOOLEAN /\ bound \in BOOLEAN
      /\ \A c \in Buyers : ba[c] = "done" => hold.state # "none" /\ c = hold.buyer
  BY DEF BookInv, BookTypeOK, OneBuyer
<1>1. ASSUME Start(b) PROVE BookInv'
  <2>1. Plain(Msg(b, "df", "seek", "none"))
    BY PlainSends
  <2>2. ba' \in [Buyers -> BuyerStates] /\ \A c \in Buyers : ba'[c] = "done" => ba[c] = "done"
    BY <1>0, <1>1 DEF Start, Step, BuyerStates
  <2> QED BY <1>0, <1>1, <2>1, <2>2, UnaskedStep DEF Start
<1>2. ASSUME Withdraw(b) PROVE BookInv'
  <2>1. Plain(Msg(b, "pa", "cancel", "none"))
    BY PlainSends
  <2> QED BY <1>0, <1>2, <2>1, UnaskedStep DEF Withdraw
<1>3. ASSUME NEW i \in 1 .. Len(net), BuyerHandles(b, i) PROVE BookInv'
  <2>1. Deliverable(i) /\ net[i].to = b
        /\ UNCHANGED <<setting, lost, pa, disk, out, buyerOf, offered, bound, withdrawn>>
    BY <1>3 DEF BuyerHandles
  <2>2. ~ ToldAny(net, i)
    BY <2>1 DEF ToldAny
  <2>3. ASSUME NEW ms \in Seq(Mail), Handle(i, ms), \A x \in 1 .. Len(ms) : Plain(ms[x]),
               NEW st \in BuyerStates, Step(b, st) \/ ba' = ba,
               st = "done" => net[i].verb = "deliver"
        PROVE  BookInv'
    <3>1. ba' \in [Buyers -> BuyerStates]
      BY <1>0, <2>3 DEF Step
    <3>2. ASSUME NEW c \in Buyers, ba'[c] = "done" PROVE hold.state # "none" /\ c = hold.buyer
      <4>1. CASE ba[c] = "done"
        BY <1>0, <4>1
      <4>2. CASE ba[c] # "done"
        <5>1. c = b /\ st = "done"
          BY <1>0, <2>3, <3>2, <4>2 DEF Step
        <5> QED BY <2>1, <2>3, <5>1, UnderWay DEF OfTheHold
      <4> QED BY <4>1, <4>2
    <3>3. buyerOf' = ByAfter(net, i, buyerOf)
      BY <2>1, <2>2, ByKept
    <3> QED BY <1>0, <2>1, <2>3, <3>1, <3>2, <3>3, OrdinaryStep
  <2>4. <<>> \in Seq(Mail) /\ Len(<<>>) = 0
    OBVIOUS
  <2>5. ASSUME Handle(i, <<>>), NEW st \in BuyerStates, Step(b, st) \/ ba' = ba,
               st = "done" => net[i].verb = "deliver"
        PROVE  BookInv'
    <3>1. <<>> \in Seq(Mail) /\ \A x \in 1 .. Len(<<>>) : Plain(<<>>[x])
      BY <2>4
    <3> QED BY <2>3, <2>5, <3>1
  <2>6. ASSUME NEW msg, Plain(msg), Handle(i, <<msg>>), NEW st \in BuyerStates \ {"done"}, Step(b, st)
        PROVE  BookInv'
    <3>1. msg \in Mail
      BY <2>6 DEF Plain
    <3>2. <<msg>> \in Seq(Mail) /\ \A x \in 1 .. Len(<<msg>>) : Plain(<<msg>>[x])
      BY <2>6, <3>1
    <3> QED BY <2>3, <2>6, <3>2
  <2>7. CASE Proceed(b, i)
    <3>1. \/ Step(b, "address") /\ Handle(i, <<Msg(b, "ams", "locate", "none")>>)
          \/ Step(b, "catalog") /\ Handle(i, <<Msg(b, bs, "catalog", "none")>>)
          \/ Step(b, "held") /\ Handle(i, <<Msg(b, "pa", "reserve", "none")>>)
          \/ Step(b, "delivery") /\ Handle(i, <<>>)
      BY <2>7 DEF Proceed
    <3>2. {"address", "catalog", "held", "delivery"} \subseteq BuyerStates \ {"done"}
      BY DEF BuyerStates
    <3> QED BY <2>5, <2>6, <3>1, <3>2, PlainSends
  <2>8. CASE Conclude(b, i)
    <3>1. Handle(i, <<>>)
          /\ ((Step(b, "done") /\ net[i].verb = "deliver") \/ Step(b, "failed"))
      BY <2>8 DEF Conclude
    <3>2. "done" \in BuyerStates /\ "failed" \in BuyerStates
      BY DEF BuyerStates
    <3> QED BY <2>5, <3>1, <3>2
  <2>9. CASE Ignore(b, i)
    <3>1. "init" \in BuyerStates
      BY DEF BuyerStates
    <3> QED BY <2>5, <2>9, <3>1 DEF Ignore
  <2> QED BY <1>3, <2>7, <2>8, <2>9 DEF BuyerHandles
<1> QED BY <1>1, <1>2, <1>3

\* A handler that is not the seller's receipt and sends plain messages keeps the invariant.
LEMMA PlainStep ==
  ASSUME BookInv, NEW i \in 1 .. Len(net), NEW ms, Handle(i, ms), Deliverable(i) \/ lost' # lost,
         ms = <<>> \/ (\E msg : Plain(msg) /\ ms = <<msg>>),
         ~ ToldAny(net, i) \/ lost' # lost,
         UNCHANGED <<setting, pa, disk, out, ba, buyerOf, withdrawn>>,
         lost' = lost \/ (lost' = lost + 1 /\ lost < MaxLost),
         offered' \in BOOLEAN, bound' \in BOOLEAN
  PROVE  BookInv'
<1>1. lost' = lost \/ lost' \in 1 .. MaxLost
  BY BookBuyAssumption DEF BookInv, BookTypeOK
<1>2. ms \in Seq(Mail) /\ \A x \in 1 .. Len(ms) : Plain(ms[x])
  <2>1. CASE ms = <<>>
    BY <2>1
  <2>2. ASSUME NEW msg, Plain(msg), ms = <<msg>>
        PROVE  ms \in Seq(Mail) /\ \A x \in 1 .. Len(ms) : Plain(ms[x])
    <3>1. msg \in Mail
      BY <2>2 DEF Plain
    <3> QED BY <2>2, <3>1
  <2> QED BY <2>1, <2>2
<1>3. buyerOf' = ByAfter(net, i, buyerOf) \/ (lost' # 0 /\ buyerOf' = buyerOf)
  BY <1>1, ByKept
<1>4. ba' \in [Buyers -> BuyerStates] /\ withdrawn' \subseteq Buyers
      /\ \A b \in Buyers : ba'[b] = "done" => hold.state # "none" /\ b = hold.buyer
  BY DEF BookInv, BookTypeOK, OneBuyer
<1>5. (lost' = lost /\ Deliverable(i)) \/ lost' \in 1 .. MaxLost
  BY <1>1
<1> QED BY <1>2, <1>3, <1>4, <1>5, OrdinaryStep

\* The directories' steps, a message PA ignores and a lost one keep the invariant.
LEMMA DirectoriesStep ==
  ASSUME BookInv, NEW i \in 1 .. Len(net)
  PROVE  DfHandles(i) \/ AmsHandles(i) \/ PaIgnores(i) \/ Lose(i) => BookInv'
<1> USE BookBuyAssumption
<1>0. offered \in BOOLEAN /\ bound \in BOOLEAN /\ lost \in Nat
  BY DEF BookInv, BookTypeOK
<1>1. CASE DfHandles(i)
  <2>1. net[i].to = "df" /\ ~ ToldAny(net, i)
    BY <1>1 DEF DfHandles, Receives, ToldAny
  <2>2. Deliverable(i) /\ UNCHANGED <<setting, lost, pa, disk, out, ba, buyerOf, bound, withdrawn>>
        /\ offered' \in BOOLEAN
    BY <1>0, <1>1 DEF DfHandles, Receives
  <2>3. \E msg : Plain(msg) /\ Handle(i, <<msg>>)
    <3>1. CASE Receives(i, "df", "offer")
      <4>1. Handle(i, <<Msg("df", bs, "registered", "none")>>)
        BY <1>1, <3>1 DEF DfHandles, Receives
      <4> QED BY <4>1, PlainSends
    <3>2. CASE Receives(i, "df", "seek")
      <4>1. Handle(i, <<Msg("df", net[i].from, "provide", IF offered THEN "found" ELSE "missing")>>)
        BY <1>1, <3>2 DEF DfHandles, Receives
      <4>2. net[i].from \in Buyers
        BY <3>2, UnderWay DEF Message, Receives
      <4> QED BY <4>1, <4>2, PlainSends
    <3> QED BY <1>1, <3>1, <3>2 DEF DfHandles
  <2> QED BY <1>0, <2>1, <2>2, <2>3, PlainStep
<1>2. CASE AmsHandles(i)
  <2>1. net[i].to = "ams" /\ ~ ToldAny(net, i)
    BY <1>2 DEF AmsHandles, Receives, ToldAny
  <2>2. Deliverable(i) /\ UNCHANGED <<setting, lost, pa, disk, out, ba, buyerOf, offered, withdrawn>>
        /\ bound' \in BOOLEAN
    BY <1>0, <1>2 DEF AmsHandles, Receives
  <2>3. \E msg : Plain(msg) /\ Handle(i, <<msg>>)
    <3>1. CASE Receives(i, "ams", "bind")
      <4>1. Handle(i, <<Msg("ams", bs, "bound", "none")>>)
        BY <1>2, <3>1 DEF AmsHandles, Receives
      <4> QED BY <4>1, PlainSends
    <3>2. CASE Receives(i, "ams", "locate")
      <4>1. Handle(i, <<Msg("ams", net[i].from, "at", IF bound THEN "found" ELSE "missing")>>)
        BY <1>2, <3>2 DEF AmsHandles, Receives
      <4>2. net[i].from \in Buyers
        BY <3>2, UnderWay DEF Message, Receives
      <4> QED BY <4>1, <4>2, PlainSends
    <3> QED BY <1>2, <3>1, <3>2 DEF AmsHandles
  <2> QED BY <1>0, <2>1, <2>2, <2>3, PlainStep
<1>3. CASE PaIgnores(i)
  <2>1. net[i].to = "pa" /\ ~ ToldAny(net, i) /\ Deliverable(i)
    BY <1>3 DEF PaIgnores, Receives, ToldAny
  <2> QED BY <1>0, <1>3, <2>1, PlainStep DEF PaIgnores
<1>4. CASE Lose(i)
  <2>1. lost' # lost
    BY <1>0, <1>4 DEF Lose
  <2> QED BY <1>0, <1>4, <2>1, PlainStep DEF Lose
<1> QED BY <1>1, <1>2, <1>3, <1>4

\* The seller's step keeps the invariant: while no message was lost, a "paid" receipt finds the book
\* reserved only if the order is paid.
LEMMA SellerStep ==
  ASSUME BookInv, NEW i \in 1 .. Len(net), SellerHandles(i)
  PROVE  BookInv'
<1> USE BookBuyAssumption
<1>0. offered \in BOOLEAN /\ bound \in BOOLEAN
      /\ ba \in [Buyers -> BuyerStates] /\ withdrawn \subseteq Buyers
      /\ \A c \in Buyers : ba[c] = "done" => hold.state # "none" /\ c = hold.buyer
  BY DEF BookInv, BookTypeOK, OneBuyer
<1>1. UNCHANGED <<setting, lost, pa, disk, out, ba, offered, bound, withdrawn>>
  BY DEF SellerHandles
<1>2. CASE SellerCatalog(i)
  <2>1. /\ Deliverable(i) /\ net[i].to = bs /\ net[i].verb = "catalog" /\ UNCHANGED buyerOf
        /\ Handle(i, <<Msg(bs, net[i].from, "catalog", IF HasLtG THEN "found" ELSE "missing")>>)
    BY <1>2 DEF SellerCatalog, Receives
  <2>2. net[i].from \in Buyers
    BY <2>1, UnderWay DEF Message
  <2>3. Plain(Msg(bs, net[i].from, "catalog", IF HasLtG THEN "found" ELSE "missing"))
    BY <2>2, PlainSends
  <2>4. ~ ToldAny(net, i)
    BY <2>1 DEF ToldAny
  <2> QED BY <1>0, <1>1, <2>1, <2>3, <2>4, PlainStep
<1>3. CASE SellerIgnores(i)
  <2>1. ~ ToldAny(net, i)
    BY <1>3 DEF SellerIgnores, ToldAny
  <2> QED BY <1>0, <1>1, <1>3, <2>1, PlainStep DEF SellerIgnores
<1>4. CASE SellerReceipt(i)
  <2>1. /\ Deliverable(i) /\ ToldAny(net, i) /\ net[i].to = bs /\ net[i].verb = "receipt"
        /\ buyerOf' = Reservation(net[i]) /\ Handle(i, SellerReplies(net[i]))
    BY <1>4 DEF SellerReceipt, Receives, ToldAny
  <2>2. buyerOf' = ByAfter(net, i, buyerOf)
    BY <2>1 DEF Reservation, ByAfter, Told
  <2>3. CASE net[i].body = "held"
    <3>1. SellerReplies(net[i]) = <<Msg(bs, "pa", "accept", "none")>>
      BY <2>3 DEF SellerReplies
    <3>2. Plain(Msg(bs, "pa", "accept", "none"))
      BY PlainSends
    <3>3. <<Msg(bs, "pa", "accept", "none")>> \in Seq(Mail)
          /\ \A x \in 1 .. Len(<<Msg(bs, "pa", "accept", "none")>>) :
                 Plain(<<Msg(bs, "pa", "accept", "none")>>[x])
      BY <3>2 DEF Plain
    <3> QED BY <1>0, <1>1, <2>1, <2>2, <3>1, <3>3, OrdinaryStep
  <2>4. CASE net[i].body = "paid" /\ buyerOf # NoOne
    <3> DEFINE msg == Msg(bs, buyerOf, "deliver", "none")
    <3>1. SellerReplies(net[i]) = <<msg>>
      BY <2>4 DEF SellerReplies
    <3>2. hold.state # "none" /\ buyerOf = hold.buyer /\ buyerOf \in Buyers
      BY <2>4 DEF BookInv, OneBuyer
    <3>3. msg \in Mail /\ Message(msg) /\ msg.verb = "deliver" /\ msg.to = hold.buyer
      BY <3>2 DEF Msg, Mail, Message, Party, Verbs, Bodies
    <3>4. ASSUME lost = 0 PROVE hold.state = "paid"
      <4>1. MailOK(hold, net) /\ InOrder(hold, net, buyerOf)
        BY <3>4 DEF BookInv
      <4>2. FirstTold(net, i) /\ Told(net, i, "paid")
        BY <2>1, <2>4, <4>1, DeliverableFirst DEF Told
      <4>3. hold.state # "held"
        BY <4>1, <4>2 DEF InOrder, Unpaid
      <4>4. hold.state # "cancelled"
        <5>1. ASSUME hold.state = "cancelled" PROVE FALSE
          <6>1. Revoked(net, buyerOf, i)
            BY <4>1, <4>2, <5>1 DEF InOrder, Released
          <6>2. PICK c \in 1 .. i - 1 : Told(net, c, "cancelled")
            BY <2>4, <6>1 DEF Revoked
          <6> QED BY <2>1, <4>2, <6>2 DEF FirstTold, Told
        <5> QED BY <5>1
      <4>5. hold.state \in HoldStates
        BY DEF BookInv, BookTypeOK, TypeOK, States, Holds, hold
      <4> QED BY <3>2, <4>3, <4>4, <4>5 DEF HoldStates
    <3> HIDE DEF msg
    <3>5. <<msg>> \in Seq(Mail) /\ \A x \in 1 .. Len(<<msg>>) : <<msg>>[x] = msg
      BY <3>3
    <3>6. \A x \in 1 .. Len(<<msg>>) :
             /\ <<msg>>[x].verb = "deliver" /\ <<msg>>[x] \in Mail /\ Message(<<msg>>[x])
             /\ hold.state # "none" /\ <<msg>>[x].to = hold.buyer
             /\ lost = 0 => hold.state = "paid"
      BY <3>2, <3>3, <3>4, <3>5
    <3>7. Handle(i, <<msg>>)
      BY <2>1, <3>1
    <3> QED BY <1>0, <1>1, <2>1, <2>2, <3>5, <3>6, <3>7, OrdinaryStep
  <2>5. CASE net[i].body # "held" /\ ~ (net[i].body = "paid" /\ buyerOf # NoOne)
    <3>1. SellerReplies(net[i]) = <<>>
      BY <2>5 DEF SellerReplies
    <3>2. <<>> \in Seq(Mail) /\ \A x \in 1 .. Len(<<>>) : Plain(<<>>[x])
      OBVIOUS
    <3> QED BY <1>0, <1>1, <2>1, <2>2, <3>1, <3>2, OrdinaryStep
  <2> QED BY <2>3, <2>4, <2>5
<1> QED BY <1>2, <1>3, <1>4 DEF SellerHandles

\* A handler of PA's that makes hold g of the one there is, and answers as told, keeps the invariant.
LEMMA LedgerStep ==
  ASSUME BookInv, NEW i \in 1 .. Len(net), Deliverable(i), net[i].to = "pa",
         NEW ms \in Seq(Mail), Handle(i, ms), Next,
         UNCHANGED <<setting, lost, ba, buyerOf, offered, bound, withdrawn>>,
         Continues(hold, hold'),
         hold'.state # "none" => hold'.buyer \in Buyers /\ hold'.seller = bs,
         \A x \in 1 .. Len(ms) : Message(ms[x]) /\ OfTheHold(hold', ms[x]) /\ ms[x].verb # "deliver",
         \/ hold'.state = "held" /\ hold.state = "none" /\ Unpaid(ms)
         \/ hold'.state = "cancelled" /\ hold.state = "held" /\ Unpaid(ms)
              /\ Len(ms) > 0 /\ Told(ms, Len(ms), "cancelled")
         \/ hold'.state = "paid" /\ hold.state = "held"
         \/ hold' = hold /\ (\A x \in 1 .. Len(ms) : ~ Told(ms, x, "held"))
              /\ (hold.state = "held" => Unpaid(ms))
  PROVE  BookInv'
<1>0. MailOK(hold, net)
  BY DEF BookInv
<1>1. EscrowInv' /\ TypeOK'
  <2>1. EscrowInv'
    BY StepEscrowInv DEF BookInv
  <2> QED BY <2>1 DEF EscrowInv
<1>2. MailOK(hold, net)'
  BY <1>0, MailAfter DEF Handle
<1>3. OneBuyer(hold)'
  BY DEF BookInv, OneBuyer, Continues
<1>4. BookTypeOK'
  <2>1. \A j \in 1 .. Len(net') : net'[j].who \in Buyers \cup {NoOne}
    BY <1>2, MailWho
  <2> QED BY <1>1, <2>1 DEF BookInv, BookTypeOK
<1>5. lost' = 0 => InOrder(hold', net', buyerOf')
  <2> SUFFICES ASSUME lost = 0 PROVE InOrder(hold', net', buyerOf)
    OBVIOUS
  <2>1. FirstTold(net, i) /\ ~ ToldAny(net, i)
    BY <1>0, DeliverableFirst, BookBuyAssumption DEF ToldAny
  <2>2. InOrder(hold, net, buyerOf)
    BY DEF BookInv
  <2>3. hold.state = "none" => Unpaid(net)
    BY <1>0 DEF MailOK, OfTheHold, Unpaid, Told, ToldAny
  <2>4. hold.state = "held" => Unpaid(net) /\ Unshipped(net)
    BY <2>2 DEF InOrder, Unpaid, Unshipped
  <2>5. Unshipped(ms)
    BY DEF Unshipped
  <2>6. hold'.state = "held" => Unpaid(net) /\ Unpaid(ms)
    BY <2>3, <2>4
  <2>7. hold'.state = "cancelled" =>
            /\ Unshipped(net) /\ Unshipped(ms)
            /\ \/ Released(net, buyerOf) /\ \A x \in 1 .. Len(ms) : ~ Told(ms, x, "held")
               \/ Unpaid(net) /\ Unpaid(ms) /\ Len(ms) > 0 /\ Told(ms, Len(ms), "cancelled")
    BY <2>2, <2>4, <2>5 DEF InOrder
  <2>8. net \in Seq(Mail)
    BY <1>0 DEF MailOK
  <2>9. PICK g : g = hold'
    OBVIOUS
  <2>10. InOrder(g, RemoveAt(net, i) \o ms, ByAfter(net, i, buyerOf))
    BY <2>1, <2>6, <2>7, <2>8, <2>9, InOrderAfter
  <2>11. ByAfter(net, i, buyerOf) = buyerOf
    BY <2>1, ByKept
  <2> QED BY <2>9, <2>10, <2>11 DEF Handle
<1> QED BY <1>1, <1>2, <1>3, <1>4, <1>5 DEF BookInv

\* A denied request changes nothing and is answered by one plain message.
LEMMA DeniedStep ==
  ASSUME BookInv, NEW i \in 1 .. Len(net), Deliverable(i), net[i].to = "pa", NEW b \in Buyers,
         Handle(i, PaSends({Deny(b, LtG)}, b)), UNCHANGED <<pa, disk>>, Next,
         UNCHANGED <<setting, lost, ba, buyerOf, offered, bound, withdrawn>>
  PROVE  BookInv'
<1> DEFINE msg == Msg("pa", b, "deny", "none")
<1>1. Handle(i, <<msg>>)
  BY PaSendsIs, BookBuyAssumption
<1>2. Plain(msg)
  BY PlainSends
<1> HIDE DEF msg
<1>3. <<msg>> \in Seq(Mail) /\ \A x \in 1 .. Len(<<msg>>) : <<msg>>[x] = msg
  BY <1>2 DEF Plain
<1>4. hold' = hold /\ Continues(hold, hold)
  BY DEF hold, Continues
<1>5. \A x \in 1 .. Len(<<msg>>) : Message(<<msg>>[x]) /\ OfTheHold(hold, <<msg>>[x]) /\ <<msg>>[x].verb # "deliver"
  BY <1>2, <1>3 DEF Plain, OfTheHold
<1>6. Unpaid(<<msg>>) /\ \A x \in 1 .. Len(<<msg>>) : ~ Told(<<msg>>, x, "held")
  BY <1>2, <1>3 DEF Plain, Unpaid, Told, ToldAny
<1>7. hold.state # "none" => hold.buyer \in Buyers /\ hold.seller = bs
  BY DEF BookInv, OneBuyer
<1> QED BY <1>1, <1>3, <1>4, <1>5, <1>6, <1>7, LedgerStep

\* ms is two receipts that say st of hold g, the seller's last.
TwoReceipts(ms, g, st) ==
    /\ ms \in Seq(Mail) /\ Len(ms) = 2
    /\ \A x \in 1 .. Len(ms) : Message(ms[x]) /\ OfTheHold(g, ms[x]) /\ ms[x].verb # "deliver"
    /\ \A x \in 1 .. Len(ms), s \in {"held", "paid"} : Told(ms, x, s) => s = st
    /\ Told(ms, Len(ms), st)

\* The two receipts of a handler that is not a deny.
LEMMA ReceiptsSent ==
  ASSUME NEW b \in Buyers, NEW c \in Buyers \cup {bs}, NEW st \in {"held", "paid", "cancelled"},
         st = "held" => c = b, NEW g, g.state # "none", g.buyer = b
  PROVE  TwoReceipts(PaSends({Receipt(b, LtG, st), Receipt(bs, LtG, st)}, c), g, st)
<1> USE BookBuyAssumption
<1> DEFINE m1 == Msg("pa", b, "receipt", st)
           m2 == [Msg("pa", bs, "receipt", st) EXCEPT !.who = IF st = "held" THEN c ELSE NoOne]
           ms == PaSends({Receipt(b, LtG, st), Receipt(bs, LtG, st)}, c)
<1>1. ms = <<m1, m2>>
  BY PaSendsIs
<1>2. m1 \in Mail /\ m2 \in Mail
  BY DEF Msg, Mail, Party, Verbs, Bodies
<1>3. /\ Message(m1) /\ OfTheHold(g, m1) /\ m1.verb # "deliver" /\ m1.to # bs
      /\ Message(m2) /\ OfTheHold(g, m2) /\ m2.verb # "deliver"
      /\ m2.to = bs /\ m2.verb = "receipt" /\ m2.body = st
  BY DEF Msg, Message, OfTheHold
<1> HIDE DEF m1, m2, ms
<1>4. ms \in Seq(Mail) /\ Len(ms) = 2 /\ ms[1] = m1 /\ ms[2] = m2
  BY <1>1, <1>2
<1>5. \A x \in 1 .. Len(ms) : ms[x] = m1 \/ (ms[x] = m2 /\ x = 2)
  BY <1>4
<1>6. Told(ms, Len(ms), st)
  BY <1>3, <1>4 DEF Told, ToldAny
<1>7. \A x \in 1 .. Len(ms), s \in {"held", "paid"} : Told(ms, x, s) => s = st
  BY <1>3, <1>5 DEF Told, ToldAny
<1>8. \A x \in 1 .. Len(ms) : Message(ms[x]) /\ OfTheHold(g, ms[x]) /\ ms[x].verb # "deliver"
  BY <1>3, <1>5
<1> QED BY <1>4, <1>6, <1>7, <1>8 DEF ms, TwoReceipts

\* PA's step keeps the invariant.
LEMMA PaStep ==
  ASSUME BookInv, NEW i \in 1 .. Len(net), PaHandles(i)
  PROVE  BookInv'
<1> USE BookBuyAssumption
<1>0. /\ net[i].to = "pa" /\ Deliverable(i)
      /\ UNCHANGED <<setting, lost, ba, buyerOf, offered, bound, withdrawn>>
      /\ Handle(i, PaSends(out', net[i].from))
  BY DEF PaHandles, Receives
<1>a. /\ LtG \in Orders /\ bs \in Accounts /\ Price \in Amounts /\ Buyers \subseteq Accounts
      /\ pa \in States /\ hold \in Holds /\ hold.state \in HoldStates
  BY EscrowAssumption DEF BookInv, BookTypeOK, TypeOK, States, Holds, hold, Amounts
<1>b. hold.state # "none" => hold.buyer \in Buyers /\ hold.seller = bs
  BY DEF BookInv, OneBuyer
<1>1. CASE Receives(i, "pa", "reserve") /\ Reserve(LtG, net[i].from, bs, Price)
  <2> DEFINE b == net[i].from
  <2>1. b \in Buyers
    BY <1>0, <1>1, UnderWay DEF Message, Receives
  <2> HIDE DEF b
  <2>2. Reserve(LtG, b, bs, Price) /\ Next
    BY <1>a, <1>1, <2>1 DEF b, Next
  <2>3. CASE CanReserve(pa, LtG, b, Price)
    <3>1. out' = {Receipt(b, LtG, "held"), Receipt(bs, LtG, "held")}
          /\ pa' = Reserved(pa, LtG, b, bs, Price)
      BY <2>2, <2>3 DEF Reserve, ReserveSends
    <3>2. hold' = [buyer |-> b, seller |-> bs, amount |-> Price, state |-> "held"]
      BY <1>a, <3>1 DEF Reserved, hold, States
    <3>3. hold.state = "none"
      BY <2>3 DEF CanReserve, hold
    <3>4. PICK g : g = hold'
      OBVIOUS
    <3>5. g.state = "held" /\ g.buyer = b /\ g.seller = bs
      BY <3>2, <3>4
    <3>6. PICK ms : ms = PaSends(out', b)
      OBVIOUS
    <3>7. /\ ms \in Seq(Mail) /\ Len(ms) = 2
          /\ \A x \in 1 .. Len(ms) : Message(ms[x]) /\ OfTheHold(g, ms[x]) /\ ms[x].verb # "deliver"
          /\ \A x \in 1 .. Len(ms), s \in {"held", "paid"} : Told(ms, x, s) => s = "held"
      <4>1. TwoReceipts(ms, g, "held")
        BY <2>1, <3>1, <3>5, <3>6, ReceiptsSent
      <4> QED BY <4>1 DEF TwoReceipts
    <3>8. Unpaid(ms)
      BY <3>7 DEF Unpaid
    <3>9. Continues(hold, hold') /\ Handle(i, ms)
      BY <1>0, <3>3, <3>6 DEF Continues, b
    <3>10. /\ hold'.state = "held" /\ hold'.buyer \in Buyers /\ hold'.seller = bs
           /\ \A x \in 1 .. Len(ms) : Message(ms[x]) /\ OfTheHold(hold', ms[x]) /\ ms[x].verb # "deliver"
      BY ONLY <2>1, <3>4, <3>5, <3>7
    <3> QED BY <1>0, <2>2, <3>3, <3>7, <3>8, <3>9, <3>10, LedgerStep
  <2>4. CASE ~ CanReserve(pa, LtG, b, Price)
    <3>1. out' = {Deny(b, LtG)} /\ UNCHANGED <<pa, disk>>
      BY <2>2, <2>4 DEF Reserve, ReserveSends
    <3> QED BY <1>0, <2>1, <2>2, <3>1, DeniedStep DEF b
  <2> QED BY <2>3, <2>4
<1>2. CASE Receives(i, "pa", "accept") /\ Accept(LtG, net[i].from)
  <2>1. net[i].from = bs
    BY <1>0, <1>2, UnderWay DEF Message, Receives
  <2>2. Accept(LtG, bs) /\ Next
    BY <1>a, <1>2, <2>1 DEF Next
  <2>3. hold.state # "none" /\ hold.buyer \in Buyers /\ hold.seller = bs
    BY <1>b, <2>2 DEF Accept, hold
  <2>4. pa' = Accepted(pa, LtG) /\ out' = {Receipt(hold.buyer, LtG, "paid"), Receipt(bs, LtG, "paid")}
    BY <2>2, <2>3 DEF Accept, Receipts, hold
  <2>5. /\ hold.state = "held" => hold' = [hold EXCEPT !.state = "paid"]
        /\ hold.state # "held" => hold' = hold
    BY <1>a, <2>4 DEF Accepted, hold, States
  <2>6. PICK g : g = hold'
    OBVIOUS
  <2>7. /\ g.state # "none" /\ g.buyer = hold.buyer /\ g.seller = bs
        /\ \/ hold.state = "held" /\ g.state = "paid"
           \/ hold.state # "held" /\ g = hold
    BY <1>a, <2>3, <2>5, <2>6 DEF Holds
  <2>8. PICK ms : ms = PaSends(out', bs)
    OBVIOUS
  <2>9. /\ ms \in Seq(Mail) /\ Len(ms) = 2
        /\ \A x \in 1 .. Len(ms) : Message(ms[x]) /\ OfTheHold(g, ms[x]) /\ ms[x].verb # "deliver"
        /\ \A x \in 1 .. Len(ms), s \in {"held", "paid"} : Told(ms, x, s) => s = "paid"
    <3>1. TwoReceipts(ms, g, "paid")
      BY <2>3, <2>4, <2>7, <2>8, ReceiptsSent
    <3> QED BY <3>1 DEF TwoReceipts
  <2>10. \A x \in 1 .. Len(ms) : ~ Told(ms, x, "held")
    BY <2>9
  <2>11. Continues(hold, hold') /\ Handle(i, ms)
    BY <1>0, <2>1, <2>6, <2>7, <2>8 DEF Continues
  <2>12. /\ hold'.state # "none" /\ hold'.buyer \in Buyers /\ hold'.seller = bs
         /\ (hold.state = "held" /\ hold'.state = "paid") \/ (hold.state # "held" /\ hold' = hold)
         /\ \A x \in 1 .. Len(ms) : Message(ms[x]) /\ OfTheHold(hold', ms[x]) /\ ms[x].verb # "deliver"
    BY ONLY <2>3, <2>6, <2>7, <2>9
  <2> QED BY <1>0, <2>2, <2>9, <2>10, <2>11, <2>12, LedgerStep
<1>3. CASE Receives(i, "pa", "cancel") /\ Cancel(LtG, net[i].from)
  <2> DEFINE b == net[i].from
  <2>1. b \in Buyers
    BY <1>0, <1>3, UnderWay DEF Message, Receives
  <2> HIDE DEF b
  <2>2. Cancel(LtG, b) /\ Next
    BY <1>a, <1>3, <2>1 DEF b, Next
  <2>3. hold.state # "none" /\ hold.buyer \in Buyers /\ hold.seller = bs
    BY <1>b, <2>2 DEF Cancel, hold
  <2>4. CASE b # hold.buyer
    <3>1. out' = {Deny(b, LtG)} /\ UNCHANGED <<pa, disk>>
      BY <2>1, <2>2, <2>3, <2>4 DEF Cancel, hold
    <3> QED BY <1>0, <2>1, <2>2, <3>1, DeniedStep DEF b
  <2>5. CASE b = hold.buyer
    <3>1. pa' = Cancelled(pa, LtG)
          /\ out' = {Receipt(hold.buyer, LtG, "cancelled"), Receipt(bs, LtG, "cancelled")}
      BY <2>2, <2>3, <2>5 DEF Cancel, Receipts, hold
    <3>2. /\ hold.state = "held" => hold' = [hold EXCEPT !.state = "cancelled"]
          /\ hold.state # "held" => hold' = hold
      BY <1>a, <3>1 DEF Cancelled, hold, States
    <3>3. PICK g : g = hold'
      OBVIOUS
    <3>4. /\ g.state # "none" /\ g.buyer = hold.buyer /\ g.seller = bs
          /\ \/ hold.state = "held" /\ g.state = "cancelled"
             \/ hold.state # "held" /\ g = hold
      BY <1>a, <2>3, <3>2, <3>3 DEF Holds
    <3>5. PICK ms : ms = PaSends(out', b)
      OBVIOUS
    <3>6. /\ ms \in Seq(Mail) /\ Len(ms) = 2
          /\ \A x \in 1 .. Len(ms) : Message(ms[x]) /\ OfTheHold(g, ms[x]) /\ ms[x].verb # "deliver"
          /\ \A x \in 1 .. Len(ms), s \in {"held", "paid"} : Told(ms, x, s) => s = "cancelled"
          /\ Told(ms, Len(ms), "cancelled")
      <4>1. TwoReceipts(ms, g, "cancelled")
        BY <2>1, <2>3, <3>1, <3>4, <3>5, ReceiptsSent
      <4> QED BY <4>1 DEF TwoReceipts
    <3>7. Unpaid(ms) /\ \A x \in 1 .. Len(ms) : ~ Told(ms, x, "held")
      BY <3>6 DEF Unpaid
    <3>8. Continues(hold, hold') /\ Handle(i, ms)
      BY <1>0, <3>3, <3>4, <3>5 DEF Continues, b
    <3>9. Len(ms) > 0
      BY <3>6
    <3>10. /\ hold'.state # "none" /\ hold'.buyer \in Buyers /\ hold'.seller = bs
           /\ (hold.state = "held" /\ hold'.state = "cancelled") \/ (hold.state # "held" /\ hold' = hold)
           /\ \A x \in 1 .. Len(ms) : Message(ms[x]) /\ OfTheHold(hold', ms[x]) /\ ms[x].verb # "deliver"
      BY ONLY <2>3, <3>3, <3>4, <3>6
    <3> QED BY <1>0, <2>2, <3>6, <3>7, <3>8, <3>9, <3>10, LedgerStep
  <2> QED BY <2>4, <2>5
<1> QED BY <1>1, <1>2, <1>3 DEF PaHandles

\* Every step of the purchase keeps the invariant.
LEMMA BookNextInv == BookInv /\ [BookNext]_bookVars => BookInv'
<1> SUFFICES ASSUME BookInv, [BookNext]_bookVars PROVE BookInv'
  OBVIOUS
<1>1. CASE BookNext
  <2>1. ASSUME NEW i \in 1 .. Len(net), Delivery(i) \/ Lose(i) PROVE BookInv'
    BY <2>1, BuyerStep, SellerStep, DirectoriesStep, PaStep DEF Delivery
  <2> QED BY <1>1, <2>1, BuyerStep DEF BookNext
<1>2. CASE UNCHANGED bookVars
  <2>1. hold' = hold
    BY <1>2 DEF bookVars, hold
  <2> QED BY <1>2, <2>1 DEF bookVars, BookInv, BookTypeOK, TypeOK, EscrowInv, PartiesKnown, MailOK,
                        OneBuyer
<1> QED BY <1>1, <1>2

\* The purchase is sound for any buyers and prices, whatever is withdrawn or lost and in whatever
\* order the channels deliver: the book is sold to one buyer, and as long as no message is lost it
\* is shipped to the buyer whose payment the seller has and to nobody else, also when a cancellation
\* meets the seller's acceptance (agents/bs on "paid" and "cancelled", Pa::reserve, accept, cancel).
THEOREM BookSafeHolds == BookSpec => []BookSafe
<1> QED BY BookInitInv, BookNextInv, BookInvSafe, PTL DEF BookSpec
=============================================================================
