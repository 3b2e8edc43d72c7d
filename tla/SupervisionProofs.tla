------------------------- MODULE SupervisionProofs -------------------------
(***************************************************************************)
(* Proofs about what brings agents back: the supervisor with the registry  *)
(* and the agent actors, for every set of names, every ladder of delays    *)
(* and every bound, the snapshots and their recovery, for every list of    *)
(* agents and conversations, and the replicated directory, for every set   *)
(* of nodes and of requests.                                               *)
(***************************************************************************)
EXTENDS Supervision, Persistence, Consensus, SumTheorems, SequenceTheorems, TLAPS

-----------------------------------------------------------------------------
(* The last message about a name *)

\* LastAbout is 0 when nothing is about the name, and else the last place that is.
LEMMA LastIs ==
  ASSUME NEW S, NEW q \in Seq(S), NEW n
  PROVE  /\ LastAbout(q, n) \in 0 .. Len(q)
         /\ \A j \in DOMAIN q : q[j].name = n => j <= LastAbout(q, n)
         /\ LastAbout(q, n) # 0 => q[LastAbout(q, n)].name = n
<1> DEFINE about == {k \in DOMAIN q : q[k].name = n}
           T == {x \in Nat : \E k \in about \cup {0} : x = Len(q) - k}
<1>0. Len(q) \in Nat /\ about \subseteq 1 .. Len(q)
  OBVIOUS
<1>1. PICK x \in T : \A y \in T : x <= y
  <2>1. Len(q) \in T
    BY <1>0
  <2> QED BY <2>1, LeastNat
<1>2. PICK k \in about \cup {0} : x = Len(q) - k
  BY <1>1
<1>3. \A j \in about : j <= k
  <2> SUFFICES ASSUME NEW j \in about PROVE j <= k
    OBVIOUS
  <2>1. Len(q) - j \in T
    BY <1>0
  <2> QED BY <1>0, <1>1, <1>2, <2>1
<1>4. /\ LastAbout(q, n) \in about \cup {0}
      /\ \A j \in about : j <= LastAbout(q, n)
  BY <1>3 DEF LastAbout
<1> QED BY <1>0, <1>4

\* The place that is about the name and has none after it is LastAbout.
LEMMA LastUnique ==
  ASSUME NEW S, NEW q \in Seq(S), NEW n, NEW k \in DOMAIN q, q[k].name = n,
         \A j \in DOMAIN q : q[j].name = n => j <= k
  PROVE  LastAbout(q, n) = k
<1>1. LastAbout(q, n) \in 0 .. Len(q) /\ k <= LastAbout(q, n) /\ k \in 1 .. Len(q)
  BY LastIs
<1>2. LastAbout(q, n) # 0 /\ LastAbout(q, n) \in DOMAIN q
  BY <1>1
<1>3. q[LastAbout(q, n)].name = n
  BY <1>2, LastIs
<1> QED BY <1>1, <1>2, <1>3

\* Nothing is about the name exactly when LastAbout is 0.
LEMMA LastNone ==
  ASSUME NEW S, NEW q \in Seq(S), NEW n
  PROVE  LastAbout(q, n) = 0 <=> \A j \in DOMAIN q : q[j].name # n
<1>1. ASSUME LastAbout(q, n) = 0, NEW j \in DOMAIN q, q[j].name = n PROVE FALSE
  <2>1. j <= LastAbout(q, n) /\ j \in 1 .. Len(q)
    BY <1>1, LastIs
  <2> QED BY <1>1, <2>1
<1>2. ASSUME LastAbout(q, n) # 0 PROVE \E j \in DOMAIN q : q[j].name = n
  <2>1. LastAbout(q, n) \in DOMAIN q
    BY <1>2, LastIs
  <2> QED BY <1>2, <2>1, LastIs
<1> QED BY <1>1, <1>2

\* What is appended about the name is the last about it; what is about another changes nothing.
LEMMA LastAppend ==
  ASSUME NEW S, NEW q \in Seq(S), NEW e \in S, NEW n
  PROVE  LastAbout(Append(q, e), n) = IF e.name = n THEN Len(q) + 1 ELSE LastAbout(q, n)
<1> DEFINE r == Append(q, e)
<1>0. /\ r \in Seq(S) /\ Len(q) \in Nat /\ Len(r) = Len(q) + 1 /\ r[Len(q) + 1] = e
      /\ \A j \in 1 .. Len(q) : r[j] = q[j]
      /\ DOMAIN r = 1 .. Len(q) + 1 /\ DOMAIN q = 1 .. Len(q)
  OBVIOUS
<1> HIDE DEF r
<1>1. CASE e.name = n
  <2>1. LastAbout(r, n) = Len(q) + 1
    BY <1>0, <1>1, LastUnique
  <2> QED BY <1>1, <2>1 DEF r
<1>2. CASE e.name # n
  <2>1. \A j \in DOMAIN r : r[j].name = n => j \in DOMAIN q /\ q[j].name = n
    BY <1>0, <1>2
  <2>2. CASE LastAbout(q, n) = 0
    <3>1. LastAbout(r, n) = 0
      BY <1>0, <2>1, <2>2, LastNone
    <3> QED BY <1>2, <2>2, <3>1 DEF r
  <2>3. CASE LastAbout(q, n) # 0
    <3>1. /\ LastAbout(q, n) \in DOMAIN q /\ q[LastAbout(q, n)].name = n
          /\ \A j \in DOMAIN q : q[j].name = n => j <= LastAbout(q, n)
      BY <1>0, <2>3, LastIs
    <3>2. LastAbout(q, n) \in DOMAIN r /\ r[LastAbout(q, n)].name = n
      BY <1>0, <3>1
    <3>3. LastAbout(r, n) = LastAbout(q, n)
      BY <1>0, <2>1, <3>1, <3>2, LastUnique
    <3> QED BY <1>2, <3>3 DEF r
  <2> QED BY <2>2, <2>3
<1> QED BY <1>1, <1>2

\* Reading the head moves the last place about a name one to the front.
LEMMA LastTail ==
  ASSUME NEW S, NEW q \in Seq(S), q # <<>>, NEW n
  PROVE  LastAbout(Tail(q), n) = IF LastAbout(q, n) = 0 THEN 0 ELSE LastAbout(q, n) - 1
<1> DEFINE r == Tail(q)
<1>0. /\ r \in Seq(S) /\ Len(q) \in Nat \ {0} /\ Len(r) = Len(q) - 1
      /\ \A j \in 1 .. Len(q) - 1 : r[j] = q[j + 1]
      /\ DOMAIN r = 1 .. Len(q) - 1 /\ DOMAIN q = 1 .. Len(q)
  OBVIOUS
<1> HIDE DEF r
<1>a. \A j \in DOMAIN r : j + 1 \in DOMAIN q /\ r[j] = q[j + 1]
  BY <1>0
<1>b. /\ LastAbout(q, n) \in 0 .. Len(q)
      /\ \A j \in DOMAIN q : q[j].name = n => j <= LastAbout(q, n)
      /\ LastAbout(q, n) # 0 => q[LastAbout(q, n)].name = n
  BY LastIs
<1>1. CASE \A j \in DOMAIN r : r[j].name # n
  <2>1. LastAbout(r, n) = 0
    BY <1>0, <1>1, LastNone
  <2>2. LastAbout(q, n) \in {0, 1}
    <3> SUFFICES ASSUME LastAbout(q, n) > 1 PROVE FALSE
      BY <1>0, <1>b
    <3>1. LastAbout(q, n) - 1 \in DOMAIN r /\ r[LastAbout(q, n) - 1] = q[LastAbout(q, n)]
      BY <1>0, <1>b
    <3> QED BY <1>1, <1>b, <3>1
  <2> QED BY <2>1, <2>2 DEF r
<1>2. CASE \E j \in DOMAIN r : r[j].name = n
  <2>1. PICK j \in DOMAIN r : r[j].name = n
    BY <1>2
  <2>2. j + 1 <= LastAbout(q, n)
    BY <1>a, <1>b, <2>1
  <2>3. LastAbout(q, n) - 1 \in DOMAIN r /\ r[LastAbout(q, n) - 1] = q[LastAbout(q, n)]
    BY <1>0, <1>b, <2>1, <2>2
  <2>4. r[LastAbout(q, n) - 1].name = n /\ LastAbout(q, n) # 0
    BY <1>0, <1>b, <2>1, <2>2, <2>3
  <2>5. \A i \in DOMAIN r : r[i].name = n => i <= LastAbout(q, n) - 1
    BY <1>0, <1>a, <1>b
  <2>6. LastAbout(r, n) = LastAbout(q, n) - 1
    BY <1>0, <2>3, <2>4, <2>5, LastUnique
  <2> QED BY <2>4, <2>6 DEF r
<1> QED BY <1>1, <1>2

\* What a mailbox of orders makes of the value v that is known now.
Word(v, q, n) ==
  LET k == LastAbout(q, n)
  IN  IF k = 0 THEN v ELSE IF q[k].what = "register" THEN q[k].inst ELSE 0

\* Whether a mailbox of events leaves an entry of state st running.
Hears(st, q, n) ==
  LET k == LastAbout(q, n)
  IN  IF k = 0 THEN st = "running" ELSE q[k].what = "started"

LEMMA WordAppend ==
  ASSUME NEW q \in Seq(Order), NEW o \in Order, NEW n, NEW v
  PROVE  Word(v, Append(q, o), n) =
           IF o.name = n THEN (IF o.what = "register" THEN o.inst ELSE 0) ELSE Word(v, q, n)
<1>1. LastAbout(Append(q, o), n) = IF o.name = n THEN Len(q) + 1 ELSE LastAbout(q, n)
  BY LastAppend
<1>2. LastAbout(q, n) \in 0 .. Len(q) /\ Len(q) \in Nat
  BY LastIs
<1>3. Append(q, o)[Len(q) + 1] = o /\ \A j \in 1 .. Len(q) : Append(q, o)[j] = q[j]
  OBVIOUS
<1> QED BY <1>1, <1>2, <1>3 DEF Word

\* Reading an order does at once what it was going to do.
LEMMA WordTail ==
  ASSUME NEW q \in Seq(Order), q # <<>>, NEW n, NEW v, NEW w,
         IF Head(q).name = n THEN w = (IF Head(q).what = "register" THEN Head(q).inst ELSE 0)
                             ELSE w = v
  PROVE  Word(w, Tail(q), n) = Word(v, q, n)
<1>0. LastAbout(Tail(q), n) = IF LastAbout(q, n) = 0 THEN 0 ELSE LastAbout(q, n) - 1
  BY LastTail
<1>1. /\ LastAbout(q, n) \in 0 .. Len(q) /\ Len(q) \in Nat
      /\ \A j \in DOMAIN q : q[j].name = n => j <= LastAbout(q, n)
      /\ LastAbout(q, n) # 0 => q[LastAbout(q, n)].name = n
  BY LastIs
<1>2. Head(q) = q[1] /\ 1 \in DOMAIN q /\ \A j \in 1 .. Len(q) - 1 : Tail(q)[j] = q[j + 1]
  OBVIOUS
<1>3. CASE LastAbout(q, n) = 0
  <2>1. Head(q).name # n
    BY <1>1, <1>2, <1>3
  <2> QED BY <1>0, <1>3, <2>1 DEF Word
<1>4. CASE LastAbout(q, n) = 1
  <2>1. Head(q).name = n
    BY <1>1, <1>2, <1>4
  <2> QED BY <1>0, <1>2, <1>4, <2>1 DEF Word
<1>5. CASE LastAbout(q, n) > 1
  <2>1. Tail(q)[LastAbout(q, n) - 1] = q[LastAbout(q, n)] /\ LastAbout(Tail(q), n) # 0
    BY <1>0, <1>1, <1>2, <1>5
  <2> QED BY <1>0, <1>5, <2>1 DEF Word
<1> QED BY <1>1, <1>3, <1>4, <1>5

LEMMA HearsAppend ==
  ASSUME NEW q \in Seq(Event), NEW e \in Event, NEW n, NEW st
  PROVE  Hears(st, Append(q, e), n) <=> IF e.name = n THEN e.what = "started" ELSE Hears(st, q, n)
<1>1. LastAbout(Append(q, e), n) = IF e.name = n THEN Len(q) + 1 ELSE LastAbout(q, n)
  BY LastAppend
<1>2. LastAbout(q, n) \in 0 .. Len(q) /\ Len(q) \in Nat
  BY LastIs
<1>3. Append(q, e)[Len(q) + 1] = e /\ \A j \in 1 .. Len(q) : Append(q, e)[j] = q[j]
  OBVIOUS
<1> QED BY <1>1, <1>2, <1>3 DEF Hears

\* Handling an event does at once what it was going to do.
LEMMA HearsTail ==
  ASSUME NEW q \in Seq(Event), q # <<>>, NEW n, NEW st, NEW st2,
         IF Head(q).name = n THEN (st2 = "running" <=> Head(q).what = "started") ELSE st2 = st
  PROVE  Hears(st2, Tail(q), n) <=> Hears(st, q, n)
<1>0. LastAbout(Tail(q), n) = IF LastAbout(q, n) = 0 THEN 0 ELSE LastAbout(q, n) - 1
  BY LastTail
<1>1. /\ LastAbout(q, n) \in 0 .. Len(q) /\ Len(q) \in Nat
      /\ \A j \in DOMAIN q : q[j].name = n => j <= LastAbout(q, n)
      /\ LastAbout(q, n) # 0 => q[LastAbout(q, n)].name = n
  BY LastIs
<1>2. Head(q) = q[1] /\ 1 \in DOMAIN q /\ \A j \in 1 .. Len(q) - 1 : Tail(q)[j] = q[j + 1]
  OBVIOUS
<1>3. CASE LastAbout(q, n) = 0
  <2>1. Head(q).name # n
    BY <1>1, <1>2, <1>3
  <2> QED BY <1>0, <1>3, <2>1 DEF Hears
<1>4. CASE LastAbout(q, n) = 1
  <2>1. Head(q).name = n
    BY <1>1, <1>2, <1>4
  <2> QED BY <1>0, <1>2, <1>4, <2>1 DEF Hears
<1>5. CASE LastAbout(q, n) > 1
  <2>1. Tail(q)[LastAbout(q, n) - 1] = q[LastAbout(q, n)] /\ LastAbout(Tail(q), n) # 0
    BY <1>0, <1>1, <1>2, <1>5
  <2> QED BY <1>0, <1>5, <2>1 DEF Hears
<1> QED BY <1>1, <1>3, <1>4, <1>5

-----------------------------------------------------------------------------
(* The inductive invariant *)

\* An entry is of an actor that was started under its name.
TableInv ==
  \A n \in Names : Supervised(n) =>
    agents[n].inst \in DOMAIN insts /\ insts[agents[n].inst].name = n

\* A migration that awaits its end is of an actor that lives.
MovingInv == \A i \in DOMAIN insts : insts[i].moving => insts[i].life \in {"running", "migrating"}

\* The registry's last word about a name is a living actor of that name.
WordInv ==
  /\ \A k \in DOMAIN regQ : regQ[k].inst \in DOMAIN insts
  /\ \A n \in Names : Settled(n) # 0 =>
       /\ Settled(n) \in DOMAIN insts
       /\ insts[Settled(n)].name = n /\ Alive(Settled(n))

\* The events that will have a name's entry restarted or removed, and the restarts that wait.
EndingIn(q, n) == {k \in DOMAIN q : q[k].name = n /\ q[k].what \in {"failed", "migrated"}}
RestartingIn(q, n) == {k \in DOMAIN q : q[k].name = n}
Ending(n) == EndingIn(supQ, n)
Restarting(n) == RestartingIn(timers, n)

\* Of these there is at most one.
EndsInv ==
  \A n \in Names : ~raced[n] =>
    /\ \A j, k \in Ending(n) : j = k
    /\ \A j, k \in Restarting(n) : j = k
    /\ Ending(n) = {} \/ Restarting(n) = {}

\* While an actor lives, no other of its name does and nothing is about to restart or remove it;
\* it is in the table, or its name is in the table no more and it has been told to stop.
AliveInv ==
  \A i \in DOMAIN insts, n \in Names : insts[i].name = n /\ Alive(i) /\ ~raced[n] =>
    /\ \A j \in DOMAIN insts : insts[j].name = n /\ Alive(j) => j = i
    /\ Ending(n) = {} /\ Restarting(n) = {}
    /\ Supervised(n) => agents[n].inst = i
    /\ ~Supervised(n) => insts[i].bell

\* With the events that wait, an entry will say "running" just when its actor, once started, lives.
HeardInv ==
  \A n \in Names : up /\ Supervised(n) /\ ~raced[n] /\ insts[agents[n].inst].life # "starting" =>
    (Hears(agents[n].state, supQ, n) <=> Alive(agents[n].inst))

SupervisionInv ==
  /\ TypeOK /\ TableInv /\ MovingInv /\ WordInv /\ EndsInv /\ AliveInv /\ HeardInv
  /\ LiveRegistered /\ StopSticks

\* A life is one of four.
LEMMA Lives == ASSUME TypeOK, NEW i \in DOMAIN insts
               PROVE  /\ insts[i] \in Instance /\ insts[i].life \in Life
                      /\ insts[i].name \in Names
<1>1. insts \in Seq(Instance)
  BY DEF TypeOK
<1>2. insts[i] \in Instance
  BY <1>1
<1> QED BY <1>2 DEF Instance

LEMMA InitSupervision == Init => SupervisionInv
<1> SUFFICES ASSUME Init PROVE SupervisionInv
  OBVIOUS
<1>0. DOMAIN insts = {} /\ DOMAIN supQ = {} /\ DOMAIN regQ = {} /\ DOMAIN timers = {} /\ Len(insts) = 0
  BY DEF Init
<1>1. TypeOK
  BY <1>0 DEF Init, TypeOK
<1>2. ASSUME NEW n \in Names PROVE Settled(n) = 0
  <2>1. LastAbout(regQ, n) = 0
    BY <1>0, <1>1, LastNone DEF TypeOK
  <2> QED BY <2>1 DEF Settled, Init
<1>3. \A n \in Names : ~Supervised(n)
  BY DEF Init, Supervised
<1> QED BY <1>0, <1>1, <1>2, <1>3
  DEF SupervisionInv, TableInv, MovingInv, WordInv, EndsInv, AliveInv, HeardInv, LiveRegistered,
      StopSticks, Ending, Restarting, EndingIn, RestartingIn

\* The invariant is what SupervisionSafe says and more.
LEMMA SupervisionEnough == SupervisionInv => SupervisionSafe
<1> SUFFICES ASSUME SupervisionInv PROVE SupervisionSafe
  OBVIOUS
<1>1. TypeOK /\ StopSticks /\ LiveRegistered
  BY DEF SupervisionInv
<1>2. NoOrphan
  <2> SUFFICES ASSUME NEW i \in DOMAIN insts, Alive(i), ~raced[insts[i].name]
               PROVE  Tracks(i) \/ insts[i].bell
    BY DEF NoOrphan
  <2>1. insts[i].name \in Names
    BY <1>1, Lives
  <2> QED BY <2>1 DEF SupervisionInv, AliveInv, Tracks
<1>3. NoDeadRegistered
  BY DEF SupervisionInv, WordInv, NoDeadRegistered
<1>4. StateTruthful
  <2> SUFFICES ASSUME NEW n \in Names, up, Supervised(n), ~raced[n],
                      \A k \in DOMAIN supQ : supQ[k].name # n,
                      insts[agents[n].inst].life # "starting"
               PROVE  agents[n].state = "running" <=> Alive(agents[n].inst)
    BY DEF StateTruthful
  <2>1. Hears(agents[n].state, supQ, n) <=> Alive(agents[n].inst)
    BY DEF SupervisionInv, HeardInv
  <2>2. LastAbout(supQ, n) = 0
    BY <1>1, LastNone DEF TypeOK
  <2> QED BY <2>1, <2>2 DEF Hears
<1> QED BY <1>1, <1>2, <1>3, <1>4 DEF SupervisionSafe

-----------------------------------------------------------------------------
(* Mailboxes and timers *)

Told(i, w) == [what |-> w, name |-> insts[i].name, inst |-> i]

\* Two messages more in a mailbox.
LEMMA AppendTwo ==
  ASSUME NEW S, NEW q \in Seq(S), NEW x \in S, NEW y \in S
  PROVE  q \o <<x, y>> = Append(Append(q, x), y)
<1> DEFINE a == q \o <<x, y>>
           b == Append(Append(q, x), y)
<1>0. Len(q) \in Nat /\ <<x, y>> \in Seq(S) /\ Len(<<x, y>>) = 2 /\ <<x, y>>[1] = x /\ <<x, y>>[2] = y
  OBVIOUS
<1>1. /\ a \in Seq(S) /\ Len(a) = Len(q) + 2
      /\ \A k \in 1 .. Len(q) + 2 : a[k] = IF k <= Len(q) THEN q[k] ELSE <<x, y>>[k - Len(q)]
  BY <1>0, ConcatProperties
<1>2. /\ Append(q, x) \in Seq(S) /\ Len(Append(q, x)) = Len(q) + 1
      /\ \A k \in 1 .. Len(q) : Append(q, x)[k] = q[k]
      /\ Append(q, x)[Len(q) + 1] = x
  BY AppendProperties
<1>3. /\ b \in Seq(S) /\ Len(b) = Len(q) + 2
      /\ \A k \in 1 .. Len(q) : b[k] = q[k]
      /\ b[Len(q) + 1] = x /\ b[Len(q) + 2] = y
  BY <1>0, <1>2
<1> HIDE DEF a, b
<1>4. ASSUME NEW k \in 1 .. Len(q) + 2 PROVE a[k] = b[k]
  <2>1. CASE k <= Len(q)
    BY <1>0, <1>1, <1>3, <2>1
  <2>2. CASE k = Len(q) + 1
    <3>1. k - Len(q) = 1 /\ ~(k <= Len(q))
      BY <1>0, <2>2
    <3> QED BY <1>0, <1>1, <1>3, <2>2, <3>1
  <2>3. CASE k = Len(q) + 2
    <3>1. k - Len(q) = 2 /\ ~(k <= Len(q))
      BY <1>0, <2>3
    <3> QED BY <1>0, <1>1, <1>3, <2>3, <3>1
  <2> QED BY <1>0, <2>1, <2>2, <2>3
<1>5. a = b
  BY <1>0, <1>1, <1>3, <1>4
<1> QED BY <1>5 DEF a, b

LEMMA ToldTyped ==
  ASSUME TypeOK, NEW i \in DOMAIN insts
  PROVE  /\ i \in Nat /\ insts[i].name \in Names
         /\ \A w \in {"started", "stopped", "failed", "migrated"} : Told(i, w) \in Event
         /\ \A w \in {"register", "deregister"} : Told(i, w) \in Order
<1>1. insts \in Seq(Instance)
  BY DEF TypeOK
<1>2. i \in Nat /\ insts[i] \in Instance
  BY <1>1
<1>3. insts[i].name \in Names
  BY <1>2 DEF Instance
<1> QED BY <1>2, <1>3 DEF Told, Event, Order

LEMMA NotifyOne ==
  ASSUME TypeOK, NEW i \in DOMAIN insts, NEW w \in {"started", "stopped", "failed", "migrated"},
         Notify(i, <<w>>)
  PROVE  supQ' = IF up THEN Append(supQ, Told(i, w)) ELSE supQ
<1>1. Told(i, w) \in Event /\ supQ \in Seq(Event)
  BY ToldTyped DEF TypeOK
<1>2. [k \in DOMAIN <<w>> |-> [what |-> <<w>>[k], name |-> insts[i].name, inst |-> i]] = <<Told(i, w)>>
  BY DEF Told
<1>3. supQ \o <<Told(i, w)>> = Append(supQ, Told(i, w))
  BY <1>1, AppendIsConcat
<1> QED BY <1>2, <1>3 DEF Notify

LEMMA NotifyTwo ==
  ASSUME TypeOK, NEW i \in DOMAIN insts, NEW w \in {"failed", "migrated"},
         Notify(i, <<w, "stopped">>)
  PROVE  supQ' = IF up THEN Append(Append(supQ, Told(i, w)), Told(i, "stopped")) ELSE supQ
<1> DEFINE ws == <<w, "stopped">>
<1>1. Told(i, w) \in Event /\ Told(i, "stopped") \in Event /\ supQ \in Seq(Event)
  BY ToldTyped DEF TypeOK
<1>2. [k \in DOMAIN ws |-> [what |-> ws[k], name |-> insts[i].name, inst |-> i]]
        = <<Told(i, w), Told(i, "stopped")>>
  BY DEF Told
<1>3. supQ \o <<Told(i, w), Told(i, "stopped")>> = Append(Append(supQ, Told(i, w)), Told(i, "stopped"))
  BY <1>1, AppendTwo
<1> QED BY <1>2, <1>3 DEF Notify

LEMMA TellOne ==
  ASSUME TypeOK, NEW i \in DOMAIN insts, NEW w \in {"register", "deregister"},
         TellRegistry(i, <<w>>)
  PROVE  regQ' = Append(regQ, Told(i, w))
<1>1. Told(i, w) \in Order /\ regQ \in Seq(Order)
  BY ToldTyped DEF TypeOK
<1>2. [k \in DOMAIN <<w>> |-> [what |-> <<w>>[k], name |-> insts[i].name, inst |-> i]] = <<Told(i, w)>>
  BY DEF Told
<1>3. regQ \o <<Told(i, w)>> = Append(regQ, Told(i, w))
  BY <1>1, AppendIsConcat
<1> QED BY <1>2, <1>3 DEF TellRegistry

LEMMA EndingAppend ==
  ASSUME NEW q \in Seq(Event), NEW e \in Event, NEW n
  PROVE  \A k : k \in EndingIn(Append(q, e), n) <=>
           \/ k \in EndingIn(q, n)
           \/ k = Len(q) + 1 /\ e.name = n /\ e.what \in {"failed", "migrated"}
<1>1. /\ DOMAIN Append(q, e) = 1 .. Len(q) + 1 /\ DOMAIN q = 1 .. Len(q) /\ Len(q) \in Nat
      /\ Append(q, e)[Len(q) + 1] = e /\ \A j \in 1 .. Len(q) : Append(q, e)[j] = q[j]
  OBVIOUS
<1> QED BY <1>1 DEF EndingIn

LEMMA EndingTail ==
  ASSUME NEW q \in Seq(Event), q # <<>>, NEW n
  PROVE  /\ \A k \in EndingIn(Tail(q), n) : k + 1 \in EndingIn(q, n) /\ k \in 1 .. Len(q) /\ Len(q) \in Nat
         /\ 1 \in EndingIn(q, n) <=> Head(q).name = n /\ Head(q).what \in {"failed", "migrated"}
<1>1. /\ DOMAIN Tail(q) = 1 .. Len(q) - 1 /\ DOMAIN q = 1 .. Len(q) /\ Len(q) \in Nat \ {0}
      /\ \A j \in 1 .. Len(q) - 1 : Tail(q)[j] = q[j + 1]
      /\ Head(q) = q[1]
  OBVIOUS
<1> QED BY <1>1 DEF EndingIn

\* If one event at most is to end the name's entry, there is one at most after the head is read, and
\* none if the head was it.
LEMMA EndingRead ==
  ASSUME NEW q \in Seq(Event), q # <<>>, NEW n, \A j, k \in EndingIn(q, n) : j = k
  PROVE  /\ \A j, k \in EndingIn(Tail(q), n) : j = k
         /\ EndingIn(q, n) = {} => EndingIn(Tail(q), n) = {}
         /\ Head(q).name = n /\ Head(q).what \in {"failed", "migrated"} => EndingIn(Tail(q), n) = {}
<1>1. \A k \in EndingIn(Tail(q), n) : k + 1 \in EndingIn(q, n) /\ k \in Nat \ {0}
  BY EndingTail
<1>2. \A j, k \in EndingIn(Tail(q), n) : j = k
  <2> SUFFICES ASSUME NEW j \in EndingIn(Tail(q), n), NEW k \in EndingIn(Tail(q), n) PROVE j = k
    OBVIOUS
  <2>1. j + 1 = k + 1 /\ j \in Nat /\ k \in Nat
    BY <1>1
  <2> QED BY <2>1
<1>3. EndingIn(q, n) = {} => EndingIn(Tail(q), n) = {}
  BY <1>1
<1>4. ASSUME Head(q).name = n, Head(q).what \in {"failed", "migrated"},
             NEW k \in EndingIn(Tail(q), n)
      PROVE  FALSE
  <2>1. 1 \in EndingIn(q, n) /\ k + 1 \in EndingIn(q, n) /\ k \in Nat \ {0}
    BY <1>1, <1>4, EndingTail
  <2>2. k + 1 = 1
    BY <2>1
  <2> QED BY <2>1, <2>2
<1> QED BY <1>2, <1>3, <1>4

Timer == [name : Names, delay : Delays]

LEMMA RestartAppend ==
  ASSUME NEW q \in Seq(Timer), NEW e \in Timer, NEW n
  PROVE  /\ Append(q, e) \in Seq(Timer)
         /\ \A k : k \in RestartingIn(Append(q, e), n) <=>
              k \in RestartingIn(q, n) \/ (k = Len(q) + 1 /\ e.name = n)
<1>1. /\ DOMAIN Append(q, e) = 1 .. Len(q) + 1 /\ DOMAIN q = 1 .. Len(q) /\ Len(q) \in Nat
      /\ Append(q, e)[Len(q) + 1] = e /\ \A j \in 1 .. Len(q) : Append(q, e)[j] = q[j]
  OBVIOUS
<1> QED BY <1>1 DEF RestartingIn

LEMMA RemovedAt ==
  ASSUME NEW S, NEW q \in Seq(S), NEW k \in DOMAIN q
  PROVE  /\ RemoveAt(q, k) \in Seq(S) /\ Len(RemoveAt(q, k)) = Len(q) - 1 /\ Len(q) \in Nat
         /\ \A j \in 1 .. Len(q) - 1 : RemoveAt(q, k)[j] = IF j < k THEN q[j] ELSE q[j + 1]
<1> DEFINE a == SubSeq(q, 1, k - 1)
           b == SubSeq(q, k + 1, Len(q))
<1>0. k \in 1 .. Len(q) /\ Len(q) \in Nat
  OBVIOUS
<1>1. a \in Seq(S) /\ Len(a) = k - 1 /\ \A j \in 1 .. k - 1 : a[j] = q[j]
  BY <1>0
<1>2. b \in Seq(S) /\ Len(b) = Len(q) - k /\ \A j \in 1 .. Len(q) - k : b[j] = q[k + j]
  BY <1>0
<1> HIDE DEF a, b
<1>3. a \o b \in Seq(S) /\ Len(a \o b) = Len(q) - 1
  BY <1>0, <1>1, <1>2
<1>4. ASSUME NEW j \in 1 .. Len(q) - 1 PROVE (a \o b)[j] = IF j < k THEN q[j] ELSE q[j + 1]
  <2>1. CASE j < k
    BY <1>0, <1>1, <1>2, <1>4, <2>1
  <2>2. CASE j >= k
    <3>1. (a \o b)[j] = b[j - (k - 1)]
      BY <1>0, <1>1, <1>2, <1>4, <2>2
    <3>2. j - (k - 1) \in 1 .. Len(q) - k /\ k + (j - (k - 1)) = j + 1
      BY <1>0, <1>4, <2>2
    <3>3. b[j - (k - 1)] = q[j + 1]
      BY <1>2, <3>2
    <3> QED BY <1>0, <2>2, <3>1, <3>3
  <2>3. j < k \/ j >= k
    BY <1>0
  <2> QED BY <2>1, <2>2, <2>3
<1>5. RemoveAt(q, k) = a \o b
  BY DEF RemoveAt, a, b
<1> QED BY <1>0, <1>3, <1>4, <1>5

\* If one restart at most waits for a name, so it is after a timer has fired, and none does if it
\* was the name's.
LEMMA RestartFired ==
  ASSUME NEW q \in Seq(Timer), NEW k \in DOMAIN q, NEW n, \A j, m \in RestartingIn(q, n) : j = m
  PROVE  /\ \A j, m \in RestartingIn(RemoveAt(q, k), n) : j = m
         /\ RestartingIn(q, n) = {} => RestartingIn(RemoveAt(q, k), n) = {}
         /\ q[k].name = n => RestartingIn(RemoveAt(q, k), n) = {}
<1> DEFINE r == RemoveAt(q, k)
           at(j) == IF j < k THEN j ELSE j + 1
<1>1. /\ r \in Seq(Timer) /\ Len(r) = Len(q) - 1 /\ Len(q) \in Nat
      /\ \A j \in 1 .. Len(q) - 1 : r[j] = IF j < k THEN q[j] ELSE q[j + 1]
  BY RemovedAt
<1> HIDE DEF r
<1>0. k \in 1 .. Len(q) /\ DOMAIN q = 1 .. Len(q) /\ DOMAIN r = 1 .. Len(q) - 1
  BY <1>1
<1>2. \A j \in RestartingIn(r, n) : at(j) \in RestartingIn(q, n) /\ j \in Nat
  BY <1>0, <1>1 DEF RestartingIn
<1>3. ASSUME NEW j \in RestartingIn(r, n), NEW m \in RestartingIn(r, n) PROVE j = m
  <2>1. at(j) = at(m) /\ j \in Nat /\ m \in Nat
    BY <1>2
  <2> QED BY <1>0, <2>1
<1>4. RestartingIn(q, n) = {} => RestartingIn(r, n) = {}
  BY <1>2
<1>5. ASSUME q[k].name = n, NEW j \in RestartingIn(r, n) PROVE FALSE
  <2>1. k \in RestartingIn(q, n)
    BY <1>5 DEF RestartingIn
  <2>2. at(j) = k /\ j \in Nat
    BY <1>2, <2>1
  <2> QED BY <1>0, <2>2
<1> QED BY <1>3, <1>4, <1>5 DEF r

-----------------------------------------------------------------------------
(* The steps of the actors *)

\* What the parts of the invariant see of an actor stays as it is, but for its being told to stop.
SameActor(j) ==
  /\ insts'[j].name = insts[j].name
  /\ insts[j].life # "stopped" /\ insts[j].bell => insts'[j].bell
  /\ insts'[j].life = "stopped" <=> insts[j].life = "stopped"
  /\ insts'[j].life = "starting" <=> insts[j].life = "starting"
  /\ insts'[j].moving => insts'[j].life \in {"running", "migrating"}

SameActors == DOMAIN insts' = DOMAIN insts /\ \A j \in DOMAIN insts : SameActor(j)

\* A step of the supervisor that starts no actor keeps the invariant if it only takes entries away
\* or gives them a state that an event was going to give them, tells the actor of an entry it takes
\* away to stop, and sets off no restart or removal of a name whose actor lives.
LEMMA TableStep ==
  ASSUME SupervisionInv, TypeOK', SameActors, UNCHANGED <<regQ, registry, raced>>,
         EndsInv', StopSticks', up' => up,
         \A m \in Names : Supervised(m)' => Supervised(m) /\ agents'[m].inst = agents[m].inst,
         \A j \in DOMAIN insts, m \in Names : insts[j].name = m /\ Alive(j) /\ ~raced[m] =>
           /\ Ending(m)' = {} /\ Restarting(m)' = {}
           /\ Supervised(m) /\ ~Supervised(m)' => insts'[j].bell,
         \A m \in Names : up' /\ Supervised(m)' /\ ~raced[m] =>
           (Hears(agents[m].state, supQ, m)' <=> Hears(agents[m].state, supQ, m))
  PROVE  SupervisionInv'
<1>0. TypeOK
  BY DEF SupervisionInv
<1>1. TableInv'
  <2> SUFFICES ASSUME NEW m \in Names, Supervised(m)'
               PROVE  agents'[m].inst \in DOMAIN insts' /\ insts'[agents'[m].inst].name = m
    BY DEF TableInv
  <2>1. agents[m].inst \in DOMAIN insts /\ insts[agents[m].inst].name = m /\ agents'[m].inst = agents[m].inst
    BY DEF SupervisionInv, TableInv
  <2> QED BY <2>1 DEF SameActors, SameActor
<1>2. MovingInv'
  BY DEF MovingInv, SameActors, SameActor
<1>3. \A n : Settled(n)' = Settled(n)
  BY DEF Settled
<1>4. WordInv'
  BY <1>3 DEF SupervisionInv, WordInv, SameActors, SameActor, Alive
<1>6. /\ DOMAIN insts' = DOMAIN insts
      /\ \A i \in DOMAIN insts : /\ Alive(i)' <=> Alive(i)
                                 /\ insts'[i].name = insts[i].name /\ (Alive(i) /\ insts[i].bell => insts'[i].bell)
                                 /\ insts'[i].life = "starting" <=> insts[i].life = "starting"
  BY DEF SameActors, SameActor, Alive
<1>7. AliveInv'
  <2> SUFFICES ASSUME NEW j \in DOMAIN insts', NEW m \in Names, insts'[j].name = m, Alive(j)', ~raced'[m]
               PROVE  /\ \A k \in DOMAIN insts' : insts'[k].name = m /\ Alive(k)' => k = j
                      /\ Ending(m)' = {} /\ Restarting(m)' = {}
                      /\ Supervised(m)' => agents'[m].inst = j
                      /\ ~Supervised(m)' => insts'[j].bell
    BY DEF AliveInv
  <2>1. j \in DOMAIN insts /\ insts[j].name = m /\ Alive(j) /\ ~raced[m]
    BY <1>6
  <2>2. /\ \A k \in DOMAIN insts : insts[k].name = m /\ Alive(k) => k = j
        /\ Supervised(m) => agents[m].inst = j
        /\ ~Supervised(m) => insts[j].bell
    BY <2>1 DEF SupervisionInv, AliveInv
  <2>3. /\ Ending(m)' = {} /\ Restarting(m)' = {}
        /\ Supervised(m) /\ ~Supervised(m)' => insts'[j].bell
    BY <2>1
  <2>4. Supervised(m)' => Supervised(m) /\ agents'[m].inst = agents[m].inst
    OBVIOUS
  <2>5. insts[j].bell => insts'[j].bell
    BY <1>6, <2>1
  <2>6. \A k \in DOMAIN insts' : insts'[k].name = m /\ Alive(k)' => k = j
    BY <1>6, <2>2
  <2> QED BY <2>2, <2>3, <2>4, <2>5, <2>6
<1>8. HeardInv'
  <2> SUFFICES ASSUME NEW n \in Names, up', Supervised(n)', ~raced'[n],
                      insts'[agents'[n].inst].life # "starting"
               PROVE  (Hears(agents[n].state, supQ, n) <=> Alive(agents[n].inst))'
    BY DEF HeardInv
  <2>0. Supervised(n) /\ up /\ ~raced[n] /\ agents'[n].inst = agents[n].inst
    OBVIOUS
  <2>1. agents[n].inst \in DOMAIN insts
    BY <2>0 DEF SupervisionInv, TableInv
  <2>2. insts[agents[n].inst].life # "starting"
    BY <1>6, <2>0, <2>1
  <2>3. Hears(agents[n].state, supQ, n) <=> Alive(agents[n].inst)
    BY <2>0, <2>1, <2>2 DEF SupervisionInv, HeardInv
  <2>4. Hears(agents[n].state, supQ, n)' <=> Hears(agents[n].state, supQ, n)
    BY <2>0
  <2>5. Alive(agents[n].inst)' <=> Alive(agents[n].inst)
    BY <2>0, <2>1 DEF Alive, SameActors, SameActor
  <2> QED BY <2>3, <2>4, <2>5
<1>9. LiveRegistered'
  <2> SUFFICES ASSUME NEW i \in DOMAIN insts', insts'[i].life \in {"running", "migrating"},
                      ~raced'[insts'[i].name]
               PROVE  Settled(insts[i].name)' = i
    BY DEF LiveRegistered
  <2>1. i \in DOMAIN insts /\ insts'[i].name = insts[i].name
        /\ insts[i].life \notin {"stopped", "starting"}
    BY DEF SameActors, SameActor
  <2>2. insts[i].life \in {"running", "migrating"}
    BY <1>0, <2>1, Lives DEF Life
  <2>3. Settled(insts[i].name) = i
    BY <2>1, <2>2 DEF SupervisionInv, LiveRegistered
  <2> QED BY <1>3, <2>1, <2>3
<1> QED BY <1>1, <1>2, <1>4, <1>7, <1>8, <1>9 DEF SupervisionInv

\* An actor's steps that nobody is told of keep the invariant.
LEMMA QuietStep ==
  ASSUME SupervisionInv, TypeOK', SameActors,
         UNCHANGED <<agents, supQ, regQ, registry, timers, up, wanted, raced>>
  PROVE  SupervisionInv'
<1>1. EndsInv' /\ StopSticks'
  BY DEF SupervisionInv, EndsInv, Ending, Restarting, StopSticks, Supervised
<1>2. \A m \in Names : /\ Supervised(m)' <=> Supervised(m)
                       /\ Ending(m)' = Ending(m) /\ Restarting(m)' = Restarting(m)
                       /\ Hears(agents[m].state, supQ, m)' <=> Hears(agents[m].state, supQ, m)
  BY DEF Supervised, Ending, Restarting
<1>3. \A j \in DOMAIN insts, m \in Names : insts[j].name = m /\ Alive(j) /\ ~raced[m] =>
        Ending(m) = {} /\ Restarting(m) = {}
  BY DEF SupervisionInv, AliveInv
<1> QED BY <1>1, <1>2, <1>3, TableStep

\* One actor changes and keeps its name.
Becomes(i, r) ==
  /\ insts' = [insts EXCEPT ![i] = r]
  /\ r \in Instance /\ r.name = insts[i].name

LEMMA BecomesIs ==
  ASSUME TypeOK, NEW i \in DOMAIN insts, NEW r, Becomes(i, r)
  PROVE  /\ insts' \in Seq(Instance) /\ Len(insts') = Len(insts) /\ DOMAIN insts' = DOMAIN insts
         /\ insts'[i] = r /\ \A j \in DOMAIN insts : j # i => insts'[j] = insts[j]
         /\ \A j \in DOMAIN insts : insts'[j].name = insts[j].name
  BY DEF Becomes, TypeOK

\* The types of a step that tells of an actor.
LEMMA TellType ==
  ASSUME TypeOK, insts' \in Seq(Instance), Len(insts') = Len(insts),
         supQ' \in Seq(Event), regQ' \in Seq(Order),
         used' \in [{"spawns", "stops", "failures", "migrations"} -> Nat],
         UNCHANGED <<agents, registry, timers, up, wanted, raced>>
  PROVE  TypeOK'
  BY DEF TypeOK

\* An actor that has started reports it and registers.
LEMMA StartStep ==
  ASSUME SupervisionInv, NEW i \in DOMAIN insts, insts[i].life = "starting",
         NEW r, Becomes(i, r), r.life = "running", r.bell = insts[i].bell,
         Notify(i, <<"started">>), TellRegistry(i, <<"register">>),
         UNCHANGED <<agents, registry, timers, up, used, wanted, raced>>
  PROVE  SupervisionInv'
<1>0. TypeOK /\ i \in Nat \ {0} /\ insts[i].name \in Names
  BY Lives DEF SupervisionInv, TypeOK
<1>1. /\ insts' \in Seq(Instance) /\ Len(insts') = Len(insts) /\ DOMAIN insts' = DOMAIN insts
      /\ insts'[i] = r /\ \A j \in DOMAIN insts : j # i => insts'[j] = insts[j]
      /\ \A j \in DOMAIN insts : insts'[j].name = insts[j].name
  BY <1>0, BecomesIs
<1>n. PICK n \in Names : n = insts[i].name
  BY <1>0
<1>2. PICK e \in Event : /\ e.name = n /\ e.what = "started"
                         /\ supQ' = IF up THEN Append(supQ, e) ELSE supQ
  BY <1>0, <1>n, ToldTyped, NotifyOne DEF Told
<1>3. PICK o \in Order : /\ o.name = n /\ o.what = "register" /\ o.inst = i
                         /\ regQ' = Append(regQ, o)
  BY <1>0, <1>n, ToldTyped, TellOne DEF Told
<1>4. \A j \in DOMAIN insts : Alive(j)' <=> Alive(j)
  BY <1>1 DEF Alive
<1>5. supQ \in Seq(Event) /\ regQ \in Seq(Order)
  BY <1>0 DEF TypeOK
<1>6. TypeOK'
  BY <1>0, <1>1, <1>2, <1>3, <1>5, TellType DEF TypeOK
<1>7. \A m \in Names : Settled(m)' = IF m = n THEN i ELSE Settled(m)
  <2> SUFFICES ASSUME NEW m \in Names PROVE Settled(m)' = IF m = n THEN i ELSE Settled(m)
    OBVIOUS
  <2>1. Word(registry[m], Append(regQ, o), m) = IF m = n THEN i ELSE Word(registry[m], regQ, m)
    BY <1>3, <1>5, WordAppend
  <2> QED BY <1>3, <2>1 DEF Word, Settled
<1>8. \A m \in Names : Ending(m)' = Ending(m) /\ Restarting(m)' = Restarting(m)
  <2> SUFFICES ASSUME NEW m \in Names PROVE Ending(m)' = Ending(m)
    BY DEF Restarting
  <2>1. \A k : k \in EndingIn(Append(supQ, e), m) <=> k \in EndingIn(supQ, m)
    BY <1>2, <1>5, EndingAppend
  <2>2. EndingIn(Append(supQ, e), m) = EndingIn(supQ, m)
    BY <2>1
  <2> QED BY <1>2, <2>2 DEF Ending
<1>9. TableInv' /\ MovingInv' /\ StopSticks' /\ EndsInv'
  <2>1. TableInv'
    BY <1>1 DEF SupervisionInv, TableInv, Supervised
  <2>2. MovingInv'
    BY <1>1 DEF SupervisionInv, MovingInv
  <2>3. StopSticks' /\ EndsInv'
    BY <1>8 DEF SupervisionInv, StopSticks, Supervised, EndsInv
  <2> QED BY <2>1, <2>2, <2>3
<1>10. WordInv'
  <2>1. \A k \in DOMAIN regQ' : regQ'[k].inst \in DOMAIN insts'
    BY <1>1, <1>3, <1>5 DEF SupervisionInv, WordInv
  <2>2. Alive(i)
    BY DEF Alive
  <2>3. ASSUME NEW m \in Names, Settled(m)' # 0
        PROVE  /\ Settled(m)' \in DOMAIN insts'
               /\ insts'[Settled(m)'].name = m /\ insts'[Settled(m)'].life # "stopped"
    <3>1. CASE m = n
      BY <1>1, <1>7, <1>n, <3>1
    <3>2. CASE m # n
      <4>1. Settled(m)' = Settled(m) /\ Settled(m) # 0
        BY <1>7, <2>3, <3>2
      <4>2. Settled(m) \in DOMAIN insts /\ insts[Settled(m)].name = m /\ Alive(Settled(m))
        BY <4>1 DEF SupervisionInv, WordInv
      <4> QED BY <1>1, <1>4, <4>1, <4>2 DEF Alive
    <3> QED BY <3>1, <3>2
  <2> QED BY <2>1, <2>3 DEF WordInv, Alive
<1>11. AliveInv'
  <2>1. \A j \in DOMAIN insts : insts[j].bell => insts'[j].bell
    BY <1>1
  <2>2. \A m \in Names : Supervised(m)' <=> Supervised(m)
    BY DEF Supervised
  <2> SUFFICES ASSUME NEW j \in DOMAIN insts', NEW m \in Names, insts'[j].name = m, Alive(j)', ~raced'[m]
               PROVE  /\ \A k \in DOMAIN insts' : insts'[k].name = m /\ Alive(k)' => k = j
                      /\ Ending(m)' = {} /\ Restarting(m)' = {}
                      /\ Supervised(m)' => agents'[m].inst = j
                      /\ ~Supervised(m)' => insts'[j].bell
    BY DEF AliveInv
  <2>3. /\ \A k \in DOMAIN insts : insts[k].name = m /\ Alive(k) => k = j
        /\ Ending(m) = {} /\ Restarting(m) = {}
        /\ Supervised(m) => agents[m].inst = j
        /\ ~Supervised(m) => insts[j].bell
    <3>1. j \in DOMAIN insts /\ insts[j].name = m /\ Alive(j) /\ ~raced[m]
      BY <1>1, <1>4
    <3> QED BY <3>1 DEF SupervisionInv, AliveInv
  <2> QED BY <1>1, <1>4, <1>8, <2>1, <2>2, <2>3
<1>12. HeardInv'
  <2> SUFFICES ASSUME NEW m \in Names, up', Supervised(m)', ~raced'[m],
                      insts'[agents'[m].inst].life # "starting"
               PROVE  (Hears(agents[m].state, supQ, m) <=> Alive(agents[m].inst))'
    BY DEF HeardInv
  <2>1. /\ Supervised(m) /\ agents[m].inst \in DOMAIN insts /\ insts[agents[m].inst].name = m
        /\ agents'[m] = agents[m] /\ up /\ ~raced[m]
    BY DEF SupervisionInv, TableInv, Supervised
  <2>2. Hears(agents[m].state, Append(supQ, e), m) <=>
          IF m = n THEN TRUE ELSE Hears(agents[m].state, supQ, m)
    BY <1>2, <1>5, HearsAppend
  <2>3. CASE m = n
    <3>1. agents[m].inst = i
      BY <1>n, <2>1, <2>3 DEF SupervisionInv, AliveInv, Alive, Tracks
    <3> QED BY <1>1, <1>2, <2>1, <2>2, <2>3, <3>1 DEF Alive
  <2>4. CASE m # n
    <3>1. agents[m].inst # i /\ insts'[agents[m].inst] = insts[agents[m].inst]
      BY <1>1, <1>n, <2>1, <2>4
    <3>2. Hears(agents[m].state, supQ, m) <=> Alive(agents[m].inst)
      BY <2>1, <3>1 DEF SupervisionInv, HeardInv
    <3> QED BY <1>2, <1>4, <2>1, <2>2, <2>4, <3>2
  <2> QED BY <2>3, <2>4
<1>13. LiveRegistered'
  <2> SUFFICES ASSUME NEW j \in DOMAIN insts, insts'[j].life \in {"running", "migrating"},
                      ~raced[insts[j].name]
               PROVE  Settled(insts[j].name)' = j
    BY <1>1 DEF LiveRegistered
  <2>1. insts[j].name \in Names /\ insts'[j].name = insts[j].name
    BY <1>0, <1>1, Lives
  <2>2. PICK m \in Names : m = insts[j].name
    BY <2>1
  <2>3. Settled(m)' = j
    <3>1. CASE m = n
      <4>1. Alive(j) /\ Alive(i)
        BY <1>4 DEF Alive
      <4>2. j = i
        BY <1>n, <2>2, <3>1, <4>1 DEF SupervisionInv, AliveInv
      <4> QED BY <1>7, <3>1, <4>2
    <3>2. CASE m # n
      <4>1. j # i /\ insts'[j] = insts[j]
        BY <1>1, <1>n, <2>2, <3>2
      <4>2. Settled(m) = j
        BY <2>2, <4>1 DEF SupervisionInv, LiveRegistered
      <4> QED BY <1>7, <3>2, <4>2
    <3> QED BY <3>1, <3>2
  <2> QED BY <2>1, <2>2, <2>3
<1> QED BY <1>6, <1>9, <1>10, <1>11, <1>12, <1>13 DEF SupervisionInv

-----------------------------------------------------------------------------
(* The end of an actor *)

LEMMA SameMembers == ASSUME NEW A, NEW B, \A k : k \in A <=> k \in B PROVE A = B
  OBVIOUS

LEMMA Pair == ASSUME NEW x, NEW y PROVE Append(<<x>>, y) = <<x, y>>
<1> DEFINE S == {x, y}
<1>1. <<>> \in Seq(S) /\ x \in S /\ y \in S /\ <<x, y>> \in Seq(S)
  OBVIOUS
<1>2. <<>> \o <<x, y>> = Append(Append(<<>>, x), y)
  BY <1>1, AppendTwo
<1>3. <<>> \o <<x, y>> = <<x, y>>
  BY <1>1, ConcatEmptySeq
<1>4. Append(<<>>, x) = <<x>>
  OBVIOUS
<1> QED BY <1>2, <1>3, <1>4

\* What the supervisor will make of an actor's end: not of another name, and not running.
LEMMA StoppingSays ==
  ASSUME TypeOK, NEW i \in DOMAIN insts, NEW n \in Names, insts[i].name = n,
         NEW before \in {<<>>, <<"failed">>, <<"migrated">>}, Notify(i, Append(before, "stopped"))
  PROVE  /\ supQ' \in Seq(Event)
         /\ \A m \in Names : m # n =>
              /\ EndingIn(supQ', m) = EndingIn(supQ, m)
              /\ \A st : Hears(st, supQ', m) <=> Hears(st, supQ, m)
         /\ up => \A st : ~Hears(st, supQ', n)
         /\ EndingIn(supQ, n) = {} => \A j, k \in EndingIn(supQ', n) : j = k
<1>0. supQ \in Seq(Event) /\ Len(supQ) \in Nat
  BY DEF TypeOK
<1>s. PICK s \in Event : s = Told(i, "stopped")
  BY ToldTyped
<1>t. s.name = n /\ s.what = "stopped"
  BY <1>s DEF Told
<1>1. CASE ~up
  BY <1>0, <1>1 DEF Notify
<1>2. CASE up /\ before = <<>>
  <2>1. Append(before, "stopped") = <<"stopped">>
    BY <1>2
  <2>2. supQ' = Append(supQ, s)
    BY <1>2, <1>s, <2>1, NotifyOne
  <2>3. \A m : \A k : k \in EndingIn(supQ', m) <=> k \in EndingIn(supQ, m)
    BY <1>0, <1>t, <2>2, EndingAppend
  <2>4. ASSUME NEW m PROVE EndingIn(supQ', m) = EndingIn(supQ, m)
    BY <2>3, SameMembers
  <2>5. \A m, st : Hears(st, supQ', m) <=> IF n = m THEN FALSE ELSE Hears(st, supQ, m)
    BY <1>0, <1>t, <2>2, HearsAppend
  <2>6. supQ' \in Seq(Event)
    BY <1>0, <2>2
  <2> QED BY <1>2, <2>4, <2>5, <2>6
<1>3. CASE up /\ before # <<>>
  <2>1. PICK w \in {"failed", "migrated"} : before = <<w>>
    BY <1>3
  <2>2. Append(before, "stopped") = <<w, "stopped">>
    <3>1. Append(<<w>>, "stopped") = <<w, "stopped">>
      BY Pair
    <3> QED BY <2>1, <3>1
  <2>e. PICK e \in Event : e = Told(i, w)
    BY ToldTyped
  <2>f. e.name = n /\ e.what = w
    BY <2>e DEF Told
  <2>3. supQ' = Append(Append(supQ, e), s)
    BY <1>3, <1>s, <2>2, <2>e, NotifyTwo
  <2>4. Append(supQ, e) \in Seq(Event) /\ supQ' \in Seq(Event)
    BY <1>0, <2>3
  <2>5. \A m : \A k : k \in EndingIn(supQ', m) <=> k \in EndingIn(Append(supQ, e), m)
    BY <1>t, <2>3, <2>4, EndingAppend
  <2>6. \A m : \A k : k \in EndingIn(Append(supQ, e), m) <=>
                        k \in EndingIn(supQ, m) \/ (k = Len(supQ) + 1 /\ m = n)
    BY <1>0, <2>f, EndingAppend
  <2>7. ASSUME NEW m, m # n PROVE EndingIn(supQ', m) = EndingIn(supQ, m)
    BY <2>5, <2>6, <2>7, SameMembers
  <2>8. \A m, st : Hears(st, supQ', m) <=> IF n = m THEN FALSE ELSE Hears(st, Append(supQ, e), m)
    BY <1>t, <2>3, <2>4, HearsAppend
  <2>9. \A m, st : m # n => (Hears(st, Append(supQ, e), m) <=> Hears(st, supQ, m))
    BY <1>0, <2>f, HearsAppend
  <2> QED BY <2>4, <2>5, <2>6, <2>7, <2>8, <2>9
<1> QED BY <1>1, <1>2, <1>3

\* An actor that ends deregisters and reports it.
LEMMA EndStep ==
  ASSUME SupervisionInv, NEW i \in DOMAIN insts, Alive(i),
         NEW r, Becomes(i, r), r.life = "stopped", r.moving = FALSE,
         NEW before \in {<<>>, <<"failed">>, <<"migrated">>}, Stopping(i, before),
         used' \in [{"spawns", "stops", "failures", "migrations"} -> Nat],
         UNCHANGED <<agents, registry, timers, up, wanted, raced>>
  PROVE  SupervisionInv'
<1>0. TypeOK /\ i \in Nat \ {0} /\ insts[i].name \in Names
  BY Lives DEF SupervisionInv, TypeOK
<1>1. /\ insts' \in Seq(Instance) /\ Len(insts') = Len(insts) /\ DOMAIN insts' = DOMAIN insts
      /\ insts'[i] = r /\ \A j \in DOMAIN insts : j # i => insts'[j] = insts[j]
      /\ \A j \in DOMAIN insts : insts'[j].name = insts[j].name
  BY <1>0, BecomesIs
<1>n. PICK n \in Names : n = insts[i].name
  BY <1>0
<1>2. /\ supQ' \in Seq(Event)
      /\ \A m \in Names : m # n =>
           /\ EndingIn(supQ', m) = EndingIn(supQ, m)
           /\ \A st : Hears(st, supQ', m) <=> Hears(st, supQ, m)
      /\ up => \A st : ~Hears(st, supQ', n)
      /\ EndingIn(supQ, n) = {} => \A j, k \in EndingIn(supQ', n) : j = k
  BY <1>0, <1>n, StoppingSays DEF Stopping
<1>3. PICK o \in Order : /\ o.name = n /\ o.what = "deregister" /\ o.inst = i
                         /\ regQ' = Append(regQ, o)
  BY <1>0, <1>n, ToldTyped, TellOne DEF Told, Stopping
<1>4. \A j \in DOMAIN insts : Alive(j)' <=> Alive(j) /\ j # i
  BY <1>1 DEF Alive
<1>5. supQ \in Seq(Event) /\ regQ \in Seq(Order)
  BY <1>0 DEF TypeOK
<1>6. TypeOK'
  BY <1>0, <1>1, <1>2, <1>3, <1>5, TellType
<1>7. \A m \in Names : Settled(m)' = IF m = n THEN 0 ELSE Settled(m)
  <2> SUFFICES ASSUME NEW m \in Names PROVE Settled(m)' = IF m = n THEN 0 ELSE Settled(m)
    OBVIOUS
  <2>1. Word(registry[m], Append(regQ, o), m) = IF m = n THEN 0 ELSE Word(registry[m], regQ, m)
    BY <1>3, <1>5, WordAppend
  <2> QED BY <1>3, <2>1 DEF Word, Settled
<1>8. /\ \A m \in Names : m # n => Ending(m)' = Ending(m)
      /\ \A m \in Names : Restarting(m)' = Restarting(m)
      /\ \A m \in Names : Supervised(m)' <=> Supervised(m)
  BY <1>2 DEF Ending, Restarting, Supervised
<1>a. ~raced[n] => /\ \A j \in DOMAIN insts : insts[j].name = n /\ Alive(j) => j = i
                   /\ Ending(n) = {} /\ Restarting(n) = {}
                   /\ Supervised(n) => agents[n].inst = i
  BY <1>n DEF SupervisionInv, AliveInv
<1>9. TableInv' /\ MovingInv' /\ StopSticks'
  <2>1. TableInv'
    BY <1>1 DEF SupervisionInv, TableInv, Supervised
  <2>2. MovingInv'
    BY <1>1 DEF SupervisionInv, MovingInv
  <2>3. StopSticks'
    BY DEF SupervisionInv, StopSticks, Supervised
  <2> QED BY <2>1, <2>2, <2>3
<1>b. EndsInv'
  <2> SUFFICES ASSUME NEW m \in Names, ~raced[m]
               PROVE  /\ \A j, k \in Ending(m)' : j = k
                      /\ \A j, k \in Restarting(m)' : j = k
                      /\ Ending(m)' = {} \/ Restarting(m)' = {}
    BY DEF EndsInv
  <2>1. CASE m = n
    BY <1>2, <1>8, <1>a, <2>1 DEF Ending
  <2>2. CASE m # n
    <3>1. /\ \A j, k \in Ending(m) : j = k
          /\ \A j, k \in Restarting(m) : j = k
          /\ Ending(m) = {} \/ Restarting(m) = {}
      BY DEF SupervisionInv, EndsInv
    <3> QED BY <1>8, <2>2, <3>1
  <2> QED BY <2>1, <2>2
<1>10. WordInv'
  <2>1. \A k \in DOMAIN regQ' : regQ'[k].inst \in DOMAIN insts'
    BY <1>1, <1>3, <1>5 DEF SupervisionInv, WordInv
  <2>3. ASSUME NEW m \in Names, Settled(m)' # 0
        PROVE  /\ Settled(m)' \in DOMAIN insts'
               /\ insts'[Settled(m)'].name = m /\ insts'[Settled(m)'].life # "stopped"
    <3>1. Settled(m)' = Settled(m) /\ Settled(m) # 0 /\ m # n
      BY <1>7, <2>3
    <3>2. Settled(m) \in DOMAIN insts /\ insts[Settled(m)].name = m /\ Alive(Settled(m))
      BY <3>1 DEF SupervisionInv, WordInv
    <3>3. Settled(m) # i
      BY <1>n, <3>1, <3>2
    <3> QED BY <1>1, <3>1, <3>2, <3>3 DEF Alive
  <2> QED BY <2>1, <2>3 DEF WordInv, Alive
<1>11. AliveInv'
  <2> SUFFICES ASSUME NEW j \in DOMAIN insts', NEW m \in Names, insts'[j].name = m, Alive(j)', ~raced'[m]
               PROVE  /\ \A k \in DOMAIN insts' : insts'[k].name = m /\ Alive(k)' => k = j
                      /\ Ending(m)' = {} /\ Restarting(m)' = {}
                      /\ Supervised(m)' => agents'[m].inst = j
                      /\ ~Supervised(m)' => insts'[j].bell
    BY DEF AliveInv
  <2>1. j \in DOMAIN insts /\ insts[j].name = m /\ Alive(j) /\ ~raced[m] /\ j # i
    BY <1>1, <1>4
  <2>2. m # n
    BY <1>a, <2>1
  <2>3. /\ \A k \in DOMAIN insts : insts[k].name = m /\ Alive(k) => k = j
        /\ Ending(m) = {} /\ Restarting(m) = {}
        /\ Supervised(m) => agents[m].inst = j
        /\ ~Supervised(m) => insts[j].bell
    BY <2>1 DEF SupervisionInv, AliveInv
  <2> QED BY <1>1, <1>4, <1>8, <2>1, <2>2, <2>3
<1>12. HeardInv'
  <2> SUFFICES ASSUME NEW m \in Names, up', Supervised(m)', ~raced'[m],
                      insts'[agents'[m].inst].life # "starting"
               PROVE  (Hears(agents[m].state, supQ, m) <=> Alive(agents[m].inst))'
    BY DEF HeardInv
  <2>1. /\ Supervised(m) /\ agents[m].inst \in DOMAIN insts /\ insts[agents[m].inst].name = m
        /\ agents'[m] = agents[m] /\ up /\ ~raced[m]
    BY DEF SupervisionInv, TableInv, Supervised
  <2>3. CASE m = n
    <3>1. agents[m].inst = i
      BY <1>a, <2>1, <2>3
    <3> QED BY <1>1, <1>2, <2>1, <2>3, <3>1 DEF Alive
  <2>4. CASE m # n
    <3>1. agents[m].inst # i /\ insts'[agents[m].inst] = insts[agents[m].inst]
      BY <1>1, <1>n, <2>1, <2>4
    <3>2. Hears(agents[m].state, supQ, m) <=> Alive(agents[m].inst)
      BY <2>1, <3>1 DEF SupervisionInv, HeardInv
    <3>3. Hears(agents[m].state, supQ', m) <=> Hears(agents[m].state, supQ, m)
      BY <1>2, <2>4
    <3> QED BY <2>1, <3>1, <3>2, <3>3 DEF Alive
  <2> QED BY <2>3, <2>4
<1>13. LiveRegistered'
  <2> SUFFICES ASSUME NEW j \in DOMAIN insts, insts'[j].life \in {"running", "migrating"},
                      ~raced[insts[j].name]
               PROVE  Settled(insts[j].name)' = j
    BY <1>1 DEF LiveRegistered
  <2>1. insts[j].name \in Names /\ insts'[j].name = insts[j].name /\ j # i
    BY <1>0, <1>1, Lives
  <2>2. PICK m \in Names : m = insts[j].name
    BY <2>1
  <2>3. Settled(m)' = j
    <3>1. Alive(j) /\ insts'[j] = insts[j]
      BY <1>1, <2>1 DEF Alive
    <3>2. m # n
      BY <1>a, <2>1, <2>2, <3>1
    <3>3. Settled(m) = j
      BY <2>2, <3>1 DEF SupervisionInv, LiveRegistered
    <3> QED BY <1>7, <3>2, <3>3
  <2> QED BY <2>1, <2>2, <2>3
<1> QED BY <1>6, <1>9, <1>b, <1>10, <1>11, <1>12, <1>13 DEF SupervisionInv

-----------------------------------------------------------------------------
(* The actions *)

\* The edits of an actor's record.
LEMMA Edits ==
  ASSUME NEW r \in Instance
  PROVE  /\ \A x \in Life : LET s == [r EXCEPT !.life = x] IN
              s \in Instance /\ s.life = x /\ s.name = r.name /\ s.bell = r.bell /\ s.moving = r.moving
         /\ \A x \in BOOLEAN : LET s == [r EXCEPT !.moving = x] IN
              s \in Instance /\ s.moving = x /\ s.name = r.name /\ s.bell = r.bell /\ s.life = r.life
         /\ \A x \in BOOLEAN : LET s == [r EXCEPT !.bell = x] IN
              s \in Instance /\ s.bell = x /\ s.name = r.name /\ s.moving = r.moving /\ s.life = r.life
         /\ \A x \in BOOLEAN : LET s == [r EXCEPT !.failed = x] IN
              s \in Instance /\ s.bell = r.bell /\ s.name = r.name /\ s.moving = r.moving /\ s.life = r.life
         /\ \A x \in 0 .. MaxMail : LET s == [r EXCEPT !.mail = x] IN
              s \in Instance /\ s.bell = r.bell /\ s.name = r.name /\ s.moving = r.moving /\ s.life = r.life
  BY DEF Instance

LEMMA DeadIs ==
  ASSUME TypeOK, NEW i \in DOMAIN insts
  PROVE  /\ Dead(i) \in Instance /\ Dead(i).life = "stopped" /\ Dead(i).moving = FALSE
         /\ Dead(i).name = insts[i].name
         /\ [Dead(i) EXCEPT !.failed = TRUE] \in Instance
         /\ [Dead(i) EXCEPT !.failed = TRUE].life = "stopped"
         /\ [Dead(i) EXCEPT !.failed = TRUE].moving = FALSE
         /\ [Dead(i) EXCEPT !.failed = TRUE].name = insts[i].name
<1>1. insts[i] \in Instance /\ 0 \in 0 .. MaxMail
  BY Lives, SupervisionAssumption
<1>2. /\ Dead(i) \in Instance /\ Dead(i).life = "stopped" /\ Dead(i).moving = FALSE
      /\ Dead(i).name = insts[i].name
  BY <1>1 DEF Dead, Instance, Life
<1> QED BY <1>2, Edits

LEMMA Counted ==
  ASSUME TypeOK, NEW k \in {"spawns", "stops", "failures", "migrations"}, Count(k)
  PROVE  used' \in [{"spawns", "stops", "failures", "migrations"} -> Nat]
  BY DEF TypeOK, Count

\* One actor's step that nobody is told of.
LEMMA QuietOne ==
  ASSUME SupervisionInv, NEW i \in DOMAIN insts, NEW r, Becomes(i, r),
         r.bell = insts[i].bell,
         r.life = "stopped" <=> insts[i].life = "stopped",
         r.life = "starting" <=> insts[i].life = "starting",
         r.moving => r.life \in {"running", "migrating"},
         used' \in [{"spawns", "stops", "failures", "migrations"} -> Nat],
         UNCHANGED <<agents, supQ, regQ, registry, timers, up, wanted, raced>>
  PROVE  SupervisionInv'
<1>0. TypeOK /\ MovingInv
  BY DEF SupervisionInv
<1>1. /\ insts' \in Seq(Instance) /\ Len(insts') = Len(insts) /\ DOMAIN insts' = DOMAIN insts
      /\ insts'[i] = r /\ \A j \in DOMAIN insts : j # i => insts'[j] = insts[j]
      /\ \A j \in DOMAIN insts : insts'[j].name = insts[j].name
  BY <1>0, BecomesIs
<1>2. TypeOK'
  BY <1>0, <1>1, TellType DEF TypeOK
<1>3. ASSUME NEW j \in DOMAIN insts PROVE SameActor(j)
  <2>1. CASE j = i
    BY <1>1, <2>1 DEF SameActor
  <2>2. CASE j # i
    BY <1>0, <1>1, <2>2 DEF SameActor, MovingInv
  <2> QED BY <2>1, <2>2
<1> QED BY <1>1, <1>2, <1>3, QuietStep DEF SameActors

LEMMA AgentStepKeeps ==
  ASSUME SupervisionInv, NEW i \in DOMAIN insts, AgentStep(i)
  PROVE  SupervisionInv'
<1>0. TypeOK /\ MovingInv /\ insts[i] \in Instance /\ insts[i].life \in Life
      /\ used \in [{"spawns", "stops", "failures", "migrations"} -> Nat]
  BY Lives DEF SupervisionInv, TypeOK
<1>m. insts[i].moving => insts[i].life \in {"running", "migrating"}
  BY <1>0 DEF MovingInv
<1>d. insts \in Seq(Instance)
  BY <1>0 DEF TypeOK
<1>1. CASE Started(i)
  <2>1. PICK r : r = [insts[i] EXCEPT !.life = "running"]
    OBVIOUS
  <2>2. insts' = [insts EXCEPT ![i] = r]
    BY <1>1, <1>d, <2>1 DEF Started
  <2>3. r \in Instance /\ r.life = "running" /\ r.name = insts[i].name /\ r.bell = insts[i].bell
    BY <1>0, <2>1, Edits DEF Life
  <2>4. insts[i].life = "starting" /\ Notify(i, <<"started">>) /\ TellRegistry(i, <<"register">>)
        /\ UNCHANGED <<agents, registry, timers, up, used, wanted, raced>>
    BY <1>1 DEF Started
  <2>5. Becomes(i, r)
    BY <2>2, <2>3 DEF Becomes
  <2> QED BY <2>3, <2>4, <2>5, StartStep
<1>2. CASE InitFails(i)
  <2>1. PICK r : r = [Dead(i) EXCEPT !.failed = TRUE]
    OBVIOUS
  <2>2. Becomes(i, r) /\ r.life = "stopped" /\ r.moving = FALSE
    BY <1>0, <1>2, <2>1, DeadIs DEF InitFails, Becomes
  <2>3. used' \in [{"spawns", "stops", "failures", "migrations"} -> Nat]
    BY <1>0, <1>2, Counted DEF InitFails
  <2>4. Alive(i) /\ Stopping(i, <<"failed">>) /\ UNCHANGED <<agents, registry, timers, up, wanted, raced>>
    BY <1>2 DEF InitFails, Alive
  <2> QED BY <2>2, <2>3, <2>4, EndStep
<1>3. CASE Shutdown(i) \/ RunEnds(i)
  <2>1. Alive(i) /\ insts' = [insts EXCEPT ![i] = Dead(i)] /\ Stopping(i, <<>>)
        /\ UNCHANGED <<agents, registry, timers, up, used, wanted, raced>>
    BY <1>3 DEF Shutdown, RunEnds, Stops, Alive
  <2>2. Becomes(i, Dead(i)) /\ Dead(i).life = "stopped" /\ Dead(i).moving = FALSE
    BY <1>0, <2>1, DeadIs DEF Becomes
  <2> QED BY <1>0, <2>1, <2>2, EndStep
<1>4. CASE Tick(i)
  <2>1. PICK r : r = [insts[i] EXCEPT !.mail = 0]
    OBVIOUS
  <2>2. insts' = [insts EXCEPT ![i] = r]
    BY <1>4, <1>d, <2>1 DEF Tick
  <2>3. r \in Instance /\ r.bell = insts[i].bell /\ r.name = insts[i].name
        /\ r.moving = insts[i].moving /\ r.life = insts[i].life
    BY <1>0, <2>1, Edits, SupervisionAssumption
  <2>4. UNCHANGED <<agents, supQ, regQ, registry, timers, up, used, wanted, raced>>
    BY <1>4 DEF Tick
  <2>5. Becomes(i, r)
    BY <2>2, <2>3 DEF Becomes
  <2> QED BY <1>0, <1>m, <2>3, <2>4, <2>5, QuietOne
<1>5. CASE MigrateTo(i)
  <2>0. /\ insts[i].life \in {"running", "migrating"} /\ Count("migrations")
        /\ UNCHANGED <<agents, supQ, regQ, registry, timers, up, wanted, raced>>
    BY <1>5 DEF MigrateTo
  <2>1. used' \in [{"spawns", "stops", "failures", "migrations"} -> Nat]
    BY <1>0, <2>0, Counted
  <2>2. \E r \in Instance :
          /\ insts' = [insts EXCEPT ![i] = r] /\ r.life \in {"running", "migrating"}
          /\ r.name = insts[i].name /\ r.bell = insts[i].bell
    <3>1. CASE insts' = [insts EXCEPT ![i].life = "migrating", ![i].moving = TRUE]
      <4>1. PICK s : s = [insts[i] EXCEPT !.life = "migrating"]
        OBVIOUS
      <4>2. PICK r : r = [s EXCEPT !.moving = TRUE]
        OBVIOUS
      <4>3. s \in Instance /\ s.life = "migrating" /\ s.name = insts[i].name /\ s.bell = insts[i].bell
        BY <1>0, <4>1, Edits DEF Life
      <4>4. r \in Instance /\ r.life = "migrating" /\ r.name = insts[i].name /\ r.bell = insts[i].bell
        BY <4>2, <4>3, Edits
      <4>5. insts' = [insts EXCEPT ![i] = r]
        BY <1>d, <3>1, <4>1, <4>2
      <4> QED BY <4>4, <4>5
    <3>2. CASE insts' = [insts EXCEPT ![i].life = "running"]
      <4>1. PICK r : r = [insts[i] EXCEPT !.life = "running"]
        OBVIOUS
      <4>2. r \in Instance /\ r.life = "running" /\ r.name = insts[i].name /\ r.bell = insts[i].bell
        BY <1>0, <4>1, Edits DEF Life
      <4>3. insts' = [insts EXCEPT ![i] = r]
        BY <1>d, <3>2, <4>1
      <4> QED BY <4>2, <4>3
    <3> QED BY <1>5, <3>1, <3>2 DEF MigrateTo
  <2>3. PICK r \in Instance :
          /\ insts' = [insts EXCEPT ![i] = r] /\ r.life \in {"running", "migrating"}
          /\ r.name = insts[i].name /\ r.bell = insts[i].bell
    BY <2>2
  <2>4. Becomes(i, r)
    BY <2>3 DEF Becomes
  <2> QED BY <2>0, <2>1, <2>3, <2>4, QuietOne
<1>6. CASE Migrated(i)
  <2>1. Alive(i) /\ insts' = [insts EXCEPT ![i] = Dead(i)] /\ Stopping(i, <<"migrated">>)
        /\ UNCHANGED <<agents, registry, timers, up, used, wanted, raced>>
    BY <1>6, <1>m DEF Migrated, Alive
  <2>2. Becomes(i, Dead(i)) /\ Dead(i).life = "stopped" /\ Dead(i).moving = FALSE
    BY <1>0, <2>1, DeadIs DEF Becomes
  <2> QED BY <1>0, <2>1, <2>2, EndStep
<1>7. CASE MigrationFails(i)
  <2>1. PICK s : s = [insts[i] EXCEPT !.life = "running"]
    OBVIOUS
  <2>2. PICK r : r = [s EXCEPT !.moving = FALSE]
    OBVIOUS
  <2>3. s \in Instance /\ s.life = "running" /\ s.name = insts[i].name /\ s.bell = insts[i].bell
    BY <1>0, <2>1, Edits DEF Life
  <2>4. r \in Instance /\ r.life = "running" /\ r.name = insts[i].name /\ r.bell = insts[i].bell
    BY <2>2, <2>3, Edits
  <2>5. insts' = [insts EXCEPT ![i] = r]
    BY <1>7, <1>d, <2>1, <2>2 DEF MigrationFails
  <2>6. insts[i].life \in {"running", "migrating"}
        /\ UNCHANGED <<agents, supQ, regQ, registry, timers, up, used, wanted, raced>>
    BY <1>7, <1>m DEF MigrationFails
  <2>7. Becomes(i, r)
    BY <2>4, <2>5 DEF Becomes
  <2> QED BY <1>0, <2>4, <2>6, <2>7, QuietOne
<1> QED BY <1>1, <1>2, <1>3, <1>4, <1>5, <1>6, <1>7 DEF AgentStep

\* The registry's reading an order changes nothing that it will say.
LEMMA OrderKeeps ==
  ASSUME SupervisionInv, HandleOrder
  PROVE  SupervisionInv'
<1>0. TypeOK /\ regQ \in Seq(Order) /\ regQ # <<>> /\ Len(insts) \in Nat
      /\ registry \in [Names -> 0 .. Len(insts)] /\ DOMAIN insts = 1 .. Len(insts)
  BY DEF SupervisionInv, TypeOK, HandleOrder
<1>o. PICK o \in Order : o = Head(regQ)
  BY <1>0
<1>1. /\ UNCHANGED <<agents, insts, supQ, timers, up, used, wanted, raced>>
      /\ regQ' = Tail(regQ)
      /\ registry' = [registry EXCEPT ![o.name] = IF o.what = "register" THEN o.inst ELSE 0]
  BY <1>o DEF HandleOrder, Order
<1>2. o.inst \in 1 .. Len(insts) /\ o.name \in Names
  <2>1. o = regQ[1] /\ 1 \in DOMAIN regQ
    BY <1>0, <1>o
  <2> QED BY <1>0, <2>1 DEF SupervisionInv, WordInv, Order
<1>3. TypeOK'
  <2>1. registry' \in [Names -> 0 .. Len(insts')]
    BY <1>0, <1>1, <1>2
  <2>2. regQ' \in Seq(Order)
    BY <1>0, <1>1
  <2> QED BY <1>0, <1>1, <2>1, <2>2 DEF TypeOK
<1>4. \A m \in Names : Settled(m)' = Settled(m)
  <2> SUFFICES ASSUME NEW m \in Names PROVE Settled(m)' = Settled(m)
    OBVIOUS
  <2>1. IF Head(regQ).name = m
        THEN registry'[m] = (IF Head(regQ).what = "register" THEN Head(regQ).inst ELSE 0)
        ELSE registry'[m] = registry[m]
    BY <1>0, <1>1, <1>o
  <2>2. Word(registry'[m], Tail(regQ), m) = Word(registry[m], regQ, m)
    BY <1>0, <2>1, WordTail
  <2> QED BY <1>1, <2>2 DEF Word, Settled
<1>5. WordInv'
  <2>1. \A k \in DOMAIN regQ' : regQ'[k].inst \in DOMAIN insts'
    BY <1>0, <1>1 DEF SupervisionInv, WordInv
  <2>2. \A m \in Names : Settled(m) # 0 =>
          Settled(m) \in DOMAIN insts /\ insts[Settled(m)].name = m /\ Alive(Settled(m))
    BY DEF SupervisionInv, WordInv
  <2> QED BY <1>1, <1>4, <2>1, <2>2 DEF WordInv, Alive
<1>6. LiveRegistered'
  <2> SUFFICES ASSUME NEW j \in DOMAIN insts, insts[j].life \in {"running", "migrating"},
                      ~raced[insts[j].name]
               PROVE  Settled(insts[j].name)' = j
    BY <1>1 DEF LiveRegistered
  <2>1. PICK m \in Names : m = insts[j].name
    BY <1>0, Lives
  <2>2. Settled(m) = j
    BY <2>1 DEF SupervisionInv, LiveRegistered
  <2>3. Settled(m)' = j
    BY <1>4, <2>2
  <2> QED BY <1>1, <2>1, <2>3
<1>7. TableInv' /\ MovingInv' /\ EndsInv' /\ StopSticks'
  BY <1>1 DEF SupervisionInv, TableInv, MovingInv, EndsInv, StopSticks, Supervised, Ending, Restarting
<1>8. AliveInv'
  BY <1>1 DEF SupervisionInv, AliveInv, Supervised, Ending, Restarting, Alive
<1>9. HeardInv'
  BY <1>1 DEF SupervisionInv, HeardInv, Supervised, Alive
<1> QED BY <1>3, <1>5, <1>6, <1>7, <1>8, <1>9 DEF SupervisionInv

-----------------------------------------------------------------------------
(* The supervisor *)

\* A new actor under a name of which nothing is left.
LEMMA GrowStep ==
  ASSUME SupervisionInv, TypeOK', NEW n \in Names,
         agents' = [agents EXCEPT ![n] = NewEntry], insts' = Append(insts, NewInstance(n)),
         UNCHANGED <<supQ, regQ, registry, up>>, wanted'[n], EndsInv',
         \A m \in Names : m # n => wanted'[m] = wanted[m] /\ raced'[m] = raced[m],
         \A m \in Names : m # n /\ Restarting(m) = {} => Restarting(m)' = {},
         ~raced'[n] => /\ \A j \in DOMAIN insts : insts[j].name = n => ~Alive(j)
                       /\ Ending(n) = {} /\ Restarting(n)' = {}
  PROVE  SupervisionInv'
<1>0. TypeOK /\ insts \in Seq(Instance) /\ agents \in [Names -> Entry \cup {NoEntry}]
  BY DEF SupervisionInv, TypeOK
<1>x. PICK x : x = Len(insts) + 1
  OBVIOUS
<1>1. /\ Len(insts) \in Nat /\ DOMAIN insts = 1 .. Len(insts) /\ x \notin DOMAIN insts
      /\ DOMAIN insts' = DOMAIN insts \cup {x} /\ x \in Nat \ {0}
      /\ insts'[x] = NewInstance(n) /\ \A j \in DOMAIN insts : insts'[j] = insts[j]
  BY <1>0, <1>x
<1>2. /\ insts'[x].name = n /\ insts'[x].life = "starting" /\ insts'[x].moving = FALSE
  BY <1>1 DEF NewInstance
<1>3. /\ agents'[n].inst = x /\ Supervised(n)'
      /\ \A m \in Names : m # n => agents'[m] = agents[m] /\ (Supervised(m)' <=> Supervised(m))
  <2>1. NewEntry.inst = x /\ x # 0
    BY <1>1, <1>x DEF NewEntry
  <2>2. agents'[n] = NewEntry /\ \A m \in Names : m # n => agents'[m] = agents[m]
    BY <1>0
  <2>3. NewEntry # NoEntry
    BY <2>1 DEF NoEntry
  <2> QED BY <2>1, <2>2, <2>3 DEF Supervised
<1>4. \A j \in DOMAIN insts : Alive(j)' <=> Alive(j)
  BY <1>1 DEF Alive
<1>5. \A m : Settled(m)' = Settled(m)
  BY DEF Settled
<1>6. TableInv'
  <2> SUFFICES ASSUME NEW m \in Names, Supervised(m)'
               PROVE  agents'[m].inst \in DOMAIN insts' /\ insts'[agents'[m].inst].name = m
    BY DEF TableInv
  <2>1. CASE m = n
    BY <1>1, <1>2, <1>3, <2>1
  <2>2. CASE m # n
    <3>1. Supervised(m) /\ agents'[m] = agents[m]
      BY <1>3, <2>2
    <3>2. agents[m].inst \in DOMAIN insts /\ insts[agents[m].inst].name = m
      BY <3>1 DEF SupervisionInv, TableInv
    <3> QED BY <1>1, <3>1, <3>2
  <2> QED BY <2>1, <2>2
<1>7. MovingInv'
  BY <1>1, <1>2 DEF SupervisionInv, MovingInv
<1>8. WordInv'
  <2>1. \A k \in DOMAIN regQ' : regQ'[k].inst \in DOMAIN insts'
    BY <1>1 DEF SupervisionInv, WordInv
  <2>2. \A m \in Names : Settled(m) # 0 =>
          Settled(m) \in DOMAIN insts /\ insts[Settled(m)].name = m /\ Alive(Settled(m))
    BY DEF SupervisionInv, WordInv
  <2>3. ASSUME NEW m \in Names, Settled(m)' # 0
        PROVE  /\ Settled(m)' \in DOMAIN insts'
               /\ insts'[Settled(m)'].name = m /\ insts'[Settled(m)'].life # "stopped"
    BY <1>1, <1>5, <2>2, <2>3 DEF Alive
  <2> QED BY <2>1, <2>3 DEF WordInv, Alive
<1>9. AliveInv'
  <2> SUFFICES ASSUME NEW j \in DOMAIN insts', NEW m \in Names, insts'[j].name = m, Alive(j)', ~raced'[m]
               PROVE  /\ \A k \in DOMAIN insts' : insts'[k].name = m /\ Alive(k)' => k = j
                      /\ Ending(m)' = {} /\ Restarting(m)' = {}
                      /\ Supervised(m)' => agents'[m].inst = j
                      /\ ~Supervised(m)' => insts'[j].bell
    BY DEF AliveInv
  <2>e. Ending(m)' = Ending(m)
    BY DEF Ending
  <2>1. CASE m = n
    <3>1. /\ \A k \in DOMAIN insts : insts[k].name = n => ~Alive(k)
          /\ Ending(n) = {} /\ Restarting(n)' = {}
      BY <2>1
    <3>2. \A k \in DOMAIN insts' : insts'[k].name = n /\ Alive(k)' => k = x
      BY <1>1, <1>4, <3>1
    <3>3. j = x
      BY <2>1, <3>2
    <3> QED BY <1>3, <2>1, <2>e, <3>1, <3>2, <3>3
  <2>2. CASE m # n
    <3>1. j \in DOMAIN insts /\ insts[j].name = m /\ Alive(j) /\ ~raced[m]
      BY <1>1, <1>2, <1>4, <2>2
    <3>2. /\ \A k \in DOMAIN insts : insts[k].name = m /\ Alive(k) => k = j
          /\ Ending(m) = {} /\ Restarting(m) = {}
          /\ Supervised(m) => agents[m].inst = j
          /\ ~Supervised(m) => insts[j].bell
      BY <3>1 DEF SupervisionInv, AliveInv
    <3>3. \A k \in DOMAIN insts' : insts'[k].name = m /\ Alive(k)' => k = j
      BY <1>1, <1>2, <1>4, <2>2, <3>2
    <3>4. Restarting(m)' = {} /\ insts'[j] = insts[j] /\ agents'[m] = agents[m]
          /\ (Supervised(m)' <=> Supervised(m))
      BY <1>1, <1>3, <2>2, <3>1, <3>2
    <3> QED BY <2>e, <3>2, <3>3, <3>4
  <2> QED BY <2>1, <2>2
<1>10. HeardInv'
  <2> SUFFICES ASSUME NEW m \in Names, up', Supervised(m)', ~raced'[m],
                      insts'[agents'[m].inst].life # "starting"
               PROVE  (Hears(agents[m].state, supQ, m) <=> Alive(agents[m].inst))'
    BY DEF HeardInv
  <2>1. m # n /\ agents'[m] = agents[m] /\ Supervised(m) /\ ~raced[m]
    BY <1>2, <1>3
  <2>2. agents[m].inst \in DOMAIN insts
    BY <2>1 DEF SupervisionInv, TableInv
  <2>3. Hears(agents[m].state, supQ, m) <=> Alive(agents[m].inst)
    BY <1>1, <2>1, <2>2 DEF SupervisionInv, HeardInv
  <2>4. insts'[agents[m].inst] = insts[agents[m].inst]
    BY <1>1, <2>2
  <2> QED BY <2>1, <2>3, <2>4 DEF Alive
<1>11. LiveRegistered'
  <2> SUFFICES ASSUME NEW j \in DOMAIN insts', insts'[j].life \in {"running", "migrating"},
                      ~raced'[insts'[j].name]
               PROVE  Settled(insts[j].name)' = j
    BY DEF LiveRegistered
  <2>1. j \in DOMAIN insts /\ insts'[j] = insts[j]
    BY <1>1, <1>2
  <2>2. PICK m \in Names : m = insts[j].name
    BY <1>0, <2>1, Lives
  <2>3. m # n
    <3> SUFFICES ASSUME m = n PROVE FALSE
      OBVIOUS
    <3>1. ~Alive(j)
      BY <2>1, <2>2
    <3> QED BY <2>1, <3>1 DEF Alive
  <2>4. Settled(m) = j
    BY <2>1, <2>2, <2>3 DEF SupervisionInv, LiveRegistered
  <2>5. Settled(m)' = j
    BY <1>5, <2>4
  <2> QED BY <2>1, <2>2, <2>5
<1>12. StopSticks'
  BY <1>3 DEF SupervisionInv, StopSticks
<1> QED BY <1>6, <1>7, <1>8, <1>9, <1>10, <1>11, <1>12 DEF SupervisionInv

\* The table and the actors after a new one is started.
LEMMA GrowType ==
  ASSUME TypeOK, NEW n \in Names
  PROVE  /\ [agents EXCEPT ![n] = NewEntry] \in [Names -> Entry \cup {NoEntry}]
         /\ Append(insts, NewInstance(n)) \in Seq(Instance)
         /\ Len(Append(insts, NewInstance(n))) = Len(insts) + 1 /\ Len(insts) \in Nat
         /\ registry \in [Names -> 0 .. Len(insts) + 1]
<1>0. /\ insts \in Seq(Instance) /\ agents \in [Names -> Entry \cup {NoEntry}]
      /\ registry \in [Names -> 0 .. Len(insts)] /\ Len(insts) \in Nat
  BY DEF TypeOK
<1>1. NewEntry \in Entry
  BY <1>0, SupervisionAssumption DEF NewEntry, Entry
<1>2. NewInstance(n) \in Instance
  BY SupervisionAssumption DEF NewInstance, Instance, Life
<1> QED BY <1>0, <1>1, <1>2

LEMMA SpawnKeeps ==
  ASSUME SupervisionInv, NEW n \in Names, SpawnAgent(n)
  PROVE  SupervisionInv'
<1>0. TypeOK
  BY DEF SupervisionInv
<1>t. raced \in [Names -> BOOLEAN] /\ wanted \in [Names -> BOOLEAN]
  BY <1>0 DEF TypeOK
<1>1. /\ agents' = [agents EXCEPT ![n] = NewEntry] /\ insts' = Append(insts, NewInstance(n))
      /\ wanted' = [wanted EXCEPT ![n] = TRUE] /\ Count("spawns")
      /\ raced' = [raced EXCEPT ![n] = raced[n] \/ Leftovers(n)]
      /\ UNCHANGED <<supQ, regQ, registry, timers, up>>
  BY <1>t DEF SpawnAgent, SpawnInto, Supervised
<1>2. used' \in [{"spawns", "stops", "failures", "migrations"} -> Nat]
  BY <1>0, <1>1, Counted
<1>r. /\ raced' \in [Names -> BOOLEAN] /\ wanted' \in [Names -> BOOLEAN] /\ wanted'[n]
      /\ \A m \in Names : m # n => wanted'[m] = wanted[m] /\ raced'[m] = raced[m]
      /\ ~raced'[n] => ~raced[n] /\ ~Leftovers(n)
  <2>1. (raced[n] \/ Leftovers(n)) \in BOOLEAN
    BY <1>t DEF Leftovers
  <2> QED BY <1>1, <1>t, <2>1
<1>3. TypeOK'
  <2>1. registry' \in [Names -> 0 .. Len(insts')]
    BY <1>0, <1>1, GrowType
  <2> QED BY <1>0, <1>1, <1>2, <1>r, <2>1, GrowType DEF TypeOK
<1>4. \A m : Ending(m)' = Ending(m) /\ Restarting(m)' = Restarting(m)
  BY <1>1 DEF Ending, Restarting
<1>5. ~raced'[n] => /\ \A j \in DOMAIN insts : insts[j].name = n => ~Alive(j)
                    /\ Ending(n) = {} /\ Restarting(n)' = {}
  <2> SUFFICES ASSUME ~raced'[n]
               PROVE  /\ \A j \in DOMAIN insts : insts[j].name = n => ~Alive(j)
                      /\ Ending(n) = {} /\ Restarting(n) = {}
    BY <1>4
  <2>1. ~Leftovers(n)
    BY <1>r
  <2> QED BY <2>1 DEF Leftovers, InstancesOf, Ending, EndingIn, Restarting, RestartingIn
<1>6. EndsInv'
  <2> SUFFICES ASSUME NEW m \in Names, ~raced'[m]
               PROVE  /\ \A j, k \in Ending(m)' : j = k
                      /\ \A j, k \in Restarting(m)' : j = k
                      /\ Ending(m)' = {} \/ Restarting(m)' = {}
    BY DEF EndsInv
  <2>1. ~raced[m]
    BY <1>r
  <2>2. /\ \A j, k \in Ending(m) : j = k
        /\ \A j, k \in Restarting(m) : j = k
        /\ Ending(m) = {} \/ Restarting(m) = {}
    BY <2>1 DEF SupervisionInv, EndsInv
  <2> QED BY <1>4, <2>2
<1> QED BY <1>1, <1>3, <1>4, <1>5, <1>6, <1>r, GrowStep

\* What stop_agent takes away it tells to stop.
LEMMA StopKeeps ==
  ASSUME SupervisionInv, NEW n \in Names, StopAgent(n)
  PROVE  SupervisionInv'
<1>0. /\ TypeOK /\ MovingInv /\ insts \in Seq(Instance) /\ agents \in [Names -> Entry \cup {NoEntry}]
      /\ wanted \in [Names -> BOOLEAN]
  BY DEF SupervisionInv, TypeOK
<1>1. PICK i : i = agents[n].inst
  OBVIOUS
<1>2. i \in DOMAIN insts /\ insts[i].name = n
  BY <1>1 DEF StopAgent, SupervisionInv, TableInv
<1>3. PICK r : r = [insts[i] EXCEPT !.bell = Alive(i)]
  OBVIOUS
<1>4. insts[i] \in Instance
  BY <1>0, <1>2
<1>5. r \in Instance /\ r.bell = Alive(i) /\ r.name = insts[i].name
      /\ r.moving = insts[i].moving /\ r.life = insts[i].life
  <2>1. Alive(i) \in BOOLEAN
    BY DEF Alive
  <2> QED BY <1>3, <1>4, <2>1, Edits
<1>6. Becomes(i, r)
  BY <1>0, <1>1, <1>2, <1>3, <1>5 DEF StopAgent, Becomes
<1>7. /\ insts' \in Seq(Instance) /\ Len(insts') = Len(insts) /\ DOMAIN insts' = DOMAIN insts
      /\ insts'[i] = r /\ \A j \in DOMAIN insts : j # i => insts'[j] = insts[j]
      /\ \A j \in DOMAIN insts : insts'[j].name = insts[j].name
  BY <1>0, <1>2, <1>6, BecomesIs
<1>8. /\ agents' = [agents EXCEPT ![n] = NoEntry] /\ wanted' = [wanted EXCEPT ![n] = FALSE]
      /\ UNCHANGED <<supQ, regQ, registry, timers, up, raced>>
  BY DEF StopAgent
<1>9. used' \in [{"spawns", "stops", "failures", "migrations"} -> Nat]
  BY <1>0, Counted DEF StopAgent
<1>10. TypeOK'
  <2>1. agents' \in [Names -> Entry \cup {NoEntry}] /\ wanted' \in [Names -> BOOLEAN]
    BY <1>0, <1>8
  <2> QED BY <1>0, <1>7, <1>8, <1>9, <2>1 DEF TypeOK
<1>11. SameActors
  <2>1. ASSUME NEW j \in DOMAIN insts PROVE SameActor(j)
    <3>1. CASE j = i
      BY <1>0, <1>2, <1>5, <1>7, <3>1 DEF SameActor, Alive, MovingInv
    <3>2. CASE j # i
      BY <1>0, <1>7, <3>2 DEF SameActor, MovingInv
    <3> QED BY <3>1, <3>2
  <2> QED BY <1>7, <2>1 DEF SameActors
<1>12. \A m \in Names : /\ Ending(m)' = Ending(m) /\ Restarting(m)' = Restarting(m)
                        /\ m = n => ~Supervised(m)'
                        /\ m # n => agents'[m] = agents[m] /\ wanted'[m] = wanted[m]
  BY <1>0, <1>8 DEF Ending, Restarting, Supervised
<1>13. StopSticks'
  BY <1>12 DEF SupervisionInv, StopSticks, Supervised
<1>14. EndsInv'
  BY <1>8, <1>12 DEF SupervisionInv, EndsInv
<1>15. \A m \in Names : Supervised(m)' => Supervised(m) /\ agents'[m].inst = agents[m].inst
  BY <1>12 DEF Supervised
<1>16. ASSUME NEW j \in DOMAIN insts, NEW m \in Names, insts[j].name = m, Alive(j), ~raced[m]
       PROVE  /\ Ending(m)' = {} /\ Restarting(m)' = {}
              /\ Supervised(m) /\ ~Supervised(m)' => insts'[j].bell
  <2>1. /\ Ending(m) = {} /\ Restarting(m) = {}
        /\ Supervised(m) => agents[m].inst = j
    BY <1>16 DEF SupervisionInv, AliveInv
  <2>2. ASSUME Supervised(m), ~Supervised(m)' PROVE insts'[j].bell
    <3>1. m = n
      BY <1>12, <2>2 DEF Supervised
    <3>2. j = i
      BY <1>1, <2>1, <2>2, <3>1
    <3> QED BY <1>5, <1>7, <1>16, <3>2
  <2> QED BY <1>12, <2>1, <2>2
<1>17. \A m \in Names : up' /\ Supervised(m)' /\ ~raced[m] =>
         (Hears(agents[m].state, supQ, m)' <=> Hears(agents[m].state, supQ, m))
  BY <1>8, <1>12
<1> QED BY <1>8, <1>10, <1>11, <1>13, <1>14, <1>15, <1>16, <1>17, TableStep

\* A message that waits is nothing the invariant sees.
LEMMA DeliverKeeps ==
  ASSUME SupervisionInv, NEW n \in Names, Deliver(n)
  PROVE  SupervisionInv'
<1>0. TypeOK /\ MovingInv /\ insts \in Seq(Instance)
      /\ used \in [{"spawns", "stops", "failures", "migrations"} -> Nat]
  BY DEF SupervisionInv, TypeOK
<1>1. PICK i : i = agents[n].inst
  OBVIOUS
<1>2. i \in DOMAIN insts
  BY <1>1 DEF Deliver, SupervisionInv, TableInv
<1>3. PICK r : r = [insts[i] EXCEPT !.mail = insts[i].mail + 1]
  OBVIOUS
<1>4. insts[i] \in Instance
  BY <1>0, <1>2
<1>5. r \in Instance /\ r.bell = insts[i].bell /\ r.name = insts[i].name
      /\ r.moving = insts[i].moving /\ r.life = insts[i].life
  <2>1. insts[i].mail \in 0 .. MaxMail /\ insts[i].mail < MaxMail /\ MaxMail \in Nat
    BY <1>1, <1>4, SupervisionAssumption DEF Deliver, Instance
  <2>2. insts[i].mail + 1 \in 0 .. MaxMail
    BY <2>1
  <2> QED BY <1>3, <1>4, <2>2, Edits
<1>6. Becomes(i, r)
  BY <1>0, <1>1, <1>2, <1>3, <1>5 DEF Deliver, Becomes
<1>7. UNCHANGED <<agents, supQ, regQ, registry, timers, up, used, wanted, raced>>
  BY DEF Deliver
<1>8. r.moving => r.life \in {"running", "migrating"}
  BY <1>0, <1>2, <1>5 DEF MovingInv
<1> QED BY <1>0, <1>2, <1>5, <1>6, <1>7, <1>8, QuietOne

\* The end of the supervisor tells every actor of the table to stop, and leaves nothing waiting.
LEMMA EndKeeps ==
  ASSUME SupervisionInv, SupervisorStopping
  PROVE  SupervisionInv'
<1>0. TypeOK /\ MovingInv /\ insts \in Seq(Instance)
  BY DEF SupervisionInv, TypeOK
<1>1. /\ up /\ ~up' /\ timers' = <<>> /\ supQ' = <<>>
      /\ UNCHANGED <<agents, regQ, registry, used, wanted, raced>>
      /\ DOMAIN insts' = DOMAIN insts
      /\ \A j \in DOMAIN insts : insts'[j] =
           [insts[j] EXCEPT !.bell = insts[j].bell \/ (Alive(j) /\ agents[insts[j].name].inst = j)]
  <2>1. ASSUME NEW j \in DOMAIN insts
        PROVE  [insts[j] EXCEPT !.bell = @ \/ (Alive(j) /\ agents[insts[j].name].inst = j)] =
               [insts[j] EXCEPT !.bell = insts[j].bell \/ (Alive(j) /\ agents[insts[j].name].inst = j)]
    <3>1. insts[j] \in Instance
      BY <1>0
    <3> QED BY <3>1 DEF Instance
  <2> QED BY <2>1 DEF SupervisorStopping
<1>2. ASSUME NEW j \in DOMAIN insts
      PROVE  /\ insts'[j] \in Instance /\ insts'[j].name = insts[j].name
             /\ insts'[j].life = insts[j].life /\ insts'[j].moving = insts[j].moving
             /\ insts[j].bell => insts'[j].bell
  <2>1. insts[j] \in Instance /\ insts[j].bell \in BOOLEAN
    BY <1>0, Lives DEF Instance
  <2>2. PICK b : b = (insts[j].bell \/ (Alive(j) /\ agents[insts[j].name].inst = j))
    OBVIOUS
  <2>3. b \in BOOLEAN /\ (insts[j].bell => b)
    BY <2>1, <2>2 DEF Alive
  <2>4. insts'[j] = [insts[j] EXCEPT !.bell = b]
    BY <1>1, <2>2
  <2> QED BY <2>1, <2>3, <2>4, Edits
<1>3. insts' \in Seq(Instance) /\ Len(insts') = Len(insts)
  <2>1. insts' = [j \in 1 .. Len(insts) |-> insts'[j]] /\ Len(insts) \in Nat
    BY <1>0, <1>1 DEF SupervisorStopping
  <2>2. \A j \in 1 .. Len(insts) : insts'[j] \in Instance
    BY <1>0, <1>2
  <2>3. insts' \in [1 .. Len(insts) -> Instance]
    BY <2>1, <2>2
  <2>4. insts' \in Seq(Instance)
    BY <2>1, <2>3
  <2>5. DOMAIN insts' = 1 .. Len(insts') /\ DOMAIN insts' = 1 .. Len(insts) /\ Len(insts') \in Nat
    BY <1>0, <1>1, <2>4, LenProperties
  <2>6. Len(insts') = Len(insts)
    BY ONLY <2>1, <2>5
  <2> QED BY <2>4, <2>6
<1>4. TypeOK'
  <2>1. /\ up' = FALSE /\ timers' = <<>> /\ supQ' = <<>>
        /\ UNCHANGED <<agents, regQ, registry, used, wanted, raced>>
    BY DEF SupervisorStopping
  <2>2. registry' \in [Names -> 0 .. Len(insts')]
    BY <1>0, <1>3, <2>1 DEF TypeOK
  <2>3. supQ' \in Seq(Event) /\ timers' \in Seq([name : Names, delay : Delays]) /\ up' \in BOOLEAN
    <3>1. <<>> \in Seq(Event) /\ <<>> \in Seq([name : Names, delay : Delays])
      BY ONLY EmptySeq
    <3> QED BY ONLY <2>1, <3>1
  <2>4. /\ agents' \in [Names -> Entry \cup {NoEntry}] /\ regQ' \in Seq(Order)
        /\ used' \in [{"spawns", "stops", "failures", "migrations"} -> Nat]
        /\ wanted' \in [Names -> BOOLEAN] /\ raced' \in [Names -> BOOLEAN]
    BY <1>0, <2>1 DEF TypeOK
  <2>5. insts' \in Seq(Instance)
    BY <1>3
  <2> QED BY ONLY <2>2, <2>3, <2>4, <2>5 DEF TypeOK
<1>5. SameActors
  BY <1>0, <1>1, <1>2 DEF SameActors, SameActor, MovingInv
<1>6. \A m \in Names : /\ Ending(m)' = {} /\ Restarting(m)' = {}
                       /\ Supervised(m)' <=> Supervised(m)
  BY <1>1 DEF Ending, EndingIn, Restarting, RestartingIn, Supervised
<1>7. EndsInv'
  BY <1>6 DEF EndsInv
<1>8. StopSticks'
  BY <1>1, <1>6 DEF SupervisionInv, StopSticks
<1> QED BY <1>1, <1>4, <1>5, <1>6, <1>7, <1>8, TableStep

\* The ladder of delays has a top.
LEMMA Ladder == MaxDelay \in Delays
<1> DEFINE G == {s \in SUBSET Delays : s # {} => \E d \in s : \A e \in s : e <= d}
<1>0. IsFiniteSet(Delays) /\ Delays \subseteq Nat /\ 1 \in Delays
  BY SupervisionAssumption
<1>1. {} \in G
  OBVIOUS
<1>2. ASSUME NEW s \in SUBSET Delays, NEW x \in Delays \ s, s \in G PROVE s \union {x} \in G
  <2> SUFFICES \E d \in s \union {x} : \A e \in s \union {x} : e <= d
    OBVIOUS
  <2>0. x \in Nat /\ s \subseteq Nat
    BY <1>0
  <2>1. CASE s = {}
    BY <2>0, <2>1
  <2>2. CASE s # {}
    <3>1. PICK d \in s : \A e \in s : e <= d
      BY <1>2, <2>2
    <3>2. CASE x <= d
      BY <3>1, <3>2
    <3>3. CASE ~(x <= d)
      <4>1. \A e \in s : e <= x
        BY <2>0, <3>1, <3>3
      <4> QED BY <2>0, <4>1
    <3> QED BY <3>2, <3>3
  <2> QED BY <2>1, <2>2
<1>3. SUBSET Delays \subseteq G
  <2> HIDE DEF G
  <2> QED BY <1>0, <1>1, <1>2, FiniteSetInduction
<1>4. \E d \in Delays : \A e \in Delays : e <= d
  BY <1>0, <1>3
<1> QED BY <1>4 DEF MaxDelay

\* What an event makes of an entry is an entry of the same actor.
LEMMA EntryEdits ==
  ASSUME NEW a \in Entry
  PROVE  /\ \A x \in {"starting", "running", "stopped", "failed"} : LET b == [a EXCEPT !.state = x] IN
              b \in Entry /\ b.inst = a.inst /\ b.state = x /\ b.current_backoff = a.current_backoff
         /\ \A x \in Delays : LET b == [a EXCEPT !.current_backoff = x] IN
              b \in Entry /\ b.inst = a.inst /\ b.state = a.state
         /\ \A x \in Nat : LET b == [a EXCEPT !.failures = x] IN
              b \in Entry /\ b.inst = a.inst /\ b.state = a.state /\ b.current_backoff = a.current_backoff
  BY DEF Entry

LEMMA EntryIs ==
  /\ \A a \in Entry : /\ a # NoEntry /\ a.inst \in Nat \ {0} /\ a.failures \in Nat
                      /\ a.current_backoff \in Delays
  /\ NoEntry.inst = 0
<1>1. NoEntry.inst = 0
  BY DEF NoEntry
<1>2. \A a \in Entry : a.inst \in Nat \ {0} /\ a.failures \in Nat /\ a.current_backoff \in Delays
  BY DEF Entry
<1> QED BY <1>1, <1>2

\* What the handler of an event does to the table and to the restarts: it changes only the entry of
\* the event's name, which it takes away only for a migration, and a failure adds one restart.
Handled(e) ==
  /\ agents' \in [Names -> Entry \cup {NoEntry}] /\ timers' \in Seq(Timer)
  /\ \A m \in Names : m # e.name => agents'[m] = agents[m] /\ Restarting(m)' = Restarting(m)
  /\ agents'[e.name] # NoEntry =>
       /\ Supervised(e.name) /\ agents'[e.name].inst = agents[e.name].inst
       /\ agents'[e.name].state = "running" <=> e.what = "started"
  /\ Supervised(e.name) /\ agents'[e.name] = NoEntry => e.what = "migrated"
  /\ e.what # "failed" => timers' = timers
  /\ \A k \in Restarting(e.name)' : k \in Restarting(e.name) \/ k = Len(timers) + 1

LEMMA EventHandled ==
  ASSUME SupervisionInv, HandleEvent, NEW e \in Event, e = Head(supQ)
  PROVE  Handled(e)
<1>0. agents \in [Names -> Entry \cup {NoEntry}] /\ timers \in Seq(Timer)
  BY DEF SupervisionInv, TypeOK, Timer
<1>n. e.name \in Names
  BY DEF Event
<1>a. Supervised(e.name) => agents[e.name] \in Entry
  BY <1>0, <1>n DEF Supervised
<1>s. timers' = timers => \A m : Restarting(m)' = Restarting(m)
  BY DEF Restarting
\* The table keeps its entries, or one of them is set to another of the same actor.
<1>t. ASSUME NEW c, c = agents[e.name] \/ (Supervised(e.name) /\ c \in Entry /\ c.inst = agents[e.name].inst),
             agents' = [agents EXCEPT ![e.name] = c],
             c # NoEntry => (c.state = "running" <=> e.what = "started")
      PROVE  /\ agents' \in [Names -> Entry \cup {NoEntry}]
             /\ \A m \in Names : m # e.name => agents'[m] = agents[m]
             /\ agents'[e.name] # NoEntry =>
                  /\ Supervised(e.name) /\ agents'[e.name].inst = agents[e.name].inst
                  /\ agents'[e.name].state = "running" <=> e.what = "started"
             /\ ~(Supervised(e.name) /\ agents'[e.name] = NoEntry)
  <2>1. c \in Entry \cup {NoEntry} /\ agents'[e.name] = c
    BY <1>0, <1>n, <1>t
  <2>2. c # NoEntry => Supervised(e.name) /\ c.inst = agents[e.name].inst
    BY <1>t DEF Supervised
  <2>3. Supervised(e.name) => c # NoEntry
    BY <1>t, EntryIs DEF Supervised
  <2> QED BY <1>0, <1>n, <1>t, <2>1, <2>2, <2>3
<1>u. ASSUME ~Supervised(e.name) PROVE agents = [agents EXCEPT ![e.name] = agents[e.name]]
  BY <1>0
<1>1. CASE e.what = "started" /\ HandleStarted(e.name)
  <2>1. \E c : /\ c = agents[e.name] \/ (Supervised(e.name) /\ c \in Entry /\ c.inst = agents[e.name].inst)
               /\ agents' = [agents EXCEPT ![e.name] = c]
               /\ c # NoEntry => (c.state = "running" <=> e.what = "started")
    <3>1. CASE Supervised(e.name)
      <4>1. PICK b : b = [agents[e.name] EXCEPT !.state = "running"]
        OBVIOUS
      <4>2. PICK c : c = [b EXCEPT !.current_backoff = 1]
        OBVIOUS
      <4>3. b \in Entry /\ b.inst = agents[e.name].inst /\ b.state = "running"
        BY <1>a, <3>1, <4>1, EntryEdits
      <4>4. c \in Entry /\ c.inst = agents[e.name].inst /\ c.state = "running"
        <5>1. 1 \in Delays
          BY SupervisionAssumption
        <5> QED BY ONLY <4>2, <4>3, <5>1, EntryEdits
      <4>5. agents' = [agents EXCEPT ![e.name] = c]
        BY <1>0, <1>1, <1>n, <3>1, <4>1, <4>2 DEF HandleStarted
      <4> QED BY <1>1, <3>1, <4>4, <4>5
    <3>2. CASE ~Supervised(e.name)
      BY <1>1, <1>u, <3>2 DEF HandleStarted, Supervised
    <3> QED BY <3>1, <3>2
  <2>2. timers' = timers
    BY <1>1 DEF HandleStarted
  <2> QED BY <1>0, <1>1, <1>s, <1>t, <2>1, <2>2 DEF Handled
<1>2. CASE e.what = "stopped" /\ HandleStopped(e.name)
  <2>1. \E c : /\ c = agents[e.name] \/ (Supervised(e.name) /\ c \in Entry /\ c.inst = agents[e.name].inst)
               /\ agents' = [agents EXCEPT ![e.name] = c]
               /\ c # NoEntry => (c.state = "running" <=> e.what = "started")
    <3>1. CASE Supervised(e.name)
      <4>1. PICK c : c = [agents[e.name] EXCEPT !.state = "stopped"]
        OBVIOUS
      <4>2. c \in Entry /\ c.inst = agents[e.name].inst /\ c.state = "stopped"
        BY <1>a, <3>1, <4>1, EntryEdits
      <4>3. agents' = [agents EXCEPT ![e.name] = c]
        BY <1>0, <1>2, <1>n, <3>1, <4>1 DEF HandleStopped
      <4> QED BY <1>2, <3>1, <4>2, <4>3
    <3>2. CASE ~Supervised(e.name)
      BY <1>2, <1>u, <3>2 DEF HandleStopped, Supervised
    <3> QED BY <3>1, <3>2
  <2>2. timers' = timers
    BY <1>2 DEF HandleStopped
  <2> QED BY <1>0, <1>2, <1>s, <1>t, <2>1, <2>2 DEF Handled
<1>3. CASE e.what = "failed" /\ HandleFailure(e.name)
  <2>1. CASE Supervised(e.name)
    <3>0. agents[e.name] \in Entry /\ agents[e.name].failures \in Nat
          /\ agents[e.name].current_backoff \in Delays
      BY <1>a, <2>1, EntryIs
    <3>1. PICK a : a = [agents[e.name] EXCEPT !.failures = agents[e.name].failures + 1]
      OBVIOUS
    <3>2. PICK b : b = [a EXCEPT !.state = "failed"]
      OBVIOUS
    <3>3. PICK c : c = [b EXCEPT !.current_backoff = Backoff(agents[e.name].current_backoff)]
      OBVIOUS
    <3>4. a \in Entry /\ a.inst = agents[e.name].inst
      <4>1. agents[e.name].failures + 1 \in Nat
        BY <3>0
      <4> QED BY ONLY <3>0, <3>1, <4>1, EntryEdits
    <3>5. b \in Entry /\ b.inst = agents[e.name].inst /\ b.state = "failed"
      BY <3>2, <3>4, EntryEdits
    <3>6. Backoff(agents[e.name].current_backoff) \in Delays
      BY Ladder DEF Backoff
    <3>7. c \in Entry /\ c.inst = agents[e.name].inst /\ c.state = "failed"
      BY <3>3, <3>5, <3>6, EntryEdits
    <3>8. agents' = [agents EXCEPT ![e.name] = c]
      <4>1. agents' = [agents EXCEPT ![e.name].failures = @ + 1, ![e.name].state = "failed",
                                     ![e.name].current_backoff = Backoff(@)]
        BY <1>3, <2>1 DEF HandleFailure
      <4> QED BY <1>0, <1>n, <3>0, <3>1, <3>2, <3>3, <4>1 DEF Entry
    <3>9. PICK t \in Timer : timers' = Append(timers, t) /\ t.name = e.name
      <4>1. [name |-> e.name, delay |-> agents[e.name].current_backoff] \in Timer
        BY <1>n, <3>0 DEF Timer
      <4> QED BY <1>3, <2>1, <4>1 DEF HandleFailure
    <3>10. /\ timers' \in Seq(Timer)
           /\ \A m : \A k : k \in Restarting(m)' <=>
                k \in Restarting(m) \/ (k = Len(timers) + 1 /\ e.name = m)
      BY <1>0, <3>9, RestartAppend DEF Restarting
    <3>11. \A m \in Names : m # e.name => Restarting(m)' = Restarting(m)
      BY <3>10, SameMembers
    <3> QED BY <1>3, <1>t, <2>1, <3>7, <3>8, <3>10, <3>11 DEF Handled
  <2>2. CASE ~Supervised(e.name)
    <3>1. UNCHANGED <<agents, timers>>
      BY <1>3, <2>2 DEF HandleFailure
    <3> QED BY <1>0, <1>n, <1>s, <2>2, <3>1 DEF Handled, Supervised
  <2> QED BY <2>1, <2>2
<1>4. CASE e.what = "migrated" /\ HandleMigrated(e.name)
  <2>1. agents' = [agents EXCEPT ![e.name] = NoEntry] /\ timers' = timers
    BY <1>4 DEF HandleMigrated
  <2> QED BY <1>0, <1>4, <1>n, <1>s, <2>1 DEF Handled
<1> QED BY <1>1, <1>2, <1>3, <1>4 DEF HandleEvent

\* Reading an event takes away an entry only when its actor has moved, and sets off a restart only
\* when it has failed: the event was the one thing under way for the name.
LEMMA EventKeeps ==
  ASSUME SupervisionInv, HandleEvent
  PROVE  SupervisionInv'
<1>0. TypeOK /\ supQ \in Seq(Event) /\ supQ # <<>> /\ timers \in Seq(Timer)
  BY DEF SupervisionInv, TypeOK, HandleEvent, Timer
<1>1. PICK e \in Event : e = Head(supQ)
  BY <1>0
<1>2. Handled(e)
  BY <1>1, EventHandled
<1>3. /\ supQ' = Tail(supQ) /\ supQ' \in Seq(Event)
      /\ up /\ UNCHANGED <<insts, regQ, registry, up, used, wanted, raced>>
  BY <1>0 DEF HandleEvent
<1>n. e.name \in Names /\ e.what \in {"started", "stopped", "failed", "migrated"}
  BY DEF Event
<1>4. TypeOK'
  BY <1>0, <1>2, <1>3 DEF TypeOK, Handled, Timer
<1>5. SameActors
  BY <1>3 DEF SameActors, SameActor, SupervisionInv, MovingInv
<1>6. \A m \in Names : Supervised(m)' => Supervised(m) /\ agents'[m].inst = agents[m].inst
  BY <1>2 DEF Handled, Supervised
<1>7. StopSticks'
  BY <1>3, <1>6 DEF SupervisionInv, StopSticks
<1>8. ASSUME NEW m \in Names, ~raced[m]
      PROVE  /\ \A j, k \in Ending(m)' : j = k
             /\ Ending(m) = {} => Ending(m)' = {}
             /\ e.name = m /\ e.what \in {"failed", "migrated"} => Ending(m)' = {} /\ Ending(m) # {}
  <2>1. \A j, k \in EndingIn(supQ, m) : j = k
    BY <1>8 DEF SupervisionInv, EndsInv, Ending
  <2>2. /\ \A j, k \in EndingIn(Tail(supQ), m) : j = k
        /\ EndingIn(supQ, m) = {} => EndingIn(Tail(supQ), m) = {}
        /\ Head(supQ).name = m /\ Head(supQ).what \in {"failed", "migrated"} =>
             EndingIn(Tail(supQ), m) = {}
    BY <1>0, <2>1, EndingRead
  <2>3. 1 \in EndingIn(supQ, m) <=> Head(supQ).name = m /\ Head(supQ).what \in {"failed", "migrated"}
    BY <1>0, EndingTail
  <2> QED BY <1>1, <1>3, <2>2, <2>3 DEF Ending
<1>9. EndsInv'
  <2> SUFFICES ASSUME NEW m \in Names, ~raced'[m]
               PROVE  /\ \A j, k \in Ending(m)' : j = k
                      /\ \A j, k \in Restarting(m)' : j = k
                      /\ Ending(m)' = {} \/ Restarting(m)' = {}
    BY DEF EndsInv
  <2>0. ~raced[m]
    BY <1>3
  <2>1. /\ \A j, k \in Restarting(m) : j = k
        /\ Ending(m) = {} \/ Restarting(m) = {}
    BY <2>0 DEF SupervisionInv, EndsInv
  <2>2. CASE m = e.name /\ e.what = "failed"
    <3>1. Ending(m)' = {} /\ Restarting(m) = {}
      BY <1>8, <2>0, <2>1, <2>2
    <3>2. \A k \in Restarting(m)' : k = Len(timers) + 1
      BY <1>2, <2>2, <3>1 DEF Handled
    <3> QED BY <3>1, <3>2
  <2>3. CASE ~(m = e.name /\ e.what = "failed")
    <3>1. Restarting(m)' = Restarting(m)
      BY <1>2, <2>3 DEF Handled, Restarting
    <3> QED BY <1>8, <2>0, <2>1, <3>1
  <2> QED BY <2>2, <2>3
<1>10. ASSUME NEW j \in DOMAIN insts, NEW m \in Names, insts[j].name = m, Alive(j), ~raced[m]
       PROVE  /\ Ending(m)' = {} /\ Restarting(m)' = {}
              /\ ~(Supervised(m) /\ ~Supervised(m)')
  <2>1. Ending(m) = {} /\ Restarting(m) = {}
    BY <1>10 DEF SupervisionInv, AliveInv
  <2>2. ~(e.name = m /\ e.what \in {"failed", "migrated"}) /\ Ending(m)' = {}
    BY <1>8, <1>10, <2>1
  <2>3. Restarting(m)' = Restarting(m)
    BY <1>2, <2>2 DEF Handled, Restarting
  <2>4. ~(Supervised(m) /\ ~Supervised(m)')
    BY <1>2, <2>2 DEF Handled, Supervised
  <2> QED BY <2>1, <2>2, <2>3, <2>4
<1>11. ASSUME NEW m \in Names, Supervised(m)'
       PROVE  Hears(agents[m].state, supQ, m)' <=> Hears(agents[m].state, supQ, m)
  <2>1. IF Head(supQ).name = m THEN (agents'[m].state = "running" <=> Head(supQ).what = "started")
                               ELSE agents'[m].state = agents[m].state
    BY <1>1, <1>2, <1>11 DEF Handled, Supervised
  <2>2. Hears(agents'[m].state, Tail(supQ), m) <=> Hears(agents[m].state, supQ, m)
    BY <1>0, <2>1, HearsTail
  <2> QED BY <1>3, <2>2
<1> QED BY <1>3, <1>4, <1>5, <1>6, <1>7, <1>9, <1>10, <1>11, TableStep

\* A restart that fires was the only thing under way for its name, and none of the name lives.
LEMMA TimerKeeps ==
  ASSUME SupervisionInv, NEW k \in DOMAIN timers, RestartTimer(k)
  PROVE  SupervisionInv'
<1>0. /\ TypeOK /\ timers \in Seq(Timer) /\ agents \in [Names -> Entry \cup {NoEntry}]
      /\ wanted \in [Names -> BOOLEAN] /\ raced \in [Names -> BOOLEAN]
  BY DEF SupervisionInv, TypeOK, Timer
<1>1. PICK n \in Names : n = timers[k].name
  <2>1. timers[k] \in Timer
    BY <1>0
  <2> QED BY <2>1 DEF Timer
<1>2. /\ timers' = RemoveAt(timers, k) /\ timers' \in Seq(Timer)
      /\ Respawn(n) /\ UNCHANGED <<supQ, regQ, registry, up, used, wanted, raced>>
  BY <1>0, <1>1, RemovedAt DEF RestartTimer
<1>3. ASSUME NEW m \in Names, ~raced[m]
      PROVE  /\ \A i, j \in Restarting(m)' : i = j
             /\ Restarting(m) = {} => Restarting(m)' = {}
             /\ m = n => Restarting(m)' = {} /\ Restarting(m) # {}
  <2>1. \A i, j \in RestartingIn(timers, m) : i = j
    BY <1>3 DEF SupervisionInv, EndsInv, Restarting
  <2>2. m = n => k \in RestartingIn(timers, m)
    BY <1>1 DEF RestartingIn
  <2> QED BY <1>0, <1>1, <1>2, <2>1, <2>2, RestartFired DEF Restarting
<1>4. \A m : Ending(m)' = Ending(m)
  BY <1>2 DEF Ending
<1>5. EndsInv'
  <2> SUFFICES ASSUME NEW m \in Names, ~raced'[m]
               PROVE  /\ \A i, j \in Ending(m)' : i = j
                      /\ \A i, j \in Restarting(m)' : i = j
                      /\ Ending(m)' = {} \/ Restarting(m)' = {}
    BY DEF EndsInv
  <2>0. ~raced[m]
    BY <1>2
  <2>1. /\ \A i, j \in Ending(m) : i = j
        /\ Ending(m) = {} \/ Restarting(m) = {}
    BY <2>0 DEF SupervisionInv, EndsInv
  <2> QED BY <1>3, <1>4, <2>0, <2>1
<1>6. ~raced[n] => /\ \A j \in DOMAIN insts : insts[j].name = n => ~Alive(j)
                   /\ Ending(n) = {}
  <2> SUFFICES ASSUME ~raced[n] PROVE /\ \A j \in DOMAIN insts : insts[j].name = n => ~Alive(j)
                                      /\ Ending(n) = {}
    OBVIOUS
  <2>1. Restarting(n) # {}
    BY <1>3
  <2> QED BY <2>1 DEF SupervisionInv, EndsInv, AliveInv
<1>7. CASE Supervised(n) /\ SpawnInto([agents EXCEPT ![n] = NoEntry], n)
  <2>1. agents' = [agents EXCEPT ![n] = NewEntry] /\ insts' = Append(insts, NewInstance(n))
    <3>1. [agents EXCEPT ![n] = NoEntry][n] = NoEntry
      BY <1>0
    <3>2. [[agents EXCEPT ![n] = NoEntry] EXCEPT ![n] = NewEntry] = [agents EXCEPT ![n] = NewEntry]
      BY <1>0
    <3> QED BY <1>7, <3>1, <3>2 DEF SpawnInto
  <2>2. TypeOK'
    <3>1. registry' \in [Names -> 0 .. Len(insts')]
      BY <1>0, <1>2, <2>1, GrowType
    <3> QED BY <1>0, <1>2, <2>1, <3>1, GrowType DEF TypeOK, Timer
  <2>3. wanted[n]
    BY <1>7 DEF SupervisionInv, StopSticks
  <2>4. \A m \in Names : m # n /\ Restarting(m) = {} => Restarting(m)' = {}
    <3> SUFFICES ASSUME NEW m \in Names, m # n, Restarting(m) = {} PROVE Restarting(m)' = {}
      OBVIOUS
    <3>1. \A i, j \in RestartingIn(timers, m) : i = j
      BY DEF Restarting
    <3> QED BY <1>0, <1>2, <3>1, RestartFired DEF Restarting
  <2> QED BY <1>2, <1>3, <1>5, <1>6, <2>1, <2>2, <2>3, <2>4, GrowStep
<1>8. CASE agents' \in {agents, [agents EXCEPT ![n] = NoEntry]} /\ insts' = insts
  <2>1. /\ agents' \in [Names -> Entry \cup {NoEntry}]
        /\ \A m \in Names : agents'[m] = agents[m] \/ (m = n /\ agents'[m] = NoEntry)
    BY <1>0, <1>8
  <2>2. TypeOK'
    BY <1>0, <1>2, <1>8, <2>1 DEF TypeOK, Timer
  <2>3. SameActors
    BY <1>8 DEF SameActors, SameActor, SupervisionInv, MovingInv
  <2>4. \A m \in Names : Supervised(m)' => Supervised(m) /\ agents'[m] = agents[m]
    BY <2>1 DEF Supervised
  <2>5. StopSticks'
    BY <1>2, <2>4 DEF SupervisionInv, StopSticks
  <2>6. ASSUME NEW j \in DOMAIN insts, NEW m \in Names, insts[j].name = m, Alive(j), ~raced[m]
        PROVE  /\ Ending(m)' = {} /\ Restarting(m)' = {}
               /\ ~(Supervised(m) /\ ~Supervised(m)')
    <3>1. Ending(m) = {} /\ Restarting(m) = {}
      BY <2>6 DEF SupervisionInv, AliveInv
    <3>2. m # n
      BY <1>6, <2>6
    <3>3. Supervised(m)' <=> Supervised(m)
      BY <2>1, <3>2 DEF Supervised
    <3> QED BY <1>3, <1>4, <2>6, <3>1, <3>3
  <2>7. \A m \in Names : up' /\ Supervised(m)' /\ ~raced[m] =>
          (Hears(agents[m].state, supQ, m)' <=> Hears(agents[m].state, supQ, m))
    BY <1>2, <2>4
  <2>8. \A m \in Names : Supervised(m)' => Supervised(m) /\ agents'[m].inst = agents[m].inst
    BY <2>4
  <2> QED BY <1>2, <1>5, <2>2, <2>3, <2>5, <2>6, <2>7, <2>8, TableStep
<1> QED BY <1>2, <1>7, <1>8 DEF Respawn

LEMMA NextKeeps == SupervisionInv /\ [Next]_vars => SupervisionInv'
<1> SUFFICES ASSUME SupervisionInv, [Next]_vars PROVE SupervisionInv'
  OBVIOUS
<1>1. ASSUME NEW n \in Names, Request(n) PROVE SupervisionInv'
  BY <1>1, SpawnKeeps, StopKeeps, DeliverKeeps DEF Request
<1>2. ASSUME NEW i \in DOMAIN insts, AgentStep(i) PROVE SupervisionInv'
  BY <1>2, AgentStepKeeps
<1>3. ASSUME NEW k \in DOMAIN timers, RestartTimer(k) PROVE SupervisionInv'
  BY <1>3, TimerKeeps
<1>4. CASE UNCHANGED vars
  <2>1. UNCHANGED <<agents, insts, supQ, regQ, registry, timers, up, used, wanted, raced>>
    BY <1>4 DEF vars
  <2>2. TypeOK'
    BY <2>1 DEF SupervisionInv, TypeOK
  <2>3. SameActors
    BY <2>1 DEF SameActors, SameActor, SupervisionInv, MovingInv
  <2> QED BY <2>1, <2>2, <2>3, QuietStep
<1> QED BY <1>1, <1>2, <1>3, <1>4, EventKeeps, EndKeeps, OrderKeeps DEF Next

\* The supervisor's table, the registry and the actors agree (SupervisionSafe): no living actor
\* escapes supervision, an agent that was stopped does not come back, an entry whose events are
\* read says "running" just when its actor lives, and the registry's last word about a name is a
\* living actor, and the one that has started (actor/supervisor.rs, agent_actor.rs, registry.rs).
THEOREM SupervisionTheorem == Spec => []SupervisionSafe
<1>1. SupervisionInv => SupervisionSafe
  BY SupervisionEnough
<1> QED BY <1>1, InitSupervision, NextKeeps, PTL DEF Spec

-----------------------------------------------------------------------------
(* Snapshots and recovery *)

\* What the storages hold.
Talked == [kind : Kinds, state : {t[2] : t \in Talks}, last : Nat]
Snapshots == [name : Nat, id : {Disabled}, agent : Hosted, at : Nat, read : Nat,
              talks : SUBSET Talked, readable : BOOLEAN]

\* A snapshot is not the mark of its absence.
LEMMA SnapshotIs ==
  ASSUME NEW s \in Snapshots
  PROVE  /\ s # NoSnapshot /\ s.name \in Nat /\ s.id = Disabled /\ s.at \in Nat
         /\ s.agent \in Hosted /\ s.read \in Nat
         /\ s.talks \subseteq Talked /\ s.readable \in BOOLEAN
<1>1. "at" \in DOMAIN s /\ "at" \notin DOMAIN NoSnapshot
  BY DEF Snapshots, NoSnapshot
<1> QED BY <1>1 DEF Snapshots

\* The elements of a list of snapshots.
LEMMA Elements ==
  ASSUME NEW S, NEW list \in Seq(S)
  PROVE  /\ Len(list) \in Nat /\ DOMAIN list = 1 .. Len(list) /\ Range(list) \subseteq S
         /\ list # <<>> <=> Range(list) # {}
         /\ list # <<>> => Head(list) = list[1] /\ 1 \in DOMAIN list /\ list[1] \in Range(list)
<1>1. Len(list) \in Nat /\ DOMAIN list = 1 .. Len(list) /\ \A i \in DOMAIN list : list[i] \in S
  OBVIOUS
<1>2. list # <<>> => Head(list) = list[1] /\ 1 \in DOMAIN list
  OBVIOUS
<1>3. list = <<>> => DOMAIN list = {}
  OBVIOUS
<1> QED BY <1>1, <1>2, <1>3 DEF Range

\* The elements of two lists joined.
LEMMA RangeJoin ==
  ASSUME NEW S, NEW q \in Seq(S), NEW r \in Seq(S)
  PROVE  /\ q \o r \in Seq(S) /\ Range(q \o r) = Range(q) \cup Range(r)
         /\ q # <<>> => q \o r # <<>> /\ (q \o r)[1] = q[1]
<1>1. /\ q \o r \in Seq(S) /\ Len(q \o r) = Len(q) + Len(r) /\ Len(q) \in Nat /\ Len(r) \in Nat
      /\ DOMAIN (q \o r) = 1 .. Len(q) + Len(r) /\ DOMAIN q = 1 .. Len(q) /\ DOMAIN r = 1 .. Len(r)
      /\ \A i \in 1 .. Len(q) + Len(r) :
           (q \o r)[i] = IF i <= Len(q) THEN q[i] ELSE r[i - Len(q)]
  OBVIOUS
<1>2. ASSUME NEW i \in 1 .. Len(q) + Len(r)
      PROVE  (q \o r)[i] \in Range(q) \cup Range(r)
  <2>1. CASE i <= Len(q)
    <3>1. i \in DOMAIN q
      BY <1>1, <2>1
    <3> QED BY <1>1, <2>1, <3>1 DEF Range
  <2>2. CASE ~(i <= Len(q))
    <3>1. i - Len(q) \in DOMAIN r
      BY <1>1, <2>2
    <3> QED BY <1>1, <2>2, <3>1 DEF Range
  <2> QED BY <2>1, <2>2
<1>3. ASSUME NEW i \in DOMAIN q
      PROVE  q[i] \in Range(q \o r)
  <2>1. i \in 1 .. Len(q) + Len(r) /\ i <= Len(q)
    BY <1>1
  <2> QED BY <1>1, <2>1 DEF Range
<1>4. ASSUME NEW i \in DOMAIN r
      PROVE  r[i] \in Range(q \o r)
  <2>1. i + Len(q) \in 1 .. Len(q) + Len(r) /\ ~(i + Len(q) <= Len(q)) /\ (i + Len(q)) - Len(q) = i
    BY <1>1
  <2> QED BY <1>1, <2>1 DEF Range
<1>5. Range(q \o r) = Range(q) \cup Range(r)
  <2>1. \A x : x \in Range(q \o r) => x \in Range(q) \cup Range(r)
    BY <1>1, <1>2 DEF Range
  <2>2. \A x : x \in Range(q) \cup Range(r) => x \in Range(q \o r)
    BY <1>3, <1>4 DEF Range
  <2> QED BY <2>1, <2>2
<1>6. q # <<>> => q \o r # <<>> /\ (q \o r)[1] = q[1]
  <2> SUFFICES ASSUME q # <<>> PROVE q \o r # <<>> /\ (q \o r)[1] = q[1]
    OBVIOUS
  <2>1. Len(q) >= 1 /\ 1 \in 1 .. Len(q) + Len(r)
    BY <1>1
  <2> QED BY <1>1, <2>1
<1> QED BY <1>1, <1>5, <1>6

\* A store keeps every snapshot there was and adds one; in memory it comes before every older one.
LEMMA StoreKeeps ==
  ASSUME NEW list \in Seq(Snapshots), NEW s \in Snapshots
  PROVE  /\ Store(list, s) \in Seq(Snapshots) /\ Range(Store(list, s)) = Range(list) \cup {s}
         /\ mode = "memory" => Store(list, s) # <<>> /\ Store(list, s)[1].at >= s.at
<1>1. CASE mode # "memory"
  <2>1. Store(list, s) = Append(list, s)
    BY <1>1 DEF Store
  <2> QED BY <1>1, <2>1, RangeAppend
<1>2. CASE mode = "memory"
  <2>1. PICK older : older = Retained(list, {t \in Range(list) : t.at < s.at})
    OBVIOUS
  <2>2. PICK newer : newer = Retained(list, {t \in Range(list) : t.at >= s.at})
    OBVIOUS
  <2>3. /\ older \in Seq(Snapshots)
        /\ \A x : x \in Range(older) <=> x \in Range(list) /\ x.at < s.at
    BY <2>1, RetainedRange
  <2>4. /\ newer \in Seq(Snapshots)
        /\ \A x : x \in Range(newer) <=> x \in Range(list) /\ x.at >= s.at
    BY <2>2, RetainedRange
  <2>5. \A x \in Range(list) : x.at < s.at \/ x.at >= s.at
    <3>1. \A x \in Range(list) : x.at \in Nat
      BY Elements, SnapshotIs
    <3> QED BY <3>1, SnapshotIs
  <2>6. PICK one : one = <<s>>
    OBVIOUS
  <2>7. one \in Seq(Snapshots) /\ Range(one) = {s}
    BY <2>6 DEF Range
  <2>8. PICK front : front = newer \o one
    OBVIOUS
  <2>9. front \in Seq(Snapshots) /\ Range(front) = Range(newer) \cup {s}
    <3>1. newer \o one \in Seq(Snapshots) /\ Range(newer \o one) = Range(newer) \cup Range(one)
      BY <2>4, <2>7, RangeJoin
    <3> QED BY <2>7, <2>8, <3>1
  <2>10. Store(list, s) = front \o older
    BY <1>2, <2>1, <2>2, <2>6, <2>8 DEF Store
  <2>11. /\ front \o older \in Seq(Snapshots) /\ Range(front \o older) = Range(front) \cup Range(older)
         /\ front # <<>> => front \o older # <<>> /\ (front \o older)[1] = front[1]
    BY <2>3, <2>9, RangeJoin
  <2>12. Store(list, s) \in Seq(Snapshots)
         /\ Range(Store(list, s)) = (Range(newer) \cup {s}) \cup Range(older)
    BY <2>9, <2>10, <2>11
  <2>13. Range(Store(list, s)) = Range(list) \cup {s}
    BY <2>3, <2>4, <2>5, <2>12
  <2>14. front # <<>> /\ front[1].at >= s.at
    <3>1. front # <<>> /\ front[1] \in Range(front)
      BY <2>9, Elements
    <3>2. s.at >= s.at
      BY SnapshotIs
    <3> QED BY <2>4, <2>9, <3>1, <3>2
  <2>15. Store(list, s) # <<>> /\ Store(list, s)[1] = front[1]
    BY <2>14, <2>10, <2>11
  <2> QED BY <2>12, <2>13, <2>14, <2>15
<1> QED BY <1>1, <1>2

\* Cleaning up: in memory the newest stay, and of the files all do, since no metadata has the id of
\* its file.
LEMMA CleanupKeeps ==
  ASSUME NEW list \in Seq(Snapshots), \A x \in Range(list) : x.name # Disabled
  PROVE  /\ Cleanup(list) \in Seq(Snapshots) /\ Range(Cleanup(list)) \subseteq Range(list)
         /\ mode = "memory" /\ list # <<>> => Cleanup(list) # <<>> /\ Cleanup(list)[1] = list[1]
         /\ mode # "memory" => Range(Cleanup(list)) = Range(list)
<1>0. Len(list) \in Nat /\ DOMAIN list = 1 .. Len(list) /\ MaxSnapshots \in Nat /\ MaxSnapshots >= 1
  BY PersistenceAssumption
<1>1. CASE mode = "memory"
  <2>1. PICK k : k = Min({Len(list), MaxSnapshots})
    OBVIOUS
  <2>2. k \in {Len(list), MaxSnapshots} /\ k <= Len(list) /\ k <= MaxSnapshots
    <3> DEFINE S == {Len(list), MaxSnapshots}
    <3>1. \E x \in S : \A y \in S : x <= y
      BY <1>0
    <3> HIDE DEF S
    <3>2. Min(S) \in S /\ \A y \in S : Min(S) <= y
      BY <3>1 DEF Min
    <3> USE DEF S
    <3> QED BY <2>1, <3>2
  <2>3. k \in Nat /\ k <= Len(list) /\ (list # <<>> => k >= 1)
    BY <1>0, <2>2
  <2>4. PICK kept : kept = SubSeq(list, 1, k)
    OBVIOUS
  <2>5. /\ kept \in Seq(Snapshots) /\ Len(kept) = k /\ DOMAIN kept = 1 .. k
        /\ \A i \in 1 .. k : kept[i] = list[i] /\ i \in DOMAIN list
    BY <1>0, <2>3, <2>4
  <2>6. Cleanup(list) = kept
    BY <1>1, <2>1, <2>4 DEF Cleanup
  <2>7. Range(kept) \subseteq Range(list)
    BY <2>5 DEF Range
  <2>8. list # <<>> => kept # <<>> /\ kept[1] = list[1]
    <3> SUFFICES ASSUME list # <<>> PROVE kept # <<>> /\ kept[1] = list[1]
      OBVIOUS
    <3>1. 1 \in 1 .. k
      BY <2>3
    <3> QED BY <2>5, <3>1
  <2> QED BY <1>1, <2>5, <2>6, <2>7, <2>8
<1>2. CASE mode # "memory"
  <2> DEFINE past == {i \in DOMAIN list : /\ list[i].readable
                                          /\ Cardinality(ListedBefore(list, i)) >= MaxSnapshots}
             excess == {list[i].id : i \in past}
  <2>1. Cleanup(list) = Retained(list, {t \in Range(list) : t.name \notin excess})
    BY <1>2 DEF Cleanup
  <2>2. excess \subseteq {Disabled}
    <3>1. \A i \in DOMAIN list : list[i] \in Snapshots
      OBVIOUS
    <3> QED BY <3>1, SnapshotIs
  <2> HIDE DEF excess
  <2>3. /\ Cleanup(list) \in Seq(Snapshots)
        /\ \A x : x \in Range(Cleanup(list)) <=> x \in Range(list) /\ x.name \notin excess
    BY <2>1, RetainedRange
  <2> QED BY <1>2, <2>2, <2>3
<1> QED BY <1>1, <1>2

\* What snapshot_agent reported is there: as a file, or, in memory, behind nothing older.  Nothing
\* as new, and nothing still to be stored, has an older state than was promised.
Kept(d) ==
  acked[d] # NoPromise =>
    /\ mode = "file" => \E x \in Range(stored[d]) : x.at >= acked[d].at
    /\ mode = "memory" => stored[d] # <<>> /\ stored[d][1].at >= acked[d].at
    /\ \A x \in Range(stored[d]) : x.at >= acked[d].at => x.read >= acked[d].read
    /\ \A w \in Writers :
         under[w] # <<>> /\ Place(under[w][1]) = d => under[w][2] >= acked[d].read

\* The snapshots of a place: each is of a name that has the place, each store has its own number,
\* and none is from a later second.
Numbered(d) ==
  /\ \A x \in Range(stored[d]) :
       x.name >= 1 /\ x.name <= taken /\ x.at <= clock /\ Place(x.agent) = d
  /\ \A x, y \in Range(stored[d]) : x.name = y.name => x = y
  /\ acked[d] # NoPromise => acked[d].at <= clock /\ acked[d].read <= clock

\* A recovery calls a conversation ended by its state, and stale by its age.
Judged(rec) ==
  rec.result = "ok" =>
    \A r \in rec.convs : /\ r.conv.kind \in Kinds
                         /\ ~r.resume => \/ rec.at - r.conv.last > StaleAfter
                                         \/ IsTerminalState(r.conv.state)

Engines == [platform : BOOLEAN, agents : [Hosted -> Snapshots \cup {NoSnapshot}], services : {{}}]

\* A store under way, or none; a promise, or none.
Waiting == {<<>>} \cup (Hosted \X Nat)
Promises == [at : 0 .. MaxClock, read : Nat] \cup {NoPromise}

PersistenceType ==
  /\ clock \in Nat /\ clock <= MaxClock /\ taken \in Nat
  /\ under \in [Writers -> Waiting]
  /\ stored \in [Places -> Seq(Snapshots)]
  /\ acked \in [Places -> Promises]
  /\ engine \in Engines

\* The inductive invariant of the manager and the engine.
PersistenceInv ==
  /\ PersistenceType /\ Judged(recovery)
  /\ \A w \in Writers : under[w] # <<>> => under[w][2] <= clock
  /\ \A d \in Places : Numbered(d) /\ Kept(d)

\* A store under way has an agent and a second.
LEMMA WaitingIs ==
  /\ <<>> \in Waiting
  /\ \A u \in Waiting : u # <<>> => u[1] \in Hosted /\ u[2] \in Nat /\ Place(u[1]) \in Places
  /\ \A a \in Hosted : \A r \in Nat : <<a, r>> \in Waiting /\ <<a, r>>[1] = a /\ <<a, r>>[2] = r
<1>1. \A a \in Hosted : Place(a) \in Places
  BY PersistenceAssumption DEF Place, Places, Range
<1> QED BY <1>1 DEF Waiting

\* A promise is of a second that the clock can show.
LEMMA PromiseIs ==
  ASSUME NEW p \in Promises
  PROVE  p.at \in Nat /\ p.read \in Nat /\ (p # NoPromise => p.at <= MaxClock)
<1>1. NoPromise.at \in Nat /\ NoPromise.read \in Nat
  BY PersistenceAssumption DEF NoPromise, Never
<1> QED BY <1>1, PersistenceAssumption DEF Promises

\* The invariant holds when nothing has been stored.
LEMMA PersistenceInit == PInit => PersistenceInv
<1> SUFFICES ASSUME PInit PROVE PersistenceInv
  OBVIOUS
<1>1. PersistenceType
  <2>1. stored \in [Places -> Seq(Snapshots)] /\ acked \in [Places -> Promises]
    BY DEF PInit, Promises
  <2>2. under \in [Writers -> Waiting]
    BY DEF PInit, Waiting
  <2> QED BY <2>1, <2>2, PersistenceAssumption DEF PInit, PersistenceType, Engines
<1>2. Judged(recovery)
  BY DEF PInit, Judged, NoRecovery
<1>3. ASSUME NEW d \in Places
      PROVE  Numbered(d) /\ Kept(d)
  <2>1. stored[d] = <<>> /\ acked[d] = NoPromise /\ Range(stored[d]) = {}
    BY <1>3 DEF PInit, Range
  <2> QED BY <2>1 DEF Numbered, Kept
<1>4. \A w \in Writers : under[w] = <<>>
  BY DEF PInit
<1> QED BY <1>1, <1>2, <1>3, <1>4 DEF PersistenceInv

\* What the manager makes of a state it was given.
LEMMA MadeSnapshot ==
  ASSUME PersistenceInv, NEW w \in Writers, under[w] # <<>>, NEW readable \in BOOLEAN
  PROVE  /\ AgentSnapshot(w, readable) \in Snapshots
         /\ AgentSnapshot(w, readable).at = clock
         /\ AgentSnapshot(w, readable).name = taken + 1
         /\ AgentSnapshot(w, readable).agent = under[w][1]
         /\ AgentSnapshot(w, readable).read = under[w][2]
<1>1. under[w][1] \in Hosted /\ under[w][2] \in Nat /\ taken + 1 \in Nat /\ clock \in Nat
  BY WaitingIs DEF PersistenceInv, PersistenceType
<1> DEFINE talks == IF w = "task" THEN {} ELSE Talks
           talked == {[kind |-> t[1], state |-> t[2], last |-> under[w][2]] : t \in talks}
<1>2. talked \subseteq Talked
  BY <1>1, PersistenceAssumption DEF Talked
<1>3. AgentSnapshot(w, readable) =
        [name |-> taken + 1, id |-> Disabled, agent |-> under[w][1], at |-> clock,
         read |-> under[w][2], talks |-> talked, readable |-> readable]
  BY DEF AgentSnapshot
<1> HIDE DEF talked
<1> QED BY <1>1, <1>2, <1>3 DEF Snapshots

\* What a report promises: no state older than any stored at the same time.
LEMMA RivalsLeast ==
  ASSUME PersistenceInv, NEW d \in Places, NEW w \in Writers, under[w] # <<>>,
         Place(under[w][1]) = d
  PROVE  /\ Min(Rivals(d)) \in Nat /\ Min(Rivals(d)) <= clock
         /\ \A v \in Writers :
              under[v] # <<>> /\ Place(under[v][1]) = d => under[v][2] >= Min(Rivals(d))
         /\ \A x \in Range(stored[d]) : x.at = clock => x.read >= Min(Rivals(d))
<1>1. \A v \in Writers : under[v] # <<>> => under[v][2] \in Nat /\ under[v][2] <= clock
  BY WaitingIs DEF PersistenceInv, PersistenceType
<1>2. \A x \in Range(stored[d]) : x.read \in Nat
  <2>1. stored[d] \in Seq(Snapshots)
    BY DEF PersistenceInv, PersistenceType
  <2> QED BY <2>1, Elements, SnapshotIs
<1>3. PICK R : R = Rivals(d)
  OBVIOUS
<1>4. /\ \A x \in R : x \in Nat
      /\ \A v \in Writers : under[v] # <<>> /\ Place(under[v][1]) = d => under[v][2] \in R
      /\ \A x \in Range(stored[d]) : x.at = clock => x.read \in R
  BY <1>1, <1>2, <1>3 DEF Rivals
<1>5. PICK m \in R : \A y \in R : m <= y
  BY <1>4, LeastNat
<1>6. Min(R) \in R /\ \A y \in R : Min(R) <= y
  BY <1>5 DEF Min
<1>7. Min(R) \in Nat /\ Min(R) <= under[w][2]
  BY <1>4, <1>6
<1>8. clock \in Nat
  BY DEF PersistenceInv, PersistenceType
<1> QED BY <1>1, <1>3, <1>4, <1>6, <1>7, <1>8

\* A store under way ends with one more snapshot in place d, cleaned up after or not, acknowledged
\* or not: that keeps the invariant.
LEMMA OneMore ==
  ASSUME PersistenceInv, NEW w \in Writers, under[w] # <<>>, NEW d \in Places,
         Place(under[w][1]) = d, NEW s \in Snapshots, s.at = clock, s.name = taken + 1,
         s.agent = under[w][1], s.read = under[w][2],
         NEW list, list = Store(stored[d], s) \/ list = Cleanup(Store(stored[d], s)),
         stored' = [stored EXCEPT ![d] = list], taken' = taken + 1,
         \/ acked' = acked
         \/ acked' = [acked EXCEPT ![d] = [at |-> clock, read |-> Min(Rivals(d))]],
         under' = [under EXCEPT ![w] = <<>>],
         engine' = engine, recovery' = NoRecovery, clock' = clock, mode' = mode
  PROVE  PersistenceInv'
<1>0. /\ PersistenceType /\ Numbered(d) /\ Kept(d) /\ \A b \in Places : Numbered(b) /\ Kept(b)
      /\ \A v \in Writers : under[v] # <<>> => under[v][2] <= clock
  BY DEF PersistenceInv
<1>1. stored[d] \in Seq(Snapshots) /\ taken \in Nat /\ clock \in Nat /\ clock <= MaxClock
      /\ acked[d] \in Promises /\ acked[d].at \in Nat /\ acked[d].read \in Nat /\ MaxClock \in Nat
  BY <1>0, PersistenceAssumption, PromiseIs DEF PersistenceType
<1>2. PICK old : old = stored[d]
  OBVIOUS
<1>3. PICK new : new = Store(old, s)
  OBVIOUS
<1>4. /\ old \in Seq(Snapshots)
      /\ \A x \in Range(old) : x.name >= 1 /\ x.name <= taken /\ x.at <= clock /\ Place(x.agent) = d
      /\ \A x, y \in Range(old) : x.name = y.name => x = y
      /\ acked[d] # NoPromise => acked[d].at <= clock /\ acked[d].read <= clock
  BY <1>0, <1>1, <1>2 DEF Numbered
<1>5. /\ new \in Seq(Snapshots) /\ Range(new) = Range(old) \cup {s}
      /\ mode = "memory" => new # <<>> /\ new[1].at >= clock
  BY <1>3, <1>4, StoreKeeps
<1>6. /\ \A x \in Range(new) : /\ x.name >= 1 /\ x.name <= taken + 1 /\ x.at <= clock
                               /\ x.name \in Nat /\ Place(x.agent) = d
      /\ \A x, y \in Range(new) : x.name = y.name => x = y
  <2>1. \A x \in Range(old) : x.name \in Nat /\ x.name <= taken /\ x.name # s.name
    BY <1>1, <1>4, Elements, SnapshotIs
  <2>2. s.name >= 1 /\ s.name <= taken + 1 /\ s.at <= clock /\ s.name \in Nat /\ Place(s.agent) = d
    BY <1>1, SnapshotIs
  <2>3. \A x \in Range(old) : x.name <= taken + 1
    BY <2>1, <1>1
  <2>4. \A x \in Range(new) : x \in Range(old) \/ x = s
    BY <1>5
  <2> QED BY <1>4, <2>1, <2>2, <2>3, <2>4
<1>7. \A x \in Range(new) : x.name # Disabled
  BY <1>6 DEF Disabled
<1>8. /\ list \in Seq(Snapshots) /\ Range(list) \subseteq Range(new)
      /\ mode = "memory" => list # <<>> /\ list[1].at >= clock
      /\ mode # "memory" => Range(list) = Range(new)
  <2>1. CASE list = Store(stored[d], s)
    BY <2>1, <1>2, <1>3, <1>5
  <2>2. CASE list = Cleanup(Store(stored[d], s))
    <3>1. list = Cleanup(new)
      BY <2>2, <1>2, <1>3
    <3> QED BY <3>1, <1>5, <1>7, CleanupKeeps
  <2> QED BY <2>1, <2>2
<1>9. PICK p : p = acked'[d]
  OBVIOUS
\* The promise, whether it stays or is made now.
<1>10. /\ p \in Promises /\ p.at \in Nat /\ p.read \in Nat
       /\ p # NoPromise =>
            /\ p.at <= clock /\ p.read <= clock
            /\ \A x \in Range(old) : x.at >= p.at => x.read >= p.read
            /\ \A v \in Writers : under[v] # <<>> /\ Place(under[v][1]) = d => under[v][2] >= p.read
  <2>1. CASE acked' = acked
    BY <1>0, <1>1, <1>2, <1>4, <1>9, <2>1 DEF Kept
  <2>2. CASE acked' = [acked EXCEPT ![d] = [at |-> clock, read |-> Min(Rivals(d))]]
    <3>1. PICK m : m = Min(Rivals(d))
      OBVIOUS
    <3>2. /\ m \in Nat /\ m <= clock
          /\ \A v \in Writers : under[v] # <<>> /\ Place(under[v][1]) = d => under[v][2] >= m
          /\ \A x \in Range(old) : x.at = clock => x.read >= m
      BY <1>2, <3>1, RivalsLeast
    <3>3. p = [at |-> clock, read |-> m]
      BY <1>0, <1>9, <2>2, <3>1 DEF PersistenceType
    <3>4. p.at = clock /\ p.read = m /\ p \in Promises
      BY <1>1, <3>2, <3>3 DEF Promises
    <3>5. \A x \in Range(old) : x.at >= clock => x.at = clock
      BY <1>1, <1>4, Elements, SnapshotIs
    <3> QED BY <1>1, <3>2, <3>4, <3>5
  <2> QED BY <2>1, <2>2
<1>11. stored'[d] = list /\ \A b \in Places : b # d => stored'[b] = stored[b] /\ acked'[b] = acked[b]
  BY <1>0 DEF PersistenceType
<1>12. /\ under' \in [Writers -> Waiting]
       /\ \A v \in Writers : under'[v] = <<>> \/ under'[v] = under[v]
  BY <1>0, WaitingIs DEF PersistenceType
<1>13. PersistenceType'
  <2>1. stored' \in [Places -> Seq(Snapshots)] /\ acked' \in [Places -> Promises]
    BY <1>0, <1>1, <1>8, <1>9, <1>10 DEF PersistenceType
  <2>2. taken' \in Nat
    BY <1>1
  <2> QED BY <1>0, <1>1, <1>12, <2>1, <2>2 DEF PersistenceType
<1>14. Numbered(d)'
  <2>1. \A x \in Range(list) :
          x.name >= 1 /\ x.name <= taken + 1 /\ x.at <= clock /\ Place(x.agent) = d
    BY <1>6, <1>8
  <2>2. \A x, y \in Range(list) : x.name = y.name => x = y
    BY <1>6, <1>8
  <2> QED BY <1>9, <1>10, <1>11, <2>1, <2>2 DEF Numbered, Place, NoPromise, Never
<1>15. Kept(d)'
  <2> SUFFICES ASSUME p # NoPromise
               PROVE  /\ mode = "file" => \E x \in Range(list) : x.at >= p.at
                      /\ mode = "memory" => list # <<>> /\ list[1].at >= p.at
                      /\ \A x \in Range(list) : x.at >= p.at => x.read >= p.read
                      /\ \A v \in Writers :
                           under'[v] # <<>> /\ Place(under'[v][1]) = d => under'[v][2] >= p.read
    BY <1>9, <1>11 DEF Kept, Place, NoPromise, Never
  <2>1. mode = "file" => \E x \in Range(list) : x.at >= p.at
    <3>1. mode = "file" => s \in Range(list)
      BY <1>5, <1>8
    <3>2. s.at >= p.at
      BY <1>1, <1>10
    <3> QED BY <3>1, <3>2
  <2>2. mode = "memory" => list # <<>> /\ list[1].at >= p.at
    <3>1. mode = "memory" => list[1].at \in Nat
      BY <1>8, Elements, SnapshotIs
    <3> QED BY <1>1, <1>8, <1>10, <3>1
  <2>3. \A x \in Range(list) : x.at >= p.at => x.read >= p.read
    <3>1. s.read >= p.read
      BY <1>10
    <3>2. \A x \in Range(list) : x \in Range(old) \/ x = s
      BY <1>5, <1>8
    <3> QED BY <1>10, <3>1, <3>2
  <2>4. \A v \in Writers : under'[v] # <<>> /\ Place(under'[v][1]) = d => under'[v][2] >= p.read
    BY <1>10, <1>12
  <2> QED BY <2>1, <2>2, <2>3, <2>4
<1>16. ASSUME NEW b \in Places, b # d
       PROVE  Numbered(b)' /\ Kept(b)'
  <2>1. stored'[b] = stored[b] /\ acked'[b] = acked[b] /\ Numbered(b) /\ Kept(b)
    BY <1>0, <1>11, <1>16
  <2>2. \A x \in Range(stored[b]) : x.name \in Nat
    <3>1. stored[b] \in Seq(Snapshots)
      BY <1>0 DEF PersistenceType
    <3> QED BY <3>1, Elements, SnapshotIs
  <2>3. \A x \in Range(stored[b]) : x.name <= taken => x.name <= taken + 1
    BY <1>1, <2>2
  <2>4. Numbered(b)'
    BY <2>1, <2>3 DEF Numbered, Place, NoPromise, Never
  <2>5. Kept(b)'
    BY <1>12, <2>1 DEF Kept, Place, NoPromise, Never
  <2> QED BY <2>4, <2>5
<1>17. Judged(recovery)' /\ \A v \in Writers : under'[v] # <<>> => under'[v][2] <= clock'
  BY <1>0, <1>12 DEF Judged, NoRecovery
<1> QED BY <1>13, <1>14, <1>15, <1>16, <1>17 DEF PersistenceInv

\* Where the snapshots, the counter and what was promised stay as they are, so does the invariant.
LEMMA NothingStored ==
  ASSUME PersistenceInv, UNCHANGED <<mode, stored, taken, acked>>, clock' \in Nat, clock <= clock',
         clock' <= MaxClock, under' \in [Writers -> Waiting],
         \A w \in Writers : \/ under'[w] = <<>> \/ under'[w] = under[w]
                            \/ \E a \in Hosted : under'[w] = <<a, clock>>,
         engine' \in Engines, Judged(recovery')
  PROVE  PersistenceInv'
<1>1. PersistenceType'
  BY DEF PersistenceInv, PersistenceType
<1>2. /\ clock \in Nat
      /\ \A w \in Writers : under[w] # <<>> => under[w][2] \in Nat /\ under[w][2] <= clock
  BY WaitingIs DEF PersistenceInv, PersistenceType
<1>3. \A w \in Writers : under'[w] # <<>> => under'[w] = under[w] \/ under'[w][2] = clock
  BY <1>2, WaitingIs
<1>4. \A w \in Writers : under'[w] # <<>> => under'[w][2] <= clock'
  BY <1>2, <1>3
<1>5. ASSUME NEW d \in Places
      PROVE  Numbered(d)' /\ Kept(d)'
  <2>1. Numbered(d) /\ Kept(d) /\ stored'[d] = stored[d] /\ acked'[d] = acked[d]
        /\ acked[d].at \in Nat /\ acked[d].read \in Nat
    BY PromiseIs DEF PersistenceInv, PersistenceType
  <2>2. \A x \in Range(stored[d]) : x.at \in Nat
    <3>1. stored[d] \in Seq(Snapshots)
      BY DEF PersistenceInv, PersistenceType
    <3> QED BY <3>1, Elements, SnapshotIs
  <2>3. Numbered(d)'
    BY <1>2, <2>1, <2>2 DEF Numbered, Place, NoPromise, Never
  <2>4. acked[d] # NoPromise => acked[d].read <= clock
    BY <2>1 DEF Numbered
  <2>5. ASSUME acked[d] # NoPromise, NEW w \in Writers, under'[w] # <<>>, Place(under'[w][1]) = d
        PROVE  under'[w][2] >= acked[d].read
    <3>1. CASE under'[w] = under[w]
      BY <2>1, <2>5, <3>1 DEF Kept
    <3>2. CASE under'[w][2] = clock
      BY <1>2, <2>1, <2>4, <2>5, <3>2
    <3> QED BY <1>3, <2>5, <3>1, <3>2
  <2>6. Kept(d)'
    BY <2>1, <2>5 DEF Kept, Place, NoPromise, Never
  <2> QED BY <2>3, <2>6
<1> QED BY <1>1, <1>4, <1>5 DEF PersistenceInv

\* Deleting a snapshot takes back what was promised of its second and the earlier ones.
LEMMA DeleteStep ==
  ASSUME PersistenceInv, NEW d \in Places, NEW s \in Range(stored[d]), DeleteSnapshot(d, s)
  PROVE  PersistenceInv'
<1>0. PersistenceType /\ Numbered(d) /\ Kept(d) /\ Judged(recovery')
  BY DEF PersistenceInv, DeleteSnapshot, Judged, NoRecovery
<1>1. PICK old : old = stored[d]
  OBVIOUS
<1>2. PICK list : list = Retained(old, {t \in Range(old) : t.name # s.name})
  OBVIOUS
<1>3. old \in Seq(Snapshots) /\ s \in Range(old) /\ s.at \in Nat
  BY <1>0, <1>1, Elements, SnapshotIs DEF PersistenceType
<1>4. list \in Seq(Snapshots) /\ \A x : x \in Range(list) <=> x \in Range(old) /\ x.name # s.name
  BY <1>2, <1>3, RetainedRange
<1>5. /\ stored' = [stored EXCEPT ![d] = list]
      /\ acked' = [acked EXCEPT ![d] = IF acked[d].at <= s.at THEN NoPromise ELSE acked[d]]
      /\ UNCHANGED <<mode, clock, under, taken, engine>>
  BY <1>1, <1>2 DEF DeleteSnapshot
<1>6. /\ stored'[d] = list /\ acked'[d] = IF acked[d].at <= s.at THEN NoPromise ELSE acked[d]
      /\ \A b \in Places : b # d => stored'[b] = stored[b] /\ acked'[b] = acked[b]
  BY <1>0, <1>5 DEF PersistenceType
<1>7. PersistenceType'
  <2>1. NoPromise \in Promises
    BY DEF Promises
  <2> QED BY <1>0, <1>4, <1>5, <2>1 DEF PersistenceType
<1>8. Numbered(d)'
  BY <1>0, <1>1, <1>4, <1>5, <1>6 DEF Numbered, Place, NoPromise, Never
<1>9. Kept(d)'
  <2> SUFFICES ASSUME acked'[d] # NoPromise
               PROVE  /\ mode = "file" => \E x \in Range(list) : x.at >= acked[d].at
                      /\ mode = "memory" => list # <<>> /\ list[1].at >= acked[d].at
                      /\ \A x \in Range(list) : x.at >= acked[d].at => x.read >= acked[d].read
                      /\ \A w \in Writers :
                           under[w] # <<>> /\ Place(under[w][1]) = d => under[w][2] >= acked[d].read
    BY <1>5, <1>6 DEF Kept, Place, NoPromise, Never
  <2>1. acked'[d] = acked[d] /\ acked[d] # NoPromise /\ ~(acked[d].at <= s.at) /\ acked[d].at \in Nat
    BY <1>0, <1>6, PromiseIs DEF PersistenceType
  <2>2. ASSUME NEW x \in Range(old), x.at >= acked[d].at
        PROVE  x \in Range(list)
    <3>1. x.at \in Nat
      BY <1>3, Elements, SnapshotIs
    <3>2. x # s
      BY <1>3, <2>1, <2>2, <3>1
    <3> QED BY <1>0, <1>1, <1>3, <1>4, <3>2 DEF Numbered
  <2>3. mode = "file" => \E x \in Range(list) : x.at >= acked[d].at
    BY <1>0, <1>1, <2>1, <2>2 DEF Kept
  <2>4. mode = "memory" => list # <<>> /\ list[1].at >= acked[d].at
    <3> SUFFICES ASSUME mode = "memory" PROVE list # <<>> /\ list[1].at >= acked[d].at
      OBVIOUS
    <3>1. old # <<>> /\ old[1].at >= acked[d].at
      BY <1>0, <1>1, <2>1 DEF Kept
    <3>2. old[1] \in Range(list)
      BY <1>3, <2>2, <3>1, Elements
    <3>3. old[1].name # s.name
      BY <1>4, <3>2
    <3>4. list # <<>> /\ list[1] = old[1]
      <4>1. old[1] \in {t \in Range(old) : t.name # s.name}
        BY <1>3, <3>1, <3>3, Elements
      <4> QED BY <1>2, <1>3, <3>1, <4>1, RetainedHead
    <3> QED BY <3>1, <3>4
  <2>5. /\ \A x \in Range(list) : x.at >= acked[d].at => x.read >= acked[d].read
        /\ \A w \in Writers :
             under[w] # <<>> /\ Place(under[w][1]) = d => under[w][2] >= acked[d].read
    BY <1>0, <1>1, <1>4, <2>1 DEF Kept
  <2> QED BY <2>3, <2>4, <2>5
<1>10. ASSUME NEW b \in Places, b # d
       PROVE  Numbered(b)' /\ Kept(b)'
  BY <1>5, <1>6, <1>10 DEF PersistenceInv, Numbered, Kept, Place, NoPromise, Never
<1>11. \A w \in Writers : under'[w] # <<>> => under'[w][2] <= clock'
  BY <1>5 DEF PersistenceInv
<1> QED BY <1>0, <1>7, <1>8, <1>9, <1>10, <1>11 DEF PersistenceInv

\* A crash loses what was in memory, and with it what was promised of it.
LEMMA CrashStep ==
  ASSUME PersistenceInv, Crash
  PROVE  PersistenceInv'
<1>1. engine' \in Engines /\ Judged(recovery') /\ PersistenceType /\ UNCHANGED <<mode, clock, taken>>
  BY DEF Crash, Engines, Judged, NoRecovery, PersistenceInv
<1>2. under' \in [Writers -> Waiting] /\ \A w \in Writers : under'[w] = <<>>
  BY WaitingIs DEF Crash
<1>3. CASE mode = "file"
  BY <1>1, <1>2, <1>3, NothingStored DEF Crash, PersistenceType
<1>4. CASE mode # "file"
  <2>1. stored' = [d \in Places |-> <<>>] /\ acked' = [d \in Places |-> NoPromise]
    BY <1>4 DEF Crash
  <2>2. PersistenceType'
    <3>1. stored' \in [Places -> Seq(Snapshots)] /\ acked' \in [Places -> Promises]
      BY <2>1 DEF Promises
    <3> QED BY <1>1, <1>2, <3>1 DEF PersistenceType
  <2>3. ASSUME NEW d \in Places
        PROVE  Numbered(d)' /\ Kept(d)'
    <3>1. stored'[d] = <<>> /\ acked'[d] = NoPromise /\ Range(stored'[d]) = {}
      BY <2>1 DEF Range
    <3> QED BY <3>1 DEF Numbered, Kept, NoPromise, Never
  <2> QED BY <1>1, <1>2, <2>2, <2>3 DEF PersistenceInv
<1> QED BY <1>3, <1>4

\* What build_recovery_state says of the conversations it finds.
LEMMA JudgedRight ==
  ASSUME NEW e \in Engines, clock \in Nat
  PROVE  Judged(BuildRecoveryState(e))
<1>1. PICK rec : rec = BuildRecoveryState(e)
  OBVIOUS
<1>2. /\ rec.at = clock
      /\ \A r \in rec.convs : \E a \in Hosted : /\ e.agents[a] # NoSnapshot
                                                /\ \E c \in e.agents[a].talks : r = AnalyzeConversation(c)
  BY <1>1 DEF BuildRecoveryState
<1>3. ASSUME NEW r \in rec.convs
      PROVE  /\ r.conv.kind \in Kinds
             /\ ~r.resume => rec.at - r.conv.last > StaleAfter \/ IsTerminalState(r.conv.state)
  <2>1. PICK a \in Hosted : e.agents[a] # NoSnapshot
                            /\ \E c \in e.agents[a].talks : r = AnalyzeConversation(c)
    BY <1>2, <1>3
  <2>2. PICK c \in e.agents[a].talks : r = AnalyzeConversation(c)
    BY <2>1
  <2>3. e.agents[a] \in Snapshots
    BY <2>1 DEF Engines
  <2>4. c \in Talked
    BY <2>2, <2>3, SnapshotIs
  <2>5. r.conv = c /\ r.resume = (~IsTerminalState(c.state) /\ ~IsStale(c)) /\ c.kind \in Kinds
    BY <2>2, <2>4 DEF AnalyzeConversation, Talked
  <2> QED BY <1>2, <2>5 DEF IsStale
<1> QED BY <1>1, <1>3 DEF Judged

\* A recovery reads, of every place, one of the snapshots that may be its latest, and files it under
\* the agent it is of.
LEMMA RecoverIs ==
  ASSUME PersistenceInv, Recover
  PROVE  /\ engine' \in Engines /\ Judged(recovery')
         /\ recovery'.result = "ok" /\ mode # "off" =>
              /\ recovery' = BuildRecoveryState(engine')
              /\ \A d \in Places : \E s \in Latest(stored[d]) : \A a \in Hosted :
                   Place(a) = d /\ s # NoSnapshot /\ s.agent = a => engine'.agents[a] = s
<1>1. PICK pick \in [Places -> UNION {Latest(stored[d]) : d \in Places}] :
        LET unreadable == {d \in Places : pick[d] # NoSnapshot /\ ~pick[d].readable}
            Given(D) == [engine EXCEPT
              !.platform = @ \/ platform = "saved",
              !.agents = [a \in Hosted |->
                LET s == pick[Place(a)]
                IN  IF Place(a) \in D /\ s # NoSnapshot /\ s.agent = a THEN s ELSE @[a]]]
        IN  /\ \A d \in Places : pick[d] \in Latest(stored[d])
            /\ IF mode = "off"
               THEN engine' = engine /\ recovery' = BuildRecoveryState(engine)
               ELSE IF platform = "torn"
               THEN engine' = engine /\ recovery' = [result |-> "failed"]
               ELSE IF unreadable # {}
               THEN /\ recovery' = [result |-> "failed"]
                    /\ \E D \in SUBSET (Places \ unreadable) : engine' = Given(D)
               ELSE engine' = Given(Places) /\ recovery' = BuildRecoveryState(Given(Places))
  BY DEF Recover
<1> DEFINE unreadable == {d \in Places : pick[d] # NoSnapshot /\ ~pick[d].readable}
           Filed(D, a) == Place(a) \in D /\ pick[Place(a)] # NoSnapshot /\ pick[Place(a)].agent = a
           Given(D) == [engine EXCEPT
             !.platform = @ \/ platform = "saved",
             !.agents = [a \in Hosted |-> IF Filed(D, a) THEN pick[Place(a)] ELSE @[a]]]
<1>2. engine \in Engines /\ clock \in Nat /\ stored \in [Places -> Seq(Snapshots)]
      /\ \A a \in Hosted : Place(a) \in Places
  BY PersistenceAssumption DEF PersistenceInv, PersistenceType, Place, Places, Range
<1>3. \A d \in Places : pick[d] \in Latest(stored[d]) /\ pick[d] \in Snapshots \cup {NoSnapshot}
  <2> SUFFICES ASSUME NEW d \in Places PROVE pick[d] \in Latest(stored[d])
                                             /\ Latest(stored[d]) \subseteq Snapshots \cup {NoSnapshot}
    OBVIOUS
  <2>1. stored[d] \in Seq(Snapshots) /\ pick[d] \in Latest(stored[d])
    BY <1>1, <1>2
  <2> QED BY <2>1, Elements DEF Latest
<1>4. ASSUME NEW D \in SUBSET Places
      PROVE  /\ Given(D) \in Engines
             /\ \A a \in Hosted : Filed(D, a) => Given(D).agents[a] = pick[Place(a)]
  <2> HIDE DEF Filed
  <2>1. PICK new : new = [a \in Hosted |-> IF Filed(D, a) THEN pick[Place(a)] ELSE engine.agents[a]]
    OBVIOUS
  <2>2. new \in [Hosted -> Snapshots \cup {NoSnapshot}]
    BY <1>2, <1>3, <2>1 DEF Engines
  <2>3. Given(D) = [engine EXCEPT !.platform = engine.platform \/ platform = "saved", !.agents = new]
    BY <2>1
  <2> HIDE DEF Given
  <2>4. Given(D).agents = new /\ Given(D) \in Engines
    BY <1>2, <2>2, <2>3 DEF Engines
  <2> QED BY <2>1, <2>4
<1>5. /\ \A d \in Places : pick[d] \in Latest(stored[d])
      /\ IF mode = "off"
         THEN engine' = engine /\ recovery' = BuildRecoveryState(engine)
         ELSE IF platform = "torn"
         THEN engine' = engine /\ recovery' = [result |-> "failed"]
         ELSE IF unreadable # {}
         THEN /\ recovery' = [result |-> "failed"]
              /\ \E D \in SUBSET (Places \ unreadable) : engine' = Given(D)
         ELSE engine' = Given(Places) /\ recovery' = BuildRecoveryState(Given(Places))
  BY <1>1
<1> HIDE DEF Given, unreadable
<1>6. engine' \in Engines
  <2>1. \A D \in SUBSET (Places \ unreadable) : D \in SUBSET Places
    OBVIOUS
  <2> QED BY <1>2, <1>4, <1>5, <2>1
<1>7. recovery' = BuildRecoveryState(engine') \/ recovery' = [result |-> "failed"]
  BY <1>5
<1>8. Judged(recovery')
  <2>1. Judged([result |-> "failed"])
    BY DEF Judged
  <2> QED BY <1>2, <1>6, <1>7, <2>1, JudgedRight
<1>9. ASSUME recovery'.result = "ok", mode # "off"
      PROVE  /\ recovery' = BuildRecoveryState(engine')
             /\ \A d \in Places : \E s \in Latest(stored[d]) : \A a \in Hosted :
                  Place(a) = d /\ s # NoSnapshot /\ s.agent = a => engine'.agents[a] = s
  <2>1. recovery' # [result |-> "failed"]
    BY <1>9
  <2>2. engine' = Given(Places)
    BY <1>5, <1>9, <2>1
  <2>3. ASSUME NEW d \in Places
        PROVE  /\ pick[d] \in Latest(stored[d])
               /\ \A a \in Hosted : Place(a) = d /\ pick[d] # NoSnapshot /\ pick[d].agent = a
                                      => engine'.agents[a] = pick[d]
    BY <1>3, <1>4, <2>2
  <2> QED BY <1>7, <2>1, <2>3
<1> QED BY <1>6, <1>8, <1>9

\* Every step of the manager, of its callers and its background task, of a crash and of a recovery
\* keeps it.
LEMMA PersistenceNext ==
  ASSUME PersistenceInv, [PNext]_pvars
  PROVE  PersistenceInv'
<1>0. /\ clock \in Nat /\ clock <= clock /\ clock <= MaxClock /\ taken \in Nat /\ engine \in Engines
      /\ under \in [Writers -> Waiting] /\ Callers \subseteq Writers /\ "task" \in Writers
      /\ MaxClock \in Nat /\ Judged(NoRecovery) /\ Judged(recovery)
  BY PersistenceAssumption DEF PersistenceInv, PersistenceType, Judged, NoRecovery, Writers
<1>1. CASE UNCHANGED pvars
  BY <1>0, <1>1, NothingStored DEF pvars
<1>2. ASSUME NEW w \in Writers, under' = [under EXCEPT ![w] = <<>>], UNCHANGED <<stored, taken, acked>>,
             UNCHANGED <<mode, clock, engine>>, recovery' = NoRecovery
      PROVE  PersistenceInv'
  <2>1. under' \in [Writers -> Waiting] /\ \A v \in Writers : under'[v] = <<>> \/ under'[v] = under[v]
    BY <1>0, <1>2, WaitingIs
  <2> QED BY <1>0, <1>2, <2>1, NothingStored
<1>3. ASSUME NEW w \in Writers, SnapshotFails(w)
      PROVE  PersistenceInv'
  <2>1. /\ under[w] # <<>> /\ under' = [under EXCEPT ![w] = <<>>] /\ acked' = acked
        /\ engine' = engine /\ recovery' = NoRecovery /\ clock' = clock /\ mode' = mode
    BY <1>3 DEF SnapshotFails
  <2>2. CASE UNCHANGED <<stored, taken>>
    BY <1>2, <2>1, <2>2
  <2>3. CASE ~UNCHANGED <<stored, taken>>
    <3>1. PICK readable \in BOOLEAN :
            /\ stored' = [stored EXCEPT ![Place(under[w][1])] = Store(@, AgentSnapshot(w, readable))]
            /\ taken' = taken + 1
      BY <1>3, <2>3 DEF SnapshotFails
    <3>2. PICK d \in Places : d = Place(under[w][1])
      BY <1>0, <2>1, WaitingIs
    <3>3. PICK s : s = AgentSnapshot(w, readable)
      OBVIOUS
    <3>4. s \in Snapshots /\ s.at = clock /\ s.name = taken + 1 /\ s.agent = under[w][1]
          /\ s.read = under[w][2]
      BY <2>1, <3>3, MadeSnapshot
    <3>5. stored' = [stored EXCEPT ![d] = Store(stored[d], s)]
      BY <3>1, <3>2, <3>3
    <3>6. taken' = taken + 1
      BY <3>1
    <3> QED BY <2>1, <3>2, <3>4, <3>5, <3>6, OneMore
  <2> QED BY <2>2, <2>3
<1>4. ASSUME NEW c \in Callers, SnapshotAgent(c)
      PROVE  PersistenceInv'
  <2>1. /\ under[c] # <<>> /\ under' = [under EXCEPT ![c] = <<>>] /\ taken' = taken + 1
        /\ engine' = engine /\ recovery' = NoRecovery /\ clock' = clock /\ mode' = mode
    BY <1>4 DEF SnapshotAgent
  <2>2. PICK d \in Places : d = Place(under[c][1])
    BY <1>0, <2>1, WaitingIs
  <2>3. PICK s : s = AgentSnapshot(c, TRUE)
    OBVIOUS
  <2>4. s \in Snapshots /\ s.at = clock /\ s.name = taken + 1 /\ s.agent = under[c][1]
        /\ s.read = under[c][2]
    BY <1>0, <2>1, <2>3, MadeSnapshot
  <2>5. /\ stored' = [stored EXCEPT ![d] = Cleanup(Store(stored[d], s))]
        /\ acked' = [acked EXCEPT ![d] = [at |-> clock, read |-> Min(Rivals(d))]]
    BY <1>4, <2>2, <2>3 DEF SnapshotAgent, Put
  <2> QED BY <1>0, <2>1, <2>2, <2>4, <2>5, OneMore
<1>5. ASSUME NEW w \in Writers, NEW a \in Hosted, ReadsState(w, a)
      PROVE  PersistenceInv'
  <2>1. UNCHANGED <<mode, clock, stored, taken, engine, acked>> /\ recovery' = NoRecovery
    BY <1>5 DEF ReadsState
  <2>2. CASE under' = under
    BY <1>0, <2>1, <2>2, NothingStored
  <2>3. CASE under' = [under EXCEPT ![w] = <<a, clock>>]
    <3>1. under' \in [Writers -> Waiting]
          /\ \A v \in Writers : under'[v] = under[v] \/ under'[v] = <<a, clock>>
      BY <1>0, <2>3, WaitingIs
    <3> QED BY <1>0, <2>1, <3>1, NothingStored
  <2> QED BY <1>5, <2>2, <2>3 DEF ReadsState
<1>6. ASSUME NEW d \in Places, NEW s \in Range(stored[d]), DeleteSnapshot(d, s)
      PROVE  PersistenceInv'
  BY <1>6, DeleteStep
<1>7. CASE ClockTicks
  <2>1. clock' \in Nat /\ clock <= clock' /\ clock' <= MaxClock
    BY <1>0, <1>7 DEF ClockTicks
  <2> QED BY <1>0, <1>7, <2>1, NothingStored DEF ClockTicks
<1>8. ASSUME BackgroundStores \/ StopBackground
      PROVE  PersistenceInv'
  <2>1. /\ under["task"] # <<>> /\ under' = [under EXCEPT !["task"] = <<>>] /\ acked' = acked
        /\ engine' = engine /\ recovery' = NoRecovery /\ clock' = clock /\ mode' = mode
    BY <1>8 DEF BackgroundStores, StopBackground
  <2>2. PICK d \in Places : d = Place(under["task"][1])
    BY <1>0, <2>1, WaitingIs
  <2>3. PICK s : s = AgentSnapshot("task", TRUE)
    OBVIOUS
  <2>4. s \in Snapshots /\ s.at = clock /\ s.name = taken + 1 /\ s.agent = under["task"][1]
        /\ s.read = under["task"][2]
    BY <1>0, <2>1, <2>3, MadeSnapshot
  <2>5. CASE BackgroundStores
    <3>1. stored' = [stored EXCEPT ![d] = Cleanup(Store(stored[d], s))] /\ taken' = taken + 1
      BY <2>2, <2>3, <2>5 DEF BackgroundStores, Put
    <3> QED BY <1>0, <2>1, <2>2, <2>4, <3>1, OneMore
  <2>6. CASE UNCHANGED <<stored, taken>>
    BY <1>0, <1>2, <2>1, <2>6
  <2>7. CASE StopBackground /\ ~UNCHANGED <<stored, taken>>
    <3>1. stored' = [stored EXCEPT ![d] = Store(stored[d], s)] /\ taken' = taken + 1
      BY <2>2, <2>3, <2>7 DEF StopBackground
    <3> QED BY <1>0, <2>1, <2>2, <2>4, <3>1, OneMore
  <2> QED BY <1>8, <2>5, <2>6, <2>7
\* Both take the number of a snapshot and store none.
<1>9. ASSUME SavePlatform \/ SaveServices
      PROVE  PersistenceInv'
  <2>1. /\ UNCHANGED <<mode, clock, stored, under, engine, acked>> /\ taken' = taken + 1
        /\ recovery' = NoRecovery
    BY <1>9 DEF SavePlatform, SaveServices
  <2>2. PersistenceType'
    BY <1>0, <2>1 DEF PersistenceInv, PersistenceType
  <2>3. ASSUME NEW d \in Places
        PROVE  Numbered(d)' /\ Kept(d)'
    <3>1. \A x \in Range(stored[d]) : x.name \in Nat
      <4>1. stored[d] \in Seq(Snapshots)
        BY DEF PersistenceInv, PersistenceType
      <4> QED BY <4>1, Elements, SnapshotIs
    <3>2. \A i \in Nat : i <= taken => i <= taken + 1
      BY <1>0
    <3> QED BY <2>1, <3>1, <3>2 DEF PersistenceInv, Numbered, Kept, Place, NoPromise, Never
  <2>4. \A w \in Writers : under'[w] # <<>> => under'[w][2] <= clock'
    BY <2>1 DEF PersistenceInv
  <2> QED BY <1>0, <2>1, <2>2, <2>3, <2>4 DEF PersistenceInv
<1>10. CASE Crash
  BY <1>10, CrashStep
<1>11. CASE Recover
  <2>1. engine' \in Engines /\ Judged(recovery')
    BY <1>11, RecoverIs
  <2>2. UNCHANGED <<mode, clock, stored, under, taken, acked>>
    BY <1>11 DEF Recover
  <2> QED BY <1>0, <2>1, <2>2, NothingStored
<1> QED BY <1>1, <1>3, <1>4, <1>5, <1>6, <1>7, <1>8, <1>9, <1>10, <1>11 DEF PNext

\* No table has a row that leaves a state recovery takes for an end.
LEMMA TerminalStatesEnd ==
  ASSUME NEW p \in Kinds, NEW s, IsTerminalState(s)
  PROVE  ~\E row \in Rows(p, TRUE) : row[1] = s
<1> SUFFICES ASSUME NEW row \in Rows(p, TRUE) PROVE ~IsTerminalState(row[1])
  OBVIOUS
<1>1. CASE p = "Request"
  BY <1>1 DEF Rows, RequestRows, Row, IsTerminalState
<1>2. CASE p = "Query"
  BY <1>2 DEF Rows, QueryRows, Row, IsTerminalState
<1>3. CASE p = "ContractNet"
  BY <1>3 DEF Rows, ContractNetRows, Row, IsTerminalState
<1>4. CASE p = "Subscribe"
  BY <1>4 DEF Rows, SubscribeRows, Row, IsTerminalState
<1>5. CASE p = "Propose"
  BY <1>5 DEF Rows, ProposeRows, Row, IsTerminalState
<1>6. CASE p = "EnglishAuction"
  BY <1>6 DEF Rows, EnglishRows, Row, IsTerminalState
<1>7. CASE p = "DutchAuction"
  BY <1>7 DEF Rows, DutchRows, Row, IsTerminalState
<1>8. CASE p = "IteratedContractNet"
  BY <1>8 DEF Rows, IteratedRows, Row, IsTerminalState
<1>9. CASE p = "Brokering"
  BY <1>9 DEF Rows, BrokeringRows, Row, IsTerminalState
<1>10. CASE p = "Recruiting"
  BY <1>10 DEF Rows, RecruitingRows, Row, IsTerminalState
<1> QED BY <1>1, <1>2, <1>3, <1>4, <1>5, <1>6, <1>7, <1>8, <1>9, <1>10 DEF Kinds

(* For every agent and every list of conversations passed to snapshot_agent:
   a conversation that recovery calls not resumable is stale or in a state
   that no row of its protocol's table leads out of (is_terminal_state looks
   for words in the state's name, for all ten protocols alike). *)
THEOREM LiveConversationsResumeHolds == PSpec => []LiveConversationsResume
<1>1. PersistenceInv => LiveConversationsResume
  BY TerminalStatesEnd DEF PersistenceInv, Judged, LiveConversationsResume
<1> QED BY <1>1, PersistenceInit, PersistenceNext, PTL DEF PSpec

\* The latest of a place's snapshots keeps what was promised of it.
LEMMA LatestKept ==
  ASSUME PersistenceInv, mode \in {"file", "memory"}, NEW d \in Places, acked[d] # NoPromise,
         NEW s \in Latest(stored[d])
  PROVE  /\ s # NoSnapshot /\ s.agent \in Hosted /\ Place(s.agent) = d
         /\ s.at >= acked[d].at /\ s.read >= acked[d].read
<1>1. stored[d] \in Seq(Snapshots) /\ Kept(d) /\ Numbered(d) /\ acked[d].at \in Nat
  BY PromiseIs DEF PersistenceInv, PersistenceType
<1>2. s \in Range(stored[d]) /\ s.at >= acked[d].at
  <2>1. CASE mode = "file"
    <3>1. PICK x \in Range(stored[d]) : x.at >= acked[d].at
      BY <1>1, <2>1 DEF Kept
    <3>2. s \in Range(stored[d]) /\ x.at <= s.at
      BY <1>1, <2>1, <3>1, Elements DEF Latest
    <3>3. s \in Snapshots /\ x \in Snapshots
      BY <1>1, <3>1, <3>2, Elements
    <3> QED BY <1>1, <3>1, <3>2, <3>3, SnapshotIs
  <2>2. CASE mode = "memory"
    <3>1. stored[d] # <<>> /\ stored[d][1].at >= acked[d].at /\ s = stored[d][1]
      BY <1>1, <2>2, Elements DEF Kept, Latest
    <3> QED BY <1>1, <3>1, Elements
  <2> QED BY <2>1, <2>2
<1>3. s.read >= acked[d].read
  BY <1>1, <1>2 DEF Kept
<1>4. s \in Snapshots /\ Place(s.agent) = d
  BY <1>1, <1>2, Elements DEF Numbered
<1> QED BY <1>2, <1>3, <1>4, SnapshotIs

(* For every set of names, whichever of them share a directory, and every
   number of callers: whatever was stored on request or by the background
   task, aborted, torn, cleaned up or deleted in between, and after any number
   of crashes, a recovery that succeeds gives a snapshot of each place in which
   snapshot_agent last reported one that no deletion took back.  It is from no
   earlier second, and its state is not older than the reported one and all
   that were being stored at the same time. *)
THEOREM RecoversTheAcknowledgedHolds == PSpec => RecoversTheAcknowledged
<1> DEFINE Given == recovery'.result = "ok" /\ mode # "off" =>
                      \A d \in Places : acked[d] # NoPromise =>
                        \E a \in Hosted : /\ Place(a) = d /\ a \in DOMAIN recovery'.agents
                                          /\ recovery'.agents[a].at >= acked[d].at
                                          /\ recovery'.agents[a].read >= acked[d].read
           Modes == mode \in {"file", "memory", "off"}
<1>1. PInit => Modes
  BY DEF PInit
<1>2. Modes /\ [PNext]_pvars => Modes'
  BY DEF PNext, pvars, SnapshotFails, ReadsState, SnapshotAgent, DeleteSnapshot, ClockTicks,
         BackgroundStores, StopBackground, SavePlatform, SaveServices, Crash, Recover
<1>3. PersistenceInv /\ Modes /\ [PNext]_pvars => [Given]_pvars
  <2> SUFFICES ASSUME PersistenceInv, Modes, PNext, recovery'.result = "ok", mode # "off",
                      NEW d \in Places, acked[d] # NoPromise
               PROVE  \E a \in Hosted : /\ Place(a) = d /\ a \in DOMAIN recovery'.agents
                                        /\ recovery'.agents[a].at >= acked[d].at
                                        /\ recovery'.agents[a].read >= acked[d].read
    OBVIOUS
  <2>1. recovery' # NoRecovery
    BY DEF NoRecovery
  <2>2. Recover
    BY <2>1 DEF PNext, SnapshotFails, ReadsState, SnapshotAgent, DeleteSnapshot, ClockTicks,
                BackgroundStores, StopBackground, SavePlatform, SaveServices, Crash
  <2>3. recovery' = BuildRecoveryState(engine')
        /\ \E s \in Latest(stored[d]) : \A a \in Hosted :
             Place(a) = d /\ s # NoSnapshot /\ s.agent = a => engine'.agents[a] = s
    BY <2>2, RecoverIs
  <2>4. PICK s \in Latest(stored[d]) : \A a \in Hosted :
          Place(a) = d /\ s # NoSnapshot /\ s.agent = a => engine'.agents[a] = s
    BY <2>3
  <2>5. /\ s # NoSnapshot /\ s.agent \in Hosted /\ Place(s.agent) = d
        /\ s.at >= acked[d].at /\ s.read >= acked[d].read
    BY LatestKept
  <2>6. engine'.agents[s.agent] = s
    BY <2>4, <2>5
  <2>7. recovery'.agents = [b \in {b \in Hosted : engine'.agents[b] # NoSnapshot} |-> engine'.agents[b]]
    BY <2>3 DEF BuildRecoveryState
  <2>8. s.agent \in DOMAIN recovery'.agents /\ recovery'.agents[s.agent] = s
    BY <2>5, <2>6, <2>7
  <2> QED BY <2>5, <2>8
<1> HIDE DEF Given, Modes
<1>4. PSpec => [][Given]_pvars
  BY <1>1, <1>2, <1>3, PersistenceInit, PersistenceNext, PTL DEF PSpec
<1> QED BY <1>4 DEF RecoversTheAcknowledged, Given

-----------------------------------------------------------------------------
(* The replicated directory *)

\* A set of places in a list, or none, has a last one.
LEMMA LastPlace ==
  ASSUME NEW k \in Nat, NEW places \in SUBSET (0 .. k), places # {}
  PROVE  Max(places) \in places /\ \A y \in places : y <= Max(places)
<1> DEFINE T == {x \in Nat : \E y \in places : y = k - x}
<1>1. PICK y \in places : TRUE
  OBVIOUS
<1>2. k - y \in T
  OBVIOUS
<1>3. T # {} /\ T \subseteq Nat
  BY <1>2
<1>4. PICK n \in T : \A x \in T : n <= x
  BY <1>3, LeastNat
<1>5. PICK z \in places : z = k - n
  BY <1>4
<1>6. ASSUME NEW w \in places
      PROVE  z >= w
  <2>1. k - w \in T
    OBVIOUS
  <2> QED BY <1>4, <1>5, <2>1
<1>7. \E x \in places : \A w \in places : x >= w
  BY <1>5, <1>6
<1> HIDE DEF T
<1>8. Max(places) \in places /\ \A w \in places : Max(places) >= w
  BY <1>7 DEF Max
<1> QED BY <1>8

\* The requests about an agent, and about an offer.
AboutAgent(r, f) == r.op \in {"register", "unregister"} /\ r.agent = f
AboutOffer(r, t, p) == r.op \in {"offer", "withdraw"} /\ r.type = t /\ r.provider = p

\* The agents are where the last of the first k requests about them put them.
AgentsReflect(A, log, k) ==
  /\ \A x \in A : \E i \in 1 .. k :
       /\ log[i].op = "register" /\ log[i].agent = x.agent /\ log[i].node = x.node
       /\ \A j \in i + 1 .. k : ~AboutAgent(log[j], x.agent)
  /\ \A i \in 1 .. k :
       /\ log[i].op = "register"
       /\ \A j \in i + 1 .. k : ~AboutAgent(log[j], log[i].agent)
       => \E x \in A : x.agent = log[i].agent

\* The services are those offered and not withdrawn after.
OffersReflect(O, log, k) ==
  /\ \A x \in O : \E i \in 1 .. k :
       /\ log[i].op = "offer" /\ log[i].type = x.type /\ log[i].provider = x.provider
       /\ \A j \in i + 1 .. k : ~AboutOffer(log[j], x.type, x.provider)
  /\ \A i \in 1 .. k :
       /\ log[i].op = "offer"
       /\ \A j \in i + 1 .. k : ~AboutOffer(log[j], log[i].type, log[i].provider)
       => \E x \in O : x.type = log[i].type /\ x.provider = log[i].provider

\* A state is the one that a beginning of the log defines.
Reflects(s, log) ==
  /\ {"agents", "services", "applied", "members"} \subseteq DOMAIN s
  /\ s.applied \in 0 .. Len(log)
  /\ AgentsReflect(s.agents, log, s.applied)
  /\ OffersReflect(s.services, log, s.applied)

\* What a request e makes of the agents A and, on the node here, of the services O.
AgentsAfter(A, e, B) ==
  \/ e.op \notin {"register", "unregister"} /\ B = A
  \/ e.op = "register" /\ B = {x \in A : x.agent # e.agent} \cup {[agent |-> e.agent, node |-> e.node]}
  \/ e.op = "unregister" /\ B = {x \in A : x.agent # e.agent}
OffersAfter(O, e, B, here) ==
  \/ e.op \notin {"offer", "withdraw"} /\ B = O
  \/ /\ e.op = "offer"
     /\ B = {x \in O : ~(x.type = e.type /\ x.provider = e.provider)}
              \cup {[type |-> e.type, provider |-> e.provider, node |-> here]}
  \/ e.op = "withdraw" /\ B = {x \in O : ~(x.type = e.type /\ x.provider = e.provider)}

\* One request more, about the agents.
LEMMA AgentsApply ==
  ASSUME NEW A, NEW log, NEW k \in Nat, AgentsReflect(A, log, k), NEW B,
         AgentsAfter(A, log[k + 1], B)
  PROVE  AgentsReflect(B, log, k + 1)
<1> DEFINE e == log[k + 1]
           new == [agent |-> e.agent, node |-> e.node]
<1>1. /\ k + 1 \in 1 .. k + 1 /\ \A i \in 1 .. k + 1 : i \in 1 .. k \/ i = k + 1
      /\ \A i \in 1 .. k : i \in 1 .. k + 1 /\ k + 1 \in i + 1 .. k + 1
      /\ \A i \in 1 .. k : \A j \in i + 1 .. k + 1 : j \in i + 1 .. k \/ j = k + 1
      /\ \A i \in 1 .. k : \A j \in i + 1 .. k : j \in i + 1 .. k + 1
      /\ \A j \in (k + 1) + 1 .. k + 1 : FALSE
  OBVIOUS
<1>2. ASSUME NEW x \in B
      PROVE  \E i \in 1 .. k + 1 :
               /\ log[i].op = "register" /\ log[i].agent = x.agent /\ log[i].node = x.node
               /\ \A j \in i + 1 .. k + 1 : ~AboutAgent(log[j], x.agent)
  <2>1. CASE x \in A /\ (e.op \in {"register", "unregister"} => x.agent # e.agent)
    <3>1. PICK i \in 1 .. k :
            /\ log[i].op = "register" /\ log[i].agent = x.agent /\ log[i].node = x.node
            /\ \A j \in i + 1 .. k : ~AboutAgent(log[j], x.agent)
      BY <2>1 DEF AgentsReflect
    <3>2. ~AboutAgent(log[k + 1], x.agent)
      BY <2>1 DEF AboutAgent
    <3> QED BY <1>1, <3>1, <3>2
  <2>2. CASE e.op = "register" /\ x = new
    BY <1>1, <2>2
  <2> QED BY <1>2, <2>1, <2>2 DEF AgentsAfter
<1>3. ASSUME NEW i \in 1 .. k + 1, log[i].op = "register",
             \A j \in i + 1 .. k + 1 : ~AboutAgent(log[j], log[i].agent)
      PROVE  \E x \in B : x.agent = log[i].agent
  <2>1. CASE i = k + 1
    <3>1. new \in B /\ new.agent = log[i].agent
      BY <1>3, <2>1 DEF AgentsAfter
    <3> QED BY <3>1
  <2>2. CASE i \in 1 .. k
    <3>1. PICK x \in A : x.agent = log[i].agent
      BY <1>1, <1>3, <2>2 DEF AgentsReflect
    <3>2. ~AboutAgent(log[k + 1], log[i].agent)
      BY <1>1, <1>3, <2>2
    <3>3. x \in B
      BY <3>1, <3>2 DEF AboutAgent, AgentsAfter
    <3> QED BY <3>1, <3>3
  <2> QED BY <1>1, <2>1, <2>2
<1> QED BY <1>2, <1>3 DEF AgentsReflect

\* One request more, about the services.
LEMMA OffersApply ==
  ASSUME NEW O, NEW log, NEW k \in Nat, OffersReflect(O, log, k), NEW B, NEW here,
         OffersAfter(O, log[k + 1], B, here)
  PROVE  OffersReflect(B, log, k + 1)
<1> DEFINE e == log[k + 1]
           new == [type |-> e.type, provider |-> e.provider, node |-> here]
<1>1. /\ k + 1 \in 1 .. k + 1 /\ \A i \in 1 .. k + 1 : i \in 1 .. k \/ i = k + 1
      /\ \A i \in 1 .. k : i \in 1 .. k + 1 /\ k + 1 \in i + 1 .. k + 1
      /\ \A i \in 1 .. k : \A j \in i + 1 .. k + 1 : j \in i + 1 .. k \/ j = k + 1
      /\ \A i \in 1 .. k : \A j \in i + 1 .. k : j \in i + 1 .. k + 1
      /\ \A j \in (k + 1) + 1 .. k + 1 : FALSE
  OBVIOUS
<1>2. ASSUME NEW x \in B
      PROVE  \E i \in 1 .. k + 1 :
               /\ log[i].op = "offer" /\ log[i].type = x.type /\ log[i].provider = x.provider
               /\ \A j \in i + 1 .. k + 1 : ~AboutOffer(log[j], x.type, x.provider)
  <2>1. CASE x \in O /\ (e.op \in {"offer", "withdraw"} => ~(x.type = e.type /\ x.provider = e.provider))
    <3>1. PICK i \in 1 .. k :
            /\ log[i].op = "offer" /\ log[i].type = x.type /\ log[i].provider = x.provider
            /\ \A j \in i + 1 .. k : ~AboutOffer(log[j], x.type, x.provider)
      BY <2>1 DEF OffersReflect
    <3>2. ~AboutOffer(log[k + 1], x.type, x.provider)
      BY <2>1 DEF AboutOffer
    <3> QED BY <1>1, <3>1, <3>2
  <2>2. CASE e.op = "offer" /\ x = new
    BY <1>1, <2>2
  <2> QED BY <1>2, <2>1, <2>2 DEF OffersAfter
<1>3. ASSUME NEW i \in 1 .. k + 1, log[i].op = "offer",
             \A j \in i + 1 .. k + 1 : ~AboutOffer(log[j], log[i].type, log[i].provider)
      PROVE  \E x \in B : x.type = log[i].type /\ x.provider = log[i].provider
  <2>1. CASE i = k + 1
    <3>1. new \in B /\ new.type = log[i].type /\ new.provider = log[i].provider
      BY <1>3, <2>1 DEF OffersAfter
    <3> QED BY <3>1
  <2>2. CASE i \in 1 .. k
    <3>1. PICK x \in O : x.type = log[i].type /\ x.provider = log[i].provider
      BY <1>1, <1>3, <2>2 DEF OffersReflect
    <3>2. ~AboutOffer(log[k + 1], log[i].type, log[i].provider)
      BY <1>1, <1>3, <2>2
    <3>3. x \in B
      BY <3>1, <3>2 DEF AboutOffer, OffersAfter
    <3> QED BY <3>1, <3>3
  <2> QED BY <1>1, <2>1, <2>2
<1> QED BY <1>2, <1>3 DEF OffersReflect

\* Applying the next entry of the log, on whatever node, whatever the entry: a request, a change of
\* membership or nothing that can be decoded.
LEMMA EntryReflects ==
  ASSUME NEW s, NEW log, Len(log) \in Nat, Reflects(s, log), NEW here, NEW i, i = s.applied + 1,
         i <= Len(log)
  PROVE  Reflects(ApplyEntry(s, i, log[i], here), log)
         /\ ApplyEntry(s, i, log[i], here).applied = i
<1>1. PICK k \in Nat : k = s.applied
  BY DEF Reflects
<1>2. PICK e : e = log[i]
  OBVIOUS
<1>3. PICK y : y = ApplyEntry(s, i, e, here)
  OBVIOUS
<1>4. PICK t : t = [s EXCEPT !.applied = i]
  OBVIOUS
<1>5. /\ DOMAIN t = DOMAIN s /\ t.applied = i /\ t.agents = s.agents /\ t.services = s.services
      /\ {"agents", "services", "applied", "members"} \subseteq DOMAIN t
  BY <1>4 DEF Reflects
<1>6. \/ e.op \in {"blank", "undecodable"} /\ y = t
      \/ e.op = "membership" /\ y = [t EXCEPT !.members = i]
      \/ e.op \notin {"blank", "undecodable", "membership"} /\ y = ApplyRequest(t, e, here)
  BY <1>3, <1>4 DEF ApplyEntry
<1>7. /\ {"agents", "services", "applied", "members"} \subseteq DOMAIN y /\ y.applied = i
      /\ AgentsAfter(s.agents, e, y.agents) /\ OffersAfter(s.services, e, y.services, here)
  <2> USE DEF AgentsAfter, OffersAfter
  <2>1. CASE e.op \in {"blank", "undecodable"}
    BY <1>5, <1>6, <2>1
  <2>2. CASE e.op = "membership"
    BY <1>5, <1>6, <2>2
  <2>3. CASE e.op = "register"
    <3>1. y = [t EXCEPT !.agents = {x \in t.agents : x.agent # e.agent}
                                     \cup {[agent |-> e.agent, node |-> e.node]}]
      BY <1>6, <2>3 DEF ApplyRequest
    <3> QED BY <1>5, <2>3, <3>1
  <2>4. CASE e.op = "unregister"
    <3>1. y = [t EXCEPT !.agents = {x \in t.agents : x.agent # e.agent}]
      BY <1>6, <2>4 DEF ApplyRequest
    <3> QED BY <1>5, <2>4, <3>1
  <2>5. CASE e.op = "offer"
    <3>1. y = [t EXCEPT !.services =
                 {x \in t.services : ~(x.type = e.type /\ x.provider = e.provider)}
                   \cup {[type |-> e.type, provider |-> e.provider, node |-> here]}]
      BY <1>6, <2>5 DEF ApplyRequest
    <3> QED BY <1>5, <2>5, <3>1
  <2>6. CASE e.op = "withdraw"
    <3>1. y = [t EXCEPT !.services =
                 {x \in t.services : ~(x.type = e.type /\ x.provider = e.provider)}]
      BY <1>6, <2>6 DEF ApplyRequest
    <3> QED BY <1>5, <2>6, <3>1
  <2>7. CASE e.op \notin {"blank", "undecodable", "membership", "register", "unregister", "offer",
                          "withdraw"}
    <3>1. y = t
      BY <1>6, <2>7 DEF ApplyRequest
    <3> QED BY <1>5, <2>7, <3>1
  <2> QED BY <2>1, <2>2, <2>3, <2>4, <2>5, <2>6, <2>7
<1>8. i = k + 1 /\ log[k + 1] = e /\ AgentsReflect(s.agents, log, k) /\ OffersReflect(s.services, log, k)
  BY <1>1, <1>2 DEF Reflects
<1>9. AgentsReflect(y.agents, log, k + 1)
  BY <1>7, <1>8, AgentsApply
<1>10. OffersReflect(y.services, log, k + 1)
  BY <1>7, <1>8, OffersApply
<1>11. i \in 0 .. Len(log)
  BY <1>1, <1>8
<1>12. Reflects(y, log)
  <2>1. y.applied = k + 1 /\ y.applied \in 0 .. Len(log)
    BY <1>7, <1>8, <1>11
  <2>2. AgentsReflect(y.agents, log, y.applied) /\ OffersReflect(y.services, log, y.applied)
    BY <1>9, <1>10, <2>1
  <2> QED BY <1>7, <2>1, <2>2 DEF Reflects
<1>13. ApplyEntry(s, i, log[i], here) = y
  BY <1>2, <1>3
<1> QED BY <1>7, <1>12, <1>13

\* A longer log has the same beginnings.
LEMMA LongerLog ==
  ASSUME NEW log \in Seq(Commands), NEW e \in Commands, NEW s, Reflects(s, log)
  PROVE  Reflects(s, Append(log, e))
<1>1. PICK more : more = Append(log, e)
  OBVIOUS
<1>2. /\ Len(log) \in Nat /\ Len(more) = Len(log) + 1 /\ \A i \in 1 .. Len(log) : more[i] = log[i]
  BY <1>1
<1>3. PICK k \in 0 .. Len(log) : k = s.applied
  BY DEF Reflects
<1>4. /\ k \in Nat /\ k \in 0 .. Len(more)
      /\ \A i \in 1 .. k : more[i] = log[i]
      /\ \A i \in 1 .. k : \A j \in i + 1 .. k : j \in 1 .. k
  BY <1>2
<1>5. AgentsReflect(s.agents, log, k) /\ OffersReflect(s.services, log, k)
  BY <1>3 DEF Reflects
<1>6. AgentsReflect(s.agents, more, k)
  BY <1>4, <1>5 DEF AgentsReflect
<1>7. OffersReflect(s.services, more, k)
  BY <1>4, <1>5 DEF OffersReflect
<1> QED BY <1>1, <1>3, <1>4, <1>6, <1>7 DEF Reflects

\* The fold of apply_to_state_machine: a function that applies, of every set of the batch's places,
\* the entries there in order.
Applications(g, st, log, here, batch, D) ==
  g = [p \in D |-> IF p = {} THEN st
                   ELSE ApplyEntry(g[p \ {Max(p)}], batch[Max(p)], log[batch[Max(p)]], here)]

\* There is such a function, by induction on the places.
LEMMA ApplicationsExist ==
  ASSUME NEW st, NEW log, NEW here, NEW batch, NEW n \in Nat
  PROVE  \E g : Applications(g, st, log, here, batch, SUBSET (1 .. n))
<1> DEFINE Good == {k \in Nat : \E g : Applications(g, st, log, here, batch, SUBSET (1 .. k))}
<1>1. 0 \in Good
  <2>1. Applications([p \in SUBSET (1 .. 0) |-> st], st, log, here, batch, SUBSET (1 .. 0))
    <3>1. \A p \in SUBSET (1 .. 0) : p = {}
      OBVIOUS
    <3> QED BY <3>1 DEF Applications
  <2> QED BY <2>1
<1>2. ASSUME NEW k \in Nat, k \in Good
      PROVE  k + 1 \in Good
  <2>1. PICK g : Applications(g, st, log, here, batch, SUBSET (1 .. k))
    BY <1>2
  <2>2. PICK h : h = [p \in SUBSET (1 .. k + 1) |->
                        IF k + 1 \in p
                        THEN ApplyEntry(g[p \ {k + 1}], batch[k + 1], log[batch[k + 1]], here)
                        ELSE g[p]]
    OBVIOUS
  <2>3. ASSUME NEW p \in SUBSET (1 .. k + 1)
        PROVE  h[p] = IF p = {} THEN st
                      ELSE ApplyEntry(h[p \ {Max(p)}], batch[Max(p)], log[batch[Max(p)]], here)
    <3>1. CASE k + 1 \in p
      <4>1. Max(p) = k + 1 /\ p # {}
        BY <3>1, MaxOfUpTo
      <4>2. p \ {k + 1} \in SUBSET (1 .. k) /\ p \ {k + 1} \in SUBSET (1 .. k + 1)
        OBVIOUS
      <4>3. h[p \ {k + 1}] = g[p \ {k + 1}]
        BY <2>2, <4>2
      <4>4. h[p] = ApplyEntry(g[p \ {k + 1}], batch[k + 1], log[batch[k + 1]], here)
        BY <2>2, <3>1
      <4> QED BY <4>1, <4>3, <4>4
    <3>2. CASE k + 1 \notin p
      <4>1. p \in SUBSET (1 .. k)
        BY <3>2
      <4>2. g[p] = IF p = {} THEN st
                   ELSE ApplyEntry(g[p \ {Max(p)}], batch[Max(p)], log[batch[Max(p)]], here)
        BY <2>1, <4>1 DEF Applications
      <4>3. h[p] = g[p]
        BY <2>2, <3>2
      <4>4. p # {} => h[p \ {Max(p)}] = g[p \ {Max(p)}]
        BY <2>2, <3>2
      <4> QED BY <4>2, <4>3, <4>4
    <3> QED BY <3>1, <3>2
  <2>4. Applications(h, st, log, here, batch, SUBSET (1 .. k + 1))
    <3>1. h = [p \in SUBSET (1 .. k + 1) |-> h[p]]
      BY <2>2
    <3>2. [p \in SUBSET (1 .. k + 1) |-> h[p]]
            = [p \in SUBSET (1 .. k + 1) |->
                 IF p = {} THEN st
                 ELSE ApplyEntry(h[p \ {Max(p)}], batch[Max(p)], log[batch[Max(p)]], here)]
      BY <2>3
    <3> QED BY <3>1, <3>2 DEF Applications
  <2> QED BY <2>4
<1>3. Nat \subseteq Good
  <2> HIDE DEF Good
  <2> QED BY <1>1, <1>2, NatSetInduction
<1> QED BY <1>3

\* The entries of a batch, applied to a state.
Applied(st, log, here, batch) ==
  FoldLeft(LAMBDA s, i : ApplyEntry(s, i, log[i], here), st, batch)

\* Applying a batch is that function at all the batch's places.
LEMMA AppliedIs ==
  ASSUME NEW st, NEW log, NEW here, NEW batch
  PROVE  Applied(st, log, here, batch)
           = (CHOOSE g : Applications(g, st, log, here, batch, SUBSET DOMAIN batch))[DOMAIN batch]
BY DEF Applied, FoldLeft, MapThenFoldSet, Applications

\* at[i]: the state after the first i entries of the batch.
AppliedBy(at, st, log, here, batch) ==
  /\ at[0] = st
  /\ \A i \in 1 .. Len(batch) : at[i] = ApplyEntry(at[i - 1], batch[i], log[batch[i]], here)

\* So applying a batch is a run along it, one entry at a time.
LEMMA AppliedRuns ==
  ASSUME NEW st, NEW log, NEW here, NEW X, NEW batch \in Seq(X)
  PROVE  \E at : AppliedBy(at, st, log, here, batch) /\ Applied(st, log, here, batch) = at[Len(batch)]
<1> DEFINE n == Len(batch)
<1>1. n \in Nat /\ DOMAIN batch = 1 .. n
  OBVIOUS
<1> HIDE DEF n
<1>2. PICK g : /\ Applications(g, st, log, here, batch, SUBSET (1 .. n))
               /\ Applied(st, log, here, batch) = g[1 .. n]
  <2>1. \E g : Applications(g, st, log, here, batch, SUBSET (1 .. n))
    BY <1>1, ApplicationsExist
  <2>2. PICK g : g = CHOOSE h : Applications(h, st, log, here, batch, SUBSET (1 .. n))
    OBVIOUS
  <2>3. Applications(g, st, log, here, batch, SUBSET (1 .. n))
    BY <2>1, <2>2
  <2>4. Applied(st, log, here, batch) = g[1 .. n]
    BY <1>1, <2>2, AppliedIs
  <2> QED BY <2>3, <2>4
<1>3. PICK at : at = [i \in 0 .. n |-> g[1 .. i]]
  OBVIOUS
<1>4. at[0] = st
  <2>1. 1 .. 0 = {} /\ {} \in SUBSET (1 .. n) /\ 0 \in 0 .. n
    BY <1>1
  <2> QED BY <1>2, <1>3, <2>1 DEF Applications
<1>5. ASSUME NEW i \in 1 .. n
      PROVE  at[i] = ApplyEntry(at[i - 1], batch[i], log[batch[i]], here)
  <2>1. /\ i - 1 \in Nat /\ i \in 0 .. n /\ i - 1 \in 0 .. n
        /\ 1 .. i \in SUBSET (1 .. n) /\ 1 .. i # {}
        /\ (1 .. i) \ {i} = 1 .. i - 1 /\ Max(1 .. i) = i
    BY <1>1, UpTo
  <2>2. g[1 .. i] = ApplyEntry(g[(1 .. i) \ {Max(1 .. i)}], batch[Max(1 .. i)],
                               log[batch[Max(1 .. i)]], here)
    <3>1. PICK p : p = 1 .. i
      OBVIOUS
    <3>2. p \in SUBSET (1 .. n) /\ p # {}
      BY <2>1, <3>1
    <3>3. g[p] = ApplyEntry(g[p \ {Max(p)}], batch[Max(p)], log[batch[Max(p)]], here)
      BY ONLY <1>2, <3>2 DEF Applications
    <3> QED BY <3>1, <3>3
  <2> QED BY <1>3, <2>1, <2>2
<1>6. at[n] = Applied(st, log, here, batch)
  BY <1>1, <1>2, <1>3
<1> QED BY <1>4, <1>5, <1>6 DEF AppliedBy, n

\* Applying the entries from the first one not applied to k.
LEMMA BatchReflects ==
  ASSUME NEW s, NEW log, Len(log) \in Nat, Reflects(s, log), NEW here,
         NEW k \in s.applied + 1 .. Len(log), NEW other,
         \A i \in s.applied + 1 .. k : other[i] = log[i]
  PROVE  LET first == s.applied + 1
             new == Applied(s, other, here, [j \in 1 .. k - first + 1 |-> first + j - 1])
         IN  Reflects(new, log) /\ new.applied = k
<1>1. PICK b \in Nat : b = s.applied
  BY DEF Reflects
<1>2. PICK d \in Nat : d = k - b
  BY <1>1
<1>3. k = b + d /\ b + d <= Len(log) /\ k - (b + 1) + 1 = d
  BY <1>1, <1>2
<1>4. PICK batch : batch = [j \in 1 .. d |-> (b + 1) + j - 1]
  OBVIOUS
<1>5. batch \in Seq(Nat) /\ Len(batch) = d /\ \A j \in 1 .. d : batch[j] = b + j
  BY <1>4
<1>6. PICK at : /\ at[0] = s /\ Applied(s, other, here, batch) = at[d]
                /\ \A i \in 1 .. d : at[i] = ApplyEntry(at[i - 1], batch[i], other[batch[i]], here)
  <2>1. PICK at : AppliedBy(at, s, other, here, batch) /\ Applied(s, other, here, batch) = at[Len(batch)]
    BY <1>5, AppliedRuns
  <2> QED BY <1>5, <2>1 DEF AppliedBy
<1> DEFINE Good == {i \in Nat : i <= d => Reflects(at[i], log) /\ at[i].applied = b + i}
<1>7. 0 \in Good
  BY <1>1, <1>6
<1>8. ASSUME NEW i \in Nat, i \in Good
      PROVE  i + 1 \in Good
  <2> SUFFICES ASSUME i + 1 <= d
               PROVE  Reflects(at[i + 1], log) /\ at[i + 1].applied = b + (i + 1)
    OBVIOUS
  <2>1. Reflects(at[i], log) /\ at[i].applied = b + i
    BY <1>2, <1>8
  <2>2. PICK x : x = at[i]
    OBVIOUS
  <2>3. PICK c \in Nat : c = b + (i + 1)
    OBVIOUS
  <2>4. /\ i + 1 \in 1 .. d /\ (i + 1) - 1 = i /\ c = x.applied + 1 /\ c <= Len(log)
        /\ c \in b + 1 .. k
    BY <1>3, <2>1, <2>2, <2>3
  <2>5. batch[i + 1] = c /\ other[c] = log[c]
    BY <1>1, <1>5, <2>3, <2>4
  <2>6. at[i + 1] = ApplyEntry(x, c, log[c], here)
    BY <1>6, <2>2, <2>4, <2>5
  <2>7. Reflects(ApplyEntry(x, c, log[c], here), log) /\ ApplyEntry(x, c, log[c], here).applied = c
    BY <2>1, <2>2, <2>4, EntryReflects
  <2> QED BY <2>3, <2>6, <2>7
<1>9. d \in Good
  <2> HIDE DEF Good
  <2> QED BY <1>7, <1>8, NatSetInduction
<1>10. Reflects(at[d], log) /\ at[d].applied = k
  BY <1>2, <1>3, <1>9
<1> QED BY <1>1, <1>3, <1>4, <1>6, <1>10

\* What a state that reflects the log shows is the directory of the beginning it applied.
LEMMA ShownIs ==
  ASSUME NEW log \in Seq(Commands), NEW s, Reflects(s, log)
  PROVE  Shown(s) = Abstract!DirectoryOf(SubSeq(log, 1, s.applied))
<1>1. PICK k \in 0 .. Len(log) : k = s.applied
  BY DEF Reflects
<1>2. PICK q : q = SubSeq(log, 1, k)
  OBVIOUS
<1>3. /\ Len(log) \in Nat /\ k \in Nat /\ Len(q) = k /\ \A i \in 1 .. k : q[i] = log[i] /\ log[i] \in Commands
  BY <1>2
<1>4. AgentsReflect(s.agents, log, k) /\ OffersReflect(s.services, log, k)
  BY <1>1 DEF Reflects
<1> DEFINE AgentPlaces(f) == {0} \cup {i \in 1 .. k : AboutAgent(q[i], f)}
           OfferPlaces(o) == {0} \cup {i \in 1 .. k : q[i].op \in {"offer", "withdraw"}
                                                      /\ <<q[i].type, q[i].provider>> = o}
           AgentNames == {e.agent : e \in {c \in Commands : c.op \in {"register", "unregister"}}}
           Offers == {<<r.type, r.provider>> : r \in {c \in Commands : c.op \in {"offer", "withdraw"}}}
           Node(f) == IF \E e \in s.agents : e.agent = f
                      THEN (CHOOSE e \in s.agents : e.agent = f).node ELSE 0
<1>5. Abstract!DirectoryOf(q) =
        [agents |-> [f \in AgentNames |-> IF Max(AgentPlaces(f)) = 0 \/ q[Max(AgentPlaces(f))].op = "unregister"
                                     THEN 0 ELSE q[Max(AgentPlaces(f))].node],
         offers |-> {o \in Offers : Max(OfferPlaces(o)) # 0 /\ q[Max(OfferPlaces(o))].op = "offer"}]
  BY <1>3 DEF Abstract!DirectoryOf, Abstract!LastAbout, Abstract!Fingerprints, Abstract!Offers,
              Abstract!Nowhere, AboutAgent, Max, Abstract!Max
<1>6. Shown(s) = [agents |-> [f \in AgentNames |-> Node(f)],
                  offers |-> {<<e.type, e.provider>> : e \in s.services}]
  BY DEF Shown
<1>7. ASSUME NEW f \in AgentNames
      PROVE  Node(f) = IF Max(AgentPlaces(f)) = 0 \/ q[Max(AgentPlaces(f))].op = "unregister"
                       THEN 0 ELSE q[Max(AgentPlaces(f))].node
  <2>1. PICK i : i = Max(AgentPlaces(f))
    OBVIOUS
  <2>2. i \in AgentPlaces(f) /\ \A j \in AgentPlaces(f) : j <= i
    <3>1. AgentPlaces(f) \in SUBSET (0 .. k) /\ AgentPlaces(f) # {}
      BY <1>3
    <3> QED BY <1>3, <2>1, <3>1, LastPlace
  <2>3. ASSUME NEW x \in s.agents, x.agent = f
        PROVE  i # 0 /\ q[i].op = "register" /\ x.node = q[i].node
    <3>1. PICK j \in 1 .. k :
            /\ log[j].op = "register" /\ log[j].agent = f /\ log[j].node = x.node
            /\ \A l \in j + 1 .. k : ~AboutAgent(log[l], f)
      BY <1>4, <2>3 DEF AgentsReflect
    <3>2. j \in AgentPlaces(f)
      BY <1>3, <3>1 DEF AboutAgent
    <3>3. i \in 1 .. k /\ j <= i /\ AboutAgent(log[i], f)
      BY <1>3, <2>2, <3>2
    <3>4. i = j
      BY <1>3, <3>1, <3>3
    <3> QED BY <1>3, <3>1, <3>3, <3>4
  <2>4. ASSUME i # 0, q[i].op # "unregister"
        PROVE  \E x \in s.agents : x.agent = f
    <3>1. i \in 1 .. k /\ log[i].op = "register" /\ log[i].agent = f
      BY <1>3, <2>2, <2>4 DEF AboutAgent
    <3>2. \A l \in i + 1 .. k : ~AboutAgent(log[l], f)
      <4> SUFFICES ASSUME NEW l \in i + 1 .. k, AboutAgent(log[l], f) PROVE FALSE
        OBVIOUS
      <4>1. l \in 1 .. k /\ l > i
        BY <1>3, <3>1
      <4>2. l \in AgentPlaces(f)
        BY <1>3, <4>1
      <4> QED BY <1>3, <2>2, <3>1, <4>1, <4>2
    <3> QED BY <1>4, <3>1, <3>2 DEF AgentsReflect
  <2>5. CASE \E x \in s.agents : x.agent = f
    <3>1. PICK x : x = CHOOSE e \in s.agents : e.agent = f
      OBVIOUS
    <3>2. x \in s.agents /\ x.agent = f
      BY <2>5, <3>1
    <3>3. Node(f) = x.node
      BY <2>5, <3>1
    <3>4. i # 0 /\ q[i].op = "register" /\ x.node = q[i].node
      BY <2>3, <3>2
    <3> HIDE DEF Node, AgentPlaces
    <3> QED BY <2>1, <3>3, <3>4
  <2>6. CASE ~\E x \in s.agents : x.agent = f
    <3>1. i = 0 \/ q[i].op = "unregister"
      BY <2>4, <2>6
    <3> QED BY <2>1, <2>6, <3>1
  <2> QED BY <2>5, <2>6
<1>8. ASSUME NEW x \in s.services
      PROVE  LET o == <<x.type, x.provider>>
             IN  o \in Offers /\ Max(OfferPlaces(o)) # 0 /\ q[Max(OfferPlaces(o))].op = "offer"
  <2>0. PICK o : o = <<x.type, x.provider>>
    OBVIOUS
  <2>1. PICK j \in 1 .. k :
          /\ log[j].op = "offer" /\ log[j].type = x.type /\ log[j].provider = x.provider
          /\ \A l \in j + 1 .. k : ~AboutOffer(log[l], x.type, x.provider)
    BY <1>4 DEF OffersReflect
  <2>2. PICK i : i = Max(OfferPlaces(o))
    OBVIOUS
  <2>3. i \in OfferPlaces(o) /\ \A l \in OfferPlaces(o) : l <= i
    <3>1. OfferPlaces(o) \in SUBSET (0 .. k) /\ OfferPlaces(o) # {}
      BY <1>3
    <3> QED BY <1>3, <2>2, <3>1, LastPlace
  <2>4. j \in OfferPlaces(o)
    BY <1>3, <2>0, <2>1
  <2>5. i \in 1 .. k /\ j <= i /\ AboutOffer(log[i], x.type, x.provider)
    BY <1>3, <2>0, <2>3, <2>4 DEF AboutOffer
  <2>6. i = j
    BY <1>3, <2>1, <2>5
  <2>7. o \in Offers
    BY <1>3, <2>0, <2>1
  <2>8. i # 0 /\ q[i].op = "offer"
    BY <1>3, <2>1, <2>5, <2>6
  <2> HIDE DEF OfferPlaces, Offers
  <2> QED BY <2>0, <2>2, <2>7, <2>8
<1>9. ASSUME NEW o \in Offers, Max(OfferPlaces(o)) # 0, q[Max(OfferPlaces(o))].op = "offer"
      PROVE  \E x \in s.services : o = <<x.type, x.provider>>
  <2>1. PICK i : i = Max(OfferPlaces(o))
    OBVIOUS
  <2>2. i \in OfferPlaces(o) /\ \A l \in OfferPlaces(o) : l <= i
    <3>1. OfferPlaces(o) \in SUBSET (0 .. k) /\ OfferPlaces(o) # {}
      BY <1>3
    <3> QED BY <1>3, <2>1, <3>1, LastPlace
  <2>3. i \in 1 .. k /\ log[i].op = "offer" /\ <<log[i].type, log[i].provider>> = o
    BY <1>3, <1>9, <2>1, <2>2
  <2>4. \A l \in i + 1 .. k : ~AboutOffer(log[l], log[i].type, log[i].provider)
    <3> SUFFICES ASSUME NEW l \in i + 1 .. k, AboutOffer(log[l], log[i].type, log[i].provider) PROVE FALSE
      OBVIOUS
    <3>1. l \in 1 .. k /\ l > i
      BY <1>3, <2>3
    <3>2. l \in OfferPlaces(o)
      BY <1>3, <2>3, <3>1 DEF AboutOffer
    <3> QED BY <1>3, <2>2, <2>3, <3>1, <3>2
  <2>5. PICK x \in s.services : x.type = log[i].type /\ x.provider = log[i].provider
    BY <1>4, <2>3, <2>4 DEF OffersReflect
  <2> QED BY <2>3, <2>5
<1> HIDE DEF AgentPlaces, OfferPlaces, AgentNames, Offers, Node
<1>10. {<<e.type, e.provider>> : e \in s.services}
         = {o \in Offers : Max(OfferPlaces(o)) # 0 /\ q[Max(OfferPlaces(o))].op = "offer"}
  BY <1>8, <1>9
<1>11. Shown(s) = Abstract!DirectoryOf(q)
  BY <1>5, <1>6, <1>7, <1>10
<1> QED BY <1>1, <1>2, <1>11

\* Every node, and every snapshot on its way, holds the directory that a beginning of what the
\* cluster committed defines.
ReplicaInv ==
  /\ committed \in Seq(Commands)
  /\ state = [n \in Nodes |-> state[n]]
  /\ \A n \in Nodes : Reflects(state[n], committed)
  /\ \A s \in snapshots : Reflects(s, committed)

\* What a step may be for the directory.
Moves ==
  \/ UNCHANGED <<committed, state>>
  \/ \E e \in Commands : committed' = Append(committed, e) /\ UNCHANGED state
  \/ /\ UNCHANGED committed
     /\ \E n \in Nodes : \E new :
          /\ state' = [state EXCEPT ![n] = new]
          /\ new.applied = 0 \/ new.applied \in state[n].applied + 1 .. Len(committed)

\* A node that starts again holds the directory of no request at all.
LEMMA EmptyReflects ==
  ASSUME NEW log \in Seq(Commands)
  PROVE  Reflects(EmptyState, log) /\ EmptyState.applied = 0
<1>1. PICK s : s = EmptyState
  OBVIOUS
<1>2. /\ {"agents", "services", "applied", "members"} \subseteq DOMAIN s
      /\ s.applied = 0 /\ s.agents = {} /\ s.services = {} /\ 0 \in 0 .. Len(log)
  BY <1>1 DEF EmptyState
<1>3. AgentsReflect({}, log, 0) /\ OffersReflect({}, log, 0)
  BY DEF AgentsReflect, OffersReflect
<1> QED BY <1>1, <1>2, <1>3 DEF Reflects

\* Every node starts so.
LEMMA ReplicaInit ==
  ASSUME RInit
  PROVE  ReplicaInv
<1>1. committed \in Seq(Commands) /\ snapshots = {} /\ state = [n \in Nodes |-> EmptyState]
  BY DEF RInit
<1> QED BY <1>1, EmptyReflects DEF ReplicaInv

\* A node takes another state that reflects the committed requests.
LEMMA StateReplaced ==
  ASSUME ReplicaInv, UNCHANGED committed, NEW n \in Nodes, NEW new, Reflects(new, committed),
         state' = [state EXCEPT ![n] = new], snapshots' \subseteq snapshots
  PROVE  ReplicaInv'
<1>1. /\ state' = [m \in Nodes |-> state'[m]]
      /\ \A m \in Nodes : state'[m] = state[m] \/ state'[m] = new
  BY DEF ReplicaInv
<1> QED BY <1>1 DEF ReplicaInv

\* A commit makes the log longer.
LEMMA CommitMoves ==
  ASSUME ReplicaInv, NEW e \in Commands, Commit(e)
  PROVE  ReplicaInv' /\ Moves
<1>1. committed' = Append(committed, e) /\ UNCHANGED <<state, snapshots>>
  BY DEF Commit
<1>2. committed \in Seq(Commands) /\ committed' \in Seq(Commands)
  BY <1>1 DEF ReplicaInv
<1>3. \A s : Reflects(s, committed) => Reflects(s, committed')
  BY <1>1, <1>2, LongerLog
<1> QED BY <1>1, <1>2, <1>3 DEF ReplicaInv, Moves

\* Steps that neither commit nor give a node another state.
LEMMA Untouched ==
  ASSUME ReplicaInv, UNCHANGED <<committed, state>>, snapshots' \subseteq snapshots \cup {state[n] : n \in Nodes}
  PROVE  ReplicaInv' /\ Moves
BY DEF ReplicaInv, Moves

\* Applying what is committed takes the node to that place of the log, whatever else its own log holds.
LEMMA ApplyMoves ==
  ASSUME ReplicaInv, NEW n \in Nodes, NEW k \in Int, ApplyToStateMachine(n, k)
  PROVE  ReplicaInv' /\ Moves
<1>1. Reflects(state[n], committed) /\ Len(committed) \in Nat
  BY DEF ReplicaInv
<1>2. state[n].applied \in Nat
  BY <1>1 DEF Reflects
<1>3. PICK first : first = state[n].applied + 1
  OBVIOUS
<1>4. PICK new : new = Applied(state[n], cache[n], n, [j \in 1 .. k - first + 1 |-> first + j - 1])
  OBVIOUS
<1>5. /\ first <= k /\ k <= Len(committed)
      /\ \A i \in first .. k : cache[n][i] = committed[i]
      /\ state' = [state EXCEPT ![n] = new]
      /\ UNCHANGED <<committed, snapshots>>
  <2>1. state' = [state EXCEPT ![n] =
          FoldLeft(LAMBDA s, i : ApplyEntry(s, i, cache[n][i], n), state[n],
                   [j \in 1 .. k - first + 1 |-> first + j - 1])]
    BY <1>3 DEF ApplyToStateMachine
  <2>2. new = FoldLeft(LAMBDA s, i : ApplyEntry(s, i, cache[n][i], n), state[n],
                       [j \in 1 .. k - first + 1 |-> first + j - 1])
    BY <1>4 DEF Applied
  <2>3. state' = [state EXCEPT ![n] = new]
    BY <2>1, <2>2
  <2> QED BY <1>3, <2>3 DEF ApplyToStateMachine
<1>6. k \in state[n].applied + 1 .. Len(committed)
  BY <1>1, <1>2, <1>3, <1>5
<1>7. Reflects(new, committed) /\ new.applied = k
  <2>1. PICK b : b = state[n]
    OBVIOUS
  <2>2. /\ Reflects(b, committed) /\ k \in b.applied + 1 .. Len(committed)
        /\ \A i \in b.applied + 1 .. k : cache[n][i] = committed[i]
    BY <1>1, <1>3, <1>5, <1>6, <2>1
  <2>3. PICK c : c = Applied(b, cache[n], n,
                             [j \in 1 .. k - (b.applied + 1) + 1 |-> (b.applied + 1) + j - 1])
    OBVIOUS
  <2>4. Reflects(c, committed) /\ c.applied = k
    BY ONLY <1>1, <2>2, <2>3, BatchReflects
  <2>5. new = c
    BY <1>3, <1>4, <2>1, <2>3
  <2> QED BY ONLY <2>4, <2>5
<1>8. ReplicaInv'
  BY <1>5, <1>7, StateReplaced
<1> QED BY <1>5, <1>6, <1>7, <1>8 DEF Moves

\* A snapshot, however late it arrives, moves a node forward only.
LEMMA InstallMoves ==
  ASSUME ReplicaInv, NEW n \in Nodes, NEW s \in snapshots, InstallSnapshot(n, s)
  PROVE  ReplicaInv' /\ Moves
<1>1. /\ s.applied > state[n].applied /\ state' = [state EXCEPT ![n] = s]
      /\ snapshots' \subseteq snapshots /\ UNCHANGED committed
  BY DEF InstallSnapshot
<1>2. Reflects(s, committed) /\ Reflects(state[n], committed) /\ Len(committed) \in Nat
  BY DEF ReplicaInv
<1>3. s.applied \in state[n].applied + 1 .. Len(committed)
  BY <1>1, <1>2 DEF Reflects
<1>4. ReplicaInv'
  BY <1>1, <1>2, StateReplaced
<1> QED BY <1>1, <1>3, <1>4 DEF Moves

\* A restart starts the node again.
LEMMA RestartMoves ==
  ASSUME ReplicaInv, NEW n \in Nodes, RestartNode(n)
  PROVE  ReplicaInv' /\ Moves
<1>1. state' = [state EXCEPT ![n] = EmptyState] /\ UNCHANGED <<committed, snapshots>>
  BY DEF RestartNode
<1>2. Reflects(EmptyState, committed) /\ EmptyState.applied = 0
  BY EmptyReflects DEF ReplicaInv
<1>3. ReplicaInv'
  BY <1>1, <1>2, StateReplaced
<1> QED BY <1>1, <1>2, <1>3 DEF Moves

\* Every step of the store and of its metadata, then.
LEMMA ReplicaStep ==
  ASSUME ReplicaInv, [StoreNext \/ MetaNext]_rvars
  PROVE  ReplicaInv' /\ Moves
<1>1. CASE UNCHANGED rvars
  BY <1>1, Untouched DEF rvars
<1>2. ASSUME NEW e \in Commands, Commit(e)
      PROVE  ReplicaInv' /\ Moves
  BY <1>2, CommitMoves
<1>3. ASSUME NEW n \in Nodes, NEW e, AppendToLog(n, e)
      PROVE  ReplicaInv' /\ Moves
  <2>1. UNCHANGED <<committed, state, snapshots>>
    BY <1>3 DEF AppendToLog
  <2> QED BY <2>1, Untouched
<1>4. ASSUME NEW n \in Nodes, NEW i \in 1 .. MaxLog, DeleteConflictLogsSince(n, i) \/ PurgeLogsUpto(n, i)
      PROVE  ReplicaInv' /\ Moves
  <2>1. UNCHANGED <<committed, state, snapshots>>
    BY <1>4 DEF DeleteConflictLogsSince, PurgeLogsUpto, RemoveLogs
  <2> QED BY <2>1, Untouched
<1>5. ASSUME NEW n \in Nodes, NEW i \in 1 .. MaxLog, ApplyToStateMachine(n, i)
      PROVE  ReplicaInv' /\ Moves
  <2>1. i \in Int
    OBVIOUS
  <2> QED BY <1>5, <2>1, ApplyMoves
<1>6. ASSUME NEW n \in Nodes, BuildSnapshot(n)
      PROVE  ReplicaInv' /\ Moves
  <2>1. /\ UNCHANGED <<committed, state>>
        /\ snapshots' \subseteq snapshots \cup {state[m] : m \in Nodes}
    BY <1>6 DEF BuildSnapshot
  <2> QED BY <2>1, Untouched
<1>7. ASSUME NEW n \in Nodes, NEW s \in snapshots, InstallSnapshot(n, s)
      PROVE  ReplicaInv' /\ Moves
  BY <1>7, InstallMoves
<1>8. ASSUME NEW n \in Nodes, RestartNode(n)
      PROVE  ReplicaInv' /\ Moves
  BY <1>8, RestartMoves
<1>9. ASSUME NEW n \in Nodes, NEW i, SaveVote(n, i) \/ SaveCommitted(n, i)
      PROVE  ReplicaInv' /\ Moves
  <2>1. UNCHANGED <<committed, state, snapshots>>
    BY <1>9 DEF SaveVote, SaveCommitted
  <2> QED BY <2>1, Untouched
<1> QED BY <1>1, <1>2, <1>3, <1>4, <1>5, <1>6, <1>7, <1>8, <1>9 DEF StoreNext, MetaNext

\* No prefix is shorter than the empty one.
LEMMA NothingYet ==
  ASSUME NEW log \in Seq(Commands)
  PROVE  SubSeq(log, 1, 0) = <<>>
OBVIOUS

\* What the nodes show is the directory of the prefix each applied.
LEMMA AllShown ==
  ASSUME ReplicaInv
  PROVE  \A n \in Nodes : Shown(state[n]) = Abstract!DirectoryOf(SubSeq(committed, 1, state[n].applied))
BY ShownIs DEF ReplicaInv

\* The first state maps to one of the abstract directory.
LEMMA InitMaps ==
  ASSUME RInit
  PROVE  Abstract!Init
<1>1. committed = <<>> /\ committed \in Seq(Commands) /\ state = [n \in Nodes |-> EmptyState]
  BY DEF RInit
<1>2. \A n \in Nodes : state[n].applied = 0
  BY <1>1, EmptyReflects
<1>3. \A n \in Nodes : Shown(state[n]) = Abstract!DirectoryOf(<<>>)
  BY <1>1, <1>2, ReplicaInit, AllShown, NothingYet
<1> QED BY <1>1, <1>2, <1>3 DEF Abstract!Init

\* Every step maps to one of the abstract directory, or to none.
LEMMA StepMaps ==
  ASSUME ReplicaInv, ReplicaInv', Moves
  PROVE  \/ Abstract!Next
         \/ UNCHANGED <<committed, [n \in Nodes |-> state[n].applied], [n \in Nodes |-> Shown(state[n])]>>
<1> DEFINE at == [n \in Nodes |-> state[n].applied]
           shown == [n \in Nodes |-> Shown(state[n])]
<1>1. CASE UNCHANGED <<committed, state>>
  BY <1>1 DEF Shown
<1>2. ASSUME NEW e \in Commands, committed' = Append(committed, e), UNCHANGED state
      PROVE  Abstract!Next
  <2>1. Abstract!Agree(e)
    BY <1>2 DEF Abstract!Agree, Shown
  <2> QED BY <2>1 DEF Abstract!Next
<1>3. ASSUME NEW n \in Nodes, NEW new, UNCHANGED committed, state' = [state EXCEPT ![n] = new],
             new.applied = 0 \/ new.applied \in state[n].applied + 1 .. Len(committed)
      PROVE  Abstract!Next
  <2>1. /\ state = [m \in Nodes |-> state[m]] /\ committed \in Seq(Commands)
        /\ Reflects(state[n], committed)
    BY DEF ReplicaInv
  <2>2. state' = [m \in Nodes |-> IF m = n THEN new ELSE state[m]]
    BY <1>3, <2>1
  <2>3. \A m \in Nodes : state'[m] = IF m = n THEN new ELSE state[m]
    BY <2>2
  <2>4. at' = [at EXCEPT ![n] = new.applied]
    BY <2>3
  <2>5. shown' = [shown EXCEPT ![n] = Shown(new)]
    <3>1. \A m \in Nodes : Shown(state[m])' = IF m = n THEN Shown(new) ELSE Shown(state[m])
      BY <2>3 DEF Shown
    <3> QED BY <3>1
  <2>6. Reflects(new, committed)
    BY <1>3, <2>3 DEF ReplicaInv
  <2>7. Shown(new) = Abstract!DirectoryOf(SubSeq(committed, 1, new.applied))
    BY <2>1, <2>6, ShownIs
  <2>8. CASE new.applied = 0
    <3>1. Shown(new) = Abstract!DirectoryOf(<<>>)
      BY <2>1, <2>7, <2>8, NothingYet
    <3>2. Abstract!StartAgain(n)
      BY <1>3, <2>4, <2>5, <2>8, <3>1 DEF Abstract!StartAgain
    <3> QED BY <3>2 DEF Abstract!Next
  <2>9. CASE new.applied \in state[n].applied + 1 .. Len(committed)
    <3>1. at[n] = state[n].applied /\ at[n] \in Nat /\ Len(committed) \in Nat
      BY <2>1 DEF Reflects
    <3>2. Abstract!Advance(n, new.applied)
      BY <1>3, <2>4, <2>5, <2>7, <2>9, <3>1 DEF Abstract!Advance
    <3>3. new.applied \in 1 .. Len(committed)
      BY <2>9, <3>1
    <3> QED BY <3>2, <3>3 DEF Abstract!Next
  <2> QED BY <1>3, <2>8, <2>9
<1> QED BY <1>1, <1>2, <1>3 DEF Moves

\* Through appends, conflicts, purges, snapshots that arrive late or twice and restarts, every node
\* shows the directory that the committed requests up to its last applied one define: the store
\* implements the replicated directory, for every set of nodes and requests and every bound.
THEOREM ImplementsDirectoryHolds == RSpec => ImplementsDirectory
<1>1. RInit => ReplicaInv /\ Abstract!Init
  BY ReplicaInit, InitMaps
<1>2. ReplicaInv /\ [StoreNext \/ MetaNext]_rvars
        => /\ ReplicaInv'
           /\ [Abstract!Next]_<<committed, [n \in Nodes |-> state[n].applied],
                                [n \in Nodes |-> Shown(state[n])]>>
  BY ReplicaStep, StepMaps
<1> QED BY <1>1, <1>2, PTL DEF RSpec, ImplementsDirectory, Abstract!Spec
=============================================================================
