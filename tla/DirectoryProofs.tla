--------------------------- MODULE DirectoryProofs ---------------------------
(***************************************************************************)
(* Theorems about Directory, for every set of nodes, every number of moves *)
(* and messages, and every order in which they arrive.                     *)
(***************************************************************************)
EXTENDS Directory, TLAPS

Messages(n) == [gate : Gates, kind : {"bind", "talk"}, node : Nodes, epoch : 0 .. MaxEpoch,
                handoff : Nodes \cup {None}, nonce : 1 .. n]

\* TypeOK, with the bound on nonces that makes it inductive.
DirInv == TypeOK /\ nonce <= 1 + Epoch + MaxTalk

\* The first state is well typed.
LEMMA InitDirInv == Init => DirInv
  BY DirectoryAssumption DEF Init, DirInv, TypeOK, Epoch, Msg, Gates, Records, NoRecord

\* The agent's host is a node.
LEMMA HostType == TypeOK => Host \in Nodes /\ Epoch \in Nat
  BY DEF TypeOK, Host, Epoch, Last

\* The nonce window stays within its length.
LEMMA RememberType ==
  ASSUME NEW k \in Nat, NEW s \in Seq(1 .. k), Len(s) <= Window, NEW n \in 1 .. k
  PROVE  Remember(s, n) \in Seq(1 .. k) /\ Len(Remember(s, n)) <= Window
<1> DEFINE t == Append(s, n)
<1>1. t \in Seq(1 .. k) /\ Len(t) = Len(s) + 1 /\ t # <<>>
  OBVIOUS
<1> HIDE DEF t
<1>2. Tail(t) \in Seq(1 .. k) /\ Len(Tail(t)) = Len(t) - 1
  BY <1>1
<1>3. Remember(s, n) = IF Len(t) > Window THEN Tail(t) ELSE t
  BY DEF Remember, t
<1>4. Len(s) \in Nat /\ Len(t) \in Nat /\ Window \in Nat
  BY <1>1, DirectoryAssumption
<1>5. CASE Len(t) > Window
  <2>1. Remember(s, n) = Tail(t)
    BY <1>3, <1>5
  <2>2. Len(t) - 1 <= Window
    BY <1>1, <1>4
  <2> QED BY <1>2, <2>1, <2>2
<1>6. CASE ~ (Len(t) > Window)
  <2>1. Remember(s, n) = t
    BY <1>3, <1>6
  <2>2. Len(t) <= Window
    BY <1>4, <1>6
  <2> QED BY <1>1, <2>1, <2>2
<1> QED BY <1>5, <1>6

\* What the gate does with a message is well typed.
LEMMA PassType ==
  ASSUME TypeOK, NEW m \in Messages(nonce), Pass(m) \/ Reject(m)
  PROVE  /\ keys' \in [Gates -> Nodes \cup {None}]
         /\ seen' \in [Gates -> Seq(1 .. nonce)]
         /\ \A g \in Gates : Len(seen'[g]) <= Window
         /\ rec' \in Records
         /\ route' \in Nodes \cup {None}
<1> USE DEF TypeOK
<1>1. m.gate \in Gates /\ m.node \in Nodes /\ m.nonce \in 1 .. nonce /\ m.epoch \in Nat
  BY DEF Messages
<1>2. CASE Reject(m)
  BY <1>2 DEF Reject
<1>3. CASE Pass(m)
  <2>1. keys' \in [Gates -> Nodes \cup {None}]
    BY <1>1, <1>3 DEF Pass
  <2>2. CASE m.nonce \in Range(seen[m.gate])
    BY <1>1, <1>3, <2>1, <2>2 DEF Pass
  <2>3. CASE m.nonce \notin Range(seen[m.gate])
    <3>1. seen' = [seen EXCEPT ![m.gate] = Remember(seen[m.gate], m.nonce)] /\ Effect(m)
      BY <1>1, <1>3, <2>3 DEF Pass
    <3>2. /\ Remember(seen[m.gate], m.nonce) \in Seq(1 .. nonce)
          /\ Len(Remember(seen[m.gate], m.nonce)) <= Window
      BY <1>1, RememberType
    <3>3. seen' \in [Gates -> Seq(1 .. nonce)] /\ \A g \in Gates : Len(seen'[g]) <= Window
      BY <3>1, <3>2
    <3>4. rec' \in Records /\ route' \in Nodes \cup {None}
      BY <1>1, <3>1 DEF Effect, Records
    <3> QED BY <2>1, <3>3, <3>4
  <2> QED BY <2>2, <2>3
<1> QED BY <1>2, <1>3

\* Every step keeps the invariant.
LEMMA StepDirInv == DirInv /\ [Next]_vars => DirInv'
<1> SUFFICES ASSUME DirInv, [Next]_vars
             PROVE  DirInv'
  OBVIOUS
<1> USE DirectoryAssumption
<1>0. Host \in Nodes /\ Epoch \in Nat /\ Epoch = Len(hist) - 1 /\ Len(hist) \in Nat
  BY HostType DEF DirInv, TypeOK, Epoch
<1>1. ASSUME NEW n \in Nodes, Move(n)
      PROVE  DirInv'
  <2>1. hist' \in Seq(Nodes) /\ hist' # <<>> /\ Len(hist') = Len(hist) + 1
    BY <1>1 DEF Move, DirInv, TypeOK
  <2>2. Epoch' = Epoch + 1 /\ Epoch' <= MaxEpoch
    BY <1>0, <1>1, <2>1 DEF Move, Epoch
  <2>3. nonce' = nonce + 1 /\ nonce' <= 1 + Epoch' + MaxTalk /\ nonce' \in 1 .. 1 + MaxEpoch + MaxTalk
    BY <1>0, <1>1, <2>2 DEF Move, DirInv, TypeOK
  <2>4. wire' \subseteq Messages(nonce')
    <3>1. wire \subseteq Messages(nonce)
      BY DEF DirInv, TypeOK, Messages
    <3>2. Messages(nonce) \subseteq Messages(nonce')
      BY <2>3 DEF Messages, DirInv, TypeOK
    <3>3. Msg("ams", "bind", n, Epoch + 1, Host, nonce + 1) \in Messages(nonce')
      BY <1>0, <2>2, <2>3 DEF Msg, Messages, Gates, DirInv, TypeOK
    <3> QED BY <1>1, <3>1, <3>2, <3>3 DEF Move
  <2>5. seen' \in [Gates -> Seq(1 .. nonce')] /\ \A g \in Gates : Len(seen'[g]) <= Window
    <3>1. Seq(1 .. nonce) \subseteq Seq(1 .. nonce')
      BY <2>3 DEF DirInv, TypeOK
    <3> QED BY <1>1, <3>1 DEF Move, DirInv, TypeOK
  <2> QED BY <1>1, <2>1, <2>2, <2>3, <2>4, <2>5 DEF Move, DirInv, TypeOK, Messages
<1>2. ASSUME NEW h \in Gates, Talk(h)
      PROVE  DirInv'
  <2>1. hist' = hist /\ Epoch' = Epoch
    BY <1>2 DEF Talk, Epoch
  <2>2. nonce' = nonce + 1 /\ nonce' <= 1 + Epoch' + MaxTalk /\ nonce' \in 1 .. 1 + MaxEpoch + MaxTalk
    BY <1>0, <1>2, <2>1 DEF Talk, DirInv, TypeOK
  <2>3. wire' \subseteq Messages(nonce')
    <3>1. wire \subseteq Messages(nonce)
      BY DEF DirInv, TypeOK, Messages
    <3>2. Messages(nonce) \subseteq Messages(nonce')
      BY <2>2 DEF Messages, DirInv, TypeOK
    <3>3. Msg(h, "talk", Host, 0, None, nonce + 1) \in Messages(nonce')
      BY <1>0, <2>2 DEF Msg, Messages, DirInv, TypeOK
    <3> QED BY <1>2, <3>1, <3>2, <3>3 DEF Talk
  <2>4. seen' \in [Gates -> Seq(1 .. nonce')] /\ \A g \in Gates : Len(seen'[g]) <= Window
    <3>1. Seq(1 .. nonce) \subseteq Seq(1 .. nonce')
      BY <2>2 DEF DirInv, TypeOK
    <3> QED BY <1>2, <3>1 DEF Talk, DirInv, TypeOK
  <2> QED BY <1>2, <2>1, <2>2, <2>3, <2>4 DEF Talk, DirInv, TypeOK, Messages
<1>3. ASSUME NEW m \in wire, AcceptWire(m) \/ AcceptWireTwice(m)
      PROVE  DirInv'
  <2>1. m \in Messages(nonce)
    BY DEF DirInv, TypeOK, Messages
  <2>2. (Pass(m) \/ Reject(m)) /\ calm' \in BOOLEAN /\ hist' = hist /\ nonce' = nonce /\ wire' \subseteq wire
    BY <1>3 DEF AcceptWire, AcceptWireTwice, DirInv, TypeOK
  <2>3. Epoch' = Epoch
    BY <2>2 DEF Epoch
  <2> QED BY <2>1, <2>2, <2>3, PassType DEF DirInv, TypeOK
<1>4. CASE PeerSends
  BY <1>4 DEF PeerSends, DirInv, TypeOK, Epoch, Records
<1>5. CASE AmsRestart
  <2>1. calm' \in BOOLEAN
    BY <1>5 DEF AmsRestart
  <2>2. rec' \in Records /\ keys' \in [Gates -> Nodes \cup {None}]
    BY <1>5 DEF AmsRestart, Records, NoRecord, DirInv, TypeOK
  <2>3. seen' \in [Gates -> Seq(1 .. nonce)] /\ \A g \in Gates : Len(seen'[g]) <= Window
    <3>1. <<>> \in Seq(1 .. nonce) /\ Len(<<>>) <= Window
      OBVIOUS
    <3>2. seen' = [seen EXCEPT !["ams"] = <<>>] /\ seen \in [Gates -> Seq(1 .. nonce)]
      BY <1>5 DEF AmsRestart, DirInv, TypeOK
    <3>3. \A g \in Gates : seen'[g] = <<>> \/ seen'[g] = seen[g]
      BY <3>2
    <3>4. \A g \in Gates : Len(seen[g]) <= Window
      BY DEF DirInv, TypeOK
    <3>5. seen' \in [Gates -> Seq(1 .. nonce)]
      BY <3>1, <3>2
    <3> QED BY <3>1, <3>3, <3>4, <3>5
  <2> QED BY <1>5, <2>1, <2>2, <2>3 DEF AmsRestart, DirInv, TypeOK, Epoch
<1>6. CASE UNCHANGED vars
  BY <1>6 DEF vars, DirInv, TypeOK, Epoch
<1> QED BY <1>1, <1>2, <1>3, <1>4, <1>5, <1>6 DEF Next

\* The directory is well typed in every reachable state; in particular the
\* nonce window never outgrows its bound (accept_wire's 8192).
THEOREM DirectoryTypeCorrect == Spec => []TypeOK
<1>1. DirInv => TypeOK
  BY DEF DirInv
<1> QED BY InitDirInv, StepDirInv, <1>1, PTL DEF Spec

\* One step takes AMS's record forward, or a restart empties it.
LEMMA StepForward == DirInv /\ [Next]_vars => [ForwardStep]_vars
<1> SUFFICES ASSUME DirInv, Next
             PROVE  ForwardStep
  BY DEF vars
<1>0. rec.epoch \in Nat
  BY DEF DirInv, TypeOK, Records
<1>1. CASE rec' = rec
  BY <1>0, <1>1 DEF ForwardStep
<1>2. ASSUME NEW m \in wire, Effect(m)
      PROVE  ForwardStep
  <2>1. m.epoch \in Nat
    BY DirectoryAssumption DEF DirInv, TypeOK
  <2>2. CASE m.kind = "bind" /\ MayBind(m)
    BY <1>0, <1>2, <2>1, <2>2 DEF Effect, MayBind, ForwardStep, NoRecord
  <2>3. CASE ~ (m.kind = "bind" /\ MayBind(m))
    BY <1>0, <1>2, <2>3 DEF Effect, ForwardStep
  <2> QED BY <2>2, <2>3
<1>3. ASSUME NEW m \in wire, AcceptWire(m) \/ AcceptWireTwice(m)
      PROVE  ForwardStep
  BY <1>1, <1>2, <1>3 DEF AcceptWire, AcceptWireTwice, Pass, Reject
<1>4. CASE AmsRestart
  BY <1>4 DEF AmsRestart, ForwardStep, NoRecord
<1> QED BY <1>1, <1>3, <1>4 DEF Next, Move, Talk, PeerSends

\* AMS's record never goes back to an earlier epoch, whatever is reordered or
\* sent again, for any nodes and any number of moves.
THEOREM MonotonicHolds == Spec => Monotonic
<1> QED BY InitDirInv, StepDirInv, StepForward, PTL DEF Spec, Monotonic

----------------------------------------------------------------------------
(* The pinned key and the record agree.                                    *)

\* Nonces tell the messages apart, only AMS is sent binds, and a bind is of the
\* move that made it: to the epoch's node, with the handoff of the one before.
WireInv ==
  /\ \A m, k \in wire : m.nonce = k.nonce => m = k
  /\ \A m \in wire : m.kind = "bind" =>
       /\ m.gate = "ams" /\ m.epoch <= Epoch /\ m.node = hist[m.epoch + 1]
       /\ m.epoch > 0 => m.handoff = hist[m.epoch]

\* The agent was at epoch e when it sent m: by the node it was at, after the binds
\* up to that epoch and before the later ones.
SentAt(m, e) ==
  /\ m.node = hist[e + 1]
  /\ \A k \in wire : k.kind = "bind" =>
       IF k.epoch <= e THEN k.nonce <= m.nonce ELSE k.nonce > m.nonce

SentInv == \A m \in wire : \E e \in 0 .. Epoch : SentAt(m, e) /\ (m.kind = "bind" => e = m.epoch)

\* The bind AMS has to see next.
Expected == IF rec = NoRecord THEN 0 ELSE rec.epoch + 1

\* As long as it is calm, the binds under way are those AMS has not seen, the gate
\* remembers nothing that is still to come, key and record are of one epoch, and
\* what AMS will hear was not sent before the bind it heard last.
CalmInv ==
  calm =>
    /\ \A m \in wire : m.kind = "bind" => m.epoch >= Expected
    /\ \A e \in Nat : Expected <= e /\ e <= Epoch => \E m \in wire : m.kind = "bind" /\ m.epoch = e
    /\ \A m \in wire : m.gate = "ams" => m.nonce \notin Range(seen["ams"])
    /\ rec = NoRecord => keys["ams"] = None
    /\ rec # NoRecord => /\ rec.epoch <= Epoch /\ rec.addr = hist[rec.epoch + 1]
                         /\ keys["ams"] = rec.addr
    /\ \A m \in wire : m.gate = "ams" =>
         \E e \in 0 .. Epoch : Expected <= e + 1 /\ SentAt(m, e) /\ (m.kind = "bind" => e = m.epoch)

OrderInv == DirInv /\ WireInv /\ SentInv /\ CalmInv

\* The window remembers nothing but what it remembered and the new nonce.
LEMMA RememberRange ==
  ASSUME NEW k \in Nat, NEW s \in Seq(1 .. k), NEW n \in 1 .. k
  PROVE  Range(Remember(s, n)) \subseteq Range(s) \cup {n}
<1> DEFINE t == Append(s, n)
<1>1. /\ t \in Seq(1 .. k) /\ Len(t) = Len(s) + 1 /\ t # <<>> /\ Len(s) \in Nat
      /\ \A i \in 1 .. Len(t) : t[i] = n \/ (i \in 1 .. Len(s) /\ t[i] = s[i])
  OBVIOUS
<1>2. Range(t) \subseteq Range(s) \cup {n}
  BY <1>1 DEF Range
<1> HIDE DEF t
<1>3. Remember(s, n) = IF Len(t) > Window THEN Tail(t) ELSE t
  BY DEF Remember, t
<1>4. /\ DOMAIN t = 1 .. Len(t) /\ DOMAIN Tail(t) = 1 .. Len(t) - 1 /\ Len(t) \in Nat
      /\ \A i \in 1 .. Len(t) - 1 : Tail(t)[i] = t[i + 1] /\ i + 1 \in 1 .. Len(t)
  BY <1>1
<1>5. Range(Tail(t)) \subseteq Range(t)
  BY <1>4 DEF Range
<1> QED BY <1>2, <1>3, <1>5

\* The next nonce is not in a window.
LEMMA FreshNonce ==
  ASSUME NEW k \in Nat, NEW s \in Seq(1 .. k)
  PROVE  k + 1 \notin Range(s)
<1>1. \A i \in 1 .. Len(s) : s[i] \in 1 .. k
  OBVIOUS
<1>2. DOMAIN s = 1 .. Len(s)
  OBVIOUS
<1>3. \A x \in 1 .. k : x # k + 1
  OBVIOUS
<1> QED BY <1>1, <1>2, <1>3, Zenon DEF Range

\* The host at an epoch stays what it was when the agent moves on.
LEMMA HistLater ==
  ASSUME TypeOK, NEW n \in Nodes, hist' = Append(hist, n)
  PROVE  /\ Epoch \in Nat /\ Epoch' = Epoch + 1 /\ Host = hist[Epoch + 1]
         /\ hist'[Epoch' + 1] = n
         /\ \A e \in 0 .. Epoch : hist'[e + 1] = hist[e + 1]
         /\ \A e \in 1 .. Epoch + 1 : hist'[e] = hist[e]
<1>1. hist \in Seq(Nodes) /\ hist # <<>> /\ Len(hist) \in Nat /\ Len(hist) # 0
  BY DEF TypeOK
<1>2. Len(hist') = Len(hist) + 1 /\ hist'[Len(hist) + 1] = n
      /\ \A i \in 1 .. Len(hist) : hist'[i] = hist[i]
  BY <1>1
<1> QED BY <1>1, <1>2 DEF Epoch, Host, Last

LEMMA HostAt == TypeOK => Epoch \in Nat /\ Host = hist[Epoch + 1]
  BY DEF TypeOK, Epoch, Host, Last

LEMMA InitOrder == Init => OrderInv
<1> SUFFICES ASSUME Init PROVE OrderInv
  OBVIOUS
<1>1. DirInv
  BY InitDirInv
<1> DEFINE m == Msg("ams", "bind", Home, 0, None, 1)
<1>2. /\ m.gate = "ams" /\ m.kind = "bind" /\ m.node = Home /\ m.epoch = 0 /\ m.nonce = 1
      /\ wire = {m} /\ Epoch = 0 /\ hist[1] = Home /\ rec = NoRecord /\ keys["ams"] = None
      /\ Range(seen["ams"]) = {}
  BY DEF Init, Msg, Epoch, Gates, Range
<1> HIDE DEF m
<1>3. WireInv
  BY <1>2 DEF WireInv
<1>a. SentAt(m, 0)
  BY <1>2 DEF SentAt
<1>4. SentInv
  BY <1>2, <1>a DEF SentInv
<1>5. CalmInv
  BY <1>2, <1>a DEF CalmInv, Expected
<1> QED BY <1>1, <1>3, <1>4, <1>5 DEF OrderInv

\* A move sends the bind of the next epoch, after all that was sent before.
LEMMA MoveOrder ==
  ASSUME OrderInv, NEW n \in Nodes, Move(n)
  PROVE  WireInv' /\ SentInv' /\ CalmInv'
<1>a. PICK m : m = Msg("ams", "bind", n, Epoch + 1, Host, nonce + 1)
  OBVIOUS
<1>b. PICK h : h = Epoch + 1
  OBVIOUS
<1>0. /\ TypeOK /\ hist' = Append(hist, n) /\ wire' = wire \cup {m}
      /\ UNCHANGED <<keys, seen, rec, calm>>
  BY <1>a DEF OrderInv, DirInv, Move
<1>1. /\ m.gate = "ams" /\ m.kind = "bind" /\ m.node = n /\ m.epoch = Epoch + 1
      /\ m.handoff = Host /\ m.nonce = nonce + 1
  BY <1>a DEF Msg
<1>2. /\ Epoch \in Nat /\ Epoch' = Epoch + 1 /\ Host = hist[Epoch + 1]
      /\ hist'[Epoch' + 1] = n
      /\ \A e \in 0 .. Epoch : hist'[e + 1] = hist[e + 1]
      /\ \A e \in 1 .. Epoch + 1 : hist'[e] = hist[e]
  BY <1>0, HistLater
<1>3. nonce \in Nat /\ \A k \in wire : k.nonce \in Nat /\ k.nonce <= nonce /\ k.epoch \in Nat
  BY <1>0, DirectoryAssumption DEF TypeOK
<1>4. WireInv'
  <2>1. \A k \in wire : k.nonce # m.nonce
    BY <1>1, <1>3
  <2>2. \A k, l \in wire' : k.nonce = l.nonce => k = l
    BY <1>0, <2>1 DEF OrderInv, WireInv
  <2>3. ASSUME NEW k \in wire, k.kind = "bind"
        PROVE  /\ k.gate = "ams" /\ k.epoch <= Epoch' /\ k.node = hist'[k.epoch + 1]
               /\ k.epoch > 0 => k.handoff = hist'[k.epoch]
    <3>1. /\ k.gate = "ams" /\ k.epoch <= Epoch /\ k.node = hist[k.epoch + 1]
          /\ k.epoch > 0 => k.handoff = hist[k.epoch]
      BY <2>3 DEF OrderInv, WireInv
    <3>2. k.epoch \in 0 .. Epoch /\ k.epoch <= Epoch' /\ (k.epoch > 0 => k.epoch \in 1 .. Epoch + 1)
      BY <1>2, <1>3, <3>1
    <3> QED BY <1>2, <3>1, <3>2
  <2>4. /\ m.gate = "ams" /\ m.epoch <= Epoch' /\ m.node = hist'[m.epoch + 1]
        /\ m.epoch > 0 => m.handoff = hist'[m.epoch]
    <3>1. Epoch + 1 \in 1 .. Epoch + 1 /\ Epoch + 1 <= Epoch + 1
      BY <1>2
    <3> QED BY <1>1, <1>2, <3>1
  <2> QED BY <1>0, <2>2, <2>3, <2>4 DEF WireInv
<1>c. ASSUME NEW k \in wire, NEW e \in 0 .. Epoch, SentAt(k, e)
      PROVE  e \in 0 .. Epoch' /\ SentAt(k, e)'
  <2>1. e \in 0 .. Epoch' /\ ~ (m.epoch <= e) /\ m.nonce > k.nonce
    BY <1>1, <1>2, <1>3
  <2>2. k.node = hist'[e + 1]
    BY <1>2, <1>c DEF SentAt
  <2> QED BY <1>0, <1>c, <2>1, <2>2 DEF SentAt
<1>d. SentAt(m, h)' /\ h \in 0 .. Epoch' /\ h = m.epoch
  <2>1. m.node = hist'[h + 1]
    BY <1>1, <1>2, <1>b
  <2>2. \A k \in wire : k.nonce <= m.nonce
    BY <1>1, <1>3
  <2>3. \A k \in wire : k.kind = "bind" => k.epoch <= h
    BY <1>2, <1>3, <1>b DEF OrderInv, WireInv
  <2>4. m.nonce <= m.nonce /\ m.epoch <= h
    BY <1>1, <1>2, <1>3, <1>b
  <2>5. SentAt(m, h)'
    BY <1>0, <2>1, <2>2, <2>3, <2>4 DEF SentAt
  <2> QED BY <1>1, <1>2, <1>b, <2>5
<1>5. SentInv'
  <2>1. \A k \in wire : \E e \in 0 .. Epoch' : SentAt(k, e)' /\ (k.kind = "bind" => e = k.epoch)
    BY <1>c DEF OrderInv, SentInv
  <2> QED BY <1>0, <1>1, <1>d, <2>1 DEF SentInv
<1>6. CalmInv'
  <2> SUFFICES ASSUME calm
               PROVE  /\ \A k \in wire' : k.kind = "bind" => k.epoch >= Expected
                      /\ \A e \in Nat : Expected <= e /\ e <= Epoch'
                            => \E k \in wire' : k.kind = "bind" /\ k.epoch = e
                      /\ \A k \in wire' : k.gate = "ams" => k.nonce \notin Range(seen["ams"])
                      /\ rec = NoRecord => keys["ams"] = None
                      /\ rec # NoRecord => /\ rec.epoch <= Epoch' /\ rec.addr = hist'[rec.epoch + 1]
                                           /\ keys["ams"] = rec.addr
                      /\ \A k \in wire' : k.gate = "ams" =>
                           \E e \in 0 .. Epoch' : /\ Expected <= e + 1 /\ SentAt(k, e)'
                                                  /\ k.kind = "bind" => e = k.epoch
    BY <1>0 DEF CalmInv, Expected
  <2>1. /\ \A k \in wire : k.kind = "bind" => k.epoch >= Expected
        /\ \A e \in Nat : Expected <= e /\ e <= Epoch
              => \E k \in wire : k.kind = "bind" /\ k.epoch = e
        /\ \A k \in wire : k.gate = "ams" => k.nonce \notin Range(seen["ams"])
        /\ rec = NoRecord => keys["ams"] = None
        /\ rec # NoRecord => /\ rec.epoch <= Epoch /\ rec.addr = hist[rec.epoch + 1]
                             /\ keys["ams"] = rec.addr
        /\ \A k \in wire : k.gate = "ams" =>
             \E e \in 0 .. Epoch : Expected <= e + 1 /\ SentAt(k, e) /\ (k.kind = "bind" => e = k.epoch)
    BY DEF OrderInv, CalmInv
  <2>2. rec.epoch \in Nat /\ Expected \in Nat /\ Expected <= Epoch + 1
    BY <1>0, <1>2, <2>1 DEF TypeOK, Records, Expected
  <2>3. \A k \in wire' : k.kind = "bind" => k.epoch >= Expected
    BY <1>0, <1>1, <1>2, <2>1, <2>2
  <2>4. \A e \in Nat : Expected <= e /\ e <= Epoch'
            => \E k \in wire' : k.kind = "bind" /\ k.epoch = e
    <3>1. \A e \in Nat : e <= Epoch' => e <= Epoch \/ e = Epoch + 1
      BY <1>2
    <3> QED BY <1>0, <1>1, <2>1, <3>1
  <2>5. nonce + 1 \notin Range(seen["ams"])
    <3>1. seen["ams"] \in Seq(1 .. nonce)
      BY <1>0 DEF TypeOK, Gates
    <3> QED BY <1>3, <3>1, FreshNonce
  <2>6. rec # NoRecord => /\ rec.epoch <= Epoch' /\ rec.addr = hist'[rec.epoch + 1]
                          /\ keys["ams"] = rec.addr
    BY <1>2, <2>1, <2>2
  <2>7. ASSUME NEW k \in wire', k.gate = "ams"
        PROVE  \E e \in 0 .. Epoch' : /\ Expected <= e + 1 /\ SentAt(k, e)'
                                      /\ k.kind = "bind" => e = k.epoch
    <3>1. CASE k \in wire
      BY <1>c, <2>1, <2>7, <3>1
    <3>2. CASE k = m
      BY <1>1, <1>2, <1>b, <1>d, <2>2, <3>2
    <3> QED BY <1>0, <3>1, <3>2
  <2> QED BY <1>0, <1>1, <2>1, <2>3, <2>4, <2>5, <2>6, <2>7
<1> QED BY <1>4, <1>5, <1>6

\* So does a message; it binds nothing.
LEMMA TalkOrder ==
  ASSUME OrderInv, NEW g \in Gates, Talk(g)
  PROVE  WireInv' /\ SentInv' /\ CalmInv'
<1>a. PICK m : m = Msg(g, "talk", Host, 0, None, nonce + 1)
  OBVIOUS
<1>b. PICK h : h = Epoch
  OBVIOUS
<1>0. /\ TypeOK /\ wire' = wire \cup {m}
      /\ UNCHANGED <<hist, keys, seen, rec, calm>> /\ Epoch' = Epoch
  BY <1>a DEF OrderInv, DirInv, Talk, Epoch
<1>1. m.kind = "talk" /\ m.node = Host /\ m.nonce = nonce + 1
  BY <1>a DEF Msg
<1>2. Epoch \in Nat /\ Host = hist[Epoch + 1]
  BY <1>0, HostAt
<1>3. nonce \in Nat /\ \A k \in wire : k.nonce \in Nat /\ k.nonce <= nonce
  BY <1>0 DEF TypeOK
<1>4. WireInv'
  <2>1. \A k \in wire : k.nonce # m.nonce
    BY <1>1, <1>3
  <2>2. \A k, l \in wire' : k.nonce = l.nonce => k = l
    BY <1>0, <2>1 DEF OrderInv, WireInv
  <2> QED BY <1>0, <1>1, <2>2 DEF OrderInv, WireInv
<1>c. ASSUME NEW k \in wire, NEW e \in 0 .. Epoch, SentAt(k, e) PROVE SentAt(k, e)'
  BY <1>0, <1>1, <1>c DEF SentAt
<1>d. SentAt(m, h)' /\ h \in 0 .. Epoch'
  <2>1. \A k \in wire : k.nonce <= m.nonce
    BY <1>1, <1>3
  <2>2. \A k \in wire : k.kind = "bind" => k.epoch <= h
    BY <1>b DEF OrderInv, WireInv
  <2> QED BY <1>0, <1>1, <1>2, <1>b, <2>1, <2>2 DEF SentAt
<1>5. SentInv'
  <2>1. \A k \in wire : \E e \in 0 .. Epoch' : SentAt(k, e)' /\ (k.kind = "bind" => e = k.epoch)
    BY <1>0, <1>c DEF OrderInv, SentInv
  <2> QED BY <1>0, <1>1, <1>d, <2>1 DEF SentInv
<1>6. CalmInv'
  <2> SUFFICES ASSUME calm PROVE CalmInv'
    BY <1>0 DEF CalmInv
  <2>1. nonce + 1 \notin Range(seen["ams"])
    <3>1. seen["ams"] \in Seq(1 .. nonce)
      BY <1>0 DEF TypeOK, Gates
    <3> QED BY <1>3, <3>1, FreshNonce
  <2>2. rec.epoch \in Nat /\ Expected <= Epoch + 1 /\ Expected' = Expected
    <3>1. rec # NoRecord => rec.epoch <= Epoch
      BY DEF OrderInv, CalmInv
    <3>2. rec.epoch \in Nat
      BY <1>0 DEF TypeOK, Records
    <3> QED BY <1>0, <1>2, <3>1, <3>2 DEF Expected
  <2>3. ASSUME NEW k \in wire', k.gate = "ams"
        PROVE  \E e \in 0 .. Epoch' : /\ Expected <= e + 1 /\ SentAt(k, e)'
                                      /\ k.kind = "bind" => e = k.epoch
    <3>1. CASE k \in wire
      <4>1. PICK e \in 0 .. Epoch : /\ Expected <= e + 1 /\ SentAt(k, e)
                                    /\ k.kind = "bind" => e = k.epoch
        BY <2>3, <3>1 DEF OrderInv, CalmInv
      <4> QED BY <1>0, <1>c, <3>1, <4>1
    <3>2. CASE k = m
      BY <1>1, <1>b, <1>d, <2>2, <3>2
    <3> QED BY <1>0, <3>1, <3>2
  <2>4. /\ \A k \in wire' : k.kind = "bind" => k.epoch >= Expected
        /\ \A e \in Nat : Expected <= e /\ e <= Epoch
              => \E k \in wire' : k.kind = "bind" /\ k.epoch = e
        /\ \A k \in wire' : k.gate = "ams" => k.nonce \notin Range(seen["ams"])
        /\ rec = NoRecord => keys["ams"] = None
        /\ rec # NoRecord => /\ rec.epoch <= Epoch /\ rec.addr = hist[rec.epoch + 1]
                             /\ keys["ams"] = rec.addr
    BY <1>0, <1>1, <2>1 DEF OrderInv, CalmInv
  <2> QED BY <1>0, <2>2, <2>3, <2>4 DEF CalmInv
<1> QED BY <1>4, <1>5, <1>6

\* In a calm state the first message to AMS is the bind it expects, which its gate
\* lets through and AMS believes, or it is from the node that the key is of.
LEMMA FirstToAms ==
  ASSUME OrderInv, calm, NEW m \in wire, m.gate = "ams", InOrder(m)
  PROVE  /\ Authorized("ams", m)
         /\ m.nonce \notin Range(seen["ams"])
         /\ m.kind = "bind" => m.epoch = Expected /\ MayBind(m)
         /\ m.kind # "bind" => rec # NoRecord /\ m.node = keys["ams"]
<1>1. /\ TypeOK /\ Epoch \in Nat /\ rec.epoch \in Nat
      /\ \A k \in wire : k.nonce \in Nat /\ k.epoch \in Nat /\ k.kind \in {"bind", "talk"}
  <2>1. TypeOK
    BY DEF OrderInv, DirInv
  <2>2. Epoch \in Nat
    BY <2>1, HostAt
  <2>3. rec.epoch \in Nat
    BY <2>1 DEF TypeOK, Records
  <2>4. \A k \in wire : k.nonce \in Nat /\ k.epoch \in Nat /\ k.kind \in {"bind", "talk"}
    BY <2>1, DirectoryAssumption DEF TypeOK
  <2> QED BY <2>1, <2>2, <2>3, <2>4
<1>2. /\ \A k \in wire : k.kind = "bind" => k.epoch >= Expected /\ k.gate = "ams"
      /\ \A e \in Nat : Expected <= e /\ e <= Epoch
            => \E k \in wire : k.kind = "bind" /\ k.epoch = e
      /\ m.nonce \notin Range(seen["ams"])
      /\ rec = NoRecord => keys["ams"] = None
      /\ rec # NoRecord => /\ rec.epoch <= Epoch /\ rec.addr = hist[rec.epoch + 1]
                           /\ keys["ams"] = rec.addr
  BY DEF OrderInv, CalmInv, WireInv
<1>3. PICK e \in 0 .. Epoch :
         Expected <= e + 1 /\ SentAt(m, e) /\ (m.kind = "bind" => e = m.epoch)
  BY DEF OrderInv, CalmInv
<1>4. Expected \in Nat /\ e \in Nat /\ e <= Epoch
  BY <1>1, <1>3 DEF Expected
\* No other bind of an epoch up to e is under way.
<1>5. ASSUME NEW k \in wire, k.kind = "bind", k.epoch <= e PROVE k = m
  <2>1. k.nonce <= m.nonce /\ m.nonce <= k.nonce
    BY <1>2, <1>3, <1>5 DEF SentAt, InOrder
  <2>2. k.nonce = m.nonce
    BY <1>1, <2>1
  <2> QED BY <2>2 DEF OrderInv, WireInv
<1>6. CASE m.kind = "bind"
  <2>1. m.epoch = e /\ e >= Expected
    BY <1>2, <1>3, <1>6
  <2>a. Expected <= Expected /\ Expected <= Epoch
    BY <1>1, <1>4, <2>1
  <2>2. PICK k \in wire : k.kind = "bind" /\ k.epoch = Expected
    BY <1>2, <1>4, <2>a
  <2>3. m.epoch = Expected
    BY <1>5, <2>1, <2>2
  <2>4. MayBind(m)
    <3>1. rec # NoRecord => m.epoch = rec.epoch + 1
      BY <2>3 DEF Expected
    <3> QED BY <1>1, <3>1 DEF MayBind
  <2>5. Authorized("ams", m)
    <3>1. CASE rec = NoRecord
      BY <1>2, <3>1 DEF Authorized
    <3>2. CASE rec # NoRecord
      <4>1. m.epoch = rec.epoch + 1 /\ m.epoch > 0
        BY <1>1, <2>3, <3>2 DEF Expected
      <4>2. m.handoff = hist[m.epoch]
        BY <1>6, <4>1 DEF OrderInv, WireInv
      <4>3. keys["ams"] = m.handoff
        BY <1>2, <3>2, <4>1, <4>2
      <4> QED BY <4>3 DEF Authorized, HandoffAuthorizes
    <3> QED BY <3>1, <3>2
  <2> QED BY <1>2, <1>6, <2>3, <2>4, <2>5
<1>7. CASE m.kind # "bind"
  <2>1. ~ (Expected <= e)
    <3> SUFFICES ASSUME Expected <= e PROVE FALSE
      OBVIOUS
    <3>1. Expected <= Epoch
      BY <1>1, <1>4
    <3>2. PICK k \in wire : k.kind = "bind" /\ k.epoch = Expected
      BY <1>2, <1>4, <3>1
    <3> QED BY <1>5, <1>7, <3>2
  <2>2. Expected = e + 1
    BY <1>3, <1>4, <2>1
  <2>3. rec # NoRecord /\ e = rec.epoch
    BY <1>1, <1>4, <2>2 DEF Expected
  <2>4. m.node = keys["ams"]
    BY <1>2, <1>3, <2>3 DEF SentAt
  <2> QED BY <1>2, <1>7, <2>3, <2>4 DEF Authorized
<1> QED BY <1>6, <1>7

\* A message that arrives takes key and record on together, if it is calm.
LEMMA AcceptOrder ==
  ASSUME OrderInv, NEW m \in wire, AcceptWire(m) \/ AcceptWireTwice(m)
  PROVE  WireInv' /\ SentInv' /\ CalmInv'
<1>0. /\ TypeOK /\ hist' = hist /\ Epoch' = Epoch /\ wire' \subseteq wire
      /\ Epoch \in Nat /\ rec.epoch \in Nat
      /\ \A k \in wire : k.epoch \in Nat /\ k.nonce \in Nat /\ k.node \in Nodes /\ k.gate \in Gates
  <2>1. TypeOK /\ hist' = hist /\ wire' \subseteq wire
    BY DEF OrderInv, DirInv, AcceptWire, AcceptWireTwice
  <2>2. Epoch' = Epoch /\ Epoch \in Nat
    BY <2>1, HostAt DEF Epoch
  <2>3. /\ rec.epoch \in Nat
        /\ \A k \in wire : k.epoch \in Nat /\ k.nonce \in Nat /\ k.node \in Nodes /\ k.gate \in Gates
    BY <2>1, DirectoryAssumption DEF TypeOK, Records
  <2> QED BY <2>1, <2>2, <2>3
<1>1. WireInv'
  BY <1>0 DEF OrderInv, WireInv
<1>2. \A k \in wire, e \in 0 .. Epoch : SentAt(k, e) => SentAt(k, e)'
  BY <1>0 DEF SentAt
<1>3. SentInv'
  BY <1>0, <1>2 DEF OrderInv, SentInv
<1>4. CalmInv'
  <2> SUFFICES ASSUME calm' PROVE CalmInv'
    BY DEF CalmInv
  <2>1. calm /\ InOrder(m) /\ wire' = wire \ {m} /\ (Pass(m) \/ Reject(m))
    BY DEF AcceptWire, AcceptWireTwice
  <2>2. /\ \A k \in wire : k.kind = "bind" => k.epoch >= Expected /\ k.gate = "ams"
        /\ \A e \in Nat : Expected <= e /\ e <= Epoch
              => \E k \in wire : k.kind = "bind" /\ k.epoch = e
        /\ \A k \in wire : k.gate = "ams" => k.nonce \notin Range(seen["ams"])
        /\ rec = NoRecord => keys["ams"] = None
        /\ rec # NoRecord => /\ rec.epoch <= Epoch /\ rec.addr = hist[rec.epoch + 1]
                             /\ keys["ams"] = rec.addr
        /\ \A k \in wire : k.gate = "ams" =>
             \E e \in 0 .. Epoch : /\ Expected <= e + 1 /\ SentAt(k, e)
                                   /\ k.kind = "bind" => e = k.epoch
    BY <2>1 DEF OrderInv, CalmInv, WireInv
  <2>3. CASE m.gate # "ams"
    <3>1. m.kind # "bind"
      BY <2>2, <2>3
    <3>2. rec' = rec
      BY <2>1, <3>1 DEF Pass, Reject, Effect
    <3>3. keys'["ams"] = keys["ams"] /\ seen'["ams"] = seen["ams"]
      <4>1. keys \in [Gates -> Nodes \cup {None}] /\ seen \in [Gates -> Seq(1 .. nonce)]
        BY <1>0 DEF TypeOK
      <4>2. "ams" \in Gates
        BY DEF Gates
      <4> QED BY <1>0, <2>1, <2>3, <4>1, <4>2 DEF Pass, Reject
    <3>4. Expected' = Expected
      BY <3>2 DEF Expected
    <3>5. \A e \in Nat : Expected <= e /\ e <= Epoch
              => \E k \in wire' : k.kind = "bind" /\ k.epoch = e
      BY <2>1, <2>2, <3>1
    <3>6. \A k \in wire' : k.gate = "ams" =>
             \E e \in 0 .. Epoch : /\ Expected <= e + 1 /\ SentAt(k, e)'
                                   /\ k.kind = "bind" => e = k.epoch
      BY <1>0, <1>2, <2>2
    <3> QED BY <1>0, <2>2, <3>2, <3>3, <3>4, <3>5, <3>6 DEF CalmInv
  <2>4. CASE m.gate = "ams"
    <3>1. /\ Authorized("ams", m)
          /\ m.nonce \notin Range(seen["ams"])
          /\ m.kind = "bind" => m.epoch = Expected /\ MayBind(m)
          /\ m.kind # "bind" => rec # NoRecord /\ m.node = keys["ams"]
      BY <2>1, <2>4, FirstToAms
    <3>2. /\ Pass(m) /\ Effect(m)
          /\ seen' = [seen EXCEPT !["ams"] = Remember(seen["ams"], m.nonce)]
          /\ keys' = [keys EXCEPT !["ams"] = m.node]
      BY <2>1, <2>4, <3>1 DEF Pass, Reject
    <3>3. /\ keys'["ams"] = m.node
          /\ seen'["ams"] = Remember(seen["ams"], m.nonce)
          /\ seen["ams"] \in Seq(1 .. nonce) /\ nonce \in Nat /\ m.nonce \in 1 .. nonce
      <4>1. keys \in [Gates -> Nodes \cup {None}] /\ seen \in [Gates -> Seq(1 .. nonce)]
        BY <1>0 DEF TypeOK
      <4>2. nonce \in Nat /\ m.nonce \in 1 .. nonce
        BY <1>0 DEF TypeOK
      <4> QED BY <3>2, <4>1, <4>2 DEF Gates
    <3>4. Range(seen'["ams"]) \subseteq Range(seen["ams"]) \cup {m.nonce}
      BY <3>3, RememberRange
    <3>5. \A k \in wire' : k.gate = "ams" => k.nonce \notin Range(seen'["ams"])
      <4>1. \A k \in wire' : k \in wire /\ k.nonce # m.nonce
        BY <2>1 DEF OrderInv, WireInv
      <4> QED BY <2>2, <3>4, <4>1
    <3>6. CASE m.kind = "bind"
      <4>1. rec' = [addr |-> m.node, epoch |-> m.epoch]
        BY <3>1, <3>2, <3>6 DEF Effect
      <4>2. /\ rec'.addr = m.node /\ rec'.epoch = m.epoch /\ rec' # NoRecord
        BY <1>0, <4>1, DirectoryAssumption DEF NoRecord
      <4>3. m.epoch <= Epoch /\ m.node = hist[m.epoch + 1] /\ m.epoch = Expected /\ m.epoch \in Nat
        BY <1>0, <3>1, <3>6 DEF OrderInv, WireInv
      <4>4. Expected' = m.epoch + 1
        BY <4>2 DEF Expected
      <4>5. ASSUME NEW k \in wire', NEW e \in 0 .. Epoch, SentAt(k, e), k.gate = "ams"
            PROVE  m.epoch <= e
        <5>1. m.nonce <= k.nonce
          BY <1>0, <2>1, <2>4, <4>5 DEF InOrder
        <5>2. IF m.epoch <= e THEN m.nonce <= k.nonce ELSE m.nonce > k.nonce
          BY <3>6, <4>5 DEF SentAt
        <5> QED BY <1>0, <4>5, <5>1, <5>2
      <4>6. \A k \in wire' : k.kind = "bind" => k.epoch >= m.epoch + 1
        <5> SUFFICES ASSUME NEW k \in wire', k.kind = "bind" PROVE k.epoch >= m.epoch + 1
          OBVIOUS
        <5>1. k \in wire /\ k # m /\ k.epoch \in Nat
          BY <1>0, <2>1
        <5>2. k.epoch >= m.epoch
          BY <2>2, <4>3, <5>1
        <5>3. k.epoch # m.epoch
          <6> SUFFICES ASSUME k.epoch = m.epoch PROVE FALSE
            OBVIOUS
          <6>1. PICK e \in 0 .. Epoch : SentAt(m, e) /\ e = m.epoch
            BY <3>6 DEF OrderInv, SentInv
          <6>2. k.epoch <= e
            BY <4>3, <6>1
          <6>3. k.nonce <= m.nonce
            BY <5>1, <6>1, <6>2 DEF SentAt
          <6>4. m.nonce <= k.nonce
            BY <2>1, <2>2, <2>4, <5>1 DEF InOrder
          <6>5. k.nonce = m.nonce
            BY <1>0, <5>1, <6>3, <6>4
          <6> QED BY <5>1, <6>5 DEF OrderInv, WireInv
        <5> QED BY <4>3, <5>1, <5>2, <5>3
      <4>7. \A e \in Nat : m.epoch + 1 <= e /\ e <= Epoch
              => \E k \in wire' : k.kind = "bind" /\ k.epoch = e
        <5> SUFFICES ASSUME NEW e \in Nat, m.epoch + 1 <= e, e <= Epoch
                     PROVE  \E k \in wire' : k.kind = "bind" /\ k.epoch = e
          OBVIOUS
        <5>1. Expected <= e /\ e # m.epoch
          BY <4>3
        <5> QED BY <2>1, <2>2, <5>1
      <4>8. \A k \in wire' : k.gate = "ams" =>
             \E e \in 0 .. Epoch : /\ m.epoch + 1 <= e + 1 /\ SentAt(k, e)'
                                   /\ k.kind = "bind" => e = k.epoch
        <5> SUFFICES ASSUME NEW k \in wire', k.gate = "ams"
                     PROVE  \E e \in 0 .. Epoch : /\ m.epoch + 1 <= e + 1 /\ SentAt(k, e)'
                                                  /\ k.kind = "bind" => e = k.epoch
          OBVIOUS
        <5>1. PICK e \in 0 .. Epoch : SentAt(k, e) /\ (k.kind = "bind" => e = k.epoch)
          BY <1>0, <2>2
        <5>2. m.epoch <= e
          BY <4>5, <5>1
        <5>3. m.epoch + 1 <= e + 1
          BY <4>3, <5>2
        <5> QED BY <1>0, <1>2, <5>1, <5>3
      <4> QED BY <1>0, <3>3, <3>5, <4>2, <4>3, <4>4, <4>6, <4>7, <4>8 DEF CalmInv
    <3>7. CASE m.kind # "bind"
      <4>1. rec' = rec /\ Expected' = Expected
        BY <3>2, <3>7 DEF Effect, Expected
      <4>2. \A e \in Nat : Expected <= e /\ e <= Epoch
              => \E k \in wire' : k.kind = "bind" /\ k.epoch = e
        BY <2>1, <2>2, <3>7
      <4>3. \A k \in wire' : k.gate = "ams" =>
             \E e \in 0 .. Epoch : /\ Expected <= e + 1 /\ SentAt(k, e)'
                                   /\ k.kind = "bind" => e = k.epoch
        BY <1>0, <1>2, <2>2
      <4>4. rec # NoRecord => /\ rec.epoch <= Epoch /\ rec.addr = hist[rec.epoch + 1]
                              /\ keys'["ams"] = rec.addr
        BY <2>2, <3>1, <3>3, <3>7
      <4> QED BY <1>0, <2>2, <3>1, <3>5, <3>7, <4>1, <4>2, <4>3, <4>4 DEF CalmInv
    <3> QED BY <3>6, <3>7
  <2> QED BY <2>3, <2>4
<1> QED BY <1>1, <1>3, <1>4

\* Every step keeps the order.
LEMMA StepOrder == OrderInv /\ [Next]_vars => OrderInv'
<1> SUFFICES ASSUME OrderInv, [Next]_vars PROVE WireInv' /\ SentInv' /\ CalmInv'
  BY StepDirInv DEF OrderInv
<1>1. CASE UNCHANGED <<hist, wire, keys, seen, rec, calm>>
  <2>1. Epoch' = Epoch /\ Expected' = Expected
    BY <1>1 DEF Epoch, Expected
  <2>2. \A k, e : SentAt(k, e)' = SentAt(k, e)
    BY <1>1 DEF SentAt
  <2>3. WireInv'
    BY <1>1, <2>1 DEF OrderInv, WireInv
  <2>4. SentInv'
    BY <1>1, <2>1, <2>2 DEF OrderInv, SentInv
  <2>5. CalmInv'
    BY <1>1, <2>1, <2>2 DEF OrderInv, CalmInv
  <2> QED BY <2>3, <2>4, <2>5
<1>2. CASE AmsRestart
  <2>1. UNCHANGED <<hist, wire>> /\ ~ calm' /\ Epoch' = Epoch
    BY <1>2 DEF AmsRestart, Epoch
  <2>2. \A k, e : SentAt(k, e)' = SentAt(k, e)
    BY <2>1 DEF SentAt
  <2> QED BY <2>1, <2>2 DEF OrderInv, WireInv, SentInv, CalmInv
<1> QED BY <1>1, <1>2, MoveOrder, TalkOrder, AcceptOrder DEF Next, PeerSends, vars

\* AMS and its gate are well formed, and while messages arrive in order the key
\* the gate has pinned is the key of the node that AMS gives out, for any nodes
\* and any number of moves and messages.
THEOREM DirectorySafeHolds == Spec => []DirectorySafe
<1>1. OrderInv => DirectorySafe
  BY DEF OrderInv, DirInv, CalmInv, DirectorySafe, KeyIsHost
<1> QED BY InitOrder, StepOrder, <1>1, PTL DEF Spec
=============================================================================
